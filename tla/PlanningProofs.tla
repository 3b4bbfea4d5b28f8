--------------------------- MODULE PlanningProofs ---------------------------
(***************************************************************************)
(* What a student's edits leave of the preferences and of the plan, for    *)
(* any report, planning window, edits and what-ifs of PlanEdits; what the  *)
(* days leave of the window of a course in progress, for any rows and days *)
(* of IpCalendar; what the sections offered for a term are, for any        *)
(* listings, terms, wishes and times of Sections; and that what the        *)
(* screens of PlanViews tell of two plans is true of them, for any plans.  *)
(***************************************************************************)
EXTENDS PlanEdits, IpCalendar, Sections, PlanViews, ListProofs

-----------------------------------------------------------------------------
(* What holds between the plan and the preferences it was solved from.     *)

PrefFields == {"pins", "excluded", "summer", "jterm", "style", "termStyle", "scheduling", "soft"}
IsPrefs(q) == q = [f \in PrefFields |-> q[f]]

ExcludedCourses(q) == {e[1] : e \in q.excluded}
Pinned(q, course, term) == \E x \in q.pins : x.course = course /\ x.term = term

\* Every course of a plan is pinned there or not excluded from anywhere, and
\* an open slot is in the window and the only one of its requirement.
Drawn(p, q) ==
  /\ \A s \in p : s.kind = "specific" =>
       Pinned(q, s.course, s.term) \/ s.course \notin ExcludedCourses(q)
  /\ \A s \in p : s.kind = "placeholder" => s.term \in Window(q)
  /\ \A s, x \in p : s.kind = "placeholder" /\ x.kind = "placeholder" /\ s.id = x.id => s = x

\* A dropped course is excluded, and pinned at most in another term.
StaysDropped(d, q) ==
  /\ d[1] \in ExcludedCourses(q)
  /\ \A x \in q.pins : x.course = d[1] => d[2] # None /\ d[2] # x.term

\* The preview is one of the plan and the preferences there are.
PreviewHolds ==
  /\ preview.kind = "whatif" => Drawn(preview.plan, prefs)
  /\ preview.kind = "bind" =>
       \E s \in FindPlaceholderSlot(plan, preview.slot) :
         preview.term = s.term /\ (preview.accepted => IsOffered(preview.course, s.term))

EditsInv ==
  /\ IsPrefs(prefs)
  /\ Drawn(plan, prefs)
  /\ \A d \in dropped : StaysDropped(d, prefs)
  /\ PreviewHolds

-----------------------------------------------------------------------------
(* The plans of a report and preferences.                                  *)

LEMMA SlotFields ==
    ASSUME NEW kind, NEW course, NEW term, NEW rId, NEW id, NEW members
    PROVE  LET s == EditSlot(kind, course, term, rId, id, members)
           IN  /\ s.kind = kind /\ s.course = course /\ s.term = term
               /\ s.rId = rId /\ s.id = id /\ s.members = members
  BY DEF EditSlot

LEMMA PinnedSlotsArePinned ==
    ASSUME NEW r, NEW q, NEW s \in PinnedSlots(r, q)
    PROVE  s.kind = "specific" /\ Pinned(q, s.course, s.term)
  BY SlotFields DEF PinnedSlots, Pinned

LEMMA ChoicesAreServable ==
    ASSUME NEW l, NEW r, NEW q, NEW s \in SlotChoices(l, r, q)
    PROVE  /\ s.kind = "specific" => s.course \notin ExcludedCourses(q)
           /\ s.kind = "placeholder" => s.term \in Window(q) /\ s.id = l
  <1> DEFINE cs == Servable(r, l, q)
  <1>1. \A c \in cs : c \notin ExcludedCourses(q)
    BY DEF Servable, ExcludedCourses
  <1> HIDE DEF cs
  <1>2. \/ \E t \in Window(q) : s = EditSlot("placeholder", "none", t, l, l, cs)
        \/ \E c \in cs, t \in Window(q) : s = EditSlot("specific", c, t, l, "none", {})
    BY DEF SlotChoices, cs
  <1> QED
    BY <1>1, <1>2, SlotFields

\* Every plan has the pins that fit, and is drawn from its preferences.
LEMMA PlansAreDrawn ==
    ASSUME NEW r, NEW q, NEW p \in Plans(r, q)
    PROVE  Drawn(p, q) /\ PinnedSlots(r, q) \subseteq p
  <1> DEFINE fixed == FixedSlots(r, q)
             open == {l \in DOMAIN r.leaves : ~r.leaves[l].satisfied} \ {s.rId : s \in fixed}
  <1>1. PICK f : /\ p = fixed \cup {f[l] : l \in open}
                 /\ \A l \in open : f[l] \in SlotChoices(l, r, q)
    BY DEF Plans
  <1>2. \A s \in fixed : s.kind = "in_progress" \/ s \in PinnedSlots(r, q)
    BY SlotFields DEF FixedSlots
  <1>3. \A s \in fixed : /\ s.kind # "placeholder"
                         /\ s.kind = "specific" => Pinned(q, s.course, s.term)
    BY <1>2, PinnedSlotsArePinned
  <1>4. PinnedSlots(r, q) \subseteq p
    BY <1>1 DEF FixedSlots
  <1> HIDE DEF fixed, open
  <1>5. \A l \in open : /\ f[l].kind = "specific" => f[l].course \notin ExcludedCourses(q)
                        /\ f[l].kind = "placeholder" => f[l].term \in Window(q) /\ f[l].id = l
    BY <1>1, ChoicesAreServable
  <1>6. \A s \in p : s \in fixed \/ \E l \in open : s = f[l]
    BY <1>1
  <1>7. Drawn(p, q)
    BY <1>3, <1>5, <1>6 DEF Drawn
  <1> QED
    BY <1>4, <1>7

-----------------------------------------------------------------------------
(* What one edit does to the preferences.                                  *)

\* An edit with its bind resolved: a pin in the term of the open slot.
LEMMA EditParts ==
    ASSUME NEW m \in Edits, NEW resolved, resolved = ResolveBindMutation(plan, m)
    PROVE  /\ resolved.course = m.course
           /\ m.kind = "bind" /\ FindPlaceholderSlot(plan, m.slot) # {} =>
                /\ resolved.kind = "pin"
                /\ \E s \in FindPlaceholderSlot(plan, m.slot) : resolved.term = s.term
           /\ ~(m.kind = "bind" /\ FindPlaceholderSlot(plan, m.slot) # {}) => resolved = m
  <1>1. CASE m.kind = "bind" /\ FindPlaceholderSlot(plan, m.slot) # {}
    <2> DEFINE slot == CHOOSE s \in FindPlaceholderSlot(plan, m.slot) : TRUE
    <2>1. slot \in FindPlaceholderSlot(plan, m.slot)
      BY <1>1
    <2>2. resolved = [m EXCEPT !.kind = "pin", !.term = slot.term]
      BY <1>1 DEF ResolveBindMutation
    <2> HIDE DEF slot
    <2>3. resolved.kind = "pin" /\ resolved.term = slot.term /\ resolved.course = m.course
      BY <2>2, EditsAssumption DEF EditFields
    <2> QED
      BY <1>1, <2>1, <2>3
  <1>2. CASE ~(m.kind = "bind" /\ FindPlaceholderSlot(plan, m.slot) # {})
    BY <1>2 DEF ResolveBindMutation
  <1> QED
    BY <1>1, <1>2

LEMMA PinToSets ==
    ASSUME NEW q, IsPrefs(q), NEW course, NEW term
    PROVE  /\ IsPrefs(PinTo(q, course, term))
           /\ PinTo(q, course, term).pins = q.pins \cup {[course |-> course, term |-> term]}
           /\ PinTo(q, course, term).excluded = q.excluded
           /\ PinTo(q, course, term).summer = q.summer /\ PinTo(q, course, term).jterm = q.jterm
  BY DEF IsPrefs, PrefFields, PinTo

LEMMA ExcludeSets ==
    ASSUME NEW q, IsPrefs(q), NEW course, NEW term
    PROVE  /\ IsPrefs(Exclude(q, course, term))
           /\ Exclude(q, course, term).pins = ReleasedPins(q.pins, course, term)
           /\ Exclude(q, course, term).excluded = q.excluded \cup {<<course, term>>}
           /\ IsPrefs(ExcludeOnly(q, course, term))
           /\ ExcludeOnly(q, course, term).pins = q.pins
           /\ ExcludeOnly(q, course, term).excluded =
                {e \in q.excluded : e[1] # course} \cup {<<course, term>>}
  BY DEF IsPrefs, PrefFields, Exclude, ExcludeOnly

\* Excluding a course from elsewhere lets no course in again.
LEMMA ExcludeOnlyKeeps ==
    ASSUME NEW q, IsPrefs(q), NEW course, NEW term
    PROVE  ExcludedCourses(q) \subseteq ExcludedCourses(ExcludeOnly(q, course, term))
  <1> DEFINE q2 == ExcludeOnly(q, course, term)
  <1>1. q2.excluded = {e \in q.excluded : e[1] # course} \cup {<<course, term>>}
    BY ExcludeSets
  <1> HIDE DEF q2
  <1>2. <<course, term>>[1] = course
    OBVIOUS
  <1>3. ASSUME NEW e \in q.excluded PROVE \E x \in q2.excluded : x[1] = e[1]
    BY <1>1, <1>2
  <1> QED
    BY <1>3 DEF ExcludedCourses, q2

\* Every other edit pins nothing, releases pins at most, and keeps the exclusions.
LEMMA OtherEdits ==
    ASSUME NEW q, IsPrefs(q), NEW m, m.kind \notin {"pin", "swap", "exclude", "move"}
    PROVE  /\ IsPrefs(ApplyMutation(q, m))
           /\ ApplyMutation(q, m).pins \subseteq q.pins
           /\ ApplyMutation(q, m).excluded = q.excluded
  <1>1. CASE m.kind = "unpin"
    BY <1>1 DEF ApplyMutation, ReleasedPins, IsPrefs, PrefFields
  <1>2. CASE m.kind = "addTerm"
    BY <1>2 DEF ApplyMutation, IsPrefs, PrefFields
  <1>3. CASE m.kind = "loadStyle"
    <2> DEFINE styled == (m.term :> m.style) @@ q.termStyle
    <2>1. \/ ApplyMutation(q, m) = q
          \/ ApplyMutation(q, m) = [q EXCEPT !.termStyle = styled]
          \/ ApplyMutation(q, m) = [q EXCEPT !.style = m.style]
      BY <1>3 DEF ApplyMutation, WithLoadStyle
    <2> HIDE DEF styled
    <2> QED
      BY <2>1 DEF IsPrefs, PrefFields
  <1>4. CASE m.kind \in {"scheduling", "soft"}
    BY <1>4 DEF ApplyMutation, IsPrefs, PrefFields
  <1>5. CASE m.kind \notin {"unpin", "addTerm", "loadStyle", "scheduling", "soft"}
    BY <1>5 DEF ApplyMutation
  <1> QED
    BY <1>1, <1>2, <1>3, <1>4, <1>5

\* What was dropped and is not asked for stays dropped; an exclusion drops.
LEMMA EditKeepsDrops ==
    ASSUME NEW q, IsPrefs(q), NEW m
    PROVE  LET next == ApplyMutation(q, m)
           IN  /\ IsPrefs(next)
               /\ \A d : StaysDropped(d, q) /\ d[1] \notin Asked(m) => StaysDropped(d, next)
               /\ m.kind = "exclude" => StaysDropped(<<m.course, m.term>>, next)
  <1> DEFINE next == ApplyMutation(q, m)
  <1>1. CASE m.kind = "pin"
    <2>1. next = PinTo(q, m.course, m.term) /\ Asked(m) = {m.course}
      BY <1>1 DEF ApplyMutation, Asked
    <2>2. /\ IsPrefs(next) /\ next.excluded = q.excluded
          /\ next.pins = q.pins \cup {[course |-> m.course, term |-> m.term]}
      BY <2>1, PinToSets
    <2> HIDE DEF next
    <2>3. \A d : StaysDropped(d, q) /\ d[1] # m.course => StaysDropped(d, next)
      BY <2>2 DEF StaysDropped, ExcludedCourses
    <2> QED
      BY <1>1, <2>1, <2>2, <2>3 DEF next
  <1>2. CASE m.kind = "swap"
    <2> DEFINE mid == ExcludeOnly(q, m.drop, None)
    <2>1. next = PinTo(mid, m.course, m.term) /\ Asked(m) = {m.course}
      BY <1>2 DEF ApplyMutation, Asked
    <2>2. IsPrefs(mid) /\ mid.pins = q.pins /\ ExcludedCourses(q) \subseteq ExcludedCourses(mid)
      BY ExcludeSets, ExcludeOnlyKeeps
    <2> HIDE DEF mid
    <2>3. /\ IsPrefs(next) /\ next.excluded = mid.excluded
          /\ next.pins = q.pins \cup {[course |-> m.course, term |-> m.term]}
      BY <2>1, <2>2, PinToSets
    <2> HIDE DEF next
    <2>4. ExcludedCourses(next) = ExcludedCourses(mid)
      BY <2>3 DEF ExcludedCourses
    <2>5. \A d : StaysDropped(d, q) /\ d[1] # m.course => StaysDropped(d, next)
      BY <2>2, <2>3, <2>4 DEF StaysDropped
    <2> QED
      BY <1>2, <2>1, <2>3, <2>5 DEF next
  <1>3. CASE m.kind = "exclude"
    <2>1. next = Exclude(q, m.course, m.term) /\ Asked(m) = {}
      BY <1>3 DEF ApplyMutation, Asked
    <2>2. /\ IsPrefs(next) /\ next.pins = ReleasedPins(q.pins, m.course, m.term)
          /\ next.excluded = q.excluded \cup {<<m.course, m.term>>}
      BY <2>1, ExcludeSets
    <2> HIDE DEF next
    <2>3. \A d : StaysDropped(d, q) => StaysDropped(d, next)
      BY <2>2 DEF StaysDropped, ExcludedCourses, ReleasedPins
    <2>4. StaysDropped(<<m.course, m.term>>, next)
      BY <2>2 DEF StaysDropped, ExcludedCourses, ReleasedPins
    <2> QED
      BY <2>1, <2>2, <2>3, <2>4 DEF next
  <1>4. CASE m.kind = "move"
    <2>1. next = ExcludeOnly(q, m.course, m.term)
      BY <1>4 DEF ApplyMutation
    <2>2. IsPrefs(next) /\ next.pins = q.pins /\ ExcludedCourses(q) \subseteq ExcludedCourses(next)
      BY <2>1, ExcludeSets, ExcludeOnlyKeeps
    <2> HIDE DEF next
    <2> QED
      BY <1>4, <2>2 DEF StaysDropped, next
  <1>5. CASE m.kind \notin {"pin", "swap", "exclude", "move"}
    <2>1. IsPrefs(next) /\ next.pins \subseteq q.pins /\ next.excluded = q.excluded
      BY <1>5, OtherEdits
    <2> HIDE DEF next
    <2> QED
      BY <1>5, <2>1 DEF StaysDropped, ExcludedCourses, next
  <1> QED
    BY <1>1, <1>2, <1>3, <1>4, <1>5

-----------------------------------------------------------------------------
(* The steps.                                                              *)

LEMMA EditsBegin == EditInit => EditsInv
  <1> SUFFICES ASSUME EditInit PROVE EditsInv
    OBVIOUS
  <1>1. prefs = NoPrefs /\ dropped = {} /\ preview.kind = "none"
    BY DEF EditInit, NoPreview
  <1>2. IsPrefs(prefs)
    BY <1>1 DEF IsPrefs, PrefFields, NoPrefs
  <1>3. Drawn(plan, prefs)
    BY <1>1, PlansAreDrawn DEF EditInit
  <1> QED
    BY <1>1, <1>2, <1>3 DEF EditsInv, PreviewHolds

\* What the previews of changes, binds, failures and what-ifs leave.
LEMMA PreviewsKeep ==
    ASSUME EditsInv,
           \/ \E m \in Edits : \E resolved \in BOOLEAN : ProposeChange(m, resolved)
           \/ \E id, c : PreviewBind(id, c)
           \/ \E c : ProbeFailCompleted(c)
           \/ \E c, how : ProposeWhatIf(c, how)
    PROVE  EditsInv'
  <1>1. prefs' = prefs /\ plan' = plan /\ dropped' = dropped
    BY DEF ProposeChange, PreviewBind, ProbeFailCompleted, ProposeWhatIf
  <1>2. PreviewHolds'
    <2>1. CASE \E m \in Edits : \E resolved \in BOOLEAN : ProposeChange(m, resolved)
      <3>1. preview'.kind = "change"
        BY <2>1 DEF ProposeChange
      <3> QED
        BY <3>1 DEF PreviewHolds
    <2>2. ASSUME NEW id, NEW c, PreviewBind(id, c) PROVE PreviewHolds'
      <3>1. PICK s \in FindPlaceholderSlot(plan, id) :
              preview' = [kind |-> "bind", slot |-> id, course |-> c, term |-> s.term,
                          accepted |-> BindAccepted(s, c, plan, report)]
        BY <2>2 DEF PreviewBind
      <3>2. /\ preview'.kind = "bind" /\ preview'.slot = id /\ preview'.course = c /\ preview'.term = s.term
            /\ preview'.accepted <=> BindAccepted(s, c, plan, report)
        BY <3>1
      <3>3. BindAccepted(s, c, plan, report) => IsOffered(c, s.term)
        BY DEF BindAccepted
      <3> QED
        BY <1>1, <3>2, <3>3 DEF PreviewHolds
    <2>3. CASE \E c : ProbeFailCompleted(c)
      <3>1. preview'.kind = "probe"
        BY <2>3 DEF ProbeFailCompleted
      <3> QED
        BY <3>1 DEF PreviewHolds
    <2>4. ASSUME NEW c, NEW how, ProposeWhatIf(c, how) PROVE PreviewHolds'
      <3>1. PICK p \in Plans(HypotheticalReport(report, c, how), prefs) :
              preview' = [kind |-> "whatif", course |-> c, outcome |-> how, plan |-> p,
                          diff |-> PlanDiff(plan, p)]
        BY <2>4, Zenon DEF ProposeWhatIf
      <3>2. preview'.kind = "whatif" /\ preview'.plan = p
        BY <3>1
      <3>3. Drawn(p, prefs)
        BY PlansAreDrawn
      <3> QED
        BY <1>1, <3>2, <3>3 DEF PreviewHolds
    <2> QED
      BY <2>1, <2>2, <2>3, <2>4
  <1> QED
    BY <1>1, <1>2 DEF EditsInv

LEMMA ConfirmEditKeeps ==
    ASSUME EditsInv, NEW m \in Edits, ConfirmEdit(m)
    PROVE  EditsInv'
  <1> DEFINE resolved == ResolveBindMutation(plan, m)
             next == ApplyMutation(prefs, resolved)
  <1>1. /\ plan' \in Plans(report, next) /\ prefs' = next /\ preview' = NoPreview
        /\ dropped' = {d \in dropped : d[1] \notin Asked(resolved)}
                       \cup IF m.kind = "exclude" THEN {<<m.course, m.term>>} ELSE {}
    BY DEF ConfirmEdit
  <1>2. /\ IsPrefs(next)
        /\ \A d : StaysDropped(d, prefs) /\ d[1] \notin Asked(resolved) => StaysDropped(d, next)
        /\ resolved.kind = "exclude" => StaysDropped(<<resolved.course, resolved.term>>, next)
    BY EditKeepsDrops DEF EditsInv
  <1>3. m.kind = "exclude" => resolved = m
    BY EditParts
  <1> HIDE DEF resolved, next
  <1>4. Drawn(plan', next)
    BY <1>1, PlansAreDrawn
  <1>5. \A d \in dropped' : StaysDropped(d, next)
    BY <1>1, <1>2, <1>3 DEF EditsInv
  <1>6. PreviewHolds'
    BY <1>1 DEF PreviewHolds, NoPreview
  <1> QED
    BY <1>1, <1>2, <1>4, <1>5, <1>6 DEF EditsInv

LEMMA ConfirmWhatIfKeeps ==
    ASSUME EditsInv, ConfirmWhatIf
    PROVE  EditsInv'
  <1>1. /\ preview.kind = "whatif" /\ plan' = preview.plan /\ preview' = NoPreview
        /\ prefs' = prefs /\ dropped' = dropped
    BY DEF ConfirmWhatIf
  <1>2. PreviewHolds'
    BY <1>1 DEF PreviewHolds, NoPreview
  <1> QED
    BY <1>1, <1>2 DEF EditsInv, PreviewHolds

LEMMA EditsStep == EditsInv /\ [EditNext]_editVars => EditsInv'
  <1> SUFFICES ASSUME EditsInv, [EditNext]_editVars PROVE EditsInv'
    OBVIOUS
  <1>1. CASE UNCHANGED editVars
    BY <1>1 DEF editVars, EditsInv, PreviewHolds
  <1>2. CASE \E m \in Edits : ConfirmEdit(m)
    BY <1>2, ConfirmEditKeeps
  <1>3. CASE ConfirmWhatIf
    BY <1>3, ConfirmWhatIfKeeps
  <1>4. CASE \/ \E m \in Edits : \E resolved \in BOOLEAN : ProposeChange(m, resolved)
             \/ \E id, c : PreviewBind(id, c)
             \/ \E c : ProbeFailCompleted(c)
             \/ \E c, how : ProposeWhatIf(c, how)
    BY <1>4, PreviewsKeep
  <1> QED
    BY <1>1, <1>2, <1>3, <1>4, Zenon DEF EditNext

LEMMA DropsHold == EditsInv => DropSticks
  <1> SUFFICES ASSUME EditsInv, NEW d \in dropped, NEW s \in plan, s.kind = "specific", s.course = d[1]
               PROVE  d[2] # None /\ d[2] # s.term
    BY DEF DropSticks
  <1>1. StaysDropped(d, prefs) /\ Drawn(plan, prefs)
    BY DEF EditsInv
  <1>2. Pinned(prefs, s.course, s.term)
    BY <1>1 DEF StaysDropped, Drawn
  <1> QED
    BY <1>1, <1>2 DEF StaysDropped, Pinned

\* A bind that was accepted becomes a pin that fits.
LEMMA BindIsPlaced ==
    ASSUME EditsInv, NEW m \in Edits, m.kind = "bind", preview.kind = "bind", m.slot = preview.slot,
           m.course = preview.course, preview.accepted, ConfirmEdit(m)
    PROVE  \E s \in plan' : s.kind = "specific" /\ s.course = preview.course /\ s.term = preview.term
  <1> DEFINE resolved == ResolveBindMutation(plan, m)
             next == ApplyMutation(prefs, resolved)
  <1>1. plan' \in Plans(report, next)
    BY DEF ConfirmEdit
  <1>2. PICK slot \in FindPlaceholderSlot(plan, m.slot) :
          preview.term = slot.term /\ IsOffered(m.course, slot.term)
    BY DEF EditsInv, PreviewHolds
  <1>3. PICK s2 \in FindPlaceholderSlot(plan, m.slot) : resolved.term = s2.term
    BY <1>2, EditParts
  <1>4. resolved.kind = "pin" /\ resolved.course = m.course
    BY <1>2, EditParts
  <1>5. slot = s2 /\ slot.term \in Window(prefs)
    BY <1>2, <1>3 DEF EditsInv, Drawn, FindPlaceholderSlot
  <1>6. resolved.term = slot.term
    BY <1>3, <1>5
  <1> HIDE DEF resolved
  <1>7. next = PinTo(prefs, m.course, slot.term)
    BY <1>4, <1>6 DEF ApplyMutation
  <1>8. /\ next.pins = prefs.pins \cup {[course |-> m.course, term |-> slot.term]}
        /\ next.summer = prefs.summer /\ next.jterm = prefs.jterm
    BY <1>7, PinToSets DEF EditsInv
  <1> HIDE DEF next
  <1>9. slot.term \in Window(next)
    BY <1>5, <1>8 DEF Window
  <1> DEFINE pin == [course |-> m.course, term |-> slot.term]
  <1>10. pin \in {y \in next.pins : y.term \in Window(next) /\ IsOffered(y.course, y.term)}
    BY <1>2, <1>8, <1>9
  <1>11. \E s \in PinnedSlots(report, next) : s.kind = "specific" /\ s.course = m.course /\ s.term = slot.term
    <2> DEFINE rule(x) ==
                 IF \E l \in DOMAIN report.leaves : ~report.leaves[l].satisfied /\ x.course \in report.leaves[l].cands
                 THEN CHOOSE l \in DOMAIN report.leaves :
                        ~report.leaves[l].satisfied /\ x.course \in report.leaves[l].cands
                 ELSE "none"
               s == EditSlot("specific", pin.course, pin.term, rule(pin), "none", {})
    <2>1. PinnedSlots(report, next) =
            {EditSlot("specific", x.course, x.term, rule(x), "none", {}) :
               x \in {y \in next.pins : y.term \in Window(next) /\ IsOffered(y.course, y.term)}}
      BY DEF PinnedSlots
    <2> HIDE DEF rule
    <2>2. s \in PinnedSlots(report, next)
      BY <1>10, <2>1
    <2>3. s.kind = "specific" /\ s.course = m.course /\ s.term = slot.term
      BY SlotFields
    <2> QED
      BY <2>2, <2>3
  <1> QED
    BY <1>1, <1>2, <1>11, PlansAreDrawn

-----------------------------------------------------------------------------
\* The plan is always one of the preferences there are, and every drop that
\* was not taken back is an exclusion with no pin in its way, for any report,
\* window, edits and what-ifs (applyMutationToPreferences, the solver's pins).
THEOREM EditsInvariant == EditSpec => []EditsInv
  BY EditsBegin, EditsStep, PTL DEF EditSpec

\* A course the student dropped is not planned there again, by whatever edits
\* and what-ifs follow, until it is asked for (DropSticks).
THEOREM DropsStick == EditSpec => []DropSticks
  BY EditsInvariant, DropsHold, PTL

\* A bind that was accepted and is confirmed is carried out: the course is
\* planned in the term of its slot (resolveBindMutation, the pins of a plan).
THEOREM BindsArePlaced == EditSpec => AcceptedBindIsPlaced
  <1>1. EditsInv /\ [EditNext]_editVars =>
          [\A m \in Edits :
             m.kind = "bind" /\ preview.kind = "bind" /\ m.slot = preview.slot
               /\ m.course = preview.course /\ preview.accepted /\ ConfirmEdit(m)
             => \E s \in plan' : /\ s.kind = "specific" /\ s.course = preview.course
                                 /\ s.term = preview.term]_editVars
    BY BindIsPlaced
  <1> QED
    BY <1>1, EditsInvariant, PTL DEF EditSpec, AcceptedBindIsPlaced

-----------------------------------------------------------------------------
(* The terms of the calendar, in their order.                              *)

Terms == [year : Nat, season : Seasons]
Key(term) == 5 * term.year + Rank(term.season)

LEMMA SeasonsAre == Seasons = {"Spring", "Summer", "Fall", "Winter", "January"}
  BY DEF Seasons, SeasonOrder, Range

LEMMA RankIs ==
    /\ Rank("Spring") = 1 /\ Rank("Summer") = 2 /\ Rank("Fall") = 3
    /\ Rank("Winter") = 4 /\ Rank("January") = 5
  BY DEF Rank, SeasonOrder

LEMMA KeyOrders ==
    /\ \A s \in Terms : Key(s) \in Nat
    /\ \A s, t \in Terms : Earlier(s, t) <=> Key(s) < Key(t)
    /\ \A s, t \in Terms : Key(s) = Key(t) => s = t
  <1>1. ASSUME NEW s \in Terms
        PROVE  /\ s.year \in Nat /\ Rank(s.season) \in 1..5
               /\ s = [year |-> s.year, season |-> s.season] /\ s.season \in Seasons
    BY SeasonsAre, RankIs DEF Terms
  <1>2. \A a, b \in Seasons : Rank(a) = Rank(b) => a = b
    BY SeasonsAre, RankIs
  <1>3. ASSUME NEW s \in Terms, NEW t \in Terms, Key(s) = Key(t) PROVE s = t
    <2>1. s.year = t.year /\ Rank(s.season) = Rank(t.season)
      BY <1>1, <1>3 DEF Key
    <2> QED
      BY <1>1, <1>2, <2>1
  <1>4. \A s, t \in Terms : Earlier(s, t) <=> Key(s) < Key(t)
    BY <1>1 DEF Earlier, Key
  <1> QED
    BY <1>1, <1>3, <1>4 DEF Key

Dates == [year : Nat, day : 101..1231, time : 0..1439]

LEMMA DateFields ==
    ASSUME NEW d \in Dates
    PROVE  d.year \in Nat /\ d.day \in Nat /\ d.time \in Nat /\ 101 <= d.day /\ d.day <= 1231
  BY DEF Dates

\* A day has its term, and a later day no earlier one.
LEMMA SessionIsATerm ==
    ASSUME NEW d \in Dates
    PROVE  TermInSession(d) \in Terms /\ TermInSession(d).year = d.year
           /\ Key(TermInSession(d)) =
                5 * d.year + (IF d.day < 600 THEN 1 ELSE IF d.day < 800 THEN 2 ELSE 3)
  <1>1. PICK n \in Nat : n = d.day /\ 101 <= n /\ n <= 1231
    BY DateFields
  <1>2. /\ n < 600 <=> n \div 100 \in 1..5
        /\ n >= 600 /\ n < 800 <=> n \div 100 \in 6..7
    BY <1>1
  <1>3. TermInSession(d) = [year |-> d.year, season |-> IF d.day < 600 THEN "Spring"
                                                        ELSE IF d.day < 800 THEN "Summer" ELSE "Fall"]
    BY <1>1, <1>2 DEF TermInSession
  <1> QED
    BY <1>3, DateFields, SeasonsAre, RankIs DEF Terms, Key

LEMMA SessionsGoOn ==
    ASSUME NEW d \in Dates, NEW e \in Dates,
           NoLater(d, e)
    PROVE  Key(TermInSession(d)) <= Key(TermInSession(e))
  <1> DEFINE third(x) == IF x.day < 600 THEN 1 ELSE IF x.day < 800 THEN 2 ELSE 3
  <1>1. Key(TermInSession(d)) = 5 * d.year + third(d) /\ Key(TermInSession(e)) = 5 * e.year + third(e)
    BY SessionIsATerm
  <1> /\ d.year \in Nat /\ e.year \in Nat /\ d.day \in Nat /\ e.day \in Nat
    BY DateFields
  <1>0. d.year < e.year \/ (d.year = e.year /\ d.day <= e.day)
    BY DEF NoLater
  <1>2. /\ third(d) \in Nat /\ 1 <= third(d) /\ third(d) <= 3
        /\ third(e) \in Nat /\ 1 <= third(e) /\ third(e) <= 3
    OBVIOUS
  <1>3. d.day <= e.day => third(d) <= third(e)
    OBVIOUS
  <1> HIDE DEF third
  <1> QED
    BY <1>0, <1>1, <1>2, <1>3

-----------------------------------------------------------------------------
(* The term a student is taken to be enrolled in.                          *)

\* It is the first of the rows that is not before the clock; if all are, the last.
LEMMA EnrolledTerm ==
    ASSUME NEW terms \in SUBSET Terms, NEW clock \in Terms, terms # {}
    PROVE  LET e == PickCurrentFromIP(terms, clock)
           IN  /\ e \in terms
               /\ \A u \in terms : Key(clock) <= Key(u) => Key(clock) <= Key(e) /\ Key(e) <= Key(u)
               /\ (\A u \in terms : Key(u) < Key(clock)) => \A u \in terms : Key(u) <= Key(e)
  <1> DEFINE future == {t \in terms : ~Earlier(t, clock)}
             e == PickCurrentFromIP(terms, clock)
  <1>1. \A t \in terms : t \in future <=> Key(clock) <= Key(t)
    BY KeyOrders
  <1>2. CASE clock \in terms
    <2>1. e = clock
      BY <1>2 DEF PickCurrentFromIP
    <2> QED
      BY <1>2, <2>1, KeyOrders
  <1>3. CASE clock \notin terms /\ future # {}
    <2> DEFINE First(t) == \A u \in future : u = t \/ Earlier(t, u)
    <2>1. e = CHOOSE t \in future : First(t)
      BY <1>3 DEF PickCurrentFromIP
    <2>2. \E t \in future : First(t)
      <3> DEFINE keys == {Key(u) : u \in future}
      <3>1. keys \subseteq Nat /\ keys # {}
        BY <1>3, KeyOrders
      <3>2. PICK m \in keys : \A n \in keys : m <= n
        BY <3>1, NatMinimum
      <3>3. PICK t \in future : Key(t) = m
        BY <3>2
      <3>4. \A u \in future : Key(t) <= Key(u)
        BY <3>2, <3>3
      <3> QED
        BY <3>4, KeyOrders
    <2> HIDE DEF First
    <2>3. e \in future /\ First(e)
      BY <2>1, <2>2
    <2>4. \A u \in future : Key(e) <= Key(u)
      BY <2>3, KeyOrders DEF First
    <2> QED
      BY <1>1, <1>3, <2>3, <2>4, KeyOrders
  <1>4. CASE clock \notin terms /\ future = {}
    <2> DEFINE Final(t) == \A u \in terms : u = t \/ Earlier(u, t)
    <2>1. e = CHOOSE t \in terms : Final(t)
      BY <1>4 DEF PickCurrentFromIP
    <2>2. \A u \in terms : Key(u) < Key(clock)
      BY <1>1, <1>4, KeyOrders
    <2>3. \E t \in terms : Final(t)
      <3> DEFINE gaps == {Key(clock) - Key(u) : u \in terms}
      <3>1. gaps \subseteq Nat /\ gaps # {}
        BY <2>2, KeyOrders
      <3>2. PICK m \in gaps : \A n \in gaps : m <= n
        BY <3>1, NatMinimum
      <3>3. PICK t \in terms : Key(clock) - Key(t) = m
        BY <3>2
      <3>4. \A u \in terms : Key(clock) - Key(t) <= Key(clock) - Key(u)
        BY <3>2, <3>3
      <3>5. \A u \in terms : Key(u) <= Key(t)
        BY <3>4, KeyOrders
      <3> QED
        BY <3>5, KeyOrders
    <2> HIDE DEF Final
    <2>4. e \in terms /\ Final(e)
      BY <2>1, <2>3
    <2>5. \A u \in terms : Key(u) <= Key(e)
      BY <2>4, KeyOrders DEF Final
    <2> QED
      BY <2>2, <2>4, <2>5, KeyOrders
  <1> QED
    BY <1>2, <1>3, <1>4

GoneBy(t, now, later) ==
    /\ t \notin now.preRegistered /\ t # now.enrolledNow
         => t \notin later.preRegistered /\ t # later.enrolledNow
    /\ t \notin now.preRegistered => t \notin later.preRegistered

\* A row that can no longer be changed, for it is over, stays so as the clock
\* goes on; and the row of the current term does not become one to come.
LEMMA RowsGoBy ==
    ASSUME NEW terms \in SUBSET Terms, NEW c1 \in Terms, NEW c2 \in Terms, Key(c1) <= Key(c2),
           NEW t \in terms
    PROVE  GoneBy(t, TemporalContext(terms, c1), TemporalContext(terms, c2))
  <1> DEFINE e1 == PickCurrentFromIP(terms, c1)
             e2 == PickCurrentFromIP(terms, c2)
             p1 == {u \in terms \ {e1} : Earlier(c1, u)}
             p2 == {u \in terms \ {e2} : Earlier(c2, u)}
  <1>1. /\ TemporalContext(terms, c1) = [enrolledNow |-> e1, preRegistered |-> p1]
        /\ TemporalContext(terms, c2) = [enrolledNow |-> e2, preRegistered |-> p2]
    BY DEF TemporalContext
  <1>2. /\ e1 \in terms
        /\ \A u \in terms : Key(c1) <= Key(u) => Key(c1) <= Key(e1) /\ Key(e1) <= Key(u)
        /\ (\A u \in terms : Key(u) < Key(c1)) => \A u \in terms : Key(u) <= Key(e1)
    BY EnrolledTerm
  <1>3. /\ e2 \in terms
        /\ \A u \in terms : Key(c2) <= Key(u) => Key(c2) <= Key(e2) /\ Key(e2) <= Key(u)
        /\ (\A u \in terms : Key(u) < Key(c2)) => \A u \in terms : Key(u) <= Key(e2)
    BY EnrolledTerm
  <1> HIDE DEF e1, e2
  <1>4. /\ \A u \in terms : u \in p1 <=> u # e1 /\ Key(c1) < Key(u)
        /\ \A u \in terms : u \in p2 <=> u # e2 /\ Key(c2) < Key(u)
    BY KeyOrders
  <1>5. Key(c1) \in Nat /\ Key(c2) \in Nat /\ \A u \in terms : Key(u) \in Nat
    BY KeyOrders
  <1>6. \A u, v \in terms : Key(u) = Key(v) => u = v
    BY KeyOrders
  <1> HIDE DEF p1, p2
  <1>7. t \notin p1 /\ t # e1 => t \notin p2
    BY <1>4, <1>5
  <1>8. t = e1 => t \notin p2
    <2> SUFFICES ASSUME t = e1, t # e2, Key(c2) < Key(t) PROVE FALSE
      BY <1>4
    <2>1. Key(c1) <= Key(e2) /\ Key(e2) <= Key(t)
      BY <1>3, <1>5
    <2>2. Key(t) <= Key(e2)
      BY <1>2, <1>3, <2>1
    <2> QED
      BY <1>3, <1>5, <1>6, <2>1, <2>2
  <1>9. t \notin p1 /\ t # e1 => t # e2
    <2> SUFFICES ASSUME t # e1, ~(Key(c1) < Key(t)), t = e2 PROVE FALSE
      BY <1>4
    <2>1. Key(t) <= Key(c2)
      BY <1>5
    <2>2. CASE \A u \in terms : Key(u) < Key(c2)
      <3>1. Key(e1) <= Key(t)
        BY <1>2, <1>3, <2>2
      <3>2. Key(t) < Key(c1) \/ Key(t) = Key(c1)
        BY <1>5
      <3>3. CASE Key(t) = Key(c1)
        BY <1>2, <1>5, <1>6, <3>1, <3>3
      <3>4. CASE Key(t) < Key(c1)
        <4>1. Key(e1) < Key(c1)
          BY <1>2, <1>5, <3>1, <3>4
        <4>2. \A u \in terms : Key(u) < Key(c1)
          BY <1>2, <1>5, <4>1
        <4>3. Key(t) <= Key(e1)
          BY <1>2, <4>2
        <4> QED
          BY <1>2, <1>5, <1>6, <3>1, <4>3
      <3> QED
        BY <3>2, <3>3, <3>4
    <2>3. CASE \E u \in terms : Key(c2) <= Key(u)
      <3>1. Key(c2) <= Key(t)
        BY <1>3, <2>3
      <3>2. Key(t) = Key(c1)
        BY <1>5, <2>1, <3>1
      <3>3. Key(c1) <= Key(e1) /\ Key(e1) <= Key(t)
        BY <1>2, <1>5, <3>2
      <3> QED
        BY <1>2, <1>5, <1>6, <3>2, <3>3
    <2> QED
      BY <1>5, <2>2, <2>3
  <1> QED
    BY <1>1, <1>7, <1>8, <1>9 DEF GoneBy

-----------------------------------------------------------------------------
(* The window of the current term, and the theorem.                        *)

\* The window by what is known of the term and what has passed: no deadlines
\* at all, no add/drop or no withdrawal deadline, and whether each is to come.
WindowBy(none, noAdd, noWithdraw, toAdd, toWithdraw) ==
  CASE none -> "unknown"
    [] ~none /\ noAdd /\ noWithdraw -> "unknown"
    [] ~none /\ ~noAdd /\ toAdd -> "add_drop"
    [] ~none /\ ~noWithdraw /\ toWithdraw /\ ~(~noAdd /\ toAdd) -> "withdraw_pf"
    [] ~none /\ ~noAdd /\ noWithdraw /\ ~toAdd -> "unknown"
    [] OTHER -> "closed"

\* A window of the current term that only narrows.
Narrowed(before, after) ==
    /\ before \in {"add_drop", "withdraw_pf", "unknown", "closed"}
    /\ after \in {"add_drop", "withdraw_pf", "unknown", "closed"}
    /\ after = "add_drop" => before = "add_drop"
    /\ before = "closed" => after = "closed"

LEMMA WindowByNarrows ==
    ASSUME NEW none \in BOOLEAN, NEW noAdd \in BOOLEAN, NEW noWithdraw \in BOOLEAN,
           NEW a1 \in BOOLEAN, NEW w1 \in BOOLEAN, NEW a2 \in BOOLEAN, NEW w2 \in BOOLEAN,
           ~none => (a2 => a1) /\ (w2 => w1)
    PROVE  Narrowed(WindowBy(none, noAdd, noWithdraw, a1, w1), WindowBy(none, noAdd, noWithdraw, a2, w2))
  BY DEF WindowBy, Narrowed

LEMMA CurrentNarrows ==
    ASSUME NEW d \in Dates, NEW e \in Dates,
           NoLater(d, e), NEW s, NEW term \in Terms
    PROVE  Narrowed(CurrentWindow(d, CampusOf(s), term), CurrentWindow(e, CampusOf(s), term))
  <1> DEFINE season == SeasonOfTerm(term)
             add == Deadlines[CampusOf(s)][season].addDrop
             withdraw == Deadlines[CampusOf(s)][season].withdraw
             none == season = "none"
             noAdd == add = NoDate
             noWithdraw == withdraw = NoDate
             ToCome(day, limit) == NotAfter(day, term.year, limit)
  <1>1. /\ CurrentWindow(d, CampusOf(s), term) =
             WindowBy(none, noAdd, noWithdraw, ToCome(d, add), ToCome(d, withdraw))
        /\ CurrentWindow(e, CampusOf(s), term) =
             WindowBy(none, noAdd, noWithdraw, ToCome(e, add), ToCome(e, withdraw))
    BY DEF CurrentWindow, WindowBy
  <1>2. CampusOf(s) \in {"ny", "shanghai", "abudhabi"}
    BY DEF CampusOf
  <1>3. season \in {"Fall", "Spring", "Summer", "January", "none"}
    BY SeasonsAre DEF SeasonOfTerm, Terms
  <1>4. ~none => add \in Nat /\ withdraw \in Nat
    BY <1>2, <1>3 DEF Deadlines, NoDate
  <1> HIDE DEF season, add, withdraw
  <1>5. /\ term.year \in Nat /\ d.year \in Nat /\ e.year \in Nat
        /\ d.day \in Nat /\ e.day \in Nat /\ d.time \in Nat /\ e.time \in Nat
    BY DateFields DEF Terms
  <1>6. \A limit \in Nat : ToCome(e, limit) => ToCome(d, limit)
    BY <1>5 DEF NotAfter, NoLater
  <1>7. /\ ToCome(d, add) \in BOOLEAN /\ ToCome(d, withdraw) \in BOOLEAN
        /\ ToCome(e, add) \in BOOLEAN /\ ToCome(e, withdraw) \in BOOLEAN
    BY DEF NotAfter, NoLater
  <1>8. none \in BOOLEAN /\ noAdd \in BOOLEAN /\ noWithdraw \in BOOLEAN
    OBVIOUS
  <1> HIDE DEF none, noAdd, noWithdraw, ToCome
  <1>9. ~none => (ToCome(e, add) => ToCome(d, add)) /\ (ToCome(e, withdraw) => ToCome(d, withdraw))
    BY <1>4, <1>6
  <1>10. Narrowed(WindowBy(none, noAdd, noWithdraw, ToCome(d, add), ToCome(d, withdraw)),
                  WindowBy(none, noAdd, noWithdraw, ToCome(e, add), ToCome(e, withdraw)))
    <2>1. PICK a1 \in BOOLEAN, w1 \in BOOLEAN, a2 \in BOOLEAN, w2 \in BOOLEAN :
            /\ a1 = ToCome(d, add) /\ w1 = ToCome(d, withdraw)
            /\ a2 = ToCome(e, add) /\ w2 = ToCome(e, withdraw)
      BY <1>7
    <2>2. ~none => (a2 => a1) /\ (w2 => w1)
      BY <1>9, <2>1
    <2>3. PICK n \in BOOLEAN, na \in BOOLEAN, nw \in BOOLEAN : n = none /\ na = noAdd /\ nw = noWithdraw
      BY <1>8
    <2>4. Narrowed(WindowBy(n, na, nw, a1, w1), WindowBy(n, na, nw, a2, w2))
      BY <2>2, <2>3, WindowByNarrows
    <2> QED
      BY <2>1, <2>3, <2>4
  <1> QED
    BY <1>1, <1>10

LEMMA OrderIs ==
    /\ Order["future"] = 0 /\ Order["add_drop"] = 1 /\ Order["withdraw_pf"] = 2
    /\ Order["unknown"] = 2 /\ Order["closed"] = 3
  BY DEF Order

\* Nothing is offered for a row in progress exactly when its window is closed.
LEMMA OffersOfARow ==
    ASSUME NEW open
    PROVE  SlotActions("in_progress", open, TRUE) = {} <=> open = "closed"
  BY DEF SlotActions

LEMMA DayGoesBy ==
    ASSUME NEW s, NEW terms \in SUBSET Terms, NEW term \in terms,
           NEW d \in Dates, NEW e \in Dates,
           NoLater(d, e)
    PROVE  LET before == ClassifyIpChangeability(d, CampusOf(s), terms, term)
               after == ClassifyIpChangeability(e, CampusOf(s), terms, term)
           IN  /\ Order[before] <= Order[after]
               /\ SlotActions("in_progress", before, TRUE) = {}
                    => SlotActions("in_progress", after, TRUE) = {}
  <1>0. PICK before, after, now, later, open1, open2 :
          /\ before = ClassifyIpChangeability(d, CampusOf(s), terms, term)
          /\ after = ClassifyIpChangeability(e, CampusOf(s), terms, term)
          /\ now = TemporalContext(terms, TermInSession(d))
          /\ later = TemporalContext(terms, TermInSession(e))
          /\ open1 = CurrentWindow(d, CampusOf(s), term)
          /\ open2 = CurrentWindow(e, CampusOf(s), term)
    OBVIOUS
  <1>1. /\ term \in now.preRegistered => before = "future"
        /\ term \notin now.preRegistered /\ term = now.enrolledNow => before = open1
        /\ term \notin now.preRegistered /\ term # now.enrolledNow => before = "closed"
        /\ term \in later.preRegistered => after = "future"
        /\ term \notin later.preRegistered /\ term = later.enrolledNow => after = open2
        /\ term \notin later.preRegistered /\ term # later.enrolledNow => after = "closed"
    BY <1>0 DEF ClassifyIpChangeability
  <1>2. /\ term \notin now.preRegistered /\ term # now.enrolledNow
             => term \notin later.preRegistered /\ term # later.enrolledNow
        /\ term \notin now.preRegistered => term \notin later.preRegistered
    <2> DEFINE c1 == TermInSession(d)
               c2 == TermInSession(e)
    <2>1. c1 \in Terms /\ c2 \in Terms
      BY SessionIsATerm
    <2>2. Key(c1) <= Key(c2)
      BY SessionsGoOn
    <2> HIDE DEF c1, c2
    <2>3. GoneBy(term, TemporalContext(terms, c1), TemporalContext(terms, c2))
      BY <2>1, <2>2, RowsGoBy
    <2> QED
      BY <1>0, <2>3 DEF c1, c2, GoneBy
  <1>3. /\ open1 \in {"add_drop", "withdraw_pf", "unknown", "closed"}
        /\ open2 \in {"add_drop", "withdraw_pf", "unknown", "closed"}
        /\ open2 = "add_drop" => open1 = "add_drop"
        /\ open1 = "closed" => open2 = "closed"
    <2>1. Narrowed(open1, open2)
      BY <1>0, CurrentNarrows
    <2> QED
      BY <2>1 DEF Narrowed
  <1>4. /\ before \in {"future", "add_drop", "withdraw_pf", "unknown", "closed"}
        /\ after \in {"future", "add_drop", "withdraw_pf", "unknown", "closed"}
    BY <1>1, <1>3
  <1>5. before = "closed" => after = "closed"
    BY <1>1, <1>2, <1>3
  <1>6. after = "future" => before = "future"
    BY <1>1, <1>2, <1>3
  <1>7. after = "add_drop" => before \in {"future", "add_drop"}
    BY <1>1, <1>2, <1>3
  <1>8. Order[before] <= Order[after]
    BY <1>4, <1>5, <1>6, <1>7, OrderIs
  <1>9. SlotActions("in_progress", before, TRUE) = {} => SlotActions("in_progress", after, TRUE) = {}
    BY <1>5, OffersOfARow
  <1> QED
    BY <1>0, <1>8, <1>9

\* The day of the run is one of its days, and the rows are those of a report.
IpInv == today \in Nat \ {0} /\ ipRows \in RowSets

\* Whether a row in progress can still be changed only narrows with the days,
\* for any report, school and days (classifyIpChangeability).
THEOREM WindowNarrows == IpSpec => WindowNeverReopens
  <1>1. IpSpec => []IpInv
    <2>1. IpInit => IpInv
      BY DEF IpInit, IpInv
    <2>2. IpInv /\ [IpNext]_ipVars => IpInv'
      BY DEF IpInv, IpNext, NextDay, ipVars
    <2> QED
      BY <2>1, <2>2, PTL DEF IpSpec
  <1>2. IpInv /\ [IpNext]_ipVars =>
          [\A term \in ipRows :
             LET before == WindowOf(today, term)
                 after == WindowOf(today', term)
             IN /\ Order[before] <= Order[after]
                /\ SlotActions("in_progress", before, TRUE) = {}
                     => SlotActions("in_progress", after, TRUE) = {}]_ipVars
    <2> SUFFICES ASSUME IpInv, NextDay, NEW term \in ipRows
                 PROVE  LET before == WindowOf(today, term)
                            after == WindowOf(today', term)
                        IN /\ Order[before] <= Order[after]
                           /\ SlotActions("in_progress", before, TRUE) = {}
                                => SlotActions("in_progress", after, TRUE) = {}
      BY DEF IpNext
    <2> DEFINE d == Days[today]
               e == Days[today']
    <2>1. Days \in Seq(Dates)
      BY DaysAssumption DEF Dates
    <2>2. today \in 1..Len(Days) /\ today' \in 1..Len(Days) /\ today < today'
      BY <2>1 DEF IpInv, NextDay
    <2>3. d \in Dates /\ e \in Dates
      BY <2>1, <2>2
    <2>4. today \in DOMAIN Days /\ today' \in DOMAIN Days
      BY <2>1, <2>2
    <2>5. NoLater(d, e)
      BY <2>2, <2>4, DaysAssumption
    <2>6. ipRows \in SUBSET Terms
      BY DaysAssumption DEF IpInv, Terms
    <2> HIDE DEF d, e
    <2> DEFINE Stays(s, terms, u, x, y) ==
                 LET before == ClassifyIpChangeability(x, CampusOf(s), terms, u)
                     after == ClassifyIpChangeability(y, CampusOf(s), terms, u)
                 IN /\ Order[before] <= Order[after]
                    /\ SlotActions("in_progress", before, TRUE) = {}
                         => SlotActions("in_progress", after, TRUE) = {}
    <2>7. \A s : \A terms \in SUBSET Terms : \A u \in terms : \A x, y \in Dates :
            NoLater(x, y) => Stays(s, terms, u, x, y)
      BY DayGoesBy
    <2> HIDE DEF Stays
    <2>8. Stays(school, ipRows, term, d, e)
      BY <2>3, <2>5, <2>6, <2>7
    <2> QED
      BY <2>8 DEF WindowOf, d, e, Stays
  <1> QED
    BY <1>1, <1>2, PTL DEF IpSpec, WindowNeverReopens

-----------------------------------------------------------------------------
(* The picks: one section of each bundle.                                  *)

PicksOf(bundles, n) ==
  {p \in Seq(UNION {ToSet(bundles[i]) : i \in 1..Len(bundles)}) :
     Len(p) = n /\ \A i \in 1..n : p[i] \in ToSet(bundles[i])}

\* A walk one bundle further extends each pick by each section of the bundle.
LEMMA PicksGrow ==
    ASSUME NEW bundles, IsList(bundles), NEW n \in 1..Len(bundles),
           \A i \in 1..Len(bundles) : IsList(bundles[i]),
           NEW ps, ps \in Seq(PicksOf(bundles, n - 1))
    PROVE  FlattenSeq([j \in DOMAIN ps |-> [k \in DOMAIN bundles[n] |-> Append(ps[j], bundles[n][k])]])
             \in Seq(PicksOf(bundles, n))
  <1> DEFINE T == UNION {ToSet(bundles[i]) : i \in 1..Len(bundles)}
             one(j) == [k \in DOMAIN bundles[n] |-> Append(ps[j], bundles[n][k])]
             all == [j \in DOMAIN ps |-> one(j)]
  <1>1. Len(bundles) \in Nat /\ IsList(bundles[n]) /\ n \in 1..Len(bundles) /\ n - 1 \in Nat
    BY ListProperties
  <1>2. /\ Len(bundles[n]) \in Nat /\ DOMAIN bundles[n] = 1..Len(bundles[n])
        /\ \A k \in 1..Len(bundles[n]) : bundles[n][k] \in ToSet(bundles[n])
    BY <1>1, ListProperties
  <1>3. /\ Len(ps) \in Nat /\ DOMAIN ps = 1..Len(ps)
        /\ \A j \in 1..Len(ps) : ps[j] \in PicksOf(bundles, n - 1)
    OBVIOUS
  <1>4. ToSet(bundles[n]) \subseteq T
    BY <1>1
  <1>5. \A j \in 1..Len(ps) : one(j) \in [1..Len(bundles[n]) -> PicksOf(bundles, n)]
    <2> SUFFICES ASSUME NEW j \in 1..Len(ps), NEW k \in 1..Len(bundles[n])
                 PROVE  Append(ps[j], bundles[n][k]) \in PicksOf(bundles, n)
      BY <1>2
    <2> DEFINE p == ps[j]
               x == bundles[n][k]
    <2>1. /\ p \in Seq(T) /\ Len(p) = n - 1 /\ \A i \in 1..(n - 1) : p[i] \in ToSet(bundles[i])
          /\ x \in ToSet(bundles[n]) /\ x \in T
      BY <1>2, <1>3, <1>4 DEF PicksOf
    <2> HIDE DEF p, x, T
    <2>2. Append(p, x) \in Seq(T) /\ Len(Append(p, x)) = n
      BY <2>1, <1>1
    <2>3. ASSUME NEW i \in 1..n
          PROVE  Append(p, x)[i] \in ToSet(bundles[i])
      <3>1. CASE i = n
        BY <2>1, <1>1, <3>1
      <3>2. CASE i # n
        <4>1. i \in 1..(n - 1) /\ Append(p, x)[i] = p[i]
          BY <2>1, <1>1, <3>2
        <4> QED
          BY <4>1, <2>1
      <3> QED
        BY <3>1, <3>2
    <2> QED
      BY <2>2, <2>3, Zenon DEF PicksOf, p, x, T
  <1>6. \A j \in 1..Len(ps) : IsList(one(j)) /\ ToSet(one(j)) \subseteq PicksOf(bundles, n)
    <2> TAKE j \in 1..Len(ps)
    <2> HIDE DEF one
    <2> QED
      BY <1>5, <1>2, FunctionsAreLists
  <1>7. all \in [1..Len(ps) -> {one(j) : j \in 1..Len(ps)}]
    BY <1>3, Zenon
  <1>8. IsList(all) /\ Len(all) = Len(ps)
    <2> HIDE DEF all, one
    <2> QED
      BY <1>7, <1>3, FunctionsAreLists
  <1>9. \A j \in 1..Len(ps) : all[j] = one(j)
    BY <1>3, Zenon
  <1> HIDE DEF all, one
  <1>10. IsList(FlattenSeq(all)) /\ ToSet(FlattenSeq(all)) = UNION {ToSet(all[i]) : i \in 1..Len(all)}
    BY <1>6, <1>8, <1>9, FlattenCollects
  <1>11. ToSet(FlattenSeq(all)) \subseteq PicksOf(bundles, n)
    BY <1>6, <1>8, <1>9, <1>10
  <1>12. FlattenSeq(all) \in Seq(PicksOf(bundles, n))
    <2> DEFINE f == FlattenSeq(all)
    <2> HIDE DEF f
    <2>1. f \in Seq(ToSet(f)) /\ ToSet(f) \subseteq PicksOf(bundles, n)
      BY <1>10, <1>11, Zenon DEF f, IsList
    <2> QED
      BY <2>1, SeqMonotonic DEF f
  <1> QED
    BY <1>12, Zenon DEF all, one
\* The depth-first walk yields picks of one section per bundle.
LEMMA WalkPicks ==
    ASSUME NEW bundles, IsList(bundles), \A i \in 1..Len(bundles) : IsList(bundles[i])
    PROVE  AllPicks(bundles) \in Seq(PicksOf(bundles, Len(bundles)))
  <1> DEFINE n == Len(bundles)
             P(i) == Seq(PicksOf(bundles, i))
             T == UNION {P(i) : i \in 0..n}
             More(ps, i) == FlattenSeq([j \in DOMAIN ps |-> [k \in DOMAIN bundles[i] |-> Append(ps[j], bundles[i][k])]])
             step == [x \in T \X (1..n) |-> IF x[1] \in P(x[2] - 1) THEN More(x[1], x[2]) ELSE << <<>> >>]
             Body(g) == [i \in 0..n |-> IF i = 0 THEN << <<>> >> ELSE More(g[i - 1], i)]
             picks == CHOOSE g : g = Body(g)
  <1>1. n \in Nat
    BY ListProperties
  <1>2. << <<>> >> \in P(0)
    <2>1. <<>> \in PicksOf(bundles, 0)
      BY DEF PicksOf
    <2> QED
      BY <2>1
  <1>3. \A i \in 1..n : \A ps \in P(i - 1) : More(ps, i) \in P(i)
    <2> SUFFICES ASSUME NEW i \in 1..n, NEW ps \in P(i - 1)
                 PROVE  More(ps, i) \in P(i)
      OBVIOUS
    <2> QED
      BY PicksGrow
  <1> HIDE DEF P, More
  <1>4. << <<>> >> \in T /\ step \in [T \X (1..n) -> T]
    <2>1. \A i \in 0..n : P(i) \subseteq T
      OBVIOUS
    <2>2. << <<>> >> \in T
      <3>1. 0 \in 0..n
        BY <1>1
      <3> QED
        BY <1>2, <2>1, <3>1
    <2>3. \A i \in 1..n : i \in 0..n
      BY <1>1
    <2> HIDE DEF T, n
    <2> QED
      BY <1>3, <2>1, <2>2, <2>3
  <1>5. PICK g : Recursive(g, n, T, << <<>> >>, step)
    <2> HIDE DEF T, n, step, Body, picks
    <2> QED
      BY <1>1, <1>4, FiniteRecursion
  <1>6. g \in [0..n -> T] /\ g[0] = << <<>> >> /\ \A i \in 1..n : g[i] = step[<<g[i - 1], i>>]
    BY <1>5, Zenon DEF Recursive
  <1>7. \A i \in 1..n : i \in 0..n /\ i - 1 \in 0..n
    BY <1>1
  <1>8. \A i \in 1..n : g[i] = IF g[i - 1] \in P(i - 1) THEN More(g[i - 1], i) ELSE << <<>> >>
    <2> TAKE i \in 1..n
    <2> HIDE DEF T, n
    <2>1. <<g[i - 1], i>> \in T \X (1..n)
      BY <1>6, <1>7
    <2> QED
      BY <1>6, <2>1
  <1> HIDE DEF step, T
  <1> DEFINE good == {i \in 0..n : g[i] \in P(i)}
  <1>9. 0 \in good
    BY <1>1, <1>2, <1>6
  <1>10. ASSUME NEW i \in 1..n, i - 1 \in good PROVE i \in good
    <2>1. g[i] = More(g[i - 1], i) /\ More(g[i - 1], i) \in P(i)
      BY <1>3, <1>8, <1>10
    <2> QED
      BY <1>7, <2>1
  <1>11. \A i \in 0..n : i \in good
    <2> HIDE DEF good, n
    <2> QED
      BY <1>1, <1>9, <1>10, FiniteInduction
  <1>12. g = Body(g)
    <2>1. \A i \in 0..n : g[i] = IF i = 0 THEN << <<>> >> ELSE More(g[i - 1], i)
      <3> TAKE i \in 0..n
      <3>1. CASE i = 0
        BY <1>6, <3>1
      <3>2. CASE i # 0
        <4>1. i \in 1..n
          BY <1>1, <3>2
        <4>2. g[i - 1] \in P(i - 1)
          BY <1>7, <1>11, <4>1
        <4> QED
          BY <1>8, <3>2, <4>1, <4>2
      <3> QED
        BY <3>1, <3>2
    <2> HIDE DEF n, picks, good
    <2>2. g = [i \in 0..n |-> g[i]]
      BY <1>6
    <2> QED
      BY <2>1, <2>2
  <1>13. picks = Body(picks)
    BY <1>12, Zenon
  <1>14. \A i \in 0..n : picks[i] = IF i = 0 THEN << <<>> >> ELSE More(picks[i - 1], i)
    <2> HIDE DEF picks, n, good
    <2> QED
      BY <1>13, Zenon
  <1>15. AllPicks(bundles) = picks[n]
    BY Zenon DEF AllPicks, More
  <1> HIDE DEF picks, Body, good
  <1> DEFINE fine == {i \in 0..n : picks[i] \in P(i)}
  <1>16. 0 \in fine
    BY <1>1, <1>2, <1>14
  <1>17. ASSUME NEW i \in 1..n, i - 1 \in fine PROVE i \in fine
    <2>1. i # 0
      BY <1>1
    <2>2. picks[i] = More(picks[i - 1], i) /\ More(picks[i - 1], i) \in P(i)
      BY <1>3, <1>7, <1>14, <1>17, <2>1
    <2> QED
      BY <1>7, <2>2
  <1>18. n \in fine
    <2>1. n \in 0..n
      BY <1>1
    <2> HIDE DEF fine, n
    <2> QED
      BY <1>1, <1>16, <1>17, <2>1, FiniteInduction
  <1> QED
    BY <1>15, <1>18 DEF P

-----------------------------------------------------------------------------
(* What one materialization offers.                                        *)

RowsOf(courses, answers, i) == Of(courses[i], answers[i])
AllRows(courses, answers) == FlattenSeq([i \in DOMAIN courses |-> RowsOf(courses, answers, i)])
OpenRows(courses, answers) == Filter(AllRows(courses, answers), {s \in ToSet(AllRows(courses, answers)) : IsOpenStatus(s)})

\* A conflict-free choice of one surviving section for each course kept.
Offered(pick, courses, answers, w) ==
  /\ IsList(pick) /\ ConflictFree(pick)
  /\ \E kept : /\ IsList(kept) /\ ToSet(kept) \subseteq ToSet(courses) /\ Len(pick) = Len(kept)
               /\ IsInjective(courses) => IsInjective(kept)
               /\ \A i \in 1..Len(pick) : /\ pick[i].code = kept[i]
                                          /\ pick[i] \in ToSet(Surviving(OpenRows(courses, answers), w))

LEMMA OfOneCourse ==
    ASSUME NEW c, NEW rows, IsList(rows)
    PROVE  IsList(Of(c, rows)) /\ ToSet(Of(c, rows)) = {r \in ToSet(rows) : r.code = c}
  <1>1. /\ IsList(Of(c, rows))
        /\ ToSet(Of(c, rows)) = ToSet(rows) \cap {r \in ToSet(rows) : r.code = c}
    BY FilterKeeps, Zenon DEF Of
  <1> QED
    BY <1>1

\* The rows of the courses are a list of their rows, the open ones of those.
LEMMA RowsCollected ==
    ASSUME NEW courses, IsList(courses), NEW answers,
           \A i \in 1..Len(courses) : IsList(RowsOf(courses, answers, i))
    PROVE  /\ IsList(AllRows(courses, answers)) /\ IsList(OpenRows(courses, answers))
           /\ \A s \in ToSet(OpenRows(courses, answers)) :
                IsOpenStatus(s) /\ \E i \in 1..Len(courses) : s \in ToSet(RowsOf(courses, answers, i))
  <1> DEFINE rows == [i \in DOMAIN courses |-> RowsOf(courses, answers, i)]
             n == Len(courses)
  <1>1. n \in Nat /\ DOMAIN courses = 1..n
    BY ListProperties
  <1>2. rows \in [1..n -> {RowsOf(courses, answers, i) : i \in 1..n}]
    BY <1>1, Zenon
  <1>3. IsList(rows) /\ Len(rows) = n
    <2> HIDE DEF rows, n
    <2> QED
      BY <1>1, <1>2, FunctionsAreLists
  <1>4. \A i \in 1..n : rows[i] = RowsOf(courses, answers, i)
    BY <1>1, Zenon
  <1> HIDE DEF rows
  <1>5. IsList(FlattenSeq(rows)) /\ ToSet(FlattenSeq(rows)) = UNION {ToSet(rows[i]) : i \in 1..Len(rows)}
    BY <1>3, <1>4, FlattenCollects
  <1>6. AllRows(courses, answers) = FlattenSeq(rows)
    BY Zenon DEF AllRows, rows
  <1>7. /\ IsList(OpenRows(courses, answers))
        /\ ToSet(OpenRows(courses, answers)) = ToSet(AllRows(courses, answers)) \cap {s \in ToSet(AllRows(courses, answers)) : IsOpenStatus(s)}
    BY <1>5, <1>6, FilterKeeps, Zenon DEF OpenRows
  <1> QED
    BY <1>3, <1>4, <1>5, <1>6, <1>7

\* The walk, cut at the cap, of the conflict-free picks.
LEMMA CombinationsArePicks ==
    ASSUME NEW bundles, IsList(bundles), \A i \in 1..Len(bundles) : IsList(bundles[i])
    PROVE  /\ IsList(Combinations(bundles).combos)
           /\ \A pick \in ToSet(Combinations(bundles).combos) :
                pick \in PicksOf(bundles, Len(bundles)) /\ ConflictFree(pick)
  <1> DEFINE all == IF bundles = <<>> THEN <<>> ELSE AllPicks(bundles)
             free == Filter(all, {pick \in ToSet(all) : ConflictFree(pick)})
             cut == Min({Cap, Len(free)})
             out == SubSeq(free, 1, cut)
  <1>1. IsList(all) /\ ToSet(all) \subseteq PicksOf(bundles, Len(bundles))
    <2>1. CASE bundles = <<>>
      BY <2>1, NothingIsAList
    <2>2. CASE bundles # <<>>
      BY <2>2, WalkPicks, SeqsAreLists
    <2> QED
      BY <2>1, <2>2
  <1>2. Combinations(bundles).combos = out
    BY DEF Combinations
  <1> HIDE DEF all
  <1>3. IsList(free) /\ ToSet(free) = ToSet(all) \cap {pick \in ToSet(all) : ConflictFree(pick)}
    BY <1>1, FilterKeeps, Zenon
  <1> HIDE DEF free
  <1>4. cut \in 0..Len(free)
    <2>1. Len(free) \in Nat /\ Cap \in Nat
      BY <1>3, ListProperties, SectionsAssumption
    <2>2. {Cap, Len(free)} \subseteq Nat /\ {Cap, Len(free)} # {}
      BY <2>1
    <2>3. cut \in {Cap, Len(free)} /\ \A k \in {Cap, Len(free)} : cut <= k
      BY <2>2, MinOf
    <2> HIDE DEF cut
    <2> QED
      BY <2>1, <2>3
  <1> HIDE DEF cut
  <1>5. IsList(out) /\ Len(out) = cut /\ \A i \in 1..cut : out[i] = free[i]
    BY <1>3, <1>4, PrefixIsList
  <1>6. ToSet(out) \subseteq ToSet(free)
    <2> HIDE DEF out
    <2>1. \A i \in 1..cut : i \in 1..Len(free)
      BY <1>3, <1>4, ListProperties
    <2>2. \A i \in 1..Len(free) : free[i] \in ToSet(free)
      BY <1>3, ListProperties
    <2>3. \A x \in ToSet(out) : \E i \in 1..cut : x = out[i]
      BY <1>5, ListProperties
    <2> QED
      BY <1>5, <2>1, <2>2, <2>3, Zenon
  <1> QED
    BY <1>1, <1>2, <1>3, <1>5, <1>6

\* Every combination offered is a conflict-free choice of surviving sections.
LEMMA MaterializedAreOffered ==
    ASSUME NEW courses, IsList(courses), NEW answers,
           \A i \in 1..Len(courses) : IsList(RowsOf(courses, answers, i)), NEW w
    PROVE  /\ IsList(MaterializeSections(courses, answers, w).combos)
           /\ \A pick \in ToSet(MaterializeSections(courses, answers, w).combos) : Offered(pick, courses, answers, w)
  <1> DEFINE rows == AllRows(courses, answers)
             surviving == Surviving(OpenRows(courses, answers), w)
             kept == Filter(courses, {c \in ToSet(courses) : Of(c, surviving) # <<>>})
             bundles == [i \in DOMAIN kept |-> Of(kept[i], surviving)]
             found == Combinations(bundles).combos
             combos == IF ClassifyAvailability(rows) = "full" THEN Ranked(found, w) ELSE <<>>
  <1>1. MaterializeSections(courses, answers, w).combos = combos
    BY Zenon DEF MaterializeSections, OpenRows, AllRows, RowsOf
  <1>2. IsList(surviving)
    BY RowsCollected, FilterKeeps, Zenon DEF Surviving
  <1> HIDE DEF surviving
  <1>3. /\ IsList(kept) /\ ToSet(kept) = ToSet(courses) \cap {c \in ToSet(courses) : Of(c, surviving) # <<>>}
        /\ IsInjective(courses) => IsInjective(kept)
    BY FilterKeeps, Zenon
  <1> HIDE DEF kept
  <1>4. Len(kept) \in Nat /\ DOMAIN kept = 1..Len(kept)
    BY <1>3, ListProperties
  <1>5. bundles \in [1..Len(kept) -> {Of(kept[i], surviving) : i \in 1..Len(kept)}]
    BY <1>4, Zenon
  <1>6. \A i \in 1..Len(kept) : bundles[i] = Of(kept[i], surviving)
    BY <1>4, Zenon
  <1> HIDE DEF bundles
  <1>7. IsList(bundles) /\ Len(bundles) = Len(kept)
    BY <1>4, <1>5, FunctionsAreLists
  <1>8. \A i \in 1..Len(kept) : IsList(bundles[i]) /\ ToSet(bundles[i]) = {r \in ToSet(surviving) : r.code = kept[i]}
    BY <1>2, <1>6, OfOneCourse
  <1>9. /\ IsList(found)
        /\ \A pick \in ToSet(found) : pick \in PicksOf(bundles, Len(bundles)) /\ ConflictFree(pick)
    BY <1>7, <1>8, CombinationsArePicks
  <1> HIDE DEF found
  <1>10. IsList(combos) /\ ToSet(combos) \subseteq ToSet(found)
    <2>1. IsList(Ranked(found, w)) /\ ToSet(Ranked(found, w)) = ToSet(found)
      BY <1>9, SortPermutes, Zenon DEF Ranked
    <2> QED
      BY <2>1, NothingIsAList
  <1> HIDE DEF combos
  <1>11. ASSUME NEW pick \in ToSet(found) PROVE Offered(pick, courses, answers, w)
    <2>1. /\ pick \in Seq(UNION {ToSet(bundles[i]) : i \in 1..Len(bundles)}) /\ Len(pick) = Len(kept)
          /\ \A i \in 1..Len(pick) : pick[i] \in ToSet(bundles[i])
      BY <1>7, <1>9 DEF PicksOf
    <2>2. IsList(pick)
      BY <2>1, SeqsAreLists
    <2>3. \A i \in 1..Len(pick) : pick[i].code = kept[i] /\ pick[i] \in ToSet(surviving)
      BY <1>8, <2>1
    <2>4. ToSet(kept) \subseteq ToSet(courses)
      BY <1>3
    <2> QED
      BY <1>3, <1>9, <2>1, <2>2, <2>3, <2>4 DEF Offered, surviving
  <1> QED
    BY <1>1, <1>10, <1>11

\* A free day is one the student named, or a weekday.
LEMMA FreeDayIsADay ==
    ASSUME NEW sections, IsList(sections), NEW w
    PROVE  ResolveFreeDay(sections, w) \in (IF w.freeDay = "any" THEN ToSet(Weekdays) ELSE {w.freeDay})
  <1> DEFINE count(d) == Cardinality({i \in DOMAIN sections : MeetsOnDay(sections[i], d)})
             least == {i \in DOMAIN Weekdays : \A j \in DOMAIN Weekdays : count(Weekdays[i]) <= count(Weekdays[j])}
  <1>1. \A d : count(d) \in Nat
    <2> TAKE d
    <2>1. Len(sections) \in Nat /\ DOMAIN sections = 1..Len(sections)
      BY ListProperties
    <2>2. IsFiniteSet(DOMAIN sections)
      BY <2>1, FS_Interval
    <2> QED
      BY <2>2, FS_Subset, FS_CardinalityType
  <1>2. Len(Weekdays) \in Nat /\ DOMAIN Weekdays = 1..Len(Weekdays) /\ Len(Weekdays) # 0
    BY SectionsAssumption, ListProperties, EmptyList
  <1> HIDE DEF count
  <1>3. least # {}
    <2> DEFINE counts == {count(Weekdays[i]) : i \in 1..Len(Weekdays)}
    <2>1. counts \subseteq Nat
      BY <1>1
    <2>2. counts # {}
      <3>1. 1 \in 1..Len(Weekdays)
        BY <1>2
      <3> QED
        BY <3>1
    <2> HIDE DEF counts
    <2>3. PICK m \in counts : \A n \in counts : m <= n
      BY <2>1, <2>2, NatMinimum
    <2>4. PICK i \in 1..Len(Weekdays) : m = count(Weekdays[i])
      BY Zenon DEF counts
    <2>5. \A j \in 1..Len(Weekdays) : count(Weekdays[i]) <= count(Weekdays[j])
      BY <2>3, <2>4 DEF counts
    <2>6. i \in least
      BY <1>2, <2>5, Zenon
    <2> QED
      BY <2>6
  <1>4. least \subseteq Nat /\ \A i \in least : i \in 1..Len(Weekdays)
    <2>1. \A i \in least : i \in 1..Len(Weekdays)
      BY <1>2, Zenon
    <2> HIDE DEF least
    <2> QED
      BY <1>2, <2>1
  <1> HIDE DEF least
  <1>5. Weekdays[Min(least)] \in ToSet(Weekdays)
    BY <1>3, <1>4, MinOf, ListProperties, SectionsAssumption
  <1>6. ResolveFreeDay(sections, w) = IF w.freeDay = "any" THEN Weekdays[Min(least)] ELSE w.freeDay
    BY Zenon DEF ResolveFreeDay, least, count
  <1> QED
    BY <1>5, <1>6

-----------------------------------------------------------------------------
(* The invariant: what the cache holds was listed when it was fetched.     *)

ListingInv == listing \in Seq(Listings) /\ Len(listing) >= 1
CacheInv == \A c \in DOMAIN cache : \E t \in 1..Clock :
              cache[c].expiresAt = t + Ttl /\ cache[c].rows = Listed(c, t)

\* An answer that was no older than the lifetime of a cached one at this time.
Fresh(c, rows, began) == \E t \in 1..Clock : began < t + Ttl /\ rows = Listed(c, t)

CallInv ==
  /\ DOMAIN call = {"began", "answers", "waits"}
  /\ call.began \in 0..Clock
  /\ IsList(call.answers)
  /\ call.began = 0 => call.answers = <<>>
  /\ \A k \in 1..Len(call.answers) : Fresh(termPlan.courses[k], call.answers[k], call.began)

SectionsInv ==
  /\ termPlan \in TermPlans
  /\ ListingInv /\ CacheInv /\ CallInv
  /\ ProposalsAreAttendable

LEMMA ListedAreLists ==
    ASSUME ListingInv, NEW c, NEW t \in 1..Clock
    PROVE  IsList(Listed(c, t))
  <1>1. listing[t] \in Listings
    BY DEF ListingInv, Clock
  <1> QED
    BY <1>1, SectionsAssumption, NothingIsAList DEF Listed

\* A live entry of the cache, and what is listed now, are fresh for any call
\* that has begun.
LEMMA AnswersAreFresh ==
    ASSUME ListingInv, CacheInv, NEW c, NEW began \in 0..Clock
    PROVE  /\ CacheGet(c) # {} => Fresh(c, cache[c].rows, began)
           /\ Fresh(c, Listed(c, Clock), began)
  <1>1. Clock \in Nat /\ Clock >= 1 /\ Ttl \in Nat /\ Ttl # 0
    BY SectionsAssumption DEF ListingInv, Clock
  <1>2. Fresh(c, Listed(c, Clock), began)
    BY <1>1 DEF Fresh
  <1>3. ASSUME CacheGet(c) # {} PROVE Fresh(c, cache[c].rows, began)
    <2>1. c \in DOMAIN cache /\ Clock < cache[c].expiresAt
      BY <1>3 DEF CacheGet
    <2>2. PICK t \in 1..Clock : cache[c].expiresAt = t + Ttl /\ cache[c].rows = Listed(c, t)
      BY <2>1 DEF CacheInv
    <2> QED
      BY <1>1, <2>1, <2>2 DEF Fresh
  <1> QED
    BY <1>2, <1>3

\* What a materialization stages can be attended.
LEMMA StagedIsAttendable ==
    ASSUME ListingInv, NEW courses, IsList(courses), NEW answers, NEW began, NEW w,
           \A k \in 1..Len(courses) : Fresh(courses[k], answers[k], began),
           NEW pick \in ToSet(MaterializeSections(courses, answers, w).combos)
    PROVE  Attendable([sections |-> pick, wish |-> w, courses |-> courses, began |-> began])
  <1> DEFINE open == OpenRows(courses, answers)
             freeDay == ResolveFreeDay(open, w)
             n == Len(pick)
  <1>0. \A i \in 1..Len(courses) : IsList(answers[i])
    BY ListedAreLists DEF Fresh
  <1>1. \A i \in 1..Len(courses) : IsList(RowsOf(courses, answers, i)) /\
          ToSet(RowsOf(courses, answers, i)) = {r \in ToSet(answers[i]) : r.code = courses[i]}
    BY <1>0, OfOneCourse DEF RowsOf
  <1>2. Offered(pick, courses, answers, w)
    BY <1>1, MaterializedAreOffered
  <1>3. PICK kept : /\ IsList(kept) /\ ToSet(kept) \subseteq ToSet(courses) /\ n = Len(kept)
                    /\ IsInjective(courses) => IsInjective(kept)
                    /\ \A i \in 1..n : pick[i].code = kept[i] /\ pick[i] \in ToSet(Surviving(open, w))
    BY <1>2 DEF Offered
  <1>4. n \in Nat /\ DOMAIN pick = 1..n
    BY <1>2, ListProperties DEF Offered
  <1>5. IsList(open) /\ \A s \in ToSet(open) :
                          IsOpenStatus(s) /\ \E i \in 1..Len(courses) : s \in ToSet(RowsOf(courses, answers, i))
    BY <1>1, RowsCollected
  <1>6. ToSet(Surviving(open, w)) = ToSet(open) \cap {s \in ToSet(open) : ~StrictlyEliminated(s, w, freeDay)}
    BY <1>5, FilterKeeps, Zenon DEF Surviving
  <1>7. \A i \in 1..n : pick[i] \in ToSet(open) /\ ~StrictlyEliminated(pick[i], w, freeDay)
    BY <1>3, <1>6
  <1>8. freeDay \in (IF w.freeDay = "any" THEN ToSet(Weekdays) ELSE {w.freeDay})
    BY <1>5, FreeDayIsADay
  <1> HIDE DEF open, freeDay
  <1>9. ASSUME NEW i \in 1..n PROVE pick[i].code \in ToSet(courses)
    BY <1>3, ListProperties
  <1>10. ASSUME NEW i \in 1..n, NEW j \in 1..n, i # j
         PROVE  ~Conflicts(pick[i], pick[j]) /\ (IsInjective(courses) => pick[i].code # pick[j].code)
    <2>1. ~Conflicts(pick[i], pick[j])
      <3>1. CASE i < j
        BY <1>2, <1>4, <3>1 DEF Offered, ConflictFree
      <3>2. CASE j < i
        <4>1. ~Conflicts(pick[j], pick[i])
          BY <1>2, <1>4, <3>2 DEF Offered, ConflictFree
        <4> QED
          BY <4>1, Zenon DEF Conflicts, Overlap
      <3> QED
        BY <1>4, <1>10, <3>1, <3>2
    <2>2. ASSUME IsInjective(courses) PROVE pick[i].code # pick[j].code
      <3>1. IsInjective(kept) /\ i \in DOMAIN kept /\ j \in DOMAIN kept
        BY <1>3, <2>2, ListProperties
      <3>2. kept[i] # kept[j]
        BY <3>1, <1>10 DEF IsInjective
      <3> QED
        BY <1>3, <3>2
    <2> QED
      BY <2>1, <2>2
  <1>11. ASSUME NEW i \in 1..n
         PROVE  /\ IsOpenStatus(pick[i])
                /\ ~(w.avoidDayStrict /\ MeetsOnDay(pick[i], w.avoidDay))
                /\ ~(w.avoidStrict /\ \E x \in w.avoid : InTimeWindow(pick[i], x))
                /\ ~(w.freeStrict /\ MeetsOnDay(pick[i], freeDay))
    BY <1>5, <1>7, Zenon DEF StrictlyEliminated
  <1>12. ASSUME NEW i \in 1..n
         PROVE  \E t \in 1..Clock : began < t + Ttl /\ pick[i] \in ToSet(Listed(pick[i].code, t))
    <2>1. PICK k \in 1..Len(courses) : pick[i] \in ToSet(RowsOf(courses, answers, k))
      BY <1>5, <1>7
    <2>2. pick[i] \in ToSet(answers[k]) /\ pick[i].code = courses[k]
      BY <1>1, <2>1
    <2> QED
      BY <2>2 DEF Fresh
  <1> DEFINE p == [sections |-> pick, wish |-> w, courses |-> courses, began |-> began]
  <1>13. p.sections = pick /\ p.began = began /\ p.wish = w /\ p.courses = courses
    OBVIOUS
  <1> HIDE DEF p, n
  <1>14. \A i \in DOMAIN pick : pick[i].code \in ToSet(courses)
    BY <1>4, <1>9
  <1>15. \A i, j \in DOMAIN pick : i # j =>
            /\ ~Conflicts(pick[i], pick[j])
            /\ IsInjective(courses) => pick[i].code # pick[j].code
    BY <1>4, <1>10
  <1>16. \A i \in DOMAIN pick :
            /\ IsOpenStatus(pick[i])
            /\ ~(w.avoidDayStrict /\ MeetsOnDay(pick[i], w.avoidDay))
            /\ ~(w.avoidStrict /\ \E x \in w.avoid : InTimeWindow(pick[i], x))
    BY <1>4, <1>11
  <1>17. w.freeStrict => \E d \in (IF w.freeDay = "any" THEN ToSet(Weekdays) ELSE {w.freeDay}) :
                           \A i \in DOMAIN pick : ~MeetsOnDay(pick[i], d)
    BY <1>4, <1>8, <1>11
  <1>18. \A i \in DOMAIN pick : \E t \in 1..Clock : began < t + Ttl /\ pick[i] \in ToSet(Listed(pick[i].code, t))
    BY <1>4, <1>12
  <1>19. Attendable(p)
    BY <1>13, <1>14, <1>15, <1>16, <1>17, <1>18, Zenon DEF Attendable
  <1> QED
    BY <1>19 DEF p

-----------------------------------------------------------------------------
(* Every step keeps the invariant.                                         *)

LEMMA NoCallIsFine ==
    ASSUME ListingInv, call = NoCall
    PROVE  CallInv
  <1>1. call.began = 0 /\ call.answers = <<>> /\ DOMAIN call = {"began", "answers", "waits"} /\ Clock \in Nat
    BY DEF NoCall, ListingInv, Clock
  <1> QED
    BY <1>1, NothingIsAList DEF CallInv

LEMMA InitOffersNothing ==
    ASSUME SectionsInit
    PROVE  SectionsInv
  <1>1. PICK l \in Listings : listing = <<l>>
    BY DEF SectionsInit
  <1>2. ListingInv
    BY <1>1 DEF ListingInv
  <1>3. cache = <<>> /\ pending = <<>> /\ termPlan \in TermPlans /\ call = NoCall
    BY DEF SectionsInit
  <1>4. DOMAIN cache = {} /\ DOMAIN pending = {}
    BY <1>3
  <1>5. CallInv
    BY <1>2, <1>3, NoCallIsFine
  <1> QED
    BY <1>2, <1>3, <1>4, <1>5 DEF SectionsInv, CacheInv, ProposalsAreAttendable

\* What was attendable stays so while the listings of its time do.
LEMMA StaysAttendable ==
    ASSUME NEW p, Attendable(p),
           \A t \in 1..Clock : t \in 1..Clock' /\ \A c : Listed(c, t)' = Listed(c, t)
    PROVE  Attendable(p)'
  <1>1. \A i \in DOMAIN p.sections : \E t \in 1..Clock' :
          p.began < t + Ttl /\ p.sections[i] \in ToSet(Listed(p.sections[i].code, t)')
    BY DEF Attendable
  <1> QED
    BY <1>1, Zenon DEF Attendable

\* While nothing new is listed, the invariant stays.
LEMMA SameListing ==
    ASSUME SectionsInv, UNCHANGED listing, termPlan' \in TermPlans, CacheInv', CallInv', pending' = pending
    PROVE  SectionsInv'
  <1>1. ListingInv'
    BY DEF SectionsInv, ListingInv
  <1>2. ProposalsAreAttendable'
    <2>1. SUFFICES ASSUME NEW id \in DOMAIN pending'
                   PROVE  Attendable(pending[id])'
      BY Zenon DEF ProposalsAreAttendable
    <2>2. PICK p : p = pending[id]
      OBVIOUS
    <2>3. Attendable(p)
      BY <2>2, Zenon DEF SectionsInv, ProposalsAreAttendable
    <2>4. Clock' = Clock /\ \A t : \A c : Listed(c, t)' = Listed(c, t)
      BY DEF Listed, Clock
    <2>5. Attendable(p)'
      BY <2>3, <2>4, StaysAttendable
    <2> QED
      BY <2>2, <2>5, Zenon
  <1> QED
    BY <1>1, <1>2 DEF SectionsInv

LEMMA TickKeeps ==
    ASSUME SectionsInv, Tick
    PROVE  SectionsInv'
  <1>1. PICK l \in Listings : listing' = Append(listing, l)
    BY DEF Tick
  <1>2. /\ listing' \in Seq(Listings) /\ Clock' = Clock + 1 /\ Clock \in Nat /\ Clock >= 1
        /\ \A t \in 1..Clock : listing'[t] = listing[t]
    BY <1>1 DEF SectionsInv, ListingInv, Clock
  <1>3. UNCHANGED <<cache, termPlan, call, pending>>
    BY DEF Tick
  <1>4. \A t \in 1..Clock : t \in 1..Clock'
    BY <1>2
  <1>5. \A t \in 1..Clock : \A c : Listed(c, t)' = Listed(c, t)
    BY <1>2 DEF Listed
  <1>6. ListingInv'
    BY <1>2 DEF ListingInv, Clock
  <1>7. CacheInv'
    BY <1>3, <1>4, <1>5, Zenon DEF SectionsInv, CacheInv
  <1>8. CallInv'
    <2>1. ASSUME NEW c, NEW rows, NEW began, Fresh(c, rows, began) PROVE Fresh(c, rows, began)'
      <3>1. PICK t \in 1..Clock : began < t + Ttl /\ rows = Listed(c, t)
        BY <2>1 DEF Fresh
      <3>2. t \in 1..Clock' /\ Listed(c, t)' = rows
        BY <1>4, <1>5, <3>1
      <3> QED
        BY <3>1, <3>2, Zenon DEF Fresh
    <2>2. call.began \in 0..Clock'
      BY <1>2 DEF SectionsInv, CallInv
    <2> QED
      BY <1>3, <2>1, <2>2, Zenon DEF SectionsInv, CallInv
  <1>9. ASSUME NEW id \in DOMAIN pending PROVE Attendable(pending[id])'
    <2>1. PICK p : p = pending[id]
      OBVIOUS
    <2>2. Attendable(p)
      BY <2>1 DEF SectionsInv, ProposalsAreAttendable
    <2>3. Attendable(p)'
      BY <1>4, <1>5, <2>2, StaysAttendable
    <2>4. pending'[id] = p
      BY <1>3, <2>1
    <2> QED
      BY <2>3, <2>4, Zenon
  <1> QED
    BY <1>3, <1>6, <1>7, <1>8, <1>9 DEF SectionsInv, ProposalsAreAttendable

\* A search that is answered leaves in the cache what was listed.
LEMMA SearchesKeepTheCache ==
    ASSUME SectionsInv, UNCHANGED listing, NEW x, cache' = CacheSet(x, Listed(x, Clock))
    PROVE  CacheInv'
  <1>1. Clock' = Clock /\ Clock \in Nat /\ Clock >= 1
    BY DEF SectionsInv, ListingInv, Clock
  <1>2. SUFFICES ASSUME NEW c \in DOMAIN cache'
                 PROVE  \E t \in 1..Clock : cache'[c].expiresAt = t + Ttl /\ cache'[c].rows = Listed(c, t)
    BY <1>1 DEF CacheInv, Listed
  <1>3. c \in DOMAIN cache \cup {x}
    BY DEF CacheSet
  <1>4. CASE c = x
    <2>1. cache'[c] = [rows |-> Listed(x, Clock), expiresAt |-> Clock + Ttl]
      BY <1>3, <1>4 DEF CacheSet
    <2> QED
      BY <1>1, <1>4, <2>1
  <1>5. CASE c # x
    <2>1. cache'[c] = cache[c]
      BY <1>3, <1>5 DEF CacheSet
    <2>2. c \in DOMAIN cache
      BY <1>3, <1>5
    <2> QED
      BY <2>1, <2>2 DEF SectionsInv, CacheInv
  <1> QED
    BY <1>4, <1>5

\* While the listing and the cache are what they were, so is what is said of
\* them.
LEMMA SameSearches ==
    ASSUME SectionsInv, UNCHANGED listing
    PROVE  /\ UNCHANGED cache => CacheInv'
           /\ UNCHANGED <<call, termPlan>> => CallInv'
           /\ \A c, rows, began : Fresh(c, rows, began) => Fresh(c, rows, began)'
           /\ Clock' = Clock /\ Clock \in Nat /\ Clock >= 1
  <1>1. Clock' = Clock /\ Clock \in Nat /\ Clock >= 1
    BY DEF SectionsInv, ListingInv, Clock
  <1>2. \A c, t : Listed(c, t)' = Listed(c, t)
    BY DEF Listed
  <1>3. UNCHANGED cache => CacheInv'
    BY <1>1, <1>2 DEF SectionsInv, CacheInv
  <1>4. \A c, rows, began : Fresh(c, rows, began) => Fresh(c, rows, began)'
    BY <1>1, <1>2 DEF Fresh
  <1>5. UNCHANGED <<call, termPlan>> => CallInv'
    BY <1>1, <1>4, Zenon DEF SectionsInv, CallInv
  <1> QED
    BY <1>1, <1>3, <1>4, <1>5

\* A call begins, ends, or is not under way.
LEMMA NoAnswersIsFine ==
    ASSUME SectionsInv, UNCHANGED listing, DOMAIN call' = {"began", "answers", "waits"},
           call'.answers = <<>>, call'.began \in 0..Clock
    PROVE  CallInv'
  <1>1. Clock' = Clock /\ 1..Len(<<>>) = {}
    BY DEF Clock
  <1> QED
    BY <1>1, NothingIsAList DEF CallInv

\* One more course is answered, from the cache or by a search.
LEMMA OneMoreAnswer ==
    ASSUME SectionsInv, UNCHANGED <<listing, termPlan>>, Calling, NEW rows,
           Fresh(NextCourse, rows, call.began),
           DOMAIN call' = {"began", "answers", "waits"},
           call'.answers = Append(call.answers, rows), call'.began = call.began
    PROVE  CallInv'
  <1> DEFINE courses == termPlan.courses
             answers == call.answers
             more == Append(answers, rows)
             n == Len(answers)
             began == call.began
  <1>1. /\ IsList(answers) /\ began \in 0..Clock /\ began > 0
        /\ \A k \in 1..n : Fresh(courses[k], answers[k], began)
        /\ Fresh(courses[n + 1], rows, began)
    BY DEF SectionsInv, CallInv, Calling, NextCourse
  <1>2. call'.answers = more /\ call'.began = began /\ termPlan'.courses = courses
    OBVIOUS
  <1>3. Clock' = Clock /\ \A c, x, b : Fresh(c, x, b) => Fresh(c, x, b)'
    BY SameSearches
  <1> HIDE DEF courses, answers, began
  <1>4. IsList(more) /\ Len(more) = n + 1 /\ n \in Nat /\ \A k \in 1..n : more[k] = answers[k]
    BY <1>1, AppendIsList, ListProperties
  <1>5. more[n + 1] = rows
    <2>1. answers \in Seq(ToSet(answers) \cup {rows})
      BY <1>1, SeqMonotonic DEF IsList
    <2> QED
      BY <2>1
  <1> HIDE DEF more, n
  <1>6. \A k \in 1..(n + 1) : Fresh(courses[k], more[k], began)
    <2> TAKE k \in 1..(n + 1)
    <2>1. k \in 1..n \/ k = n + 1
      BY <1>4
    <2> QED
      BY <1>1, <1>4, <1>5, <2>1
  <1>7. ASSUME NEW k \in 1..(n + 1), NEW c, NEW x, NEW b, c = courses[k], x = more[k], b = began
        PROVE  Fresh(c, x, b)'
    BY <1>3, <1>6, <1>7
  <1> QED
    BY <1>1, <1>2, <1>3, <1>4, <1>7 DEF CallInv

\* What the steps of a call that change nothing but it have to keep.
LEMMA CallKeeps ==
    ASSUME SectionsInv, UNCHANGED <<listing, termPlan, pending>>, CacheInv', CallInv'
    PROVE  SectionsInv'
  BY SameListing DEF SectionsInv

LEMMA BeginKeeps ==
    ASSUME SectionsInv, MaterializeTerm
    PROVE  SectionsInv'
  <1>1. UNCHANGED <<listing, cache, termPlan, pending>>
    BY DEF MaterializeTerm
  <1>2. CASE UNCHANGED call
    BY <1>1, <1>2, SameSearches, CallKeeps
  <1>3. CASE call' = [NoCall EXCEPT !.began = Clock]
    <2>1. call' = [began |-> Clock, answers |-> <<>>, waits |-> FALSE]
      BY <1>3 DEF NoCall
    <2>2. Clock \in 0..Clock
      BY <1>1, SameSearches
    <2>3. call'.answers = <<>> /\ call'.began \in 0..Clock /\ DOMAIN call' = {"began", "answers", "waits"}
      BY <2>1, <2>2
    <2>4. CallInv'
      BY <1>1, <2>3, NoAnswersIsFine
    <2> QED
      BY <1>1, <2>4, SameSearches, CallKeeps
  <1> QED
    BY <1>2, <1>3 DEF MaterializeTerm

LEMMA FetchKeeps ==
    ASSUME SectionsInv, FetchCourse
    PROVE  SectionsInv'
  <1>1. UNCHANGED <<listing, cache, termPlan, pending>> /\ Calling
    BY DEF FetchCourse
  <1>2. DOMAIN call = {"began", "answers", "waits"} /\ ListingInv /\ CacheInv /\ call.began \in 0..Clock
    BY DEF SectionsInv, CallInv
  <1>3. CASE CacheGet(NextCourse) = {}
    <2>1. call' = [call EXCEPT !.waits = TRUE]
      BY <1>3 DEF FetchCourse
    <2>2. DOMAIN call' = DOMAIN call /\ call'.began = call.began /\ call'.answers = call.answers
      BY <1>2, <2>1
    <2>3. \A c, rows, began : Fresh(c, rows, began) => Fresh(c, rows, began)'
      BY <1>1, SameSearches
    <2>4. Clock' = Clock
      BY <1>1, SameSearches
    <2>5. CallInv'
      BY <1>1, <2>2, <2>3, <2>4, Zenon DEF SectionsInv, CallInv
    <2> QED
      BY <1>1, <2>5, SameSearches, CallKeeps
  <1>4. CASE CacheGet(NextCourse) # {}
    <2> DEFINE rows == cache[NextCourse].rows
    <2>1. call' = [call EXCEPT !.answers = Append(call.answers, rows)]
      BY <1>4 DEF FetchCourse
    <2>2. Fresh(NextCourse, rows, call.began)
      BY <1>2, <1>4, AnswersAreFresh
    <2> HIDE DEF rows
    <2>3. DOMAIN call' = {"began", "answers", "waits"} /\ call'.began = call.began
          /\ call'.answers = Append(call.answers, rows)
      BY <1>2, <2>1
    <2>4. CallInv'
      BY <1>1, <2>2, <2>3, OneMoreAnswer
    <2> QED
      BY <1>1, <2>4, SameSearches, CallKeeps
  <1> QED
    BY <1>3, <1>4

LEMMA AnswerKeeps ==
    ASSUME SectionsInv, SearchAnswers
    PROVE  SectionsInv'
  <1> DEFINE rows == Listed(NextCourse, Clock)
  <1>1. UNCHANGED <<listing, termPlan, pending>> /\ Calling /\ cache' = CacheSet(NextCourse, rows)
    BY DEF SearchAnswers
  <1>2. DOMAIN call = {"began", "answers", "waits"} /\ ListingInv /\ CacheInv /\ call.began \in 0..Clock
    BY DEF SectionsInv, CallInv
  <1>3. Fresh(NextCourse, rows, call.began)
    BY <1>2, AnswersAreFresh
  <1>4. CacheInv'
    BY <1>1, SearchesKeepTheCache
  <1>5. call' = [call EXCEPT !.answers = Append(call.answers, rows), !.waits = FALSE]
    BY DEF SearchAnswers
  <1> HIDE DEF rows
  <1>6. DOMAIN call' = {"began", "answers", "waits"} /\ call'.began = call.began
        /\ call'.answers = Append(call.answers, rows)
    BY <1>2, <1>5
  <1>7. CallInv'
    BY <1>1, <1>3, <1>6, OneMoreAnswer
  <1> QED
    BY <1>1, <1>4, <1>7, CallKeeps

LEMMA FailKeeps ==
    ASSUME SectionsInv, SearchFails
    PROVE  SectionsInv'
  <1>1. UNCHANGED <<listing, cache, termPlan, pending>> /\ call' = NoCall
    BY DEF SearchFails
  <1>2. call'.answers = <<>> /\ call'.began \in 0..Clock /\ DOMAIN call' = {"began", "answers", "waits"}
    BY <1>1, SameSearches DEF NoCall
  <1>3. CallInv'
    BY <1>1, <1>2, NoAnswersIsFine
  <1> QED
    BY <1>1, <1>3, SameSearches, CallKeeps

LEMMA StageKeeps ==
    ASSUME SectionsInv, StageCombinations
    PROVE  SectionsInv'
  <1> DEFINE courses == termPlan.courses
             answers == call.answers
             began == call.began
             wish == schedPrefs
             combos == MaterializeSections(courses, answers, wish).combos
             fresh(i) == [sections |-> combos[i], wish |-> wish, courses |-> courses, began |-> began]
             staged == [i \in DOMAIN combos |-> fresh(i)]
  <1>1. /\ UNCHANGED <<listing, cache, termPlan>> /\ call' = NoCall
        /\ pending' = Spread(staged, pending) /\ Len(answers) = Len(courses)
    BY Zenon DEF StageCombinations
  <1>2. IsList(courses) /\ \A k \in 1..Len(courses) : Fresh(courses[k], answers[k], began)
    BY <1>1, SectionsAssumption DEF SectionsInv, CallInv
  <1> HIDE DEF courses, answers, began, wish
  <1>3. \A i \in DOMAIN combos : Attendable(fresh(i))
    <2> TAKE i \in DOMAIN combos
    <2>1. combos[i] \in ToSet(combos)
      BY DEF ToSet
    <2>2. ListingInv
      BY DEF SectionsInv
    <2> HIDE DEF combos
    <2>3. combos[i] \in ToSet(MaterializeSections(courses, answers, wish).combos)
      BY <2>1 DEF combos
    <2> QED
      BY <1>2, <2>2, <2>3, StagedIsAttendable
  <1> HIDE DEF combos
  <1>4. ASSUME NEW id \in DOMAIN pending'
        PROVE  Attendable(pending'[id])
    <2>1. CASE id \in DOMAIN combos
      <3>1. pending'[id] = fresh(id)
        BY <1>1, <2>1, Zenon DEF Spread
      <3> HIDE DEF fresh
      <3> QED
        BY <1>3, <2>1, <3>1
    <2>2. CASE id \notin DOMAIN combos
      <3>1. id \in DOMAIN pending /\ pending'[id] = pending[id]
        BY <1>1, <1>4, <2>2, Zenon DEF Spread
      <3> QED
        BY <3>1 DEF SectionsInv, ProposalsAreAttendable
    <2> QED
      BY <2>1, <2>2
  <1>5. ASSUME NEW id \in DOMAIN pending' PROVE Attendable(pending[id])'
    BY <1>1, <1>4, Zenon DEF Attendable, Listed, Clock
  <1>6. ListingInv' /\ termPlan' \in TermPlans /\ CacheInv'
    BY <1>1, SameSearches DEF SectionsInv, ListingInv
  <1>7. CallInv'
    <2>1. call'.answers = <<>> /\ call'.began \in 0..Clock /\ DOMAIN call' = {"began", "answers", "waits"}
      BY <1>1, SameSearches DEF NoCall
    <2> QED
      BY <1>1, <2>1, NoAnswersIsFine
  <1> QED
    BY <1>5, <1>6, <1>7 DEF SectionsInv, ProposalsAreAttendable

LEMMA ConfirmKeeps ==
    ASSUME SectionsInv, NEW id, ConfirmCombination(id)
    PROVE  SectionsInv'
  <1>1. UNCHANGED <<listing, cache, termPlan, call>> /\ pending' = [i \in DOMAIN pending \ {id} |-> pending[i]]
    BY DEF ConfirmCombination
  <1>2. \A i \in DOMAIN pending' : i \in DOMAIN pending /\ pending'[i] = pending[i]
    BY <1>1
  <1>3. ListingInv' /\ CacheInv' /\ CallInv' /\ termPlan' \in TermPlans
    <2>1. CacheInv' /\ CallInv'
      BY <1>1, SameSearches
    <2> QED
      BY <1>1, <2>1 DEF SectionsInv, ListingInv
  <1>4. ASSUME NEW i \in DOMAIN pending' PROVE Attendable(pending[i])'
    <2>1. PICK p : p = pending[i]
      OBVIOUS
    <2>2. Attendable(p) /\ pending'[i] = p
      BY <1>2, <2>1 DEF SectionsInv, ProposalsAreAttendable
    <2>3. Clock' = Clock /\ \A t : \A c : Listed(c, t)' = Listed(c, t)
      BY <1>1 DEF Listed, Clock
    <2>4. Attendable(p)'
      BY <2>2, <2>3, StaysAttendable
    <2> QED
      BY <2>2, <2>4, Zenon
  <1> QED
    BY <1>3, <1>4 DEF SectionsInv, ProposalsAreAttendable

\* The invariant is inductive.
LEMMA SectionsKeep ==
    ASSUME SectionsInv, [SectionsNext]_sectionVars
    PROVE  SectionsInv'
  <1>1. CASE UNCHANGED sectionVars
    <2>1. UNCHANGED <<listing, cache, termPlan, call, pending>>
      BY <1>1 DEF sectionVars
    <2> QED
      BY <2>1, SameSearches, CallKeeps
  <1>2. CASE Tick
    BY <1>2, TickKeeps
  <1>3. CASE Replan
    <2>1. UNCHANGED <<listing, cache, call, pending>> /\ termPlan' \in TermPlans /\ ~Calling
      BY <1>3 DEF Replan
    <2>2. call'.answers = <<>> /\ call'.began = 0 /\ DOMAIN call' = {"began", "answers", "waits"}
      <3>1. call.began = 0
        BY <2>1, SameSearches DEF SectionsInv, CallInv, Calling
      <3> QED
        BY <2>1, <3>1 DEF SectionsInv, CallInv
    <2>3. CallInv' /\ CacheInv'
      BY <2>1, <2>2, SameSearches, NoAnswersIsFine
    <2> QED
      BY <2>1, <2>3, SameListing
  <1>4. ASSUME NEW c, SearchedElsewhere(c) PROVE SectionsInv'
    <2>1. UNCHANGED <<listing, termPlan, call, pending>> /\ cache' = CacheSet(c, Listed(c, Clock))
      BY <1>4 DEF SearchedElsewhere
    <2> QED
      BY <2>1, SearchesKeepTheCache, SameSearches, CallKeeps
  <1>5. CASE EndTurn
    <2>1. UNCHANGED <<listing, cache, termPlan, call>> /\ pending' = <<>>
      BY <1>5 DEF EndTurn
    <2>2. DOMAIN pending' = {}
      BY <2>1
    <2>3. CallInv' /\ CacheInv'
      BY <2>1, SameSearches
    <2> QED
      BY <2>1, <2>2, <2>3
      DEF SectionsInv, ListingInv, ProposalsAreAttendable
  <1>6. CASE MaterializeTerm \/ FetchCourse \/ SearchAnswers \/ SearchFails \/ StageCombinations
    BY <1>6, BeginKeeps, FetchKeeps, AnswerKeeps, FailKeeps, StageKeeps
  <1>7. ASSUME NEW id, ConfirmCombination(id) PROVE SectionsInv'
    BY <1>7, ConfirmKeeps
  <1> QED
    BY <1>1, <1>2, <1>3, <1>4, <1>5, <1>6, <1>7, Zenon DEF SectionsNext

\* Whatever the class search shows, the plan, the preferences and the time:
\* every combination staged in a turn can be attended, was wished for and was
\* listed less than the lifetime of the cache before its call began, or later.
THEOREM ProposalsHold == SectionsSpec => []ProposalsAreAttendable
  <1>1. SectionsInit => SectionsInv
    BY InitOffersNothing
  <1>2. SectionsInv /\ [SectionsNext]_sectionVars => SectionsInv'
    BY SectionsKeep
  <1>3. SectionsInv => ProposalsAreAttendable
    BY DEF SectionsInv
  <1> QED
    BY <1>1, <1>2, <1>3, PTL DEF SectionsSpec
-----------------------------------------------------------------------------
(* The compare view.                                                       *)

IsPlan(p) ==
  /\ IsList(p.semesters) /\ IsList(p.broken)
  /\ \A i \in DOMAIN p.semesters :
       /\ p.semesters[i].term \in Nat \ {0} /\ IsList(p.semesters[i].slots)
       /\ \A n \in DOMAIN p.semesters[i].slots : p.semesters[i].slots[n].credits \in Nat
       /\ \A j \in DOMAIN p.semesters : i < j => p.semesters[i].term < p.semesters[j].term

\* A course stands first in the term the map says; one listed once, only there.
LEMMA HomeOfACourse ==
    ASSUME NEW p, IsPlan(p)
    PROVE  /\ \A k \in KeysOf(p) : /\ BuildMap(p)[k] \in Nat \ {0}
                                   /\ \E i \in DOMAIN p.semesters : /\ Lists(p.semesters[i], k)
                                                                    /\ BuildMap(p)[k] = p.semesters[i].term
           /\ \A i \in DOMAIN p.semesters : \A k :
                Lists(p.semesters[i], k) => /\ k \in KeysOf(p)
                                            /\ BuildMap(p)[k] <= p.semesters[i].term
                                            /\ ListedOnce(p, k) => BuildMap(p)[k] = p.semesters[i].term
  <1>1. Len(p.semesters) \in Nat /\ DOMAIN p.semesters = 1..Len(p.semesters)
    BY ListProperties DEF IsPlan
  <1>2. \A k \in KeysOf(p) : \E i \in DOMAIN p.semesters : Lists(p.semesters[i], k)
    BY DEF KeysOf, Lists
  <1>3. \A i \in DOMAIN p.semesters : \A k : Lists(p.semesters[i], k) => k \in KeysOf(p)
    BY DEF KeysOf, Lists
  <1>4. ASSUME NEW k \in KeysOf(p)
        PROVE  \E j \in DOMAIN p.semesters : /\ BuildMap(p)[k] = p.semesters[j].term
                                             /\ Lists(p.semesters[j], k)
                                             /\ \A i \in DOMAIN p.semesters : Lists(p.semesters[i], k) => j <= i
    <2> DEFINE homes == {i \in DOMAIN p.semesters : \E s \in SlotsOf(p.semesters[i]) : s.key = k}
    <2>1. homes # {}
      BY <1>2 DEF Lists
    <2>2. homes \subseteq Nat
      BY <1>1
    <2>3. BuildMap(p)[k] = p.semesters[Min(homes)].term
      BY DEF BuildMap
    <2>4. \A i : i \in homes <=> i \in DOMAIN p.semesters /\ Lists(p.semesters[i], k)
      BY DEF Lists
    <2> HIDE DEF homes
    <2> QED
      BY <2>1, <2>2, <2>3, <2>4, MinOf
  <1>5. ASSUME NEW i \in DOMAIN p.semesters, NEW k, Lists(p.semesters[i], k)
        PROVE  /\ BuildMap(p)[k] <= p.semesters[i].term
               /\ ListedOnce(p, k) => BuildMap(p)[k] = p.semesters[i].term
    <2>1. PICK j \in DOMAIN p.semesters : /\ BuildMap(p)[k] = p.semesters[j].term
                                          /\ Lists(p.semesters[j], k) /\ j <= i
      BY <1>3, <1>4, <1>5
    <2>2. ListedOnce(p, k) => i = j
      BY <1>5, <2>1 DEF ListedOnce
    <2>3. j = i \/ p.semesters[j].term < p.semesters[i].term
      BY <1>1, <2>1 DEF IsPlan
    <2>4. p.semesters[i].term \in Nat /\ p.semesters[j].term \in Nat
      BY DEF IsPlan
    <2> QED
      BY <2>1, <2>2, <2>3, <2>4
  <1>6. \A k \in KeysOf(p) : BuildMap(p)[k] \in Nat \ {0}
    BY <1>4 DEF IsPlan
  <1> QED
    BY <1>3, <1>4, <1>5, <1>6

MarkOf(d) == IF d = "same" THEN "none" ELSE d

\* The first listing of a course has its class for a mark, any other has none.
LEMMA GridShowsEach ==
    ASSUME NEW p, IsPlan(p), NEW side, NEW l, NEW r, NEW grid, grid = Grid(p, Column(p, side, l, r))
    PROVE  \A x \in grid : /\ \E i \in DOMAIN p.semesters : Lists(p.semesters[i], x.key) /\ x.term = p.semesters[i].term
                           /\ x.mark = IF x.term = BuildMap(p)[x.key] THEN MarkOf(Classify(x.key, l, r)[side]) ELSE "none"
  <1> DEFINE cell(t, k) == [term |-> t, key |-> k, mark |-> DiffClassFor(Column(p, side, l, r), t, k)]
             class(k) == Classify(k, l, r)[side]
  <1>1. ASSUME NEW t, NEW k \in KeysOf(p)
        PROVE  DiffClassFor(Column(p, side, l, r), t, k) = IF t = BuildMap(p)[k] THEN MarkOf(class(k)) ELSE "none"
    <2> DEFINE rows == {row \in Column(p, side, l, r) : row.term = t /\ row.key = k}
               own == [term |-> BuildMap(p)[k], key |-> k, diff |-> class(k)]
    <2>1. DiffClassFor(Column(p, side, l, r), t, k) =
            IF rows = {} \/ \E row \in rows : row.diff = "same" THEN "none" ELSE (CHOOSE row \in rows : TRUE).diff
      BY Zenon DEF DiffClassFor
    <2>2. \A row \in rows : row = own /\ t = BuildMap(p)[k]
      BY DEF Column
    <2>3. t = BuildMap(p)[k] => own \in rows
      BY DEF Column
    <2>4. own.diff = class(k)
      OBVIOUS
    <2> HIDE DEF rows, own, class
    <2>5. CASE t = BuildMap(p)[k]
      <3>1. rows = {own}
        BY <2>2, <2>3, <2>5
      <3> QED
        BY <2>1, <2>4, <2>5, <3>1 DEF MarkOf
    <2>6. CASE t # BuildMap(p)[k]
      <3>1. rows = {}
        BY <2>2, <2>6
      <3> QED
        BY <2>1, <2>6, <3>1
    <2> QED
      BY <2>5, <2>6
  <1>2. grid = UNION {{cell(p.semesters[i].term, s.key) : s \in SlotsOf(p.semesters[i])} : i \in DOMAIN p.semesters}
    BY Zenon DEF Grid
  <1>3. \A t, k : /\ cell(t, k).term = t /\ cell(t, k).key = k
                  /\ cell(t, k).mark = DiffClassFor(Column(p, side, l, r), t, k)
    OBVIOUS
  <1> HIDE DEF cell, class
  <1>4. ASSUME NEW x \in grid
        PROVE  /\ \E i \in DOMAIN p.semesters : Lists(p.semesters[i], x.key) /\ x.term = p.semesters[i].term
               /\ x.mark = IF x.term = BuildMap(p)[x.key] THEN MarkOf(class(x.key)) ELSE "none"
    <2>0. PICK i \in DOMAIN p.semesters : x \in {cell(p.semesters[i].term, s.key) : s \in SlotsOf(p.semesters[i])}
      BY <1>2
    <2>1. PICK s \in SlotsOf(p.semesters[i]) : x = cell(p.semesters[i].term, s.key)
      BY <2>0
    <2>2. x.term = p.semesters[i].term /\ x.key = s.key
      BY <1>3, <2>1
    <2>3. Lists(p.semesters[i], s.key)
      BY DEF Lists
    <2>4. s.key \in KeysOf(p)
      BY <2>3, HomeOfACourse
    <2>5. x.mark = DiffClassFor(Column(p, side, l, r), x.term, x.key)
      BY <1>3, <2>1, <2>2
    <2> QED
      BY <1>1, <2>2, <2>3, <2>4, <2>5
  <1> QED
    BY <1>4 DEF class

\* Every slot of a plan is on screen.
CellOf(column, t, k) == [term |-> t, key |-> k, mark |-> DiffClassFor(column, t, k)]

LEMMA GridHasEach ==
    ASSUME NEW p, NEW column, NEW i, NEW k, i \in DOMAIN p.semesters, Lists(p.semesters[i], k)
    PROVE  CellOf(column, p.semesters[i].term, k) \in Grid(p, column)
  <1>1. PICK s \in SlotsOf(p.semesters[i]) : s.key = k
    BY DEF Lists
  <1>2. Grid(p, column) = UNION {{CellOf(column, p.semesters[j].term, x.key) : x \in SlotsOf(p.semesters[j])} : j \in DOMAIN p.semesters}
    BY Zenon DEF Grid, CellOf
  <1> QED
    BY <1>1, <1>2

LEMMA CellShows == \A column, t, k : CellOf(column, t, k).term = t /\ CellOf(column, t, k).key = k
  BY DEF CellOf

LEMMA ClassOf ==
    ASSUME NEW l, NEW r, NEW k, k \in DOMAIN l => l[k] \in Nat, k \in DOMAIN r => r[k] \in Nat
    PROVE  /\ k \in DOMAIN l =>
                Classify(k, l, r)["left"] =
                  IF k \notin DOMAIN r THEN "removed" ELSE IF l[k] = r[k] THEN "same"
                  ELSE IF r[k] > l[k] THEN "removed" ELSE "moved"
           /\ k \in DOMAIN r =>
                Classify(k, l, r)["right"] =
                  IF k \notin DOMAIN l THEN "added" ELSE IF l[k] = r[k] THEN "same"
                  ELSE IF r[k] > l[k] THEN "retake" ELSE "moved"
  <1>1. CASE k \notin DOMAIN r
    BY <1>1 DEF Classify, Marked
  <1>2. CASE k \in DOMAIN r /\ k \notin DOMAIN l
    BY <1>2 DEF Classify, Marked
  <1>3. CASE k \in DOMAIN r /\ k \in DOMAIN l /\ l[k] = r[k]
    BY <1>3 DEF Classify, Marked
  <1>4. CASE k \in DOMAIN r /\ k \in DOMAIN l /\ l[k] # r[k] /\ r[k] > l[k]
    BY <1>4 DEF Classify, Marked
  <1>5. CASE k \in DOMAIN r /\ k \in DOMAIN l /\ l[k] # r[k] /\ ~(r[k] > l[k])
    BY <1>5 DEF Classify, Marked
  <1> QED
    BY <1>1, <1>2, <1>3, <1>4, <1>5

\* The marks of the compare view are those of the plans.
LEMMA MarksHold ==
    ASSUME NEW l, NEW r, IsPlan(l), IsPlan(r)
    PROVE  MarksAreTrue(l, r)
  <1> DEFINE L == BuildMap(l)
             R == BuildMap(r)
             left == Grid(l, Column(l, "left", L, R))
             right == Grid(r, Column(r, "right", L, R))
             shown == Compared(l, r)
  <1>1. shown = [left |-> left, right |-> right]
    BY DEF Compared
  <1>2. \A x \in left : /\ \E i \in DOMAIN l.semesters : Lists(l.semesters[i], x.key) /\ x.term = l.semesters[i].term
                       /\ x.mark = IF x.term = L[x.key] THEN MarkOf(Classify(x.key, L, R)["left"]) ELSE "none"
    BY GridShowsEach
  <1>3. \A x \in right : /\ \E i \in DOMAIN r.semesters : Lists(r.semesters[i], x.key) /\ x.term = r.semesters[i].term
                        /\ x.mark = IF x.term = R[x.key] THEN MarkOf(Classify(x.key, L, R)["right"]) ELSE "none"
    BY GridShowsEach
  <1>4. ASSUME NEW i \in DOMAIN l.semesters, NEW k, Lists(l.semesters[i], k)
        PROVE  \E x \in left : x.key = k /\ x.term = l.semesters[i].term
    <2>1. CellOf(Column(l, "left", L, R), l.semesters[i].term, k) \in left
      BY <1>4, GridHasEach
    <2> QED
      BY <2>1, CellShows
  <1>5. ASSUME NEW i \in DOMAIN r.semesters, NEW k, Lists(r.semesters[i], k)
        PROVE  \E x \in right : x.key = k /\ x.term = r.semesters[i].term
    <2>1. CellOf(Column(r, "right", L, R), r.semesters[i].term, k) \in right
      BY <1>5, GridHasEach
    <2> QED
      BY <2>1, CellShows
  <1>6. DOMAIN L = KeysOf(l) /\ DOMAIN R = KeysOf(r)
    BY DEF BuildMap
  <1>7. /\ \A k \in KeysOf(l) : /\ L[k] \in Nat \ {0}
                                /\ \E i \in DOMAIN l.semesters : Lists(l.semesters[i], k) /\ L[k] = l.semesters[i].term
        /\ \A i \in DOMAIN l.semesters : \A k :
             Lists(l.semesters[i], k) => /\ k \in KeysOf(l) /\ L[k] <= l.semesters[i].term
                                         /\ ListedOnce(l, k) => L[k] = l.semesters[i].term
    BY HomeOfACourse
  <1>8. /\ \A k \in KeysOf(r) : /\ R[k] \in Nat \ {0}
                                /\ \E i \in DOMAIN r.semesters : Lists(r.semesters[i], k) /\ R[k] = r.semesters[i].term
        /\ \A i \in DOMAIN r.semesters : \A k :
             Lists(r.semesters[i], k) => /\ k \in KeysOf(r) /\ R[k] <= r.semesters[i].term
                                         /\ ListedOnce(r, k) => R[k] = r.semesters[i].term
    BY HomeOfACourse
  <1> HIDE DEF L, R, left, right
  <1>9. shown.left = left /\ shown.right = right /\ shown["left"] = left /\ shown["right"] = right
    BY <1>1
  <1> HIDE DEF shown
  \* what stands on either side
  <1>10. /\ \A k \in KeysOf(l) : L[k] \in Nat \ {0} /\ \E x \in left : x.key = k /\ x.term = L[k]
        /\ \A x \in left : /\ x.term \in Nat \ {0} /\ x.key \in KeysOf(l) /\ L[x.key] <= x.term
                           /\ ListedOnce(l, x.key) => x.term = L[x.key]
                           /\ x.mark = IF x.term = L[x.key] THEN MarkOf(Classify(x.key, L, R)["left"]) ELSE "none"
    <2>1. \A i \in DOMAIN l.semesters : l.semesters[i].term \in Nat \ {0}
      BY DEF IsPlan
    <2>2. ASSUME NEW x \in left
          PROVE  /\ x.term \in Nat \ {0} /\ x.key \in KeysOf(l) /\ L[x.key] <= x.term
                 /\ ListedOnce(l, x.key) => x.term = L[x.key]
      <3>1. PICK i \in DOMAIN l.semesters : Lists(l.semesters[i], x.key) /\ x.term = l.semesters[i].term
        BY <1>2
      <3> QED
        BY <1>7, <2>1, <3>1
    <2>3. ASSUME NEW k \in KeysOf(l)
          PROVE  \E x \in left : x.key = k /\ x.term = L[k]
      <3>1. PICK i \in DOMAIN l.semesters : Lists(l.semesters[i], k) /\ L[k] = l.semesters[i].term
        BY <1>7
      <3> QED
        BY <1>4, <3>1
    <2> QED
      BY <1>2, <1>7, <2>2, <2>3, Zenon
  <1>11. /\ \A k \in KeysOf(r) : R[k] \in Nat \ {0} /\ \E x \in right : x.key = k /\ x.term = R[k]
        /\ \A x \in right : /\ x.term \in Nat \ {0} /\ x.key \in KeysOf(r) /\ R[x.key] <= x.term
                            /\ ListedOnce(r, x.key) => x.term = R[x.key]
                            /\ x.mark = IF x.term = R[x.key] THEN MarkOf(Classify(x.key, L, R)["right"]) ELSE "none"
    <2>1. \A i \in DOMAIN r.semesters : r.semesters[i].term \in Nat \ {0}
      BY DEF IsPlan
    <2>2. ASSUME NEW x \in right
          PROVE  /\ x.term \in Nat \ {0} /\ x.key \in KeysOf(r) /\ R[x.key] <= x.term
                 /\ ListedOnce(r, x.key) => x.term = R[x.key]
      <3>1. PICK i \in DOMAIN r.semesters : Lists(r.semesters[i], x.key) /\ x.term = r.semesters[i].term
        BY <1>3
      <3> QED
        BY <1>8, <2>1, <3>1
    <2>3. ASSUME NEW k \in KeysOf(r)
          PROVE  \E x \in right : x.key = k /\ x.term = R[k]
      <3>1. PICK i \in DOMAIN r.semesters : Lists(r.semesters[i], k) /\ R[k] = r.semesters[i].term
        BY <1>8
      <3> QED
        BY <1>5, <3>1
    <2> QED
      BY <1>3, <1>8, <2>2, <2>3, Zenon
  <1>12. ASSUME NEW s \in left
        PROVE  /\ s.mark = "moved" => \E o \in right : o.key = s.key /\ o.term \in 0..(s.term - 1)
               /\ s.mark = "removed" => ~\E o \in right : o.key = s.key /\ o.term \in 0..(s.term - 1) \union {s.term}
               /\ ListedOnce(l, s.key) /\ ListedOnce(r, s.key) =>
                    (s.mark = "none" <=> \E o \in right : o.key = s.key /\ o.term \in {s.term})
    <2> DEFINE k == s.key
    <2>1. k \in KeysOf(l) /\ s.term \in Nat \ {0} /\ L[k] \in Nat
      BY <1>10
    <2>2. CASE k \notin KeysOf(r)
      <3>1. ~\E o \in right : o.key = s.key
        BY <1>11, <2>2
      <3>2. s.mark = IF s.term = L[k] THEN "removed" ELSE "none"
        BY <1>6, <1>10, <2>1, <2>2, ClassOf DEF MarkOf
      <3>3. ListedOnce(l, k) => s.term = L[k]
        BY <1>10
      <3> QED
        BY <3>1, <3>2, <3>3
    <2>3. CASE k \in KeysOf(r)
      <3>1. PICK o \in right : o.key = k /\ o.term = R[k]
        BY <1>11, <2>3
      <3>2. R[k] \in Nat
        BY <1>11, <2>3
      <3>3. Classify(k, L, R)["left"] =
              IF L[k] = R[k] THEN "same" ELSE IF R[k] > L[k] THEN "removed" ELSE "moved"
        BY <1>6, <2>1, <2>3, <3>2, ClassOf
      <3>4. s.mark = IF s.term # L[k] \/ L[k] = R[k] THEN "none" ELSE IF R[k] > L[k] THEN "removed" ELSE "moved"
        BY <1>10, <3>3 DEF MarkOf
      <3>5. \A x \in right : x.key = k => /\ x.term \in Nat /\ R[k] <= x.term
                                          /\ ListedOnce(r, k) => x.term = R[k]
        BY <1>11
      <3>6. ListedOnce(l, k) => s.term = L[k]
        BY <1>10
      <3>7. s.mark = "moved" => o.term \in 0..(s.term - 1)
        BY <2>1, <3>1, <3>2, <3>4
      <3>8. s.mark = "removed" => \A x \in right : x.key = k => x.term > s.term
        BY <2>1, <3>2, <3>4, <3>5
      <3>9. ListedOnce(l, k) /\ ListedOnce(r, k) => (s.mark = "none" <=> \E x \in right : x.key = k /\ x.term = s.term)
        BY <3>1, <3>4, <3>5, <3>6
      <3> HIDE DEF k
      <3>10. s.mark = "removed" => \A x \in right : x.key = k => ~(x.term \in 0..(s.term - 1) \union {s.term})
        BY <2>1, <3>5, <3>8
      <3>11. k = s.key
        BY DEF k
      <3> QED
        BY <3>1, <3>7, <3>9, <3>10, <3>11
    <2> QED
      BY <2>2, <2>3
  <1>13. ASSUME NEW s \in right
        PROVE  /\ s.mark = "added" => ~\E o \in left : o.key = s.key /\ o.term \in Nat
               /\ s.mark = "retake" => \E o \in left : o.key = s.key /\ o.term \in 0..(s.term - 1)
               /\ s.mark = "moved" => \E o \in left : o.key = s.key /\ o.term \in Nat \ (0..(s.term - 1) \union {s.term})
               /\ ListedOnce(l, s.key) /\ ListedOnce(r, s.key) =>
                    (s.mark = "none" <=> \E o \in left : o.key = s.key /\ o.term \in {s.term})
    <2> DEFINE k == s.key
    <2>1. k \in KeysOf(r) /\ s.term \in Nat \ {0} /\ R[k] \in Nat
      BY <1>11
    <2>2. CASE k \notin KeysOf(l)
      <3>1. ~\E o \in left : o.key = s.key
        BY <1>10, <2>2
      <3>2. s.mark = IF s.term = R[k] THEN "added" ELSE "none"
        BY <1>6, <1>11, <2>1, <2>2, ClassOf DEF MarkOf
      <3>3. ListedOnce(r, k) => s.term = R[k]
        BY <1>11
      <3> QED
        BY <3>1, <3>2, <3>3
    <2>3. CASE k \in KeysOf(l)
      <3>1. PICK o \in left : o.key = k /\ o.term = L[k]
        BY <1>10, <2>3
      <3>2. L[k] \in Nat
        BY <1>10, <2>3
      <3>3. Classify(k, L, R)["right"] =
              IF L[k] = R[k] THEN "same" ELSE IF R[k] > L[k] THEN "retake" ELSE "moved"
        BY <1>6, <2>1, <2>3, <3>2, ClassOf
      <3>4. s.mark = IF s.term # R[k] \/ L[k] = R[k] THEN "none" ELSE IF R[k] > L[k] THEN "retake" ELSE "moved"
        BY <1>11, <3>3 DEF MarkOf
      <3>5. \A x \in left : x.key = k /\ ListedOnce(l, k) => x.term = L[k]
        BY <1>10
      <3>6. ListedOnce(r, k) => s.term = R[k]
        BY <1>11
      <3>7. s.mark = "retake" => o.term \in 0..(s.term - 1)
        BY <2>1, <3>1, <3>2, <3>4
      <3>8. s.mark = "moved" => o.term \in Nat \ (0..(s.term - 1) \union {s.term})
        BY <2>1, <3>1, <3>2, <3>4
      <3>9. ListedOnce(l, k) /\ ListedOnce(r, k) => (s.mark = "none" <=> \E x \in left : x.key = k /\ x.term = s.term)
        BY <3>1, <3>4, <3>5, <3>6
      <3>10. s.mark # "added"
        BY <3>4
      <3> HIDE DEF k
      <3>11. k = s.key
        BY DEF k
      <3> QED
        BY <3>1, <3>7, <3>8, <3>9, <3>10, <3>11
    <2> QED
      BY <2>2, <2>3
  <1> QED
    BY <1>12, <1>13, <1>9, Zenon DEF MarksAreTrue, shown

-----------------------------------------------------------------------------
(* The proposal.                                                           *)

LEMMA SumOfZeros ==
    ASSUME NEW n \in Nat, NEW s \in [1..n -> Int], \A i \in 1..n : s[i] = 0
    PROVE  Sum(s) = 0
  <1>1. PICK sum \in [0..n -> Int] : /\ sum[0] = 0 /\ \A i \in 1..n : sum[i] = sum[i - 1] + s[i]
                                     /\ Sum(s) = sum[n]
    BY SumSteps
  <1> DEFINE good == {i \in 0..n : sum[i] = 0}
  <1>2. 0 \in good /\ \A i \in 1..n : i - 1 \in good => i \in good
    BY <1>1
  <1>3. n \in good
    <2>1. n \in 0..n
      OBVIOUS
    <2> HIDE DEF good
    <2> QED
      BY <1>2, <2>1, FiniteInduction
  <1> QED
    BY <1>1, <1>3

\* A term that a plan does not have carries no credits.
LEMMA CreditsOfATerm ==
    ASSUME NEW p, IsPlan(p), NEW t
    PROVE  PlannedCredits(p, t) \in Int /\ (t \notin TermsIn(p) => PlannedCredits(p, t) = 0)
  <1> DEFINE n == Len(p.semesters)
             of(i) == IF p.semesters[i].term = t THEN CreditsOf(p.semesters[i]) ELSE 0
             s == [i \in DOMAIN p.semesters |-> of(i)]
  <1>1. n \in Nat /\ DOMAIN p.semesters = 1..n
    BY ListProperties DEF IsPlan
  <1>2. \A i \in 1..n : CreditsOf(p.semesters[i]) \in Int
    <2> TAKE i \in 1..n
    <2> DEFINE m == Len(p.semesters[i].slots)
               c == [k \in DOMAIN p.semesters[i].slots |-> p.semesters[i].slots[k].credits]
    <2>1. m \in Nat /\ DOMAIN p.semesters[i].slots = 1..m
      BY <1>1, ListProperties DEF IsPlan
    <2>2. \A k \in 1..m : p.semesters[i].slots[k].credits \in Int
      BY <1>1, <2>1 DEF IsPlan
    <2>3. c \in [1..m -> Int]
      BY <2>1, <2>2, Zenon
    <2>4. CreditsOf(p.semesters[i]) = Sum(c)
      BY Zenon DEF CreditsOf
    <2> HIDE DEF m, c
    <2> QED
      BY <2>1, <2>3, <2>4, SumIsInt
  <1>3. \A i \in 1..n : of(i) \in Int
    BY <1>2
  <1>4. t \notin TermsIn(p) => \A i \in 1..n : of(i) = 0
    BY <1>1 DEF TermsIn
  <1> HIDE DEF of, n
  <1>5. s \in [1..n -> Int] /\ \A i \in 1..n : s[i] = of(i)
    BY <1>1, <1>3, Zenon
  <1>6. PlannedCredits(p, t) = Sum(s)
    BY Zenon DEF PlannedCredits, of
  <1> HIDE DEF s
  <1> QED
    BY <1>1, <1>4, <1>5, <1>6, SumIsInt, SumOfZeros

\* The credits a sentence tells are those of the two plans.
LEMMA DeltaIsTrue ==
    ASSUME NEW before, NEW after, IsPlan(before), IsPlan(after), NEW t
    PROVE  PlannedCredits(after, t) = PlannedCredits(before, t) + CreditDelta(BuildPlanDiff(before, after), t)
  <1> DEFINE changed == {u \in TermsIn(before) \union TermsIn(after) : PlannedCredits(before, u) # PlannedCredits(after, u)}
             c == [u \in changed |-> PlannedCredits(after, u) - PlannedCredits(before, u)]
  <1>1. /\ PlannedCredits(before, t) \in Int /\ PlannedCredits(after, t) \in Int
        /\ t \notin TermsIn(before) \union TermsIn(after) => PlannedCredits(before, t) = PlannedCredits(after, t)
    BY CreditsOfATerm
  <1>2. BuildPlanDiff(before, after).credits = c
    BY DEF BuildPlanDiff
  <1>3. CreditDelta(BuildPlanDiff(before, after), t) = IF t \in changed THEN PlannedCredits(after, t) - PlannedCredits(before, t) ELSE 0
    BY <1>2, Zenon DEF CreditDelta
  <1>4. t \in changed <=> PlannedCredits(before, t) # PlannedCredits(after, t)
    BY <1>1
  <1> HIDE DEF changed
  <1> QED
    BY <1>1, <1>3, <1>4

LEMMA SentenceHolds ==
    ASSUME NEW before, NEW after, IsPlan(before), IsPlan(after), NEW m,
           NEW d, d = BuildPlanDiff(before, after), NEW said, said = ExplainPlanDiff(d, m)
    PROVE  /\ \A told \in said.credits :
                PlannedCredits(after, told[1]) = PlannedCredits(before, told[1]) + told[2]
           /\ m.kind # "addTerm" /\ said.issue = "none" => after.unmet \subseteq before.unmet
           /\ m.kind \notin {"addTerm", "exclude"} /\ said.issue = "none" =>
                (IF before.state = after.state THEN "unchanged" ELSE after.state) \notin Drafts
  <1>1. d.unmet = after.unmet \ before.unmet
    BY DEF BuildPlanDiff
  <1>2. \A t : PlannedCredits(after, t) = PlannedCredits(before, t) + CreditDelta(d, t)
    BY DeltaIsTrue
  <1>3. \E ts : said.credits = ToldOf(d, ts) \/ said.credits = {}
    BY DEF ExplainPlanDiff, Said
  <1>4. m.kind # "addTerm" /\ said.issue = "none" => d.unmet = {}
    <2>1. RenderIssues(d) = "none" => d.unmet = {}
      BY DEF RenderIssues
    <2> QED
      BY <2>1 DEF ExplainPlanDiff, Said
  <1>5. \A told \in said.credits : PlannedCredits(after, told[1]) = PlannedCredits(before, told[1]) + told[2]
    BY <1>2, <1>3 DEF ToldOf
  <1>6. d.state = IF before.state = after.state THEN "unchanged" ELSE after.state
    BY DEF BuildPlanDiff
  <1>7. m.kind \notin {"addTerm", "exclude"} /\ said.issue = "none" => d.state \notin Drafts
    <2>1. RenderIssues(d) = "none" => d.state \notin Drafts
      BY DEF RenderIssues
    <2> QED
      BY <2>1 DEF ExplainPlanDiff, Said
  <1> QED
    BY <1>1, <1>4, <1>5, <1>6, <1>7

ToldOnce(card, all) == \A c \in Range(all) : Cardinality({i \in DOMAIN card : all[card[i]].detail = c.detail}) = 1

\* The red card has every detail once, at its first place.
LEMMA CardTellsOnce ==
    ASSUME NEW conflicts, IsList(conflicts), NEW p, IsList(p.broken),
           NEW all, all = conflicts \o p.broken, NEW card, card = InvalidCard(conflicts, p)
    PROVE  ToldOnce(card, all) /\ (all # <<>> => card # <<>>)
  <1> DEFINE n == Len(all)
             places == [i \in DOMAIN all |-> i]
             first == {i \in DOMAIN all : \A j \in 1..(i - 1) : all[j].detail # all[i].detail}
  <1>1. card = Filter(places, first)
    BY Zenon DEF InvalidCard
  <1>2. IsList(all)
    BY ConcatIsList
  <1>3. n \in Nat /\ DOMAIN all = 1..n
    BY <1>2, ListProperties
  <1>4. places \in [1..n -> 1..n] /\ \A i \in 1..n : places[i] = i
    BY <1>3, Zenon
  <1> HIDE DEF places
  <1>5. IsList(places) /\ Len(places) = n /\ ToSet(places) \subseteq 1..n
    BY <1>3, <1>4, FunctionsAreLists
  <1>6. IsInjective(places)
    BY <1>4 DEF IsInjective
  <1>7. \A i \in 1..n : i \in ToSet(places)
    BY <1>4, <1>5, ListProperties
  <1>8. IsList(card) /\ IsInjective(card) /\ ToSet(card) = ToSet(places) \cap first
    <2> HIDE DEF first
    <2>1. LET kept == Filter(places, first)
          IN IsList(kept) /\ IsInjective(kept) /\ ToSet(kept) = ToSet(places) \cap first
      BY <1>5, <1>6, FilterKeeps
    <2> QED
      BY <1>1, <2>1, Zenon
  <1>9. first = {i \in 1..n : \A j \in 1..(i - 1) : all[j].detail # all[i].detail}
    BY <1>3, Zenon
  <1> HIDE DEF first, n
  <1>10. ToSet(card) = first
    <2>1. \A i \in first : i \in ToSet(places)
      BY <1>7, <1>9
    <2> QED
      BY <1>8, <2>1
  <1>11. ASSUME NEW c \in Range(all)
         PROVE  Cardinality({i \in DOMAIN card : all[card[i]].detail = c.detail}) = 1
    <2> DEFINE same == {i \in 1..n : all[i].detail = c.detail}
    <2>1. PICK k \in 1..n : c = all[k]
      BY <1>3 DEF Range
    <2>2. same # {} /\ same \subseteq Nat
      BY <1>3, <2>1
    <2>3. PICK f \in same : \A i \in same : f <= i
      <3> HIDE DEF same
      <3> QED
        BY <2>2, NatMinimum
    <2>4. f \in first
      BY <1>3, <1>9, <2>3
    <2>5. \A i \in first : all[i].detail = c.detail => i = f
      <3> SUFFICES ASSUME NEW i \in first, all[i].detail = c.detail, i # f
                   PROVE  FALSE
        OBVIOUS
      <3>1. i \in 1..n /\ f \in 1..n /\ f < i
        BY <1>3, <1>9, <2>3
      <3>2. f \in 1..(i - 1)
        BY <1>3, <3>1
      <3> QED
        BY <1>9, <2>3, <3>2
    <2>6. PICK x \in DOMAIN card : card[x] = f
      BY <1>10, <2>4 DEF ToSet
    <2>7. \A y \in DOMAIN card : card[y] = f => y = x
      BY <1>8, <2>6 DEF IsInjective
    <2>8. \A y \in DOMAIN card : card[y] \in first
      BY <1>10 DEF ToSet
    <2>9. {i \in DOMAIN card : all[card[i]].detail = c.detail} = {x}
      BY <2>3, <2>5, <2>6, <2>7, <2>8
    <2> QED
      BY <2>9, FS_Singleton
  <1>12. all # <<>> => card # <<>>
    <2> SUFFICES ASSUME all # <<>>, card = <<>> PROVE FALSE
      OBVIOUS
    <2>1. DOMAIN card = {}
      BY <1>8, EmptyList, ListProperties
    <2>2. 1 \in DOMAIN all
      <3>1. Len(all) \in Nat /\ DOMAIN all = 1..Len(all) /\ Len(all) # 0
        BY <1>2, EmptyList, ListProperties
      <3> QED
        BY <3>1
    <2>3. all[1] \in Range(all)
      BY <2>2 DEF Range
    <2>4. Cardinality({i \in DOMAIN card : all[card[i]].detail = all[1].detail}) = 1
      BY <1>11, <2>3
    <2>5. {i \in DOMAIN card : all[card[i]].detail = all[1].detail} = {}
      BY <2>1
    <2> QED
      BY <2>4, <2>5, FS_EmptySet
  <1> QED
    BY <1>11, <1>12, Zenon DEF ToldOnce

-----------------------------------------------------------------------------
(* Every step keeps what a proposal tells true.                            *)

ViewsInv ==
  /\ myPlan \in ViewPlans /\ myPlan.feasible
  /\ screen # "committed" => proposal.known /\ proposal.plan.feasible
  /\ proposal.known => /\ proposal.plan \in ViewPlans
                       /\ (proposal.verdict # "invalid") = proposal.plan.feasible
                       /\ SentenceIsTrue(proposal) /\ CardIsTrue(proposal)

\* The parts of a plan the proofs go by, and the state the verdict gives it.
LEMMA PlansArePlans ==
    \A p \in ViewPlans : /\ IsPlan(p) /\ p.feasible \in BOOLEAN
                         /\ p.state \in Drafts <=> ~p.feasible
  BY ViewsAssumption DEF IsPlan, Drafts

\* A proposal as it arrives, of plan "after" against plan "before".
Proposed(before, after, m, by, conflicts, d, c) ==
  [known |-> TRUE, plan |-> after, change |-> m, against |-> before, by |-> by,
   said |-> ExplainPlanDiff(d, m), diff |-> d, conflicts |-> conflicts,
   verdict |-> ReviewVerdict(c, d, after), card |-> InvalidCard(conflicts, after)]

LEMMA AProposalIsTrue ==
    ASSUME NEW before \in ViewPlans, NEW after \in ViewPlans, NEW m, NEW by, NEW says,
           NEW conflicts, conflicts = ConflictsOf(after, says, by),
           NEW c, NEW d, d = BuildPlanDiff(before, after), NEW q, q = Proposed(before, after, m, by, conflicts, d, c)
    PROVE  /\ q.known /\ q.plan = after /\ (q.verdict # "invalid") = after.feasible
           /\ SentenceIsTrue(q) /\ CardIsTrue(q)
  <1>1. /\ q.known /\ q.plan = after /\ q.change = m /\ q.against = before /\ q.said = ExplainPlanDiff(d, m)
        /\ q.conflicts = conflicts /\ q.verdict = ReviewVerdict(c, d, after) /\ q.by = by
        /\ q.card = InvalidCard(conflicts, after)
    BY DEF Proposed
  <1>2. /\ IsPlan(before) /\ IsPlan(after) /\ after.feasible \in BOOLEAN
        /\ after.state \in Drafts <=> ~after.feasible
        /\ before.state \in Drafts <=> ~before.feasible
    BY PlansArePlans
  <1>3. (q.verdict # "invalid") = after.feasible
    BY <1>1, <1>2 DEF ReviewVerdict
  <1>4. SentenceIsTrue(q)
    <2>1. \A told \in q.said.credits :
             PlannedCredits(q.plan, told[1]) = PlannedCredits(q.against, told[1]) + told[2]
      BY <1>1, <1>2, SentenceHolds
    <2>2. q.change.kind # "addTerm" /\ q.said.issue = "none" => q.plan.unmet \subseteq q.against.unmet
      BY <1>1, <1>2, SentenceHolds
    <2>3. m.kind \notin {"addTerm", "exclude"} /\ q.said.issue = "none" =>
            (IF before.state = after.state THEN "unchanged" ELSE after.state) \notin Drafts
      BY <1>1, <1>2, SentenceHolds
    <2>4. q.change.kind \notin {"addTerm", "exclude"} /\ q.said.issue = "none" => q.plan.feasible \/ ~q.against.feasible
      BY <1>1, <1>2, <2>3
    <2> QED
      BY <2>1, <2>2, <2>4, Zenon DEF SentenceIsTrue
  <1>5. IsList(conflicts) /\ (~after.feasible /\ by # NoAct => conflicts # <<>>)
    <2>1. conflicts = <<>> \/ conflicts = <<says>>
      BY DEF ConflictsOf
    <2>2. ~after.feasible /\ by # NoAct => conflicts = <<says>>
      BY DEF ConflictsOf
    <2>3. IsList(<<>>) /\ IsList(<<says>>)
      BY NothingIsAList DEF IsList, ToSet
    <2> QED
      BY <2>1, <2>2, <2>3
  <1>6. PICK all : all = conflicts \o after.broken
    OBVIOUS
  <1>7. IsList(after.broken)
    BY <1>2 DEF IsPlan
  <1>8. ToldOnce(q.card, all) /\ (all # <<>> => q.card # <<>>)
    <2>1. PICK card : card = InvalidCard(conflicts, after)
      OBVIOUS
    <2>2. ToldOnce(card, all) /\ (all # <<>> => card # <<>>)
      BY <1>5, <1>6, <1>7, <2>1, CardTellsOnce
    <2> QED
      BY <1>1, <2>1, <2>2
  <1>9. conflicts # <<>> => all # <<>>
    <2>1. IsList(all) /\ Len(all) = Len(conflicts) + Len(after.broken)
      BY <1>5, <1>6, <1>7, ConcatIsList
    <2>2. Len(conflicts) \in Nat /\ Len(after.broken) \in Nat
      BY <1>5, <1>7, ListProperties
    <2> QED
      BY <1>5, <2>1, <2>2, EmptyList
  <1>10. CardIsTrue(q)
    <2>1. q.conflicts \o q.plan.broken = all
      BY <1>1, <1>6
    <2>2. ToldOnce(q.card, q.conflicts \o q.plan.broken)
      BY <1>8, <2>1, Zenon
    <2>3. q.verdict = "invalid" /\ q.by # NoAct => q.card # <<>>
      BY <1>1, <1>2, <1>3, <1>5, <1>8, <1>9
    <2> QED
      BY <2>2, <2>3, Zenon DEF CardIsTrue, ToldOnce
  <1> QED
    BY <1>1, <1>3, <1>4, <1>10

LEMMA ArrivalIsTrue ==
    ASSUME ViewsInv, ProposalArrives
    PROVE  ViewsInv'
  <1>1. PICK before, by : before = myPlan /\ by = sentAct
    OBVIOUS
  <1>2. PICK p \in ViewPlans, m \in PlanChanges, says \in Rejections :
          /\ proposal' = Proposed(before, p, m, by, ConflictsOf(p, says, by), BuildPlanDiff(before, p),
                                  DeriveConsequences(KeysOf(p) \ KeysOf(before), KeysOf(before) \ KeysOf(p), m, p))
          /\ screen' = IF p.feasible THEN "proposed" ELSE "committed"
    BY <1>1, Zenon DEF ProposalArrives, Proposed
  <1>3. PICK d, conflicts : d = BuildPlanDiff(before, p) /\ conflicts = ConflictsOf(p, says, by)
    OBVIOUS
  <1>4. PICK c : c = DeriveConsequences(KeysOf(p) \ KeysOf(before), KeysOf(before) \ KeysOf(p), m, p)
    OBVIOUS
  <1>5. PICK q : q = Proposed(before, p, m, by, conflicts, d, c)
    OBVIOUS
  <1>6. before \in ViewPlans
    BY <1>1 DEF ViewsInv
  <1>7. /\ q.known /\ q.plan = p /\ (q.verdict # "invalid") = p.feasible
        /\ SentenceIsTrue(q) /\ CardIsTrue(q)
    BY <1>3, <1>5, <1>6, AProposalIsTrue
  <1>8. proposal' = q
    BY <1>2, <1>3, <1>4, <1>5
  <1>9. myPlan' = myPlan
    BY DEF ProposalArrives
  <1>10. screen' # "committed" => p.feasible
    BY <1>2
  <1> QED
    BY <1>7, <1>8, <1>9, <1>10 DEF ViewsInv

LEMMA ViewsKeep ==
    ASSUME ViewsInv, [ViewsNext]_viewVars
    PROVE  ViewsInv'
  <1>1. ASSUME UNCHANGED <<myPlan, proposal>>,
               screen' # "committed" => proposal.known /\ proposal.plan.feasible
        PROVE  ViewsInv'
    BY <1>1 DEF ViewsInv, SentenceIsTrue, CardIsTrue
  <1>2. ASSUME myPlan' \in ViewPlans, myPlan'.feasible, proposal' = NoProposal, screen' = "committed"
        PROVE  ViewsInv'
    BY <1>2 DEF ViewsInv, NoProposal
  <1>3. CASE UNCHANGED viewVars
    BY <1>1, <1>3 DEF viewVars, ViewsInv
  <1>4. CASE ClickSlot
    BY <1>1, <1>4 DEF ClickSlot, ViewsInv
  <1>5. CASE PickAction
    BY <1>1, <1>5 DEF PickAction, ViewsInv
  <1>6. CASE AddCourse
    BY <1>1, <1>6 DEF AddCourse, ViewsInv
  <1>7. CASE ProposalArrives
    BY <1>7, ArrivalIsTrue
  <1>8. CASE OpenCompare
    <2>1. UNCHANGED <<myPlan, proposal>> /\ proposal.known /\ proposal.plan.feasible
      BY <1>8 DEF OpenCompare, ViewsInv
    <2> QED
      BY <1>1, <2>1
  <1>9. CASE SelectTab
    <2>1. UNCHANGED <<myPlan, proposal>> /\ (screen' # "committed" => proposal.known /\ proposal.plan.feasible)
      BY <1>9 DEF SelectTab, ViewsInv
    <2> QED
      BY <1>1, <2>1
  <1>10. CASE ConfirmProposal
    <2>1. proposal.plan \in ViewPlans /\ proposal.plan.feasible
      BY <1>10 DEF ConfirmProposal, ViewsInv
    <2> QED
      BY <1>2, <1>10, <2>1 DEF ConfirmProposal
  <1>11. CASE DiscardProposal
    BY <1>2, <1>11 DEF DiscardProposal, ViewsInv
  <1> QED
    BY <1>3, <1>4, <1>5, <1>6, <1>7, <1>8, <1>9, <1>10, <1>11 DEF ViewsNext

(* What the student is shown of two plans is true of them, whatever plans the *)
(* engine sends and whatever the validator says of them: the marks of the       *)
(* compare view, the sentence about a proposal, its red card, and the verdict   *)
(* behind every tab (diffSchedules, explainPlanDiff, computeInvalidCard).       *)
THEOREM ComparisonHolds == ViewsSpec => []ComparisonIsTrue
  <1>1. ViewsInit => ViewsInv
    BY DEF ViewsInit, ViewsInv, NoProposal
  <1>2. ViewsInv /\ [ViewsNext]_viewVars => ViewsInv'
    BY ViewsKeep
  <1>3. ViewsInv => ComparisonIsTrue
    <2> SUFFICES ASSUME ViewsInv, proposal.known PROVE MarksAreTrue(myPlan, proposal.plan)
      BY DEF ComparisonIsTrue, ViewsInv
    <2>1. IsPlan(myPlan) /\ IsPlan(proposal.plan)
      BY PlansArePlans DEF ViewsInv
    <2> QED
      BY <2>1, MarksHold
  <1> QED
    BY <1>1, <1>2, <1>3, PTL DEF ViewsSpec

=============================================================================
