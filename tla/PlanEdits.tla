------------------------------ MODULE PlanEdits ------------------------------
(***************************************************************************)
(* What a student's edits do to the preferences, and what the preferences  *)
(* and a hypothetical report do to the next plan.                          *)
(*                                                                         *)
(* An edit is applied to the preferences and the plan is solved again; a   *)
(* what-if changes a copy of the degree progress report and solves with    *)
(* that.  The solver is represented by what a plan of it always satisfies  *)
(* (ForwardPlanner models how it finds one).                               *)
(*                                                                         *)
(* A report has rows (a function of the course: type, term, grade) and     *)
(* leaves (a function of the requirement: the courses it counts, its       *)
(* counter, its status, the courses that could serve it, the groups above  *)
(* it).  Terms and grades are those of DegreeRules.                        *)
(***************************************************************************)
EXTENDS DegreeRules

CONSTANTS
  Reports,     \* the reports a run starts from
  Edits,       \* the edits the student may ask for
  Now, End,    \* the planning window
  OfferedIn0,  \* the seasons a course is offered in
  Before0,     \* the prerequisites of a course
  Elect,       \* the pass/fail rules of the school: see DegreeRules
  MaxEdits     \* edits applied in a behavior

EditFields == {"kind", "course", "term", "drop", "slot", "style"}

ASSUME EditsAssumption ==
  /\ Now \in Nat /\ End \in Nat /\ MaxEdits \in Nat
  /\ \A m \in Edits : DOMAIN m = EditFields

VARIABLES
  report,      \* the degree progress report
  prefs,       \* schedule_preferences
  plan,        \* the forward schedule: a set of slots
  preview,     \* what the last preview told the student
  dropped,     \* <<course, term>> of the drops since when it was not asked for
  edits        \* edits applied so far

editVars == <<report, prefs, plan, preview, dropped, edits>>

NoPreview == [kind |-> "none"]
NoPrefs == [pins |-> {}, excluded |-> {}, summer |-> FALSE, jterm |-> FALSE,
            style |-> "none", termStyle |-> <<>>, scheduling |-> "none", soft |-> {}]

-----------------------------------------------------------------------------
(* Edits of the preferences.                                               *)

\* The open slot a bind names; null when the plan has none of that id.
FindPlaceholderSlot(p, id) == {s \in p : s.kind = "placeholder" /\ s.id = id}

BindForgotten(p, m) == m

\* A bind is a pin in the term of its slot; of an unknown slot, nothing.
ResolveBindMutation(p, m) ==
  IF m.kind = "bind" /\ FindPlaceholderSlot(p, m.slot) # {}
  THEN [m EXCEPT !.kind = "pin",
                 !.term = (CHOOSE s \in FindPlaceholderSlot(p, m.slot) : TRUE).term]
  ELSE m

PinsKept(pins, course, term) == pins

ReleasedPins(pins, course, term) ==
  {x \in pins : ~(x.course = course /\ (term = None \/ x.term = term))}

PinTo(q, course, term) == [q EXCEPT !.pins = @ \cup {[course |-> course, term |-> term]}]

\* The newest exclusion of a course from a term is its only one there; a swap
\* and a move forget what the course was excluded from before.
Exclude(q, course, term) ==
  [q EXCEPT !.excluded = @ \cup {<<course, term>>}, !.pins = ReleasedPins(@, course, term)]
ExcludeOnly(q, course, term) ==
  [q EXCEPT !.excluded = {e \in @ : e[1] # course} \cup {<<course, term>>}]

\* Light and heavy are styles of a term, the others of the plan.
WithLoadStyle(q, term, style) ==
  IF term # None
  THEN IF style \in {"frontload", "backload"} THEN q ELSE [q EXCEPT !.termStyle = (term :> style) @@ @]
  ELSE IF style \in {"light", "heavy"} THEN q ELSE [q EXCEPT !.style = style]

\* One edit.  A pin without the lock ("place"), a bind of an unknown slot and
\* an unbind leave the preferences as they are.  A swap and a move release no
\* pin.
ApplyMutation(q, m) ==
  CASE m.kind = "pin" -> PinTo(q, m.course, m.term)
    [] m.kind = "swap" -> PinTo(ExcludeOnly(q, m.drop, None), m.course, m.term)
    [] m.kind = "exclude" -> Exclude(q, m.course, m.term)
    [] m.kind = "move" -> ExcludeOnly(q, m.course, m.term)
    [] m.kind = "unpin" -> [q EXCEPT !.pins = ReleasedPins(@, m.course, m.term)]
    [] m.kind = "addTerm" ->
         [q EXCEPT !.summer = @ \/ Season(m.term) = 1, !.jterm = @ \/ Season(m.term) = 3]
    [] m.kind = "loadStyle" -> WithLoadStyle(q, m.term, m.style)
    [] m.kind = "scheduling" -> [q EXCEPT !.scheduling = m.style]
    [] m.kind = "soft" -> [q EXCEPT !.soft = IF m.style = "none" THEN {} ELSE @ \cup {m.style}]
    [] OTHER -> q

-----------------------------------------------------------------------------
(* Hypothetical reports.                                                   *)

SetGrade(r, c, g) == [r EXCEPT !.rows = [x \in DOMAIN @ |-> IF x = c THEN [@[x] EXCEPT !.grade = g] ELSE @[x]]]

\* The course no longer counts; a counter (of courses or of units) goes down
\* by the rows removed, and a leaf without one is open again.
Reopened(leaf, c) ==
  IF c \notin leaf.used THEN leaf
  ELSE IF leaf.counter \in {"courses", "units"}
       THEN [leaf EXCEPT !.used = @ \ {c}, !.has = @ - 1,
                         !.satisfied = @ /\ leaf.has - 1 >= leaf.required]
       ELSE [leaf EXCEPT !.used = @ \ {c}, !.satisfied = FALSE]

ReopenAll(r, c) == [r EXCEPT !.leaves = [l \in DOMAIN @ |-> Reopened(@[l], c)]]

ApplyWithdrawal(r, c) == ReopenAll(SetGrade(r, c, NoGrade), c)
ApplyFailedCourse(r, c) == ReopenAll(SetGrade(r, c, 0), c)

\* The kind of a group by its title and its children's place below it: the
\* nearest group with a kind of its own decides.
GroupKind(titles) ==
  CASE "program" \in titles -> "major"
    [] "program" \notin titles /\ "core" \in titles -> "school-core"
    [] titles \cap {"program", "core"} = {} /\ "general elective" \in titles -> "general-elective"
    [] OTHER -> "none"

RequirementKind(leaf) ==
  LET kinds == [i \in DOMAIN leaf.groups |-> GroupKind(leaf.groups[i])]
      own == {i \in DOMAIN kinds : kinds[i] # "none"}
      kind == IF own = {} THEN "none" ELSE kinds[Max(own)]
      elective == "elective" \in leaf.groups[Len(leaf.groups)] \cup leaf.title
  IN CASE kind = "major" /\ elective -> "major-elective"
       [] kind = "major" /\ ~elective -> "major-required"
       [] kind = "school-core" -> "school-core"
       [] kind = "general-elective" -> "free-elective"
       [] OTHER -> "unknown"

\* Titles decide where the kind does not.
LeafCategory(leaf) ==
  LET kind == RequirementKind(leaf)
      group == leaf.groups[Len(leaf.groups)]
  IN CASE kind \in {"major-required", "major-elective"} -> "major"
       [] kind = "school-core" -> "gen_ed"
       [] kind = "free-elective" -> "elective"
       [] kind = "unknown" /\ "minor" \in group \cup leaf.title -> "minor"
       [] kind = "unknown" /\ "minor" \notin group \cup leaf.title
            /\ "general elective" \in group \cup leaf.title -> "elective"
       [] kind = "unknown" /\ {"minor", "general elective"} \cap (group \cup leaf.title) = {}
            /\ group \cap {"core", "gen ed"} # {} -> "gen_ed"
       [] OTHER -> IF "major" \in group \cup leaf.title THEN "major" ELSE "unknown"

\* A passed course keeps the leaves of the categories it counts for, and the
\* leaves of which that is not known.
PassFailStays(leaf) ==
  LeafCategory(leaf) = "unknown"
  \/ PfEligibility(LeafCategory(leaf), Elect, Elect.deferred) # "elective_only"

ApplyPassFail(r, c, outcome) ==
  IF outcome = "fail" THEN ApplyFailedCourse(r, c)
  ELSE LET kept == [l \in DOMAIN r.leaves |->
                      IF PassFailStays(r.leaves[l]) THEN r.leaves[l] ELSE Reopened(r.leaves[l], c)]
       IN [SetGrade(r, c, 5) EXCEPT !.leaves = kept,
             !.pfUnits = @ + (IF c \in DOMAIN r.rows THEN r.rows[c].units ELSE 0)]

-----------------------------------------------------------------------------
(* The plan solved from preferences and a report.                          *)

\* Whatever its grade, a course in progress stays one: taken when its term
\* is over, else a slot of its term.
InProgress(r) == {c \in DOMAIN r.rows : r.rows[c].type = "IP" /\ r.rows[c].term >= Now}
Taken(r) == {c \in DOMAIN r.rows : \/ r.rows[c].type = "IP" /\ r.rows[c].term < Now
                                   \/ r.rows[c].type # "IP" /\ MeetsGradeThreshold(r.rows[c].grade, D)}

Window(q) == ToSet(EnumerateTerms(Now, End, q.summer, q.jterm))
IsOffered(c, t) == c \in DOMAIN OfferedIn0 => Season(t) \in OfferedIn0[c]

EditSlot(kind, course, term, rId, id, members) ==
  [kind |-> kind, course |-> course, term |-> term, rId |-> rId, id |-> id, members |-> members]

Servable(r, l, q) == r.leaves[l].cands \ (Taken(r) \cup InProgress(r) \cup {e[1] : e \in q.excluded})

PinnedSlots(r, q) ==
  {EditSlot("specific", x.course, x.term,
            IF \E l \in DOMAIN r.leaves : ~r.leaves[l].satisfied /\ x.course \in r.leaves[l].cands
            THEN CHOOSE l \in DOMAIN r.leaves : ~r.leaves[l].satisfied /\ x.course \in r.leaves[l].cands
            ELSE "none", "none", {}) :
     x \in {y \in q.pins : y.term \in Window(q) /\ IsOffered(y.course, y.term)}}

PrereqsMet(s, p, r) ==
  s.course \in DOMAIN Before0 =>
    \A c \in Before0[s.course] :
      \/ c \in DOMAIN r.rows /\ (r.rows[c].type = "IP" \/ c \in Taken(r))
      \/ \E x \in p : x.kind = "specific" /\ x.course = c /\ x.term < s.term

\* What every plan contains: the courses in progress, and the pins that fit.
FixedSlots(r, q) ==
  {EditSlot("in_progress", c, r.rows[c].term, "none", "none", {}) : c \in InProgress(r)}
    \cup PinnedSlots(r, q)

\* An open requirement gets a course that may serve it, or an open slot.
SlotChoices(l, r, q) ==
  LET cs == Servable(r, l, q)
  IN IF r.leaves[l].pool \/ cs = {}
     THEN {EditSlot("placeholder", "none", t, l, l, cs) : t \in Window(q)}
     ELSE {EditSlot("specific", c, t, l, "none", {}) : c \in cs, t \in Window(q)}

Valid(p, r, q) ==
  \A s \in p : s.kind = "specific" =>
    /\ IsOffered(s.course, s.term)
    /\ s \in PinnedSlots(r, q) \/ PrereqsMet(s, p, r)

Plans(r, q) ==
  LET fixed == FixedSlots(r, q)
      open == {l \in DOMAIN r.leaves : ~r.leaves[l].satisfied} \ {s.rId : s \in fixed}
      picks == {f \in [open -> UNION {SlotChoices(l, r, q) : l \in open}] :
                  \A l \in open : f[l] \in SlotChoices(l, r, q)}
  IN {p \in {fixed \cup {f[l] : l \in open} : f \in picks} : Valid(p, r, q)}

-----------------------------------------------------------------------------
(* What a preview tells: the slots that come and go, the requirements no   *)
(* planned course serves any more, the courses that moved, and the one     *)
(* issue the explanation opens with.                                       *)

SlotKey(s) == <<s.term, s.kind, IF s.kind = "placeholder" THEN s.id ELSE s.course>>
SlotDiff(before, after) ==
  [added |-> {s \in after : ~\E x \in before : SlotKey(x) = SlotKey(s)},
   removed |-> {s \in before : ~\E x \in after : SlotKey(x) = SlotKey(s)}]

CoveredRules(p) == {s.rId : s \in {x \in p : x.kind = "specific"}} \ {"none"}
NewUnmet(before, after) == CoveredRules(before) \ CoveredRules(after)

\* A course planned twice is compared at its first term.
TermOf(p, c) == Min({s.term : s \in {x \in p : x.kind # "placeholder" /\ x.course = c}})
CascadedShifts(before, after) ==
  {c \in ({s.course : s \in before} \cap {s.course : s \in after}) \ {"none"} :
     TermOf(before, c) # TermOf(after, c)}

\* The last term with a slot is the plan's last; a later one is a delay.
LastOf(p) == Max({Now} \cup {s.term : s \in p})
Issue(before, after) ==
  CASE NewUnmet(before, after) # {} -> "unmet"
    [] NewUnmet(before, after) = {} /\ LastOf(after) > LastOf(before) -> "delay"
    [] OTHER -> "none"

PlanDiff(before, after) ==
  [slots |-> SlotDiff(before, after), unmet |-> NewUnmet(before, after),
   shifts |-> CascadedShifts(before, after), issue |-> Issue(before, after)]

-----------------------------------------------------------------------------
(* The check of a bind, in the order of the tools.                         *)

AlreadyBound(p, c, kinds) == \E s \in p : s.kind \in kinds /\ s.course = c

\* After the bind every other open slot of the pool still finds a course of
\* its own, taken greedily.
PoolStillServable(p, slot, c) ==
  LET others == SetToSeq({s \in p : s.kind = "placeholder" /\ s.rId = slot.rId /\ s.id # slot.id})
      left[i \in 0..Len(others)] ==
        IF i = 0 THEN [ok |-> TRUE, used |-> {c}]
        ELSE LET free == others[i].members \ left[i - 1].used
             IN IF ~left[i - 1].ok \/ free = {} THEN [left[i - 1] EXCEPT !.ok = FALSE]
                ELSE [left[i - 1] EXCEPT !.used = @ \cup {CHOOSE x \in free : TRUE}]
  IN left[Len(others)].ok

BindAccepted(slot, c, p, r) ==
  /\ slot.members # {} => c \in slot.members
  /\ IsOffered(c, slot.term)
  /\ PrereqsMet([slot EXCEPT !.course = c], p, r)
  /\ ~AlreadyBound(p, c, IF slot.members # {} THEN {"specific"}
                         ELSE {"specific", "in_progress", "completed"})
  /\ slot.members # {} => PoolStillServable(p, slot, c)

-----------------------------------------------------------------------------
(* The student's steps.                                                    *)

EditInit ==
  /\ report \in Reports
  /\ prefs = NoPrefs
  /\ plan \in Plans(report, NoPrefs)
  /\ preview = NoPreview /\ dropped = {} /\ edits = 0

\* propose_plan_change and the future_course arm of the probe (which does
\* not resolve binds): nothing is kept.
ProposeChange(m, resolved) ==
  /\ \E p \in Plans(report, ApplyMutation(prefs, IF resolved THEN ResolveBindMutation(plan, m) ELSE m)) :
       preview' = [kind |-> "change", diff |-> PlanDiff(plan, p)]
  /\ UNCHANGED <<report, prefs, plan, dropped, edits>>

\* The tool finds the slot, then checks the course.
PreviewBind(id, c) ==
  /\ \E s \in FindPlaceholderSlot(plan, id) :
       preview' = [kind |-> "bind", slot |-> id, course |-> c, term |-> s.term,
                   accepted |-> BindAccepted(s, c, plan, report)]
  /\ UNCHANGED <<report, prefs, plan, dropped, edits>>

\* The arm of the probe for a course already completed.
ProbeFailCompleted(c) ==
  /\ c \in DOMAIN report.rows /\ report.rows[c].type = "EN"
  /\ \E p \in Plans(ApplyFailedCourse(report, c), prefs) :
       preview' = [kind |-> "probe", course |-> c, outcome |-> "fail", plan |-> p,
                   diff |-> PlanDiff(plan, p)]
  /\ UNCHANGED <<report, prefs, plan, dropped, edits>>

\* The hypothetical report of a what-if.
HypotheticalReport(r, c, outcome) ==
  IF outcome = "withdraw" THEN ApplyWithdrawal(r, c) ELSE ApplyPassFail(r, c, outcome)

\* Only a course in progress; pass/fail only where the school lets elect it.
ProposeWhatIf(c, outcome) ==
  /\ c \in DOMAIN report.rows /\ report.rows[c].type = "IP"
  /\ outcome # "withdraw" => ~(Elect.known /\ ~Elect.canElect)
  /\ \E p \in Plans(HypotheticalReport(report, c, outcome), prefs) :
       preview' = [kind |-> "whatif", course |-> c, outcome |-> outcome, plan |-> p,
                   diff |-> PlanDiff(plan, p)]
  /\ UNCHANGED <<report, prefs, plan, dropped, edits>>

Asked(m) == IF m.kind \in {"pin", "swap"} THEN {m.course} ELSE {}

\* A confirmed edit: preferences and the plan solved from them.  An edit that
\* leaves no valid plan is refused.
ConfirmEdit(m) ==
  LET resolved == ResolveBindMutation(plan, m)
      next == ApplyMutation(prefs, resolved)
  IN /\ edits' = edits + 1
     /\ \E p \in Plans(report, next) : plan' = p
     /\ prefs' = next
     /\ dropped' = {d \in dropped : d[1] \notin Asked(resolved)}
                     \cup IF m.kind = "exclude" THEN {<<m.course, m.term>>} ELSE {}
     /\ preview' = NoPreview
     /\ UNCHANGED report

\* A confirmed what-if stores its schedule and nothing else.
ConfirmWhatIf ==
  /\ preview.kind = "whatif"
  /\ plan' = preview.plan
  /\ edits' = edits + 1
  /\ preview' = NoPreview
  /\ UNCHANGED <<report, prefs, dropped>>

\* The bound on the edits ends the previews too.
EditNext ==
  /\ edits < MaxEdits
  /\ \/ \E m \in Edits : \E resolved \in BOOLEAN : ProposeChange(m, resolved)
     \/ \E m \in Edits : ConfirmEdit(m)
     \/ \E id \in DOMAIN report.leaves, c \in UNION {report.leaves[l].cands : l \in DOMAIN report.leaves} :
          PreviewBind(id, c)
     \/ \E c \in DOMAIN report.rows : ProbeFailCompleted(c)
     \/ \E c \in DOMAIN report.rows, outcome \in {"withdraw", "pass", "fail"} : ProposeWhatIf(c, outcome)
     \/ ConfirmWhatIf

EditSpec == EditInit /\ [][EditNext]_editVars

-----------------------------------------------------------------------------
(* Properties.                                                             *)

\* A course the student dropped (from a term, or altogether) is not planned
\* there again, by whatever edits and what-ifs follow, until it is asked for:
\* the solver places every pin before it looks at the exclusions, so a drop
\* that leaves a pin behind is undone by the next solve.
DropSticks ==
  \A d \in dropped : \A s \in plan :
    s.kind = "specific" /\ s.course = d[1] => d[2] # None /\ d[2] # s.term

\* A bind the tool accepted and the student confirms is carried out: the
\* course is planned in the term of the slot, although the confirm turns the
\* bind into a pin and solves the plan anew.
AcceptedBindIsPlaced ==
  [][\A m \in Edits :
       m.kind = "bind" /\ preview.kind = "bind" /\ m.slot = preview.slot
         /\ m.course = preview.course /\ preview.accepted /\ ConfirmEdit(m)
       => \E s \in plan' : /\ s.kind = "specific" /\ s.course = preview.course
                           /\ s.term = preview.term]_editVars

\* withdrawTransform.ts:17-24: the withdrawn course is excluded on the next
\* solve, and its requirement is work to do again.
WithdrawnCourseLeavesThePlan ==
  preview.kind = "whatif" /\ preview.outcome = "withdraw" =>
    \A s \in preview.plan : s.course # preview.course
=============================================================================
