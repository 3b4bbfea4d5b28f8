------------------------------ MODULE PlanViews ------------------------------
(***************************************************************************)
(* What the workspace shows of two plans: the committed one with its slot    *)
(* actions, the proposal with its review card and the sentence about it, and *)
(* the two side by side with what differs marked. A plan is [semesters, grad,*)
(* state, unmet, broken, feasible]: semesters a sequence of [term, slots], a  *)
(* slot [kind, key, credits, petition], "broken" the constraints the solver   *)
(* says it violates, each [kind, detail], "feasible" the verdict of the        *)
(* graduation-path validator, which may accept what the solver finds fault     *)
(* with and refuse what it does not. A term is 4 * year + the season's place.  *)
(***************************************************************************)
EXTENDS FiniteSets, Lists

CONSTANTS ViewPlans,   \* the plans the engine may send
          PlanChanges, \* [kind, course, drop, term, to]
          Rejections,  \* what the validator may say of a plan it refuses: [kind, detail]
          SlotWindows  \* the windows of the term in progress

\* A term is a positive number, semesters stand in the order of time, what is
\* listed is a list, and a plan is a draft exactly if the validator refuses it.
ASSUME ViewsAssumption ==
  /\ \A p \in ViewPlans :
       /\ IsList(p.semesters) /\ IsList(p.broken)
       /\ \A i \in DOMAIN p.semesters :
            /\ p.semesters[i].term \in Nat \ {0} /\ IsList(p.semesters[i].slots)
            /\ \A n \in DOMAIN p.semesters[i].slots : p.semesters[i].slots[n].credits \in Nat
            /\ \A j \in DOMAIN p.semesters : i < j => p.semesters[i].term < p.semesters[j].term
       /\ p.feasible \in BOOLEAN /\ (p.state \in {"infeasible-draft", "student-preferred-invalid-draft"} <=> ~p.feasible)

VARIABLES myPlan, proposal, screen, popover, window, sentAct

viewVars == <<myPlan, proposal, screen, popover, window, sentAct>>

NoProposal == [known |-> FALSE]
Closed == <<0, 0>>
NoAct == "none"

-----------------------------------------------------------------------------
(* The compare view.                                                        *)

SlotsOf(sem) == Range(sem.slots)
KeysOf(p) == {s.key : s \in UNION {SlotsOf(p.semesters[i]) : i \in DOMAIN p.semesters}}
\* The first semester that lists a course counts, a second one is ignored.
BuildMap(p) ==
  [k \in KeysOf(p) |->
     p.semesters[Min({i \in DOMAIN p.semesters : \E s \in SlotsOf(p.semesters[i]) : s.key = k})].term]

\* [left, right]: the mark of a course in either column, "absent" where it has none.
Marked(left, right) == [left |-> left, right |-> right]
ClassifyByPresence(k, l, r) ==
  IF k \notin DOMAIN r THEN Marked("removed", "absent")
  ELSE IF k \notin DOMAIN l THEN Marked("absent", "added") ELSE Marked("same", "same")
Classify(k, l, r) ==
  IF k \notin DOMAIN r THEN Marked("removed", "absent")
  ELSE IF k \notin DOMAIN l THEN Marked("absent", "added")
  ELSE IF l[k] = r[k] THEN Marked("same", "same")
  ELSE IF r[k] > l[k] THEN Marked("removed", "retake") ELSE Marked("moved", "moved")

\* The rows of one column, each at the term its plan lists the course first.
Column(p, side, l, r) == {[term |-> BuildMap(p)[k], key |-> k, diff |-> Classify(k, l, r)[side]] : k \in KeysOf(p)}
DiffClassFor(column, term, key) ==
  LET rows == {row \in column : row.term = term /\ row.key = key}
  IN IF rows = {} \/ \E row \in rows : row.diff = "same" THEN "none" ELSE (CHOOSE row \in rows : TRUE).diff
\* Every slot on screen, with the mark it gets.
Grid(p, column) ==
  UNION {{[term |-> p.semesters[i].term, key |-> s.key, mark |-> DiffClassFor(column, p.semesters[i].term, s.key)] :
            s \in SlotsOf(p.semesters[i])} : i \in DOMAIN p.semesters}
Compared(l, r) ==
  [left  |-> Grid(l, Column(l, "left", BuildMap(l), BuildMap(r))),
   right |-> Grid(r, Column(r, "right", BuildMap(l), BuildMap(r)))]

-----------------------------------------------------------------------------
(* The difference the engine reports, and the sentence made of it.          *)

CreditsOf(sem) == Sum([n \in DOMAIN sem.slots |-> sem.slots[n].credits])
PlannedCredits(p, t) ==
  Sum([i \in DOMAIN p.semesters |-> IF p.semesters[i].term = t THEN CreditsOf(p.semesters[i]) ELSE 0])
TermsIn(p) == {p.semesters[i].term : i \in DOMAIN p.semesters}
PetitionsOf(p) == {s.key : s \in {s \in UNION {SlotsOf(p.semesters[i]) : i \in DOMAIN p.semesters} : s.petition}}
BuildPlanDiff(before, after) ==
  [credits |-> [t \in {t \in TermsIn(before) \union TermsIn(after) : PlannedCredits(before, t) # PlannedCredits(after, t)} |->
                  PlannedCredits(after, t) - PlannedCredits(before, t)],
   gradShift |-> after.grad - before.grad,
   unmet |-> after.unmet \ before.unmet,
   petitions |-> PetitionsOf(after) \ PetitionsOf(before),
   state |-> IF before.state = after.state THEN "unchanged" ELSE after.state]

Drafts == {"infeasible-draft", "student-preferred-invalid-draft"}
CreditDelta(d, t) == IF t \in DOMAIN d.credits THEN d.credits[t] ELSE 0
\* The most important issue alone is named.
RenderIssues(d) ==
  IF d.state \in Drafts THEN "draft"
  ELSE IF d.unmet # {} THEN "unmet"
  ELSE IF d.gradShift > 0 THEN "deferred"
  ELSE IF d.petitions # {} THEN "petition" ELSE "none"

\* What a sentence says: the issue, and of which terms it tells the credits.
Said(issue, credits) == [issue |-> issue, credits |-> credits]
ToldOf(d, ts) == {<<t, CreditDelta(d, t)>> : t \in ts}
ExplainPlanDiff(d, m) ==
  LET issue == RenderIssues(d)
  IN CASE m.kind = "pin" -> Said(issue, ToldOf(d, {m.term}))
       [] m.kind = "swap" -> Said(issue, IF issue = "none" THEN ToldOf(d, {m.term}) ELSE {})
       [] m.kind = "move" -> Said(issue, IF issue = "none" THEN ToldOf(d, {m.term, m.to}) ELSE {})
       [] m.kind = "unpin" -> Said(issue, {})
       \* neither of these two looks at the state of the plan or at petitions
       [] m.kind = "exclude" ->
            IF d.unmet # {} THEN Said("unmet", {})
            ELSE IF d.gradShift > 0 THEN Said("deferred", {}) ELSE Said("none", ToldOf(d, {m.term}))
       [] m.kind = "addTerm" -> Said(IF d.gradShift > 0 THEN "deferred" ELSE "none", {})
       [] OTHER -> Said("not told", {})

\* "Plan remains feasible" is a consequence too, so no list of them is empty. Of
\* a change it reads the solver's violations, of a what-if the validator's verdict.
DeriveConsequences(added, removed, m, p) ==
  (IF (IF m.kind = "what-if" THEN p.feasible ELSE p.broken = <<>>) THEN {"feasible"} ELSE {"infeasible"})
  \union (IF added # {} THEN {"added"} ELSE {}) \union (IF removed # {} THEN {"removed"} ELSE {})
ReviewVerdict(consequences, d, p) ==
  IF ~p.feasible THEN "invalid"
  ELSE IF consequences # {} \/ d.gradShift # 0 THEN "trade-offs" ELSE "valid"
\* What the validator says of a plan it refuses reaches the page with the reply
\* to an action; the proposal event of the chat has no field for it.
ConflictsOf(p, says, from) == IF p.feasible \/ from = NoAct THEN <<>> ELSE <<says>>
\* The conflicts, then the violations, each detail once.
InvalidCard(conflicts, p) ==
  LET all == conflicts \o p.broken
  IN Filter([i \in DOMAIN all |-> i],
            {i \in DOMAIN all : \A j \in 1..(i - 1) : all[j].detail # all[i].detail})

-----------------------------------------------------------------------------
(* The slots of the committed plan. The popover is held by its place, and so *)
(* is open on whatever course the next plan has in that place.                *)

SlotAt(p, at) ==
  IF \E i \in DOMAIN p.semesters : p.semesters[i].term = at[1] /\ at[2] \in DOMAIN p.semesters[i].slots
  THEN p.semesters[CHOOSE i \in DOMAIN p.semesters : p.semesters[i].term = at[1]].slots[at[2]]
  ELSE [kind |-> "none", key |-> "", credits |-> 0, petition |-> FALSE]
SlotEditable(s) == screen = "committed" /\ s.kind \in {"specific_planned", "in_progress"}
ActionsFor(s) ==
  IF s.kind = "specific_planned" THEN {"drop"}
  ELSE CASE window = "add_drop" -> {"drop"}
         [] window \in {"withdraw_pf", "future", "unknown"} -> {"drop", "withdraw", "passFail"}
         [] OTHER -> {}
AddTermState(t) == t \in TermsIn(myPlan) /\ (t > Min(TermsIn(myPlan)) \/ window \in {"future", "add_drop", "unknown"})

ClickSlot ==
  \E i \in DOMAIN myPlan.semesters : \E n \in DOMAIN myPlan.semesters[i].slots :
    LET at == <<myPlan.semesters[i].term, n>>
    IN /\ SlotEditable(SlotAt(myPlan, at))
       /\ popover' = IF popover = at THEN Closed ELSE at
       /\ UNCHANGED <<myPlan, proposal, screen, window, sentAct>>
PickAction ==
  /\ sentAct = NoAct /\ SlotEditable(SlotAt(myPlan, popover))
  /\ \E a \in ActionsFor(SlotAt(myPlan, popover)) : sentAct' = a
  /\ popover' = Closed
  /\ UNCHANGED <<myPlan, proposal, screen, window>>
AddCourse ==
  /\ sentAct = NoAct /\ screen = "committed" /\ \E t \in TermsIn(myPlan) : AddTermState(t)
  /\ sentAct' = "add"
  /\ UNCHANGED <<myPlan, proposal, screen, popover, window>>

\* The reply to an action, or a proposal of the chat. A feasible one opens its
\* tab, any other one the red card; one before it has been dropped.
ChangeOf(a) == CASE a = "drop" -> {"exclude"} [] a = "add" -> {"pin"} [] a = NoAct -> {m.kind : m \in PlanChanges} [] OTHER -> {"what-if"}
ProposalArrives ==
  /\ ~proposal.known
  /\ \E p \in ViewPlans, m \in PlanChanges, says \in Rejections :
       LET d == BuildPlanDiff(myPlan, p)
           c == DeriveConsequences(KeysOf(p) \ KeysOf(myPlan), KeysOf(myPlan) \ KeysOf(p), m, p)
           conflicts == ConflictsOf(p, says, sentAct)
       IN /\ p # myPlan /\ m.kind \in ChangeOf(sentAct)
          /\ proposal' = [known |-> TRUE, plan |-> p, change |-> m, against |-> myPlan, by |-> sentAct,
                          said |-> ExplainPlanDiff(d, m), diff |-> d, conflicts |-> conflicts,
                          verdict |-> ReviewVerdict(c, d, p), card |-> InvalidCard(conflicts, p)]
          /\ screen' = IF p.feasible THEN "proposed" ELSE "committed"
  /\ sentAct' = NoAct
  /\ UNCHANGED <<myPlan, popover, window>>
\* The compare view takes the place of the grid, whose popover is forgotten.
OpenCompare ==
  /\ proposal.known /\ proposal.verdict # "invalid" /\ screen # "compare"
  /\ screen' = "compare" /\ popover' = Closed
  /\ UNCHANGED <<myPlan, proposal, window, sentAct>>
SelectTab ==
  /\ \E tab \in {"committed", "proposed"} :
       screen # tab /\ (tab = "proposed" => proposal.known /\ proposal.verdict # "invalid") /\ screen' = tab
  /\ UNCHANGED <<myPlan, proposal, popover, window, sentAct>>
ConfirmProposal ==
  /\ screen = "proposed"
  /\ myPlan' = proposal.plan /\ proposal' = NoProposal /\ screen' = "committed"
  /\ UNCHANGED <<popover, window, sentAct>>
DiscardProposal ==
  /\ proposal.known /\ proposal' = NoProposal /\ screen' = "committed"
  /\ UNCHANGED <<myPlan, popover, window, sentAct>>

ViewsInit ==
  /\ myPlan \in {p \in ViewPlans : p.feasible} /\ window \in SlotWindows
  /\ proposal = NoProposal /\ screen = "committed" /\ popover = Closed /\ sentAct = NoAct
ViewsNext == ClickSlot \/ PickAction \/ AddCourse \/ ProposalArrives \/ OpenCompare \/ SelectTab
             \/ ConfirmProposal \/ DiscardProposal
ViewsSpec == ViewsInit /\ [][ViewsNext]_viewVars

-----------------------------------------------------------------------------
Lists(sem, k) == \E s \in SlotsOf(sem) : s.key = k
ListedOnce(p, k) == \A i, j \in DOMAIN p.semesters : Lists(p.semesters[i], k) /\ Lists(p.semesters[j], k) => i = j

\* A mark says the truth, of a course listed twice as well; and of one that
\* either plan lists at most once, it is there exactly where the plans differ.
MarksAreTrue(l, r) ==
  LET shown == Compared(l, r)
      Once(k) == ListedOnce(l, k) /\ ListedOnce(r, k)
      In(side, k, terms) == \E s \in shown[side] : s.key = k /\ s.term \in terms
      Before(t) == 0..(t - 1)
  IN /\ \A s \in shown.left :
          /\ s.mark = "moved" => In("right", s.key, Before(s.term))
          /\ s.mark = "removed" => ~In("right", s.key, Before(s.term) \union {s.term})
          /\ Once(s.key) => (s.mark = "none" <=> In("right", s.key, {s.term}))
     /\ \A s \in shown.right :
          /\ s.mark = "added" => ~In("left", s.key, Nat)
          /\ s.mark = "retake" => In("left", s.key, Before(s.term))
          /\ s.mark = "moved" => In("left", s.key, Nat \ (Before(s.term) \union {s.term}))
          /\ Once(s.key) => (s.mark = "none" <=> In("left", s.key, {s.term}))

\* The sentence of a proposal, against the plan it was made against.
SentenceIsTrue(q) ==
  /\ \A told \in q.said.credits :
       PlannedCredits(q.plan, told[1]) = PlannedCredits(q.against, told[1]) + told[2]
  /\ q.change.kind # "addTerm" /\ q.said.issue = "none" => q.plan.unmet \subseteq q.against.unmet
  /\ q.change.kind \notin {"addTerm", "exclude"} /\ q.said.issue = "none" => q.plan.feasible \/ ~q.against.feasible

\* The red card tells every conflict and violation once; that of an action is
\* never empty.
CardIsTrue(q) ==
  /\ LET all == q.conflicts \o q.plan.broken
     IN \A c \in Range(all) : Cardinality({i \in DOMAIN q.card : all[q.card[i]].detail = c.detail}) = 1
  /\ q.verdict = "invalid" /\ q.by # NoAct => q.card # <<>>

(* The compare view never marks a course as gone, new, earlier or later that  *)
(* is not, and marks every slot that differs of a course either plan lists     *)
(* once; the sentence about a proposal tells the credits of the terms it names *)
(* as their headers show them, and of no issue only if there is no new unmet    *)
(* requirement and no plan that has become infeasible; the red card tells       *)
(* every conflict and violation once and, after an action, at least one; and    *)
(* whatever tab is open, the plan on it is one the validator accepts            *)
(* (diffSchedules, explainPlanDiff, computeInvalidCard, planActionSurfaces).   *)
ComparisonIsTrue ==
  /\ myPlan.feasible
  /\ screen # "committed" => proposal.known /\ proposal.plan.feasible
  /\ proposal.known => MarksAreTrue(myPlan, proposal.plan) /\ SentenceIsTrue(proposal) /\ CardIsTrue(proposal)
=============================================================================
