---------------------------- MODULE PlanMaterial ----------------------------
(***************************************************************************)
(* From the placements the search chose to the schedule the student sees,  *)
(* and the verdict on it: slots per term, placeholders for what could not  *)
(* be bound, free electives up to the credit target, the constraint        *)
(* violations, the assumptions, and the eight axes of the graduation path  *)
(* validator.                                                              *)
(***************************************************************************)
EXTENDS PlanModel

InWindow(t, ctx) == t \in ToSet(ctx.terms)
LastTerm(ctx) == ctx.terms[Len(ctx.terms)]

EffectiveTermTarget(t, ctx) ==
  CASE t \in DOMAIN ctx.termTarget -> ctx.termTarget[t]
    [] t \notin DOMAIN ctx.termTarget /\ t \in ctx.lightTerms ->
         IF ctx.f1Floor # None THEN ctx.f1Floor
         ELSE IF ctx.partTimeFloor # None THEN ctx.partTimeFloor ELSE ctx.load
    [] t \notin DOMAIN ctx.termTarget /\ t \notin ctx.lightTerms
         /\ t \in ctx.heavyTerms -> ctx.ceiling
    [] OTHER -> ctx.load

-----------------------------------------------------------------------------
(* Slots.                                                                  *)

SlotCredits(slots, t) == Sum([i \in DOMAIN slots[t] |-> slots[t][i].credits])
AllCredits(slots, ctx) == Sum([i \in DOMAIN ctx.terms |-> SlotCredits(slots, ctx.terms[i])])
AddSlot(slots, t, slot) == [slots EXCEPT ![t] = Append(@, slot)]

Slot(kind, course, credits, rId, tier, weight) ==
  [kind |-> kind, course |-> course, credits |-> credits, rId |-> rId, tier |-> tier,
   weight |-> weight, members |-> {}, petition |-> FALSE, optional |-> FALSE]

IpSlot(p, ctx) ==
  Slot("in_progress", p.course,
       IF p.course \in DOMAIN ctx.catalog THEN ctx.catalog[p.course] ELSE 4,
       "none", "none", 0)

CatalogCredits(p, ctx) ==
  IF p.course \in DOMAIN ctx.catalog THEN ctx.catalog[p.course] ELSE p.credits

PinSlot(p, ctx) ==
  Slot("specific", p.course, CatalogCredits(p, ctx), p.rId, p.tier, p.weight)

Req(rId, ctx) == ctx.reqs[CHOOSE i \in DOMAIN ctx.reqs : ctx.reqs[i].rId = rId]

IsPoolId(course, ctx) ==
  course # "none" /\ \E i \in DOMAIN ctx.reqs : ctx.reqs[i].poolId = course

\* A pool keeps its members: the student binds one of them later.
PoolSlot(p, ctx) ==
  [Slot("placeholder", p.course, p.credits, p.rId, p.tier, p.weight)
     EXCEPT !.members = PoolMembers(Req(p.rId, ctx), ctx)]

CourseSlot(p, placements, ctx) ==
  [Slot("specific", p.course, CatalogCredits(p, ctx), p.rId, p.tier, p.weight)
     EXCEPT !.petition = CheckAllPrereqs(p.course, p.term, ctx, placements).petition]

BoundSlot(p, placements, ctx) ==
  CASE p.source = "pin" -> PinSlot(p, ctx)
    [] p.source # "pin" /\ IsPoolId(p.course, ctx) -> PoolSlot(p, ctx)
    [] OTHER -> CourseSlot(p, placements, ctx)

\* The terms the schedule shows for a course: the first in which it is
\* offered after all its prerequisites (of every group), and the last in
\* which it is offered; the chosen or the last term when there is none.
FeasibleTermWindow(course, chosen, ctx, placements) ==
  LET groups == IF course \in DOMAIN ctx.prereqs THEN ctx.prereqs[course] ELSE <<>>
      needed == UNION {groups[i].courses : i \in {j \in DOMAIN groups : groups[j].type # "NOT"}}
      later == needed \ (ctx.taken \cup DOMAIN ctx.ip)
      Precede(t) == \A c \in later : c \in DOMAIN placements /\ placements[c] < t
      offered == {t \in ToSet(ctx.terms) : OfferedIn(course, t, ctx)}
      ready == {t \in offered : Precede(t)}
  IN [earliest |-> IF ready = {} THEN chosen ELSE Min(ready),
      latest |-> IF offered = {} THEN LastTerm(ctx) ELSE Max(offered)]

-----------------------------------------------------------------------------
(* The schedule, in the order the code builds it.                          *)

\* A course in progress of a term outside the window is shown in the current
\* term, if that is inside.
ShownIn(p, ctx) == IF p.source = "ip" /\ ~InWindow(p.term, ctx) THEN ctx.now ELSE p.term

PlacedSlots(plan, ctx) ==
  LET placements == PlannedPlacements(plan)
      Shown(t) == Filter(plan, {p \in ToSet(plan) : p.source = "ip" /\ ShownIn(p, ctx) = t})
      Bound(t) == Filter(plan, {p \in ToSet(plan) : Binds(p) /\ p.term = t})
  IN [t \in ToSet(ctx.terms) |->
        [i \in DOMAIN Shown(t) |-> IpSlot(Shown(t)[i], ctx)]
          \o [i \in DOMAIN Bound(t) |-> BoundSlot(Bound(t)[i], placements, ctx)]]

\* The term with the most room for the requirement's credits; the first term
\* when none has room.
PlaceholderTerm(slots, req, ctx) ==
  LET Slack(t) == EffectiveTermTarget(t, ctx) - SlotCredits(slots, t)
      roomy == {t \in ToSet(ctx.terms) : Slack(t) >= req.credits}
  IN IF roomy = {} THEN ctx.terms[1]
     ELSE Min({t \in roomy : \A u \in roomy : Slack(u) <= Slack(t)})

AddPlaceholder(slots, req, ctx) ==
  AddSlot(slots, PlaceholderTerm(slots, req, ctx),
          Slot("placeholder", "none", req.credits, req.rId, Tier(req.rId, ctx), 30))

\* What a main term is filled up to: the final term of a student on a visa
\* only as far as the degree needs.
FillTarget(slots, t, ctx) ==
  LET base == EffectiveTermTarget(t, ctx)
      missing == Max({0, ctx.minimum - (ctx.earned + AllCredits(slots, ctx))})
  IN CASE t = LastTerm(ctx) /\ ctx.visa = "f1" ->
            Min({SlotCredits(slots, t) + missing, ctx.ceiling})
       [] t # LastTerm(ctx) /\ ctx.visa = "f1" /\ ctx.f1Floor # None ->
            Max({base, ctx.f1Floor})
       [] OTHER -> base

FreeElectives(credits, target, ctx) ==
  LET floor == IF ctx.f1Floor # None THEN ctx.f1Floor
               ELSE IF ctx.partTimeFloor # None THEN ctx.partTimeFloor ELSE 0
      count == IF target > credits THEN (target - credits + 3) \div 4 ELSE 0
  IN [i \in 1..count |->
        [Slot("placeholder", "none", Min({4, target - credits - 4 * (i - 1)}),
              "none", "free-elective", 30)
           EXCEPT !.optional = /\ ctx.earned >= ctx.minimum
                               /\ credits + 4 * (i - 1) >= floor]]

FillTerm(slots, t, ctx) ==
  IF IsOptionalTerm(t) THEN slots
  ELSE [slots EXCEPT ![t] = @ \o FreeElectives(SlotCredits(slots, t),
                                              FillTarget(slots, t, ctx), ctx)]

Uncovered(plan, ctx) ==
  Filter(ctx.reqs, {r \in ToSet(ctx.reqs) : r.rId \notin CoveredRIds(plan)})

Schedule(plan, ctx) ==
  LET uncovered == Uncovered(plan, ctx)
      bound[i \in 0..Len(uncovered)] ==
        IF i = 0 THEN PlacedSlots(plan, ctx) ELSE AddPlaceholder(bound[i - 1], uncovered[i], ctx)
      filled[i \in 0..Len(ctx.terms)] ==
        IF i = 0 THEN bound[Len(uncovered)] ELSE FillTerm(filled[i - 1], ctx.terms[i], ctx)
  IN filled[Len(ctx.terms)]

-----------------------------------------------------------------------------
(* Violations, assumptions and the planner's own state of the plan.        *)

BelowFloor(credits, ctx) ==
  \/ ~FullTimeSatisfied(credits, ctx.visa, ctx.f1Floor)
  \/ ~CreditMinimumSatisfied(credits, ctx.f1Floor, ctx.partTimeFloor)

IsFinalF1(t, ctx) == t = LastTerm(ctx) /\ ctx.visa = "f1"

TermViolations(slots, ctx) ==
  {"credit_floor" : t \in {u \in ToSet(ctx.terms) :
      ~IsOptionalTerm(u) /\ ~IsFinalF1(u, ctx) /\ BelowFloor(SlotCredits(slots, u), ctx)}}
  \cup
  {"credit_ceiling" : t \in {u \in ToSet(ctx.terms) : SlotCredits(slots, u) > ctx.ceiling}}

GlobalViolations(slots, ctx) ==
  (IF ctx.earned + AllCredits(slots, ctx) < ctx.minimum THEN {"graduation_total"} ELSE {})
  \cup ctx.broken

\* Notes that send the student to the visa office.
NotesNeedApproval(slots, ctx) ==
  \E t \in ToSet(ctx.terms) :
    \/ VisaNoteNeedsApproval(SlotCredits(slots, t), ctx.visa, ctx.f1Floor)
    \/ ~IsOptionalTerm(t) /\ IsFinalF1(t, ctx) /\ BelowFloor(SlotCredits(slots, t), ctx)

\* A course in progress is assumed to be passed when a planned candidate
\* names it as a prerequisite.
DependentsOn(course, ctx) ==
  {c \in (UNION {ToSet(ctx.reqs[i].candidates) : i \in DOMAIN ctx.reqs}) \cap DOMAIN ctx.prereqs :
     \E i \in DOMAIN ctx.prereqs[c] :
       ctx.prereqs[c][i].type # "NOT" /\ course \in ctx.prereqs[c][i].courses}

SpecificCourses(slots) ==
  {s.course : s \in {x \in UNION {ToSet(slots[t]) : t \in DOMAIN slots} : x.kind = "specific"}}

IpAssumptions(slots, ctx) ==
  {c \in DOMAIN ctx.ip : DependentsOn(c, ctx) \cap SpecificCourses(slots) # {}}

Slots(slots) == UNION {ToSet(slots[t]) : t \in DOMAIN slots}

HasTradeOff(slots, ctx) ==
  \/ IpAssumptions(slots, ctx) # {}
  \/ \E s \in Slots(slots) : \/ s.kind = "specific" /\ (s.petition \/ s.course \in ctx.irregular)
                             \/ s.kind = "placeholder"

DerivePlanState(slots, violations, ctx) ==
  IF violations # {} THEN "infeasible-draft"
  ELSE IF HasTradeOff(slots, ctx) THEN "valid-with-trade-offs" ELSE "valid-clean"

\* The schedule with its violations; an empty window has neither.
Materialize(plan, ctx) ==
  IF ctx.terms = <<>>
  THEN [slots |-> <<>>, violations |-> {}, state |-> "valid-clean"]
  ELSE LET slots == Schedule(plan, ctx)
           violations == TermViolations(slots, ctx) \cup GlobalViolations(slots, ctx)
       IN [slots |-> slots, violations |-> violations,
           state |-> DerivePlanState(slots, violations, ctx)]

-----------------------------------------------------------------------------
(* The eight axes of the validator.                                        *)

Resolvable(s) == s.kind = "placeholder" /\ s.members # {}
Satisfies(slots) == {s.rId : s \in {x \in Slots(slots) : x.kind = "specific" \/ Resolvable(x)}}

RequirementGroupsSatisfied(out, ctx) ==
  LET open == {ctx.unmet[i].rId : i \in {j \in DOMAIN ctx.unmet : ~ctx.unmet[j].partly}}
      byAssumption == {s \in Slots(out.slots) :
         s.kind = "specific" /\ s.rId \in open /\ s.course \in IpAssumptions(out.slots, ctx)}
  IN IF ~(open \subseteq Satisfies(out.slots)) THEN "fail"
     ELSE IF byAssumption # {} THEN "assumed-pass" ELSE "pass"

\* Each pool has a single slot: it is resolvable when it has a member.
PoolSlotsResolvable(out, ctx) ==
  IF \E s \in Slots(out.slots) : IsPoolId(s.course, ctx) /\ s.members = {} THEN "fail" ELSE "pass"

TotalCreditsExceedMinimum(out, ctx) ==
  IF ctx.earned + AllCredits(out.slots, ctx) > ctx.minimum THEN "pass" ELSE "fail"

TotalCreditsMeetMinimum(out, ctx) ==
  IF ctx.earned + AllCredits(out.slots, ctx) >= ctx.minimum THEN "pass" ELSE "fail"

\* The credits of the slots of the set.
CountedCredits(slots, S, ctx) ==
  LET credits(t) == Sum([i \in DOMAIN slots[t] |->
                           IF slots[t][i] \in S THEN slots[t][i].credits ELSE 0])
  IN Sum([i \in DOMAIN ctx.terms |-> credits(ctx.terms[i])])

CountsForResidency(s) == s.kind \in {"specific", "in_progress"} \/ Resolvable(s)
CountsForMajor(s) == (s.kind = "specific" \/ Resolvable(s)) /\ IsMajorTier(s.tier)

ThresholdsMet(out, ctx) ==
  LET all == Slots(out.slots)
      residency == ctx.residencyUsed + CountedCredits(out.slots, {s \in all : CountsForResidency(s)}, ctx)
      major == CountedCredits(out.slots, {s \in all : CountsForMajor(s)}, ctx)
  IN CASE ctx.residencyMin # None /\ residency < ctx.residencyMin -> "fail"
       [] ctx.majorMin # None /\ major < ctx.majorMin
          /\ ~(ctx.residencyMin # None /\ residency < ctx.residencyMin) -> "fail"
       [] OTHER -> IF None \in {ctx.residencyMin, ctx.majorMin} THEN "requires-approval" ELSE "pass"

VisaAxesPass(out, violations, ctx) ==
  IF violations \cap {"credit_floor", "credit_ceiling", "gpa_floor"} # {} THEN "fail"
  ELSE IF NotesNeedApproval(out.slots, ctx) THEN "requires-approval" ELSE "pass"

GraduationTargetMet(out, ctx) ==
  LET at == ReachedBy(LAMBDA t : SlotCredits(out.slots, t), ctx)
  IN IF at # None /\ ctx.terms[at] <= ctx.grad THEN "pass" ELSE "fail"

\* The axis on assumptions compares the assumptions with themselves.
AxisResults(out, violations, ctx) ==
  [requirementGroupsSatisfied |-> RequirementGroupsSatisfied(out, ctx),
   poolSlotsResolvable |-> PoolSlotsResolvable(out, ctx),
   totalCreditsMeetMinimum |-> TotalCreditsMeetMinimum(out, ctx),
   thresholdsMet |-> ThresholdsMet(out, ctx),
   visaAxesPass |-> VisaAxesPass(out, violations, ctx),
   assumptionsExplicit |-> "pass",
   graduationTargetMet |-> GraduationTargetMet(out, ctx),
   passFailLimitsRespected |-> CheckPassFailLimits(ctx.rows, ctx.passFailUsed, ctx.passFail)]

ValidatorFeasible(axes) == \A a \in DOMAIN axes : axes[a] # "fail"

PlanStateFromValidator(axes, out, ctx) ==
  CASE ~ValidatorFeasible(axes) -> "infeasible-draft"
    [] ValidatorFeasible(axes)
         /\ (\/ \E a \in DOMAIN axes : axes[a] # "pass"
             \/ HasTradeOff(out.slots, ctx)) -> "valid-with-trade-offs"
    [] OTHER -> "valid-clean"
=============================================================================
