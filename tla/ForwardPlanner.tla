--------------------------- MODULE ForwardPlanner ---------------------------
(***************************************************************************)
(* How a forward schedule is built: the backtracking search for a valid    *)
(* placement of the unmet requirements, the local improvement of the plan  *)
(* found, the search for diverse alternatives (each improved in turn), the *)
(* materialisation and validation of the result, and the relaxation of a   *)
(* derived graduation term when the validator refuses.                     *)
(*                                                                         *)
(* goal is what the current search is for: "winner" stops at the first     *)
(* valid leaf, "alternative" at the first whose signature is new, "top"    *)
(* visits them all and keeps the best K.                                   *)
(***************************************************************************)
EXTENDS PlanMaterial

CONSTANTS
  Problems,         \* the planning problems of the run: see PlanModel
  Budgets,          \* node budgets of a search
  K,                \* plans kept by a "top" search
  MaxAlternatives,  \* plans of the search for diverse plans, the winner's too
  MaxPasses,        \* passes of the local improvement
  MaxExtensions     \* main terms a derived graduation term may move

ASSUME PlannerAssumption ==
  /\ K \in Nat \ {0} /\ MaxAlternatives \in Nat \ {0}
  /\ MaxPasses \in Nat /\ MaxExtensions \in Nat
  /\ Budgets \subseteq Nat
  /\ \A r \in Problems : IsProblem(r)

VARIABLES
  raw,          \* the problem
  budget,       \* its node budget
  ctx,          \* the constraint context of the current solve
  goal, phase,
  assigned,     \* the placements chosen so far
  frames,       \* for each variable on the stack, the values left to try
  nodes, truncated,
  kept,         \* the leaves the search keeps
  diverse,      \* the diverse plans found
  draft,        \* the plan under improvement or materialised
  passes,
  winner,       \* the improved winner; alternatives: the improved others
  alternatives,
  built,        \* the finalised schedules, the first one and its extensions
  result        \* the schedule returned

plannerVars == <<raw, budget, ctx, goal, phase, assigned, frames, nodes, truncated,
                 kept, diverse, draft, passes, winner, alternatives, built, result>>
searchVars == <<assigned, frames, nodes, truncated, kept>>
jobVars == <<raw, budget, ctx>>

NoPlan == <<>>
NoResult == [feasible |-> FALSE, none |-> TRUE]

-----------------------------------------------------------------------------
(* Fixed placements: the courses in progress, then the pins the plan can   *)
(* honour.                                                                 *)

IpPlacements(c) ==
  LET ips == ByName(DOMAIN c.ip, c)
  IN [i \in DOMAIN ips |->
        [Placement(ips[i], IF InWindow(c.ip[ips[i]], c) THEN c.ip[ips[i]] ELSE c.now,
                   "none", "ip", c)
           EXCEPT !.credits = IF ips[i] \in DOMAIN c.catalog THEN @ ELSE 4]]

Honoured(pin, c) == InWindow(pin.term, c) /\ OfferedIn(pin.course, pin.term, c)

\* The requirement a pin serves: the first one whose candidates name it.
ServedBy(course, c) ==
  LET serving == {i \in DOMAIN c.reqs : course \in ToSet(c.reqs[i].candidates)}
  IN IF serving = {} THEN "none" ELSE c.reqs[Min(serving)].rId

PinPlacements(c) ==
  LET pins == Filter(c.pins, {p \in ToSet(c.pins) : Honoured(p, c)})
  IN [i \in DOMAIN pins |->
        [Placement(pins[i].course, pins[i].term, ServedBy(pins[i].course, c), "pin", c)
           EXCEPT !.credits = IF pins[i].course \in DOMAIN c.catalog THEN @
                              ELSE IF pins[i].course \in DOMAIN c.offCatalog
                                   THEN c.offCatalog[pins[i].course] ELSE 0]]

FixedPlacements(c) == IpPlacements(c) \o PinPlacements(c)

PinViolations(c) ==
  {IF InWindow(p.term, c) THEN "offering_pattern" ELSE "other" :
     p \in {q \in ToSet(c.pins) : ~Honoured(q, c)}}

-----------------------------------------------------------------------------
(* The variables in the order they are bound, and the values of each.      *)

MinCandidateDepth(v, c) == Min({PrereqDepth(x, c) : x \in ToSet(v.candidates)})

BoundBefore(u, v, c) ==
  LET du == MinCandidateDepth(u, c)
      dv == MinCandidateDepth(v, c)
      wu == WorkloadWeight(u.candidates[1], u.rId, c)
      wv == WorkloadWeight(v.candidates[1], v.rId, c)
  IN \/ du < dv
     \/ du = dv /\ Len(u.candidates) < Len(v.candidates)
     \/ du = dv /\ Len(u.candidates) = Len(v.candidates) /\ wu > wv

SearchVariables(c) ==
  LET covered == {p.rId : p \in ToSet(FixedPlacements(c))} \ {"none"}
      open == {v \in ToSet(c.vars) : v.candidates # <<>> /\ v.rId \notin covered}
  IN StableSort(Filter(c.vars, open), {p \in open \X open : BoundBefore(p[1], p[2], c)})

IncrementalOk(p, c) ==
  /\ OfferingSeasonMatch(p, c)
  /\ NotClauseClear(p, c)
  /\ CoreqsSameTerm(p, c)
  /\ PerTermCeiling(p, c)

\* The credit target as a limit.
CandidateValuesWithinLoad(v, partial, c, soft) ==
  Filter(RawValues(v, c), {x \in ToSet(RawValues(v, c)) :
    LET p == Append(partial, x)
    IN IncrementalOk(p, c) /\ (soft => TermCredits(p, x.term) <= c.load)})

\* The values that keep the partial plan legal, best first: within the
\* student's credit target (searches for a single plan only), then by score,
\* term and course.
CandidateValues(v, partial, c, soft) ==
  LET legal == {x \in ToSet(RawValues(v, c)) : IncrementalOk(Append(partial, x), c)}
      entry[x \in legal] == [value |-> x, score |-> ScorePlan(Append(partial, x), c),
                   over |-> soft /\ TermCredits(Append(partial, x), x.term) > c.load]
      Name(x) == IF x.course \in ToSet(c.names) THEN Index(x.course, c) ELSE 99
      Before(a, b) ==
        \/ ~a.over /\ b.over
        \/ /\ a.over = b.over
           /\ \/ Less(a.score, b.score)
              \/ /\ Same(a.score, b.score)
                 /\ \/ a.value.term < b.value.term
                    \/ a.value.term = b.value.term /\ Name(a.value) < Name(b.value)
  IN StableSort(Filter(RawValues(v, c), legal),
                {p \in legal \X legal : Before(entry[p[1]], entry[p[2]])})

LeafOk(p, c) ==
  /\ PrereqsSatisfied(p, c)
  /\ RequirementCoverage(p, c)
  /\ MajorCreditFloor(p, c)
  /\ ResidencyFloor(p, c)

ReqSignature(p) ==
  {<<p[i].rId, p[i].course, p[i].term>> : i \in {j \in DOMAIN p : p[j].rId # "none"}}

-----------------------------------------------------------------------------
(* Violations reported when the search finds nothing.                      *)

\* The constraint that refuses most of a variable's values.
MostRefused(refused) ==
  IF Max(ToSet(refused)) = 0 THEN "other"
  ELSE <<"credit_ceiling", "offering_pattern", "other", "not_clause">>
         [Min({i \in 1..4 : refused[i] = Max(ToSet(refused))})]

Refusals(trials, c) ==
  <<Cardinality({t \in trials : ~PerTermCeiling(t, c)}),
    Cardinality({t \in trials : ~OfferingSeasonMatch(t, c)}),
    Cardinality({t \in trials : ~CoreqsSameTerm(t, c)}),
    Cardinality({t \in trials : ~NotClauseClear(t, c)})>>

DominantKind(v, fixed, c) ==
  MostRefused(Refusals({Append(fixed, x) : x \in ToSet(RawValues(v, c))}, c))

\* What is wrong with a variable of which no value can be placed, or whose
\* prerequisites are more than the main terms.
BlockedKind(v, values, fixed, c) ==
  CASE values = <<>> -> "offering_pattern"
    [] values # <<>> /\ MinCandidateDepth(v, c) > Len(MainTerms(c)) -> "prereq_unsatisfiable"
    [] OTHER -> DominantKind(v, fixed, c)

IsBlocked(v, values, fixed, c) ==
  \/ \A x \in ToSet(values) : ~IncrementalOk(Append(fixed, x), c)
  \/ values # <<>> /\ MinCandidateDepth(v, c) > Len(MainTerms(c))

Blockers(c) ==
  LET fixed == FixedPlacements(c)
  IN {BlockedKind(v, RawValues(v, c), fixed, c) :
        v \in {x \in ToSet(SearchVariables(c)) : IsBlocked(x, RawValues(x, c), fixed, c)}}

\* More credits are required than the main terms have room for.
CapacityExceeded(c) ==
  LET fixed == FixedPlacements(c)
      covered == {p.rId : p \in ToSet(fixed)}
      required == Sum([i \in DOMAIN c.reqs |->
                         IF c.reqs[i].rId \in covered THEN 0 ELSE c.reqs[i].credits])
      room == Sum([i \in DOMAIN MainTerms(c) |->
                     Max({0, c.ceiling - TermCredits(fixed, MainTerms(c)[i])})])
  IN required > room

SolveViolations ==
  PinViolations(ctx)
    \cup (IF kept # <<>> THEN {}
          ELSE Blockers(ctx)
                 \cup (IF ~truncated /\ CapacityExceeded(ctx)
                       THEN {"graduation_total"} ELSE {}))

-----------------------------------------------------------------------------
(* The search.                                                             *)

Trail == FixedPlacements(ctx) \o assigned

BeginSearch(g) ==
  /\ goal' = g
  /\ assigned' = <<>> /\ frames' = <<>>
  /\ nodes' = 0 /\ truncated' = FALSE /\ kept' = <<>>

\* The solve of a problem under a graduation term.
BeginSolve(c, g) ==
  /\ ctx' = c
  /\ BeginSearch(g)
  /\ phase' = IF c.terms = <<>> THEN "finalize" ELSE "visit"

Worst ==
  CHOOSE i \in DOMAIN kept : \A j \in DOMAIN kept \ {i} :
    LET a == ScorePlan(kept[i], ctx)  b == ScorePlan(kept[j], ctx)
    IN \/ Less(b, a)
       \/ /\ Same(a, b)
          /\ \/ KeyLess(PlanKey(kept[j], ctx), PlanKey(kept[i], ctx))
             \/ PlanKey(kept[j], ctx) = PlanKey(kept[i], ctx) /\ i < j

Better(p, q) ==
  LET a == ScorePlan(p, ctx)  b == ScorePlan(q, ctx)
  IN \/ Less(a, b)
     \/ Same(a, b) /\ KeyLess(PlanKey(p, ctx), PlanKey(q, ctx))

KeepLeaf(p) ==
  IF goal # "top" \/ Len(kept) < K THEN Append(kept, p)
  ELSE IF Better(p, kept[Worst]) THEN [kept EXCEPT ![Worst] = p] ELSE kept

Accepted(p) ==
  /\ LeafOk(p, ctx)
  /\ goal = "alternative" => ReqSignature(p) \notin {ReqSignature(d) : d \in ToSet(diverse)}

OutOfBudget ==
  /\ phase = "visit" /\ nodes + 1 > budget
  /\ nodes' = nodes + 1 /\ truncated' = TRUE
  /\ phase' = "searched"
  /\ UNCHANGED <<raw, budget, ctx, goal, assigned, frames, kept, diverse, draft, passes,
                 winner, alternatives, built, result>>

VisitLeaf ==
  /\ phase = "visit" /\ nodes + 1 <= budget
  /\ Len(assigned) = Len(SearchVariables(ctx))
  /\ nodes' = nodes + 1
  /\ kept' = IF Accepted(Trail) THEN KeepLeaf(Trail) ELSE kept
  /\ phase' = IF Accepted(Trail) /\ goal # "top" THEN "searched" ELSE "next"
  /\ UNCHANGED <<raw, budget, ctx, goal, assigned, frames, truncated, diverse, draft, passes,
                 winner, alternatives, built, result>>

VisitVariable ==
  /\ phase = "visit" /\ nodes + 1 <= budget
  /\ Len(assigned) < Len(SearchVariables(ctx))
  /\ nodes' = nodes + 1
  /\ frames' = Append(frames,
       CandidateValues(SearchVariables(ctx)[Len(assigned) + 1], Trail, ctx, goal # "top"))
  /\ phase' = "next"
  /\ UNCHANGED <<raw, budget, ctx, goal, assigned, truncated, kept, diverse, draft, passes,
                 winner, alternatives, built, result>>

\* The next value of the deepest variable that has one left.
NextValue ==
  LET open == {i \in DOMAIN frames : frames[i] # <<>>}
  IN /\ phase = "next"
     /\ IF open = {} THEN /\ phase' = "searched"
                          /\ UNCHANGED <<assigned, frames>>
        ELSE LET i == Max(open)
             IN /\ assigned' = Append(SubSeq(assigned, 1, i - 1), Head(frames[i]))
                /\ frames' = Append(SubSeq(frames, 1, i - 1), Tail(frames[i]))
                /\ phase' = "visit"
     /\ UNCHANGED <<raw, budget, ctx, goal, nodes, truncated, kept, diverse, draft, passes,
                    winner, alternatives, built, result>>

-----------------------------------------------------------------------------
(* After a search.                                                         *)

\* A winner is improved; with none, the fixed placements are the plan.
EndWinnerSearch ==
  /\ phase = "searched" /\ goal = "winner"
  /\ draft' = IF kept = <<>> THEN FixedPlacements(ctx) ELSE kept[1]
  /\ winner' = draft'
  /\ diverse' = kept
  /\ alternatives' = <<>> /\ passes' = 0
  /\ phase' = IF kept = <<>> THEN "finalize" ELSE "improve"
  /\ UNCHANGED <<jobVars, searchVars, goal, built, result>>

\* Diverse plans are searched for until one search fails or enough are
\* found; then each is improved (the first of them is the winner's own leaf).
EndAlternativeSearch ==
  /\ phase = "searched" /\ goal = "alternative"
  /\ diverse' = diverse \o kept
  /\ IF kept # <<>> /\ Len(diverse') < MaxAlternatives
     THEN BeginSearch("alternative") /\ phase' = "visit" /\ UNCHANGED <<draft, passes>>
     ELSE /\ phase' = IF Len(diverse') > 1 THEN "improve" ELSE "finalize"
          /\ draft' = IF Len(diverse') > 1 THEN diverse'[2] ELSE winner
          /\ passes' = 0
          /\ UNCHANGED <<goal, searchVars>>
  /\ UNCHANGED <<jobVars, winner, alternatives, built, result>>

EndTopSearch ==
  /\ phase = "searched" /\ goal = "top"
  /\ phase' = "done"
  /\ UNCHANGED <<jobVars, searchVars, goal, diverse, draft, passes, winner, alternatives,
                 built, result>>

-----------------------------------------------------------------------------
(* Local improvement: the best single move of a requirement's placement,   *)
(* to another term or another candidate, while one lowers the score.       *)

SearchLeaf(p, c) == IncrementalOk(p, c) /\ LeafOk(p, c)

Retermed(p, i, c) ==
  {[p EXCEPT ![i].term = t] :
     t \in {u \in ToSet(c.terms) : u # p[i].term /\ OfferedIn(p[i].course, u, c)}}

Swapped(p, i, c) ==
  LET swappable == {x \in ToSet(Req(p[i].rId, c).candidates) :
        /\ x # p[i].course
        /\ x \notin c.excluded /\ x \in DOMAIN c.catalog /\ x \notin c.abroad
        /\ OfferedIn(x, p[i].term, c)}
  IN {[p EXCEPT ![i] = Placement(x, p[i].term, p[i].rId, "requirement", c)] : x \in swappable}

Moves(p, c) ==
  UNION {Retermed(p, i, c) \cup Swapped(p, i, c) :
           i \in {j \in DOMAIN p : p[j].source = "requirement"}}

ImprovingMovesUnchecked(p, c) == {m \in Moves(p, c) : Less(ScorePlan(m, c), ScorePlan(p, c))}

ImprovingMoves(p, c) ==
  {m \in Moves(p, c) : SearchLeaf(m, c) /\ Less(ScorePlan(m, c), ScorePlan(p, c))}

ImprovePass ==
  /\ phase = "improve" /\ passes < MaxPasses
  /\ ImprovingMoves(draft, ctx) # {}
  /\ \E m \in ImprovingMoves(draft, ctx) :
       /\ \A n \in ImprovingMoves(draft, ctx) : ~Better(n, m)
       /\ draft' = m
  /\ passes' = passes + 1
  /\ UNCHANGED <<jobVars, searchVars, goal, phase, diverse, winner, alternatives, built, result>>

\* The improved winner is kept and its alternatives searched for; an improved
\* alternative joins the list.
ImproveDone ==
  /\ phase = "improve"
  /\ passes = MaxPasses \/ ImprovingMoves(draft, ctx) = {}
  /\ passes' = 0
  /\ IF goal = "winner"
     THEN /\ winner' = draft
          /\ alternatives' = <<>>
          /\ IF MaxAlternatives > 1
             THEN BeginSearch("alternative") /\ phase' = "visit" /\ UNCHANGED draft
             ELSE phase' = "finalize" /\ UNCHANGED <<goal, searchVars, draft>>
     ELSE LET n == Len(alternatives) + 1
          IN /\ alternatives' = Append(alternatives, draft)
             /\ phase' = IF Len(diverse) > n + 1 THEN "improve" ELSE "finalize"
             /\ draft' = IF Len(diverse) > n + 1 THEN diverse[n + 2] ELSE winner
             /\ UNCHANGED <<winner, goal, searchVars>>
  /\ UNCHANGED <<jobVars, diverse, built, result>>

-----------------------------------------------------------------------------
(* The schedule and the validator's verdict; the relaxation of the horizon.*)

\* A schedule with the verdict of the validator, whose state is shown.
Judged(p, out, violations, axes, c) ==
  [none |-> FALSE, plan |-> p, grad |-> c.grad, out |-> out, violations |-> violations,
   axes |-> axes, feasible |-> ValidatorFeasible(axes),
   state |-> PlanStateFromValidator(axes, out, c)]

Validated(p, out, violations, c) ==
  Judged(p, out, violations, AxisResults(out, violations, c), c)

WithViolations(p, out, extra, c) == Validated(p, out, out.violations \cup extra, c)

\* The materialised plan with the violations of the solve, validated.
Finalized(p, extra, c) == WithViolations(p, Materialize(p, c), extra, c)

Finalize ==
  /\ phase = "finalize"
  /\ built' = Append(built,
       IF ctx.terms = <<>> THEN Finalized(NoPlan, {}, ctx)
       ELSE Finalized(draft, IF diverse = <<>> THEN SolveViolations ELSE PinViolations(ctx), ctx))
  /\ phase' = "decide"
  /\ UNCHANGED <<jobVars, searchVars, goal, diverse, draft, passes, winner, alternatives, result>>

Latest == built[Len(built)]

MayExtend ==
  /\ ~Latest.feasible /\ raw.target = None
  /\ Len(built) <= MaxExtensions
  /\ NextMainTermOrNull(ctx.grad) # None

\* A derived graduation term moves one main term and everything is built
\* again.
ExtendHorizon ==
  /\ phase = "decide" /\ MayExtend
  /\ BeginSolve(Context(SolverInput(raw, NextMainTermOrNull(ctx.grad))), "winner")
  /\ draft' = <<>> /\ diverse' = <<>> /\ winner' = <<>> /\ alternatives' = <<>> /\ passes' = 0
  /\ UNCHANGED <<raw, budget, built, result>>

\* The last schedule is returned if the validator accepts it, the one of the
\* derived term otherwise.
Return ==
  /\ phase = "decide" /\ ~MayExtend
  /\ result' = IF Latest.feasible THEN Latest ELSE built[1]
  /\ phase' = "done"
  /\ UNCHANGED <<jobVars, searchVars, goal, diverse, draft, passes, winner, alternatives, built>>

PlannerInit ==
  /\ raw \in Problems /\ budget \in Budgets
  /\ goal \in {"winner", "top"}
  /\ ctx = Context(SolverInput(raw, None))
  /\ phase = IF ctx.terms = <<>> THEN "finalize" ELSE "visit"
  /\ assigned = <<>> /\ frames = <<>> /\ nodes = 0 /\ truncated = FALSE /\ kept = <<>>
  /\ diverse = <<>> /\ draft = NoPlan /\ passes = 0 /\ winner = NoPlan /\ alternatives = <<>>
  /\ built = <<>> /\ result = NoResult

PlannerNext ==
  \/ OutOfBudget \/ VisitLeaf \/ VisitVariable \/ NextValue
  \/ EndWinnerSearch \/ EndAlternativeSearch \/ EndTopSearch
  \/ ImprovePass \/ ImproveDone
  \/ Finalize \/ ExtendHorizon \/ Return

PlannerSpec == PlannerInit /\ [][PlannerNext]_plannerVars

-----------------------------------------------------------------------------
\* What the search may end on: the fixed placements, then a value for each
\* variable, in the order the variables are bound.
ValueChoices(c) ==
  LET vars == SearchVariables(c)
      values == UNION {ToSet(RawValues(vars[i], c)) : i \in DOMAIN vars}
  IN {a \in [DOMAIN vars -> values] : \A i \in DOMAIN vars : a[i] \in ToSet(RawValues(vars[i], c))}

LeafPlan(a, c) == FixedPlacements(c) \o a

\* A leaf passes the predicates of complete plans and, as far as the search
\* chose anything, those it prunes by.
Passes(p, c) == LeafOk(p, c) /\ (SearchVariables(c) # <<>> => IncrementalOk(p, c))
ValidLeaves(c) == {a \in ValueChoices(c) : Passes(LeafPlan(a, c), c)}

\* No course is placed in two terms.
WellFormed(p) == \A i, j \in DOMAIN p : p[i].course = p[j].course => p[i].term = p[j].term

KeptAreValid == \A p \in ToSet(kept) : Passes(p, ctx)

NothingIsMissed ==
  (phase = "searched" /\ goal # "top" /\ ~truncated /\ kept = <<>>) =>
    \A a \in ValidLeaves(ctx) : WellFormed(LeafPlan(a, ctx)) =>
      goal = "alternative" /\ ReqSignature(LeafPlan(a, ctx)) \in {ReqSignature(d) : d \in ToSet(diverse)}

BestAreKept ==
  (phase = "done" /\ goal = "top" /\ ctx.terms # <<>>) =>
    /\ Len(kept) <= K /\ IsInjective(kept)
    /\ ~truncated =>
         \A a \in ValidLeaves(ctx) : WellFormed(LeafPlan(a, ctx)) =>
           \/ LeafPlan(a, ctx) \in ToSet(kept)
           \/ Len(kept) = K /\ \A q \in ToSet(kept) : ~Better(LeafPlan(a, ctx), q)

HorizonIsHonest ==
  (phase = "done" /\ goal # "top") =>
    /\ raw.target # None => result.grad = raw.target
    /\ result.grad # built[1].grad => result.feasible
    /\ \A i \in DOMAIN built : built[i].grad < result.grad => ~built[i].feasible

\* The search finds a plan exactly when one exists: what it keeps passes every
\* search predicate, and when it ends within its budget with nothing, no
\* choice of courses and terms that puts no course into two terms passes, but
\* for those already found: pruning a partial plan never loses the only valid
\* one (search.ts:325-492, 677-704). A search that visits every leaf keeps the
\* best K of them, each once (search.ts:773-831). And a graduation term the
\* student gave is the one of the schedule; a derived one moves only for a
\* schedule the validator accepts, and no further than the first such term
\* (build.ts:187-233).
SearchIsHonest == KeptAreValid /\ NothingIsMissed /\ BestAreKept /\ HorizonIsHonest

\* Improving a plan keeps it valid, never makes it worse, and never moves a
\* course in progress or a pin (localImprove.ts:22-30).
ImprovementIsSound ==
  [][(phase = "improve" /\ phase' = "improve" /\ Len(alternatives') = Len(alternatives)) =>
       /\ SearchLeaf(draft', ctx)
       /\ Less(ScorePlan(draft', ctx), ScorePlan(draft, ctx))
       /\ \A i \in DOMAIN draft : draft[i].source # "requirement" => draft'[i] = draft[i]]_plannerVars

\* What constraintModel.ts:9-19 does not say: the constraints count a course
\* in progress that no term of the schedule shows, leave out a requirement
\* without candidates, and know nothing of the target a term is filled up to.
IpsAreShown(c) == \A x \in DOMAIN c.ip : InWindow(c.ip[x], c) \/ InWindow(c.now, c)
OpenAreBindable(c) == \A i \in DOMAIN c.vars : c.vars[i].candidates = <<>> => c.reqs[i].partly
AllAreBindable(c) == \A i \in DOMAIN c.vars : c.vars[i].candidates # <<>>
TargetsAreLegal(c) ==
  \A t \in ToSet(c.terms) : ~IsOptionalTerm(t) /\ ~IsFinalF1(t, c) =>
    /\ ~BelowFloor(EffectiveTermTarget(t, c), c)
    /\ EffectiveTermTarget(t, c) <= c.ceiling

\* The axes the constraints stand for, given a problem.
MirroredAxes(c) ==
  {"poolSlotsResolvable", "totalCreditsMeetMinimum", "thresholdsMet", "assumptionsExplicit",
   "graduationTargetMet"}
    \cup (IF OpenAreBindable(c) THEN {"requirementGroupsSatisfied"} ELSE {})
    \cup (IF AllAreBindable(c) /\ TargetsAreLegal(c) THEN {"visaAxesPass"} ELSE {})

\* A plan that passes every hard constraint passes the axes of the validator
\* they mirror, in the schedule made of it (constraintModel.ts:9-19): slots,
\* placeholders and free electives come on top of what was placed, take no
\* credit away and put no term outside its limits.
ConstraintsMirrorValidator ==
  \A i \in DOMAIN built :
    LET c == Context(SolverInput(raw, built[i].grad))
    IN (IpsAreShown(c) /\ HardConstraints(built[i].plan, c)) =>
         \A a \in MirroredAxes(c) : built[i].axes[a] # "fail"
=============================================================================
