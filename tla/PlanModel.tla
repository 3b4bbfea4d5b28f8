----------------------------- MODULE PlanModel -----------------------------
(***************************************************************************)
(* The planner's hard constraints, its variables and its score.            *)
(*                                                                         *)
(* A plan is a sequence of placements [course, term, credits, tier,        *)
(* weight, rId, source]; rId is "none" when no requirement is bound.  The  *)
(* problem is a record: see SolverInput.  Context adds the planning window *)
(* (terms) and the requirement variables (vars).                           *)
(***************************************************************************)
EXTENDS DegreeRules

\* The position of a course in the catalog's order of names.
Index(course, in) == CHOOSE i \in DOMAIN in.names : in.names[i] = course
ByName(S, in) == Filter(in.names, S)

-----------------------------------------------------------------------------
(* The problem, from the report and the student's preferences.             *)

ProblemFields == {
  "rows", "now", "target", "earned", "minimum", "load", "unmet", "offerings", "summer", "jterm",
  "used", "minGrade", "prereqs", "known", "coreqs", "catalog", "excluded", "abroad", "names",
  "ceiling", "visa", "f1Floor", "partTimeFloor", "residencyMin", "residencyUsed", "majorMin",
  "tierOf", "modifier", "dept", "soft", "style", "broken", "termTarget", "lightTerms",
  "heavyTerms", "irregular", "passFail", "passFailUsed", "pins", "offCatalog"}
RequirementFields == {"rId", "credits", "candidates", "ranged", "range", "poolId", "partly"}

BrokenKinds == {"pass_fail_cap", "online_credit_cap", "outside_home_credit_cap", "gpa_floor"}

\* Lists are lists, no course carries negative credits, no requirement,
\* candidate or catalog name is listed twice, the placeholder of a pool is no
\* course, and terms and credits are numbers.
IsProblem(r) ==
  /\ DOMAIN r = ProblemFields
  /\ IsList(r.unmet) /\ IsList(r.names) /\ IsList(r.pins) /\ IsInjective(r.names)
  /\ \A q \in ToSet(r.unmet) :
       /\ DOMAIN q = RequirementFields
       /\ q.credits \in Nat /\ IsList(q.candidates) /\ IsInjective(q.candidates)
       /\ q.ranged => q.poolId # "none"
       /\ q.poolId \notin ToSet(r.names) \cup DOMAIN r.catalog \cup {p.course : p \in ToSet(r.pins)}
  /\ \A i, j \in DOMAIN r.unmet : r.unmet[i].rId = r.unmet[j].rId => i = j
  /\ \A c \in DOMAIN r.catalog : r.catalog[c] \in Nat
  /\ \A c \in DOMAIN r.offCatalog : r.offCatalog[c] \in Nat
  /\ \A row \in r.rows : row.term \in Int
  /\ r.now \in Int /\ r.target \in Int
  /\ r.earned \in Nat /\ r.minimum \in Nat /\ r.load \in Nat \ {0} /\ r.ceiling \in Nat
  /\ r.f1Floor \in Int /\ r.partTimeFloor \in Int
  /\ r.residencyMin \in Int /\ r.residencyUsed \in Int /\ r.majorMin \in Int
  /\ \A t \in DOMAIN r.termTarget : r.termTarget[t] \in Int
  /\ r.broken \subseteq BrokenKinds

\* A row in progress of a term already over counts as taken; one without a
\* readable term is in progress now.
PastInProgress(raw) ==
  {r \in raw.rows : r.type = "IP" /\ r.term # None /\ r.term < raw.now}

TakenCourses(raw) ==
  {r.course : r \in PastInProgress(raw)
     \cup {q \in raw.rows : q.type # "IP" /\ MeetsGradeThreshold(q.grade, D)}}

CurrentTermOf(row, raw) == IF row.term = None THEN raw.now ELSE row.term
CoursesInProgress(raw) ==
  LET current == {r \in raw.rows : r.type = "IP"} \ PastInProgress(raw)
  IN [c \in {r.course : r \in current} |->
        CurrentTermOf(CHOOSE r \in current : r.course = c, raw)]

\* The probe's term, the student's, or the one the credits ask for.
GraduationTerm(raw, override) ==
  IF override # None THEN override
  ELSE IF raw.target # None THEN raw.target
  ELSE DeriveGraduationTerm(raw.now, raw.earned, raw.minimum, raw.load)

UnmetRequirements(raw, accounted) ==
  [i \in DOMAIN raw.unmet |->
     [raw.unmet[i] EXCEPT !.candidates = Filter(@, ToSet(@) \ accounted)]]

\* A course in progress is where it is, whatever its offering season.
Offerings(raw) ==
  Restrict(raw.offerings, DOMAIN raw.offerings
             \ (DOMAIN CoursesInProgress(raw) \cup {r.course : r \in PastInProgress(raw)}))

SolverInput(raw, override) ==
  Spread(raw,
    [taken |-> TakenCourses(raw), ip |-> CoursesInProgress(raw), grad |-> GraduationTerm(raw, override),
     reqs |-> UnmetRequirements(raw, TakenCourses(raw) \cup DOMAIN CoursesInProgress(raw)),
     offered |-> Offerings(raw)])

OfferedIn(course, term, in) ==
  \/ course \notin DOMAIN in.offered
  \/ in.offered[course] = {}
  \/ Season(term) \in in.offered[course]

-----------------------------------------------------------------------------
(* Variables: one per unmet requirement.  A requirement stated as a range  *)
(* of course numbers is a pool, placed as one placeholder, unless a member *)
(* is a prerequisite of some other course.                                 *)

PoolMembers(req, in) ==
  IF ~req.ranged THEN {}
  ELSE ((req.range \cup (ToSet(req.candidates) \cap DOMAIN in.catalog))
          \ in.excluded) \ (in.abroad \cup in.taken \cup DOMAIN in.ip)

AnyMemberIsChainLinked(members, in) ==
  \E c \in DOMAIN in.prereqs : \E i \in DOMAIN in.prereqs[c] :
    /\ in.prereqs[c][i].type # "NOT"
    /\ (in.prereqs[c][i].courses \ {c}) \cap members # {}

PoolTermLegal(members, term, in) ==
  LET placements == Spread(in.ip, [c \in in.taken |-> 0])
  IN \E m \in members :
       /\ OfferedIn(m, term, in)
       /\ LET r == CheckAllPrereqs(m, term, in, placements)
          IN r.satisfied \/ r.petition

Variable(req, in) ==
  LET members == PoolMembers(req, in)
      pool == members # {} /\ ~AnyMemberIsChainLinked(members, in)
  IN [rId |-> req.rId, credits |-> req.credits, pool |-> pool, poolId |-> req.poolId,
      candidates |-> IF members # {} THEN ByName(members, in)
                     ELSE Filter(req.candidates, DOMAIN in.catalog \ (in.excluded \cup in.abroad))]

Context(in) ==
  Spread(in, [terms |-> EnumerateTerms(in.now, in.grad, in.summer, in.jterm),
              vars |-> [i \in DOMAIN in.reqs |-> Variable(in.reqs[i], in)]])

Placement(course, term, rId, source, in) ==
  [course |-> course, term |-> term,
   credits |-> IF course \in DOMAIN in.catalog THEN in.catalog[course] ELSE 0,
   tier |-> Tier(rId, in), weight |-> WorkloadWeight(course, rId, in),
   rId |-> rId, source |-> source]

\* The values of a variable: a term for a pool, a course and a term otherwise.
RawValues(v, ctx) ==
  IF v.pool
  THEN LET legal == Filter(ctx.terms,
                      {t \in ToSet(ctx.terms) : PoolTermLegal(ToSet(v.candidates), t, ctx)})
       IN [i \in DOMAIN legal |->
             [Placement(v.candidates[1], legal[i], v.rId, "requirement", ctx)
                EXCEPT !.course = v.poolId, !.credits = v.credits]]
  ELSE FlattenSeq([i \in DOMAIN v.candidates |->
         LET c == v.candidates[i]
             legal == Filter(ctx.terms, {t \in ToSet(ctx.terms) : OfferedIn(c, t, ctx)})
         IN [j \in DOMAIN legal |-> Placement(c, legal[j], v.rId, "requirement", ctx)]])

-----------------------------------------------------------------------------
(* Hard constraints.                                                       *)

Courses(plan) == {plan[i].course : i \in DOMAIN plan}

\* Where each course is planned; a course placed twice is where it is last.
PlannedPlacements(plan) ==
  [c \in Courses(plan) |->
     plan[Max({i \in DOMAIN plan : plan[i].course = c})].term]

CreditsWhere(plan, Test(_)) ==
  Sum([i \in DOMAIN plan |-> IF Test(plan[i]) THEN plan[i].credits ELSE 0])
TermCredits(plan, t) == CreditsWhere(plan, LAMBDA p : p.term = t)

OfferingSeasonMatch(plan, ctx) ==
  \A i \in DOMAIN plan : OfferedIn(plan[i].course, plan[i].term, ctx)

PrereqsSatisfied(plan, ctx) ==
  \A i \in DOMAIN plan : plan[i].source # "ip" =>
    LET r == CheckAllPrereqs(plan[i].course, plan[i].term, ctx, PlannedPlacements(plan))
    IN r.satisfied \/ r.petition

NotClauseClear(plan, ctx) ==
  \A c \in Courses(plan) : ~IsExcludedByNotClause(c, ctx, Courses(plan) \ {c})

CoreqsSameTerm(plan, ctx) ==
  \A i \in DOMAIN plan : plan[i].course \in DOMAIN ctx.coreqs =>
    \A c \in (ctx.coreqs[plan[i].course] \cap Courses(plan)) \ (ctx.taken \cup DOMAIN ctx.ip) :
      PlannedPlacements(plan)[c] = plan[i].term

PerTermCeiling(plan, ctx) ==
  \A i \in DOMAIN plan : TermCredits(plan, plan[i].term) <= ctx.ceiling

PerTermFloor(plan, ctx) ==
  \A i \in DOMAIN ctx.terms :
    LET credits == TermCredits(plan, ctx.terms[i])
    IN (~IsOptionalTerm(ctx.terms[i]) /\ credits > 0) =>
         /\ FullTimeSatisfied(credits, ctx.visa, ctx.f1Floor)
         /\ CreditMinimumSatisfied(credits, ctx.f1Floor, ctx.partTimeFloor)

Binds(p) == p.source \in {"requirement", "pin"}
CoveredRIds(plan) ==
  {plan[i].rId : i \in {j \in DOMAIN plan : Binds(plan[j])}} \ {"none"}

RequirementCoverage(plan, ctx) ==
  \A i \in DOMAIN ctx.vars :
    ctx.vars[i].candidates # <<>> => ctx.vars[i].rId \in CoveredRIds(plan)

CreditMinimum(plan, ctx) ==
  ctx.earned + CreditsWhere(plan, LAMBDA p : TRUE) >= ctx.minimum

\* The index of the first term in which the credits reach the minimum.
ReachedBy(creditsOf(_), ctx) ==
  LET upTo(i) == ctx.earned + Sum([j \in 1..i |-> creditsOf(ctx.terms[j])])
      reached == {i \in DOMAIN ctx.terms : upTo(i) >= ctx.minimum}
  IN IF reached = {} THEN None ELSE Min(reached)

GraduationTarget(plan, ctx) ==
  LET at == ReachedBy(LAMBDA t : TermCredits(plan, t), ctx)
  IN at # None /\ ctx.terms[at] <= ctx.grad

ResidencyFloor(plan, ctx) ==
  ctx.residencyMin # None =>
    ctx.residencyUsed + CreditsWhere(plan, LAMBDA p : p.source # "free") >= ctx.residencyMin

IsMajorTier(tier) == tier \in {"major-required", "major-elective"}
MajorCreditFloor(plan, ctx) ==
  ctx.majorMin # None =>
    CreditsWhere(plan, LAMBDA p : Binds(p) /\ IsMajorTier(p.tier)) >= ctx.majorMin

GpaFloors(ctx) == "gpa_floor" \notin ctx.broken

HardConstraints(plan, ctx) ==
  /\ OfferingSeasonMatch(plan, ctx)
  /\ PrereqsSatisfied(plan, ctx)
  /\ NotClauseClear(plan, ctx)
  /\ CoreqsSameTerm(plan, ctx)
  /\ PerTermCeiling(plan, ctx)
  /\ PerTermFloor(plan, ctx)
  /\ RequirementCoverage(plan, ctx)
  /\ CreditMinimum(plan, ctx)
  /\ GraduationTarget(plan, ctx)
  /\ ResidencyFloor(plan, ctx)
  /\ MajorCreditFloor(plan, ctx)
  /\ GpaFloors(ctx)

-----------------------------------------------------------------------------
(* The score: a rational [num, den], lower is better.  The variance of the *)
(* credits per main term, twice that of the hard courses, half the lean of *)
(* the load away from the style asked for, half the index of the term that *)
(* reaches the minimum and a quarter of the cost of the soft objectives.   *)

\* n^2 times the population variance of n numbers.
VarianceN2(s) == Len(s) * Sum([i \in DOMAIN s |-> s[i] * s[i]]) - Sum(s) * Sum(s)

\* Twice the total times the distance of the centre of the load from the
\* middle term, on the side the student does not want.
LoadStyleDeviation2T(credits, style) ==
  LET lean == 2 * Sum([i \in DOMAIN credits |-> credits[i] * (i - 1)])
                - (Len(credits) - 1) * Sum(credits)
  IN CASE style = "frontload" -> Max({0, lean})
       [] style = "backload" -> Max({0, -lean})
       [] OTHER -> 0

SoftObjectiveCost(plan, ctx) ==
  LET placed == Courses(plan) \cap DOMAIN ctx.dept
      depts == Cardinality({ctx.dept[c] : c \in placed})
      count == Cardinality({i \in DOMAIN plan : plan[i].course \in placed})
  IN CASE ctx.soft = "none" -> 0
       [] ctx.soft # "none" /\ count = 0 -> 0
       [] ctx.soft = "concentrated" /\ count > 0 -> depts - 1
       [] OTHER -> count - depts

BalanceScore(credits, hard, style) ==
  LET n == Max({1, Len(credits)})
      deviation == LoadStyleDeviation2T(credits, style)
      total == IF deviation = 0 THEN 1 ELSE Max({1, Sum(credits)})
  IN [num |-> 4 * total * (VarianceN2(credits) + 2 * VarianceN2(hard)) + n * n * deviation,
      den |-> 4 * n * n * total]

MainTerms(ctx) == Filter(ctx.terms, {t \in ToSet(ctx.terms) : ~IsOptionalTerm(t)})

ScorePlan(plan, ctx) ==
  LET main == MainTerms(ctx)
      balance == BalanceScore(
        [i \in DOMAIN main |-> TermCredits(plan, main[i])],
        [i \in DOMAIN main |-> Cardinality({j \in DOMAIN plan :
            plan[j].term = main[i] /\ plan[j].weight >= 100})], ctx.style)
      reached == ReachedBy(LAMBDA t : TermCredits(plan, t), ctx)
      index == IF reached = None THEN Len(ctx.terms) ELSE reached - 1
  IN [num |-> 4 * balance.num
                + balance.den * (2 * index + SoftObjectiveCost(plan, ctx)),
      den |-> 4 * balance.den]

Less(a, b) == a.num * b.den < b.num * a.den
Same(a, b) == a.num * b.den = b.num * a.den

\* The key that orders plans of equal score: the sorted list of course@term.
PlanKey(plan, ctx) ==
  LET alphabetical == <<2, 3, 0, 1>>    \* fall, january, spring, summer
      entry(p) == 10000 * (IF p.course \in ToSet(ctx.names) THEN Index(p.course, ctx) ELSE 99)
                    + 10 * (p.term \div 4) + alphabetical[Season(p.term) + 1]
  IN StableSort([i \in DOMAIN plan |-> entry(plan[i])], {p \in Int \X Int : p[1] < p[2]})

KeyLess(a, b) ==
  \/ \E i \in DOMAIN a \cap DOMAIN b :
       /\ a[i] < b[i]
       /\ \A j \in 1..(i - 1) : a[j] = b[j]
  \/ Len(a) < Len(b) /\ \A i \in DOMAIN a : a[i] = b[i]
=============================================================================
