---------------------------- MODULE PlannerProofs ----------------------------
(***************************************************************************)
(* That the planner's search loses no plan by pruning and keeps the best,  *)
(* that its horizon is honest and its improvements sound, and that the     *)
(* schedule made of a plan passes what the plan passed, for every problem  *)
(* of its input type.                                                      *)
(***************************************************************************)
EXTENDS ForwardPlanner, ListProofs

-----------------------------------------------------------------------------
(* The context of a solve.                                                 *)

\* What Context makes of a problem.
IsContext(c) ==
  /\ IsList(c.terms) /\ ToSet(c.terms) \subseteq Int /\ IsInjective(c.terms)
  /\ IsList(c.names) /\ IsList(c.pins)
  /\ \A x \in DOMAIN c.catalog : c.catalog[x] \in Nat
  /\ \A x \in DOMAIN c.offCatalog : c.offCatalog[x] \in Nat
  /\ \A x \in DOMAIN c.ip : c.ip[x] \in Int
  /\ c.now \in Int /\ c.ceiling \in Int /\ c.earned \in Nat /\ c.minimum \in Nat
  /\ c.grad \in Int
  /\ IsList(c.vars)
  /\ \A v \in ToSet(c.vars) : /\ v.credits \in Nat
                              /\ IsList(v.candidates) /\ IsInjective(v.candidates)

LEMMA MergedFields ==
    ASSUME NEW f, NEW g
    PROVE  /\ DOMAIN Spread(f, g) = DOMAIN f \cup DOMAIN g
           /\ \A x \in DOMAIN f : Spread(f, g)[x] = f[x]
           /\ \A x \in DOMAIN g \ DOMAIN f : Spread(f, g)[x] = g[x]
  BY DEF Spread

LEMMA InputFields ==
    ASSUME NEW r, IsProblem(r), NEW g
    PROVE  LET in == SolverInput(r, g) IN
             /\ DOMAIN in = ProblemFields \cup {"taken", "ip", "grad", "reqs", "offered"}
             /\ \A f \in ProblemFields : in[f] = r[f]
             /\ in.ip = CoursesInProgress(r) /\ in.grad = GraduationTerm(r, g)
             /\ in.reqs = UnmetRequirements(r, TakenCourses(r) \cup DOMAIN CoursesInProgress(r))
  <1> DEFINE e == [taken |-> TakenCourses(r), ip |-> CoursesInProgress(r), grad |-> GraduationTerm(r, g),
                   reqs |-> UnmetRequirements(r, TakenCourses(r) \cup DOMAIN CoursesInProgress(r)),
                   offered |-> Offerings(r)]
  <1>1. /\ DOMAIN e = {"taken", "ip", "grad", "reqs", "offered"}
        /\ e["ip"] = CoursesInProgress(r) /\ e["grad"] = GraduationTerm(r, g)
        /\ e["reqs"] = UnmetRequirements(r, TakenCourses(r) \cup DOMAIN CoursesInProgress(r))
    OBVIOUS
  <1>2. SolverInput(r, g) = Spread(r, e)
    BY DEF SolverInput
  <1>3. DOMAIN r = ProblemFields
    BY DEF IsProblem
  <1>4. "ip" \notin ProblemFields /\ "grad" \notin ProblemFields /\ "reqs" \notin ProblemFields
    BY DEF ProblemFields
  <1> HIDE DEF e
  <1>5. PICK in : in = Spread(r, e)
    OBVIOUS
  <1>6. /\ DOMAIN in = DOMAIN r \cup DOMAIN e
        /\ \A x \in DOMAIN r : in[x] = r[x]
        /\ \A x \in DOMAIN e \ DOMAIN r : in[x] = e[x]
    BY <1>5, MergedFields
  <1>7. in["ip"] = e["ip"] /\ in["grad"] = e["grad"] /\ in["reqs"] = e["reqs"]
    BY <1>1, <1>3, <1>4, <1>6
  <1> QED
    BY <1>1, <1>2, <1>3, <1>5, <1>6, <1>7

LEMMA ContextFields ==
    ASSUME NEW r, IsProblem(r), NEW g
    PROVE  LET in == SolverInput(r, g)
               c == Context(in) IN
             /\ \A f \in ProblemFields : c[f] = r[f]
             /\ c.ip = CoursesInProgress(r) /\ c.grad = GraduationTerm(r, g)
             /\ c.terms = EnumerateTerms(r.now, GraduationTerm(r, g), r.summer, r.jterm)
             /\ c.vars = [i \in DOMAIN in.reqs |-> Variable(in.reqs[i], in)]
             /\ \A f \in DOMAIN in : c[f] = in[f]
  <1> DEFINE in == SolverInput(r, g)
  <1>1. /\ DOMAIN in = ProblemFields \cup {"taken", "ip", "grad", "reqs", "offered"}
        /\ \A f \in ProblemFields : in[f] = r[f]
        /\ in.ip = CoursesInProgress(r) /\ in.grad = GraduationTerm(r, g)
    BY InputFields
  <1> HIDE DEF in
  <1>2. /\ \A f \in ProblemFields : f \in DOMAIN in
        /\ "ip" \in DOMAIN in /\ "grad" \in DOMAIN in
        /\ "terms" \notin DOMAIN in /\ "vars" \notin DOMAIN in
    BY <1>1 DEF ProblemFields
  <1>3. /\ \A f \in DOMAIN in : Context(in)[f] = in[f]
        /\ Context(in).terms = EnumerateTerms(in.now, in.grad, in.summer, in.jterm)
        /\ Context(in).vars = [i \in DOMAIN in.reqs |-> Variable(in.reqs[i], in)]
    <2> DEFINE e == [terms |-> EnumerateTerms(in.now, in.grad, in.summer, in.jterm),
                     vars |-> [i \in DOMAIN in.reqs |-> Variable(in.reqs[i], in)]]
    <2>1. /\ DOMAIN e = {"terms", "vars"}
          /\ e["terms"] = EnumerateTerms(in.now, in.grad, in.summer, in.jterm)
          /\ e["vars"] = [i \in DOMAIN in.reqs |-> Variable(in.reqs[i], in)]
      OBVIOUS
    <2>2. Context(in) = Spread(in, e)
      BY DEF Context
    <2> HIDE DEF e
    <2> DEFINE c == Spread(in, e)
    <2>4. /\ \A x \in DOMAIN in : c[x] = in[x]
          /\ \A x \in DOMAIN e \ DOMAIN in : c[x] = e[x]
      BY MergedFields, Zenon
    <2>3. c = Spread(in, e)
      OBVIOUS
    <2> HIDE DEF c
    <2>5. c["terms"] = e["terms"] /\ c["vars"] = e["vars"]
      BY <1>2, <2>1, <2>4
    <2> QED
      BY <2>1, <2>2, <2>3, <2>4, <2>5
  <1>4. in.now = r.now /\ in.summer = r.summer /\ in.jterm = r.jterm
    BY <1>1 DEF ProblemFields
  <1>5. Context(in).ip = in.ip /\ Context(in).grad = in.grad /\ \A f \in ProblemFields : Context(in)[f] = r[f]
    BY <1>1, <1>2, <1>3
  <1> QED
    BY <1>1, <1>3, <1>4, <1>5 DEF in

LEMMA MaxOfTwo ==
    ASSUME NEW a \in Int, NEW b \in Int
    PROVE  Max({a, b}) \in {a, b} /\ Max({a, b}) >= a /\ Max({a, b}) >= b
  <1>1. \E x \in {a, b} : \A y \in {a, b} : x >= y
    OBVIOUS
  <1> QED
    BY <1>1 DEF Max

LEMMA GradIsInt ==
    ASSUME NEW r, IsProblem(r), NEW g \in Int
    PROVE  GraduationTerm(r, g) \in Int
  <1>1. r.now \in Int /\ r.target \in Int /\ r.earned \in Nat /\ r.minimum \in Nat /\ r.load \in Nat \ {0}
    BY DEF IsProblem
  <1>2. DeriveGraduationTerm(r.now, r.earned, r.minimum, r.load) \in Int
    <2> DEFINE needed == IF r.minimum > r.earned THEN r.minimum - r.earned ELSE 0
               asked == (needed + r.load - 1) \div r.load
               first == CASE Season(r.now) = 1 -> r.now + 1
                          [] Season(r.now) = 3 -> r.now - 3
                          [] OTHER -> r.now + 2
    <2>1. asked \in Int
      BY <1>1
    <2>2. Max({1, asked}) \in Int
      BY <2>1, MaxOfTwo
    <2>3. first \in Int
      BY <1>1
    <2>4. DeriveGraduationTerm(r.now, r.earned, r.minimum, r.load) = first + 2 * (Max({1, asked}) - 1)
      BY DEF DeriveGraduationTerm
    <2> HIDE DEF first, asked
    <2> QED
      BY <2>2, <2>3, <2>4
  <1> QED
    BY <1>1, <1>2 DEF GraduationTerm

LEMMA TermsAreOk ==
    ASSUME NEW start \in Int, NEW end \in Int, NEW summer, NEW jterm
    PROVE  LET terms == EnumerateTerms(start, end, summer, jterm)
           IN IsList(terms) /\ ToSet(terms) \subseteq Int /\ IsInjective(terms)
  <1> DEFINE n == IF end < start THEN 0 ELSE end - start + 1
             all == [i \in 1..n |-> start + i - 1]
             wanted == {t \in start..end : /\ Season(t) = 1 => summer
                                           /\ Season(t) = 3 => jterm}
  <1>1. n \in Nat
    OBVIOUS
  <1> HIDE DEF n
  <1>2. all \in [1..n -> Int]
    BY <1>1
  <1>3. IsInjective(all)
    BY <1>1 DEF IsInjective
  <1>4. EnumerateTerms(start, end, summer, jterm) = Filter(all, wanted)
    BY DEF EnumerateTerms, n
  <1> HIDE DEF all, wanted
  <1>5. IsList(all) /\ ToSet(all) \subseteq Int
    BY <1>1, <1>2, FunctionsAreLists
  <1> QED
    BY <1>3, <1>4, <1>5, FilterKeeps

LEMMA InProgressTerms ==
    ASSUME NEW r, IsProblem(r)
    PROVE  \A x \in DOMAIN CoursesInProgress(r) : CoursesInProgress(r)[x] \in Int
  <1> DEFINE current == {q \in r.rows : q.type = "IP"} \ PastInProgress(r)
  <1>1. \A row \in current : CurrentTermOf(row, r) \in Int
    BY DEF IsProblem, CurrentTermOf
  <1> DEFINE courses == {q.course : q \in current}
             T(x) == CurrentTermOf(CHOOSE q \in current : q.course = x, r)
  <1>2. CoursesInProgress(r) = [x \in courses |-> T(x)]
    BY DEF CoursesInProgress
  <1> HIDE DEF current
  <1>3. ASSUME NEW x \in courses PROVE T(x) \in Int
    <2>1. (CHOOSE q \in current : q.course = x) \in current
      BY <1>3
    <2> QED
      BY <1>1, <2>1
  <1> HIDE DEF T, courses
  <1> QED
    BY <1>2, <1>3

LEMMA ContextIsOk ==
    ASSUME NEW r, IsProblem(r), NEW g \in Int
    PROVE  IsContext(Context(SolverInput(r, g)))
  <1> DEFINE in == SolverInput(r, g)
             c == Context(in)
  <1>1. /\ \A f \in ProblemFields : c[f] = r[f]
        /\ c.ip = CoursesInProgress(r) /\ c.grad = GraduationTerm(r, g)
        /\ c.terms = EnumerateTerms(r.now, GraduationTerm(r, g), r.summer, r.jterm)
        /\ c.vars = [i \in DOMAIN in.reqs |-> Variable(in.reqs[i], in)]
    BY ContextFields
  <1>2. /\ in.reqs = UnmetRequirements(r, TakenCourses(r) \cup DOMAIN CoursesInProgress(r))
        /\ in.names = r.names
    <2>1. "names" \in ProblemFields
      BY DEF ProblemFields
    <2> QED
      BY <2>1, InputFields
  <1> HIDE DEF in
  <1>3. /\ c.names = r.names /\ c.pins = r.pins /\ c.catalog = r.catalog /\ c.offCatalog = r.offCatalog
        /\ c.now = r.now /\ c.ceiling = r.ceiling /\ c.earned = r.earned /\ c.minimum = r.minimum
    BY <1>1 DEF ProblemFields
  <1> HIDE DEF c
  <1>4. r.now \in Int /\ GraduationTerm(r, g) \in Int
    BY GradIsInt DEF IsProblem
  <1>5. IsList(c.terms) /\ ToSet(c.terms) \subseteq Int /\ IsInjective(c.terms)
    BY <1>1, <1>4, TermsAreOk
  <1>6. \A x \in DOMAIN c.ip : c.ip[x] \in Int
    BY <1>1, InProgressTerms
  <1> DEFINE n == Len(r.unmet)
  <1>7. n \in Nat /\ DOMAIN r.unmet = 1..n /\ \A i \in 1..n : r.unmet[i] \in ToSet(r.unmet)
    BY ListProperties DEF IsProblem
  <1> HIDE DEF n
  <1>8. ASSUME NEW i \in 1..n
        PROVE  /\ in.reqs[i].credits \in Nat
               /\ IsList(in.reqs[i].candidates) /\ IsInjective(in.reqs[i].candidates)
    <2> DEFINE q == r.unmet[i]
               accounted == TakenCourses(r) \cup DOMAIN CoursesInProgress(r)
    <2>1. /\ DOMAIN q = RequirementFields
          /\ q.credits \in Nat /\ IsList(q.candidates) /\ IsInjective(q.candidates)
      BY <1>7 DEF IsProblem
    <2>2. in.reqs[i] = [q EXCEPT !.candidates = Filter(q.candidates, ToSet(q.candidates) \ accounted)]
      BY <1>2, <1>7 DEF UnmetRequirements
    <2> HIDE DEF q, accounted
    <2>3. "candidates" \in DOMAIN q /\ "credits" \in DOMAIN q
      BY <2>1 DEF RequirementFields
    <2>4. /\ in.reqs[i].credits = q.credits
          /\ in.reqs[i].candidates = Filter(q.candidates, ToSet(q.candidates) \ accounted)
      BY <2>2, <2>3
    <2> QED
      BY <2>1, <2>4, FilterKeeps
  <1>9. DOMAIN in.reqs = 1..n
    BY <1>2, <1>7 DEF UnmetRequirements
  <1>10. ASSUME NEW i \in 1..n
         PROVE  /\ c.vars[i].credits \in Nat
                /\ IsList(c.vars[i].candidates) /\ IsInjective(c.vars[i].candidates)
    <2> DEFINE q == in.reqs[i]
               members == PoolMembers(q, in)
    <2>1. c.vars[i] = Variable(q, in)
      BY <1>1, <1>9
    <2>2. /\ Variable(q, in).credits = q.credits
          /\ Variable(q, in).candidates =
               IF members # {} THEN Filter(in.names, members)
               ELSE Filter(q.candidates, DOMAIN in.catalog \ (in.excluded \cup in.abroad))
      BY DEF Variable, ByName
    <2>3. IsList(in.names) /\ IsInjective(in.names)
      BY <1>2 DEF IsProblem
    <2>4. q.credits \in Nat /\ IsList(q.candidates) /\ IsInjective(q.candidates)
      BY <1>8
    <2> HIDE DEF q, members
    <2> QED
      BY <2>1, <2>2, <2>3, <2>4, FilterKeeps
  <1>11. IsList(c.vars) /\ \A v \in ToSet(c.vars) : \E i \in 1..n : v = c.vars[i]
    <2>1. c.vars \in [1..n -> {c.vars[i] : i \in 1..n}]
      BY <1>1, <1>9
    <2>2. IsList(c.vars) /\ Len(c.vars) = n
      BY <1>7, <2>1, FunctionsAreLists
    <2> QED
      BY <2>2, ListProperties
  <1>12. \A v \in ToSet(c.vars) : v.credits \in Nat /\ IsList(v.candidates) /\ IsInjective(v.candidates)
    BY <1>10, <1>11
  <1>13. IsContext(c)
    BY <1>1, <1>3, <1>4, <1>5, <1>6, <1>11, <1>12 DEF IsContext, IsProblem
  <1> QED
    BY <1>13 DEF c, in

-----------------------------------------------------------------------------
(* Placements, the values of a variable and the variables of a search.     *)

IsPlacement(x) == x.credits \in Nat /\ x.term \in Int
IsPlan(p) == IsList(p) /\ \A x \in ToSet(p) : IsPlacement(x)

LEMMA PlacementFields ==
    ASSUME NEW c, IsContext(c), NEW x, NEW t \in Int, NEW rId, NEW source
    PROVE  LET p == Placement(x, t, rId, source, c)
           IN /\ IsPlacement(p) /\ p.course = x /\ p.term = t /\ p.source = source /\ p.rId = rId
              /\ DOMAIN p = {"course", "term", "credits", "tier", "weight", "rId", "source"}
  BY DEF Placement, IsContext, IsPlacement

LEMMA PlacementCredits ==
    ASSUME NEW c, NEW x, NEW t, NEW rId, NEW source
    PROVE  Placement(x, t, rId, source, c).credits = IF x \in DOMAIN c.catalog THEN c.catalog[x] ELSE 0
  BY DEF Placement

LEMMA LegalTerms ==
    ASSUME NEW c, IsContext(c), NEW S
    PROVE  LET legal == Filter(c.terms, S)
           IN /\ IsList(legal) /\ IsInjective(legal)
              /\ \E n \in Nat : legal \in [1..n -> Int] /\ n = Len(legal)
  <1> DEFINE legal == Filter(c.terms, S)
  <1>1. IsList(legal) /\ IsInjective(legal) /\ ToSet(legal) \subseteq Int
    BY FilterKeeps DEF IsContext
  <1> HIDE DEF legal
  <1>2. legal \in Seq(ToSet(legal)) /\ Len(legal) \in Nat /\ DOMAIN legal = 1..Len(legal)
        /\ \A i \in 1..Len(legal) : legal[i] \in Int
    BY <1>1, ListProperties DEF IsList
  <1>3. legal \in [1..Len(legal) -> Int]
    BY <1>2
  <1> QED
    BY <1>1, <1>2, <1>3 DEF legal

\* What RawValues returns for a course and for a pool.
CourseValues(x, rId, S, c) ==
  LET legal == Filter(c.terms, S)
  IN [j \in DOMAIN legal |-> Placement(x, legal[j], rId, "requirement", c)]
PoolValues(x, rId, S, pool, credits, c) ==
  LET legal == Filter(c.terms, S)
  IN [i \in DOMAIN legal |-> [Placement(x, legal[i], rId, "requirement", c)
                               EXCEPT !.course = pool, !.credits = credits]]

LEMMA ValuesOfACourse ==
    ASSUME NEW c, IsContext(c), NEW x, NEW rId, NEW S
    PROVE  LET values == CourseValues(x, rId, S, c)
           IN /\ IsPlan(values) /\ IsInjective(values)
              /\ \A p \in ToSet(values) : p.course = x
  <1> DEFINE legal == Filter(c.terms, S)
             values == [j \in DOMAIN legal |-> Placement(x, legal[j], rId, "requirement", c)]
  <1>1. IsInjective(legal)
    BY LegalTerms
  <1>2. PICK n \in Nat : legal \in [1..n -> Int]
    BY LegalTerms
  <1> HIDE DEF legal
  <1>3. ASSUME NEW j \in 1..n
        PROVE  IsPlacement(values[j]) /\ values[j].course = x /\ values[j].term = legal[j]
    <2>1. legal[j] \in Int /\ j \in DOMAIN legal
      BY <1>2
    <2>2. values[j] = Placement(x, legal[j], rId, "requirement", c)
      BY <2>1
    <2> QED
      BY <2>1, <2>2, PlacementFields
  <1>4. values \in [1..n -> {values[j] : j \in 1..n}] /\ DOMAIN values = 1..n
    BY <1>2
  <1> HIDE DEF values
  <1>5. IsList(values) /\ ToSet(values) \subseteq {values[j] : j \in 1..n}
    BY <1>4, FunctionsAreLists
  <1>6. IsInjective(values)
    <2>1. \A i, j \in 1..n : values[i] = values[j] => legal[i] = legal[j]
      BY <1>3
    <2> QED
      BY <1>1, <1>2, <1>4, <2>1 DEF IsInjective
  <1> QED
    BY <1>3, <1>5, <1>6 DEF values, legal, IsPlan, CourseValues

LEMMA ValuesOfAPool ==
    ASSUME NEW c, IsContext(c), NEW x, NEW rId, NEW S, NEW pool, NEW credits \in Nat
    PROVE  LET values == PoolValues(x, rId, S, pool, credits, c)
           IN IsPlan(values) /\ IsInjective(values)
  <1> DEFINE legal == Filter(c.terms, S)
             values == [i \in DOMAIN legal |-> [Placement(x, legal[i], rId, "requirement", c)
                          EXCEPT !.course = pool, !.credits = credits]]
  <1>1. IsInjective(legal)
    BY LegalTerms
  <1>2. PICK n \in Nat : legal \in [1..n -> Int]
    BY LegalTerms
  <1> HIDE DEF legal
  <1>3. ASSUME NEW j \in 1..n
        PROVE  IsPlacement(values[j]) /\ values[j].term = legal[j]
    <2>1. legal[j] \in Int /\ j \in DOMAIN legal
      BY <1>2
    <2> DEFINE p == Placement(x, legal[j], rId, "requirement", c)
    <2>2. values[j] = [p EXCEPT !.course = pool, !.credits = credits]
      BY <2>1
    <2>3. /\ IsPlacement(p) /\ p.term = legal[j]
          /\ DOMAIN p = {"course", "term", "credits", "tier", "weight", "rId", "source"}
      BY <2>1, PlacementFields
    <2> HIDE DEF p
    <2>4. values[j].term = p.term /\ values[j].credits = credits
      BY <2>2, <2>3
    <2> QED
      BY <2>1, <2>3, <2>4 DEF IsPlacement
  <1>4. values \in [1..n -> {values[j] : j \in 1..n}] /\ DOMAIN values = 1..n
    BY <1>2
  <1> HIDE DEF values
  <1>5. IsList(values) /\ ToSet(values) \subseteq {values[j] : j \in 1..n}
    BY <1>4, FunctionsAreLists
  <1>6. IsInjective(values)
    <2>1. \A i, j \in 1..n : values[i] = values[j] => legal[i] = legal[j]
      BY <1>3
    <2> QED
      BY <1>1, <1>2, <1>4, <2>1 DEF IsInjective
  <1> QED
    BY <1>3, <1>5, <1>6 DEF values, legal, IsPlan, PoolValues

\* The values of a variable are placements, each listed once.
LEMMA RawValuesAreOk ==
    ASSUME NEW c, IsContext(c), NEW v \in ToSet(c.vars)
    PROVE  IsPlan(RawValues(v, c)) /\ IsInjective(RawValues(v, c))
  <1>1. v.credits \in Nat /\ IsList(v.candidates) /\ IsInjective(v.candidates)
    BY DEF IsContext
  <1>2. CASE v.pool
    <2> DEFINE S == {t \in ToSet(c.terms) : PoolTermLegal(ToSet(v.candidates), t, c)}
    <2>1. RawValues(v, c) = PoolValues(v.candidates[1], v.rId, S, v.poolId, v.credits, c)
      BY <1>2 DEF RawValues, PoolValues
    <2> HIDE DEF S
    <2> QED
      BY <1>1, <2>1, ValuesOfAPool
  <1>3. CASE ~v.pool
    <2> DEFINE S(i) == {t \in ToSet(c.terms) : OfferedIn(v.candidates[i], t, c)}
               Values(i) == CourseValues(v.candidates[i], v.rId, S(i), c)
               ss == [i \in DOMAIN v.candidates |-> Values(i)]
    <2>1. RawValues(v, c) = FlattenSeq(ss)
      BY <1>3 DEF RawValues, CourseValues
    <2>2. ASSUME NEW i \in DOMAIN v.candidates
          PROVE  /\ IsPlan(ss[i]) /\ IsInjective(ss[i])
                 /\ \A p \in ToSet(ss[i]) : p.course = v.candidates[i]
      <3>1. ss[i] = Values(i)
        OBVIOUS
      <3> HIDE DEF S, ss
      <3> QED
        BY <3>1, ValuesOfACourse
    <2> HIDE DEF Values, S
    <2>3. DOMAIN v.candidates = 1..Len(v.candidates) /\ Len(v.candidates) \in Nat
      BY <1>1, ListProperties
    <2>4. ss \in [1..Len(v.candidates) -> {ss[i] : i \in 1..Len(v.candidates)}]
      BY <2>3
    <2> HIDE DEF ss
    <2>5. IsList(ss) /\ Len(ss) = Len(v.candidates)
      BY <2>3, <2>4, FunctionsAreLists
    <2>6. DistinctThroughout(ss)
      <3>1. \A i \in 1..Len(ss) : IsInjective(ss[i])
        BY <2>2, <2>3, <2>5
      <3>2. ASSUME NEW i \in 1..Len(ss), NEW j \in 1..Len(ss), i # j PROVE ToSet(ss[i]) \cap ToSet(ss[j]) = {}
        <4>1. v.candidates[i] # v.candidates[j]
          BY <1>1, <2>3, <2>5, <3>2 DEF IsInjective
        <4> QED
          BY <2>2, <2>3, <2>5, <4>1
      <3> QED
        BY <3>1, <3>2 DEF DistinctThroughout
    <2>7. /\ IsList(FlattenSeq(ss))
          /\ ToSet(FlattenSeq(ss)) = UNION {ToSet(ss[i]) : i \in 1..Len(ss)}
          /\ IsInjective(FlattenSeq(ss))
      <3>1. \A i \in 1..Len(ss) : IsList(ss[i])
        BY <2>2, <2>3, <2>5 DEF IsPlan
      <3> QED
        BY <2>5, <2>6, <3>1, FlattenCollects
    <2> QED
      BY <2>1, <2>2, <2>3, <2>5, <2>7 DEF IsPlan
  <1> QED
    BY <1>2, <1>3

LEMMA FixedParts ==
    ASSUME NEW c, IsContext(c)
    PROVE  IsPlan(IpPlacements(c)) /\ IsPlan(PinPlacements(c))
  <1>1. IsPlan(IpPlacements(c))
    <2> DEFINE ips == ByName(DOMAIN c.ip, c)
               At(i) == IF InWindow(c.ip[ips[i]], c) THEN c.ip[ips[i]] ELSE c.now
               P(i) == Placement(ips[i], At(i), "none", "ip", c)
               E(i) == IF ips[i] \in DOMAIN c.catalog THEN P(i).credits ELSE 4
               placed == [i \in DOMAIN ips |-> [P(i) EXCEPT !.credits = E(i)]]
    <2>1. IpPlacements(c) = placed
      BY DEF IpPlacements
    <2>2. IsList(ips) /\ ToSet(ips) \subseteq DOMAIN c.ip
      BY FilterKeeps DEF ByName, IsContext
    <2> DEFINE n == Len(ips)
    <2>3. n \in Nat /\ DOMAIN ips = 1..n /\ \A i \in 1..n : ips[i] \in DOMAIN c.ip
      BY <2>2, ListProperties
    <2>4. \A i \in 1..n : At(i) \in Int
      BY <2>3 DEF IsContext
    <2> HIDE DEF At, ips, n
    <2>5. ASSUME NEW i \in 1..n PROVE IsPlacement(placed[i])
      <3>1. /\ IsPlacement(P(i))
            /\ DOMAIN P(i) = {"course", "term", "credits", "tier", "weight", "rId", "source"}
        BY <2>4, PlacementFields
      <3>2. placed[i] = [P(i) EXCEPT !.credits = E(i)]
        BY <2>3
      <3> HIDE DEF P
      <3>3. placed[i].term = P(i).term /\ placed[i].credits = E(i)
        BY <3>1, <3>2
      <3> QED
        BY <3>1, <3>3 DEF IsPlacement
    <2>6. placed \in [1..n -> {placed[i] : i \in 1..n}]
      BY <2>3
    <2> HIDE DEF placed
    <2>7. IsList(placed) /\ ToSet(placed) \subseteq {placed[i] : i \in 1..n}
      BY <2>3, <2>6, FunctionsAreLists
    <2> QED
      BY <2>1, <2>5, <2>7 DEF IsPlan
  <1>2. IsPlan(PinPlacements(c))
    <2> DEFINE pins == Filter(c.pins, {p \in ToSet(c.pins) : Honoured(p, c)})
               P(i) == Placement(pins[i].course, pins[i].term, ServedBy(pins[i].course, c), "pin", c)
               E(i) == IF pins[i].course \in DOMAIN c.catalog THEN P(i).credits
                       ELSE IF pins[i].course \in DOMAIN c.offCatalog THEN c.offCatalog[pins[i].course] ELSE 0
               placed == [i \in DOMAIN pins |-> [P(i) EXCEPT !.credits = E(i)]]
    <2>1. PinPlacements(c) = placed
      BY DEF PinPlacements
    <2>2. IsList(pins) /\ ToSet(pins) \subseteq {p \in ToSet(c.pins) : Honoured(p, c)}
      BY FilterKeeps DEF IsContext
    <2> DEFINE n == Len(pins)
    <2>3. n \in Nat /\ DOMAIN pins = 1..n /\ \A i \in 1..n : Honoured(pins[i], c)
      BY <2>2, ListProperties
    <2>4. \A i \in 1..n : pins[i].term \in Int
      BY <2>3 DEF Honoured, InWindow, IsContext
    <2> HIDE DEF pins, n
    <2>5. ASSUME NEW i \in 1..n PROVE IsPlacement(placed[i])
      <3>1. /\ IsPlacement(P(i))
            /\ DOMAIN P(i) = {"course", "term", "credits", "tier", "weight", "rId", "source"}
        BY <2>4, PlacementFields
      <3>2. placed[i] = [P(i) EXCEPT !.credits = E(i)]
        BY <2>3
      <3> HIDE DEF P
      <3>3. placed[i].term = P(i).term /\ placed[i].credits = E(i)
        BY <3>1, <3>2
      <3>4. E(i) \in Nat
        BY <3>1 DEF IsContext, IsPlacement
      <3> QED
        BY <3>1, <3>3, <3>4 DEF IsPlacement
    <2>6. placed \in [1..n -> {placed[i] : i \in 1..n}]
      BY <2>3
    <2> HIDE DEF placed
    <2>7. IsList(placed) /\ ToSet(placed) \subseteq {placed[i] : i \in 1..n}
      BY <2>3, <2>6, FunctionsAreLists
    <2> QED
      BY <2>1, <2>5, <2>7 DEF IsPlan
  <1> QED
    BY <1>1, <1>2

LEMMA FixedIsPlan ==
    ASSUME NEW c, IsContext(c)
    PROVE  IsPlan(FixedPlacements(c))
  BY FixedParts, ConcatIsList DEF IsPlan, FixedPlacements

LEMMA VariablesAreOk ==
    ASSUME NEW c, IsContext(c)
    PROVE  /\ IsList(SearchVariables(c)) /\ ToSet(SearchVariables(c)) \subseteq ToSet(c.vars)
           /\ Len(SearchVariables(c)) \in Nat /\ DOMAIN SearchVariables(c) = 1..Len(SearchVariables(c))
           /\ \A i \in 1..Len(SearchVariables(c)) : SearchVariables(c)[i] \in ToSet(c.vars)
  <1> DEFINE covered == {p.rId : p \in ToSet(FixedPlacements(c))} \ {"none"}
             open == {v \in ToSet(c.vars) : v.candidates # <<>> /\ v.rId \notin covered}
             vars == Filter(c.vars, open)
             before == {p \in open \X open : BoundBefore(p[1], p[2], c)}
  <1>1. SearchVariables(c) = StableSort(vars, before)
    BY DEF SearchVariables
  <1>2. IsList(vars) /\ ToSet(vars) \subseteq ToSet(c.vars)
    BY FilterKeeps DEF IsContext
  <1> HIDE DEF vars, before
  <1>3. IsList(SearchVariables(c)) /\ ToSet(SearchVariables(c)) \subseteq ToSet(c.vars)
    BY <1>1, <1>2, SortPermutes
  <1> QED
    BY <1>3, ListProperties

\* The values tried are the raw ones that keep the partial plan legal.
LEMMA CandidatesAreLegal ==
    ASSUME NEW c, IsContext(c), NEW v \in ToSet(c.vars), NEW partial, NEW soft
    PROVE  LET values == CandidateValues(v, partial, c, soft)
           IN /\ IsList(values) /\ IsInjective(values)
              /\ ToSet(values) = {x \in ToSet(RawValues(v, c)) : IncrementalOk(Append(partial, x), c)}
  <1> DEFINE legal == {x \in ToSet(RawValues(v, c)) : IncrementalOk(Append(partial, x), c)}
             kept1 == Filter(RawValues(v, c), legal)
  <1>1. \E before : CandidateValues(v, partial, c, soft) = StableSort(kept1, before)
    BY Zenon DEF CandidateValues
  <1>2. IsList(RawValues(v, c)) /\ IsInjective(RawValues(v, c))
    BY RawValuesAreOk DEF IsPlan
  <1>3. ToSet(RawValues(v, c)) \cap legal = legal
    OBVIOUS
  <1> HIDE DEF legal
  <1>4. IsList(kept1) /\ ToSet(kept1) = legal /\ IsInjective(kept1)
    BY <1>2, <1>3, FilterKeeps
  <1> HIDE DEF kept1
  <1> QED
    BY <1>1, <1>4, SortPermutes DEF legal

-----------------------------------------------------------------------------
(* Pruning: a plan that places no course in two terms and passes the       *)
(* predicates of partial plans passes them at every length.                *)

LEMMA CreditsOfATerm ==
    ASSUME NEW p, IsPlan(p), NEW t
    PROVE  /\ TermCredits(p, t) = Sum([i \in 1..Len(p) |-> IF p[i].term = t THEN p[i].credits ELSE 0])
           /\ [i \in 1..Len(p) |-> IF p[i].term = t THEN p[i].credits ELSE 0] \in [1..Len(p) -> Nat]
           /\ TermCredits(p, t) \in Nat
  <1>1. Len(p) \in Nat /\ DOMAIN p = 1..Len(p) /\ \A i \in 1..Len(p) : p[i].credits \in Nat
    BY ListProperties DEF IsPlan, IsPlacement
  <1> DEFINE s == [i \in 1..Len(p) |-> IF p[i].term = t THEN p[i].credits ELSE 0]
  <1>2. TermCredits(p, t) = Sum(s)
    BY <1>1 DEF TermCredits, CreditsWhere
  <1>3. s \in [1..Len(p) -> Nat]
    BY <1>1
  <1>4. Sum(s) \in Nat
    <2> HIDE DEF s
    <2> QED
      BY <1>1, <1>3, SumIsNat
  <1> QED
    BY <1>2, <1>3, <1>4

LEMMA PlannedAt ==
    ASSUME NEW p, IsList(p), WellFormed(p), NEW j \in 1..Len(p)
    PROVE  PlannedPlacements(p)[p[j].course] = p[j].term
  <1> DEFINE at == {i \in DOMAIN p : p[i].course = p[j].course}
  <1>1. Len(p) \in Nat /\ DOMAIN p = 1..Len(p)
    BY ListProperties
  <1>2. at \subseteq 0..Len(p) /\ at # {}
    BY <1>1
  <1>3. Max(at) \in at
    <2> HIDE DEF at
    <2> QED
      BY <1>1, <1>2, MaxOf
  <1>4. p[j].course \in Courses(p)
    BY <1>1 DEF Courses
  <1>5. PlannedPlacements(p)[p[j].course] = p[Max(at)].term
    BY <1>4 DEF PlannedPlacements
  <1> QED
    BY <1>1, <1>3, <1>5 DEF WellFormed

LEMMA PruningLosesNothing ==
    ASSUME NEW c, IsContext(c), NEW p, IsPlan(p), WellFormed(p), IncrementalOk(p, c),
           NEW k \in 0..Len(p)
    PROVE  IncrementalOk(SubSeq(p, 1, k), c)
  <1> DEFINE q == SubSeq(p, 1, k)
  <1>1. /\ Len(p) \in Nat /\ DOMAIN p = 1..Len(p)
        /\ IsList(q) /\ Len(q) = k /\ \A i \in 1..k : q[i] = p[i]
    BY ListProperties, PrefixIsList DEF IsPlan
  <1> HIDE DEF q
  <1>2. DOMAIN q = 1..k /\ k \in Nat /\ \A i \in 1..k : i \in DOMAIN p
    BY <1>1, ListProperties
  <1>3. Courses(q) \subseteq Courses(p)
    BY <1>1, <1>2 DEF Courses
  <1>4. OfferingSeasonMatch(q, c)
    BY <1>1, <1>2 DEF OfferingSeasonMatch, IncrementalOk
  <1>5. NotClauseClear(q, c)
    <2>1. ASSUME NEW x \in Courses(q) PROVE ~IsExcludedByNotClause(x, c, Courses(q) \ {x})
      <3>1. ~IsExcludedByNotClause(x, c, Courses(p) \ {x})
        BY <1>3 DEF IncrementalOk, NotClauseClear
      <3> QED
        BY <1>3, <3>1 DEF IsExcludedByNotClause
    <2> QED
      BY <2>1 DEF NotClauseClear
  <1>6. WellFormed(q)
    BY <1>1, <1>2 DEF WellFormed
  <1>7. CoreqsSameTerm(q, c)
    <2>1. ASSUME NEW i \in DOMAIN q, q[i].course \in DOMAIN c.coreqs,
                 NEW x \in (c.coreqs[q[i].course] \cap Courses(q)) \ (c.taken \cup DOMAIN c.ip)
          PROVE  PlannedPlacements(q)[x] = q[i].term
      <3>1. PICK j \in 1..k : q[j].course = x
        BY <1>2, <2>1 DEF Courses
      <3>2. PlannedPlacements(q)[x] = q[j].term
        BY <1>1, <1>6, <3>1, PlannedAt
      <3>3. PlannedPlacements(p)[x] = p[j].term
        BY <1>1, <1>2, <3>1, PlannedAt DEF IsPlan
      <3>4. p[i].course \in DOMAIN c.coreqs /\ i \in DOMAIN p
        BY <1>1, <1>2, <2>1
      <3>5. x \in (c.coreqs[p[i].course] \cap Courses(p)) \ (c.taken \cup DOMAIN c.ip)
        BY <1>1, <1>2, <1>3, <2>1
      <3>6. PlannedPlacements(p)[x] = p[i].term
        BY <3>4, <3>5 DEF IncrementalOk, CoreqsSameTerm
      <3> QED
        BY <1>1, <1>2, <2>1, <3>1, <3>2, <3>3, <3>6
    <2> QED
      BY <2>1 DEF CoreqsSameTerm
  <1>8. IsPlan(q)
    BY <1>1, ListProperties DEF IsPlan
  <1>9. PerTermCeiling(q, c)
    <2>1. ASSUME NEW t PROVE TermCredits(q, t) <= TermCredits(p, t)
      <3> DEFINE s == [i \in 1..Len(q) |-> IF q[i].term = t THEN q[i].credits ELSE 0]
                 u == [i \in 1..Len(p) |-> IF p[i].term = t THEN p[i].credits ELSE 0]
      <3>1. /\ TermCredits(q, t) = Sum(s) /\ s \in [1..Len(q) -> Nat]
            /\ TermCredits(p, t) = Sum(u) /\ u \in [1..Len(p) -> Nat]
        BY <1>8, CreditsOfATerm
      <3>2. \A i \in 1..k : s[i] <= u[i]
        <4>1. \A i \in 1..k : i \in 1..Len(q) /\ i \in 1..Len(p) /\ q[i] = p[i]
          BY <1>1
        <4>2. \A i \in 1..k : s[i] = u[i] /\ u[i] \in Nat
          BY <3>1, <4>1
        <4> HIDE DEF s, u
        <4> QED
          BY <4>2
      <3> HIDE DEF s, u
      <3>3. s \in [1..k -> Int]
        BY <1>1, <3>1
      <3> QED
        BY <1>1, <3>1, <3>2, <3>3, SumOfPrefix
    <2>2. ASSUME NEW i \in DOMAIN q PROVE TermCredits(q, q[i].term) <= c.ceiling
      <3>1. TermCredits(p, p[i].term) <= c.ceiling
        BY <1>1, <1>2 DEF IncrementalOk, PerTermCeiling
      <3>2. TermCredits(q, q[i].term) <= TermCredits(p, p[i].term)
        BY <1>1, <1>2, <2>1
      <3>3. TermCredits(q, q[i].term) \in Nat /\ TermCredits(p, p[i].term) \in Nat /\ c.ceiling \in Int
        BY <1>8, CreditsOfATerm DEF IsContext
      <3> QED
        BY <3>1, <3>2, <3>3
    <2> QED
      BY <2>2 DEF PerTermCeiling
  <1> QED
    BY <1>4, <1>5, <1>7, <1>9 DEF IncrementalOk, q

-----------------------------------------------------------------------------
(* The order of plans: by score, a rational, then by key.                  *)

IsScore(a) == a.num \in Int /\ a.den \in Nat \ {0}

LEMMA Scaled ==
    ASSUME NEW x \in Int, NEW y \in Int, NEW d \in Nat \ {0}
    PROVE  (x * d <= y * d) <=> x <= y
  <1>1. ASSUME x <= y PROVE x * d <= y * d
    BY <1>1
  <1>2. ASSUME x > y PROVE x * d > y * d
    BY <1>2
  <1> QED
    BY <1>1, <1>2

LEMMA CrossLeq ==
    ASSUME NEW a, NEW b, NEW c, IsScore(a), IsScore(b), IsScore(c),
           a.num * b.den <= b.num * a.den, b.num * c.den <= c.num * b.den
    PROVE  a.num * c.den <= c.num * a.den
  <1> DEFINE an == a.num  ad == a.den  bn == b.num  bd == b.den  cn == c.num  cd == c.den
  <1>1. /\ an \in Int /\ bn \in Int /\ cn \in Int
        /\ ad \in Nat \ {0} /\ bd \in Nat \ {0} /\ cd \in Nat \ {0}
        /\ an * bd <= bn * ad /\ bn * cd <= cn * bd
    BY DEF IsScore
  <1> HIDE DEF an, ad, bn, bd, cn, cd
  <1>2. (an * bd) * cd <= (bn * ad) * cd
    BY <1>1, Scaled
  <1>3. (bn * cd) * ad <= (cn * bd) * ad
    BY <1>1, Scaled
  <1>4. (an * bd) * cd = (an * cd) * bd /\ (bn * ad) * cd = (bn * cd) * ad /\ (cn * bd) * ad = (cn * ad) * bd
    BY <1>1
  <1>5. (an * cd) * bd <= (cn * ad) * bd
    BY <1>1, <1>2, <1>3, <1>4
  <1>6. an * cd <= cn * ad
    BY <1>1, <1>5, Scaled
  <1> QED
    BY <1>6 DEF an, ad, cn, cd

\* No worse: the order of scores is total and transitive.
LEMMA ScoresAreOrdered ==
    ASSUME NEW a, NEW b, IsScore(a), IsScore(b)
    PROVE  /\ Less(a, b) <=> ~(b.num * a.den <= a.num * b.den)
           /\ Same(a, b) <=> (b.num * a.den <= a.num * b.den /\ a.num * b.den <= b.num * a.den)
           /\ b.num * a.den <= a.num * b.den \/ a.num * b.den <= b.num * a.den
  BY DEF IsScore, Less, Same

LEMMA ImageIsFinite ==
    ASSUME NEW S, IsFiniteSet(S), NEW f, DOMAIN f = S
    PROVE  IsFiniteSet({f[x] : x \in S})
  <1> DEFINE T == {f[x] : x \in S}
             g == [x \in S |-> f[x]]
  <1>1. g \in Surjection(S, T)
    BY DEF Surjection
  <1> QED
    BY <1>1, FS_Surjection


LEMMA BalanceIsRational ==
    ASSUME NEW n \in Nat, NEW credits \in [1..n -> Nat], NEW hard \in [1..n -> Nat], NEW style
    PROVE  IsScore(BalanceScore(credits, hard, style))
  <1>1. ASSUME NEW s \in [1..n -> Nat] PROVE Len(s) = n /\ Sum(s) \in Nat /\ VarianceN2(s) \in Int
    <2> DEFINE squares == [i \in 1..n |-> s[i] * s[i]]
    <2>1. squares \in [1..n -> Int]
      OBVIOUS
    <2>2. VarianceN2(s) = Len(s) * Sum(squares) - Sum(s) * Sum(s)
      BY DEF VarianceN2
    <2> HIDE DEF squares
    <2>3. Len(s) = n /\ Sum(s) \in Nat /\ Sum(squares) \in Int
      BY <2>1, SumIsInt, SumIsNat, FunctionsAreLists
    <2> QED
      BY <2>2, <2>3
  <1> DEFINE deviation == LoadStyleDeviation2T(credits, style)
             m == Max({1, Len(credits)})
             total == IF deviation = 0 THEN 1 ELSE Max({1, Sum(credits)})
  <1>2. deviation \in Int
    <2> DEFINE moments == [i \in 1..n |-> credits[i] * (i - 1)]
               lean == 2 * Sum(moments) - (Len(credits) - 1) * Sum(credits)
    <2>1. moments \in [1..n -> Int]
      OBVIOUS
    <2>2. deviation = CASE style = "frontload" -> Max({0, lean})
                        [] style = "backload" -> Max({0, -lean})
                        [] OTHER -> 0
      BY DEF LoadStyleDeviation2T
    <2> HIDE DEF moments
    <2>3. Sum(moments) \in Int
      BY <2>1, SumIsInt
    <2>4. lean \in Int
      BY <1>1, <2>3
    <2> HIDE DEF lean, deviation
    <2>5. Max({0, lean}) \in Int /\ Max({0, -lean}) \in Int
      <3>1. ASSUME NEW x \in Int PROVE Max({0, x}) \in {0, x}
        BY MaxOfTwo, 0 \in Int, Zenon
      <3>2. -lean \in Int
        BY <2>4
      <3> QED
        BY <2>4, <3>1, <3>2
    <2> QED
      BY <2>2, <2>5
  <1>3. m \in Nat \ {0} /\ total \in Nat \ {0}
    <2>1. ASSUME NEW x \in Nat PROVE Max({1, x}) \in {1, x} /\ Max({1, x}) >= 1
      BY MaxOfTwo, 1 \in Int, x \in Int, Zenon
    <2>2. Len(credits) \in Nat /\ Sum(credits) \in Nat
      BY <1>1
    <2>3. \A x \in Nat : Max({1, x}) \in Nat \ {0}
      BY <2>1
    <2> QED
      BY <2>2, <2>3
  <1>4. VarianceN2(credits) \in Int /\ VarianceN2(hard) \in Int
    BY <1>1
  <1>5. BalanceScore(credits, hard, style) =
          [num |-> 4 * total * (VarianceN2(credits) + 2 * VarianceN2(hard)) + m * m * deviation,
           den |-> 4 * m * m * total]
    BY DEF BalanceScore
  <1> DEFINE w == VarianceN2(credits) + 2 * VarianceN2(hard)
  <1>6. w \in Int
    BY <1>4
  <1> HIDE DEF deviation, m, total, w
  <1>7. 4 * total * w + m * m * deviation \in Int
    BY <1>2, <1>3, <1>6
  <1>8. m * m \in Nat \ {0}
    BY <1>3
  <1>9. 4 * (m * m) * total \in Nat \ {0}
    BY <1>3, <1>8
  <1>10. 4 * m * m * total = 4 * (m * m) * total
    BY <1>3
  <1> QED
    BY <1>5, <1>7, <1>9, <1>10 DEF IsScore, w

LEMMA SoftCostIsInt ==
    ASSUME NEW c, NEW p, IsPlan(p)
    PROVE  SoftObjectiveCost(p, c) \in Int
  <1> DEFINE placed == Courses(p) \cap DOMAIN c.dept
             D1 == {c.dept[x] : x \in placed}
             P1 == {i \in DOMAIN p : p[i].course \in placed}
  <1>1. IsFiniteSet(DOMAIN p)
    BY FS_Interval, ListProperties DEF IsPlan
  <1>2. IsFiniteSet(P1)
    BY <1>1, FS_Subset
  <1>3. IsFiniteSet(D1)
    <2> DEFINE f == [i \in P1 |-> c.dept[p[i].course]]
    <2>1. D1 = {f[i] : i \in P1}
      BY DEF Courses
    <2>2. DOMAIN f = P1
      OBVIOUS
    <2> HIDE DEF f
    <2>3. IsFiniteSet({f[i] : i \in P1})
      BY <1>2, <2>2, ImageIsFinite
    <2> QED
      BY <2>1, <2>3
  <1>4. Cardinality(P1) \in Nat /\ Cardinality(D1) \in Nat
    BY <1>2, <1>3, FS_CardinalityType
  <1>5. SoftObjectiveCost(p, c) =
          CASE c.soft = "none" -> 0
            [] c.soft # "none" /\ Cardinality(P1) = 0 -> 0
            [] c.soft = "concentrated" /\ Cardinality(P1) > 0 -> Cardinality(D1) - 1
            [] OTHER -> Cardinality(P1) - Cardinality(D1)
    BY DEF SoftObjectiveCost
  <1> HIDE DEF D1, P1
  <1> QED
    BY <1>4, <1>5

LEMMA MainTermsAreOk ==
    ASSUME NEW c, IsContext(c)
    PROVE  \E n \in Nat : MainTerms(c) \in [1..n -> Int]
  BY LegalTerms DEF MainTerms

LEMMA ScoreIsRational ==
    ASSUME NEW c, IsContext(c), NEW p, IsPlan(p)
    PROVE  IsScore(ScorePlan(p, c))
  <1> DEFINE main == MainTerms(c)
             credits == [i \in DOMAIN main |-> TermCredits(p, main[i])]
             Hard(i) == {j \in DOMAIN p : p[j].term = main[i] /\ p[j].weight >= 100}
             hard == [i \in DOMAIN main |-> Cardinality(Hard(i))]
             balance == BalanceScore(credits, hard, c.style)
             reached == ReachedBy(LAMBDA t : TermCredits(p, t), c)
             index == IF reached = None THEN Len(c.terms) ELSE reached - 1
  <1>1. ScorePlan(p, c) = [num |-> 4 * balance.num + balance.den * (2 * index + SoftObjectiveCost(p, c)),
                           den |-> 4 * balance.den]
    BY DEF ScorePlan
  <1>2. index \in Int
    <2> DEFINE upTo(i) == c.earned + Sum([j \in 1..i |-> TermCredits(p, c.terms[j])])
               at == {i \in DOMAIN c.terms : upTo(i) >= c.minimum}
    <2>1. reached = IF at = {} THEN None ELSE Min(at)
      BY DEF ReachedBy
    <2>2. Len(c.terms) \in Nat /\ DOMAIN c.terms = 1..Len(c.terms)
      BY ListProperties DEF IsContext
    <2>3. at \subseteq Nat
      BY <2>2
    <2> HIDE DEF at
    <2>4. at # {} => Min(at) \in Nat
      BY <2>3, MinOf
    <2> HIDE DEF reached
    <2> QED
      BY <2>1, <2>2, <2>4 DEF None
  <1>3. PICK n \in Nat : main \in [1..n -> Int]
    BY MainTermsAreOk
  <1>4. credits \in [1..n -> Nat]
    BY <1>3, CreditsOfATerm
  <1>5. hard \in [1..n -> Nat]
    <2>1. IsFiniteSet(DOMAIN p)
      BY FS_Interval, ListProperties DEF IsPlan
    <2>2. \A i \in 1..n : Cardinality(Hard(i)) \in Nat
      BY <2>1, FS_Subset, FS_CardinalityType
    <2> HIDE DEF Hard
    <2> QED
      BY <1>3, <2>2
  <1> HIDE DEF credits, hard
  <1>6. IsScore(balance)
    BY <1>4, <1>5, BalanceIsRational
  <1> HIDE DEF balance, index, reached
  <1> DEFINE u == 2 * index + SoftObjectiveCost(p, c)
  <1>7. u \in Int
    BY <1>2, SoftCostIsInt
  <1> HIDE DEF u
  <1>8. 4 * balance.num + balance.den * u \in Int /\ 4 * balance.den \in Nat \ {0}
    BY <1>6, <1>7 DEF IsScore
  <1> QED
    BY <1>1, <1>8 DEF IsScore, u


IsKey(a) == IsList(a) /\ ToSet(a) \subseteq Int

LEMMA KeyIsOfNumbers ==
    ASSUME NEW c, IsContext(c), NEW p, IsPlan(p)
    PROVE  IsKey(PlanKey(p, c))
  <1> DEFINE alphabetical == <<2, 3, 0, 1>>
             Name(x) == IF x.course \in ToSet(c.names) THEN Index(x.course, c) ELSE 99
             Season1(x) == alphabetical[Season(x.term) + 1]
             entry(x) == 10000 * Name(x) + 10 * (x.term \div 4) + Season1(x)
             entries == [i \in DOMAIN p |-> entry(p[i])]
  <1>1. PlanKey(p, c) = StableSort(entries, {q \in Int \X Int : q[1] < q[2]})
    BY DEF PlanKey
  <1>2. /\ Len(p) \in Nat /\ DOMAIN p = 1..Len(p)
        /\ \A i \in 1..Len(p) : IsPlacement(p[i])
    BY ListProperties DEF IsPlan
  <1>3. ASSUME NEW x, IsPlacement(x) PROVE entry(x) \in Int
    <2>1. x.term \in Int
      BY <1>3 DEF IsPlacement
    <2>2. Season(x.term) + 1 \in 1..4
      BY <2>1 DEF Season
    <2>3. Season1(x) \in Int
      BY <2>2
    <2>4. Name(x) \in Int
      <3>1. CASE x.course \in ToSet(c.names)
        <4>1. PICK i \in DOMAIN c.names : c.names[i] = x.course
          BY <3>1, ListProperties DEF IsContext
        <4>2. Index(x.course, c) \in DOMAIN c.names
          BY <4>1 DEF Index
        <4> QED
          BY <3>1, <4>2, ListProperties DEF IsContext
      <3>2. CASE x.course \notin ToSet(c.names)
        BY <3>2
      <3> QED
        BY <3>1, <3>2
    <2>5. x.term \div 4 \in Int
      BY <2>1
    <2> HIDE DEF Name, Season1
    <2> QED
      BY <2>3, <2>4, <2>5
  <1> HIDE DEF entry
  <1>4. entries \in [1..Len(p) -> Int]
    BY <1>2, <1>3
  <1> HIDE DEF entries
  <1>5. IsList(entries) /\ ToSet(entries) \subseteq Int
    BY <1>2, <1>4, FunctionsAreLists
  <1> QED
    BY <1>1, <1>5, SortPermutes DEF IsKey

LEMMA KeyElements ==
    ASSUME NEW a, IsKey(a)
    PROVE  Len(a) \in Nat /\ DOMAIN a = 1..Len(a) /\ \A i \in 1..Len(a) : a[i] \in Int
  BY ListProperties DEF IsKey

LEMMA KeysAreAsymmetric ==
    ASSUME NEW a, NEW b, IsKey(a), IsKey(b), KeyLess(a, b)
    PROVE  ~KeyLess(b, a) /\ a # b
  <1>1. /\ Len(a) \in Nat /\ DOMAIN a = 1..Len(a) /\ \A i \in 1..Len(a) : a[i] \in Int
        /\ Len(b) \in Nat /\ DOMAIN b = 1..Len(b) /\ \A i \in 1..Len(b) : b[i] \in Int
    BY KeyElements
  <1> QED
    BY <1>1, SMTT(30) DEF KeyLess

LEMMA KeysAreTotal ==
    ASSUME NEW a, NEW b, IsKey(a), IsKey(b)
    PROVE  KeyLess(a, b) \/ KeyLess(b, a) \/ a = b
  <1>1. /\ Len(a) \in Nat /\ DOMAIN a = 1..Len(a) /\ \A i \in 1..Len(a) : a[i] \in Int
        /\ Len(b) \in Nat /\ DOMAIN b = 1..Len(b) /\ \A i \in 1..Len(b) : b[i] \in Int
    BY KeyElements
  <1> DEFINE apart == {i \in DOMAIN a \cap DOMAIN b : a[i] # b[i]}
  <1>2. CASE apart # {}
    <2>1. PICK m \in apart : \A i \in apart : m <= i
      <3>1. apart \subseteq Nat
        BY <1>1
      <3> HIDE DEF apart
      <3> QED
        BY <1>2, <3>1, NatMinimum
    <2>2. ASSUME NEW j \in 1..(m - 1) PROVE a[j] = b[j]
      <3>1. m \in 1..Len(a) /\ m \in 1..Len(b)
        BY <1>1, <2>1
      <3>2. j \in 1..Len(a) /\ j \in 1..Len(b) /\ ~(m <= j)
        BY <1>1, <3>1
      <3>3. j \notin apart
        BY <2>1, <3>2
      <3> QED
        BY <1>1, <3>2, <3>3
    <2>3. a[m] < b[m] \/ b[m] < a[m]
      BY <1>1, <2>1
    <2> QED
      BY <2>1, <2>2, <2>3 DEF KeyLess
  <1>3. CASE apart = {}
    <2>1. CASE Len(a) = Len(b)
      <3>1. \A i \in 1..Len(a) : a[i] = b[i]
        BY <1>1, <1>3, <2>1
      <3> QED
        BY <2>1, <3>1, ListsEqual DEF IsKey
    <2>2. CASE Len(a) # Len(b)
      <3>1. \A i : i \in 1..Len(a) /\ i \in 1..Len(b) => a[i] = b[i]
        BY <1>1, <1>3
      <3>2. CASE Len(a) < Len(b)
        <4>1. \A i \in DOMAIN a : a[i] = b[i]
          BY <1>1, <3>1, <3>2
        <4> QED
          BY <3>2, <4>1 DEF KeyLess
      <3>3. CASE Len(b) < Len(a)
        <4>1. \A i \in DOMAIN b : b[i] = a[i]
          BY <1>1, <3>1, <3>3
        <4> QED
          BY <3>3, <4>1 DEF KeyLess
      <3> QED
        <4>1. \A x, y \in Nat : x < y \/ y < x \/ x = y
          OBVIOUS
        <4>2. Len(a) < Len(b) \/ Len(b) < Len(a)
          BY <1>1, <2>2, <4>1
        <4> QED
          BY <3>2, <3>3, <4>2
    <2> QED
      BY <2>1, <2>2
  <1> QED
    BY <1>2, <1>3

LEMMA KeysAreTransitive ==
    ASSUME NEW a, NEW b, NEW c, IsKey(a), IsKey(b), IsKey(c), KeyLess(a, b), KeyLess(b, c)
    PROVE  KeyLess(a, c)
  <1> DEFINE Splits(x, y, i) == /\ i \in DOMAIN x \cap DOMAIN y /\ x[i] < y[i]
                                /\ \A j \in 1..(i - 1) : x[j] = y[j]
             Extends(x, y) == Len(x) < Len(y) /\ \A i \in DOMAIN x : x[i] = y[i]
  <1>1. /\ Len(a) \in Nat /\ DOMAIN a = 1..Len(a) /\ \A i \in 1..Len(a) : a[i] \in Int
        /\ Len(b) \in Nat /\ DOMAIN b = 1..Len(b) /\ \A i \in 1..Len(b) : b[i] \in Int
        /\ Len(c) \in Nat /\ DOMAIN c = 1..Len(c) /\ \A i \in 1..Len(c) : c[i] \in Int
    BY KeyElements
  <1>2. \A x, y : KeyLess(x, y) <=> (\E i : Splits(x, y, i)) \/ Extends(x, y)
    BY DEF KeyLess
  <1>3. ASSUME NEW i, Splits(a, b, i), NEW k, Splits(b, c, k)
        PROVE  Splits(a, c, i) \/ Splits(a, c, k)
    <2>1. i \in 1..Len(a) /\ i \in 1..Len(b) /\ k \in 1..Len(b) /\ k \in 1..Len(c)
      BY <1>1, <1>3
    <2>2. CASE i < k
      <3>1. a[i] < c[i] /\ i \in 1..Len(c)
        <4>1. i \in 1..(k - 1)
          BY <2>1, <2>2
        <4>2. b[i] = c[i]
          BY <1>3, <4>1
        <4> QED
          BY <1>1, <1>3, <2>1, <2>2, <4>2
      <3>2. \A j \in 1..(i - 1) : a[j] = c[j]
        BY <1>1, <1>3, <2>1, <2>2
      <3> QED
        BY <1>1, <2>1, <3>1, <3>2
    <2>3. CASE k <= i
      <3>1. k \in 1..Len(a) /\ a[k] <= b[k]
        <4>1. k < i => a[k] = b[k]
          BY <1>3, <2>1
        <4> QED
          BY <1>1, <1>3, <2>1, <2>3, <4>1
      <3>2. a[k] < c[k]
        BY <1>1, <1>3, <2>1, <3>1
      <3>3. \A j \in 1..(k - 1) : a[j] = c[j]
        BY <1>1, <1>3, <2>1, <2>3
      <3> QED
        BY <1>1, <2>1, <3>1, <3>2, <3>3
    <2> QED
      BY <2>1, <2>2, <2>3
  <1>4. ASSUME NEW i, Splits(a, b, i), Extends(b, c) PROVE Splits(a, c, i)
    BY <1>1, <1>4, SMTT(30)
  <1>5. ASSUME Extends(a, b), NEW k, Splits(b, c, k) PROVE Splits(a, c, k) \/ Extends(a, c)
    <2>1. k \in 1..Len(b) /\ k \in 1..Len(c)
      BY <1>1, <1>5
    <2>2. CASE k <= Len(a)
      BY <1>1, <1>5, <2>1, <2>2
    <2>3. CASE Len(a) < k
      BY <1>1, <1>5, <2>1, <2>3
    <2> QED
      BY <1>1, <2>1, <2>2, <2>3
  <1>6. ASSUME Extends(a, b), Extends(b, c) PROVE Extends(a, c)
    BY <1>1, <1>6
  <1> HIDE DEF Splits, Extends
  <1> QED
    BY <1>2, <1>3, <1>4, <1>5, <1>6


\* Neither plan is better than the other.
Tied(p, q) == ~Better(p, q) /\ ~Better(q, p)

LEMMA BetterIsAsymmetric ==
    ASSUME IsContext(ctx), NEW p, NEW q, IsPlan(p), IsPlan(q)
    PROVE  /\ ~(Better(p, q) /\ Better(q, p))
           /\ Tied(p, q) => (Same(ScorePlan(p, ctx), ScorePlan(q, ctx)) /\ PlanKey(p, ctx) = PlanKey(q, ctx))
  <1>1. IsScore(ScorePlan(p, ctx)) /\ IsScore(ScorePlan(q, ctx))
    BY ScoreIsRational
  <1>2. IsKey(PlanKey(p, ctx)) /\ IsKey(PlanKey(q, ctx))
    BY KeyIsOfNumbers
  <1> DEFINE a == ScorePlan(p, ctx)  b == ScorePlan(q, ctx)
             x == PlanKey(p, ctx)  y == PlanKey(q, ctx)
  <1>3. /\ Better(p, q) <=> Less(a, b) \/ (Same(a, b) /\ KeyLess(x, y))
        /\ Better(q, p) <=> Less(b, a) \/ (Same(b, a) /\ KeyLess(y, x))
    BY DEF Better
  <1> HIDE DEF a, b, x, y
  <1>4. /\ ~(KeyLess(x, y) /\ KeyLess(y, x)) /\ (KeyLess(x, y) \/ KeyLess(y, x) \/ x = y)
    BY <1>2, KeysAreAsymmetric, KeysAreTotal DEF x, y
  <1>5. /\ ~(Less(a, b) /\ Less(b, a)) /\ (Less(a, b) \/ Less(b, a) \/ Same(a, b))
        /\ Same(a, b) <=> Same(b, a)
        /\ Same(a, b) => ~Less(a, b) /\ ~Less(b, a)
    BY <1>1, ScoresAreOrdered DEF a, b
  <1>6. /\ ~(Better(p, q) /\ Better(q, p))
        /\ Tied(p, q) => (Same(a, b) /\ x = y)
    BY <1>3, <1>4, <1>5 DEF Tied
  <1> QED
    BY <1>6 DEF a, b, x, y

LEMMA NotBetterIsTransitive ==
    ASSUME IsContext(ctx), NEW p, NEW q, NEW r, IsPlan(p), IsPlan(q), IsPlan(r),
           ~Better(p, q), ~Better(q, r)
    PROVE  ~Better(p, r)
  <1> DEFINE a == ScorePlan(p, ctx)  b == ScorePlan(q, ctx)  d == ScorePlan(r, ctx)
             x == PlanKey(p, ctx)  y == PlanKey(q, ctx)  z == PlanKey(r, ctx)
             Leq(f, g) == f.num * g.den <= g.num * f.den
  <1>1. IsScore(a) /\ IsScore(b) /\ IsScore(d)
    BY ScoreIsRational
  <1>2. IsKey(x) /\ IsKey(y) /\ IsKey(z)
    BY KeyIsOfNumbers
  <1>3. /\ Better(p, q) <=> Less(a, b) \/ (Same(a, b) /\ KeyLess(x, y))
        /\ Better(q, r) <=> Less(b, d) \/ (Same(b, d) /\ KeyLess(y, z))
        /\ Better(p, r) <=> Less(a, d) \/ (Same(a, d) /\ KeyLess(x, z))
    BY DEF Better
  <1> HIDE DEF a, b, d, x, y, z
  <1>4. \A f, g : IsScore(f) /\ IsScore(g) =>
          /\ Less(f, g) <=> ~Leq(g, f)
          /\ Same(f, g) <=> Leq(f, g) /\ Leq(g, f)
          /\ Leq(f, g) \/ Leq(g, f)
    BY ScoresAreOrdered
  <1>5. \A f, g, h : IsScore(f) /\ IsScore(g) /\ IsScore(h) /\ Leq(f, g) /\ Leq(g, h) => Leq(f, h)
    BY CrossLeq
  <1> HIDE DEF Leq
  <1>6. Leq(b, a) /\ Leq(d, b)
    BY <1>1, <1>3, <1>4
  <1>7. Leq(d, a)
    BY <1>1, <1>5, <1>6
  <1>8. ASSUME Same(a, d) PROVE ~KeyLess(x, z)
    <2>1. Leq(a, b) /\ Leq(b, d)
      BY <1>1, <1>4, <1>5, <1>6, <1>8
    <2>2. Same(a, b) /\ Same(b, d)
      BY <1>1, <1>4, <1>6, <2>1
    <2>3. ~KeyLess(x, y) /\ ~KeyLess(y, z)
      BY <1>3, <2>2
    <2>4. (KeyLess(y, x) \/ x = y) /\ (KeyLess(z, y) \/ y = z)
      BY <1>2, <2>3, KeysAreTotal
    <2>5. KeyLess(z, x) \/ x = z
      BY <1>2, <2>4, KeysAreTransitive
    <2> QED
      BY <1>2, <2>5, KeysAreAsymmetric
  <1> QED
    BY <1>1, <1>3, <1>4, <1>7, <1>8

\* A total and transitive relation on 1..n relates some i to all the others.
LEMMA LastOfMany ==
    ASSUME NEW n \in Nat \ {0}, NEW after,
           \A i, j \in 1..n : i # j => <<i, j>> \in after \/ <<j, i>> \in after,
           \A i, j, k \in 1..n : <<i, j>> \in after /\ <<j, k>> \in after => <<i, k>> \in after
    PROVE  \E i \in 1..n : \A j \in (1..n) \ {i} : <<i, j>> \in after
  <1> DEFINE good == {m \in 0..n : m = 0 \/ \E i \in 1..m : \A j \in (1..m) \ {i} : <<i, j>> \in after}
  <1>1. 0 \in good
    OBVIOUS
  <1>2. ASSUME NEW m \in 1..n, m - 1 \in good PROVE m \in good
    <2>1. CASE m = 1
      <3>1. \A j \in (1..m) \ {m} : <<m, j>> \in after
        BY <2>1
      <3> QED
        BY <2>1, <3>1
    <2>2. CASE m # 1
      <3>1. PICK i \in 1..(m - 1) : \A j \in (1..(m - 1)) \ {i} : <<i, j>> \in after
        BY <1>2, <2>2
      <3>2. i \in 1..n /\ i # m /\ i \in 1..m
        BY <3>1
      <3>3. CASE <<i, m>> \in after
        <4>1. \A j \in (1..m) \ {i} : <<i, j>> \in after
          BY <3>1, <3>3
        <4> QED
          BY <3>2, <4>1
      <3>4. CASE <<m, i>> \in after
        <4>1. \A j \in (1..m) \ {m} : <<m, j>> \in after
          <5>1. ASSUME NEW j \in (1..m) \ {m} PROVE <<m, j>> \in after
            <6>1. j \in 1..(m - 1) /\ j \in 1..n
              OBVIOUS
            <6>2. j = i \/ <<i, j>> \in after
              BY <3>1, <6>1
            <6> QED
              BY <3>2, <3>4, <6>1, <6>2
          <5> QED
            BY <5>1
        <4>2. m \in 1..m
          OBVIOUS
        <4> QED
          BY <4>1, <4>2
      <3> QED
        BY <3>2, <3>3, <3>4
    <2> QED
      BY <2>1, <2>2
  <1> HIDE DEF good
  <1>3. \A i \in 0..n : i \in good
    BY <1>1, <1>2, FiniteInduction
  <1>4. n \in good
    BY <1>3
  <1> QED
    BY <1>4 DEF good


ArePlans(s) == IsList(s) /\ \A p \in ToSet(s) : IsPlan(p)

LEMMA WorstIsWorst ==
    ASSUME IsContext(ctx), ArePlans(kept), kept # <<>>
    PROVE  Worst \in 1..Len(kept) /\ \A q \in ToSet(kept) : ~Better(kept[Worst], q)
  <1> DEFINE n == Len(kept)
             after == {e \in (1..n) \X (1..n) :
                         Better(kept[e[2]], kept[e[1]]) \/ (Tied(kept[e[1]], kept[e[2]]) /\ e[1] < e[2])}
  <1>1. /\ n \in Nat /\ DOMAIN kept = 1..n /\ \A i \in 1..n : IsPlan(kept[i])
        /\ \A q \in ToSet(kept) : \E i \in 1..n : q = kept[i]
    BY ListProperties DEF ArePlans
  <1>2. n \in Nat \ {0}
    BY <1>1, EmptyList DEF ArePlans
  <1> HIDE DEF n
  <1>3. \A i, j \in 1..n : <<i, j>> \in after <=>
          Better(kept[j], kept[i]) \/ (Tied(kept[i], kept[j]) /\ i < j)
    OBVIOUS
  <1> HIDE DEF after
  <1>4. \A i, j \in 1..n : i # j => <<i, j>> \in after \/ <<j, i>> \in after
    BY <1>2, <1>3 DEF Tied
  <1>5. \A i, j \in 1..n : <<i, j>> \in after => ~Better(kept[i], kept[j])
    BY <1>1, <1>3, BetterIsAsymmetric DEF Tied
  <1>6. \A i, j, k \in 1..n : (~Better(kept[i], kept[j]) /\ ~Better(kept[j], kept[k])) => ~Better(kept[i], kept[k])
    BY <1>1, NotBetterIsTransitive
  <1>7. ASSUME NEW i \in 1..n, NEW j \in 1..n, NEW k \in 1..n, <<i, j>> \in after, <<j, k>> \in after
        PROVE  <<i, k>> \in after
    <2>1. ~Better(kept[i], kept[j]) /\ ~Better(kept[j], kept[k]) /\ ~Better(kept[i], kept[k])
      BY <1>5, <1>6, <1>7
    <2>2. ASSUME ~Better(kept[k], kept[i]) PROVE Tied(kept[i], kept[k]) /\ i < k
      <3>1. ~Better(kept[j], kept[i]) /\ ~Better(kept[k], kept[j])
        BY <1>6, <2>1, <2>2
      <3>2. i < j /\ j < k
        BY <1>3, <1>7, <3>1
      <3> QED
        BY <1>2, <2>1, <2>2, <3>2 DEF Tied
    <2> QED
      BY <1>3, <2>2
  <1>8. PICK w \in 1..n : \A j \in (1..n) \ {w} : <<w, j>> \in after
    BY <1>2, <1>4, <1>7, LastOfMany
  <1> DEFINE IsWorst(i) == \A j \in DOMAIN kept \ {i} :
                          LET a == ScorePlan(kept[i], ctx)  b == ScorePlan(kept[j], ctx)
                          IN \/ Less(b, a)
                             \/ /\ Same(a, b)
                                /\ \/ KeyLess(PlanKey(kept[j], ctx), PlanKey(kept[i], ctx))
                                   \/ PlanKey(kept[j], ctx) = PlanKey(kept[i], ctx) /\ i < j
  <1>9. \A i \in 1..n : IsScore(ScorePlan(kept[i], ctx)) /\ IsKey(PlanKey(kept[i], ctx))
    BY <1>1, ScoreIsRational, KeyIsOfNumbers
  <1>10. IsWorst(w)
    <2>1. ASSUME NEW j \in DOMAIN kept \ {w}
          PROVE  LET a == ScorePlan(kept[w], ctx)  b == ScorePlan(kept[j], ctx)
                 IN \/ Less(b, a)
                    \/ /\ Same(a, b)
                       /\ \/ KeyLess(PlanKey(kept[j], ctx), PlanKey(kept[w], ctx))
                          \/ PlanKey(kept[j], ctx) = PlanKey(kept[w], ctx) /\ w < j
      <3>1. j \in 1..n /\ <<w, j>> \in after
        BY <1>1, <1>8, <2>1
      <3>2. Better(kept[j], kept[w]) \/ (Tied(kept[w], kept[j]) /\ w < j)
        BY <1>3, <3>1
      <3>3. Same(ScorePlan(kept[j], ctx), ScorePlan(kept[w], ctx))
              <=> Same(ScorePlan(kept[w], ctx), ScorePlan(kept[j], ctx))
        BY <1>9, <3>1, ScoresAreOrdered
      <3>4. CASE Better(kept[j], kept[w])
        BY <3>3, <3>4 DEF Better
      <3>5. CASE Tied(kept[w], kept[j]) /\ w < j
        BY <1>1, <3>1, <3>5, BetterIsAsymmetric
      <3> QED
        BY <3>2, <3>4, <3>5
    <2> HIDE DEF IsWorst
    <2> QED
      BY <2>1 DEF IsWorst
  <1>11. Worst = CHOOSE i \in DOMAIN kept : IsWorst(i)
    BY DEF Worst
  <1> HIDE DEF IsWorst
  <1>12. Worst \in 1..n /\ IsWorst(Worst)
    BY <1>1, <1>10, <1>11
  <1>13. ASSUME NEW j \in 1..n PROVE ~Better(kept[Worst], kept[j])
    <2>1. CASE j = Worst
      BY <1>1, <2>1, BetterIsAsymmetric
    <2>2. CASE j # Worst
      <3> DEFINE a == ScorePlan(kept[Worst], ctx)  b == ScorePlan(kept[j], ctx)
                 x == PlanKey(kept[Worst], ctx)  y == PlanKey(kept[j], ctx)
      <3>1. Less(b, a) \/ (Same(a, b) /\ (KeyLess(y, x) \/ y = x))
        BY <1>1, <1>12, <2>2 DEF IsWorst
      <3>2. Better(kept[Worst], kept[j]) <=> Less(a, b) \/ (Same(a, b) /\ KeyLess(x, y))
        BY DEF Better
      <3>3. IsScore(a) /\ IsScore(b) /\ IsKey(x) /\ IsKey(y)
        BY <1>9, <1>12
      <3> HIDE DEF a, b, x, y
      <3>4. /\ ~(Less(a, b) /\ Less(b, a))
            /\ Same(a, b) => ~Less(a, b) /\ ~Less(b, a)
        BY <3>3, ScoresAreOrdered
      <3>5. KeyLess(y, x) \/ y = x => ~KeyLess(x, y)
        BY <3>3, KeysAreAsymmetric
      <3> QED
        BY <3>1, <3>2, <3>4, <3>5
    <2> QED
      BY <2>1, <2>2
  <1> QED
    BY <1>1, <1>12, <1>13 DEF n


\* The plan is in the list, or the list is full of plans no worse.
InTop(p, s) == p \in ToSet(s) \/ (Len(s) = K /\ \A q \in ToSet(s) : ~Better(p, q))

LEMMA KeepingTheBest ==
    ASSUME IsContext(ctx), goal = "top", K \in Nat \ {0},
           ArePlans(kept), IsInjective(kept), Len(kept) <= K,
           NEW p, IsPlan(p), p \notin ToSet(kept)
    PROVE  LET best == KeepLeaf(p)
           IN /\ ArePlans(best) /\ IsInjective(best) /\ Len(best) <= K
              /\ ToSet(best) \subseteq ToSet(kept) \cup {p}
              /\ InTop(p, best)
              /\ \A a : IsPlan(a) /\ InTop(a, kept) => InTop(a, best)
  <1> DEFINE n == Len(kept)
             best == KeepLeaf(p)
  <1>1. /\ n \in Nat /\ DOMAIN kept = 1..n /\ \A i \in 1..n : kept[i] \in ToSet(kept)
        /\ \A q \in ToSet(kept) : \E i \in 1..n : q = kept[i]
    BY ListProperties DEF ArePlans
  <1>0. \A m \in Nat : (m < K => m # K) /\ (m <= K => m < K \/ m = K)
    OBVIOUS
  <1>2. CASE n < K
    <2>1. best = Append(kept, p)
      BY <1>2 DEF KeepLeaf
    <2>2. /\ IsList(best) /\ ToSet(best) = ToSet(kept) \cup {p} /\ Len(best) = n + 1 /\ IsInjective(best)
      BY <2>1, AppendIsList, AppendKeepsDistinct DEF ArePlans
    <2>3. \A a : InTop(a, kept) => a \in ToSet(kept)
      BY <1>2, <1>0 DEF InTop
    <2> HIDE DEF best
    <2>4. n + 1 <= K
      BY <1>1, <1>2
    <2>5. InTop(p, best) /\ \A a : InTop(a, kept) => InTop(a, best)
      BY <2>2, <2>3 DEF InTop
    <2>6. ArePlans(best)
      BY <2>2 DEF ArePlans
    <2> QED
      BY <2>2, <2>4, <2>5, <2>6 DEF best
  <1>3. CASE n = K
    <2>1. n # 0 /\ kept # <<>>
      BY <1>3, EmptyList DEF ArePlans
    <2>2. Worst \in 1..n /\ \A q \in ToSet(kept) : ~Better(kept[Worst], q)
      BY <2>1, WorstIsWorst
    <2> DEFINE w == Worst
               replaced == [kept EXCEPT ![w] = p]
    <2>3. best = IF Better(p, kept[w]) THEN replaced ELSE kept
      BY <1>1, <1>3 DEF KeepLeaf
    <2>4. IsPlan(kept[w]) /\ kept[w] \in ToSet(kept) /\ w \in 1..n
      BY <1>1, <2>2 DEF ArePlans
    <2>5. CASE Better(p, kept[w])
      <3>1. best = replaced
        BY <2>3, <2>5
      <3>2. kept \in Seq(ToSet(kept)) /\ kept \in [1..n -> ToSet(kept)]
        BY <1>1 DEF ArePlans, IsList
      <3>3. replaced \in [1..n -> ToSet(kept) \cup {p}]
        BY <2>4, <3>2
      <3>4. replaced[w] = p /\ \A i \in (1..n) \ {w} : replaced[i] = kept[i]
        BY <2>4, <3>2
      <3> HIDE DEF best, w, replaced
      <3>5. IsList(replaced) /\ Len(replaced) = n /\ ToSet(replaced) \subseteq ToSet(kept) \cup {p}
        BY <1>1, <3>3, FunctionsAreLists
      <3>6. DOMAIN replaced = 1..n /\ (\A i \in 1..n : replaced[i] \in ToSet(replaced))
            /\ \A q \in ToSet(replaced) : \E i \in 1..n : q = replaced[i]
        BY <3>5, ListProperties
      <3>7. IsInjective(replaced)
        <4>1. \A i, j \in 1..n : kept[i] = kept[j] => i = j
          BY <1>1 DEF IsInjective
        <4>2. \A i \in 1..n : kept[i] # p
          BY <1>1
        <4>3. \A i, j \in 1..n : replaced[i] = replaced[j] => i = j
          BY <3>4, <4>1, <4>2
        <4> QED
          BY <3>6, <4>3 DEF IsInjective
      <3>8. p \in ToSet(replaced)
        BY <2>4, <3>4, <3>6
      <3>9. ArePlans(replaced)
        BY <3>5 DEF ArePlans
      <3>10. ~Better(kept[w], p)
        BY <2>4, <2>5, BetterIsAsymmetric
      <3>11. ASSUME NEW a, IsPlan(a), InTop(a, kept) PROVE InTop(a, replaced)
        <4>1. CASE a \in ToSet(kept) /\ a # kept[w]
          <5>1. PICK i \in 1..n : a = kept[i]
            BY <1>1, <4>1
          <5>2. a = replaced[i]
            BY <3>4, <4>1, <5>1
          <5> QED
            BY <3>6, <5>2 DEF InTop
        <4>2. CASE a = kept[w]
          <5>1. \A q \in ToSet(kept) : ~Better(a, q)
            BY <2>2, <4>2 DEF w
          <5> QED
            BY <1>3, <3>5, <3>10, <4>2, <5>1 DEF InTop
        <4>3. CASE \A q \in ToSet(kept) : ~Better(a, q)
          <5>1. ~Better(a, p)
            BY <2>4, <3>10, <3>11, <4>3, NotBetterIsTransitive
          <5> QED
            BY <1>3, <3>5, <4>3, <5>1 DEF InTop
        <4> QED
          BY <3>11, <4>1, <4>2, <4>3 DEF InTop
      <3>12. InTop(p, replaced)
        BY <3>8 DEF InTop
      <3> QED
        BY <1>3, <3>1, <3>5, <3>7, <3>9, <3>11, <3>12 DEF best
    <2>6. CASE ~Better(p, kept[w])
      <3>1. best = kept
        BY <2>3, <2>6
      <3>2. \A q \in ToSet(kept) : ~Better(p, q)
        BY <2>2, <2>4, <2>6, NotBetterIsTransitive DEF ArePlans
      <3>3. InTop(p, kept)
        BY <1>3, <3>2 DEF InTop
      <3> QED
        BY <1>3, <3>1, <3>3
    <2> QED
      BY <2>5, <2>6
  <1>4. n < K \/ n = K
    BY <1>0
  <1> HIDE DEF n, best
  <1> QED
    BY <1>2, <1>3, <1>4, Zenon DEF best

-----------------------------------------------------------------------------
(* The choices of a search.                                                *)

\* The choice starts as the assignment does.
Agrees(a, s, k) == \A j \in 1..k : a[j] = s[j]

GoodLeaves(c) == {a \in ValidLeaves(c) : WellFormed(LeafPlan(a, c))}

LEMMA ValuesArePlacements ==
    ASSUME NEW c, IsContext(c), NEW i \in 1..Len(SearchVariables(c)),
           NEW x \in ToSet(RawValues(SearchVariables(c)[i], c))
    PROVE  IsPlacement(x)
  BY VariablesAreOk, RawValuesAreOk DEF IsPlan

LEMMA ChoiceIsAPlan ==
    ASSUME NEW c, IsContext(c), NEW a \in ValueChoices(c)
    PROVE  /\ IsList(a) /\ Len(a) = Len(SearchVariables(c))
           /\ \A i \in 1..Len(a) : a[i] \in ToSet(RawValues(SearchVariables(c)[i], c))
           /\ IsPlan(LeafPlan(a, c))
  <1> DEFINE vars == SearchVariables(c)
             values == UNION {ToSet(RawValues(vars[i], c)) : i \in DOMAIN vars}
  <1>1. Len(vars) \in Nat /\ DOMAIN vars = 1..Len(vars)
    BY VariablesAreOk
  <1>2. a \in [1..Len(vars) -> values] /\ \A i \in 1..Len(vars) : a[i] \in ToSet(RawValues(vars[i], c))
    BY <1>1 DEF ValueChoices
  <1> HIDE DEF values, vars
  <1>3. IsList(a) /\ Len(a) = Len(vars)
    BY <1>1, <1>2, FunctionsAreLists
  <1>4. \A i \in 1..Len(a) : IsPlacement(a[i])
    BY <1>2, <1>3, ValuesArePlacements DEF vars
  <1>5. IsPlan(a)
    BY <1>3, <1>4, ListProperties DEF IsPlan
  <1>6. IsPlan(LeafPlan(a, c))
    BY <1>5, FixedIsPlan, ConcatIsList DEF IsPlan, LeafPlan
  <1> QED
    BY <1>2, <1>3, <1>6 DEF vars

\* A list and one more element, after another list.
LEMMA AppendToEnd ==
    ASSUME NEW f, NEW s, NEW x, IsList(f), IsList(s)
    PROVE  Append(f \o s, x) = f \o Append(s, x)
  <1>1. /\ IsList(f \o s) /\ Len(f \o s) = Len(f) + Len(s)
        /\ \A i \in 1..Len(f) : (f \o s)[i] = f[i]
        /\ \A i \in 1..Len(s) : (f \o s)[Len(f) + i] = s[i]
    BY ConcatIsList
  <1>2. /\ IsList(Append(s, x)) /\ Len(Append(s, x)) = Len(s) + 1
        /\ \A i \in 1..Len(s) : Append(s, x)[i] = s[i]
        /\ Append(s, x)[Len(s) + 1] = x
    BY AppendIsList
  <1> DEFINE l == Append(f \o s, x)
             r == f \o Append(s, x)
             t == Append(s, x)
             u == f \o s
  <1>3. Len(f) \in Nat /\ Len(s) \in Nat
    BY ListProperties
  <1>4. /\ IsList(l) /\ Len(l) = Len(f) + Len(s) + 1
        /\ \A i \in 1..(Len(f) + Len(s)) : l[i] = u[i]
        /\ l[Len(f) + Len(s) + 1] = x
    <2> HIDE DEF u
    <2> QED
      BY <1>1, AppendIsList DEF u
  <1>5. /\ IsList(r) /\ Len(r) = Len(f) + (Len(s) + 1)
        /\ \A i \in 1..Len(f) : r[i] = f[i]
        /\ \A i \in 1..(Len(s) + 1) : r[Len(f) + i] = t[i]
    <2> HIDE DEF t
    <2> QED
      BY <1>2, ConcatIsList DEF t
  <1>6. ASSUME NEW i \in 1..(Len(f) + Len(s) + 1) PROVE l[i] = r[i]
    <2>1. CASE i \in 1..Len(f)
      BY <1>1, <1>3, <1>4, <1>5, <2>1
    <2>2. CASE i \notin 1..Len(f)
      <3> DEFINE j == i - Len(f)
      <3>1. j \in 1..(Len(s) + 1) /\ i = Len(f) + j
        BY <1>3, <2>2
      <3> HIDE DEF j, l, r
      <3>2. r[i] = t[j]
        BY <1>5, <3>1
      <3>3. CASE j \in 1..Len(s)
        <4>1. i \in 1..(Len(f) + Len(s))
          BY <1>3, <3>1, <3>3
        <4> QED
          BY <1>1, <1>2, <1>4, <3>1, <3>2, <3>3, <4>1
      <3>4. CASE j = Len(s) + 1
        BY <1>2, <1>3, <1>4, <3>1, <3>2, <3>4
      <3> QED
        BY <1>3, <3>1, <3>3, <3>4
    <2> QED
      BY <2>1, <2>2
  <1> HIDE DEF l, r
  <1>7. Len(l) = Len(r) /\ \A i \in 1..Len(l) : l[i] = r[i]
    BY <1>3, <1>4, <1>5, <1>6
  <1>8. l = r
    BY <1>4, <1>5, <1>7, ListsEqual
  <1> QED
    BY <1>8 DEF l, r

LEMMA PrefixesEqual ==
    ASSUME NEW s, NEW t, NEW k, IsList(s), IsList(t), k \in 0..Len(s), k \in 0..Len(t), Agrees(s, t, k)
    PROVE  SubSeq(s, 1, k) = SubSeq(t, 1, k)
  <1>1. /\ IsList(SubSeq(s, 1, k)) /\ Len(SubSeq(s, 1, k)) = k /\ \A i \in 1..k : SubSeq(s, 1, k)[i] = s[i]
        /\ IsList(SubSeq(t, 1, k)) /\ Len(SubSeq(t, 1, k)) = k /\ \A i \in 1..k : SubSeq(t, 1, k)[i] = t[i]
    BY PrefixIsList
  <1>2. PICK x : x = SubSeq(s, 1, k)
    OBVIOUS
  <1>3. PICK y : y = SubSeq(t, 1, k)
    OBVIOUS
  <1>4. /\ IsList(x) /\ Len(x) = k /\ \A i \in 1..k : x[i] = s[i]
        /\ IsList(y) /\ Len(y) = k /\ \A i \in 1..k : y[i] = t[i]
    BY <1>1, <1>2, <1>3, Zenon
  <1>5. Len(x) = Len(y) /\ \A i \in 1..Len(x) : x[i] = y[i]
    BY <1>4 DEF Agrees
  <1>6. x = y
    BY <1>4, <1>5, ListsEqual
  <1> QED
    BY <1>2, <1>3, <1>6

LEMMA PrefixStep ==
    ASSUME NEW s, IsList(s), NEW k \in 1..Len(s)
    PROVE  SubSeq(s, 1, k) = Append(SubSeq(s, 1, k - 1), s[k])
  <1>1. Len(s) \in Nat /\ k \in 0..Len(s) /\ k - 1 \in 0..Len(s)
    BY ListProperties
  <1>2. PICK x : x = SubSeq(s, 1, k)
    OBVIOUS
  <1>3. PICK y : y = SubSeq(s, 1, k - 1)
    OBVIOUS
  <1>4. IsList(x) /\ Len(x) = k /\ \A i \in 1..k : x[i] = s[i]
    BY <1>1, <1>2, PrefixIsList
  <1>5. IsList(y) /\ Len(y) = k - 1 /\ \A i \in 1..(k - 1) : y[i] = s[i]
    <2>1. \A m \in 0..Len(s) : /\ IsList(SubSeq(s, 1, m)) /\ Len(SubSeq(s, 1, m)) = m
                               /\ \A i \in 1..m : SubSeq(s, 1, m)[i] = s[i]
      BY PrefixIsList
    <2> QED
      BY <1>1, <1>3, <2>1, Zenon
  <1>6. PICK z : z = Append(y, s[k])
    OBVIOUS
  <1>7. /\ IsList(z) /\ Len(z) = Len(y) + 1 /\ \A i \in 1..Len(y) : z[i] = y[i]
        /\ z[Len(y) + 1] = s[k]
    BY <1>5, <1>6, AppendIsList
  <1>8. Len(z) = k /\ \A i \in 1..k : z[i] = x[i]
    BY <1>1, <1>4, <1>5, <1>7
  <1>9. x = z
    BY <1>4, <1>7, <1>8, ListsEqual
  <1> QED
    BY <1>2, <1>3, <1>6, <1>9

LEMMA PrefixOfPlan ==
    ASSUME NEW f, NEW a, IsList(f), IsList(a), NEW k \in 0..Len(a)
    PROVE  /\ SubSeq(f \o a, 1, Len(f) + k) = f \o SubSeq(a, 1, k)
           /\ Len(f) + k \in 0..Len(f \o a)
  <1>1. Len(f) \in Nat /\ Len(a) \in Nat
    BY ListProperties
  <1>2. PICK s : s = SubSeq(a, 1, k)
    OBVIOUS
  <1>3. IsList(s) /\ Len(s) = k /\ \A i \in 1..k : s[i] = a[i]
    BY <1>2, PrefixIsList
  <1>4. PICK p : p = f \o a
    OBVIOUS
  <1>5. /\ IsList(p) /\ Len(p) = Len(f) + Len(a)
        /\ \A i \in 1..Len(f) : p[i] = f[i]
        /\ \A i \in 1..Len(a) : p[Len(f) + i] = a[i]
    BY <1>4, ConcatIsList
  <1>6. Len(f) + k \in 0..Len(p)
    BY <1>1, <1>5
  <1>7. PICK l : l = SubSeq(p, 1, Len(f) + k)
    OBVIOUS
  <1>8. IsList(l) /\ Len(l) = Len(f) + k /\ \A i \in 1..(Len(f) + k) : l[i] = p[i]
    <2>1. \A m \in 0..Len(p) : /\ IsList(SubSeq(p, 1, m)) /\ Len(SubSeq(p, 1, m)) = m
                               /\ \A i \in 1..m : SubSeq(p, 1, m)[i] = p[i]
      BY <1>5, PrefixIsList
    <2> QED
      BY <1>6, <1>7, <2>1, Zenon
  <1>9. PICK r : r = f \o s
    OBVIOUS
  <1>10. /\ IsList(r) /\ Len(r) = Len(f) + Len(s)
         /\ \A i \in 1..Len(f) : r[i] = f[i]
         /\ \A i \in 1..Len(s) : r[Len(f) + i] = s[i]
    <2>1. /\ IsList(f \o s) /\ Len(f \o s) = Len(f) + Len(s)
          /\ \A i \in 1..Len(f) : (f \o s)[i] = f[i]
          /\ \A i \in 1..Len(s) : (f \o s)[Len(f) + i] = s[i]
      BY <1>3, ConcatIsList
    <2> QED
      BY <1>9, <2>1
  <1>11. ASSUME NEW i \in 1..(Len(f) + k) PROVE l[i] = r[i]
    <2>1. CASE i \in 1..Len(f)
      BY <1>5, <1>8, <1>10, <2>1
    <2>2. CASE i \notin 1..Len(f)
      <3> DEFINE j == i - Len(f)
      <3>1. j \in 1..k /\ j \in 1..Len(a) /\ i = Len(f) + j
        BY <1>1, <2>2
      <3> HIDE DEF j
      <3>2. r[i] = s[j] /\ s[j] = a[j] /\ p[i] = a[j]
        BY <1>3, <1>5, <1>10, <3>1
      <3> QED
        BY <1>8, <3>2
    <2> QED
      BY <2>1, <2>2
  <1>12. Len(l) = Len(r) /\ \A i \in 1..Len(l) : l[i] = r[i]
    BY <1>3, <1>8, <1>10, <1>11
  <1>13. l = r
    BY <1>8, <1>10, <1>12, ListsEqual
  <1> QED
    BY <1>2, <1>4, <1>6, <1>7, <1>9, <1>13

\* The value a good leaf has for a variable keeps what it has for the ones
\* before legal.
LEMMA GoodValue ==
    ASSUME NEW c, IsContext(c), NEW a \in GoodLeaves(c), NEW k \in 1..Len(a)
    PROVE  IncrementalOk(Append(FixedPlacements(c) \o SubSeq(a, 1, k - 1), a[k]), c)
  <1> DEFINE f == FixedPlacements(c)
             p == LeafPlan(a, c)
  <1>1. IsList(a) /\ Len(a) = Len(SearchVariables(c)) /\ IsPlan(p)
    BY ChoiceIsAPlan DEF GoodLeaves, ValidLeaves
  <1>2. IsList(f)
    BY FixedIsPlan DEF IsPlan
  <1>3. SearchVariables(c) # <<>>
    <2>1. Len(a) # 0
      BY <1>1, ListProperties
    <2> QED
      BY <1>1, <2>1, EmptyList, VariablesAreOk
  <1>4. IncrementalOk(p, c) /\ WellFormed(p)
    BY <1>3 DEF GoodLeaves, ValidLeaves, Passes
  <1>5. p = f \o a
    BY DEF LeafPlan
  <1>6. Len(a) \in Nat /\ k \in 0..Len(a) /\ k - 1 \in 0..Len(a)
    BY <1>1, ListProperties
  <1>7. SubSeq(p, 1, Len(f) + k) = f \o SubSeq(a, 1, k) /\ Len(f) + k \in 0..Len(p)
    BY <1>1, <1>2, <1>5, <1>6, PrefixOfPlan
  <1>8. IncrementalOk(SubSeq(p, 1, Len(f) + k), c)
    <2> HIDE DEF p
    <2>1. \A m \in 0..Len(p) : IncrementalOk(SubSeq(p, 1, m), c)
      BY <1>1, <1>4, PruningLosesNothing
    <2> QED
      BY <1>7, <2>1
  <1>9. SubSeq(a, 1, k) = Append(SubSeq(a, 1, k - 1), a[k])
    BY <1>1, PrefixStep
  <1>10. IsList(SubSeq(a, 1, k - 1))
    BY <1>1, <1>6, PrefixIsList
  <1>11. f \o Append(SubSeq(a, 1, k - 1), a[k]) = Append(f \o SubSeq(a, 1, k - 1), a[k])
    BY <1>2, <1>10, AppendToEnd
  <1> QED
    BY <1>7, <1>8, <1>9, <1>11

-----------------------------------------------------------------------------
(* The inductive invariant of the search.  A leaf is pending while it      *)
(* agrees with the partial plan being visited, or with the values assigned *)
(* up to a variable that still has the leaf's value left to try.           *)

Fixed == FixedPlacements(ctx)
Vars == SearchVariables(ctx)

Pending(a) ==
  \/ phase = "visit" /\ Agrees(a, assigned, Len(assigned))
  \/ /\ phase \in {"visit", "next"}
     /\ \E i \in 1..Len(frames) : Agrees(a, assigned, i - 1) /\ a[i] \in ToSet(frames[i])

\* A value the search may give to the i-th variable after the values of s.
LegalValue(s, i, x) ==
  /\ x \in ToSet(RawValues(Vars[i], ctx))
  /\ IncrementalOk(Append(Fixed \o SubSeq(s, 1, i - 1), x), ctx)

ContextInv ==
  /\ raw \in Problems
  /\ \E g \in Int : ctx = Context(SolverInput(raw, g))

GoalInv ==
  goal = "top" => IF ctx.terms = <<>> THEN phase \in {"finalize", "decide", "done"}
                  ELSE phase \in {"visit", "next", "searched", "done"}

\* The values left for a variable are legal after those assigned before it,
\* and the one assigned is not among them.
StackInv ==
  phase \in {"visit", "next"} =>
    /\ IsList(assigned) /\ IsList(frames)
    /\ Len(assigned) <= Len(Vars) /\ Len(frames) <= Len(Vars)
    /\ phase = "visit" => Len(frames) = Len(assigned)
    /\ phase = "next" => Len(frames) \in {Len(assigned), Len(assigned) + 1}
    /\ \A i \in 1..Len(frames) : /\ IsList(frames[i]) /\ IsInjective(frames[i])
                                 /\ \A x \in ToSet(frames[i]) : LegalValue(assigned, i, x)
    /\ \A i \in 1..Len(assigned) : /\ LegalValue(assigned, i, assigned[i])
                                   /\ i <= Len(frames) => assigned[i] \notin ToSet(frames[i])

\* A leaf that was visited: all of the variables have a value and it is pending no more.
Visited(p) == \E b : p = Fixed \o b /\ IsList(b) /\ Len(b) = Len(Vars) /\ ~Pending(b)

KeptInv ==
  /\ ArePlans(kept)
  /\ \A p \in ToSet(kept) : Passes(p, ctx)
  /\ goal = "top" => Len(kept) <= K /\ IsInjective(kept)
  /\ (goal = "top" /\ phase \in {"visit", "next"}) => \A p \in ToSet(kept) : Visited(p)

Known(p) == goal = "alternative" /\ ReqSignature(p) \in {ReqSignature(d) : d \in ToSet(diverse)}

Covered(a) == \/ Pending(a)
              \/ Known(LeafPlan(a, ctx))
              \/ goal = "top" /\ InTop(LeafPlan(a, ctx), kept)

\* No good leaf is lost.
CoverInv ==
  (/\ ~truncated
   /\ \/ phase \in {"visit", "next", "searched"}
      \/ phase = "done" /\ goal = "top" /\ ctx.terms # <<>>
   /\ goal = "top" \/ kept = <<>>) =>
    \A a \in GoodLeaves(ctx) : Covered(a)

SearchInv == ContextInv /\ GoalInv /\ StackInv /\ KeptInv /\ CoverInv

-----------------------------------------------------------------------------

LEMMA ContextHolds ==
    ASSUME ContextInv
    PROVE  IsContext(ctx) /\ IsProblem(raw)
  <1>1. IsProblem(raw)
    BY PlannerAssumption DEF ContextInv
  <1>2. PICK g \in Int : ctx = Context(SolverInput(raw, g))
    BY DEF ContextInv
  <1> QED
    BY <1>1, <1>2, ContextIsOk

LEMMA SameConcat ==
    ASSUME NEW f, NEW a, NEW b, IsList(f), IsList(a), IsList(b), Len(a) = Len(b), f \o a = f \o b
    PROVE  a = b
  <1>1. PICK p : p = f \o a /\ p = f \o b
    OBVIOUS
  <1>2. \A i \in 1..Len(a) : p[Len(f) + i] = a[i]
    BY <1>1, ConcatIsList
  <1>3. \A i \in 1..Len(b) : p[Len(f) + i] = b[i]
    BY <1>1, ConcatIsList
  <1>4. \A i \in 1..Len(a) : a[i] = b[i]
    BY <1>2, <1>3
  <1> QED
    BY <1>4, ListsEqual

LEMMA FullPrefix ==
    ASSUME NEW s, IsList(s)
    PROVE  SubSeq(s, 1, Len(s)) = s
  BY SubSeqFull DEF IsList

\* The partial plan being visited passes the predicates it is pruned by.
LEMMA TrailIsLegal ==
    ASSUME ContextInv, StackInv, phase = "visit"
    PROVE  /\ IsPlan(Trail)
           /\ assigned # <<>> => IncrementalOk(Trail, ctx)
  <1>1. /\ IsContext(ctx) /\ IsList(assigned) /\ Len(assigned) <= Len(Vars)
        /\ \A i \in 1..Len(assigned) : LegalValue(assigned, i, assigned[i])
    BY ContextHolds DEF StackInv
  <1>2. IsPlan(Fixed)
    BY <1>1, FixedIsPlan DEF Fixed
  <1>3. Len(assigned) \in Nat /\ Len(Vars) \in Nat /\ \A x \in ToSet(assigned) : \E i \in 1..Len(assigned) : x = assigned[i]
    BY <1>1, ListProperties, VariablesAreOk DEF Vars
  <1>4. IsPlan(assigned)
    <2>1. ASSUME NEW i \in 1..Len(assigned) PROVE IsPlacement(assigned[i])
      <3>1. i \in 1..Len(Vars)
        BY <1>1, <1>3
      <3> QED
        BY <1>1, <3>1, ValuesArePlacements DEF LegalValue, Vars
    <2> QED
      BY <1>1, <1>3, <2>1 DEF IsPlan
  <1>5. IsPlan(Trail)
    BY <1>2, <1>4, ConcatIsList DEF IsPlan, Trail, Fixed
  <1>6. ASSUME assigned # <<>> PROVE IncrementalOk(Trail, ctx)
    <2> DEFINE k == Len(assigned)
    <2>1. k \in 1..Len(assigned) /\ k - 1 \in 0..Len(assigned)
      BY <1>1, <1>3, <1>6, EmptyList
    <2>2. IncrementalOk(Append(Fixed \o SubSeq(assigned, 1, k - 1), assigned[k]), ctx)
      BY <1>1, <2>1 DEF LegalValue
    <2>3. SubSeq(assigned, 1, k) = Append(SubSeq(assigned, 1, k - 1), assigned[k])
      BY <1>1, <2>1, PrefixStep
    <2>4. SubSeq(assigned, 1, k) = assigned
      BY <1>1, FullPrefix
    <2>5. IsList(SubSeq(assigned, 1, k - 1)) /\ IsList(Fixed)
      BY <1>1, <1>2, <2>1, PrefixIsList DEF IsPlan
    <2>6. Append(Fixed \o SubSeq(assigned, 1, k - 1), assigned[k]) = Fixed \o Append(SubSeq(assigned, 1, k - 1), assigned[k])
      BY <2>5, AppendToEnd
    <2> QED
      BY <2>2, <2>3, <2>4, <2>6 DEF Trail, Fixed
  <1> QED
    BY <1>5, <1>6

\* A leaf that is visited is kept if it is to be, and every other pending
\* leaf stays so.
LEMMA VisitLeafKeepsInv ==
    ASSUME SearchInv, VisitLeaf
    PROVE  SearchInv'
  <1> USE DEF SearchInv
  <1> DEFINE n == Len(assigned)
  <1>1. IsContext(ctx) /\ K \in Nat \ {0}
    BY ContextHolds, PlannerAssumption
  <1>2. /\ phase = "visit" /\ n = Len(Vars)
        /\ kept' = IF Accepted(Trail) THEN KeepLeaf(Trail) ELSE kept
        /\ phase' = IF Accepted(Trail) /\ goal # "top" THEN "searched" ELSE "next"
        /\ UNCHANGED <<raw, ctx, goal, assigned, frames, truncated, diverse>>
    BY DEF VisitLeaf, Vars
  <1>3. Fixed' = Fixed /\ Vars' = Vars
    BY <1>2 DEF Fixed, Vars
  <1>4. /\ IsList(assigned) /\ IsList(frames) /\ n \in Nat /\ Len(frames) = n
        /\ \A i \in 1..n : assigned[i] \notin ToSet(frames[i])
    BY <1>2, ListProperties DEF StackInv
  <1>5. ContextInv' /\ GoalInv'
    BY <1>2 DEF ContextInv, GoalInv
  <1>6. StackInv'
    BY <1>2, <1>3 DEF StackInv, LegalValue
  <1>7. Trail = Fixed \o assigned
    BY DEF Trail, Fixed
  <1>8. \A b : Pending(b)' => Pending(b)
    BY <1>2 DEF Pending, Agrees
  <1>9. \A b : (Pending(b) /\ phase' = "next") => Pending(b)' \/ Agrees(b, assigned, n)
    BY <1>2 DEF Pending, Agrees
  <1>10. \A s : s = assigned => ~Pending(s)'
    BY <1>2, <1>4 DEF Pending
  <1>11. IsPlan(Trail) /\ (assigned # <<>> => IncrementalOk(Trail, ctx))
    BY <1>2, TrailIsLegal
  <1>12. ASSUME Accepted(Trail) PROVE Passes(Trail, ctx)
    <2>1. Vars # <<>> => assigned # <<>>
      BY <1>2, <1>4, EmptyList, VariablesAreOk, <1>1 DEF Vars
    <2> QED
      BY <1>11, <1>12, <2>1 DEF Passes, Accepted, Vars
  <1>13. goal = "top" => Trail \notin ToSet(kept)
    <2> SUFFICES ASSUME goal = "top", Trail \in ToSet(kept) PROVE FALSE
      OBVIOUS
    <2>1. PICK b : Trail = Fixed \o b /\ IsList(b) /\ Len(b) = Len(Vars) /\ ~Pending(b)
      BY <1>2 DEF KeptInv, Visited
    <2>2. b = assigned
      BY <1>1, <1>2, <1>4, <1>7, <2>1, SameConcat, FixedIsPlan DEF IsPlan, Fixed
    <2>3. Agrees(assigned, assigned, n)
      BY DEF Agrees
    <2> QED
      BY <1>2, <2>1, <2>2, <2>3 DEF Pending
  <1>14. \A p : p = Trail => Visited(p)'
    <2> SUFFICES ASSUME NEW p, p = Trail PROVE Visited(p)'
      OBVIOUS
    <2>1. PICK s : s = assigned
      OBVIOUS
    <2>2. p = Fixed' \o s /\ IsList(s) /\ Len(s) = Len(Vars')
      BY <1>2, <1>3, <1>4, <1>7, <2>1
    <2>3. ~Pending(s)'
      BY <1>10, <2>1
    <2> QED
      BY <2>2, <2>3 DEF Visited
  <1>15. \A p : Visited(p) => Visited(p)'
    BY <1>3, <1>8 DEF Visited
  <1>16. CASE ~Accepted(Trail)
    <2>1. kept' = kept /\ phase' = "next"
      BY <1>2, <1>16
    <2>2. KeptInv'
      BY <1>2, <1>15, <2>1 DEF KeptInv, ArePlans
    <2>3. CoverInv'
      <3> SUFFICES ASSUME ~truncated', goal' = "top" \/ kept' = <<>>, NEW a \in GoodLeaves(ctx)'
                   PROVE  Covered(a)'
        BY DEF CoverInv
      <3>1. Covered(a) /\ a \in GoodLeaves(ctx)
        BY <1>2, <2>1 DEF CoverInv
      <3>2. CASE Agrees(a, assigned, n)
        <4>1. IsList(a) /\ Len(a) = n
          BY <1>1, <1>2, <3>1, ChoiceIsAPlan DEF GoodLeaves, ValidLeaves, Vars
        <4>2. a = assigned
          BY <1>4, <3>2, <4>1, ListsEqual DEF Agrees
        <4>3. LeafPlan(a, ctx) = Trail
          BY <4>2 DEF LeafPlan, Trail
        <4>4. LeafOk(Trail, ctx)
          BY <3>1, <4>3 DEF GoodLeaves, ValidLeaves, Passes
        <4>5. Known(LeafPlan(a, ctx))
          BY <1>16, <4>3, <4>4 DEF Accepted, Known
        <4> QED
          BY <1>2, <4>5 DEF Covered, Known
      <3>3. CASE Pending(a) /\ ~Agrees(a, assigned, n)
        BY <1>9, <2>1, <3>3 DEF Covered
      <3>4. CASE Known(LeafPlan(a, ctx))
        BY <1>2, <3>4 DEF Covered, Known
      <3>5. CASE goal = "top" /\ InTop(LeafPlan(a, ctx), kept)
        BY <1>2, <2>1, <3>5 DEF Covered, InTop, Better
      <3> QED
        BY <3>1, <3>2, <3>3, <3>4, <3>5 DEF Covered
    <2> QED
      BY <1>5, <1>6, <2>2, <2>3
  <1>17. CASE Accepted(Trail) /\ goal # "top"
    <2>1. kept' = Append(kept, Trail) /\ phase' = "searched"
      BY <1>2, <1>17 DEF KeepLeaf
    <2>2. IsList(kept') /\ ToSet(kept') = ToSet(kept) \cup {Trail} /\ kept' # <<>>
      <3>1. /\ IsList(Append(kept, Trail)) /\ ToSet(Append(kept, Trail)) = ToSet(kept) \cup {Trail}
        BY AppendIsList DEF KeptInv, ArePlans
      <3>2. ToSet(<<>>) = {}
        BY NothingIsAList
      <3>3. Trail \in ToSet(kept')
        BY <2>1, <3>1
      <3> QED
        BY <2>1, <3>1, <3>2, <3>3
    <2>3. KeptInv'
      BY <1>2, <1>11, <1>12, <1>17, <2>1, <2>2 DEF KeptInv, ArePlans
    <2>4. CoverInv'
      BY <1>2, <1>17, <2>2 DEF CoverInv
    <2> QED
      BY <1>5, <1>6, <2>3, <2>4
  <1>18. CASE Accepted(Trail) /\ goal = "top"
    <2>1. kept' = KeepLeaf(Trail) /\ phase' = "next"
      BY <1>2, <1>18
    <2>2. /\ ArePlans(kept') /\ IsInjective(kept') /\ Len(kept') <= K
          /\ ToSet(kept') \subseteq ToSet(kept) \cup {Trail}
          /\ InTop(Trail, kept')
          /\ \A a : IsPlan(a) /\ InTop(a, kept) => InTop(a, kept')
      BY <1>1, <1>11, <1>13, <1>18, <2>1, KeepingTheBest DEF KeptInv
    <2>3. KeptInv'
      <3>1. \A p \in ToSet(kept') : Passes(p, ctx)
        BY <1>12, <1>18, <2>2 DEF KeptInv
      <3>2. ASSUME NEW p \in ToSet(kept') PROVE Visited(p)'
        <4>1. p = Trail \/ p \in ToSet(kept)
          BY <2>2
        <4>2. p \in ToSet(kept) => Visited(p)
          BY <1>2, <1>18 DEF KeptInv
        <4> QED
          BY <1>14, <1>15, <4>1, <4>2
      <3> QED
        BY <1>2, <2>2, <3>1, <3>2 DEF KeptInv, ArePlans
    <2>4. CoverInv'
      <3> SUFFICES ASSUME ~truncated', NEW a \in GoodLeaves(ctx)'
                   PROVE  Covered(a)'
        BY DEF CoverInv
      <3>1. Covered(a) /\ a \in GoodLeaves(ctx)
        BY <1>2, <1>18 DEF CoverInv
      <3>2. IsList(a) /\ Len(a) = n /\ IsPlan(LeafPlan(a, ctx))
        BY <1>1, <1>2, <3>1, ChoiceIsAPlan DEF GoodLeaves, ValidLeaves, Vars
      <3>3. CASE InTop(LeafPlan(a, ctx), kept')
        BY <1>2, <1>18, <3>3 DEF Covered, InTop, Better
      <3>4. CASE Agrees(a, assigned, n)
        <4>1. a = assigned
          BY <1>4, <3>2, <3>4, ListsEqual DEF Agrees
        <4>2. LeafPlan(a, ctx) = Trail
          BY <4>1 DEF LeafPlan, Trail
        <4> QED
          BY <2>2, <3>3, <4>2
      <3>5. CASE Pending(a) /\ ~Agrees(a, assigned, n)
        BY <1>9, <2>1, <3>5 DEF Covered
      <3>6. CASE InTop(LeafPlan(a, ctx), kept)
        BY <2>2, <3>2, <3>3, <3>6
      <3> QED
        BY <1>18, <3>1, <3>4, <3>5, <3>6 DEF Covered, Known
    <2> QED
      BY <1>5, <1>6, <2>3, <2>4
  <1> QED
    BY <1>16, <1>17, <1>18


\* The values left for the next variable hold the one of every good leaf that
\* agrees so far.
LEMMA VisitVariableKeepsInv ==
    ASSUME SearchInv, VisitVariable
    PROVE  SearchInv'
  <1> USE DEF SearchInv
  <1> DEFINE k == Len(assigned)
             v == Vars[k + 1]
             values == CandidateValues(v, Trail, ctx, goal # "top")
  <1>1. IsContext(ctx)
    BY ContextHolds
  <1>2. /\ phase = "visit" /\ phase' = "next" /\ k < Len(Vars)
        /\ frames' = Append(frames, values)
        /\ UNCHANGED <<raw, ctx, goal, assigned, truncated, kept, diverse>>
    BY DEF VisitVariable, Vars
  <1>3. Fixed' = Fixed /\ Vars' = Vars
    BY <1>2 DEF Fixed, Vars
  <1>4. /\ IsList(assigned) /\ IsList(frames) /\ k \in Nat /\ Len(frames) = k /\ Len(Vars) \in Nat
    BY <1>1, <1>2, ListProperties, VariablesAreOk DEF StackInv, Vars
  <1>5. v \in ToSet(ctx.vars) /\ k + 1 \in 1..Len(Vars)
    BY <1>1, <1>2, <1>4, VariablesAreOk DEF Vars
  <1>6. /\ IsList(values) /\ IsInjective(values)
        /\ ToSet(values) = {x \in ToSet(RawValues(v, ctx)) : IncrementalOk(Append(Trail, x), ctx)}
    BY <1>1, <1>5, CandidatesAreLegal
  <1> HIDE DEF v, values
  <1>7. /\ IsList(frames') /\ Len(frames') = k + 1 /\ frames'[k + 1] = values
        /\ \A i \in 1..k : frames'[i] = frames[i]
    BY <1>2, <1>4, AppendIsList
  <1>8. ContextInv' /\ GoalInv'
    BY <1>2 DEF ContextInv, GoalInv
  <1>9. SubSeq(assigned, 1, (k + 1) - 1) = assigned
    <2>1. (k + 1) - 1 = k
      BY <1>4
    <2> QED
      BY <1>4, <2>1, FullPrefix
  <1>10. StackInv'
    <2>1. ASSUME NEW x \in ToSet(values) PROVE LegalValue(assigned, k + 1, x)
      BY <1>6, <1>9 DEF LegalValue, Trail, Fixed, v
    <2>2. \A i, x : LegalValue(assigned, i, x) => LegalValue(assigned, i, x)'
      BY <1>2, <1>3 DEF LegalValue
    <2>3. ASSUME NEW i \in 1..Len(frames')
          PROVE  /\ IsList(frames'[i]) /\ IsInjective(frames'[i])
                 /\ \A x \in ToSet(frames'[i]) : LegalValue(assigned, i, x)
      <3>1. CASE i = k + 1
        BY <1>6, <1>7, <2>1, <3>1
      <3>2. CASE i \in 1..k
        BY <1>2, <1>4, <1>7, <3>2 DEF StackInv
      <3> QED
        BY <1>4, <1>7, <3>1, <3>2
    <2>4. ASSUME NEW i \in 1..Len(assigned)
          PROVE  LegalValue(assigned, i, assigned[i]) /\ assigned[i] \notin ToSet(frames'[i])
      BY <1>2, <1>4, <1>7 DEF StackInv
    <2>5. k + 1 <= Len(Vars)
      BY <1>2, <1>4
    <2>6. \A i \in 1..Len(frames') : \A x \in ToSet(frames'[i]) : LegalValue(assigned, i, x)'
      BY <2>2, <2>3
    <2>7. \A i \in 1..Len(assigned') : LegalValue(assigned, i, assigned[i])' /\ assigned'[i] \notin ToSet(frames'[i])
      BY <1>2, <2>2, <2>4
    <2> QED
      BY <1>2, <1>3, <1>4, <1>7, <2>3, <2>5, <2>6, <2>7 DEF StackInv
  <1>11. \A b : Pending(b)' => Pending(b)
    <2> SUFFICES ASSUME NEW b, Pending(b)' PROVE Pending(b)
      OBVIOUS
    <2>1. PICK i \in 1..(k + 1) : Agrees(b, assigned, i - 1) /\ b[i] \in ToSet(frames'[i])
      BY <1>2, <1>7 DEF Pending, Agrees
    <2>2. CASE i = k + 1
      <3>1. i - 1 = k
        BY <1>4, <2>2
      <3> QED
        BY <1>2, <2>1, <3>1 DEF Pending
    <2>3. CASE i \in 1..k
      BY <1>2, <1>4, <1>7, <2>1, <2>3 DEF Pending
    <2> QED
      BY <1>4, <2>2, <2>3
  <1>12. ASSUME NEW a \in GoodLeaves(ctx), Pending(a) PROVE Pending(a)'
    <2>1. CASE Agrees(a, assigned, k)
      <3>1. /\ IsList(a) /\ Len(a) = Len(Vars)
            /\ \A i \in 1..Len(a) : a[i] \in ToSet(RawValues(Vars[i], ctx))
        BY <1>1, ChoiceIsAPlan DEF GoodLeaves, ValidLeaves, Vars
      <3>2. IncrementalOk(Append(Fixed \o SubSeq(a, 1, (k + 1) - 1), a[k + 1]), ctx)
        BY <1>1, <1>5, <3>1, GoodValue DEF Fixed
      <3>3. k \in 0..Len(a) /\ k \in 0..Len(assigned) /\ (k + 1) - 1 = k
        BY <1>2, <1>4, <3>1
      <3>4. SubSeq(a, 1, k) = SubSeq(assigned, 1, k)
        BY <1>4, <2>1, <3>1, <3>3, PrefixesEqual
      <3>5. IncrementalOk(Append(Trail, a[k + 1]), ctx)
        BY <1>9, <3>2, <3>3, <3>4 DEF Trail, Fixed
      <3>6. a[k + 1] \in ToSet(frames'[k + 1])
        BY <1>5, <1>6, <1>7, <3>1, <3>5 DEF v
      <3>7. k + 1 \in 1..Len(frames') /\ (k + 1) - 1 = k
        BY <1>4, <1>7
      <3>8. Agrees(a, assigned, (k + 1) - 1)'
        BY <1>2, <2>1, <3>7 DEF Agrees
      <3> QED
        BY <1>2, <3>6, <3>7, <3>8 DEF Pending
    <2>2. CASE \E i \in 1..k : Agrees(a, assigned, i - 1) /\ a[i] \in ToSet(frames[i])
      <3>1. PICK i \in 1..k : Agrees(a, assigned, i - 1) /\ a[i] \in ToSet(frames[i])
        BY <2>2
      <3>2. i \in 1..Len(frames') /\ a[i] \in ToSet(frames'[i]) /\ Agrees(a, assigned, i - 1)'
        BY <1>2, <1>4, <1>7, <3>1 DEF Agrees
      <3> QED
        BY <1>2, <3>2 DEF Pending
    <2> QED
      BY <1>4, <1>12, <2>1, <2>2 DEF Pending
  <1>13. KeptInv'
    <2>1. \A p : Visited(p) => Visited(p)'
      BY <1>3, <1>11 DEF Visited
    <2> QED
      BY <1>2, <2>1 DEF KeptInv, ArePlans
  <1>14. CoverInv'
    <2> SUFFICES ASSUME ~truncated', goal' = "top" \/ kept' = <<>>, NEW a \in GoodLeaves(ctx)'
                 PROVE  Covered(a)'
      BY DEF CoverInv
    <2>1. Covered(a) /\ a \in GoodLeaves(ctx)
      BY <1>2 DEF CoverInv
    <2>2. CASE Pending(a)
      BY <1>12, <2>1, <2>2 DEF Covered
    <2>3. CASE Known(LeafPlan(a, ctx))
      BY <1>2, <2>3 DEF Covered, Known
    <2>4. CASE goal = "top" /\ InTop(LeafPlan(a, ctx), kept)
      BY <1>2, <2>4 DEF Covered, InTop, Better
    <2> QED
      BY <2>1, <2>2, <2>3, <2>4 DEF Covered
  <1> QED
    BY <1>8, <1>10, <1>13, <1>14


\* The next value of the deepest variable that has one left: the leaves that
\* hung below are not lost, and none that was visited comes back.
LEMMA NextValueKeepsInv ==
    ASSUME SearchInv, NextValue
    PROVE  SearchInv'
  <1> USE DEF SearchInv
  <1> DEFINE open == {i \in DOMAIN frames : frames[i] # <<>>}
  <1>1. IsContext(ctx)
    BY ContextHolds
  <1>2. /\ phase = "next"
        /\ UNCHANGED <<raw, ctx, goal, truncated, kept, diverse>>
    BY DEF NextValue
  <1>3. Fixed' = Fixed /\ Vars' = Vars
    BY <1>2 DEF Fixed, Vars
  <1>4. /\ IsList(assigned) /\ IsList(frames)
        /\ Len(assigned) \in Nat /\ Len(frames) \in Nat
        /\ Len(frames) = Len(assigned) \/ Len(frames) = Len(assigned) + 1
        /\ Len(assigned) <= Len(Vars) /\ Len(frames) <= Len(Vars) /\ Len(Vars) \in Nat
    BY <1>1, <1>2, ListProperties, VariablesAreOk DEF StackInv, Vars
  <1>13. DOMAIN frames = 1..Len(frames)
    BY <1>4, ListProperties
  <1>12. /\ \A i \in 1..Len(frames) : /\ IsList(frames[i]) /\ IsInjective(frames[i])
                                      /\ \A x \in ToSet(frames[i]) : LegalValue(assigned, i, x)
         /\ \A i \in 1..Len(assigned) : /\ LegalValue(assigned, i, assigned[i])
                                        /\ i <= Len(frames) => assigned[i] \notin ToSet(frames[i])
    BY <1>2 DEF StackInv
  <1>5. ContextInv'
    BY <1>2 DEF ContextInv
  <1>6. phase' \in {"visit", "searched"}
    BY DEF NextValue
  <1>7. GoalInv'
    BY <1>2, <1>6 DEF GoalInv
  <1>8. ASSUME \A b : Pending(b)' => Pending(b) PROVE KeptInv'
    <2>1. \A p : Visited(p) => Visited(p)'
      BY <1>3, <1>8 DEF Visited
    <2> QED
      BY <1>2, <2>1 DEF KeptInv, ArePlans
  <1>9. ASSUME \A b : Pending(b) => Pending(b)' PROVE CoverInv'
    <2> SUFFICES ASSUME ~truncated', goal' = "top" \/ kept' = <<>>, NEW a \in GoodLeaves(ctx)'
                 PROVE  Covered(a)'
      BY DEF CoverInv
    <2>1. Covered(a)
      BY <1>2 DEF CoverInv
    <2>2. CASE Pending(a)
      BY <1>9, <2>2 DEF Covered
    <2>3. CASE Known(LeafPlan(a, ctx))
      BY <1>2, <2>3 DEF Covered, Known
    <2>4. CASE goal = "top" /\ InTop(LeafPlan(a, ctx), kept)
      BY <1>2, <2>4 DEF Covered, InTop, Better
    <2> QED
      BY <2>1, <2>2, <2>3, <2>4 DEF Covered
  <1>10. CASE open = {}
    <2>1. phase' = "searched" /\ UNCHANGED <<assigned, frames>>
      BY <1>10 DEF NextValue
    <2>2. \A b : ~Pending(b)
      <3>1. \A i \in 1..Len(frames) : frames[i] = <<>>
        BY <1>13, <1>10
      <3> QED
        BY <1>2, <3>1, NothingIsAList DEF Pending
    <2>3. \A b : ~Pending(b)'
      BY <2>1 DEF Pending
    <2>4. StackInv'
      BY <2>1 DEF StackInv
    <2> QED
      BY <1>5, <1>7, <1>8, <1>9, <2>2, <2>3, <2>4
  <1>11. CASE open # {}
    <2>18. \A i : i \in open <=> i \in 1..Len(frames) /\ frames[i] # <<>>
      BY <1>13, Zenon
    <2>17. PICK m : m = Max(open)
      OBVIOUS
    <2>1. m \in open /\ \A j \in open : j <= m
      <3> HIDE DEF open
      <3>1. open \subseteq 0..Len(frames)
        BY <1>4, <2>18
      <3> QED
        BY <1>4, <1>11, <2>17, <3>1, MaxOf
    <2>2. /\ assigned' = Append(SubSeq(assigned, 1, m - 1), Head(frames[m]))
          /\ frames' = Append(SubSeq(frames, 1, m - 1), Tail(frames[m]))
          /\ phase' = "visit"
      BY <1>11, <2>17 DEF NextValue
    <2>3. /\ m \in Nat /\ m \in 1..Len(frames) /\ frames[m] # <<>> /\ m - 1 \in 0..Len(frames) /\ m - 1 \in 0..Len(assigned)
          /\ \A j \in 1..Len(frames) : frames[j] # <<>> => j <= m
      <3> HIDE DEF open
      <3> QED
        BY <1>4, <2>18, <2>1
    <2> HIDE DEF open
    <2>4. PICK s : s = SubSeq(assigned, 1, m - 1)
      OBVIOUS
    <2>5. PICK f : f = SubSeq(frames, 1, m - 1)
      OBVIOUS
    <2>6. PICK h : h = Head(frames[m])
      OBVIOUS
    <2>7. PICK t : t = Tail(frames[m])
      OBVIOUS
    <2>8. /\ IsList(s) /\ Len(s) = m - 1 /\ \A j \in 1..(m - 1) : s[j] = assigned[j]
          /\ IsList(f) /\ Len(f) = m - 1 /\ \A j \in 1..(m - 1) : f[j] = frames[j]
      <3>1. \A l \in 0..Len(assigned) : /\ IsList(SubSeq(assigned, 1, l)) /\ Len(SubSeq(assigned, 1, l)) = l
                                        /\ \A i \in 1..l : SubSeq(assigned, 1, l)[i] = assigned[i]
        BY <1>4, PrefixIsList
      <3>2. \A l \in 0..Len(frames) : /\ IsList(SubSeq(frames, 1, l)) /\ Len(SubSeq(frames, 1, l)) = l
                                      /\ \A i \in 1..l : SubSeq(frames, 1, l)[i] = frames[i]
        BY <1>4, PrefixIsList
      <3> QED
        BY <2>3, <2>4, <2>5, <3>1, <3>2, Zenon
    <2>9. /\ ToSet(frames[m]) = {h} \cup ToSet(t) /\ IsList(t) /\ IsInjective(t) /\ h \notin ToSet(t)
      BY <1>12, <2>3, <2>6, <2>7, HeadAndTail
    <2>10. /\ assigned' = Append(s, h) /\ frames' = Append(f, t)
      BY <2>2, <2>4, <2>5, <2>6, <2>7
    <2>11. /\ IsList(assigned') /\ Len(assigned') = m /\ assigned'[m] = h
           /\ \A j \in 1..(m - 1) : assigned'[j] = assigned[j]
           /\ IsList(frames') /\ Len(frames') = m /\ frames'[m] = t
           /\ \A j \in 1..(m - 1) : frames'[j] = frames[j]
      <3>1. /\ IsList(assigned') /\ Len(assigned') = Len(s) + 1 /\ assigned'[Len(s) + 1] = h
            /\ \A j \in 1..Len(s) : assigned'[j] = s[j]
        BY <2>8, <2>10, AppendIsList
      <3>2. /\ IsList(frames') /\ Len(frames') = Len(f) + 1 /\ frames'[Len(f) + 1] = t
            /\ \A j \in 1..Len(f) : frames'[j] = f[j]
        BY <2>8, <2>10, AppendIsList
      <3>3. (m - 1) + 1 = m
        BY <1>4, <2>3
      <3> QED
        BY <2>8, <3>1, <3>2, <3>3
    <2>12. StackInv'
      <3>1. ASSUME NEW j \in 1..m, NEW x, LegalValue(assigned, j, x) PROVE LegalValue(assigned, j, x)'
        <4>1. Agrees(assigned', assigned, j - 1) /\ j - 1 \in 0..Len(assigned') /\ j - 1 \in 0..Len(assigned)
          BY <1>4, <2>3, <2>11 DEF Agrees
        <4>2. SubSeq(assigned', 1, j - 1) = SubSeq(assigned, 1, j - 1)
          BY <1>4, <2>11, <4>1, PrefixesEqual
        <4> QED
          BY <1>2, <1>3, <3>1, <4>2 DEF LegalValue
      <3>2. ASSUME NEW j \in 1..m
            PROVE  /\ IsList(frames'[j]) /\ IsInjective(frames'[j])
                   /\ \A x \in ToSet(frames'[j]) : LegalValue(assigned, j, x)'
        <4>1. ToSet(frames'[j]) \subseteq ToSet(frames[j]) /\ IsList(frames'[j]) /\ IsInjective(frames'[j])
          <5>1. CASE j = m
            BY <2>9, <2>11, <5>1
          <5>2. CASE j \in 1..(m - 1)
            BY <1>4, <1>12, <2>3, <2>11, <5>2
          <5> QED
            BY <2>3, <5>1, <5>2
        <4>2. \A x \in ToSet(frames'[j]) : LegalValue(assigned, j, x)
          BY <1>4, <1>12, <2>3, <4>1
        <4> QED
          BY <3>1, <4>1, <4>2
      <3>3. ASSUME NEW j \in 1..m
            PROVE  LegalValue(assigned, j, assigned[j])' /\ assigned'[j] \notin ToSet(frames'[j])
        <4>1. CASE j = m
          <5>1. LegalValue(assigned, m, h)
            BY <1>12, <2>3, <2>9
          <5>2. LegalValue(assigned, m, h)'
            BY <2>3, <3>1, <5>1, <4>1
          <5> QED
            BY <2>9, <2>11, <4>1, <5>2
        <4>2. CASE j \in 1..(m - 1)
          <5>1. LegalValue(assigned, j, assigned[j]) /\ assigned[j] \notin ToSet(frames[j]) /\ assigned'[j] = assigned[j]
            <6>1. j \in 1..Len(assigned) /\ j <= Len(frames)
              BY <1>4, <2>3, <4>2
            <6> QED
              BY <1>12, <2>11, <4>2, <6>1
          <5>2. PICK x : x = assigned[j]
            OBVIOUS
          <5>3. LegalValue(assigned, j, x)'
            BY <3>1, <5>1, <5>2
          <5> QED
            BY <2>11, <4>2, <5>1, <5>2, <5>3
        <4> QED
          BY <1>4, <2>3, <4>1, <4>2
      <3>4. m <= Len(Vars)
        BY <1>4, <2>3
      <3> QED
        BY <1>3, <2>2, <2>11, <3>2, <3>3, <3>4 DEF StackInv
    <2>13. \A b : Agrees(b, assigned, m)' <=> Agrees(b, assigned, m - 1) /\ b[m] = h
      <3>1. \A b : Agrees(b, assigned, m - 1)' <=> Agrees(b, assigned, m - 1)
        BY <2>11 DEF Agrees
      <3>2. \A b : Agrees(b, assigned, m)' <=> Agrees(b, assigned, m - 1)' /\ b[m] = h
        BY <1>4, <2>3, <2>11 DEF Agrees
      <3> QED
        BY <3>1, <3>2
    <2>14. \A b : \A j \in 1..m : Agrees(b, assigned, j - 1)' <=> Agrees(b, assigned, j - 1)
      <3> SUFFICES ASSUME NEW b, NEW j \in 1..m PROVE Agrees(b, assigned, j - 1)' <=> Agrees(b, assigned, j - 1)
        OBVIOUS
      <3>1. \A l \in 1..(j - 1) : l \in 1..(m - 1)
        BY <1>4, <2>3
      <3> QED
        BY <2>11, <3>1 DEF Agrees
    <2>15. ASSUME NEW b, Pending(b) PROVE Pending(b)'
      <3>1. PICK j \in 1..Len(frames) : Agrees(b, assigned, j - 1) /\ b[j] \in ToSet(frames[j])
        BY <1>2, <2>15 DEF Pending
      <3>2. j \in 1..m
        <4>1. frames[j] # <<>>
          BY <3>1, NothingIsAList
        <4> QED
          BY <2>3, <3>1, <4>1
      <3>3. CASE j = m /\ b[j] = h
        BY <2>2, <2>11, <2>13, <3>1, <3>3 DEF Pending
      <3>4. CASE j = m /\ b[j] \in ToSet(t)
        BY <2>2, <2>3, <2>11, <2>14, <3>1, <3>4, <3>2 DEF Pending
      <3>5. CASE j \in 1..(m - 1)
        BY <2>2, <2>11, <2>14, <3>1, <3>2, <3>5 DEF Pending
      <3> QED
        BY <1>4, <2>3, <2>9, <3>1, <3>2, <3>3, <3>4, <3>5
    <2>16. ASSUME NEW b, Pending(b)' PROVE Pending(b)
      <3>1. CASE Agrees(b, assigned, m)'
        <4>1. Agrees(b, assigned, m - 1) /\ b[m] \in ToSet(frames[m])
          BY <2>9, <2>13, <3>1
        <4> QED
          BY <1>2, <2>3, <4>1 DEF Pending
      <3>2. CASE \E j \in 1..m : Agrees(b, assigned, j - 1)' /\ b[j] \in ToSet(frames'[j])
        <4>1. PICK j \in 1..m : Agrees(b, assigned, j - 1)' /\ b[j] \in ToSet(frames'[j])
          BY <3>2
        <4>2. Agrees(b, assigned, j - 1) /\ b[j] \in ToSet(frames[j]) /\ j \in 1..Len(frames)
          <5>1. CASE j = m
            BY <2>3, <2>9, <2>11, <2>14, <4>1, <5>1
          <5>2. CASE j \in 1..(m - 1)
            <6>1. j \in 1..Len(frames) /\ frames'[j] = frames[j]
              BY <1>4, <2>3, <2>11, <5>2
            <6> QED
              BY <2>14, <4>1, <6>1
          <5> QED
            BY <2>3, <5>1, <5>2
        <4> QED
          BY <1>2, <4>2 DEF Pending
      <3> QED
        BY <2>2, <2>11, <2>16, <3>1, <3>2 DEF Pending
    <2> QED
      BY <1>5, <1>7, <1>8, <1>9, <2>12, <2>15, <2>16
  <1> QED
    BY <1>10, <1>11


LEMMA FreshSearchHasInv ==
    ASSUME ContextInv, GoalInv, assigned = <<>>, frames = <<>>, kept = <<>>, phase \in {"visit", "finalize"}
    PROVE  SearchInv
  <1>1. IsContext(ctx) /\ K \in Nat \ {0}
    BY ContextHolds, PlannerAssumption
  <1>2. Len(Vars) \in Nat
    BY <1>1, VariablesAreOk DEF Vars
  <1>3. IsList(<<>>) /\ ToSet(<<>>) = {} /\ Len(<<>>) = 0 /\ IsInjective(<<>>)
    BY NothingIsAList
  <1>4. StackInv
    BY <1>2, <1>3 DEF StackInv
  <1>5. KeptInv
    BY <1>1, <1>3 DEF KeptInv, ArePlans
  <1>6. CoverInv
    <2>1. phase = "visit" => \A a : Pending(a)
      BY <1>3 DEF Pending, Agrees
    <2> QED
      BY <2>1 DEF CoverInv, Covered
  <1> QED
    BY <1>4, <1>5, <1>6 DEF SearchInv

\* What a step that begins a search makes.
LEMMA FreshStepKeepsInv ==
    ASSUME ContextInv', GoalInv', assigned' = <<>>, frames' = <<>>, kept' = <<>>,
           phase' \in {"visit", "finalize"}
    PROVE  SearchInv'
  <1>1. IsContext(ctx') /\ K \in Nat \ {0}
    <2>1. IsProblem(raw')
      BY PlannerAssumption DEF ContextInv
    <2>2. PICK g \in Int : ctx' = Context(SolverInput(raw', g))
      BY DEF ContextInv
    <2> QED
      BY <2>1, <2>2, ContextIsOk, PlannerAssumption
  <1>2. Len(Vars') \in Nat
    BY <1>1, VariablesAreOk DEF Vars
  <1>3. IsList(<<>>) /\ ToSet(<<>>) = {} /\ Len(<<>>) = 0 /\ IsInjective(<<>>)
    BY NothingIsAList
  <1>4. StackInv'
    BY <1>2, <1>3 DEF StackInv
  <1>5. KeptInv'
    BY <1>1, <1>3 DEF KeptInv, ArePlans
  <1>6. CoverInv'
    <2>1. phase' = "visit" => \A a : Pending(a)'
      BY <1>3 DEF Pending, Agrees
    <2> QED
      BY <2>1 DEF CoverInv, Covered
  <1> QED
    BY <1>4, <1>5, <1>6 DEF SearchInv

\* A step that leaves the search as it is.
LEMMA QuietStepKeepsInv ==
    ASSUME SearchInv, GoalInv', UNCHANGED <<raw, ctx, goal, searchVars>>,
           phase' \notin {"visit", "next", "searched"},
           (phase' = "done" /\ goal = "top" /\ ctx.terms # <<>>) =>
             phase = "searched" /\ diverse' = diverse
    PROVE  SearchInv'
  <1>1. UNCHANGED <<raw, ctx, goal, assigned, frames, kept, truncated>>
    BY DEF searchVars
  <1>2. ContextInv'
    BY <1>1 DEF SearchInv, ContextInv
  <1>3. StackInv'
    BY DEF StackInv
  <1>4. KeptInv'
    BY <1>1 DEF SearchInv, KeptInv, ArePlans
  <1>5. CoverInv'
    <2> SUFFICES ASSUME ~truncated', phase' = "done" /\ goal' = "top" /\ ctx'.terms # <<>>,
                        NEW a \in GoodLeaves(ctx)'
                 PROVE  Covered(a)'
      BY DEF CoverInv
    <2>1. Covered(a) /\ phase = "searched" /\ diverse' = diverse
      BY <1>1 DEF SearchInv, CoverInv
    <2>2. goal = "top" /\ InTop(LeafPlan(a, ctx), kept)
      BY <1>1, <2>1 DEF Covered, Pending, Known
    <2> QED
      BY <1>1, <2>2 DEF Covered, InTop, Better
  <1> QED
    BY <1>2, <1>3, <1>4, <1>5 DEF SearchInv

LEMMA OutOfBudgetKeepsInv ==
    ASSUME SearchInv, OutOfBudget
    PROVE  SearchInv'
  <1>1. /\ phase = "visit" /\ phase' = "searched" /\ truncated' = TRUE
        /\ UNCHANGED <<raw, ctx, goal, assigned, frames, kept, diverse>>
    BY DEF OutOfBudget
  <1> QED
    BY <1>1 DEF SearchInv, ContextInv, GoalInv, StackInv, KeptInv, ArePlans, CoverInv

LEMMA StutterKeepsInv ==
    ASSUME SearchInv, UNCHANGED plannerVars
    PROVE  SearchInv'
  <1>1. UNCHANGED <<raw, ctx, goal, phase, assigned, frames, kept, truncated, diverse>>
    BY DEF plannerVars
  <1>2. ContextInv' /\ GoalInv' /\ StackInv'
    BY <1>1 DEF SearchInv, ContextInv, GoalInv, StackInv, LegalValue, Fixed, Vars
  <1>3. \A b : Pending(b)' <=> Pending(b)
    BY <1>1 DEF Pending, Agrees
  <1>4. KeptInv'
    BY <1>1, <1>3 DEF SearchInv, KeptInv, ArePlans, Visited, Fixed, Vars
  <1>5. CoverInv'
    <2>1. \A a : Covered(a) => Covered(a)'
      BY <1>1, <1>3 DEF Covered, Known, InTop, Better
    <2> QED
      BY <1>1, <2>1 DEF SearchInv, CoverInv
  <1> QED
    BY <1>2, <1>4, <1>5 DEF SearchInv

LEMMA InitHasInv == PlannerInit => SearchInv
  <1> SUFFICES ASSUME PlannerInit PROVE SearchInv
    OBVIOUS
  <1>1. ContextInv
    BY DEF PlannerInit, ContextInv, None
  <1>2. GoalInv
    BY DEF PlannerInit, GoalInv
  <1> QED
    BY <1>1, <1>2, FreshSearchHasInv DEF PlannerInit

LEMMA NextKeepsInv == SearchInv /\ [PlannerNext]_plannerVars => SearchInv'
  <1> SUFFICES ASSUME SearchInv, [PlannerNext]_plannerVars PROVE SearchInv'
    OBVIOUS
  <1>1. IsContext(ctx) /\ ContextInv /\ GoalInv
    BY ContextHolds DEF SearchInv
  <1>2. CASE EndWinnerSearch
    <2>1. UNCHANGED <<raw, ctx, goal, searchVars>> /\ goal = "winner" /\ phase' \in {"finalize", "improve"}
      BY <1>2 DEF EndWinnerSearch, jobVars
    <2>2. GoalInv'
      BY <2>1 DEF GoalInv
    <2> QED
      BY <2>1, <2>2, QuietStepKeepsInv
  <1>3. CASE EndAlternativeSearch
    <2>1. raw' = raw /\ ctx' = ctx /\ goal = "alternative"
      BY <1>3 DEF EndAlternativeSearch, jobVars
    <2>2. ContextInv'
      BY <1>1, <2>1 DEF ContextInv
    <2>3. CASE BeginSearch("alternative") /\ phase' = "visit"
      BY <2>1, <2>2, <2>3, FreshStepKeepsInv DEF BeginSearch, GoalInv
    <2>4. CASE UNCHANGED <<goal, searchVars>> /\ phase' \in {"improve", "finalize"}
      <3>1. GoalInv'
        BY <2>1, <2>4 DEF GoalInv
      <3> QED
        BY <2>1, <2>4, <3>1, QuietStepKeepsInv
    <2> QED
      BY <1>3, <2>3, <2>4 DEF EndAlternativeSearch
  <1>4. CASE EndTopSearch
    <2>1. /\ UNCHANGED <<raw, ctx, goal, searchVars>> /\ diverse' = diverse
          /\ phase = "searched" /\ phase' = "done" /\ goal = "top"
      BY <1>4 DEF EndTopSearch, jobVars
    <2>2. GoalInv'
      BY <2>1 DEF GoalInv
    <2> QED
      BY <2>1, <2>2, QuietStepKeepsInv
  <1>5. CASE ImprovePass
    <2>1. UNCHANGED <<raw, ctx, goal, searchVars, phase>> /\ phase = "improve"
      BY <1>5 DEF ImprovePass, jobVars
    <2>2. GoalInv'
      BY <1>1, <2>1 DEF GoalInv
    <2> QED
      BY <2>1, <2>2, QuietStepKeepsInv
  <1>6. CASE ImproveDone
    <2>1. raw' = raw /\ ctx' = ctx /\ goal # "top"
      BY <1>1, <1>6 DEF ImproveDone, jobVars, GoalInv
    <2>2. ContextInv'
      BY <1>1, <2>1 DEF ContextInv
    <2>3. CASE BeginSearch("alternative") /\ phase' = "visit"
      BY <2>1, <2>2, <2>3, FreshStepKeepsInv DEF BeginSearch, GoalInv
    <2>4. CASE UNCHANGED <<goal, searchVars>> /\ phase' \in {"improve", "finalize"}
      <3>1. GoalInv'
        BY <2>1, <2>4 DEF GoalInv
      <3> QED
        BY <2>1, <2>4, <3>1, QuietStepKeepsInv
    <2> QED
      BY <1>6, <2>3, <2>4 DEF ImproveDone
  <1>7. CASE Finalize
    <2>1. UNCHANGED <<raw, ctx, goal, searchVars>> /\ phase = "finalize" /\ phase' = "decide"
      BY <1>7 DEF Finalize, jobVars
    <2>2. GoalInv'
      BY <1>1, <2>1 DEF GoalInv
    <2> QED
      BY <2>1, <2>2, QuietStepKeepsInv
  <1>8. CASE ExtendHorizon
    <2> DEFINE g == NextMainTermOrNull(ctx.grad)
    <2>1. /\ raw' = raw /\ ctx' = Context(SolverInput(raw, g)) /\ goal' = "winner"
          /\ assigned' = <<>> /\ frames' = <<>> /\ kept' = <<>> /\ phase' \in {"visit", "finalize"}
      BY <1>8 DEF ExtendHorizon, BeginSolve, BeginSearch
    <2>2. g \in Int
      BY <1>1 DEF NextMainTermOrNull, None, IsContext
    <2> HIDE DEF g
    <2>3. ContextInv' /\ GoalInv'
      BY <1>1, <2>1, <2>2 DEF ContextInv, GoalInv
    <2> QED
      BY <2>1, <2>3, FreshStepKeepsInv
  <1>9. CASE Return
    <2>1. UNCHANGED <<raw, ctx, goal, searchVars>> /\ phase = "decide" /\ phase' = "done"
      BY <1>9 DEF Return, jobVars
    <2>2. GoalInv' /\ (goal = "top" => ctx.terms = <<>>)
      BY <1>1, <2>1 DEF GoalInv
    <2> QED
      BY <2>1, <2>2, QuietStepKeepsInv
  <1> QED
    BY <1>2, <1>3, <1>4, <1>5, <1>6, <1>7, <1>8, <1>9, OutOfBudgetKeepsInv, VisitLeafKeepsInv,
       VisitVariableKeepsInv, NextValueKeepsInv, StutterKeepsInv DEF PlannerNext

LEMMA SearchInvImplies == SearchInv => KeptAreValid /\ NothingIsMissed /\ BestAreKept
  <1> SUFFICES ASSUME SearchInv PROVE KeptAreValid /\ NothingIsMissed /\ BestAreKept
    OBVIOUS
  <1>1. KeptAreValid
    BY DEF SearchInv, KeptInv, KeptAreValid
  <1>2. NothingIsMissed
    <2> SUFFICES ASSUME phase = "searched", goal # "top", ~truncated, kept = <<>>,
                        NEW a \in ValidLeaves(ctx), WellFormed(LeafPlan(a, ctx))
                 PROVE  Known(LeafPlan(a, ctx))
      BY DEF NothingIsMissed, Known
    <2>1. Covered(a)
      BY DEF SearchInv, CoverInv, GoodLeaves
    <2> QED
      BY <2>1 DEF Covered, Pending
  <1>3. BestAreKept
    <2> SUFFICES ASSUME phase = "done", goal = "top", ctx.terms # <<>>
                 PROVE  /\ Len(kept) <= K /\ IsInjective(kept)
                        /\ ~truncated => \A a \in ValidLeaves(ctx) :
                              WellFormed(LeafPlan(a, ctx)) => InTop(LeafPlan(a, ctx), kept)
      BY DEF BestAreKept, InTop
    <2>1. Len(kept) <= K /\ IsInjective(kept)
      BY DEF SearchInv, KeptInv
    <2>2. ASSUME ~truncated, NEW a \in ValidLeaves(ctx), WellFormed(LeafPlan(a, ctx))
          PROVE  InTop(LeafPlan(a, ctx), kept)
      <3>1. Covered(a)
        BY <2>2 DEF SearchInv, CoverInv, GoodLeaves
      <3> QED
        BY <3>1 DEF Covered, Pending, Known
    <2> QED
      BY <2>1, <2>2
  <1> QED
    BY <1>1, <1>2, <1>3

-----------------------------------------------------------------------------
(* The horizon: the schedules built are for later and later terms, and all *)
(* but the last are refused.                                               *)

HorizonInv ==
  /\ IsList(built) /\ ctx.grad \in Int
  /\ \A i \in 1..Len(built) : built[i].grad \in Int
  /\ \A i, j \in 1..Len(built) : i < j => built[i].grad < built[j].grad /\ ~built[i].feasible
  /\ phase \notin {"decide", "done"} =>
       \A i \in 1..Len(built) : ~built[i].feasible /\ built[i].grad < ctx.grad
  /\ phase = "decide" => Len(built) > 0 /\ Latest.grad = ctx.grad
  /\ raw.target # None => /\ ctx.grad = raw.target /\ Len(built) <= 1
                          /\ phase \notin {"decide", "done"} => Len(built) = 0
                          /\ \A i \in 1..Len(built) : built[i].grad = raw.target
  /\ (phase = "done" /\ goal # "top") =>
       Len(built) > 0 /\ result = IF Latest.feasible THEN Latest ELSE built[1]

LEMMA HorizonInvImplies == HorizonInv => HorizonIsHonest
  <1> SUFFICES ASSUME HorizonInv, phase = "done", goal # "top"
               PROVE  /\ raw.target # None => result.grad = raw.target
                      /\ result.grad # built[1].grad => result.feasible
                      /\ \A i \in DOMAIN built : built[i].grad < result.grad => ~built[i].feasible
    BY DEF HorizonIsHonest
  <1>1. Len(built) \in Nat /\ Len(built) > 0 /\ DOMAIN built = 1..Len(built)
    BY ListProperties DEF HorizonInv
  <1>2. result = built[Len(built)] \/ result = built[1]
    BY DEF HorizonInv, Latest
  <1>3. raw.target # None => result.grad = raw.target
    BY <1>1, <1>2 DEF HorizonInv
  <1>4. result.grad # built[1].grad => result.feasible
    BY DEF HorizonInv
  <1>5. ASSUME NEW i \in 1..Len(built), built[i].grad < result.grad PROVE ~built[i].feasible
    <2>1. CASE i < Len(built)
      <3>1. Len(built) \in 1..Len(built)
        BY <1>1
      <3> QED
        BY <2>1, <3>1 DEF HorizonInv
    <2>2. CASE i = Len(built)
      <3>1. 1 \in 1..Len(built) /\ built[1].grad \in Int /\ built[i].grad \in Int
        BY <1>1 DEF HorizonInv
      <3>2. 1 < i => built[1].grad < built[i].grad
        BY <3>1 DEF HorizonInv
      <3>3. built[1].grad <= built[i].grad
        BY <1>1, <3>1, <3>2
      <3> QED
        BY <1>2, <1>5, <2>2, <3>1, <3>3
    <2>3. \A n \in Nat : \A k \in 1..n : k < n \/ k = n
      BY SMTT(30)
    <2>4. i < Len(built) \/ i = Len(built)
      BY <1>1, <2>3
    <2> QED
      BY <2>1, <2>2, <2>4
  <1> QED
    BY <1>1, <1>3, <1>4, <1>5

LEMMA HorizonInit == PlannerInit => HorizonInv
  <1> SUFFICES ASSUME PlannerInit PROVE HorizonInv
    OBVIOUS
  <1>1. IsProblem(raw) /\ ctx = Context(SolverInput(raw, None)) /\ None \in Int
    BY PlannerAssumption DEF PlannerInit, None
  <1>2. IsContext(ctx) /\ ctx.grad = GraduationTerm(raw, None)
    BY <1>1, ContextIsOk, ContextFields
  <1>3. raw.target # None => ctx.grad = raw.target
    BY <1>2 DEF GraduationTerm
  <1>4. IsList(built) /\ Len(built) = 0 /\ phase \notin {"decide", "done"}
    BY NothingIsAList DEF PlannerInit
  <1> QED
    BY <1>2, <1>3, <1>4 DEF HorizonInv, IsContext

LEMMA HorizonStays ==
    ASSUME HorizonInv, UNCHANGED <<raw, ctx, built>>,
           phase \notin {"decide", "done"},
           phase' \notin {"decide", "done"} \/ (phase' = "done" /\ goal' = "top")
    PROVE  HorizonInv'
  BY DEF HorizonInv, Latest

LEMMA HorizonNext == SearchInv /\ HorizonInv /\ [PlannerNext]_plannerVars => HorizonInv'
  <1> SUFFICES ASSUME SearchInv, HorizonInv, [PlannerNext]_plannerVars PROVE HorizonInv'
    OBVIOUS
  <1>1. IsContext(ctx) /\ IsProblem(raw)
    BY ContextHolds DEF SearchInv
  <1>2. CASE OutOfBudget \/ VisitLeaf \/ VisitVariable \/ NextValue
    <2>1. /\ UNCHANGED <<raw, ctx, built>> /\ phase \notin {"decide", "done"} /\ phase' \notin {"decide", "done"}
      BY <1>2 DEF OutOfBudget, VisitLeaf, VisitVariable, NextValue
    <2> QED
      BY <2>1, HorizonStays
  <1>3. CASE EndWinnerSearch \/ EndAlternativeSearch \/ EndTopSearch \/ ImprovePass \/ ImproveDone
    <2>1. /\ UNCHANGED <<raw, ctx, built>> /\ phase \notin {"decide", "done"}
          /\ phase' \notin {"decide", "done"} \/ (phase' = "done" /\ goal' = "top")
      BY <1>3 DEF EndWinnerSearch, EndAlternativeSearch, EndTopSearch, ImprovePass, ImproveDone, jobVars
    <2> QED
      BY <2>1, HorizonStays
  <1>4. CASE Finalize
    <2>1. PICK b : /\ b.grad = ctx.grad /\ built' = Append(built, b)
                   /\ phase = "finalize" /\ phase' = "decide" /\ UNCHANGED <<raw, ctx, goal>>
      <3>1. \A p, x, c : Finalized(p, x, c).grad = c.grad
        BY DEF Finalized, WithViolations, Validated, Judged
      <3> QED
        BY <1>4, <3>1 DEF Finalize, jobVars
    <2> DEFINE n == Len(built)
    <2>2. /\ IsList(built') /\ Len(built') = n + 1 /\ built'[n + 1] = b
          /\ \A i \in 1..n : built'[i] = built[i]
      BY <2>1, AppendIsList DEF HorizonInv
    <2>3. /\ n \in Nat /\ ctx.grad \in Int
          /\ \A i \in 1..n : built[i].grad \in Int /\ ~built[i].feasible /\ built[i].grad < ctx.grad
          /\ \A i, j \in 1..n : i < j => built[i].grad < built[j].grad
          /\ raw.target # None => ctx.grad = raw.target /\ n = 0
      BY <2>1, ListProperties DEF HorizonInv
    <2>4. PICK m : m = n
      OBVIOUS
    <2> HIDE DEF n
    <2>5. \A i \in 1..(m + 1) : i = m + 1 \/ i \in 1..m
      BY <2>3, <2>4
    <2>6. \A i \in 1..(m + 1) : built'[i].grad \in Int
      BY <2>1, <2>2, <2>3, <2>4, <2>5
    <2>7. ASSUME NEW i \in 1..(m + 1), NEW j \in 1..(m + 1), i < j
          PROVE  built'[i].grad < built'[j].grad /\ ~built'[i].feasible
      <3>1. i \in 1..m
        BY <2>3, <2>4, <2>7
      <3>2. CASE j = m + 1
        BY <2>1, <2>2, <2>3, <2>4, <3>1, <3>2
      <3>3. CASE j \in 1..m
        BY <2>2, <2>3, <2>4, <2>7, <3>1, <3>3
      <3> QED
        BY <2>5, <3>2, <3>3
    <2>8. Len(built') > 0 /\ Latest' = b
      BY <2>2, <2>3, <2>4 DEF Latest
    <2>9. raw.target # None => Len(built') = 1 /\ built'[1].grad = raw.target
      BY <2>1, <2>2, <2>3, <2>4
    <2> QED
      BY <2>1, <2>2, <2>3, <2>4, <2>6, <2>7, <2>8, <2>9 DEF HorizonInv
  <1>5. CASE ExtendHorizon
    <2> DEFINE g == NextMainTermOrNull(ctx.grad)
    <2>1. /\ raw' = raw /\ built' = built /\ ctx' = Context(SolverInput(raw, g))
          /\ phase = "decide" /\ phase' \in {"visit", "finalize"}
          /\ ~Latest.feasible /\ raw.target = None /\ g # None
      BY <1>5 DEF ExtendHorizon, BeginSolve, MayExtend
    <2>2. g = ctx.grad + 2 /\ ctx.grad \in Int
      BY <1>1, <2>1 DEF NextMainTermOrNull, IsContext
    <2> HIDE DEF g
    <2>3. ctx'.grad = g
      <3>1. ctx'.grad = GraduationTerm(raw, g)
        BY <1>1, <2>1, ContextFields
      <3> QED
        BY <2>1, <3>1 DEF GraduationTerm
    <2>4. /\ Len(built) \in Nat /\ Len(built) > 0 /\ built[Len(built)].grad = ctx.grad
          /\ ~built[Len(built)].feasible
      BY <2>1, ListProperties DEF HorizonInv, Latest
    <2>5. ASSUME NEW i \in 1..Len(built) PROVE ~built[i].feasible /\ built[i].grad < g
      <3>1. CASE i = Len(built)
        BY <2>2, <2>4, <3>1
      <3>2. CASE i < Len(built)
        <4>1. Len(built) \in 1..Len(built)
          BY <2>4
        <4>2. built[i].grad < built[Len(built)].grad /\ ~built[i].feasible /\ built[i].grad \in Int
          BY <3>2, <4>1 DEF HorizonInv
        <4> QED
          BY <2>2, <2>4, <4>2
      <3> QED
        BY <2>4, <3>1, <3>2
    <2>6. IsList(built) /\ (\A i \in 1..Len(built) : built[i].grad \in Int)
          /\ \A i, j \in 1..Len(built) : i < j => built[i].grad < built[j].grad /\ ~built[i].feasible
      BY DEF HorizonInv
    <2> QED
      BY <2>1, <2>2, <2>3, <2>5, <2>6 DEF HorizonInv
  <1>6. CASE Return
    <2>1. /\ UNCHANGED <<raw, ctx, goal, built>> /\ phase = "decide" /\ phase' = "done"
          /\ result' = IF Latest.feasible THEN Latest ELSE built[1]
      BY <1>6 DEF Return, jobVars
    <2> QED
      BY <2>1 DEF HorizonInv, Latest
  <1>7. CASE UNCHANGED plannerVars
    BY <1>7 DEF plannerVars, HorizonInv, Latest
  <1> QED
    BY <1>2, <1>3, <1>4, <1>5, <1>6, <1>7 DEF PlannerNext

-----------------------------------------------------------------------------

\* For every problem, the search finds a plan exactly when one is left to
\* find, keeps the best, and the graduation term moves for nothing less than
\* a schedule the validator accepts (search.ts:325-831, build.ts:187-233).
THEOREM SearchIsHonestHolds == PlannerSpec => []SearchIsHonest
  <1>1. PlannerInit => SearchInv /\ HorizonInv
    BY InitHasInv, HorizonInit
  <1>2. SearchInv /\ HorizonInv /\ [PlannerNext]_plannerVars => (SearchInv /\ HorizonInv)'
    BY NextKeepsInv, HorizonNext
  <1>3. SearchInv /\ HorizonInv => SearchIsHonest
    BY SearchInvImplies, HorizonInvImplies DEF SearchIsHonest
  <1> QED
    BY <1>1, <1>2, <1>3, PTL DEF PlannerSpec

AlternativesInv == IsList(alternatives)

LEMMA AlternativesAreAList ==
    ASSUME AlternativesInv, [PlannerNext]_plannerVars
    PROVE  AlternativesInv'
  <1>1. alternatives' = alternatives \/ alternatives' = <<>> \/ \E p : alternatives' = Append(alternatives, p)
    BY DEF PlannerNext, plannerVars, OutOfBudget, VisitLeaf, VisitVariable, NextValue, EndWinnerSearch,
           EndAlternativeSearch, EndTopSearch, ImprovePass, ImproveDone, Finalize, ExtendHorizon, Return
  <1>2. ASSUME NEW p, alternatives' = Append(alternatives, p) PROVE IsList(alternatives')
    <2>1. IsList(Append(alternatives, p))
      BY AppendIsList DEF AlternativesInv
    <2> QED
      BY <1>2, <2>1
  <1>3. ASSUME alternatives' = <<>> PROVE IsList(alternatives')
    BY <1>3, NothingIsAList
  <1> QED
    BY <1>1, <1>2, <1>3 DEF AlternativesInv

\* A move of the local improvement changes the placement of a requirement.
LEMMA MovesKeepTheRest ==
    ASSUME NEW p, NEW c, NEW m \in Moves(p, c)
    PROVE  \A i \in DOMAIN p : p[i].source # "requirement" => m[i] = p[i]
  <1>1. PICK k \in DOMAIN p : p[k].source = "requirement" /\ m \in Retermed(p, k, c) \cup Swapped(p, k, c)
    BY DEF Moves
  <1>2. \E x : m = [p EXCEPT ![k] = x]
    <2>1. CASE m \in Retermed(p, k, c)
      BY <2>1 DEF Retermed
    <2>2. CASE m \in Swapped(p, k, c)
      BY <2>2 DEF Swapped
    <2> QED
      BY <1>1, <2>1, <2>2
  <1> QED
    BY <1>1, <1>2

LEMMA StepIsSound ==
    ASSUME AlternativesInv, [PlannerNext]_plannerVars,
           phase = "improve", phase' = "improve", Len(alternatives') = Len(alternatives), ~UNCHANGED plannerVars
    PROVE  /\ SearchLeaf(draft', ctx)
           /\ Less(ScorePlan(draft', ctx), ScorePlan(draft, ctx))
           /\ \A i \in DOMAIN draft : draft[i].source # "requirement" => draft'[i] = draft[i]
  <1>1. ImprovePass
    <2>1. ~ImproveDone
      <3> SUFFICES ASSUME ImproveDone PROVE FALSE
        OBVIOUS
      <3>1. alternatives' = Append(alternatives, draft)
        BY DEF ImproveDone
      <3>2. Len(alternatives') = Len(alternatives) + 1 /\ Len(alternatives) \in Nat
        BY <3>1, AppendIsList, ListProperties DEF AlternativesInv
      <3> QED
        BY <3>2
    <2> QED
      BY <2>1 DEF PlannerNext, OutOfBudget, VisitLeaf, VisitVariable, NextValue, EndWinnerSearch,
           EndAlternativeSearch, EndTopSearch, Finalize, ExtendHorizon, Return
  <1>2. draft' \in Moves(draft, ctx) /\ SearchLeaf(draft', ctx) /\ Less(ScorePlan(draft', ctx), ScorePlan(draft, ctx))
    BY <1>1 DEF ImprovePass, ImprovingMoves
  <1> QED
    BY <1>2, MovesKeepTheRest

\* For every problem, an improvement keeps the plan valid, makes it better and
\* leaves the courses in progress and the pins alone (localImprove.ts:22-30).
THEOREM ImprovementIsSoundHolds == PlannerSpec => ImprovementIsSound
  <1>1. PlannerInit => AlternativesInv
    BY NothingIsAList DEF PlannerInit, AlternativesInv
  <1>2. AlternativesInv /\ [PlannerNext]_plannerVars => AlternativesInv'
    BY AlternativesAreAList
  <1>3. AlternativesInv /\ [PlannerNext]_plannerVars =>
          [(phase = "improve" /\ phase' = "improve" /\ Len(alternatives') = Len(alternatives)) =>
             /\ SearchLeaf(draft', ctx)
             /\ Less(ScorePlan(draft', ctx), ScorePlan(draft, ctx))
             /\ \A i \in DOMAIN draft : draft[i].source # "requirement" => draft'[i] = draft[i]]_plannerVars
    BY StepIsSound
  <1> QED
    BY <1>1, <1>2, <1>3, PTL DEF PlannerSpec, ImprovementIsSound

-----------------------------------------------------------------------------
(* What else the context of a problem is.                                  *)

PoolIds(c) == {c.reqs[i].poolId : i \in DOMAIN c.reqs}

\* What the requirements and variables of a context have to do with each other.
RequirementsAreOk(c) ==
  /\ IsList(c.reqs) /\ DOMAIN c.vars = DOMAIN c.reqs /\ DOMAIN c.unmet = DOMAIN c.reqs
  /\ \A i \in DOMAIN c.reqs :
       /\ c.vars[i].rId = c.reqs[i].rId /\ c.vars[i].credits = c.reqs[i].credits
       /\ c.vars[i].poolId = c.reqs[i].poolId /\ c.reqs[i].credits \in Nat
       /\ c.vars[i].pool => PoolMembers(c.reqs[i], c) # {} /\ c.reqs[i].poolId # "none"
       /\ ToSet(c.vars[i].candidates) \subseteq ToSet(c.names) \cup DOMAIN c.catalog
       /\ c.unmet[i].rId = c.reqs[i].rId /\ c.unmet[i].partly = c.reqs[i].partly
  /\ PoolIds(c) \cap (ToSet(c.names) \cup DOMAIN c.catalog \cup {p.course : p \in ToSet(c.pins)}) = {}
  /\ \A i, j \in DOMAIN c.reqs : c.reqs[i].rId = c.reqs[j].rId => i = j

\* No term is past graduation, and limits and targets are numbers.
LimitsAreOk(c) ==
  /\ \A t \in ToSet(c.terms) : t <= c.grad
  /\ c.load \in Nat /\ c.f1Floor \in Int /\ c.partTimeFloor \in Int
  /\ c.ceiling \in Nat /\ \A t \in DOMAIN c.termTarget : c.termTarget[t] \in Int
  /\ c.residencyMin \in Int /\ c.residencyUsed \in Int /\ c.majorMin \in Int
  /\ c.broken \subseteq BrokenKinds

\* Both hold in the context of a problem, which is that of its own term.
LEMMA ContextOfAProblem ==
    ASSUME NEW r, IsProblem(r), NEW g \in Int
    PROVE  LET c == Context(SolverInput(r, g))
           IN /\ RequirementsAreOk(c) /\ LimitsAreOk(c)
              /\ Context(SolverInput(r, c.grad)) = c
  <1> DEFINE in == SolverInput(r, g)
             c == Context(in)
             accounted == TakenCourses(r) \cup DOMAIN CoursesInProgress(r)
  <1>1. /\ DOMAIN in = ProblemFields \cup {"taken", "ip", "grad", "reqs", "offered"}
        /\ \A f \in ProblemFields : in[f] = r[f]
        /\ in.reqs = UnmetRequirements(r, accounted)
    BY InputFields
  <1>2. /\ \A f \in ProblemFields : c[f] = r[f]
        /\ c.grad = GraduationTerm(r, g)
        /\ c.terms = EnumerateTerms(r.now, GraduationTerm(r, g), r.summer, r.jterm)
        /\ c.vars = [i \in DOMAIN in.reqs |-> Variable(in.reqs[i], in)]
        /\ \A f \in DOMAIN in : c[f] = in[f]
    BY ContextFields
  <1>3. Context(SolverInput(r, c.grad)) = c
    <2>1. GraduationTerm(r, GraduationTerm(r, g)) = GraduationTerm(r, g)
      BY DEF GraduationTerm
    <2> QED
      BY <1>2, <2>1 DEF SolverInput
  <1> HIDE DEF in, c
  <1>4. c.reqs = UnmetRequirements(r, accounted) /\ c.vars = [i \in DOMAIN c.reqs |-> Variable(c.reqs[i], in)]
    BY <1>1, <1>2
  <1>5. /\ c.catalog = in.catalog /\ c.excluded = in.excluded /\ c.abroad = in.abroad
        /\ c.taken = in.taken /\ c.ip = in.ip /\ c.names = in.names
    BY <1>1, <1>2 DEF ProblemFields
  <1>6. \A req : PoolMembers(req, in) = PoolMembers(req, c)
    BY <1>5 DEF PoolMembers
  <1>7. /\ c.unmet = r.unmet /\ c.names = r.names /\ c.catalog = r.catalog /\ c.pins = r.pins
        /\ c.load = r.load /\ c.f1Floor = r.f1Floor /\ c.partTimeFloor = r.partTimeFloor
        /\ c.ceiling = r.ceiling /\ c.termTarget = r.termTarget /\ c.residencyMin = r.residencyMin
        /\ c.residencyUsed = r.residencyUsed /\ c.majorMin = r.majorMin /\ c.broken = r.broken
    BY <1>2 DEF ProblemFields
  <1>8. /\ DOMAIN c.reqs = DOMAIN r.unmet /\ IsList(r.unmet)
        /\ \A i \in DOMAIN r.unmet :
             c.reqs[i] = [r.unmet[i] EXCEPT !.candidates = Filter(@, ToSet(@) \ accounted)]
    BY <1>4 DEF UnmetRequirements, IsProblem
  <1>9. /\ \A i \in DOMAIN r.unmet :
             /\ r.unmet[i] \in ToSet(r.unmet)
             /\ DOMAIN r.unmet[i] = RequirementFields /\ r.unmet[i].credits \in Nat
             /\ r.unmet[i].ranged => r.unmet[i].poolId # "none"
             /\ r.unmet[i].poolId \notin ToSet(r.names) \cup DOMAIN r.catalog \cup {p.course : p \in ToSet(r.pins)}
             /\ IsList(r.unmet[i].candidates)
        /\ \A i, j \in DOMAIN r.unmet : r.unmet[i].rId = r.unmet[j].rId => i = j
    <2>1. \A i \in DOMAIN r.unmet : r.unmet[i] \in ToSet(r.unmet)
      BY <1>8, ListProperties
    <2> QED
      BY <2>1 DEF IsProblem
  <1>10. \A i \in DOMAIN r.unmet :
           /\ c.reqs[i].rId = r.unmet[i].rId /\ c.reqs[i].credits = r.unmet[i].credits
           /\ c.reqs[i].poolId = r.unmet[i].poolId /\ c.reqs[i].partly = r.unmet[i].partly
           /\ c.reqs[i].ranged = r.unmet[i].ranged
           /\ IsList(c.reqs[i].candidates)
    <2>1. SUFFICES ASSUME NEW i \in DOMAIN r.unmet
                   PROVE  /\ c.reqs[i].rId = r.unmet[i].rId /\ c.reqs[i].credits = r.unmet[i].credits
                          /\ c.reqs[i].poolId = r.unmet[i].poolId /\ c.reqs[i].partly = r.unmet[i].partly
                          /\ c.reqs[i].ranged = r.unmet[i].ranged
                          /\ IsList(c.reqs[i].candidates)
      OBVIOUS
    <2>2. PICK q : q = r.unmet[i]
      OBVIOUS
    <2>3. PICK rest : rest = Filter(q.candidates, ToSet(q.candidates) \ accounted)
      OBVIOUS
    <2>4. DOMAIN q = RequirementFields /\ IsList(q.candidates)
      BY <1>9, <2>2
    <2>5. c.reqs[i] = [q EXCEPT !.candidates = rest]
      BY <1>8, <2>2, <2>3
    <2>6. IsList(rest)
      BY <2>3, <2>4, FilterKeeps
    <2> QED
      BY <2>2, <2>4, <2>5, <2>6 DEF RequirementFields
  <1>11. RequirementsAreOk(c)
    <2>1. IsList(c.reqs) /\ DOMAIN c.vars = DOMAIN c.reqs /\ DOMAIN c.unmet = DOMAIN c.reqs
      <3>1. DOMAIN r.unmet = 1..Len(r.unmet) /\ Len(r.unmet) \in Nat
        BY <1>8, ListProperties
      <3>2. c.reqs \in [1..Len(r.unmet) -> {c.reqs[i] : i \in DOMAIN r.unmet}]
        BY <1>4, <1>8, <3>1 DEF UnmetRequirements
      <3>3. IsList(c.reqs)
        BY <3>1, <3>2, FunctionsAreLists
      <3> QED
        BY <1>4, <1>7, <1>8, <3>3
    <2>2. ASSUME NEW i \in DOMAIN c.reqs
          PROVE  /\ c.vars[i].rId = c.reqs[i].rId /\ c.vars[i].credits = c.reqs[i].credits
                 /\ c.vars[i].poolId = c.reqs[i].poolId /\ c.reqs[i].credits \in Nat
                 /\ c.vars[i].pool => PoolMembers(c.reqs[i], c) # {} /\ c.reqs[i].poolId # "none"
                 /\ ToSet(c.vars[i].candidates) \subseteq ToSet(c.names) \cup DOMAIN c.catalog
      <3>1. PICK q : q = c.reqs[i]
        OBVIOUS
      <3>2. PICK members : members = PoolMembers(q, in)
        OBVIOUS
      <3>3. PICK cands : cands = IF members # {} THEN ByName(members, in)
                                 ELSE Filter(q.candidates, DOMAIN in.catalog \ (in.excluded \cup in.abroad))
        OBVIOUS
      <3>4. c.vars[i] = [rId |-> q.rId, credits |-> q.credits,
                         pool |-> members # {} /\ ~AnyMemberIsChainLinked(members, in),
                         poolId |-> q.poolId, candidates |-> cands]
        <4>1. c.vars[i] = Variable(q, in)
          BY <1>4, <3>1
        <4> QED
          BY <4>1, <3>2, <3>3 DEF Variable
      <3>5. ToSet(cands) \subseteq ToSet(c.names) \cup DOMAIN c.catalog
        <4>1. IsList(in.names) /\ IsList(q.candidates)
          BY <1>5, <1>7, <1>8, <1>10, <3>1 DEF IsProblem
        <4>2. CASE members # {}
          BY <1>5, <3>3, <4>1, <4>2, FilterKeeps DEF ByName
        <4>3. CASE members = {}
          BY <1>5, <3>3, <4>1, <4>3, FilterKeeps
        <4> QED
          BY <4>2, <4>3
      <3>6. members # {} => PoolMembers(q, c) # {} /\ q.poolId # "none"
        <4>1. members # {} => q.ranged
          BY <3>2 DEF PoolMembers
        <4> QED
          BY <4>1, <1>6, <1>8, <1>9, <1>10, <3>1, <3>2
      <3>7. /\ c.vars[i].rId = q.rId /\ c.vars[i].credits = q.credits /\ c.vars[i].poolId = q.poolId
            /\ c.vars[i].candidates = cands /\ (c.vars[i].pool => members # {})
        <4>1. PICK pool : pool = (members # {} /\ ~AnyMemberIsChainLinked(members, in))
          OBVIOUS
        <4>2. c.vars[i] = [rId |-> q.rId, credits |-> q.credits, pool |-> pool,
                           poolId |-> q.poolId, candidates |-> cands]
          BY <3>4, <4>1, Zenon
        <4>3. c.vars[i].pool = pool
          BY <4>2
        <4>4. c.vars[i].pool => members # {}
          BY <4>1, <4>3, Zenon
        <4> QED
          BY <4>2, <4>4
      <3>8. q.credits \in Nat
        BY <1>8, <1>9, <1>10, <3>1
      <3> QED
        BY <3>1, <3>5, <3>6, <3>7, <3>8
    <2>3. \A i \in DOMAIN c.reqs : c.unmet[i].rId = c.reqs[i].rId /\ c.unmet[i].partly = c.reqs[i].partly
      BY <1>7, <1>8, <1>10
    <2>4. PoolIds(c) \cap (ToSet(c.names) \cup DOMAIN c.catalog \cup {p.course : p \in ToSet(c.pins)}) = {}
      BY <1>7, <1>8, <1>9, <1>10 DEF PoolIds
    <2>5. \A i, j \in DOMAIN c.reqs : c.reqs[i].rId = c.reqs[j].rId => i = j
      BY <1>8, <1>9, <1>10
    <2> QED
      BY <2>1, <2>2, <2>3, <2>4, <2>5 DEF RequirementsAreOk
  <1>12. LimitsAreOk(c)
    <2>1. \A t \in ToSet(c.terms) : t <= c.grad
      <3> DEFINE start == r.now
                 end == GraduationTerm(r, g)
                 all == [i \in 1..(IF end < start THEN 0 ELSE end - start + 1) |-> start + i - 1]
      <3>1. start \in Int /\ end \in Int
        BY GradIsInt DEF IsProblem
      <3>2. PICK S : c.terms = Filter(all, S) /\ S \subseteq start..end
        <4> DEFINE S == {t \in start..end : /\ Season(t) = 1 => r.summer
                                            /\ Season(t) = 3 => r.jterm}
        <4>1. c.terms = Filter(all, S) /\ S \subseteq start..end
          BY <1>2 DEF EnumerateTerms
        <4> QED
          BY <4>1
      <3>3. IsList(all)
        <4>1. \E n \in Nat : n = IF end < start THEN 0 ELSE end - start + 1
          BY <3>1
        <4>2. PICK n \in Nat : n = IF end < start THEN 0 ELSE end - start + 1
          BY <4>1
        <4>3. all \in [1..n -> Int]
          BY <3>1, <4>2
        <4> QED
          BY <4>3, FunctionsAreLists, ZenonT(60)
      <3> HIDE DEF all, start
      <3>4. ToSet(c.terms) \subseteq start..end
        BY <3>2, <3>3, FilterKeeps
      <3> QED
        BY <1>2, <3>1, <3>4
    <2>2. /\ c.load \in Nat /\ c.f1Floor \in Int /\ c.partTimeFloor \in Int
          /\ c.ceiling \in Nat /\ \A t \in DOMAIN c.termTarget : c.termTarget[t] \in Int
          /\ c.residencyMin \in Int /\ c.residencyUsed \in Int /\ c.majorMin \in Int
          /\ c.broken \subseteq BrokenKinds
      BY <1>7 DEF IsProblem
    <2> QED
      BY <2>1, <2>2 DEF LimitsAreOk
  <1> QED
    BY <1>3, <1>11, <1>12 DEF c, in

-----------------------------------------------------------------------------
(* What is placed: fixed placements, values and moves are all grounded.    *)

PlacementNames == {"course", "term", "credits", "tier", "weight", "rId", "source"}

\* What a placement of a plan may be: a course in progress in the term it is
\* shown in, a pin, a pool that has members, or a course of the catalog with
\* the credits of the catalog.
IpIsGrounded(x, c) ==
  /\ x.source = "ip" /\ x.course \in DOMAIN c.ip /\ x.course \notin PoolIds(c)
  /\ x.term = IF InWindow(c.ip[x.course], c) THEN c.ip[x.course] ELSE c.now
  /\ x.credits = IF x.course \in DOMAIN c.catalog THEN c.catalog[x.course] ELSE 4
CourseIsGrounded(x, c) ==
  /\ x.source \in {"pin", "requirement"} /\ InWindow(x.term, c) /\ x.course \notin PoolIds(c)
  /\ x.course \in DOMAIN c.catalog => x.credits = c.catalog[x.course]
PoolIsGrounded(x, c) ==
  /\ x.source = "requirement" /\ InWindow(x.term, c) /\ x.course # "none"
  /\ \E i \in DOMAIN c.reqs : /\ x.rId = c.reqs[i].rId /\ x.course = c.reqs[i].poolId
                              /\ PoolMembers(c.reqs[i], c) # {}
Grounded(x, c) ==
  /\ IsPlacement(x) /\ DOMAIN x = PlacementNames
  /\ IpIsGrounded(x, c) \/ CourseIsGrounded(x, c) \/ PoolIsGrounded(x, c)
AllGrounded(p, c) == IsList(p) /\ \A x \in ToSet(p) : Grounded(x, c)

LEMMA FixedAreGrounded ==
    ASSUME NEW c, IsContext(c), RequirementsAreOk(c)
    PROVE  AllGrounded(FixedPlacements(c), c)
  <1>0. IsList(IpPlacements(c)) /\ IsList(PinPlacements(c))
    BY FixedParts DEF IsPlan
  <1>1. ASSUME NEW x \in ToSet(IpPlacements(c)) PROVE Grounded(x, c)
    <2> DEFINE ips == ByName(DOMAIN c.ip, c)
               At(i) == IF InWindow(c.ip[ips[i]], c) THEN c.ip[ips[i]] ELSE c.now
               P(i) == Placement(ips[i], At(i), "none", "ip", c)
               E(i) == IF ips[i] \in DOMAIN c.catalog THEN P(i).credits ELSE 4
               placed == [i \in DOMAIN ips |-> [P(i) EXCEPT !.credits = E(i)]]
    <2>1. IpPlacements(c) = placed
      BY DEF IpPlacements
    <2>2. IsList(ips) /\ ToSet(ips) = ToSet(c.names) \cap DOMAIN c.ip
      BY FilterKeeps DEF ByName, IsContext
    <2>3. PICK i \in DOMAIN ips : x = [P(i) EXCEPT !.credits = E(i)]
      <3>1. ToSet(placed) = {placed[i] : i \in DOMAIN placed} /\ DOMAIN placed = DOMAIN ips
        BY DEF ToSet
      <3>2. \A i \in DOMAIN ips : placed[i] = [P(i) EXCEPT !.credits = E(i)]
        OBVIOUS
      <3> HIDE DEF placed, ips, P, E
      <3> QED
        BY <2>1, <3>1, <3>2
    <2>4. ips[i] \in ToSet(c.names) /\ ips[i] \in DOMAIN c.ip
      <3> HIDE DEF ips
      <3>1. ips[i] \in ToSet(ips)
        BY <2>2, <2>3, ListProperties
      <3> QED
        BY <2>2, <3>1
    <2>5. At(i) \in Int
      BY <2>4 DEF IsContext
    <2>6. PICK p, e, y, t : p = P(i) /\ e = E(i) /\ y = ips[i] /\ t = At(i)
      OBVIOUS
    <2>7. /\ IsPlacement(p) /\ p.course = y /\ p.term = t /\ p.source = "ip"
          /\ DOMAIN p = PlacementNames
          /\ p.credits = IF y \in DOMAIN c.catalog THEN c.catalog[y] ELSE 0
      <3>1. p = Placement(y, t, "none", "ip", c) /\ t \in Int
        BY <2>5, <2>6
      <3> HIDE DEF At, ips, P, E, placed
      <3>2. p.credits = IF y \in DOMAIN c.catalog THEN c.catalog[y] ELSE 0
        BY <3>1, PlacementCredits, Zenon
      <3>3. /\ IsPlacement(p) /\ p.course = y /\ p.term = t /\ p.source = "ip"
            /\ DOMAIN p = PlacementNames
        BY <3>1, PlacementFields DEF PlacementNames
      <3> QED
        BY <3>2, <3>3
    <2>8. /\ y \in DOMAIN c.ip /\ y \in ToSet(c.names) /\ t = IF InWindow(c.ip[y], c) THEN c.ip[y] ELSE c.now
          /\ e = IF y \in DOMAIN c.catalog THEN c.catalog[y] ELSE 4
      BY <2>4, <2>6, <2>7
    <2>9. x = [p EXCEPT !.credits = e]
      BY <2>3, <2>6
    <2> HIDE DEF P, E, At, ips, placed
    <2>10. /\ x.course = y /\ x.term = t /\ x.source = "ip" /\ x.credits = e /\ DOMAIN x = PlacementNames
      BY <2>7, <2>9 DEF PlacementNames
    <2>11. y \notin PoolIds(c) /\ e \in Nat /\ t \in Int
      BY <2>5, <2>6, <2>8 DEF RequirementsAreOk, IsContext
    <2> QED
      BY <2>8, <2>10, <2>11 DEF Grounded, IpIsGrounded, IsPlacement
  <1>2. ASSUME NEW x \in ToSet(PinPlacements(c)) PROVE Grounded(x, c)
    <2> DEFINE pins == Filter(c.pins, {p \in ToSet(c.pins) : Honoured(p, c)})
               P(i) == Placement(pins[i].course, pins[i].term, ServedBy(pins[i].course, c), "pin", c)
               E(i) == IF pins[i].course \in DOMAIN c.catalog THEN P(i).credits
                       ELSE IF pins[i].course \in DOMAIN c.offCatalog THEN c.offCatalog[pins[i].course] ELSE 0
               placed == [i \in DOMAIN pins |-> [P(i) EXCEPT !.credits = E(i)]]
    <2>1. PinPlacements(c) = placed
      BY DEF PinPlacements
    <2>2. IsList(pins) /\ ToSet(pins) \subseteq {p \in ToSet(c.pins) : Honoured(p, c)}
      BY FilterKeeps DEF IsContext
    <2>3. PICK i \in DOMAIN pins : x = [P(i) EXCEPT !.credits = E(i)]
      <3>1. ToSet(placed) = {placed[i] : i \in DOMAIN placed} /\ DOMAIN placed = DOMAIN pins
        BY DEF ToSet
      <3>2. \A i \in DOMAIN pins : placed[i] = [P(i) EXCEPT !.credits = E(i)]
        OBVIOUS
      <3> HIDE DEF placed, pins, P, E
      <3> QED
        BY <2>1, <3>1, <3>2
    <2>4. pins[i] \in ToSet(c.pins) /\ Honoured(pins[i], c)
      <3> HIDE DEF pins
      <3>1. pins[i] \in ToSet(pins)
        BY <2>2, <2>3, ListProperties
      <3> QED
        BY <2>2, <3>1
    <2>5. InWindow(pins[i].term, c) /\ pins[i].term \in Int /\ pins[i].course \notin PoolIds(c)
      BY <2>4 DEF Honoured, InWindow, IsContext, RequirementsAreOk
    <2>6. PICK p, e, y, t, q : p = P(i) /\ e = E(i) /\ y = pins[i].course /\ t = pins[i].term /\ q = ServedBy(y, c)
      OBVIOUS
    <2>7. /\ IsPlacement(p) /\ p.course = y /\ p.term = t /\ p.source = "pin"
          /\ DOMAIN p = PlacementNames
          /\ p.credits = IF y \in DOMAIN c.catalog THEN c.catalog[y] ELSE 0
      <3>1. p = Placement(y, t, q, "pin", c) /\ t \in Int
        BY <2>5, <2>6
      <3> HIDE DEF pins, P, E, placed
      <3>2. p.credits = IF y \in DOMAIN c.catalog THEN c.catalog[y] ELSE 0
        BY <3>1, PlacementCredits, Zenon
      <3>3. /\ IsPlacement(p) /\ p.course = y /\ p.term = t /\ p.source = "pin"
            /\ DOMAIN p = PlacementNames
        BY <3>1, PlacementFields DEF PlacementNames
      <3> QED
        BY <3>2, <3>3
    <2>8. e = IF y \in DOMAIN c.catalog THEN p.credits
              ELSE IF y \in DOMAIN c.offCatalog THEN c.offCatalog[y] ELSE 0
      BY <2>6
    <2>9. x = [p EXCEPT !.credits = e]
      BY <2>3, <2>6
    <2>13. InWindow(t, c) /\ t \in Int /\ y \notin PoolIds(c)
      BY <2>5, <2>6
    <2> HIDE DEF P, E, pins, placed
    <2>10. /\ x.course = y /\ x.term = t /\ x.source = "pin" /\ x.credits = e /\ DOMAIN x = PlacementNames
      BY <2>7, <2>9 DEF PlacementNames
    <2>11. e \in Nat /\ (y \in DOMAIN c.catalog => e = c.catalog[y])
      BY <2>7, <2>8 DEF IsContext
    <2> QED
      BY <2>10, <2>11, <2>13 DEF Grounded, CourseIsGrounded, IsPlacement
  <1>3. /\ IsList(FixedPlacements(c))
        /\ ToSet(FixedPlacements(c)) = ToSet(IpPlacements(c)) \cup ToSet(PinPlacements(c))
    BY <1>0, ConcatIsList DEF FixedPlacements
  <1> QED
    BY <1>1, <1>2, <1>3 DEF AllGrounded

LEMMA ValuesAreGrounded ==
    ASSUME NEW c, IsContext(c), RequirementsAreOk(c), NEW v \in ToSet(c.vars), NEW x \in ToSet(RawValues(v, c))
    PROVE  Grounded(x, c)
  <1>1. PICK k \in DOMAIN c.reqs : v = c.vars[k]
    <2>1. PICK k \in 1..Len(c.vars) : v = c.vars[k]
      BY ListProperties DEF IsContext
    <2>2. k \in DOMAIN c.reqs
      BY <2>1, ListProperties DEF IsContext, RequirementsAreOk
    <2> QED
      BY <2>1, <2>2
  <1>2. /\ v.rId = c.reqs[k].rId /\ v.credits \in Nat /\ v.poolId = c.reqs[k].poolId
        /\ v.pool => PoolMembers(c.reqs[k], c) # {} /\ v.poolId # "none"
        /\ ToSet(v.candidates) \cap PoolIds(c) = {}
        /\ IsList(v.candidates)
    BY <1>1 DEF RequirementsAreOk, IsContext
  <1>3. CASE v.pool
    <2> DEFINE S == {t \in ToSet(c.terms) : PoolTermLegal(ToSet(v.candidates), t, c)}
               legal == Filter(c.terms, S)
               P(i) == Placement(v.candidates[1], legal[i], v.rId, "requirement", c)
               V(i) == [P(i) EXCEPT !.course = v.poolId, !.credits = v.credits]
               values == [i \in DOMAIN legal |-> V(i)]
    <2>1. RawValues(v, c) = values
      BY <1>3 DEF RawValues
    <2>2. PICK i \in DOMAIN legal : x = V(i)
      <3>1. ToSet(values) = {values[i] : i \in DOMAIN values} /\ DOMAIN values = DOMAIN legal
        BY DEF ToSet
      <3>2. \A i \in DOMAIN legal : values[i] = V(i)
        OBVIOUS
      <3> HIDE DEF values, legal, V
      <3> QED
        BY <2>1, <3>1, <3>2
    <2> HIDE DEF S
    <2>3. legal[i] \in ToSet(c.terms)
      <3>1. IsList(legal) /\ ToSet(legal) = ToSet(c.terms) \cap S
        BY FilterKeeps DEF IsContext
      <3> HIDE DEF legal
      <3>2. legal[i] \in ToSet(legal)
        BY <2>2, <3>1, ListProperties
      <3> QED
        BY <3>1, <3>2
    <2>4. PICK p, t : p = P(i) /\ t = legal[i]
      OBVIOUS
    <2>5. t \in ToSet(c.terms) /\ t \in Int
      BY <2>3, <2>4 DEF IsContext
    <2>6. /\ IsPlacement(p) /\ p.term = t /\ p.source = "requirement" /\ p.rId = v.rId
          /\ DOMAIN p = PlacementNames
      <3> HIDE DEF legal
      <3>1. p = Placement(v.candidates[1], t, v.rId, "requirement", c)
        BY <2>4
      <3> QED
        BY <2>5, <3>1, PlacementFields DEF PlacementNames
    <2>7. x = [p EXCEPT !.course = v.poolId, !.credits = v.credits]
      BY <2>2, <2>4
    <2> HIDE DEF P, legal, values
    <2>8. /\ x.course = v.poolId /\ x.term = t /\ x.source = "requirement" /\ x.credits = v.credits
          /\ x.rId = v.rId /\ DOMAIN x = PlacementNames
      BY <2>6, <2>7 DEF PlacementNames
    <2> QED
      BY <1>1, <1>2, <1>3, <2>5, <2>8 DEF Grounded, PoolIsGrounded, IsPlacement, InWindow
  <1>4. CASE ~v.pool
    <2> DEFINE S(i) == {t \in ToSet(c.terms) : OfferedIn(v.candidates[i], t, c)}
               Values(i) == CourseValues(v.candidates[i], v.rId, S(i), c)
               ss == [i \in DOMAIN v.candidates |-> Values(i)]
    <2>1. RawValues(v, c) = FlattenSeq(ss)
      BY <1>4 DEF RawValues, CourseValues
    <2>2. \A i \in DOMAIN v.candidates : ss[i] = CourseValues(v.candidates[i], v.rId, S(i), c)
      OBVIOUS
    <2>3. DOMAIN v.candidates = 1..Len(v.candidates) /\ Len(v.candidates) \in Nat
      BY <1>2, ListProperties
    <2>4. ss \in [1..Len(v.candidates) -> {ss[i] : i \in 1..Len(v.candidates)}]
      BY <2>3
    <2> HIDE DEF ss, S
    <2>5. IsList(ss) /\ Len(ss) = Len(v.candidates)
      BY <2>3, <2>4, FunctionsAreLists
    <2>6. \A i \in 1..Len(ss) : IsList(ss[i])
      <3>1. \A i \in DOMAIN v.candidates : IsPlan(ss[i])
        BY <2>2, ValuesOfACourse
      <3> QED
        BY <2>3, <2>5, <3>1 DEF IsPlan
    <2>7. PICK i \in 1..Len(ss) : x \in ToSet(ss[i])
      BY <2>1, <2>5, <2>6, FlattenCollects
    <2>8. PICK y, T : y = v.candidates[i] /\ T = S(i)
      OBVIOUS
    <2>9. y \notin PoolIds(c) /\ ss[i] = CourseValues(y, v.rId, T, c)
      BY <1>2, <2>2, <2>3, <2>5, <2>7, <2>8, ListProperties
    <2> DEFINE legal == Filter(c.terms, T)
               values == [j \in DOMAIN legal |-> Placement(y, legal[j], v.rId, "requirement", c)]
    <2>10. ss[i] = values
      BY <2>9 DEF CourseValues
    <2>11. PICK j \in DOMAIN legal : x = Placement(y, legal[j], v.rId, "requirement", c)
      <3>1. ToSet(values) = {values[j] : j \in DOMAIN values} /\ DOMAIN values = DOMAIN legal
        BY DEF ToSet
      <3>2. \A j \in DOMAIN legal : values[j] = Placement(y, legal[j], v.rId, "requirement", c)
        OBVIOUS
      <3> HIDE DEF values, legal
      <3> QED
        BY <2>7, <2>10, <3>1, <3>2
    <2>12. legal[j] \in ToSet(c.terms) /\ legal[j] \in Int
      <3>1. IsList(legal) /\ ToSet(legal) = ToSet(c.terms) \cap T
        BY FilterKeeps DEF IsContext
      <3> HIDE DEF legal
      <3>2. legal[j] \in ToSet(legal)
        BY <2>11, <3>1, ListProperties
      <3> QED
        BY <3>1, <3>2 DEF IsContext
    <2> HIDE DEF legal, values
    <2>13. /\ IsPlacement(x) /\ x.course = y /\ x.term = legal[j] /\ x.source = "requirement"
           /\ DOMAIN x = PlacementNames
           /\ x.credits = IF y \in DOMAIN c.catalog THEN c.catalog[y] ELSE 0
      <3>1. x.credits = IF y \in DOMAIN c.catalog THEN c.catalog[y] ELSE 0
        BY <2>11, PlacementCredits, Zenon
      <3>2. /\ IsPlacement(x) /\ x.course = y /\ x.term = legal[j] /\ x.source = "requirement"
            /\ DOMAIN x = PlacementNames
        BY <2>11, <2>12, PlacementFields DEF PlacementNames
      <3> QED
        BY <3>1, <3>2
    <2> QED
      BY <2>9, <2>12, <2>13 DEF Grounded, CourseIsGrounded, InWindow
  <1> QED
    BY <1>3, <1>4

LEMMA MovesAreGrounded ==
    ASSUME NEW c, IsContext(c), RequirementsAreOk(c), NEW p, AllGrounded(p, c), NEW m \in Moves(p, c)
    PROVE  AllGrounded(m, c)
  <1>1. PICK k \in DOMAIN p : p[k].source = "requirement" /\ m \in Retermed(p, k, c) \cup Swapped(p, k, c)
    BY DEF Moves
  <1>2. /\ DOMAIN p = 1..Len(p) /\ Len(p) \in Nat /\ \A i \in 1..Len(p) : p[i] \in ToSet(p)
    BY ListProperties DEF AllGrounded
  <1>3. Grounded(p[k], c)
    BY <1>1, <1>2 DEF AllGrounded
  <1>4. PICK x : m = [p EXCEPT ![k] = x] /\ Grounded(x, c)
    <2>1. CASE m \in Retermed(p, k, c)
      <3>1. PICK t \in ToSet(c.terms) : m = [p EXCEPT ![k].term = t]
        BY <2>1 DEF Retermed
      <3>2. PICK q, x : q = p[k] /\ x = [q EXCEPT !.term = t]
        OBVIOUS
      <3>3. m = [p EXCEPT ![k] = x]
        BY <3>1, <3>2
      <3>4. DOMAIN q = PlacementNames
        BY <1>3, <3>2 DEF Grounded
      <3>5. /\ DOMAIN x = PlacementNames /\ x.term = t /\ x.source = q.source /\ x.course = q.course
            /\ x.credits = q.credits /\ x.rId = q.rId
        BY <3>2, <3>4 DEF PlacementNames
      <3>6. q.source = "requirement" /\ Grounded(q, c)
        BY <1>1, <1>3, <3>2
      <3>7. t \in Int /\ InWindow(t, c)
        BY DEF IsContext, InWindow
      <3>8. IsPlacement(x)
        BY <3>5, <3>6, <3>7 DEF Grounded, IsPlacement
      <3>9. CourseIsGrounded(x, c) \/ PoolIsGrounded(x, c)
        BY <3>5, <3>6, <3>7 DEF Grounded, IpIsGrounded, CourseIsGrounded, PoolIsGrounded
      <3>10. Grounded(x, c)
        BY <3>5, <3>8, <3>9 DEF Grounded
      <3> QED
        BY <3>3, <3>10
    <2>2. CASE m \in Swapped(p, k, c)
      <3>1. PICK y \in DOMAIN c.catalog : m = [p EXCEPT ![k] = Placement(y, p[k].term, p[k].rId, "requirement", c)]
        BY <2>2 DEF Swapped
      <3>2. PICK x, t, r : t = p[k].term /\ r = p[k].rId /\ x = Placement(y, t, r, "requirement", c)
        OBVIOUS
      <3>3. m = [p EXCEPT ![k] = x]
        BY <3>1, <3>2
      <3>4. t \in Int /\ InWindow(t, c)
        BY <1>1, <1>3, <3>2 DEF Grounded, IsPlacement, IpIsGrounded, CourseIsGrounded, PoolIsGrounded
      <3>5. x.credits = c.catalog[y]
        BY <3>2, PlacementCredits
      <3>6. /\ IsPlacement(x) /\ x.course = y /\ x.term = t /\ x.source = "requirement"
            /\ DOMAIN x = PlacementNames
        BY <3>2, <3>4, PlacementFields DEF PlacementNames
      <3>7. y \notin PoolIds(c)
        BY DEF RequirementsAreOk
      <3> QED
        BY <3>3, <3>4, <3>5, <3>6, <3>7 DEF Grounded, CourseIsGrounded
    <2> QED
      BY <1>1, <2>1, <2>2
  <1>5. m \in [1..Len(p) -> ToSet(p) \cup {x}]
    BY <1>2, <1>4
  <1>6. IsList(m) /\ ToSet(m) \subseteq ToSet(p) \cup {x}
    BY <1>2, <1>5, FunctionsAreLists
  <1> QED
    BY <1>4, <1>6 DEF AllGrounded

-----------------------------------------------------------------------------
(* A schedule grows out of the placed slots.                               *)

\* The slots that come on top: a requirement nothing was bound for, and free
\* electives.
OpenSlots(c) ==
  {Slot("placeholder", "none", r.credits, r.rId, Tier(r.rId, c), 30) : r \in ToSet(c.reqs)}
ElectiveSlots ==
  {[Slot("placeholder", "none", n, "none", "free-elective", 30) EXCEPT !.optional = o] :
     n \in Nat, o \in BOOLEAN}
Padding(c) == OpenSlots(c) \cup ElectiveSlots

\* The slots of a term stay where they are; what follows is padding.
GrowsBy(s, s0, extra) ==
  /\ Len(s0) <= Len(s)
  /\ \A i \in 1..Len(s0) : s[i] = s0[i]
  /\ \A i \in (Len(s0) + 1)..Len(s) : s[i] \in extra

SlotsOf(s0, c) == (UNION {ToSet(s0[t]) : t \in ToSet(c.terms)}) \cup Padding(c)
Grown(s0, c) ==
  {s \in [ToSet(c.terms) -> Seq(SlotsOf(s0, c))] :
     \A t \in ToSet(c.terms) : GrowsBy(s[t], s0[t], Padding(c))}

LEMMA PaddingFields ==
    ASSUME NEW c, RequirementsAreOk(c), NEW s \in Padding(c)
    PROVE  /\ s.kind = "placeholder" /\ s.course = "none" /\ s.credits \in Nat /\ s.members = {}
  <1>1. CASE s \in OpenSlots(c)
    <2>1. PICK r \in ToSet(c.reqs) : s = Slot("placeholder", "none", r.credits, r.rId, Tier(r.rId, c), 30)
      BY <1>1 DEF OpenSlots
    <2>2. r.credits \in Nat
      <3>1. IsList(c.reqs)
        BY DEF RequirementsAreOk
      <3>2. PICK i \in 1..Len(c.reqs) : r = c.reqs[i]
        BY <3>1, ListProperties
      <3>3. i \in DOMAIN c.reqs
        BY <3>1, ListProperties
      <3> QED
        BY <3>2, <3>3 DEF RequirementsAreOk
    <2> QED
      BY <2>1, <2>2 DEF Slot
  <1>2. CASE s \in ElectiveSlots
    <2>1. PICK n \in Nat, o \in BOOLEAN :
            s = [Slot("placeholder", "none", n, "none", "free-elective", 30) EXCEPT !.optional = o]
      BY <1>2 DEF ElectiveSlots
    <2>2. PICK q : q = Slot("placeholder", "none", n, "none", "free-elective", 30)
      OBVIOUS
    <2>3. /\ q.kind = "placeholder" /\ q.course = "none" /\ q.credits = n /\ q.members = {}
          /\ DOMAIN q = {"kind", "course", "credits", "rId", "tier", "weight", "members", "petition", "optional"}
      BY <2>2 DEF Slot
    <2>4. s = [q EXCEPT !["optional"] = o]
      BY <2>1, <2>2
    <2>5. s.kind = q.kind /\ s.course = q.course /\ s.credits = q.credits /\ s.members = q.members
      BY <2>3, <2>4, Zenon
    <2> QED
      BY <2>3, <2>5
  <1> QED
    BY <1>1, <1>2 DEF Padding

\* Longer in one term by padding, a schedule has still grown out of its slots.
LEMMA GrowsOn ==
    ASSUME NEW c, NEW s0, NEW s \in Grown(s0, c), NEW t \in ToSet(c.terms), IsList(s0[t]),
           NEW extra, IsList(extra), ToSet(extra) \subseteq Padding(c)
    PROVE  [s EXCEPT ![t] = @ \o extra] \in Grown(s0, c)
  <1> DEFINE U == SlotsOf(s0, c)
             new == [s EXCEPT ![t] = s[t] \o extra]
  <1>1. s \in [ToSet(c.terms) -> Seq(U)] /\ \A u \in ToSet(c.terms) : GrowsBy(s[u], s0[u], Padding(c))
    BY DEF Grown
  <1>2. IsList(s[t]) /\ ToSet(s[t]) \subseteq U
    BY <1>1, SeqsAreLists
  <1>3. /\ IsList(s[t] \o extra) /\ ToSet(s[t] \o extra) = ToSet(s[t]) \cup ToSet(extra)
        /\ Len(s[t] \o extra) = Len(s[t]) + Len(extra)
        /\ \A i \in 1..Len(s[t]) : (s[t] \o extra)[i] = s[t][i]
        /\ \A i \in 1..Len(extra) : (s[t] \o extra)[Len(s[t]) + i] = extra[i]
    BY <1>2, ConcatIsList
  <1>4. s[t] \o extra \in Seq(U)
    <2>1. ToSet(s[t] \o extra) \subseteq U
      <3>1. Padding(c) \subseteq U
        BY DEF SlotsOf
      <3> HIDE DEF U
      <3> QED
        BY <1>2, <1>3, <3>1
    <2>2. s[t] \o extra \in Seq(ToSet(s[t] \o extra))
      BY <1>3 DEF IsList
    <2> QED
      BY <2>1, <2>2
  <1>5. GrowsBy(s[t] \o extra, s0[t], Padding(c))
    <2>0. PICK n0, n, k : n0 = Len(s0[t]) /\ n = Len(s[t]) /\ k = Len(extra)
      OBVIOUS
    <2>1. n0 \in Nat /\ n \in Nat /\ k \in Nat
      BY <1>2, <2>0, ListProperties
    <2>2. /\ n0 <= n /\ \A i \in 1..n0 : s[t][i] = s0[t][i]
          /\ \A i \in (n0 + 1)..n : s[t][i] \in Padding(c)
      BY <1>1, <2>0 DEF GrowsBy
    <2>3. \A i \in 1..k : extra[i] \in Padding(c)
      BY <2>0, ListProperties
    <2>4. Len(s[t] \o extra) = n + k
      BY <1>3, <2>0
    <2>5. \A i \in 1..n : (s[t] \o extra)[i] = s[t][i]
      BY <1>3, <2>0
    <2>6. \A i \in 1..k : (s[t] \o extra)[n + i] = extra[i]
      BY <1>3, <2>0
    <2>7. \A i \in 1..n0 : (s[t] \o extra)[i] = s0[t][i]
      <3>1. n0 \in Nat /\ n \in Nat /\ n0 <= n
        BY <2>1, <2>2
      <3>2. \A i \in 1..n0 : i \in 1..n
        BY <3>1
      <3> QED
        BY <2>2, <2>5, <3>2, Zenon
    <2>8. ASSUME NEW i \in (n0 + 1)..(n + k) PROVE (s[t] \o extra)[i] \in Padding(c)
      <3>1. CASE i <= n
        <4>1. i \in 1..n /\ i \in (n0 + 1)..n
          BY <2>1, <3>1
        <4> QED
          BY <2>2, <2>5, <4>1
      <3>2. CASE i > n
        <4>1. i - n \in 1..k /\ n + (i - n) = i
          BY <2>1, <3>2
        <4> QED
          BY <2>3, <2>6, <4>1
      <3>3. i \in Int /\ n \in Int
        BY <2>1
      <3>4. i <= n \/ i > n
        BY <3>3
      <3> QED
        BY <3>1, <3>2, <3>4
    <2> QED
      BY <2>0, <2>1, <2>2, <2>4, <2>7, <2>8 DEF GrowsBy
  <1> HIDE DEF U
  <1>6. new \in [ToSet(c.terms) -> Seq(U)]
    BY <1>1, <1>4
  <1>7. ASSUME NEW u \in ToSet(c.terms) PROVE GrowsBy(new[u], s0[u], Padding(c))
    <2>1. CASE u = t
      BY <1>1, <1>5, <2>1
    <2>2. CASE u # t
      BY <1>1, <2>2
    <2> QED
      BY <2>1, <2>2
  <1> QED
    BY <1>6, <1>7 DEF Grown, U

LEMMA MinOfTwo ==
    ASSUME NEW a \in Int, NEW b \in Int
    PROVE  Min({a, b}) = IF a <= b THEN a ELSE b
  <1>1. Min({a, b}) \in {a, b} /\ \A y \in {a, b} : Min({a, b}) <= y
    <2>1. \E x \in {a, b} : \A y \in {a, b} : x <= y
      OBVIOUS
    <2> QED
      BY <2>1 DEF Min
  <1> QED
    BY <1>1

\* Free electives fill up a term to the target, and no further.
LEMMA ElectivesFillUp ==
    ASSUME NEW c, NEW credits \in Nat, NEW target \in Int
    PROVE  LET free == FreeElectives(credits, target, c)
           IN /\ IsList(free) /\ ToSet(free) \subseteq ElectiveSlots
              /\ [i \in 1..Len(free) |-> free[i].credits] \in [1..Len(free) -> Nat]
              /\ Sum([i \in 1..Len(free) |-> free[i].credits])
                   = IF target > credits THEN target - credits ELSE 0
  <1> DEFINE n == IF target > credits THEN (target - credits + 3) \div 4 ELSE 0
             floor == IF c.f1Floor # None THEN c.f1Floor
                      ELSE IF c.partTimeFloor # None THEN c.partTimeFloor ELSE 0
             O(i) == c.earned >= c.minimum /\ credits + 4 * (i - 1) >= floor
             M(i) == Min({4, target - credits - 4 * (i - 1)})
             V(i) == [Slot("placeholder", "none", M(i), "none", "free-elective", 30) EXCEPT !.optional = O(i)]
             free == [i \in 1..n |-> V(i)]
  <1>1. FreeElectives(credits, target, c) = free
    BY DEF FreeElectives
  <1>2. /\ n \in Nat
        /\ target > credits => 4 * n >= target - credits /\ 4 * n <= target - credits + 3 /\ n > 0
    OBVIOUS
  <1>3. ASSUME NEW i \in 1..n
        PROVE  /\ target > credits
               /\ M(i) = IF i < n THEN 4 ELSE target - credits - 4 * (n - 1)
               /\ M(i) \in Nat
    <2>1. target > credits
      OBVIOUS
    <2>2. PICK d \in Nat : d = target - credits
      BY <2>1
    <2>3. 4 * n >= d /\ 4 * n <= d + 3 /\ n \in Nat
      BY <1>2, <2>1, <2>2
    <2> DEFINE b == d - 4 * (i - 1)
    <2>4. M(i) = Min({4, b}) /\ b \in Int /\ i \in Int
      BY <2>2
    <2> HIDE DEF n, b
    <2>5. M(i) = IF 4 <= b THEN 4 ELSE b
      <3> HIDE DEF M
      <3> QED
        BY <2>4, MinOfTwo
    <2> HIDE DEF M
    <2>6. CASE i < n
      <3>1. i \in Int /\ n \in Int /\ i + 1 <= n
        BY <2>3, <2>6
      <3>2. 4 * i + 4 <= 4 * n
        BY <3>1
      <3>3. b >= 4 /\ b \in Int
        BY <2>3, <3>1, <3>2 DEF b
      <3> QED
        BY <2>1, <2>5, <2>6, <3>3
    <2>7. CASE ~(i < n)
      <3>1. i = n
        BY <2>3, <2>7
      <3>2. b = d - 4 * (n - 1) /\ b <= 4 /\ b >= 1 /\ b \in Int
        BY <2>3, <3>1 DEF b
      <3> QED
        BY <2>1, <2>2, <2>5, <2>7, <3>2
    <2> QED
      BY <2>6, <2>7
  <1>4. ASSUME NEW i \in 1..n PROVE V(i) \in ElectiveSlots /\ V(i).credits = M(i)
    <2>1. M(i) \in Nat
      BY <1>3
    <2>2. PICK q : q = Slot("placeholder", "none", M(i), "none", "free-elective", 30)
      OBVIOUS
    <2>3. /\ q.credits = M(i)
          /\ DOMAIN q = {"kind", "course", "credits", "rId", "tier", "weight", "members", "petition", "optional"}
      <3> HIDE DEF M
      <3> QED
        BY <2>2 DEF Slot
    <2>4. O(i) \in BOOLEAN
      OBVIOUS
    <2>5. V(i) = [q EXCEPT !["optional"] = O(i)]
      BY <2>2
    <2>6. V(i) \in ElectiveSlots
      <3> HIDE DEF M, O
      <3> QED
        BY <2>1, <2>4 DEF ElectiveSlots
    <2> HIDE DEF V, M, O
    <2>7. V(i).credits = q.credits
      BY <2>3, <2>5, Zenon
    <2> QED
      BY <2>3, <2>6, <2>7
  <1>5. free \in [1..n -> ElectiveSlots] /\ \A i \in 1..n : free[i].credits = M(i)
    <2>1. \A i \in 1..n : free[i] = V(i)
      OBVIOUS
    <2> HIDE DEF V, M, n
    <2> QED
      BY <1>4, <2>1
  <1> HIDE DEF free
  <1>6. IsList(free) /\ Len(free) = n /\ ToSet(free) \subseteq ElectiveSlots
    <2> HIDE DEF n
    <2> QED
      BY <1>2, <1>5, FunctionsAreLists
  <1> DEFINE credit == [i \in 1..n |-> free[i].credits]
  <1>7. credit \in [1..n -> Nat] /\ \A i \in 1..n : credit[i] = M(i)
    <2> HIDE DEF n, M
    <2> QED
      BY <1>3, <1>5
  <1>8. Sum(credit) = IF target > credits THEN target - credits ELSE 0
    <2> HIDE DEF credit
    <2>1. credit \in [1..n -> Int]
      BY <1>7
    <2>2. PICK h \in [0..n -> Int] :
            /\ h[0] = 0 /\ \A i \in 1..n : h[i] = h[i - 1] + credit[i]
            /\ Sum(credit) = h[n]
      <3> HIDE DEF n
      <3> QED
        BY <1>2, <2>1, SumSteps
    <2> DEFINE good == {i \in 0..n : h[i] = IF i < n THEN 4 * i ELSE IF n = 0 THEN 0 ELSE target - credits}
    <2>3. 0 \in good
      BY <1>2, <2>2
    <2>4. ASSUME NEW i \in 1..n, i - 1 \in good PROVE i \in good
      <3>1. /\ h[i] = h[i - 1] + M(i) /\ h[i - 1] = 4 * (i - 1)
            /\ M(i) = IF i < n THEN 4 ELSE target - credits - 4 * (n - 1)
        <4> HIDE DEF M
        <4>1. i - 1 < n /\ i - 1 \in 0..n
          BY <1>2
        <4> QED
          BY <1>3, <1>7, <2>2, <2>4, <4>1
      <3> HIDE DEF M
      <3>2. n \in Nat /\ i \in Int
        BY <1>2
      <3> HIDE DEF n
      <3>3. CASE i < n
        BY <3>1, <3>2, <3>3
      <3>4. CASE ~(i < n)
        <4>1. i = n /\ n # 0
          BY <3>2, <3>4
        <4>2. h[i] = 4 * (n - 1) + (target - credits - 4 * (n - 1))
          BY <3>1, <4>1
        <4>3. h[i] = target - credits
          BY <3>2, <4>2
        <4> QED
          BY <3>2, <4>1, <4>3
      <3> QED
        BY <3>3, <3>4
    <2> HIDE DEF good
    <2>5. \A i \in 0..n : i \in good
      <3> HIDE DEF n
      <3> QED
        BY <1>2, <2>3, <2>4, FiniteInduction
    <2>6. h[n] = IF n = 0 THEN 0 ELSE target - credits
      <3>1. n \in 0..n /\ ~(n < n)
        BY <1>2
      <3> HIDE DEF n
      <3> QED
        BY <2>5, <3>1 DEF good
    <2>7. (n = 0) <=> ~(target > credits)
      BY <1>2
    <2> HIDE DEF n
    <2> QED
      BY <2>2, <2>6, <2>7
  <1> HIDE DEF n, M
  <1>9. credit = [i \in 1..Len(free) |-> free[i].credits]
    BY <1>6
  <1> QED
    BY <1>1, <1>6, <1>7, <1>8, <1>9

-----------------------------------------------------------------------------
(* The slots of a plan.                                                    *)

SlotNames == {"kind", "course", "credits", "rId", "tier", "weight", "members", "petition", "optional"}

LEMMA SlotFields ==
    ASSUME NEW kind, NEW course, NEW credits, NEW rId, NEW tier, NEW weight
    PROVE  LET s == Slot(kind, course, credits, rId, tier, weight)
           IN /\ s.kind = kind /\ s.course = course /\ s.credits = credits /\ s.rId = rId /\ s.tier = tier
              /\ s.members = {} /\ DOMAIN s = SlotNames
  BY DEF Slot, SlotNames

\* A slot shows the course, the credits, the requirement and the tier of the
\* placement it is made of, and that of a pool its members.
LEMMA SlotOfAPlacement ==
    ASSUME NEW c, RequirementsAreOk(c), NEW x, Grounded(x, c), NEW placements
    PROVE  /\ x.source = "ip" =>
                LET s == IpSlot(x, c)
                IN s.kind = "in_progress" /\ s.credits = x.credits /\ ~IsPoolId(s.course, c)
           /\ Binds(x) =>
                LET s == BoundSlot(x, placements, c)
                IN /\ s.credits = x.credits /\ s.rId = x.rId /\ s.tier = x.tier
                   /\ s.kind = "specific" \/ Resolvable(s)
                   /\ IsPoolId(s.course, c) => s.members # {}
  <1>1. ASSUME x.source = "ip"
        PROVE  LET s == IpSlot(x, c)
               IN s.kind = "in_progress" /\ s.credits = x.credits /\ ~IsPoolId(s.course, c)
    <2>1. /\ x.course \notin PoolIds(c)
          /\ x.credits = IF x.course \in DOMAIN c.catalog THEN c.catalog[x.course] ELSE 4
      BY <1>1 DEF Grounded, IpIsGrounded, CourseIsGrounded, PoolIsGrounded
    <2>2. ~IsPoolId(x.course, c)
      BY <2>1 DEF IsPoolId, PoolIds
    <2>3. PICK s : s = IpSlot(x, c)
      OBVIOUS
    <2>4. s = Slot("in_progress", x.course, x.credits, "none", "none", 0)
      BY <2>1, <2>3 DEF IpSlot
    <2>5. s.kind = "in_progress" /\ s.credits = x.credits /\ s.course = x.course
      BY <2>4, SlotFields
    <2> QED
      BY <2>2, <2>3, <2>5
  <1>2. ASSUME Binds(x)
        PROVE  LET s == BoundSlot(x, placements, c)
               IN /\ s.credits = x.credits /\ s.rId = x.rId /\ s.tier = x.tier
                  /\ s.kind = "specific" \/ Resolvable(s)
                  /\ IsPoolId(s.course, c) => s.members # {}
    <2>0. PICK s : s = BoundSlot(x, placements, c)
      OBVIOUS
    <2>1. CASE CourseIsGrounded(x, c)
      <3>1. ~IsPoolId(x.course, c)
        BY <2>1 DEF CourseIsGrounded, IsPoolId, PoolIds
      <3>2. CatalogCredits(x, c) = x.credits
        BY <2>1 DEF CourseIsGrounded, CatalogCredits
      <3>3. PICK q : q = Slot("specific", x.course, x.credits, x.rId, x.tier, x.weight)
        OBVIOUS
      <3>4. /\ q.kind = "specific" /\ q.course = x.course /\ q.credits = x.credits /\ q.rId = x.rId
            /\ q.tier = x.tier /\ DOMAIN q = SlotNames
        BY <3>3, SlotFields
      <3>5. \E y : s = [q EXCEPT !["petition"] = y]
        <4>1. CASE x.source = "pin"
          <5>1. s = q
            BY <2>0, <3>2, <3>3, <4>1 DEF BoundSlot, PinSlot
          <5>2. q = [q EXCEPT !["petition"] = q["petition"]]
            <6>1. q = Slot("specific", x.course, x.credits, x.rId, x.tier, x.weight)
              BY <3>3
            <6> QED
              BY <6>1 DEF Slot
          <5> QED
            BY <5>1, <5>2
        <4>2. CASE x.source # "pin"
          <5>1. s = CourseSlot(x, placements, c)
            BY <2>0, <3>1, <4>2 DEF BoundSlot
          <5>2. s = [q EXCEPT !["petition"] = CheckAllPrereqs(x.course, x.term, c, placements).petition]
            BY <3>2, <3>3, <5>1 DEF CourseSlot
          <5> QED
            BY <5>2
        <4> QED
          BY <4>1, <4>2
      <3>6. PICK y : s = [q EXCEPT !["petition"] = y]
        BY <3>5
      <3>7. s.kind = q.kind /\ s.course = q.course /\ s.credits = q.credits /\ s.rId = q.rId /\ s.tier = q.tier
        BY <3>4, <3>6, Zenon DEF SlotNames
      <3> QED
        BY <2>0, <3>1, <3>4, <3>7
    <2>2. CASE PoolIsGrounded(x, c)
      <3>1. PICK i \in DOMAIN c.reqs : /\ x.rId = c.reqs[i].rId /\ x.course = c.reqs[i].poolId
                                       /\ PoolMembers(c.reqs[i], c) # {} /\ x.course # "none"
        BY <2>2 DEF PoolIsGrounded
      <3>2. IsPoolId(x.course, c) /\ x.source # "pin"
        BY <2>2, <3>1 DEF PoolIsGrounded, IsPoolId
      <3>3. Req(x.rId, c) = c.reqs[i]
        <4>1. \A j \in DOMAIN c.reqs : c.reqs[j].rId = x.rId => j = i
          BY <3>1 DEF RequirementsAreOk
        <4>2. (CHOOSE j \in DOMAIN c.reqs : c.reqs[j].rId = x.rId) = i
          BY <3>1, <4>1
        <4> QED
          BY <4>2 DEF Req
      <3>4. PICK q, m : q = Slot("placeholder", x.course, x.credits, x.rId, x.tier, x.weight)
                        /\ m = PoolMembers(c.reqs[i], c)
        OBVIOUS
      <3>5. /\ q.kind = "placeholder" /\ q.credits = x.credits /\ q.rId = x.rId
            /\ q.tier = x.tier /\ DOMAIN q = SlotNames
        BY <3>4, SlotFields
      <3>6. s = [q EXCEPT !["members"] = m]
        <4>1. s = PoolSlot(x, c)
          BY <2>0, <3>2 DEF BoundSlot
        <4> QED
          BY <3>3, <3>4, <4>1 DEF PoolSlot
      <3>7. /\ s.kind = q.kind /\ s.credits = q.credits /\ s.rId = q.rId /\ s.tier = q.tier
            /\ s.members = m
        BY <3>5, <3>6, Zenon DEF SlotNames
      <3>8. m # {}
        BY <3>1, <3>4
      <3> QED
        BY <2>0, <3>5, <3>7, <3>8 DEF Resolvable
    <2>3. ~IpIsGrounded(x, c)
      BY <1>2 DEF Binds, IpIsGrounded
    <2> QED
      BY <2>1, <2>2, <2>3 DEF Grounded
  <1> QED
    BY <1>1, <1>2

\* The slots of a term: those of the courses in progress, then the others.
ShownIps(p, t, c) == Filter(p, {x \in ToSet(p) : x.source = "ip" /\ ShownIn(x, c) = t})
BoundIn(p, t) == Filter(p, {x \in ToSet(p) : Binds(x) /\ x.term = t})
IpSlots(p, t, c) == [i \in DOMAIN ShownIps(p, t, c) |-> IpSlot(ShownIps(p, t, c)[i], c)]
BoundSlots(p, t, c) ==
  [i \in DOMAIN BoundIn(p, t) |-> BoundSlot(BoundIn(p, t)[i], PlannedPlacements(p), c)]

IsIpSlot(s, p, t, c) ==
  \E x \in ToSet(p) : x.source = "ip" /\ ShownIn(x, c) = t /\ s = IpSlot(x, c)
IsBoundSlot(s, p, t, c) ==
  \E x \in ToSet(p) : Binds(x) /\ x.term = t /\ s = BoundSlot(x, PlannedPlacements(p), c)

LEMMA SlotsOfATerm ==
    ASSUME NEW c, NEW p, IsList(p), NEW t \in ToSet(c.terms)
    PROVE  LET s == PlacedSlots(p, c)[t]
           IN /\ s = IpSlots(p, t, c) \o BoundSlots(p, t, c)
              /\ IsList(IpSlots(p, t, c)) /\ IsList(BoundSlots(p, t, c)) /\ IsList(s)
              /\ \A x \in ToSet(s) : IsIpSlot(x, p, t, c) \/ IsBoundSlot(x, p, t, c)
              /\ \A x \in ToSet(p) : Binds(x) /\ x.term = t =>
                   BoundSlot(x, PlannedPlacements(p), c) \in ToSet(s)
              /\ \A x \in ToSet(p) : x.source = "ip" /\ ShownIn(x, c) = t => IpSlot(x, c) \in ToSet(s)
  <1>1. PlacedSlots(p, c)[t] = IpSlots(p, t, c) \o BoundSlots(p, t, c)
    BY DEF PlacedSlots, IpSlots, BoundSlots, ShownIps, BoundIn
  <1>2. PICK f, g : f = ShownIps(p, t, c) /\ g = BoundIn(p, t)
    OBVIOUS
  <1>3. /\ IsList(f) /\ ToSet(f) = {x \in ToSet(p) : x.source = "ip" /\ ShownIn(x, c) = t}
        /\ IsList(g) /\ ToSet(g) = {x \in ToSet(p) : Binds(x) /\ x.term = t}
    BY <1>2, FilterKeeps DEF ShownIps, BoundIn
  <1> DEFINE pp == PlannedPlacements(p)
             A(i) == IpSlot(f[i], c)
             B(i) == BoundSlot(g[i], pp, c)
             ips == [i \in DOMAIN f |-> A(i)]
             bound == [i \in DOMAIN g |-> B(i)]
  <1>4. ips = IpSlots(p, t, c) /\ bound = BoundSlots(p, t, c)
    BY <1>2 DEF IpSlots, BoundSlots
  <1>5. /\ Len(f) \in Nat /\ DOMAIN f = 1..Len(f) /\ \A i \in 1..Len(f) : f[i] \in ToSet(f)
        /\ Len(g) \in Nat /\ DOMAIN g = 1..Len(g) /\ \A i \in 1..Len(g) : g[i] \in ToSet(g)
    BY <1>3, ListProperties
  <1>6. /\ ips \in [1..Len(f) -> {A(i) : i \in 1..Len(f)}]
        /\ bound \in [1..Len(g) -> {B(i) : i \in 1..Len(g)}]
    <2> HIDE DEF A, B
    <2> QED
      BY <1>5
  <1>7. /\ IsList(ips) /\ ToSet(ips) \subseteq {A(i) : i \in 1..Len(f)}
        /\ IsList(bound) /\ ToSet(bound) \subseteq {B(i) : i \in 1..Len(g)} /\ Len(bound) = Len(g)
        /\ Len(ips) = Len(f)
    <2> HIDE DEF A, B, ips, bound
    <2> QED
      BY <1>5, <1>6, FunctionsAreLists, ZenonT(60)
  <1>8. /\ IsList(ips \o bound) /\ ToSet(ips \o bound) = ToSet(ips) \cup ToSet(bound)
    <2> HIDE DEF ips, bound
    <2> QED
      BY <1>7, ConcatIsList
  <1>9. ASSUME NEW x \in ToSet(ips \o bound) PROVE IsIpSlot(x, p, t, c) \/ IsBoundSlot(x, p, t, c)
    <2>1. CASE x \in ToSet(ips)
      <3>1. PICK i \in 1..Len(f) : x = A(i)
        BY <1>7, <2>1
      <3>2. f[i] \in ToSet(p) /\ f[i].source = "ip" /\ ShownIn(f[i], c) = t
        BY <1>3, <1>5
      <3> QED
        BY <3>1, <3>2 DEF IsIpSlot
    <2>2. CASE x \in ToSet(bound)
      <3>1. PICK i \in 1..Len(g) : x = B(i)
        BY <1>7, <2>2
      <3>2. g[i] \in ToSet(p) /\ Binds(g[i]) /\ g[i].term = t
        BY <1>3, <1>5
      <3> QED
        BY <3>1, <3>2 DEF IsBoundSlot
    <2> QED
      BY <1>8, <2>1, <2>2
  <1>10. ASSUME NEW x \in ToSet(p), Binds(x), x.term = t
         PROVE  BoundSlot(x, PlannedPlacements(p), c) \in ToSet(ips \o bound)
    <2>1. x \in ToSet(g)
      BY <1>3, <1>10
    <2>2. PICK i \in 1..Len(g) : x = g[i]
      BY <1>3, <2>1, ListProperties
    <2>3. bound[i] = BoundSlot(x, PlannedPlacements(p), c)
      BY <1>5, <2>2
    <2>4. bound[i] \in ToSet(bound)
      <3> HIDE DEF bound
      <3> QED
        BY <1>7, <2>2, ListProperties
    <2> QED
      BY <1>8, <2>3, <2>4
  <1>11. ASSUME NEW x \in ToSet(p), x.source = "ip", ShownIn(x, c) = t
         PROVE  IpSlot(x, c) \in ToSet(ips \o bound)
    <2>1. x \in ToSet(f)
      BY <1>3, <1>11
    <2>2. PICK i \in 1..Len(f) : x = f[i]
      BY <1>3, <2>1, ListProperties
    <2>3. ips[i] = IpSlot(x, c)
      BY <1>5, <2>2
    <2>4. ips[i] \in ToSet(ips)
      <3> HIDE DEF ips
      <3> QED
        BY <1>7, <2>2, ListProperties
    <2> QED
      BY <1>8, <2>3, <2>4
  <1> HIDE DEF ips, bound
  <1> QED
    BY <1>1, <1>4, <1>7, <1>8, <1>9, <1>10, <1>11

LEMMA PlacedCredits ==
    ASSUME NEW c, RequirementsAreOk(c), NEW p, AllGrounded(p, c), NEW t \in ToSet(c.terms),
           NEW s \in ToSet(PlacedSlots(p, c)[t])
    PROVE  s.credits \in Nat
  <1>1. IsIpSlot(s, p, t, c) \/ IsBoundSlot(s, p, t, c)
    BY SlotsOfATerm DEF AllGrounded
  <1>2. \A x \in ToSet(p) : Grounded(x, c) /\ x.credits \in Nat
    BY DEF AllGrounded, Grounded, IsPlacement
  <1>3. CASE IsIpSlot(s, p, t, c)
    <2>1. PICK x \in ToSet(p) : x.source = "ip" /\ s = IpSlot(x, c)
      BY <1>3 DEF IsIpSlot
    <2>2. s.credits = x.credits
      BY <1>2, <2>1, SlotOfAPlacement
    <2> QED
      BY <1>2, <2>2
  <1>4. CASE IsBoundSlot(s, p, t, c)
    <2>1. PICK x \in ToSet(p) : Binds(x) /\ s = BoundSlot(x, PlannedPlacements(p), c)
      BY <1>4 DEF IsBoundSlot
    <2>2. s.credits = x.credits
      BY <1>2, <2>1, SlotOfAPlacement
    <2> QED
      BY <1>2, <2>2
  <1> QED
    BY <1>1, <1>3, <1>4

Placed(p, c) == PlacedSlots(p, c)
Weights(s, S) == [i \in DOMAIN s |-> IF s[i] \in S THEN s[i].credits ELSE 0]

\* A term of a grown schedule: what was placed in it, then padding.
LEMMA GrownTerm ==
    ASSUME NEW c, RequirementsAreOk(c), NEW p, AllGrounded(p, c),
           NEW s \in Grown(Placed(p, c), c), NEW t \in ToSet(c.terms)
    PROVE  /\ IsList(s[t]) /\ IsList(Placed(p, c)[t])
           /\ GrowsBy(s[t], Placed(p, c)[t], Padding(c))
           /\ ToSet(Placed(p, c)[t]) \subseteq ToSet(s[t])
           /\ \A x \in ToSet(s[t]) : x.credits \in Nat /\ (x \in ToSet(Placed(p, c)[t]) \/ x \in Padding(c))
  <1>1. s \in [ToSet(c.terms) -> Seq(SlotsOf(Placed(p, c), c))] /\ GrowsBy(s[t], Placed(p, c)[t], Padding(c))
    BY DEF Grown
  <1>2. IsList(s[t])
    BY <1>1, SeqsAreLists
  <1>3. IsList(Placed(p, c)[t])
    BY SlotsOfATerm DEF AllGrounded, Placed
  <1>4. PICK l, l0 : l = s[t] /\ l0 = Placed(p, c)[t]
    OBVIOUS
  <1>5. /\ Len(l) \in Nat /\ Len(l0) \in Nat
        /\ \A i \in 1..Len(l) : l[i] \in ToSet(l)
        /\ \A i \in 1..Len(l0) : l0[i] \in ToSet(l0)
        /\ \A x \in ToSet(l) : \E i \in 1..Len(l) : x = l[i]
        /\ \A x \in ToSet(l0) : \E i \in 1..Len(l0) : x = l0[i]
    BY <1>2, <1>3, <1>4, ListProperties
  <1>6. /\ Len(l0) <= Len(l) /\ \A i \in 1..Len(l0) : l[i] = l0[i]
        /\ \A i \in (Len(l0) + 1)..Len(l) : l[i] \in Padding(c)
    BY <1>1, <1>4 DEF GrowsBy
  <1>7. \A i \in 1..Len(l0) : i \in 1..Len(l)
    BY <1>5, <1>6
  <1>8. ToSet(l0) \subseteq ToSet(l)
    <2>1. SUFFICES ASSUME NEW x \in ToSet(l0) PROVE x \in ToSet(l)
      OBVIOUS
    <2>2. PICK i \in 1..Len(l0) : x = l0[i]
      BY <1>5
    <2>3. i \in 1..Len(l) /\ l[i] = x
      BY <1>6, <1>7, <2>2
    <2> QED
      BY <1>5, <2>3, Zenon
  <1>9. \A x \in ToSet(l) : x \in ToSet(l0) \/ x \in Padding(c)
    <2>1. \A i \in 1..Len(l) : i \in 1..Len(l0) \/ i \in (Len(l0) + 1)..Len(l)
      BY <1>5
    <2>2. SUFFICES ASSUME NEW x \in ToSet(l) PROVE x \in ToSet(l0) \/ x \in Padding(c)
      OBVIOUS
    <2>3. PICK i \in 1..Len(l) : x = l[i]
      BY <1>5
    <2>4. CASE i \in 1..Len(l0)
      BY <1>5, <1>6, <2>3, <2>4, Zenon
    <2>5. CASE i \in (Len(l0) + 1)..Len(l)
      BY <1>6, <2>3, <2>5, Zenon
    <2> QED
      BY <2>1, <2>4, <2>5
  <1>10. \A x \in ToSet(l0) : x.credits \in Nat
    BY <1>4, PlacedCredits DEF Placed
  <1> QED
    BY <1>1, <1>2, <1>3, <1>4, <1>8, <1>9, <1>10, PaddingFields

LEMMA WeightsAreNat ==
    ASSUME NEW s, IsList(s), \A x \in ToSet(s) : x.credits \in Nat, NEW S
    PROVE  /\ Weights(s, S) \in [1..Len(s) -> Nat] /\ Sum(Weights(s, S)) \in Nat /\ Len(s) \in Nat
           /\ [i \in DOMAIN s |-> s[i].credits] \in [1..Len(s) -> Nat]
           /\ Sum([i \in DOMAIN s |-> s[i].credits]) \in Nat
  <1>1. Len(s) \in Nat /\ DOMAIN s = 1..Len(s) /\ \A i \in 1..Len(s) : s[i].credits \in Nat
    BY ListProperties
  <1>2. /\ Weights(s, S) \in [1..Len(s) -> Nat]
        /\ [i \in DOMAIN s |-> s[i].credits] \in [1..Len(s) -> Nat]
    BY <1>1 DEF Weights
  <1> QED
    BY <1>1, <1>2, SumIsNat

\* The credits of a grown schedule, of a term and of all.
LEMMA GrownCredits ==
    ASSUME NEW c, IsContext(c), RequirementsAreOk(c), NEW p, AllGrounded(p, c), NEW s \in Grown(Placed(p, c), c)
    PROVE  /\ \A t \in ToSet(c.terms) : SlotCredits(s, t) \in Nat
           /\ [i \in DOMAIN c.terms |-> SlotCredits(s, c.terms[i])] \in [1..Len(c.terms) -> Nat]
           /\ AllCredits(s, c) \in Nat
  <1>1. ASSUME NEW t \in ToSet(c.terms) PROVE SlotCredits(s, t) \in Nat
    <2>1. IsList(s[t]) /\ \A x \in ToSet(s[t]) : x.credits \in Nat
      BY GrownTerm
    <2> QED
      BY <2>1, WeightsAreNat DEF SlotCredits
  <1>2. DOMAIN c.terms = 1..Len(c.terms) /\ Len(c.terms) \in Nat /\ \A i \in 1..Len(c.terms) : c.terms[i] \in ToSet(c.terms)
    BY ListProperties DEF IsContext
  <1>3. [i \in DOMAIN c.terms |-> SlotCredits(s, c.terms[i])] \in [1..Len(c.terms) -> Nat]
    BY <1>1, <1>2
  <1>4. AllCredits(s, c) \in Nat
    BY <1>2, <1>3, SumIsNat DEF AllCredits
  <1> QED
    BY <1>1, <1>3, <1>4

LEMMA TargetsAreInts ==
    ASSUME NEW c, IsContext(c), LimitsAreOk(c), NEW t
    PROVE  EffectiveTermTarget(t, c) \in Int
  BY DEF EffectiveTermTarget, IsContext, LimitsAreOk, None

LEMMA FillTargetIsInt ==
    ASSUME NEW c, IsContext(c), RequirementsAreOk(c), LimitsAreOk(c), NEW p, AllGrounded(p, c),
           NEW s \in Grown(Placed(p, c), c), NEW t \in ToSet(c.terms)
    PROVE  FillTarget(s, t, c) \in Int
  <1> DEFINE base == EffectiveTermTarget(t, c)
             need == c.minimum - (c.earned + AllCredits(s, c))
             missing == Max({0, need})
  <1>1. base \in Int /\ SlotCredits(s, t) \in Nat /\ AllCredits(s, c) \in Nat
    BY TargetsAreInts, GrownCredits
  <1>2. need \in Int
    BY <1>1 DEF IsContext
  <1>3. missing \in Int
    <2>1. PICK x \in Int : x = need
      BY <1>2
    <2>2. Max({0, x}) \in {0, x}
      BY MaxOfTwo
    <2>3. Max({0, x}) \in Int
      BY <2>2
    <2> QED
      BY <2>1, <2>3
  <1>4. c.ceiling \in Int /\ c.f1Floor \in Int
    BY DEF LimitsAreOk
  <1>5. Min({SlotCredits(s, t) + missing, c.ceiling}) \in Int
    <2> HIDE DEF missing
    <2>1. SlotCredits(s, t) + missing \in Int
      BY <1>1, <1>3
    <2> QED
      BY <1>4, <2>1, MinOfTwo
  <1>6. Max({base, c.f1Floor}) \in Int
    <2> HIDE DEF base
    <2>1. Max({base, c.f1Floor}) \in {base, c.f1Floor}
      BY <1>1, <1>4, MaxOfTwo
    <2> QED
      BY <1>1, <1>4, <2>1
  <1>7. FillTarget(s, t, c) \in {Min({SlotCredits(s, t) + missing, c.ceiling}), Max({base, c.f1Floor}), base}
    BY DEF FillTarget
  <1> QED
    BY <1>1, <1>5, <1>6, <1>7

\* Each step of the schedule grows it.
LEMMA StepsGrow ==
    ASSUME NEW c, IsContext(c), RequirementsAreOk(c), LimitsAreOk(c), NEW p, AllGrounded(p, c),
           NEW s \in Grown(Placed(p, c), c)
    PROVE  /\ \A r \in ToSet(c.reqs) : AddPlaceholder(s, r, c) \in Grown(Placed(p, c), c)
           /\ \A t \in ToSet(c.terms) : FillTerm(s, t, c) \in Grown(Placed(p, c), c)
  <1>1. ASSUME NEW r \in ToSet(c.reqs) PROVE AddPlaceholder(s, r, c) \in Grown(Placed(p, c), c)
    <2>1. PICK slot, t : /\ slot = Slot("placeholder", "none", r.credits, r.rId, Tier(r.rId, c), 30)
                         /\ t = PlaceholderTerm(s, r, c)
      OBVIOUS
    <2>2. AddPlaceholder(s, r, c) = [s EXCEPT ![t] = Append(s[t], slot)]
      BY <2>1 DEF AddPlaceholder, AddSlot
    <2>3. CASE t \in ToSet(c.terms)
      <3> DEFINE extra == <<slot>>
      <3>1. slot \in Padding(c)
        BY <2>1 DEF Padding, OpenSlots
      <3>2. IsList(s[t]) /\ IsList(Placed(p, c)[t])
        BY <2>3, GrownTerm
      <3>3. IsList(extra) /\ ToSet(extra) \subseteq Padding(c)
        <4>1. extra \in [1..1 -> Padding(c)] /\ 1 \in Nat
          BY <3>1
        <4> HIDE DEF extra
        <4> QED
          BY <4>1, FunctionsAreLists
      <3>4. Append(s[t], slot) = s[t] \o extra
        <4>1. s[t] \in Seq(ToSet(s[t])) /\ slot \in {slot}
          BY <3>2 DEF IsList
        <4> QED
          BY <4>1
      <3> HIDE DEF extra
      <3>5. [s EXCEPT ![t] = @ \o extra] \in Grown(Placed(p, c), c)
        BY <2>3, <3>2, <3>3, GrowsOn
      <3> QED
        BY <2>2, <3>4, <3>5
    <2>4. CASE t \notin ToSet(c.terms)
      <3>1. s \in [ToSet(c.terms) -> Seq(SlotsOf(Placed(p, c), c))]
        BY DEF Grown
      <3>2. [s EXCEPT ![t] = Append(s[t], slot)] = s
        BY <2>4, <3>1
      <3> QED
        BY <2>2, <3>2
    <2> QED
      BY <2>3, <2>4
  <1>2. ASSUME NEW t \in ToSet(c.terms) PROVE FillTerm(s, t, c) \in Grown(Placed(p, c), c)
    <2>1. PICK credits, target : credits = SlotCredits(s, t) /\ target = FillTarget(s, t, c)
      OBVIOUS
    <2>2. credits \in Nat /\ target \in Int
      BY <2>1, GrownCredits, FillTargetIsInt
    <2>3. PICK free : free = FreeElectives(credits, target, c)
      OBVIOUS
    <2>4. IsList(free) /\ ToSet(free) \subseteq Padding(c)
      BY <2>2, <2>3, ElectivesFillUp DEF Padding
    <2>5. IsList(Placed(p, c)[t])
      BY GrownTerm
    <2>6. [s EXCEPT ![t] = @ \o free] \in Grown(Placed(p, c), c)
      BY <2>4, <2>5, GrowsOn
    <2> QED
      BY <2>1, <2>3, <2>6 DEF FillTerm
  <1> QED
    BY <1>1, <1>2

\* The two walks of the schedule, over the requirements nothing was bound for
\* and over the terms, as functions.
BoundAll(bound, p, c) ==
  /\ bound[0] = Placed(p, c)
  /\ \A i \in 1..Len(Uncovered(p, c)) : bound[i] = AddPlaceholder(bound[i - 1], Uncovered(p, c)[i], c)
FilledAll(filled, start, c) ==
  /\ filled[0] = start
  /\ \A i \in 1..Len(c.terms) : filled[i] = FillTerm(filled[i - 1], c.terms[i], c)

LEMMA UncoveredRequirements ==
    ASSUME NEW c, RequirementsAreOk(c), NEW p
    PROVE  /\ IsList(Uncovered(p, c)) /\ Len(Uncovered(p, c)) \in Nat
           /\ ToSet(Uncovered(p, c)) = {r \in ToSet(c.reqs) : r.rId \notin CoveredRIds(p)}
           /\ \A i \in 1..Len(Uncovered(p, c)) : Uncovered(p, c)[i] \in ToSet(c.reqs)
  <1>1. IsList(c.reqs)
    BY DEF RequirementsAreOk
  <1>2. /\ IsList(Uncovered(p, c))
        /\ ToSet(Uncovered(p, c)) = {r \in ToSet(c.reqs) : r.rId \notin CoveredRIds(p)}
    BY <1>1, FilterKeeps DEF Uncovered
  <1> QED
    BY <1>2, ListProperties

LEMMA ScheduleSteps ==
    ASSUME NEW c, IsContext(c), RequirementsAreOk(c), LimitsAreOk(c), NEW p, AllGrounded(p, c)
    PROVE  \E bound, filled :
             /\ BoundAll(bound, p, c) /\ FilledAll(filled, bound[Len(Uncovered(p, c))], c)
             /\ \A i \in 0..Len(c.terms) : filled[i] \in Grown(Placed(p, c), c)
             /\ Schedule(p, c) = filled[Len(c.terms)]
  <1> DEFINE T == Grown(Placed(p, c), c)
             unc == Uncovered(p, c)
             k == Len(unc)
             n == Len(c.terms)
             Body(g) == [i \in 0..k |-> IF i = 0 THEN PlacedSlots(p, c) ELSE AddPlaceholder(g[i - 1], unc[i], c)]
             bound == CHOOSE g : g = Body(g)
             Body2(g) == [i \in 0..n |-> IF i = 0 THEN bound[k] ELSE FillTerm(g[i - 1], c.terms[i], c)]
             filled == CHOOSE g : g = Body2(g)
  <1>1. /\ k \in Nat /\ \A i \in 1..k : unc[i] \in ToSet(c.reqs)
        /\ n \in Nat /\ \A i \in 1..n : c.terms[i] \in ToSet(c.terms)
    BY UncoveredRequirements, ListProperties DEF IsContext
  <1>2. Placed(p, c) \in T
    <2>1. \A t \in ToSet(c.terms) : IsList(Placed(p, c)[t])
      BY SlotsOfATerm DEF AllGrounded, Placed
    <2>2. \A t \in ToSet(c.terms) : Placed(p, c)[t] \in Seq(SlotsOf(Placed(p, c), c))
      <3>1. SUFFICES ASSUME NEW t \in ToSet(c.terms) PROVE Placed(p, c)[t] \in Seq(SlotsOf(Placed(p, c), c))
        OBVIOUS
      <3>2. PICK l, U : l = Placed(p, c)[t] /\ U = SlotsOf(Placed(p, c), c)
        OBVIOUS
      <3>3. ToSet(l) \subseteq U
        BY <3>2 DEF SlotsOf
      <3>4. l \in Seq(ToSet(l))
        BY <2>1, <3>2 DEF IsList
      <3> QED
        BY <3>2, <3>3, <3>4
    <2>3. Placed(p, c) = [t \in ToSet(c.terms) |-> Placed(p, c)[t]]
      BY DEF Placed, PlacedSlots
    <2>4. \A t \in ToSet(c.terms) : GrowsBy(Placed(p, c)[t], Placed(p, c)[t], Padding(c))
      <3>1. SUFFICES ASSUME NEW t \in ToSet(c.terms) PROVE GrowsBy(Placed(p, c)[t], Placed(p, c)[t], Padding(c))
        OBVIOUS
      <3>2. PICK m \in Nat : m = Len(Placed(p, c)[t])
        BY <2>1, ListProperties
      <3> QED
        BY <3>2 DEF GrowsBy
    <2> QED
      BY <2>2, <2>3, <2>4 DEF Grown
  <1>3. /\ \A s \in T : \A r \in ToSet(c.reqs) : AddPlaceholder(s, r, c) \in T
        /\ \A s \in T : \A t \in ToSet(c.terms) : FillTerm(s, t, c) \in T
    BY StepsGrow
  <1>4. /\ BoundAll(bound, p, c) /\ bound[k] \in T
    <2> DEFINE step == [x \in T \X (1..k) |-> AddPlaceholder(x[1], unc[x[2]], c)]
    <2> HIDE DEF T, unc, k, n, Body2, filled
    <2>1. step \in [T \X (1..k) -> T]
      BY <1>1, <1>3
    <2>2. PICK g : Recursive(g, k, T, Placed(p, c), step)
      <3> HIDE DEF step, Body, bound
      <3> QED
        BY <1>1, <1>2, <2>1, FiniteRecursion
    <2>3. /\ g \in [0..k -> T] /\ g[0] = Placed(p, c)
          /\ \A i \in 1..k : g[i] = AddPlaceholder(g[i - 1], unc[i], c)
      <3>1. g \in [0..k -> T] /\ g[0] = Placed(p, c) /\ \A i \in 1..k : g[i] = step[<<g[i - 1], i>>]
        BY <2>2 DEF Recursive
      <3>2. \A i \in 1..k : <<g[i - 1], i>> \in T \X (1..k)
        BY <1>1, <3>1
      <3> QED
        BY <3>1, <3>2
    <2>4. g = Body(g)
      <3>1. \A i \in 0..k : i = 0 \/ (i \in 1..k /\ i # 0)
        BY <1>1
      <3>2. \A i \in 0..k : g[i] = IF i = 0 THEN PlacedSlots(p, c) ELSE AddPlaceholder(g[i - 1], unc[i], c)
        <4> HIDE DEF Body, bound
        <4> QED
          BY <2>3, <3>1, Zenon DEF Placed
      <3>3. g = [i \in 0..k |-> g[i]]
        BY <2>3
      <3> QED
        BY <3>2, <3>3
    <2>5. bound = Body(bound)
      BY <2>4, Zenon
    <2> HIDE DEF bound, step
    <2>6. \A i \in 0..k : bound[i] = IF i = 0 THEN PlacedSlots(p, c) ELSE AddPlaceholder(bound[i - 1], unc[i], c)
      BY <2>5, Zenon
    <2> HIDE DEF Body
    <2>7. /\ bound[0] = Placed(p, c)
          /\ \A i \in 1..k : bound[i] = AddPlaceholder(bound[i - 1], unc[i], c)
      <3>1. 0 \in 0..k /\ \A i \in 1..k : i \in 0..k /\ i # 0
        BY <1>1
      <3> QED
        BY <2>6, <3>1, Zenon DEF Placed
    <2> DEFINE good == {i \in 0..k : bound[i] \in T}
    <2>8. 0 \in good
      BY <1>1, <1>2, <2>7
    <2>9. ASSUME NEW i \in 1..k, i - 1 \in good PROVE i \in good
      <3>1. bound[i - 1] \in T /\ i \in 0..k
        BY <2>9
      <3> QED
        BY <1>1, <1>3, <2>7, <3>1
    <2> HIDE DEF good
    <2>10. \A i \in 0..k : i \in good
      BY <1>1, <2>8, <2>9, FiniteInduction
    <2>11. bound[k] \in T
      BY <1>1, <2>10 DEF good
    <2> QED
      BY <2>7, <2>11 DEF BoundAll, k, unc
  <1>5. /\ FilledAll(filled, bound[k], c) /\ \A i \in 0..n : filled[i] \in T
    <2> DEFINE step == [x \in T \X (1..n) |-> FillTerm(x[1], c.terms[x[2]], c)]
    <2>0. PICK start : start = bound[k]
      OBVIOUS
    <2> HIDE DEF T, unc, k, n, Body, bound
    <2>1. step \in [T \X (1..n) -> T]
      BY <1>1, <1>3
    <2>2. PICK g : Recursive(g, n, T, start, step)
      <3> HIDE DEF step, Body2, filled
      <3> QED
        BY <1>1, <1>4, <2>0, <2>1, FiniteRecursion
    <2>3. /\ g \in [0..n -> T] /\ g[0] = start
          /\ \A i \in 1..n : g[i] = FillTerm(g[i - 1], c.terms[i], c)
      <3>1. g \in [0..n -> T] /\ g[0] = start /\ \A i \in 1..n : g[i] = step[<<g[i - 1], i>>]
        BY <2>2 DEF Recursive
      <3>2. \A i \in 1..n : <<g[i - 1], i>> \in T \X (1..n)
        BY <1>1, <3>1
      <3> QED
        BY <3>1, <3>2
    <2>4. g = Body2(g)
      <3>1. \A i \in 0..n : i = 0 \/ (i \in 1..n /\ i # 0)
        BY <1>1
      <3>2. \A i \in 0..n : g[i] = IF i = 0 THEN bound[k] ELSE FillTerm(g[i - 1], c.terms[i], c)
        <4> HIDE DEF Body2, filled
        <4> QED
          BY <2>0, <2>3, <3>1, Zenon
      <3>3. g = [i \in 0..n |-> g[i]]
        BY <2>3
      <3> QED
        BY <3>2, <3>3
    <2>5. filled = Body2(filled)
      BY <2>4, Zenon
    <2> HIDE DEF filled, step
    <2>6. \A i \in 0..n : filled[i] = IF i = 0 THEN bound[k] ELSE FillTerm(filled[i - 1], c.terms[i], c)
      BY <2>5, Zenon
    <2> HIDE DEF Body2
    <2>7. /\ filled[0] = bound[k]
          /\ \A i \in 1..n : filled[i] = FillTerm(filled[i - 1], c.terms[i], c)
      <3>1. 0 \in 0..n /\ \A i \in 1..n : i \in 0..n /\ i # 0
        BY <1>1
      <3> QED
        BY <2>6, <3>1, Zenon
    <2> DEFINE good == {i \in 0..n : filled[i] \in T}
    <2>8. 0 \in good
      BY <1>1, <1>4, <2>7
    <2>9. ASSUME NEW i \in 1..n, i - 1 \in good PROVE i \in good
      <3>1. filled[i - 1] \in T /\ i \in 0..n
        BY <2>9
      <3> QED
        BY <1>1, <1>3, <2>7, <3>1
    <2> HIDE DEF good
    <2>10. \A i \in 0..n : i \in good
      BY <1>1, <2>8, <2>9, FiniteInduction
    <2> QED
      BY <2>7, <2>10 DEF FilledAll, n, good
  <1>6. Schedule(p, c) = filled[n]
    BY DEF Schedule
  <1> HIDE DEF bound, filled, Body, Body2, T
  <1> QED
    BY <1>4, <1>5, <1>6 DEF T

-----------------------------------------------------------------------------
(* Sums: what a term shows weighs what is planned in it.                   *)

\* The credits of a term are the weights of all its slots; growing takes no
\* weight away.
LEMMA CreditsAreWeights ==
    ASSUME NEW s, NEW t, IsList(s[t])
    PROVE  SlotCredits(s, t) = Sum(Weights(s[t], ToSet(s[t])))
  <1>1. PICK l : l = s[t]
    OBVIOUS
  <1>2. DOMAIN l = 1..Len(l) /\ \A i \in 1..Len(l) : l[i] \in ToSet(l)
    BY <1>1, ListProperties
  <1>3. [i \in DOMAIN l |-> l[i].credits] = Weights(l, ToSet(l))
    BY <1>2 DEF Weights
  <1> QED
    BY <1>1, <1>3 DEF SlotCredits

\* The weights of two lists, one after the other.
LEMMA WeightsOfConcat ==
    ASSUME NEW a, IsList(a), NEW b, IsList(b), \A x \in ToSet(a) \cup ToSet(b) : x.credits \in Nat, NEW X
    PROVE  Sum(Weights(a \o b, X)) = Sum(Weights(a, X)) + Sum(Weights(b, X))
  <1>1. PICK n, m : n = Len(a) /\ m = Len(b)
    OBVIOUS
  <1>2. /\ n \in Nat /\ DOMAIN a = 1..n /\ m \in Nat /\ DOMAIN b = 1..m
    BY <1>1, ListProperties
  <1>3. /\ IsList(a \o b) /\ Len(a \o b) = n + m
        /\ \A i \in 1..n : (a \o b)[i] = a[i]
        /\ \A i \in 1..m : (a \o b)[n + i] = b[i]
    BY <1>1, ConcatIsList
  <1>4. DOMAIN (a \o b) = 1..(n + m)
    BY <1>3, ListProperties
  <1>5. PICK l, u, v, z : l = a \o b /\ u = Weights(a, X) /\ v = Weights(b, X) /\ z = Weights(l, X)
    OBVIOUS
  <1>6. /\ DOMAIN u = 1..n /\ DOMAIN v = 1..m /\ DOMAIN z = 1..(n + m)
        /\ \A i \in 1..n : u[i] = IF a[i] \in X THEN a[i].credits ELSE 0
        /\ \A i \in 1..m : v[i] = IF b[i] \in X THEN b[i].credits ELSE 0
        /\ \A i \in 1..(n + m) : z[i] = IF l[i] \in X THEN l[i].credits ELSE 0
    BY <1>2, <1>4, <1>5 DEF Weights
  <1>7. u \in [1..n -> Int] /\ v \in [1..m -> Int]
    <2>1. (\A x \in ToSet(a) : x.credits \in Nat) /\ (\A x \in ToSet(b) : x.credits \in Nat)
      OBVIOUS
    <2>2. u \in [1..n -> Nat] /\ v \in [1..m -> Nat]
      BY <1>1, <1>5, <2>1, WeightsAreNat
    <2> QED
      BY <2>2
  <1>8. IsList(u) /\ IsList(v) /\ Len(u) = n /\ Len(v) = m
    BY <1>2, <1>7, FunctionsAreLists
  <1>12. /\ \A i \in 1..n : (u \o v)[i] = u[i]
         /\ \A i \in 1..m : (u \o v)[n + i] = v[i]
    BY <1>8, ConcatIsList
  <1>9. u \o v \in [1..(n + m) -> Int] /\ z = [i \in 1..(n + m) |-> z[i]]
    <2>1. u \o v \in [1..(n + m) -> Int]
      BY <1>2, <1>7, SumOfConcat
    <2>2. z = [i \in DOMAIN z |-> z[i]]
      BY <1>5 DEF Weights
    <2> QED
      BY <1>6, <2>1, <2>2
  <1>10. ASSUME NEW i \in 1..(n + m) PROVE z[i] = (u \o v)[i]
    <2>1. CASE i <= n
      <3>1. i \in 1..n
        BY <1>2, <2>1
      <3>2. (u \o v)[i] = u[i]
        BY <1>12, <3>1
      <3>3. l[i] = a[i]
        BY <1>3, <1>5, <3>1
      <3> QED
        BY <1>6, <3>1, <3>2, <3>3
    <2>2. CASE i > n
      <3>1. PICK k \in 1..m : i = n + k
        <4>1. i - n \in 1..m /\ i = n + (i - n)
          BY <1>2, <2>2
        <4> QED
          BY <4>1
      <3>2. (u \o v)[n + k] = v[k]
        BY <1>12, <3>1
      <3>3. l[n + k] = b[k]
        BY <1>3, <1>5, <3>1
      <3> QED
        BY <1>6, <3>1, <3>2, <3>3
    <2>3. i \in Int /\ n \in Int
      BY <1>2
    <2>4. i <= n \/ i > n
      BY <2>3
    <2> QED
      BY <2>1, <2>2, <2>4
  <1>11. z = u \o v
    BY <1>9, <1>10
  <1>13. Sum(u \o v) = Sum(u) + Sum(v)
    BY <1>2, <1>7, SumOfConcat
  <1> QED
    BY <1>5, <1>11, <1>13

\* A schedule that has grown weighs no less.
LEMMA GrownWeighs ==
    ASSUME NEW c, RequirementsAreOk(c), NEW p, AllGrounded(p, c),
           NEW s \in Grown(Placed(p, c), c), NEW t \in ToSet(c.terms)
    PROVE  /\ \A X : /\ Sum(Weights(Placed(p, c)[t], X)) \in Nat /\ Sum(Weights(s[t], X)) \in Nat
                     /\ Sum(Weights(Placed(p, c)[t], X)) <= Sum(Weights(s[t], X))
           /\ SlotCredits(Placed(p, c), t) \in Nat /\ SlotCredits(s, t) \in Nat
           /\ SlotCredits(Placed(p, c), t) <= SlotCredits(s, t)
  <1>1. PICK l, l0 : l = s[t] /\ l0 = Placed(p, c)[t]
    OBVIOUS
  <1>2. /\ IsList(l) /\ IsList(l0) /\ GrowsBy(l, l0, Padding(c))
        /\ ToSet(l0) \subseteq ToSet(l) /\ \A x \in ToSet(l) : x.credits \in Nat
    BY <1>1, GrownTerm
  <1>3. /\ \A S : /\ Weights(l, S) \in [1..Len(l) -> Nat] /\ Sum(Weights(l, S)) \in Nat
                  /\ Weights(l0, S) \in [1..Len(l0) -> Nat] /\ Sum(Weights(l0, S)) \in Nat
        /\ Len(l) \in Nat /\ Len(l0) \in Nat
    <2>1. \A x \in ToSet(l0) : x.credits \in Nat
      BY <1>2
    <2> QED
      BY <1>2, <2>1, WeightsAreNat
  <1>4. ASSUME NEW X PROVE Sum(Weights(l0, X)) <= Sum(Weights(l, X))
    <2>1. Len(l0) \in 0..Len(l)
      BY <1>2, <1>3 DEF GrowsBy
    <2>2. \A i \in 1..Len(l0) : Weights(l0, X)[i] <= Weights(l, X)[i]
      <3>1. SUFFICES ASSUME NEW i \in 1..Len(l0) PROVE Weights(l0, X)[i] <= Weights(l, X)[i]
        OBVIOUS
      <3>2. i \in 1..Len(l) /\ l[i] = l0[i]
        BY <1>2, <1>3 DEF GrowsBy
      <3>3. i \in DOMAIN l /\ i \in DOMAIN l0
        BY <1>2, <3>2, ListProperties
      <3>4. Weights(l0, X)[i] = Weights(l, X)[i]
        BY <3>2, <3>3 DEF Weights
      <3>5. Weights(l, X)[i] \in Nat
        BY <1>3, <3>2
      <3> QED
        BY <3>4, <3>5
    <2>3. PICK u, v : u = Weights(l0, X) /\ v = Weights(l, X)
      OBVIOUS
    <2>4. u \in [1..Len(l0) -> Nat] /\ v \in [1..Len(l) -> Nat]
      BY <1>3, <2>3
    <2>5. u \in [1..Len(l0) -> Int]
      BY <2>4
    <2> QED
      BY <1>3, <2>1, <2>2, <2>3, <2>4, <2>5, SumOfPrefix
  <1>5. SlotCredits(Placed(p, c), t) = Sum(Weights(l0, ToSet(l0))) /\ SlotCredits(s, t) = Sum(Weights(l, ToSet(l)))
    BY <1>1, <1>2, CreditsAreWeights
  <1>6. Weights(l0, ToSet(l0)) = Weights(l0, ToSet(l))
    <2>1. \A i \in DOMAIN l0 : l0[i] \in ToSet(l0) /\ l0[i] \in ToSet(l)
      BY <1>2, ListProperties
    <2> QED
      BY <2>1 DEF Weights
  <1> QED
    BY <1>1, <1>3, <1>4, <1>5, <1>6

\* The term a placement is shown in is its own, inside the window when every
\* course in progress is shown.
LEMMA PlacesOfAPlan ==
    ASSUME NEW c, NEW x, Grounded(x, c)
    PROVE  /\ ShownIn(x, c) = x.term
           /\ x.source # "free" /\ (Binds(x) <=> x.source # "ip")
           /\ Binds(x) => InWindow(x.term, c)
           /\ IpsAreShown(c) => InWindow(x.term, c)
           /\ x.credits \in Nat /\ x.term \in Int
  <1>1. CASE IpIsGrounded(x, c)
    BY <1>1 DEF IpIsGrounded, ShownIn, Binds, IpsAreShown, Grounded, IsPlacement
  <1>2. CASE ~IpIsGrounded(x, c)
    BY <1>2 DEF CourseIsGrounded, PoolIsGrounded, ShownIn, Binds, Grounded, IsPlacement
  <1> QED
    BY <1>1, <1>2

\* The weight of what a term shows is the weight of what is planned in it.
Planned(p, t, A) == [i \in 1..Len(p) |-> IF p[i].term = t /\ p[i] \in A THEN p[i].credits ELSE 0]

\* The slots of the set are those of the placements of the other.
Show(p, t, X, A, c) ==
  \A x \in ToSet(p) : x.term = t =>
    /\ x.source = "ip" => (IpSlot(x, c) \in X <=> x \in A)
    /\ Binds(x) => (BoundSlot(x, PlannedPlacements(p), c) \in X <=> x \in A)

LEMMA PlacedWeighs ==
    ASSUME NEW c, RequirementsAreOk(c), NEW p, AllGrounded(p, c), NEW t \in ToSet(c.terms), NEW X, NEW A,
           Show(p, t, X, A, c)
    PROVE  Sum(Weights(Placed(p, c)[t], X)) = Sum(Planned(p, t, A))
  <1> DEFINE pp == PlannedPlacements(p)
             S1 == {x \in ToSet(p) : x.source = "ip" /\ ShownIn(x, c) = t}
             S2 == {x \in ToSet(p) : Binds(x) /\ x.term = t}
             f == Filter(p, S1)
             g == Filter(p, S2)
             ips == IpSlots(p, t, c)
             bound == BoundSlots(p, t, c)
             w == [x \in ToSet(p) |-> IF x \in A THEN x.credits ELSE 0]
  <1>1. /\ Placed(p, c)[t] = ips \o bound /\ IsList(ips) /\ IsList(bound)
    BY SlotsOfATerm DEF AllGrounded, Placed
  <1>2. /\ IsList(p)
        /\ \A x \in ToSet(p) : /\ Grounded(x, c) /\ ShownIn(x, c) = x.term /\ (Binds(x) <=> x.source # "ip")
                               /\ x.credits \in Nat
    BY PlacesOfAPlan DEF AllGrounded
  <1>3. w \in [ToSet(p) -> Int]
    BY <1>2
  <1>4. /\ IsList(f) /\ ToSet(f) = S1 /\ IsList(g) /\ ToSet(g) = S2
    <2> HIDE DEF f, g
    <2>1. IsList(f) /\ ToSet(f) = ToSet(p) \cap S1 /\ IsList(g) /\ ToSet(g) = ToSet(p) \cap S2
      BY <1>2, FilterKeeps DEF f, g
    <2> QED
      BY <2>1
  <1>5. /\ Len(f) \in Nat /\ DOMAIN f = 1..Len(f) /\ \A i \in 1..Len(f) : f[i] \in S1
        /\ Len(g) \in Nat /\ DOMAIN g = 1..Len(g) /\ \A i \in 1..Len(g) : g[i] \in S2
        /\ Len(p) \in Nat /\ DOMAIN p = 1..Len(p) /\ \A i \in 1..Len(p) : p[i] \in ToSet(p)
    <2> HIDE DEF f, g, S1, S2
    <2> QED
      BY <1>2, <1>4, ListProperties
  <1>6. ips = [i \in DOMAIN f |-> IpSlot(f[i], c)] /\ bound = [i \in DOMAIN g |-> BoundSlot(g[i], pp, c)]
    BY DEF IpSlots, BoundSlots, ShownIps, BoundIn
  <1> HIDE DEF ips, bound, f, g, pp
  <1>7. Weights(ips, X) = WeightsOf(f, w)
    <2>1. ASSUME NEW i \in 1..Len(f)
          PROVE  (IF IpSlot(f[i], c) \in X THEN IpSlot(f[i], c).credits ELSE 0) = w[f[i]]
      <3>1. PICK x : x = f[i]
        OBVIOUS
      <3>2. x \in ToSet(p) /\ x.source = "ip" /\ x.term = t /\ Grounded(x, c)
        BY <1>2, <1>5, <3>1
      <3>3. IpSlot(x, c).credits = x.credits
        BY <3>2, SlotOfAPlacement
      <3>4. IpSlot(x, c) \in X <=> x \in A
        BY <3>2 DEF Show
      <3> QED
        BY <3>1, <3>2, <3>3, <3>4
    <2>2. DOMAIN ips = 1..Len(f) /\ \A i \in 1..Len(f) : ips[i] = IpSlot(f[i], c)
      BY <1>5, <1>6
    <2>3. Weights(ips, X) = [i \in 1..Len(f) |-> IF ips[i] \in X THEN ips[i].credits ELSE 0]
      BY <2>2 DEF Weights
    <2> HIDE DEF w
    <2> QED
      BY <2>1, <2>2, <2>3 DEF WeightsOf
  <1>8. Weights(bound, X) = WeightsOf(g, w)
    <2>1. ASSUME NEW i \in 1..Len(g)
          PROVE  (IF BoundSlot(g[i], pp, c) \in X THEN BoundSlot(g[i], pp, c).credits ELSE 0) = w[g[i]]
      <3>1. PICK x : x = g[i]
        OBVIOUS
      <3>2. x \in ToSet(p) /\ Binds(x) /\ x.term = t /\ Grounded(x, c)
        BY <1>2, <1>5, <3>1
      <3>3. BoundSlot(x, pp, c).credits = x.credits
        BY <3>2, SlotOfAPlacement
      <3>4. BoundSlot(x, pp, c) \in X <=> x \in A
        BY <3>2 DEF Show, pp
      <3> QED
        BY <3>1, <3>2, <3>3, <3>4
    <2>2. DOMAIN bound = 1..Len(g) /\ \A i \in 1..Len(g) : bound[i] = BoundSlot(g[i], pp, c)
      BY <1>5, <1>6
    <2>3. Weights(bound, X) = [i \in 1..Len(g) |-> IF bound[i] \in X THEN bound[i].credits ELSE 0]
      BY <2>2 DEF Weights
    <2> HIDE DEF w
    <2> QED
      BY <2>1, <2>2, <2>3 DEF WeightsOf
  <1>9. /\ Weights(ips, X) \in [1..Len(f) -> Int] /\ Weights(bound, X) \in [1..Len(g) -> Int]
        /\ Sum(Weights(ips, X)) = Sum(WeightsIn(p, S1, w))
        /\ Sum(Weights(bound, X)) = Sum(WeightsIn(p, S2, w))
    <2> HIDE DEF w, S1, S2
    <2>1. /\ WeightsOf(f, w) \in [1..Len(f) -> Int]
          /\ Sum(WeightsOf(f, w)) = Sum(WeightsIn(p, S1, w))
      BY <1>2, <1>3, SumOfFilter DEF f
    <2>2. /\ WeightsOf(g, w) \in [1..Len(g) -> Int]
          /\ Sum(WeightsOf(g, w)) = Sum(WeightsIn(p, S2, w))
      BY <1>2, <1>3, SumOfFilter DEF g
    <2> QED
      BY <1>7, <1>8, <2>1, <2>2
  <1>11. PICK a, b, d : /\ a = WeightsIn(p, S1, w) /\ b = WeightsIn(p, S2, w)
                        /\ d = Planned(p, t, A)
    OBVIOUS
  <1>12. a \in [1..Len(p) -> Int] /\ b \in [1..Len(p) -> Int] /\ d \in [1..Len(p) -> Int]
         /\ \A i \in 1..Len(p) : d[i] = a[i] + b[i]
    <2>1. ASSUME NEW i \in 1..Len(p)
          PROVE a[i] \in Int /\ b[i] \in Int /\ d[i] \in Int /\ d[i] = a[i] + b[i]
      <3>1. PICK x \in ToSet(p) : x = p[i]
        BY <1>5
      <3>2. /\ a[i] = IF x.source = "ip" /\ x.term = t THEN (IF x \in A THEN x.credits ELSE 0) ELSE 0
            /\ b[i] = IF Binds(x) /\ x.term = t THEN (IF x \in A THEN x.credits ELSE 0) ELSE 0
            /\ d[i] = IF x.term = t /\ x \in A THEN x.credits ELSE 0
        BY <1>2, <1>11, <3>1 DEF Planned, WeightsIn
      <3>3. x.credits \in Nat /\ (Binds(x) <=> x.source # "ip")
        BY <1>2
      <3> QED
        BY <3>2, <3>3
    <2> QED
      BY <1>11, <2>1 DEF Planned, WeightsIn
  <1>13. Sum(d) = Sum(a) + Sum(b)
    BY <1>5, <1>12, SumAdds
  <1>14. Sum(Weights(ips \o bound, X)) = Sum(Weights(ips, X)) + Sum(Weights(bound, X))
    <2>1. ToSet(ips \o bound) = ToSet(ips) \cup ToSet(bound)
      BY <1>1, ConcatIsList
    <2>2. \A x \in ToSet(ips) \cup ToSet(bound) : x.credits \in Nat
      BY <1>1, <2>1, PlacedCredits DEF Placed
    <2> QED
      BY <1>1, <2>2, WeightsOfConcat
  <1> QED
    BY <1>1, <1>9, <1>11, <1>13, <1>14

-----------------------------------------------------------------------------
(* The axes one by one, of a schedule grown out of the placed slots.       *)

\* What a term shows of a plan is what the constraints count in it.
LEMMA CreditsOfPlaced ==
    ASSUME NEW c, RequirementsAreOk(c), NEW p, AllGrounded(p, c), NEW t \in ToSet(c.terms)
    PROVE  SlotCredits(Placed(p, c), t) = TermCredits(p, t)
  <1> DEFINE X == ToSet(Placed(p, c)[t])
             A == ToSet(p)
  <1>1. IsList(Placed(p, c)[t]) /\ IsList(p) /\ IsPlan(p)
    BY SlotsOfATerm DEF AllGrounded, Placed, IsPlan, Grounded
  <1>2. Show(p, t, X, A, c)
    <2>1. \A x \in ToSet(p) : ShownIn(x, c) = x.term
      BY PlacesOfAPlan DEF AllGrounded
    <2> QED
      BY <1>1, <2>1, SlotsOfATerm DEF Placed, Show
  <1>3. Sum(Weights(Placed(p, c)[t], X)) = Sum(Planned(p, t, A))
    <2>1. PICK Y, B : Y = X /\ B = A
      OBVIOUS
    <2> HIDE DEF X, A
    <2>2. Show(p, t, Y, B, c)
      BY <1>2, <2>1
    <2>3. Sum(Weights(Placed(p, c)[t], Y)) = Sum(Planned(p, t, B))
      BY <2>2, PlacedWeighs
    <2> QED
      BY <2>1, <2>3
  <1>4. Planned(p, t, A) = [i \in 1..Len(p) |-> IF p[i].term = t THEN p[i].credits ELSE 0]
    <2>1. \A i \in 1..Len(p) : p[i] \in A
      BY <1>1, ListProperties
    <2> QED
      BY <2>1 DEF Planned
  <1>5. SlotCredits(Placed(p, c), t) = Sum(Weights(Placed(p, c)[t], X))
    BY <1>1, CreditsAreWeights
  <1> QED
    BY <1>1, <1>3, <1>4, <1>5, CreditsOfATerm

\* The minimum is reached, and in a term of the window.
LEMMA TotalsHold ==
    ASSUME NEW c, IsContext(c), RequirementsAreOk(c), LimitsAreOk(c), NEW p, AllGrounded(p, c),
           GraduationTarget(p, c), NEW out, out.slots \in Grown(Placed(p, c), c)
    PROVE  TotalCreditsMeetMinimum(out, c) # "fail" /\ GraduationTargetMet(out, c) # "fail"
  <1> DEFINE s == out.slots
             n == Len(c.terms)
             PlanUpTo(i) == c.earned + Sum([j \in 1..i |-> TermCredits(p, c.terms[j])])
             SlotsUpTo(i) == c.earned + Sum([j \in 1..i |-> SlotCredits(s, c.terms[j])])
             planReached == {i \in DOMAIN c.terms : PlanUpTo(i) >= c.minimum}
             slotsReached == {i \in DOMAIN c.terms : SlotsUpTo(i) >= c.minimum}
  <1>1. n \in Nat /\ DOMAIN c.terms = 1..n /\ \A i \in 1..n : c.terms[i] \in ToSet(c.terms)
    BY ListProperties DEF IsContext
  <1>2. \A t \in ToSet(c.terms) : /\ TermCredits(p, t) \in Nat /\ SlotCredits(s, t) \in Nat
                                  /\ TermCredits(p, t) <= SlotCredits(s, t)
    BY CreditsOfPlaced, GrownWeighs
  <1>3. planReached # {}
    <2>1. LET at == IF planReached = {} THEN None ELSE Min(planReached)
          IN at # None
      BY DEF GraduationTarget, ReachedBy
    <2> QED
      BY <2>1
  <1>4. PICK i \in 1..n : PlanUpTo(i) >= c.minimum
    BY <1>1, <1>3
  <1>5. PICK a, b, d : /\ a = [j \in 1..i |-> TermCredits(p, c.terms[j])]
                       /\ b = [j \in 1..i |-> SlotCredits(s, c.terms[j])]
                       /\ d = [j \in 1..n |-> SlotCredits(s, c.terms[j])]
    OBVIOUS
  <1>6. /\ a \in [1..i -> Int] /\ b \in [1..i -> Nat] /\ d \in [1..n -> Nat] /\ b \in [1..i -> Int]
        /\ \A j \in 1..i : a[j] <= b[j] /\ b[j] <= d[j]
    <2>1. \A j \in 1..i : j \in 1..n
      BY <1>1
    <2> HIDE DEF n, s
    <2> QED
      BY <1>1, <1>2, <1>5, <2>1
  <1>7. Sum(a) \in Int /\ Sum(b) \in Int /\ Sum(d) \in Int /\ Sum(a) <= Sum(b) /\ Sum(b) <= Sum(d)
    <2>1. i \in Nat /\ i \in 0..i /\ i \in 0..n
      BY <1>1
    <2> HIDE DEF n
    <2>2. Sum(a) <= Sum(b)
      BY <1>6, <2>1, SumOfPrefix
    <2>3. Sum(b) <= Sum(d)
      BY <1>1, <1>6, <2>1, SumOfPrefix
    <2>4. d \in [1..n -> Int]
      BY <1>6
    <2> QED
      BY <1>1, <1>6, <2>1, <2>2, <2>3, <2>4, SumIsInt
  <1>8. c.earned \in Nat /\ c.minimum \in Nat /\ c.earned + Sum(a) >= c.minimum
    BY <1>4, <1>5 DEF IsContext
  <1>9. AllCredits(s, c) = Sum(d)
    BY <1>1, <1>5 DEF AllCredits
  <1>10. TotalCreditsMeetMinimum(out, c) # "fail"
    BY <1>7, <1>8, <1>9 DEF TotalCreditsMeetMinimum
  <1>11. i \in slotsReached
    BY <1>1, <1>5, <1>7, <1>8
  <1>12. GraduationTargetMet(out, c) # "fail"
    <2>1. slotsReached \subseteq Nat /\ slotsReached \subseteq 1..n
      BY <1>1
    <2>2. Min(slotsReached) \in 1..n
      <3> HIDE DEF slotsReached, n
      <3> QED
        BY <1>11, <2>1, MinOf
    <2>3. Min(slotsReached) # None /\ c.terms[Min(slotsReached)] <= c.grad
      <3> HIDE DEF slotsReached
      <3> QED
        BY <1>1, <2>2 DEF LimitsAreOk, None
    <2> QED
      BY <1>11, <2>3 DEF GraduationTargetMet, ReachedBy
  <1> QED
    BY <1>10, <1>12

\* The credits of the placements of a set, as far as slots of another show them.
Credits(p, A) == [i \in 1..Len(p) |-> IF p[i] \in A THEN p[i].credits ELSE 0]

LEMMA CountedCovers ==
    ASSUME NEW c, IsContext(c), RequirementsAreOk(c), IpsAreShown(c), NEW p, AllGrounded(p, c),
           NEW s \in Grown(Placed(p, c), c), NEW X, NEW A,
           \A t \in ToSet(c.terms) : Show(p, t, X, A, c)
    PROVE  CountedCredits(s, X, c) \in Int /\ Sum(Credits(p, A)) \in Int /\ CountedCredits(s, X, c) >= Sum(Credits(p, A))
  <1> DEFINE n == Len(p)
             m == Len(c.terms)
             W(t) == Sum(Weights(s[t], X))
             cr == Credits(p, A)
             at == [i \in 1..n |-> p[i].term]
  <1>1. /\ n \in Nat /\ \A i \in 1..n : p[i] \in ToSet(p)
        /\ m \in Nat /\ DOMAIN c.terms = 1..m /\ \A i \in 1..m : c.terms[i] \in ToSet(c.terms)
        /\ \A t \in ToSet(c.terms) : \E j \in 1..m : t = c.terms[j]
    BY ListProperties DEF IsContext, AllGrounded
  <1>2. \A x \in ToSet(p) : InWindow(x.term, c) /\ x.credits \in Nat
    BY PlacesOfAPlan DEF AllGrounded
  <1>3. cr \in [1..n -> Int]
    BY <1>1, <1>2 DEF Credits
  <1>4. PICK part : part = [j \in 1..m |-> Sum(PartAt(c.terms[j], n, cr, at))]
    OBVIOUS
  <1>5. part \in [1..m -> Int] /\ Sum(part) = Sum(cr)
    <2>1. \A j, k \in 1..m : c.terms[j] = c.terms[k] => j = k
      <3> HIDE DEF m
      <3> QED
        BY <1>1 DEF IsContext, IsInjective
    <2>2. \A i \in 1..n : \E j \in 1..m : at[i] = c.terms[j]
      <3>1. \A i \in 1..n : at[i] \in ToSet(c.terms)
        BY <1>1, <1>2 DEF InWindow
      <3> HIDE DEF at, m, n
      <3> QED
        BY <1>1, <3>1
    <2> HIDE DEF at, m, n, cr
    <2>3. \A j \in 1..m : PartAt(c.terms[j], n, cr, at) \in [1..n -> Int]
      BY <1>3 DEF PartAt
    <2>4. \A j \in 1..m : Sum(PartAt(c.terms[j], n, cr, at)) \in Int
      BY <1>1, <2>3, SumIsInt
    <2>5. part \in [1..m -> Int] /\ \A j \in 1..m : part[j] = Sum(PartAt(c.terms[j], n, cr, at))
      BY <1>4, <2>4
    <2>6. n \in Nat /\ m \in Nat /\ cr \in [1..n -> Int]
      BY <1>1, <1>3
    <2>8. HavePlaces(n, m, at, c.terms)
      BY <2>1, <2>2 DEF HavePlaces
    <2>7. Sum(part) = Sum(cr)
      BY <2>5, <2>6, <2>8, SumByPlace, SMTT(30)
    <2> QED
      BY <2>5, <2>7
  <1>6. ASSUME NEW j \in 1..m PROVE W(c.terms[j]) \in Nat /\ part[j] <= W(c.terms[j])
    <2>1. PICK t \in ToSet(c.terms) : t = c.terms[j]
      BY <1>1
    <2>2. Sum(Weights(Placed(p, c)[t], X)) = Sum(Planned(p, t, A))
      BY PlacedWeighs
    <2>3. Planned(p, t, A) = PartAt(c.terms[j], n, cr, at)
      BY <2>1 DEF Planned, Credits, PartAt
    <2>4. part[j] = Sum(Planned(p, t, A))
      BY <1>4, <2>3
    <2>5. W(t) \in Nat /\ Sum(Weights(Placed(p, c)[t], X)) <= W(t)
      BY GrownWeighs
    <2> QED
      BY <2>1, <2>2, <2>4, <2>5
  <1>7. PICK w : w = [j \in 1..m |-> W(c.terms[j])]
    OBVIOUS
  <1>8. w \in [1..m -> Nat] /\ w \in [1..m -> Int] /\ \A j \in 1..m : part[j] <= w[j]
    <2> HIDE DEF W, m
    <2> QED
      BY <1>6, <1>7
  <1>9. CountedCredits(s, X, c) = Sum(w)
    BY <1>1, <1>7 DEF CountedCredits, Weights
  <1>10. Sum(part) <= Sum(w)
    <2>1. m \in 0..m
      BY <1>1
    <2> HIDE DEF m
    <2> QED
      BY <1>1, <1>5, <1>8, <2>1, SumOfPrefix
  <1>11. Sum(w) \in Int /\ Sum(cr) \in Int
    <2> HIDE DEF m, n, cr
    <2> QED
      BY <1>1, <1>3, <1>8, SumIsInt
  <1> QED
    BY <1>5, <1>9, <1>10, <1>11

\* A slot of a grown schedule is padding or shows a placement; each placement
\* inside the window has one.
LEMMA SlotsOfASchedule ==
    ASSUME NEW c, RequirementsAreOk(c), NEW p, AllGrounded(p, c), NEW s \in Grown(Placed(p, c), c)
    PROVE  /\ DOMAIN s = ToSet(c.terms)
           /\ \A x \in Slots(s) : \/ x \in Padding(c)
                                  \/ \E t \in ToSet(c.terms) : IsIpSlot(x, p, t, c) \/ IsBoundSlot(x, p, t, c)
           /\ \A x \in ToSet(p) : InWindow(x.term, c) =>
                /\ x.source = "ip" => IpSlot(x, c) \in Slots(s)
                /\ Binds(x) => BoundSlot(x, PlannedPlacements(p), c) \in Slots(s)
  <1>1. DOMAIN s = ToSet(c.terms)
    BY DEF Grown
  <1>2. IsList(p)
    BY DEF AllGrounded
  <1>3. ASSUME NEW x \in Slots(s)
        PROVE  \/ x \in Padding(c)
               \/ \E t \in ToSet(c.terms) : IsIpSlot(x, p, t, c) \/ IsBoundSlot(x, p, t, c)
    <2>1. PICK t \in ToSet(c.terms) : x \in ToSet(s[t])
      BY <1>1 DEF Slots
    <2>2. x \in ToSet(Placed(p, c)[t]) \/ x \in Padding(c)
      BY <2>1, GrownTerm
    <2>3. CASE x \in ToSet(Placed(p, c)[t])
      <3>1. IsIpSlot(x, p, t, c) \/ IsBoundSlot(x, p, t, c)
        BY <1>2, <2>3, SlotsOfATerm DEF Placed
      <3> QED
        BY <3>1
    <2> QED
      BY <2>2, <2>3
  <1>4. ASSUME NEW x \in ToSet(p), InWindow(x.term, c)
        PROVE  /\ x.source = "ip" => IpSlot(x, c) \in Slots(s)
               /\ Binds(x) => BoundSlot(x, PlannedPlacements(p), c) \in Slots(s)
    <2>1. PICK t \in ToSet(c.terms) : t = x.term
      BY <1>4 DEF InWindow
    <2>2. ToSet(Placed(p, c)[t]) \subseteq ToSet(s[t])
      BY GrownTerm
    <2>3. ToSet(s[t]) \subseteq Slots(s)
      BY <1>1 DEF Slots
    <2>4. ShownIn(x, c) = t
      BY <2>1, PlacesOfAPlan DEF AllGrounded
    <2>5. /\ x.source = "ip" => IpSlot(x, c) \in ToSet(Placed(p, c)[t])
          /\ Binds(x) => BoundSlot(x, PlannedPlacements(p), c) \in ToSet(Placed(p, c)[t])
      BY <1>2, <2>1, <2>4, SlotsOfATerm DEF Placed
    <2> QED
      BY <2>2, <2>3, <2>5
  <1> QED
    BY <1>1, <1>3, <1>4

\* A pool slot of the schedule lists members.
LEMMA PoolsHold ==
    ASSUME NEW c, RequirementsAreOk(c), NEW p, AllGrounded(p, c), NEW out, out.slots \in Grown(Placed(p, c), c)
    PROVE  PoolSlotsResolvable(out, c) # "fail"
  <1>1. ASSUME NEW x \in Slots(out.slots), IsPoolId(x.course, c) PROVE x.members # {}
    <2>1. x \notin Padding(c)
      <3>1. x.course # "none"
        BY <1>1 DEF IsPoolId
      <3> QED
        BY <3>1, PaddingFields
    <2>2. PICK t \in ToSet(c.terms) : IsIpSlot(x, p, t, c) \/ IsBoundSlot(x, p, t, c)
      BY <2>1, SlotsOfASchedule
    <2>3. PICK y \in ToSet(p) : \/ y.source = "ip" /\ x = IpSlot(y, c)
                                \/ Binds(y) /\ x = BoundSlot(y, PlannedPlacements(p), c)
      BY <2>2 DEF IsIpSlot, IsBoundSlot
    <2>4. Grounded(y, c)
      BY DEF AllGrounded
    <2> QED
      BY <1>1, <2>3, <2>4, SlotOfAPlacement
  <1> QED
    BY <1>1 DEF PoolSlotsResolvable

\* A requirement that was bound has a slot, and is not left open.
LEMMA GroupsHold ==
    ASSUME NEW c, RequirementsAreOk(c), OpenAreBindable(c), NEW p, AllGrounded(p, c),
           RequirementCoverage(p, c), NEW out, out.slots \in Grown(Placed(p, c), c)
    PROVE  RequirementGroupsSatisfied(out, c) # "fail"
  <1> DEFINE open == {c.unmet[i].rId : i \in {j \in DOMAIN c.unmet : ~c.unmet[j].partly}}
  <1>1. ASSUME NEW i \in DOMAIN c.unmet, ~c.unmet[i].partly
        PROVE  c.unmet[i].rId \in Satisfies(out.slots)
    <2>1. i \in DOMAIN c.reqs /\ i \in DOMAIN c.vars /\ c.vars[i].rId = c.unmet[i].rId /\ ~c.reqs[i].partly
      BY <1>1 DEF RequirementsAreOk
    <2>2. c.vars[i].candidates # <<>>
      BY <2>1 DEF OpenAreBindable
    <2>3. c.unmet[i].rId \in CoveredRIds(p)
      BY <2>1, <2>2 DEF RequirementCoverage
    <2>4. PICK x \in ToSet(p) : Binds(x) /\ x.rId = c.unmet[i].rId
      <3>1. PICK k \in DOMAIN p : Binds(p[k]) /\ p[k].rId = c.unmet[i].rId
        BY <2>3 DEF CoveredRIds
      <3>2. p[k] \in ToSet(p)
        BY ListProperties DEF AllGrounded
      <3> QED
        BY <3>1, <3>2
    <2>5. Grounded(x, c) /\ InWindow(x.term, c)
      BY <2>4, PlacesOfAPlan DEF AllGrounded
    <2>6. PICK s : s = BoundSlot(x, PlannedPlacements(p), c)
      OBVIOUS
    <2>7. s \in Slots(out.slots)
      BY <2>4, <2>5, <2>6, SlotsOfASchedule
    <2>8. s.rId = x.rId /\ (s.kind = "specific" \/ Resolvable(s))
      BY <2>4, <2>5, <2>6, SlotOfAPlacement
    <2> QED
      BY <2>4, <2>7, <2>8 DEF Satisfies
  <1>2. open \subseteq Satisfies(out.slots)
    <2>1. SUFFICES ASSUME NEW r \in open PROVE r \in Satisfies(out.slots)
      OBVIOUS
    <2>2. PICK i \in DOMAIN c.unmet : ~c.unmet[i].partly /\ r = c.unmet[i].rId
      OBVIOUS
    <2> HIDE DEF open
    <2> QED
      BY <1>1, <2>2
  <1> QED
    BY <1>2 DEF RequirementGroupsSatisfied

\* Residency, major credits and grade averages count what the plan counts.
LEMMA ThresholdsHold ==
    ASSUME NEW c, IsContext(c), RequirementsAreOk(c), LimitsAreOk(c), IpsAreShown(c),
           NEW p, AllGrounded(p, c), ResidencyFloor(p, c), MajorCreditFloor(p, c),
           NEW out, out.slots \in Grown(Placed(p, c), c)
    PROVE  ThresholdsMet(out, c) # "fail"
  <1> DEFINE s == out.slots
             X1 == {x \in Slots(s) : CountsForResidency(x)}
             X2 == {x \in Slots(s) : CountsForMajor(x)}
             A1 == ToSet(p)
             A2 == {x \in ToSet(p) : Binds(x) /\ IsMajorTier(x.tier)}
  <1>1. /\ DOMAIN p = 1..Len(p) /\ \A i \in 1..Len(p) : p[i] \in ToSet(p)
        /\ \A x \in ToSet(p) : /\ Grounded(x, c) /\ x.source # "free" /\ InWindow(x.term, c)
                               /\ Binds(x) <=> x.source # "ip"
    BY ListProperties, PlacesOfAPlan DEF AllGrounded
  <1>2. ASSUME NEW x \in ToSet(p)
        PROVE  /\ x.source = "ip" => IpSlot(x, c) \in X1 /\ IpSlot(x, c) \notin X2
               /\ Binds(x) => LET y == BoundSlot(x, PlannedPlacements(p), c)
                              IN y \in X1 /\ (y \in X2 <=> IsMajorTier(x.tier))
    <2>1. /\ x.source = "ip" => IpSlot(x, c) \in Slots(s)
          /\ Binds(x) => BoundSlot(x, PlannedPlacements(p), c) \in Slots(s)
      BY <1>1, SlotsOfASchedule
    <2>2. x.source = "ip" => IpSlot(x, c) \in X1 /\ IpSlot(x, c) \notin X2
      <3>1. ASSUME x.source = "ip" PROVE IpSlot(x, c).kind = "in_progress"
        BY <1>1, <3>1, SlotOfAPlacement
      <3>2. PICK y : y = IpSlot(x, c)
        OBVIOUS
      <3>3. x.source = "ip" => y.kind = "in_progress" /\ y \in Slots(s)
        BY <2>1, <3>1, <3>2
      <3>4. x.source = "ip" => CountsForResidency(y) /\ ~CountsForMajor(y)
        BY <3>3 DEF CountsForResidency, CountsForMajor, Resolvable
      <3> HIDE DEF s
      <3> QED
        BY <3>2, <3>3, <3>4
    <2>3. ASSUME Binds(x)
          PROVE  LET y == BoundSlot(x, PlannedPlacements(p), c)
                 IN y \in X1 /\ (y \in X2 <=> IsMajorTier(x.tier))
      <3>1. PICK y : y = BoundSlot(x, PlannedPlacements(p), c)
        OBVIOUS
      <3>2. y.tier = x.tier /\ (y.kind = "specific" \/ Resolvable(y))
        BY <1>1, <2>3, <3>1, SlotOfAPlacement
      <3>3. y \in Slots(s)
        BY <2>1, <2>3, <3>1
      <3>4. CountsForResidency(y) /\ (CountsForMajor(y) <=> IsMajorTier(x.tier))
        BY <3>2 DEF CountsForResidency, CountsForMajor
      <3> HIDE DEF s
      <3> QED
        BY <3>1, <3>3, <3>4
    <2> QED
      BY <2>2, <2>3
  <1> HIDE DEF X1, X2
  <1>3. \A t \in ToSet(c.terms) : Show(p, t, X1, A1, c) /\ Show(p, t, X2, A2, c)
    BY <1>1, <1>2 DEF Show
  <1>4. /\ CountedCredits(s, X1, c) \in Int /\ CountedCredits(s, X1, c) >= Sum(Credits(p, A1))
        /\ CountedCredits(s, X2, c) \in Int /\ CountedCredits(s, X2, c) >= Sum(Credits(p, A2))
        /\ Sum(Credits(p, A1)) \in Int /\ Sum(Credits(p, A2)) \in Int
    <2> HIDE DEF A1, A2, s
    <2>0. s \in Grown(Placed(p, c), c)
      BY DEF s
    <2> QED
      BY <1>3, <2>0, CountedCovers
  <1>5. c.residencyMin # None => c.residencyUsed + Sum(Credits(p, A1)) >= c.residencyMin
    <2>1. CreditsWhere(p, LAMBDA x : x.source # "free") = Sum(Credits(p, A1))
      BY <1>1 DEF CreditsWhere, Credits
    <2> QED
      BY <2>1 DEF ResidencyFloor
  <1>6. c.majorMin # None => Sum(Credits(p, A2)) >= c.majorMin
    <2>1. CreditsWhere(p, LAMBDA x : Binds(x) /\ IsMajorTier(x.tier)) = Sum(Credits(p, A2))
      <3>1. \A i \in DOMAIN p : p[i] \in A2 <=> (Binds(p[i]) /\ IsMajorTier(p[i].tier))
        BY <1>1
      <3>2. Credits(p, A2) = [i \in DOMAIN p |-> IF Binds(p[i]) /\ IsMajorTier(p[i].tier) THEN p[i].credits ELSE 0]
        <4> HIDE DEF A2
        <4> QED
          BY <1>1, <3>1 DEF Credits
      <3> QED
        BY <3>2 DEF CreditsWhere
    <2> QED
      BY <2>1 DEF MajorCreditFloor
  <1>7. c.residencyMin \in Int /\ c.residencyUsed \in Int /\ c.majorMin \in Int
    BY DEF LimitsAreOk
  <1>8. PICK r, m, a, b : /\ r = c.residencyUsed + CountedCredits(s, X1, c) /\ m = CountedCredits(s, X2, c)
                          /\ a = Sum(Credits(p, A1)) /\ b = Sum(Credits(p, A2))
    OBVIOUS
  <1>9. /\ c.residencyMin # None => ~(r < c.residencyMin)
        /\ c.majorMin # None => ~(m < c.majorMin)
    <2> HIDE DEF A1, A2, s
    <2>1. r \in Int /\ m \in Int /\ a \in Int /\ b \in Int /\ r >= c.residencyUsed + a /\ m >= b
      BY <1>4, <1>7, <1>8
    <2>2. /\ c.residencyMin # None => c.residencyUsed + a >= c.residencyMin
          /\ c.majorMin # None => b >= c.majorMin
      BY <1>5, <1>6, <1>8
    <2> QED
      BY <1>7, <2>1, <2>2
  <1> QED
    BY <1>8, <1>9 DEF ThresholdsMet, X1, X2

-----------------------------------------------------------------------------
(* The terms are filled up one by one, each inside its limits.             *)

\* A term is filled up to its target, an optional term not at all, and no
\* other term is touched.
LEMMA FilledTerm ==
    ASSUME NEW c, IsContext(c), RequirementsAreOk(c), LimitsAreOk(c), NEW p, AllGrounded(p, c),
           NEW s \in Grown(Placed(p, c), c), NEW t \in ToSet(c.terms)
    PROVE  LET new == FillTerm(s, t, c)
               credits == SlotCredits(s, t)
               target == FillTarget(s, t, c)
           IN /\ \A u \in ToSet(c.terms) \ {t} : new[u] = s[u]
              /\ IsOptionalTerm(t) => new[t] = s[t]
              /\ ~IsOptionalTerm(t) => SlotCredits(new, t) = IF target > credits THEN target ELSE credits
  <1>1. PICK credits, target, new, free :
          /\ credits = SlotCredits(s, t) /\ target = FillTarget(s, t, c) /\ new = FillTerm(s, t, c)
          /\ free = FreeElectives(credits, target, c)
    OBVIOUS
  <1>2. credits \in Nat /\ target \in Int
    BY <1>1, GrownCredits, FillTargetIsInt
  <1>3. s \in [ToSet(c.terms) -> Seq(SlotsOf(Placed(p, c), c))]
    BY DEF Grown
  <1>4. \A u \in ToSet(c.terms) \ {t} : new[u] = s[u]
    BY <1>1, <1>3 DEF FillTerm
  <1>5. IsOptionalTerm(t) => new[t] = s[t]
    BY <1>1 DEF FillTerm
  <1>6. ASSUME ~IsOptionalTerm(t)
        PROVE  SlotCredits(new, t) = IF target > credits THEN target ELSE credits
    <2>1. new[t] = s[t] \o free
      BY <1>1, <1>3, <1>6 DEF FillTerm
    <2>2. /\ IsList(free) /\ ToSet(free) \subseteq ElectiveSlots
          /\ Sum([i \in 1..Len(free) |-> free[i].credits]) = IF target > credits THEN target - credits ELSE 0
      BY <1>1, <1>2, ElectivesFillUp
    <2>3. PICK l : l = s[t]
      OBVIOUS
    <2>4. IsList(l) /\ \A x \in ToSet(l) : x.credits \in Nat
      BY <2>3, GrownTerm
    <2>5. \A x \in ToSet(free) : x.credits \in Nat
      BY <2>2, PaddingFields DEF Padding
    <2>6. IsList(l \o free) /\ ToSet(l \o free) = ToSet(l) \cup ToSet(free)
      BY <2>2, <2>4, ConcatIsList
    <2>7. PICK X : X = ToSet(l \o free)
      OBVIOUS
    <2>8. SlotCredits(new, t) = Sum(Weights(l \o free, X))
      <3>1. new[t] = l \o free
        BY <2>1, <2>3
      <3>2. SlotCredits(new, t) = Sum(Weights(new[t], ToSet(new[t])))
        BY <2>6, <3>1, CreditsAreWeights
      <3> QED
        BY <2>7, <3>1, <3>2
    <2>9. Sum(Weights(l \o free, X)) = Sum(Weights(l, X)) + Sum(Weights(free, X))
      BY <2>2, <2>4, <2>5, WeightsOfConcat
    <2>10. Weights(l, X) = [i \in DOMAIN l |-> l[i].credits]
      <3>1. \A i \in DOMAIN l : l[i] \in X
        BY <2>4, <2>6, <2>7, ListProperties
      <3> QED
        BY <3>1 DEF Weights
    <2>11. Weights(free, X) = [i \in 1..Len(free) |-> free[i].credits]
      <3>1. DOMAIN free = 1..Len(free) /\ \A i \in DOMAIN free : free[i] \in X
        BY <2>2, <2>6, <2>7, ListProperties
      <3> QED
        BY <3>1 DEF Weights
    <2>12. Sum(Weights(l, X)) = credits
      BY <1>1, <2>3, <2>10 DEF SlotCredits
    <2>13. Sum(Weights(free, X)) = IF target > credits THEN target - credits ELSE 0
      BY <2>2, <2>11
    <2> QED
      BY <1>2, <2>8, <2>9, <2>12, <2>13
  <1> QED
    BY <1>1, <1>4, <1>5, <1>6

\* A term no placement is in has no credits, so that no term is above the
\* ceiling.
LEMMA NoTermTooFull ==
    ASSUME NEW c, LimitsAreOk(c), NEW p, IsPlan(p), PerTermCeiling(p, c), NEW t
    PROVE  TermCredits(p, t) \in Nat /\ TermCredits(p, t) <= c.ceiling
  <1>1. TermCredits(p, t) \in Nat
    BY CreditsOfATerm
  <1>2. CASE \E i \in DOMAIN p : p[i].term = t
    BY <1>1, <1>2 DEF PerTermCeiling
  <1>3. CASE \A i \in DOMAIN p : p[i].term # t
    <2>0. Len(p) \in Nat /\ DOMAIN p = 1..Len(p)
      BY ListProperties DEF IsPlan
    <2>1. PICK n, u : n = Len(p) /\ u = [i \in 1..Len(p) |-> IF p[i].term = t THEN p[i].credits ELSE 0]
      OBVIOUS
    <2>2. TermCredits(p, t) = Sum(u) /\ u \in [1..n -> Nat] /\ n \in Nat
      BY <2>0, <2>1, CreditsOfATerm, ZenonT(60)
    <2>3. \A i \in 1..n : u[i] = u[i] + u[i]
      BY <1>3, <2>0, <2>1
    <2>4. u \in [1..n -> Int]
      BY <2>2
    <2>5. Sum(u) = Sum(u) + Sum(u)
      BY <2>2, <2>3, <2>4, SumAdds
    <2>6. TermCredits(p, t) = 0
      BY <1>1, <2>2, <2>5
    <2> QED
      BY <2>6 DEF LimitsAreOk
  <1> QED
    BY <1>1, <1>2, <1>3

\* More credits put no term below its floor.
LEMMA FloorsAreMonotonic ==
    ASSUME NEW c, LimitsAreOk(c), NEW a \in Int, NEW b \in Int, a <= b, ~BelowFloor(a, c)
    PROVE  ~BelowFloor(b, c)
  BY DEF BelowFloor, FullTimeSatisfied, CreditMinimumSatisfied, LimitsAreOk

\* A term keeps inside its limits as it is filled.
WithinLimits(credits, t, c) ==
  /\ credits <= c.ceiling
  /\ ~IsOptionalTerm(t) /\ ~IsFinalF1(t, c) => ~BelowFloor(credits, c)

LEMMA FilledIsWithinLimits ==
    ASSUME NEW c, IsContext(c), RequirementsAreOk(c), LimitsAreOk(c), TargetsAreLegal(c),
           NEW p, AllGrounded(p, c), PerTermCeiling(p, c),
           NEW s \in Grown(Placed(p, c), c), NEW t \in ToSet(c.terms), s[t] = Placed(p, c)[t]
    PROVE  WithinLimits(SlotCredits(FillTerm(s, t, c), t), t, c)
  <1> DEFINE base == EffectiveTermTarget(t, c)
             missing == Max({0, c.minimum - (c.earned + AllCredits(s, c))})
  <1>1. PICK k, target, new : k = SlotCredits(s, t) /\ target = FillTarget(s, t, c) /\ new = FillTerm(s, t, c)
    OBVIOUS
  <1>2. k \in Nat /\ k <= c.ceiling /\ target \in Int /\ c.ceiling \in Nat
    <2>1. k = TermCredits(p, t)
      BY <1>1, CreditsOfPlaced DEF SlotCredits
    <2>2. IsPlan(p)
      BY DEF IsPlan, AllGrounded, Grounded
    <2> QED
      BY <1>1, <2>1, <2>2, NoTermTooFull, FillTargetIsInt DEF LimitsAreOk
  <1>3. CASE IsOptionalTerm(t)
    <2>2. new[t] = s[t]
      BY <1>1, <1>3, FilledTerm
    <2>1. SlotCredits(new, t) = k
      BY <1>1, <2>2 DEF SlotCredits
    <2> QED
      BY <1>1, <1>2, <1>3, <2>1 DEF WithinLimits
  <1>4. CASE ~IsOptionalTerm(t)
    <2>1. SlotCredits(new, t) = IF target > k THEN target ELSE k
      BY <1>1, <1>4, FilledTerm
    <2>2. CASE IsFinalF1(t, c)
      <3>1. target = Min({k + missing, c.ceiling})
        BY <1>1, <2>2 DEF FillTarget, IsFinalF1
      <3>2. missing \in Int
        <4>1. c.minimum - (c.earned + AllCredits(s, c)) \in Int
          BY GrownCredits DEF IsContext
        <4>2. PICK x \in Int : x = c.minimum - (c.earned + AllCredits(s, c))
          BY <4>1
        <4>3. PICK z \in Int : z = 0
          OBVIOUS
        <4>4. Max({z, x}) \in {z, x}
          BY MaxOfTwo
        <4>5. Max({z, x}) \in Int
          BY <4>4
        <4> QED
          BY <4>2, <4>3, <4>5
      <3>3. target <= c.ceiling
        <4> HIDE DEF missing
        <4>1. k + missing \in Int /\ c.ceiling \in Int
          BY <1>2, <3>2
        <4>2. Min({k + missing, c.ceiling}) <= c.ceiling
          BY <4>1, MinOfTwo
        <4> QED
          BY <3>1, <4>2
      <3> QED
        BY <1>1, <1>2, <2>1, <2>2, <3>3 DEF WithinLimits
    <2>3. CASE ~IsFinalF1(t, c)
      <3>1. ~BelowFloor(base, c) /\ base <= c.ceiling /\ base \in Int
        BY <1>4, <2>3, TargetsAreInts DEF TargetsAreLegal
      <3>2. target = base
        <4>1. CASE t # LastTerm(c) /\ c.visa = "f1" /\ c.f1Floor # None
          <5>1. target = Max({base, c.f1Floor})
            BY <1>1, <4>1 DEF FillTarget
          <5>2. base >= c.f1Floor /\ c.f1Floor \in Int
            BY <3>1, <4>1 DEF BelowFloor, FullTimeSatisfied, LimitsAreOk
          <5>3. Max({base, c.f1Floor}) = base
            <6> HIDE DEF base
            <6>1. PICK a, b : a = base /\ b = c.f1Floor
              OBVIOUS
            <6>2. a \in Int /\ b \in Int /\ a >= b
              BY <3>1, <5>2, <6>1
            <6>3. Max({a, b}) \in {a, b} /\ Max({a, b}) >= a
              BY <6>2, MaxOfTwo
            <6>4. Max({a, b}) = a
              BY <6>2, <6>3
            <6> QED
              BY <6>1, <6>4
          <5> QED
            BY <5>1, <5>3
        <4>2. CASE ~(t # LastTerm(c) /\ c.visa = "f1" /\ c.f1Floor # None)
          <5>1. ~(t = LastTerm(c) /\ c.visa = "f1")
            BY <2>3 DEF IsFinalF1
          <5> QED
            BY <1>1, <4>2, <5>1 DEF FillTarget
        <4> QED
          BY <4>1, <4>2
      <3>3. PICK x : x = SlotCredits(new, t)
        OBVIOUS
      <3> HIDE DEF base
      <3>4. x \in Int /\ x >= base /\ x <= c.ceiling
        BY <1>2, <2>1, <3>1, <3>2, <3>3
      <3>5. ~BelowFloor(x, c)
        BY <3>1, <3>4, FloorsAreMonotonic
      <3> QED
        BY <1>1, <3>3, <3>4, <3>5 DEF WithinLimits
    <2> QED
      BY <2>2, <2>3
  <1> QED
    BY <1>3, <1>4

\* With every requirement bound, the terms are filled up from what was placed
\* in them, one by one, and none ends outside its limits.
LEMMA NoTermIsBroken ==
    ASSUME NEW c, IsContext(c), RequirementsAreOk(c), LimitsAreOk(c), AllAreBindable(c), TargetsAreLegal(c),
           NEW p, AllGrounded(p, c), PerTermCeiling(p, c), RequirementCoverage(p, c)
    PROVE  TermViolations(Schedule(p, c), c) = {}
  <1>1. PICK bound, filled :
          /\ BoundAll(bound, p, c) /\ FilledAll(filled, bound[Len(Uncovered(p, c))], c)
          /\ \A i \in 0..Len(c.terms) : filled[i] \in Grown(Placed(p, c), c)
          /\ Schedule(p, c) = filled[Len(c.terms)]
    BY ScheduleSteps
  <1>2. Len(Uncovered(p, c)) = 0
    <2>1. /\ Len(Uncovered(p, c)) \in Nat
          /\ \A i \in 1..Len(Uncovered(p, c)) : Uncovered(p, c)[i] \in ToSet(Uncovered(p, c))
          /\ ToSet(Uncovered(p, c)) = {r \in ToSet(c.reqs) : r.rId \notin CoveredRIds(p)}
      BY UncoveredRequirements, ListProperties
    <2>2. ASSUME NEW r \in ToSet(c.reqs) PROVE r.rId \in CoveredRIds(p)
      <3>1. PICK i \in DOMAIN c.reqs : r = c.reqs[i]
        BY ListProperties DEF RequirementsAreOk
      <3>2. i \in DOMAIN c.vars /\ c.vars[i].rId = r.rId /\ c.vars[i].candidates # <<>>
        BY <3>1 DEF RequirementsAreOk, AllAreBindable
      <3> QED
        BY <3>2 DEF RequirementCoverage
    <2>3. ASSUME 1 \in 1..Len(Uncovered(p, c)) PROVE FALSE
      BY <2>1, <2>2, <2>3
    <2> QED
      BY <2>1, <2>3
  <1>3. /\ filled[0] = Placed(p, c)
        /\ \A i \in 1..Len(c.terms) : filled[i] = FillTerm(filled[i - 1], c.terms[i], c)
    BY <1>1, <1>2 DEF BoundAll, FilledAll
  <1> DEFINE n == Len(c.terms)
             good == {i \in 0..n :
                        /\ \A j \in 1..n : j > i => filled[i][c.terms[j]] = Placed(p, c)[c.terms[j]]
                        /\ \A j \in 1..n : j <= i => WithinLimits(SlotCredits(filled[i], c.terms[j]), c.terms[j], c)}
  <1>4. /\ n \in Nat /\ \A i \in 1..n : c.terms[i] \in ToSet(c.terms)
        /\ \A t \in ToSet(c.terms) : \E i \in 1..n : t = c.terms[i]
        /\ \A i, j \in 1..n : c.terms[i] = c.terms[j] => i = j
    <2>1. DOMAIN c.terms = 1..n
      BY ListProperties DEF IsContext
    <2> HIDE DEF n
    <2> QED
      BY <2>1, ListProperties DEF IsContext, IsInjective, n
  <1>5. 0 \in good
    BY <1>3, <1>4
  <1>6. ASSUME NEW i \in 1..n, i - 1 \in good PROVE i \in good
    <2>1. PICK s, new, t : s = filled[i - 1] /\ new = filled[i] /\ t = c.terms[i]
      OBVIOUS
    <2>2. /\ \A j \in 1..n : j > i - 1 => s[c.terms[j]] = Placed(p, c)[c.terms[j]]
          /\ \A j \in 1..n : j <= i - 1 => WithinLimits(SlotCredits(s, c.terms[j]), c.terms[j], c)
      BY <1>6, <2>1
    <2>3. s \in Grown(Placed(p, c), c) /\ t \in ToSet(c.terms) /\ new = FillTerm(s, t, c) /\ i \in 0..n
      <3>1. i - 1 \in 0..n /\ i \in 0..n
        BY <1>4
      <3> QED
        BY <1>1, <1>3, <1>4, <2>1, <3>1
    <2> HIDE DEF n
    <2>4. s[t] = Placed(p, c)[t]
      BY <1>4, <2>1, <2>2
    <2>5. WithinLimits(SlotCredits(new, t), t, c)
      BY <2>3, <2>4, FilledIsWithinLimits
    <2>6. \A u \in ToSet(c.terms) \ {t} : new[u] = s[u] /\ SlotCredits(new, u) = SlotCredits(s, u)
      <3>1. \A u \in ToSet(c.terms) \ {t} : new[u] = s[u]
        BY <2>3, FilledTerm
      <3> QED
        BY <3>1 DEF SlotCredits
    <2>7. ASSUME NEW j \in 1..n, j > i PROVE new[c.terms[j]] = Placed(p, c)[c.terms[j]]
      <3>1. c.terms[j] # t /\ c.terms[j] \in ToSet(c.terms) /\ j > i - 1
        BY <1>4, <2>1, <2>7
      <3> QED
        BY <2>2, <2>6, <3>1
    <2>8. ASSUME NEW j \in 1..n, j <= i PROVE WithinLimits(SlotCredits(new, c.terms[j]), c.terms[j], c)
      <3>1. CASE j = i
        BY <2>1, <2>5, <3>1
      <3>2. CASE j # i
        <4>1. c.terms[j] # t /\ c.terms[j] \in ToSet(c.terms) /\ j <= i - 1
          BY <1>4, <2>1, <2>8, <3>2
        <4> QED
          BY <2>2, <2>6, <4>1
      <3> QED
        BY <3>1, <3>2
    <2>9. /\ \A j \in 1..n : j > i => filled[i][c.terms[j]] = Placed(p, c)[c.terms[j]]
          /\ \A j \in 1..n : j <= i => WithinLimits(SlotCredits(filled[i], c.terms[j]), c.terms[j], c)
      BY <2>1, <2>7, <2>8
    <2> QED
      BY <2>3, <2>9
  <1> HIDE DEF good
  <1>7. \A i \in 0..n : i \in good
    <2> HIDE DEF n
    <2> QED
      BY <1>4, <1>5, <1>6, FiniteInduction
  <1>8. \A t \in ToSet(c.terms) : WithinLimits(SlotCredits(Schedule(p, c), t), t, c)
    <2>1. n \in good /\ \A j \in 1..n : j <= n
      BY <1>4, <1>7
    <2>2. \A j \in 1..n : WithinLimits(SlotCredits(filled[n], c.terms[j]), c.terms[j], c)
      BY <2>1 DEF good
    <2> QED
      BY <1>1, <1>4, <2>2
  <1>9. ASSUME NEW t \in ToSet(c.terms) PROVE SlotCredits(Schedule(p, c), t) \in Nat /\ c.ceiling \in Nat
    <2>1. Schedule(p, c) \in Grown(Placed(p, c), c)
      BY <1>1, <1>4
    <2> QED
      BY <2>1, GrownCredits DEF LimitsAreOk
  <1> QED
    BY <1>8, <1>9 DEF TermViolations, WithinLimits

\* The violations the visa axis refuses (axisComputations.ts).
Refused == {"credit_floor", "credit_ceiling", "gpa_floor"}

\* No violation of the schedule is one the visa axis refuses.
LEMMA VisaHolds ==
    ASSUME NEW c, IsContext(c), RequirementsAreOk(c), LimitsAreOk(c), AllAreBindable(c), TargetsAreLegal(c),
           NEW p, AllGrounded(p, c), PerTermCeiling(p, c), RequirementCoverage(p, c), GpaFloors(c),
           c.terms # <<>>, NEW extra, extra \cap Refused = {}
    PROVE  VisaAxesPass(Materialize(p, c), Materialize(p, c).violations \cup extra, c) # "fail"
  <1>1. PICK out : out = Materialize(p, c)
    OBVIOUS
  <1>2. out.violations = TermViolations(Schedule(p, c), c) \cup GlobalViolations(Schedule(p, c), c)
    BY <1>1 DEF Materialize
  <1>3. TermViolations(Schedule(p, c), c) = {}
    BY NoTermIsBroken
  <1>4. c.broken \cap Refused = {}
    BY DEF LimitsAreOk, BrokenKinds, GpaFloors, Refused
  <1>5. GlobalViolations(Schedule(p, c), c) \cap Refused = {}
    BY <1>4 DEF GlobalViolations, Refused
  <1>6. (out.violations \cup extra) \cap Refused = {}
    BY <1>2, <1>3, <1>5
  <1> QED
    BY <1>1, <1>6 DEF VisaAxesPass, Refused

\* What ConstraintsMirrorValidator says of one schedule.
Mirrors(p, extra, c) ==
  (IpsAreShown(c) /\ HardConstraints(p, c)) =>
    \A a \in MirroredAxes(c) : Finalized(p, extra, c).axes[a] # "fail"

LEMMA SchedulesMirror ==
    ASSUME NEW c, IsContext(c), RequirementsAreOk(c), LimitsAreOk(c), NEW p, AllGrounded(p, c),
           NEW extra, HardConstraints(p, c) => extra \cap Refused = {}
    PROVE  Mirrors(p, extra, c)
  <1>1. SUFFICES ASSUME IpsAreShown(c), HardConstraints(p, c), NEW a \in MirroredAxes(c)
                 PROVE  Finalized(p, extra, c).axes[a] # "fail"
    BY DEF Mirrors
  <1>2. /\ PerTermCeiling(p, c) /\ RequirementCoverage(p, c) /\ GraduationTarget(p, c)
        /\ ResidencyFloor(p, c) /\ MajorCreditFloor(p, c) /\ GpaFloors(c)
    BY <1>1 DEF HardConstraints
  <1>3. c.terms # <<>>
    <2>1. ASSUME c.terms = <<>> PROVE FALSE
      <3>1. DOMAIN c.terms = {}
        BY <2>1
      <3>2. ReachedBy(LAMBDA t : TermCredits(p, t), c) = None
        BY <3>1 DEF ReachedBy
      <3> QED
        BY <1>2, <3>2 DEF GraduationTarget
    <2> QED
      BY <2>1
  <1>4. PICK out, violations : out = Materialize(p, c) /\ violations = out.violations \cup extra
    OBVIOUS
  <1>5. out.slots = Schedule(p, c)
    BY <1>3, <1>4 DEF Materialize
  <1>6. out.slots \in Grown(Placed(p, c), c)
    <2>1. Len(c.terms) \in 0..Len(c.terms)
      BY ListProperties DEF IsContext
    <2> QED
      BY <1>5, <2>1, ScheduleSteps
  <1>7. TotalCreditsMeetMinimum(out, c) # "fail" /\ GraduationTargetMet(out, c) # "fail"
    BY <1>2, <1>6, TotalsHold
  <1>8. PoolSlotsResolvable(out, c) # "fail"
    BY <1>6, PoolsHold
  <1>9. ThresholdsMet(out, c) # "fail"
    BY <1>1, <1>2, <1>6, ThresholdsHold
  <1>10. OpenAreBindable(c) => RequirementGroupsSatisfied(out, c) # "fail"
    BY <1>2, <1>6, GroupsHold
  <1>11. AllAreBindable(c) /\ TargetsAreLegal(c) => VisaAxesPass(out, violations, c) # "fail"
    BY <1>1, <1>2, <1>3, <1>4, VisaHolds
  <1>12. PICK axes : axes = AxisResults(out, violations, c)
    OBVIOUS
  <1>13. Finalized(p, extra, c).axes = axes
    BY <1>4, <1>12 DEF Finalized, WithViolations, Validated, Judged
  <1>14. /\ axes.requirementGroupsSatisfied = RequirementGroupsSatisfied(out, c)
         /\ axes.poolSlotsResolvable = PoolSlotsResolvable(out, c)
         /\ axes.totalCreditsMeetMinimum = TotalCreditsMeetMinimum(out, c)
         /\ axes.thresholdsMet = ThresholdsMet(out, c)
         /\ axes.visaAxesPass = VisaAxesPass(out, violations, c)
         /\ axes.assumptionsExplicit = "pass"
         /\ axes.graduationTargetMet = GraduationTargetMet(out, c)
    BY <1>12 DEF AxisResults
  <1>15. axes[a] # "fail"
    BY <1>7, <1>8, <1>9, <1>10, <1>11, <1>14 DEF MirroredAxes
  <1> QED
    BY <1>13, <1>15

-----------------------------------------------------------------------------
(* Every plan of the search is grounded.                                   *)

\* What the search keeps, diversifies, improves and materialises; a plan made
\* without a search is the fixed placements.
GroundInv ==
  /\ \A q \in ToSet(kept) : AllGrounded(q, ctx)
  /\ IsList(diverse) /\ \A q \in ToSet(diverse) : AllGrounded(q, ctx)
  /\ AllGrounded(draft, ctx) /\ AllGrounded(winner, ctx)
  /\ (goal = "alternative" \/ phase = "improve") => diverse # <<>>
  /\ (phase = "finalize" /\ diverse = <<>> /\ ctx.terms # <<>>) => draft = Fixed

LEMMA ContextIsOfAProblem ==
    ASSUME ContextInv
    PROVE  /\ IsContext(ctx) /\ RequirementsAreOk(ctx) /\ LimitsAreOk(ctx)
           /\ Context(SolverInput(raw, ctx.grad)) = ctx
  <1>1. IsContext(ctx) /\ IsProblem(raw)
    BY ContextHolds
  <1>2. PICK g \in Int : ctx = Context(SolverInput(raw, g))
    BY DEF ContextInv
  <1> QED
    BY <1>1, <1>2, ContextOfAProblem

LEMMA NothingIsGrounded ==
    ASSUME NEW c
    PROVE  AllGrounded(<<>>, c)
  BY NothingIsAList DEF AllGrounded

LEMMA TrailIsGrounded ==
    ASSUME ContextInv, StackInv, phase = "visit"
    PROVE  AllGrounded(Trail, ctx)
  <1>1. IsContext(ctx) /\ RequirementsAreOk(ctx)
    BY ContextIsOfAProblem
  <1>2. /\ IsList(assigned) /\ Len(assigned) <= Len(Vars)
        /\ \A i \in 1..Len(assigned) : LegalValue(assigned, i, assigned[i])
    BY DEF StackInv
  <1>3. AllGrounded(Fixed, ctx)
    BY <1>1, FixedAreGrounded DEF Fixed
  <1>4. /\ Len(assigned) \in Nat /\ Len(Vars) \in Nat
        /\ \A x \in ToSet(assigned) : \E i \in 1..Len(assigned) : x = assigned[i]
        /\ \A i \in 1..Len(Vars) : Vars[i] \in ToSet(ctx.vars)
    BY <1>1, <1>2, ListProperties, VariablesAreOk DEF Vars
  <1>5. ASSUME NEW i \in 1..Len(assigned) PROVE Grounded(assigned[i], ctx)
    <2>1. i \in 1..Len(Vars)
      BY <1>2, <1>4
    <2>2. assigned[i] \in ToSet(RawValues(Vars[i], ctx))
      BY <1>2 DEF LegalValue
    <2> QED
      BY <1>1, <1>4, <2>1, <2>2, ValuesAreGrounded
  <1>6. AllGrounded(assigned, ctx)
    BY <1>2, <1>4, <1>5 DEF AllGrounded
  <1>7. \A x \in ToSet(Fixed \o assigned) : x \in ToSet(Fixed) \/ x \in ToSet(assigned)
    BY <1>3, <1>6, ConcatIsList DEF AllGrounded
  <1>8. IsList(Fixed \o assigned)
    BY <1>3, <1>6, ConcatIsList DEF AllGrounded
  <1>9. AllGrounded(Fixed \o assigned, ctx)
    BY <1>3, <1>6, <1>7, <1>8 DEF AllGrounded
  <1> QED
    BY <1>9 DEF Trail, Fixed

\* The list kept with a leaf has no other plans but the leaf.
LEMMA KeptAreOld ==
    ASSUME IsContext(ctx), ArePlans(kept), NEW p, NEW q \in ToSet(KeepLeaf(p))
    PROVE  q \in ToSet(kept) \/ q = p
  <1>1. IsList(kept)
    BY DEF ArePlans
  <1>2. CASE KeepLeaf(p) = Append(kept, p)
    BY <1>1, <1>2, AppendIsList
  <1>3. CASE KeepLeaf(p) = kept
    BY <1>3
  <1>4. CASE KeepLeaf(p) = [kept EXCEPT ![Worst] = p]
    <2>1. PICK s : s = KeepLeaf(p)
      OBVIOUS
    <2>2. DOMAIN s = DOMAIN kept /\ \A i \in DOMAIN kept : s[i] = kept[i] \/ s[i] = p
      BY <1>4, <2>1
    <2>3. \E i \in DOMAIN s : q = s[i]
      BY <2>1 DEF ToSet
    <2>4. \A i \in DOMAIN kept : kept[i] \in ToSet(kept)
      BY DEF ToSet
    <2> QED
      BY <2>2, <2>3, <2>4
  <1> QED
    BY <1>2, <1>3, <1>4 DEF KeepLeaf

LEMMA GroundInit == PlannerInit => GroundInv
  <1> SUFFICES ASSUME PlannerInit PROVE GroundInv
    OBVIOUS
  <1>1. /\ kept = <<>> /\ diverse = <<>> /\ draft = <<>> /\ winner = <<>> /\ goal # "alternative"
        /\ phase # "improve" /\ (phase = "finalize" => ctx.terms = <<>>)
    BY DEF PlannerInit, NoPlan
  <1> QED
    BY <1>1, NothingIsAList, NothingIsGrounded DEF GroundInv

LEMMA GroundNext ==
    SearchInv /\ AlternativesInv /\ GroundInv /\ [PlannerNext]_plannerVars => GroundInv'
  <1> SUFFICES ASSUME SearchInv, AlternativesInv, GroundInv, [PlannerNext]_plannerVars
               PROVE  GroundInv'
    OBVIOUS
  <1>1. /\ ContextInv /\ StackInv /\ IsContext(ctx) /\ RequirementsAreOk(ctx)
        /\ ArePlans(kept) /\ IsList(kept)
    BY ContextIsOfAProblem DEF SearchInv, KeptInv, ArePlans
  <1>2. CASE VisitLeaf
    <2>1. /\ phase = "visit" /\ UNCHANGED <<ctx, goal, diverse, draft, winner>>
          /\ kept' = IF Accepted(Trail) THEN KeepLeaf(Trail) ELSE kept
          /\ phase' \in {"searched", "next"}
      BY <1>2 DEF VisitLeaf
    <2>2. AllGrounded(Trail, ctx)
      BY <1>1, <2>1, TrailIsGrounded
    <2>3. \A q \in ToSet(kept') : q \in ToSet(kept) \/ q = Trail
      BY <1>1, <2>1, KeptAreOld
    <2> QED
      BY <2>1, <2>2, <2>3 DEF GroundInv
  <1>3. CASE OutOfBudget \/ VisitVariable \/ NextValue \/ EndTopSearch
    <2>1. UNCHANGED <<ctx, goal, kept, diverse, draft, winner>> /\ phase' \in {"searched", "next", "visit", "done"}
      BY <1>3 DEF OutOfBudget, VisitVariable, NextValue, EndTopSearch, searchVars, jobVars
    <2> QED
      BY <2>1 DEF GroundInv
  <1>4. CASE EndWinnerSearch
    <2>1. /\ UNCHANGED <<ctx, goal, kept>> /\ goal = "winner" /\ diverse' = kept
          /\ draft' = IF kept = <<>> THEN Fixed ELSE kept[1]
          /\ winner' = draft'
          /\ phase' = IF kept = <<>> THEN "finalize" ELSE "improve"
      BY <1>4 DEF EndWinnerSearch, jobVars, searchVars, Fixed
    <2>2. AllGrounded(Fixed, ctx)
      BY <1>1, FixedAreGrounded DEF Fixed
    <2>3. kept # <<>> => kept[1] \in ToSet(kept)
      BY <1>1, HeadAndTail, ListProperties
    <2>4. AllGrounded(draft', ctx)
      BY <2>1, <2>2, <2>3 DEF GroundInv
    <2>5. Fixed' = Fixed
      BY <2>1 DEF Fixed
    <2> QED
      BY <1>1, <2>1, <2>4, <2>5 DEF GroundInv
  <1>5. CASE EndAlternativeSearch
    <2>1. /\ ctx' = ctx /\ winner' = winner /\ goal = "alternative" /\ goal' = "alternative"
          /\ diverse' = diverse \o kept
          /\ kept' = kept \/ kept' = <<>>
          /\ draft' = draft \/ draft' = winner \/ (Len(diverse') > 1 /\ draft' = diverse'[2])
      BY <1>5 DEF EndAlternativeSearch, jobVars, searchVars, BeginSearch
    <2>2. /\ IsList(diverse') /\ \A q \in ToSet(diverse') : AllGrounded(q, ctx)
      BY <1>1, <2>1, ConcatIsList DEF GroundInv
    <2>3. diverse' # <<>>
      <3>1. IsList(diverse) /\ diverse # <<>>
        BY <2>1 DEF GroundInv
      <3>2. Len(diverse) \in Nat /\ Len(kept) \in Nat /\ Len(diverse) # 0
        BY <1>1, <3>1, ListProperties, EmptyList
      <3>3. Len(diverse') = Len(diverse) + Len(kept)
        BY <1>1, <2>1, <3>1, ConcatIsList
      <3>4. Len(diverse') # 0
        BY <3>2, <3>3
      <3> QED
        BY <2>2, <3>4, EmptyList
    <2>4. AllGrounded(draft', ctx)
      <3>1. Len(diverse') > 1 => diverse'[2] \in ToSet(diverse')
        <4>1. Len(diverse') \in Nat /\ \A i \in 1..Len(diverse') : diverse'[i] \in ToSet(diverse')
          BY <2>2, ListProperties
        <4>2. Len(diverse') > 1 => 2 \in 1..Len(diverse')
          BY <4>1
        <4> QED
          BY <4>1, <4>2
      <3> QED
        BY <2>1, <2>2, <3>1 DEF GroundInv
    <2>5. \A q \in ToSet(kept') : AllGrounded(q, ctx)
      BY <2>1, NothingIsAList DEF GroundInv
    <2> QED
      BY <2>1, <2>2, <2>3, <2>4, <2>5 DEF GroundInv
  <1>6. CASE ImprovePass
    <2>1. /\ UNCHANGED <<ctx, goal, phase, kept, diverse, winner>> /\ draft' \in Moves(draft, ctx)
          /\ phase = "improve"
      BY <1>6 DEF ImprovePass, ImprovingMoves, jobVars, searchVars
    <2>2. AllGrounded(draft', ctx)
      BY <1>1, <2>1, MovesAreGrounded DEF GroundInv
    <2> QED
      BY <2>1, <2>2 DEF GroundInv
  <1>7. CASE ImproveDone
    <2> DEFINE n == Len(alternatives) + 1
    <2>1. /\ phase = "improve" /\ UNCHANGED <<ctx, diverse>> /\ diverse # <<>>
          /\ kept' = kept \/ kept' = <<>>
          /\ winner' = draft \/ winner' = winner
          /\ draft' = draft \/ draft' = winner \/ (Len(diverse) > n + 1 /\ draft' = diverse[n + 2])
      BY <1>7 DEF ImproveDone, jobVars, searchVars, BeginSearch, GroundInv
    <2>2. Len(diverse) > n + 1 => diverse[n + 2] \in ToSet(diverse)
      <3>1. Len(alternatives) \in Nat
        BY ListProperties DEF AlternativesInv
      <3>2. Len(diverse) \in Nat /\ \A i \in 1..Len(diverse) : diverse[i] \in ToSet(diverse)
        BY ListProperties DEF GroundInv
      <3>3. Len(diverse) > n + 1 => n + 2 \in 1..Len(diverse)
        BY <3>1, <3>2
      <3> HIDE DEF n
      <3> QED
        BY <3>2, <3>3
    <2> HIDE DEF n
    <2>3. AllGrounded(draft', ctx) /\ AllGrounded(winner', ctx)
      BY <2>1, <2>2 DEF GroundInv
    <2>4. \A q \in ToSet(kept') : AllGrounded(q, ctx)
      BY <2>1, NothingIsAList DEF GroundInv
    <2> QED
      BY <2>1, <2>3, <2>4 DEF GroundInv
  <1>8. CASE Finalize \/ Return
    <2>1. UNCHANGED <<ctx, goal, kept, diverse, draft, winner>> /\ phase' \in {"decide", "done"}
      BY <1>8 DEF Finalize, Return, jobVars, searchVars
    <2> QED
      BY <2>1 DEF GroundInv
  <1>9. CASE ExtendHorizon
    <2>1. /\ kept' = <<>> /\ diverse' = <<>> /\ draft' = <<>> /\ winner' = <<>> /\ goal' = "winner"
          /\ phase' = IF ctx'.terms = <<>> THEN "finalize" ELSE "visit"
      BY <1>9 DEF ExtendHorizon, BeginSolve, BeginSearch
    <2> QED
      BY <2>1, NothingIsAList, NothingIsGrounded DEF GroundInv
  <1>10. CASE UNCHANGED plannerVars
    BY <1>10 DEF plannerVars, GroundInv, Fixed
  <1> QED
    BY <1>2, <1>3, <1>4, <1>5, <1>6, <1>7, <1>8, <1>9, <1>10 DEF PlannerNext

-----------------------------------------------------------------------------
(* What the solve reports is nothing the visa axis refuses.                *)

LEMMA SolveIsHarmless ==
    ASSUME IsContext(ctx), RequirementsAreOk(ctx), RequirementCoverage(Fixed, ctx)
    PROVE  SolveViolations \cap Refused = {}
  <1>1. PinViolations(ctx) \cap Refused = {}
    BY DEF PinViolations, Refused
  <1> DEFINE covered == {p.rId : p \in ToSet(FixedPlacements(ctx))} \ {"none"}
             open == {v \in ToSet(ctx.vars) : v.candidates # <<>> /\ v.rId \notin covered}
             vars == Filter(ctx.vars, open)
             before == {p \in open \X open : BoundBefore(p[1], p[2], ctx)}
  <1>2. CoveredRIds(Fixed) \subseteq covered
    BY DEF CoveredRIds, Fixed, ToSet
  <1>3. open = {}
    <2> HIDE DEF covered
    <2>1. SUFFICES ASSUME NEW v \in ToSet(ctx.vars), v.candidates # <<>>, v.rId \notin covered
                   PROVE  FALSE
      OBVIOUS
    <2>2. PICK i \in DOMAIN ctx.vars : v = ctx.vars[i]
      BY DEF ToSet
    <2> QED
      BY <1>2, <2>1, <2>2 DEF RequirementCoverage
  <1>4. SearchVariables(ctx) = StableSort(vars, before)
    BY DEF SearchVariables
  <1>5. IsList(vars) /\ ToSet(vars) = {}
    BY <1>3, FilterKeeps DEF IsContext
  <1> HIDE DEF vars, before
  <1>6. ToSet(SearchVariables(ctx)) = {}
    BY <1>4, <1>5, SortPermutes
  <1>7. Blockers(ctx) = {}
    BY <1>6 DEF Blockers
  <1> QED
    BY <1>1, <1>7 DEF SolveViolations, Refused

-----------------------------------------------------------------------------

\* The theorem, of the schedules built so far.
MirrorInv == IsList(built) /\ ConstraintsMirrorValidator

LEMMA MirrorNext ==
    SearchInv /\ GroundInv /\ MirrorInv /\ [PlannerNext]_plannerVars => MirrorInv'
  <1> SUFFICES ASSUME SearchInv, GroundInv, MirrorInv, [PlannerNext]_plannerVars
               PROVE  MirrorInv'
    OBVIOUS
  <1>1. /\ IsContext(ctx) /\ RequirementsAreOk(ctx) /\ LimitsAreOk(ctx)
        /\ Context(SolverInput(raw, ctx.grad)) = ctx
    BY ContextIsOfAProblem DEF SearchInv
  <1>2. CASE Finalize
    <2>1. PICK plan, extra :
            /\ plan = IF ctx.terms = <<>> THEN <<>> ELSE draft
            /\ extra = IF ctx.terms = <<>> THEN {} ELSE IF diverse = <<>> THEN SolveViolations ELSE PinViolations(ctx)
      OBVIOUS
    <2>2. PICK b : b = Finalized(plan, extra, ctx)
      OBVIOUS
    <2>3. /\ raw' = raw /\ phase = "finalize" /\ built' = Append(built, b)
      BY <1>2, <2>1, <2>2 DEF Finalize, jobVars, NoPlan
    <2>4. AllGrounded(plan, ctx)
      BY <2>1, NothingIsGrounded DEF GroundInv
    <2>5. HardConstraints(plan, ctx) => extra \cap Refused = {}
      <3>1. PinViolations(ctx) \cap Refused = {}
        BY DEF PinViolations, Refused
      <3>2. ASSUME HardConstraints(plan, ctx), ctx.terms # <<>>, diverse = <<>>
            PROVE  extra \cap Refused = {}
        <4>1. plan = Fixed
          BY <2>1, <2>3, <3>2 DEF GroundInv
        <4>2. RequirementCoverage(Fixed, ctx)
          BY <3>2, <4>1 DEF HardConstraints
        <4> QED
          BY <1>1, <2>1, <3>2, <4>2, SolveIsHarmless
      <3> QED
        BY <2>1, <3>1, <3>2
    <2>6. Mirrors(plan, extra, ctx)
      BY <1>1, <2>4, <2>5, SchedulesMirror
    <2>7. b.plan = plan /\ b.grad = ctx.grad
      BY <2>2 DEF Finalized, WithViolations, Validated, Judged
    <2>8. (IpsAreShown(ctx) /\ HardConstraints(b.plan, ctx)) =>
             \A a \in MirroredAxes(ctx) : b.axes[a] # "fail"
      BY <2>2, <2>6, <2>7 DEF Mirrors
    <2>9. /\ IsList(built') /\ Len(built') = Len(built) + 1 /\ built'[Len(built) + 1] = b
          /\ \A i \in 1..Len(built) : built'[i] = built[i]
      BY <2>3, AppendIsList DEF MirrorInv
    <2>10. Len(built) \in Nat /\ DOMAIN built = 1..Len(built) /\ DOMAIN built' = 1..Len(built')
      BY <2>9, ListProperties DEF MirrorInv
    <2>11. \A i \in DOMAIN built' : i \in DOMAIN built \/ built'[i] = b
      BY <2>9, <2>10
    <2>12. \A i \in DOMAIN built : built'[i] = built[i]
      BY <2>9, <2>10
    <2>13. ASSUME NEW i \in DOMAIN built'
           PROVE  LET c == Context(SolverInput(raw, built'[i].grad))
                  IN (IpsAreShown(c) /\ HardConstraints(built'[i].plan, c)) =>
                       \A a \in MirroredAxes(c) : built'[i].axes[a] # "fail"
      <3>1. CASE i \in DOMAIN built
        BY <2>12, <3>1 DEF MirrorInv, ConstraintsMirrorValidator
      <3>2. CASE built'[i] = b
        BY <1>1, <2>7, <2>8, <3>2
      <3> QED
        BY <2>11, <3>1, <3>2
    <2> QED
      BY <2>3, <2>9, <2>13 DEF MirrorInv, ConstraintsMirrorValidator
  <1>3. CASE UNCHANGED <<raw, built>>
    BY <1>3 DEF MirrorInv, ConstraintsMirrorValidator
  <1>4. Finalize \/ UNCHANGED <<raw, built>>
    BY DEF PlannerNext, plannerVars, jobVars, OutOfBudget, VisitLeaf, VisitVariable, NextValue, EndWinnerSearch,
           EndAlternativeSearch, EndTopSearch, ImprovePass, ImproveDone, ExtendHorizon, Return
  <1> QED
    BY <1>2, <1>3, <1>4

\* For every problem, a plan that passes every hard constraint passes the
\* axes of the validator they mirror (constraintModel.ts:9-19).
THEOREM ConstraintsMirrorHolds == PlannerSpec => []ConstraintsMirrorValidator
  <1>1. PlannerInit => SearchInv /\ AlternativesInv /\ GroundInv /\ MirrorInv
    <2>1. PlannerInit => AlternativesInv /\ MirrorInv
      BY NothingIsAList DEF PlannerInit, AlternativesInv, MirrorInv, ConstraintsMirrorValidator
    <2> QED
      BY <2>1, InitHasInv, GroundInit
  <1>2. SearchInv /\ AlternativesInv /\ GroundInv /\ MirrorInv /\ [PlannerNext]_plannerVars =>
          (SearchInv /\ AlternativesInv /\ GroundInv /\ MirrorInv)'
    BY NextKeepsInv, AlternativesAreAList, GroundNext, MirrorNext
  <1>3. MirrorInv => ConstraintsMirrorValidator
    BY DEF MirrorInv
  <1> QED
    BY <1>1, <1>2, <1>3, PTL DEF PlannerSpec
=============================================================================
