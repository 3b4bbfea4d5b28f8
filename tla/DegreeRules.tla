---------------------------- MODULE DegreeRules ----------------------------
(***************************************************************************)
(* The rules the planner applies to one course, one term or one report:    *)
(* the order of terms, prerequisites, enrolment floors, pass/fail limits   *)
(* and the weight of a course.                                             *)
(*                                                                         *)
(* A term is the number 4 * year + rank, with rank 0 for spring, 1 summer, *)
(* 2 fall, 3 january, the order the planner sorts terms by.  A grade is    *)
(* its rank in GRADE_ORDER; NoGrade is a missing or unranked one.  A null  *)
(* number is None.                                                         *)
(***************************************************************************)
EXTENDS Integers, Sequences, FiniteSets, SequencesExt, Lists

None == -1
NoGrade == -1
D == 3      \* GRADE_ORDER["D"]

Season(t) == t % 4
IsOptionalTerm(t) == Season(t) \in {1, 3}
TermIn(year, season) == 4 * year + season

\* The planning window, january and summer terms only when asked for.
EnumerateTerms(start, end, includeSummer, includeJTerm) ==
  Filter([i \in 1..(IF end < start THEN 0 ELSE end - start + 1) |-> start + i - 1],
         {t \in start..end : /\ Season(t) = 1 => includeSummer
                             /\ Season(t) = 3 => includeJTerm})

\* One main term further; null for a summer or january graduation term.
NextMainTermOrNull(t) ==
  IF IsOptionalTerm(t) THEN None ELSE t + 2

\* The first step out of the current term goes to the next main term (from a
\* january term: to the spring of the same year), every further one to the next.
DeriveGraduationTerm(now, earned, minimum, target) ==
  LET needed == IF minimum > earned THEN minimum - earned ELSE 0
      semesters == Max({1, (needed + target - 1) \div target})
      first == CASE Season(now) = 1 -> now + 1
                 [] Season(now) = 3 -> now - 3
                 [] OTHER -> now + 2
  IN first + 2 * (semesters - 1)

MeetsGradeThreshold(grade, required) ==
  grade # NoGrade /\ required # NoGrade /\ grade >= required

-----------------------------------------------------------------------------
(* Prerequisites.  used: courses some requirement of the report counts;    *)
(* rows: the course history; placements: the planned term of a course.     *)

IsPrereqSatisfied(course, dependentTerm, used, rows, placements, minGrade) ==
  LET own == {r \in rows : r.course = course}
      attempts == {r \in own : r.type \in {"EN", "TE"}}
      latest == CHOOSE r \in attempts : \A q \in attempts : q.term <= r.term
  IN \/ course \in used
     \/ \E r \in own : r.type = "IP"
     \/ course \in DOMAIN placements /\ placements[course] < dependentTerm
     \/ /\ attempts # {}
        /\ minGrade # NoGrade
        /\ MeetsGradeThreshold(latest.grade, minGrade)

\* The groups of a course in order: AND, OR, NOT; a group may allow a
\* petition.  The walk stops at the first group that fails without one, and
\* reports whether a group up to there allowed it.
CheckAllPrereqs(course, term, in, placements) ==
  LET groups == IF course \in DOMAIN in.prereqs THEN in.prereqs[course] ELSE <<>>
      Sat(c) == IsPrereqSatisfied(c, term, in.used, in.rows, placements,
                  IF <<course, c>> \in DOMAIN in.minGrade
                  THEN in.minGrade[<<course, c>>] ELSE NoGrade)
      Fails(g) == /\ ~g.petition
                  /\ \/ g.type = "AND" /\ \E c \in g.courses : ~Sat(c)
                     \/ g.type = "OR" /\ \A c \in g.courses : ~Sat(c)
      failed == {i \in DOMAIN groups : Fails(groups[i])}
      seen == IF failed = {} THEN DOMAIN groups ELSE 1..Min(failed)
  IN [satisfied |-> failed = {},
      petition |-> \E i \in seen : groups[i].type # "NOT" /\ groups[i].petition]

IsExcludedByNotClause(course, in, others) ==
  /\ course \in DOMAIN in.prereqs
  /\ \E i \in DOMAIN in.prereqs[course] :
       /\ in.prereqs[course][i].type = "NOT"
       /\ in.prereqs[course][i].courses \cap (in.taken \cup others) # {}

\* Length of the longest chain of prerequisites below a course; a course met
\* again on the way down counts 0.
PrereqDepth(course, in) ==
  LET Below(c) == IF c \in DOMAIN in.prereqs
                  THEN UNION {in.prereqs[c][i].courses :
                                i \in {j \in DOMAIN in.prereqs[c] :
                                         in.prereqs[c][j].type # "NOT"}}
                  ELSE {}
      depth[c \in in.known, path \in SUBSET in.known] ==
        IF c \in path THEN 0
        ELSE Max({0} \cup {1 + (IF b \in in.known THEN depth[b, path \cup {c}] ELSE 0)
                             : b \in Below(c)})
  IN depth[course, {}]

-----------------------------------------------------------------------------
(* Enrolment floors of a term (no approvals are on file in a plan).        *)

FullTimeSatisfied(credits, visa, f1Floor) ==
  credits >= (IF f1Floor = None THEN 12 ELSE f1Floor)

CreditMinimumSatisfied(credits, f1Floor, partTimeFloor) ==
  credits >= (IF partTimeFloor # None THEN partTimeFloor
              ELSE IF f1Floor # None THEN f1Floor ELSE 8)

\* The term's notes of the visa policy: a reduced load needs the approval of
\* the office for students on a visa.
VisaNoteNeedsApproval(credits, visa, f1Floor) ==
  visa = "f1" /\ f1Floor # None /\ credits < f1Floor

-----------------------------------------------------------------------------
(* Pass/fail: the eighth axis of the validator, over the course history.   *)

\* Rows graded P that were elected pass/fail.
PassFailRows(rows) == {r \in rows : r.passFail}

AcademicYear(t) == IF Season(t) = 2 THEN t \div 4 ELSE (t \div 4) - 1

PerTermPassFailBroken(rows, pf) ==
  /\ pf.perTerm # None
  /\ \E r \in PassFailRows(rows) :
       LET same == {q \in PassFailRows(rows) :
                      IF pf.byYear THEN AcademicYear(q.term) = AcademicYear(r.term)
                      ELSE q.term = r.term}
       IN Cardinality(same) > pf.perTerm

CareerPassFailStatus(rows, usedUnits, pf) ==
  LET count == IF pf.careerType = "credits" THEN usedUnits
               ELSE Cardinality(PassFailRows(rows))
  IN CASE pf.career = None -> "assumed-pass"
       [] pf.career # None /\ pf.careerType \notin {"credits", "courses"} -> "requires-approval"
       [] OTHER -> IF count > pf.career THEN "fail" ELSE "pass"

CheckPassFailLimits(rows, usedUnits, pf) ==
  CASE ~pf.known \/ ~pf.canElect -> "pass"
    [] pf.known /\ pf.canElect /\ PerTermPassFailBroken(rows, pf) -> "fail"
    [] OTHER -> CareerPassFailStatus(rows, usedUnits, pf)

\* Whether a pass/fail course counts in a category, by the school's flags.
PfEligibility(category, pf, deferred) ==
  CASE category = "elective" -> IF pf.known /\ pf.canElect THEN "counts" ELSE "unknown"
    [] category # "elective" /\ category \in deferred -> "defer"
    [] category # "elective" /\ category \notin deferred
         /\ (~pf.known \/ category \notin DOMAIN pf.counts) -> "unknown"
    [] OTHER -> IF pf.counts[category] THEN "counts" ELSE "elective_only"

-----------------------------------------------------------------------------
(* The weight of a course, in hundredths: by the tier of the requirement   *)
(* it serves, and what its number and title add, at most 60.               *)

BaseWeight(tier) ==
  CASE tier \in {"major-required", "major-elective", "school-core"} -> 100
    [] tier = "general-elective" -> 60
    [] OTHER -> 50

Tier(rId, in) == IF rId \in DOMAIN in.tierOf THEN in.tierOf[rId] ELSE "free-elective"

WorkloadWeight(course, rId, in) ==
  BaseWeight(Tier(rId, in))
    + Min({60, IF course \in DOMAIN in.modifier THEN in.modifier[course] ELSE 0})
=============================================================================
