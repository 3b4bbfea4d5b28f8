----------------------------- MODULE DegreeAudit -----------------------------
(***************************************************************************)
(* What the tools answer from a report that was read: the degree audit      *)
(* (run_full_audit), the credit caps (get_credit_caps) and the academic     *)
(* standing (get_academic_standing), together with the numbers the report   *)
(* sums up for them.                                                        *)
(***************************************************************************)
EXTENDS DprReport

CONSTANTS GroupIds,     \* sections that are requirement groups
          ParentOf,     \* the id in front of the last "/" of an id
          Transcript,        \* course -> [year, season, type, grade, units]
          ProgramOf,    \* program -> [type, level, unit] as its label names them
          MajorIds,     \* requirements whose title names a major
          GenericIds,   \* requirements described without naming a course
          Configs,      \* the configurations of schools
          HistoryShown, \* course rows an audit shows (60)
          ListShown     \* requirements an audit's text lists (10)

VARIABLE envelope

Null == -1
NoConfig == [known |-> FALSE, passFailForMajor |-> TRUE, tiers |-> {}, pace |-> [on |-> FALSE],
             probation |-> Null, sps |-> FALSE]
NoAnswer == [tool |-> "none"]

-----------------------------------------------------------------------------
(* The tree of requirements and its summary.                                *)

\* A group with a counter of its own gets a summary leaf; one without is no
\* leaf at all, whatever table stands under it.
IsLeaf(s) == s.id \notin GroupIds \/ s.counter # NoCounter
Summary(s) == s.id \in GroupIds
WalkRequirements(d) == SelectSeq(d.sections, IsLeaf)
Unmet(d) == SelectSeq(WalkRequirements(d), LAMBDA r : r.status # "satisfied" /\ ~Summary(r))

\* Unmet requirements, a parent left out when a child of it is unmet.
NotSatisfied(d) ==
  SelectSeq(Unmet(d), LAMBDA r : \A i \in DOMAIN Unmet(d) :
                        Unmet(d)[i].id \in DOMAIN ParentOf => ParentOf[Unmet(d)[i].id] # r.id)

\* Of several requirements with one id the last counts.
ById(d, id) == SelectSeq(WalkRequirements(d), LAMBDA r : r.id = id /\ ~Summary(r))
CounterOf(d, id, kind) ==
  IF ById(d, id) = <<>> \/ Last(ById(d, id)).counter.v # kind THEN NoCounter ELSE Last(ById(d, id)).counter
NullUnless(c, n) == IF c = NoCounter THEN Null ELSE n
ParseUnitCap(d, id, default) ==
  IF ById(d, id) = <<>> \/ Last(ById(d, id)).cap = 0 THEN default ELSE Last(ById(d, id)).cap
DeriveCumulative(d) ==
  LET credits == CounterOf(d, "R1001/10", "units")
      gpa == CounterOf(d, "R1001/20", "gpa")
      pf == CounterOf(d, "R1680/10", "units")
  IN [creditsRequired |-> NullUnless(credits, credits.m), creditsUsed |-> NullUnless(credits, credits.n),
      cumulativeGpa |-> NullUnless(gpa, gpa.n), gpaRequired |-> NullUnless(gpa, gpa.m),
      passFailUsed |-> NullUnless(pf, pf.n), passFailCap |-> ParseUnitCap(d, "R1680/10", 32)]

OrElse(n, default) == IF n = Null THEN default ELSE n

-----------------------------------------------------------------------------
(* run_full_audit.                                                          *)

RuleStatus(r) ==
  CASE r.status = "satisfied" -> "satisfied"
    [] r.status = "overall_not_satisfied" -> "in_progress"
    [] OTHER -> IF r.rows # <<>> THEN "in_progress" ELSE "not_started"
Short(c) == IF c.m > c.n THEN c.m - c.n ELSE 0
ComputeRemaining(r) ==
  CASE r.counter = NoCounter -> IF r.status = "satisfied" THEN 0 ELSE 1
    [] r.counter.v = "gpa" -> IF Short(r.counter) = 0 THEN 0 ELSE 1
    [] OTHER -> Short(r.counter)
ReqToRule(r) == [id |-> r.id, status |-> RuleStatus(r), remaining |-> ComputeRemaining(r)]

\* Terms by year and season; the spelling the parser reads a january term in is
\* not one this order knows.
TermSortKey(t) ==
  IF t.season = "January" THEN 0
  ELSE 10 * t.year + (CASE t.season = "Fall" -> 4 [] t.season = "Summer" -> 2 [] OTHER -> 1)
KeyOf(rows, i) == TermSortKey(Transcript[rows[i].name])
AheadOf(rows, i) ==
  {j \in DOMAIN rows : KeyOf(rows, j) > KeyOf(rows, i) \/ (KeyOf(rows, j) = KeyOf(rows, i) /\ j < i)}
MostRecent(rows) == {rows[i].name : i \in {j \in DOMAIN rows : Cardinality(AheadOf(rows, j)) < HistoryShown}}

\* The pool is every course some requirement used, whichever program is asked for.
PointsOf(g) == CASE g = "A" -> 4 [] g = "B" -> 3 [] g = "C" -> 2 [] g = "D" -> 1 [] OTHER -> 0
InGpa(g) == g \in {"A", "B", "C", "D", "F"}
SumOver(rows, val(_)) == FoldLeft(LAMBDA n, r : n + val(Transcript[r.name]), 0, rows)
ComputePoolGpa(rows, pool) ==
  LET counted == SelectSeq(rows, LAMBDA r : r.name \in pool /\ InGpa(Transcript[r.name].grade))
  IN [points |-> SumOver(counted, LAMBDA c : c.units * PointsOf(c.grade)),
      credits |-> SumOver(counted, LAMBDA c : c.units), courses |-> Len(counted)]
Pool(d) == UNION {{Names(r.rows)[i] : i \in DOMAIN r.rows} : r \in ToSet(WalkRequirements(d))}

AuditStandingFlat(c) == IF OrElse(c.cumulativeGpa, 0) >= 20 THEN "good_standing" ELSE "academic_concern"
\* The level of the audit, from the report's numbers only.
AuditStanding(c) ==
  IF OrElse(c.cumulativeGpa, 0) >= OrElse(c.gpaRequired, 20) THEN "good_standing" ELSE "academic_concern"

\* A major requirement is open and the school does not count pass/fail for it.
Disclaims(unmet, cfg) ==
  cfg.known /\ ~cfg.passFailForMajor /\ \E i \in DOMAIN unmet : unmet[i].id \in MajorIds
FollowUps(unmet) == {r.id : r \in {unmet[i] : i \in {j \in DOMAIN unmet : j <= 3 /\ unmet[j].id \in GenericIds}}}

\* One audit per declared program, all with the same rules.
DprToAuditResults(d, wanted) ==
  [programs |-> SelectSeq(d.programs.declared, LAMBDA p : wanted = "any" \/ p = wanted),
   rules |-> [i \in DOMAIN WalkRequirements(d) |-> ReqToRule(WalkRequirements(d)[i])]]

\* A program id that names none of the programs leaves no audit, never all of them.
RunFullAudit(d, wanted, cfg) ==
  LET c == DeriveCumulative(d)
      unmet == NotSatisfied(d)
      graded == SelectSeq(d.history, LAMBDA r : Transcript[r.name].type = "EN" /\ Transcript[r.name].grade # "none")
  IN [tool |-> "audit", cumulative |-> c, level |-> AuditStanding(c),
      audits |-> DprToAuditResults(d, wanted), unsatisfied |-> Ids(unmet),
      inProgress |-> Names(SelectSeq(d.history, LAMBDA r : Transcript[r.name].type = "IP")),
      history |-> MostRecent(d.history), gpa |-> ComputePoolGpa(graded, Pool(d)),
      disclaimer |-> Disclaims(unmet, cfg), followUps |-> FollowUps(unmet)]

\* The text lists the open requirements once, or, when none is open, the open
\* rules of every program; it says how many there are and cuts the list.
SummarizeAudit(a) ==
  LET open == SelectSeq(a.audits.rules, LAMBDA r : r.status # "satisfied")
      listed == IF a.unsatisfied # <<>> THEN a.unsatisfied
                ELSE IF a.audits.programs # <<>> THEN Ids(open) ELSE <<>>
  IN [distinct |-> Len(listed), lines |-> SubSeq(listed, 1, Min({Len(listed), ListShown})),
      gpa |-> OrElse(a.cumulative.cumulativeGpa, 0)]

-----------------------------------------------------------------------------
(* get_credit_caps.                                                         *)

\* Every declared major whose level is known from its label or from the credits
\* of the report; none or two that differ leave the question to the student.
ResolveSpsDivision(d) ==
  LET credits == DeriveCumulative(d).creditsRequired
      band == CASE credits = Null -> "none" [] credits <= 66 -> "associates"
                [] credits >= 100 -> "bachelors" [] OTHER -> "none"
      Level(p) == IF ProgramOf[p].level # "none" THEN ProgramOf[p].level ELSE band
      majors == {p \in ToSet(d.programs.declared) :
                   /\ ProgramOf[p].type = "Major" /\ Level(p) # "none"
                   /\ band = "none" \/ Level(p) = band}
      CapOf(p) == CASE Level(p) = "associates" -> 30 [] ProgramOf[p].unit # "daus" -> 64 [] OTHER -> 80
      divisions == {<<IF Level(p) = "associates" THEN "daus" ELSE ProgramOf[p].unit, CapOf(p)>> : p \in majors}
  IN IF Cardinality(divisions) = 1 THEN (CHOOSE v \in divisions : TRUE)[2] ELSE Null

GetCreditCaps(d, cfg, visa) ==
  LET c == DeriveCumulative(d)
  IN [tool |-> "caps", ceiling |-> IF cfg.known THEN "config" ELSE "default",
      f1Floor |-> visa = "f1", total |-> c.creditsRequired, gpaMin |-> c.gpaRequired,
      passFailCap |-> c.passFailCap, source |-> IF cfg.known THEN "dpr+config" ELSE "dpr",
      advanced |-> IF cfg.sps THEN ResolveSpsDivision(d) ELSE Null]

-----------------------------------------------------------------------------
(* get_academic_standing.  Withdrawn, incomplete and unrecorded courses are  *)
(* attempted; a pass completes and does not count; transfers are neither.    *)

Final(row) == Transcript[row.name].type # "IP" /\ Transcript[row.name].grade \notin {"none", "TR"}
Completes(c) == c.grade \in {"A", "B", "C", "D", "P"}
SemestersCompleted(rows) ==
  Cardinality({<<Transcript[r.name].year, Transcript[r.name].season>> : r \in ToSet(SelectSeq(rows, Final))})

ResolveTier(tiers, n) ==
  LET finite == {t \in tiers : t.after # Null /\ t.after <= n}
      open == {t \in tiers : t.after = Null}
  IN IF finite # {} THEN (CHOOSE t \in finite : \A s \in finite : s.after <= t.after).min
     ELSE IF open # {} THEN (CHOOSE t \in open : TRUE).min ELSE Null

\* Pace dismisses whatever the GPA; the floor of final probation overrides all
\* but a dismissal.
CalculateStanding(rows, semesters, cfg, floor) ==
  LET final == SelectSeq(rows, Final)
      graded == SelectSeq(final, LAMBDA r : InGpa(Transcript[r.name].grade))
      credits == SumOver(graded, LAMBDA c : c.units)
      points == 10 * SumOver(graded, LAMBDA c : c.units * PointsOf(c.grade))
      attempted == SumOver(final, LAMBDA c : c.units)
      done == SumOver(final, LAMBDA c : IF Completes(c) THEN c.units ELSE 0)
      min == OrElse(ResolveTier(cfg.tiers, semesters), OrElse(floor, 20))
      good == IF credits = 0 THEN min <= 0 ELSE points >= min * credits
  IN [good |-> good, done |-> done, attempted |-> attempted,
      level |-> CASE cfg.pace.on /\ semesters >= cfg.pace.after /\ 100 * done < cfg.pace.dismissal * attempted
                       -> "dismissed"
                  [] cfg.probation # Null /\ points < cfg.probation * (IF credits = 0 THEN 1 ELSE credits)
                       -> "final_probation"
                  [] OTHER -> IF good THEN "good_standing" ELSE "academic_concern",
      slow |-> cfg.pace.on /\ 100 * done < cfg.pace.good * attempted]

\* The number is the report's, the verdict is computed from the courses.
GetAcademicStanding(d, cfg) ==
  LET c == DeriveCumulative(d)
  IN [tool |-> "standing", gpa |-> c.cumulativeGpa,
      verdict |-> CalculateStanding(d.history, SemestersCompleted(d.history), cfg, c.gpaRequired)]

-----------------------------------------------------------------------------
HasReport == stage = Printed + 1 /\ read.ok /\ envelope = NoAnswer
AskAudit == \E wanted \in {"any", "unknown"}, cfg \in Configs :
  HasReport /\ envelope' = RunFullAudit(read, wanted, cfg) /\ UNCHANGED dprVars
AskCaps == \E cfg \in Configs, visa \in {"f1", "none"} :
  HasReport /\ envelope' = GetCreditCaps(read, cfg, visa) /\ UNCHANGED dprVars
AskStanding == \E cfg \in Configs :
  HasReport /\ envelope' = GetAcademicStanding(read, cfg) /\ UNCHANGED dprVars

AuditInit == DprInit /\ envelope = NoAnswer
AuditNext == (DprNext /\ UNCHANGED envelope) \/ AskAudit \/ AskCaps \/ AskStanding
auditVars == <<dprVars, envelope>>

-----------------------------------------------------------------------------
PrintedCounter(id) ==
  LET hits == SelectSeq(printed.sections, LAMBDA s : s.id = id)
  IN IF hits = <<>> THEN NoCounter ELSE Last(hits).counter
Newer(a, b) ==
  LET Key(t) == 10 * t.year + (CASE t.season = "Fall" -> 4 [] t.season = "Summer" -> 2
                                 [] t.season = "Spring" -> 1 [] OTHER -> 0)
  IN Key(Transcript[a]) > Key(Transcript[b])

(* What is answered is what was printed: good standing exactly with a GPA     *)
(* that was read and is at the printed floor or above it, every printed open  *)
(* requirement listed or represented by an open child of it unless its status *)
(* was lost under a warning, nothing listed that is satisfied or two times,   *)
(* no course row shown before a newer one that is not (january terms apart),  *)
(* caps as printed or not stated, and the cut list counted in full.  Of the   *)
(* computed standing, a good level only with the good verdict, and with it no *)
(* lower level but a dismissal for pace or the floor of final probation       *)
(* (run_full_audit, get_credit_caps, get_academic_standing).                  *)
AnswersMatchTheReport ==
  /\ envelope.tool = "audit" =>
       LET text == SummarizeAudit(envelope)
           g == PrintedCounter("R1001/20")
       IN /\ envelope.level = "good_standing" <=>
               g # NoCounter /\ envelope.cumulative.cumulativeGpa # Null /\ g.n >= g.m
          /\ \A i \in DOMAIN printed.sections :
               LET s == printed.sections[i]
               IN s.status # "satisfied" /\ s.id \notin GroupIds =>
                    \/ read.sections[i].warned
                    \/ \E j \in DOMAIN envelope.unsatisfied :
                         LET u == envelope.unsatisfied[j]
                         IN u = s.id \/ (u \in DOMAIN ParentOf /\ ParentOf[u] = s.id)
          /\ \A i \in DOMAIN envelope.unsatisfied :
               \E s \in ToSet(printed.sections) : s.id = envelope.unsatisfied[i] /\ s.status # "satisfied"
          /\ Cardinality(ToSet(envelope.unsatisfied)) = Len(envelope.unsatisfied)
          /\ \A c \in {r.name : r \in ToSet(read.history)} \ envelope.history : \A d \in envelope.history :
               Newer(c, d) => Transcript[c].season = "January"
          /\ text.distinct > ListShown => Len(text.lines) = ListShown
          /\ envelope.gpa.courses <= Len(printed.history)
          /\ \A r \in ToSet(envelope.audits.rules) : r.status = "not_started" => r.remaining > 0
  /\ envelope.tool = "caps" =>
       /\ envelope.total \in {Null, PrintedCounter("R1001/10").m}
       /\ envelope.gpaMin \in {Null, PrintedCounter("R1001/20").m}
  /\ envelope.tool = "standing" =>
       LET v == envelope.verdict
       IN /\ v.done <= v.attempted
          /\ v.level = "good_standing" => v.good
          /\ v.good => v.level # "academic_concern"
=============================================================================
