---------------------------- MODULE MCComponents ----------------------------
(***************************************************************************)
(* The components that share no state with the plan lifecycle, side by side *)
(* in one instance: a behavior picks one of them at its start and runs it.  *)
(* What each of them plays on is defined here.                              *)
(***************************************************************************)
EXTENDS ForwardPlanner, IpCalendar, PlanEdits, Sections, ChatPage, SignIn, SessionSummaries,
        ProfileSync, ChatReply, Onboarding, DegreeAudit, ReplyValidator, PlanViews,
        RefusalBubbles

VARIABLE running   \* the component of this behavior

Fall26   == TermIn(26, 2)
Spring27 == TermIn(27, 0)
Fall27   == TermIn(27, 2)

-----------------------------------------------------------------------------
(* Planning problems: three requirements, credits and terms such that each  *)
(* hard constraint decides at least one of them.                            *)

Rq(id, cands) == [rId |-> id, credits |-> 6, candidates |-> cands, ranged |-> FALSE,
                  range |-> {}, poolId |-> "none", partly |-> FALSE]
ElectivePool(id, range) == [Rq(id, <<>>) EXCEPT !.ranged = TRUE, !.range = range, !.poolId = "p1"]
Clause(type, cs) == [type |-> type, courses |-> cs, petition |-> FALSE]
NoPassFail == [known |-> FALSE, canElect |-> FALSE, perTerm |-> None, byYear |-> FALSE,
               career |-> None, careerType |-> "credits", counts |-> <<>>]
HistoryRow(c, type, t, g) == [course |-> c, type |-> type, term |-> t, grade |-> g, passFail |-> FALSE]

Base == [
  rows |-> {}, now |-> Fall26, target |-> None, earned |-> 110, minimum |-> 128, load |-> 12,
  unmet |-> <<Rq("r1", <<"a", "b">>), Rq("r2", <<"c">>), Rq("r3", <<"d", "e">>)>>,
  offerings |-> ("d" :> {2}), summer |-> FALSE, jterm |-> FALSE, used |-> {}, minGrade |-> <<>>,
  prereqs |-> ("c" :> <<Clause("AND", {"a"})>>), known |-> {"a", "b", "c", "d", "e"},
  coreqs |-> <<>>, catalog |-> [c \in {"a", "b", "c", "d", "e"} |-> 6], excluded |-> {},
  abroad |-> {}, names |-> <<"a", "b", "c", "d", "e">>, ceiling |-> 18, visa |-> "none",
  f1Floor |-> None, partTimeFloor |-> 4, residencyMin |-> None, residencyUsed |-> 0,
  majorMin |-> None, tierOf |-> [r \in {"r1", "r2"} |-> "major-required"], modifier |-> <<>>,
  dept |-> [c \in {"a", "b"} |-> "x"] @@ [c \in {"c", "d"} |-> "y"], soft |-> "none",
  style |-> "balanced", broken |-> {}, termTarget |-> <<>>, lightTerms |-> {}, heavyTerms |-> {},
  irregular |-> {}, passFail |-> NoPassFail, passFailUsed |-> 0, pins |-> <<>>, offCatalog |-> <<>>]

MCProblems == {
  Base,
  [Base EXCEPT !.style = "frontload", !.soft = "concentrated"],
  [Base EXCEPT !.visa = "f1", !.f1Floor = 12, !.minimum = 134],
  [Base EXCEPT !.minimum = 146, !.ceiling = 6],
  [Base EXCEPT !.target = Spring27, !.residencyMin = 18, !.majorMin = 12],
  [Base EXCEPT !.target = Fall27, !.pins = <<[course |-> "a", term |-> Spring27],
     [course |-> "d", term |-> Spring27], [course |-> "z", term |-> Fall26 - 4]>>],
  [Base EXCEPT !.rows = {HistoryRow("a", "IP", Fall26, NoGrade)}, !.target = Fall27,
     !.coreqs = ("c" :> {"d"})],
  [Base EXCEPT !.rows = {HistoryRow("b", "EN", Fall26 - 4, 8)},
     !.prereqs = ("c" :> <<Clause("OR", {"a", "b"}), Clause("NOT", {"d"})>>),
     !.minGrade = (<<"c", "b">> :> 5)],
  [Base EXCEPT !.unmet[1] = ElectivePool("r1", {"a", "b"}), !.prereqs = ("c" :> <<Clause("AND", {"d"})>>)],
  [Base EXCEPT !.unmet[1] = ElectivePool("r1", {"a", "b"})],
  [Base EXCEPT !.minimum = 116, !.unmet[3].candidates = <<"d">>,
     !.prereqs = ("c" :> <<Clause("AND", {"a"})>>) @@ ("d" :> <<Clause("AND", {"c"})>>)],
  [Base EXCEPT !.summer = TRUE, !.jterm = TRUE, !.target = Spring27],
  [Base EXCEPT !.unmet[3].candidates = <<"a", "e">>],
  [Base EXCEPT !.unmet[3].candidates = <<>>],
  [Base EXCEPT !.heavyTerms = {Fall26}, !.lightTerms = {Spring27}, !.broken = {"gpa_floor"}],
  [Base EXCEPT !.now = Fall26 + 1, !.jterm = TRUE],
  [Base EXCEPT !.target = Fall26 - 4],
  [Base EXCEPT !.target = Spring27, !.load = 6],
  [Base EXCEPT !.unmet = Append(@, Rq("r4", <<"g">>)), !.target = Spring27, !.minimum = 134,
     !.catalog = [c \in {"a", "b", "c", "d", "e", "g"} |-> 6], !.prereqs = <<>>,
     !.names = <<"a", "b", "c", "d", "e", "g">>, !.known = @ \union {"g"}],
  [Base EXCEPT !.unmet = <<>>, !.ceiling = 6, !.target = Spring27,
     !.pins = <<[course |-> "a", term |-> Spring27], [course |-> "b", term |-> Spring27]>>],
  [Base EXCEPT !.unmet = <<Rq("r1", <<"a">>), Rq("r2", <<"b">>), Rq("r3", <<"a">>)>>,
     !.coreqs = ("b" :> {"a"}), !.prereqs = <<>>, !.ceiling = 12, !.target = Spring27],
  [Base EXCEPT !.now = Fall26 + 1, !.target = Fall27, !.residencyMin = 24, !.f1Floor = 6,
     !.rows = {HistoryRow("a", "IP", None, NoGrade)}],
  [Base EXCEPT !.unmet[3].candidates = <<>>, !.unmet[3].credits = 20, !.minimum = 122,
     !.target = Fall27, !.f1Floor = 6],
  [Base EXCEPT !.termTarget = (Spring27 :> 24), !.target = Fall27, !.f1Floor = 6]}

-----------------------------------------------------------------------------
(* A report with one course in progress, one completed, two requirements to *)
(* serve, and the edits a student asks for.                                 *)

ReportRow(type, t, g) == [type |-> type, term |-> t, grade |-> g, units |-> 4]
Leaf(used, counter, needs, has, sat, cands, pool, groups, title) ==
  [used |-> used, counter |-> counter, required |-> needs, has |-> has, satisfied |-> sat,
   cands |-> cands, pool |-> pool, groups |-> groups, title |-> title]
MCReports == {[
  rows |-> ("a" :> ReportRow("IP", Fall26, NoGrade)) @@ ("b" :> ReportRow("EN", Fall26 - 4, 9)),
  pfUnits |-> 0,
  leaves |-> ("r1" :> Leaf({"a"}, "courses", 1, 1, TRUE, {"a", "c"}, FALSE, <<{"program"}>>, {}))
          @@ ("r2" :> Leaf({"b"}, "none", 0, 0, TRUE, {"b", "d"}, FALSE, <<{"core"}, {}>>, {}))
          @@ ("r3" :> Leaf({}, "courses", 1, 0, FALSE, {"c", "d"}, TRUE, <<{"general elective"}>>, {"elective"}))
          @@ ("r4" :> Leaf({}, "units", 4, 0, FALSE, {"e"}, FALSE, <<{"minor"}>>, {}))]}

EditOf(k, c, t) == [kind |-> k, course |-> c, term |-> t, drop |-> "none", slot |-> "none", style |-> "none"]
MCEdits == {
  EditOf("pin", "c", Spring27), EditOf("unpin", "c", Spring27), EditOf("exclude", "c", None),
  EditOf("move", "e", Spring27), EditOf("addTerm", "none", Fall26 + 3),
  [EditOf("swap", "d", Fall27) EXCEPT !.drop = "e"],
  [EditOf("bind", "c", None) EXCEPT !.slot = "r3"],
  [EditOf("bind", "d", None) EXCEPT !.slot = "r3"],
  [EditOf("loadStyle", "none", Spring27) EXCEPT !.style = "light"]}
MCNow == Fall26
MCEnd == Spring27
MCOfferedIn == ("d" :> {0})
MCBefore == ("d" :> {"c"}) @@ ("e" :> {"b"})
MCElect == [known |-> TRUE, canElect |-> TRUE,
            counts |-> [x \in {"major", "gen_ed"} |-> x = "gen_ed"], deferred |-> {}]

-----------------------------------------------------------------------------
(* Two courses with overlapping, full, closed, unparsed and timeless        *)
(* sections; a code that is the prefix of another.                          *)

Meeting(d, s, f) == [day |-> d, start |-> s, finish |-> f]
At(ps) == [kind |-> "ok", patterns |-> ps]
Section(crn, c, st, m) == [crn |-> crn, code |-> c, status |-> st, meets |-> m]
A1 == Section("a1", "a", "O", At({Meeting("M", 540, 630), Meeting("W", 540, 630)}))
A2 == Section("a2", "a", "W", At({Meeting("Tu", 540, 630)}))
A3 == Section("a3", "a", "C", At({Meeting("F", 540, 630)}))
B1 == Section("b1", "b", "O", At({Meeting("M", 600, 700)}))
B2 == Section("b2", "b", "O", At({Meeting("Tu", 600, 700), Meeting("Tu", 700, 790)}))
B2Unparsed == Section("b2", "b", "O", [kind |-> "unparseable"])
B3 == Section("b3", "b", "O", [kind |-> "asynchronous"])
OfAb == Section("x1", "ab", "O", [kind |-> "unparseable"])
MCListings == {[a |-> <<A1, OfAb, A2>>, b |-> <<B1, B2>>], [a |-> <<A3>>, b |-> <<B1, B2Unparsed, B3>>]}
MCTermPlans == {
  [courses |-> <<"a", "b">>, locked |-> FALSE, exists |-> TRUE],
  [courses |-> <<"b", "b">>, locked |-> FALSE, exists |-> TRUE],
  [courses |-> <<>>, locked |-> FALSE, exists |-> TRUE]}
Between(d, s, f) == [days |-> {d}, start |-> s, finish |-> f]
MCWishes == {
  [NoWish EXCEPT !.freeDay = "any", !.freeStrict = TRUE, !.avoidDay = "W", !.avoidDayStrict = TRUE,
                 !.avoid = {Between("M", 640, 660)}, !.avoidStrict = TRUE],
  [NoWish EXCEPT !.avoid = {Between("Tu", 500, 560)}, !.prefer = {Between("M", 600, 620)},
                 !.weight = 10, !.longBlocks = TRUE]}
MCWeek == <<"M", "Tu", "W", "Th", "F">>

-----------------------------------------------------------------------------
(* Terms in progress, and days around every date of the academic calendar.  *)

MCTerms == {[year |-> 26, season |-> s] : s \in {"January", "Spring", "Summer", "Fall", "Winter"}}
             \union {[year |-> 27, season |-> s] : s \in {"January", "Spring"}}
MCRowSets == {s \in SUBSET MCTerms : Cardinality(s) <= 3}
\* The first instant and the morning of a last day to add are two of them.
Moment(y, d, t) == [year |-> y, day |-> d, time |-> t]
DaysOfYear == <<104, 112, 120, 201, 204, 210, 410, 501, 603, 710, 801, 912, 1130>>
MCDays == <<Moment(25, 1201, 0)>>
            \o FlattenSeq([y \in 1..2 |-> FlattenSeq([i \in DOMAIN DaysOfYear |->
                 <<Moment(25 + y, DaysOfYear[i], 0), Moment(25 + y, DaysOfYear[i], 600)>>])])

-----------------------------------------------------------------------------
(* Requests that send a school and a visa status, one of them, or none, with *)
(* a report that shows the school and one that does not; a what-if report.   *)

Report(labels, declared, kind) == [labels |-> labels, declared |-> declared, kind |-> kind]
KnownSchool == Report({"cas"}, "cs", "dpr")
UnknownSchool == Report({}, "absent", "dpr")
WhatIfReport == Report({}, "math", "what_if")
Body(home, visa, rep) == [home |-> home, visa |-> visa, report |-> rep]
MCBodies == {Body("absent", "absent", KnownSchool), Body("stern", "other", UnknownSchool),
             Body("stern", "f1", KnownSchool), Body("absent", "f1", WhatIfReport),
             Body("nowhere", "absent", UnknownSchool)}
MCNewValues == {[field |-> "homeSchool", value |-> "tisch"], [field |-> "visaStatus", value |-> "f1"],
                [field |-> "declaredPrograms", value |-> "cs"]}
MCStoredRows == {NoRow, [profile |-> [homeSchool |-> "cas", visaStatus |-> "f1", declaredPrograms |-> "cs"],
                         report |-> KnownSchool]}
MCUploads == {KnownSchool, WhatIfReport}

(* Messages that are a plan question, one that refers to what was said, an   *)
(* exploring and a vague one; a reply, a question and a fabricated citation. *)

Msg == [vague |-> FALSE, pronoun |-> FALSE, long |-> FALSE, lookup |-> FALSE, planning |-> FALSE,
        exploring |-> FALSE, interest |-> FALSE, away |-> FALSE, names |-> FALSE]
MCMessages == {[Msg EXCEPT !.exploring = TRUE, !.away = TRUE], [Msg EXCEPT !.planning = TRUE, !.pronoun = TRUE],
               [Msg EXCEPT !.vague = TRUE, !.interest = TRUE]}
MCReplies == {[Silent EXCEPT !.names = TRUE], Question, [Silent EXCEPT !.cites = "fabricated"]}
MCContexts == {[global |-> TRUE, declared |-> TRUE]}
MCToolSets == {{}, {"what_if_audit", "propose_plan_change"}}

-----------------------------------------------------------------------------
(* A report with limits in front of the first group, a parent and its child, *)
(* rows that wrap in every way; a drop, a withdrawal and a course in progress.*)

Rw(n, s, t) == [name |-> n, style |-> s, topic |-> t]
Sec(id, st, c, rows, cap) == [id |-> id, status |-> st, counter |-> c, rows |-> rows, cap |-> cap]
MCPrintable == <<Sec("R1680/10", "satisfied", Counting("units", 4, 0), <<>>, 24),
  Sec("RG1", "overall_not_satisfied", NoCounter, <<>>, 0),
  Sec("R1001/10", "not_satisfied", Counting("units", 100, 128), <<>>, 0),
  Sec("R1001/20", "not_satisfied", Counting("gpa", 27, 30), <<>>, 0),
  Sec("R1001/20", "satisfied", Counting("gpa", 30, 30), <<>>, 0),
  Sec("R1004", "not_satisfied", NoCounter, <<>>, 0),
  Sec("R1004/10", "not_satisfied", Counting("courses", 1, 2), <<Rw("a", "whole", FALSE), Rw("b", "wrapped", TRUE)>>, 0)>>
MCHistories == {<<Rw("a", "whole", TRUE), Rw("b", "suffixed", TRUE), Rw("c", "wrapped", FALSE)>>}
MCProgramLists == {<<>>, <<"college", "applied", "sports">>}
Course(y, s, t, g) == [year |-> y, season |-> s, type |-> t, grade |-> g, units |-> 4]
MCTranscript == ("a" :> Course(24, "Fall", "EN", "D")) @@ ("b" :> Course(25, "January", "EN", "W"))
           @@ ("c" :> Course(25, "Fall", "IP", "none"))
MCProgramOf == ("college" :> [type |-> "Program", level |-> "none", unit |-> "daus"])
  @@ ("sports" :> [type |-> "Major", level |-> "bachelors", unit |-> "tisch"])
  @@ ("applied" :> [type |-> "Major", level |-> "none", unit |-> "daus"])
MCParentOf == ("R1004/10" :> "R1004") @@ ("R1001/10" :> "R1001") @@ ("R1001/20" :> "R1001")
MCConfigs == {NoConfig,
  [NoConfig EXCEPT !.known = TRUE, !.passFailForMajor = FALSE, !.sps = TRUE, !.probation = 15,
     !.pace = [on |-> TRUE, after |-> 2, dismissal |-> 60, good |-> 75],
     !.tiers = {[after |-> 1, min |-> 18], [after |-> Null, min |-> 20]}]}

-----------------------------------------------------------------------------
(* What a model may write about two courses of a stored plan, its date, and  *)
(* its sources; a plan with a locked and a movable course, or none.          *)

St(tokens, claims) == [tokens |-> tokens, says |-> claims]
Cr(c) == Tok("course", c)
Tm(t) == Tok("term", t)
Not == Tok("not", "")
Says(c) == Tok(c, "")
MCStatements == {
  St(<<Cr("a"), Tm("f26")>>, {<<"placed", "a", "f26">>}),
  St(<<Tm("s27"), Cr("a")>>, {<<"placed", "a", "s27">>}),
  St(<<Cr("c"), Tm("f26")>>, {<<"placed", "c", "f26">>}),
  St(<<Cr("a"), Tm("f26"), Cr("b"), Tm("s27")>>, {<<"placed", "a", "f26">>, <<"placed", "b", "s27">>}),
  St(<<Cr("b"), Cr("a"), Tm("f26")>>, {<<"placed", "a", "f26">>}),
  St(<<Cr("a"), Tm("f26"), Cr("b")>>, {<<"placed", "a", "f26">>}),
  St(<<Cr("a"), Not, Tm("s27"), Says("end"), Says("it"), Tm("f26")>>, {<<"absent", "a", "s27">>, <<"placed", "a", "f26">>}),
  St(<<Cr("a"), Not, Tm("f26"), Tm("s27")>>, {<<"absent", "a", "f26">>, <<"placed", "a", "s27">>}),
  St(<<Says("if"), Cr("b"), Tm("f26"), Says("graduate"), Tm("s27")>>, {}),
  St(<<Says("graduate"), Tm("f27")>>, {<<"graduates", "", "f27">>}),
  St(<<Says("graduate"), Tm("s27")>>, {<<"graduates", "", "s27">>}),
  St(<<Says("graduate"), Cr("b"), Tm("s27")>>, {<<"placed", "b", "s27">>}),
  St(<<Not, Says("graduate"), Tm("s27")>>, {}),
  St(<<Cr("b"), Says("graduate"), Tm("s27")>>, {<<"graduates", "", "s27">>}),
  St(<<Tm("s27"), Says("graduate")>>, {<<"graduates", "", "s27">>}),
  St(<<Cr("a"), Says("and"), Says("and"), Says("and"), Says("and"), Tm("s27")>>, {<<"placed", "a", "s27">>}),
  St(<<Cr("a"), Says("lock"), Says("and"), Says("and"), Cr("b"), Says("movable")>>, {<<"locked", "a", "">>, <<"movable", "b", "">>}),
  St(<<Cr("b"), Not, Says("lock")>>, {<<"movable", "b", "">>}),
  St(<<Cr("b"), Says("lock")>>, {<<"locked", "b", "">>}),
  St(<<Cr("a"), Says("movable")>>, {<<"movable", "a", "">>}),
  St(<<Number("number", 16, "unit")>>, {}),
  St(<<Number("decimal", 34, "")>>, {}),
  St(<<Number("decimal", 34, ""), Says("source")>>, {}),
  St(<<Says("about"), Number("number", 50, "unit")>>, {}),
  St(<<Says("about"), Number("number", 50, "unit"), Tok("word", "adviser")>>, {}),
  St(<<Tok("topic", "transfer"), Tok("word", "unpublished")>>, {}),
  St(<<Not, Tok("topic", "policy")>>, {}),
  St(<<Tok("topic", "policy")>>, {}),
  St(<<Tok("topic", "load"), Tok("word", "f-1")>>, {}),
  St(<<Tok("topic", "load")>>, {}),
  St(<<Tok("topic", "gpa"), Tok("pinned", "run_full_audit"), Number("decimal", 31, "")>>, {}),
  St(<<Says("call me")>>, {}),
  St(<<Says("bulletin"), Tok("quote", "block"), Tok("passage", "p")>>, {}),
  St(<<Says("bulletin"), Tok("quote", "block"), Tok("passage", "q")>>, {}),
  St(<<Says("bulletin"), Tok("quote", "block"), Tok("passage", "p"), Says("and"), Says("and"), Says("and")>>, {}),
  St(<<Says("bulletin"), Tok("quote", "bare"), Tok("passage", "p"), Tok("passage", "q")>>, {}),
  St(<<Tok("quote", "italic"), Tok("passage", "q")>>, {}),
  St(<<Says("bulletin"), Tok("quote", "block"), Tok("passage", "p"), Tok("quote", "italic"), Tok("passage", "q"),
       Tok("quote", "block"), Tok("passage", "q")>>, {}),
  St(<<Number("number", 12, "unit"), Tok("word", "short")>>, {})}
Inv(t, ns, low, ps, pin, ks) == [tool |-> t, numbers |-> ns, low |-> low, passages |-> ps, pinned |-> pin, keywords |-> ks]
MCInvocations == {Inv("run_full_audit", {12, 31}, FALSE, {}, {31}, {"gpa"}), Inv("search_policy", {4}, TRUE, {"p"}, {}, {}),
  Inv("search_policy", {4}, FALSE, {"p"}, {}, {})}
MCQuestions == {[numbers |-> {}, keywords |-> {"gpa"}, wanted |-> 0], [numbers |-> {16}, keywords |-> {}, wanted |-> 16]}
MCStored == {[known |-> TRUE, terms |-> [a |-> {"f26"}, b |-> {"s27"}], locked |-> {"a"}, graduation |-> "f27"], NoStoredPlan}

-----------------------------------------------------------------------------
(* Plans that differ in one place, in several, and in what they violate; a    *)
(* course listed twice, a January, a placeholder, a violation listed twice.  *)

Sl(kind, key, cr, pet) == [kind |-> kind, key |-> key, credits |-> cr, petition |-> pet]
Sem(t, slots) == [term |-> t, slots |-> slots]
Pl(sems, grad, state, unmet, broken) ==
  [semesters |-> sems, grad |-> grad, state |-> state, unmet |-> unmet, broken |-> broken, feasible |-> state # "infeasible-draft"]
IPa == Sl("in_progress", "a", 4, FALSE)
Pb == Sl("specific_planned", "b", 4, FALSE)
Pc == Sl("specific_planned", "c", 2, TRUE)
Elective == Sl("placeholder", "slot1", 4, FALSE)
MCViewPlans == {
  Pl(<<Sem(10, <<IPa>>), Sem(12, <<Pb, Elective>>)>>, 12, "valid-clean", {}, <<>>),
  Pl(<<Sem(10, <<IPa, Pb>>), Sem(12, <<Elective>>)>>, 12, "valid-with-trade-offs", {}, <<>>),
  Pl(<<Sem(10, <<IPa>>), Sem(12, <<Pc>>), Sem(14, <<Pb>>)>>, 14, "valid-with-trade-offs", {}, <<>>),
  Pl(<<Sem(11, <<Pb>>), Sem(12, <<Pc, Elective>>)>>, 12, "valid-clean", {}, <<>>),
  Pl(<<Sem(10, <<Pb>>), Sem(12, <<Pb, Pc>>)>>, 12, "valid-with-trade-offs", {"r1"}, <<>>),
  Pl(<<Sem(10, <<IPa>>), Sem(12, <<Pc>>)>>, 12, "infeasible-draft", {"r1"},
     <<[kind |-> "prereq", detail |-> "d1"], [kind |-> "credits", detail |-> "d2"], [kind |-> "other", detail |-> "d1"]>>),
  \* one the validator accepts although a pin is out of the window, one only it refuses
  Pl(<<Sem(10, <<Pb>>), Sem(14, <<Pc>>)>>, 14, "valid-with-trade-offs", {}, <<[kind |-> "other", detail |-> "d1"]>>),
  Pl(<<Sem(10, <<IPa, Pb>>), Sem(12, <<Pc>>)>>, 12, "infeasible-draft", {}, <<>>)}
Ch(k, t, u) == [kind |-> k, term |-> t, to |-> u]
MCPlanChanges == {Ch("pin", 12, 0), Ch("swap", 12, 0), Ch("move", 12, 10), Ch("unpin", 12, 0), Ch("exclude", 12, 0),
  Ch("addTerm", 14, 0), Ch("what-if", 12, 0)}
MCRejections == {[kind |-> "other", detail |-> "axes"]}

-----------------------------------------------------------------------------
\* Changes that touch two terms and none; plans with courses in one and in both.
MCBubbleTerms == {<<"f26", "s27">>, <<>>}
MCPlannedTerms == {{"f26"}, {"f26", "s27"}}

-----------------------------------------------------------------------------
\* A component that does not run holds nothing.
PlannerIdle ==
  /\ raw = <<>> /\ budget = 0 /\ ctx = <<>> /\ goal = "winner" /\ phase = "idle"
  /\ assigned = <<>> /\ frames = <<>> /\ nodes = 0 /\ truncated = FALSE /\ kept = <<>>
  /\ diverse = <<>> /\ draft = NoPlan /\ passes = 0 /\ winner = NoPlan /\ alternatives = <<>>
  /\ built = <<>> /\ result = NoResult
CalendarIdle == school = "cas" /\ ipRows = {} /\ today = 1
EditsIdle ==
  /\ report = <<>> /\ prefs = NoPrefs /\ plan = {}
  /\ preview = NoPreview /\ dropped = {} /\ edits = 0
SectionsIdle ==
  /\ listing = <<>> /\ cache = <<>> /\ termPlan = <<>> /\ boundTo = <<>>
  /\ schedPrefs = NoWish /\ call = NoCall /\ pending = <<>> /\ outcome = [state |-> "none"]

Init ==
  /\ running \in {"planner", "calendar", "edits", "sections", "page", "signIn", "summaries",
                "profile", "replies", "onboarding", "report", "validator", "views", "bubbles"}
  /\ IF running = "planner" THEN PlannerInit ELSE PlannerIdle
  /\ IF running = "calendar" THEN IpInit ELSE CalendarIdle
  /\ IF running = "edits" THEN EditInit ELSE EditsIdle
  /\ IF running = "sections" THEN SectionsInit ELSE SectionsIdle
  /\ PageInit
  /\ running # "page" => server.plans = <<>>
  /\ SignInInit
  /\ SummariesInit
  /\ ProfileInit
  /\ running # "profile" => row = NoRow
  /\ ReplyInit
  /\ OnboardInit
  /\ AuditInit
  /\ ValidatorInit
  /\ running # "validator" => ~f1 /\ storedPlan = NoStoredPlan /\ asked.wanted = 0
  /\ ViewsInit
  /\ running # "views" => window = "closed" /\ Len(myPlan.semesters) = 3
  /\ BubblesInit
  /\ running # "bubbles" => planned = {"f26"}

EditsOnly == Init /\ running = "edits"
RepliesOnly == Init /\ running = "replies"

Next ==
  /\ UNCHANGED running
  /\ \/ running = "planner" /\ PlannerNext
        /\ UNCHANGED <<ipVars, editVars, sectionVars, pageVars, signInVars, summaryVars,
                       profileVars, replyVars, onboardVars, auditVars, validatorVars, viewVars,
                       bubbleVars>>
     \/ running = "calendar" /\ IpNext
        /\ UNCHANGED <<plannerVars, editVars, sectionVars, pageVars, signInVars, summaryVars,
                       profileVars, replyVars, onboardVars, auditVars, validatorVars, viewVars,
                       bubbleVars>>
     \/ running = "edits" /\ EditNext
        /\ UNCHANGED <<plannerVars, ipVars, sectionVars, pageVars, signInVars, summaryVars,
                       profileVars, replyVars, onboardVars, auditVars, validatorVars, viewVars,
                       bubbleVars>>
     \/ running = "sections" /\ SectionsNext
        /\ UNCHANGED <<plannerVars, ipVars, editVars, pageVars, signInVars, summaryVars,
                       profileVars, replyVars, onboardVars, auditVars, validatorVars, viewVars,
                       bubbleVars>>
     \/ running = "page" /\ PageNext
        /\ UNCHANGED <<plannerVars, ipVars, editVars, sectionVars, signInVars, summaryVars,
                       profileVars, replyVars, onboardVars, auditVars, validatorVars, viewVars,
                       bubbleVars>>
     \/ running = "signIn" /\ SignInNext
        /\ UNCHANGED <<plannerVars, ipVars, editVars, sectionVars, pageVars, summaryVars,
                       profileVars, replyVars, onboardVars, auditVars, validatorVars, viewVars,
                       bubbleVars>>
     \/ running = "summaries" /\ SummariesNext
        /\ UNCHANGED <<plannerVars, ipVars, editVars, sectionVars, pageVars, signInVars,
                       profileVars, replyVars, onboardVars, auditVars, validatorVars, viewVars,
                       bubbleVars>>
     \/ running = "profile" /\ ProfileNext
        /\ UNCHANGED <<plannerVars, ipVars, editVars, sectionVars, pageVars, signInVars,
                       summaryVars, replyVars, onboardVars, auditVars, validatorVars, viewVars,
                       bubbleVars>>
     \/ running = "replies" /\ ReplyNext
        /\ UNCHANGED <<plannerVars, ipVars, editVars, sectionVars, pageVars, signInVars,
                       summaryVars, profileVars, onboardVars, auditVars, validatorVars,
                       viewVars, bubbleVars>>
     \/ running = "onboarding" /\ OnboardNext
        /\ UNCHANGED <<plannerVars, ipVars, editVars, sectionVars, pageVars, signInVars,
                       summaryVars, profileVars, replyVars, auditVars, validatorVars, viewVars,
                       bubbleVars>>
     \/ running = "report" /\ AuditNext
        /\ UNCHANGED <<plannerVars, ipVars, editVars, sectionVars, pageVars, signInVars,
                       summaryVars, profileVars, replyVars, onboardVars, validatorVars,
                       viewVars, bubbleVars>>
     \/ running = "validator" /\ ValidatorNext
        /\ UNCHANGED <<plannerVars, ipVars, editVars, sectionVars, pageVars, signInVars,
                       summaryVars, profileVars, replyVars, onboardVars, auditVars, viewVars,
                       bubbleVars>>
     \/ running = "views" /\ ViewsNext
        /\ UNCHANGED <<plannerVars, ipVars, editVars, sectionVars, pageVars, signInVars,
                       summaryVars, profileVars, replyVars, onboardVars, auditVars,
                       validatorVars, bubbleVars>>
     \/ running = "bubbles" /\ BubblesNext
        /\ UNCHANGED <<plannerVars, ipVars, editVars, sectionVars, pageVars, signInVars,
                       summaryVars, profileVars, replyVars, onboardVars, auditVars,
                       validatorVars, viewVars>>
=============================================================================
