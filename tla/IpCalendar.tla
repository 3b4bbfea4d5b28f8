----------------------------- MODULE IpCalendar -----------------------------
(***************************************************************************)
(* Whether a course in progress can still be changed, as the days go by.   *)
(* The report of the student (its rows in progress) does not change; the   *)
(* wall clock does, and with it the term in session, the term the student  *)
(* is taken to be enrolled in, and the window of every row: dropped        *)
(* freely, withdrawn, or closed.                                           *)
(*                                                                         *)
(* A term is [year, season]; a moment is [year, day, time], the day of the  *)
(* year month * 100 + day, the time its minute, all of them in UTC.         *)
(***************************************************************************)
EXTENDS Integers, Sequences, FiniteSets, SequencesExt

CONSTANTS
  Schools,      \* home schools of students
  RowSets,      \* sets of terms: the terms of a report's rows in progress
  Days          \* the moments of the run, in order: [year, day, time]

VARIABLES
  school,       \* the home school of the student
  ipRows,       \* the terms of the rows in progress
  today         \* index into Days

ipVars == <<school, ipRows, today>>

SeasonOrder == <<"Spring", "Summer", "Fall", "Winter", "January">>
Rank(season) == CHOOSE i \in DOMAIN SeasonOrder : SeasonOrder[i] = season

Seasons == Range(SeasonOrder)

NoLater(d, e) ==
  \/ d.year < e.year
  \/ d.year = e.year /\ d.day < e.day
  \/ d.year = e.year /\ d.day = e.day /\ d.time <= e.time

\* The parser knows no other seasons; the moments go by in order.
ASSUME DaysAssumption ==
  /\ \A terms \in RowSets : terms \subseteq [year : Nat, season : Seasons]
  /\ Days \in Seq([year : Nat, day : 101..1231, time : 0..1439])
  /\ \A i, j \in DOMAIN Days : i < j => NoLater(Days[i], Days[j])

NoDate == 9999

\* Typical deadlines: add/drop and withdrawal by campus and season.
Deadlines == [
  ny       |-> [Fall    |-> [addDrop |-> 915, withdraw |-> 1126],
                Spring  |-> [addDrop |-> 204, withdraw |-> 403],
                Summer  |-> [addDrop |-> 602, withdraw |-> 715],
                January |-> [addDrop |-> 106, withdraw |-> 115]],
  shanghai |-> [Fall    |-> [addDrop |-> 911, withdraw |-> 1124],
                Spring  |-> [addDrop |-> 129, withdraw |-> NoDate],
                Summer  |-> [addDrop |-> NoDate, withdraw |-> NoDate],
                January |-> [addDrop |-> NoDate, withdraw |-> NoDate]],
  abudhabi |-> [Fall    |-> [addDrop |-> 908, withdraw |-> 1107],
                Spring  |-> [addDrop |-> 202, withdraw |-> 424],
                Summer  |-> [addDrop |-> NoDate, withdraw |-> NoDate],
                January |-> [addDrop |-> NoDate, withdraw |-> NoDate]]]

CampusOf(homeSchool) ==
  CASE homeSchool = "shanghai" -> "shanghai"
    [] homeSchool \in {"nyuad", "abudhabi", "abu_dhabi"} -> "abudhabi"
    [] OTHER -> "ny"

\* A literal winter term is known to the report's parser but has no calendar.
SeasonOfTerm(term) == IF term.season = "Winter" THEN "none" ELSE term.season

Earlier(s, t) ==
  \/ s.year < t.year
  \/ s.year = t.year /\ Rank(s.season) < Rank(t.season)

TermInSession(d) ==
  LET month == d.day \div 100
  IN [year |-> d.year,
      season |-> CASE month \in 1..5 -> "Spring"
                   [] month \in 6..7 -> "Summer"
                   [] OTHER -> "Fall"]

\* The term taken for the one the student is enrolled in: the one in session,
\* else the next one, else the last one.
PickCurrentFromIP(terms, clock) ==
  LET future == {t \in terms : ~Earlier(t, clock)}
  IN IF clock \in terms THEN clock
     ELSE IF future # {}
          THEN CHOOSE t \in future : \A u \in future : u = t \/ Earlier(t, u)
          ELSE CHOOSE t \in terms : \A u \in terms : u = t \/ Earlier(u, t)

\* enrolledNowTerm and preRegisteredTerms of the report's temporal context.
TemporalContext(terms, clock) ==
  IF terms = {} THEN [enrolledNow |-> clock, preRegistered |-> {}]
  ELSE LET enrolled == PickCurrentFromIP(terms, clock)
       IN [enrolledNow |-> enrolled,
           preRegistered |-> {t \in terms \ {enrolled} : Earlier(clock, t)}]

NotAfterInAnyYear(d, year, monthDay) == d.day <= monthDay

\* A deadline falls in the calendar year the term is named after, and is over
\* with the first instant of its day.
NotAfter(d, year, monthDay) == NoLater(d, [year |-> year, day |-> monthDay, time |-> 0])

\* The window of a row whose term is the one the student is enrolled in.
CurrentWindow(d, campus, term) ==
  LET season == SeasonOfTerm(term)
      addDrop == Deadlines[campus][season].addDrop
      withdraw == Deadlines[campus][season].withdraw
  IN CASE season = "none" -> "unknown"
       [] season # "none" /\ addDrop = NoDate /\ withdraw = NoDate -> "unknown"
       [] season # "none" /\ addDrop # NoDate /\ NotAfter(d, term.year, addDrop) -> "add_drop"
       [] season # "none" /\ withdraw # NoDate /\ NotAfter(d, term.year, withdraw)
            /\ ~(addDrop # NoDate /\ NotAfter(d, term.year, addDrop)) -> "withdraw_pf"
       [] season # "none" /\ addDrop # NoDate /\ withdraw = NoDate
            /\ ~NotAfter(d, term.year, addDrop) -> "unknown"
       [] OTHER -> "closed"

ClassifyIpChangeability(d, campus, terms, term) ==
  LET ctx == TemporalContext(terms, TermInSession(d))
  IN CASE term \in ctx.preRegistered -> "future"
       [] term \notin ctx.preRegistered /\ term = ctx.enrolledNow ->
            CurrentWindow(d, campus, term)
       [] OTHER -> "closed"

\* What the schedule offers to do with a course, by its slot and its window.
SlotActions(kind, window, canElect) ==
  CASE kind = "completed" -> {}
    [] kind = "in_progress" ->
         (IF window = "closed" THEN {} ELSE {"drop"})
           \cup (IF window \in {"withdraw_pf", "unknown", "future"} THEN {"withdraw"} ELSE {})
           \cup (IF window \in {"withdraw_pf", "unknown", "future"} /\ canElect
                 THEN {"passFail"} ELSE {})
    [] OTHER -> {"drop"}

WindowOf(i, term) ==
  ClassifyIpChangeability(Days[i], CampusOf(school), ipRows, term)

-----------------------------------------------------------------------------
IpInit ==
  /\ school \in Schools
  /\ ipRows \in RowSets
  /\ today = 1

NextDay ==
  /\ today < Len(Days)
  /\ today' = today + 1
  /\ UNCHANGED <<school, ipRows>>

IpNext == NextDay

IpSpec == IpInit /\ [][IpNext]_ipVars

-----------------------------------------------------------------------------
Order == [future |-> 0, add_drop |-> 1, withdraw_pf |-> 2, unknown |-> 2, closed |-> 3]

\* As the days pass the window of a row in progress only narrows, whatever
\* other rows the report has and whichever of them is taken for the current
\* term: the student who was told that nothing can be done any more is not
\* offered a drop, a withdrawal or pass/fail later
\* (ipCourseChangeability.ts:246-341 over temporalContext.ts:116-216).
WindowNeverReopens ==
  [][\A term \in ipRows :
       LET before == WindowOf(today, term)
           after == WindowOf(today', term)
       IN /\ Order[before] <= Order[after]
          /\ SlotActions("in_progress", before, TRUE) = {}
               => SlotActions("in_progress", after, TRUE) = {}]_ipVars
=============================================================================
