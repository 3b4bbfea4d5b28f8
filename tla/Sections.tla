------------------------------ MODULE Sections ------------------------------
(***************************************************************************)
(* From the courses planned in one term to class sections that fit         *)
(* together: the class search and its cache, the availability gate, the    *)
(* scheduling preferences, the enumeration and ranking of conflict-free    *)
(* combinations, their staging in the session of a turn, and the confirm   *)
(* that binds one.  The courses are searched one after the other, each     *)
(* search is awaited, and the cache is that of the whole process: time     *)
(* passes and others search between two of them.                           *)
(*                                                                         *)
(* A raw row of the listing is [crn, code, status, meets], where meets is  *)
(* [kind |-> "ok", patterns], [kind |-> "asynchronous"] or [kind |->       *)
(* "unparseable"]; a pattern is [day, start, finish] in minutes.           *)
(***************************************************************************)
EXTENDS FiniteSets, Lists

CONSTANTS
  Listings,      \* what the class search may show: course -> sequence of rows
  TermPlans,     \* the term in a plan: [courses (a sequence), locked, exists]
  SchedPrefs,    \* scheduling preferences a student may have
  Elsewhere,     \* courses that other sessions search
  Weekdays,      \* the weekdays, in order
  Ttl,           \* lifetime of a cached search
  MaxClock,      \* bound on the clock
  Cap            \* MAX_COMBINATIONS

ASSUME SectionsAssumption ==
  /\ Ttl \in Nat \ {0} /\ MaxClock \in Nat /\ Cap \in Nat \ {0}
  /\ IsList(Weekdays) /\ Weekdays # <<>>
  /\ \A l \in Listings : \A c \in DOMAIN l : IsList(l[c])
  /\ \A p \in TermPlans : IsList(p.courses)

VARIABLES
  listing,       \* what the class search shows, at each time so far
  cache,         \* SHARED_FOSE_CACHE: course -> [rows, expiresAt]
  termPlan,      \* the term in session.forwardSchedule
  boundTo,       \* the section each planned course is bound to
  schedPrefs,    \* the scheduling preferences
  call,          \* the materialization under way: when it began, the answers it has
                 \* so far, and whether it awaits the next one
  pending,       \* session.pendingMaterializations, with the preferences, the courses
                 \* and the beginning of the call that staged them
  outcome        \* what the last tool call of the agent answered

sectionVars == <<listing, cache, termPlan, boundTo, schedPrefs, call, pending, outcome>>

Clock == Len(listing)
NoBinding == "unbound"

-----------------------------------------------------------------------------
(* The search and its cache.                                               *)

\* A live entry; an expired one is evicted by the read that finds it.
CacheGet(c) ==
  IF c \in DOMAIN cache /\ Clock < cache[c].expiresAt THEN {cache[c].rows} ELSE {}

Listed(c, t) == IF c \in DOMAIN listing[t] THEN listing[t][c] ELSE <<>>

\* The cache keeps an answer whole, the rows of other courses and the empty
\* answer included.
CacheSet(c, rows) ==
  [x \in DOMAIN cache \cup {c} |->
     IF x = c THEN [rows |-> rows, expiresAt |-> Clock + Ttl] ELSE cache[x]]

\* The keyword search answers more than the course asked for.
Of(c, rows) == Filter(rows, {r \in ToSet(rows) : r.code = c})
Patterns(s) == IF s.meets.kind = "ok" THEN s.meets.patterns ELSE {}
IsOpenStatus(s) == s.status \in {"O", "W"}

ClassifyAvailability(rows) ==
  LET readable == {i \in DOMAIN rows : rows[i].meets.kind \in {"ok", "asynchronous"}}
  IN CASE rows = <<>> -> "unavailable"
       [] rows # <<>> /\ 2 * Cardinality(readable) >= Len(rows) -> "full"
       [] OTHER -> "partial"

-----------------------------------------------------------------------------
(* Scheduling preferences.                                                 *)

Overlap(s1, e1, s2, e2) == s1 < e2 /\ s2 < e1
MeetsOnDay(s, day) == \E p \in Patterns(s) : p.day = day
InTimeWindow(s, w) ==
  \E p \in Patterns(s) : p.day \in w.days /\ Overlap(p.start, p.finish, w.start, w.finish)

\* Meetings of one day that touch each other, at least two, over three hours.
HasLongBlock(s) ==
  \E ps \in SUBSET Patterns(s) :
    /\ Cardinality(ps) >= 2
    /\ Cardinality({p.day : p \in ps}) = 1
    /\ LET first == Min({p.start : p \in ps})
       IN /\ \A p \in ps : p.start = first \/ \E q \in ps \ {p} : q.start <= p.start /\ p.start <= q.finish
          /\ Max({p.finish : p \in ps}) - first >= 180

NoWish == [avoidDay |-> "none", avoidDayStrict |-> FALSE, avoid |-> {}, avoidStrict |-> FALSE,
           prefer |-> {}, weight |-> 0, freeDay |-> "none", freeStrict |-> FALSE, longBlocks |-> FALSE]

\* A free day of the student's choice, or the weekday the fewest sections
\* meet on, the first of those.
ResolveFreeDay(sections, w) ==
  LET count(d) == Cardinality({i \in DOMAIN sections : MeetsOnDay(sections[i], d)})
      least == {i \in DOMAIN Weekdays : \A j \in DOMAIN Weekdays : count(Weekdays[i]) <= count(Weekdays[j])}
  IN IF w.freeDay = "any" THEN Weekdays[Min(least)] ELSE w.freeDay

StrictlyEliminated(s, w, freeDay) ==
  \/ w.avoidDayStrict /\ MeetsOnDay(s, w.avoidDay)
  \/ w.avoidStrict /\ \E x \in w.avoid : InTimeWindow(s, x)
  \/ w.freeStrict /\ MeetsOnDay(s, freeDay)

\* In tenths, one factor for each kind of wish.
SoftMultiplier(s, w) ==
  LET days == IF ~w.avoidDayStrict /\ MeetsOnDay(s, w.avoidDay) THEN 7 ELSE 10
      windows == IF ~w.avoidStrict /\ \E x \in w.avoid : InTimeWindow(s, x) THEN 7 ELSE 10
      wished == IF \E x \in w.prefer : InTimeWindow(s, x) THEN 10 + w.weight \div 2 ELSE 10
      long == IF w.longBlocks /\ HasLongBlock(s) THEN 7 ELSE 10
  IN days * windows * wished * long

Surviving(sections, w) ==
  LET freeDay == ResolveFreeDay(sections, w)
  IN Filter(sections, {s \in ToSet(sections) : ~StrictlyEliminated(s, w, freeDay)})

-----------------------------------------------------------------------------
(* Combinations.                                                           *)

Conflicts(s, x) ==
  \E p \in Patterns(s), q \in Patterns(x) :
    p.day = q.day /\ Overlap(p.start, p.finish, q.start, q.finish)

\* All the choices of one section per bundle, in the order of a depth-first
\* walk.
AllPicks(bundles) ==
  LET picks[i \in 0..Len(bundles)] ==
        IF i = 0 THEN << <<>> >>
        ELSE FlattenSeq([j \in DOMAIN picks[i - 1] |->
               [k \in DOMAIN bundles[i] |-> Append(picks[i - 1][j], bundles[i][k])]])
  IN picks[Len(bundles)]

ConflictFreeCourses(pick) == \A i, j \in DOMAIN pick : i < j => pick[i].code # pick[j].code

ConflictFree(pick) ==
  \A i, j \in DOMAIN pick : i < j => ~Conflicts(pick[i], pick[j])

\* The walk stops at the cap, and says so unless the capped pick was its last.
Combinations(bundles) ==
  LET all == IF bundles = <<>> THEN <<>> ELSE AllPicks(bundles)
      free == Filter(all, {pick \in ToSet(all) : ConflictFree(pick)})
      out == SubSeq(free, 1, Min({Cap, Len(free)}))
  IN [combos |-> out,
      truncated |-> Len(out) = Cap /\ out[Cap] # all[Len(all)]]

Score(pick, w) ==
  LET product[i \in 0..Len(pick)] ==
        IF i = 0 THEN 1 ELSE product[i - 1] * SoftMultiplier(pick[i], w)
  IN product[Len(pick)]

\* Best first; equal scores keep the order of the walk.
Ranked(combos, w) ==
  StableSort(combos, {p \in ToSet(combos) \X ToSet(combos) : Score(p[1], w) > Score(p[2], w)})

\* What materializeSections makes of the answers for the courses of the term,
\* with the swap hook of the tool, which offers no alternative.
MaterializeSections(courses, answers, w) ==
  LET rows == FlattenSeq([i \in DOMAIN courses |-> Of(courses[i], answers[i])])
      open == Filter(rows, {s \in ToSet(rows) : IsOpenStatus(s)})
      surviving == Surviving(open, w)
      kept == Filter(courses, {c \in ToSet(courses) : Of(c, surviving) # <<>>})
      found == Combinations([i \in DOMAIN kept |-> Of(kept[i], surviving)])
      blocked == {c \in ToSet(courses) \ ToSet(kept) : Of(c, open) # <<>>}
      state == ClassifyAvailability(rows)
  IN [state |-> state,
      combos |-> IF state = "full" THEN Ranked(found.combos, w) ELSE <<>>,
      truncated |-> state = "full" /\ found.truncated,
      check |-> CASE state # "full" \/ w = NoWish -> "absent"
                  [] state = "full" /\ w # NoWish /\ blocked # {} -> "violated"
                  [] OTHER -> "satisfied"]

-----------------------------------------------------------------------------
(* The two tools, in the turn of a chat.                                   *)

NoCall == [began |-> 0, answers |-> <<>>, waits |-> FALSE]
Calling == call.began > 0

SectionsInit ==
  /\ listing \in {<<l>> : l \in Listings}
  /\ cache = <<>>
  /\ termPlan \in TermPlans
  /\ boundTo = [c \in ToSet(termPlan.courses) |-> NoBinding]
  /\ schedPrefs \in SchedPrefs
  /\ call = NoCall
  /\ pending = <<>>
  /\ outcome = [state |-> "none"]

Tick ==
  /\ Clock < MaxClock
  /\ \E l \in Listings : listing' = Append(listing, l)
  /\ UNCHANGED <<cache, termPlan, boundTo, schedPrefs, call, pending, outcome>>

\* A search of another session is answered.
SearchedElsewhere(c) ==
  /\ cache' = CacheSet(c, Listed(c, Clock))
  /\ UNCHANGED <<listing, termPlan, boundTo, schedPrefs, call, pending, outcome>>

\* The agent solves the plan again, perhaps with other preferences: slots
\* are new and carry no section; what was staged stays staged.
Replan ==
  /\ ~Calling
  /\ termPlan' \in TermPlans /\ schedPrefs' \in SchedPrefs
  /\ boundTo' = [c \in ToSet(termPlan'.courses) |-> NoBinding]
  /\ outcome' = [state |-> "none"]
  /\ UNCHANGED <<listing, cache, call, pending>>

\* A term that is not in the plan or locked is refused, one without a course
\* answered at once; else the search begins.  A turn runs one tool at a time.
MaterializeTerm ==
  /\ ~Calling /\ termPlan.exists /\ ~termPlan.locked
  /\ IF termPlan.courses = <<>>
     THEN outcome' = [state |-> "unavailable"] /\ UNCHANGED call
     ELSE call' = [NoCall EXCEPT !.began = Clock] /\ outcome' = [state |-> "none"]
  /\ UNCHANGED <<listing, cache, termPlan, boundTo, schedPrefs, pending>>

NextCourse == termPlan.courses[Len(call.answers) + 1]

\* A cached answer, or a request.
FetchCourse ==
  /\ Calling /\ ~call.waits /\ Len(call.answers) < Len(termPlan.courses)
  /\ call' = IF CacheGet(NextCourse) = {} THEN [call EXCEPT !.waits = TRUE]
             ELSE [call EXCEPT !.answers = Append(@, cache[NextCourse].rows)]
  /\ UNCHANGED <<listing, cache, termPlan, boundTo, schedPrefs, pending, outcome>>

SearchAnswers ==
  /\ Calling /\ call.waits
  /\ call' = [call EXCEPT !.answers = Append(@, Listed(NextCourse, Clock)), !.waits = FALSE]
  /\ cache' = CacheSet(NextCourse, Listed(NextCourse, Clock))
  /\ UNCHANGED <<listing, termPlan, boundTo, schedPrefs, pending, outcome>>

\* The tool throws; what was answered before is cached.
SearchFails ==
  /\ Calling /\ call.waits
  /\ call' = NoCall /\ outcome' = [state |-> "error"]
  /\ UNCHANGED <<listing, cache, termPlan, boundTo, schedPrefs, pending>>

\* The ids of a call are its ranks: they overwrite those of an earlier call,
\* and the earlier ones beyond them stay.
StageCombinations ==
  /\ Calling /\ ~call.waits /\ Len(call.answers) = Len(termPlan.courses)
  /\ LET result == MaterializeSections(termPlan.courses, call.answers, schedPrefs)
         staged == [i \in DOMAIN result.combos |->
                      [sections |-> result.combos[i], wish |-> schedPrefs,
                       courses |-> termPlan.courses, began |-> call.began]]
     IN outcome' = result /\ pending' = Spread(staged, pending)
  /\ call' = NoCall
  /\ UNCHANGED <<listing, cache, termPlan, boundTo, schedPrefs>>

\* An id is confirmed once.  Its sections are bound to the courses the term
\* now has; the others are passed over.
ConfirmCombination(id) ==
  /\ ~Calling /\ id \in DOMAIN pending
  /\ pending' = [i \in DOMAIN pending \ {id} |-> pending[i]]
  /\ boundTo' = [c \in DOMAIN boundTo |->
       LET own == {s \in ToSet(pending[id].sections) : s.code = c}
       IN IF termPlan.exists /\ own # {} THEN (CHOOSE s \in own : TRUE).crn ELSE boundTo[c]]
  /\ outcome' = [state |-> "applied"]
  /\ UNCHANGED <<listing, cache, termPlan, schedPrefs, call>>

\* The session of a turn is gone with it; the next one loads the stored
\* plan, whose slots carry no section.
EndTurn ==
  /\ ~Calling /\ pending' = <<>>
  /\ boundTo' = [c \in DOMAIN boundTo |-> NoBinding]
  /\ outcome' = [state |-> "none"]
  /\ UNCHANGED <<listing, cache, termPlan, schedPrefs, call>>

SectionsNext ==
  \/ Tick \/ Replan \/ EndTurn
  \/ \E c \in Elsewhere : SearchedElsewhere(c)
  \/ MaterializeTerm \/ FetchCourse \/ SearchAnswers \/ SearchFails \/ StageCombinations
  \/ \E id \in 1..Cap : ConfirmCombination(id)

SectionsSpec == SectionsInit /\ [][SectionsNext]_sectionVars

-----------------------------------------------------------------------------
(* Properties.                                                             *)

\* Of one staged combination.
Attendable(p) ==
  LET ss == p.sections
  IN /\ \A i \in DOMAIN ss : ss[i].code \in ToSet(p.courses)
     /\ \A i, j \in DOMAIN ss : i # j =>
          /\ ~Conflicts(ss[i], ss[j])
          /\ IsInjective(p.courses) => ss[i].code # ss[j].code
     /\ \A i \in DOMAIN ss :
          /\ IsOpenStatus(ss[i])
          /\ ~(p.wish.avoidDayStrict /\ MeetsOnDay(ss[i], p.wish.avoidDay))
          /\ ~(p.wish.avoidStrict /\ \E x \in p.wish.avoid : InTimeWindow(ss[i], x))
     /\ p.wish.freeStrict =>
          \E d \in (IF p.wish.freeDay = "any" THEN ToSet(Weekdays) ELSE {p.wish.freeDay}) :
            \A i \in DOMAIN ss : ~MeetsOnDay(ss[i], d)
     /\ \A i \in DOMAIN ss : \E t \in 1..Clock :
          /\ p.began < t + Ttl
          /\ ss[i] \in ToSet(Listed(ss[i].code, t))

\* Every staged combination can be attended and was wished for: sections of
\* the courses of the term, two of one course only if the term lists that
\* course twice (the search may place it for two requirements), no two of them
\* at the same time, all open to registration, none that a strict preference
\* of its staging forbids; and under a strict free day, of the student's choice
\* or any, they leave one weekday in common free.  All of it as far as the
\* meeting times could be read.  Each section was listed, as it is, up to the
\* staging and less than the lifetime of the cache before the call began: the
\* searches of a call are awaited one by one, so an answer may be older than
\* that lifetime when it is staged, but only by the time the call itself took,
\* whoever else filled the cache.
ProposalsAreAttendable == \A id \in DOMAIN pending : Attendable(pending[id])
=============================================================================
