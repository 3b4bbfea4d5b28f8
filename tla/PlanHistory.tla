---------------------------- MODULE PlanHistory ----------------------------
(***************************************************************************)
(* PlanLifecycle watched by history variables, to say what overlapping     *)
(* requests may do to the stored record and what they may not.  Nothing on *)
(* the server serialises the requests of a student: a request that read    *)
(* the preferences writes them back many steps later (persistPreferences   *)
(* replaces the whole row), and one that outlives the deletion of the      *)
(* account goes on writing.                                                *)
(***************************************************************************)
EXTENDS PlanLifecycle

VARIABLES
    since,        \* since[r]: what happened while r's request was in flight
    overwritten   \* edits taken out by a request that had not seen them

watchVars == <<vars, since, overwritten>>

\* lone: no other request was in flight with it; faults: the failures before
\* it began; outlived: it was in flight when the account was deleted; unseen:
\* the edits its copy of the preferences may lack.
Unwatched == [lone |-> FALSE, faults |-> 0, outlived |-> FALSE, unseen |-> {}]

Watch == [lone : BOOLEAN, faults : Nat, outlived : BOOLEAN, unseen : SUBSET Proposals]

-----------------------------------------------------------------------------
(* What a step of PlanLifecycle was.                                       *)

Begins(r) == req[r].pc = "idle" /\ req'[r].pc # "idle"
Failed == faults' # faults
Deletes == student /\ ~student'

\* The step that reads the preferences, or gives up reading them.
ReadsPrefs(r) ==
    /\ req'[r] # req[r]
    /\ \/ At(r, "confirm", "solve")
       \/ At(r, "turn", "load") \/ At(r, "turn", "loadPrefs")
       \/ At(r, "refresh", "pruneRead")

\* The step that replaces them.
WritesPrefs(r) ==
    /\ req'[r] # req[r]
    /\ Writer(r) /\ req[r].pc = "prefsWrite"
    /\ student /\ ~Failed

Writers == {r \in Requests : WritesPrefs(r)}
JustWritten(W) == UNION {req[q].prefs : q \in W}

LoneAfter(r) ==
    IF Begins(r) THEN \A q \in Requests \ {r} : req[q].pc = "idle"
    ELSE since[r].lone /\ ~Deletes /\ ~\E q \in Requests : Begins(q)

UnseenAfter(r) ==
    CASE Begins(r) -> {}
      [] ~Begins(r) /\ ReadsPrefs(r) -> IF Failed THEN Proposals ELSE {}
      [] ~Begins(r) /\ ~ReadsPrefs(r) -> since[r].unseen \cup JustWritten(Writers \ {r})

WatchedAfter(r) ==
    IF req'[r].pc = "idle" THEN Unwatched
    ELSE [lone |-> LoneAfter(r),
          faults |-> IF Begins(r) THEN faults ELSE since[r].faults,
          outlived |-> since[r].outlived \/ Deletes,
          unseen |-> UnseenAfter(r)]

OverwrittenAfter ==
    IF Deletes THEN {}
    ELSE (overwritten \cup UNION {kept \cap since[r].unseen : r \in Writers})
            \ JustWritten(Writers)

HistoryInit ==
    /\ Init
    /\ since = [r \in Requests |-> Unwatched]
    /\ overwritten = {}

HistoryNext ==
    /\ Next
    /\ since' = [r \in Requests |-> WatchedAfter(r)]
    /\ overwritten' = OverwrittenAfter

HistorySpec == HistoryInit /\ [][HistoryNext]_watchVars

FairHistorySpec == HistorySpec /\ \A r \in Requests : WF_vars(Step(r))

-----------------------------------------------------------------------------
(* Properties.                                                             *)

\* An edit whose confirm stored the preferences stays in them, through any
\* number of overlapping confirms, turns and refreshes, failing reads and
\* writes and crashes, until a new DPR shows its course as completed or the
\* account is deleted; it is lost in one way only: a request whose copy of
\* the preferences was read before the edit was stored, or could not be read,
\* replaces them (persistPreferences has no version to compare).
ConfirmedEditsSurvive == kept \subseteq prefs \cup overwritten

\* What a request has written by the time it answers.
StoredAPlan(r) ==
    /\ req[r].pc = "done"
    /\ \/ req[r].op = "confirm" /\ req[r].res = "applied"
       \/ req[r].op = "turn" /\ req[r].plan # NoPlan
       \/ req[r].op = "refresh" /\ req[r].res = "changed"

Undisturbed(r) == since[r].lone /\ since[r].faults = faults

\* Whatever overlapping writers, failures and crashes have left behind (two
\* live plans, a plan of another report, preferences that lack an edit), one
\* request that stores a plan with nobody else in flight and no failure of its
\* own makes the record whole: one live plan ("the latest non-superseded row
\* is the live plan"), computed from a report with the fingerprint of the
\* stored one, for a turn if the page sent the stored one, and from the stored
\* preferences, apart from edits that a turn had refused.
LoneWriterRestoresRecord ==
    \A r \in Requests :
        Undisturbed(r) /\ StoredAPlan(r) =>
            /\ Cardinality(rows) = 1
            /\ (req[r].op = "turn" => req[r].dpr = dpr) => Fp[LatestPlan.dpr] = Fp[dpr]
            /\ LatestPlan.prefs \ refused = prefs \ refused

\* A plan, preferences or a proposal that was not there.
Refills == rows' \ rows # {} \/ prefs' \ prefs # {} \/ pending' \ pending # {}

\* The turn whose bootstrap failed goes on with the report of the page.
MayHaveFailedToBootstrap(r) == req[r].op = "turn" /\ since[r].faults # faults

\* A confirm that finds no report puts back the proposal it took.
PutsBack(r) == At(r, "confirm", "restage") /\ UNCHANGED <<rows, prefs>>

\* An account without a report (deleted, perhaps signed in to again since) gets
\* a plan, preferences or a new proposal from no request that began after the
\* deletion: only from one that was in flight when the account was deleted, or
\* from a turn whose bootstrap failed.
OnlyTheOutlivedRefill ==
    [][~HasDpr /\ Refills =>
          \E r \in Requests :
              /\ req'[r] # req[r]
              /\ since[r].outlived \/ MayHaveFailedToBootstrap(r) \/ PutsBack(r)]_watchVars
=============================================================================
