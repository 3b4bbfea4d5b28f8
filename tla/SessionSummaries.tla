-------------------------- MODULE SessionSummaries --------------------------
(***************************************************************************)
(* The rolling window of session summaries of one student:                  *)
(*   lib/db/sessionStorePostgres.ts   get, appendSummary, trim              *)
(*   packages/engine persistence/sessionStore.ts   the other two stores     *)
(* The end of every turn appends a summary; turns overlap (two tabs), and    *)
(* the statements of one append interleave with those of another: the        *)
(* insert, the update of last_session_date, the select of the ids to keep    *)
(* and the delete of all others. A delete of the account falls between any   *)
(* two of them. A summary is the id of its row, ids grow.                    *)
(***************************************************************************)
EXTENDS Integers, FiniteSets

CONSTANTS
  Turns,          \* turns that end at about the same time
  MaxSummaries,   \* MAX_SESSION_SUMMARIES
  MaxIds,         \* bound: summaries written
  Durable         \* Postgres, or the in-memory and the file-backed store

ASSUME SummariesAssumption ==
  /\ MaxSummaries \in Nat \ {0}
  /\ MaxIds \in Nat
  /\ Durable \in BOOLEAN

VARIABLES
  summaries,   \* ids of the stored rows
  lastId,      \* the serial of session_summaries
  step,        \* per turn: where its appendSummary is
  keep,        \* per turn: the ids its trim() selected
  context,     \* per turn: what get() read when the turn began
  account,     \* whether the student's row exists
  written,     \* history: ids stored since the account was last deleted
  raced        \* history: of these, the ones stored while a trim() was under way

summaryVars == <<summaries, lastId, step, keep, context, account, written, raced>>

SummariesInit ==
  /\ summaries = {}
  /\ lastId = 0
  /\ step = [t \in Turns |-> "idle"]
  /\ keep = [t \in Turns |-> {}]
  /\ context = [t \in Turns |-> {}]
  /\ account = FALSE
  /\ written = {}
  /\ raced = {}

\* The n largest, and the n smallest, members of a set of ids.
Newest(n, ids) == {i \in ids : Cardinality({j \in ids : j > i}) < n}
Oldest(n, ids) == {i \in ids : Cardinality({j \in ids : j < i}) < n}

\* get(): the first 4 * MAX rows in the order of their ids, then the last MAX of
\* these. The other stores keep no more than MAX.
Recent(ids) == IF Durable THEN Newest(MaxSummaries, Oldest(4 * MaxSummaries, ids)) ELSE Newest(MaxSummaries, ids)

Move(t, from, to) == step[t] = from /\ step' = [step EXCEPT ![t] = to]

\* A turn begins: the chat route reads the summaries into its prompt.
TurnBegins(t) ==
  /\ Move(t, "idle", "answering")
  /\ context' = [context EXCEPT ![t] = Recent(summaries)]
  /\ UNCHANGED <<summaries, lastId, keep, account, written, raced>>

\* appendSummary: ensureStudentRow creates the student again if need be. The other
\* stores append and trim in one go.
EnsureStudent(t) ==
  /\ Durable
  /\ Move(t, "answering", "ensured")
  /\ account' = TRUE
  /\ UNCHANGED <<summaries, lastId, keep, context, written, raced>>

InsertSummary(t) ==
  /\ lastId < MaxIds
  /\ lastId' = lastId + 1
  /\ IF Durable
     THEN IF account
          THEN /\ Move(t, "ensured", "inserted")
               /\ summaries' = summaries \union {lastId + 1}
               /\ written' = written \union {lastId + 1}
               /\ raced' = IF \E u \in Turns : step[u] = "selected" THEN raced \union {lastId + 1} ELSE raced
          ELSE /\ Move(t, "ensured", "idle")   \* the foreign key refuses the row
               /\ UNCHANGED <<summaries, written, raced>>
     ELSE /\ Move(t, "answering", "idle")
          /\ summaries' = Newest(MaxSummaries, summaries \union {lastId + 1})
          /\ written' = written \union {lastId + 1}
          /\ UNCHANGED raced
  /\ UNCHANGED <<keep, context, account>>

\* trim() with the rows sorted the other way round.
KeptIdsOldest(ids) == Oldest(MaxSummaries, ids)

KeptIds(ids) == Newest(MaxSummaries, ids)

TrimSelects(t) ==
  /\ IF KeptIds(summaries) = {} THEN Move(t, "inserted", "idle") ELSE Move(t, "inserted", "selected")
  /\ keep' = [keep EXCEPT ![t] = KeptIds(summaries)]
  /\ UNCHANGED <<summaries, lastId, context, account, written, raced>>

\* The delete takes everything that was not selected, rows inserted since included.
TrimDeletes(t) ==
  /\ Move(t, "selected", "idle")
  /\ summaries' = summaries \intersect keep[t]
  /\ UNCHANGED <<lastId, keep, context, account, written, raced>>

\* A statement fails: the route logs it and the turn ends without the rest.
AppendFails(t) ==
  /\ step[t] # "idle"
  /\ step' = [step EXCEPT ![t] = "idle"]
  /\ UNCHANGED <<summaries, lastId, keep, context, account, written, raced>>

\* /api/session/delete and /api/session/clear: one transaction.
AccountDeleted ==
  /\ summaries' = {}
  /\ account' = FALSE
  /\ written' = {}
  /\ raced' = {}
  /\ UNCHANGED <<lastId, step, keep, context>>

SummariesNext ==
  \/ \E t \in Turns : \/ TurnBegins(t)
                      \/ EnsureStudent(t)
                      \/ InsertSummary(t)
                      \/ TrimSelects(t)
                      \/ TrimDeletes(t)
                      \/ AppendFails(t)
  \/ AccountDeleted

SummariesSpec == SummariesInit /\ [][SummariesNext]_summaryVars

-----------------------------------------------------------------------------
SummariesTypeOK ==
  /\ summaries \subseteq 1..lastId
  /\ lastId \in Nat
  /\ step \in [Turns -> {"idle", "answering", "ensured", "inserted", "selected"}]
  /\ \A t \in Turns : keep[t] \subseteq 1..lastId /\ context[t] \subseteq 1..lastId
  /\ account \in BOOLEAN
  /\ written \subseteq 1..lastId
  /\ raced \subseteq written

\* The newest MaxSummaries summaries of the account are stored, whichever
\* statements fail, however turns overlap and whenever the account is deleted and
\* made anew, but for those that were stored between the two statements of
\* another turn's trim() (sessionStorePostgres.ts:86-100).
WindowHoldsTheNewest == Newest(MaxSummaries, written) \ raced \subseteq summaries
=============================================================================
