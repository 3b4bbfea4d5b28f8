------------------------ MODULE PendingMutationStore ------------------------
(***************************************************************************)
(* The staging area of proposals, lib/db/pendingMutationStore.ts, in its   *)
(* two implementations: the table pending_mutations, used by several       *)
(* server instances at once, and the Map of one process.  Around it, the   *)
(* requests of planActionOrchestrator.ts that stage a proposal, take it,   *)
(* and put it back when the confirm failed.                                *)
(*                                                                         *)
(* Each SQL statement is one step; a method of the Map is one step.  This  *)
(* refines the set "pending" of PlanLifecycle: tenants, the clock behind   *)
(* the ten minutes, and the statements of stage and take.                  *)
(***************************************************************************)
EXTENDS Naturals, FiniteSets

CONSTANTS
    Students,
    Ids,                \* the pendingMutationIds that can be minted
    Requests,           \* slots for requests in flight
    Backends,           \* subset of {"postgres", "memory"}
    None,
    TTL,                \* PENDING_MUTATION_TTL_MS
    MaxTime             \* bound: the clock stops here

ASSUME Constants ==
    /\ Backends \subseteq {"postgres", "memory"}
    /\ TTL \in Nat
    /\ MaxTime \in Nat
    /\ None \notin Students

VARIABLES
    backend,
    now,                \* Date.now(), the same on every instance
    store,              \* store[id]: its entry, or NoEntry
    req,                \* req[r]: the request in slot r
    born,               \* born[id]: when id was minted, for minted ids
    minted,
    uses                \* uses[id]: how often id was applied

vars == <<backend, now, store, req, born, minted, uses>>

Entry == [owner : Students, created : Nat]
NoEntry == [owner |-> None, created |-> 0]

Idle == [pc |-> "idle", student |-> None, id |-> None, entry |-> NoEntry,
         time |-> 0, res |-> "none"]

Init ==
    /\ backend \in Backends
    /\ now = 0
    /\ store = [id \in Ids |-> NoEntry]
    /\ req = [r \in Requests |-> Idle]
    /\ born = [id \in Ids |-> 0]
    /\ minted = {}
    /\ uses = [id \in Ids |-> 0]

Goto(r, pc) == req' = [req EXCEPT ![r].pc = pc]
Answer(r, res) == req' = [req EXCEPT ![r].pc = "done", ![r].res = res]

-----------------------------------------------------------------------------
(* stage()                                                                 *)

\* A propose request mints an id for its student; createdAt is the time of it.
Propose(r, s, id) ==
    /\ req[r].pc = "idle"
    /\ id \notin minted
    /\ req' = [req EXCEPT ![r] =
                  [Idle EXCEPT !.pc = "sweep", !.student = s, !.id = id,
                               !.entry = [owner |-> s, created |-> now]]]
    /\ minted' = minted \cup {id}
    /\ born' = [born EXCEPT ![id] = now]
    /\ UNCHANGED <<backend, now, store, uses>>

\* Expired at time t: the table drops at the exact millisecond, the Map after.
Expired(e, t) ==
    /\ e # NoEntry
    /\ IF backend = "postgres" THEN e.created + TTL <= t
                               ELSE e.created + TTL < t

Swept(t) == [id \in Ids |-> IF Expired(store[id], t) THEN NoEntry ELSE store[id]]

\* Postgres: sweepExpired(entry.createdAt), then the upsert.
StageSweep(r) ==
    /\ backend = "postgres"
    /\ req[r].pc = "sweep"
    /\ store' = Swept(req[r].entry.created)
    /\ Goto(r, "insert")
    /\ UNCHANGED <<backend, now, born, minted, uses>>

StageInsert(r) ==
    /\ req[r].pc = "insert"
    /\ store' = [store EXCEPT ![req[r].id] = req[r].entry]
    /\ Answer(r, "staged")
    /\ UNCHANGED <<backend, now, born, minted, uses>>

\* The Map does both without an await.
StageInMemory(r) ==
    /\ backend = "memory"
    /\ req[r].pc = "sweep"
    /\ store' = [Swept(req[r].entry.created) EXCEPT ![req[r].id] = req[r].entry]
    /\ Answer(r, "staged")
    /\ UNCHANGED <<backend, now, born, minted, uses>>

-----------------------------------------------------------------------------
(* take()                                                                  *)

\* A confirm request of student s for any id s may have seen.
Confirm(r, s, id) ==
    /\ req[r].pc = "idle"
    /\ id \in minted
    /\ req' = [req EXCEPT ![r] = [Idle EXCEPT !.pc = "take", !.student = s,
                                              !.id = id, !.time = now]]
    /\ UNCHANGED <<backend, now, store, born, minted, uses>>

\* Mutant: the statement matches on the id alone.
MatchesId(r, e) == e # NoEntry

\* The tenant guard: WHERE of the DELETE, the comparison of the Map.
Matches(r, e) == e # NoEntry /\ e.owner = req[r].student

\* Mutant: the proposal is dated from its expiry.
DecodedFromExpiry(e) == [e EXCEPT !.created = e.created + TTL]

\* The entry that a taken row becomes again.
Decoded(e) == e

\* Mutant: the row is read and not deleted.
KeepRow(id) == UNCHANGED store

DeleteRow(id) == store' = [store EXCEPT ![id] = NoEntry]

\* DELETE ... WHERE id AND student RETURNING.  A row that is returned is gone,
\* also when it had expired by the time the request read the clock.
TakeDelete(r) ==
    LET id == req[r].id
        e == store[id]
    IN  /\ backend = "postgres"
        /\ req[r].pc = "take"
        /\ \/ /\ ~Matches(r, e)
              /\ Goto(r, "probe")
              /\ UNCHANGED store
           \/ /\ Matches(r, e) /\ Expired(e, req[r].time)
              /\ DeleteRow(id)
              /\ Answer(r, "not_found")
           \/ /\ Matches(r, e) /\ ~Expired(e, req[r].time)
              /\ DeleteRow(id)
              /\ req' = [req EXCEPT ![r].pc = "held", ![r].entry = Decoded(e)]
        /\ UNCHANGED <<backend, now, born, minted, uses>>

\* The second statement of take(): is the id there at all?
TakeProbe(r) ==
    /\ req[r].pc = "probe"
    /\ Answer(r, IF store[req[r].id] # NoEntry THEN "tenant_mismatch"
                                               ELSE "not_found")
    /\ UNCHANGED <<backend, now, store, born, minted, uses>>

\* The Map: sweep, look up, compare, delete, without an await.
TakeInMemory(r) ==
    LET id == req[r].id
        e == Swept(now)[id]
    IN  /\ backend = "memory"
        /\ req[r].pc = "take"
        /\ \/ /\ e = NoEntry
              /\ store' = Swept(now)
              /\ Answer(r, "not_found")
           \/ /\ e # NoEntry /\ ~Matches(r, e)
              /\ store' = Swept(now)
              /\ Answer(r, "tenant_mismatch")
           \/ /\ Matches(r, e)
              /\ store' = [Swept(now) EXCEPT ![id] = NoEntry]
              /\ req' = [req EXCEPT ![r].pc = "held", ![r].entry = e]
        /\ UNCHANGED <<backend, now, born, minted, uses>>

-----------------------------------------------------------------------------
(* What runConfirmStage does with the entry it owns.                       *)

\* Mutant: the entry goes back although its plan was stored.
ApplyAndRestage(r) ==
    /\ req[r].pc = "held"
    /\ uses' = [uses EXCEPT ![req[r].id] = @ + 1]
    /\ Goto(r, "sweep")
    /\ UNCHANGED <<backend, now, store, born, minted>>

Apply(r) ==
    /\ req[r].pc = "held"
    /\ uses' = [uses EXCEPT ![req[r].id] = @ + 1]
    /\ Answer(r, "applied")
    /\ UNCHANGED <<backend, now, store, born, minted>>

\* Infeasible: refused, and not put back.
Refuse(r) ==
    /\ req[r].pc = "held"
    /\ Answer(r, "infeasible")
    /\ UNCHANGED <<backend, now, store, born, minted, uses>>

\* Mutant: the clock of the proposal starts again.
RestagedNow(e) == [e EXCEPT !.created = now]

\* restageBestEffort puts { ...entry } back, createdAt included.
Restaged(e) == e

Restage(r) ==
    /\ req[r].pc = "held"
    /\ req' = [req EXCEPT ![r].pc = "sweep", ![r].entry = Restaged(@)]
    /\ UNCHANGED <<backend, now, store, born, minted, uses>>

Reply(r) ==
    /\ req[r].pc = "done"
    /\ req' = [req EXCEPT ![r] = Idle]
    /\ UNCHANGED <<backend, now, store, born, minted, uses>>

\* A store call of r throws, or its instance dies: nothing more is done.
Abandon(r) ==
    /\ req[r].pc # "idle"
    /\ req' = [req EXCEPT ![r] = Idle]
    /\ UNCHANGED <<backend, now, store, born, minted, uses>>

\* The process of the Map restarts.
Restart ==
    /\ backend = "memory"
    /\ store' = [id \in Ids |-> NoEntry]
    /\ req' = [r \in Requests |-> Idle]
    /\ UNCHANGED <<backend, now, born, minted, uses>>

Tick ==
    /\ now < MaxTime
    /\ now' = now + 1
    /\ UNCHANGED <<backend, store, req, born, minted, uses>>

Next ==
    \/ \E r \in Requests :
          \/ \E s \in Students, id \in Ids : Propose(r, s, id) \/ Confirm(r, s, id)
          \/ StageSweep(r) \/ StageInsert(r) \/ StageInMemory(r)
          \/ TakeDelete(r) \/ TakeProbe(r) \/ TakeInMemory(r)
          \/ Apply(r) \/ Refuse(r) \/ Restage(r)
          \/ Reply(r) \/ Abandon(r)
    \/ Restart \/ Tick

Spec == Init /\ [][Next]_vars

-----------------------------------------------------------------------------
(* Properties.                                                             *)

Pcs == {"idle", "sweep", "insert", "take", "probe", "held", "done"}

\* The variables hold what their declarations say; nothing is dated later
\* than the clock.
TypeOK ==
    /\ backend \in Backends
    /\ now \in 0 .. MaxTime
    /\ minted \subseteq Ids
    /\ born \in [Ids -> 0 .. now]
    /\ uses \in [Ids -> Nat]
    /\ \A id \in Ids : store[id] # NoEntry =>
          store[id] \in Entry /\ store[id].created <= now
    /\ \A r \in Requests :
          /\ req[r].pc \in Pcs
          /\ req[r].id \in minted \cup {None}
          /\ req[r].time <= now
          /\ req[r].entry # NoEntry =>
                req[r].entry \in Entry /\ req[r].entry.created <= now

\* r has the entry of id: about to stage it, or taken and not settled.
Holds(r, id) == req[r].id = id /\ req[r].pc \in {"sweep", "insert", "held"}

Open(id) == store[id] # NoEntry \/ \E r \in Requests : Holds(r, id)

\* A proposal is in the store or with one request, never both or twice, so
\* that two confirms of one id cannot both apply it.
OneHolder ==
    \A id \in Ids :
        /\ \A r \in Requests : Holds(r, id) => store[id] = NoEntry
        /\ \A r, q \in Requests : Holds(r, id) /\ Holds(q, id) => r = q
        /\ Open(id) => uses[id] = 0

\* However often a proposal is put back, its ten minutes run from the propose:
\* a confirm that began later than that does not get it.
TtlIsAnchored ==
    \A r \in Requests :
        req[r].pc = "held" => /\ req[r].entry.created = born[req[r].id]
                              /\ backend = "postgres" =>
                                    req[r].time < born[req[r].id] + TTL

\* A proposal that has time left leaves the table only into the hands of its
\* own student: no sweep, and no confirm by someone else, loses it.
LeavesOnlyToItsOwner ==
    [][\A id \in Ids :
          LET e == store[id]
          IN  /\ e # NoEntry /\ store'[id] = NoEntry
              /\ now < born[id] + TTL
              /\ backend = "postgres"
              => \E r \in Requests : /\ req[r].pc = "take" /\ req'[r].pc = "held"
                                     /\ req[r].student = e.owner
                                     /\ req[r].id = id]_vars

\* Seen from outside, staging is the ledger of proposals.
LedgerStatus(id) ==
    IF uses[id] > 0 THEN "applied"
    ELSE IF Open(id) THEN "open"
    ELSE IF id \in minted THEN "closed"
    ELSE "unused"

Ledger == INSTANCE PlanLedger WITH
              Proposals <- Ids,
              status <- [id \in Ids |-> LedgerStatus(id)]

\* Tenants, the clock, two-statement stage and take, restarts: a proposal is
\* applied at most once, and one that was closed does not come back.
ImplementsLedger == Ledger!LedgerSpec
=============================================================================
