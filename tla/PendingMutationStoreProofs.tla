--------------------- MODULE PendingMutationStoreProofs ---------------------
(***************************************************************************)
(* Proofs about PendingMutationStore, for any number of students, ids and  *)
(* requests, any TTL and both implementations.                             *)
(***************************************************************************)
EXTENDS PendingMutationStore, TLAPS

-----------------------------------------------------------------------------
(* The types and the dates of the entries.                                 *)

Results == {"none", "staged", "not_found", "tenant_mismatch", "applied", "infeasible"}

RequestType ==
    [pc : Pcs, student : Students \cup {None}, id : Ids \cup {None},
     entry : Entry \cup {NoEntry}, time : Nat, res : Results]

\* The request q holds its entry.
Holding(q) == q.pc \in {"sweep", "insert", "held"}

\* A request that does anything has an id that was drawn; the entry it holds is
\* dated from the propose that drew the id, and one that it took had time left
\* when it read the clock.
RequestOK(q) ==
    /\ q \in RequestType
    /\ q.time <= now
    /\ q.id \in minted \cup {None}
    /\ q.pc # "idle" => q.id \in minted
    /\ q.entry # NoEntry => q.entry.created <= now
    /\ Holding(q) => q.entry # NoEntry /\ q.entry.created = born[q.id]
    /\ q.pc = "held" /\ backend = "postgres" => q.time < born[q.id] + TTL

\* A stored entry is dated from the propose that drew its id.
RowOK(id) ==
    /\ store[id] \in Entry \cup {NoEntry}
    /\ store[id] # NoEntry => id \in minted /\ store[id].created = born[id]

Clocks ==
    /\ backend \in Backends
    /\ now \in Nat /\ now <= MaxTime
    /\ minted \subseteq Ids
    /\ born \in [Ids -> Nat]
    /\ \A id \in Ids : born[id] <= now
    /\ uses \in [Ids -> Nat]

DatedInv ==
    /\ Clocks
    /\ req \in [Requests -> RequestType]
    /\ store \in [Ids -> Entry \cup {NoEntry}]
    /\ \A r \in Requests : RequestOK(req[r])
    /\ \A id \in Ids : RowOK(id)

LEMMA NoEntryIsNone == NoEntry \notin Entry
  BY Constants DEF NoEntry, Entry

\* A step of one request r, which becomes v, that leaves the clock, the ids and
\* the other requests alone, and stores nothing but what r holds.
LEMMA DatedStep ==
    ASSUME DatedInv, NEW r \in Requests, NEW v,
           req' = [req EXCEPT ![r] = v], RequestOK(v),
           UNCHANGED <<backend, now, born, minted>>,
           uses' \in [Ids -> Nat],
           store' \in [Ids -> Entry \cup {NoEntry}],
           \A id \in Ids : \/ store'[id] = store[id]
                           \/ store'[id] = NoEntry
                           \/ Holding(req[r]) /\ id = req[r].id /\ store'[id] = req[r].entry
    PROVE  DatedInv'
  <1>1. Clocks'
    BY DEF DatedInv, Clocks
  <1>2. req' \in [Requests -> RequestType]
    BY DEF DatedInv, RequestOK
  <1>3. \A q \in Requests : RequestOK(req[q])'
    <2>1. \A q \in Requests : req'[q] = IF q = r THEN v ELSE req[q]
      BY DEF DatedInv
    <2> QED
      BY <2>1 DEF DatedInv, RequestOK
  <1>4. \A id \in Ids : RowOK(id)'
    <2> TAKE id \in Ids
    <2>1. store'[id] \in Entry \cup {NoEntry}
      OBVIOUS
    <2>2. CASE store'[id] = store[id] \/ store'[id] = NoEntry
      BY <2>1, <2>2 DEF DatedInv, RowOK
    <2>3. CASE Holding(req[r]) /\ id = req[r].id /\ store'[id] = req[r].entry
      <3>1. req[r].entry.created = born[id] /\ id \in minted
        BY <2>3 DEF DatedInv, RequestOK, Holding
      <3> QED
        BY <2>1, <2>3, <3>1 DEF RowOK
    <2> QED
      BY <2>2, <2>3
  <1> QED
    BY <1>1, <1>2, <1>3, <1>4 DEF DatedInv

LEMMA DatedRequest ==
    ASSUME DatedInv, NEW r \in Requests
    PROVE  req[r] \in RequestType /\ RequestOK(req[r])
  BY DEF DatedInv

LEMMA IdleOK == ASSUME DatedInv PROVE RequestOK(Idle)
  BY Constants DEF DatedInv, Clocks, RequestOK, Idle, RequestType, Pcs, Results, NoEntry, Entry, Holding

\* An answer keeps everything but the place and the result.
LEMMA AnswerOK ==
    ASSUME DatedInv, NEW r \in Requests, NEW a \in Results, req[r].pc # "idle"
    PROVE  RequestOK([req[r] EXCEPT !.pc = "done", !.res = a])
  <1> DEFINE v == [req[r] EXCEPT !.pc = "done", !.res = a]
  <1>1. /\ v \in RequestType
        /\ v.pc = "done" /\ v.id = req[r].id /\ v.time = req[r].time /\ v.entry = req[r].entry
    BY DatedRequest DEF RequestType, Pcs
  <1> QED
    BY <1>1, DatedRequest DEF RequestOK, Holding

\* A request that only changes its place keeps its record valid, if it holds
\* nothing new.
LEMMA GotoOK ==
    ASSUME DatedInv, NEW r \in Requests, NEW pc \in {"sweep", "insert", "probe"},
           req[r].pc # "idle",
           pc \in {"sweep", "insert"} => Holding(req[r])
    PROVE  RequestOK([req[r] EXCEPT !.pc = pc])
  <1> DEFINE v == [req[r] EXCEPT !.pc = pc]
  <1>1. /\ v \in RequestType
        /\ v.pc = pc /\ v.id = req[r].id /\ v.time = req[r].time /\ v.entry = req[r].entry
    BY DatedRequest DEF RequestType, Pcs
  <1> QED
    BY <1>1, DatedRequest DEF RequestOK, Holding

\* A sweep only drops rows.
LEMMA SweptRows ==
    ASSUME DatedInv, NEW t
    PROVE  /\ Swept(t) \in [Ids -> Entry \cup {NoEntry}]
           /\ \A id \in Ids : Swept(t)[id] = store[id] \/ Swept(t)[id] = NoEntry
  BY DEF DatedInv, Swept

LEMMA DatedPropose ==
    ASSUME DatedInv, NEW r \in Requests, NEW s \in Students, NEW id \in Ids, Propose(r, s, id)
    PROVE  DatedInv'
  <1> DEFINE e == [owner |-> s, created |-> now]
             v == [Idle EXCEPT !.pc = "sweep", !.student = s, !.id = id, !.entry = e]
  <1>1. /\ req' = [req EXCEPT ![r] = v] /\ id \notin minted
        /\ minted' = minted \cup {id} /\ born' = [born EXCEPT ![id] = now]
        /\ UNCHANGED <<backend, now, store, uses>>
    BY DEF Propose
  <1>2. e \in Entry /\ e # NoEntry
    BY NoEntryIsNone DEF Entry, DatedInv, Clocks
  <1>3. /\ v \in RequestType
        /\ v.pc = "sweep" /\ v.id = id /\ v.entry = e /\ v.time = 0
    BY <1>2 DEF Idle, RequestType, Pcs, Results
  <1>4. Clocks'
    BY <1>1 DEF DatedInv, Clocks
  <1>5. born'[id] = now /\ \A x \in minted : born'[x] = born[x]
    BY <1>1 DEF DatedInv, Clocks
  <1>6. req' \in [Requests -> RequestType]
    BY <1>1, <1>3 DEF DatedInv
  <1>7. \A q \in Requests : RequestOK(req[q])'
    <2>1. \A q \in Requests : req'[q] = IF q = r THEN v ELSE req[q]
      BY <1>1 DEF DatedInv
    <2>2. RequestOK(req[r])'
      BY <1>1, <1>2, <1>3, <1>5, <2>1 DEF RequestOK, DatedInv, Clocks
    <2>3. ASSUME NEW q \in Requests, q # r
          PROVE  RequestOK(req[q])'
      <3>1. req'[q] = req[q] /\ RequestOK(req[q])
        BY <2>1, <2>3 DEF DatedInv
      <3>2. Holding(req[q]) => born'[req[q].id] = born[req[q].id]
        BY <3>1, <1>5 DEF RequestOK, Holding
      <3>3. Holding(req[q]) => req[q].entry.created = born'[req[q].id]
        BY <3>1, <3>2 DEF RequestOK
      <3>4. req[q].pc = "held" /\ backend = "postgres" => req[q].time < born'[req[q].id] + TTL
        BY <3>1, <3>2 DEF RequestOK, Holding
      <3>5. /\ req[q] \in RequestType /\ req[q].time <= now'
            /\ req[q].entry # NoEntry => req[q].entry.created <= now'
        BY <1>1, <3>1 DEF RequestOK
      <3>6. /\ req[q].id \in minted' \cup {None}
            /\ req[q].pc # "idle" => req[q].id \in minted'
            /\ Holding(req[q]) => req[q].entry # NoEntry
        BY <1>1, <3>1 DEF RequestOK
      <3> QED
        BY <1>1, <3>1, <3>3, <3>4, <3>5, <3>6 DEF RequestOK, Holding
    <2> QED
      BY <2>2, <2>3
  <1>8. \A x \in Ids : RowOK(x)'
    BY <1>1, <1>5 DEF DatedInv, RowOK
  <1>9. store' \in [Ids -> Entry \cup {NoEntry}]
    BY <1>1 DEF DatedInv
  <1> QED
    BY <1>4, <1>6, <1>7, <1>8, <1>9 DEF DatedInv

LEMMA DatedConfirm ==
    ASSUME DatedInv, NEW r \in Requests, NEW s \in Students, NEW id \in Ids, Confirm(r, s, id)
    PROVE  DatedInv'
  <1> DEFINE v == [Idle EXCEPT !.pc = "take", !.student = s, !.id = id, !.time = now]
  <1>1. /\ v \in RequestType
        /\ v.pc = "take" /\ v.id = id /\ v.entry = NoEntry /\ v.time = now
    BY DEF Idle, RequestType, Pcs, Results, DatedInv, Clocks
  <1>2. RequestOK(v)
    BY <1>1 DEF RequestOK, Confirm, DatedInv, Clocks, Holding
  <1>3. req' = [req EXCEPT ![r] = v]
    BY DEF Confirm
  <1> QED
    BY <1>2, <1>3, DatedStep DEF Confirm, DatedInv, Clocks

LEMMA DatedStage ==
    ASSUME DatedInv, NEW r \in Requests,
           StageSweep(r) \/ StageInsert(r) \/ StageInMemory(r)
    PROVE  DatedInv'
  <1>1. CASE StageSweep(r)
    <2> DEFINE v == [req[r] EXCEPT !.pc = "insert"]
    <2>1. RequestOK(v)
      BY <1>1, GotoOK DEF StageSweep, Holding
    <2>2. req' = [req EXCEPT ![r] = v]
      BY <1>1 DEF StageSweep, Goto
    <2> QED
      BY <1>1, <2>1, <2>2, DatedStep, SweptRows DEF StageSweep, DatedInv, Clocks
  <1>2. CASE StageInsert(r) \/ StageInMemory(r)
    <2> DEFINE v == [req[r] EXCEPT !.pc = "done", !.res = "staged"]
    <2>1. RequestOK(v)
      BY <1>2, AnswerOK DEF StageInsert, StageInMemory, Results
    <2>2. req' = [req EXCEPT ![r] = v]
      BY <1>2 DEF StageInsert, StageInMemory, Answer
    <2>3. Holding(req[r]) /\ req[r].entry \in Entry \cup {NoEntry}
      BY <1>2, DatedRequest DEF StageInsert, StageInMemory, Holding, RequestType
    <2>4. \/ store' = [store EXCEPT ![req[r].id] = req[r].entry]
          \/ store' = [Swept(req[r].entry.created) EXCEPT ![req[r].id] = req[r].entry]
      BY <1>2 DEF StageInsert, StageInMemory
    <2>5. /\ store' \in [Ids -> Entry \cup {NoEntry}]
          /\ \A id \in Ids : \/ store'[id] = store[id]
                             \/ store'[id] = NoEntry
                             \/ id = req[r].id /\ store'[id] = req[r].entry
      BY <2>3, <2>4, SweptRows DEF DatedInv
    <2> QED
      BY <1>2, <2>1, <2>2, <2>3, <2>5, DatedStep DEF StageInsert, StageInMemory, DatedInv, Clocks
  <1> QED
    BY <1>1, <1>2

LEMMA DatedTake ==
    ASSUME DatedInv, NEW r \in Requests,
           TakeDelete(r) \/ TakeProbe(r) \/ TakeInMemory(r)
    PROVE  DatedInv'
  <1> DEFINE id == req[r].id
             w == [req[r] EXCEPT !.pc = "held", !.entry = store[id]]
  <1>0. id \in Ids /\ req[r].pc # "idle" /\ id \in minted
    BY DatedRequest DEF TakeDelete, TakeProbe, TakeInMemory, RequestOK, DatedInv, Clocks
  <1>1. UNCHANGED <<backend, now, born, minted>> /\ uses' \in [Ids -> Nat]
    BY DEF TakeDelete, TakeProbe, TakeInMemory, DatedInv, Clocks
  <1>2. /\ store' \in [Ids -> Entry \cup {NoEntry}]
        /\ \A x \in Ids : store'[x] = store[x] \/ store'[x] = NoEntry
    BY SweptRows DEF TakeDelete, TakeProbe, TakeInMemory, DeleteRow, DatedInv
  <1>3. CASE \E a \in Results : Answer(r, a)
    <2>1. PICK a \in Results : req' = [req EXCEPT ![r] = [req[r] EXCEPT !.pc = "done", !.res = a]]
      BY <1>3 DEF Answer
    <2> QED
      BY <1>0, <1>1, <1>2, <2>1, AnswerOK, DatedStep
  <1>4. CASE Goto(r, "probe")
    <2>1. req' = [req EXCEPT ![r] = [req[r] EXCEPT !.pc = "probe"]]
      BY <1>4 DEF Goto
    <2> QED
      BY <1>0, <1>1, <1>2, <2>1, GotoOK, DatedStep
  <1>5. ASSUME req' = [req EXCEPT ![r] = w], store[id] # NoEntry,
               backend = "postgres" => ~Expired(store[id], req[r].time)
        PROVE  DatedInv'
    <2>1. /\ w \in RequestType
          /\ w.pc = "held" /\ w.id = id /\ w.entry = store[id] /\ w.time = req[r].time
      BY <1>0, DatedRequest DEF RequestType, Pcs, DatedInv
    <2>2. store[id] \in Entry /\ store[id].created = born[id] /\ born[id] <= now /\ born[id] \in Nat
      BY <1>0, <1>5 DEF DatedInv, RowOK, Clocks
    <2>3. w.time \in Nat /\ TTL \in Nat
      BY <2>1, Constants DEF RequestType
    <2>4. backend = "postgres" => w.time < born[id] + TTL
      BY <1>5, <2>1, <2>2, <2>3 DEF Expired
    <2>5. RequestOK(w)
      BY <1>0, <1>5, <2>1, <2>2, <2>4, DatedRequest DEF RequestOK, Holding
    <2> QED
      BY <1>1, <1>2, <1>5, <2>5, DatedStep
  <1>6. CASE TakeDelete(r)
    <2>1. \/ Answer(r, "not_found") \/ Goto(r, "probe")
          \/ /\ req' = [req EXCEPT ![r] = w]
             /\ store[id] # NoEntry /\ ~Expired(store[id], req[r].time)
      BY <1>6 DEF TakeDelete, Matches, Decoded
    <2> QED
      BY <1>3, <1>4, <1>5, <2>1 DEF Results
  <1>7. CASE TakeProbe(r)
    <2>1. Answer(r, "tenant_mismatch") \/ Answer(r, "not_found")
      BY <1>7 DEF TakeProbe
    <2> QED
      BY <1>3, <2>1 DEF Results
  <1>8. CASE TakeInMemory(r)
    <2>1. \/ Answer(r, "not_found") \/ Answer(r, "tenant_mismatch")
          \/ /\ req' = [req EXCEPT ![r].pc = "held", ![r].entry = Swept(now)[id]]
             /\ Swept(now)[id] # NoEntry /\ backend = "memory"
      BY <1>8 DEF TakeInMemory, Matches
    <2>2. Swept(now)[id] # NoEntry => Swept(now)[id] = store[id]
      BY <1>0, SweptRows
    <2>3. CASE /\ req' = [req EXCEPT ![r].pc = "held", ![r].entry = Swept(now)[id]]
               /\ Swept(now)[id] # NoEntry /\ backend = "memory"
      <3>1. req' = [req EXCEPT ![r] = w]
        BY <2>2, <2>3
      <3> QED
        BY <1>5, <2>2, <2>3, <3>1
    <2> QED
      BY <1>3, <2>1, <2>3 DEF Results
  <1> QED
    BY <1>6, <1>7, <1>8

LEMMA DatedSettle ==
    ASSUME DatedInv, NEW r \in Requests,
           Apply(r) \/ Refuse(r) \/ Restage(r) \/ Reply(r) \/ Abandon(r)
    PROVE  DatedInv'
  <1>1. UNCHANGED <<backend, now, born, minted, store>> /\ uses' \in [Ids -> Nat]
    BY DEF Apply, Refuse, Restage, Reply, Abandon, DatedInv, Clocks
  <1>2. store' \in [Ids -> Entry \cup {NoEntry}] /\ \A x \in Ids : store'[x] = store[x]
    BY <1>1 DEF DatedInv
  <1>3. CASE Apply(r) \/ Refuse(r)
    <2>1. PICK a \in Results : req' = [req EXCEPT ![r] = [req[r] EXCEPT !.pc = "done", !.res = a]]
      BY <1>3 DEF Apply, Refuse, Answer, Results
    <2>2. req[r].pc # "idle"
      BY <1>3 DEF Apply, Refuse
    <2> QED
      BY <1>1, <1>2, <2>1, <2>2, AnswerOK, DatedStep
  <1>4. CASE Restage(r)
    <2> DEFINE v == [req[r] EXCEPT !.pc = "sweep"]
    <2>1. RequestOK(v)
      BY <1>4, GotoOK DEF Restage, Holding
    <2>2. req' = [req EXCEPT ![r] = v]
      BY <1>4, DatedRequest DEF Restage, Restaged, DatedInv, RequestType
    <2> QED
      BY <1>1, <1>2, <2>1, <2>2, DatedStep
  <1>5. CASE Reply(r) \/ Abandon(r)
    <2>1. req' = [req EXCEPT ![r] = Idle]
      BY <1>5 DEF Reply, Abandon
    <2> QED
      BY <1>1, <1>2, <2>1, IdleOK, DatedStep
  <1> QED
    BY <1>3, <1>4, <1>5

LEMMA DatedNext == DatedInv /\ [Next]_vars => DatedInv'
  <1> SUFFICES ASSUME DatedInv, [Next]_vars PROVE DatedInv'
    OBVIOUS
  <1>1. CASE Restart
    <2>1. /\ store' = [id \in Ids |-> NoEntry] /\ req' = [q \in Requests |-> Idle]
          /\ UNCHANGED <<backend, now, born, minted, uses>>
      BY <1>1 DEF Restart
    <2>2. RequestOK(Idle) /\ Idle \in RequestType
      BY IdleOK DEF RequestOK
    <2>3. \A q \in Requests : RequestOK(req[q])'
      BY <2>1, <2>2 DEF RequestOK
    <2> QED
      BY <2>1, <2>2, <2>3 DEF DatedInv, Clocks, RowOK
  <1>2. CASE Tick
    <2>1. now' = now + 1 /\ now < MaxTime /\ UNCHANGED <<backend, store, req, born, minted, uses>>
      BY <1>2 DEF Tick
    <2>2. Clocks'
      BY <2>1, Constants DEF DatedInv, Clocks
    <2>3. \A q \in Requests : RequestOK(req[q])'
      <3> TAKE q \in Requests
      <3>1. RequestOK(req[q]) /\ req[q] \in RequestType
        BY DEF DatedInv
      <3>2. req[q].time \in Nat /\ (req[q].entry # NoEntry => req[q].entry.created \in Nat)
        BY <3>1 DEF RequestType, Entry
      <3> QED
        BY <2>1, <3>1, <3>2 DEF RequestOK, DatedInv, Clocks
    <2>4. \A id \in Ids : RowOK(id)'
      BY <2>1 DEF DatedInv, RowOK
    <2> QED
      BY <2>1, <2>2, <2>3, <2>4 DEF DatedInv
  <1>3. CASE UNCHANGED vars
    BY <1>3 DEF vars, DatedInv, Clocks, RequestOK, RowOK
  <1> QED
    BY <1>1, <1>2, <1>3, DatedPropose, DatedConfirm, DatedStage, DatedTake, DatedSettle DEF Next

LEMMA DatedInit == Init => DatedInv
  <1> SUFFICES ASSUME Init PROVE DatedInv
    OBVIOUS
  <1>1. Clocks
    BY Constants DEF Init, Clocks
  <1>2. RequestOK(Idle) /\ Idle \in RequestType
    BY Constants DEF Init, RequestOK, Idle, RequestType, Pcs, Results, NoEntry, Entry, Holding
  <1> QED
    BY <1>1, <1>2 DEF Init, DatedInv, RowOK

\* The variables hold what their declarations say; nothing is dated later than
\* the clock.
THEOREM TypeCorrect == Spec => []TypeOK
  <1>1. Spec => []DatedInv
    BY DatedInit, DatedNext, PTL DEF Spec
  <1>2. DatedInv => TypeOK
    <2> SUFFICES ASSUME DatedInv PROVE TypeOK
      OBVIOUS
    <2>1. born \in [Ids -> 0 .. now] /\ now \in 0 .. MaxTime
      BY Constants DEF DatedInv, Clocks
    <2>2. ASSUME NEW id \in Ids, store[id] # NoEntry
          PROVE  store[id] \in Entry /\ store[id].created <= now
      BY <2>2 DEF DatedInv, RowOK, Clocks
    <2>3. ASSUME NEW r \in Requests
          PROVE  /\ req[r].pc \in Pcs
                 /\ req[r].id \in minted \cup {None}
                 /\ req[r].time <= now
                 /\ req[r].entry # NoEntry =>
                       req[r].entry \in Entry /\ req[r].entry.created <= now
      BY DatedRequest DEF RequestOK, RequestType
    <2> QED
      BY <2>1, <2>2, <2>3 DEF TypeOK, DatedInv, Clocks
  <1> QED
    BY <1>1, <1>2, PTL

\* However often a proposal is put back, its ten minutes run from the propose:
\* a confirm that began later than that does not get it from the table.
THEOREM TtlAnchored == Spec => []TtlIsAnchored
  <1>1. Spec => []DatedInv
    BY DatedInit, DatedNext, PTL DEF Spec
  <1>2. DatedInv => TtlIsAnchored
    BY DatedRequest DEF TtlIsAnchored, RequestOK, Holding
  <1> QED
    BY <1>1, <1>2, PTL

-----------------------------------------------------------------------------
(* A proposal has one holder.                                              *)

\* An id that was not drawn is nowhere.  The one step that makes a request hold
\* what it did not hold before without taking it from the store draws its id.
Undrawn ==
    \A id \in Ids \ minted :
        /\ store[id] = NoEntry
        /\ \A r \in Requests : ~(Holding(req[r]) /\ req[r].id = id)
        /\ uses[id] = 0

HolderInv == OneHolder /\ Undrawn

HolderExpanded ==
    \A id \in Ids :
        /\ \A r \in Requests : Holding(req[r]) /\ req[r].id = id => store[id] = NoEntry
        /\ \A r, q \in Requests :
              Holding(req[r]) /\ req[r].id = id /\ Holding(req[q]) /\ req[q].id = id => r = q
        /\ store[id] # NoEntry => uses[id] = 0
        /\ \A r \in Requests : Holding(req[r]) /\ req[r].id = id => uses[id] = 0

LEMMA OpenHolding ==
    \A id \in Ids :
        Open(id) <=> store[id] # NoEntry \/ \E r \in Requests : Holding(req[r]) /\ req[r].id = id
  BY DEF Open, Holds, Holding

LEMMA OpenHoldingNext ==
    \A id \in Ids :
        Open(id)' <=> store'[id] # NoEntry \/ \E r \in Requests : Holding(req'[r]) /\ req'[r].id = id
  BY DEF Open, Holds, Holding

LEMMA OneHolderExpanded == OneHolder <=> HolderExpanded
  BY OpenHolding DEF OneHolder, HolderExpanded, Holds, Holding

LEMMA OneHolderExpandedNext == OneHolder' <=> HolderExpanded'
  <1>1. OneHolder' <=>
          \A id \in Ids :
            /\ \A r \in Requests : Holds(r, id)' => store'[id] = NoEntry
            /\ \A r, q \in Requests : Holds(r, id)' /\ Holds(q, id)' => r = q
            /\ Open(id)' => uses'[id] = 0
    BY DEF OneHolder
  <1>2. \A r \in Requests, id \in Ids : Holds(r, id)' <=> Holding(req'[r]) /\ req'[r].id = id
    BY DEF Holds, Holding
  <1> QED
    BY <1>1, <1>2, OpenHoldingNext DEF HolderExpanded, Holding

\* What a step does to the record of its request, and to the others.
Becomes(r, v) == req' = [req EXCEPT ![r] = v]

LEMMA BecomesFields ==
    ASSUME DatedInv, NEW r \in Requests, NEW v, Becomes(r, v)
    PROVE  \A q \in Requests : req'[q] = IF q = r THEN v ELSE req[q]
  BY DEF Becomes, DatedInv

\* A step of r by which nobody holds and nothing is stored that was not before.
LetsGo(r) ==
    /\ \A q \in Requests \ {r} : req'[q] = req[q]
    /\ Holding(req'[r]) => Holding(req[r]) /\ req'[r].id = req[r].id
    /\ \A id \in Ids : store'[id] # NoEntry => store[id] # NoEntry
    /\ uses' = uses
    /\ minted' = minted

LEMMA LetsGoAll ==
    ASSUME NEW r \in Requests, LetsGo(r)
    PROVE  \A q \in Requests : Holding(req'[q]) => Holding(req[q]) /\ req'[q].id = req[q].id
  BY DEF LetsGo

LEMMA HoldsNoMore ==
    ASSUME DatedInv, HolderInv, NEW r \in Requests, LetsGo(r)
    PROVE  HolderInv'
  <1>1. \A q \in Requests : Holding(req'[q]) => Holding(req[q]) /\ req'[q].id = req[q].id
    BY LetsGoAll
  <1>2. HolderExpanded
    BY OneHolderExpanded DEF HolderInv
  <1>3. HolderExpanded'
    BY <1>1, <1>2 DEF HolderExpanded, Holding, LetsGo
  <1>4. Undrawn'
    BY <1>1 DEF HolderInv, Undrawn, Holding, LetsGo
  <1> QED
    BY <1>3, <1>4, OneHolderExpandedNext DEF HolderInv

\* Sweeping, probing, refusing, putting back, starting a confirm and ending
\* give nobody anything.
LEMMA OthersLetGo ==
    ASSUME DatedInv, NEW r \in Requests,
           \/ StageSweep(r) \/ TakeProbe(r) \/ Refuse(r) \/ Restage(r)
           \/ Reply(r) \/ Abandon(r)
           \/ \E s \in Students, id \in Ids : Confirm(r, s, id)
    PROVE  LetsGo(r)
  <1>1. uses' = uses /\ minted' = minted
    BY DEF StageSweep, TakeProbe, Refuse, Restage, Reply, Abandon, Confirm
  <1>2. \A id \in Ids : store'[id] # NoEntry => store[id] # NoEntry
    BY SweptRows DEF StageSweep, TakeProbe, Refuse, Restage, Reply, Abandon, Confirm, DatedInv
  <1>3. CASE StageSweep(r)
    <2>1. Becomes(r, [req[r] EXCEPT !.pc = "insert"])
      BY <1>3 DEF StageSweep, Goto, Becomes
    <2>2. req[r].pc = "sweep"
      BY <1>3 DEF StageSweep
    <2>3. Holding(req[r]) /\ req'[r].id = req[r].id
      BY <2>1, <2>2, BecomesFields, DatedRequest DEF Holding, RequestType
    <2> QED
      BY <1>1, <1>2, <2>1, <2>3, BecomesFields DEF LetsGo
  <1>4. CASE Restage(r)
    <2>1. Becomes(r, [req[r] EXCEPT !.pc = "sweep"])
      BY <1>4, DatedRequest DEF Restage, Restaged, Becomes, DatedInv, RequestType
    <2>2. req[r].pc = "held"
      BY <1>4 DEF Restage
    <2>3. Holding(req[r]) /\ req'[r].id = req[r].id
      BY <2>1, <2>2, BecomesFields, DatedRequest DEF Holding, RequestType
    <2> QED
      BY <1>1, <1>2, <2>1, <2>3, BecomesFields DEF LetsGo
  <1>5. CASE TakeProbe(r) \/ Refuse(r)
    <2>1. PICK a : Becomes(r, [req[r] EXCEPT !.pc = "done", !.res = a])
      BY <1>5 DEF TakeProbe, Refuse, Answer, Becomes
    <2>2. req'[r].pc = "done"
      <3>1. req'[r] = [req[r] EXCEPT !.pc = "done", !.res = a]
        BY <2>1, BecomesFields
      <3> QED
        BY <3>1, DatedRequest DEF RequestType
    <2> QED
      BY <1>1, <1>2, <2>1, <2>2, BecomesFields DEF LetsGo, Holding
  <1>6. CASE Reply(r) \/ Abandon(r)
    <2>1. Becomes(r, Idle)
      BY <1>6 DEF Reply, Abandon, Becomes
    <2>2. ~Holding(Idle)
      BY DEF Idle, Holding
    <2> QED
      BY <1>1, <1>2, <2>1, <2>2, BecomesFields DEF LetsGo
  <1>7. ASSUME NEW s \in Students, NEW id \in Ids, Confirm(r, s, id)
        PROVE  LetsGo(r)
    <2>1. Becomes(r, [Idle EXCEPT !.pc = "take", !.student = s, !.id = id, !.time = now])
      BY <1>7 DEF Confirm, Becomes
    <2>2. req'[r].pc = "take"
      <3>1. req'[r] = [Idle EXCEPT !.pc = "take", !.student = s, !.id = id, !.time = now]
        BY <2>1, BecomesFields
      <3> QED
        BY <3>1 DEF Idle
    <2> QED
      BY <1>1, <1>2, <2>1, <2>2, BecomesFields DEF LetsGo, Holding
  <1> QED
    BY <1>3, <1>4, <1>5, <1>6, <1>7

\* A propose draws an id that was nowhere.
LEMMA Draws ==
    ASSUME DatedInv, NEW r \in Requests, NEW s \in Students, NEW id \in Ids, Propose(r, s, id)
    PROVE  /\ \A q \in Requests \ {r} : req'[q] = req[q]
           /\ Holding(req'[r]) /\ req'[r].id = id /\ ~Holding(req[r])
           /\ id \notin minted /\ minted' = minted \cup {id}
           /\ store' = store /\ uses' = uses
  <1>1. Becomes(r, [Idle EXCEPT !.pc = "sweep", !.student = s, !.id = id,
                                !.entry = [owner |-> s, created |-> now]])
    BY DEF Propose, Becomes
  <1>2. req'[r].pc = "sweep" /\ req'[r].id = id
    <2>1. req'[r] = [Idle EXCEPT !.pc = "sweep", !.student = s, !.id = id,
                                 !.entry = [owner |-> s, created |-> now]]
      BY <1>1, BecomesFields
    <2> QED
      BY <2>1 DEF Idle
  <1> QED
    BY <1>1, <1>2, BecomesFields DEF Propose, Holding

\* Staging puts what the request holds into the store.
LEMMA Stages ==
    ASSUME DatedInv, NEW r \in Requests, StageInsert(r) \/ StageInMemory(r)
    PROVE  /\ \A q \in Requests \ {r} : req'[q] = req[q]
           /\ Holding(req[r]) /\ ~Holding(req'[r]) /\ req[r].id \in Ids
           /\ \A id \in Ids : store'[id] # NoEntry => store[id] # NoEntry \/ id = req[r].id
           /\ uses' = uses /\ minted' = minted
  <1>1. Becomes(r, [req[r] EXCEPT !.pc = "done", !.res = "staged"])
    BY DEF StageInsert, StageInMemory, Answer, Becomes
  <1>2. req'[r].pc = "done"
    <2>1. req'[r] = [req[r] EXCEPT !.pc = "done", !.res = "staged"]
      BY <1>1, BecomesFields
    <2> QED
      BY <2>1, DatedRequest DEF RequestType
  <1>3. Holding(req[r]) /\ req[r].pc # "idle"
    BY DEF StageInsert, StageInMemory, Holding
  <1>4. req[r].id \in Ids
    BY <1>3, DatedRequest DEF RequestOK, DatedInv, Clocks
  <1>5. \/ store' = [store EXCEPT ![req[r].id] = req[r].entry]
        \/ store' = [Swept(req[r].entry.created) EXCEPT ![req[r].id] = req[r].entry]
    BY DEF StageInsert, StageInMemory
  <1>6. \A id \in Ids : store'[id] # NoEntry => store[id] # NoEntry \/ id = req[r].id
    BY <1>5, SweptRows DEF DatedInv
  <1> QED
    BY <1>1, <1>2, <1>3, <1>4, <1>6, BecomesFields DEF StageInsert, StageInMemory, Holding

\* Taking moves the entry to one request, or gives nobody anything.
LEMMA Takes ==
    ASSUME DatedInv, NEW r \in Requests, TakeDelete(r) \/ TakeInMemory(r)
    PROVE  \/ LetsGo(r)
           \/ /\ \A q \in Requests \ {r} : req'[q] = req[q]
              /\ req[r].pc = "take" /\ req'[r].pc = "held" /\ req'[r].id = req[r].id
              /\ req[r].id \in Ids /\ store[req[r].id].owner = req[r].student
              /\ store[req[r].id] # NoEntry /\ store'[req[r].id] = NoEntry
              /\ \A id \in Ids : store'[id] # NoEntry => store[id] # NoEntry
              /\ uses' = uses /\ minted' = minted
  <1> DEFINE id == req[r].id
  <1>1. id \in Ids /\ req[r].pc = "take"
    BY DatedRequest DEF TakeDelete, TakeInMemory, RequestOK, DatedInv, Clocks
  <1>2. uses' = uses /\ minted' = minted
    BY DEF TakeDelete, TakeInMemory
  <1>3. \A x \in Ids : store'[x] # NoEntry => store[x] # NoEntry
    BY SweptRows DEF TakeDelete, TakeInMemory, DeleteRow, DatedInv
  <1>4. CASE \E pc \in {"done", "probe"} : \E a : Becomes(r, [req[r] EXCEPT !.pc = pc, !.res = a])
    <2>0. PICK pc \in {"done", "probe"} : \E a : Becomes(r, [req[r] EXCEPT !.pc = pc, !.res = a])
      BY <1>4
    <2>1. PICK a : Becomes(r, [req[r] EXCEPT !.pc = pc, !.res = a])
      BY <2>0
    <2>2. req'[r].pc = pc
      <3>1. req'[r] = [req[r] EXCEPT !.pc = pc, !.res = a]
        BY <2>1, BecomesFields
      <3> QED
        BY <3>1, DatedRequest DEF RequestType
    <2> QED
      BY <1>2, <1>3, <2>0, <2>1, <2>2, BecomesFields DEF LetsGo, Holding
  <1>5. ASSUME NEW e, Becomes(r, [req[r] EXCEPT !.pc = "held", !.entry = e]),
               store[id] # NoEntry, store[id].owner = req[r].student, store'[id] = NoEntry
        PROVE  /\ \A q \in Requests \ {r} : req'[q] = req[q]
               /\ req'[r].pc = "held" /\ req'[r].id = req[r].id
    <2>1. req'[r] = [req[r] EXCEPT !.pc = "held", !.entry = e]
      BY <1>5, BecomesFields
    <2> QED
      BY <1>5, <2>1, BecomesFields, DatedRequest DEF RequestType
  <1>6. CASE TakeDelete(r)
    <2>1. \/ Answer(r, "not_found") \/ Goto(r, "probe")
          \/ /\ Becomes(r, [req[r] EXCEPT !.pc = "held", !.entry = store[id]])
             /\ store[id] # NoEntry /\ store[id].owner = req[r].student
             /\ store' = [store EXCEPT ![id] = NoEntry]
      BY <1>6 DEF TakeDelete, Matches, Decoded, DeleteRow, Becomes
    <2>2. CASE Answer(r, "not_found")
      BY <1>4, <2>2 DEF Answer, Becomes
    <2>3. CASE Goto(r, "probe")
      <3>1. Becomes(r, [req[r] EXCEPT !.pc = "probe", !.res = req[r].res])
        BY <2>3, DatedRequest DEF Goto, Becomes, RequestType
      <3> QED
        BY <1>4, <3>1
    <2>4. CASE /\ Becomes(r, [req[r] EXCEPT !.pc = "held", !.entry = store[id]])
               /\ store[id] # NoEntry /\ store[id].owner = req[r].student
               /\ store' = [store EXCEPT ![id] = NoEntry]
      <3>1. store'[id] = NoEntry
        BY <1>1, <2>4 DEF DatedInv
      <3> QED
        BY <1>1, <1>2, <1>3, <1>5, <2>4, <3>1
    <2> QED
      BY <2>1, <2>2, <2>3, <2>4
  <1>7. CASE TakeInMemory(r)
    <2>1. \/ Answer(r, "not_found") \/ Answer(r, "tenant_mismatch")
          \/ /\ Becomes(r, [req[r] EXCEPT !.pc = "held", !.entry = Swept(now)[id]])
             /\ Swept(now)[id] # NoEntry /\ Swept(now)[id].owner = req[r].student
             /\ store' = [Swept(now) EXCEPT ![id] = NoEntry]
      BY <1>7 DEF TakeInMemory, Matches, Becomes
    <2>2. CASE Answer(r, "not_found") \/ Answer(r, "tenant_mismatch")
      BY <1>4, <2>2 DEF Answer, Becomes
    <2>3. CASE /\ Becomes(r, [req[r] EXCEPT !.pc = "held", !.entry = Swept(now)[id]])
               /\ Swept(now)[id] # NoEntry /\ Swept(now)[id].owner = req[r].student
               /\ store' = [Swept(now) EXCEPT ![id] = NoEntry]
      <3>1. store'[id] = NoEntry /\ store[id] = Swept(now)[id]
        BY <1>1, <2>3, SweptRows
      <3> QED
        BY <1>1, <1>2, <1>3, <1>5, <2>3, <3>1
    <2> QED
      BY <2>1, <2>2, <2>3
  <1> QED
    BY <1>6, <1>7

\* Applying lets go of the proposal and counts it.
LEMMA Applies ==
    ASSUME DatedInv, NEW r \in Requests, NEW id \in Ids, Apply(r), req[r].id = id
    PROVE  /\ \A q \in Requests \ {r} : req'[q] = req[q]
           /\ Holding(req[r]) /\ ~Holding(req'[r])
           /\ store' = store /\ minted' = minted
           /\ uses' = [uses EXCEPT ![id] = @ + 1]
  <1>1. Becomes(r, [req[r] EXCEPT !.pc = "done", !.res = "applied"])
    BY DEF Apply, Answer, Becomes
  <1>2. req'[r].pc = "done"
    <2>1. req'[r] = [req[r] EXCEPT !.pc = "done", !.res = "applied"]
      BY <1>1, BecomesFields
    <2> QED
      BY <2>1, DatedRequest DEF RequestType
  <1> QED
    BY <1>1, <1>2, BecomesFields DEF Apply, Holding

LEMMA HolderInit == Init => HolderInv
  <1> SUFFICES ASSUME Init PROVE HolderInv
    OBVIOUS
  <1>1. \A r \in Requests : ~Holding(req[r])
    BY DEF Init, Idle, Holding
  <1>2. /\ minted = {}
        /\ \A id \in Ids : store[id] = NoEntry /\ uses[id] = 0
    BY DEF Init
  <1>3. HolderExpanded
    BY <1>1, <1>2 DEF HolderExpanded
  <1> QED
    BY <1>1, <1>2, <1>3, OneHolderExpanded DEF HolderInv, Undrawn

LEMMA HolderPropose ==
    ASSUME DatedInv, HolderInv, NEW r \in Requests, NEW s \in Students, NEW id \in Ids,
           Propose(r, s, id)
    PROVE  HolderInv'
  <1>1. HolderExpanded /\ Undrawn
    BY OneHolderExpanded DEF HolderInv
  <1>2. /\ store[id] = NoEntry /\ uses[id] = 0
        /\ \A q \in Requests : ~(Holding(req[q]) /\ req[q].id = id)
    BY <1>1, Draws DEF Undrawn
  <1>3. \A q \in Requests, x \in Ids :
            Holding(req'[q]) /\ req'[q].id = x
            => (q = r /\ x = id) \/ (Holding(req[q]) /\ req[q].id = x)
    BY Draws
  <1>4. store' = store /\ uses' = uses /\ minted' = minted \cup {id}
    BY Draws
  <1>5. HolderExpanded'
    BY <1>1, <1>2, <1>3, <1>4 DEF HolderExpanded, Holding
  <1>6. Undrawn'
    BY <1>1, <1>3, <1>4 DEF Undrawn, Holding
  <1> QED
    BY <1>5, <1>6, OneHolderExpandedNext DEF HolderInv

LEMMA HolderStage ==
    ASSUME DatedInv, HolderInv, NEW r \in Requests, StageInsert(r) \/ StageInMemory(r)
    PROVE  HolderInv'
  <1>1. HolderExpanded /\ Undrawn
    BY OneHolderExpanded DEF HolderInv
  <1>2. \A q \in Requests : Holding(req'[q]) => q # r /\ Holding(req[q]) /\ req'[q].id = req[q].id
    BY Stages
  <1>3. /\ Holding(req[r]) /\ req[r].id \in Ids
        /\ \A id \in Ids : store'[id] # NoEntry => store[id] # NoEntry \/ id = req[r].id
        /\ uses' = uses /\ minted' = minted
    BY Stages
  <1>4. HolderExpanded'
    BY <1>1, <1>2, <1>3 DEF HolderExpanded, Holding
  <1>5. Undrawn'
    BY <1>1, <1>2, <1>3 DEF Undrawn, Holding
  <1> QED
    BY <1>4, <1>5, OneHolderExpandedNext DEF HolderInv

LEMMA HolderTake ==
    ASSUME DatedInv, HolderInv, NEW r \in Requests, TakeDelete(r) \/ TakeInMemory(r)
    PROVE  HolderInv'
  <1>1. CASE LetsGo(r)
    BY <1>1, HoldsNoMore
  <1>2. CASE ~LetsGo(r)
    <2>1. HolderExpanded /\ Undrawn
      BY OneHolderExpanded DEF HolderInv
    <2>2. \A q \in Requests \ {r} : req'[q] = req[q]
      BY <1>2, Takes
    <2>3. /\ req'[r].id = req[r].id /\ req[r].id \in Ids
          /\ store[req[r].id] # NoEntry /\ store'[req[r].id] = NoEntry
          /\ \A id \in Ids : store'[id] # NoEntry => store[id] # NoEntry
          /\ uses' = uses /\ minted' = minted
      BY <1>2, Takes
    <2>4. \A q \in Requests : ~(Holding(req[q]) /\ req[q].id = req[r].id)
      BY <2>1, <2>3 DEF HolderExpanded
    <2>5. \A q \in Requests, x \in Ids :
              Holding(req'[q]) /\ req'[q].id = x
              => (q = r /\ x = req[r].id) \/ (q # r /\ Holding(req[q]) /\ req[q].id = x)
      BY <2>2, <2>3
    <2>6. uses[req[r].id] = 0 /\ req[r].id \in minted
      BY <2>1, <2>3 DEF HolderExpanded, Undrawn
    <2>7. HolderExpanded'
      BY <2>1, <2>3, <2>4, <2>5, <2>6 DEF HolderExpanded, Holding
    <2>8. Undrawn'
      BY <2>1, <2>3, <2>5, <2>6 DEF Undrawn, Holding
    <2> QED
      BY <2>7, <2>8, OneHolderExpandedNext DEF HolderInv
  <1> QED
    BY <1>1, <1>2

LEMMA HolderApply ==
    ASSUME DatedInv, HolderInv, NEW r \in Requests, Apply(r)
    PROVE  HolderInv'
  <1>1. HolderExpanded /\ Undrawn
    BY OneHolderExpanded DEF HolderInv
  <1>2. req[r].pc = "held" /\ req[r].pc # "idle"
    BY DEF Apply
  <1>3. PICK id \in Ids : id = req[r].id /\ id \in minted
    BY <1>2, DatedRequest DEF RequestOK, DatedInv, Clocks
  <1>4. /\ \A q \in Requests \ {r} : req'[q] = req[q]
        /\ Holding(req[r]) /\ ~Holding(req'[r])
        /\ store' = store /\ minted' = minted
        /\ uses' = [uses EXCEPT ![id] = @ + 1]
    BY <1>3, Applies
  <1>5. \A x \in Ids : x # id => uses'[x] = uses[x]
    BY <1>4 DEF DatedInv, Clocks
  <1>6. \A q \in Requests : Holding(req'[q]) => q # r /\ Holding(req[q]) /\ req'[q].id = req[q].id
    BY <1>4
  <1>7. store[id] = NoEntry /\ \A q \in Requests : q # r => ~(Holding(req[q]) /\ req[q].id = id)
    BY <1>1, <1>3, <1>4 DEF HolderExpanded
  <1>8. HolderExpanded'
    BY <1>1, <1>4, <1>5, <1>6, <1>7 DEF HolderExpanded, Holding
  <1>9. Undrawn'
    BY <1>1, <1>3, <1>4, <1>5, <1>6 DEF Undrawn, Holding
  <1> QED
    BY <1>8, <1>9, OneHolderExpandedNext DEF HolderInv

LEMMA HolderNext == DatedInv /\ HolderInv /\ [Next]_vars => HolderInv'
  <1> SUFFICES ASSUME DatedInv, HolderInv, [Next]_vars PROVE HolderInv'
    OBVIOUS
  <1>1. HolderExpanded /\ Undrawn
    BY OneHolderExpanded DEF HolderInv
  <1>2. CASE Restart
    <2>1. \A q \in Requests : ~Holding(req'[q])
      BY <1>2 DEF Restart, Idle, Holding
    <2>2. (\A id \in Ids : store'[id] = NoEntry) /\ uses' = uses /\ minted' = minted
      BY <1>2 DEF Restart
    <2>3. HolderExpanded'
      BY <2>1, <2>2 DEF HolderExpanded, Holding
    <2>4. Undrawn'
      BY <1>1, <2>1, <2>2 DEF Undrawn, Holding
    <2> QED
      BY <2>3, <2>4, OneHolderExpandedNext DEF HolderInv
  <1>3. CASE Tick \/ UNCHANGED vars
    <2>1. UNCHANGED <<store, req, uses, minted>>
      BY <1>3 DEF Tick, vars
    <2>2. HolderExpanded'
      BY <1>1, <2>1 DEF HolderExpanded, Holding
    <2>3. Undrawn'
      BY <1>1, <2>1 DEF Undrawn, Holding
    <2> QED
      BY <2>2, <2>3, OneHolderExpandedNext DEF HolderInv
  <1>4. ASSUME NEW r \in Requests,
               \/ StageSweep(r) \/ TakeProbe(r) \/ Refuse(r) \/ Restage(r)
               \/ Reply(r) \/ Abandon(r)
               \/ \E s \in Students, id \in Ids : Confirm(r, s, id)
        PROVE  HolderInv'
    BY <1>4, OthersLetGo, HoldsNoMore
  <1> QED
    BY <1>2, <1>3, <1>4, HolderPropose, HolderStage, HolderTake, HolderApply DEF Next

\* A proposal is in the store or with one request, never both or twice, so
\* that two confirms of one id cannot both apply it.
THEOREM OneHolderHolds == Spec => []OneHolder
  <1>1. Spec => [](DatedInv /\ HolderInv)
    BY DatedInit, DatedNext, HolderInit, HolderNext, PTL DEF Spec
  <1>2. HolderInv => OneHolder
    BY DEF HolderInv
  <1> QED
    BY <1>1, <1>2, PTL

-----------------------------------------------------------------------------
(* What leaves the table, and to whom.                                     *)

\* What LeavesOnlyToItsOwner says of one id.
Leaves(id) ==
    store[id] # NoEntry /\ store'[id] = NoEntry
    /\ now < born[id] + TTL /\ backend = "postgres"

ToItsOwner(id) ==
    \E r \in Requests : /\ req[r].pc = "take" /\ req'[r].pc = "held"
                        /\ req[r].student = store[id].owner
                        /\ req[r].id = id

\* Nothing that has time left is expired at a time the clock has reached.
LEMMA TimeLeft ==
    ASSUME DatedInv, NEW id \in Ids, NEW t \in Nat, t <= now,
           store[id] # NoEntry, now < born[id] + TTL, backend = "postgres"
    PROVE  ~Expired(store[id], t)
  <1>1. store[id].created = born[id] /\ born[id] \in Nat /\ now \in Nat
    BY DEF DatedInv, RowOK, Clocks
  <1>2. ~(born[id] + TTL <= t)
    BY <1>1, Constants
  <1> QED
    BY <1>1, <1>2 DEF Expired

LEMMA SweepKeeps ==
    ASSUME DatedInv, NEW r \in Requests, StageSweep(r), NEW id \in Ids
    PROVE  ~Leaves(id)
  <1> SUFFICES ASSUME Leaves(id) PROVE FALSE
    OBVIOUS
  <1> DEFINE t == req[r].entry.created
  <1>1. Holding(req[r])
    BY DEF StageSweep, Holding
  <1>2. req[r].entry \in Entry /\ t <= now
    BY <1>1, DatedRequest DEF RequestOK, RequestType
  <1>3. t \in Nat
    BY <1>2 DEF Entry
  <1>4. ~Expired(store[id], t)
    BY <1>2, <1>3, TimeLeft DEF Leaves
  <1>5. store'[id] = store[id]
    BY <1>4 DEF StageSweep, Swept
  <1> QED
    BY <1>5 DEF Leaves

LEMMA InsertKeeps ==
    ASSUME DatedInv, NEW r \in Requests, StageInsert(r), NEW id \in Ids
    PROVE  ~Leaves(id)
  <1>1. Holding(req[r])
    BY DEF StageInsert, Holding
  <1>2. req[r].entry # NoEntry
    BY <1>1, DatedRequest DEF RequestOK
  <1>3. store' = [store EXCEPT ![req[r].id] = req[r].entry]
    BY DEF StageInsert
  <1>4. store'[id] = store[id] \/ store'[id] = req[r].entry
    BY <1>3 DEF DatedInv
  <1> QED
    BY <1>2, <1>4 DEF Leaves

LEMMA TakeHandsOver ==
    ASSUME DatedInv, NEW r \in Requests, TakeDelete(r), NEW id \in Ids, Leaves(id)
    PROVE  ToItsOwner(id)
  <1>1. req[r].pc = "take"
    BY DEF TakeDelete
  <1>2. store'[id] # store[id]
    BY DEF Leaves
  <1>3. store' = store \/ store' = [store EXCEPT ![req[r].id] = NoEntry]
    BY DEF TakeDelete, DeleteRow
  <1>4. req[r].id = id
    BY <1>2, <1>3 DEF DatedInv
  <1>5. ~Expired(store[id], req[r].time)
    <2>1. req[r].time \in Nat /\ req[r].time <= now
      BY DatedRequest DEF RequestOK, RequestType
    <2> QED
      BY <2>1, TimeLeft DEF Leaves
  <1>6. /\ store[id].owner = req[r].student
        /\ Becomes(r, [req[r] EXCEPT !.pc = "held", !.entry = store[id]])
    BY <1>2, <1>4, <1>5 DEF TakeDelete, Matches, Decoded, Becomes
  <1>7. req'[r] = [req[r] EXCEPT !.pc = "held", !.entry = store[id]]
    BY <1>6, BecomesFields
  <1>8. req'[r].pc = "held"
    BY <1>7, DatedRequest DEF RequestType
  <1> QED
    BY <1>1, <1>4, <1>6, <1>8 DEF ToItsOwner

LEMMA LeavesStep ==
    ASSUME DatedInv, [Next]_vars, NEW id \in Ids, Leaves(id)
    PROVE  ToItsOwner(id)
  <1>1. store' # store /\ backend # "memory"
    BY DEF Leaves
  <1>2. \E r \in Requests : StageSweep(r) \/ StageInsert(r) \/ TakeDelete(r)
    BY <1>1 DEF Next, vars, Propose, Confirm, StageInMemory, TakeProbe, TakeInMemory,
                Apply, Refuse, Restage, Reply, Abandon, Restart, Tick
  <1> QED
    BY <1>2, SweepKeeps, InsertKeeps, TakeHandsOver

\* A proposal that has time left leaves the table only into the hands of its
\* own student: no sweep, and no confirm by someone else, loses it.
THEOREM LeavesToItsOwner == Spec => LeavesOnlyToItsOwner
  <1>1. Spec => []DatedInv
    BY DatedInit, DatedNext, PTL DEF Spec
  <1>2. DatedInv /\ [Next]_vars =>
          [\A id \in Ids :
              LET e == store[id]
              IN  /\ e # NoEntry /\ store'[id] = NoEntry
                  /\ now < born[id] + TTL
                  /\ backend = "postgres"
                  => \E r \in Requests : /\ req[r].pc = "take" /\ req'[r].pc = "held"
                                         /\ req[r].student = e.owner
                                         /\ req[r].id = id]_vars
    BY LeavesStep DEF Leaves, ToItsOwner
  <1> QED
    BY <1>1, <1>2, PTL DEF Spec, LeavesOnlyToItsOwner

-----------------------------------------------------------------------------
(* The store implements the ledger: from outside, a step opens one         *)
(* proposal, applies one, closes some, or changes nothing.                 *)

\* What the ledger shows of an open and of an undrawn proposal.
LEMMA StatusOf ==
    ASSUME DatedInv, HolderInv, NEW id \in Ids
    PROVE  /\ uses[id] \in Nat
           /\ Open(id) => LedgerStatus(id) = "open" /\ id \in minted /\ uses[id] = 0
           /\ id \notin minted => LedgerStatus(id) = "unused" /\ ~Open(id) /\ uses[id] = 0
  <1>1. uses[id] \in Nat
    BY DEF DatedInv, Clocks
  <1>2. Open(id) => uses[id] = 0
    BY DEF HolderInv, OneHolder
  <1>3. id \notin minted => ~Open(id) /\ uses[id] = 0
    BY OpenHolding DEF HolderInv, Undrawn
  <1> QED
    BY <1>1, <1>2, <1>3 DEF LedgerStatus

LEMMA StatusNext ==
    \A id \in Ids :
        LedgerStatus(id)' = IF uses'[id] > 0 THEN "applied"
                            ELSE IF Open(id)' THEN "open"
                            ELSE IF id \in minted' THEN "closed"
                            ELSE "unused"
  BY DEF LedgerStatus

\* A step that opens nothing and applies nothing.
LEMMA ClosesOrStutters ==
    ASSUME DatedInv, HolderInv, uses' = uses, minted' = minted,
           \A id \in Ids : Open(id)' => Open(id)
    PROVE  [Ledger!LedgerNext]_(Ledger!ledgerVars)
  <1> DEFINE S == {id \in Ids : Open(id) /\ ~Open(id)'}
  <1>1. ASSUME NEW id \in Ids
        PROVE  /\ id \in S => LedgerStatus(id) = "open" /\ LedgerStatus(id)' = "closed"
               /\ id \notin S => LedgerStatus(id)' = LedgerStatus(id)
    BY StatusOf, StatusNext DEF LedgerStatus
  <1>2. CASE S = {}
    <2>1. [id \in Ids |-> LedgerStatus(id)]' = [id \in Ids |-> LedgerStatus(id)]
      BY <1>1, <1>2
    <2> QED
      BY <2>1 DEF Ledger!ledgerVars
  <1>3. CASE S # {}
    <2>1. Ledger!Close(S)
      BY <1>1, <1>3 DEF Ledger!Close
    <2> QED
      BY <2>1 DEF Ledger!LedgerNext
  <1> QED
    BY <1>2, <1>3

\* A propose opens the id it draws.
LEMMA ProposeOpens ==
    ASSUME DatedInv, HolderInv, NEW r \in Requests, NEW s \in Students, NEW id \in Ids,
           Propose(r, s, id)
    PROVE  Ledger!Open(id)
  <1>1. /\ \A q \in Requests \ {r} : req'[q] = req[q]
        /\ Holding(req'[r]) /\ req'[r].id = id /\ ~Holding(req[r])
        /\ id \notin minted /\ minted' = minted \cup {id}
        /\ store' = store /\ uses' = uses
    BY Draws
  <1>2. Open(id)'
    BY <1>1, OpenHoldingNext
  <1>3. \A x \in Ids \ {id} : Open(x)' <=> Open(x)
    BY <1>1, OpenHolding, OpenHoldingNext
  <1>4. LedgerStatus(id) = "unused" /\ LedgerStatus(id)' = "open"
    BY <1>1, <1>2, StatusOf, StatusNext
  <1>5. \A x \in Ids \ {id} : LedgerStatus(x)' = LedgerStatus(x)
    BY <1>1, <1>3, StatusNext DEF LedgerStatus
  <1> QED
    BY <1>1, <1>4, <1>5 DEF Ledger!Open

\* An open proposal that is applied is applied once.
LEMMA ApplyApplies ==
    ASSUME DatedInv, HolderInv, NEW r \in Requests, Apply(r)
    PROVE  \E id \in Ids : Ledger!Apply(id)
  <1>1. req[r].pc = "held" /\ req[r].pc # "idle"
    BY DEF Apply
  <1>2. PICK id \in Ids : id = req[r].id /\ id \in minted
    BY <1>1, DatedRequest DEF RequestOK, DatedInv, Clocks
  <1>3. /\ \A q \in Requests \ {r} : req'[q] = req[q]
        /\ Holding(req[r]) /\ ~Holding(req'[r])
        /\ store' = store /\ minted' = minted
        /\ uses' = [uses EXCEPT ![id] = @ + 1]
    BY <1>2, Applies
  <1>4. Open(id)
    BY <1>2, <1>3, OpenHolding
  <1>5. LedgerStatus(id) = "open" /\ uses[id] = 0
    BY <1>4, StatusOf
  <1>6. uses'[id] = 1 /\ \A x \in Ids \ {id} : uses'[x] = uses[x]
    BY <1>3, <1>5 DEF DatedInv, Clocks
  <1>7. LedgerStatus(id)' = "applied"
    BY <1>6, StatusNext
  <1>8. \A x \in Ids \ {id} : Open(x)' <=> Open(x)
    BY <1>2, <1>3, OpenHolding, OpenHoldingNext
  <1>9. \A x \in Ids \ {id} : LedgerStatus(x)' = LedgerStatus(x)
    BY <1>3, <1>6, <1>8, StatusNext DEF LedgerStatus
  <1>10. [x \in Ids |-> LedgerStatus(x)]' =
             [[x \in Ids |-> LedgerStatus(x)] EXCEPT ![id] = "applied"]
    BY <1>7, <1>9
  <1>11. uses' = [uses EXCEPT ![id] = uses[id] + 1]
    BY <1>3
  <1> QED
    BY <1>5, <1>10, <1>11 DEF Ledger!Apply

LEMMA LedgerStep ==
    ASSUME DatedInv, HolderInv, [Next]_vars
    PROVE  [Ledger!LedgerNext]_(Ledger!ledgerVars)
  <1>1. ASSUME NEW r \in Requests, LetsGo(r)
        PROVE  [Ledger!LedgerNext]_(Ledger!ledgerVars)
    <2>1. \A id \in Ids : Open(id)' => Open(id)
      BY <1>1, LetsGoAll, OpenHolding, OpenHoldingNext DEF LetsGo
    <2> QED
      BY <1>1, <2>1, ClosesOrStutters DEF LetsGo
  <1>2. ASSUME NEW r \in Requests, StageInsert(r) \/ StageInMemory(r)
        PROVE  [Ledger!LedgerNext]_(Ledger!ledgerVars)
    <2>1. /\ \A q \in Requests \ {r} : req'[q] = req[q]
          /\ Holding(req[r]) /\ ~Holding(req'[r]) /\ req[r].id \in Ids
          /\ \A id \in Ids : store'[id] # NoEntry => store[id] # NoEntry \/ id = req[r].id
          /\ uses' = uses /\ minted' = minted
      BY <1>2, Stages
    <2>2. \A id \in Ids : Open(id)' => Open(id)
      BY <2>1, OpenHolding, OpenHoldingNext
    <2> QED
      BY <2>1, <2>2, ClosesOrStutters
  <1>3. ASSUME NEW r \in Requests, TakeDelete(r) \/ TakeInMemory(r), ~LetsGo(r)
        PROVE  [Ledger!LedgerNext]_(Ledger!ledgerVars)
    <2>1. /\ \A q \in Requests \ {r} : req'[q] = req[q]
          /\ req'[r].id = req[r].id /\ store[req[r].id] # NoEntry
          /\ \A id \in Ids : store'[id] # NoEntry => store[id] # NoEntry
          /\ uses' = uses /\ minted' = minted
      BY <1>3, Takes
    <2>2. \A id \in Ids : Open(id)' => Open(id)
      BY <2>1, OpenHolding, OpenHoldingNext
    <2> QED
      BY <2>1, <2>2, ClosesOrStutters
  <1>4. CASE Restart \/ Tick \/ UNCHANGED vars
    <2>1. uses' = uses /\ minted' = minted
      BY <1>4 DEF Restart, Tick, vars
    <2>2. \/ \A q \in Requests : ~Holding(req'[q])
          \/ req' = req
      BY <1>4 DEF Restart, Tick, vars, Idle, Holding
    <2>3. \A id \in Ids : store'[id] # NoEntry => store[id] # NoEntry
      BY <1>4 DEF Restart, Tick, vars
    <2>4. \A id \in Ids : Open(id)' => Open(id)
      BY <2>2, <2>3, OpenHolding, OpenHoldingNext
    <2> QED
      BY <2>1, <2>4, ClosesOrStutters
  <1>5. ASSUME NEW r \in Requests,
               \/ StageSweep(r) \/ TakeProbe(r) \/ Refuse(r) \/ Restage(r)
               \/ Reply(r) \/ Abandon(r)
               \/ \E s \in Students, id \in Ids : Confirm(r, s, id)
        PROVE  [Ledger!LedgerNext]_(Ledger!ledgerVars)
    BY <1>1, <1>5, OthersLetGo
  <1>6. ASSUME NEW r \in Requests, NEW s \in Students, NEW id \in Ids, Propose(r, s, id)
        PROVE  [Ledger!LedgerNext]_(Ledger!ledgerVars)
    BY <1>6, ProposeOpens DEF Ledger!LedgerNext
  <1>7. ASSUME NEW r \in Requests, Apply(r)
        PROVE  [Ledger!LedgerNext]_(Ledger!ledgerVars)
    BY <1>7, ApplyApplies DEF Ledger!LedgerNext
  <1> QED
    BY <1>1, <1>2, <1>3, <1>4, <1>5, <1>6, <1>7 DEF Next

LEMMA LedgerStart == Init => Ledger!LedgerInit
  <1> SUFFICES ASSUME Init PROVE Ledger!LedgerInit
    OBVIOUS
  <1>1. \A id \in Ids : ~Open(id)
    BY OpenHolding DEF Init, Idle, Holding
  <1>2. \A id \in Ids : LedgerStatus(id) = "unused"
    BY <1>1 DEF Init, LedgerStatus
  <1> QED
    BY <1>2 DEF Init, Ledger!LedgerInit

\* Tenants, the clock, the statements of stage and take, lost requests and
\* restarts: a proposal is applied at most once and is never open again after
\* it was applied or closed.
THEOREM Refinement == Spec => ImplementsLedger
  <1>1. Init => Ledger!LedgerInit /\ DatedInv /\ HolderInv
    BY LedgerStart, DatedInit, HolderInit
  <1>2. DatedInv /\ HolderInv /\ [Next]_vars =>
          [Ledger!LedgerNext]_(Ledger!ledgerVars) /\ (DatedInv /\ HolderInv)'
    BY LedgerStep, DatedNext, HolderNext
  <1> QED
    BY <1>1, <1>2, PTL DEF Spec, ImplementsLedger, Ledger!LedgerSpec
=============================================================================
