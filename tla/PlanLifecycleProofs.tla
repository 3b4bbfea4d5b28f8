------------------------ MODULE PlanLifecycleProofs ------------------------
(***************************************************************************)
(* Proofs about PlanLifecycle and PlanHistory, for any number of requests  *)
(* in flight, proposals and reports, with any bounds, failures and crashes.*)
(***************************************************************************)
EXTENDS PlanHistory, FiniteSetTheorems, TLAPS

-----------------------------------------------------------------------------
(* The types.                                                              *)

\* A confirm has the id of a proposal, a propose that stages has one too, and
\* a turn that writes preferences.  TypeOK needs it: the steps of these
\* requests add the id to "pending" or "kept".
NeedsId(q) ==
    \/ q.op = "confirm"
    \/ q.pc = "stage"
    \/ q.op # "refresh" /\ q.pc \in {"prefs", "prefsWrite"}

IdsAreThere == \A r \in Requests : NeedsId(req[r]) => req[r].id \in Proposals

TypeInv == TypeOK /\ IdsAreThere

\* What TypeInv says of the requests, and of the rest.
RequestsTyped == req \in [Requests -> RequestType] /\ IdsAreThere

RestTyped ==
    /\ student \in BOOLEAN
    /\ dpr \in Dprs \cup {NoDpr}
    /\ prefs \in SUBSET Proposals
    /\ rows \in SUBSET Plan
    /\ pending \in SUBSET Proposals
    /\ minted \in SUBSET Proposals
    /\ solves \in Nat
    /\ faults \in Nat
    /\ commits \in [Proposals -> Nat]
    /\ kept \in SUBSET Proposals
    /\ refused \in SUBSET Proposals

LEMMA TypeInvSplit == TypeInv <=> RequestsTyped /\ RestTyped
  BY DEF TypeInv, TypeOK, RequestsTyped, RestTyped

LEMMA TypeInvSplitNext == TypeInv' <=> RequestsTyped' /\ RestTyped'
  BY DEF TypeInv, TypeOK, RequestsTyped, RestTyped

LEMMA RequestOf ==
    ASSUME TypeInv, NEW r \in Requests
    PROVE  req[r] \in RequestType /\ (NeedsId(req[r]) => req[r].id \in Proposals)
  BY DEF TypeInv, TypeOK, IdsAreThere

\* Requests of the right type stay so when one of them is replaced.
LEMMA ReplaceRequest ==
    ASSUME TypeInv, NEW r \in Requests, NEW v \in RequestType,
           req' = [req EXCEPT ![r] = v],
           NeedsId(v) => v.id \in Proposals
    PROVE  RequestsTyped'
  <1>1. req' \in [Requests -> RequestType]
    BY DEF TypeInv, TypeOK
  <1>2. \A q \in Requests : req'[q] = IF q = r THEN v ELSE req[q]
    BY DEF TypeInv, TypeOK
  <1>3. ASSUME NEW q \in Requests, NeedsId(req'[q])
        PROVE  req'[q].id \in Proposals
    <2>1. CASE q = r
      BY <1>2, <1>3, <2>1
    <2>2. CASE q # r
      BY <1>2, <1>3, <2>2, RequestOf
    <2> QED
      BY <2>1, <2>2
  <1> QED
    BY <1>1, <1>3 DEF RequestsTyped, IdsAreThere, NeedsId

\* The program counter may move to any place that asks for no id.
Anywhere == Pcs \ {"stage", "prefs", "prefsWrite"}

LEMMA MovePc ==
    ASSUME TypeInv, NEW r \in Requests, NEW pc \in Anywhere, Goto(r, pc)
    PROVE  RequestsTyped'
  <1> DEFINE v == [req[r] EXCEPT !.pc = pc]
  <1>1. v \in RequestType /\ v.pc = pc /\ v.op = req[r].op /\ v.id = req[r].id
    BY RequestOf DEF RequestType, Anywhere
  <1>2. NeedsId(v) => v.id \in Proposals
    BY <1>1, RequestOf DEF NeedsId, Anywhere
  <1>3. req' = [req EXCEPT ![r] = v]
    BY DEF Goto
  <1> QED
    BY <1>1, <1>2, <1>3, ReplaceRequest

LEMMA AnswerTyped ==
    ASSUME TypeInv, NEW r \in Requests, NEW a \in Answers, Answer(r, a)
    PROVE  RequestsTyped'
  <1> DEFINE v == [req[r] EXCEPT !.pc = "done", !.res = a]
  <1>1. v \in RequestType /\ v.pc = "done" /\ v.op = req[r].op /\ v.id = req[r].id
    BY RequestOf DEF RequestType, Pcs
  <1>2. NeedsId(v) => v.id \in Proposals
    BY <1>1, RequestOf DEF NeedsId
  <1>3. req' = [req EXCEPT ![r] = v]
    BY DEF Answer
  <1> QED
    BY <1>1, <1>2, <1>3, ReplaceRequest

\* A step that only moves or ends its request.
LEMMA MoveOrEnd ==
    ASSUME TypeInv, NEW r \in Requests,
           \/ \E pc \in Anywhere : Goto(r, pc)
           \/ \E a \in Answers : Answer(r, a)
    PROVE  RequestsTyped'
  BY MovePc, AnswerTyped

\* Every plan that a solve computes is a plan.
LEMMA SolveTyped ==
    ASSUME TypeInv, NEW r \in Requests, NEW id \in Ids,
           NEW S \in SUBSET Proposals, NEW valid \in BOOLEAN
    PROVE  Solve(r, id, S, valid) \in Plan
  BY DEF TypeInv, TypeOK, RequestType, Solve, Plan, Ids

LEMMA IdleTyped == Idle \in RequestType /\ ~NeedsId(Idle)
  BY DEF Idle, RequestType, Pcs, Ids, Plan, NoPlan, Answers, NeedsId

LEMMA BeginTyped ==
    ASSUME TypeInv, NEW r \in Requests, NEW id \in Ids, NEW d \in Dprs \cup {NoDpr},
           NEW op \in {"propose", "confirm", "turn", "refresh"},
           op = "confirm" => id \in Proposals,
           NEW pc \in Anywhere, Begin(r, op, pc, id, d)
    PROVE  RequestsTyped'
  <1> DEFINE v == [Idle EXCEPT !.op = op, !.pc = pc, !.id = id, !.dpr = d]
  <1>1. v \in RequestType
    BY DEF Idle, RequestType, Ids, Plan, NoPlan, Answers, Anywhere
  <1>2. v.pc = pc /\ v.op = op /\ v.id = id
    BY DEF Idle
  <1>3. NeedsId(v) => v.id \in Proposals
    BY <1>2 DEF NeedsId, Anywhere
  <1>4. req' = [req EXCEPT ![r] = v]
    BY DEF Begin
  <1> QED
    BY <1>1, <1>3, <1>4, ReplaceRequest

\* A verdict moves the request to the store or ends it.
LEMMA VerdictTyped ==
    ASSUME TypeInv, NEW r \in Requests, req[r].id \in Proposals,
           NEW S \in SUBSET Proposals, NEW valid \in BOOLEAN,
           Verdict(r, req[r].id, S, valid)
    PROVE  RequestsTyped' /\ refused' \in SUBSET Proposals
  <1> DEFINE id == req[r].id
             edited == IF id \in Edits THEN S \cup {id} ELSE S
             plan == Solve(r, id, edited, valid)
             v == [req[r] EXCEPT !.plan = plan, !.prefs = edited, !.pc = "supersede"]
  <1>1. edited \in SUBSET Proposals /\ id \in Ids
    BY DEF Ids
  <1>2. plan \in Plan
    BY <1>1, SolveTyped
  <1>3. CASE valid
    <2>1. req' = [req EXCEPT ![r] = v] /\ refused' = refused
      BY <1>3 DEF Verdict
    <2>2. v \in RequestType /\ v.id \in Proposals
      BY <1>1, <1>2, RequestOf DEF RequestType, Pcs
    <2> QED
      BY <2>1, <2>2, ReplaceRequest DEF TypeInv, TypeOK
  <1>4. CASE ~valid
    <2>1. Answer(r, "infeasible") /\ refused' = refused \cup (({id} \cap Edits) \ prefs)
      BY <1>4 DEF Verdict
    <2> QED
      BY <2>1, AnswerTyped DEF TypeInv, TypeOK, Answers
  <1> QED
    BY <1>3, <1>4

\* What follows a write of the plan, and a write of the preferences.
LEMMA AfterPersistTyped ==
    ASSUME TypeInv, NEW r \in Requests, Writer(r), NEW ok \in BOOLEAN, AfterPersist(r, ok)
    PROVE  RequestsTyped'
  <1>1. CASE ConfirmsEdit(r)
    <2> DEFINE v == [req[r] EXCEPT !.pc = "prefs"]
    <2>1. req' = [req EXCEPT ![r] = v]
      BY <1>1 DEF AfterPersist, ConfirmsEdit, Goto
    <2>2. v \in RequestType /\ v.id \in Proposals
      BY <1>1, RequestOf DEF RequestType, Pcs, ConfirmsEdit, Edits
    <2> QED
      BY <2>1, <2>2, ReplaceRequest
  <1>2. CASE ~ConfirmsEdit(r)
    <2>1. Goto(r, "agent") \/ Goto(r, "restage") \/ Answer(r, "changed") \/ Answer(r, "applied")
      BY <1>2 DEF AfterPersist, Writer, ConfirmsEdit
    <2> QED
      BY <2>1, MoveOrEnd DEF Pcs, Answers, Anywhere
  <1> QED
    BY <1>1, <1>2

LEMMA AfterPrefsTyped ==
    ASSUME TypeInv, NEW r \in Requests, Writer(r), AfterPrefs(r)
    PROVE  RequestsTyped'
  <1>1. Goto(r, "agent") \/ Goto(r, "replan") \/ Answer(r, "applied")
    BY DEF AfterPrefs, Writer
  <1> QED
    BY <1>1, MoveOrEnd DEF Pcs, Answers, Anywhere

\* The steps of a propose and of a confirm up to the verdict.
LEMMA ProposeConfirmTyped ==
    ASSUME TypeInv, NEW r \in Requests,
           \/ ProposeLoadPlan(r) \/ ProposeStage(r)
           \/ ConfirmLoadDpr(r) \/ ConfirmLoadPlan(r) \/ ConfirmSolve(r)
           \/ ConfirmEngineError(r) \/ ConfirmRestage(r)
    PROVE  TypeInv'
  <1> USE TypeInvSplit
  <1>1. CASE ProposeLoadPlan(r)
    <2>1. RestTyped'
      <3>1. minted' \in SUBSET Proposals
        <4>1. minted' = minted \/ \E p \in Proposals \ minted : minted' = minted \cup {p}
          BY <1>1, Zenon DEF ProposeLoadPlan
        <4> QED
          BY <4>1 DEF RestTyped
      <3>2. faults' \in Nat
        BY <1>1 DEF ProposeLoadPlan, RestTyped, Fault, NoFault
      <3> QED
        BY <1>1, <3>1, <3>2 DEF ProposeLoadPlan, RestTyped, db, history
    <2>2. CASE Answer(r, "error")
      BY <2>1, <2>2, MoveOrEnd, TypeInvSplitNext DEF Answers
    <2>3. ASSUME NEW p \in Proposals \ minted,
                 req' = [req EXCEPT ![r].id = p, ![r].pc = "stage"]
          PROVE  TypeInv'
      <3> DEFINE v == [req[r] EXCEPT !.id = p, !.pc = "stage"]
      <3>1. v \in RequestType /\ v.id \in Proposals
        BY RequestOf DEF RequestType, Pcs, Ids
      <3>2. req' = [req EXCEPT ![r] = v]
        BY <2>3
      <3> QED
        BY <2>1, <3>1, <3>2, ReplaceRequest, TypeInvSplitNext
    <2> QED
      BY <1>1, <2>2, <2>3 DEF ProposeLoadPlan
  <1>2. CASE ProposeStage(r)
    <2>1. NeedsId(req[r]) /\ (Answer(r, "staged") \/ Answer(r, "error"))
      BY <1>2 DEF ProposeStage, At, NeedsId
    <2>2. RequestsTyped'
      BY <2>1, MoveOrEnd DEF Anywhere, Pcs, Answers
    <2>3. RestTyped'
      BY <1>2, <2>1, RequestOf DEF ProposeStage, RestTyped, db, history, Fault, NoFault
    <2> QED
      BY <2>2, <2>3, TypeInvSplitNext
  <1>3. CASE ConfirmLoadDpr(r)
    <2> DEFINE v == [req[r] EXCEPT !.dpr = dpr, !.pc = "loadPlan"]
    <2>1. v \in RequestType /\ v.id \in Proposals
      BY <1>3, RequestOf DEF ConfirmLoadDpr, At, RestTyped, RequestType, Pcs, NeedsId
    <2>2. req' = [req EXCEPT ![r] = v] \/ Goto(r, "restage")
      BY <1>3 DEF ConfirmLoadDpr
    <2>3. RequestsTyped'
      BY <2>1, <2>2, ReplaceRequest, MoveOrEnd DEF Anywhere, Pcs, Answers
    <2>4. RestTyped'
      BY <1>3 DEF ConfirmLoadDpr, RestTyped, db, history, Fault, NoFault
    <2> QED
      BY <2>3, <2>4, TypeInvSplitNext
  <1>4. CASE ConfirmLoadPlan(r)
    <2>1. Goto(r, "solve") \/ Goto(r, "restage")
      BY <1>4 DEF ConfirmLoadPlan
    <2>2. RequestsTyped'
      BY <2>1, MoveOrEnd DEF Anywhere, Pcs, Answers
    <2>3. RestTyped'
      BY <1>4 DEF ConfirmLoadPlan, RestTyped, db, history, Fault, NoFault
    <2> QED
      BY <2>2, <2>3, TypeInvSplitNext
  <1>5. CASE ConfirmSolve(r)
    <2>1. PICK S \in SUBSET Proposals, valid \in BOOLEAN : Verdict(r, req[r].id, S, valid)
      BY <1>5 DEF ConfirmSolve, RestTyped
    <2>2. req[r].id \in Proposals
      BY <1>5, RequestOf DEF ConfirmSolve, At, NeedsId
    <2>3. RequestsTyped' /\ refused' \in SUBSET Proposals
      BY <2>1, <2>2, VerdictTyped
    <2>4. RestTyped'
      BY <1>5, <2>3 DEF ConfirmSolve, RestTyped, db, Fault, NoFault
    <2> QED
      BY <2>3, <2>4, TypeInvSplitNext
  <1>6. CASE ConfirmEngineError(r)
    <2>1. Goto(r, "restage")
      BY <1>6 DEF ConfirmEngineError
    <2>2. RequestsTyped'
      BY <2>1, MoveOrEnd DEF Anywhere, Pcs, Answers
    <2>3. RestTyped'
      BY <1>6 DEF ConfirmEngineError, RestTyped, db, history, Fault, NoFault
    <2> QED
      BY <2>2, <2>3, TypeInvSplitNext
  <1>7. CASE ConfirmRestage(r)
    <2>1. NeedsId(req[r]) /\ Answer(r, "error")
      BY <1>7 DEF ConfirmRestage, At, NeedsId
    <2>2. RequestsTyped'
      BY <2>1, MoveOrEnd DEF Anywhere, Pcs, Answers
    <2>3. RestTyped'
      BY <1>7, <2>1, RequestOf DEF ConfirmRestage, RestTyped, db, history, Fault, NoFault
    <2> QED
      BY <2>2, <2>3, TypeInvSplitNext
  <1> QED
    BY <1>1, <1>2, <1>3, <1>4, <1>5, <1>6, <1>7

\* The writes of a plan and of preferences.
LEMMA WritesTyped ==
    ASSUME TypeInv, NEW r \in Requests,
           \/ PersistSupersede(r) \/ PersistCommit(r) \/ PersistFail(r)
           \/ PrefsEnsureStudent(r) \/ PersistPrefs(r)
    PROVE  TypeInv'
  <1> USE TypeInvSplit
  <1>1. CASE PersistSupersede(r)
    <2> DEFINE v == [req[r] EXCEPT !.snap = rows, !.made = ~student, !.pc = "commit"]
    <2>1. v \in RequestType /\ (NeedsId(v) => v.id \in Proposals)
      BY <1>1, RequestOf, ZenonT(60) DEF PersistSupersede, At, RestTyped, RequestType, Pcs, NeedsId
    <2>2. req' = [req EXCEPT ![r] = v]
      BY <1>1 DEF PersistSupersede
    <2>3. RequestsTyped'
      BY <2>1, <2>2, ReplaceRequest
    <2>4. RestTyped'
      BY <1>1 DEF PersistSupersede, RestTyped, db, history, Fault, NoFault
    <2> QED
      BY <2>3, <2>4, TypeInvSplitNext
  <1>2. CASE PersistCommit(r)
    <2>1. RequestsTyped'
      BY <1>2, AfterPersistTyped DEF PersistCommit
    <2>2. req[r].plan \in Plan
      BY RequestOf DEF RequestType
    <2>3. RestTyped'
      <3>1. commits' = commits \/ commits' = [commits EXCEPT ![req[r].id] = @ + 1]
        BY <1>2 DEF PersistCommit
      <3>4. commits' \in [Proposals -> Nat]
        BY <3>1 DEF RestTyped
      <3>2. student' \in BOOLEAN
        BY <1>2 DEF PersistCommit
      <3>3. rows' \in SUBSET Plan
        BY <1>2, <2>2 DEF PersistCommit, RestTyped
      <3> QED
        BY <1>2, <3>2, <3>3, <3>4 DEF PersistCommit, RestTyped
    <2> QED
      BY <2>1, <2>3, TypeInvSplitNext
  <1>3. CASE PersistFail(r)
    <2>1. RequestsTyped'
      BY <1>3, AfterPersistTyped DEF PersistFail
    <2>2. RestTyped'
      BY <1>3 DEF PersistFail, RestTyped, db, history, Fault, NoFault
    <2> QED
      BY <2>1, <2>2, TypeInvSplitNext
  <1>4. CASE PrefsEnsureStudent(r)
    <2>1. RestTyped'
      <3>1. faults' \in Nat
        BY <1>4 DEF PrefsEnsureStudent, RestTyped, Fault, NoFault
      <3>2. student' \in BOOLEAN
        BY <1>4, Zenon DEF PrefsEnsureStudent, RestTyped
      <3> QED
        BY <1>4, <3>1, <3>2 DEF PrefsEnsureStudent, RestTyped, history
    <2>2. CASE AfterPrefs(r)
      BY <1>4, <2>1, <2>2, AfterPrefsTyped, TypeInvSplitNext DEF PrefsEnsureStudent
    <2>3. CASE Goto(r, "prefsWrite")
      <3> DEFINE v == [req[r] EXCEPT !.pc = "prefsWrite"]
      <3>1. v \in RequestType /\ v.op = req[r].op /\ v.id = req[r].id /\ v.pc = "prefsWrite"
        BY RequestOf DEF RequestType, Pcs
      <3>2. NeedsId(v) => v.id \in Proposals
        BY <1>4, <3>1, RequestOf DEF PrefsEnsureStudent, NeedsId
      <3>3. req' = [req EXCEPT ![r] = v]
        BY <2>3 DEF Goto
      <3> QED
        BY <2>1, <3>1, <3>2, <3>3, ReplaceRequest, TypeInvSplitNext
    <2> QED
      BY <1>4, <2>2, <2>3 DEF PrefsEnsureStudent
  <1>5. CASE PersistPrefs(r)
    <2>1. RequestsTyped'
      BY <1>5, AfterPrefsTyped DEF PersistPrefs
    <2>2. req[r].prefs \in SUBSET Proposals
      BY RequestOf DEF RequestType
    <2>3. req[r].op # "refresh" => req[r].id \in Proposals
      BY <1>5, RequestOf DEF PersistPrefs, NeedsId
    <2>4. RestTyped'
      BY <1>5, <2>2, <2>3 DEF PersistPrefs, RestTyped, Fault, NoFault
    <2> QED
      BY <2>1, <2>4, TypeInvSplitNext
  <1> QED
    BY <1>1, <1>2, <1>3, <1>4, <1>5

\* The steps of a chat turn before and between its writes.
LEMMA TurnTyped ==
    ASSUME TypeInv, NEW r \in Requests,
           \/ TurnLoadPlan(r) \/ TurnLoadPrefs(r) \/ TurnCheckProfile(r)
           \/ TurnBootstrap(r) \/ TurnBuild(r) \/ TurnEnd(r)
           \/ \E p \in Proposals : TurnConfirm(r, p)
    PROVE  TypeInv'
  <1> USE TypeInvSplit
  <1>1. CASE TurnLoadPlan(r)
    <2> DEFINE v == [req[r] EXCEPT !.base = (rows # {}), !.pc = "loadPrefs"]
    <2>1. v \in RequestType /\ ~NeedsId(v)
      BY <1>1, RequestOf DEF TurnLoadPlan, At, RestTyped, RequestType, Pcs, NeedsId
    <2>2. req' = [req EXCEPT ![r] = v] \/ Goto(r, "boot")
      BY <1>1 DEF TurnLoadPlan
    <2>3. RequestsTyped'
      BY <2>1, <2>2, ReplaceRequest, MoveOrEnd DEF Anywhere, Pcs, Answers
    <2>4. RestTyped'
      BY <1>1 DEF TurnLoadPlan, RestTyped, db, history, Fault, NoFault
    <2> QED
      BY <2>3, <2>4, TypeInvSplitNext
  <1>2. CASE TurnLoadPrefs(r)
    <2> DEFINE v == [req[r] EXCEPT !.prefs = prefs, !.pc = "boot"]
    <2>1. v \in RequestType /\ ~NeedsId(v)
      BY <1>2, RequestOf DEF TurnLoadPrefs, At, RestTyped, RequestType, Pcs, NeedsId
    <2>2. req' = [req EXCEPT ![r] = v] \/ Goto(r, "boot")
      BY <1>2 DEF TurnLoadPrefs
    <2>3. RequestsTyped'
      BY <2>1, <2>2, ReplaceRequest, MoveOrEnd DEF Anywhere, Pcs, Answers
    <2>4. RestTyped'
      BY <1>2 DEF TurnLoadPrefs, RestTyped, db, history, Fault, NoFault
    <2> QED
      BY <2>3, <2>4, TypeInvSplitNext
  <1>3. CASE TurnCheckProfile(r)
    <2>1. Goto(r, "agent") \/ Goto(r, "bootWrite")
      BY <1>3 DEF TurnCheckProfile
    <2>2. RequestsTyped'
      BY <2>1, MoveOrEnd DEF Anywhere, Pcs, Answers
    <2>3. RestTyped'
      BY <1>3 DEF TurnCheckProfile, RestTyped, db, history, Fault, NoFault
    <2> QED
      BY <2>2, <2>3, TypeInvSplitNext
  <1>4. CASE TurnBootstrap(r)
    <2>1. Goto(r, "agent")
      BY <1>4 DEF TurnBootstrap
    <2>2. RequestsTyped'
      BY <2>1, MoveOrEnd DEF Anywhere, Pcs, Answers
    <2>3. RestTyped'
      <3>1. faults' \in Nat
        BY <1>4 DEF TurnBootstrap, RestTyped, Fault, NoFault
      <3>2. req[r].dpr \in Dprs \cup {NoDpr}
        BY RequestOf DEF RequestType
      <3>3. student' \in BOOLEAN /\ dpr' \in Dprs \cup {NoDpr}
        BY <1>4, <3>2, Zenon DEF TurnBootstrap, RestTyped
      <3> QED
        BY <1>4, <3>1, <3>3 DEF TurnBootstrap, RestTyped, history
    <2> QED
      BY <2>2, <2>3, TypeInvSplitNext
  <1>5. CASE TurnBuild(r)
    <2>1. PICK valid \in BOOLEAN :
            req' = [req EXCEPT ![r].id = NoId,
                               ![r].plan = Solve(r, NoId, req[r].prefs, valid),
                               ![r].base = TRUE, ![r].pc = "supersede"]
      BY <1>5 DEF TurnBuild
    <2> DEFINE plan == Solve(r, NoId, req[r].prefs, valid)
               v == [req[r] EXCEPT !.id = NoId, !.plan = plan, !.base = TRUE, !.pc = "supersede"]
    <2>2. plan \in Plan
      BY RequestOf, SolveTyped DEF RequestType, Ids
    <2>3. v \in RequestType /\ ~NeedsId(v)
      BY <1>5, <2>2, RequestOf DEF TurnBuild, At, RequestType, Pcs, Ids, NeedsId
    <2>4. RequestsTyped'
      <3>1. req' = [req EXCEPT ![r] = v]
        BY <2>1
      <3> QED
        BY <2>3, <3>1, ReplaceRequest
    <2>5. RestTyped'
      <3>1. solves' = solves + 1
        BY <1>5, Zenon DEF TurnBuild
      <3>2. UNCHANGED <<db, minted, faults, history>>
        BY <1>5, Zenon DEF TurnBuild
      <3> QED
        BY <3>1, <3>2 DEF RestTyped, db, history
    <2> QED
      BY <2>4, <2>5, TypeInvSplitNext
  <1>6. CASE TurnEnd(r)
    <2>1. Answer(r, "replied")
      BY <1>6 DEF TurnEnd
    <2>2. RequestsTyped'
      BY <2>1, MoveOrEnd DEF Anywhere, Pcs, Answers
    <2>3. RestTyped'
      BY <1>6 DEF TurnEnd, RestTyped, db, history, Fault, NoFault
    <2> QED
      BY <2>2, <2>3, TypeInvSplitNext
  <1>7. ASSUME NEW p \in Proposals, TurnConfirm(r, p)
        PROVE  TypeInv'
    <2> DEFINE edited == req[r].prefs \cup {p}
               plan == Solve(r, p, edited, TRUE)
               v == [req[r] EXCEPT !.id = p, !.prefs = edited, !.plan = plan, !.pc = "supersede"]
               w == [req[r] EXCEPT !.prefs = edited]
    <2>1. edited \in SUBSET Proposals /\ p \in Ids
      BY RequestOf DEF RequestType, Ids
    <2>2. plan \in Plan
      BY <2>1, SolveTyped
    <2>3. v \in RequestType /\ v.id \in Proposals
      BY <2>1, <2>2, RequestOf DEF RequestType, Pcs
    <2>4. w \in RequestType /\ ~NeedsId(w)
      BY <1>7, <2>1, RequestOf DEF TurnConfirm, At, RequestType, NeedsId
    <2>5. req' = [req EXCEPT ![r] = v] \/ req' = [req EXCEPT ![r] = w]
      BY <1>7 DEF TurnConfirm
    <2>6. RequestsTyped'
      BY <2>3, <2>4, <2>5, ReplaceRequest
    <2>7. RestTyped'
      <3>1. solves' = solves + 1
        BY <1>7, Zenon DEF TurnConfirm
      <3>2. refused' = refused \/ refused' = refused \cup ({p} \ prefs)
        BY <1>7, Zenon DEF TurnConfirm
      <3>3. UNCHANGED <<db, minted, faults, commits, kept>>
        BY <1>7, Zenon DEF TurnConfirm
      <3> QED
        BY <3>1, <3>2, <3>3 DEF RestTyped, db
    <2> QED
      BY <2>6, <2>7, TypeInvSplitNext
  <1> QED
    BY <1>1, <1>2, <1>3, <1>4, <1>5, <1>6, <1>7

\* The steps of a DPR refresh before its writes of preferences and plan.
LEMMA RefreshTyped ==
    ASSUME TypeInv, NEW r \in Requests,
           \/ RefreshCompare(r) \/ RefreshPersistDpr(r) \/ RefreshClear(r)
           \/ RefreshPruneRead(r) \/ RefreshReplan(r)
    PROVE  TypeInv'
  <1> USE TypeInvSplit
  <1>1. CASE RefreshCompare(r)
    <2>1. Answer(r, "unchanged") \/ Goto(r, "persistDpr")
      BY <1>1 DEF RefreshCompare
    <2>2. RequestsTyped'
      BY <2>1, MoveOrEnd DEF Anywhere, Pcs, Answers
    <2>3. RestTyped'
      BY <1>1 DEF RefreshCompare, RestTyped, db, history, Fault, NoFault
    <2> QED
      BY <2>2, <2>3, TypeInvSplitNext
  <1>2. CASE RefreshPersistDpr(r)
    <2>1. Goto(r, "clear") \/ Answer(r, "error")
      BY <1>2 DEF RefreshPersistDpr
    <2>2. RequestsTyped'
      BY <2>1, MoveOrEnd DEF Anywhere, Pcs, Answers
    <2>3. RestTyped'
      <3>1. faults' \in Nat
        BY <1>2 DEF RefreshPersistDpr, RestTyped, Fault, NoFault
      <3>2. req[r].dpr \in Dprs \cup {NoDpr}
        BY RequestOf DEF RequestType
      <3>3. student' \in BOOLEAN /\ dpr' \in Dprs \cup {NoDpr}
        BY <1>2, <3>2, Zenon DEF RefreshPersistDpr, RestTyped
      <3> QED
        BY <1>2, <3>1, <3>3 DEF RefreshPersistDpr, RestTyped, history
    <2> QED
      BY <2>2, <2>3, TypeInvSplitNext
  <1>3. CASE RefreshClear(r)
    <2>1. Goto(r, "pruneRead")
      BY <1>3 DEF RefreshClear
    <2>2. RequestsTyped'
      BY <2>1, MoveOrEnd DEF Anywhere, Pcs, Answers
    <2>3. RestTyped'
      BY <1>3 DEF RefreshClear, RestTyped, db, history, Fault, NoFault
    <2> QED
      BY <2>2, <2>3, TypeInvSplitNext
  <1>4. CASE RefreshPruneRead(r)
    <2> DEFINE pruned == prefs \ Completed[req[r].dpr]
               pc == IF pruned = prefs THEN "replan" ELSE "prefs"
               v == [req[r] EXCEPT !.prefs = pruned, !.pc = pc]
    <2>1. pc \in Pcs /\ pruned \in SUBSET Proposals
      BY DEF Pcs, RestTyped
    <2>2. v \in RequestType /\ v.op = "refresh" /\ v.pc # "stage"
      BY <1>4, <2>1, RequestOf DEF RefreshPruneRead, At, RequestType
    <2>3. ~NeedsId(v)
      BY <2>2 DEF NeedsId
    <2>4. req' = [req EXCEPT ![r] = v] \/ Goto(r, "replan")
      BY <1>4 DEF RefreshPruneRead
    <2>5. RequestsTyped'
      BY <2>2, <2>3, <2>4, ReplaceRequest, MoveOrEnd DEF Anywhere, Pcs
    <2>6. RestTyped'
      BY <1>4 DEF RefreshPruneRead, RestTyped, db, history, Fault, NoFault
    <2> QED
      BY <2>5, <2>6, TypeInvSplitNext
  <1>5. CASE RefreshReplan(r)
    <2>1. RestTyped'
      BY <1>5 DEF RefreshReplan, RestTyped, db, history, Fault, NoFault
    <2>2. CASE Answer(r, "error")
      BY <2>1, <2>2, MoveOrEnd, TypeInvSplitNext DEF Answers
    <2>3. ASSUME NEW valid \in BOOLEAN,
                 req' = [req EXCEPT ![r].plan = Solve(r, NoId, req[r].prefs, valid),
                                    ![r].pc = "supersede"]
          PROVE  TypeInv'
      <3> DEFINE plan == Solve(r, NoId, req[r].prefs, valid)
                 v == [req[r] EXCEPT !.plan = plan, !.pc = "supersede"]
      <3>1. plan \in Plan
        BY RequestOf, SolveTyped DEF RequestType, Ids
      <3>2. v \in RequestType /\ ~NeedsId(v)
        BY <1>5, <3>1, RequestOf DEF RefreshReplan, At, RequestType, Pcs, NeedsId
      <3>3. req' = [req EXCEPT ![r] = v]
        BY <2>3
      <3> QED
        BY <2>1, <3>2, <3>3, ReplaceRequest, TypeInvSplitNext
    <2> QED
      BY <1>5, <2>2, <2>3 DEF RefreshReplan
  <1> QED
    BY <1>1, <1>2, <1>3, <1>4, <1>5

\* The first step of a request, the deletion, its end and its death.
LEMMA StartOrCrashTyped ==
    ASSUME TypeInv, NEW r \in Requests, Start(r) \/ Reply(r) \/ Crash(r)
    PROVE  TypeInv'
  <1> USE TypeInvSplit
  <1>1. CASE ProposeLoadDpr(r)
    <2>1. Begin(r, "propose", "loadPlan", NoId, NoDpr)
      BY <1>1 DEF ProposeLoadDpr
    <2>2. RequestsTyped'
      BY <2>1, BeginTyped DEF Ids, Pcs, Anywhere
    <2>3. RestTyped'
      BY <1>1 DEF ProposeLoadDpr, RestTyped, db, history
    <2> QED
      BY <2>2, <2>3, TypeInvSplitNext
  <1>2. ASSUME NEW p \in Proposals, ConfirmTake(r, p)
        PROVE  TypeInv'
    <2>1. Begin(r, "confirm", "loadDpr", p, NoDpr)
      BY <1>2 DEF ConfirmTake
    <2>2. RequestsTyped'
      BY <2>1, BeginTyped DEF Ids, Pcs, Anywhere
    <2>3. RestTyped'
      BY <1>2 DEF ConfirmTake, RestTyped, history
    <2> QED
      BY <2>2, <2>3, TypeInvSplitNext
  <1>3. ASSUME NEW d \in Dprs, TurnStart(r, d)
        PROVE  TypeInv'
    <2>1. Begin(r, "turn", "load", NoId, d)
      BY <1>3 DEF TurnStart
    <2>2. RequestsTyped'
      BY <2>1, BeginTyped DEF Ids, Pcs, Anywhere
    <2>3. RestTyped'
      BY <1>3 DEF TurnStart, RestTyped, db, history
    <2> QED
      BY <2>2, <2>3, TypeInvSplitNext
  <1>4. ASSUME NEW d \in Dprs, RefreshStart(r, d)
        PROVE  TypeInv'
    <2>1. Begin(r, "refresh", "compare", NoId, d)
      BY <1>4 DEF RefreshStart
    <2>2. RequestsTyped'
      BY <2>1, BeginTyped DEF Ids, Pcs, Anywhere
    <2>3. RestTyped'
      BY <1>4 DEF RefreshStart, RestTyped, db, history
    <2> QED
      BY <2>2, <2>3, TypeInvSplitNext
  <1>5. CASE DeleteAccount(r)
    <2>1. RequestsTyped'
      BY <1>5 DEF DeleteAccount, RequestsTyped, IdsAreThere, NeedsId
    <2>2. RestTyped'
      BY <1>5 DEF DeleteAccount, RestTyped
    <2> QED
      BY <2>1, <2>2, TypeInvSplitNext
  <1>6. CASE Reply(r) \/ Crash(r)
    <2>1. req' = [req EXCEPT ![r] = Idle]
      BY <1>6 DEF Reply, Crash
    <2>2. RequestsTyped'
      BY <2>1, IdleTyped, ReplaceRequest
    <2>3. RestTyped'
      BY <1>6 DEF Reply, Crash, RestTyped, db, history, Fault
    <2> QED
      BY <2>2, <2>3, TypeInvSplitNext
  <1> QED
    BY <1>1, <1>2, <1>3, <1>4, <1>5, <1>6 DEF Start

LEMMA TypeInit == Init => TypeInv
  <1> SUFFICES ASSUME Init PROVE TypeInv
    OBVIOUS
  <1>1. RequestsTyped
    BY IdleTyped DEF Init, RequestsTyped, IdsAreThere
  <1>2. RestTyped
    BY DEF Init, RestTyped
  <1> QED
    BY <1>1, <1>2, TypeInvSplit

LEMMA TypeNext == TypeInv /\ [Next]_vars => TypeInv'
  <1> SUFFICES ASSUME TypeInv, [Next]_vars PROVE TypeInv'
    OBVIOUS
  <1>1. ASSUME NEW r \in Requests, Start(r) \/ Step(r) \/ Crash(r)
        PROVE  TypeInv'
    BY <1>1, ProposeConfirmTyped, WritesTyped, TurnTyped, RefreshTyped,
       StartOrCrashTyped DEF Step
  <1>2. ASSUME NEW p \in Proposals, Expire(p)
        PROVE  TypeInv'
    <2>1. RequestsTyped'
      BY <1>2, TypeInvSplit DEF Expire, RequestsTyped, IdsAreThere, NeedsId
    <2>2. RestTyped'
      BY <1>2, TypeInvSplit DEF Expire, RestTyped, history
    <2> QED
      BY <2>1, <2>2, TypeInvSplitNext
  <1>3. CASE UNCHANGED vars
    <2>1. RequestsTyped'
      BY <1>3, TypeInvSplit DEF vars, RequestsTyped, IdsAreThere, NeedsId
    <2>2. RestTyped'
      BY <1>3, TypeInvSplit DEF vars, db, history, RestTyped
    <2> QED
      BY <2>1, <2>2, TypeInvSplitNext
  <1>4. CASE VerifyOtp
    <2>1. RequestsTyped'
      BY <1>4, TypeInvSplit DEF VerifyOtp, RequestsTyped, IdsAreThere, NeedsId
    <2>2. RestTyped'
      BY <1>4, TypeInvSplit DEF VerifyOtp, RestTyped, history
    <2> QED
      BY <2>1, <2>2, TypeInvSplitNext
  <1> QED
    BY <1>1, <1>2, <1>3, <1>4 DEF Next, Rest

\* The variables hold what their declarations say: whatever the requests do,
\* nothing that is not an edit gets into the stored preferences, and every
\* stored row is a plan.
THEOREM TypeCorrect == Spec => []TypeOK
  <1>1. Spec => []TypeInv
    BY TypeInit, TypeNext, PTL DEF Spec
  <1>2. TypeInv => TypeOK
    BY DEF TypeInv
  <1> QED
    BY <1>1, <1>2, PTL

-----------------------------------------------------------------------------
(* A proposal is used once.                                                *)
(*                                                                         *)
(* SingleUse says that a proposal is held in one place, and that while it  *)
(* is held no plan of it was stored.  A step could break that only by      *)
(* holding a proposal that it did not hold before; the one that does,      *)
(* ProposeLoadPlan, draws the id.  So the invariant adds that an id not    *)
(* yet drawn is nowhere.                                                   *)

\* The request q is in a place where it holds the proposal q.id.
Holding(q) ==
    \/ q.op = "propose" /\ q.pc = "stage"
    \/ /\ q.op = "confirm"
       /\ q.pc \in {"loadDpr", "loadPlan", "solve", "supersede", "commit", "restage"}

Undrawn ==
    \A p \in Proposals \ minted :
        /\ p \notin pending
        /\ \A r \in Requests : ~(Holding(req[r]) /\ req[r].id = p)
        /\ commits[p] = 0

SingleInv == SingleUse /\ Undrawn

LEMMA HoldsHolding ==
    \A r \in Requests, p \in Proposals : Holds(r, p) <=> Holding(req[r]) /\ req[r].id = p
  BY DEF Holds, Holding, At

LEMMA HoldsHoldingNext ==
    \A r \in Requests, p \in Proposals : Holds(r, p)' <=> Holding(req'[r]) /\ req'[r].id = p
  BY DEF Holds, Holding, At

\* The invariant, said with Holding alone.
SingleExpanded ==
    \A p \in Proposals :
        /\ \A r \in Requests : Holding(req[r]) /\ req[r].id = p => p \notin pending
        /\ \A r, q \in Requests :
              Holding(req[r]) /\ req[r].id = p /\ Holding(req[q]) /\ req[q].id = p => r = q
        /\ commits[p] <= 1
        /\ p \in pending => commits[p] = 0
        /\ \A r \in Requests : Holding(req[r]) /\ req[r].id = p => commits[p] = 0

LEMMA SingleUseExpanded == SingleUse <=> SingleExpanded
  BY HoldsHolding DEF SingleUse, Open, SingleExpanded

LEMMA SingleUseExpandedNext == SingleUse' <=> SingleExpanded'
  <1>1. SingleUse' <=>
          \A p \in Proposals :
            /\ \A r \in Requests : Holds(r, p)' => p \notin pending'
            /\ \A r, q \in Requests : Holds(r, p)' /\ Holds(q, p)' => r = q
            /\ commits'[p] <= 1
            /\ Open(p)' => commits'[p] = 0
    BY DEF SingleUse
  <1>2. \A p \in Proposals : Open(p)' <=> p \in pending' \/ \E r \in Requests : Holds(r, p)'
    BY DEF Open
  <1> QED
    BY <1>1, <1>2, HoldsHoldingNext DEF SingleExpanded, Holding

\* What a step does to the record of its request, and to the others.
Others(r) == \A q \in Requests \ {r} : req'[q] = req[q]

LEMMA GotoFields ==
    ASSUME TypeInv, NEW r \in Requests, NEW pc, Goto(r, pc)
    PROVE  /\ Others(r)
           /\ req'[r].op = req[r].op /\ req'[r].pc = pc /\ req'[r].id = req[r].id
  BY RequestOf DEF Goto, Others, TypeInv, TypeOK, RequestType

LEMMA AnswerFields ==
    ASSUME TypeInv, NEW r \in Requests, NEW a, Answer(r, a)
    PROVE  /\ Others(r)
           /\ req'[r].op = req[r].op /\ req'[r].pc = "done" /\ req'[r].id = req[r].id
  BY RequestOf DEF Answer, Others, TypeInv, TypeOK, RequestType

LEMMA BeginFields ==
    ASSUME TypeInv, NEW r \in Requests, NEW op, NEW pc, NEW id, NEW d,
           Begin(r, op, pc, id, d)
    PROVE  /\ Others(r)
           /\ req'[r].op = op /\ req'[r].pc = pc /\ req'[r].id = id
  <1>1. req' = [req EXCEPT ![r] = [Idle EXCEPT !.op = op, !.pc = pc, !.id = id, !.dpr = d]]
    BY DEF Begin
  <1> QED
    BY <1>1 DEF Others, TypeInv, TypeOK, Idle

\* A step of r by which no request holds more than before.
LetsGo(r) ==
    /\ Others(r)
    /\ Holding(req'[r]) => Holding(req[r]) /\ req'[r].id = req[r].id
    /\ pending' \subseteq pending
    /\ commits' = commits
    /\ minted' = minted

LEMMA LetsGoAll ==
    ASSUME NEW r \in Requests, LetsGo(r)
    PROVE  \A q \in Requests : Holding(req'[q]) => Holding(req[q]) /\ req'[q].id = req[q].id
  BY DEF LetsGo, Others

LEMMA HoldsNoMore ==
    ASSUME TypeInv, SingleInv, NEW r \in Requests, LetsGo(r)
    PROVE  SingleInv'
  <1>1. \A q \in Requests : Holding(req'[q]) => Holding(req[q]) /\ req'[q].id = req[q].id
    BY LetsGoAll
  <1>2. SingleExpanded
    BY SingleUseExpanded DEF SingleInv
  <1>3. SingleExpanded'
    BY <1>1, <1>2 DEF SingleExpanded, Holding, LetsGo
  <1>4. Undrawn'
    BY <1>1 DEF SingleInv, Undrawn, Holding, LetsGo
  <1> QED
    BY <1>3, <1>4, SingleUseExpandedNext DEF SingleInv

\* The steps by which no request comes to hold a proposal, before the store.
LEMMA ReadsLetGo ==
    ASSUME TypeInv, NEW r \in Requests,
           \/ ConfirmLoadDpr(r) \/ ConfirmLoadPlan(r) \/ ConfirmSolve(r)
           \/ ConfirmEngineError(r)
    PROVE  LetsGo(r)
  <1>1. Holding(req[r])
    BY DEF ConfirmLoadDpr, ConfirmLoadPlan, ConfirmSolve, ConfirmEngineError, At, Holding
  <1>2. pending' = pending /\ commits' = commits /\ minted' = minted
    BY DEF ConfirmLoadDpr, ConfirmLoadPlan, ConfirmSolve, ConfirmEngineError, db, history
  <1>3. Others(r) /\ req'[r].id = req[r].id
    <2>1. CASE ConfirmLoadDpr(r)
      <3>1. CASE req' = [req EXCEPT ![r].dpr = dpr, ![r].pc = "loadPlan"]
        BY <3>1, RequestOf DEF Others, TypeInv, TypeOK, RequestType
      <3> QED
        BY <2>1, <3>1, GotoFields DEF ConfirmLoadDpr
    <2>2. CASE ConfirmLoadPlan(r) \/ ConfirmEngineError(r)
      BY <2>2, GotoFields DEF ConfirmLoadPlan, ConfirmEngineError
    <2>3. CASE ConfirmSolve(r)
      <3>1. PICK S, valid : Verdict(r, req[r].id, S, valid)
        BY <2>3 DEF ConfirmSolve
      <3>2. CASE ~valid
        BY <3>1, <3>2, AnswerFields DEF Verdict
      <3>3. CASE valid
        <4>1. PICK plan, edited :
                req' = [req EXCEPT ![r].plan = plan, ![r].prefs = edited,
                                   ![r].pc = "supersede"]
          BY <3>1, <3>3, Zenon DEF Verdict
        <4> QED
          BY <4>1, RequestOf DEF Others, TypeInv, TypeOK, RequestType
      <3> QED
        BY <3>2, <3>3
    <2> QED
      BY <2>1, <2>2, <2>3
  <1> QED
    BY <1>1, <1>2, <1>3 DEF LetsGo

\* The store of a plan, and of preferences, but for a confirm that succeeds.
LEMMA WritesLetGo ==
    ASSUME TypeInv, NEW r \in Requests,
           \/ PersistSupersede(r) \/ PersistFail(r)
           \/ PrefsEnsureStudent(r) \/ PersistPrefs(r)
           \/ PersistCommit(r) /\ req[r].op # "confirm"
    PROVE  LetsGo(r)
  <1>1. pending' = pending /\ commits' = commits /\ minted' = minted
    BY DEF PersistSupersede, PersistFail, PrefsEnsureStudent, PersistPrefs, PersistCommit, db, history
  <1>2. Others(r) /\ req'[r].op = req[r].op /\ req'[r].id = req[r].id
    <2>1. CASE PersistSupersede(r)
      BY <2>1, RequestOf DEF PersistSupersede, Others, TypeInv, TypeOK, RequestType
    <2>2. ASSUME NEW ok, AfterPersist(r, ok), Writer(r)
          PROVE  \/ \E pc : Goto(r, pc)
                 \/ \E a : Answer(r, a)
      BY <2>2, Zenon DEF AfterPersist, Writer, ConfirmsEdit
    <2>3. CASE PersistFail(r) \/ PersistCommit(r)
      BY <2>2, <2>3, GotoFields, AnswerFields DEF PersistFail, PersistCommit
    <2>4. ASSUME AfterPrefs(r), Writer(r)
          PROVE  \/ \E pc : Goto(r, pc)
                 \/ \E a : Answer(r, a)
      BY <2>4 DEF AfterPrefs, Writer
    <2>5. CASE PrefsEnsureStudent(r) \/ PersistPrefs(r)
      BY <2>4, <2>5, GotoFields, AnswerFields DEF PrefsEnsureStudent, PersistPrefs
    <2> QED
      BY <2>1, <2>3, <2>5
  <1>3. Holding(req'[r]) => Holding(req[r])
    <2>1. CASE PersistSupersede(r) \/ PersistFail(r)
      BY <1>2, <2>1 DEF PersistSupersede, PersistFail, Holding, Writer
    <2>2. CASE PersistCommit(r) /\ req[r].op # "confirm"
      BY <1>2, <2>2 DEF PersistCommit, Holding, Writer
    <2>3. CASE PrefsEnsureStudent(r) \/ PersistPrefs(r)
      <3>1. Writer(r)
        BY <2>3 DEF PrefsEnsureStudent, PersistPrefs
      <3>2. Goto(r, "prefsWrite") \/ AfterPrefs(r)
        BY <2>3 DEF PrefsEnsureStudent, PersistPrefs
      <3>3. Goto(r, "prefsWrite") \/ Goto(r, "agent") \/ Goto(r, "replan") \/ Answer(r, "applied")
        BY <3>1, <3>2 DEF AfterPrefs, Writer
      <3>4. req'[r].pc \in {"prefsWrite", "agent", "replan", "done"}
        BY <3>3, GotoFields, AnswerFields
      <3> QED
        BY <1>2, <3>1, <3>4 DEF Holding, Writer
    <2> QED
      BY <2>1, <2>2, <2>3
  <1> QED
    BY <1>1, <1>2, <1>3 DEF LetsGo

\* Turns and refreshes hold no proposal.
LEMMA TurnsAndRefreshesLetGo ==
    ASSUME TypeInv, NEW r \in Requests,
           \/ TurnLoadPlan(r) \/ TurnLoadPrefs(r) \/ TurnCheckProfile(r)
           \/ TurnBootstrap(r) \/ TurnBuild(r) \/ TurnEnd(r)
           \/ \E p \in Proposals : TurnConfirm(r, p)
           \/ RefreshCompare(r) \/ RefreshPersistDpr(r) \/ RefreshClear(r)
           \/ RefreshPruneRead(r) \/ RefreshReplan(r)
    PROVE  LetsGo(r)
  <1> DEFINE Op(q) == q.op \in {"turn", "refresh"}
  <1>1. Op(req[r])
    BY DEF TurnLoadPlan, TurnLoadPrefs, TurnCheckProfile, TurnBootstrap, TurnBuild,
           TurnEnd, TurnConfirm, RefreshCompare, RefreshPersistDpr, RefreshClear,
           RefreshPruneRead, RefreshReplan, At
  <1>2. pending' = pending /\ commits' = commits /\ minted' = minted
    BY Zenon DEF TurnLoadPlan, TurnLoadPrefs, TurnCheckProfile, TurnBootstrap, TurnBuild,
           TurnEnd, TurnConfirm, RefreshCompare, RefreshPersistDpr, RefreshClear,
           RefreshPruneRead, RefreshReplan, db, history
  <1>3. Others(r) /\ req'[r].op = req[r].op
    <2>1. CASE \/ TurnCheckProfile(r) \/ TurnBootstrap(r) \/ TurnEnd(r)
               \/ RefreshCompare(r) \/ RefreshPersistDpr(r) \/ RefreshClear(r)
      <3>1. (\E pc : Goto(r, pc)) \/ (\E a : Answer(r, a))
        BY <2>1, Zenon DEF TurnCheckProfile, TurnBootstrap, TurnEnd, RefreshCompare,
              RefreshPersistDpr, RefreshClear
      <3> QED
        BY <3>1, GotoFields, AnswerFields
    <2>2. CASE TurnLoadPlan(r)
      <3>1. CASE req' = [req EXCEPT ![r].base = (rows # {}), ![r].pc = "loadPrefs"]
        BY <3>1, RequestOf DEF Others, TypeInv, TypeOK, RequestType
      <3> QED
        BY <2>2, <3>1, GotoFields DEF TurnLoadPlan
    <2>3. CASE TurnLoadPrefs(r)
      <3>1. CASE req' = [req EXCEPT ![r].prefs = prefs, ![r].pc = "boot"]
        BY <3>1, RequestOf DEF Others, TypeInv, TypeOK, RequestType
      <3> QED
        BY <2>3, <3>1, GotoFields DEF TurnLoadPrefs
    <2>4. CASE TurnBuild(r)
      <3>1. PICK plan :
              req' = [req EXCEPT ![r].id = NoId, ![r].plan = plan,
                                 ![r].base = TRUE, ![r].pc = "supersede"]
        BY <2>4 DEF TurnBuild
      <3> QED
        BY <3>1, RequestOf DEF Others, TypeInv, TypeOK, RequestType
    <2>5. ASSUME NEW p \in Proposals, TurnConfirm(r, p)
          PROVE  Others(r) /\ req'[r].op = req[r].op
      <3>1. PICK edited, plan :
              \/ req' = [req EXCEPT ![r].id = p, ![r].prefs = edited,
                                    ![r].plan = plan, ![r].pc = "supersede"]
              \/ req' = [req EXCEPT ![r].prefs = edited]
        BY <2>5, Zenon DEF TurnConfirm
      <3> QED
        BY <3>1, RequestOf DEF Others, TypeInv, TypeOK, RequestType
    <2>6. CASE RefreshPruneRead(r)
      <3>1. CASE \E pruned, pc : req' = [req EXCEPT ![r].prefs = pruned, ![r].pc = pc]
        BY <3>1, RequestOf DEF Others, TypeInv, TypeOK, RequestType
      <3> QED
        BY <2>6, <3>1, GotoFields, Zenon DEF RefreshPruneRead
    <2>7. CASE RefreshReplan(r)
      <3>1. CASE \E plan : req' = [req EXCEPT ![r].plan = plan, ![r].pc = "supersede"]
        BY <3>1, RequestOf DEF Others, TypeInv, TypeOK, RequestType
      <3> QED
        BY <2>7, <3>1, AnswerFields, Zenon DEF RefreshReplan
    <2> QED
      BY <2>1, <2>2, <2>3, <2>4, <2>5, <2>6, <2>7
  <1>4. ~Holding(req'[r])
    BY <1>1, <1>3 DEF Holding
  <1> QED
    BY <1>2, <1>3, <1>4 DEF LetsGo

\* A request starts without a proposal, unless it is a confirm; ending or
\* dying, it loses the one it has.
LEMMA StartsLetGo ==
    ASSUME TypeInv, NEW r \in Requests,
           \/ ProposeLoadDpr(r) \/ DeleteAccount(r) \/ Reply(r) \/ Crash(r)
           \/ \E d \in Dprs : TurnStart(r, d) \/ RefreshStart(r, d)
    PROVE  LetsGo(r)
  <1>1. pending' \subseteq pending /\ commits' = commits /\ minted' = minted
    BY DEF ProposeLoadDpr, DeleteAccount, Reply, Crash, TurnStart, RefreshStart, db, history
  <1>2. CASE DeleteAccount(r)
    BY <1>1, <1>2 DEF LetsGo, DeleteAccount, Others
  <1>3. CASE Reply(r) \/ Crash(r)
    <2>1. req' = [req EXCEPT ![r] = Idle]
      BY <1>3 DEF Reply, Crash
    <2>2. Others(r) /\ req'[r] = Idle
      BY <2>1 DEF Others, TypeInv, TypeOK
    <2>3. ~Holding(req'[r])
      BY <2>2 DEF Idle, Holding
    <2> QED
      BY <1>1, <2>2, <2>3 DEF LetsGo
  <1>4. CASE ProposeLoadDpr(r) \/ \E d \in Dprs : TurnStart(r, d) \/ RefreshStart(r, d)
    <2>1. \/ Begin(r, "propose", "loadPlan", NoId, NoDpr)
          \/ \E d \in Dprs : Begin(r, "turn", "load", NoId, d)
          \/ \E d \in Dprs : Begin(r, "refresh", "compare", NoId, d)
      BY <1>4 DEF ProposeLoadDpr, TurnStart, RefreshStart
    <2>2. Others(r) /\ ~Holding(req'[r])
      BY <2>1, BeginFields DEF Holding
    <2> QED
      BY <1>1, <2>2 DEF LetsGo
  <1> QED
    BY <1>2, <1>3, <1>4

\* So every step but these lets go.
LEMMA StepsLetGo ==
    ASSUME TypeInv, NEW r \in Requests, Step(r), ~LetsGo(r)
    PROVE  \/ ProposeLoadPlan(r) \/ ProposeStage(r) \/ ConfirmRestage(r)
           \/ PersistCommit(r) /\ req[r].op = "confirm"
  BY ReadsLetGo, WritesLetGo, TurnsAndRefreshesLetGo, StartsLetGo DEF Step

\* Drawing an id: it was nowhere, so the request is the only one to hold it.
LEMMA SingleDraws ==
    ASSUME TypeInv, SingleInv, NEW r \in Requests, ProposeLoadPlan(r)
    PROVE  SingleInv'
  <1>1. pending' = pending /\ commits' = commits
    BY DEF ProposeLoadPlan, db, history
  <1>2. CASE Answer(r, "error") /\ minted' = minted
    <2>1. Others(r) /\ req'[r].op = "propose" /\ req'[r].pc = "done"
      BY <1>2, AnswerFields DEF ProposeLoadPlan, At
    <2> QED
      BY <1>1, <1>2, <2>1, HoldsNoMore DEF LetsGo, Holding
  <1>3. ASSUME NEW p \in Proposals \ minted, minted' = minted \cup {p},
               req' = [req EXCEPT ![r].id = p, ![r].pc = "stage"]
        PROVE  SingleInv'
    <2>1. Others(r) /\ req'[r].id = p
      BY <1>3, RequestOf DEF Others, TypeInv, TypeOK, RequestType
    <2>2. \A q \in Requests \ {r} : Holding(req'[q]) => Holding(req[q]) /\ req'[q].id = req[q].id
      BY <2>1 DEF Others
    <2>3. /\ p \notin pending /\ commits[p] = 0
          /\ \A q \in Requests : ~(Holding(req[q]) /\ req[q].id = p)
      BY DEF SingleInv, Undrawn
    <2>4. SingleExpanded
      BY SingleUseExpanded DEF SingleInv
    <2>5. SingleExpanded'
      BY <1>1, <2>1, <2>2, <2>3, <2>4 DEF SingleExpanded, Holding
    <2>6. Undrawn'
      BY <1>1, <1>3, <2>1, <2>2, ZenonT(60) DEF SingleInv, Undrawn, Holding
    <2> QED
      BY <2>5, <2>6, SingleUseExpandedNext DEF SingleInv
  <1> QED
    BY <1>2, <1>3 DEF ProposeLoadPlan

\* Staging and putting back: the proposal goes from the request to the store.
LEMMA SingleStages ==
    ASSUME TypeInv, SingleInv, NEW r \in Requests, ProposeStage(r) \/ ConfirmRestage(r)
    PROVE  SingleInv'
  <1>1. Holding(req[r]) /\ req[r].id \in Proposals
    BY RequestOf DEF ProposeStage, ConfirmRestage, At, Holding, NeedsId
  <1>2. Others(r) /\ ~Holding(req'[r])
    BY AnswerFields DEF ProposeStage, ConfirmRestage, Holding
  <1>3. commits' = commits /\ minted' = minted
    BY DEF ProposeStage, ConfirmRestage, history
  <1>4. pending' = pending \/ pending' = pending \cup {req[r].id}
    BY Zenon DEF ProposeStage, ConfirmRestage
  <1>5. \A q \in Requests :
          Holding(req'[q]) => q # r /\ Holding(req[q]) /\ req'[q].id = req[q].id
    BY <1>2 DEF Others
  <1>6. SingleExpanded
    BY SingleUseExpanded DEF SingleInv
  <1>7. SingleExpanded'
    BY <1>1, <1>3, <1>4, <1>5, <1>6 DEF SingleExpanded, Holding
  <1>8. Undrawn'
    BY <1>1, <1>3, <1>4, <1>5 DEF SingleInv, Undrawn, Holding
  <1> QED
    BY <1>7, <1>8, SingleUseExpandedNext DEF SingleInv

\* Taking: the proposal goes from the store to one request.
LEMMA SingleTakes ==
    ASSUME TypeInv, SingleInv, NEW r \in Requests, NEW p \in Proposals, ConfirmTake(r, p)
    PROVE  SingleInv'
  <1>1. Others(r) /\ req'[r].id = p
    BY BeginFields DEF ConfirmTake
  <1>2. commits' = commits /\ minted' = minted /\ pending' = pending \ {p} /\ p \in pending
    BY DEF ConfirmTake, history
  <1>3. \A q \in Requests \ {r} : Holding(req'[q]) => Holding(req[q]) /\ req'[q].id = req[q].id
    BY <1>1 DEF Others
  <1>4. SingleExpanded
    BY SingleUseExpanded DEF SingleInv
  <1>5. /\ commits[p] = 0
        /\ \A q \in Requests : ~(Holding(req[q]) /\ req[q].id = p)
    BY <1>2, <1>4 DEF SingleExpanded
  <1>6. SingleExpanded'
    BY <1>1, <1>2, <1>3, <1>4, <1>5 DEF SingleExpanded, Holding
  <1>7. Undrawn'
    BY <1>1, <1>2, <1>3 DEF SingleInv, Undrawn, Holding
  <1> QED
    BY <1>6, <1>7, SingleUseExpandedNext DEF SingleInv

\* Storing: the request that commits a plan of its proposal lets go of it.
LEMMA SingleCommits ==
    ASSUME TypeInv, SingleInv, NEW r \in Requests, PersistCommit(r), req[r].op = "confirm"
    PROVE  SingleInv'
  <1> DEFINE p == req[r].id
  <1>1. Holding(req[r]) /\ p \in Proposals
    BY RequestOf DEF PersistCommit, Holding, NeedsId
  <1>2. pending' = pending /\ minted' = minted /\ commits' = [commits EXCEPT ![p] = @ + 1]
    BY DEF PersistCommit
  <1>3. Goto(r, "prefs") \/ Answer(r, "applied")
    BY DEF PersistCommit, AfterPersist, ConfirmsEdit
  <1>4. Others(r) /\ ~Holding(req'[r])
    BY <1>3, GotoFields, AnswerFields DEF Holding
  <1>5. \A q \in Requests :
          Holding(req'[q]) => q # r /\ Holding(req[q]) /\ req'[q].id = req[q].id
    BY <1>4 DEF Others
  <1>6. SingleExpanded
    BY SingleUseExpanded DEF SingleInv
  <1>7. /\ commits[p] = 0 /\ p \notin pending
        /\ \A q \in Requests : q # r => ~(Holding(req[q]) /\ req[q].id = p)
    BY <1>1, <1>6 DEF SingleExpanded
  <1>8. /\ commits'[p] = 1
        /\ \A x \in Proposals : x # p => commits'[x] = commits[x]
    BY <1>1, <1>2, <1>7 DEF TypeInv, TypeOK
  <1>9. SingleExpanded'
    BY <1>2, <1>5, <1>6, <1>7, <1>8 DEF SingleExpanded, Holding
  <1>10. p \in minted
    BY <1>1 DEF SingleInv, Undrawn
  <1>11. Undrawn'
    BY <1>2, <1>5, <1>8, <1>10 DEF SingleInv, Undrawn, Holding
  <1> QED
    BY <1>9, <1>11, SingleUseExpandedNext DEF SingleInv

LEMMA SingleInit == Init => SingleInv
  <1> SUFFICES ASSUME Init PROVE SingleInv
    OBVIOUS
  <1>1. \A r \in Requests : ~Holding(req[r])
    BY DEF Init, Idle, Holding
  <1>2. SingleExpanded
    BY <1>1 DEF Init, SingleExpanded
  <1>3. Undrawn
    BY <1>1 DEF Init, Undrawn
  <1> QED
    BY <1>2, <1>3, SingleUseExpanded DEF SingleInv

LEMMA SingleNext == TypeInv /\ SingleInv /\ [Next]_vars => SingleInv'
  <1> SUFFICES ASSUME TypeInv, SingleInv, [Next]_vars PROVE SingleInv'
    OBVIOUS
  <1>1. ASSUME NEW r \in Requests, Step(r)
        PROVE  SingleInv'
    <2>1. CASE LetsGo(r)
      BY <2>1, HoldsNoMore
    <2>2. CASE ~LetsGo(r)
      BY <1>1, <2>2, StepsLetGo, SingleDraws, SingleStages, SingleCommits
    <2> QED
      BY <2>1, <2>2
  <1>2. ASSUME NEW r \in Requests, Start(r) \/ Crash(r)
        PROVE  SingleInv'
    BY <1>2, StartsLetGo, HoldsNoMore, SingleTakes DEF Start
  <1>3. ASSUME NEW p \in Proposals, Expire(p)
        PROVE  SingleInv'
    <2>1. SingleExpanded
      BY SingleUseExpanded DEF SingleInv
    <2>2. SingleExpanded' /\ Undrawn'
      BY <1>3, <2>1 DEF Expire, history, SingleExpanded, SingleInv, Undrawn, Holding
    <2> QED
      BY <2>2, SingleUseExpandedNext DEF SingleInv
  <1>4. CASE UNCHANGED vars
    <2>1. SingleExpanded
      BY SingleUseExpanded DEF SingleInv
    <2>2. SingleExpanded' /\ Undrawn'
      BY <1>4, <2>1 DEF vars, db, history, SingleExpanded, SingleInv, Undrawn, Holding
    <2> QED
      BY <2>2, SingleUseExpandedNext DEF SingleInv
  <1>5. CASE VerifyOtp
    <2>1. SingleExpanded
      BY SingleUseExpanded DEF SingleInv
    <2>2. SingleExpanded' /\ Undrawn'
      BY <1>5, <2>1 DEF VerifyOtp, history, SingleExpanded, SingleInv, Undrawn, Holding
    <2> QED
      BY <2>2, SingleUseExpandedNext DEF SingleInv
  <1> QED
    BY <1>1, <1>2, <1>3, <1>4, <1>5 DEF Next, Rest

\* However many confirms, retries after a restage, failures and crashes
\* interleave, a staged proposal exists in one place only and its plan is
\* stored at most once.
THEOREM SingleUseHolds == Spec => []SingleUse
  <1>1. Spec => [](TypeInv /\ SingleInv)
    <2>1. Init => TypeInv /\ SingleInv
      BY TypeInit, SingleInit
    <2>2. TypeInv /\ SingleInv /\ [Next]_vars => (TypeInv /\ SingleInv)'
      BY TypeNext, SingleNext
    <2> QED
      BY <2>1, <2>2, PTL DEF Spec
  <1>2. TypeInv /\ SingleInv => SingleUse
    BY DEF SingleInv
  <1> QED
    BY <1>1, <1>2, PTL

-----------------------------------------------------------------------------
(* The round trip implements the ledger: from outside, a step opens one    *)
(* proposal, applies one, closes some, or changes nothing.                 *)

LEMMA OpenHolding ==
    \A p \in Proposals :
        Open(p) <=> p \in pending \/ \E r \in Requests : Holding(req[r]) /\ req[r].id = p
  BY HoldsHolding DEF Open

LEMMA OpenHoldingNext ==
    \A p \in Proposals :
        Open(p)' <=> p \in pending' \/ \E r \in Requests : Holding(req'[r]) /\ req'[r].id = p
  BY HoldsHoldingNext DEF Open

\* What the ledger shows of an open, an applied and an undrawn proposal.
LEMMA StatusOf ==
    ASSUME TypeInv, SingleInv, NEW p \in Proposals
    PROVE  /\ commits[p] \in Nat
           /\ Open(p) => LedgerStatus(p) = "open" /\ p \in minted /\ commits[p] = 0
           /\ p \notin minted => LedgerStatus(p) = "unused" /\ ~Open(p) /\ commits[p] = 0
  <1>1. commits[p] \in Nat
    BY DEF TypeInv, TypeOK
  <1>2. Open(p) => commits[p] = 0
    BY DEF SingleInv, SingleUse
  <1>3. p \notin minted => ~Open(p) /\ commits[p] = 0
    BY OpenHolding DEF SingleInv, Undrawn
  <1> QED
    BY <1>1, <1>2, <1>3 DEF LedgerStatus

LEMMA StatusNext ==
    \A p \in Proposals :
        LedgerStatus(p)' = IF commits'[p] > 0 THEN "applied"
                           ELSE IF Open(p)' THEN "open"
                           ELSE IF p \in minted' THEN "closed"
                           ELSE "unused"
  BY DEF LedgerStatus

\* A step that opens nothing and stores no confirmed plan.
LEMMA ClosesOrStutters ==
    ASSUME TypeInv, SingleInv, commits' = commits, minted' = minted,
           \A p \in Proposals : Open(p)' => Open(p)
    PROVE  [Ledger!LedgerNext]_(Ledger!ledgerVars)
  <1> DEFINE S == {p \in Proposals : Open(p) /\ ~Open(p)'}
  <1>1. ASSUME NEW p \in Proposals
        PROVE  /\ p \in S => LedgerStatus(p) = "open" /\ LedgerStatus(p)' = "closed"
               /\ p \notin S => LedgerStatus(p)' = LedgerStatus(p)
    BY StatusOf, StatusNext DEF LedgerStatus
  <1>2. CASE S = {}
    <2>1. [p \in Proposals |-> LedgerStatus(p)]' = [p \in Proposals |-> LedgerStatus(p)]
      BY <1>1, <1>2
    <2> QED
      BY <2>1 DEF Ledger!ledgerVars
  <1>3. CASE S # {}
    <2>1. Ledger!Close(S)
      BY <1>1, <1>3 DEF Ledger!Close
    <2> QED
      BY <2>1 DEF Ledger!LedgerNext
  <1> QED
    BY <1>2, <1>3

\* Drawing an id opens it.
LEMMA DrawOpens ==
    ASSUME TypeInv, SingleInv, NEW r \in Requests, ProposeLoadPlan(r)
    PROVE  [Ledger!LedgerNext]_(Ledger!ledgerVars)
  <1>1. pending' = pending /\ commits' = commits
    BY DEF ProposeLoadPlan, db, history
  <1>2. CASE Answer(r, "error") /\ minted' = minted
    <2>1. LetsGo(r)
      BY <1>1, <1>2, AnswerFields DEF ProposeLoadPlan, At, LetsGo, Holding
    <2>2. \A p \in Proposals : Open(p)' => Open(p)
      BY <2>1, LetsGoAll, OpenHolding, OpenHoldingNext DEF LetsGo
    <2> QED
      BY <1>1, <1>2, <2>2, ClosesOrStutters
  <1>3. ASSUME NEW p \in Proposals \ minted, minted' = minted \cup {p},
               req' = [req EXCEPT ![r].id = p, ![r].pc = "stage"]
        PROVE  Ledger!Open(p)
    <2>1. Others(r) /\ req'[r].id = p /\ Holding(req'[r])
      BY <1>3, RequestOf DEF ProposeLoadPlan, At, Holding, Others, TypeInv, TypeOK, RequestType
    <2>2. Open(p)' /\ ~Holding(req[r])
      BY <2>1, OpenHoldingNext DEF ProposeLoadPlan, At, Holding
    <2>3. \A x \in Proposals \ {p} : Open(x)' <=> Open(x)
      BY <1>1, <2>1, <2>2, OpenHolding, OpenHoldingNext DEF Others
    <2>4. LedgerStatus(p) = "unused" /\ LedgerStatus(p)' = "open"
      BY <1>1, <2>2, StatusOf, StatusNext
    <2>5. \A x \in Proposals \ {p} : LedgerStatus(x)' = LedgerStatus(x)
      BY <1>1, <1>3, <2>3, StatusNext DEF LedgerStatus
    <2> QED
      BY <1>1, <2>4, <2>5 DEF Ledger!Open
  <1>4. \/ Answer(r, "error") /\ minted' = minted
        \/ \E p \in Proposals \ minted :
              /\ minted' = minted \cup {p}
              /\ req' = [req EXCEPT ![r].id = p, ![r].pc = "stage"]
    BY Zenon DEF ProposeLoadPlan
  <1> QED
    BY <1>2, <1>3, <1>4 DEF Ledger!LedgerNext

\* A confirm that commits its plan applies the proposal.
LEMMA CommitApplies ==
    ASSUME TypeInv, SingleInv, NEW r \in Requests, PersistCommit(r), req[r].op = "confirm"
    PROVE  \E p \in Proposals : Ledger!Apply(p)
  <1>0. req[r].id \in Proposals
    BY RequestOf DEF PersistCommit, NeedsId
  <1> PICK p \in Proposals : p = req[r].id
    BY <1>0
  <1>1. Holding(req[r])
    BY DEF PersistCommit, Holding
  <1>2. pending' = pending /\ minted' = minted /\ commits' = [commits EXCEPT ![p] = @ + 1]
    BY DEF PersistCommit
  <1>3. Others(r) /\ ~Holding(req'[r])
    <2>1. Goto(r, "prefs") \/ Answer(r, "applied")
      BY DEF PersistCommit, AfterPersist, ConfirmsEdit
    <2> QED
      BY <2>1, GotoFields, AnswerFields DEF Holding
  <1>4. Open(p)
    BY <1>1, OpenHolding
  <1>5. LedgerStatus(p) = "open" /\ commits[p] = 0
    BY <1>1, <1>4, StatusOf
  <1>6. commits'[p] = 1 /\ \A x \in Proposals \ {p} : commits'[x] = commits[x]
    BY <1>1, <1>2, <1>5 DEF TypeInv, TypeOK
  <1>7. LedgerStatus(p)' = "applied"
    BY <1>6, StatusNext
  <1>8. \A x \in Proposals \ {p} : Open(x)' <=> Open(x)
    BY <1>2, <1>3, OpenHolding, OpenHoldingNext DEF Others
  <1>9. \A x \in Proposals \ {p} : LedgerStatus(x)' = LedgerStatus(x)
    BY <1>2, <1>6, <1>8, StatusNext DEF LedgerStatus
  <1>10. [x \in Proposals |-> LedgerStatus(x)]' =
             [[x \in Proposals |-> LedgerStatus(x)] EXCEPT ![p] = "applied"]
    BY <1>1, <1>7, <1>9
  <1>11. commits' = [commits EXCEPT ![p] = commits[p] + 1]
    BY <1>2
  <1> QED
    BY <1>1, <1>5, <1>10, <1>11 DEF Ledger!Apply

LEMMA LedgerStep ==
    ASSUME TypeInv, SingleInv, [Next]_vars
    PROVE  [Ledger!LedgerNext]_(Ledger!ledgerVars)
  <1>1. ASSUME NEW r \in Requests, LetsGo(r)
        PROVE  [Ledger!LedgerNext]_(Ledger!ledgerVars)
    <2>1. \A p \in Proposals : Open(p)' => Open(p)
      BY <1>1, LetsGoAll, OpenHolding, OpenHoldingNext DEF LetsGo
    <2> QED
      BY <1>1, <2>1, ClosesOrStutters DEF LetsGo
  <1>2. ASSUME NEW r \in Requests, ProposeStage(r) \/ ConfirmRestage(r)
        PROVE  [Ledger!LedgerNext]_(Ledger!ledgerVars)
    <2>1. Holding(req[r]) /\ Others(r) /\ ~Holding(req'[r])
      BY <1>2, AnswerFields DEF ProposeStage, ConfirmRestage, At, Holding
    <2>2. pending' = pending \/ pending' = pending \cup {req[r].id}
      BY <1>2, Zenon DEF ProposeStage, ConfirmRestage
    <2>3. \A p \in Proposals : Open(p)' => Open(p)
      BY <2>1, <2>2, OpenHolding, OpenHoldingNext DEF Others
    <2>4. commits' = commits /\ minted' = minted
      BY <1>2 DEF ProposeStage, ConfirmRestage, history
    <2> QED
      BY <2>3, <2>4, ClosesOrStutters
  <1>3. ASSUME NEW r \in Requests, NEW p \in Proposals, ConfirmTake(r, p)
        PROVE  [Ledger!LedgerNext]_(Ledger!ledgerVars)
    <2>1. Others(r) /\ req'[r].id = p
      BY <1>3, BeginFields DEF ConfirmTake
    <2>2. p \in pending /\ pending' \subseteq pending /\ commits' = commits /\ minted' = minted
      BY <1>3 DEF ConfirmTake, history
    <2>3. \A x \in Proposals : Open(x)' => Open(x)
      BY <2>1, <2>2, OpenHolding, OpenHoldingNext DEF Others
    <2> QED
      BY <2>2, <2>3, ClosesOrStutters
  <1>4. ASSUME NEW p \in Proposals, Expire(p)
        PROVE  [Ledger!LedgerNext]_(Ledger!ledgerVars)
    <2>1. req' = req /\ pending' \subseteq pending /\ commits' = commits /\ minted' = minted
      BY <1>4 DEF Expire, history
    <2>2. \A x \in Proposals : Open(x)' => Open(x)
      BY <2>1, OpenHolding, OpenHoldingNext
    <2> QED
      BY <2>1, <2>2, ClosesOrStutters
  <1>5. CASE UNCHANGED vars
    <2>1. req' = req /\ pending' = pending /\ commits' = commits /\ minted' = minted
      BY <1>5 DEF vars, db, history
    <2>2. \A x \in Proposals : Open(x)' => Open(x)
      BY <2>1, OpenHolding, OpenHoldingNext
    <2> QED
      BY <2>1, <2>2, ClosesOrStutters
  <1>6. ASSUME NEW r \in Requests, Step(r)
        PROVE  [Ledger!LedgerNext]_(Ledger!ledgerVars)
    <2>1. CASE LetsGo(r)
      BY <1>1, <2>1
    <2>2. CASE PersistCommit(r) /\ req[r].op = "confirm"
      BY <2>2, CommitApplies DEF Ledger!LedgerNext
    <2> QED
      BY <1>2, <1>6, <2>1, <2>2, StepsLetGo, DrawOpens
  <1>7. ASSUME NEW r \in Requests, Start(r) \/ Crash(r)
        PROVE  [Ledger!LedgerNext]_(Ledger!ledgerVars)
    BY <1>1, <1>3, <1>7, StartsLetGo DEF Start
  <1>8. CASE VerifyOtp
    <2>1. req' = req /\ pending' = pending /\ commits' = commits /\ minted' = minted
      BY <1>8 DEF VerifyOtp, history
    <2>2. \A x \in Proposals : Open(x)' => Open(x)
      BY <2>1, OpenHolding, OpenHoldingNext
    <2> QED
      BY <2>1, <2>2, ClosesOrStutters
  <1> QED
    BY <1>4, <1>5, <1>6, <1>7, <1>8 DEF Next, Rest

LEMMA LedgerStart == Init => Ledger!LedgerInit
  <1> SUFFICES ASSUME Init PROVE Ledger!LedgerInit
    OBVIOUS
  <1>1. \A p \in Proposals : ~Open(p)
    BY OpenHolding DEF Init, Idle, Holding
  <1>2. \A p \in Proposals : LedgerStatus(p) = "unused"
    BY <1>1 DEF Init, LedgerStatus
  <1> QED
    BY <1>2 DEF Init, Ledger!LedgerInit

\* The round trip of a proposal through stores, requests, failures and
\* deletions is a behaviour of the ledger: opened once, applied at most once,
\* never open again after it was applied or closed.
THEOREM Refinement == Spec => ImplementsLedger
  <1>1. Init => Ledger!LedgerInit /\ TypeInv /\ SingleInv
    BY LedgerStart, TypeInit, SingleInit
  <1>2. TypeInv /\ SingleInv /\ [Next]_vars =>
          [Ledger!LedgerNext]_(Ledger!ledgerVars) /\ (TypeInv /\ SingleInv)'
    BY LedgerStep, TypeNext, SingleNext
  <1> QED
    BY <1>1, <1>2, PTL DEF Spec, ImplementsLedger, Ledger!LedgerSpec

-----------------------------------------------------------------------------
(* What a confirm stores is feasible.                                      *)

\* A request on its way to the store with a confirmed change has the verdict
\* "feasible"; plain builds of a turn or a refresh may have any verdict.
Ready(q) == q.pc \in {"supersede", "commit"} /\ q.plan.by # NoId => q.plan.valid

FeasibleInv == ConfirmedPlansAreFeasible /\ \A r \in Requests : Ready(req[r])

\* A step of r that does not leave r with a plan to store.
Elsewhere(r) ==
    /\ Others(r)
    /\ req'[r].pc \notin {"supersede", "commit"}
    /\ rows' \subseteq rows

LEMMA ElsewhereFeasible ==
    ASSUME TypeInv, FeasibleInv, NEW r \in Requests, Elsewhere(r)
    PROVE  FeasibleInv'
  <1>1. \A q \in Requests : Ready(req'[q])
    BY DEF FeasibleInv, Ready, Elsewhere, Others
  <1>2. ConfirmedPlansAreFeasible'
    BY DEF FeasibleInv, ConfirmedPlansAreFeasible, Elsewhere
  <1> QED
    BY <1>1, <1>2 DEF FeasibleInv, Ready

\* The places a request goes to without a plan.
Places == Pcs \ {"supersede", "commit"}

LEMMA MoveOrEndElsewhere ==
    ASSUME TypeInv, NEW r \in Requests,
           \/ \E pc \in Places : Goto(r, pc)
           \/ \E a \in Answers : Answer(r, a)
           \/ \E op, id, d : \E pc \in Places : Begin(r, op, pc, id, d),
           rows' \subseteq rows
    PROVE  Elsewhere(r)
  BY GotoFields, AnswerFields, BeginFields DEF Elsewhere, Places

LEMMA StartsElsewhere ==
    ASSUME TypeInv, NEW r \in Requests, Start(r) \/ Reply(r) \/ Crash(r)
    PROVE  \/ Elsewhere(r)
           \/ req' = req /\ rows' \subseteq rows
  <1>1. rows' \subseteq rows
    BY DEF Start, ProposeLoadDpr, ConfirmTake, TurnStart, RefreshStart, DeleteAccount,
           Reply, Crash, db
  <1>2. CASE Reply(r) \/ Crash(r)
    <2>1. req' = [req EXCEPT ![r] = Idle]
      BY <1>2 DEF Reply, Crash
    <2> QED
      BY <1>1, <2>1 DEF Elsewhere, Others, TypeInv, TypeOK, Idle
  <1>3. CASE DeleteAccount(r)
    BY <1>1, <1>3 DEF DeleteAccount
  <1>4. CASE Start(r) /\ ~DeleteAccount(r)
    <2>1. \E op, id, d : \E pc \in Places : Begin(r, op, pc, id, d)
      BY <1>4 DEF Start, ProposeLoadDpr, ConfirmTake, TurnStart, RefreshStart, Places, Pcs
    <2> QED
      BY <1>1, <2>1, MoveOrEndElsewhere
  <1> QED
    BY <1>2, <1>3, <1>4

\* The steps that only read, write the DPR or the preferences, or end.
LEMMA StepsElsewhere ==
    ASSUME TypeInv, NEW r \in Requests,
           \/ ProposeLoadPlan(r) \/ ProposeStage(r) \/ ConfirmLoadDpr(r)
           \/ ConfirmLoadPlan(r) \/ ConfirmEngineError(r) \/ ConfirmRestage(r)
           \/ PrefsEnsureStudent(r) \/ PersistPrefs(r) \/ PersistFail(r)
           \/ TurnLoadPlan(r) \/ TurnLoadPrefs(r) \/ TurnCheckProfile(r)
           \/ TurnBootstrap(r) \/ TurnEnd(r)
           \/ RefreshCompare(r) \/ RefreshPersistDpr(r) \/ RefreshClear(r)
           \/ RefreshPruneRead(r)
    PROVE  Elsewhere(r)
  <1> USE DEF Places, Pcs, Answers
  <1>1. rows' \subseteq rows
    BY DEF ProposeLoadPlan, ProposeStage, ConfirmLoadDpr, ConfirmLoadPlan,
           ConfirmEngineError, ConfirmRestage, PrefsEnsureStudent, PersistPrefs,
           PersistFail, TurnLoadPlan, TurnLoadPrefs, TurnCheckProfile, TurnBootstrap,
           TurnEnd, RefreshCompare, RefreshPersistDpr, RefreshClear, RefreshPruneRead, db
  <1>2. CASE \/ ProposeStage(r) \/ ConfirmLoadPlan(r) \/ ConfirmEngineError(r)
             \/ ConfirmRestage(r) \/ TurnCheckProfile(r) \/ TurnBootstrap(r)
             \/ TurnEnd(r) \/ RefreshCompare(r) \/ RefreshPersistDpr(r) \/ RefreshClear(r)
    <2>1. (\E pc \in Places : Goto(r, pc)) \/ (\E a \in Answers : Answer(r, a))
      BY <1>2 DEF ProposeStage, ConfirmLoadPlan, ConfirmEngineError, ConfirmRestage,
             TurnCheckProfile, TurnBootstrap, TurnEnd, RefreshCompare,
             RefreshPersistDpr, RefreshClear
    <2> QED
      BY <1>1, <2>1, MoveOrEndElsewhere
  <1>3. CASE PrefsEnsureStudent(r) \/ PersistPrefs(r) \/ PersistFail(r)
    <2>1. Writer(r)
      BY <1>3 DEF PrefsEnsureStudent, PersistPrefs, PersistFail
    <2>2. Goto(r, "prefsWrite") \/ AfterPrefs(r) \/ AfterPersist(r, FALSE)
      BY <1>3 DEF PrefsEnsureStudent, PersistPrefs, PersistFail
    <2>3. (\E pc \in Places : Goto(r, pc)) \/ (\E a \in Answers : Answer(r, a))
      BY <2>1, <2>2 DEF AfterPrefs, AfterPersist, Writer, ConfirmsEdit
    <2> QED
      BY <1>1, <2>3, MoveOrEndElsewhere
  <1>4. CASE ProposeLoadPlan(r)
    <2>1. CASE \E p \in Proposals : req' = [req EXCEPT ![r].id = p, ![r].pc = "stage"]
      BY <1>1, <2>1, RequestOf DEF Elsewhere, Others, TypeInv, TypeOK, RequestType
    <2> QED
      BY <1>1, <1>4, <2>1, MoveOrEndElsewhere DEF ProposeLoadPlan
  <1>5. CASE ConfirmLoadDpr(r)
    <2>1. CASE req' = [req EXCEPT ![r].dpr = dpr, ![r].pc = "loadPlan"]
      BY <1>1, <2>1, RequestOf DEF Elsewhere, Others, TypeInv, TypeOK, RequestType
    <2> QED
      BY <1>1, <1>5, <2>1, MoveOrEndElsewhere DEF ConfirmLoadDpr
  <1>6. CASE TurnLoadPlan(r)
    <2>1. CASE req' = [req EXCEPT ![r].base = (rows # {}), ![r].pc = "loadPrefs"]
      BY <1>1, <2>1, RequestOf DEF Elsewhere, Others, TypeInv, TypeOK, RequestType
    <2> QED
      BY <1>1, <1>6, <2>1, MoveOrEndElsewhere DEF TurnLoadPlan
  <1>7. CASE TurnLoadPrefs(r)
    <2>1. CASE req' = [req EXCEPT ![r].prefs = prefs, ![r].pc = "boot"]
      BY <1>1, <2>1, RequestOf DEF Elsewhere, Others, TypeInv, TypeOK, RequestType
    <2> QED
      BY <1>1, <1>7, <2>1, MoveOrEndElsewhere DEF TurnLoadPrefs
  <1>8. CASE RefreshPruneRead(r)
    <2>1. CASE \E pruned : \E pc \in {"replan", "prefs"} :
                  req' = [req EXCEPT ![r].prefs = pruned, ![r].pc = pc]
      BY <1>1, <2>1, RequestOf DEF Elsewhere, Others, TypeInv, TypeOK, RequestType
    <2> QED
      BY <1>1, <1>8, <2>1, MoveOrEndElsewhere DEF RefreshPruneRead
  <1> QED
    BY <1>2, <1>3, <1>4, <1>5, <1>6, <1>7, <1>8

\* A step that gives r a plan to store: it is a plain build, or feasible.
LEMMA PlansFeasible ==
    ASSUME TypeInv, FeasibleInv, NEW r \in Requests,
           Others(r), rows' = rows, Ready(req'[r])
    PROVE  FeasibleInv'
  <1>1. \A q \in Requests : Ready(req'[q])
    BY DEF FeasibleInv, Others
  <1> QED
    BY <1>1 DEF FeasibleInv, ConfirmedPlansAreFeasible, Ready

LEMMA FeasibleNext == TypeInv /\ FeasibleInv /\ [Next]_vars => FeasibleInv'
  <1> SUFFICES ASSUME TypeInv, FeasibleInv, [Next]_vars PROVE FeasibleInv'
    OBVIOUS
  <1>1. ASSUME NEW r \in Requests, ConfirmSolve(r)
        PROVE  FeasibleInv'
    <2>1. PICK S \in SUBSET Proposals, valid \in BOOLEAN : Verdict(r, req[r].id, S, valid)
      BY <1>1 DEF ConfirmSolve, TypeInv, TypeOK
    <2>2. rows' = rows
      BY <1>1 DEF ConfirmSolve, db
    <2>3. CASE ~valid
      BY <2>1, <2>2, <2>3, AnswerFields, ElsewhereFeasible DEF Verdict, Elsewhere
    <2>4. CASE valid
      <3>1. PICK edited :
              req' = [req EXCEPT ![r].plan = Solve(r, req[r].id, edited, valid),
                                 ![r].prefs = edited, ![r].pc = "supersede"]
        BY <2>1, <2>4, Zenon DEF Verdict
      <3>2. Others(r) /\ req'[r].plan = Solve(r, req[r].id, edited, valid)
        BY <3>1, RequestOf DEF Others, TypeInv, TypeOK, RequestType
      <3>3. Ready(req'[r])
        BY <2>4, <3>2 DEF Ready, Solve
      <3> QED
        BY <2>2, <3>2, <3>3, PlansFeasible
    <2> QED
      BY <2>3, <2>4
  <1>2. ASSUME NEW r \in Requests, TurnBuild(r)
        PROVE  FeasibleInv'
    <2>1. PICK valid \in BOOLEAN :
            req' = [req EXCEPT ![r].id = NoId,
                               ![r].plan = Solve(r, NoId, req[r].prefs, valid),
                               ![r].base = TRUE, ![r].pc = "supersede"]
      BY <1>2 DEF TurnBuild
    <2>2. Others(r) /\ req'[r].plan = Solve(r, NoId, req[r].prefs, valid)
      BY <2>1, RequestOf DEF Others, TypeInv, TypeOK, RequestType
    <2>3. Ready(req'[r])
      BY <2>2 DEF Ready, Solve
    <2>4. rows' = rows
      BY <1>2, Zenon DEF TurnBuild, db
    <2> QED
      BY <2>2, <2>3, <2>4, PlansFeasible
  <1>3. ASSUME NEW r \in Requests, NEW p \in Proposals, TurnConfirm(r, p)
        PROVE  FeasibleInv'
    <2>1. PICK edited :
            \/ req' = [req EXCEPT ![r].id = p, ![r].prefs = edited,
                                  ![r].plan = Solve(r, p, edited, TRUE),
                                  ![r].pc = "supersede"]
            \/ req' = [req EXCEPT ![r].prefs = edited]
      BY <1>3, Zenon DEF TurnConfirm
    <2>2. /\ Others(r)
          /\ \/ req'[r].plan = Solve(r, p, edited, TRUE)
             \/ req'[r].pc = req[r].pc
      BY <2>1, RequestOf, ZenonT(60) DEF Others, TypeInv, TypeOK, RequestType
    <2>3. Ready(req'[r])
      BY <1>3, <2>2 DEF Ready, Solve, TurnConfirm, At
    <2>4. rows' = rows
      BY <1>3, Zenon DEF TurnConfirm, db
    <2> QED
      BY <2>2, <2>3, <2>4, PlansFeasible
  <1>4. ASSUME NEW r \in Requests, RefreshReplan(r)
        PROVE  FeasibleInv'
    <2>1. rows' = rows
      BY <1>4 DEF RefreshReplan, db
    <2>2. CASE Answer(r, "error")
      BY <2>1, <2>2, AnswerFields, ElsewhereFeasible DEF Elsewhere
    <2>3. CASE \E valid \in BOOLEAN :
                  req' = [req EXCEPT ![r].plan = Solve(r, NoId, req[r].prefs, valid),
                                     ![r].pc = "supersede"]
      <3>1. PICK valid \in BOOLEAN :
              req' = [req EXCEPT ![r].plan = Solve(r, NoId, req[r].prefs, valid),
                                 ![r].pc = "supersede"]
        BY <2>3
      <3>2. Others(r) /\ req'[r].plan = Solve(r, NoId, req[r].prefs, valid)
        BY <3>1, RequestOf DEF Others, TypeInv, TypeOK, RequestType
      <3>3. Ready(req'[r])
        BY <3>2 DEF Ready, Solve
      <3> QED
        BY <2>1, <3>2, <3>3, PlansFeasible
    <2> QED
      BY <1>4, <2>2, <2>3 DEF RefreshReplan
  <1>5. ASSUME NEW r \in Requests, PersistSupersede(r)
        PROVE  FeasibleInv'
    <2>1. /\ Others(r)
          /\ req'[r].plan = req[r].plan /\ req[r].pc = "supersede"
      BY <1>5, RequestOf DEF PersistSupersede, Others, TypeInv, TypeOK, RequestType
    <2>2. Ready(req'[r])
      BY <2>1 DEF FeasibleInv, Ready
    <2>3. rows' = rows
      BY <1>5 DEF PersistSupersede, db
    <2> QED
      BY <2>1, <2>2, <2>3, PlansFeasible
  <1>6. ASSUME NEW r \in Requests, PersistCommit(r)
        PROVE  FeasibleInv'
    <2>1. (\E pc \in Places : Goto(r, pc)) \/ (\E a \in Answers : Answer(r, a))
      BY <1>6 DEF PersistCommit, AfterPersist, Writer, ConfirmsEdit, Places, Pcs, Answers
    <2>2. Others(r) /\ req'[r].pc \notin {"supersede", "commit"}
      BY <2>1, GotoFields, AnswerFields DEF Places
    <2>3. \A q \in Requests : Ready(req'[q])
      BY <2>2 DEF FeasibleInv, Ready, Others
    <2>4. req[r].plan.by # NoId => req[r].plan.valid
      BY <1>6 DEF PersistCommit, FeasibleInv, Ready
    <2>5. rows' \subseteq rows \cup {req[r].plan}
      BY <1>6 DEF PersistCommit
    <2>6. ConfirmedPlansAreFeasible'
      BY <2>4, <2>5 DEF FeasibleInv, ConfirmedPlansAreFeasible
    <2> QED
      BY <2>3, <2>6 DEF FeasibleInv, Ready
  <1>7. ASSUME req' = req, rows' \subseteq rows
        PROVE  FeasibleInv'
    BY <1>7 DEF FeasibleInv, ConfirmedPlansAreFeasible, Ready
  <1>8. ASSUME NEW r \in Requests, Start(r) \/ Step(r) \/ Crash(r)
        PROVE  FeasibleInv'
    BY <1>1, <1>2, <1>3, <1>4, <1>5, <1>6, <1>7, <1>8,
       StartsElsewhere, StepsElsewhere, ElsewhereFeasible DEF Step
  <1>9. ASSUME NEW p \in Proposals, Expire(p)
        PROVE  FeasibleInv'
    BY <1>7, <1>9 DEF Expire
  <1>10. CASE VerifyOtp \/ UNCHANGED vars
    BY <1>7, <1>10 DEF VerifyOtp, vars, db
  <1> QED
    BY <1>8, <1>9, <1>10 DEF Next, Rest

\* No confirm, of the page or of the agent, stores a plan that the validator
\* refused, in whatever order requests, failures and crashes come.
THEOREM ConfirmedPlansFeasible == Spec => []ConfirmedPlansAreFeasible
  <1>1. Init => TypeInv /\ FeasibleInv
    <2>1. Init => FeasibleInv
      BY DEF Init, Idle, FeasibleInv, ConfirmedPlansAreFeasible, Ready
    <2> QED
      BY <2>1, TypeInit
  <1>2. TypeInv /\ FeasibleInv /\ [Next]_vars => (TypeInv /\ FeasibleInv)'
    BY TypeNext, FeasibleNext
  <1>3. FeasibleInv => ConfirmedPlansAreFeasible
    BY DEF FeasibleInv
  <1> QED
    BY <1>1, <1>2, <1>3, PTL DEF Spec

-----------------------------------------------------------------------------
(* What each step leaves of the record of its request, without EXCEPT.     *)

\* What a verdict leaves in the record of the request.
LEMMA VerdictFields ==
    ASSUME TypeInv, NEW r \in Requests, NEW S, NEW valid \in BOOLEAN,
           Verdict(r, req[r].id, S, valid)
    PROVE  LET edited == IF req[r].id \in Edits THEN S \cup {req[r].id} ELSE S
           IN  /\ req'[r].op = req[r].op /\ req'[r].id = req[r].id
               /\ req'[r].dpr = req[r].dpr
               /\ \/ /\ valid /\ refused' = refused
                     /\ req'[r].pc = "supersede"
                     /\ req'[r].prefs = edited
                     /\ req'[r].plan.prefs = edited /\ req'[r].plan.dpr = req[r].dpr
                  \/ /\ ~valid
                     /\ req'[r].pc = "done" /\ req'[r].res = "infeasible"
  <1> DEFINE edited == IF req[r].id \in Edits THEN S \cup {req[r].id} ELSE S
             plan == Solve(r, req[r].id, edited, valid)
  <1>1. plan.prefs = edited /\ plan.dpr = req[r].dpr
    BY DEF Solve
  <1>2. CASE valid
    <2>1. /\ req' = [req EXCEPT ![r].plan = plan, ![r].prefs = edited, ![r].pc = "supersede"]
          /\ refused' = refused
      BY <1>2 DEF Verdict
    <2> HIDE DEF plan, edited
    <2>2. /\ req'[r].op = req[r].op /\ req'[r].id = req[r].id /\ req'[r].dpr = req[r].dpr
          /\ req'[r].pc = "supersede" /\ req'[r].prefs = edited /\ req'[r].plan = plan
      BY <2>1, RequestOf DEF TypeInv, TypeOK, RequestType
    <2> QED
      BY <1>1, <1>2, <2>1, <2>2 DEF edited
  <1>3. CASE ~valid
    <2>1. Answer(r, "infeasible")
      BY <1>3 DEF Verdict
    <2> QED
      BY <1>3, <2>1, RequestOf DEF Answer, TypeInv, TypeOK, RequestType
  <1> QED
    BY <1>2, <1>3

\* What a step leaves of the record of its request.
KeepsArgs(r) ==
    /\ req'[r].op = req[r].op /\ req'[r].id = req[r].id /\ req'[r].dpr = req[r].dpr

KeepsData(r) ==
    /\ KeepsArgs(r)
    /\ req'[r].prefs = req[r].prefs /\ req'[r].plan = req[r].plan
    /\ req'[r].snap = req[r].snap /\ req'[r].made = req[r].made

LEMMA GotoKeeps ==
    ASSUME TypeInv, NEW r \in Requests, NEW pc, Goto(r, pc)
    PROVE  KeepsData(r) /\ req'[r].pc = pc
  BY RequestOf DEF Goto, KeepsData, KeepsArgs, TypeInv, TypeOK, RequestType

LEMMA AnswerKeeps ==
    ASSUME TypeInv, NEW r \in Requests, NEW a, Answer(r, a)
    PROVE  KeepsData(r) /\ req'[r].pc = "done" /\ req'[r].res = a
  BY RequestOf DEF Answer, KeepsData, KeepsArgs, TypeInv, TypeOK, RequestType

LEMMA AfterPersistKeeps ==
    ASSUME TypeInv, NEW r \in Requests, Writer(r), NEW ok \in BOOLEAN, AfterPersist(r, ok)
    PROVE  /\ KeepsData(r)
           /\ \/ ConfirmsEdit(r) /\ req'[r].pc = "prefs"
              \/ req[r].op = "turn" /\ ~ConfirmsEdit(r) /\ req'[r].pc = "agent"
              \/ req[r].op = "refresh" /\ req'[r].pc = "done"
              \/ req[r].op = "confirm" /\ ~ConfirmsEdit(r) /\ ok /\ req'[r].pc = "done"
              \/ req[r].op = "confirm" /\ ~ConfirmsEdit(r) /\ ~ok /\ req'[r].pc = "restage"
  <1>1. \/ ConfirmsEdit(r) /\ Goto(r, "prefs")
        \/ req[r].op = "turn" /\ ~ConfirmsEdit(r) /\ Goto(r, "agent")
        \/ req[r].op = "refresh" /\ Answer(r, "changed")
        \/ req[r].op = "confirm" /\ ~ConfirmsEdit(r) /\ ok /\ Answer(r, "applied")
        \/ req[r].op = "confirm" /\ ~ConfirmsEdit(r) /\ ~ok /\ Goto(r, "restage")
    BY DEF AfterPersist, Writer, ConfirmsEdit
  <1> QED
    BY <1>1, GotoKeeps, AnswerKeeps

LEMMA AfterPrefsKeeps ==
    ASSUME TypeInv, NEW r \in Requests, Writer(r), AfterPrefs(r)
    PROVE  /\ KeepsData(r)
           /\ \/ req[r].op = "confirm" /\ req'[r].pc = "done"
              \/ req[r].op = "turn" /\ req'[r].pc = "agent"
              \/ req[r].op = "refresh" /\ req'[r].pc = "replan"
  <1>1. \/ req[r].op = "confirm" /\ Answer(r, "applied")
        \/ req[r].op = "turn" /\ Goto(r, "agent")
        \/ req[r].op = "refresh" /\ Goto(r, "replan")
    BY DEF AfterPrefs, Writer
  <1> QED
    BY <1>1, GotoKeeps, AnswerKeeps

LEMMA BeginSets ==
    ASSUME TypeInv, NEW r \in Requests, NEW op, NEW pc, NEW id, NEW d,
           Begin(r, op, pc, id, d)
    PROVE  /\ req'[r].op = op /\ req'[r].pc = pc /\ req'[r].id = id /\ req'[r].dpr = d
           /\ req'[r].prefs = {} /\ req'[r].plan = NoPlan /\ req[r].pc = "idle"
  <1>1. req' = [req EXCEPT ![r] = [Idle EXCEPT !.op = op, !.pc = pc, !.id = id, !.dpr = d]]
    BY DEF Begin
  <1> QED
    BY <1>1 DEF Begin, TypeInv, TypeOK, Idle

\* A step that writes no plan, preferences or report, and may fail.
OnlyReads ==
    /\ (student' <=> student) /\ dpr' = dpr /\ prefs' = prefs /\ rows' = rows
    /\ kept' = kept
    /\ faults' = faults \/ (faults' = faults + 1 /\ faults < MaxFaults)

LEMMA ReadsRead ==
    ASSUME TypeInv, NEW r \in Requests,
           \/ ProposeLoadPlan(r) \/ ProposeStage(r) \/ ConfirmLoadDpr(r)
           \/ ConfirmLoadPlan(r) \/ ConfirmSolve(r) \/ ConfirmEngineError(r)
           \/ ConfirmRestage(r) \/ PersistSupersede(r) \/ PersistFail(r)
           \/ TurnLoadPlan(r) \/ TurnLoadPrefs(r) \/ TurnCheckProfile(r)
           \/ TurnBuild(r) \/ TurnEnd(r) \/ RefreshCompare(r) \/ RefreshPruneRead(r)
           \/ RefreshReplan(r) \/ Reply(r) \/ Crash(r)
           \/ ProposeLoadDpr(r)
           \/ \E p \in Proposals : TurnConfirm(r, p) \/ ConfirmTake(r, p)
           \/ \E d \in Dprs : TurnStart(r, d) \/ RefreshStart(r, d)
    PROVE  OnlyReads
  <1>1. UNCHANGED <<student, dpr, prefs, rows, kept>>
    BY Zenon DEF ProposeLoadPlan, ProposeStage, ConfirmLoadDpr, ConfirmLoadPlan, ConfirmSolve,
           ConfirmEngineError, ConfirmRestage, PersistSupersede, PersistFail, TurnLoadPlan,
           TurnLoadPrefs, TurnCheckProfile, TurnBuild, TurnEnd, RefreshCompare,
           RefreshPruneRead, RefreshReplan, Reply, Crash, ProposeLoadDpr, TurnConfirm,
           ConfirmTake, TurnStart, RefreshStart, db, history
  <1>2. Fault \/ NoFault
    BY Zenon DEF ProposeLoadPlan, ProposeStage, ConfirmLoadDpr, ConfirmLoadPlan, ConfirmSolve,
           ConfirmEngineError, ConfirmRestage, PersistSupersede, PersistFail, TurnLoadPlan,
           TurnLoadPrefs, TurnCheckProfile, TurnBuild, TurnEnd, RefreshCompare,
           RefreshPruneRead, RefreshReplan, Reply, Crash, ProposeLoadDpr, TurnConfirm,
           ConfirmTake, TurnStart, RefreshStart, NoFault
  <1> QED
    BY <1>1, <1>2 DEF OnlyReads, Fault, NoFault

\* One lemma for each step or group of steps.
LEMMA ProposeSets ==
    ASSUME TypeInv, NEW r \in Requests, ProposeLoadPlan(r) \/ ProposeStage(r)
    PROVE  /\ req[r].op = "propose" /\ req[r].pc \in {"loadPlan", "stage"}
           /\ req'[r].op = "propose" /\ req'[r].pc \in {"stage", "done"}
  <1>1. CASE \E p : req' = [req EXCEPT ![r].id = p, ![r].pc = "stage"]
    BY <1>1, RequestOf DEF ProposeLoadPlan, ProposeStage, At, TypeInv, TypeOK, RequestType
  <1> QED
    BY <1>1, AnswerKeeps DEF ProposeLoadPlan, ProposeStage, At, KeepsData, KeepsArgs

LEMMA ConfirmLoadDprSets ==
    ASSUME TypeInv, NEW r \in Requests, ConfirmLoadDpr(r)
    PROVE  /\ At(r, "confirm", "loadDpr") /\ req'[r].op = "confirm"
           /\ \/ HasDpr /\ faults' = faults /\ req'[r].pc = "loadPlan" /\ req'[r].dpr = dpr
              \/ req'[r].pc = "restage" /\ (faults' = faults => ~HasDpr)
  <1>1. CASE HasDpr /\ NoFault /\ req' = [req EXCEPT ![r].dpr = dpr, ![r].pc = "loadPlan"]
    BY <1>1, RequestOf DEF ConfirmLoadDpr, At, NoFault, TypeInv, TypeOK, RequestType
  <1>2. CASE Goto(r, "restage") /\ (~HasDpr \/ Fault)
    <2>1. Fault => faults' # faults
      BY DEF Fault, TypeInv, TypeOK
    <2> QED
      BY <1>2, <2>1, GotoKeeps DEF ConfirmLoadDpr, At, KeepsData, KeepsArgs
  <1> QED
    BY <1>1, <1>2 DEF ConfirmLoadDpr

LEMMA ConfirmMovesSet ==
    ASSUME TypeInv, NEW r \in Requests,
           ConfirmLoadPlan(r) \/ ConfirmEngineError(r) \/ ConfirmRestage(r)
    PROVE  /\ req[r].op = "confirm" /\ req[r].pc \in {"loadPlan", "solve", "restage"}
           /\ KeepsData(r)
           /\ \/ req[r].pc = "loadPlan" /\ req'[r].pc = "solve"
              \/ req'[r].pc = "restage"
              \/ req'[r].pc = "done" /\ req'[r].res = "error"
  BY GotoKeeps, AnswerKeeps DEF ConfirmLoadPlan, ConfirmEngineError, ConfirmRestage, At

LEMMA ConfirmSolveSets ==
    ASSUME TypeInv, NEW r \in Requests, ConfirmSolve(r)
    PROVE  /\ At(r, "confirm", "solve") /\ KeepsArgs(r)
           /\ \/ /\ req'[r].pc = "supersede"
                 /\ refused' = refused
                 /\ req[r].id \in Edits => req[r].id \in req'[r].prefs
                 /\ req'[r].plan.prefs = req'[r].prefs /\ req'[r].plan.dpr = req[r].dpr
                 /\ \/ faults' = faults + 1
                    \/ req[r].id \in Edits /\ req'[r].prefs = prefs \cup {req[r].id}
                    \/ req[r].id \notin Edits /\ req'[r].prefs = prefs
              \/ req'[r].pc = "done" /\ req'[r].res = "infeasible"
  <1>1. At(r, "confirm", "solve")
    BY DEF ConfirmSolve
  <1>2. ASSUME NEW valid \in BOOLEAN, Verdict(r, req[r].id, prefs, valid)
        PROVE  /\ KeepsArgs(r)
               /\ \/ /\ req'[r].pc = "supersede"
                     /\ refused' = refused
                     /\ req'[r].plan.prefs = req'[r].prefs /\ req'[r].plan.dpr = req[r].dpr
                     /\ \/ req[r].id \in Edits /\ req'[r].prefs = prefs \cup {req[r].id}
                        \/ req[r].id \notin Edits /\ req'[r].prefs = prefs
                  \/ req'[r].pc = "done" /\ req'[r].res = "infeasible"
    BY <1>2, VerdictFields DEF KeepsArgs
  <1>3. ASSUME Fault, NEW valid \in BOOLEAN, Verdict(r, req[r].id, {}, valid)
        PROVE  /\ KeepsArgs(r) /\ faults' = faults + 1
               /\ \/ /\ req'[r].pc = "supersede"
                     /\ refused' = refused
                     /\ req[r].id \in Edits => req[r].id \in req'[r].prefs
                     /\ req'[r].plan.prefs = req'[r].prefs /\ req'[r].plan.dpr = req[r].dpr
                  \/ req'[r].pc = "done" /\ req'[r].res = "infeasible"
    BY <1>3, VerdictFields DEF KeepsArgs, Fault
  <1>4. \/ \E valid \in BOOLEAN : Verdict(r, req[r].id, prefs, valid)
        \/ Fault /\ \E valid \in BOOLEAN : Verdict(r, req[r].id, {}, valid)
    BY Zenon DEF ConfirmSolve
  <1> QED
    BY <1>1, <1>2, <1>3, <1>4

LEMMA SupersedeSets ==
    ASSUME TypeInv, NEW r \in Requests, PersistSupersede(r)
    PROVE  /\ Writer(r) /\ req[r].pc = "supersede" /\ KeepsArgs(r)
           /\ req'[r].prefs = req[r].prefs /\ req'[r].plan = req[r].plan
           /\ req'[r].snap = rows /\ req'[r].made = ~student /\ req'[r].pc = "commit"
  <1>1. req' = [req EXCEPT ![r].snap = rows, ![r].made = ~student, ![r].pc = "commit"]
    BY DEF PersistSupersede
  <1> QED
    BY <1>1, RequestOf DEF PersistSupersede, KeepsArgs, TypeInv, TypeOK, RequestType

LEMMA CommitSets ==
    ASSUME TypeInv, NEW r \in Requests, PersistCommit(r)
    PROVE  /\ Writer(r) /\ req[r].pc = "commit" /\ KeepsData(r)
           /\ rows' = (rows \ req[r].snap) \cup {req[r].plan}
           /\ student' /\ dpr' = dpr /\ prefs' = prefs /\ pending' = pending
           /\ kept' = kept /\ refused' = refused /\ faults' = faults
           /\ \/ req[r].op \in {"confirm", "turn"} /\ req[r].id \in Edits /\ req'[r].pc = "prefs"
              \/ req[r].op = "turn" /\ req[r].id \notin Edits /\ req'[r].pc = "agent"
              \/ req[r].op = "refresh" /\ req'[r].pc = "done"
              \/ req[r].op = "confirm" /\ req[r].id \notin Edits /\ req'[r].pc = "done"
  BY AfterPersistKeeps DEF PersistCommit, ConfirmsEdit

LEMMA FailSets ==
    ASSUME TypeInv, NEW r \in Requests, PersistFail(r)
    PROVE  /\ Writer(r) /\ req[r].pc = "commit" /\ KeepsData(r)
           /\ student \/ req[r].made => faults' = faults + 1 /\ faults < MaxFaults
           /\ \/ req[r].op \in {"confirm", "turn"} /\ req[r].id \in Edits /\ req'[r].pc = "prefs"
              \/ req[r].op = "turn" /\ req[r].id \notin Edits /\ req'[r].pc = "agent"
              \/ req[r].op = "refresh" /\ req'[r].pc = "done"
              \/ req[r].op = "confirm" /\ req[r].id \notin Edits /\ req'[r].pc = "restage"
  BY AfterPersistKeeps DEF PersistFail, ConfirmsEdit, Fault

LEMMA PrefsEnsureSets ==
    ASSUME TypeInv, NEW r \in Requests, PrefsEnsureStudent(r)
    PROVE  /\ Writer(r) /\ req[r].pc = "prefs" /\ KeepsData(r)
           /\ dpr' = dpr /\ prefs' = prefs /\ rows' = rows /\ pending' = pending
           /\ kept' = kept
           /\ \/ faults' = faults /\ student' /\ req'[r].pc = "prefsWrite"
              \/ /\ faults' = faults + 1 /\ faults < MaxFaults /\ (student' <=> student)
                 /\ \/ req[r].op = "confirm" /\ req'[r].pc = "done"
                    \/ req[r].op = "turn" /\ req'[r].pc = "agent"
                    \/ req[r].op = "refresh" /\ req'[r].pc = "replan"
  BY AfterPrefsKeeps, GotoKeeps DEF PrefsEnsureStudent, Fault, NoFault, history

LEMMA PersistPrefsSets ==
    ASSUME TypeInv, NEW r \in Requests, PersistPrefs(r)
    PROVE  /\ Writer(r) /\ req[r].pc = "prefsWrite" /\ KeepsData(r)
           /\ (student' <=> student) /\ dpr' = dpr /\ rows' = rows /\ pending' = pending
           /\ \/ /\ student /\ faults' = faults /\ prefs' = req[r].prefs
                 /\ kept' = IF req[r].op = "refresh" THEN kept \ Completed[req[r].dpr]
                                                     ELSE kept \cup {req[r].id}
              \/ ~student /\ faults' = faults /\ prefs' = prefs /\ kept' = kept
              \/ /\ faults' = faults + 1 /\ faults < MaxFaults
                 /\ prefs' = prefs /\ kept' = kept
           /\ \/ req[r].op = "confirm" /\ req'[r].pc = "done"
              \/ req[r].op = "turn" /\ req'[r].pc = "agent"
              \/ req[r].op = "refresh" /\ req'[r].pc = "replan"
  BY AfterPrefsKeeps DEF PersistPrefs, Fault, NoFault

LEMMA TurnLoadsSet ==
    ASSUME TypeInv, NEW r \in Requests, TurnLoadPlan(r) \/ TurnLoadPrefs(r)
    PROVE  /\ req[r].op = "turn" /\ KeepsArgs(r) /\ req'[r].plan = req[r].plan
           /\ \/ req[r].pc = "load" /\ faults' = faults /\ req'[r].pc = "loadPrefs"
              \/ req[r].pc = "loadPrefs" /\ req'[r].pc = "boot" /\ req'[r].prefs = prefs
              \/ /\ req[r].pc \in {"load", "loadPrefs"} /\ req'[r].pc = "boot"
                 /\ faults' = faults + 1
  <1>1. ASSUME TurnLoadPlan(r), NoFault,
               req' = [req EXCEPT ![r].base = (rows # {}), ![r].pc = "loadPrefs"]
        PROVE  /\ KeepsArgs(r) /\ req'[r].plan = req[r].plan
               /\ faults' = faults /\ req'[r].pc = "loadPrefs"
    BY <1>1, RequestOf DEF NoFault, KeepsArgs, TypeInv, TypeOK, RequestType
  <1>2. ASSUME TurnLoadPrefs(r), NoFault,
               req' = [req EXCEPT ![r].prefs = prefs, ![r].pc = "boot"]
        PROVE  /\ KeepsArgs(r) /\ req'[r].plan = req[r].plan
               /\ req'[r].pc = "boot" /\ req'[r].prefs = prefs
    BY <1>2, RequestOf DEF NoFault, KeepsArgs, TypeInv, TypeOK, RequestType
  <1>3. CASE TurnLoadPlan(r)
    <2>1. \/ NoFault /\ req' = [req EXCEPT ![r].base = (rows # {}), ![r].pc = "loadPrefs"]
          \/ Fault /\ Goto(r, "boot")
      BY <1>3 DEF TurnLoadPlan
    <2> QED
      BY <1>1, <1>3, <2>1, GotoKeeps DEF TurnLoadPlan, At, Fault, KeepsData
  <1>4. CASE TurnLoadPrefs(r)
    <2>1. \/ NoFault /\ req' = [req EXCEPT ![r].prefs = prefs, ![r].pc = "boot"]
          \/ Fault /\ Goto(r, "boot")
      BY <1>4 DEF TurnLoadPrefs
    <2> QED
      BY <1>2, <1>4, <2>1, GotoKeeps DEF TurnLoadPrefs, At, Fault, KeepsData
  <1> QED
    BY <1>3, <1>4

LEMMA TurnMovesSet ==
    ASSUME TypeInv, NEW r \in Requests, TurnCheckProfile(r) \/ TurnEnd(r)
    PROVE  /\ req[r].op = "turn" /\ KeepsData(r) /\ faults' = faults
           /\ \/ req[r].pc = "boot" /\ HasDpr /\ req'[r].pc = "agent"
              \/ req[r].pc = "boot" /\ ~HasDpr /\ req'[r].pc = "bootWrite"
              \/ req[r].pc = "agent" /\ req'[r].pc = "done"
  BY GotoKeeps, AnswerKeeps DEF TurnCheckProfile, TurnEnd, At

LEMMA TurnBootstrapSets ==
    ASSUME TypeInv, NEW r \in Requests, TurnBootstrap(r)
    PROVE  /\ At(r, "turn", "bootWrite") /\ req'[r].pc = "agent" /\ KeepsData(r)
           /\ prefs' = prefs /\ rows' = rows /\ pending' = pending /\ kept' = kept
           /\ \/ faults' = faults /\ student' /\ dpr' = req[r].dpr
              \/ /\ faults' = faults + 1 /\ faults < MaxFaults
                 /\ (student' <=> student) /\ dpr' = dpr
  BY GotoKeeps DEF TurnBootstrap, Fault, NoFault, history

LEMMA TurnBuildSets ==
    ASSUME TypeInv, NEW r \in Requests, TurnBuild(r)
    PROVE  /\ At(r, "turn", "agent") /\ faults' = faults
           /\ req'[r].op = "turn" /\ req'[r].pc = "supersede" /\ req'[r].id = NoId
           /\ req'[r].dpr = req[r].dpr /\ req'[r].prefs = req[r].prefs
           /\ req'[r].plan.prefs = req[r].prefs /\ req'[r].plan.dpr = req[r].dpr
  <1>1. PICK valid \in BOOLEAN :
          req' = [req EXCEPT ![r].id = NoId,
                             ![r].plan = Solve(r, NoId, req[r].prefs, valid),
                             ![r].base = TRUE, ![r].pc = "supersede"]
    BY DEF TurnBuild
  <1> DEFINE plan == Solve(r, NoId, req[r].prefs, valid)
  <1>2. plan.prefs = req[r].prefs /\ plan.dpr = req[r].dpr
    BY DEF Solve
  <1> HIDE DEF plan
  <1>3. req' = [req EXCEPT ![r].id = NoId, ![r].plan = plan, ![r].base = TRUE,
                           ![r].pc = "supersede"]
    BY <1>1 DEF plan
  <1>4. At(r, "turn", "agent") /\ faults' = faults
    BY Zenon DEF TurnBuild
  <1> QED
    BY <1>2, <1>3, <1>4, RequestOf DEF At, TypeInv, TypeOK, RequestType

LEMMA TurnConfirmSets ==
    ASSUME TypeInv, NEW r \in Requests, NEW p \in Proposals, TurnConfirm(r, p)
    PROVE  /\ At(r, "turn", "agent") /\ faults' = faults
           /\ req'[r].op = "turn" /\ req'[r].dpr = req[r].dpr
           /\ req'[r].prefs = req[r].prefs \cup {p}
           /\ \/ /\ req'[r].pc = "supersede" /\ req'[r].id = p /\ p \in Edits
                 /\ req'[r].plan.prefs = req'[r].prefs /\ req'[r].plan.dpr = req[r].dpr
                 /\ refused' = refused
              \/ /\ req'[r].pc = "agent" /\ req'[r].plan = req[r].plan
                 /\ refused' = refused \cup ({p} \ prefs)
  <1> DEFINE edited == req[r].prefs \cup {p}
             plan == Solve(r, p, edited, TRUE)
  <1>1. plan.dpr = req[r].dpr /\ plan.prefs = edited
    BY DEF Solve
  <1>2. \/ /\ req' = [req EXCEPT ![r].id = p, ![r].prefs = edited,
                                 ![r].plan = plan, ![r].pc = "supersede"]
           /\ refused' = refused
        \/ /\ req' = [req EXCEPT ![r].prefs = edited]
           /\ refused' = refused \cup ({p} \ prefs)
    BY DEF TurnConfirm
  <1>3. At(r, "turn", "agent") /\ faults' = faults /\ p \in Edits
    BY Zenon DEF TurnConfirm
  <1> HIDE DEF plan
  <1> QED
    BY <1>1, <1>2, <1>3, RequestOf DEF At, TypeInv, TypeOK, RequestType

LEMMA RefreshCompareSets ==
    ASSUME TypeInv, NEW r \in Requests, RefreshCompare(r)
    PROVE  /\ At(r, "refresh", "compare") /\ KeepsData(r)
           /\ \/ req'[r].pc = "persistDpr"
              \/ req'[r].pc = "done" /\ req'[r].res = "unchanged"
  BY GotoKeeps, AnswerKeeps DEF RefreshCompare

LEMMA RefreshPersistDprSets ==
    ASSUME TypeInv, NEW r \in Requests, RefreshPersistDpr(r)
    PROVE  /\ At(r, "refresh", "persistDpr") /\ KeepsData(r)
           /\ prefs' = prefs /\ rows' = rows /\ pending' = pending /\ kept' = kept
           /\ \/ /\ faults' = faults /\ student' /\ dpr' = req[r].dpr
                 /\ req'[r].pc = "clear"
              \/ /\ faults' = faults + 1 /\ faults < MaxFaults
                 /\ (student' <=> student) /\ dpr' = dpr /\ req'[r].pc = "done"
  BY GotoKeeps, AnswerKeeps DEF RefreshPersistDpr, Fault, NoFault, history

LEMMA RefreshClearSets ==
    ASSUME TypeInv, NEW r \in Requests, RefreshClear(r)
    PROVE  /\ At(r, "refresh", "clear") /\ KeepsData(r) /\ req'[r].pc = "pruneRead"
           /\ (student' <=> student) /\ dpr' = dpr /\ prefs' = prefs /\ pending' = pending
           /\ kept' = kept
           /\ \/ faults' = faults /\ rows' = {}
              \/ faults' = faults + 1 /\ faults < MaxFaults /\ rows' = rows
  BY GotoKeeps DEF RefreshClear, Fault, NoFault, history

LEMMA PruneReadSets ==
    ASSUME TypeInv, NEW r \in Requests, RefreshPruneRead(r)
    PROVE  /\ At(r, "refresh", "pruneRead") /\ KeepsArgs(r)
           /\ \/ /\ faults' = faults
                 /\ req'[r].prefs = prefs \ Completed[req[r].dpr]
                 /\ \/ req'[r].pc = "replan" /\ req'[r].prefs = prefs
                    \/ req'[r].pc = "prefs"
              \/ faults' = faults + 1 /\ faults < MaxFaults /\ req'[r].pc = "replan"
  <1> DEFINE pruned == prefs \ Completed[req[r].dpr]
             pc == IF pruned = prefs THEN "replan" ELSE "prefs"
  <1>1. /\ At(r, "refresh", "pruneRead")
        /\ \/ NoFault /\ req' = [req EXCEPT ![r].prefs = pruned, ![r].pc = pc]
           \/ Fault /\ Goto(r, "replan")
    BY DEF RefreshPruneRead
  <1> HIDE DEF pruned, pc
  <1>2. \/ /\ faults' = faults /\ KeepsArgs(r) /\ req'[r].prefs = pruned /\ req'[r].pc = pc
        \/ Fault /\ KeepsArgs(r) /\ req'[r].pc = "replan"
    BY <1>1, RequestOf, GotoKeeps DEF NoFault, KeepsArgs, KeepsData, TypeInv, TypeOK, RequestType
  <1> QED
    BY <1>1, <1>2 DEF Fault, pruned, pc

LEMMA ReplanSets ==
    ASSUME TypeInv, NEW r \in Requests, RefreshReplan(r)
    PROVE  /\ At(r, "refresh", "replan") /\ KeepsArgs(r)
           /\ \/ /\ faults' = faults /\ req'[r].pc = "supersede"
                 /\ req'[r].prefs = req[r].prefs
                 /\ req'[r].plan.prefs = req[r].prefs /\ req'[r].plan.dpr = req[r].dpr
              \/ faults' = faults + 1 /\ faults < MaxFaults /\ req'[r].pc = "done"
  <1>1. ASSUME NoFault, NEW valid \in BOOLEAN,
               req' = [req EXCEPT ![r].plan = Solve(r, NoId, req[r].prefs, valid),
                                  ![r].pc = "supersede"]
        PROVE  /\ KeepsArgs(r) /\ faults' = faults /\ req'[r].pc = "supersede"
               /\ req'[r].prefs = req[r].prefs
               /\ req'[r].plan.prefs = req[r].prefs /\ req'[r].plan.dpr = req[r].dpr
    <2> DEFINE plan == Solve(r, NoId, req[r].prefs, valid)
    <2>1. plan.prefs = req[r].prefs /\ plan.dpr = req[r].dpr
      BY DEF Solve
    <2>2. req' = [req EXCEPT ![r].plan = plan, ![r].pc = "supersede"]
      BY <1>1
    <2> HIDE DEF plan
    <2> QED
      BY <1>1, <2>1, <2>2, RequestOf DEF NoFault, KeepsArgs, TypeInv, TypeOK, RequestType
  <1>2. ASSUME Fault, Answer(r, "error")
        PROVE  KeepsArgs(r) /\ faults' = faults + 1 /\ faults < MaxFaults /\ req'[r].pc = "done"
    BY <1>2, AnswerKeeps DEF Fault, KeepsData
  <1>3. At(r, "refresh", "replan")
    BY Zenon DEF RefreshReplan
  <1> QED
    BY <1>1, <1>2, <1>3, Zenon DEF RefreshReplan

LEMMA EndsIdle ==
    ASSUME TypeInv, NEW r \in Requests, Reply(r) \/ Crash(r)
    PROVE  /\ req'[r].op = "none" /\ req'[r].pc = "idle"
           /\ Crash(r) => MayCrash /\ faults' = faults + 1
           /\ Reply(r) => req[r].pc = "done"
  <1>1. req' = [req EXCEPT ![r] = Idle]
    BY DEF Reply, Crash
  <1> QED
    BY <1>1 DEF Reply, Crash, Fault, TypeInv, TypeOK, Idle

-----------------------------------------------------------------------------
(* Overlapping requests: what PlanHistory says of them.                    *)

\* The request that moves is one, and the deletion moves none.
LEMMA StepMovesOne ==
    ASSUME TypeInv, NEW r \in Requests, Start(r) \/ Step(r) \/ Crash(r)
    PROVE  Others(r)
  <1>1. CASE LetsGo(r)
    BY <1>1 DEF LetsGo
  <1>2. CASE ProposeLoadPlan(r)
    <2>1. CASE \E p \in Proposals : req' = [req EXCEPT ![r].id = p, ![r].pc = "stage"]
      BY <2>1, RequestOf DEF Others, TypeInv, TypeOK, RequestType
    <2> QED
      BY <1>2, <2>1, AnswerFields DEF ProposeLoadPlan
  <1>3. CASE ProposeStage(r) \/ ConfirmRestage(r)
    BY <1>3, AnswerFields DEF ProposeStage, ConfirmRestage
  <1>4. CASE PersistCommit(r)
    <2>1. (\E pc : Goto(r, pc)) \/ (\E a : Answer(r, a))
      BY <1>4 DEF PersistCommit, AfterPersist, Writer, ConfirmsEdit
    <2> QED
      BY <2>1, GotoFields, AnswerFields
  <1>5. CASE \E p \in Proposals : ConfirmTake(r, p)
    BY <1>5, BeginFields DEF ConfirmTake
  <1> QED
    BY <1>1, <1>2, <1>3, <1>4, <1>5, StepsLetGo, StartsLetGo DEF Start

LEMMA OneMoves ==
    ASSUME TypeInv, [Next]_vars, NEW r \in Requests, req'[r] # req[r]
    PROVE  Others(r) /\ (Start(r) \/ Step(r) \/ Crash(r))
  <1>1. req' # req
    OBVIOUS
  <1>2. PICK q \in Requests : Start(q) \/ Step(q) \/ Crash(q)
    BY <1>1 DEF Next, Expire, VerifyOtp, Rest, vars
  <1>3. Others(q)
    BY <1>2, StepMovesOne
  <1>4. q = r
    BY <1>3 DEF Others
  <1> QED
    BY <1>2, <1>3, <1>4

\* The students row goes only when the account is deleted, with everything.
LEMMA StudentStays ==
    ASSUME TypeInv, NEW r \in Requests, Start(r) \/ Step(r) \/ Crash(r), ~DeleteAccount(r)
    PROVE  student => student'
  <1>1. CASE OnlyReads
    BY <1>1 DEF OnlyReads
  <1>2. CASE \/ PersistCommit(r) \/ PrefsEnsureStudent(r) \/ PersistPrefs(r)
             \/ TurnBootstrap(r) \/ RefreshPersistDpr(r) \/ RefreshClear(r)
    BY <1>2, Zenon DEF PersistCommit, PrefsEnsureStudent, PersistPrefs, TurnBootstrap,
           RefreshPersistDpr, RefreshClear
  <1> QED
    BY <1>1, <1>2, ReadsRead DEF Start, Step

\* Every other step of a request that writes.
LEMMA WritersWrite ==
    ASSUME TypeInv, NEW r \in Requests, Start(r) \/ Step(r) \/ Crash(r)
    PROVE  \/ OnlyReads
           \/ PersistCommit(r) \/ PrefsEnsureStudent(r) \/ PersistPrefs(r)
           \/ TurnBootstrap(r) \/ RefreshPersistDpr(r) \/ RefreshClear(r)
           \/ DeleteAccount(r)
  BY ReadsRead DEF Start, Step

LEMMA FaultsGrow ==
    ASSUME TypeInv, [Next]_vars
    PROVE  faults \in Nat /\ faults' \in Nat /\ faults <= faults'
  <1>1. faults \in Nat
    BY DEF TypeInv, TypeOK
  <1>2. ASSUME NEW r \in Requests, Start(r) \/ Step(r) \/ Crash(r)
        PROVE  faults' = faults \/ faults' = faults + 1
    <2>1. CASE PersistPrefs(r)
      BY <2>1, PersistPrefsSets
    <2>2. CASE PrefsEnsureStudent(r)
      BY <2>2, PrefsEnsureSets
    <2>3. CASE TurnBootstrap(r) \/ RefreshPersistDpr(r) \/ RefreshClear(r)
      BY <2>3, TurnBootstrapSets, RefreshPersistDprSets, RefreshClearSets
    <2>4. CASE PersistCommit(r) \/ DeleteAccount(r)
      BY <2>4 DEF PersistCommit, DeleteAccount
    <2> QED
      BY <1>2, <2>1, <2>2, <2>3, <2>4, WritersWrite DEF OnlyReads
  <1>3. ASSUME ~\E r \in Requests : Start(r) \/ Step(r) \/ Crash(r)
        PROVE  faults' = faults
    BY <1>3 DEF Next, Expire, VerifyOtp, Rest, vars
  <1> QED
    BY <1>1, <1>2, <1>3

\* A request that has not begun does nothing but begin, or delete the account.
LEMMA IdleBegins ==
    ASSUME TypeInv, NEW r \in Requests, req[r].pc = "idle",
           Start(r) \/ Step(r) \/ Crash(r)
    PROVE  Begins(r) \/ DeleteAccount(r)
  <1>1. CASE Step(r) \/ Crash(r)
    BY <1>1 DEF Step, Crash, ProposeLoadPlan, ProposeStage, ConfirmLoadDpr, ConfirmLoadPlan,
       ConfirmSolve, ConfirmEngineError, ConfirmRestage, PersistSupersede, PersistCommit,
       PersistFail, PrefsEnsureStudent, PersistPrefs, TurnLoadPlan, TurnLoadPrefs,
       TurnCheckProfile, TurnBootstrap, TurnBuild, TurnConfirm, TurnEnd, RefreshCompare,
       RefreshPersistDpr, RefreshClear, RefreshPruneRead, RefreshReplan, Reply, At
  <1>2. CASE Start(r) /\ ~DeleteAccount(r)
    <2>1. \E op, id, d : \E pc \in Pcs \ {"idle"} : Begin(r, op, pc, id, d)
      BY <1>2 DEF Start, ProposeLoadDpr, ConfirmTake, TurnStart, RefreshStart, Pcs
    <2> QED
      BY <2>1, BeginFields DEF Begins
  <1> QED
    BY <1>1, <1>2

LEMMA HistorySteps == [HistoryNext]_watchVars => [Next]_vars
  BY DEF HistoryNext, watchVars

\* The history variables count no failure before it has happened, and know who
\* was alone.
WatchInv ==
    \A r \in Requests :
        /\ since[r].faults \in Nat /\ since[r].faults <= faults
        /\ since[r].lone =>
              req[r].pc # "idle" /\ \A q \in Requests \ {r} : req[q].pc = "idle"

LEMMA WatchedNext ==
    ASSUME HistoryNext, NEW r \in Requests
    PROVE  /\ req'[r].pc = "idle" =>
                 since'[r].faults = 0 /\ ~since'[r].lone
           /\ req'[r].pc # "idle" =>
                 /\ since'[r].faults = IF Begins(r) THEN faults ELSE since[r].faults
                 /\ since'[r].lone <=> LoneAfter(r)
                 /\ since'[r].outlived <=> since[r].outlived \/ Deletes
                 /\ since'[r].unseen = UnseenAfter(r)
  <1>1. since'[r] = WatchedAfter(r)
    BY DEF HistoryNext
  <1>2. CASE req'[r].pc = "idle"
    BY <1>1, <1>2 DEF WatchedAfter, Unwatched
  <1>3. CASE req'[r].pc # "idle"
    <2> DEFINE lone == LoneAfter(r)
               old == IF Begins(r) THEN faults ELSE since[r].faults
               gone == since[r].outlived \/ Deletes
               lack == UnseenAfter(r)
    <2>1. since'[r] = [lone |-> lone, faults |-> old, outlived |-> gone, unseen |-> lack]
      BY <1>1, <1>3 DEF WatchedAfter
    <2> HIDE DEF lone, old, gone, lack
    <2>2. /\ since'[r].lone = lone /\ since'[r].faults = old
          /\ since'[r].outlived = gone /\ since'[r].unseen = lack
      BY <2>1
    <2> QED
      BY <1>3, <2>2, Zenon DEF lone, old, gone, lack
  <1> QED
    BY <1>2, <1>3

LEMMA WatchNext == TypeInv /\ WatchInv /\ [HistoryNext]_watchVars => WatchInv'
  <1> SUFFICES ASSUME TypeInv, WatchInv, [HistoryNext]_watchVars PROVE WatchInv'
    OBVIOUS
  <1>0. [Next]_vars
    BY HistorySteps
  <1>1. CASE UNCHANGED watchVars
    BY <1>1 DEF watchVars, vars, WatchInv
  <1>2. ASSUME HistoryNext, NEW r \in Requests
        PROVE  since'[r].faults \in Nat /\ since'[r].faults <= faults'
    <2>1. since'[r].faults \in {0, faults, since[r].faults}
      BY <1>2, WatchedNext
    <2> QED
      BY <1>0, <2>1, FaultsGrow DEF WatchInv
  <1>3. ASSUME HistoryNext, NEW r \in Requests, since'[r].lone
        PROVE  req'[r].pc # "idle" /\ \A q \in Requests \ {r} : req'[q].pc = "idle"
    <2>1. req'[r].pc # "idle" /\ LoneAfter(r)
      BY <1>3, WatchedNext
    <2>2. CASE Begins(r)
      BY <1>0, <2>1, <2>2, OneMoves DEF LoneAfter, Begins, Others
    <2>3. CASE ~Begins(r)
      BY <2>1, <2>3 DEF LoneAfter, Begins, WatchInv
    <2> QED
      BY <2>1, <2>2, <2>3
  <1> QED
    BY <1>1, <1>2, <1>3 DEF WatchInv

LEMMA WatchInit == HistoryInit => WatchInv
  BY DEF HistoryInit, Init, WatchInv, Unwatched

-----------------------------------------------------------------------------
(* What a writer of preferences takes out it had not seen.                 *)

Writing(q) == q.pc \in {"supersede", "commit", "prefs", "prefsWrite"}

\* q has a copy of the preferences that it may write back.
HasCopy(q) ==
    \/ q.op = "confirm" /\ Writing(q)
    \/ q.op = "turn" /\ (Writing(q) \/ q.pc \in {"boot", "bootWrite", "agent"})
    \/ q.op = "refresh" /\ q.pc \in {"prefs", "prefsWrite"}

\* What it may leave out: the edits its report shows as completed.
Pruned(q) == IF q.op = "refresh" THEN Completed[q.dpr] ELSE {}

\* The edit it confirms is in the copy.
HasOwn(q) ==
    q.op \in {"confirm", "turn"} /\ Writing(q) =>
        /\ q.pc \in {"prefs", "prefsWrite"} => q.id \in Edits
        /\ q.id \in Edits => q.id \in q.prefs

Carries(r) ==
    /\ HasOwn(req[r])
    /\ HasCopy(req[r]) =>
          kept \subseteq req[r].prefs \cup Pruned(req[r]) \cup since[r].unseen \cup overwritten

SurviveInv == ConfirmedEditsSurvive /\ \A r \in Requests : Carries(r)

\* Where the copy after a step of r comes from: a reading that failed, one
\* that did not, or the copy r had before.
Copies(r) ==
    HasCopy(req'[r]) =>
        \/ ReadsPrefs(r) /\ Failed
        \/ ReadsPrefs(r) /\ prefs \subseteq req'[r].prefs \cup Pruned(req'[r])
        \/ /\ ~ReadsPrefs(r) /\ ~Begins(r) /\ HasCopy(req[r])
           /\ req[r].prefs \subseteq req'[r].prefs /\ Pruned(req'[r]) = Pruned(req[r])

LEMMA CopiesStep ==
    ASSUME TypeInv, NEW r \in Requests, HasOwn(req[r]), Start(r) \/ Step(r) \/ Crash(r)
    PROVE  Copies(r) /\ HasOwn(req'[r])
  <1>0. faults \in Nat /\ req[r].prefs \subseteq Proposals
    BY RequestOf DEF TypeInv, TypeOK, RequestType
  <1> USE <1>0, Constants DEF Copies, HasCopy, HasOwn, Writing, Pruned, ReadsPrefs, Begins,
          Failed, Edits, Writer, KeepsData, KeepsArgs, At
  <1>1. CASE ProposeLoadPlan(r) \/ ProposeStage(r)
    BY <1>1, ProposeSets
  <1>2. CASE ConfirmLoadDpr(r)
    BY <1>2, ConfirmLoadDprSets
  <1>3. CASE ConfirmLoadPlan(r) \/ ConfirmEngineError(r) \/ ConfirmRestage(r)
    BY <1>3, ConfirmMovesSet
  <1>4. CASE ConfirmSolve(r)
    BY <1>4, ConfirmSolveSets
  <1>5. CASE PersistSupersede(r)
    BY <1>5, SupersedeSets
  <1>6. CASE PersistCommit(r)
    BY <1>6, CommitSets
  <1>7. CASE PersistFail(r)
    BY <1>7, FailSets
  <1>8. CASE PrefsEnsureStudent(r)
    BY <1>8, PrefsEnsureSets
  <1>9. CASE PersistPrefs(r)
    BY <1>9, PersistPrefsSets
  <1>10. CASE TurnLoadPlan(r) \/ TurnLoadPrefs(r)
    BY <1>10, TurnLoadsSet
  <1>11. CASE TurnCheckProfile(r) \/ TurnEnd(r)
    BY <1>11, TurnMovesSet
  <1>12. CASE TurnBootstrap(r)
    BY <1>12, TurnBootstrapSets
  <1>13. CASE TurnBuild(r)
    BY <1>13, TurnBuildSets
  <1>14. CASE \E p \in Proposals : TurnConfirm(r, p)
    BY <1>14, TurnConfirmSets
  <1>15. CASE RefreshCompare(r)
    BY <1>15, RefreshCompareSets
  <1>16. CASE RefreshPersistDpr(r)
    BY <1>16, RefreshPersistDprSets
  <1>17. CASE RefreshClear(r)
    BY <1>17, RefreshClearSets
  <1>18. CASE RefreshPruneRead(r)
    BY <1>18, PruneReadSets
  <1>19. CASE RefreshReplan(r)
    BY <1>19, ReplanSets
  <1>20. CASE Reply(r) \/ Crash(r)
    BY <1>20, EndsIdle
  <1>21. CASE Start(r) /\ ~DeleteAccount(r)
    BY <1>21, BeginSets DEF Start, ProposeLoadDpr, ConfirmTake, TurnStart, RefreshStart
  <1>22. CASE DeleteAccount(r)
    BY <1>22 DEF DeleteAccount
  <1> QED
    BY <1>1, <1>2, <1>3, <1>4, <1>5, <1>6, <1>7, <1>8, <1>9, <1>10, <1>11, <1>12, <1>13,
       <1>14, <1>15, <1>16, <1>17, <1>18, <1>19, <1>20, <1>21, <1>22 DEF Start, Step

LEMMA JustWrittenBy ==
    /\ JustWritten({}) = {}
    /\ \A r \in Requests : JustWritten({r}) = req[r].prefs
  BY DEF JustWritten

\* Where preferences are written, nothing else is done but dying.
LEMMA WritesOnly ==
    ASSUME NEW r \in Requests, Writer(r), req[r].pc = "prefsWrite", Start(r) \/ Step(r)
    PROVE  PersistPrefs(r)
  <1>1. ~Start(r) \/ DeleteAccount(r)
    BY DEF Start, ProposeLoadDpr, ConfirmTake, TurnStart, RefreshStart, Begin
  <1>2. ~DeleteAccount(r)
    BY DEF DeleteAccount
  <1> QED
    BY <1>1, <1>2 DEF Step, ProposeLoadPlan, ProposeStage, ConfirmLoadDpr, ConfirmLoadPlan,
       ConfirmSolve, ConfirmEngineError, ConfirmRestage, PersistSupersede, PersistCommit,
       PersistFail, PrefsEnsureStudent, TurnLoadPlan, TurnLoadPrefs,
       TurnCheckProfile, TurnBootstrap, TurnBuild, TurnConfirm, TurnEnd, RefreshCompare,
       RefreshPersistDpr, RefreshClear, RefreshPruneRead, RefreshReplan, Reply, At

\* One request writes preferences at a time, and says so.
LEMMA WhoWrites ==
    ASSUME TypeInv, [Next]_vars
    PROVE  \/ Writers = {} /\ prefs' = prefs /\ kept' = kept /\ ~Deletes
           \/ Writers = {} /\ kept' = {}
           \/ \E r \in Requests :
                 /\ PersistPrefs(r) /\ Writers = {r} /\ ~Deletes
                 /\ prefs' = req[r].prefs
                 /\ kept' = IF req[r].op = "refresh" THEN kept \ Completed[req[r].dpr]
                                                     ELSE kept \cup {req[r].id}
  <1>0. faults \in Nat /\ student \in BOOLEAN
    BY DEF TypeInv, TypeOK
  <1>1. ASSUME NEW r \in Requests, DeleteAccount(r)
        PROVE  Writers = {} /\ kept' = {}
    BY <1>1 DEF DeleteAccount, Writers, WritesPrefs
  <1>2. ASSUME NEW r \in Requests, PersistPrefs(r)
        PROVE  \/ Writers = {} /\ prefs' = prefs /\ kept' = kept /\ ~Deletes
               \/ /\ Writers = {r} /\ ~Deletes /\ prefs' = req[r].prefs
                  /\ kept' = IF req[r].op = "refresh" THEN kept \ Completed[req[r].dpr]
                                                      ELSE kept \cup {req[r].id}
    <2>1. Writers \subseteq {r}
      BY <1>2, StepMovesOne DEF Step, Others, Writers, WritesPrefs
    <2>2. req'[r] # req[r] /\ Writer(r) /\ req[r].pc = "prefsWrite"
      BY <1>2, PersistPrefsSets
    <2>3. r \in Writers <=> student /\ ~Failed
      BY <2>2 DEF Writers, WritesPrefs
    <2>4. ~Deletes
      BY <1>2, PersistPrefsSets DEF Deletes
    <2>5. Writers = {} \/ Writers = {r}
      BY <2>1
    <2>6. CASE student /\ faults' = faults /\ prefs' = req[r].prefs
      BY <1>0, <1>2, <2>3, <2>4, <2>5, <2>6, PersistPrefsSets DEF Failed
    <2>7. CASE ~student \/ faults' = faults + 1
      BY <1>0, <1>2, <2>3, <2>4, <2>5, <2>7, PersistPrefsSets DEF Failed
    <2> QED
      BY <1>2, <2>6, <2>7, PersistPrefsSets
  <1>3. ASSUME NEW r \in Requests, Start(r) \/ Step(r) \/ Crash(r),
               ~DeleteAccount(r), ~PersistPrefs(r)
        PROVE  Writers = {} /\ prefs' = prefs /\ kept' = kept /\ ~Deletes
    <2>1. Writers \subseteq {r}
      BY <1>3, StepMovesOne DEF Others, Writers, WritesPrefs
    <2>2. r \notin Writers
      BY <1>0, <1>3, WritesOnly DEF Writers, WritesPrefs, Failed, Crash, Fault
    <2>3. ~Deletes
      BY <1>3, StudentStays DEF Deletes
    <2>4. prefs' = prefs /\ kept' = kept
      BY <1>3, WritersWrite, CommitSets, PrefsEnsureSets, TurnBootstrapSets,
         RefreshPersistDprSets, RefreshClearSets DEF OnlyReads
    <2> QED
      BY <2>1, <2>2, <2>3, <2>4
  <1>4. ASSUME ~\E r \in Requests : Start(r) \/ Step(r) \/ Crash(r)
        PROVE  Writers = {} /\ prefs' = prefs /\ kept' = kept /\ ~Deletes
    BY <1>0, <1>4 DEF Next, Expire, VerifyOtp, Rest, vars, db, history, Deletes, Writers, WritesPrefs
  <1> QED
    BY <1>1, <1>2, <1>3, <1>4

\* What a step leaves of the copy of r, and what it may lack after it.
LEMMA CarriesNext ==
    ASSUME TypeInv, SurviveInv, HistoryNext, NEW r \in Requests, HasCopy(req'[r])
    PROVE  \/ since'[r].unseen = Proposals
           \/ /\ Writers \subseteq {r}
              /\ prefs \subseteq req'[r].prefs \cup Pruned(req'[r])
           \/ /\ HasCopy(req[r]) /\ req[r].prefs \subseteq req'[r].prefs
              /\ Pruned(req'[r]) = Pruned(req[r])
              /\ since'[r].unseen = since[r].unseen \cup JustWritten(Writers \ {r})
  <1>0. [Next]_vars /\ req'[r].pc # "idle"
    BY DEF HistoryNext, HasCopy, Writing
  <1>1. since'[r].unseen = UnseenAfter(r)
    BY <1>0, WatchedNext
  <1>2. CASE req'[r] = req[r]
    <2>1. ~ReadsPrefs(r) /\ ~Begins(r)
      BY <1>2 DEF ReadsPrefs, Begins
    <2> QED
      BY <1>1, <1>2, <2>1 DEF UnseenAfter
  <1>3. CASE req'[r] # req[r]
    <2>1. Others(r) /\ (Start(r) \/ Step(r) \/ Crash(r))
      BY <1>0, <1>3, OneMoves
    <2>2. Copies(r)
      BY <2>1, CopiesStep DEF SurviveInv, Carries
    <2>3. ReadsPrefs(r) => ~Begins(r)
      BY DEF ReadsPrefs, Begins, At
    <2>4. Writers \subseteq {r}
      BY <2>1 DEF Others, Writers, WritesPrefs
    <2> QED
      BY <1>1, <2>2, <2>3, <2>4 DEF Copies, UnseenAfter
  <1> QED
    BY <1>2, <1>3

LEMMA SurviveNext ==
    TypeInv /\ SurviveInv /\ [HistoryNext]_watchVars => SurviveInv'
  <1> SUFFICES ASSUME TypeInv, SurviveInv, [HistoryNext]_watchVars PROVE SurviveInv'
    OBVIOUS
  <1>0. [Next]_vars /\ kept \subseteq Proposals /\ TypeInv'
    BY HistorySteps, TypeNext DEF TypeInv, TypeOK
  <1>1. CASE UNCHANGED watchVars
    BY <1>1 DEF watchVars, vars, db, history, SurviveInv, ConfirmedEditsSurvive, Carries, HasCopy,
       HasOwn, Pruned, Writing
  <1>2. CASE HistoryNext
    <2>1. ASSUME NEW r \in Requests
          PROVE  HasOwn(req'[r])
      <3>1. CASE req'[r] = req[r]
        BY <3>1 DEF SurviveInv, Carries
      <3> QED
        BY <1>0, <3>1, OneMoves, CopiesStep DEF SurviveInv, Carries
    <2>2. kept' \subseteq Proposals
      BY <1>0 DEF TypeInv, TypeOK
    <2>3. CASE Writers = {} /\ prefs' = prefs /\ kept' = kept /\ ~Deletes
      <3>1. overwritten' = overwritten
        <4> DEFINE Lost == {kept \cap since[r].unseen : r \in Writers}
        <4>1. Lost = {}
          BY <2>3, Zenon
        <4>2. overwritten' = (overwritten \cup UNION Lost) \ JustWritten(Writers)
          BY <1>2, <2>3, Zenon DEF HistoryNext, OverwrittenAfter
        <4> HIDE DEF Lost
        <4> QED
          BY <2>3, <4>1, <4>2, JustWrittenBy
      <3>2. ConfirmedEditsSurvive'
        BY <2>3, <3>1 DEF SurviveInv, ConfirmedEditsSurvive
      <3>3. ASSUME NEW r \in Requests, HasCopy(req'[r])
            PROVE  kept' \subseteq req'[r].prefs \cup Pruned(req'[r])
                                      \cup since'[r].unseen \cup overwritten'
        BY <1>2, <2>2, <2>3, <3>1, <3>3, CarriesNext, JustWrittenBy
           DEF SurviveInv, ConfirmedEditsSurvive, Carries
      <3> QED
        BY <2>1, <3>2, <3>3 DEF SurviveInv, Carries, HasCopy, HasOwn, Pruned, Writing
    <2>4. CASE kept' = {}
      BY <2>1, <2>4 DEF SurviveInv, ConfirmedEditsSurvive, Carries, HasOwn, Writing
    <2>5. ASSUME NEW w \in Requests, PersistPrefs(w), Writers = {w}, ~Deletes,
                 prefs' = req[w].prefs,
                 kept' = IF req[w].op = "refresh" THEN kept \ Completed[req[w].dpr]
                                                  ELSE kept \cup {req[w].id}
          PROVE  SurviveInv'
      <3>1. overwritten' = (overwritten \cup (kept \cap since[w].unseen)) \ req[w].prefs
        BY <1>2, <2>5, JustWrittenBy DEF HistoryNext, OverwrittenAfter
      <3>2. Writer(w) /\ req[w].pc = "prefsWrite" /\ HasCopy(req[w])
        BY <2>5 DEF PersistPrefs, Writer, HasCopy, Writing
      <3>3. req[w].op # "refresh" => req[w].id \in req[w].prefs
        BY <3>2 DEF SurviveInv, Carries, HasOwn, Writing, Writer
      <3>4. kept \subseteq req[w].prefs \cup Pruned(req[w]) \cup since[w].unseen \cup overwritten
        BY <3>2 DEF SurviveInv, Carries
      <3>5. kept' \subseteq prefs' \cup overwritten'
        BY <2>5, <3>1, <3>3, <3>4 DEF Pruned
      <3>6. kept' \subseteq kept \cup req[w].prefs
        BY <2>5, <3>3
      <3>7. ASSUME NEW r \in Requests, HasCopy(req'[r])
            PROVE  kept' \subseteq req'[r].prefs \cup Pruned(req'[r])
                                      \cup since'[r].unseen \cup overwritten'
        <4>1. CASE since'[r].unseen = Proposals
          BY <2>2, <4>1
        <4>2. CASE /\ r # w /\ HasCopy(req[r]) /\ req[r].prefs \subseteq req'[r].prefs
                   /\ Pruned(req'[r]) = Pruned(req[r])
                   /\ since'[r].unseen = since[r].unseen \cup JustWritten(Writers \ {r})
          <5>1. since'[r].unseen = since[r].unseen \cup req[w].prefs
            BY <2>5, <4>2, JustWrittenBy
          <5>2. kept \subseteq req[r].prefs \cup Pruned(req[r]) \cup since[r].unseen \cup overwritten
            BY <4>2 DEF SurviveInv, Carries
          <5> QED
            BY <3>1, <3>6, <4>2, <5>1, <5>2
        <4>3. CASE r = w
          <5>1. req'[w].prefs = req[w].prefs
            BY <2>5, PersistPrefsSets DEF KeepsData
          <5> QED
            BY <2>5, <3>5, <4>3, <5>1
        <4>4. CASE r # w /\ Writers \subseteq {r}
          BY <2>5, <4>4
        <4> QED
          BY <1>2, <3>7, <4>1, <4>2, <4>3, <4>4, CarriesNext
      <3> QED
        BY <2>1, <3>5, <3>7
           DEF SurviveInv, ConfirmedEditsSurvive, Carries, HasCopy, HasOwn, Pruned, Writing
    <2> QED
      BY <1>0, <2>3, <2>4, <2>5, WhoWrites
  <1> QED
    BY <1>1, <1>2

\* An edit whose confirm was stored is lost in one way only: a request whose
\* copy of the preferences was read before it was stored, or could not be read,
\* replaces them.  So through any number of requests that overlap, fail or die;
\* but for a report that shows its course as completed, and the deletion of the
\* account.
THEOREM EditsSurvive == HistorySpec => []ConfirmedEditsSurvive
  <1>1. HistoryInit => TypeInv /\ SurviveInv
    <2>1. HistoryInit => SurviveInv
      BY DEF HistoryInit, Init, Idle, SurviveInv, ConfirmedEditsSurvive, Carries, HasCopy,
         HasOwn, Writing
    <2> QED
      BY <2>1, TypeInit DEF HistoryInit
  <1>2. TypeInv /\ SurviveInv /\ [HistoryNext]_watchVars => (TypeInv /\ SurviveInv)'
    BY HistorySteps, TypeNext, SurviveNext
  <1>3. SurviveInv => ConfirmedEditsSurvive
    BY DEF SurviveInv
  <1> QED
    BY <1>1, <1>2, <1>3, PTL DEF HistorySpec

-----------------------------------------------------------------------------
(* A request that goes on to write has seen a report or brought one; without *)
(* a report stored, the account was deleted under it.                       *)

\* The places behind the request's check that there is a report.
PastReport(q) ==
    \/ q.op = "propose" /\ q.pc \in {"loadPlan", "stage"}
    \/ q.op = "confirm" /\ q.pc \in {"loadPlan", "solve"}
    \/ q.op \in {"confirm", "turn", "refresh"} /\ Writing(q)
    \/ q.op = "turn" /\ q.pc = "agent"
    \/ q.op = "refresh" /\ q.pc \in {"clear", "pruneRead", "replan"}

\* A turn and a refresh bring a report of their own.
BringsReport(q) == q.op \in {"turn", "refresh"} => q.dpr # NoDpr

Founded(r) ==
    /\ BringsReport(req[r])
    /\ PastReport(req[r]) /\ ~since[r].outlived /\ ~MayHaveFailedToBootstrap(r) => HasDpr

FoundedInv == \A r \in Requests : Founded(r)

\* How r comes to such a place.
ReportStep(r) ==
    PastReport(req'[r]) =>
        \/ PastReport(req[r]) /\ req'[r].op = req[r].op
        \/ HasDpr /\ dpr' = dpr
        \/ dpr' # NoDpr
        \/ ~Begins(r) /\ Failed /\ req'[r].op = "turn"

LEMMA ReportSteps ==
    ASSUME TypeInv, NEW r \in Requests, BringsReport(req[r]), Start(r) \/ Step(r) \/ Crash(r)
    PROVE  /\ ReportStep(r) /\ BringsReport(req'[r])
           /\ dpr' = dpr \/ dpr' # NoDpr \/ DeleteAccount(r)
  <1>0. faults \in Nat
    BY DEF TypeInv, TypeOK
  <1> USE <1>0, Constants DEF ReportStep, PastReport, BringsReport, Writing, Begins, Failed,
          Writer, HasDpr, OnlyReads, KeepsData, KeepsArgs, At
  <1>1. CASE ProposeLoadPlan(r) \/ ProposeStage(r)
    BY <1>1, ReadsRead, ProposeSets
  <1>2. CASE ConfirmLoadDpr(r)
    BY <1>2, ReadsRead, ConfirmLoadDprSets
  <1>3. CASE ConfirmLoadPlan(r) \/ ConfirmEngineError(r) \/ ConfirmRestage(r)
    BY <1>3, ReadsRead, ConfirmMovesSet
  <1>4. CASE ConfirmSolve(r)
    BY <1>4, ReadsRead, ConfirmSolveSets
  <1>5. CASE PersistSupersede(r)
    BY <1>5, ReadsRead, SupersedeSets
  <1>6. CASE PersistCommit(r)
    BY <1>6, CommitSets
  <1>7. CASE PersistFail(r)
    BY <1>7, ReadsRead, FailSets
  <1>8. CASE PrefsEnsureStudent(r)
    BY <1>8, PrefsEnsureSets
  <1>9. CASE PersistPrefs(r)
    BY <1>9, PersistPrefsSets
  <1>10. CASE TurnLoadPlan(r) \/ TurnLoadPrefs(r)
    BY <1>10, ReadsRead, TurnLoadsSet
  <1>11. CASE TurnCheckProfile(r) \/ TurnEnd(r)
    BY <1>11, ReadsRead, TurnMovesSet
  <1>12. CASE TurnBootstrap(r)
    BY <1>12, TurnBootstrapSets
  <1>13. CASE TurnBuild(r)
    BY <1>13, ReadsRead, TurnBuildSets
  <1>14. CASE \E p \in Proposals : TurnConfirm(r, p)
    BY <1>14, ReadsRead, TurnConfirmSets
  <1>15. CASE RefreshCompare(r)
    BY <1>15, ReadsRead, RefreshCompareSets
  <1>16. CASE RefreshPersistDpr(r)
    BY <1>16, RefreshPersistDprSets
  <1>17. CASE RefreshClear(r)
    BY <1>17, RefreshClearSets
  <1>18. CASE RefreshPruneRead(r)
    BY <1>18, ReadsRead, PruneReadSets
  <1>19. CASE RefreshReplan(r)
    BY <1>19, ReadsRead, ReplanSets
  <1>20. CASE Reply(r) \/ Crash(r)
    BY <1>20, ReadsRead, EndsIdle
  <1>21. CASE ProposeLoadDpr(r)
    BY <1>21, ReadsRead, BeginSets DEF ProposeLoadDpr
  <1>22. CASE \E p \in Proposals : ConfirmTake(r, p)
    BY <1>22, ReadsRead, BeginSets DEF ConfirmTake
  <1>23. CASE \E d \in Dprs : TurnStart(r, d)
    BY <1>23, ReadsRead, BeginSets DEF TurnStart
  <1>24. CASE \E d \in Dprs : RefreshStart(r, d)
    BY <1>24, ReadsRead, BeginSets DEF RefreshStart
  <1>25. CASE DeleteAccount(r)
    BY <1>25 DEF DeleteAccount
  <1> QED
    BY <1>1, <1>2, <1>3, <1>4, <1>5, <1>6, <1>7, <1>8, <1>9, <1>10, <1>11, <1>12, <1>13,
       <1>14, <1>15, <1>16, <1>17, <1>18, <1>19, <1>20, <1>21, <1>22, <1>23, <1>24, <1>25
       DEF Start, Step

\* A stored report goes with the account only.
LEMMA ReportStays ==
    ASSUME TypeInv, FoundedInv, [Next]_vars
    PROVE  dpr' = dpr \/ dpr' # NoDpr \/ Deletes
  <1>1. ASSUME NEW r \in Requests, Start(r) \/ Step(r) \/ Crash(r)
        PROVE  dpr' = dpr \/ dpr' # NoDpr \/ Deletes
    BY <1>1, ReportSteps DEF FoundedInv, Founded, DeleteAccount, Deletes
  <1>2. ASSUME ~\E r \in Requests : Start(r) \/ Step(r) \/ Crash(r)
        PROVE  dpr' = dpr
    BY <1>2 DEF Next, Expire, VerifyOtp, Rest, vars, db
  <1> QED
    BY <1>1, <1>2

LEMMA FoundedNext ==
    TypeInv /\ WatchInv /\ FoundedInv /\ [HistoryNext]_watchVars => FoundedInv'
  <1> SUFFICES ASSUME TypeInv, WatchInv, FoundedInv, [HistoryNext]_watchVars
               PROVE  FoundedInv'
    OBVIOUS
  <1>0. [Next]_vars
    BY HistorySteps
  <1>1. CASE UNCHANGED watchVars
    BY <1>1 DEF watchVars, vars, db, FoundedInv, Founded, BringsReport, PastReport, Writing,
       MayHaveFailedToBootstrap, HasDpr
  <1>2. ASSUME HistoryNext, NEW r \in Requests
        PROVE  BringsReport(req'[r])
    <2>1. CASE req'[r] = req[r]
      BY <2>1 DEF FoundedInv, Founded
    <2> QED
      BY <1>0, <2>1, OneMoves, ReportSteps DEF FoundedInv, Founded
  <1>3. ASSUME HistoryNext, NEW r \in Requests, PastReport(req'[r]), ~since'[r].outlived,
               ~(req'[r].op = "turn" /\ since'[r].faults # faults')
        PROVE  dpr' # NoDpr
    <2>0. req'[r].pc # "idle"
      BY <1>3 DEF PastReport, Writing
    <2>1. ~since[r].outlived /\ ~Deletes
      BY <1>3, <2>0, WatchedNext
    <2>2. ASSUME ~Begins(r), req'[r].op = "turn"
          PROVE  since[r].faults = faults /\ ~Failed
      BY <1>0, <1>3, <2>0, <2>2, WatchedNext, FaultsGrow DEF WatchInv, Failed
    <2>3. ASSUME PastReport(req[r]), req'[r].op = req[r].op
          PROVE  dpr' # NoDpr
      <3>1. ~Begins(r)
        BY <2>3 DEF Begins, PastReport, Writing
      <3>2. HasDpr
        BY <2>1, <2>2, <2>3, <3>1 DEF FoundedInv, Founded, MayHaveFailedToBootstrap
      <3> QED
        BY <1>0, <2>1, <3>2, ReportStays DEF HasDpr
    <2>4. CASE req'[r] = req[r]
      BY <1>3, <2>3, <2>4
    <2>5. CASE req'[r] # req[r]
      <3>1. ReportStep(r)
        BY <1>0, <2>5, OneMoves, ReportSteps DEF FoundedInv, Founded
      <3> QED
        BY <1>3, <2>2, <2>3, <3>1 DEF ReportStep, HasDpr
    <2> QED
      BY <2>4, <2>5
  <1> QED
    BY <1>1, <1>2, <1>3
       DEF FoundedInv, Founded, BringsReport, PastReport, Writing, MayHaveFailedToBootstrap, HasDpr

\* The steps that store a plan, preferences or a proposal.
LEMMA WhoFills ==
    ASSUME TypeInv, [Next]_vars, Refills
    PROVE  \E r \in Requests :
              /\ req'[r] # req[r]
              /\ PastReport(req[r]) \/ PutsBack(r)
  <1>1. ASSUME NEW r \in Requests, PersistCommit(r) \/ PersistPrefs(r)
        PROVE  req'[r] # req[r] /\ PastReport(req[r])
    BY <1>1, CommitSets, PersistPrefsSets DEF PastReport, Writing, Writer
  <1>2. ASSUME NEW r \in Requests, ProposeStage(r)
        PROVE  req'[r] # req[r] /\ PastReport(req[r])
    BY <1>2, AnswerFields DEF ProposeStage, At, PastReport
  <1>3. ASSUME NEW r \in Requests, ConfirmRestage(r)
        PROVE  req'[r] # req[r] /\ PutsBack(r)
    BY <1>3, AnswerFields DEF ConfirmRestage, At, PutsBack
  <1>4. ASSUME NEW r \in Requests, Start(r) \/ Step(r) \/ Crash(r),
               ~PersistCommit(r), ~PersistPrefs(r)
        PROVE  rows' \subseteq rows /\ prefs' \subseteq prefs
    BY <1>4, WritersWrite, PrefsEnsureSets, TurnBootstrapSets, RefreshPersistDprSets,
       RefreshClearSets DEF OnlyReads, DeleteAccount
  <1>5. ASSUME NEW r \in Requests, Start(r) \/ Step(r) \/ Crash(r),
               ~ProposeStage(r), ~ConfirmRestage(r)
        PROVE  pending' \subseteq pending
    <2>1. CASE LetsGo(r)
      BY <2>1 DEF LetsGo
    <2>2. CASE ProposeLoadPlan(r) \/ PersistCommit(r)
      BY <2>2 DEF ProposeLoadPlan, PersistCommit, db
    <2>3. CASE \E p \in Proposals : ConfirmTake(r, p)
      BY <2>3 DEF ConfirmTake
    <2> QED
      BY <1>5, <2>1, <2>2, <2>3, StepsLetGo, StartsLetGo DEF Start
  <1>6. ASSUME ~\E r \in Requests : Start(r) \/ Step(r) \/ Crash(r)
        PROVE  rows' \subseteq rows /\ prefs' \subseteq prefs /\ pending' \subseteq pending
    BY <1>6 DEF Next, Expire, VerifyOtp, Rest, vars, db
  <1> QED
    BY <1>1, <1>2, <1>3, <1>4, <1>5, <1>6 DEF Refills

\* An account that has no report, deleted and perhaps signed in to again since,
\* is given a plan, preferences or a proposal by no request that began after
\* the deletion: only by one that outlived it, by a turn whose bootstrap
\* failed, or by a confirm that puts back the proposal it took.
THEOREM OnlyOutlivedRefill == HistorySpec => OnlyTheOutlivedRefill
  <1> DEFINE I == TypeInv /\ WatchInv /\ FoundedInv
             Excused == ~HasDpr /\ Refills =>
                            \E r \in Requests :
                                /\ req'[r] # req[r]
                                /\ since[r].outlived \/ MayHaveFailedToBootstrap(r) \/ PutsBack(r)
  <1>1. HistoryInit => I
    <2>1. HistoryInit => FoundedInv
      BY DEF HistoryInit, Init, Idle, FoundedInv, Founded, BringsReport, PastReport, Writing
    <2> QED
      BY <2>1, TypeInit, WatchInit DEF HistoryInit
  <1>2. I /\ [HistoryNext]_watchVars => I'
    BY HistorySteps, TypeNext, WatchNext, FoundedNext
  <1>3. I /\ [HistoryNext]_watchVars => [Excused]_watchVars
    <2> SUFFICES ASSUME I, [HistoryNext]_watchVars, ~HasDpr, Refills
                 PROVE  Excused
      OBVIOUS
    <2>1. PICK r \in Requests : req'[r] # req[r] /\ (PastReport(req[r]) \/ PutsBack(r))
      BY HistorySteps, WhoFills
    <2> QED
      BY <2>1 DEF FoundedInv, Founded
  <1>4. OnlyTheOutlivedRefill <=> [][Excused]_watchVars
    BY DEF OnlyTheOutlivedRefill
  <1> QED
    BY <1>1, <1>2, <1>3, <1>4, PTL DEF HistorySpec

-----------------------------------------------------------------------------
(* A request with nobody beside it and no failure of its own.              *)

\* The same preferences, but for edits that a turn had refused.
Alike(S, T) == S \ refused = T \ refused

\* The one live plan is the one that q computed.
Replaced(q) == rows = {q.plan} /\ q.plan.dpr = q.dpr /\ Alike(q.plan.prefs, prefs)

\* What it knows of the record on its way.
KnowsReport(q) ==
    /\ q.op = "confirm" /\ (q.pc \in {"loadPlan", "solve"} \/ Writing(q)) => q.dpr = dpr
    /\ q.op = "refresh" /\ (q.pc \in {"clear", "pruneRead", "replan"} \/ Writing(q)) => q.dpr = dpr

KnowsPrefs(q) ==
    /\ q.op \in {"confirm", "turn"} /\ q.pc \in {"supersede", "commit"} /\ q.id \notin Edits =>
          Alike(q.prefs, prefs)
    /\ q.op = "turn" /\ q.pc \in {"boot", "bootWrite", "agent"} => Alike(q.prefs, prefs)
    /\ q.op = "refresh" /\ q.pc \in {"replan", "supersede", "commit"} => q.prefs = prefs

KnowsRows(q) ==
    /\ q.op \in {"confirm", "turn", "refresh"} /\ q.pc = "commit" =>
          q.snap = rows /\ (student \/ q.made)
    /\ q.op \in {"confirm", "turn", "refresh"} /\ q.pc = "prefsWrite" => student
    /\ q.op \in {"confirm", "turn"} /\ q.pc \in {"prefs", "prefsWrite"} => rows = {q.plan}

KnowsPlan(q) ==
    \/ q.op \in {"confirm", "turn", "refresh"} /\ q.pc \in {"supersede", "commit"}
    \/ q.op \in {"confirm", "turn"} /\ q.pc \in {"prefs", "prefsWrite"}
  => q.plan.dpr = q.dpr /\ q.plan.prefs = q.prefs

HasStored(q) ==
    /\ q.op = "confirm" /\ q.pc = "done" /\ q.res = "applied" => Replaced(q) /\ q.dpr = dpr
    /\ q.op = "refresh" /\ q.pc = "done" /\ q.res = "changed" => Replaced(q) /\ q.dpr = dpr
    /\ q.op = "turn" /\ q.pc \in {"agent", "done"} => q.plan = NoPlan \/ Replaced(q)
    /\ q.op = "turn" /\ q.pc \in {"load", "loadPrefs", "boot", "bootWrite"} => q.plan = NoPlan

LoneKnows(q) ==
    KnowsReport(q) /\ KnowsPrefs(q) /\ KnowsRows(q) /\ KnowsPlan(q) /\ HasStored(q)

\* These steps leave the refused edits alone.
LEMMA RefusedStays ==
    ASSUME NEW r \in Requests,
           \/ PersistSupersede(r) \/ PrefsEnsureStudent(r) \/ TurnLoadPlan(r)
           \/ TurnLoadPrefs(r) \/ TurnCheckProfile(r) \/ TurnBootstrap(r) \/ TurnBuild(r)
           \/ TurnEnd(r) \/ RefreshPruneRead(r) \/ RefreshReplan(r)
    PROVE  refused' = refused
  BY Zenon DEF PersistSupersede, PrefsEnsureStudent, TurnLoadPlan, TurnLoadPrefs,
     TurnCheckProfile, TurnBootstrap, TurnBuild, TurnEnd, RefreshPruneRead, RefreshReplan,
     history

LEMMA LoneStep ==
    ASSUME TypeInv, NEW r \in Requests, LoneKnows(req[r]) \/ req[r].pc = "idle",
           Start(r) \/ Step(r) \/ Crash(r), faults' = faults, ~DeleteAccount(r)
    PROVE  LoneKnows(req[r])'
  <1>0. faults \in Nat /\ student \in BOOLEAN /\ NoId \notin Edits
    BY Constants DEF TypeInv, TypeOK, Edits
  <1> USE <1>0 DEF LoneKnows, KnowsReport, KnowsPrefs, KnowsRows, KnowsPlan, HasStored,
          Replaced, Alike, Writing, Writer, OnlyReads, KeepsData, KeepsArgs, At
  <1>1. CASE ProposeLoadPlan(r) \/ ProposeStage(r)
    BY <1>1, ProposeSets
  <1>2. CASE ConfirmLoadDpr(r)
    BY <1>2, ReadsRead, ConfirmLoadDprSets
  <1>3. CASE ConfirmLoadPlan(r) \/ ConfirmEngineError(r) \/ ConfirmRestage(r)
    BY <1>3, ReadsRead, ConfirmMovesSet
  <1>4. CASE ConfirmSolve(r)
    BY <1>4, ReadsRead, ConfirmSolveSets
  <1>5. CASE PersistSupersede(r)
    BY <1>5, ReadsRead, SupersedeSets, RefusedStays
  <1>6. CASE PersistCommit(r)
    BY <1>6, CommitSets
  <1>7. CASE PersistFail(r)
    BY <1>7, ReadsRead, FailSets
  <1>8. CASE PrefsEnsureStudent(r)
    BY <1>8, PrefsEnsureSets, RefusedStays
  <1>9. CASE PersistPrefs(r)
    BY <1>9, PersistPrefsSets
  <1>10. CASE TurnLoadPlan(r) \/ TurnLoadPrefs(r)
    BY <1>10, ReadsRead, TurnLoadsSet
  <1>11. CASE TurnCheckProfile(r) \/ TurnEnd(r)
    BY <1>11, ReadsRead, TurnMovesSet, RefusedStays
  <1>12. CASE TurnBootstrap(r)
    BY <1>12, TurnBootstrapSets, RefusedStays
  <1>13. CASE TurnBuild(r)
    BY <1>13, ReadsRead, TurnBuildSets, RefusedStays
  <1>14. CASE \E p \in Proposals : TurnConfirm(r, p)
    BY <1>14, ReadsRead, TurnConfirmSets
  <1>15. CASE RefreshCompare(r)
    BY <1>15, ReadsRead, RefreshCompareSets
  <1>16. CASE RefreshPersistDpr(r)
    BY <1>16, RefreshPersistDprSets
  <1>17. CASE RefreshClear(r)
    BY <1>17, RefreshClearSets
  <1>18. CASE RefreshPruneRead(r)
    BY <1>18, ReadsRead, PruneReadSets
  <1>19. CASE RefreshReplan(r)
    BY <1>19, ReadsRead, ReplanSets
  <1>20. CASE Reply(r) \/ Crash(r)
    BY <1>20, EndsIdle
  <1>21. CASE Start(r)
    BY <1>21, BeginSets DEF Start, ProposeLoadDpr, ConfirmTake, TurnStart, RefreshStart
  <1> QED
    BY <1>1, <1>2, <1>3, <1>4, <1>5, <1>6, <1>7, <1>8, <1>9, <1>10, <1>11, <1>12, <1>13,
       <1>14, <1>15, <1>16, <1>17, <1>18, <1>19, <1>20, <1>21 DEF Step

LoneInv == \A r \in Requests : Undisturbed(r) => LoneKnows(req[r])

\* An undisturbed request was undisturbed before, or has just begun, and the
\* step was its own or touched nothing it works with.
LEMMA UndisturbedBefore ==
    ASSUME TypeInv, WatchInv, HistoryNext, NEW r \in Requests,
           since'[r].lone, since'[r].faults = faults', req'[r].pc # "idle"
    PROVE  \/ Begins(r) /\ (Start(r) \/ Step(r) \/ Crash(r)) /\ ~DeleteAccount(r)
           \/ /\ Undisturbed(r) /\ faults' = faults
              /\ \/ (Start(r) \/ Step(r) \/ Crash(r)) /\ ~DeleteAccount(r)
                 \/ /\ req'[r] = req[r] /\ (student => student')
                    /\ UNCHANGED <<dpr, prefs, rows, refused>>
  <1>0. [Next]_vars
    BY DEF HistoryNext
  <1>1. LoneAfter(r)
    BY WatchedNext
  <1>2. ASSUME DeleteAccount(r) PROVE FALSE
    BY <1>2 DEF DeleteAccount
  <1>3. CASE Begins(r)
    BY <1>0, <1>2, <1>3, OneMoves DEF Begins
  <1>4. CASE ~Begins(r)
    <2>1. since[r].lone /\ ~Deletes /\ ~\E q \in Requests : Begins(q)
      BY <1>1, <1>4 DEF LoneAfter
    <2>2. Undisturbed(r) /\ faults' = faults
      BY <1>0, <1>4, <2>1, WatchedNext, FaultsGrow DEF WatchInv, Undisturbed
    <2>3. ASSUME NEW q \in Requests, Start(q) \/ Step(q) \/ Crash(q), q # r
          PROVE  FALSE
      BY <2>1, <2>3, IdleBegins DEF WatchInv, DeleteAccount, Deletes
    <2>4. ASSUME ~\E q \in Requests : Start(q) \/ Step(q) \/ Crash(q)
          PROVE  /\ req'[r] = req[r] /\ (student => student')
                 /\ UNCHANGED <<dpr, prefs, rows, refused>>
      BY <2>4 DEF HistoryNext, Next, Expire, VerifyOtp, Rest, vars, db, history
    <2> QED
      BY <1>2, <2>2, <2>3, <2>4
  <1> QED
    BY <1>3, <1>4

LEMMA LoneNext ==
    TypeInv /\ WatchInv /\ LoneInv /\ [HistoryNext]_watchVars => LoneInv'
  <1> SUFFICES ASSUME TypeInv, WatchInv, LoneInv, [HistoryNext]_watchVars PROVE LoneInv'
    OBVIOUS
  <1> USE DEF LoneKnows, KnowsReport, KnowsPrefs, KnowsRows, KnowsPlan, HasStored, Replaced,
          Alike, Writing
  <1>1. CASE UNCHANGED watchVars
    BY <1>1 DEF watchVars, vars, db, history, LoneInv, Undisturbed
  <1>2. ASSUME HistoryNext, NEW r \in Requests, since'[r].lone, since'[r].faults = faults'
        PROVE  LoneKnows(req[r])'
    <2>1. req'[r].pc # "idle"
      BY <1>2, WatchedNext
    <2>2. CASE Begins(r) /\ (Start(r) \/ Step(r) \/ Crash(r)) /\ ~DeleteAccount(r)
      <3>1. Start(r)
        BY <2>1, <2>2, EndsIdle DEF Begins, Step, Crash, ProposeLoadPlan, ProposeStage,
           ConfirmLoadDpr, ConfirmLoadPlan, ConfirmSolve, ConfirmEngineError, ConfirmRestage,
           PersistSupersede, PersistCommit, PersistFail, PrefsEnsureStudent, PersistPrefs,
           TurnLoadPlan, TurnLoadPrefs, TurnCheckProfile, TurnBootstrap, TurnBuild,
           TurnConfirm, TurnEnd, RefreshCompare, RefreshPersistDpr, RefreshClear,
           RefreshPruneRead, RefreshReplan, Reply, At
      <3>2. faults' = faults
        BY <2>2, <3>1 DEF Start, ProposeLoadDpr, ConfirmTake, TurnStart, RefreshStart
      <3> HIDE DEF LoneKnows
      <3> QED
        BY <2>2, <3>2, LoneStep DEF Begins
    <2>3. CASE /\ Undisturbed(r) /\ faults' = faults
               /\ (Start(r) \/ Step(r) \/ Crash(r)) /\ ~DeleteAccount(r)
      <3> HIDE DEF LoneKnows
      <3> QED
        BY <2>3, LoneStep DEF LoneInv
    <2>4. CASE /\ Undisturbed(r) /\ req'[r] = req[r] /\ (student => student')
               /\ UNCHANGED <<dpr, prefs, rows, refused>>
      BY <2>4 DEF LoneInv
    <2> QED
      BY <1>2, <2>1, <2>2, <2>3, <2>4, UndisturbedBefore
  <1> QED
    BY <1>1, <1>2 DEF LoneInv, Undisturbed

\* Whatever overlapping requests, failures and crashes have left behind, one
\* request that stores a plan with nobody beside it and no failure of its own
\* leaves one live plan, from a report with the fingerprint of the stored one
\* (for a turn, if the page sent the stored one) and from the stored
\* preferences, apart from edits that a turn had refused.
THEOREM LoneWriterRestores == HistorySpec => []LoneWriterRestoresRecord
  <1> DEFINE I == TypeInv /\ WatchInv /\ LoneInv
  <1>1. HistoryInit => I
    <2>1. HistoryInit => LoneInv
      BY DEF HistoryInit, Unwatched, LoneInv, Undisturbed
    <2> QED
      BY <2>1, TypeInit, WatchInit DEF HistoryInit
  <1>2. I /\ [HistoryNext]_watchVars => I'
    BY HistorySteps, TypeNext, WatchNext, LoneNext
  <1>3. I => LoneWriterRestoresRecord
    <2> SUFFICES ASSUME I, NEW r \in Requests, Undisturbed(r), StoredAPlan(r)
                 PROVE  /\ Cardinality(rows) = 1
                        /\ (req[r].op = "turn" => req[r].dpr = dpr) => Fp[LatestPlan.dpr] = Fp[dpr]
                        /\ LatestPlan.prefs \ refused = prefs \ refused
      BY DEF LoneWriterRestoresRecord
    <2>1. Replaced(req[r]) /\ (req[r].op # "turn" => req[r].dpr = dpr)
      BY DEF LoneInv, LoneKnows, HasStored, StoredAPlan
    <2> DEFINE p == req[r].plan
    <2>2. rows = {p} /\ p.at \in Nat
      BY <2>1, RequestOf DEF Replaced, RequestType, Plan
    <2>3. LatestPlan = p
      <3>1. p \in rows /\ \A q \in rows : q.at <= p.at
        BY <2>2
      <3>2. LatestPlan \in rows
        BY <3>1 DEF LatestPlan
      <3> QED
        BY <2>2, <3>2
    <2>4. Cardinality(rows) = 1
      BY <2>2, FS_Singleton
    <2> QED
      BY <2>1, <2>3, <2>4 DEF Replaced, Alike
  <1> QED
    BY <1>1, <1>2, <1>3, PTL DEF HistorySpec

=============================================================================
