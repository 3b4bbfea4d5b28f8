--------------------------- MODULE PlanLifecycle ---------------------------
(***************************************************************************)
(* One student's degree plan in the database, and the HTTP requests that   *)
(* read and write it: the propose and confirm stages of the plan editor    *)
(* (planActionOrchestrator.ts), the planning tools of a chat turn          *)
(* (plan_forward_degree, confirm_plan_change), the DPR refresh             *)
(* (api/onboard/refresh-dpr) and the deletion of the account.              *)
(*                                                                         *)
(* Each await on a store is one step, so that the requests interleave as   *)
(* they do on the server; what runs between two awaits is one step too.    *)
(* The solver and the validator are a choice between "feasible" and        *)
(* "infeasible"; a plan is remembered as what it was computed from.        *)
(***************************************************************************)
EXTENDS Naturals, FiniteSets

CONSTANTS
    Requests,       \* slots for requests in flight; one slot is no concurrency
    Proposals,      \* the pendingMutationIds that can be minted
    WhatIfs,        \* the proposals that stage a what-if assumption
    Dprs,           \* the degree progress reports the student may upload
    Fp,             \* Fp[d]: the fingerprint of d (computeDprFingerprint)
    Completed,      \* Completed[d]: the edits whose pins d shows as completed
    NoId, NoDpr,    \* "absent"
    Ops,            \* the operations that may be started (AllOps or fewer)
    MaxSolves,      \* bound: how many plans are computed
    MaxFaults,      \* bound: how many store calls fail or requests die
    MayCrash,       \* TRUE: a request may die between two steps
    StaleTabs       \* TRUE: a page may send a DPR the server no longer holds

\* agentConfirm: the agent may call confirm_plan_change inside a turn.
AllOps == {"propose", "confirm", "turn", "agentConfirm", "refresh", "delete"}

ASSUME Constants ==
    /\ WhatIfs \subseteq Proposals
    /\ NoId \notin Proposals
    /\ NoDpr \notin Dprs
    /\ Completed \in [Dprs -> SUBSET Proposals]
    /\ Ops \subseteq AllOps
    /\ MaxSolves \in Nat
    /\ MaxFaults \in Nat
    /\ MayCrash \in BOOLEAN
    /\ StaleTabs \in BOOLEAN

VARIABLES
    \* The database.
    student,        \* a students row exists
    dpr,            \* students.parsed_dpr, written together with the profile
    prefs,          \* schedule_preferences: the edits it contains
    rows,           \* the forward_schedules rows that are not superseded
    pending,        \* the ids that have a pending_mutations row
    \* The server.
    req,            \* req[r]: the request in slot r and its local state
    \* Bookkeeping of the model.
    minted,         \* the ids drawn so far (uuids never repeat)
    solves,         \* plans computed so far; the clock behind computedAt
    faults,         \* failures so far
    commits,        \* commits[p]: plans a confirm of id p has stored
    kept,           \* edits durably accepted and neither pruned nor erased
    refused         \* edits refused while not in prefs, and not accepted since

db == <<student, dpr, prefs, rows, pending>>
history == <<commits, kept, refused>>
vars == <<db, req, minted, solves, faults, history>>

-----------------------------------------------------------------------------
(* Plans, rows and request records.                                        *)

\* A stored plan: the proposal it applies (NoId for a plain build), the DPR
\* and the preferences it was computed from, the validator's verdict (FALSE
\* is the state infeasible-draft) and its computedAt.
Plan == [by : Proposals \cup {NoId}, dpr : Dprs \cup {NoDpr},
         prefs : SUBSET Proposals, valid : BOOLEAN, at : Nat]

NoPlan == [by |-> NoId, dpr |-> NoDpr, prefs |-> {}, valid |-> FALSE, at |-> 0]

\* loadLatestSchedule: the live row with the greatest computed_at.
LatestPlan == CHOOSE p \in rows : \A q \in rows : q.at <= p.at

HasDpr == dpr # NoDpr

Ids == Proposals \cup {NoId}
Edits == Proposals \ WhatIfs

Idle == [op |-> "none", pc |-> "idle", id |-> NoId, dpr |-> NoDpr,
         prefs |-> {}, base |-> FALSE,
         plan |-> NoPlan, snap |-> {}, made |-> FALSE, res |-> "none"]

\* The first request of a slot: its operation, first step and arguments.
Begin(r, op, pc, id, d) ==
    /\ op \in Ops
    /\ req[r].pc = "idle"
    /\ req' = [req EXCEPT ![r] =
                  [Idle EXCEPT !.op = op, !.pc = pc, !.id = id, !.dpr = d]]

At(r, op, pc) == req[r].op = op /\ req[r].pc = pc

Goto(r, pc) == req' = [req EXCEPT ![r].pc = pc]

\* The request answers; the answer stays readable until Reply.
Answer(r, res) == req' = [req EXCEPT ![r].pc = "done", ![r].res = res]

\* A store call that fails, and one that does not.
Fault == faults < MaxFaults /\ faults' = faults + 1
NoFault == UNCHANGED faults

\* Computing a plan: the solver and the validator decide feasible or not.
Solve(r, id, newPrefs, valid) ==
    [by |-> id, dpr |-> req[r].dpr, prefs |-> newPrefs,
     valid |-> valid, at |-> solves + 1]

\* The bound on plans leaves one to every request that is going to need one,
\* so that it never stops a request halfway.
WillSolve == {r \in Requests :
                req[r].op \in {"confirm", "refresh"}
                /\ req[r].pc \notin {"supersede", "commit", "done"}
                /\ ~(req[r].op = "confirm" /\ req[r].pc \in {"prefs", "prefsWrite"})}

CanSolve == solves + Cardinality(WillSolve) < MaxSolves

Init ==
    /\ student = FALSE
    /\ dpr = NoDpr
    /\ prefs = {}
    /\ rows = {}
    /\ pending = {}
    /\ req = [r \in Requests |-> Idle]
    /\ minted = {}
    /\ solves = 0
    /\ faults = 0
    /\ commits = [p \in Proposals |-> 0]
    /\ kept = {}
    /\ refused = {}

-----------------------------------------------------------------------------
(* Propose: /api/plan/{add,move,swap,drop,lock,whatif}, and the chat route *)
(* after a turn that called propose_plan_change.  Read only until the      *)
(* proposal is staged.                                                     *)

\* loadSessionState, its profile and DPR reads; without them the request is
\* rejected at once.  CanMint is the bound on ids.
CanMint ==
    Cardinality(minted) +
        Cardinality({r \in Requests : At(r, "propose", "loadPlan")})
      < Cardinality(Proposals)

ProposeLoadDpr(r) ==
    /\ HasDpr /\ CanMint
    /\ Begin(r, "propose", "loadPlan", NoId, NoDpr)
    /\ UNCHANGED <<db, minted, solves, faults, history>>

\* loadLatestSchedule; then the tool previews the change and the id is drawn.
ProposeLoadPlan(r) ==
    /\ At(r, "propose", "loadPlan")
    /\ \/ /\ rows # {} /\ NoFault
          /\ \E p \in Proposals \ minted :
                /\ req' = [req EXCEPT ![r].id = p, ![r].pc = "stage"]
                /\ minted' = minted \cup {p}
       \/ rows = {} /\ NoFault /\ Answer(r, "error") /\ UNCHANGED minted
       \/ Fault /\ Answer(r, "error") /\ UNCHANGED minted
    /\ UNCHANGED <<db, solves, history>>

\* stage(): the row needs its students row; a failure rejects the request.
ProposeStage(r) ==
    /\ At(r, "propose", "stage")
    /\ \/ /\ student /\ NoFault
          /\ pending' = pending \cup {req[r].id}
          /\ Answer(r, "staged")
       \/ /\ ~student /\ NoFault
          /\ Answer(r, "error")
          /\ UNCHANGED pending
       \/ /\ Fault
          /\ Answer(r, "error")
          /\ UNCHANGED pending
    /\ UNCHANGED <<student, dpr, prefs, rows, minted, solves, history>>

\* The ten minutes of a staged proposal are over: a later stage() sweeps the
\* row, or a take() deletes it and answers not_found.
Expire(p) ==
    /\ p \in pending
    /\ pending' = pending \ {p}
    /\ UNCHANGED <<student, dpr, prefs, rows, req, minted, solves, faults, history>>

-----------------------------------------------------------------------------
(* Confirm: /api/plan/confirm, runConfirmStage.                            *)

\* Mutant: the entry is read and left in the store.
ConfirmTakeLeavesRow(r, p) ==
    /\ p \in pending
    /\ CanSolve
    /\ Begin(r, "confirm", "loadDpr", p, NoDpr)
    /\ UNCHANGED <<db, minted, solves, faults, history>>

\* take(): DELETE ... RETURNING, so that the request owns the proposal now.
ConfirmTake(r, p) ==
    /\ p \in pending
    /\ CanSolve
    /\ Begin(r, "confirm", "loadDpr", p, NoDpr)
    /\ pending' = pending \ {p}
    /\ UNCHANGED <<student, dpr, prefs, rows, minted, solves, faults, history>>

\* loadSessionState, its profile and DPR reads: without them, restage.
ConfirmLoadDpr(r) ==
    /\ At(r, "confirm", "loadDpr")
    /\ \/ /\ HasDpr /\ NoFault
          /\ req' = [req EXCEPT ![r].dpr = dpr, ![r].pc = "loadPlan"]
       \/ /\ ~HasDpr /\ NoFault
          /\ Goto(r, "restage")
       \/ Fault /\ Goto(r, "restage")
    /\ UNCHANGED <<db, minted, solves, history>>

\* loadSessionState, loadLatestSchedule: without a plan, restage.
ConfirmLoadPlan(r) ==
    /\ At(r, "confirm", "loadPlan")
    /\ \/ /\ rows # {} /\ NoFault
          /\ Goto(r, "solve")
       \/ /\ rows = {} /\ NoFault
          /\ Goto(r, "restage")
       \/ Fault /\ Goto(r, "restage")
    /\ UNCHANGED <<db, minted, solves, history>>

\* Mutant: the retired "force" override, an infeasible plan is stored as well.
VerdictForced(r, id, base, valid) ==
    LET edited == IF id \in Edits THEN base \cup {id} ELSE base
    IN  /\ req' = [req EXCEPT ![r].plan = Solve(r, id, edited, valid),
                              ![r].prefs = edited, ![r].pc = "supersede"]
        /\ UNCHANGED refused

\* A verdict on a confirmed change: a feasible plan goes on to the store, an
\* infeasible one is refused and the confirm answers 422.
Verdict(r, id, base, valid) ==
    LET edited == IF id \in Edits THEN base \cup {id} ELSE base
        plan == Solve(r, id, edited, valid)
    IN  IF valid
          THEN /\ req' = [req EXCEPT ![r].plan = plan, ![r].prefs = edited,
                                     ![r].pc = "supersede"]
               /\ UNCHANGED refused
          ELSE /\ Answer(r, "infeasible")
               /\ refused' = refused \cup (({id} \cap Edits) \ prefs)

\* Mutant: the session is built without the stored preferences.
ConfirmSolveFromScratch(r) ==
    /\ At(r, "confirm", "solve")
    /\ NoFault
    /\ \E valid \in BOOLEAN : Verdict(r, req[r].id, {}, valid)
    /\ solves' = solves + 1
    /\ UNCHANGED <<db, minted, commits, kept>>

\* loadSessionState, loadPreferences, whose failure counts as no preferences;
\* then the change is applied to them and the plan is computed.
ConfirmSolve(r) ==
    /\ At(r, "confirm", "solve")
    /\ \/ /\ NoFault
          /\ \E valid \in BOOLEAN : Verdict(r, req[r].id, prefs, valid)
       \/ /\ Fault
          /\ \E valid \in BOOLEAN : Verdict(r, req[r].id, {}, valid)
    /\ solves' = solves + 1
    /\ UNCHANGED <<db, minted, commits, kept>>

\* The tool throws: restage.
ConfirmEngineError(r) ==
    /\ At(r, "confirm", "solve")
    /\ Fault
    /\ Goto(r, "restage")
    /\ UNCHANGED <<db, minted, solves, history>>

\* restageBestEffort: puts the proposal back if its students row is there.
ConfirmRestage(r) ==
    /\ At(r, "confirm", "restage")
    /\ Answer(r, "error")
    /\ \/ student /\ NoFault /\ pending' = pending \cup {req[r].id}
       \/ ~student /\ NoFault /\ UNCHANGED pending
       \/ Fault /\ UNCHANGED pending
    /\ UNCHANGED <<student, dpr, prefs, rows, minted, solves, history>>

-----------------------------------------------------------------------------
(* persistSchedule: one transaction, read committed, and what its caller   *)
(* does next.                                                              *)

Writer(r) == req[r].op \in {"confirm", "turn", "refresh"}

\* The edit a request has just confirmed, if it is confirming one.
ConfirmsEdit(r) == req[r].op \in {"confirm", "turn"} /\ req[r].id \in Edits

\* Mutant: a what-if is staged again although its plan was stored.
AfterPersistRestages(r, ok) ==
    CASE ConfirmsEdit(r) -> Goto(r, "prefs")
      [] req[r].op = "turn" /\ ~ConfirmsEdit(r) -> Goto(r, "agent")
      [] req[r].op = "refresh" -> Answer(r, "changed")
      [] req[r].op = "confirm" /\ ~ConfirmsEdit(r) -> Goto(r, "restage")

\* Mutant: a plain build of a turn goes on to write preferences.
AfterPersistAlwaysPrefs(r, ok) ==
    CASE req[r].op = "turn" -> Goto(r, "prefs")
      [] req[r].op = "refresh" -> Answer(r, "changed")
      [] req[r].op = "confirm" -> Goto(r, "prefs")

\* Where the caller continues after persistSchedule returned or was caught.
AfterPersist(r, ok) ==
    CASE ConfirmsEdit(r) -> Goto(r, "prefs")
      [] req[r].op = "turn" /\ ~ConfirmsEdit(r) -> Goto(r, "agent")
      [] req[r].op = "refresh" -> Answer(r, "changed")
      [] req[r].op = "confirm" /\ ~ConfirmsEdit(r) ->
             IF ok THEN Answer(r, "applied") ELSE Goto(r, "restage")

\* An INSERT of the students row waits for a transaction that has inserted it
\* and is still open.
StudentUnlocked == ~\E q \in Requests : req[q].pc = "commit" /\ req[q].made

\* Mutant: only the plan on display is superseded.
PersistSupersedeNewest(r) ==
    /\ Writer(r) /\ req[r].pc = "supersede"
    /\ StudentUnlocked
    /\ req' = [req EXCEPT ![r].snap = IF rows = {} THEN {} ELSE {LatestPlan},
                          ![r].made = ~student, ![r].pc = "commit"]
    /\ UNCHANGED <<db, minted, solves, faults, history>>

\* INSERT the students row if absent; UPDATE the live rows: the statement
\* sees the rows that are live and committed now.  (That it also waits for a
\* transaction that has updated the same rows only orders the two commits.)
PersistSupersede(r) ==
    /\ Writer(r) /\ req[r].pc = "supersede"
    /\ StudentUnlocked
    /\ req' = [req EXCEPT ![r].snap = rows, ![r].made = ~student,
                          ![r].pc = "commit"]
    /\ UNCHANGED <<db, minted, solves, faults, history>>

\* INSERT the new row, COMMIT: the rows of the update go, the new one comes.
PersistCommit(r) ==
    /\ Writer(r) /\ req[r].pc = "commit"
    /\ student \/ req[r].made
    /\ rows' = (rows \ req[r].snap) \cup {req[r].plan}
    /\ student' = TRUE
    /\ commits' = IF req[r].op = "confirm"
                    THEN [commits EXCEPT ![req[r].id] = @ + 1]
                    ELSE commits
    /\ AfterPersist(r, TRUE)
    /\ UNCHANGED <<dpr, prefs, pending, minted, solves, faults, kept, refused>>

\* The transaction fails, for its students row is gone or the store is down.
PersistFail(r) ==
    /\ Writer(r) /\ req[r].pc = "commit"
    /\ \/ Fault
       \/ ~(student \/ req[r].made) /\ NoFault
    /\ AfterPersist(r, FALSE)
    /\ UNCHANGED <<db, minted, solves, history>>

\* persistPreferences is two statements.  After it, or after its failure, which
\* is only logged:
AfterPrefs(r) ==
    CASE req[r].op = "confirm" -> Answer(r, "applied")
      [] req[r].op = "turn" -> Goto(r, "agent")
      [] req[r].op = "refresh" -> Goto(r, "replan")

\* The first one makes the students row if it is absent.
PrefsEnsureStudent(r) ==
    /\ Writer(r) /\ req[r].pc = "prefs"
    /\ StudentUnlocked
    /\ \/ NoFault /\ student' = TRUE /\ Goto(r, "prefsWrite")
       \/ Fault /\ AfterPrefs(r) /\ UNCHANGED student
    /\ UNCHANGED <<dpr, prefs, rows, pending, minted, solves, history>>

\* The second one writes the preferences; its student may be gone again.
PersistPrefs(r) ==
    /\ Writer(r) /\ req[r].pc = "prefsWrite"
    /\ \/ /\ student /\ NoFault
          /\ prefs' = req[r].prefs
          /\ IF req[r].op = "refresh"
               THEN kept' = kept \ Completed[req[r].dpr] /\ UNCHANGED refused
               ELSE /\ kept' = kept \cup {req[r].id}
                    /\ refused' = refused \ {req[r].id}
       \/ ~student /\ NoFault /\ UNCHANGED <<prefs, kept, refused>>
       \/ Fault /\ UNCHANGED <<prefs, kept, refused>>
    /\ AfterPrefs(r)
    /\ UNCHANGED <<student, dpr, rows, pending, minted, solves, commits>>

-----------------------------------------------------------------------------
(* A chat turn: api/chat/v2/route.ts.  The page sends the DPR; plan and    *)
(* preferences are read once, and the tools of the turn work on that copy. *)

\* What the page may send: any report it ever showed when it may be stale,
\* otherwise the stored one, or the one the plan came from if none is stored.
PageDprs ==
    IF StaleTabs THEN Dprs
    ELSE IF HasDpr THEN {dpr}
    ELSE IF rows # {} THEN {LatestPlan.dpr}
    ELSE Dprs

TurnStart(r, d) ==
    /\ d \in PageDprs
    /\ Begin(r, "turn", "load", NoId, d)
    /\ UNCHANGED <<db, minted, solves, faults, history>>

\* loadLatestSchedule, then loadPreferences, best effort: the first failure
\* leaves the rest unset.
TurnLoadPlan(r) ==
    /\ At(r, "turn", "load")
    /\ \/ NoFault /\ req' = [req EXCEPT ![r].base = (rows # {}),
                                        ![r].pc = "loadPrefs"]
       \/ Fault /\ Goto(r, "boot")
    /\ UNCHANGED <<db, minted, solves, history>>

TurnLoadPrefs(r) ==
    /\ At(r, "turn", "loadPrefs")
    /\ \/ NoFault /\ req' = [req EXCEPT ![r].prefs = prefs, ![r].pc = "boot"]
       \/ Fault /\ Goto(r, "boot")
    /\ UNCHANGED <<db, minted, solves, history>>

\* Mutant: nobody is bootstrapped.
TurnCheckProfileNever(r) ==
    /\ At(r, "turn", "boot")
    /\ Goto(r, "agent")
    /\ UNCHANGED <<db, minted, solves, faults, history>>

\* Only a student without a persisted profile is bootstrapped from the body.
TurnCheckProfile(r) ==
    /\ At(r, "turn", "boot")
    /\ Goto(r, IF HasDpr THEN "agent" ELSE "bootWrite")
    /\ UNCHANGED <<db, minted, solves, faults, history>>

TurnBootstrap(r) ==
    /\ At(r, "turn", "bootWrite")
    /\ StudentUnlocked
    /\ \/ NoFault /\ student' = TRUE /\ dpr' = req[r].dpr
       \/ Fault /\ UNCHANGED <<student, dpr>>
    /\ Goto(r, "agent")
    /\ UNCHANGED <<prefs, rows, pending, minted, solves, history>>

\* plan_forward_degree: the plan is stored whatever the verdict on it.
TurnBuild(r) ==
    /\ At(r, "turn", "agent")
    /\ CanSolve
    /\ \E valid \in BOOLEAN :
          req' = [req EXCEPT ![r].id = NoId,
                             ![r].plan = Solve(r, NoId, req[r].prefs, valid),
                             ![r].base = TRUE, ![r].pc = "supersede"]
    /\ solves' = solves + 1
    /\ UNCHANGED <<db, minted, faults, history>>

\* confirm_plan_change, called by the agent with the mutations of proposal p:
\* the session's preferences change even when the plan is then refused.
TurnConfirm(r, p) ==
    /\ "agentConfirm" \in Ops
    /\ At(r, "turn", "agent")
    /\ CanSolve
    /\ req[r].base
    /\ p \in minted \cap Edits
    /\ LET edited == req[r].prefs \cup {p}
       IN  \/ /\ req' = [req EXCEPT ![r].id = p, ![r].prefs = edited,
                                    ![r].plan = Solve(r, p, edited, TRUE),
                                    ![r].pc = "supersede"]
              /\ UNCHANGED refused
           \/ /\ req' = [req EXCEPT ![r].prefs = edited]
              /\ refused' = refused \cup ({p} \ prefs)
    /\ solves' = solves + 1
    /\ UNCHANGED <<db, minted, faults, commits, kept>>

\* Mutant: the turn starts over instead of ending.
TurnEndStartsOver(r) ==
    /\ At(r, "turn", "agent")
    /\ Goto(r, "load")
    /\ UNCHANGED <<db, minted, solves, faults, history>>

TurnEnd(r) ==
    /\ At(r, "turn", "agent")
    /\ Answer(r, "replied")
    /\ UNCHANGED <<db, minted, solves, faults, history>>

-----------------------------------------------------------------------------
(* Update DPR: /api/onboard/refresh-dpr with an uploaded report d.         *)

RefreshStart(r, d) ==
    /\ CanSolve
    /\ Begin(r, "refresh", "compare", NoId, d)
    /\ UNCHANGED <<db, minted, solves, faults, history>>

\* The same fingerprint as the stored plan's: nothing to do, nothing stored.
RefreshCompare(r) ==
    /\ At(r, "refresh", "compare")
    /\ \/ /\ NoFault
          /\ IF rows # {} /\ Fp[LatestPlan.dpr] = Fp[req[r].dpr]
               THEN Answer(r, "unchanged")
               ELSE Goto(r, "persistDpr")
       \/ Fault /\ Goto(r, "persistDpr")
    /\ UNCHANGED <<db, minted, solves, history>>

RefreshPersistDpr(r) ==
    /\ At(r, "refresh", "persistDpr")
    /\ StudentUnlocked
    /\ \/ NoFault /\ student' = TRUE /\ dpr' = req[r].dpr /\ Goto(r, "clear")
       \/ Fault /\ Answer(r, "error") /\ UNCHANGED <<student, dpr>>
    /\ UNCHANGED <<prefs, rows, pending, minted, solves, history>>

RefreshClear(r) ==
    /\ At(r, "refresh", "clear")
    /\ \/ NoFault /\ rows' = {}
       \/ Fault /\ UNCHANGED rows
    /\ Goto(r, "pruneRead")
    /\ UNCHANGED <<student, dpr, prefs, pending, minted, solves, history>>

\* Mutant: without a pin to prune the refresh returns early.
RefreshPruneReadReturns(r) ==
    /\ At(r, "refresh", "pruneRead")
    /\ NoFault
    /\ LET pruned == prefs \ Completed[req[r].dpr]
       IN  IF pruned = prefs
             THEN Answer(r, "changed")
             ELSE req' = [req EXCEPT ![r].prefs = pruned, ![r].pc = "prefs"]
    /\ UNCHANGED <<db, minted, solves, history>>

\* pruneCompletedPins: only a changed set of preferences is written back.
RefreshPruneRead(r) ==
    /\ At(r, "refresh", "pruneRead")
    /\ LET pruned == prefs \ Completed[req[r].dpr]
       IN  \/ /\ NoFault
              /\ req' = [req EXCEPT ![r].prefs = pruned,
                            ![r].pc = IF pruned = prefs THEN "replan"
                                                        ELSE "prefs"]
           \/ Fault /\ Goto(r, "replan")
    /\ UNCHANGED <<db, minted, solves, history>>

\* plan_forward_degree on the new report; an exception of it answers 500.
RefreshReplan(r) ==
    /\ At(r, "refresh", "replan")
    /\ \/ /\ NoFault
          /\ \E valid \in BOOLEAN :
                req' = [req EXCEPT ![r].plan = Solve(r, NoId, req[r].prefs, valid),
                                   ![r].pc = "supersede"]
          /\ solves' = solves + 1
       \/ Fault /\ Answer(r, "error") /\ UNCHANGED solves
    /\ UNCHANGED <<db, minted, history>>

-----------------------------------------------------------------------------
(* Deleting the account, signing in, answering, dying.                     *)

\* /api/session/delete: one transaction over every table of the student.
DeleteAccount(r) ==
    /\ "delete" \in Ops
    /\ req[r].pc = "idle"
    /\ student
    /\ student' = FALSE
    /\ dpr' = NoDpr
    /\ prefs' = {}
    /\ rows' = {}
    /\ pending' = {}
    /\ kept' = {}
    /\ refused' = {}
    /\ UNCHANGED <<req, minted, solves, faults, commits>>

\* Signing in (verifyOtp) upserts the students row; it brings no report.
VerifyOtp ==
    /\ ~student
    /\ StudentUnlocked
    /\ student' = TRUE
    /\ UNCHANGED <<dpr, prefs, rows, pending, req, minted, solves, faults, history>>

Reply(r) ==
    /\ req[r].pc = "done"
    /\ req' = [req EXCEPT ![r] = Idle]
    /\ UNCHANGED <<db, minted, solves, faults, history>>

\* The process dies with the request; an open transaction rolls back.
Crash(r) ==
    /\ MayCrash /\ Fault
    /\ req[r].pc # "idle"
    /\ req' = [req EXCEPT ![r] = Idle]
    /\ UNCHANGED <<db, minted, solves, history>>

-----------------------------------------------------------------------------

\* The steps a request takes on its own once it was started.
Step(r) ==
    \/ ProposeLoadPlan(r) \/ ProposeStage(r)
    \/ ConfirmLoadDpr(r) \/ ConfirmLoadPlan(r) \/ ConfirmSolve(r)
    \/ ConfirmEngineError(r) \/ ConfirmRestage(r)
    \/ PersistSupersede(r) \/ PersistCommit(r) \/ PersistFail(r)
    \/ PrefsEnsureStudent(r) \/ PersistPrefs(r)
    \/ TurnLoadPlan(r) \/ TurnLoadPrefs(r) \/ TurnCheckProfile(r) \/ TurnBootstrap(r)
    \/ TurnBuild(r) \/ (\E p \in Proposals : TurnConfirm(r, p)) \/ TurnEnd(r)
    \/ RefreshCompare(r) \/ RefreshPersistDpr(r) \/ RefreshClear(r)
    \/ RefreshPruneRead(r) \/ RefreshReplan(r)
    \/ Reply(r)

Start(r) ==
    \/ ProposeLoadDpr(r)
    \/ \E p \in Proposals : ConfirmTake(r, p)
    \/ \E d \in Dprs : TurnStart(r, d) \/ RefreshStart(r, d)
    \/ DeleteAccount(r)

\* Nobody is asking for anything.
Rest ==
    /\ \A r \in Requests : req[r].pc = "idle"
    /\ UNCHANGED vars

Next ==
    \/ \E r \in Requests : Start(r) \/ Step(r) \/ Crash(r)
    \/ \E p \in Proposals : Expire(p)
    \/ VerifyOtp
    \/ Rest

Spec == Init /\ [][Next]_vars

\* A request that was started is not abandoned by the runtime.
FairSpec == Spec /\ \A r \in Requests : WF_vars(Step(r))

-----------------------------------------------------------------------------
(* Properties.                                                             *)

Pcs == {"idle", "stage", "loadDpr", "loadPlan", "solve", "restage",
        "supersede", "commit", "prefs", "prefsWrite", "load", "loadPrefs",
        "boot", "bootWrite", "agent", "compare", "persistDpr", "clear",
        "pruneRead", "replan", "done"}

Answers == {"none", "staged", "error", "infeasible", "applied", "changed",
            "unchanged", "replied"}

RequestType ==
    [op : {"none", "propose", "confirm", "turn", "refresh"}, pc : Pcs, id : Ids,
     dpr : Dprs \cup {NoDpr}, prefs : SUBSET Proposals, base : BOOLEAN,
     plan : Plan, snap : SUBSET Plan, made : BOOLEAN, res : Answers]

\* The variables hold what their declarations say.
TypeOK ==
    /\ student \in BOOLEAN
    /\ dpr \in Dprs \cup {NoDpr}
    /\ prefs \in SUBSET Proposals
    /\ rows \in SUBSET Plan
    /\ pending \in SUBSET Proposals
    /\ req \in [Requests -> RequestType]
    /\ minted \in SUBSET Proposals
    /\ solves \in Nat
    /\ faults \in Nat
    /\ commits \in [Proposals -> Nat]
    /\ kept \in SUBSET Proposals
    /\ refused \in SUBSET Proposals

\* r has the only copy of proposal p: it is about to stage it, or took it out
\* of the store and has neither stored its plan nor refused it.
Holds(r, p) ==
    /\ req[r].id = p
    /\ \/ At(r, "propose", "stage")
       \/ /\ req[r].op = "confirm"
          /\ req[r].pc \in {"loadDpr", "loadPlan", "solve", "supersede",
                            "commit", "restage"}

Open(p) == p \in pending \/ \E r \in Requests : Holds(r, p)

\* However confirms, retries after a restage, failures and crashes
\* interleave, a staged proposal exists in one place only, and its plan is
\* stored at most once ("the same id cannot be confirmed twice").
SingleUse ==
    \A p \in Proposals :
        /\ \A r \in Requests : Holds(r, p) => p \notin pending
        /\ \A r, q \in Requests : Holds(r, p) /\ Holds(q, p) => r = q
        /\ commits[p] <= 1
        /\ Open(p) => commits[p] = 0

\* The same, seen from outside: the round trip implements the ledger.
LedgerStatus(p) ==
    IF commits[p] > 0 THEN "applied"
    ELSE IF Open(p) THEN "open"
    ELSE IF p \in minted THEN "closed"
    ELSE "unused"

Ledger == INSTANCE PlanLedger WITH
              status <- [p \in Proposals |-> LedgerStatus(p)],
              uses <- commits

\* No interleaving of stage, take, restage, expiry, deletion and crash lets a
\* closed or applied proposal come back, or be applied twice.
ImplementsLedger == Ledger!LedgerSpec

\* A plan that a confirm computed reaches the store only with the verdict
\* "feasible"; an infeasible live plan comes from plan_forward_degree alone.
ConfirmedPlansAreFeasible ==
    \A p \in rows : p.by # NoId => p.valid

\* A confirm that was refused as infeasible leaves nothing durable: "an
\* infeasible edit must not durably pin the mutation that broke the plan".
RefusedEditIsNotDurable == refused \cap prefs = {}

\* The answer ok:true of a confirm means that its plan was stored.
AppliedIsStored ==
    \A r \in Requests :
        req[r].op = "confirm" /\ req[r].pc = "done" /\ req[r].res = "applied" =>
            commits[req[r].id] > 0

\* After a deletion nothing of the student's is stored until the next
\* onboarding, but for the row that signing in makes: "remove ALL of their
\* data in one transaction".  (A bootstrap that fails leaves a plan without a
\* DPR, so only without failures.)
DeletedMeansEmpty ==
    faults = 0 /\ ~HasDpr => rows = {} /\ prefs = {} /\ pending = {}

\* Every request is answered or dies.
EveryRequestEnds == \A r \in Requests : req[r].pc # "idle" ~> req[r].pc = "idle"

\* A refresh that dropped the stored plan is followed by a new plan, unless
\* the account is deleted meanwhile.
RefreshBringsAPlan ==
    \A r \in Requests : At(r, "refresh", "pruneRead") ~> rows # {} \/ ~HasDpr
=============================================================================
