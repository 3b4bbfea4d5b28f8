------------------------------ MODULE ChatPage ------------------------------
(***************************************************************************)
(* The chat page of one student: the event stream of a chat turn, read in  *)
(* pieces, and the schedule workspace its events share with the buttons of *)
(* the page, whose replies arrive whenever the server is done with them.   *)
(*                                                                         *)
(* The server is external: it stores plans, numbered as they are stored,   *)
(* and stages proposals.  A plan is [nr, draft]; a proposal is [feasible,  *)
(* plan, mid] with the id of the pending mutation.  The bytes of a frame   *)
(* are four parts, cut anywhere by the network: two of the data line and   *)
(* the two line ends that close it.                                        *)
(***************************************************************************)
EXTENDS Integers, Sequences, FiniteSets, SequencesExt

CONSTANTS
  MaxActs,       \* bound on the frames of the turn and the calls of the buttons
  MaxPlans       \* bound on the plans the server stores

ASSUME ChatPageAssumption ==
  MaxActs \in Nat /\ MaxPlans \in Nat \ {0}

VARIABLES
  server,        \* [plans: the plans stored, staged: ids of the proposals staged]
  sent,          \* the frames of the turn, as the server wrote them
  wire,          \* parts written and not read
  buffer,        \* parts read and not parsed
  handled,       \* the frames the page has acted on
  turn,          \* "idle", "open", "closed" by the server, or "over"
  answer,        \* the assistant message of the turn: [state, text]
  store,         \* the plan store: see EmptyStore
  calls,         \* calls of the buttons in flight
  made,          \* number of calls made
  bubble         \* the last refused change: [mid, open: its buttons are shown]

pageVars == <<server, sent, wire, buffer, handled, turn, answer, store, calls, made,
              bubble>>

NoCommitted == [nr |-> 0, draft |-> FALSE]
CommittedId == 0

\* A scenario is [id, kind, plan, mid]; "previews" holds the ids of those made
\* by setPendingPreview, "nextId" the next id to give.
EmptyStore == [committed |-> NoCommitted, scenarios |-> {}, activeId |-> CommittedId,
               compare |-> <<>>, invalid |-> FALSE, previews |-> {}, nextId |-> 1]

-----------------------------------------------------------------------------
(* The scenario model and the plan store.                                  *)

ScenarioIds(s) == {sc.id : sc \in s.scenarios}
Find(s, id) == CHOOSE sc \in s.scenarios : sc.id = id
IsResolvable(s, id) ==
  IF id = CommittedId THEN s.committed # NoCommitted ELSE id \in ScenarioIds(s)

AddScenario(s, kind, p) ==
  [s EXCEPT !.scenarios = @ \cup {[id |-> s.nextId, kind |-> kind, plan |-> p.plan, mid |-> p.mid]},
            !.activeId = s.nextId, !.compare = <<>>, !.nextId = @ + 1]

SetActive(s, id) == [s EXCEPT !.activeId = id, !.compare = <<>>]

\* The compared pair outlives the scenario.
DiscardedWithCompareLeft(s, ids) ==
  [s EXCEPT !.scenarios = {sc \in @ : sc.id \notin ids},
            !.activeId = IF @ \in ids THEN CommittedId ELSE @,
            !.previews = @ \ ids]

\* discardScenario, of one scenario after the other.
DiscardScenarios(s, ids) ==
  [s EXCEPT !.scenarios = {sc \in @ : sc.id \notin ids},
            !.activeId = IF @ \in ids THEN CommittedId ELSE @,
            !.compare = IF Range(@) \cap ids # {} THEN <<>> ELSE @,
            !.previews = @ \ ids]

DropCompatPreviews(s) == DiscardScenarios(s, s.previews)

\* A draft never replaces the committed plan; any other plan clears the rest.
SetForwardSchedule(s, plan) ==
  IF plan.draft THEN s
  ELSE [EmptyStore EXCEPT !.committed = plan, !.nextId = s.nextId]

ClearPendingPreview(s) ==
  LET t == DropCompatPreviews(s)
  IN IF t.activeId = CommittedId THEN t ELSE SetActive(t, CommittedId)

SetPendingPreview(s, p) ==
  LET t == DropCompatPreviews(s)
  IN [AddScenario(t, "proposed", p) EXCEPT !.previews = @ \cup {t.nextId}]

\* A proposal becomes a red card or a preview, never both.
ShowProposal(s, p) ==
  IF ~p.feasible THEN ClearPendingPreview([s EXCEPT !.invalid = TRUE])
  ELSE [SetPendingPreview(s, p) EXCEPT !.invalid = FALSE]

\* confirmProposed throws for a scenario that is gone or is no proposal.
Confirmable(s, id) == id \in ScenarioIds(s) /\ Find(s, id).kind = "proposed"
ConfirmProposed(s, id) ==
  IF ~Confirmable(s, id) THEN s
  ELSE [DiscardScenarios(s, {id}) EXCEPT !.committed = Find(s, id).plan, !.activeId = CommittedId,
                                      !.compare = <<>>, !.invalid = FALSE]

-----------------------------------------------------------------------------
(* The server, external.                                                   *)

NewestPlan == server.plans[Len(server.plans)]
NewPlans == {[nr |-> Len(server.plans) + 1, draft |-> d] : d \in BOOLEAN}
Fresh == Cardinality(server.staged \cup server.used) + 1
\* The plan of a proposal is not stored: it is no later than the next one stored.
Proposals == {[feasible |-> f, plan |-> [nr |-> 0 - Fresh, draft |-> ~f], mid |-> Fresh] : f \in BOOLEAN}
Stage(p) == [server EXCEPT !.staged = @ \cup {p.mid}]
StorePlan(plan) == [server EXCEPT !.plans = Append(@, plan)]

-----------------------------------------------------------------------------
(* The turn: frames written by the server, read and handled by the page.   *)

Parts(i) == <<<<i, "data">>, <<i, "rest">>, <<i, "end">>, <<i, "sep">>>>

WriteFrame(f) ==
  /\ turn = "open" /\ Len(sent) + made < MaxActs
  /\ sent' = Append(sent, f)
  /\ wire' = wire \o Parts(Len(sent) + 1)
  /\ turn' = IF f.kind \in {"done", "error"} THEN "closed" ELSE turn

Send ==
  /\ turn = "idle"
  /\ turn' = "open" /\ sent' = <<>> /\ handled' = <<>> /\ wire' = <<>> /\ buffer' = <<>>
  /\ answer' = [state |-> "inflight", text |-> <<>>]
  /\ UNCHANGED <<server, store, calls, made, bubble>>

\* Tokens, violations, tool progress and the end of the turn.
ServerTalks ==
  /\ \E k \in {"token", "done", "error"} : WriteFrame([kind |-> k])
  /\ UNCHANGED <<server, buffer, handled, answer, store, calls, made, bubble>>

\* A tool of the turn stages a proposal, or stores a plan.
ServerProposes ==
  /\ \E p \in Proposals : WriteFrame([kind |-> "plan_proposal", proposal |-> p]) /\ server' = Stage(p)
  /\ UNCHANGED <<buffer, handled, answer, store, calls, made, bubble>>
ServerPlans ==
  /\ Len(server.plans) < MaxPlans
  /\ \E p \in NewPlans :
       WriteFrame([kind |-> "forward_schedule_update", plan |-> p]) /\ server' = StorePlan(p)
  /\ UNCHANGED <<buffer, handled, answer, store, calls, made, bubble>>

\* The page acts on one frame.
ApplyToStore(s, f) ==
  CASE f.kind = "plan_proposal" -> ShowProposal(s, f.proposal)
    [] f.kind = "forward_schedule_update" -> SetForwardSchedule(s, f.plan)
    [] OTHER -> s
ApplyToAnswer(a, f) ==
  CASE f.kind = "token" -> [a EXCEPT !.text = Append(@, "token")]
    [] f.kind = "done"  -> [state |-> "completed", text |-> <<"final">>]
    \* the list of messages read here is the one before the turn
    [] f.kind = "error" -> [state |-> "failed", text |-> <<"apology">>]
    [] OTHER -> a

\* A block ends with its separator.
HasBlock(b) == \E i \in DOMAIN b : b[i][2] = "sep"
NextSep(b) == CHOOSE i \in DOMAIN b : b[i][2] = "sep" /\ \A j \in 1..(i - 1) : b[j][2] # "sep"
NextBlock(b) == SubSeq(b, 1, NextSep(b) - 1)

\* The rest of a chunk is forgotten.
RestForgotten(b) == <<>>
Rest(b) == SubSeq(b, NextSep(b) + 1, Len(b))

\* The page acts on a block that has the whole of a data line, on no other.
ActOn(block) ==
  IF Len(block) >= 2 /\ block[1][2] = "data" /\ block[2][2] = "rest"
  THEN LET i == block[1][1]
       IN /\ handled' = Append(handled, i)
          /\ store' = ApplyToStore(store, sent[i])
          /\ answer' = ApplyToAnswer(answer, sent[i])
  ELSE UNCHANGED <<handled, store, answer>>

\* One read returns any part of what has been written. The next one waits
\* until the page is done with the blocks of this one.
Reading == turn \in {"open", "closed"} /\ ~HasBlock(buffer)
ReadChunk ==
  /\ Reading /\ wire # <<>>
  /\ \E n \in DOMAIN wire :
       /\ wire' = SubSeq(wire, n + 1, Len(wire))
       /\ buffer' = buffer \o SubSeq(wire, 1, n)
  /\ UNCHANGED <<server, sent, handled, turn, answer, store, calls, made, bubble>>

\* Between two events of one read the reply of a button may come in.
HandleEvent ==
  /\ HasBlock(buffer)
  /\ ActOn(NextBlock(buffer)) /\ buffer' = Rest(buffer)
  /\ UNCHANGED <<server, sent, wire, turn, calls, made, bubble>>

\* The stream ends: what is left in the buffer is parsed as one block.
StreamEnds ==
  /\ Reading /\ turn = "closed" /\ wire = <<>>
  /\ ActOn(buffer) /\ buffer' = <<>> /\ turn' = "over"
  /\ UNCHANGED <<server, sent, wire, calls, made, bubble>>

\* The connection breaks: a read fails and the reader makes an error event.
StreamBreaks ==
  /\ Reading
  /\ turn' = "over" /\ wire' = <<>> /\ buffer' = <<>>
  /\ answer' = ApplyToAnswer(answer, [kind |-> "error"])
  /\ UNCHANGED <<server, sent, handled, store, calls, made, bubble>>

-----------------------------------------------------------------------------
(* The buttons.  None of them waits for the turn or for another button.    *)

Call(c) ==
  /\ Len(sent) + made < MaxActs
  /\ calls' = calls \cup {[c EXCEPT !.nr = made + 1]}
  /\ made' = made + 1
  /\ UNCHANGED <<server, sent, wire, buffer, handled, turn, answer, store>>

CallOf(op, id, mid) == [nr |-> 0, op |-> op, id |-> id, mid |-> mid]

\* Add or drop a course, try a withdrawal, upload a what-if report or a new one.
PressPlanButton ==
  /\ \E op \in {"change", "whatif", "audit", "refresh"} : Call(CallOf(op, 0, 0))
  /\ UNCHANGED bubble

\* The button of the workspace, or the word "confirm" typed while a proposal is
\* shown: both send the id of the scenario on screen.
PressConfirm ==
  /\ \E sc \in store.scenarios :
       sc.id = store.activeId /\ sc.kind = "proposed" /\ Call(CallOf("confirm", sc.id, sc.mid))
  /\ UNCHANGED bubble

PressBubbleConfirm ==
  /\ bubble.open /\ bubble' = [bubble EXCEPT !.open = FALSE]
  /\ Call(CallOf("bubble", 0, bubble.mid))

KeepAsIs ==
  /\ bubble.open /\ bubble' = [bubble EXCEPT !.open = FALSE]
  /\ store' = [ClearPendingPreview(store) EXCEPT !.invalid = FALSE]
  /\ UNCHANGED <<server, sent, wire, buffer, handled, turn, answer, calls, made>>

Quiet == UNCHANGED <<sent, wire, buffer, handled, turn, answer, made>>
Returned(c) == c \in calls /\ calls' = calls \ {c}

\* Any call may fail on the way or at the server, which changes nothing here.
ReplyFails ==
  /\ \E c \in calls :
       /\ Returned(c)
       /\ bubble' = IF c.op = "bubble" /\ c.mid = bubble.mid
                    THEN [bubble EXCEPT !.open = TRUE] ELSE bubble
  /\ Quiet /\ UNCHANGED <<server, store>>

\* A refused change brings a bubble besides the red card, what-ifs do not.
ReplyToChange ==
  /\ \E c \in calls, p \in Proposals, hard \in BOOLEAN :
       /\ c.op \in {"change", "whatif"} /\ Returned(c)
       /\ server' = Stage(p)
       /\ store' = ShowProposal(store, p)
       /\ bubble' = IF ~p.feasible /\ c.op = "change"
                    THEN [mid |-> p.mid, open |-> ~hard] ELSE bubble
  /\ Quiet

\* The exploration of a what-if report: a scenario of its own unless invalid.
ReplyToAudit ==
  /\ \E c \in calls, feasible \in BOOLEAN :
       /\ c.op = "audit" /\ Returned(c)
       /\ store' = IF feasible THEN AddScenario(store, "whatif", [plan |-> NoCommitted, mid |-> 0]) ELSE store
  /\ Quiet /\ UNCHANGED <<server, bubble>>

ReplyToRefresh ==
  /\ Len(server.plans) < MaxPlans
  /\ \E c \in calls, p \in NewPlans :
       /\ c.op = "refresh" /\ Returned(c)
       /\ server' = StorePlan(p) /\ store' = SetForwardSchedule(store, p)
  /\ Quiet /\ UNCHANGED <<bubble>>

\* The confirm took the proposal and stored a plan, which the reply carries.
ReplyToConfirm ==
  /\ Len(server.plans) < MaxPlans
  /\ \E c \in calls, p \in NewPlans :
       /\ c.op \in {"confirm", "bubble"} /\ c.mid \in server.staged /\ Returned(c)
       /\ server' = [StorePlan(p) EXCEPT !.staged = @ \ {c.mid}, !.used = @ \cup {c.mid}]
       /\ LET s == ClearPendingPreview(SetForwardSchedule(store, p))
          IN store' = IF c.op = "confirm" THEN ConfirmProposed(s, c.id) ELSE s
  /\ Quiet /\ UNCHANGED bubble

\* Tabs and the compare view.
UseTabs ==
  /\ \/ \E id \in ScenarioIds(store) \cup {CommittedId} : store' = SetActive(store, id)
     \/ \E id \in ScenarioIds(store) : store' = DiscardScenarios(store, {id})
     \/ \E l, r \in ScenarioIds(store) \cup {CommittedId} :
          /\ l # r /\ IsResolvable(store, l) /\ IsResolvable(store, r)
          /\ (store.compare # <<>> \/ l = CommittedId)
          /\ store' = [store EXCEPT !.compare = <<l, r>>]
     \/ store.compare # <<>> /\ store' = [store EXCEPT !.compare = <<>>]
     \/ store.invalid /\ store' = [store EXCEPT !.invalid = FALSE]
  /\ UNCHANGED <<server, sent, wire, buffer, handled, turn, answer, calls, made, bubble>>

\* The page opens with the restored plan, a draft or none.
PageInit ==
  /\ \E first \in {<<>>} \cup {<<[nr |-> 1, draft |-> d]>> : d \in BOOLEAN} :
       /\ server = [plans |-> first, staged |-> {}, used |-> {}]
       /\ store = IF first = <<>> THEN EmptyStore ELSE SetForwardSchedule(EmptyStore, first[1])
  /\ sent = <<>> /\ wire = <<>> /\ buffer = <<>> /\ handled = <<>> /\ turn = "idle"
  /\ answer = [state |-> "none", text |-> <<>>]
  /\ calls = {} /\ made = 0
  /\ bubble = [mid |-> 0, open |-> FALSE]

PageNext ==
  \/ Send \/ ServerTalks \/ ServerProposes \/ ServerPlans
  \/ ReadChunk \/ HandleEvent \/ StreamEnds \/ StreamBreaks
  \/ PressPlanButton \/ PressConfirm \/ PressBubbleConfirm \/ KeepAsIs
  \/ ReplyFails \/ ReplyToChange \/ ReplyToAudit \/ ReplyToRefresh \/ ReplyToConfirm
  \/ UseTabs

PageSpec == PageInit /\ [][PageNext]_pageVars

-----------------------------------------------------------------------------
(* Properties.                                                             *)

\* However the stream is cut, the page acts on the frames of the turn once
\* each and in their order, and on all of them when the stream ends.
EventsArriveOnce ==
  /\ handled = [i \in 1..Len(handled) |-> i]
  /\ Len(handled) <= Len(sent)
  /\ turn = "over" /\ answer.state = "completed" => Len(handled) = Len(sent)

\* Whatever replies and events come in between: the tab shown exists, the two
\* plans compared exist and differ, one proposal at most is on offer, and the
\* plan under "My Plan" is one the server has stored and no draft.
WorkspaceIsConsistent ==
  /\ store.activeId \in ScenarioIds(store) \cup {CommittedId}
  /\ store.compare # <<>> =>
       /\ store.compare[1] # store.compare[2]
       /\ \A i \in 1..2 : IsResolvable(store, store.compare[i])
  /\ Cardinality({sc \in store.scenarios : sc.kind = "proposed"}) <= 1
  /\ store.previews = {sc.id : sc \in {x \in store.scenarios : x.kind = "proposed"}}
  /\ store.committed = NoCommitted \/ (store.committed \in Range(server.plans) /\ ~store.committed.draft)
=============================================================================
