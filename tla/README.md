# NYU Path: a TLA+ model

NYU Path is a degree advisor: a Next.js application (`src/apps/web`) around an
engine (`src/packages/engine`) that parses a degree progress report (DPR), builds
a plan of the remaining semesters, lets a language model answer with the help of
tools, and lets the student edit the plan through a propose/confirm round trip.
The state lives in Postgres (`src/apps/web/lib/db/schema.ts`); the server is
stateless between requests, several instances may run, and every `await` on a
store, a model or a tool is a point where something else may happen.

This directory models the parts where that matters, checks them with TLC and
proves the central results with TLAPS. `PROJECT.json` is the index: components,
runs, the mutant behind each property, the source lines of each definition,
hazards, findings and theorems.

    tlc -workers 2 -config plan_single_use.cfg MCPlanLifecycle
    tlapm PlanLifecycleProofs.tla

## The system

| Part | Where | State | Operations | Interacts with |
|---|---|---|---|---|
| Plan lifecycle | `lib/planActionOrchestrator.ts`, `agent/tools/{proposePlanChange,confirmPlanChange,planForwardDegree}.ts`, `api/onboard/refresh-dpr`, `api/session/delete`, `api/chat/v2` | none of its own: a request's copy of profile, DPR, plan and preferences | propose, confirm, what-if, chat turn, refresh, delete | all stores, the planner, the agent loop |
| Schedule store | `lib/db/scheduleStorePostgres.ts` | `forward_schedules` (superseded, not deleted), `schedule_preferences` | persistSchedule, loadLatestSchedule, persistPreferences, loadPreferences, clearScheduleForStudent | plan lifecycle |
| Pending mutation store | `lib/db/pendingMutationStore.ts` | `pending_mutations`, or a Map | stage, take, sweepExpired | propose and confirm |
| Agent loop | `agent/agentLoop.ts`, `agent/loopState.ts` | the conversation, the turn's messages, the budgets | runAgentTurn, runAgentTurnStreaming | model clients, tools, response validator |
| Response validator | `agent/responseValidator.ts`, `agent/verifiers` | none | validateResponse | agent loop |
| Tools | `agent/tools`, `agent/tool.ts` | the ToolSession | call, validateInput | stores, planner |
| Profile store | `lib/db/profileStorePostgres.ts`, `agent/tools/updateProfile.ts` | `students`, `audit_log`, pending profile mutations | persistMutation, get, getParsedDpr, update_profile, confirm_profile_update | chat route, refresh |
| Session and chat history | `lib/db/sessionStorePostgres.ts`, `lib/db/chatHistoryStorePostgres.ts` | `session_summaries`, `chat_messages` | get, appendSummary, trim, appendMessage, loadRecentMessages | chat route, page |
| Sign-in | `lib/auth` | `email_otps`, a cookie | issueOtp, verifyOtp, logout | every route |
| Rate limiter | `lib/rateLimit.ts` | a Map of daily counters | consumeRequest | chat and OTP routes |
| SSE and client | `lib/sseStream.ts`, `lib/chatV2Client.ts` | a queue and a buffer | write, close, streamChatV2 | chat route, chat page |
| Chat page | `app/chat/page.tsx`, `lib/scenarios`, `app/chat/*.ts` | messages, scenarios, active scenario, comparison | events, buttons, replies of the plan routes | plan routes |
| Workspace views | `app/chat/workspace`, `lib/reviewCard.ts`, `explainPlanDiff.ts` | an open popover, a comparison | diffSchedules, computeReviewCard, slotActionMatrix | chat page |
| Onboarding | `lib/wizard`, `app/chat/wizard`, `app/chat/page.tsx` | the step and the values of the wizard, the step of the older dialogue | next, skip, back, skipAll, upload, posted preference turns | upload and chat routes |
| Forward planner | `agent/forwardSchedule` | none | search, localImprove, alternatives, materializePlan, build | planning tools |
| Path validator | `agent/forwardSchedule/graduationPathValidator.ts` | none | eight axes | planner |
| Edits and what-ifs | `planChangeHelpers.ts`, `{withdraw,passFail,failCourse}Transform.ts` | `schedulePreferences`, a copy of the report | applyMutationsToPreferences, transforms | planning tools |
| Section materialisation | `agent/sectionMaterialization`, `api/nyuClassSearch.ts` | a cache with a time to live, the staged combinations of a turn | materialize, FoseCache, confirm | class search |
| DPR parser and audit | `dpr/parser.ts`, `agent/tools/{runFullAudit,getCreditCaps,getAcademicStanding}.ts` | none | parseDpr, the three tools | upload, chat |
| Calendar | `dpr/ipCourseChangeability.ts`, `dpr/temporalContext.ts` | the clock | classifyIpChangeability | slot actions, what-ifs |
| Retrieval, provenance, adapters, pipelines | `rag`, `provenance`, `agent/clients`, `src/tools`, `src/evals` | - | - | - |

### What is hard in it

* **Interleavings.** Every route reads, computes for a while (a solver run, a
  conversation of minutes) and writes. Two requests of one student (two tabs, a
  button and a typed confirm, a chat turn next to a refresh, a deletion next to
  anything) interleave at each await. Transactions are read committed.
* **Partial failure.** Plan and preferences are two writes; many stores are
  called "best effort", and each call site decides on its own what a failure
  means: restage, log, answer an error, or go on with nothing.
* **Single use.** A proposal is taken (deleted) first and restaged on failure,
  so its one life is spread over the table and the memory of a request that may
  die.
* **Agent loop.** Budgets of six kinds (iterations, replays, recoveries, one
  reactive compaction, one tier-2 compaction, attempts of a tool) with aborts at
  every await, and two copies of the transcript that must not drift apart.

* **Stale answers.** The page shows one workspace and several answers are on
  their way to it: a stream of events, replies to propose, confirm, audit and
  refresh, each about a plan that may be gone when it arrives.
* **Two descriptions of one rule.** The search's constraints and the validator's
  axes; what a pin means and what an exclusion means; the course that is in
  progress by its type or by its grade; the text shown and the text stored.
* **Text that lost something.** A page break in the middle of a report; a sentence
  whose terms and courses must be put together by distance.

### What makes each part correct

* Plan lifecycle: a proposal is applied at most once; no confirm stores an
  infeasible plan; a confirmed edit is lost only to a request that had not read it;
  whatever overlapping requests leave behind, the next one that stores a plan
  undisturbed leaves one live plan of the stored report and preferences; a refused
  edit leaves no trace; nothing that began after a deletion fills the account again;
  a refresh ends with a plan.
* Pending store: one holder per proposal, ten minutes from the propose, taken
  only by its student, under both implementations.
* Agent loop: ends; within its budgets; every call answered before the model is
  asked again; transcript complete; nothing rejected or superseded is shown; after
  an abort only the request, or the attempt of a tool, under way goes on; the model
  sees the question.
* Profile: a stored field changes only as the audit log says.
* Summaries: the newest N survive overlapping turns. Transcript: what is restored
  is what was shown, each answer behind its question, with nothing but turns that
  were under way together in between.
* Sign-in: a code starts one session, a caller gets exactly its daily quota.
* Client and page: every event is handled once and in order however reads split
  frames; the workspace never points at a scenario that is gone and never shows
  a plan under "My Plan" that the server has not stored; a bubble shows its own
  text and its own terms, and nothing new once it is answered.
* Onboarding: the student's last choices reach the agent, with the report.
* Planner: it finds a plan exactly when there is one and knows when it does not
  know; improving keeps validity; search and validator agree; a drop stays
  dropped and an accepted bind is placed.
* Calendar: what can be done with a course only narrows. Sections: what is offered
  can be attended. Reports: what is read was printed, what is answered was read.
* Validator: blocks only what is false, and passes no number and no quotation
  without a source, as far as it looks (block quotes near one another are one to it).

## The modules

| Module | What it is |
|---|---|
| `PlanLedger` | the abstract promise of propose/confirm: a proposal is unused, open, applied or closed, and applied at most once |
| `PlanLifecycle` | the requests of one student against the database, one step per await |
| `PlanHistory` | `PlanLifecycle` with history variables: what went on beside each request, and which edits were overwritten unseen |
| `MCPlanLifecycle`, `MCPlanHistory` | constants for TLC |
| `PlanLifecycleProofs` | types, single use, feasibility, refinement of `PlanLedger`; what overlapping requests may leave behind and what a deletion leaves to them |
| `PendingMutationStore` | the store of proposals below `PlanLifecycle`'s set `pending`: SQL statements, tenants, clock, restarts |
| `MCPendingMutationStore`, `PendingMutationStoreProofs` | constants for TLC; types and dates, time to live, one holder, what leaves the table, refinement of `PlanLedger` |
| `AgentLoop` | one turn of the advisor, block and streaming |
| `AbortHistory` | `AgentLoop` with a history variable: where the turn stood at the abort |
| `MCAgentLoop`, `AgentLoopProofs` | constants for TLC; types, cost, abort, transcript, stream |
| `Lists`, `ListProofs` | filter, sort and sum of lists as recursive functions; the facts the proofs need of them |
| `DegreeRules` | terms, prerequisites, floors, pass/fail limits, weights: pure operators |
| `PlanModel` | the planner's problem, its variables, hard constraints and score |
| `PlanMaterial` | from placements to a schedule, and the eight axes of its verdict |
| `ForwardPlanner` | search, local improvement, alternatives, horizon, one step per node |
| `PlannerProofs` | the search and its horizon, the improvements, the schedule made of a plan |
| `PlanEdits` | a student's edits and what-ifs of one plan, and the solves that follow |
| `IpCalendar` | the deadlines of courses in progress as the days pass |
| `PlanningProofs` | drops and binds of `PlanEdits`, the windows of `IpCalendar`, the proposals of `Sections`, the comparison of `PlanViews` |
| `Sections` | class search, a cache shared by all, searches awaited one by one, combinations, their staging and confirm |
| `ChatPage` | the event stream and the workspace of the page |
| `RefusalBubbles` | the bubble of a refused change and its two streams |
| `PageProofs` | the bubbles of `RefusalBubbles`, the events and the workspace of `ChatPage` |
| `PlanViews` | what is compared, marked, said and offered |
| `Onboarding` | wizard, older dialogue, dropped files, preference turns |
| `ProfileSync` | chat turns, profile tools, refresh and deletion on one profile row |
| `ChatReply` | the turns of a conversation, overlapping, from the gate to the transcript |
| `SessionSummaries` | the rolling window under overlapping turns |
| `SignIn` | codes, cookies and the quota |
| `DprReport`, `DegreeAudit` | reading a printed report; answering from what was read |
| `ReplyValidator` | the verdict on a reply |
| `ConversationProofs` | the transcript of `ChatReply`, the audit log of `ProfileSync`, the hand-over of `Onboarding`, the window of `SessionSummaries`, the codes and the quota of `SignIn`, the numbers and quotations `ReplyValidator` lets pass |
| `MCComponents` | the instance that runs the components from `DegreeRules` on, each on its own |

`PlanLifecycle` and `PendingMutationStore` both implement `PlanLedger`, the
first with the database of plans around the staging area, the second with the
staging area in detail. `AgentLoop` stands for what happens between the steps
`TurnCheckProfile` and `TurnEnd` of `PlanLifecycle`, where the calls of the
planning tools come in any order and number. `ChatReply` stands for what comes
before and after that turn, `ProfileSync` for the profile in the same route,
`ForwardPlanner` for the free choice of a verdict in `ConfirmSolve`, `PlanEdits`
for what is in a preferences set there, `ReplyValidator` for the verdict
`AgentLoop` leaves open, `DprReport` for the report all of them start from.
`DegreeAudit` extends `DprReport`; `ForwardPlanner` extends `PlanMaterial`,
`PlanModel` and `DegreeRules`, the last of which `PlanEdits` shares. `Lists`,
below `DegreeRules`, `Sections` and `PlanViews`, writes a filter, a stable sort and a
sum as recursive functions: what the library's operators compute cannot be proved
here, since they take operators as arguments or are declared RECURSIVE.

### PlanLifecycle

State: `student`, `dpr`, `prefs`, `rows`, `pending` are the tables; `req[r]` is a
request with its program counter and its private copies; the rest is
bookkeeping (`commits`, `kept` and `refused` record history that the properties
refer to). A plan is remembered as what it was computed from (proposal, report,
preferences, verdict, time), since that is what the properties compare; an edit
is its proposal, and the preferences are the set of edits they contain.

Actions and code, in order of the requests: `ProposeLoadDpr`, `ProposeLoadPlan`,
`ProposeStage` (runProposeStage and its what-if twin, also called at the end of a
chat turn); `ConfirmTake`, `ConfirmLoadDpr`, `ConfirmLoadPlan`, `ConfirmSolve`,
`ConfirmEngineError`, `ConfirmRestage` (runConfirmStage); `PersistSupersede`,
`PersistCommit`, `PersistFail` (the transaction of persistSchedule: its UPDATE
and its INSERT with COMMIT); `PrefsEnsureStudent`, `PersistPrefs` (two
statements, no transaction); `TurnStart` ... `TurnEnd` (the chat route);
`RefreshStart` ... `RefreshReplan` (refresh-dpr); `DeleteAccount` (one
transaction); `VerifyOtp` (signing in upserts the students row, without a report);
`Expire`, `Reply`, `Crash`. Every store call has a failing twin
(`Fault`), with the continuation its call site has.

Decisions worth knowing. An UPDATE under read committed sees the rows committed
when it starts, which is why `PersistSupersede` takes a snapshot. An INSERT of the
students row waits for a transaction that has inserted it (`StudentUnlocked`);
waiting on the superseded rows only orders the two commits and is left out. A
foreign key makes `PersistFail`, `ProposeStage`, `PersistPrefs` and
`ConfirmRestage` fail when the account is gone. The solver and the validator
are a free choice of feasible or infeasible.

`PlanHistory` adds nothing to what may happen (`HistoryNext` is `Next` with two more
variables set) and remembers what the properties need and no column keeps.
`since[r]` says of the request in flight whether it was alone, whether a call failed
meanwhile, whether the account was deleted under it, and which stored edits its copy
of the preferences lacks; `overwritten` is the set of edits that a writer with such a
copy has taken out. No route takes a lock, so nothing can be promised of the record
while two requests write it. What holds is who may do the damage
(`ConfirmedEditsSurvive`, `OnlyTheOutlivedRefill`) and that it is gone after the next
request that stores a plan with nobody beside it (`LoneWriterRestoresRecord`).

### PendingMutationStore

`store`, `now` and `req`, with `backend` choosing the implementation once: on the
table `stage` is a sweep and an upsert and `take` a DELETE ... RETURNING and, when
it returned nothing, a probe; on the Map each method is one step. `Expired` keeps
the difference of one millisecond between the two. Instances share the clock.
`Restart` loses the Map and the requests; `Abandon` is a request that dies.

### AgentLoop

One turn from the user's message to its ChatTurnResult. What runs between two
awaits is one step; `at` says what is awaited. Messages are role, iteration, size
and number of calls; sizes count in units of a short message, which is what the
budget for tool results and the two pressure tiers look at. The model, the tools,
the summarizer and the validator answer anything. Where block and stream differ
the model differs: reactive compaction, the second try of the primary and output
recovery are block only, events are stream only.

The signal is read at the head of an iteration, of a tool call and of an attempt, and
nowhere else; a request to the model that fails because of the abort is repeated like
any other. `AbortHistory` remembers in `then` where the turn stood and what it had
used at the abort, so that `AbortIsFinal` can say what may still come of it.

### Planner: DegreeRules, PlanModel, PlanMaterial, ForwardPlanner

`raw` is a problem (requirements with candidates, offerings, prerequisites, load,
visa, pins, wishes), `SolverInput` and `Context` what the code derives from it.
The search is one step per node with an explicit stack (`assigned`, `frames`):
`VisitVariable` orders and filters the values, `VisitLeaf` evaluates a complete
assignment, `OutOfBudget` ends the search, the three `End...` actions stand for
findFirstValidPlan, the search for diverse plans and searchTopK. `ImprovePass`
is one accepted move of localImprove, `Finalize` materialisation and verdict,
`ExtendHorizon` the loop over later graduation terms. The reference definition is
`ValidLeaves`, the set of all assignments filtered by the leaf predicate; the
search never looks at it.

### PlanEdits

`prefs` holds pins, exclusions, binds and wishes, `dropped` remembers what was
dropped and not asked for again. `ConfirmEdit` applies an edit and solves; the
solver is any plan that satisfies what every plan of `ForwardPlanner` does (pins
placed first, exclusions for the rest). `ProposeWhatIf` transforms a copy of the
report row by row and leaf by leaf.

### IpCalendar

The report stands still and the days pass: `today` runs over moments of two years
([year, day, minute] in UTC), `WindowOf` is classifyIpChangeability, `SlotActions`
what the page offers for it. A deadline is compared as the code compares it, with
00:00Z of its day: of the day itself only the first instant is in time.

### Sections

`listing` records what the class search shows at each time, so that a staged
section can be compared with every listing of its cache lifetime. The tool call is
as many steps as it awaits: `MaterializeTerm` checks the term and begins,
`FetchCourse` takes the answer for the next course from the cache or asks for it,
`SearchAnswers` and `SearchFails` are the end of that wait, `StageCombinations` does
the rest at once (gate, wishes, enumeration up to the cap, ranking, staging). In
between the clock runs and other sessions fill the cache (`SearchedElsewhere`), which
belongs to the process. `ConfirmCombination` binds, `Replan` and `EndTurn` are what
makes a staged combination old.

### ChatPage, RefusalBubbles and PlanViews

`ChatPage` keeps the bytes of a frame as four parts, so that a read may end
anywhere; `handled` is the history of frames acted on. The reader yields the blocks
of one read one by one (`HandleEvent`), and between two of them the reply of a
button may come in; the next read waits for the last of them (`Reading`). The
scenarios are a set, since nothing depends on their order. Replies to the buttons
are a set of calls in flight, answered in any order.

`RefusalBubbles`: `bubbles` is the page's state of each bubble, `feeds` the two
requests a bubble makes, each with the frames written and not yet read (`inbox`)
and the plan its route has read. `ReadEvent` is one turn of the page's reading
loop with the reducer it calls; `PolishStreams` and `Stage2Streams` write one frame;
a route may refuse, be switched off, fail, or lose its connection. The text is the
sequence of its chunks, the template a chunk of its own.

`PlanViews` keeps two plans slot
by slot and what the student sees of them: `Compared`, the sentence of
explainPlanDiff, the review card, the actions of a slot. A plan carries both
verdicts, the violations of the solver (`broken`) and the validator's (`feasible`),
and either may object alone: the card is red by the second, and lists the first
behind what the validator said (`ConflictsOf`, which only the reply to an action has).

### Onboarding

`wiz` is wizardMachine's state, `onPage` the page's, `flight` what is awaited,
`posted` the requests of the chat route. `picked` is what the student chose and
is compared with what reaches the agent.

### ProfileSync, ChatReply, SessionSummaries, SignIn

`ProfileSync`: turns step through read-back, bootstrap, the two persist blocks and
the tools' staged updates, with an upload and a deletion beside them; a value of
a field carries where it came from. `ChatReply`: gate, agent, offers, verdict,
appended question, two writes; a text is what the guards look for in it. A page
waits for the turn it has sent, the server for none: `Reload` makes the page forget
its turn, which goes on and writes (its stream only has no reader, so a broken
connection is nothing else), and `Pages` may be several.
`SessionSummaries`: an id per summary, one step per statement. `SignIn`: verifyOtp
in its read, its update and its answer; `late` marks a code read after it had
brought a session.

### DprReport, DegreeAudit, ReplyValidator

`DprReport` prints a report line by line, places one page break anywhere, and
parses: sections, counters, tables, wrapped rows, warnings. `DegreeAudit` extends it
with the three tools, so that their answers are compared with what was printed
and not only with what was read. `ReplyValidator` composes a reply from statements
of known truth (`says`) and judges its tokens; the truth is never looked at by the
judge. Block quotes that begin close to one another are one quotation to it, with the
passages of all of them, as in extractQuotes.

## The runs

| Run | Instance | Shows |
|---|---|---|
| `plan_single_use` | 2 requests, an edit and a what-if, 3 solves, 1 fault or crash, turns with confirms inside, refresh, deletion, sign-in | `TypeOK`, `SingleUse`, `ConfirmedPlansAreFeasible`, refinement of `PlanLedger` |
| `plan_overlap` | 2 requests, 2 edits, 2 reports, 3 solves, 1 fault, crashes, sign-in; propose, confirm, refresh and deletion | a confirmed edit is lost only unseen (`ConfirmedEditsSurvive`), a lone writer makes the record whole (`LoneWriterRestoresRecord`) |
| `plan_liveness` | 2 requests, 1 proposal, 2 reports, 2 solves, no fault, fair; all operations and sign-in | requests end, a refresh brings a plan, only a request that outlives the deletion refills the account (`OnlyTheOutlivedRefill`) |
| `agent_turn` | 3 iterations, 1 replay, 1 recovery, 2 calls per completion, tail of 3, window of 12 units, with and without fallback and history, an abort anywhere | all properties of `AgentLoop` but the one below, and `AbortIsFinal` |
| `pending_store` | 2 students, 2 ids, 2 requests, both stores, TTL 1, clock to 2 | `TypeOK`, `OneHolder`, `TtlIsAnchored`, `LeavesOnlyToItsOwner`, refinement of `PlanLedger` |
| `components` | every module from `DegreeRules` on, see below | one to three properties each, twenty in all |
| `plan_ok_not_stored` | 1 request, 1 fault | violation of `AppliedIsStored` |
| `plan_deletion_race` | 2 requests, no fault | violation of `DeletedMeansEmpty` |
| `plan_refused_edit` | 1 request, no fault | violation of `RefusedEditIsNotDurable` |
| `agent_lost_question` | as `agent_turn` | violation of `QuestionIsAsked` |
| `asked_twice` | the replies of `components`, without a reload | violation of `NeverAsksTwiceInARow` |
| `whatif_withdrawal` | the edits of `components` | violation of `WithdrawnCourseLeavesThePlan` |

What `components` asks of each part:

| Part | Instance | Properties |
|---|---|---|
| planner | 24 problems of up to 3 requirements, a node budget that cuts the search and one that does not, up to 3 alternatives and 2 extensions | `SearchIsHonest`, `ImprovementIsSound`, `ConstraintsMirrorValidator` |
| calendar | 3 schools, up to three terms in progress, 53 moments over two years: one in each stretch between deadlines, the first instant and the morning of a last day | `WindowNeverReopens` |
| edits | one report, every pair of edits, binds and what-ifs | `DropSticks`, `AcceptedBindIsPlaced` |
| sections | two courses, one of them also searched elsewhere, two listings, cache lifetime 2, clock to 3, which runs between two searches of a call, 2 combinations at most | `ProposalsAreAttendable` |
| page | 3 frames and button calls together, replies in any order, 2 stored plans, frames cut anywhere | `EventsArriveOnce`, `WorkspaceIsConsistent` |
| bubbles | one bubble with two terms or none, 2 chunks, 5 frames, plans with courses in one or both of the terms, either stream refused, broken or late | `BubbleSpeaksForItself` |
| views | pairs of 8 plans, one the validator alone refuses and one the solver alone objects to, every change | `ComparisonIsTrue` |
| onboarding | 4 files (unreadable, refused, with and without a derived school), 3 picks, 2 uploads, 1 message | `HandOverIsComplete` |
| profile | 2 turns, an upload, a deletion, 2 rounds, any call failing | `ChangesAreAudited` |
| replies | 2 messages whose turns overlap when the page is loaded again, at any time, either write failing | `TranscriptIsWhatWasShown` |
| summaries | 2 turns, a window of 2, 4 ids, any statement failing, deletion | `WindowHoldsTheNewest` |
| sign-in | 2 addresses, 1 caller, quota 2, TTL and day of 2 ticks, 3 codes, 2 verifications, restarts | `RedeemedCodeStaysDead`, `DailyQuota` |
| reports | up to 3 sections (a GPA below its floor, one exactly at it), a history, one page break anywhere, the three tools | `ReportReadsAsPrinted`, `AnswersMatchTheReport` |
| validator | replies of 2 statements, block quotes near and far among them, a claim too vague to be caught, with the results of up to 1 call | `VerdictIsJust` |

These parts share no variables, so the instance runs them side by side without
interleaving: `running` picks one at the start, the others stay at one idle
value. A product of their state spaces would show nothing more. `Next` of
`MCComponents` is the union of their next-state relations.

**Bounds.** `MaxSolves` bounds the plans computed and is guarded so that it never
stops a request halfway (`CanSolve`); three to five are enough for a plan, two edits
on it and a refresh. `MaxFaults` is one where the property claims to survive a
failure; two independent failures add no new call site. Two request slots make every
pairwise interleaving; the proofs remove the bound where the result is proved. In
`plan_overlap` the two slots are symmetric: no action tells one from the other, and
the run checks invariants only. Its turns are left to `plan_liveness` and to the
proof, which has all operations. `Priors`, `Window`, `ToolBudget`, `KeepTrailing`
are scaled down together so that both tiers, the tool budget and a tail shorter than
the conversation occur within three iterations. `TTL = 1` with a clock to 2 lets a
proposal be fresh, expire exactly, and be past it. The planning problems are chosen
one per hard constraint, so that each decides at least one of them; the budget 12
truncates the larger searches, 500 none. Two edits are the shortest history in which
a second solve can undo the first edit. A window of two summaries with four ids
overflows twice. Two codes of one address and a third make "newer code used, older
one valid again" happen. One page break in a report of three sections reaches every
line kind; two breaks only add independent losses. A conversation has one page in
the run: a reload already gives two turns that write at once, a second page
multiplies the states by four, and the proof has any number. The validator's
distances are scaled from characters to tokens: `QuoteFar` (6) is its 200 characters
between two block quotes, `QuoteNear` (2) its 80.

**Deadlock** is checked in the runs of `PlanLifecycle`, `PendingMutationStore` and
`AgentLoop`: `Rest` and `Done` are their only states of rest and stutter
explicitly. The three runs of `MCComponents` do not check it: most of its parts are
computations that end (a plan is returned, a report is answered, the last day is
reached), and the others are bounded in their inputs.

**Fairness.** `FairSpec` of `PlanLifecycle` has weak fairness of each request's
steps: Node runs a pending continuation, Postgres answers or fails. New requests,
expiry, faults and crashes are not fair. `AgentLoop` has weak fairness of its
step: a model, tool or summarizer call returns or throws (the clients have
timeouts; an abort is not fair). Nothing is assumed fair in the components, which
have safety properties only: their waits are for a student.

**Mutants.** Every property of a passing run has a mutated definition (in its
module, beside the definition it replaces) under which it fails: a take that
leaves the row, a restage that starts the clock again, a replay that ignores its
budget, a quota whose window opens with every request, a drop that keeps its pin,
and so on.

## Findings

The six violation runs are disagreements of the code with its own comments:

* `plan_ok_not_stored`: confirm_plan_change logs a failing persistSchedule and the
  route still answers ok; the comment on the what-if twin says both restage.
* `plan_deletion_race`: persistSchedule and persistPreferences insert the
  students row again, so a request in flight recreates a deleted account.
* `plan_refused_edit`: inside a turn an infeasible edit stays in
  `session.schedulePreferences` and is stored with the next confirmed one.
* `agent_lost_question`: compaction empties a conversation of at most seven
  messages (the array is returned, emptied, and pushed onto itself), and drops
  the user's message when more than six messages follow it.
* `asked_twice`: the cards of a turn are assistant messages without text behind its
  answer; the page sends them as history, the guard against asking twice reads the
  newest assistant message, which is the card, and asks again.
* `whatif_withdrawal`: a withdrawn (or failed) course keeps the type IP in the
  hypothetical report, and the solver still counts it as in progress.

Observed while modelling, without a run of their own.

*Plan and store.* An infeasible confirm uses up its id
(`planActionOrchestrator.ts:842` against `:742-745`); two overlapping persists
leave two live rows (`scheduleStore.ts:9-11`); the row loaded is the one computed
last and not the one stored last (`scheduleStorePostgres.ts:77` against
`scheduleStore.ts:137`); a refresh drops a report that differs only outside the
fingerprint (`refresh-dpr/route.ts:139-141`); a failing read of preferences or
profile lets the request overwrite the stored ones
(`planActionOrchestrator.ts:388-393`, `refresh-dpr/route.ts:152-170`); concurrent
writers of preferences do not merge; take() may call the owner a stranger when a
restage falls between its two statements (`pendingMutationStore.ts:307-317`).

*Agent and replies.* A reply rejected in the last iteration ends the turn as
max_turns without an answer; a compaction can keep a tool result without its
call; an abort during a model call is reported as a model error. The clarifying
question, the context-limit answer and errors are not written to the transcript
(`chatHistoryStore.ts:17-20`). The page keeps the last pending profile update of a
turn, the transcript the first. In the validator a course named right behind the
term of another one takes over that term ("a in f26 before b" blocks a true reply
about b), a negation earlier in a clause hides a later false placement, a number
is grounded by any longer number that contains it, a long quotation with one
real passage passes, and so do all block quotes less than 200 characters apart, one
of which has such a passage, since they are read as one
(`blockquoteAttribution.ts:74-108`).

*Profile.* A staged update can be confirmed only in its own request. A turn with an
old copy overwrites the fields another turn has stored; the page sends its own
visa status with every turn, so that a confirmed change is reverted by the next
message; a refresh that cannot read the profile replaces it by one made from the
report. The store's interface says a failure should not throw
(`profileStore.ts`), the Postgres store throws.

*Summaries and sign-in.* A summary stored between the two statements of another
trim is deleted (`sessionStorePostgres.ts:86-100` against the comment before it),
and get() reads the oldest rows when trims have failed. Two overlapping
verifications of one code both succeed; an older code is valid again once the
newer one is used; the row of a code is written before its mail is sent; a code
is used up when the secret is missing.

*Page and onboarding.* An error after some text replaces the text
(`page.tsx:719`); a late event can put an older plan over a confirmed newer one;
the success path of the confirm throws after the store has changed
(`page.tsx:1652`); the preferences of the wizard are dropped when the page is busy
(`page.tsx:965`); the preview of an intended major posts an empty report
(`page.tsx:836-853`); a late upload advances whatever step is shown
(`OnboardingWizard.tsx:282`); a refused dropped file sends a completed page back to
the upload. Every feasible proposal is shown with trade-offs, since the sentence
that the plan remains feasible counts as one (`reviewCard.ts:98-120`). After a
failed confirm a bubble shows its text again and not the message of the failure
(`page.tsx:1394` writes the one, line 2148 shows the other), and its streams stay
aborted, so that a half-read rewrite remains. An error after the first chunk leaves
the truncated rewrite, although the comment says that the template is kept
(`planActionBubbleHelpers.ts:230`). The signals are about the stored plan, not about
the proposal (`stage2/route.ts:109` calls it the proposed schedule). Of a course
listed twice only the first listing is compared (`scheduleDiff.ts:105`), and the
second gets no mark. The consequences of a change are read off the solver's
violations and the verdict off the validator, so that a card which can be confirmed
may say "Plan is infeasible"; the proposal of a chat turn has no field for what the
validator said, so its red card may be empty.

*Planner, calendar, sections, reports.* A deadline is over with the first instant of
its day (in UTC), although the comment calls the day inclusive
(`ipCourseChangeability.ts:288`, with the date of line 183). Swap and move keep the
pin of the course they drop (`planChangeHelpers.ts:320-355` against the comment at
296-312); move excludes the course from every term; a course that serves two
requirements may be placed, and listed, twice, in two terms. The corequisite check
reads one term per course, the last one placed (`constraintModel.ts:380-386`, read
at 481), so that a partial plan can fail it and its completion pass, and pruning can
lose the only valid plan of an exhausted search, contrary to `search.ts:32-33`. The
hard constraints are said to be those of the validator (`constraintModel.ts:9-19`),
but they leave out a requirement without candidates, which the validator refuses; a
course in progress that no term shows is counted by the constraints and not by the
validator; and a target outside the floor and the ceiling fills a term beyond them.
Local improvement may move a placeholder without asking whether its pool is offered
then; alternatives can become equal by improvement; a plan that breaks a pin is
labelled valid with trade-offs although it is not feasible. Combinations live in the
session of one request, so one picked in a later request is refused; a failed or
empty search is cached as well; times that cannot be read count as free of
conflicts. In a report a runner in front of a status line makes the requirement
satisfied under a warning that is only logged (`parser.ts:560`); a runner between a
counter and its table loses the table without one; a lost GPA reads as 0.000. J-Term
rows count as the oldest of the history (`runFullAudit.ts:575`). run_full_audit and
get_academic_standing can disagree about the same report, since the second computes
the GPA anew.

## What is proved

`PlanLifecycleProofs`, for every number of requests, proposals and reports and
every bound, from `Constants` alone:

* `TypeCorrect`: the typing `TypeOK`, by the inductive invariant `TypeInv`, which
  adds that a request at a step that uses its id has one.
* `SingleUseHolds`: `SingleUse` is not inductive on its own, since a propose that
  draws an id must know that nobody has it: `SingleInv` adds `Undrawn`, that an id
  not minted is nowhere. Then every step is of one of a few kinds (the request
  lets go of its proposal, hands it to the store, takes it, applies it, draws
  it), each with a lemma.
* `ConfirmedPlansFeasible`: by `FeasibleInv`, which carries the verdict from the
  solve to the commit, for a confirm and for a confirm inside a turn.
* `Refinement`: `Spec` implements `PlanLedger` under the mapping `LedgerStatus`,
  each action mapping to `Open`, `Apply`, `Close` or a stutter.
* `EditsSurvive`, `OnlyOutlivedRefill`, `LoneWriterRestores`: the three properties
  of `PlanHistory`, with no hypothesis but `Constants`: any number of overlapping
  requests, failures, crashes and sign-ins. The history variables are themselves
  subject to a small invariant (`WatchInv`), and each of the three properties needs
  to know more of a request than it says.
  `SurviveInv`: a copy of the preferences that may yet be written (`HasCopy`) carries
  every kept edit but those its report shows as completed, those it may not have seen
  and those already overwritten (`Carries`), and the edit being confirmed (`HasOwn`).
  `FoundedInv`: a request past its look at the report (`PastReport`) has one in the
  database, unless the account was deleted under it or its bootstrap failed.
  `LoneInv`: what a request knows, at each place, of rows, report and preferences as
  long as it is undisturbed (`LoneKnows`); every conjunct speaks of one request, and
  `UndisturbedBefore` says that the step before was its own.

`PendingMutationStoreProofs`, for every number of students, ids and requests,
every TTL, and both stores:

* `TypeCorrect` and `TtlAnchored`, from `DatedInv`: stored and held entries carry
  the date at which their id was minted, and a request that took an entry from
  the table began before that entry expired.
* `OneHolderHolds`, from `HolderInv` = `OneHolder` and `Undrawn`, in the same
  manner as above.
* `LeavesToItsOwner`: the action property `LeavesOnlyToItsOwner`, from `DatedInv`
  alone. A sweep runs at the date of the entry being staged and a take at the time
  its request began, neither later than the clock, so what they expire had no time
  left (`TimeLeft`); an insert only adds; the one statement that remains is a take
  by the owner.
* `Refinement`: this store, too, implements `PlanLedger` under `LedgerStatus`.

`AgentLoopProofs`, for every number of iterations, replays, recoveries, calls and
sizes, block and stream, from `Constants`:

* `TurnTypes`: `TypeInv` adds to `TypeOK` that an iteration is under way only below
  the limit and a tool only while a call is unanswered, which is what keeps the
  counters in their ranges.
* `TurnCost`: `CostInv` counts the requests of the current iteration (`Spent`) by
  the place where the loop waits.
* `AbortStopsTheTurn`: `AbortIsFinal`, from `AbortInv` on top of `TypeInv` and
  `CostInv`: how far the turn may stand from where it stood (`WhereItStands`), what it
  may still ask of the model from each place of a request (`WhatItAsks`, which counts
  the requests that are left as `CostInv` does), that no tool runs but the one that
  ran (`WhatItRuns`), and how it may end (`HowItEnded`).
* `TurnTranscript`: `TalkInv` is `Answered` (every call up to an iteration has its
  answer, but for the calls of this one that are still to do) and `Follows` (the
  conversation ends with the turn's messages, some shortened). The lemmas are
  about one push, about the budget for tool results, and about the compaction,
  which keeps a tail that begins anywhere.
* `StreamIsTheReply`: `StreamInv` says that before the end the stream holds paired
  tool events only, and that the rejected iterations are the replays spent.

`ConversationProofs`, for `SignIn` with any number of addresses, callers and
verifications:

* `SignInTypes`; `RedeemedCodes`, from `DeadInv`: what brought a session is marked,
  and so is what is about to bring one; `QuotaHolds`, from `QuotaInv`: a bucket of
  today has counted exactly what was served today. Midnight is the lemma that
  `t - t % d` never falls (`DaysPass`);
  that a select finds the newest usable row takes the well-foundedness of the
  numbers (`SmallestOf`).

The same module, for `SessionSummaries` with any number of turns and any window:

* `SummariesTypes`; `WindowHolds`, from `WindowInv`: a turn that has selected has
  selected all that the window must still hold when it deletes.

`PageProofs`, for any number of bubbles and frames, any length of a rewrite and any
lists of distinct terms, and for `ChatPage` with any number of frames, calls and
plans:

* `BubblesInvariant`; `BubbleTruth`, the action property, from it. What a bubble shows
  says nothing about what is still to come, so the invariant speaks of the inbox:
  its chunks go on where the text ends (`PolishInbox`), its signals where the told
  terms end (`SignalInbox`), an end or a failure is the last frame of a closed
  stream, and an answered bubble is aborted. A step changes one bubble and its
  streams (`PairChanges`), so that each lemma is about one pair.
* `EventsHold`. What has been handled says nothing about what is still to be read,
  so `StreamInv` says that buffer and wire together are, part by part, the frames
  behind those handled (`FramesFrom`). A read moves parts from one to the other
  (`ReadKeeps`), a write adds four (`WriteKeeps`), and the first separator of the
  buffer is its fourth part (`FirstBlock`).
* `WorkspaceHolds`. `StoreIsWell` adds that every id is below the next one and
  belongs to one scenario, and that the remembered previews are the proposals, so
  that dropping them leaves none (`DroppedIsWell`) and a reply to a confirm finds
  none left to confirm (`ConfirmedIsWell`). Each operation of the store keeps it
  (lemmas in `IsWell`); that a plan in a frame is a stored one rests on `StreamInv`.

The same module, for `ChatReply` with any messages and replies, for
`ProfileSync` with any turns, rounds and values, and for `Onboarding` with any
number of picks, uploads, replies and plans:

* `TypeCorrect` and `TranscriptShown`, for any number of pages and overlapping turns.
  `TranscriptInv` says it of each entry of the table (`Tells`) and of each page
  (`Shows`), of the order of the table (`Ordered`: an answer is behind its question,
  and of two entries in the wrong order the turns were under way together), and that a
  turn between its two appends has its question there and nothing else (`Halfway`).
* `ProfileInvariant` and `ProfileAudited`. The action property speaks of a store by
  a turn that knows the stored row, so the invariant says what a turn knows: its
  copy differs from what it has read only in fields its own body has sent
  (`KnowsIt`), a staged update is of one field, and a stored row was written by one
  of the four writers (`StoredByUs`), a refresh included (`RefreshInv`).
* `HandOverHolds`. `ValuesInv` says that what the wizard holds is what was picked
  in it; `ReportInv` that past the upload the page has a report, and so has every
  reply that was asked for there; `HandInv` that each plan of the page is handed
  over by one thread of turns at most. The turns of a plan are counted in what was
  posted, so a turn for another plan leaves the count alone (`OtherTurn`) and the
  next turn is the next of the list (`NextTurn`).

And for `ReplyValidator` with any statements, results of tools and questions:

* `PassedRepliesAreGrounded`: a reply that passes has no number without a source in
  the turn, but for a hedged estimate, and no quotation without a passage that was
  found, but for block quotes close to one, of which one must have it. `JudgedInv` says
  that a reply is judged as it stands and that a quotation, and a group of block
  quotes, keeps its passages when replies are put together (`QuotedTogether`). It is
  the first conjunct of `VerdictIsJust`.

The assumptions name what the instance gives: the shapes of a reply
(`RepliesAssumption`), that a quotation is followed by the passages it is looked for
by and the distances are numbers (`ValidatorAssumption`), that a request to change
the profile names a field of it and that the refresh is no chat turn
(`ProfileAssumption`), and that a report has a name (`OnboardingAssumption`).

`PlanningProofs`, for `PlanEdits` with any report, window, edits and what-ifs, and
for `IpCalendar` with any school, rows and days:

* `EditsInvariant`, `DropsStick`, `BindsArePlaced`. A drop sticks because what was
  dropped is excluded and no pin stands in its way (`StaysDropped`), and a plan
  only plans an excluded course where it is pinned (`Drawn`); a what-if changes a
  copy of the report and neither of the two. An accepted bind is placed because the
  preview was of a slot of the plan that is there when it is confirmed
  (`PreviewHolds`).
* `WindowNarrows`. `EnrolledTerm` says which term is taken for the current one
  (the earliest not before the clock, else the last; that there is one takes the
  well-ordering of the numbers, `NatMinimum`), `RowsGoBy` that a row which is over
  stays over and the current one does not come to be a future one as the clock
  moves (`SessionsGoOn`), `CurrentNarrows` that within the current term the
  deadlines only pass.

* `ProposalsHold`, for any listings, terms and times: the cache holds what was
  listed when it was fetched, one lifetime before it expires (`CacheInv`), so that
  every answer of the call under way was listed less than a lifetime before the call
  began (`CallInv`), however long it has waited since; that a
  combination has one section of each course and meets the strict wishes follows
  the enumeration course by course.
* `ComparisonHolds`, for any plans the engine may send, whether solver and validator
  agree about them or not. `ViewsInv` keeps with a
  proposal what is said of it until it is answered; below it are the home of a
  course (the place it is listed first, found by counting places), the sums of
  credits of the two plans, and the first places of the red card.

The assumptions are those of the code's types: an edit has the fields of a
`PlanMutation` (`EditsAssumption`); terms have a season the parser knows, and the
moments go by in order (`DaysAssumption`); what the class search lists
and the plans the page is sent are lists, their credits numbers, and a plan is a draft
exactly if the validator refuses it (`SectionsAssumption`, `ViewsAssumption`).

`PlannerProofs`, for every problem of the type `IsProblem`, every node budget and
any number of kept plans, alternatives, passes and extensions
(`PlannerAssumption`):

* `SearchIsHonestHolds`. What has been found says nothing about what is still to be
  visited, so the invariant speaks of every leaf of the reference definition: it is
  still ahead of the stack (`Pending`) or accounted for, because it is one of the
  best kept, or no better than any of them, or of a kind already found (`Covered`).
  `StackInv` keeps the values left for a variable legal and distinct. A value that
  is pruned leaves no valid leaf behind, since every prefix of a valid plan passes
  the incremental checks (`PruningLosesNothing`). That the kept ones stay the best
  takes a total order of scores and keys (`ScoresAreOrdered`, `KeysAreTransitive`)
  and what replacing the worst does to a list (`WorstIsWorst`, `KeepingTheBest`).
  `HorizonInv` says that the schedules built are for later and later terms and that
  all but the last were refused.
* `ImprovementIsSoundHolds`, from the guards of a pass and from what its moves leave
  alone (`MovesKeepTheRest`).
* `ConstraintsMirrorHolds`: a plan that passes the hard constraints gives a schedule
  that passes the axes of the validator they stand for. `GroundInv` says that every
  plan the search keeps, improves or materialises is made of placements of the
  problem (`AllGrounded`). Materialisation adds to the slots of a plan and takes none
  away (`Grown`, `ScheduleSteps`), so that the credits of a schedule are those of the
  plan and of the padding (`PlacedWeighs`, where a sum over the plan becomes a sum
  over terms by `SumByPlace`), and the padding fills one term after another within
  its limits (`FilledIsWithinLimits`, `NoTermIsBroken`). What the solve itself
  reports is nothing the visa axis refuses (`SolveIsHarmless`). `SchedulesMirror` puts
  these together, axis by axis.

`ListProofs` holds what these three need of lists: recursion over a list is defined
(`FiniteRecursion`) and what holds of the empty list and passes from one length to
the next holds of all (`FiniteInduction`), both for functions, by the least
counterexample instead of the library's schemes; a filter keeps the order and just
the elements asked for, a sort permutes (`SortPermutes`), a sum splits at any place
and over any partition.

The hypotheses of the two planner properties are what the proofs found missing in
the comments of the code; each is necessary, as TLC shows when it is dropped.
`NothingIsMissed` is about plans that place no course in two terms (`WellFormed`), and
`ConstraintsMirrorValidator` asks for `IpsAreShown` and, for the axes of requirements
and of the visa, for `OpenAreBindable`, `AllAreBindable` and `TargetsAreLegal` (see the
observations on the planner).

Checked by TLC only:

* liveness (`EveryRequestEnds`, `RefreshBringsAPlan`, `TurnEnds`): out of the
  prover's reach;
* `ReportReadsAsPrinted`: that parsing is the inverse of printing with a page break
  at any line is a statement about folds of a state over all the lines of a report,
  with operators as arguments, and needs an induction over printed reports;
* `AnswersMatchTheReport`, which rests on it: the answers are compared with what was
  printed;
* the other two conjuncts of `VerdictIsJust`, that a true reply is not blocked for
  what it says of the plan (but for a course that stands behind another one's term)
  and that a false claim that is plainly said does not pass (one course and a term
  close to it, or a graduation term with no course about: a course beside the term
  lets a wrong graduation pass, the validator's known limit M-1): they relate tokens
  to what a statement means, which only the constants define, and for statements
  made of other tokens than these they are false.

## Not modelled

Retrieval, prompts, vendor adapters, logging, the evaluation harnesses and the
batch pipelines: no state a checker would find anything in, or pure I/O. Of the
text handling, the regular expressions themselves: `DprReport` and `ReplyValidator`
begin where a line or a token has been recognised. Rendering. Tools that only
look something up. simulateAlternatives, reconcileWithDpr, replace() and
clearForStudent() have no caller in the application. A deletion of the account in the
middle of a turn is in `PlanLifecycle`, `ProfileSync` and `SessionSummaries` and not
in `ChatReply`. The solver of `PlanEdits` is what the plans of `ForwardPlanner` have
in common and not the search itself, and `PlanLifecycle` takes its verdict as a
free choice. One student stands for all, since no table shares rows between
students (the tenant check of the pending store is in `PendingMutationStore`).
