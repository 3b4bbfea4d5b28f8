----------------------------- MODULE AgentLoop -----------------------------
(***************************************************************************)
(* One turn of the advisor: runAgentTurn ("block") and its generator       *)
(* runAgentTurnStreaming ("stream") in agentLoop.ts, with the context      *)
(* rules of loopState.ts.  The model, the tools, the summarizer and the    *)
(* response validator answer as they please; the user may abort any time.  *)
(*                                                                         *)
(* What runs between two awaits is one step.  A message is its role, the   *)
(* iteration it comes from, its size and the number of tool calls it makes;*)
(* sizes are counted in units of a short message.                          *)
(***************************************************************************)
EXTENDS Integers, Sequences, FiniteSets, FiniteSetsExt, SequencesExt

CONSTANTS
    Modes,              \* subset of {"block", "stream"}
    MaxTurns,           \* maxTurns: rounds model -> tools -> model
    ReplayLimit,        \* validatorReplayLimit
    RecoveryLimit,      \* outputTruncationRecoveryLimit (block only)
    Fallbacks,          \* subset of BOOLEAN: a fallback client is configured
    Priors,             \* bound: how many messages precede the turn
    MaxCalls,           \* bound: tool calls of one completion
    ToolSizes,          \* bound: sizes of tool results
    Window,             \* windowTokens
    ToolBudget,         \* MAX_TOOL_RESULT_BUDGET
    KeepRecent,         \* TOOL_RESULT_KEEP_RECENT
    KeepTrailing        \* keepTrailing of compactConversation

ASSUME Constants ==
    /\ Modes \subseteq {"block", "stream"}
    /\ {MaxTurns, ReplayLimit, RecoveryLimit, MaxCalls, Window, ToolBudget,
        KeepRecent, KeepTrailing} \subseteq Nat
    /\ Fallbacks \subseteq BOOLEAN
    /\ Priors \subseteq Nat
    /\ ToolSizes \subseteq Nat \ {0}

VARIABLES
    mode,               \* which of the two functions runs
    hasFallback,        \* options.fallbackClient is there
    aborted,            \* options.signal.aborted
    conv,               \* conversation, what the model is sent
    said,               \* turnMessages, what the caller stores
    at,                 \* where the turn awaits, or "top", "done"
    turn,               \* the loop counter
    replays,            \* validatorReplaysRemaining
    recoveries,         \* outputTruncationRecoveriesRemaining
    reactive,           \* hasAttemptedReactiveCompact
    fired,              \* hasFiredTier2Compaction
    todo,               \* tool calls of the last completion not yet answered
    attempt,            \* the attempt executeTool is at
    isReplay,           \* nextTurnIsReplay, read for this iteration
    out,                \* the events yielded (stream only)
    result,             \* kind of the ChatTurnResult
    cost,               \* model and summarizer requests so far
    rejected            \* iterations whose reply the validator rejected

options == <<mode, hasFallback>>
context == <<conv, said, fired, reactive>>
budgets == <<replays, recoveries, isReplay, rejected>>
tools == <<todo, attempt>>
vars == <<options, aborted, context, budgets, tools, at, turn, out, result, cost>>

Message(role, size, calls) ==
    [role |-> role, turn |-> turn, size |-> size, calls |-> calls]
Short == 1

Init ==
    /\ mode \in Modes
    /\ hasFallback \in Fallbacks
    /\ aborted = FALSE
    /\ \E n \in Priors :
          conv = [i \in 1 .. n + 1 |->
                    [role |-> IF i <= n THEN "prior" ELSE "user",
                     turn |-> 0, size |-> Short, calls |-> 0]]
    /\ said = <<[role |-> "user", turn |-> 0, size |-> Short, calls |-> 0]>>
    /\ at = "top"
    /\ turn = 0
    /\ replays = ReplayLimit
    /\ recoveries = RecoveryLimit
    /\ reactive = FALSE
    /\ fired = FALSE
    /\ todo = 0
    /\ attempt = 0
    /\ isReplay = FALSE
    /\ out = <<>>
    /\ result = "none"
    /\ cost = 0
    /\ rejected = {}

-----------------------------------------------------------------------------
(* Context pressure and what is done about it.                             *)

SizeOf(messages, S) == MapThenSumSet(LAMBDA i : messages[i].size, S)
Estimate == SizeOf(conv, DOMAIN conv)
Tier2 == 100 * Estimate >= 80 * Window
Tier3 == 100 * Estimate >= 95 * Window

ToolIdxs(messages) == {i \in DOMAIN messages : messages[i].role = "tool"}

\* enforceToolResultBudget: above the budget, the long results are shortened
\* from the oldest on until the rest fits; the most recent ones stay whole.
EnforceToolResultBudget(messages) ==
    LET idxs == ToolIdxs(messages)
        older == {i \in idxs : Cardinality({j \in idxs : j >= i}) > KeepRecent}
        long == {i \in older : messages[i].size > Short}
        Saved(S) == SizeOf(messages, S) - Short * Cardinality(S)
        Fits(S) == SizeOf(messages, idxs) - Saved(S) <= ToolBudget
        shrunk == {i \in long : ~Fits({j \in long : j < i})}
    IN  [i \in DOMAIN messages |->
            IF i \in shrunk THEN [messages[i] EXCEPT !.size = Short]
                            ELSE messages[i]]

\* compactConversation and the swap of its caller.  A conversation that is
\* not longer than the tail is returned as it is, the same array, which the
\* caller has emptied by the time it pushes it back.
Compacted(messages) ==
    IF Len(messages) <= KeepTrailing + 1
      THEN <<>>
      ELSE <<Message("system", Short, 0)>>
             \o SubSeq(messages, Len(messages) - KeepTrailing + 1, Len(messages))

-----------------------------------------------------------------------------
(* Ending the turn.                                                        *)

Yield(events) == out' = IF mode = "stream" THEN out \o events ELSE out

Event(kind) == [kind |-> kind, turn |-> turn]

Finish(kind, events) ==
    /\ at' = "done"
    /\ result' = kind
    /\ Yield(Append(events, Event("done")))

-----------------------------------------------------------------------------
(* The top of the loop.                                                    *)

MaxTurnsReached ==
    /\ at = "top" /\ turn = MaxTurns
    /\ Finish("max_turns", <<>>)
    /\ UNCHANGED <<options, aborted, context, budgets, tools, turn, cost>>

TopAborted ==
    /\ at = "top" /\ turn < MaxTurns
    /\ aborted
    /\ Finish("aborted", <<>>)
    /\ UNCHANGED <<options, aborted, context, budgets, tools, turn, cost>>

ContextLimit ==
    /\ at = "top" /\ turn < MaxTurns
    /\ ~aborted /\ Tier3
    /\ Finish("context_limit", <<Event("text")>>)
    /\ UNCHANGED <<options, aborted, context, budgets, tools, turn, cost>>

Compacts == Tier2 /\ ~fired /\ hasFallback

\* The summarizer is asked only about a conversation longer than the tail.
AsksSummarizer == Len(conv) > KeepTrailing + 1

StartCompaction ==
    /\ at = "top" /\ turn < MaxTurns
    /\ ~aborted /\ ~Tier3 /\ Compacts
    /\ at' = "compact"
    /\ cost' = IF AsksSummarizer THEN cost + 1 ELSE cost
    /\ UNCHANGED <<options, aborted, context, budgets, tools, turn, out, result>>

StartCall ==
    /\ at = "top" /\ turn < MaxTurns
    /\ ~aborted /\ ~Tier3 /\ ~Compacts
    /\ conv' = EnforceToolResultBudget(conv)
    /\ at' = "primary"
    /\ cost' = cost + 1
    /\ UNCHANGED <<options, aborted, said, fired, reactive, budgets, tools, turn,
                   out, result>>

\* tryTier2Compact: a summarizer that fails leaves the conversation alone.
CompactionDone ==
    /\ at = "compact"
    /\ \/ /\ conv' = EnforceToolResultBudget(Compacted(conv))
          /\ fired' = TRUE
       \/ /\ AsksSummarizer
          /\ conv' = EnforceToolResultBudget(conv)
          /\ UNCHANGED fired
    /\ at' = "primary"
    /\ cost' = cost + 1
    /\ UNCHANGED <<options, aborted, said, reactive, budgets, tools, turn, out,
                   result>>

-----------------------------------------------------------------------------
(* A completion has arrived.                                               *)

\* Mutant: a message is pushed to the conversation only.
PushConversationOnly(messages) ==
    conv' = conv \o messages /\ UNCHANGED said

\* conversation.push and turnMessages.push.
Push(messages) == conv' = conv \o messages /\ said' = said \o messages

Assistant(calls) == Message("assistant", Short, calls)

\* Mutant: a replay is queued whatever is left of the budget.
ReplayAlways == TRUE

ReplayLeft == replays > 0

\* Mutant: the text is shown before the validator has seen it.
ShowDraft == Yield(<<Event("text")>>)

\* The buffers of a rejected reply are dropped.
DropBuffers == UNCHANGED out

\* The validator rejects a reply and a replay is left: the model is told and
\* asked again (maybeQueueValidatorReplay).
Replay ==
    /\ ReplayLeft
    /\ replays' = replays - 1
    /\ isReplay' = TRUE
    /\ rejected' = rejected \cup {turn}
    /\ Push(<<Assistant(0), Message("system", Short, 0)>>)
    /\ DropBuffers
    /\ at' = "top"
    /\ turn' = turn + 1
    /\ UNCHANGED <<result, tools, recoveries>>

\* A text-only reply ends the turn; what the stream held back is shown now.
FinalReply(ok) ==
    /\ ok \/ ~ReplayLeft
    /\ rejected' = IF ok THEN rejected ELSE rejected \cup {turn}
    /\ Push(<<Assistant(0)>>)
    /\ isReplay' = FALSE
    /\ Finish("ok", IF isReplay THEN <<Event("text")>>
                                ELSE <<Event("thinking"), Event("text")>>)
    /\ UNCHANGED <<turn, tools, replays, recoveries>>

ToolCalls(n) ==
    /\ Push(<<Assistant(n)>>)
    /\ isReplay' = FALSE
    /\ todo' = n
    /\ at' = "tools"
    /\ UNCHANGED <<turn, attempt, replays, recoveries, rejected, out, result>>

\* Mutant: a truncated reply is asked for again without a limit.
RecoveryAlways == TRUE

RecoveryLeft == recoveries > 0

\* finish_reason "length": ask for the rest, as long as recoveries are left.
Recover ==
    /\ mode = "block" /\ RecoveryLeft
    /\ recoveries' = recoveries - 1
    /\ at' = "recover"
    /\ cost' = cost + 1
    /\ UNCHANGED <<turn, conv, said, tools, replays, isReplay, rejected, out,
                   result>>

Completed ==
    \/ /\ \/ Replay
          \/ \E ok \in BOOLEAN : FinalReply(ok)
          \/ \E n \in 1 .. MaxCalls : ToolCalls(n)
       /\ UNCHANGED cost
    \/ Recover

-----------------------------------------------------------------------------
(* Calling the model.                                                      *)

Fail == Finish("model_error", <<>>)

\* A client answers.
ModelAnswers ==
    /\ at \in {"primary", "retried", "again", "fallback", "recover",
               "recoverFallback"}
    /\ Completed
    /\ UNCHANGED <<options, aborted, fired, reactive>>

NextCall(where) ==
    /\ at' = where
    /\ cost' = cost + 1
    /\ UNCHANGED <<out, result>>

GiveUp == Fail /\ UNCHANGED cost

\* The primary client fails: the block loop starts callWithFallback, which asks
\* the primary again; the stream goes to the fallback at once.
PrimaryFails ==
    /\ at = "primary"
    /\ IF mode = "block" THEN NextCall("again")
       ELSE IF hasFallback THEN NextCall("fallback") ELSE GiveUp
    /\ UNCHANGED <<options, aborted, context, budgets, tools, turn>>

\* context_length_exceeded: compact once per turn and ask again.
PrimaryTooLong ==
    /\ at = "primary"
    /\ mode = "block" /\ ~reactive /\ hasFallback
    /\ NextCall("reactive")
    /\ UNCHANGED <<options, aborted, context, budgets, tools, turn>>

ReactiveDone ==
    /\ at = "reactive"
    /\ \/ /\ conv' = Compacted(conv)
          /\ fired' = TRUE
          /\ reactive' = TRUE
          /\ NextCall("retried")
       \/ /\ AsksSummarizer
          /\ NextCall("again")
          /\ UNCHANGED <<conv, fired, reactive>>
    /\ UNCHANGED <<options, aborted, said, budgets, tools, turn>>

RetriedFails ==
    /\ at = "retried"
    /\ NextCall("again")
    /\ UNCHANGED <<options, aborted, context, budgets, tools, turn>>

AgainFails ==
    /\ at = "again"
    /\ IF hasFallback THEN NextCall("fallback") ELSE GiveUp
    /\ UNCHANGED <<options, aborted, context, budgets, tools, turn>>

FallbackFails ==
    /\ at \in {"fallback", "recoverFallback"}
    /\ GiveUp
    /\ UNCHANGED <<options, aborted, context, budgets, tools, turn>>

\* A recovery that fails ends the turn: the text so far is lost.
RecoverFails ==
    /\ at = "recover"
    /\ IF hasFallback THEN NextCall("recoverFallback") ELSE GiveUp
    /\ UNCHANGED <<options, aborted, context, budgets, tools, turn>>

-----------------------------------------------------------------------------
(* Running the tools of a completion, one after the other.                 *)

\* The loop goes on with the next call, or with the next iteration.
NextTool ==
    /\ todo' = todo - 1
    /\ attempt' = 0
    /\ IF todo = 1 THEN at' = "top" /\ turn' = turn + 1
                   ELSE at' = "tools" /\ UNCHANGED turn

PushToolMessage(size) == Push(<<Message("tool", size, 0)>>)

ToolsAborted ==
    /\ at = "tools"
    /\ aborted
    /\ Finish("aborted", <<>>)
    /\ UNCHANGED <<options, aborted, context, budgets, tools, turn, cost>>

\* An unknown tool, arguments that do not parse, a validateInput that says no:
\* the model is told.
ToolRejected ==
    /\ at = "tools" /\ ~aborted
    /\ PushToolMessage(Short)
    /\ NextTool
    /\ Yield(<<Event("toolStart"), Event("toolDone")>>)
    /\ UNCHANGED <<options, aborted, fired, reactive, budgets, result, cost>>

ToolStarts ==
    /\ at = "tools" /\ ~aborted
    /\ at' = "tool"
    /\ attempt' = 1
    /\ Yield(<<Event("toolStart")>>)
    /\ UNCHANGED <<options, aborted, context, budgets, todo, turn, result, cost>>

\* validateInput passed, but the signal fired meanwhile or in the backoff.
ToolAborted ==
    /\ at = "tool" /\ aborted
    /\ PushToolMessage(Short)
    /\ NextTool
    /\ Yield(<<Event("toolDone")>>)
    /\ UNCHANGED <<options, aborted, fired, reactive, budgets, result, cost>>

ToolCalled ==
    /\ at = "tool" /\ ~aborted
    /\ at' = "calling"
    /\ UNCHANGED <<options, aborted, context, budgets, tools, turn, out, result,
                   cost>>

\* The tool returns or throws for good.
ToolReturns ==
    /\ at = "calling"
    /\ \E size \in ToolSizes : PushToolMessage(size)
    /\ NextTool
    /\ Yield(<<Event("toolDone")>>)
    /\ UNCHANGED <<options, aborted, fired, reactive, budgets, result, cost>>

\* Mutant: the attempts are not counted.
ToolTransientForever ==
    /\ at = "calling" /\ attempt = 1
    /\ at' = "tool"
    /\ UNCHANGED <<options, aborted, context, budgets, tools, turn, out, result,
                   cost>>

\* Mutant: the second attempt does not look at the signal.
ToolTransientAtOnce ==
    /\ at = "calling" /\ attempt = 1
    /\ attempt' = 2
    /\ UNCHANGED <<options, aborted, context, budgets, todo, at, turn, out, result,
                   cost>>

\* A transient error of the first attempt: back off, try once more.
ToolTransient ==
    /\ at = "calling" /\ attempt = 1
    /\ at' = "tool"
    /\ attempt' = 2
    /\ UNCHANGED <<options, aborted, context, budgets, todo, turn, out, result,
                   cost>>

-----------------------------------------------------------------------------

\* The user closes the stream.
Abort ==
    /\ ~aborted /\ at # "done"
    /\ aborted' = TRUE
    /\ UNCHANGED <<options, context, budgets, tools, at, turn, out, result, cost>>

LoopStep ==
    \/ MaxTurnsReached \/ TopAborted \/ ContextLimit \/ StartCompaction
    \/ StartCall \/ CompactionDone
    \/ ModelAnswers \/ PrimaryFails \/ PrimaryTooLong \/ ReactiveDone
    \/ RetriedFails \/ AgainFails \/ FallbackFails \/ RecoverFails
    \/ ToolsAborted \/ ToolRejected \/ ToolStarts \/ ToolAborted \/ ToolCalled
    \/ ToolReturns \/ ToolTransient

Done == at = "done" /\ UNCHANGED vars

Next == LoopStep \/ Abort \/ Done

\* Every request to the model, a tool or the summarizer returns or throws.
Spec == Init /\ [][Next]_vars /\ WF_vars(LoopStep)

-----------------------------------------------------------------------------
(* Properties.                                                             *)

Awaits == {"compact", "primary", "reactive", "retried", "again", "fallback",
           "recover", "recoverFallback", "tool", "calling"}

\* The variables hold what their declarations say; budgets never go below 0.
TypeOK ==
    /\ mode \in {"block", "stream"}
    /\ {hasFallback, aborted, reactive, fired, isReplay} \subseteq BOOLEAN
    /\ at \in Awaits \cup {"top", "tools", "done"}
    /\ turn \in 0 .. MaxTurns
    /\ replays \in 0 .. ReplayLimit
    /\ recoveries \in 0 .. RecoveryLimit
    /\ todo \in 0 .. MaxCalls
    /\ attempt \in 0 .. 2
    /\ rejected \subseteq 0 .. MaxTurns - 1
    /\ result \in {"none", "ok", "max_turns", "aborted", "model_error",
                   "context_limit"}

\* The model client is being asked with the conversation.
Asking == at \in {"primary", "retried", "again", "fallback"}

\* The conversation keeps every tool call with its answer: whenever the model
\* is asked, a call it made, and that is still there, has its tool message (no
\* early exit of a tool's run, unknown, rejected, aborted, retried, leaves one
\* dangling); and unless it was compacted it is what came before the turn and
\* then, message by message, what the caller stores as the turn, where only
\* tool results may be longer.
TranscriptComplete ==
    /\ Asking => \A i \in DOMAIN conv :
          conv[i].role = "assistant" =>
              Cardinality({j \in DOMAIN conv : /\ conv[j].role = "tool"
                                               /\ conv[j].turn = conv[i].turn
                                               /\ j > i}) = conv[i].calls
    /\ ~fired =>
          LET before == Len(conv) - Len(said)
          IN  /\ before >= 0
              /\ \A i \in DOMAIN said :
                    /\ conv[before + i].role = said[i].role
                    /\ conv[before + i].turn = said[i].turn
                    /\ conv[before + i].size <= said[i].size

\* A turn never asks more than five requests an iteration, one more for its
\* reactive compaction and two for each recovery, whatever fails.
CostBounded == cost <= 5 * turn + 6 + 2 * RecoveryLimit

\* The stream shows the text of one iteration, the last one, after the
\* validator had its say, and never the thinking of a replay; one "done" ends
\* it, and every tool it announced has finished unless the user aborted.  A
\* rejected reply is the answer only after all replays were used, and no more
\* replies are thrown away than there are replays.
StreamShowsOnlyTheReply ==
    LET Of(kind) == {i \in DOMAIN out : out[i].kind = kind}
    IN  /\ \A i \in Of("text") \cup Of("thinking") :
              result \in {"ok", "context_limit"} /\ out[i].turn = turn
        /\ \A i \in Of("thinking") : turn - 1 \notin rejected
        /\ \A i \in Of("done") : i = Len(out)
        /\ (mode = "stream" /\ at = "done") = (Of("done") # {})
        /\ at = "done" =>
              Cardinality(Of("toolStart")) = Cardinality(Of("toolDone"))
        /\ result = "ok" /\ turn \in rejected => replays = 0
        /\ Cardinality(rejected \ (IF at = "done" THEN {turn} ELSE {}))
             <= ReplayLimit

\* Every turn ends with a result.
TurnEnds == <>(at = "done")

\* "The most recent user message and the last K turns stay verbatim": the
\* model always sees the question it is to answer.
QuestionIsAsked ==
    Asking => \E i \in DOMAIN conv : conv[i].role = "user"
=============================================================================
