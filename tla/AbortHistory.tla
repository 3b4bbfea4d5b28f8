---------------------------- MODULE AbortHistory ----------------------------
(***************************************************************************)
(* AgentLoop watched by a history variable that remembers where the turn   *)
(* stood when the user closed the stream.  The loop looks at the signal at *)
(* three places only (the head of an iteration, of a tool call, of an      *)
(* attempt); what runs between them goes on: a request that fails because  *)
(* it was aborted is repeated and sent to the fallback like any other      *)
(* failed request, and an answer that still arrives is the reply.          *)
(***************************************************************************)
EXTENDS AgentLoop

VARIABLE
    then                \* at the abort: where, and what had been used

watchedVars == <<vars, then>>

NotYet == [at |-> "none", turn |-> 0, todo |-> 0, attempt |-> 0, cost |-> 0,
           recoveries |-> 0]

\* Remembered in the step of the abort.
ThenAfter ==
    IF ~aborted /\ aborted'
      THEN [at |-> at, turn |-> turn, todo |-> todo, attempt |-> attempt,
            cost |-> cost, recoveries |-> recoveries]
      ELSE then

WatchedInit == Init /\ then = NotYet

WatchedStep == LoopStep /\ then' = ThenAfter

WatchedNext == Next /\ then' = ThenAfter

WatchedSpec == WatchedInit /\ [][WatchedNext]_watchedVars /\ WF_watchedVars(WatchedStep)

-----------------------------------------------------------------------------
(* Properties.                                                             *)

AsksTheModel == Awaits \ {"tool", "calling"}

\* What an abort still lets happen (agentLoop.ts, the signal at the head of an
\* iteration, of a tool call and of an attempt).  No further iteration works.
\* Outside of a request to the model nothing more is asked of it; within one,
\* at most the retries of this request and the recoveries that were left.  The
\* only tool that may be running is the one that ran at the abort, in the same
\* attempt: no other call of the completion and no second attempt after a
\* backoff.  A reply is given only if the model was being asked, and only a
\* turn that loses its last request, or that is past its last iteration, ends
\* otherwise than as aborted.
AbortIsFinal ==
    aborted =>
        /\ \/ turn = then.turn
           \/ turn = then.turn + 1 /\ at \in {"top", "done"}
        /\ cost <= then.cost + (IF then.at \in AsksTheModel
                                  THEN 5 + 2 * then.recoveries ELSE 0)
        /\ at = "calling" =>
              /\ then.at = "calling"
              /\ todo = then.todo /\ attempt = then.attempt
        /\ at = "done" /\ result # "aborted" =>
              \/ result \in {"ok", "model_error"} /\ then.at \in AsksTheModel
              \/ result = "max_turns" /\ turn = MaxTurns
=============================================================================
