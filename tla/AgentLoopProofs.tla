--------------------------- MODULE AgentLoopProofs ---------------------------
(***************************************************************************)
(* One turn of the advisor, for any limits, windows and tail lengths.       *)
(***************************************************************************)
EXTENDS AbortHistory, FiniteSetTheorems, TLAPS

InTools == at \in {"tools", "tool", "calling"}

Flags == <<hasFallback, aborted, reactive, fired, isReplay>>

FlagsTyped ==
  /\ hasFallback \in BOOLEAN /\ aborted \in BOOLEAN /\ reactive \in BOOLEAN
  /\ fired \in BOOLEAN /\ isReplay \in BOOLEAN

\* The rest of TypeOK, and what keeps the counters inside their ranges: an
\* iteration is under way only below the limit, a tool while a call is unanswered.
LoopTyped ==
  /\ mode \in {"block", "stream"}
  /\ at \in Awaits \cup {"top", "tools", "done"}
  /\ turn \in 0 .. MaxTurns
  /\ replays \in 0 .. ReplayLimit
  /\ recoveries \in 0 .. RecoveryLimit
  /\ todo \in 0 .. MaxCalls
  /\ attempt \in 0 .. 2
  /\ rejected \subseteq 0 .. MaxTurns - 1
  /\ result \in {"none", "ok", "max_turns", "aborted", "model_error", "context_limit"}
  /\ at \notin {"top", "done"} => turn < MaxTurns
  /\ InTools => todo >= 1

TypeInv == FlagsTyped /\ LoopTyped

LEMMA TypeInvImplies == TypeInv => TypeOK
  BY DEF TypeInv, FlagsTyped, LoopTyped, TypeOK

LEMMA Limits ==
    /\ MaxTurns \in Nat /\ ReplayLimit \in Nat /\ RecoveryLimit \in Nat /\ MaxCalls \in Nat
    /\ Window \in Nat /\ ToolBudget \in Nat /\ KeepRecent \in Nat /\ KeepTrailing \in Nat
    /\ Modes \subseteq {"block", "stream"} /\ Fallbacks \subseteq BOOLEAN
    /\ Priors \subseteq Nat /\ ToolSizes \subseteq Nat \ {0}
  BY Constants

LEMMA TypeInit == Init => TypeInv
  <1> SUFFICES ASSUME Init PROVE TypeInv
    OBVIOUS
  <1>1. FlagsTyped
    BY Limits DEF Init, FlagsTyped
  <1>2. /\ mode \in Modes /\ at = "top" /\ turn = 0 /\ replays = ReplayLimit /\ recoveries = RecoveryLimit
        /\ todo = 0 /\ attempt = 0 /\ rejected = {} /\ result = "none"
    BY DEF Init
  <1>3. LoopTyped
    BY <1>2, Limits DEF LoopTyped, Awaits, InTools
  <1> QED
    BY <1>1, <1>3 DEF TypeInv

LEMMA FlagsNext == FlagsTyped /\ [Next]_vars => FlagsTyped'
  <1> SUFFICES ASSUME FlagsTyped, [Next]_vars PROVE FlagsTyped'
    OBVIOUS
  <1>1. CASE ModelAnswers
    <2>1. isReplay' \in {TRUE, FALSE, isReplay} /\ UNCHANGED <<hasFallback, aborted, fired, reactive>>
      BY <1>1 DEF ModelAnswers, Completed, Replay, FinalReply, ToolCalls, Recover, options
    <2> QED
      BY <2>1 DEF FlagsTyped
  <1>2. CASE CompactionDone \/ ReactiveDone
    <2>1. /\ fired' \in {TRUE, fired} /\ reactive' \in {TRUE, reactive}
          /\ UNCHANGED <<hasFallback, aborted, isReplay>>
      BY <1>2 DEF CompactionDone, ReactiveDone, options, budgets
    <2> QED
      BY <2>1 DEF FlagsTyped
  <1>3. CASE Abort
    BY <1>3 DEF Abort, FlagsTyped, options, context, budgets
  <1>4. ASSUME UNCHANGED Flags PROVE FlagsTyped'
    BY <1>4 DEF Flags, FlagsTyped
  <1>5. CASE Done \/ UNCHANGED vars
    BY <1>4, <1>5 DEF Done, vars, Flags, options, context, budgets
  <1>6. CASE LoopStep /\ ~ModelAnswers /\ ~CompactionDone /\ ~ReactiveDone
    <2>1. UNCHANGED Flags
      BY <1>6 DEF LoopStep, Flags, options, context, budgets, MaxTurnsReached, TopAborted, ContextLimit,
                  StartCompaction, StartCall, PrimaryFails, PrimaryTooLong, RetriedFails, AgainFails,
                  FallbackFails, RecoverFails, ToolsAborted, ToolRejected, ToolStarts, ToolAborted,
                  ToolCalled, ToolReturns, ToolTransient
    <2> QED
      BY <1>4, <2>1
  <1> QED
    BY <1>1, <1>2, <1>3, <1>5, <1>6 DEF Next

\* The four ways a completion goes on.
LEMMA AnswerTypes == LoopTyped /\ ModelAnswers => LoopTyped'
  <1> SUFFICES ASSUME LoopTyped, ModelAnswers PROVE LoopTyped'
    OBVIOUS
  <1>1. turn < MaxTurns /\ turn \in 0 .. MaxTurns /\ mode' = mode
    BY DEF ModelAnswers, LoopTyped, options
  <1>2. CASE Replay
    BY <1>1, <1>2, Limits DEF Replay, ReplayLeft, LoopTyped, Awaits, InTools, tools
  <1>3. ASSUME NEW ok \in BOOLEAN, FinalReply(ok) PROVE LoopTyped'
    <2>1. /\ at' = "done" /\ result' = "ok" /\ rejected' \in {rejected, rejected \cup {turn}}
          /\ UNCHANGED <<turn, todo, attempt, replays, recoveries>>
      BY <1>3 DEF FinalReply, Finish, tools
    <2>2. rejected' \subseteq 0 .. MaxTurns - 1
      BY <1>1, <2>1, Limits DEF LoopTyped
    <2> QED
      BY <1>1, <2>1, <2>2, Limits DEF LoopTyped, Awaits, InTools
  <1>4. ASSUME NEW n \in 1 .. MaxCalls, ToolCalls(n) PROVE LoopTyped'
    <2>1. at' = "tools" /\ todo' = n /\ UNCHANGED <<turn, attempt, replays, recoveries, rejected, result>>
      BY <1>4 DEF ToolCalls
    <2> QED
      BY <1>1, <2>1, Limits DEF LoopTyped, Awaits, InTools
  <1>5. CASE Recover
    BY <1>1, <1>5, Limits DEF Recover, RecoveryLeft, LoopTyped, Awaits, InTools, tools
  <1> QED
    BY <1>2, <1>3, <1>4, <1>5 DEF ModelAnswers, Completed

\* A tool message is pushed and the loop goes to the next call or iteration.
LEMMA NextToolTypes ==
    ASSUME LoopTyped, InTools, NextTool, UNCHANGED <<options, budgets, result>>
    PROVE  LoopTyped'
  BY Limits DEF NextTool, LoopTyped, Awaits, InTools, options, budgets

LEMMA LoopNext == LoopTyped /\ [Next]_vars => LoopTyped'
  <1> SUFFICES ASSUME LoopTyped, [Next]_vars PROVE LoopTyped'
    OBVIOUS
  <1> USE Limits
  <1>1. CASE MaxTurnsReached \/ TopAborted \/ ContextLimit
    BY <1>1 DEF MaxTurnsReached, TopAborted, ContextLimit, Finish, LoopTyped, Awaits, InTools,
                options, budgets, tools
  <1>2. CASE StartCompaction \/ StartCall \/ CompactionDone
    BY <1>2 DEF StartCompaction, StartCall, CompactionDone, LoopTyped, Awaits, InTools,
                options, budgets, tools
  <1>3. CASE ModelAnswers
    BY <1>3, AnswerTypes
  <1>4. CASE PrimaryFails \/ PrimaryTooLong \/ ReactiveDone \/ RetriedFails
    BY <1>4 DEF PrimaryFails, PrimaryTooLong, ReactiveDone, RetriedFails, NextCall, GiveUp, Fail, Finish,
                LoopTyped, Awaits, InTools, options, budgets, tools
  <1>5. CASE AgainFails \/ FallbackFails \/ RecoverFails
    BY <1>5 DEF AgainFails, FallbackFails, RecoverFails, NextCall, GiveUp, Fail, Finish,
                LoopTyped, Awaits, InTools, options, budgets, tools
  <1>6. CASE ToolsAborted \/ ToolCalled
    BY <1>6 DEF ToolsAborted, ToolCalled, Finish, LoopTyped, Awaits, InTools, options, budgets, tools
  <1>7. CASE ToolStarts \/ ToolTransient
    <2>1. /\ at' \in {"tool", "calling"} /\ at \in {"tools", "calling"} /\ attempt' \in {1, 2}
          /\ UNCHANGED <<mode, todo, turn, replays, recoveries, rejected, result>>
      BY <1>7 DEF ToolStarts, ToolTransient, options, budgets
    <2> QED
      BY <2>1 DEF LoopTyped, Awaits, InTools
  <1>8. CASE ToolRejected \/ ToolAborted \/ ToolReturns
    BY <1>8, NextToolTypes DEF ToolRejected, ToolAborted, ToolReturns, InTools
  <1>9. CASE Abort \/ Done \/ UNCHANGED vars
    BY <1>9 DEF Abort, Done, vars, LoopTyped, Awaits, InTools, options, budgets, tools
  <1> QED
    BY <1>1, <1>2, <1>3, <1>4, <1>5, <1>6, <1>7, <1>8, <1>9 DEF Next, LoopStep

LEMMA TypeNext == TypeInv /\ [Next]_vars => TypeInv'
  BY FlagsNext, LoopNext DEF TypeInv

\* The variables hold what their declarations say, whatever fails and however
\* often; no budget goes below zero.
THEOREM TurnTypes == Spec => []TypeOK
  BY TypeInit, TypeNext, TypeInvImplies, PTL DEF Spec

-----------------------------------------------------------------------------
(* What a turn may cost.                                                    *)

\* How many requests an iteration has made at most when it waits where it does.
\* The reactive compaction is counted apart, it is made once in a turn, and so
\* are the two requests of a recovery.
Spent ==
  CASE at = "top" -> 0
    [] at = "compact" -> 1
    [] at = "primary" -> 2
    [] at \in {"reactive", "retried"} -> 3
    [] at \in {"again", "recover"} -> 4
    [] OTHER -> 5

CostInv ==
  /\ cost \in Nat
  /\ cost <= 5 * turn + (IF reactive THEN 1 ELSE 0) + 2 * (RecoveryLimit - recoveries) + Spent
  /\ at = "reactive" => ~reactive

LEMMA CostNext == TypeInv /\ CostInv /\ [Next]_vars => CostInv'
  <1> SUFFICES ASSUME TypeInv, CostInv, [Next]_vars PROVE CostInv'
    OBVIOUS
  <1> USE Limits
  <1>0. turn \in Nat /\ recoveries \in Nat /\ reactive \in BOOLEAN /\ cost \in Nat
    BY DEF TypeInv, FlagsTyped, LoopTyped, CostInv
  <1>1. CASE MaxTurnsReached \/ TopAborted \/ ContextLimit
    BY <1>0, <1>1 DEF MaxTurnsReached, TopAborted, ContextLimit, Finish, CostInv, Spent, context, budgets
  <1>2. CASE StartCompaction \/ StartCall \/ CompactionDone
    BY <1>0, <1>2 DEF StartCompaction, StartCall, CompactionDone, CostInv, Spent, context, budgets
  <1>3. CASE ModelAnswers
    <2>1. reactive' = reactive /\ Spent <= 5
      BY <1>3 DEF ModelAnswers, Spent
    <2>2. CASE Replay /\ UNCHANGED cost
      BY <1>0, <1>3, <2>1, <2>2 DEF ModelAnswers, Replay, CostInv, Spent
    <2>3. ASSUME NEW ok \in BOOLEAN, FinalReply(ok), UNCHANGED cost PROVE CostInv'
      BY <1>0, <1>3, <2>1, <2>3 DEF ModelAnswers, FinalReply, Finish, CostInv, Spent
    <2>4. ASSUME NEW n \in 1 .. MaxCalls, ToolCalls(n), UNCHANGED cost PROVE CostInv'
      BY <1>0, <1>3, <2>1, <2>4 DEF ModelAnswers, ToolCalls, CostInv, Spent
    <2>5. CASE Recover
      BY <1>0, <1>3, <2>1, <2>5 DEF ModelAnswers, Recover, RecoveryLeft, CostInv, Spent, TypeInv, LoopTyped
    <2> QED
      BY <1>3, <2>2, <2>3, <2>4, <2>5 DEF ModelAnswers, Completed
  <1>4. CASE PrimaryFails \/ PrimaryTooLong \/ RetriedFails
    BY <1>0, <1>4 DEF PrimaryFails, PrimaryTooLong, RetriedFails, NextCall, GiveUp, Fail, Finish,
                      CostInv, Spent, context, budgets
  <1>5. CASE ReactiveDone
    <2>1. /\ at = "reactive" /\ Spent = 3 /\ turn' = turn /\ recoveries' = recoveries /\ cost' = cost + 1
          /\ \/ reactive' = TRUE /\ at' = "retried"
             \/ reactive' = reactive /\ at' = "again"
      BY <1>5 DEF ReactiveDone, NextCall, Spent, budgets
    <2>2. ~reactive /\ cost' <= 5 * turn + 2 * (RecoveryLimit - recoveries) + 4
      BY <1>0, <2>1 DEF CostInv
    <2>3. CASE reactive' = TRUE /\ at' = "retried"
      <3>1. Spent' = 3 /\ (IF reactive' THEN 1 ELSE 0) = 1
        BY <2>3 DEF Spent
      <3> QED
        BY <1>0, <2>1, <2>2, <2>3, <3>1 DEF CostInv
    <2>4. CASE reactive' = reactive /\ at' = "again"
      <3>1. Spent' = 4
        BY <2>4 DEF Spent
      <3> QED
        BY <1>0, <2>1, <2>2, <2>4, <3>1 DEF CostInv
    <2> QED
      BY <2>1, <2>3, <2>4
  <1>6. CASE AgainFails \/ FallbackFails \/ RecoverFails
    BY <1>0, <1>6 DEF AgainFails, FallbackFails, RecoverFails, NextCall, GiveUp, Fail, Finish,
                      CostInv, Spent, context, budgets
  <1>7. CASE ToolsAborted \/ ToolStarts \/ ToolCalled \/ ToolTransient
    BY <1>0, <1>7 DEF ToolsAborted, ToolStarts, ToolCalled, ToolTransient, Finish, CostInv, Spent,
                      context, budgets
  <1>8. CASE ToolRejected \/ ToolAborted \/ ToolReturns
    BY <1>0, <1>8 DEF ToolRejected, ToolAborted, ToolReturns, NextTool, CostInv, Spent, budgets
  <1>9. CASE Abort
    BY <1>0, <1>9 DEF Abort, CostInv, Spent, context, budgets
  <1>10. CASE UNCHANGED vars
    BY <1>10 DEF vars, CostInv, Spent, context, budgets
  <1> QED
    BY <1>1, <1>2, <1>3, <1>4, <1>5, <1>6, <1>7, <1>8, <1>9, <1>10 DEF Next, LoopStep, Done

\* The bound on the requests of a turn, for any number of iterations,
\* recoveries and replays.
THEOREM TurnCost == Spec => []CostBounded
  <1>1. Init => TypeInv /\ CostInv
    BY TypeInit, Limits DEF Init, CostInv, Spent
  <1>2. TypeInv /\ CostInv /\ [Next]_vars => TypeInv' /\ CostInv'
    BY TypeNext, CostNext
  <1>3. TypeInv /\ CostInv => CostBounded
    BY Limits DEF TypeInv, LoopTyped, CostInv, CostBounded, Spent
  <1> QED
    BY <1>1, <1>2, <1>3, PTL DEF Spec

-----------------------------------------------------------------------------
(* After the abort.                                                         *)

\* The requests that an iteration may still make from where it waits, without
\* those of its recoveries.
StillAsks ==
  CASE at = "compact" -> 5
    [] at = "primary" -> 4
    [] at = "reactive" -> 3
    [] at = "retried" -> 2
    [] at \in {"again", "recover"} -> 1
    [] OTHER -> 0

\* Where the turn stands since the abort.
WhereItStands ==
  \/ turn = then.turn
  \/ turn = then.turn + 1 /\ at \in {"top", "done"}

\* What it has asked of the model since.
WhatItAsks ==
  /\ cost \in Nat /\ then.cost \in Nat /\ then.recoveries \in Nat
  /\ then.at \in AsksTheModel =>
       cost + StillAsks + 2 * recoveries <= then.cost + 5 + 2 * then.recoveries
  /\ then.at \notin AsksTheModel => cost = then.cost /\ at \notin AsksTheModel

WhatItRuns ==
  at = "calling" => then.at = "calling" /\ todo = then.todo /\ attempt = then.attempt

HowItEnded ==
  at = "done" /\ result # "aborted" =>
    \/ result \in {"ok", "model_error"} /\ then.at \in AsksTheModel
    \/ result = "max_turns" /\ turn = MaxTurns

AbortInv == aborted => WhereItStands /\ WhatItAsks /\ WhatItRuns /\ HowItEnded

LEMMA AbortInvImplies == TypeInv /\ AbortInv => AbortIsFinal
  <1>1. TypeInv => recoveries \in Nat /\ StillAsks \in Nat
    BY Limits DEF TypeInv, LoopTyped, StillAsks
  <1> QED
    BY <1>1 DEF AbortInv, WhereItStands, WhatItAsks, WhatItRuns, HowItEnded, AbortIsFinal

\* The step of the abort.
LEMMA AbortHappens ==
    ASSUME TypeInv, CostInv, Abort, then' = ThenAfter
    PROVE  AbortInv'
  <1>1. /\ then' = [at |-> at, turn |-> turn, todo |-> todo, attempt |-> attempt, cost |-> cost,
                    recoveries |-> recoveries]
        /\ UNCHANGED <<at, turn, todo, attempt, cost, recoveries, result>> /\ at # "done"
    BY DEF Abort, ThenAfter, tools, budgets
  <1>2. /\ then'.at = at' /\ then'.turn = turn' /\ then'.todo = todo' /\ then'.attempt = attempt'
        /\ then'.cost = cost' /\ then'.recoveries = recoveries' /\ at' # "done"
    BY <1>1
  <1>3. cost' \in Nat /\ recoveries' \in Nat /\ StillAsks' <= 5 /\ StillAsks' \in Nat
    BY <1>1, Limits DEF CostInv, TypeInv, LoopTyped, StillAsks
  <1>4. WhereItStands' /\ WhatItRuns' /\ HowItEnded'
    BY <1>2 DEF WhereItStands, WhatItRuns, HowItEnded
  <1>5. then'.cost \in Nat /\ then'.recoveries \in Nat
    BY <1>2, <1>3
  <1>6. cost' + StillAsks' + 2 * recoveries' <= then'.cost + 5 + 2 * then'.recoveries
    <2> DEFINE asks == StillAsks'
               c == cost'
               r == recoveries'
    <2>1. c \in Nat /\ r \in Nat /\ asks \in Nat /\ asks <= 5
      BY <1>3
    <2> HIDE DEF asks, c, r
    <2>2. c + asks + 2 * r <= c + 5 + 2 * r
      BY <2>1
    <2> QED
      BY <1>2, <2>2 DEF asks, c, r
  <1>7. WhatItAsks'
    BY <1>2, <1>3, <1>5, <1>6 DEF WhatItAsks
  <1> QED
    BY <1>4, <1>7 DEF AbortInv

\* A step of the turn after it.
LEMMA AbortedStep ==
    ASSUME TypeInv, CostInv, AbortInv, aborted, LoopStep, UNCHANGED <<aborted, then>>
    PROVE  AbortInv'
  <1> USE Limits
  <1>0. /\ turn \in Nat /\ recoveries \in Nat /\ cost \in Nat
        /\ WhereItStands /\ WhatItAsks /\ WhatItRuns /\ HowItEnded
    BY DEF TypeInv, LoopTyped, CostInv, AbortInv
  <1>1. CASE MaxTurnsReached \/ TopAborted
    BY <1>0, <1>1 DEF MaxTurnsReached, TopAborted, Finish, AbortInv, WhereItStands, WhatItAsks, WhatItRuns,
                      HowItEnded, AsksTheModel, Awaits, StillAsks, budgets, tools
  <1>2. CASE ContextLimit \/ StartCompaction \/ StartCall
    BY <1>2 DEF ContextLimit, StartCompaction, StartCall
  <1>3. CASE CompactionDone
    <2>1. /\ at = "compact" /\ at' = "primary" /\ cost' = cost + 1
          /\ UNCHANGED <<aborted, then, turn, recoveries, result>>
      BY <1>3 DEF CompactionDone, budgets
    <2> QED
      BY <1>0, <2>1 DEF AbortInv, WhereItStands, WhatItAsks, WhatItRuns, HowItEnded, AsksTheModel, Awaits,
                        StillAsks
  <1>4. CASE ModelAnswers
    <2>1. /\ at \in AsksTheModel /\ at # "compact" /\ at \notin {"top", "done"} /\ UNCHANGED <<aborted, then>>
          /\ turn = then.turn /\ then.at \in AsksTheModel /\ StillAsks \in Nat
      BY <1>0, <1>4 DEF ModelAnswers, AsksTheModel, Awaits, WhereItStands, WhatItAsks, StillAsks
    <2>2. CASE Replay /\ UNCHANGED cost
      BY <1>0, <2>1, <2>2 DEF Replay, AbortInv, WhereItStands, WhatItAsks, WhatItRuns, HowItEnded, StillAsks
    <2>3. ASSUME NEW ok \in BOOLEAN, FinalReply(ok), UNCHANGED cost PROVE AbortInv'
      BY <1>0, <2>1, <2>3 DEF FinalReply, Finish, AbortInv, WhereItStands, WhatItAsks, WhatItRuns, HowItEnded,
                              StillAsks
    <2>4. ASSUME NEW n \in 1 .. MaxCalls, ToolCalls(n), UNCHANGED cost PROVE AbortInv'
      BY <1>0, <2>1, <2>4 DEF ToolCalls, AbortInv, WhereItStands, WhatItAsks, WhatItRuns, HowItEnded, StillAsks
    <2>5. CASE Recover
      BY <1>0, <2>1, <2>5 DEF Recover, RecoveryLeft, AbortInv, WhereItStands, WhatItAsks, WhatItRuns,
                              HowItEnded, StillAsks
    <2> QED
      BY <1>4, <2>2, <2>3, <2>4, <2>5 DEF ModelAnswers, Completed
  <1>5. CASE PrimaryFails \/ PrimaryTooLong \/ RetriedFails
    BY <1>0, <1>5 DEF PrimaryFails, PrimaryTooLong, RetriedFails, NextCall, GiveUp, Fail, Finish, AbortInv,
                      WhereItStands, WhatItAsks, WhatItRuns, HowItEnded, AsksTheModel, Awaits, StillAsks,
                      budgets, tools
  <1>6. CASE ReactiveDone
    BY <1>0, <1>6 DEF ReactiveDone, NextCall, AbortInv, WhereItStands, WhatItAsks, WhatItRuns, HowItEnded,
                      AsksTheModel, Awaits, StillAsks, budgets, tools
  <1>7. CASE AgainFails \/ FallbackFails \/ RecoverFails
    BY <1>0, <1>7 DEF AgainFails, FallbackFails, RecoverFails, NextCall, GiveUp, Fail, Finish, AbortInv,
                      WhereItStands, WhatItAsks, WhatItRuns, HowItEnded, AsksTheModel, Awaits, StillAsks,
                      budgets, tools
  <1>8. CASE ToolsAborted
    BY <1>0, <1>8 DEF ToolsAborted, Finish, AbortInv, WhereItStands, WhatItAsks, WhatItRuns, HowItEnded,
                      AsksTheModel, Awaits, StillAsks, budgets, tools
  <1>9. CASE ToolRejected \/ ToolStarts \/ ToolCalled
    BY <1>9 DEF ToolRejected, ToolStarts, ToolCalled
  <1>10. CASE ToolAborted \/ ToolReturns
    BY <1>0, <1>10 DEF ToolAborted, ToolReturns, NextTool, AbortInv, WhereItStands, WhatItAsks, WhatItRuns,
                       HowItEnded, AsksTheModel, Awaits, StillAsks, budgets
  <1>11. CASE ToolTransient
    BY <1>0, <1>11 DEF ToolTransient, AbortInv, WhereItStands, WhatItAsks, WhatItRuns, HowItEnded,
                       AsksTheModel, Awaits, StillAsks, budgets
  <1> QED
    BY <1>1, <1>2, <1>3, <1>4, <1>5, <1>6, <1>7, <1>8, <1>9, <1>10, <1>11 DEF LoopStep

LEMMA LoopKeepsSignal == LoopStep => UNCHANGED aborted
  BY DEF LoopStep, MaxTurnsReached, TopAborted, ContextLimit, StartCompaction, StartCall, CompactionDone,
         ModelAnswers, PrimaryFails, PrimaryTooLong, ReactiveDone, RetriedFails, AgainFails, FallbackFails,
         RecoverFails, ToolsAborted, ToolRejected, ToolStarts, ToolAborted, ToolCalled, ToolReturns,
         ToolTransient

LEMMA AbortNext ==
    TypeInv /\ CostInv /\ AbortInv /\ [WatchedNext]_watchedVars => AbortInv'
  <1> SUFFICES ASSUME TypeInv, CostInv, AbortInv, [WatchedNext]_watchedVars PROVE AbortInv'
    OBVIOUS
  <1>1. aborted \in BOOLEAN
    BY DEF TypeInv, FlagsTyped
  <1>2. CASE LoopStep /\ then' = ThenAfter
    <2>1. UNCHANGED <<aborted, then>>
      BY <1>1, <1>2, LoopKeepsSignal DEF ThenAfter
    <2> QED
      BY <1>1, <1>2, <2>1, AbortedStep DEF AbortInv
  <1>3. CASE Abort /\ then' = ThenAfter
    BY <1>3, AbortHappens
  <1>4. CASE UNCHANGED vars /\ then' = ThenAfter
    <2>1. UNCHANGED <<aborted, then, at, turn, todo, attempt, cost, recoveries, result>>
      BY <1>1, <1>4 DEF vars, tools, budgets, ThenAfter
    <2> QED
      BY <2>1 DEF AbortInv, WhereItStands, WhatItAsks, WhatItRuns, HowItEnded, StillAsks
  <1>5. CASE UNCHANGED watchedVars
    <2>1. UNCHANGED <<aborted, then, at, turn, todo, attempt, cost, recoveries, result>>
      BY <1>5 DEF watchedVars, vars, tools, budgets
    <2> QED
      BY <2>1 DEF AbortInv, WhereItStands, WhatItAsks, WhatItRuns, HowItEnded, StillAsks
  <1> QED
    BY <1>2, <1>3, <1>4, <1>5 DEF WatchedNext, Next, Done

\* What may still happen once the user has closed the stream, wherever the
\* turn stands then and whatever fails.
THEOREM AbortStopsTheTurn == WatchedSpec => []AbortIsFinal
  <1>1. WatchedInit => TypeInv /\ CostInv /\ AbortInv
    BY TypeInit, Limits DEF WatchedInit, Init, CostInv, Spent, AbortInv
  <1>2. [WatchedNext]_watchedVars => [Next]_vars
    BY DEF WatchedNext, watchedVars
  <1>3. TypeInv /\ CostInv /\ AbortInv /\ [WatchedNext]_watchedVars => TypeInv' /\ CostInv' /\ AbortInv'
    BY <1>2, TypeNext, CostNext, AbortNext
  <1>4. TypeInv /\ AbortInv => AbortIsFinal
    BY AbortInvImplies
  <1> QED
    BY <1>1, <1>3, <1>4, PTL DEF WatchedSpec

-----------------------------------------------------------------------------
(* The conversation.                                                        *)

Roles == {"prior", "user", "assistant", "tool", "system"}
Msg == [role : Roles, turn : Nat, size : Nat, calls : Nat]

\* The tool messages behind message i that belong to its iteration.
Answers(c, i) == {j \in DOMAIN c : /\ c[j].role = "tool"
                                   /\ c[j].turn = c[i].turn
                                   /\ j > i}

\* Every call made up to iteration t has its answer, but for n of those of t.
Answered(c, t, n) ==
  \A i \in DOMAIN c :
    /\ c[i].role \in {"assistant", "tool"} => c[i].turn <= t
    /\ c[i].role = "assistant" =>
         Cardinality(Answers(c, i)) = IF c[i].turn = t THEN c[i].calls - n ELSE c[i].calls

\* The conversation ends with the messages of the turn, some of them shortened.
Follows(c, s) ==
  /\ Len(s) <= Len(c)
  /\ \A i \in DOMAIN s :
       LET j == Len(c) - Len(s) + i
       IN  c[j].role = s[i].role /\ c[j].turn = s[i].turn /\ c[j].size <= s[i].size

LEMMA MessageTypes ==
    ASSUME NEW c \in Seq(Msg), NEW i \in DOMAIN c
    PROVE  c[i] \in Msg /\ c[i].turn \in Nat /\ c[i].size \in Nat /\ c[i].calls \in Nat
  <1>1. c[i] \in Msg
    OBVIOUS
  <1> QED
    BY <1>1 DEF Msg

LEMMA AnswersFinite ==
    ASSUME NEW c \in Seq(Msg), NEW i
    PROVE  IsFiniteSet(Answers(c, i)) /\ Cardinality(Answers(c, i)) \in Nat
  <1>1. Answers(c, i) \subseteq 1 .. Len(c) /\ Len(c) \in Nat
    BY DEF Answers
  <1>2. IsFiniteSet(1 .. Len(c))
    BY <1>1, FS_Interval
  <1> QED
    BY <1>1, <1>2, FS_Subset, FS_CardinalityType

\* What one more message adds to the answers of those before it.
LEMMA OneMore ==
    ASSUME NEW c \in Seq(Msg), NEW m \in Msg, NEW i \in DOMAIN c
    PROVE  Cardinality(Answers(Append(c, m), i)) =
             IF m.role = "tool" /\ m.turn = c[i].turn
             THEN Cardinality(Answers(c, i)) + 1 ELSE Cardinality(Answers(c, i))
  <1> DEFINE d == Append(c, m)
             n == Len(c) + 1
  <1>1. /\ Len(c) \in Nat /\ DOMAIN c = 1 .. Len(c) /\ DOMAIN d = 1 .. n
        /\ d[n] = m /\ \A j \in DOMAIN c : d[j] = c[j]
    OBVIOUS
  <1>2. i < n /\ i \in Int
    BY <1>1
  <1> HIDE DEF d, n
  <1>3. CASE m.role = "tool" /\ m.turn = c[i].turn
    <2>1. Answers(d, i) = Answers(c, i) \cup {n}
      BY <1>1, <1>2, <1>3 DEF Answers, n
    <2>2. n \notin Answers(c, i)
      BY <1>1 DEF Answers, n
    <2>3. Cardinality(Answers(d, i)) = Cardinality(Answers(c, i)) + 1
      BY <2>1, <2>2, AnswersFinite, FS_AddElement
    <2> QED
      BY <1>3, <2>3 DEF d
  <1>4. CASE ~(m.role = "tool" /\ m.turn = c[i].turn)
    <2>1. Answers(d, i) = Answers(c, i)
      BY <1>1, <1>2, <1>4 DEF Answers, n
    <2> QED
      BY <1>4, <2>1 DEF d
  <1> QED
    BY <1>3, <1>4

LEMMA LastHasNone ==
    ASSUME NEW c \in Seq(Msg), NEW m \in Msg
    PROVE  Cardinality(Answers(Append(c, m), Len(c) + 1)) = 0
  <1>1. Answers(Append(c, m), Len(c) + 1) = {}
    BY DEF Answers
  <1> QED
    BY <1>1, FS_EmptySet

\* A message at the end of the conversation, by its role.
LEMMA AppendAssistant ==
    ASSUME NEW c \in Seq(Msg), NEW m \in Msg, NEW t \in Nat, NEW n \in Nat,
           Answered(c, t - 1, 0), m.role = "assistant", m.turn = t, m.calls = n
    PROVE  Answered(Append(c, m), t, n)
  <1> SUFFICES ASSUME NEW i \in DOMAIN Append(c, m)
               PROVE  LET d == Append(c, m) IN
                      /\ d[i].role \in {"assistant", "tool"} => d[i].turn <= t
                      /\ d[i].role = "assistant" =>
                           Cardinality(Answers(d, i)) = IF d[i].turn = t THEN d[i].calls - n ELSE d[i].calls
    BY DEF Answered
  <1>1. CASE i = Len(c) + 1
    <2>1. Append(c, m)[i] = m
      BY <1>1
    <2>2. Cardinality(Answers(Append(c, m), i)) = 0
      BY <1>1, LastHasNone
    <2> QED
      BY <2>1, <2>2
  <1>2. CASE i # Len(c) + 1
    <2>1. i \in DOMAIN c /\ Append(c, m)[i] = c[i]
      BY <1>2
    <2>2. Cardinality(Answers(Append(c, m), i)) = Cardinality(Answers(c, i))
      BY <2>1, OneMore
    <2>3. c[i].turn \in Nat /\ c[i].calls \in Nat
      BY <2>1, MessageTypes
    <2> QED
      BY <2>1, <2>2, <2>3 DEF Answered
  <1> QED
    BY <1>1, <1>2

LEMMA AppendTool ==
    ASSUME NEW c \in Seq(Msg), NEW m \in Msg, NEW t \in Nat, NEW n \in Nat \ {0},
           Answered(c, t, n), m.role = "tool", m.turn = t
    PROVE  Answered(Append(c, m), t, n - 1)
  <1> SUFFICES ASSUME NEW i \in DOMAIN Append(c, m)
               PROVE  LET d == Append(c, m) IN
                      /\ d[i].role \in {"assistant", "tool"} => d[i].turn <= t
                      /\ d[i].role = "assistant" =>
                           Cardinality(Answers(d, i)) = IF d[i].turn = t THEN d[i].calls - (n - 1) ELSE d[i].calls
    BY DEF Answered
  <1>1. CASE i = Len(c) + 1
    <2>1. Append(c, m)[i] = m
      BY <1>1
    <2> QED
      BY <2>1
  <1>2. CASE i # Len(c) + 1
    <2>1. i \in DOMAIN c /\ Append(c, m)[i] = c[i]
      BY <1>2
    <2>2. Cardinality(Answers(Append(c, m), i)) =
            IF t = c[i].turn THEN Cardinality(Answers(c, i)) + 1 ELSE Cardinality(Answers(c, i))
      BY <2>1, OneMore
    <2>3. c[i].turn \in Nat /\ c[i].calls \in Nat
      BY <2>1, MessageTypes
    <2> QED
      BY <2>1, <2>2, <2>3 DEF Answered
  <1> QED
    BY <1>1, <1>2

LEMMA AppendOther ==
    ASSUME NEW c \in Seq(Msg), NEW m \in Msg, NEW t \in Int, NEW n \in Nat,
           Answered(c, t, n), m.role \notin {"assistant", "tool"}
    PROVE  Answered(Append(c, m), t, n)
  <1> SUFFICES ASSUME NEW i \in DOMAIN Append(c, m)
               PROVE  LET d == Append(c, m) IN
                      /\ d[i].role \in {"assistant", "tool"} => d[i].turn <= t
                      /\ d[i].role = "assistant" =>
                           Cardinality(Answers(d, i)) = IF d[i].turn = t THEN d[i].calls - n ELSE d[i].calls
    BY DEF Answered
  <1>1. CASE i = Len(c) + 1
    <2>1. Append(c, m)[i] = m
      BY <1>1
    <2> QED
      BY <2>1
  <1>2. CASE i # Len(c) + 1
    <2>1. i \in DOMAIN c /\ Append(c, m)[i] = c[i]
      BY <1>2
    <2>2. Cardinality(Answers(Append(c, m), i)) = Cardinality(Answers(c, i))
      BY <2>1, OneMore
    <2> QED
      BY <2>1, <2>2 DEF Answered
  <1> QED
    BY <1>1, <1>2

LEMMA AppendBoth ==
    ASSUME NEW c \in Seq(Msg), NEW s \in Seq(Msg), NEW m \in Msg, Follows(c, s)
    PROVE  Follows(Append(c, m), Append(s, m))
  <1> DEFINE d == Append(c, m)
             u == Append(s, m)
  <1>1. /\ Len(c) \in Nat /\ Len(s) \in Nat /\ Len(s) <= Len(c)
        /\ Len(d) = Len(c) + 1 /\ Len(u) = Len(s) + 1
        /\ d[Len(d)] = m /\ \A j \in 1 .. Len(c) : d[j] = c[j]
        /\ u[Len(u)] = m /\ \A j \in 1 .. Len(s) : u[j] = s[j]
        /\ DOMAIN u = 1 .. Len(u) /\ DOMAIN s = 1 .. Len(s)
    BY DEF Follows
  <1> HIDE DEF d, u
  <1>2. ASSUME NEW i \in DOMAIN u
        PROVE  LET j == Len(d) - Len(u) + i
               IN  d[j].role = u[i].role /\ d[j].turn = u[i].turn /\ d[j].size <= u[i].size
    <2>1. CASE i = Len(u)
      <3>1. Len(d) - Len(u) + i = Len(d) /\ m.size \in Nat
        BY <1>1, <2>1 DEF Msg
      <3> QED
        BY <1>1, <2>1, <3>1
    <2>2. CASE i # Len(u)
      <3> DEFINE j == Len(c) - Len(s) + i
      <3>1. i \in DOMAIN s /\ j \in 1 .. Len(c) /\ Len(d) - Len(u) + i = j
        BY <1>1, <1>2, <2>2
      <3>2. c[j].role = s[i].role /\ c[j].turn = s[i].turn /\ c[j].size <= s[i].size
        BY <3>1 DEF Follows
      <3>3. d[j] = c[j] /\ u[i] = s[i]
        BY <1>1, <3>1
      <3> QED
        BY <3>1, <3>2, <3>3
    <2> QED
      BY <2>1, <2>2
  <1>3. Len(u) <= Len(d)
    BY <1>1
  <1>4. Follows(d, u)
    BY <1>2, <1>3 DEF Follows
  <1> QED
    BY <1>4 DEF d, u

\* The budget shortens results and changes nothing else.
LEMMA Budget ==
    ASSUME NEW c \in Seq(Msg)
    PROVE  LET e == EnforceToolResultBudget(c) IN
           /\ e \in Seq(Msg) /\ Len(e) = Len(c) /\ DOMAIN e = DOMAIN c
           /\ \A i \in DOMAIN c : /\ e[i].role = c[i].role /\ e[i].turn = c[i].turn
                                  /\ e[i].calls = c[i].calls /\ e[i].size <= c[i].size
  <1>1. PICK S : /\ S \subseteq {i \in DOMAIN c : c[i].size > Short}
                 /\ EnforceToolResultBudget(c) =
                      [i \in DOMAIN c |-> IF i \in S THEN [c[i] EXCEPT !.size = Short] ELSE c[i]]
    <2> DEFINE idxs == ToolIdxs(c)
               older == {i \in idxs : Cardinality({j \in idxs : j >= i}) > KeepRecent}
               long == {i \in older : c[i].size > Short}
               Saved(T) == SizeOf(c, T) - Short * Cardinality(T)
               Fits(T) == SizeOf(c, idxs) - Saved(T) <= ToolBudget
               shrunk == {i \in long : ~Fits({j \in long : j < i})}
    <2>1. EnforceToolResultBudget(c) =
            [i \in DOMAIN c |-> IF i \in shrunk THEN [c[i] EXCEPT !.size = Short] ELSE c[i]]
      BY DEF EnforceToolResultBudget
    <2>2. shrunk \subseteq {i \in DOMAIN c : c[i].size > Short}
      BY DEF ToolIdxs
    <2> HIDE DEF shrunk
    <2> QED
      BY <2>1, <2>2
  <1> DEFINE e == EnforceToolResultBudget(c)
  <1>2. ASSUME NEW i \in DOMAIN c
        PROVE  /\ e[i] \in Msg /\ e[i].role = c[i].role /\ e[i].turn = c[i].turn
               /\ e[i].calls = c[i].calls /\ e[i].size <= c[i].size
    <2>1. c[i] \in Msg
      OBVIOUS
    <2>2. CASE i \in S
      <3>1. e[i] = [c[i] EXCEPT !.size = Short] /\ c[i].size > Short
        BY <1>1, <2>2
      <3>2. [c[i] EXCEPT !.size = Short] = [role |-> c[i].role, turn |-> c[i].turn, size |-> 1, calls |-> c[i].calls]
        BY <2>1 DEF Msg, Short
      <3> HIDE DEF e
      <3> QED
        BY <2>1, <3>1, <3>2 DEF Msg, Short
    <2>3. CASE i \notin S
      <3>1. e[i] = c[i]
        BY <1>1, <2>3
      <3> QED
        BY <2>1, <3>1 DEF Msg
    <2> QED
      BY <2>2, <2>3
  <1>3. e \in [1 .. Len(c) -> Msg] /\ Len(c) \in Nat
    BY <1>1, <1>2
  <1>4. e \in Seq(Msg) /\ Len(e) = Len(c) /\ DOMAIN e = DOMAIN c
    BY <1>3
  <1> QED
    BY <1>2, <1>4

LEMMA BudgetKeeps ==
    ASSUME NEW c \in Seq(Msg)
    PROVE  /\ \A t \in Int, n \in Nat : Answered(c, t, n) => Answered(EnforceToolResultBudget(c), t, n)
           /\ \A s \in Seq(Msg) : Follows(c, s) => Follows(EnforceToolResultBudget(c), s)
  <1> DEFINE e == EnforceToolResultBudget(c)
  <1>1. /\ Len(e) = Len(c) /\ DOMAIN e = DOMAIN c
        /\ e \in Seq(Msg)
        /\ \A i \in DOMAIN c : /\ e[i].role = c[i].role /\ e[i].turn = c[i].turn
                               /\ e[i].calls = c[i].calls /\ e[i].size <= c[i].size
    BY Budget
  <1> HIDE DEF e
  <1>2. \A i \in DOMAIN c : Answers(e, i) = Answers(c, i)
    BY <1>1 DEF Answers
  <1>3. \A t \in Int, n \in Nat : Answered(c, t, n) => Answered(e, t, n)
    BY <1>1, <1>2 DEF Answered
  <1>4. ASSUME NEW s \in Seq(Msg), Follows(c, s) PROVE Follows(e, s)
    <2>1. ASSUME NEW i \in DOMAIN s
          PROVE  LET j == Len(e) - Len(s) + i
                 IN  e[j].role = s[i].role /\ e[j].turn = s[i].turn /\ e[j].size <= s[i].size
      <3> DEFINE j == Len(c) - Len(s) + i
      <3>1. j \in DOMAIN c /\ Len(s) <= Len(c)
        BY <1>4 DEF Follows
      <3>2. c[j].role = s[i].role /\ c[j].turn = s[i].turn /\ c[j].size <= s[i].size
        BY <1>4 DEF Follows
      <3>3. c[j].size \in Nat /\ s[i].size \in Nat /\ e[j].size \in Nat
        BY <1>1, <3>1, MessageTypes
      <3> QED
        BY <1>1, <3>1, <3>2, <3>3
    <2> QED
      BY <1>1, <1>4, <2>1 DEF Follows
  <1> QED
    BY <1>3, <1>4 DEF e

\* The kept tail keeps the answers of the calls in it.
LEMMA CompactionKeeps ==
    ASSUME NEW c \in Seq(Msg), turn \in Nat, NEW t \in Int, NEW n \in Nat, Answered(c, t, n)
    PROVE  Compacted(c) \in Seq(Msg) /\ Answered(Compacted(c), t, n)
  <1> DEFINE d == Compacted(c)
             b == Len(c) - KeepTrailing - 1
  <1>0. Len(c) \in Nat /\ KeepTrailing \in Nat
    BY Limits
  <1>1. CASE Len(c) <= KeepTrailing + 1
    BY <1>1 DEF Compacted, Answered
  <1>2. CASE ~(Len(c) <= KeepTrailing + 1)
    <2> DEFINE head == Message("system", Short, 0)
               tail == SubSeq(c, Len(c) - KeepTrailing + 1, Len(c))
    <2>1. head \in Msg /\ head.role = "system"
      BY DEF Message, Msg, Roles, Short
    <2>2. tail \in Seq(Msg) /\ Len(tail) = KeepTrailing /\ \A k \in 1 .. KeepTrailing : tail[k] = c[k + b + 1]
      BY <1>0, <1>2
    <2>3. d = <<head>> \o tail
      BY <1>2 DEF Compacted
    <2>4. /\ d \in Seq(Msg) /\ DOMAIN d = 1 .. KeepTrailing + 1 /\ d[1].role = "system"
          /\ \A k \in 2 .. KeepTrailing + 1 : d[k] = c[k + b]
      <3> HIDE DEF head, tail, d
      <3>1. d \in Seq(Msg) /\ Len(d) = KeepTrailing + 1 /\ d[1] = head
            /\ \A k \in 2 .. KeepTrailing + 1 : d[k] = tail[k - 1]
        BY <1>0, <2>1, <2>2, <2>3
      <3>2. ASSUME NEW k \in 2 .. KeepTrailing + 1 PROVE d[k] = c[k + b]
        <4>1. k - 1 \in 1 .. KeepTrailing /\ (k - 1) + b + 1 = k + b
          BY <1>0
        <4> QED
          BY <2>2, <3>1, <4>1
      <3>3. DOMAIN d = 1 .. KeepTrailing + 1
        BY <3>1
      <3> QED
        BY <2>1, <3>1, <3>2, <3>3
    <2>5. b \in Nat /\ DOMAIN c = 1 .. (KeepTrailing + 1 + b)
      BY <1>0, <1>2
    <2> HIDE DEF d, b
    <2>6. ASSUME NEW i \in 2 .. KeepTrailing + 1
          PROVE  Cardinality(Answers(d, i)) = Cardinality(Answers(c, i + b))
      <3> DEFINE f == [j \in Answers(d, i) |-> j + b]
      <3>0. d[i] = c[i + b]
        BY <2>4
      <3>1. ASSUME NEW j \in Answers(d, i) PROVE j + b \in Answers(c, i + b)
        <4>1. j \in 2 .. KeepTrailing + 1 /\ d[j].role = "tool" /\ d[j].turn = d[i].turn /\ j > i
          BY <1>0, <2>4 DEF Answers
        <4>2. d[j] = c[j + b] /\ j + b \in DOMAIN c /\ j + b > i + b
          BY <1>0, <2>4, <2>5, <4>1
        <4> QED
          BY <3>0, <4>1, <4>2 DEF Answers
      <3>2. ASSUME NEW k \in Answers(c, i + b) PROVE \E j \in Answers(d, i) : j + b = k
        <4>1. k \in 1 .. (KeepTrailing + 1 + b) /\ c[k].role = "tool" /\ c[k].turn = c[i + b].turn /\ k > i + b
          BY <2>5 DEF Answers
        <4>2. k - b \in 2 .. KeepTrailing + 1 /\ k - b > i /\ (k - b) + b = k
          BY <1>0, <2>5, <4>1
        <4>3. d[k - b] = c[k]
          BY <2>4, <4>2
        <4>4. k - b \in Answers(d, i)
          BY <1>0, <2>4, <3>0, <4>1, <4>2, <4>3 DEF Answers
        <4> QED
          BY <4>2, <4>4
      <3>3. \A j \in Answers(d, i) : j \in Nat
        BY <2>4 DEF Answers
      <3>4. f \in Bijection(Answers(d, i), Answers(c, i + b))
        <4>1. f \in [Answers(d, i) -> Answers(c, i + b)]
          BY <3>1
        <4>2. \A j, k \in Answers(d, i) : f[j] = f[k] => j = k
          BY <2>5, <3>3
        <4>3. \A k \in Answers(c, i + b) : \E j \in Answers(d, i) : f[j] = k
          BY <3>2
        <4> HIDE DEF f
        <4> QED
          BY <4>1, <4>2, <4>3 DEF Bijection, Injection, IsInjective, Surjection
      <3>5. IsFiniteSet(Answers(d, i))
        BY <2>4, AnswersFinite
      <3> QED
        BY <3>4, <3>5, FS_Bijection DEF ExistsBijection
    <2>7. Answered(d, t, n)
      <3> SUFFICES ASSUME NEW i \in DOMAIN d
                   PROVE  /\ d[i].role \in {"assistant", "tool"} => d[i].turn <= t
                          /\ d[i].role = "assistant" =>
                               Cardinality(Answers(d, i)) = IF d[i].turn = t THEN d[i].calls - n ELSE d[i].calls
        BY DEF Answered
      <3>1. CASE i = 1
        BY <2>4, <3>1
      <3>2. CASE i # 1
        <4>1. i \in 2 .. KeepTrailing + 1
          BY <1>0, <2>4, <3>2
        <4>2. d[i] = c[i + b] /\ i + b \in DOMAIN c
          BY <1>0, <2>4, <2>5, <4>1
        <4>3. Cardinality(Answers(d, i)) = Cardinality(Answers(c, i + b))
          BY <2>6, <4>1
        <4> QED
          BY <4>2, <4>3 DEF Answered
      <3> QED
        BY <3>1, <3>2
    <2> QED
      BY <2>4, <2>7 DEF d
  <1> QED
    BY <1>1, <1>2

-----------------------------------------------------------------------------
(* The transcript.                                                          *)

\* Outside the tools every call has its answer; among them the calls of this
\* iteration that have none are the ones still to do.
TalkInv ==
  /\ conv \in Seq(Msg) /\ said \in Seq(Msg)
  /\ ~fired => Follows(conv, said)
  /\ at # "done" => IF InTools THEN Answered(conv, turn, todo) ELSE Answered(conv, turn - 1, 0)

LEMMA TalkInit == Init => TalkInv
  <1> SUFFICES ASSUME Init PROVE TalkInv
    OBVIOUS
  <1>1. PICK n \in Priors : conv = [i \in 1 .. n + 1 |->
                    [role |-> IF i <= n THEN "prior" ELSE "user",
                     turn |-> 0, size |-> Short, calls |-> 0]]
    BY DEF Init
  <1>2. n \in Nat
    BY Limits
  <1>3. conv \in Seq(Msg) /\ Len(conv) = n + 1 /\ DOMAIN conv = 1 .. n + 1
    <2>1. conv \in [1 .. n + 1 -> Msg]
      BY <1>1, <1>2 DEF Msg, Roles, Short
    <2> QED
      BY <1>2, <2>1
  <1>4. /\ said = <<[role |-> "user", turn |-> 0, size |-> Short, calls |-> 0]>>
        /\ at = "top" /\ turn = 0
    BY DEF Init
  <1>5. said \in Seq(Msg) /\ Len(said) = 1 /\ DOMAIN said = {1}
    <2> DEFINE m == [role |-> "user", turn |-> 0, size |-> Short, calls |-> 0]
    <2>1. m \in Msg
      BY DEF Msg, Roles, Short
    <2>2. said = <<m>>
      BY <1>4
    <2> HIDE DEF m
    <2> QED
      BY <2>1, <2>2
  <1>6. conv[n + 1] = said[1] /\ said[1].size = 1
    BY <1>1, <1>2, <1>4 DEF Short
  <1>7. Follows(conv, said)
    BY <1>2, <1>3, <1>5, <1>6 DEF Follows
  <1>8. \A i \in DOMAIN conv : conv[i].role \notin {"assistant", "tool"}
    BY <1>1, <1>2
  <1>9. Answered(conv, turn - 1, 0)
    BY <1>8 DEF Answered
  <1> QED
    BY <1>3, <1>4, <1>5, <1>7, <1>9 DEF TalkInv, InTools

\* A step that leaves the messages alone.
LEMMA TalkStill ==
    ASSUME TalkInv, UNCHANGED <<conv, said, fired, turn, todo>>,
           at' = "done" \/ (at # "done" /\ (InTools <=> InTools'))
    PROVE  TalkInv'
  BY DEF TalkInv, InTools

\* A step that leaves the turn alone, and only shortens or compacts the conversation.
LEMMA TalkPruned ==
    ASSUME TalkInv, turn \in Nat, ~InTools, at # "done", ~InTools',
           UNCHANGED <<said, turn>>,
           \/ conv' = conv /\ fired' = fired
           \/ conv' = EnforceToolResultBudget(conv) /\ fired' = fired
           \/ conv' = Compacted(conv) /\ fired' = TRUE
           \/ conv' = EnforceToolResultBudget(Compacted(conv)) /\ fired' = TRUE
    PROVE  TalkInv'
  <1>1. /\ conv \in Seq(Msg) /\ said \in Seq(Msg) /\ Answered(conv, turn - 1, 0)
        /\ ~fired => Follows(conv, said)
    BY DEF TalkInv
  <1>2. turn - 1 \in Int /\ 0 \in Nat
    OBVIOUS
  <1>3. CASE conv' = conv /\ fired' = fired
    BY <1>1, <1>3 DEF TalkInv
  <1>4. CASE conv' = EnforceToolResultBudget(conv) /\ fired' = fired
    <2>1. conv' \in Seq(Msg)
      BY <1>1, <1>4, Budget
    <2>2. Answered(conv', turn - 1, 0) /\ (~fired => Follows(conv', said))
      BY <1>1, <1>2, <1>4, BudgetKeeps
    <2> QED
      BY <1>1, <1>4, <2>1, <2>2 DEF TalkInv
  <1>5. Compacted(conv) \in Seq(Msg) /\ Answered(Compacted(conv), turn - 1, 0)
    BY <1>1, <1>2, CompactionKeeps
  <1>6. CASE conv' = Compacted(conv) /\ fired' = TRUE
    BY <1>1, <1>5, <1>6 DEF TalkInv
  <1>7. CASE conv' = EnforceToolResultBudget(Compacted(conv)) /\ fired' = TRUE
    <2>1. conv' \in Seq(Msg)
      BY <1>5, <1>7, Budget
    <2>2. Answered(conv', turn - 1, 0)
      BY <1>2, <1>5, <1>7, BudgetKeeps
    <2> QED
      BY <1>1, <1>7, <2>1, <2>2 DEF TalkInv
  <1> QED
    BY <1>3, <1>4, <1>6, <1>7

LEMMA Appends ==
    ASSUME NEW c \in Seq(Msg), NEW a \in Msg, NEW m \in Msg
    PROVE  /\ Append(c, a) \in Seq(Msg)
           /\ c \o <<a, m>> = Append(Append(c, a), m)
  OBVIOUS

\* One message pushed to both lists.
LEMMA PushOne ==
    ASSUME NEW c \in Seq(Msg), NEW s \in Seq(Msg), NEW m \in Msg
    PROVE  /\ c \o <<m>> = Append(c, m) /\ Append(c, m) \in Seq(Msg)
           /\ Append(s, m) \in Seq(Msg)
           /\ Follows(c, s) => Follows(c \o <<m>>, s \o <<m>>)
  <1>1. c \o <<m>> = Append(c, m) /\ s \o <<m>> = Append(s, m)
    OBVIOUS
  <1>2. Append(c, m) \in Seq(Msg) /\ Append(s, m) \in Seq(Msg)
    BY Appends
  <1>3. Follows(c, s) => Follows(c \o <<m>>, s \o <<m>>)
    BY <1>1, AppendBoth
  <1> QED
    BY <1>1, <1>2, <1>3

LEMMA TalkTool ==
    ASSUME TypeInv, TalkInv, InTools, NextTool, fired' = fired,
           NEW size \in Nat, PushToolMessage(size)
    PROVE  TalkInv'
  <1> DEFINE m == Message("tool", size, 0)
  <1>1. /\ conv' = conv \o <<m>> /\ said' = said \o <<m>>
        /\ m.role = "tool" /\ m.turn = turn
    BY DEF PushToolMessage, Push, Message
  <1>2. turn \in Nat /\ todo \in Nat \ {0}
    BY Limits DEF TypeInv, LoopTyped
  <1>3. m \in Msg
    BY <1>2 DEF Message, Msg, Roles
  <1>4. conv \in Seq(Msg) /\ said \in Seq(Msg) /\ (~fired => Follows(conv, said)) /\ Answered(conv, turn, todo)
    BY DEF TalkInv, InTools
  <1> HIDE DEF m
  <1>5. conv' \in Seq(Msg) /\ said' \in Seq(Msg) /\ (~fired => Follows(conv', said'))
    BY <1>1, <1>3, <1>4, PushOne
  <1>6. Answered(conv', turn, todo - 1)
    BY <1>1, <1>2, <1>3, <1>4, PushOne, AppendTool
  <1>7. CASE todo = 1
    <2>1. at' = "top" /\ turn' - 1 = turn /\ todo - 1 = 0
      BY <1>2, <1>7 DEF NextTool
    <2> QED
      BY <1>5, <1>6, <2>1 DEF TalkInv, InTools
  <1>8. CASE todo # 1
    <2>1. at' = "tools" /\ turn' = turn /\ todo' = todo - 1
      BY <1>8 DEF NextTool
    <2> QED
      BY <1>5, <1>6, <2>1 DEF TalkInv, InTools
  <1> QED
    BY <1>7, <1>8

\* A completion: a reply that ends the turn or is to be asked for again, or calls.
LEMMA TalkAnswer == TypeInv /\ TalkInv /\ ModelAnswers => TalkInv'
  <1> SUFFICES ASSUME TypeInv, TalkInv, ModelAnswers PROVE TalkInv'
    OBVIOUS
  <1>1. /\ conv \in Seq(Msg) /\ said \in Seq(Msg) /\ (~fired => Follows(conv, said))
        /\ Answered(conv, turn - 1, 0) /\ fired' = fired /\ ~InTools /\ at # "done"
    BY DEF TalkInv, InTools, ModelAnswers
  <1>2. turn \in Nat
    BY Limits DEF TypeInv, LoopTyped
  <1>3. ASSUME NEW n \in Nat
        PROVE  /\ Assistant(n) \in Msg /\ Answered(Append(conv, Assistant(n)), turn, n)
               /\ conv \o <<Assistant(n)>> = Append(conv, Assistant(n))
               /\ conv \o <<Assistant(n)>> \in Seq(Msg) /\ said \o <<Assistant(n)>> \in Seq(Msg)
               /\ ~fired => Follows(conv \o <<Assistant(n)>>, said \o <<Assistant(n)>>)
    <2>1. /\ Assistant(n) \in Msg /\ Assistant(n).role = "assistant"
          /\ Assistant(n).turn = turn /\ Assistant(n).calls = n
      BY <1>2, <1>3 DEF Assistant, Message, Msg, Roles, Short
    <2>2. Answered(Append(conv, Assistant(n)), turn, n)
      BY <1>1, <1>2, <1>3, <2>1, AppendAssistant
    <2> QED
      BY <1>1, <2>1, <2>2, PushOne
  <1>4. CASE Replay
    <2> DEFINE a == Assistant(0)
               m == Message("system", Short, 0)
               c == Append(conv, a)
               s == Append(said, a)
    <2>1. conv' = conv \o <<a, m>> /\ said' = said \o <<a, m>> /\ at' = "top" /\ turn' = turn + 1
      BY <1>4 DEF Replay, Push
    <2>2. m \in Msg /\ m.role \notin {"assistant", "tool"} /\ a \in Msg
      BY <1>2, <1>3 DEF Message, Msg, Roles, Short
    <2>3. Answered(c, turn, 0) /\ c \in Seq(Msg) /\ s \in Seq(Msg) /\ (~fired => Follows(c, s))
      <3>1. a \in Msg /\ Answered(c, turn, 0)
        BY <1>3
      <3>2. conv \in Seq(Msg) /\ said \in Seq(Msg) /\ (~fired => Follows(conv, said))
        BY <1>1
      <3> HIDE DEF a
      <3> QED
        BY <3>1, <3>2, Appends, AppendBoth
    <2>4. conv' = Append(c, m) /\ said' = Append(s, m)
      <3> HIDE DEF a, m
      <3>1. conv \in Seq(Msg) /\ said \in Seq(Msg)
        BY <1>1
      <3> QED
        BY <2>1, <2>2, <3>1, Appends
    <2> HIDE DEF a, m, c, s
    <2>5. Answered(conv', turn, 0)
      <3>1. Answered(Append(c, m), turn, 0)
        BY <1>2, <2>2, <2>3, AppendOther
      <3> QED
        BY <2>4, <3>1
    <2>6. conv' \in Seq(Msg) /\ said' \in Seq(Msg) /\ (~fired => Follows(conv', said'))
      BY <2>2, <2>3, <2>4, AppendBoth
    <2>7. turn' - 1 = turn
      BY <1>2, <2>1
    <2> QED
      BY <1>1, <2>1, <2>5, <2>6, <2>7 DEF TalkInv, InTools
  <1>5. ASSUME NEW ok \in BOOLEAN, FinalReply(ok) PROVE TalkInv'
    <2>1. conv' = conv \o <<Assistant(0)>> /\ said' = said \o <<Assistant(0)>> /\ at' = "done"
      BY <1>5 DEF FinalReply, Push, Finish
    <2> QED
      BY <1>1, <1>3, <2>1 DEF TalkInv
  <1>6. ASSUME NEW n \in 1 .. MaxCalls, ToolCalls(n) PROVE TalkInv'
    <2>1. /\ conv' = conv \o <<Assistant(n)>> /\ said' = said \o <<Assistant(n)>>
          /\ at' = "tools" /\ todo' = n /\ turn' = turn
      BY <1>6 DEF ToolCalls, Push
    <2>2. n \in Nat
      BY Limits
    <2> QED
      BY <1>1, <1>3, <2>1, <2>2 DEF TalkInv, InTools
  <1>7. CASE Recover
    BY <1>1, <1>7, TalkStill DEF Recover, InTools, tools
  <1> QED
    BY <1>4, <1>5, <1>6, <1>7 DEF ModelAnswers, Completed

LEMMA TalkNext == TypeInv /\ TalkInv /\ [Next]_vars => TalkInv'
  <1> SUFFICES ASSUME TypeInv, TalkInv, [Next]_vars PROVE TalkInv'
    OBVIOUS
  <1>0. turn \in Nat
    BY Limits DEF TypeInv, LoopTyped
  <1>1. CASE MaxTurnsReached \/ TopAborted \/ ContextLimit \/ ToolsAborted
    BY <1>1, TalkStill DEF MaxTurnsReached, TopAborted, ContextLimit, ToolsAborted, Finish, context, tools
  <1>2. CASE StartCompaction
    BY <1>2, TalkStill DEF StartCompaction, context, tools, InTools
  <1>3. CASE StartCall \/ CompactionDone \/ ReactiveDone
    BY <1>0, <1>3, TalkPruned DEF StartCall, CompactionDone, ReactiveDone, NextCall, InTools
  <1>4. CASE ModelAnswers
    BY <1>4, TalkAnswer
  <1>5. CASE PrimaryFails \/ PrimaryTooLong \/ RetriedFails \/ AgainFails \/ FallbackFails \/ RecoverFails
    BY <1>5, TalkStill DEF PrimaryFails, PrimaryTooLong, RetriedFails, AgainFails, FallbackFails, RecoverFails,
                           NextCall, GiveUp, Fail, Finish, context, tools, InTools
  <1>6. CASE ToolStarts \/ ToolCalled \/ ToolTransient
    BY <1>6, TalkStill DEF ToolStarts, ToolCalled, ToolTransient, context, tools, InTools
  <1>7. CASE ToolRejected \/ ToolAborted
    <2>1. InTools /\ NextTool /\ fired' = fired /\ PushToolMessage(Short) /\ Short \in Nat
      BY <1>7 DEF ToolRejected, ToolAborted, InTools, Short
    <2> QED
      BY <2>1, TalkTool
  <1>8. CASE ToolReturns
    <2>1. PICK size \in ToolSizes : PushToolMessage(size)
      BY <1>8 DEF ToolReturns
    <2>2. InTools /\ NextTool /\ fired' = fired /\ size \in Nat
      BY <1>8, Limits DEF ToolReturns, InTools
    <2> QED
      BY <2>1, <2>2, TalkTool
  <1>9. CASE Abort \/ Done \/ UNCHANGED vars
    <2>1. UNCHANGED <<conv, said, fired, turn, todo, at>>
      BY <1>9 DEF Abort, Done, vars, context, tools
    <2> QED
      BY <2>1 DEF TalkInv, InTools
  <1> QED
    BY <1>1, <1>2, <1>3, <1>4, <1>5, <1>6, <1>7, <1>8, <1>9 DEF Next, LoopStep

\* Whatever fails, is aborted, repeated or compacted: the model is never asked
\* with a call that has no answer, and what the caller stores is what was said.
THEOREM TurnTranscript == Spec => []TranscriptComplete
  <1>1. Init => TypeInv /\ TalkInv
    BY TypeInit, TalkInit
  <1>2. TypeInv /\ TalkInv /\ [Next]_vars => TypeInv' /\ TalkInv'
    BY TypeNext, TalkNext
  <1>3. TypeInv /\ TalkInv => TranscriptComplete
    <2> SUFFICES ASSUME TypeInv, TalkInv PROVE TranscriptComplete
      OBVIOUS
    <2>1. ASSUME Asking, NEW i \in DOMAIN conv, conv[i].role = "assistant"
          PROVE  Cardinality(Answers(conv, i)) = conv[i].calls
      <3>1. Answered(conv, turn - 1, 0)
        BY <2>1 DEF TalkInv, Asking, InTools
      <3>2. conv[i].calls \in Nat
        BY MessageTypes DEF TalkInv
      <3> QED
        BY <2>1, <3>1, <3>2 DEF Answered
    <2>2. ASSUME ~fired
          PROVE  /\ Len(conv) - Len(said) >= 0
                 /\ \A i \in DOMAIN said :
                      /\ conv[Len(conv) - Len(said) + i].role = said[i].role
                      /\ conv[Len(conv) - Len(said) + i].turn = said[i].turn
                      /\ conv[Len(conv) - Len(said) + i].size <= said[i].size
      BY <2>2 DEF TalkInv, Follows
    <2> QED
      BY <2>1, <2>2 DEF TranscriptComplete, Answers
  <1> QED
    BY <1>1, <1>2, <1>3, PTL DEF Spec

-----------------------------------------------------------------------------
(* The stream.                                                              *)

Ev == [kind : {"text", "thinking", "toolStart", "toolDone", "done"}, turn : Nat]
Of(o, kind) == {i \in DOMAIN o : o[i].kind = kind}
ToolRuns == at \in {"tool", "calling"}

\* Before the end the stream holds tool events only, in pairs but for the tool
\* that runs, and the rejected iterations are the replays spent.
StreamInv ==
  /\ out \in Seq(Ev)
  /\ mode = "block" => out = <<>>
  /\ at # "done" =>
       /\ result = "none"
       /\ \A i \in DOMAIN out : out[i].kind \in {"toolStart", "toolDone"}
       /\ Cardinality(Of(out, "toolStart")) =
            Cardinality(Of(out, "toolDone")) + (IF mode = "stream" /\ ToolRuns THEN 1 ELSE 0)
       /\ rejected \subseteq 0 .. turn - 1
       /\ Cardinality(rejected) + replays = ReplayLimit
       /\ IF InTools THEN ~isReplay ELSE (isReplay <=> turn - 1 \in rejected)
  /\ at = "done" => StreamShowsOnlyTheReply

LEMMA OfFinite ==
    ASSUME NEW o \in Seq(Ev), NEW k
    PROVE  IsFiniteSet(Of(o, k)) /\ Cardinality(Of(o, k)) \in Nat
  <1>1. Of(o, k) \subseteq 1 .. Len(o) /\ Len(o) \in Nat
    BY DEF Of
  <1>2. IsFiniteSet(1 .. Len(o))
    BY <1>1, FS_Interval
  <1> QED
    BY <1>1, <1>2, FS_Subset, FS_CardinalityType

LEMMA OneEvent ==
    ASSUME NEW o \in Seq(Ev), NEW e \in Ev, NEW k
    PROVE  /\ Append(o, e) \in Seq(Ev) /\ o \o <<e>> = Append(o, e)
           /\ Cardinality(Of(Append(o, e), k)) =
                IF e.kind = k THEN Cardinality(Of(o, k)) + 1 ELSE Cardinality(Of(o, k))
  <1> DEFINE p == Append(o, e)
             n == Len(o) + 1
  <1>1. /\ p \in Seq(Ev) /\ o \o <<e>> = p
        /\ Len(o) \in Nat /\ DOMAIN o = 1 .. Len(o) /\ DOMAIN p = 1 .. n
        /\ p[n] = e /\ \A j \in DOMAIN o : p[j] = o[j]
    OBVIOUS
  <1> HIDE DEF p, n
  <1>2. CASE e.kind = k
    <2>1. Of(p, k) = Of(o, k) \cup {n} /\ n \notin Of(o, k)
      BY <1>1, <1>2 DEF Of, n
    <2>2. Cardinality(Of(p, k)) = Cardinality(Of(o, k)) + 1
      BY <2>1, OfFinite, FS_AddElement
    <2> QED
      BY <1>1, <1>2, <2>2 DEF p
  <1>3. CASE e.kind # k
    <2>1. Of(p, k) = Of(o, k)
      BY <1>1, <1>3 DEF Of, n
    <2> QED
      BY <1>1, <1>3, <2>1 DEF p
  <1> QED
    BY <1>2, <1>3

\* The last events of a turn t: text or thinking, then "done".
Closing(es, t) ==
  /\ Len(es) >= 1 /\ es[Len(es)].kind = "done"
  /\ \A i \in 1 .. Len(es) - 1 : es[i].kind \in {"text", "thinking"} /\ es[i].turn = t

\* What they make of the tool events before them.
LEMMA LastEvents ==
    ASSUME NEW o \in Seq(Ev), NEW es \in Seq(Ev), NEW t \in Nat, Closing(es, t),
           \A i \in DOMAIN o : o[i].kind \in {"toolStart", "toolDone"}
    PROVE  LET p == o \o es IN
           /\ p \in Seq(Ev)
           /\ \A i \in Of(p, "text") \cup Of(p, "thinking") : p[i].turn = t /\ Len(es) > 1
           /\ \A i \in Of(p, "thinking") : \E j \in 1 .. Len(es) - 1 : es[j].kind = "thinking"
           /\ Of(p, "done") = {Len(p)}
           /\ Of(p, "toolStart") = Of(o, "toolStart") /\ Of(p, "toolDone") = Of(o, "toolDone")
  <1> DEFINE p == o \o es
             a == Len(o)
             b == Len(es)
  <1>1. /\ p \in Seq(Ev) /\ Len(p) = a + b /\ DOMAIN p = 1 .. a + b
        /\ a \in Nat /\ b \in Nat /\ b >= 1 /\ DOMAIN o = 1 .. a
        /\ \A i \in 1 .. a : p[i] = o[i]
        /\ \A i \in (a + 1) .. (a + b) : p[i] = es[i - a]
    BY DEF Closing
  <1> HIDE DEF p
  <1>2. p[a + b].kind = "done"
    BY <1>1 DEF Closing
  <1>3. ASSUME NEW i \in (a + 1) .. (a + b - 1)
        PROVE  p[i].kind \in {"text", "thinking"} /\ p[i].turn = t /\ b > 1 /\ p[i] = es[i - a] /\ i - a \in 1 .. b - 1
    BY <1>1 DEF Closing
  <1>4. \A i \in 1 .. a + b : i \in 1 .. a \/ i \in (a + 1) .. (a + b - 1) \/ i = a + b
    BY <1>1
  <1>5. \A i \in 1 .. a : p[i].kind \in {"toolStart", "toolDone"}
    BY <1>1
  <1>6. /\ \A i \in Of(p, "text") \cup Of(p, "thinking") : i \in (a + 1) .. (a + b - 1)
        /\ Of(p, "done") = {a + b}
    <2>1. /\ \A k : Of(p, k) \subseteq 1 .. a + b /\ \A i \in Of(p, k) : p[i].kind = k
          /\ a + b \in 1 .. a + b /\ a + b \in DOMAIN p
      BY <1>1 DEF Of
    <2>2. a + b \in Of(p, "done")
      BY <1>2, <2>1 DEF Of
    <2>3. ASSUME NEW i \in 1 .. a + b, p[i].kind = "done" PROVE i = a + b
      BY <1>3, <1>4, <1>5, <2>3
    <2>4. ASSUME NEW i \in 1 .. a + b, p[i].kind \in {"text", "thinking"} PROVE i \in (a + 1) .. (a + b - 1)
      BY <1>2, <1>4, <1>5, <2>4
    <2> HIDE DEF a, b
    <2> QED
      BY <2>1, <2>2, <2>3, <2>4
  <1>7. /\ \A i \in Of(p, "text") \cup Of(p, "thinking") : p[i].turn = t /\ b > 1
        /\ \A i \in Of(p, "thinking") : \E j \in 1 .. b - 1 : es[j].kind = "thinking"
    BY <1>3, <1>6 DEF Of
  <1>8. \A k \in {"toolStart", "toolDone"} : Of(p, k) = Of(o, k)
    <2>1. ASSUME NEW i \in 1 .. a + b, p[i].kind \in {"toolStart", "toolDone"} PROVE i \in 1 .. a
      BY <1>2, <1>3, <1>4, <2>1
    <2>2. 1 .. a \subseteq 1 .. a + b
      BY <1>1
    <2> HIDE DEF a, b
    <2> QED
      BY <1>1, <2>1, <2>2 DEF Of
  <1> QED
    BY <1>1, <1>6, <1>7, <1>8 DEF p

\* The end of a turn: what Finish shows, when the result allows the events.
LEMMA StreamEnds ==
    ASSUME TypeInv, StreamInv, at # "done", ~ToolRuns, mode' = mode, turn' = turn,
           NEW kind, NEW events \in Seq(Ev), Finish(kind, events),
           \A i \in DOMAIN events : /\ events[i].kind \in {"text", "thinking"}
                                    /\ events[i].turn = turn /\ kind \in {"ok", "context_limit"},
           (\E i \in DOMAIN events : events[i].kind = "thinking") => turn - 1 \notin rejected',
           kind = "ok" /\ turn \in rejected' => replays' = 0,
           Cardinality(rejected' \ {turn}) <= ReplayLimit
    PROVE  StreamInv'
  <1> DEFINE es == Append(events, Event("done"))
  <1>1. turn \in Nat /\ mode \in {"block", "stream"}
    BY Limits DEF TypeInv, LoopTyped
  <1>2. Event("done") \in Ev /\ Event("done").kind = "done"
    BY <1>1 DEF Event, Ev
  <1>3. at' = "done" /\ result' = kind /\ out' = IF mode = "stream" THEN out \o es ELSE out
    BY DEF Finish, Yield
  <1>4. /\ es \in Seq(Ev) /\ Len(es) = Len(events) + 1 /\ Len(events) \in Nat /\ DOMAIN events = 1 .. Len(events)
        /\ es[Len(es)] = Event("done") /\ \A i \in 1 .. Len(events) : es[i] = events[i]
    BY <1>2
  <1>5. /\ out \in Seq(Ev) /\ \A i \in DOMAIN out : out[i].kind \in {"toolStart", "toolDone"}
        /\ Cardinality(Of(out, "toolStart")) = Cardinality(Of(out, "toolDone"))
        /\ mode = "block" => out = <<>>
    BY OfFinite DEF StreamInv
  <1> HIDE DEF es
  <1>6. CASE mode = "stream"
    <2>1. Closing(es, turn)
      BY <1>2, <1>4 DEF Closing
    <2>2. out' = out \o es
      BY <1>3, <1>6
    <2>3. /\ out' \in Seq(Ev)
          /\ \A i \in Of(out', "text") \cup Of(out', "thinking") : out'[i].turn = turn /\ Len(es) > 1
          /\ \A i \in Of(out', "thinking") : \E j \in 1 .. Len(es) - 1 : es[j].kind = "thinking"
          /\ Of(out', "done") = {Len(out')}
          /\ Of(out', "toolStart") = Of(out, "toolStart") /\ Of(out', "toolDone") = Of(out, "toolDone")
      <3> DEFINE o == out
      <3>1. o \in Seq(Ev) /\ \A i \in DOMAIN o : o[i].kind \in {"toolStart", "toolDone"}
        BY <1>5
      <3>2. es \in Seq(Ev) /\ turn \in Nat
        BY <1>1, <1>4
      <3> HIDE DEF o
      <3>3. LET p == o \o es IN
           /\ p \in Seq(Ev)
           /\ \A i \in Of(p, "text") \cup Of(p, "thinking") : p[i].turn = turn /\ Len(es) > 1
           /\ \A i \in Of(p, "thinking") : \E j \in 1 .. Len(es) - 1 : es[j].kind = "thinking"
           /\ Of(p, "done") = {Len(p)}
           /\ Of(p, "toolStart") = Of(o, "toolStart") /\ Of(p, "toolDone") = Of(o, "toolDone")
        BY <2>1, <3>1, <3>2, LastEvents
      <3>4. out' = o \o es /\ o = out
        BY <2>2 DEF o
      <3> QED
        BY <3>3, <3>4
    <2>4. \A i \in Of(out', "text") \cup Of(out', "thinking") : kind \in {"ok", "context_limit"}
      BY <1>4, <2>3
    <2>5. \A i \in Of(out', "thinking") : turn - 1 \notin rejected'
      BY <1>4, <2>3
    <2>6. StreamShowsOnlyTheReply'
      BY <1>3, <1>5, <1>6, <2>3, <2>4, <2>5 DEF StreamShowsOnlyTheReply, Of
    <2> QED
      BY <1>3, <1>6, <2>3, <2>6 DEF StreamInv
  <1>7. CASE mode = "block"
    <2>1. out' = <<>> /\ out' \in Seq(Ev)
      BY <1>3, <1>5, <1>7
    <2>2. \A k : Of(out', k) = {}
      BY <2>1 DEF Of
    <2>3. StreamShowsOnlyTheReply'
      BY <1>3, <1>7, <2>2 DEF StreamShowsOnlyTheReply, Of
    <2> QED
      BY <1>3, <1>7, <2>1, <2>3 DEF StreamInv
  <1> QED
    BY <1>1, <1>6, <1>7

\* A step that shows nothing and does not end the turn.
LEMMA StreamStill ==
    ASSUME StreamInv, at # "done", at' # "done",
           UNCHANGED <<out, mode, result, rejected, replays, isReplay, turn>>,
           ToolRuns <=> ToolRuns', InTools <=> InTools'
    PROVE  StreamInv'
  <1>1. isReplay' <=> isReplay
    OBVIOUS
  <1>2. /\ out \in Seq(Ev) /\ (mode = "block" => out = <<>>) /\ result = "none"
        /\ \A i \in DOMAIN out : out[i].kind \in {"toolStart", "toolDone"}
        /\ Cardinality(Of(out, "toolStart")) =
             Cardinality(Of(out, "toolDone")) + (IF mode = "stream" /\ ToolRuns THEN 1 ELSE 0)
        /\ rejected \subseteq 0 .. turn - 1 /\ Cardinality(rejected) + replays = ReplayLimit
        /\ IF InTools THEN ~isReplay ELSE (isReplay <=> turn - 1 \in rejected)
    BY DEF StreamInv
  <1> QED
    BY <1>1, <1>2 DEF StreamInv

\* A tool that starts, finishes, or does both, and where the turn is then.
LEMMA StreamTool ==
    ASSUME TypeInv, StreamInv, InTools, at' # "done",
           UNCHANGED <<mode, result, rejected, replays, isReplay>>,
           \/ ~ToolRuns /\ ToolRuns' /\ Yield(<<Event("toolStart")>>)
           \/ ToolRuns /\ ~ToolRuns' /\ Yield(<<Event("toolDone")>>)
           \/ ~ToolRuns /\ ~ToolRuns' /\ Yield(<<Event("toolStart"), Event("toolDone")>>),
           (InTools' /\ turn' = turn) \/ (~InTools' /\ turn' = turn + 1)
    PROVE  StreamInv'
  <1> DEFINE s == Event("toolStart")
             d == Event("toolDone")
  <1>1. turn \in Nat /\ mode \in {"block", "stream"} /\ at # "done"
    BY Limits DEF TypeInv, LoopTyped, InTools
  <1>2. /\ out \in Seq(Ev) /\ result = "none" /\ (mode = "block" => out = <<>>)
        /\ \A i \in DOMAIN out : out[i].kind \in {"toolStart", "toolDone"}
        /\ Cardinality(Of(out, "toolStart")) =
             Cardinality(Of(out, "toolDone")) + (IF mode = "stream" /\ ToolRuns THEN 1 ELSE 0)
        /\ rejected \subseteq 0 .. turn - 1 /\ Cardinality(rejected) + replays = ReplayLimit /\ ~isReplay
    BY <1>1 DEF StreamInv
  <1>3. s \in Ev /\ d \in Ev /\ s.kind = "toolStart" /\ d.kind = "toolDone"
    BY <1>1 DEF Event, Ev
  <1>4. rejected' \subseteq 0 .. turn' - 1 /\ (~InTools' => turn' - 1 \notin rejected')
    BY <1>1, <1>2
  <1>5. ASSUME /\ out' \in Seq(Ev) /\ (mode = "block" => out' = <<>>)
               /\ \A i \in DOMAIN out' : out'[i].kind \in {"toolStart", "toolDone"}
               /\ Cardinality(Of(out', "toolStart")) =
                    Cardinality(Of(out', "toolDone")) + (IF mode = "stream" /\ ToolRuns' THEN 1 ELSE 0)
        PROVE  StreamInv'
    <2>1. isReplay' <=> FALSE
      BY <1>2
    <2> QED
      BY <1>2, <1>4, <1>5, <2>1 DEF StreamInv
  <1> HIDE DEF s, d
  <1>6. CASE mode = "block"
    <2>1. out' = <<>>
      BY <1>2, <1>6 DEF Yield
    <2>2. \A k : Of(out', k) = {}
      BY <2>1 DEF Of
    <2>3. Cardinality(Of(out', "toolStart")) = 0 /\ Cardinality(Of(out', "toolDone")) = 0
      BY <2>2, FS_EmptySet
    <2> QED
      BY <1>5, <1>6, <2>1, <2>3
  <1>7. CASE mode = "stream"
    <2>0. \A k : Cardinality(Of(out, k)) \in Nat
      BY <1>2, OfFinite
    <2>1. CASE ~ToolRuns /\ ToolRuns' /\ out' = out \o <<s>>
      <3>1. out' = Append(out, s) /\ out' \in Seq(Ev)
        BY <1>2, <1>3, <2>1, OneEvent
      <3>2. \A i \in DOMAIN out' : out'[i].kind \in {"toolStart", "toolDone"}
        BY <1>2, <1>3, <3>1
      <3>3. /\ Cardinality(Of(out', "toolStart")) = Cardinality(Of(out, "toolStart")) + 1
            /\ Cardinality(Of(out', "toolDone")) = Cardinality(Of(out, "toolDone"))
        BY <1>2, <1>3, <3>1, OneEvent
      <3> QED
        BY <1>2, <1>5, <1>7, <2>0, <2>1, <3>1, <3>2, <3>3
    <2>2. CASE ToolRuns /\ ~ToolRuns' /\ out' = out \o <<d>>
      <3>1. out' = Append(out, d) /\ out' \in Seq(Ev)
        BY <1>2, <1>3, <2>2, OneEvent
      <3>2. \A i \in DOMAIN out' : out'[i].kind \in {"toolStart", "toolDone"}
        BY <1>2, <1>3, <3>1
      <3>3. /\ Cardinality(Of(out', "toolStart")) = Cardinality(Of(out, "toolStart"))
            /\ Cardinality(Of(out', "toolDone")) = Cardinality(Of(out, "toolDone")) + 1
        BY <1>2, <1>3, <3>1, OneEvent
      <3> QED
        BY <1>2, <1>5, <1>7, <2>0, <2>2, <3>1, <3>2, <3>3
    <2>3. CASE ~ToolRuns /\ ~ToolRuns' /\ out' = out \o <<s, d>>
      <3> DEFINE o == Append(out, s)
      <3>1. o \in Seq(Ev) /\ out' = Append(o, d) /\ out' \in Seq(Ev)
        BY <1>2, <1>3, <2>3
      <3>2. \A i \in DOMAIN out' : out'[i].kind \in {"toolStart", "toolDone"}
        BY <1>2, <1>3, <3>1
      <3>3. /\ Cardinality(Of(o, "toolStart")) = Cardinality(Of(out, "toolStart")) + 1
            /\ Cardinality(Of(o, "toolDone")) = Cardinality(Of(out, "toolDone"))
        BY <1>2, <1>3, OneEvent
      <3> HIDE DEF o
      <3>4. /\ Cardinality(Of(out', "toolStart")) = Cardinality(Of(o, "toolStart"))
            /\ Cardinality(Of(out', "toolDone")) = Cardinality(Of(o, "toolDone")) + 1
        BY <1>3, <3>1, OneEvent
      <3> QED
        BY <1>2, <1>5, <1>7, <2>0, <2>3, <3>1, <3>2, <3>3, <3>4
    <2> QED
      BY <1>7, <2>1, <2>2, <2>3 DEF Yield, s, d
  <1> QED
    BY <1>1, <1>6, <1>7

LEMMA StreamInit == Init => StreamInv
  <1> SUFFICES ASSUME Init PROVE StreamInv
    OBVIOUS
  <1>1. /\ out = <<>> /\ at = "top" /\ result = "none" /\ rejected = {} /\ replays = ReplayLimit
        /\ ~isReplay /\ turn = 0
    BY DEF Init
  <1>2. \A k : Of(out, k) = {}
    BY <1>1 DEF Of
  <1>3. Cardinality({}) = 0
    BY FS_EmptySet
  <1>4. out \in Seq(Ev) /\ DOMAIN out = {}
    BY <1>1
  <1>5. /\ ~ToolRuns /\ ~InTools /\ at # "done"
        /\ Cardinality(Of(out, "toolStart")) = 0 /\ Cardinality(Of(out, "toolDone")) = 0
        /\ rejected \subseteq 0 .. turn - 1 /\ Cardinality(rejected) + replays = ReplayLimit
    <2>1. ~ToolRuns /\ ~InTools /\ at # "done"
      BY <1>1 DEF ToolRuns, InTools
    <2>2. Of(out, "toolStart") = {} /\ Of(out, "toolDone") = {}
      BY <1>2
    <2>3. rejected \subseteq 0 .. turn - 1 /\ Cardinality(rejected) = 0
      BY <1>1, <1>3
    <2>4. Cardinality(Of(out, "toolStart")) = 0 /\ Cardinality(Of(out, "toolDone")) = 0
      BY <1>3, <2>2
    <2>5. replays = ReplayLimit /\ ReplayLimit \in Nat
      BY <1>1, Limits
    <2>6. Cardinality(rejected) + replays = ReplayLimit
      BY <2>3, <2>5
    <2> QED
      BY <2>1, <2>3, <2>4, <2>6
  <1>6. isReplay <=> turn - 1 \in rejected
    BY <1>1
  <1> QED
    BY <1>1, <1>4, <1>5, <1>6 DEF StreamInv

\* What was rejected before the end are the replays spent.
LEMMA Spending ==
    ASSUME TypeInv, StreamInv, at # "done"
    PROVE  /\ turn \in Nat /\ replays \in Nat /\ IsFiniteSet(rejected) /\ turn \notin rejected
           /\ Cardinality(rejected) \in Nat /\ Cardinality(rejected) <= ReplayLimit
           /\ rejected \ {turn} = rejected /\ (rejected \cup {turn}) \ {turn} = rejected
           /\ Cardinality(rejected \cup {turn}) = Cardinality(rejected) + 1
           /\ result = "none"
  <1>1. /\ turn \in Nat /\ replays \in Nat /\ rejected \subseteq 0 .. turn - 1
        /\ Cardinality(rejected) + replays = ReplayLimit /\ result = "none"
    BY Limits DEF TypeInv, LoopTyped, StreamInv
  <1>2. IsFiniteSet(0 .. turn - 1)
    BY <1>1, FS_Interval
  <1>3. IsFiniteSet(rejected) /\ Cardinality(rejected) \in Nat
    BY <1>1, <1>2, FS_Subset, FS_CardinalityType
  <1>4. turn \notin rejected
    BY <1>1
  <1>5. Cardinality(rejected \cup {turn}) = Cardinality(rejected) + 1
    BY <1>3, <1>4, FS_AddElement
  <1>6. rejected \ {turn} = rejected /\ (rejected \cup {turn}) \ {turn} = rejected
    BY <1>4
  <1> QED
    BY <1>1, <1>3, <1>4, <1>5, <1>6, Limits

LEMMA StreamAnswer == TypeInv /\ StreamInv /\ ModelAnswers => StreamInv'
  <1> SUFFICES ASSUME TypeInv, StreamInv, ModelAnswers PROVE StreamInv'
    OBVIOUS
  <1>1. at # "done" /\ ~ToolRuns /\ ~InTools /\ mode' = mode
    BY DEF ModelAnswers, ToolRuns, InTools, options
  <1>2. /\ turn \in Nat /\ replays \in Nat /\ turn \notin rejected
        /\ Cardinality(rejected) \in Nat /\ Cardinality(rejected) <= ReplayLimit
        /\ rejected \ {turn} = rejected /\ (rejected \cup {turn}) \ {turn} = rejected
        /\ Cardinality(rejected \cup {turn}) = Cardinality(rejected) + 1
    BY <1>1, Spending
  <1>3. /\ out \in Seq(Ev) /\ result = "none" /\ (mode = "block" => out = <<>>)
        /\ \A i \in DOMAIN out : out[i].kind \in {"toolStart", "toolDone"}
        /\ Cardinality(Of(out, "toolStart")) = Cardinality(Of(out, "toolDone")) + (IF mode = "stream" /\ ToolRuns THEN 1 ELSE 0)
        /\ rejected \subseteq 0 .. turn - 1 /\ Cardinality(rejected) + replays = ReplayLimit
        /\ (isReplay <=> turn - 1 \in rejected)
    BY <1>1 DEF StreamInv
  <1>4. CASE Replay
    <2>1. /\ at' = "top" /\ turn' = turn + 1 /\ out' = out /\ result' = result
          /\ rejected' = rejected \cup {turn} /\ replays' = replays - 1 /\ isReplay' = TRUE
      BY <1>4 DEF Replay, DropBuffers
    <2>2. /\ ~ToolRuns' /\ ~InTools' /\ rejected' \subseteq 0 .. turn' - 1 /\ turn' - 1 \in rejected'
          /\ Cardinality(rejected') + replays' = ReplayLimit
      BY <1>2, <1>3, <2>1 DEF ToolRuns, InTools
    <2>3. isReplay' <=> turn' - 1 \in rejected'
      BY <2>1, <2>2
    <2> QED
      BY <1>1, <1>3, <2>1, <2>2, <2>3 DEF StreamInv
  <1>5. ASSUME NEW ok \in BOOLEAN, FinalReply(ok) PROVE StreamInv'
    <2> DEFINE events == IF isReplay THEN <<Event("text")>> ELSE <<Event("thinking"), Event("text")>>
    <2>1. /\ Finish("ok", events) /\ UNCHANGED <<turn, replays>> /\ (ok \/ ~(replays > 0))
          /\ rejected' = IF ok THEN rejected ELSE rejected \cup {turn}
      BY <1>5 DEF FinalReply, ReplayLeft
    <2>2. /\ Event("text") \in Ev /\ Event("text").kind = "text" /\ Event("text").turn = turn
          /\ Event("thinking") \in Ev /\ Event("thinking").kind = "thinking" /\ Event("thinking").turn = turn
      BY <1>2 DEF Event, Ev
    <2>3. /\ events \in Seq(Ev)
          /\ \A i \in DOMAIN events : events[i].kind \in {"text", "thinking"} /\ events[i].turn = turn
          /\ (\E i \in DOMAIN events : events[i].kind = "thinking") => ~isReplay
      <3>1. CASE isReplay
        <4>1. events = <<Event("text")>>
          BY <3>1
        <4> HIDE DEF events
        <4> QED
          BY <2>2, <4>1
      <3>2. CASE ~isReplay
        <4>1. events = <<Event("thinking"), Event("text")>>
          BY <3>2
        <4> HIDE DEF events
        <4> QED
          BY <2>2, <3>2, <4>1
      <3> QED
        BY <3>1, <3>2
    <2>4. (\E i \in DOMAIN events : events[i].kind = "thinking") => turn - 1 \notin rejected'
      BY <1>2, <1>3, <2>1, <2>3
    <2>5. (turn \in rejected' => replays' = 0) /\ Cardinality(rejected' \ {turn}) <= ReplayLimit
      BY <1>2, <2>1
    <2>6. turn' = turn
      BY <2>1
    <2> HIDE DEF events
    <2> QED
      BY <1>1, <2>1, <2>3, <2>4, <2>5, <2>6, StreamEnds
  <1>6. ASSUME NEW n \in 1 .. MaxCalls, ToolCalls(n) PROVE StreamInv'
    <2>1. /\ at' = "tools" /\ UNCHANGED <<turn, replays, rejected, out, result>> /\ isReplay' = FALSE
      BY <1>6 DEF ToolCalls
    <2>2. ~ToolRuns' /\ InTools' /\ ~isReplay'
      BY <2>1 DEF ToolRuns, InTools
    <2> QED
      BY <1>1, <1>3, <2>1, <2>2 DEF StreamInv
  <1>7. CASE Recover
    <2>1. at' = "recover" /\ UNCHANGED <<turn, replays, rejected, out, result, isReplay>>
      BY <1>7 DEF Recover
    <2>2. (ToolRuns <=> ToolRuns') /\ (InTools <=> InTools') /\ at' # "done"
      BY <1>1, <2>1 DEF ToolRuns, InTools
    <2> QED
      BY <1>1, <2>1, <2>2, StreamStill
  <1> QED
    BY <1>4, <1>5, <1>6, <1>7 DEF ModelAnswers, Completed

\* A turn that ends without an answer, or with the word that its context is full.
LEMMA StreamStops ==
    ASSUME TypeInv, StreamInv, at # "done", ~ToolRuns,
           UNCHANGED <<mode, turn, rejected, replays>>,
           \/ \E kind \in {"max_turns", "aborted", "model_error"} : Finish(kind, <<>>)
           \/ Finish("context_limit", <<Event("text")>>)
    PROVE  StreamInv'
  <1>1. /\ turn \in Nat /\ Cardinality(rejected' \ {turn}) <= ReplayLimit /\ mode' = mode /\ turn' = turn
    BY Spending
  <1>2. ASSUME NEW kind \in {"max_turns", "aborted", "model_error"}, Finish(kind, <<>>) PROVE StreamInv'
    <2> DEFINE events == <<>>
    <2>1. events \in Seq(Ev) /\ DOMAIN events = {} /\ Finish(kind, events) /\ kind # "ok"
      BY <1>2
    <2> HIDE DEF events
    <2> QED
      BY <1>1, <2>1, StreamEnds
  <1>3. CASE Finish("context_limit", <<Event("text")>>)
    <2> DEFINE events == <<Event("text")>>
    <2>1. Event("text") \in Ev /\ Event("text").kind = "text" /\ Event("text").turn = turn
      BY <1>1 DEF Event, Ev
    <2>2. /\ events \in Seq(Ev) /\ Finish("context_limit", events)
          /\ \A i \in DOMAIN events : events[i].kind = "text" /\ events[i].turn = turn
      BY <1>3, <2>1
    <2> HIDE DEF events
    <2> QED
      BY <1>1, <2>2, StreamEnds
  <1> QED
    BY <1>2, <1>3

LEMMA StreamNext == TypeInv /\ StreamInv /\ [Next]_vars => StreamInv'
  <1> SUFFICES ASSUME TypeInv, StreamInv, [Next]_vars PROVE StreamInv'
    OBVIOUS
  <1>1. CASE MaxTurnsReached \/ TopAborted \/ ContextLimit \/ ToolsAborted
    BY <1>1, StreamStops DEF MaxTurnsReached, TopAborted, ContextLimit, ToolsAborted, ToolRuns, options, budgets
  <1>2. CASE StartCompaction \/ StartCall \/ CompactionDone
    BY <1>2, StreamStill DEF StartCompaction, StartCall, CompactionDone, ToolRuns, InTools, options, budgets
  <1>3. CASE ReactiveDone \/ PrimaryTooLong \/ RetriedFails
    BY <1>3, StreamStill DEF ReactiveDone, PrimaryTooLong, RetriedFails, NextCall, ToolRuns, InTools,
                             options, budgets
  <1>4. CASE ModelAnswers
    BY <1>4, StreamAnswer
  <1>5. CASE PrimaryFails \/ AgainFails \/ FallbackFails \/ RecoverFails
    <2>1. /\ at # "done" /\ ~ToolRuns /\ ~InTools
          /\ UNCHANGED <<mode, turn, rejected, replays, isReplay>>
          /\ (\E w \in {"again", "fallback", "recoverFallback"} : NextCall(w)) \/ Finish("model_error", <<>>)
      BY <1>5 DEF PrimaryFails, AgainFails, FallbackFails, RecoverFails, GiveUp, Fail, ToolRuns, InTools,
                  options, budgets
    <2>2. ASSUME NEW w \in {"again", "fallback", "recoverFallback"}, NextCall(w) PROVE StreamInv'
      <3>1. at' = w /\ out' = out /\ result' = result
        BY <2>2 DEF NextCall
      <3>2. ~ToolRuns' /\ ~InTools' /\ at' # "done"
        BY <3>1 DEF ToolRuns, InTools
      <3> QED
        BY <2>1, <3>1, <3>2, StreamStill
    <2>3. CASE Finish("model_error", <<>>)
      BY <2>1, <2>3, StreamStops
    <2> QED
      BY <2>1, <2>2, <2>3
  <1>6. CASE ToolCalled \/ ToolTransient
    BY <1>6, StreamStill DEF ToolCalled, ToolTransient, ToolRuns, InTools, options, budgets
  <1>7. CASE ToolStarts \/ ToolRejected \/ ToolAborted \/ ToolReturns
    <2>1. /\ InTools /\ UNCHANGED <<mode, result, rejected, replays, isReplay>>
          /\ \/ ~ToolRuns /\ ToolRuns' /\ Yield(<<Event("toolStart")>>)
             \/ ToolRuns /\ ~ToolRuns' /\ Yield(<<Event("toolDone")>>)
             \/ ~ToolRuns /\ ~ToolRuns' /\ Yield(<<Event("toolStart"), Event("toolDone")>>)
      BY <1>7 DEF ToolStarts, ToolRejected, ToolAborted, ToolReturns, NextTool, ToolRuns, InTools, options, budgets
    <2>2. ((InTools' /\ turn' = turn) \/ (~InTools' /\ turn' = turn + 1)) /\ at' # "done"
      <3>1. CASE ToolStarts
        <4>1. at' = "tool" /\ turn' = turn
          BY <3>1 DEF ToolStarts
        <4> QED
          BY <4>1 DEF InTools
      <3>2. CASE ToolRejected \/ ToolAborted \/ ToolReturns
        <4>1. NextTool
          BY <3>2 DEF ToolRejected, ToolAborted, ToolReturns
        <4>2. (at' = "top" /\ turn' = turn + 1) \/ (at' = "tools" /\ turn' = turn)
          BY <4>1 DEF NextTool
        <4> QED
          BY <4>2 DEF InTools
      <3> QED
        BY <1>7, <3>1, <3>2
    <2> QED
      BY <2>1, <2>2, StreamTool
  <1>8. CASE Abort
    BY <1>8, StreamStill DEF Abort, ToolRuns, InTools, options, budgets
  <1>9. CASE Done \/ UNCHANGED vars
    <2>1. UNCHANGED <<out, mode, result, rejected, replays, isReplay, turn, at>>
      BY <1>9 DEF Done, vars, options, budgets
    <2> QED
      BY <2>1 DEF StreamInv, StreamShowsOnlyTheReply, ToolRuns, InTools
  <1> QED
    BY <1>1, <1>2, <1>3, <1>4, <1>5, <1>6, <1>7, <1>8, <1>9 DEF Next, LoopStep

\* What the stream shows is the answer, checked, complete and once, whatever is
\* rejected, fails or is aborted on the way.
THEOREM StreamIsTheReply == Spec => []StreamShowsOnlyTheReply
  <1>1. Init => TypeInv /\ StreamInv
    BY TypeInit, StreamInit
  <1>2. TypeInv /\ StreamInv /\ [Next]_vars => TypeInv' /\ StreamInv'
    BY TypeNext, StreamNext
  <1>3. TypeInv /\ StreamInv => StreamShowsOnlyTheReply
    <2> SUFFICES ASSUME TypeInv, StreamInv, at # "done" PROVE StreamShowsOnlyTheReply
      BY DEF StreamInv
    <2>1. /\ \A i \in DOMAIN out : out[i].kind \in {"toolStart", "toolDone"}
          /\ result = "none"
      BY DEF StreamInv
    <2>2. Cardinality(rejected) <= ReplayLimit /\ rejected \ {} = rejected
      BY Spending
    <2> QED
      BY <2>1, <2>2 DEF StreamShowsOnlyTheReply
  <1> QED
    BY <1>1, <1>2, <1>3, PTL DEF Spec
=============================================================================
