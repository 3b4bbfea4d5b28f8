--------------------------- MODULE RefusalBubbles ---------------------------
(***************************************************************************)
(* The bubble of a refused change in the chat, and the two streams behind  *)
(* it: a rewrite of its text by the language model, and one signal about   *)
(* sections for each term it touches.  Both run on while the student       *)
(* answers the bubble, gets other bubbles, and plans are stored.           *)
(*                                                                         *)
(* A text is the sequence of its parts: 0 is the template of the bubble,   *)
(* i the i-th chunk of the rewrite.  Of the stored plan only the terms     *)
(* with a concrete course count.                                           *)
(***************************************************************************)
EXTENDS Integers, Sequences, FiniteSets

CONSTANTS
  BubbleTerms,   \* the lists of terms a refused change may touch
  PlannedTerms,  \* the plans that may be stored, each the set of its course terms
  MaxBubbles,    \* bound on the bubbles
  MaxChunks,     \* bound on the chunks of a rewrite
  MaxFrames      \* bound on the frames the two routes write

\* The terms of a change are a set, computed in an order.
ASSUME BubbleAssumption ==
  /\ \A ts \in BubbleTerms :
       /\ ts \in Seq(STRING \ {"stage2"})
       /\ \A j, k \in DOMAIN ts : ts[j] = ts[k] => j = k
  /\ MaxBubbles \in Nat /\ MaxChunks \in Nat /\ MaxFrames \in Nat

VARIABLES
  bubbles,       \* the bubbles in the order they were made
  feeds,         \* their streams, by name
  planned,       \* the plan stored
  emitted         \* number of frames written

bubbleVars == <<bubbles, feeds, planned, emitted>>

Template == <<0>>
NoneStored == {"none"}
NoFeed == [state |-> "none", inbox |-> <<>>, sent |-> 0, plan |-> NoneStored]
Feed == [NoFeed EXCEPT !.state = "asked"]
Streams == {"polish", "stage2"}
NoSignals == [t \in {} |-> "none"]

InitBubbleState(hard, terms) ==
  [hard |-> hard, terms |-> terms, text |-> Template, polish |-> "idle",
   signals |-> NoSignals, answer |-> "none", aborted |-> FALSE]

-----------------------------------------------------------------------------
(* The reducers of the page.                                               *)

\* The first chunk replaces the template.
ApplyPolishEvent(b, f) ==
  CASE f.kind = "chunk" ->
         [b EXCEPT !.text = IF b.polish = "streaming" THEN Append(@, f.nr) ELSE <<f.nr>>,
                   !.polish = "streaming"]
    [] f.kind = "done"  -> [b EXCEPT !.text = [i \in 1..f.nr |-> i], !.polish = "done"]
    [] f.kind = "error" -> [b EXCEPT !.polish = "error"]

\* The last signal of a term counts; a failure of the stream has a key of its own.
ApplyStage2Event(b, f) ==
  IF f.kind # "signal" THEN b
  ELSE [b EXCEPT !.signals = [t \in DOMAIN b.signals \cup {f.term} |->
                                IF t = f.term THEN f.status ELSE b.signals[t]]]

Frame(kind, nr) == [kind |-> kind, nr |-> nr, term |-> "none", status |-> "none"]
Signal(term, status) == [kind |-> "signal", nr |-> 0, term |-> term, status |-> status]
Failure(s) == IF s = "polish" THEN Frame("error", 0) ELSE Signal("stage2", "unavailable")

-----------------------------------------------------------------------------
(* The bubble.                                                             *)

\* A hard refusal gets no signals about terms it refuses.
SpawnBubbleEnrichers(hard, terms) ==
  [s \in Streams |-> IF s = "polish" \/ (terms # <<>> /\ ~hard) THEN Feed ELSE NoFeed]

HandlePlanActionResult ==
  /\ Len(bubbles) < MaxBubbles
  /\ \E hard \in BOOLEAN, terms \in BubbleTerms :
       /\ bubbles' = Append(bubbles, InitBubbleState(hard, terms))
       /\ feeds' = Append(feeds, SpawnBubbleEnrichers(hard, terms))
  /\ UNCHANGED <<planned, emitted>>

HasButtons(b) == ~b.hard /\ b.answer \in {"none", "failed"}
AbortBubbleEnrichers(b) == [b EXCEPT !.aborted = TRUE]

HandleBubbleConfirm(i) ==
  /\ HasButtons(bubbles[i])
  /\ bubbles' = [bubbles EXCEPT ![i] = [AbortBubbleEnrichers(@) EXCEPT !.answer = "confirming"]]
  /\ UNCHANGED <<feeds, planned, emitted>>

\* The buttons come back, the streams do not.
ConfirmFailed(i) ==
  /\ bubbles[i].answer = "confirming"
  /\ bubbles' = [bubbles EXCEPT ![i].answer = "failed"]
  /\ UNCHANGED <<feeds, planned, emitted>>

ConfirmApplied(i) ==
  /\ bubbles[i].answer = "confirming"
  /\ bubbles' = [bubbles EXCEPT ![i].answer = "applied"]
  /\ planned' \in PlannedTerms
  /\ UNCHANGED <<feeds, emitted>>

HandleBubbleKeepAsIs(i) ==
  /\ HasButtons(bubbles[i])
  /\ bubbles' = [bubbles EXCEPT ![i] = [AbortBubbleEnrichers(@) EXCEPT !.answer = "kept"]]
  /\ UNCHANGED <<feeds, planned, emitted>>

\* Another plan is stored, by a button or by the chat.
PlanStored == planned' \in PlannedTerms \ {planned} /\ UNCHANGED <<bubbles, feeds, emitted>>

\* An event that comes after the answer ends the reading of its stream.
TakeAnyway(i, s, b) == b
Take(i, s, b) == IF bubbles[i].aborted THEN bubbles[i] ELSE b

ReadEvent(i, s) ==
  LET feed == feeds[i][s]
      f == Head(feed.inbox)
      b == IF s = "polish" THEN ApplyPolishEvent(bubbles[i], f) ELSE ApplyStage2Event(bubbles[i], f)
  IN /\ feed.inbox # <<>>
     /\ bubbles' = [bubbles EXCEPT ![i] = Take(i, s, b)]
     /\ feeds' = [feeds EXCEPT ![i][s].inbox = Tail(@)]
     /\ UNCHANGED <<planned, emitted>>

-----------------------------------------------------------------------------
(* The two routes.                                                         *)

AnswerWith(i, s, from, feed) ==
  /\ feeds[i][s].state = from
  /\ feeds' = [feeds EXCEPT ![i][s] = feed]
  /\ UNCHANGED <<bubbles, planned>>

\* No answer, no session, no quota, a bad body, or no key of the model.
RouteRefuses(i, s) ==
  /\ AnswerWith(i, s, "asked", [feeds[i][s] EXCEPT !.state = "closed", !.inbox = <<Failure(s)>>])
  /\ UNCHANGED emitted

\* The rewriting is switched off on the server: no content.
SwitchedOff(i) ==
  /\ AnswerWith(i, "polish", "asked", [feeds[i]["polish"] EXCEPT !.state = "closed"])
  /\ UNCHANGED emitted

\* The plan is read once, when the stream begins; the read may fail.
RouteStreams(i, s) ==
  /\ \E p \in {planned, NoneStored} :
       AnswerWith(i, s, "asked", [feeds[i][s] EXCEPT !.state = "open", !.plan = IF s = "stage2" THEN p ELSE @])
  /\ UNCHANGED emitted

Write(i, s, f, state) ==
  /\ emitted < MaxFrames /\ emitted' = emitted + 1
  /\ AnswerWith(i, s, "open", [feeds[i][s] EXCEPT !.inbox = Append(@, f), !.sent = @ + 1, !.state = state])

PolishStreams(i) ==
  LET n == feeds[i]["polish"].sent
  IN \/ n < MaxChunks /\ Write(i, "polish", Frame("chunk", n + 1), "open")
     \/ Write(i, "polish", Frame("done", n), "closed")
     \/ Write(i, "polish", Failure("polish"), "closed")

\* The verdicts on a term: no plan, no course of the term in it, or what the
\* search for sections finds.
ClassifyTerm(plan, term) ==
  CASE plan = NoneStored   -> {"unavailable"}
    [] term \notin plan -> {"warn"}
    [] OTHER            -> {"ok", "warn", "unavailable"}

Stage2Streams(i) ==
  LET feed == feeds[i]["stage2"]
      terms == bubbles[i].terms
      term == terms[feed.sent + 1]
  IN \/ /\ feed.sent < Len(terms)
        /\ \E status \in ClassifyTerm(feed.plan, term) :
             Write(i, "stage2", Signal(term, status), "open")
     \/ feed.sent = Len(terms) /\ Write(i, "stage2", Frame("done", 0), "closed")

\* The connection breaks: a part of what was written is read, then the reader
\* makes an event of its own.
StreamFails(i, s) ==
  /\ \E n \in 0..Len(feeds[i][s].inbox) :
       AnswerWith(i, s, "open", [feeds[i][s] EXCEPT !.state = "closed",
                               !.inbox = Append(SubSeq(@, 1, n), Failure(s))])
  /\ UNCHANGED emitted

BubblesInit == bubbles = <<>> /\ feeds = <<>> /\ emitted = 0 /\ planned \in PlannedTerms

BubblesNext ==
  \/ HandlePlanActionResult \/ PlanStored
  \/ \E i \in DOMAIN bubbles :
       \/ HandleBubbleConfirm(i) \/ ConfirmFailed(i) \/ ConfirmApplied(i) \/ HandleBubbleKeepAsIs(i)
       \/ SwitchedOff(i) \/ PolishStreams(i) \/ Stage2Streams(i)
       \/ \E s \in Streams : ReadEvent(i, s) \/ RouteRefuses(i, s) \/ RouteStreams(i, s) \/ StreamFails(i, s)

BubblesSpec == BubblesInit /\ [][BubblesNext]_bubbleVars

-----------------------------------------------------------------------------
(* A bubble speaks for itself.  Its text is its template or a beginning of  *)
(* its own rewrite, and what was finished stays; the terms are told about   *)
(* once each, in their order, a hard refusal about none, and only a term    *)
(* with a course in the plan that was read is told to have sections.  Once  *)
(* the student has answered, nothing of it changes, also when the confirm   *)
(* fails and it asks again while its streams still have events             *)
(* (spawnBubbleEnrichers, applyPolishEvent, applyStage2Event, the routes).  *)
TextIsOwn(x, y) ==
  /\ y.text = Template \/ y.text = [k \in 1..Len(y.text) |-> k]
  /\ x.polish = "done" => y.text = x.text
Told(b) == DOMAIN b.signals \ {"stage2"}
SignalsAreOwn(x, y, plan) ==
  /\ \E m \in 0..Len(y.terms) : Told(y) = {y.terms[k] : k \in 1..m}
  /\ y.hard => DOMAIN y.signals = {}
  /\ \A t \in Told(y) :
       /\ t \in DOMAIN x.signals => y.signals[t] = x.signals[t]
       /\ y.signals[t] = "ok" => t \in plan
AnsweredRests(x, y) ==
  x.answer # "none" => y.text = x.text /\ y.polish = x.polish /\ y.signals = x.signals

Speaks(x, y, plan) == TextIsOwn(x, y) /\ SignalsAreOwn(x, y, plan) /\ AnsweredRests(x, y)
BubbleSpeaksForItself ==
  [][\A i \in DOMAIN bubbles : Speaks(bubbles[i], bubbles'[i], feeds[i]["stage2"].plan)]_bubbleVars
=============================================================================
