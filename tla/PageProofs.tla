----------------------------- MODULE PageProofs -----------------------------
(***************************************************************************)
(* What the page of one student shows. A refusal bubble of RefusalBubbles  *)
(* shows its own, for any number of bubbles, any length of a rewrite and   *)
(* any terms. The page of ChatPage acts on every event of a turn once, and *)
(* its workspace is consistent, for any number of frames, cuts of the      *)
(* stream, calls and plans.                                                *)
(*                                                                         *)
(* The inductive invariants say of a stream what is still to be read: for  *)
(* a bubble, the chunks in the inbox go on where the text ends, the        *)
(* signals where the told terms end, and an answered bubble reads nothing  *)
(* any more; for the page, the buffer and the wire hold the frames after   *)
(* those it has handled, part by part.                                     *)
(***************************************************************************)
EXTENDS RefusalBubbles, ChatPage, FiniteSetTheorems, TLAPS

-----------------------------------------------------------------------------
(* The refusal bubbles.                                                    *)

States == {"none", "asked", "open", "closed"}
Kinds == {"chunk", "done", "error", "signal"}
Statuses == {"none", "ok", "warn", "unavailable"}
TermNames == STRING \cup {"none", "stage2"}
Answers == {"none", "confirming", "failed", "applied", "kept"}
FrameType == [kind : Kinds, nr : Nat, term : TermNames, status : Statuses]
FeedType == [state : States, inbox : Seq(FrameType), sent : Nat, plan : {NoneStored} \cup PlannedTerms]
SignalsType == UNION {[D -> Statuses] : D \in SUBSET TermNames}
BubbleType == [hard : BOOLEAN, terms : BubbleTerms, text : Seq(Nat),
               polish : {"idle", "streaming", "done", "error"},
               signals : SignalsType, answer : Answers, aborted : BOOLEAN]

Counting(n) == [k \in 1..n |-> k]

\* The rewrite: what is read and what is in the inbox follow one another.
Read(b) == IF b.polish = "streaming" THEN Len(b.text) ELSE 0
PolishInbox(b, f) ==
  \A k \in 1..Len(f.inbox) :
    /\ f.inbox[k].kind \in {"chunk", "done", "error"}
    /\ f.inbox[k].kind = "chunk" => f.inbox[k].nr = Read(b) + k
    /\ f.inbox[k].kind # "chunk" => k = Len(f.inbox) /\ f.state = "closed"
PolishReading(b, f) ==
  /\ b.polish = "idle" => b.text = Template
  /\ b.polish = "streaming" => b.text = Counting(Len(b.text))
  /\ b.polish \in {"done", "error"} => f.inbox = <<>> /\ f.state = "closed"
  /\ f.state = "asked" => b.polish = "idle"
  /\ f.state = "open" => f.sent = Read(b) + Len(f.inbox)
  /\ PolishInbox(b, f)
PolishInv(b, f) ==
  /\ b.text = Template \/ b.text = Counting(Len(b.text))
  /\ f.state = "asked" => f.inbox = <<>> /\ f.sent = 0
  /\ ~b.aborted => PolishReading(b, f)

\* The signals: the first m terms are told, the next are in the inbox.
ToldTo(b, m) == Told(b) = {b.terms[k] : k \in 1..m}
SignalInbox(b, f, m) ==
  \A k \in 1..Len(f.inbox) :
    \/ /\ f.inbox[k].kind = "signal" /\ m + k <= Len(b.terms) /\ f.inbox[k].term = b.terms[m + k]
       /\ f.inbox[k].status = "ok" => f.inbox[k].term \in f.plan
    \/ /\ f.inbox[k].kind = "done" \/ f.inbox[k] = Failure("stage2")
       /\ k = Len(f.inbox) /\ f.state = "closed"
SignalReading(b, f, m) ==
  /\ f.state = "open" => f.sent = m + Len(f.inbox) /\ \A k \in 1..Len(f.inbox) : f.inbox[k].kind = "signal"
  /\ SignalInbox(b, f, m)
Stage2Inv(b, f) ==
  /\ \E m \in 0..Len(b.terms) : ToldTo(b, m) /\ (~b.aborted => SignalReading(b, f, m))
  /\ f.state \in {"none", "asked"} => f.inbox = <<>> /\ f.sent = 0 /\ DOMAIN b.signals = {}
  /\ b.hard => f.state = "none"
  /\ \A t \in Told(b) : b.signals[t] = "ok" => t \in f.plan

PairInv(b, fs) ==
  /\ b \in BubbleType
  /\ fs \in [Streams -> FeedType]
  /\ b.answer # "none" => b.aborted
  /\ PolishInv(b, fs["polish"])
  /\ Stage2Inv(b, fs["stage2"])

BubblesInv ==
  /\ bubbles \in Seq(BubbleType) /\ feeds \in Seq([Streams -> FeedType])
  /\ Len(feeds) = Len(bubbles)
  /\ planned \in PlannedTerms
  /\ \A i \in DOMAIN bubbles : PairInv(bubbles[i], feeds[i])

\* What a step makes of a bubble and of its streams.
Good(b, fs, b2, fs2) == PairInv(b2, fs2) /\ Speaks(b, b2, fs["stage2"].plan)
Outcome ==
  /\ BubblesInv'
  /\ \A i \in DOMAIN bubbles : Speaks(bubbles[i], bubbles'[i], feeds[i]["stage2"].plan)

-----------------------------------------------------------------------------
(* One pair at a time.                                                      *)

LEMMA Rests ==
    ASSUME NEW b, NEW fs, PairInv(b, fs)
    PROVE  Good(b, fs, b, fs)
  <1>1. TextIsOwn(b, b)
    BY DEF PairInv, PolishInv, TextIsOwn, Counting
  <1>2. b.hard => DOMAIN b.signals = {}
    BY DEF PairInv, Stage2Inv
  <1>3. SignalsAreOwn(b, b, fs["stage2"].plan)
    BY <1>2 DEF PairInv, Stage2Inv, ToldTo, SignalsAreOwn
  <1> QED
    BY <1>1, <1>3 DEF Good, Speaks, AnsweredRests

LEMMA PairChanges ==
    ASSUME BubblesInv, NEW i \in DOMAIN bubbles, NEW b, NEW fs,
           bubbles' = [bubbles EXCEPT ![i] = b], feeds' = [feeds EXCEPT ![i] = fs],
           planned' \in PlannedTerms, Good(bubbles[i], feeds[i], b, fs)
    PROVE  Outcome
  <1>1. i \in 1..Len(bubbles) /\ i \in 1..Len(feeds) /\ DOMAIN bubbles = 1..Len(bubbles)
    BY DEF BubblesInv
  <1>2. b \in BubbleType /\ fs \in [Streams -> FeedType]
    BY DEF Good, PairInv
  <1>3. bubbles' \in Seq(BubbleType) /\ Len(bubbles') = Len(bubbles)
    BY <1>1, <1>2 DEF BubblesInv
  <1>4. feeds' \in Seq([Streams -> FeedType]) /\ Len(feeds') = Len(feeds)
    BY <1>1, <1>2 DEF BubblesInv
  <1>5. ASSUME NEW j \in DOMAIN bubbles
        PROVE  Good(bubbles[j], feeds[j], bubbles'[j], feeds'[j])
    <2>1. CASE j = i
      <3>1. bubbles'[j] = b /\ feeds'[j] = fs
        BY <1>1, <2>1 DEF BubblesInv
      <3> QED
        BY <2>1, <3>1
    <2>2. CASE j # i
      <3>1. bubbles'[j] = bubbles[j] /\ feeds'[j] = feeds[j]
        BY <1>1, <1>5, <2>2 DEF BubblesInv
      <3>2. Good(bubbles[j], feeds[j], bubbles[j], feeds[j])
        BY Rests DEF BubblesInv
      <3> QED
        BY <3>1, <3>2
    <2> QED
      BY <2>1, <2>2
  <1>6. DOMAIN bubbles' = DOMAIN bubbles
    BY <1>1, <1>3
  <1> QED
    BY <1>3, <1>4, <1>5, <1>6 DEF BubblesInv, Outcome, Good

\* A step of one stream that leaves the bubble alone.
LEMMA PolishFeedChanges ==
    ASSUME NEW b, NEW fs, PairInv(b, fs), NEW f \in FeedType, PolishInv(b, f)
    PROVE  Good(b, fs, b, [fs EXCEPT !["polish"] = f])
  <1> DEFINE fs2 == [fs EXCEPT !["polish"] = f]
  <1>1. fs2 \in [Streams -> FeedType] /\ fs2["polish"] = f /\ fs2["stage2"] = fs["stage2"]
    BY DEF PairInv, Streams
  <1>2. PairInv(b, fs2)
    BY <1>1 DEF PairInv
  <1> QED
    BY <1>2, Rests DEF Good

LEMMA Stage2FeedChanges ==
    ASSUME NEW b, NEW fs, PairInv(b, fs), NEW f \in FeedType, Stage2Inv(b, f)
    PROVE  Good(b, fs, b, [fs EXCEPT !["stage2"] = f])
  <1> DEFINE fs2 == [fs EXCEPT !["stage2"] = f]
  <1>1. fs2 \in [Streams -> FeedType] /\ fs2["stage2"] = f /\ fs2["polish"] = fs["polish"]
    BY DEF PairInv, Streams
  <1>2. PairInv(b, fs2)
    BY <1>1 DEF PairInv
  <1> QED
    BY <1>2, Rests DEF Good

-----------------------------------------------------------------------------
(* The answers.                                                             *)

LEMMA AnswerGiven ==
    ASSUME NEW b, NEW fs, PairInv(b, fs), NEW a \in Answers, NEW b2,
           b2 = [AbortBubbleEnrichers(b) EXCEPT !.answer = a]
    PROVE  Good(b, fs, b2, fs)
  <1>1. /\ b2 \in BubbleType /\ b2.aborted /\ b2.hard = b.hard /\ b2.terms = b.terms
        /\ b2.text = b.text /\ b2.polish = b.polish /\ b2.signals = b.signals
    BY DEF PairInv, AbortBubbleEnrichers, BubbleType
  <1>2. PolishInv(b2, fs["polish"])
    BY <1>1 DEF PairInv, PolishInv
  <1>3. Told(b2) = Told(b) /\ \A m : ToldTo(b2, m) <=> ToldTo(b, m)
    BY <1>1 DEF Told, ToldTo
  <1>4. Stage2Inv(b2, fs["stage2"])
    BY <1>1, <1>3 DEF PairInv, Stage2Inv
  <1>5. PairInv(b2, fs)
    BY <1>1, <1>2, <1>4 DEF PairInv
  <1>6. Speaks(b, b, fs["stage2"].plan)
    BY Rests DEF Good
  <1>7. Speaks(b, b2, fs["stage2"].plan)
    BY <1>1, <1>3, <1>6 DEF Speaks, TextIsOwn, SignalsAreOwn, AnsweredRests
  <1> QED
    BY <1>5, <1>7 DEF Good

LEMMA AnswerSettled ==
    ASSUME NEW b, NEW fs, PairInv(b, fs), b.answer # "none", NEW a \in Answers
    PROVE  Good(b, fs, [b EXCEPT !.answer = a], fs)
  <1>1. b.aborted = TRUE /\ b \in BubbleType
    BY DEF PairInv, BubbleType
  <1>2. [b EXCEPT !.answer = a] = [AbortBubbleEnrichers(b) EXCEPT !.answer = a]
    BY <1>1 DEF AbortBubbleEnrichers, BubbleType
  <1> QED
    BY <1>2, AnswerGiven

-----------------------------------------------------------------------------
(* The rewrite.                                                             *)

LEMMA FailureType ==
    /\ Failure("polish") \in FrameType /\ Failure("polish").kind = "error"
    /\ Failure("stage2") \in FrameType /\ Failure("stage2").kind = "signal"
    /\ Failure("stage2").term = "stage2" /\ Failure("stage2").status = "unavailable"
  <1>1. Failure("polish") = [kind |-> "error", nr |-> 0, term |-> "none", status |-> "none"]
    BY DEF Failure, Frame
  <1>2. Failure("stage2") = [kind |-> "signal", nr |-> 0, term |-> "stage2", status |-> "unavailable"]
    BY DEF Failure, Signal
  <1> QED
    BY <1>1, <1>2 DEF FrameType, Kinds, Statuses, TermNames

\* A frame behind a sequence of frames.
LEMMA Appended ==
    ASSUME NEW q \in Seq(FrameType), NEW f \in FrameType
    PROVE  /\ Append(q, f) \in Seq(FrameType) /\ Len(Append(q, f)) = Len(q) + 1
           /\ Append(q, f)[Len(q) + 1] = f
           /\ \A k \in 1..Len(q) : Append(q, f)[k] = q[k]
  OBVIOUS

\* A part of what is there and a frame behind it.
LEMMA Broken ==
    ASSUME NEW q \in Seq(FrameType), NEW f \in FrameType, NEW n \in 0..Len(q)
    PROVE  /\ Append(SubSeq(q, 1, n), f) \in Seq(FrameType)
           /\ Len(Append(SubSeq(q, 1, n), f)) = n + 1
           /\ Append(SubSeq(q, 1, n), f)[n + 1] = f
           /\ \A k \in 1..n : Append(SubSeq(q, 1, n), f)[k] = q[k]
  <1>1. SubSeq(q, 1, n) \in Seq(FrameType) /\ Len(SubSeq(q, 1, n)) = n
        /\ \A k \in 1..n : SubSeq(q, 1, n)[k] = q[k]
    OBVIOUS
  <1> HIDE DEF FrameType
  <1> QED
    BY <1>1

LEMMA TailOf ==
    ASSUME NEW q \in Seq(FrameType), q # <<>>
    PROVE  /\ Tail(q) \in Seq(FrameType) /\ Len(Tail(q)) = Len(q) - 1 /\ Len(q) \in Nat \ {0}
           /\ Head(q) = q[1] /\ q[1] \in FrameType
           /\ \A k \in 1..Len(Tail(q)) : Tail(q)[k] = q[k + 1]
  OBVIOUS

\* The route refuses, or is switched off.
LEMMA PolishRefused ==
    ASSUME NEW b \in BubbleType, NEW f \in FeedType, PolishInv(b, f), f.state = "asked",
           NEW q \in {<<>>, <<Failure("polish")>>}, NEW f2, f2 = [f EXCEPT !.state = "closed", !.inbox = q]
    PROVE  f2 \in FeedType /\ PolishInv(b, f2)
  <1>1. q \in Seq(FrameType) /\ \A k \in 1..Len(q) : k = Len(q) /\ q[k].kind = "error"
    <2>1. CASE q = <<>>
      BY <2>1
    <2>2. CASE q = <<Failure("polish")>>
      <3>1. Len(q) = 1 /\ q[1] = Failure("polish") /\ q \in Seq(FrameType)
        BY <2>2, FailureType
      <3> QED
        BY <3>1, FailureType
    <2> QED
      BY <2>1, <2>2
  <1>2. f2 \in FeedType /\ f2.state = "closed" /\ f2.inbox = q
    BY <1>1 DEF FeedType, States
  <1>3. ~b.aborted => b.polish = "idle"
    BY DEF PolishInv, PolishReading
  <1>4. ~b.aborted => PolishReading(b, f2)
    BY <1>1, <1>2, <1>3 DEF PolishInv, PolishReading, PolishInbox
  <1> QED
    BY <1>2, <1>4 DEF PolishInv

LEMMA PolishOpens ==
    ASSUME NEW b \in BubbleType, NEW f \in FeedType, PolishInv(b, f), f.state = "asked",
           NEW f2, f2 = [f EXCEPT !.state = "open"]
    PROVE  f2 \in FeedType /\ PolishInv(b, f2)
  <1>1. f2 \in FeedType /\ f2.state = "open" /\ f2.inbox = <<>> /\ f2.sent = 0
    BY DEF FeedType, States, PolishInv
  <1>2. Len(f2.inbox) = 0 /\ PolishInbox(b, f2)
    BY <1>1 DEF PolishInbox
  <1>3. ASSUME ~b.aborted PROVE PolishReading(b, f2)
    <2>1. b.polish = "idle" /\ b.text = Template
      BY <1>3 DEF PolishInv, PolishReading
    <2>2. Read(b) = 0
      BY <2>1 DEF Read
    <2> QED
      BY <1>1, <1>2, <2>1, <2>2 DEF PolishReading
  <1> QED
    BY <1>1, <1>3 DEF PolishInv

LEMMA PolishWrites ==
    ASSUME NEW b \in BubbleType, NEW f \in FeedType, PolishInv(b, f), f.state = "open",
           NEW g, NEW st,
           \/ g = Frame("chunk", f.sent + 1) /\ st = "open"
           \/ g \in {Frame("done", f.sent), Failure("polish")} /\ st = "closed",
           NEW f2, f2 = [f EXCEPT !.inbox = Append(@, g), !.sent = @ + 1, !.state = st]
    PROVE  f2 \in FeedType /\ PolishInv(b, f2)
  <1>1. g \in FrameType /\ st \in States
    BY FailureType DEF FrameType, Kinds, Statuses, TermNames, States, FeedType, Frame
  <1>2. f2 \in FeedType /\ f2.state = st /\ f2.inbox = Append(f.inbox, g) /\ f2.sent = f.sent + 1
    <2>1. Append(f.inbox, g) \in Seq(FrameType) /\ f.sent + 1 \in Nat
      BY <1>1, Appended DEF FeedType
    <2> QED
      BY <1>1, <2>1 DEF FeedType
  <1>3. \/ g.kind = "chunk" /\ g.nr = f.sent + 1 /\ st = "open"
        \/ g.kind \in {"done", "error"} /\ st = "closed"
    BY FailureType DEF Frame
  <1>4. ASSUME ~b.aborted PROVE PolishReading(b, f2)
    <2>1. PolishReading(b, f) /\ f.sent = Read(b) + Len(f.inbox) /\ Read(b) \in Nat /\ f.inbox \in Seq(FrameType)
      BY <1>4 DEF PolishInv, PolishReading, Read, BubbleType, FeedType
    <2>2. Len(f2.inbox) = Len(f.inbox) + 1 /\ f2.inbox[Len(f.inbox) + 1] = g
          /\ \A k \in 1..Len(f.inbox) : f2.inbox[k] = f.inbox[k]
      BY <1>1, <1>2, <2>1, Appended
    <2>3. \A k \in 1..Len(f.inbox) : f.inbox[k].kind = "chunk" /\ f.inbox[k].nr = Read(b) + k
      BY <2>1 DEF PolishReading, PolishInbox
    <2>4. PolishInbox(b, f2)
      <3> SUFFICES ASSUME NEW k \in 1..Len(f2.inbox)
                   PROVE  /\ f2.inbox[k].kind \in {"chunk", "done", "error"}
                          /\ f2.inbox[k].kind = "chunk" => f2.inbox[k].nr = Read(b) + k
                          /\ f2.inbox[k].kind # "chunk" => k = Len(f2.inbox) /\ f2.state = "closed"
        BY DEF PolishInbox
      <3>1. Len(f.inbox) \in Nat
        BY <2>1
      <3>2. CASE k \in 1..Len(f.inbox)
        BY <2>2, <2>3, <3>2
      <3>3. CASE k = Len(f.inbox) + 1
        BY <1>2, <1>3, <2>1, <2>2, <3>3
      <3> QED
        BY <2>2, <3>1, <3>2, <3>3
    <2>5. f2.state = "open" => f2.sent = Read(b) + Len(f2.inbox)
      BY <1>2, <2>1, <2>2 DEF FeedType
    <2>6. b.polish \notin {"done", "error"} /\ f2.state # "asked"
      BY <1>2, <1>3, <2>1 DEF PolishReading
    <2> QED
      BY <2>1, <2>4, <2>5, <2>6 DEF PolishReading
  <1>5. f2.state # "asked"
    BY <1>2, <1>3
  <1> QED
    BY <1>2, <1>4, <1>5 DEF PolishInv

LEMMA PolishBreaks ==
    ASSUME NEW b \in BubbleType, NEW f \in FeedType, PolishInv(b, f), f.state = "open",
           NEW n \in 0..Len(f.inbox), NEW f2,
           f2 = [f EXCEPT !.state = "closed", !.inbox = Append(SubSeq(@, 1, n), Failure("polish"))]
    PROVE  f2 \in FeedType /\ PolishInv(b, f2)
  <1>1. Failure("polish") \in FrameType /\ Failure("polish").kind = "error" /\ f.inbox \in Seq(FrameType)
    BY FailureType DEF FeedType
  <1>2. /\ f2.inbox \in Seq(FrameType) /\ Len(f2.inbox) = n + 1 /\ f2.inbox[n + 1].kind = "error"
        /\ \A k \in 1..n : f2.inbox[k] = f.inbox[k]
        /\ f2.state = "closed" /\ f2 \in FeedType
    <2>1. f2.inbox = Append(SubSeq(f.inbox, 1, n), Failure("polish")) /\ f2.state = "closed"
      BY DEF FeedType
    <2>2. Append(SubSeq(f.inbox, 1, n), Failure("polish")) \in Seq(FrameType)
      BY <1>1, Broken
    <2>3. f2 \in FeedType
      BY <2>2 DEF FeedType, States
    <2> QED
      BY <1>1, <2>1, <2>2, <2>3, Broken
  <1>3. ASSUME ~b.aborted PROVE PolishReading(b, f2)
    <2>1. PolishReading(b, f)
      BY <1>3 DEF PolishInv
    <2>2. \A k \in 1..n : f.inbox[k].kind = "chunk" /\ f.inbox[k].nr = Read(b) + k
      BY <1>1, <2>1 DEF PolishReading, PolishInbox
    <2>3. PolishInbox(b, f2)
      <3> SUFFICES ASSUME NEW k \in 1..Len(f2.inbox)
                   PROVE  /\ f2.inbox[k].kind \in {"chunk", "done", "error"}
                          /\ f2.inbox[k].kind = "chunk" => f2.inbox[k].nr = Read(b) + k
                          /\ f2.inbox[k].kind # "chunk" => k = Len(f2.inbox) /\ f2.state = "closed"
        BY DEF PolishInbox
      <3>1. CASE k \in 1..n
        BY <1>2, <2>2, <3>1
      <3>2. CASE k = n + 1
        BY <1>2, <3>2
      <3> QED
        BY <1>1, <1>2, <3>1, <3>2
    <2>4. b.polish \notin {"done", "error"}
      BY <2>1 DEF PolishReading
    <2> QED
      BY <1>2, <2>1, <2>3, <2>4 DEF PolishReading
  <1> QED
    BY <1>2, <1>3 DEF PolishInv


LEMMA CountingGrows ==
    /\ <<1>> = Counting(1)
    /\ \A n \in Nat : /\ Counting(n) \in Seq(Nat) /\ Len(Counting(n)) = n
                      /\ Append(Counting(n), n + 1) = Counting(n + 1)
  <1>1. <<1>> = Counting(1)
    BY DEF Counting
  <1>2. ASSUME NEW n \in Nat PROVE Counting(n) \in Seq(Nat) /\ Len(Counting(n)) = n
    BY DEF Counting
  <1>3. ASSUME NEW n \in Nat PROVE Append(Counting(n), n + 1) = Counting(n + 1)
    BY <1>2 DEF Counting
  <1> QED
    BY <1>1, <1>2, <1>3

\* The frame read is gone from the inbox.
LEMMA InboxRead ==
    ASSUME NEW f \in FeedType, f.inbox # <<>>, NEW f2, f2 = [f EXCEPT !.inbox = Tail(@)]
    PROVE  /\ f2 \in FeedType /\ f2.state = f.state /\ f2.sent = f.sent /\ f2.plan = f.plan
           /\ Len(f2.inbox) = Len(f.inbox) - 1 /\ Len(f.inbox) \in Nat \ {0}
           /\ Head(f.inbox) = f.inbox[1] /\ f.inbox[1] \in FrameType
           /\ \A k \in 1..Len(f2.inbox) : f2.inbox[k] = f.inbox[k + 1]
  <1>1. f.inbox \in Seq(FrameType) /\ Tail(f.inbox) \in Seq(FrameType)
    BY TailOf DEF FeedType
  <1>2. f2.inbox = Tail(f.inbox) /\ f2 \in FeedType /\ f2.state = f.state /\ f2.sent = f.sent /\ f2.plan = f.plan
    BY <1>1 DEF FeedType
  <1> QED
    BY <1>1, <1>2, TailOf

LEMMA PolishRead ==
    ASSUME NEW b \in BubbleType, NEW f \in FeedType, PolishInv(b, f), f.inbox # <<>>, ~b.aborted,
           NEW f2, f2 = [f EXCEPT !.inbox = Tail(@)],
           NEW b2, b2 = ApplyPolishEvent(b, Head(f.inbox))
    PROVE  /\ f2 \in FeedType /\ b2 \in BubbleType
           /\ b2.hard = b.hard /\ b2.terms = b.terms /\ b2.signals = b.signals
           /\ b2.answer = b.answer /\ b2.aborted = b.aborted
           /\ PolishInv(b2, f2) /\ TextIsOwn(b, b2)
  <1> DEFINE g == f.inbox[1]
             n == Len(b.text)
  <1>1. /\ f2 \in FeedType /\ f2.state = f.state /\ f2.sent = f.sent
        /\ Len(f2.inbox) = Len(f.inbox) - 1 /\ Len(f.inbox) \in Nat \ {0}
        /\ Head(f.inbox) = g /\ g \in FrameType
        /\ \A k \in 1..Len(f2.inbox) : f2.inbox[k] = f.inbox[k + 1]
    BY InboxRead
  <1>2. b2 = ApplyPolishEvent(b, g)
    BY <1>1
  <1>3. PolishReading(b, f) /\ f.state # "asked"
    BY DEF PolishInv
  <1>4. b.polish \in {"idle", "streaming"} /\ n \in Nat /\ g.nr \in Nat
    BY <1>1, <1>3 DEF PolishReading, BubbleType, FrameType
  <1>5. /\ g.kind \in {"chunk", "done", "error"}
        /\ g.kind = "chunk" => g.nr = Read(b) + 1
        /\ g.kind # "chunk" => Len(f.inbox) = 1 /\ f.state = "closed"
    <2>1. 1 \in 1..Len(f.inbox)
      BY <1>1
    <2> QED
      BY <1>3, <2>1 DEF PolishReading, PolishInbox
  <1>6. CASE g.kind = "chunk"
    <2>1. \E t \in Seq(Nat) : /\ b2 = [b EXCEPT !.text = t, !.polish = "streaming"]
                              /\ t = Counting(Len(t)) /\ Len(t) = Read(b) + 1
      <3>1. CASE b.polish = "streaming"
        <4>1. b.text = Counting(n) /\ g.nr = n + 1 /\ Read(b) = n
          BY <1>3, <1>5, <1>6, <3>1 DEF PolishReading, Read
        <4>2. b2 = [b EXCEPT !.text = Counting(n + 1), !.polish = "streaming"]
          <5>1. b2 = [b EXCEPT !.text = Append(@, g.nr), !.polish = "streaming"]
            BY <1>2, <1>6, <3>1 DEF ApplyPolishEvent
          <5>2. Append(b.text, g.nr) = Counting(n + 1)
            BY <1>4, <4>1, CountingGrows
          <5> QED
            BY <5>1, <5>2
        <4> QED
          BY <1>4, <4>1, <4>2, CountingGrows
      <3>2. CASE b.polish = "idle"
        <4>1. g.nr = 1 /\ Read(b) = 0
          BY <1>5, <1>6, <3>2 DEF Read
        <4>2. b2 = [b EXCEPT !.text = <<1>>, !.polish = "streaming"]
          BY <1>2, <1>6, <3>2, <4>1 DEF ApplyPolishEvent
        <4>3. Counting(1) \in Seq(Nat) /\ Len(Counting(1)) = 1 /\ <<1>> = Counting(1)
          BY CountingGrows
        <4>4. b2 = [b EXCEPT !.text = Counting(1), !.polish = "streaming"]
          BY <4>2, <4>3
        <4>5. Len(Counting(1)) = Read(b) + 1
          BY <4>1, <4>3
        <4>6. Counting(1) = Counting(Len(Counting(1)))
          BY <4>3, Zenon
        <4> QED
          BY <4>3, <4>4, <4>5, <4>6
      <3> QED
        BY <1>4, <3>1, <3>2
    <2>2. PICK t \in Seq(Nat) : /\ b2 = [b EXCEPT !.text = t, !.polish = "streaming"]
                                /\ t = Counting(Len(t)) /\ Len(t) = Read(b) + 1
      BY <2>1
    <2>3. b2 \in BubbleType /\ b2.text = t /\ b2.polish = "streaming" /\ b2.aborted = b.aborted
          /\ b2.hard = b.hard /\ b2.terms = b.terms /\ b2.signals = b.signals
          /\ b2.answer = b.answer /\ b2.aborted = b.aborted
      BY <2>2 DEF BubbleType
    <2>4. Read(b2) = Read(b) + 1 /\ Read(b) \in Nat
      BY <1>4, <2>2, <2>3 DEF Read
    <2>5. PolishInbox(b2, f2)
      <3> SUFFICES ASSUME NEW k \in 1..Len(f2.inbox)
                   PROVE  /\ f2.inbox[k].kind \in {"chunk", "done", "error"}
                          /\ f2.inbox[k].kind = "chunk" => f2.inbox[k].nr = Read(b2) + k
                          /\ f2.inbox[k].kind # "chunk" => k = Len(f2.inbox) /\ f2.state = "closed"
        BY DEF PolishInbox
      <3>1. k + 1 \in 1..Len(f.inbox) /\ f2.inbox[k] = f.inbox[k + 1]
        BY <1>1
      <3>2. /\ f.inbox[k + 1].kind \in {"chunk", "done", "error"}
            /\ f.inbox[k + 1].kind = "chunk" => f.inbox[k + 1].nr = Read(b) + (k + 1)
            /\ f.inbox[k + 1].kind # "chunk" => k + 1 = Len(f.inbox) /\ f.state = "closed"
        BY <1>3, <3>1 DEF PolishReading, PolishInbox
      <3>3. k + 1 = Len(f.inbox) => k = Len(f2.inbox)
        BY <1>1
      <3>4. Read(b) + (k + 1) = Read(b2) + k
        <4>1. k \in Nat
          BY <1>1
        <4> QED
          BY <2>4, <4>1
      <3> QED
        BY <1>1, <3>1, <3>2, <3>3, <3>4
    <2>6. f2.state = "open" => f2.sent = Read(b2) + Len(f2.inbox)
      BY <1>1, <1>3, <2>4 DEF PolishReading
    <2>7. PolishInv(b2, f2)
      BY <1>1, <1>3, <2>2, <2>3, <2>5, <2>6 DEF PolishInv, PolishReading
    <2>8. TextIsOwn(b, b2)
      BY <1>4, <2>2, <2>3 DEF TextIsOwn, Counting
    <2> QED
      BY <1>1, <2>3, <2>7, <2>8
  <1>7. CASE g.kind # "chunk"
    <2>1. f2.state = "closed" /\ Len(f2.inbox) = 0 /\ f2.inbox = <<>>
      BY <1>1, <1>5, <1>7 DEF FeedType
    <2>2. \/ b2 = [b EXCEPT !.text = Counting(g.nr), !.polish = "done"]
          \/ b2 = [b EXCEPT !.polish = "error"]
      BY <1>2, <1>5, <1>7 DEF ApplyPolishEvent, Counting
    <2>3. /\ b2 \in BubbleType /\ b2.polish \in {"done", "error"} /\ b2.text \in {b.text, Counting(g.nr)}
          /\ b2.hard = b.hard /\ b2.terms = b.terms /\ b2.signals = b.signals
          /\ b2.answer = b.answer /\ b2.aborted = b.aborted
      BY <1>4, <2>2, CountingGrows DEF BubbleType
    <2>4. b2.text = Template \/ b2.text = Counting(Len(b2.text))
      BY <1>4, <2>3, CountingGrows DEF PolishInv
    <2>5. PolishInv(b2, f2)
      BY <2>1, <2>3, <2>4 DEF PolishInv, PolishReading, PolishInbox
    <2>6. TextIsOwn(b, b2)
      BY <1>4, <2>4 DEF TextIsOwn, Counting
    <2> QED
      BY <1>1, <2>3, <2>5, <2>6
  <1> QED
    BY <1>6, <1>7


-----------------------------------------------------------------------------
(* The signals.                                                             *)

\* The terms are distinct, and none has the key of a failure.
LEMMA TermsApart ==
    ASSUME NEW b \in BubbleType
    PROVE  /\ Len(b.terms) \in Nat /\ DOMAIN b.terms = 1..Len(b.terms)
           /\ \A k \in 1..Len(b.terms) : b.terms[k] \in TermNames /\ b.terms[k] # "stage2"
           /\ \A j, k \in 1..Len(b.terms) : b.terms[j] = b.terms[k] => j = k
  <1>1. b.terms \in BubbleTerms
    BY DEF BubbleType
  <1>2. b.terms \in Seq(STRING \ {"stage2"})
    BY <1>1, BubbleAssumption
  <1>3. Len(b.terms) \in Nat /\ DOMAIN b.terms = 1..Len(b.terms)
        /\ \A k \in 1..Len(b.terms) : b.terms[k] \in STRING \ {"stage2"}
    BY <1>2
  <1>4. \A j, k \in DOMAIN b.terms : b.terms[j] = b.terms[k] => j = k
    BY <1>1, BubbleAssumption
  <1> QED
    BY <1>3, <1>4 DEF TermNames

\* Nothing is told before the route has begun.
LEMMA NothingTold ==
    ASSUME NEW b \in BubbleType, NEW f \in FeedType, Stage2Inv(b, f), f.state = "asked"
    PROVE  /\ f.inbox = <<>> /\ f.sent = 0 /\ DOMAIN b.signals = {} /\ Told(b) = {}
           /\ ToldTo(b, 0) /\ 0 \in 0..Len(b.terms) /\ ~b.hard
  <1>1. f.inbox = <<>> /\ f.sent = 0 /\ DOMAIN b.signals = {} /\ ~b.hard
    BY DEF Stage2Inv
  <1>2. Told(b) = {}
    BY <1>1 DEF Told
  <1>3. ToldTo(b, 0)
    BY <1>2 DEF ToldTo
  <1> QED
    BY <1>1, <1>2, <1>3, TermsApart

LEMMA Stage2Refused ==
    ASSUME NEW b \in BubbleType, NEW f \in FeedType, Stage2Inv(b, f), f.state = "asked",
           NEW f2, f2 = [f EXCEPT !.state = "closed", !.inbox = <<Failure("stage2")>>]
    PROVE  f2 \in FeedType /\ Stage2Inv(b, f2)
  <1> DEFINE q == <<Failure("stage2")>>
  <1>1. q \in Seq(FrameType) /\ Len(q) = 1 /\ q[1] = Failure("stage2")
    BY FailureType
  <1>2. f2 \in FeedType /\ f2.state = "closed" /\ f2.inbox = q
    <2> HIDE DEF q
    <2>1. f2 = [f EXCEPT !.state = "closed", !.inbox = q]
      BY DEF q
    <2> QED
      BY <1>1, <2>1 DEF FeedType, States
  <1> HIDE DEF q
  <1>3. SignalReading(b, f2, 0)
    BY <1>1, <1>2 DEF SignalReading, SignalInbox
  <1> QED
    BY <1>2, <1>3, NothingTold DEF Stage2Inv

LEMMA Stage2Opens ==
    ASSUME NEW b \in BubbleType, NEW f \in FeedType, Stage2Inv(b, f), f.state = "asked",
           NEW p \in {NoneStored} \cup PlannedTerms,
           NEW f2, f2 = [f EXCEPT !.state = "open", !.plan = p]
    PROVE  f2 \in FeedType /\ Stage2Inv(b, f2)
  <1>1. f2 \in FeedType /\ f2.state = "open" /\ f2.inbox = f.inbox /\ f2.sent = f.sent
    BY DEF FeedType, States
  <1>2. SignalReading(b, f2, 0)
    BY <1>1, NothingTold DEF SignalReading, SignalInbox
  <1> QED
    BY <1>1, <1>2, NothingTold DEF Stage2Inv

LEMMA Stage2Writes ==
    ASSUME NEW b \in BubbleType, NEW f \in FeedType, Stage2Inv(b, f), f.state = "open",
           NEW g, NEW st,
           \/ /\ f.sent < Len(b.terms) /\ st = "open"
              /\ \E status \in ClassifyTerm(f.plan, b.terms[f.sent + 1]) :
                    g = Signal(b.terms[f.sent + 1], status)
           \/ g = Frame("done", 0) /\ st = "closed",
           NEW f2, f2 = [f EXCEPT !.inbox = Append(@, g), !.sent = @ + 1, !.state = st]
    PROVE  f2 \in FeedType /\ Stage2Inv(b, f2)
  <1> DEFINE term == b.terms[f.sent + 1]
  <1>1. \/ /\ f.sent < Len(b.terms) /\ st = "open" /\ g.kind = "signal" /\ g.term = term
           /\ g.status = "ok" => g.term \in f.plan
        \/ g.kind = "done" /\ st = "closed"
    <2>1. CASE g = Frame("done", 0) /\ st = "closed"
      BY <2>1 DEF Frame
    <2>2. CASE f.sent < Len(b.terms) /\ st = "open"
               /\ \E status \in ClassifyTerm(f.plan, term) : g = Signal(term, status)
      <3>1. PICK status \in ClassifyTerm(f.plan, term) : g = Signal(term, status)
        BY <2>2
      <3>2. status = "ok" => term \in f.plan
        BY <3>1 DEF ClassifyTerm
      <3> QED
        BY <2>2, <3>1, <3>2 DEF Signal
    <2> QED
      BY <2>1, <2>2
  <1>2. g \in FrameType /\ st \in States
    <2>1. CASE g = Frame("done", 0) /\ st = "closed"
      BY <2>1 DEF Frame, FrameType, Kinds, Statuses, TermNames, States
    <2>2. CASE f.sent < Len(b.terms) /\ st = "open"
               /\ \E status \in ClassifyTerm(f.plan, term) : g = Signal(term, status)
      <3>1. PICK status \in ClassifyTerm(f.plan, term) : g = Signal(term, status)
        BY <2>2
      <3>2. status \in Statuses
        BY <3>1 DEF ClassifyTerm, Statuses
      <3>3. f.sent + 1 \in 1..Len(b.terms)
        BY <2>2, TermsApart DEF FeedType
      <3>4. term \in TermNames
        BY <3>3, TermsApart
      <3> HIDE DEF term
      <3> QED
        BY <2>2, <3>1, <3>2, <3>4 DEF Signal, FrameType, Kinds, States
    <2> QED
      BY <2>1, <2>2
  <1> HIDE DEF term
  <1>3. Append(f.inbox, g) \in Seq(FrameType) /\ f.sent \in Nat /\ f.sent + 1 \in Nat /\ f.inbox \in Seq(FrameType)
    BY <1>2, Appended DEF FeedType
  <1>4. f2 \in FeedType /\ f2.state = st /\ f2.inbox = Append(f.inbox, g) /\ f2.sent = f.sent + 1
        /\ f2.plan = f.plan
    BY <1>2, <1>3 DEF FeedType
  <1>5. /\ Len(f2.inbox) = Len(f.inbox) + 1 /\ f2.inbox[Len(f.inbox) + 1] = g /\ Len(f.inbox) \in Nat
        /\ \A k \in 1..Len(f.inbox) : f2.inbox[k] = f.inbox[k]
    BY <1>2, <1>3, <1>4, Appended
  <1>6. ASSUME NEW m \in 0..Len(b.terms), ~b.aborted, SignalReading(b, f, m)
        PROVE  SignalReading(b, f2, m)
    <2>1. f.sent = m + Len(f.inbox) /\ \A k \in 1..Len(f.inbox) : f.inbox[k].kind = "signal"
      BY <1>6 DEF SignalReading
    <2>2. \A k \in 1..Len(f.inbox) :
             /\ f.inbox[k].kind = "signal" /\ m + k <= Len(b.terms) /\ f.inbox[k].term = b.terms[m + k]
             /\ f.inbox[k].status = "ok" => f.inbox[k].term \in f.plan
      BY <1>6 DEF SignalReading, SignalInbox
    <2>3. SignalInbox(b, f2, m)
      <3> SUFFICES ASSUME NEW k \in 1..Len(f2.inbox)
                   PROVE  \/ /\ f2.inbox[k].kind = "signal" /\ m + k <= Len(b.terms)
                             /\ f2.inbox[k].term = b.terms[m + k]
                             /\ f2.inbox[k].status = "ok" => f2.inbox[k].term \in f2.plan
                          \/ /\ f2.inbox[k].kind = "done" \/ f2.inbox[k] = Failure("stage2")
                             /\ k = Len(f2.inbox) /\ f2.state = "closed"
        BY DEF SignalInbox
      <3>1. CASE k \in 1..Len(f.inbox)
        BY <1>4, <1>5, <2>2, <3>1
      <3>2. CASE k = Len(f.inbox) + 1
        <4>1. f2.inbox[k] = g /\ k = Len(f2.inbox) /\ m + k = f.sent + 1
          BY <1>5, <2>1, <3>2, TermsApart
        <4>2. f.sent < Len(b.terms) => m + k <= Len(b.terms)
          BY <1>3, <4>1, TermsApart
        <4> QED
          BY <1>1, <1>4, <4>1, <4>2 DEF term
      <3> QED
        BY <1>5, <3>1, <3>2
    <2>4. st = "open" => f2.sent = m + Len(f2.inbox) /\ \A k \in 1..Len(f2.inbox) : f2.inbox[k].kind = "signal"
      <3>1. ASSUME st = "open", NEW k \in 1..Len(f2.inbox) PROVE f2.inbox[k].kind = "signal"
        <4>1. CASE k \in 1..Len(f.inbox)
          BY <1>5, <2>1, <4>1
        <4>2. CASE k = Len(f.inbox) + 1
          BY <1>1, <1>5, <3>1, <4>2
        <4> QED
          BY <1>5, <4>1, <4>2
      <3>2. f2.sent = m + Len(f2.inbox)
        BY <1>4, <1>5, <2>1, TermsApart
      <3> QED
        BY <3>1, <3>2
    <2> QED
      BY <1>4, <2>3, <2>4 DEF SignalReading
  <1>7. f2.state \in {"open", "closed"} /\ ~b.hard
    BY <1>1, <1>4 DEF Stage2Inv
  <1> QED
    BY <1>4, <1>6, <1>7 DEF Stage2Inv

LEMMA Stage2Breaks ==
    ASSUME NEW b \in BubbleType, NEW f \in FeedType, Stage2Inv(b, f), f.state = "open",
           NEW n \in 0..Len(f.inbox), NEW f2,
           f2 = [f EXCEPT !.state = "closed", !.inbox = Append(SubSeq(@, 1, n), Failure("stage2"))]
    PROVE  f2 \in FeedType /\ Stage2Inv(b, f2)
  <1>1. Failure("stage2") \in FrameType /\ f.inbox \in Seq(FrameType)
    BY FailureType DEF FeedType
  <1>2. Append(SubSeq(f.inbox, 1, n), Failure("stage2")) \in Seq(FrameType)
    BY <1>1, Broken
  <1>3. f2.inbox = Append(SubSeq(f.inbox, 1, n), Failure("stage2")) /\ f2.state = "closed" /\ f2.plan = f.plan
        /\ f2 \in FeedType
    BY <1>2 DEF FeedType, States
  <1>4. /\ Len(f2.inbox) = n + 1 /\ f2.inbox[n + 1] = Failure("stage2")
        /\ \A k \in 1..n : f2.inbox[k] = f.inbox[k]
    BY <1>1, <1>3, Broken
  <1>5. ASSUME NEW m \in 0..Len(b.terms), ~b.aborted, SignalReading(b, f, m)
        PROVE  SignalReading(b, f2, m)
    <2>1. \A k \in 1..n :
             /\ f.inbox[k].kind = "signal" /\ m + k <= Len(b.terms) /\ f.inbox[k].term = b.terms[m + k]
             /\ f.inbox[k].status = "ok" => f.inbox[k].term \in f.plan
      BY <1>1, <1>5 DEF SignalReading, SignalInbox
    <2>2. ASSUME NEW k \in 1..Len(f2.inbox)
          PROVE  \/ /\ f2.inbox[k].kind = "signal" /\ m + k <= Len(b.terms)
                    /\ f2.inbox[k].term = b.terms[m + k]
                    /\ f2.inbox[k].status = "ok" => f2.inbox[k].term \in f2.plan
                 \/ f2.inbox[k] = Failure("stage2") /\ k = Len(f2.inbox)
      <3>1. CASE k \in 1..n
        BY <1>3, <1>4, <2>1, <3>1
      <3>2. CASE k = n + 1
        BY <1>4, <3>2
      <3> QED
        BY <1>1, <1>4, <3>1, <3>2
    <2> QED
      BY <1>3, <2>2 DEF SignalReading, SignalInbox
  <1>6. ~b.hard
    BY DEF Stage2Inv
  <1> QED
    BY <1>3, <1>5, <1>6 DEF Stage2Inv


\* One status more.
LEMMA SignalAdded ==
    ASSUME NEW b \in BubbleType, NEW g \in FrameType, g.kind = "signal",
           NEW b2, b2 = ApplyStage2Event(b, g)
    PROVE  /\ b2 \in BubbleType /\ b2 = [b EXCEPT !.signals = b2.signals]
           /\ DOMAIN b2.signals = DOMAIN b.signals \cup {g.term} /\ b2.signals[g.term] = g.status
           /\ \A t \in DOMAIN b.signals : t # g.term => b2.signals[t] = b.signals[t]
  <1> DEFINE sig == [t \in DOMAIN b.signals \cup {g.term} |-> IF t = g.term THEN g.status ELSE b.signals[t]]
  <1>1. b2 = [b EXCEPT !.signals = sig]
    BY DEF ApplyStage2Event
  <1>2. PICK D \in SUBSET TermNames : b.signals \in [D -> Statuses]
    BY DEF BubbleType, SignalsType
  <1>3. g.term \in TermNames /\ g.status \in Statuses
    BY DEF FrameType
  <1>4. sig \in [D \cup {g.term} -> Statuses] /\ D \cup {g.term} \in SUBSET TermNames
    BY <1>2, <1>3
  <1>5. sig \in SignalsType
    BY <1>4 DEF SignalsType
  <1>6. /\ DOMAIN sig = DOMAIN b.signals \cup {g.term} /\ sig[g.term] = g.status
        /\ \A t \in DOMAIN b.signals : t # g.term => sig[t] = b.signals[t]
    OBVIOUS
  <1> HIDE DEF sig
  <1>7. b2 \in BubbleType /\ b2.signals = sig
    BY <1>1, <1>5 DEF BubbleType
  <1> QED
    BY <1>1, <1>6, <1>7

LEMMA Stage2Read ==
    ASSUME NEW b \in BubbleType, NEW f \in FeedType, Stage2Inv(b, f), f.inbox # <<>>, ~b.aborted,
           NEW f2, f2 = [f EXCEPT !.inbox = Tail(@)],
           NEW b2, b2 = ApplyStage2Event(b, Head(f.inbox))
    PROVE  /\ f2 \in FeedType /\ b2 \in BubbleType
           /\ b2 = [b EXCEPT !.signals = b2.signals]
           /\ Stage2Inv(b2, f2) /\ SignalsAreOwn(b, b2, f.plan)
  <1> DEFINE g == f.inbox[1]
  <1>1. /\ f2 \in FeedType /\ f2.state = f.state /\ f2.sent = f.sent /\ f2.plan = f.plan
        /\ Len(f2.inbox) = Len(f.inbox) - 1 /\ Len(f.inbox) \in Nat \ {0}
        /\ Head(f.inbox) = g /\ g \in FrameType
        /\ \A k \in 1..Len(f2.inbox) : f2.inbox[k] = f.inbox[k + 1]
    BY InboxRead
  <1>2. b2 = ApplyStage2Event(b, g)
    BY <1>1
  <1>3. PICK m \in 0..Len(b.terms) : ToldTo(b, m) /\ SignalReading(b, f, m)
    BY DEF Stage2Inv
  <1>4. ~b.hard /\ f.state \notin {"none", "asked"} /\ 1 \in 1..Len(f.inbox)
    BY <1>1 DEF Stage2Inv
  <1>5. \A t \in Told(b) : t \in DOMAIN b.signals /\ (b.signals[t] = "ok" => t \in f.plan)
    BY DEF Told, Stage2Inv
  <1> HIDE DEF g
  \* A frame about the next term.
  <1>6. CASE /\ g.kind = "signal" /\ m + 1 <= Len(b.terms) /\ g.term = b.terms[m + 1]
             /\ g.status = "ok" => g.term \in f.plan
    <2>1. /\ b2 \in BubbleType /\ b2 = [b EXCEPT !.signals = b2.signals]
          /\ DOMAIN b2.signals = DOMAIN b.signals \cup {g.term} /\ b2.signals[g.term] = g.status
          /\ \A t \in DOMAIN b.signals : t # g.term => b2.signals[t] = b.signals[t]
      BY <1>1, <1>2, <1>6, SignalAdded
    <2>2. b2.terms = b.terms /\ b2.hard = b.hard /\ b2.aborted = b.aborted
      BY <2>1 DEF BubbleType
    <2>3. m + 1 \in 1..Len(b.terms) /\ m + 1 \in 0..Len(b2.terms) /\ m \in Nat
      BY <1>6, <2>2, TermsApart
    <2>4. g.term # "stage2" /\ \A k \in 1..m : b.terms[k] # g.term
      BY <1>6, <2>3, TermsApart
    <2>5. Told(b2) = Told(b) \cup {g.term}
      BY <2>1, <2>4 DEF Told
    <2>6. g.term \notin Told(b)
      BY <1>3, <2>4 DEF ToldTo
    <2>7. ToldTo(b2, m + 1)
      <3>1. {b.terms[k] : k \in 1..(m + 1)} = {b.terms[k] : k \in 1..m} \cup {b.terms[m + 1]}
        BY <2>3
      <3> QED
        BY <1>3, <1>6, <2>2, <2>5, <3>1 DEF ToldTo
    <2>8. SignalReading(b2, f2, m + 1)
      <3>1. ASSUME NEW k \in 1..Len(f2.inbox)
            PROVE  \/ /\ f2.inbox[k].kind = "signal" /\ (m + 1) + k <= Len(b2.terms)
                      /\ f2.inbox[k].term = b2.terms[(m + 1) + k]
                      /\ f2.inbox[k].status = "ok" => f2.inbox[k].term \in f2.plan
                   \/ /\ f2.inbox[k].kind = "done" \/ f2.inbox[k] = Failure("stage2")
                      /\ k = Len(f2.inbox) /\ f2.state = "closed"
        <4>1. k + 1 \in 1..Len(f.inbox) /\ f2.inbox[k] = f.inbox[k + 1] /\ (m + 1) + k = m + (k + 1)
              /\ (k + 1 = Len(f.inbox) => k = Len(f2.inbox))
          BY <1>1, <2>3
        <4>2. \/ /\ f.inbox[k + 1].kind = "signal" /\ m + (k + 1) <= Len(b.terms)
                 /\ f.inbox[k + 1].term = b.terms[m + (k + 1)]
                 /\ f.inbox[k + 1].status = "ok" => f.inbox[k + 1].term \in f.plan
              \/ /\ f.inbox[k + 1].kind = "done" \/ f.inbox[k + 1] = Failure("stage2")
                 /\ k + 1 = Len(f.inbox) /\ f.state = "closed"
          BY <1>3, <4>1 DEF SignalReading, SignalInbox
        <4> QED
          BY <1>1, <2>2, <4>1, <4>2
      <3>2. ASSUME f2.state = "open"
            PROVE  f2.sent = (m + 1) + Len(f2.inbox) /\ \A k \in 1..Len(f2.inbox) : f2.inbox[k].kind = "signal"
        <4>1. f.sent = m + Len(f.inbox) /\ \A k \in 1..Len(f.inbox) : f.inbox[k].kind = "signal"
          BY <1>1, <1>3, <3>2 DEF SignalReading
        <4>2. \A k \in 1..Len(f2.inbox) : k + 1 \in 1..Len(f.inbox)
          BY <1>1
        <4>3. f2.sent = (m + 1) + Len(f2.inbox)
          <5>1. f2.sent = f.sent /\ Len(f2.inbox) = Len(f.inbox) - 1 /\ Len(f.inbox) \in Nat
            BY <1>1
          <5>2. f.sent = m + Len(f.inbox) /\ m \in Nat
            BY <2>3, <4>1
          <5> QED
            BY <5>1, <5>2
        <4> QED
          BY <1>1, <4>1, <4>2, <4>3
      <3> QED
        BY <3>1, <3>2 DEF SignalReading, SignalInbox
    <2>9. \A t \in Told(b2) : b2.signals[t] = "ok" => t \in f2.plan
      BY <1>1, <1>5, <1>6, <2>1, <2>5, <2>6
    <2>10. Stage2Inv(b2, f2)
      BY <1>1, <1>4, <2>2, <2>3, <2>7, <2>8, <2>9 DEF Stage2Inv
    <2>11. \A t \in Told(b2) : /\ t \in DOMAIN b.signals => b2.signals[t] = b.signals[t]
                               /\ b2.signals[t] = "ok" => t \in f.plan
      <3>1. g.term \notin DOMAIN b.signals
        BY <2>4, <2>6 DEF Told
      <3> QED
        BY <1>1, <2>1, <2>9, <3>1
    <2>12. SignalsAreOwn(b, b2, f.plan)
      BY <1>4, <2>2, <2>3, <2>7, <2>11 DEF SignalsAreOwn, ToldTo
    <2> QED
      BY <1>1, <2>1, <2>10, <2>12
  \* The end, or a failure.
  <1>7. CASE (g.kind = "done" \/ g = Failure("stage2")) /\ Len(f.inbox) = 1 /\ f.state = "closed"
    <2>1. /\ b2 \in BubbleType /\ b2 = [b EXCEPT !.signals = b2.signals]
          /\ DOMAIN b2.signals \in {DOMAIN b.signals, DOMAIN b.signals \cup {"stage2"}}
          /\ \A t \in DOMAIN b.signals : t # "stage2" => b2.signals[t] = b.signals[t]
      <3>1. CASE g.kind = "done"
        <4>1. b2 = b
          BY <1>2, <3>1 DEF ApplyStage2Event
        <4> QED
          BY <4>1 DEF BubbleType
      <3>2. CASE g = Failure("stage2")
        <4>1. g.kind = "signal" /\ g.term = "stage2"
          BY <3>2, FailureType
        <4>2. /\ b2 \in BubbleType /\ b2 = [b EXCEPT !.signals = b2.signals]
              /\ DOMAIN b2.signals = DOMAIN b.signals \cup {g.term}
              /\ \A t \in DOMAIN b.signals : t # g.term => b2.signals[t] = b.signals[t]
          BY <1>1, <1>2, <4>1, SignalAdded
        <4> QED
          BY <4>1, <4>2
      <3> QED
        BY <1>7, <3>1, <3>2
    <2>2. b2.terms = b.terms /\ b2.hard = b.hard /\ b2.aborted = b.aborted
      BY <2>1 DEF BubbleType
    <2>3. Told(b2) = Told(b)
      BY <2>1 DEF Told
    <2>4. ToldTo(b2, m) /\ m \in 0..Len(b2.terms)
      BY <1>3, <2>2, <2>3 DEF ToldTo
    <2>5. f2.inbox = <<>> /\ f2.state = "closed"
      BY <1>1, <1>7 DEF FeedType
    <2>6. SignalReading(b2, f2, m)
      BY <2>5 DEF SignalReading, SignalInbox
    <2>7. \A t \in Told(b2) : /\ t \in DOMAIN b.signals => b2.signals[t] = b.signals[t]
                              /\ b2.signals[t] = "ok" => t \in f.plan
      <3>1. \A t \in Told(b2) : t \in DOMAIN b.signals /\ t # "stage2"
        BY <2>3 DEF Told
      <3> QED
        BY <1>5, <2>1, <2>3, <3>1
    <2>8. Stage2Inv(b2, f2)
      BY <1>1, <1>4, <2>2, <2>4, <2>5, <2>6, <2>7 DEF Stage2Inv
    <2>9. SignalsAreOwn(b, b2, f.plan)
      BY <1>4, <2>2, <2>4, <2>7 DEF SignalsAreOwn, ToldTo
    <2> QED
      BY <1>1, <2>1, <2>8, <2>9
  <1> QED
    BY <1>3, <1>4, <1>6, <1>7 DEF SignalReading, SignalInbox, g


-----------------------------------------------------------------------------
(* The steps.                                                               *)

LEMMA PolishEventRead ==
    ASSUME NEW b, NEW fs, PairInv(b, fs), NEW f, f = fs["polish"], f.inbox # <<>>, ~b.aborted,
           NEW f2, f2 = [f EXCEPT !.inbox = Tail(@)],
           NEW b2, b2 = ApplyPolishEvent(b, Head(f.inbox))
    PROVE  Good(b, fs, b2, [fs EXCEPT !["polish"] = f2])
  <1> DEFINE fs2 == [fs EXCEPT !["polish"] = f2]
  <1>1. b \in BubbleType /\ f \in FeedType /\ PolishInv(b, f) /\ fs \in [Streams -> FeedType]
    BY DEF PairInv, Streams
  <1>2. /\ f2 \in FeedType /\ b2 \in BubbleType
        /\ PolishInv(b2, f2) /\ TextIsOwn(b, b2)
    BY <1>1, PolishRead
  <1>3. /\ b2.hard = b.hard /\ b2.terms = b.terms /\ b2.signals = b.signals
        /\ b2.answer = b.answer /\ b2.aborted = b.aborted
    BY <1>1, PolishRead
  <1>4. fs2 \in [Streams -> FeedType] /\ fs2["polish"] = f2 /\ fs2["stage2"] = fs["stage2"]
    BY <1>1, <1>2 DEF Streams
  <1>5. Told(b2) = Told(b) /\ \A m : ToldTo(b2, m) <=> ToldTo(b, m)
    BY <1>3 DEF Told, ToldTo
  <1>6. \A m : SignalReading(b2, fs["stage2"], m) <=> SignalReading(b, fs["stage2"], m)
    BY <1>3 DEF SignalReading, SignalInbox
  <1>7. Stage2Inv(b2, fs["stage2"])
    BY <1>3, <1>5, <1>6 DEF PairInv, Stage2Inv
  <1>8. b.answer = "none"
    BY DEF PairInv
  <1> HIDE DEF fs2
  <1>9. PairInv(b2, fs2)
    BY <1>2, <1>3, <1>4, <1>7, <1>8 DEF PairInv
  <1>10. SignalsAreOwn(b, b, fs["stage2"].plan)
    BY Rests DEF Good, Speaks
  <1>11. SignalsAreOwn(b, b2, fs["stage2"].plan)
    BY <1>3, <1>5, <1>10 DEF SignalsAreOwn
  <1>12. Speaks(b, b2, fs["stage2"].plan)
    BY <1>2, <1>8, <1>11 DEF Speaks, AnsweredRests
  <1> QED
    BY <1>9, <1>12 DEF Good, fs2

LEMMA Stage2EventRead ==
    ASSUME NEW b, NEW fs, PairInv(b, fs), NEW f, f = fs["stage2"], f.inbox # <<>>, ~b.aborted,
           NEW f2, f2 = [f EXCEPT !.inbox = Tail(@)],
           NEW b2, b2 = ApplyStage2Event(b, Head(f.inbox))
    PROVE  Good(b, fs, b2, [fs EXCEPT !["stage2"] = f2])
  <1> DEFINE fs2 == [fs EXCEPT !["stage2"] = f2]
  <1>1. b \in BubbleType /\ f \in FeedType /\ Stage2Inv(b, f) /\ fs \in [Streams -> FeedType]
    BY DEF PairInv, Streams
  <1>2. /\ f2 \in FeedType /\ b2 \in BubbleType
        /\ b2 = [b EXCEPT !.signals = b2.signals]
        /\ Stage2Inv(b2, f2) /\ SignalsAreOwn(b, b2, f.plan)
    BY <1>1, Stage2Read
  <1>3. /\ b2.text = b.text /\ b2.polish = b.polish /\ b2.answer = b.answer /\ b2.aborted = b.aborted
    BY <1>1, <1>2 DEF BubbleType
  <1>4. fs2 \in [Streams -> FeedType] /\ fs2["stage2"] = f2 /\ fs2["polish"] = fs["polish"]
    BY <1>1, <1>2 DEF Streams
  <1>5. PolishInv(b2, fs["polish"])
    BY <1>3 DEF PairInv, PolishInv, PolishReading, PolishInbox, Read
  <1>6. b.answer = "none"
    BY DEF PairInv
  <1> HIDE DEF fs2
  <1>7. PairInv(b2, fs2)
    BY <1>2, <1>3, <1>4, <1>5, <1>6 DEF PairInv
  <1>8. TextIsOwn(b, b)
    BY Rests DEF Good, Speaks
  <1>9. TextIsOwn(b, b2)
    BY <1>3, <1>8 DEF TextIsOwn
  <1>10. Speaks(b, b2, fs["stage2"].plan)
    BY <1>2, <1>6, <1>9 DEF Speaks, AnsweredRests
  <1> QED
    BY <1>7, <1>10 DEF Good, fs2

\* An aborted reader drops the event.
LEMMA EventDropped ==
    ASSUME NEW b, NEW fs, PairInv(b, fs), NEW s \in Streams, NEW f, f = fs[s], f.inbox # <<>>, b.aborted,
           NEW f2, f2 = [f EXCEPT !.inbox = Tail(@)]
    PROVE  Good(b, fs, b, [fs EXCEPT ![s] = f2])
  <1>1. f \in FeedType
    BY DEF PairInv
  <1>2. f2 \in FeedType /\ f2.state = f.state /\ f2.plan = f.plan
    BY <1>1, InboxRead
  <1>3. CASE s = "polish"
    <2>1. PolishInv(b, f2)
      BY <1>2, <1>3 DEF PairInv, PolishInv
    <2> QED
      BY <1>2, <1>3, <2>1, PolishFeedChanges
  <1>4. CASE s = "stage2"
    <2>1. Stage2Inv(b, f2)
      BY <1>2, <1>4 DEF PairInv, Stage2Inv
    <2> QED
      BY <1>2, <1>4, <2>1, Stage2FeedChanges
  <1> QED
    BY <1>3, <1>4 DEF Streams

LEMMA StreamChanges ==
    ASSUME BubblesInv, NEW i \in DOMAIN bubbles, NEW s \in Streams, NEW b, NEW f,
           bubbles' = [bubbles EXCEPT ![i] = b], feeds' = [feeds EXCEPT ![i][s] = f],
           planned' \in PlannedTerms,
           Good(bubbles[i], feeds[i], b, [feeds[i] EXCEPT ![s] = f])
    PROVE  Outcome
  <1> DEFINE fs == [feeds[i] EXCEPT ![s] = f]
  <1>1. feeds' = [feeds EXCEPT ![i] = fs]
    OBVIOUS
  <1> HIDE DEF fs
  <1>2. Good(bubbles[i], feeds[i], b, fs)
    BY DEF fs
  <1> QED
    BY <1>1, <1>2, PairChanges

LEMMA RouteAnswers ==
    ASSUME BubblesInv, NEW i \in DOMAIN bubbles, NEW s \in Streams, NEW from, NEW f \in FeedType,
           AnswerWith(i, s, from, f),
           s = "polish" => PolishInv(bubbles[i], f), s = "stage2" => Stage2Inv(bubbles[i], f)
    PROVE  Outcome
  <1>1. PairInv(bubbles[i], feeds[i])
    BY DEF BubblesInv
  <1>3. Good(bubbles[i], feeds[i], bubbles[i], [feeds[i] EXCEPT ![s] = f])
    <2>1. CASE s = "polish"
      BY <1>1, <2>1, PolishFeedChanges
    <2>2. CASE s = "stage2"
      BY <1>1, <2>2, Stage2FeedChanges
    <2> QED
      BY <2>1, <2>2 DEF Streams
  <1>4. feeds' = [feeds EXCEPT ![i][s] = f] /\ UNCHANGED <<bubbles, planned>>
    BY DEF AnswerWith
  <1>5. bubbles' = [bubbles EXCEPT ![i] = bubbles[i]] /\ planned' \in PlannedTerms
    BY <1>4 DEF BubblesInv
  <1> QED
    BY <1>3, <1>4, <1>5, StreamChanges


LEMMA BubblesBegin == BubblesInit => BubblesInv
  BY DEF BubblesInit, BubblesInv

LEMMA BubbleAdded == ASSUME BubblesInv, HandlePlanActionResult PROVE Outcome
  <1>1. PICK hard \in BOOLEAN, terms \in BubbleTerms :
           /\ bubbles' = Append(bubbles, InitBubbleState(hard, terms))
           /\ feeds' = Append(feeds, SpawnBubbleEnrichers(hard, terms))
    BY DEF HandlePlanActionResult
  <1> DEFINE b == InitBubbleState(hard, terms)
             fs == SpawnBubbleEnrichers(hard, terms)
  <1>2. b \in BubbleType /\ b.hard = hard /\ b.terms = terms /\ b.text = Template /\ b.polish = "idle"
        /\ DOMAIN b.signals = {} /\ b.answer = "none" /\ ~b.aborted
    <2>1. NoSignals \in [{} -> Statuses] /\ DOMAIN NoSignals = {}
      BY DEF NoSignals
    <2>2. NoSignals \in SignalsType
      BY <2>1 DEF SignalsType
    <2> QED
      BY <2>1, <2>2 DEF InitBubbleState, BubbleType, Template, Answers
  <1>3. NoFeed \in FeedType /\ Feed \in FeedType
    <2>1. <<>> \in Seq(FrameType)
      OBVIOUS
    <2>2. NoFeed = [state |-> "none", inbox |-> <<>>, sent |-> 0, plan |-> NoneStored]
      BY DEF NoFeed
    <2>3. Feed = [state |-> "asked", inbox |-> <<>>, sent |-> 0, plan |-> NoneStored]
      BY DEF NoFeed, Feed
    <2> QED
      BY <2>1, <2>2, <2>3 DEF FeedType, States
  <1>4. /\ NoFeed.state = "none" /\ NoFeed.inbox = <<>> /\ NoFeed.sent = 0
        /\ Feed.state = "asked" /\ Feed.inbox = <<>> /\ Feed.sent = 0
    BY DEF NoFeed, Feed
  <1>5. fs \in [Streams -> FeedType] /\ fs["polish"] = Feed /\ fs["stage2"] \in {NoFeed, Feed}
        /\ (hard => fs["stage2"] = NoFeed)
    BY <1>3 DEF SpawnBubbleEnrichers, Streams
  <1> HIDE DEF b, fs
  <1>6. PolishInv(b, fs["polish"])
    BY <1>2, <1>4, <1>5 DEF PolishInv, PolishReading, PolishInbox
  <1>7. Stage2Inv(b, fs["stage2"])
    <2>1. ToldTo(b, 0) /\ Told(b) = {} /\ 0 \in 0..Len(b.terms)
      BY <1>2, TermsApart DEF ToldTo, Told
    <2>2. SignalReading(b, fs["stage2"], 0)
      BY <1>4, <1>5 DEF SignalReading, SignalInbox
    <2> QED
      BY <1>2, <1>4, <1>5, <2>1, <2>2 DEF Stage2Inv
  <1>8. PairInv(b, fs)
    BY <1>2, <1>5, <1>6, <1>7 DEF PairInv
  <1>9. bubbles' = Append(bubbles, b) /\ feeds' = Append(feeds, fs) /\ planned' = planned
    BY <1>1 DEF b, fs, HandlePlanActionResult
  <1>10. /\ bubbles' \in Seq(BubbleType) /\ feeds' \in Seq([Streams -> FeedType])
         /\ Len(bubbles') = Len(bubbles) + 1 /\ Len(feeds') = Len(bubbles) + 1 /\ Len(bubbles) \in Nat
         /\ DOMAIN bubbles = 1..Len(bubbles) /\ DOMAIN bubbles' = 1..(Len(bubbles) + 1)
         /\ bubbles'[Len(bubbles) + 1] = b /\ feeds'[Len(bubbles) + 1] = fs
         /\ \A i \in 1..Len(bubbles) : bubbles'[i] = bubbles[i] /\ feeds'[i] = feeds[i]
    BY <1>2, <1>5, <1>9 DEF BubblesInv
  <1>11. ASSUME NEW i \in DOMAIN bubbles' PROVE PairInv(bubbles'[i], feeds'[i])
    <2>1. CASE i = Len(bubbles) + 1
      BY <1>8, <1>10, <2>1
    <2>2. CASE i \in DOMAIN bubbles
      BY <1>10, <2>2 DEF BubblesInv
    <2> QED
      BY <1>10, <2>1, <2>2
  <1>12. BubblesInv'
    BY <1>9, <1>10, <1>11 DEF BubblesInv
  <1>13. ASSUME NEW i \in DOMAIN bubbles PROVE Speaks(bubbles[i], bubbles'[i], feeds[i]["stage2"].plan)
    <2>1. Good(bubbles[i], feeds[i], bubbles[i], feeds[i])
      BY Rests DEF BubblesInv
    <2> QED
      BY <1>10, <2>1 DEF Good
  <1> QED
    BY <1>12, <1>13 DEF Outcome

\* A step that leaves the bubbles and their streams alone.
LEMMA BubblesRest ==
    ASSUME BubblesInv, UNCHANGED <<bubbles, feeds>>, planned' \in PlannedTerms
    PROVE  Outcome
  <1>1. ASSUME NEW i \in DOMAIN bubbles PROVE Good(bubbles[i], feeds[i], bubbles[i], feeds[i])
    BY Rests DEF BubblesInv
  <1> QED
    BY <1>1 DEF BubblesInv, Outcome, Good

LEMMA BubbleAnswered ==
    ASSUME BubblesInv, NEW i \in DOMAIN bubbles,
           \/ HandleBubbleConfirm(i) \/ ConfirmFailed(i) \/ ConfirmApplied(i) \/ HandleBubbleKeepAsIs(i)
    PROVE  Outcome
  <1> DEFINE x == bubbles[i]
             fs == feeds[i]
  <1>1. PairInv(x, fs)
    BY DEF BubblesInv
  <1>2. feeds' = [feeds EXCEPT ![i] = fs] /\ planned' \in PlannedTerms
    BY DEF HandleBubbleConfirm, ConfirmFailed, ConfirmApplied, HandleBubbleKeepAsIs, BubblesInv
  <1>3. CASE HandleBubbleConfirm(i) \/ HandleBubbleKeepAsIs(i)
    <2>1. PICK a \in Answers : bubbles' = [bubbles EXCEPT ![i] = [AbortBubbleEnrichers(x) EXCEPT !.answer = a]]
      BY <1>3 DEF HandleBubbleConfirm, HandleBubbleKeepAsIs, Answers
    <2> DEFINE y == [AbortBubbleEnrichers(x) EXCEPT !.answer = a]
    <2>2. Good(x, fs, y, fs)
      BY <1>1, AnswerGiven
    <2> HIDE DEF x, fs, y
    <2>3. bubbles' = [bubbles EXCEPT ![i] = y]
      BY <2>1 DEF x, y
    <2> QED
      BY <1>2, <2>2, <2>3, PairChanges DEF x, fs
  <1>4. CASE ConfirmFailed(i) \/ ConfirmApplied(i)
    <2>1. PICK a \in Answers : bubbles' = [bubbles EXCEPT ![i] = [x EXCEPT !.answer = a]]
      BY <1>4 DEF ConfirmFailed, ConfirmApplied, Answers
    <2>2. x.answer # "none"
      BY <1>4 DEF ConfirmFailed, ConfirmApplied
    <2> DEFINE y == [x EXCEPT !.answer = a]
    <2>3. Good(x, fs, y, fs)
      BY <1>1, <2>2, AnswerSettled
    <2> HIDE DEF x, fs, y
    <2>4. bubbles' = [bubbles EXCEPT ![i] = y]
      BY <2>1 DEF x, y
    <2> QED
      BY <1>2, <2>3, <2>4, PairChanges DEF x, fs
  <1> QED
    BY <1>3, <1>4

LEMMA EventRead ==
    ASSUME BubblesInv, NEW i \in DOMAIN bubbles, NEW s \in Streams, ReadEvent(i, s)
    PROVE  Outcome
  <1> DEFINE x == bubbles[i]
             fs == feeds[i]
             f == fs[s]
             f2 == [f EXCEPT !.inbox = Tail(@)]
             e == IF s = "polish" THEN ApplyPolishEvent(x, Head(f.inbox)) ELSE ApplyStage2Event(x, Head(f.inbox))
             y == Take(i, s, e)
  <1>1. PairInv(x, fs)
    BY DEF BubblesInv
  <1>2. f.inbox # <<>> /\ bubbles' = [bubbles EXCEPT ![i] = y] /\ planned' \in PlannedTerms
    BY DEF ReadEvent, BubblesInv
  <1>3. feeds' = [feeds EXCEPT ![i][s] = f2]
    BY DEF ReadEvent
  <1>4. y = IF x.aborted THEN x ELSE e
    BY DEF Take
  <1>5. Good(x, fs, y, [fs EXCEPT ![s] = f2])
    <2>1. CASE x.aborted
      <3>1. y = x
        BY <1>4, <2>1
      <3>2. Good(x, fs, x, [fs EXCEPT ![s] = f2])
        BY <1>1, <1>2, <2>1, EventDropped
      <3> QED
        BY <3>1, <3>2
    <2>2. CASE ~x.aborted /\ s = "polish"
      <3>1. y = ApplyPolishEvent(x, Head(f.inbox)) /\ f = fs["polish"]
        BY <1>4, <2>2
      <3>2. Good(x, fs, ApplyPolishEvent(x, Head(f.inbox)), [fs EXCEPT !["polish"] = f2])
        BY <1>1, <1>2, <2>2, PolishEventRead
      <3> QED
        BY <2>2, <3>1, <3>2
    <2>3. CASE ~x.aborted /\ s = "stage2"
      <3>1. y = ApplyStage2Event(x, Head(f.inbox)) /\ f = fs["stage2"]
        BY <1>4, <2>3
      <3>2. Good(x, fs, ApplyStage2Event(x, Head(f.inbox)), [fs EXCEPT !["stage2"] = f2])
        BY <1>1, <1>2, <2>3, Stage2EventRead
      <3> QED
        BY <2>3, <3>1, <3>2
    <2> QED
      BY <2>1, <2>2, <2>3 DEF Streams
  <1> HIDE DEF x, fs, f2, y
  <1>6. Good(bubbles[i], feeds[i], y, [feeds[i] EXCEPT ![s] = f2])
    BY <1>5 DEF x, fs
  <1> QED
    BY <1>2, <1>3, <1>6, StreamChanges


\* What the invariant says of the streams of one bubble.
LEMMA PairParts ==
    ASSUME BubblesInv, NEW i \in DOMAIN bubbles
    PROVE  /\ bubbles[i] \in BubbleType
           /\ \A s \in Streams : feeds[i][s] \in FeedType
           /\ PolishInv(bubbles[i], feeds[i]["polish"]) /\ Stage2Inv(bubbles[i], feeds[i]["stage2"])
  BY DEF BubblesInv, PairInv

LEMMA RouteRefusesStep ==
    ASSUME BubblesInv, NEW i \in DOMAIN bubbles, NEW s \in Streams, RouteRefuses(i, s)
    PROVE  Outcome
  <1> DEFINE f == feeds[i][s]
             f2 == [f EXCEPT !.state = "closed", !.inbox = <<Failure(s)>>]
  <1>1. AnswerWith(i, s, "asked", f2) /\ f.state = "asked" /\ f \in FeedType
    BY PairParts DEF RouteRefuses, AnswerWith
  <1>2. CASE s = "polish"
    <2>1. f2 \in FeedType /\ PolishInv(bubbles[i], f2)
      BY <1>1, <1>2, PairParts, PolishRefused
    <2> HIDE DEF f2
    <2> QED
      BY <1>1, <1>2, <2>1, RouteAnswers
  <1>3. CASE s = "stage2"
    <2>1. f2 \in FeedType /\ Stage2Inv(bubbles[i], f2)
      BY <1>1, <1>3, PairParts, Stage2Refused
    <2> HIDE DEF f2
    <2> QED
      BY <1>1, <1>3, <2>1, RouteAnswers
  <1> QED
    BY <1>2, <1>3 DEF Streams

LEMMA SwitchedOffStep ==
    ASSUME BubblesInv, NEW i \in DOMAIN bubbles, SwitchedOff(i)
    PROVE  Outcome
  <1> DEFINE f == feeds[i]["polish"]
             f2 == [f EXCEPT !.state = "closed"]
  <1>1. AnswerWith(i, "polish", "asked", f2) /\ f.state = "asked" /\ f \in FeedType /\ "polish" \in Streams
    BY PairParts DEF SwitchedOff, AnswerWith, Streams
  <1>2. PolishInv(bubbles[i], f) /\ f.inbox = <<>>
    BY <1>1, PairParts DEF PolishInv
  <1>3. f2 = [f EXCEPT !.state = "closed", !.inbox = <<>>]
    BY <1>1, <1>2 DEF FeedType
  <1>4. f2 \in FeedType /\ PolishInv(bubbles[i], f2)
    BY <1>1, <1>2, <1>3, PairParts, PolishRefused
  <1> HIDE DEF f2
  <1> QED
    BY <1>1, <1>4, RouteAnswers

LEMMA RouteStreamsStep ==
    ASSUME BubblesInv, NEW i \in DOMAIN bubbles, NEW s \in Streams, RouteStreams(i, s)
    PROVE  Outcome
  <1> DEFINE f == feeds[i][s]
  <1>1. PICK p \in {planned, NoneStored} :
           AnswerWith(i, s, "asked", [f EXCEPT !.state = "open", !.plan = IF s = "stage2" THEN p ELSE @])
    BY DEF RouteStreams
  <1>2. f.state = "asked" /\ f \in FeedType /\ p \in {NoneStored} \cup PlannedTerms
    BY <1>1, PairParts DEF AnswerWith, BubblesInv
  <1>3. CASE s = "polish"
    <2> DEFINE f2 == [f EXCEPT !.state = "open"]
    <2>1. [f EXCEPT !.state = "open", !.plan = IF s = "stage2" THEN p ELSE @] = f2
      BY <1>2, <1>3 DEF FeedType
    <2>2. f2 \in FeedType /\ PolishInv(bubbles[i], f2)
      BY <1>2, <1>3, PairParts, PolishOpens
    <2>3. AnswerWith(i, s, "asked", f2)
      BY <1>1, <2>1
    <2> HIDE DEF f2
    <2> QED
      BY <1>3, <2>2, <2>3, RouteAnswers
  <1>4. CASE s = "stage2"
    <2> DEFINE f2 == [f EXCEPT !.state = "open", !.plan = p]
    <2>1. [f EXCEPT !.state = "open", !.plan = IF s = "stage2" THEN p ELSE @] = f2
      BY <1>4
    <2>2. f2 \in FeedType /\ Stage2Inv(bubbles[i], f2)
      BY <1>2, <1>4, PairParts, Stage2Opens
    <2>3. AnswerWith(i, s, "asked", f2)
      BY <1>1, <2>1
    <2> HIDE DEF f2
    <2> QED
      BY <1>4, <2>2, <2>3, RouteAnswers
  <1> QED
    BY <1>3, <1>4 DEF Streams

LEMMA PolishStreamsStep ==
    ASSUME BubblesInv, NEW i \in DOMAIN bubbles, PolishStreams(i)
    PROVE  Outcome
  <1> DEFINE f == feeds[i]["polish"]
  <1>1. PICK g, st :
           /\ \/ g = Frame("chunk", f.sent + 1) /\ st = "open"
              \/ g \in {Frame("done", f.sent), Failure("polish")} /\ st = "closed"
           /\ AnswerWith(i, "polish", "open", [f EXCEPT !.inbox = Append(@, g), !.sent = @ + 1, !.state = st])
    BY DEF PolishStreams, Write
  <1> DEFINE f2 == [f EXCEPT !.inbox = Append(@, g), !.sent = @ + 1, !.state = st]
  <1>2. f.state = "open" /\ f \in FeedType /\ "polish" \in Streams
    BY <1>1, PairParts DEF AnswerWith, Streams
  <1>3. f2 \in FeedType /\ PolishInv(bubbles[i], f2)
    BY <1>1, <1>2, PairParts, PolishWrites
  <1>4. AnswerWith(i, "polish", "open", f2)
    BY <1>1
  <1> HIDE DEF f2
  <1> QED
    BY <1>2, <1>3, <1>4, RouteAnswers

LEMMA Stage2StreamsStep ==
    ASSUME BubblesInv, NEW i \in DOMAIN bubbles, Stage2Streams(i)
    PROVE  Outcome
  <1> DEFINE f == feeds[i]["stage2"]
             terms == bubbles[i].terms
  <1>1. PICK g, st :
           /\ \/ /\ f.sent < Len(terms) /\ st = "open"
                 /\ \E status \in ClassifyTerm(f.plan, terms[f.sent + 1]) : g = Signal(terms[f.sent + 1], status)
              \/ g = Frame("done", 0) /\ st = "closed"
           /\ AnswerWith(i, "stage2", "open", [f EXCEPT !.inbox = Append(@, g), !.sent = @ + 1, !.state = st])
    BY DEF Stage2Streams, Write
  <1> DEFINE f2 == [f EXCEPT !.inbox = Append(@, g), !.sent = @ + 1, !.state = st]
  <1>2. f.state = "open" /\ f \in FeedType /\ "stage2" \in Streams
    BY <1>1, PairParts DEF AnswerWith, Streams
  <1>3. f2 \in FeedType /\ Stage2Inv(bubbles[i], f2)
    BY <1>1, <1>2, PairParts, Stage2Writes
  <1>4. AnswerWith(i, "stage2", "open", f2)
    BY <1>1
  <1> HIDE DEF f2
  <1> QED
    BY <1>2, <1>3, <1>4, RouteAnswers, SMTT(30)

LEMMA StreamFailsStep ==
    ASSUME BubblesInv, NEW i \in DOMAIN bubbles, NEW s \in Streams, StreamFails(i, s)
    PROVE  Outcome
  <1> DEFINE f == feeds[i][s]
  <1>1. PICK n \in 0..Len(f.inbox) :
           AnswerWith(i, s, "open", [f EXCEPT !.state = "closed", !.inbox = Append(SubSeq(@, 1, n), Failure(s))])
    BY DEF StreamFails
  <1> DEFINE f2 == [f EXCEPT !.state = "closed", !.inbox = Append(SubSeq(@, 1, n), Failure(s))]
  <1>2. f.state = "open" /\ f \in FeedType
    BY <1>1, PairParts DEF AnswerWith
  <1>3. AnswerWith(i, s, "open", f2)
    BY <1>1
  <1>4. CASE s = "polish"
    <2>1. f2 \in FeedType /\ PolishInv(bubbles[i], f2)
      BY <1>2, <1>4, PairParts, PolishBreaks
    <2> HIDE DEF f2
    <2> QED
      BY <1>3, <1>4, <2>1, RouteAnswers
  <1>5. CASE s = "stage2"
    <2>1. f2 \in FeedType /\ Stage2Inv(bubbles[i], f2)
      BY <1>2, <1>5, PairParts, Stage2Breaks
    <2> HIDE DEF f2
    <2> QED
      BY <1>3, <1>5, <2>1, RouteAnswers
  <1> QED
    BY <1>4, <1>5 DEF Streams

LEMMA BubblesStep == BubblesInv /\ [BubblesNext]_bubbleVars => Outcome
  <1> SUFFICES ASSUME BubblesInv, [BubblesNext]_bubbleVars PROVE Outcome
    OBVIOUS
  <1>1. CASE HandlePlanActionResult
    BY <1>1, BubbleAdded
  <1>2. CASE PlanStored \/ UNCHANGED bubbleVars
    BY <1>2, BubblesRest DEF PlanStored, bubbleVars, BubblesInv
  <1>3. ASSUME NEW i \in DOMAIN bubbles,
               \/ HandleBubbleConfirm(i) \/ ConfirmFailed(i) \/ ConfirmApplied(i) \/ HandleBubbleKeepAsIs(i)
        PROVE  Outcome
    BY <1>3, BubbleAnswered
  <1>4. ASSUME NEW i \in DOMAIN bubbles, SwitchedOff(i) \/ PolishStreams(i) \/ Stage2Streams(i)
        PROVE  Outcome
    BY <1>4, SwitchedOffStep, PolishStreamsStep, Stage2StreamsStep
  <1>5. ASSUME NEW i \in DOMAIN bubbles, NEW s \in Streams,
               ReadEvent(i, s) \/ RouteRefuses(i, s) \/ RouteStreams(i, s) \/ StreamFails(i, s)
        PROVE  Outcome
    BY <1>5, EventRead, RouteRefusesStep, RouteStreamsStep, StreamFailsStep
  <1> QED
    BY <1>1, <1>2, <1>3, <1>4, <1>5 DEF BubblesNext

\* The inbox of a stream always goes on where the bubble ends, for any number
\* of bubbles and any streams (spawnBubbleEnrichers, the two routes).
THEOREM BubblesInvariant == BubblesSpec => []BubblesInv
  <1>1. BubblesInv /\ [BubblesNext]_bubbleVars => BubblesInv'
    BY BubblesStep DEF Outcome
  <1> QED
    BY <1>1, BubblesBegin, PTL DEF BubblesSpec

\* A bubble shows its template or a beginning of its own rewrite, tells of its
\* own terms in their order, and rests once it is answered, for any number of
\* bubbles, chunks and terms (applyPolishEvent, applyStage2Event).
THEOREM BubbleTruth == BubblesSpec => BubbleSpeaksForItself
  <1>1. BubblesInv /\ [BubblesNext]_bubbleVars
          => [\A i \in DOMAIN bubbles : Speaks(bubbles[i], bubbles'[i], feeds[i]["stage2"].plan)]_bubbleVars
    BY BubblesStep DEF Outcome
  <1> QED
    BY <1>1, BubblesInvariant, PTL DEF BubblesSpec, BubbleSpeaksForItself

-----------------------------------------------------------------------------
(* The scenarios and the plan store of the page.                           *)

StoreFields == {"committed", "scenarios", "activeId", "compare", "invalid", "previews", "nextId"}
HasStoreFields(s) == s = [f \in StoreFields |-> s[f]]
Proposed(s) == {sc \in s.scenarios : sc.kind = "proposed"}

\* Ids are given once, and of the proposals there is one at most.
IdsAreGiven(s) ==
  /\ s.nextId \in Nat \ {0}
  /\ \A sc \in s.scenarios : sc.id \in 1..(s.nextId - 1)
  /\ \A a, b \in s.scenarios : a.id = b.id => a = b
OneProposed(s) ==
  /\ \A a, b \in Proposed(s) : a = b
  /\ s.previews = {sc.id : sc \in Proposed(s)}
Compares(s) ==
  \/ s.compare = <<>>
  \/ \E l, r : s.compare = <<l, r>> /\ l # r /\ IsResolvable(s, l) /\ IsResolvable(s, r)
StoreIsWell(s) ==
  /\ HasStoreFields(s)
  /\ IdsAreGiven(s)
  /\ OneProposed(s)
  /\ s.activeId \in ScenarioIds(s) \cup {CommittedId}
  /\ Compares(s)

LEMMA EmptyIsWell ==
    ASSUME NEW plan, NEW n \in Nat \ {0}
    PROVE  StoreIsWell([EmptyStore EXCEPT !.committed = plan, !.nextId = n])
  <1> DEFINE s == [EmptyStore EXCEPT !.committed = plan, !.nextId = n]
  <1>1. HasStoreFields(s) /\ s.scenarios = {} /\ s.previews = {} /\ s.compare = <<>>
        /\ s.activeId = CommittedId /\ s.nextId = n
    BY DEF EmptyStore, HasStoreFields, StoreFields
  <1> HIDE DEF s
  <1>2. StoreIsWell(s)
    BY <1>1 DEF StoreIsWell, IdsAreGiven, OneProposed, Proposed, Compares
  <1> QED
    BY <1>2 DEF s

LEMMA DiscardedFields ==
    ASSUME NEW s, HasStoreFields(s), NEW ids
    PROVE  /\ HasStoreFields(DiscardScenarios(s, ids))
           /\ DiscardScenarios(s, ids).scenarios = {sc \in s.scenarios : sc.id \notin ids}
           /\ DiscardScenarios(s, ids).activeId = IF s.activeId \in ids THEN CommittedId ELSE s.activeId
           /\ DiscardScenarios(s, ids).compare = IF Range(s.compare) \cap ids # {} THEN <<>> ELSE s.compare
           /\ DiscardScenarios(s, ids).previews = s.previews \ ids
           /\ DiscardScenarios(s, ids).nextId = s.nextId
           /\ DiscardScenarios(s, ids).committed = s.committed
           /\ DiscardScenarios(s, ids).invalid = s.invalid
  BY DEF DiscardScenarios, HasStoreFields, StoreFields

LEMMA DiscardedIsWell ==
    ASSUME NEW s, StoreIsWell(s), NEW ids
    PROVE  /\ StoreIsWell(DiscardScenarios(s, ids))
           /\ DiscardScenarios(s, ids).committed = s.committed
  <1> DEFINE t == DiscardScenarios(s, ids)
  <1>1. /\ HasStoreFields(t)
        /\ t.scenarios = {sc \in s.scenarios : sc.id \notin ids}
        /\ t.activeId = IF s.activeId \in ids THEN CommittedId ELSE s.activeId
        /\ t.compare = IF Range(s.compare) \cap ids # {} THEN <<>> ELSE s.compare
        /\ t.previews = s.previews \ ids
        /\ t.nextId = s.nextId /\ t.committed = s.committed
    BY DiscardedFields DEF StoreIsWell
  <1> HIDE DEF t
  <1>2. IdsAreGiven(t)
    BY <1>1 DEF StoreIsWell, IdsAreGiven
  <1>3. OneProposed(t)
    BY <1>1 DEF StoreIsWell, OneProposed, Proposed
  <1>4. t.activeId \in ScenarioIds(t) \cup {CommittedId}
    BY <1>1 DEF StoreIsWell, ScenarioIds
  <1>5. Compares(t)
    <2>1. CASE t.compare = <<>>
      BY <2>1 DEF Compares
    <2>2. CASE t.compare # <<>>
      <3>1. t.compare = s.compare /\ Range(s.compare) \cap ids = {} /\ s.compare # <<>>
        BY <1>1, <2>2
      <3>2. PICK l, r : s.compare = <<l, r>> /\ l # r /\ IsResolvable(s, l) /\ IsResolvable(s, r)
        BY <3>1 DEF StoreIsWell, Compares
      <3>3. l \in Range(s.compare) /\ r \in Range(s.compare)
        BY <3>2 DEF Range
      <3>4. l \notin ids /\ r \notin ids
        BY <3>1, <3>3
      <3>5. ASSUME NEW x, x \notin ids, IsResolvable(s, x) PROVE IsResolvable(t, x)
        BY <1>1, <3>5 DEF IsResolvable, ScenarioIds
      <3> QED
        BY <3>1, <3>2, <3>4, <3>5 DEF Compares
    <2> QED
      BY <2>1, <2>2
  <1> QED
    BY <1>1, <1>2, <1>3, <1>4, <1>5 DEF StoreIsWell, t

\* Tabs, the red card: what is shown changes, not what there is.
LEMMA ShownIsWell ==
    ASSUME NEW s, StoreIsWell(s), NEW active \in ScenarioIds(s) \cup {CommittedId}, NEW invalid
    PROVE  /\ StoreIsWell([s EXCEPT !.invalid = invalid])
           /\ [s EXCEPT !.invalid = invalid].committed = s.committed
           /\ StoreIsWell(SetActive(s, active))
           /\ SetActive(s, active).committed = s.committed
           /\ StoreIsWell([s EXCEPT !.compare = <<>>])
           /\ [s EXCEPT !.compare = <<>>].committed = s.committed
  <1>1. ASSUME NEW t, HasStoreFields(t), t.committed = s.committed, t.scenarios = s.scenarios, t.previews = s.previews,
               t.nextId = s.nextId, t.activeId \in {s.activeId, active}, t.compare \in {s.compare, <<>>}
        PROVE  StoreIsWell(t)
    <2>1. ScenarioIds(t) = ScenarioIds(s) /\ Proposed(t) = Proposed(s)
      BY <1>1 DEF ScenarioIds, Proposed
    <2>2. \A x : IsResolvable(t, x) = IsResolvable(s, x)
      BY <1>1, <2>1 DEF IsResolvable
    <2>3. Compares(t)
      BY <1>1, <2>2 DEF StoreIsWell, Compares
    <2> QED
      BY <1>1, <2>1, <2>3 DEF StoreIsWell, IdsAreGiven, OneProposed
  <1>2. HasStoreFields(s)
    BY DEF StoreIsWell
  <1> DEFINE a == [s EXCEPT !.invalid = invalid]
             b == SetActive(s, active)
             c == [s EXCEPT !.compare = <<>>]
  <1>3. /\ HasStoreFields(a) /\ a.committed = s.committed /\ a.scenarios = s.scenarios
        /\ a.previews = s.previews /\ a.nextId = s.nextId /\ a.activeId = s.activeId /\ a.compare = s.compare
    BY <1>2 DEF HasStoreFields, StoreFields
  <1>4. /\ HasStoreFields(b) /\ b.committed = s.committed /\ b.scenarios = s.scenarios
        /\ b.previews = s.previews /\ b.nextId = s.nextId /\ b.activeId = active /\ b.compare = <<>>
    BY <1>2 DEF HasStoreFields, StoreFields, SetActive
  <1>5. /\ HasStoreFields(c) /\ c.committed = s.committed /\ c.scenarios = s.scenarios
        /\ c.previews = s.previews /\ c.nextId = s.nextId /\ c.activeId = s.activeId /\ c.compare = <<>>
    BY <1>2 DEF HasStoreFields, StoreFields
  <1> HIDE DEF a, b, c
  <1>6. StoreIsWell(a) /\ StoreIsWell(b) /\ StoreIsWell(c)
    BY <1>1, <1>3, <1>4, <1>5
  <1> QED
    BY <1>3, <1>4, <1>5, <1>6 DEF a, b, c

Added(s, kind, p, previews) == [AddScenario(s, kind, p) EXCEPT !.previews = previews]

\* A scenario of its own; a proposal only if there is none.
LEMMA AddedIsWell ==
    ASSUME NEW s, StoreIsWell(s), NEW kind, NEW p, NEW previews,
           \/ kind = "proposed" /\ previews = s.previews \cup {s.nextId} /\ Proposed(s) = {}
           \/ kind # "proposed" /\ previews = s.previews
    PROVE  StoreIsWell(Added(s, kind, p, previews)) /\ Added(s, kind, p, previews).committed = s.committed
  <1> DEFINE new == [id |-> s.nextId, kind |-> kind, plan |-> p.plan, mid |-> p.mid]
             t == Added(s, kind, p, previews)
  <1>1. /\ HasStoreFields(t) /\ t.committed = s.committed /\ t.scenarios = s.scenarios \cup {new}
        /\ t.previews = previews /\ t.nextId = s.nextId + 1 /\ t.activeId = s.nextId /\ t.compare = <<>>
    BY DEF StoreIsWell, HasStoreFields, StoreFields, AddScenario, Added
  <1>2. new.id = s.nextId /\ new.kind = kind
    OBVIOUS
  <1> HIDE DEF t, new
  <1>3. s.nextId \in Nat \ {0} /\ \A sc \in s.scenarios : sc.id \in 1..(s.nextId - 1)
    BY DEF StoreIsWell, IdsAreGiven
  <1>4. \A sc \in s.scenarios : sc.id # s.nextId
    BY <1>3
  <1>5. IdsAreGiven(t)
    <2>1. t.nextId \in Nat \ {0}
      BY <1>1, <1>3
    <2>2. \A sc \in t.scenarios : sc.id \in 1..(t.nextId - 1)
      BY <1>1, <1>2, <1>3
    <2>3. \A a, b \in t.scenarios : a.id = b.id => a = b
      BY <1>1, <1>2, <1>4 DEF StoreIsWell, IdsAreGiven
    <2> QED
      BY <2>1, <2>2, <2>3 DEF IdsAreGiven
  <1>6. OneProposed(t)
    <2>1. Proposed(t) = IF kind = "proposed" THEN Proposed(s) \cup {new} ELSE Proposed(s)
      BY <1>1, <1>2 DEF Proposed
    <2>2. s.previews = {sc.id : sc \in Proposed(s)} /\ \A a, b \in Proposed(s) : a = b
      BY DEF StoreIsWell, OneProposed
    <2>3. CASE kind = "proposed"
      BY <1>1, <1>2, <2>1, <2>2, <2>3 DEF OneProposed
    <2>4. CASE kind # "proposed"
      BY <1>1, <2>1, <2>2, <2>4 DEF OneProposed
    <2> QED
      BY <2>3, <2>4
  <1>7. t.activeId \in ScenarioIds(t)
    BY <1>1, <1>2 DEF ScenarioIds
  <1> QED
    BY <1>1, <1>5, <1>6, <1>7 DEF StoreIsWell, Compares, t

LEMMA DroppedIsWell ==
    ASSUME NEW s, StoreIsWell(s)
    PROVE  /\ StoreIsWell(DropCompatPreviews(s)) /\ DropCompatPreviews(s).committed = s.committed
           /\ Proposed(DropCompatPreviews(s)) = {} /\ DropCompatPreviews(s).previews = {}
  <1> DEFINE t == DiscardScenarios(s, s.previews)
  <1>1. StoreIsWell(t) /\ t.committed = s.committed
    BY DiscardedIsWell
  <1>2. t.previews = {} /\ t.scenarios = {sc \in s.scenarios : sc.id \notin s.previews}
    BY DiscardedFields DEF StoreIsWell
  <1> HIDE DEF t
  <1>3. Proposed(t) = {}
    BY <1>2 DEF Proposed, StoreIsWell, OneProposed
  <1> QED
    BY <1>1, <1>2, <1>3 DEF DropCompatPreviews, t

LEMMA ClearedIsWell ==
    ASSUME NEW s, StoreIsWell(s)
    PROVE  /\ StoreIsWell(ClearPendingPreview(s)) /\ ClearPendingPreview(s).committed = s.committed
           /\ Proposed(ClearPendingPreview(s)) = {}
  <1> DEFINE t == DropCompatPreviews(s)
  <1>1. StoreIsWell(t) /\ t.committed = s.committed /\ Proposed(t) = {}
    BY DroppedIsWell
  <1>2. StoreIsWell(SetActive(t, CommittedId)) /\ SetActive(t, CommittedId).committed = t.committed
    BY <1>1, ShownIsWell
  <1>3. Proposed(SetActive(t, CommittedId)) = Proposed(t)
    BY <1>1 DEF SetActive, Proposed, StoreIsWell, HasStoreFields, StoreFields
  <1>4. ClearPendingPreview(s) \in {t, SetActive(t, CommittedId)}
    BY DEF ClearPendingPreview
  <1> HIDE DEF t
  <1> QED
    BY <1>1, <1>2, <1>3, <1>4

LEMMA ShowIsWell ==
    ASSUME NEW s, StoreIsWell(s), NEW p
    PROVE  StoreIsWell(ShowProposal(s, p)) /\ ShowProposal(s, p).committed = s.committed
  <1>1. CASE ~p.feasible
    <2> DEFINE t == [s EXCEPT !.invalid = TRUE]
    <2>1. StoreIsWell(t) /\ t.committed = s.committed
      BY ShownIsWell
    <2> HIDE DEF t
    <2>2. StoreIsWell(ClearPendingPreview(t)) /\ ClearPendingPreview(t).committed = s.committed
      BY <2>1, ClearedIsWell
    <2>3. ShowProposal(s, p) = ClearPendingPreview(t)
      BY <1>1, Zenon DEF ShowProposal, t
    <2> QED
      BY <2>2, <2>3
  <1>2. CASE p.feasible
    <2> DEFINE t == DropCompatPreviews(s)
               previews == t.previews \cup {t.nextId}
               u == Added(t, "proposed", p, previews)
    <2>1. StoreIsWell(t) /\ t.committed = s.committed /\ Proposed(t) = {}
      BY DroppedIsWell
    <2>2. SetPendingPreview(s, p) = u
      BY <2>1 DEF SetPendingPreview, Added, AddScenario, StoreIsWell, HasStoreFields, StoreFields
    <2> HIDE DEF t, previews
    <2>3. StoreIsWell(u) /\ u.committed = s.committed
      <3> HIDE DEF u
      <3> DEFINE kind == "proposed"
      <3>1. kind = "proposed" /\ previews = t.previews \cup {t.nextId} /\ Proposed(t) = {}
        BY <2>1 DEF previews
      <3>2. u = Added(t, kind, p, previews)
        BY DEF u
      <3> HIDE DEF kind
      <3> QED
        BY <2>1, <3>1, <3>2, AddedIsWell
    <2> HIDE DEF u
    <2>4. StoreIsWell([u EXCEPT !.invalid = FALSE]) /\ [u EXCEPT !.invalid = FALSE].committed = s.committed
      BY <2>3, ShownIsWell
    <2>5. ShowProposal(s, p) = [u EXCEPT !.invalid = FALSE]
      BY <1>2, <2>2, Zenon DEF ShowProposal
    <2> QED
      BY <2>4, <2>5
  <1> QED
    BY <1>1, <1>2
-----------------------------------------------------------------------------
(* The stream of a turn.                                                   *)

IsSequence(s) == Len(s) \in Nat /\ s = [i \in 1..Len(s) |-> s[i]]
PartType == Nat \X {"data", "rest", "end", "sep"}

\* x is the parts of the frames from h + 1 to n.
FramesFrom(x, h, n) ==
  /\ Len(x) = 4 * (n - h)
  /\ \A i \in 1..(n - h) :
       /\ x[4 * i - 3] = <<h + i, "data">> /\ x[4 * i - 2] = <<h + i, "rest">>
       /\ x[4 * i - 1] = <<h + i, "end">> /\ x[4 * i] = <<h + i, "sep">>

StreamInv ==
  /\ IsSequence(sent)
  /\ Len(handled) \in 0..Len(sent) /\ handled = [i \in 1..Len(handled) |-> i]
  /\ buffer \in Seq(PartType) /\ wire \in Seq(PartType)
  /\ turn \in {"idle", "open", "closed", "over"}
  /\ turn = "over" => buffer = <<>> /\ wire = <<>>
  /\ turn = "over" /\ answer.state = "completed" => Len(handled) = Len(sent)
  /\ turn # "over" => FramesFrom(buffer \o wire, Len(handled), Len(sent))

LEMMA SequenceGrows ==
    ASSUME NEW s, IsSequence(s), NEW x
    PROVE  /\ IsSequence(Append(s, x)) /\ DOMAIN s = 1..Len(s)
           /\ Len(Append(s, x)) = Len(s) + 1 /\ DOMAIN Append(s, x) = 1..(Len(s) + 1)
           /\ Append(s, x)[Len(s) + 1] = x
           /\ \A i \in 1..Len(s) : Append(s, x)[i] = s[i]
  <1> DEFINE S == {s[i] : i \in 1..Len(s)}
             T == S \cup {x}
  <1>1. Len(s) \in Nat /\ s = [i \in 1..Len(s) |-> s[i]]
    BY DEF IsSequence
  <1>2. s \in [1..Len(s) -> T]
    BY <1>1
  <1>3. s \in Seq(T)
    BY <1>1, <1>2
  <1>4. Append(s, x) \in Seq(T) /\ x \in T
    BY <1>3
  <1> HIDE DEF T
  <1>5. /\ Len(Append(s, x)) = Len(s) + 1 /\ DOMAIN Append(s, x) = 1..(Len(s) + 1)
        /\ Append(s, x)[Len(s) + 1] = x
        /\ \A i \in 1..Len(s) : Append(s, x)[i] = s[i]
    BY <1>1, <1>3, <1>4
  <1>6. IsSequence(Append(s, x))
    <2> DEFINE a == Append(s, x)
    <2>1. a \in Seq(T)
      BY <1>4
    <2> HIDE DEF a
    <2>2. a = [i \in 1..Len(a) |-> a[i]] /\ Len(a) \in Nat
      BY <2>1
    <2> USE DEF a
    <2> QED
      BY <2>2 DEF IsSequence
  <1>7. DOMAIN s = 1..Len(s)
    BY <1>1
  <1> QED
    BY <1>5, <1>6, <1>7

LEMMA SameSequence ==
    ASSUME NEW S, NEW a \in Seq(S), NEW b \in Seq(S), Len(a) = Len(b),
           \A i \in 1..Len(a) : a[i] = b[i]
    PROVE  a = b
  <1>1. a = [i \in 1..Len(a) |-> a[i]] /\ b = [i \in 1..Len(b) |-> b[i]]
    OBVIOUS
  <1> QED
    BY <1>1

LEMMA Joined ==
    \A S : \A a, b \in Seq(S) :
      /\ a \o b \in Seq(S) /\ Len(a \o b) = Len(a) + Len(b)
      /\ \A i \in 1..Len(a) : (a \o b)[i] = a[i]
      /\ \A i \in 1..Len(b) : (a \o b)[Len(a) + i] = b[i]
  OBVIOUS

\* What is read leaves the wire and stands in the buffer.
LEMMA ReadKeeps ==
    ASSUME NEW S, NEW b \in Seq(S), NEW w \in Seq(S), NEW n \in 1..Len(w)
    PROVE  /\ b \o SubSeq(w, 1, n) \in Seq(S) /\ SubSeq(w, n + 1, Len(w)) \in Seq(S)
           /\ (b \o SubSeq(w, 1, n)) \o SubSeq(w, n + 1, Len(w)) = b \o w
  <1> DEFINE u == SubSeq(w, 1, n)
             v == SubSeq(w, n + 1, Len(w))
  <1>1. u \in Seq(S) /\ Len(u) = n /\ \A i \in 1..n : u[i] = w[i]
    OBVIOUS
  <1>2. v \in Seq(S) /\ Len(v) = Len(w) - n /\ \A i \in 1..(Len(w) - n) : v[i] = w[n + i]
    OBVIOUS
  <1> HIDE DEF u, v
  <1> DEFINE bu == b \o u
  <1>3. /\ bu \in Seq(S) /\ Len(bu) = Len(b) + n
        /\ \A i \in 1..Len(b) : bu[i] = b[i]
        /\ \A i \in 1..n : bu[Len(b) + i] = u[i]
    <2>1. /\ bu \in Seq(S) /\ Len(bu) = Len(b) + Len(u)
          /\ \A i \in 1..Len(b) : bu[i] = b[i]
          /\ \A i \in 1..Len(u) : bu[Len(b) + i] = u[i]
      BY <1>1
    <2> HIDE DEF bu
    <2> QED
      BY <1>1, <2>1, Zenon
  <1> HIDE DEF bu
  <1> DEFINE x == bu \o v
             y == b \o w
  <1>4. /\ x \in Seq(S) /\ Len(x) = (Len(b) + n) + (Len(w) - n)
        /\ \A i \in 1..(Len(b) + n) : x[i] = bu[i]
        /\ \A i \in 1..(Len(w) - n) : x[(Len(b) + n) + i] = v[i]
    <2>1. /\ x \in Seq(S) /\ Len(x) = Len(bu) + Len(v)
          /\ \A i \in 1..Len(bu) : x[i] = bu[i]
          /\ \A i \in 1..Len(v) : x[Len(bu) + i] = v[i]
      <3>1. bu \in Seq(S) /\ v \in Seq(S)
        BY <1>2, <1>3
      <3> QED
        BY ONLY <3>1, Joined
    <2> HIDE DEF x
    <2> QED
      BY <1>2, <1>3, <2>1, Zenon
  <1>5. /\ y \in Seq(S) /\ Len(y) = Len(b) + Len(w)
        /\ \A i \in 1..Len(b) : y[i] = b[i]
        /\ \A i \in 1..Len(w) : y[Len(b) + i] = w[i]
    BY Joined
  <1> HIDE DEF x, y
  <1>6. Len(b) \in Nat /\ Len(w) \in Nat /\ n \in 1..Len(w)
    OBVIOUS
  <1>7. Len(x) = Len(y)
    BY <1>4, <1>5, <1>6
  <1>8. ASSUME NEW i \in 1..Len(x) PROVE x[i] = y[i]
    <2>1. CASE i <= Len(b)
      <3>1. i \in 1..Len(b) /\ i \in 1..(Len(b) + n)
        BY <1>5, <1>6, <1>7, <2>1
      <3> QED
        BY <1>3, <1>4, <1>5, <3>1
    <2>2. CASE Len(b) < i /\ i <= Len(b) + n
      <3>1. PICK j \in 1..n : i = Len(b) + j
        <4>1. i - Len(b) \in 1..n /\ i = Len(b) + (i - Len(b))
          BY <1>5, <1>6, <1>7, <2>2
        <4> QED
          BY <4>1
      <3>2. j \in 1..Len(w) /\ Len(b) + j \in 1..(Len(b) + n)
        BY <1>6
      <3> QED
        BY <1>1, <1>3, <1>4, <1>5, <3>1, <3>2
    <2>3. CASE Len(b) + n < i
      <3>1. PICK j \in 1..(Len(w) - n) : i = (Len(b) + n) + j
        <4>1. i - (Len(b) + n) \in 1..(Len(w) - n) /\ i = (Len(b) + n) + (i - (Len(b) + n))
          BY <1>5, <1>6, <1>7, <2>3
        <4> QED
          BY <4>1
      <3>2. n + j \in 1..Len(w) /\ (Len(b) + n) + j = Len(b) + (n + j)
        BY <1>6
      <3> QED
        BY <1>2, <1>4, <1>5, <3>1, <3>2
    <2> QED
      BY <1>5, <1>6, <1>7, <2>1, <2>2, <2>3
  <1>9. x = y
    BY <1>4, <1>5, <1>7, <1>8, SameSequence
  <1> QED
    BY <1>1, <1>2, <1>3, <1>9 DEF x, y, bu, u, v

\* A frame is written: its parts are the last.
LEMMA WriteKeeps ==
    ASSUME NEW b \in Seq(PartType), NEW w \in Seq(PartType), NEW h \in Nat, NEW n \in Nat, h <= n,
           FramesFrom(b \o w, h, n)
    PROVE  w \o Parts(n + 1) \in Seq(PartType) /\ FramesFrom(b \o (w \o Parts(n + 1)), h, n + 1)
  <1> DEFINE p == Parts(n + 1)
  <1>1. p \in Seq(PartType) /\ Len(p) = 4 /\ p[1] = <<n + 1, "data">> /\ p[2] = <<n + 1, "rest">>
        /\ p[3] = <<n + 1, "end">> /\ p[4] = <<n + 1, "sep">>
    BY DEF Parts, PartType
  <1> HIDE DEF p
  <1> DEFINE wp == w \o p
             x == b \o w
  <1>2. /\ wp \in Seq(PartType) /\ Len(wp) = Len(w) + 4
        /\ \A i \in 1..Len(w) : wp[i] = w[i]
        /\ \A i \in 1..4 : wp[Len(w) + i] = p[i]
    <2>1. /\ wp \in Seq(PartType) /\ Len(wp) = Len(w) + Len(p)
          /\ \A i \in 1..Len(w) : wp[i] = w[i]
          /\ \A i \in 1..Len(p) : wp[Len(w) + i] = p[i]
      <3>1. w \in Seq(PartType) /\ p \in Seq(PartType)
        BY <1>1
      <3> QED
        BY ONLY <3>1, Joined
    <2> HIDE DEF wp
    <2> QED
      BY <1>1, <2>1, Zenon
  <1>3. /\ x \in Seq(PartType) /\ Len(x) = Len(b) + Len(w)
        /\ \A i \in 1..Len(b) : x[i] = b[i]
        /\ \A i \in 1..Len(w) : x[Len(b) + i] = w[i]
    BY Joined
  <1> HIDE DEF wp, x
  <1> DEFINE y == b \o wp
  <1>5. Len(b) \in Nat /\ Len(w) \in Nat /\ Len(x) \in Nat
    BY <1>3
  <1>4. /\ y \in Seq(PartType) /\ Len(y) = Len(b) + (Len(w) + 4)
        /\ \A i \in 1..Len(b) : y[i] = b[i]
        /\ \A i \in 1..(Len(w) + 4) : y[Len(b) + i] = wp[i]
    <2>1. /\ y \in Seq(PartType) /\ Len(y) = Len(b) + Len(wp)
          /\ \A i \in 1..Len(b) : y[i] = b[i]
          /\ \A i \in 1..Len(wp) : y[Len(b) + i] = wp[i]
      <3>1. b \in Seq(PartType) /\ wp \in Seq(PartType)
        BY <1>2
      <3> QED
        BY ONLY <3>1, Joined
    <2> HIDE DEF y
    <2> QED
      BY <1>2, <2>1, Zenon
  <1> HIDE DEF y
  <1>10. Len(y) = Len(x) + 4
    BY <1>3, <1>4, <1>5
  <1>6. ASSUME NEW i \in 1..Len(x) PROVE y[i] = x[i]
    <2>1. CASE i <= Len(b)
      <3>1. i \in 1..Len(b)
        BY <1>3, <1>5, <2>1
      <3> QED
        BY <1>3, <1>4, <3>1
    <2>2. CASE Len(b) < i
      <3>1. PICK j \in 1..Len(w) : i = Len(b) + j
        <4>1. i - Len(b) \in 1..Len(w) /\ i = Len(b) + (i - Len(b))
          BY <1>3, <1>5, <2>2
        <4> QED
          BY <4>1
      <3>2. j \in 1..(Len(w) + 4)
        BY <1>5
      <3> QED
        BY <1>2, <1>3, <1>4, <3>1, <3>2
    <2> QED
      BY <1>3, <1>5, <2>1, <2>2
  <1>7. ASSUME NEW j \in 1..4 PROVE y[Len(x) + j] = p[j]
    <2>1. Len(w) + j \in 1..(Len(w) + 4) /\ Len(x) + j = Len(b) + (Len(w) + j)
      BY <1>3, <1>5
    <2> QED
      BY <1>2, <1>4, <2>1
  <1>8. Len(x) = 4 * (n - h)
    BY DEF FramesFrom, x
  <1>9. FramesFrom(y, h, n + 1)
    <2>1. Len(y) = 4 * ((n + 1) - h)
      BY <1>8, <1>10
    <2>2. ASSUME NEW i \in 1..((n + 1) - h)
          PROVE  /\ y[4 * i - 3] = <<h + i, "data">> /\ y[4 * i - 2] = <<h + i, "rest">>
                 /\ y[4 * i - 1] = <<h + i, "end">> /\ y[4 * i] = <<h + i, "sep">>
      <3>1. CASE i \in 1..(n - h)
        <4>1. 4 * i - 3 \in 1..Len(x) /\ 4 * i - 2 \in 1..Len(x) /\ 4 * i - 1 \in 1..Len(x) /\ 4 * i \in 1..Len(x)
          BY <1>8, <3>1
        <4>2. /\ x[4 * i - 3] = <<h + i, "data">> /\ x[4 * i - 2] = <<h + i, "rest">>
              /\ x[4 * i - 1] = <<h + i, "end">> /\ x[4 * i] = <<h + i, "sep">>
          BY <3>1 DEF FramesFrom, x
        <4> QED
          BY <1>6, <4>1, <4>2
      <3>2. CASE i = (n + 1) - h
        <4>1. 4 * i - 3 = Len(x) + 1 /\ 4 * i - 2 = Len(x) + 2 /\ 4 * i - 1 = Len(x) + 3 /\ 4 * i = Len(x) + 4
              /\ h + i = n + 1
          BY <1>8, <3>2
        <4>2. y[Len(x) + 1] = p[1] /\ y[Len(x) + 2] = p[2] /\ y[Len(x) + 3] = p[3] /\ y[Len(x) + 4] = p[4]
          BY <1>7
        <4> QED
          BY <1>1, <4>1, <4>2
      <3> QED
        BY <3>1, <3>2
    <2> QED
      BY <2>1, <2>2 DEF FramesFrom
  <1> QED
    BY <1>2, <1>9 DEF y, wp, p

LEMMA FirstFour ==
    ASSUME NEW b \in Seq(PartType), NEW w \in Seq(PartType), NEW h \in Nat, NEW n \in Nat, h <= n,
           FramesFrom(b \o w, h, n), b # <<>>
    PROVE  /\ h + 1 <= n
           /\ Len(b) >= 1 => b[1] = <<h + 1, "data">>
           /\ Len(b) >= 2 => b[2] = <<h + 1, "rest">>
           /\ Len(b) >= 3 => b[3] = <<h + 1, "end">>
           /\ Len(b) >= 4 => b[4] = <<h + 1, "sep">>
  <1> DEFINE x == b \o w
  <1>1. /\ Len(x) = Len(b) + Len(w)
        /\ \A i \in 1..Len(b) : x[i] = b[i]
    BY Joined
  <1>2. Len(x) = 4 * (n - h)
    BY DEF FramesFrom
  <1>3. /\ 1 \in 1..(n - h) => /\ x[4 * 1 - 3] = <<h + 1, "data">> /\ x[4 * 1 - 2] = <<h + 1, "rest">>
                               /\ x[4 * 1 - 1] = <<h + 1, "end">> /\ x[4 * 1] = <<h + 1, "sep">>
    BY Zenon DEF FramesFrom
  <1> HIDE DEF x
  <1>4. Len(b) \in Nat \ {0} /\ Len(w) \in Nat
    OBVIOUS
  <1>5. 1 \in 1..(n - h) /\ h + 1 <= n
    BY <1>1, <1>2, <1>4
  <1>6. 4 * 1 - 3 = 1 /\ 4 * 1 - 2 = 2 /\ 4 * 1 - 1 = 3 /\ 4 * 1 = 4
    OBVIOUS
  <1>7. x[1] = <<h + 1, "data">> /\ x[2] = <<h + 1, "rest">> /\ x[3] = <<h + 1, "end">> /\ x[4] = <<h + 1, "sep">>
    BY <1>3, <1>5, <1>6
  <1> QED
    BY <1>1, <1>4, <1>5, <1>7

\* The first block of the buffer is the frame after those handled.
LEMMA FirstBlock ==
    ASSUME NEW b \in Seq(PartType), NEW w \in Seq(PartType), NEW h \in Nat, NEW n \in Nat, h <= n,
           FramesFrom(b \o w, h, n), HasBlock(b)
    PROVE  /\ h + 1 <= n /\ Len(b) >= 4 /\ NextSep(b) = 4
           /\ Len(NextBlock(b)) = 3
           /\ NextBlock(b)[1] = <<h + 1, "data">> /\ NextBlock(b)[2] = <<h + 1, "rest">>
  <1>1. PICK k \in DOMAIN b : b[k][2] = "sep"
    BY DEF HasBlock
  <1>2. DOMAIN b = 1..Len(b) /\ Len(b) \in Nat
    OBVIOUS
  <1>3. b # <<>>
    BY <1>1, <1>2
  <1>4. /\ h + 1 <= n
        /\ Len(b) >= 1 => b[1] = <<h + 1, "data">>
        /\ Len(b) >= 2 => b[2] = <<h + 1, "rest">>
        /\ Len(b) >= 3 => b[3] = <<h + 1, "end">>
        /\ Len(b) >= 4 => b[4] = <<h + 1, "sep">>
    BY <1>3, FirstFour
  <1>5. <<h + 1, "data">>[2] = "data" /\ <<h + 1, "rest">>[2] = "rest"
        /\ <<h + 1, "end">>[2] = "end" /\ <<h + 1, "sep">>[2] = "sep"
    OBVIOUS
  <1>6. k # 1 /\ k # 2 /\ k # 3
    BY <1>1, <1>2, <1>4, <1>5
  <1>7. Len(b) >= 4
    BY <1>1, <1>2, <1>6
  <1>8. /\ b[1] = <<h + 1, "data">> /\ b[2] = <<h + 1, "rest">>
        /\ b[1][2] # "sep" /\ b[2][2] # "sep" /\ b[3][2] # "sep" /\ b[4][2] = "sep"
    BY <1>2, <1>4, <1>5, <1>7
  <1>9. ASSUME NEW i \in DOMAIN b, b[i][2] = "sep", \A j \in 1..(i - 1) : b[j][2] # "sep"
        PROVE  i = 4
    <2>1. i \in 1..Len(b) /\ i # 1 /\ i # 2 /\ i # 3
      BY <1>2, <1>8, <1>9
    <2>2. i > 4 => 4 \in 1..(i - 1)
      BY <2>1, <1>2
    <2> QED
      BY <1>2, <1>8, <1>9, <2>1, <2>2
  <1>10. 4 \in DOMAIN b /\ b[4][2] = "sep" /\ \A j \in 1..(4 - 1) : b[j][2] # "sep"
    <2>1. \A j \in 1..(4 - 1) : j = 1 \/ j = 2 \/ j = 3
      OBVIOUS
    <2> QED
      BY <1>2, <1>7, <1>8, <2>1
  <1>11. NextSep(b) = 4
    BY <1>9, <1>10 DEF NextSep
  <1>12. NextBlock(b) = SubSeq(b, 1, 3)
    BY <1>11 DEF NextBlock
  <1>13. Len(SubSeq(b, 1, 3)) = 3 /\ SubSeq(b, 1, 3)[1] = b[1] /\ SubSeq(b, 1, 3)[2] = b[2]
    BY <1>2, <1>7
  <1> QED
    BY <1>4, <1>7, <1>8, <1>11, <1>12, <1>13

\* Behind it the frames go on.
LEMMA NextFrames ==
    ASSUME NEW b \in Seq(PartType), NEW w \in Seq(PartType), NEW h \in Nat, NEW n \in Nat, h + 1 <= n,
           FramesFrom(b \o w, h, n), Len(b) >= 4
    PROVE  SubSeq(b, 5, Len(b)) \in Seq(PartType) /\ FramesFrom(SubSeq(b, 5, Len(b)) \o w, h + 1, n)
  <1> DEFINE x == b \o w
             r == SubSeq(b, 5, Len(b))
  <1>0. Len(b) \in Nat /\ Len(w) \in Nat /\ Len(b) >= 4
    OBVIOUS
  <1>1. /\ Len(x) = Len(b) + Len(w)
        /\ \A i \in 1..Len(b) : x[i] = b[i]
        /\ \A i \in 1..Len(w) : x[Len(b) + i] = w[i]
    BY Joined
  <1>2. /\ Len(x) = 4 * (n - h)
        /\ \A i \in 1..(n - h) :
             /\ x[4 * i - 3] = <<h + i, "data">> /\ x[4 * i - 2] = <<h + i, "rest">>
             /\ x[4 * i - 1] = <<h + i, "end">> /\ x[4 * i] = <<h + i, "sep">>
    BY DEF FramesFrom
  <1>3. r \in Seq(PartType) /\ Len(r) = Len(b) - 4 /\ \A i \in 1..(Len(b) - 4) : r[i] = b[i + 4]
    <2>1. r \in Seq(PartType)
      BY <1>0
    <2>2. Len(r) = Len(b) - 4
      <3>1. CASE Len(b) = 4
        BY <3>1
      <3>2. CASE Len(b) > 4
        <4>1. Len(r) = Len(b) - 5 + 1
          BY <1>0, <3>2
        <4> HIDE DEF r
        <4> QED
          BY <1>0, <4>1
      <3>3. Len(b) = 4 \/ Len(b) > 4
        <4>1. \A k \in Nat : k >= 4 => k = 4 \/ k > 4
          OBVIOUS
        <4> QED
          BY <1>0, <4>1, Zenon
      <3> QED
        BY <3>1, <3>2, <3>3, Zenon
    <2>3. ASSUME NEW i \in 1..(Len(b) - 4) PROVE r[i] = b[i + 4]
      <3>1. r[i] = b[5 + i - 1] /\ 5 + i - 1 = i + 4
        BY <1>0
      <3> QED
        BY <3>1
    <2> QED
      BY <2>1, <2>2, <2>3
  <1> HIDE DEF x, r
  <1> DEFINE y == r \o w
  <1>4. /\ Len(y) = (Len(b) - 4) + Len(w)
        /\ \A i \in 1..(Len(b) - 4) : y[i] = r[i]
        /\ \A i \in 1..Len(w) : y[(Len(b) - 4) + i] = w[i]
    <2>1. /\ Len(y) = Len(r) + Len(w)
          /\ \A i \in 1..Len(r) : y[i] = r[i]
          /\ \A i \in 1..Len(w) : y[Len(r) + i] = w[i]
      <3>1. r \in Seq(PartType) /\ w \in Seq(PartType)
        BY <1>3
      <3> QED
        BY ONLY <3>1, Joined
    <2> HIDE DEF y
    <2> QED
      BY <1>3, <2>1, Zenon
  <1> HIDE DEF y
  <1>5. Len(y) = Len(x) - 4
    BY <1>0, <1>1, <1>4
  <1>6. ASSUME NEW i \in 1..(Len(x) - 4) PROVE y[i] = x[i + 4]
    <2>1. CASE i <= Len(b) - 4
      <3>1. i \in 1..(Len(b) - 4) /\ i + 4 \in 1..Len(b)
        BY <1>0, <1>1, <2>1
      <3> QED
        BY <1>1, <1>3, <1>4, <3>1
    <2>2. CASE ~(i <= Len(b) - 4)
      <3>1. PICK j \in 1..Len(w) : i = (Len(b) - 4) + j /\ i + 4 = Len(b) + j
        <4>1. i - (Len(b) - 4) \in 1..Len(w) /\ i = (Len(b) - 4) + (i - (Len(b) - 4)) /\ i + 4 = Len(b) + (i - (Len(b) - 4))
          BY <1>0, <1>1, <2>2
        <4> QED
          BY <4>1
      <3> QED
        BY <1>1, <1>4, <3>1
    <2> QED
      BY <2>1, <2>2
  <1>7. Len(y) = 4 * (n - (h + 1))
    BY <1>2, <1>5
  <1>8. ASSUME NEW i \in 1..(n - (h + 1))
        PROVE  /\ y[4 * i - 3] = <<(h + 1) + i, "data">> /\ y[4 * i - 2] = <<(h + 1) + i, "rest">>
               /\ y[4 * i - 1] = <<(h + 1) + i, "end">> /\ y[4 * i] = <<(h + 1) + i, "sep">>
    <2>1. i + 1 \in 1..(n - h) /\ h + (i + 1) = (h + 1) + i
      OBVIOUS
    <2>2. /\ 4 * i - 3 \in 1..(Len(x) - 4) /\ 4 * i - 2 \in 1..(Len(x) - 4)
          /\ 4 * i - 1 \in 1..(Len(x) - 4) /\ 4 * i \in 1..(Len(x) - 4)
      BY <1>2
    <2>3. /\ (4 * i - 3) + 4 = 4 * (i + 1) - 3 /\ (4 * i - 2) + 4 = 4 * (i + 1) - 2
          /\ (4 * i - 1) + 4 = 4 * (i + 1) - 1 /\ 4 * i + 4 = 4 * (i + 1)
      OBVIOUS
    <2>4. /\ y[4 * i - 3] = x[4 * (i + 1) - 3] /\ y[4 * i - 2] = x[4 * (i + 1) - 2]
          /\ y[4 * i - 1] = x[4 * (i + 1) - 1] /\ y[4 * i] = x[4 * (i + 1)]
      BY <1>6, <2>2, <2>3
    <2>5. /\ x[4 * (i + 1) - 3] = <<h + (i + 1), "data">> /\ x[4 * (i + 1) - 2] = <<h + (i + 1), "rest">>
          /\ x[4 * (i + 1) - 1] = <<h + (i + 1), "end">> /\ x[4 * (i + 1)] = <<h + (i + 1), "sep">>
      BY <1>2, <2>1
    <2> QED
      BY <2>1, <2>4, <2>5
  <1> QED
    BY <1>3, <1>7, <1>8 DEF FramesFrom, y, r

LEMMA StreamTyped ==
    ASSUME StreamInv
    PROVE  /\ IsSequence(sent) /\ Len(sent) \in Nat /\ Len(handled) \in Nat /\ Len(handled) <= Len(sent)
           /\ buffer \in Seq(PartType) /\ wire \in Seq(PartType)
  <1>1. /\ IsSequence(sent) /\ Len(sent) \in Nat /\ Len(handled) \in 0..Len(sent)
        /\ buffer \in Seq(PartType) /\ wire \in Seq(PartType)
    BY Zenon DEF StreamInv, IsSequence
  <1>2. Len(handled) \in Nat /\ Len(handled) <= Len(sent)
    BY <1>1
  <1> QED
    BY <1>1, <1>2

\* The page acts on the next frame of the turn, or, behind the last, on nothing.
LEMMA ActsOnNext ==
    ASSUME StreamInv, HasBlock(buffer), ActOn(NextBlock(buffer))
    PROVE  /\ turn # "over" /\ Len(handled) + 1 \in 1..Len(sent) /\ Len(buffer) >= 4
           /\ handled' = Append(handled, Len(handled) + 1)
           /\ store' = ApplyToStore(store, sent[Len(handled) + 1])
           /\ answer' = ApplyToAnswer(answer, sent[Len(handled) + 1])
           /\ Rest(buffer) = SubSeq(buffer, 5, Len(buffer))
  <1> DEFINE h == Len(handled)
             n == Len(sent)
  <1>1. buffer \in Seq(PartType) /\ wire \in Seq(PartType) /\ h \in Nat /\ n \in Nat /\ h <= n
    BY StreamTyped
  <1>2. turn # "over"
    BY DEF StreamInv, HasBlock
  <1>3. FramesFrom(buffer \o wire, h, n)
    BY <1>2 DEF StreamInv
  <1> HIDE DEF h, n
  <1>4. /\ h + 1 <= n /\ Len(buffer) >= 4 /\ NextSep(buffer) = 4
        /\ Len(NextBlock(buffer)) = 3
        /\ NextBlock(buffer)[1] = <<h + 1, "data">> /\ NextBlock(buffer)[2] = <<h + 1, "rest">>
    BY <1>1, <1>3, FirstBlock
  <1> DEFINE block == NextBlock(buffer)
  <1>5. Len(block) >= 2 /\ block[1][2] = "data" /\ block[2][2] = "rest" /\ block[1][1] = h + 1
    BY <1>4
  <1> HIDE DEF block
  <1>6. /\ handled' = Append(handled, h + 1)
        /\ store' = ApplyToStore(store, sent[h + 1])
        /\ answer' = ApplyToAnswer(answer, sent[h + 1])
    <2>1. ActOn(block)
      BY DEF block
    <2> QED
      BY <1>5, <2>1, Zenon DEF ActOn
  <1>7. h + 1 \in 1..n
    BY <1>1, <1>4
  <1>8. Rest(buffer) = SubSeq(buffer, 5, Len(buffer))
    BY <1>4 DEF Rest
  <1> QED
    BY <1>2, <1>4, <1>6, <1>7, <1>8 DEF h, n

LEMMA NothingIsLeft ==
    ASSUME StreamInv, StreamEnds
    PROVE  Len(handled) = Len(sent) /\ UNCHANGED <<handled, store, answer>>
  <1> DEFINE h == Len(handled)
             n == Len(sent)
  <1>1. buffer \in Seq(PartType) /\ wire \in Seq(PartType) /\ h \in Nat /\ n \in Nat /\ h <= n
    BY StreamTyped
  <1>2. turn = "closed" /\ wire = <<>> /\ ~HasBlock(buffer) /\ ActOn(buffer)
    BY DEF StreamEnds, Reading
  <1>3. FramesFrom(buffer \o wire, h, n)
    BY <1>2 DEF StreamInv
  <1>4. Len(buffer \o wire) = Len(buffer)
    BY <1>1, <1>2
  <1> HIDE DEF h, n
  <1>5. Len(buffer) = 4 * (n - h)
    BY <1>3, <1>4 DEF FramesFrom
  <1>6. buffer = <<>>
    <2> SUFFICES ASSUME buffer # <<>> PROVE FALSE
      OBVIOUS
    <2>1. h + 1 <= n /\ (Len(buffer) >= 4 => buffer[4] = <<h + 1, "sep">>)
      BY <1>1, <1>3, FirstFour
    <2>2. Len(buffer) >= 4
      BY <1>1, <1>5, <2>1
    <2>3. 4 \in DOMAIN buffer /\ buffer[4][2] = "sep"
      BY <1>1, <2>1, <2>2
    <2> QED
      BY <1>2, <2>3 DEF HasBlock
  <1>7. h = n
    BY <1>1, <1>5, <1>6
  <1>8. ~(Len(buffer) >= 2)
    BY <1>6
  <1>9. UNCHANGED <<handled, store, answer>>
    BY <1>2, <1>8, Zenon DEF ActOn
  <1> QED
    BY <1>7, <1>9 DEF h, n

LEMMA CountGrows ==
    ASSUME NEW s, NEW h \in Nat, Len(s) = h, s = [i \in 1..h |-> i]
    PROVE  LET t == Append(s, h + 1) IN Len(t) = h + 1 /\ t = [i \in 1..(h + 1) |-> i]
  <1>1. s \in Seq(Nat)
    OBVIOUS
  <1> DEFINE t == Append(s, h + 1)
  <1>2. t \in Seq(Nat) /\ Len(t) = h + 1 /\ t[h + 1] = h + 1 /\ \A i \in 1..h : t[i] = s[i]
    BY <1>1
  <1> HIDE DEF t
  <1>3. t = [i \in 1..(h + 1) |-> t[i]]
    BY <1>2
  <1>4. \A i \in 1..(h + 1) : t[i] = i
    BY <1>2
  <1> QED
    BY <1>2, <1>3, <1>4 DEF t

\* Nothing of the turn is written, read or handled.
LEMMA StreamRests ==
    ASSUME StreamInv, UNCHANGED <<sent, wire, buffer, handled, turn, answer>>
    PROVE  StreamInv'
  BY DEF StreamInv

LEMMA StreamNext ==
    ASSUME StreamInv, [PageNext]_pageVars
    PROVE  StreamInv'
  <1>0. /\ IsSequence(sent) /\ Len(sent) \in Nat /\ Len(handled) \in Nat /\ Len(handled) <= Len(sent)
        /\ buffer \in Seq(PartType) /\ wire \in Seq(PartType)
    BY StreamTyped
  <1>1. CASE Send
    <2>1. /\ sent' = <<>> /\ handled' = <<>> /\ wire' = <<>> /\ buffer' = <<>> /\ turn' = "open"
      BY <1>1 DEF Send
    <2>2. IsSequence(sent') /\ Len(handled') \in 0..Len(sent') /\ handled' = [i \in 1..Len(handled') |-> i]
      BY <2>1 DEF IsSequence
    <2>3. FramesFrom(buffer' \o wire', Len(handled'), Len(sent'))
      BY <2>1, SMTT(30) DEF FramesFrom
    <2> QED
      BY <2>1, <2>2, <2>3 DEF StreamInv
  <1>2. ASSUME NEW f, WriteFrame(f), UNCHANGED <<buffer, handled, answer>>
        PROVE  StreamInv'
    <2>1. /\ turn = "open" /\ turn' \in {"open", "closed"} /\ sent' = Append(sent, f)
          /\ wire' = wire \o Parts(Len(sent) + 1)
      BY <1>2 DEF WriteFrame
    <2>2. IsSequence(sent') /\ Len(sent') = Len(sent) + 1
      BY <1>0, <2>1, SequenceGrows
    <2>3. FramesFrom(buffer \o wire, Len(handled), Len(sent))
      BY <2>1 DEF StreamInv
    <2>4. wire' \in Seq(PartType) /\ FramesFrom(buffer \o wire', Len(handled), Len(sent) + 1)
      BY <1>0, <2>1, <2>3, WriteKeeps
    <2>5. Len(handled) \in 0..(Len(sent) + 1)
      BY <1>0
    <2> QED
      BY <1>0, <1>2, <2>1, <2>2, <2>4, <2>5 DEF StreamInv
  <1>3. CASE ServerTalks \/ ServerProposes \/ ServerPlans
    BY <1>2, <1>3, Zenon DEF ServerTalks, ServerProposes, ServerPlans
  <1>4. CASE ReadChunk
    <2>1. PICK k \in DOMAIN wire : wire' = SubSeq(wire, k + 1, Len(wire)) /\ buffer' = buffer \o SubSeq(wire, 1, k)
      BY <1>4 DEF ReadChunk
    <2>2. UNCHANGED <<sent, handled, turn, answer>> /\ turn # "over"
      BY <1>4 DEF ReadChunk, Reading
    <2>3. k \in 1..Len(wire)
      BY <1>0
    <2>4. buffer' \in Seq(PartType) /\ wire' \in Seq(PartType) /\ buffer' \o wire' = buffer \o wire
      BY <1>0, <2>1, <2>3, ReadKeeps
    <2> QED
      BY <2>2, <2>4 DEF StreamInv
  <1>5. CASE HandleEvent
    <2>1. /\ HasBlock(buffer) /\ ActOn(NextBlock(buffer)) /\ buffer' = Rest(buffer)
          /\ UNCHANGED <<sent, wire, turn>>
      BY <1>5 DEF HandleEvent
    <2>2. /\ turn # "over" /\ Len(handled) + 1 \in 1..Len(sent) /\ Len(buffer) >= 4
          /\ handled' = Append(handled, Len(handled) + 1)
          /\ Rest(buffer) = SubSeq(buffer, 5, Len(buffer))
      BY <2>1, ActsOnNext
    <2>3. handled = [i \in 1..Len(handled) |-> i]
      BY DEF StreamInv
    <2>4. Len(handled') = Len(handled) + 1 /\ handled' = [i \in 1..(Len(handled) + 1) |-> i]
      BY <1>0, <2>2, <2>3, CountGrows
    <2>5. FramesFrom(buffer \o wire, Len(handled), Len(sent)) /\ Len(handled) + 1 <= Len(sent)
      BY <2>2 DEF StreamInv
    <2>6. buffer' \in Seq(PartType) /\ FramesFrom(buffer' \o wire, Len(handled) + 1, Len(sent))
      BY <1>0, <2>1, <2>2, <2>5, NextFrames
    <2>7. Len(handled) + 1 \in 0..Len(sent)
      BY <2>2
    <2> QED
      BY <2>1, <2>2, <2>4, <2>6, <2>7 DEF StreamInv
  <1>6. CASE StreamEnds
    <2>1. Len(handled) = Len(sent) /\ UNCHANGED <<handled, store, answer>>
      BY <1>6, NothingIsLeft
    <2>2. UNCHANGED <<sent, wire>> /\ wire = <<>> /\ buffer' = <<>> /\ turn' = "over"
      BY <1>6 DEF StreamEnds
    <2> QED
      BY <2>1, <2>2 DEF StreamInv
  <1>7. CASE StreamBreaks
    <2>1. /\ turn' = "over" /\ wire' = <<>> /\ buffer' = <<>> /\ UNCHANGED <<sent, handled>>
          /\ answer' = [state |-> "failed", text |-> <<"apology">>]
      BY <1>7 DEF StreamBreaks, ApplyToAnswer
    <2>2. answer'.state = "failed"
      BY <2>1
    <2> QED
      BY <2>1, <2>2 DEF StreamInv
  <1>8. CASE \/ PressPlanButton \/ PressConfirm \/ PressBubbleConfirm \/ KeepAsIs
             \/ ReplyFails \/ ReplyToChange \/ ReplyToAudit \/ ReplyToRefresh \/ ReplyToConfirm
             \/ UseTabs \/ UNCHANGED pageVars
    <2>1. UNCHANGED <<sent, wire, buffer, handled, turn, answer>>
      BY <1>8, Zenon DEF PressPlanButton, PressConfirm, PressBubbleConfirm, KeepAsIs, ReplyFails, ReplyToChange,
            ReplyToAudit, ReplyToRefresh, ReplyToConfirm, UseTabs, Call, Quiet, pageVars
    <2> QED
      BY <2>1, StreamRests
  <1> QED
    BY <1>1, <1>3, <1>4, <1>5, <1>6, <1>7, <1>8 DEF PageNext

LEMMA StreamInit ==
    ASSUME PageInit
    PROVE  StreamInv
  <1>1. sent = <<>> /\ wire = <<>> /\ buffer = <<>> /\ handled = <<>> /\ turn = "idle"
    BY DEF PageInit
  <1>2. IsSequence(sent) /\ Len(handled) \in 0..Len(sent) /\ handled = [i \in 1..Len(handled) |-> i]
    BY <1>1 DEF IsSequence
  <1>3. FramesFrom(buffer \o wire, Len(handled), Len(sent))
    BY <1>1 DEF FramesFrom
  <1> QED
    BY <1>1, <1>2, <1>3 DEF StreamInv

(* However the network cuts the stream of a turn, and whatever the buttons do *)
(* meanwhile, the page acts on each frame once, in the order in which the     *)
(* server wrote them, and on all of them if the stream ends (streamChatV2).   *)
THEOREM EventsHold == PageSpec => []EventsArriveOnce
  <1>1. PageInit => StreamInv
    BY StreamInit
  <1>2. StreamInv /\ [PageNext]_pageVars => StreamInv'
    BY StreamNext
  <1>3. StreamInv => EventsArriveOnce
    <2> SUFFICES ASSUME StreamInv PROVE EventsArriveOnce
      OBVIOUS
    <2>1. Len(handled) <= Len(sent)
      BY StreamTyped
    <2> QED
      BY <2>1, Zenon DEF StreamInv, EventsArriveOnce
  <1> QED
    BY <1>1, <1>2, <1>3, PTL DEF PageSpec

-----------------------------------------------------------------------------
(* The workspace.                                                          *)

IsStored(plan, plans) == \E i \in DOMAIN plans : plans[i] = plan

WorkspaceInv ==
  /\ StoreIsWell(store)
  /\ IsSequence(server.plans)
  /\ store.committed = NoCommitted \/ (IsStored(store.committed, server.plans) /\ ~store.committed.draft)
  /\ \A i \in DOMAIN sent : sent[i].kind = "forward_schedule_update" => IsStored(sent[i].plan, server.plans)

\* The server stores no plan less.
PlansGrow ==
  \/ server'.plans = server.plans
  \/ \E plan : server'.plans = Append(server.plans, plan)

LEMMA StaysStored ==
    ASSUME IsSequence(server.plans), PlansGrow
    PROVE  IsSequence(server'.plans) /\ \A plan : IsStored(plan, server.plans) => IsStored(plan, server'.plans)
  <1>1. CASE server'.plans = server.plans
    BY <1>1 DEF IsStored
  <1>2. CASE \E plan : server'.plans = Append(server.plans, plan)
    <2>1. PICK plan : server'.plans = Append(server.plans, plan)
      BY <1>2
    <2>2. IsSequence(server'.plans)
      BY <2>1, SequenceGrows
    <2>3. \A i \in DOMAIN server.plans : i \in DOMAIN server'.plans /\ server'.plans[i] = server.plans[i]
      <3>1. /\ DOMAIN server.plans = 1..Len(server.plans) /\ Len(server.plans) \in Nat
            /\ DOMAIN server'.plans = 1..(Len(server.plans) + 1)
            /\ \A i \in 1..Len(server.plans) : server'.plans[i] = server.plans[i]
        BY <2>1, SequenceGrows DEF IsSequence
      <3> QED
        BY <3>1
    <2> QED
      BY <2>2, <2>3 DEF IsStored
  <1> QED
    BY <1>1, <1>2 DEF PlansGrow

\* A step that changes the store in one of the ways there are.
LEMMA WorkspaceKeeps ==
    ASSUME WorkspaceInv, PlansGrow, StoreIsWell(store'),
           \/ store'.committed = store.committed
           \/ store'.committed = NoCommitted
           \/ IsStored(store'.committed, server'.plans) /\ ~store'.committed.draft,
           \A i \in DOMAIN sent' : sent'[i].kind = "forward_schedule_update" =>
             IsStored(sent'[i].plan, server'.plans) \/ (i \in DOMAIN sent /\ sent'[i] = sent[i])
    PROVE  WorkspaceInv'
  <1>1. IsSequence(server'.plans) /\ \A plan : IsStored(plan, server.plans) => IsStored(plan, server'.plans)
    BY StaysStored DEF WorkspaceInv
  <1>2. store'.committed = NoCommitted \/ (IsStored(store'.committed, server'.plans) /\ ~store'.committed.draft)
    BY <1>1, Zenon DEF WorkspaceInv
  <1>3. \A i \in DOMAIN sent' : sent'[i].kind = "forward_schedule_update" => IsStored(sent'[i].plan, server'.plans)
    BY <1>1, Zenon DEF WorkspaceInv
  <1> QED
    BY <1>1, <1>2, <1>3, Zenon DEF WorkspaceInv

LEMMA SetForwardIsWell ==
    ASSUME NEW s, StoreIsWell(s), NEW plan
    PROVE  /\ StoreIsWell(SetForwardSchedule(s, plan))
           /\ \/ SetForwardSchedule(s, plan).committed = s.committed
              \/ SetForwardSchedule(s, plan).committed = plan /\ ~plan.draft
  <1>1. CASE plan.draft
    <2>1. SetForwardSchedule(s, plan) = s
      BY <1>1, Zenon DEF SetForwardSchedule
    <2> QED
      BY <2>1
  <1>2. CASE ~plan.draft
    <2> DEFINE t == [EmptyStore EXCEPT !.committed = plan, !.nextId = s.nextId]
    <2>1. SetForwardSchedule(s, plan) = t
      BY <1>2, Zenon DEF SetForwardSchedule
    <2>2. s.nextId \in Nat \ {0}
      BY DEF StoreIsWell, IdsAreGiven
    <2>3. StoreIsWell(t)
      BY <2>2, EmptyIsWell
    <2>4. t.committed = plan
      BY DEF EmptyStore
    <2> HIDE DEF t
    <2> QED
      BY <1>2, <2>1, <2>3, <2>4, Zenon
  <1> QED
    BY <1>1, <1>2

\* The plan store changes, nothing is stored or written.
LEMMA StoreChanges ==
    ASSUME WorkspaceInv, UNCHANGED <<server, sent>>, StoreIsWell(store'),
           store'.committed = store.committed
    PROVE  WorkspaceInv'
  BY WorkspaceKeeps DEF PlansGrow

\* A proposal that is gone is not confirmed.
LEMMA ConfirmedIsWell ==
    ASSUME NEW s, StoreIsWell(s), Proposed(s) = {}, NEW id
    PROVE  ConfirmProposed(s, id) = s
  <1>1. ~Confirmable(s, id)
    <2> SUFFICES ASSUME id \in ScenarioIds(s), Find(s, id).kind = "proposed" PROVE FALSE
      BY DEF Confirmable
    <2>1. Find(s, id) \in s.scenarios
      BY DEF ScenarioIds, Find
    <2> QED
      BY <2>1 DEF Proposed
  <1> QED
    BY <1>1 DEF ConfirmProposed

LEMMA EventIsWell ==
    ASSUME StreamInv, WorkspaceInv, HandleEvent
    PROVE  WorkspaceInv'
  <1> DEFINE f == sent[Len(handled) + 1]
  <1>1. UNCHANGED <<server, sent>> /\ store' = ApplyToStore(store, f) /\ Len(handled) + 1 \in 1..Len(sent)
    BY ActsOnNext DEF HandleEvent
  <1>2. DOMAIN sent = 1..Len(sent) /\ IsSequence(sent)
    BY SequenceGrows, Zenon DEF StreamInv
  <1>3. f.kind = "forward_schedule_update" => IsStored(f.plan, server.plans)
    BY <1>1, <1>2 DEF WorkspaceInv
  <1>4. StoreIsWell(store)
    BY DEF WorkspaceInv
  <1> HIDE DEF f
  <1>5. CASE f.kind = "plan_proposal"
    <2>1. store' = ShowProposal(store, f.proposal)
      BY <1>1, <1>5 DEF ApplyToStore
    <2>2. StoreIsWell(store') /\ store'.committed = store.committed
      BY <1>4, <2>1, ShowIsWell
    <2> QED
      BY <1>1, <2>2, StoreChanges
  <1>6. CASE f.kind = "forward_schedule_update"
    <2>1. store' = SetForwardSchedule(store, f.plan)
      BY <1>1, <1>6 DEF ApplyToStore
    <2>2. /\ StoreIsWell(store')
          /\ store'.committed = store.committed \/ (store'.committed = f.plan /\ ~f.plan.draft)
      BY <1>4, <2>1, SetForwardIsWell
    <2>3. \/ store'.committed = store.committed
          \/ IsStored(store'.committed, server'.plans) /\ ~store'.committed.draft
      BY <1>1, <1>3, <1>6, <2>2
    <2>4. PlansGrow
      BY <1>1 DEF PlansGrow
    <2> QED
      BY <1>1, <2>2, <2>3, <2>4, WorkspaceKeeps
  <1>7. CASE f.kind \notin {"plan_proposal", "forward_schedule_update"}
    <2>1. store' = store
      BY <1>1, <1>7 DEF ApplyToStore
    <2> QED
      BY <1>1, <1>4, <2>1, StoreChanges
  <1> QED
    BY <1>5, <1>6, <1>7

LEMMA StoresPlan ==
    ASSUME WorkspaceInv, NEW plan, server'.plans = Append(server.plans, plan)
    PROVE  PlansGrow /\ IsStored(plan, server'.plans)
  <1>1. IsSequence(server.plans)
    BY DEF WorkspaceInv
  <1>2. Len(server.plans) \in Nat
    BY <1>1 DEF IsSequence
  <1>3. DOMAIN server'.plans = 1..(Len(server.plans) + 1) /\ server'.plans[Len(server.plans) + 1] = plan
    BY <1>1, SequenceGrows
  <1>4. Len(server.plans) + 1 \in 1..(Len(server.plans) + 1)
    BY <1>2
  <1> QED
    BY <1>3, <1>4 DEF PlansGrow, IsStored

ServerFields == {"plans", "staged", "used"}
ServerTyped == server = [f \in ServerFields |-> server[f]]

LEMMA ServerKeeps ==
    ASSUME ServerTyped, NEW p
    PROVE  /\ Stage(p).plans = server.plans /\ Stage(p) = [f \in ServerFields |-> Stage(p)[f]]
           /\ StorePlan(p).plans = Append(server.plans, p)
           /\ StorePlan(p) = [f \in ServerFields |-> StorePlan(p)[f]]
  BY DEF ServerTyped, ServerFields, Stage, StorePlan

LEMMA FrameIsWell ==
    ASSUME StreamInv, WorkspaceInv, PlansGrow, store' = store, NEW f, sent' = Append(sent, f),
           f.kind = "forward_schedule_update" => IsStored(f.plan, server'.plans)
    PROVE  WorkspaceInv'
  <1>1. ASSUME NEW i \in DOMAIN sent'
        PROVE  (i \in DOMAIN sent /\ sent'[i] = sent[i]) \/ sent'[i] = f
    <2>1. Len(sent) \in Nat /\ IsSequence(sent)
      BY StreamTyped
    <2>2. /\ DOMAIN sent = 1..Len(sent) /\ DOMAIN sent' = 1..(Len(sent) + 1)
          /\ sent'[Len(sent) + 1] = f
          /\ \A j \in 1..Len(sent) : sent'[j] = sent[j]
      BY <2>1, SequenceGrows
    <2>3. i \in 1..Len(sent) \/ i = Len(sent) + 1
      BY <2>1, <2>2
    <2> QED
      BY <2>2, <2>3
  <1>2. \A i \in DOMAIN sent' : sent'[i].kind = "forward_schedule_update" =>
          IsStored(sent'[i].plan, server'.plans) \/ (i \in DOMAIN sent /\ sent'[i] = sent[i])
    BY <1>1, Zenon
  <1>3. StoreIsWell(store')
    BY DEF WorkspaceInv
  <1> QED
    BY <1>2, <1>3, WorkspaceKeeps

\* What the replies and the events of the server make of the plans.
LEMMA PlanIsWell ==
    ASSUME WorkspaceInv, NEW p, server'.plans = Append(server.plans, p), UNCHANGED sent, StoreIsWell(store'),
           store'.committed = store.committed \/ (store'.committed = p /\ ~p.draft)
    PROVE  WorkspaceInv'
  <1>1. PlansGrow /\ IsStored(p, server'.plans)
    BY StoresPlan
  <1> QED
    BY <1>1, WorkspaceKeeps

LEMMA TabsAreWell ==
    ASSUME WorkspaceInv, UseTabs
    PROVE  StoreIsWell(store') /\ store'.committed = store.committed
  <1>1. StoreIsWell(store)
    BY DEF WorkspaceInv
  <1>2. ASSUME NEW id \in ScenarioIds(store) \cup {CommittedId}, store' = SetActive(store, id)
        PROVE  StoreIsWell(store') /\ store'.committed = store.committed
    BY <1>1, <1>2, ShownIsWell
  <1>3. ASSUME NEW id, store' = DiscardScenarios(store, {id})
        PROVE  StoreIsWell(store') /\ store'.committed = store.committed
    BY <1>1, <1>3, DiscardedIsWell
  <1>4. ASSUME NEW l, NEW r, l # r, IsResolvable(store, l), IsResolvable(store, r),
               store' = [store EXCEPT !.compare = <<l, r>>]
        PROVE  StoreIsWell(store') /\ store'.committed = store.committed
    <2>1. /\ HasStoreFields(store') /\ store'.committed = store.committed /\ store'.scenarios = store.scenarios
          /\ store'.previews = store.previews /\ store'.nextId = store.nextId /\ store'.activeId = store.activeId
          /\ store'.compare = <<l, r>>
      BY <1>1, <1>4 DEF StoreIsWell, HasStoreFields, StoreFields
    <2>2. ScenarioIds(store') = ScenarioIds(store) /\ Proposed(store') = Proposed(store)
      BY <2>1 DEF ScenarioIds, Proposed
    <2>3. IsResolvable(store', l) /\ IsResolvable(store', r)
      BY <1>4, <2>1, <2>2 DEF IsResolvable
    <2>4. Compares(store')
      BY <1>4, <2>1, <2>3 DEF Compares
    <2> QED
      BY <1>1, <2>1, <2>2, <2>4 DEF StoreIsWell, IdsAreGiven, OneProposed
  <1>5. ASSUME store' = [store EXCEPT !.compare = <<>>]
        PROVE  StoreIsWell(store') /\ store'.committed = store.committed
    BY <1>1, <1>5, ShownIsWell
  <1>6. ASSUME store' = [store EXCEPT !.invalid = FALSE]
        PROVE  StoreIsWell(store') /\ store'.committed = store.committed
    BY <1>1, <1>6, ShownIsWell
  <1> QED
    BY <1>2, <1>3, <1>4, <1>5, <1>6, Zenon DEF UseTabs

LEMMA WorkspaceNext ==
    ASSUME ServerTyped, StreamInv, WorkspaceInv, [PageNext]_pageVars
    PROVE  ServerTyped' /\ WorkspaceInv'
  <1>0. StoreIsWell(store)
    BY DEF WorkspaceInv
  <1>1. CASE \/ ReadChunk \/ StreamBreaks \/ PressPlanButton \/ PressConfirm \/ PressBubbleConfirm
             \/ ReplyFails \/ UNCHANGED pageVars
    <2>1. UNCHANGED <<server, sent, store>>
      BY <1>1, Zenon DEF ReadChunk, StreamBreaks, PressPlanButton, PressConfirm, PressBubbleConfirm, ReplyFails,
            Call, Quiet, pageVars
    <2> QED
      BY <1>0, <2>1, StoreChanges DEF ServerTyped
  <1>2. CASE Send
    <2>1. UNCHANGED <<server, store>> /\ sent' = <<>>
      BY <1>2 DEF Send
    <2>2. DOMAIN sent' = {}
      BY <2>1
    <2>3. WorkspaceInv'
      BY <1>0, <2>1, <2>2, WorkspaceKeeps DEF PlansGrow
    <2> QED
      BY <2>1, <2>3 DEF ServerTyped
  <1>3. CASE ServerTalks
    <2>1. PICK k \in {"token", "done", "error"} : WriteFrame([kind |-> k])
      BY <1>3 DEF ServerTalks
    <2> DEFINE f == [kind |-> k]
    <2>2. UNCHANGED <<server, store>> /\ sent' = Append(sent, f) /\ f.kind # "forward_schedule_update"
      BY <1>3, <2>1 DEF ServerTalks, WriteFrame
    <2> HIDE DEF f
    <2>3. WorkspaceInv'
      BY <2>2, FrameIsWell DEF PlansGrow
    <2> QED
      BY <2>2, <2>3 DEF ServerTyped
  <1>4. CASE ServerProposes
    <2>1. PICK p \in Proposals : WriteFrame([kind |-> "plan_proposal", proposal |-> p]) /\ server' = Stage(p)
      BY <1>4 DEF ServerProposes
    <2> DEFINE f == [kind |-> "plan_proposal", proposal |-> p]
    <2>2. store' = store /\ sent' = Append(sent, f) /\ f.kind # "forward_schedule_update"
      BY <1>4, <2>1 DEF ServerProposes, WriteFrame
    <2> HIDE DEF f
    <2>3. server'.plans = server.plans /\ ServerTyped'
      BY <2>1, ServerKeeps DEF ServerTyped
    <2>4. WorkspaceInv'
      BY <2>2, <2>3, FrameIsWell DEF PlansGrow
    <2> QED
      BY <2>3, <2>4
  <1>5. CASE ServerPlans
    <2>1. PICK p \in NewPlans :
            WriteFrame([kind |-> "forward_schedule_update", plan |-> p]) /\ server' = StorePlan(p)
      BY <1>5 DEF ServerPlans
    <2> DEFINE f == [kind |-> "forward_schedule_update", plan |-> p]
    <2>2. store' = store /\ sent' = Append(sent, f) /\ f.plan = p
      BY <1>5, <2>1 DEF ServerPlans, WriteFrame
    <2> HIDE DEF f
    <2>3. server'.plans = Append(server.plans, p) /\ ServerTyped'
      BY <2>1, ServerKeeps DEF ServerTyped
    <2>4. PlansGrow /\ IsStored(p, server'.plans)
      BY <2>3, StoresPlan
    <2>5. WorkspaceInv'
      BY <2>2, <2>4, FrameIsWell
    <2> QED
      BY <2>3, <2>5
  <1>6. CASE HandleEvent
    <2>1. WorkspaceInv'
      BY <1>6, EventIsWell
    <2> QED
      BY <1>6, <2>1 DEF HandleEvent, ServerTyped
  <1>7. CASE StreamEnds
    <2>1. UNCHANGED <<server, sent, store>>
      BY <1>7, NothingIsLeft DEF StreamEnds
    <2> QED
      BY <1>0, <2>1, StoreChanges DEF ServerTyped
  <1>8. CASE KeepAsIs
    <2> DEFINE s == ClearPendingPreview(store)
    <2>1. store' = [s EXCEPT !.invalid = FALSE] /\ UNCHANGED <<server, sent>>
      BY <1>8 DEF KeepAsIs
    <2>2. StoreIsWell(s) /\ s.committed = store.committed
      BY <1>0, ClearedIsWell
    <2> HIDE DEF s
    <2>3. StoreIsWell(store') /\ store'.committed = store.committed
      BY <2>1, <2>2, ShownIsWell
    <2> QED
      BY <2>1, <2>3, StoreChanges DEF ServerTyped
  <1>9. CASE ReplyToChange
    <2>1. PICK p \in Proposals : server' = Stage(p) /\ store' = ShowProposal(store, p)
      BY <1>9 DEF ReplyToChange
    <2>2. UNCHANGED sent
      BY <1>9 DEF ReplyToChange, Quiet
    <2>3. server'.plans = server.plans /\ ServerTyped'
      BY <2>1, ServerKeeps DEF ServerTyped
    <2>4. StoreIsWell(store') /\ store'.committed = store.committed
      BY <1>0, <2>1, ShowIsWell
    <2>5. WorkspaceInv'
      BY <2>2, <2>3, <2>4, WorkspaceKeeps DEF PlansGrow
    <2> QED
      BY <2>3, <2>5
  <1>10. CASE ReplyToAudit
    <2> DEFINE p == [plan |-> NoCommitted, mid |-> 0]
               s == AddScenario(store, "whatif", p)
    <2>1. (store' = s \/ store' = store) /\ UNCHANGED <<server, sent>>
      BY <1>10, Zenon DEF ReplyToAudit, Quiet
    <2>2. s = Added(store, "whatif", p, store.previews)
      BY <1>0 DEF Added, AddScenario, StoreIsWell, HasStoreFields, StoreFields
    <2> HIDE DEF s, p
    <2> DEFINE kind == "whatif"
               previews == store.previews
    <2>3. kind # "proposed" /\ previews = store.previews
      OBVIOUS
    <2>4. s = Added(store, kind, p, previews)
      BY <2>2
    <2> HIDE DEF kind, previews
    <2>5. StoreIsWell(s) /\ s.committed = store.committed
      BY <1>0, <2>3, <2>4, AddedIsWell
    <2> QED
      BY <1>0, <2>1, <2>5, StoreChanges DEF ServerTyped
  <1>11. CASE ReplyToRefresh
    <2>1. PICK p \in NewPlans : server' = StorePlan(p) /\ store' = SetForwardSchedule(store, p)
      BY <1>11 DEF ReplyToRefresh
    <2>2. UNCHANGED sent
      BY <1>11 DEF ReplyToRefresh, Quiet
    <2>3. server'.plans = Append(server.plans, p) /\ ServerTyped'
      BY <2>1, ServerKeeps DEF ServerTyped
    <2>4. StoreIsWell(store') /\ (store'.committed = store.committed \/ (store'.committed = p /\ ~p.draft))
      BY <1>0, <2>1, SetForwardIsWell
    <2>5. WorkspaceInv'
      BY <2>2, <2>3, <2>4, PlanIsWell
    <2> QED
      BY <2>3, <2>5
  <1>12. CASE ReplyToConfirm
    <2>1. PICK c \in calls, p \in NewPlans :
            /\ server' = [StorePlan(p) EXCEPT !.staged = @ \ {c.mid}, !.used = @ \cup {c.mid}]
            /\ LET s == ClearPendingPreview(SetForwardSchedule(store, p))
               IN store' = IF c.op = "confirm" THEN ConfirmProposed(s, c.id) ELSE s
      BY <1>12 DEF ReplyToConfirm
    <2>2. UNCHANGED sent
      BY <1>12 DEF ReplyToConfirm, Quiet
    <2>3. server'.plans = Append(server.plans, p) /\ ServerTyped'
      BY <2>1 DEF StorePlan, ServerTyped, ServerFields
    <2> DEFINE t == SetForwardSchedule(store, p)
               s == ClearPendingPreview(t)
    <2>4. StoreIsWell(t) /\ (t.committed = store.committed \/ (t.committed = p /\ ~p.draft))
      BY <1>0, SetForwardIsWell
    <2>5. store' = IF c.op = "confirm" THEN ConfirmProposed(s, c.id) ELSE s
      BY <2>1
    <2> HIDE DEF t
    <2>6. StoreIsWell(s) /\ s.committed = t.committed /\ Proposed(s) = {}
      BY <2>4, ClearedIsWell
    <2> HIDE DEF s
    <2>7. store' = s
      BY <2>5, <2>6, ConfirmedIsWell
    <2>8. StoreIsWell(store') /\ (store'.committed = store.committed \/ (store'.committed = p /\ ~p.draft))
      BY <2>4, <2>6, <2>7
    <2>9. WorkspaceInv'
      BY <2>2, <2>3, <2>8, PlanIsWell
    <2> QED
      BY <2>3, <2>9
  <1>13. CASE UseTabs
    <2>1. UNCHANGED <<server, sent>>
      BY <1>13 DEF UseTabs
    <2> QED
      BY <1>13, <2>1, TabsAreWell, StoreChanges DEF ServerTyped
  <1> QED
    BY <1>1, <1>2, <1>3, <1>4, <1>5, <1>6, <1>7, <1>8, <1>9, <1>10, <1>11, <1>12, <1>13 DEF PageNext

LEMMA WorkspaceInit ==
    ASSUME PageInit
    PROVE  ServerTyped /\ WorkspaceInv
  <1>1. PICK first \in {<<>>} \cup {<<[nr |-> 1, draft |-> d]>> : d \in BOOLEAN} :
          /\ server = [plans |-> first, staged |-> {}, used |-> {}]
          /\ store = IF first = <<>> THEN EmptyStore ELSE SetForwardSchedule(EmptyStore, first[1])
    BY DEF PageInit
  <1>2. ServerTyped /\ server.plans = first
    BY <1>1 DEF ServerTyped, ServerFields
  <1>3. sent = <<>>
    BY DEF PageInit
  <1>4. StoreIsWell(EmptyStore) /\ EmptyStore.committed = NoCommitted
    <2>1. EmptyStore.committed = NoCommitted /\ HasStoreFields(EmptyStore)
          /\ EmptyStore.scenarios = {} /\ EmptyStore.previews = {} /\ EmptyStore.compare = <<>>
          /\ EmptyStore.activeId = CommittedId /\ EmptyStore.nextId = 1
      BY DEF EmptyStore, HasStoreFields, StoreFields
    <2> QED
      BY <2>1 DEF StoreIsWell, IdsAreGiven, OneProposed, Proposed, Compares
  <1>5. StoreIsWell(store) /\ IsSequence(first)
        /\ (store.committed = NoCommitted \/ (IsStored(store.committed, first) /\ ~store.committed.draft))
    <2>1. CASE first = <<>>
      BY <1>1, <1>4, <2>1 DEF IsSequence
    <2>2. CASE first # <<>>
      <3>1. PICK d \in BOOLEAN : first = <<[nr |-> 1, draft |-> d]>>
        BY <2>2
      <3> DEFINE plan == [nr |-> 1, draft |-> d]
      <3>2. first = <<plan>> /\ store = SetForwardSchedule(EmptyStore, plan)
        BY <1>1, <2>2, <3>1
      <3> HIDE DEF plan
      <3>3. /\ StoreIsWell(store)
            /\ store.committed = NoCommitted \/ (store.committed = plan /\ ~plan.draft)
        BY <1>4, <3>2, SetForwardIsWell
      <3>4. IsSequence(first) /\ IsStored(plan, first)
        BY <3>2 DEF IsSequence, IsStored
      <3> QED
        BY <3>3, <3>4
    <2> QED
      BY <2>1, <2>2
  <1> QED
    BY <1>2, <1>3, <1>5 DEF WorkspaceInv

LEMMA WellIsConsistent ==
    ASSUME WorkspaceInv
    PROVE  WorkspaceIsConsistent
  <1>1. StoreIsWell(store)
    BY DEF WorkspaceInv
  <1>2. store.compare # <<>> =>
          /\ store.compare[1] # store.compare[2]
          /\ \A i \in 1..2 : IsResolvable(store, store.compare[i])
    <2> SUFFICES ASSUME store.compare # <<>>
                 PROVE  /\ store.compare[1] # store.compare[2]
                        /\ \A i \in 1..2 : IsResolvable(store, store.compare[i])
      OBVIOUS
    <2>1. PICK l, r : store.compare = <<l, r>> /\ l # r /\ IsResolvable(store, l) /\ IsResolvable(store, r)
      BY <1>1 DEF StoreIsWell, Compares
    <2>2. store.compare[1] = l /\ store.compare[2] = r /\ \A i \in 1..2 : i = 1 \/ i = 2
      BY <2>1
    <2> QED
      BY <2>1, <2>2
  <1>3. Cardinality(Proposed(store)) <= 1
    <2>1. CASE Proposed(store) = {}
      BY <2>1, FS_EmptySet
    <2>2. CASE Proposed(store) # {}
      <3>1. PICK a : Proposed(store) = {a}
        BY <1>1, <2>2 DEF StoreIsWell, OneProposed
      <3> QED
        <4>1. Cardinality({a}) = 1
          BY FS_Singleton
        <4> QED
          BY <3>1, <4>1
    <2> QED
      BY <2>1, <2>2
  <1>4. store.committed \in Range(server.plans) \/ ~IsStored(store.committed, server.plans)
    BY DEF IsStored, Range
  <1> QED
    BY <1>1, <1>2, <1>3, <1>4 DEF WorkspaceIsConsistent, WorkspaceInv, StoreIsWell, OneProposed, Proposed

(* Whatever events and replies come in between, the tab and the pair on       *)
(* screen exist, one proposal at most is on offer, and the plan under "My     *)
(* Plan" is one the server has stored and no draft (scenarios.ts,             *)
(* planStore.ts, reviewCard.ts).                                              *)
THEOREM WorkspaceHolds == PageSpec => []WorkspaceIsConsistent
  <1> DEFINE Inv == ServerTyped /\ StreamInv /\ WorkspaceInv
  <1>1. PageInit => Inv
    BY StreamInit, WorkspaceInit
  <1>2. Inv /\ [PageNext]_pageVars => Inv'
    BY StreamNext, WorkspaceNext
  <1>3. Inv => WorkspaceIsConsistent
    BY WellIsConsistent
  <1> QED
    BY <1>1, <1>2, <1>3, PTL DEF PageSpec

=============================================================================
