------------------------- MODULE ConversationProofs -------------------------
(***************************************************************************)
(* What a conversation leaves behind: the transcript of ChatReply, for any *)
(* messages, replies and windows, and any number of pages, turns at a time,*)
(* failed writes and reloads; the profile of ProfileSync, for any requests, turns,       *)
(* uploads, confirmed updates and failing calls of the store; the turns    *)
(* that carry a student's first choices, for any path through Onboarding;  *)
(* the window of SessionSummaries, for any number of turns and either kind *)
(* of store; who gets in, by SignIn, for any addresses, limits and         *)
(* lifetimes and any number of verifications at a time; and what a reply   *)
(* that passes ReplyValidator may say, for any statements.                 *)
(***************************************************************************)
EXTENDS ChatReply, ProfileSync, Onboarding, SessionSummaries, SignIn, ReplyValidator, ListProofs

-----------------------------------------------------------------------------
(* What the variables hold.                                                *)

EntryType == [turn : Nat, role : {"user", "assistant"}, said : Messages \cup TextShapes]

Writing == {"persistUser", "persistAssistant"}          \* answered, not over
Stages == {"gate", "agent", "offers", "judge", "over"} \cup Writing

TurnType ==
  [at : Stages, page : Pages, message : Messages, prior : Seq(EntryType),
   draft : TextShapes, final : TextShapes, tools : ToolSets \cup {{}}, cards : Nat,
   shown : BOOLEAN, during : SUBSET Nat]

TypeInv ==
  /\ thread \in [Pages -> Seq(EntryType)]
  /\ history \in Seq(EntryType)
  /\ turns \in Seq(TurnType)

\* An answer to be written has no fabricated citation.
Clean == \A n \in DOMAIN turns : turns[n].at \in Writing => turns[n].final.cites # "fabricated"

\* What is not over yet was under way when any later turn was sent.
Overlaps ==
  \A n, m \in DOMAIN turns : n < m /\ turns[n].at # "over" => n \in turns[m].during

\* Every entry of the transcript is of a turn, and tells what was asked in it
\* and told; an entry of the page is a card or the answer of a turn.
Tells(h) ==
  /\ h.turn \in DOMAIN turns
  /\ turns[h.turn].at \in {"persistAssistant", "over"}
  /\ h.role = "user" => h.said = turns[h.turn].message
  /\ h.role = "assistant" =>
       /\ turns[h.turn].at = "over"
       /\ h.said = turns[h.turn].final /\ h.said.cites # "fabricated"

Shows(e) ==
  e.role = "assistant" =>
    /\ e.turn \in DOMAIN turns
    /\ e.said \in {Silent, turns[e.turn].final}
    /\ turns[e.turn].at \in {"over"} \cup Writing

\* An entry behind another: at most the answer of the same turn, or of a turn
\* that was sent later, or was under way then.
Behind(before, h) ==
  /\ before.turn = h.turn => before.role = "user" /\ h.role = "assistant"
  /\ before.turn > h.turn => h.turn \in turns[before.turn].during

Ordered ==
  \A i \in DOMAIN history :
    /\ history[i].role = "assistant" => \E j \in 1..(i - 1) : history[j].turn = history[i].turn
    /\ \A j \in 1..(i - 1) : Behind(history[j], history[i])

\* A turn whose answer is to be written has its message in the transcript, and
\* nothing else.
Halfway ==
  \A n \in DOMAIN turns : turns[n].at = "persistAssistant" =>
    /\ \E i \in DOMAIN history : history[i].turn = n
    /\ \A i \in DOMAIN history : history[i].turn = n => history[i].role = "user"

TranscriptInv ==
  /\ Clean /\ Overlaps
  /\ \A i \in DOMAIN history : Tells(history[i])
  /\ \A p \in Pages : \A i \in DOMAIN thread[p] : Shows(thread[p][i])
  /\ Ordered /\ Halfway

-----------------------------------------------------------------------------
(* Sequences and texts.                                                    *)

\* The newest elements of a sequence are elements of it.
LEMMA NewestAreElements ==
    ASSUME NEW S, NEW s \in Seq(S), NEW n \in Nat
    PROVE  /\ NewestOf(s, n) \in Seq(S)
           /\ \A i \in DOMAIN NewestOf(s, n) :
                \E j \in DOMAIN s : NewestOf(s, n)[i] = s[j]
  <1> DEFINE from == IF Len(s) > n THEN Len(s) - n + 1 ELSE 1
             new == SubSeq(s, from, Len(s))
  <1>1. from \in Nat /\ from >= 1 /\ Len(s) \in Nat
    OBVIOUS
  <1> HIDE DEF from
  <1>2. new \in Seq(S)
    BY <1>1
  <1>3. \A i \in DOMAIN new : i + from - 1 \in DOMAIN s /\ new[i] = s[i + from - 1]
    BY <1>1
  <1> QED
    BY <1>2, <1>3 DEF NewestOf, from

LEMMA SilentTexts == Silent \in TextShapes /\ Plain = Silent /\ Question \in TextShapes /\
                     Silent.cites = "none" /\ Question.cites = "none"
  BY DEF Silent, TextShapes, Plain, Question

\* The final text is a text, and not one with a fabricated citation unless the
\* validator had let one pass.
LEMMA FinalTextClean ==
    ASSUME NEW final \in TextShapes, NEW ok \in BOOLEAN, final.cites = "fabricated" => ~ok,
           NEW topic, NEW prior
    PROVE  /\ FinalText(final, ok, topic, prior) \in TextShapes
           /\ FinalText(final, ok, topic, prior).cites # "fabricated"
  BY DEF FinalText, StripFabricatedBlockquotes, TextShapes

\* What a concatenation is made of.
LEMMA ConcatElements ==
    ASSUME NEW S, NEW s \in Seq(S), NEW t \in Seq(S)
    PROVE  /\ s \o t \in Seq(S)
           /\ \A i \in DOMAIN (s \o t) :
                \/ i \in DOMAIN s /\ (s \o t)[i] = s[i]
                \/ \E j \in DOMAIN t : (s \o t)[i] = t[j]
  <1>1. s \o t \in Seq(S) /\ DOMAIN s = 1..Len(s) /\ DOMAIN t = 1..Len(t) /\ DOMAIN (s \o t) = 1..(Len(s) + Len(t))
    OBVIOUS
  <1>2. ASSUME NEW i \in DOMAIN (s \o t), i \notin DOMAIN s
        PROVE  i - Len(s) \in DOMAIN t /\ (s \o t)[i] = t[i - Len(s)]
    BY <1>1, <1>2
  <1>3. \A i \in DOMAIN s : (s \o t)[i] = s[i]
    BY <1>1
  <1> QED
    BY <1>1, <1>2, <1>3

\* Entries are entries.
LEMMA EntryFields ==
    ASSUME NEW n \in Nat, NEW role \in {"user", "assistant"}, NEW said \in Messages \cup TextShapes
    PROVE  /\ Entry(n, role, said) \in EntryType
           /\ Entry(n, role, said).turn = n /\ Entry(n, role, said).role = role
           /\ Entry(n, role, said).said = said
  BY DEF Entry, EntryType

-----------------------------------------------------------------------------
(* The first state.                                                        *)

LEMMA TypeInit == ReplyInit => TypeInv
  BY DEF ReplyInit, TypeInv

LEMMA TranscriptInit == ReplyInit => TranscriptInv
  BY DEF ReplyInit, TranscriptInv, Clean, Overlaps, Ordered, Halfway

-----------------------------------------------------------------------------
(* A step of one turn.                                                     *)

\* One turn in place of another.
LEMMA TurnReplaced ==
    ASSUME TypeInv, NEW n \in DOMAIN turns, NEW t \in TurnType, turns' = [turns EXCEPT ![n] = t]
    PROVE  /\ turns' \in Seq(TurnType) /\ DOMAIN turns' = DOMAIN turns
           /\ turns'[n] = t /\ n \in Nat
           /\ \A m \in DOMAIN turns : m # n => turns'[m] = turns[m]
  BY DEF TypeInv

\* What a step may make of a turn: its message and what it overlaps with stay,
\* and its final text once it is answered.
Becomes(n, t) ==
  /\ turns[n].at # "over"
  /\ t.message = turns[n].message /\ t.during = turns[n].during
  /\ t.at \in Writing => t.final.cites # "fabricated"
  /\ turns[n].at \in Writing => t.final = turns[n].final

\* A turn goes on: what it says of the other turns, and they of it, stays.
LEMMA TurnsKeep ==
    ASSUME TypeInv, TranscriptInv, NEW n \in DOMAIN turns, NEW t \in TurnType,
           turns' = [turns EXCEPT ![n] = t], Becomes(n, t)
    PROVE  Clean' /\ Overlaps'
  <1>1. DOMAIN turns' = DOMAIN turns /\ turns'[n] = t /\ \A m \in DOMAIN turns : m # n => turns'[m] = turns[m]
    BY TurnReplaced
  <1>2. Clean'
    BY <1>1 DEF TranscriptInv, Clean, Becomes
  <1>3. ASSUME NEW a \in DOMAIN turns, NEW b \in DOMAIN turns, a < b, turns'[a].at # "over"
        PROVE  a \in turns'[b].during
    <2>1. turns[a].at # "over"
      BY <1>1, <1>3 DEF Becomes
    <2>2. turns'[b].during = turns[b].during
      BY <1>1 DEF Becomes
    <2> QED
      BY <2>1, <2>2, <1>3 DEF TranscriptInv, Overlaps
  <1> QED
    BY <1>1, <1>2, <1>3 DEF Overlaps

\* A turn that writes nothing: what the transcript has of it stays true.
LEMMA QuietStepKeeps ==
    ASSUME TypeInv, TranscriptInv, NEW n \in DOMAIN turns, NEW t \in TurnType,
           turns' = [turns EXCEPT ![n] = t], Becomes(n, t), history' = history,
           t.at # "persistAssistant", turns[n].at \in Writing => t.at = "over",
           thread' \in [Pages -> Seq(EntryType)],
           \A p \in Pages : \A i \in DOMAIN thread'[p] :
             \/ i \in DOMAIN thread[p] /\ thread'[p][i] = thread[p][i]
             \/ /\ thread'[p][i].turn = n /\ thread'[p][i].said \in {Silent, t.final}
                /\ t.at \in {"over"} \cup Writing
    PROVE  TypeInv' /\ TranscriptInv'
  <1>1. /\ turns' \in Seq(TurnType) /\ DOMAIN turns' = DOMAIN turns /\ turns'[n] = t
        /\ \A m \in DOMAIN turns : m # n => turns'[m] = turns[m]
    BY TurnReplaced
  <1>2. TypeInv'
    BY <1>1 DEF TypeInv
  <1>3. Clean' /\ Overlaps'
    BY TurnsKeep
  <1>4. (\A i \in DOMAIN history : Tells(history[i]))'
    <2> SUFFICES ASSUME NEW i \in DOMAIN history PROVE Tells(history[i])'
      OBVIOUS
    <2>1. Tells(history[i])
      BY DEF TranscriptInv
    <2>2. CASE history[i].turn = n
      <3>1. turns[n].at = "persistAssistant" /\ t.at = "over"
        BY <2>1, <2>2 DEF Tells, Becomes, Writing
      <3> QED
        BY <1>1, <2>1, <2>2, <3>1 DEF Tells, Becomes
    <2>3. CASE history[i].turn # n
      BY <1>1, <2>1, <2>3 DEF Tells
    <2> QED
      BY <2>2, <2>3
  <1>5. (\A p \in Pages : \A i \in DOMAIN thread[p] : Shows(thread[p][i]))'
    <2> SUFFICES ASSUME NEW p \in Pages, NEW i \in DOMAIN thread'[p], thread'[p][i].role = "assistant"
                 PROVE  /\ thread'[p][i].turn \in DOMAIN turns'
                        /\ thread'[p][i].said \in {Silent, turns'[thread'[p][i].turn].final}
                        /\ turns'[thread'[p][i].turn].at \in {"over"} \cup Writing
      BY DEF Shows
    <2>1. CASE i \in DOMAIN thread[p] /\ thread'[p][i] = thread[p][i]
      <3> DEFINE e == thread[p][i]
      <3>1. e.turn \in DOMAIN turns /\ e.said \in {Silent, turns[e.turn].final}
            /\ turns[e.turn].at \in {"over"} \cup Writing
        BY <2>1 DEF TranscriptInv, Shows
      <3>2. CASE e.turn = n
        <4>1. turns[n].at \in Writing /\ t.at = "over" /\ t.final = turns[n].final
          BY <3>1, <3>2 DEF Becomes
        <4> QED
          BY <1>1, <2>1, <3>1, <3>2, <4>1
      <3>3. CASE e.turn # n
        BY <1>1, <2>1, <3>1, <3>3
      <3> QED
        BY <3>2, <3>3
    <2>2. CASE /\ thread'[p][i].turn = n /\ thread'[p][i].said \in {Silent, t.final}
               /\ t.at \in {"over"} \cup Writing
      BY <1>1, <2>2
    <2> QED
      BY <2>1, <2>2
  <1>6. Ordered'
    <2>1. \A m \in DOMAIN turns : turns'[m].during = turns[m].during
      BY <1>1 DEF Becomes
    <2>2. \A j \in DOMAIN history : history[j].turn \in DOMAIN turns
      BY DEF TranscriptInv, Tells
    <2>3. history \in Seq(EntryType)
      BY DEF TypeInv
    <2>4. ASSUME NEW i \in DOMAIN history, NEW j \in 1..(i - 1)
          PROVE  Behind(history[j], history[i])'
      <3>1. j \in DOMAIN history
        BY <2>3
      <3>2. Behind(history[j], history[i])
        BY DEF TranscriptInv, Ordered
      <3> QED
        BY <2>1, <2>2, <3>1, <3>2 DEF Behind
    <2> QED
      BY <2>4 DEF TranscriptInv, Ordered
  <1>7. Halfway'
    BY <1>1 DEF TranscriptInv, Halfway
  <1> QED
    BY <1>2, <1>3, <1>4, <1>5, <1>6, <1>7 DEF TranscriptInv

\* A turn that answers nothing and writes nothing.
LEMMA SilentStepKeeps ==
    ASSUME TypeInv, TranscriptInv, NEW n \in DOMAIN turns, NEW t \in TurnType,
           turns' = [turns EXCEPT ![n] = t], Becomes(n, t), t.at # "persistAssistant",
           turns[n].at \in Writing => t.at = "over", UNCHANGED <<thread, history>>
    PROVE  TypeInv' /\ TranscriptInv'
  <1>1. thread' \in [Pages -> Seq(EntryType)]
        /\ \A p \in Pages : \A i \in DOMAIN thread'[p] :
             i \in DOMAIN thread[p] /\ thread'[p][i] = thread[p][i]
    BY DEF TypeInv
  <1> QED
    BY <1>1, QuietStepKeeps

\* The end of a turn leaves what others see of it.
LEMMA OverFields ==
    ASSUME NEW t \in TurnType
    PROVE  /\ Over(t) \in TurnType /\ Over(t).at = "over" /\ Over(t).message = t.message
           /\ Over(t).during = t.during /\ Over(t).final = t.final
  <1> DEFINE none == <<>>
  <1>1. none \in Seq(EntryType) /\ {} \in ToolSets \cup {{}} /\ 0 \in Nat /\ Silent \in TextShapes
    BY SilentTexts
  <1>2. Over(t) = [t EXCEPT !.at = "over", !.prior = none, !.draft = Silent, !.tools = {}, !.cards = 0,
                            !.shown = FALSE]
    BY DEF Over
  <1> HIDE DEF none
  <1> QED
    BY <1>1, <1>2 DEF TurnType, Stages

-----------------------------------------------------------------------------
(* An answer: the page shows it or has gone.                               *)

\* What an answer does to the page that asked, and to no other.
LEMMA AnswerShows ==
    ASSUME TypeInv, NEW n \in DOMAIN turns, NEW final \in TextShapes, NEW at, Answer(n, final, at)
    PROVE  /\ thread' \in [Pages -> Seq(EntryType)]
           /\ \A p \in Pages : \A i \in DOMAIN thread'[p] :
                \/ i \in DOMAIN thread[p] /\ thread'[p][i] = thread[p][i]
                \/ thread'[p][i].turn = n /\ thread'[p][i].said \in {Silent, final}
  <1> DEFINE t == turns[n]
             q == t.page
             bubble == <<Entry(n, "assistant", final)>>
             cards == [i \in 1..t.cards |-> Card(n)]
             now == (thread[q] \o bubble) \o cards
  <1>1. n \in Nat /\ t \in TurnType
    BY DEF TypeInv
  <1>2. q \in Pages /\ t.cards \in Nat /\ t.shown \in BOOLEAN
    BY <1>1 DEF TurnType
  <1>3. thread \in [Pages -> Seq(EntryType)] /\ thread[q] \in Seq(EntryType)
    BY <1>2 DEF TypeInv
  <1>4. Entry(n, "assistant", final) \in EntryType
        /\ Entry(n, "assistant", final).turn = n /\ Entry(n, "assistant", final).said = final
    BY <1>1, EntryFields
  <1>5. Card(n) \in EntryType /\ Card(n).turn = n /\ Card(n).said = Silent
    BY <1>1, SilentTexts, EntryFields DEF Card
  <1>6. bubble \in Seq(EntryType) /\ \A j \in DOMAIN bubble : bubble[j] = Entry(n, "assistant", final)
    BY <1>4
  <1>7. cards \in Seq(EntryType) /\ \A j \in DOMAIN cards : cards[j] = Card(n)
    BY <1>2, <1>5
  <1>8. thread' = IF t.shown THEN [thread EXCEPT ![q] = now] ELSE thread
    BY DEF Answer
  <1> HIDE DEF t, q, bubble, cards
  <1>9. thread[q] \o bubble \in Seq(EntryType)
        /\ \A i \in DOMAIN (thread[q] \o bubble) :
              \/ i \in DOMAIN thread[q] /\ (thread[q] \o bubble)[i] = thread[q][i]
              \/ \E j \in DOMAIN bubble : (thread[q] \o bubble)[i] = bubble[j]
    BY <1>3, <1>6, ConcatElements
  <1> DEFINE soFar == thread[q] \o bubble
  <1>10. now = soFar \o cards
    OBVIOUS
  <1> HIDE DEF soFar, now
  <1>11. now \in Seq(EntryType)
         /\ \A i \in DOMAIN now :
              \/ i \in DOMAIN soFar /\ now[i] = soFar[i]
              \/ \E j \in DOMAIN cards : now[i] = cards[j]
    BY <1>7, <1>9, <1>10, ConcatElements DEF soFar
  <1>12. \A i \in DOMAIN now :
           \/ i \in DOMAIN thread[q] /\ now[i] = thread[q][i]
           \/ now[i] = Entry(n, "assistant", final)
           \/ now[i] = Card(n)
    BY <1>6, <1>7, <1>9, <1>11 DEF soFar
  <1>13. CASE t.shown
    <2>1. thread' \in [Pages -> Seq(EntryType)]
      BY <1>3, <1>8, <1>11, <1>13
    <2>2. ASSUME NEW p \in Pages, NEW i \in DOMAIN thread'[p]
          PROVE  \/ i \in DOMAIN thread[p] /\ thread'[p][i] = thread[p][i]
                 \/ thread'[p][i].turn = n /\ thread'[p][i].said \in {Silent, final}
      <3>1. CASE p = q
        <4>1. thread'[p] = now /\ i \in DOMAIN now
          BY <1>2, <1>3, <1>8, <1>13, <3>1
        <4>2. \/ i \in DOMAIN thread[q] /\ now[i] = thread[q][i]
              \/ now[i] = Entry(n, "assistant", final)
              \/ now[i] = Card(n)
          BY <4>1, <1>12
        <4> QED
          BY <3>1, <4>1, <4>2, <1>4, <1>5
      <3>2. CASE p # q
        BY <1>3, <1>8, <1>13, <3>2
      <3> QED
        BY <3>1, <3>2
    <2> QED
      BY <2>1, <2>2
  <1>14. CASE ~t.shown
    BY <1>3, <1>8, <1>14
  <1> QED
    BY <1>13, <1>14

LEMMA AnswerKeeps ==
    ASSUME TypeInv, TranscriptInv, NEW n \in DOMAIN turns,
           turns[n].at \notin {"over"} \cup Writing,
           NEW final \in TextShapes, NEW at \in {"over", "persistUser"}, Answer(n, final, at),
           at = "persistUser" => final.cites # "fabricated"
    PROVE  TypeInv' /\ TranscriptInv'
  <1> DEFINE answered == [turns[n] EXCEPT !.at = at, !.final = final]
             told == [turns[n] EXCEPT !.final = final]
             t == IF at = "over" THEN Over(told) ELSE answered
  <1>1. turns[n] \in TurnType
    BY DEF TypeInv
  <1>2. told \in TurnType /\ told.message = turns[n].message /\ told.during = turns[n].during
        /\ told.final = final
    BY <1>1 DEF TurnType
  <1>3. at # "over" => answered \in TurnType /\ answered.message = turns[n].message
        /\ answered.during = turns[n].during /\ answered.final = final /\ answered.at = "persistUser"
    BY <1>1 DEF TurnType, Stages, Writing
  <1>4. turns' = [turns EXCEPT ![n] = t] /\ history' = history
    BY DEF Answer
  <1> HIDE DEF answered, told
  <1>5. t \in TurnType /\ t.at = at /\ t.message = turns[n].message /\ t.during = turns[n].during
        /\ t.final = final
    <2>1. CASE at = "over"
      BY <1>2, <2>1, OverFields
    <2>2. CASE at # "over"
      BY <1>3, <2>2
    <2> QED
      BY <2>1, <2>2
  <1> HIDE DEF t
  <1>6. Becomes(n, t)
    BY <1>5 DEF Becomes, Writing
  <1>7. thread' \in [Pages -> Seq(EntryType)]
        /\ \A p \in Pages : \A i \in DOMAIN thread'[p] :
             \/ i \in DOMAIN thread[p] /\ thread'[p][i] = thread[p][i]
             \/ thread'[p][i].turn = n /\ thread'[p][i].said \in {Silent, final}
    BY AnswerShows
  <1>8. t.at \in {"over"} \cup Writing /\ t.at # "persistAssistant" /\ turns[n].at \notin Writing
    BY <1>5 DEF Writing
  <1>9. \A p \in Pages : \A i \in DOMAIN thread'[p] :
             \/ i \in DOMAIN thread[p] /\ thread'[p][i] = thread[p][i]
             \/ /\ thread'[p][i].turn = n /\ thread'[p][i].said \in {Silent, t.final}
                /\ t.at \in {"over"} \cup Writing
    BY <1>5, <1>7, <1>8
  <1>10. thread' \in [Pages -> Seq(EntryType)] /\ t \in TurnType
    BY <1>5, <1>7
  <1> QED
    BY <1>4, <1>6, <1>8, <1>9, <1>10, QuietStepKeeps, Zenon

-----------------------------------------------------------------------------
(* The steps.                                                              *)

\* A message is sent: no turn under way at that moment is missing in "during".
LEMMA SentKeeps ==
    ASSUME TypeInv, TranscriptInv, NEW p \in Pages, NEW m \in Messages, SendMessage(p, m)
    PROVE  TypeInv' /\ TranscriptInv'
  <1> DEFINE k == Len(turns) + 1
             e == Entry(k, "user", m)
             window == NewestOf(thread[p], HistoryWindow)
             t == Turn(p, m, window, UnderWay)
  <1>1. /\ turns \in Seq(TurnType) /\ Len(turns) \in Nat /\ DOMAIN turns = 1..Len(turns)
        /\ thread \in [Pages -> Seq(EntryType)] /\ thread[p] \in Seq(EntryType)
        /\ HistoryWindow \in Nat /\ history \in Seq(EntryType)
    BY RepliesAssumption DEF TypeInv
  <1>2. /\ turns' = Append(turns, t) /\ history' = history
        /\ thread' = [thread EXCEPT ![p] = Append(thread[p], e)]
    BY DEF SendMessage
  <1>3. k \in Nat /\ e \in EntryType /\ e.role = "user"
    BY <1>1, EntryFields
  <1>4. window \in Seq(EntryType)
    BY <1>1, NewestAreElements
  <1>5. UnderWay \in SUBSET Nat
    BY <1>1 DEF UnderWay
  <1>6. t \in TurnType /\ t.at = "gate" /\ t.during = UnderWay
    <2> HIDE DEF window
    <2>1. t = [at |-> "gate", page |-> p, message |-> m, prior |-> window, draft |-> Silent,
               final |-> Silent, tools |-> {}, cards |-> 0, shown |-> TRUE, during |-> UnderWay]
      BY DEF Turn
    <2> QED
      BY <2>1, <1>4, <1>5, SilentTexts DEF TurnType, Stages
  <1> HIDE DEF e, window, t
  <1>7. /\ turns' \in Seq(TurnType) /\ DOMAIN turns' = 1..k
        /\ \A n \in DOMAIN turns : n \in DOMAIN turns' /\ turns'[n] = turns[n] /\ n < k
        /\ turns'[k] = t
        /\ \A n \in DOMAIN turns' : n \in DOMAIN turns \/ n = k
    BY <1>1, <1>2, <1>6
  <1> HIDE DEF k
  <1>8. /\ thread' \in [Pages -> Seq(EntryType)]
        /\ \A q \in Pages : \A i \in DOMAIN thread'[q] :
             \/ i \in DOMAIN thread[q] /\ thread'[q][i] = thread[q][i]
             \/ thread'[q][i] = e
    <2>1. Append(thread[p], e) \in Seq(EntryType)
          /\ \A i \in DOMAIN Append(thread[p], e) :
               \/ i \in DOMAIN thread[p] /\ Append(thread[p], e)[i] = thread[p][i]
               \/ Append(thread[p], e)[i] = e
      BY <1>1, <1>3
    <2> DEFINE longer == Append(thread[p], e)
    <2> HIDE DEF longer
    <2>2. thread' = [thread EXCEPT ![p] = longer]
      BY <1>2 DEF longer
    <2>3. longer \in Seq(EntryType) /\ \A i \in DOMAIN longer :
            (i \in DOMAIN thread[p] /\ longer[i] = thread[p][i]) \/ longer[i] = e
      BY <2>1 DEF longer
    <2> QED
      BY <2>2, <2>3, <1>1
  <1>9. TypeInv'
    BY <1>1, <1>2, <1>7, <1>8 DEF TypeInv
  <1>10. Clean'
    BY <1>6, <1>7 DEF TranscriptInv, Clean, Writing
  <1>11. Overlaps'
    <2> SUFFICES ASSUME NEW a \in DOMAIN turns', NEW b \in DOMAIN turns', a < b, turns'[a].at # "over"
                 PROVE  a \in turns'[b].during
      BY DEF Overlaps
    <2>1. k \in Nat /\ a \in Nat /\ b \in Nat
      BY <1>3, <1>7 DEF k
    <2>2. CASE b = k
      <3>1. a \in DOMAIN turns /\ turns[a].at # "over"
        BY <1>7, <2>1, <2>2
      <3> QED
        BY <3>1, <2>2, <1>6, <1>7 DEF UnderWay
    <2>3. CASE b \in DOMAIN turns
      <3>1. a \in DOMAIN turns
        BY <1>7, <2>1, <2>3
      <3> QED
        BY <3>1, <2>3, <1>7 DEF TranscriptInv, Overlaps
    <2> QED
      BY <1>7, <2>2, <2>3
  <1>12. (\A i \in DOMAIN history : Tells(history[i]))'
    BY <1>2, <1>7 DEF TranscriptInv, Tells
  <1>13. (\A q \in Pages : \A i \in DOMAIN thread[q] : Shows(thread[q][i]))'
    <2> SUFFICES ASSUME NEW q \in Pages, NEW i \in DOMAIN thread'[q] PROVE Shows(thread[q][i])'
      OBVIOUS
    <2>1. CASE i \in DOMAIN thread[q] /\ thread'[q][i] = thread[q][i]
      BY <2>1, <1>7 DEF TranscriptInv, Shows
    <2>2. CASE thread'[q][i] = e
      BY <2>2, <1>3 DEF Shows
    <2> QED
      BY <1>8, <2>1, <2>2
  <1>14. Ordered'
    <2>1. \A j \in DOMAIN history : history[j].turn \in DOMAIN turns
      BY DEF TranscriptInv, Tells
    <2>2. ASSUME NEW i \in DOMAIN history, NEW j \in 1..(i - 1)
          PROVE  Behind(history[j], history[i])'
      <3>1. j \in DOMAIN history
        BY <1>1
      <3>2. Behind(history[j], history[i])
        BY DEF TranscriptInv, Ordered
      <3> QED
        BY <1>2, <1>7, <2>1, <3>1, <3>2 DEF Behind
    <2> QED
      BY <1>2, <2>2 DEF TranscriptInv, Ordered
  <1>15. Halfway'
    BY <1>2, <1>6, <1>7 DEF TranscriptInv, Halfway
  <1> QED
    BY <1>9, <1>10, <1>11, <1>12, <1>13, <1>14, <1>15 DEF TranscriptInv

LEMMA AgentKeeps ==
    ASSUME TypeInv, TranscriptInv, NEW n \in DOMAIN turns,
           GateLetsPass(n) \/ (\E r \in Replies, tools \in ToolSets : AgentAnswers(n, r, tools)) \/ Offers(n)
    PROVE  TypeInv' /\ TranscriptInv'
  <1>1. turns[n] \in TurnType
    BY DEF TypeInv
  <1>2. CASE GateLetsPass(n)
    <2> DEFINE t == [turns[n] EXCEPT !.at = "agent"]
    <2>1. turns' = [turns EXCEPT ![n] = t] /\ turns[n].at = "gate" /\ UNCHANGED <<thread, history>>
      BY <1>2 DEF GateLetsPass
    <2>2. t \in TurnType /\ t.at = "agent" /\ t.message = turns[n].message /\ t.during = turns[n].during
      BY <1>1 DEF TurnType, Stages
    <2> HIDE DEF t
    <2>3. Becomes(n, t)
      BY <2>1, <2>2 DEF Becomes, Writing
    <2> QED
      BY <2>1, <2>2, <2>3, SilentStepKeeps DEF Writing
  <1>3. ASSUME NEW r \in Replies, NEW tools \in ToolSets, AgentAnswers(n, r, tools)
        PROVE  TypeInv' /\ TranscriptInv'
    <2> DEFINE t == [turns[n] EXCEPT !.at = "offers", !.draft = r, !.tools = tools]
    <2>1. turns' = [turns EXCEPT ![n] = t] /\ turns[n].at = "agent" /\ UNCHANGED <<thread, history>>
      BY <1>3 DEF AgentAnswers
    <2>2. t \in TurnType /\ t.at = "offers" /\ t.message = turns[n].message /\ t.during = turns[n].during
      BY <1>1, RepliesAssumption DEF TurnType, Stages
    <2> HIDE DEF t
    <2>3. Becomes(n, t)
      BY <2>1, <2>2 DEF Becomes, Writing
    <2> QED
      BY <2>1, <2>2, <2>3, SilentStepKeeps DEF Writing
  <1>4. CASE Offers(n)
    <2>1. PICK audit \in {0, 1}, proposal \in {0, 1} :
            turns' = [turns EXCEPT ![n] = [@ EXCEPT !.at = "judge", !.cards = audit + proposal]]
      BY <1>4, Zenon DEF Offers
    <2> DEFINE t == [turns[n] EXCEPT !.at = "judge", !.cards = audit + proposal]
    <2>2. turns' = [turns EXCEPT ![n] = t] /\ turns[n].at = "offers" /\ UNCHANGED <<thread, history>>
      BY <1>4, <2>1 DEF Offers
    <2>3. t \in TurnType /\ t.at = "judge" /\ t.message = turns[n].message /\ t.during = turns[n].during
      <3>1. audit + proposal \in Nat
        OBVIOUS
      <3> QED
        BY <1>1, <3>1 DEF TurnType, Stages
    <2> HIDE DEF t
    <2>4. Becomes(n, t)
      BY <2>2, <2>3 DEF Becomes, Writing
    <2> QED
      BY <2>2, <2>3, <2>4, SilentStepKeeps DEF Writing
  <1> QED
    BY <1>2, <1>3, <1>4

LEMMA AnswersKeep ==
    ASSUME TypeInv, TranscriptInv, NEW n \in DOMAIN turns, Clarify(n) \/ AgentFails(n) \/ Done(n)
    PROVE  TypeInv' /\ TranscriptInv'
  <1>1. CASE Clarify(n)
    BY <1>1, AnswerKeeps, SilentTexts DEF Clarify, Writing
  <1>2. CASE AgentFails(n)
    BY <1>2, AnswerKeeps, SilentTexts DEF AgentFails, Writing
  <1>3. CASE Done(n)
    <2> DEFINE t == turns[n]
    <2>1. PICK ok \in BOOLEAN :
             /\ t.draft.cites = "fabricated" => ~ok
             /\ Answer(n, FinalText(t.draft, ok, ElicitationTopic(t.message, t.prior, profile), t.prior),
                       "persistUser")
      BY <1>3 DEF Done
    <2> DEFINE final == FinalText(t.draft, ok, ElicitationTopic(t.message, t.prior, profile), t.prior)
    <2>2. t.draft \in TextShapes /\ t.at \notin {"over"} \cup Writing
      <3>1. t \in TurnType
        BY DEF TypeInv
      <3>2. t.at = "judge"
        BY <1>3 DEF Done
      <3> QED
        BY <3>1, <3>2 DEF TurnType, Writing
    <2>3. final \in TextShapes /\ final.cites # "fabricated"
      BY <2>1, <2>2, FinalTextClean
    <2> HIDE DEF final
    <2>4. Answer(n, final, "persistUser")
      BY <2>1 DEF final
    <2> QED
      BY <2>2, <2>3, <2>4, AnswerKeeps
  <1> QED
    BY <1>1, <1>2, <1>3

\* The two writes of a transcript: an entry of a turn that is still under way
\* stands behind none of a turn sent later but of those it overlaps with.
LEMMA WriteKeeps ==
    ASSUME TypeInv, TranscriptInv, NEW n \in DOMAIN turns, NEW t \in TurnType,
           turns' = [turns EXCEPT ![n] = t], Becomes(n, t), thread' = thread,
           NEW e \in EntryType, e.turn = n, history' = Append(history, e),
           \/ /\ turns[n].at = "persistUser" /\ t.at = "persistAssistant"
              /\ e.role = "user" /\ e.said = turns[n].message
           \/ /\ turns[n].at = "persistAssistant" /\ t.at = "over"
              /\ e.role = "assistant" /\ e.said = turns[n].final
    PROVE  TypeInv' /\ TranscriptInv'
  <1>1. /\ turns' \in Seq(TurnType) /\ DOMAIN turns' = DOMAIN turns /\ turns'[n] = t
        /\ \A m \in DOMAIN turns : m # n => turns'[m] = turns[m]
        /\ \A m \in DOMAIN turns : m \in Nat
    BY TurnReplaced DEF TypeInv
  <1>2. history \in Seq(EntryType) /\ Len(history) \in Nat
    BY DEF TypeInv
  <1>3. /\ history' \in Seq(EntryType) /\ DOMAIN history' = 1..(Len(history) + 1)
        /\ history'[Len(history) + 1] = e /\ DOMAIN history = 1..Len(history)
        /\ \A i \in 1..Len(history) : history'[i] = history[i]
    BY <1>2
  <1>4. t.final = turns[n].final /\ t.message = turns[n].message /\ t.during = turns[n].during
        /\ turns[n].final.cites # "fabricated"
    BY DEF Becomes, TranscriptInv, Clean, Writing
  <1>5. TypeInv'
    BY <1>1, <1>3 DEF TypeInv
  <1>6. Clean' /\ Overlaps'
    BY TurnsKeep
  <1>7. \A i \in DOMAIN history : history[i].turn = n =>
          turns[n].at = "persistAssistant" /\ history[i].role = "user"
    <2> SUFFICES ASSUME NEW i \in DOMAIN history, history[i].turn = n
                 PROVE  turns[n].at = "persistAssistant" /\ history[i].role = "user"
      OBVIOUS
    <2>1. turns[n].at \in {"persistAssistant", "over"}
      BY DEF TranscriptInv, Tells
    <2>2. turns[n].at = "persistAssistant"
      BY <2>1
    <2> QED
      BY <2>2 DEF TranscriptInv, Halfway
  <1>8. (\A i \in DOMAIN history : Tells(history[i]))'
    <2> SUFFICES ASSUME NEW i \in 1..(Len(history) + 1) PROVE Tells(history[i])'
      BY <1>3
    <2>1. CASE i = Len(history) + 1
      BY <2>1, <1>1, <1>3, <1>4 DEF Tells
    <2>2. CASE i \in 1..Len(history)
      <3>1. Tells(history[i]) /\ history'[i] = history[i]
        BY <2>2, <1>3 DEF TranscriptInv
      <3>2. CASE history[i].turn = n
        BY <3>1, <3>2, <2>2, <1>1, <1>3, <1>4, <1>7 DEF Tells
      <3>3. CASE history[i].turn # n
        BY <3>1, <3>3, <1>1 DEF Tells
      <3> QED
        BY <3>2, <3>3
    <2> QED
      BY <1>2, <2>1, <2>2
  <1>9. (\A p \in Pages : \A i \in DOMAIN thread[p] : Shows(thread[p][i]))'
    <2> SUFFICES ASSUME NEW p \in Pages, NEW i \in DOMAIN thread[p] PROVE Shows(thread[p][i])'
      OBVIOUS
    <2>1. Shows(thread[p][i])
      BY DEF TranscriptInv
    <2>2. t.at \in {"over"} \cup Writing
      BY DEF Writing
    <2> QED
      BY <1>1, <1>4, <2>1, <2>2 DEF Shows
  <1>10. Ordered'
    <2>1. \A m \in DOMAIN turns : turns'[m].during = turns[m].during
      BY <1>1, <1>4
    <2>2. \A j \in DOMAIN history : history[j].turn \in DOMAIN turns
      BY DEF TranscriptInv, Tells
    <2>3. ASSUME NEW i \in 1..Len(history)
          PROVE  (/\ history[i].role = "assistant" => \E j \in 1..(i - 1) : history[j].turn = history[i].turn
                  /\ \A j \in 1..(i - 1) : Behind(history[j], history[i]))'
      <3>1. /\ history[i].role = "assistant" => \E j \in 1..(i - 1) : history[j].turn = history[i].turn
            /\ \A j \in 1..(i - 1) : Behind(history[j], history[i])
        BY <1>3 DEF TranscriptInv, Ordered
      <3>2. history'[i] = history[i] /\ \A j \in 1..(i - 1) :
              j \in DOMAIN history /\ history'[j] = history[j]
        BY <1>2, <1>3
      <3>3. \A j \in 1..(i - 1) : Behind(history[j], history[i])'
        BY <1>3, <2>1, <2>2, <3>1, <3>2 DEF Behind
      <3> QED
        BY <3>1, <3>2, <3>3
    <2>4. e.role = "assistant" => \E j \in DOMAIN history : history[j].turn = e.turn
      BY DEF TranscriptInv, Halfway
    <2>5. ASSUME NEW j \in DOMAIN history
          PROVE  /\ history[j].turn = n => history[j].role = "user" /\ e.role = "assistant"
                 /\ history[j].turn > n => n \in turns'[history[j].turn].during
      <3>1. history[j].turn = n => history[j].role = "user" /\ e.role = "assistant"
        BY <1>7
      <3>2. history[j].turn > n => n \in turns[history[j].turn].during
        BY <2>2, <1>1 DEF TranscriptInv, Overlaps, Becomes
      <3> QED
        BY <2>1, <2>2, <3>1, <3>2
    <2>6. (/\ history[Len(history)].role = "assistant" =>
                \E j \in 1..(Len(history) - 1) : history[j].turn = history[Len(history)].turn
           /\ \A j \in 1..(Len(history) - 1) : Behind(history[j], history[Len(history)]))'
      <3>1. Len(history') = Len(history) + 1 /\ history'[Len(history')] = e
            /\ 1..(Len(history') - 1) = DOMAIN history
        BY <1>2, <1>3
      <3> QED
        BY <1>3, <2>4, <2>5, <3>1 DEF Behind
    <2>7. Len(history') = Len(history) + 1
      BY <1>3
    <2> QED
      BY <1>2, <1>3, <2>3, <2>6, <2>7 DEF Ordered
  <1>11. Halfway'
    <2> SUFFICES ASSUME NEW m \in DOMAIN turns, turns'[m].at = "persistAssistant"
                 PROVE  /\ \E i \in DOMAIN history' : history'[i].turn = m
                        /\ \A i \in DOMAIN history' : history'[i].turn = m => history'[i].role = "user"
      BY <1>1 DEF Halfway
    <2>1. CASE m = n
      <3>1. e.role = "user" /\ turns[n].at = "persistUser"
        BY <2>1, <1>1
      <3>2. Len(history) + 1 \in DOMAIN history' /\ history'[Len(history) + 1].turn = m
        BY <2>1, <1>2, <1>3
      <3>3. \A i \in DOMAIN history' : history'[i].turn = m => history'[i].role = "user"
        BY <2>1, <3>1, <1>2, <1>3, <1>7
      <3> QED
        BY <3>2, <3>3
    <2>2. CASE m # n
      <3>1. turns[m].at = "persistAssistant"
        BY <2>2, <1>1
      <3>2. PICK i \in DOMAIN history : history[i].turn = m
        BY <3>1 DEF TranscriptInv, Halfway
      <3>3. i \in DOMAIN history' /\ history'[i].turn = m
        BY <3>2, <1>2, <1>3
      <3>4. \A j \in DOMAIN history' : history'[j].turn = m => history'[j].role = "user"
        BY <2>2, <3>1, <1>2, <1>3 DEF TranscriptInv, Halfway
      <3> QED
        BY <3>3, <3>4
    <2> QED
      BY <2>1, <2>2
  <1> QED
    BY <1>5, <1>6, <1>8, <1>9, <1>10, <1>11 DEF TranscriptInv

LEMMA WritesKeep ==
    ASSUME TypeInv, TranscriptInv, NEW n \in DOMAIN turns,
           WriteUserMessage(n) \/ WriteAssistantMessage(n)
    PROVE  TypeInv' /\ TranscriptInv'
  <1>1. turns[n] \in TurnType /\ n \in Nat
    BY DEF TypeInv
  <1>2. /\ Over(turns[n]) \in TurnType /\ Over(turns[n]).at = "over"
        /\ Over(turns[n]).message = turns[n].message /\ Over(turns[n]).during = turns[n].during
        /\ Over(turns[n]).final = turns[n].final
    BY <1>1, OverFields
  <1>3. turns[n].at # "over" => Becomes(n, Over(turns[n]))
    BY <1>2 DEF Becomes, Writing
  <1>4. ASSUME turns' = [turns EXCEPT ![n] = Over(turns[n])], turns[n].at \in Writing,
               UNCHANGED <<thread, history>>
        PROVE  TypeInv' /\ TranscriptInv'
    BY <1>2, <1>3, <1>4, SilentStepKeeps DEF Writing
  <1>5. CASE /\ turns[n].at = "persistUser" /\ thread' = thread
             /\ history' = Append(history, Entry(n, "user", turns[n].message))
             /\ turns' = [turns EXCEPT ![n].at = "persistAssistant"]
    <2> DEFINE t == [turns[n] EXCEPT !.at = "persistAssistant"]
               e == Entry(n, "user", turns[n].message)
    <2>1. t \in TurnType /\ t.at = "persistAssistant" /\ t.message = turns[n].message
          /\ t.during = turns[n].during /\ t.final = turns[n].final
      BY <1>1 DEF TurnType, Stages, Writing
    <2>2. turns' = [turns EXCEPT ![n] = t]
      BY <1>5
    <2>3. turns[n].final.cites # "fabricated"
      BY <1>5 DEF TranscriptInv, Clean, Writing
    <2> HIDE DEF t
    <2>4. Becomes(n, t)
      BY <1>5, <2>1, <2>3 DEF Becomes
    <2>5. turns[n].message \in Messages
      BY <1>1 DEF TurnType
    <2>6. e \in EntryType /\ e.turn = n /\ e.role = "user" /\ e.said = turns[n].message
      BY <1>1, <2>5, EntryFields
    <2> HIDE DEF e
    <2>7. history' = Append(history, e) /\ thread' = thread /\ turns[n].at = "persistUser"
      BY <1>5 DEF e
    <2> QED
      BY <2>1, <2>2, <2>4, <2>6, <2>7, WriteKeeps, Zenon
  <1>6. CASE /\ turns[n].at = "persistAssistant" /\ thread' = thread
             /\ history' = Append(history, Entry(n, "assistant", turns[n].final))
             /\ turns' = [turns EXCEPT ![n] = Over(turns[n])]
    <2> DEFINE e == Entry(n, "assistant", turns[n].final)
    <2>1. turns[n].final \in TextShapes
      BY <1>1 DEF TurnType
    <2>2. e \in EntryType /\ e.turn = n /\ e.role = "assistant" /\ e.said = turns[n].final
      BY <1>1, <2>1, EntryFields
    <2> HIDE DEF e
    <2>3. history' = Append(history, e)
      BY <1>6 DEF e
    <2> QED
      BY <1>2, <1>3, <1>6, <2>2, <2>3, WriteKeeps
  <1>7. CASE WriteUserMessage(n)
    BY <1>4, <1>5, <1>7 DEF WriteUserMessage, Writing
  <1>8. CASE WriteAssistantMessage(n)
    BY <1>4, <1>6, <1>8 DEF WriteAssistantMessage, Record, Writing
  <1> QED
    BY <1>7, <1>8

\* A page is loaded again from the transcript, and its turns go on unheard.
LEMMA ReloadKeeps ==
    ASSUME TypeInv, TranscriptInv, NEW p \in Pages, Reload(p)
    PROVE  TypeInv' /\ TranscriptInv'
  <1>1. /\ history \in Seq(EntryType) /\ RestoreLimit \in Nat /\ turns \in Seq(TurnType)
        /\ thread \in [Pages -> Seq(EntryType)]
        /\ thread' = [thread EXCEPT ![p] = NewestOf(history, RestoreLimit)] /\ history' = history
    BY RepliesAssumption DEF TypeInv, Reload
  <1>2. /\ NewestOf(history, RestoreLimit) \in Seq(EntryType)
        /\ \A i \in DOMAIN NewestOf(history, RestoreLimit) :
             \E j \in DOMAIN history : NewestOf(history, RestoreLimit)[i] = history[j]
    BY <1>1, NewestAreElements, Zenon
  <1> DEFINE restored == NewestOf(history, RestoreLimit)
  <1> HIDE DEF restored
  <1>3. /\ thread' \in [Pages -> Seq(EntryType)]
        /\ \A q \in Pages : \A i \in DOMAIN thread'[q] :
             \/ i \in DOMAIN thread[q] /\ thread'[q][i] = thread[q][i]
             \/ \E j \in DOMAIN history : thread'[q][i] = history[j]
    <2>1. restored \in Seq(EntryType) /\ thread' = [thread EXCEPT ![p] = restored]
          /\ \A i \in DOMAIN restored : \E j \in DOMAIN history : restored[i] = history[j]
      BY <1>1, <1>2 DEF restored
    <2> QED
      BY <1>1, <2>1
  <1>4. /\ DOMAIN turns' = DOMAIN turns
        /\ turns' = [n \in DOMAIN turns |->
                IF turns[n].page = p THEN [turns[n] EXCEPT !.shown = FALSE] ELSE turns[n]]
    BY DEF Reload
  <1>5. ASSUME NEW n \in DOMAIN turns
        PROVE  /\ turns'[n] \in TurnType /\ turns'[n].at = turns[n].at
               /\ turns'[n].final = turns[n].final /\ turns'[n].message = turns[n].message
               /\ turns'[n].during = turns[n].during
    <2>1. turns[n] \in TurnType
      BY <1>1
    <2> DEFINE deaf == [turns[n] EXCEPT !.shown = FALSE]
    <2>2. deaf \in TurnType /\ deaf.at = turns[n].at /\ deaf.final = turns[n].final
          /\ deaf.message = turns[n].message /\ deaf.during = turns[n].during
      BY <2>1 DEF TurnType
    <2>3. turns'[n] = deaf \/ turns'[n] = turns[n]
      BY <1>4
    <2> HIDE DEF deaf
    <2> QED
      BY <2>1, <2>2, <2>3
  <1>6. turns' \in Seq(TurnType)
    <2>1. Len(turns) \in Nat /\ DOMAIN turns = 1..Len(turns)
      BY <1>1
    <2>2. turns' = [n \in 1..Len(turns) |-> turns'[n]]
      BY <1>4, <2>1
    <2> QED
      BY <1>5, <2>1, <2>2
  <1>7. TypeInv'
    BY <1>1, <1>3, <1>6 DEF TypeInv
  <1>8. Clean' /\ Overlaps'
    BY <1>4, <1>5 DEF TranscriptInv, Clean, Overlaps
  <1>9. (\A i \in DOMAIN history : Tells(history[i]))'
    BY <1>1, <1>4, <1>5 DEF TranscriptInv, Tells
  <1>10. (\A q \in Pages : \A i \in DOMAIN thread[q] : Shows(thread[q][i]))'
    <2> SUFFICES ASSUME NEW q \in Pages, NEW i \in DOMAIN thread'[q] PROVE Shows(thread[q][i])'
      OBVIOUS
    <2>1. CASE i \in DOMAIN thread[q] /\ thread'[q][i] = thread[q][i]
      BY <2>1, <1>4, <1>5 DEF TranscriptInv, Shows
    <2>2. ASSUME NEW j \in DOMAIN history, thread'[q][i] = history[j]
          PROVE  Shows(thread[q][i])'
      BY <2>2, <1>4, <1>5 DEF TranscriptInv, Tells, Shows
    <2> QED
      BY <1>3, <2>1, <2>2
  <1>11. Ordered'
    <2>1. \A j \in DOMAIN history : history[j].turn \in DOMAIN turns
      BY DEF TranscriptInv, Tells
    <2>2. ASSUME NEW i \in DOMAIN history, NEW j \in 1..(i - 1)
          PROVE  Behind(history[j], history[i])'
      <3>1. j \in DOMAIN history
        BY <1>1
      <3>2. Behind(history[j], history[i])
        BY DEF TranscriptInv, Ordered
      <3> QED
        BY <1>1, <1>5, <2>1, <3>1, <3>2 DEF Behind
    <2> QED
      BY <1>1, <2>2 DEF TranscriptInv, Ordered
  <1>12. Halfway'
    BY <1>1, <1>4, <1>5 DEF TranscriptInv, Halfway
  <1> QED
    BY <1>7, <1>8, <1>9, <1>10, <1>11, <1>12 DEF TranscriptInv

LEMMA TranscriptNext == TypeInv /\ TranscriptInv /\ [ReplyNext]_replyVars => TypeInv' /\ TranscriptInv'
  <1> SUFFICES ASSUME TypeInv, TranscriptInv, [ReplyNext]_replyVars
               PROVE  TypeInv' /\ TranscriptInv'
    OBVIOUS
  <1>1. ASSUME NEW p \in Pages, NEW m \in Messages, SendMessage(p, m)
        PROVE  TypeInv' /\ TranscriptInv'
    BY <1>1, SentKeeps
  <1>2. ASSUME NEW n \in DOMAIN turns, TurnStep(n)
        PROVE  TypeInv' /\ TranscriptInv'
    <2>1. CASE GateLetsPass(n) \/ (\E r \in Replies, tools \in ToolSets : AgentAnswers(n, r, tools)) \/ Offers(n)
      BY <2>1, AgentKeeps
    <2>2. CASE Clarify(n) \/ AgentFails(n) \/ Done(n)
      BY <2>2, AnswersKeep
    <2>3. CASE WriteUserMessage(n) \/ WriteAssistantMessage(n)
      BY <2>3, WritesKeep
    <2> QED
      BY <1>2, <2>1, <2>2, <2>3, Zenon DEF TurnStep
  <1>3. ASSUME NEW p \in Pages, Reload(p)
        PROVE  TypeInv' /\ TranscriptInv'
    BY <1>3, ReloadKeeps
  <1>4. CASE UNCHANGED replyVars
    <2>1. thread' = thread /\ history' = history /\ turns' = turns
      BY <1>4 DEF replyVars
    <2> QED
      BY <2>1 DEF TypeInv, TranscriptInv, Clean, Overlaps, Tells, Shows, Ordered, Behind, Halfway
  <1> QED
    BY <1>1, <1>2, <1>3, <1>4, Zenon DEF ReplyNext

LEMMA TranscriptImplies == TranscriptInv => TranscriptIsWhatWasShown
  BY DEF TranscriptInv, Tells, Shows, Ordered, Behind, TranscriptIsWhatWasShown

-----------------------------------------------------------------------------
\* The variables keep their types, for any messages, replies and windows, and
\* any number of pages. (route.ts builds the events, the transcript and the
\* history of a turn from the same values.)
THEOREM TypeCorrect == ReplySpec => []TypeInv
  BY TypeInit, TranscriptInit, TranscriptNext, PTL DEF ReplySpec

\* The transcript a student comes back to is what the student was told, for
\* any number of pages, turns at a time and reloads, whichever of the two
\* appends of a turn fails: an answer is the final text of its turn, without a
\* fabricated citation, behind its own message; and turns whose entries are
\* not in the order they were sent were under way together, which is all the
\* order that appends of concurrent turns leave (src/apps/web/app/api/chat/v2/route.ts).
THEOREM TranscriptShown == ReplySpec => []TranscriptIsWhatWasShown
  BY TypeInit, TranscriptInit, TranscriptNext, TranscriptImplies, PTL DEF ReplySpec
-----------------------------------------------------------------------------
(* The profile: what is stored, and what a turn knows of it.               *)

TurnFields == {"at", "body", "student", "persisted", "staged", "asks", "knows"}
IsTurn(T) == T = [x \in TurnFields |-> T[x]]

Sent(body) == (IF body.home = Absent THEN {} ELSE {"homeSchool"})
                \union (IF body.visa \in VisaStatuses THEN {"visaStatus"} ELSE {})

\* The copy of a turn that knows what is stored differs from it in what the
\* request sent only; until the agent changes it and the store refuses.
KnowsIt(T) ==
  T.knows # NoProfile /\ ~(T.at = "agent" /\ Refused(T.body.report)) =>
    \A f \in ProfileFields \ Sent(T.body) : T.student[f] = T.knows[f]

TurnInv(T) ==
  /\ IsTurn(T)
  /\ T.at # "idle" => IsProfile(T.student) /\ T.student.declaredPrograms # Absent
  /\ T.at \in {"readBack", "bootstrap", "bootstrapWrite", "home"} =>
       LET home == ValidatedHomeSchool(T.body) IN home # Absent => T.student.homeSchool = home
  /\ KnowsIt(T)
  /\ \A a \in T.staged : a.field \in ProfileFields /\ (a.field = "declaredPrograms" => a.value # Absent)

RefreshInv ==
  refresh.at = "write" =>
    /\ refresh.read # NoProfile => refresh.profile = refresh.read
    /\ IsProfile(refresh.profile) /\ refresh.profile.declaredPrograms # Absent

ProfileInv ==
  /\ StoredByUs(row)
  /\ DOMAIN chat = Chats /\ \A t \in Chats : TurnInv(chat[t])
  /\ RefreshInv

\* What ChangesAreAudited says of a step.
Audited ==
  /\ row.profile # NoProfile /\ row'.profile # NoProfile /\ entry' # entry =>
          /\ entry'.field \in ProfileFields => row'.profile[entry'.field] = entry'.after
          /\ \A t \in Chats : entry'.by = t /\ UpToDate(t) =>
               \A f \in ProfileFields \ ({entry'.field} \union SentItself(t)) :
                 row'.profile[f] = row.profile[f]
          /\ entry'.by = Refresher /\ refresh.read = row.profile => row'.profile = row.profile
  /\ row'.report # NoReport => row'.report.kind = "dpr"

Outcome == ProfileInv' /\ (Audited \/ UNCHANGED profileVars)

LEMMA SentIsSent == \A t : SentItself(t) = Sent(chat[t].body)
  BY DEF SentItself, Sent

LEMMA NoProfileIs == IsProfile(NoProfile) /\ NoProfile.declaredPrograms = Absent
  BY DEF IsProfile, NoProfile

LEMMA NoTurnKeeps == TurnInv(NoTurn)
  <1>1. NoTurn.at = "idle" /\ NoTurn.staged = {} /\ NoTurn.knows = NoProfile /\ IsTurn(NoTurn)
    BY DEF NoTurn, IsTurn, TurnFields
  <1> QED
    BY <1>1 DEF TurnInv, KnowsIt

LEMMA ProfileBegins == ProfileInit => ProfileInv
  <1> SUFFICES ASSUME ProfileInit PROVE ProfileInv
    OBVIOUS
  <1>1. StoredByUs(row)
    BY ProfileAssumption DEF ProfileInit
  <1>2. DOMAIN chat = Chats /\ \A t \in Chats : TurnInv(chat[t])
    BY NoTurnKeeps DEF ProfileInit
  <1>3. RefreshInv
    BY DEF ProfileInit, RefreshInv, NoRefresh
  <1> QED
    BY <1>1, <1>2, <1>3 DEF ProfileInv

-----------------------------------------------------------------------------
(* A step of one turn.                                                     *)

\* One turn goes on and nothing is stored.
LEMMA GoesKeeps ==
    ASSUME ProfileInv, NEW t \in Chats, NEW rest, TurnInv(rest), Goes(t, rest), refresh' = refresh
    PROVE  Outcome
  <1>1. chat' = [chat EXCEPT ![t] = rest] /\ row' = row /\ entry' = entry
    BY DEF Goes
  <1>2. DOMAIN chat' = Chats /\ \A u \in Chats : TurnInv(chat'[u])
    BY <1>1 DEF ProfileInv
  <1>3. StoredByUs(row)' /\ RefreshInv'
    BY <1>1 DEF ProfileInv, StoredByUs, RefreshInv
  <1>4. Audited
    BY <1>1 DEF Audited, ProfileInv, StoredByUs
  <1> QED
    BY <1>2, <1>3, <1>4 DEF Outcome, ProfileInv

\* One turn stores its profile, or fails to.
LEMMA StoreKeeps ==
    ASSUME ProfileInv, NEW t \in Chats, NEW profile1, NEW field \in ProfileFields, NEW after, NEW rep, NEW rest,
           Stores(t, profile1, field, after, rep, rest), refresh' = refresh,
           IsProfile(profile1), profile1.declaredPrograms # Absent, profile1[field] = after,
           ~Refused(rep) => TurnInv([rest EXCEPT !.knows = profile1]),
           ~Refused(rep) => TurnInv([rest EXCEPT !.knows = NoProfile]),
           Refused(rep) => TurnInv([rest EXCEPT !.knows = rest.knows]),
           ~Refused(rep) /\ chat[t].knows # NoProfile =>
             \A f \in ProfileFields \ ({field} \union Sent(chat[t].body)) : profile1[f] = chat[t].knows[f]
    PROVE  Outcome
  <1>1. CASE /\ PersistMutation(profile1, field, after, rep, t)
             /\ chat' = [chat EXCEPT ![t] = [rest EXCEPT !.knows = profile1]]
    <2>1. /\ rep # NoReport => rep.kind = "dpr"
          /\ row'.profile = profile1 /\ row'.report = IF rep = NoReport THEN row.report ELSE rep
          /\ entry'.field = field /\ entry'.after = after /\ entry'.by = t
      BY <1>1 DEF PersistMutation
    <2>2. ~Refused(rep)
      BY <2>1 DEF Refused
    <2>3. DOMAIN chat' = Chats /\ \A u \in Chats : TurnInv(chat'[u])
      BY <1>1, <2>2 DEF ProfileInv
    <2>4. StoredByUs(row)' /\ RefreshInv'
      BY <2>1 DEF ProfileInv, StoredByUs, RefreshInv
    <2>5. t # Refresher
      BY ProfileAssumption
    <2>6. Audited
      BY <2>1, <2>2, <2>4, <2>5, SentIsSent DEF Audited, UpToDate, StoredByUs
    <2> QED
      BY <2>3, <2>4, <2>6 DEF Outcome, ProfileInv
  <1>2. CASE /\ UNCHANGED <<row, entry>>
             /\ chat' = [chat EXCEPT ![t] = [rest EXCEPT !.knows = IF Refused(rep) THEN rest.knows ELSE NoProfile]]
    <2>1. PICK rest1 : TurnInv(rest1) /\ chat' = [chat EXCEPT ![t] = rest1]
      BY <1>2
    <2>2. Goes(t, rest1)
      BY <1>2, <2>1 DEF Goes
    <2> QED
      BY <2>1, <2>2, GoesKeeps
  <1> QED
    BY <1>1, <1>2 DEF Stores

\* A profile that is built has its programs, and the school of the request.
LEMMA BuiltProfile ==
    ASSUME NEW rep, NEW visa, NEW home
    PROVE  /\ IsProfile(BuildStudentProfile(rep, visa, home))
           /\ BuildStudentProfile(rep, visa, home).declaredPrograms # Absent
           /\ home # Absent => BuildStudentProfile(rep, visa, home).homeSchool = home
  BY DEF BuildStudentProfile, DeriveDeclaredPrograms, IsProfile, Absent

\* A merged profile is the stored one but for what the request sent.
LEMMA MergedProfile ==
    ASSUME NEW student, NEW stored, NEW body, IsProfile(stored), stored.declaredPrograms # Absent
    PROVE  /\ IsProfile(Merged(student, stored, body))
           /\ Merged(student, stored, body).declaredPrograms # Absent
           /\ body.home # Absent => Merged(student, stored, body).homeSchool = student.homeSchool
           /\ \A f \in ProfileFields \ Sent(body) : Merged(student, stored, body)[f] = stored[f]
  <1> DEFINE m == Merged(student, stored, body)
  <1>1. /\ IsProfile(m) /\ m.declaredPrograms = stored.declaredPrograms
        /\ body.home # Absent => m.homeSchool = student.homeSchool
        /\ body.home = Absent => m.homeSchool = stored.homeSchool
        /\ body.visa \notin VisaStatuses => m.visaStatus = stored.visaStatus
    BY DEF Merged, IsProfile
  <1> HIDE DEF m
  <1>2. \A f \in ProfileFields \ Sent(body) : m[f] = stored[f]
    BY <1>1 DEF ProfileFields, Sent
  <1> QED
    BY <1>1, <1>2 DEF m

LEMMA ValidatedSchoolSent ==
    ASSUME NEW body, ValidatedHomeSchool(body) # Absent
    PROVE  body.home # Absent /\ ValidatedHomeSchool(body) = body.home
  BY DEF ValidatedHomeSchool

LEMMA TurnStartsKeeps ==
    ASSUME ProfileInv, NEW t \in Chats, NEW body, TurnStarts(t, body)
    PROVE  Outcome
  <1> DEFINE student == BuildStudentProfile(body.report, body.visa, ValidatedHomeSchool(body))
             rest == [NoTurn EXCEPT !.at = "readBack", !.body = body, !.student = student]
  <1>1. IsProfile(student) /\ student.declaredPrograms # Absent
        /\ (ValidatedHomeSchool(body) # Absent => student.homeSchool = ValidatedHomeSchool(body))
    BY BuiltProfile
  <1>2. Goes(t, rest) /\ refresh' = refresh
    BY DEF TurnStarts
  <1> HIDE DEF student
  <1>3. /\ IsTurn(rest) /\ rest.at = "readBack" /\ rest.body = body /\ rest.student = student
        /\ rest.staged = {} /\ rest.knows = NoProfile
    BY DEF NoTurn, IsTurn, TurnFields
  <1> HIDE DEF rest
  <1>4. TurnInv(rest)
    BY <1>1, <1>3 DEF TurnInv, KnowsIt
  <1> QED
    BY <1>2, <1>4, GoesKeeps

LEMMA ReadBackKeeps ==
    ASSUME ProfileInv, NEW t \in Chats, ReadBack(t)
    PROVE  Outcome
  <1> DEFINE T == chat[t]
             student == IF row.profile = NoProfile THEN T.student ELSE Merged(T.student, row.profile, T.body)
             read == [T EXCEPT !.at = "bootstrap", !.persisted = row.profile, !.knows = row.profile,
                               !.student = student]
             unread == [T EXCEPT !.at = "bootstrap"]
  <1>1. T.at = "readBack" /\ refresh' = refresh /\ (Goes(t, read) \/ Goes(t, unread))
    BY DEF ReadBack
  <1>2. TurnInv(T) /\ StoredByUs(row)
    BY DEF ProfileInv
  <1>3. /\ IsProfile(student) /\ student.declaredPrograms # Absent
        /\ ValidatedHomeSchool(T.body) # Absent => student.homeSchool = ValidatedHomeSchool(T.body)
        /\ row.profile # NoProfile => \A f \in ProfileFields \ Sent(T.body) : student[f] = row.profile[f]
    <2>1. CASE row.profile = NoProfile
      BY <1>1, <1>2, <2>1 DEF TurnInv
    <2>2. CASE row.profile # NoProfile
      <3> DEFINE m == Merged(T.student, row.profile, T.body)
      <3>1. /\ IsProfile(m) /\ m.declaredPrograms # Absent
            /\ T.body.home # Absent => m.homeSchool = T.student.homeSchool
            /\ \A f \in ProfileFields \ Sent(T.body) : m[f] = row.profile[f]
        BY <1>2, <2>2, MergedProfile DEF StoredByUs
      <3>2. student = m
        BY <2>2
      <3> HIDE DEF m, student
      <3> QED
        BY <1>1, <1>2, <3>1, <3>2, ValidatedSchoolSent DEF TurnInv
    <2> QED
      BY <2>1, <2>2
  <1> HIDE DEF student
  <1>4. IsTurn(T)
    BY <1>2 DEF TurnInv
  <1>5. /\ IsTurn(read) /\ read.at = "bootstrap" /\ read.body = T.body /\ read.student = student
        /\ read.staged = T.staged /\ read.knows = row.profile
    BY <1>4 DEF IsTurn, TurnFields
  <1>6. /\ IsTurn(unread) /\ unread.at = "bootstrap" /\ unread.body = T.body /\ unread.student = T.student
        /\ unread.staged = T.staged /\ unread.knows = T.knows
    BY <1>4 DEF IsTurn, TurnFields
  <1> HIDE DEF T, read, unread
  <1>7. TurnInv(read)
    BY <1>2, <1>3, <1>5 DEF TurnInv, KnowsIt
  <1>8. TurnInv(unread)
    BY <1>1, <1>2, <1>6 DEF TurnInv, KnowsIt
  <1> QED
    BY <1>1, <1>7, <1>8, GoesKeeps

\* A turn that goes on to a later step with the same profile.
LEMMA LaterKeeps ==
    ASSUME NEW T, TurnInv(T), T.at \in {"bootstrap", "bootstrapWrite", "home", "visa"},
           NEW at \in {"bootstrapWrite", "home", "visa", "agent"}, at = "home" => T.at # "visa",
           at = "bootstrapWrite" => T.at = "bootstrap"
    PROVE  /\ TurnInv([T EXCEPT !.at = at])
           /\ TurnInv([[T EXCEPT !.at = at] EXCEPT !.knows = NoProfile])
           /\ TurnInv([[T EXCEPT !.at = at] EXCEPT !.knows = T.student])
           /\ [[T EXCEPT !.at = at] EXCEPT !.knows = [T EXCEPT !.at = at].knows] = [T EXCEPT !.at = at]
  <1> DEFINE R(k) == [[T EXCEPT !.at = at] EXCEPT !.knows = k]
             rest == [T EXCEPT !.at = at]
  <1>1. IsTurn(T)
    BY DEF TurnInv
  <1>2. /\ IsTurn(rest) /\ rest.at = at /\ rest.body = T.body /\ rest.student = T.student
        /\ rest.staged = T.staged /\ rest.knows = T.knows
        /\ [rest EXCEPT !.knows = rest.knows] = rest
    BY <1>1 DEF IsTurn, TurnFields
  <1>3. ASSUME NEW k
        PROVE  /\ IsTurn(R(k)) /\ R(k).at = at /\ R(k).body = T.body /\ R(k).student = T.student
               /\ R(k).staged = T.staged /\ R(k).knows = k
    BY <1>1 DEF IsTurn, TurnFields
  <1> HIDE DEF R, rest
  <1>4. \A k : k = NoProfile \/ k = T.student => TurnInv(R(k))
    BY <1>3 DEF TurnInv, KnowsIt
  <1>5. TurnInv(rest)
    BY <1>2 DEF TurnInv, KnowsIt
  <1> QED
    BY <1>2, <1>4, <1>5 DEF R, rest

LEMMA BootstrapReadsKeeps ==
    ASSUME ProfileInv, NEW t \in Chats, BootstrapReads(t)
    PROVE  Outcome
  <1> DEFINE T == chat[t]
  <1>1. TurnInv(T) /\ T.at = "bootstrap" /\ refresh' = refresh
    BY DEF ProfileInv, BootstrapReads
  <1>2. PICK at \in {"bootstrapWrite", "home"} : Goes(t, [T EXCEPT !.at = at])
    BY SMTT(30) DEF BootstrapReads
  <1> HIDE DEF T
  <1>3. TurnInv([T EXCEPT !.at = at])
    BY <1>1, LaterKeeps
  <1> QED
    BY <1>1, <1>2, <1>3, GoesKeeps

LEMMA BootstrapWritesKeeps ==
    ASSUME ProfileInv, NEW t \in Chats, BootstrapWrites(t)
    PROVE  Outcome
  <1> DEFINE T == chat[t]
             rest == [T EXCEPT !.at = "home"]
  <1>1. /\ TurnInv(T) /\ T.at = "bootstrapWrite" /\ refresh' = refresh
        /\ Stores(t, T.student, "homeSchool", T.student.homeSchool, T.body.report, rest)
    BY DEF ProfileInv, BootstrapWrites
  <1>2. /\ TurnInv([rest EXCEPT !.knows = NoProfile]) /\ TurnInv([rest EXCEPT !.knows = T.student])
        /\ TurnInv([rest EXCEPT !.knows = rest.knows])
    BY <1>1, LaterKeeps
  <1>3. IsProfile(T.student) /\ T.student.declaredPrograms # Absent /\ "homeSchool" \in ProfileFields
    BY <1>1 DEF TurnInv, ProfileFields
  <1>4. T.knows # NoProfile => \A f \in ProfileFields \ Sent(T.body) : T.student[f] = T.knows[f]
    BY <1>1 DEF TurnInv, KnowsIt
  <1> HIDE DEF rest
  <1> QED
    BY <1>1, <1>2, <1>3, <1>4, StoreKeeps, SMTT(30)

LEMMA PersistHomeKeeps ==
    ASSUME ProfileInv, NEW t \in Chats, PersistHomeChange(t)
    PROVE  Outcome
  <1> DEFINE T == chat[t]
             home == ValidatedHomeSchool(T.body)
             rest == [T EXCEPT !.at = "visa"]
  <1>1. /\ TurnInv(T) /\ T.at = "home" /\ refresh' = refresh
        /\ \/ home # Absent /\ Stores(t, T.student, "homeSchool", home, NoReport, rest)
           \/ Goes(t, rest)
    BY SMTT(30) DEF ProfileInv, PersistHomeChange
  <1>2. /\ TurnInv([rest EXCEPT !.knows = NoProfile]) /\ TurnInv([rest EXCEPT !.knows = T.student])
        /\ TurnInv(rest)
    BY <1>1, LaterKeeps
  <1>3. IsProfile(T.student) /\ T.student.declaredPrograms # Absent /\ "homeSchool" \in ProfileFields
        /\ ~Refused(NoReport) /\ (home # Absent => T.student["homeSchool"] = home)
    BY <1>1 DEF TurnInv, ProfileFields, Refused
  <1>4. T.knows # NoProfile => \A f \in ProfileFields \ Sent(T.body) : T.student[f] = T.knows[f]
    BY <1>1 DEF TurnInv, KnowsIt
  <1> HIDE DEF rest, home
  <1>5. CASE Goes(t, rest)
    BY <1>1, <1>2, <1>5, GoesKeeps
  <1>6. CASE home # Absent /\ Stores(t, T.student, "homeSchool", home, NoReport, rest)
    BY <1>1, <1>2, <1>3, <1>4, <1>6, StoreKeeps
  <1> QED
    BY <1>1, <1>5, <1>6

\* A turn that goes on to the agent, or stays with it, with one field changed
\* and perhaps a preview less.
LEMMA ChangedKeeps ==
    ASSUME NEW T, TurnInv(T), T.at \in {"visa", "agent"}, NEW student, IsProfile(student),
           student.declaredPrograms # Absent, NEW staged \in SUBSET T.staged
    PROVE  LET rest == [T EXCEPT !.at = "agent", !.student = student, !.staged = staged]
           IN  /\ TurnInv([rest EXCEPT !.knows = NoProfile])
               /\ TurnInv([rest EXCEPT !.knows = student])
               /\ Refused(T.body.report) => TurnInv([rest EXCEPT !.knows = rest.knows])
  <1> DEFINE rest == [T EXCEPT !.at = "agent", !.student = student, !.staged = staged]
             R(k) == [rest EXCEPT !.knows = k]
  <1>1. IsTurn(T)
    BY DEF TurnInv
  <1>2. ASSUME NEW k
        PROVE  /\ IsTurn(R(k)) /\ R(k).at = "agent" /\ R(k).body = T.body /\ R(k).student = student
               /\ R(k).staged = staged /\ R(k).knows = k
    BY <1>1 DEF IsTurn, TurnFields
  <1> HIDE DEF R
  <1>3. \A k : k = NoProfile \/ k = student \/ Refused(T.body.report) => TurnInv(R(k))
    BY <1>2 DEF TurnInv, KnowsIt
  <1> QED
    BY <1>3 DEF R

LEMMA PersistVisaKeeps ==
    ASSUME ProfileInv, NEW t \in Chats, PersistVisaChange(t)
    PROVE  Outcome
  <1> DEFINE T == chat[t]
             visa == T.body.visa
             student == [T.student EXCEPT !.visaStatus = visa]
             rest == [T EXCEPT !.at = "agent", !.student = student]
  <1>1. /\ TurnInv(T) /\ T.at = "visa" /\ refresh' = refresh
        /\ \/ visa \in VisaStatuses /\ Stores(t, student, "visaStatus", visa, NoReport, rest)
           \/ Goes(t, [T EXCEPT !.at = "agent"])
    BY DEF ProfileInv, PersistVisaChange, ThreadVisa
  <1>2. IsTurn(T) /\ IsProfile(T.student) /\ T.student.declaredPrograms # Absent
    BY <1>1 DEF TurnInv
  <1>3. /\ IsProfile(student) /\ student.declaredPrograms # Absent /\ student["visaStatus"] = visa
        /\ \A f \in ProfileFields \ {"visaStatus"} : student[f] = T.student[f]
        /\ "visaStatus" \in ProfileFields /\ ~Refused(NoReport)
    BY <1>2 DEF IsProfile, ProfileFields, Refused
  <1> HIDE DEF student
  <1>4. rest = [T EXCEPT !.at = "agent", !.student = student, !.staged = T.staged]
    BY <1>2 DEF IsTurn, TurnFields
  <1>5. T.knows # NoProfile => \A f \in ProfileFields \ Sent(T.body) : T.student[f] = T.knows[f]
    BY <1>1 DEF TurnInv, KnowsIt
  <1>6. CASE Goes(t, [T EXCEPT !.at = "agent"])
    <2>1. TurnInv([T EXCEPT !.at = "agent"])
      BY <1>1, LaterKeeps
    <2> QED
      BY <1>1, <1>6, <2>1, GoesKeeps
  <1>7. CASE visa \in VisaStatuses /\ Stores(t, student, "visaStatus", visa, NoReport, rest)
    <2> HIDE DEF rest, visa
    <2> DEFINE staged == T.staged
    <2>1. staged \in SUBSET T.staged /\ T.at \in {"visa", "agent"}
      BY <1>1
    <2>2. rest = [T EXCEPT !.at = "agent", !.student = student, !.staged = staged]
      BY <1>4
    <2> HIDE DEF staged, T
    <2>3. TurnInv([rest EXCEPT !.knows = NoProfile]) /\ TurnInv([rest EXCEPT !.knows = student])
      BY <1>1, <1>3, <2>1, <2>2, ChangedKeeps
    <2> USE DEF T
    <2> QED
      BY <1>1, <1>3, <1>5, <1>7, <2>3, StoreKeeps
  <1> QED
    BY <1>1, <1>6, <1>7

LEMMA UpdateProfileKeeps ==
    ASSUME ProfileInv, NEW t \in Chats, NEW ask \in NewValues, UpdateProfile(t, ask)
    PROVE  Outcome
  <1> DEFINE T == chat[t]
             rest == [T EXCEPT !.staged = @ \union {ask}, !.asks = @ + 1]
  <1>1. /\ TurnInv(T) /\ T.at = "agent" /\ refresh' = refresh /\ Stageable(T.student, ask)
        /\ Goes(t, rest)
    BY DEF ProfileInv, UpdateProfile
  <1>2. IsTurn(T)
    BY <1>1 DEF TurnInv
  <1>3. /\ IsTurn(rest) /\ rest.at = "agent" /\ rest.body = T.body /\ rest.student = T.student
        /\ rest.staged = T.staged \union {ask} /\ rest.knows = T.knows
    BY <1>1, <1>2 DEF IsTurn, TurnFields
  <1> HIDE DEF rest, T
  <1>4. ask.field \in ProfileFields /\ (ask.field = "declaredPrograms" => ask.value # Absent)
    BY <1>1, ProfileAssumption DEF TurnInv, Stageable
  <1>5. TurnInv(rest)
    BY <1>1, <1>3, <1>4 DEF TurnInv, KnowsIt
  <1> QED
    BY <1>1, <1>5, GoesKeeps

LEMMA ConfirmProfileKeeps ==
    ASSUME ProfileInv, NEW t \in Chats, NEW ask \in NewValues, ConfirmProfileUpdate(t, ask)
    PROVE  Outcome
  <1> DEFINE T == chat[t]
             student == [T.student EXCEPT ![ask.field] = ask.value]
             rest == [T EXCEPT !.student = student, !.staged = @ \ {ask}]
  <1>1. /\ TurnInv(T) /\ T.at = "agent" /\ ask \in T.staged /\ refresh' = refresh
        /\ Stores(t, student, ask.field, ask.value, T.body.report, rest)
    BY DEF ProfileInv, ConfirmProfileUpdate
  <1>2. /\ IsTurn(T) /\ IsProfile(T.student) /\ T.student.declaredPrograms # Absent
        /\ ask.field \in ProfileFields /\ (ask.field = "declaredPrograms" => ask.value # Absent)
    BY <1>1 DEF TurnInv
  <1>3. /\ IsProfile(student) /\ student.declaredPrograms # Absent /\ student[ask.field] = ask.value
        /\ \A f \in ProfileFields \ {ask.field} : student[f] = T.student[f]
    BY <1>2 DEF IsProfile, ProfileFields
  <1> HIDE DEF student
  <1>4. rest = [T EXCEPT !.at = "agent", !.student = student, !.staged = T.staged \ {ask}]
    BY <1>1, <1>2 DEF IsTurn, TurnFields
  <1>5. T.knows # NoProfile /\ ~Refused(T.body.report) =>
          \A f \in ProfileFields \ Sent(T.body) : T.student[f] = T.knows[f]
    BY <1>1 DEF TurnInv, KnowsIt
  <1>6. /\ TurnInv([rest EXCEPT !.knows = NoProfile]) /\ TurnInv([rest EXCEPT !.knows = student])
        /\ Refused(T.body.report) => TurnInv([rest EXCEPT !.knows = rest.knows])
    BY <1>1, <1>3, <1>4, ChangedKeeps
  <1> HIDE DEF rest
  <1> QED
    BY <1>1, <1>2, <1>3, <1>5, <1>6, StoreKeeps

LEMMA TurnEndsKeeps ==
    ASSUME ProfileInv, NEW t \in Chats, TurnEnds(t)
    PROVE  Outcome
  BY NoTurnKeeps, GoesKeeps DEF TurnEnds

-----------------------------------------------------------------------------
(* The upload and the deletion.                                            *)

LEMMA RefreshReadsKeeps ==
    ASSUME ProfileInv, NEW rep, RefreshReads(rep)
    PROVE  Outcome
  <1>1. PICK read \in {row.profile, NoProfile} :
          refresh' = [at |-> "write", report |-> rep, read |-> read,
                      profile |-> IF read = NoProfile THEN BuildStudentProfile(rep, Absent, Absent) ELSE read]
    BY DEF RefreshReads
  <1>2. UNCHANGED <<row, entry, chat>>
    BY DEF RefreshReads
  <1>3. RefreshInv'
    BY <1>1, BuiltProfile DEF RefreshInv, ProfileInv, StoredByUs
  <1>4. ProfileInv'
    BY <1>2, <1>3 DEF ProfileInv, StoredByUs
  <1>5. Audited
    BY <1>2 DEF Audited, ProfileInv, StoredByUs
  <1> QED
    BY <1>4, <1>5 DEF Outcome

LEMMA RefreshWritesKeeps ==
    ASSUME ProfileInv, RefreshWrites
    PROVE  Outcome
  <1>1. refresh.at = "write" /\ refresh' = NoRefresh /\ chat' = chat
    BY DEF RefreshWrites
  <1>2. RefreshInv'
    BY <1>1 DEF RefreshInv, NoRefresh
  <1>3. CASE PersistMutation(refresh.profile, "dpr_refresh", Absent, refresh.report, Refresher)
    <2>1. /\ refresh.report # NoReport => refresh.report.kind = "dpr"
          /\ row'.profile = refresh.profile
          /\ row'.report = IF refresh.report = NoReport THEN row.report ELSE refresh.report
          /\ entry'.field = "dpr_refresh" /\ entry'.by = Refresher
      BY <1>3 DEF PersistMutation
    <2>2. ProfileInv'
      BY <1>1, <1>2, <2>1 DEF ProfileInv, StoredByUs, RefreshInv
    <2>3. Refresher \notin Chats /\ "dpr_refresh" \notin ProfileFields
      BY ProfileAssumption DEF ProfileFields
    <2>4. Audited
      BY <1>1, <2>1, <2>2, <2>3 DEF Audited, ProfileInv, StoredByUs, RefreshInv
    <2> QED
      BY <2>2, <2>4 DEF Outcome
  <1>4. CASE UNCHANGED <<row, entry>>
    <2>1. ProfileInv'
      BY <1>1, <1>2, <1>4 DEF ProfileInv, StoredByUs
    <2>2. Audited
      BY <1>4 DEF Audited, ProfileInv, StoredByUs
    <2> QED
      BY <2>1, <2>2 DEF Outcome
  <1> QED
    BY <1>3, <1>4 DEF RefreshWrites

LEMMA AccountGoneKeeps ==
    ASSUME ProfileInv, AccountGone
    PROVE  Outcome
  <1>1. row'.profile = NoProfile /\ row'.report = NoReport /\ UNCHANGED <<chat, refresh>>
    BY DEF AccountGone, NoRow
  <1>2. ProfileInv'
    BY <1>1 DEF ProfileInv, StoredByUs, RefreshInv
  <1> QED
    BY <1>1, <1>2 DEF Outcome, Audited

LEMMA ProfileSteps == ProfileInv /\ [ProfileNext]_profileVars => Outcome
  <1> SUFFICES ASSUME ProfileInv, [ProfileNext]_profileVars PROVE Outcome
    OBVIOUS
  <1>1. ASSUME NEW t \in Chats, NEW b \in Bodies, TurnStarts(t, b) PROVE Outcome
    BY <1>1, TurnStartsKeeps
  <1>2. ASSUME NEW t \in Chats, ReadBack(t) \/ BootstrapReads(t) \/ BootstrapWrites(t) PROVE Outcome
    BY <1>2, ReadBackKeeps, BootstrapReadsKeeps, BootstrapWritesKeeps
  <1>3. ASSUME NEW t \in Chats, PersistHomeChange(t) \/ PersistVisaChange(t) \/ TurnEnds(t) PROVE Outcome
    BY <1>3, PersistHomeKeeps, PersistVisaKeeps, TurnEndsKeeps
  <1>4. ASSUME NEW t \in Chats, NEW a \in NewValues, UpdateProfile(t, a) \/ ConfirmProfileUpdate(t, a)
        PROVE  Outcome
    BY <1>4, UpdateProfileKeeps, ConfirmProfileKeeps
  <1>5. CASE (\E r \in Uploads : RefreshReads(r)) \/ RefreshWrites \/ AccountGone
    BY <1>5, RefreshReadsKeeps, RefreshWritesKeeps, AccountGoneKeeps
  <1>6. CASE UNCHANGED profileVars
    BY <1>6 DEF Outcome, profileVars, ProfileInv, StoredByUs, RefreshInv
  <1> QED
    BY <1>1, <1>2, <1>3, <1>4, <1>5, <1>6 DEF ProfileNext

-----------------------------------------------------------------------------
\* What the route stores is a whole profile and a real report, and a turn that
\* knows what is stored differs from it in what its request sent only, for any
\* number of turns, uploads and deletions (persistMutation; route.ts).
THEOREM ProfileInvariant == ProfileSpec => []ProfileInv
  <1>1. ProfileInv /\ [ProfileNext]_profileVars => ProfileInv'
    BY ProfileSteps DEF Outcome
  <1> QED
    BY <1>1, ProfileBegins, PTL DEF ProfileSpec

\* A stored profile changes only as the audit log tells: the field of the
\* newest audit row has its value; a turn that knows what is stored changes
\* nothing else but what its request sent, a refresh nothing of a profile it
\* could read; and the report is never a what-if (persistMutation, called from
\* the first request, two route handlers, the confirm tool and the refresh).
THEOREM ProfileAudited == ProfileSpec => ChangesAreAudited
  <1>1. ProfileInv /\ [ProfileNext]_profileVars => [Audited]_profileVars
    BY ProfileSteps DEF Outcome
  <1> QED
    BY <1>1, ProfileInvariant, PTL DEF ProfileSpec, ChangesAreAudited, Audited

-----------------------------------------------------------------------------
(* Onboarding.                                                             *)

ValueFields == {"homeSchool", "gradTerm", "visa", "visaChosen", "workload", "toggled", "freeText"}
PageFields == {"step", "dpr", "home", "visa", "grad", "loading"}
SpentFields == {"picks", "uploads", "sends", "plans"}
PrefsFields == {"kind", "seed", "turns", "chosen", "plan"}
HasFields(r, fields) == r = [f \in fields |-> r[f]]
IsSequence(s) == Len(s) \in Nat /\ s = [i \in 1..Len(s) |-> s[i]]

\* What the wizard holds is what was picked in it.
ValuesInv ==
  /\ HasFields(wiz, {"at", "values", "dpr", "busy"})
  /\ HasFields(wiz.values, ValueFields) /\ wiz.values.visa # ""
  /\ wiz.values = picked

\* Past the upload the page has a report, and so has what was said there.
ReportInv ==
  /\ HasFields(onPage, PageFields)
  /\ onPage.step # "awaiting_dpr" => onPage.dpr # ""
  /\ \A f \in flight : f.kind = "step" /\ f.step # "awaiting_dpr" => onPage.dpr # ""
  /\ \A f \in flight : f.kind \in {"drop", "wizard_upload"} => f.file \in Files

\* Every plan of the page is handed over by one thread of turns.
Carries(f) ==
  /\ HasFields(f, PrefsFields)
  /\ f.plan \in 1..spent.plans
  /\ f.seed.dpr # "" /\ f.seed.visa # "" /\ f.seed.visa = f.chosen.visa
  /\ f.chosen.homeSchool # "" => f.seed.home = f.chosen.homeSchool
  /\ HandsOver(f)

NamesPlan(p, plans) == p.by \in 0..plans /\ (p.by > 0 => p.dpr # "" /\ p.visa # "")
PostedInv ==
  /\ HasFields(spent, SpentFields) /\ spent.plans \in Nat
  /\ IsSequence(posted) /\ \A i \in DOMAIN posted : NamesPlan(posted[i], spent.plans)

HandInv ==
  /\ PostedInv
  /\ \A f \in flight : f.kind = "prefs" => Carries(f)
  /\ \A f, g \in flight : f.kind = "prefs" /\ g.kind = "prefs" /\ f.plan = g.plan => f = g

OnboardInv == ValuesInv /\ ReportInv /\ HandInv

LEMMA ValuesKept ==
    ASSUME NEW v, HasFields(v, ValueFields)
    PROVE  SkipAllValues(v) = v
  BY DEF SkipAllValues, HasFields, ValueFields, DefaultValues

LEMMA DefaultsAreValues == HasFields(DefaultValues, ValueFields) /\ DefaultValues.visa # ""
  BY DEF DefaultValues, HasFields, ValueFields

LEMMA InitialIsWizard ==
    HasFields(InitialWizard, {"at", "values", "dpr", "busy"}) /\ InitialWizard.values = DefaultValues
  BY DEF InitialWizard, HasFields

\* The page takes a new form: the wizard is as it was or forgotten.
LEMMA ValuesOfPage ==
    ASSUME ValuesInv, NEW p, NEW fs, PageBecomes(p, fs)
    PROVE  ValuesInv'
  <1>1. CASE p.step = "awaiting_dpr"
    BY <1>1 DEF PageBecomes, ValuesInv
  <1>2. CASE p.step # "awaiting_dpr"
    <2>1. wiz' = InitialWizard /\ picked' = DefaultValues
      BY <1>2 DEF PageBecomes
    <2> QED
      BY <2>1, InitialIsWizard, DefaultsAreValues DEF ValuesInv
  <1> QED
    BY <1>1, <1>2

LEMMA WizardStays ==
    ASSUME ValuesInv, UNCHANGED picked, HasFields(wiz', {"at", "values", "dpr", "busy"}),
           wiz'.values = wiz.values
    PROVE  ValuesInv'
  BY DEF ValuesInv

LEMMA ValuesGo ==
    ASSUME ValuesInv, NEW n, NEW vs, vs = wiz.values, GoTo(n, vs)
    PROVE  ValuesInv'
  <1>1. HasFields(wiz', {"at", "values", "dpr", "busy"}) /\ wiz'.values = wiz.values
    BY DEF GoTo, ValuesInv, HasFields
  <1> QED
    BY <1>1, WizardStays DEF GoTo

\* A choice changes the values of the wizard and what was picked alike.
LEMMA PickedIsHeld ==
    ASSUME ValuesInv, NEW v, wiz' = [wiz EXCEPT !.values = v], picked' = v,
           HasFields(v, ValueFields), v.visa # ""
    PROVE  ValuesInv'
  <1>1. HasFields(wiz', {"at", "values", "dpr", "busy"}) /\ wiz'.values = v
    BY DEF ValuesInv, HasFields
  <1> QED
    BY <1>1 DEF ValuesInv

LEMMA ValuesPicked ==
    ASSUME ValuesInv, Choose
    PROVE  ValuesInv'
  <1>1. ASSUME NEW c \in Homes, SetHomeSchool(c) PROVE ValuesInv'
    <2> DEFINE v == [wiz.values EXCEPT !.homeSchool = c]
    <2>1. wiz' = [wiz EXCEPT !.values = v] /\ picked' = v
      BY <1>1 DEF SetHomeSchool, Pick, ValuesInv
    <2>2. HasFields(v, ValueFields) /\ v.visa # ""
      BY DEF ValuesInv, HasFields, ValueFields
    <2> QED
      BY <2>1, <2>2, PickedIsHeld
  <1>2. ASSUME NEW s \in {"f1", "domestic"}, SetVisa(s) PROVE ValuesInv'
    <2> DEFINE v == [wiz.values EXCEPT !.visa = s, !.visaChosen = TRUE]
    <2>1. wiz' = [wiz EXCEPT !.values = v] /\ picked' = v
      BY <1>2 DEF SetVisa, Pick, ValuesInv
    <2>2. HasFields(v, ValueFields) /\ v.visa # ""
      BY DEF ValuesInv, HasFields, ValueFields
    <2> QED
      BY <2>1, <2>2, PickedIsHeld
  <1>3. ASSUME NEW t \in GradTerms, SetGradTerm(t) PROVE ValuesInv'
    <2> DEFINE v == [wiz.values EXCEPT !.gradTerm = t]
    <2>1. wiz' = [wiz EXCEPT !.values = v] /\ picked' = v
      BY <1>3 DEF SetGradTerm, Pick, ValuesInv
    <2>2. HasFields(v, ValueFields) /\ v.visa # ""
      BY DEF ValuesInv, HasFields, ValueFields
    <2> QED
      BY <2>1, <2>2, PickedIsHeld
  <1>4. ASSUME NEW w \in Workloads, SetWorkload(w) PROVE ValuesInv'
    <2> DEFINE v == [wiz.values EXCEPT !.workload = w]
    <2>1. wiz' = [wiz EXCEPT !.values = v] /\ picked' = v
      BY <1>4 DEF SetWorkload, Pick, ValuesInv
    <2>2. HasFields(v, ValueFields) /\ v.visa # ""
      BY DEF ValuesInv, HasFields, ValueFields
    <2> QED
      BY <2>1, <2>2, PickedIsHeld
  <1>5. ASSUME NEW k \in Toggles, Toggle(k) PROVE ValuesInv'
    <2> DEFINE v == [wiz.values EXCEPT !.toggled = IF k \in @ THEN @ \ {k} ELSE @ \union {k}]
    <2>1. wiz' = [wiz EXCEPT !.values = v] /\ picked' = v
      BY <1>5 DEF Toggle, Pick, ValuesInv
    <2>2. HasFields(v, ValueFields) /\ v.visa # ""
      BY DEF ValuesInv, HasFields, ValueFields
    <2> QED
      BY <2>1, <2>2, PickedIsHeld
  <1>6. ASSUME NEW t \in Texts, SetFreeText(t) PROVE ValuesInv'
    <2> DEFINE v == [wiz.values EXCEPT !.freeText = t]
    <2>1. wiz' = [wiz EXCEPT !.values = v] /\ picked' = v
      BY <1>6 DEF SetFreeText, Pick, ValuesInv
    <2>2. HasFields(v, ValueFields) /\ v.visa # ""
      BY DEF ValuesInv, HasFields, ValueFields
    <2> QED
      BY <2>1, <2>2, PickedIsHeld
  <1> QED
    BY <1>1, <1>2, <1>3, <1>4, <1>5, <1>6 DEF Choose

LEMMA ValuesNext ==
    ASSUME ValuesInv, [OnboardNext]_onboardVars
    PROVE  ValuesInv'
  <1>1. CASE NextStep \/ SkipStep \/ PrevStep
    BY <1>1, ValuesGo DEF NextStep, SkipStep, PrevStep
  <1>2. CASE SkipAll
    BY <1>2, ValuesGo, ValuesKept DEF SkipAll, ValuesInv
  <1>3. CASE Choose
    BY <1>3, ValuesPicked
  <1>4. CASE ReachPlan
    BY <1>4, ValuesOfPage DEF ReachPlan
  <1>5. CASE PreviewMajor
    BY <1>5 DEF PreviewMajor, ValuesInv
  <1>6. CASE \E x \in Files : WizardUpload(x) \/ DropFile(x)
    <2>1. CASE \E x \in Files : WizardUpload(x)
      <3>1. HasFields(wiz', {"at", "values", "dpr", "busy"}) /\ wiz'.values = wiz.values
        BY <2>1 DEF WizardUpload, ValuesInv, HasFields
      <3> QED
        BY <2>1, <3>1, WizardStays DEF WizardUpload
    <2>2. CASE \E x \in Files : DropFile(x)
      BY <2>2 DEF DropFile, ValuesInv
    <2> QED
      BY <1>6, <2>1, <2>2
  <1>7. CASE \E s \in Sayings : HandleSend(s)
    BY <1>7 DEF HandleSend, ValuesInv
  <1>8. ASSUME NEW f \in flight, Answers(f) PROVE ValuesInv'
    <2>1. CASE WizardUploadAnswered(f)
      <3>1. HasFields(wiz', {"at", "values", "dpr", "busy"}) /\ wiz'.values = wiz.values
        BY <2>1 DEF WizardUploadAnswered, ValuesInv, HasFields
      <3> QED
        BY <2>1, <3>1, WizardStays DEF WizardUploadAnswered
    <2>2. CASE DropAnswered(f)
      BY <2>2, ValuesOfPage DEF DropAnswered
    <2>3. CASE StepAnswered(f)
      BY <2>3, ValuesOfPage DEF StepAnswered
    <2>4. CASE TurnAnswered(f)
      BY <2>4 DEF TurnAnswered, ValuesInv
    <2>5. CASE PreferenceAnswered(f)
      BY <2>5 DEF PreferenceAnswered, ValuesInv
    <2> QED
      BY <1>8, <2>1, <2>2, <2>3, <2>4, <2>5 DEF Answers
  <1>9. CASE UNCHANGED onboardVars
    BY <1>9 DEF onboardVars, ValuesInv
  <1> QED
    BY <1>1, <1>2, <1>3, <1>4, <1>5, <1>6, <1>7, <1>8, <1>9 DEF OnboardNext

\* The page takes a form with a report, or one that still waits for it.
LEMMA ReportOfPage ==
    ASSUME ReportInv, NEW p, NEW fs, PageBecomes(p, fs), HasFields(p, PageFields),
           p.step # "awaiting_dpr" => p.dpr # "", onPage.dpr # "" => p.dpr # "",
           \A f \in fs : f \in flight \/ f.kind = "prefs"
    PROVE  ReportInv'
  <1>1. onPage' = p /\ flight' \subseteq fs
    BY DEF PageBecomes
  <1> QED
    BY <1>1 DEF ReportInv

\* The page stays on its step, and only what belongs there is awaited anew.
LEMMA ReportStays ==
    ASSUME ReportInv, HasFields(onPage', PageFields), onPage'.step = onPage.step,
           onPage'.dpr = onPage.dpr,
           \A f \in flight' : \/ f \in flight \/ f.kind \in {"prefs", "turn"}
                              \/ f.kind \in {"drop", "wizard_upload"} /\ f.file \in Files
                              \/ f.kind = "step" /\ f.step = onPage.step
    PROVE  ReportInv'
  BY DEF ReportInv

LEMMA StepReplyKeeps ==
    \A said : StepReply("awaiting_dpr", said).step = "" /\ Stay("").step = ""
  BY DEF StepReply, Stay

LEMMA ReportNext ==
    ASSUME ReportInv, ValuesInv, HandInv, [OnboardNext]_onboardVars
    PROVE  ReportInv'
  <1>0. HasFields(onPage, PageFields)
    BY DEF ReportInv
  <1>1. CASE NextStep \/ SkipStep \/ PrevStep \/ SkipAll
    BY <1>1 DEF NextStep, SkipStep, PrevStep, SkipAll, GoTo, ReportInv
  <1>2. CASE Choose
    BY <1>2 DEF Choose, SetHomeSchool, SetVisa, SetGradTerm, SetWorkload, Toggle, SetFreeText, Pick, ReportInv
  <1>3. CASE ReachPlan
    <2> DEFINE goes == ~onPage.loading /\ PreferenceTurns(wiz.values) # <<>>
               p == [onPage EXCEPT !.step = "complete", !.dpr = wiz.dpr, !.visa = wiz.values.visa,
                                   !.home = Seed(wiz).home, !.grad = Seed(wiz).grad, !.loading = @ \/ goes]
               fs == IF goes THEN flight \union {[kind |-> "prefs", seed |-> Seed(wiz),
                                                  turns |-> Tail(PreferenceTurns(wiz.values)),
                                                  chosen |-> picked, plan |-> spent.plans + 1]}
                     ELSE flight
    <2>1. PageBecomes(p, fs) /\ wiz.dpr # ""
      BY <1>3, Zenon DEF ReachPlan, CanBuildPlan
    <2>2. HasFields(p, PageFields) /\ p.dpr = wiz.dpr
      BY <1>0 DEF HasFields, PageFields
    <2>3. \A f \in fs : f \in flight \/ f.kind = "prefs"
      OBVIOUS
    <2> HIDE DEF p, fs
    <2> QED
      BY <2>1, <2>2, <2>3, ReportOfPage
  <1>4. CASE PreviewMajor
    <2>1. HasFields(onPage', PageFields) /\ onPage'.step = onPage.step /\ onPage'.dpr = onPage.dpr
      BY <1>0, <1>4 DEF PreviewMajor, HasFields, PageFields
    <2>2. \A f \in flight' : f \in flight \/ f.kind = "turn"
      BY <1>4 DEF PreviewMajor
    <2> QED
      BY <2>1, <2>2, ReportStays
  <1>5. ASSUME NEW x \in Files, WizardUpload(x) \/ DropFile(x) PROVE ReportInv'
    <2>1. HasFields(onPage', PageFields) /\ onPage'.step = onPage.step /\ onPage'.dpr = onPage.dpr
      BY <1>0, <1>5 DEF WizardUpload, DropFile, HasFields, PageFields
    <2>2. \A f \in flight' : f \in flight \/ (f.kind \in {"drop", "wizard_upload"} /\ f.file \in Files)
      BY <1>5 DEF WizardUpload, DropFile
    <2> QED
      BY <2>1, <2>2, ReportStays
  <1>6. ASSUME NEW s \in Sayings, HandleSend(s) PROVE ReportInv'
    <2>1. HasFields(onPage', PageFields) /\ onPage'.step = onPage.step /\ onPage'.dpr = onPage.dpr
      BY <1>0, <1>6 DEF HandleSend, HasFields, PageFields
    <2> DEFINE sent == [kind |-> "step", step |-> onPage.step, said |-> s]
    <2>2. flight' = flight \union {[kind |-> "turn"]} \/ flight' = flight \union {sent}
      BY <1>6 DEF HandleSend
    <2>3. sent.kind = "step" /\ sent.step = onPage.step
      OBVIOUS
    <2> HIDE DEF sent
    <2>4. \A f \in flight' : f \in flight \/ f.kind = "turn" \/ (f.kind = "step" /\ f.step = onPage.step)
      BY <2>2, <2>3
    <2> QED
      BY <2>1, <2>4, ReportStays
  <1>7. ASSUME NEW f \in flight, Answers(f) PROVE ReportInv'
    <2>1. CASE WizardUploadAnswered(f) \/ TurnAnswered(f)
      <3>1. HasFields(onPage', PageFields) /\ onPage'.step = onPage.step /\ onPage'.dpr = onPage.dpr
        BY <1>0, <2>1 DEF WizardUploadAnswered, TurnAnswered, HasFields, PageFields
      <3>2. flight' \subseteq flight
        BY <2>1 DEF WizardUploadAnswered, TurnAnswered
      <3> QED
        BY <3>1, <3>2, ReportStays
    <2>2. CASE DropAnswered(f)
      <3> DEFINE p == IF f.file = "down" THEN [onPage EXCEPT !.loading = FALSE]
                      ELSE [onPage EXCEPT !.loading = FALSE, !.step = UploadReply(f.file).step,
                                          !.dpr = IF UploadReply(f.file).dpr = "" THEN @ ELSE f.file]
      <3>1. PageBecomes(p, flight \ {f}) /\ f.file # ""
        BY <2>2, OnboardingAssumption DEF DropAnswered, ReportInv
      <3>2. HasFields(p, PageFields)
        BY <1>0 DEF HasFields, PageFields
      <3>3. p.step # "awaiting_dpr" => p.dpr # ""
        BY <1>0, <3>1 DEF HasFields, PageFields, UploadReply, ReportInv
      <3>4. onPage.dpr # "" => p.dpr # ""
        BY <1>0, <3>1 DEF HasFields, PageFields
      <3> HIDE DEF p
      <3> QED
        BY <3>1, <3>2, <3>3, <3>4, ReportOfPage
    <2>3. CASE StepAnswered(f)
      <3>1. PICK r \in {StepReply(f.step, f.said), Stay("")} :
              PageBecomes([onPage EXCEPT !.loading = FALSE, !.step = OrOld(r.step, @),
                                         !.visa = OrOld(r.visa, @), !.grad = OrOld(r.grad, @)], flight \ {f})
        BY <2>3 DEF StepAnswered
      <3> DEFINE p == [onPage EXCEPT !.loading = FALSE, !.step = OrOld(r.step, @),
                                     !.visa = OrOld(r.visa, @), !.grad = OrOld(r.grad, @)]
      <3>2. HasFields(p, PageFields) /\ p.dpr = onPage.dpr /\ p.step = OrOld(r.step, onPage.step)
        BY <1>0 DEF HasFields, PageFields
      <3>3. f.step = "awaiting_dpr" => r.step = ""
        BY StepReplyKeeps
      <3>4. f.kind = "step"
        BY <2>3 DEF StepAnswered
      <3>5. p.step # "awaiting_dpr" => p.dpr # ""
        BY <3>2, <3>3, <3>4 DEF OrOld, ReportInv
      <3> HIDE DEF p
      <3> QED
        BY <3>1, <3>2, <3>5, ReportOfPage DEF p
    <2>4. CASE PreferenceAnswered(f)
      <3>1. HasFields(onPage', PageFields) /\ onPage'.step = onPage.step /\ onPage'.dpr = onPage.dpr
        BY <1>0, <2>4 DEF PreferenceAnswered, HasFields, PageFields
      <3>2. HasFields(f, PrefsFields) /\ f.kind = "prefs"
        BY <2>4 DEF PreferenceAnswered, HandInv, Carries
      <3>3. [f EXCEPT !.turns = Tail(@)].kind = "prefs"
        BY <3>2 DEF HasFields, PrefsFields
      <3>4. \A g \in flight' : g \in flight \/ g.kind = "prefs"
        BY <2>4, <3>3 DEF PreferenceAnswered
      <3> QED
        BY <3>1, <3>4, ReportStays
    <2> QED
      BY <1>7, <2>1, <2>2, <2>3, <2>4 DEF Answers
  <1>8. CASE UNCHANGED onboardVars
    BY <1>8 DEF onboardVars, ReportInv
  <1> QED
    BY <1>1, <1>2, <1>3, <1>4, <1>5, <1>6, <1>7, <1>8 DEF OnboardNext

-----------------------------------------------------------------------------
(* The turns for the choices.                                              *)

LEMMA SequenceGrows ==
    ASSUME NEW s, IsSequence(s), NEW x
    PROVE  /\ IsSequence(Append(s, x)) /\ DOMAIN s = 1..Len(s)
           /\ Len(Append(s, x)) = Len(s) + 1 /\ DOMAIN Append(s, x) = 1..(Len(s) + 1)
           /\ Append(s, x)[Len(s) + 1] = x
           /\ \A i \in 1..Len(s) : Append(s, x)[i] = s[i]
  <1> DEFINE S == {s[i] : i \in 1..Len(s)}
             T == S \cup {x}
  <1>1. Len(s) \in Nat /\ s = [i \in 1..Len(s) |-> s[i]]
    BY DEF IsSequence
  <1>2. s \in [1..Len(s) -> T]
    BY <1>1
  <1>3. s \in Seq(T)
    BY <1>1, <1>2
  <1>4. Append(s, x) \in Seq(T) /\ x \in T
    BY <1>3
  <1> HIDE DEF T
  <1>5. /\ Len(Append(s, x)) = Len(s) + 1 /\ DOMAIN Append(s, x) = 1..(Len(s) + 1)
        /\ Append(s, x)[Len(s) + 1] = x
        /\ \A i \in 1..Len(s) : Append(s, x)[i] = s[i]
    BY <1>1, <1>3, <1>4
  <1>6. IsSequence(Append(s, x))
    <2> DEFINE a == Append(s, x)
    <2>1. a \in Seq(T)
      BY <1>4
    <2> HIDE DEF a
    <2>2. a = [i \in 1..Len(a) |-> a[i]] /\ Len(a) \in Nat
      BY <2>1
    <2> USE DEF a
    <2> QED
      BY <2>2 DEF IsSequence
  <1>7. DOMAIN s = 1..Len(s)
    BY <1>1
  <1> QED
    BY <1>5, <1>6, <1>7

LEMMA TurnsAreSequence ==
    ASSUME NEW v
    PROVE  \E S : PreferenceTurns(v) \in Seq(S)
  <1> DEFINE S == {v.workload, "summer", "jTerm", "studyAbroad", "honors", v.freeText}
  <1>1. ASSUME NEW wanted, NEW turn \in S PROVE Given(wanted, turn) \in Seq(S)
    <2>1. CASE wanted
      <3>1. Given(wanted, turn) = <<turn>>
        BY <2>1, Zenon DEF Given
      <3> QED
        BY <3>1
    <2>2. CASE ~wanted
      <3>1. Given(wanted, turn) = <<>>
        BY <2>2, Zenon DEF Given
      <3> QED
        BY <3>1
    <2> QED
      BY <2>1, <2>2, Zenon
  <1>2. \A a, b \in Seq(S) : a \o b \in Seq(S)
    OBVIOUS
  <1>3. v.workload \in S /\ "summer" \in S /\ "jTerm" \in S /\ "studyAbroad" \in S
        /\ "honors" \in S /\ v.freeText \in S
    OBVIOUS
  <1> HIDE DEF S
  <1>4. PreferenceTurns(v) \in Seq(S)
    BY <1>1, <1>2, <1>3, Zenon DEF PreferenceTurns
  <1> QED
    BY <1>4, Zenon

LEMMA PostedForFinite ==
    ASSUME IsSequence(posted), NEW f
    PROVE  IsFiniteSet(PostedFor(f)) /\ Cardinality(PostedFor(f)) \in Nat /\ PostedFor(f) \subseteq 1..Len(posted)
  <1>1. DOMAIN posted = 1..Len(posted) /\ Len(posted) \in Nat
    BY SequenceGrows DEF IsSequence
  <1>2. IsFiniteSet(1..Len(posted))
    BY <1>1, FS_Interval
  <1>3. PostedFor(f) \subseteq 1..Len(posted)
    BY <1>1 DEF PostedFor
  <1> QED
    BY <1>2, <1>3, FS_Subset, FS_CardinalityType

\* A turn for another plan, or for none, is none of those of f.
LEMMA OtherTurn ==
    ASSUME IsSequence(posted), NEW f, HandsOver(f), NEW p, p.by # f.plan, posted' = Append(posted, p)
    PROVE  HandsOver(f)'
  <1>1. \A i \in DOMAIN posted' : i \in DOMAIN posted \/ i = Len(posted) + 1
    BY SequenceGrows
  <1>2. /\ DOMAIN posted \subseteq DOMAIN posted'
        /\ \A i \in DOMAIN posted : posted'[i] = posted[i]
        /\ posted'[Len(posted) + 1] = p
    BY SequenceGrows DEF IsSequence
  <1>3. PostedFor(f)' = PostedFor(f)
    BY <1>1, <1>2 DEF PostedFor
  <1>4. \A i \in PostedFor(f) : posted'[i] = posted[i]
    BY <1>2 DEF PostedFor
  <1> QED
    BY <1>3, <1>4 DEF HandsOver, TurnsFor

\* The rest of a sequence, its head, and the rest behind that.
LEMMA NextOfRest ==
    ASSUME NEW S, NEW todo \in Seq(S), NEW k \in Nat, NEW rest,
           rest = SubSeq(todo, k + 1, Len(todo)), rest # <<>>
    PROVE  /\ Head(rest) = todo[k + 1]
           /\ Tail(rest) = SubSeq(todo, (k + 1) + 1, Len(todo))
  <1>1. k + 1 <= Len(todo)
    BY SMT
  <1>2. Len(rest) = Len(todo) - k /\ rest \in Seq(S)
    BY <1>1
  <1>3. \A i \in 1..Len(rest) : rest[i] = todo[k + i]
    BY <1>1, <1>2
  <1>4. Head(rest) = todo[k + 1]
    BY <1>1, <1>2, <1>3
  <1> DEFINE after == SubSeq(todo, (k + 1) + 1, Len(todo))
  <1>5. after \in Seq(S) /\ Len(after) = Len(todo) - (k + 1)
    BY <1>1
  <1>6. \A i \in 1..Len(after) : after[i] = todo[(k + 1) + i]
    BY <1>1, <1>5
  <1>7. Tail(rest) \in Seq(S) /\ Len(Tail(rest)) = Len(rest) - 1
    BY <1>1, <1>2
  <1>8. \A i \in 1..Len(Tail(rest)) : Tail(rest)[i] = rest[i + 1]
    BY <1>2, <1>7
  <1>9. Tail(rest) = after
    <2>1. Len(Tail(rest)) = Len(after)
      BY <1>2, <1>5, <1>7
    <2>2. \A i \in 1..Len(after) : Tail(rest)[i] = after[i]
      <3> SUFFICES ASSUME NEW i \in 1..Len(after) PROVE Tail(rest)[i] = after[i]
        OBVIOUS
      <3>1. i + 1 \in 1..Len(rest) /\ i \in 1..Len(Tail(rest)) /\ k + (i + 1) = (k + 1) + i
        BY <1>2, <1>5, <2>1
      <3>2. rest[i + 1] = todo[k + (i + 1)]
        BY <1>3, <3>1
      <3> QED
        BY <1>6, <1>8, <3>1, <3>2
    <2>3. \A i \in 1..Len(Tail(rest)) : Tail(rest)[i] = after[i]
      BY <2>1, <2>2
    <2> HIDE DEF after
    <2> QED
      BY <1>5, <1>7, <2>1, <2>3, SeqEqual
  <1> QED
    BY <1>4, <1>9

LEMMA OneMore ==
    \A n \in Nat :
      /\ n + 1 \in 1..(n + 1) /\ 1..n \subseteq 1..(n + 1)
      /\ \A i \in 1..(n + 1) : i \in 1..n \/ i = n + 1
      /\ \A i \in 1..n : i # n + 1 /\ i <= n + 1 /\ ~(n + 1 <= i)
      /\ n + 1 <= n + 1
  OBVIOUS

\* The next turn of f is posted, and the rest is still to come.
LEMMA NextTurn ==
    ASSUME IsSequence(posted), NEW f, HandsOver(f), f.turns # <<>>,
           posted' = Append(posted, Posting(f.plan, f.seed, Head(f.turns))),
           f.seed.visa = f.chosen.visa, f.chosen.homeSchool # "" => f.seed.home = f.chosen.homeSchool,
           NEW g, g.plan = f.plan, g.seed = f.seed, g.chosen = f.chosen, g.turns = Tail(f.turns)
    PROVE  HandsOver(g)'
  <1> DEFINE mine == PostedFor(f)
             new == Len(posted) + 1
             next == {i \in DOMAIN posted' : posted'[i].by = f.plan}
             todo == TurnsFor(f)
             p == Posting(f.plan, f.seed, Head(f.turns))
  <1>1. Len(posted) \in Nat /\ DOMAIN posted = 1..Len(posted)
    BY SequenceGrows DEF IsSequence
  <1>2. /\ DOMAIN posted' = 1..new /\ posted'[new] = p
        /\ \A i \in 1..Len(posted) : posted'[i] = posted[i]
    BY SequenceGrows
  <1>3. /\ p.by = f.plan /\ p.text = Head(f.turns) /\ p.visa = f.seed.visa
        /\ p.dpr = f.seed.dpr /\ p.home = f.seed.home
    BY DEF Posting
  <1>4. f.turns = SubSeq(todo, Cardinality(mine) + 1, Len(todo)) /\ f.chosen.visaChosen
    BY DEF HandsOver, PostedFor
  <1>5. IsFiniteSet(mine) /\ Cardinality(mine) \in Nat /\ mine \subseteq 1..Len(posted)
    BY PostedForFinite
  <1> HIDE DEF p
  <1>6. next = mine \cup {new} /\ new \notin mine
    <2>1. \A i \in 1..new : i \in 1..Len(posted) \/ i = new
      BY <1>1, OneMore, Zenon
    <2>2. \A i \in 1..Len(posted) : i \in 1..new /\ i # new
      BY <1>1, OneMore, Zenon
    <2>3. new \in 1..new
      BY <1>1, OneMore, Zenon
    <2>4. mine = {i \in 1..Len(posted) : posted[i].by = f.plan}
      BY <1>1, Zenon DEF PostedFor
    <2> HIDE DEF mine, new
    <2>5. next = {i \in 1..new : posted'[i].by = f.plan}
      BY <1>2, Zenon
    <2> QED
      BY <1>2, <1>3, <2>1, <2>2, <2>3, <2>4, <2>5
  <1> HIDE DEF next
  <1>7. Cardinality(next) = Cardinality(mine) + 1
    BY <1>5, <1>6, FS_AddElement
  <1>8. PICK S : todo \in Seq(S)
    BY TurnsAreSequence DEF TurnsFor
  <1> HIDE DEF todo
  <1>9. /\ Head(f.turns) = todo[Cardinality(mine) + 1]
        /\ Tail(f.turns) = SubSeq(todo, (Cardinality(mine) + 1) + 1, Len(todo))
    BY <1>4, <1>5, <1>8, NextOfRest
  <1>10. ASSUME NEW i \in next
         PROVE  /\ posted'[i].text = todo[Cardinality({j \in next : j <= i})]
                /\ posted'[i].visa = f.chosen.visa /\ posted'[i].dpr = f.seed.dpr
                /\ f.chosen.homeSchool # "" => posted'[i].home = f.chosen.homeSchool
    <2>1. CASE i = new
      <3>1. \A j \in next : j <= i
        BY <1>1, <1>5, <1>6, <2>1, OneMore, Zenon
      <3>2. {j \in next : j <= i} = next
        BY <3>1, Zenon
      <3> QED
        BY <1>2, <1>3, <1>7, <1>9, <2>1, <3>2
    <2>2. CASE i \in mine
      <3> HIDE DEF mine
      <3>3. i \in 1..Len(posted) /\ ~(new <= i)
        BY <1>1, <1>5, <2>2, OneMore, Zenon
      <3> HIDE DEF new
      <3>1. {j \in next : j <= i} = {j \in mine : j <= i}
        BY <1>6, <3>3, Zenon
      <3> USE DEF mine
      <3>2. /\ posted[i].text = todo[Cardinality({j \in mine : j <= i})]
            /\ posted[i].visa = f.chosen.visa /\ posted[i].dpr = f.seed.dpr
            /\ f.chosen.homeSchool # "" => posted[i].home = f.chosen.homeSchool
        BY <2>2, Zenon DEF HandsOver, todo
      <3> QED
        BY <1>2, <1>5, <2>2, <3>1, <3>2
    <2> QED
      BY <1>6, <2>1, <2>2
  <1> HIDE DEF mine
  <1>11. /\ g.chosen.visaChosen
         /\ g.turns = SubSeq(todo, Cardinality(next) + 1, Len(todo))
    BY <1>4, <1>7, <1>9
  <1>12. g.plan = f.plan /\ g.seed = f.seed /\ g.chosen = f.chosen
    OBVIOUS
  <1>13. PostedFor(g)' = next
    BY <1>12, Zenon DEF next, PostedFor
  <1>14. TurnsFor(g)' = todo
    BY <1>12, Zenon DEF todo, TurnsFor
  <1>15. \A i \in next :
            /\ posted'[i].text = todo[Cardinality({j \in next : j <= i})]
            /\ posted'[i].visa = f.chosen.visa /\ posted'[i].dpr = f.seed.dpr
            /\ f.chosen.homeSchool # "" => posted'[i].home = f.chosen.homeSchool
    BY <1>10, Zenon
  <1> HIDE DEF next, todo
  <1> QED
    <2>1. g.chosen.visaChosen /\ g.turns = SubSeq(TurnsFor(g)', Cardinality(PostedFor(g)') + 1, Len(TurnsFor(g)'))
      BY <1>11, <1>13, <1>14, Zenon
    <2>2. \A i \in PostedFor(g)' :
            /\ posted'[i].text = TurnsFor(g)'[Cardinality({j \in PostedFor(g)' : j <= i})]
            /\ posted'[i].visa = g.chosen.visa /\ posted'[i].dpr = g.seed.dpr
            /\ g.chosen.homeSchool # "" => posted'[i].home = g.chosen.homeSchool
      BY <1>12, <1>13, <1>14, <1>15, Zenon
    <2> QED
      BY <2>1, <2>2, Zenon DEF HandsOver

-----------------------------------------------------------------------------
LEMMA PlansGrow ==
    \A n \in Nat : \A m \in {n, n + 1} :
      /\ m \in Nat /\ 0..n \subseteq 0..m /\ 1..n \subseteq 1..m
      /\ 0 \in 0..m /\ 1..m \subseteq 0..m /\ 0 \notin 1..n
  OBVIOUS

LEMMA PostedGrows ==
    ASSUME PostedInv, NEW p, posted' = Append(posted, p), HasFields(spent', SpentFields),
           spent'.plans \in {spent.plans, spent.plans + 1},
           NamesPlan(p, spent'.plans)
    PROVE  PostedInv'
  <1>1. spent'.plans \in Nat /\ 0..spent.plans \subseteq 0..spent'.plans
    <2>1. spent.plans \in Nat
      BY Zenon DEF PostedInv
    <2> QED
      BY <2>1, PlansGrow
  <1>2. /\ IsSequence(posted') /\ DOMAIN posted = 1..Len(posted) /\ Len(posted) \in Nat
        /\ DOMAIN posted' = 1..(Len(posted) + 1)
        /\ posted'[Len(posted) + 1] = p
        /\ \A i \in 1..Len(posted) : posted'[i] = posted[i]
    <2>1. IsSequence(posted)
      BY Zenon DEF PostedInv
    <2>2. Len(posted) \in Nat
      BY <2>1, Zenon DEF IsSequence
    <2> QED
      BY <2>1, <2>2, SequenceGrows
  <1>3. ASSUME NEW i \in DOMAIN posted'
        PROVE  (i \in DOMAIN posted /\ posted'[i] = posted[i]) \/ posted'[i] = p
    BY <1>2, OneMore, Zenon
  <1>4. ASSUME NEW q, NamesPlan(q, spent.plans) PROVE NamesPlan(q, spent'.plans)
    BY <1>1, <1>4, Zenon DEF NamesPlan
  <1>5. \A i \in DOMAIN posted' : NamesPlan(posted'[i], spent'.plans)
    BY <1>3, <1>4, Zenon DEF PostedInv
  <1> QED
    BY <1>1, <1>2, <1>5, Zenon DEF PostedInv

\* Nothing is posted and no thread of turns begins.
LEMMA HandStays ==
    ASSUME HandInv, posted' = posted, HasFields(spent', SpentFields),
           spent'.plans \in {spent.plans, spent.plans + 1},
           \A f \in flight' : f.kind = "prefs" => f \in flight
    PROVE  HandInv'
  <1>1. spent'.plans \in Nat /\ 0..spent.plans \subseteq 0..spent'.plans /\ 1..spent.plans \subseteq 1..spent'.plans
    <2>1. spent.plans \in Nat
      BY Zenon DEF HandInv, PostedInv
    <2> QED
      BY <2>1, PlansGrow
  <1>2. PostedInv'
    <2>1. ASSUME NEW q, NamesPlan(q, spent.plans) PROVE NamesPlan(q, spent'.plans)
      BY <1>1, <2>1, Zenon DEF NamesPlan
    <2> QED
      BY <1>1, <2>1, Zenon DEF HandInv, PostedInv
  <1>3. ASSUME NEW f \in flight', f.kind = "prefs" PROVE Carries(f)'
    <2>1. Carries(f) /\ f \in flight
      BY <1>3 DEF HandInv
    <2>2. HandsOver(f)'
      <3>1. PostedFor(f)' = PostedFor(f)
        BY Zenon DEF PostedFor
      <3>2. HandsOver(f)
        BY <2>1, Zenon DEF Carries
      <3> QED
        BY <3>1, <3>2, Zenon DEF HandsOver, TurnsFor
    <2> QED
      BY <1>1, <2>1, <2>2 DEF Carries
  <1> QED
    BY <1>2, <1>3 DEF HandInv

\* A turn is posted that is for none of the plans.
LEMMA HandKeeps ==
    ASSUME HandInv, NEW p, p.by = 0, posted' = Append(posted, p), HasFields(spent', SpentFields),
           spent'.plans = spent.plans, \A f \in flight' : f.kind = "prefs" => f \in flight
    PROVE  HandInv'
  <1>1. PostedInv'
    <2>1. p.by \in 0..spent'.plans /\ spent'.plans \in {spent.plans, spent.plans + 1}
      BY PlansGrow, Zenon DEF HandInv, PostedInv
    <2>2. ~(p.by > 0)
      OBVIOUS
    <2>3. NamesPlan(p, spent'.plans)
      BY <2>1, <2>2, Zenon DEF NamesPlan
    <2> QED
      BY <2>1, <2>3, PostedGrows, Zenon DEF HandInv
  <1>2. ASSUME NEW f \in flight', f.kind = "prefs" PROVE Carries(f)'
    <2>1. Carries(f) /\ f \in flight
      BY <1>2 DEF HandInv
    <2>2. f.plan # p.by
      BY <2>1, PlansGrow, Zenon DEF Carries, HandInv, PostedInv
    <2>3. HandsOver(f)'
      BY <2>1, <2>2, OtherTurn DEF Carries, HandInv, PostedInv
    <2> QED
      BY <2>1, <2>3 DEF Carries
  <1> QED
    BY <1>1, <1>2 DEF HandInv

\* The threads of turns are those there were, but for that of g, which posts its
\* next turn and goes on as h.
LEMMA HandGoesOn ==
    ASSUME HandInv, HasFields(spent', SpentFields), spent'.plans \in {spent.plans, spent.plans + 1},
           NEW g, HandsOver(g), g.turns # <<>>, g.plan \in 1..spent'.plans,
           posted' = Append(posted, Posting(g.plan, g.seed, Head(g.turns))),
           g.seed.dpr # "", g.seed.visa # "", g.seed.visa = g.chosen.visa,
           g.chosen.homeSchool # "" => g.seed.home = g.chosen.homeSchool,
           NEW h, HasFields(h, PrefsFields), h.plan = g.plan, h.seed = g.seed, h.chosen = g.chosen,
           h.turns = Tail(g.turns),
           \A f \in flight' : f.kind = "prefs" => f = h \/ (f \in flight /\ f.plan # g.plan)
    PROVE  HandInv'
  <1> DEFINE p == Posting(g.plan, g.seed, Head(g.turns))
  <1>1. p.by = g.plan /\ p.dpr = g.seed.dpr /\ p.visa = g.seed.visa
    BY DEF Posting
  <1>2. g.plan \in 0..spent'.plans
    BY PlansGrow, Zenon DEF HandInv, PostedInv
  <1> HIDE DEF p
  <1>3. posted' = Append(posted, p)
    BY DEF p
  <1>4. PostedInv'
    <2>1. NamesPlan(p, spent'.plans)
      BY <1>1, <1>2, Zenon DEF NamesPlan
    <2> QED
      BY <1>3, <2>1, PostedGrows, Zenon DEF HandInv
  <1>5. IsSequence(posted)
    BY DEF HandInv, PostedInv
  <1>6. HandsOver(h)'
    BY <1>5, NextTurn
  <1>7. 1..spent.plans \subseteq 1..spent'.plans
    BY PlansGrow, Zenon DEF HandInv, PostedInv
  <1>8. ASSUME NEW f \in flight', f.kind = "prefs" PROVE Carries(f)'
    <2>1. CASE f = h
      BY <1>6, <2>1 DEF Carries
    <2>2. CASE f \in flight /\ f.plan # g.plan
      <3>1. Carries(f)
        BY <1>8, <2>2 DEF HandInv
      <3>2. HandsOver(f)'
        BY <1>1, <1>3, <1>5, <2>2, <3>1, OtherTurn DEF Carries
      <3> QED
        BY <1>7, <3>1, <3>2 DEF Carries
    <2> QED
      BY <1>8, <2>1, <2>2
  <1>9. \A f, e \in flight' : f.kind = "prefs" /\ e.kind = "prefs" /\ f.plan = e.plan => f = e
    BY ZenonT(60) DEF HandInv
  <1> QED
    BY <1>4, <1>8, <1>9 DEF HandInv

LEMMA HandRests ==
    ASSUME HandInv, posted' = posted, spent' = spent,
           \A f \in flight' : f.kind = "prefs" => f \in flight
    PROVE  HandInv'
  BY HandStays DEF HandInv, PostedInv

LEMMA FirstOfTurns ==
    ASSUME NEW S, NEW todo \in Seq(S)
    PROVE  todo = SubSeq(todo, 0 + 1, Len(todo))
  <1> DEFINE all == SubSeq(todo, 0 + 1, Len(todo))
  <1>1. Len(all) = Len(todo) /\ all \in Seq(S) /\ \A i \in 1..Len(todo) : all[i] = todo[i]
    OBVIOUS
  <1>2. all = [i \in 1..Len(all) |-> all[i]] /\ todo = [i \in 1..Len(todo) |-> todo[i]]
    BY <1>1
  <1> HIDE DEF all
  <1>3. todo = all
    BY <1>1, <1>2
  <1> QED
    BY <1>3 DEF all

\* The plan is built: its first turn goes out, the rest follow.
LEMMA HandOfReachPlan ==
    ASSUME ValuesInv, HandInv, ReachPlan
    PROVE  HandInv'
  <1> DEFINE todo == PreferenceTurns(wiz.values)
             goes == ~onPage.loading /\ todo # <<>>
             n == spent.plans + 1
             g == [kind |-> "prefs", seed |-> Seed(wiz), turns |-> todo, chosen |-> picked, plan |-> n]
             h == [kind |-> "prefs", seed |-> Seed(wiz), turns |-> Tail(todo), chosen |-> picked, plan |-> n]
  <1>1. spent' = [spent EXCEPT !.plans = n]
    BY DEF ReachPlan
  <1>2. HasFields(spent', SpentFields) /\ spent'.plans = n
    BY <1>1 DEF HandInv, PostedInv, HasFields, SpentFields
  <1>3. CASE ~goes
    <2>1. posted' = posted
      BY <1>3 DEF ReachPlan
    <2>2. \A f \in flight' : f \in flight
      BY <1>3 DEF ReachPlan, PageBecomes
    <2> HIDE DEF todo, goes
    <2> QED
      BY <1>2, <2>1, <2>2, HandStays
  <1>4. CASE goes
    <2>1. posted' = Append(posted, Posting(n, Seed(wiz), Head(todo)))
      BY <1>4 DEF ReachPlan
    <2>2. \A f \in flight' : f \in flight \/ f = h
      BY <1>4 DEF ReachPlan, PageBecomes
    <2>3. n \in Nat /\ n \in 1..n /\ n \notin 1..spent.plans /\ n \notin 0..spent.plans
      <3>1. spent.plans \in Nat
        BY DEF HandInv, PostedInv
      <3> QED
        BY <3>1
    <2>4. PostedFor(g) = {}
      <3>1. \A i \in DOMAIN posted : posted[i].by \in 0..spent.plans
        BY Zenon DEF HandInv, PostedInv, NamesPlan
      <3>2. g.plan = n
        OBVIOUS
      <3> HIDE DEF g
      <3> QED
        BY <2>3, <3>1, <3>2, Zenon DEF PostedFor
    <2>5. Cardinality(PostedFor(g)) = 0
      BY <2>4, FS_EmptySet
    <2>6. TurnsFor(g) = todo
      BY DEF TurnsFor, ValuesInv
    <2>7. wiz.values.visaChosen /\ wiz.dpr # "" /\ wiz.values.visa # ""
      BY DEF ReachPlan, CanBuildPlan, ValuesInv
    <2>8. todo = SubSeq(todo, 0 + 1, Len(todo))
      <3>1. PICK S : todo \in Seq(S)
        BY TurnsAreSequence
      <3> HIDE DEF todo
      <3> QED
        BY <3>1, FirstOfTurns
    <2>9. HandsOver(g)
      <3>1. g.chosen.visaChosen
        BY <2>7 DEF ValuesInv
      <3>2. g.turns = todo
        OBVIOUS
      <3> HIDE DEF g, todo
      <3> QED
        BY <2>4, <2>5, <2>6, <2>8, <3>1, <3>2 DEF HandsOver
    <2>10. /\ g.plan = n /\ g.seed = Seed(wiz) /\ g.chosen = wiz.values /\ g.turns = todo
           /\ h.plan = n /\ h.seed = Seed(wiz) /\ h.chosen = wiz.values /\ h.turns = Tail(todo)
           /\ HasFields(h, PrefsFields)
      BY DEF ValuesInv, HasFields, PrefsFields
    <2>11. /\ Seed(wiz).dpr # "" /\ Seed(wiz).visa # "" /\ Seed(wiz).visa = wiz.values.visa
           /\ wiz.values.homeSchool # "" => Seed(wiz).home = wiz.values.homeSchool
      BY <2>7 DEF Seed, OrOld
    <2>12. \A f \in flight : f.kind = "prefs" => f.plan \in 1..spent.plans
      BY Zenon DEF HandInv, Carries
    <2>13. todo # <<>>
      BY <1>4
    <2>14. \A f \in flight' : f.kind = "prefs" => f = h \/ (f \in flight /\ f.plan # n)
      BY <2>2, <2>3, <2>12, Zenon
    <2> HIDE DEF g, h, todo, n
    <2>15. n \in 1..spent'.plans /\ spent'.plans \in {spent.plans, spent.plans + 1}
      BY <1>2, <2>3 DEF n
    <2>16. posted' = Append(posted, Posting(g.plan, g.seed, Head(g.turns))) /\ g.turns # <<>>
      BY <2>1, <2>10, <2>13, Zenon
    <2>17. /\ g.seed.dpr # "" /\ g.seed.visa # "" /\ g.seed.visa = g.chosen.visa
           /\ g.chosen.homeSchool # "" => g.seed.home = g.chosen.homeSchool
      BY <2>10, <2>11, Zenon
    <2>18. h.plan = g.plan /\ h.seed = g.seed /\ h.chosen = g.chosen /\ h.turns = Tail(g.turns)
      BY <2>10, Zenon
    <2>19. /\ g.plan \in 1..spent'.plans
           /\ \A f \in flight' : f.kind = "prefs" => f = h \/ (f \in flight /\ f.plan # g.plan)
      BY <2>10, <2>14, <2>15, Zenon
    <2> QED
      BY <1>2, <2>9, <2>10, <2>15, <2>16, <2>17, <2>18, <2>19, HandGoesOn, Zenon
  <1> QED
    BY <1>3, <1>4

\* A turn is answered: the next one goes out, or the thread is at its end.
LEMMA HandOfPreference ==
    ASSUME HandInv, NEW f \in flight, PreferenceAnswered(f)
    PROVE  HandInv'
  <1>1. f.kind = "prefs" /\ spent' = spent /\ Carries(f)
    BY DEF PreferenceAnswered, HandInv
  <1>2. CASE f.turns = <<>>
    <2>1. posted' = posted /\ \A g \in flight' : g \in flight
      BY <1>2 DEF PreferenceAnswered
    <2> QED
      BY <1>1, <2>1, HandRests
  <1>3. CASE f.turns # <<>>
    <2> DEFINE h == [f EXCEPT !.turns = Tail(@)]
    <2>1. /\ posted' = Append(posted, Posting(f.plan, f.seed, Head(f.turns)))
          /\ flight' = (flight \ {f}) \cup {h}
      BY <1>3 DEF PreferenceAnswered
    <2>2. HasFields(f, PrefsFields)
      BY <1>1 DEF Carries
    <2>3. /\ HasFields(h, PrefsFields) /\ h.plan = f.plan /\ h.seed = f.seed /\ h.chosen = f.chosen
          /\ h.turns = Tail(f.turns)
      BY <2>2 DEF HasFields, PrefsFields
    <2> HIDE DEF h
    <2>4. \A g \in flight' : g.kind = "prefs" => g = h \/ (g \in flight /\ g.plan # f.plan)
      BY <1>1, <2>1, Zenon DEF HandInv
    <2>5. /\ HandsOver(f) /\ f.plan \in 1..spent'.plans
          /\ f.seed.dpr # "" /\ f.seed.visa # "" /\ f.seed.visa = f.chosen.visa
          /\ f.chosen.homeSchool # "" => f.seed.home = f.chosen.homeSchool
      BY <1>1 DEF Carries
    <2>6. HasFields(spent', SpentFields) /\ spent'.plans \in {spent.plans, spent.plans + 1}
      BY <1>1 DEF HandInv, PostedInv
    <2> QED
      BY <1>3, <2>1, <2>3, <2>4, <2>5, <2>6, HandGoesOn
  <1> QED
    BY <1>2, <1>3

\* What is asked of the agent for no plan, or only awaited.
LEMMA HandOfSend ==
    ASSUME HandInv, NEW p, p.by = 0, posted' = posted \/ posted' = Append(posted, p),
           spent' = [spent EXCEPT !.sends = @ + 1],
           \A f \in flight' : f.kind = "prefs" => f \in flight
    PROVE  HandInv'
  <1>1. HasFields(spent', SpentFields) /\ spent'.plans = spent.plans
    BY DEF HandInv, PostedInv, HasFields, SpentFields
  <1>2. spent'.plans \in {spent.plans, spent.plans + 1}
    BY <1>1
  <1> QED
    BY <1>1, <1>2, HandStays, HandKeeps, Zenon

LEMMA HandNext ==
    ASSUME ValuesInv, HandInv, [OnboardNext]_onboardVars
    PROVE  HandInv'
  <1>1. CASE NextStep \/ SkipStep \/ PrevStep \/ SkipAll
    BY <1>1, HandRests DEF NextStep, SkipStep, PrevStep, SkipAll, GoTo
  <1>2. CASE Choose
    <2>1. posted' = posted /\ flight' = flight /\ spent' = [spent EXCEPT !.picks = @ + 1]
      BY <1>2 DEF Choose, SetHomeSchool, SetVisa, SetGradTerm, SetWorkload, Toggle, SetFreeText, Pick
    <2>2. HasFields(spent', SpentFields) /\ spent'.plans = spent.plans
      BY <2>1 DEF HandInv, PostedInv, HasFields, SpentFields
    <2> QED
      BY <2>1, <2>2, HandStays
  <1>3. CASE ReachPlan
    BY <1>3, HandOfReachPlan
  <1>4. CASE PreviewMajor
    <2> DEFINE p == Posting(0, onPage, "preview")
    <2>1. posted' = Append(posted, p) /\ spent' = [spent EXCEPT !.sends = @ + 1] /\ p.by = 0
      BY <1>4 DEF PreviewMajor, Posting
    <2>2. \A f \in flight' : f.kind = "prefs" => f \in flight
      BY <1>4 DEF PreviewMajor
    <2> HIDE DEF p
    <2> QED
      BY <2>1, <2>2, HandOfSend
  <1>5. CASE \E x \in Files : WizardUpload(x) \/ DropFile(x)
    <2>1. /\ posted' = posted /\ spent' = [spent EXCEPT !.uploads = @ + 1]
          /\ \A f \in flight' : f.kind = "prefs" => f \in flight
      BY <1>5 DEF WizardUpload, DropFile
    <2>2. HasFields(spent', SpentFields) /\ spent'.plans = spent.plans
      BY <2>1 DEF HandInv, PostedInv, HasFields, SpentFields
    <2> QED
      BY <2>1, <2>2, HandStays
  <1>6. CASE \E s \in Sayings : HandleSend(s)
    <2>1. PICK s \in Sayings : HandleSend(s)
      BY <1>6
    <2> DEFINE p == Posting(0, onPage, s)
    <2>2. /\ posted' = posted \/ posted' = Append(posted, p)
          /\ spent' = [spent EXCEPT !.sends = @ + 1] /\ p.by = 0
      BY <2>1 DEF HandleSend, Posting
    <2>3. \A f \in flight' : f.kind = "prefs" => f \in flight
      <3>1. CASE onPage.step = "complete" /\ onPage.dpr # ""
        <4>1. flight' = flight \cup {[kind |-> "turn"]}
          BY <2>1, <3>1, Zenon DEF HandleSend
        <4> QED
          BY <4>1
      <3>2. CASE ~(onPage.step = "complete" /\ onPage.dpr # "")
        <4>1. flight' = flight \cup {[kind |-> "step", step |-> onPage.step, said |-> s]}
          BY <2>1, <3>2, Zenon DEF HandleSend
        <4> QED
          BY <4>1
      <3> QED
        BY <3>1, <3>2
    <2> HIDE DEF p
    <2> QED
      BY <2>2, <2>3, HandOfSend
  <1>7. CASE \E f \in flight : Answers(f)
    <2>1. PICK f \in flight : Answers(f)
      BY <1>7
    <2>2. CASE PreferenceAnswered(f)
      BY <2>2, HandOfPreference
    <2>3. CASE ~PreferenceAnswered(f)
      <3>1. posted' = posted /\ spent' = spent
        BY <2>1, <2>3 DEF Answers, WizardUploadAnswered, DropAnswered, StepAnswered, TurnAnswered
      <3>2. \A g \in flight' : g \in flight
        BY <2>1, <2>3 DEF Answers, WizardUploadAnswered, DropAnswered, StepAnswered, TurnAnswered, PageBecomes
      <3> QED
        BY <3>1, <3>2, HandRests
    <2> QED
      BY <2>2, <2>3
  <1>8. CASE UNCHANGED onboardVars
    BY <1>8, HandRests DEF onboardVars
  <1> QED
    BY <1>1, <1>2, <1>3, <1>4, <1>5, <1>6, <1>7, <1>8 DEF OnboardNext

LEMMA OnboardInit_Inv ==
    ASSUME OnboardInit
    PROVE  OnboardInv
  <1>1. ValuesInv
    BY InitialIsWizard, DefaultsAreValues DEF OnboardInit, ValuesInv
  <1>2. ReportInv
    BY DEF OnboardInit, ReportInv, HasFields, PageFields
  <1>3. HandInv
    <2>1. posted = <<>> /\ flight = {} /\ spent = [picks |-> 0, uploads |-> 0, sends |-> 0, plans |-> 0]
      BY DEF OnboardInit
    <2>2. HasFields(spent, SpentFields) /\ spent.plans = 0
      BY <2>1 DEF HasFields, SpentFields
    <2>3. IsSequence(posted)
      BY <2>1 DEF IsSequence
    <2> QED
      BY <2>1, <2>2, <2>3 DEF HandInv, PostedInv
  <1> QED
    BY <1>1, <1>2, <1>3 DEF OnboardInv

(* Whatever the order in which uploads, replies and turns end, and for any    *)
(* number of picks, uploads and plans: the wizard holds the student's last    *)
(* choices, the agent's turns carry them in order and with their seed, and a  *)
(* complete page has a report (onboardingMachine.ts, handleWizardReachPlan).  *)
THEOREM HandOverHolds == OnboardSpec => []HandOverIsComplete
  <1>1. OnboardInit => OnboardInv
    BY OnboardInit_Inv
  <1>2. OnboardInv /\ [OnboardNext]_onboardVars => OnboardInv'
    BY ValuesNext, ReportNext, HandNext DEF OnboardInv
  <1>3. OnboardInv => HandOverIsComplete
    <2> SUFFICES ASSUME OnboardInv PROVE HandOverIsComplete
      OBVIOUS
    <2>1. wiz.values = picked
      BY DEF OnboardInv, ValuesInv
    <2>2. onPage.step = "complete" => onPage.dpr # ""
      BY DEF OnboardInv, ReportInv
    <2>3. \A i \in DOMAIN posted : posted[i].by > 0 => posted[i].dpr # "" /\ posted[i].visa # ""
      BY Zenon DEF OnboardInv, HandInv, PostedInv, NamesPlan
    <2>4. \A f \in flight : f.kind = "prefs" => HandsOver(f)
      BY Zenon DEF OnboardInv, HandInv, Carries
    <2> QED
      BY <2>1, <2>2, <2>3, <2>4 DEF HandOverIsComplete
  <1> QED
    BY <1>1, <1>2, <1>3, PTL DEF OnboardSpec

-----------------------------------------------------------------------------
(* The window of summaries.                                                *)

Steps == {"idle", "answering", "ensured", "inserted", "selected"}

\* The types, as far as the steps of a turn need them.
SummariesTypeInv ==
  /\ lastId \in Nat
  /\ step \in [Turns -> Steps]
  /\ keep \in [Turns -> SUBSET (1..lastId)]
  /\ context \in [Turns -> SUBSET (1..lastId)]
  /\ account \in BOOLEAN
  /\ written \subseteq 1..lastId
  /\ summaries \subseteq written
  /\ raced \subseteq written

-----------------------------------------------------------------------------
(* What the newest of a set of ids are.                                     *)

LEMMA LaterFinite ==
    ASSUME NEW n \in Nat, NEW ids \in SUBSET (1..n), NEW i
    PROVE  /\ IsFiniteSet({j \in ids : j > i})
           /\ Cardinality({j \in ids : j > i}) \in Nat
  <1>1. IsFiniteSet(1..n)
    BY FS_Interval
  <1>2. {j \in ids : j > i} \in SUBSET (1..n)
    OBVIOUS
  <1>3. IsFiniteSet({j \in ids : j > i})
    BY <1>1, <1>2, FS_Subset
  <1> QED
    BY <1>3, FS_CardinalityType

\* What is among the newest of a set is among the newest of a part that has it.
LEMMA NewestOfPart ==
    ASSUME NEW n \in Nat, NEW ids \in SUBSET (1..n), NEW part \in SUBSET ids, NEW m \in Nat,
           NEW i \in part, i \in Newest(m, ids)
    PROVE  i \in Newest(m, part)
  <1> DEFINE all == {j \in ids : j > i}
             some == {j \in part : j > i}
  <1>1. IsFiniteSet(all) /\ Cardinality(all) \in Nat /\ IsFiniteSet(some) /\ Cardinality(some) \in Nat
    BY LaterFinite
  <1>2. some \in SUBSET all
    OBVIOUS
  <1>3. Cardinality(some) <= Cardinality(all)
    BY <1>1, <1>2, FS_Subset
  <1>4. Cardinality(all) < m
    BY DEF Newest
  <1>5. Cardinality(some) < m
    BY <1>1, <1>3, <1>4
  <1> QED
    BY <1>5 DEF Newest

LEMMA NewestIsPart == ASSUME NEW m, NEW ids PROVE Newest(m, ids) \subseteq ids
  BY DEF Newest

LEMMA OldestIsPart == ASSUME NEW m, NEW ids PROVE Oldest(m, ids) \subseteq ids
  BY DEF Oldest

LEMMA RecentIsPart == ASSUME NEW ids PROVE Recent(ids) \subseteq ids
  BY NewestIsPart, OldestIsPart DEF Recent

-----------------------------------------------------------------------------
(* The types.                                                               *)

LEMMA SummariesTypeInit == SummariesInit => SummariesTypeInv
  <1> SUFFICES ASSUME SummariesInit PROVE SummariesTypeInv
    OBVIOUS
  <1>1. step \in [Turns -> Steps]
    BY DEF SummariesInit, Steps
  <1>2. keep \in [Turns -> SUBSET (1..lastId)] /\ context \in [Turns -> SUBSET (1..lastId)]
    <2>1. {} \in SUBSET (1..lastId)
      OBVIOUS
    <2> QED
      BY <2>1 DEF SummariesInit
  <1> QED
    BY <1>1, <1>2 DEF SummariesInit, SummariesTypeInv

LEMMA MoveType ==
    ASSUME SummariesTypeInv, NEW t \in Turns, NEW from, NEW to \in Steps, Move(t, from, to)
    PROVE  step' \in [Turns -> Steps]
  BY DEF SummariesTypeInv, Move

LEMMA TypeNext == SummariesTypeInv /\ [SummariesNext]_summaryVars => SummariesTypeInv'
  <1> SUFFICES ASSUME SummariesTypeInv, [SummariesNext]_summaryVars PROVE SummariesTypeInv'
    OBVIOUS
  <1>1. ASSUME NEW t \in Turns, TurnBegins(t) PROVE SummariesTypeInv'
    <2>1. context' \in [Turns -> SUBSET (1..lastId)]
      BY <1>1, RecentIsPart DEF TurnBegins, SummariesTypeInv
    <2>2. step' \in [Turns -> Steps]
      BY <1>1, MoveType DEF TurnBegins, Steps
    <2> QED
      BY <1>1, <2>1, <2>2 DEF TurnBegins, SummariesTypeInv
  <1>2. ASSUME NEW t \in Turns, EnsureStudent(t) PROVE SummariesTypeInv'
    <2>1. step' \in [Turns -> Steps]
      BY <1>2, MoveType DEF EnsureStudent, Steps
    <2> QED
      BY <1>2, <2>1 DEF EnsureStudent, SummariesTypeInv
  <1>3. ASSUME NEW t \in Turns, InsertSummary(t) PROVE SummariesTypeInv'
    <2>1. lastId' = lastId + 1 /\ UNCHANGED <<keep, context, account>>
      BY <1>3 DEF InsertSummary
    <2>2. step' \in [Turns -> Steps]
      BY <1>3, MoveType DEF InsertSummary, Steps
    <2>3. lastId' \in Nat /\ 1..lastId \subseteq 1..lastId' /\ lastId + 1 \in 1..lastId'
      BY <2>1 DEF SummariesTypeInv
    <2>4. keep' \in [Turns -> SUBSET (1..lastId')] /\ context' \in [Turns -> SUBSET (1..lastId')]
      BY <2>1, <2>3 DEF SummariesTypeInv
    <2>5. /\ written' \in {written, written \union {lastId + 1}}
          /\ raced' = raced \/ (raced' = raced \union {lastId + 1} /\ lastId + 1 \in written')
      BY <1>3 DEF InsertSummary
    <2>6. \/ summaries' = summaries
          \/ written' = written \union {lastId + 1} /\ summaries' \subseteq summaries \union {lastId + 1}
      BY <1>3, NewestIsPart DEF InsertSummary
    <2> QED
      BY <2>1, <2>2, <2>3, <2>4, <2>5, <2>6 DEF SummariesTypeInv
  <1>4. ASSUME NEW t \in Turns, TrimSelects(t) PROVE SummariesTypeInv'
    <2>1. keep' \in [Turns -> SUBSET (1..lastId)]
      BY <1>4, NewestIsPart DEF TrimSelects, KeptIds, SummariesTypeInv
    <2>2. step' \in [Turns -> Steps]
      BY <1>4, MoveType DEF TrimSelects, Steps
    <2> QED
      BY <1>4, <2>1, <2>2 DEF TrimSelects, SummariesTypeInv
  <1>5. ASSUME NEW t \in Turns, TrimDeletes(t) PROVE SummariesTypeInv'
    <2>1. step' \in [Turns -> Steps]
      BY <1>5, MoveType DEF TrimDeletes, Steps
    <2> QED
      BY <1>5, <2>1 DEF TrimDeletes, SummariesTypeInv
  <1>6. ASSUME NEW t \in Turns, AppendFails(t) PROVE SummariesTypeInv'
    BY <1>6 DEF AppendFails, SummariesTypeInv, Steps
  <1>7. CASE AccountDeleted
    BY <1>7 DEF AccountDeleted, SummariesTypeInv
  <1>8. CASE UNCHANGED summaryVars
    BY <1>8 DEF summaryVars, SummariesTypeInv
  <1> QED
    BY <1>1, <1>2, <1>3, <1>4, <1>5, <1>6, <1>7, <1>8 DEF SummariesNext

LEMMA TypeInvTypes == SummariesTypeInv => SummariesTypeOK
  BY DEF SummariesTypeInv, SummariesTypeOK, Steps

\* The variables keep their types: nothing is stored, selected or read that was
\* not written since the account was last deleted.
THEOREM SummariesTypes == SummariesSpec => []SummariesTypeOK
  BY SummariesTypeInit, TypeNext, TypeInvTypes, PTL DEF SummariesSpec

-----------------------------------------------------------------------------
(* The window. A turn that has selected must have selected what the window   *)
(* must still hold when it deletes: what came in between is in "raced".       *)

Wanted == Newest(MaxSummaries, written) \ raced

WindowInv ==
  /\ Wanted \subseteq summaries
  /\ \A t \in Turns : step[t] = "selected" => Wanted \subseteq keep[t]
  /\ \A t \in Turns : ~Durable => step[t] \in {"idle", "answering"}

LEMMA WindowInit == SummariesInit => WindowInv
  BY DEF SummariesInit, WindowInv, Wanted, Newest

\* A step that stores nothing new wants nothing new.
LEMMA NothingWanted ==
    ASSUME WindowInv, SummariesTypeInv, UNCHANGED <<written, raced, summaries, keep>>, NEW t \in Turns,
           NEW to \in Steps \ {"selected"}, step' = [step EXCEPT ![t] = to],
           Durable \/ to \in {"idle", "answering"}
    PROVE  WindowInv'
  BY DEF WindowInv, SummariesTypeInv, Wanted, Newest

\* A new id takes no place of an older one that was not among the newest before.
LEMMA WantedAfterInsert ==
    ASSUME SummariesTypeInv, written' = written \union {lastId + 1}, raced \subseteq raced'
    PROVE  Wanted' \subseteq Wanted \union {lastId + 1}
  <1> SUFFICES ASSUME NEW i \in Wanted', i # lastId + 1 PROVE i \in Wanted
    OBVIOUS
  <1>1. i \in Newest(MaxSummaries, written') /\ i \notin raced
    BY DEF Wanted, Newest
  <1>2. i \in written
    BY <1>1, NewestIsPart
  <1>3. lastId + 1 \in Nat /\ written' \in SUBSET (1..(lastId + 1)) /\ written \in SUBSET written'
    BY DEF SummariesTypeInv
  <1>4. i \in Newest(MaxSummaries, written)
    <2>1. MaxSummaries \in Nat
      BY SummariesAssumption
    <2>2. PICK n : n = lastId + 1
      OBVIOUS
    <2>3. PICK ids : ids = written'
      OBVIOUS
    <2>4. PICK part : part = written
      OBVIOUS
    <2>5. /\ n \in Nat /\ ids \in SUBSET (1..n) /\ part \in SUBSET ids /\ i \in part
          /\ i \in Newest(MaxSummaries, ids)
      BY <1>1, <1>2, <1>3, <2>2, <2>3, <2>4
    <2>6. i \in Newest(MaxSummaries, part)
      BY <2>1, <2>5, NewestOfPart
    <2> QED
      BY <2>4, <2>6
  <1> QED
    BY <1>1, <1>4 DEF Wanted

LEMMA WindowInsert ==
    ASSUME SummariesTypeInv, SummariesTypeInv', WindowInv, NEW t \in Turns, InsertSummary(t)
    PROVE  WindowInv'
  <1>1. lastId' = lastId + 1 /\ keep' = keep
    BY DEF InsertSummary
  <1>2. CASE Durable /\ ~account
    <2>1. /\ step' = [step EXCEPT ![t] = "idle"] /\ UNCHANGED <<summaries, written, raced>>
      BY <1>2 DEF InsertSummary, Move
    <2> QED
      BY <1>1, <2>1, NothingWanted DEF Steps
  <1>3. CASE Durable /\ account
    <2>1. /\ step' = [step EXCEPT ![t] = "inserted"]
          /\ summaries' = summaries \union {lastId + 1}
          /\ written' = written \union {lastId + 1}
          /\ raced' = IF \E u \in Turns : step[u] = "selected" THEN raced \union {lastId + 1} ELSE raced
      BY <1>3 DEF InsertSummary, Move
    <2>2. Wanted' \subseteq Wanted \union {lastId + 1}
      BY <2>1, WantedAfterInsert
    <2>3. Wanted' \subseteq summaries'
      BY <2>1, <2>2 DEF WindowInv
    <2>4. ASSUME NEW u \in Turns, step'[u] = "selected" PROVE Wanted' \subseteq keep'[u]
      <3>1. step[u] = "selected"
        BY <2>1, <2>4 DEF SummariesTypeInv
      <3>2. lastId + 1 \in raced'
        BY <2>1, <3>1
      <3> QED
        BY <1>1, <2>2, <3>1, <3>2 DEF Wanted, WindowInv
    <2> QED
      BY <1>3, <2>3, <2>4 DEF WindowInv
  <1>4. CASE ~Durable
    <2>1. /\ step' = [step EXCEPT ![t] = "idle"]
          /\ summaries' = Newest(MaxSummaries, summaries \union {lastId + 1})
          /\ written' = written \union {lastId + 1}
          /\ raced' = raced
      BY <1>4 DEF InsertSummary, Move
    <2>2. \A u \in Turns : step'[u] \in {"idle", "answering"}
      BY <1>4, <2>1 DEF WindowInv, SummariesTypeInv
    <2>3. Wanted' \subseteq Wanted \union {lastId + 1}
      BY <2>1, WantedAfterInsert
    <2>4. Wanted' \subseteq summaries'
      <3> SUFFICES ASSUME NEW i \in Wanted' PROVE i \in summaries'
        OBVIOUS
      <3>1. i \in summaries \union {lastId + 1}
        BY <2>3 DEF WindowInv
      <3>2. i \in Newest(MaxSummaries, written')
        BY DEF Wanted
      <3>3. lastId + 1 \in Nat /\ written' \in SUBSET (1..(lastId + 1))
        BY <2>1 DEF SummariesTypeInv
      <3>4. summaries \union {lastId + 1} \in SUBSET written'
        BY <2>1 DEF SummariesTypeInv
      <3>5. i \in Newest(MaxSummaries, summaries \union {lastId + 1})
        BY <3>1, <3>2, <3>3, <3>4, NewestOfPart, SummariesAssumption
      <3> QED
        BY <2>1, <3>5
    <2> QED
      BY <2>2, <2>4 DEF WindowInv
  <1> QED
    BY <1>2, <1>3, <1>4

LEMMA WindowSelect ==
    ASSUME SummariesTypeInv, WindowInv, NEW t \in Turns, TrimSelects(t)
    PROVE  WindowInv'
  <1>1. /\ UNCHANGED <<summaries, written, raced>>
        /\ keep' = [keep EXCEPT ![t] = Newest(MaxSummaries, summaries)]
        /\ step[t] = "inserted"
        /\ step' \in {[step EXCEPT ![t] = "idle"], [step EXCEPT ![t] = "selected"]}
    BY DEF TrimSelects, KeptIds, Move
  <1>2. Wanted' = Wanted
    BY <1>1 DEF Wanted, Newest
  <1>3. Wanted \subseteq Newest(MaxSummaries, summaries)
    <2> SUFFICES ASSUME NEW i \in Wanted PROVE i \in Newest(MaxSummaries, summaries)
      OBVIOUS
    <2>1. i \in summaries /\ i \in Newest(MaxSummaries, written)
      BY DEF Wanted, WindowInv
    <2>2. lastId \in Nat /\ written \in SUBSET (1..lastId) /\ summaries \in SUBSET written
      BY DEF SummariesTypeInv
    <2> QED
      BY <2>1, <2>2, NewestOfPart, SummariesAssumption
  <1>4. Durable
    BY <1>1 DEF WindowInv
  <1>5. ASSUME NEW u \in Turns, step'[u] = "selected" PROVE Wanted' \subseteq keep'[u]
    <2>1. CASE u = t
      BY <1>1, <1>2, <1>3, <2>1 DEF SummariesTypeInv
    <2>2. CASE u # t
      <3>1. step[u] = "selected" /\ keep'[u] = keep[u]
        BY <1>1, <1>5, <2>2 DEF SummariesTypeInv
      <3> QED
        BY <1>2, <3>1 DEF WindowInv
    <2> QED
      BY <2>1, <2>2
  <1> QED
    BY <1>1, <1>2, <1>4, <1>5 DEF WindowInv

LEMMA WindowNext == SummariesTypeInv /\ SummariesTypeInv' /\ WindowInv /\ [SummariesNext]_summaryVars => WindowInv'
  <1> SUFFICES ASSUME SummariesTypeInv, SummariesTypeInv', WindowInv, [SummariesNext]_summaryVars PROVE WindowInv'
    OBVIOUS
  <1>1. ASSUME NEW t \in Turns, TurnBegins(t) PROVE WindowInv'
    BY <1>1, NothingWanted DEF TurnBegins, Move, Steps
  <1>2. ASSUME NEW t \in Turns, EnsureStudent(t) PROVE WindowInv'
    BY <1>2, NothingWanted DEF EnsureStudent, Move, Steps
  <1>3. ASSUME NEW t \in Turns, TrimDeletes(t) PROVE WindowInv'
    <2>1. /\ step[t] = "selected" /\ step' = [step EXCEPT ![t] = "idle"]
          /\ summaries' = summaries \intersect keep[t]
          /\ UNCHANGED <<keep, written, raced>>
      BY <1>3 DEF TrimDeletes, Move
    <2>2. Wanted' = Wanted
      BY <2>1 DEF Wanted, Newest
    <2>3. Wanted \subseteq summaries /\ Wanted \subseteq keep[t]
      BY <2>1 DEF WindowInv
    <2>4. \A u \in Turns : step'[u] = IF u = t THEN "idle" ELSE step[u]
      BY <2>1 DEF SummariesTypeInv
    <2> QED
      BY <2>1, <2>2, <2>3, <2>4 DEF WindowInv
  <1>4. ASSUME NEW t \in Turns, AppendFails(t) PROVE WindowInv'
    BY <1>4, NothingWanted DEF AppendFails, Steps
  <1>5. CASE AccountDeleted
    BY <1>5 DEF AccountDeleted, WindowInv, Wanted, Newest
  <1>6. CASE UNCHANGED summaryVars
    BY <1>6 DEF summaryVars, WindowInv, Wanted, Newest
  <1> QED
    BY <1>1, <1>2, <1>3, <1>4, <1>5, <1>6, WindowInsert, WindowSelect DEF SummariesNext

\* However turns overlap, whichever statements fail and whenever the account is
\* deleted and made anew, the newest summaries are stored, but for those that came
\* between the two statements of another turn's trim().
THEOREM WindowHolds == SummariesSpec => []WindowHoldsTheNewest
  <1>1. SummariesInit => SummariesTypeInv /\ WindowInv
    BY SummariesTypeInit, WindowInit
  <1>2. SummariesTypeInv /\ WindowInv /\ [SummariesNext]_summaryVars => (SummariesTypeInv /\ WindowInv)'
    BY TypeNext, WindowNext
  <1>3. WindowInv => WindowHoldsTheNewest
    BY DEF WindowInv, Wanted, WindowHoldsTheNewest
  <1> QED
    BY <1>1, <1>2, <1>3, PTL DEF SummariesSpec

-----------------------------------------------------------------------------
(* Sign-in.                                                                *)

Otp == [mail : Mails, expires : Nat, consumed : BOOLEAN]
Bucket == [count : Nat, windowStart : Nat]

-----------------------------------------------------------------------------
(* The days.                                                                *)

LEMMA Times == ASSUME NEW d \in Nat, NEW a \in Int, NEW b \in Int, a <= b PROVE d * a <= d * b
  OBVIOUS

LEMMA Day ==
    ASSUME NEW t \in Nat
    PROVE  /\ t \div DayLength \in Nat
           /\ WindowStart(t) = DayLength * (t \div DayLength)
           /\ WindowStart(t) <= t /\ t < WindowStart(t) + DayLength
           /\ WindowStart(t) \in Nat
  <1>1. DayLength \in Nat /\ DayLength > 0
    BY SignInAssumption
  <1>2. /\ t = (DayLength * (t \div DayLength)) + (t % DayLength)
        /\ t % DayLength \in 0..(DayLength - 1)
        /\ t \div DayLength \in Nat
    BY <1>1
  <1>3. DayLength * (t \div DayLength) \in Nat
    BY <1>1, <1>2
  <1> QED
    BY <1>1, <1>2, <1>3 DEF WindowStart

\* Days do not run backwards.
LEMMA DaysPass == ASSUME NEW t \in Nat PROVE WindowStart(t) <= WindowStart(t + 1)
  <1> DEFINE q == t \div DayLength
             r == (t + 1) \div DayLength
  <1>1. DayLength \in Nat /\ DayLength > 0
    BY SignInAssumption
  <1>2. /\ q \in Nat /\ WindowStart(t) = DayLength * q /\ WindowStart(t) <= t
        /\ r \in Nat /\ WindowStart(t + 1) = DayLength * r /\ t + 1 < WindowStart(t + 1) + DayLength
    BY Day
  <1>3. ASSUME r < q PROVE FALSE
    <2>1. r + 1 <= q
      BY <1>2, <1>3
    <2>2. DayLength * (r + 1) <= DayLength * q
      BY <1>1, <1>2, <2>1, Times
    <2>3. DayLength * (r + 1) = DayLength * r + DayLength
      BY <1>1, <1>2
    <2> HIDE DEF q, r
    <2> QED
      BY <1>1, <1>2, <2>2, <2>3
  <1>4. q <= r
    BY <1>2, <1>3
  <1>5. DayLength * q <= DayLength * r
    BY <1>1, <1>2, <1>4, Times
  <1> QED
    BY <1>2, <1>5

-----------------------------------------------------------------------------
(* The types.                                                               *)

LEMMA SignInTypesInit == SignInInit => SignInTypeOK
  BY DEF SignInInit, SignInTypeOK, NoVerification

\* What the limiter answers, and the bucket it leaves.
LEMMA Consumed ==
    ASSUME SignInTypeOK, NEW ip \in Ips
    PROVE  LET a == ConsumeRequest(buckets[ip], tick)
           IN  /\ a.ok \in BOOLEAN
               /\ a.bucket \in Bucket
               /\ ~a.ok => a.bucket = buckets[ip] /\ a.bucket.count >= IssueLimit
               /\ a.ok => \/ /\ a.bucket = [count |-> 1, windowStart |-> WindowStart(tick)]
                             /\ buckets[ip].count = 0 \/ buckets[ip].windowStart < WindowStart(tick)
                          \/ /\ buckets[ip].count < IssueLimit
                             /\ buckets[ip].count # 0 /\ ~(buckets[ip].windowStart < WindowStart(tick))
                             /\ a.bucket.count = buckets[ip].count + 1
                             /\ a.bucket.windowStart = buckets[ip].windowStart
  <1> DEFINE b == buckets[ip]
  <1>1. b \in Bucket /\ WindowStart(tick) \in Nat /\ IssueLimit \in Nat
    BY Day, SignInAssumption DEF SignInTypeOK, Bucket
  <1>2. CASE b.count = 0 \/ b.windowStart < WindowStart(tick)
    <2>1. ConsumeRequest(b, tick) = [ok |-> TRUE, bucket |-> [count |-> 1, windowStart |-> WindowStart(tick)]]
      BY <1>2 DEF ConsumeRequest
    <2> QED
      BY <1>1, <1>2, <2>1 DEF Bucket
  <1>3. CASE ~(b.count = 0 \/ b.windowStart < WindowStart(tick)) /\ b.count >= IssueLimit
    <2>1. ConsumeRequest(b, tick) = [ok |-> FALSE, bucket |-> b]
      BY <1>3 DEF ConsumeRequest
    <2> QED
      BY <1>1, <1>3, <2>1
  <1>4. CASE ~(b.count = 0 \/ b.windowStart < WindowStart(tick)) /\ ~(b.count >= IssueLimit)
    <2>1. ConsumeRequest(b, tick) = [ok |-> TRUE, bucket |-> [b EXCEPT !.count = @ + 1]]
      BY <1>4 DEF ConsumeRequest
    <2>2. /\ [b EXCEPT !.count = @ + 1] \in Bucket
          /\ [b EXCEPT !.count = @ + 1].count = b.count + 1
          /\ [b EXCEPT !.count = @ + 1].windowStart = b.windowStart
      BY <1>1 DEF Bucket
    <2> QED
      <3>1. /\ ConsumeRequest(b, tick).ok
            /\ ConsumeRequest(b, tick).bucket = [b EXCEPT !.count = @ + 1]
        BY <2>1
      <3>2. b.count < IssueLimit /\ b.count # 0 /\ ~(b.windowStart < WindowStart(tick))
        BY <1>1, <1>4 DEF Bucket
      <3> QED
        BY <2>1, <2>2, <3>1, <3>2
  <1> QED
    BY <1>2, <1>3, <1>4

LEMMA IssueTypes ==
    ASSUME SignInTypeOK, NEW ip \in Ips, NEW mail \in Mails, IssueCode(ip, mail)
    PROVE  /\ SignInTypeOK'
           /\ DOMAIN otps \subseteq DOMAIN otps'
           /\ \A i \in DOMAIN otps : otps'[i] = otps[i]
  <1> DEFINE a == ConsumeRequest(buckets[ip], tick)
             code == [mail |-> mail, expires |-> tick + OtpTtl, consumed |-> FALSE]
  <1>1. /\ buckets' = [buckets EXCEPT ![ip] = a.bucket]
        /\ \/ otps' = Append(otps, code) /\ inbox' \in {inbox, inbox \union {Len(otps) + 1}}
           \/ UNCHANGED <<otps, inbox>>
        /\ served' = [served EXCEPT ![ip] = IF a.ok THEN @ + 1 ELSE @]
        /\ UNCHANGED <<tick, verifying, cookie, redeemed>>
    BY DEF IssueCode
  <1>2. a.bucket \in Bucket /\ a.ok \in BOOLEAN
    BY Consumed
  <1>3. code \in Otp
    BY SignInAssumption DEF Otp, SignInTypeOK
  <1>4. otps \in Seq(Otp)
    BY DEF SignInTypeOK, Otp
  <1>5. /\ otps' \in Seq(Otp) /\ DOMAIN otps \subseteq DOMAIN otps'
        /\ \A i \in DOMAIN otps : otps'[i] = otps[i]
        /\ inbox' \subseteq DOMAIN otps'
    <2>1. CASE UNCHANGED <<otps, inbox>>
      BY <1>4, <2>1 DEF SignInTypeOK
    <2>2. CASE otps' = Append(otps, code) /\ inbox' \in {inbox, inbox \union {Len(otps) + 1}}
      <3>1. /\ otps' \in Seq(Otp) /\ Len(otps') = Len(otps) + 1 /\ Len(otps) \in Nat
            /\ \A i \in 1..Len(otps) : otps'[i] = otps[i]
        BY <1>3, <1>4, <2>2
      <3>2. DOMAIN otps = 1..Len(otps) /\ DOMAIN otps' = 1..(Len(otps) + 1)
        BY <1>4, <3>1
      <3> QED
        BY <2>2, <3>1, <3>2 DEF SignInTypeOK
    <2> QED
      BY <1>1, <2>1, <2>2
  <1>6. buckets' \in [Ips -> Bucket]
    BY <1>1, <1>2 DEF SignInTypeOK, Bucket
  <1>7. served' \in [Ips -> Nat]
    BY <1>1 DEF SignInTypeOK
  <1>8. verifying' \in [Verifiers -> [row : {0} \union DOMAIN otps', marked : BOOLEAN, late : BOOLEAN]]
    BY <1>1, <1>5 DEF SignInTypeOK
  <1> QED
    BY <1>1, <1>5, <1>6, <1>7, <1>8 DEF SignInTypeOK, Otp, Bucket

LEMMA ReadTypes ==
    ASSUME SignInTypeOK, NEW v \in Verifiers, NEW code \in inbox, VerifyRead(v, code)
    PROVE  SignInTypeOK'
  <1>1. code \in DOMAIN otps
    BY DEF SignInTypeOK
  <1> QED
    BY <1>1 DEF VerifyRead, SignInTypeOK

\* The row of a verification exists and is marked in place.
LEMMA ConsumeTypes ==
    ASSUME SignInTypeOK, NEW v \in Verifiers, VerifyConsume(v)
    PROVE  /\ SignInTypeOK'
           /\ DOMAIN otps' = DOMAIN otps
           /\ \A i \in DOMAIN otps : otps'[i].consumed = (otps[i].consumed \/ i = verifying[v].row)
  <1> DEFINE c == verifying[v].row
  <1>1. c \in DOMAIN otps
    BY DEF VerifyConsume, SignInTypeOK
  <1>2. otps' = [otps EXCEPT ![c].consumed = TRUE]
    BY DEF VerifyConsume
  <1>3. otps \in Seq(Otp) /\ Len(otps) \in Nat /\ DOMAIN otps = 1..Len(otps)
    BY DEF SignInTypeOK, Otp
  <1>4. otps[c] \in Otp
    BY <1>1, <1>3
  <1>5. [otps[c] EXCEPT !.consumed = TRUE] \in Otp /\ [otps[c] EXCEPT !.consumed = TRUE].consumed
    BY <1>4 DEF Otp
  <1>6. /\ DOMAIN otps' = DOMAIN otps
        /\ otps'[c] = [otps[c] EXCEPT !.consumed = TRUE]
        /\ \A i \in DOMAIN otps : i # c => otps'[i] = otps[i]
    BY <1>1, <1>2
  <1>6a. \A i \in 1..Len(otps) : otps'[i] \in Otp
    BY <1>3, <1>5, <1>6
  <1>7. otps' \in [1..Len(otps) -> Otp]
    BY <1>2, <1>3, <1>6, <1>6a
  <1>8. otps' \in Seq(Otp)
    BY <1>3, <1>7
  <1>9. verifying' \in [Verifiers -> [row : {0} \union DOMAIN otps, marked : BOOLEAN, late : BOOLEAN]]
    BY DEF VerifyConsume, SignInTypeOK
  <1>10. SignInTypeOK'
    BY <1>6, <1>8, <1>9 DEF VerifyConsume, SignInTypeOK, Otp
  <1>11. \A i \in DOMAIN otps : otps'[i].consumed = (otps[i].consumed \/ i = c)
    <2> TAKE i \in DOMAIN otps
    <2>1. otps[i] \in Otp
      BY <1>3
    <2>2. otps[i].consumed \in BOOLEAN
      BY <2>1 DEF Otp
    <2>3. CASE i = c
      <3>1. otps'[i].consumed = TRUE
        BY <1>5, <1>6, <2>3
      <3> QED
        BY <2>2, <2>3, <3>1
    <2>4. CASE i # c
      <3>1. otps'[i].consumed = otps[i].consumed
        BY <1>6, <2>4
      <3> QED
        BY <2>2, <2>4, <3>1
    <2> QED
      BY <2>3, <2>4
  <1> QED
    BY <1>6, <1>10, <1>11

LEMMA AnswerTypes ==
    ASSUME SignInTypeOK, NEW v \in Verifiers, NEW signed \in BOOLEAN, VerifyAnswer(v, signed),
           verifying[v].row # 0
    PROVE  SignInTypeOK'
  <1> DEFINE c == verifying[v].row
  <1>1. c \in DOMAIN otps /\ otps \in Seq(Otp)
    BY DEF SignInTypeOK, Otp
  <1>2. otps[c] \in Otp
    BY <1>1
  <1>3. otps[c].mail \in Mails
    BY <1>2 DEF Otp
  <1>4. cookie' \subseteq Mails /\ redeemed' \subseteq DOMAIN otps
    BY <1>1, <1>3 DEF VerifyAnswer, SignInTypeOK
  <1>5. verifying' \in [Verifiers -> [row : {0} \union DOMAIN otps, marked : BOOLEAN, late : BOOLEAN]]
    BY DEF VerifyAnswer, SignInTypeOK, NoVerification
  <1> QED
    BY <1>4, <1>5 DEF VerifyAnswer, SignInTypeOK

\* A verification that has marked a row has one.
MarkedHasRow == \A v \in Verifiers : verifying[v].marked => verifying[v].row # 0

LEMMA SignInTypesNext ==
    SignInTypeOK /\ MarkedHasRow /\ [SignInNext]_signInVars => SignInTypeOK' /\ MarkedHasRow'
  <1> SUFFICES ASSUME SignInTypeOK, MarkedHasRow, [SignInNext]_signInVars
               PROVE  SignInTypeOK' /\ MarkedHasRow'
    OBVIOUS
  <1>1. ASSUME NEW ip \in Ips, NEW mail \in Mails, IssueCode(ip, mail) PROVE SignInTypeOK' /\ MarkedHasRow'
    BY <1>1, IssueTypes DEF IssueCode, MarkedHasRow
  <1>2. ASSUME NEW v \in Verifiers, NEW code \in inbox, VerifyRead(v, code) PROVE SignInTypeOK' /\ MarkedHasRow'
    BY <1>2, ReadTypes DEF VerifyRead, MarkedHasRow, SignInTypeOK
  <1>3. ASSUME NEW v \in Verifiers, VerifyConsume(v) PROVE SignInTypeOK' /\ MarkedHasRow'
    <2>1. SignInTypeOK'
      BY <1>3, ConsumeTypes
    <2>2. /\ verifying'[v].row = verifying[v].row /\ verifying[v].row # 0
          /\ \A u \in Verifiers : u # v => verifying'[u] = verifying[u]
      BY <1>3 DEF VerifyConsume, SignInTypeOK
    <2>3. MarkedHasRow'
      BY <2>2 DEF MarkedHasRow
    <2> QED
      BY <2>1, <2>3
  <1>4. ASSUME NEW v \in Verifiers, NEW signed \in BOOLEAN, VerifyAnswer(v, signed)
        PROVE  SignInTypeOK' /\ MarkedHasRow'
    <2>1. verifying[v].row # 0
      BY <1>4 DEF VerifyAnswer, MarkedHasRow
    <2> QED
      BY <1>4, <2>1, AnswerTypes DEF VerifyAnswer, MarkedHasRow, SignInTypeOK, NoVerification
  <1>5. ASSUME NEW mail \in Mails, Logout(mail) PROVE SignInTypeOK' /\ MarkedHasRow'
    BY <1>5 DEF Logout, SignInTypeOK, MarkedHasRow
  <1>6. CASE TimePasses
    BY <1>6 DEF TimePasses, SignInTypeOK, MarkedHasRow
  <1>7. CASE ServerRestarts
    BY <1>7 DEF ServerRestarts, SignInTypeOK, MarkedHasRow, NoVerification
  <1>8. CASE UNCHANGED signInVars
    BY <1>8 DEF signInVars, SignInTypeOK, MarkedHasRow
  <1> QED
    BY <1>1, <1>2, <1>3, <1>4, <1>5, <1>6, <1>7, <1>8 DEF SignInNext

LEMMA MarkedInit == SignInInit => MarkedHasRow
  BY DEF SignInInit, MarkedHasRow, NoVerification

\* Rows, buckets and verifications keep their types for any limits.
THEOREM SignInTypes == SignInSpec => []SignInTypeOK
  BY SignInTypesInit, MarkedInit, SignInTypesNext, PTL DEF SignInSpec

-----------------------------------------------------------------------------
(* A code that brought a session.                                           *)

LEMMA SmallestOf == ASSUME NEW S \in SUBSET Nat, S # {} PROVE \E k \in S : \A m \in S : k <= m
  <1>1. PICK k \in S : \A m \in S : <<m, k>> \notin OpToRel(<, Nat)
    BY NatLessThanWellFounded, WFMin
  <1>2. \A m \in S : ~(m < k)
    BY <1>1 DEF OpToRel
  <1> QED
    BY <1>2

\* The row the select finds is one that can be used, or none.
LEMMA PendingIsLive ==
    ASSUME SignInTypeOK, NEW mail, PendingRow(mail) # 0
    PROVE  PendingRow(mail) \in DOMAIN otps /\ Live(PendingRow(mail))
  <1> DEFINE own == {i \in DOMAIN otps : otps[i].mail = mail /\ Live(i)}
             n == Len(otps)
             down == {n - i : i \in own \union {0}}
  <1>1. n \in Nat /\ DOMAIN otps = 1..n
    BY DEF SignInTypeOK
  <1>2. own \subseteq 1..n
    BY <1>1
  <1>3. down \in SUBSET Nat /\ down # {}
    BY <1>1, <1>2
  <1>4. PICK k \in down : \A m \in down : k <= m
    BY <1>3, SmallestOf
  <1>5. PICK i \in own \union {0} : k = n - i
    BY <1>4
  <1>6. \A j \in own : j <= i
    <2> TAKE j \in own
    <2>1. n - j \in down
      OBVIOUS
    <2>2. k <= n - j
      BY <1>4, <2>1
    <2>3. i \in Int /\ j \in Int /\ n \in Int
      BY <1>1, <1>2
    <2> HIDE DEF own, down, n
    <2> QED
      BY <1>5, <2>2, <2>3
  <1>7. PendingRow(mail) \in own \union {0}
    BY <1>5, <1>6 DEF PendingRow
  <1> QED
    BY <1>7

\* Whoever redeemed a code, or is about to, has marked its row.
DeadInv ==
  /\ \A c \in redeemed : otps[c].consumed
  /\ \A v \in Verifiers : verifying[v].marked => otps[verifying[v].row].consumed
  /\ RedeemedCodeStaysDead

LEMMA DeadInit == SignInInit => DeadInv
  BY DEF SignInInit, DeadInv, RedeemedCodeStaysDead, NoVerification

LEMMA DeadNext == SignInTypeOK /\ MarkedHasRow /\ DeadInv /\ [SignInNext]_signInVars => DeadInv'
  <1> SUFFICES ASSUME SignInTypeOK, MarkedHasRow, DeadInv, [SignInNext]_signInVars PROVE DeadInv'
    OBVIOUS
  <1>0. /\ redeemed \subseteq DOMAIN otps
        /\ \A v \in Verifiers : verifying[v].marked => verifying[v].row \in DOMAIN otps
    BY DEF SignInTypeOK, MarkedHasRow
  <1>1. ASSUME NEW ip \in Ips, NEW mail \in Mails, IssueCode(ip, mail) PROVE DeadInv'
    <2>1. /\ \A i \in DOMAIN otps : otps'[i] = otps[i]
          /\ UNCHANGED <<verifying, redeemed>>
      BY <1>1, IssueTypes DEF IssueCode
    <2> QED
      BY <1>0, <2>1 DEF DeadInv, RedeemedCodeStaysDead
  <1>2. ASSUME NEW v \in Verifiers, NEW code \in inbox, VerifyRead(v, code) PROVE DeadInv'
    <2>1. PendingRow(otps[code].mail) = code /\ code # 0
      BY <1>2 DEF VerifyRead, SignInTypeOK
    <2>2. Live(code)
      BY <2>1, PendingIsLive
    <2>3. code \notin redeemed
      BY <2>2 DEF Live, DeadInv
    <2>4. \A u \in Verifiers : verifying'[u] =
             IF u = v THEN [row |-> code, marked |-> FALSE, late |-> code \in redeemed] ELSE verifying[u]
      BY <1>2 DEF VerifyRead, SignInTypeOK
    <2>5. ~verifying'[v].marked /\ ~verifying'[v].late
      <3> DEFINE e == [row |-> code, marked |-> FALSE, late |-> code \in redeemed]
      <3>1. e.marked = FALSE /\ e.late = (code \in redeemed)
        OBVIOUS
      <3>2. verifying'[v] = e
        BY <2>4
      <3> HIDE DEF e
      <3> QED
        BY <2>3, <3>1, <3>2
    <2>6. \A u \in Verifiers : u # v => verifying'[u] = verifying[u]
      BY <2>4
    <2> QED
      BY <1>2, <2>5, <2>6 DEF VerifyRead, DeadInv, RedeemedCodeStaysDead
  <1>3. ASSUME NEW v \in Verifiers, VerifyConsume(v) PROVE DeadInv'
    <2>1. \A i \in DOMAIN otps : otps'[i].consumed = (otps[i].consumed \/ i = verifying[v].row)
      BY <1>3, ConsumeTypes
    <2>2. /\ \A u \in Verifiers : u # v => verifying'[u] = verifying[u]
          /\ verifying'[v].row = verifying[v].row /\ verifying'[v].late = verifying[v].late
          /\ verifying[v].row # 0
          /\ redeemed' = redeemed
      BY <1>3 DEF VerifyConsume, SignInTypeOK
    <2>3. verifying[v].row \in DOMAIN otps
      BY <2>2 DEF SignInTypeOK
    <2>4. \A c \in redeemed : otps'[c].consumed
      BY <1>0, <2>1 DEF DeadInv
    <2>5. ASSUME NEW u \in Verifiers, verifying'[u].marked PROVE otps'[verifying'[u].row].consumed
      BY <1>0, <2>1, <2>2, <2>3, <2>5 DEF DeadInv
    <2>6. \A u \in Verifiers : ~verifying'[u].late
      BY <2>2 DEF DeadInv, RedeemedCodeStaysDead
    <2> QED
      BY <2>2, <2>4, <2>5, <2>6 DEF DeadInv, RedeemedCodeStaysDead
  <1>4. ASSUME NEW v \in Verifiers, NEW signed \in BOOLEAN, VerifyAnswer(v, signed) PROVE DeadInv'
    <2>1. /\ otps' = otps /\ redeemed' \subseteq redeemed \union {verifying[v].row}
          /\ verifying[v].marked
      BY <1>4 DEF VerifyAnswer
    <2>2. \A u \in Verifiers : verifying'[u] = IF u = v THEN NoVerification ELSE verifying[u]
      BY <1>4 DEF VerifyAnswer, SignInTypeOK
    <2> QED
      BY <2>1, <2>2 DEF DeadInv, RedeemedCodeStaysDead, NoVerification
  <1>5. ASSUME NEW mail \in Mails, Logout(mail) PROVE DeadInv'
    BY <1>5 DEF Logout, DeadInv, RedeemedCodeStaysDead
  <1>6. CASE TimePasses
    BY <1>6 DEF TimePasses, DeadInv, RedeemedCodeStaysDead
  <1>7. CASE ServerRestarts
    BY <1>7 DEF ServerRestarts, DeadInv, RedeemedCodeStaysDead, NoVerification
  <1>8. CASE UNCHANGED signInVars
    BY <1>8 DEF signInVars, DeadInv, RedeemedCodeStaysDead
  <1> QED
    BY <1>1, <1>2, <1>3, <1>4, <1>5, <1>6, <1>7, <1>8 DEF SignInNext

\* Nobody starts a verification with a code that already brought a session,
\* whatever newer or older codes, restarts and expiries lie between.
THEOREM RedeemedCodes == SignInSpec => []RedeemedCodeStaysDead
  <1>1. SignInInit => SignInTypeOK /\ MarkedHasRow /\ DeadInv
    BY SignInTypesInit, MarkedInit, DeadInit
  <1>2. SignInTypeOK /\ MarkedHasRow /\ DeadInv /\ [SignInNext]_signInVars
          => (SignInTypeOK /\ MarkedHasRow /\ DeadInv)'
    BY SignInTypesNext, DeadNext
  <1>3. DeadInv => RedeemedCodeStaysDead
    BY DEF DeadInv
  <1> QED
    BY <1>1, <1>2, <1>3, PTL DEF SignInSpec

-----------------------------------------------------------------------------
(* The quota.                                                               *)

\* A bucket of today has counted what was served today, one of an earlier day or
\* of no request has nothing to count.
QuotaInv ==
  \A ip \in Ips :
    /\ buckets[ip].count <= IssueLimit
    /\ buckets[ip].windowStart <= WindowStart(tick)
    /\ IF buckets[ip].count = 0 \/ buckets[ip].windowStart < WindowStart(tick)
       THEN served[ip] = 0
       ELSE served[ip] = buckets[ip].count

LEMMA QuotaInit == SignInInit => QuotaInv
  <1> SUFFICES ASSUME SignInInit PROVE QuotaInv
    OBVIOUS
  <1>1. WindowStart(tick) \in Nat /\ IssueLimit \in Nat
    BY Day, SignInAssumption DEF SignInInit
  <1> QED
    BY <1>1 DEF SignInInit, QuotaInv

LEMMA QuotaIssue ==
    ASSUME SignInTypeOK, QuotaInv, NEW ip \in Ips, NEW mail \in Mails, IssueCode(ip, mail)
    PROVE  QuotaInv'
  <1> DEFINE a == ConsumeRequest(buckets[ip], tick)
  <1>1. /\ buckets' = [buckets EXCEPT ![ip] = a.bucket] /\ tick' = tick
        /\ served' = [served EXCEPT ![ip] = IF a.ok THEN @ + 1 ELSE @]
    BY DEF IssueCode
  <1>2. WindowStart(tick') = WindowStart(tick) /\ WindowStart(tick) \in Nat /\ IssueLimit \in Nat \ {0}
    BY <1>1, Day, SignInAssumption DEF SignInTypeOK
  <1>3. ASSUME NEW q \in Ips, q # ip PROVE buckets'[q] = buckets[q] /\ served'[q] = served[q]
    BY <1>1, <1>3 DEF SignInTypeOK
  <1>4. /\ buckets'[ip] = a.bucket /\ served'[ip] = IF a.ok THEN served[ip] + 1 ELSE served[ip]
        /\ buckets[ip] \in Bucket /\ served[ip] \in Nat
    BY <1>1 DEF SignInTypeOK, Bucket
  <1>5. /\ buckets'[ip].count <= IssueLimit
        /\ buckets'[ip].windowStart <= WindowStart(tick)
        /\ IF buckets'[ip].count = 0 \/ buckets'[ip].windowStart < WindowStart(tick)
           THEN served'[ip] = 0
           ELSE served'[ip] = buckets'[ip].count
    <2>1. a.bucket \in Bucket /\ a.ok \in BOOLEAN
      BY Consumed
    <2>2. CASE ~a.ok
      BY <1>4, <2>2, Consumed DEF QuotaInv
    <2>3. CASE a.ok /\ (buckets[ip].count = 0 \/ buckets[ip].windowStart < WindowStart(tick))
      <3>1. a.bucket = [count |-> 1, windowStart |-> WindowStart(tick)]
        BY <2>3, Consumed
      <3>2. served[ip] = 0
        BY <2>3 DEF QuotaInv
      <3> QED
        BY <1>2, <1>4, <2>3, <3>1, <3>2
    <2>4. CASE a.ok /\ ~(buckets[ip].count = 0 \/ buckets[ip].windowStart < WindowStart(tick))
      <3>1. /\ buckets[ip].count < IssueLimit /\ a.bucket.count = buckets[ip].count + 1
            /\ a.bucket.windowStart = buckets[ip].windowStart
        BY <2>4, Consumed
      <3>2. served[ip] = buckets[ip].count /\ buckets[ip].windowStart <= WindowStart(tick)
        BY <2>4 DEF QuotaInv
      <3>3. buckets[ip].count \in Nat /\ buckets[ip].windowStart \in Nat
        BY <1>4 DEF Bucket
      <3> QED
        BY <1>2, <1>4, <2>4, <3>1, <3>2, <3>3
    <2> QED
      BY <2>1, <2>2, <2>3, <2>4
  <1> QED
    BY <1>2, <1>3, <1>5 DEF QuotaInv

LEMMA QuotaTime == ASSUME SignInTypeOK, QuotaInv, TimePasses PROVE QuotaInv'
  <1>1. /\ tick' = tick + 1 /\ buckets' = buckets
        /\ served' = IF WindowStart(tick + 1) > WindowStart(tick) THEN [i \in Ips |-> 0] ELSE served
    BY DEF TimePasses
  <1>2. /\ WindowStart(tick) \in Nat /\ WindowStart(tick') \in Nat
        /\ WindowStart(tick) <= WindowStart(tick')
    <2>1. tick \in Nat /\ tick + 1 \in Nat
      BY DEF SignInTypeOK
    <2>2. WindowStart(tick') = WindowStart(tick + 1)
      BY <1>1
    <2> QED
      BY <2>1, <2>2, Day, DaysPass
  <1>3. \A ip \in Ips : buckets[ip].windowStart \in Nat
    BY DEF SignInTypeOK
  <1>4. CASE WindowStart(tick') = WindowStart(tick)
    <2>1. served' = served
      BY <1>1, <1>2, <1>4
    <2> QED
      BY <1>1, <1>4, <2>1 DEF QuotaInv
  <1>5. CASE WindowStart(tick') > WindowStart(tick)
    <2>1. \A ip \in Ips : served'[ip] = 0 /\ buckets[ip].windowStart < WindowStart(tick')
      BY <1>1, <1>2, <1>3, <1>5 DEF QuotaInv
    <2> QED
      BY <1>1, <2>1, <1>2, <1>3 DEF QuotaInv
  <1> QED
    BY <1>2, <1>4, <1>5

LEMMA QuotaNext == SignInTypeOK /\ QuotaInv /\ [SignInNext]_signInVars => QuotaInv'
  <1> SUFFICES ASSUME SignInTypeOK, QuotaInv, [SignInNext]_signInVars PROVE QuotaInv'
    OBVIOUS
  <1>1. CASE ServerRestarts
    <2>1. WindowStart(tick) \in Nat /\ IssueLimit \in Nat
      BY Day, SignInAssumption DEF SignInTypeOK
    <2> QED
      BY <1>1, <2>1 DEF ServerRestarts, QuotaInv
  <1>2. ASSUME NEW v \in Verifiers, NEW code, VerifyRead(v, code) PROVE QuotaInv'
    BY <1>2 DEF VerifyRead, QuotaInv
  <1>3. ASSUME NEW v \in Verifiers, VerifyConsume(v) PROVE QuotaInv'
    BY <1>3 DEF VerifyConsume, QuotaInv
  <1>4. ASSUME NEW v \in Verifiers, NEW signed \in BOOLEAN, VerifyAnswer(v, signed) PROVE QuotaInv'
    BY <1>4 DEF VerifyAnswer, QuotaInv
  <1>5. ASSUME NEW mail \in Mails, Logout(mail) PROVE QuotaInv'
    BY <1>5 DEF Logout, QuotaInv
  <1>6. CASE UNCHANGED signInVars
    BY <1>6 DEF signInVars, QuotaInv
  <1> QED
    BY <1>1, <1>2, <1>3, <1>4, <1>5, <1>6, QuotaIssue, QuotaTime DEF SignInNext

\* Every caller gets the codes of its daily quota, no more and no fewer, wherever
\* midnight falls between its requests.
THEOREM QuotaHolds == SignInSpec => []DailyQuota
  <1>1. SignInInit => SignInTypeOK /\ MarkedHasRow /\ QuotaInv
    BY SignInTypesInit, MarkedInit, QuotaInit
  <1>2. SignInTypeOK /\ MarkedHasRow /\ QuotaInv /\ [SignInNext]_signInVars
          => (SignInTypeOK /\ MarkedHasRow /\ QuotaInv)'
    BY SignInTypesNext, QuotaNext
  <1>3. SignInTypeOK /\ QuotaInv => DailyQuota
    <2> SUFFICES ASSUME SignInTypeOK, QuotaInv, NEW ip \in Ips
                 PROVE  /\ served[ip] <= IssueLimit
                        /\ served[ip] < IssueLimit => ConsumeRequest(buckets[ip], tick).ok
      BY DEF DailyQuota
    <2>1. IssueLimit \in Nat /\ served[ip] \in Nat /\ buckets[ip].count \in Nat
      BY SignInAssumption DEF SignInTypeOK
    <2> QED
      BY <2>1 DEF QuotaInv, ConsumeRequest
  <1> QED
    BY <1>1, <1>2, <1>3, PTL DEF SignInSpec

-----------------------------------------------------------------------------
(* The reply that passes.                                                  *)

\* A reply keeps its quotations with their passages, and is judged once, as it
\* then stands.
JudgedInv ==
  /\ IsList(draftReply) /\ Quoted(draftReply)
  /\ verdict # Unjudged => draftReply # <<>> /\ verdict = ValidateResponse(draftReply)

LEMMA QuotedTogether ==
    ASSUME NEW r, NEW s, IsList(r), IsList(s), Quoted(r), Quoted(s)
    PROVE  IsList(r \o s) /\ Quoted(r \o s)
  <1>1. PICK n, m, q : n = Len(r) /\ m = Len(s) /\ q = r \o s
    OBVIOUS
  <1>2. /\ n \in Nat /\ m \in Nat /\ IsList(q) /\ Len(q) = n + m
        /\ \A i \in 1..n : q[i] = r[i]
        /\ \A i \in 1..m : q[n + i] = s[i]
        /\ DOMAIN r = 1..n /\ DOMAIN s = 1..m /\ DOMAIN q = 1..(n + m)
    BY <1>1, ConcatIsList, ListProperties
  <1>3. ASSUME NEW i \in 1..(n + m), q[i].k = "quote" PROVE i < n + m /\ q[i + 1].k = "passage"
    <2>1. CASE i \in 1..n
      <3>1. i < n /\ r[i + 1].k = "passage"
        BY <1>1, <1>2, <1>3, <2>1 DEF Quoted
      <3>2. i + 1 \in 1..n
        BY <1>2, <2>1, <3>1
      <3> QED
        BY <1>2, <3>1, <3>2
    <2>2. CASE i \notin 1..n
      <3>1. PICK j \in 1..m : i = n + j
        <4>1. i - n \in 1..m /\ i = n + (i - n)
          BY <1>2, <2>2
        <4> QED
          BY <4>1
      <3>2. j < m /\ s[j + 1].k = "passage"
        BY <1>1, <1>2, <1>3, <3>1 DEF Quoted
      <3>3. j + 1 \in 1..m /\ n + (j + 1) = i + 1
        BY <1>2, <3>1, <3>2, SMTT(30)
      <3>4. q[n + (j + 1)] = s[j + 1]
        BY <1>2, <3>3
      <3> QED
        BY <1>2, <3>1, <3>2, <3>3, <3>4
    <2> QED
      BY <2>1, <2>2
  <1> QED
    BY <1>1, <1>2, <1>3 DEF Quoted

LEMMA JudgedInit == ValidatorInit => JudgedInv
  <1>1. Quoted(<<>>)
    BY DEF Quoted
  <1> QED
    BY <1>1, NothingIsAList DEF ValidatorInit, JudgedInv

\* The verdict is about the reply, the question, the results and the plan.
LEMMA SameVerdict ==
    ASSUME UNCHANGED <<asked, invoked, storedPlan, f1>>, NEW r
    PROVE  ValidateResponse(r)' = ValidateResponse(r)
  BY DEF ValidateResponse, CheckGrounding, CheckInvocations, CheckCompleteness, CheckVerbatim,
         CheckAttribution, CheckShortfall, CheckPlanClaims, IsDerivable, Grounds, Tier2Estimate, Called,
         Retrieved, IsGrounded, PlacementDiffers, LockDiffers, TermsOf

LEMMA JudgedNext == JudgedInv /\ [ValidatorNext]_validatorVars => JudgedInv'
  <1> SUFFICES ASSUME JudgedInv, [ValidatorNext]_validatorVars PROVE JudgedInv'
    OBVIOUS
  <1>1. ASSUME NEW c \in Invocations, CallTool(c) PROVE JudgedInv'
    BY <1>1 DEF JudgedInv, CallTool
  <1>2. ASSUME NEW s \in Statements, WriteStatement(s) PROVE JudgedInv'
    <2>1. verdict' = Unjudged /\ draftReply' = (draftReply \o s.tokens) \o <<Tok("end", "")>>
      BY <1>2 DEF WriteStatement
    <2>2. PICK x : x = [k |-> "end", v |-> "", n |-> 0]
      OBVIOUS
    <2>3. IsList(<<x>>) /\ Len(<<x>>) = 1 /\ <<x>>[1] = x
      BY DEF IsList, ToSet
    <2>4. Quoted(<<x>>)
      <3>1. x.k = "end"
        BY <2>2
      <3>2. \A i \in DOMAIN <<x>> : <<x>>[i] = x
        OBVIOUS
      <3> QED
        BY <3>1, <3>2 DEF Quoted
    <2>5. IsList(s.tokens) /\ Quoted(s.tokens)
      BY ValidatorAssumption DEF IsList
    <2>6. PICK r : r = draftReply \o s.tokens
      OBVIOUS
    <2>7. IsList(r) /\ Quoted(r)
      BY <2>5, <2>6, QuotedTogether DEF JudgedInv
    <2>8. IsList(r \o <<x>>) /\ Quoted(r \o <<x>>)
      BY <2>3, <2>4, <2>7, QuotedTogether
    <2> QED
      BY <2>1, <2>2, <2>6, <2>8 DEF JudgedInv, Tok
  <1>3. ASSUME JudgeReply PROVE JudgedInv'
    <2>1. /\ verdict' = ValidateResponse(draftReply) /\ draftReply # <<>>
          /\ UNCHANGED <<asked, invoked, storedPlan, f1, draftReply>>
      BY <1>3 DEF JudgeReply
    <2>2. \A r : ValidateResponse(r)' = ValidateResponse(r)
      BY <2>1, SameVerdict
    <2> QED
      BY <2>1, <2>2 DEF JudgedInv
  <1>4. CASE UNCHANGED validatorVars
    <2>1. \A r : ValidateResponse(r)' = ValidateResponse(r)
      BY <1>4, SameVerdict DEF validatorVars
    <2> QED
      BY <1>4, <2>1 DEF validatorVars, JudgedInv
  <1> QED
    BY <1>1, <1>2, <1>3, <1>4 DEF ValidatorNext

\* A distance is the difference of the greater and the smaller place.
LEMMA DistanceIs ==
    ASSUME NEW i \in Nat, NEW j \in Nat, i < j
    PROVE  Distance(i, j) = j - i /\ Distance(j, i) = j - i
  <1>1. Max({i, j}) \in {i, j} /\ \A m \in {i, j} : m <= Max({i, j})
    <2>1. {i, j} \subseteq 0..j /\ {i, j} # {}
      OBVIOUS
    <2> QED
      BY <2>1, MaxOf
  <1>2. Min({i, j}) \in {i, j} /\ \A m \in {i, j} : Min({i, j}) <= m
    <2>1. {i, j} \subseteq Nat /\ {i, j} # {}
      OBVIOUS
    <2> QED
      BY <2>1, MinOf
  <1>3. Max({i, j}) = j /\ Min({i, j}) = i /\ {j, i} = {i, j}
    BY <1>1, <1>2
  <1> QED
    BY <1>3 DEF Distance

\* A line behind a place that no line is near to opens a quotation, or another
\* line that does stands between them.
LEMMA OpensBehind ==
    ASSUME NEW r, IsList(r), NEW i \in DOMAIN r, StandsAlone(r, i),
           NEW j \in BlockLines(r), i < j
    PROVE  \E b \in BlockLines(r) : i < b /\ b <= j /\ OpensBlock(r, b)
  <1>1. BlockLines(r) \subseteq Nat /\ i \in Nat /\ QuoteFar \in Nat
    BY ListProperties, ValidatorAssumption DEF BlockLines, Places
  <1> DEFINE behind == {b \in BlockLines(r) : i < b}
  <1>2. behind \subseteq Nat /\ behind # {}
    BY <1>1
  <1>3. PICK b \in behind : \A c \in behind : b <= c
    BY <1>2, NatMinimum
  <1>4. ASSUME NEW c \in BlockLines(r), c < b PROVE b - c >= QuoteFar
    <2>1. c <= i
      BY <1>1, <1>3, <1>4
    <2>2. b - i >= QuoteFar
      <3>1. Distance(i, b) >= QuoteFar
        BY <1>1, <1>3 DEF StandsAlone
      <3> QED
        BY <1>1, <1>3, <3>1, DistanceIs
    <2> QED
      BY <1>1, <1>3, <2>1, <2>2
  <1>5. OpensBlock(r, b)
    BY <1>3, <1>4 DEF OpensBlock
  <1> QED
    BY <1>3, <1>5

\* A quotation that stands alone is judged by its own passages.
LEMMA JudgedAlone ==
    ASSUME NEW r, IsList(r), NEW i \in Places(r, "quote"), StandsAlone(r, i)
    PROVE  i \in Quotations(r) /\ LinesOf(r, i) = {i}
  <1>1. /\ i \in DOMAIN r /\ i \in Nat /\ BlockLines(r) \subseteq Nat /\ QuoteFar \in Nat
        /\ \A b \in BlockLines(r) : b \in Places(r, "quote") /\ r[b].v = "block"
    BY ListProperties, ValidatorAssumption DEF Places, BlockLines
  <1>2. \A j \in BlockLines(r) : i < j => \E b \in BlockLines(r) : i < b /\ b <= j /\ OpensBlock(r, b)
    BY <1>1, OpensBehind
  <1>3. ASSUME r[i].v = "block"
        PROVE  OpensBlock(r, i) /\ LinesOf(r, i) = {i}
    <2>1. i \in BlockLines(r)
      BY <1>3 DEF BlockLines
    <2>2. ASSUME NEW b \in BlockLines(r), b < i PROVE i - b >= QuoteFar
      <3>1. Distance(i, b) >= QuoteFar
        BY <1>1, <2>2 DEF StandsAlone
      <3> QED
        BY <1>1, <2>2, <3>1, DistanceIs
    <2>3. OpensBlock(r, i)
      BY <2>1, <2>2 DEF OpensBlock
    <2>4. \A j \in LinesOf(r, i) : j = i
      BY <1>1, <1>2, <2>3 DEF LinesOf
    <2>5. i \in LinesOf(r, i)
      BY <1>1, <2>1, <2>3 DEF LinesOf
    <2> QED
      BY <2>3, <2>4, <2>5
  <1>4. ASSUME r[i].v # "block"
        PROVE  ~BetweenLines(r, i) /\ LinesOf(r, i) = {i}
    <2>1. ~OpensBlock(r, i)
      BY <1>4 DEF OpensBlock, BlockLines
    <2>2. SUFFICES ASSUME NEW b \in BlockLines(r), OpensBlock(r, b), NEW j \in LinesOf(r, b), b < i, i < j
                   PROVE  FALSE
      BY <2>1 DEF BetweenLines, LinesOf
    <2>3. j \in BlockLines(r) /\ ~\E c \in BlockLines(r) : b < c /\ c <= j /\ OpensBlock(r, c)
      BY <2>2 DEF LinesOf
    <2>4. PICK c \in BlockLines(r) : i < c /\ c <= j /\ OpensBlock(r, c)
      BY <1>2, <2>2, <2>3
    <2>5. b < c
      BY <1>1, <2>2, <2>4
    <2> QED
      BY <2>3, <2>4, <2>5
  <1> QED
    BY <1>3, <1>4 DEF Quotations

\* A quotation has a passage.
LEMMA QuotationHasText ==
    ASSUME NEW r, IsList(r), Quoted(r), NEW i \in Places(r, "quote")
    PROVE  r[i + 1].v \in Passages(r, i)
  <1>1. /\ DOMAIN r = 1..Len(r) /\ Len(r) \in Nat
        /\ i \in DOMAIN r /\ i < Len(r) /\ r[i + 1].k = "passage"
    BY ListProperties DEF Quoted, Places
  <1>2. i + 1 \in DOMAIN r /\ i + 1 > i /\ \A k \in (i + 1)..(i + 1) : k = i + 1
    BY <1>1
  <1>3. i + 1 \in PassagesAt(r, i)
    BY <1>1, <1>2 DEF PassagesAt, Places
  <1> QED
    BY <1>3 DEF Passages

LEMMA PassedReplies == JudgedInv => PassedIsGrounded
  <1> SUFFICES ASSUME JudgedInv, verdict = {} PROVE NumbersAreGrounded /\ QuotationsAreGrounded
    BY DEF PassedIsGrounded
  <1> DEFINE r == draftReply
  <1>1. ValidateResponse(r) = {}
    BY DEF JudgedInv, Unjudged
  <1>2. ~CheckGrounding(r) /\ ~CheckCompleteness(r) /\ ~CheckAttribution(r)
    BY <1>1 DEF ValidateResponse
  <1>3. NumbersAreGrounded
    <2>1. SUFFICES ASSUME NEW i \in Claims(r), ~IsDerivable(r[i].n)
                   PROVE  /\ r[i].k = "number" /\ IsHedged(r, r[i].n) /\ Mentions(r, "adviser")
                          /\ \E c \in invoked : c.low
      BY DEF NumbersAreGrounded
    <2>2. Tier2Estimate /\ r[i].k = "number" /\ IsHedged(r, r[i].n)
      BY <1>2, <2>1 DEF CheckGrounding
    <2>3. Mentions(r, "adviser")
      BY <1>2, <2>2 DEF CheckCompleteness
    <2> QED
      BY <2>2, <2>3 DEF Tier2Estimate
  <1>4. QuotationsAreGrounded
    <2> SUFFICES ASSUME NEW i \in Places(r, "quote")
                 PROVE  /\ StandsAlone(r, i) /\ IsCitation(r, i) => Passages(r, i) \cap Retrieved # {}
                        /\ OpensBlock(r, i) /\ NamesSource(r, i) =>
                             \E j \in LinesOf(r, i) : Passages(r, j) \cap Retrieved # {}
      BY Zenon DEF QuotationsAreGrounded
    <2>1. IsList(r) /\ r[i + 1].v \in Passages(r, i)
      BY QuotationHasText DEF JudgedInv
    <2>2. \A j \in Quotations(r) : IsCitation(r, j) => IsGrounded(PassagesOf(r, j))
      BY <1>2 DEF CheckAttribution
    <2>3. ASSUME StandsAlone(r, i), IsCitation(r, i)
          PROVE  Passages(r, i) \cap Retrieved # {}
      <3>1. i \in Quotations(r) /\ LinesOf(r, i) = {i}
        BY <2>1, <2>3, JudgedAlone
      <3>2. PassagesOf(r, i) = Passages(r, i)
        BY <3>1 DEF PassagesOf
      <3>3. IsGrounded(Passages(r, i))
        BY <2>2, <2>3, <3>1, <3>2
      <3> QED
        BY <2>1, <3>3 DEF IsGrounded
    <2>4. ASSUME OpensBlock(r, i), NamesSource(r, i)
          PROVE  \E j \in LinesOf(r, i) : Passages(r, j) \cap Retrieved # {}
      <3>1. i \in BlockLines(r) /\ r[i].v = "block"
        BY <2>4 DEF OpensBlock, BlockLines
      <3>2. i \in Quotations(r)
        BY <2>4, <3>1 DEF Quotations
      <3>3. IsCitation(r, i)
        BY <2>4, <3>1 DEF IsCitation
      <3>4. i \in LinesOf(r, i)
        <4>1. i \in Nat /\ BlockLines(r) \subseteq Nat
          BY <2>1, ListProperties DEF Places, BlockLines
        <4> QED
          BY <2>4, <3>1, <4>1 DEF LinesOf
      <3>5. r[i + 1].v \in PassagesOf(r, i)
        BY <2>1, <3>4 DEF PassagesOf
      <3>6. PassagesOf(r, i) \cap Retrieved # {}
        <4>1. IsGrounded(PassagesOf(r, i))
          BY <2>2, <3>2, <3>3
        <4> QED
          BY <3>5, <4>1 DEF IsGrounded
      <3> QED
        BY <3>6 DEF PassagesOf
    <2> QED
      BY <2>3, <2>4
  <1> QED
    BY <1>3, <1>4

\* For any statements, tools and questions, a reply that passes has no number
\* without a source or a mark of an estimate. Something was retrieved of every
\* quotation that names its source and stands alone, and of some line of every
\* group of block quotes that opens with its source named; more is not promised
\* of a group, which is judged as one text (responseValidator.ts:252-335,
\* blockquoteAttribution.ts:74-152, 226-284).
THEOREM PassedRepliesAreGrounded == ValidatorSpec => []PassedIsGrounded
  <1> QED
    BY JudgedInit, JudgedNext, PassedReplies, PTL DEF ValidatorSpec
=============================================================================
