------------------------------ MODULE ChatReply ------------------------------
(***************************************************************************)
(* What becomes of one message of the student: the gate that may answer it *)
(* with a question of its own, the agent loop, the events that follow it,  *)
(* the validator's last word, the question that may be appended, and the   *)
(* transcript that the next session restores. The page sends its own       *)
(* messages back as the history of the next turn. A page waits for its own *)
(* turn; the server waits for none: a page that is loaded again, and a     *)
(* second one, send while an earlier turn goes on.                         *)
(* Of a text only what the gate, the appending and the validator look for  *)
(* is kept: whether it ends with a question, denies something, names a     *)
(* course, carries the lead-in of an appended question, cites a bulletin.  *)
(***************************************************************************)
EXTENDS Naturals, Sequences, SequencesExt

CONSTANTS Messages,    \* what the student writes
          Replies,     \* what the agent ends a turn with
          Profiles,    \* the student context: [global, declared]
          ToolSets,    \* the tools a turn called, of those that make an event
          HistoryWindow, RestoreLimit,
          Pages,       \* the pages (tabs) a student has open
          MayReload,   \* a page may be loaded again
          MaxMessages  \* bound on the messages of one behavior

VARIABLES thread,      \* the messages on each page
          history,     \* chat_messages
          turns,       \* the turns of runV2Turn, in the order they were sent: see Turn
          profile

replyVars == <<thread, history, turns, profile>>

\* A text: what it is told apart by.
TextShapes == [asks : BOOLEAN, denies : BOOLEAN, names : BOOLEAN, lead : BOOLEAN,
          cites : {"none", "genuine", "fabricated"}]

ASSUME RepliesAssumption ==
  Replies \subseteq TextShapes /\ HistoryWindow \in Nat /\ RestoreLimit \in Nat

Entry(n, role, said) == [turn |-> n, role |-> role, said |-> said]
Silent == [asks |-> FALSE, denies |-> FALSE, names |-> FALSE, lead |-> FALSE, cites |-> "none"]
Plain == Silent
Question == [Silent EXCEPT !.asks = TRUE]
NewestOf(s, n) == SubSeq(s, IF Len(s) > n THEN Len(s) - n + 1 ELSE 1, Len(s))

-----------------------------------------------------------------------------
\* The newest assistant message; the cards of the page have that role too,
\* and no text.
LastAssistant(prior) ==
  LET ofAssistant == SelectSeq(prior, LAMBDA e : e.role = "assistant")
  IN IF ofAssistant = <<>> THEN Silent ELSE Last(ofAssistant).said

Unanchored(m, prior) ==
  m.pronoun /\ \A i \in DOMAIN NewestOf(prior, 4) : ~NewestOf(prior, 4)[i].said.names

DetectAmbiguity(m, prior) ==
  /\ m.vague \/ Unanchored(m, prior)
  /\ ~m.long
  /\ ~LastAssistant(prior).asks /\ ~LastAssistant(prior).denies

\* detectElicitationOpportunity: a plain planning question that lacks one fact.
Suppressed(m, prior) == DetectAmbiguity(m, prior) \/ LastAssistant(prior).asks \/ m.lookup
InterestKnown(m, prior) ==
  m.interest \/ \E i \in DOMAIN NewestOf(prior, 6) :
                  NewestOf(prior, 6)[i].role = "user" /\ NewestOf(prior, 6)[i].said.interest
AwayKnown(m, prior) ==
  m.away \/ \E i \in DOMAIN NewestOf(prior, 6) :
              NewestOf(prior, 6)[i].role = "user" /\ NewestOf(prior, 6)[i].said.away
ElicitationTopic(m, prior, p) ==
  IF Suppressed(m, prior) THEN "none"
  ELSE IF m.exploring /\ ~InterestKnown(m, prior) THEN "career_interest"
  ELSE IF m.planning /\ ~p.declared THEN "intended_major"
  ELSE IF m.planning /\ p.global /\ ~AwayKnown(m, prior) THEN "study_away_intent"
  ELSE "none"

DecideElicitationAppend(topic, final, prior) ==
  topic # "none" /\ ~final.asks /\ ~final.lead /\ ~LastAssistant(prior).lead

-----------------------------------------------------------------------------
\* A turn: the page it was sent from and what that page showed, whether that
\* page still listens, and the turns that were under way when it was sent.
Turn(p, m, prior, during) ==
  [at |-> "gate", page |-> p, message |-> m, prior |-> prior, draft |-> Silent, final |-> Silent,
   tools |-> {}, cards |-> 0, shown |-> TRUE, during |-> during]
Over(t) == [t EXCEPT !.at = "over", !.prior = <<>>, !.draft = Silent, !.tools = {}, !.cards = 0,
                     !.shown = FALSE]
UnderWay == {n \in DOMAIN turns : turns[n].at # "over"}
Card(n) == Entry(n, "assistant", Silent)

\* handleSend: a page whose turn is open sends nothing (isLoading). The turn
\* gets what the page shows so far.
SendMessage(p, m) ==
  /\ Len(turns) < MaxMessages
  /\ \A n \in UnderWay : turns[n].page = p => ~turns[n].shown
  /\ turns' = Append(turns, Turn(p, m, NewestOf(thread[p], HistoryWindow), UnderWay))
  /\ thread' = [thread EXCEPT ![p] = Append(@, Entry(Len(turns) + 1, "user", m))]
  /\ UNCHANGED <<history, profile>>

\* The answer reaches the page unless the page has gone; the cards of the
\* turn come after the bubble that was made for the answer.
Answer(n, final, at) ==
  LET t == turns[n] IN
  /\ thread' = IF t.shown
               THEN [thread EXCEPT ![t.page] =
                       @ \o <<Entry(n, "assistant", final)>> \o [i \in 1..t.cards |-> Card(n)]]
               ELSE thread
  /\ turns' = [turns EXCEPT ![n] = IF at = "over" THEN Over([t EXCEPT !.final = final])
                                   ELSE [t EXCEPT !.at = at, !.final = final]]
  /\ UNCHANGED <<history, profile>>

\* detectAmbiguity and the clarifier: its question ends the turn, which is
\* not written to the transcript; "CLEAR" and a failure go on to the agent.
Clarify(n) ==
  /\ turns[n].at = "gate" /\ DetectAmbiguity(turns[n].message, turns[n].prior)
  /\ Answer(n, Question, "over")

GateLetsPass(n) ==
  /\ turns[n].at = "gate"
  /\ turns' = [turns EXCEPT ![n].at = "agent"]
  /\ UNCHANGED <<thread, history, profile>>

AgentAnswers(n, r, tools) ==
  /\ turns[n].at = "agent"
  /\ turns' = [turns EXCEPT ![n] = [@ EXCEPT !.at = "offers", !.draft = r, !.tools = tools]]
  /\ UNCHANGED <<thread, history, profile>>

\* The context limit has an answer of its own, every other end is an error;
\* neither is written to the transcript.
AgentFails(n) ==
  /\ turns[n].at = "agent"
  /\ Answer(n, Plain, "over")

\* whatif_audit_request, then plan_proposal; staging may fail or be infeasible.
Offers(n) ==
  /\ turns[n].at = "offers"
  /\ \E audit \in IF "what_if_audit" \in turns[n].tools THEN {0, 1} ELSE {0} :
       \E proposal \in IF "propose_plan_change" \in turns[n].tools THEN {0, 1} ELSE {0} :
         turns' = [turns EXCEPT ![n] = [@ EXCEPT !.at = "judge", !.cards = audit + proposal]]
  /\ UNCHANGED <<thread, history, profile>>

StripFabricatedBlockquotes(final) == [final EXCEPT !.cites = "none", !.asks = FALSE]

\* What of a fabricated citation is left, when the validator objects; when it
\* does not, at most one question is appended.
FinalText(final, ok, topic, prior) ==
  IF ~ok THEN IF final.cites = "fabricated" THEN StripFabricatedBlockquotes(final) ELSE final
  ELSE IF DecideElicitationAppend(topic, final, prior) THEN [final EXCEPT !.asks = TRUE, !.lead = TRUE]
  ELSE final

Done(n) ==
  LET t == turns[n] IN
  /\ t.at = "judge"
  /\ \E ok \in {o \in BOOLEAN : t.draft.cites = "fabricated" => ~o} :
       Answer(n, FinalText(t.draft, ok, ElicitationTopic(t.message, t.prior, profile), t.prior),
              "persistUser")

\* appendMessage twice, each awaited; a failure of either ends the writing.
\* The stream, and with it the wait of the page, ends after it.
WriteUserMessage(n) ==
  /\ turns[n].at = "persistUser"
  /\ \/ /\ history' = Append(history, Entry(n, "user", turns[n].message))
        /\ turns' = [turns EXCEPT ![n].at = "persistAssistant"]
     \/ /\ turns' = [turns EXCEPT ![n] = Over(turns[n])] /\ UNCHANGED history
  /\ UNCHANGED <<thread, profile>>

\* (A plausible bug: the reply as the agent ended it.)
RecordOfAgent(n) == turns[n].draft
Record(n) == turns[n].final
WriteAssistantMessage(n) ==
  /\ turns[n].at = "persistAssistant"
  /\ \/ history' = Append(history, Entry(n, "assistant", Record(n)))
     \/ UNCHANGED history
  /\ turns' = [turns EXCEPT ![n] = Over(turns[n])]
  /\ UNCHANGED <<thread, profile>>

\* A page is loaded again, or opened; its turns under way go on and answer
\* nobody.
Reload(p) ==
  /\ MayReload
  /\ thread' = [thread EXCEPT ![p] = NewestOf(history, RestoreLimit)]
  /\ turns' = [n \in DOMAIN turns |->
                IF turns[n].page = p THEN [turns[n] EXCEPT !.shown = FALSE] ELSE turns[n]]
  /\ UNCHANGED <<history, profile>>

ReplyInit ==
  /\ thread = [p \in Pages |-> <<>>] /\ history = <<>> /\ turns = <<>>
  /\ profile \in Profiles

TurnStep(n) ==
  \/ Clarify(n) \/ GateLetsPass(n)
  \/ \E r \in Replies, tools \in ToolSets : AgentAnswers(n, r, tools)
  \/ AgentFails(n) \/ Offers(n) \/ Done(n)
  \/ WriteUserMessage(n) \/ WriteAssistantMessage(n)

ReplyNext ==
  \/ \E p \in Pages, m \in Messages : SendMessage(p, m)
  \/ \E n \in DOMAIN turns : TurnStep(n)
  \/ \E p \in Pages : Reload(p)

ReplySpec == ReplyInit /\ [][ReplyNext]_replyVars

-----------------------------------------------------------------------------
\* The transcript a student comes back to is what the student was told, also
\* where a reload or a second page has two turns write at once. An answer is
\* the final text of its turn, with the appended question and without the
\* fabricated citation, and stands behind its own message, which is there
\* once; the turns stand in the order they were sent, but for turns that were
\* under way together: so only entries of such turns come between a message
\* and its answer. And no page shows what no turn said, whatever write failed.
\* (Two appends, made after the final text was built from three sources, with
\* nothing that orders two turns; src/apps/web/app/api/chat/v2/route.ts.)
TranscriptIsWhatWasShown ==
  /\ \A i \in DOMAIN history :
       LET h == history[i]
           t == turns[h.turn]
       IN
       /\ h.role = "user" => h.said = t.message
       /\ h.role = "assistant" =>
            /\ h.said = t.final /\ h.said.cites # "fabricated"
            /\ \E j \in 1..(i - 1) : history[j].turn = h.turn
       /\ \A j \in 1..(i - 1) :
            LET before == history[j] IN
            /\ before.turn = h.turn => before.role = "user" /\ h.role = "assistant"
            /\ before.turn > h.turn => h.turn \in turns[before.turn].during
  /\ \A p \in Pages : \A i \in DOMAIN thread[p] :
       thread[p][i].role = "assistant" => thread[p][i].said \in {Silent, turns[thread[p][i].turn].final}

\* What proactiveElicitation.ts and the route say of it: a student is never
\* given an appended question in two turns in a row.
NeverAsksTwiceInARow ==
  \A n \in 2..Len(turns) : turns[n].final.lead => ~turns[n - 1].final.lead
=============================================================================
