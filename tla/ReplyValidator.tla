---------------------------- MODULE ReplyValidator ----------------------------
(***************************************************************************)
(* validateResponse judges the model's reply before the student sees it:    *)
(* numbers, the tools a claim needs, caveats, pinned text, quotations,       *)
(* amounts asked for, and what the reply says of the stored plan. A reply is *)
(* a sequence of tokens, each what one of the expressions matches; "end" is   *)
(* a delimiter of clauses. Distances in characters are distances in tokens.   *)
(***************************************************************************)
EXTENDS Integers, Sequences, SequencesExt, FiniteSets, FiniteSetsExt

CONSTANTS Statements,  \* [tokens, says] what the model may write, and what it means
          Invocations, \* the tool invoked it may make
          Questions,   \* [numbers, keywords, wanted]
          StoredPlans, \* [terms, locked, graduation], or NoStoredPlan
          Near,        \* PLAN_COOCCUR_WINDOW, 60 characters
          NegationNear,\* NEGATION_WINDOW_CHARS, 30 characters
          QuoteFar,    \* 200 characters: between lines of one quotation, and to its source
          QuoteNear,   \* 80 characters: a source behind a quotation
          MaxStatements, MaxCalls

\* A quotation has a text: the expressions for quotations match at least one
\* passage behind their opening.
Quoted(r) == \A i \in DOMAIN r : r[i].k = "quote" => i < Len(r) /\ r[i + 1].k = "passage"
ASSUME ValidatorAssumption ==
  /\ \A s \in Statements : s.tokens \in Seq(ToSet(s.tokens)) /\ Quoted(s.tokens)
  /\ QuoteFar \in Nat

VARIABLES asked, invoked, storedPlan, f1, draftReply, says, verdict

validatorVars == <<asked, invoked, storedPlan, f1, draftReply, says, verdict>>

Tok(k, v) == [k |-> k, v |-> v, n |-> 0]
Number(k, n, unit) == [k |-> k, v |-> unit, n |-> n]
NoStoredPlan == [known |-> FALSE]
Unjudged == {"unjudged"}

-----------------------------------------------------------------------------
(* Clauses and distances.                                                   *)

Span(i, j) == Min({i, j})..Max({i, j})
InClause(r, i, j) == \A k \in Span(i, j) : r[k].k # "end"
ClauseAround(r, i) == {j \in DOMAIN r : InClause(r, i, j)}
Places(r, k) == {i \in DOMAIN r : r[i].k = k}
Close(i, j) == i - j \in (-Near)..Near

\* "if", "would", "suppose": the clause tells of another plan.
IsConditionalFrame(r, i) == \E j \in ClauseAround(r, i) : r[j].k = "if"
\* A negation anywhere in front of the token in its clause.
GoverningNegation(r, i) == \E j \in ClauseAround(r, i) : j < i /\ r[j].k = "not"

-----------------------------------------------------------------------------
(* What the reply says of the stored plan.                                  *)

\* A term after "graduate" belongs to it unless a course stands between.
LabelOfGraduation(r, g, j) == g <= j /\ ~\E o \in Places(r, "course") : g < o /\ o < j

\* A term binds to a course of its clause with no other course between them.
TermsInClause(r, i) == {r[j].v : j \in {j \in ClauseAround(r, i) : r[j].k = "term" /\ Close(i, j)}}
TermsBound(r, i) ==
  {r[j].v : j \in {j \in ClauseAround(r, i) :
     /\ r[j].k = "term" /\ Close(i, j)
     /\ ~\E o \in Places(r, "course") \ {i} : o \in Span(i, j)
     /\ ~\E g \in Places(r, "graduate") : LabelOfGraduation(r, g, j)
     /\ ~GoverningNegation(r, j)}}

\* "not locked" is one match, at the place of its "not".
Asserts(r, k) ==
  IF k = "lock" THEN Places(r, "lock")
  ELSE Places(r, "movable") \union {i \in Places(r, "not") : i < Len(r) /\ r[i + 1].k = "lock"}
Distance(i, j) == Max({i, j}) - Min({i, j})
AttributedTo(r, k, i) ==
  \E j \in Asserts(r, k) \cap ClauseAround(r, i) :
    /\ ~GoverningNegation(r, j)
    /\ ~\E o \in Places(r, "course") \cap ClauseAround(r, i) : Distance(j, o) < Distance(j, i)

TermsOf(c) == IF c \in DOMAIN storedPlan.terms THEN storedPlan.terms[c] ELSE {}
PlacementDiffers(r, i) == TermsBound(r, i) # {} /\ TermsBound(r, i) \cap TermsOf(r[i].v) = {}
LockDiffers(r, i) ==
  /\ TermsOf(r[i].v) # {}
  /\ IF AttributedTo(r, "lock", i) /\ r[i].v \notin storedPlan.locked THEN TRUE
     ELSE AttributedTo(r, "movable", i) /\ r[i].v \in storedPlan.locked
GraduationLabels(r, g) ==
  {r[j].v : j \in {j \in ClauseAround(r, g) :
     /\ r[j].k = "term" /\ LabelOfGraduation(r, g, j)
     /\ ~\E o \in Places(r, "course") : Close(o, j)
     /\ ~GoverningNegation(r, j)}}

CheckPlanClaims(r) ==
  /\ storedPlan.known
  /\ \/ \E i \in Places(r, "course") : ~IsConditionalFrame(r, i) /\ (PlacementDiffers(r, i) \/ LockDiffers(r, i))
     \/ \E g \in Places(r, "graduate") :
          /\ ~IsConditionalFrame(r, g) /\ GraduationLabels(r, g) # {}
          /\ storedPlan.graduation \notin GraduationLabels(r, g)

-----------------------------------------------------------------------------
(* Numbers, tools, caveats, pinned text, quotations.                        *)

Tier2 == {"search_policy", "get_program_requirements", "what_if_audit"}
Tier2Estimate == \E c \in invoked : c.tool \in Tier2 /\ c.low
Called == {c.tool : c \in invoked}

\* Decimals are claims, integers only in front of a unit.
Claims(r) == {i \in DOMAIN r : r[i].k = "decimal" \/ (r[i].k = "number" /\ r[i].v = "unit")}
Grounds == asked.numbers \union UNION {c.numbers : c \in invoked}
\* In some source's text, or the sum or difference of two of its numbers.
IsDerivable(n) ==
  \/ \E m \in Grounds : n \in {m, m \div 10, m % 10}
  \/ \E a \in Grounds, b \in Grounds : n \in {a + b, a - b}
IsHedged(r, n) == \E i \in DOMAIN r : i > 1 /\ r[i].k = "number" /\ r[i].n = n /\ r[i - 1].k = "about"
CheckGrounding(r) ==
  \E i \in Claims(r) : /\ ~IsDerivable(r[i].n)
                       /\ ~(Tier2Estimate /\ r[i].k = "number" /\ IsHedged(r, r[i].n))

\* Only the first match of a trigger is looked at, and a negation up to thirty
\* characters in front of it, clause or not, disarms it.
Triggered(r, topic) ==
  LET hits == {i \in Places(r, "topic") : r[i].v = topic}
  IN hits # {} /\ ~\E j \in (Min(hits) - NegationNear)..(Min(hits) - 1) : j \in DOMAIN r /\ r[j].k = "not"
Requires(topic) ==
  CASE topic \in {"gpa", "remaining"} -> {"run_full_audit"}
    [] topic = "planning" -> {"plan_forward_degree", "view_forward_plan"}
    [] topic \in {"transfer", "policy"} -> {"search_policy"}
    [] topic = "comparison" -> {"what_if_audit", "propose_plan_change", "simulate_alternatives"}
    [] OTHER -> {}
Topics == {"gpa", "remaining", "planning", "transfer", "policy", "comparison"}
CheckInvocations(r) == \E topic \in Topics : Triggered(r, topic) /\ Requires(topic) \cap Called = {}

Mentions(r, word) == \E i \in Places(r, "word") : r[i].v = word
CheckCompleteness(r) ==
  \/ f1 /\ Triggered(r, "load") /\ ~Mentions(r, "f-1")
  \/ Triggered(r, "transfer") /\ ~Mentions(r, "unpublished")
  \/ Tier2Estimate /\ ~Mentions(r, "adviser")

\* Pinned text may be left out when the reply uses none of its numbers and the
\* question none of its words, or uses them with a source named nearby.
NumbersOf(r) == {r[i].n : i \in Places(r, "number") \union Places(r, "decimal")}
Attributed(r, n) ==
  \E i \in DOMAIN r : /\ r[i].k \in {"number", "decimal"} /\ r[i].n = n
                      /\ \A j \in DOMAIN r : r[j].k \in {"number", "decimal"} /\ r[j].n = n => i <= j
                      /\ \E j \in Places(r, "source") : Close(i, j)
CheckVerbatim(r) ==
  \E c \in invoked :
    /\ c.pinned # {}
    /\ ~\E i \in Places(r, "pinned") : r[i].v = c.tool
    /\ LET used == c.pinned \cap NumbersOf(r)
       IN IF used # {} THEN \E n \in used : ~Attributed(r, n)
          ELSE c.keywords \cap asked.keywords # {}

\* extractQuotes: block-quote lines that begin less than QuoteFar behind one
\* another are one quotation, whatever stands between them; a quotation in
\* quotation marks between its lines is left out.
BlockLines(r) == {i \in Places(r, "quote") : r[i].v = "block"}
OpensBlock(r, i) == i \in BlockLines(r) /\ \A b \in BlockLines(r) : b < i => i - b >= QuoteFar
LinesOf(r, i) ==
  IF OpensBlock(r, i)
  THEN {j \in BlockLines(r) : i <= j /\ ~\E b \in BlockLines(r) : i < b /\ b <= j /\ OpensBlock(r, b)}
  ELSE {i}
BetweenLines(r, i) == \E b \in BlockLines(r) : OpensBlock(r, b) /\ \E j \in LinesOf(r, b) : b < i /\ i < j
Quotations(r) ==
  {i \in Places(r, "quote") : IF r[i].v = "block" THEN OpensBlock(r, i) ELSE ~BetweenLines(r, i)}

\* The passages of a line; a passage is as long as a window of the matching.
PassagesAt(r, i) == {j \in Places(r, "passage") : j > i /\ \A k \in (i + 1)..j : r[k].k = "passage"}
Passages(r, i) == {r[j].v : j \in PassagesAt(r, i)}
PassagesOf(r, i) == UNION {Passages(r, j) : j \in LinesOf(r, i)}

\* findAttribution looks around the beginning only; quotation marks alone need
\* a source close by on either side.
NamesSource(r, i) == \E j \in Places(r, "bulletin") : i - QuoteFar <= j /\ j <= i + QuoteNear
SourceCloseBy(r, i) ==
  \E j \in Places(r, "bulletin") : i - QuoteNear <= j /\ j - QuoteNear <= Max({i} \union PassagesAt(r, i))
IsCitation(r, i) ==
  CASE r[i].v = "italic" -> TRUE
    [] r[i].v = "block" -> NamesSource(r, i)
    [] OTHER -> NamesSource(r, i) /\ SourceCloseBy(r, i)

\* A long quotation is grounded by any part of it.
Retrieved == UNION {c.passages : c \in {d \in invoked : d.tool \in {"search_policy", "what_if_audit"}}}
IsGrounded(ps) == IF Cardinality(ps) > 1 THEN ps \cap Retrieved # {} ELSE ps \subseteq Retrieved
CheckAttribution(r) == \E i \in Quotations(r) : IsCitation(r, i) /\ ~IsGrounded(PassagesOf(r, i))

CheckIdentityDrift(r) == Places(r, "call me") # {}

\* "short": any of SHORTFALL_ACKNOWLEDGEMENTS.
CheckShortfall(r) ==
  LET delivered == {r[i].n : i \in {i \in Places(r, "number") : r[i].v = "unit"}}
  IN /\ asked.wanted > 0 /\ ~Mentions(r, "short")
     /\ delivered # {} /\ Max(delivered) > 0 /\ Max(delivered) < asked.wanted

ValidateResponse(r) ==
  (IF CheckGrounding(r) THEN {"ungrounded_number"} ELSE {})
  \union (IF CheckInvocations(r) THEN {"missing_invocation"} ELSE {})
  \union (IF CheckCompleteness(r) THEN {"missing_caveat"} ELSE {})
  \union (IF CheckVerbatim(r) THEN {"verbatim_drift"} ELSE {})
  \union (IF CheckAttribution(r) THEN {"fabricated_attribution"} ELSE {})
  \union (IF CheckIdentityDrift(r) THEN {"identity_drift"} ELSE {})
  \union (IF CheckShortfall(r) THEN {"quantitative_shortfall"} ELSE {})
  \union (IF CheckPlanClaims(r) THEN {"ungrounded_plan_claim"} ELSE {})

-----------------------------------------------------------------------------
CallTool(c) ==
  /\ draftReply = <<>> /\ c \notin invoked /\ Cardinality(invoked) < MaxCalls
  /\ invoked' = invoked \union {c}
  /\ UNCHANGED <<asked, storedPlan, f1, draftReply, says, verdict>>

WriteStatement(s) ==
  /\ verdict = Unjudged /\ Cardinality(Places(draftReply, "end")) < MaxStatements
  /\ draftReply' = draftReply \o s.tokens \o <<Tok("end", "")>>
  /\ says' = Append(says, s.says)
  /\ UNCHANGED <<asked, invoked, storedPlan, f1, verdict>>

JudgeReply ==
  /\ verdict = Unjudged /\ draftReply # <<>>
  /\ verdict' = ValidateResponse(draftReply)
  /\ UNCHANGED <<asked, invoked, storedPlan, f1, draftReply, says>>

ValidatorInit ==
  /\ asked \in Questions /\ storedPlan \in StoredPlans /\ f1 \in BOOLEAN
  /\ invoked = {} /\ draftReply = <<>> /\ says = <<>> /\ verdict = Unjudged
ValidatorNext == (\E c \in Invocations : CallTool(c)) \/ (\E s \in Statements : WriteStatement(s)) \/ JudgeReply
ValidatorSpec == ValidatorInit /\ [][ValidatorNext]_validatorVars

-----------------------------------------------------------------------------
Holds(claim) ==
  CASE claim[1] = "placed" -> claim[3] \in TermsOf(claim[2])
    [] claim[1] = "absent" -> claim[3] \notin TermsOf(claim[2])
    [] claim[1] = "locked" -> TermsOf(claim[2]) = {} \/ claim[2] \in storedPlan.locked
    [] claim[1] = "movable" -> TermsOf(claim[2]) = {} \/ claim[2] \notin storedPlan.locked
    [] claim[1] = "graduates" -> claim[3] = storedPlan.graduation
\* A course named right behind the term of another course of its clause.
Borrows(r) == \E i \in Places(r, "course") : i > 2 /\ r[i - 1].k = "term" /\ r[i - 2].k = "course"

\* Of a reply that passes.
NumbersAreGrounded ==
  \A i \in Claims(draftReply) :
    \/ IsDerivable(draftReply[i].n)
    \/ draftReply[i].k = "number" /\ IsHedged(draftReply, draftReply[i].n) /\ Mentions(draftReply, "adviser")
         /\ \E c \in invoked : c.low
\* A quotation no line of a block quote is near to, that names its source.
StandsAlone(r, i) == \A b \in BlockLines(r) \ {i} : Distance(i, b) >= QuoteFar
QuotationsAreGrounded ==
  LET r == draftReply IN
  \A i \in Places(r, "quote") :
    /\ StandsAlone(r, i) /\ IsCitation(r, i) => Passages(r, i) \cap Retrieved # {}
    /\ OpensBlock(r, i) /\ NamesSource(r, i) => \E j \in LinesOf(r, i) : Passages(r, j) \cap Retrieved # {}
PassedIsGrounded == verdict = {} => NumbersAreGrounded /\ QuotationsAreGrounded

\* A claim in the words the checks look for: one course and its term nearby,
\* or "graduate", the term behind it and no course (KNOWN LIMIT M-1).
PlainlySaid(r, claim) ==
  /\ Places(r, "not") \union Places(r, "if") = {}
  /\ IF claim[1] = "graduates"
     THEN Places(r, "course") = {} /\ \E g \in Places(r, "graduate") : \A j \in Places(r, "term") : g < j
     ELSE /\ Cardinality(Places(r, "course")) = 1 /\ Places(r, "graduate") = {}
          /\ \A i \in Places(r, "course"), j \in Places(r, "term") : Close(i, j)

(* A reply is blocked for what it says of the plan only if some of it is     *)
(* false (or a course stands behind another one's term), and a false claim    *)
(* on its own is blocked when it is plainly said. A reply that passes has no  *)
(* number that is neither in this turn's sources, nor a sum or difference of  *)
(* theirs, nor an estimate marked as one under a low-confidence result and    *)
(* with the adviser named. Of a quotation that names its source and stands    *)
(* alone something was retrieved; of block quotes near one another, something *)
(* of one of them: the rest of such a group nobody checks (validateResponse   *)
(* and its eight checks).                                                     *)
VerdictIsJust ==
  /\ PassedIsGrounded
  /\ verdict # Unjudged =>
       /\ "ungrounded_plan_claim" \in verdict =>
            Borrows(draftReply) \/ \E i \in DOMAIN says : \E c \in says[i] : ~Holds(c)
       /\ storedPlan.known /\ Len(says) = 1
            /\ (\E c \in says[1] : says[1] = {c} /\ PlainlySaid(draftReply, c) /\ ~Holds(c))
            => "ungrounded_plan_claim" \in verdict
=============================================================================
