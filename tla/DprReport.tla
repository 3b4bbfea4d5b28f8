------------------------------ MODULE DprReport ------------------------------
(***************************************************************************)
(* Albert prints a degree progress report, the PDF becomes lines of text,   *)
(* and parseDpr reads the lines. A line is what the parser's expressions    *)
(* make of it: its kind, a name, its numbers. Where a page ends, a runner   *)
(* "Page n of m" stands on a line of its own or in front of the next line.  *)
(***************************************************************************)
EXTENDS Integers, Sequences, SequencesExt, FiniteSets, FiniteSetsExt

CONSTANTS Printable,   \* the sections a report may have, in their order
          Histories,   \* the course histories it may end with
          ProgramLists,\* the programs it may declare
          MaxSections, \* bound on the sections of one report
          RunnerNumber \* the number a runner begins with

VARIABLES printed,     \* what the registrar's audit holds
          paper,       \* the lines
          stage,       \* how far it is printed
          turned,      \* the page break has been placed
          read         \* parseDpr's result

dprVars == <<printed, paper, stage, turned, read>>

Line(k, v) == [k |-> k, v |-> v, n |-> 0, m |-> 0, page |-> FALSE]
Counting(v, n, m) == [Line("counter", v) EXCEPT !.n = n, !.m = m]
NoCounter == Counting("none", 0, 0)

Names(rows) == [i \in DOMAIN rows |-> rows[i].name]
Ids(ss) == [i \in DOMAIN ss |-> ss[i].id]

-----------------------------------------------------------------------------
(* Printing.                                                                *)

\* A row [name, style, topic] with a long title takes two or three lines.
RowLines(r) ==
  (CASE r.style = "whole" -> <<Line("row", r.name)>>
     [] r.style = "wrapped" -> <<Line("start", r.name), Line("tail", "")>>
     [] r.style = "suffixed" -> <<Line("start", r.name), Line("suffix", ""), Line("tail", "")>>)
  \o (IF r.topic THEN <<Line("topic", r.name)>> ELSE <<>>)
TableLines(rows) == FlattenSeq([i \in DOMAIN rows |-> RowLines(rows[i])])

SectionLines(s) ==
  <<Line("header", s.id), Line("status", s.status)>>
  \o (IF s.cap > 0 THEN <<[Line("text", "cap") EXCEPT !.n = s.cap]>> ELSE <<>>)
  \o (IF s.counter.v = "none" THEN <<>> ELSE <<s.counter>>)
  \o (IF s.rows = <<>> THEN <<>> ELSE <<Line("used", ""), Line("columns", "")>> \o TableLines(s.rows))
  \o <<Line("blank", "")>>

\* The lines as they come out of the PDF, with the page break anywhere or not at all.
Extracted(ls) ==
  {ls} \union
  IF turned THEN {}
  ELSE {[ls EXCEPT ![i].page = TRUE] : i \in {j \in DOMAIN ls : ls[j].k # "blank"}}
       \union {InsertAt(ls, i, Line("runner", "")) : i \in DOMAIN ls}

Emit(ls) == \E x \in Extracted(ls) : paper' = paper \o x /\ turned' = (turned \/ x # ls)

\* Of a what-if report either the title or the line under it says so.
PrintHead(kind, titled, ps) ==
  /\ stage = 0 /\ stage' = 1
  /\ printed' = [kind |-> kind, programs |-> ps, sections |-> <<>>, history |-> <<>>]
  /\ Emit(<<Line("title", IF titled THEN kind ELSE "dpr")>>
           \o (IF kind = "what_if" /\ ~titled THEN <<Line("subtitle", "")>> ELSE <<>>)
           \o <<Line("name", ""), Line("programs", "")>>
           \o [i \in DOMAIN ps |-> Line("program", ps[i])] \o <<Line("blank", "")>>)
  /\ UNCHANGED read

PrintSection(i) ==
  /\ stage \in 1..i /\ stage' = i + 1 /\ Len(printed.sections) < MaxSections
  /\ printed' = [printed EXCEPT !.sections = Append(@, Printable[i])]
  /\ Emit(SectionLines(Printable[i]))
  /\ UNCHANGED read

Printed == Len(Printable) + 2
PrintHistory(rows) ==
  /\ stage \in 1..(Printed - 1) /\ printed.sections # <<>> /\ stage' = Printed
  /\ printed' = [printed EXCEPT !.history = rows]
  /\ Emit(<<Line("history", ""), Line("columns", "")>> \o TableLines(rows))
  /\ UNCHANGED read

-----------------------------------------------------------------------------
(* Reading.                                                                 *)

\* A line the parser recognizes only at its very beginning is lost to a runner.
Is(l, k) == l.k = k /\ ~l.page
FirstAt(ls, from, test(_)) ==
  LET hits == {i \in from..Len(ls) : test(ls[i])}
  IN IF hits = {} THEN Len(ls) + 1 ELSE Min(hits)

\* The title and the name are found behind a runner, the sub-title is not.
ExtractHeader(ls) ==
  LET title == FirstAt(ls, 1, LAMBDA l : l.k = "title")
      name == FirstAt(ls, title + 1, LAMBDA l : ~Is(l, "subtitle") /\ l.k # "blank")
      next == FirstAt(ls, title + 1, LAMBDA l : l.k # "blank")
  IN IF title > Len(ls) \/ name > Len(ls) \/ ls[name].k # "name" THEN [ok |-> FALSE, kind |-> "dpr"]
     ELSE [ok |-> TRUE, kind |-> IF ls[title].v = "what_if" \/ Is(ls[next], "subtitle")
                                 THEN "what_if" ELSE "dpr"]

ExtractPrograms(ls) ==
  LET start == FirstAt(ls, 1, LAMBDA l : Is(l, "programs"))
      end == FirstAt(ls, start, LAMBDA l : l.k = "blank")
      rows == SubSeq(ls, start + 1, end - 1)
  IN [declared |-> [i \in DOMAIN SelectSeq(rows, LAMBDA l : l.k = "program") |->
                     SelectSeq(rows, LAMBDA l : l.k = "program")[i].v],
      warned |-> start > Len(ls) \/ \E i \in DOMAIN rows : rows[i].k # "program"]

\* Where the numbers of a wrapped row are: under a line that only closes the title.
TailNext(ls, i) == i + 1
TailOf(ls, i) == IF i < Len(ls) /\ Is(ls[i + 1], "suffix") THEN i + 2 ELSE i + 1

\* A row may lie on one line or end one or two lines below; a runner in front
\* of a row's first line is cut off. What is no row is warned about.
ReadRow(ls, acc, i) ==
  LET l == ls[i]
      tail == TailOf(ls, i)
      row == [name |-> l.v, topic |-> FALSE]
  IN IF i < acc.next \/ l.k = "blank" THEN acc
     ELSE IF Is(l, "topic") /\ acc.rows # <<>>
       THEN [acc EXCEPT !.rows[Len(acc.rows)].topic = TRUE, !.topics = Append(@, <<Last(acc.rows).name, l.v>>)]
     ELSE IF l.k = "row" THEN [acc EXCEPT !.rows = Append(@, row)]
     ELSE IF l.k = "start" /\ tail <= Len(ls) /\ Is(ls[IF tail <= Len(ls) THEN tail ELSE i], "tail")
       THEN [acc EXCEPT !.rows = Append(@, row), !.next = tail + 1]
     ELSE [acc EXCEPT !.warned = TRUE]

ParseCourseTable(ls) ==
  FoldLeft(LAMBDA acc, i : ReadRow(ls, acc, i),
           [rows |-> <<>>, topics |-> <<>>, next |-> 1, warned |-> FALSE], [i \in DOMAIN ls |-> i])

SkipColumns(ls, i) == IF i <= Len(ls) /\ Is(ls[IF i <= Len(ls) THEN i ELSE 1], "columns") THEN i + 1 ELSE i

\* The first number of the text under the status, or of a runner in it.
CapIn(ls, from, to) ==
  LET texts == {i \in from..to : ls[i].k = "text"}
      runners == {i \in from..to : ls[i].k = "runner" \/ ls[i].page}
  IN IF texts # {} THEN ls[Min(texts)].n ELSE IF runners # {} THEN RunnerNumber ELSE 0

\* Status, text, counters, table, in this order: what stands between a counter
\* and the table hides the table.
ParseSection(id, ls) ==
  LET status == FirstAt(ls, 1, LAMBDA l : Is(l, "status"))
      found == status <= Len(ls)
      from == IF found THEN status + 1 ELSE 1
      counter == FirstAt(ls, from, LAMBDA l : ~l.page /\ l.k \in {"counter", "used", "status"})
      after == FirstAt(ls, counter, LAMBDA l : ~Is(l, "counter") /\ l.k # "blank")
      counters == SelectSeq(SubSeq(ls, counter, after - 1), LAMBDA l : l.k = "counter")
      start == SkipColumns(ls, after + 1)
      end == FirstAt(ls, start, LAMBDA l : l.k = "blank")
      table == IF after <= Len(ls) /\ Is(ls[IF after <= Len(ls) THEN after ELSE 1], "used")
               THEN ParseCourseTable(SubSeq(ls, start, end - 1)) ELSE ParseCourseTable(<<>>)
  IN [id |-> id, status |-> IF found THEN ls[status].v ELSE "satisfied", warned |-> ~found,
      cap |-> CapIn(ls, from, counter - 1), rows |-> table.rows,
      counter |-> IF counters = <<>> THEN NoCounter ELSE Last(counters),
      lost |-> table.warned]

RequirementGroups(ls, end) ==
  LET at == SelectSeq([i \in 1..(end - 1) |-> i], LAMBDA i : ls[i].k = "header")
  IN [j \in DOMAIN at |->
        ParseSection(ls[at[j]].v, SubSeq(ls, at[j] + 1, (IF j < Len(at) THEN at[j + 1] ELSE end) - 1))]

ParseDpr(ls) ==
  LET head == ExtractHeader(ls)
      end == FirstAt(ls, 1, LAMBDA l : Is(l, "history"))
      history == ParseCourseTable(SubSeq(ls, SkipColumns(ls, end + 1), Len(ls)))
  IN [ok |-> head.ok, kind |-> head.kind, programs |-> ExtractPrograms(ls),
      sections |-> RequirementGroups(ls, end), history |-> history.rows, topics |-> history.topics,
      warned |-> history.warned \/ history.rows = <<>>]

Unread == [ok |-> FALSE, kind |-> "dpr", programs |-> [declared |-> <<>>, warned |-> TRUE], sections |-> <<>>,
           history |-> <<>>, topics |-> <<>>, warned |-> TRUE]
Parse == stage = Printed /\ stage' = Printed + 1 /\ read' = ParseDpr(paper) /\ UNCHANGED <<printed, paper, turned>>

DprInit ==
  /\ printed = [kind |-> "dpr", programs |-> <<>>, sections |-> <<>>, history |-> <<>>]
  /\ paper = <<>> /\ stage = 0 /\ turned = FALSE /\ read = Unread

DprNext ==
  \/ \E kind \in {"dpr", "what_if"}, titled \in BOOLEAN, ps \in ProgramLists : PrintHead(kind, titled, ps)
  \/ \E i \in DOMAIN Printable : PrintSection(i)
  \/ \E h \in Histories : PrintHistory(h)
  \/ Parse

-----------------------------------------------------------------------------
(* A report is read as it was printed, and where a page break spoils a line   *)
(* the parser either says so or loses only what it cannot see: the kind is    *)
(* right, the sections are all there and in order, no row is invented, moved  *)
(* or doubled, a status differs only under a warning, and a history without a *)
(* warning is exact, topics included. Without a break all of it is exact      *)
(* and no history is warned about (parseDpr).                                 *)
Embedded(s, t) == \E sub \in SUBSET DOMAIN t : s = [i \in 1..Cardinality(sub) |-> t[SetToSortSeq(sub, <)[i]]]
SectionReadAs(r, p) ==
  /\ r.id = p.id
  /\ r.status = p.status \/ r.warned
  /\ Embedded(Names(r.rows), Names(p.rows))
  /\ r.counter = p.counter \/ r.counter = NoCounter
ReportReadsAsPrinted ==
  read.ok =>
    /\ read.kind = printed.kind
    /\ read.programs.declared = printed.programs \/ read.programs.warned
    /\ Len(read.sections) = Len(printed.sections)
    /\ \A i \in DOMAIN printed.sections : SectionReadAs(read.sections[i], printed.sections[i])
    /\ Embedded(Names(read.history), Names(printed.history))
    /\ ~read.warned =>
         /\ read.history = [i \in DOMAIN printed.history |->
                              [name |-> printed.history[i].name, topic |-> printed.history[i].topic]]
         /\ \A i \in DOMAIN read.topics : read.topics[i][1] = read.topics[i][2]
    /\ ~turned => ~read.warned
    /\ ~turned => \A i \in DOMAIN printed.sections :
         LET r == read.sections[i]
             p == printed.sections[i]
         IN r.status = p.status /\ r.counter = p.counter /\ Names(r.rows) = Names(p.rows) /\ r.cap = p.cap
=============================================================================
