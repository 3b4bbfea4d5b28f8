-------------------------------- MODULE Lists --------------------------------
(***************************************************************************)
(* What Array.prototype.filter, sort and a reduce that adds return, as     *)
(* recursive functions with sets for their callbacks: of SelectSeq and     *)
(* SortSeq, which take an operator, nothing can be proved. And the spread  *)
(* of two objects, which the provers know, unlike the operator of TLC.     *)
(***************************************************************************)
EXTENDS Integers, Sequences, SequencesExt

\* The fields of both, those of f first.
Spread(f, g) == [x \in DOMAIN f \cup DOMAIN g |-> IF x \in DOMAIN f THEN f[x] ELSE g[x]]

IsList(s) == s \in Seq(ToSet(s))

\* The elements of the list that are in the set, in their order.
Filter(s, S) ==
  LET kept[i \in 0..Len(s)] ==
        IF i = 0 THEN <<>>
        ELSE IF s[i] \in S THEN Append(kept[i - 1], s[i]) ELSE kept[i - 1]
  IN kept[Len(s)]

\* The list sorted: an element goes before the first one it precedes, so that
\* elements of which neither precedes the other stay in their order.
StableSort(s, precedes) ==
  LET sorted[i \in 0..Len(s)] ==
        IF i = 0 THEN <<>>
        ELSE LET done == sorted[i - 1]
                 later == {j \in DOMAIN done : <<s[i], done[j]>> \in precedes}
             IN InsertAt(done, Min(later \cup {Len(done) + 1}), s[i])
  IN sorted[Len(s)]

Sum(s) == LET sum[i \in 0..Len(s)] == IF i = 0 THEN 0 ELSE sum[i - 1] + s[i]
          IN sum[Len(s)]
=============================================================================
