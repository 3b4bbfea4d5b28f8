----------------------------- MODULE ListProofs -----------------------------
(***************************************************************************)
(* What the lists of Lists and the sequences of the community modules      *)
(* return, for any list: the facts on recursive functions that the proofs  *)
(* about the planner and the sections rest on.                             *)
(***************************************************************************)
EXTENDS Lists, SequenceTheorems, FiniteSetTheorems, WellFoundedInduction, TLAPS

-----------------------------------------------------------------------------
(* Induction over a set of numbers, by its least counterexample.           *)

\* The natural numbers are well ordered.
LEMMA NatMinimum ==
    ASSUME NEW S, S \subseteq Nat, S # {}
    PROVE  \E m \in S : \A n \in S : m <= n
  <1>1. \E m \in S : \A n \in S : <<n, m>> \notin OpToRel(<, Nat)
    BY NatLessThanWellFounded, WFMin, Zenon
  <1>2. \E m \in S : \A n \in S : <<n, m>> \notin {p \in Nat \X Nat : p[1] < p[2]}
    BY <1>1, Zenon DEF OpToRel
  <1>3. PICK m \in S : \A n \in S : <<n, m>> \notin {p \in Nat \X Nat : p[1] < p[2]}
    BY <1>2
  <1>4. \A n \in S : ~(n < m)
    BY <1>3
  <1> QED
    BY <1>4

LEMMA MinOf ==
    ASSUME NEW S, S \subseteq Nat, S # {}
    PROVE  Min(S) \in S /\ \A n \in S : Min(S) <= n
  BY NatMinimum DEF Min

LEMMA MaxOf ==
    ASSUME NEW n \in Nat, NEW S, S \subseteq 0..n, S # {}
    PROVE  Max(S) \in S /\ \A m \in S : m <= Max(S)
  <1> DEFINE below == {n - m : m \in S}
  <1>1. below \subseteq Nat /\ below # {}
    OBVIOUS
  <1>2. PICK k \in below : \A j \in below : k <= j
    BY <1>1, NatMinimum
  <1>3. PICK m \in S : k = n - m
    OBVIOUS
  <1>4. \A j \in S : j <= m
    BY <1>2, <1>3
  <1>5. \E x \in S : \A j \in S : x >= j
    BY <1>3, <1>4
  <1> QED
    BY <1>5 DEF Max

LEMMA FiniteInduction ==
    ASSUME NEW n \in Nat, NEW good, 0 \in good,
           \A i \in 1..n : i - 1 \in good => i \in good
    PROVE  \A i \in 0..n : i \in good
  <1> DEFINE bad == {i \in 0..n : i \notin good}
  <1>1. SUFFICES ASSUME bad # {} PROVE FALSE
    OBVIOUS
  <1>2. PICK m \in bad : \A i \in bad : m <= i
    <2>1. bad \subseteq Nat
      OBVIOUS
    <2> HIDE DEF bad
    <2> QED
      BY <1>1, <2>1, NatMinimum
  <1>3. m \in 1..n /\ m - 1 \in 0..n
    BY <1>2
  <1>4. m - 1 \notin bad
    BY <1>2, <1>3
  <1> QED
    BY <1>2, <1>3, <1>4

\* g starts at a and goes on by the step, up to n.
Recursive(g, n, T, a, step) ==
  /\ g \in [0..n -> T]
  /\ g[0] = a
  /\ \A i \in 1..n : g[i] = step[<<g[i - 1], i>>]

\* A function can be defined by recursion over the first n numbers.
LEMMA FiniteRecursion ==
    ASSUME NEW n \in Nat, NEW T, NEW a \in T, NEW step \in [T \X (1..n) -> T]
    PROVE  \E g : Recursive(g, n, T, a, step)
  <1> DEFINE Upto(k) == {g \in [0..k -> T] : g[0] = a /\ \A i \in 1..k : g[i] = step[<<g[i - 1], i>>]}
             good == {k \in 0..n : Upto(k) # {}}
  <1>1. 0 \in good
    <2>1. [i \in 0..0 |-> a] \in Upto(0)
      OBVIOUS
    <2> QED
      BY <2>1
  <1>2. ASSUME NEW k \in 1..n, k - 1 \in good PROVE k \in good
    <2>1. PICK g \in [0..(k - 1) -> T] : g[0] = a /\ \A i \in 1..(k - 1) : g[i] = step[<<g[i - 1], i>>]
      BY <1>2
    <2> DEFINE h == [i \in 0..k |-> IF i = k THEN step[<<g[k - 1], k>>] ELSE g[i]]
    <2>2. step[<<g[k - 1], k>>] \in T
      BY <2>1
    <2>3. h \in [0..k -> T]
      BY <2>1, <2>2
    <2>4. h[0] = a
      BY <2>1
    <2>5. ASSUME NEW i \in 1..k PROVE h[i] = step[<<h[i - 1], i>>]
      <3>1. h[i - 1] = g[i - 1]
        BY <2>5
      <3>2. CASE i = k
        <4>1. h[k] = step[<<g[k - 1], k>>]
          BY k \in 0..k
        <4> QED
          BY <3>1, <3>2, <4>1
      <3>3. CASE i \in 1..(k - 1)
        BY <3>1, <3>3, <2>1
      <3> QED
        BY <3>2, <3>3
    <2> HIDE DEF h
    <2>6. h \in Upto(k)
      BY <2>3, <2>4, <2>5
    <2> QED
      BY <2>6
  <1> HIDE DEF good
  <1>3. \A k \in 0..n : k \in good
    BY <1>1, <1>2, FiniteInduction
  <1>4. PICK g \in [0..n -> T] : g[0] = a /\ \A i \in 1..n : g[i] = step[<<g[i - 1], i>>]
    BY <1>3 DEF good
  <1> QED
    BY <1>4, Zenon DEF Recursive

-----------------------------------------------------------------------------
(* Lists, of whatever elements.                                            *)

LEMMA SeqsAreLists ==
    ASSUME NEW T, NEW s \in Seq(T)
    PROVE  /\ IsList(s) /\ ToSet(s) \subseteq T
           /\ Len(s) \in Nat /\ DOMAIN s = 1..Len(s)
           /\ \A i \in 1..Len(s) : s[i] \in ToSet(s)
           /\ \A x \in ToSet(s) : \E i \in 1..Len(s) : x = s[i]
  BY DEF IsList, ToSet

LEMMA ListProperties ==
    ASSUME NEW s, IsList(s)
    PROVE  /\ Len(s) \in Nat /\ DOMAIN s = 1..Len(s)
           /\ \A i \in 1..Len(s) : s[i] \in ToSet(s)
           /\ \A x \in ToSet(s) : \E i \in 1..Len(s) : x = s[i]
  BY DEF IsList, ToSet

LEMMA AppendIsList ==
    ASSUME NEW s, NEW x, IsList(s)
    PROVE  /\ IsList(Append(s, x)) /\ ToSet(Append(s, x)) = ToSet(s) \cup {x}
           /\ Len(Append(s, x)) = Len(s) + 1
           /\ \A i \in 1..Len(s) : Append(s, x)[i] = s[i]
           /\ Append(s, x)[Len(s) + 1] = x
  <1> DEFINE T == ToSet(s) \cup {x}
  <1>1. s \in Seq(T) /\ Len(s) \in Nat /\ DOMAIN s = 1..Len(s)
    BY SeqMonotonic, ListProperties DEF IsList
  <1>2. /\ Append(s, x) \in Seq(T) /\ Len(Append(s, x)) = Len(s) + 1
        /\ \A i \in 1..Len(s) : Append(s, x)[i] = s[i]
        /\ Append(s, x)[Len(s) + 1] = x
    BY <1>1, AppendProperties
  <1>3. ToSet(Append(s, x)) = T
    <2>1. DOMAIN Append(s, x) = 1..(Len(s) + 1)
      BY <1>2, LenProperties
    <2>2. \A y \in ToSet(s) : \E i \in 1..Len(s) : y = s[i]
      BY ListProperties
    <2>3. \A i \in 1..Len(s) : s[i] \in ToSet(s)
      BY ListProperties
    <2>4. ASSUME NEW y \in T PROVE y \in ToSet(Append(s, x))
      BY <1>1, <1>2, <2>1, <2>2 DEF ToSet
    <2>5. ASSUME NEW y \in ToSet(Append(s, x)) PROVE y \in T
      <3>1. PICK i \in 1..(Len(s) + 1) : y = Append(s, x)[i]
        BY <2>1 DEF ToSet
      <3>2. CASE i \in 1..Len(s)
        BY <3>1, <3>2, <1>2, <2>3
      <3>3. CASE i = Len(s) + 1
        BY <3>1, <3>3, <1>2
      <3> QED
        BY <1>1, <3>2, <3>3
    <2> QED
      BY <2>4, <2>5
  <1> QED
    BY <1>2, <1>3 DEF IsList

LEMMA ConcatIsList ==
    ASSUME NEW s, NEW t, IsList(s), IsList(t)
    PROVE  /\ IsList(s \o t) /\ ToSet(s \o t) = ToSet(s) \cup ToSet(t)
           /\ Len(s \o t) = Len(s) + Len(t)
           /\ \A i \in 1..Len(s) : (s \o t)[i] = s[i]
           /\ \A i \in 1..Len(t) : (s \o t)[Len(s) + i] = t[i]
  <1> DEFINE T == ToSet(s) \cup ToSet(t)
  <1>1. /\ s \in Seq(T) /\ Len(s) \in Nat /\ t \in Seq(T) /\ Len(t) \in Nat
        /\ DOMAIN s = 1..Len(s) /\ DOMAIN t = 1..Len(t)
    BY SeqMonotonic, ListProperties DEF IsList
  <1>2. /\ s \o t \in Seq(T) /\ Len(s \o t) = Len(s) + Len(t)
        /\ \A i \in 1 .. Len(s) + Len(t) : (s \o t)[i] = IF i <= Len(s) THEN s[i] ELSE t[i - Len(s)]
    BY <1>1, ConcatProperties
  <1>3. /\ \A i \in 1..Len(s) : (s \o t)[i] = s[i]
        /\ \A i \in 1..Len(t) : (s \o t)[Len(s) + i] = t[i]
    <2>1. ASSUME NEW i \in 1..Len(t) PROVE (s \o t)[Len(s) + i] = t[i]
      <3>1. Len(s) + i \in 1..(Len(s) + Len(t)) /\ ~(Len(s) + i <= Len(s)) /\ Len(s) + i - Len(s) = i
        BY <1>1
      <3> QED
        BY <1>2, <3>1
    <2> QED
      BY <1>1, <1>2, <2>1
  <1>4. DOMAIN (s \o t) = 1..(Len(s) + Len(t))
    BY <1>2, LenProperties
  <1>5. ASSUME NEW y \in T PROVE y \in ToSet(s \o t)
    <2>1. CASE y \in ToSet(s)
      BY <2>1, <1>1, <1>3, <1>4 DEF ToSet
    <2>2. CASE y \in ToSet(t)
      <3>1. PICK i \in 1..Len(t) : y = t[i]
        BY <2>2, ListProperties
      <3>2. Len(s) + i \in DOMAIN (s \o t)
        BY <1>1, <1>4
      <3> QED
        BY <3>1, <3>2, <1>3 DEF ToSet
    <2> QED
      BY <2>1, <2>2
  <1>6. ToSet(s \o t) \subseteq T
    BY <1>2, SeqsAreLists
  <1> QED
    BY <1>2, <1>3, <1>5, <1>6 DEF IsList

LEMMA EmptyList ==
    ASSUME NEW s, IsList(s)
    PROVE  s = <<>> <=> Len(s) = 0
  BY EmptySeq DEF IsList

LEMMA NothingIsAList == IsList(<<>>) /\ ToSet(<<>>) = {} /\ Len(<<>>) = 0 /\ IsInjective(<<>>)
  BY DEF IsList, ToSet, IsInjective

LEMMA ListsEqual ==
    ASSUME NEW s, NEW t, IsList(s), IsList(t), Len(s) = Len(t), \A i \in 1..Len(s) : s[i] = t[i]
    PROVE  s = t
  <1>1. /\ s \in Seq(ToSet(s) \cup ToSet(t)) /\ t \in Seq(ToSet(s) \cup ToSet(t))
    BY SeqMonotonic DEF IsList
  <1> QED
    BY <1>1, SeqEqual

LEMMA FunctionsAreLists ==
    ASSUME NEW n \in Nat, NEW T, NEW s \in [1..n -> T]
    PROVE  IsList(s) /\ Len(s) = n /\ ToSet(s) \subseteq T
  <1>1. s \in Seq(T) /\ Len(s) = n
    BY LenProperties
  <1> QED
    BY <1>1, SeqsAreLists

LEMMA HeadAndTail ==
    ASSUME NEW s, IsList(s), s # <<>>
    PROVE  /\ Head(s) = s[1] /\ 1 \in 1..Len(s)
           /\ IsList(Tail(s)) /\ Len(Tail(s)) = Len(s) - 1
           /\ ToSet(s) = {Head(s)} \cup ToSet(Tail(s))
           /\ \A i \in 1..(Len(s) - 1) : Tail(s)[i] = s[i + 1]
           /\ IsInjective(s) => IsInjective(Tail(s)) /\ Head(s) \notin ToSet(Tail(s))
  <1>1. /\ Len(s) \in Nat /\ DOMAIN s = 1..Len(s) /\ Len(s) # 0
        /\ \A i \in 1..Len(s) : s[i] \in ToSet(s)
        /\ \A x \in ToSet(s) : \E i \in 1..Len(s) : x = s[i]
    BY ListProperties, EmptyList
  <1>2. /\ Head(s) = s[1] /\ Tail(s) \in Seq(ToSet(s)) /\ Len(Tail(s)) = Len(s) - 1
        /\ \A i \in 1..(Len(s) - 1) : Tail(s)[i] = s[i + 1]
    BY <1>1, HeadTailProperties DEF IsList
  <1> DEFINE t == Tail(s)
  <1>7. t \in Seq(ToSet(s)) /\ Len(t) = Len(s) - 1
    BY <1>2
  <1> HIDE DEF t
  <1>8. /\ IsList(t) /\ DOMAIN t = 1..(Len(s) - 1) /\ ToSet(t) \subseteq ToSet(s)
        /\ \A x \in ToSet(t) : \E i \in 1..(Len(s) - 1) : x = t[i]
        /\ \A i \in 1..(Len(s) - 1) : t[i] \in ToSet(t)
    BY <1>7, SeqsAreLists
  <1>3. /\ IsList(Tail(s)) /\ DOMAIN Tail(s) = 1..(Len(s) - 1) /\ ToSet(Tail(s)) \subseteq ToSet(s)
        /\ \A x \in ToSet(Tail(s)) : \E i \in 1..(Len(s) - 1) : x = Tail(s)[i]
        /\ \A i \in 1..(Len(s) - 1) : Tail(s)[i] \in ToSet(Tail(s))
    BY <1>8, Zenon DEF t
  <1>4. ASSUME NEW x \in ToSet(s) PROVE x = Head(s) \/ x \in ToSet(Tail(s))
    <2>1. PICK i \in 1..Len(s) : x = s[i]
      BY <1>1
    <2>2. CASE i = 1
      BY <2>1, <2>2, <1>2
    <2>3. CASE i # 1
      <3>1. i - 1 \in 1..(Len(s) - 1) /\ (i - 1) + 1 = i
        BY <1>1, <2>3
      <3>2. Tail(s)[i - 1] = s[i]
        BY <1>2, <3>1
      <3> QED
        BY <1>3, <2>1, <3>1, <3>2
    <2> QED
      BY <2>2, <2>3
  <1>5. ToSet(Tail(s)) \subseteq ToSet(s) /\ Head(s) \in ToSet(s)
    BY <1>1, <1>2, <1>3
  <1>6. ASSUME IsInjective(s) PROVE IsInjective(Tail(s)) /\ Head(s) \notin ToSet(Tail(s))
    <2>1. \A i \in 1..(Len(s) - 1) : i + 1 \in DOMAIN s /\ i + 1 # 1
      BY <1>1
    <2>2. \A i, j \in 1..(Len(s) - 1) : Tail(s)[i] = Tail(s)[j] => i + 1 = j + 1
      BY <1>2, <1>6, <2>1 DEF IsInjective
    <2>3. IsInjective(Tail(s))
      BY <1>1, <1>3, <2>2 DEF IsInjective
    <2>4. ASSUME Head(s) \in ToSet(Tail(s)) PROVE FALSE
      <3>1. PICK i \in 1..(Len(s) - 1) : Head(s) = Tail(s)[i]
        BY <1>3, <2>4
      <3>2. s[1] = s[i + 1] /\ 1 \in DOMAIN s
        BY <1>1, <1>2, <3>1
      <3> QED
        BY <1>6, <2>1, <3>2 DEF IsInjective
    <2> QED
      BY <2>3, <2>4
  <1> QED
    BY <1>1, <1>2, <1>3, <1>4, <1>5, <1>6

LEMMA PrefixIsList ==
    ASSUME NEW s, NEW k, IsList(s), k \in 0..Len(s)
    PROVE  /\ IsList(SubSeq(s, 1, k)) /\ Len(SubSeq(s, 1, k)) = k
           /\ \A i \in 1..k : SubSeq(s, 1, k)[i] = s[i]
  <1>1. Len(s) \in Nat /\ \A i \in 1..k : s[i] \in ToSet(s)
    BY ListProperties
  <1>2. /\ SubSeq(s, 1, k) \in Seq(ToSet(s)) /\ Len(SubSeq(s, 1, k)) = (IF 1 <= k THEN k - 1 + 1 ELSE 0)
        /\ \A i \in 1..(k - 1 + 1) : SubSeq(s, 1, k)[i] = s[1 + i - 1]
    BY <1>1, SubSeqProperties
  <1> DEFINE t == SubSeq(s, 1, k)
  <1>3. t \in Seq(ToSet(s))
    BY <1>2
  <1> HIDE DEF t
  <1>4. IsList(t)
    BY <1>3, SeqsAreLists
  <1> QED
    BY <1>1, <1>2, <1>4 DEF t

LEMMA AppendKeepsDistinct ==
    ASSUME NEW s, NEW x, IsList(s), IsInjective(s), x \notin ToSet(s)
    PROVE  IsInjective(Append(s, x))
  <1>1. /\ Len(s) \in Nat /\ DOMAIN s = 1..Len(s) /\ \A i \in 1..Len(s) : s[i] \in ToSet(s)
        /\ IsList(Append(s, x)) /\ Len(Append(s, x)) = Len(s) + 1
        /\ \A i \in 1..Len(s) : Append(s, x)[i] = s[i]
        /\ Append(s, x)[Len(s) + 1] = x
    BY ListProperties, AppendIsList
  <1>2. DOMAIN Append(s, x) = 1..(Len(s) + 1)
    BY <1>1, ListProperties
  <1>6. PICK u : u = Append(s, x)
    OBVIOUS
  <1>4. DOMAIN u = 1..(Len(s) + 1)
    BY <1>2, <1>6
  <1>3. ASSUME NEW i \in 1..(Len(s) + 1), NEW j \in 1..(Len(s) + 1), u[i] = u[j]
        PROVE  i = j
    <2>1. CASE i \in 1..Len(s) /\ j \in 1..Len(s)
      BY <1>1, <1>6, <1>3, <2>1 DEF IsInjective
    <2>2. CASE i = Len(s) + 1 \/ j = Len(s) + 1
      BY <1>1, <1>6, <1>3, <2>2
    <2> QED
      BY <1>1, <2>1, <2>2
  <1>5. IsInjective(u)
    BY <1>3, <1>4 DEF IsInjective
  <1> QED
    BY <1>5, <1>6

LEMMA ConcatKeepsDistinct ==
    ASSUME NEW s, NEW t, IsList(s), IsList(t), IsInjective(s), IsInjective(t), ToSet(s) \cap ToSet(t) = {}
    PROVE  IsInjective(s \o t)
  <1>1. /\ Len(s) \in Nat /\ DOMAIN s = 1..Len(s) /\ \A i \in 1..Len(s) : s[i] \in ToSet(s)
        /\ Len(t) \in Nat /\ DOMAIN t = 1..Len(t) /\ \A i \in 1..Len(t) : t[i] \in ToSet(t)
    BY ListProperties
  <1>2. /\ IsList(s \o t) /\ Len(s \o t) = Len(s) + Len(t)
        /\ \A i \in 1..Len(s) : (s \o t)[i] = s[i]
        /\ \A i \in 1..Len(t) : (s \o t)[Len(s) + i] = t[i]
    BY ConcatIsList
  <1>3. DOMAIN (s \o t) = 1..(Len(s) + Len(t))
    BY <1>2, ListProperties
  <1>4. ASSUME NEW i \in 1..(Len(s) + Len(t)), i \notin 1..Len(s)
        PROVE  i - Len(s) \in 1..Len(t) /\ (s \o t)[i] = t[i - Len(s)]
    <2>1. i - Len(s) \in 1..Len(t) /\ Len(s) + (i - Len(s)) = i
      BY <1>1, <1>4
    <2> QED
      BY <1>2, <2>1
  <1>5. ASSUME NEW i \in 1..(Len(s) + Len(t)), NEW j \in 1..(Len(s) + Len(t)), (s \o t)[i] = (s \o t)[j]
        PROVE  i = j
    <2>1. CASE i \in 1..Len(s) /\ j \in 1..Len(s)
      BY <1>1, <1>2, <1>5, <2>1 DEF IsInjective
    <2>2. CASE i \notin 1..Len(s) /\ j \notin 1..Len(s)
      <3>1. t[i - Len(s)] = t[j - Len(s)] /\ i - Len(s) \in DOMAIN t /\ j - Len(s) \in DOMAIN t
        BY <1>1, <1>4, <1>5, <2>2
      <3>2. i - Len(s) = j - Len(s)
        BY <3>1 DEF IsInjective
      <3> QED
        BY <1>1, <3>2
    <2>3. CASE (i \in 1..Len(s) /\ j \notin 1..Len(s)) \/ (j \in 1..Len(s) /\ i \notin 1..Len(s))
      BY <1>1, <1>2, <1>4, <1>5, <2>3
    <2> QED
      BY <2>1, <2>2, <2>3
  <1> QED
    BY <1>3, <1>5 DEF IsInjective

\* The steps of a filter.
LEMMA FilterSteps ==
    ASSUME NEW s, NEW S, IsList(s)
    PROVE  \E kept : /\ kept[0] = <<>>
                     /\ \A i \in 1..Len(s) : kept[i] = IF s[i] \in S THEN Append(kept[i - 1], s[i]) ELSE kept[i - 1]
                     /\ Filter(s, S) = kept[Len(s)]
  <1> DEFINE n == Len(s)
             T == Seq(ToSet(s))
             step == [x \in T \X (1..n) |-> IF s[x[2]] \in S THEN Append(x[1], s[x[2]]) ELSE x[1]]
             Body(g) == [i \in 0..n |-> IF i = 0 THEN <<>> ELSE IF s[i] \in S THEN Append(g[i - 1], s[i]) ELSE g[i - 1]]
             kept == CHOOSE g : g = Body(g)
  <1>1. n \in Nat /\ \A i \in 1..n : s[i] \in ToSet(s)
    BY ListProperties
  <1>2. <<>> \in T /\ step \in [T \X (1..n) -> T]
    BY <1>1, AppendProperties
  <1>3. PICK g : Recursive(g, n, T, <<>>, step)
    <2> HIDE DEF T, step, n, Body, kept
    <2> QED
      BY <1>1, <1>2, FiniteRecursion
  <1>4. g = Body(g)
    <2>1. ASSUME NEW i \in 1..n PROVE g[i] = IF s[i] \in S THEN Append(g[i - 1], s[i]) ELSE g[i - 1]
      <3> HIDE DEF n, T, Body, kept
      <3>1. <<g[i - 1], i>> \in T \X (1..n)
        BY <1>1, <1>3 DEF Recursive
      <3> QED
        BY <1>3, <3>1 DEF Recursive
    <2> HIDE DEF n, T, kept, step
    <2>2. \A i \in 0..n : g[i] = IF i = 0 THEN <<>> ELSE IF s[i] \in S THEN Append(g[i - 1], s[i]) ELSE g[i - 1]
      <3>1. g[0] = <<>>
        BY <1>3 DEF Recursive
      <3>2. \A i \in 0..n : i = 0 \/ (i \in 1..n /\ i # 0)
        BY <1>1
      <3> HIDE DEF Body
      <3> QED
        BY <3>1, <3>2, <2>1, Zenon
    <2>3. g = [i \in 0..n |-> g[i]]
      BY <1>3 DEF Recursive
    <2> QED
      BY <2>2, <2>3
  <1>5. kept = Body(kept)
    BY <1>4, Zenon
  <1>6. kept[0] = <<>> /\ \A i \in 1..n : kept[i] = IF s[i] \in S THEN Append(kept[i - 1], s[i]) ELSE kept[i - 1]
    <2> HIDE DEF kept, n, T, step
    <2>1. \A i \in 0..n : kept[i] = IF i = 0 THEN <<>> ELSE IF s[i] \in S THEN Append(kept[i - 1], s[i]) ELSE kept[i - 1]
      BY <1>5, Zenon
    <2> QED
      BY <1>1, <2>1
  <1>7. Filter(s, S) = kept[n] /\ n = Len(s)
    BY DEF Filter
  <1> HIDE DEF kept, T, step, Body
  <1> QED
    BY <1>6, <1>7

\* A filter keeps the elements of the list that are in the set, and no other.
LEMMA FilterKeeps ==
    ASSUME NEW s, NEW S, IsList(s)
    PROVE  /\ IsList(Filter(s, S)) /\ ToSet(Filter(s, S)) = ToSet(s) \cap S
           /\ Len(Filter(s, S)) <= Len(s)
           /\ IsInjective(s) => IsInjective(Filter(s, S))
  <1> DEFINE n == Len(s)
  <1>1. n \in Nat /\ \A i \in 1..n : s[i] \in ToSet(s)
    BY ListProperties
  <1>6. PICK kept : /\ kept[0] = <<>>
                    /\ \A i \in 1..n : kept[i] = IF s[i] \in S THEN Append(kept[i - 1], s[i]) ELSE kept[i - 1]
                    /\ Filter(s, S) = kept[n]
    BY FilterSteps
  <1>7. Filter(s, S) = kept[n] /\ n = Len(s)
    BY <1>6
  <1> HIDE DEF n
  <1> DEFINE good == {i \in 0..n : /\ IsList(kept[i]) /\ ToSet(kept[i]) = {s[k] : k \in 1..i} \cap S
                                   /\ Len(kept[i]) <= i
                                   /\ IsInjective(s) => IsInjective(kept[i])}
  <1>8. 0 \in good
    <2>1. {s[k] : k \in 1..0} = {}
      OBVIOUS
    <2> QED
      BY <1>1, <1>6, <2>1, NothingIsAList
  <1>9. ASSUME NEW i \in 1..n, i - 1 \in good PROVE i \in good
    <2>1. {s[k] : k \in 1..i} = {s[k] : k \in 1..(i - 1)} \cup {s[i]}
      <3>1. \A k \in 1..i : k \in 1..(i - 1) \/ k = i
        BY <1>1
      <3> QED
        BY <3>1, <1>1
    <2>2. IsList(kept[i - 1]) /\ ToSet(kept[i - 1]) = {s[k] : k \in 1..(i - 1)} \cap S /\ Len(kept[i - 1]) <= i - 1
      BY <1>9
    <2>3. CASE s[i] \in S
      <3>1. kept[i] = Append(kept[i - 1], s[i])
        BY <1>6, <2>3
      <3>2. IsList(kept[i]) /\ ToSet(kept[i]) = ToSet(kept[i - 1]) \cup {s[i]} /\ Len(kept[i]) = Len(kept[i - 1]) + 1
        BY <3>1, <2>2, AppendIsList
      <3>3. Len(kept[i - 1]) \in Nat
        BY <2>2, ListProperties
      <3>4. ASSUME IsInjective(s) PROVE IsInjective(kept[i])
        <4>1. s[i] \notin ToSet(kept[i - 1]) /\ IsInjective(kept[i - 1])
          <5>1. \A k \in 1..(i - 1) : k \in DOMAIN s /\ i \in DOMAIN s /\ k # i
            BY <1>1, <1>7, ListProperties
          <5>2. \A k \in 1..(i - 1) : s[k] # s[i]
            BY <3>4, <5>1, Zenon DEF IsInjective
          <5> QED
            BY <1>9, <2>2, <3>4, <5>2
        <4> QED
          <5>1. IsInjective(Append(kept[i - 1], s[i]))
            BY <2>2, <4>1, AppendKeepsDistinct
          <5> QED
            BY <3>1, <5>1, Zenon
      <3> QED
        BY <3>2, <3>3, <3>4, <2>1, <2>2, <2>3, <1>1
    <2>4. CASE s[i] \notin S
      BY <1>6, <1>9, <2>1, <2>2, <2>4, ListProperties, <1>1
    <2> QED
      BY <2>3, <2>4
  <1> HIDE DEF good
  <1>10. n \in good
    BY <1>1, <1>8, <1>9, FiniteInduction
  <1>11. ToSet(s) = {s[k] : k \in 1..n}
    BY <1>7, ListProperties DEF ToSet
  <1> QED
    BY <1>7, <1>10, <1>11 DEF good

LEMMA InsertIsList ==
    ASSUME NEW s, NEW x, NEW k, IsList(s), k \in 1..(Len(s) + 1)
    PROVE  /\ IsList(InsertAt(s, k, x)) /\ ToSet(InsertAt(s, k, x)) = ToSet(s) \cup {x}
           /\ Len(InsertAt(s, k, x)) = Len(s) + 1
           /\ IsInjective(s) /\ x \notin ToSet(s) => IsInjective(InsertAt(s, k, x))
  <1> DEFINE front == SubSeq(s, 1, k - 1)
             back == SubSeq(s, k, Len(s))
  <1>0. /\ Len(s) \in Nat /\ k \in Int /\ k - 1 \in Int
        /\ \A i \in 1..Len(s) : s[i] \in ToSet(s)
        /\ \A y \in ToSet(s) : \E i \in 1..Len(s) : y = s[i]
    BY ListProperties
  <1>1. /\ front \in Seq(ToSet(s)) /\ Len(front) = k - 1
        /\ \A i \in 1..(k - 1) : front[i] = s[i]
    <2>1. \A i \in 1..(k - 1) : s[i] \in ToSet(s)
      BY <1>0
    <2>2. /\ front \in Seq(ToSet(s)) /\ Len(front) = IF 1 <= k - 1 THEN (k - 1) - 1 + 1 ELSE 0
          /\ \A i \in 1..((k - 1) - 1 + 1) : front[i] = s[1 + i - 1]
      BY <1>0, <2>1, SubSeqProperties
    <2> QED
      BY <1>0, <2>2
  <1>2. /\ back \in Seq(ToSet(s)) /\ Len(back) = Len(s) - k + 1
        /\ \A i \in 1..(Len(s) - k + 1) : back[i] = s[k + i - 1]
    <2>1. \A i \in k..Len(s) : s[i] \in ToSet(s)
      BY <1>0
    <2>2. /\ back \in Seq(ToSet(s)) /\ Len(back) = IF k <= Len(s) THEN Len(s) - k + 1 ELSE 0
          /\ \A i \in 1..(Len(s) - k + 1) : back[i] = s[k + i - 1]
      BY <1>0, <2>1, SubSeqProperties
    <2> QED
      BY <1>0, <2>2
  <1> HIDE DEF front, back
  <1>3. IsList(front) /\ IsList(back) /\ ToSet(front) \subseteq ToSet(s) /\ ToSet(back) \subseteq ToSet(s)
    BY <1>1, <1>2, SeqsAreLists
  <1>4. IsList(<<x>>) /\ ToSet(<<x>>) = {x} /\ Len(<<x>>) = 1
    BY DEF IsList, ToSet
  <1>5. IsList(front \o <<x>>) /\ ToSet(front \o <<x>>) = ToSet(front) \cup {x} /\ Len(front \o <<x>>) = k
    BY <1>0, <1>1, <1>3, <1>4, ConcatIsList
  <1>6. /\ IsList((front \o <<x>>) \o back)
        /\ ToSet((front \o <<x>>) \o back) = ToSet(front) \cup {x} \cup ToSet(back)
        /\ Len((front \o <<x>>) \o back) = Len(s) + 1
    <2>1. Len((front \o <<x>>) \o back) = k + (Len(s) - k + 1)
      BY <1>2, <1>3, <1>5, ConcatIsList
    <2>2. k + (Len(s) - k + 1) = Len(s) + 1
      BY <1>0
    <2> QED
      BY <1>3, <1>5, <2>1, <2>2, ConcatIsList
  <1>7. InsertAt(s, k, x) = (front \o <<x>>) \o back
    BY DEF InsertAt, front, back
  <1>8. ASSUME NEW y \in ToSet(s) PROVE y \in ToSet(front) \cup ToSet(back)
    <2>1. PICK i \in 1..Len(s) : y = s[i]
      BY <1>0
    <2>2. CASE i <= k - 1
      <3>1. i \in DOMAIN front
        BY <1>0, <1>1, <2>2, LenProperties
      <3> QED
        BY <1>0, <1>1, <2>1, <2>2, <3>1 DEF ToSet
    <2>3. CASE ~(i <= k - 1)
      <3>1. i - k + 1 \in 1..(Len(s) - k + 1) /\ k + (i - k + 1) - 1 = i
        BY <1>0, <2>3
      <3>2. i - k + 1 \in DOMAIN back
        BY <1>0, <1>2, <3>1, LenProperties
      <3>3. back[i - k + 1] = s[i]
        BY <1>2, <3>1
      <3> QED
        BY <2>1, <3>2, <3>3 DEF ToSet
    <2> QED
      BY <2>2, <2>3
  <1>9. ASSUME IsInjective(s), x \notin ToSet(s) PROVE IsInjective((front \o <<x>>) \o back)
    <2>0. /\ DOMAIN s = 1..Len(s) /\ DOMAIN front = 1..(k - 1) /\ DOMAIN back = 1..(Len(s) - k + 1)
          /\ \A y \in ToSet(front) : \E i \in 1..(k - 1) : y = front[i]
          /\ \A y \in ToSet(back) : \E i \in 1..(Len(s) - k + 1) : y = back[i]
      BY <1>1, <1>2, <1>3, ListProperties
    <2>1. IsInjective(front)
      <3>1. \A i \in 1..(k - 1) : i \in DOMAIN s /\ front[i] = s[i]
        BY <1>0, <1>1, <2>0
      <3> QED
        BY <1>9, <2>0, <3>1 DEF IsInjective
    <2>2. \A i \in 1..(Len(s) - k + 1) : k + i - 1 \in DOMAIN s /\ back[i] = s[k + i - 1]
      BY <1>0, <1>2, <2>0
    <2>3. IsInjective(back)
      <3>1. \A i, j \in 1..(Len(s) - k + 1) : back[i] = back[j] => k + i - 1 = k + j - 1
        BY <1>9, <2>2 DEF IsInjective
      <3> QED
        BY <1>0, <2>0, <3>1 DEF IsInjective
    <2>4. ToSet(front) \cap ToSet(back) = {}
      <3>1. ASSUME NEW i \in 1..(k - 1), NEW j \in 1..(Len(s) - k + 1), front[i] = back[j] PROVE FALSE
        <4>1. s[i] = s[k + j - 1] /\ i \in DOMAIN s /\ k + j - 1 \in DOMAIN s
          BY <1>0, <1>1, <2>0, <2>2, <3>1
        <4>2. i = k + j - 1
          BY <1>9, <4>1 DEF IsInjective
        <4> QED
          BY <1>0, <4>2
      <3> QED
        BY <2>0, <3>1
    <2>5. IsInjective(<<x>>) /\ ToSet(front) \cap {x} = {}
      BY <1>3, <1>9 DEF IsInjective
    <2>6. IsInjective(front \o <<x>>)
      BY <1>3, <1>4, <2>1, <2>5, ConcatKeepsDistinct
    <2>7. ToSet(front \o <<x>>) \cap ToSet(back) = {}
      BY <1>3, <1>5, <1>9, <2>4
    <2> QED
      BY <1>3, <1>5, <2>3, <2>6, <2>7, ConcatKeepsDistinct
  <1> QED
    BY <1>3, <1>6, <1>7, <1>8, <1>9

\* Sorting loses no element and adds none.
LEMMA SortPermutes ==
    ASSUME NEW s, NEW precedes, IsList(s)
    PROVE  /\ IsList(StableSort(s, precedes)) /\ ToSet(StableSort(s, precedes)) = ToSet(s)
           /\ Len(StableSort(s, precedes)) = Len(s)
           /\ IsInjective(s) => IsInjective(StableSort(s, precedes))
  <1> DEFINE n == Len(s)
             T == {t \in Seq(ToSet(s)) : TRUE}
             At(x, done) == Min({j \in DOMAIN done : <<x, done[j]>> \in precedes} \cup {Len(done) + 1})
             step == [p \in T \X (1..n) |-> InsertAt(p[1], At(s[p[2]], p[1]), s[p[2]])]
             Body(g) == [i \in 0..n |-> IF i = 0 THEN <<>> ELSE InsertAt(g[i - 1], At(s[i], g[i - 1]), s[i])]
             sorted == CHOOSE g : g = Body(g)
  <1>1. n \in Nat /\ \A i \in 1..n : s[i] \in ToSet(s)
    BY ListProperties
  <1>2. ASSUME NEW x, NEW done, IsList(done) PROVE At(x, done) \in 1..(Len(done) + 1)
    <2> DEFINE later == {j \in DOMAIN done : <<x, done[j]>> \in precedes}
    <2>1. Len(done) \in Nat /\ DOMAIN done = 1..Len(done)
      BY <1>2, ListProperties
    <2>2. later \cup {Len(done) + 1} \subseteq 1..(Len(done) + 1)
      BY <2>1
    <2> HIDE DEF later
    <2>3. later \cup {Len(done) + 1} \subseteq Nat /\ later \cup {Len(done) + 1} # {}
      BY <2>1, <2>2
    <2>4. Min(later \cup {Len(done) + 1}) \in later \cup {Len(done) + 1}
      BY <2>3, MinOf
    <2> QED
      BY <2>2, <2>4 DEF later
  <1> HIDE DEF At
  <1>3. ASSUME NEW t \in T, NEW i \in 1..n PROVE InsertAt(t, At(s[i], t), s[i]) \in T
    <2>1. IsList(t) /\ ToSet(t) \subseteq ToSet(s)
      BY SeqsAreLists
    <2>2. /\ IsList(InsertAt(t, At(s[i], t), s[i]))
          /\ ToSet(InsertAt(t, At(s[i], t), s[i])) = ToSet(t) \cup {s[i]}
      BY <1>2, <2>1, InsertIsList
    <2> QED
      BY <1>1, <2>1, <2>2, SeqMonotonic DEF IsList
  <1>4. <<>> \in T /\ step \in [T \X (1..n) -> T]
    BY <1>3
  <1>5. PICK g : Recursive(g, n, T, <<>>, step)
    <2> HIDE DEF T, step, n, Body, sorted
    <2> QED
      BY <1>1, <1>4, FiniteRecursion
  <1>6. g = Body(g)
    <2>1. ASSUME NEW i \in 1..n PROVE g[i] = InsertAt(g[i - 1], At(s[i], g[i - 1]), s[i])
      <3> HIDE DEF n, T, Body, sorted
      <3>1. <<g[i - 1], i>> \in T \X (1..n)
        BY <1>1, <1>5 DEF Recursive
      <3> QED
        BY <1>5, <3>1 DEF Recursive
    <2> HIDE DEF n, T, sorted, step
    <2>2. \A i \in 0..n : g[i] = IF i = 0 THEN <<>> ELSE InsertAt(g[i - 1], At(s[i], g[i - 1]), s[i])
      <3>1. g[0] = <<>>
        BY <1>5 DEF Recursive
      <3>2. \A i \in 0..n : i = 0 \/ (i \in 1..n /\ i # 0)
        BY <1>1
      <3> HIDE DEF Body
      <3> QED
        BY <3>1, <3>2, <2>1, Zenon
    <2>3. g = [i \in 0..n |-> g[i]]
      BY <1>5 DEF Recursive
    <2> QED
      BY <2>2, <2>3
  <1>7. sorted = Body(sorted)
    BY <1>6, Zenon
  <1>8. sorted[0] = <<>> /\ \A i \in 1..n : sorted[i] = InsertAt(sorted[i - 1], At(s[i], sorted[i - 1]), s[i])
    <2> HIDE DEF sorted, n, T, step
    <2>1. \A i \in 0..n : sorted[i] = IF i = 0 THEN <<>> ELSE InsertAt(sorted[i - 1], At(s[i], sorted[i - 1]), s[i])
      BY <1>7, Zenon
    <2> QED
      BY <1>1, <2>1
  <1>9. StableSort(s, precedes) = sorted[n] /\ n = Len(s)
    BY DEF StableSort, At
  <1> HIDE DEF sorted, T, step, n, Body
  <1> DEFINE good == {i \in 0..n : /\ IsList(sorted[i]) /\ ToSet(sorted[i]) = {s[k] : k \in 1..i}
                                   /\ Len(sorted[i]) = i
                                   /\ IsInjective(s) => IsInjective(sorted[i])}
  <1>10. 0 \in good
    <2>1. {s[k] : k \in 1..0} = {}
      OBVIOUS
    <2> QED
      BY <1>1, <1>8, <2>1, NothingIsAList
  <1>11. ASSUME NEW i \in 1..n, i - 1 \in good PROVE i \in good
    <2>1. {s[k] : k \in 1..i} = {s[k] : k \in 1..(i - 1)} \cup {s[i]}
      <3>1. \A k \in 1..i : k \in 1..(i - 1) \/ k = i
        BY <1>1
      <3> QED
        BY <3>1, <1>1
    <2>2. IsList(sorted[i - 1]) /\ ToSet(sorted[i - 1]) = {s[k] : k \in 1..(i - 1)} /\ Len(sorted[i - 1]) = i - 1
      BY <1>11
    <2>3. sorted[i] = InsertAt(sorted[i - 1], At(s[i], sorted[i - 1]), s[i])
      BY <1>8
    <2>4. /\ IsList(sorted[i]) /\ ToSet(sorted[i]) = ToSet(sorted[i - 1]) \cup {s[i]}
          /\ Len(sorted[i]) = Len(sorted[i - 1]) + 1
      BY <1>2, <2>2, <2>3, InsertIsList
    <2>5. ASSUME IsInjective(s) PROVE IsInjective(sorted[i])
      <3>0. \A k \in 1..(i - 1) : k \in DOMAIN s /\ i \in DOMAIN s /\ k # i
        BY <1>1, <1>9, ListProperties
      <3>1. \A k \in 1..(i - 1) : s[k] # s[i]
        BY <2>5, <3>0, Zenon DEF IsInjective
      <3>2. s[i] \notin ToSet(sorted[i - 1]) /\ IsInjective(sorted[i - 1])
        BY <1>11, <2>2, <2>5, <3>1
      <3> QED
        BY <1>2, <2>2, <2>3, <3>2, InsertIsList
    <2> QED
      BY <1>1, <2>1, <2>2, <2>4, <2>5
  <1> HIDE DEF good
  <1>12. n \in good
    BY <1>1, <1>10, <1>11, FiniteInduction
  <1>13. ToSet(s) = {s[k] : k \in 1..n}
    BY <1>9, ListProperties DEF ToSet
  <1> QED
    BY <1>9, <1>12, <1>13 DEF good

LEMMA UnionOfOneMore ==
    ASSUME NEW Y, NEW Z
    PROVE  UNION (Y \cup {Z}) = (UNION Y) \cup Z
  OBVIOUS

\* No element is in two of the lists, or twice in one.
DistinctThroughout(ss) ==
  /\ \A i \in 1..Len(ss) : IsInjective(ss[i])
  /\ \A i, j \in 1..Len(ss) : i # j => ToSet(ss[i]) \cap ToSet(ss[j]) = {}

\* A flattened list has the elements of its lists, and no other.
LEMMA FlattenCollects ==
    ASSUME NEW ss, IsList(ss), \A i \in 1..Len(ss) : IsList(ss[i])
    PROVE  /\ IsList(FlattenSeq(ss))
           /\ ToSet(FlattenSeq(ss)) = UNION {ToSet(ss[i]) : i \in 1..Len(ss)}
           /\ DistinctThroughout(ss) => IsInjective(FlattenSeq(ss))
  <1> DEFINE n == Len(ss)
             U == UNION {ToSet(ss[i]) : i \in 1..n}
             T == {t \in Seq(U) : TRUE}
             step == [p \in T \X (1..n) |-> p[1] \o ss[p[2]]]
             Body(g) == [i \in 1..n |-> IF i = 1 THEN ss[i] ELSE g[i - 1] \o ss[i]]
             flat == CHOOSE g : g = Body(g)
  <1>1. n \in Nat
    BY ListProperties
  <1>2. CASE n = 0
    <2>1. ss = <<>>
      BY <1>2, EmptySeq DEF IsList
    <2> QED
      BY <1>2, <2>1, NothingIsAList DEF FlattenSeq
  <1>3. CASE n # 0
    <2>1. \A i \in 1..n : ss[i] \in Seq(U)
      BY SeqMonotonic DEF IsList
    <2>2. <<>> \in T /\ step \in [T \X (1..n) -> T]
      BY <2>1, ConcatProperties
    <2>3. PICK g : Recursive(g, n, T, <<>>, step)
      <3> HIDE DEF T, step, n, Body, flat
      <3> QED
        BY <1>1, <2>2, FiniteRecursion
    <2> DEFINE h == [i \in 1..n |-> g[i]]
    <2>4. h = Body(h)
      <3>1. ASSUME NEW i \in 1..n PROVE g[i] = g[i - 1] \o ss[i]
        <4> HIDE DEF n, T, Body, flat
        <4>1. <<g[i - 1], i>> \in T \X (1..n)
          BY <1>1, <2>3 DEF Recursive
        <4> QED
          BY <2>3, <4>1 DEF Recursive
      <3> HIDE DEF step, T, U, flat
      <3>2. \A i \in 1..n : h[i] = IF i = 1 THEN ss[i] ELSE h[i - 1] \o ss[i]
        <4>1. g[1] = ss[1]
          <5>1. 1 \in 1..n /\ 1 - 1 = 0
            BY <1>1, <1>3
          <5>2. g[1] = g[0] \o ss[1]
            BY <3>1, <5>1
          <5>3. g[0] = <<>>
            BY <2>3 DEF Recursive
          <5> QED
            BY <2>1, <5>1, <5>2, <5>3, ConcatEmptySeq
        <4>2. \A i \in 1..n : i # 1 => i - 1 \in 1..n
          BY <1>1
        <4>3. ASSUME NEW i \in 1..n, i # 1 PROVE h[i] = h[i - 1] \o ss[i]
          BY <3>1, <4>2, <4>3
        <4>4. ASSUME NEW i \in 1..n, i = 1 PROVE h[i] = ss[i]
          BY <4>1, <4>4
        <4> HIDE DEF h, n, Body
        <4> QED
          BY <4>3, <4>4
      <3>3. h = [i \in 1..n |-> h[i]]
        OBVIOUS
      <3> HIDE DEF h, n
      <3> QED
        BY <3>2, <3>3
    <2>5. flat = Body(flat)
      BY <2>4, Zenon
    <2>6. \A i \in 1..n : flat[i] = IF i = 1 THEN ss[i] ELSE flat[i - 1] \o ss[i]
      <3> HIDE DEF flat, n, T, step
      <3> QED
        BY <2>5, Zenon
    <2>7. FlattenSeq(ss) = flat[n] /\ n = Len(ss)
      BY <1>3 DEF FlattenSeq
    <2> HIDE DEF flat, T, U, step, n, Body, h
    <2> DEFINE good == {i \in 0..n : i = 0 \/ (IsList(flat[i]) /\ ToSet(flat[i]) = UNION {ToSet(ss[k]) : k \in 1..i}
                                              /\ (DistinctThroughout(ss) => IsInjective(flat[i])))}
    <2>8. 0 \in good
      BY <1>1
    <2>9. ASSUME NEW i \in 1..n, i - 1 \in good PROVE i \in good
      <3>1. CASE i = 1
        <4>1. UNION {ToSet(ss[k]) : k \in 1..1} = ToSet(ss[1])
          OBVIOUS
        <4> QED
          BY <1>1, <2>6, <2>7, <3>1, <4>1 DEF DistinctThroughout
      <3>2. CASE i # 1
        <4>1. UNION {ToSet(ss[k]) : k \in 1..i} = (UNION {ToSet(ss[k]) : k \in 1..(i - 1)}) \cup ToSet(ss[i])
          <5>1. \A k \in 1..i : k \in 1..(i - 1) \/ k = i
            BY <1>1
          <5>2. \A k \in 1..(i - 1) : k \in 1..i
            BY <1>1
          <5> DEFINE X == {ToSet(ss[k]) : k \in 1..i}
                     Y == {ToSet(ss[k]) : k \in 1..(i - 1)}
          <5>3. X = Y \cup {ToSet(ss[i])}
            BY <5>1, <5>2, <1>1
          <5> HIDE DEF X, Y
          <5>4. UNION X = (UNION Y) \cup ToSet(ss[i])
            BY <5>3, UnionOfOneMore
          <5> QED
            BY <5>4 DEF X, Y
        <4>2. /\ IsList(flat[i - 1]) /\ ToSet(flat[i - 1]) = UNION {ToSet(ss[k]) : k \in 1..(i - 1)}
              /\ DistinctThroughout(ss) => IsInjective(flat[i - 1])
          BY <1>1, <2>9, <3>2
        <4>3. flat[i] = flat[i - 1] \o ss[i] /\ IsList(ss[i])
          BY <2>6, <2>7, <3>2
        <4>4. IsList(flat[i]) /\ ToSet(flat[i]) = ToSet(flat[i - 1]) \cup ToSet(ss[i])
          BY <4>2, <4>3, ConcatIsList
        <4>5. ASSUME DistinctThroughout(ss) PROVE IsInjective(flat[i])
          <5>1. \A k \in 1..(i - 1) : ToSet(ss[k]) \cap ToSet(ss[i]) = {}
            BY <1>1, <2>7, <4>5 DEF DistinctThroughout
          <5>2. ToSet(flat[i - 1]) \cap ToSet(ss[i]) = {} /\ IsInjective(ss[i])
            BY <2>7, <4>2, <4>5, <5>1 DEF DistinctThroughout
          <5> QED
            BY <4>2, <4>3, <4>5, <5>2, ConcatKeepsDistinct
        <4> QED
          BY <4>1, <4>2, <4>4, <4>5
      <3> QED
        BY <3>1, <3>2
    <2> HIDE DEF good
    <2>10. n \in good
      BY <1>1, <2>8, <2>9, FiniteInduction
    <2> QED
      BY <1>3, <2>7, <2>10 DEF good
  <1> QED
    BY <1>2, <1>3

-----------------------------------------------------------------------------
(* Sums.                                                                   *)

LEMMA SumSteps ==
    ASSUME NEW n \in Nat, NEW s \in [1..n -> Int]
    PROVE  \E sum \in [0..n -> Int] :
             /\ sum[0] = 0 /\ \A i \in 1..n : sum[i] = sum[i - 1] + s[i]
             /\ Sum(s) = sum[n]
  <1> DEFINE step == [p \in Int \X (1..n) |-> p[1] + s[p[2]]]
             Body(g) == [i \in 0..n |-> IF i = 0 THEN 0 ELSE g[i - 1] + s[i]]
             sum == CHOOSE g : g = Body(g)
  <1>1. PICK g : Recursive(g, n, Int, 0, step)
    <2>1. 0 \in Int /\ step \in [Int \X (1..n) -> Int]
      OBVIOUS
    <2> HIDE DEF step, Body, sum
    <2> QED
      BY <2>1, FiniteRecursion
  <1>2. ASSUME NEW i \in 1..n PROVE g[i] = g[i - 1] + s[i]
    <2>1. <<g[i - 1], i>> \in Int \X (1..n)
      BY <1>1 DEF Recursive
    <2> QED
      BY <1>1, <2>1 DEF Recursive
  <1>3. g = Body(g)
    <2>1. \A i \in 0..n : g[i] = IF i = 0 THEN 0 ELSE g[i - 1] + s[i]
      <3>1. g[0] = 0 /\ \A i \in 0..n : i = 0 \/ (i \in 1..n /\ i # 0)
        BY <1>1 DEF Recursive
      <3> HIDE DEF Body, sum
      <3> QED
        BY <1>2, <3>1
    <2>2. g = [i \in 0..n |-> g[i]]
      BY <1>1 DEF Recursive
    <2> QED
      BY <2>1, <2>2
  <1>4. sum = Body(sum)
    BY <1>3, Zenon
  <1>5. \A i \in 0..n : sum[i] = IF i = 0 THEN 0 ELSE sum[i - 1] + s[i]
    <2> HIDE DEF sum
    <2> QED
      BY <1>4, Zenon
  <1>12. sum = [i \in 0..n |-> sum[i]]
    <2> HIDE DEF sum
    <2> QED
      BY <1>4, Zenon
  <1>6. Sum(s) = sum[n]
    <2>1. Len(s) = n
      BY LenProperties
    <2> QED
      BY <2>1 DEF Sum
  <1> HIDE DEF sum, Body, step
  <1> DEFINE good == {i \in 0..n : sum[i] \in Int}
  <1>13. sum[0] = 0 /\ \A i \in 1..n : sum[i] = sum[i - 1] + s[i]
    <2>1. 0 \in 0..n /\ \A i \in 1..n : i \in 0..n /\ i # 0
      OBVIOUS
    <2> QED
      BY <1>5, <2>1
  <1>7. 0 \in good
    BY <1>13
  <1>8. ASSUME NEW i \in 1..n, i - 1 \in good PROVE i \in good
    <2>1. sum[i] = sum[i - 1] + s[i] /\ sum[i - 1] \in Int
      BY <1>13, <1>8
    <2> QED
      BY <2>1
  <1> HIDE DEF good
  <1>9. \A i \in 0..n : i \in good
    BY <1>7, <1>8, FiniteInduction
  <1>10. sum \in [0..n -> Int]
    BY <1>12, <1>9 DEF good
  <1> QED
    BY <1>6, <1>10, <1>13

LEMMA SumIsInt ==
    ASSUME NEW n \in Nat, NEW s \in [1..n -> Int]
    PROVE  Sum(s) \in Int
  BY SumSteps

LEMMA SumIsNat ==
    ASSUME NEW n \in Nat, NEW s \in [1..n -> Nat]
    PROVE  Sum(s) \in Nat
  <1>0. s \in [1..n -> Int]
    OBVIOUS
  <1>1. PICK sum \in [0..n -> Int] :
          /\ sum[0] = 0 /\ \A i \in 1..n : sum[i] = sum[i - 1] + s[i]
          /\ Sum(s) = sum[n]
    BY <1>0, SumSteps
  <1> DEFINE good == {i \in 0..n : sum[i] >= 0}
  <1>2. 0 \in good
    BY <1>1
  <1>3. ASSUME NEW i \in 1..n, i - 1 \in good PROVE i \in good
    <2>1. sum[i] = sum[i - 1] + s[i] /\ sum[i - 1] >= 0 /\ s[i] >= 0 /\ sum[i - 1] \in Int
      BY <1>1, <1>3
    <2> QED
      BY <2>1
  <1> HIDE DEF good
  <1>4. \A i \in 0..n : i \in good
    BY <1>2, <1>3, FiniteInduction
  <1> QED
    BY <1>1, <1>4 DEF good

\* A sum of some of the first numbers of a list is no more than the sum of all.
LEMMA SumOfPrefix ==
    ASSUME NEW n \in Nat, NEW m \in 0..n, NEW s \in [1..m -> Int], NEW t \in [1..n -> Nat],
           \A i \in 1..m : s[i] <= t[i]
    PROVE  Sum(s) <= Sum(t)
  <1>0. m \in Nat /\ t \in [1..n -> Int]
    OBVIOUS
  <1>1. PICK f \in [0..m -> Int] :
          /\ f[0] = 0 /\ \A i \in 1..m : f[i] = f[i - 1] + s[i]
          /\ Sum(s) = f[m]
    BY <1>0, SumSteps
  <1>2. PICK g \in [0..n -> Int] :
          /\ g[0] = 0 /\ \A i \in 1..n : g[i] = g[i - 1] + t[i]
          /\ Sum(t) = g[n]
    BY <1>0, SumSteps
  <1> DEFINE good == {i \in 0..n : i <= m => f[i] <= g[i]}
             higher == {i \in 0..n : i >= m => f[m] <= g[i]}
  <1>3. 0 \in good
    BY <1>1, <1>2
  <1>4. ASSUME NEW i \in 1..n, i - 1 \in good PROVE i \in good
    <2>1. SUFFICES ASSUME i <= m PROVE f[i] <= g[i]
      OBVIOUS
    <2>2. i \in 1..m /\ i - 1 \in 0..m /\ i - 1 \in 0..n /\ i - 1 <= m
      BY <2>1
    <2>3. f[i - 1] <= g[i - 1] /\ f[i] = f[i - 1] + s[i] /\ g[i] = g[i - 1] + t[i] /\ s[i] <= t[i]
      BY <1>1, <1>2, <1>4, <2>2
    <2>4. f[i - 1] \in Int /\ g[i - 1] \in Int /\ s[i] \in Int /\ t[i] \in Int
      BY <2>2
    <2>5. \A a, b, c, d \in Int : a <= b /\ c <= d => a + c <= b + d
      OBVIOUS
    <2> HIDE DEF good, higher
    <2> QED
      BY <2>3, <2>4, <2>5
  <1>5. f[m] <= g[m]
    <2> HIDE DEF good
    <2>1. m \in good
      BY <1>3, <1>4, FiniteInduction
    <2> QED
      BY <2>1, <1>0 DEF good
  <1>6. 0 \in higher
    BY <1>5
  <1>7. ASSUME NEW i \in 1..n, i - 1 \in higher PROVE i \in higher
    <2>1. CASE i <= m
      BY <2>1, <1>5
    <2>2. CASE i > m
      <3>1. i - 1 >= m /\ i - 1 \in 0..n
        BY <2>2
      <3>2. f[m] <= g[i - 1] /\ g[i] = g[i - 1] + t[i]
        BY <1>2, <1>7, <3>1
      <3>3. f[m] \in Int /\ g[i - 1] \in Int /\ t[i] \in Nat
        BY <3>1
      <3>4. f[m] <= g[i]
        BY <3>2, <3>3
      <3> QED
        BY <3>4
    <2> QED
      BY <2>1, <2>2
  <1> HIDE DEF higher
  <1>8. \A i \in 0..n : i \in higher
    BY <1>6, <1>7, FiniteInduction
  <1> QED
    BY <1>1, <1>2, <1>8 DEF higher

\* The sum of two lists added place by place.
LEMMA SumAdds ==
    ASSUME NEW n \in Nat, NEW s \in [1..n -> Int], NEW t \in [1..n -> Int], NEW u \in [1..n -> Int],
           \A i \in 1..n : u[i] = s[i] + t[i]
    PROVE  Sum(u) = Sum(s) + Sum(t)
  <1>1. PICK f \in [0..n -> Int] :
          /\ f[0] = 0 /\ \A i \in 1..n : f[i] = f[i - 1] + s[i]
          /\ Sum(s) = f[n]
    BY SumSteps
  <1>2. PICK g \in [0..n -> Int] :
          /\ g[0] = 0 /\ \A i \in 1..n : g[i] = g[i - 1] + t[i]
          /\ Sum(t) = g[n]
    BY SumSteps
  <1>3. PICK h \in [0..n -> Int] :
          /\ h[0] = 0 /\ \A i \in 1..n : h[i] = h[i - 1] + u[i]
          /\ Sum(u) = h[n]
    BY SumSteps
  <1> DEFINE good == {i \in 0..n : h[i] = f[i] + g[i]}
  <1>4. 0 \in good
    BY <1>1, <1>2, <1>3
  <1>5. ASSUME NEW i \in 1..n, i - 1 \in good PROVE i \in good
    <2>1. i - 1 \in 0..n /\ h[i - 1] = f[i - 1] + g[i - 1]
      BY <1>5
    <2>2. h[i] = h[i - 1] + (s[i] + t[i]) /\ f[i] = f[i - 1] + s[i] /\ g[i] = g[i - 1] + t[i]
      BY <1>1, <1>2, <1>3
    <2>3. f[i - 1] \in Int /\ g[i - 1] \in Int /\ s[i] \in Int /\ t[i] \in Int
      BY <2>1
    <2>4. h[i] = f[i] + g[i]
      BY <2>1, <2>2, <2>3
    <2> QED
      BY <2>4
  <1> HIDE DEF good
  <1>6. \A i \in 0..n : i \in good
    BY <1>4, <1>5, FiniteInduction
  <1> QED
    BY <1>1, <1>2, <1>3, <1>6 DEF good

\* The sum of one list after another.
LEMMA SumOfConcat ==
    ASSUME NEW n \in Nat, NEW m \in Nat, NEW s \in [1..n -> Int], NEW t \in [1..m -> Int]
    PROVE  /\ Sum(s \o t) = Sum(s) + Sum(t)
           /\ s \o t \in [1..(n + m) -> Int]
  <1>0. /\ IsList(s) /\ IsList(t) /\ Len(s) = n /\ Len(t) = m
    BY FunctionsAreLists
  <1> DEFINE u == s \o t
  <1>1. /\ IsList(u) /\ Len(u) = n + m
        /\ \A i \in 1..n : u[i] = s[i]
        /\ \A i \in 1..m : u[n + i] = t[i]
    BY <1>0, ConcatIsList
  <1>2. \A i \in 1..(n + m) : u[i] \in Int
    <2>1. SUFFICES ASSUME NEW i \in 1..(n + m), i \notin 1..n PROVE u[i] \in Int
      BY <1>1
    <2>2. i - n \in 1..m /\ n + (i - n) = i
      BY <2>1
    <2> QED
      BY <1>1, <2>2
  <1>3. u \in [1..(n + m) -> Int]
    <2>1. u \in Seq(ToSet(u)) /\ Len(u) = n + m
      BY <1>1 DEF IsList
    <2>2. DOMAIN u = 1..(n + m) /\ u = [i \in 1..(n + m) |-> u[i]]
      <3> HIDE DEF u
      <3> QED
        BY <2>1
    <2> QED
      BY <1>2, <2>2
  <1> HIDE DEF u
  <1>4. n + m \in Nat
    OBVIOUS
  <1>5. PICK f \in [0..n -> Int] :
          /\ f[0] = 0 /\ \A i \in 1..n : f[i] = f[i - 1] + s[i]
          /\ Sum(s) = f[n]
    BY SumSteps
  <1>6. PICK g \in [0..m -> Int] :
          /\ g[0] = 0 /\ \A i \in 1..m : g[i] = g[i - 1] + t[i]
          /\ Sum(t) = g[m]
    BY SumSteps
  <1>7. PICK h \in [0..(n + m) -> Int] :
          /\ h[0] = 0 /\ \A i \in 1..(n + m) : h[i] = h[i - 1] + u[i]
          /\ Sum(u) = h[n + m]
    BY <1>3, <1>4, SumSteps
  <1> DEFINE first == {i \in 0..n : h[i] = f[i]}
             second == {i \in 0..m : h[n + i] = f[n] + g[i]}
  <1>8. \A i \in 0..n : i \in first
    <2>1. 0 \in first
      BY <1>5, <1>7
    <2>2. ASSUME NEW i \in 1..n, i - 1 \in first PROVE i \in first
      <3>1. i \in 1..(n + m) /\ h[i] = h[i - 1] + u[i] /\ f[i] = f[i - 1] + s[i] /\ h[i - 1] = f[i - 1]
        BY <1>5, <1>7, <2>2
      <3> QED
        BY <3>1, <1>1
    <2> HIDE DEF first, second
    <2> QED
      BY <2>1, <2>2, FiniteInduction
  <1>9. \A i \in 0..m : i \in second
    <2>1. 0 \in second
      BY <1>6, <1>8
    <2>2. ASSUME NEW i \in 1..m, i - 1 \in second PROVE i \in second
      <3>1. n + i \in 1..(n + m) /\ i - 1 \in 0..m /\ (n + i) - 1 = n + (i - 1)
        OBVIOUS
      <3>2. h[n + i] = h[n + (i - 1)] + u[n + i] /\ u[n + i] = t[i] /\ g[i] = g[i - 1] + t[i]
        BY <1>1, <1>6, <1>7, <3>1
      <3>3. h[n + (i - 1)] = f[n] + g[i - 1]
        BY <2>2
      <3>4. f[n] \in Int /\ g[i - 1] \in Int /\ t[i] \in Int
        BY <3>1
      <3>5. h[n + i] = f[n] + g[i]
        BY <3>2, <3>3, <3>4
      <3> QED
        BY <3>5
    <2> HIDE DEF first, second
    <2> QED
      BY <2>1, <2>2, FiniteInduction
  <1> QED
    BY <1>3, <1>5, <1>6, <1>7, <1>9 DEF u

\* What the elements of a list weigh, all of them and those of a set.
WeightsOf(s, w) == [i \in 1..Len(s) |-> w[s[i]]]
WeightsIn(s, S, w) == [i \in 1..Len(s) |-> IF s[i] \in S THEN w[s[i]] ELSE 0]

\* The elements a filter keeps weigh what the set does in the list.
LEMMA SumOfFilter ==
    ASSUME NEW s, IsList(s), NEW S, NEW w \in [ToSet(s) -> Int]
    PROVE  /\ WeightsOf(Filter(s, S), w) \in [1..Len(Filter(s, S)) -> Int]
           /\ Sum(WeightsOf(Filter(s, S), w)) = Sum(WeightsIn(s, S, w))
  <1> DEFINE n == Len(s)
             Of(l) == [i \in 1..Len(l) |-> w[l[i]]]
             u == [i \in 1..n |-> IF s[i] \in S THEN w[s[i]] ELSE 0]
  <1>1. n \in Nat /\ \A i \in 1..n : s[i] \in ToSet(s)
    BY ListProperties
  <1>2. PICK kept : /\ kept[0] = <<>>
                    /\ \A i \in 1..n : kept[i] = IF s[i] \in S THEN Append(kept[i - 1], s[i]) ELSE kept[i - 1]
                    /\ Filter(s, S) = kept[n]
    BY FilterSteps
  <1>3. u \in [1..n -> Int]
    BY <1>1
  <1>4. PICK h \in [0..n -> Int] :
          /\ h[0] = 0 /\ \A i \in 1..n : h[i] = h[i - 1] + u[i]
          /\ Sum(u) = h[n]
    <2> HIDE DEF u, n
    <2> QED
      BY <1>1, <1>3, SumSteps
  <1> DEFINE good == {i \in 0..n : /\ IsList(kept[i]) /\ ToSet(kept[i]) \subseteq ToSet(s)
                                   /\ Of(kept[i]) \in [1..Len(kept[i]) -> Int]
                                   /\ Sum(Of(kept[i])) = h[i]}
  <1>5. 0 \in good
    <2>1. IsList(<<>>) /\ ToSet(<<>>) = {} /\ Len(<<>>) = 0
      BY NothingIsAList
    <2>2. Of(<<>>) \in [1..0 -> Int]
      BY <2>1
    <2> HIDE DEF Of
    <2>3. Sum(Of(<<>>)) = 0
      BY <2>2, SumSteps
    <2> QED
      BY <1>1, <1>2, <1>4, <2>1, <2>2, <2>3
  <1>6. ASSUME NEW i \in 1..n, i - 1 \in good PROVE i \in good
    <2>1. /\ IsList(kept[i - 1]) /\ ToSet(kept[i - 1]) \subseteq ToSet(s) /\ Sum(Of(kept[i - 1])) = h[i - 1]
          /\ Of(kept[i - 1]) \in [1..Len(kept[i - 1]) -> Int]
      BY <1>6
    <2>2. h[i] = h[i - 1] + u[i] /\ i \in 0..n
      BY <1>4
    <2>3. CASE s[i] \in S
      <3> DEFINE k == kept[i - 1]
                 l == Append(k, s[i])
                 one == [j \in 1..1 |-> w[s[i]]]
      <3>1. kept[i] = l
        BY <1>2, <2>3
      <3>2. /\ IsList(l) /\ ToSet(l) = ToSet(k) \cup {s[i]} /\ Len(l) = Len(k) + 1
            /\ \A j \in 1..Len(k) : l[j] = k[j]
            /\ l[Len(k) + 1] = s[i]
            /\ Len(k) \in Nat
        BY <2>1, AppendIsList, ListProperties
      <3>3. w[s[i]] \in Int
        BY <1>1
      <3>4. one \in [1..1 -> Int] /\ Sum(one) = w[s[i]]
        <4>1. one \in [1..1 -> Int] /\ 1 \in Nat
          BY <3>3
        <4>2. PICK f \in [0..1 -> Int] :
                 /\ f[0] = 0 /\ \A j \in 1..1 : f[j] = f[j - 1] + one[j]
                 /\ Sum(one) = f[1]
          <5> HIDE DEF one
          <5> QED
            BY <4>1, SumSteps
        <4> QED
          BY <3>3, <4>1, <4>2
      <3>5. Of(l) = Of(k) \o one
        <4>1. Of(k) \in [1..Len(k) -> Int] /\ Len(k) \in Nat
          BY <2>1, <3>2
        <4>2. Of(l) \in [1..(Len(k) + 1) -> Int]
          <5>1. ASSUME NEW j \in 1..Len(l) PROVE w[l[j]] \in Int
            <6>1. l[j] \in ToSet(l) /\ ToSet(l) \subseteq ToSet(s)
              BY <2>1, <3>2, <1>1, ListProperties
            <6> QED
              BY <6>1
          <5> QED
            BY <5>1, <3>2
        <4>7. PICK a, b : a = Of(k) /\ b = Of(l)
          OBVIOUS
        <4>3. /\ IsList(a) /\ IsList(one) /\ IsList(b) /\ Len(a) = Len(k) /\ Len(one) = 1 /\ Len(b) = Len(k) + 1
          <5>1. Len(k) + 1 \in Nat /\ 1 \in Nat
            BY <4>1
          <5> HIDE DEF Of, one, k, l
          <5>2. IsList(Of(k)) /\ Len(Of(k)) = Len(k)
            BY <4>1, FunctionsAreLists
          <5>3. IsList(Of(l)) /\ Len(Of(l)) = Len(k) + 1
            BY <4>2, <5>1, FunctionsAreLists
          <5>4. IsList(one) /\ Len(one) = 1
            BY <3>4, <5>1, FunctionsAreLists
          <5> QED
            BY <4>7, <5>2, <5>3, <5>4
        <4>4. /\ IsList(a \o one) /\ Len(a \o one) = Len(k) + 1
              /\ \A j \in 1..Len(k) : (a \o one)[j] = a[j]
              /\ (a \o one)[Len(k) + 1] = one[1]
          <5> HIDE DEF one, k
          <5>1. 1 \in 1..Len(one) /\ IsList(a) /\ IsList(one)
            BY <4>3
          <5>2. /\ IsList(a \o one) /\ Len(a \o one) = Len(a) + Len(one)
                /\ \A j \in 1..Len(a) : (a \o one)[j] = a[j]
                /\ \A j \in 1..Len(one) : (a \o one)[Len(a) + j] = one[j]
            BY <5>1, ConcatIsList
          <5> QED
            BY <4>3, <5>1, <5>2
        <4>5. \A j \in 1..(Len(k) + 1) : b[j] = (a \o one)[j]
          <5>1. \A j \in 1..Len(k) : b[j] = w[k[j]] /\ a[j] = w[k[j]]
            BY <3>2, <4>7
          <5>2. b[Len(k) + 1] = w[s[i]] /\ one[1] = w[s[i]]
            BY <3>2, <4>7
          <5>3. \A j \in 1..(Len(k) + 1) : j \in 1..Len(k) \/ j = Len(k) + 1
            BY <3>2
          <5> HIDE DEF one, k
          <5> QED
            BY <4>4, <5>1, <5>2, <5>3
        <4> HIDE DEF one, k, l
        <4>6. a \o one = b
          BY <4>3, <4>4, <4>5, ListsEqual
        <4> QED
          BY <4>6, <4>7
      <3>6. Sum(Of(l)) = Sum(Of(k)) + w[s[i]] /\ Of(l) \in [1..Len(l) -> Int]
        <4>1. PICK a : a = Of(k)
          OBVIOUS
        <4>2. a \in [1..Len(k) -> Int] /\ Len(k) \in Nat
          BY <4>1, <2>1, <3>2
        <4> HIDE DEF one, Of, k, l
        <4>3. Sum(a \o one) = Sum(a) + Sum(one) /\ a \o one \in [1..(Len(k) + 1) -> Int]
          BY <4>2, <3>4, SumOfConcat
        <4> QED
          BY <4>1, <4>3, <3>2, <3>4, <3>5
      <3>7. u[i] = w[s[i]] /\ ToSet(l) \subseteq ToSet(s)
        BY <2>1, <2>3, <3>2, <1>1
      <3> HIDE DEF Of, l, k, u, one
      <3> QED
        BY <3>1, <3>2, <3>6, <3>7, <2>1, <2>2 DEF k
    <2>4. CASE s[i] \notin S
      <3>1. kept[i] = kept[i - 1] /\ u[i] = 0
        BY <1>2, <2>4
      <3>2. h[i] = h[i - 1]
        BY <2>2, <3>1
      <3> HIDE DEF Of, u
      <3> QED
        BY <2>1, <2>2, <3>1, <3>2
    <2> QED
      BY <2>3, <2>4
  <1> HIDE DEF good
  <1>7. \A i \in 0..n : i \in good
    <2> HIDE DEF n
    <2> QED
      BY <1>1, <1>5, <1>6, FiniteInduction
  <1>8. n \in good
    BY <1>1, <1>7
  <1>9. Of(kept[n]) = WeightsOf(Filter(s, S), w) /\ u = WeightsIn(s, S, w)
    BY <1>2 DEF WeightsOf, WeightsIn
  <1> HIDE DEF Of, u, n
  <1> QED
    BY <1>2, <1>4, <1>8, <1>9 DEF good

\* The numbers of a list that are at a place, and their sum place by place,
\* when each is at one of the places.
HavePlaces(n, m, at, ts) ==
  /\ \A j, k \in 1..m : ts[j] = ts[k] => j = k
  /\ \A i \in 1..n : \E j \in 1..m : at[i] = ts[j]
PartAt(place, n, cr, at) == [i \in 1..n |-> IF at[i] = place THEN cr[i] ELSE 0]

LEMMA SumByPlace ==
    ASSUME NEW n \in Nat, NEW m \in Nat, NEW cr \in [1..n -> Int], NEW at, NEW ts,
           HavePlaces(n, m, at, ts),
           NEW part \in [1..m -> Int], \A j \in 1..m : part[j] = Sum(PartAt(ts[j], n, cr, at))
    PROVE  Sum(part) = Sum(cr)
  <1> DEFINE Upto(k) == [i \in 1..n |-> IF \E j \in 1..k : at[i] = ts[j] THEN cr[i] ELSE 0]
             Only(k) == [i \in 1..n |-> IF at[i] = ts[k] THEN cr[i] ELSE 0]
  <1>1. \A k \in 1..m : Only(k) \in [1..n -> Int] /\ part[k] = Sum(Only(k))
    BY DEF PartAt
  <1>2. /\ \A j, k \in 1..m : ts[j] = ts[k] => j = k
        /\ \A i \in 1..n : \E j \in 1..m : at[i] = ts[j]
    BY DEF HavePlaces
  <1>3. PICK h \in [0..m -> Int] :
          /\ h[0] = 0 /\ \A i \in 1..m : h[i] = h[i - 1] + part[i]
          /\ Sum(part) = h[m]
    BY SumSteps
  <1> DEFINE good == {k \in 0..m : h[k] = Sum(Upto(k))}
  <1>4. 0 \in good
    <2>1. Upto(0) \in [1..n -> Int] /\ \A i \in 1..n : Upto(0)[i] = Upto(0)[i] + Upto(0)[i]
      OBVIOUS
    <2>2. Sum(Upto(0)) = Sum(Upto(0)) + Sum(Upto(0)) /\ Sum(Upto(0)) \in Int
      <3> HIDE DEF Upto
      <3> QED
        BY <2>1, SumAdds, SumIsInt
    <2>3. Sum(Upto(0)) = 0
      <3> HIDE DEF Upto
      <3> QED
        BY <2>2
    <2> HIDE DEF Upto
    <2> QED
      BY <1>3, <2>3
  <1>5. ASSUME NEW k \in 1..m, k - 1 \in good PROVE k \in good
    <2>1. h[k] = h[k - 1] + Sum(Only(k)) /\ h[k - 1] = Sum(Upto(k - 1))
      <3> HIDE DEF Upto, Only
      <3> QED
        BY <1>1, <1>3, <1>5
    <2>2. \A i \in 1..n : Upto(k)[i] = Upto(k - 1)[i] + Only(k)[i]
      <3>1. SUFFICES ASSUME NEW i \in 1..n PROVE Upto(k)[i] = Upto(k - 1)[i] + Only(k)[i]
        OBVIOUS
      <3>2. \A j \in 1..k : j \in 1..(k - 1) \/ j = k
        OBVIOUS
      <3>3. \A j \in 1..(k - 1) : j \in 1..m /\ j # k /\ j \in 1..k
        OBVIOUS
      <3>4. cr[i] \in Int /\ k \in 1..k
        OBVIOUS
      <3>5. CASE at[i] = ts[k]
        <4>1. ~\E j \in 1..(k - 1) : at[i] = ts[j]
          BY <1>2, <3>3, <3>5
        <4> QED
          BY <3>4, <3>5, <4>1
      <3>6. CASE at[i] # ts[k]
        <4>1. (\E j \in 1..(k - 1) : at[i] = ts[j]) <=> (\E j \in 1..k : at[i] = ts[j])
          BY <3>2, <3>3, <3>6
        <4> QED
          BY <3>4, <3>6, <4>1
      <3> QED
        BY <3>5, <3>6
    <2>3. Upto(k) \in [1..n -> Int] /\ Upto(k - 1) \in [1..n -> Int] /\ Only(k) \in [1..n -> Int]
      OBVIOUS
    <2>4. Sum(Upto(k)) = Sum(Upto(k - 1)) + Sum(Only(k))
      <3> HIDE DEF Upto, Only
      <3> QED
        BY <2>2, <2>3, SumAdds
    <2> HIDE DEF Upto, Only
    <2> QED
      BY <2>1, <2>4
  <1>6. Upto(m) = cr
    <2>1. \A i \in 1..n : Upto(m)[i] = cr[i]
      BY <1>2
    <2>2. cr = [i \in 1..n |-> cr[i]]
      OBVIOUS
    <2> QED
      BY <2>1, <2>2
  <1> HIDE DEF good, Upto, Only
  <1>7. \A k \in 0..m : k \in good
    BY <1>4, <1>5, FiniteInduction
  <1> QED
    BY <1>3, <1>6, <1>7 DEF good

=============================================================================
