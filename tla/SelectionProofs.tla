-------------------------- MODULE SelectionProofs --------------------------
(***************************************************************************)
(* What Select returns, for every sequence and every set: the elements of  *)
(* the one that are in the other (SelectRange), nothing else than before   *)
(* if the sets agree on the sequence (SelectSame), the sequence itself if  *)
(* all of it is selected (SelectAll), and never fewer of a larger set or a *)
(* longer sequence (SelectMore, SelectLonger).                             *)
(*                                                                         *)
(* Select is a recursive function.  An induction theorem takes the         *)
(* predicate it proves as an operator; here the induction is over the set  *)
(* of the numbers that satisfy it (InductionInSet), which the well-founded *)
(* order of the natural numbers gives.                                     *)
(***************************************************************************)
EXTENDS Selection, SequencesExt, TLAPS, SequenceTheorems, WellFoundedInduction

\* Induction, for a set of numbers in the place of a predicate.
LEMMA InductionInSet ==
    ASSUME NEW T, 0 \in T, \A n \in Nat : n \in T => n + 1 \in T
    PROVE  Nat \subseteq T
<1> SUFFICES ASSUME Nat \ T # {}
             PROVE  FALSE
    OBVIOUS
<1> DEFINE R == OpToRel(<, Nat)
<1>1. IsWellFoundedOn(R, Nat)
    BY NatLessThanWellFounded
<1>2. PICK x \in Nat \ T : \A y \in Nat \ T : ~(<<y, x>> \in R)
  <2> HIDE DEF R
  <2> QED
      BY <1>1, WFMin
<1>3. \A y \in Nat \ T : ~(y < x)
    BY <1>2 DEF OpToRel
<1>4. x # 0 /\ x - 1 \in Nat
    OBVIOUS
<1>5. x - 1 \in T
    BY <1>3, <1>4
<1>6. x \in T
    BY <1>4, <1>5
<1> QED
    BY <1>6

-----------------------------------------------------------------------------
(***************************************************************************)
(* What the recursion yields                                               *)
(***************************************************************************)
SelectStep(f, s, keep, i) ==
    IF i = 0 THEN <<>>
    ELSE IF s[i] \in keep THEN Append(f[i - 1], s[i])
    ELSE f[i - 1]

Chain(f, s, keep, n) == f = [i \in 0..n |-> SelectStep(f, s, keep, i)]

\* The recursion has a solution up to every length.
LEMMA ChainExists ==
    ASSUME NEW s, NEW keep
    PROVE  \A n \in Nat : \E f : Chain(f, s, keep, n)
<1> DEFINE T == {n \in Nat : \E f : Chain(f, s, keep, n)}
<1>1. 0 \in T
  <2>1. Chain([i \in 0..0 |-> <<>>], s, keep, 0)
      BY DEF Chain, SelectStep
  <2> QED
      BY <2>1
<1>2. ASSUME NEW n \in Nat, n \in T
      PROVE  n + 1 \in T
  <2>1. PICK f : Chain(f, s, keep, n)
      BY <1>2
  <2> DEFINE g == [i \in 0..n + 1 |-> IF i = n + 1 THEN SelectStep(f, s, keep, i) ELSE f[i]]
  <2>2. \A i \in 0..n : g[i] = f[i]
      OBVIOUS
  <2>3. ASSUME NEW i \in 0..n + 1
        PROVE  g[i] = SelectStep(g, s, keep, i)
    <3>1. CASE i = 0
        BY <3>1, <2>1, <2>2 DEF Chain, SelectStep
    <3>2. CASE i \in 1..n
      <4>1. g[i] = f[i] /\ g[i - 1] = f[i - 1]
          BY <3>2, <2>2
      <4>2. f[i] = SelectStep(f, s, keep, i)
          BY <3>2, <2>1 DEF Chain
      <4> HIDE DEF g
      <4> QED
          BY <3>2, <4>1, <4>2 DEF SelectStep
    <3>3. CASE i = n + 1
      <4>1. g[i] = SelectStep(f, s, keep, i) /\ g[i - 1] = f[i - 1] /\ i # 0
          BY <3>3, <2>2
      <4> HIDE DEF g
      <4> QED
          BY <4>1 DEF SelectStep
    <3> QED
        BY <3>1, <3>2, <3>3
  <2>4. Chain(g, s, keep, n + 1)
    <3>1. g = [i \in 0..n + 1 |-> g[i]]
        OBVIOUS
    <3> HIDE DEF g
    <3> QED
        BY <2>3, <3>1 DEF Chain
  <2> QED
      BY <2>4
<1>3. Nat \subseteq T
  <2> HIDE DEF T
  <2> QED
      BY <1>1, <1>2, InductionInSet
<1> QED
    BY <1>3

\* Two chains agree as far as both go.
LEMMA ChainUnique ==
    ASSUME NEW s, NEW keep, NEW f, NEW g, NEW m \in Nat, NEW n \in Nat, m <= n,
           Chain(f, s, keep, m), Chain(g, s, keep, n)
    PROVE  \A i \in 0..m : f[i] = g[i]
<1> DEFINE T == {i \in Nat : i <= m => f[i] = g[i]}
<1>1. 0 \in T
    BY DEF Chain, SelectStep
<1>2. ASSUME NEW i \in Nat, i \in T
      PROVE  i + 1 \in T
  <2> SUFFICES ASSUME i + 1 <= m
               PROVE  f[i + 1] = g[i + 1]
      OBVIOUS
  <2>1. f[i] = g[i]
      BY <1>2
  <2>2. f[i + 1] = SelectStep(f, s, keep, i + 1) /\ g[i + 1] = SelectStep(g, s, keep, i + 1)
    <3>1. i + 1 \in 0..m /\ i + 1 \in 0..n
        OBVIOUS
    <3> QED
        BY <3>1 DEF Chain
  <2>3. i + 1 # 0 /\ (i + 1) - 1 = i
      OBVIOUS
  <2> QED
      BY <2>1, <2>2, <2>3 DEF SelectStep
<1>3. Nat \subseteq T
  <2> HIDE DEF T
  <2> QED
      BY <1>1, <1>2, InductionInSet
<1> QED
    BY <1>3

\* Select is the last step of such a solution.
LEMMA SelectIsChain ==
    ASSUME NEW s, NEW keep, Len(s) \in Nat, NEW f, Chain(f, s, keep, Len(s))
    PROVE  Select(s, keep) = f[Len(s)]
<1> DEFINE g == CHOOSE u : u = [i \in 0..Len(s) |->
                    IF i = 0 THEN <<>>
                    ELSE IF s[i] \in keep THEN Append(u[i - 1], s[i])
                    ELSE u[i - 1]]
<1>1. Select(s, keep) = g[Len(s)]
    BY DEF Select
<1>2. \E u : u = [i \in 0..Len(s) |->
                    IF i = 0 THEN <<>>
                    ELSE IF s[i] \in keep THEN Append(u[i - 1], s[i])
                    ELSE u[i - 1]]
    BY DEF Chain, SelectStep
<1>3. g = [i \in 0..Len(s) |->
                    IF i = 0 THEN <<>>
                    ELSE IF s[i] \in keep THEN Append(g[i - 1], s[i])
                    ELSE g[i - 1]]
    BY <1>2, Zenon
<1> HIDE DEF g
<1>4. Chain(g, s, keep, Len(s))
    BY <1>3 DEF Chain, SelectStep
<1> QED
    BY <1>1, <1>4, ChainUnique

\* Nothing is selected from nothing.
LEMMA SelectEmpty == \A keep : Select(<<>>, keep) = <<>>
<1> TAKE keep
<1>1. Len(<<>>) = 0
    OBVIOUS
<1>2. PICK f : Chain(f, <<>>, keep, 0)
    BY ChainExists
<1>3. Select(<<>>, keep) = f[0]
    BY <1>1, <1>2, SelectIsChain
<1> QED
    BY <1>2, <1>3 DEF Chain, SelectStep

\* A row is selected or not, whatever comes before it.
LEMMA SelectAppend ==
    ASSUME NEW S, NEW s \in Seq(S), NEW e \in S, NEW keep
    PROVE  Select(Append(s, e), keep) =
               IF e \in keep THEN Append(Select(s, keep), e) ELSE Select(s, keep)
<1> DEFINE t == Append(s, e)
           n == Len(s)
<1>1. /\ n \in Nat
      /\ Len(t) = n + 1
      /\ t[n + 1] = e
      /\ \A i \in 1..n : t[i] = s[i]
    OBVIOUS
<1>2. PICK f : Chain(f, t, keep, n + 1)
    BY <1>1, ChainExists
<1>3. PICK h : Chain(h, s, keep, n)
    BY <1>1, ChainExists
<1>4. Select(s, keep) = h[n]
    BY <1>1, <1>3, SelectIsChain
<1> HIDE DEF t
<1>10. Select(t, keep) = f[n + 1]
  <2>1. Len(t) \in Nat /\ Chain(f, t, keep, Len(t))
      BY <1>1, <1>2
  <2>2. Select(t, keep) = f[Len(t)]
      BY <2>1, SelectIsChain
  <2> QED
      BY <1>1, <2>2
<1> HIDE DEF n
<1>5. Chain(h, t, keep, n)
  <2>1. \A i \in 0..n : SelectStep(h, s, keep, i) = SelectStep(h, t, keep, i)
      BY <1>1 DEF SelectStep
  <2> QED
      BY <1>3, <2>1 DEF Chain
<1>6. f[n] = h[n]
    BY <1>1, <1>2, <1>5, ChainUnique
<1>7. f[n + 1] = SelectStep(f, t, keep, n + 1)
    BY <1>1, <1>2 DEF Chain
<1>8. n + 1 # 0 /\ (n + 1) - 1 = n
    BY <1>1
<1>9. Select(t, keep) = IF e \in keep THEN Append(Select(s, keep), e) ELSE Select(s, keep)
    BY <1>1, <1>4, <1>10, <1>6, <1>7, <1>8 DEF SelectStep
<1> QED
    BY <1>9 DEF t

-----------------------------------------------------------------------------
(***************************************************************************)
(* Induction over sequences, and what it gives                             *)
(***************************************************************************)
LEMMA SequencesInSet ==
    ASSUME NEW S, NEW T, <<>> \in T,
           \A s \in Seq(S), e \in S : s \in T => Append(s, e) \in T
    PROVE  Seq(S) \subseteq T
<1> DEFINE N == {n \in Nat : \A s \in Seq(S) : Len(s) = n => s \in T}
<1>1. 0 \in N
    BY EmptySeq
<1>2. ASSUME NEW n \in Nat, n \in N
      PROVE  n + 1 \in N
  <2> SUFFICES ASSUME NEW s \in Seq(S), Len(s) = n + 1
               PROVE  s \in T
      OBVIOUS
  <2>1. s # <<>>
      OBVIOUS
  <2>2. PICK t \in Seq(S), e \in S : s = Append(t, e)
      BY <2>1, SequenceEmptyOrAppend
  <2>3. Len(t) = n
      BY <2>2
  <2> QED
      BY <1>2, <2>2, <2>3
<1>3. Nat \subseteq N
  <2> HIDE DEF N
  <2> QED
      BY <1>1, <1>2, InductionInSet
<1> QED
    BY <1>3

\* What is selected is of the same kind.
LEMMA SelectType ==
    ASSUME NEW S, NEW keep
    PROVE  \A s \in Seq(S) : Select(s, keep) \in Seq(S)
<1> DEFINE T == {s \in Seq(S) : Select(s, keep) \in Seq(S)}
<1>1. <<>> \in T
    BY SelectEmpty, EmptySeq
<1>2. ASSUME NEW s \in Seq(S), NEW e \in S, s \in T
      PROVE  Append(s, e) \in T
  <2>1. Select(Append(s, e), keep) \in {Append(Select(s, keep), e), Select(s, keep)}
      BY SelectAppend
  <2>2. Select(s, keep) \in Seq(S)
      BY <1>2
  <2>3. Append(Select(s, keep), e) \in Seq(S) /\ Append(s, e) \in Seq(S)
      BY <2>2, AppendProperties
  <2> QED
      BY <2>1, <2>2, <2>3
<1>3. Seq(S) \subseteq T
  <2> HIDE DEF T
  <2> QED
      BY <1>1, <1>2, SequencesInSet
<1> QED
    BY <1>3

\* The elements of a sequence and one more.
LEMMA AppendRange ==
    ASSUME NEW S, NEW s \in Seq(S), NEW e \in S
    PROVE  ToSet(Append(s, e)) = ToSet(s) \cup {e}
<1> DEFINE t == Append(s, e)
<1>1. /\ DOMAIN s = 1..Len(s) /\ Len(s) \in Nat
      /\ DOMAIN t = 1..Len(s) + 1
      /\ t[Len(s) + 1] = e
      /\ \A i \in 1..Len(s) : t[i] = s[i]
    BY AppendProperties, LenProperties
<1> HIDE DEF t
<1>2. ToSet(t) \subseteq ToSet(s) \cup {e}
    BY <1>1 DEF ToSet
<1>3. ToSet(s) \subseteq ToSet(t)
    BY <1>1 DEF ToSet
<1>4. e \in ToSet(t)
  <2>1. Len(s) + 1 \in DOMAIN t
      BY <1>1
  <2> QED
      BY <1>1, <2>1 DEF ToSet
<1>5. ToSet(t) = ToSet(s) \cup {e}
    BY <1>2, <1>3, <1>4
<1> QED
    BY <1>5 DEF t

\* The rows selected are those of the sequence that are in the set.
LEMMA SelectRange ==
    ASSUME NEW S, NEW keep
    PROVE  \A s \in Seq(S) : ToSet(Select(s, keep)) = ToSet(s) \cap keep
<1> DEFINE T == {s \in Seq(S) : ToSet(Select(s, keep)) = ToSet(s) \cap keep}
<1>1. <<>> \in T
    BY SelectEmpty DEF ToSet
<1>2. ASSUME NEW s \in Seq(S), NEW e \in S, s \in T
      PROVE  Append(s, e) \in T
  <2>1. ToSet(Append(s, e)) = ToSet(s) \cup {e}
      BY AppendRange
  <2>2. CASE e \in keep
    <3>1. ToSet(Select(Append(s, e), keep)) = ToSet(Select(s, keep)) \cup {e}
      <4>1. Select(Append(s, e), keep) = Append(Select(s, keep), e)
          BY <2>2, SelectAppend
      <4>2. Select(s, keep) \in Seq(S)
          BY SelectType
      <4> QED
          BY <4>1, <4>2, AppendRange
    <3> QED
        BY <1>2, <2>1, <2>2, <3>1
  <2>3. CASE e \notin keep
    <3>1. Select(Append(s, e), keep) = Select(s, keep)
        BY <2>3, SelectAppend
    <3> QED
        BY <1>2, <2>1, <2>3, <3>1
  <2> QED
      BY <2>2, <2>3
<1>3. Seq(S) \subseteq T
  <2> HIDE DEF T
  <2> QED
      BY <1>1, <1>2, SequencesInSet
<1> QED
    BY <1>3

\* Only what the set says of the rows there are counts.
LEMMA SelectSame ==
    ASSUME NEW S, NEW keep, NEW other
    PROVE  \A s \in Seq(S) : (\A e \in ToSet(s) : e \in keep <=> e \in other)
               => Select(s, keep) = Select(s, other)
<1> DEFINE T == {s \in Seq(S) : (\A e \in ToSet(s) : e \in keep <=> e \in other)
                    => Select(s, keep) = Select(s, other)}
<1>1. <<>> \in T
    BY SelectEmpty
<1>2. ASSUME NEW s \in Seq(S), NEW e \in S, s \in T
      PROVE  Append(s, e) \in T
  <2> SUFFICES ASSUME \A x \in ToSet(Append(s, e)) : x \in keep <=> x \in other
               PROVE  Select(Append(s, e), keep) = Select(Append(s, e), other)
      BY AppendProperties
  <2>1. ToSet(Append(s, e)) = ToSet(s) \cup {e}
      BY AppendRange
  <2>2. Select(s, keep) = Select(s, other)
      BY <1>2, <2>1
  <2>3. e \in keep <=> e \in other
      BY <2>1
  <2>4. Select(Append(s, e), keep) =
            IF e \in keep THEN Append(Select(s, keep), e) ELSE Select(s, keep)
      BY SelectAppend
  <2>5. Select(Append(s, e), other) =
            IF e \in other THEN Append(Select(s, other), e) ELSE Select(s, other)
      BY SelectAppend
  <2> QED
      BY <2>2, <2>3, <2>4, <2>5
<1>3. Seq(S) \subseteq T
  <2> HIDE DEF T
  <2> QED
      BY <1>1, <1>2, SequencesInSet
<1> QED
    BY <1>3

\* A query that all rows answer leaves nothing out.
LEMMA SelectAll ==
    ASSUME NEW S, NEW keep
    PROVE  \A s \in Seq(S) : ToSet(s) \subseteq keep => Select(s, keep) = s
<1> DEFINE T == {s \in Seq(S) : ToSet(s) \subseteq keep => Select(s, keep) = s}
<1>1. <<>> \in T
    BY SelectEmpty, EmptySeq
<1>2. ASSUME NEW s \in Seq(S), NEW e \in S, s \in T
      PROVE  Append(s, e) \in T
  <2>1. ToSet(Append(s, e)) = ToSet(s) \cup {e}
      BY AppendRange
  <2>2. Select(Append(s, e), keep) =
            IF e \in keep THEN Append(Select(s, keep), e) ELSE Select(s, keep)
      BY SelectAppend
  <2>3. Append(s, e) \in Seq(S)
      BY AppendProperties
  <2> QED
      BY <1>2, <2>1, <2>2, <2>3
<1>3. Seq(S) \subseteq T
  <2> HIDE DEF T
  <2> QED
      BY <1>1, <1>2, SequencesInSet
<1> QED
    BY <1>3
\* More of the rows are selected by a set that has more.
LEMMA SelectMore ==
    ASSUME NEW S, NEW keep, NEW other, keep \subseteq other
    PROVE  \A s \in Seq(S) : Len(Select(s, keep)) <= Len(Select(s, other))
<1> DEFINE T == {s \in Seq(S) : Len(Select(s, keep)) <= Len(Select(s, other))}
<1>1. <<>> \in T
    BY SelectEmpty, EmptySeq
<1>2. ASSUME NEW s \in Seq(S), NEW e \in S, s \in T
      PROVE  Append(s, e) \in T
  <2>1. /\ Select(Append(s, e), keep) =
              IF e \in keep THEN Append(Select(s, keep), e) ELSE Select(s, keep)
        /\ Select(Append(s, e), other) =
              IF e \in other THEN Append(Select(s, other), e) ELSE Select(s, other)
      BY SelectAppend
  <2> DEFINE a == Select(s, keep)
             b == Select(s, other)
  <2>2. a \in Seq(S) /\ b \in Seq(S) /\ Len(a) <= Len(b)
      BY <1>2, SelectType
  <2>3. Append(s, e) \in Seq(S)
      BY AppendProperties
  <2> HIDE DEF a, b
  <2>4. /\ Len(a) \in Nat /\ Len(b) \in Nat
        /\ Len(Append(a, e)) = Len(a) + 1 /\ Len(Append(b, e)) = Len(b) + 1
      BY <2>2, AppendProperties, LenProperties
  <2>5. Len(Select(Append(s, e), keep)) <= Len(Select(Append(s, e), other))
      BY <2>1, <2>2, <2>4 DEF a, b
  <2> QED
      BY <2>3, <2>5
<1>3. Seq(S) \subseteq T
  <2> HIDE DEF T
  <2> QED
      BY <1>1, <1>2, SequencesInSet
<1> QED
    BY <1>3

\* Nor are there fewer when rows are added at the end.
LEMMA SelectLonger ==
    ASSUME NEW S, NEW keep, NEW s \in Seq(S)
    PROVE  \A rows \in Seq(S) : Len(Select(s, keep)) <= Len(Select(s \o rows, keep))
<1> DEFINE T == {rows \in Seq(S) : Len(Select(s, keep)) <= Len(Select(s \o rows, keep))}
<1>1. <<>> \in T
  <2>1. s \o <<>> = s /\ <<>> \in Seq(S)
      BY EmptySeq
  <2>2. Len(Select(s, keep)) \in Nat
      BY SelectType, LenProperties
  <2> QED
      BY <2>1, <2>2
<1>2. ASSUME NEW rows \in Seq(S), NEW e \in S, rows \in T
      PROVE  Append(rows, e) \in T
  <2>1. s \o Append(rows, e) = Append(s \o rows, e) /\ s \o rows \in Seq(S)
      BY ConcatProperties
  <2> DEFINE a == Select(s, keep)
             b == Select(s \o rows, keep)
             c == Select(Append(s \o rows, e), keep)
  <2>2. a \in Seq(S) /\ b \in Seq(S) /\ Len(a) <= Len(b)
      BY <1>2, <2>1, SelectType
  <2>3. c = IF e \in keep THEN Append(b, e) ELSE b
      BY <2>1, SelectAppend
  <2> HIDE DEF a, b, c
  <2>4. Len(a) \in Nat /\ Len(b) \in Nat /\ Len(Append(b, e)) = Len(b) + 1
      BY <2>2, AppendProperties, LenProperties
  <2>5. Len(a) <= Len(c)
      BY <2>2, <2>3, <2>4
  <2>6. Append(rows, e) \in Seq(S)
      BY AppendProperties
  <2> QED
      BY <2>1, <2>5, <2>6 DEF a, c
<1>3. Seq(S) \subseteq T
  <2> HIDE DEF T
  <2> QED
      BY <1>1, <1>2, SequencesInSet
<1> QED
    BY <1>3
=============================================================================
