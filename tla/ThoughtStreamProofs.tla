------------------------ MODULE ThoughtStreamProofs ------------------------
(***************************************************************************)
(* Proofs about ThoughtStream for every set of thoughts and every number   *)
(* of them: its types, that where the text is cut into reads makes no      *)
(* difference to the page (ReaderIsFaithful), and that an answer is shown  *)
(* only of a committed exchange (ImplementsExchange).                      *)
(*                                                                         *)
(* The argument counts symbols.  What has been read and what is on the     *)
(* wire are the beginning of one text, the events sent at five symbols     *)
(* each, so that the buffer is the part of an event that has arrived       *)
(* (Carries), and cutting it at its blank lines gives exactly the events   *)
(* that have arrived whole (CutEvents).                                    *)
(***************************************************************************)
EXTENDS ThoughtStream, SelectionProofs

-----------------------------------------------------------------------------
(***************************************************************************)
(* The text of a sequence of events                                        *)
(***************************************************************************)

\* The text is the beginning of what the events are sent as.
Begins(text, s) ==
    \A j \in Nat, r \in 1..5 :
        5 * j + r \in 1..Len(text) =>
            j + 1 \in 1..Len(s) /\ text[5 * j + r] = FormatSse(s[j + 1])[r]

\* Every place in a text is one of the five of an event.
LEMMA Fives ==
    ASSUME NEW n \in Nat
    PROVE  \E j \in Nat, m \in 0..4 : n = 5 * j + m
<1>1. n = 5 * (n \div 5) + (n % 5) /\ n \div 5 \in Nat /\ n % 5 \in 0..4
    OBVIOUS
<1> QED
    BY <1>1

LEMMA Places ==
    ASSUME NEW n \in Nat, n # 0
    PROVE  \E j \in Nat, r \in 1..5 : n = 5 * j + r
<1> DEFINE p == n - 1
<1>3. p \in Nat
    OBVIOUS
<1> HIDE DEF p
<1>4. PICK j \in Nat, m \in 0..4 : p = 5 * j + m
    BY <1>3, Fives
<1>1. n - 1 = 5 * j + m
    BY <1>4 DEF p
<1>2. m + 1 \in 1..5 /\ n = 5 * j + (m + 1)
    BY <1>1
<1> QED
    BY <1>2

\* The kinds of the five symbols, and the payload.
Kind == [r \in 1..5 |-> CASE r = 1 -> "mark" [] r = 2 -> "open" [] r = 3 -> "close"
                          [] r \in {4, 5} -> "nl"]

LEMMA Frame ==
    ASSUME NEW e
    PROVE  /\ \A r \in 1..5 : FormatSse(e)[r][1] = Kind[r]
           /\ FormatSse(e)[2][2] = e
<1>1. /\ FormatSse(e)[1][1] = "mark" /\ FormatSse(e)[2][1] = "open"
      /\ FormatSse(e)[3][1] = "close" /\ FormatSse(e)[4][1] = "nl"
      /\ FormatSse(e)[5][1] = "nl" /\ FormatSse(e)[2][2] = e
    BY DEF FormatSse
<1>2. /\ Kind[1] = "mark" /\ Kind[2] = "open" /\ Kind[3] = "close"
      /\ Kind[4] = "nl" /\ Kind[5] = "nl"
    BY DEF Kind
<1>3. 1..5 = {1, 2, 3, 4, 5}
    OBVIOUS
<1> QED
    BY <1>1, <1>2, <1>3, Zenon

LEMMA FiveOf ==
    ASSUME NEW S, NEW a \in S, NEW b \in S, NEW c \in S, NEW d \in S, NEW e \in S
    PROVE  <<a, b, c, d, e>> \in Seq(S)
    OBVIOUS

LEMMA FrameType ==
    ASSUME NEW e \in Event
    PROVE  FormatSse(e) \in Seq(Symbol)
<1>1. /\ <<"mark", "">> \in Symbol /\ <<"nl", "">> \in Symbol
      /\ <<"open", e>> \in Symbol /\ <<"close", e>> \in Symbol
    BY DEF Symbol
<1> QED
    BY <1>1, FiveOf, Zenon DEF FormatSse

\* The largest number of a set is the one that no other exceeds.
LEMMA MaxIs ==
    ASSUME NEW S \in SUBSET Int, NEW x \in S, \A y \in S : y <= x
    PROVE  Max(S) = x
<1>1. \E z \in S : \A y \in S : z >= y
    OBVIOUS
<1> DEFINE m == CHOOSE z \in S : \A y \in S : z >= y
<1>2. m \in S /\ \A y \in S : m >= y
    BY <1>1
<1>3. Max(S) = m
    BY DEF Max
<1> HIDE DEF m
<1>4. m = x
    BY <1>2
<1> QED
    BY <1>3, <1>4

LEMMA MinIs ==
    ASSUME NEW S \in SUBSET Int, NEW x \in S, \A y \in S : x <= y
    PROVE  Min(S) = x
<1>1. \E z \in S : \A y \in S : z =< y
    OBVIOUS
<1> DEFINE m == CHOOSE z \in S : \A y \in S : z =< y
<1>2. m \in S /\ \A y \in S : m =< y
    BY <1>1
<1>3. Min(S) = m
    BY DEF Min
<1> HIDE DEF m
<1>4. m = x
    BY <1>2
<1> QED
    BY <1>3, <1>4

\* What a symbol of the text says depends on its place in the event.
LEMMA KindAt ==
    ASSUME NEW s, NEW text, Begins(text, s),
           NEW j \in Nat, NEW r \in 1..5, 5 * j + r \in 1..Len(text)
    PROVE  text[5 * j + r][1] = Kind[r]
<1> DEFINE c == text[5 * j + r]
           f == FormatSse(s[j + 1])
<1>1. c = f[r]
    BY DEF Begins
<1>2. f[r][1] = Kind[r]
    BY Frame, Zenon
<1> HIDE DEF c, f
<1>3. c[1] = Kind[r]
    BY <1>1, <1>2, Zenon
<1> QED
    BY <1>3 DEF c

LEMMA PayloadAt ==
    ASSUME NEW s, NEW text, Begins(text, s),
           NEW j \in Nat, 5 * j + 2 \in 1..Len(text)
    PROVE  text[5 * j + 2][2] = s[j + 1]
<1> DEFINE c == text[5 * j + 2]
           f == FormatSse(s[j + 1])
<1>1. c = f[2]
    BY DEF Begins
<1>2. f[2][2] = s[j + 1]
    BY Frame, Zenon
<1> HIDE DEF c, f
<1>3. c[2] = s[j + 1]
    BY <1>1, <1>2, Zenon
<1> QED
    BY <1>3 DEF c

\* Blank lines are at the ends of the events, and nowhere else.
LEMMA BlankLinesAt ==
    ASSUME NEW s, NEW text \in Seq(Symbol), Begins(text, s)
    PROVE  BlankLines(text) = {i \in 1..Len(text) : \E j \in Nat : i = 5 * j + 5}
<1>1. ASSUME NEW j \in Nat, NEW r \in 1..5, 5 * j + r \in 1..Len(text)
      PROVE  5 * j + r \in BlankLines(text) <=> r = 5
  <2> DEFINE i == 5 * j + r
  <2>1. text[i][1] = Kind[r]
      BY <1>1, KindAt
  <2>2. r # 1 => text[i - 1][1] = Kind[r - 1]
    <3> SUFFICES ASSUME r # 1
                 PROVE  text[i - 1][1] = Kind[r - 1]
        OBVIOUS
    <3>1. r - 1 \in 1..5 /\ i - 1 = 5 * j + (r - 1) /\ 5 * j + (r - 1) \in 1..Len(text)
        BY <1>1
    <3>2. text[5 * j + (r - 1)][1] = Kind[r - 1]
      <4> DEFINE q == r - 1
      <4>1. q \in 1..5 /\ 5 * j + q \in 1..Len(text)
          BY <3>1
      <4> HIDE DEF q
      <4>2. text[5 * j + q][1] = Kind[q]
          BY <4>1, KindAt
      <4> QED
          BY <4>2 DEF q
    <3> HIDE DEF i
    <3> QED
        BY <3>1, <3>2
  <2>3. i \in 2..Len(text) \/ r = 1
      BY <1>1
  <2>4. i \in BlankLines(text) <=>
            i \in 2..Len(text) /\ text[i][1] = "nl" /\ text[i - 1][1] = "nl"
    <3> HIDE DEF i
    <3> QED
        BY DEF BlankLines
  <2> HIDE DEF i
  <2>5. Kind[r] = "nl" <=> r \in {4, 5}
      BY DEF Kind
  <2>6. r # 1 => (Kind[r - 1] = "nl" <=> r = 5)
      BY DEF Kind
  <2>7. i \in BlankLines(text) <=> r = 5
      BY <2>1, <2>2, <2>3, <2>4, <2>5, <2>6
  <2> QED
      BY <2>7 DEF i
<1>2. ASSUME NEW i \in BlankLines(text)
      PROVE  i \in 1..Len(text) /\ \E j \in Nat : i = 5 * j + 5
  <2>1. i \in 1..Len(text) /\ i \in Nat /\ i # 0
      BY <1>2 DEF BlankLines
  <2>2. PICK j \in Nat, r \in 1..5 : i = 5 * j + r
      BY <2>1, Places
  <2>3. 5 * j + r \in BlankLines(text) <=> r = 5
      BY <1>1, <2>1, <2>2
  <2> QED
      BY <1>2, <2>1, <2>2, <2>3
<1>3. ASSUME NEW i \in 1..Len(text), NEW j \in Nat, i = 5 * j + 5
      PROVE  i \in BlankLines(text)
  <2>1. 5 \in 1..5 /\ 5 * j + 5 \in 1..Len(text)
      BY <1>3
  <2> QED
      BY <1>1, <1>3, <2>1
<1> QED
    BY <1>2, <1>3

LEMMA TwoOf ==
    ASSUME NEW S, NEW x \in S, NEW y \in S, x # y
    PROVE  S # {} /\ ~(\E i \in S : S = {i})
    OBVIOUS

\* The block that ends there is the event.
LEMMA BlockAt ==
    ASSUME NEW s, NEW text \in Seq(Symbol), Begins(text, s),
           NEW j \in Nat, 5 * j + 5 \in 1..Len(text)
    PROVE  ParseEventBlock(Block(text, 5 * j + 5)) = s[j + 1]
<1> DEFINE B == {i \in BlankLines(text) : i < 5 * j + 5} \cup {0}
           b == Block(text, 5 * j + 5)
<1>1. Max(B) = 5 * j
  <2>1. B \in SUBSET Int /\ (\A i \in B : i <= 5 * j)
    <3>1. \A i \in B : i = 0 \/ \E k \in Nat : i = 5 * k + 5 /\ i < 5 * j + 5
        BY BlankLinesAt
    <3> HIDE DEF B
    <3> QED
        BY <3>1
  <2>2. 5 * j \in B
    <3>1. CASE j = 0
        BY <3>1
    <3>2. CASE j # 0
      <4>1. 5 * j = 5 * (j - 1) + 5 /\ j - 1 \in Nat /\ 5 * j \in 1..Len(text)
          BY <3>2
      <4>2. 5 * j \in BlankLines(text)
          BY <4>1, BlankLinesAt
      <4> QED
          BY <4>2
    <3> QED
        BY <3>1, <3>2
  <2> HIDE DEF B
  <2> QED
      BY <2>1, <2>2, MaxIs
<1>2. b = SubSeq(text, 5 * j + 1, 5 * j + 3)
  <2>1. b = SubSeq(text, Max(B) + 1, (5 * j + 5) - 2)
      BY DEF Block
  <2> HIDE DEF B, b
  <2> QED
      BY <1>1, <2>1
<1>3. /\ text[5 * j + 1][1] = "mark" /\ text[5 * j + 2][1] = "open"
      /\ text[5 * j + 3][1] = "close" /\ text[5 * j + 2][2] = s[j + 1]
  <2>1. \A r \in 1..3 : r \in 1..5 /\ 5 * j + r \in 1..Len(text)
      OBVIOUS
  <2>2. Kind[1] = "mark" /\ Kind[2] = "open" /\ Kind[3] = "close"
      BY DEF Kind
  <2>3. ASSUME NEW r \in 1..3
        PROVE  text[5 * j + r][1] = Kind[r]
    <3>1. r \in 1..5 /\ 5 * j + r \in 1..Len(text)
        BY <2>1
    <3> QED
        BY <3>1, KindAt
  <2>4. text[5 * j + 2][2] = s[j + 1]
      BY <2>1, PayloadAt
  <2> QED
      BY <2>2, <2>3, <2>4
<1>4. DOMAIN b = 1..3 /\ b[1] = text[5 * j + 1] /\ b[2] = text[5 * j + 2] /\ b[3] = text[5 * j + 3]
  <2>1. \A i \in 5 * j + 1..5 * j + 3 : text[i] \in Symbol
      OBVIOUS
  <2>2. /\ b \in Seq(Symbol) /\ Len(b) = 3
        /\ \A i \in 1..3 : b[i] = text[(5 * j + 1) + i - 1]
    <3> DEFINE u == 5 * j + 1
               v == 5 * j + 3
    <3>1. u \in Int /\ v \in Int /\ v - u + 1 = 3 /\ u <= v
        OBVIOUS
    <3>2. b = SubSeq(text, u, v) /\ \A i \in u..v : text[i] \in Symbol
        BY <1>2, <2>1
    <3> HIDE DEF b, u, v
    <3>3. /\ b \in Seq(Symbol) /\ Len(b) = 3
          /\ \A i \in 1..3 : b[i] = text[u + i - 1]
        BY <3>1, <3>2, SubSeqProperties
    <3> QED
        BY <3>3 DEF u
  <2> HIDE DEF b
  <2> QED
      BY <2>2
<1> HIDE DEF b
<1> DEFINE payload == {i \in DOMAIN b : b[i][1] \in {"open", "close"}}
<1>5. payload = {2, 3}
  <2>1. b[1][1] = "mark" /\ b[2][1] = "open" /\ b[3][1] = "close"
      BY <1>3, <1>4, Zenon
  <2> HIDE DEF b
  <2>2. payload \subseteq {2, 3}
      BY <1>4, <2>1
  <2>3. 2 \in payload /\ 3 \in payload
      BY <1>4, <2>1
  <2> QED
      BY <2>2, <2>3
<1>6. ParseEventBlock(b) = b[Min(payload)][2]
  <2>1. payload # {} /\ ~(\E i \in payload : payload = {i})
    <3> HIDE DEF payload
    <3>1. 2 \in payload /\ 3 \in payload /\ 2 # 3
        BY <1>5
    <3> QED
        BY <3>1, TwoOf
  <2> QED
      BY <2>1 DEF ParseEventBlock
<1>7. Min(payload) = 2
  <2> HIDE DEF payload
  <2>1. payload \in SUBSET Int /\ 2 \in payload /\ \A y \in payload : 2 <= y
      BY <1>5
  <2> QED
      BY <2>1, MinIs
<1>8. b[2][2] = s[j + 1]
    BY <1>3, <1>4, Zenon
<1> HIDE DEF payload
<1>9. ParseEventBlock(b) = s[j + 1]
    BY <1>6, <1>7, <1>8
<1> QED
    BY <1>9 DEF b

\* One more of a sequence.
LEMMA Longer ==
    ASSUME NEW S, NEW s \in Seq(S), NEW n \in Nat, n + 1 <= Len(s)
    PROVE  /\ SubSeq(s, 1, n) \in Seq(S)
           /\ s[n + 1] \in S
           /\ SubSeq(s, 1, n + 1) = Append(SubSeq(s, 1, n), s[n + 1])
<1>1. Len(s) \in Nat
    OBVIOUS
<1>2. n \in 0..Len(s) /\ n + 1 \in 1..Len(s)
    BY <1>1
<1>3. s[n + 1] \in S /\ \A i \in 1..n : s[i] \in S
    BY <1>2
<1>4. SubSeq(s, 1, n) \in Seq(S) /\ SubSeq(s, 1, n + 1) \in Seq(S)
    BY <1>2
<1>5. /\ Len(SubSeq(s, 1, n + 1)) = n + 1 /\ Len(SubSeq(s, 1, n)) = n
      /\ \A i \in 1..n + 1 : SubSeq(s, 1, n + 1)[i] = s[i]
      /\ \A i \in 1..n : SubSeq(s, 1, n)[i] = s[i]
    BY <1>2
<1> DEFINE t == Append(SubSeq(s, 1, n), s[n + 1])
<1>6. t \in Seq(S) /\ Len(t) = n + 1 /\ \A i \in 1..n + 1 : t[i] = s[i]
  <2>1. /\ t \in Seq(S) /\ Len(t) = Len(SubSeq(s, 1, n)) + 1
        /\ \A i \in 1..Len(SubSeq(s, 1, n)) : t[i] = SubSeq(s, 1, n)[i]
        /\ t[Len(SubSeq(s, 1, n)) + 1] = s[n + 1]
      BY <1>3, <1>4, AppendProperties
  <2>2. ASSUME NEW i \in 1..n + 1
        PROVE  t[i] = s[i]
    <3>1. CASE i \in 1..n
      <4>1. t[i] = SubSeq(s, 1, n)[i] /\ SubSeq(s, 1, n)[i] = s[i]
        <5> HIDE DEF t
        <5> QED
            BY <1>5, <2>1, <3>1
      <4> HIDE DEF t
      <4> QED
          BY <4>1
    <3>2. CASE i = n + 1
      <4> HIDE DEF t
      <4> QED
          BY <1>5, <2>1, <3>2
    <3> QED
        BY <3>1, <3>2
  <2> HIDE DEF t
  <2> QED
      BY <1>5, <2>1, <2>2
<1> HIDE DEF t
<1>7. SubSeq(s, 1, n + 1) = t
    BY <1>4, <1>5, <1>6, SeqEqual
<1> QED
    BY <1>3, <1>4, <1>7 DEF t

\* What readThoughtStream cuts from the buffer at its blank lines and parses are
\* exactly the events that have arrived whole, for texts of any length.
THEOREM CutEvents ==
    ASSUME NEW s \in Seq(Event), NEW text \in Seq(Symbol), Begins(text, s),
           NEW q \in Nat, NEW m \in 0..4, Len(text) = 5 * q + m
    PROVE  q <= Len(s) /\ Parsed(text) = SubSeq(s, 1, q)
<1> DEFINE R == Event \cup {"null"}
           E == [i \in DOMAIN text |->
                    IF i \in BlankLines(text) THEN ParseEventBlock(Block(text, i)) ELSE "null"]
<1>1. Len(text) \in Nat /\ DOMAIN text = 1..Len(text) /\ Len(s) \in Nat
    BY LenProperties
<1>2. ASSUME NEW j \in Nat, 5 * j + 5 <= Len(text)
      PROVE  E[5 * j + 5] = s[j + 1] /\ j + 1 \in 1..Len(s)
  <2>1. 5 * j + 5 \in 1..Len(text) /\ 5 \in 1..5
      BY <1>1, <1>2
  <2>2. j + 1 \in 1..Len(s)
      BY <2>1 DEF Begins
  <2>3. 5 * j + 5 \in BlankLines(text)
      BY <2>1, BlankLinesAt
  <2>4. ParseEventBlock(Block(text, 5 * j + 5)) = s[j + 1]
      BY <2>1, BlockAt
  <2> QED
      BY <1>1, <2>1, <2>2, <2>3, <2>4
<1>3. ASSUME NEW j \in Nat, NEW r \in 1..4, 5 * j + r <= Len(text)
      PROVE  E[5 * j + r] = "null"
  <2>1. 5 * j + r \in 1..Len(text)
      BY <1>1, <1>3
  <2>2. \A k \in Nat : 5 * j + r # 5 * k + 5
      OBVIOUS
  <2>3. 5 * j + r \notin BlankLines(text)
      BY <2>1, <2>2, BlankLinesAt
  <2> QED
      BY <1>1, <2>1, <2>3
<1>4. E \in Seq(R) /\ Len(E) = Len(text)
  <2>1. DOMAIN E = 1..Len(text) /\ E = [i \in 1..Len(text) |-> E[i]]
      BY <1>1
  <2> HIDE DEF E
  <2>2. ASSUME NEW i \in 1..Len(text)
        PROVE  E[i] \in R
    <3>1. i \in Nat /\ i # 0
        BY <1>1
    <3>2. PICK j \in Nat, r \in 1..5 : i = 5 * j + r
        BY <3>1, Places
    <3>3. CASE r = 5
      <4>1. E[i] = s[j + 1] /\ j + 1 \in 1..Len(s)
        <5>1. i = 5 * j + 5 /\ 5 * j + 5 <= Len(text)
            BY <1>1, <3>2, <3>3
        <5> QED
            BY <1>2, <5>1
      <4>2. s[j + 1] \in Event
          BY <4>1
      <4> QED
          BY <4>1, <4>2
    <3>4. CASE r \in 1..4
      <4>1. E[i] = "null"
        <5>1. 5 * j + r <= Len(text)
            BY <1>1, <3>2
        <5> QED
            BY <1>3, <3>2, <3>4, <5>1
      <4> QED
          BY <4>1
    <3> QED
        BY <3>3, <3>4
  <2> HIDE DEF R
  <2>3. E \in [1..Len(text) -> R]
      BY <2>1, <2>2
  <2> QED
      BY <1>1, <2>3
<1>5. Parsed(text) = Yielded(E)
    BY DEF Parsed
<1>6. Event \subseteq R /\ "null" \in R /\ "null" \notin Event \cup {"throws"}
    BY ThoughtAssumption DEF Event
<1> HIDE DEF E, R
<1> DEFINE T == {n \in Nat : \A j \in Nat, k \in 0..4 :
                    n = 5 * j + k /\ n <= Len(text) =>
                        Yielded(SubSeq(E, 1, n)) = SubSeq(s, 1, j)}
<1>7. 0 \in T
  <2>1. SubSeq(E, 1, 0) = <<>> /\ SubSeq(s, 1, 0) = <<>>
      BY SubSeqEmpty
  <2>2. Yielded(<<>>) = <<>>
      BY SelectEmpty DEF Yielded
  <2>3. \A j \in Nat, k \in 0..4 : 0 = 5 * j + k => j = 0
      OBVIOUS
  <2> QED
      BY <2>1, <2>2, <2>3
<1>8. ASSUME NEW n \in Nat, n \in T
      PROVE  n + 1 \in T
  <2> SUFFICES ASSUME NEW j \in Nat, NEW k \in 0..4, n + 1 = 5 * j + k, n + 1 <= Len(text)
               PROVE  Yielded(SubSeq(E, 1, n + 1)) = SubSeq(s, 1, j)
    <3>1. n + 1 \in Nat
        OBVIOUS
    <3> QED
        BY <3>1, Zenon
  <2> DEFINE e == E[n + 1]
             u == SubSeq(E, 1, n)
  <2>1. u \in Seq(R) /\ e \in R /\ SubSeq(E, 1, n + 1) = Append(u, e)
      BY <1>4, Longer
  <2>2. CASE k = 0
    <3>1. PICK i \in Nat : j = i + 1
      <4>1. j # 0
          BY <2>2
      <4>2. j - 1 \in Nat /\ j = (j - 1) + 1
          BY <4>1
      <4> QED
          BY <4>2
    <3>2. n = 5 * i + 4 /\ n + 1 = 5 * i + 5 /\ n <= Len(text) /\ 5 * i + 5 <= Len(text)
        BY <1>1, <2>2, <3>1
    <3>3. e = s[i + 1] /\ i + 1 \in 1..Len(s)
        BY <1>2, <3>2
    <3>4. Yielded(u) = SubSeq(s, 1, i)
        BY <1>8, <3>2
    <3>5. e \in Event
        BY <3>3
    <3> HIDE DEF e, u
    <3>6. Yielded(Append(u, e)) = Append(Yielded(u), e)
      <4> DEFINE keep == Event \cup {"throws"}
      <4>1. e \in keep
          BY <3>5
      <4> HIDE DEF keep
      <4>2. Select(Append(u, e), keep) = Append(Select(u, keep), e)
          BY <2>1, <4>1, SelectAppend
      <4> QED
          BY <4>2 DEF Yielded, keep
    <3>7. SubSeq(s, 1, i + 1) = Append(SubSeq(s, 1, i), s[i + 1])
      <4>1. i + 1 <= Len(s)
          BY <1>1, <3>3
      <4> QED
          BY <4>1, Longer
    <3> QED
        BY <2>1, <3>1, <3>3, <3>4, <3>6, <3>7
  <2>3. CASE k # 0
    <3>1. PICK r \in 0..3 : k = r + 1
      <4>1. k - 1 \in 0..3 /\ k = (k - 1) + 1
          BY <2>3
      <4> QED
          BY <4>1
    <3>2. n = 5 * j + r /\ r \in 0..4 /\ n <= Len(text)
        BY <1>1, <3>1
    <3>3. e = "null"
      <4>1. k \in 1..4 /\ 5 * j + k <= Len(text)
          BY <2>3
      <4>2. E[5 * j + k] = "null"
          BY <1>3, <4>1
      <4> QED
          BY <4>2
    <3>4. Yielded(u) = SubSeq(s, 1, j)
        BY <1>8, <3>2
    <3> HIDE DEF e, u
    <3>5. Yielded(Append(u, e)) = Yielded(u)
        BY <1>6, <2>1, <3>3, SelectAppend DEF Yielded
    <3> QED
        BY <2>1, <3>4, <3>5
  <2> HIDE DEF e, u
  <2> QED
      BY <2>2, <2>3
<1>9. Nat \subseteq T
  <2> HIDE DEF T
  <2> QED
      BY <1>7, <1>8, InductionInSet
<1>10. Yielded(SubSeq(E, 1, Len(text))) = SubSeq(s, 1, q)
  <2>1. Len(text) \in T
      BY <1>1, <1>9
  <2> DEFINE n == Len(text)
  <2>2. n \in T /\ n = 5 * q + m /\ n <= Len(text)
      BY <1>1, <2>1
  <2> HIDE DEF n
  <2>3. Yielded(SubSeq(E, 1, n)) = SubSeq(s, 1, q)
      BY <2>2
  <2> QED
      BY <2>3 DEF n
<1>11. SubSeq(E, 1, Len(text)) = E
    BY <1>4, SubSeqFull
<1>12. q <= Len(s)
  <2>1. CASE q = 0
      BY <1>1, <2>1
  <2>2. CASE q # 0
    <3>1. q - 1 \in Nat /\ 5 * (q - 1) + 5 <= Len(text)
        BY <2>2
    <3>2. (q - 1) + 1 \in 1..Len(s)
        BY <1>2, <3>1
    <3> QED
        BY <1>1, <3>2
  <2> QED
      BY <2>1, <2>2
<1> QED
    BY <1>5, <1>10, <1>11, <1>12

\* What is left is the part of an event that has arrived.
LEMMA CutRest ==
    ASSUME NEW s \in Seq(Event), NEW text \in Seq(Symbol), Begins(text, s),
           NEW q \in Nat, NEW m \in 0..4, Len(text) = 5 * q + m
    PROVE  /\ Rest(text) \in Seq(Symbol)
           /\ Len(Rest(text)) = m
           /\ \A r \in 1..m : Rest(text)[r] = text[5 * q + r]
<1> DEFINE B == BlankLines(text) \cup {0}
<1>1. B \in SUBSET Int /\ (\A i \in B : i <= 5 * q)
  <2>1. \A i \in B : i = 0 \/ \E k \in Nat : i = 5 * k + 5 /\ i <= 5 * q + m
      BY BlankLinesAt
  <2> HIDE DEF B
  <2> QED
      BY <2>1
<1>2. 5 * q \in B
  <2>1. CASE q = 0
      BY <2>1
  <2>2. CASE q # 0
    <3>1. 5 * q = 5 * (q - 1) + 5 /\ q - 1 \in Nat /\ 5 * q \in 1..Len(text)
        BY <2>2
    <3>2. 5 * q \in BlankLines(text)
        BY <3>1, BlankLinesAt
    <3> QED
        BY <3>2
  <2> QED
      BY <2>1, <2>2
<1> HIDE DEF B
<1>3. Max(B) = 5 * q
    BY <1>1, <1>2, MaxIs
<1> DEFINE u == 5 * q + 1
           v == 5 * q + m
<1>4. Rest(text) = SubSeq(text, u, v)
    BY <1>3 DEF Rest, B
<1>5. u \in Int /\ v \in Int /\ v - u + 1 = m /\ (u <= v <=> m # 0) /\ m \in Int
    OBVIOUS
<1>6. \A i \in u..v : text[i] \in Symbol
    OBVIOUS
<1>7. \A r \in 1..m : u + r - 1 = 5 * q + r
    OBVIOUS
<1> HIDE DEF u, v
<1>8. /\ Rest(text) \in Seq(Symbol)
      /\ Len(Rest(text)) = IF u <= v THEN v - u + 1 ELSE 0
      /\ \A i \in 1..v - u + 1 : Rest(text)[i] = text[u + i - 1]
    BY <1>4, <1>5, <1>6, SubSeqProperties
<1> QED
    BY <1>5, <1>7, <1>8

-----------------------------------------------------------------------------
(***************************************************************************)
(* The thoughts shown                                                      *)
(***************************************************************************)
ShowStep(f, t, events, i) == IF i = 0 THEN t ELSE ShowThought(f[i - 1], events[i])

ShowChain(f, t, events, n) == f = [i \in 0..n |-> ShowStep(f, t, events, i)]

\* The recursion of Show has a solution up to every length.
LEMMA ShowExists ==
    ASSUME NEW t, NEW events
    PROVE  \A n \in Nat : \E f : ShowChain(f, t, events, n)
<1> DEFINE T == {n \in Nat : \E f : ShowChain(f, t, events, n)}
<1>1. 0 \in T
  <2>1. ShowChain([i \in 0..0 |-> t], t, events, 0)
      BY DEF ShowChain, ShowStep
  <2> QED
      BY <2>1
<1>2. ASSUME NEW n \in Nat, n \in T
      PROVE  n + 1 \in T
  <2>1. PICK f : ShowChain(f, t, events, n)
      BY <1>2
  <2> DEFINE g == [i \in 0..n + 1 |-> IF i = n + 1 THEN ShowStep(f, t, events, i) ELSE f[i]]
  <2>2. \A i \in 0..n : g[i] = f[i]
      OBVIOUS
  <2>3. ASSUME NEW i \in 0..n + 1
        PROVE  g[i] = ShowStep(g, t, events, i)
    <3>1. CASE i = 0
        BY <3>1, <2>1, <2>2 DEF ShowChain, ShowStep
    <3>2. CASE i \in 1..n
      <4>1. g[i] = f[i] /\ g[i - 1] = f[i - 1]
          BY <3>2, <2>2
      <4>2. f[i] = ShowStep(f, t, events, i)
          BY <3>2, <2>1 DEF ShowChain
      <4> HIDE DEF g
      <4> QED
          BY <3>2, <4>1, <4>2 DEF ShowStep
    <3>3. CASE i = n + 1
      <4>1. g[i] = ShowStep(f, t, events, i) /\ g[i - 1] = f[i - 1] /\ i # 0
          BY <3>3, <2>2
      <4> HIDE DEF g
      <4> QED
          BY <4>1 DEF ShowStep
    <3> QED
        BY <3>1, <3>2, <3>3
  <2>4. ShowChain(g, t, events, n + 1)
    <3>1. g = [i \in 0..n + 1 |-> g[i]]
        OBVIOUS
    <3> HIDE DEF g
    <3> QED
        BY <2>3, <3>1 DEF ShowChain
  <2> QED
      BY <2>4
<1>3. Nat \subseteq T
  <2> HIDE DEF T
  <2> QED
      BY <1>1, <1>2, InductionInSet
<1> QED
    BY <1>3

\* Two solutions agree as far as both go and the events do.
LEMMA ShowUnique ==
    ASSUME NEW t, NEW d, NEW e, NEW f, NEW g, NEW m \in Nat, NEW n \in Nat, m <= n,
           \A i \in 1..m : d[i] = e[i],
           ShowChain(f, t, d, m), ShowChain(g, t, e, n)
    PROVE  \A i \in 0..m : f[i] = g[i]
<1> DEFINE T == {i \in Nat : i <= m => f[i] = g[i]}
<1>1. 0 \in T
    BY DEF ShowChain, ShowStep
<1>2. ASSUME NEW i \in Nat, i \in T
      PROVE  i + 1 \in T
  <2> SUFFICES ASSUME i + 1 <= m
               PROVE  f[i + 1] = g[i + 1]
      OBVIOUS
  <2>1. f[i] = g[i]
      BY <1>2
  <2>2. f[i + 1] = ShowStep(f, t, d, i + 1) /\ g[i + 1] = ShowStep(g, t, e, i + 1)
    <3>1. i + 1 \in 0..m /\ i + 1 \in 0..n
        OBVIOUS
    <3> QED
        BY <3>1 DEF ShowChain
  <2>3. i + 1 # 0 /\ (i + 1) - 1 = i /\ d[i + 1] = e[i + 1]
      OBVIOUS
  <2> QED
      BY <2>1, <2>2, <2>3 DEF ShowStep
<1>3. Nat \subseteq T
  <2> HIDE DEF T
  <2> QED
      BY <1>1, <1>2, InductionInSet
<1> QED
    BY <1>3

\* Show is the last step of such a solution.
LEMMA ShowIsChain ==
    ASSUME NEW t, NEW events, Len(events) \in Nat, NEW f, ShowChain(f, t, events, Len(events))
    PROVE  Show(t, events) = f[Len(events)]
<1> DEFINE g == CHOOSE u : u = [i \in 0..Len(events) |->
                    IF i = 0 THEN t ELSE ShowThought(u[i - 1], events[i])]
<1>1. Show(t, events) = g[Len(events)]
    BY DEF Show
<1>2. \E u : u = [i \in 0..Len(events) |->
                    IF i = 0 THEN t ELSE ShowThought(u[i - 1], events[i])]
    BY DEF ShowChain, ShowStep
<1>3. g = [i \in 0..Len(events) |->
                    IF i = 0 THEN t ELSE ShowThought(g[i - 1], events[i])]
    BY <1>2, Zenon
<1> HIDE DEF g
<1>4. ShowChain(g, t, events, Len(events))
    BY <1>3 DEF ShowChain, ShowStep
<1> QED
    BY <1>1, <1>4, ShowUnique

LEMMA ShowEmpty == \A t : Show(t, <<>>) = t
<1> TAKE t
<1>1. Len(<<>>) = 0
    OBVIOUS
<1>2. PICK f : ShowChain(f, t, <<>>, 0)
    BY ShowExists
<1>3. Show(t, <<>>) = f[0]
    BY <1>1, <1>2, ShowIsChain
<1> QED
    BY <1>2, <1>3 DEF ShowChain, ShowStep

\* The events are shown one after the other.
LEMMA ShowAppend ==
    ASSUME NEW S, NEW s \in Seq(S), NEW e \in S, NEW t
    PROVE  Show(t, Append(s, e)) = ShowThought(Show(t, s), e)
<1> DEFINE u == Append(s, e)
           n == Len(s)
<1>1. /\ n \in Nat
      /\ Len(u) = n + 1
      /\ u[n + 1] = e
      /\ \A i \in 1..n : s[i] = u[i]
    OBVIOUS
<1>2. PICK f : ShowChain(f, t, u, n + 1)
    BY <1>1, ShowExists
<1>3. PICK h : ShowChain(h, t, s, n)
    BY <1>1, ShowExists
<1>4. Show(t, s) = h[n]
    BY <1>1, <1>3, ShowIsChain
<1> HIDE DEF u
<1>5. Show(t, u) = f[n + 1]
  <2>1. Len(u) \in Nat /\ ShowChain(f, t, u, Len(u))
      BY <1>1, <1>2
  <2>2. Show(t, u) = f[Len(u)]
      BY <2>1, ShowIsChain
  <2> QED
      BY <1>1, <2>2
<1> HIDE DEF n
<1>6. h[n] = f[n]
    BY <1>1, <1>2, <1>3, ShowUnique
<1>7. f[n + 1] = ShowStep(f, t, u, n + 1)
    BY <1>1, <1>2 DEF ShowChain
<1>8. n + 1 # 0 /\ (n + 1) - 1 = n
    BY <1>1
<1>9. Show(t, u) = ShowThought(Show(t, s), e)
    BY <1>1, <1>4, <1>5, <1>6, <1>7, <1>8 DEF ShowStep
<1> QED
    BY <1>9 DEF u

\* WithoutRepeats, with names for its parts.
News(u) == {i \in DOMAIN u : i = 1 \/ u[i] # u[i - 1]}
Indices(u) == [i \in DOMAIN u |-> i]
Fresh(u) == Select(Indices(u), News(u))

LEMMA FreshType ==
    ASSUME NEW u \in Seq(Thought)
    PROVE  /\ Fresh(u) \in Seq(1..Len(u))
           /\ WithoutRepeats(u) = [i \in DOMAIN Fresh(u) |-> u[Fresh(u)[i]]]
           /\ WithoutRepeats(u) \in Seq(Thought)
           /\ Len(WithoutRepeats(u)) = Len(Fresh(u))
<1>1. DOMAIN u = 1..Len(u) /\ Len(u) \in Nat
    OBVIOUS
<1>2. Indices(u) \in Seq(1..Len(u))
    BY <1>1 DEF Indices
<1>3. Fresh(u) \in Seq(1..Len(u))
    BY <1>2, SelectType DEF Fresh
<1>4. WithoutRepeats(u) = [i \in DOMAIN Fresh(u) |-> u[Fresh(u)[i]]]
    BY DEF WithoutRepeats, Fresh, Indices, News
<1>5. DOMAIN Fresh(u) = 1..Len(Fresh(u)) /\ Len(Fresh(u)) \in Nat
    BY <1>3, LenProperties
<1>6. \A i \in 1..Len(Fresh(u)) : u[Fresh(u)[i]] \in Thought
    BY <1>3, ElementOfSeq
<1> QED
    BY <1>3, <1>4, <1>5, <1>6

\* One thought more changes nothing if it is the last again.
LEMMA WithoutRepeatsStep ==
    ASSUME NEW u \in Seq(Thought), NEW e \in Thought
    PROVE  WithoutRepeats(Append(u, e)) =
               IF u = <<>> \/ u[Len(u)] # e THEN Append(WithoutRepeats(u), e)
               ELSE WithoutRepeats(u)
<1> DEFINE v == Append(u, e)
           n == Len(u)
<1>1. /\ n \in Nat /\ v \in Seq(Thought) /\ Len(v) = n + 1 /\ v[n + 1] = e
      /\ \A i \in 1..n : v[i] = u[i]
      /\ DOMAIN u = 1..n /\ DOMAIN v = 1..n + 1
      /\ (u = <<>> <=> n = 0)
    OBVIOUS
<1>2. Indices(u) \in Seq(1..n + 1) /\ Indices(v) = Append(Indices(u), n + 1)
  <2>1. Indices(u) \in Seq(1..n + 1) /\ Indices(v) \in Seq(1..n + 1)
      BY <1>1 DEF Indices
  <2>2. Len(Indices(u)) = n /\ Len(Indices(v)) = n + 1
      BY <1>1 DEF Indices
  <2>3. \A i \in 1..n + 1 : Indices(v)[i] = i
      BY <1>1 DEF Indices
  <2>4. \A i \in 1..n : Indices(u)[i] = i
      BY <1>1 DEF Indices
  <2> HIDE DEF n, v
  <2> DEFINE w == Append(Indices(u), n + 1)
  <2>5. n + 1 \in 1..n + 1
      BY <1>1
  <2>6. /\ w \in Seq(1..n + 1) /\ Len(w) = n + 1
        /\ \A i \in 1..n : w[i] = i
        /\ w[n + 1] = n + 1
    <3>1. /\ w \in Seq(1..n + 1) /\ Len(w) = Len(Indices(u)) + 1
          /\ \A i \in 1..Len(Indices(u)) : w[i] = Indices(u)[i]
          /\ w[Len(Indices(u)) + 1] = n + 1
        BY <2>1, <2>5, AppendProperties
    <3> HIDE DEF w
    <3> QED
        BY <2>2, <2>4, <3>1
  <2> HIDE DEF w
  <2>7. \A i \in 1..n + 1 : Indices(v)[i] = w[i]
      BY <1>1, <2>3, <2>6
  <2>8. Indices(v) = w
      BY <2>1, <2>2, <2>6, <2>7, SeqEqual
  <2> QED
      BY <2>1, <2>8 DEF w
<1>3. ToSet(Indices(u)) = 1..n
    BY <1>1 DEF Indices, ToSet
<1>4. \A i \in 1..n : i \in News(v) <=> i \in News(u)
    BY <1>1 DEF News
<1>5. n + 1 \in News(v) <=> u = <<>> \/ u[n] # e
  <2>1. CASE n = 0
      BY <1>1, <2>1 DEF News
  <2>2. CASE n # 0
    <3> HIDE DEF n, v
    <3>1. n \in 1..n /\ (n + 1) - 1 = n /\ n + 1 # 1 /\ n + 1 \in 1..n + 1
        BY <1>1, <2>2
    <3>2. v[(n + 1) - 1] = u[n]
        BY <1>1, <3>1
    <3> QED
        BY <1>1, <2>2, <3>1, <3>2 DEF News
  <2> QED
      BY <2>1, <2>2
<1>6. Select(Indices(u), News(v)) = Fresh(u)
    BY <1>2, <1>3, <1>4, SelectSame DEF Fresh
<1>7. Fresh(v) = IF n + 1 \in News(v) THEN Append(Fresh(u), n + 1) ELSE Fresh(u)
  <2>1. n + 1 \in 1..n + 1
      BY <1>1
  <2>2. Select(Append(Indices(u), n + 1), News(v)) =
            IF n + 1 \in News(v) THEN Append(Select(Indices(u), News(v)), n + 1)
            ELSE Select(Indices(u), News(v))
    <3> DEFINE S == 1..n + 1
               p == Indices(u)
               x == n + 1
               K == News(v)
    <3>1. p \in Seq(S) /\ x \in S
        BY <1>2, <2>1
    <3> HIDE DEF S, p, x, K
    <3>2. Select(Append(p, x), K) =
              IF x \in K THEN Append(Select(p, K), x) ELSE Select(p, K)
        BY <3>1, SelectAppend
    <3> QED
        BY <3>2 DEF p, x, K
  <2> HIDE DEF n, v
  <2> QED
      BY <1>2, <1>6, <2>2 DEF Fresh
<1> HIDE DEF n, v
<1>8. /\ Fresh(u) \in Seq(1..n)
      /\ WithoutRepeats(u) = [i \in DOMAIN Fresh(u) |-> u[Fresh(u)[i]]]
      /\ WithoutRepeats(u) \in Seq(Thought)
    BY FreshType DEF n
<1>9. /\ WithoutRepeats(v) = [i \in DOMAIN Fresh(v) |-> v[Fresh(v)[i]]]
      /\ WithoutRepeats(v) \in Seq(Thought)
    BY <1>1, FreshType
<1>10. \A i \in DOMAIN Fresh(u) : v[Fresh(u)[i]] = u[Fresh(u)[i]]
  <2>1. \A i \in DOMAIN Fresh(u) : Fresh(u)[i] \in 1..n
      BY <1>8, ElementOfSeq, LenProperties
  <2> QED
      BY <1>1, <2>1
<1>11. CASE n + 1 \notin News(v)
  <2>1. WithoutRepeats(v) = WithoutRepeats(u)
      BY <1>7, <1>8, <1>9, <1>10, <1>11
  <2> QED
      BY <1>5, <1>11, <2>1 DEF n, v
<1>12. CASE n + 1 \in News(v)
  <2> DEFINE a == Fresh(u)
             k == Len(a)
             b == Append(a, n + 1)
             p == WithoutRepeats(u)
             q == Append(p, e)
  <2>1. /\ a \in Seq(1..n + 1) /\ k \in Nat /\ DOMAIN a = 1..k /\ n + 1 \in 1..n + 1
    <3>1. 1..n \subseteq 1..n + 1 /\ n + 1 \in 1..n + 1
        BY <1>1
    <3> QED
        BY <1>8, <3>1, SeqMonotonic, LenProperties
  <2>2. /\ Len(b) = k + 1 /\ DOMAIN b = 1..k + 1 /\ b[k + 1] = n + 1
        /\ \A i \in 1..k : b[i] = a[i]
    <3> HIDE DEF a
    <3>1. /\ b \in Seq(1..n + 1) /\ Len(b) = k + 1
          /\ \A i \in 1..k : b[i] = a[i]
          /\ b[k + 1] = n + 1
        BY <2>1, AppendProperties
    <3> HIDE DEF b
    <3> QED
        BY <3>1, LenProperties
  <2>3. Fresh(v) = b
      BY <1>7, <1>12
  <2> HIDE DEF b
  <2>4. /\ Len(p) = k /\ p \in Seq(Thought) /\ \A i \in 1..k : p[i] = u[a[i]]
      BY <1>8, <2>1
  <2> HIDE DEF p, a, k
  <2>5. /\ q \in Seq(Thought) /\ Len(q) = k + 1 /\ q[k + 1] = e
        /\ \A i \in 1..k : q[i] = p[i]
      BY <2>1, <2>4, AppendProperties
  <2> HIDE DEF q
  <2>6. Len(WithoutRepeats(v)) = k + 1 /\ \A i \in 1..k + 1 : WithoutRepeats(v)[i] = v[b[i]]
      BY <1>9, <2>1, <2>2, <2>3
  <2>7. \A i \in 1..k : v[b[i]] = u[a[i]]
      BY <1>10, <2>1, <2>2 DEF a
  <2>8. v[b[k + 1]] = e
      BY <1>1, <2>2
  <2>9. \A i \in 1..k + 1 : WithoutRepeats(v)[i] = q[i]
      BY <2>1, <2>4, <2>5, <2>6, <2>7, <2>8
  <2>10. WithoutRepeats(v) = q
      BY <1>9, <2>5, <2>6, <2>9, SeqEqual
  <2> QED
      BY <1>5, <1>12, <2>10 DEF n, v, q, p
<1> QED
    BY <1>11, <1>12

\* What is to be seen of the events handled.
Seen(h) == WithoutRepeats(Select(h, Thought))

\* The last thought shown is the last there was.
LEMMA LastShown ==
    ASSUME NEW u \in Seq(Thought)
    PROVE  /\ u = <<>> <=> WithoutRepeats(u) = <<>>
           /\ u # <<>> => Last(WithoutRepeats(u)) = u[Len(u)]
<1> DEFINE T == {t \in Seq(Thought) :
                    /\ t = <<>> <=> WithoutRepeats(t) = <<>>
                    /\ t # <<>> => Last(WithoutRepeats(t)) = t[Len(t)]}
<1>1. <<>> \in T
  <2>1. <<>> \in Seq(Thought) /\ Indices(<<>>) = <<>>
      BY DEF Indices
  <2>2. Fresh(<<>>) = <<>>
      BY <2>1, SelectEmpty DEF Fresh
  <2>3. Len(WithoutRepeats(<<>>)) = 0 /\ WithoutRepeats(<<>>) \in Seq(Thought)
    <3>1. Len(<<>>) = 0
        OBVIOUS
    <3> QED
        BY <2>1, <2>2, <3>1, FreshType
  <2>4. WithoutRepeats(<<>>) = <<>>
      BY <2>3
  <2> QED
      BY <2>1, <2>4
<1>2. ASSUME NEW t \in Seq(Thought), NEW e \in Thought, t \in T
      PROVE  Append(t, e) \in T
  <2> DEFINE v == Append(t, e)
             p == WithoutRepeats(t)
  <2>1. /\ v \in Seq(Thought) /\ v # <<>> /\ v[Len(v)] = e /\ p \in Seq(Thought)
    <3>1. v \in Seq(Thought) /\ v # <<>> /\ v[Len(v)] = e
        OBVIOUS
    <3> QED
        BY <3>1, FreshType
  <2>2. WithoutRepeats(v) = IF t = <<>> \/ t[Len(t)] # e THEN Append(p, e) ELSE p
      BY WithoutRepeatsStep
  <2>3. /\ t = <<>> <=> p = <<>>
        /\ t # <<>> => Last(p) = t[Len(t)]
      BY <1>2
  <2> HIDE DEF v, p
  <2>4. Append(p, e) # <<>> /\ Last(Append(p, e)) = e
    <3> DEFINE a == Append(p, e)
    <3>1. /\ Len(p) \in Nat /\ a \in Seq(Thought) /\ Len(a) = Len(p) + 1
          /\ a[Len(p) + 1] = e
        BY <2>1, AppendProperties
    <3> HIDE DEF a
    <3>2. a # <<>>
      <4>1. Len(a) # 0
          BY <3>1
      <4> QED
          BY <4>1, EmptySeq
    <3>3. a[Len(a)] = e
        BY <3>1
    <3> QED
        BY <3>2, <3>3 DEF a, Last
  <2>5. WithoutRepeats(v) # <<>> /\ Last(WithoutRepeats(v)) = e
      BY <2>2, <2>3, <2>4
  <2>6. v \in T
      BY <2>1, <2>5
  <2> QED
      BY <2>6 DEF v
<1>3. Seq(Thought) \subseteq T
  <2> HIDE DEF T
  <2> QED
      BY <1>1, <1>2, SequencesInSet
<1> QED
    BY <1>3

\* A sequence consists of what it is selected by.
LEMMA SelectInto ==
    ASSUME NEW S, NEW s \in Seq(S), NEW keep
    PROVE  Select(s, keep) \in Seq(keep)
<1> DEFINE t == Select(s, keep)
<1>1. t \in Seq(S) /\ ToSet(t) \subseteq keep
    BY SelectType, SelectRange
<1> HIDE DEF t
<1>2. t = [i \in 1..Len(t) |-> t[i]] /\ Len(t) \in Nat
    BY <1>1
<1>3. \A i \in 1..Len(t) : t[i] \in keep
    BY <1>1 DEF ToSet
<1>4. t \in Seq(keep)
    BY <1>2, <1>3
<1> QED
    BY <1>4 DEF t

\* An event is shown as it ought to be seen.
LEMMA SeenStep ==
    ASSUME NEW h \in Seq(Event), NEW e \in Event
    PROVE  Seen(Append(h, e)) = ShowThought(Seen(h), e)
<1> DEFINE u == Select(h, Thought)
<1>1. u \in Seq(Thought)
    BY SelectInto
<1>2. Select(Append(h, e), Thought) = IF e \in Thought THEN Append(u, e) ELSE u
    BY SelectAppend
<1> HIDE DEF u
<1>3. CASE e \notin Thought
  <2>1. Seen(Append(h, e)) = Seen(h)
      BY <1>2, <1>3 DEF Seen, u
  <2> QED
      BY <1>3, <2>1 DEF ShowThought
<1>4. CASE e \in Thought
  <2>1. Seen(Append(h, e)) =
            IF u = <<>> \/ u[Len(u)] # e THEN Append(WithoutRepeats(u), e) ELSE WithoutRepeats(u)
      BY <1>1, <1>2, <1>4, WithoutRepeatsStep DEF Seen
  <2>2. Seen(h) = WithoutRepeats(u)
      BY DEF Seen, u
  <2>3. /\ u = <<>> <=> Seen(h) = <<>>
        /\ u # <<>> => Last(Seen(h)) = u[Len(u)]
      BY <1>1, <2>2, LastShown
  <2> QED
      BY <1>4, <2>1, <2>2, <2>3 DEF ShowThought
<1> QED
    BY <1>3, <1>4

\* So is a read of several.
LEMMA SeenShow ==
    ASSUME NEW h \in Seq(Event)
    PROVE  \A s \in Seq(Event) : Show(Seen(h), s) = Seen(h \o s)
<1> DEFINE T == {s \in Seq(Event) : Show(Seen(h), s) = Seen(h \o s)}
<1>1. <<>> \in T
  <2>1. <<>> \in Seq(Event) /\ h \o <<>> = h
      BY EmptySeq, ConcatEmptySeq
  <2> QED
      BY <2>1, ShowEmpty
<1>2. ASSUME NEW s \in Seq(Event), NEW e \in Event, s \in T
      PROVE  Append(s, e) \in T
  <2>1. Append(s, e) \in Seq(Event) /\ h \o s \in Seq(Event)
      OBVIOUS
  <2>2. h \o Append(s, e) = Append(h \o s, e)
      OBVIOUS
  <2>3. Show(Seen(h), Append(s, e)) = ShowThought(Show(Seen(h), s), e)
      BY ShowAppend
  <2>4. Seen(Append(h \o s, e)) = ShowThought(Seen(h \o s), e)
      BY <2>1, SeenStep
  <2>5. Show(Seen(h), s) = Seen(h \o s)
      BY <1>2
  <2> QED
      BY <2>1, <2>2, <2>3, <2>4, <2>5
<1>3. Seq(Event) \subseteq T
  <2> HIDE DEF T
  <2> QED
      BY <1>1, <1>2, SequencesInSet
<1> QED
    BY <1>3

LEMMA SeenType ==
    ASSUME NEW h \in Seq(Event)
    PROVE  Seen(h) \in Seq(Thought)
    BY SelectInto, FreshType DEF Seen

\* No event comes after an error.
ErrorIsLast(s) == \A i \in 1..Len(s) : s[i] = "error" => i = Len(s)

\* Whole events, the last of which may be an error, are all heard.
LEMMA HeardAll ==
    ASSUME NEW s \in Seq(Event), ErrorIsLast(s)
    PROVE  /\ Heard(s) = s
           /\ Stops(s) # {} <=> Len(s) # 0 /\ s[Len(s)] = "error"
<1> DEFINE n == Len(s)
<1>1. DOMAIN s = 1..n /\ n \in Nat
    BY LenProperties
<1>2. \A i \in 1..n : s[i] \in Event
    BY ElementOfSeq
<1>3. "throws" \notin Event
    BY ThoughtAssumption DEF Event
<1>4. Stops(s) = {i \in 1..n : s[i] = "error"}
    BY <1>1, <1>2, <1>3, Zenon DEF Stops
<1>5. \A i \in 1..n : s[i] = "error" => i = n
    BY DEF ErrorIsLast
<1>6. n # 0 => n \in 1..n
    BY <1>1
<1>7. 0 \notin 1..n
    OBVIOUS
<1> HIDE DEF n
<1>8. \A i \in Stops(s) : i \in 1..n /\ i = n /\ s[n] = "error"
    BY <1>4, <1>5, Zenon
<1>9. Stops(s) # {} <=> n # 0 /\ s[n] = "error"
    BY <1>4, <1>6, <1>7, <1>8, Zenon
<1>10. CASE Stops(s) = {}
    BY <1>9, <1>10, Zenon DEF Heard, n
<1>11. CASE Stops(s) # {}
  <2>1. Stops(s) = {n}
      BY <1>8, <1>11, Zenon
  <2>2. Min(Stops(s)) = n
    <3> DEFINE T == Stops(s)
    <3> HIDE DEF T
    <3>1. T = {n}
        BY <2>1 DEF T
    <3>2. T \in SUBSET Int /\ n \in T /\ \A y \in T : n <= y
        BY <1>1, <3>1
    <3>3. Min(T) = n
        BY <3>2, MinIs
    <3> QED
        BY <3>3 DEF T
  <2>3. SubSeq(s, 1, n) = s
      BY SubSeqFull DEF n
  <2>4. Select(s, Event) = s
    <3>1. ToSet(s) \subseteq Event
        BY <1>1, <1>2 DEF ToSet, n
    <3> QED
        BY <3>1, SelectAll
  <2>5. Heard(s) = s
      BY <1>11, <2>2, <2>3, <2>4, Zenon DEF Heard
  <2> QED
      BY <1>9, <2>5 DEF n
<1> QED
    BY <1>10, <1>11

-----------------------------------------------------------------------------
(***************************************************************************)
(* The invariant                                                           *)
(***************************************************************************)

\* What the buffer and the wire hold is the text of the events sent, from the
\* one after the first q on.
Carries(q) ==
    \A j \in Nat, r \in 1..5 :
        5 * j + r \in 1..Len(buffer \o wire) =>
            /\ q + j + 1 \in 1..Len(sent)
            /\ (buffer \o wire)[5 * j + r] = FormatSse(sent[q + j + 1])[r]

\* The API says "done" or "error" at its end, "done" only of a committed
\* exchange, and it ends an undisturbed stream with one of them.
SentInv ==
    /\ \A i \in 1..Len(sent) : sent[i] \in {"done", "error"} => i = Len(sent) /\ api = "over"
    /\ \A i \in 1..Len(sent) : sent[i] = "done" => kept = "committed"
    /\ api \in {"starting", "thinking"} => kept = "open"
    /\ api = "recording" => kept = "committed"
    /\ api = "starting" => sent = <<>>
    /\ conn = "connecting" => api = "starting"
    /\ conn \in {"refused", "closed"} => api = "over"
    /\ api = "over" /\ conn \in {"open", "closed"} =>
          Len(sent) # 0 /\ sent[Len(sent)] \in {"done", "error"}

\* Whole events have been read, and a part of one that is in the buffer.
WireInv ==
    \E q \in 0..Len(sent) :
        /\ got = 5 * q + Len(buffer)
        /\ Carries(q)
        /\ conn \in {"connecting", "open", "closed"} => got + Len(wire) = 5 * Len(sent)

\* The page that has given up while the stream goes on was told to, at its end.
PageInv ==
    outcome # "pending" =>
        /\ conn # "connecting"
        /\ conn = "open" => /\ outcome = "rejected" /\ got = 5 * Len(sent) /\ api = "over"
                            /\ sent[Len(sent)] = "error"

IInv == TypeOK /\ SentInv /\ WireInv /\ PageInv /\ ReaderIsFaithful

-----------------------------------------------------------------------------
(***************************************************************************)
(* The text on its way                                                     *)
(***************************************************************************)

\* What is on its way is the text of events that were sent.
LEMMA CarriesLen ==
    ASSUME TypeOK, NEW q \in 0..Len(sent), Carries(q)
    PROVE  Len(buffer) + Len(wire) <= 5 * (Len(sent) - q)
<1> DEFINE n == Len(buffer \o wire)
<1>1. buffer \in Seq(Symbol) /\ wire \in Seq(Symbol) /\ Len(sent) \in Nat
    BY DEF TypeOK
<1>2. n = Len(buffer) + Len(wire) /\ n \in Nat
    BY <1>1, ConcatProperties, LenProperties
<1>3. CASE n = 0
    BY <1>1, <1>2, <1>3
<1>4. CASE n # 0
  <2> HIDE DEF n
  <2>1. PICK j \in Nat, r \in 1..5 : n = 5 * j + r
      BY <1>2, <1>4, Places
  <2>2. 5 * j + r \in 1..n
      BY <2>1
  <2>3. q + j + 1 \in 1..Len(sent)
      BY <2>2 DEF Carries, n
  <2>4. n <= 5 * (Len(sent) - q)
      BY <1>1, <2>1, <2>3
  <2> QED
      BY <1>2, <2>4
<1> QED
    BY <1>3, <1>4

\* The numbers of the reader.
LEMMA Position ==
    ASSUME TypeOK, WireInv
    PROVE  \E q \in 0..Len(sent) :
               /\ got = 5 * q + Len(buffer) /\ Len(buffer) \in 0..4
               /\ Carries(q)
               /\ conn \in {"connecting", "open", "closed"} => got + Len(wire) = 5 * Len(sent)
               /\ got \div 5 = q /\ got % 5 = Len(buffer)
               /\ Len(buffer) # 0 => q < Len(sent)
<1>1. PICK q \in 0..Len(sent) :
        /\ got = 5 * q + Len(buffer)
        /\ Carries(q)
        /\ conn \in {"connecting", "open", "closed"} => got + Len(wire) = 5 * Len(sent)
    BY DEF WireInv
<1>2. /\ Len(buffer) \in 0..4 /\ Len(wire) \in Nat /\ Len(sent) \in Nat /\ q \in Nat
  <2>1. /\ buffer \in Seq(Symbol) /\ wire \in Seq(Symbol) /\ sent \in Seq(Event)
      BY DEF TypeOK
  <2>2. Len(buffer) \in Nat /\ Len(wire) \in Nat /\ Len(sent) \in Nat
      BY <2>1, LenProperties
  <2>3. Len(buffer) < 5
      BY DEF TypeOK
  <2>4. Len(buffer) \in 0..4
    <3> DEFINE m == Len(buffer)
    <3>1. m \in Nat /\ m < 5
        BY <2>2, <2>3
    <3> HIDE DEF m
    <3>2. m \in 0..4
        BY <3>1
    <3> QED
        BY <3>2 DEF m
  <2>5. q \in Nat
      BY <2>2
  <2> QED
      BY <2>2, <2>4, <2>5
<1>3. Len(buffer) + Len(wire) <= 5 * (Len(sent) - q)
    BY <1>1, CarriesLen
<1>4. got \div 5 = q /\ got % 5 = Len(buffer)
  <2> DEFINE m == Len(buffer)
  <2>1. m \in 0..4 /\ got = 5 * q + m
      BY <1>1, <1>2
  <2> HIDE DEF m
  <2>2. (5 * q + m) \div 5 = q /\ (5 * q + m) % 5 = m
      BY <1>2, <2>1
  <2> QED
      BY <2>1, <2>2 DEF m
<1>5. Len(buffer) # 0 => q < Len(sent)
    BY <1>2, <1>3
<1> QED
    BY <1>1, <1>2, <1>4, <1>5

\* No more events have arrived than were sent.
LEMMA ArrivedSent ==
    ASSUME TypeOK, WireInv
    PROVE  Arrived \in 0..Len(sent)
<1>1. PICK q \in 0..Len(sent) :
        /\ Len(buffer) \in 0..4
        /\ got \div 5 = q /\ got % 5 = Len(buffer)
        /\ Len(buffer) # 0 => q < Len(sent)
    BY Position
<1>2. Arrived = q \/ (Arrived = q + 1 /\ Len(buffer) >= 3)
    BY <1>1 DEF Arrived
<1>3. Len(sent) \in Nat
    BY DEF TypeOK
<1> QED
    BY <1>1, <1>2, <1>3

\* A part of the text that is lost at its end leaves the rest as it was.
LEMMA CarriesCut ==
    ASSUME TypeOK, NEW q \in Nat, Carries(q), NEW n \in 0..Len(wire),
           wire' = SubSeq(wire, 1, n), UNCHANGED <<sent, buffer>>
    PROVE  Carries(q)' /\ wire' \in Seq(Symbol)
<1> DEFINE w == SubSeq(wire, 1, n)
<1>1. buffer \in Seq(Symbol) /\ wire \in Seq(Symbol)
    BY DEF TypeOK
<1>2. w \in Seq(Symbol) /\ Len(w) = n /\ \A i \in 1..n : w[i] = wire[i]
    BY <1>1
<1> HIDE DEF w
<1>3. /\ Len(buffer \o w) = Len(buffer) + n
      /\ Len(buffer \o wire) = Len(buffer) + Len(wire)
      /\ \A i \in 1..Len(buffer) + n : (buffer \o w)[i] = (buffer \o wire)[i]
  <2>1. /\ Len(buffer \o w) = Len(buffer) + n
        /\ \A i \in 1..Len(buffer) + n : (buffer \o w)[i] =
               IF i <= Len(buffer) THEN buffer[i] ELSE w[i - Len(buffer)]
      BY <1>1, <1>2, ConcatProperties
  <2>2. /\ Len(buffer \o wire) = Len(buffer) + Len(wire)
        /\ \A i \in 1..Len(buffer) + Len(wire) : (buffer \o wire)[i] =
               IF i <= Len(buffer) THEN buffer[i] ELSE wire[i - Len(buffer)]
      BY <1>1, ConcatProperties
  <2>3. Len(buffer) \in Nat /\ Len(wire) \in Nat /\ n <= Len(wire) /\ n \in Nat
      BY <1>1, LenProperties
  <2>4. ASSUME NEW i \in 1..Len(buffer) + n
        PROVE  (buffer \o w)[i] = (buffer \o wire)[i]
    <3>1. i \in 1..Len(buffer) + Len(wire) /\ (i > Len(buffer) => i - Len(buffer) \in 1..n)
        BY <2>3
    <3>2. CASE i <= Len(buffer)
        BY <2>1, <2>2, <3>1, <3>2
    <3>3. CASE i > Len(buffer)
      <4>1. (buffer \o w)[i] = w[i - Len(buffer)]
          BY <2>1, <2>3, <3>3
      <4>2. (buffer \o wire)[i] = wire[i - Len(buffer)]
          BY <2>2, <2>3, <3>1, <3>3
      <4> QED
          BY <1>2, <3>1, <3>3, <4>1, <4>2
    <3>4. i <= Len(buffer) \/ i > Len(buffer)
        BY <2>3
    <3> QED
        BY <3>2, <3>3, <3>4
  <2> QED
      BY <2>1, <2>2, <2>4
<1>4. wire' = w /\ buffer' = buffer /\ sent' = sent
    BY DEF w
<1>5. ASSUME NEW j \in Nat, NEW r \in 1..5, 5 * j + r \in 1..Len(buffer \o w)
      PROVE  /\ q + j + 1 \in 1..Len(sent)
             /\ (buffer \o w)[5 * j + r] = FormatSse(sent[q + j + 1])[r]
  <2>1. 5 * j + r \in 1..Len(buffer) + n /\ 5 * j + r \in 1..Len(buffer \o wire)
    <3>1. Len(buffer) \in Nat /\ Len(wire) \in Nat
        BY <1>1, LenProperties
    <3> QED
        BY <1>3, <1>5, <3>1
  <2>2. /\ q + j + 1 \in 1..Len(sent)
        /\ (buffer \o wire)[5 * j + r] = FormatSse(sent[q + j + 1])[r]
      BY <2>1 DEF Carries
  <2>3. (buffer \o w)[5 * j + r] = (buffer \o wire)[5 * j + r]
      BY <1>3, <2>1
  <2> QED
      BY <2>2, <2>3
<1>6. Carries(q)'
    BY <1>4, <1>5 DEF Carries
<1> QED
    BY <1>2, <1>4, <1>6

\* One more event is sent after the others, or lost with the connection.
LEMMA CarriesMore ==
    ASSUME TypeOK, NEW q \in 0..Len(sent), Carries(q), NEW e \in Event,
           conn = "open" => Len(buffer) + Len(wire) = 5 * (Len(sent) - q),
           sent' = Append(sent, e), wire' = OnWire(e), UNCHANGED buffer
    PROVE  /\ Carries(q)'
           /\ wire' \in Seq(Symbol)
           /\ Len(wire') = IF conn = "open" THEN Len(wire) + 5 ELSE Len(wire)
<1> DEFINE f == FormatSse(e)
           s == Append(sent, e)
           w == OnWire(e)
<1>1. /\ buffer \in Seq(Symbol) /\ wire \in Seq(Symbol) /\ sent \in Seq(Event)
      /\ Len(buffer) \in Nat /\ Len(wire) \in Nat /\ Len(sent) \in Nat
    BY LenProperties DEF TypeOK
<1>2. f \in Seq(Symbol) /\ Len(f) = 5
  <2>1. Len(f) = 5
      BY DEF FormatSse
  <2> QED
      BY <2>1, FrameType
<1> HIDE DEF f
<1>3. /\ Len(s) = Len(sent) + 1 /\ s[Len(sent) + 1] = e
      /\ \A i \in 1..Len(sent) : s[i] = sent[i]
    BY <1>1, AppendProperties
<1> HIDE DEF s
<1>4. w = IF conn = "open" THEN wire \o f ELSE wire
    BY DEF OnWire, f
<1> HIDE DEF w
<1>5. /\ w \in Seq(Symbol)
      /\ Len(w) = IF conn = "open" THEN Len(wire) + 5 ELSE Len(wire)
  <2>1. wire \o f \in Seq(Symbol) /\ Len(wire \o f) = Len(wire) + Len(f)
      BY <1>1, <1>2, ConcatProperties
  <2>2. Len(wire) + Len(f) = Len(wire) + 5
      BY <1>2
  <2> QED
      BY <1>1, <1>4, <2>1, <2>2, Zenon
<1>6. /\ Len(buffer \o w) = Len(buffer) + Len(w)
      /\ \A i \in 1..Len(buffer) + Len(w) : (buffer \o w)[i] =
             IF i <= Len(buffer) THEN buffer[i] ELSE w[i - Len(buffer)]
    BY <1>1, <1>5, ConcatProperties
<1>7. /\ Len(buffer \o wire) = Len(buffer) + Len(wire)
      /\ \A i \in 1..Len(buffer) + Len(wire) : (buffer \o wire)[i] =
             IF i <= Len(buffer) THEN buffer[i] ELSE wire[i - Len(buffer)]
    BY <1>1, ConcatProperties
<1>8. conn = "open" => \A i \in 1..Len(wire) + 5 :
          w[i] = IF i <= Len(wire) THEN wire[i] ELSE f[i - Len(wire)]
  <2>1. \A i \in 1..Len(wire) + Len(f) :
            (wire \o f)[i] = IF i <= Len(wire) THEN wire[i] ELSE f[i - Len(wire)]
      BY <1>1, <1>2, ConcatProperties
  <2> QED
      BY <1>2, <1>4, <2>1
<1>9. ASSUME NEW i \in 1..Len(buffer) + Len(wire)
      PROVE  (buffer \o w)[i] = (buffer \o wire)[i]
  <2>1. i \in 1..Len(buffer) + Len(w) /\ (i > Len(buffer) => i - Len(buffer) \in 1..Len(wire))
      BY <1>1, <1>5
  <2>2. i > Len(buffer) => w[i - Len(buffer)] = wire[i - Len(buffer)]
    <3>1. CASE conn = "open"
      <4>1. \A k \in 1..Len(wire) : k \in 1..Len(wire) + 5 /\ k <= Len(wire)
          BY <1>1
      <4>2. \A k \in 1..Len(wire) : w[k] = wire[k]
          BY <1>8, <3>1, <4>1
      <4> QED
          BY <2>1, <4>2
    <3>2. CASE conn # "open"
        BY <1>4, <3>2
    <3> QED
        BY <3>1, <3>2
  <2>3. CASE i <= Len(buffer)
      BY <1>6, <1>7, <2>1, <2>3
  <2>4. CASE i > Len(buffer)
    <3>1. (buffer \o w)[i] = w[i - Len(buffer)]
        BY <1>1, <1>6, <2>1, <2>4
    <3>2. (buffer \o wire)[i] = wire[i - Len(buffer)]
        BY <1>1, <1>7, <2>4
    <3> QED
        BY <2>2, <2>4, <3>1, <3>2
  <2>5. i <= Len(buffer) \/ i > Len(buffer)
      BY <1>1
  <2> QED
      BY <2>3, <2>4, <2>5
<1>10. ASSUME NEW j \in Nat, NEW r \in 1..5, 5 * j + r \in 1..Len(buffer \o w)
       PROVE  /\ q + j + 1 \in 1..Len(s)
              /\ (buffer \o w)[5 * j + r] = FormatSse(s[q + j + 1])[r]
  <2>1. CASE 5 * j + r <= Len(buffer) + Len(wire)
    <3>1. 5 * j + r \in 1..Len(buffer) + Len(wire) /\ 5 * j + r \in 1..Len(buffer \o wire)
        BY <1>1, <1>7, <2>1
    <3>2. /\ q + j + 1 \in 1..Len(sent)
          /\ (buffer \o wire)[5 * j + r] = FormatSse(sent[q + j + 1])[r]
        BY <3>1 DEF Carries
    <3>3. (buffer \o w)[5 * j + r] = (buffer \o wire)[5 * j + r]
        BY <1>9, <3>1
    <3>4. q + j + 1 \in 1..Len(s) /\ s[q + j + 1] = sent[q + j + 1]
        BY <1>1, <1>3, <3>2
    <3> QED
        BY <3>2, <3>3, <3>4
  <2>2. CASE 5 * j + r > Len(buffer) + Len(wire)
    <3>1. conn = "open"
        BY <1>1, <1>5, <1>6, <1>10, <2>2
    <3>2. Len(buffer) + Len(wire) = 5 * (Len(sent) - q) /\ Len(w) = Len(wire) + 5
        BY <1>5, <3>1
    <3>3. j = Len(sent) - q /\ q + j + 1 = Len(sent) + 1
      <4> DEFINE d == Len(sent) - q
      <4>1. d \in Nat /\ 5 * j + r > 5 * d /\ 5 * j + r <= 5 * d + 5
        <5>1. 5 * j + r <= Len(buffer) + Len(w)
            BY <1>1, <1>5, <1>6, <1>10
        <5> QED
            BY <1>1, <2>2, <3>2, <5>1
      <4> HIDE DEF d
      <4>2. j = d
          BY <4>1
      <4> QED
          BY <1>1, <4>2 DEF d
    <3>4. (buffer \o w)[5 * j + r] = f[r]
      <4> DEFINE i == 5 * j + r
      <4>1. /\ i \in 1..Len(buffer) + Len(w) /\ i > Len(buffer)
            /\ i - Len(buffer) \in 1..Len(wire) + 5 /\ i - Len(buffer) > Len(wire)
            /\ (i - Len(buffer)) - Len(wire) = r
          BY <1>1, <1>6, <1>10, <2>2, <3>2, <3>3
      <4> HIDE DEF i
      <4>2. (buffer \o w)[i] = w[i - Len(buffer)]
          BY <1>1, <1>6, <4>1
      <4>3. w[i - Len(buffer)] = f[(i - Len(buffer)) - Len(wire)]
        <5> DEFINE k == i - Len(buffer)
        <5>1. k \in 1..Len(wire) + 5 /\ ~(k <= Len(wire))
            BY <1>1, <4>1
        <5> HIDE DEF k
        <5>2. w[k] = f[k - Len(wire)]
            BY <1>8, <3>1, <5>1
        <5> QED
            BY <5>2 DEF k
      <4>4. (buffer \o w)[i] = f[r]
          BY <4>1, <4>2, <4>3
      <4> QED
          BY <4>4 DEF i
    <3>5. q + j + 1 \in 1..Len(s)
        BY <1>1, <1>3, <3>3
    <3>6. s[q + j + 1] = e
        BY <1>3, <3>3
    <3> QED
        BY <3>4, <3>5, <3>6 DEF f
  <2>3. 5 * j + r <= Len(buffer) + Len(wire) \/ 5 * j + r > Len(buffer) + Len(wire)
      BY <1>1
  <2> QED
      BY <2>1, <2>2, <2>3
<1>11. wire' = w /\ sent' = s /\ buffer' = buffer
    BY DEF w, s
<1>12. Carries(q)'
    BY <1>10, <1>11 DEF Carries
<1> QED
    BY <1>5, <1>11, <1>12

\* A part of a sequence.
LEMMA Slice ==
    ASSUME NEW S, NEW s \in Seq(S), NEW p \in Nat, NEW k \in Nat, p + k <= Len(s)
    PROVE  /\ SubSeq(s, p + 1, p + k) \in Seq(S)
           /\ Len(SubSeq(s, p + 1, p + k)) = k
           /\ \A i \in 1..k : SubSeq(s, p + 1, p + k)[i] = s[p + i]
<1> DEFINE u == p + 1
           v == p + k
<1>1. u \in Int /\ v \in Int /\ v - u + 1 = k /\ (u <= v <=> k # 0)
    OBVIOUS
<1>2. \A i \in u..v : s[i] \in S
  <2>1. \A i \in u..v : i \in 1..Len(s)
      OBVIOUS
  <2> HIDE DEF u, v
  <2> QED
      BY <2>1, ElementOfSeq
<1>3. \A i \in 1..k : u + i - 1 = p + i
    OBVIOUS
<1> HIDE DEF u, v
<1>4. /\ SubSeq(s, u, v) \in Seq(S)
      /\ Len(SubSeq(s, u, v)) = IF u <= v THEN v - u + 1 ELSE 0
      /\ \A i \in 1..v - u + 1 : SubSeq(s, u, v)[i] = s[u + i - 1]
    BY <1>1, <1>2, SubSeqProperties
<1>5. /\ SubSeq(s, u, v) \in Seq(S)
      /\ Len(SubSeq(s, u, v)) = k
      /\ \A i \in 1..k : SubSeq(s, u, v)[i] = s[p + i]
    BY <1>1, <1>3, <1>4
<1> QED
    BY <1>5 DEF u, v

LEMMA Shift ==
    ASSUME NEW B \in Nat, NEW W \in Nat, NEW n \in 1..W, NEW d \in Nat, NEW m \in 0..4,
           B + n = 5 * d + m, NEW i \in 1..m + (W - n), i > m
    PROVE  /\ i - m \in 1..W - n /\ n + (i - m) = (5 * d + i) - B
           /\ 5 * d + i \in 1..B + W /\ ~(5 * d + i <= B) /\ ~(i <= m)
    OBVIOUS

\* The text in the buffer and on the wire, without the events cut off.
LEMMA CarriesOn ==
    ASSUME TypeOK, NEW q \in 0..Len(sent), Carries(q),
           NEW n \in 1..Len(wire), NEW d \in Nat, NEW m \in 0..4,
           Len(buffer) + n = 5 * d + m,
           buffer' = Rest(buffer \o SubSeq(wire, 1, n)),
           wire' = SubSeq(wire, n + 1, Len(wire)), UNCHANGED sent
    PROVE  /\ q + d <= Len(sent)
           /\ Parsed(buffer \o SubSeq(wire, 1, n)) = SubSeq(sent, q + 1, q + d)
           /\ buffer' \in Seq(Symbol) /\ Len(buffer') = m
           /\ wire' \in Seq(Symbol) /\ Len(wire') = Len(wire) - n
           /\ Carries(q + d)'
<1> DEFINE w == SubSeq(wire, 1, n)
           v == SubSeq(wire, n + 1, Len(wire))
           t == buffer \o w
           a == buffer \o wire
           s == SubSeq(sent, q + 1, Len(sent))
           b == Rest(t)
<1>1. /\ buffer \in Seq(Symbol) /\ wire \in Seq(Symbol) /\ sent \in Seq(Event)
      /\ Len(buffer) \in Nat /\ Len(wire) \in Nat /\ Len(sent) \in Nat
    BY LenProperties DEF TypeOK
<1>2. /\ w \in Seq(Symbol) /\ Len(w) = n /\ \A i \in 1..n : w[i] = wire[i]
      /\ v \in Seq(Symbol) /\ Len(v) = Len(wire) - n
      /\ \A i \in 1..Len(wire) - n : v[i] = wire[n + i]
    BY <1>1
<1>3. s \in Seq(Event) /\ Len(s) = Len(sent) - q /\ \A i \in 1..Len(sent) - q : s[i] = sent[q + i]
    BY <1>1
<1>4. wire' = v /\ buffer' = b /\ sent' = sent
    OBVIOUS
<1> HIDE DEF w, v, s
<1>5. /\ t \in Seq(Symbol) /\ Len(t) = Len(buffer) + n
      /\ \A i \in 1..Len(buffer) + n : t[i] =
             IF i <= Len(buffer) THEN buffer[i] ELSE w[i - Len(buffer)]
    BY <1>1, <1>2, ConcatProperties
<1>6. /\ a \in Seq(Symbol) /\ Len(a) = Len(buffer) + Len(wire)
      /\ \A i \in 1..Len(buffer) + Len(wire) : a[i] =
             IF i <= Len(buffer) THEN buffer[i] ELSE wire[i - Len(buffer)]
    BY <1>1, ConcatProperties
<1> HIDE DEF a, b, t
<1>7. ASSUME NEW i \in 1..Len(buffer) + n
      PROVE  t[i] = a[i]
  <2>1. i \in 1..Len(buffer) + Len(wire) /\ (i > Len(buffer) => i - Len(buffer) \in 1..n)
      BY <1>1
  <2>2. CASE i <= Len(buffer)
      BY <1>5, <1>6, <2>1, <2>2
  <2>3. CASE i > Len(buffer)
    <3>1. t[i] = w[i - Len(buffer)]
        BY <1>1, <1>5, <2>3
    <3>2. a[i] = wire[i - Len(buffer)]
        BY <1>1, <1>6, <2>1, <2>3
    <3> QED
        BY <1>2, <2>1, <2>3, <3>1, <3>2
  <2>4. i <= Len(buffer) \/ i > Len(buffer)
      BY <1>1
  <2> QED
      BY <2>2, <2>3, <2>4
<1>8. ASSUME NEW j \in Nat, NEW r \in 1..5, 5 * j + r \in 1..Len(a)
      PROVE  /\ q + j + 1 \in 1..Len(sent)
             /\ a[5 * j + r] = FormatSse(sent[q + j + 1])[r]
    BY <1>8 DEF Carries, a
<1>9. Begins(t, s)
  <2> SUFFICES ASSUME NEW j \in Nat, NEW r \in 1..5, 5 * j + r \in 1..Len(t)
               PROVE  j + 1 \in 1..Len(s) /\ t[5 * j + r] = FormatSse(s[j + 1])[r]
      BY DEF Begins
  <2>1. 5 * j + r \in 1..Len(buffer) + n /\ 5 * j + r \in 1..Len(a)
      BY <1>1, <1>5, <1>6
  <2>2. q + j + 1 \in 1..Len(sent) /\ a[5 * j + r] = FormatSse(sent[q + j + 1])[r]
      BY <1>8, <2>1
  <2>3. t[5 * j + r] = a[5 * j + r]
      BY <1>7, <2>1
  <2>4. j + 1 \in 1..Len(sent) - q /\ q + (j + 1) = q + j + 1
      BY <1>1, <2>2
  <2>5. s[j + 1] = sent[q + j + 1] /\ j + 1 \in 1..Len(s)
    <3> DEFINE k == j + 1
    <3>1. k \in 1..Len(sent) - q /\ q + k = q + j + 1
        BY <2>4
    <3> HIDE DEF k
    <3>2. s[k] = sent[q + k] /\ k \in 1..Len(s)
        BY <1>3, <3>1
    <3>3. s[k] = sent[q + j + 1] /\ k \in 1..Len(s)
        BY <3>1, <3>2
    <3> QED
        BY <3>3 DEF k
  <2> QED
      BY <2>2, <2>3, <2>5
<1>10. Len(t) = 5 * d + m
    BY <1>5
<1>11. /\ d <= Len(s) /\ Parsed(t) = SubSeq(s, 1, d)
       /\ b \in Seq(Symbol) /\ Len(b) = m
       /\ \A r \in 1..m : b[r] = t[5 * d + r]
  <2>1. d <= Len(s) /\ Parsed(t) = SubSeq(s, 1, d)
      BY <1>3, <1>5, <1>9, <1>10, CutEvents
  <2>2. Rest(t) \in Seq(Symbol) /\ Len(Rest(t)) = m /\ \A r \in 1..m : Rest(t)[r] = t[5 * d + r]
      BY <1>3, <1>5, <1>9, <1>10, CutRest
  <2> QED
      BY <2>1, <2>2 DEF b
<1>12. q + d <= Len(sent)
    BY <1>1, <1>3, <1>11
<1>13. SubSeq(s, 1, d) = SubSeq(sent, q + 1, q + d)
  <2> DEFINE x == SubSeq(s, 1, d)
             y == SubSeq(sent, q + 1, q + d)
  <2>1. x \in Seq(Event) /\ Len(x) = d /\ \A i \in 1..d : x[i] = s[i]
      BY <1>3, <1>11
  <2>2. y \in Seq(Event) /\ Len(y) = d /\ \A i \in 1..d : y[i] = sent[q + i]
    <3>1. q \in Nat
        BY <1>1
    <3> QED
        BY <1>1, <1>12, <3>1, Slice
  <2>3. \A i \in 1..d : s[i] = sent[q + i]
      BY <1>1, <1>3, <1>12
  <2> HIDE DEF x, y
  <2>4. x = y
      BY <2>1, <2>2, <2>3, SeqEqual
  <2> QED
      BY <2>4 DEF x, y
<1>14. /\ Len(b \o v) = m + (Len(wire) - n)
       /\ \A i \in 1..m + (Len(wire) - n) : (b \o v)[i] = IF i <= m THEN b[i] ELSE v[i - m]
  <2>1. /\ Len(b \o v) = Len(b) + Len(v)
        /\ \A i \in 1..Len(b) + Len(v) : (b \o v)[i] =
               IF i <= Len(b) THEN b[i] ELSE v[i - Len(b)]
    <3>1. b \in Seq(Symbol) /\ v \in Seq(Symbol)
        BY <1>2, <1>11
    <3> QED
        BY <3>1, ConcatProperties
  <2>2. Len(b) = m /\ Len(v) = Len(wire) - n
      BY <1>2, <1>11
  <2> QED
      BY <2>1, <2>2
<1>15. ASSUME NEW i \in 1..m + (Len(wire) - n)
       PROVE  5 * d + i \in 1..Len(a) /\ (b \o v)[i] = a[5 * d + i]
  <2>1. 5 * d + i \in 1..Len(a)
      BY <1>1, <1>6
  <2>2. CASE i <= m
    <3>1. i \in 1..m /\ 5 * d + i \in 1..Len(buffer) + n
        BY <1>1, <2>2
    <3>2. (b \o v)[i] = b[i] /\ b[i] = t[5 * d + i]
        BY <1>11, <1>14, <2>2, <3>1
    <3> QED
        BY <1>7, <2>1, <3>1, <3>2
  <2>3. CASE i > m
    <3> DEFINE k == 5 * d + i
    <3>1. /\ i - m \in 1..Len(wire) - n /\ n + (i - m) = k - Len(buffer)
          /\ k \in 1..Len(buffer) + Len(wire) /\ ~(k <= Len(buffer)) /\ ~(i <= m)
      <4> DEFINE B == Len(buffer)
                 W == Len(wire)
      <4>1. /\ B \in Nat /\ W \in Nat /\ n \in 1..W /\ B + n = 5 * d + m
            /\ i \in 1..m + (W - n) /\ i > m
          BY <1>1, <2>3
      <4> HIDE DEF B, W
      <4>2. /\ i - m \in 1..W - n /\ n + (i - m) = (5 * d + i) - B
            /\ 5 * d + i \in 1..B + W /\ ~(5 * d + i <= B) /\ ~(i <= m)
          BY <4>1, Shift
      <4> QED
          BY <4>2 DEF B, W
    <3>2. (b \o v)[i] = v[i - m]
        BY <1>14, <3>1
    <3>3. v[i - m] = wire[n + (i - m)]
        BY <1>2, <3>1
    <3> HIDE DEF k
    <3>4. a[k] = wire[k - Len(buffer)]
        BY <1>6, <3>1
    <3>5. (b \o v)[i] = a[k]
        BY <3>1, <3>2, <3>3, <3>4
    <3> QED
        BY <2>1, <3>5 DEF k
  <2>4. i <= m \/ i > m
      OBVIOUS
  <2> QED
      BY <2>2, <2>3, <2>4
<1>16. ASSUME NEW j \in Nat, NEW r \in 1..5, 5 * j + r \in 1..Len(b \o v)
       PROVE  /\ (q + d) + j + 1 \in 1..Len(sent)
              /\ (b \o v)[5 * j + r] = FormatSse(sent[(q + d) + j + 1])[r]
  <2>1. 5 * j + r \in 1..m + (Len(wire) - n)
      BY <1>14, <1>16
  <2> DEFINE k == d + j
  <2>2. k \in Nat /\ 5 * d + (5 * j + r) = 5 * k + r /\ q + k + 1 = (q + d) + j + 1
      BY <1>1
  <2> HIDE DEF k
  <2>3. 5 * k + r \in 1..Len(a) /\ (b \o v)[5 * j + r] = a[5 * k + r]
    <3>1. 5 * d + (5 * j + r) \in 1..Len(a)
          /\ (b \o v)[5 * j + r] = a[5 * d + (5 * j + r)]
        BY <1>15, <2>1
    <3> QED
        BY <2>2, <3>1
  <2>4. q + k + 1 \in 1..Len(sent) /\ a[5 * k + r] = FormatSse(sent[q + k + 1])[r]
      BY <1>8, <2>2, <2>3
  <2> QED
      BY <2>2, <2>3, <2>4
<1>17. Carries(q + d)'
    BY <1>4, <1>16 DEF Carries
<1> QED
    BY <1>2, <1>4, <1>11, <1>12, <1>13, <1>17 DEF t, w

-----------------------------------------------------------------------------
(***************************************************************************)
(* The steps of the API and of the network                                 *)
(***************************************************************************)
Flowing == {"connecting", "open", "closed"}

LEMMA ArrivedKept ==
    ASSUME UNCHANGED <<got, outcome>>, outcome # "pending" => conn' = conn
    PROVE  Arrived' = Arrived
    BY DEF Arrived

\* What has arrived of the events stays what it was, whatever follows it.
LEMMA ChunksKept ==
    ASSUME TypeOK, WireInv, ReaderIsFaithful, Arrived' = Arrived,
           UNCHANGED <<handled, shown>>,
           sent' \in Seq(Event), Len(sent) <= Len(sent'),
           \A i \in 1..Len(sent) : sent'[i] = sent[i]
    PROVE  ChunksAreInvisible'
<1> DEFINE n == Arrived
<1>1. n \in 0..Len(sent)
    BY ArrivedSent
<1>2. sent \in Seq(Event)
    BY DEF TypeOK
<1>3. SubSeq(sent', 1, n) = SubSeq(sent, 1, n)
  <2> HIDE DEF n
  <2> DEFINE t == sent'
             x == SubSeq(t, 1, n)
             y == SubSeq(sent, 1, n)
  <2>1. t \in Seq(Event) /\ n \in Nat /\ n <= Len(sent) /\ n <= Len(t)
        /\ Len(sent) \in Nat /\ Len(t) \in Nat
      BY <1>1, <1>2, LenProperties
  <2>2. \A i \in 1..Len(sent) : t[i] = sent[i]
      OBVIOUS
  <2> HIDE DEF t
  <2>3. /\ x \in Seq(Event) /\ Len(x) = n /\ \A i \in 1..n : x[i] = t[i]
        /\ y \in Seq(Event) /\ Len(y) = n /\ \A i \in 1..n : y[i] = sent[i]
      BY <1>2, <2>1
  <2> HIDE DEF x, y
  <2>4. \A i \in 1..n : x[i] = y[i]
      BY <2>1, <2>2, <2>3
  <2>5. x = y
      BY <2>3, <2>4, SeqEqual
  <2> QED
      BY <2>5 DEF x, y, t
<1>4. handled = SubSeq(sent, 1, n) /\ shown = WithoutRepeats(Select(handled, Thought))
    BY DEF ReaderIsFaithful, ChunksAreInvisible
<1>5. n' = n
    OBVIOUS
<1> HIDE DEF n
<1>6. handled' = SubSeq(sent', 1, n')
    BY <1>3, <1>4, <1>5
<1>7. shown' = WithoutRepeats(Select(handled', Thought))
    BY <1>4
<1> QED
    BY <1>6, <1>7 DEF ChunksAreInvisible, n

\* A step that leaves the text alone and does not mend the connection.
LEMMA TextKept ==
    ASSUME TypeOK, WireInv, UNCHANGED <<sent, wire, buffer, got>>,
           conn' \in Flowing => conn \in Flowing
    PROVE  WireInv'
<1>1. PICK q \in 0..Len(sent) :
        /\ got = 5 * q + Len(buffer)
        /\ Carries(q)
        /\ conn \in {"connecting", "open", "closed"} => got + Len(wire) = 5 * Len(sent)
    BY DEF WireInv
<1>2. Carries(q)'
    BY <1>1 DEF Carries
<1>3. /\ q \in 0..Len(sent') /\ got' = 5 * q + Len(buffer')
      /\ conn' \in {"connecting", "open", "closed"} => got' + Len(wire') = 5 * Len(sent')
    BY <1>1 DEF Flowing
<1> QED
    BY <1>2, <1>3 DEF WireInv

\* The connection loses what is on its way, from some place on.
LEMMA TextCut ==
    ASSUME TypeOK, WireInv, NEW n \in 0..Len(wire), wire' = SubSeq(wire, 1, n),
           UNCHANGED <<sent, buffer, got>>, conn' \notin Flowing
    PROVE  WireInv' /\ wire' \in Seq(Symbol)
<1>1. PICK q \in 0..Len(sent) : got = 5 * q + Len(buffer) /\ Carries(q)
    BY DEF WireInv
<1>2. q \in Nat
    BY LenProperties DEF TypeOK
<1>3. Carries(q)' /\ wire' \in Seq(Symbol)
    BY <1>1, <1>2, CarriesCut
<1>4. q \in 0..Len(sent') /\ got' = 5 * q + Len(buffer')
    BY <1>1
<1> QED
    BY <1>3, <1>4 DEF WireInv, Flowing

LEMMA LoseAll ==
    ASSUME TypeOK
    PROVE  0 \in 0..Len(wire) /\ <<>> = SubSeq(wire, 1, 0)
<1>1. Len(wire) \in Nat
    BY LenProperties DEF TypeOK
<1> QED
    BY <1>1, SubSeqEmpty

LEMMA AcceptKeeps == IInv /\ Accept => IInv'
<1> SUFFICES ASSUME IInv, Accept PROVE IInv'
    OBVIOUS
<1> USE DEF IInv
<1>1. /\ conn = "connecting" /\ api = "starting" /\ conn' = "open" /\ outcome = "pending"
      /\ UNCHANGED <<api, kept, sent, wire, buffer, got, handled, shown, outcome>>
    BY DEF Accept, apiVars, readerVars, PageInv
<1>2. TypeOK'
    BY <1>1 DEF TypeOK
<1>3. SentInv'
    BY <1>1 DEF SentInv
<1>4. WireInv'
    BY <1>1, TextKept DEF Flowing
<1>5. ChunksAreInvisible'
  <2>1. sent' \in Seq(Event) /\ Len(sent) <= Len(sent')
      BY <1>1, LenProperties DEF TypeOK
  <2> QED
      BY <1>1, <2>1, ArrivedKept, ChunksKept
<1> QED
    BY <1>1, <1>2, <1>3, <1>4, <1>5 DEF PageInv, ReaderIsFaithful, UndisturbedIsTrue

LEMMA RefuseKeeps == IInv /\ Refuse => IInv'
<1> SUFFICES ASSUME IInv, Refuse PROVE IInv'
    OBVIOUS
<1> USE DEF IInv
<1>1. /\ conn = "connecting" /\ api = "starting" /\ conn' = "refused" /\ outcome = "pending"
      /\ api' = "over" /\ kept' = "rolledback" /\ sent = <<>>
      /\ UNCHANGED <<sent, wire, buffer, got, handled, shown, outcome>>
    BY DEF Refuse, RollBack, readerVars, PageInv, SentInv
<1>2. TypeOK'
    BY <1>1 DEF TypeOK
<1>3. SentInv'
  <2>1. \A i : i \notin 1..Len(sent')
      BY <1>1
  <2> QED
      BY <1>1, <2>1 DEF SentInv
<1>4. WireInv'
    BY <1>1, TextKept DEF Flowing
<1>5. ChunksAreInvisible'
  <2>1. sent' \in Seq(Event) /\ Len(sent) <= Len(sent')
      BY <1>1, LenProperties DEF TypeOK
  <2> QED
      BY <1>1, <2>1, ArrivedKept, ChunksKept
<1> QED
    BY <1>1, <1>2, <1>3, <1>4, <1>5 DEF PageInv, ReaderIsFaithful, UndisturbedIsTrue

LEMMA SaveMessageKeeps == IInv /\ SaveMessage => IInv'
<1> SUFFICES ASSUME IInv, SaveMessage PROVE IInv'
    OBVIOUS
<1> USE DEF IInv
<1>1. /\ conn # "connecting" /\ api = "starting" /\ api' = "thinking"
      /\ UNCHANGED <<kept, sent, conn, wire, buffer, got, handled, shown, outcome>>
    BY DEF SaveMessage, readerVars
<1>2. TypeOK'
    BY <1>1 DEF TypeOK
<1>3. SentInv'
  <2>1. sent = <<>> /\ \A i : i \notin 1..Len(sent')
      BY <1>1 DEF SentInv
  <2> QED
      BY <1>1, <2>1 DEF SentInv
<1>4. WireInv'
    BY <1>1, TextKept
<1>5. ChunksAreInvisible'
  <2>1. sent' \in Seq(Event) /\ Len(sent) <= Len(sent')
      BY <1>1, LenProperties DEF TypeOK
  <2> QED
      BY <1>1, <2>1, ArrivedKept, ChunksKept
<1>6. PageInv'
    BY <1>1 DEF PageInv
<1>7. conn' # "closed"
    BY <1>1 DEF SentInv
<1> QED
    BY <1>2, <1>3, <1>4, <1>5, <1>6, <1>7 DEF ReaderIsFaithful, UndisturbedIsTrue

LEMMA CommitKeeps == IInv /\ Commit => IInv'
<1> SUFFICES ASSUME IInv, Commit PROVE IInv'
    OBVIOUS
<1> USE DEF IInv
<1>1. /\ api = "thinking" /\ api' = "recording" /\ kept' = "committed"
      /\ UNCHANGED <<sent, conn, wire, buffer, got, handled, shown, outcome>>
    BY DEF Commit, readerVars
<1>2. TypeOK'
    BY <1>1 DEF TypeOK
<1>3. SentInv'
  <2>1. \A i \in 1..Len(sent) : sent[i] \notin {"done", "error"}
      BY <1>1, Zenon DEF SentInv
  <2>2. conn \notin {"connecting", "refused", "closed"}
      BY <1>1 DEF SentInv
  <2> QED
      BY <1>1, <2>1, <2>2 DEF SentInv
<1>4. WireInv'
    BY <1>1, TextKept
<1>5. ChunksAreInvisible'
  <2>1. sent' \in Seq(Event) /\ Len(sent) <= Len(sent')
      BY <1>1, LenProperties DEF TypeOK
  <2> QED
      BY <1>1, <2>1, ArrivedKept, ChunksKept
<1>6. PageInv'
    BY <1>1 DEF PageInv
<1>7. conn' # "closed"
    BY <1>1 DEF SentInv
<1> QED
    BY <1>2, <1>3, <1>4, <1>5, <1>6, <1>7 DEF ReaderIsFaithful, UndisturbedIsTrue

\* An event is sent to a page that listens, or to none.
LEMMA Sends ==
    ASSUME IInv, NEW e \in Event, api \in {"thinking", "recording"},
           sent' = Append(sent, e), wire' = OnWire(e),
           UNCHANGED <<conn, buffer, got, handled, shown, outcome>>
    PROVE  /\ sent' \in Seq(Event) /\ wire' \in Seq(Symbol)
           /\ Len(sent') = Len(sent) + 1 /\ sent'[Len(sent')] = e
           /\ \A i \in 1..Len(sent) : sent'[i] = sent[i]
           /\ \A i \in 1..Len(sent) : sent[i] \notin {"done", "error"}
           /\ WireInv' /\ PageInv' /\ ReaderIsFaithful'
           /\ conn \in {"open", "cut", "broken"}
<1> USE DEF IInv
<1>1. /\ sent \in Seq(Event) /\ Len(sent) \in Nat /\ Len(wire) \in Nat /\ Len(buffer) \in Nat
      /\ got \in Nat
    BY LenProperties DEF TypeOK
<1>2. /\ sent' \in Seq(Event) /\ Len(sent') = Len(sent) + 1 /\ sent'[Len(sent) + 1] = e
      /\ \A i \in 1..Len(sent) : sent'[i] = sent[i]
    BY <1>1, AppendProperties
<1>3. conn \in {"open", "cut", "broken"}
    BY DEF SentInv, TypeOK
<1>4. \A i \in 1..Len(sent) : sent[i] \notin {"done", "error"}
    BY Zenon DEF SentInv
<1>5. PICK q \in 0..Len(sent) :
        /\ got = 5 * q + Len(buffer)
        /\ Carries(q)
        /\ conn \in {"connecting", "open", "closed"} => got + Len(wire) = 5 * Len(sent)
    BY DEF WireInv
<1>6. conn = "open" => Len(buffer) + Len(wire) = 5 * (Len(sent) - q)
  <2> SUFFICES ASSUME conn = "open"
               PROVE  Len(buffer) + Len(wire) = 5 * (Len(sent) - q)
      OBVIOUS
  <2> DEFINE b == Len(buffer)
             w == Len(wire)
             s == Len(sent)
  <2>1. b \in Nat /\ w \in Nat /\ s \in Nat /\ q \in 0..s /\ got = 5 * q + b /\ got + w = 5 * s
      BY <1>1, <1>5
  <2> HIDE DEF b, w, s
  <2>2. b + w = 5 * (s - q)
      BY <2>1
  <2> QED
      BY <2>2 DEF b, w, s
<1>7. /\ Carries(q)' /\ wire' \in Seq(Symbol)
      /\ Len(wire') = IF conn = "open" THEN Len(wire) + 5 ELSE Len(wire)
    BY <1>5, <1>6, CarriesMore
<1>8. WireInv'
  <2>1. q \in 0..Len(sent') /\ got' = 5 * q + Len(buffer')
      BY <1>1, <1>2, <1>5
  <2>2. conn' \in {"connecting", "open", "closed"} => got' + Len(wire') = 5 * Len(sent')
    <3> SUFFICES ASSUME conn' \in {"connecting", "open", "closed"}
                 PROVE  got' + Len(wire') = 5 * Len(sent')
        OBVIOUS
    <3> DEFINE w == Len(wire)
               s == Len(sent)
    <3>1. conn = "open"
        BY <1>3
    <3>2. /\ w \in Nat /\ s \in Nat /\ got \in Nat /\ got' = got
          /\ got + w = 5 * s /\ Len(wire') = w + 5 /\ Len(sent') = s + 1
        BY <1>1, <1>2, <1>5, <1>7, <3>1
    <3> HIDE DEF w, s
    <3>3. got + (w + 5) = 5 * (s + 1)
        BY <3>2
    <3> QED
        BY <3>2, <3>3
  <2> QED
      BY <1>7, <2>1, <2>2 DEF WireInv
<1>9. PageInv' /\ conn' # "closed"
    BY <1>3 DEF PageInv
<1>10. ChunksAreInvisible'
  <2>1. Len(sent) <= Len(sent')
      BY <1>1, <1>2
  <2> QED
      BY <1>2, <2>1, ArrivedKept, ChunksKept
<1>11. sent'[Len(sent')] = e
    BY <1>2
<1> QED
    BY <1>2, <1>3, <1>4, <1>7, <1>8, <1>9, <1>10, <1>11 DEF ReaderIsFaithful, UndisturbedIsTrue

\* The strings that are no thoughts.
LEMMA Words ==
    /\ "done" \in Event /\ "error" \in Event /\ Thought \subseteq Event
    /\ \A t \in Thought : t \notin {"done", "error"}
    BY ThoughtAssumption DEF Event

LEMMA ThinkKeeps == IInv /\ (\E t \in Thought : Think(t)) => IInv'
<1> SUFFICES ASSUME IInv, NEW t \in Thought, Think(t) PROVE IInv'
    OBVIOUS
<1>1. /\ api = "thinking" /\ api' = api /\ kept' = kept
      /\ sent' = Append(sent, t) /\ wire' = OnWire(t)
      /\ UNCHANGED <<conn, buffer, got, handled, shown, outcome>>
    BY DEF Think, readerVars
<1>2. t \in Event /\ t \notin {"done", "error"}
    BY Words
<1>3. /\ sent' \in Seq(Event) /\ wire' \in Seq(Symbol)
      /\ Len(sent') = Len(sent) + 1 /\ sent'[Len(sent')] = t
      /\ \A i \in 1..Len(sent) : sent'[i] = sent[i]
      /\ \A i \in 1..Len(sent) : sent[i] \notin {"done", "error"}
      /\ WireInv' /\ PageInv' /\ ReaderIsFaithful'
      /\ conn \in {"open", "cut", "broken"}
    BY <1>1, <1>2, Sends
<1>4. TypeOK'
    BY <1>1, <1>3 DEF TypeOK, IInv
<1>5. \A i \in 1..Len(sent') : sent'[i] \notin {"done", "error"}
  <2> SUFFICES ASSUME NEW i \in 1..Len(sent')
               PROVE  sent'[i] \notin {"done", "error"}
      OBVIOUS
  <2>1. i \in 1..Len(sent) \/ i = Len(sent')
      BY <1>3, LenProperties DEF TypeOK, IInv
  <2> QED
      BY <1>2, <1>3, <2>1, Zenon
<1>6. SentInv'
  <2>1. kept' = "open"
      BY <1>1 DEF IInv, SentInv
  <2>2. \A i \in 1..Len(sent') : sent'[i] # "done"
      BY <1>5, Zenon
  <2> QED
      BY <1>1, <1>3, <1>5, <2>1, <2>2 DEF SentInv
<1> QED
    BY <1>3, <1>4, <1>6 DEF IInv

LEMMA EndKeeps ==
    ASSUME IInv, api \in {"thinking", "recording"}, api' = "over",
           NEW e \in {"done", "error"}, sent' = Append(sent, e), wire' = OnWire(e),
           kept' \in {"committed", "rolledback"},
           e = "done" => kept' = "committed",
           UNCHANGED <<conn, buffer, got, handled, shown, outcome>>
    PROVE  IInv'
<1>1. e \in Event
    BY Words
<1>2. /\ sent' \in Seq(Event) /\ wire' \in Seq(Symbol)
      /\ Len(sent') = Len(sent) + 1 /\ sent'[Len(sent')] = e
      /\ \A i \in 1..Len(sent) : sent'[i] = sent[i]
      /\ \A i \in 1..Len(sent) : sent[i] \notin {"done", "error"}
      /\ WireInv' /\ PageInv' /\ ReaderIsFaithful'
      /\ conn \in {"open", "cut", "broken"}
    BY <1>1, Sends
<1>3. TypeOK'
    BY <1>2 DEF TypeOK, IInv
<1>4. Len(sent) \in Nat
    BY LenProperties DEF TypeOK, IInv
<1>5. \A i \in 1..Len(sent') : sent'[i] \in {"done", "error"} => i = Len(sent')
  <2> SUFFICES ASSUME NEW i \in 1..Len(sent'), sent'[i] \in {"done", "error"}
               PROVE  i = Len(sent')
      OBVIOUS
  <2>1. i \in 1..Len(sent) \/ i = Len(sent')
      BY <1>2, <1>4
  <2> QED
      BY <1>2, <2>1, Zenon
<1>6. \A i \in 1..Len(sent') : sent'[i] = "done" => kept' = "committed"
  <2> SUFFICES ASSUME NEW i \in 1..Len(sent'), sent'[i] = "done"
               PROVE  kept' = "committed"
      OBVIOUS
  <2>1. i = Len(sent')
      BY <1>5, Zenon
  <2> QED
      BY <1>2, <2>1, Zenon
<1>7. Len(sent') # 0
    BY <1>2, <1>4
<1>8. sent'[Len(sent')] \in {"done", "error"}
    BY <1>2, Zenon
<1>9. SentInv'
  <2>1. \A i \in 1..Len(sent') : sent'[i] \in {"done", "error"} => i = Len(sent') /\ api' = "over"
      BY <1>5, Zenon
  <2>2. /\ api' \notin {"starting", "thinking", "recording"}
        /\ conn' # "connecting" /\ api' = "over"
      BY <1>2
  <2> QED
      BY <1>6, <1>7, <1>8, <2>1, <2>2, Zenon DEF SentInv
<1> QED
    BY <1>2, <1>3, <1>9 DEF IInv

LEMMA FinishKeeps == IInv /\ Finish => IInv'
<1> SUFFICES ASSUME IInv, Finish PROVE IInv'
    OBVIOUS
<1>1. /\ api = "recording" /\ api' = "over" /\ kept' = "committed"
      /\ sent' = Append(sent, "done") /\ wire' = OnWire("done")
      /\ UNCHANGED <<conn, buffer, got, handled, shown, outcome>>
    BY DEF Finish, readerVars, IInv, SentInv
<1>2. PICK e \in {"done", "error"} : e = "done"
    OBVIOUS
<1> QED
    BY <1>1, <1>2, EndKeeps

LEMMA FailKeeps == IInv /\ Fail => IInv'
<1> SUFFICES ASSUME IInv, Fail PROVE IInv'
    OBVIOUS
<1>1. /\ api \in {"thinking", "recording"} /\ api' = "over"
      /\ kept' \in {"committed", "rolledback"}
      /\ sent' = Append(sent, "error") /\ wire' = OnWire("error")
      /\ UNCHANGED <<conn, buffer, got, handled, shown, outcome>>
    BY DEF Fail, RollBack, readerVars, IInv, SentInv
<1>2. PICK e \in {"done", "error"} : e = "error"
    OBVIOUS
<1>3. e # "done"
    BY <1>2
<1> QED
    BY <1>1, <1>2, <1>3, EndKeeps

LEMMA DieKeeps == IInv /\ Die => IInv'
<1> SUFFICES ASSUME IInv, Die PROVE IInv'
    OBVIOUS
<1> USE DEF IInv
<1>1. /\ api # "over" /\ api' = "over" /\ kept' \in {"open", "committed", "rolledback"}
      /\ kept' # "open"
      /\ UNCHANGED <<sent, buffer, got, handled, shown, outcome>>
    BY DEF Die, RollBack, readerVars, TypeOK
<1>2. outcome # "pending" => conn' = conn /\ conn \notin {"connecting", "open"}
    BY <1>1 DEF Die, PageInv
<1>3. \A i \in 1..Len(sent) : sent[i] \notin {"done", "error"}
    BY <1>1, Zenon DEF SentInv
<1>4. conn \notin {"refused", "closed"}
    BY <1>1 DEF SentInv
<1>5. conn' \notin Flowing /\ conn' # "refused" /\ conn' \in {"cut", "broken"}
    BY <1>4 DEF Die, TypeOK, Flowing
<1>6. WireInv' /\ wire' \in Seq(Symbol)
  <2>1. CASE conn \in {"connecting", "open"}
    <3>1. wire' = SubSeq(wire, 1, 0) /\ 0 \in 0..Len(wire)
        BY <2>1, LoseAll DEF Die
    <3> QED
        BY <1>1, <1>5, <3>1, TextCut
  <2>2. CASE conn \notin {"connecting", "open"}
    <3>1. wire' = wire
        BY <2>2 DEF Die
    <3> QED
        BY <1>1, <1>5, <3>1, TextKept DEF TypeOK
  <2> QED
      BY <2>1, <2>2
<1>7. TypeOK'
    BY <1>1, <1>5, <1>6 DEF TypeOK
<1>8. SentInv'
    BY <1>1, <1>3, <1>5 DEF SentInv, Flowing
<1>9. ChunksAreInvisible'
  <2>1. sent' \in Seq(Event) /\ Len(sent) <= Len(sent')
      BY <1>1, LenProperties DEF TypeOK
  <2> QED
      BY <1>1, <1>2, <2>1, ArrivedKept, ChunksKept
<1> QED
    BY <1>5, <1>6, <1>7, <1>8, <1>9 DEF PageInv, ReaderIsFaithful, UndisturbedIsTrue, Flowing

\* The page that was told of an error has read everything.
LEMMA ToldKept ==
    ASSUME TypeOK, PageInv, conn = "open", UNCHANGED <<got, outcome>>
    PROVE  Arrived' = Arrived
<1>1. CASE outcome = "pending"
    BY <1>1 DEF Arrived
<1>2. CASE outcome # "pending"
  <2> DEFINE n == Len(sent)
  <2>1. got = 5 * n /\ n \in Nat
      BY <1>2, LenProperties DEF PageInv, TypeOK
  <2> HIDE DEF n
  <2>2. ~((got % 5) >= 3)
      BY <2>1
  <2> QED
      BY <2>2 DEF Arrived
<1> QED
    BY <1>1, <1>2

LEMMA CloseKeeps == IInv /\ Close => IInv'
<1> SUFFICES ASSUME IInv, Close PROVE IInv'
    OBVIOUS
<1> USE DEF IInv
<1>1. /\ api = "over" /\ conn = "open" /\ conn' = "closed"
      /\ UNCHANGED <<api, kept, sent, wire, buffer, got, handled, shown, outcome>>
    BY DEF Close, apiVars, readerVars
<1>2. TypeOK'
    BY <1>1 DEF TypeOK
<1>3. SentInv'
    BY <1>1 DEF SentInv
<1>4. WireInv'
    BY <1>1, TextKept DEF Flowing
<1>5. ChunksAreInvisible'
  <2>1. sent' \in Seq(Event) /\ Len(sent) <= Len(sent')
      BY <1>1, LenProperties DEF TypeOK
  <2> QED
      BY <1>1, <2>1, ToldKept, ChunksKept
<1>6. UndisturbedIsTrue'
  <2>1. outcome # "pending" => outcome = "rejected" /\ sent[Len(sent)] = "error"
      BY <1>1 DEF PageInv
  <2> QED
      BY <1>1, <2>1 DEF UndisturbedIsTrue, Last
<1>7. PageInv'
    BY <1>1 DEF PageInv
<1> QED
    BY <1>2, <1>3, <1>4, <1>5, <1>6, <1>7 DEF ReaderIsFaithful

LEMMA BreakKeeps == IInv /\ Break => IInv'
<1> SUFFICES ASSUME IInv, Break PROVE IInv'
    OBVIOUS
<1> USE DEF IInv
<1>1. /\ outcome = "pending" /\ conn' = "broken" /\ wire' = <<>>
      /\ UNCHANGED <<api, kept, sent, buffer, got, handled, shown, outcome>>
    BY DEF Break, apiVars, readerVars
<1>2. WireInv' /\ wire' \in Seq(Symbol)
  <2>1. wire' = SubSeq(wire, 1, 0) /\ 0 \in 0..Len(wire) /\ conn' \notin Flowing
      BY <1>1, LoseAll DEF Flowing
  <2> QED
      BY <1>1, <2>1, TextCut
<1>3. TypeOK'
    BY <1>1, <1>2 DEF TypeOK
<1>4. SentInv'
    BY <1>1 DEF SentInv
<1>5. ChunksAreInvisible'
  <2>1. sent' \in Seq(Event) /\ Len(sent) <= Len(sent')
      BY <1>1, LenProperties DEF TypeOK
  <2> QED
      BY <1>1, <2>1, ArrivedKept, ChunksKept
<1> QED
    BY <1>1, <1>2, <1>3, <1>4, <1>5 DEF PageInv, ReaderIsFaithful, UndisturbedIsTrue

LEMMA CutShortKeeps == IInv /\ CutShort => IInv'
<1> SUFFICES ASSUME IInv, CutShort PROVE IInv'
    OBVIOUS
<1> USE DEF IInv
<1>1. PICK n \in 0..Len(wire) : wire' = SubSeq(wire, 1, n)
    BY DEF CutShort
<1>2. /\ conn = "open" /\ conn' = "cut"
      /\ UNCHANGED <<api, kept, sent, buffer, got, handled, shown, outcome>>
    BY DEF CutShort, apiVars, readerVars
<1>3. WireInv' /\ wire' \in Seq(Symbol)
    BY <1>1, <1>2, TextCut DEF Flowing
<1>4. TypeOK'
    BY <1>2, <1>3 DEF TypeOK
<1>5. SentInv'
    BY <1>2 DEF SentInv
<1>6. ChunksAreInvisible'
  <2>1. sent' \in Seq(Event) /\ Len(sent) <= Len(sent')
      BY <1>2, LenProperties DEF TypeOK
  <2> QED
      BY <1>2, <2>1, ToldKept, ChunksKept
<1> QED
    BY <1>2, <1>3, <1>4, <1>5, <1>6 DEF PageInv, ReaderIsFaithful, UndisturbedIsTrue

-----------------------------------------------------------------------------
(***************************************************************************)
(* The steps of the page                                                   *)
(***************************************************************************)
LEMMA RejectKeeps == IInv /\ Reject => IInv'
<1> SUFFICES ASSUME IInv, Reject PROVE IInv'
    OBVIOUS
<1> USE DEF IInv
<1>1. /\ conn \in {"refused", "broken"} /\ outcome' = "rejected"
      /\ UNCHANGED <<api, kept, sent, conn, wire, buffer, got, handled, shown>>
    BY DEF Reject, apiVars, readerVars
<1>2. TypeOK'
    BY <1>1 DEF TypeOK
<1>3. SentInv'
    BY <1>1 DEF SentInv
<1>4. WireInv'
    BY <1>1, TextKept
<1>5. ChunksAreInvisible'
  <2>1. sent' \in Seq(Event) /\ Len(sent) <= Len(sent')
      BY <1>1, LenProperties DEF TypeOK
  <2>2. Arrived' = Arrived
      BY <1>1 DEF Arrived
  <2> QED
      BY <1>1, <2>1, <2>2, ChunksKept
<1> QED
    BY <1>1, <1>2, <1>3, <1>4, <1>5 DEF PageInv, ReaderIsFaithful, UndisturbedIsTrue

\* The next events sent, given to onEvent.
LEMMA Handled ==
    ASSUME IInv, NEW q \in Nat, NEW d \in Nat, q + d <= Len(sent),
           handled = SubSeq(sent, 1, q), NEW events, events = SubSeq(sent, q + 1, q + d),
           Handle(events)
    PROVE  /\ handled' = SubSeq(sent, 1, q + d)
           /\ handled' \in Seq(Event) /\ shown' \in Seq(Thought)
           /\ shown' = WithoutRepeats(Select(handled', Thought))
           /\ Heard(events) = events
           /\ Stops(events) # {} => q + d = Len(sent) /\ api = "over" /\ sent[Len(sent)] = "error"
<1>1. sent \in Seq(Event) /\ Len(sent) \in Nat /\ handled \in Seq(Event)
    BY LenProperties DEF IInv, TypeOK
<1>2. events \in Seq(Event) /\ Len(events) = d /\ \A i \in 1..d : events[i] = sent[q + i]
    BY <1>1, Slice
<1>3. \A i \in 1..Len(sent) : sent[i] = "error" => i = Len(sent) /\ api = "over"
    BY Zenon DEF IInv, SentInv
<1>4. \A i \in 1..d : q + i \in 1..Len(sent) /\ (q + i = Len(sent) => i = d)
    BY <1>1
<1>5. ErrorIsLast(events)
  <2> SUFFICES ASSUME NEW i \in 1..d, events[i] = "error"
               PROVE  i = d
      BY <1>2, Zenon DEF ErrorIsLast
  <2>1. sent[q + i] = "error"
      BY <1>2, Zenon
  <2> QED
      BY <1>3, <1>4, <2>1, Zenon
<1>6. /\ Heard(events) = events
      /\ Stops(events) # {} <=> d # 0 /\ events[d] = "error"
  <2>1. /\ Heard(events) = events
        /\ Stops(events) # {} <=> Len(events) # 0 /\ events[Len(events)] = "error"
      BY <1>2, <1>5, HeardAll
  <2> QED
      BY <1>2, <2>1, Zenon
<1>7. Stops(events) # {} => q + d = Len(sent) /\ api = "over" /\ sent[Len(sent)] = "error"
  <2> SUFFICES ASSUME d # 0, events[d] = "error"
               PROVE  q + d = Len(sent) /\ api = "over" /\ sent[Len(sent)] = "error"
      BY <1>6, Zenon
  <2>1. d \in 1..d
      OBVIOUS
  <2>2. sent[q + d] = "error" /\ q + d \in 1..Len(sent)
      BY <1>2, <1>4, <2>1, Zenon
  <2>3. q + d = Len(sent) /\ api = "over"
      BY <1>3, <2>2, Zenon
  <2> QED
      BY <2>2, <2>3, Zenon
<1>8. handled' = handled \o events /\ shown' = Show(shown, events)
    BY <1>6 DEF Handle
<1>9. handled' = SubSeq(sent, 1, q + d)
  <2> DEFINE n == q + d
  <2>1. /\ 1 \in 1..Len(sent) + 1 /\ q \in 1 - 1..Len(sent) /\ n \in q..Len(sent)
      BY <1>1
  <2> HIDE DEF n
  <2>2. SubSeq(sent, 1, q) \o SubSeq(sent, q + 1, n) = SubSeq(sent, 1, n)
      BY <1>1, <2>1, ConcatAdjacentSubSeq
  <2> QED
      BY <1>8, <2>2 DEF n
<1>10. handled' \in Seq(Event)
    BY <1>1, <1>2, <1>8, ConcatProperties
<1>11. shown = Seen(handled)
    BY DEF IInv, ReaderIsFaithful, ChunksAreInvisible, Seen
<1>12. shown' = Seen(handled')
  <2>1. Show(Seen(handled), events) = Seen(handled \o events)
      BY <1>1, <1>2, SeenShow
  <2> QED
      BY <1>8, <1>11, <2>1
<1>13. shown' \in Seq(Thought)
    BY <1>10, <1>12, SeenType
<1> QED
    BY <1>6, <1>7, <1>9, <1>10, <1>12, <1>13 DEF Seen

LEMMA ReceiveKeeps == IInv /\ (\E n \in 1..Len(wire) : Receive(n)) => IInv'
<1> SUFFICES ASSUME IInv, NEW n \in 1..Len(wire), Receive(n) PROVE IInv'
    OBVIOUS
<1>1. /\ outcome = "pending" /\ conn \in {"open", "closed", "cut"}
      /\ wire' = SubSeq(wire, n + 1, Len(wire))
      /\ buffer' = Rest(buffer \o SubSeq(wire, 1, n))
      /\ got' = got + n
      /\ UNCHANGED <<api, kept, sent, conn>>
    BY DEF Receive, apiVars
<1> DEFINE events == Parsed(buffer \o SubSeq(wire, 1, n))
<1>2. Handle(events) /\ outcome' = IF Stops(events) # {} THEN "rejected" ELSE "pending"
    BY <1>1 DEF Receive
<1>3. PICK q \in 0..Len(sent) :
        /\ got = 5 * q + Len(buffer) /\ Len(buffer) \in 0..4
        /\ Carries(q)
        /\ conn \in {"connecting", "open", "closed"} => got + Len(wire) = 5 * Len(sent)
        /\ got \div 5 = q
    BY Position DEF IInv
<1>4. /\ Len(buffer) \in Nat /\ Len(wire) \in Nat /\ Len(sent) \in Nat /\ q \in Nat
      /\ n \in Nat /\ got \in Nat
    BY <1>3, LenProperties DEF IInv, TypeOK
<1>5. PICK d \in Nat, m \in 0..4 : Len(buffer) + n = 5 * d + m
  <2> DEFINE x == Len(buffer) + n
  <2>1. x \in Nat
      BY <1>4
  <2> HIDE DEF x
  <2>2. \E d \in Nat, m \in 0..4 : x = 5 * d + m
      BY <2>1, Fives
  <2> QED
      BY <2>2 DEF x
<1>6. /\ q + d <= Len(sent)
      /\ events = SubSeq(sent, q + 1, q + d)
      /\ buffer' \in Seq(Symbol) /\ Len(buffer') = m
      /\ wire' \in Seq(Symbol) /\ Len(wire') = Len(wire) - n
      /\ Carries(q + d)'
  <2>1. TypeOK /\ sent' = sent
      BY <1>1 DEF IInv
  <2> QED
      BY <1>1, <1>3, <1>5, <2>1, CarriesOn
<1> HIDE DEF events
<1>7. handled = SubSeq(sent, 1, q)
    BY <1>1, <1>3 DEF IInv, ReaderIsFaithful, ChunksAreInvisible, Arrived
<1>8. /\ handled' = SubSeq(sent, 1, q + d)
      /\ handled' \in Seq(Event) /\ shown' \in Seq(Thought)
      /\ shown' = WithoutRepeats(Select(handled', Thought))
      /\ Stops(events) # {} => q + d = Len(sent) /\ api = "over" /\ sent[Len(sent)] = "error"
    BY <1>2, <1>4, <1>6, <1>7, Handled
<1> DEFINE b == Len(buffer)
           w == Len(wire)
           s == Len(sent)
<1>9. /\ got' = 5 * (q + d) + m
      /\ got' + (w - n) = got + w
      /\ got' \div 5 = q + d /\ (got' % 5) = m
  <2>1. b \in Nat /\ w \in Nat /\ got = 5 * q + b /\ b + n = 5 * d + m /\ got' = got + n
      BY <1>1, <1>3, <1>4, <1>5
  <2> HIDE DEF b, w
  <2>2. got' = 5 * (q + d) + m /\ got' + (w - n) = got + w
      BY <1>4, <2>1
  <2> DEFINE k == q + d
  <2>3. k \in Nat /\ got' = 5 * k + m
      BY <1>4, <2>2
  <2> HIDE DEF k
  <2>4. (5 * k + m) \div 5 = k /\ ((5 * k + m) % 5) = m
      BY <2>3
  <2> QED
      BY <2>2, <2>3, <2>4 DEF k
<1>10. q + d = s => m = 0
  <2>1. b + w <= 5 * (s - q)
      BY <1>3, CarriesLen DEF IInv
  <2>2. b \in Nat /\ w \in Nat /\ s \in Nat /\ n \in 1..w /\ b + n = 5 * d + m
      BY <1>4, <1>5
  <2> HIDE DEF b, w, s
  <2> QED
      BY <1>4, <2>1, <2>2
<1>11. Arrived' = q + d
  <2>1. CASE outcome' = "pending"
      BY <1>9, <2>1 DEF Arrived
  <2>2. CASE outcome' # "pending"
    <3>1. (got' % 5) = 0
        BY <1>2, <1>8, <1>9, <1>10, <2>2
    <3>2. ~((got' % 5) >= 3)
        BY <3>1
    <3> QED
        BY <1>9, <3>2 DEF Arrived
  <2> QED
      BY <2>1, <2>2
<1>12. TypeOK'
  <2>1. Len(buffer') < 5 /\ got' \in Nat
      BY <1>1, <1>4, <1>6
  <2> QED
      BY <1>1, <1>2, <1>6, <1>8, <2>1 DEF TypeOK, IInv
<1>13. SentInv'
    BY <1>1 DEF SentInv, IInv
<1>14. WireInv'
  <2>1. q + d \in 0..Len(sent') /\ got' = 5 * (q + d) + Len(buffer')
    <3>1. q + d \in 0..Len(sent)
        BY <1>4, <1>6
    <3> QED
        BY <1>1, <1>6, <1>9, <3>1
  <2>2. conn' \in {"connecting", "open", "closed"} => got' + Len(wire') = 5 * Len(sent')
      BY <1>1, <1>3, <1>6, <1>9
  <2> QED
      BY <1>6, <2>1, <2>2 DEF WireInv
<1>15. outcome' # "pending" =>
         /\ outcome' = "rejected" /\ got' = 5 * s /\ api = "over" /\ sent[s] = "error"
  <2> SUFFICES ASSUME outcome' # "pending"
               PROVE  outcome' = "rejected" /\ got' = 5 * s /\ api = "over" /\ sent[s] = "error"
      OBVIOUS
  <2>1. /\ Stops(events) # {} /\ outcome' = "rejected"
      BY <1>2
  <2>2. q + d = s /\ api = "over" /\ sent[s] = "error"
      BY <1>8, <2>1
  <2>3. got' = 5 * s
    <3>1. m = 0
        BY <1>10, <2>2
    <3> HIDE DEF s
    <3>2. 5 * (q + d) + m = 5 * s
        BY <1>4, <2>2, <3>1 DEF s
    <3> QED
        BY <1>9, <3>2
  <2> QED
      BY <2>1, <2>2, <2>3
<1>16. PageInv'
    BY <1>1, <1>15 DEF PageInv
<1>17. UndisturbedIsTrue'
  <2>1. outcome' # "pending" => outcome' # "resolved" /\ Last(sent') # "done"
      BY <1>1, <1>15 DEF Last
  <2> QED
      BY <2>1 DEF UndisturbedIsTrue
<1>18. ChunksAreInvisible'
    BY <1>1, <1>8, <1>11 DEF ChunksAreInvisible
<1> QED
    BY <1>12, <1>13, <1>14, <1>16, <1>17, <1>18 DEF IInv, ReaderIsFaithful

\* What the end of the stream leaves in the buffer: nothing of an event, the
\* first half of its JSON, or all of it without its blank line.
LEMMA BlockLeft ==
    ASSUME NEW s, NEW text \in Seq(Symbol), Begins(text, s), Len(text) \in 0..4
    PROVE  ParseEventBlock(text) =
               IF Len(text) < 2 THEN "null" ELSE IF Len(text) = 2 THEN "throws" ELSE s[1]
<1> DEFINE n == Len(text)
           payload == {i \in DOMAIN text : text[i][1] \in {"open", "close"}}
<1>1. DOMAIN text = 1..n /\ n \in 0..4
    BY LenProperties
<1>2. ASSUME NEW r \in 1..n
      PROVE  r \in 1..4 /\ text[r][1] = Kind[r]
  <2>1. r \in 1..4 /\ r \in 1..5 /\ 5 * 0 + r = r /\ 0 \in Nat
      BY <1>1
  <2>2. 5 * 0 + r \in 1..Len(text)
      BY <2>1
  <2>3. text[5 * 0 + r][1] = Kind[r]
      BY <2>1, <2>2, KindAt
  <2> QED
      BY <2>1, <2>3
<1>3. \A r \in 1..4 : Kind[r] \in {"open", "close"} <=> r \in {2, 3}
  <2>1. Kind[1] = "mark" /\ Kind[2] = "open" /\ Kind[3] = "close" /\ Kind[4] = "nl"
      BY DEF Kind
  <2>2. \A r \in 1..4 : r = 1 \/ r = 2 \/ r = 3 \/ r = 4
      OBVIOUS
  <2>3. 1 \notin {2, 3} /\ 4 \notin {2, 3}
      OBVIOUS
  <2> QED
      BY <2>1, <2>2, <2>3
<1>4. payload = {i \in 1..n : i \in {2, 3}}
    BY <1>1, <1>2, <1>3, Zenon
<1>5. ParseEventBlock(text) =
        IF payload = {} THEN "null"
        ELSE IF \E i \in payload : payload = {i} THEN "throws"
        ELSE text[Min(payload)][2]
    BY DEF ParseEventBlock
<1> HIDE DEF payload
<1>6. CASE n < 2
  <2>1. payload = {}
      BY <1>4, <1>6
  <2> QED
      BY <1>5, <1>6, <2>1
<1>7. CASE n = 2
  <2>1. payload = {2}
      BY <1>4, <1>7
  <2>2. payload # {} /\ \E i \in payload : payload = {i}
      BY <2>1
  <2> QED
      BY <1>5, <1>7, <2>2
<1>8. CASE n > 2
  <2>1. payload = {2, 3}
      BY <1>1, <1>4, <1>8
  <2>2. 2 \in payload /\ 3 \in payload /\ 2 # 3
      BY <2>1
  <2>3. payload # {} /\ ~(\E i \in payload : payload = {i})
      BY <2>2, TwoOf
  <2>4. payload \in SUBSET Int /\ \A y \in payload : 2 <= y
      BY <2>1
  <2>5. Min(payload) = 2
      BY <2>2, <2>4, MinIs
  <2>6. text[2][2] = s[1]
    <3>1. 0 \in Nat /\ 5 * 0 + 2 = 2 /\ 0 + 1 = 1 /\ 5 * 0 + 2 \in 1..Len(text)
        BY <1>1, <1>8
    <3>2. text[5 * 0 + 2][2] = s[0 + 1]
        BY <3>1, PayloadAt
    <3> QED
        BY <3>1, <3>2
  <2>7. ParseEventBlock(text) = s[1]
      BY <1>5, <2>3, <2>5, <2>6
  <2>8. ~(Len(text) < 2) /\ Len(text) # 2
    <3>1. n \in 0..4 /\ n > 2
        BY <1>1, <1>8
    <3> HIDE DEF n
    <3>2. ~(n < 2) /\ n # 2
        BY <3>1
    <3> QED
        BY <3>2 DEF n
  <2> QED
      BY <2>7, <2>8, Zenon
<1> QED
    BY <1>1, <1>6, <1>7, <1>8

LEMMA OneEvent ==
    ASSUME NEW x
    PROVE  /\ x = "null" => Yielded(<<x>>) = <<>>
           /\ x \in Event \cup {"throws"} => Yielded(<<x>>) = <<x>>
<1> DEFINE keep == Event \cup {"throws"}
<1>1. <<>> \in Seq({x}) /\ x \in {x} /\ Append(<<>>, x) = <<x>>
    OBVIOUS
<1>2. "null" \notin keep
    BY ThoughtAssumption DEF Event
<1> HIDE DEF keep
<1>3. Select(Append(<<>>, x), keep) =
          IF x \in keep THEN Append(Select(<<>>, keep), x) ELSE Select(<<>>, keep)
    BY <1>1, SelectAppend
<1>4. Select(<<>>, keep) = <<>>
    BY SelectEmpty
<1>5. Select(<<x>>, keep) = IF x \in keep THEN <<x>> ELSE <<>>
    BY <1>1, <1>3, <1>4
<1>6. Yielded(<<x>>) = IF x \in keep THEN <<x>> ELSE <<>>
    BY <1>5 DEF Yielded, keep
<1> QED
    BY <1>2, <1>6 DEF keep

LEMMA Nothing ==
    /\ Stops(<<>>) = {} /\ Heard(<<>>) = <<>>
    /\ Stops(<<"throws">>) # {} /\ Heard(<<"throws">>) = <<>>
<1>1. Stops(<<>>) = {}
    BY DEF Stops
<1>2. Heard(<<>>) = <<>>
    BY <1>1 DEF Heard
<1> DEFINE t == <<"throws">>
<1>3. DOMAIN t = {1} /\ t[1] = "throws" /\ t \in Seq({"throws"}) /\ Len(t) = 1
    OBVIOUS
<1>4. Stops(t) = {1}
    BY <1>3 DEF Stops
<1>5. Min(Stops(t)) = 1
  <2> DEFINE T == Stops(t)
  <2> HIDE DEF T
  <2>1. T = {1}
      BY <1>4 DEF T
  <2>2. T \in SUBSET Int /\ 1 \in T /\ \A y \in T : 1 <= y
      BY <2>1
  <2>3. Min(T) = 1
      BY <2>2, MinIs
  <2> QED
      BY <2>3 DEF T
<1>6. SubSeq(t, 1, 1) = t
    BY <1>3, SubSeqFull
<1>7. Select(t, Event) = <<>>
  <2>1. "throws" \notin Event
      BY ThoughtAssumption DEF Event
  <2>2. <<>> \in Seq({"throws"}) /\ "throws" \in {"throws"} /\ Append(<<>>, "throws") = t
      OBVIOUS
  <2>3. Select(Append(<<>>, "throws"), Event) = Select(<<>>, Event)
      BY <2>1, <2>2, SelectAppend
  <2> QED
      BY <2>2, <2>3, SelectEmpty
<1> HIDE DEF t
<1>8. Heard(t) = <<>>
  <2>1. Stops(t) # {}
      BY <1>4
  <2> QED
      BY <1>5, <1>6, <1>7, <2>1, Zenon DEF Heard
<1>9. Stops(t) # {}
    BY <1>4
<1> QED
    BY <1>1, <1>2, <1>8, <1>9 DEF t

LEMMA LeftOver ==
    ASSUME TypeOK, NEW q \in 0..Len(sent), Carries(q), wire = <<>>, Len(buffer) \in 0..4
    PROVE  ParseEventBlock(buffer) =
               IF Len(buffer) < 2 THEN "null" ELSE IF Len(buffer) = 2 THEN "throws"
               ELSE sent[q + 1]
<1> DEFINE s == [i \in 1..Len(sent) - q |-> sent[q + i]]
<1>1. /\ buffer \in Seq(Symbol) /\ sent \in Seq(Event) /\ Len(sent) \in Nat
      /\ buffer \o wire = buffer
  <2>1. /\ buffer \in Seq(Symbol) /\ sent \in Seq(Event)
      BY DEF TypeOK
  <2>2. buffer \o <<>> = buffer
      BY <2>1, ConcatEmptySeq
  <2> QED
      BY <2>1, <2>2, LenProperties
<1>2. \A i \in 1..Len(sent) - q : s[i] = sent[q + i]
    OBVIOUS
<1>3. Len(s) = Len(sent) - q
    BY <1>1
<1> HIDE DEF s
<1>4. Begins(buffer, s)
  <2> SUFFICES ASSUME NEW j \in Nat, NEW r \in 1..5, 5 * j + r \in 1..Len(buffer)
               PROVE  j + 1 \in 1..Len(s) /\ buffer[5 * j + r] = FormatSse(s[j + 1])[r]
      BY DEF Begins
  <2>1. q + j + 1 \in 1..Len(sent) /\ buffer[5 * j + r] = FormatSse(sent[q + j + 1])[r]
      BY <1>1 DEF Carries
  <2> DEFINE k == j + 1
  <2>2. k \in 1..Len(sent) - q /\ q + k = q + j + 1
      BY <1>1, <2>1
  <2> HIDE DEF k
  <2>3. k \in 1..Len(s) /\ s[k] = sent[q + j + 1]
      BY <1>2, <1>3, <2>2
  <2>4. k \in 1..Len(s) /\ buffer[5 * j + r] = FormatSse(s[k])[r]
      BY <2>1, <2>3
  <2> QED
      BY <2>4 DEF k
<1>5. ParseEventBlock(buffer) =
          IF Len(buffer) < 2 THEN "null" ELSE IF Len(buffer) = 2 THEN "throws" ELSE s[1]
    BY <1>1, <1>4, BlockLeft
<1>6. CASE Len(buffer) > 2
  <2>1. 5 * 0 + 1 \in 1..Len(buffer) /\ 0 \in Nat /\ 1 \in 1..5
      BY <1>6
  <2>2. 0 + 1 \in 1..Len(s)
      BY <1>4, <2>1 DEF Begins
  <2>3. s[1] = sent[q + 1]
    <3>1. 1 \in 1..Len(sent) - q
        BY <1>3, <2>2
    <3> QED
        BY <1>2, <3>1
  <2> QED
      BY <1>5, <2>3
<1>7. CASE ~(Len(buffer) > 2)
  <2>1. Len(buffer) < 2 \/ Len(buffer) = 2
    <3> DEFINE b == Len(buffer)
    <3>1. b \in 0..4 /\ ~(b > 2)
        BY <1>7
    <3> HIDE DEF b
    <3>2. b < 2 \/ b = 2
        BY <3>1
    <3> QED
        BY <3>2 DEF b
  <2> QED
      BY <1>5, <2>1
<1> QED
    BY <1>6, <1>7

\* The last of the events sent tells whether "done" was.
LEMMA DoneIsLast ==
    ASSUME IInv
    PROVE  "done" \in ToSet(sent) => kept = "committed" /\ Last(sent) = "done"
<1> SUFFICES ASSUME "done" \in ToSet(sent)
             PROVE  kept = "committed" /\ Last(sent) = "done"
    OBVIOUS
<1>1. DOMAIN sent = 1..Len(sent)
    BY LenProperties DEF IInv, TypeOK
<1>2. PICK i \in 1..Len(sent) : sent[i] = "done"
    BY <1>1, Zenon DEF ToSet
<1>3. i = Len(sent) /\ kept = "committed"
    BY <1>2, Zenon DEF IInv, SentInv
<1> QED
    BY <1>2, <1>3 DEF Last

LEMMA EndOfStreamKeeps == IInv /\ EndOfStream => IInv'
<1> SUFFICES ASSUME IInv, EndOfStream PROVE IInv'
    OBVIOUS
<1> DEFINE events == Yielded(<<ParseEventBlock(buffer)>>)
<1>1. /\ outcome = "pending" /\ conn \in {"closed", "cut"} /\ wire = <<>>
      /\ Handle(events)
      /\ outcome' = Settled(events, handled \o Heard(events))
      /\ UNCHANGED <<api, kept, sent, conn, wire, buffer, got>>
    BY DEF EndOfStream, apiVars
<1>2. PICK q \in 0..Len(sent) :
        /\ got = 5 * q + Len(buffer) /\ Len(buffer) \in 0..4
        /\ Carries(q)
        /\ conn \in {"connecting", "open", "closed"} => got + Len(wire) = 5 * Len(sent)
        /\ got \div 5 = q /\ (got % 5) = Len(buffer)
        /\ Len(buffer) # 0 => q < Len(sent)
    BY Position DEF IInv
<1>3. /\ sent \in Seq(Event) /\ Len(sent) \in Nat /\ q \in Nat
      /\ handled \in Seq(Event) /\ shown \in Seq(Thought)
    BY <1>2, LenProperties DEF IInv, TypeOK
<1>4. ParseEventBlock(buffer) =
          IF Len(buffer) < 2 THEN "null" ELSE IF Len(buffer) = 2 THEN "throws"
          ELSE sent[q + 1]
    BY <1>1, <1>2, LeftOver DEF IInv
<1>5. /\ handled = SubSeq(sent, 1, q)
      /\ shown = WithoutRepeats(Select(handled, Thought))
    BY <1>1, <1>2 DEF IInv, ReaderIsFaithful, ChunksAreInvisible, Arrived
<1>6. outcome' \in {"resolved", "rejected"}
    BY <1>1 DEF Settled
<1>7. ASSUME Len(buffer) <= 2
      PROVE  /\ handled' \in Seq(Event) /\ shown' \in Seq(Thought)
             /\ ChunksAreInvisible' /\ UndisturbedIsTrue'
  <2>1. Heard(events) = <<>> /\ (Len(buffer) < 2 => events = <<>>)
    <3>1. CASE Len(buffer) < 2
      <4>1. events = <<>>
          BY <1>4, <3>1, OneEvent
      <4> QED
          BY <4>1, Nothing
    <3>2. CASE Len(buffer) = 2
      <4>1. events = <<"throws">>
          BY <1>4, <3>2, OneEvent
      <4> QED
          BY <3>2, <4>1, Nothing
    <3> QED
        BY <1>2, <1>7, <3>1, <3>2
  <2> HIDE DEF events
  <2>2. handled' = handled /\ shown' = shown
    <3>1. handled \o <<>> = handled /\ Show(shown, <<>>) = shown
        BY <1>3, ConcatEmptySeq, ShowEmpty
    <3> QED
        BY <1>1, <2>1, <3>1 DEF Handle
  <2>3. Arrived' = q
    <3>1. ~((got' % 5) >= 3)
        BY <1>1, <1>2, <1>7
    <3> QED
        BY <1>1, <1>2, <3>1 DEF Arrived
  <2>4. ChunksAreInvisible'
      BY <1>1, <1>5, <2>2, <2>3 DEF ChunksAreInvisible
  <2>5. conn = "closed" => (outcome' = "resolved" <=> Last(sent) = "done")
    <3> SUFFICES ASSUME conn = "closed"
                 PROVE  outcome' = "resolved" <=> Last(sent) = "done"
        OBVIOUS
    <3>1. Len(buffer) = 0 /\ q = Len(sent)
      <4> DEFINE b == Len(buffer)
                 s == Len(sent)
      <4>1. got + 0 = 5 * s /\ got = 5 * q + b /\ b \in 0..4 /\ s \in Nat
        <5>1. Len(wire) = 0
            BY <1>1
        <5> QED
            BY <1>2, <1>3, <5>1
      <4> HIDE DEF b, s
      <4>2. b = 0 /\ q = s
          BY <1>3, <4>1
      <4> QED
          BY <4>2 DEF b, s
    <3>2. handled = sent
      <4>1. SubSeq(sent, 1, Len(sent)) = sent
          BY <1>3, SubSeqFull
      <4> QED
          BY <1>5, <3>1, <4>1
    <3>3. events = <<>> /\ Stops(events) = {} /\ handled \o Heard(events) = sent
      <4>1. events = <<>>
          BY <2>1, <3>1
      <4>2. handled \o <<>> = handled
          BY <1>3, ConcatEmptySeq
      <4> QED
          BY <2>1, <3>2, <4>1, <4>2, Nothing
    <3>4. outcome' = "resolved" <=> "done" \in ToSet(sent)
        BY <1>1, <3>3 DEF Settled
    <3>5. Last(sent) = "done" => "done" \in ToSet(sent)
      <4>1. Len(sent) # 0
          BY <1>1 DEF IInv, SentInv
      <4>2. Len(sent) \in DOMAIN sent
          BY <1>3, <4>1
      <4> QED
          BY <4>2 DEF ToSet, Last
    <3> QED
        BY <3>4, <3>5, DoneIsLast
  <2>6. handled' \in Seq(Event) /\ shown' \in Seq(Thought)
      BY <1>3, <2>2
  <2>7. UndisturbedIsTrue'
      BY <1>1, <2>5 DEF UndisturbedIsTrue
  <2> QED
      BY <2>4, <2>6, <2>7
<1>8. ASSUME Len(buffer) > 2
      PROVE  /\ handled' \in Seq(Event) /\ shown' \in Seq(Thought)
             /\ ChunksAreInvisible' /\ UndisturbedIsTrue'
  <2> DEFINE b == Len(buffer)
             s == Len(sent)
  <2>1. b \in 0..4 /\ b > 2 /\ s \in Nat
      BY <1>2, <1>3, <1>8
  <2>2. ~(b < 2) /\ b # 2 /\ b # 0 /\ b >= 3
    <3> HIDE DEF b
    <3> QED
        BY <2>1
  <2>3. q < s /\ q + 1 \in 1..s /\ q + 1 <= s
    <3>1. q < s
        BY <1>2, <2>2
    <3> HIDE DEF s
    <3> QED
        BY <1>3, <2>1, <3>1
  <2>4. sent[q + 1] \in Event
    <3> DEFINE k == q + 1
    <3>1. k \in 1..s
        BY <2>3
    <3> HIDE DEF k
    <3>2. sent[k] \in Event
        BY <1>3, <3>1, ElementOfSeq
    <3> QED
        BY <3>2 DEF k
  <2>5. events = <<sent[q + 1]>>
    <3>1. ParseEventBlock(buffer) = sent[q + 1]
        BY <1>4, <2>2
    <3> QED
        BY <2>4, <3>1, OneEvent
  <2>6. SubSeq(sent, q + 1, q + 1) = <<sent[q + 1]>>
    <3> DEFINE t == SubSeq(sent, q + 1, q + 1)
               k == q + 1
    <3>1. t \in Seq(Event) /\ Len(t) = 1 /\ \A i \in 1..1 : t[i] = sent[q + i]
        BY <1>3, <2>3, Slice
    <3> HIDE DEF t
    <3>2. t[1] = sent[q + 1] /\ t = [i \in 1..Len(t) |-> t[i]]
        BY <3>1
    <3> HIDE DEF k
    <3>3. t = <<sent[k]>>
        BY <3>1, <3>2 DEF k
    <3> QED
        BY <3>3 DEF t, k
  <2> HIDE DEF events
  <2>7. /\ handled' = SubSeq(sent, 1, q + 1)
        /\ handled' \in Seq(Event) /\ shown' \in Seq(Thought)
        /\ shown' = WithoutRepeats(Select(handled', Thought))
      BY <1>1, <1>3, <1>5, <2>3, <2>5, <2>6, Handled
  <2>8. Arrived' = q + 1
    <3>1. (got' % 5) >= 3 /\ outcome' # "pending" /\ got' \div 5 = q
        BY <1>1, <1>2, <1>6, <2>2
    <3> QED
        BY <1>1, <3>1 DEF Arrived
  <2>9. conn # "closed"
    <3> SUFFICES ASSUME conn = "closed"
                 PROVE  FALSE
        OBVIOUS
    <3>1. got + 0 = 5 * s /\ got = 5 * q + b
        BY <1>1, <1>2
    <3> HIDE DEF b, s
    <3> QED
        BY <1>3, <2>1, <3>1
  <2> QED
      BY <1>1, <2>7, <2>8, <2>9 DEF ChunksAreInvisible, UndisturbedIsTrue
<1> HIDE DEF events
<1>9. /\ handled' \in Seq(Event) /\ shown' \in Seq(Thought)
      /\ ChunksAreInvisible' /\ UndisturbedIsTrue'
  <2> DEFINE b == Len(buffer)
  <2>1. b \in 0..4
      BY <1>2
  <2>2. b <= 2 \/ b > 2
    <3> HIDE DEF b
    <3> QED
        BY <2>1
  <2> QED
      BY <1>7, <1>8, <2>2
<1>10. TypeOK'
    BY <1>1, <1>6, <1>9 DEF TypeOK, IInv
<1>11. SentInv'
    BY <1>1 DEF SentInv, IInv
<1>12. WireInv'
    BY <1>1, TextKept DEF IInv
<1>13. PageInv'
    BY <1>1 DEF PageInv
<1> QED
    BY <1>9, <1>10, <1>11, <1>12, <1>13 DEF IInv, ReaderIsFaithful

-----------------------------------------------------------------------------
(***************************************************************************)
(* The theorems                                                            *)
(***************************************************************************)
LEMMA InitKeeps == Init => IInv
<1> SUFFICES ASSUME Init PROVE IInv
    OBVIOUS
<1>1. /\ api = "starting" /\ kept = "open" /\ sent = <<>>
      /\ conn = "connecting" /\ wire = <<>>
      /\ buffer = <<>> /\ got = 0 /\ handled = <<>> /\ shown = <<>>
      /\ outcome = "pending"
    BY DEF Init
<1>2. TypeOK
    BY <1>1 DEF TypeOK
<1>3. SentInv
    BY <1>1 DEF SentInv
<1>4. WireInv
  <2>1. 0 \in 0..Len(sent) /\ got = 5 * 0 + Len(buffer) /\ got + Len(wire) = 5 * Len(sent)
      BY <1>1
  <2>2. Len(buffer \o wire) = 0
      BY <1>1
  <2>3. Carries(0)
      BY <2>2 DEF Carries
  <2> QED
      BY <2>1, <2>3 DEF WireInv
<1>5. PageInv /\ UndisturbedIsTrue
    BY <1>1 DEF PageInv, UndisturbedIsTrue
<1>6. ChunksAreInvisible
  <2>1. Arrived = 0
    <3>1. 0 \div 5 = 0
        OBVIOUS
    <3> QED
        BY <1>1, <3>1 DEF Arrived
  <2>2. handled = SubSeq(sent, 1, 0)
      BY <1>1
  <2>3. Seen(<<>>) = <<>>
    <3>1. Select(<<>>, Thought) = <<>> /\ <<>> \in Seq(Thought)
        BY SelectEmpty
    <3> QED
        BY <3>1, LastShown DEF Seen
  <2> QED
      BY <1>1, <2>1, <2>2, <2>3 DEF ChunksAreInvisible, Seen
<1> QED
    BY <1>2, <1>3, <1>4, <1>5, <1>6 DEF IInv, ReaderIsFaithful

LEMMA StepKeeps == IInv /\ [Next]_vars => IInv'
<1> SUFFICES ASSUME IInv, [Next]_vars PROVE IInv'
    OBVIOUS
<1>1. CASE ApiStep
    BY <1>1, AcceptKeeps, RefuseKeeps, SaveMessageKeeps, CommitKeeps, FinishKeeps,
       FailKeeps, DieKeeps, CloseKeeps, ThinkKeeps DEF ApiStep
<1>2. CASE PageStep
    BY <1>2, ReceiveKeeps, EndOfStreamKeeps, RejectKeeps DEF PageStep
<1>3. CASE Break
    BY <1>3, BreakKeeps
<1>4. CASE CutShort
    BY <1>4, CutShortKeeps
<1>5. CASE UNCHANGED vars
  <2>1. UNCHANGED <<api, kept, sent, conn, wire, buffer, got, handled, shown, outcome>>
      BY <1>5 DEF vars
  <2>2. TypeOK' /\ SentInv' /\ PageInv'
      BY <2>1 DEF IInv, TypeOK, SentInv, PageInv
  <2>3. WireInv'
      BY <2>1, TextKept DEF IInv
  <2>4. ChunksAreInvisible' /\ UndisturbedIsTrue'
      BY <2>1 DEF IInv, ReaderIsFaithful, ChunksAreInvisible, UndisturbedIsTrue, Arrived
  <2> QED
      BY <2>2, <2>3, <2>4 DEF IInv, ReaderIsFaithful
<1> QED
    BY <1>1, <1>2, <1>3, <1>4, <1>5 DEF Next

LEMMA InvariantHolds == Spec => []IInv
<1> QED
    BY InitKeeps, StepKeeps, PTL DEF Spec

\* The API, the connection and the reader hold values of their types, and
\* readThoughtStream never keeps a whole event in its buffer.
THEOREM TypeCorrect == Spec => []TypeOK
<1>1. IInv => TypeOK
    BY DEF IInv
<1> QED
    BY <1>1, InvariantHolds, PTL

\* Wherever the text is cut into reads, and whatever becomes of the connection,
\* the page handles the events that arrived, each once and in order, shows their
\* thoughts, and settles as the turn ended if nothing disturbed the stream.
THEOREM ReaderFaithful == Spec => []ReaderIsFaithful
<1>1. IInv => ReaderIsFaithful
    BY DEF IInv
<1> QED
    BY <1>1, InvariantHolds, PTL

\* "done" is heard only of an exchange that is committed.
DoneIsCommitted == "done" \in ToSet(handled) => kept = "committed"

LEMMA HeardWasSent == IInv => DoneIsCommitted
<1> SUFFICES ASSUME IInv, "done" \in ToSet(handled)
             PROVE  kept = "committed"
    BY DEF DoneIsCommitted
<1> DEFINE n == Arrived
<1>1. n \in 0..Len(sent) /\ handled = SubSeq(sent, 1, n) /\ sent \in Seq(Event)
    BY ArrivedSent DEF IInv, ReaderIsFaithful, ChunksAreInvisible, TypeOK
<1> HIDE DEF n
<1>2. n \in Nat /\ n <= Len(sent) /\ \A i \in 1..n : i \in 1..Len(sent)
    BY <1>1, LenProperties
<1>3. Len(handled) = n /\ \A i \in 1..n : handled[i] = sent[i]
    BY <1>1, <1>2
<1>4. DOMAIN handled = 1..n
    BY <1>3, LenProperties DEF IInv, TypeOK
<1>5. PICK i \in 1..n : handled[i] = "done"
    BY <1>4, Zenon DEF ToSet
<1>6. i \in 1..Len(sent) /\ sent[i] = "done"
    BY <1>2, <1>3, <1>5, Zenon
<1> QED
    BY <1>6, Zenon DEF IInv, SentInv

LEMMA ResolvedIsCommitted ==
    IInv' /\ EndOfStream /\ outcome' = "resolved" => kept = "committed"
<1>1. IInv' => DoneIsCommitted'
    BY HeardWasSent, PTL
<1>2. EndOfStream /\ outcome' = "resolved" => "done" \in ToSet(handled') /\ kept' = kept
    BY DEF EndOfStream, Settled, Handle, apiVars
<1> QED
    BY <1>1, <1>2 DEF DoneIsCommitted

\* Every step is one of what sending promises (Exchange), or changes nothing of
\* it: "resolved" is reached only after the commit.
THEOREM ExchangeImplemented == Spec => ImplementsExchange
<1>1. Init => Abstract!Init
    BY DEF Init, Abstract!Init
<1>2. IInv /\ IInv' /\ [Next]_vars => [Abstract!Next]_<<kept, outcome>>
  <2> SUFFICES ASSUME IInv, IInv', [Next]_vars
               PROVE  [Abstract!Next]_<<kept, outcome>>
      OBVIOUS
  <2> USE DEF Abstract!Next, Abstract!Keep, Abstract!Resolve, Abstract!Reject
  <2>1. CASE ApiStep
    <3>1. UNCHANGED outcome /\ (kept' = kept \/ (kept = "open" /\ kept' \in {"committed", "rolledback"}))
      <4>1. api \in {"starting", "thinking"} => kept = "open"
          BY DEF IInv, SentInv
      <4> QED
          BY <2>1, <4>1 DEF ApiStep, Accept, Refuse, SaveMessage, Commit, Finish, Fail, Die,
             Close, Think, RollBack, apiVars, readerVars
    <3> QED
        BY <3>1
  <2>2. CASE \E n \in 1..Len(wire) : Receive(n)
      BY <2>2 DEF Receive, apiVars
  <2>3. CASE EndOfStream
    <3>1. UNCHANGED kept /\ outcome = "pending" /\ outcome' \in {"resolved", "rejected"}
        BY <2>3 DEF EndOfStream, Settled, apiVars
    <3>2. outcome' = "resolved" => kept = "committed"
        BY <2>3, ResolvedIsCommitted
    <3> QED
        BY <3>1, <3>2
  <2>4. CASE Reject
      BY <2>4 DEF Reject, apiVars
  <2>5. CASE Break \/ CutShort \/ UNCHANGED vars
      BY <2>5 DEF Break, CutShort, vars, apiVars
  <2> QED
      BY <2>1, <2>2, <2>3, <2>4, <2>5 DEF Next, PageStep
<1> QED
    BY <1>1, <1>2, InvariantHolds, PTL DEF Spec, ImplementsExchange, Abstract!Spec
=============================================================================
