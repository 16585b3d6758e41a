--------------------------- MODULE SequenceFacts ---------------------------
(* Facts about sequences, and induction over the numbers, that the proofs of  *)
(* this project cite.                                                         *)
EXTENDS SequenceTheorems, SequencesExt, WellFoundedInduction, TLAPS

\* Appending adds exactly the new element, at the end (every Append of the
\* models: a push onto m_log_queue, a line written by a backend).
LEMMA AppendFacts ==
  ASSUME NEW S, NEW s \in Seq(S), NEW x \in S
  PROVE  /\ Append(s, x) \in Seq(S)
         /\ Range(Append(s, x)) = Range(s) \cup {x}
         /\ IsInjective(s) /\ x \notin Range(s) => IsInjective(Append(s, x))
<1>1. /\ Append(s, x) \in Seq(S)
      /\ Len(Append(s, x)) = Len(s) + 1
      /\ \A i \in 1..Len(s) : Append(s, x)[i] = s[i]
      /\ Append(s, x)[Len(s) + 1] = x
  BY AppendProperties
<1>2. /\ Len(s) \in Nat
      /\ DOMAIN s = 1..Len(s)
      /\ DOMAIN Append(s, x) = 1..(Len(s) + 1)
  BY <1>1, LenProperties
<1>3. Range(Append(s, x)) = Range(s) \cup {x}
  <2>1. ASSUME NEW y \in Range(Append(s, x)) PROVE y \in Range(s) \cup {x}
    <3>1. PICK i \in 1..(Len(s) + 1) : y = Append(s, x)[i]
      BY <1>2 DEF Range
    <3>2. CASE i = Len(s) + 1 BY <3>1, <3>2, <1>1
    <3>3. CASE i \in 1..Len(s) BY <3>1, <3>3, <1>1, <1>2 DEF Range
    <3>4. QED BY <3>2, <3>3, <1>2
  <2>2. ASSUME NEW y \in Range(s) PROVE y \in Range(Append(s, x))
    <3>1. PICK i \in 1..Len(s) : y = s[i] BY <1>2 DEF Range
    <3>2. y = Append(s, x)[i] /\ i \in 1..(Len(s) + 1) BY <3>1, <1>1, <1>2
    <3>3. QED BY <3>2, <1>2 DEF Range
  <2>3. x \in Range(Append(s, x)) BY <1>1, <1>2 DEF Range
  <2>4. QED BY <2>1, <2>2, <2>3
<1>4. ASSUME IsInjective(s), x \notin Range(s) PROVE IsInjective(Append(s, x))
  <2>1. \A i \in 1..Len(s) : s[i] # x BY <1>4, <1>2 DEF Range
  <2>2. SUFFICES ASSUME NEW i \in 1..(Len(s) + 1), NEW j \in 1..(Len(s) + 1),
                        Append(s, x)[i] = Append(s, x)[j]
                 PROVE  i = j
    BY <1>2 DEF IsInjective
  <2>3. CASE i \in 1..Len(s) /\ j \in 1..Len(s)
    BY <2>2, <2>3, <1>1, <1>2, <1>4 DEF IsInjective
  <2>4. CASE i = Len(s) + 1 \/ j = Len(s) + 1
    BY <2>1, <2>2, <2>4, <1>1, <1>2
  <2>5. QED BY <2>3, <2>4, <1>2
<1>5. QED BY <1>1, <1>3, <1>4

\* Taking the first element off a sequence (the worker's loop over its batch).
LEMMA TakeFirst ==
  ASSUME NEW S, NEW s \in Seq(S), s # <<>>
  PROVE  /\ Head(s) \in S
         /\ Tail(s) \in Seq(S)
         /\ Range(s) = {Head(s)} \cup Range(Tail(s))
         /\ IsInjective(s) => IsInjective(Tail(s)) /\ Head(s) \notin Range(Tail(s))
<1>1. /\ Head(s) \in S
      /\ Tail(s) \in Seq(S)
      /\ Len(Tail(s)) = Len(s) - 1
      /\ \A i \in 1..Len(Tail(s)) : Tail(s)[i] = s[i + 1]
  BY HeadTailProperties
<1>2. /\ Len(s) \in Nat \ {0}
      /\ DOMAIN s = 1..Len(s)
      /\ DOMAIN Tail(s) = 1..(Len(s) - 1)
      /\ Head(s) = s[1]
  BY <1>1, LenProperties, EmptySeq
<1>3. Range(s) = {Head(s)} \cup Range(Tail(s))
  <2>1. ASSUME NEW y \in Range(s) PROVE y \in {Head(s)} \cup Range(Tail(s))
    <3>1. PICK i \in 1..Len(s) : y = s[i] BY <1>2 DEF Range
    <3>2. CASE i = 1 BY <3>1, <3>2, <1>2
    <3>3. CASE i # 1
      <4>1. i - 1 \in 1..(Len(s) - 1) /\ Tail(s)[i - 1] = y
        BY <3>1, <3>3, <1>1, <1>2
      <4>2. QED BY <4>1, <1>2 DEF Range
    <3>4. QED BY <3>2, <3>3
  <2>2. ASSUME NEW y \in Range(Tail(s)) PROVE y \in Range(s)
    <3>1. PICK i \in 1..(Len(s) - 1) : y = Tail(s)[i] BY <1>2 DEF Range
    <3>2. i + 1 \in 1..Len(s) /\ s[i + 1] = y BY <3>1, <1>1, <1>2
    <3>3. QED BY <3>2, <1>2 DEF Range
  <2>3. Head(s) \in Range(s) BY <1>2 DEF Range
  <2>4. QED BY <2>1, <2>2, <2>3
<1>4. ASSUME IsInjective(s)
      PROVE  IsInjective(Tail(s)) /\ Head(s) \notin Range(Tail(s))
  <2>1. \A i, j \in 1..Len(s) : s[i] = s[j] => i = j BY <1>4, <1>2 DEF IsInjective
  <2>2. IsInjective(Tail(s))
    <3>1. SUFFICES ASSUME NEW i \in 1..(Len(s) - 1), NEW j \in 1..(Len(s) - 1),
                          Tail(s)[i] = Tail(s)[j]
                   PROVE  i = j
      BY <1>2 DEF IsInjective
    <3>2. s[i + 1] = s[j + 1] /\ i + 1 \in 1..Len(s) /\ j + 1 \in 1..Len(s)
      BY <3>1, <1>1, <1>2
    <3>3. i + 1 = j + 1 BY <3>2, <2>1
    <3>4. QED BY <3>3, <1>2
  <2>3. ASSUME Head(s) \in Range(Tail(s)) PROVE FALSE
    <3>1. PICK i \in 1..(Len(s) - 1) : Head(s) = Tail(s)[i] BY <2>3, <1>2 DEF Range
    <3>2. s[1] = s[i + 1] /\ i + 1 \in 1..Len(s) /\ 1 \in 1..Len(s)
      BY <3>1, <1>1, <1>2
    <3>3. 1 = i + 1 BY <3>2, <2>1
    <3>4. QED BY <3>3, <1>2
  <2>4. QED BY <2>2, <2>3
<1>5. QED BY <1>1, <1>3, <1>4

\* Head and Tail of a concatenation whose first part is not empty.
LEMMA TakeFirstOfConcat ==
  ASSUME NEW S, NEW s \in Seq(S), NEW t \in Seq(S), s # <<>>
  PROVE  /\ s \o t # <<>>
         /\ Head(s \o t) = Head(s)
         /\ Tail(s \o t) = Tail(s) \o t
<1>1. /\ s \o t \in Seq(S)
      /\ Len(s \o t) = Len(s) + Len(t)
      /\ \A i \in 1..(Len(s) + Len(t)) :
            (s \o t)[i] = IF i <= Len(s) THEN s[i] ELSE t[i - Len(s)]
  BY ConcatProperties
<1>2. Len(s) \in Nat \ {0} /\ Len(t) \in Nat BY EmptySeq, LenProperties
<1>3. s \o t # <<>> BY <1>1, <1>2, EmptySeq
<1>4. /\ Tail(s) \in Seq(S) /\ Len(Tail(s)) = Len(s) - 1
      /\ \A i \in 1..(Len(s) - 1) : Tail(s)[i] = s[i + 1]
  BY HeadTailProperties
<1>5. /\ Tail(s) \o t \in Seq(S)
      /\ Len(Tail(s) \o t) = Len(s) - 1 + Len(t)
      /\ \A i \in 1..(Len(s) - 1 + Len(t)) :
            (Tail(s) \o t)[i] = IF i <= Len(s) - 1 THEN Tail(s)[i] ELSE t[i - (Len(s) - 1)]
  BY <1>4, ConcatProperties
<1>6. /\ Tail(s \o t) \in Seq(S)
      /\ Len(Tail(s \o t)) = Len(s) + Len(t) - 1
      /\ \A i \in 1..(Len(s) + Len(t) - 1) : Tail(s \o t)[i] = (s \o t)[i + 1]
  BY <1>1, <1>3, HeadTailProperties
<1>7. ASSUME NEW i \in 1..(Len(s) + Len(t) - 1)
      PROVE  Tail(s \o t)[i] = (Tail(s) \o t)[i]
  <2>1. Tail(s \o t)[i] = IF i + 1 <= Len(s) THEN s[i + 1] ELSE t[i + 1 - Len(s)]
    BY <1>1, <1>2, <1>6
  <2>2. CASE i + 1 <= Len(s) BY <2>1, <2>2, <1>2, <1>4, <1>5
  <2>3. CASE ~(i + 1 <= Len(s)) BY <2>1, <2>3, <1>2, <1>5
  <2>4. QED BY <2>2, <2>3
<1>8. Tail(s \o t) = Tail(s) \o t BY <1>2, <1>5, <1>6, <1>7, SeqEqual
<1>9. Head(s \o t) = Head(s) BY <1>1, <1>2
<1>10. QED BY <1>3, <1>8, <1>9

\* Moving the first element of t to the end of s changes nothing in s \o t.
LEMMA ShiftFirst ==
  ASSUME NEW S, NEW s \in Seq(S), NEW t \in Seq(S), t # <<>>
  PROVE  Append(s, Head(t)) \o Tail(t) = s \o t
<1>1. Head(t) \in S /\ Tail(t) \in Seq(S) BY HeadTailProperties
<1>2. <<Head(t)>> \in Seq(S) BY <1>1
<1>3. Append(s, Head(t)) = s \o <<Head(t)>> BY <1>1, AppendIsConcat
<1>4. t = <<Head(t)>> \o Tail(t) BY HeadTailProperties
<1>5. QED BY <1>1, <1>2, <1>3, <1>4, ConcatAssociative

\* Appending to the second part of a concatenation appends to the whole.
LEMMA AppendToConcat ==
  ASSUME NEW S, NEW s \in Seq(S), NEW t \in Seq(S), NEW x \in S
  PROVE  s \o Append(t, x) = Append(s \o t, x)
<1>1. <<x>> \in Seq(S) /\ s \o t \in Seq(S) BY ConcatProperties
<1>2. Append(t, x) = t \o <<x>> /\ Append(s \o t, x) = (s \o t) \o <<x>>
  BY <1>1, AppendIsConcat
<1>3. QED BY <1>1, <1>2, ConcatAssociative

\* What three concatenated sequences hold.
LEMMA RangeOfThree ==
  ASSUME NEW S, NEW s \in Seq(S), NEW t \in Seq(S), NEW u \in Seq(S)
  PROVE  Range(s \o t \o u) = Range(s) \cup Range(t) \cup Range(u)
<1>1. \A a, b \in Seq(S) : Range(a \o b) = Range(a) \cup Range(b)
  BY RangeConcatenation
<1>2. s \o t \in Seq(S) BY ConcatProperties
<1>3. QED BY <1>1, <1>2

-----------------------------------------------------------------------------
(* Induction over the numbers: a set of numbers has a least element           *)

LEMMA LeastNumber ==
  ASSUME NEW S, S \subseteq Nat, S # {}
  PROVE  \E x \in S : \A y \in S : x <= y
<1>1. IsWellFoundedOn(OpToRel(<, Nat), Nat) BY NatLessThanWellFounded
<1>2. PICK x \in S : \A y \in S : ~(<<y, x>> \in OpToRel(<, Nat)) BY <1>1, WFMin
<1>3. \A a, b \in Nat : a < b => <<a, b>> \in OpToRel(<, Nat) BY DEF OpToRel
<1>4. \A y \in S : ~(y < x) BY <1>2, <1>3
<1>5. QED BY <1>4

\* A set that has 0 and with every number the next one has all numbers.
LEMMA AllNumbers ==
  ASSUME NEW S, 0 \in S, \A n \in Nat : n \in S => n + 1 \in S
  PROVE  Nat \subseteq S
<1>1. SUFFICES ASSUME Nat \ S # {} PROVE FALSE
  OBVIOUS
<1>2. PICK x \in Nat \ S : \A y \in Nat \ S : x <= y BY <1>1, LeastNumber
<1>3. x - 1 \in Nat /\ x - 1 \notin Nat \ S BY <1>2
<1>4. QED BY <1>2, <1>3

\* The values in V of a function applied again and again, k times, from x on.
Iterates(F, x, V, k) ==
  {g \in [0..k -> V] : g[0] = x /\ \A i \in 1..k : g[i] = F[g[i - 1]]}

\* They exist, and with them a recursive definition whose every value is made
\* from the one before.
LEMMA IteratesExist ==
  ASSUME NEW V, NEW F \in [V -> V], NEW x \in V, NEW k \in Nat
  PROVE  Iterates(F, x, V, k) # {}
<1> DEFINE Good(n) == \E g \in [0..n -> V] : g[0] = x /\ \A i \in 1..n : g[i] = F[g[i - 1]]
           S == {n \in Nat : Good(n)}
<1>1. 0 \in S
  <2> DEFINE g == [i \in 0..0 |-> x]
  <2>1. g \in [0..0 -> V] /\ g[0] = x /\ \A i \in 1..0 : g[i] = F[g[i - 1]] OBVIOUS
  <2> HIDE DEF g
  <2>2. Good(0) BY <2>1
  <2>3. QED BY <2>2
<1>2. ASSUME NEW n \in Nat, n \in S PROVE n + 1 \in S
  <2>1. PICK g \in [0..n -> V] : g[0] = x /\ \A i \in 1..n : g[i] = F[g[i - 1]] BY <1>2
  <2> DEFINE h == [i \in 0..(n + 1) |-> IF i = n + 1 THEN F[g[n]] ELSE g[i]]
  <2>2. \A i \in 0..(n + 1) : i # n + 1 => i \in 0..n OBVIOUS
  <2>3. n \in 0..n OBVIOUS
  <2>4. F[g[n]] \in V BY <2>1, <2>3
  <2>5. h \in [0..(n + 1) -> V] BY <2>1, <2>2, <2>4
  <2>6. h[0] = x BY <2>1
  <2>7. ASSUME NEW i \in 1..(n + 1) PROVE h[i] = F[h[i - 1]]
    <3>1. i - 1 \in 0..(n + 1) /\ i - 1 # n + 1 /\ h[i - 1] = g[i - 1] OBVIOUS
    <3>2. CASE i = n + 1 BY <3>1, <3>2
    <3>3. CASE i # n + 1
      <4>1. i \in 1..n /\ h[i] = g[i] BY <3>3
      <4>2. QED BY <4>1, <3>1, <2>1
    <3>4. QED BY <3>2, <3>3
  <2> HIDE DEF h
  <2>8. Good(n + 1) BY <2>5, <2>6, <2>7
  <2>9. QED BY <2>8
<1> HIDE DEF S
<1>3. Nat \subseteq S BY <1>1, <1>2, AllNumbers
<1>4. k \in S BY <1>3
<1>5. QED BY <1>4 DEF S, Iterates

-----------------------------------------------------------------------------
(* Concatenations                                                             *)

\* The concatenations of the first of some sequences.
Concats(C, p) ==
  {e \in [0 .. Len(p) -> Seq(C)] :
     e[0] = <<>> /\ \A i \in 1 .. Len(p) : e[i] = e[i - 1] \o p[i]}

\* There are such concatenations.
LEMMA ConcatsExist ==
  ASSUME NEW C, NEW p \in Seq(Seq(C))
  PROVE  Concats(C, p) # {}
<1> DEFINE n == Len(p)
           Good(k) == \E e \in [0 .. k -> Seq(C)] :
                        e[0] = <<>> /\ \A i \in 1 .. k : e[i] = e[i - 1] \o p[i]
           T == {k \in Nat : k <= n => Good(k)}
<1>1. n \in Nat /\ \A i \in 1 .. n : p[i] \in Seq(C)
  OBVIOUS
<1>2. 0 \in T
  <2> DEFINE e == [i \in 0 .. 0 |-> <<>>]
  <2>1. <<>> \in Seq(C)
    OBVIOUS
  <2>2. e \in [0 .. 0 -> Seq(C)] /\ e[0] = <<>> /\ \A i \in 1 .. 0 : e[i] = e[i - 1] \o p[i]
    BY <2>1
  <2> HIDE DEF e
  <2> QED
    BY <2>2
<1>3. ASSUME NEW k \in Nat, k \in T PROVE k + 1 \in T
  <2> SUFFICES ASSUME k + 1 <= n PROVE Good(k + 1)
    <3> HIDE DEF Good, n
    <3> QED
      OBVIOUS
  <2>1. PICK e \in [0 .. k -> Seq(C)] :
          e[0] = <<>> /\ \A i \in 1 .. k : e[i] = e[i - 1] \o p[i]
    <3>1. k <= n
      BY <1>1
    <3>2. Good(k)
      <4> HIDE DEF Good
      <4> QED
        BY <1>3, <3>1
    <3> QED
      BY <3>2
  <2> DEFINE h == [i \in 0 .. (k + 1) |-> IF i = k + 1 THEN e[k] \o p[k + 1] ELSE e[i]]
  <2>2. k \in 0 .. k /\ \A i \in 0 .. (k + 1) : i # k + 1 => i \in 0 .. k
    OBVIOUS
  <2>3. e[k] \in Seq(C) /\ p[k + 1] \in Seq(C)
    BY <1>1, <2>1, <2>2
  <2>4. e[k] \o p[k + 1] \in Seq(C)
    BY <2>3
  <2>5. h \in [0 .. (k + 1) -> Seq(C)]
    BY <2>1, <2>2, <2>4
  <2>6. h[0] = <<>>
    BY <2>1
  <2>7. ASSUME NEW i \in 1 .. (k + 1) PROVE h[i] = h[i - 1] \o p[i]
    <3>1. i \in 0 .. (k + 1) /\ i - 1 \in 0 .. (k + 1) /\ i - 1 # k + 1 /\ h[i - 1] = e[i - 1]
      OBVIOUS
    <3>2. CASE i = k + 1
      BY <3>1, <3>2
    <3>3. CASE i # k + 1
      <4>1. i \in 1 .. k /\ h[i] = e[i]
        BY <3>3
      <4> QED
        BY <2>1, <3>1, <4>1
    <3> QED
      BY <3>2, <3>3
  <2> HIDE DEF h
  <2> QED
    BY <2>5, <2>6, <2>7
<1> HIDE DEF T, Good
<1>4. n \in T
  BY <1>1, <1>2, <1>3, AllNumbers
<1>5. Good(n)
  BY <1>1, <1>4 DEF T
<1> QED
  BY <1>5 DEF Good, Concats

\* FlattenSeq is the last of them.
LEMMA Flattened ==
  ASSUME NEW C, NEW p \in Seq(Seq(C)), NEW e \in Concats(C, p)
  PROVE  FlattenSeq(p) = e[Len(p)]
<1> DEFINE n == Len(p)
           Flat(h) == [i \in 1 .. n |-> IF i = 1 THEN p[i] ELSE h[i - 1] \o p[i]]
           f == CHOOSE h : h = Flat(h)
<1>1. /\ n \in Nat /\ \A i \in 1 .. n : p[i] \in Seq(C)
      /\ e[0] = <<>> /\ \A i \in 1 .. n : e[i] = e[i - 1] \o p[i]
  <2>1. n \in Nat /\ \A i \in 1 .. n : p[i] \in Seq(C)
    OBVIOUS
  <2>2. e[0] = <<>> /\ \A i \in 1 .. n : e[i] = e[i - 1] \o p[i]
    BY DEF Concats
  <2> QED
    BY <2>1, <2>2
<1>2. CASE n = 0
  <2>1. p = <<>>
    BY <1>2
  <2> QED
    BY <1>1, <1>2, <2>1 DEF FlattenSeq
<1>3. CASE n # 0
  <2>1. FlattenSeq(p) = f[n]
    BY <1>3 DEF FlattenSeq
  <2> HIDE DEF n
  <2>7. 1 \in 1 .. n /\ e[1] = p[1]
    <3>1. 1 \in 1 .. n /\ 1 - 1 = 0
      BY <1>1, <1>3
    <3>2. e[1] = e[1 - 1] \o p[1] /\ p[1] \in Seq(C)
      BY <1>1, <3>1
    <3>3. e[1] = <<>> \o p[1]
      BY <1>1, <3>1, <3>2
    <3> QED
      BY <3>1, <3>2, <3>3
  <2>2. f = Flat(f)
    <3> DEFINE g == [i \in 1 .. n |-> e[i]]
    <3>1. ASSUME NEW i \in 1 .. n
          PROVE  g[i] = IF i = 1 THEN p[i] ELSE g[i - 1] \o p[i]
      <4>1. CASE i = 1
        BY <2>7, <4>1
      <4>2. CASE i # 1
        <5>1. i - 1 \in 1 .. n
          BY <1>1, <4>2
        <5>2. e[i] = e[i - 1] \o p[i]
          BY <1>1
        <5> QED
          BY <4>2, <5>1, <5>2
      <4> QED
        BY <4>1, <4>2
    <3>2. g = Flat(g)
      BY <3>1
    <3> HIDE DEF g, Flat
    <3> QED
      BY <3>2
  <2> HIDE DEF f
  <2> DEFINE T == {k \in Nat : k + 1 <= n => f[k + 1] = e[k + 1]}
  <2>3. 0 \in T
    <3>1. f[1] = p[1]
      BY <2>2, <2>7
    <3> QED
      BY <2>7, <3>1
  <2>4. ASSUME NEW k \in Nat, k \in T PROVE k + 1 \in T
    <3> SUFFICES ASSUME k + 2 <= n PROVE f[k + 2] = e[k + 2]
      <4>1. k + 1 + 1 = k + 2
        OBVIOUS
      <4> QED
        BY <4>1
    <3>1. f[k + 1] = e[k + 1] /\ k + 2 \in 1 .. n /\ k + 2 # 1 /\ (k + 2) - 1 = k + 1
      BY <1>1, <2>4
    <3>2. f[k + 2] = f[(k + 2) - 1] \o p[k + 2]
      BY <2>2, <3>1
    <3>3. e[k + 2] = e[(k + 2) - 1] \o p[k + 2]
      BY <1>1, <3>1
    <3> QED
      BY <3>1, <3>2, <3>3
  <2>5. Nat \subseteq T
    <3> HIDE DEF T
    <3> QED
      BY <2>3, <2>4, AllNumbers
  <2>6. n - 1 \in T /\ (n - 1) + 1 = n
    <3>1. n - 1 \in Nat /\ (n - 1) + 1 = n
      BY <1>1, <1>3
    <3> HIDE DEF T
    <3> QED
      BY <2>5, <3>1
  <2>8. f[(n - 1) + 1] = e[(n - 1) + 1]
    BY <1>1, <2>6
  <2> QED
    BY <2>1, <2>6, <2>8 DEF n
<1> QED
  BY <1>2, <1>3

\* A part that grows by one element.
LEMMA GrowsByOne ==
  ASSUME NEW S, NEW s \in Seq(S), NEW f \in Seq(S), NEW i \in 2 .. Len(s)
  PROVE  f \o SubSeq(s, 2, i) = (f \o SubSeq(s, 2, i - 1)) \o <<s[i]>>
<1>1. Len(s) \in Nat /\ 2 \in 1 .. Len(s) /\ i \in 1 .. Len(s)
  BY LenProperties
<1>2. SubSeq(s, 2, i) = SubSeq(s, 2, i - 1) \o <<s[i]>>
  BY <1>1, SubSeqRecursiveSecond
<1>3. SubSeq(s, 2, i - 1) \in Seq(S)
  <2>1. \A j \in 2 .. i - 1 : j \in 1 .. Len(s)
    BY <1>1
  <2>2. \A j \in 2 .. i - 1 : s[j] \in S
    BY <2>1, ElementOfSeq
  <2>3. 2 \in Int /\ i - 1 \in Int
    BY <1>1
  <2> QED
    BY <2>2, <2>3, SubSeqProperties
<1>4. <<s[i]>> \in Seq(S)
  BY <1>1, ElementOfSeq
<1>5. PICK m \in Seq(S), u \in Seq(S) : m = SubSeq(s, 2, i - 1) /\ u = <<s[i]>>
  BY <1>3, <1>4
<1>6. (f \o m) \o u = f \o (m \o u)
  BY ConcatAssociative, SMTT(60)
<1> QED
  BY <1>2, <1>5, <1>6

\* A sequence of x, d and t.
Laid(x, d, t) == (<<x>> \o d) \o t

\* The first of some sequences ends in d, the others are of one element each.
LEMMA FirstExpands ==
  ASSUME NEW S, NEW ss \in Seq(S), ss # <<>>, NEW d \in Seq(S), NEW p \in Seq(Seq(S)),
         Len(p) = Len(ss), p[1] = <<ss[1]>> \o d, \A i \in 2 .. Len(ss) : p[i] = <<ss[i]>>
  PROVE  FlattenSeq(p) = Laid(ss[1], d, Tail(ss))
<1> DEFINE n == Len(ss)
           first == <<ss[1]>> \o d
           e == [i \in 0 .. n |-> IF i = 0 THEN <<>> ELSE first \o SubSeq(ss, 2, i)]
<1>1. n \in Nat /\ n >= 1 /\ \A i \in 1 .. n : ss[i] \in S
  BY EmptySeq
<1>2. first \in Seq(S)
  <2>1. <<ss[1]>> \in Seq(S)
    BY <1>1
  <2> QED
    BY <2>1, ConcatProperties
<1>3. \A i \in 1 .. n : SubSeq(ss, 2, i) \in Seq(S)
  <2> TAKE i \in 1 .. n
  <2>1. \A j \in 2 .. i : ss[j] \in S
    BY <1>1
  <2> QED
    BY <1>1, <2>1, SubSeqProperties
<1>4. e \in [0 .. n -> Seq(S)]
  <2>1. \A i \in 1 .. n : first \o SubSeq(ss, 2, i) \in Seq(S)
    BY <1>2, <1>3, ConcatProperties
  <2>2. <<>> \in Seq(S)
    OBVIOUS
  <2> HIDE DEF first
  <2> QED
    BY <2>1, <2>2
<1>5. e[0] = <<>> /\ \A i \in 1 .. n : e[i] = first \o SubSeq(ss, 2, i)
  <2> HIDE DEF n, first
  <2>1. 0 \in 0 .. n /\ \A i \in 1 .. n : i \in 0 .. n /\ i # 0
    BY <1>1
  <2> QED
    BY <2>1
<1> HIDE DEF e, first, n
<1>6. ASSUME NEW i \in 1 .. n PROVE e[i] = e[i - 1] \o p[i]
  <2>1. CASE i = 1
    <3>1. SubSeq(ss, 2, 1) = <<>>
      BY SubSeqEmpty
    <3>2. e[1] = first \o <<>> /\ 1 - 1 = 0
      <4>1. 1 - 1 = 0
        OBVIOUS
      <4>2. 1 \in 1 .. n
        BY <2>1
      <4>3. e[1] = first \o SubSeq(ss, 2, 1)
        BY <1>5, <4>2
      <4> QED
        BY <3>1, <4>1, <4>3
    <3>3. p[1] = first /\ first \o <<>> = first /\ <<>> \o first = first
      BY <1>2, ConcatEmptySeq DEF first
    <3> QED
      BY <1>5, <2>1, <3>2, <3>3
  <2>2. CASE i # 1
    <3>1. i \in 2 .. Len(ss) /\ i - 1 \in 1 .. n
      BY <1>1, <2>2 DEF n
    <3>2. first \o SubSeq(ss, 2, i) = (first \o SubSeq(ss, 2, i - 1)) \o <<ss[i]>>
      BY <1>2, <3>1, GrowsByOne
    <3>5. e[i - 1] = first \o SubSeq(ss, 2, i - 1) /\ p[i] = <<ss[i]>>
      BY <1>5, <3>1
    <3> QED
      BY <1>5, <3>2, <3>5
  <2> QED
    BY <2>1, <2>2
<1>7. e \in Concats(S, p)
  <2>1. Len(p) = n
    BY DEF n
  <2> QED
    BY <1>4, <1>5, <1>6, <2>1 DEF Concats
<1>8. FlattenSeq(p) = e[n]
  BY <1>7, Flattened DEF n
<1>9. Tail(ss) = SubSeq(ss, 2, n)
  BY TailIsSubSeq DEF n
<1>10. n \in 1 .. n
  BY <1>1
<1> QED
  BY <1>5, <1>8, <1>9, <1>10 DEF first, Laid

\* The part of w that is v, after the first k elements.
LEMMA PartAfter ==
  ASSUME NEW S, NEW w \in Seq(S), NEW v \in Seq(S), NEW k \in Nat,
         k + Len(v) <= Len(w), \A i \in 1 .. Len(v) : w[k + i] = v[i]
  PROVE  SubSeq(w, k + 1, k + Len(v)) = v
<1>1. Len(v) \in Nat /\ Len(w) \in Nat
  BY LenProperties
<1>2. \A i \in k + 1 .. k + Len(v) : i \in 1 .. Len(w)
  BY <1>1
<1>3. \A i \in k + 1 .. k + Len(v) : w[i] \in S
  BY <1>2, ElementOfSeq
<1>4. PICK m \in Nat : m = Len(v)
  BY <1>1
<1>5. k + 1 \in Int /\ k + m \in Int /\ (k + m) - (k + 1) + 1 = m /\ (k + 1 <= k + m <=> m # 0)
  OBVIOUS
<1>6. /\ SubSeq(w, k + 1, k + m) \in Seq(S)
      /\ Len(SubSeq(w, k + 1, k + m)) = IF k + 1 <= k + m THEN (k + m) - (k + 1) + 1 ELSE 0
      /\ \A i \in 1 .. (k + m) - (k + 1) + 1 : SubSeq(w, k + 1, k + m)[i] = w[(k + 1) + i - 1]
  BY <1>3, <1>4, <1>5, SubSeqProperties
<1>7. \A i \in 1 .. m : (k + 1) + i - 1 = k + i
  OBVIOUS
<1>8. \A i \in 1 .. m : SubSeq(w, k + 1, k + m)[i] = v[i]
  BY <1>4, <1>5, <1>6, <1>7
<1>9. Len(SubSeq(w, k + 1, k + m)) = m
  BY <1>5, <1>6
<1> QED
  BY <1>4, <1>6, <1>8, <1>9, SeqEqual

\* The parts of what is written.
HasParts(v, x, d, t) ==
  /\ v[1] = x
  /\ SubSeq(v, Len(d) + 2, Len(v)) = t
  /\ SubSeq(v, 2, Len(d) + 1) = d

\* What was laid down is found again.
LEMMA Parts ==
  ASSUME NEW S, NEW x \in S, NEW d \in Seq(S), NEW t \in Seq(S)
  PROVE  HasParts(Laid(x, d, t), x, d, t)
<1>1. PICK k \in Nat, m \in Nat : k = Len(d) /\ m = Len(t)
  BY LenProperties
<1>2. <<x>> \in Seq(S) /\ Len(<<x>>) = 1 /\ <<x>>[1] = x
  OBVIOUS
<1>3. PICK f : f = <<x>> \o d
  OBVIOUS
<1>4. PICK w : w = f \o t
  OBVIOUS
<1>5. /\ f \in Seq(S) /\ Len(f) = 1 + k
      /\ \A i \in 1 .. 1 + k : f[i] = IF i <= 1 THEN <<x>>[i] ELSE d[i - 1]
  BY <1>1, <1>2, <1>3, ConcatProperties
<1>6. /\ w \in Seq(S) /\ Len(w) = 1 + k + m
      /\ \A i \in 1 .. 1 + k + m : w[i] = IF i <= 1 + k THEN f[i] ELSE t[i - (1 + k)]
  <2>1. /\ f \o t \in Seq(S) /\ Len(f \o t) = Len(f) + Len(t)
        /\ \A i \in 1 .. Len(f) + Len(t) : (f \o t)[i] = IF i <= Len(f) THEN f[i] ELSE t[i - Len(f)]
    BY <1>5, ConcatProperties, Zenon
  <2> QED
    BY <1>1, <1>4, <1>5, <2>1
<1>7. w[1] = x /\ w # <<>>
  <2>1. 1 \in 1 .. 1 + k + m /\ 1 \in 1 .. 1 + k /\ 1 <= 1 + k
    OBVIOUS
  <2>2. w[1] = f[1] /\ f[1] = <<x>>[1]
    BY <1>5, <1>6, <2>1
  <2>3. Len(w) # 0
    BY <1>6
  <2> QED
    BY <1>2, <2>2, <2>3
<1>8. \A i \in 1 .. m : w[(1 + k) + i] = t[i]
  <2> TAKE i \in 1 .. m
  <2>1. (1 + k) + i \in 1 .. 1 + k + m /\ ~((1 + k) + i <= 1 + k) /\ (1 + k) + i - (1 + k) = i
    OBVIOUS
  <2> QED
    BY <1>6, <2>1
<1>9. \A i \in 1 .. k : w[1 + i] = d[i]
  <2> TAKE i \in 1 .. k
  <2>1. 1 + i \in 1 .. 1 + k + m /\ 1 + i \in 1 .. 1 + k /\ 1 + i <= 1 + k /\ ~(1 + i <= 1) /\ 1 + i - 1 = i
    OBVIOUS
  <2>2. w[1 + i] = f[1 + i]
    BY <1>6, <2>1
  <2>3. f[1 + i] = d[1 + i - 1]
    BY <1>5, <2>1
  <2> QED
    BY <2>1, <2>2, <2>3
<1>10. SubSeq(w, (1 + k) + 1, (1 + k) + Len(t)) = t
  <2>1. 1 + k \in Nat /\ (1 + k) + Len(t) <= Len(w)
    BY <1>1, <1>6
  <2> QED
    BY <1>1, <1>6, <1>8, <2>1, PartAfter
<1>11. SubSeq(w, 1 + 1, 1 + Len(d)) = d
  <2>1. 1 \in Nat /\ 1 + Len(d) <= Len(w)
    BY <1>1, <1>6
  <2> QED
    BY <1>1, <1>6, <1>9, <2>1, PartAfter
<1>12. (1 + k) + 1 = Len(d) + 2 /\ (1 + k) + Len(t) = Len(w) /\ 1 + 1 = 2 /\ 1 + Len(d) = Len(d) + 1
  BY <1>1, <1>6
<1> QED
  BY <1>3, <1>4, <1>7, <1>10, <1>11, <1>12 DEF Laid, HasParts

\* What is left of a sequence behind its first j elements.
Behind(s, j) == SubSeq(s, j + 1, Len(s))

LEMMA BehindFacts ==
  ASSUME NEW S, NEW s \in Seq(S), NEW j \in 0..Len(s)
  PROVE  /\ Behind(s, j) \in Seq(S)
         /\ Len(Behind(s, j)) = Len(s) - j
         /\ \A i \in 1..(Len(s) - j) : Behind(s, j)[i] = s[j + i]
<1>1. Len(s) \in Nat /\ j \in Nat /\ \A i \in 1..Len(s) : s[i] \in S BY LenProperties
<1>2. j + 1 \in Int /\ Len(s) \in Int /\ \A i \in (j + 1)..Len(s) : s[i] \in S BY <1>1
<1>3. /\ SubSeq(s, j + 1, Len(s)) \in Seq(S)
      /\ Len(SubSeq(s, j + 1, Len(s)))
           = IF j + 1 <= Len(s) THEN Len(s) - (j + 1) + 1 ELSE 0
      /\ \A i \in 1..(Len(s) - (j + 1) + 1) :
           SubSeq(s, j + 1, Len(s))[i] = s[j + 1 + i - 1]
  BY <1>2, SubSeqProperties
<1>4. PICK b : b = SubSeq(s, j + 1, Len(s)) OBVIOUS
<1>5. /\ b \in Seq(S)
      /\ Len(b) = IF j + 1 <= Len(s) THEN Len(s) - (j + 1) + 1 ELSE 0
      /\ \A i \in 1..(Len(s) - (j + 1) + 1) : b[i] = s[j + 1 + i - 1]
  BY <1>3, <1>4
<1>6. Len(b) = Len(s) - j BY <1>1, <1>5
<1>7. \A i \in 1..(Len(s) - j) : i \in 1..(Len(s) - (j + 1) + 1) /\ j + 1 + i - 1 = j + i
  BY <1>1
<1>8. \A i \in 1..(Len(s) - j) : b[i] = s[j + i] BY <1>5, <1>7
<1>9. QED BY <1>4, <1>5, <1>6, <1>8 DEF Behind

\* The element behind the first j goes to the part in front.
LEMMA BehindMoves ==
  ASSUME NEW S, NEW s \in Seq(S), NEW t \in Seq(S), NEW j \in 0..(Len(s) - 1)
  PROVE  t \o Behind(s, j) = (t \o <<s[j + 1]>>) \o Behind(s, j + 1)
<1>1. Len(s) \in Nat /\ j \in 0..Len(s) /\ j + 1 \in 0..Len(s) /\ j + 1 \in 1..Len(s)
  BY LenProperties
<1>2. PICK b \in Seq(S) : b = Behind(s, j) BY <1>1, BehindFacts
<1>3. PICK c \in Seq(S) : c = Behind(s, j + 1) BY <1>1, BehindFacts
<1>4. PICK x \in Seq(S) : x = <<s[j + 1]>> /\ Len(x) = 1 /\ x[1] = s[j + 1]
  <2>1. s[j + 1] \in S BY <1>1, ElementOfSeq
  <2>2. <<s[j + 1]>> \in Seq(S) /\ Len(<<s[j + 1]>>) = 1 /\ <<s[j + 1]>>[1] = s[j + 1] BY <2>1
  <2>3. QED BY <2>2
<1>5. Len(b) = Len(s) - j /\ \A i \in 1..(Len(s) - j) : b[i] = s[j + i]
  BY <1>1, <1>2, BehindFacts
<1>6. Len(c) = Len(s) - (j + 1) /\ \A i \in 1..(Len(s) - (j + 1)) : c[i] = s[(j + 1) + i]
  BY <1>1, <1>3, BehindFacts
<1>7. b = x \o c
  <2>1. /\ x \o c \in Seq(S) /\ Len(x \o c) = Len(x) + Len(c)
        /\ \A i \in 1..(Len(x) + Len(c)) :
             (x \o c)[i] = IF i <= Len(x) THEN x[i] ELSE c[i - Len(x)]
    BY ConcatProperties
  <2>2. PICK y \in Seq(S) : y = x \o c BY <2>1
  <2>3. Len(y) = Len(b)
    <3>1. Len(y) = 1 + Len(c) BY <2>1, <2>2, <1>4
    <3>2. QED BY <3>1, <1>1, <1>5, <1>6
  <2>4. ASSUME NEW i \in 1..Len(b) PROVE y[i] = b[i]
    <3>1. i \in 1..(Len(x) + Len(c)) BY <1>1, <1>4, <1>5, <1>6
    <3>2. CASE i = 1 BY <3>1, <3>2, <2>1, <2>2, <1>1, <1>4, <1>5
    <3>3. CASE i # 1
      <4>1. i - 1 \in 1..(Len(s) - (j + 1)) /\ (j + 1) + (i - 1) = j + i /\ ~(i <= 1)
        BY <3>3, <1>1, <1>5
      <4>2. y[i] = c[i - 1] BY <4>1, <3>1, <2>1, <2>2, <1>4
      <4>3. c[i - 1] = s[j + i] BY <4>1, <1>6
      <4>4. QED BY <4>2, <4>3, <1>5
    <3>4. QED BY <3>2, <3>3
  <2>5. y = b BY <2>3, <2>4, SeqEqual
  <2>6. QED BY <2>2, <2>5
<1>8. (t \o x) \o c = t \o (x \o c) BY ConcatAssociative, SMTT(60)
<1>9. QED BY <1>2, <1>3, <1>4, <1>7, <1>8

\* w is t and then what s has behind its first j elements.
SplitBehind(w, t, s, j) == w = t \o Behind(s, j)

\* A sequence that is not at its end behind t has the next of s there.
LEMMA NextBehind ==
  ASSUME NEW S, NEW s \in Seq(S), NEW t \in Seq(S), NEW j \in 0..Len(s),
         NEW w \in Seq(S), SplitBehind(w, t, s, j),
         NEW a, a = Len(t) + 1, a <= Len(w)
  PROVE  /\ j \in 0..(Len(s) - 1)
         /\ w[a] = s[j + 1]
         /\ SplitBehind(w, t \o <<s[j + 1]>>, s, j + 1)
<1>1. Len(s) \in Nat /\ Len(t) \in Nat BY LenProperties
<1>2. PICK b \in Seq(S) : b = Behind(s, j) BY BehindFacts
<1>3. Len(b) = Len(s) - j /\ \A i \in 1..(Len(s) - j) : b[i] = s[j + i]
  BY <1>2, BehindFacts
<1>4. /\ Len(w) = Len(t) + Len(b)
      /\ \A i \in 1..(Len(t) + Len(b)) : w[i] = IF i <= Len(t) THEN t[i] ELSE b[i - Len(t)]
  <2>1. w = t \o b BY <1>2 DEF SplitBehind
  <2>2. QED BY <2>1, ConcatProperties
<1>5. j \in 0..(Len(s) - 1) BY <1>1, <1>3, <1>4
<1>6. w[Len(t) + 1] = s[j + 1]
  <2>1. PICK n \in Nat : n = Len(t) BY <1>1
  <2>2. /\ n + 1 \in 1..(n + Len(b)) /\ ~(n + 1 <= n) /\ (n + 1) - n = 1
        /\ 1 \in 1..(Len(s) - j)
    BY <2>1, <1>1, <1>3, <1>5
  <2>3. w[n + 1] = b[(n + 1) - n] BY <2>1, <2>2, <1>4
  <2>4. b[1] = s[j + 1] BY <2>2, <1>3
  <2>5. QED BY <2>1, <2>2, <2>3, <2>4
<1>7. t \o Behind(s, j) = (t \o <<s[j + 1]>>) \o Behind(s, j + 1) BY <1>5, BehindMoves
<1>8. QED BY <1>5, <1>6, <1>7 DEF SplitBehind
=============================================================================
