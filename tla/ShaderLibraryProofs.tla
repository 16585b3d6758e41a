------------------------ MODULE ShaderLibraryProofs ------------------------
(* Proofs about ShaderLibrary for any files, loaders and depth limits: the    *)
(* cache marks the recursion, the recursion is bounded, the first section of  *)
(* an included program is the one that may be skipped, programs stay, no      *)
(* error is reported that is not true, and a program without errors is its    *)
(* file with the includes pasted in.                                          *)
EXTENDS ShaderLibrary, SequenceFacts, FiniteSetTheorems

HasVersion(x) == x.errors # {} \/ (x.sections # <<>> /\ x.sections[1][1] = "version")

AtIncludeOf(f) == f.at <= Len(f.sections) /\ IsInclude(f.sections[f.at])

\* Every frame will leave a program that has a version declaration or an error,
\* and a frame that waits for another one stands on the include that opened it.
FramesReady ==
  /\ \A i \in DOMAIN stack : HasVersion(stack[i])
  /\ \A i \in DOMAIN stack \ {1} : AtIncludeOf(stack[i])

IInv == TypeOK /\ FramesReady /\ LoadingIsOnStack /\ DepthBounded /\ ValidHasVersion

-----------------------------------------------------------------------------
(* The sequences of the model *)

\* Two sequences in a row, the first of which decides the first element.
LEMMA ConcatFacts ==
  ASSUME NEW S, NEW a \in Seq(S), NEW b \in Seq(S)
  PROVE  /\ a \o b \in Seq(S)
         /\ Len(a \o b) = Len(a) + Len(b)
         /\ Len(a) \in Nat /\ Len(b) \in Nat
         /\ Len(a) > 0 => (a \o b)[1] = a[1]
<1>1. Len(a) \in Nat /\ Len(b) \in Nat BY LenProperties
<1>2. /\ a \o b \in Seq(S)
      /\ Len(a \o b) = Len(a) + Len(b)
      /\ \A i \in 1 .. Len(a) + Len(b) :
           (a \o b)[i] = IF i <= Len(a) THEN a[i] ELSE b[i - Len(a)]
  BY ConcatProperties
<1>3. Len(a) > 0 => (a \o b)[1] = a[1]
  <2>1. HAVE Len(a) > 0
  <2>2. 1 \in 1 .. Len(a) + Len(b) /\ 1 <= Len(a) BY <1>1, <2>1
  <2>3. QED BY <1>2, <2>2
<1>4. QED BY <1>1, <1>2, <1>3

\* The parts of a sequence in front of and behind the element at i.
LEMMA PartFacts ==
  ASSUME NEW S, NEW s \in Seq(S), NEW i \in 1..Len(s)
  PROVE  /\ SubSeq(s, 1, i - 1) \in Seq(S)
         /\ Len(SubSeq(s, 1, i - 1)) = i - 1
         /\ i > 1 => SubSeq(s, 1, i - 1)[1] = s[1]
         /\ SubSeq(s, i + 1, Len(s)) \in Seq(S)
         /\ Len(SubSeq(s, i + 1, Len(s))) = Len(s) - i
<1>1. Len(s) \in Nat /\ \A j \in 1..Len(s) : s[j] \in S BY LenProperties
<1>2. /\ SubSeq(s, 1, i - 1) \in Seq(S)
      /\ Len(SubSeq(s, 1, i - 1)) = IF 1 <= i - 1 THEN i - 1 - 1 + 1 ELSE 0
      /\ \A j \in 1 .. i - 1 - 1 + 1 : SubSeq(s, 1, i - 1)[j] = s[1 + j - 1]
  <2>1. 1 \in Int /\ i - 1 \in Int /\ \A j \in 1..(i - 1) : s[j] \in S BY <1>1
  <2>2. QED BY <2>1, SubSeqProperties
<1>3. i > 1 => SubSeq(s, 1, i - 1)[1] = s[1]
  <2>1. HAVE i > 1
  <2>2. 1 \in 1 .. i - 1 - 1 + 1 /\ 1 + 1 - 1 = 1 BY <2>1
  <2>3. QED BY <1>2, <2>2
<1>4. /\ SubSeq(s, i + 1, Len(s)) \in Seq(S)
      /\ Len(SubSeq(s, i + 1, Len(s))) = IF i + 1 <= Len(s) THEN Len(s) - (i + 1) + 1 ELSE 0
  <2>1. /\ i + 1 \in Int /\ Len(s) \in Int
        /\ \A j \in (i + 1)..Len(s) : s[j] \in S
    BY <1>1
  <2>2. QED BY <2>1, SubSeqProperties
<1>5. QED BY <1>1, <1>2, <1>3, <1>4

\* What remains of a sequence when the element at i is erased.
LEMMA WithoutFacts ==
  ASSUME NEW S, NEW s \in Seq(S), NEW i \in 1..Len(s)
  PROVE  /\ Without(s, i) \in Seq(S)
         /\ Len(Without(s, i)) = Len(s) - 1
         /\ i > 1 => Without(s, i)[1] = s[1]
<1>1. Len(s) \in Nat BY LenProperties
<1>2. /\ SubSeq(s, 1, i - 1) \in Seq(S)
      /\ Len(SubSeq(s, 1, i - 1)) = i - 1
      /\ i > 1 => SubSeq(s, 1, i - 1)[1] = s[1]
      /\ SubSeq(s, i + 1, Len(s)) \in Seq(S)
      /\ Len(SubSeq(s, i + 1, Len(s))) = Len(s) - i
  BY PartFacts
<1> DEFINE a == SubSeq(s, 1, i - 1)
           b == SubSeq(s, i + 1, Len(s))
<1>3. /\ a \o b \in Seq(S)
      /\ Len(a \o b) = Len(a) + Len(b)
      /\ Len(a) > 0 => (a \o b)[1] = a[1]
  <2>1. a \in Seq(S) /\ b \in Seq(S) BY <1>2
  <2> HIDE DEF a, b
  <2>2. QED BY <2>1, ConcatFacts
<1>4. Without(s, i) = a \o b BY DEF Without
<1> HIDE DEF a, b
<1>5. /\ Len(a) = i - 1 /\ Len(b) = Len(s) - i
      /\ i > 1 => a[1] = s[1]
  BY <1>2 DEF a, b
<1> DEFINE r == a \o b
<1>6. /\ r \in Seq(S) /\ Len(r) = Len(a) + Len(b)
      /\ Len(a) > 0 => r[1] = a[1]
  BY <1>3
<1> HIDE DEF r
<1>7. /\ r \in Seq(S) /\ Len(r) = Len(s) - 1
      /\ i > 1 => r[1] = s[1]
  BY <1>1, <1>5, <1>6
<1>8. QED BY <1>4, <1>7 DEF r

\* What remains of a sequence when the element at i is replaced.
LEMMA SpliceFacts ==
  ASSUME NEW S, NEW s \in Seq(S), NEW i \in 1..Len(s), NEW t \in Seq(S), t # <<>>
  PROVE  /\ Splice(s, i, t) \in Seq(S)
         /\ Len(Splice(s, i, t)) = Len(s) - 1 + (Len(t) - 1)
         /\ i > 1 => Splice(s, i, t)[1] = s[1]
<1>1. Len(s) \in Nat /\ Len(t) \in Nat BY LenProperties
<1>2. Tail(t) \in Seq(S) /\ Len(Tail(t)) = Len(t) - 1 BY HeadTailProperties
<1>3. /\ SubSeq(s, 1, i - 1) \in Seq(S)
      /\ Len(SubSeq(s, 1, i - 1)) = i - 1
      /\ i > 1 => SubSeq(s, 1, i - 1)[1] = s[1]
      /\ SubSeq(s, i + 1, Len(s)) \in Seq(S)
      /\ Len(SubSeq(s, i + 1, Len(s))) = Len(s) - i
  BY PartFacts
<1>4. /\ SubSeq(s, 1, i - 1) \o Tail(t) \in Seq(S)
      /\ Len(SubSeq(s, 1, i - 1) \o Tail(t)) = i - 1 + (Len(t) - 1)
      /\ i - 1 > 0 => (SubSeq(s, 1, i - 1) \o Tail(t))[1] = SubSeq(s, 1, i - 1)[1]
  BY <1>2, <1>3, ConcatFacts
<1> DEFINE a == SubSeq(s, 1, i - 1) \o Tail(t)
           b == SubSeq(s, i + 1, Len(s))
<1>5. /\ a \o b \in Seq(S)
      /\ Len(a \o b) = Len(a) + Len(b)
      /\ Len(a) > 0 => (a \o b)[1] = a[1]
  <2>1. a \in Seq(S) /\ b \in Seq(S) BY <1>3, <1>4
  <2> HIDE DEF a, b
  <2>2. QED BY <2>1, ConcatFacts
<1>6. Len(t) - 1 \in Nat BY <1>1, EmptySeq
<1>7. Splice(s, i, t) = a \o b BY DEF Splice
<1> HIDE DEF a, b
<1>8. /\ Len(a) = i - 1 + (Len(t) - 1) /\ Len(b) = Len(s) - i
      /\ i > 1 => a[1] = s[1]
  BY <1>3, <1>4 DEF a, b
<1> DEFINE r == a \o b
<1>9. /\ r \in Seq(S) /\ Len(r) = Len(a) + Len(b)
      /\ Len(a) > 0 => r[1] = a[1]
  BY <1>5
<1> HIDE DEF r
<1>10. /\ r \in Seq(S) /\ Len(r) = Len(s) - 1 + (Len(t) - 1)
       /\ i > 1 => r[1] = s[1]
  BY <1>1, <1>6, <1>8, <1>9
<1>11. QED BY <1>7, <1>10 DEF r

\* A stack with another first frame.
LEMMA SetFirst ==
  ASSUME NEW S, NEW s \in Seq(S), NEW x \in S, s # <<>>
  PROVE  LET r == <<x>> \o Tail(s)
         IN /\ r \in Seq(S)
            /\ Len(r) = Len(s)
            /\ r[1] = x
            /\ \A i \in 2..Len(s) : r[i] = s[i]
<1>1. /\ Tail(s) \in Seq(S)
      /\ Len(Tail(s)) = Len(s) - 1
      /\ \A i \in 1..Len(Tail(s)) : Tail(s)[i] = s[i + 1]
  BY HeadTailProperties
<1>2. Len(s) \in Nat \ {0} BY EmptySeq, LenProperties
<1>3. <<x>> \in Seq(S) /\ Len(<<x>>) = 1 /\ <<x>>[1] = x OBVIOUS
<1>4. /\ <<x>> \o Tail(s) \in Seq(S)
      /\ Len(<<x>> \o Tail(s)) = Len(s)
      /\ \A i \in 1..Len(s) :
           (<<x>> \o Tail(s))[i] = IF i <= 1 THEN <<x>>[i] ELSE Tail(s)[i - 1]
  BY <1>1, <1>2, <1>3, ConcatProperties
<1>5. QED BY <1>1, <1>2, <1>3, <1>4

\* A stack with one more frame.
LEMMA PushFirst ==
  ASSUME NEW S, NEW s \in Seq(S), NEW x \in S
  PROVE  LET r == <<x>> \o s
         IN /\ r \in Seq(S)
            /\ Len(r) = Len(s) + 1
            /\ r[1] = x
            /\ \A i \in 1..Len(s) : r[i + 1] = s[i]
<1>1. Len(s) \in Nat BY LenProperties
<1>2. <<x>> \in Seq(S) /\ Len(<<x>>) = 1 /\ <<x>>[1] = x OBVIOUS
<1>3. /\ <<x>> \o s \in Seq(S)
      /\ Len(<<x>> \o s) = Len(s) + 1
      /\ \A i \in 1..(Len(s) + 1) :
           (<<x>> \o s)[i] = IF i <= 1 THEN <<x>>[i] ELSE s[i - 1]
  BY <1>1, <1>2, ConcatProperties
<1>4. QED BY <1>1, <1>2, <1>3

-----------------------------------------------------------------------------
(* What an include makes of the frame that holds it *)

LEMMA IncludeIsNotFirst ==
  ASSUME NEW f \in Frames, AtIncludeOf(f), HasVersion(f), f.errors = {}
  PROVE  f.at \in 2..Len(f.sections)
<1>1. Len(f.sections) \in Nat BY LenProperties DEF Frames
<1>2. f.at \in Nat \ {0} /\ f.at <= Len(f.sections) BY DEF AtIncludeOf, Frames
<1>3. f.sections[f.at][1] = "include" BY DEF AtIncludeOf, IsInclude
<1>4. f.sections[1][1] = "version" BY DEF HasVersion
<1>5. f.at # 1 BY <1>3, <1>4
<1>6. QED BY <1>1, <1>2, <1>5

\* A refused include leaves a frame of the same file at the same depth.
LEMMA RejectedFacts ==
  ASSUME NEW f \in Frames, AtIncludeOf(f), HasVersion(f), NEW errors \in SUBSET Errors
  PROVE  /\ Rejected(f, errors) \in Frames
         /\ Rejected(f, errors).path = f.path
         /\ Rejected(f, errors).depth = f.depth
         /\ HasVersion(Rejected(f, errors))
<1> DEFINE s == f.sections
           g == Rejected(f, errors)
<1>1. s \in Seq(Sections) /\ Len(s) \in Nat /\ f.at \in 1..Len(s)
  BY LenProperties DEF Frames, AtIncludeOf
<1>2. /\ Without(s, f.at) \in Seq(Sections)
      /\ Len(Without(s, f.at)) = Len(s) - 1
      /\ f.at > 1 => Without(s, f.at)[1] = s[1]
  BY <1>1, WithoutFacts
<1>3. /\ g.sections = Without(s, f.at)
      /\ g.errors = f.errors \cup errors
      /\ g.path = f.path
      /\ g.depth = f.depth
      /\ g.at = NextAfter(Without(s, f.at), f.at)
  BY DEF Rejected, Frames
<1>4. NextAfter(Without(s, f.at), f.at) \in Nat \ {0} BY <1>1 DEF NextAfter
<1>5. g \in Frames
  <2>1. f.errors \cup errors \in SUBSET Errors BY DEF Frames
  <2>2. QED BY <1>2, <1>4, <2>1 DEF Rejected, Frames
<1>6. HasVersion(g)
  <2>1. CASE f.errors # {} BY <2>1, <1>3 DEF HasVersion
  <2>2. CASE f.errors = {}
    <3>1. f.at \in 2..Len(s) BY <2>2, IncludeIsNotFirst
    <3>2. s[1][1] = "version" BY <2>2 DEF HasVersion
    <3>3. Without(s, f.at)[1] = s[1] /\ Len(Without(s, f.at)) > 0
      BY <3>1, <1>1, <1>2
    <3>4. Without(s, f.at) # <<>> BY <3>3, EmptySeq
    <3>5. QED BY <3>2, <3>3, <3>4, <1>3 DEF HasVersion
  <2>3. QED BY <2>1, <2>2
<1>7. QED BY <1>3, <1>5, <1>6

\* So does the include of a program that has a version declaration or an error.
LEMMA IncludedFacts ==
  ASSUME NEW f \in Frames, AtIncludeOf(f), HasVersion(f),
         NEW prog \in Programs, HasVersion(prog)
  PROVE  /\ Included(f, prog) \in Frames
         /\ Included(f, prog).path = f.path
         /\ Included(f, prog).depth = f.depth
         /\ HasVersion(Included(f, prog))
<1>1. CASE prog.errors # {}
  <2>1. prog.errors \in SUBSET Errors BY DEF Programs
  <2>2. Included(f, prog) = Rejected(f, prog.errors) BY <1>1 DEF Included
  <2>3. QED BY <2>1, <2>2, RejectedFacts
<1>2. CASE prog.errors = {}
  <2> DEFINE s == f.sections
             t == prog.sections
             g == Included(f, prog)
  <2>1. s \in Seq(Sections) /\ Len(s) \in Nat /\ f.at \in 1..Len(s)
    BY LenProperties DEF Frames, AtIncludeOf
  <2>2. t \in Seq(Sections) /\ t # <<>> BY <1>2 DEF Programs, HasVersion
  <2>3. Len(t) \in Nat \ {0} BY <2>2, EmptySeq
  <2>4. /\ Splice(s, f.at, t) \in Seq(Sections)
        /\ Len(Splice(s, f.at, t)) = Len(s) - 1 + (Len(t) - 1)
        /\ f.at > 1 => Splice(s, f.at, t)[1] = s[1]
    BY <2>1, <2>2, SpliceFacts
  <2>5. /\ g.sections = Splice(s, f.at, t)
        /\ g.errors = f.errors
        /\ g.path = f.path
        /\ g.depth = f.depth
        /\ g.at = NextAfter(Splice(s, f.at, t), f.at + Len(t) - 1)
        /\ g = [path |-> g.path, sections |-> g.sections, errors |-> g.errors,
                at |-> g.at, depth |-> g.depth]
    BY <1>2 DEF Included, Frames
  <2>6. NextAfter(Splice(s, f.at, t), f.at + Len(t) - 1) \in Nat \ {0}
    BY <2>1, <2>3 DEF NextAfter
  <2>7. f.errors \in SUBSET Errors /\ f.path \in Paths /\ f.depth \in Nat BY DEF Frames
  <2>8. g \in Frames
    <3> HIDE DEF g
    <3>1. QED BY <2>4, <2>5, <2>6, <2>7 DEF Frames
  <2>9. HasVersion(g)
    <3>1. CASE f.errors # {} BY <3>1, <2>5 DEF HasVersion
    <3>2. CASE f.errors = {}
      <4>1. f.at \in 2..Len(s) BY <3>2, IncludeIsNotFirst
      <4>2. s[1][1] = "version" BY <3>2 DEF HasVersion
      <4>3. Splice(s, f.at, t)[1] = s[1] /\ Len(Splice(s, f.at, t)) > 0
        <5>1. f.at > 1 /\ Len(s) > 1 BY <4>1, <2>1
        <5>2. Splice(s, f.at, t)[1] = s[1] BY <5>1, <2>4
        <5> HIDE DEF s, t
        <5>3. Len(Splice(s, f.at, t)) > 0 BY <5>1, <2>1, <2>3, <2>4
        <5>4. QED BY <5>2, <5>3
      <4>4. Splice(s, f.at, t) # <<>> BY <4>3, EmptySeq
      <4>5. g.sections # <<>> /\ g.sections[1][1] = "version"
        <5>1. Splice(s, f.at, t)[1][1] = "version" BY <4>2, <4>3
        <5> HIDE DEF g, s, t
        <5>2. QED BY <5>1, <4>4, <2>5
      <4>6. QED BY <4>5 DEF HasVersion
    <3>3. QED BY <3>1, <3>2
  <2>10. QED BY <2>5, <2>8, <2>9
<1>3. QED BY <1>1, <1>2

-----------------------------------------------------------------------------
(* Includes pasted in, one section after the other                            *)

\* The include in front of the rest is replaced.
LEMMA SpliceBehind ==
  ASSUME NEW S, NEW s \in Seq(S), NEW t \in Seq(S), NEW j \in 0..(Len(s) - 1),
         NEW w \in Seq(S), SplitBehind(w, t, s, j), NEW a, a = Len(t) + 1,
         NEW v, NEW p \in Seq(S), p # <<>>, v = Splice(w, a, p)
  PROVE  /\ Len(w) = Len(t) + Len(s) - j
         /\ w[a] = s[j + 1]
         /\ SplitBehind(v, t \o SubSeq(p, 2, Len(p)), s, j + 1)
<1>1. Len(s) \in Nat /\ Len(t) \in Nat /\ j \in 0..Len(s) /\ j + 1 \in 0..Len(s)
  BY LenProperties
<1>2. PICK b \in Seq(S) : b = Behind(s, j) BY <1>1, BehindFacts
<1>3. PICK c \in Seq(S) : c = Behind(s, j + 1) BY <1>1, BehindFacts
<1>4. PICK n \in Nat : n = Len(t) BY <1>1
<1>5. Len(b) = Len(s) - j /\ \A i \in 1..(Len(s) - j) : b[i] = s[j + i]
  BY <1>1, <1>2, BehindFacts
<1>6. Len(c) = Len(s) - (j + 1) /\ \A i \in 1..(Len(s) - (j + 1)) : c[i] = s[(j + 1) + i]
  BY <1>1, <1>3, BehindFacts
<1>7. /\ Len(w) = n + Len(b)
      /\ \A i \in 1..(n + Len(b)) : w[i] = IF i <= n THEN t[i] ELSE b[i - n]
  <2>1. w = t \o b BY <1>2 DEF SplitBehind
  <2>2. QED BY <2>1, <1>4, ConcatProperties
<1>8. Len(w) = n + Len(s) - j BY <1>1, <1>5, <1>7
<1>9. w[n + 1] = s[j + 1]
  <2>1. n + 1 \in 1..(n + Len(b)) /\ ~(n + 1 <= n) /\ n + 1 - n = 1 /\ 1 \in 1..(Len(s) - j)
    BY <1>1, <1>5
  <2>2. QED BY <2>1, <1>5, <1>7
<1>10. SubSeq(w, 1, n) = t
  <2>1. \A i \in 1..Len(t) : w[0 + i] = t[i]
    <3>1. \A i \in 1..Len(t) : 0 + i = i /\ i \in 1..(n + Len(b)) /\ i <= n
      BY <1>1, <1>4, <1>5
    <3>2. QED BY <3>1, <1>7
  <2>2. 0 + Len(t) <= Len(w) BY <1>1, <1>4, <1>8
  <2>3. SubSeq(w, 0 + 1, 0 + Len(t)) = t BY <2>1, <2>2, PartAfter
  <2>4. 0 + 1 = 1 /\ 0 + Len(t) = n BY <1>4
  <2>5. QED BY <2>3, <2>4
<1>11. SubSeq(w, (n + 1) + 1, Len(w)) = c
  <2>1. ASSUME NEW i \in 1..Len(c) PROVE w[(n + 1) + i] = c[i]
    <3>0. Len(c) \in Nat /\ Len(b) = Len(c) + 1 BY <1>1, <1>5, <1>6
    <3>1. PICK m \in 1..(n + Len(b)) : m = (n + 1) + i
      <4>1. (n + 1) + i \in 1..(n + Len(b)) BY <3>0
      <4>2. QED BY <4>1
    <3>2. ~(m <= n) /\ m - n = i + 1 BY <3>1
    <3>3. i + 1 \in 1..(Len(s) - j) /\ j + (i + 1) = (j + 1) + i BY <1>1, <1>5, <1>6
    <3>4. w[m] = b[m - n] BY <3>2, <1>7
    <3>5. b[i + 1] = s[(j + 1) + i] BY <3>3, <1>5
    <3>6. QED BY <3>1, <3>2, <3>4, <3>5, <1>6
  <2>2. (n + 1) + Len(c) = Len(w) /\ n + 1 \in Nat BY <1>1, <1>6, <1>8
  <2>3. (n + 1) + Len(c) <= Len(w)
    <3>1. Len(w) \in Nat BY LenProperties
    <3>2. QED BY <2>2, <3>1
  <2>4. SubSeq(w, (n + 1) + 1, (n + 1) + Len(c)) = c BY <2>1, <2>2, <2>3, PartAfter
  <2>5. QED BY <2>2, <2>4
<1>12. Splice(w, n + 1, p) = t \o Tail(p) \o c
  <2>1. (n + 1) - 1 = n OBVIOUS
  <2>2. QED BY <2>1, <1>10, <1>11 DEF Splice
<1>13. Tail(p) = SubSeq(p, 2, Len(p)) BY TailIsSubSeq
<1>14. QED BY <1>3, <1>4, <1>8, <1>9, <1>12, <1>13 DEF SplitBehind

AllTexts == [Paths -> Seq(Sections)]

\* What the first j sections may become: a text, and one after each of them.
PasteSteps(ss, texts, j) ==
  {e \in [0..j -> Seq(Sections)] :
     e[0] = <<>> /\ \A i \in 1..j : e[i] = e[i - 1] \o Pasted(ss[i], texts)}
Begin(ss, texts, j) == {e[j] : e \in PasteSteps(ss, texts, j)}

LEMMA PastedType ==
  ASSUME NEW s \in Sections, NEW texts \in AllTexts
  PROVE  Pasted(s, texts) \in Seq(Sections)
<1>1. s[2] \in Paths BY DEF Sections
<1>2. PICK t \in Seq(Sections) : t = texts[s[2]] BY <1>1 DEF AllTexts
<1>3. Len(t) \in Nat /\ \A i \in 1..Len(t) : t[i] \in Sections BY LenProperties
<1>4. SubSeq(t, 2, Len(t)) \in Seq(Sections)
  <2>1. 2 \in Int /\ Len(t) \in Int /\ \A i \in 2..Len(t) : t[i] \in Sections BY <1>3
  <2>2. QED BY <2>1, SubSeqProperties
<1>5. <<s>> \in Seq(Sections) OBVIOUS
<1>6. QED BY <1>2, <1>4, <1>5 DEF Pasted

LEMMA NothingPasted ==
  ASSUME NEW ss, NEW texts
  PROVE  <<>> \in Begin(ss, texts, 0)
<1> DEFINE e == [i \in 0..0 |-> <<>>]
<1>1. <<>> \in Seq(Sections) OBVIOUS
<1>2. /\ e \in [0..0 -> Seq(Sections)] /\ e[0] = <<>>
      /\ \A i \in 1..0 : e[i] = e[i - 1] \o Pasted(ss[i], texts)
  BY <1>1
<1> HIDE DEF e
<1>3. e \in PasteSteps(ss, texts, 0) BY <1>2 DEF PasteSteps
<1>4. QED BY <1>2, <1>3 DEF Begin

LEMMA BeginType ==
  ASSUME NEW ss, NEW texts, NEW j \in Nat, NEW t \in Begin(ss, texts, j)
  PROVE  t \in Seq(Sections)
<1>1. PICK e \in [0..j -> Seq(Sections)] : t = e[j] BY DEF Begin, PasteSteps
<1>2. j \in 0..j OBVIOUS
<1>3. QED BY <1>1, <1>2

LEMMA OnePasted ==
  ASSUME NEW ss \in Seq(Sections), NEW texts \in AllTexts, NEW j \in 0..(Len(ss) - 1),
         NEW t \in Begin(ss, texts, j)
  PROVE  t \o Pasted(ss[j + 1], texts) \in Begin(ss, texts, j + 1)
<1>1. j \in Nat /\ j + 1 \in Nat /\ j + 1 \in 1..Len(ss) BY LenProperties
<1>2. PICK e : e \in PasteSteps(ss, texts, j) /\ t = e[j] BY DEF Begin
<1>3. /\ e \in [0..j -> Seq(Sections)] /\ e[0] = <<>>
      /\ \A i \in 1..j : e[i] = e[i - 1] \o Pasted(ss[i], texts)
  BY <1>2 DEF PasteSteps
<1>4. t \in Seq(Sections) BY <1>1, BeginType
<1>5. ss[j + 1] \in Sections BY <1>1, ElementOfSeq
<1>6. Pasted(ss[j + 1], texts) \in Seq(Sections) BY <1>5, PastedType
<1>7. PICK u \in Seq(Sections) : u = t \o Pasted(ss[j + 1], texts)
  BY <1>4, <1>6, ConcatProperties
<1> DEFINE h == [i \in 0..(j + 1) |-> IF i = j + 1 THEN u ELSE e[i]]
<1>8. \A i \in 0..(j + 1) : i # j + 1 => i \in 0..j BY <1>1
<1>9. h \in [0..(j + 1) -> Seq(Sections)] BY <1>3, <1>7, <1>8
<1>10. h[0] = <<>> /\ h[j + 1] = u BY <1>1, <1>3
<1>11. ASSUME NEW i \in 1..(j + 1) PROVE h[i] = h[i - 1] \o Pasted(ss[i], texts)
  <2>1. i \in 0..(j + 1) /\ i - 1 \in 0..(j + 1) /\ i - 1 # j + 1 /\ h[i - 1] = e[i - 1]
    BY <1>1
  <2>2. CASE i = j + 1
    <3>1. h[i] = u /\ h[i - 1] = t BY <2>1, <2>2, <1>2, <1>1
    <3>2. QED BY <3>1, <2>2, <1>7
  <2>3. CASE i # j + 1
    <3>1. i \in 1..j /\ h[i] = e[i] BY <2>1, <2>3
    <3>2. QED BY <3>1, <2>1, <1>3
  <2>4. QED BY <2>2, <2>3
<1> HIDE DEF h
<1>12. h \in PasteSteps(ss, texts, j + 1) BY <1>9, <1>10, <1>11 DEF PasteSteps
<1>13. QED BY <1>7, <1>10, <1>12 DEF Begin

\* Texts that agree on what the first j sections include are the same to them.
LEMMA SamePasted ==
  ASSUME NEW ss, NEW texts, NEW others, NEW j \in Nat,
         \A i \in 1..j : IsInclude(ss[i]) => others[ss[i][2]] = texts[ss[i][2]],
         NEW t \in Begin(ss, texts, j)
  PROVE  t \in Begin(ss, others, j)
<1>1. \A i \in 1..j : Pasted(ss[i], others) = Pasted(ss[i], texts) BY DEF Pasted
<1>2. PICK e : e \in PasteSteps(ss, texts, j) /\ t = e[j] BY DEF Begin
<1>3. e \in PasteSteps(ss, others, j) BY <1>1, <1>2 DEF PasteSteps
<1>4. QED BY <1>2, <1>3 DEF Begin

LEMMA SameAllPasted ==
  ASSUME NEW ss, NEW texts, NEW others,
         \A i \in DOMAIN ss : IsInclude(ss[i]) => others[ss[i][2]] = texts[ss[i][2]]
  PROVE  AllPasted(ss, others) = AllPasted(ss, texts)
<1>1. \A i \in DOMAIN ss : Pasted(ss[i], others) = Pasted(ss[i], texts) BY DEF Pasted
<1>2. [i \in DOMAIN ss |-> Pasted(ss[i], others)] = [i \in DOMAIN ss |-> Pasted(ss[i], texts)]
  BY <1>1
<1>3. QED BY <1>2 DEF AllPasted

\* When all sections have been pasted, the text is the one of AllPasted.
LEMMA AllArePasted ==
  ASSUME NEW ss \in Seq(Sections), NEW texts \in AllTexts
  PROVE  /\ AllPasted(ss, texts) \in Seq(Sections)
         /\ \A t \in Begin(ss, texts, Len(ss)) : t = AllPasted(ss, texts)
<1> DEFINE q == [i \in DOMAIN ss |-> Pasted(ss[i], texts)]
<1>1. Len(ss) \in Nat /\ DOMAIN ss = 1..Len(ss) /\ \A i \in 1..Len(ss) : ss[i] \in Sections
  BY LenProperties
<1>2. \A i \in 1..Len(ss) : Pasted(ss[i], texts) \in Seq(Sections) BY <1>1, PastedType
<1>3. q \in [1..Len(ss) -> Seq(Sections)] BY <1>1, <1>2
<1>4. q \in Seq(Seq(Sections)) /\ Len(q) = Len(ss)
  <2> HIDE DEF q
  <2>1. q \in Seq(Seq(Sections)) BY <1>1, <1>3
  <2>2. QED BY <2>1, <1>1, <1>3, LenProperties
<1>5. \A i \in 1..Len(ss) : q[i] = Pasted(ss[i], texts) BY <1>1
<1>6. AllPasted(ss, texts) = FlattenSeq(q) BY DEF AllPasted
<1> HIDE DEF q
<1>7. AllPasted(ss, texts) \in Seq(Sections)
  <2>1. PICK e : e \in Concats(Sections, q) BY <1>4, ConcatsExist
  <2>2. FlattenSeq(q) = e[Len(q)] BY <2>1, <1>4, Flattened
  <2>3. e \in [0..Len(q) -> Seq(Sections)] /\ Len(q) \in 0..Len(q)
    BY <2>1, <1>1, <1>4 DEF Concats
  <2>4. QED BY <2>2, <2>3, <1>6
<1>8. ASSUME NEW t \in Begin(ss, texts, Len(ss)) PROVE t = AllPasted(ss, texts)
  <2>1. PICK e : e \in PasteSteps(ss, texts, Len(ss)) /\ t = e[Len(ss)] BY DEF Begin
  <2>2. e \in Concats(Sections, q) BY <2>1, <1>4, <1>5 DEF PasteSteps, Concats
  <2>3. FlattenSeq(q) = e[Len(q)] BY <2>2, <1>4, Flattened
  <2>4. QED BY <2>1, <2>3, <1>4, <1>6
<1>9. QED BY <1>7, <1>8

Alone(ss) == \A i \in 1..(Len(ss) - 1) : ~(IsInclude(ss[i]) /\ IsInclude(ss[i + 1]))

\* In w the first j sections of ss are done and a is the place behind them.
LooksBehind(w, a, ss, j, clean, texts) ==
  /\ \A i \in 1..j : IsInclude(ss[i]) => ss[i][2] \in clean
  /\ \E t \in Seq(Sections) : /\ t \in Begin(ss, texts, j)
                             /\ SplitBehind(w, t, ss, j)
                             /\ a = Len(t) + 1

Pastes(w, a, ss, clean, texts) ==
  \E j \in 0..Len(ss) : LooksBehind(w, a, ss, j, clean, texts)

\* A new frame has looked at nothing.
LEMMA PastesNothing ==
  ASSUME NEW ss \in Seq(Sections), NEW clean, NEW texts
  PROVE  Pastes(ss, 1, ss, clean, texts)
<1>1. Len(ss) \in Nat /\ 0 \in 0..Len(ss) BY LenProperties
<1>2. <<>> \in Begin(ss, texts, 0) /\ <<>> \in Seq(Sections) BY NothingPasted
<1>3. Behind(ss, 0) = ss
  <2>1. \A i \in 1..Len(ss) : ss[0 + i] = ss[i] OBVIOUS
  <2>2. 0 + Len(ss) <= Len(ss) BY <1>1
  <2>3. SubSeq(ss, 0 + 1, 0 + Len(ss)) = ss BY <2>1, <2>2, PartAfter
  <2>4. 0 + Len(ss) = Len(ss) BY <1>1
  <2>5. QED BY <2>3, <2>4 DEF Behind
<1>4. <<>> \o ss = ss BY ConcatEmptySeq
<1>5. PICK t \in Seq(Sections) :
        t \in Begin(ss, texts, 0) /\ SplitBehind(ss, t, ss, 0) /\ 1 = Len(t) + 1
  <2>1. 1 = Len(<<>>) + 1 OBVIOUS
  <2>2. SplitBehind(ss, <<>>, ss, 0) BY <1>3, <1>4 DEF SplitBehind
  <2>3. QED BY <2>1, <2>2, <1>2, Zenon
<1>6. LooksBehind(ss, 1, ss, 0, clean, texts) BY <1>5 DEF LooksBehind
<1>7. QED BY <1>1, <1>6 DEF Pastes

\* A step over a section that is no include.
LEMMA PastesOver ==
  ASSUME NEW w \in Seq(Sections), NEW a, NEW ss \in Seq(Sections), NEW clean,
         NEW texts \in AllTexts, Pastes(w, a, ss, clean, texts),
         a <= Len(w), ~IsInclude(w[a])
  PROVE  Pastes(w, a + 1, ss, clean, texts)
<1>1. PICK j \in 0..Len(ss) : LooksBehind(w, a, ss, j, clean, texts) BY DEF Pastes
<1>2. PICK t \in Seq(Sections) :
        t \in Begin(ss, texts, j) /\ SplitBehind(w, t, ss, j) /\ a = Len(t) + 1
  BY <1>1 DEF LooksBehind
<1>3. /\ j \in 0..(Len(ss) - 1)
      /\ w[a] = ss[j + 1]
      /\ SplitBehind(w, t \o <<ss[j + 1]>>, ss, j + 1)
  BY <1>2, NextBehind
<1>4. Pasted(ss[j + 1], texts) = <<ss[j + 1]>> BY <1>2, <1>3 DEF Pasted
<1>5. PICK u \in Seq(Sections) : u = t \o <<ss[j + 1]>> /\ u \in Begin(ss, texts, j + 1)
  <2>1. t \o <<ss[j + 1]>> \in Begin(ss, texts, j + 1) BY <1>2, <1>3, <1>4, OnePasted
  <2>2. j + 1 \in Nat BY <1>3
  <2>3. QED BY <2>1, <2>2, BeginType
<1>6. j + 1 \in 0..Len(ss) /\ \A i \in 1..(j + 1) : i \in 1..j \/ i = j + 1
  BY <1>3, LenProperties
<1>7. Len(u) = Len(t) + 1
  <2>1. j + 1 \in 1..Len(ss) BY <1>3, LenProperties
  <2>2. ss[j + 1] \in Sections BY <2>1, ElementOfSeq
  <2>3. u = Append(t, ss[j + 1]) BY <2>2, <1>5, AppendIsConcat
  <2>4. QED BY <2>2, <2>3
<1>8. \A i \in 1..(j + 1) : IsInclude(ss[i]) => ss[i][2] \in clean
  BY <1>1, <1>2, <1>3, <1>6 DEF LooksBehind
<1>9. SplitBehind(w, u, ss, j + 1) /\ a + 1 = Len(u) + 1 BY <1>2, <1>3, <1>5, <1>7
<1>10. LooksBehind(w, a + 1, ss, j + 1, clean, texts)
  BY <1>5, <1>8, <1>9 DEF LooksBehind
<1>11. QED BY <1>6, <1>10 DEF Pastes

\* The sections of a program without errors are copied; the section behind the
\* include, which is stepped over, is none.
LEMMA PastesIncluded ==
  ASSUME NEW w \in Seq(Sections), NEW a, NEW ss \in Seq(Sections), NEW clean,
         NEW texts \in AllTexts, Alone(ss), Pastes(w, a, ss, clean, texts),
         a <= Len(w), IsInclude(w[a]), w[a][2] \in clean,
         NEW p \in Seq(Sections), p # <<>>, texts[w[a][2]] = p,
         NEW v, v = Splice(w, a, p)
  PROVE  Pastes(v, NextAfter(v, a + Len(p) - 1), ss, clean, texts)
<1>1. PICK j \in 0..Len(ss) : LooksBehind(w, a, ss, j, clean, texts) BY DEF Pastes
<1>2. PICK t \in Seq(Sections) :
        t \in Begin(ss, texts, j) /\ SplitBehind(w, t, ss, j) /\ a = Len(t) + 1
  BY <1>1 DEF LooksBehind
<1>3. /\ j \in 0..(Len(ss) - 1)
      /\ w[a] = ss[j + 1]
      /\ SplitBehind(w, t \o <<ss[j + 1]>>, ss, j + 1)
  BY <1>2, NextBehind
<1>4. IsInclude(ss[j + 1]) /\ ss[j + 1][2] \in clean /\ texts[ss[j + 1][2]] = p
  BY <1>2, <1>3
<1>5. Pasted(ss[j + 1], texts) = SubSeq(p, 2, Len(p)) BY <1>4 DEF Pasted
<1>6. PICK u \in Seq(Sections) :
        u = t \o SubSeq(p, 2, Len(p)) /\ u \in Begin(ss, texts, j + 1)
  <2>1. t \o SubSeq(p, 2, Len(p)) \in Begin(ss, texts, j + 1)
    BY <1>2, <1>3, <1>5, OnePasted
  <2>2. j + 1 \in Nat BY <1>3
  <2>3. QED BY <2>1, <2>2, BeginType
<1>7. SplitBehind(v, u, ss, j + 1) BY <1>2, <1>3, <1>6, SpliceBehind
<1>8. Len(t) \in Nat /\ Len(p) \in Nat \ {0} /\ Len(ss) \in Nat BY EmptySeq, LenProperties
<1>9. Len(u) = Len(t) + (Len(p) - 1)
  <2>1. PICK q \in Seq(Sections) : q = Tail(p) /\ Len(q) = Len(p) - 1 BY HeadTailProperties
  <2>2. u = t \o q BY <2>1, <1>6, TailIsSubSeq
  <2>3. Len(t \o q) = Len(t) + Len(q) BY ConcatProperties
  <2>4. QED BY <2>1, <2>2, <2>3
<1>10. a + Len(p) - 1 = Len(u) + 1 BY <1>2, <1>8, <1>9
<1>11. j + 1 \in 0..Len(ss) /\ \A i \in 1..(j + 1) : i \in 1..j \/ i = j + 1
  BY <1>3, <1>8
<1>12. \A i \in 1..(j + 1) : IsInclude(ss[i]) => ss[i][2] \in clean
  BY <1>1, <1>4, <1>11 DEF LooksBehind
<1>13. Len(v) = Len(u) + (Len(ss) - (j + 1))
  <2>1. PICK b \in Seq(Sections) : b = Behind(ss, j + 1) /\ Len(b) = Len(ss) - (j + 1)
    BY <1>11, BehindFacts
  <2>2. Len(u \o b) = Len(u) + Len(b) BY ConcatProperties
  <2>3. QED BY <2>1, <2>2, <1>7 DEF SplitBehind
<1>14. PICK m \in Nat : m = Len(u) BY LenProperties
<1>15. CASE j + 1 = Len(ss)
  <2>1. Len(v) = m BY <1>8, <1>13, <1>14, <1>15
  <2>2. NextAfter(v, m + 1) = m + 1 BY <2>1 DEF NextAfter
  <2>3. LooksBehind(v, m + 1, ss, j + 1, clean, texts)
    BY <1>6, <1>7, <1>12, <1>14 DEF LooksBehind
  <2>4. QED BY <2>2, <2>3, <1>10, <1>11, <1>14 DEF Pastes
<1>16. CASE j + 1 # Len(ss)
  <2>1. /\ j + 1 \in 0..(Len(ss) - 1) /\ (j + 1) + 1 \in 0..Len(ss)
        /\ j + 1 \in 1..(Len(ss) - 1) /\ (j + 1) + 1 \in 1..Len(ss)
    BY <1>3, <1>8, <1>16
  <2>2. ~IsInclude(ss[(j + 1) + 1]) BY <2>1, <1>4 DEF Alone
  <2>3. Pasted(ss[(j + 1) + 1], texts) = <<ss[(j + 1) + 1]>> BY <2>2 DEF Pasted
  <2>4. PICK x \in Seq(Sections) :
          x = u \o <<ss[(j + 1) + 1]>> /\ x \in Begin(ss, texts, (j + 1) + 1)
    <3>1. u \o <<ss[(j + 1) + 1]>> \in Begin(ss, texts, (j + 1) + 1)
      BY <2>1, <2>3, <1>6, OnePasted
    <3>2. (j + 1) + 1 \in Nat BY <2>1
    <3>3. QED BY <3>1, <3>2, BeginType
  <2>5. SplitBehind(v, x, ss, (j + 1) + 1) BY <2>1, <2>4, <1>7, BehindMoves DEF SplitBehind
  <2>6. Len(x) = m + 1
    <3>1. ss[(j + 1) + 1] \in Sections BY <2>1, ElementOfSeq
    <3>2. x = Append(u, ss[(j + 1) + 1]) BY <3>1, <2>4, AppendIsConcat
    <3>3. QED BY <3>1, <3>2, <1>14
  <2>7. NextAfter(v, m + 1) = (m + 1) + 1
    <3>1. ~(m + 1 > Len(v)) BY <2>1, <1>8, <1>13, <1>14
    <3>2. QED BY <3>1 DEF NextAfter
  <2>8. \A i \in 1..((j + 1) + 1) : i \in 1..(j + 1) \/ i = (j + 1) + 1 BY <2>1
  <2>9. \A i \in 1..((j + 1) + 1) : IsInclude(ss[i]) => ss[i][2] \in clean
    BY <2>2, <2>8, <1>12
  <2>10. LooksBehind(v, (m + 1) + 1, ss, (j + 1) + 1, clean, texts)
    BY <2>4, <2>5, <2>6, <2>9 DEF LooksBehind
  <2>11. QED BY <2>1, <2>7, <2>10, <1>10, <1>14 DEF Pastes
<1>17. QED BY <1>15, <1>16

\* At the end of the loop everything has been looked at.
LEMMA PastesAll ==
  ASSUME NEW w \in Seq(Sections), NEW a, NEW ss \in Seq(Sections), NEW clean,
         NEW texts \in AllTexts, Pastes(w, a, ss, clean, texts), a > Len(w)
  PROVE  /\ w = AllPasted(ss, texts)
         /\ \A i \in DOMAIN ss : IsInclude(ss[i]) => ss[i][2] \in clean
<1>1. PICK j \in 0..Len(ss) : LooksBehind(w, a, ss, j, clean, texts) BY DEF Pastes
<1>2. PICK t \in Seq(Sections) :
        t \in Begin(ss, texts, j) /\ SplitBehind(w, t, ss, j) /\ a = Len(t) + 1
  BY <1>1 DEF LooksBehind
<1>3. PICK b \in Seq(Sections) : b = Behind(ss, j) /\ Len(b) = Len(ss) - j BY BehindFacts
<1>4. Len(t \o b) = Len(t) + Len(b) BY ConcatProperties
<1>5. Len(t) \in Nat /\ Len(ss) \in Nat /\ DOMAIN ss = 1..Len(ss) BY LenProperties
<1>6. j = Len(ss) /\ Len(b) = 0 BY <1>2, <1>3, <1>4, <1>5 DEF SplitBehind
<1>7. b = <<>> BY <1>6, EmptySeq
<1>8. w = t BY <1>2, <1>3, <1>7, ConcatEmptySeq DEF SplitBehind
<1>9. t \in Begin(ss, texts, Len(ss)) BY <1>2, <1>6
<1>10. w = AllPasted(ss, texts) BY <1>8, <1>9, AllArePasted
<1>11. QED BY <1>1, <1>5, <1>6, <1>10 DEF LooksBehind

\* Programs that are clean stay so, and more may become it.
LEMMA PastesStays ==
  ASSUME NEW w, NEW a, NEW ss, NEW clean, NEW texts, NEW more, NEW others,
         clean \subseteq more, \A p \in clean : others[p] = texts[p],
         Pastes(w, a, ss, clean, texts), Len(ss) \in Nat
  PROVE  Pastes(w, a, ss, more, others)
<1>1. PICK j \in 0..Len(ss) : LooksBehind(w, a, ss, j, clean, texts) BY DEF Pastes
<1>2. PICK t \in Seq(Sections) :
        t \in Begin(ss, texts, j) /\ SplitBehind(w, t, ss, j) /\ a = Len(t) + 1
  BY <1>1 DEF LooksBehind
<1>3. \A i \in 1..j : IsInclude(ss[i]) => others[ss[i][2]] = texts[ss[i][2]]
  BY <1>1 DEF LooksBehind
<1>4. j \in Nat OBVIOUS
<1>5. t \in Begin(ss, others, j) BY <1>2, <1>3, <1>4, SamePasted
<1>6. \A i \in 1..j : IsInclude(ss[i]) => ss[i][2] \in more BY <1>1 DEF LooksBehind
<1>7. LooksBehind(w, a, ss, j, more, others) BY <1>2, <1>5, <1>6 DEF LooksBehind
<1>8. QED BY <1>7 DEF Pastes

-----------------------------------------------------------------------------
(* The steps of the library *)

USE FileAssumption, ReplacementAssumption, EntryAssumption, DepthAssumption

LEMMA IInvInit == Init => IInv
<1> SUFFICES ASSUME Init PROVE IInv
  OBVIOUS
<1>1. stack = <<>> /\ <<>> \in Seq(Frames) /\ Len(<<>>) = 0 /\ DOMAIN <<>> = {}
  BY EmptySeq DEF Init
<1>2. \A p \in Paths : m_cache[p] = Absent BY DEF Init
<1>3. TypeOK BY <1>1 DEF Init, TypeOK
<1>4. FramesReady BY <1>1 DEF FramesReady
<1>5. LoadingIsOnStack BY <1>1, <1>2 DEF LoadingIsOnStack, OnStack
<1>6. DepthBounded
  <2>1. m_max_include_depth \in Nat BY DEF Init
  <2>2. QED BY <1>1, <2>1 DEF DepthBounded
<1>7. ValidHasVersion BY <1>2 DEF ValidHasVersion, Cached
<1>8. QED BY <1>3, <1>4, <1>5, <1>6, <1>7 DEF IInv

\* The innermost frame, when there is one.
LEMMA CurrentFacts ==
  ASSUME IInv, stack # <<>>
  PROVE  /\ Len(stack) \in Nat \ {0}
         /\ DOMAIN stack = 1..Len(stack)
         /\ Current = stack[1]
         /\ Current \in Frames
         /\ HasVersion(Current)
         /\ Current.depth = Len(stack)
<1>1. stack \in Seq(Frames) BY DEF IInv, TypeOK
<1>2. Len(stack) \in Nat \ {0} /\ DOMAIN stack = 1..Len(stack)
  BY <1>1, EmptySeq, LenProperties
<1>3. Current = stack[1] /\ Current \in Frames BY <1>1, <1>2, LenProperties DEF Current
<1>4. HasVersion(Current) BY <1>2, <1>3 DEF IInv, FramesReady
<1>5. Current.depth = Len(stack) BY <1>2, <1>3 DEF IInv, DepthBounded
<1>6. QED BY <1>2, <1>3, <1>4, <1>5

\* The include the innermost frame stands on names a path.
LEMMA TargetFacts ==
  ASSUME IInv, AtInclude
  PROVE  /\ stack # <<>> /\ AtIncludeOf(Current)
         /\ Current \in Frames /\ HasVersion(Current) /\ Current.depth = Len(stack)
         /\ Target \in Paths
<1>1. stack # <<>> /\ AtIncludeOf(Current) BY DEF AtInclude, AtIncludeOf
<1>2. Current \in Frames /\ HasVersion(Current) /\ Current.depth = Len(stack)
  BY <1>1, CurrentFacts
<1>3. Current.sections \in Seq(Sections) /\ Current.at \in 1..Len(Current.sections)
  BY <1>1, <1>2, LenProperties DEF Frames, AtIncludeOf
<1>4. Current.sections[Current.at] \in Sections BY <1>3, LenProperties
<1>5. Target \in Paths BY <1>4 DEF Target, Sections
<1>6. QED BY <1>1, <1>2, <1>5

\* A step of resolve_includes that stays in its file and in its recursion.
LEMMA SetCurrentStep ==
  ASSUME IInv, stack # <<>>, NEW f \in Frames, HasVersion(f),
         f.path = Current.path, f.depth = Current.depth,
         SetCurrent(f), UNCHANGED <<settings, m_cache, parsed>>
  PROVE  IInv'
<1>1. stack \in Seq(Frames) BY DEF IInv, TypeOK
<1>2. /\ Len(stack) \in Nat \ {0}
      /\ DOMAIN stack = 1..Len(stack)
      /\ Current = stack[1]
  BY CurrentFacts
<1>3. stack' = <<f>> \o Tail(stack) BY DEF SetCurrent
<1>4. /\ stack' \in Seq(Frames)
      /\ Len(stack') = Len(stack)
      /\ stack'[1] = f
      /\ \A i \in 2..Len(stack) : stack'[i] = stack[i]
  BY <1>1, <1>3, SetFirst
<1>5. DOMAIN stack' = DOMAIN stack BY <1>2, <1>4, LenProperties
<1>6. \A i \in DOMAIN stack : /\ stack'[i].path = stack[i].path
                             /\ stack'[i].depth = stack[i].depth
  <2>1. TAKE i \in DOMAIN stack
  <2>2. CASE i = 1 BY <2>2, <1>2, <1>4
  <2>3. CASE i # 1 BY <2>3, <1>2, <1>4
  <2>4. QED BY <2>2, <2>3
<1>7. TypeOK' BY <1>4 DEF IInv, TypeOK, settings
<1>8. FramesReady'
  <2>1. ASSUME NEW i \in DOMAIN stack PROVE HasVersion(stack'[i])
    <3>1. CASE i = 1 BY <3>1, <1>4
    <3>2. CASE i # 1
      <4>1. stack'[i] = stack[i] BY <3>2, <1>2, <1>4
      <4>2. HasVersion(stack[i]) BY DEF IInv, FramesReady
      <4>3. QED BY <4>1, <4>2
    <3>3. QED BY <3>1, <3>2
  <2>2. ASSUME NEW i \in DOMAIN stack \ {1} PROVE AtIncludeOf(stack'[i])
    <3>1. stack'[i] = stack[i] BY <1>2, <1>4
    <3>2. AtIncludeOf(stack[i]) BY DEF IInv, FramesReady
    <3>3. QED BY <3>1, <3>2
  <2>3. QED BY <2>1, <2>2, <1>5 DEF FramesReady
<1>9. LoadingIsOnStack' BY <1>5, <1>6 DEF IInv, LoadingIsOnStack, OnStack
<1>10. DepthBounded' BY <1>4, <1>5, <1>6 DEF IInv, DepthBounded, settings
<1>11. ValidHasVersion' BY DEF IInv, ValidHasVersion, Cached
<1>12. QED BY <1>7, <1>8, <1>9, <1>10, <1>11 DEF IInv

\* A file is opened on behalf of load() or of the innermost resolve_includes.
LEMMA OpenStep ==
  ASSUME IInv, NEW p \in Paths, stack # <<>> => AtIncludeOf(Current),
         Open(p, Len(stack), stack), ~TooDeep(Len(stack)), UNCHANGED settings
  PROVE  IInv'
<1> DEFINE f == [path |-> p, sections |-> files[p].sections,
                 errors |-> IF files[p].broken THEN {<<p, "syntax", p>>} ELSE {},
                 at |-> 1, depth |-> Len(stack) + 1]
<1>1. stack \in Seq(Frames) BY DEF IInv, TypeOK
<1>2. Len(stack) \in Nat /\ DOMAIN stack = 1..Len(stack) BY <1>1, LenProperties
<1>3. /\ files[p] \in Files
      /\ ~files[p].broken => files[p].sections # <<>> /\ files[p].sections[1][1] = "version"
  <2>1. files \in FileSystems /\ files[p] # Missing BY DEF IInv, TypeOK, Open
  <2>2. QED BY <2>1 DEF WellFormed
<1>4. f \in Frames /\ HasVersion(f)
  <2>1. files[p].sections \in Seq(Sections) /\ files[p].broken \in BOOLEAN
    BY <1>3 DEF Files
  <2>2. <<p, "syntax", p>> \in Errors BY DEF Errors, Reasons
  <2>3. f \in Frames BY <1>2, <2>1, <2>2 DEF Frames
  <2>4. HasVersion(f) BY <1>3, <2>1 DEF HasVersion
  <2>5. QED BY <2>3, <2>4
<1>5. stack' = <<f>> \o stack BY DEF Open
<1>6. f.path = p /\ f.depth = Len(stack) + 1 OBVIOUS
<1> HIDE DEF f
<1>7. /\ stack' \in Seq(Frames)
      /\ Len(stack') = Len(stack) + 1
      /\ stack'[1] = f
      /\ \A i \in 1..Len(stack) : stack'[i + 1] = stack[i]
  BY <1>1, <1>4, <1>5, PushFirst
<1>8. DOMAIN stack' = 1..(Len(stack) + 1) BY <1>7, LenProperties
<1>9. \A i \in 2..(Len(stack) + 1) : i - 1 \in DOMAIN stack /\ stack'[i] = stack[i - 1]
  <2>1. TAKE i \in 2..(Len(stack) + 1)
  <2>2. i - 1 \in 1..Len(stack) /\ i - 1 + 1 = i BY <1>2
  <2>3. stack'[i - 1 + 1] = stack[i - 1] BY <1>7, <2>2
  <2>4. QED BY <1>2, <2>2, <2>3
<1>10. m_cache \in [Paths -> Programs \cup {Absent, Loading}] BY DEF IInv, TypeOK
<1>11. /\ m_cache[p] = Absent
       /\ m_cache' = [m_cache EXCEPT ![p] = Loading]
  BY DEF Open
<1>12. \A q \in Paths : m_cache'[q] = IF q = p THEN Loading ELSE m_cache[q]
  BY <1>10, <1>11
<1>13. TypeOK'
  <2>1. parsed' = [parsed EXCEPT ![p] = files[p]] BY DEF Open
  <2>2. parsed' \in [Paths -> Files \cup {Absent}] BY <2>1, <1>3 DEF IInv, TypeOK
  <2>3. QED BY <2>2, <1>7, <1>10, <1>11 DEF IInv, TypeOK, settings
<1>14. FramesReady'
  <2>1. ASSUME NEW i \in 1..(Len(stack) + 1) PROVE HasVersion(stack'[i])
    <3>1. CASE i = 1 BY <3>1, <1>4, <1>7
    <3>2. CASE i # 1 BY <3>2, <1>2, <1>9 DEF IInv, FramesReady
    <3>3. QED BY <3>1, <3>2
  <2>2. ASSUME NEW i \in 2..(Len(stack) + 1) PROVE AtIncludeOf(stack'[i])
    <3>1. i - 1 \in DOMAIN stack /\ stack'[i] = stack[i - 1] BY <1>9
    <3>2. AtIncludeOf(stack[i - 1])
      <4>1. CASE i = 2
        <5>1. stack # <<>> BY <3>1, <4>1, <1>2, EmptySeq
        <5>2. Current = stack[1] BY <5>1, CurrentFacts
        <5>3. QED BY <5>1, <5>2, <4>1
      <4>2. CASE i # 2 BY <4>2, <3>1, <1>2 DEF IInv, FramesReady
      <4>3. QED BY <4>1, <4>2
    <3>3. QED BY <3>1, <3>2
  <2>3. DOMAIN stack' \ {1} = 2..(Len(stack) + 1) BY <1>2, <1>8
  <2>4. QED BY <2>1, <2>2, <2>3, <1>8 DEF FramesReady
<1>15. LoadingIsOnStack'
  <2>1. \A i \in DOMAIN stack : stack[i].path # p
    BY <1>11, EntryAssumption DEF IInv, LoadingIsOnStack, OnStack
  <2>2. ASSUME NEW q \in Paths
        PROVE  m_cache'[q] = Loading <=> \E i \in DOMAIN stack' : q = stack'[i].path
    <3>1. CASE q = p BY <3>1, <1>6, <1>2, <1>7, <1>8, <1>12
    <3>2. CASE q # p
      <4>1. m_cache[q] = Loading <=> \E i \in DOMAIN stack : q = stack[i].path
        BY DEF IInv, LoadingIsOnStack, OnStack
      <4>2. ASSUME NEW i \in DOMAIN stack', q = stack'[i].path
            PROVE  \E j \in DOMAIN stack : q = stack[j].path
        <5>1. i # 1 BY <4>2, <3>2, <1>6, <1>7
        <5>2. i \in 2..(Len(stack) + 1) BY <5>1, <1>2, <1>8
        <5>3. QED BY <5>2, <4>2, <1>9
      <4>3. ASSUME NEW j \in DOMAIN stack, q = stack[j].path
            PROVE  \E i \in DOMAIN stack' : q = stack'[i].path
        <5>1. j + 1 \in DOMAIN stack' /\ stack'[j + 1] = stack[j] BY <1>2, <1>7, <1>8
        <5>2. QED BY <5>1, <4>3
      <4>4. QED BY <4>1, <4>2, <4>3, <3>2, <1>12
    <3>3. QED BY <3>1, <3>2
  <2>3. ASSUME NEW i \in 1..(Len(stack) + 1), NEW j \in 1..(Len(stack) + 1),
               stack'[i].path = stack'[j].path
        PROVE  i = j
    <3>1. CASE i = 1 /\ j = 1 BY <3>1
    <3>2. CASE i # 1 /\ j # 1
      <4>1. i \in 2..(Len(stack) + 1) /\ j \in 2..(Len(stack) + 1) BY <3>2, <1>2
      <4>2. stack[i - 1].path = stack[j - 1].path BY <2>3, <4>1, <1>9
      <4>3. i - 1 = j - 1 BY <4>1, <4>2, <1>9 DEF IInv, LoadingIsOnStack
      <4>4. QED BY <4>3, <1>2
    <3>3. CASE i = 1 /\ j # 1
      <4>1. j \in 2..(Len(stack) + 1) BY <3>3, <1>2
      <4>2. QED BY <4>1, <3>3, <2>1, <2>3, <1>6, <1>7, <1>9
    <3>4. CASE i # 1 /\ j = 1
      <4>1. i \in 2..(Len(stack) + 1) BY <3>4, <1>2
      <4>2. QED BY <4>1, <3>4, <2>1, <2>3, <1>6, <1>7, <1>9
    <3>5. QED BY <3>1, <3>2, <3>3, <3>4
  <2>4. QED BY <2>2, <2>3, <1>8 DEF LoadingIsOnStack, OnStack
<1>16. DepthBounded'
  <2>1. Len(stack') <= m_max_include_depth' + 1
    <3>1. m_max_include_depth' = m_max_include_depth /\ m_max_include_depth \in Nat
      BY DEF IInv, TypeOK, settings
    <3>2. QED BY <3>1, <1>2, <1>7 DEF TooDeep
  <2>2. ASSUME NEW i \in DOMAIN stack' PROVE stack'[i].depth = Len(stack') + 1 - i
    <3>1. CASE i = 1 BY <3>1, <1>2, <1>6, <1>7
    <3>2. CASE i # 1
      <4>1. i \in 2..(Len(stack) + 1) BY <3>2, <1>2, <1>8
      <4>2. stack[i - 1].depth = Len(stack) + 1 - (i - 1)
        BY <4>1, <1>9 DEF IInv, DepthBounded
      <4>3. QED BY <4>1, <4>2, <1>2, <1>7, <1>9
    <3>3. QED BY <3>1, <3>2
  <2>3. QED BY <2>1, <2>2 DEF DepthBounded
<1>17. ValidHasVersion' BY <1>12 DEF IInv, ValidHasVersion, Cached
<1>18. QED BY <1>13, <1>14, <1>15, <1>16, <1>17 DEF IInv

\* A program goes into the cache.  The stack is the old one without its first
\* frame, and with another frame of the same file at the same depth in front.
LEMMA FinishFacts ==
  ASSUME IInv, Finish
  PROVE  LET prog == [sections |-> Current.sections, errors |-> Current.errors]
         IN /\ prog \in Programs /\ HasVersion(prog)
            /\ m_cache' = [m_cache EXCEPT ![Current.path] = prog]
            /\ UNCHANGED <<settings, parsed>>
            /\ stack' \in Seq(Frames)
            /\ Len(stack') = Len(stack) - 1
            /\ \A i \in 1..(Len(stack) - 1) :
                 /\ stack'[i].path = stack[i + 1].path
                 /\ stack'[i].depth = stack[i + 1].depth
                 /\ HasVersion(stack'[i])
                 /\ i # 1 => stack'[i] = stack[i + 1]
            /\ Len(stack) > 1 => stack'[1] = Included(stack[2], prog)
<1> DEFINE prog == [sections |-> Current.sections, errors |-> Current.errors]
           g == Included(stack[2], prog)
<1>1. stack \in Seq(Frames) /\ stack # <<>> BY DEF IInv, TypeOK, Finish
<1>2. /\ Len(stack) \in Nat \ {0}
      /\ DOMAIN stack = 1..Len(stack)
      /\ Current = stack[1]
      /\ Current \in Frames
      /\ HasVersion(Current)
  BY <1>1, CurrentFacts
<1>3. prog \in Programs /\ HasVersion(prog)
  <2>1. prog \in Programs BY <1>2 DEF Frames, Programs
  <2>2. HasVersion(prog) BY <1>2 DEF HasVersion
  <2>3. QED BY <2>1, <2>2
<1>4. /\ m_cache' = [m_cache EXCEPT ![Current.path] = prog]
      /\ stack' = IF Tail(stack) = <<>> THEN <<>> ELSE <<g>> \o Tail(Tail(stack))
      /\ UNCHANGED <<settings, parsed>>
  BY DEF Finish
<1> HIDE DEF prog
<1>5. /\ Tail(stack) \in Seq(Frames)
      /\ Len(Tail(stack)) = Len(stack) - 1
      /\ \A i \in 1..(Len(stack) - 1) : Tail(stack)[i] = stack[i + 1]
  BY <1>1, HeadTailProperties
<1>6. /\ stack' \in Seq(Frames)
      /\ Len(stack') = Len(stack) - 1
      /\ \A i \in 1..(Len(stack) - 1) :
           /\ stack'[i].path = stack[i + 1].path
           /\ stack'[i].depth = stack[i + 1].depth
           /\ HasVersion(stack'[i])
           /\ i # 1 => stack'[i] = stack[i + 1]
      /\ Len(stack) > 1 => stack'[1] = g
  <2>1. CASE Tail(stack) = <<>>
    <3>1. stack' = <<>> BY <2>1, <1>4
    <3>2. Len(stack) - 1 = 0 BY <2>1, <1>5, EmptySeq
    <3>3. stack' \in Seq(Frames) /\ Len(stack') = 0 BY <3>1, EmptySeq
    <3>4. 1..(Len(stack) - 1) = {} /\ ~(Len(stack) > 1) BY <3>2, <1>2
    <3>5. QED BY <3>2, <3>3, <3>4
  <2>2. CASE Tail(stack) # <<>>
    <3>1. Len(stack) - 1 \in Nat \ {0} BY <2>2, <1>5, EmptySeq
    <3>2. 2 \in DOMAIN stack \ {1} BY <3>1, <1>2
    <3>3. stack[2] \in Frames BY <3>2, <1>1, <1>2, LenProperties
    <3>4. AtIncludeOf(stack[2]) /\ HasVersion(stack[2]) BY <3>2 DEF IInv, FramesReady
    <3>5. g \in Frames /\ g.path = stack[2].path /\ g.depth = stack[2].depth /\ HasVersion(g)
      BY <3>3, <3>4, <1>3, IncludedFacts
    <3>6. stack' = <<g>> \o Tail(Tail(stack)) BY <2>2, <1>4
    <3> HIDE DEF g
    <3>7. /\ stack' \in Seq(Frames)
          /\ Len(stack') = Len(Tail(stack))
          /\ stack'[1] = g
          /\ \A i \in 2..Len(Tail(stack)) : stack'[i] = Tail(stack)[i]
      BY <2>2, <3>5, <3>6, <1>5, SetFirst
    <3>8. ASSUME NEW i \in 1..(Len(stack) - 1)
          PROVE  /\ stack'[i].path = stack[i + 1].path
                 /\ stack'[i].depth = stack[i + 1].depth
                 /\ HasVersion(stack'[i])
                 /\ i # 1 => stack'[i] = stack[i + 1]
      <4>1. CASE i = 1 BY <4>1, <3>5, <3>7
      <4>2. CASE i # 1
        <5>1. stack'[i] = stack[i + 1] BY <4>2, <3>1, <3>7, <1>5
        <5>2. i + 1 \in DOMAIN stack BY <1>2
        <5>3. HasVersion(stack[i + 1]) BY <5>2 DEF IInv, FramesReady
        <5>4. QED BY <5>1, <5>3
      <4>3. QED BY <4>1, <4>2
    <3>9. QED BY <3>7, <3>8, <1>5
  <2>3. QED BY <2>1, <2>2
<1>7. QED BY <1>3, <1>4, <1>6 DEF prog

\* So the invariant holds for what is left of the stack.
LEMMA FinishStep ==
  ASSUME IInv, Finish
  PROVE  IInv'
<1> DEFINE prog == [sections |-> Current.sections, errors |-> Current.errors]
<1>1. stack \in Seq(Frames) /\ stack # <<>> BY DEF IInv, TypeOK, Finish
<1>2. /\ Len(stack) \in Nat \ {0}
      /\ DOMAIN stack = 1..Len(stack)
      /\ Current = stack[1]
      /\ Current \in Frames
      /\ HasVersion(Current)
  BY <1>1, CurrentFacts
<1>3. prog \in Programs /\ HasVersion(prog) BY FinishFacts
<1>4. m_cache' = [m_cache EXCEPT ![Current.path] = prog] /\ UNCHANGED <<settings, parsed>>
  BY FinishFacts
<1>6. /\ stack' \in Seq(Frames)
      /\ Len(stack') = Len(stack) - 1
      /\ \A i \in 1..(Len(stack) - 1) :
           /\ stack'[i].path = stack[i + 1].path
           /\ stack'[i].depth = stack[i + 1].depth
           /\ HasVersion(stack'[i])
           /\ i # 1 => stack'[i] = stack[i + 1]
  BY FinishFacts
<1> HIDE DEF prog
<1>7. DOMAIN stack' = 1..(Len(stack) - 1) BY <1>6, LenProperties
<1>8. m_cache \in [Paths -> Programs \cup {Absent, Loading}] /\ Current.path \in Paths
  BY <1>2 DEF IInv, TypeOK, Frames
<1>9. \A q \in Paths : m_cache'[q] = IF q = Current.path THEN prog ELSE m_cache[q]
  BY <1>4, <1>8
<1>10. TypeOK'
  <2>1. m_cache' \in [Paths -> Programs \cup {Absent, Loading}] BY <1>3, <1>4, <1>8
  <2>2. QED BY <2>1, <1>4, <1>6 DEF IInv, TypeOK, settings
<1>11. FramesReady'
  <2>1. ASSUME NEW i \in DOMAIN stack' \ {1} PROVE AtIncludeOf(stack'[i])
    <3>1. stack'[i] = stack[i + 1] /\ i + 1 \in DOMAIN stack \ {1}
      BY <1>2, <1>6, <1>7
    <3>2. QED BY <3>1 DEF IInv, FramesReady
  <2>2. QED BY <2>1, <1>6, <1>7 DEF FramesReady
<1>12. LoadingIsOnStack'
  <2>1. \A i, j \in DOMAIN stack : stack[i].path = stack[j].path => i = j
    BY DEF IInv, LoadingIsOnStack
  <2>2. ASSUME NEW q \in Paths
        PROVE  m_cache'[q] = Loading <=> \E i \in DOMAIN stack' : q = stack'[i].path
    <3>1. m_cache[q] = Loading <=> \E i \in DOMAIN stack : q = stack[i].path
      BY DEF IInv, LoadingIsOnStack, OnStack
    <3>2. CASE q = Current.path
      <4>1. m_cache'[q] # Loading BY <3>2, <1>3, <1>9
      <4>2. ASSUME NEW i \in DOMAIN stack', q = stack'[i].path PROVE FALSE
        <5>1. stack[i + 1].path = stack[1].path BY <4>2, <3>2, <1>2, <1>6, <1>7
        <5>2. i + 1 \in DOMAIN stack /\ 1 \in DOMAIN stack /\ i + 1 # 1 BY <1>2, <1>7
        <5>3. QED BY <5>1, <5>2, <2>1
      <4>3. QED BY <4>1, <4>2
    <3>3. CASE q # Current.path
      <4>1. ASSUME NEW i \in DOMAIN stack, q = stack[i].path
            PROVE  \E j \in DOMAIN stack' : q = stack'[j].path
        <5>1. i # 1 BY <4>1, <3>3, <1>2
        <5>2. i - 1 \in DOMAIN stack' /\ i - 1 + 1 = i BY <5>1, <1>2, <1>7
        <5>3. stack'[i - 1].path = stack[i - 1 + 1].path BY <5>2, <1>6, <1>7
        <5>4. QED BY <5>2, <5>3, <4>1
      <4>2. ASSUME NEW j \in DOMAIN stack', q = stack'[j].path
            PROVE  \E i \in DOMAIN stack : q = stack[i].path
        <5>1. j + 1 \in DOMAIN stack /\ stack'[j].path = stack[j + 1].path
          BY <1>2, <1>6, <1>7
        <5>2. QED BY <5>1, <4>2
      <4>3. QED BY <4>1, <4>2, <3>1, <3>3, <1>9
    <3>4. QED BY <3>2, <3>3
  <2>3. ASSUME NEW i \in DOMAIN stack', NEW j \in DOMAIN stack',
               stack'[i].path = stack'[j].path
        PROVE  i = j
    <3>1. stack[i + 1].path = stack[j + 1].path BY <2>3, <1>6, <1>7
    <3>2. i + 1 \in DOMAIN stack /\ j + 1 \in DOMAIN stack BY <1>2, <1>7
    <3>3. i + 1 = j + 1 BY <3>1, <3>2, <2>1
    <3>4. QED BY <3>3, <1>2, <1>7
  <2>4. QED BY <2>2, <2>3 DEF LoadingIsOnStack, OnStack
<1>13. DepthBounded'
  <2>1. Len(stack') <= m_max_include_depth' + 1
    <3>1. m_max_include_depth' = m_max_include_depth /\ m_max_include_depth \in Nat
      BY <1>4 DEF IInv, TypeOK, settings
    <3>2. QED BY <3>1, <1>2, <1>6 DEF IInv, DepthBounded
  <2>2. ASSUME NEW i \in DOMAIN stack' PROVE stack'[i].depth = Len(stack') + 1 - i
    <3>1. i + 1 \in DOMAIN stack BY <1>2, <1>7
    <3>2. stack[i + 1].depth = Len(stack) + 1 - (i + 1) BY <3>1 DEF IInv, DepthBounded
    <3>3. stack'[i].depth = stack[i + 1].depth BY <1>6, <1>7
    <3>4. QED BY <3>2, <3>3, <1>2, <1>6, <1>7
  <2>3. QED BY <2>1, <2>2 DEF DepthBounded
<1>14. ValidHasVersion'
  <2>1. ASSUME NEW q \in Paths, Cached(q)' PROVE HasVersion(m_cache'[q])
    <3>1. CASE q = Current.path BY <3>1, <1>3, <1>9
    <3>2. CASE q # Current.path
      <4>1. m_cache'[q] = m_cache[q] BY <3>2, <1>9
      <4>2. Cached(q) BY <2>1, <4>1 DEF Cached
      <4>3. HasVersion(m_cache[q]) BY <4>2 DEF IInv, ValidHasVersion, HasVersion
      <4>4. QED BY <4>1, <4>3
    <3>3. QED BY <3>1, <3>2
  <2>2. QED BY <2>1 DEF ValidHasVersion, HasVersion
<1>15. QED BY <1>10, <1>11, <1>12, <1>13, <1>14 DEF IInv

\* Between two loads a change of the loader or of the limit disturbs nothing.
LEMMA SettingsStep ==
  ASSUME IInv, Settings
  PROVE  IInv'
<1>1. /\ stack = <<>> /\ Len(stack) = 0
      /\ UNCHANGED <<m_cache, stack, parsed>>
  BY EmptySeq DEF Settings, SetLoader, SetMaxIncludeDepth
<1>2. /\ files' \in FileSystems
      /\ m_max_include_depth' \in Depths
      /\ past' \subseteq FileSystems \X Depths
  BY DEF Settings, SetLoader, SetMaxIncludeDepth, IInv, TypeOK
<1>3. TypeOK'
  <2>1. m_cache' = m_cache /\ stack' = stack /\ parsed' = parsed BY <1>1
  <2>2. QED BY <1>2, <2>1 DEF IInv, TypeOK
<1>4. FramesReady' BY <1>1 DEF IInv, FramesReady
<1>5. LoadingIsOnStack' BY <1>1 DEF IInv, LoadingIsOnStack, OnStack
<1>6. DepthBounded'
  <2>1. m_max_include_depth' \in Nat BY <1>2
  <2>2. stack' = <<>> BY <1>1
  <2>3. DOMAIN stack' = {} /\ Len(stack') = 0 BY <2>2, EmptySeq
  <2>4. Len(stack') <= m_max_include_depth' + 1
    <3>1. \A n \in Nat : 0 <= n + 1 OBVIOUS
    <3>2. QED BY <3>1, <2>1, <2>3
  <2>5. \A i \in DOMAIN stack' : stack'[i].depth = Len(stack') + 1 - i BY <2>3
  <2>6. QED BY <2>4, <2>5 DEF DepthBounded
<1>7. ValidHasVersion' BY <1>1 DEF IInv, ValidHasVersion, Cached
<1>8. QED BY <1>3, <1>4, <1>5, <1>6, <1>7 DEF IInv

LEMMA IInvStep == IInv /\ [Next]_vars => IInv'
<1> SUFFICES ASSUME IInv, [Next]_vars PROVE IInv'
  OBVIOUS
<1>1. CASE StepOver
  <2> DEFINE f == [Current EXCEPT !.at = @ + 1]
  <2>1. stack # <<>> BY <1>1 DEF StepOver
  <2>2. Current \in Frames /\ HasVersion(Current) BY <2>1, CurrentFacts
  <2>3. f \in Frames /\ f.path = Current.path /\ f.depth = Current.depth
    BY <2>2 DEF Frames
  <2>4. f.sections = Current.sections /\ f.errors = Current.errors BY <2>2 DEF Frames
  <2>5. HasVersion(f) BY <2>2, <2>4 DEF HasVersion
  <2>6. SetCurrent(f) /\ UNCHANGED <<settings, m_cache, parsed>> BY <1>1 DEF StepOver
  <2>7. QED BY <2>1, <2>3, <2>5, <2>6, SetCurrentStep
<1>2. CASE IncludeRefused
  <2> DEFINE e == {<<Current.path, Refusal(Target, Current.depth), Target>>}
  <2>1. stack # <<>> /\ AtIncludeOf(Current) BY <1>2, TargetFacts DEF IncludeRefused
  <2>2. Current \in Frames /\ HasVersion(Current) BY <2>1, CurrentFacts
  <2>3. Target \in Paths /\ Current.path \in Paths
    BY <1>2, <2>2, TargetFacts DEF IncludeRefused, Frames
  <2>4. Refusal(Target, Current.depth) \in Reasons
    BY <1>2 DEF IncludeRefused, Refusal, Reasons
  <2>5. e \in SUBSET Errors BY <2>3, <2>4 DEF Errors
  <2>6. SetCurrent(Rejected(Current, e)) /\ UNCHANGED <<settings, m_cache, parsed>>
    BY <1>2 DEF IncludeRefused
  <2> HIDE DEF e
  <2>7. /\ Rejected(Current, e) \in Frames
        /\ Rejected(Current, e).path = Current.path
        /\ Rejected(Current, e).depth = Current.depth
        /\ HasVersion(Rejected(Current, e))
    BY <2>1, <2>2, <2>5, RejectedFacts
  <2>8. QED BY <2>1, <2>6, <2>7, SetCurrentStep
<1>3. CASE IncludeCached
  <2> DEFINE prog == m_cache[Target]
  <2>1. AtInclude BY <1>3 DEF IncludeCached
  <2>2. /\ stack # <<>> /\ AtIncludeOf(Current)
        /\ Current \in Frames /\ HasVersion(Current)
        /\ Target \in Paths
    BY <2>1, TargetFacts
  <2>3. prog \in Programs /\ HasVersion(prog)
    <3>1. Cached(Target) BY <1>3 DEF IncludeCached
    <3>2. prog \in Programs BY <2>2, <3>1 DEF IInv, TypeOK, Cached
    <3>3. HasVersion(prog) BY <2>2, <3>1 DEF IInv, ValidHasVersion, HasVersion
    <3>4. QED BY <3>2, <3>3
  <2>4. SetCurrent(Included(Current, prog)) /\ UNCHANGED <<settings, m_cache, parsed>>
    BY <1>3 DEF IncludeCached
  <2> HIDE DEF prog
  <2>5. /\ Included(Current, prog) \in Frames
        /\ Included(Current, prog).path = Current.path
        /\ Included(Current, prog).depth = Current.depth
        /\ HasVersion(Included(Current, prog))
    BY <2>2, <2>3, IncludedFacts
  <2>6. QED BY <2>2, <2>4, <2>5, SetCurrentStep
<1>4. CASE IncludeOpens
  <2>1. AtInclude BY <1>4 DEF IncludeOpens
  <2>2. /\ stack # <<>> /\ AtIncludeOf(Current)
        /\ Current \in Frames /\ Current.depth = Len(stack)
        /\ Target \in Paths
    BY <2>1, TargetFacts
  <2>3. /\ Open(Target, Len(stack), stack)
        /\ ~TooDeep(Len(stack))
        /\ UNCHANGED settings
    <3>1. Refusal(Target, Len(stack)) = "none" BY <1>4, <2>2 DEF IncludeOpens
    <3>2. ~TooDeep(Len(stack)) BY <3>1 DEF Refusal
    <3>3. QED BY <3>2, <1>4, <2>2 DEF IncludeOpens
  <2>4. QED BY <2>2, <2>3, OpenStep
<1>5. CASE Finish BY <1>5, FinishStep
<1>6. ASSUME NEW p \in Paths, Load(p) PROVE IInv'
  <2>1. stack = <<>> /\ Len(stack) = 0 /\ UNCHANGED settings BY <1>6, EmptySeq DEF Load
  <2>2. Open(p, Len(stack), stack) BY <1>6, <2>1 DEF Load
  <2>3. ~TooDeep(Len(stack)) BY <2>1 DEF TooDeep, IInv, TypeOK
  <2>4. QED BY <2>1, <2>2, <2>3, OpenStep
<1>7. CASE UNCHANGED vars
  <2>1. /\ files' = files /\ m_max_include_depth' = m_max_include_depth /\ past' = past
        /\ m_cache' = m_cache /\ stack' = stack /\ parsed' = parsed
    BY <1>7 DEF vars, settings
  <2>2. QED BY <2>1 DEF IInv, TypeOK, FramesReady, LoadingIsOnStack, OnStack,
                        DepthBounded, ValidHasVersion, Cached
<1>8. CASE Settings BY <1>8, SettingsStep
<1>9. QED BY <1>1, <1>2, <1>3, <1>4, <1>5, <1>6, <1>7, <1>8 DEF Next, Resolve

LEMMA Invariance == Spec => []IInv
BY IInvInit, IInvStep, PTL DEF Spec

-----------------------------------------------------------------------------

\* Whatever the files hold, the cache and the recursion keep their types.
THEOREM TypeCorrect == Spec => []TypeOK
<1>1. IInv => TypeOK BY DEF IInv
<1>2. QED BY <1>1, Invariance, PTL

\* Whatever the files include, the null entries of the cache mark exactly the
\* files being resolved, each of them once: `recursive inclusion detected` is
\* raised for every inclusion that would not end, and for no other.
THEOREM RecursionIsMarked == Spec => []LoadingIsOnStack
<1>1. IInv => LoadingIsOnStack BY DEF IInv
<1>2. QED BY <1>1, Invariance, PTL

\* resolve_includes never recurses deeper than m_max_include_depth allows.
THEOREM RecursionIsBounded == Spec => []DepthBounded
<1>1. IInv => DepthBounded BY DEF IInv
<1>2. QED BY <1>1, Invariance, PTL

\* Every program in the cache has a version declaration or an error, so that
\* ++cbegin() of an included program is never past its end.
THEOREM IncludedHasVersion == Spec => []ValidHasVersion
<1>1. IInv => ValidHasVersion BY DEF IInv
<1>2. QED BY <1>1, Invariance, PTL

\* No step of a load, no new loader and no new limit removes or changes a
\* program in the cache: only null and missing entries are written.
LEMMA CacheStep ==
  ASSUME IInv, [Next]_vars, NEW p \in Paths, Cached(p)
  PROVE  m_cache'[p] = m_cache[p]
<1>1. m_cache \in [Paths -> Programs \cup {Absent, Loading}] BY DEF IInv, TypeOK
<1>2. ASSUME NEW q \in Paths, NEW depth, NEW below, Open(q, depth, below)
      PROVE  m_cache'[p] = m_cache[p]
  <2>1. m_cache[q] = Absent /\ m_cache' = [m_cache EXCEPT ![q] = Loading]
    BY <1>2 DEF Open
  <2>2. p # q BY <2>1 DEF Cached
  <2>3. QED BY <2>1, <2>2, <1>1
<1>3. CASE IncludeOpens
  <2>1. Target \in Paths BY <1>3, TargetFacts DEF IncludeOpens
  <2>2. Open(Target, Current.depth, stack) BY <1>3 DEF IncludeOpens
  <2>3. QED BY <2>1, <2>2, <1>2
<1>4. CASE Finish
  <2>1. stack # <<>> BY <1>4 DEF Finish
  <2>2. 1 \in DOMAIN stack /\ Current = stack[1] /\ Current \in Frames
    BY <2>1, CurrentFacts
  <2>3. Current.path \in Paths BY <2>2 DEF Frames
  <2>4. m_cache[Current.path] = Loading
    BY <2>2, <2>3 DEF IInv, LoadingIsOnStack, OnStack
  <2>5. p # Current.path BY <2>4 DEF Cached
  <2>6. PICK prog : m_cache' = [m_cache EXCEPT ![Current.path] = prog]
    BY <1>4 DEF Finish
  <2>7. QED BY <2>5, <2>6, <1>1
<1>5. ASSUME NEW q \in Paths, Load(q) PROVE m_cache'[p] = m_cache[p]
  BY <1>5, <1>2 DEF Load
<1>6. CASE StepOver \/ IncludeRefused \/ IncludeCached \/ Settings \/ UNCHANGED vars
  BY <1>6 DEF StepOver, IncludeRefused, IncludeCached, Settings, SetLoader,
              SetMaxIncludeDepth, vars
<1>7. QED BY <1>3, <1>4, <1>5, <1>6 DEF Next, Resolve

\* The programs load() has returned stay as they were for the library's life,
\* whatever it loads later and whatever loader or limit it is given.
THEOREM CachedProgramsStay == Spec => ProgramsStay
<1>1. IInv /\ [Next]_vars => [\A p \in Paths : Cached(p) => m_cache'[p] = m_cache[p]]_vars
  BY CacheStep
<1>2. QED BY <1>1, Invariance, PTL DEF Spec, ProgramsStay

-----------------------------------------------------------------------------
(* Chains of includes, and the files at their ends                            *)

\* The recursion that defines the chains, one step of it.
ChainSteps ==
  \A p \in Paths :
    /\ Chain(p, 0) = {p}
    /\ \A k \in Nat : /\ Chain(p, k) \subseteq Paths
                      /\ Chain(p, k + 1) = UNION {Includes(q) : q \in Chain(p, k)}

LEMMA IncludesArePaths ==
  ASSUME TypeOK, NEW p \in Paths
  PROVE  Includes(p) \subseteq Paths
<1>1. CASE parsed[p] = Absent BY <1>1 DEF Includes
<1>2. CASE parsed[p] # Absent
  <2>1. parsed[p].sections \in Seq(Sections) BY <1>2 DEF TypeOK, Files
  <2>2. Range(parsed[p].sections) \subseteq Sections BY <2>1, RangeOfSeq
  <2>3. QED BY <2>2, <1>2 DEF Includes, Sections
<1>3. QED BY <1>1, <1>2

LEMMA ChainValues ==
  ASSUME TypeOK, NEW p \in Paths, NEW k \in Nat
  PROVE  \E g \in [0..k -> SUBSET Paths] :
           /\ g[0] = {p}
           /\ \A i \in 1..k : g[i] = UNION {Includes(q) : q \in g[i - 1]}
           /\ Chain(p, k) = g[k]
<1> DEFINE F == [v \in SUBSET Paths |-> UNION {Includes(q) : q \in v}]
<1>1. F \in [SUBSET Paths -> SUBSET Paths] BY IncludesArePaths
<1>2. \A v \in SUBSET Paths : F[v] = UNION {Includes(q) : q \in v} OBVIOUS
<1> HIDE DEF F
<1>3. PICK h \in [0..k -> SUBSET Paths] : h[0] = {p} /\ \A i \in 1..k : h[i] = F[h[i - 1]]
  <2>1. {p} \in SUBSET Paths OBVIOUS
  <2>2. Iterates(F, {p}, SUBSET Paths, k) # {} BY <1>1, <2>1, IteratesExist
  <2>3. QED BY <2>2 DEF Iterates
<1> DEFINE Step(g, i) == IF i = 0 THEN {p} ELSE UNION {Includes(q) : q \in g[i - 1]}
           f[i \in 0..k] == IF i = 0 THEN {p} ELSE UNION {Includes(q) : q \in f[i - 1]}
<1>4. h = [i \in 0..k |-> Step(h, i)]
  <2>1. ASSUME NEW i \in 0..k PROVE h[i] = Step(h, i)
    <3>1. CASE i = 0 BY <3>1, <1>3
    <3>2. CASE i # 0
      <4>1. i \in 1..k /\ i - 1 \in 0..k BY <3>2
      <4>2. h[i - 1] \in SUBSET Paths BY <4>1, <1>3
      <4>3. QED BY <4>1, <4>2, <1>2, <1>3, <3>2
    <3>3. QED BY <3>1, <3>2
  <2> HIDE DEF Step
  <2>2. QED BY <2>1, <1>3
<1>5. f = [i \in 0..k |-> Step(f, i)] BY <1>4
<1>6. Chain(p, k) = f[k] BY DEF Chain
<1> HIDE DEF f
<1>7. \A i \in 1..k : f[i] = UNION {Includes(q) : q \in f[i - 1]} BY <1>5
<1>8. f[0] = {p} BY <1>5
<1>9. f \in [0..k -> SUBSET Paths]
  <2> DEFINE S == {j \in Nat : j \in 0..k => f[j] \in SUBSET Paths}
  <2>1. 0 \in S BY <1>8
  <2>2. ASSUME NEW j \in Nat, j \in S PROVE j + 1 \in S
    <3>1. SUFFICES ASSUME j + 1 \in 0..k PROVE f[j + 1] \in SUBSET Paths
      OBVIOUS
    <3>2. j \in 0..k /\ f[j] \in SUBSET Paths BY <3>1, <2>2
    <3>3. f[j + 1] = UNION {Includes(q) : q \in f[j]} BY <3>1, <1>7
    <3>4. QED BY <3>2, <3>3, IncludesArePaths
  <2> HIDE DEF S
  <2>3. Nat \subseteq S BY <2>1, <2>2, AllNumbers
  <2>4. \A j \in 0..k : f[j] \in SUBSET Paths BY <2>3 DEF S
  <2>5. QED BY <2>4, <1>5
<1>10. QED BY <1>6, <1>7, <1>8, <1>9

LEMMA ChainStepsHold == TypeOK => ChainSteps
<1> SUFFICES ASSUME TypeOK, NEW p \in Paths
             PROVE  /\ Chain(p, 0) = {p}
                    /\ \A k \in Nat : /\ Chain(p, k) \subseteq Paths
                                      /\ Chain(p, k + 1) = UNION {Includes(q) : q \in Chain(p, k)}
  BY DEF ChainSteps
<1>1. Chain(p, 0) = {p}
  <2>1. PICK g \in [0..0 -> SUBSET Paths] : g[0] = {p} /\ Chain(p, 0) = g[0]
    BY ChainValues
  <2>2. QED BY <2>1
<1>2. ASSUME NEW k \in Nat
      PROVE  /\ Chain(p, k) \subseteq Paths
             /\ Chain(p, k + 1) = UNION {Includes(q) : q \in Chain(p, k)}
  <2>1. PICK g \in [0..k -> SUBSET Paths] :
          /\ g[0] = {p}
          /\ \A i \in 1..k : g[i] = UNION {Includes(q) : q \in g[i - 1]}
          /\ Chain(p, k) = g[k]
    BY ChainValues
  <2>2. PICK h \in [0..(k + 1) -> SUBSET Paths] :
          /\ h[0] = {p}
          /\ \A i \in 1..(k + 1) : h[i] = UNION {Includes(q) : q \in h[i - 1]}
          /\ Chain(p, k + 1) = h[k + 1]
    <3>1. k + 1 \in Nat OBVIOUS
    <3>2. QED BY <3>1, ChainValues
  <2> DEFINE S == {j \in Nat : j <= k => g[j] = h[j]}
  <2>3. 0 \in S BY <2>1, <2>2
  <2>4. ASSUME NEW j \in Nat, j \in S PROVE j + 1 \in S
    <3>1. SUFFICES ASSUME j + 1 <= k PROVE g[j + 1] = h[j + 1]
      OBVIOUS
    <3>2. g[j] = h[j] BY <2>4, <3>1
    <3>3. j + 1 \in 1..k /\ j + 1 \in 1..(k + 1) /\ (j + 1) - 1 = j BY <3>1
    <3>4. g[j + 1] = UNION {Includes(q) : q \in g[j]} BY <3>3, <2>1
    <3>5. h[j + 1] = UNION {Includes(q) : q \in h[j]} BY <3>3, <2>2
    <3>6. QED BY <3>2, <3>4, <3>5
  <2> HIDE DEF S
  <2>5. Nat \subseteq S BY <2>3, <2>4, AllNumbers
  <2>6. g[k] = h[k] BY <2>5 DEF S
  <2>7. h[k + 1] = UNION {Includes(q) : q \in h[k]}
    <3>1. k + 1 \in 1..(k + 1) /\ (k + 1) - 1 = k OBVIOUS
    <3>2. QED BY <3>1, <2>2
  <2>8. QED BY <2>1, <2>2, <2>6, <2>7
<1>3. QED BY <1>1, <1>2

-----------------------------------------------------------------------------

ClosedSet(S) == \A q \in S : Includes(q) \subseteq S
Within(p, n) == UNION {Chain(p, k) : k \in 0..n}

\* One more include reaches nothing new, or at least one file more.
LEMMA WithinGrows ==
  ASSUME TypeOK, IsFiniteSet(Paths), NEW p \in Paths, NEW n \in Nat
  PROVE  ClosedSet(Within(p, n)) \/ Cardinality(Within(p, n)) >= n + 1
<1> DEFINE S == {j \in Nat : ClosedSet(Within(p, j)) \/ Cardinality(Within(p, j)) >= j + 1}
<1>1. ChainSteps BY ChainStepsHold
<1>2. ASSUME NEW j \in Nat PROVE Within(p, j) \subseteq Paths /\ IsFiniteSet(Within(p, j))
  <2>1. \A k \in 0..j : Chain(p, k) \subseteq Paths BY <1>1 DEF ChainSteps
  <2>2. Within(p, j) \subseteq Paths BY <2>1 DEF Within
  <2>3. QED BY <2>2, FS_Subset
<1>3. 0 \in S
  <2>1. 0..0 = {0} OBVIOUS
  <2>2. Within(p, 0) = {p} BY <1>1, <2>1 DEF Within, ChainSteps
  <2>3. Cardinality({p}) = 1 BY FS_Singleton
  <2>4. Cardinality(Within(p, 0)) >= 0 + 1 BY <2>2, <2>3
  <2>5. QED BY <2>4
<1>4. ASSUME NEW j \in Nat, j \in S PROVE j + 1 \in S
  <2>1. \A k \in 0..j : k \in 0..(j + 1) OBVIOUS
  <2>2. Within(p, j) \subseteq Within(p, j + 1) BY <2>1 DEF Within
  <2>3. CASE ClosedSet(Within(p, j))
    <3>1. Chain(p, j) \subseteq Within(p, j) BY DEF Within
    <3>2. Chain(p, j + 1) = UNION {Includes(q) : q \in Chain(p, j)} BY <1>1 DEF ChainSteps
    <3>3. Chain(p, j + 1) \subseteq Within(p, j) BY <3>1, <3>2, <2>3 DEF ClosedSet
    <3>4. \A k \in 0..(j + 1) : k \in 0..j \/ k = j + 1 OBVIOUS
    <3>5. Within(p, j + 1) = Within(p, j) BY <2>2, <3>3, <3>4 DEF Within
    <3>6. QED BY <2>3, <3>5
  <2>4. CASE ~ClosedSet(Within(p, j))
    <3>1. PICK q \in Within(p, j) : \E r \in Includes(q) : r \notin Within(p, j)
      BY <2>4 DEF ClosedSet
    <3> PICK r \in Includes(q) : r \notin Within(p, j) BY <3>1
    <3>2. PICK k \in 0..j : q \in Chain(p, k) BY <3>1 DEF Within
    <3>3. r \in Chain(p, k + 1) BY <3>1, <3>2, <1>1 DEF ChainSteps
    <3>4. k + 1 \in 0..(j + 1) OBVIOUS
    <3>5. r \in Within(p, j + 1) BY <3>3, <3>4 DEF Within
    <3>6. j + 1 \in Nat OBVIOUS
    <3>7. IsFiniteSet(Within(p, j + 1)) BY <1>2, <3>6
    <3>8. /\ Cardinality(Within(p, j)) <= Cardinality(Within(p, j + 1))
          /\ Cardinality(Within(p, j)) # Cardinality(Within(p, j + 1))
      BY <2>2, <3>1, <3>5, <3>7, FS_Subset
    <3>9. Cardinality(Within(p, j)) \in Nat /\ Cardinality(Within(p, j + 1)) \in Nat
      BY <1>2, <3>7, FS_CardinalityType
    <3>10. Cardinality(Within(p, j)) >= j + 1 BY <1>4, <2>4
    <3>11. Cardinality(Within(p, j + 1)) >= (j + 1) + 1 BY <3>8, <3>9, <3>10
    <3>12. QED BY <3>11
  <2>5. QED BY <2>3, <2>4
<1> HIDE DEF S
<1>5. Nat \subseteq S BY <1>3, <1>4, AllNumbers
<1>6. n \in S BY <1>5
<1>7. QED BY <1>6 DEF S

\* Whatever is included by a file of the closure is in the closure.
LEMMA ClosureIsClosed ==
  ASSUME TypeOK, IsFiniteSet(Paths), NEW p \in Paths
  PROVE  /\ p \in Closure(p)
         /\ Closure(p) \subseteq Paths
         /\ ClosedSet(Closure(p))
         /\ \A k \in Nat : Chain(p, k) \subseteq Closure(p)
<1> DEFINE N == Cardinality(Paths)
<1>1. N \in Nat BY FS_CardinalityType
<1>2. ChainSteps BY ChainStepsHold
<1>3. Closure(p) = Within(p, N) BY DEF Closure, Within
<1> HIDE DEF N
<1>4. p \in Closure(p)
  <2>1. 0 \in 0..N /\ p \in Chain(p, 0) BY <1>1, <1>2 DEF ChainSteps
  <2>2. QED BY <2>1, <1>3 DEF Within
<1>5. Closure(p) \subseteq Paths BY <1>1, <1>2, <1>3 DEF Within, ChainSteps
<1>6. ClosedSet(Closure(p))
  <2>1. Cardinality(Closure(p)) <= N BY <1>5, FS_Subset DEF N
  <2>2. IsFiniteSet(Closure(p)) BY <1>5, FS_Subset
  <2>3. Cardinality(Closure(p)) \in Nat BY <2>2, FS_CardinalityType
  <2>4. ClosedSet(Within(p, N)) \/ Cardinality(Within(p, N)) >= N + 1 BY <1>1, WithinGrows
  <2>5. QED BY <2>1, <2>3, <2>4, <1>1, <1>3
<1>7. \A k \in Nat : Chain(p, k) \subseteq Closure(p)
  <2> DEFINE S == {k \in Nat : Chain(p, k) \subseteq Closure(p)}
  <2>1. 0 \in S BY <1>2, <1>4 DEF ChainSteps
  <2>2. ASSUME NEW k \in Nat, k \in S PROVE k + 1 \in S
    <3>1. Chain(p, k + 1) = UNION {Includes(q) : q \in Chain(p, k)} BY <1>2 DEF ChainSteps
    <3>2. Chain(p, k + 1) \subseteq Closure(p) BY <3>1, <2>2, <1>6 DEF ClosedSet
    <3>3. QED BY <3>2
  <2> HIDE DEF S
  <2>3. Nat \subseteq S BY <2>1, <2>2, AllNumbers
  <2>4. QED BY <2>3 DEF S
<1>8. QED BY <1>4, <1>5, <1>6, <1>7

\* It is the least set that has the file and what its files include.
LEMMA ClosureIsLeast ==
  ASSUME TypeOK, IsFiniteSet(Paths), NEW p \in Paths, NEW S, p \in S, ClosedSet(S)
  PROVE  Closure(p) \subseteq S
<1> DEFINE T == {k \in Nat : Chain(p, k) \subseteq S}
<1>1. ChainSteps BY ChainStepsHold
<1>2. 0 \in T BY <1>1 DEF ChainSteps
<1>3. ASSUME NEW k \in Nat, k \in T PROVE k + 1 \in T
  <2>1. Chain(p, k + 1) = UNION {Includes(q) : q \in Chain(p, k)} BY <1>1 DEF ChainSteps
  <2>2. Chain(p, k + 1) \subseteq S BY <2>1, <1>3 DEF ClosedSet
  <2>3. QED BY <2>2
<1> HIDE DEF T
<1>4. Nat \subseteq T BY <1>2, <1>3, AllNumbers
<1>5. Cardinality(Paths) \in Nat BY FS_CardinalityType
<1>6. \A k \in 0..Cardinality(Paths) : Chain(p, k) \subseteq S BY <1>4, <1>5 DEF T
<1>7. QED BY <1>6 DEF Closure

\* What a file includes, its own includes include too.
LEMMA ClosureOfIncluded ==
  ASSUME TypeOK, IsFiniteSet(Paths), NEW p \in Paths, NEW q \in Closure(p)
  PROVE  Closure(q) \subseteq Closure(p)
<1>1. q \in Paths /\ ClosedSet(Closure(p)) BY ClosureIsClosed
<1>2. QED BY <1>1, ClosureIsLeast

-----------------------------------------------------------------------------
(* Parsing more files, setting more loaders and limits: what was true stays   *)

\* A parsed file stays as it was parsed, and the history is never rewritten.
MoreKnown == /\ \A p \in Paths : parsed[p] # Absent => parsed'[p] = parsed[p]
             /\ past \subseteq past'

\* Errors that a program, or a frame, for the file p may have.
Justified(p, errors) ==
  \A e \in errors : e[1] \in Closure(p) /\ parsed[e[1]] # Absent /\ ErrorIsTrue(e)

LEMMA ChainStepsNext == TypeOK' => ChainSteps'
BY ChainStepsHold, PTL

LEMMA ChainsGrow ==
  ASSUME TypeOK, TypeOK', MoreKnown, NEW p \in Paths
  PROVE  /\ Includes(p) \subseteq Includes(p)'
         /\ \A k \in Nat : Chain(p, k) \subseteq Chain(p, k)'
         /\ IsFiniteSet(Paths) => Closure(p) \subseteq Closure(p)'
<1>1. \A q \in Paths : Includes(q) \subseteq Includes(q)' BY DEF MoreKnown, Includes
<1>2. ChainSteps /\ ChainSteps' BY ChainStepsHold, ChainStepsNext
<1> DEFINE S == {k \in Nat : Chain(p, k) \subseteq Chain(p, k)'}
<1>3. 0 \in S
  <2>1. Chain(p, 0) = {p} BY <1>2 DEF ChainSteps
  <2>2. Chain(p, 0)' = {p} BY <1>2 DEF ChainSteps
  <2>3. QED BY <2>1, <2>2
<1>4. ASSUME NEW k \in Nat, k \in S PROVE k + 1 \in S
  <2>1. /\ Chain(p, k) \subseteq Paths
        /\ Chain(p, k + 1) = UNION {Includes(q) : q \in Chain(p, k)}
    BY <1>2 DEF ChainSteps
  <2>2. Chain(p, k + 1)' = UNION {Includes(q)' : q \in Chain(p, k)'}
    BY <1>2 DEF ChainSteps
  <2>3. Chain(p, k + 1) \subseteq Chain(p, k + 1)' BY <2>1, <2>2, <1>1, <1>4
  <2>4. QED BY <2>3
<1> HIDE DEF S
<1>5. Nat \subseteq S BY <1>3, <1>4, AllNumbers
<1>6. \A k \in Nat : Chain(p, k) \subseteq Chain(p, k)' BY <1>5 DEF S
<1>7. ASSUME IsFiniteSet(Paths) PROVE Closure(p) \subseteq Closure(p)'
  <2>1. Cardinality(Paths) \in Nat BY <1>7, FS_CardinalityType
  <2>2. \A k \in 0..Cardinality(Paths) : Chain(p, k) \subseteq Chain(p, k)' BY <2>1, <1>6
  <2>3. QED BY <2>2 DEF Closure
<1>8. QED BY <1>1, <1>6, <1>7

LEMMA JustifiedStays ==
  ASSUME IsFiniteSet(Paths), TypeOK, TypeOK', MoreKnown,
         NEW p \in Paths, NEW errors \in SUBSET Errors, Justified(p, errors)
  PROVE  Justified(p, errors)'
<1> SUFFICES ASSUME NEW e \in errors
             PROVE  e[1] \in Closure(p)' /\ parsed'[e[1]] # Absent /\ ErrorIsTrue(e)'
  BY DEF Justified
<1>1. /\ e[1] \in Closure(p) /\ parsed[e[1]] # Absent /\ ErrorIsTrue(e)
      /\ e[1] \in Paths /\ e[2] \in Reasons /\ e[3] \in Paths
  BY DEF Justified, Errors
<1>2. e[1] \in Closure(p)' BY <1>1, ChainsGrow
<1>3. parsed'[e[1]] = parsed[e[1]] BY <1>1 DEF MoreKnown
<1>4. Includes(e[1]) \subseteq Includes(e[1])' /\ Closure(e[3]) \subseteq Closure(e[3])'
  BY <1>1, ChainsGrow
<1>5. past \subseteq past' BY DEF MoreKnown
<1>6. ErrorIsTrue(e)'
  <2>1. CASE e[2] = "syntax" BY <2>1, <1>1, <1>3 DEF ErrorIsTrue
  <2>2. CASE e[2] = "missing" BY <2>2, <1>1, <1>4, <1>5 DEF ErrorIsTrue
  <2>3. CASE e[2] = "recursion" BY <2>3, <1>1, <1>4 DEF ErrorIsTrue
  <2>4. CASE e[2] = "depth"
    <3>1. e[3] \in Includes(e[1]) /\ \E q \in Paths, c \in past : e[1] \in Chain(q, c[2])
      BY <2>4, <1>1 DEF ErrorIsTrue
    <3>2. PICK q \in Paths, c \in past : e[1] \in Chain(q, c[2]) BY <3>1
    <3>3. c[2] \in Nat BY DepthAssumption DEF TypeOK
    <3>4. e[1] \in Chain(q, c[2])' BY <3>2, <3>3, ChainsGrow
    <3>5. e[3] \in Includes(e[1])' /\ c \in past' BY <3>1, <1>4, <1>5
    <3>6. QED BY <2>4, <3>4, <3>5 DEF ErrorIsTrue
  <2>5. QED BY <2>1, <2>2, <2>3, <2>4, <1>1 DEF Reasons
<1>7. QED BY <1>1, <1>2, <1>3, <1>6

-----------------------------------------------------------------------------
(* What a frame has still to look at is from its own file                     *)

\* What was spliced in lies behind the iterator.
RestIn(f, S) == \A j \in f.at..Len(f.sections) : f.sections[j] \in S

LEMMA WithoutRest ==
  ASSUME NEW S, NEW s \in Seq(S), NEW i \in 1..Len(s)
  PROVE  \A j \in i..(Len(s) - 1) : Without(s, i)[j] = s[j + 1]
<1>1. Len(s) \in Nat /\ \A j \in 1..Len(s) : s[j] \in S BY LenProperties
<1>2. /\ SubSeq(s, 1, i - 1) \in Seq(S)
      /\ Len(SubSeq(s, 1, i - 1)) = i - 1
      /\ SubSeq(s, i + 1, Len(s)) \in Seq(S)
      /\ Len(SubSeq(s, i + 1, Len(s))) = Len(s) - i
  BY PartFacts
<1> DEFINE a == SubSeq(s, 1, i - 1)
           b == SubSeq(s, i + 1, Len(s))
<1>3. \A j \in 1..(Len(s) - i) : b[j] = s[i + j]
  <2>1. \A j \in 1..(Len(s) - (i + 1) + 1) : b[j] = s[i + 1 + j - 1]
    <3>1. i + 1 \in Int /\ Len(s) \in Int /\ \A j \in (i + 1)..Len(s) : s[j] \in S BY <1>1
    <3>2. QED BY <3>1, SubSeqProperties
  <2> HIDE DEF b
  <2>2. QED BY <2>1, <1>1
<1>4. \A j \in 1..(Len(a) + Len(b)) : (a \o b)[j] = IF j <= Len(a) THEN a[j] ELSE b[j - Len(a)]
  <2>1. a \in Seq(S) /\ b \in Seq(S) BY <1>2
  <2> HIDE DEF a, b
  <2>2. QED BY <2>1, ConcatProperties
<1>5. Len(a) = i - 1 /\ Len(b) = Len(s) - i BY <1>2
<1>6. Without(s, i) = a \o b BY DEF Without
<1> HIDE DEF a, b
<1>7. ASSUME NEW j \in i..(Len(s) - 1) PROVE Without(s, i)[j] = s[j + 1]
  <2>1. j \in 1..(Len(a) + Len(b)) /\ ~(j <= Len(a)) BY <1>1, <1>5
  <2>2. Without(s, i)[j] = b[j - (i - 1)] BY <2>1, <1>4, <1>5, <1>6
  <2>3. j - (i - 1) \in 1..(Len(s) - i) /\ i + (j - (i - 1)) = j + 1 BY <1>1
  <2>4. QED BY <2>2, <2>3, <1>3
<1>8. QED BY <1>7

LEMMA SpliceRest ==
  ASSUME NEW S, NEW s \in Seq(S), NEW i \in 1..Len(s), NEW t \in Seq(S), t # <<>>
  PROVE  \A j \in (i + Len(t) - 1)..(Len(s) - 1 + (Len(t) - 1)) :
           Splice(s, i, t)[j] = s[j - Len(t) + 2]
<1>1. Len(s) \in Nat /\ Len(t) \in Nat \ {0} /\ \A j \in 1..Len(s) : s[j] \in S
  BY LenProperties, EmptySeq
<1>2. Tail(t) \in Seq(S) /\ Len(Tail(t)) = Len(t) - 1 BY HeadTailProperties
<1>3. /\ SubSeq(s, 1, i - 1) \in Seq(S)
      /\ Len(SubSeq(s, 1, i - 1)) = i - 1
      /\ SubSeq(s, i + 1, Len(s)) \in Seq(S)
      /\ Len(SubSeq(s, i + 1, Len(s))) = Len(s) - i
  BY PartFacts
<1> DEFINE a == SubSeq(s, 1, i - 1) \o Tail(t)
           b == SubSeq(s, i + 1, Len(s))
<1>4. \A j \in 1..(Len(s) - i) : b[j] = s[i + j]
  <2>1. \A j \in 1..(Len(s) - (i + 1) + 1) : b[j] = s[i + 1 + j - 1]
    <3>1. i + 1 \in Int /\ Len(s) \in Int /\ \A j \in (i + 1)..Len(s) : s[j] \in S BY <1>1
    <3>2. QED BY <3>1, SubSeqProperties
  <2> HIDE DEF b
  <2>2. QED BY <2>1, <1>1
<1>5. a \in Seq(S) /\ Len(a) = i - 1 + (Len(t) - 1) BY <1>2, <1>3, ConcatFacts
<1>6. \A j \in 1..(Len(a) + Len(b)) : (a \o b)[j] = IF j <= Len(a) THEN a[j] ELSE b[j - Len(a)]
  <2>1. a \in Seq(S) /\ b \in Seq(S) BY <1>3, <1>5
  <2> HIDE DEF a, b
  <2>2. QED BY <2>1, ConcatProperties
<1>7. Len(b) = Len(s) - i BY <1>3
<1>8. Splice(s, i, t) = a \o b BY DEF Splice
<1> HIDE DEF a, b
<1>9. ASSUME NEW j \in (i + Len(t) - 1)..(Len(s) - 1 + (Len(t) - 1))
      PROVE  Splice(s, i, t)[j] = s[j - Len(t) + 2]
  <2>1. j \in 1..(Len(a) + Len(b)) /\ ~(j <= Len(a)) BY <1>1, <1>5, <1>7
  <2>2. Splice(s, i, t)[j] = b[j - Len(a)] BY <2>1, <1>6, <1>8
  <2>3. /\ j - Len(a) \in 1..(Len(s) - i)
        /\ i + (j - Len(a)) = j - Len(t) + 2
    BY <1>1, <1>5
  <2>4. QED BY <2>2, <2>3, <1>4
<1>10. QED BY <1>9

\* A refused include leaves only sections of the file to look at.
LEMMA RejectedRest ==
  ASSUME NEW f \in Frames, AtIncludeOf(f), NEW S, RestIn(f, S), NEW errors
  PROVE  RestIn(Rejected(f, errors), S)
<1> DEFINE s == f.sections
           w == Without(s, f.at)
           g == Rejected(f, errors)
<1>1. s \in Seq(Sections) /\ Len(s) \in Nat /\ f.at \in 1..Len(s)
  BY LenProperties DEF Frames, AtIncludeOf
<1>2. /\ Len(w) = Len(s) - 1
      /\ \A j \in f.at..(Len(s) - 1) : w[j] = s[j + 1]
  BY <1>1, WithoutFacts, WithoutRest
<1>3. g.sections = w /\ g.at = NextAfter(w, f.at) BY DEF Rejected, Frames
<1>4. \A j \in f.at..Len(s) : s[j] \in S BY DEF RestIn
<1>5. g.at \in Nat /\ f.at <= g.at BY <1>1, <1>3 DEF NextAfter
<1> HIDE DEF s, w, g
<1>6. ASSUME NEW j \in g.at..Len(g.sections) PROVE g.sections[j] \in S
  <2>1. j \in f.at..(Len(s) - 1) /\ j + 1 \in f.at..Len(s) BY <1>1, <1>2, <1>3, <1>5
  <2>2. g.sections[j] = s[j + 1] BY <2>1, <1>2, <1>3
  <2>3. QED BY <2>1, <2>2, <1>4
<1>7. QED BY <1>6 DEF RestIn, g

\* And so does an include whose sections were copied.
LEMMA IncludedRest ==
  ASSUME NEW f \in Frames, AtIncludeOf(f), NEW S, RestIn(f, S),
         NEW prog \in Programs, HasVersion(prog)
  PROVE  RestIn(Included(f, prog), S)
<1>1. CASE prog.errors # {}
  BY <1>1, RejectedRest DEF Included
<1>2. CASE prog.errors = {}
  <2> DEFINE s == f.sections
             t == prog.sections
             w == Splice(s, f.at, t)
             g == Included(f, prog)
  <2>1. s \in Seq(Sections) /\ Len(s) \in Nat /\ f.at \in 1..Len(s)
    BY LenProperties DEF Frames, AtIncludeOf
  <2>2. t \in Seq(Sections) /\ t # <<>> /\ Len(t) \in Nat \ {0}
    BY <1>2, EmptySeq, LenProperties DEF Programs, HasVersion
  <2>3. /\ Len(w) = Len(s) - 1 + (Len(t) - 1)
        /\ \A j \in (f.at + Len(t) - 1)..(Len(s) - 1 + (Len(t) - 1)) : w[j] = s[j - Len(t) + 2]
    <3> DEFINE i == f.at
    <3> HIDE DEF s, t, i
    <3>1. i \in 1..Len(s) BY <2>1 DEF i
    <3>2. Len(Splice(s, i, t)) = Len(s) - 1 + (Len(t) - 1) BY <2>1, <2>2, <3>1, SpliceFacts
    <3>3. \A j \in (i + Len(t) - 1)..(Len(s) - 1 + (Len(t) - 1)) :
            Splice(s, i, t)[j] = s[j - Len(t) + 2]
      BY <2>1, <2>2, <3>1, SpliceRest
    <3>4. QED BY <3>2, <3>3 DEF i
  <2>4. g.sections = w /\ g.at = NextAfter(w, f.at + Len(t) - 1)
    BY <1>2 DEF Included, Frames
  <2>5. \A j \in f.at..Len(s) : s[j] \in S BY DEF RestIn
  <2>6. g.at \in Nat /\ f.at + Len(t) - 1 <= g.at BY <2>1, <2>2, <2>4 DEF NextAfter
  <2> HIDE DEF s, t, w, g
  <2>7. ASSUME NEW j \in g.at..Len(g.sections) PROVE g.sections[j] \in S
    <3>1. /\ j \in (f.at + Len(t) - 1)..(Len(s) - 1 + (Len(t) - 1))
          /\ j - Len(t) + 2 \in f.at..Len(s)
      BY <2>1, <2>2, <2>3, <2>4, <2>6
    <3>2. g.sections[j] = s[j - Len(t) + 2] BY <3>1, <2>3, <2>4
    <3>3. QED BY <3>1, <3>2, <2>5
  <2>8. QED BY <2>7 DEF RestIn, g
<1>3. QED BY <1>1, <1>2

-----------------------------------------------------------------------------
(* The errors are true                                                        *)

\* A frame has justified errors and looks at sections of its own file.
FrameTrue(f) == /\ Justified(f.path, f.errors)
                /\ RestIn(f, Range(parsed[f.path].sections))

\* What is in the cache was parsed, and a frame was opened by the include the
\* frame behind it stands on: the stack is a chain of includes.
TrueInv ==
  /\ \A p \in Paths : m_cache[p] = Absent <=> parsed[p] = Absent
  /\ <<files, m_max_include_depth>> \in past
  /\ \A p \in Paths : Cached(p) => Justified(p, m_cache[p].errors)
  /\ \A i \in DOMAIN stack : FrameTrue(stack[i])
  /\ \A i \in DOMAIN stack \ {1} : stack[i].sections[stack[i].at][2] = stack[i - 1].path

LEMMA TrueInit == Init => TrueInv
<1> SUFFICES ASSUME Init PROVE TrueInv
  OBVIOUS
<1>1. DOMAIN <<>> = {} OBVIOUS
<1>2. QED BY <1>1 DEF Init, TrueInv, Cached

LEMMA FrameParsed ==
  ASSUME IInv, TrueInv, NEW i \in DOMAIN stack
  PROVE  stack[i] \in Frames /\ stack[i].path \in Paths /\ parsed[stack[i].path] \in Files
<1>1. stack[i] \in Frames BY LenProperties DEF IInv, TypeOK
<1>2. stack[i].path \in Paths BY <1>1 DEF Frames
<1>3. m_cache[stack[i].path] = Loading BY <1>2 DEF IInv, LoadingIsOnStack, OnStack
<1>4. parsed[stack[i].path] # Absent BY <1>2, <1>3, EntryAssumption DEF TrueInv
<1>5. QED BY <1>1, <1>2, <1>4 DEF IInv, TypeOK

\* The path a frame includes where it stands.
LEMMA AimIsIncluded ==
  ASSUME IInv, TrueInv, NEW i \in DOMAIN stack, AtIncludeOf(stack[i])
  PROVE  stack[i].sections[stack[i].at][2] \in Includes(stack[i].path)
<1> DEFINE f == stack[i]
<1>1. f \in Frames /\ f.path \in Paths /\ parsed[f.path] \in Files BY FrameParsed
<1>2. f.at \in Nat /\ Len(f.sections) \in Nat BY <1>1, LenProperties DEF Frames
<1>3. f.at \in f.at..Len(f.sections) BY <1>2 DEF AtIncludeOf
<1>4. RestIn(f, Range(parsed[f.path].sections)) BY DEF TrueInv, FrameTrue
<1>5. f.sections[f.at] \in Range(parsed[f.path].sections) /\ IsInclude(f.sections[f.at])
  BY <1>3, <1>4 DEF RestIn, AtIncludeOf
<1>6. parsed[f.path] # Absent
  <2>1. m_cache[f.path] = Loading BY <1>1 DEF IInv, LoadingIsOnStack, OnStack
  <2>2. QED BY <2>1, <1>1, EntryAssumption DEF TrueInv
<1>7. QED BY <1>5, <1>6 DEF Includes

\* Each frame's file includes the file of the frame it opened.
LEMMA StackIsChain ==
  ASSUME IInv, TrueInv, NEW i \in DOMAIN stack \ {1}
  PROVE  i - 1 \in DOMAIN stack /\ stack[i - 1].path \in Includes(stack[i].path)
<1>1. AtIncludeOf(stack[i]) BY DEF IInv, FramesReady
<1>2. stack[i].sections[stack[i].at][2] \in Includes(stack[i].path) BY <1>1, AimIsIncluded
<1>3. stack \in Seq(Frames) BY DEF IInv, TypeOK
<1>4. i - 1 \in DOMAIN stack BY <1>3, LenProperties
<1>5. QED BY <1>2, <1>4 DEF TrueInv

LEMMA CurrentInClosure ==
  ASSUME IInv, TrueInv, IsFiniteSet(Paths), NEW i \in DOMAIN stack
  PROVE  stack[1].path \in Closure(stack[i].path)
<1>1. stack \in Seq(Frames) /\ TypeOK BY DEF IInv, TypeOK
<1>2. Len(stack) \in Nat /\ DOMAIN stack = 1..Len(stack) BY <1>1, LenProperties
<1> DEFINE S == {k \in Nat : k + 1 \in DOMAIN stack => stack[1].path \in Closure(stack[k + 1].path)}
<1>3. 0 \in S
  <2>1. SUFFICES ASSUME 0 + 1 \in DOMAIN stack PROVE stack[1].path \in Closure(stack[1].path)
    OBVIOUS
  <2>2. stack[1].path \in Paths BY <2>1, FrameParsed
  <2>3. QED BY <2>2, <1>1, ClosureIsClosed
<1>4. ASSUME NEW k \in Nat, k \in S PROVE k + 1 \in S
  <2>1. SUFFICES ASSUME (k + 1) + 1 \in DOMAIN stack
                 PROVE  stack[1].path \in Closure(stack[(k + 1) + 1].path)
    OBVIOUS
  <2> DEFINE j == (k + 1) + 1
  <2>2. j \in DOMAIN stack \ {1} /\ j - 1 = k + 1 /\ k + 1 \in DOMAIN stack BY <2>1, <1>2
  <2> HIDE DEF j
  <2>3. stack[1].path \in Closure(stack[k + 1].path) BY <2>2, <1>4
  <2>4. stack[k + 1].path \in Includes(stack[j].path) BY <2>2, StackIsChain
  <2>5. stack[j].path \in Paths BY <2>2, FrameParsed
  <2>6. stack[k + 1].path \in Closure(stack[j].path)
    BY <2>4, <2>5, <1>1, ClosureIsClosed DEF ClosedSet
  <2>7. Closure(stack[k + 1].path) \subseteq Closure(stack[j].path)
    BY <2>5, <2>6, <1>1, ClosureOfIncluded
  <2>8. QED BY <2>3, <2>7 DEF j
<1> HIDE DEF S
<1>5. Nat \subseteq S BY <1>3, <1>4, AllNumbers
<1>6. i - 1 \in Nat /\ (i - 1) + 1 = i BY <1>2
<1>7. QED BY <1>5, <1>6 DEF S

\* The innermost file is at the end of a chain of as many includes as there are
\* frames behind it, from the file that load() was called for.
LEMMA CurrentAtDepth ==
  ASSUME IInv, TrueInv, stack # <<>>
  PROVE  stack[1].path \in Chain(stack[Len(stack)].path, Len(stack) - 1)
<1>1. stack \in Seq(Frames) /\ TypeOK BY DEF IInv, TypeOK
<1>2. Len(stack) \in Nat \ {0} /\ DOMAIN stack = 1..Len(stack) BY <1>1, LenProperties, EmptySeq
<1> DEFINE n == Len(stack)
           p == stack[n].path
           S == {k \in Nat : k < n => stack[n - k].path \in Chain(p, k)}
<1>3. ChainSteps BY <1>1, ChainStepsHold
<1>4. p \in Paths BY <1>2, FrameParsed
<1>5. n \in Nat \ {0} /\ DOMAIN stack = 1..n BY <1>2
<1>6. stack[n].path = p OBVIOUS
<1> HIDE DEF p, n
<1>7. 0 \in S
  <2>1. n - 0 = n BY <1>5
  <2>2. Chain(p, 0) = {p} BY <1>3, <1>4 DEF ChainSteps
  <2>3. QED BY <2>1, <2>2, <1>6
<1>8. ASSUME NEW k \in Nat, k \in S PROVE k + 1 \in S
  <2>1. SUFFICES ASSUME k + 1 < n PROVE stack[n - (k + 1)].path \in Chain(p, k + 1)
    OBVIOUS
  <2>2. n - k \in DOMAIN stack \ {1} /\ (n - k) - 1 = n - (k + 1) BY <2>1, <1>5
  <2>3. stack[n - (k + 1)].path \in Includes(stack[n - k].path) BY <2>2, StackIsChain
  <2>4. stack[n - k].path \in Chain(p, k) BY <2>1, <1>5, <1>8
  <2>5. Chain(p, k + 1) = UNION {Includes(q) : q \in Chain(p, k)}
    BY <1>3, <1>4 DEF ChainSteps
  <2>6. QED BY <2>3, <2>4, <2>5
<1> HIDE DEF S
<1>9. Nat \subseteq S BY <1>7, <1>8, AllNumbers
<1>10. n - 1 \in S /\ n - 1 < n /\ n - (n - 1) = 1 BY <1>5, <1>9
<1>11. QED BY <1>10 DEF S, n, p

\* The reason that _load gives for a refusal is the real one.
LEMMA RefusalIsTrue ==
  ASSUME IInv, TrueInv, IsFiniteSet(Paths), AtInclude,
         Refusal(Target, Current.depth) # "none"
  PROVE  /\ {<<Current.path, Refusal(Target, Current.depth), Target>>} \in SUBSET Errors
         /\ Justified(Current.path, {<<Current.path, Refusal(Target, Current.depth), Target>>})
<1> DEFINE why == Refusal(Target, Current.depth)
           e == <<Current.path, why, Target>>
<1>1. /\ stack # <<>> /\ AtIncludeOf(Current) /\ Current.depth = Len(stack)
      /\ Target \in Paths /\ Current \in Frames
  BY TargetFacts
<1>2. 1 \in DOMAIN stack /\ Current = stack[1] /\ Len(stack) \in Nat \ {0}
      /\ DOMAIN stack = 1..Len(stack)
  BY <1>1, CurrentFacts
<1>3. TypeOK /\ m_max_include_depth \in Nat /\ files \in FileSystems
  BY DepthAssumption DEF IInv, TypeOK
<1>4. Current.path \in Paths /\ parsed[Current.path] # Absent
  <2>1. Current.path \in Paths BY <1>1 DEF Frames
  <2>2. m_cache[Current.path] = Loading BY <1>2, <2>1 DEF IInv, LoadingIsOnStack, OnStack
  <2>3. QED BY <2>1, <2>2, EntryAssumption DEF TrueInv
<1>5. Target \in Includes(Current.path)
  BY <1>1, <1>2, AimIsIncluded DEF Target
<1>6. Current.path \in Closure(Current.path) BY <1>3, <1>4, ClosureIsClosed
<1>7. e[1] = Current.path /\ e[2] = why /\ e[3] = Target OBVIOUS
<1>8. <<files, m_max_include_depth>> \in past BY DEF TrueInv
<1>9. why \in Reasons /\ ErrorIsTrue(e)
  <2>1. CASE TooDeep(Len(stack))
    <3>1. why = "depth" BY <2>1, <1>1 DEF Refusal
    <3>2. Len(stack) - 1 = m_max_include_depth
      <4>1. Len(stack) <= m_max_include_depth + 1 BY DEF IInv, DepthBounded
      <4>2. Len(stack) > m_max_include_depth BY <2>1 DEF TooDeep
      <4>3. Len(stack) \in Nat /\ m_max_include_depth \in Nat BY <1>2, <1>3
      <4>4. QED BY <4>1, <4>2, <4>3
    <3>3. Current.path \in Chain(stack[Len(stack)].path, m_max_include_depth)
      BY <1>1, <1>2, <3>2, CurrentAtDepth
    <3>4. stack[Len(stack)].path \in Paths BY <1>2, FrameParsed
    <3>5. <<files, m_max_include_depth>>[2] = m_max_include_depth OBVIOUS
    <3>6. \E p \in Paths, c \in past : e[1] \in Chain(p, c[2])
      BY <3>3, <3>4, <3>5, <1>7, <1>8
    <3> HIDE DEF e, why
    <3>7. QED BY <3>1, <3>6, <1>5, <1>7 DEF ErrorIsTrue, Reasons
  <2>2. CASE ~TooDeep(Len(stack)) /\ m_cache[Target] = Loading
    <3>1. why = "recursion" BY <2>2, <1>1, EntryAssumption DEF Refusal
    <3>2. PICK i \in DOMAIN stack : Target = stack[i].path
      BY <2>2, <1>1 DEF IInv, LoadingIsOnStack, OnStack
    <3>3. Current.path \in Closure(Target) BY <1>2, <3>2, CurrentInClosure
    <3> HIDE DEF e, why
    <3>4. QED BY <3>1, <3>3, <1>5, <1>7 DEF ErrorIsTrue, Reasons
  <2>3. CASE ~TooDeep(Len(stack)) /\ m_cache[Target] # Loading
    <3>1. why = "missing" /\ files[Target] = Missing BY <2>3, <1>1 DEF Refusal
    <3>2. <<files, m_max_include_depth>>[1] = files OBVIOUS
    <3>3. \E c \in past : c[1][e[3]] = Missing BY <3>1, <3>2, <1>7, <1>8
    <3> HIDE DEF e, why
    <3>4. QED BY <3>1, <3>3, <1>5, <1>7 DEF ErrorIsTrue, Reasons
  <2>4. QED BY <2>1, <2>2, <2>3
<1>10. e \in Errors BY <1>1, <1>4, <1>9 DEF Errors
<1> HIDE DEF e, why
<1>11. Justified(Current.path, {e}) BY <1>4, <1>6, <1>7, <1>9 DEF Justified
<1>12. QED BY <1>10, <1>11 DEF e, why

-----------------------------------------------------------------------------

LEMMA FrameTrueStays ==
  ASSUME IsFiniteSet(Paths), TypeOK, TypeOK', MoreKnown,
         NEW f \in Frames, parsed[f.path] # Absent, FrameTrue(f)
  PROVE  FrameTrue(f)'
<1>1. f.path \in Paths /\ f.errors \in SUBSET Errors BY DEF Frames
<1>2. Justified(f.path, f.errors)' BY <1>1, JustifiedStays DEF FrameTrue
<1>3. parsed'[f.path] = parsed[f.path] BY <1>1 DEF MoreKnown
<1>4. RestIn(f, Range(parsed'[f.path].sections)) BY <1>3 DEF FrameTrue
<1>5. QED BY <1>2, <1>4 DEF FrameTrue

\* An include that is refused, or that brings the errors or the sections of a
\* program for a file of the closure, leaves a frame that is true.
LEMMA RejectedIsTrue ==
  ASSUME NEW f \in Frames, AtIncludeOf(f), HasVersion(f), FrameTrue(f),
         NEW errors \in SUBSET Errors, Justified(f.path, errors)
  PROVE  FrameTrue(Rejected(f, errors))
<1>1. Rejected(f, errors).path = f.path BY RejectedFacts
<1>2. Rejected(f, errors).errors = f.errors \cup errors BY DEF Rejected, Frames
<1>3. Justified(f.path, f.errors \cup errors) BY DEF FrameTrue, Justified
<1>4. RestIn(Rejected(f, errors), Range(parsed[f.path].sections))
  BY RejectedRest DEF FrameTrue
<1>5. QED BY <1>1, <1>2, <1>3, <1>4 DEF FrameTrue

LEMMA IncludedIsTrue ==
  ASSUME IsFiniteSet(Paths), TypeOK,
         NEW f \in Frames, AtIncludeOf(f), HasVersion(f), FrameTrue(f),
         NEW q \in Includes(f.path),
         NEW prog \in Programs, HasVersion(prog), Justified(q, prog.errors)
  PROVE  FrameTrue(Included(f, prog))
<1>1. f.path \in Paths BY DEF Frames
<1>2. q \in Closure(f.path) BY <1>1, ClosureIsClosed DEF ClosedSet
<1>3. Closure(q) \subseteq Closure(f.path) BY <1>1, <1>2, ClosureOfIncluded
<1>4. Justified(f.path, prog.errors) BY <1>3 DEF Justified
<1>5. prog.errors \in SUBSET Errors BY DEF Programs
<1>6. CASE prog.errors # {}
  <2>1. Included(f, prog) = Rejected(f, prog.errors) BY <1>6 DEF Included
  <2>2. QED BY <2>1, <1>4, <1>5, RejectedIsTrue
<1>7. CASE prog.errors = {}
  <2>1. Included(f, prog).path = f.path BY IncludedFacts
  <2>2. Included(f, prog).errors = f.errors BY <1>7 DEF Included, Frames
  <2>3. RestIn(Included(f, prog), Range(parsed[f.path].sections))
    BY IncludedRest DEF FrameTrue
  <2>4. QED BY <2>1, <2>2, <2>3 DEF FrameTrue
<1>8. QED BY <1>6, <1>7

\* A step that stays in its file.
LEMMA SetCurrentTrue ==
  ASSUME IsFiniteSet(Paths), IInv, IInv', TrueInv, stack # <<>>,
         NEW f \in Frames, f.path = Current.path, FrameTrue(f),
         SetCurrent(f), UNCHANGED <<settings, m_cache, parsed>>
  PROVE  TrueInv'
<1>1. stack \in Seq(Frames) /\ TypeOK /\ TypeOK' BY DEF IInv, TypeOK
<1>2. /\ Len(stack) \in Nat \ {0}
      /\ DOMAIN stack = 1..Len(stack)
      /\ Current = stack[1]
  BY CurrentFacts
<1>3. stack' = <<f>> \o Tail(stack) BY DEF SetCurrent
<1>4. /\ stack' \in Seq(Frames)
      /\ Len(stack') = Len(stack)
      /\ stack'[1] = f
      /\ \A i \in 2..Len(stack) : stack'[i] = stack[i]
  BY <1>1, <1>3, SetFirst
<1>5. DOMAIN stack' = DOMAIN stack BY <1>2, <1>4, LenProperties
<1>6. MoreKnown BY DEF MoreKnown, settings
<1>7. ASSUME NEW p \in Paths PROVE m_cache'[p] = Absent <=> parsed'[p] = Absent
  BY DEF TrueInv
<1>8. <<files', m_max_include_depth'>> \in past' BY DEF TrueInv, settings
<1>9. ASSUME NEW p \in Paths, Cached(p)' PROVE Justified(p, m_cache[p].errors)'
  <2>1. Cached(p) BY <1>9 DEF Cached
  <2>2. PICK errors : errors = m_cache[p].errors OBVIOUS
  <2>3. errors \in SUBSET Errors BY <2>1, <2>2, <1>1 DEF TypeOK, Cached, Programs
  <2>4. Justified(p, errors) BY <2>1, <2>2 DEF TrueInv
  <2>5. Justified(p, errors)' BY <2>3, <2>4, <1>1, <1>6, JustifiedStays
  <2>6. m_cache'[p].errors = errors BY <2>2
  <2>7. QED BY <2>5, <2>6
<1>10. ASSUME NEW i \in DOMAIN stack' PROVE FrameTrue(stack[i])'
  <2>1. PICK g : g = stack'[i] OBVIOUS
  <2>2. g \in Frames /\ FrameTrue(g) /\ parsed[g.path] # Absent
    <3>1. CASE i = 1
      <4>1. g = f BY <3>1, <2>1, <1>4
      <4>2. 1 \in DOMAIN stack BY <1>2
      <4>3. f.path \in Paths /\ m_cache[f.path] = Loading
        BY <4>2, <1>2, FrameParsed DEF IInv, LoadingIsOnStack, OnStack
      <4>4. parsed[f.path] # Absent BY <4>3, EntryAssumption DEF TrueInv
      <4>5. QED BY <4>1, <4>4
    <3>2. CASE i # 1
      <4>1. i \in DOMAIN stack /\ g = stack[i] BY <3>2, <2>1, <1>2, <1>4, <1>5
      <4>2. g \in Frames /\ FrameTrue(g) /\ g.path \in Paths BY <4>1, FrameParsed DEF TrueInv
      <4>3. m_cache[g.path] = Loading
        BY <4>1, <4>2 DEF IInv, LoadingIsOnStack, OnStack
      <4>4. QED BY <4>2, <4>3, EntryAssumption DEF TrueInv
    <3>3. QED BY <3>1, <3>2
  <2>3. FrameTrue(g)' BY <2>2, <1>1, <1>6, FrameTrueStays
  <2>4. QED BY <2>1, <2>3
<1>11. ASSUME NEW i \in DOMAIN stack' \ {1}
       PROVE  stack'[i].sections[stack'[i].at][2] = stack'[i - 1].path
  <2>1. i \in DOMAIN stack \ {1} /\ i \in 2..Len(stack) /\ i - 1 \in 1..Len(stack)
    BY <1>2, <1>5
  <2>2. stack'[i] = stack[i] /\ stack[i].sections[stack[i].at][2] = stack[i - 1].path
    BY <2>1, <1>4 DEF TrueInv
  <2>3. stack'[i - 1].path = stack[i - 1].path
    <3>1. CASE i - 1 = 1 BY <3>1, <1>2, <1>4
    <3>2. CASE i - 1 # 1 BY <3>2, <2>1, <1>4
    <3>3. QED BY <3>1, <3>2
  <2>4. QED BY <2>2, <2>3
<1>12. QED BY <1>7, <1>8, <1>9, <1>10, <1>11 DEF TrueInv

\* A file is opened: what is parsed is put down before anything is included.
LEMMA OpenTrue ==
  ASSUME IsFiniteSet(Paths), IInv, IInv', TrueInv, NEW p \in Paths,
         stack # <<>> => AtIncludeOf(Current) /\ p = Target,
         Open(p, Len(stack), stack), UNCHANGED settings
  PROVE  TrueInv'
<1>0. PICK f :
        f = [path |-> p, sections |-> files[p].sections,
             errors |-> IF files[p].broken THEN {<<p, "syntax", p>>} ELSE {},
             at |-> 1, depth |-> Len(stack) + 1]
  OBVIOUS
<1>1. stack \in Seq(Frames) /\ stack' \in Seq(Frames) /\ TypeOK /\ TypeOK' BY DEF IInv, TypeOK
<1>2. Len(stack) \in Nat /\ DOMAIN stack = 1..Len(stack) BY <1>1, LenProperties
<1>3. /\ m_cache[p] = Absent
      /\ m_cache' = [m_cache EXCEPT ![p] = Loading]
      /\ parsed' = [parsed EXCEPT ![p] = files[p]]
      /\ stack' = <<f>> \o stack
  BY <1>0 DEF Open
<1>4. files[p] \in Files /\ files[p] # Absent
  <2>1. files[p] \in Files BY <1>1, FileAssumption DEF TypeOK, Open
  <2>2. QED BY <2>1, EntryAssumption
<1>5. parsed[p] = Absent BY <1>3 DEF TrueInv
<1>6. \A q \in Paths : parsed'[q] = IF q = p THEN files[p] ELSE parsed[q]
  BY <1>1, <1>3 DEF TypeOK
<1>7. \A q \in Paths : m_cache'[q] = IF q = p THEN Loading ELSE m_cache[q]
  BY <1>1, <1>3 DEF TypeOK
<1>8. MoreKnown BY <1>5, <1>6 DEF MoreKnown, settings
<1>9. ASSUME NEW q \in Paths PROVE m_cache'[q] = Absent <=> parsed'[q] = Absent
  BY <1>4, <1>6, <1>7, EntryAssumption DEF TrueInv
<1>10. <<files', m_max_include_depth'>> \in past' BY DEF TrueInv, settings
<1>11. ASSUME NEW q \in Paths, Cached(q)' PROVE Justified(q, m_cache[q].errors)'
  <2>1. m_cache'[q] = m_cache[q] /\ Cached(q) BY <1>7, <1>11 DEF Cached
  <2>2. PICK errors : errors = m_cache[q].errors OBVIOUS
  <2>3. errors \in SUBSET Errors BY <2>1, <2>2, <1>1 DEF TypeOK, Cached, Programs
  <2>4. Justified(q, errors) BY <2>1, <2>2 DEF TrueInv
  <2>5. Justified(q, errors)' BY <2>3, <2>4, <1>1, <1>8, JustifiedStays
  <2>6. m_cache'[q].errors = errors BY <2>1, <2>2
  <2>7. QED BY <2>5, <2>6
<1>12. FrameTrue(f)'
  <2>1. p \in Closure(p)'
    <3>1. ChainSteps' BY <1>1, ChainStepsNext
    <3>2. p \in Chain(p, 0)' BY <3>1 DEF ChainSteps
    <3>3. 0 \in 0..Cardinality(Paths) BY FS_CardinalityType
    <3>4. QED BY <3>2, <3>3 DEF Closure
  <2>2. parsed'[p] = files[p] BY <1>6
  <2>3. ASSUME NEW e \in f.errors
        PROVE  e[1] \in Closure(p)' /\ parsed'[e[1]] # Absent /\ ErrorIsTrue(e)'
    <3>1. e = <<p, "syntax", p>> /\ files[p].broken BY <1>0
    <3>2. e[1] = p /\ e[2] = "syntax" BY <3>1
    <3>3. ErrorIsTrue(e)' BY <3>1, <3>2, <2>2 DEF ErrorIsTrue
    <3>4. QED BY <3>2, <3>3, <2>1, <2>2, <1>4
  <2>4. Justified(f.path, f.errors)'
    <3>1. f.path = p BY <1>0
    <3>2. QED BY <3>1, <2>3 DEF Justified
  <2>5. RestIn(f, Range(parsed'[p].sections))
    <3>1. files[p].sections \in Seq(Sections) BY <1>4 DEF Files
    <3>2. DOMAIN files[p].sections = 1..Len(files[p].sections) BY <3>1, LenProperties
    <3>3. QED BY <3>2, <2>2, <1>0 DEF RestIn, Range
  <2>6. f.path = p BY <1>0
  <2>7. QED BY <2>4, <2>5, <2>6 DEF FrameTrue
<1>13. f.path = p BY <1>0
<1>14. /\ Len(stack') = Len(stack) + 1
       /\ DOMAIN stack' = 1..(Len(stack) + 1)
       /\ stack'[1] = f
       /\ \A i \in 1..Len(stack) : stack'[i + 1] = stack[i]
  <2>1. f \in Frames
    <3>1. files[p].sections \in Seq(Sections) /\ files[p].broken \in BOOLEAN BY <1>4 DEF Files
    <3>2. <<p, "syntax", p>> \in Errors BY DEF Errors, Reasons
    <3>3. QED BY <3>1, <3>2, <1>0, <1>2 DEF Frames
  <2>2. stack' = <<f>> \o stack BY <1>3
  <2>3. /\ Len(stack') = Len(stack) + 1
        /\ stack'[1] = f
        /\ \A i \in 1..Len(stack) : stack'[i + 1] = stack[i]
    BY <2>1, <2>2, <1>1, PushFirst
  <2>4. QED BY <2>3, <1>1, LenProperties
<1>15. \A i \in 2..(Len(stack) + 1) : i - 1 \in DOMAIN stack /\ stack'[i] = stack[i - 1]
  <2>1. TAKE i \in 2..(Len(stack) + 1)
  <2>2. i - 1 \in 1..Len(stack) /\ (i - 1) + 1 = i BY <1>2
  <2>3. stack'[(i - 1) + 1] = stack[i - 1] BY <1>14, <2>2
  <2>4. QED BY <1>2, <2>2, <2>3
<1>16. ASSUME NEW i \in DOMAIN stack' PROVE FrameTrue(stack[i])'
  <2>1. CASE i = 1
    <3>1. stack'[i] = f BY <2>1, <1>14
    <3>2. QED BY <3>1, <1>12
  <2>2. CASE i # 1
    <3>1. PICK g : g = stack'[i] OBVIOUS
    <3>2. i - 1 \in DOMAIN stack /\ g = stack[i - 1] BY <3>1, <2>2, <1>2, <1>14, <1>15
    <3>3. g \in Frames /\ FrameTrue(g) /\ g.path \in Paths BY <3>2, FrameParsed DEF TrueInv
    <3>4. m_cache[g.path] = Loading BY <3>2, <3>3 DEF IInv, LoadingIsOnStack, OnStack
    <3>5. parsed[g.path] # Absent BY <3>3, <3>4, EntryAssumption DEF TrueInv
    <3>6. FrameTrue(g)' BY <3>3, <3>5, <1>1, <1>8, FrameTrueStays
    <3>7. QED BY <3>1, <3>6
  <2>3. QED BY <2>1, <2>2
<1>17. ASSUME NEW i \in DOMAIN stack' \ {1}
       PROVE  stack'[i].sections[stack'[i].at][2] = stack'[i - 1].path
  <2>1. i \in 2..(Len(stack) + 1) BY <1>2, <1>14
  <2>2. i - 1 \in DOMAIN stack /\ stack'[i] = stack[i - 1] BY <2>1, <1>15
  <2>3. CASE i = 2
    <3>1. stack # <<>> BY <2>2, <1>2, EmptySeq
    <3>2. Current = stack[1] BY <3>1, CurrentFacts
    <3>3. Current.sections[Current.at][2] = p BY <3>1 DEF Target
    <3>4. stack'[i - 1] = f BY <2>3, <1>14
    <3>5. QED BY <3>2, <3>3, <3>4, <2>2, <2>3, <1>13
  <2>4. CASE i # 2
    <3>1. i - 1 \in 2..(Len(stack) + 1) /\ i - 1 \in DOMAIN stack \ {1}
      BY <2>1, <2>2, <2>4, <1>2
    <3>2. stack'[i - 1] = stack[(i - 1) - 1] BY <3>1, <1>15
    <3>3. stack[i - 1].sections[stack[i - 1].at][2] = stack[(i - 1) - 1].path
      BY <3>1 DEF TrueInv
    <3>4. QED BY <3>2, <3>3, <2>2
  <2>5. QED BY <2>3, <2>4
<1>18. QED BY <1>9, <1>10, <1>11, <1>16, <1>17 DEF TrueInv

\* What a frame hands to the one behind it was justified, and that one
\* includes its file.
LEMMA FinishTrue ==
  ASSUME IsFiniteSet(Paths), IInv, IInv', TrueInv, Finish
  PROVE  TrueInv'
<1> DEFINE prog == [sections |-> Current.sections, errors |-> Current.errors]
<1>1. stack \in Seq(Frames) /\ stack' \in Seq(Frames) /\ TypeOK /\ TypeOK' BY DEF IInv, TypeOK
<1>2. /\ Len(stack) \in Nat \ {0} /\ DOMAIN stack = 1..Len(stack)
      /\ Current = stack[1] /\ Current \in Frames /\ HasVersion(Current)
  BY CurrentFacts DEF Finish
<1>3. /\ prog \in Programs /\ HasVersion(prog)
      /\ m_cache' = [m_cache EXCEPT ![Current.path] = prog]
      /\ UNCHANGED <<settings, parsed>>
  BY FinishFacts
<1>4. /\ Len(stack') = Len(stack) - 1
      /\ \A i \in 1..(Len(stack) - 1) :
           /\ stack'[i].path = stack[i + 1].path
           /\ i # 1 => stack'[i] = stack[i + 1]
      /\ Len(stack) > 1 => stack'[1] = Included(stack[2], prog)
  BY FinishFacts
<1>5. Justified(Current.path, prog.errors) BY <1>2 DEF TrueInv, FrameTrue
<1>6. prog.errors \in SUBSET Errors BY <1>3 DEF Programs
<1> HIDE DEF prog
<1>7. DOMAIN stack' = 1..(Len(stack) - 1) BY <1>1, <1>4, LenProperties
<1>8. MoreKnown BY <1>3 DEF MoreKnown, settings
<1>9. Current.path \in Paths /\ parsed[Current.path] # Absent
  <2>1. Current.path \in Paths /\ m_cache[Current.path] = Loading
    BY <1>2, FrameParsed DEF IInv, LoadingIsOnStack, OnStack
  <2>2. QED BY <2>1, EntryAssumption DEF TrueInv
<1>10. \A q \in Paths : m_cache'[q] = IF q = Current.path THEN prog ELSE m_cache[q]
  BY <1>1, <1>3 DEF TypeOK
<1>11. ASSUME NEW q \in Paths PROVE m_cache'[q] = Absent <=> parsed'[q] = Absent
  BY <1>3, <1>9, <1>10, EntryAssumption DEF TrueInv
<1>12. <<files', m_max_include_depth'>> \in past' BY <1>3 DEF TrueInv, settings
<1>13. ASSUME NEW q \in Paths, Cached(q)' PROVE Justified(q, m_cache[q].errors)'
  <2>1. PICK errors : errors = m_cache'[q].errors OBVIOUS
  <2>2. errors \in SUBSET Errors /\ Justified(q, errors)
    <3>1. CASE q = Current.path BY <3>1, <2>1, <1>5, <1>6, <1>10
    <3>2. CASE q # Current.path
      <4>1. m_cache'[q] = m_cache[q] /\ Cached(q) BY <3>2, <1>10, <1>13 DEF Cached
      <4>2. QED BY <4>1, <2>1, <1>1 DEF TypeOK, Cached, Programs, TrueInv
    <3>3. QED BY <3>1, <3>2
  <2>3. Justified(q, errors)' BY <2>2, <1>1, <1>8, JustifiedStays
  <2>4. QED BY <2>1, <2>3
<1>14. ASSUME NEW i \in DOMAIN stack' PROVE FrameTrue(stack[i])'
  <2>1. PICK g : g = stack'[i] OBVIOUS
  <2>2. i + 1 \in DOMAIN stack \ {1} /\ g.path = stack[i + 1].path
    BY <2>1, <1>2, <1>4, <1>7
  <2>3. g \in Frames BY <2>1, <1>1, LenProperties
  <2>4. FrameTrue(g)
    <3>1. CASE i = 1
      <4>1. 2 \in DOMAIN stack \ {1} /\ 2 - 1 = 1 BY <2>2, <3>1
      <4>2. stack[2] \in Frames /\ AtIncludeOf(stack[2]) /\ HasVersion(stack[2])
        BY <4>1, FrameParsed DEF IInv, FramesReady
      <4>3. Current.path \in Includes(stack[2].path) BY <4>1, <1>2, StackIsChain
      <4>4. FrameTrue(stack[2]) BY <4>1 DEF TrueInv
      <4>5. FrameTrue(Included(stack[2], prog))
        BY <4>2, <4>3, <4>4, <1>1, <1>3, <1>5, IncludedIsTrue
      <4>6. g = Included(stack[2], prog) BY <2>1, <2>2, <3>1, <1>2, <1>4
      <4>7. QED BY <4>5, <4>6
    <3>2. CASE i # 1
      <4>1. g = stack[i + 1] BY <3>2, <2>1, <1>4, <1>7
      <4>2. QED BY <4>1, <2>2 DEF TrueInv
    <3>3. QED BY <3>1, <3>2
  <2>5. parsed[g.path] # Absent
    <3>1. g.path \in Paths /\ m_cache[g.path] = Loading
      BY <2>2, FrameParsed DEF IInv, LoadingIsOnStack, OnStack
    <3>2. QED BY <3>1, EntryAssumption DEF TrueInv
  <2>6. FrameTrue(g)' BY <2>3, <2>4, <2>5, <1>1, <1>8, FrameTrueStays
  <2>7. QED BY <2>1, <2>6
<1>15. ASSUME NEW i \in DOMAIN stack' \ {1}
       PROVE  stack'[i].sections[stack'[i].at][2] = stack'[i - 1].path
  <2>1. /\ i \in 1..(Len(stack) - 1) /\ i - 1 \in 1..(Len(stack) - 1)
        /\ i + 1 \in DOMAIN stack \ {1} /\ (i + 1) - 1 = i /\ (i - 1) + 1 = i
    BY <1>2, <1>7
  <2>2. stack'[i] = stack[i + 1] BY <2>1, <1>4
  <2>3. stack'[i - 1].path = stack[i].path
    <3>1. stack'[i - 1].path = stack[(i - 1) + 1].path BY <2>1, <1>4
    <3>2. QED BY <3>1, <2>1
  <2>4. stack[i + 1].sections[stack[i + 1].at][2] = stack[i].path BY <2>1 DEF TrueInv
  <2>5. QED BY <2>2, <2>3, <2>4
<1>16. QED BY <1>11, <1>12, <1>13, <1>14, <1>15 DEF TrueInv

\* Another loader or limit joins those there have been.
LEMMA SettingsTrue ==
  ASSUME IsFiniteSet(Paths), IInv, IInv', TrueInv,
         UNCHANGED <<m_cache, stack, parsed>>,
         past \subseteq past', <<files', m_max_include_depth'>> \in past'
  PROVE  TrueInv'
<1>1. stack' = stack /\ m_cache' = m_cache /\ parsed' = parsed OBVIOUS
<1>2. MoreKnown /\ TypeOK /\ TypeOK' BY DEF MoreKnown, IInv
<1>3. ASSUME NEW q \in Paths, Cached(q)' PROVE Justified(q, m_cache[q].errors)'
  <2>1. PICK errors : errors = m_cache[q].errors OBVIOUS
  <2>2. Cached(q) BY <1>1, <1>3 DEF Cached
  <2>3. errors \in SUBSET Errors /\ Justified(q, errors)
    BY <2>1, <2>2, <1>2 DEF TypeOK, Cached, Programs, TrueInv
  <2>4. Justified(q, errors)' BY <2>3, <1>2, JustifiedStays
  <2>5. m_cache'[q].errors = errors BY <2>1, <1>1
  <2>6. QED BY <2>4, <2>5
<1>4. ASSUME NEW i \in DOMAIN stack' PROVE FrameTrue(stack[i])'
  <2>1. PICK g : g = stack[i] OBVIOUS
  <2>2. g \in Frames /\ FrameTrue(g) /\ g.path \in Paths
    BY <2>1, <1>1, FrameParsed DEF TrueInv
  <2>3. m_cache[g.path] = Loading BY <2>1, <2>2, <1>1 DEF IInv, LoadingIsOnStack, OnStack
  <2>4. parsed[g.path] # Absent BY <2>2, <2>3, EntryAssumption DEF TrueInv
  <2>5. FrameTrue(g)' BY <2>2, <2>4, <1>2, FrameTrueStays
  <2>6. g = stack'[i] BY <2>1, <1>1
  <2>7. QED BY <2>5, <2>6
<1>5. \A q \in Paths : m_cache'[q] = Absent <=> parsed'[q] = Absent BY <1>1 DEF TrueInv
<1>6. \A i \in DOMAIN stack' \ {1} :
         stack'[i].sections[stack'[i].at][2] = stack'[i - 1].path
  BY <1>1 DEF TrueInv
<1>7. QED BY <1>3, <1>4, <1>5, <1>6 DEF TrueInv

LEMMA TrueStep ==
  ASSUME IsFiniteSet(Paths), IInv, IInv', TrueInv, [Next]_vars
  PROVE  TrueInv'
<1>1. CASE StepOver
  <2>1. PICK f : f = [Current EXCEPT !.at = @ + 1] OBVIOUS
  <2>2. stack # <<>> /\ SetCurrent(f) /\ UNCHANGED <<settings, m_cache, parsed>>
    BY <1>1, <2>1 DEF StepOver
  <2>3. Current \in Frames /\ 1 \in DOMAIN stack /\ Current = stack[1]
    BY <2>2, CurrentFacts
  <2>4. /\ f \in Frames /\ f.path = Current.path /\ f.errors = Current.errors
        /\ f.sections = Current.sections /\ f.at = Current.at + 1
    BY <2>1, <2>3 DEF Frames
  <2>5. FrameTrue(Current) BY <2>3 DEF TrueInv
  <2>6. FrameTrue(f)
    <3>1. Current.at \in Nat /\ Len(Current.sections) \in Nat
      BY <2>3, LenProperties DEF Frames
    <3>2. \A j \in f.at..Len(f.sections) : j \in Current.at..Len(Current.sections)
      BY <3>1, <2>4
    <3>3. RestIn(f, Range(parsed[Current.path].sections))
      BY <3>2, <2>4, <2>5 DEF FrameTrue, RestIn
    <3>4. QED BY <3>3, <2>4, <2>5 DEF FrameTrue
  <2>7. QED BY <2>2, <2>4, <2>6, SetCurrentTrue
<1>2. CASE IncludeRefused
  <2>1. PICK errors : errors = {<<Current.path, Refusal(Target, Current.depth), Target>>}
    OBVIOUS
  <2>2. PICK f : f = Rejected(Current, errors) OBVIOUS
  <2>3. /\ AtInclude /\ Refusal(Target, Current.depth) # "none"
        /\ SetCurrent(f) /\ UNCHANGED <<settings, m_cache, parsed>>
    BY <1>2, <2>1, <2>2 DEF IncludeRefused
  <2>4. stack # <<>> /\ AtIncludeOf(Current) /\ Current \in Frames /\ HasVersion(Current)
    BY <2>3, TargetFacts
  <2>5. FrameTrue(Current) BY <2>4, CurrentFacts DEF TrueInv
  <2>6. errors \in SUBSET Errors /\ Justified(Current.path, errors)
    BY <2>1, <2>3, RefusalIsTrue
  <2>7. f \in Frames /\ f.path = Current.path BY <2>2, <2>4, <2>6, RejectedFacts
  <2>8. FrameTrue(f) BY <2>2, <2>4, <2>5, <2>6, RejectedIsTrue
  <2>9. QED BY <2>3, <2>4, <2>7, <2>8, SetCurrentTrue
<1>3. CASE IncludeCached
  <2>1. PICK f : f = Included(Current, m_cache[Target]) OBVIOUS
  <2>2. /\ AtInclude /\ Cached(Target)
        /\ SetCurrent(f) /\ UNCHANGED <<settings, m_cache, parsed>>
    BY <1>3, <2>1 DEF IncludeCached
  <2>3. /\ stack # <<>> /\ AtIncludeOf(Current) /\ Current \in Frames
        /\ HasVersion(Current) /\ Target \in Paths
    BY <2>2, TargetFacts
  <2>4. 1 \in DOMAIN stack /\ Current = stack[1] BY <2>3, CurrentFacts
  <2>5. FrameTrue(Current) BY <2>4 DEF TrueInv
  <2>6. Target \in Includes(Current.path) BY <2>3, <2>4, AimIsIncluded DEF Target
  <2>7. /\ m_cache[Target] \in Programs /\ HasVersion(m_cache[Target])
        /\ Justified(Target, m_cache[Target].errors)
    <3>1. m_cache[Target] \in Programs BY <2>2, <2>3 DEF IInv, TypeOK, Cached
    <3>2. HasVersion(m_cache[Target]) BY <2>2, <2>3 DEF IInv, ValidHasVersion, HasVersion
    <3>3. QED BY <3>1, <3>2, <2>2, <2>3 DEF TrueInv
  <2>8. f \in Frames /\ f.path = Current.path BY <2>1, <2>3, <2>7, IncludedFacts
  <2>9. FrameTrue(f)
    <3>1. TypeOK BY DEF IInv
    <3>2. QED BY <3>1, <2>1, <2>3, <2>5, <2>6, <2>7, IncludedIsTrue
  <2>10. QED BY <2>2, <2>3, <2>8, <2>9, SetCurrentTrue
<1>4. CASE IncludeOpens
  <2>1. AtInclude /\ Open(Target, Current.depth, stack) /\ UNCHANGED settings
    BY <1>4 DEF IncludeOpens
  <2>2. AtIncludeOf(Current) /\ Current.depth = Len(stack) /\ Target \in Paths
    BY <2>1, TargetFacts
  <2>3. PICK p : p = Target OBVIOUS
  <2>4. p \in Paths /\ Open(p, Len(stack), stack) BY <2>1, <2>2, <2>3
  <2>5. QED BY <2>1, <2>2, <2>3, <2>4, OpenTrue
<1>5. CASE Finish BY <1>5, FinishTrue
<1>6. ASSUME NEW p \in Paths, Load(p) PROVE TrueInv'
  <2>1. stack = <<>> /\ Len(stack) = 0 /\ UNCHANGED settings BY <1>6, EmptySeq DEF Load
  <2>2. Open(p, Len(stack), stack) BY <1>6, <2>1 DEF Load
  <2>3. QED BY <2>1, <2>2, OpenTrue
<1>7. CASE UNCHANGED vars
  <2>1. /\ UNCHANGED <<m_cache, stack, parsed>>
        /\ past' = past /\ <<files', m_max_include_depth'>> = <<files, m_max_include_depth>>
    BY <1>7 DEF vars, settings
  <2>2. <<files', m_max_include_depth'>> \in past' BY <2>1 DEF TrueInv
  <2>3. QED BY <2>1, <2>2, SettingsTrue
<1>8. CASE Settings
  <2>1. /\ UNCHANGED <<m_cache, stack, parsed>>
        /\ past \subseteq past' /\ <<files', m_max_include_depth'>> \in past'
    BY <1>8 DEF Settings, SetLoader, SetMaxIncludeDepth
  <2>2. QED BY <2>1, SettingsTrue
<1>9. QED BY <1>1, <1>2, <1>3, <1>4, <1>5, <1>6, <1>7, <1>8 DEF Next, Resolve

\* No program ever reports an error that it or a file it includes, directly or
\* not, does not have: a missing file that no loader lacked, a recursion that is
\* none, a depth that no chain of includes reaches.
THEOREM ReportedErrorsAreTrue ==
  ASSUME IsFiniteSet(Paths)
  PROVE  Spec => []ErrorsAreTrue
<1>1. IInv /\ IInv' /\ TrueInv /\ [Next]_vars => TrueInv' BY TrueStep
<1>2. TrueInv => ErrorsAreTrue BY DEF TrueInv, Justified, ErrorsAreTrue
<1>3. QED BY <1>1, <1>2, TrueInit, Invariance, PTL DEF Spec

-----------------------------------------------------------------------------
(* Programs without errors are their files with the includes pasted in        *)

CleanPaths == {p \in Paths : Cached(p) /\ m_cache[p].errors = {}}
Texts == [p \in Paths |-> IF Cached(p) THEN m_cache[p].sections ELSE <<>>]

FramePasted(f) ==
  f.errors = {} =>
    /\ ~parsed[f.path].broken
    /\ NoAdjacentIncludes(f.path) =>
         Pastes(f.sections, f.at, parsed[f.path].sections, CleanPaths, Texts)

ProgramPasted(p) ==
  /\ ~parsed[p].broken
  /\ NoAdjacentIncludes(p) =>
       /\ Includes(p) \subseteq CleanPaths
       /\ m_cache[p].sections = AllPasted(parsed[p].sections, Texts)

\* The programs in the cache in an order in which each comes behind those it
\* includes.
KnownPaths == {p \in Paths : Cached(p)}
Ranked(rank) ==
  /\ \A p \in KnownPaths : rank[p] < Cardinality(KnownPaths)
  /\ \A p \in CleanPaths : NoAdjacentIncludes(p) => \A q \in Includes(p) : rank[q] < rank[p]

PasteInv ==
  /\ \A p \in CleanPaths : ProgramPasted(p)
  /\ \A i \in DOMAIN stack : FramePasted(stack[i])
  /\ \E rank \in [Paths -> Nat] : Ranked(rank)

LEMMA TextsType == ASSUME TypeOK PROVE Texts \in AllTexts
<1>1. \A p \in Paths : Cached(p) => m_cache[p].sections \in Seq(Sections)
  BY DEF TypeOK, Cached, Programs
<1>2. <<>> \in Seq(Sections) OBVIOUS
<1>3. QED BY <1>1, <1>2 DEF Texts, AllTexts

LEMMA TextsTypeNext == ASSUME TypeOK' PROVE Texts' \in AllTexts
<1>1. \A p \in Paths : Cached(p)' => m_cache'[p].sections \in Seq(Sections)
  BY DEF TypeOK, Cached, Programs
<1>2. <<>> \in Seq(Sections) OBVIOUS
<1>3. QED BY <1>1, <1>2 DEF Texts, AllTexts

LEMMA PasteInit == Init => PasteInv
<1> SUFFICES ASSUME Init PROVE PasteInv
  OBVIOUS
<1>1. \A p \in Paths : ~Cached(p) BY DEF Init, Cached
<1>2. CleanPaths = {} /\ KnownPaths = {} BY <1>1 DEF CleanPaths, KnownPaths
<1>3. DOMAIN stack = {} BY DEF Init
<1>4. \E rank \in [Paths -> Nat] : Ranked(rank)
  <2>1. PICK rank : rank = [p \in Paths |-> 0] OBVIOUS
  <2>2. rank \in [Paths -> Nat] BY <2>1
  <2>3. Ranked(rank) BY <1>2 DEF Ranked
  <2>4. QED BY <2>2, <2>3
<1>5. QED BY <1>2, <1>3, <1>4 DEF PasteInv

\* Programs are added to the cache and files are parsed; none is changed.
CacheGrows == /\ \A p \in Paths : Cached(p) => m_cache'[p] = m_cache[p]
              /\ \A p \in Paths : parsed[p] # Absent => parsed'[p] = parsed[p]

LEMMA CleanStays ==
  ASSUME CacheGrows
  PROVE  CleanPaths \subseteq CleanPaths' /\ \A p \in CleanPaths : Texts'[p] = Texts[p]
<1>1. ASSUME NEW p \in CleanPaths
      PROVE  p \in Paths /\ Cached(p) /\ m_cache'[p] = m_cache[p] /\ Cached(p)'
  BY DEF CleanPaths, CacheGrows, Cached
<1>2. CleanPaths \subseteq CleanPaths' BY <1>1 DEF CleanPaths
<1>3. ASSUME NEW p \in CleanPaths PROVE Texts'[p] = Texts[p]
  BY <1>1 DEF Texts
<1>4. QED BY <1>2, <1>3

LEMMA FramePastedStays ==
  ASSUME TypeOK, CacheGrows, NEW f \in Frames, parsed[f.path] # Absent, FramePasted(f)
  PROVE  FramePasted(f)'
<1>1. f.path \in Paths BY DEF Frames
<1>2. PICK ss \in Seq(Sections) : ss = parsed[f.path].sections
  BY <1>1 DEF TypeOK, Files
<1>3. parsed'[f.path] = parsed[f.path] BY <1>1 DEF CacheGrows
<1>4. SUFFICES ASSUME f.errors = {}
               PROVE  /\ ~parsed'[f.path].broken
                      /\ NoAdjacentIncludes(f.path)' =>
                           Pastes(f.sections, f.at, ss, CleanPaths', Texts')
  BY <1>2, <1>3 DEF FramePasted
<1>5. ~parsed'[f.path].broken BY <1>3, <1>4 DEF FramePasted
<1>6. ASSUME NoAdjacentIncludes(f.path)' PROVE Pastes(f.sections, f.at, ss, CleanPaths', Texts')
  <2>1. NoAdjacentIncludes(f.path) BY <1>3, <1>6 DEF NoAdjacentIncludes
  <2>2. Pastes(f.sections, f.at, ss, CleanPaths, Texts) BY <2>1, <1>2, <1>4 DEF FramePasted
  <2>3. Len(ss) \in Nat BY LenProperties
  <2>4. CleanPaths \subseteq CleanPaths' /\ \A p \in CleanPaths : Texts'[p] = Texts[p]
    BY CleanStays
  <2>5. QED BY <2>2, <2>3, <2>4, PastesStays
<1>7. QED BY <1>5, <1>6

\* What a section includes, its file includes.
LEMMA IncludedByText ==
  ASSUME TypeOK, NEW p \in Paths, parsed[p] # Absent
  PROVE  /\ parsed[p].sections \in Seq(Sections)
         /\ \A i \in DOMAIN parsed[p].sections :
              IsInclude(parsed[p].sections[i]) => parsed[p].sections[i][2] \in Includes(p)
         /\ \A S : (\A i \in DOMAIN parsed[p].sections :
                      IsInclude(parsed[p].sections[i]) => parsed[p].sections[i][2] \in S)
                   => Includes(p) \subseteq S
<1>1. PICK ss \in Seq(Sections) : ss = parsed[p].sections BY DEF TypeOK, Files
<1>2. Includes(p) = {s[2] : s \in {t \in Range(ss) : IsInclude(t)}} BY <1>1 DEF Includes
<1>3. \A t : t \in Range(ss) <=> \E i \in DOMAIN ss : t = ss[i] BY DEF Range
<1>4. \A i \in DOMAIN ss : IsInclude(ss[i]) => ss[i][2] \in Includes(p) BY <1>2, <1>3
<1>5. ASSUME NEW S, \A i \in DOMAIN ss : IsInclude(ss[i]) => ss[i][2] \in S
      PROVE  Includes(p) \subseteq S
  BY <1>2, <1>3, <1>5
<1>6. QED BY <1>1, <1>4, <1>5

LEMMA ProgramPastedStays ==
  ASSUME TypeOK, CacheGrows, NEW p \in CleanPaths, parsed[p] # Absent, ProgramPasted(p)
  PROVE  ProgramPasted(p)'
<1>1. p \in Paths /\ m_cache'[p] = m_cache[p] /\ parsed'[p] = parsed[p]
  BY DEF CleanPaths, CacheGrows
<1>2. PICK ss \in Seq(Sections) : ss = parsed[p].sections BY <1>1 DEF TypeOK, Files
<1>3. Includes(p)' = Includes(p) BY <1>1 DEF Includes
<1>4. NoAdjacentIncludes(p)' <=> NoAdjacentIncludes(p) BY <1>1 DEF NoAdjacentIncludes
<1>5. ~parsed'[p].broken BY <1>1 DEF ProgramPasted
<1>6. ASSUME NoAdjacentIncludes(p)
      PROVE  Includes(p)' \subseteq CleanPaths' /\ m_cache'[p].sections = AllPasted(ss, Texts')
  <2>1. Includes(p) \subseteq CleanPaths /\ m_cache[p].sections = AllPasted(ss, Texts)
    BY <1>2, <1>6 DEF ProgramPasted
  <2>2. CleanPaths \subseteq CleanPaths' /\ \A q \in CleanPaths : Texts'[q] = Texts[q]
    BY CleanStays
  <2>3. \A i \in DOMAIN ss : IsInclude(ss[i]) => ss[i][2] \in Includes(p)
    BY <1>1, <1>2, IncludedByText
  <2>4. \A i \in DOMAIN ss : IsInclude(ss[i]) => Texts'[ss[i][2]] = Texts[ss[i][2]]
    BY <2>1, <2>2, <2>3
  <2>5. PICK others : others = Texts' OBVIOUS
  <2>6. AllPasted(ss, others) = AllPasted(ss, Texts) BY <2>4, <2>5, SameAllPasted
  <2>7. QED BY <2>1, <2>2, <2>5, <2>6, <1>1, <1>3
<1>7. QED BY <1>2, <1>1, <1>4, <1>5, <1>6 DEF ProgramPasted

\* As long as no program joins the cache, the programs and their order stay.
LEMMA ProgramsPasted ==
  ASSUME IInv, TrueInv, PasteInv, CacheGrows,
         \A p \in Paths : Cached(p)' <=> Cached(p)
  PROVE  /\ \A p \in CleanPaths' : ProgramPasted(p)'
         /\ \E rank \in [Paths -> Nat] : Ranked(rank)'
<1>1. TypeOK BY DEF IInv
<1>2. KnownPaths' = KnownPaths BY DEF KnownPaths
<1>3. CleanPaths' = CleanPaths BY DEF CleanPaths, CacheGrows
<1>4. ASSUME NEW p \in CleanPaths PROVE p \in Paths /\ parsed[p] # Absent
  BY DEF CleanPaths, TrueInv, Cached
<1>5. \A p \in CleanPaths : ProgramPasted(p)'
  BY <1>1, <1>4, ProgramPastedStays DEF PasteInv
<1>6. ASSUME NEW p \in CleanPaths
      PROVE  Includes(p)' = Includes(p) /\ (NoAdjacentIncludes(p)' <=> NoAdjacentIncludes(p))
  <2>1. parsed'[p] = parsed[p] BY <1>4 DEF CacheGrows
  <2>2. QED BY <2>1 DEF Includes, NoAdjacentIncludes
<1>7. PICK rank \in [Paths -> Nat] : Ranked(rank) BY DEF PasteInv
<1>8. Ranked(rank)' BY <1>2, <1>3, <1>6, <1>7 DEF Ranked
<1>9. QED BY <1>3, <1>5, <1>7, <1>8

\* A step of resolve_includes that stays in its file.
LEMMA SetCurrentPasted ==
  ASSUME IInv, IInv', TrueInv, PasteInv, stack # <<>>,
         NEW f \in Frames, FramePasted(f),
         SetCurrent(f), UNCHANGED <<settings, m_cache, parsed>>
  PROVE  PasteInv'
<1>1. stack \in Seq(Frames) /\ stack' = <<f>> \o Tail(stack)
  BY DEF IInv, TypeOK, SetCurrent
<1>2. /\ stack' \in Seq(Frames) /\ Len(stack') = Len(stack) /\ stack'[1] = f
      /\ \A i \in 2..Len(stack) : stack'[i] = stack[i]
  BY <1>1, SetFirst
<1>3. DOMAIN stack = 1..Len(stack) /\ DOMAIN stack' = 1..Len(stack)
  BY <1>1, <1>2, LenProperties
<1>4. /\ CacheGrows /\ \A p \in Paths : Cached(p)' <=> Cached(p)
  BY DEF CacheGrows, Cached
<1>5. /\ \A p \in CleanPaths' : ProgramPasted(p)'
      /\ \E rank \in [Paths -> Nat] : Ranked(rank)'
  BY <1>4, ProgramsPasted
<1>6. m_cache' = m_cache /\ parsed' = parsed OBVIOUS
<1>7. ASSUME NEW i \in DOMAIN stack' PROVE FramePasted(stack[i])'
  <2>1. PICK g : g = stack'[i] OBVIOUS
  <2>2. FramePasted(g)
    <3>1. CASE i = 1 BY <3>1, <2>1, <1>2
    <3>2. CASE i # 1
      <4>1. i \in DOMAIN stack /\ g = stack[i] BY <3>2, <2>1, <1>2, <1>3
      <4>2. QED BY <4>1 DEF PasteInv
    <3>3. QED BY <3>1, <3>2
  <2>3. FramePasted(g)'
    <3>1. CleanPaths' = CleanPaths /\ Texts' = Texts
      BY <1>6 DEF CleanPaths, Texts, Cached
    <3>2. NoAdjacentIncludes(g.path)' <=> NoAdjacentIncludes(g.path)
      BY <1>6 DEF NoAdjacentIncludes
    <3>3. QED BY <2>2, <3>1, <3>2, <1>6 DEF FramePasted
  <2>4. QED BY <2>1, <2>3
<1>8. QED BY <1>5, <1>7 DEF PasteInv

\* An include of a program without errors is pasted in.
LEMMA IncludedIsPasted ==
  ASSUME NEW f \in Frames, AtIncludeOf(f), NEW prog \in Programs, HasVersion(prog),
         prog.errors = {}, NEW ss \in Seq(Sections), Alone(ss), NEW clean,
         NEW texts \in AllTexts, f.sections[f.at][2] \in clean,
         texts[f.sections[f.at][2]] = prog.sections,
         Pastes(f.sections, f.at, ss, clean, texts)
  PROVE  Pastes(Included(f, prog).sections, Included(f, prog).at, ss, clean, texts)
<1>1. PICK w \in Seq(Sections) : w = f.sections BY DEF Frames
<1>2. PICK a : a = f.at OBVIOUS
<1>3. PICK p \in Seq(Sections) : p = prog.sections BY DEF Programs
<1>4. p # <<>> BY <1>3 DEF HasVersion
<1>5. PICK v : v = Splice(w, a, p) OBVIOUS
<1>6. /\ Included(f, prog).sections = v
      /\ Included(f, prog).at = NextAfter(v, a + Len(p) - 1)
  BY <1>1, <1>2, <1>3, <1>5 DEF Included, Frames
<1>7. Pastes(w, a, ss, clean, texts) BY <1>1, <1>2
<1>8. a <= Len(w) /\ IsInclude(w[a]) BY <1>1, <1>2 DEF AtIncludeOf
<1>9. w[a][2] \in clean /\ texts[w[a][2]] = p BY <1>1, <1>2, <1>3
<1>10. Pastes(v, NextAfter(v, a + Len(p) - 1), ss, clean, texts)
  BY <1>4, <1>5, <1>7, <1>8, <1>9, PastesIncluded
<1>11. QED BY <1>6, <1>10

\* A file is opened: nothing of it has been looked at.
LEMMA OpenPasted ==
  ASSUME IInv, IInv', TrueInv, PasteInv, NEW p \in Paths,
         Open(p, Len(stack), stack), UNCHANGED settings
  PROVE  PasteInv'
<1>0. PICK f :
        f = [path |-> p, sections |-> files[p].sections,
             errors |-> IF files[p].broken THEN {<<p, "syntax", p>>} ELSE {},
             at |-> 1, depth |-> Len(stack) + 1]
  OBVIOUS
<1>1. stack \in Seq(Frames) /\ TypeOK BY DEF IInv, TypeOK
<1>2. /\ m_cache[p] = Absent
      /\ m_cache' = [m_cache EXCEPT ![p] = Loading]
      /\ parsed' = [parsed EXCEPT ![p] = files[p]]
      /\ stack' = <<f>> \o stack
  BY <1>0 DEF Open
<1>3. files[p] \in Files
  <2>1. files \in FileSystems /\ files[p] # Missing BY <1>1 DEF TypeOK, Open
  <2>2. files \in [Paths -> Files \cup {Missing}] BY <2>1, FileAssumption
  <2>3. QED BY <2>1, <2>2
<1>4. f \in Frames
  <2>1. files[p].sections \in Seq(Sections) /\ files[p].broken \in BOOLEAN BY <1>3 DEF Files
  <2>2. <<p, "syntax", p>> \in Errors BY DEF Errors, Reasons
  <2>3. Len(stack) \in Nat BY <1>1, LenProperties
  <2>4. QED BY <2>1, <2>2, <2>3, <1>0 DEF Frames
<1>5. /\ Len(stack') = Len(stack) + 1
      /\ stack'[1] = f
      /\ \A i \in 1..Len(stack) : stack'[i + 1] = stack[i]
  BY <1>1, <1>2, <1>4, PushFirst
<1>6. DOMAIN stack = 1..Len(stack) /\ Len(stack) \in Nat BY <1>1, LenProperties
<1>7. DOMAIN stack' = 1..(Len(stack) + 1)
  <2>1. stack' \in Seq(Frames) BY DEF IInv, TypeOK
  <2>2. QED BY <2>1, <1>5, LenProperties
<1>8. /\ \A q \in Paths : q # p => m_cache'[q] = m_cache[q] /\ parsed'[q] = parsed[q]
      /\ m_cache'[p] = Loading /\ parsed'[p] = files[p]
  BY <1>1, <1>2 DEF TypeOK
<1>9. parsed[p] = Absent BY <1>2 DEF TrueInv
<1>10. CacheGrows /\ \A q \in Paths : Cached(q)' <=> Cached(q)
  BY <1>2, <1>8, <1>9 DEF CacheGrows, Cached
<1>11. /\ \A q \in CleanPaths' : ProgramPasted(q)'
       /\ \E rank \in [Paths -> Nat] : Ranked(rank)'
  BY <1>10, ProgramsPasted
<1>12. FramePasted(f)'
  <2>1. PICK ss \in Seq(Sections) : ss = files[p].sections BY <1>3 DEF Files
  <2>2. Pastes(ss, 1, ss, CleanPaths', Texts') BY PastesNothing
  <2>3. /\ f.path = p /\ f.sections = ss /\ f.at = 1
        /\ f.errors = {} => ~files[p].broken
    BY <1>0, <2>1
  <2>4. parsed'[p].sections = ss /\ parsed'[p].broken = files[p].broken BY <1>8, <2>1
  <2>5. QED BY <2>2, <2>3, <2>4 DEF FramePasted
<1>13. ASSUME NEW i \in DOMAIN stack' PROVE FramePasted(stack[i])'
  <2>1. CASE i = 1
    <3>1. stack'[i] = f BY <2>1, <1>5
    <3>2. QED BY <3>1, <1>12
  <2>2. CASE i # 1
    <3>1. i - 1 \in 1..Len(stack) /\ (i - 1) + 1 = i BY <2>2, <1>6, <1>7
    <3>2. PICK g : g = stack[i - 1] OBVIOUS
    <3>3. i - 1 \in DOMAIN stack BY <3>1, <1>6
    <3>4. stack'[i] = g
      <4>1. stack'[(i - 1) + 1] = stack[i - 1] BY <3>1, <1>5
      <4>2. QED BY <4>1, <3>1, <3>2
    <3>5. g \in Frames /\ FramePasted(g) /\ g.path \in Paths /\ parsed[g.path] \in Files
      BY <3>2, <3>3, FrameParsed DEF PasteInv
    <3>6. parsed[g.path] # Absent BY <3>5, EntryAssumption
    <3>7. FramePasted(g)' BY <3>5, <3>6, <1>1, <1>10, FramePastedStays
    <3>8. QED BY <3>4, <3>7
  <2>3. QED BY <2>1, <2>2
<1>14. QED BY <1>11, <1>13 DEF PasteInv

\* A program goes into the cache behind all that are there, and is pasted into
\* the file that waits for it.
LEMMA FinishPasted ==
  ASSUME IsFiniteSet(Paths), IInv, IInv', TrueInv, PasteInv, Finish
  PROVE  PasteInv'
<1>0. PICK prog : prog = [sections |-> Current.sections, errors |-> Current.errors] OBVIOUS
<1>1. stack \in Seq(Frames) /\ stack' \in Seq(Frames) /\ TypeOK /\ TypeOK' BY DEF IInv, TypeOK
<1>2. /\ Len(stack) \in Nat \ {0} /\ DOMAIN stack = 1..Len(stack)
      /\ Current = stack[1] /\ Current \in Frames /\ HasVersion(Current)
  BY CurrentFacts DEF Finish
<1>3. PICK p \in Paths : p = Current.path BY <1>2 DEF Frames
<1>4. /\ prog \in Programs /\ HasVersion(prog)
      /\ m_cache' = [m_cache EXCEPT ![p] = prog]
      /\ UNCHANGED <<settings, parsed>>
  BY <1>0, <1>3, FinishFacts
<1>5. /\ Len(stack') = Len(stack) - 1
      /\ \A i \in 1..(Len(stack) - 1) :
           /\ stack'[i].path = stack[i + 1].path
           /\ i # 1 => stack'[i] = stack[i + 1]
      /\ Len(stack) > 1 => stack'[1] = Included(stack[2], prog)
  BY <1>0, FinishFacts
<1>6. prog.sections = Current.sections /\ prog.errors = Current.errors BY <1>0
<1>7. DOMAIN stack' = 1..(Len(stack) - 1) BY <1>1, <1>5, LenProperties
<1>8. parsed' = parsed BY <1>4
<1>9. m_cache[p] = Loading /\ parsed[p] # Absent
  <2>1. 1 \in DOMAIN stack BY <1>2
  <2>2. m_cache[p] = Loading BY <2>1, <1>2, <1>3 DEF IInv, LoadingIsOnStack, OnStack
  <2>3. QED BY <2>2, EntryAssumption DEF TrueInv
<1>10. \A q \in Paths : m_cache'[q] = IF q = p THEN prog ELSE m_cache[q]
  BY <1>1, <1>4 DEF TypeOK
<1>11. prog \notin {Absent, Loading} BY <1>4, EntryAssumption
<1>12. ~Cached(p) /\ Cached(p)' /\ \A q \in Paths \ {p} : Cached(q)' <=> Cached(q)
  BY <1>9, <1>10, <1>11 DEF Cached
<1>13. CacheGrows BY <1>8, <1>10, <1>12 DEF CacheGrows
<1>14. /\ CleanPaths \subseteq CleanPaths' /\ \A q \in CleanPaths : Texts'[q] = Texts[q]
  BY <1>13, CleanStays
<1>15. /\ \A q \in CleanPaths' : q # p => q \in CleanPaths
       /\ p \notin CleanPaths /\ (p \in CleanPaths' <=> prog.errors = {})
  BY <1>10, <1>12 DEF CleanPaths
<1>16. Texts'[p] = prog.sections BY <1>10, <1>12 DEF Texts
<1>17. Texts \in AllTexts /\ Texts' \in AllTexts BY <1>1, TextsType, TextsTypeNext
<1>18. PICK texts \in AllTexts : texts = Texts' BY <1>17
<1>19. \A q \in Paths : /\ Includes(q)' = Includes(q)
                         /\ (NoAdjacentIncludes(q)' <=> NoAdjacentIncludes(q))
  BY <1>8 DEF Includes, NoAdjacentIncludes
<1>20. ASSUME NEW q \in CleanPaths PROVE q \in Paths /\ parsed[q] # Absent /\ ProgramPasted(q)
  BY DEF CleanPaths, TrueInv, Cached, PasteInv
<1>21. PICK ss \in Seq(Sections) : ss = parsed[p].sections
  BY <1>1, <1>9 DEF TypeOK, Files
\* what the frame has become
<1>22. ASSUME prog.errors = {}
       PROVE  /\ ~parsed[p].broken
              /\ NoAdjacentIncludes(p) =>
                   Includes(p) \subseteq CleanPaths /\ prog.sections = AllPasted(ss, Texts)
  <2>1. FramePasted(Current) BY <1>2 DEF PasteInv
  <2>2. ~parsed[p].broken BY <2>1, <1>3, <1>6, <1>22 DEF FramePasted
  <2>3. ASSUME NoAdjacentIncludes(p)
        PROVE  Includes(p) \subseteq CleanPaths /\ prog.sections = AllPasted(ss, Texts)
    <3>1. PICK w \in Seq(Sections) : w = Current.sections BY <1>2 DEF Frames
    <3>2. PICK a : a = Current.at OBVIOUS
    <3>3. Pastes(w, a, ss, CleanPaths, Texts)
      BY <2>1, <2>3, <3>1, <3>2, <1>3, <1>6, <1>21, <1>22 DEF FramePasted
    <3>4. a > Len(w) BY <3>1, <3>2 DEF Finish
    <3>5. /\ w = AllPasted(ss, Texts)
          /\ \A i \in DOMAIN ss : IsInclude(ss[i]) => ss[i][2] \in CleanPaths
      BY <3>3, <3>4, <1>17, PastesAll
    <3>6. Includes(p) \subseteq CleanPaths BY <3>5, <1>1, <1>9, <1>21, IncludedByText
    <3>7. QED BY <3>1, <3>5, <3>6, <1>6
  <2>4. QED BY <2>2, <2>3
<1>23. ASSUME NEW q \in CleanPaths' PROVE ProgramPasted(q)'
  <2>1. CASE q # p
    <3>1. q \in CleanPaths BY <2>1, <1>15
    <3>2. QED BY <3>1, <1>1, <1>13, <1>20, ProgramPastedStays
  <2>2. CASE q = p
    <3>1. prog.errors = {} BY <2>2, <1>15
    <3>2. ~parsed'[p].broken BY <3>1, <1>8, <1>22
    <3>3. ASSUME NoAdjacentIncludes(p)
          PROVE  Includes(p)' \subseteq CleanPaths' /\ m_cache'[p].sections = AllPasted(ss, texts)
      <4>1. Includes(p) \subseteq CleanPaths /\ prog.sections = AllPasted(ss, Texts)
        BY <3>1, <3>3, <1>22
      <4>2. \A i \in DOMAIN ss : IsInclude(ss[i]) => ss[i][2] \in Includes(p)
        BY <1>1, <1>9, <1>21, IncludedByText
      <4>3. \A i \in DOMAIN ss : IsInclude(ss[i]) => texts[ss[i][2]] = Texts[ss[i][2]]
        BY <4>1, <4>2, <1>14, <1>18
      <4>4. AllPasted(ss, texts) = AllPasted(ss, Texts) BY <4>3, SameAllPasted
      <4>5. Includes(p)' = Includes(p) BY <1>19
      <4>6. QED BY <4>1, <4>4, <4>5, <1>10, <1>14
    <3>4. NoAdjacentIncludes(p)' <=> NoAdjacentIncludes(p) BY <1>19
    <3>5. parsed'[p].sections = ss BY <1>8, <1>21
    <3>6. QED BY <2>2, <3>2, <3>3, <3>4, <3>5, <1>18 DEF ProgramPasted
  <2>3. QED BY <2>1, <2>2
<1>24. \E rank \in [Paths -> Nat] : Ranked(rank)'
  <2>1. PICK rank \in [Paths -> Nat] : Ranked(rank) BY DEF PasteInv
  <2>2. PICK K : K = KnownPaths OBVIOUS
  <2>3. K \subseteq Paths /\ p \notin K /\ KnownPaths' = K \cup {p}
    BY <2>2, <1>12 DEF KnownPaths
  <2>4. IsFiniteSet(K) BY <2>3, FS_Subset
  <2>5. Cardinality(K) \in Nat BY <2>4, FS_CardinalityType
  <2>6. Cardinality(K \cup {p}) = Cardinality(K) + 1 BY <2>3, <2>4, FS_AddElement
  <2>7. PICK n \in Nat : n = Cardinality(K) BY <2>5
  <2>8. PICK next : next = [rank EXCEPT ![p] = n] OBVIOUS
  <2>9. /\ next \in [Paths -> Nat] /\ next[p] = n
        /\ \A q \in Paths : q # p => next[q] = rank[q]
    BY <2>7, <2>8
  <2>10. \A q \in K : rank[q] < n BY <2>1, <2>2, <2>7 DEF Ranked
  <2>11. \A q \in KnownPaths' : next[q] < Cardinality(KnownPaths')
    <3>1. TAKE q \in KnownPaths'
    <3>2. Cardinality(KnownPaths') = n + 1 BY <2>3, <2>6, <2>7
    <3>3. CASE q = p BY <3>2, <3>3, <2>9
    <3>4. CASE q # p
      <4>1. q \in K /\ q \in Paths BY <3>4, <2>3
      <4>2. next[q] = rank[q] /\ rank[q] < n /\ rank[q] \in Nat BY <4>1, <3>4, <2>9, <2>10
      <4>3. QED BY <4>2, <3>2
    <3>5. QED BY <3>3, <3>4
  <2>12. CleanPaths \subseteq K BY <2>2 DEF CleanPaths, KnownPaths
  <2>13. ASSUME NEW q \in CleanPaths', NoAdjacentIncludes(q)', NEW r \in Includes(q)'
         PROVE  next[r] < next[q]
    <3>1. q \in Paths BY DEF CleanPaths
    <3>2. NoAdjacentIncludes(q) /\ r \in Includes(q) BY <3>1, <2>13, <1>19
    <3>3. CASE q = p
      <4>1. r \in CleanPaths BY <3>2, <3>3, <1>15, <1>22
      <4>2. r \in K /\ r \in Paths /\ r # p BY <4>1, <2>3, <2>12
      <4>3. QED BY <4>2, <3>3, <2>9, <2>10
    <3>4. CASE q # p
      <4>1. q \in CleanPaths BY <3>4, <1>15
      <4>2. rank[r] < rank[q] BY <4>1, <3>2, <2>1 DEF Ranked
      <4>3. ProgramPasted(q) BY <4>1, <1>20
      <4>4. r \in CleanPaths BY <4>3, <3>2 DEF ProgramPasted
      <4>5. r \in Paths /\ r # p BY <4>4, <2>3, <2>12
      <4>6. QED BY <4>2, <4>5, <3>1, <3>4, <2>9
    <3>5. QED BY <3>3, <3>4
  <2>14. Ranked(next)' BY <2>11, <2>13 DEF Ranked
  <2>15. QED BY <2>9, <2>14
<1>25. ASSUME NEW i \in DOMAIN stack' PROVE FramePasted(stack[i])'
  <2>1. PICK g : g = stack[i + 1] OBVIOUS
  <2>2. i + 1 \in DOMAIN stack \ {1} BY <1>2, <1>7
  <2>3. g \in Frames /\ g.path \in Paths /\ parsed[g.path] \in Files BY <2>1, <2>2, FrameParsed
  <2>4. parsed[g.path] # Absent BY <2>3, EntryAssumption
  <2>5. FramePasted(g) BY <2>1, <2>2 DEF PasteInv
  <2>6. FramePasted(g)' BY <2>3, <2>4, <2>5, <1>1, <1>13, FramePastedStays
  <2>7. CASE i # 1
    <3>1. stack'[i] = g BY <2>1, <2>7, <1>5, <1>7
    <3>2. QED BY <3>1, <2>6
  <2>8. CASE i = 1
    <3>1. g = stack[2] /\ Len(stack) > 1 BY <2>1, <2>2, <2>8, <1>2
    <3>2. PICK h : h = Included(g, prog) OBVIOUS
    <3>3. stack'[i] = h BY <2>8, <3>1, <3>2, <1>5
    <3>4. AtIncludeOf(g) /\ HasVersion(g) BY <2>1, <2>2 DEF IInv, FramesReady
    <3>5. g.sections[g.at][2] = p
      <4>1. 2 \in DOMAIN stack \ {1} /\ 2 - 1 = 1 BY <3>1, <1>2
      <4>2. stack[2].sections[stack[2].at][2] = stack[1].path BY <4>1 DEF TrueInv
      <4>3. QED BY <4>2, <3>1, <1>2, <1>3
    <3>6. h \in Frames /\ h.path = g.path BY <3>2, <3>4, <2>3, <1>4, IncludedFacts
    <3>7. CASE prog.errors # {}
      <4>1. h.errors # {} BY <3>2, <3>7, <2>3 DEF Included, Rejected, Frames
      <4>2. QED BY <3>3, <4>1 DEF FramePasted
    <3>8. CASE prog.errors = {}
      <4>1. h.errors = g.errors BY <3>2, <3>8, <2>3 DEF Included, Frames
      <4>2. PICK gs \in Seq(Sections) : gs = parsed'[g.path].sections
        BY <2>3, <1>8 DEF Files
      <4>3. ASSUME h.errors = {}, NoAdjacentIncludes(g.path)'
            PROVE  Pastes(h.sections, h.at, gs, CleanPaths', texts)
        <5>1. Pastes(g.sections, g.at, gs, CleanPaths', texts)
          BY <4>1, <4>2, <4>3, <2>6, <1>18 DEF FramePasted
        <5>2. Alone(gs) BY <4>2, <4>3 DEF NoAdjacentIncludes, Alone
        <5>3. p \in CleanPaths' /\ texts[p] = prog.sections BY <3>8, <1>15, <1>16, <1>18
        <5>4. PICK clean : clean = CleanPaths' OBVIOUS
        <5>5. /\ g.sections[g.at][2] \in clean
              /\ texts[g.sections[g.at][2]] = prog.sections
          BY <5>3, <5>4, <3>5
        <5>6. Pastes(g.sections, g.at, gs, clean, texts) BY <5>1, <5>4
        <5>7. Pastes(Included(g, prog).sections, Included(g, prog).at, gs, clean, texts)
          BY <5>2, <5>5, <5>6, <3>4, <3>8, <2>3, <1>4, IncludedIsPasted
        <5>8. QED BY <5>4, <5>7, <3>2
      <4>4. h.errors = {} => ~parsed'[g.path].broken BY <4>1, <2>6 DEF FramePasted
      <4>5. FramePasted(h)' BY <4>2, <4>3, <4>4, <3>6, <1>18 DEF FramePasted
      <4>6. QED BY <3>3, <4>5
    <3>9. QED BY <3>7, <3>8
  <2>9. QED BY <2>7, <2>8
<1>26. QED BY <1>23, <1>24, <1>25 DEF PasteInv

LEMMA PasteStep ==
  ASSUME IsFiniteSet(Paths), IInv, IInv', TrueInv, PasteInv, [Next]_vars
  PROVE  PasteInv'
<1>1. CASE StepOver
  <2>1. PICK f : f = [Current EXCEPT !.at = @ + 1] OBVIOUS
  <2>2. /\ stack # <<>> /\ SetCurrent(f) /\ UNCHANGED <<settings, m_cache, parsed>>
        /\ Current.at <= Len(Current.sections)
        /\ ~IsInclude(Current.sections[Current.at])
    BY <1>1, <2>1 DEF StepOver
  <2>3. Current \in Frames /\ 1 \in DOMAIN stack /\ Current = stack[1]
    BY <2>2, CurrentFacts
  <2>4. /\ f \in Frames /\ f.path = Current.path /\ f.errors = Current.errors
        /\ f.sections = Current.sections /\ f.at = Current.at + 1
    BY <2>1, <2>3 DEF Frames
  <2>5. FramePasted(Current) BY <2>3 DEF PasteInv
  <2>6. FramePasted(f)
    <3>1. PICK w \in Seq(Sections) : w = Current.sections BY <2>3 DEF Frames
    <3>2. PICK a : a = Current.at OBVIOUS
    <3>3. PICK ss \in Seq(Sections) : ss = parsed[f.path].sections
      BY <2>3, <2>4, FrameParsed DEF Files
    <3>4. ASSUME Pastes(w, a, ss, CleanPaths, Texts)
          PROVE  Pastes(w, a + 1, ss, CleanPaths, Texts)
      <4>1. TypeOK BY DEF IInv
      <4>2. Texts \in AllTexts BY <4>1, TextsType
      <4>3. a <= Len(w) /\ ~IsInclude(w[a]) BY <3>1, <3>2, <2>2
      <4>4. QED BY <4>2, <4>3, <3>4, PastesOver
    <3>5. QED BY <3>1, <3>2, <3>3, <3>4, <2>4, <2>5 DEF FramePasted
  <2>7. QED BY <2>2, <2>4, <2>6, SetCurrentPasted
<1>2. CASE IncludeRefused
  <2>1. PICK errors : errors = {<<Current.path, Refusal(Target, Current.depth), Target>>}
    OBVIOUS
  <2>2. PICK f : f = Rejected(Current, errors) OBVIOUS
  <2>3. /\ AtInclude /\ Refusal(Target, Current.depth) # "none"
        /\ SetCurrent(f) /\ UNCHANGED <<settings, m_cache, parsed>>
    BY <1>2, <2>1, <2>2 DEF IncludeRefused
  <2>4. stack # <<>> /\ AtIncludeOf(Current) /\ Current \in Frames /\ HasVersion(Current)
    BY <2>3, TargetFacts
  <2>5. errors \in SUBSET Errors BY <2>1, <2>3, RefusalIsTrue
  <2>6. f \in Frames BY <2>2, <2>4, <2>5, RejectedFacts
  <2>7. f.errors # {} BY <2>1, <2>2, <2>4 DEF Rejected, Frames
  <2>8. FramePasted(f) BY <2>7 DEF FramePasted
  <2>9. QED BY <2>3, <2>4, <2>6, <2>8, SetCurrentPasted
<1>3. CASE IncludeCached
  <2>1. PICK prog : prog = m_cache[Target] OBVIOUS
  <2>2. PICK f : f = Included(Current, prog) OBVIOUS
  <2>3. /\ AtInclude /\ Cached(Target)
        /\ SetCurrent(f) /\ UNCHANGED <<settings, m_cache, parsed>>
    BY <1>3, <2>1, <2>2 DEF IncludeCached
  <2>4. /\ stack # <<>> /\ AtIncludeOf(Current) /\ Current \in Frames
        /\ HasVersion(Current) /\ Target \in Paths
    BY <2>3, TargetFacts
  <2>5. PICK p \in Paths : p = Target BY <2>4
  <2>6. prog \in Programs /\ HasVersion(prog)
    <3>1. prog \in Programs BY <2>1, <2>3, <2>4 DEF IInv, TypeOK, Cached
    <3>2. HasVersion(prog) BY <2>1, <2>3, <2>4 DEF IInv, ValidHasVersion, HasVersion
    <3>3. QED BY <3>1, <3>2
  <2>7. f \in Frames /\ f.path = Current.path BY <2>2, <2>4, <2>6, IncludedFacts
  <2>8. FramePasted(f)
    <3>1. CASE prog.errors # {}
      <4>1. f.errors # {} BY <3>1, <2>2, <2>4 DEF Included, Rejected, Frames
      <4>2. QED BY <4>1 DEF FramePasted
    <3>2. CASE prog.errors = {}
      <4>1. f.errors = Current.errors BY <3>2, <2>2, <2>4 DEF Included, Frames
      <4>2. 1 \in DOMAIN stack /\ Current = stack[1] BY <2>4, CurrentFacts
      <4>3. FramePasted(Current) BY <4>2 DEF PasteInv
      <4>4. PICK ss \in Seq(Sections) : ss = parsed[Current.path].sections
        BY <4>2, FrameParsed DEF Files
      <4>5. ASSUME Current.errors = {}, NoAdjacentIncludes(Current.path)
            PROVE  Pastes(f.sections, f.at, ss, CleanPaths, Texts)
        <5>1. Pastes(Current.sections, Current.at, ss, CleanPaths, Texts)
          BY <4>3, <4>4, <4>5 DEF FramePasted
        <5>2. Alone(ss) BY <4>4, <4>5 DEF NoAdjacentIncludes, Alone
        <5>3. TypeOK BY DEF IInv
        <5>4. PICK texts \in AllTexts : texts = Texts BY <5>3, TextsType
        <5>5. PICK clean : clean = CleanPaths OBVIOUS
        <5>6. p \in clean /\ texts[p] = prog.sections
          BY <5>4, <5>5, <3>2, <2>1, <2>3, <2>5 DEF CleanPaths, Texts
        <5>7. Current.sections[Current.at][2] = p BY <2>5 DEF Target
        <5>8. PICK g : g = Current OBVIOUS
        <5>9. /\ g \in Frames /\ AtIncludeOf(g) /\ g.sections[g.at][2] \in clean
              /\ texts[g.sections[g.at][2]] = prog.sections
              /\ Pastes(g.sections, g.at, ss, clean, texts)
          BY <5>1, <5>4, <5>5, <5>6, <5>7, <5>8, <2>4
        <5>10. Pastes(Included(g, prog).sections, Included(g, prog).at, ss, clean, texts)
          BY <5>2, <5>9, <3>2, <2>6, IncludedIsPasted
        <5>11. QED BY <5>10, <5>8, <5>4, <5>5, <2>2
      <4>6. QED BY <4>1, <4>3, <4>4, <4>5, <2>7 DEF FramePasted
    <3>3. QED BY <3>1, <3>2
  <2>9. QED BY <2>3, <2>4, <2>7, <2>8, SetCurrentPasted
<1>4. CASE IncludeOpens
  <2>1. AtInclude /\ Open(Target, Current.depth, stack) /\ UNCHANGED settings
    BY <1>4 DEF IncludeOpens
  <2>2. Current.depth = Len(stack) /\ Target \in Paths BY <2>1, TargetFacts
  <2>3. PICK p \in Paths : p = Target BY <2>2
  <2>4. Open(p, Len(stack), stack) BY <2>1, <2>2, <2>3
  <2>5. QED BY <2>1, <2>4, OpenPasted
<1>5. CASE Finish BY <1>5, FinishPasted
<1>6. ASSUME NEW p \in Paths, Load(p) PROVE PasteInv'
  <2>1. stack = <<>> /\ Len(stack) = 0 /\ UNCHANGED settings BY <1>6, EmptySeq DEF Load
  <2>2. Open(p, Len(stack), stack) BY <1>6, <2>1 DEF Load
  <2>3. QED BY <2>1, <2>2, OpenPasted
<1>7. CASE Settings \/ UNCHANGED vars
  <2>1. m_cache' = m_cache /\ stack' = stack /\ parsed' = parsed
    BY <1>7 DEF Settings, SetLoader, SetMaxIncludeDepth, vars
  <2>2. CacheGrows /\ \A p \in Paths : Cached(p)' <=> Cached(p)
    BY <2>1 DEF CacheGrows, Cached
  <2>3. /\ \A p \in CleanPaths' : ProgramPasted(p)'
        /\ \E rank \in [Paths -> Nat] : Ranked(rank)'
    BY <2>2, ProgramsPasted
  <2>4. ASSUME NEW i \in DOMAIN stack' PROVE FramePasted(stack[i])'
    <3>1. PICK g : g = stack[i] OBVIOUS
    <3>2. g \in Frames /\ FramePasted(g) /\ g.path \in Paths /\ parsed[g.path] \in Files
      BY <3>1, <2>1, FrameParsed DEF PasteInv
    <3>3. TypeOK /\ parsed[g.path] # Absent BY <3>2, EntryAssumption DEF IInv
    <3>4. FramePasted(g)' BY <3>2, <3>3, <2>2, FramePastedStays
    <3>5. stack'[i] = g BY <3>1, <2>1
    <3>6. QED BY <3>4, <3>5
  <2>5. QED BY <2>3, <2>4 DEF PasteInv
<1>8. QED BY <1>1, <1>2, <1>3, <1>4, <1>5, <1>6, <1>7 DEF Next, Resolve

-----------------------------------------------------------------------------
(* The expansion, one level of includes after the other                       *)

OneDeeper(texts) ==
  [p \in Paths |-> IF parsed[p] = Absent THEN <<>> ELSE AllPasted(parsed[p].sections, texts)]
NoTexts == [p \in Paths |-> <<>>]

LEMMA OneDeeperType ==
  ASSUME TypeOK, NEW texts \in AllTexts
  PROVE  OneDeeper(texts) \in AllTexts
<1>1. ASSUME NEW p \in Paths, parsed[p] # Absent
      PROVE  AllPasted(parsed[p].sections, texts) \in Seq(Sections)
  <2>1. PICK ss \in Seq(Sections) : ss = parsed[p].sections BY <1>1 DEF TypeOK, Files
  <2>2. QED BY <2>1, AllArePasted
<1>2. <<>> \in Seq(Sections) OBVIOUS
<1>3. QED BY <1>1, <1>2 DEF OneDeeper, AllTexts

LEMMA ExpansionValues ==
  ASSUME TypeOK, NEW k \in Nat
  PROVE  \E g \in [0..k -> AllTexts] :
           /\ g[0] = NoTexts
           /\ \A i \in 1..k : g[i] = OneDeeper(g[i - 1])
           /\ Expansion(k) = g[k]
<1> DEFINE F == [texts \in AllTexts |-> OneDeeper(texts)]
<1>1. F \in [AllTexts -> AllTexts] BY OneDeeperType
<1>2. \A texts \in AllTexts : F[texts] = OneDeeper(texts) OBVIOUS
<1>3. NoTexts \in AllTexts
  <2>1. <<>> \in Seq(Sections) OBVIOUS
  <2>2. QED BY <2>1 DEF NoTexts, AllTexts
<1> HIDE DEF F
<1>4. PICK h \in [0..k -> AllTexts] : h[0] = NoTexts /\ \A i \in 1..k : h[i] = F[h[i - 1]]
  <2>1. Iterates(F, NoTexts, AllTexts, k) # {} BY <1>1, <1>3, IteratesExist
  <2>2. QED BY <2>1 DEF Iterates
<1> DEFINE Step(g, n) ==
             [p \in Paths |-> IF n = 0 \/ parsed[p] = Absent THEN <<>>
                              ELSE AllPasted(parsed[p].sections, g[n - 1])]
           texts[n \in 0..k] ==
             [p \in Paths |-> IF n = 0 \/ parsed[p] = Absent THEN <<>>
                              ELSE AllPasted(parsed[p].sections, texts[n - 1])]
<1>5. \A g : Step(g, 0) = NoTexts /\ \A n \in 1..k : Step(g, n) = OneDeeper(g[n - 1])
  BY DEF NoTexts, OneDeeper
<1>6. h = [n \in 0..k |-> Step(h, n)]
  <2>1. ASSUME NEW n \in 0..k PROVE h[n] = Step(h, n)
    <3>1. CASE n = 0
      <4> HIDE DEF Step
      <4>1. QED BY <3>1, <1>4, <1>5
    <3>2. CASE n # 0
      <4>1. n \in 1..k /\ n - 1 \in 0..k BY <3>2
      <4>2. h[n - 1] \in AllTexts BY <4>1, <1>4
      <4> HIDE DEF Step
      <4>3. QED BY <4>1, <4>2, <1>2, <1>4, <1>5
    <3>3. QED BY <3>1, <3>2
  <2> HIDE DEF Step
  <2>2. QED BY <2>1, <1>4
<1>7. texts = [n \in 0..k |-> Step(texts, n)] BY <1>6
<1>8. Expansion(k) = texts[k] BY DEF Expansion
<1> HIDE DEF texts, Step
<1>9. texts[0] = NoTexts /\ \A n \in 1..k : texts[n] = OneDeeper(texts[n - 1])
  BY <1>5, <1>7
<1>10. texts \in [0..k -> AllTexts]
  <2> DEFINE S == {j \in Nat : j \in 0..k => texts[j] \in AllTexts}
  <2>1. 0 \in S BY <1>3, <1>9
  <2>2. ASSUME NEW j \in Nat, j \in S PROVE j + 1 \in S
    <3>1. SUFFICES ASSUME j + 1 \in 0..k PROVE texts[j + 1] \in AllTexts
      OBVIOUS
    <3>2. j \in 0..k /\ texts[j] \in AllTexts BY <3>1, <2>2
    <3>3. texts[j + 1] = OneDeeper(texts[j]) BY <3>1, <1>9
    <3>4. QED BY <3>2, <3>3, OneDeeperType
  <2> HIDE DEF S
  <2>3. Nat \subseteq S BY <2>1, <2>2, AllNumbers
  <2>4. \A j \in 0..k : texts[j] \in AllTexts BY <2>3 DEF S
  <2>5. QED BY <2>4, <1>7
<1>11. QED BY <1>8, <1>9, <1>10

LEMMA ExpansionSteps ==
  ASSUME TypeOK, NEW k \in Nat
  PROVE  Expansion(k + 1) = OneDeeper(Expansion(k))
<1>1. PICK g \in [0..k -> AllTexts] :
        /\ g[0] = NoTexts
        /\ \A i \in 1..k : g[i] = OneDeeper(g[i - 1])
        /\ Expansion(k) = g[k]
  BY ExpansionValues
<1>2. PICK h \in [0..(k + 1) -> AllTexts] :
        /\ h[0] = NoTexts
        /\ \A i \in 1..(k + 1) : h[i] = OneDeeper(h[i - 1])
        /\ Expansion(k + 1) = h[k + 1]
  <2>1. k + 1 \in Nat OBVIOUS
  <2>2. QED BY <2>1, ExpansionValues
<1> DEFINE S == {j \in Nat : j <= k => g[j] = h[j]}
<1>3. 0 \in S BY <1>1, <1>2
<1>4. ASSUME NEW j \in Nat, j \in S PROVE j + 1 \in S
  <2>1. SUFFICES ASSUME j + 1 <= k PROVE g[j + 1] = h[j + 1]
    OBVIOUS
  <2>2. g[j] = h[j] BY <1>4, <2>1
  <2>3. j + 1 \in 1..k /\ j + 1 \in 1..(k + 1) /\ (j + 1) - 1 = j BY <2>1
  <2>4. g[j + 1] = OneDeeper(g[j]) BY <2>3, <1>1
  <2>5. h[j + 1] = OneDeeper(h[j]) BY <2>3, <1>2
  <2>6. QED BY <2>2, <2>4, <2>5
<1> HIDE DEF S
<1>5. Nat \subseteq S BY <1>3, <1>4, AllNumbers
<1>6. g[k] = h[k] BY <1>5 DEF S
<1>7. k + 1 \in 1..(k + 1) /\ (k + 1) - 1 = k OBVIOUS
<1>8. h[k + 1] = OneDeeper(h[k]) BY <1>7, <1>2
<1>9. QED BY <1>1, <1>2, <1>6, <1>8

\* A program is the expansion to as many levels as its place in the order.
LEMMA PastedIsExpansion ==
  ASSUME IsFiniteSet(Paths), IInv, TrueInv, PasteInv
  PROVE  ErrorFreeIsExpansion
<1> SUFFICES ASSUME NEW p \in Paths, Cached(p), m_cache[p].errors = {},
                    \A q \in Closure(p) : parsed[q] # Absent => NoAdjacentIncludes(q)
             PROVE  /\ \A q \in Closure(p) : parsed[q] # Absent /\ ~parsed[q].broken
                    /\ m_cache[p].sections = Expansion(Cardinality(Paths))[p]
  BY DEF ErrorFreeIsExpansion
<1>1. TypeOK BY DEF IInv
<1>2. PICK C : C = Closure(p) OBVIOUS
<1>3. p \in C /\ C \subseteq Paths /\ ClosedSet(C) BY <1>1, <1>2, ClosureIsClosed
<1>4. ASSUME NEW q \in CleanPaths
      PROVE  parsed[q] # Absent /\ ProgramPasted(q) /\ q \in KnownPaths /\ q \in Paths
  BY DEF CleanPaths, KnownPaths, TrueInv, Cached, PasteInv
<1>5. C \subseteq CleanPaths
  <2>1. PICK S : S = C \cap CleanPaths OBVIOUS
  <2>2. p \in S BY <2>1, <1>3 DEF CleanPaths
  <2>3. ASSUME NEW q \in S PROVE Includes(q) \subseteq S
    <3>1. q \in C /\ q \in CleanPaths BY <2>1
    <3>2. NoAdjacentIncludes(q) BY <3>1, <1>2, <1>4
    <3>3. Includes(q) \subseteq CleanPaths BY <3>1, <3>2, <1>4 DEF ProgramPasted
    <3>4. Includes(q) \subseteq C BY <3>1, <1>3 DEF ClosedSet
    <3>5. QED BY <3>3, <3>4, <2>1
  <2>4. ClosedSet(S) BY <2>3 DEF ClosedSet
  <2>5. Closure(p) \subseteq S BY <1>1, <2>2, <2>4, ClosureIsLeast
  <2>6. QED BY <2>1, <2>5, <1>2
<1>6. ASSUME NEW q \in C
      PROVE  /\ parsed[q] # Absent /\ ~parsed[q].broken
             /\ NoAdjacentIncludes(q)
             /\ Includes(q) \subseteq C
             /\ Texts[q] = m_cache[q].sections
             /\ m_cache[q].sections = AllPasted(parsed[q].sections, Texts)
  <2>1. q \in CleanPaths BY <1>5
  <2>2. parsed[q] # Absent /\ ProgramPasted(q) BY <2>1, <1>4
  <2>3. NoAdjacentIncludes(q) BY <2>2, <1>2
  <2>4. Texts[q] = m_cache[q].sections BY <2>1 DEF Texts, CleanPaths
  <2>5. QED BY <2>2, <2>3, <2>4, <1>3 DEF ProgramPasted, ClosedSet
<1>7. PICK rank \in [Paths -> Nat] : Ranked(rank) BY DEF PasteInv
<1> DEFINE S == {n \in Nat : \A q \in C : rank[q] < n => Expansion(n)[q] = Texts[q]}
<1>8. 0 \in S
  <2>1. \A q \in C : rank[q] \in Nat BY <1>3, <1>7
  <2>2. \A q \in C : ~(rank[q] < 0) BY <2>1
  <2>3. QED BY <2>2
<1>9. ASSUME NEW n \in Nat, n \in S PROVE n + 1 \in S
  <2>1. ASSUME NEW q \in C, rank[q] < n + 1 PROVE Expansion(n + 1)[q] = Texts[q]
    <3>1. q \in Paths BY <1>3
    <3>2. Expansion(n + 1) = OneDeeper(Expansion(n)) BY <1>1, ExpansionSteps
    <3>3. PICK ss \in Seq(Sections) : ss = parsed[q].sections
      BY <3>1, <1>1, <1>6 DEF TypeOK, Files
    <3>4. PICK texts : texts = Expansion(n) OBVIOUS
    <3>5. Expansion(n + 1)[q] = AllPasted(ss, texts)
      BY <3>1, <3>2, <3>3, <3>4, <1>6 DEF OneDeeper
    <3>6. ASSUME NEW i \in DOMAIN ss, IsInclude(ss[i]) PROVE texts[ss[i][2]] = Texts[ss[i][2]]
      <4>1. PICK r : r = ss[i][2] OBVIOUS
      <4>2. r \in Includes(q) BY <3>1, <3>3, <3>6, <4>1, <1>1, <1>6, IncludedByText
      <4>3. r \in C BY <4>2, <1>6
      <4>4. rank[r] < rank[q] BY <4>2, <1>5, <1>6, <1>7 DEF Ranked
      <4>5. rank[r] \in Nat /\ rank[q] \in Nat BY <4>3, <3>1, <1>3, <1>7
      <4>6. rank[r] < n BY <4>4, <4>5, <2>1
      <4>7. texts[r] = Texts[r] BY <4>3, <4>6, <3>4, <1>9
      <4>8. QED BY <4>1, <4>7
    <3>7. AllPasted(ss, texts) = AllPasted(ss, Texts)
      <4>1. PICK base : base = Texts OBVIOUS
      <4>2. \A i \in DOMAIN ss : IsInclude(ss[i]) => texts[ss[i][2]] = base[ss[i][2]]
        BY <3>6, <4>1
      <4>3. AllPasted(ss, texts) = AllPasted(ss, base) BY <4>2, SameAllPasted
      <4>4. QED BY <4>1, <4>3
    <3>8. QED BY <3>3, <3>5, <3>7, <1>6
  <2>2. QED BY <2>1
<1> HIDE DEF S
<1>10. Nat \subseteq S BY <1>8, <1>9, AllNumbers
<1>11. Cardinality(Paths) \in Nat /\ rank[p] < Cardinality(Paths)
  <2>1. KnownPaths \subseteq Paths BY DEF KnownPaths
  <2>2. /\ Cardinality(Paths) \in Nat /\ IsFiniteSet(KnownPaths)
        /\ Cardinality(KnownPaths) <= Cardinality(Paths)
    BY <2>1, FS_CardinalityType, FS_Subset
  <2>3. Cardinality(KnownPaths) \in Nat BY <2>2, FS_CardinalityType
  <2>4. rank[p] < Cardinality(KnownPaths) BY <1>7 DEF Ranked, KnownPaths
  <2>5. rank[p] \in Nat BY <1>7
  <2>6. QED BY <2>2, <2>3, <2>4, <2>5
<1>12. Expansion(Cardinality(Paths))[p] = Texts[p]
  <2>1. Cardinality(Paths) \in S BY <1>10, <1>11
  <2>2. QED BY <2>1, <1>3, <1>11 DEF S
<1>13. QED BY <1>2, <1>3, <1>6, <1>12

\* For any files that do not put two includes in a row, a program without errors
\* is its file with all includes, and theirs, replaced by their text; all of the
\* files were there and none had a syntax error.
THEOREM ErrorFreeProgramIsExpansion ==
  ASSUME IsFiniteSet(Paths)
  PROVE  Spec => []ErrorFreeIsExpansion
<1>1. IInv /\ IInv' /\ TrueInv /\ [Next]_vars => TrueInv' BY TrueStep
<1>2. IInv /\ IInv' /\ TrueInv /\ PasteInv /\ [Next]_vars => PasteInv' BY PasteStep
<1>3. IInv /\ TrueInv /\ PasteInv => ErrorFreeIsExpansion BY PastedIsExpansion
<1>4. QED BY <1>1, <1>2, <1>3, TrueInit, PasteInit, Invariance, PTL DEF Spec
=============================================================================
