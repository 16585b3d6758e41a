-------------------------- MODULE LoggerTreeProofs --------------------------
(* Proofs about LoggerTree for any threads, names and paths: whatever races   *)
(* there are, the tree stays one, loggers in it stay, and only a call that    *)
(* lost a race can return anything but the logger asked for.                  *)
EXTENDS LoggerTree, SequenceFacts, SequenceTheorems, TLAPS

Creating == {"construct", "inherit", "emplace"}
Holding == {"inherit", "emplace"}

\* A call stands on a logger in the tree and has the rest of its path before it.
WalkingAt(t) == pc[t] \in Creating \cup {"find"} =>
                  /\ Registered(curr[t])
                  /\ asked[t] = PathOf(curr[t]) \o remainder[t]

AnswerAt(t) == pc[t] = "idle" =>
                 \/ /\ Registered(result[t]) /\ memory[result[t]] = "alive"
                    /\ PathOf(result[t]) = asked[t]
                 \/ memory[result[t]] = "freed" /\ rivalled[t]

\* The new logger of a call is its own, and ready when it is inserted.
MakingAt(t) ==
  /\ made[t] # Null <=> pc[t] \in Holding
  /\ made[t] # Null => /\ m_fullpath[made[t]] = ChildFullpath(curr[t], Name(t))
                       /\ memory[made[t]] = "alive"
                       /\ ~Registered(made[t])
  /\ pc[t] = "emplace" => m_level[made[t]] # Undefined

\* A call that creates a name which is in the tree by now has lost a race.
RacingAt(t) ==
  pc[t] \in Creating /\ m_children[curr[t]][Name(t)] # Null => rivalled[t]

OwnMade == \A t, u \in Threads : made[t] # Null /\ made[t] = made[u] => t = u

RootOK == memory[Root] = "alive" /\ m_level[Root] # Undefined

\* What TreeOK says of the logger below p that is called n; p is in the tree.
ChildOK(p, n) ==
  m_children[p][n] # Null =>
    LET l == m_children[p][n]
    IN /\ l # Root
       /\ memory[l] = "alive" /\ memory[p] = "alive" /\ Registered(p)
       /\ m_level[l] # Undefined
       /\ m_fullpath[l] = ChildFullpath(p, n)
       /\ \A q \in Loggers, m \in Names : m_children[q][m] = l => q = p /\ m = n

IInv ==
  /\ TypeOK
  /\ \A p \in Loggers, n \in Names : ChildOK(p, n)
  /\ \A t \in Threads : WalkingAt(t) /\ AnswerAt(t) /\ MakingAt(t) /\ RacingAt(t)
  /\ OwnMade
  /\ RootOK

USE TreeAssumption DEF Root, Loggers

LEMMA IInvMeans == IInv => TreeOK /\ AnswerIsRegistered
<1> SUFFICES ASSUME IInv PROVE TreeOK /\ AnswerIsRegistered
  OBVIOUS
<1>1. TreeOK BY DEF IInv, TreeOK, ChildOK, MakingAt
<1>2. AnswerIsRegistered BY DEF IInv, AnswerIsRegistered, AnswerAt
<1>3. QED BY <1>1, <1>2

LEMMA IInvInit == Init => IInv
<1> SUFFICES ASSUME Init PROVE IInv
  OBVIOUS
<1>1. /\ <<>> \in Seq(Names) /\ <<>> \in Seq(Names \cup {RootName})
      /\ <<RootName>> \in Seq(Names \cup {RootName})
  OBVIOUS
<1>2. TypeOK
  <2>1. 0 \in 0..MaxLoggers /\ 0 \in 0..MaxCalls /\ 0 \in 0..MaxChanges OBVIOUS
  <2>2. /\ memory \in [Loggers -> {"unused", "alive", "freed"}]
        /\ m_level \in [Loggers -> Levels \cup {Undefined}]
        /\ m_children \in [Loggers -> [Names -> Loggers \cup {Null}]]
    BY DEF Init
  <2>3. m_fullpath \in [Loggers -> Seq(Names \cup {RootName})] BY <1>1 DEF Init
  <2>4. QED BY <1>1, <2>1, <2>2, <2>3 DEF Init, TypeOK
<1>3. \A p \in Loggers, n \in Names : m_children[p][n] = Null BY DEF Init
<1>4. \A p \in Loggers, n \in Names : ChildOK(p, n) BY <1>3 DEF ChildOK
<1>5. ASSUME NEW t \in Threads PROVE WalkingAt(t) /\ AnswerAt(t) /\ MakingAt(t) /\ RacingAt(t)
  <2>1. pc[t] = "idle" /\ result[t] = Root /\ made[t] = Null /\ asked[t] = <<>>
    BY DEF Init
  <2>2. WalkingAt(t) /\ RacingAt(t) BY <2>1 DEF WalkingAt, RacingAt, Creating
  <2>3. AnswerAt(t) BY <2>1 DEF Init, AnswerAt, Registered, PathOf
  <2>4. MakingAt(t) BY <2>1 DEF MakingAt, Holding
  <2>5. QED BY <2>2, <2>3, <2>4
<1>6. OwnMade /\ RootOK BY DEF Init, OwnMade, RootOK
<1>7. QED BY <1>2, <1>4, <1>5, <1>6 DEF IInv

-----------------------------------------------------------------------------

\* A registered logger is alive and has a level.
LEMMA RegisteredFacts ==
  ASSUME IInv, NEW l \in Loggers, Registered(l)
  PROVE  memory[l] = "alive" /\ m_level[l] # Undefined /\ l # Null
<1>1. CASE l = Root BY <1>1 DEF IInv, RootOK
<1>2. CASE l # Root
  <2>1. PICK p \in Loggers, n \in Names : m_children[p][n] = l BY <1>2 DEF Registered
  <2>2. ChildOK(p, n) /\ l # Null BY DEF IInv
  <2>3. m_children[p][n] # Null BY <2>1, <2>2
  <2>4. QED BY <2>1, <2>2, <2>3 DEF ChildOK
<1>3. l # Null OBVIOUS
<1>4. QED BY <1>1, <1>2, <1>3

\* Where a call stands.
LEMMA CallFacts ==
  ASSUME IInv, NEW t \in Threads, pc[t] \in Creating \cup {"find"}
  PROVE  /\ curr[t] \in Loggers /\ Registered(curr[t])
         /\ memory[curr[t]] = "alive" /\ m_level[curr[t]] # Undefined
         /\ Name(t) \in Names
         /\ Tail(remainder[t]) \in Seq(Names)
         /\ ChildFullpath(curr[t], Name(t)) = Append(PathOf(curr[t]), Name(t))
         /\ ChildFullpath(curr[t], Name(t)) \in Seq(Names \cup {RootName})
<1>1. curr[t] \in Loggers /\ Registered(curr[t]) BY DEF IInv, TypeOK, WalkingAt
<1>2. memory[curr[t]] = "alive" /\ m_level[curr[t]] # Undefined BY <1>1, RegisteredFacts
<1>3. remainder[t] \in Seq(Names) /\ remainder[t] # <<>> BY DEF IInv, TypeOK, Creating
<1>4. Name(t) \in Names /\ Tail(remainder[t]) \in Seq(Names)
  BY <1>3, HeadTailProperties DEF Name
<1>5. PathOf(curr[t]) \in Seq(Names \cup {RootName}) BY <1>1 DEF PathOf, IInv, TypeOK
<1>6. ChildFullpath(curr[t], Name(t)) = Append(PathOf(curr[t]), Name(t))
  <2>1. CASE curr[t] = Root
    <3>1. Append(<<>>, Name(t)) = <<Name(t)>> OBVIOUS
    <3>2. QED BY <2>1, <3>1 DEF ChildFullpath, PathOf
  <2>2. CASE curr[t] # Root BY <2>2 DEF ChildFullpath, PathOf
  <2>3. QED BY <2>1, <2>2
<1>7. Append(PathOf(curr[t]), Name(t)) \in Seq(Names \cup {RootName}) BY <1>4, <1>5
<1>8. QED BY <1>1, <1>2, <1>4, <1>6, <1>7

\* The child of the next name lies where the call has to go.
LEMMA NextPath ==
  ASSUME IInv, NEW t \in Threads, pc[t] \in Creating \cup {"find"},
         NEW l \in Loggers, l # Root, m_fullpath[l] = ChildFullpath(curr[t], Name(t))
  PROVE  /\ asked[t] = PathOf(l) \o Tail(remainder[t])
         /\ Tail(remainder[t]) = <<>> => PathOf(l) = asked[t]
<1> DEFINE S == Names \cup {RootName}
<1>1. PathOf(l) = Append(PathOf(curr[t]), Name(t)) BY CallFacts DEF PathOf
<1>2. remainder[t] \in Seq(S) /\ remainder[t] # <<>>
  <2>1. remainder[t] \in Seq(Names) /\ remainder[t] # <<>> BY DEF IInv, TypeOK, Creating
  <2>2. Names \subseteq S OBVIOUS
  <2>3. remainder[t] \in Seq(S) BY <2>1, <2>2, SeqMonotonic
  <2>4. QED BY <2>1, <2>3
<1>3. curr[t] \in Loggers /\ PathOf(curr[t]) \in Seq(S) BY CallFacts DEF PathOf, IInv, TypeOK
<1>4. asked[t] = PathOf(curr[t]) \o remainder[t] BY DEF IInv, WalkingAt
<1>5. Append(PathOf(curr[t]), Head(remainder[t])) \o Tail(remainder[t])
        = PathOf(curr[t]) \o remainder[t]
  BY <1>2, <1>3, ShiftFirst
<1>6. asked[t] = PathOf(l) \o Tail(remainder[t]) BY <1>1, <1>4, <1>5 DEF Name
<1>7. PathOf(l) \in Seq(S) BY DEF PathOf, IInv, TypeOK
<1>8. PathOf(l) \o <<>> = PathOf(l) BY <1>7, ConcatEmptySeq
<1>9. QED BY <1>6, <1>8

-----------------------------------------------------------------------------
(* The steps of a call *)

\* A thread other than t, when a step of t leaves the tree as it is.
LEMMA OthersStay ==
  ASSUME IInv, NEW t \in Threads, NEW u \in Threads \ {t}, UNCHANGED tree,
         pc'[u] = pc[u], curr'[u] = curr[u], remainder'[u] = remainder[u],
         made'[u] = made[u], result'[u] = result[u],
         asked'[u] = asked[u], rivalled'[u] = rivalled[u]
  PROVE  WalkingAt(u)' /\ AnswerAt(u)' /\ MakingAt(u)' /\ RacingAt(u)'
<1>1. WalkingAt(u) /\ AnswerAt(u) /\ MakingAt(u) /\ RacingAt(u) BY DEF IInv
<1>2. memory' = memory /\ m_fullpath' = m_fullpath /\ m_level' = m_level /\ m_children' = m_children
  BY DEF tree
<1>3. WalkingAt(u)' BY <1>1, <1>2 DEF WalkingAt, Registered, PathOf
<1>4. AnswerAt(u)' BY <1>1, <1>2 DEF AnswerAt, Registered, PathOf
<1>5. MakingAt(u)' BY <1>1, <1>2 DEF MakingAt, Registered, ChildFullpath, Name
<1>6. RacingAt(u)' BY <1>1, <1>2 DEF RacingAt, Name
<1>7. QED BY <1>3, <1>4, <1>5, <1>6

\* The tree itself, when no step touches it.
LEMMA TreeStays ==
  ASSUME IInv, UNCHANGED tree
  PROVE  (\A p \in Loggers, n \in Names : ChildOK(p, n))' /\ RootOK'
<1>1. memory' = memory /\ m_fullpath' = m_fullpath /\ m_level' = m_level /\ m_children' = m_children
  BY DEF tree
<1>2. RootOK' BY <1>1 DEF IInv, RootOK
<1>3. ASSUME NEW p \in Loggers, NEW n \in Names PROVE ChildOK(p, n)'
  <2>1. ChildOK(p, n) BY DEF IInv
  <2>2. QED BY <2>1, <1>1 DEF ChildOK, ChildFullpath, Registered
<1>4. QED BY <1>2, <1>3

\* A call begins at a logger in the tree.
LEMMA BeginStep ==
  ASSUME IInv, NEW t \in Threads, NEW from \in Loggers, NEW base \in Seq(Names),
         NEW path \in Seq(Names), Begin(t, from, base, path),
         Registered(from), PathOf(from) = base
  PROVE  IInv'
<1>1. UNCHANGED tree /\ made' = made /\ changes' = changes /\ pc[t] = "idle" BY DEF Begin
<1>2. /\ asked' = [asked EXCEPT ![t] = base \o path]
      /\ rivalled' = [rivalled EXCEPT ![t] = FALSE]
      /\ base \o path \in Seq(Names)
      /\ asked'[t] = base \o path
  <2>1. base \o path \in Seq(Names) BY ConcatProperties
  <2>2. QED BY <2>1 DEF Begin, IInv, TypeOK
<1>3. /\ calls' \in [Threads -> 0..MaxCalls]
      /\ asked' \in [Threads -> Seq(Names)]
      /\ rivalled' \in [Threads -> BOOLEAN]
  <2>1. calls \in [Threads -> 0..MaxCalls] /\ calls[t] < MaxCalls
        /\ calls' = [calls EXCEPT ![t] = @ + 1]
    BY DEF Begin, IInv, TypeOK
  <2>2. calls[t] + 1 \in 0..MaxCalls BY <2>1
  <2>3. calls' \in [Threads -> 0..MaxCalls] BY <2>1, <2>2
  <2>4. QED BY <2>3, <1>2 DEF IInv, TypeOK
<1>4. memory' = memory /\ m_fullpath' = m_fullpath /\ m_level' = m_level
      /\ m_children' = m_children /\ made' = made /\ changes' = changes
  BY <1>1 DEF tree
<1>5. CASE path = <<>>
  <2>1. /\ result' = [result EXCEPT ![t] = from]
        /\ UNCHANGED <<pc, curr, remainder>>
    BY <1>5 DEF Begin
  <2>2. TypeOK' BY <2>1, <1>3, <1>4 DEF IInv, TypeOK
  <2>3. ASSUME NEW u \in Threads \ {t}
        PROVE  WalkingAt(u)' /\ AnswerAt(u)' /\ MakingAt(u)' /\ RacingAt(u)'
    <3>1. /\ pc'[u] = pc[u] /\ curr'[u] = curr[u] /\ remainder'[u] = remainder[u]
          /\ made'[u] = made[u] /\ result'[u] = result[u]
          /\ asked'[u] = asked[u] /\ rivalled'[u] = rivalled[u]
      BY <2>1, <1>1, <1>2 DEF IInv, TypeOK
    <3>2. QED BY <3>1, <1>1, OthersStay
  <2>4. pc'[t] = "idle" /\ result'[t] = from /\ made'[t] = made[t] /\ asked'[t] = base
    <3>1. base \o <<>> = base BY ConcatEmptySeq
    <3>2. QED BY <3>1, <2>1, <1>1, <1>2, <1>5 DEF IInv, TypeOK
  <2>5. WalkingAt(t)' /\ RacingAt(t)' BY <2>4 DEF WalkingAt, RacingAt, Creating
  <2>6. AnswerAt(t)'
    <3>1. memory[from] = "alive" BY RegisteredFacts
    <3>2. QED BY <3>1, <2>4, <1>1 DEF AnswerAt, Registered, PathOf, tree
  <2>7. MakingAt(t)'
    <3>1. made[t] = Null BY <1>1 DEF IInv, MakingAt, Holding
    <3>2. QED BY <3>1, <2>4 DEF MakingAt, Holding
  <2>8. OwnMade' BY <1>1 DEF IInv, OwnMade
  <2>9. QED BY <2>2, <2>3, <2>5, <2>6, <2>7, <2>8, <1>1, TreeStays DEF IInv
<1>6. CASE path # <<>>
  <2>1. /\ pc' = [pc EXCEPT ![t] = "find"]
        /\ curr' = [curr EXCEPT ![t] = from]
        /\ remainder' = [remainder EXCEPT ![t] = path]
        /\ UNCHANGED result
    BY <1>6 DEF Begin
  <2>2. TypeOK'
    <3>1. \A u \in Threads : pc'[u] \in {"find", "construct", "inherit", "emplace"} => remainder'[u] # <<>>
      BY <2>1, <1>6 DEF IInv, TypeOK
    <3>2. QED BY <3>1, <2>1, <1>3, <1>4 DEF IInv, TypeOK
  <2>3. ASSUME NEW u \in Threads \ {t}
        PROVE  WalkingAt(u)' /\ AnswerAt(u)' /\ MakingAt(u)' /\ RacingAt(u)'
    <3>1. /\ pc'[u] = pc[u] /\ curr'[u] = curr[u] /\ remainder'[u] = remainder[u]
          /\ made'[u] = made[u] /\ result'[u] = result[u]
          /\ asked'[u] = asked[u] /\ rivalled'[u] = rivalled[u]
      BY <2>1, <1>1, <1>2 DEF IInv, TypeOK
    <3>2. QED BY <3>1, <1>1, OthersStay
  <2>4. /\ pc'[t] = "find" /\ curr'[t] = from /\ remainder'[t] = path
        /\ made'[t] = made[t] /\ asked'[t] = base \o path
    BY <2>1, <1>1, <1>2 DEF IInv, TypeOK
  <2>5. WalkingAt(t)' BY <2>4, <1>1 DEF WalkingAt, Registered, PathOf, tree
  <2>6. AnswerAt(t)' /\ RacingAt(t)' BY <2>4 DEF AnswerAt, RacingAt, Creating
  <2>7. MakingAt(t)'
    <3>1. made[t] = Null BY <1>1 DEF IInv, MakingAt, Holding
    <3>2. QED BY <3>1, <2>4 DEF MakingAt, Holding
  <2>8. OwnMade' BY <1>1 DEF IInv, OwnMade
  <2>9. QED BY <2>2, <2>3, <2>5, <2>6, <2>7, <2>8, <1>1, TreeStays DEF IInv
<1>7. QED BY <1>5, <1>6

\* get_child returned the logger l, which is registered by the end of the step.
LEMMA ArriveStep ==
  ASSUME IInv, NEW t \in Threads, NEW l \in Loggers, pc[t] \in Creating \cup {"find"},
         l # Root, m_fullpath[l] = ChildFullpath(curr[t], Name(t)),
         Arrive(t, l, TRUE), Registered(l)', memory'[l] = "alive",
         m_fullpath' = m_fullpath, asked' = asked
  PROVE  /\ pc'[t] \in {"idle", "find"}
         /\ WalkingAt(t)' /\ AnswerAt(t)' /\ RacingAt(t)'
<1>1. /\ asked[t] = PathOf(l) \o Tail(remainder[t])
      /\ Tail(remainder[t]) = <<>> => PathOf(l) = asked[t]
  BY NextPath
<1>2. /\ curr'[t] = l /\ remainder'[t] = Tail(remainder[t])
      /\ asked'[t] = asked[t] /\ PathOf(l)' = PathOf(l)
  BY DEF Arrive, IInv, TypeOK, PathOf
<1>3. CASE Tail(remainder[t]) = <<>>
  <2>1. pc'[t] = "idle" /\ result'[t] = l BY <1>3 DEF Arrive, IInv, TypeOK
  <2>2. AnswerAt(t)' BY <2>1, <1>1, <1>2, <1>3 DEF AnswerAt, PathOf
  <2>3. QED BY <2>1, <2>2 DEF WalkingAt, RacingAt, Creating
<1>4. CASE Tail(remainder[t]) # <<>>
  <2>1. pc'[t] = "find" BY <1>4 DEF Arrive, IInv, TypeOK
  <2>2. WalkingAt(t)' BY <2>1, <1>1, <1>2 DEF WalkingAt, PathOf
  <2>3. QED BY <2>1, <2>2 DEF AnswerAt, RacingAt, Creating
<1>5. QED BY <1>3, <1>4

\* What Arrive does to the variables of the calls.
LEMMA ArriveFacts ==
  ASSUME IInv, NEW t \in Threads, NEW l \in Loggers, NEW alive \in BOOLEAN,
         pc[t] \in Creating \cup {"find"}, Arrive(t, l, alive)
  PROVE  /\ pc' \in [Threads -> {"idle", "find", "construct", "inherit", "emplace", "lost"}]
         /\ curr' \in [Threads -> Loggers]
         /\ remainder' \in [Threads -> Seq(Names)]
         /\ result' \in [Threads -> Loggers]
         /\ \A u \in Threads :
              pc'[u] \in {"find", "construct", "inherit", "emplace"} => remainder'[u] # <<>>
         /\ pc'[t] \in {"idle", "find", "lost"}
         /\ \A u \in Threads \ {t} : /\ pc'[u] = pc[u] /\ curr'[u] = curr[u]
                                     /\ remainder'[u] = remainder[u] /\ result'[u] = result[u]
<1>1. Tail(remainder[t]) \in Seq(Names) BY CallFacts
<1>2. /\ curr' = [curr EXCEPT ![t] = l]
      /\ remainder' = [remainder EXCEPT ![t] = Tail(remainder[t])]
  BY DEF Arrive
<1>3. CASE Tail(remainder[t]) = <<>>
  <2>1. pc' = [pc EXCEPT ![t] = "idle"] /\ result' = [result EXCEPT ![t] = l]
    BY <1>3 DEF Arrive
  <2>2. QED BY <2>1, <1>1, <1>2, <1>3 DEF IInv, TypeOK
<1>4. CASE Tail(remainder[t]) # <<>>
  <2>1. /\ pc' = [pc EXCEPT ![t] = IF alive THEN "find" ELSE "lost"]
        /\ result' = result
    BY <1>4 DEF Arrive
  <2>2. QED BY <2>1, <1>1, <1>2, <1>4 DEF IInv, TypeOK
<1>5. QED BY <1>3, <1>4

LEMMA FindStep ==
  ASSUME IInv, NEW t \in Threads, Find(t)
  PROVE  IInv'
<1>1. /\ pc[t] = "find" /\ UNCHANGED <<made, calls, changes, asked, rivalled>> /\ UNCHANGED tree
  BY DEF Find, history
<1>2. memory' = memory /\ m_fullpath' = m_fullpath /\ m_level' = m_level /\ m_children' = m_children
  BY <1>1 DEF tree
<1>3. curr[t] \in Loggers /\ Name(t) \in Names BY <1>1, CallFacts
<1>4. made[t] = Null BY <1>1 DEF IInv, MakingAt, Holding
<1>5. OwnMade' BY <1>1 DEF IInv, OwnMade
<1>6. CASE m_children[curr[t]][Name(t)] # Null
  <2> PICK l \in Loggers : l = m_children[curr[t]][Name(t)] BY <1>3, <1>6 DEF IInv, TypeOK
  <2>1. Arrive(t, l, TRUE) BY <1>6 DEF Find
  <2>2. ChildOK(curr[t], Name(t)) BY <1>3, <1>6 DEF IInv
  <2>3. /\ l # Root /\ memory[l] = "alive"
        /\ m_fullpath[l] = ChildFullpath(curr[t], Name(t))
    BY <2>2, <1>6 DEF ChildOK
  <2>4. Registered(l)' BY <1>2, <1>3 DEF Registered
  <2>5. /\ pc'[t] \in {"idle", "find"}
        /\ WalkingAt(t)' /\ AnswerAt(t)' /\ RacingAt(t)'
    BY <2>1, <2>2, <2>3, <2>4, <1>1, <1>2, ArriveStep
  <2>6. MakingAt(t)' BY <2>5, <1>1, <1>4 DEF MakingAt, Holding
  <2>7. TypeOK' BY <2>1, <2>2, <1>1, <1>2, ArriveFacts DEF IInv, TypeOK
  <2>8. ASSUME NEW u \in Threads \ {t}
        PROVE  WalkingAt(u)' /\ AnswerAt(u)' /\ MakingAt(u)' /\ RacingAt(u)'
    <3>1. /\ pc'[u] = pc[u] /\ curr'[u] = curr[u]
          /\ remainder'[u] = remainder[u] /\ result'[u] = result[u]
      BY <2>1, <2>2, <1>1, ArriveFacts
    <3>2. QED BY <3>1, <1>1, OthersStay
  <2>9. QED BY <2>5, <2>6, <2>7, <2>8, <1>1, <1>5, TreeStays DEF IInv
<1>7. CASE m_children[curr[t]][Name(t)] = Null
  <2>1. pc' = [pc EXCEPT ![t] = "construct"] /\ UNCHANGED <<curr, remainder, result>>
    BY <1>7 DEF Find
  <2>2. pc'[t] = "construct" BY <2>1 DEF IInv, TypeOK
  <2>3. TypeOK' BY <2>1, <1>1, <1>2 DEF IInv, TypeOK
  <2>4. ASSUME NEW u \in Threads \ {t}
        PROVE  WalkingAt(u)' /\ AnswerAt(u)' /\ MakingAt(u)' /\ RacingAt(u)'
    <3>1. pc'[u] = pc[u] BY <2>1 DEF IInv, TypeOK
    <3>2. QED BY <3>1, <2>1, <1>1, OthersStay
  <2>5. WalkingAt(t)'
    <3>1. WalkingAt(t) BY DEF IInv
    <3>2. QED BY <3>1, <2>1, <1>1, <1>2 DEF WalkingAt, Registered, PathOf
  <2>6. AnswerAt(t)' /\ MakingAt(t)' BY <2>2, <1>1, <1>4 DEF AnswerAt, MakingAt, Holding
  <2>7. RacingAt(t)' BY <2>1, <1>2, <1>7 DEF RacingAt, Name
  <2>8. QED BY <2>3, <2>4, <2>5, <2>6, <2>7, <1>1, <1>5, TreeStays DEF IInv
<1>8. QED BY <1>6, <1>7

\* A new logger is nowhere but in the hands of the thread that makes it.
LEMMA ConstructStep ==
  ASSUME IInv, NEW t \in Threads, Construct(t)
  PROVE  IInv'
<1>1. /\ pc[t] = "construct" /\ pc' = [pc EXCEPT ![t] = "inherit"]
      /\ UNCHANGED <<m_level, m_children, curr, remainder, result, calls, changes, asked, rivalled>>
  BY DEF Construct, history
<1>2. PICK l \in Loggers :
        /\ memory[l] = "unused"
        /\ made' = [made EXCEPT ![t] = l]
        /\ memory' = [memory EXCEPT ![l] = "alive"]
        /\ m_fullpath' = [m_fullpath EXCEPT ![l] = ChildFullpath(curr[t], Name(t))]
  BY DEF Construct
<1>3. /\ curr[t] \in Loggers /\ Registered(curr[t]) /\ Name(t) \in Names
      /\ ChildFullpath(curr[t], Name(t)) \in Seq(Names \cup {RootName})
  BY <1>1, CallFacts DEF Creating
<1>4. \A k \in Loggers : Registered(k) => k # l BY <1>2, RegisteredFacts
<1>5. /\ \A k \in Loggers \ {l} : memory'[k] = memory[k] /\ m_fullpath'[k] = m_fullpath[k]
      /\ memory'[l] = "alive" /\ m_fullpath'[l] = ChildFullpath(curr[t], Name(t))
  BY <1>2 DEF IInv, TypeOK
<1>6. /\ \A k \in Loggers : Registered(k)' <=> Registered(k)
      /\ \A k \in Loggers : Registered(k) => PathOf(k)' = PathOf(k) /\ memory'[k] = memory[k]
  <2>1. \A k \in Loggers : Registered(k)' <=> Registered(k) BY <1>1 DEF Registered
  <2>2. ASSUME NEW k \in Loggers, Registered(k)
        PROVE  PathOf(k)' = PathOf(k) /\ memory'[k] = memory[k]
    <3>1. k # l BY <2>2, <1>4
    <3>2. QED BY <3>1, <1>5 DEF PathOf
  <2>3. QED BY <2>1, <2>2
<1>7. /\ pc'[t] = "inherit" /\ made'[t] = l
      /\ \A u \in Threads \ {t} : pc'[u] = pc[u] /\ made'[u] = made[u]
  BY <1>1, <1>2 DEF IInv, TypeOK
<1>8. l # Root /\ Root \in Loggers /\ Registered(Root)
  BY <1>2 DEF IInv, RootOK, Registered
<1>9. TypeOK' BY <1>1, <1>2, <1>3 DEF IInv, TypeOK
<1>10. ASSUME NEW p \in Loggers, NEW n \in Names PROVE ChildOK(p, n)'
  <2>1. CASE m_children[p][n] = Null BY <2>1, <1>1 DEF ChildOK
  <2>2. CASE m_children[p][n] # Null
    <3> PICK k \in Loggers : k = m_children[p][n] BY <2>2 DEF IInv, TypeOK
    <3>1. ChildOK(p, n) BY DEF IInv
    <3>2. /\ k # Root /\ memory[k] = "alive" /\ memory[p] = "alive"
          /\ m_level[k] # Undefined /\ m_fullpath[k] = ChildFullpath(p, n)
          /\ \A q \in Loggers, m \in Names : m_children[q][m] = k => q = p /\ m = n
      BY <3>1, <2>2 DEF ChildOK
    <3>3. k # l /\ p # l BY <3>2, <1>2
    <3>4. memory'[k] = "alive" /\ memory'[p] = "alive" /\ m_fullpath'[k] = m_fullpath[k]
      BY <3>2, <3>3, <1>5
    <3>5. ChildFullpath(p, n)' = ChildFullpath(p, n) BY <3>3, <1>5 DEF ChildFullpath
    <3>6. Registered(p)' BY <3>1, <2>2, <1>6 DEF ChildOK
    <3>7. QED BY <3>2, <3>4, <3>5, <3>6, <1>1 DEF ChildOK
  <2>3. QED BY <2>1, <2>2
<1>11. ASSUME NEW u \in Threads
       PROVE  WalkingAt(u)' /\ AnswerAt(u)' /\ MakingAt(u)' /\ RacingAt(u)'
  <2>1. WalkingAt(u) /\ AnswerAt(u) /\ MakingAt(u) /\ RacingAt(u) BY DEF IInv
  <2>2. curr[u] \in Loggers /\ result[u] \in Loggers BY DEF IInv, TypeOK
  <2>3. WalkingAt(u)'
    <3>1. pc'[u] \in Creating \cup {"find"} => pc[u] \in Creating \cup {"find"}
      BY <1>1, <1>7 DEF Creating
    <3>2. QED BY <3>1, <2>1, <2>2, <1>1, <1>6 DEF WalkingAt
  <2>4. AnswerAt(u)'
    <3>1. pc'[u] = "idle" => pc[u] = "idle" BY <1>7
    <3>2. memory[result[u]] = "freed" => memory'[result[u]] = "freed" BY <2>2, <1>2, <1>5
    <3>3. QED BY <3>1, <3>2, <2>1, <2>2, <1>1, <1>6 DEF AnswerAt
  <2>5. MakingAt(u)'
    <3>1. CASE u = t
      <4>1. ~Registered(l)' BY <1>4, <1>6
      <4>2. ChildFullpath(curr[t], Name(t))' = ChildFullpath(curr[t], Name(t))
        BY <1>1, <1>3, <1>4, <1>5 DEF ChildFullpath, Name
      <4>3. QED BY <4>1, <4>2, <3>1, <1>5, <1>7 DEF MakingAt, Holding
    <3>2. CASE u # t
      <4>1. pc'[u] = pc[u] /\ made'[u] = made[u] BY <3>2, <1>7
      <4>2. CASE made[u] = Null BY <4>1, <4>2, <2>1 DEF MakingAt, Holding
      <4>3. CASE made[u] # Null
        <5> PICK k \in Loggers : k = made[u] BY <4>3 DEF IInv, TypeOK
        <5>1. /\ pc[u] \in Holding /\ memory[k] = "alive" /\ ~Registered(k)
              /\ m_fullpath[k] = ChildFullpath(curr[u], Name(u))
          BY <4>3, <2>1 DEF MakingAt
        <5>2. k # l BY <5>1, <1>2
        <5>3. Registered(curr[u]) BY <5>1, <2>1 DEF WalkingAt, Holding, Creating
        <5>4. ChildFullpath(curr[u], Name(u))' = ChildFullpath(curr[u], Name(u))
          BY <5>3, <2>2, <1>1, <1>4, <1>5 DEF ChildFullpath, Name
        <5>5. memory'[k] = "alive" /\ m_fullpath'[k] = m_fullpath[k] /\ ~Registered(k)'
          BY <5>1, <5>2, <1>5, <1>6
        <5>6. QED BY <4>1, <5>1, <5>4, <5>5, <2>1, <1>1 DEF MakingAt
      <4>4. QED BY <4>2, <4>3
    <3>3. QED BY <3>1, <3>2
  <2>6. RacingAt(u)'
    <3>1. pc'[u] \in Creating => pc[u] \in Creating BY <1>1, <1>7 DEF Creating
    <3>2. QED BY <3>1, <2>1, <1>1 DEF RacingAt, Name
  <2>7. QED BY <2>3, <2>4, <2>5, <2>6
<1>12. OwnMade'
  <2>1. \A u \in Threads \ {t} : made[u] # l
    <3>1. ASSUME NEW u \in Threads, made[u] = l PROVE FALSE
      <4>1. MakingAt(u) /\ l # Null BY DEF IInv
      <4>2. memory[l] = "alive" BY <4>1, <3>1 DEF MakingAt
      <4>3. QED BY <4>2, <1>2
    <3>2. QED BY <3>1
  <2>2. QED BY <2>1, <1>7 DEF IInv, OwnMade
<1>13. RootOK' BY <1>1, <1>5, <1>8 DEF IInv, RootOK
<1>14. QED BY <1>9, <1>10, <1>11, <1>12, <1>13 DEF IInv

LEMMA InheritStep ==
  ASSUME IInv, NEW t \in Threads, Inherit(t)
  PROVE  IInv'
<1>1. /\ pc[t] = "inherit" /\ pc' = [pc EXCEPT ![t] = "emplace"]
      /\ m_level' = [m_level EXCEPT ![made[t]] = m_level[curr[t]]]
      /\ UNCHANGED <<memory, m_fullpath, m_children, curr, remainder, made, result,
                     calls, changes, asked, rivalled>>
  BY DEF Inherit, history
<1>2. MakingAt(t) /\ made[t] # Null BY <1>1 DEF IInv, MakingAt, Holding
<1>3. PICK l \in Loggers : l = made[t] BY <1>2 DEF IInv, TypeOK
<1>4. ~Registered(l) BY <1>2, <1>3 DEF MakingAt
<1>5. curr[t] \in Loggers /\ m_level[curr[t]] # Undefined BY <1>1, CallFacts DEF Creating
<1>6. /\ \A k \in Loggers \ {l} : m_level'[k] = m_level[k]
      /\ m_level'[l] # Undefined
      /\ m_level' \in [Loggers -> Levels \cup {Undefined}]
  BY <1>1, <1>3, <1>5 DEF IInv, TypeOK
<1>7. /\ pc'[t] = "emplace"
      /\ \A u \in Threads \ {t} : pc'[u] = pc[u]
      /\ pc' \in [Threads -> {"idle", "find", "construct", "inherit", "emplace", "lost"}]
  BY <1>1 DEF IInv, TypeOK
<1>8. TypeOK' BY <1>1, <1>6, <1>7 DEF IInv, TypeOK
<1>9. ASSUME NEW p \in Loggers, NEW n \in Names PROVE ChildOK(p, n)'
  <2>1. ChildOK(p, n) BY DEF IInv
  <2>2. CASE m_children[p][n] = Null BY <2>2, <1>1 DEF ChildOK
  <2>3. CASE m_children[p][n] # Null
    <3> PICK k \in Loggers : k = m_children[p][n] BY <2>3 DEF IInv, TypeOK
    <3>1. k # l BY <1>4 DEF Registered
    <3>2. m_level'[k] # Undefined BY <3>1, <2>1, <2>3, <1>6 DEF ChildOK
    <3>3. QED BY <3>2, <2>1, <1>1 DEF ChildOK, ChildFullpath, Registered
  <2>4. QED BY <2>2, <2>3
<1>10. ASSUME NEW u \in Threads
       PROVE  WalkingAt(u)' /\ AnswerAt(u)' /\ MakingAt(u)' /\ RacingAt(u)'
  <2>1. WalkingAt(u) /\ AnswerAt(u) /\ MakingAt(u) /\ RacingAt(u) BY DEF IInv
  <2>2. WalkingAt(u)' BY <2>1, <1>1, <1>7 DEF WalkingAt, Registered, PathOf, Creating
  <2>3. AnswerAt(u)' BY <2>1, <1>1, <1>7 DEF AnswerAt, Registered, PathOf
  <2>4. RacingAt(u)' BY <2>1, <1>1, <1>7 DEF RacingAt, Name, Creating
  <2>5. MakingAt(u)'
    <3>1. made'[u] # Null <=> pc'[u] \in Holding
      BY <2>1, <1>1, <1>7 DEF MakingAt, Holding
    <3>2. made'[u] # Null =>
            /\ m_fullpath'[made'[u]] = ChildFullpath(curr[u], Name(u))'
            /\ memory'[made'[u]] = "alive" /\ ~Registered(made[u])'
      BY <2>1, <1>1 DEF MakingAt, ChildFullpath, Name, Registered
    <3>3. pc'[u] = "emplace" => m_level'[made'[u]] # Undefined
      <4>1. CASE u = t BY <4>1, <1>1, <1>3, <1>6
      <4>2. CASE u # t
        <5>1. SUFFICES ASSUME pc[u] = "emplace" PROVE m_level'[made[u]] # Undefined
          BY <4>2, <1>1, <1>7
        <5>2. made[u] # Null /\ m_level[made[u]] # Undefined BY <5>1, <2>1 DEF MakingAt, Holding
        <5>3. made[u] \in Loggers \ {l} BY <5>2, <4>2, <1>2, <1>3 DEF IInv, OwnMade, TypeOK
        <5>4. QED BY <5>2, <5>3, <1>6
      <4>3. QED BY <4>1, <4>2
    <3>4. QED BY <3>1, <3>2, <3>3 DEF MakingAt
  <2>6. QED BY <2>2, <2>3, <2>4, <2>5
<1>11. OwnMade' BY <1>1 DEF IInv, OwnMade
<1>12. RootOK'
  <2>1. Root \in Loggers \ {l} BY <1>4 DEF Registered
  <2>2. QED BY <2>1, <1>1, <1>6 DEF IInv, RootOK
<1>13. QED BY <1>8, <1>9, <1>10, <1>11, <1>12 DEF IInv

LEMMA SetLevelStep ==
  ASSUME IInv, NEW t \in Threads, NEW level \in Levels, SetLevel(t, level)
  PROVE  IInv'
<1>1. /\ m_level' = [m_level EXCEPT ![result[t]] = level]
      /\ UNCHANGED <<memory, m_fullpath, m_children, pc, curr, remainder, made, result,
                     calls, asked, rivalled>>
      /\ changes < MaxChanges /\ changes' = changes + 1
  BY DEF SetLevel, history
<1>2. \A k \in Loggers : m_level[k] # Undefined => m_level'[k] # Undefined
  BY <1>1 DEF IInv, TypeOK
<1>3. TypeOK'
  <2>1. changes' \in 0..MaxChanges BY <1>1 DEF IInv, TypeOK
  <2>2. QED BY <2>1, <1>1 DEF IInv, TypeOK
<1>4. ASSUME NEW p \in Loggers, NEW n \in Names PROVE ChildOK(p, n)'
  <2>1. ChildOK(p, n) /\ m_children[p][n] \in Loggers \cup {Null} BY DEF IInv, TypeOK
  <2>2. QED BY <2>1, <1>1, <1>2 DEF ChildOK, ChildFullpath, Registered
<1>5. ASSUME NEW u \in Threads
      PROVE  WalkingAt(u)' /\ AnswerAt(u)' /\ MakingAt(u)' /\ RacingAt(u)'
  <2>1. WalkingAt(u) /\ AnswerAt(u) /\ MakingAt(u) /\ RacingAt(u) BY DEF IInv
  <2>2. WalkingAt(u)' BY <2>1, <1>1 DEF WalkingAt, Registered, PathOf
  <2>3. AnswerAt(u)' BY <2>1, <1>1 DEF AnswerAt, Registered, PathOf
  <2>4. RacingAt(u)' BY <2>1, <1>1 DEF RacingAt, Name
  <2>5. MakingAt(u)'
    <3>1. pc[u] = "emplace" => made[u] \in Loggers BY <2>1 DEF MakingAt, Holding, IInv, TypeOK
    <3>2. QED BY <3>1, <2>1, <1>1, <1>2 DEF MakingAt, ChildFullpath, Name, Registered
  <2>6. QED BY <2>2, <2>3, <2>4, <2>5
<1>6. OwnMade' BY <1>1 DEF IInv, OwnMade
<1>7. RootOK' BY <1>1, <1>2 DEF IInv, RootOK
<1>8. QED BY <1>3, <1>4, <1>5, <1>6, <1>7 DEF IInv

-----------------------------------------------------------------------------
(* The new logger of a call is inserted, or freed *)

LEMMA EmplaceFacts ==
  ASSUME IInv, NEW t \in Threads, Emplace(t)
  PROVE  \E l \in Loggers :
           /\ l = made[t] /\ l # Root /\ ~Registered(l)
           /\ memory[l] = "alive" /\ m_level[l] # Undefined
           /\ m_fullpath[l] = ChildFullpath(curr[t], Name(t))
           /\ \A u \in Threads \ {t} : made[u] # l /\ made'[u] = made[u]
           /\ made'[t] = Null /\ made' \in [Threads -> Loggers \cup {Null}]
           /\ OwnMade'
<1>1. pc[t] = "emplace" /\ MakingAt(t) BY DEF Emplace, IInv
<1>2. made[t] # Null /\ made[t] \in Loggers BY <1>1 DEF MakingAt, Holding, IInv, TypeOK
<1>3. PICK l \in Loggers : l = made[t] BY <1>2
<1>4. /\ ~Registered(l) /\ memory[l] = "alive" /\ m_level[l] # Undefined
      /\ m_fullpath[l] = ChildFullpath(curr[t], Name(t))
  BY <1>1, <1>2, <1>3 DEF MakingAt
<1>5. l # Root BY <1>4 DEF Registered
<1>6. /\ made' = [made EXCEPT ![t] = Null]
      /\ made'[t] = Null /\ \A u \in Threads \ {t} : made'[u] = made[u]
      /\ made' \in [Threads -> Loggers \cup {Null}]
  BY DEF Emplace, IInv, TypeOK
<1>7. \A u \in Threads \ {t} : made[u] # l BY <1>2, <1>3 DEF IInv, OwnMade
<1>8. OwnMade' BY <1>6 DEF IInv, OwnMade
<1>9. QED BY <1>3, <1>4, <1>5, <1>6, <1>7, <1>8

LEMMA InsertStep ==
  ASSUME IInv, NEW t \in Threads, Emplace(t), m_children[curr[t]][Name(t)] = Null
  PROVE  IInv'
<1> PICK l \in Loggers :
      /\ l = made[t] /\ l # Root /\ ~Registered(l)
      /\ memory[l] = "alive" /\ m_level[l] # Undefined
      /\ m_fullpath[l] = ChildFullpath(curr[t], Name(t))
      /\ \A u \in Threads \ {t} : made[u] # l /\ made'[u] = made[u]
      /\ made'[t] = Null /\ made' \in [Threads -> Loggers \cup {Null}]
      /\ OwnMade'
  BY EmplaceFacts
<1>1. /\ pc[t] = "emplace" /\ pc[t] \in Creating \cup {"find"}
      /\ m_children' = [m_children EXCEPT ![curr[t]][Name(t)] = l]
      /\ rivalled' = [u \in Threads |-> rivalled[u] \/ u \in Rivals(t)]
      /\ UNCHANGED <<memory, m_fullpath, m_level, calls, changes, asked>>
      /\ Arrive(t, l, TRUE)
  BY DEF Emplace, Creating
<1>2. PICK c \in Loggers, n \in Names :
        c = curr[t] /\ n = Name(t) /\ memory[c] = "alive" /\ Registered(c)
  BY <1>1, CallFacts
<1>3. /\ m_children'[c][n] = l
      /\ \A p \in Loggers, m \in Names :
           ~(p = c /\ m = n) => m_children'[p][m] = m_children[p][m]
      /\ m_children' \in [Loggers -> [Names -> Loggers \cup {Null}]]
  BY <1>1, <1>2 DEF IInv, TypeOK
<1>4. \A p \in Loggers, m \in Names : m_children[p][m] # l BY DEF Registered
<1>5. /\ \A k \in Loggers : Registered(k) => Registered(k)'
      /\ \A k \in Loggers : Registered(k)' => Registered(k) \/ k = l
      /\ Registered(l)'
  <2>1. m_children[c][n] = Null BY <1>2
  <2>2. ASSUME NEW k \in Loggers, Registered(k) PROVE Registered(k)'
    <3>1. CASE k = Root BY <3>1 DEF Registered
    <3>2. CASE k # Root
      <4>1. PICK p \in Loggers, m \in Names : m_children[p][m] = k BY <2>2, <3>2 DEF Registered
      <4>2. m_children'[p][m] = k BY <4>1, <2>1, <1>3
      <4>3. QED BY <4>2 DEF Registered
    <3>3. QED BY <3>1, <3>2
  <2>3. ASSUME NEW k \in Loggers, Registered(k)', k # l PROVE Registered(k)
    <3>1. CASE k = Root BY <3>1 DEF Registered
    <3>2. CASE k # Root
      <4>1. PICK p \in Loggers, m \in Names : m_children'[p][m] = k BY <2>3, <3>2 DEF Registered
      <4>2. m_children[p][m] = k BY <4>1, <2>3, <1>3
      <4>3. QED BY <4>2 DEF Registered
    <3>3. QED BY <3>1, <3>2
  <2>4. Registered(l)' BY <1>3 DEF Registered
  <2>5. QED BY <2>2, <2>3, <2>4
<1>6. /\ pc' \in [Threads -> {"idle", "find", "construct", "inherit", "emplace", "lost"}]
      /\ curr' \in [Threads -> Loggers]
      /\ remainder' \in [Threads -> Seq(Names)]
      /\ result' \in [Threads -> Loggers]
      /\ \A u \in Threads :
           pc'[u] \in {"find", "construct", "inherit", "emplace"} => remainder'[u] # <<>>
      /\ \A u \in Threads \ {t} : /\ pc'[u] = pc[u] /\ curr'[u] = curr[u]
                                  /\ remainder'[u] = remainder[u] /\ result'[u] = result[u]
  BY <1>1, ArriveFacts
<1>7. TypeOK'
  <2>1. rivalled' \in [Threads -> BOOLEAN] BY <1>1 DEF IInv, TypeOK
  <2>2. QED BY <2>1, <1>1, <1>3, <1>6 DEF IInv, TypeOK
<1>8. ASSUME NEW p \in Loggers, NEW m \in Names PROVE ChildOK(p, m)'
  <2>1. ChildOK(p, m) BY DEF IInv
  <2>2. ChildFullpath(p, m)' = ChildFullpath(p, m) BY <1>1 DEF ChildFullpath
  <2>3. CASE p = c /\ m = n
    <3>1. \A q \in Loggers, j \in Names : m_children'[q][j] = l => q = p /\ j = m
      BY <2>3, <1>3, <1>4
    <3>2. Registered(p)' BY <2>3, <1>2, <1>5
    <3>3. QED BY <3>1, <3>2, <2>2, <2>3, <1>1, <1>2, <1>3 DEF ChildOK
  <2>4. CASE ~(p = c /\ m = n)
    <3>1. m_children'[p][m] = m_children[p][m] BY <2>4, <1>3
    <3>2. m_children[p][m] # Null =>
            \A q \in Loggers, j \in Names :
              m_children'[q][j] = m_children[p][m] => q = p /\ j = m
      BY <2>1, <1>3, <1>4 DEF ChildOK
    <3>3. m_children[p][m] # Null => Registered(p)' BY <2>1, <1>5 DEF ChildOK
    <3>4. QED BY <3>1, <3>2, <3>3, <2>1, <2>2, <1>1 DEF ChildOK
  <2>5. QED BY <2>3, <2>4
<1>9. ASSUME NEW u \in Threads \ {t}
      PROVE  WalkingAt(u)' /\ AnswerAt(u)' /\ MakingAt(u)' /\ RacingAt(u)'
  <2>1. WalkingAt(u) /\ AnswerAt(u) /\ MakingAt(u) /\ RacingAt(u) BY DEF IInv
  <2>2. /\ pc'[u] = pc[u] /\ curr'[u] = curr[u] /\ result'[u] = result[u]
        /\ remainder'[u] = remainder[u] /\ made'[u] = made[u] /\ asked'[u] = asked[u]
        /\ curr[u] \in Loggers /\ result[u] \in Loggers
    BY <1>1, <1>6 DEF IInv, TypeOK
  <2>3. rivalled[u] => rivalled'[u] BY <1>1
  <2>4. WalkingAt(u)' BY <2>1, <2>2, <1>1, <1>5 DEF WalkingAt, PathOf
  <2>5. AnswerAt(u)' BY <2>1, <2>2, <2>3, <1>1, <1>5 DEF AnswerAt, PathOf
  <2>6. MakingAt(u)'
    <3>1. CASE made[u] = Null BY <3>1, <2>1, <2>2 DEF MakingAt, Holding
    <3>2. CASE made[u] # Null
      <4>1. PICK k \in Loggers : k = made[u] BY <3>2 DEF IInv, TypeOK
      <4>2. k # l /\ ~Registered(k) BY <4>1, <3>2, <2>1 DEF MakingAt
      <4>3. ~Registered(k)' BY <4>2, <1>5
      <4>4. QED BY <4>1, <4>3, <3>2, <2>1, <2>2, <1>1 DEF MakingAt, ChildFullpath, Name
    <3>3. QED BY <3>1, <3>2
  <2>7. RacingAt(u)'
    <3>1. SUFFICES ASSUME pc[u] \in Creating, m_children'[curr[u]][Name(u)] # Null
                   PROVE  rivalled'[u]
      BY <2>2 DEF RacingAt, Name
    <3>2. Name(u) \in Names BY <3>1, CallFacts
    <3>3. CASE curr[u] = c /\ Name(u) = n
      <4>1. u \in Rivals(t) BY <3>1, <3>3, <1>2 DEF Rivals, Creating
      <4>2. QED BY <4>1, <1>1
    <3>4. CASE ~(curr[u] = c /\ Name(u) = n)
      <4>1. m_children[curr[u]][Name(u)] # Null BY <3>1, <3>2, <3>4, <2>2, <1>3
      <4>2. QED BY <4>1, <3>1, <2>1, <2>3 DEF RacingAt
    <3>5. QED BY <3>3, <3>4
  <2>8. QED BY <2>4, <2>5, <2>6, <2>7
<1>10. WalkingAt(t)' /\ AnswerAt(t)' /\ MakingAt(t)' /\ RacingAt(t)'
  <2>1. /\ pc'[t] \in {"idle", "find"}
        /\ WalkingAt(t)' /\ AnswerAt(t)' /\ RacingAt(t)'
    BY <1>1, <1>5, ArriveStep
  <2>2. MakingAt(t)' BY <2>1 DEF MakingAt, Holding
  <2>3. QED BY <2>1, <2>2
<1>11. RootOK' BY <1>1 DEF IInv, RootOK
<1>12. QED BY <1>7, <1>8, <1>9, <1>10, <1>11 DEF IInv

LEMMA FreeStep ==
  ASSUME IInv, NEW t \in Threads, Emplace(t), m_children[curr[t]][Name(t)] # Null
  PROVE  IInv'
<1> PICK l \in Loggers :
      /\ l = made[t] /\ l # Root /\ ~Registered(l)
      /\ memory[l] = "alive" /\ m_level[l] # Undefined
      /\ m_fullpath[l] = ChildFullpath(curr[t], Name(t))
      /\ \A u \in Threads \ {t} : made[u] # l /\ made'[u] = made[u]
      /\ made'[t] = Null /\ made' \in [Threads -> Loggers \cup {Null}]
      /\ OwnMade'
  BY EmplaceFacts
<1>1. /\ pc[t] = "emplace" /\ pc[t] \in Creating \cup {"find"}
      /\ memory' = [memory EXCEPT ![l] = "freed"]
      /\ UNCHANGED <<m_children, rivalled, m_fullpath, m_level, calls, changes, asked>>
      /\ Arrive(t, l, FALSE)
  BY DEF Emplace, Creating
<1>2. memory'[l] = "freed" /\ \A k \in Loggers \ {l} : memory'[k] = memory[k]
  BY <1>1 DEF IInv, TypeOK
<1>3. /\ pc' \in [Threads -> {"idle", "find", "construct", "inherit", "emplace", "lost"}]
      /\ curr' \in [Threads -> Loggers]
      /\ remainder' \in [Threads -> Seq(Names)]
      /\ result' \in [Threads -> Loggers]
      /\ \A u \in Threads :
           pc'[u] \in {"find", "construct", "inherit", "emplace"} => remainder'[u] # <<>>
      /\ pc'[t] \in {"idle", "find", "lost"}
      /\ \A u \in Threads \ {t} : /\ pc'[u] = pc[u] /\ curr'[u] = curr[u]
                                  /\ remainder'[u] = remainder[u] /\ result'[u] = result[u]
  BY <1>1, ArriveFacts
<1>4. TypeOK' BY <1>1, <1>3 DEF IInv, TypeOK
<1>5. \A k \in Loggers : Registered(k)' <=> Registered(k) BY <1>1 DEF Registered
<1>6. \A k \in Loggers : Registered(k) => k # l /\ memory'[k] = memory[k] BY <1>2
<1>7. ASSUME NEW p \in Loggers, NEW m \in Names PROVE ChildOK(p, m)'
  <2>1. ChildOK(p, m) BY DEF IInv
  <2>2. CASE m_children[p][m] = Null BY <2>2, <1>1 DEF ChildOK
  <2>3. CASE m_children[p][m] # Null
    <3> PICK k \in Loggers : k = m_children[p][m] BY <2>3 DEF IInv, TypeOK
    <3>1. memory'[k] = "alive"
      <4>1. Registered(k) BY DEF Registered
      <4>2. QED BY <4>1, <2>1, <2>3, <1>6 DEF ChildOK
    <3>2. memory'[p] = "alive" /\ Registered(p)'
      <4>1. Registered(p) /\ memory[p] = "alive" BY <2>1, <2>3 DEF ChildOK
      <4>2. QED BY <4>1, <1>5, <1>6
    <3>3. QED BY <3>1, <3>2, <2>1, <2>3, <1>1 DEF ChildOK, ChildFullpath
  <2>4. QED BY <2>2, <2>3
<1>8. ASSUME NEW u \in Threads \ {t}
      PROVE  WalkingAt(u)' /\ AnswerAt(u)' /\ MakingAt(u)' /\ RacingAt(u)'
  <2>1. WalkingAt(u) /\ AnswerAt(u) /\ MakingAt(u) /\ RacingAt(u) BY DEF IInv
  <2>2. /\ pc'[u] = pc[u] /\ curr'[u] = curr[u] /\ result'[u] = result[u]
        /\ remainder'[u] = remainder[u] /\ made'[u] = made[u] /\ asked'[u] = asked[u]
        /\ curr[u] \in Loggers /\ result[u] \in Loggers
    BY <1>1, <1>3 DEF IInv, TypeOK
  <2>3. WalkingAt(u)' BY <2>1, <2>2, <1>1, <1>5 DEF WalkingAt, PathOf
  <2>4. AnswerAt(u)' BY <2>1, <2>2, <1>1, <1>2, <1>5, <1>6 DEF AnswerAt, PathOf
  <2>5. MakingAt(u)'
    <3>1. CASE made[u] = Null BY <3>1, <2>1, <2>2 DEF MakingAt, Holding
    <3>2. CASE made[u] # Null
      <4>1. PICK k \in Loggers : k = made[u] BY <3>2 DEF IInv, TypeOK
      <4>2. k # l BY <4>1
      <4>3. memory'[k] = memory[k] /\ (Registered(k)' <=> Registered(k)) BY <4>2, <1>2, <1>5
      <4>4. QED BY <4>1, <4>3, <3>2, <2>1, <2>2, <1>1 DEF MakingAt, ChildFullpath, Name
    <3>3. QED BY <3>1, <3>2
  <2>6. RacingAt(u)' BY <2>1, <2>2, <1>1 DEF RacingAt, Name
  <2>7. QED BY <2>3, <2>4, <2>5, <2>6
<1>9. WalkingAt(t)' /\ AnswerAt(t)' /\ MakingAt(t)' /\ RacingAt(t)'
  <2>1. rivalled'[t] BY <1>1 DEF IInv, RacingAt, Creating
  <2>2. (pc'[t] = "idle" /\ result'[t] = l) \/ pc'[t] = "lost"
    BY <1>1 DEF Arrive, IInv, TypeOK
  <2>3. WalkingAt(t)' /\ RacingAt(t)' BY <2>2 DEF WalkingAt, RacingAt, Creating
  <2>4. AnswerAt(t)' BY <2>1, <2>2, <1>2 DEF AnswerAt
  <2>5. MakingAt(t)' BY <2>2 DEF MakingAt, Holding
  <2>6. QED BY <2>3, <2>4, <2>5
<1>10. RootOK' BY <1>1, <1>2 DEF IInv, RootOK
<1>11. QED BY <1>4, <1>7, <1>8, <1>9, <1>10 DEF IInv

-----------------------------------------------------------------------------

LEMMA IInvStep == IInv /\ [Next]_vars => IInv'
<1> SUFFICES ASSUME IInv, [Next]_vars PROVE IInv'
  OBVIOUS
<1>1. ASSUME NEW t \in Threads, NEW path \in Paths, GetLogger(t, path) PROVE IInv'
  <2>1. Root \in Loggers /\ <<>> \in Seq(Names) /\ path \in Seq(Names) OBVIOUS
  <2>2. Registered(Root) /\ PathOf(Root) = <<>> BY DEF Registered, PathOf
  <2>3. QED BY <2>1, <2>2, <1>1, BeginStep DEF GetLogger
<1>2. ASSUME NEW t \in Threads, NEW name \in Names, GetChild(t, name) PROVE IInv'
  <2>1. PICK l \in Loggers, base \in Seq(Names) : l = result[t] /\ base = asked[t]
    BY DEF IInv, TypeOK
  <2>2. memory[l] = "alive" /\ pc[t] = "idle" BY <1>2, <2>1 DEF GetChild, Begin
  <2>3. Registered(l) /\ PathOf(l) = base BY <2>1, <2>2 DEF IInv, AnswerAt
  <2>4. <<name>> \in Seq(Names) OBVIOUS
  <2>5. Begin(t, l, base, <<name>>) BY <1>2, <2>1 DEF GetChild
  <2>6. QED BY <2>3, <2>4, <2>5, BeginStep
<1>3. ASSUME NEW t \in Threads, Step(t) PROVE IInv'
  BY <1>3, FindStep, ConstructStep, InheritStep, InsertStep, FreeStep DEF Step
<1>4. ASSUME NEW t \in Threads, NEW level \in Levels, SetLevel(t, level) PROVE IInv'
  BY <1>4, SetLevelStep
<1>5. CASE UNCHANGED vars
  <2>1. /\ UNCHANGED tree
        /\ UNCHANGED <<pc, curr, remainder, made, result, calls, changes, asked, rivalled>>
    BY <1>5 DEF vars, history
  <2>2. TypeOK' BY <2>1 DEF IInv, TypeOK, tree
  <2>3. ASSUME NEW u \in Threads
        PROVE  WalkingAt(u)' /\ AnswerAt(u)' /\ MakingAt(u)' /\ RacingAt(u)'
    <3>1. WalkingAt(u) /\ AnswerAt(u) /\ MakingAt(u) /\ RacingAt(u) BY DEF IInv
    <3>2. /\ memory' = memory /\ m_fullpath' = m_fullpath
          /\ m_level' = m_level /\ m_children' = m_children
      BY <2>1 DEF tree
    <3>3. WalkingAt(u)' BY <3>1, <3>2, <2>1 DEF WalkingAt, Registered, PathOf
    <3>4. AnswerAt(u)' BY <3>1, <3>2, <2>1 DEF AnswerAt, Registered, PathOf
    <3>5. MakingAt(u)' BY <3>1, <3>2, <2>1 DEF MakingAt, Registered, ChildFullpath, Name
    <3>6. RacingAt(u)' BY <3>1, <3>2, <2>1 DEF RacingAt, Name
    <3>7. QED BY <3>3, <3>4, <3>5, <3>6
  <2>4. OwnMade' BY <2>1 DEF IInv, OwnMade
  <2>5. QED BY <2>1, <2>2, <2>3, <2>4, TreeStays DEF IInv
<1>6. QED BY <1>1, <1>2, <1>3, <1>4, <1>5 DEF Next

LEMMA Invariance == Spec => []IInv
BY IInvInit, IInvStep, PTL DEF Spec

\* The types of the tree and of the calls, for any threads, names and paths.
THEOREM TypeCorrect == Spec => []TypeOK
<1>1. IInv => TypeOK BY DEF IInv
<1>2. QED BY <1>1, Invariance, PTL

\* Whatever threads race in get_child, m_children is a tree of loggers that are
\* alive, have a level and carry the path of their place.
THEOREM TreeStaysOne == Spec => []TreeOK
BY IInvMeans, Invariance, PTL

\* get_logger and get_child return the logger asked for, but to a thread that
\* lost a race they may return one that is freed.
THEOREM OnlyRacesDangle == Spec => []AnswerIsRegistered
BY IInvMeans, Invariance, PTL

\* No step replaces a logger that is in the tree.
LEMMA ChildStays ==
  ASSUME IInv, [Next]_vars, NEW p \in Loggers, NEW n \in Names, m_children[p][n] # Null
  PROVE  m_children'[p][n] = m_children[p][n]
<1>1. ASSUME NEW t \in Threads, Emplace(t) PROVE m_children'[p][n] = m_children[p][n]
  <2>1. pc[t] \in Creating \cup {"find"} BY <1>1 DEF Emplace, Creating
  <2>2. curr[t] \in Loggers /\ Name(t) \in Names BY <2>1, CallFacts
  <2>3. m_children \in [Loggers -> [Names -> Loggers \cup {Null}]] BY DEF IInv, TypeOK
  <2>4. CASE m_children[curr[t]][Name(t)] = Null
    <3>1. m_children' = [m_children EXCEPT ![curr[t]][Name(t)] = made[t]]
      BY <1>1, <2>4 DEF Emplace
    <3>2. ~(p = curr[t] /\ n = Name(t)) BY <2>4
    <3>3. QED BY <3>1, <3>2, <2>2, <2>3
  <2>5. CASE m_children[curr[t]][Name(t)] # Null BY <1>1, <2>5 DEF Emplace
  <2>6. QED BY <2>4, <2>5
<1>2. CASE UNCHANGED m_children BY <1>2
<1>3. QED BY <1>1, <1>2 DEF Next, Step, GetLogger, GetChild, Begin, Find, Construct,
                            Inherit, SetLevel, tree, vars

\* The references that get_logger and get_child gave out stay good for as long
\* as the root logger lives.
THEOREM LoggersStay == Spec => RegisteredStay
<1>1. IInv /\ [Next]_vars =>
        [\A p \in Loggers, n \in Names :
           m_children[p][n] # Null => m_children'[p][n] = m_children[p][n]]_vars
  BY ChildStays
<1>2. QED BY <1>1, Invariance, PTL DEF Spec, RegisteredStay
=============================================================================
