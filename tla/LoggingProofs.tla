--------------------------- MODULE LoggingProofs ---------------------------
(* Proofs about Logging for any threads, loggers, sinks and levels: the loop  *)
(* over the sinks is exclusive, the sinks agree on the order of the records   *)
(* they share, and set_level takes effect between two calls.                  *)
EXTENDS Logging, SequenceFacts

USE NamesAssumption, NumbersAssumption

InLoop(t) == pc[t] \in {"sinks", "direct"}

\* The loop over the sinks stays within m_sinks, which names no sink twice.
LoopBounds ==
  /\ IsInjective(m_sinks)
  /\ \A t \in Threads : /\ pc[t] \in {"idle", "filter", "submit"} => at[t] = 1
                        /\ pc[t] # "idle" => sent[t] > 0
                        /\ pc[t] = "sinks" => at[t] <= Len(m_sinks) + 1
                        /\ pc[t] = "direct" => at[t] <= Len(m_sinks)

\* A record is given to a sink at the sink's turn in the record's call.
InTurn ==
  /\ \A s \in Sinks : \A r \in Range(accepted[s]) : r[2] <= sent[r[1]]
  /\ \A t \in Threads, s \in Sinks :
       pc[t] # "idle" /\ Current(t) \in Range(accepted[s]) =>
         InLoop(t) /\ \E i \in 1..(at[t] - 1) : m_sinks[i] = s

\* What the thread in the loop has given to a sink is the sink's last record.
LastIsCurrent ==
  \A t \in Threads, s \in Sinks :
    InLoop(t) /\ Current(t) \in Range(accepted[s]) =>
      accepted[s][Len(accepted[s])] = Current(t)

OrderInv == TypeOK /\ MutexHeldInside /\ LoopBounds /\ InTurn /\ LastIsCurrent /\ SinksAgree

-----------------------------------------------------------------------------
(* Types and the mutex *)

LEMMA InitOrder == Init => OrderInv
<1> SUFFICES ASSUME Init PROVE OrderInv
  OBVIOUS
<1>1. <<>> \in Seq(Sinks) /\ <<>> \in Seq(Records) /\ Len(<<>>) = 0 /\ DOMAIN <<>> = {}
  BY EmptySeq
<1>2. Range(<<>>) = {} BY <1>1 DEF Range
<1>3. IsInjective(<<>>) BY <1>1 DEF IsInjective
<1>4. TypeOK BY <1>1 DEF Init, TypeOK, NoCall, Unseen, Filters
<1>5. MutexHeldInside BY DEF Init, MutexHeldInside
<1>6. LoopBounds BY <1>3 DEF Init, LoopBounds
<1>7. InTurn BY <1>2 DEF Init, InTurn
<1>8. LastIsCurrent BY DEF Init, LastIsCurrent, InLoop
<1>9. SinksAgree BY <1>1, <1>3 DEF Init, SinksAgree, Before
<1>10. QED BY <1>4, <1>5, <1>6, <1>7, <1>8, <1>9 DEF OrderInv

LEMMA AtSinkFacts ==
  ASSUME OrderInv, NEW t \in Threads, InLoop(t), at[t] <= Len(m_sinks)
  PROVE  /\ AtSink(t) \in Sinks
         /\ Len(m_sinks) \in Nat
         /\ at[t] \in 1..Len(m_sinks)
         /\ AtSink(t) \in Range(m_sinks)
<1>1. m_sinks \in Seq(Sinks) BY DEF OrderInv, TypeOK
<1>2. Len(m_sinks) \in Nat /\ DOMAIN m_sinks = 1..Len(m_sinks) BY <1>1, LenProperties
<1>3. at[t] \in 1..Len(m_sinks) BY <1>2 DEF OrderInv, TypeOK
<1>4. m_sinks[at[t]] \in Sinks BY <1>1, <1>3, LenProperties
<1>5. QED BY <1>2, <1>3, <1>4 DEF AtSink, Range

LEMMA CurrentIsRecord ==
  ASSUME OrderInv, NEW t \in Threads, pc[t] # "idle"
  PROVE  Current(t) \in Records
BY DEF OrderInv, TypeOK, LoopBounds, Current, Record, Records

LEMMA DirectFacts ==
  ASSUME OrderInv, NEW t \in Threads, pc[t] = "direct"
  PROVE  /\ AtSink(t) \in Sinks
         /\ Current(t) \in Records
         /\ at[t] \in 1..Len(m_sinks)
         /\ Len(m_sinks) \in Nat
<1>1. InLoop(t) /\ at[t] <= Len(m_sinks) BY DEF OrderInv, LoopBounds, InLoop
<1>2. QED BY <1>1, AtSinkFacts, CurrentIsRecord

LEMMA NoticedType ==
  ASSUME TypeOK, NEW x \in Filters, NEW v \in Levels \cup {Detached}
  PROVE  Noticed(x, v) \in [Threads -> [Filters -> SUBSET (Levels \cup {Detached})]]
<1>1. \A t \in Threads : seen[t] \in [Filters -> SUBSET (Levels \cup {Detached})]
  BY DEF TypeOK
<1>2. ASSUME NEW t \in Threads
      PROVE  [seen[t] EXCEPT ![x] = @ \cup {v}] \in [Filters -> SUBSET (Levels \cup {Detached})]
  BY <1>1
<1>3. QED BY <1>1, <1>2 DEF Noticed

LEMMA TypeStep ==
  ASSUME OrderInv, [Next]_vars
  PROVE  TypeOK'
<1>0. OrderInv /\ TypeOK BY DEF OrderInv
<1> USE DEF TypeOK
<1>1. NoCall \in [logger : Loggers, level : Levels] /\ Unseen \in [Filters -> SUBSET (Levels \cup {Detached})]
  BY DEF NoCall, Unseen
<1>2. ASSUME NEW t \in Threads, NEW where \in {"filter", "submit", "sinks", "direct"}, Goto(t, where)
      PROVE  /\ pc' \in [Threads -> {"idle", "filter", "submit", "sinks", "direct"}]
             /\ call' = call /\ seen' = seen
  BY <1>0, <1>2 DEF Goto
<1>3. ASSUME NEW t \in Threads, Leave(t)
      PROVE  /\ pc' \in [Threads -> {"idle", "filter", "submit", "sinks", "direct"}]
             /\ call' \in [Threads -> [logger : Loggers, level : Levels]]
             /\ seen' \in [Threads -> [Filters -> SUBSET (Levels \cup {Detached})]]
  BY <1>0, <1>1, <1>3 DEF Leave
<1>4. \A x \in Filters : Shown(x) \in Levels \cup {Detached} BY <1>0 DEF Shown
<1>5. ASSUME NEW t \in Threads, NEW l \in Loggers, NEW v \in Levels, Call(t, l, v)
      PROVE  TypeOK'
  <2>1. [x \in Filters |-> IF x \in Sinks \cup {l, Root} THEN {Shown(x)} ELSE {}]
          \in [Filters -> SUBSET (Levels \cup {Detached})]
    <3>1. \A x \in Filters : (IF x \in Sinks \cup {l, Root} THEN {Shown(x)} ELSE {})
                               \in SUBSET (Levels \cup {Detached})
      BY <1>4
    <3>2. QED BY <3>1
  <2>2. seen' \in [Threads -> [Filters -> SUBSET (Levels \cup {Detached})]]
    BY <1>0, <1>5, <2>1 DEF Call
  <2>3. QED BY <1>0, <1>5, <2>2 DEF Call
<1>6. ASSUME NEW t \in Threads, Filter(t) PROVE TypeOK'
  BY <1>0, <1>2, <1>3, <1>6 DEF Filter
<1>7. ASSUME NEW t \in Threads, Submit(t) PROVE TypeOK'
  BY <1>0, <1>2, <1>3, <1>7 DEF Submit
<1>8. ASSUME NEW t \in Threads, SinkFilter(t) PROVE TypeOK'
  <2>1. at' \in [Threads -> Nat \ {0}]
    <3>1. at' = [at EXCEPT ![t] = @ + 1] \/ at' = at BY <1>8 DEF SinkFilter
    <3>2. at[t] + 1 \in Nat \ {0} BY <1>0
    <3>3. QED BY <1>0, <3>1, <3>2
  <2>2. Goto(t, "sinks") \/ Goto(t, "direct") BY <1>8 DEF SinkFilter
  <2>3. QED BY <1>0, <1>2, <1>8, <2>1, <2>2 DEF SinkFilter
<1>9. ASSUME NEW t \in Threads, SinkDirect(t) PROVE TypeOK'
  <2>1. AtSink(t) \in Sinks /\ Current(t) \in Records
    BY <1>9, DirectFacts DEF SinkDirect
  <2>2. accepted[AtSink(t)] \in Seq(Records) BY <1>0, <2>1
  <2>3. Append(accepted[AtSink(t)], Current(t)) \in Seq(Records)
    BY <2>1, <2>2, AppendFacts
  <2>4. QED BY <1>0, <1>2, <1>9, <2>1, <2>3 DEF SinkDirect
<1>10. ASSUME NEW t \in Threads, Return(t) PROVE TypeOK'
  BY <1>0, <1>3, <1>10 DEF Return
<1>11. ASSUME NEW x \in Filters, NEW v \in Levels \cup {Detached}
       PROVE  Noticed(x, v) \in [Threads -> [Filters -> SUBSET (Levels \cup {Detached})]]
  BY <1>0, NoticedType
<1>12. ASSUME NEW x \in Filters, NEW v \in Levels, SetLevel(x, v) PROVE TypeOK'
  <2> DEFINE w == IF x \in Loggers \/ x \in Range(m_sinks) THEN v ELSE Detached
  <2>1. seen' = Noticed(x, w) BY <1>12 DEF SetLevel
  <2>2. w \in Levels \cup {Detached} OBVIOUS
  <2> HIDE DEF w
  <2>3. seen' \in [Threads -> [Filters -> SUBSET (Levels \cup {Detached})]]
    BY <1>11, <2>1, <2>2
  <2>4. QED BY <1>0, <1>12, <2>3 DEF SetLevel
<1>13. ASSUME NEW s \in Sinks, AttachSink(s) PROVE TypeOK'
  <2>1. Append(m_sinks, s) \in Seq(Sinks) BY <1>0, AppendFacts
  <2>2. s \in Filters /\ m_level[s] \in Levels BY <1>0 DEF Filters
  <2>3. QED BY <1>0, <1>11, <1>13, <2>1, <2>2 DEF AttachSink
<1>14. CASE UNCHANGED vars BY <1>0, <1>14 DEF vars
<1>15. QED
  BY <1>5, <1>6, <1>7, <1>8, <1>9, <1>10, <1>12, <1>13, <1>14 DEF Next, Log

LEMMA MutexStep ==
  ASSUME OrderInv, [Next]_vars
  PROVE  MutexHeldInside'
<1> USE DEF OrderInv, TypeOK, MutexHeldInside
<1>1. ASSUME NEW t \in Threads, NEW l \in Loggers, NEW v \in Levels, Call(t, l, v)
      PROVE  MutexHeldInside'
  BY <1>1 DEF Call
<1>2. ASSUME NEW t \in Threads, Filter(t) PROVE MutexHeldInside'
  BY <1>2 DEF Filter, Leave, Goto
<1>3. ASSUME NEW t \in Threads, Submit(t) PROVE MutexHeldInside'
  BY <1>3 DEF Submit, Leave, Goto
<1>4. ASSUME NEW t \in Threads, SinkFilter(t) PROVE MutexHeldInside'
  BY <1>4 DEF SinkFilter, Goto
<1>5. ASSUME NEW t \in Threads, SinkDirect(t) PROVE MutexHeldInside'
  BY <1>5 DEF SinkDirect, Goto
<1>6. ASSUME NEW t \in Threads, Return(t) PROVE MutexHeldInside'
  BY <1>6 DEF Return, Leave
<1>7. ASSUME NEW x \in Filters, NEW v \in Levels, SetLevel(x, v) PROVE MutexHeldInside'
  BY <1>7 DEF SetLevel
<1>8. ASSUME NEW s \in Sinks, AttachSink(s) PROVE MutexHeldInside'
  BY <1>8 DEF AttachSink
<1>9. CASE UNCHANGED vars BY <1>9 DEF vars
<1>10. QED
  BY <1>1, <1>2, <1>3, <1>4, <1>5, <1>6, <1>7, <1>8, <1>9 DEF Next, Log

\* Nobody is in the loop while a thread enters it or a sink is attached.
LEMMA LoopIsEmpty ==
  ASSUME OrderInv, root_mutex = Nobody
  PROVE  \A t \in Threads : ~InLoop(t)
BY DEF OrderInv, MutexHeldInside, InLoop

\* The thread in the loop is alone in it.
LEMMA LoopIsExclusive ==
  ASSUME OrderInv, NEW t \in Threads, InLoop(t)
  PROVE  \A u \in Threads : InLoop(u) => u = t
BY DEF OrderInv, MutexHeldInside, InLoop

LEMMA BoundsStep ==
  ASSUME OrderInv, [Next]_vars
  PROVE  LoopBounds'
<1>1. /\ pc \in [Threads -> {"idle", "filter", "submit", "sinks", "direct"}]
      /\ at \in [Threads -> Nat \ {0}]
      /\ sent \in [Threads -> 0..MaxCalls]
      /\ m_sinks \in Seq(Sinks)
      /\ LoopBounds
  BY DEF OrderInv, TypeOK
<1>2. Len(m_sinks) \in Nat BY <1>1, LenProperties
<1>3. ASSUME NEW t \in Threads, NEW l \in Loggers, NEW v \in Levels, Call(t, l, v)
      PROVE  LoopBounds'
  BY <1>1, <1>3 DEF Call, LoopBounds
<1>4. ASSUME NEW t \in Threads, Filter(t) PROVE LoopBounds'
  BY <1>1, <1>4 DEF Filter, Leave, Goto, LoopBounds
<1>5. ASSUME NEW t \in Threads, Submit(t) PROVE LoopBounds'
  BY <1>1, <1>2, <1>5 DEF Submit, Leave, Goto, LoopBounds
<1>6. ASSUME NEW t \in Threads, SinkFilter(t) PROVE LoopBounds'
  <2>1. CASE Below(t, AtSink(t))
    BY <1>1, <1>2, <1>6, <2>1 DEF SinkFilter, Goto, LoopBounds
  <2>2. CASE ~Below(t, AtSink(t))
    BY <1>1, <1>2, <1>6, <2>2 DEF SinkFilter, Goto, LoopBounds
  <2>3. QED BY <2>1, <2>2
<1>7. ASSUME NEW t \in Threads, SinkDirect(t) PROVE LoopBounds'
  BY <1>1, <1>2, <1>7 DEF SinkDirect, Goto, LoopBounds
<1>8. ASSUME NEW t \in Threads, Return(t) PROVE LoopBounds'
  BY <1>1, <1>8 DEF Return, Leave, LoopBounds
<1>9. ASSUME NEW x \in Filters, NEW v \in Levels, SetLevel(x, v) PROVE LoopBounds'
  BY <1>1, <1>9 DEF SetLevel, LoopBounds
<1>10. ASSUME NEW s \in Sinks, AttachSink(s) PROVE LoopBounds'
  <2>1. IsInjective(m_sinks') BY <1>1, <1>10, AppendFacts DEF AttachSink, LoopBounds
  <2>2. \A t \in Threads : pc[t] \notin {"sinks", "direct"}
    BY <1>10, LoopIsEmpty DEF AttachSink, InLoop
  <2>3. QED BY <1>1, <1>10, <2>1, <2>2 DEF AttachSink, LoopBounds
<1>11. CASE UNCHANGED vars BY <1>1, <1>11 DEF vars, LoopBounds
<1>12. QED
  BY <1>3, <1>4, <1>5, <1>6, <1>7, <1>8, <1>9, <1>10, <1>11 DEF Next, Log

-----------------------------------------------------------------------------
(* The order of the records *)

\* A step of one thread that gives no record to a sink and starts no call keeps
\* every record in turn and last, if it keeps the place of the thread.
LEMMA QuietStep ==
  ASSUME OrderInv, UNCHANGED <<accepted, sent>>,
         \A t \in Threads : pc'[t] # "idle" => pc[t] # "idle",
         \A t \in Threads : InLoop(t)' => InLoop(t) \/ pc[t] = "submit",
         \A t \in Threads : InLoop(t) /\ pc'[t] # "idle" => InLoop(t)' /\ at'[t] >= at[t],
         \A i \in DOMAIN m_sinks : m_sinks'[i] = m_sinks[i],
         at' \in [Threads -> Nat \ {0}]
  PROVE  InTurn' /\ LastIsCurrent' /\ SinksAgree'
<1>1. m_sinks \in Seq(Sinks) /\ at \in [Threads -> Nat \ {0}] BY DEF OrderInv, TypeOK
<1>2. Len(m_sinks) \in Nat /\ DOMAIN m_sinks = 1..Len(m_sinks) BY <1>1, LenProperties
<1>3. \A t \in Threads : Current(t)' = Current(t) BY DEF Current
<1>4. InTurn'
  <2>1. ASSUME NEW t \in Threads, NEW s \in Sinks,
               pc'[t] # "idle", Current(t) \in Range(accepted[s])
        PROVE  InLoop(t)' /\ \E i \in 1..(at'[t] - 1) : m_sinks'[i] = s
    <3>1. InLoop(t) /\ \E i \in 1..(at[t] - 1) : m_sinks[i] = s
      BY <2>1 DEF OrderInv, InTurn
    <3>2. PICK i \in 1..(at[t] - 1) : m_sinks[i] = s BY <3>1
    <3>3. at[t] <= Len(m_sinks) + 1 BY <3>1, <1>1, <1>2 DEF OrderInv, LoopBounds, InLoop
    <3>4. i \in DOMAIN m_sinks BY <3>3, <1>1, <1>2
    <3>5. m_sinks'[i] = s BY <3>2, <3>4
    <3>6. InLoop(t)' /\ at'[t] >= at[t] BY <2>1, <3>1
    <3>7. i \in 1..(at'[t] - 1)
      <4>1. i \in Nat \ {0} /\ i <= at[t] - 1 /\ at[t] \in Nat BY <1>1
      <4>2. at'[t] \in Nat \ {0} OBVIOUS
      <4>3. QED BY <4>1, <4>2, <3>6
    <3>8. QED BY <3>5, <3>6, <3>7
  <2>2. QED BY <2>1, <1>3 DEF OrderInv, InTurn
<1>5. LastIsCurrent'
  <2>1. ASSUME NEW t \in Threads, NEW s \in Sinks, InLoop(t)', Current(t) \in Range(accepted[s])
        PROVE  accepted[s][Len(accepted[s])] = Current(t)
    <3>1. InLoop(t)
      <4>1. pc[t] # "idle" BY <2>1 DEF InLoop
      <4>2. QED BY <4>1, <2>1 DEF OrderInv, InTurn
    <3>2. QED BY <2>1, <3>1 DEF OrderInv, LastIsCurrent
  <2>2. QED BY <2>1, <1>3 DEF LastIsCurrent
<1>6. SinksAgree' BY DEF OrderInv, SinksAgree, Before
<1>7. QED BY <1>4, <1>5, <1>6

\* A new call has a record no sink has been given.
LEMMA CallStep ==
  ASSUME OrderInv, NEW t \in Threads, NEW l \in Loggers, NEW v \in Levels, Call(t, l, v)
  PROVE  InTurn' /\ LastIsCurrent' /\ SinksAgree'
<1>1. /\ sent \in [Threads -> 0..MaxCalls] /\ pc[t] = "idle"
      /\ pc \in [Threads -> {"idle", "filter", "submit", "sinks", "direct"}]
      /\ sent' = [sent EXCEPT ![t] = @ + 1]
      /\ pc' = [pc EXCEPT ![t] = "filter"]
      /\ UNCHANGED <<accepted, at, m_sinks>>
  BY DEF OrderInv, TypeOK, Call
<1>2. \A s \in Sinks : \A r \in Range(accepted[s]) : r \in Records /\ r[2] <= sent[r[1]]
  <2>1. ASSUME NEW s \in Sinks, NEW r \in Range(accepted[s]) PROVE r \in Records
    <3>1. accepted[s] \in Seq(Records) BY DEF OrderInv, TypeOK
    <3>2. PICK i \in DOMAIN accepted[s] : r = accepted[s][i] BY DEF Range
    <3>3. QED BY <3>1, <3>2, LenProperties
  <2>2. QED BY <2>1 DEF OrderInv, InTurn
<1>3. ASSUME NEW s \in Sinks, NEW r \in Range(accepted[s]) PROVE r[2] <= sent'[r[1]]
  <2>1. r[1] \in Threads /\ r[2] \in Nat /\ r[2] <= sent[r[1]]
    BY <1>2 DEF Records
  <2>2. sent'[r[1]] = sent[r[1]] \/ sent'[r[1]] = sent[r[1]] + 1 BY <1>1, <2>1
  <2>3. sent[r[1]] \in Nat BY <1>1, <2>1
  <2>4. QED BY <2>1, <2>2, <2>3
<1>4. \A s \in Sinks : Current(t)' \notin Range(accepted[s])
  <2>1. Current(t)' = <<t, sent[t] + 1>> /\ sent[t] \in Nat BY <1>1 DEF Current, Record
  <2>2. ASSUME NEW s \in Sinks, <<t, sent[t] + 1>> \in Range(accepted[s]) PROVE FALSE
    <3>1. sent[t] + 1 <= sent[t] BY <2>2, <1>2
    <3>2. QED BY <3>1, <2>1
  <2>3. QED BY <2>1, <2>2
<1>5. \A u \in Threads \ {t} : Current(u)' = Current(u) /\ pc'[u] = pc[u]
  BY <1>1 DEF Current, Record
<1>6. InTurn' BY <1>1, <1>3, <1>4, <1>5 DEF OrderInv, InTurn, InLoop
<1>7. LastIsCurrent' BY <1>1, <1>4, <1>5 DEF OrderInv, LastIsCurrent, InLoop
<1>8. SinksAgree' BY <1>1 DEF OrderInv, SinksAgree, Before
<1>9. QED BY <1>6, <1>7, <1>8

\* The record given to a sink is new to it, and last of all.
LEMMA DirectStep ==
  ASSUME OrderInv, NEW t \in Threads, SinkDirect(t)
  PROVE  InTurn' /\ LastIsCurrent' /\ SinksAgree'
<1> DEFINE s == AtSink(t)
           r == Current(t)
<1>1. /\ s \in Sinks /\ r \in Records
      /\ at[t] \in 1..Len(m_sinks) /\ Len(m_sinks) \in Nat
      /\ pc[t] = "direct"
  BY DirectFacts DEF SinkDirect
<1>2. /\ accepted \in [Sinks -> Seq(Records)]
      /\ m_sinks \in Seq(Sinks)
      /\ at \in [Threads -> Nat \ {0}]
      /\ pc \in [Threads -> {"idle", "filter", "submit", "sinks", "direct"}]
      /\ IsInjective(m_sinks)
  BY DEF OrderInv, TypeOK, LoopBounds
<1>3. /\ accepted' = [accepted EXCEPT ![s] = Append(@, r)]
      /\ at' = [at EXCEPT ![t] = @ + 1]
      /\ pc' = [pc EXCEPT ![t] = "sinks"]
      /\ UNCHANGED <<m_sinks, sent>>
  BY DEF SinkDirect, Goto
<1>4. \A u \in Threads : Current(u)' = Current(u) BY <1>3 DEF Current
<1>5. r \notin Range(accepted[s])
  <2>1. SUFFICES ASSUME r \in Range(accepted[s]) PROVE FALSE
    OBVIOUS
  <2>2. PICK i \in 1..(at[t] - 1) : m_sinks[i] = s
    BY <2>1, <1>1 DEF OrderInv, InTurn
  <2>3. i \in DOMAIN m_sinks /\ at[t] \in DOMAIN m_sinks /\ i # at[t]
    BY <1>1, <1>2, LenProperties
  <2>4. m_sinks[at[t]] = s BY DEF AtSink
  <2>5. QED BY <2>2, <2>3, <2>4, <1>2 DEF IsInjective
<1>6. /\ \A u \in Sinks \ {s} : accepted'[u] = accepted[u]
      /\ accepted'[s] = Append(accepted[s], r)
  BY <1>1, <1>2, <1>3
<1> HIDE DEF s, r
<1>7. /\ accepted[s] \in Seq(Records)
      /\ Len(accepted[s]) \in Nat
      /\ DOMAIN accepted[s] = 1..Len(accepted[s])
      /\ accepted'[s] \in Seq(Records)
      /\ Len(accepted'[s]) = Len(accepted[s]) + 1
      /\ \A i \in 1..Len(accepted[s]) : accepted'[s][i] = accepted[s][i]
      /\ accepted'[s][Len(accepted[s]) + 1] = r
      /\ DOMAIN accepted'[s] = 1..(Len(accepted[s]) + 1)
  <2>1. accepted[s] \in Seq(Records) BY <1>1, <1>2
  <2>2. Len(accepted[s]) \in Nat /\ DOMAIN accepted[s] = 1..Len(accepted[s])
    BY <2>1, LenProperties
  <2>3. /\ Append(accepted[s], r) \in Seq(Records)
        /\ Len(Append(accepted[s], r)) = Len(accepted[s]) + 1
        /\ \A i \in 1..Len(accepted[s]) : Append(accepted[s], r)[i] = accepted[s][i]
        /\ Append(accepted[s], r)[Len(accepted[s]) + 1] = r
    BY <1>1, <2>1, AppendProperties
  <2>4. QED BY <1>6, <2>1, <2>2, <2>3, LenProperties
<1>8. Range(accepted'[s]) = Range(accepted[s]) \cup {r} BY <1>1, <1>6, <1>7, AppendFacts
<1>9. InTurn'
  <2>1. ASSUME NEW u \in Sinks, NEW q \in Range(accepted'[u]) PROVE q[2] <= sent[q[1]]
    <3>1. CASE q \in Range(accepted[u]) BY <3>1 DEF OrderInv, InTurn
    <3>2. CASE q \notin Range(accepted[u])
      <4>1. q = r BY <3>2, <1>6, <1>8
      <4>2. r[2] = sent[r[1]] BY DEF r, Current, Record
      <4>3. sent[r[1]] \in Nat BY DEF r, Current, Record, OrderInv, TypeOK
      <4>4. QED BY <4>1, <4>2, <4>3
    <3>3. QED BY <3>1, <3>2
  <2>2. ASSUME NEW u \in Threads, NEW w \in Sinks, pc'[u] # "idle",
               Current(u) \in Range(accepted'[w])
        PROVE  InLoop(u)' /\ \E i \in 1..(at'[u] - 1) : m_sinks[i] = w
    <3>1. CASE u = t
      <4>1. InLoop(u)' BY <3>1, <1>2, <1>3 DEF InLoop
      <4>2. at'[u] = at[u] + 1 BY <3>1, <1>2, <1>3
      <4>3. CASE w = s
        <5>1. m_sinks[at[u]] = s BY <3>1 DEF s, AtSink
        <5>2. at[u] \in 1..(at'[u] - 1) BY <1>2, <4>2
        <5>3. QED BY <4>1, <4>3, <5>1, <5>2
      <4>4. CASE w # s
        <5>1. Current(u) \in Range(accepted[w]) BY <2>2, <4>4, <1>6
        <5>2. pc[u] # "idle" BY <3>1, <1>1
        <5>3. PICK i \in 1..(at[u] - 1) : m_sinks[i] = w
          BY <5>1, <5>2 DEF OrderInv, InTurn
        <5>4. i \in 1..(at'[u] - 1) BY <1>2, <4>2
        <5>5. QED BY <4>1, <5>3, <5>4
      <4>5. QED BY <4>3, <4>4
    <3>2. CASE u # t
      <4>1. Current(u) # r BY <3>2 DEF r, Current, Record
      <4>2. Current(u) \in Range(accepted[w]) BY <2>2, <4>1, <1>6, <1>8
      <4>3. pc'[u] = pc[u] /\ at'[u] = at[u] BY <3>2, <1>2, <1>3
      <4>4. QED BY <2>2, <4>2, <4>3 DEF OrderInv, InTurn, InLoop
    <3>3. QED BY <3>1, <3>2
  <2>3. QED BY <2>1, <2>2, <1>3, <1>4 DEF InTurn
<1>10. LastIsCurrent'
  <2>1. ASSUME NEW u \in Threads, NEW w \in Sinks, InLoop(u)',
               Current(u) \in Range(accepted'[w])
        PROVE  accepted'[w][Len(accepted'[w])] = Current(u)
    <3>1. InLoop(t) BY <1>1 DEF InLoop
    <3>2. u = t
      <4>1. CASE u # t
        <5>1. InLoop(u) BY <4>1, <2>1, <1>2, <1>3 DEF InLoop
        <5>2. QED BY <3>1, <5>1, LoopIsExclusive
      <4>2. QED BY <4>1
    <3>3. CASE w = s BY <3>2, <3>3, <1>7 DEF r
    <3>4. CASE w # s BY <2>1, <3>1, <3>2, <3>4, <1>6 DEF OrderInv, LastIsCurrent
    <3>5. QED BY <3>3, <3>4
  <2>2. QED BY <2>1, <1>4 DEF LastIsCurrent
<1>11. SinksAgree'
  <2>1. ASSUME NEW u \in Sinks PROVE IsInjective(accepted'[u])
    <3>1. IsInjective(accepted[u]) BY DEF OrderInv, SinksAgree
    <3>2. CASE u = s BY <3>1, <3>2, <1>1, <1>5, <1>6, <1>7, AppendFacts
    <3>3. CASE u # s BY <3>1, <3>3, <1>6
    <3>4. QED BY <3>2, <3>3
  \* A record in front of another was so before, or the other one is new.
  <2>2. ASSUME NEW u \in Sinks, NEW p, NEW q, Before(u, p, q)'
        PROVE  Before(u, p, q) \/ (u = s /\ q = r /\ p # r)
    <3>1. CASE u # s BY <2>2, <3>1, <1>6 DEF Before
    <3>2. CASE u = s
      <4>1. PICK i \in DOMAIN accepted'[s], j \in DOMAIN accepted'[s] :
              i < j /\ accepted'[s][i] = p /\ accepted'[s][j] = q
        BY <2>2, <3>2 DEF Before
      <4>2. i \in 1..Len(accepted[s]) /\ accepted[s][i] = p BY <4>1, <1>7
      <4>3. p # r BY <4>2, <1>5, <1>7 DEF Range
      <4>4. CASE j = Len(accepted[s]) + 1 BY <4>1, <4>3, <4>4, <3>2, <1>7
      <4>5. CASE j # Len(accepted[s]) + 1
        <5>1. j \in 1..Len(accepted[s]) /\ accepted[s][j] = q BY <4>1, <4>5, <1>7
        <5>2. QED BY <4>1, <4>2, <5>1, <3>2, <1>7 DEF Before
      <4>6. QED BY <4>4, <4>5
    <3>3. QED BY <3>1, <3>2
  \* The new record is in front of no other.
  <2>3. ASSUME NEW u \in Sinks, NEW q PROVE ~Before(u, r, q)
    <3>1. SUFFICES ASSUME NEW i \in DOMAIN accepted[u], NEW j \in DOMAIN accepted[u],
                          i < j, accepted[u][i] = r
                   PROVE  FALSE
      BY DEF Before
    <3>2. r \in Range(accepted[u]) BY <3>1 DEF Range
    <3>3. accepted[u][Len(accepted[u])] = r
      BY <3>2, <1>1 DEF r, InLoop, OrderInv, LastIsCurrent
    <3>4. IsInjective(accepted[u]) BY DEF OrderInv, SinksAgree
    <3>5. accepted[u] \in Seq(Records) BY <1>2
    <3>6. DOMAIN accepted[u] = 1..Len(accepted[u]) /\ Len(accepted[u]) \in Nat
      BY <3>5, LenProperties
    <3>7. Len(accepted[u]) \in DOMAIN accepted[u] BY <3>1, <3>6
    <3>8. i = Len(accepted[u]) BY <3>1, <3>3, <3>4, <3>7 DEF IsInjective
    <3>9. QED BY <3>1, <3>6, <3>8
  <2>4. ASSUME NEW u \in Sinks, NEW w \in Sinks, NEW p \in Records, NEW q \in Records,
               Before(u, p, q)', Before(w, q, p)'
        PROVE  FALSE
    <3>1. CASE Before(u, p, q)
      <4>1. q # r \/ ~Before(w, q, p) BY <2>3
      <4>2. p # r BY <3>1, <2>3
      <4>3. Before(w, q, p) BY <4>2, <2>2, <2>4
      <4>4. QED BY <3>1, <4>3 DEF OrderInv, SinksAgree
    <3>2. CASE ~Before(u, p, q)
      <4>1. q = r /\ p # r BY <3>2, <2>2, <2>4
      <4>2. Before(w, q, p) BY <4>1, <2>2, <2>4
      <4>3. QED BY <4>1, <4>2, <2>3
    <3>3. QED BY <3>1, <3>2
  <2>5. QED BY <2>1, <2>4 DEF SinksAgree
<1>12. QED BY <1>9, <1>10, <1>11

LEMMA OrderStep == OrderInv /\ [Next]_vars => OrderInv'
<1> SUFFICES ASSUME OrderInv, [Next]_vars PROVE OrderInv'
  OBVIOUS
<1>1. TypeOK' /\ MutexHeldInside' /\ LoopBounds'
  BY TypeStep, MutexStep, BoundsStep
<1>2. /\ at' \in [Threads -> Nat \ {0}]
      /\ at \in [Threads -> Nat \ {0}]
      /\ pc \in [Threads -> {"idle", "filter", "submit", "sinks", "direct"}]
      /\ m_sinks \in Seq(Sinks)
  BY <1>1 DEF OrderInv, TypeOK
<1>3. InTurn' /\ LastIsCurrent' /\ SinksAgree'
  <2>1. ASSUME NEW t \in Threads, NEW l \in Loggers, NEW v \in Levels, Call(t, l, v)
        PROVE  InTurn' /\ LastIsCurrent' /\ SinksAgree'
    BY <2>1, CallStep
  <2>2. ASSUME NEW t \in Threads, Filter(t)
        PROVE  InTurn' /\ LastIsCurrent' /\ SinksAgree'
    <3>1. QED BY <1>2, <2>2, QuietStep DEF Filter, Leave, Goto, InLoop
  <2>3. ASSUME NEW t \in Threads, Submit(t)
        PROVE  InTurn' /\ LastIsCurrent' /\ SinksAgree'
    <3>1. QED BY <1>2, <2>3, QuietStep DEF Submit, Leave, Goto, InLoop
  <2>4. ASSUME NEW t \in Threads, SinkFilter(t)
        PROVE  InTurn' /\ LastIsCurrent' /\ SinksAgree'
    <3>1. at' = [at EXCEPT ![t] = @ + 1] \/ at' = at BY <2>4 DEF SinkFilter
    <3>2. \A u \in Threads : at'[u] >= at[u] BY <1>2, <3>1
    <3>3. QED BY <1>2, <2>4, <3>2, QuietStep DEF SinkFilter, Goto, InLoop
  <2>5. ASSUME NEW t \in Threads, SinkDirect(t)
        PROVE  InTurn' /\ LastIsCurrent' /\ SinksAgree'
    BY <2>5, DirectStep
  <2>6. ASSUME NEW t \in Threads, Return(t)
        PROVE  InTurn' /\ LastIsCurrent' /\ SinksAgree'
    <3>1. \A u \in Threads \ {t} : at'[u] = at[u] /\ pc'[u] = pc[u]
      BY <1>2, <2>6 DEF Return, Leave
    <3>2. pc'[t] = "idle" BY <1>2, <2>6 DEF Return, Leave
    <3>3. QED BY <1>2, <2>6, <3>1, <3>2, QuietStep DEF Return, InLoop
  <2>7. ASSUME NEW x \in Filters, NEW v \in Levels, SetLevel(x, v)
        PROVE  InTurn' /\ LastIsCurrent' /\ SinksAgree'
    <3>1. QED BY <1>2, <2>7, QuietStep DEF SetLevel, InLoop
  <2>8. ASSUME NEW s \in Sinks, AttachSink(s)
        PROVE  InTurn' /\ LastIsCurrent' /\ SinksAgree'
    <3>1. \A i \in DOMAIN m_sinks : m_sinks'[i] = m_sinks[i]
      BY <1>2, <2>8, AppendProperties, LenProperties DEF AttachSink
    <3>2. QED BY <1>2, <2>8, <3>1, QuietStep DEF AttachSink, InLoop
  <2>9. CASE UNCHANGED vars BY <1>2, <2>9, QuietStep DEF vars, InLoop
  <2>10. QED
    BY <2>1, <2>2, <2>3, <2>4, <2>5, <2>6, <2>7, <2>8, <2>9 DEF Next, Log
<1>4. QED BY <1>1, <1>3 DEF OrderInv

LEMMA OrderInvariant == Spec => []OrderInv
BY InitOrder, OrderStep, PTL DEF Spec

\* The state of every call and every sink is well formed, and RootLogger::m_mutex
\* is held by exactly the thread that runs over the sinks, for any number of
\* threads and sinks.
THEOREM LoggingTypeCorrect == Spec => []LoggingTypeOK
<1>1. OrderInv => LoggingTypeOK BY DEF OrderInv, LoggingTypeOK
<1>2. QED BY <1>1, OrderInvariant, PTL

\* The sinks never disagree on the order of two records both were given, and no
\* sink is given a record twice.
THEOREM OneOrder == Spec => []SinksAgree
<1>1. OrderInv => SinksAgree BY DEF OrderInv
<1>2. QED BY <1>1, OrderInvariant, PTL

-----------------------------------------------------------------------------
(* The levels on a record's way *)

Admits(t, x) == \E l \in seen[t][x] \ {Detached} : l <= call[t].level
Refuses(t, x) == \E l \in seen[t][x] \ {Detached} : call[t].level < l

OnWay(t) == Sinks \cup {call[t].logger, Root}

\* What a thread in log() has seen: everything its filters show now, and a
\* reason for each answer that it has had so far.
SeenBy(t) ==
  pc[t] # "idle" =>
    /\ \A x \in OnWay(t) : Shown(x) \in seen[t][x]
    /\ pc[t] \in {"submit", "sinks", "direct"} => Admits(t, call[t].logger)
    /\ InLoop(t) =>
         /\ Admits(t, Root)
         /\ \A i \in 1..(at[t] - 1) :
              IF Current(t) \in Range(accepted[m_sinks[i]])
                THEN Admits(t, m_sinks[i]) ELSE Refuses(t, m_sinks[i])
    /\ pc[t] = "direct" => Admits(t, AtSink(t))

SeenInv == \A t \in Threads : SeenBy(t)

\* A thread that does not move keeps its reasons, whatever it sees meanwhile.
LEMMA SeenByOthers ==
  ASSUME OrderInv, NEW u \in Threads, SeenBy(u),
         pc'[u] = pc[u], at'[u] = at[u], call'[u] = call[u], sent'[u] = sent[u],
         \A x \in Filters : seen[u][x] \subseteq seen'[u][x],
         pc[u] # "idle" => \A x \in OnWay(u) : Shown(x)' \in seen'[u][x],
         InLoop(u) => UNCHANGED <<m_sinks, accepted>>
  PROVE  SeenBy(u)'
<1>1. ASSUME NEW x \in Filters
      PROVE  /\ Admits(u, x) => Admits(u, x)'
             /\ Refuses(u, x) => Refuses(u, x)'
  BY DEF Admits, Refuses
<1>2. call[u].logger \in Filters /\ Root \in Filters BY DEF OrderInv, TypeOK, Filters
<1>3. SUFFICES ASSUME pc[u] # "idle" PROVE SeenBy(u)'
  BY DEF SeenBy
<1>4. \A x \in OnWay(u)' : Shown(x)' \in seen'[u][x] BY <1>3 DEF OnWay
<1>5. ASSUME pc[u] \in {"submit", "sinks", "direct"} PROVE Admits(u, call[u].logger)'
  BY <1>1, <1>2, <1>3, <1>5 DEF SeenBy, Admits
<1>6. ASSUME InLoop(u)
      PROVE  /\ Admits(u, Root)'
             /\ \A i \in 1..(at[u] - 1) :
                  IF Current(u) \in Range(accepted[m_sinks[i]])
                    THEN Admits(u, m_sinks[i])' ELSE Refuses(u, m_sinks[i])'
  <2>1. Admits(u, Root)' BY <1>1, <1>2, <1>3, <1>6 DEF SeenBy
  <2>2. ASSUME NEW i \in 1..(at[u] - 1) PROVE m_sinks[i] \in Filters /\ m_sinks'[i] = m_sinks[i]
    <3>1. m_sinks \in Seq(Sinks) /\ at[u] \in Nat \ {0} BY DEF OrderInv, TypeOK
    <3>2. Len(m_sinks) \in Nat /\ at[u] <= Len(m_sinks) + 1
      BY <1>6, <3>1, LenProperties DEF OrderInv, LoopBounds, InLoop
    <3>3. i \in 1..Len(m_sinks) BY <3>1, <3>2
    <3>4. QED BY <1>6, <3>1, <3>3, LenProperties DEF Filters
  <2>3. ASSUME NEW i \in 1..(at[u] - 1)
        PROVE  IF Current(u) \in Range(accepted[m_sinks[i]])
                 THEN Admits(u, m_sinks[i])' ELSE Refuses(u, m_sinks[i])'
    <3>1. IF Current(u) \in Range(accepted[m_sinks[i]])
            THEN Admits(u, m_sinks[i]) ELSE Refuses(u, m_sinks[i])
      BY <1>3, <1>6 DEF SeenBy
    <3>2. m_sinks[i] \in Filters /\ m_sinks'[i] = m_sinks[i] BY <2>2
    <3>3. /\ Admits(u, m_sinks[i]) => Admits(u, m_sinks[i])'
          /\ Refuses(u, m_sinks[i]) => Refuses(u, m_sinks[i])'
      BY <3>2 DEF Admits, Refuses
    <3>4. QED BY <3>1, <3>3
  <2>4. QED BY <2>1, <2>3
<1>7. ASSUME pc[u] = "direct" PROVE Admits(u, AtSink(u))'
  <2>1. InLoop(u) BY <1>7 DEF InLoop
  <2>2. AtSink(u) \in Filters BY <1>7, DirectFacts DEF Filters
  <2>3. AtSink(u)' = AtSink(u) BY <2>1 DEF AtSink
  <2>4. Admits(u, AtSink(u)) BY <1>3, <1>7 DEF SeenBy
  <2>5. QED BY <2>2, <2>3, <2>4 DEF Admits
<1>8. Current(u)' = Current(u) BY DEF Current
<1>9. QED BY <1>4, <1>5, <1>6, <1>7, <1>8 DEF SeenBy, InLoop

LEMMA InitSeen == Init => SeenInv
BY DEF Init, SeenInv, SeenBy, InLoop

\* A logger, and a sink that is attached, shows its level.
LEMMA ShownIsLevel ==
  ASSUME OrderInv, NEW x \in Filters, x \in Loggers \/ x \in Range(m_sinks)
  PROVE  Shown(x) = m_level[x] /\ m_level[x] \in Levels \ {Detached}
BY DEF OrderInv, TypeOK, Shown, Filters

\* Until its turn comes, a sink has not been given the record.
LEMMA NotYetGiven ==
  ASSUME OrderInv, NEW t \in Threads, InLoop(t), at[t] <= Len(m_sinks)
  PROVE  Current(t) \notin Range(accepted[AtSink(t)])
<1>1. SUFFICES ASSUME Current(t) \in Range(accepted[AtSink(t)]) PROVE FALSE
  OBVIOUS
<1>2. at[t] \in 1..Len(m_sinks) /\ Len(m_sinks) \in Nat /\ AtSink(t) \in Sinks
  BY AtSinkFacts
<1>3. PICK i \in 1..(at[t] - 1) : m_sinks[i] = AtSink(t)
  BY <1>1, <1>2 DEF OrderInv, InTurn, InLoop
<1>4. DOMAIN m_sinks = 1..Len(m_sinks) BY LenProperties DEF OrderInv, TypeOK
<1>5. i \in DOMAIN m_sinks /\ at[t] \in DOMAIN m_sinks /\ i # at[t] BY <1>2, <1>4
<1>6. QED BY <1>3, <1>5 DEF AtSink, OrderInv, LoopBounds, IsInjective

\* What a filter shows is a reason for its answer.
LEMMA AnswerIsSeen ==
  ASSUME OrderInv, NEW t \in Threads, SeenBy(t), pc[t] # "idle", NEW x \in OnWay(t),
         x \in Loggers \/ x \in Range(m_sinks)
  PROVE  IF Below(t, x) THEN Refuses(t, x) ELSE Admits(t, x)
<1>1. x \in Filters BY DEF OnWay, OrderInv, TypeOK, Filters
<1>2. m_level[x] \in seen[t][x] /\ m_level[x] \in Levels \ {Detached}
  BY <1>1, ShownIsLevel DEF SeenBy
<1>3. call[t].level \in Int /\ m_level[x] \in Int BY <1>2 DEF OrderInv, TypeOK
<1>4. QED BY <1>2, <1>3 DEF Below, Refuses, Admits

\* The thread that passes its logger's filter, or the root logger's.
LEMMA SeenByPassing ==
  ASSUME OrderInv, NEW t \in Threads, SeenBy(t), Filter(t) \/ Submit(t)
  PROVE  SeenBy(t)'
<1>1. SUFFICES ASSUME pc'[t] # "idle" PROVE SeenBy(t)'
  BY DEF SeenBy
<1>2. pc \in [Threads -> {"idle", "filter", "submit", "sinks", "direct"}]
  BY DEF OrderInv, TypeOK
<1>3. /\ UNCHANGED <<m_level, m_sinks, at, call, seen, sent, accepted>>
      /\ pc[t] # "idle"
  BY <1>1, <1>2 DEF Filter, Submit, Leave, Goto
<1>4. call[t].logger \in OnWay(t) /\ Root \in OnWay(t) /\ call[t].logger \in Loggers
  BY DEF OnWay, OrderInv, TypeOK
<1>5. \A x \in OnWay(t)' : Shown(x)' \in seen'[t][x] BY <1>3 DEF SeenBy, OnWay, Shown
<1>6. Admits(t, call[t].logger)'
  <2>1. Admits(t, call[t].logger)
    <3>1. CASE Filter(t)
      <4>1. ~Below(t, call[t].logger) BY <1>1, <1>2, <3>1 DEF Filter, Leave
      <4>2. QED BY <1>3, <1>4, <4>1, AnswerIsSeen
    <3>2. CASE Submit(t) BY <3>2 DEF Submit, SeenBy
    <3>3. QED BY <3>1, <3>2
  <2>2. QED BY <1>3, <2>1 DEF Admits
<1>7. CASE Filter(t)
  <2>1. pc'[t] = "submit" BY <1>1, <1>2, <1>7 DEF Filter, Leave, Goto
  <2>2. QED BY <1>5, <1>6, <2>1 DEF SeenBy, InLoop
<1>8. CASE Submit(t)
  <2>1. pc'[t] = "sinks" /\ ~Below(t, Root)
    BY <1>1, <1>2, <1>8 DEF Submit, Leave, Goto
  <2>2. Admits(t, Root) BY <1>3, <1>4, <2>1, AnswerIsSeen
  <2>3. Admits(t, Root)' BY <1>3, <2>2 DEF Admits
  <2>4. at'[t] = 1 BY <1>3, <1>8 DEF Submit, OrderInv, LoopBounds
  <2>5. 1..(at'[t] - 1) = {} BY <2>4
  <2>6. QED BY <1>5, <1>6, <2>1, <2>3, <2>5 DEF SeenBy, InLoop
<1>9. QED BY <1>7, <1>8

\* The thread in the loop, whose sink refuses the record or takes it.
LEMMA SeenBySink ==
  ASSUME OrderInv, NEW t \in Threads, SeenBy(t), SinkFilter(t) \/ SinkDirect(t)
  PROVE  SeenBy(t)'
<1>1. /\ pc \in [Threads -> {"idle", "filter", "submit", "sinks", "direct"}]
      /\ at \in [Threads -> Nat \ {0}]
      /\ m_sinks \in Seq(Sinks)
      /\ accepted \in [Sinks -> Seq(Records)]
      /\ IsInjective(m_sinks)
      /\ call[t].logger \in Filters
  BY DEF OrderInv, TypeOK, LoopBounds, Filters
<1>2. /\ UNCHANGED <<m_level, m_sinks, call, seen, sent>>
      /\ InLoop(t) /\ pc[t] # "idle" /\ InLoop(t)'
      /\ at[t] \in 1..Len(m_sinks) /\ Len(m_sinks) \in Nat
      /\ AtSink(t) \in Sinks /\ AtSink(t) \in Range(m_sinks)
  <2>1. InLoop(t) /\ at[t] <= Len(m_sinks)
    BY DEF SinkFilter, SinkDirect, OrderInv, LoopBounds, InLoop
  <2>2. QED BY <1>1, <2>1, AtSinkFacts DEF SinkFilter, SinkDirect, Goto, InLoop
<1> PICK s \in Sinks : s = AtSink(t) /\ s \in Range(m_sinks)
  BY <1>2
<1>3. /\ \A x \in OnWay(t)' : Shown(x)' \in seen'[t][x]
      /\ Admits(t, call[t].logger)'
      /\ Admits(t, Root)'
  BY <1>2 DEF SeenBy, OnWay, Shown, Admits, InLoop
<1>4. \A x \in Filters : /\ Admits(t, x)' <=> Admits(t, x)
                         /\ Refuses(t, x)' <=> Refuses(t, x)
  BY <1>2 DEF Admits, Refuses
<1>5. DOMAIN m_sinks = 1..Len(m_sinks) BY <1>1, LenProperties
<1>6. \A i \in 1..(at[t] - 1) : m_sinks[i] \in Sinks /\ m_sinks[i] # s
  <2>1. ASSUME NEW i \in 1..(at[t] - 1) PROVE m_sinks[i] \in Sinks /\ m_sinks[i] # s
    <3>1. i \in DOMAIN m_sinks /\ at[t] \in DOMAIN m_sinks /\ i # at[t] BY <1>2, <1>5
    <3>2. m_sinks[at[t]] = s BY DEF AtSink
    <3>3. m_sinks[i] \in Sinks BY <1>1, <1>5, <3>1, LenProperties
    <3>4. QED BY <1>1, <3>1, <3>2, <3>3 DEF IsInjective
  <2>2. QED BY <2>1
<1>7. Current(t)' = Current(t) BY <1>2 DEF Current
<1>8. \A i \in 1..(at[t] - 1) : IF Current(t) \in Range(accepted[m_sinks[i]])
                                  THEN Admits(t, m_sinks[i]) ELSE Refuses(t, m_sinks[i])
  BY <1>2 DEF SeenBy
<1>9. \A i \in 1..(at[t] - 1) : IF Current(t) \in Range(accepted'[m_sinks[i]])
                                  THEN Admits(t, m_sinks[i])' ELSE Refuses(t, m_sinks[i])'
  <2>1. \A u \in Sinks \ {s} : accepted'[u] = accepted[u]
    BY <1>1 DEF SinkFilter, SinkDirect
  <2>2. ASSUME NEW i \in 1..(at[t] - 1)
        PROVE  IF Current(t) \in Range(accepted'[m_sinks[i]])
                 THEN Admits(t, m_sinks[i])' ELSE Refuses(t, m_sinks[i])'
    <3>1. m_sinks[i] \in Sinks \ {s} /\ m_sinks[i] \in Filters BY <1>6 DEF Filters
    <3>2. accepted'[m_sinks[i]] = accepted[m_sinks[i]] BY <2>1, <3>1
    <3>3. IF Current(t) \in Range(accepted'[m_sinks[i]])
            THEN Admits(t, m_sinks[i]) ELSE Refuses(t, m_sinks[i])
      BY <1>8, <3>2
    <3>4. QED BY <1>2, <3>3 DEF Admits, Refuses
  <2>3. QED BY <2>2
<1>10. s \in OnWay(t) /\ s \in Filters BY <1>2 DEF OnWay, Filters
<1>11. CASE SinkFilter(t)
  <2>1. pc[t] = "sinks" /\ accepted' = accepted BY <1>11 DEF SinkFilter
  <2>2. CASE Below(t, s)
    <3>1. pc'[t] = "sinks" /\ at'[t] = at[t] + 1
      BY <1>1, <1>11, <2>2 DEF SinkFilter, Goto
    <3>2. Refuses(t, s)' BY <1>2, <1>4, <1>10, <2>2, AnswerIsSeen
    <3>3. Current(t) \notin Range(accepted[s]) BY <1>2, NotYetGiven
    <3>4. m_sinks[at[t]] = s BY DEF AtSink
    <3>5. \A i \in 1..(at'[t] - 1) : i \in 1..(at[t] - 1) \/ i = at[t] BY <1>2, <3>1
    <3>6. \A i \in 1..(at'[t] - 1) : IF Current(t) \in Range(accepted'[m_sinks[i]])
                                       THEN Admits(t, m_sinks[i])' ELSE Refuses(t, m_sinks[i])'
      <4>1. ASSUME NEW i \in 1..(at'[t] - 1)
            PROVE  IF Current(t) \in Range(accepted'[m_sinks[i]])
                     THEN Admits(t, m_sinks[i])' ELSE Refuses(t, m_sinks[i])'
        <5>1. CASE i \in 1..(at[t] - 1) BY <1>9, <5>1
        <5>2. CASE i = at[t] BY <1>2, <2>1, <3>2, <3>3, <3>4, <5>2 DEF Refuses
        <5>3. QED BY <3>5, <5>1, <5>2
      <4>2. QED BY <4>1
    <3>7. m_sinks' = m_sinks BY <1>2
    <3>8. \A i \in 1..(at'[t] - 1) :
             IF Current(t)' \in Range(accepted'[m_sinks'[i]])
               THEN Admits(t, m_sinks[i])' ELSE Refuses(t, m_sinks[i])'
      BY <1>7, <3>6, <3>7
    <3>9. QED BY <1>3, <3>1, <3>8 DEF SeenBy
  <2>3. CASE ~Below(t, s)
    <3>1. pc'[t] = "direct" /\ at'[t] = at[t]
      BY <1>1, <1>11, <2>3 DEF SinkFilter, Goto
    <3>2. Admits(t, s)' BY <1>2, <1>4, <1>10, <2>3, AnswerIsSeen
    <3>3. AtSink(t)' = s BY <1>2, <3>1 DEF AtSink
    <3>4. m_sinks' = m_sinks BY <1>2
    <3>5. \A i \in 1..(at'[t] - 1) :
             IF Current(t)' \in Range(accepted'[m_sinks'[i]])
               THEN Admits(t, m_sinks[i])' ELSE Refuses(t, m_sinks[i])'
      BY <1>7, <1>9, <3>1, <3>4
    <3>6. Admits(t, AtSink(t))' BY <3>2, <3>3 DEF Admits
    <3>7. QED BY <1>3, <3>1, <3>5, <3>6 DEF SeenBy
  <2>4. QED BY <2>2, <2>3
<1>12. CASE SinkDirect(t)
  <2>1. pc'[t] = "sinks" /\ at'[t] = at[t] + 1 /\ pc[t] = "direct"
    BY <1>1, <1>12 DEF SinkDirect, Goto
  <2>2. Admits(t, s)'
    <3>1. Admits(t, s) BY <2>1 DEF SeenBy
    <3>2. QED BY <1>4, <1>10, <3>1
  <2>3. Current(t) \in Range(accepted'[s])
    <3>1. accepted'[s] = Append(accepted[s], Current(t))
      BY <1>1, <1>2, <1>12 DEF SinkDirect
    <3>2. Current(t) \in Records BY <2>1, CurrentIsRecord
    <3>3. accepted[s] \in Seq(Records) BY <1>1, <1>2
    <3>4. Range(Append(accepted[s], Current(t))) = Range(accepted[s]) \cup {Current(t)}
      BY <3>2, <3>3, AppendFacts
    <3>5. QED BY <3>1, <3>4
  <2>4. m_sinks[at[t]] = s BY DEF AtSink
  <2>5. \A i \in 1..(at'[t] - 1) : i \in 1..(at[t] - 1) \/ i = at[t] BY <1>2, <2>1
  <2>6. \A i \in 1..(at'[t] - 1) : IF Current(t) \in Range(accepted'[m_sinks[i]])
                                     THEN Admits(t, m_sinks[i])' ELSE Refuses(t, m_sinks[i])'
    <3>1. ASSUME NEW i \in 1..(at'[t] - 1)
          PROVE  IF Current(t) \in Range(accepted'[m_sinks[i]])
                   THEN Admits(t, m_sinks[i])' ELSE Refuses(t, m_sinks[i])'
      <4>1. CASE i \in 1..(at[t] - 1) BY <1>9, <4>1
      <4>2. CASE i = at[t] BY <1>2, <2>2, <2>3, <2>4, <4>2 DEF Admits
      <4>3. QED BY <2>5, <4>1, <4>2
    <3>2. QED BY <3>1
  <2>7. m_sinks' = m_sinks BY <1>2
  <2>8. \A i \in 1..(at'[t] - 1) :
           IF Current(t)' \in Range(accepted'[m_sinks'[i]])
             THEN Admits(t, m_sinks[i])' ELSE Refuses(t, m_sinks[i])'
    BY <1>7, <2>6, <2>7
  <2>9. QED BY <1>3, <2>1, <2>8 DEF SeenBy
<1>13. QED BY <1>11, <1>12

\* A thread beside one that moves within log(), where no filter changes.
LEMMA SeenByBystander ==
  ASSUME OrderInv, NEW t \in Threads, NEW u \in Threads \ {t}, SeenBy(u),
         pc'[u] = pc[u], at'[u] = at[u], call'[u] = call[u], sent'[u] = sent[u],
         seen'[u] = seen[u],
         UNCHANGED <<m_level, m_sinks>>,
         InLoop(t) \/ UNCHANGED accepted
  PROVE  SeenBy(u)'
<1>1. InLoop(u) => UNCHANGED <<m_sinks, accepted>> BY LoopIsExclusive
<1>2. pc[u] # "idle" => \A x \in OnWay(u) : Shown(x)' \in seen'[u][x]
  BY DEF SeenBy, Shown
<1>3. \A x \in Filters : seen[u][x] \subseteq seen'[u][x] OBVIOUS
<1>4. QED BY <1>1, <1>2, <1>3, SeenByOthers

\* Whoever looks out for x sees what it shows from now on.
LEMMA SeenByNoticing ==
  ASSUME OrderInv, NEW x \in Filters, NEW v, NEW u \in Threads, SeenBy(u),
         seen' = Noticed(x, v),
         Shown(x)' = v,
         \A y \in Filters \ {x} : Shown(y)' = Shown(y),
         UNCHANGED <<pc, at, call, sent>>,
         InLoop(u) => UNCHANGED <<m_sinks, accepted>>
  PROVE  SeenBy(u)'
<1>1. seen[u] \in [Filters -> SUBSET (Levels \cup {Detached})] BY DEF OrderInv, TypeOK
<1>2. seen'[u] = IF seen[u][x] = {} THEN seen[u] ELSE [seen[u] EXCEPT ![x] = @ \cup {v}]
  BY DEF Noticed
<1>3. \A y \in Filters : seen[u][y] \subseteq seen'[u][y] BY <1>1, <1>2
<1>4. ASSUME pc[u] # "idle", NEW y \in OnWay(u) PROVE Shown(y)' \in seen'[u][y]
  <2>1. y \in Filters BY DEF OnWay, OrderInv, TypeOK, Filters
  <2>2. Shown(y) \in seen[u][y] BY <1>4 DEF SeenBy
  <2>3. CASE y = x BY <1>1, <1>2, <2>1, <2>2, <2>3
  <2>4. CASE y # x
    <3>1. Shown(y)' = Shown(y) BY <2>1, <2>4
    <3>2. QED BY <1>3, <2>1, <2>2, <3>1
  <2>5. QED BY <2>3, <2>4
<1>5. QED BY <1>3, <1>4, SeenByOthers

LEMMA SeenStep ==
  ASSUME OrderInv, SeenInv, [Next]_vars
  PROVE  SeenInv'
<1>1. SUFFICES ASSUME NEW u \in Threads PROVE SeenBy(u)'
  BY DEF SeenInv
<1>2. /\ SeenBy(u)
      /\ pc \in [Threads -> {"idle", "filter", "submit", "sinks", "direct"}]
      /\ at \in [Threads -> Nat \ {0}]
      /\ call \in [Threads -> [logger : Loggers, level : Levels]]
      /\ sent \in [Threads -> 0..MaxCalls]
      /\ seen \in [Threads -> [Filters -> SUBSET (Levels \cup {Detached})]]
      /\ m_level \in [Filters -> Levels]
      /\ m_sinks \in Seq(Sinks)
  BY DEF SeenInv, OrderInv, TypeOK
<1>3. ASSUME NEW t \in Threads, NEW l \in Loggers, NEW v \in Levels, Call(t, l, v)
      PROVE  SeenBy(u)'
  <2>1. CASE u = t
    <3>1. pc'[u] = "filter" /\ UNCHANGED <<m_level, m_sinks>> BY <1>2, <1>3, <2>1 DEF Call
    <3>2. OnWay(u)' = Sinks \cup {l, Root} BY <1>2, <1>3, <2>1 DEF Call, OnWay
    <3>3. OnWay(u)' \subseteq Filters BY <3>2, NamesAssumption DEF Filters
    <3>4. \A x \in OnWay(u)' : seen'[u][x] = {Shown(x)}
      BY <1>2, <1>3, <2>1, <3>2, <3>3 DEF Call
    <3>5. \A x \in OnWay(u)' : Shown(x)' \in seen'[u][x] BY <3>1, <3>4 DEF Shown
    <3>6. QED BY <3>1, <3>5 DEF SeenBy, InLoop
  <2>2. CASE u # t BY <1>2, <1>3, <2>2, SeenByBystander DEF Call
  <2>3. QED BY <2>1, <2>2
<1>4. ASSUME NEW t \in Threads, Filter(t) \/ Submit(t) PROVE SeenBy(u)'
  <2>1. CASE u = t BY <1>2, <1>4, <2>1, SeenByPassing
  <2>2. CASE u # t
    <3>1. UNCHANGED <<m_level, m_sinks, at, sent, accepted>> BY <1>4 DEF Filter, Submit
    <3>2. /\ pc'[u] = pc[u] /\ call'[u] = call[u] /\ seen'[u] = seen[u]
      BY <1>2, <1>4, <2>2 DEF Filter, Submit, Leave, Goto
    <3>3. QED BY <1>2, <2>2, <3>1, <3>2, SeenByBystander
  <2>3. QED BY <2>1, <2>2
<1>5. ASSUME NEW t \in Threads, SinkFilter(t) \/ SinkDirect(t) PROVE SeenBy(u)'
  <2>1. CASE u = t BY <1>2, <1>5, <2>1, SeenBySink
  <2>2. CASE u # t
    <3>1. UNCHANGED <<m_level, m_sinks, call, seen, sent>> /\ InLoop(t)
      BY <1>5 DEF SinkFilter, SinkDirect, Goto, InLoop
    <3>2. pc'[u] = pc[u] /\ at'[u] = at[u]
      BY <1>2, <1>5, <2>2 DEF SinkFilter, SinkDirect, Goto
    <3>3. QED BY <1>2, <2>2, <3>1, <3>2, SeenByBystander
  <2>3. QED BY <2>1, <2>2
<1>6. ASSUME NEW t \in Threads, Return(t) PROVE SeenBy(u)'
  <2>1. CASE u = t BY <1>2, <1>6, <2>1 DEF Return, Leave, SeenBy
  <2>2. CASE u # t
    <3>1. UNCHANGED <<m_level, m_sinks, accepted, sent>> BY <1>6 DEF Return
    <3>2. pc'[u] = pc[u] /\ at'[u] = at[u] /\ call'[u] = call[u] /\ seen'[u] = seen[u]
      BY <1>2, <1>6, <2>2 DEF Return, Leave
    <3>3. QED BY <1>2, <2>2, <3>1, <3>2, SeenByBystander
  <2>3. QED BY <2>1, <2>2
<1>7. ASSUME NEW x \in Filters, NEW v \in Levels, SetLevel(x, v) PROVE SeenBy(u)'
  <2>1. PICK w : w = IF x \in Loggers \/ x \in Range(m_sinks) THEN v ELSE Detached
    OBVIOUS
  <2>2. seen' = Noticed(x, w) BY <1>7, <2>1 DEF SetLevel
  <2>3. m_level' = [m_level EXCEPT ![x] = v] /\ UNCHANGED <<m_sinks, accepted, pc, at, call, sent>>
    BY <1>7 DEF SetLevel
  <2>4. Shown(x)' = w
    BY <1>2, <2>1, <2>3, NamesAssumption DEF Shown, Filters
  <2>5. \A y \in Filters \ {x} : Shown(y)' = Shown(y) BY <1>2, <2>3 DEF Shown
  <2>6. QED BY <1>2, <2>2, <2>3, <2>4, <2>5, SeenByNoticing
<1>8. ASSUME NEW s \in Sinks, AttachSink(s) PROVE SeenBy(u)'
  <2>1. s \in Filters BY DEF Filters
  <2>2. PICK w : w = m_level[s] OBVIOUS
  <2>3. /\ seen' = Noticed(s, w) /\ m_sinks' = Append(m_sinks, s)
        /\ UNCHANGED <<m_level, accepted, pc, at, call, sent>>
    BY <1>8, <2>2 DEF AttachSink
  <2>4. Range(m_sinks') = Range(m_sinks) \cup {s} BY <1>2, <2>3, AppendFacts
  <2>5. Shown(s)' = w BY <2>2, <2>3, <2>4 DEF Shown
  <2>6. \A y \in Filters \ {s} : Shown(y)' = Shown(y) BY <2>3, <2>4 DEF Shown
  <2>7. ~InLoop(u)
    BY <1>8, NamesAssumption DEF AttachSink, OrderInv, MutexHeldInside, InLoop
  <2>8. QED BY <1>2, <2>1, <2>3, <2>5, <2>6, <2>7, SeenByNoticing
<1>9. CASE UNCHANGED vars
  <2>1. \A y \in Filters : Shown(y)' = Shown(y) BY <1>9 DEF vars, Shown
  <2>2. pc[u] # "idle" => \A y \in OnWay(u) : Shown(y)' \in seen'[u][y]
    BY <1>2, <1>9, <2>1 DEF vars, SeenBy, OnWay, OrderInv, TypeOK, Filters
  <2>3. QED BY <1>2, <1>9, <2>2, SeenByOthers DEF vars
<1>10. QED BY <1>3, <1>4, <1>5, <1>6, <1>7, <1>8, <1>9 DEF Next, Log

-----------------------------------------------------------------------------
\* A call of log() that ends at a logger's filter ends for every sink.
LEMMA DroppedIsRefused ==
  ASSUME OrderInv, NEW t \in Threads, NEW s \in Sinks, SeenBy(t),
         pc[t] \in {"filter", "submit"},
         NEW x \in {call[t].logger, Root}, Below(t, x)
  PROVE  Current(t) \notin Range(accepted[s]) /\ Refused(t, s)
<1>1. x \in OnWay(t) /\ x \in Loggers
  BY NamesAssumption DEF OnWay, OrderInv, TypeOK
<1>2. Refuses(t, x) BY <1>1, AnswerIsSeen
<1>3. Refused(t, s) BY <1>2 DEF Refused, Refuses, FiltersOf
<1>4. Current(t) \notin Range(accepted[s]) BY DEF OrderInv, InTurn, InLoop
<1>5. QED BY <1>3, <1>4

\* A call that ran over all the sinks has a reason for each of them.
LEMMA ReturnIsExplained ==
  ASSUME OrderInv, NEW t \in Threads, NEW s \in Sinks, SeenBy(t), Return(t)
  PROVE  IF Current(t) \in Range(accepted[s]) THEN Admitted(t, s) ELSE Refused(t, s)
<1>1. /\ m_sinks \in Seq(Sinks) /\ at[t] \in Nat \ {0} /\ pc[t] = "sinks" /\ InLoop(t)
      /\ at[t] > Len(m_sinks)
  BY DEF Return, OrderInv, TypeOK, InLoop
<1>2. DOMAIN m_sinks = 1..Len(m_sinks) /\ Len(m_sinks) \in Nat BY <1>1, LenProperties
<1>3. Admits(t, call[t].logger) /\ Admits(t, Root) BY <1>1 DEF SeenBy, InLoop
<1>4. CASE s \in Range(m_sinks)
  <2>1. PICK i \in DOMAIN m_sinks : m_sinks[i] = s BY <1>4 DEF Range
  <2>2. i \in 1..(at[t] - 1) BY <1>1, <1>2, <2>1
  <2>3. IF Current(t) \in Range(accepted[s]) THEN Admits(t, s) ELSE Refuses(t, s)
    BY <1>1, <2>1, <2>2 DEF SeenBy
  <2>4. QED BY <1>3, <2>3 DEF Admitted, Refused, Admits, Refuses, FiltersOf
<1>5. CASE s \notin Range(m_sinks)
  <2>1. Detached \in seen[t][s] BY <1>1, <1>5 DEF SeenBy, OnWay, Shown
  <2>2. Refused(t, s) BY <2>1 DEF Refused, FiltersOf
  <2>3. Current(t) \notin Range(accepted[s])
    <3>1. SUFFICES ASSUME Current(t) \in Range(accepted[s]) PROVE FALSE
      OBVIOUS
    <3>2. PICK i \in 1..(at[t] - 1) : m_sinks[i] = s
      BY <1>1, <3>1 DEF OrderInv, InTurn
    <3>3. at[t] <= Len(m_sinks) + 1 BY <1>1 DEF OrderInv, LoopBounds
    <3>4. i \in DOMAIN m_sinks BY <1>1, <1>2, <3>3
    <3>5. QED BY <1>5, <3>2, <3>4 DEF Range
  <2>4. QED BY <2>2, <2>3
<1>6. QED BY <1>4, <1>5

\* set_level takes effect between two calls of log(): what every sink got or
\* missed is what levels of the time of the call decide, for any number of
\* threads, loggers, sinks and levels.
THEOREM LevelsExplain == Spec => Explained
<1>1. Init => OrderInv /\ SeenInv BY InitOrder, InitSeen
<1>2. OrderInv /\ SeenInv /\ [Next]_vars => (OrderInv /\ SeenInv)'
  BY OrderStep, SeenStep
<1>3. OrderInv /\ SeenInv /\ [Next]_vars =>
        [\A t \in Threads : pc[t] # "idle" /\ pc'[t] = "idle" =>
           \A s \in Sinks : IF Current(t) \in Range(accepted[s])
                              THEN Admitted(t, s) ELSE Refused(t, s)]_vars
  <2>1. SUFFICES ASSUME OrderInv, SeenInv, Next, NEW t \in Threads,
                        pc[t] # "idle", pc'[t] = "idle", NEW s \in Sinks
                 PROVE  IF Current(t) \in Range(accepted[s])
                          THEN Admitted(t, s) ELSE Refused(t, s)
    OBVIOUS
  <2>2. SeenBy(t) BY <2>1 DEF SeenInv
  <2>3. pc \in [Threads -> {"idle", "filter", "submit", "sinks", "direct"}]
    BY <2>1 DEF OrderInv, TypeOK
  <2>4. Filter(t) \/ Submit(t) \/ Return(t)
    BY <2>1, <2>3
    DEF Next, Log, Call, Filter, Submit, SinkFilter, SinkDirect, Return, SetLevel,
        AttachSink, Goto, Leave
  <2>5. CASE Filter(t)
    <3>1. pc[t] = "filter" /\ Below(t, call[t].logger)
      BY <2>1, <2>3, <2>5 DEF Filter, Goto
    <3>2. QED BY <2>1, <2>2, <3>1, DroppedIsRefused
  <2>6. CASE Submit(t)
    <3>1. pc[t] = "submit" /\ Below(t, Root) BY <2>1, <2>3, <2>6 DEF Submit, Goto
    <3>2. QED BY <2>1, <2>2, <3>1, DroppedIsRefused
  <2>7. CASE Return(t) BY <2>1, <2>2, <2>7, ReturnIsExplained
  <2>8. QED BY <2>4, <2>5, <2>6, <2>7
<1>4. QED BY <1>1, <1>2, <1>3, PTL DEF Spec, Explained
=============================================================================
