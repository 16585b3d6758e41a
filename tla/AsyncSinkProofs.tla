-------------------------- MODULE AsyncSinkProofs --------------------------
(* Proofs about AsyncSink for any number of threads, records, mode switches   *)
(* and spurious wakeups.  Control is the inductive invariant of the locking   *)
(* and of the worker's loop; conservation, the threads' order and the         *)
(* refinement of LogChannel are proved on top of it.                          *)
EXTENDS AsyncSink, SequenceFacts, FiniteSetTheorems

USE ProcessAssumption, BoundAssumption

LockInv ==
  /\ \A p \in Producers : pc[p] = "backend" <=> mutex = p
  /\ wpc \in {"check", "wait"} <=> mutex = Worker

BatchInv == wpc = "backend" <=> buffer # <<>>

LifeInv ==
  /\ dpc # "none" => \A p \in Producers : pc[p] = "idle"
  /\ dpc = "done" => wpc = "exit"
  /\ \A p \in Producers : pc[p] # "idle" => sent[p] # 0

Control == TypeOK /\ LockInv /\ ModeStable /\ BatchInv /\ LifeInv

-----------------------------------------------------------------------------
LEMMA CurrentIsRecord ==
  ASSUME TypeOK, LifeInv, NEW p \in Producers, pc[p] # "idle"
  PROVE  Current(p) \in Records
BY DEF TypeOK, LifeInv, Current, Record, Records

LEMMA ControlInit == Init => Control
<1> SUFFICES ASSUME Init PROVE Control
  OBVIOUS
<1>1. TypeOK
  <2>1. <<>> \in Seq(Records) BY EmptySeq
  <2>2. 0 \in 0..MaxRecords /\ 0 \in 0..MaxSwitches /\ 0 \in 0..MaxSpurious
    OBVIOUS
  <2>3. sent \in [Producers -> 0..MaxRecords] BY <2>2 DEF Init
  <2>4. pc \in [Producers -> {"idle", "lock", "backend", "notify"}] BY DEF Init
  <2>5. QED BY <2>1, <2>2, <2>3, <2>4 DEF Init, TypeOK
<1>2. LockInv BY DEF Init, LockInv
<1>3. ModeStable /\ BatchInv /\ LifeInv BY DEF Init, ModeStable, BatchInv, LifeInv
<1>4. QED BY <1>1, <1>2, <1>3 DEF Control

LEMMA ControlStep ==
  ASSUME Control, [Next]_vars
  PROVE  Control'
<1> USE DEF Control
<1>1. ASSUME NEW p \in Producers, Call(p) PROVE Control'
  BY <1>1 DEF Call, TypeOK, LockInv, ModeStable, BatchInv, LifeInv
<1>2. ASSUME NEW p \in Producers, Enqueue(p) PROVE Control'
  <2>1. Current(p) \in Records BY <1>2, CurrentIsRecord DEF Enqueue
  <2>2. m_log_queue' \in Seq(Records)
    BY <1>2, <2>1, AppendProperties DEF Enqueue, TypeOK
  <2>3. QED BY <1>2, <2>2 DEF Enqueue, TypeOK, LockInv, ModeStable, BatchInv, LifeInv
<1>3. ASSUME NEW p \in Producers, Notify(p) PROVE Control'
  BY <1>3 DEF Notify, NotifyAll, TypeOK, LockInv, ModeStable, BatchInv, LifeInv
<1>4. ASSUME NEW p \in Producers, EnterBackend(p) PROVE Control'
  BY <1>4 DEF EnterBackend, TypeOK, LockInv, ModeStable, BatchInv, LifeInv
<1>5. ASSUME NEW p \in Producers, LeaveBackend(p) PROVE Control'
  <2>1. Current(p) \in Records BY <1>5, CurrentIsRecord DEF LeaveBackend
  <2>2. written' \in Seq(Records)
    BY <1>5, <2>1, AppendProperties DEF LeaveBackend, TypeOK
  <2>3. QED
    BY <1>5, <2>2 DEF LeaveBackend, LeaveScope, TypeOK, LockInv, ModeStable, BatchInv, LifeInv
<1>6. ASSUME WorkerLock PROVE Control'
  BY <1>6 DEF WorkerLock, TypeOK, LockInv, ModeStable, BatchInv, LifeInv
<1>7. ASSUME WorkerCheck PROVE Control'
  BY <1>7 DEF WorkerCheck, TypeOK, LockInv, ModeStable, BatchInv, LifeInv
<1>8. ASSUME WorkerWait PROVE Control'
  BY <1>8 DEF WorkerWait, TypeOK, LockInv, ModeStable, BatchInv, LifeInv
<1>9. ASSUME SpuriousWakeup PROVE Control'
  BY <1>9 DEF SpuriousWakeup, TypeOK, LockInv, ModeStable, BatchInv, LifeInv
<1>10. ASSUME WorkerWake PROVE Control'
  <2>1. CASE m_log_queue = <<>>
    BY <1>10, <2>1 DEF WorkerWake, TypeOK, LockInv, ModeStable, BatchInv, LifeInv
  <2>2. CASE m_log_queue # <<>>
    <3>1. buffer = <<>> BY <1>10 DEF WorkerWake, BatchInv
    <3>2. buffer' = m_log_queue /\ m_log_queue' = <<>>
      BY <1>10, <2>2, <3>1, ConcatEmptySeq DEF WorkerWake, TakeQueue, TypeOK
    <3>3. m_log_queue' \in Seq(Records) /\ buffer' \in Seq(Records) /\ buffer' # <<>>
      BY <2>2, <3>2, EmptySeq DEF TypeOK
    <3>4. QED
      BY <1>10, <2>2, <3>3 DEF WorkerWake, TypeOK, LockInv, ModeStable, BatchInv, LifeInv
  <2>3. QED BY <2>1, <2>2
<1>11. ASSUME WorkerWrite PROVE Control'
  <2>1. buffer # <<>> BY <1>11 DEF WorkerWrite, BatchInv
  <2>2. Head(buffer) \in Records /\ Tail(buffer) \in Seq(Records)
    BY <2>1, HeadTailProperties DEF TypeOK
  <2>3. written' \in Seq(Records)
    BY <1>11, <2>2, AppendProperties DEF WorkerWrite, TypeOK
  <2>4. QED
    BY <1>11, <2>2, <2>3 DEF WorkerWrite, AfterWrite, TypeOK, LockInv, ModeStable, BatchInv, LifeInv
<1>12. ASSUME NEW b \in BOOLEAN, SetSynchronous(b) PROVE Control'
  BY <1>12 DEF SetSynchronous, TypeOK, LockInv, ModeStable, BatchInv, LifeInv
<1>13. ASSUME DtorTerminate PROVE Control'
  BY <1>13 DEF DtorTerminate, TypeOK, LockInv, ModeStable, BatchInv, LifeInv
<1>14. ASSUME DtorNotify PROVE Control'
  BY <1>14 DEF DtorNotify, NotifyAll, TypeOK, LockInv, ModeStable, BatchInv, LifeInv
<1>15. ASSUME DtorJoin PROVE Control'
  BY <1>15 DEF DtorJoin, TypeOK, LockInv, ModeStable, BatchInv, LifeInv
<1>16. ASSUME UNCHANGED vars PROVE Control'
  BY <1>16 DEF vars, TypeOK, LockInv, ModeStable, BatchInv, LifeInv
<1>17. QED
  BY <1>1, <1>2, <1>3, <1>4, <1>5, <1>6, <1>7, <1>8, <1>9, <1>10, <1>11, <1>12,
     <1>13, <1>14, <1>15, <1>16 DEF Next, Submitting, Working, Destroying

LEMMA ControlInvariant == Spec => []Control
BY ControlInit, ControlStep, PTL DEF Spec

\* Types and m_state_mutex's exclusion: no caller, batch, wakeup or mode switch
\* ever breaks them; the critical sections of log_direct and thread_impl exclude
\* each other.
THEOREM SinkTypeCorrect == Spec => []SinkTypeOK
<1>1. Control => SinkTypeOK
  BY DEF Control, TypeOK, LockInv, MutexHeldInside, Inside, SinkTypeOK
<1>2. QED BY <1>1, ControlInvariant, PTL

\* Who writes synchronously does so in synchronous mode, whoever switches it.
THEOREM ModeIsStable == Spec => []ModeStable
BY ControlInvariant, PTL DEF Control

\* A batch that was taken is written to its end before the worker sleeps, exits
\* or is joined, whenever the flag of the destructor is set.
THEOREM BatchesAreWritten == Spec => []BatchComplete
<1>1. Control => BatchComplete BY DEF Control, BatchInv, LifeInv, BatchComplete
<1>2. QED BY <1>1, ControlInvariant, PTL

-----------------------------------------------------------------------------
(* Conservation *)

\* What a caller still has to hand over is not among the submissions yet.
LEMMA CurrentIsNew ==
  ASSUME Control, NEW p \in Producers, pc[p] \in {"lock", "backend"}
  PROVE  Current(p) \in Records \ Submissions
<1>1. Current(p) \in Records BY CurrentIsRecord DEF Control
<1>2. Current(p)[1] = p /\ Current(p)[2] = sent[p] BY DEF Current, Record
<1>3. sent[p] \in Int BY DEF Control, TypeOK
<1>4. ~(sent[p] <= Submitted(p)) BY <1>3 DEF Submitted
<1>5. QED BY <1>1, <1>2, <1>4 DEF Submissions

LEMMA SubmissionsGrow ==
  ASSUME Control, NEW p \in Producers, pc[p] \in {"lock", "backend"},
         sent' = sent,
         \E s \in {"notify", "idle"} : pc' = [pc EXCEPT ![p] = s]
  PROVE  Submissions' = Submissions \cup {Current(p)}
<1>1. \A q \in Producers : q # p => Submitted(q)' = Submitted(q)
  BY DEF Submitted, Control, TypeOK
<1>2. Submitted(p)' = sent[p] /\ Submitted(p) = sent[p] - 1 /\ sent[p] \in Int
  BY DEF Submitted, Control, TypeOK
<1>3. Current(p) \in Records BY CurrentIsRecord DEF Control
<1>4. ASSUME NEW r \in Records
      PROVE  r \in Submissions' <=> r \in Submissions \cup {Current(p)}
  <2>1. r[1] \in Producers /\ r[2] \in Int /\ r = <<r[1], r[2]>> BY DEF Records
  <2>2. CASE r[1] # p
    BY <1>1, <2>1, <2>2 DEF Submissions, Current, Record
  <2>3. CASE r[1] = p
    <3>1. r \in Submissions' <=> r[2] <= sent[p] BY <1>2, <2>3 DEF Submissions
    <3>2. r \in Submissions <=> r[2] <= sent[p] - 1 BY <1>2, <2>3 DEF Submissions
    <3>3. r = Current(p) <=> r[2] = sent[p] BY <2>1, <2>3 DEF Current, Record
    <3>4. QED BY <3>1, <3>2, <3>3, <2>1, <1>2
  <2>4. QED BY <2>2, <2>3
<1>5. Submissions \subseteq Records /\ Submissions' \subseteq Records
  BY DEF Submissions, Records
<1>6. QED BY <1>3, <1>4, <1>5

LEMMA SubmissionsKept ==
  ASSUME \A p \in Producers : Submitted(p)' = Submitted(p)
  PROVE  Submissions' = Submissions
<1>1. \A r \in Records : r[1] \in Producers BY DEF Records
<1>2. QED BY <1>1 DEF Submissions, Records

LEMMA ConservedInit == Init => Conserved
<1> SUFFICES ASSUME Init PROVE Conserved
  OBVIOUS
<1>1. \A p \in Producers : Submitted(p) = 0 BY DEF Init, Submitted
<1>2. Submissions = {} BY <1>1 DEF Submissions, Records
<1>3. Range(<<>>) = {} /\ IsInjective(<<>>) BY DEF Range, IsInjective
<1>4. QED BY <1>2, <1>3 DEF Init, Conserved

LEMMA ConservedStep ==
  ASSUME Control, Conserved, [Next]_vars
  PROVE  Conserved'
<1> USE DEF Conserved
<1>0. TypeOK BY DEF Control
<1>1. ASSUME NEW p \in Producers, Enqueue(p) PROVE Conserved'
  <2>1. Current(p) \in Records \ Submissions BY <1>1, CurrentIsNew DEF Enqueue
  <2>2. Submissions' = Submissions \cup {Current(p)}
    BY <1>1, SubmissionsGrow DEF Enqueue
  <2>3. /\ Range(m_log_queue') = Range(m_log_queue) \cup {Current(p)}
        /\ IsInjective(m_log_queue')
    BY <1>0, <1>1, <2>1, AppendFacts DEF Enqueue, TypeOK
  <2>4. QED BY <1>1, <2>1, <2>2, <2>3 DEF Enqueue
<1>2. ASSUME NEW p \in Producers, LeaveBackend(p) PROVE Conserved'
  <2>1. Current(p) \in Records \ Submissions BY <1>2, CurrentIsNew DEF LeaveBackend
  <2>2. Submissions' = Submissions \cup {Current(p)}
    BY <1>2, SubmissionsGrow DEF LeaveBackend
  <2>3. Range(written') = Range(written) \cup {Current(p)} /\ IsInjective(written')
    BY <1>0, <1>2, <2>1, AppendFacts DEF LeaveBackend, TypeOK
  <2>4. QED BY <1>2, <2>1, <2>2, <2>3 DEF LeaveBackend
<1>3. ASSUME WorkerWake PROVE Conserved'
  <2>1. Submissions' = Submissions
    BY <1>3, SubmissionsKept DEF WorkerWake, Submitted
  <2>2. CASE m_log_queue = <<>> BY <1>3, <2>1, <2>2 DEF WorkerWake
  <2>3. CASE m_log_queue # <<>>
    <3>1. buffer = <<>> BY <1>3 DEF WorkerWake, Control, BatchInv
    <3>2. buffer' = m_log_queue /\ m_log_queue' = <<>>
      BY <1>0, <1>3, <2>3, <3>1, ConcatEmptySeq DEF WorkerWake, TakeQueue, TypeOK
    <3>3. Range(<<>>) = {} /\ IsInjective(<<>>) BY DEF Range, IsInjective
    <3>4. QED BY <1>3, <2>1, <3>1, <3>2, <3>3 DEF WorkerWake
  <2>4. QED BY <2>2, <2>3
<1>4. ASSUME WorkerWrite PROVE Conserved'
  <2>1. Submissions' = Submissions
    BY <1>4, SubmissionsKept DEF WorkerWrite, Submitted
  <2>2. buffer # <<>> BY <1>4 DEF WorkerWrite, Control, BatchInv
  <2>3. /\ Head(buffer) \in Records
        /\ Range(buffer) = {Head(buffer)} \cup Range(buffer')
        /\ IsInjective(buffer') /\ Head(buffer) \notin Range(buffer')
    BY <1>0, <1>4, <2>2, TakeFirst DEF WorkerWrite, TypeOK
  <2>4. Head(buffer) \notin Range(written) BY <2>3
  <2>5. Range(written') = Range(written) \cup {Head(buffer)} /\ IsInjective(written')
    BY <1>0, <1>4, <2>3, <2>4, AppendFacts DEF WorkerWrite, TypeOK
  <2>6. QED BY <1>4, <2>1, <2>3, <2>5 DEF WorkerWrite
<1>5. ASSUME UNCHANGED <<m_log_queue, buffer, written>>,
             \A p \in Producers : Submitted(p)' = Submitted(p)
      PROVE  Conserved'
  BY <1>5, SubmissionsKept
<1>6. ASSUME NEW p \in Producers, Call(p) \/ Notify(p) \/ EnterBackend(p)
      PROVE  Conserved'
  <2>1. \A q \in Producers : Submitted(q)' = Submitted(q)
    BY <1>0, <1>6 DEF Call, Notify, EnterBackend, Submitted, TypeOK
  <2>2. QED BY <1>5, <1>6, <2>1 DEF Call, Notify, EnterBackend
<1>7. ASSUME \/ WorkerLock \/ WorkerCheck \/ WorkerWait \/ SpuriousWakeup
             \/ \E b \in BOOLEAN : SetSynchronous(b)
             \/ DtorTerminate \/ DtorNotify \/ DtorJoin
             \/ UNCHANGED vars
      PROVE  Conserved'
  <2>1. UNCHANGED <<sent, pc, m_log_queue, buffer, written>>
    BY <1>7 DEF WorkerLock, WorkerCheck, WorkerWait, SpuriousWakeup, SetSynchronous,
                DtorTerminate, DtorNotify, DtorJoin, vars
  <2>2. QED BY <1>5, <2>1 DEF Submitted
<1>8. QED
  BY <1>1, <1>2, <1>3, <1>4, <1>6, <1>7 DEF Next, Submitting, Working, Destroying

\* No interleaving of callers, worker, mode switches and destructor loses or
\* duplicates a record.
THEOREM Conservation == Spec => []Conserved
BY ConservedInit, ConservedStep, ControlInvariant, PTL DEF Spec

-----------------------------------------------------------------------------
(* A sink whose mode is never switched: one backend caller, threads in order *)

SyncQuiet == switches = 0 /\ m_synchronous => m_log_queue = <<>> /\ wpc # "backend"

LEMMA SyncQuietStep ==
  ASSUME Control, SyncQuiet, [Next]_vars
  PROVE  SyncQuiet'
<1> USE DEF Control, TypeOK, SyncQuiet
<1>1. ASSUME NEW p \in Producers, Call(p) \/ Submitting(p) PROVE SyncQuiet'
  BY <1>1 DEF Call, Submitting, Enqueue, Notify, NotifyAll, EnterBackend, LeaveBackend
<1>2. ASSUME Working \/ SpuriousWakeup PROVE SyncQuiet'
  BY <1>2 DEF Working, WorkerLock, WorkerCheck, WorkerWait, WorkerWake, WorkerWrite,
              AfterWrite, SpuriousWakeup
<1>3. ASSUME NEW b \in BOOLEAN, SetSynchronous(b) PROVE SyncQuiet'
  BY <1>3 DEF SetSynchronous
<1>4. ASSUME DtorTerminate \/ Destroying PROVE SyncQuiet'
  BY <1>4 DEF DtorTerminate, Destroying, DtorNotify, DtorJoin, NotifyAll
<1>5. ASSUME UNCHANGED vars PROVE SyncQuiet'
  BY <1>5 DEF vars
<1>6. QED BY <1>1, <1>2, <1>3, <1>4, <1>5 DEF Next

LEMMA SyncQuietInvariant == Spec => []SyncQuiet
<1>1. Init => SyncQuiet BY DEF Init, SyncQuiet
<1>2. QED BY <1>1, SyncQuietStep, ControlInvariant, PTL DEF Spec

LEMMA AtMostOne ==
  ASSUME NEW x, NEW S, S \subseteq {x}
  PROVE  Cardinality(S) <= 1
<1>1. IsFiniteSet({x}) /\ Cardinality({x}) = 1 BY FS_Singleton
<1>2. S \in SUBSET {x} OBVIOUS
<1>3. Cardinality(S) <= Cardinality({x}) BY <1>1, <1>2, FS_Subset
<1>4. QED BY <1>1, <1>3

\* The callers of log_direct keep each other out of the backend, and a mode that
\* is not switched keeps the sink's own thread out, too: then LogTTYSink's lines
\* are not torn apart.
THEOREM BackendIsExclusive == Spec => []BackendExclusive
<1>1. ASSUME Control, SyncQuiet PROVE BackendExclusive
  <2>1. Cardinality(InBackend \ {Worker}) <= 1
    <3>1. InBackend \ {Worker} \subseteq {mutex} BY <1>1 DEF InBackend, Control, LockInv
    <3>2. QED BY <3>1, AtMostOne
  <2>2. CASE switches = 0 /\ m_synchronous
    <3>1. InBackend \subseteq {mutex}
      BY <1>1, <2>2 DEF SyncQuiet, InBackend, Control, LockInv
    <3>2. QED BY <2>1, <3>1, AtMostOne DEF BackendExclusive
  <2>3. CASE ~m_synchronous
    <3>1. InBackend \subseteq {Worker} BY <1>1, <2>3 DEF InBackend, Control, ModeStable
    <3>2. QED BY <2>1, <3>1, AtMostOne DEF BackendExclusive
  <2>4. CASE switches # 0 BY <2>1, <2>4 DEF BackendExclusive
  <2>5. QED BY <1>1, <2>2, <2>3, <2>4 DEF Control, TypeOK
<1>2. QED BY <1>1, ControlInvariant, SyncQuietInvariant, PTL

Ordered(s, R) == \A i, j \in DOMAIN s : i < j => <<s[i], s[j]>> \in R

\* Two records may stand in the order they do.
Precedence == {d \in Records \X Records : MayPrecede(d[1], d[2])}

LEMMA OrderInsert ==
  ASSUME NEW S, NEW R, NEW t \in Seq(S), NEW u \in Seq(S), NEW x \in S,
         Ordered(t \o u, R),
         \A y \in Range(t) : <<y, x>> \in R,
         \A y \in Range(u) : <<x, y>> \in R
  PROVE  Ordered(Append(t, x) \o u, R)
<1>1. PICK m \in Nat, n \in Nat : m = Len(t) /\ n = Len(u)
  BY LenProperties
<1>2. Append(t, x) \in Seq(S) /\ Len(Append(t, x)) = m + 1
  BY <1>1, AppendProperties
<1>3. /\ \A i \in 1 .. m : Append(t, x)[i] = t[i]
      /\ Append(t, x)[m + 1] = x
  BY <1>1, AppendProperties
<1>4. PICK s \in Seq(S) : s = t \o u
  BY ConcatProperties
<1>5. PICK w \in Seq(S) : w = Append(t, x) \o u
  BY <1>2, ConcatProperties
<1>6. /\ Len(s) = m + n
      /\ \A i \in 1 .. m : s[i] = t[i]
      /\ \A i \in m + 1 .. m + n : s[i] = u[i - m]
  BY <1>1, <1>4, ConcatProperties
<1>7. /\ Len(w) = m + 1 + n
      /\ \A i \in 1 .. m + 1 : w[i] = Append(t, x)[i]
      /\ \A i \in m + 2 .. m + 1 + n : w[i] = u[i - (m + 1)]
  BY <1>1, <1>2, <1>5, ConcatProperties
<1>8. /\ \A i \in 1 .. m : w[i] = s[i]
      /\ w[m + 1] = x
      /\ \A i \in m + 2 .. m + 1 + n : w[i] = s[i - 1]
  <2>1. ASSUME NEW i \in m + 2 .. m + 1 + n PROVE w[i] = s[i - 1]
    <3>1. i - 1 \in m + 1 .. m + n /\ i - 1 - m = i - (m + 1) BY <1>1
    <3>2. QED BY <1>6, <1>7, <3>1
  <2>2. ASSUME NEW i \in 1 .. m PROVE w[i] = s[i]
    <3>1. i \in 1 .. m + 1 BY <1>1
    <3>2. QED BY <1>3, <1>6, <1>7, <3>1
  <2>3. m + 1 \in 1 .. m + 1 BY <1>1
  <2>4. w[m + 1] = x BY <1>3, <1>7, <2>3
  <2>5. QED BY <2>1, <2>2, <2>4
<1>9. DOMAIN w = 1 .. m + 1 + n /\ DOMAIN s = 1 .. m + n /\ DOMAIN t = 1 .. m /\ DOMAIN u = 1 .. n
  BY <1>1, <1>6, <1>7, LenProperties
<1>10. \A i \in 1 .. m : <<s[i], x>> \in R
  BY <1>6, <1>9 DEF Range
<1>11. \A i \in m + 1 .. m + n : <<x, s[i]>> \in R
  <2>1. ASSUME NEW i \in m + 1 .. m + n PROVE <<x, s[i]>> \in R
    <3>1. i - m \in 1 .. n BY <1>1
    <3>2. s[i] \in Range(u) BY <1>6, <1>9, <3>1 DEF Range
    <3>3. QED BY <3>2
  <2>2. QED BY <2>1
<1>12. \A i, j \in 1 .. m + n : i < j => <<s[i], s[j]>> \in R
  BY <1>4, <1>9 DEF Ordered
<1>13. ASSUME NEW i \in 1 .. m + 1 + n, NEW j \in 1 .. m + 1 + n, i < j
       PROVE  <<w[i], w[j]>> \in R
  <2>1. CASE j \in 1 .. m
    <3>1. i \in 1 .. m /\ w[i] = s[i] /\ w[j] = s[j] BY <1>8, <1>13, <2>1
    <3>2. i \in 1 .. m + n /\ j \in 1 .. m + n BY <2>1, <3>1
    <3>3. QED BY <1>12, <1>13, <3>1, <3>2
  <2>2. CASE j = m + 1
    <3>1. i \in 1 .. m BY <1>13, <2>2
    <3>2. w[i] = s[i] /\ w[j] = x BY <1>8, <2>2, <3>1
    <3>3. QED BY <1>10, <3>1, <3>2
  <2>3. CASE j \in m + 2 .. m + 1 + n
    <3>1. j - 1 \in m + 1 .. m + n /\ w[j] = s[j - 1] BY <1>8, <2>3
    <3>2. CASE i \in 1 .. m
      <4>1. i \in 1 .. m + n /\ j - 1 \in 1 .. m + n /\ i < j - 1 BY <2>3, <3>2
      <4>2. w[i] = s[i] BY <1>8, <3>2
      <4>3. QED BY <1>12, <3>1, <4>1, <4>2
    <3>3. CASE i = m + 1
      <4>1. w[i] = x BY <1>8, <3>3
      <4>2. QED BY <1>11, <3>1, <4>1
    <3>4. CASE i \in m + 2 .. m + 1 + n
      <4>1. i - 1 \in 1 .. m + n /\ i - 1 < j - 1 /\ w[i] = s[i - 1] BY <1>8, <1>13, <3>4
      <4>2. QED BY <1>12, <3>1, <4>1
    <3>5. QED BY <3>2, <3>3, <3>4
  <2>4. QED BY <2>1, <2>2, <2>3
<1>14. QED BY <1>5, <1>9, <1>13 DEF Ordered

\* An order stays one if what is allowed of its own elements grows.
LEMMA OrderGrows ==
  ASSUME NEW s, NEW R, NEW T, Ordered(s, R),
         \A a, b \in Range(s) : <<a, b>> \in R => <<a, b>> \in T
  PROVE  Ordered(s, T)
BY DEF Ordered, Range

LEMMA ThreadOrderIsOrder == ASSUME TypeOK PROVE ThreadOrder <=> Ordered(Accepted, Precedence)
<1>1. written \o buffer \in Seq(Records) BY ConcatProperties DEF TypeOK
<1>2. Accepted \in Seq(Records) BY <1>1, ConcatProperties DEF Accepted, TypeOK
<1>3. \A i \in DOMAIN Accepted : Accepted[i] \in Records BY <1>2, LenProperties
<1>4. QED BY <1>3 DEF ThreadOrder, Ordered, Precedence

LEMMA ThreadOrderIsOrderNext ==
  ASSUME TypeOK'
  PROVE  ThreadOrder' <=> Ordered(Accepted, Precedence)'
<1>1. (written \o buffer)' \in Seq(Records) BY ConcatProperties DEF TypeOK
<1>2. Accepted' \in Seq(Records) BY <1>1, ConcatProperties DEF Accepted, TypeOK
<1>3. \A i \in DOMAIN Accepted' : Accepted'[i] \in Records BY <1>2, LenProperties
<1>4. QED BY <1>3 DEF ThreadOrder, Ordered, Precedence

\* Every record handed over before p's current one and logged by p is older.
LEMMA CurrentIsLast ==
  ASSUME Control, Conserved, NEW p \in Producers, pc[p] \in {"lock", "backend"}
  PROVE  \A y \in Range(Accepted) : y[1] = Current(p)[1] => y[2] < Current(p)[2]
<1>1. TypeOK BY DEF Control
<1>2. Range(Accepted) = Range(written) \cup Range(buffer) \cup Range(m_log_queue)
  BY <1>1, RangeOfThree DEF Accepted, TypeOK
<1>3. Range(Accepted) = Submissions BY <1>2 DEF Conserved
<1>4. Submitted(p) = sent[p] - 1 /\ sent[p] \in Int BY <1>1 DEF Submitted, TypeOK
<1>5. \A y \in Submissions : y[2] \in Int /\ y[2] <= Submitted(y[1])
  BY DEF Submissions, Records
<1>6. Current(p)[1] = p /\ Current(p)[2] = sent[p] BY DEF Current, Record
<1>7. QED BY <1>3, <1>4, <1>5, <1>6

DirectInv == direct \subseteq Range(written)

LEMMA DirectStep ==
  ASSUME Control, DirectInv, [Next]_vars
  PROVE  DirectInv'
<1> USE DEF DirectInv
<1>0. TypeOK BY DEF Control
<1>1. ASSUME NEW p \in Producers, LeaveBackend(p) PROVE DirectInv'
  <2>1. Current(p) \in Records BY <1>1, CurrentIsNew DEF LeaveBackend
  <2>2. Range(written') = Range(written) \cup {Current(p)}
    BY <1>0, <1>1, <2>1, AppendFacts DEF LeaveBackend, TypeOK
  <2>3. QED BY <1>1, <2>2 DEF LeaveBackend
<1>2. ASSUME WorkerWrite PROVE DirectInv'
  <2>1. buffer # <<>> BY <1>2 DEF WorkerWrite, Control, BatchInv
  <2>2. Head(buffer) \in Records BY <1>0, <2>1, TakeFirst DEF TypeOK
  <2>3. Range(written') = Range(written) \cup {Head(buffer)}
    BY <1>0, <1>2, <2>2, AppendFacts DEF WorkerWrite, TypeOK
  <2>4. QED BY <1>2, <2>3 DEF WorkerWrite
<1>3. ASSUME UNCHANGED <<written, direct>> PROVE DirectInv'
  BY <1>3
<1>4. QED
  BY <1>1, <1>2, <1>3
  DEF Next, Submitting, Working, Destroying, Call, Enqueue, Notify, EnterBackend, WorkerLock,
      WorkerCheck, WorkerWait, WorkerWake, SpuriousWakeup, SetSynchronous, DtorTerminate,
      DtorNotify, DtorJoin, vars

LEMMA DirectInvariant == Spec => []DirectInv
<1>1. Init => DirectInv BY DEF Init, DirectInv
<1>2. QED BY <1>1, DirectStep, ControlInvariant, PTL DEF Spec

LEMMA ThreadOrderStep ==
  ASSUME Control, Conserved, SyncQuiet, DirectInv, ThreadOrder, [Next]_vars
  PROVE  ThreadOrder'
<1>0. TypeOK BY DEF Control
<1>1. ASSUME Accepted' = Accepted, direct' = direct, switches # 0 => switches' # 0
      PROVE  ThreadOrder'
  BY <1>1 DEF ThreadOrder, MayPrecede
<1>2. ASSUME UNCHANGED <<written, buffer, m_log_queue, direct, switches>> PROVE ThreadOrder'
  BY <1>1, <1>2 DEF Accepted
<1>3. TypeOK' BY ControlStep DEF Control
<1>4. /\ written \in Seq(Records) /\ buffer \in Seq(Records) /\ m_log_queue \in Seq(Records)
      /\ <<>> \in Seq(Records)
  BY <1>0, EmptySeq DEF TypeOK
<1>5. written \o buffer \in Seq(Records) /\ buffer \o m_log_queue \in Seq(Records)
  BY <1>4, ConcatProperties
<1>6. Accepted \in Seq(Records) /\ Accepted = written \o (buffer \o m_log_queue)
  BY <1>4, <1>5, ConcatProperties, ConcatAssociative DEF Accepted
<1>7. /\ Range(Accepted) = Range(written) \cup Range(buffer \o m_log_queue)
      /\ Range(buffer \o m_log_queue) = Range(buffer) \cup Range(m_log_queue)
  <2>1. \A a, b \in Seq(Records) : Range(a \o b) = Range(a) \cup Range(b)
    BY RangeConcatenation
  <2>2. QED BY <1>4, <1>5, <1>6, <2>1
<1>8. Ordered(Accepted, Precedence) BY <1>0, ThreadOrderIsOrder
<1>9. ASSUME NEW p \in Producers, Enqueue(p) PROVE ThreadOrder'
  <2> DEFINE x == Current(p)
  <2>1. x \in Records BY <1>9, CurrentIsNew DEF Enqueue
  <2>2. Accepted' = Append(Accepted, x)
    BY <1>4, <1>5, <1>9, <2>1, AppendToConcat DEF Enqueue, Accepted
  <2>3. Append(Accepted, x) \o <<>> = Append(Accepted, x) /\ Accepted \o <<>> = Accepted
    BY <1>6, <2>1, AppendProperties, ConcatEmptySeq
  <2>4. Range(Accepted) \subseteq Records BY <1>6, LenProperties DEF Range
  <2>5. \A y \in Range(Accepted) : <<y, x>> \in Precedence
    BY <1>9, <2>1, <2>4, CurrentIsLast DEF Enqueue, Precedence, MayPrecede
  <2>6. Range(<<>>) = {} BY DEF Range
  <2> HIDE DEF x
  <2>7. Ordered(Append(Accepted, x), Precedence)
    <3>1. Ordered(Accepted \o <<>>, Precedence) BY <1>8, <2>3
    <3>2. Accepted \in Seq(Records) BY <1>6
    <3>3. <<>> \in Seq(Records) BY <1>4
    <3>4. Ordered(Append(Accepted, x) \o <<>>, Precedence)
      BY <2>1, <2>5, <2>6, <3>1, <3>2, <3>3, OrderInsert
    <3>5. QED BY <2>3, <3>4
  <2>8. Precedence' = Precedence BY <1>9 DEF Precedence, MayPrecede, Enqueue
  <2>9. Ordered(Accepted, Precedence)' BY <2>2, <2>7, <2>8 DEF Ordered
  <2>10. QED BY <1>3, <2>9, ThreadOrderIsOrderNext
<1>10. ASSUME NEW p \in Producers, LeaveBackend(p) PROVE ThreadOrder'
  <2> DEFINE x == Current(p)
             queued == buffer \o m_log_queue
  <2>1. x \in Records \ Submissions BY <1>10, CurrentIsNew DEF LeaveBackend
  <2>2. x \notin Range(Accepted)
    <3>1. Range(Accepted) = Range(written) \cup Range(buffer) \cup Range(m_log_queue)
      BY <1>4, RangeOfThree DEF Accepted
    <3>2. QED BY <2>1, <3>1 DEF Conserved
  <2>3. Accepted' = Append(written, x) \o queued
    <3>1. Append(written, x) \in Seq(Records) BY <1>4, <2>1, AppendProperties
    <3>2. QED BY <1>4, <1>10, <3>1, ConcatAssociative DEF LeaveBackend, Accepted
  <2>4. Range(Accepted) \subseteq Records BY <1>6, LenProperties DEF Range
  <2>5. \A y \in Range(Accepted) : y[1] = x[1] => y[2] < x[2]
    BY <1>10, CurrentIsLast DEF LeaveBackend
  <2>6. direct' = direct \cup {x} /\ switches' = switches BY <1>10 DEF LeaveBackend
  <2>7. \A y \in Range(queued) : y \notin direct'
    <3>1. SUFFICES ASSUME NEW y \in Range(queued) PROVE y \notin direct'
      OBVIOUS
    <3>2. y \in Range(Accepted) /\ y \in Range(buffer) \cup Range(m_log_queue) BY <1>7
    <3>3. y # x BY <2>2, <3>2
    <3>4. y \notin Range(written) BY <3>2 DEF Conserved
    <3>5. QED BY <2>6, <3>3, <3>4 DEF DirectInv
  <2>8. switches # 0 \/ Range(queued) = {}
    <3>1. switches = 0 => m_log_queue = <<>> /\ buffer = <<>>
      BY <1>10 DEF Control, ModeStable, SyncQuiet, BatchInv, LeaveBackend
    <3>2. Range(<<>>) = {} BY DEF Range
    <3>3. QED BY <1>7, <3>1, <3>2
  <2>9. \A y \in Range(written) : <<y, x>> \in Precedence'
    BY <1>7, <2>1, <2>4, <2>5, <2>6 DEF Precedence, MayPrecede
  <2>10. \A y \in Range(queued) : <<x, y>> \in Precedence'
    BY <1>7, <2>1, <2>4, <2>6, <2>7, <2>8 DEF Precedence, MayPrecede
  <2>11. Ordered(Accepted, Precedence')
    <3>1. ASSUME NEW a \in Range(Accepted), NEW b \in Range(Accepted), <<a, b>> \in Precedence
          PROVE  <<a, b>> \in Precedence'
      <4>1. a # x /\ b # x BY <2>2
      <4>2. QED BY <2>6, <3>1, <4>1 DEF Precedence, MayPrecede
    <3>2. QED BY <1>8, <3>1, OrderGrows
  <2> HIDE DEF x, queued
  <2>12. queued \in Seq(Records) /\ Accepted = written \o queued BY <1>5, <1>6 DEF queued
  <2>13. Ordered(Append(written, x) \o queued, Precedence')
    BY <1>4, <2>1, <2>9, <2>10, <2>11, <2>12, OrderInsert
  <2>14. Ordered(Accepted, Precedence)' BY <2>3, <2>13 DEF Ordered
  <2>15. QED BY <1>3, <2>14, ThreadOrderIsOrderNext
<1>11. ASSUME WorkerWake PROVE ThreadOrder'
  <2>1. CASE m_log_queue = <<>> BY <1>2, <1>11, <2>1 DEF WorkerWake
  <2>2. CASE m_log_queue # <<>>
    <3>1. buffer = <<>> BY <1>11 DEF WorkerWake, Control, BatchInv
    <3>2. buffer' = m_log_queue /\ m_log_queue' = <<>>
      BY <1>0, <1>11, <2>2, <3>1, ConcatEmptySeq DEF WorkerWake, TakeQueue, TypeOK
    <3>3. written \o m_log_queue \in Seq(Records)
      BY <1>4, ConcatProperties
    <3>4. Accepted = written \o m_log_queue /\ Accepted' = written \o m_log_queue
      BY <1>0, <1>11, <3>1, <3>2, <3>3, ConcatEmptySeq DEF Accepted, TypeOK, WorkerWake
    <3>5. QED BY <1>1, <1>11, <3>4 DEF WorkerWake
  <2>3. QED BY <2>1, <2>2
<1>12. ASSUME WorkerWrite PROVE ThreadOrder'
  <2>1. buffer # <<>> BY <1>12 DEF WorkerWrite, Control, BatchInv
  <2>2. written' \o buffer' = written \o buffer
    BY <1>4, <1>12, <2>1, ShiftFirst DEF WorkerWrite
  <2>3. QED BY <1>1, <1>12, <2>2 DEF WorkerWrite, Accepted
<1>13. ASSUME NEW b \in BOOLEAN, SetSynchronous(b) PROVE ThreadOrder'
  BY <1>0, <1>1, <1>13 DEF SetSynchronous, TypeOK, Accepted
<1>14. ASSUME NEW p \in Producers, Call(p) \/ Notify(p) \/ EnterBackend(p)
      PROVE  ThreadOrder'
  BY <1>2, <1>14 DEF Call, Notify, EnterBackend
<1>15. ASSUME \/ WorkerLock \/ WorkerCheck \/ WorkerWait \/ SpuriousWakeup
              \/ DtorTerminate \/ DtorNotify \/ DtorJoin \/ UNCHANGED vars
       PROVE  ThreadOrder'
  BY <1>2, <1>15 DEF WorkerLock, WorkerCheck, WorkerWait, SpuriousWakeup,
                     DtorTerminate, DtorNotify, DtorJoin, vars
<1>16. QED
  BY <1>9, <1>10, <1>11, <1>12, <1>13, <1>14, <1>15 DEF Next, Submitting, Working, Destroying

\* Of a thread's own records the later overtakes the earlier only when the thread
\* writes it itself, after a switch to synchronous mode, while the earlier is
\* queued; batching never reorders them, for any number of threads and switches.
THEOREM ThreadsInOrder == Spec => []ThreadOrder
<1>1. Init => ThreadOrder
  <2>1. Init => Accepted = <<>>
    BY EmptySeq, ConcatEmptySeq DEF Init, Accepted
  <2>2. QED BY <2>1 DEF ThreadOrder
<1>2. QED
  BY <1>1, ThreadOrderStep, ControlInvariant, SyncQuietInvariant, DirectInvariant, Conservation,
     PTL DEF Spec

-----------------------------------------------------------------------------
(* The refinement of LogChannel *)

LEMMA ChannelStep ==
  ASSUME Control, Conserved, [Next]_vars
  PROVE  [Channel!Next]_(Channel!chanVars)
<1>0. TypeOK BY DEF Control
<1> USE DEF Channel!Next, Channel!chanVars
<1>1. ASSUME UNCHANGED <<buffer, m_log_queue, written>>, dpc' = "done" <=> dpc = "done"
      PROVE  Channel!chanVars' = Channel!chanVars
  BY <1>1
<1>2. ASSUME NEW p \in Producers, Enqueue(p)
      PROVE  \E r \in Records : Channel!Accept(r)
  <2>1. Current(p) \in Records \ Submissions BY <1>2, CurrentIsNew DEF Enqueue
  <2>2. dpc # "done" /\ dpc' # "done" BY <1>2 DEF Control, LifeInv, Enqueue
  <2>3. Range(buffer \o m_log_queue) = Range(buffer) \cup Range(m_log_queue)
    BY <1>0, RangeConcatenation DEF TypeOK
  <2>4. Current(p) \notin Range(buffer \o m_log_queue) \cup Range(written)
    BY <2>1, <2>3 DEF Conserved
  <2>5. buffer \o Append(m_log_queue, Current(p)) = Append(buffer \o m_log_queue, Current(p))
    BY <1>0, <2>1, AppendToConcat DEF TypeOK
  <2>6. Channel!Accept(Current(p))
    <3>1. Channel!Fresh(Current(p)) BY <2>2, <2>4 DEF Channel!Fresh, Channel!Range, Range
    <3>2. QED BY <1>2, <2>2, <2>5, <3>1 DEF Channel!Accept, Enqueue
  <2>7. QED BY <2>1, <2>6
<1>3. ASSUME NEW p \in Producers, LeaveBackend(p)
      PROVE  \E r \in Records : Channel!DeliverNow(r)
  <2>1. Current(p) \in Records \ Submissions BY <1>3, CurrentIsNew DEF LeaveBackend
  <2>2. dpc # "done" /\ dpc' # "done" BY <1>3 DEF Control, LifeInv, LeaveBackend
  <2>3. Range(buffer \o m_log_queue) = Range(buffer) \cup Range(m_log_queue)
    BY <1>0, RangeConcatenation DEF TypeOK
  <2>4. Current(p) \notin Range(buffer \o m_log_queue) \cup Range(written)
    BY <2>1, <2>3 DEF Conserved
  <2>5. Channel!DeliverNow(Current(p))
    <3>1. Channel!Fresh(Current(p)) BY <2>2, <2>4 DEF Channel!Fresh, Channel!Range, Range
    <3>2. QED BY <1>3, <2>2, <3>1 DEF Channel!DeliverNow, LeaveBackend
  <2>6. QED BY <2>1, <2>5
<1>4. ASSUME WorkerWake PROVE Channel!chanVars' = Channel!chanVars
  <2>1. CASE m_log_queue = <<>> BY <1>1, <1>4, <2>1 DEF WorkerWake
  <2>2. CASE m_log_queue # <<>>
    <3>1. buffer = <<>> BY <1>4 DEF WorkerWake, Control, BatchInv
    <3>2. buffer' = m_log_queue /\ m_log_queue' = <<>>
      BY <1>0, <1>4, <2>2, <3>1, ConcatEmptySeq DEF WorkerWake, TakeQueue, TypeOK
    <3>3. (buffer \o m_log_queue)' = buffer \o m_log_queue
      BY <1>0, <3>1, <3>2, ConcatEmptySeq DEF TypeOK
    <3>4. QED BY <1>4, <3>3 DEF WorkerWake
  <2>3. QED BY <2>1, <2>2
<1>5. ASSUME WorkerWrite PROVE Channel!Deliver
  <2>1. buffer # <<>> BY <1>5 DEF WorkerWrite, Control, BatchInv
  <2>2. dpc # "done" /\ dpc' # "done" BY <1>5 DEF Control, LifeInv, WorkerWrite
  <2>3. /\ buffer \o m_log_queue # <<>>
        /\ Head(buffer \o m_log_queue) = Head(buffer)
        /\ Tail(buffer \o m_log_queue) = Tail(buffer) \o m_log_queue
    BY <1>0, <2>1, TakeFirstOfConcat DEF TypeOK
  <2>4. QED BY <1>5, <2>2, <2>3 DEF Channel!Deliver, WorkerWrite
<1>6. ASSUME DtorJoin PROVE Channel!Close
  BY <1>6 DEF DtorJoin, Channel!Close
<1>7. ASSUME NEW p \in Producers, Call(p) \/ Notify(p) \/ EnterBackend(p)
      PROVE  Channel!chanVars' = Channel!chanVars
  BY <1>1, <1>7 DEF Call, Notify, EnterBackend
<1>8. ASSUME \/ WorkerLock \/ WorkerCheck \/ WorkerWait \/ SpuriousWakeup
             \/ \E b \in BOOLEAN : SetSynchronous(b)
             \/ DtorTerminate \/ DtorNotify \/ UNCHANGED vars
      PROVE  Channel!chanVars' = Channel!chanVars
  BY <1>1, <1>8 DEF WorkerLock, WorkerCheck, WorkerWait, SpuriousWakeup,
                    SetSynchronous, DtorTerminate, DtorNotify, vars
<1>9. QED
  BY <1>2, <1>3, <1>4, <1>5, <1>6, <1>7, <1>8 DEF Next, Submitting, Working, Destroying

\* LogAsynchronousSink implements the channel: accepted records reach the
\* backend at most once, the queued ones in the order they were accepted.
THEOREM ImplementsChannel == Spec => ChannelSpec
<1>1. Init => Channel!Init
  <2>1. <<>> \o <<>> = <<>> BY EmptySeq, ConcatEmptySeq
  <2>2. QED BY <2>1 DEF Init, Channel!Init
<1>2. Control /\ Conserved /\ [Next]_vars => [Channel!Next]_(Channel!chanVars)
  BY ChannelStep
<1>3. QED
  BY <1>1, <1>2, ControlInvariant, Conservation, PTL DEF Spec, ChannelSpec, Channel!Spec
=============================================================================
