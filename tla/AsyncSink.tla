----------------------------- MODULE AsyncSink -----------------------------
(* LogAsynchronousSink (gawo/io/log.hpp, src/gawo/io/log.cpp): threads that   *)
(* log push records onto a queue under m_state_mutex and signal m_wakeup_cv;  *)
(* the sink's own thread drains the queue to the backend without the mutex.   *)
(* Each step below is what a thread does between two points where another     *)
(* thread can see or change the shared state.                                 *)
EXTENDS Integers, Sequences, Functions, FiniteSets

CONSTANTS Producers,    \* threads that call log_direct
          Worker,       \* the thread that runs thread_impl
          Nobody,       \* owner of a mutex that is free
          MaxRecords,   \* bound on the records of one producer
          MaxSwitches,  \* bound on calls of set_synchronous
          MaxSpurious   \* bound on wakeups nobody asked for

ASSUME ProcessAssumption == Worker \notin Producers /\ Nobody \notin Producers \cup {Worker}
ASSUME BoundAssumption == MaxRecords \in Nat /\ MaxSwitches \in Nat /\ MaxSpurious \in Nat

VARIABLES
  mutex,          \* owner of m_state_mutex
  m_synchronous,
  m_terminated,
  m_log_queue,
  buffer,         \* the worker's local buffer: what it still has to write
  written,        \* the records given to m_backend, in order
  sent,           \* sent[p]: records producer p has submitted
  pc,             \* where each producer is in log_direct
  wpc,            \* where the worker is in thread_impl
  dpc,            \* where the destructor is
  switches, spurious,
  direct          \* history: the records that their own threads gave to m_backend

vars == <<mutex, m_synchronous, m_terminated, m_log_queue, buffer, written,
          sent, pc, wpc, dpc, switches, spurious, direct>>

Record(p, n) == <<p, n>>
Records == Producers \X (1..MaxRecords)

TypeOK ==
  /\ mutex \in Producers \cup {Worker, Nobody}
  /\ m_synchronous \in BOOLEAN
  /\ m_terminated \in BOOLEAN
  /\ m_log_queue \in Seq(Records)
  /\ buffer \in Seq(Records)
  /\ written \in Seq(Records)
  /\ sent \in [Producers -> 0..MaxRecords]
  /\ pc \in [Producers -> {"idle", "lock", "backend", "notify"}]
  /\ wpc \in {"lock", "check", "wait", "waiting", "woken", "backend", "exit"}
  /\ dpc \in {"none", "notify", "join", "done"}
  /\ switches \in 0..MaxSwitches
  /\ spurious \in 0..MaxSpurious
  /\ direct \subseteq Records

\* The constructor starts the thread and leaves m_synchronous uninitialised.
Init ==
  /\ mutex = Nobody
  /\ m_synchronous \in BOOLEAN
  /\ m_terminated = FALSE
  /\ m_log_queue = <<>> /\ buffer = <<>> /\ written = <<>>
  /\ sent = [p \in Producers |-> 0]
  /\ pc = [p \in Producers |-> "idle"]
  /\ wpc = "lock"
  /\ dpc = "none"
  /\ switches = 0 /\ spurious = 0 /\ direct = {}

\* Mutant: the condition variable is never signalled.
NotifyNobody == UNCHANGED wpc

NotifyAll == wpc' = IF wpc = "waiting" THEN "woken" ELSE wpc

-----------------------------------------------------------------------------
(* log_direct *)

Current(p) == Record(p, sent[p])

\* A sink is not used any more once its destructor has begun.
Call(p) ==
  /\ pc[p] = "idle" /\ dpc = "none"
  /\ sent[p] < MaxRecords
  /\ sent' = [sent EXCEPT ![p] = @ + 1]
  /\ pc' = [pc EXCEPT ![p] = "lock"]
  /\ UNCHANGED <<mutex, m_synchronous, m_terminated, m_log_queue, buffer,
                 written, wpc, dpc, switches, spurious, direct>>

\* Lock, push, unlock at the end of the block.
Enqueue(p) ==
  /\ pc[p] = "lock" /\ mutex = Nobody
  /\ ~m_synchronous
  /\ m_log_queue' = Append(m_log_queue, Current(p))
  /\ pc' = [pc EXCEPT ![p] = "notify"]
  /\ UNCHANGED <<mutex, m_synchronous, m_terminated, buffer, written, sent,
                 wpc, dpc, switches, spurious, direct>>

Notify(p) ==
  /\ pc[p] = "notify"
  /\ NotifyAll
  /\ pc' = [pc EXCEPT ![p] = "idle"]
  /\ UNCHANGED <<mutex, m_synchronous, m_terminated, m_log_queue, buffer,
                 written, sent, dpc, switches, spurious, direct>>

\* Mutant: the mutex is dropped before the backend is called.
EnterBackendUnlocked(p) ==
  /\ pc[p] = "lock" /\ mutex = Nobody
  /\ m_synchronous
  /\ pc' = [pc EXCEPT ![p] = "backend"]
  /\ UNCHANGED <<mutex, m_synchronous, m_terminated, m_log_queue, buffer,
                 written, sent, wpc, dpc, switches, spurious, direct>>

\* In synchronous mode the backend runs on the caller's thread, under the mutex.
EnterBackend(p) ==
  /\ pc[p] = "lock" /\ mutex = Nobody
  /\ m_synchronous
  /\ mutex' = p
  /\ pc' = [pc EXCEPT ![p] = "backend"]
  /\ UNCHANGED <<m_synchronous, m_terminated, m_log_queue, buffer, written,
                 sent, wpc, dpc, switches, spurious, direct>>

\* Mutant: the early return leaves the mutex locked.
KeepLocked == UNCHANGED mutex

LeaveScope == mutex' = Nobody

LeaveBackend(p) ==
  /\ pc[p] = "backend"
  /\ written' = Append(written, Current(p))
  /\ direct' = direct \cup {Current(p)}
  /\ LeaveScope
  /\ pc' = [pc EXCEPT ![p] = "idle"]
  /\ UNCHANGED <<m_synchronous, m_terminated, m_log_queue, buffer, sent,
                 wpc, dpc, switches, spurious>>

-----------------------------------------------------------------------------
(* thread_impl *)

\* At the start, and after every batch.
WorkerLock ==
  /\ wpc = "lock" /\ mutex = Nobody
  /\ mutex' = Worker
  /\ wpc' = "check"
  /\ UNCHANGED <<m_synchronous, m_terminated, m_log_queue, buffer, written,
                 sent, pc, dpc, switches, spurious, direct>>

\* The loop condition; leaving the function unlocks.
WorkerCheck ==
  /\ wpc = "check"
  /\ IF m_terminated
       THEN wpc' = "exit" /\ mutex' = Nobody
       ELSE wpc' = "wait" /\ UNCHANGED mutex
  /\ UNCHANGED <<m_synchronous, m_terminated, m_log_queue, buffer, written,
                 sent, pc, dpc, switches, spurious, direct>>

\* wait() without a predicate: it sleeps whatever the queue holds.
WorkerWait ==
  /\ wpc = "wait"
  /\ wpc' = "waiting"
  /\ mutex' = Nobody
  /\ UNCHANGED <<m_synchronous, m_terminated, m_log_queue, buffer, written,
                 sent, pc, dpc, switches, spurious, direct>>

SpuriousWakeup ==
  /\ wpc = "waiting" /\ spurious < MaxSpurious
  /\ wpc' = "woken"
  /\ spurious' = spurious + 1
  /\ UNCHANGED <<mutex, m_synchronous, m_terminated, m_log_queue, buffer,
                 written, sent, pc, dpc, switches, direct>>

\* Mutant: m_log_queue is not cleared after its records were moved.
TakeQueueUncleared ==
  /\ buffer' = buffer \o m_log_queue
  /\ UNCHANGED m_log_queue

\* Mutant: the records are moved to the front of the buffer one by one.
TakeQueueBackwards ==
  /\ buffer' = [i \in DOMAIN m_log_queue |-> m_log_queue[Len(m_log_queue) + 1 - i]] \o buffer
  /\ m_log_queue' = <<>>

TakeQueue ==
  /\ buffer' = buffer \o m_log_queue
  /\ m_log_queue' = <<>>

\* wait() returns with the mutex: an empty queue continues the loop with the
\* mutex held, otherwise the queue moves to the buffer and the mutex is dropped.
WorkerWake ==
  /\ wpc = "woken" /\ mutex = Nobody
  /\ IF m_log_queue = <<>>
       THEN wpc' = "check" /\ mutex' = Worker /\ UNCHANGED <<buffer, m_log_queue>>
       ELSE /\ wpc' = "backend" /\ UNCHANGED mutex
            /\ TakeQueue
  /\ UNCHANGED <<m_synchronous, m_terminated, written, sent, pc, dpc,
                 switches, spurious, direct>>

\* Mutant: the loop over the batch stops once the sink is being destroyed.
AfterWriteUnlessTerminated ==
  IF m_terminated \/ Tail(buffer) = <<>> THEN "lock" ELSE "backend"

AfterWrite == IF Tail(buffer) = <<>> THEN "lock" ELSE "backend"

WorkerWrite ==
  /\ wpc = "backend"
  /\ written' = Append(written, Head(buffer))
  /\ buffer' = Tail(buffer)
  /\ wpc' = AfterWrite
  /\ UNCHANGED <<mutex, m_synchronous, m_terminated, m_log_queue, sent, pc,
                 dpc, switches, spurious, direct>>

-----------------------------------------------------------------------------
(* The application thread: set_synchronous and the destructor *)

SetSynchronous(b) ==
  /\ dpc = "none" /\ mutex = Nobody
  /\ switches < MaxSwitches
  /\ m_synchronous' = b
  /\ switches' = switches + 1
  /\ UNCHANGED <<mutex, m_terminated, m_log_queue, buffer, written, sent, pc,
                 wpc, dpc, spurious, direct>>

\* The flag is set without the mutex, whatever the worker is doing.
DtorTerminate ==
  /\ dpc = "none"
  /\ \A p \in Producers : pc[p] = "idle"
  /\ m_terminated' = TRUE
  /\ dpc' = "notify"
  /\ UNCHANGED <<mutex, m_synchronous, m_log_queue, buffer, written, sent, pc,
                 wpc, switches, spurious, direct>>

DtorNotify ==
  /\ dpc = "notify"
  /\ NotifyAll
  /\ dpc' = "join"
  /\ UNCHANGED <<mutex, m_synchronous, m_terminated, m_log_queue, buffer,
                 written, sent, pc, switches, spurious, direct>>

DtorJoin ==
  /\ dpc = "join" /\ wpc = "exit"
  /\ dpc' = "done"
  /\ UNCHANGED <<mutex, m_synchronous, m_terminated, m_log_queue, buffer,
                 written, sent, pc, wpc, switches, spurious, direct>>

-----------------------------------------------------------------------------
Submitting(p) == Enqueue(p) \/ Notify(p) \/ EnterBackend(p) \/ LeaveBackend(p)
Working == WorkerLock \/ WorkerCheck \/ WorkerWait \/ WorkerWake \/ WorkerWrite
Destroying == DtorNotify \/ DtorJoin

Next ==
  \/ \E p \in Producers : Call(p) \/ Submitting(p)
  \/ Working \/ SpuriousWakeup
  \/ \E b \in BOOLEAN : SetSynchronous(b)
  \/ DtorTerminate \/ Destroying

Spec == Init /\ [][Next]_vars

\* A thread that can run does run, and the mutex is granted to a thread that
\* waits for it.  Nobody has to log, to switch the mode, to wake the worker
\* without a reason or to destroy the sink.
Fairness == /\ \A p \in Producers : WF_vars(Submitting(p))
            /\ WF_vars(Working)
            /\ WF_vars(Destroying)

FairSpec == Spec /\ Fairness

-----------------------------------------------------------------------------
(* Properties *)

Inside == {p \in Producers : pc[p] = "backend"}
                \cup (IF wpc \in {"check", "wait"} THEN {Worker} ELSE {})

\* m_state_mutex is exclusive: whoever is inside a critical section of
\* log_direct or thread_impl owns it, and an owner is inside one, so no early
\* return or continue leaks it or runs on without it.
MutexHeldInside == Inside = {mutex} \ {Nobody}

\* The variables have their types, and the mutex the owner it should have.
SinkTypeOK == TypeOK /\ MutexHeldInside

\* The mode cannot change under a caller's feet: while a caller of log_direct
\* runs the backend itself the sink is in synchronous mode.
ModeStable == \A p \in Producers : pc[p] = "backend" => m_synchronous

InBackend == {p \in Producers : pc[p] = "backend"}
                \cup (IF wpc = "backend" THEN {Worker} ELSE {})

\* The backend (LogTTYSink writes a line in many pieces) is never run by two
\* callers of log_direct at once, and by a caller and the sink's own thread only
\* after somebody switched the mode.
BackendExclusive == /\ Cardinality(InBackend \ {Worker}) <= 1
                    /\ switches = 0 => Cardinality(InBackend) <= 1

Submitted(p) == IF pc[p] \in {"lock", "backend"} THEN sent[p] - 1 ELSE sent[p]
Submissions == {r \in Records : r[2] <= Submitted(r[1])}

\* Conservation: every record whose hand-over is complete is in exactly one of
\* the queue, the worker's buffer and the backend's output, exactly once, in
\* whatever order modes, batches and notifications interleave.
Conserved ==
  /\ Range(m_log_queue) \cup Range(buffer) \cup Range(written) = Submissions
  /\ IsInjective(m_log_queue) /\ IsInjective(buffer) /\ IsInjective(written)
  /\ Range(m_log_queue) \cap Range(buffer) = {}
  /\ Range(m_log_queue) \cap Range(written) = {}
  /\ Range(buffer) \cap Range(written) = {}

Accepted == written \o buffer \o m_log_queue

\* r may be ahead of q: of one thread's records the later may have overtaken the
\* earlier only because somebody switched the mode, r was written by its own
\* thread and q was queued.
MayPrecede(r, q) ==
  r[1] = q[1] => r[2] < q[2] \/ (switches # 0 /\ r \in direct /\ q \notin direct)

\* A thread's records reach the backend in the order the thread logged them, but
\* for records of a sink switched to synchronous mode: these can overtake what
\* the thread queued before, and nothing else is ever out of order.
ThreadOrder == \A i, j \in DOMAIN Accepted : i < j => MayPrecede(Accepted[i], Accepted[j])

\* The worker never gives up a batch it has taken: it only sleeps, re-checks or
\* exits with an empty buffer, and the sink is destroyed only after it exited.
BatchComplete == /\ wpc # "backend" => buffer = <<>>
                 /\ dpc = "done" => wpc = "exit" /\ buffer = <<>>

\* The sink implements the abstract channel.
Channel == INSTANCE LogChannel WITH
             pending <- IF dpc = "done" THEN <<>> ELSE buffer \o m_log_queue,
             delivered <- written,
             open <- dpc # "done"

ChannelSpec == Channel!Spec

\* log_direct returns: no caller is left waiting for the mutex.
CallsReturn == \A p \in Producers : pc[p] # "idle" ~> pc[p] = "idle"

\* A record whose notification finds the worker asleep is written.
NotifiedIsWritten ==
  \A p \in Producers : \A n \in 1..MaxRecords :
    (pc[p] = "notify" /\ sent[p] = n /\ wpc = "waiting") ~> Record(p, n) \in Range(written)

\* Destroying the sink while its thread sleeps ends the thread and returns.
SleepingSinkCloses == (dpc = "notify" /\ wpc = "waiting") ~> dpc = "done"

\* The destructor of the sink returns (the tests' main returns its result after
\* attaching such a sink to the static RootLogger, which is destroyed on exit).
DestructorReturns == dpc = "notify" ~> dpc = "done"
=============================================================================
