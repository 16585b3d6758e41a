------------------------------ MODULE Logging ------------------------------
(* Loggers, the root logger and the sinks' filters (gawo/io/log.hpp,          *)
(* src/gawo/io/log.cpp): a record passes the level of its logger, that of the *)
(* root logger and that of every sink, while other threads change the levels. *)
(* log_direct of a sink is one step here; AsyncSink looks inside it.          *)
EXTENDS Integers, Sequences, Functions

CONSTANTS Threads,
          Nobody,
          Loggers, Root,   \* the loggers that exist, the root logger among them
          Sinks,
          Levels, LogAll,  \* the levels, and the lowest of them
          Detached,        \* shown by a sink that is not attached
          MaxCalls,        \* bound on the calls of one thread
          MaxChanges       \* bound on the calls of set_level

ASSUME NamesAssumption == /\ Nobody \notin Threads
                          /\ Root \in Loggers
                          /\ Loggers \cap Sinks = {}
ASSUME NumbersAssumption == /\ Levels \subseteq Int /\ LogAll \in Levels /\ Detached \notin Levels
                            /\ MaxCalls \in Nat /\ MaxChanges \in Nat

VARIABLES
  m_level,     \* of the loggers and the sinks
  m_sinks,     \* the sinks attached to the root logger, in order
  root_mutex,  \* owner of RootLogger::m_mutex
  pc, call,    \* where a thread is in log() and what it logs
  at,          \* the sink whose turn it is in log_submit
  sent,        \* sent[t]: calls of log() by thread t
  accepted,    \* accepted[s]: the records given to s->log_direct, in order
  changes,
  seen         \* the levels the filters on a record's way had during the call

vars == <<m_level, m_sinks, root_mutex, pc, call, at, sent, accepted, changes, seen>>

Filters == Loggers \cup Sinks
Record(t, n) == <<t, n>>
Records == Threads \X (1..MaxCalls)

TypeOK ==
  /\ m_level \in [Filters -> Levels]
  /\ m_sinks \in Seq(Sinks)
  /\ root_mutex \in Threads \cup {Nobody}
  /\ pc \in [Threads -> {"idle", "filter", "submit", "sinks", "direct"}]
  /\ call \in [Threads -> [logger : Loggers, level : Levels]]
  /\ at \in [Threads -> Nat \ {0}]
  /\ sent \in [Threads -> 0..MaxCalls]
  /\ accepted \in [Sinks -> Seq(Records)]
  /\ changes \in 0..MaxChanges
  /\ seen \in [Threads -> [Filters -> SUBSET (Levels \cup {Detached})]]

\* What a filter shows to a record that passes it now.
Shown(x) == IF x \in Sinks \ Range(m_sinks) THEN Detached ELSE m_level[x]

\* What a thread that is not in log() logs and has seen.
NoCall == [logger |-> Root, level |-> LogAll]
Unseen == [x \in Filters |-> {}]

\* The constructors let everything pass; a child inherits its parent's level.
Init ==
  /\ m_level = [x \in Filters |-> LogAll]
  /\ m_sinks = <<>>
  /\ root_mutex = Nobody
  /\ pc = [t \in Threads |-> "idle"]
  /\ call = [t \in Threads |-> NoCall]
  /\ at = [t \in Threads |-> 1]
  /\ sent = [t \in Threads |-> 0]
  /\ accepted = [s \in Sinks |-> <<>>]
  /\ changes = 0
  /\ seen = [t \in Threads |-> Unseen]

Goto(t, where) == /\ pc' = [pc EXCEPT ![t] = where]
                  /\ UNCHANGED <<call, seen>>

Leave(t) == /\ pc' = [pc EXCEPT ![t] = "idle"]
            /\ call' = [call EXCEPT ![t] = NoCall]
            /\ seen' = [seen EXCEPT ![t] = Unseen]

-----------------------------------------------------------------------------
(* Logger::log and Logger::logf *)

Call(t, logger, level) ==
  /\ pc[t] = "idle"
  /\ sent[t] < MaxCalls
  /\ sent' = [sent EXCEPT ![t] = @ + 1]
  /\ call' = [call EXCEPT ![t] = [logger |-> logger, level |-> level]]
  /\ seen' = [seen EXCEPT ![t] = [x \in Filters |->
                                     IF x \in Sinks \cup {logger, Root} THEN {Shown(x)} ELSE {}]]
  /\ pc' = [pc EXCEPT ![t] = "filter"]
  /\ UNCHANGED <<m_level, m_sinks, root_mutex, at, accepted, changes>>

\* Mutant: a record of exactly the filter's level is dropped.
BelowOrAt(t, x) == call[t].level <= m_level[x]

Below(t, x) == call[t].level < m_level[x]

Filter(t) ==
  /\ pc[t] = "filter"
  /\ IF Below(t, call[t].logger) THEN Leave(t) ELSE Goto(t, "submit")
  /\ UNCHANGED <<m_level, m_sinks, root_mutex, at, sent, accepted, changes>>

-----------------------------------------------------------------------------
(* RootLogger::log_submit *)

\* Mutant: the root logger's mutex is not held while the sinks are called.
SubmitUnlocked(t) ==
  /\ pc[t] = "submit" /\ root_mutex = Nobody
  /\ IF Below(t, Root) THEN Leave(t) ELSE Goto(t, "sinks")
  /\ UNCHANGED <<m_level, m_sinks, root_mutex, at, sent, accepted, changes>>

\* Mutant: a record below the level leaves the function with the mutex locked.
SubmitLeavesLocked(t) ==
  /\ pc[t] = "submit" /\ root_mutex = Nobody
  /\ IF Below(t, Root) THEN Leave(t) ELSE Goto(t, "sinks")
  /\ root_mutex' = t
  /\ UNCHANGED <<m_level, m_sinks, at, sent, accepted, changes>>

\* The root logger's own level, once more for a record logged through it; the
\* mutex does not keep set_level away, which takes Logger::m_mutex.
Submit(t) ==
  /\ pc[t] = "submit" /\ root_mutex = Nobody
  /\ IF Below(t, Root)
       THEN Leave(t) /\ UNCHANGED root_mutex
       ELSE Goto(t, "sinks") /\ root_mutex' = t
  /\ UNCHANGED <<m_level, m_sinks, at, sent, accepted, changes>>

AtSink(t) == m_sinks[at[t]]

\* LogSink::log of the next sink: the sink's level is read under its own mutex.
SinkFilter(t) ==
  /\ pc[t] = "sinks" /\ at[t] <= Len(m_sinks)
  /\ IF Below(t, AtSink(t))
       THEN Goto(t, "sinks") /\ at' = [at EXCEPT ![t] = @ + 1]
       ELSE Goto(t, "direct") /\ UNCHANGED at
  /\ UNCHANGED <<m_level, m_sinks, root_mutex, sent, accepted, changes>>

Current(t) == Record(t, sent[t])

SinkDirect(t) ==
  /\ pc[t] = "direct"
  /\ accepted' = [accepted EXCEPT ![AtSink(t)] = Append(@, Current(t))]
  /\ at' = [at EXCEPT ![t] = @ + 1]
  /\ Goto(t, "sinks")
  /\ UNCHANGED <<m_level, m_sinks, root_mutex, sent, changes>>

Return(t) ==
  /\ pc[t] = "sinks" /\ at[t] > Len(m_sinks)
  /\ root_mutex' = Nobody
  /\ at' = [at EXCEPT ![t] = 1]
  /\ Leave(t)
  /\ UNCHANGED <<m_level, m_sinks, sent, accepted, changes>>

-----------------------------------------------------------------------------
(* set_level of a logger or a sink, and attach_sink *)

Noticed(x, v) == [t \in Threads |-> IF seen[t][x] = {} THEN seen[t]
                                    ELSE [seen[t] EXCEPT ![x] = @ \cup {v}]]

\* To set the level that x has already changes nothing.
SetLevel(x, level) ==
  /\ level # m_level[x]
  /\ changes < MaxChanges
  /\ changes' = changes + 1
  /\ m_level' = [m_level EXCEPT ![x] = level]
  /\ seen' = Noticed(x, IF x \in Loggers \/ x \in Range(m_sinks) THEN level ELSE Detached)
  /\ UNCHANGED <<m_sinks, root_mutex, pc, call, at, sent, accepted>>

\* Without a lock: to attach while log_submit runs over m_sinks is undefined,
\* and left to the caller to avoid.
AttachSink(s) ==
  /\ s \notin Range(m_sinks)
  /\ root_mutex = Nobody
  /\ m_sinks' = Append(m_sinks, s)
  /\ seen' = Noticed(s, m_level[s])
  /\ UNCHANGED <<m_level, root_mutex, pc, call, at, sent, accepted, changes>>

-----------------------------------------------------------------------------
Log(t) == Filter(t) \/ Submit(t) \/ SinkFilter(t) \/ SinkDirect(t) \/ Return(t)

Next ==
  \/ \E t \in Threads : \/ Log(t)
                        \/ \E l \in Loggers, v \in Levels : Call(t, l, v)
  \/ \E x \in Filters, v \in Levels : SetLevel(x, v)
  \/ \E s \in Sinks : AttachSink(s)

Spec == Init /\ [][Next]_vars

-----------------------------------------------------------------------------
(* Properties *)

\* RootLogger::m_mutex is exclusive, and held for the whole loop over the sinks
\* and never longer, whichever filter ends the call.
MutexHeldInside ==
  {t \in Threads : pc[t] \in {"sinks", "direct"}} = {root_mutex} \ {Nobody}

\* The variables have their types, and the mutex the owner it should have.
LoggingTypeOK == TypeOK /\ MutexHeldInside

Before(s, r, q) == \E i, j \in DOMAIN accepted[s] :
                     i < j /\ accepted[s][i] = r /\ accepted[s][j] = q

\* Any two sinks get the records they both accept in the same order, each of
\* them once, however the threads that log interleave.
SinksAgree ==
  /\ \A s \in Sinks : IsInjective(accepted[s])
  /\ \A s, u \in Sinks : \A r, q \in Records : Before(s, r, q) => ~Before(u, q, r)

FiltersOf(t, s) == {call[t].logger, Root, s}

\* Every filter of a record had a level, while it was logged, that admits it.
Admitted(t, s) == \A x \in FiltersOf(t, s) :
                    \E l \in seen[t][x] \ {Detached} : l <= call[t].level

\* Some filter had a level that refuses the record, or the sink was not there.
Refused(t, s) == \E x \in FiltersOf(t, s) :
                   \/ Detached \in seen[t][x]
                   \/ \E l \in seen[t][x] \ {Detached} : call[t].level < l

\* A record reaches a sink only if every level on its way admitted it at some
\* moment of the call, and misses a sink only if some level refused it then:
\* set_level takes effect between two calls, whatever it races with.
Explained ==
  [][\A t \in Threads : pc[t] # "idle" /\ pc'[t] = "idle" =>
       \A s \in Sinks : IF Current(t) \in Range(accepted[s]) THEN Admitted(t, s)
                                                            ELSE Refused(t, s)]_vars
=============================================================================
