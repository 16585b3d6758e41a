----------------------------- MODULE LoggerTree -----------------------------
(* The tree of loggers (src/gawo/io/log.cpp): threads look loggers up by path *)
(* and create those that are missing, while levels change.  get_child finds   *)
(* and inserts without a lock; of the outcomes such a race can have the model *)
(* keeps those in which each access to m_children is as if alone.  A thread   *)
(* that goes on with a logger that was freed under it is not followed.        *)
EXTENDS Integers, Sequences

CONSTANTS Threads,
          Names, RootName,   \* names of loggers; "root" is that of the root logger
          Paths,             \* what get_logger is asked for, split at the dots
          Levels, LogAll,
          Undefined,         \* what a new logger's m_level holds
          Null,
          MaxLoggers,        \* bound on the loggers there ever are besides the root
          MaxCalls,          \* bound on the calls of one thread
          MaxChanges         \* bound on the calls of set_level

ASSUME TreeAssumption ==
  /\ Paths \subseteq Seq(Names)
  /\ LogAll \in Levels /\ Undefined \notin Levels
  /\ Null \notin Nat
  /\ MaxLoggers \in Nat /\ MaxCalls \in Nat /\ MaxChanges \in Nat

Root == 0
Loggers == 0..MaxLoggers

VARIABLES
  memory,      \* whether a logger is unused, alive or freed
  m_fullpath, m_level,
  m_children,  \* the logger of a name, or Null
  pc,
  curr, remainder,  \* of get_logger: where it is and the names still to follow
  made,        \* new_logger of get_child
  result,      \* the logger a thread's last call returned
  calls, changes,
  asked,       \* history: the path from the root the call asks for
  rivalled     \* history: another thread inserted the name a call was creating

tree == <<memory, m_fullpath, m_level, m_children>>
history == <<asked, rivalled>>
vars == <<tree, pc, curr, remainder, made, result, calls, changes, history>>

TypeOK ==
  /\ memory \in [Loggers -> {"unused", "alive", "freed"}]
  /\ m_fullpath \in [Loggers -> Seq(Names \cup {RootName})]
  /\ m_level \in [Loggers -> Levels \cup {Undefined}]
  /\ m_children \in [Loggers -> [Names -> Loggers \cup {Null}]]
  /\ pc \in [Threads -> {"idle", "find", "construct", "inherit", "emplace", "lost"}]
  /\ curr \in [Threads -> Loggers]
  /\ remainder \in [Threads -> Seq(Names)]
  /\ \A t \in Threads : pc[t] \in {"find", "construct", "inherit", "emplace"} => remainder[t] # <<>>
  /\ made \in [Threads -> Loggers \cup {Null}]
  /\ result \in [Threads -> Loggers]
  /\ calls \in [Threads -> 0..MaxCalls]
  /\ changes \in 0..MaxChanges
  /\ asked \in [Threads -> Seq(Names)]
  /\ rivalled \in [Threads -> BOOLEAN]

\* Everybody starts with the root logger, logging().
Init ==
  /\ memory = [l \in Loggers |-> IF l = Root THEN "alive" ELSE "unused"]
  /\ m_fullpath = [l \in Loggers |-> IF l = Root THEN <<RootName>> ELSE <<>>]
  /\ m_level = [l \in Loggers |-> IF l = Root THEN LogAll ELSE Undefined]
  /\ m_children = [l \in Loggers |-> [n \in Names |-> Null]]
  /\ pc = [t \in Threads |-> "idle"]
  /\ curr = [t \in Threads |-> Root]
  /\ remainder = [t \in Threads |-> <<>>]
  /\ made = [t \in Threads |-> Null]
  /\ result = [t \in Threads |-> Root]
  /\ calls = [t \in Threads |-> 0]
  /\ changes = 0
  /\ asked = [t \in Threads |-> <<>>]
  /\ rivalled = [t \in Threads |-> FALSE]

Name(t) == Head(remainder[t])

-----------------------------------------------------------------------------
(* get_logger and get_child *)

\* A call that starts at the logger `from`, which lies at `base`.
Begin(t, from, base, path) ==
  /\ pc[t] = "idle"
  /\ calls[t] < MaxCalls
  /\ calls' = [calls EXCEPT ![t] = @ + 1]
  /\ asked' = [asked EXCEPT ![t] = base \o path]
  /\ rivalled' = [rivalled EXCEPT ![t] = FALSE]
  /\ IF path = <<>>
       THEN result' = [result EXCEPT ![t] = from] /\ UNCHANGED <<pc, curr, remainder>>
       ELSE /\ pc' = [pc EXCEPT ![t] = "find"]
            /\ curr' = [curr EXCEPT ![t] = from]
            /\ remainder' = [remainder EXCEPT ![t] = path]
            /\ UNCHANGED result
  /\ UNCHANGED <<tree, made, changes>>

\* The empty path is the root logger.
GetLogger(t, path) == Begin(t, Root, <<>>, path)

\* get_child on the logger a thread has.
GetChild(t, name) ==
  /\ memory[result[t]] = "alive"
  /\ Begin(t, result[t], asked[t], <<name>>)

\* Mutant: get_logger looks the same name up again and again.
ArriveAgain(t, logger, alive) ==
  IF Len(remainder[t]) = 1
    THEN /\ pc' = [pc EXCEPT ![t] = "idle"]
         /\ result' = [result EXCEPT ![t] = logger]
         /\ UNCHANGED <<curr, remainder>>
    ELSE /\ pc' = [pc EXCEPT ![t] = "find"]
         /\ UNCHANGED <<curr, remainder, result>>

\* Mutant: get_logger goes on although no name is left.
ArriveOnward(t, logger, alive) ==
  /\ curr' = [curr EXCEPT ![t] = logger]
  /\ remainder' = [remainder EXCEPT ![t] = Tail(@)]
  /\ pc' = [pc EXCEPT ![t] = IF alive THEN "find" ELSE "lost"]
  /\ UNCHANGED result

\* get_child returns: to the caller, or to get_logger which follows the next
\* name, and is lost when the logger has been freed.
Arrive(t, logger, alive) ==
  /\ curr' = [curr EXCEPT ![t] = logger]
  /\ remainder' = [remainder EXCEPT ![t] = Tail(@)]
  /\ IF Tail(remainder[t]) = <<>>
       THEN /\ pc' = [pc EXCEPT ![t] = "idle"]
            /\ result' = [result EXCEPT ![t] = logger]
       ELSE /\ pc' = [pc EXCEPT ![t] = IF alive THEN "find" ELSE "lost"]
            /\ UNCHANGED result

Find(t) ==
  /\ pc[t] = "find"
  /\ IF m_children[curr[t]][Name(t)] # Null
       THEN Arrive(t, m_children[curr[t]][Name(t)], TRUE)
       ELSE /\ pc' = [pc EXCEPT ![t] = "construct"]
            /\ UNCHANGED <<curr, remainder, result>>
  /\ UNCHANGED <<tree, made, calls, changes, history>>

\* Mutant: a child's path is its name, below every logger.
NameOnly(parent, name) == <<name>>

\* The root logger's children do not carry its name in front of theirs.
ChildFullpath(parent, name) ==
  IF parent = Root THEN <<name>> ELSE Append(m_fullpath[parent], name)

Construct(t) ==
  /\ pc[t] = "construct"
  /\ \E l \in Loggers :
       /\ memory[l] = "unused"
       /\ \A k \in Loggers : memory[k] = "unused" => l <= k
       /\ made' = [made EXCEPT ![t] = l]
       /\ memory' = [memory EXCEPT ![l] = "alive"]
       /\ m_fullpath' = [m_fullpath EXCEPT ![l] = ChildFullpath(curr[t], Name(t))]
  /\ pc' = [pc EXCEPT ![t] = "inherit"]
  /\ UNCHANGED <<m_level, m_children, curr, remainder, result, calls, changes, history>>

\* Mutant: the new logger keeps the level its memory happens to hold.
InheritNothing(t) ==
  /\ pc[t] = "inherit"
  /\ pc' = [pc EXCEPT ![t] = "emplace"]
  /\ UNCHANGED <<tree, curr, remainder, made, result, calls, changes, history>>

\* The parent's level is read without its mutex.
Inherit(t) ==
  /\ pc[t] = "inherit"
  /\ m_level' = [m_level EXCEPT ![made[t]] = m_level[curr[t]]]
  /\ pc' = [pc EXCEPT ![t] = "emplace"]
  /\ UNCHANGED <<memory, m_fullpath, m_children, curr, remainder, made, result,
                 calls, changes, history>>

\* Those that have not found the name t inserts and will insert it too.
Rivals(t) == {u \in Threads \ {t} : /\ pc[u] \in {"construct", "inherit", "emplace"}
                                   /\ curr[u] = curr[t] /\ Name(u) = Name(t)}

\* Mutant: an existing logger of that name is replaced, and freed.
EmplaceReplaces(t) ==
  /\ pc[t] = "emplace"
  /\ LET old == m_children[curr[t]][Name(t)]
     IN memory' = IF old = Null THEN memory ELSE [memory EXCEPT ![old] = "freed"]
  /\ m_children' = [m_children EXCEPT ![curr[t]][Name(t)] = made[t]]
  /\ rivalled' = [u \in Threads |-> rivalled[u] \/ u \in Rivals(t)]
  /\ Arrive(t, made[t], TRUE)
  /\ made' = [made EXCEPT ![t] = Null]
  /\ UNCHANGED <<m_fullpath, m_level, calls, changes, asked>>

\* emplace keeps an entry that exists and frees the logger it was given; the
\* reference to the new logger is returned all the same.
Emplace(t) ==
  /\ pc[t] = "emplace"
  /\ IF m_children[curr[t]][Name(t)] = Null
       THEN /\ m_children' = [m_children EXCEPT ![curr[t]][Name(t)] = made[t]]
            /\ rivalled' = [u \in Threads |-> rivalled[u] \/ u \in Rivals(t)]
            /\ UNCHANGED memory
            /\ Arrive(t, made[t], TRUE)
       ELSE /\ memory' = [memory EXCEPT ![made[t]] = "freed"]
            /\ UNCHANGED <<m_children, rivalled>>
            /\ Arrive(t, made[t], FALSE)
  /\ made' = [made EXCEPT ![t] = Null]
  /\ UNCHANGED <<m_fullpath, m_level, calls, changes, asked>>

-----------------------------------------------------------------------------

SetLevel(t, level) ==
  /\ pc[t] = "idle"
  /\ memory[result[t]] = "alive"
  /\ changes < MaxChanges
  /\ changes' = changes + 1
  /\ m_level' = [m_level EXCEPT ![result[t]] = level]
  /\ UNCHANGED <<memory, m_fullpath, m_children, pc, curr, remainder, made, result,
                 calls, history>>

Step(t) == Find(t) \/ Construct(t) \/ Inherit(t) \/ Emplace(t)

Next == \E t \in Threads :
  \/ \E path \in Paths : GetLogger(t, path)
  \/ \E name \in Names : GetChild(t, name)
  \/ Step(t)
  \/ \E level \in Levels : SetLevel(t, level)

Spec == Init /\ [][Next]_vars

\* Every thread inside a call goes on with it.
FairSpec == Spec /\ \A t \in Threads : WF_vars(Step(t))

-----------------------------------------------------------------------------
(* Properties *)

\* l has been inserted below its parent.
Registered(l) == l = Root \/ \E p \in Loggers, n \in Names : m_children[p][n] = l

\* Whatever threads race, the tree is one: a logger in it is alive, has a level,
\* the path of its place, and one place only; a logger being made is in no place.
TreeOK ==
  /\ \A p \in Loggers, n \in Names : m_children[p][n] # Null =>
       LET l == m_children[p][n]
       IN /\ l # Root
          /\ memory[l] = "alive" /\ memory[p] = "alive"
          /\ m_level[l] # Undefined
          /\ m_fullpath[l] = ChildFullpath(p, n)
          /\ \A q \in Loggers, m \in Names : m_children[q][m] = l => q = p /\ m = n
  /\ \A t \in Threads : made[t] # Null => ~Registered(made[t]) /\ memory[made[t]] = "alive"

\* A logger, once in the tree, is never replaced there: the references that
\* get_logger and get_child returned stay good.
RegisteredStay ==
  [][\A p \in Loggers, n \in Names :
       m_children[p][n] # Null => m_children'[p][n] = m_children[p][n]]_vars

\* Where a logger says it is, seen from the root.
PathOf(l) == IF l = Root THEN <<>> ELSE m_fullpath[l]

\* A call returns the logger in the tree that has the path asked for, unless
\* another thread inserted a name while the call was creating it: then the
\* reference may be to a logger that is already freed.
AnswerIsRegistered ==
  \A t \in Threads : pc[t] = "idle" =>
    \/ /\ Registered(result[t]) /\ memory[result[t]] = "alive"
       /\ PathOf(result[t]) = asked[t]
    \/ memory[result[t]] = "freed" /\ rivalled[t]

\* get_logger and get_child return, or run into a logger freed by a race.
CallsReturn == \A t \in Threads : pc[t] = "find" ~> pc[t] \in {"idle", "lost"}
=============================================================================
