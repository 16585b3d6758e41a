----------------------------- MODULE LogChannel -----------------------------
(* What a LogAsynchronousSink (gawo/io/log.hpp) promises the loggers above it: *)
(* a record handed over is kept and reaches the backend at most once.  Queued  *)
(* records reach it in the order they were accepted; a record submitted while  *)
(* the sink is synchronous is written at once and may overtake the queue.      *)
(* What is still queued when the sink is destroyed is given up.                *)
EXTENDS Sequences, Functions

CONSTANT Records

VARIABLES pending,    \* accepted, not yet with the backend
          delivered,  \* what the backend was given, in order
          open        \* FALSE once the sink is destroyed

chanVars == <<pending, delivered, open>>

Fresh(r) == r \notin Range(pending) \cup Range(delivered)

Init == pending = <<>> /\ delivered = <<>> /\ open = TRUE

Accept(r) == /\ open /\ Fresh(r)
             /\ pending' = Append(pending, r)
             /\ UNCHANGED <<delivered, open>>

DeliverNow(r) == /\ open /\ Fresh(r)
                 /\ delivered' = Append(delivered, r)
                 /\ UNCHANGED <<pending, open>>

Deliver == /\ open /\ pending # <<>>
           /\ delivered' = Append(delivered, Head(pending))
           /\ pending' = Tail(pending)
           /\ UNCHANGED open

Close == /\ open
         /\ open' = FALSE
         /\ pending' = <<>>
         /\ UNCHANGED delivered

Next == \/ \E r \in Records : Accept(r) \/ DeliverNow(r)
        \/ Deliver
        \/ Close

Spec == Init /\ [][Next]_chanVars
=============================================================================
