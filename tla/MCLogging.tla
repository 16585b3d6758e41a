----------------------------- MODULE MCLogging -----------------------------
(* Logging for TLC: threads and sinks are interchangeable. *)
EXTENDS Logging, TLC

ActorSymmetry == Permutations(Threads) \cup Permutations(Sinks)
=============================================================================
