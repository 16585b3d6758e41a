---------------------------- MODULE MCAsyncSink ----------------------------
(* AsyncSink for TLC: two threads that log, two records each. *)
EXTENDS AsyncSink
=============================================================================
