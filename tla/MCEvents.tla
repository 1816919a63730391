------------------------------- MODULE MCEvents -------------------------------
(* Small instances of Events for TLC. *)
EXTENDS Events

CONSTANTS t1, t2
=============================================================================
