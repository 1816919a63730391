---------------------------- MODULE MCScheduler ----------------------------
(* Small instances of Scheduler for TLC. *)
EXTENDS Scheduler, TLC

CONSTANTS t1, t2, t3

\* The tasks are interchangeable.
TaskSymmetry == Permutations({t1, t2, t3})
============================================================================
