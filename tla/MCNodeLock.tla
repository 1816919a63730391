----------------------------- MODULE MCNodeLock -----------------------------
(* Small instances of NodeLock for TLC. *)
EXTENDS NodeLock, TLC

CONSTANTS app, playback, sensor, mock

\* The threads are interchangeable.
ThreadSymmetry == Permutations({app, playback})
=============================================================================
