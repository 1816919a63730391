---------------------------- MODULE MCPlayerNode ----------------------------
(* Small instances of PlayerNode for TLC. *)
EXTENDS PlayerNode
=============================================================================
