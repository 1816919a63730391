--------------------------- MODULE MCNodeGraph ---------------------------
(* Small instances of NodeGraph for TLC. *)
EXTENDS NodeGraph, TLC

CONSTANTS i1, i2, i3, depth, image, player

\* Every info has a type of its own, so default names never clash.
DistinctTypes == (i1 :> depth) @@ (i2 :> image) @@ (i3 :> player)

\* The application may name i3 itself, with a name no default can produce.
NoUserName == [i \in Infos |-> {}]
OneUserName == [i \in Infos |-> IF i = i3 THEN {<<player, 2>>} ELSE {}]
==========================================================================
