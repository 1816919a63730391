---------------------------- MODULE MCDataUpdate ----------------------------
(* Small instances of DataUpdate for TLC. *)
EXTENDS DataUpdate, TLC

CONSTANTS depth, user, recorder

\* A user generator that needs the depth generator, and a recorder of both.
MCNeeds == depth :> {} @@ user :> {depth} @@ recorder :> {depth, user}
MCPartner == depth :> user @@ user :> depth
MCRecording == <<<<depth, 1>>, <<user, 2>>, <<depth, 2>>>>
=============================================================================
