----------------------------- MODULE MCRotation -----------------------------
(***************************************************************************)
(* Rotation on small instances.                                            *)
(***************************************************************************)
EXTENDS Rotation

=============================================================================
