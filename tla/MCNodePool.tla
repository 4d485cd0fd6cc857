----------------------------- MODULE MCNodePool -----------------------------
(* Instances of NodePool for TLC. *)
EXTENDS NodePool

CONSTANTS white, black
=============================================================================
