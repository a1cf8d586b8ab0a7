------------------------ MODULE MCRuntimeCollection ------------------------
(* Instances of RuntimeCollection for TLC. *)
EXTENDS RuntimeCollection
=============================================================================
