---------------------------- MODULE MCEvolution ----------------------------
(* Instances of Evolution for TLC. *)
EXTENDS Evolution
=============================================================================
