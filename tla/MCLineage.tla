----------------------------- MODULE MCLineage ------------------------------
(* Instances of Lineage for TLC. *)
EXTENDS Lineage
=============================================================================
