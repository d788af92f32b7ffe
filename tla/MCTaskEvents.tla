---------------------------- MODULE MCTaskEvents ----------------------------
(* Instances of TaskEvents for TLC. *)
EXTENDS TaskEvents

CONSTANTS x, y

(* Two extensions; the second task belongs to the second one. *)
ExtensionsMC == <<x, y>>
OwnerMC == [t \in 1..MaxTasks |-> IF t = 1 THEN x ELSE y]
=============================================================================
