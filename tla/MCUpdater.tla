------------------------------ MODULE MCUpdater ------------------------------
(* Versions of the tree, each with an AGNOS of its own. *)
EXTENDS UpdaterProps

MCOSOf == [v \in Versions |-> IF v = "release" THEN 1 ELSE IF v = "staging" THEN 2 ELSE 3]
=============================================================================
