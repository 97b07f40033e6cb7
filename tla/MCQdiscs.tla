------------------------------ MODULE MCQdiscs ------------------------------
(***************************************************************************)
(* The three handlers that set qdiscs, on one interface.                   *)
(***************************************************************************)
EXTENDS Qdiscs

Handlers == {"addLink", "Update", "UpdateLinks"}
Mutexed == {"addLink", "Update"}
WithBypass == {"addLink", "UpdateLinks"}
=============================================================================
