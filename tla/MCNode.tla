------------------------------- MODULE MCNode -------------------------------
(* A node with a pod that opens connections to another pod of the node and *)
(* to a cluster address, behind which are that pod and one elsewhere.      *)
EXTENDS Node

CONSTANTS a, b, x, v

MCHere == {a, b}
MCAway == {x}
MCDialled == {b, v}
MCClients == {a}
MCShapeable == {<<a, b>>}
=============================================================================
