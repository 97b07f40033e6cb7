----------------------------- MODULE MCGrpcWire -----------------------------
(* A small node for TLC: two pods that a link joins, one namespace each.   *)
EXTENDS GrpcWire

CONSTANTS p1, p2

MCPods == {p1, p2}
MCPodOf == [n \in NetNs |-> n]
=============================================================================
