------------------------------ MODULE MCDaemon ------------------------------
(* Small instances of the daemons: two pods joined by one virtual link, or *)
(* one pod with a link to a physical host and a macvlan link.              *)
EXTENDS DaemonSections, TLC

CONSTANTS n1, n2, p1, p2, l1, l2, l3, host

OneLink == [p \in Pods |-> <<l1>>]

OnePeer == [p \in Pods |-> [l \in Links |-> IF p = p1 THEN p2 ELSE p1]]

OwnLinks == [p \in Pods |-> <<l2, l3>>]

OwnPeers == [p \in Pods |-> [l \in Links |-> IF l = l2 THEN host ELSE Localhost]]

AnyNode == [p \in Pods |-> Nodes]

OwnNode == [p \in Pods |-> IF p = p1 THEN {n1} ELSE {n2}]

OneStart == [p \in Pods |-> 1]

\* p1 is restarted, on the same node or on the other.
RestartOne == [p \in Pods |-> IF p = p1 THEN 2 ELSE 1]

\* Bound: the search stops where a store is more than two versions behind.
TwoBehind == \A n \in Nodes, p \in Pods : Version(p) <= store[n][p].rv + 2

\* The two pods are alike, and so are the nodes.
Symmetry == Permutations(Pods) \cup Permutations(Nodes)

NodeSymmetry == Permutations(Nodes)
=============================================================================
