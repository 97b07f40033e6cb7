---------------------------- MODULE MCReconciler ----------------------------
(* Instances of Reconciler for TLC: two interfaces, the links of which may  *)
(* change their identity or their properties.                               *)
EXTENDS Reconciler, TLC

CONSTANTS eth1, eth2, idA, idB, none, slow

E1(i, p) == [intf |-> eth1, id |-> i, prop |-> p]
E2(i, p) == [intf |-> eth2, id |-> i, prop |-> p]

Start == <<E1(idA, none)>>

\* The link reshaped and a link to another node added, the first one
\* replaced by such a link under its name, and all links removed.
Edited == {<<E1(idA, slow), E2(idB, slow)>>, <<E1(idB, slow)>>, Nil}
=============================================================================
