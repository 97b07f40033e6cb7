--------------------------- MODULE MCDaemonCrash ---------------------------
(* The small instances of MCDaemon, with daemons that end, and with stores *)
(* and pods bounded as follows.                                            *)
EXTENDS DaemonCrash, MCDaemon

CONSTANT MaxLag   \* bound: versions an informer store may be behind

ASSUME LagAssumption == MaxLag \in Nat

\* Bound: a store that has fallen behind by more than MaxLag versions is served
\* before anything else happens.  One that has nothing yet may stay so.
Prompt ==
  \A n \in Nodes, p \in Pods : InStore(n, p) => Version(p) <= store[n][p].rv + MaxLag

\* Bound: a pod that is up is left alone; one whose call has failed is destroyed
\* and started again.
KeepUp == \A p \in Pods : sbx[p] = "up" => sbx'[p] = "up"

BoundedNext ==
  \/ Prompt /\ CrashNext /\ KeepUp
  \/ ~Prompt /\ (\E n \in Nodes, p \in Pods : Watch(n, p)) /\ UNCHANGED crashVars

BoundedSpec == CrashInit /\ [][BoundedNext]_allVars
=============================================================================
