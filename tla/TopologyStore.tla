--------------------------- MODULE TopologyStore ---------------------------
(***************************************************************************)
(* The Topology objects of the cluster as the daemons see them: one object *)
(* per pod in the API server, with the version the optimistic concurrency  *)
(* of Kubernetes compares, and one informer store per node that follows it *)
(* with a delay.                                                           *)
(*                                                                         *)
(* Of an object only the fields the daemons write are kept: the node of    *)
(* Status.SrcIP, the generation of the network namespace of Status.NetNs   *)
(* (0 is the empty string) and how often the finalizer is listed.          *)
(***************************************************************************)
EXTENDS Naturals, Sequences

CONSTANTS
  Nodes,      \* the nodes, each with one daemon
  Pods,       \* the pods that have a Topology object
  NoNode,     \* the empty SrcIP
  Synced      \* TRUE: the informer of every daemon has done its first list

ASSUME StoreAssumption ==
  /\ NoNode \notin Nodes
  /\ Synced \in BOOLEAN

VARIABLES
  hist,       \* hist[p]: the versions of p's object, oldest first
  store       \* store[n][p]: the object in the informer store of node n

storeVars == <<hist, store>>

Object == [node : Nodes \cup {NoNode}, gen : Nat, fin : Nat]

Unset == [node |-> NoNode, gen |-> 0, fin |-> 0]

\* alive := pod.SrcIp != "" && pod.NetNs != ""
Alive(o) == o.node # NoNode /\ o.gen # 0

Version(p) == Len(hist[p])

Current(p) == hist[p][Len(hist[p])]

InStore(n, p) == store[n][p].rv # 0

\* What getPod returns on node n: the object of the informer store if the store
\* has it, otherwise a fresh read of the API server.
getPod(n, p) ==
  IF InStore(n, p) THEN store[n][p] ELSE [rv |-> Version(p), obj |-> Current(p)]

\* Mutant: getPod returns a deep copy.
AssignToCopy(n, p, o) == UNCHANGED store

\* getPod returns a pointer into the store, so that assigning to the topology
\* changes the cached object; an object read from the API server is private.
AssignInPlace(n, p, o) ==
  store' = IF InStore(n, p) THEN [store EXCEPT ![n][p].obj = o] ELSE store

\* The API server accepts a write: a new version, unless nothing changes.
Accept(p, o) ==
  hist' = IF o = Current(p) THEN hist ELSE [hist EXCEPT ![p] = Append(@, o)]

\* A write of a part of the object that is not modelled (Status.Links, written
\* by the controller): a new version with the same fields.
TouchByController(p) ==
  /\ hist' = [hist EXCEPT ![p] = Append(@, Current(p))]
  /\ UNCHANGED store

\* The informer of node n puts a later version in its store: the next watch
\* event, or a list that skips some.
Deliver(n, p) ==
  \E v \in (store[n][p].rv + 1) .. Version(p) :
    /\ store' = [store EXCEPT ![n][p] = [rv |-> v, obj |-> hist[p][v]]]
    /\ UNCHANGED hist

StoreInit ==
  /\ hist = [p \in Pods |-> <<Unset>>]
  /\ store = [n \in Nodes |->
                [p \in Pods |-> [rv |-> IF Synced THEN 1 ELSE 0, obj |-> Unset]]]

StoreTypeOK ==
  /\ hist \in [Pods -> Seq(Object) \ {<<>>}]
  /\ store \in [Nodes -> [Pods -> [rv : Nat, obj : Object]]]
=============================================================================
