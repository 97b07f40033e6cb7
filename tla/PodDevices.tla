----------------------------- MODULE PodDevices -----------------------------
(***************************************************************************)
(* The network namespaces of the pods and the interfaces in them, with the *)
(* operations of common/veth.go and daemon/vxlan/vxlan.go on them.         *)
(*                                                                         *)
(* A pod has at most one namespace at a time; its generation tells it from *)
(* the namespaces of the pod's earlier sandboxes.  A link has one interface*)
(* name in each of its pods, so that the interface of link l in pod p is   *)
(* dev[p][l].  The VNI of a link is determined by its uid.                 *)
(***************************************************************************)
EXTENDS TopologyStore

CONSTANTS
  Links,      \* the uids of the links
  LinksOf,    \* LinksOf[p]: the links of the spec of p's Topology, in order
  PeerOf,     \* PeerOf[p][l]: the PeerPod of link l in p's spec
  Phys,       \* the addresses in "physical/<address>" peers
  Localhost   \* the PeerPod of a macvlan link

ASSUME LinkAssumption ==
  /\ LinksOf \in [Pods -> Seq(Links)]
  /\ PeerOf \in [Pods -> [Links -> Pods \cup Phys \cup {Localhost}]]
  /\ Pods \cap (Phys \cup {Localhost}) = {}
  /\ Localhost \notin Phys

VARIABLES
  node,       \* node[p]: where p's sandbox runs, NoNode when there is none
  start,      \* start[p]: the generation of p's namespace
  dev         \* dev[p][l]: the interface of link l in p's namespace

Kinds == {"none", "veth", "vxlan", "macvlan"}

Device == [kind : Kinds, vtep : Nodes \cup Phys \cup {NoNode}]

NoDev   == [kind |-> "none",    vtep |-> NoNode]
Veth    == [kind |-> "veth",    vtep |-> NoNode]
MacVlan == [kind |-> "macvlan", vtep |-> NoNode]

\* The vxlan interface whose remote VTEP (Group) is v.
VxLan(v) == [kind |-> "vxlan", vtep |-> v]

\* The namespace of generation g of pod p exists on node n.
NsExists(n, p, g) == g # 0 /\ node[p] = n /\ start[p] = g

IsExistLinkInNS(d, n, p, g, l) == NsExists(n, p, g) /\ d[p][l] # NoDev

\* Deleting one end of a veth pair deletes the other.
RemoveVethLink(d, p, l) ==
  LET gone == {p} \cup (IF d[p][l] = Veth THEN {PeerOf[p][l]} ELSE {})
  IN  [q \in Pods |-> IF q \in gone THEN [d[q] EXCEPT ![l] = NoDev] ELSE d[q]]

\* A node accepts one vxlan interface per VNI, in whichever namespace it is.
VniTaken(d, n, p, l) ==
  \E q \in Pods \ {p} : node[q] = n /\ d[q][l].kind = "vxlan"

\* Where a failing call strikes: before anything is changed (a conversion, the
\* lookup of the source interface, a removal), as an interface is created, or
\* after that (the qdiscs).
Outcomes == {"no", "before", "create", "after"}

\* SetupVeth: keeps the pair if both ends exist, removes a single stale end,
\* and creates the pair, which fails when one of the namespaces is gone, and
\* its qdiscs.
SetupVeth(d, n, p, g, q, gq, l, fault) ==
  LET iExist == IsExistLinkInNS(d, n, p, g, l)
      pExist == IsExistLinkInNS(d, n, q, gq, l)
      clean  == IF iExist THEN RemoveVethLink(d, p, l)
                ELSE IF pExist THEN RemoveVethLink(d, q, l) ELSE d
  IN  IF iExist /\ pExist THEN [ok |-> TRUE, dev |-> d]
      ELSE IF fault = "before" THEN [ok |-> FALSE, dev |-> d]
      ELSE IF NsExists(n, p, g) /\ NsExists(n, q, gq) /\ fault # "create"
      THEN [ok |-> fault = "no",
            dev |-> [clean EXCEPT ![p][l] = Veth, ![q][l] = Veth]]
      ELSE [ok |-> FALSE, dev |-> clean]

\* CreateOrUpdate: keeps an equal vxlan interface, removes any other interface
\* of that name, and creates the vxlan.  The creation fails when the namespace
\* is gone and when the VNI is taken in another namespace of the node: the
\* retry looks for the conflicting VNI in the pod's own namespace only.
CreateOrUpdate(d, n, p, g, l, vtep, fault) ==
  LET clean == RemoveVethLink(d, p, l)
  IN  IF ~NsExists(n, p, g) \/ fault = "before" THEN [ok |-> FALSE, dev |-> d]
      ELSE IF d[p][l] = VxLan(vtep) THEN [ok |-> TRUE, dev |-> d]
      ELSE IF VniTaken(d, n, p, l) \/ fault = "create" THEN [ok |-> FALSE, dev |-> clean]
      ELSE [ok |-> TRUE, dev |-> [clean EXCEPT ![p][l] = VxLan(vtep)]]

\* SetupVxLan: CreateOrUpdate, then the qdiscs of the link's properties.
SetupVxLan(d, n, p, g, l, vtep, fault) ==
  LET made == CreateOrUpdate(d, n, p, g, l, vtep, fault)
  IN  [ok |-> made.ok /\ fault # "after", dev |-> made.dev]

\* RemoveLinkWithVni on the namespace of generation gq of pod q on node n.
RemoveLinkWithVni(d, n, q, gq, l) ==
  IF NsExists(n, q, gq) /\ d[q][l].kind = "vxlan"
  THEN [d EXCEPT ![q][l] = NoDev] ELSE d

DevInit ==
  /\ node = [p \in Pods |-> NoNode]
  /\ start = [p \in Pods |-> 0]
  /\ dev = [p \in Pods |-> [l \in Links |-> NoDev]]

DevTypeOK ==
  /\ node \in [Pods -> Nodes \cup {NoNode}]
  /\ start \in [Pods -> Nat]
  /\ dev \in [Pods -> [Links -> Device]]
=============================================================================
