---------------------------- MODULE DaemonCrash ----------------------------
(***************************************************************************)
(* The daemons of module Daemon, which may end at any time and are started *)
(* again at once by their DaemonSet: what a call, a mutex, the stores and  *)
(* the managers of the process are afterwards, and the Updates that a dead *)
(* caller has left behind on another node.                                 *)
(***************************************************************************)
EXTENDS DaemonSections

CONSTANT MaxCrashes   \* bound: how often a daemon ends

ASSUME CrashAssumption == MaxCrashes \in Nat

VARIABLES
  crashes,    \* how often a daemon has ended
  late,       \* the Updates whose caller is dead
  found,      \* found[n]: the pods n's topologyManager has found at its start
  overtaken   \* history: the links a late Update set up for a sandbox that was gone

crashVars == <<crashes, late, found, overtaken>>
allVars == <<vars, crashVars>>

\* An Update on its own: where it runs, for which link, pod and namespace, and
\* the VTEP it points the pod's interface at.  by and id tell it from others;
\* from is the sandbox of the pod that by worked for.
LateUpdate ==
  [by : Handlers, id : Nat, from : Nat, st : {"sent", "locked", "setup"}, node : Nodes,
   link : Links, pod : Pods, gen : Nat, vtep : Nodes \cup Phys \cup {NoNode}]

Late(u) == <<"late", u.by, u.id>>

CrashInit ==
  /\ Init
  /\ crashes = 0
  /\ late = {}
  /\ found = [n \in Nodes |-> {}]
  /\ overtaken = {}

-----------------------------------------------------------------------------
(* The end of a daemon, and its start.                                     *)

\* The handlers that run in the daemon of n, and of these the ones that have an
\* Update under way on another node, which goes on without them.
Dead(n) == {h \in Handlers : pc[h] # "idle" /\ At(h) = n}

Leaves(n) ==
  {h \in Dead(n) : upd[h] \in {"sent", "locked", "setup"} /\ UpdNode(h) # n}

LeftBy(h) ==
  [by |-> h, id |-> crashes, from |-> start[h[1]], st |-> upd[h], node |-> UpdNode(h), link |-> Cur(h),
   pod |-> UpdPod(h), gen |-> UpdGen(h), vtep |-> UpdVtep(h)]

\* Mutant: cmdAdd and cmdDel take the broken call for a success.
CallPasses(p) == IF sbx[p] = "adding" THEN "up" ELSE "deleted"

\* cmdAdd and cmdDel return the error of the broken call.
CallBreaks(p) == "failed"

\* Mutant: UpdateRemote takes the broken connection for an answer.
UpdatePasses(h) == "ok"

\* UpdateRemote returns the error, whether the Update had been done or not.
UpdateBreaks(h) == "err"

\* The calls the daemon of n was answering break, and the Updates it was running.
CallsFail(n) ==
  /\ pc' = [h \in Handlers |-> IF h \in Dead(n) THEN "idle" ELSE pc[h]]
  /\ loc' = [h \in Handlers |-> IF h \in Dead(n) THEN NoPlace ELSE loc[h]]
  /\ peer' = [h \in Handlers |-> IF h \in Dead(n) THEN NoPlace ELSE peer[h]]
  /\ todo' = [h \in Handlers |-> IF h \in Dead(n) THEN <<>> ELSE todo[h]]
  /\ upd' = [h \in Handlers |->
       IF h \in Dead(n) THEN "none"
       ELSE IF upd[h] # "none" /\ UpdNode(h) = n THEN UpdateBreaks(h) ELSE upd[h]]
  /\ sbx' = [p \in Pods |-> IF Cni(p) \in Dead(n) THEN CallBreaks(p) ELSE sbx[p]]
  /\ att' = [p \in Pods |-> IF Cni(p) \in Dead(n) THEN 0 ELSE att[p]]

\* Mutant: an Update gives its mutex back when its caller is gone.
FreshMutexesAll(n) ==
  mutex' = [m \in Nodes |-> [l \in Links |->
    IF m = n \/ \E h \in Leaves(n) : mutex[m][l] = Rem(h) THEN Free ELSE mutex[m][l]]]

\* New: a fresh MutexMap; the Updates left behind keep their mutexes elsewhere.
FreshMutexes(n) ==
  mutex' = [m \in Nodes |-> [l \in Links |->
    IF m = n THEN Free
    ELSE IF \E h \in Leaves(n) : mutex[m][l] = Rem(h)
    THEN Late(LeftBy(CHOOSE h \in Leaves(n) : mutex[m][l] = Rem(h)))
    ELSE mutex[m][l]]]

\* filterLocalTopologies of what the API server lists.
LocalTopologies(n) == {p \in Pods : Current(p).node = n}

\* VxlanManager.Init: the VNIs of the vxlan interfaces in the namespaces of the
\* local topologies.  Each is given the address of a field of the loop variable,
\* which at the end of the loop is the topology listed last.
VxlanManagerInit(n) ==
  \E last \in IF LocalTopologies(n) = {} THEN Pods ELSE LocalTopologies(n) :
    vxm' = [vxm EXCEPT ![n] = [l \in Links |->
      IF \E p \in LocalTopologies(n) :
           NsExists(n, p, Current(p).gen) /\ dev[p][l].kind = "vxlan"
      THEN <<last, Current(last).gen>> ELSE NoNs]]

\* Mutant: the topologyManager starts empty.
TopologyManagerEmpty(n) ==
  /\ tm' = [tm EXCEPT ![n] = {}]
  /\ found' = [found EXCEPT ![n] = {}]

\* TopologyManager.Init files the local topologies by their names alone, where
\* Add and Delete, which use the namespace and the name, do not meet them.
TopologyManagerInit(n) ==
  /\ tm' = [tm EXCEPT ![n] = {}]
  /\ found' = [found EXCEPT ![n] = LocalTopologies(n)]

\* The new informer has an empty store.
FreshStore(n) ==
  store' = [store EXCEPT ![n] = [p \in Pods |-> [rv |-> 0, obj |-> Unset]]]

Crash(n) ==
  /\ crashes < MaxCrashes
  /\ crashes' = crashes + 1
  /\ CallsFail(n)
  /\ late' = {u \in late : u.node # n} \cup {LeftBy(h) : h \in Leaves(n)}
  /\ FreshMutexes(n)
  /\ VxlanManagerInit(n)
  /\ TopologyManagerInit(n)
  /\ FreshStore(n)
  /\ UNCHANGED <<hist, node, start, rd, unread, dev, miss, bounds, overtaken>>

-----------------------------------------------------------------------------
(* Update without its caller, in the steps it has in Daemon.               *)

Becomes(u, st) == late' = (late \ {u}) \cup {[u EXCEPT !.st = st]}

lateElsewhere == <<storeVars, kubeletVars, handlerVars, aliveVars, tm, miss, bounds, crashes, found>>

LateLock(u) ==
  /\ u.st = "sent"
  /\ Lock(u.node, u.link, Late(u))
  /\ Becomes(u, "locked")
  /\ UNCHANGED <<lateElsewhere, dev, vxm, overtaken>>

LateSetupWith(u, fault) ==
  LET ns == vxm[u.node][u.link]
      other == ns # NoNs /\ ns # <<u.pod, u.gen>>
      d == IF other THEN RemoveLinkWithVni(dev, u.node, ns[1], ns[2], u.link) ELSE dev
      r == SetupVxLan(d, u.node, u.pod, u.gen, u.link, u.vtep, fault)
  IN  /\ dev' = r.dev
      /\ IF r.ok THEN Becomes(u, "setup") /\ UNCHANGED mutex
                 ELSE late' = late \ {u} /\ Unlock(u.node, u.link)
      /\ overtaken' = IF start[u.by[1]] = u.from THEN overtaken ELSE overtaken \cup {u.link}
      /\ UNCHANGED <<lateElsewhere, vxm>>

LateSetup(u) ==
  /\ u.st = "locked"
  /\ \E fault \in Faults(u.link) : LateSetupWith(u, fault)

\* Mutant: the mutex is not given back.
LateDoneLocked(u) ==
  /\ u.st = "setup"
  /\ vxm' = [vxm EXCEPT ![u.node][u.link] = <<u.pod, u.gen>>]
  /\ late' = late \ {u}
  /\ UNCHANGED <<lateElsewhere, dev, mutex, overtaken>>

LateDone(u) ==
  /\ u.st = "setup"
  /\ vxm' = [vxm EXCEPT ![u.node][u.link] = <<u.pod, u.gen>>]
  /\ Unlock(u.node, u.link)
  /\ late' = late \ {u}
  /\ UNCHANGED <<lateElsewhere, dev, overtaken>>

CrashNext ==
  \/ Next /\ UNCHANGED crashVars
  \/ \E n \in Nodes : Crash(n)
  \/ \E u \in late : LateLock(u) \/ LateSetup(u) \/ LateDone(u)

CrashSpec == CrashInit /\ [][CrashNext]_allVars

-----------------------------------------------------------------------------
(* Properties.                                                             *)

CrashTypeOK ==
  /\ crashes \in 0 .. MaxCrashes
  /\ late \subseteq LateUpdate
  /\ found \in [Nodes -> SUBSET Pods]
  /\ overtaken \subseteq Links
  /\ \A n \in Nodes, l \in Links :
       mutex[n][l] \in Holder \cup {Late(u) : u \in late}

InLate(u, n, l) == u.st \in {"locked", "setup"} /\ u.node = n /\ u.link = l

InsideWithLate ==
  [n \in Nodes |-> [l \in Links |->
    InsideOf(n, l) \cup {Rem(u.by) : u \in {v \in late : InLate(v, n, l)}}]]

CrashSections == INSTANCE LinkSections WITH inside <- InsideWithLate

\* The promise of the link mutexes survives the end of a daemon: an Update that
\* outlives its caller still keeps everyone else out, on a node whose daemon was
\* started again all sections are empty, and no other section is touched.
SectionsSurvive == CrashSections!Spec

\* A daemon that ends between any two steps of its calls leaves nothing behind
\* that the next SetupPod does not put right: pods that are up are joined, but
\* for a store that lagged, and for an Update that came so late that the pod of
\* its caller had been started anew.
JoinedAfterCrash ==
  \A p, q \in Pods, l \in Links :
    /\ VirtualLink(p, q, l) /\ BothUp(p, q)
    /\ "stale" \notin {miss[p][l], miss[q][l]} /\ l \notin overtaken
    => Joined(p, q, l)

\* The metrics of a node miss no pod that is up on it, whether its SetupPod or
\* the start of the daemon has told the topologyManager.
MetricsFind ==
  \A p \in Pods : sbx[p] = "up" /\ ~unread[p] => p \in tm[node[p]] \cup found[node[p]]
=============================================================================
