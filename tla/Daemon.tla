------------------------------- MODULE Daemon -------------------------------
(***************************************************************************)
(* The kubedtn daemons (daemon/kubedtn/handler.go): the handlers of the    *)
(* Local and Remote services that set pods up, destroy them and plumb      *)
(* their links, running concurrently on every node.                        *)
(*                                                                         *)
(* A handler is identified by the pod it works for and by its caller:      *)
(* "cni" for SetupPod and DestroyPod, which the CNI plugin calls and the   *)
(* kubelet serialises per pod, and "ctl" for AddLinks and DelLinks, which  *)
(* the controller calls with at most one reconciler per Topology.  The     *)
(* Update call that addLink makes on the peer's daemon is synchronous;     *)
(* upd[h] is how far the Update called by h has come.                      *)
(***************************************************************************)
EXTENDS PodDevices

CONSTANTS
  RetrySteps,   \* attempts of RetryOnConflict (retry.DefaultRetry has 5)
  Faulty,       \* the links for which a system call or a conversion may fail
  Lossy,        \* TRUE: the API server and the peer's daemon may be unreachable
  NodesOf,      \* NodesOf[p]: the nodes p may be scheduled on
  MaxStarts,    \* bound: MaxStarts[p] is the number of sandboxes of p
  KeepLast,     \* bound: TRUE: a pod is not destroyed while its last sandbox is up
  MaxTouches,   \* bound: writes of Status.Links by the controller
  MaxCtl        \* bound: AddLinks and DelLinks calls of the controller

ASSUME DaemonAssumption ==
  /\ RetrySteps \in Nat \ {0}
  /\ Faulty \subseteq Links
  /\ Lossy \in BOOLEAN
  /\ NodesOf \in [Pods -> SUBSET Nodes]
  /\ MaxStarts \in [Pods -> Nat]
  /\ KeepLast \in BOOLEAN
  /\ MaxTouches \in Nat
  /\ MaxCtl \in Nat

VARIABLES
  sbx,          \* sbx[p]: what the kubelet knows of p's sandbox
  pc,           \* pc[h]: where handler h is
  loc,          \* loc[h]: node and generation of h's localPod
  peer,         \* peer[h]: node and generation of the peerPod in addLink
  todo,         \* todo[h]: the links AddLinks or DelLinks has still to do
  upd,          \* upd[h]: the Update called by h
  rd, att,      \* SetAlive of p: the version it read, the attempts so far
  unread,       \* history: a CNI call could not read p's object and passed p by
  mutex,        \* mutex[n][l]: the holder of linkMutexes.Get(l) on node n
  vxm,          \* vxm[n][l]: the vxlanManager of node n
  tm,           \* tm[n]: the pods in the topologyManager of node n
  miss,         \* history: the links whose plumbing p left to the peer
  touches, ctl  \* counters for the bounds

kubeletVars == <<node, start, sbx>>
handlerVars == <<pc, loc, peer, todo, upd>>
aliveVars   == <<rd, att, unread>>
bounds      == <<touches, ctl>>
vars == <<storeVars, kubeletVars, handlerVars, aliveVars,
          dev, mutex, vxm, tm, miss, bounds>>

Handlers == Pods \X {"cni", "ctl"}
Cni(p) == <<p, "cni">>
Ctl(p) == <<p, "ctl">>

Sandbox == {"none", "adding", "up", "failed", "deleting", "deleted"}
PC == {"idle", "read", "write", "fin", "add", "vethlock", "veth",
       "vxlock", "vx", "vxadd", "rpc", "del", "delget", "deldel"}
Upd == {"none", "sent", "locked", "setup", "ok", "err"}

Place  == [node : Nodes \cup {NoNode}, gen : Nat]
NoPlace == [node |-> NoNode, gen |-> 0]
PlaceOf(o) == [node |-> o.node, gen |-> o.gen]

\* nil in the vxlanManager; an entry is the namespace <<pod, generation>>.
NoNs == <<>>

Free == <<>>
Own(h) == <<"own", h>>
Rem(h) == <<"upd", h>>
Holder == {Free} \cup ({"own", "upd"} \X Handlers)

\* The node whose daemon runs h, the link h works on and its peer.
At(h) == IF h[2] = "cni" THEN node[h[1]] ELSE loc[h].node
Cur(h) == Head(todo[h])
Peer(h) == PeerOf[h[1]][Cur(h)]

TypeOK ==
  /\ StoreTypeOK
  /\ DevTypeOK
  /\ sbx \in [Pods -> Sandbox]
  /\ pc \in [Handlers -> PC]
  /\ loc \in [Handlers -> Place]
  /\ peer \in [Handlers -> Place]
  /\ todo \in [Handlers -> Seq(Links)]
  /\ upd \in [Handlers -> Upd]
  /\ rd \in [Pods -> Nat]
  /\ att \in [Pods -> 0 .. RetrySteps - 1]
  /\ unread \in [Pods -> BOOLEAN]
  /\ mutex \in [Nodes -> [Links -> Holder]]
  /\ vxm \in [Nodes -> [Links -> {NoNs} \cup (Pods \X Nat)]]
  /\ tm \in [Nodes -> SUBSET Pods]
  /\ miss \in [Pods -> [Links -> {"no", "fresh", "stale"}]]
  /\ touches \in Nat
  /\ ctl \in Nat

Init ==
  /\ StoreInit
  /\ DevInit
  /\ sbx = [p \in Pods |-> "none"]
  /\ pc = [h \in Handlers |-> "idle"]
  /\ loc = [h \in Handlers |-> NoPlace]
  /\ peer = [h \in Handlers |-> NoPlace]
  /\ todo = [h \in Handlers |-> <<>>]
  /\ upd = [h \in Handlers |-> "none"]
  /\ rd = [p \in Pods |-> 0]
  /\ att = [p \in Pods |-> 0]
  /\ unread = [p \in Pods |-> FALSE]
  /\ mutex = [n \in Nodes |-> [l \in Links |-> Free]]
  /\ vxm = [n \in Nodes |-> [l \in Links |-> NoNs]]
  /\ tm = [n \in Nodes |-> {}]
  /\ miss = [p \in Pods |-> [l \in Links |-> "no"]]
  /\ touches = 0
  /\ ctl = 0

-----------------------------------------------------------------------------
(* Control flow of a handler.                                              *)

Goto(h, label) ==
  /\ pc' = [pc EXCEPT ![h] = label]
  /\ UNCHANGED <<loc, peer, todo, upd, sbx>>

\* The loop of AddLinks or DelLinks goes on with the next link.
NextLink(h, label) ==
  /\ pc' = [pc EXCEPT ![h] = label]
  /\ todo' = [todo EXCEPT ![h] = Tail(@)]
  /\ peer' = [peer EXCEPT ![h] = NoPlace]
  /\ upd' = [upd EXCEPT ![h] = "none"]
  /\ UNCHANGED <<loc, sbx>>

\* The handler answers its caller; the kubelet learns how its CNI call ended.
Return(h, ok) ==
  /\ pc' = [pc EXCEPT ![h] = "idle"]
  /\ loc' = [loc EXCEPT ![h] = NoPlace]
  /\ peer' = [peer EXCEPT ![h] = NoPlace]
  /\ todo' = [todo EXCEPT ![h] = <<>>]
  /\ upd' = [upd EXCEPT ![h] = "none"]
  /\ sbx' = IF h[2] = "ctl" THEN sbx
            ELSE [sbx EXCEPT ![h[1]] = IF ~ok THEN "failed"
                                       ELSE IF @ = "adding" THEN "up" ELSE "deleted"]

Lock(n, l, who) ==
  /\ mutex[n][l] = Free
  /\ mutex' = [mutex EXCEPT ![n][l] = who]

Unlock(n, l) == mutex' = [mutex EXCEPT ![n][l] = Free]

Faults(l) == IF l \in Faulty THEN Outcomes ELSE {"no"}

-----------------------------------------------------------------------------
(* The kubelet and the CNI plugin (cmdAdd, cmdDel).                        *)

NewSandbox(p, n) ==
  /\ sbx[p] = "none"
  /\ n \in NodesOf[p]
  /\ start[p] < MaxStarts[p]
  /\ node' = [node EXCEPT ![p] = n]
  /\ start' = [start EXCEPT ![p] = @ + 1]

\* Mutant: SetAlive is forgotten.
SetupPodNotAlive(p, n) ==
  /\ NewSandbox(p, n)
  /\ sbx' = [sbx EXCEPT ![p] = "adding"]
  /\ pc' = [pc EXCEPT ![Cni(p)] = "add"]
  /\ loc' = [loc EXCEPT ![Cni(p)] = [node |-> n, gen |-> start[p] + 1]]
  /\ todo' = [todo EXCEPT ![Cni(p)] = LinksOf[p]]
  /\ UNCHANGED <<storeVars, peer, upd, aliveVars, dev, mutex, vxm, tm, miss, bounds>>

\* A sandbox is created on some node and cmdAdd calls SetupPod, which reads the
\* links of the pod's spec and fills in its own node and namespace.
SetupPod(p, n) ==
  /\ NewSandbox(p, n)
  /\ sbx' = [sbx EXCEPT ![p] = "adding"]
  /\ pc' = [pc EXCEPT ![Cni(p)] = "read"]
  /\ loc' = [loc EXCEPT ![Cni(p)] = [node |-> n, gen |-> start[p] + 1]]
  /\ todo' = [todo EXCEPT ![Cni(p)] = LinksOf[p]]
  /\ UNCHANGED <<storeVars, peer, upd, aliveVars, dev, mutex, vxm, tm, miss, bounds>>

\* getPod fails: SetupPod takes p for a pod outside the topology and succeeds.
SetupPodUnread(p, n) ==
  /\ NewSandbox(p, n)
  /\ Lossy
  /\ ~InStore(n, p)
  /\ sbx' = [sbx EXCEPT ![p] = "up"]
  /\ unread' = [unread EXCEPT ![p] = TRUE]
  /\ UNCHANGED <<storeVars, handlerVars, rd, att, dev, mutex, vxm, tm, miss, bounds>>

DeletedSandbox(p) ==
  \/ sbx[p] = "failed"
  \/ sbx[p] = "up" /\ (KeepLast => start[p] < MaxStarts[p])

\* cmdDel calls DestroyPod, also after a failed cmdAdd or cmdDel.  The local
\* pod is marked dead by emptying its node and its namespace.
DestroyPod(p) ==
  /\ DeletedSandbox(p)
  /\ sbx' = [sbx EXCEPT ![p] = "deleting"]
  /\ tm' = [tm EXCEPT ![node[p]] = @ \ {p}]
  /\ pc' = [pc EXCEPT ![Cni(p)] = "read"]
  /\ loc' = [loc EXCEPT ![Cni(p)] = NoPlace]
  /\ todo' = [todo EXCEPT ![Cni(p)] = LinksOf[p]]
  /\ UNCHANGED <<storeVars, node, start, peer, upd, aliveVars, dev, mutex, vxm, miss, bounds>>

\* getPod fails: DestroyPod passes p by, and cmdDel succeeds.
DestroyPodUnread(p) ==
  /\ DeletedSandbox(p)
  /\ Lossy
  /\ ~InStore(node[p], p)
  /\ sbx' = [sbx EXCEPT ![p] = "deleted"]
  /\ tm' = [tm EXCEPT ![node[p]] = @ \ {p}]
  /\ unread' = [unread EXCEPT ![p] = TRUE]
  /\ UNCHANGED <<storeVars, node, start, handlerVars, rd, att, dev, mutex, vxm, miss, bounds>>

\* After a successful cmdDel the sandbox and its namespace are removed, and the
\* interfaces in it with their veth peers.
RemoveSandbox(p) ==
  /\ sbx[p] = "deleted"
  /\ sbx' = [sbx EXCEPT ![p] = "none"]
  /\ node' = [node EXCEPT ![p] = NoNode]
  /\ dev' = [q \in Pods |-> [l \in Links |->
               IF q = p \/ (dev[p][l] = Veth /\ PeerOf[p][l] = q) THEN NoDev ELSE dev[q][l]]]
  /\ UNCHANGED <<storeVars, start, handlerVars, aliveVars, mutex, vxm, tm, miss, bounds>>

-----------------------------------------------------------------------------
(* SetAlive.                                                               *)

\* Mutant: the topology manager is told of the pod whether it is alive or not.
SetAliveReadAdd(p) ==
  LET h == Cni(p)
      t == getPod(node[p], p)
  IN  /\ pc[h] = "read"
      /\ rd' = [rd EXCEPT ![p] = t.rv]
      /\ tm' = [tm EXCEPT ![node[p]] = @ \cup {p}]
      /\ AssignInPlace(node[p], p, [t.obj EXCEPT !.node = loc[h].node, !.gen = loc[h].gen])
      /\ Goto(h, "write")
      /\ UNCHANGED <<hist, node, start, att, unread, dev, mutex, vxm, miss, bounds>>

\* One attempt of the first loop, up to the request: getPod, the topology
\* manager, and the assignments to the object getPod returned.
SetAliveRead(p) ==
  LET h == Cni(p)
      t == getPod(node[p], p)
  IN  /\ pc[h] = "read"
      /\ rd' = [rd EXCEPT ![p] = t.rv]
      /\ tm' = [tm EXCEPT ![node[p]] = IF Alive(loc[h]) THEN @ \cup {p} ELSE @ \ {p}]
      /\ AssignInPlace(node[p], p, [t.obj EXCEPT !.node = loc[h].node, !.gen = loc[h].gen])
      /\ Goto(h, "write")
      /\ UNCHANGED <<hist, node, start, att, unread, dev, mutex, vxm, miss, bounds>>

\* UpdateStatus is accepted when the version read is still the current one.
SetAliveWrite(p) ==
  LET h == Cni(p)
  IN  /\ pc[h] = "write"
      /\ rd[p] = Version(p)
      /\ Accept(p, [Current(p) EXCEPT !.node = loc[h].node, !.gen = loc[h].gen])
      /\ att' = [att EXCEPT ![p] = 0]
      /\ miss' = IF Alive(loc[h]) THEN miss ELSE [miss EXCEPT ![p] = [l \in Links |-> "no"]]
      /\ unread' = [unread EXCEPT ![p] = FALSE]
      /\ Goto(h, "fin")
      /\ UNCHANGED <<store, node, start, rd, dev, mutex, vxm, tm, bounds>>

\* Mutant: the error of the last attempt is dropped.
ConflictIgnored(p) ==
  LET h == Cni(p)
      retry == att[p] + 1 < RetrySteps
  IN  /\ pc[h] = "write"
      /\ rd[p] # Version(p)
      /\ att' = [att EXCEPT ![p] = IF retry THEN @ + 1 ELSE 0]
      /\ Goto(h, IF retry THEN "read" ELSE "fin")
      /\ UNCHANGED <<storeVars, node, start, rd, unread, dev, mutex, vxm, tm, miss, bounds>>

\* Mutant: the attempts are not counted.
ConflictForever(p) ==
  /\ pc[Cni(p)] = "write"
  /\ rd[p] # Version(p)
  /\ Goto(Cni(p), "read")
  /\ UNCHANGED <<storeVars, node, start, aliveVars, dev, mutex, vxm, tm, miss, bounds>>

\* Mutant: one attempt too many.
ConflictOnceMore(p) ==
  LET h == Cni(p)
      retry == att[p] < RetrySteps
  IN  /\ pc[h] = "write"
      /\ rd[p] # Version(p)
      /\ att' = [att EXCEPT ![p] = IF retry THEN @ + 1 ELSE 0]
      /\ IF retry THEN Goto(h, "read") ELSE Return(h, FALSE)
      /\ UNCHANGED <<storeVars, node, start, rd, unread, dev, mutex, vxm, tm, miss, bounds>>

\* A conflict: RetryOnConflict tries again, or gives up and SetAlive fails.
SetAliveConflict(p) ==
  LET h == Cni(p)
      retry == att[p] + 1 < RetrySteps
  IN  /\ pc[h] = "write"
      /\ rd[p] # Version(p)
      /\ att' = [att EXCEPT ![p] = IF retry THEN @ + 1 ELSE 0]
      /\ IF retry THEN Goto(h, "read") ELSE Return(h, FALSE)
      /\ UNCHANGED <<storeVars, node, start, rd, unread, dev, mutex, vxm, tm, miss, bounds>>

\* Any other error of the API server, in getPod or in UpdateStatus, ends the
\* loop at once.
SetAliveError(p) ==
  /\ Lossy
  /\ \/ pc[Cni(p)] = "read" /\ ~InStore(node[p], p)
     \/ pc[Cni(p)] = "write"
  /\ att' = [att EXCEPT ![p] = 0]
  /\ Return(Cni(p), FALSE)
  /\ UNCHANGED <<storeVars, node, start, rd, unread, dev, mutex, vxm, tm, miss, bounds>>

\* One attempt of the second loop, which writes the finalizers.  The request
\* follows the read without a pause.  A loop that gives up, after the last
\* conflict or at any other error of the API server, is only logged.
SetFinalizer(p) ==
  LET h == Cni(p)
      t == getPod(node[p], p)
      fin == IF Alive(loc[h]) THEN t.obj.fin + 1 ELSE 0
  IN  \E lost \in {FALSE, Lossy} :
        LET written == ~lost /\ t.rv = Version(p)
            done == lost \/ written \/ att[p] + 1 = RetrySteps
        IN  /\ pc[h] = "fin"
            /\ AssignInPlace(node[p], p, [t.obj EXCEPT !.fin = fin])
            /\ IF written THEN Accept(p, [Current(p) EXCEPT !.fin = fin]) ELSE UNCHANGED hist
            /\ att' = [att EXCEPT ![p] = IF done THEN 0 ELSE @ + 1]
            /\ Goto(h, IF ~done THEN "fin" ELSE IF Alive(loc[h]) THEN "add" ELSE "del")
            /\ UNCHANGED <<node, start, rd, unread, dev, mutex, vxm, tm, miss, bounds>>

-----------------------------------------------------------------------------
(* AddLinks and addLink.                                                   *)

\* What the steps of addLink on the devices leave alone.
elsewhere == <<storeVars, node, start, aliveVars, tm, bounds>>

AddLinksDone(h) ==
  /\ pc[h] = "add"
  /\ todo[h] = <<>>
  /\ Return(h, TRUE)
  /\ UNCHANGED <<elsewhere, dev, mutex, vxm, miss>>

AddingLink(h) == pc[h] = "add" /\ todo[h] # <<>>

\* An address of the link does not parse, or the peer's topology cannot be read.
AddLinkError(h) ==
  /\ AddingLink(h)
  /\ Cur(h) \in Faulty
  /\ Return(h, FALSE)
  /\ UNCHANGED <<elsewhere, dev, mutex, vxm, miss>>

AddLinkMacVlan(h) ==
  LET ok == NsExists(At(h), h[1], loc[h].gen) /\ dev[h[1]][Cur(h)] = NoDev
  IN  /\ AddingLink(h)
      /\ Peer(h) = Localhost
      /\ dev' = IF ok THEN [dev EXCEPT ![h[1]][Cur(h)] = MacVlan] ELSE dev
      /\ IF ok THEN NextLink(h, "add") ELSE Return(h, FALSE)
      /\ UNCHANGED <<elsewhere, mutex, vxm, miss>>

\* The peer is a physical host: addLink calls its own daemon's Update.
AddLinkPhysical(h) ==
  /\ AddingLink(h)
  /\ Peer(h) \in Phys
  /\ pc' = [pc EXCEPT ![h] = "rpc"]
  /\ upd' = [upd EXCEPT ![h] = "sent"]
  /\ UNCHANGED <<elsewhere, loc, peer, todo, sbx, dev, mutex, vxm, miss>>

\* The peer is not alive in what getPod returns: nothing is done.
AddLinkSkip(h) ==
  LET p == h[1]
      q == Peer(h)
  IN  /\ AddingLink(h)
      /\ q \in Pods
      /\ ~Alive(getPod(At(h), q).obj)
      /\ miss' = IF h[2] = "ctl" THEN miss
                 ELSE [miss EXCEPT ![p][Cur(h)] = IF Alive(Current(q)) THEN "stale" ELSE "fresh"]
      /\ NextLink(h, "add")
      /\ UNCHANGED <<elsewhere, dev, mutex, vxm>>

\* The peer is alive, on this node (a veth pair) or on another (a vxlan).
AddLinkAlive(h) ==
  LET o == getPod(At(h), Peer(h)).obj
  IN  /\ AddingLink(h)
      /\ Peer(h) \in Pods
      /\ Alive(o)
      /\ peer' = [peer EXCEPT ![h] = PlaceOf(o)]
      /\ pc' = [pc EXCEPT ![h] = IF o.node = loc[h].node THEN "vethlock" ELSE "vxlock"]
      /\ UNCHANGED <<elsewhere, loc, todo, upd, sbx, dev, mutex, vxm, miss>>

\* Mutant: addLink of two pods of one node takes no mutex.
LockForVethNot(h) ==
  /\ pc[h] = "vethlock"
  /\ Goto(h, "veth")
  /\ UNCHANGED <<elsewhere, dev, mutex, vxm, miss>>

LockForVeth(h) ==
  /\ pc[h] = "vethlock"
  /\ Lock(At(h), Cur(h), Own(h))
  /\ Goto(h, "veth")
  /\ UNCHANGED <<elsewhere, dev, vxm, miss>>

\* SetupVeth, then the deferred unlock.
PlumbVethWith(h, fault) ==
  LET r == SetupVeth(dev, At(h), h[1], loc[h].gen, Peer(h), peer[h].gen, Cur(h), fault)
  IN  /\ dev' = r.dev
      /\ Unlock(At(h), Cur(h))
      /\ IF r.ok THEN NextLink(h, "add") ELSE Return(h, FALSE)
      /\ UNCHANGED <<elsewhere, vxm, miss>>

PlumbVeth(h) ==
  /\ pc[h] = "veth"
  /\ \E fault \in Faults(Cur(h)) : PlumbVethWith(h, fault)

LockForVxLan(h) ==
  /\ pc[h] = "vxlock"
  /\ Lock(At(h), Cur(h), Own(h))
  /\ Goto(h, "vx")
  /\ UNCHANGED <<elsewhere, dev, vxm, miss>>

\* SetupVxLan on our side; an error unlocks and ends AddLinks.
PlumbVxLanWith(h, fault) ==
  LET r == SetupVxLan(dev, At(h), h[1], loc[h].gen, Cur(h), peer[h].node, fault)
  IN  /\ dev' = r.dev
      /\ IF r.ok THEN Goto(h, "vxadd") /\ UNCHANGED mutex
                 ELSE Return(h, FALSE) /\ Unlock(At(h), Cur(h))
      /\ UNCHANGED <<elsewhere, vxm, miss>>

PlumbVxLan(h) ==
  /\ pc[h] = "vx"
  /\ \E fault \in Faults(Cur(h)) : PlumbVxLanWith(h, fault)

\* Mutant: the mutex is kept over the call of UpdateRemote.
CallUpdateLocked(h) ==
  /\ pc[h] = "vxadd"
  /\ vxm' = [vxm EXCEPT ![At(h)][Cur(h)] = <<h[1], loc[h].gen>>]
  /\ pc' = [pc EXCEPT ![h] = "rpc"]
  /\ upd' = [upd EXCEPT ![h] = "sent"]
  /\ UNCHANGED <<elsewhere, loc, peer, todo, sbx, dev, mutex, miss>>

\* vxlanManager.Add, the unlock "in advance", then the call of UpdateRemote.
CallUpdateRemote(h) ==
  /\ pc[h] = "vxadd"
  /\ vxm' = [vxm EXCEPT ![At(h)][Cur(h)] = <<h[1], loc[h].gen>>]
  /\ Unlock(At(h), Cur(h))
  /\ pc' = [pc EXCEPT ![h] = "rpc"]
  /\ upd' = [upd EXCEPT ![h] = "sent"]
  /\ UNCHANGED <<elsewhere, loc, peer, todo, sbx, dev, miss>>

\* The call returns, or the peer's daemon cannot be reached.
UpdateReturns(h) ==
  /\ pc[h] = "rpc"
  /\ \/ /\ upd[h] = "ok"
        /\ NextLink(h, "add")
     \/ /\ \/ upd[h] = "err"
           \/ upd[h] = "sent" /\ Peer(h) \in Pods /\ Lossy
        /\ Return(h, FALSE)
  /\ UNCHANGED <<elsewhere, dev, mutex, vxm, miss>>

-----------------------------------------------------------------------------
(* Update, on the node UpdNode(h), for the namespace of generation UpdGen(h)*)
(* of UpdPod(h): the peer of a remote link, or the pod of a physical one.  *)

UpdNode(h) == IF Peer(h) \in Pods THEN peer[h].node ELSE At(h)
UpdPod(h)  == IF Peer(h) \in Pods THEN Peer(h) ELSE h[1]
UpdGen(h)  == IF Peer(h) \in Pods THEN peer[h].gen ELSE loc[h].gen

\* Mutant: the peer is told its own address.
UpdVtepPeer(h) == IF Peer(h) \in Pods THEN peer[h].node ELSE Peer(h)

UpdVtep(h) == IF Peer(h) \in Pods THEN loc[h].node ELSE Peer(h)

UpdateStep(h, state) ==
  /\ upd' = [upd EXCEPT ![h] = state]
  /\ UNCHANGED <<elsewhere, pc, loc, peer, todo, sbx, miss>>

\* Mutant: Update takes no mutex.
UpdateUnlocked(h) ==
  /\ upd[h] = "sent"
  /\ UpdateStep(h, "locked")
  /\ UNCHANGED <<dev, mutex, vxm>>

UpdateLock(h) ==
  /\ upd[h] = "sent"
  /\ Lock(UpdNode(h), Cur(h), Rem(h))
  /\ UpdateStep(h, "locked")
  /\ UNCHANGED <<dev, vxm>>

\* A vxlan with this VNI in another namespace is removed, then SetupVxLan.
UpdateSetupWith(h, fault) ==
  LET n == UpdNode(h)
      l == Cur(h)
      ns == vxm[n][l]
      other == ns # NoNs /\ ns # <<UpdPod(h), UpdGen(h)>>
      d == IF other THEN RemoveLinkWithVni(dev, n, ns[1], ns[2], l) ELSE dev
      r == SetupVxLan(d, n, UpdPod(h), UpdGen(h), l, UpdVtep(h), fault)
  IN  /\ dev' = r.dev
      /\ IF r.ok THEN UNCHANGED mutex ELSE Unlock(n, l)
      /\ UpdateStep(h, IF r.ok THEN "setup" ELSE "err")
      /\ UNCHANGED vxm

UpdateSetup(h) ==
  /\ upd[h] = "locked"
  /\ \E fault \in Faults(Cur(h)) : UpdateSetupWith(h, fault)

\* Mutant: Update does not tell the vxlanManager.
UpdateForgets(h) ==
  /\ upd[h] = "setup"
  /\ Unlock(UpdNode(h), Cur(h))
  /\ UpdateStep(h, "ok")
  /\ UNCHANGED <<dev, vxm>>

\* vxlanManager.Add, and the deferred unlock as Update returns.
UpdateDone(h) ==
  /\ upd[h] = "setup"
  /\ vxm' = [vxm EXCEPT ![UpdNode(h)][Cur(h)] = <<UpdPod(h), UpdGen(h)>>]
  /\ Unlock(UpdNode(h), Cur(h))
  /\ UpdateStep(h, "ok")
  /\ UNCHANGED dev

-----------------------------------------------------------------------------
(* DelLinks and delLink, which takes no mutex.                             *)

DelLinksDone(h) ==
  /\ pc[h] = "del"
  /\ todo[h] = <<>>
  /\ Return(h, TRUE)
  /\ UNCHANGED <<elsewhere, dev, mutex, vxm, miss>>

DelLinkError(h) ==
  /\ pc[h] = "del"
  /\ todo[h] # <<>>
  /\ Cur(h) \in Faulty
  /\ Return(h, FALSE)
  /\ UNCHANGED <<elsewhere, dev, mutex, vxm, miss>>

\* RemoveVethLink in the local pod's namespace, whose failure is only logged.
\* With an empty NetNs koko acts on the daemon's own namespace.
DelLinkRemove(h) ==
  /\ pc[h] = "del"
  /\ todo[h] # <<>>
  /\ dev' = IF IsExistLinkInNS(dev, At(h), h[1], loc[h].gen, Cur(h))
            THEN RemoveVethLink(dev, h[1], Cur(h)) ELSE dev
  /\ Goto(h, "delget")
  /\ UNCHANGED <<elsewhere, mutex, vxm, miss>>

\* vxlanManager.Get and the comparison of the namespaces ...
DelLinkGet(h) ==
  /\ pc[h] = "delget"
  /\ IF vxm[At(h)][Cur(h)] = <<h[1], loc[h].gen>>
     THEN Goto(h, "deldel") ELSE NextLink(h, "del")
  /\ UNCHANGED <<elsewhere, dev, mutex, vxm, miss>>

\* ... and vxlanManager.Delete.
DelLinkDelete(h) ==
  /\ pc[h] = "deldel"
  /\ vxm' = [vxm EXCEPT ![At(h)][Cur(h)] = NoNs]
  /\ NextLink(h, "del")
  /\ UNCHANGED <<elsewhere, dev, mutex, miss>>

-----------------------------------------------------------------------------
(* The controller, which dials the daemon of the Status.SrcIP it has read, *)
(* possibly an old one, and passes the NetNs it has read.                  *)

CallLinks(p, label) ==
  /\ ctl < MaxCtl
  /\ ctl' = ctl + 1
  /\ pc[Ctl(p)] = "idle"
  /\ \E v \in 1 .. Version(p), i \in 1 .. Len(LinksOf[p]) :
       /\ Alive(hist[p][v])
       /\ loc' = [loc EXCEPT ![Ctl(p)] = PlaceOf(hist[p][v])]
       /\ todo' = [todo EXCEPT ![Ctl(p)] = <<LinksOf[p][i]>>]
  /\ pc' = [pc EXCEPT ![Ctl(p)] = label]
  /\ UNCHANGED <<storeVars, kubeletVars, peer, upd, aliveVars,
                 dev, mutex, vxm, tm, miss, touches>>

AddLinks(p) == CallLinks(p, "add")

DelLinks(p) == CallLinks(p, "del")

Touch(p) ==
  /\ touches < MaxTouches
  /\ touches' = touches + 1
  /\ TouchByController(p)
  /\ UNCHANGED <<kubeletVars, handlerVars, aliveVars, dev, mutex, vxm, tm, miss, ctl>>

Watch(n, p) ==
  /\ Deliver(n, p)
  /\ UNCHANGED <<kubeletVars, handlerVars, aliveVars, dev, mutex, vxm, tm, miss, bounds>>

-----------------------------------------------------------------------------
SetAliveStep(p) ==
  \/ SetAliveRead(p)
  \/ SetAliveWrite(p)
  \/ SetAliveConflict(p)
  \/ SetAliveError(p)
  \/ SetFinalizer(p)

\* The steps of a handler that are not an acquisition of a mutex.
HandlerStep(h) ==
  \/ AddLinksDone(h)
  \/ AddLinkError(h)
  \/ AddLinkMacVlan(h)
  \/ AddLinkPhysical(h)
  \/ AddLinkSkip(h)
  \/ AddLinkAlive(h)
  \/ PlumbVeth(h)
  \/ PlumbVxLan(h)
  \/ CallUpdateRemote(h)
  \/ UpdateReturns(h)
  \/ UpdateSetup(h)
  \/ UpdateDone(h)
  \/ DelLinksDone(h)
  \/ DelLinkError(h)
  \/ DelLinkRemove(h)
  \/ DelLinkGet(h)
  \/ DelLinkDelete(h)

LockStep(h) ==
  \/ LockForVeth(h)
  \/ LockForVxLan(h)
  \/ UpdateLock(h)

\* Nothing is running: the cluster waits for the kubelet and the controller.
Quiet ==
  /\ \A h \in Handlers : pc[h] = "idle"
  /\ UNCHANGED vars

Next ==
  \/ \E p \in Pods :
       \/ \E n \in Nodes : SetupPod(p, n) \/ SetupPodUnread(p, n)
       \/ DestroyPod(p) \/ DestroyPodUnread(p)
       \/ RemoveSandbox(p)
       \/ SetAliveStep(p)
       \/ AddLinks(p)
       \/ DelLinks(p)
       \/ Touch(p)
  \/ \E h \in Handlers : HandlerStep(h) \/ LockStep(h)
  \/ \E n \in Nodes, p \in Pods : Watch(n, p)
  \/ Quiet

Spec == Init /\ [][Next]_vars

\* The goroutine of a handler runs, and a Go mutex does not starve a waiter.
Fairness ==
  /\ \A p \in Pods : WF_vars(SetAliveStep(p))
  /\ \A h \in Handlers : WF_vars(HandlerStep(h)) /\ SF_vars(LockStep(h))

FairSpec == Spec /\ Fairness

-----------------------------------------------------------------------------
(* Properties.                                                             *)

\* h is between Lock and Unlock of addLink, or of the Update it has called.
InAddLink(h, n, l) ==
  pc[h] \in {"veth", "vx", "vxadd"} /\ At(h) = n /\ Cur(h) = l
InUpdate(h, n, l) ==
  upd[h] \in {"locked", "setup"} /\ UpdNode(h) = n /\ Cur(h) = l

\* How the control state of the handlers hangs together: which sandbox a CNI
\* handler works for, on which daemon a handler runs, and when it has a link and
\* a peer at hand.
SandboxOK(p) ==
  /\ sbx[p] = "none" <=> node[p] = NoNode
  /\ sbx[p] \in {"adding", "deleting"} <=> pc[Cni(p)] # "idle"
  /\ sbx[p] = "adding" => loc[Cni(p)] = [node |-> node[p], gen |-> start[p]]
  /\ sbx[p] = "deleting" => loc[Cni(p)] = NoPlace
  /\ sbx[p] # "none" => start[p] # 0
  /\ pc[Ctl(p)] \notin {"read", "write", "fin"}
  /\ pc[Ctl(p)] # "idle" => loc[Ctl(p)].node \in Nodes

Simple == {"idle", "read", "write", "fin", "add", "del"}
Plumbing == {"vethlock", "veth", "vxlock", "vx", "vxadd"}

HandlerOK(h) ==
  /\ pc[h] \notin Simple => todo[h] # <<>>
  /\ pc[h] \in Plumbing => Peer(h) \in Pods
  /\ pc[h] \in Plumbing \cup {"rpc"} /\ Peer(h) \in Pods => peer[h].node \in Nodes
  /\ pc[h] = "rpc" => Peer(h) \in Pods \cup Phys
  /\ upd[h] # "none" => pc[h] = "rpc"

HandlersOK ==
  /\ \A p \in Pods : SandboxOK(p)
  /\ \A h \in Handlers : HandlerOK(h)

\* Who is between Lock and Unlock holds the mutex.
EntrantsHold ==
  \A n \in Nodes, l \in Links, h \in Handlers :
    /\ InAddLink(h, n, l) => mutex[n][l] = Own(h)
    /\ InUpdate(h, n, l) => mutex[n][l] = Rem(h)

\* A pod that has left a link to its peer, or is about to plumb its links, is
\* alive in the API server.
MissingPodsAlive ==
  \A p \in Pods :
    /\ (\E l \in Links : miss[p][l] # "no") => Alive(Current(p))
    /\ sbx[p] = "adding" /\ pc[Cni(p)] \notin {"read", "write"} => Alive(Current(p))

\* A link mutex is held only by a handler that is plumbing that link on that
\* node: never by one that waits for another mutex or for the answer of a
\* remote Update (the deadlock the comment in addLink is about), and never
\* after the handler has returned.
HoldersRun ==
  \A n \in Nodes, l \in Links, h \in Handlers :
    /\ mutex[n][l] = Own(h) => InAddLink(h, n, l)
    /\ mutex[n][l] = Rem(h) => InUpdate(h, n, l)

\* addLink and Update, of any callers, never plumb the same link on the same
\* node at the same time.
Exclusive ==
  \A n \in Nodes, l \in Links, g \in Handlers :
    /\ InAddLink(g, n, l)
         => \A h \in Handlers : (InAddLink(h, n, l) => g = h) /\ ~InUpdate(h, n, l)
    /\ InUpdate(g, n, l) => \A h \in Handlers : InUpdate(h, n, l) => g = h

\* The assumption of addLink that "the peer POD will do all the plumbing when
\* it comes up" can fail only through an informer store that lags: when the two
\* ends of a link leave the plumbing to each other, at least one of them was
\* told by its store that the other is dead although the API server knew better.
MissOnce ==
  \A p, q \in Pods, l \in Links :
    p # q /\ PeerOf[p][l] = q /\ PeerOf[q][l] = p
      => ~(miss[p][l] = "fresh" /\ miss[q][l] = "fresh")

VirtualLink(p, q, l) ==
  /\ p # q /\ PeerOf[p][l] = q /\ PeerOf[q][l] = p
  /\ \E i \in 1 .. Len(LinksOf[p]) : LinksOf[p][i] = l
  /\ \E i \in 1 .. Len(LinksOf[q]) : LinksOf[q][i] = l

\* The interface of link l in p that makes p and q neighbours.
Joined(p, q, l) ==
  IF node[p] = node[q] THEN dev[p][l] = Veth /\ dev[q][l] = Veth
  ELSE dev[p][l] = VxLan(node[q]) /\ dev[q][l] = VxLan(node[p])

BothUp(p, q) == sbx[p] = "up" /\ sbx[q] = "up"

\* Once SetupPod has succeeded for both pods of a link the link is there, as a
\* veth pair on one node and as two vxlan interfaces that point at each other
\* across nodes, unless a store that lagged made one of the pods skip it.
JoinedUnlessStale ==
  \A p, q \in Pods, l \in Links :
    VirtualLink(p, q, l) /\ BothUp(p, q) /\ "stale" \notin {miss[p][l], miss[q][l]}
      => Joined(p, q, l)

\* What the comment in addLink takes for granted: whichever pod comes up second
\* plumbs the link, so that two pods that are up are joined.
LastUpPlumbs ==
  \A p, q \in Pods, l \in Links :
    VirtualLink(p, q, l) /\ BothUp(p, q) => Joined(p, q, l)

\* Two pods of the same node are always joined once both are up: the daemon
\* assigns to the object in its own store, so that it never sees its own pods
\* as dead after SetAlive.
SameNodeJoined ==
  \A p, q \in Pods, l \in Links :
    VirtualLink(p, q, l) /\ BothUp(p, q) /\ node[p] = node[q] => Joined(p, q, l)

\* The vxlanManager of a node knows the namespace of every vxlan interface that
\* no handler is working on, so that Update can remove it.
VxmTracks ==
  \A p \in Pods, l \in Links :
    dev[p][l].kind = "vxlan" /\ mutex[node[p]][l] = Free
      => vxm[node[p]][l] = <<p, start[p]>>

\* The object in the API server tells the truth about a pod that is up and
\* about one that is gone, whatever the retries, conflicts and stale reads of
\* SetAlive were, unless a CNI call passed the pod by.
StatusTruthful ==
  \A p \in Pods : ~unread[p] =>
    /\ sbx[p] = "up" => PlaceOf(Current(p)) = [node |-> node[p], gen |-> start[p]]
    /\ sbx[p] \in {"none", "deleted"} => ~Alive(Current(p))

\* The topologyManager, from which the metrics of a node are collected, has the
\* pods that are up on the node and no pod that is not there.
MetricsTrack ==
  \A n \in Nodes, p \in Pods :
    /\ sbx[p] = "up" /\ node[p] = n /\ ~unread[p] => p \in tm[n]
    /\ sbx[p] \in {"none", "deleted"} \/ node[p] # n => p \notin tm[n]

\* Every call of a daemon returns: SetupPod, DestroyPod, AddLinks, DelLinks.
CallsReturn == \A h \in Handlers : pc[h] # "idle" ~> pc[h] = "idle"
=============================================================================
