---------------------------- MODULE DaemonProofs ----------------------------
(* Proofs about the daemons, for any pods, nodes, links and bounds: the     *)
(* types and the control state of the handlers; why two pods can skip a link *)
(* to each other only through a stale store; and why the API server and the  *)
(* topologyManagers are right about a pod whose CNI call has returned.       *)
EXTENDS Daemon, TLAPS

-----------------------------------------------------------------------------
(* The operations on the interfaces return interfaces.                     *)

Devices == [Pods -> [Links -> Device]]

\* Removing an interface, and the other end of a pair, leaves interfaces.
LEMMA RemoveVethLinkType ==
  ASSUME NEW d \in Devices, NEW p \in Pods, NEW l \in Links
  PROVE  RemoveVethLink(d, p, l) \in Devices
  BY Zenon DEF RemoveVethLink, Devices, Device, NoDev, Kinds

\* So does removing the vxlan with a given VNI from a namespace.
LEMMA RemoveLinkWithVniType ==
  ASSUME NEW d \in Devices, NEW n, NEW q, NEW g, NEW l \in Links
  PROVE  RemoveLinkWithVni(d, n, q, g, l) \in Devices
  BY Zenon DEF RemoveLinkWithVni, Devices, Device, NoDev, Kinds

\* SetupVeth returns a result and interfaces.
LEMMA SetupVethType ==
  ASSUME NEW d \in Devices, NEW n, NEW p \in Pods, NEW g, NEW q \in Pods, NEW gq,
         NEW l \in Links, NEW fault
  PROVE  /\ SetupVeth(d, n, p, g, q, gq, l, fault).ok \in BOOLEAN
         /\ SetupVeth(d, n, p, g, q, gq, l, fault).dev \in Devices
<1> DEFINE clean == IF IsExistLinkInNS(d, n, p, g, l) THEN RemoveVethLink(d, p, l)
                    ELSE IF IsExistLinkInNS(d, n, q, gq, l) THEN RemoveVethLink(d, q, l) ELSE d
<1>1. clean \in Devices
  BY Zenon, RemoveVethLinkType
<1>2. Veth \in Device
  BY Zenon DEF Veth, Device, Kinds
<1>3. [clean EXCEPT ![p][l] = Veth, ![q][l] = Veth] \in Devices
  <2> HIDE DEF clean
  <2> QED BY Zenon, <1>1, <1>2 DEF Devices
<1> QED
  BY Zenon, <1>1, <1>3 DEF SetupVeth

\* SetupVxLan returns a result and interfaces.
LEMMA SetupVxLanType ==
  ASSUME NEW d \in Devices, NEW n, NEW p \in Pods, NEW g, NEW l \in Links,
         NEW v \in Nodes \cup Phys \cup {NoNode}, NEW fault
  PROVE  /\ SetupVxLan(d, n, p, g, l, v, fault).ok \in BOOLEAN
         /\ SetupVxLan(d, n, p, g, l, v, fault).dev \in Devices
<1> DEFINE clean == RemoveVethLink(d, p, l)
<1>1. clean \in Devices
  BY Zenon, RemoveVethLinkType
<1>2. VxLan(v) \in Device
  BY Zenon DEF VxLan, Device, Kinds
<1>3. [clean EXCEPT ![p][l] = VxLan(v)] \in Devices
  <2> HIDE DEF clean
  <2> QED BY Zenon, <1>1, <1>2 DEF Devices
<1> QED
  BY Zenon, <1>1, <1>3 DEF SetupVxLan, CreateOrUpdate

-----------------------------------------------------------------------------
(* The control state of the handlers.                                      *)

\* The part of the type invariant about control.
ControlType ==
  /\ sbx \in [Pods -> Sandbox]
  /\ pc \in [Handlers -> PC]
  /\ loc \in [Handlers -> Place]
  /\ peer \in [Handlers -> Place]
  /\ todo \in [Handlers -> Seq(Links)]
  /\ upd \in [Handlers -> Upd]

\* Whoever holds a mutex: also an Update whose caller is dead (DaemonCrash).
Tenant == Holder \cup ({"late"} \X Handlers \X Nat)

\* TypeOK, but for who holds the mutexes.
Typed ==
  /\ StoreTypeOK
  /\ DevTypeOK
  /\ sbx \in [Pods -> Sandbox]
  /\ pc \in [Handlers -> PC]
  /\ loc \in [Handlers -> Place]
  /\ peer \in [Handlers -> Place]
  /\ todo \in [Handlers -> Seq(Links)]
  /\ upd \in [Handlers -> Upd]
  /\ rd \in [Pods -> Nat]
  /\ att \in [Pods -> 0 .. RetrySteps - 1]
  /\ unread \in [Pods -> BOOLEAN]
  /\ mutex \in [Nodes -> [Links -> Tenant]]
  /\ vxm \in [Nodes -> [Links -> {NoNs} \cup (Pods \X Nat)]]
  /\ tm \in [Nodes -> SUBSET Pods]
  /\ miss \in [Pods -> [Links -> {"no", "fresh", "stale"}]]
  /\ touches \in Nat
  /\ ctl \in Nat

Inv == Typed /\ HandlersOK

Control == ControlType /\ HandlersOK

\* The attempts of RetryOnConflict stay below their number.
LEMMA Attempts ==
  /\ 0 \in 0 .. RetrySteps - 1
  /\ \A a \in 0 .. RetrySteps - 1 :
       a + 1 < RetrySteps \/ a + 1 # RetrySteps => a + 1 \in 0 .. RetrySteps - 1
  BY DaemonAssumption

\* What is known of the handler that moves.
LEMMA HandlerFacts ==
  ASSUME Inv, NEW h \in Handlers
  PROVE  /\ h[1] \in Pods
         /\ h[2] \in {"cni", "ctl"}
         /\ h = <<h[1], h[2]>>
         /\ pc[h] # "idle" => At(h) \in Nodes
         /\ todo[h] # <<>> => Cur(h) \in Links /\ Peer(h) \in Pods \cup Phys \cup {Localhost}
         /\ pc[h] \notin Simple => todo[h] # <<>>
         /\ ControlType
<1>1. h[1] \in Pods /\ h[2] \in {"cni", "ctl"} /\ h = <<h[1], h[2]>>
  BY DEF Handlers
<1>2. ASSUME pc[h] # "idle" PROVE At(h) \in Nodes
  <2>1. SandboxOK(h[1])
    BY Zenon, <1>1 DEF Inv, HandlersOK
  <2>2. CASE h[2] = "cni"
    BY Zenon, <1>1, <1>2, <2>1, <2>2 DEF SandboxOK, At, Cni, Inv, Typed, DevTypeOK
  <2>3. CASE h[2] = "ctl"
    BY Zenon, <1>1, <1>2, <2>1, <2>3 DEF SandboxOK, At, Ctl
  <2> QED BY Zenon, <1>1, <2>2, <2>3
<1>3. ASSUME todo[h] # <<>>
      PROVE  Cur(h) \in Links /\ Peer(h) \in Pods \cup Phys \cup {Localhost}
  BY <1>1, <1>3, LinkAssumption DEF Inv, Typed, Cur, Peer
<1>4. pc[h] \notin Simple => todo[h] # <<>>
  BY Zenon DEF Inv, HandlersOK, HandlerOK
<1> QED BY Zenon, <1>1, <1>2, <1>3, <1>4 DEF Inv, Typed, ControlType

\* A handler that returns leaves the control state in order.
LEMMA ReturnControl ==
  ASSUME Inv, NEW h \in Handlers, NEW ok \in BOOLEAN, pc[h] # "idle",
         Return(h, ok), UNCHANGED <<node, start>>
  PROVE  Control'
<1> USE HandlerFacts
<1>1. ControlType'
  BY DEF ControlType, Return, PC, Place, NoPlace, Upd, Sandbox
<1>2. ASSUME NEW p \in Pods PROVE SandboxOK(p)'
  BY DEF ControlType, Inv, HandlersOK, SandboxOK, Return, Cni, Ctl, Handlers, Sandbox
<1>3. ASSUME NEW g \in Handlers PROVE HandlerOK(g)'
  BY Zenon DEF ControlType, Inv, HandlersOK, HandlerOK, Return, Simple, Plumbing, Peer, Cur
<1> QED BY Zenon, <1>1, <1>2, <1>3 DEF Control, HandlersOK

\* So does one that goes on with the next link.
LEMMA NextLinkControl ==
  ASSUME Inv, NEW h \in Handlers, NEW label \in {"add", "del"}, pc[h] # "idle",
         todo[h] # <<>>, NextLink(h, label), UNCHANGED <<node, start>>
  PROVE  Control'
<1> USE HandlerFacts
<1>1. ControlType'
  BY DEF ControlType, NextLink, PC, Place, NoPlace, Upd, Sandbox
<1>2. ASSUME NEW p \in Pods PROVE SandboxOK(p)'
  BY ZenonT(60) DEF ControlType, Inv, HandlersOK, SandboxOK, NextLink, Cni, Ctl, Handlers, Sandbox
<1>3. ASSUME NEW g \in Handlers PROVE HandlerOK(g)'
  BY Zenon DEF ControlType, Inv, HandlersOK, HandlerOK, NextLink, Simple, Plumbing, Peer, Cur
<1> QED BY Zenon, <1>1, <1>2, <1>3 DEF Control, HandlersOK

\* So does one that only moves on, to a place it may be in.
LEMMA GotoControl ==
  ASSUME Inv, NEW h \in Handlers, NEW label \in PC \ {"idle", "rpc"},
         pc[h] \notin {"idle", "rpc"},
         label \in {"read", "write", "fin"} => h[2] = "cni",
         label \notin Simple => todo[h] # <<>>,
         label \in Plumbing => Peer(h) \in Pods /\ peer[h].node \in Nodes,
         Goto(h, label), UNCHANGED <<node, start>>
  PROVE  Control'
<1> USE HandlerFacts
<1>1. ControlType'
  BY Zenon DEF ControlType, Goto, PC
<1>2. ASSUME NEW p \in Pods PROVE SandboxOK(p)'
  BY ZenonT(60) DEF ControlType, Inv, HandlersOK, SandboxOK, Goto, Cni, Ctl, Handlers, Sandbox
<1>3. ASSUME NEW g \in Handlers PROVE HandlerOK(g)'
  BY Zenon DEF ControlType, Inv, HandlersOK, HandlerOK, Goto, Simple, Plumbing, Peer, Cur
<1> QED BY Zenon, <1>1, <1>2, <1>3 DEF Control, HandlersOK

\* Nothing changes when the control variables do not.
LEMMA SameControl ==
  ASSUME Inv, UNCHANGED <<pc, loc, peer, todo, upd, sbx, node, start>>
  PROVE  Control'
  BY Zenon DEF Inv, Typed, Control, ControlType, HandlersOK, SandboxOK, HandlerOK, Peer, Cur

\* The initial state has the types, with every handler idle.
LEMMA InitInv == Init => Inv
  BY StoreAssumption, LinkAssumption, Attempts
  DEF Init, Inv, Typed, HandlersOK, SandboxOK, HandlerOK, StoreInit, DevInit, StoreTypeOK,
      DevTypeOK, Object, Unset, Place, NoPlace, Device, NoDev, Kinds, Sandbox, PC, Upd,
      Tenant, Holder, Free, NoNs, Handlers, Cni, Ctl, Simple, Plumbing

-----------------------------------------------------------------------------
(* Every step keeps the types and the control state in order.              *)

\* What the steps on links do not touch keeps its type, and the rest is assumed.
LEMMA LinkStepInv ==
  ASSUME Inv, UNCHANGED elsewhere, Control', dev' \in Devices,
         mutex' \in [Nodes -> [Links -> Tenant]],
         vxm' \in [Nodes -> [Links -> {NoNs} \cup (Pods \X Nat)]],
         miss' \in [Pods -> [Links -> {"no", "fresh", "stale"}]]
  PROVE  Inv'
  BY Zenon DEF Inv, Typed, Control, ControlType, elsewhere, storeVars, aliveVars, bounds,
         StoreTypeOK, DevTypeOK, Devices

\* The variables of the links keep their types when they do not change.
LEMMA LinkTypes ==
  ASSUME Inv
  PROVE  /\ dev \in Devices
         /\ mutex \in [Nodes -> [Links -> Tenant]]
         /\ vxm \in [Nodes -> [Links -> {NoNs} \cup (Pods \X Nat)]]
         /\ miss \in [Pods -> [Links -> {"no", "fresh", "stale"}]]
  BY Zenon DEF Inv, Typed, DevTypeOK, Devices

\* Locking for a handler and unlocking keep the type of the mutexes.
LEMMA MutexTypes ==
  ASSUME Inv, NEW h \in Handlers, NEW n \in Nodes, NEW l \in Links
  PROVE  /\ Unlock(n, l) => mutex' \in [Nodes -> [Links -> Tenant]]
         /\ Lock(n, l, Own(h)) => mutex' \in [Nodes -> [Links -> Tenant]]
         /\ Lock(n, l, Rem(h)) => mutex' \in [Nodes -> [Links -> Tenant]]
<1>1. Own(h) \in Tenant /\ Rem(h) \in Tenant /\ Free \in Tenant
  BY Zenon DEF Own, Rem, Tenant, Holder
<1>2. ASSUME NEW x \in Tenant
      PROVE  [mutex EXCEPT ![n][l] = x] \in [Nodes -> [Links -> Tenant]]
  <2>1. mutex \in [Nodes -> [Links -> Tenant]]
    BY Zenon DEF Inv, Typed
  <2>2. [mutex[n] EXCEPT ![l] = x] \in [Links -> Tenant]
    BY Zenon, <2>1
  <2> QED BY Zenon, <2>1, <2>2
<1> QED BY Zenon, <1>1, <1>2 DEF Unlock, Lock

\* So do vxlanManager.Add and vxlanManager.Delete that of the vxlanManagers.
LEMMA VxmType ==
  ASSUME Inv, NEW n \in Nodes, NEW l \in Links, NEW x \in {NoNs} \cup (Pods \X Nat)
  PROVE  [vxm EXCEPT ![n][l] = x] \in [Nodes -> [Links -> {NoNs} \cup (Pods \X Nat)]]
<1>1. vxm \in [Nodes -> [Links -> {NoNs} \cup (Pods \X Nat)]]
  BY Zenon DEF Inv, Typed
<1>2. [vxm[n] EXCEPT ![l] = x] \in [Links -> {NoNs} \cup (Pods \X Nat)]
  BY Zenon, <1>1
<1> QED BY Zenon, <1>1, <1>2

\* An object read by getPod on the node of a running daemon is an object.
LEMMA GetPodType ==
  ASSUME Inv, NEW n \in Nodes, NEW p \in Pods
  PROVE  /\ getPod(n, p).rv \in Nat
         /\ getPod(n, p).obj \in Object
         /\ Version(p) \in Nat \ {0}
         /\ Current(p) \in Object
<1>1. hist[p] \in Seq(Object) /\ hist[p] # <<>> /\ store[n][p] \in [rv : Nat, obj : Object]
  BY DEF Inv, Typed, StoreTypeOK
<1>2. Len(hist[p]) \in Nat \ {0} /\ hist[p][Len(hist[p])] \in Object
  BY <1>1
<1> QED BY Zenon, <1>1, <1>2 DEF getPod, Version, Current

\* A write that is accepted, and an assignment through the pointer getPod
\* returned, keep the types of the objects.
LEMMA StoreTypes ==
  ASSUME Inv, NEW n \in Nodes, NEW p \in Pods, NEW o \in Object
  PROVE  /\ Accept(p, o) => hist' \in [Pods -> Seq(Object) \ {<<>>}]
         /\ AssignInPlace(n, p, o) => store' \in [Nodes -> [Pods -> [rv : Nat, obj : Object]]]
<1>1. hist[p] \in Seq(Object)
  BY Zenon DEF Inv, Typed, StoreTypeOK
<1>2. Append(hist[p], o) \in Seq(Object) \ {<<>>}
  BY <1>1
<1>3. ASSUME Accept(p, o) PROVE hist' \in [Pods -> Seq(Object) \ {<<>>}]
  BY Zenon, <1>2, <1>3 DEF Accept, Inv, Typed, StoreTypeOK
<1>4. ASSUME AssignInPlace(n, p, o)
      PROVE  store' \in [Nodes -> [Pods -> [rv : Nat, obj : Object]]]
  <2>1. store \in [Nodes -> [Pods -> [rv : Nat, obj : Object]]]
    BY Zenon DEF Inv, Typed, StoreTypeOK
  <2>2. [store[n][p] EXCEPT !.obj = o] \in [rv : Nat, obj : Object]
    BY <2>1
  <2>3. [store[n] EXCEPT ![p] = [store[n][p] EXCEPT !.obj = o]] \in [Pods -> [rv : Nat, obj : Object]]
    BY Zenon, <2>1, <2>2
  <2> QED BY Zenon, <1>4, <2>1, <2>3 DEF AssignInPlace
<1> QED BY Zenon, <1>3, <1>4

\* The two handlers of a pod, and the handlers of two pods, differ.
LEMMA PodHandlers ==
  ASSUME NEW p \in Pods
  PROVE  /\ Cni(p) \in Handlers /\ Ctl(p) \in Handlers /\ Cni(p) # Ctl(p)
         /\ \A q \in Pods \ {p} : /\ Cni(q) \in Handlers \ {Cni(p), Ctl(p)}
                                  /\ Ctl(q) \in Handlers \ {Cni(p), Ctl(p)}
  BY Zenon DEF Cni, Ctl, Handlers

\* The sandbox of a pod that a step leaves alone stays in order.
LEMMA SandboxKept ==
  ASSUME NEW q, SandboxOK(q), sbx'[q] = sbx[q], node'[q] = node[q], start'[q] = start[q],
         pc'[Cni(q)] = pc[Cni(q)], loc'[Cni(q)] = loc[Cni(q)],
         pc'[Ctl(q)] = pc[Ctl(q)], loc'[Ctl(q)] = loc[Ctl(q)]
  PROVE  SandboxOK(q)'
  BY Zenon DEF SandboxOK

\* So does a handler that does not move.
LEMMA HandlerKept ==
  ASSUME NEW g, HandlerOK(g), pc'[g] = pc[g], peer'[g] = peer[g], todo'[g] = todo[g], upd'[g] = upd[g]
  PROVE  HandlerOK(g)'
  BY Zenon DEF HandlerOK, Peer, Cur

\* A handler that begins a call is in order.
LEMMA HandlerBegins ==
  ASSUME NEW g, pc'[g] \in Simple, upd'[g] = "none"
  PROVE  HandlerOK(g)'
  BY Zenon DEF HandlerOK, Simple, Plumbing

\* The kubelet begins a cmdAdd or a cmdDel.
LEMMA BeginCniControl ==
  ASSUME Inv, NEW p \in Pods, NEW s \in {"adding", "deleting"}, NEW pl,
         sbx[p] \notin {"adding", "deleting"},
         sbx' = [sbx EXCEPT ![p] = s], pc' = [pc EXCEPT ![Cni(p)] = "read"],
         loc' = [loc EXCEPT ![Cni(p)] = pl], todo' = [todo EXCEPT ![Cni(p)] = LinksOf[p]],
         UNCHANGED <<peer, upd>>,
         \A q \in Pods \ {p} : node'[q] = node[q] /\ start'[q] = start[q],
         node'[p] # NoNode, start'[p] # 0,
         s = "adding" => pl = [node |-> node'[p], gen |-> start'[p]],
         s = "deleting" => pl = NoPlace
  PROVE  HandlersOK'
<1>t. /\ sbx \in [Pods -> Sandbox] /\ pc \in [Handlers -> PC]
      /\ loc \in [Handlers -> Place] /\ todo \in [Handlers -> Seq(Links)]
  BY Zenon DEF Inv, Typed, DevTypeOK
<1>h. /\ Cni(p) \in Handlers /\ Ctl(p) \in Handlers /\ Cni(p) # Ctl(p)
      /\ SandboxOK(p) /\ HandlerOK(Cni(p))
  BY Zenon, PodHandlers DEF Inv, HandlersOK
<1>1. ASSUME NEW q \in Pods PROVE SandboxOK(q)'
  <2>1. CASE q = p
    BY Zenon, <1>t, <1>h, <2>1 DEF SandboxOK
  <2>2. CASE q # p
    <3>1. Cni(q) \in Handlers \ {Cni(p)} /\ Ctl(q) \in Handlers \ {Cni(p)}
      BY Zenon, <2>2, PodHandlers
    <3>2. /\ sbx'[q] = sbx[q] /\ node'[q] = node[q] /\ start'[q] = start[q]
          /\ pc'[Cni(q)] = pc[Cni(q)] /\ loc'[Cni(q)] = loc[Cni(q)]
          /\ pc'[Ctl(q)] = pc[Ctl(q)] /\ loc'[Ctl(q)] = loc[Ctl(q)]
      BY Zenon, <1>t, <2>2, <3>1
    <3> QED BY Zenon, <3>2, SandboxKept DEF Inv, HandlersOK
  <2> QED BY Zenon, <2>1, <2>2
<1>2. ASSUME NEW g \in Handlers PROVE HandlerOK(g)'
  <2>1. CASE g = Cni(p)
    <3>1. upd[Cni(p)] = "none"
      BY Zenon, <1>h DEF HandlerOK, SandboxOK
    <3> QED BY <1>t, <1>h, <2>1, <3>1, HandlerBegins DEF Simple
  <2>2. CASE g # Cni(p)
    <3>1. pc'[g] = pc[g] /\ peer'[g] = peer[g] /\ todo'[g] = todo[g] /\ upd'[g] = upd[g]
      BY Zenon, <1>t, <2>2
    <3> QED BY Zenon, <3>1, HandlerKept DEF Inv, HandlersOK
  <2> QED BY Zenon, <2>1, <2>2
<1> QED BY Zenon, <1>1, <1>2 DEF HandlersOK

\* The kubelet's steps that run no handler.
LEMMA NoHandlerControl ==
  ASSUME Inv, NEW p \in Pods, UNCHANGED handlerVars, pc[Cni(p)] = "idle",
         NEW s \in {"none", "up", "deleted"}, sbx' = [sbx EXCEPT ![p] = s],
         \A q \in Pods \ {p} : node'[q] = node[q] /\ start'[q] = start[q],
         s = "none" <=> node'[p] = NoNode, s # "none" => start'[p] # 0
  PROVE  HandlersOK'
<1>t. sbx \in [Pods -> Sandbox]
  BY Zenon DEF Inv, Typed, DevTypeOK
<1>1. ASSUME NEW q \in Pods PROVE SandboxOK(q)'
  <2>0. SandboxOK(q) /\ UNCHANGED <<pc, loc>>
    BY Zenon DEF Inv, HandlersOK, handlerVars
  <2>1. CASE q = p
    BY Zenon, <1>t, <2>0, <2>1 DEF SandboxOK
  <2>2. CASE q # p
    BY Zenon, <1>t, <2>0, <2>2, SandboxKept
  <2> QED BY Zenon, <2>1, <2>2
<1>2. ASSUME NEW g \in Handlers PROVE HandlerOK(g)'
  BY Zenon, HandlerKept DEF Inv, HandlersOK, handlerVars
<1> QED BY Zenon, <1>1, <1>2 DEF HandlersOK

\* A sandbox that no handler of the kubelet works on.
LEMMA CniIdle ==
  ASSUME Inv, NEW p \in Pods, sbx[p] \notin {"adding", "deleting"}
  PROVE  pc[Cni(p)] = "idle" /\ (node[p] # NoNode <=> sbx[p] # "none") /\ (sbx[p] # "none" => start[p] # 0)
  BY Zenon DEF Inv, HandlersOK, SandboxOK

\* SetupPod and the sandbox it is called for.
LEMMA SetupPodInv ==
  ASSUME Inv, NEW p \in Pods, NEW n \in Nodes, SetupPod(p, n)
  PROVE  Inv'
<1>1. [node |-> n, gen |-> start[p] + 1] \in Place /\ LinksOf[p] \in Seq(Links) /\ start[p] \in Nat
  BY LinkAssumption DEF Inv, Typed, DevTypeOK, Place
<1>2. Typed'
  BY <1>1, PodHandlers, SMTT(30)
  DEF SetupPod, NewSandbox, Inv, Typed, StoreTypeOK, DevTypeOK, storeVars, aliveVars, bounds, PC, Sandbox
<1>3. /\ node'[p] = n /\ start'[p] = start[p] + 1 /\ n # NoNode
      /\ \A q \in Pods \ {p} : node'[q] = node[q] /\ start'[q] = start[q]
  BY Zenon, StoreAssumption DEF SetupPod, NewSandbox, Inv, Typed, DevTypeOK
<1>4. start'[p] # 0
  BY <1>1, <1>3, SMTT(30)
<1>5. HandlersOK'
  <2>1. /\ sbx[p] = "none" /\ sbx' = [sbx EXCEPT ![p] = "adding"]
        /\ pc' = [pc EXCEPT ![Cni(p)] = "read"] /\ todo' = [todo EXCEPT ![Cni(p)] = LinksOf[p]]
        /\ loc' = [loc EXCEPT ![Cni(p)] = [node |-> node'[p], gen |-> start'[p]]]
        /\ UNCHANGED <<peer, upd>>
    BY Zenon, <1>3 DEF SetupPod, NewSandbox
  <2> QED BY Zenon, <1>3, <1>4, <2>1, BeginCniControl
<1> QED BY Zenon, <1>2, <1>5 DEF Inv

\* DestroyPod.
LEMMA DestroyPodInv ==
  ASSUME Inv, NEW p \in Pods, DestroyPod(p)
  PROVE  Inv'
<1>1. sbx[p] \in {"failed", "up"}
  BY Zenon DEF DestroyPod, DeletedSandbox
<1>2. Typed'
  <2>1. NoPlace \in Place /\ LinksOf[p] \in Seq(Links) /\ Cni(p) \in Handlers
    BY Zenon, LinkAssumption, PodHandlers DEF NoPlace, Place
  <2>2. /\ sbx' \in [Pods -> Sandbox] /\ pc' \in [Handlers -> PC]
        /\ loc' \in [Handlers -> Place] /\ todo' \in [Handlers -> Seq(Links)]
    BY Zenon, <2>1 DEF DestroyPod, Inv, Typed, DevTypeOK, Sandbox, PC
  <2>3. tm' \in [Nodes -> SUBSET Pods]
    BY Zenon DEF DestroyPod, Inv, Typed, DevTypeOK
  <2> QED BY Zenon, <2>2, <2>3
      DEF DestroyPod, Inv, Typed, StoreTypeOK, DevTypeOK, storeVars, aliveVars, bounds
<1>3. HandlersOK'
  <2>1. UNCHANGED <<node, start, peer, upd>> /\ node[p] # NoNode /\ start[p] # 0
    BY Zenon, <1>1, CniIdle DEF DestroyPod
  <2> QED BY <1>1, <2>1, BeginCniControl, ZenonT(60) DEF DestroyPod
<1> QED BY Zenon, <1>2, <1>3 DEF Inv

\* The removal of a sandbox.
LEMMA RemoveSandboxInv ==
  ASSUME Inv, NEW p \in Pods, RemoveSandbox(p)
  PROVE  Inv'
<1>1. Typed'
  BY StoreAssumption, SMTT(30)
  DEF RemoveSandbox, Inv, Typed, StoreTypeOK, DevTypeOK, storeVars, aliveVars, bounds,
      handlerVars, Sandbox, Device, NoDev, Kinds
<1>2. /\ sbx[p] = "deleted" /\ sbx' = [sbx EXCEPT ![p] = "none"] /\ node'[p] = NoNode
      /\ UNCHANGED handlerVars
      /\ \A q \in Pods \ {p} : node'[q] = node[q] /\ start'[q] = start[q]
  BY Zenon DEF RemoveSandbox, Inv, Typed, DevTypeOK
<1>3. HandlersOK'
  BY <1>2, CniIdle, NoHandlerControl, ZenonT(60)
<1> QED BY Zenon, <1>1, <1>3 DEF Inv

\* A SetupPod that does not find the pod.
LEMMA SetupPodUnreadInv ==
  ASSUME Inv, NEW p \in Pods, NEW n \in Nodes, SetupPodUnread(p, n)
  PROVE  Inv'
<1>1. Typed'
  BY SMTT(30) DEF SetupPodUnread, NewSandbox, Inv, Typed, StoreTypeOK, DevTypeOK, storeVars, handlerVars,
         bounds, Sandbox
<1>2. /\ sbx[p] = "none" /\ sbx' = [sbx EXCEPT ![p] = "up"] /\ node'[p] = n /\ n # NoNode
      /\ start[p] \in Nat /\ start'[p] = start[p] + 1
      /\ UNCHANGED handlerVars
      /\ \A q \in Pods \ {p} : node'[q] = node[q] /\ start'[q] = start[q]
  BY Zenon, StoreAssumption DEF SetupPodUnread, NewSandbox, Inv, Typed, DevTypeOK
<1>3. start'[p] # 0
  BY <1>2
<1>4. HandlersOK'
  BY Zenon, <1>2, <1>3, CniIdle, NoHandlerControl
<1> QED BY Zenon, <1>1, <1>4 DEF Inv

\* A DestroyPod that does not find the pod.
LEMMA DestroyPodUnreadInv ==
  ASSUME Inv, NEW p \in Pods, DestroyPodUnread(p)
  PROVE  Inv'
<1>1. Typed'
  BY Zenon DEF DestroyPodUnread, Inv, Typed, StoreTypeOK, DevTypeOK, storeVars, handlerVars, bounds, Sandbox
<1>2. /\ sbx[p] \in {"failed", "up"} /\ sbx' = [sbx EXCEPT ![p] = "deleted"]
      /\ UNCHANGED <<handlerVars, node, start>>
  BY Zenon DEF DestroyPodUnread, DeletedSandbox
<1>3. pc[Cni(p)] = "idle" /\ node'[p] # NoNode /\ start'[p] # 0
  BY Zenon, <1>2, CniIdle
<1>4. HandlersOK'
  BY Zenon, <1>2, <1>3, NoHandlerControl
<1> QED BY Zenon, <1>1, <1>4 DEF Inv

\* The steps of the kubelet.
LEMMA KubeletInv ==
  ASSUME Inv, NEW p \in Pods,
         \/ \E n \in Nodes : SetupPod(p, n) \/ SetupPodUnread(p, n)
         \/ DestroyPod(p) \/ DestroyPodUnread(p) \/ RemoveSandbox(p)
  PROVE  Inv'
  BY Zenon, SetupPodInv, SetupPodUnreadInv, DestroyPodInv, DestroyPodUnreadInv, RemoveSandboxInv

-----------------------------------------------------------------------------
(* The steps of a handler on a link: addLink, delLink and the Update it     *)
(* calls keep the types and the control state.                             *)

\* A handler that starts or waits for an Update keeps the control state in order.
LEMMA CallControl ==
  ASSUME Inv, NEW h \in Handlers, pc[h] # "idle", todo[h] # <<>>,
         Peer(h) \in Pods \cup Phys, Peer(h) \in Pods => peer[h].node \in Nodes,
         pc' = [pc EXCEPT ![h] = "rpc"], NEW s \in Upd, upd' = [upd EXCEPT ![h] = s],
         UNCHANGED <<loc, peer, todo, sbx, node, start>>
  PROVE  Control'
<1> USE HandlerFacts
<1>1. ControlType'
  BY Zenon DEF ControlType, PC
<1>2. ASSUME NEW p \in Pods PROVE SandboxOK(p)'
  BY ZenonT(60) DEF ControlType, Inv, HandlersOK, SandboxOK, Cni, Ctl, Handlers, Sandbox
<1>3. ASSUME NEW g \in Handlers PROVE HandlerOK(g)'
  BY Zenon DEF ControlType, Inv, HandlersOK, HandlerOK, Simple, Plumbing, Peer, Cur
<1> QED BY Zenon, <1>1, <1>2, <1>3 DEF Control, HandlersOK

\* So does one that has found its peer alive.
LEMMA AliveControl ==
  ASSUME Inv, NEW h \in Handlers, pc[h] = "add", todo[h] # <<>>, Peer(h) \in Pods,
         NEW x \in Place, x.node \in Nodes, peer' = [peer EXCEPT ![h] = x],
         NEW label \in {"vethlock", "vxlock"}, pc' = [pc EXCEPT ![h] = label],
         UNCHANGED <<loc, todo, upd, sbx, node, start>>
  PROVE  Control'
<1> USE HandlerFacts
<1>1. ControlType'
  BY Zenon DEF ControlType, PC
<1>2. ASSUME NEW p \in Pods PROVE SandboxOK(p)'
  BY ZenonT(60) DEF ControlType, Inv, HandlersOK, SandboxOK, Cni, Ctl, Handlers, Sandbox
<1>3. ASSUME NEW g \in Handlers PROVE HandlerOK(g)'
  BY Zenon DEF ControlType, Inv, HandlersOK, HandlerOK, Simple, Plumbing, Peer, Cur
<1> QED BY Zenon, <1>1, <1>2, <1>3 DEF Control, HandlersOK

\* The steps of AddLinks and addLink, up to the call of Update and its return.
LEMMA AddLinkInv ==
  ASSUME Inv, NEW h \in Handlers,
         \/ AddLinksDone(h) \/ AddLinkError(h) \/ AddLinkMacVlan(h) \/ AddLinkPhysical(h)
         \/ AddLinkSkip(h) \/ AddLinkAlive(h)
  PROVE  Inv'
<1> USE LinkTypes, HandlerFacts
<1>1. CASE AddLinksDone(h) \/ AddLinkError(h)
  <2>1. Control'
    BY Zenon, <1>1, ReturnControl DEF AddLinksDone, AddLinkError, AddingLink, elsewhere
  <2> QED BY Zenon, <1>1, <2>1, LinkStepInv DEF AddLinksDone, AddLinkError
<1>2. CASE AddLinkMacVlan(h)
  <2>1. AddingLink(h) /\ (NextLink(h, "add") \/ Return(h, FALSE)) /\ UNCHANGED elsewhere
    BY Zenon, <1>2 DEF AddLinkMacVlan
  <2>2. Control'
    <3>1. CASE NextLink(h, "add")
      BY Zenon, <2>1, <3>1, NextLinkControl DEF AddingLink, elsewhere
    <3>2. CASE Return(h, FALSE)
      BY Zenon, <2>1, <3>2, ReturnControl DEF AddingLink, elsewhere
    <3> QED BY Zenon, <2>1, <3>1, <3>2
  <2>3. [dev[h[1]] EXCEPT ![Cur(h)] = MacVlan] \in [Links -> Device]
    BY Zenon, <2>1 DEF AddingLink, Devices, MacVlan, Device, Kinds
  <2>4. dev' \in Devices
    BY Zenon, <1>2, <2>1, <2>3 DEF AddLinkMacVlan, Devices
  <2> QED BY Zenon, <1>2, <2>2, <2>4, LinkStepInv DEF AddLinkMacVlan
<1>3. CASE AddLinkPhysical(h)
  <2>1. Control'
    BY Zenon, <1>3, CallControl, LinkAssumption DEF AddLinkPhysical, AddingLink, elsewhere, Upd
  <2> QED BY Zenon, <1>3, <2>1, LinkStepInv DEF AddLinkPhysical
<1>4. CASE AddLinkSkip(h)
  <2>1. Control'
    BY Zenon, <1>4, NextLinkControl DEF AddLinkSkip, AddingLink, elsewhere
  <2>2. ASSUME NEW x \in {"fresh", "stale"}
        PROVE  [miss EXCEPT ![h[1]][Cur(h)] = x] \in [Pods -> [Links -> {"no", "fresh", "stale"}]]
    <3>1. [miss[h[1]] EXCEPT ![Cur(h)] = x] \in [Links -> {"no", "fresh", "stale"}]
      BY Zenon, <1>4 DEF AddLinkSkip, AddingLink
    <3> QED BY Zenon, <3>1
  <2>3. miss' \in [Pods -> [Links -> {"no", "fresh", "stale"}]]
    BY Zenon, <1>4, <2>2 DEF AddLinkSkip
  <2> QED BY Zenon, <1>4, <2>1, <2>3, LinkStepInv DEF AddLinkSkip
<1>5. CASE AddLinkAlive(h)
  <2> DEFINE o == getPod(At(h), Peer(h)).obj
  <2>1. AddingLink(h) /\ Peer(h) \in Pods /\ At(h) \in Nodes /\ Alive(o)
    BY Zenon, <1>5 DEF AddLinkAlive, AddingLink
  <2>2. o \in Object
    BY Zenon, <2>1, GetPodType
  <2>3. PlaceOf(o) \in Place /\ PlaceOf(o).node \in Nodes
    BY Zenon, <2>1, <2>2 DEF Object, Place, PlaceOf, Alive
  <2>4. Control'
    BY Zenon, <1>5, <2>1, <2>3, AliveControl DEF AddLinkAlive, AddingLink, elsewhere
  <2> QED BY Zenon, <1>5, <2>4, LinkStepInv DEF AddLinkAlive
<1> QED BY Zenon, <1>1, <1>2, <1>3, <1>4, <1>5

\* The steps of addLink that take a mutex, plumb, and call Update.
LEMMA PlumbInv ==
  ASSUME Inv, NEW h \in Handlers,
         \/ LockForVeth(h) \/ PlumbVeth(h) \/ LockForVxLan(h) \/ PlumbVxLan(h)
         \/ CallUpdateRemote(h) \/ UpdateReturns(h)
  PROVE  Inv'
<1> USE LinkTypes, HandlerFacts
<1>a. pc[h] \in Plumbing => /\ Peer(h) \in Pods /\ peer[h].node \in Nodes /\ todo[h] # <<>>
                            /\ At(h) \in Nodes /\ Cur(h) \in Links
  BY Zenon DEF Inv, HandlersOK, HandlerOK, Plumbing, Simple
<1>1. CASE LockForVeth(h) \/ LockForVxLan(h)
  <2>1. Control'
    BY Zenon, <1>1, <1>a, GotoControl DEF LockForVeth, LockForVxLan, elsewhere, Plumbing, Simple, PC
  <2>2. mutex' \in [Nodes -> [Links -> Tenant]]
    BY Zenon, <1>1, <1>a, MutexTypes DEF LockForVeth, LockForVxLan, Plumbing
  <2> QED BY Zenon, <1>1, <2>1, <2>2, LinkStepInv DEF LockForVeth, LockForVxLan
<1>2. CASE PlumbVeth(h)
  <2>1. PICK fault \in Faults(Cur(h)) : PlumbVethWith(h, fault)
    BY Zenon, <1>2 DEF PlumbVeth
  <2>2. pc[h] = "veth" /\ (NextLink(h, "add") \/ Return(h, FALSE)) /\ UNCHANGED elsewhere
    BY Zenon, <1>2, <2>1 DEF PlumbVeth, PlumbVethWith
  <2>3. Control'
    <3>1. CASE NextLink(h, "add")
      BY Zenon, <2>2, <3>1, <1>a, NextLinkControl DEF elsewhere, Plumbing
    <3>2. CASE Return(h, FALSE)
      BY Zenon, <2>2, <3>2, ReturnControl DEF elsewhere
    <3> QED BY Zenon, <2>2, <3>1, <3>2
  <2>4. dev' \in Devices
    BY Zenon, <2>1, <2>2, <1>a, SetupVethType DEF PlumbVethWith, Plumbing
  <2>5. mutex' \in [Nodes -> [Links -> Tenant]]
    BY Zenon, <2>1, <2>2, <1>a, MutexTypes DEF PlumbVethWith, Plumbing
  <2> QED BY Zenon, <2>1, <2>3, <2>4, <2>5, LinkStepInv DEF PlumbVethWith
<1>3. CASE PlumbVxLan(h)
  <2>1. PICK fault \in Faults(Cur(h)) : PlumbVxLanWith(h, fault)
    BY Zenon, <1>3 DEF PlumbVxLan
  <2>2. pc[h] = "vx" /\ (Goto(h, "vxadd") \/ Return(h, FALSE)) /\ UNCHANGED elsewhere
    BY Zenon, <1>3, <2>1 DEF PlumbVxLan, PlumbVxLanWith
  <2>3. Control'
    <3>1. CASE Goto(h, "vxadd")
      BY Zenon, <2>2, <3>1, <1>a, GotoControl DEF elsewhere, Plumbing, Simple, PC
    <3>2. CASE Return(h, FALSE)
      BY Zenon, <2>2, <3>2, ReturnControl DEF elsewhere
    <3> QED BY Zenon, <2>2, <3>1, <3>2
  <2>4. dev' \in Devices
    BY Zenon, <2>1, <2>2, <1>a, SetupVxLanType DEF PlumbVxLanWith, Plumbing
  <2>5. mutex' \in [Nodes -> [Links -> Tenant]]
    BY Zenon, <2>1, <2>2, <1>a, MutexTypes DEF PlumbVxLanWith, Plumbing
  <2> QED BY Zenon, <2>1, <2>3, <2>4, <2>5, LinkStepInv DEF PlumbVxLanWith
<1>4. CASE CallUpdateRemote(h)
  <2>1. Control'
    BY Zenon, <1>4, <1>a, CallControl DEF CallUpdateRemote, elsewhere, Upd, Plumbing
  <2>2. mutex' \in [Nodes -> [Links -> Tenant]]
    BY Zenon, <1>4, <1>a, MutexTypes DEF CallUpdateRemote, Plumbing
  <2>3. vxm' \in [Nodes -> [Links -> {NoNs} \cup (Pods \X Nat)]]
    BY <1>4, <1>a, VxmType DEF CallUpdateRemote, Plumbing, ControlType, Place
  <2> QED BY Zenon, <1>4, <2>1, <2>2, <2>3, LinkStepInv DEF CallUpdateRemote
<1>5. CASE UpdateReturns(h)
  <2>1. pc[h] = "rpc" /\ (NextLink(h, "add") \/ Return(h, FALSE)) /\ UNCHANGED elsewhere
    BY Zenon, <1>5 DEF UpdateReturns
  <2>2. Control'
    <3>1. CASE NextLink(h, "add")
      BY Zenon, <2>1, <3>1, NextLinkControl DEF elsewhere, Simple
    <3>2. CASE Return(h, FALSE)
      BY Zenon, <2>1, <3>2, ReturnControl DEF elsewhere
    <3> QED BY Zenon, <2>1, <3>1, <3>2
  <2> QED BY Zenon, <1>5, <2>2, LinkStepInv DEF UpdateReturns
<1> QED BY Zenon, <1>1, <1>2, <1>3, <1>4, <1>5
\* The steps of the Update that h has called.
LEMMA UpdateInv ==
  ASSUME Inv, NEW h \in Handlers, UpdateLock(h) \/ UpdateSetup(h) \/ UpdateDone(h)
  PROVE  Inv'
<1> USE LinkTypes, HandlerFacts
<1>1. pc[h] = "rpc" /\ todo[h] # <<>> /\ Peer(h) \in Pods \cup Phys
      /\ (Peer(h) \in Pods => peer[h].node \in Nodes)
  BY Zenon DEF UpdateLock, UpdateSetup, UpdateDone, Inv, HandlersOK, HandlerOK, Simple
<1>2. /\ Cur(h) \in Links /\ UpdNode(h) \in Nodes /\ UpdPod(h) \in Pods /\ UpdGen(h) \in Nat
      /\ UpdVtep(h) \in Nodes \cup Phys \cup {NoNode}
  BY Zenon, <1>1 DEF UpdNode, UpdPod, UpdGen, UpdVtep, ControlType, Place
<1>3. ASSUME NEW s \in Upd, UpdateStep(h, s) PROVE Control' /\ UNCHANGED <<elsewhere, miss>>
  <2>1. pc' = [pc EXCEPT ![h] = "rpc"]
    BY Zenon, <1>1, <1>3 DEF UpdateStep, ControlType
  <2> QED BY Zenon, <1>1, <1>3, <2>1, CallControl DEF UpdateStep, elsewhere
<1>4. CASE UpdateLock(h)
  BY Zenon, <1>4, <1>2, <1>3, MutexTypes, LinkStepInv DEF UpdateLock, Upd
<1>5. CASE UpdateSetup(h)
  <2>1. PICK fault \in Faults(Cur(h)) : UpdateSetupWith(h, fault)
    BY Zenon, <1>5 DEF UpdateSetup
  <2>2. PICK d \in Devices :
          LET r == SetupVxLan(d, UpdNode(h), UpdPod(h), UpdGen(h), Cur(h), UpdVtep(h), fault)
          IN  /\ dev' = r.dev
              /\ IF r.ok THEN UNCHANGED mutex ELSE Unlock(UpdNode(h), Cur(h))
              /\ UpdateStep(h, IF r.ok THEN "setup" ELSE "err")
              /\ UNCHANGED vxm
    BY Zenon, <2>1, <1>2, RemoveLinkWithVniType DEF UpdateSetupWith
  <2>3. dev' \in Devices
    BY Zenon, <2>2, <1>2, SetupVxLanType
  <2>4. mutex' \in [Nodes -> [Links -> Tenant]]
    BY Zenon, <2>2, <1>2, MutexTypes
  <2>5. Control' /\ UNCHANGED <<elsewhere, miss>>
    BY Zenon, <2>2, <1>3 DEF Upd
  <2> QED BY Zenon, <2>2, <2>3, <2>4, <2>5, LinkStepInv
<1>6. CASE UpdateDone(h)
  <2>1. vxm' \in [Nodes -> [Links -> {NoNs} \cup (Pods \X Nat)]]
    BY <1>6, <1>2, VxmType DEF UpdateDone
  <2>2. mutex' \in [Nodes -> [Links -> Tenant]]
    BY Zenon, <1>6, <1>2, MutexTypes DEF UpdateDone
  <2> QED BY Zenon, <1>6, <1>3, <2>1, <2>2, LinkStepInv DEF UpdateDone, Upd
<1> QED BY Zenon, <1>4, <1>5, <1>6

\* The steps of DelLinks and delLink.
LEMMA DelLinkInv ==
  ASSUME Inv, NEW h \in Handlers,
         \/ DelLinksDone(h) \/ DelLinkError(h) \/ DelLinkRemove(h)
         \/ DelLinkGet(h) \/ DelLinkDelete(h)
  PROVE  Inv'
<1> USE LinkTypes, HandlerFacts
<1>1. CASE DelLinksDone(h) \/ DelLinkError(h)
  <2>1. Control'
    BY Zenon, <1>1, ReturnControl DEF DelLinksDone, DelLinkError, elsewhere
  <2> QED BY Zenon, <1>1, <2>1, LinkStepInv DEF DelLinksDone, DelLinkError
<1>2. CASE DelLinkRemove(h)
  <2>1. Control'
    BY Zenon, <1>2, GotoControl DEF DelLinkRemove, elsewhere, PC, Simple, Plumbing
  <2>2. dev' \in Devices
    BY Zenon, <1>2, RemoveVethLinkType DEF DelLinkRemove
  <2> QED BY Zenon, <1>2, <2>1, <2>2, LinkStepInv DEF DelLinkRemove
<1>3. CASE DelLinkGet(h)
  <2>1. pc[h] = "delget" /\ todo[h] # <<>> /\ (Goto(h, "deldel") \/ NextLink(h, "del"))
        /\ UNCHANGED elsewhere
    BY <1>3, SMTT(30) DEF DelLinkGet, Simple
  <2>2. Control'
    <3>1. CASE Goto(h, "deldel")
      BY Zenon, <2>1, <3>1, GotoControl DEF elsewhere, PC, Simple, Plumbing
    <3>2. CASE NextLink(h, "del")
      BY Zenon, <2>1, <3>2, NextLinkControl DEF elsewhere
    <3> QED BY Zenon, <2>1, <3>1, <3>2
  <2> QED BY Zenon, <1>3, <2>2, LinkStepInv DEF DelLinkGet
<1>4. CASE DelLinkDelete(h)
  <2>1. pc[h] = "deldel" /\ todo[h] # <<>>
    BY Zenon, <1>4 DEF DelLinkDelete, Simple
  <2>2. Control'
    BY Zenon, <1>4, <2>1, NextLinkControl DEF DelLinkDelete, elsewhere
  <2>3. vxm' \in [Nodes -> [Links -> {NoNs} \cup (Pods \X Nat)]]
    BY Zenon, <1>4, <2>1, VxmType DEF DelLinkDelete
  <2> QED BY Zenon, <1>4, <2>2, <2>3, LinkStepInv DEF DelLinkDelete
<1> QED BY Zenon, <1>1, <1>2, <1>3, <1>4

-----------------------------------------------------------------------------
(* Proofs about the daemons, for any pods, nodes, links and bounds.        *)

\* The steps of SetAlive.
LEMMA SetAliveInv ==
  ASSUME Inv, NEW p \in Pods, SetAliveStep(p)
  PROVE  Inv'
<1> DEFINE h == Cni(p)
           t == getPod(node[p], p)
<1>h. h \in Handlers /\ h[1] = p /\ h[2] = "cni"
  BY Zenon DEF Cni, Handlers
<1>n. pc[h] # "idle" => node[p] \in Nodes
  BY Zenon, <1>h, HandlerFacts DEF At
<1>l. loc[h] \in Place
  BY Zenon, <1>h, HandlerFacts DEF ControlType
<1>r. ASSUME Control', UNCHANGED <<node, start, dev, mutex, vxm, bounds>>,
             hist' \in [Pods -> Seq(Object) \ {<<>>}],
             store' \in [Nodes -> [Pods -> [rv : Nat, obj : Object]]],
             rd' \in [Pods -> Nat], att' \in [Pods -> 0 .. RetrySteps - 1], unread' \in [Pods -> BOOLEAN],
             tm' \in [Nodes -> SUBSET Pods],
             miss' \in [Pods -> [Links -> {"no", "fresh", "stale"}]]
      PROVE  Inv'
  BY Zenon, <1>r DEF Inv, Typed, Control, ControlType, bounds, StoreTypeOK, DevTypeOK
<1> HIDE DEF h
<1>1. ASSUME SetAliveRead(p) PROVE Inv'
  <2>1. pc[h] = "read" /\ node[p] \in Nodes
    BY Zenon, <1>1, <1>n DEF SetAliveRead, h
  <2>2. Control'
    BY Zenon, <1>1, <2>1, <1>h, GotoControl DEF SetAliveRead, h, PC, Simple, Plumbing
  <2>3. [t.obj EXCEPT !.node = loc[h].node, !.gen = loc[h].gen] \in Object /\ t.rv \in Nat
    BY <2>1, <1>l, GetPodType, ZenonT(60) DEF Object, Place
  <2>4. store' \in [Nodes -> [Pods -> [rv : Nat, obj : Object]]]
    BY Zenon, <1>1, <2>1, <2>3, StoreTypes DEF SetAliveRead, h
  <2>5. /\ rd' \in [Pods -> Nat]
        /\ tm' \in [Nodes -> SUBSET Pods]
    BY Zenon, <1>1, <2>3 DEF SetAliveRead, Inv, Typed
  <2> QED BY Zenon, <1>1, <1>r, <2>2, <2>4, <2>5 DEF SetAliveRead, Inv, Typed, StoreTypeOK
<1>2. ASSUME SetAliveWrite(p) PROVE Inv'
  <2>1. pc[h] = "write" /\ node[p] \in Nodes
    BY Zenon, <1>2, <1>n DEF SetAliveWrite, h
  <2>2. Control'
    BY Zenon, <1>2, <2>1, <1>h, GotoControl DEF SetAliveWrite, h, PC, Simple, Plumbing
  <2>3. [Current(p) EXCEPT !.node = loc[h].node, !.gen = loc[h].gen] \in Object
    BY Zenon, <2>1, <1>l, GetPodType DEF Object, Place
  <2>4. hist' \in [Pods -> Seq(Object) \ {<<>>}]
    BY Zenon, <1>2, <2>1, <2>3, StoreTypes DEF SetAliveWrite, h
  <2>5. /\ att' \in [Pods -> 0 .. RetrySteps - 1]
        /\ unread' \in [Pods -> BOOLEAN]
        /\ miss' \in [Pods -> [Links -> {"no", "fresh", "stale"}]]
    BY Zenon, <1>2, Attempts DEF SetAliveWrite, Inv, Typed
  <2> QED BY <1>2, <1>r, <2>2, <2>4, <2>5, SMTT(30) DEF SetAliveWrite, Inv, Typed, StoreTypeOK
<1>3. ASSUME SetAliveConflict(p) PROVE Inv'
  <2>1. pc[h] = "write" /\ (Goto(h, "read") \/ Return(h, FALSE)) /\ UNCHANGED <<node, start>>
    BY Zenon, <1>3 DEF SetAliveConflict, h
  <2>2. Control'
    <3>1. CASE Goto(h, "read")
      BY Zenon, <2>1, <3>1, <1>h, GotoControl DEF PC, Simple, Plumbing
    <3>2. CASE Return(h, FALSE)
      BY Zenon, <2>1, <3>2, <1>h, ReturnControl
    <3> QED BY Zenon, <2>1, <3>1, <3>2
  <2>3. att' \in [Pods -> 0 .. RetrySteps - 1]
    BY Zenon, <1>3, Attempts DEF SetAliveConflict, Inv, Typed
  <2> QED BY Zenon, <1>3, <1>r, <2>2, <2>3 DEF SetAliveConflict, storeVars, Inv, Typed, StoreTypeOK
<1>4. ASSUME SetAliveError(p) PROVE Inv'
  <2>1. Control'
    BY Zenon, <1>4, <1>h, ReturnControl DEF SetAliveError, h
  <2>2. att' \in [Pods -> 0 .. RetrySteps - 1]
    BY Zenon, <1>4, Attempts DEF SetAliveError, Inv, Typed
  <2> QED BY Zenon, <1>4, <1>r, <2>1, <2>2 DEF SetAliveError, storeVars, Inv, Typed, StoreTypeOK
<1>5. ASSUME SetFinalizer(p) PROVE Inv'
  <2> DEFINE fin == IF Alive(loc[h]) THEN t.obj.fin + 1 ELSE 0
  <2>1. pc[h] = "fin" /\ node[p] \in Nodes
    BY Zenon, <1>5, <1>n DEF SetFinalizer, h
  <2>2. PICK label \in {"fin", "add", "del"} : Goto(h, label)
    BY Zenon, <1>5 DEF SetFinalizer, h
  <2>3. Control'
    BY Zenon, <1>5, <2>1, <2>2, <1>h, GotoControl DEF SetFinalizer, PC, Simple, Plumbing
  <2>4. [t.obj EXCEPT !.fin = fin] \in Object /\ [Current(p) EXCEPT !.fin = fin] \in Object
    BY <2>1, GetPodType DEF Object
  <2>5. store' \in [Nodes -> [Pods -> [rv : Nat, obj : Object]]]
    BY Zenon, <1>5, <2>1, <2>4, StoreTypes DEF SetFinalizer, h
  <2>6. hist' \in [Pods -> Seq(Object) \ {<<>>}]
    BY Zenon, <1>5, <2>1, <2>4, StoreTypes DEF SetFinalizer, h, Inv, Typed, StoreTypeOK
  <2>7. att' \in [Pods -> 0 .. RetrySteps - 1]
    <3>1. PICK next : /\ next = 0 \/ (att[p] + 1 # RetrySteps /\ next = att[p] + 1)
                      /\ att' = [att EXCEPT ![p] = next]
      BY Zenon, <1>5 DEF SetFinalizer
    <3>2. next \in 0 .. RetrySteps - 1
      BY Zenon, <3>1, Attempts DEF Inv, Typed
    <3> QED BY Zenon, <3>1, <3>2 DEF Inv, Typed
  <2> QED BY Zenon, <1>5, <1>r, <2>3, <2>5, <2>6, <2>7 DEF SetFinalizer, Inv, Typed
<1> QED BY Zenon, <1>1, <1>2, <1>3, <1>4, <1>5 DEF SetAliveStep

\* The controller begins an AddLinks or a DelLinks with one link of a status it
\* has read.
LEMMA CallLinksInv ==
  ASSUME Inv, NEW p \in Pods, NEW label \in {"add", "del"}, CallLinks(p, label)
  PROVE  Inv'
<1>1. PICK pl \in Place, ls \in Seq(Links) :
        /\ pl.node \in Nodes
        /\ loc' = [loc EXCEPT ![Ctl(p)] = pl]
        /\ todo' = [todo EXCEPT ![Ctl(p)] = ls]
  <2>1. PICK v \in 1 .. Version(p), i \in 1 .. Len(LinksOf[p]) :
          /\ Alive(hist[p][v])
          /\ loc' = [loc EXCEPT ![Ctl(p)] = PlaceOf(hist[p][v])]
          /\ todo' = [todo EXCEPT ![Ctl(p)] = <<LinksOf[p][i]>>]
    BY Zenon DEF CallLinks
  <2>2. hist[p][v] \in Object
    <3>1. hist[p] \in Seq(Object)
      BY Zenon DEF Inv, Typed, StoreTypeOK
    <3> QED BY <3>1 DEF Version
  <2>3. LinksOf[p][i] \in Links
    <3>1. LinksOf[p] \in Seq(Links)
      BY Zenon, LinkAssumption
    <3> QED BY <3>1
  <2>4. PlaceOf(hist[p][v]) \in Place /\ PlaceOf(hist[p][v]).node \in Nodes
    BY Zenon, <2>1, <2>2 DEF PlaceOf, Alive, Object, Place
  <2>5. <<LinksOf[p][i]>> \in Seq(Links)
    BY <2>3
  <2> DEFINE pl == PlaceOf(hist[p][v])
             ls == <<LinksOf[p][i]>>
  <2>6. /\ pl \in Place /\ pl.node \in Nodes /\ ls \in Seq(Links)
        /\ loc' = [loc EXCEPT ![Ctl(p)] = pl] /\ todo' = [todo EXCEPT ![Ctl(p)] = ls]
    BY Zenon, <2>1, <2>4, <2>5
  <2> HIDE DEF pl, ls
  <2> QED BY Zenon, <2>6
<1>2. /\ pc[Ctl(p)] = "idle" /\ pc' = [pc EXCEPT ![Ctl(p)] = label] /\ ctl' = ctl + 1
      /\ UNCHANGED <<storeVars, kubeletVars, peer, upd, aliveVars, dev, mutex, vxm, tm, miss, touches>>
  BY Zenon DEF CallLinks
<1>t. /\ pc \in [Handlers -> PC] /\ loc \in [Handlers -> Place]
      /\ todo \in [Handlers -> Seq(Links)] /\ ctl \in Nat
  BY Zenon DEF Inv, Typed
<1>h. Ctl(p) \in Handlers /\ SandboxOK(p) /\ HandlerOK(Ctl(p)) /\ Cni(p) \in Handlers \ {Ctl(p)}
  BY Zenon, PodHandlers DEF Inv, HandlersOK
<1>3. Typed'
  <2>1. /\ loc' \in [Handlers -> Place] /\ todo' \in [Handlers -> Seq(Links)]
        /\ pc' \in [Handlers -> PC] /\ ctl' \in Nat
    BY <1>1, <1>2, <1>t, <1>h DEF PC
  <2> QED BY Zenon, <1>2, <2>1
      DEF Inv, Typed, StoreTypeOK, DevTypeOK, storeVars, kubeletVars, aliveVars
<1>4. ASSUME NEW q \in Pods PROVE SandboxOK(q)'
  <2>1. UNCHANGED <<sbx, node, start>>
    BY Zenon, <1>2 DEF kubeletVars
  <2>2. CASE q = p
    BY Zenon, <1>1, <1>2, <1>t, <1>h, <2>1, <2>2 DEF SandboxOK
  <2>3. CASE q # p
    <3>1. Cni(q) \in Handlers \ {Ctl(p)} /\ Ctl(q) \in Handlers \ {Ctl(p)}
      BY Zenon, <2>3, PodHandlers
    <3>2. /\ pc'[Cni(q)] = pc[Cni(q)] /\ loc'[Cni(q)] = loc[Cni(q)]
          /\ pc'[Ctl(q)] = pc[Ctl(q)] /\ loc'[Ctl(q)] = loc[Ctl(q)]
      BY Zenon, <1>1, <1>2, <1>t, <3>1
    <3> QED BY Zenon, <2>1, <3>2, SandboxKept DEF Inv, HandlersOK
  <2> QED BY Zenon, <2>2, <2>3
<1>5. ASSUME NEW g \in Handlers PROVE HandlerOK(g)'
  <2>1. CASE g = Ctl(p)
    <3>1. upd[Ctl(p)] = "none"
      BY Zenon, <1>2, <1>h DEF HandlerOK
    <3> QED BY <1>2, <1>t, <1>h, <2>1, <3>1, HandlerBegins DEF Simple
  <2>2. CASE g # Ctl(p)
    <3>1. pc'[g] = pc[g] /\ peer'[g] = peer[g] /\ todo'[g] = todo[g] /\ upd'[g] = upd[g]
      BY Zenon, <1>1, <1>2, <1>t, <2>2
    <3> QED BY Zenon, <3>1, HandlerKept DEF Inv, HandlersOK
  <2> QED BY Zenon, <2>1, <2>2
<1> QED BY Zenon, <1>3, <1>4, <1>5 DEF Inv, HandlersOK

\* A step that changes only the objects and the stores.
LEMMA StoreStepInv ==
  ASSUME Inv, UNCHANGED <<kubeletVars, handlerVars, aliveVars, dev, mutex, vxm, tm, miss, ctl>>,
         StoreTypeOK', touches' \in Nat
  PROVE  Inv'
<1>1. Control'
  BY Zenon, SameControl DEF kubeletVars, handlerVars
<1> QED BY Zenon, <1>1 DEF Inv, Control, ControlType, Typed, DevTypeOK, kubeletVars, aliveVars

\* The controller writes an object of its own.
LEMMA TouchInv ==
  ASSUME Inv, NEW p \in Pods, Touch(p)
  PROVE  Inv'
<1>1. hist[p] \in Seq(Object) \ {<<>>}
  BY Zenon DEF Inv, Typed, StoreTypeOK
<1>2. Append(hist[p], hist[p][Len(hist[p])]) \in Seq(Object) \ {<<>>}
  BY <1>1
<1>3. StoreTypeOK'
  BY Zenon, <1>2 DEF Touch, TouchByController, Current, Version, Inv, Typed, StoreTypeOK
<1> QED BY <1>3, StoreStepInv DEF Touch, Inv, Typed

\* The watch brings a version of an object to the store of a node.
LEMMA WatchInv ==
  ASSUME Inv, NEW p \in Pods, NEW n \in Nodes, Watch(n, p)
  PROVE  Inv'
<1>1. StoreTypeOK'
  <2>1. PICK v \in (store[n][p].rv + 1) .. Version(p) :
          /\ store' = [store EXCEPT ![n][p] = [rv |-> v, obj |-> hist[p][v]]]
          /\ UNCHANGED hist
    BY Zenon DEF Watch, Deliver
  <2>2. store \in [Nodes -> [Pods -> [rv : Nat, obj : Object]]] /\ hist[p] \in Seq(Object)
    BY Zenon DEF Inv, Typed, StoreTypeOK
  <2>3. store[n][p].rv \in Nat /\ Version(p) \in Nat
    BY <2>2 DEF Version
  <2>4. [rv |-> v, obj |-> hist[p][v]] \in [rv : Nat, obj : Object]
    BY <2>2, <2>3 DEF Version
  <2>5. [store[n] EXCEPT ![p] = [rv |-> v, obj |-> hist[p][v]]] \in [Pods -> [rv : Nat, obj : Object]]
    BY Zenon, <2>2, <2>4
  <2>6. store' \in [Nodes -> [Pods -> [rv : Nat, obj : Object]]]
    BY Zenon, <2>1, <2>2, <2>5
  <2> QED BY Zenon, <2>1, <2>6 DEF Inv, Typed, StoreTypeOK
<1> QED BY Zenon, <1>1, StoreStepInv DEF Watch, bounds, Inv, Typed

\* The steps of the controller and of the watch.
LEMMA ControllerInv ==
  ASSUME Inv, NEW p \in Pods,
         AddLinks(p) \/ DelLinks(p) \/ Touch(p) \/ \E n \in Nodes : Watch(n, p)
  PROVE  Inv'
  BY Zenon, CallLinksInv, TouchInv, WatchInv DEF AddLinks, DelLinks

\* Every step of the daemons, the kubelet and the controller.
LEMMA NextInv == Inv /\ [Next]_vars => Inv'
<1> SUFFICES ASSUME Inv, [Next]_vars PROVE Inv'
  BY Zenon
<1>1. ASSUME NEW p \in Pods,
             \/ \E n \in Nodes : SetupPod(p, n) \/ SetupPodUnread(p, n)
             \/ DestroyPod(p) \/ DestroyPodUnread(p) \/ RemoveSandbox(p)
      PROVE  Inv'
  BY Zenon, <1>1, KubeletInv
<1>2. ASSUME NEW p \in Pods, SetAliveStep(p) PROVE Inv'
  BY Zenon, <1>2, SetAliveInv
<1>3. ASSUME NEW p \in Pods,
             AddLinks(p) \/ DelLinks(p) \/ Touch(p) \/ \E n \in Nodes : Watch(n, p)
      PROVE  Inv'
  BY Zenon, <1>3, ControllerInv
<1>4. ASSUME NEW h \in Handlers, HandlerStep(h) \/ LockStep(h) PROVE Inv'
  BY Zenon, <1>4, AddLinkInv, PlumbInv, UpdateInv, DelLinkInv DEF HandlerStep, LockStep
<1>5. CASE UNCHANGED vars
  <2>1. Control'
    BY Zenon, <1>5, SameControl DEF vars, kubeletVars, handlerVars
  <2> QED BY Zenon, <1>5, <2>1, LinkStepInv, LinkTypes
      DEF vars, kubeletVars, elsewhere
<1> QED BY Zenon, <1>1, <1>2, <1>3, <1>4, <1>5 DEF Next, Quiet

\* The types, and that the control state of the handlers hangs together.
THEOREM HandlersCorrect == Spec => []Inv
  BY InitInv, NextInv, PTL DEF Spec

\* A step leaves the mutex of link l on node n alone, gives it back, or takes it
\* for a handler when it is free.
MutexStep(n, l) == mutex'[n][l] \in {mutex[n][l], Free} \/ (mutex[n][l] = Free /\ mutex'[n][l] \in Holder)

\* Lock and Unlock are steps of the mutex.
LEMMA LockMutex ==
  ASSUME Inv, NEW m, NEW k, NEW who \in Holder, Lock(m, k, who) \/ Unlock(m, k) \/ UNCHANGED mutex
  PROVE  \A n \in Nodes, l \in Links : MutexStep(n, l)
<1> SUFFICES ASSUME NEW n \in Nodes, NEW l \in Links PROVE MutexStep(n, l)
  BY Zenon
<1>1. mutex \in [Nodes -> [Links -> Tenant]]
  BY Zenon DEF Inv, Typed
<1>2. ASSUME Lock(m, k, who) PROVE MutexStep(n, l)
  BY Zenon, <1>1, <1>2 DEF Lock, MutexStep
<1>3. ASSUME Unlock(m, k) PROVE MutexStep(n, l)
  BY Zenon, <1>1, <1>3 DEF Unlock, MutexStep
<1>4. ASSUME UNCHANGED mutex PROVE MutexStep(n, l)
  BY Zenon, <1>4 DEF MutexStep
<1> QED BY Zenon, <1>2, <1>3, <1>4

\* So is every step of a handler.
LEMMA HandlerMutex ==
  ASSUME Inv, NEW h \in Handlers, HandlerStep(h) \/ LockStep(h)
  PROVE  \A n \in Nodes, l \in Links : MutexStep(n, l)
<1>h. Own(h) \in Holder /\ Rem(h) \in Holder
  BY Zenon DEF Own, Rem, Holder
<1>1. CASE LockStep(h)
  BY Zenon, <1>h, <1>1, LockMutex DEF LockStep, LockForVeth, LockForVxLan, UpdateLock
<1>2. CASE PlumbVeth(h) \/ PlumbVxLan(h)
  BY Zenon, <1>h, <1>2, LockMutex DEF PlumbVeth, PlumbVethWith, PlumbVxLan, PlumbVxLanWith
<1>3. CASE CallUpdateRemote(h) \/ UpdateDone(h)
  BY Zenon, <1>h, <1>3, LockMutex DEF CallUpdateRemote, UpdateDone
<1>4. CASE UpdateSetup(h)
  BY Zenon, <1>h, <1>4, LockMutex DEF UpdateSetup, UpdateSetupWith
<1>5. CASE \/ AddLinksDone(h) \/ AddLinkError(h) \/ AddLinkMacVlan(h) \/ AddLinkPhysical(h)
           \/ AddLinkSkip(h) \/ AddLinkAlive(h) \/ UpdateReturns(h)
  BY Zenon, <1>h, <1>5, LockMutex DEF AddLinksDone, AddLinkError, AddLinkMacVlan, AddLinkPhysical,
     AddLinkSkip, AddLinkAlive, UpdateReturns
<1>6. CASE \/ DelLinksDone(h) \/ DelLinkError(h) \/ DelLinkRemove(h) \/ DelLinkGet(h)
           \/ DelLinkDelete(h)
  BY Zenon, <1>h, <1>6, LockMutex DEF DelLinksDone, DelLinkError, DelLinkRemove, DelLinkGet, DelLinkDelete
<1> QED BY Zenon, <1>1, <1>2, <1>3, <1>4, <1>5, <1>6 DEF HandlerStep

\* And the other steps take and give back no mutex.
LEMMA NextMutex ==
  ASSUME Inv, [Next]_vars
  PROVE  \A n \in Nodes, l \in Links : MutexStep(n, l)
<1>0. ASSUME NEW p \in Pods, NEW n \in Nodes, SetupPod(p, n) \/ SetupPodUnread(p, n)
      PROVE  UNCHANGED mutex
  BY Zenon, <1>0 DEF SetupPod, SetupPodUnread
<1>1. ASSUME NEW p \in Pods, DestroyPod(p) \/ DestroyPodUnread(p) \/ RemoveSandbox(p)
      PROVE  UNCHANGED mutex
  BY Zenon, <1>1 DEF DestroyPod, DestroyPodUnread, RemoveSandbox
<1>2. ASSUME NEW p \in Pods, SetAliveStep(p) PROVE UNCHANGED mutex
  BY Zenon, <1>2 DEF SetAliveStep, SetAliveRead, SetAliveWrite, SetAliveConflict, SetAliveError,
     SetFinalizer
<1>3. ASSUME NEW p \in Pods, AddLinks(p) \/ DelLinks(p) \/ Touch(p) PROVE UNCHANGED mutex
  BY Zenon, <1>3 DEF AddLinks, DelLinks, CallLinks, Touch
<1>4. ASSUME NEW n \in Nodes, NEW p \in Pods, Watch(n, p) PROVE UNCHANGED mutex
  BY Zenon, <1>4 DEF Watch
<1>5. UNCHANGED vars => UNCHANGED mutex
  BY Zenon DEF vars
<1>6. \/ \E h \in Handlers : HandlerStep(h) \/ LockStep(h)
      \/ UNCHANGED mutex
  BY <1>0, <1>1, <1>2, <1>3, <1>4, <1>5, ZenonT(60) DEF Next, Quiet
<1>7. UNCHANGED mutex => \A n \in Nodes, l \in Links : MutexStep(n, l)
  BY Zenon DEF MutexStep
<1> QED BY Zenon, <1>6, <1>7, HandlerMutex

\* Every variable keeps its type: no handler is lost between two lines of code
\* and no interface or mutex is given to something that is not there.
THEOREM TypeCorrect == Spec => []TypeOK
<1>1. Init => TypeOK
  BY StoreAssumption, LinkAssumption, Attempts
  DEF Init, TypeOK, StoreInit, DevInit, StoreTypeOK, DevTypeOK, Object, Unset, Place, NoPlace,
      Device, NoDev, Kinds, Sandbox, PC, Upd, Holder, Free, NoNs, Handlers
<1>2. Inv /\ Inv' /\ TypeOK /\ [Next]_vars => TypeOK'
  <2> SUFFICES ASSUME Inv, Inv', TypeOK, [Next]_vars PROVE TypeOK'
    BY Zenon
  <2>0. \A n \in Nodes, l \in Links : mutex[n][l] \in Holder
    BY Zenon DEF TypeOK
  <2>1. \A n \in Nodes, l \in Links : mutex'[n][l] \in Holder
    BY Zenon, <2>0, NextMutex DEF MutexStep, Holder
  <2>2. mutex' \in [Nodes -> [Links -> Holder]]
    BY Zenon, <2>1 DEF Inv, Typed
  <2> QED BY Zenon, <2>2 DEF Inv, Typed, TypeOK
<1> QED BY <1>1, <1>2, HandlersCorrect, PTL DEF Spec

-----------------------------------------------------------------------------
(* What is known of the pods.                                              *)

Deleting == {"read", "write", "fin", "del", "delget", "deldel"}

\* DestroyPod never gets into addLink.
DeletersDelete == \A p \in Pods : sbx[p] = "deleting" => pc[Cni(p)] \in Deleting

MissInv == MissingPodsAlive /\ DeletersDelete /\ MissOnce

\* What a step does to the object of a pod in the API server.
LEMMA AcceptAlive ==
  ASSUME Inv, NEW p \in Pods, NEW o \in Object, Accept(p, o), NEW q \in Pods
  PROVE  Alive(Current(q))' <=> IF q = p THEN Alive(o) ELSE Alive(Current(q))
<1>1. hist \in [Pods -> Seq(Object) \ {<<>>}]
  BY Zenon DEF Inv, Typed, StoreTypeOK
<1>2. CASE hist' = hist /\ o = Current(p)
  BY Zenon, <1>2 DEF Current, Version, Alive
<1>3. CASE hist' = [hist EXCEPT ![p] = Append(@, o)]
  <2>1. hist'[p][Len(hist'[p])] = o
    BY <1>1, <1>3
  <2>2. q # p => hist'[q] = hist[q]
    BY Zenon, <1>1, <1>3
  <2> QED BY Zenon, <2>1, <2>2 DEF Current, Version, Alive
<1> QED BY Zenon, <1>2, <1>3 DEF Accept

\* A step that leaves the marks alone and makes no pod dead, and after which a
\* pod is in AddLinks only if it was on its way there.
LEMMA SameMiss ==
  ASSUME Inv, MissInv, UNCHANGED miss,
         \A p \in Pods :
           /\ Alive(Current(p)) => Alive(Current(p))'
           /\ sbx'[p] = "adding" /\ pc'[Cni(p)] \notin {"read", "write"}
                => \/ sbx[p] = "adding" /\ pc[Cni(p)] \notin {"read", "write"}
                   \/ Alive(Current(p))'
           /\ sbx'[p] = "deleting" => pc'[Cni(p)] \in Deleting
  PROVE  MissInv'
<1>1. MissOnce'
  BY Zenon DEF MissInv, MissOnce
<1>2. DeletersDelete'
  BY Zenon DEF DeletersDelete, Cni
<1>3. MissingPodsAlive'
  BY Zenon DEF MissInv, MissingPodsAlive, Cni
<1> QED BY Zenon, <1>1, <1>2, <1>3 DEF MissInv

\* The steps of the kubelet, of the controller and of the watch.
LEMMA OtherStepMiss ==
  ASSUME Inv, MissInv, NEW p \in Pods,
         \/ \E n \in Nodes : SetupPod(p, n) \/ SetupPodUnread(p, n)
         \/ DestroyPod(p) \/ DestroyPodUnread(p) \/ RemoveSandbox(p)
         \/ AddLinks(p) \/ DelLinks(p) \/ Touch(p) \/ \E n \in Nodes : Watch(n, p)
  PROVE  MissInv'
<1>t. /\ pc \in [Handlers -> PC] /\ sbx \in [Pods -> Sandbox]
      /\ \A q \in Pods : Cni(q) \in Handlers /\ Ctl(q) \in Handlers
      /\ \A q, r \in Pods : (Cni(q) = Cni(r) <=> q = r) /\ Cni(q) # Ctl(r)
  BY Zenon DEF Inv, Typed, Cni, Ctl, Handlers
<1>1. CASE \/ \E n \in Nodes : SetupPod(p, n) \/ SetupPodUnread(p, n)
           \/ DestroyPod(p) \/ DestroyPodUnread(p) \/ RemoveSandbox(p)
  <2>1. UNCHANGED <<hist, miss>>
    BY Zenon, <1>1 DEF SetupPod, SetupPodUnread, DestroyPod, DestroyPodUnread, RemoveSandbox, storeVars
  <2>2. ASSUME NEW q \in Pods
        PROVE  /\ sbx'[q] = "adding" /\ pc'[Cni(q)] \notin {"read", "write"}
                    => sbx[q] = "adding" /\ pc[Cni(q)] \notin {"read", "write"}
               /\ sbx'[q] = "deleting" => pc'[Cni(q)] \in Deleting
    <3>1. CASE q # p
      <4>1. sbx'[q] = sbx[q] /\ pc'[Cni(q)] = pc[Cni(q)]
        BY Zenon, <1>1, <1>t, <3>1
        DEF SetupPod, SetupPodUnread, DestroyPod, DestroyPodUnread, RemoveSandbox, handlerVars
      <4> QED BY Zenon, <4>1 DEF MissInv, DeletersDelete
    <3>2. CASE q = p
      <4>1. \/ sbx'[p] \in {"adding", "deleting"} /\ pc'[Cni(p)] = "read"
            \/ sbx'[p] \in {"up", "deleted", "none"}
        BY Zenon, <1>1, <1>t
        DEF SetupPod, SetupPodUnread, DestroyPod, DestroyPodUnread, RemoveSandbox
      <4> QED BY Zenon, <3>2, <4>1 DEF Deleting
    <3> QED BY Zenon, <3>1, <3>2
  <2> QED BY Zenon, <2>1, <2>2, SameMiss DEF Current, Version, Alive
<1>2. CASE AddLinks(p) \/ DelLinks(p)
  <2>1. UNCHANGED <<hist, miss, sbx>> /\ \A q \in Pods : pc'[Cni(q)] = pc[Cni(q)]
    <3>1. UNCHANGED <<hist, miss, sbx>>
      BY Zenon, <1>2 DEF AddLinks, DelLinks, CallLinks, storeVars, kubeletVars
    <3>2. PICK label : pc' = [pc EXCEPT ![Ctl(p)] = label]
      BY Zenon, <1>2 DEF AddLinks, DelLinks, CallLinks
    <3> QED BY Zenon, <1>t, <3>1, <3>2
  <2>2. \A q \in Pods : sbx'[q] = "deleting" => pc'[Cni(q)] \in Deleting
    BY Zenon, <2>1 DEF MissInv, DeletersDelete
  <2> QED BY Zenon, <2>1, <2>2, SameMiss DEF Current, Version, Alive
<1>3. CASE Touch(p)
  <2>1. UNCHANGED <<miss, sbx, pc>> /\ hist' = [hist EXCEPT ![p] = Append(@, Current(p))]
    BY Zenon, <1>3 DEF Touch, TouchByController, kubeletVars, handlerVars
  <2>2. hist \in [Pods -> Seq(Object) \ {<<>>}]
    BY Zenon DEF Inv, Typed, StoreTypeOK
  <2>3. ASSUME NEW q \in Pods PROVE hist'[q][Len(hist'[q])] = hist[q][Len(hist[q])]
    BY <2>1, <2>2 DEF Current, Version
  <2> QED BY Zenon, <2>1, <2>3, SameMiss DEF Current, Version, Alive, MissInv, DeletersDelete
<1>4. CASE \E n \in Nodes : Watch(n, p)
  <2>1. UNCHANGED <<hist, miss, sbx, pc>>
    BY Zenon, <1>4 DEF Watch, Deliver, kubeletVars, handlerVars
  <2> QED BY Zenon, <2>1, SameMiss DEF Current, Version, Alive, MissInv, DeletersDelete
<1> QED BY Zenon, <1>1, <1>2, <1>3, <1>4

\* The steps of SetAlive: the write makes a pod that is set up alive before it
\* gets to its links, and forgets the marks of one that is destroyed.
LEMMA SetAliveMiss ==
  ASSUME Inv, MissInv, NEW p \in Pods, SetAliveStep(p)
  PROVE  MissInv'
<1> DEFINE h == Cni(p)
<1>t. /\ pc \in [Handlers -> PC] /\ sbx \in [Pods -> Sandbox] /\ loc \in [Handlers -> Place]
      /\ h[1] = p /\ h[2] = "cni"
      /\ \A q \in Pods : Cni(q) \in Handlers
      /\ \A q, r \in Pods : Cni(q) = Cni(r) <=> q = r
  BY Zenon DEF Inv, Typed, Cni, Handlers
<1>s. SandboxOK(p)
  BY Zenon DEF Inv, HandlersOK
<1>l. pc[h] # "idle" => /\ sbx[p] \in {"adding", "deleting"} /\ node[p] \in Nodes
                        /\ sbx[p] = "adding" <=> Alive(loc[h])
  BY <1>s, StoreAssumption DEF SandboxOK, Alive, NoPlace, Inv, Typed, DevTypeOK
<1>g. ASSUME NEW label \in {"read", "write", "fin", "add", "del"}, Goto(h, label)
      PROVE  /\ sbx' = sbx /\ pc'[h] = label
             /\ \A q \in Pods \ {p} : pc'[Cni(q)] = pc[Cni(q)]
  BY Zenon, <1>g, <1>t DEF Goto
<1> HIDE DEF h
<1>1. CASE SetAliveRead(p) \/ SetAliveConflict(p) \/ SetAliveError(p)
  <2>1. /\ UNCHANGED <<hist, miss>> /\ pc[h] \in {"read", "write"}
        /\ Goto(h, "read") \/ Goto(h, "write") \/ Return(h, FALSE)
    BY Zenon, <1>1 DEF SetAliveRead, SetAliveConflict, SetAliveError, storeVars, h
  <2>2. ASSUME NEW q \in Pods
        PROVE  /\ sbx'[q] = "adding" /\ pc'[Cni(q)] \notin {"read", "write"}
                    => sbx[q] = "adding" /\ pc[Cni(q)] \notin {"read", "write"}
               /\ sbx'[q] = "deleting" => pc'[Cni(q)] \in Deleting
    <3>1. CASE Goto(h, "read") \/ Goto(h, "write")
      BY Zenon, <1>g, <1>t, <3>1 DEF MissInv, DeletersDelete, Deleting, h
    <3>2. CASE Return(h, FALSE)
      <4>1. sbx' = [sbx EXCEPT ![p] = "failed"] /\ (q # p => pc'[Cni(q)] = pc[Cni(q)])
        BY Zenon, <1>t, <3>2 DEF Return, h
      <4> QED BY Zenon, <1>t, <4>1 DEF MissInv, DeletersDelete
    <3> QED BY Zenon, <2>1, <3>1, <3>2
  <2> QED BY Zenon, <2>1, <2>2, SameMiss DEF Current, Version, Alive
<1>2. CASE SetAliveWrite(p)
  <2> DEFINE o == [Current(p) EXCEPT !.node = loc[h].node, !.gen = loc[h].gen]
  <2>1. /\ pc[h] = "write" /\ Accept(p, o) /\ Goto(h, "fin")
        /\ miss' = IF Alive(loc[h]) THEN miss ELSE [miss EXCEPT ![p] = [l \in Links |-> "no"]]
    BY Zenon, <1>2 DEF SetAliveWrite, h
  <2>2. o \in Object /\ (Alive(o) <=> Alive(loc[h]))
    BY <2>1, <1>l, <1>t, GetPodType, ZenonT(60) DEF Object, Place, Alive, h
  <2>3. ASSUME NEW q \in Pods
        PROVE  Alive(Current(q))' <=> IF q = p THEN Alive(loc[h]) ELSE Alive(Current(q))
    <3> HIDE DEF o
    <3> QED BY Zenon, <2>1, <2>2, AcceptAlive
  <2>4. sbx' = sbx /\ pc'[h] = "fin" /\ \A q \in Pods \ {p} : pc'[Cni(q)] = pc[Cni(q)]
    BY Zenon, <1>g, <2>1
  <2>5. DeletersDelete'
    BY Zenon, <2>4 DEF MissInv, DeletersDelete, Deleting, h, Cni
  <2>6. ASSUME NEW q \in Pods
        PROVE  /\ (\E l \in Links : miss'[q][l] # "no") => Alive(Current(q))'
               /\ sbx'[q] = "adding" /\ pc'[Cni(q)] \notin {"read", "write"} => Alive(Current(q))'
    <3>1. CASE q = p
      BY Zenon, <3>1, <2>1, <2>3, <2>4, <1>l DEF Inv, Typed
    <3>2. CASE q # p
      BY Zenon, <3>2, <2>1, <2>3, <2>4 DEF MissInv, MissingPodsAlive, Inv, Typed
    <3> QED BY Zenon, <3>1, <3>2
  <2>7. MissOnce'
    BY Zenon, <2>1 DEF MissInv, MissOnce, Inv, Typed
  <2>8. MissingPodsAlive'
    BY Zenon, <2>6 DEF MissingPodsAlive, Cni
  <2> QED BY Zenon, <2>5, <2>7, <2>8 DEF MissInv
<1>3. CASE SetFinalizer(p)
  <2> DEFINE fin == IF Alive(loc[h]) THEN getPod(node[p], p).obj.fin + 1 ELSE 0
             o == [Current(p) EXCEPT !.fin = fin]
  <2>1. /\ pc[h] = "fin" /\ UNCHANGED miss
        /\ Accept(p, o) \/ UNCHANGED hist
        /\ \/ Goto(h, "fin")
           \/ Goto(h, "add") /\ Alive(loc[h])
           \/ Goto(h, "del")
    BY Zenon, <1>3 DEF SetFinalizer, h
  <2>2. o \in Object /\ (Alive(o) <=> Alive(Current(p)))
    <3>1. getPod(node[p], p).obj \in Object /\ Current(p) \in Object
      BY Zenon, <1>l, <2>1, GetPodType
    <3>2. fin \in Nat
      BY <3>1 DEF Object
    <3> QED BY Zenon, <3>1, <3>2 DEF Object, Alive
  <2>3. ASSUME NEW q \in Pods PROVE Alive(Current(q))' <=> Alive(Current(q))
    <3> HIDE DEF o
    <3>1. CASE Accept(p, o)
      BY Zenon, <3>1, <2>2, AcceptAlive
    <3>2. CASE UNCHANGED hist
      BY Zenon, <3>2 DEF Current, Version, Alive
    <3> QED BY Zenon, <2>1, <3>1, <3>2
  <2>4. ASSUME NEW q \in Pods
        PROVE  /\ sbx'[q] = "adding" /\ pc'[Cni(q)] \notin {"read", "write"}
                    => sbx[q] = "adding" /\ pc[Cni(q)] \notin {"read", "write"}
               /\ sbx'[q] = "deleting" => pc'[Cni(q)] \in Deleting
    <3>1. PICK label \in {"fin", "add", "del"} : Goto(h, label) /\ (label = "add" => Alive(loc[h]))
      BY Zenon, <2>1
    <3>2. sbx' = sbx /\ pc'[h] = label /\ (q # p => pc'[Cni(q)] = pc[Cni(q)])
      BY Zenon, <1>g, <3>1
    <3>3. sbx[p] = "deleting" => label # "add"
      BY Zenon, <1>l, <2>1, <3>1
    <3>4. CASE q = p
      BY Zenon, <2>1, <3>2, <3>3, <3>4 DEF Deleting, h
    <3>5. CASE q # p
      BY Zenon, <3>2, <3>5 DEF MissInv, DeletersDelete
    <3> QED BY Zenon, <3>4, <3>5
  <2> QED BY Zenon, <2>1, <2>3, <2>4, SameMiss
<1> QED BY Zenon, <1>1, <1>2, <1>3 DEF SetAliveStep

Del == {"del", "delget", "deldel"}
Add == {"add", "vethlock", "veth", "vxlock", "vx", "vxadd", "rpc"}

\* A step of the loops over the links leaves everything else alone and moves its
\* handler within the loop, or ends the call.
LEMMA LoopSteps ==
  ASSUME Inv, NEW h \in Handlers, HandlerStep(h) \/ LockStep(h)
  PROVE  /\ UNCHANGED elsewhere
         /\ pc[h] \in Add \cup Del
         /\ \/ \E label \in Add \cup Del :
                 /\ pc' = [pc EXCEPT ![h] = label] /\ UNCHANGED <<sbx, loc>>
                 /\ pc[h] \in Del => label \in Del
            \/ \E ok \in BOOLEAN : Return(h, ok)
<1>t. pc \in [Handlers -> PC]
  BY Zenon DEF Inv, Typed
<1>u. upd[h] # "none" => pc[h] = "rpc"
  BY Zenon DEF Inv, HandlersOK, HandlerOK
<1>1. CASE LockStep(h)
  BY Zenon, <1>1, <1>t, <1>u
  DEF LockStep, LockForVeth, LockForVxLan, UpdateLock, UpdateStep, Goto, Add, Del
<1>2. CASE UpdateSetup(h) \/ UpdateDone(h)
  <2>1. pc[h] = "rpc" /\ \E s : UpdateStep(h, s)
    BY Zenon, <1>2, <1>u DEF UpdateSetup, UpdateSetupWith, UpdateDone
  <2>2. pc' = [pc EXCEPT ![h] = "rpc"] /\ UNCHANGED <<elsewhere, sbx, loc>>
    BY Zenon, <2>1, <1>t DEF UpdateStep
  <2> QED BY <2>1, <2>2, ZenonT(60) DEF Add, Del
<1>3. CASE PlumbVeth(h) \/ PlumbVxLan(h) \/ CallUpdateRemote(h) \/ UpdateReturns(h)
  BY Zenon, <1>3 DEF PlumbVeth, PlumbVethWith, PlumbVxLan, PlumbVxLanWith, CallUpdateRemote,
              UpdateReturns, Goto, NextLink, Add, Del
<1>4. CASE \/ AddLinksDone(h) \/ AddLinkError(h) \/ AddLinkMacVlan(h) \/ AddLinkPhysical(h)
           \/ AddLinkSkip(h) \/ AddLinkAlive(h)
  BY Zenon, <1>4 DEF AddLinksDone, AddLinkError, AddLinkMacVlan, AddLinkPhysical, AddLinkSkip,
              AddLinkAlive, AddingLink, NextLink, Add, Del
<1>5. CASE \/ DelLinksDone(h) \/ DelLinkError(h) \/ DelLinkRemove(h)
           \/ DelLinkGet(h) \/ DelLinkDelete(h)
  BY Zenon, <1>5 DEF DelLinksDone, DelLinkError, DelLinkRemove, DelLinkGet, DelLinkDelete,
              Goto, NextLink, Add, Del
<1> QED BY Zenon, <1>1, <1>2, <1>3, <1>4, <1>5 DEF HandlerStep, LockStep

\* The steps of the loops over the links: a mark is made by a pod that is alive,
\* and as "fresh" only against a peer that is dead and so has no mark itself.
LEMMA HandlerMiss ==
  ASSUME Inv, MissInv, NEW h \in Handlers, HandlerStep(h) \/ LockStep(h)
  PROVE  MissInv'
<1>t. /\ pc \in [Handlers -> PC] /\ sbx \in [Pods -> Sandbox] /\ h[1] \in Pods
      /\ \A q \in Pods : Cni(q) \in Handlers /\ Cni(q)[1] = q /\ Cni(q)[2] = "cni"
      /\ h[2] = "cni" => h = Cni(h[1])
  BY Zenon, HandlerFacts DEF Inv, Typed, Cni, Handlers
<1>1. /\ UNCHANGED hist
      /\ pc[h] \in Add \cup Del
      /\ \/ \E label \in Add \cup Del :
              /\ pc' = [pc EXCEPT ![h] = label] /\ UNCHANGED sbx
              /\ pc[h] \in Del => label \in Del
         \/ \E ok \in BOOLEAN : Return(h, ok)
  BY LoopSteps, ZenonT(60) DEF elsewhere, storeVars
<1>2. ASSUME NEW q \in Pods
      PROVE  /\ sbx'[q] = "adding" /\ pc'[Cni(q)] \notin {"read", "write"}
                  => sbx[q] = "adding" /\ pc[Cni(q)] \notin {"read", "write"}
             /\ sbx'[q] = "deleting" => pc'[Cni(q)] \in Deleting
  <2>1. CASE \E ok \in BOOLEAN : Return(h, ok)
    BY <1>t, <2>1 DEF Return, MissInv, DeletersDelete
  <2>2. ASSUME NEW label \in Add \cup Del, pc' = [pc EXCEPT ![h] = label], UNCHANGED sbx,
               pc[h] \in Del => label \in Del
        PROVE  /\ sbx'[q] = "adding" /\ pc'[Cni(q)] \notin {"read", "write"}
                    => sbx[q] = "adding" /\ pc[Cni(q)] \notin {"read", "write"}
               /\ sbx'[q] = "deleting" => pc'[Cni(q)] \in Deleting
    BY Zenon, <1>1, <1>t, <2>2 DEF MissInv, DeletersDelete, Deleting, Add, Del
  <2> QED BY Zenon, <1>1, <2>1, <2>2
<1>3. CASE UNCHANGED miss
  BY Zenon, <1>1, <1>2, <1>3, SameMiss DEF Current, Version, Alive
<1>4. CASE miss' # miss
  <2> DEFINE p == h[1]
             k == Cur(h)
             q == Peer(h)
             x == IF Alive(Current(q)) THEN "stale" ELSE "fresh"
  <2>1. /\ AddingLink(h) /\ q \in Pods /\ h[2] = "cni"
        /\ miss' = [miss EXCEPT ![p][k] = x]
    <3>1. AddLinkSkip(h)
      <4>1. CASE LockStep(h)
        BY <1>4, <4>1, ZenonT(60) DEF LockStep, LockForVeth, LockForVxLan, UpdateLock, UpdateStep
      <4>2. CASE UpdateSetup(h) \/ UpdateDone(h)
        BY <1>4, <4>2, ZenonT(60) DEF UpdateSetup, UpdateSetupWith, UpdateDone, UpdateStep
      <4>3. CASE PlumbVeth(h) \/ PlumbVxLan(h) \/ CallUpdateRemote(h) \/ UpdateReturns(h)
        BY Zenon, <1>4, <4>3 DEF PlumbVeth, PlumbVethWith, PlumbVxLan, PlumbVxLanWith, CallUpdateRemote,
                          UpdateReturns
      <4>4. CASE \/ AddLinksDone(h) \/ AddLinkError(h) \/ AddLinkMacVlan(h)
                 \/ AddLinkPhysical(h) \/ AddLinkAlive(h)
        BY Zenon, <1>4, <4>4 DEF AddLinksDone, AddLinkError, AddLinkMacVlan, AddLinkPhysical, AddLinkAlive
      <4>5. CASE \/ DelLinksDone(h) \/ DelLinkError(h) \/ DelLinkRemove(h)
                 \/ DelLinkGet(h) \/ DelLinkDelete(h)
        BY <1>4, <4>5, ZenonT(60) DEF DelLinksDone, DelLinkError, DelLinkRemove, DelLinkGet, DelLinkDelete
      <4> QED BY Zenon, <4>1, <4>2, <4>3, <4>4, <4>5 DEF HandlerStep
    <3> QED BY Zenon, <1>4, <3>1, HandlerFacts DEF AddLinkSkip
  <2>2. p \in Pods /\ k \in Links /\ q = PeerOf[p][k] /\ h = Cni(p) /\ pc[h] = "add"
    BY Zenon, <2>1, <1>t, HandlerFacts DEF AddingLink, Peer
  <2>3. Alive(Current(p))
    <3>1. SandboxOK(p)
      BY Zenon, <2>2 DEF Inv, HandlersOK
    <3>2. sbx[p] = "adding"
      BY Zenon, <2>2, <3>1 DEF SandboxOK, MissInv, DeletersDelete, Deleting
    <3> QED BY Zenon, <2>2, <3>2 DEF MissInv, MissingPodsAlive
  <2>4. ASSUME NEW r \in Pods, NEW l \in Links
        PROVE  miss'[r][l] = IF r = p /\ l = k THEN x ELSE miss[r][l]
    <3> HIDE DEF p, k, x
    <3> QED BY <2>1, <2>2, SMTT(30) DEF Inv, Typed
  <2>5. \A r \in Pods : Alive(Current(r))' <=> Alive(Current(r))
    BY Zenon, <1>1 DEF Current, Version, Alive
  <2>6. x = "fresh" => \A l \in Links : miss[q][l] = "no"
    BY Zenon, <2>1 DEF MissInv, MissingPodsAlive
  <2>7. DeletersDelete'
    BY Zenon, <1>2 DEF DeletersDelete, Cni
  <2>8. MissingPodsAlive'
    <3>1. ASSUME NEW r \in Pods
          PROVE  /\ (\E l \in Links : miss'[r][l] # "no") => Alive(Current(r))'
                 /\ sbx'[r] = "adding" /\ pc'[Cni(r)] \notin {"read", "write"} => Alive(Current(r))'
      <4> HIDE DEF p, k, x
      <4> QED BY Zenon, <1>2, <2>3, <2>4, <2>5 DEF MissInv, MissingPodsAlive
    <3> QED BY <3>1, ZenonT(60) DEF MissingPodsAlive, Cni
  <2>9. MissOnce'
    <3> SUFFICES ASSUME NEW r \in Pods, NEW s \in Pods, NEW l \in Links,
                        r # s, PeerOf[r][l] = s, PeerOf[s][l] = r,
                        miss'[r][l] = "fresh", miss'[s][l] = "fresh"
                 PROVE  FALSE
      BY Zenon DEF MissOnce
    <3> HIDE DEF p, k, x, q
    <3>1. CASE r = p /\ l = k
      BY Zenon, <3>1, <2>2, <2>4, <2>6
    <3>2. CASE s = p /\ l = k
      BY <3>2, <2>2, <2>4, <2>6, SMTT(30)
    <3>3. CASE l # k \/ (r # p /\ s # p)
      BY <3>3, <2>4 DEF MissInv, MissOnce
    <3> QED BY Zenon, <3>1, <3>2, <3>3
  <2> QED BY Zenon, <2>7, <2>8, <2>9 DEF MissInv
<1> QED BY Zenon, <1>3, <1>4

\* When both ends of a link have left its plumbing to the other, one of the two
\* was misled by its informer store: with up-to-date reads the pod that comes up
\* second finds the first alive, as the comment in addLink assumes.
THEOREM MissOnlyStale == Spec => []MissOnce
<1>1. Init => MissInv
  BY DEF Init, MissInv, MissOnce, MissingPodsAlive, DeletersDelete
<1>2. Inv /\ MissInv /\ [Next]_vars => MissInv'
  <2> SUFFICES ASSUME Inv, MissInv, [Next]_vars PROVE MissInv'
    BY Zenon
  <2>1. CASE UNCHANGED vars
    BY Zenon, <2>1, SameMiss DEF vars, storeVars, kubeletVars, handlerVars, Current, Version, Alive,
                          MissInv, DeletersDelete
  <2> QED BY Zenon, <2>1, OtherStepMiss, SetAliveMiss, HandlerMiss DEF Next, Quiet
<1>3. MissInv => MissOnce
  BY Zenon DEF MissInv
<1> QED BY <1>1, <1>2, <1>3, HandlersCorrect, PTL DEF Spec
-----------------------------------------------------------------------------
(* What the API server and the topologyManagers know of a pod.             *)

\* The object has the place SetAlive was told, from the write that is accepted on.
StatusOf(p) ==
  /\ sbx[p] \in {"adding", "deleting"} /\ pc[Cni(p)] \notin {"read", "write"}
       => PlaceOf(Current(p)) = loc[Cni(p)]
  /\ ~unread[p] /\ sbx[p] = "up" => PlaceOf(Current(p)) = [node |-> node[p], gen |-> start[p]]
  /\ ~unread[p] /\ sbx[p] \in {"none", "deleted"} => ~Alive(PlaceOf(Current(p)))

StatusInv == \A p \in Pods : StatusOf(p)

\* The manager of its node has the pod, from the first read of SetAlive on, until
\* DestroyPod takes it out.  F is what the daemons found when they started.
MetricsOf(p, F) ==
  /\ sbx[p] = "adding" /\ pc[Cni(p)] # "read" => p \in tm[node[p]]
  /\ sbx[p] = "up" /\ ~unread[p] => p \in tm[node[p]] \cup F[node[p]]
  /\ \A n \in Nodes :
       sbx[p] \in {"none", "deleting", "deleted"} \/ node[p] # n => p \notin tm[n]

KnownIn(F) == \A p \in Pods : StatusOf(p) /\ MetricsOf(p, F)

\* The daemons started before there were any pods.
Nobody == [n \in Nodes |-> {}]

KnownInv == KnownIn(Nobody)

\* A pod of which a step changes nothing is as well known as before.
LEMMA KnownKept ==
  ASSUME Inv, NEW F, NEW q \in Pods, StatusOf(q), MetricsOf(q, F),
         sbx'[q] = sbx[q], node'[q] = node[q], start'[q] = start[q], unread'[q] = unread[q],
         pc'[Cni(q)] = pc[Cni(q)], loc'[Cni(q)] = loc[Cni(q)],
         PlaceOf(Current(q))' = PlaceOf(Current(q)),
         \A n \in Nodes : q \in tm'[n] <=> q \in tm[n]
  PROVE  StatusOf(q)' /\ MetricsOf(q, F)'
<1>1. StatusOf(q)'
  BY Zenon DEF StatusOf
<1>2. sbx[q] # "none" => node[q] \in Nodes
  BY Zenon DEF Inv, HandlersOK, SandboxOK, Typed, DevTypeOK
<1>3. MetricsOf(q, F)'
  BY Zenon, <1>2 DEF MetricsOf
<1> QED BY Zenon, <1>1, <1>3

\* What a write that is accepted does to the places.
LEMMA AcceptPlace ==
  ASSUME Inv, NEW p \in Pods, NEW o \in Object, Accept(p, o), NEW q \in Pods
  PROVE  PlaceOf(Current(q))' = IF q = p THEN PlaceOf(o) ELSE PlaceOf(Current(q))
<1>1. hist \in [Pods -> Seq(Object) \ {<<>>}]
  BY Zenon DEF Inv, Typed, StoreTypeOK
<1>2. CASE hist' = hist /\ o = Current(p)
  BY Zenon, <1>2 DEF Current, PlaceOf
<1>3. CASE hist' = [hist EXCEPT ![p] = Append(@, o)]
  <2>1. hist'[p][Len(hist'[p])] = o
    BY <1>1, <1>3
  <2>2. q # p => hist'[q] = hist[q]
    BY Zenon, <1>1, <1>3
  <2> QED BY Zenon, <2>1, <2>2 DEF Current, PlaceOf
<1> QED BY Zenon, <1>2, <1>3 DEF Accept

\* The steps of the kubelet: SetAlive is still to come, or the pod is passed by.
LEMMA KubeletKnown ==
  ASSUME Inv, NEW F, KnownIn(F), NEW p \in Pods,
         \/ \E n \in Nodes : SetupPod(p, n) \/ SetupPodUnread(p, n)
         \/ DestroyPod(p) \/ DestroyPodUnread(p) \/ RemoveSandbox(p)
  PROVE  KnownIn(F)'
<1>t. /\ pc \in [Handlers -> PC] /\ sbx \in [Pods -> Sandbox] /\ loc \in [Handlers -> Place]
      /\ unread \in [Pods -> BOOLEAN] /\ tm \in [Nodes -> SUBSET Pods]
      /\ node \in [Pods -> Nodes \cup {NoNode}] /\ start \in [Pods -> Nat]
  BY Zenon DEF Inv, Typed, DevTypeOK
<1>s. SandboxOK(p) /\ StatusOf(p) /\ MetricsOf(p, F)
  BY Zenon DEF Inv, HandlersOK, KnownIn
<1>c. \A q \in Pods : PlaceOf(Current(q))' = PlaceOf(Current(q))
  <2>1. UNCHANGED hist
    BY Zenon DEF SetupPod, SetupPodUnread, DestroyPod, DestroyPodUnread, RemoveSandbox, storeVars
  <2> QED BY Zenon, <2>1 DEF Current, PlaceOf
<1>1. ASSUME NEW q \in Pods \ {p} PROVE StatusOf(q)' /\ MetricsOf(q, F)'
  <2>1. /\ sbx'[q] = sbx[q] /\ node'[q] = node[q] /\ start'[q] = start[q] /\ unread'[q] = unread[q]
        /\ pc'[Cni(q)] = pc[Cni(q)] /\ loc'[Cni(q)] = loc[Cni(q)]
    <3>0. Cni(q) \in Handlers \ {Cni(p)} /\ q # p
      BY Zenon, PodHandlers
    <3>1. CASE \E n \in Nodes : SetupPod(p, n)
      BY Zenon, <1>t, <3>0, <3>1 DEF SetupPod, NewSandbox, aliveVars
    <3>2. CASE \E n \in Nodes : SetupPodUnread(p, n)
      <4>1. PICK n \in Nodes : NewSandbox(p, n) /\ UNCHANGED handlerVars
                              /\ sbx' = [sbx EXCEPT ![p] = "up"] /\ unread' = [unread EXCEPT ![p] = TRUE]
        BY Zenon, <3>2 DEF SetupPodUnread
      <4> QED BY Zenon, <1>t, <3>0, <4>1 DEF NewSandbox, handlerVars
    <3>3. CASE DestroyPod(p)
      BY Zenon, <1>t, <3>0, <3>3 DEF DestroyPod, aliveVars
    <3>4. CASE DestroyPodUnread(p)
      BY Zenon, <1>t, <3>0, <3>4 DEF DestroyPodUnread, handlerVars
    <3>5. CASE RemoveSandbox(p)
      BY Zenon, <1>t, <3>0, <3>5 DEF RemoveSandbox, handlerVars, aliveVars
    <3> QED BY Zenon, <3>1, <3>2, <3>3, <3>4, <3>5
  <2>2. \A n \in Nodes : q \in tm'[n] <=> q \in tm[n]
    <3>1. tm' = tm \/ tm' = [tm EXCEPT ![node[p]] = @ \ {p}]
      BY Zenon DEF SetupPod, SetupPodUnread, DestroyPod, DestroyPodUnread, RemoveSandbox
    <3>2. ASSUME NEW n \in Nodes, tm' = [tm EXCEPT ![node[p]] = @ \ {p}]
          PROVE  tm'[n] = IF n = node[p] THEN tm[n] \ {p} ELSE tm[n]
      BY Zenon, <1>t, <3>2
    <3> QED BY Zenon, <3>1, <3>2
  <2> QED BY Zenon, <2>1, <2>2, <1>c, KnownKept DEF KnownIn
<1>2. CASE \E n \in Nodes : SetupPod(p, n) \/ SetupPodUnread(p, n)
  <2>1. PICK n \in Nodes : SetupPod(p, n) \/ SetupPodUnread(p, n)
    BY Zenon, <1>2
  <2>2. /\ sbx[p] = "none" /\ UNCHANGED tm /\ node'[p] = n
        /\ \/ sbx'[p] = "adding" /\ pc'[Cni(p)] = "read"
           \/ sbx'[p] = "up" /\ unread'[p] = TRUE
    BY Zenon, <2>1, <1>t, PodHandlers DEF SetupPod, SetupPodUnread, NewSandbox
  <2>3. StatusOf(p)'
    BY Zenon, <2>2 DEF StatusOf
  <2>4. MetricsOf(p, F)'
    BY Zenon, <2>2, <1>s DEF MetricsOf
  <2> QED BY Zenon, <2>3, <2>4, <1>1 DEF KnownIn
<1>3. CASE DestroyPod(p) \/ DestroyPodUnread(p)
  <2>1. /\ sbx[p] # "none" /\ tm' = [tm EXCEPT ![node[p]] = @ \ {p}] /\ UNCHANGED node
        /\ \/ sbx'[p] = "deleting" /\ pc'[Cni(p)] = "read"
           \/ sbx'[p] = "deleted" /\ unread'[p] = TRUE
    BY Zenon, <1>3, <1>t, PodHandlers DEF DestroyPod, DestroyPodUnread, DeletedSandbox
  <2>2. node[p] \in Nodes
    BY Zenon, <2>1, <1>s, <1>t DEF SandboxOK
  <2>3. StatusOf(p)'
    BY Zenon, <2>1 DEF StatusOf
  <2>4. MetricsOf(p, F)'
    BY Zenon, <2>1, <2>2, <1>s, <1>t DEF MetricsOf
  <2> QED BY Zenon, <2>3, <2>4, <1>1 DEF KnownIn
<1>4. CASE RemoveSandbox(p)
  <2>1. sbx[p] = "deleted" /\ sbx'[p] = "none" /\ UNCHANGED <<tm, unread>>
    BY Zenon, <1>4, <1>t DEF RemoveSandbox, aliveVars
  <2>2. StatusOf(p)'
    BY Zenon, <2>1, <1>s, <1>c DEF StatusOf, Alive
  <2>3. MetricsOf(p, F)'
    BY Zenon, <2>1, <1>s DEF MetricsOf
  <2> QED BY Zenon, <2>2, <2>3, <1>1 DEF KnownIn
<1> QED BY Zenon, <1>2, <1>3, <1>4

\* The steps of SetAlive.
LEMMA SetAliveKnown ==
  ASSUME Inv, NEW F, KnownIn(F), NEW p \in Pods, SetAliveStep(p)
  PROVE  KnownIn(F)'
<1> DEFINE h == Cni(p)
<1>t. /\ pc \in [Handlers -> PC] /\ sbx \in [Pods -> Sandbox] /\ loc \in [Handlers -> Place]
      /\ unread \in [Pods -> BOOLEAN] /\ tm \in [Nodes -> SUBSET Pods]
      /\ h \in Handlers /\ h[1] = p /\ h[2] = "cni"
      /\ \A q \in Pods \ {p} : Cni(q) \in Handlers \ {h}
  BY Zenon, PodHandlers DEF Inv, Typed, Cni
<1>s. SandboxOK(p) /\ StatusOf(p) /\ MetricsOf(p, F)
  BY Zenon DEF Inv, HandlersOK, KnownIn
<1>l. pc[h] # "idle" => /\ sbx[p] \in {"adding", "deleting"} /\ node[p] \in Nodes
                        /\ sbx[p] = "adding" <=> Alive(loc[h])
  BY <1>s, StoreAssumption DEF SandboxOK, Alive, NoPlace, Inv, Typed, DevTypeOK
<1>u. UNCHANGED <<node, start>>
  BY Zenon DEF SetAliveStep, SetAliveRead, SetAliveWrite, SetAliveConflict, SetAliveError, SetFinalizer
<1> HIDE DEF h
<1>o. ASSUME NEW q \in Pods \ {p}, PlaceOf(Current(q))' = PlaceOf(Current(q))
      PROVE  StatusOf(q)' /\ MetricsOf(q, F)'
  <2>1. /\ sbx'[q] = sbx[q] /\ pc'[Cni(q)] = pc[Cni(q)] /\ loc'[Cni(q)] = loc[Cni(q)]
        /\ unread'[q] = unread[q]
    <3>1. (\E label : Goto(h, label)) \/ (\E ok : Return(h, ok))
      BY Zenon DEF SetAliveStep, SetAliveRead, SetAliveWrite, SetAliveConflict, SetAliveError,
             SetFinalizer, h
    <3>2. unread' = unread \/ unread' = [unread EXCEPT ![p] = FALSE]
      BY Zenon DEF SetAliveStep, SetAliveRead, SetAliveWrite, SetAliveConflict, SetAliveError,
             SetFinalizer
    <3> QED BY Zenon, <1>t, <1>o, <3>1, <3>2 DEF Goto, Return
  <2>2. \A n \in Nodes : q \in tm'[n] <=> q \in tm[n]
    <3>1. \/ tm' = tm \/ tm' = [tm EXCEPT ![node[p]] = @ \cup {p}]
          \/ tm' = [tm EXCEPT ![node[p]] = @ \ {p}]
      BY Zenon DEF SetAliveStep, SetAliveRead, SetAliveWrite, SetAliveConflict, SetAliveError,
             SetFinalizer
    <3> QED BY <1>t, <1>o, <3>1
  <2> QED BY Zenon, <2>1, <2>2, <1>u, <1>o, KnownKept DEF KnownIn
<1>1. CASE SetAliveRead(p)
  <2>1. /\ pc[h] = "read" /\ pc'[h] = "write" /\ UNCHANGED <<hist, sbx, loc, unread>>
        /\ tm' = [tm EXCEPT ![node[p]] = IF Alive(loc[h]) THEN @ \cup {p} ELSE @ \ {p}]
    BY Zenon, <1>1, <1>t DEF SetAliveRead, Goto, h
  <2>2. StatusOf(p)'
    BY Zenon, <1>l, <2>1 DEF StatusOf, h
  <2>3. MetricsOf(p, F)'
    BY Zenon, <1>l, <1>s, <1>t, <1>u, <2>1 DEF MetricsOf, h
  <2> QED BY Zenon, <1>o, <2>1, <2>2, <2>3 DEF KnownIn, Current, PlaceOf
<1>2. CASE SetAliveWrite(p)
  <2> DEFINE o == [Current(p) EXCEPT !.node = loc[h].node, !.gen = loc[h].gen]
  <2>1. pc[h] = "write" /\ Accept(p, o) /\ pc'[h] = "fin" /\ UNCHANGED <<sbx, loc, tm>>
    BY Zenon, <1>2, <1>t DEF SetAliveWrite, Goto, h
  <2>2. o \in Object /\ PlaceOf(o) = loc[h]
    <3>1. Current(p) \in Object /\ loc[h] \in Place
      BY Zenon, <1>l, <1>t, <2>1, GetPodType
    <3> QED BY Zenon, <3>1 DEF Object, Place, PlaceOf
  <2> HIDE DEF o
  <2>3. \A q \in Pods : PlaceOf(Current(q))' = IF q = p THEN loc[h] ELSE PlaceOf(Current(q))
    BY Zenon, <2>1, <2>2, AcceptPlace
  <2>4. StatusOf(p)'
    BY Zenon, <1>l, <2>1, <2>3 DEF StatusOf, h
  <2>5. MetricsOf(p, F)'
    BY Zenon, <1>l, <1>s, <1>u, <2>1 DEF MetricsOf, h
  <2> QED BY Zenon, <1>o, <2>3, <2>4, <2>5 DEF KnownIn
<1>3. CASE SetAliveConflict(p) \/ SetAliveError(p)
  <2>1. /\ pc[h] \in {"read", "write"} /\ UNCHANGED <<hist, tm, unread>>
        /\ \/ Goto(h, "read")
           \/ Return(h, FALSE)
    BY Zenon, <1>3 DEF SetAliveConflict, SetAliveError, storeVars, h
  <2>2. \/ sbx' = sbx /\ pc'[h] = "read"
        \/ sbx'[p] = "failed"
    BY Zenon, <1>t, <2>1 DEF Goto, Return
  <2>3. StatusOf(p)'
    BY Zenon, <1>l, <2>1, <2>2 DEF StatusOf, h
  <2>4. MetricsOf(p, F)'
    BY Zenon, <1>l, <1>s, <1>u, <2>1, <2>2 DEF MetricsOf, h
  <2> QED BY Zenon, <1>o, <2>1, <2>3, <2>4 DEF KnownIn, Current, PlaceOf
<1>4. CASE SetFinalizer(p)
  <2> DEFINE fin == IF Alive(loc[h]) THEN getPod(node[p], p).obj.fin + 1 ELSE 0
             o == [Current(p) EXCEPT !.fin = fin]
  <2>1. /\ pc[h] = "fin" /\ (Accept(p, o) \/ UNCHANGED hist)
        /\ pc'[h] \in {"fin", "add", "del"} /\ UNCHANGED <<sbx, loc, tm, unread>>
    BY Zenon, <1>4, <1>t DEF SetFinalizer, Goto, h
  <2>2. o \in Object /\ PlaceOf(o) = PlaceOf(Current(p))
    <3>1. getPod(node[p], p).obj \in Object /\ Current(p) \in Object
      BY Zenon, <1>l, <2>1, GetPodType
    <3>2. fin \in Nat
      BY <3>1 DEF Object
    <3> QED BY Zenon, <3>1, <3>2 DEF Object, PlaceOf
  <2> HIDE DEF o
  <2>3. ASSUME NEW q \in Pods PROVE PlaceOf(Current(q))' = PlaceOf(Current(q))
    <3>1. CASE Accept(p, o)
      BY Zenon, <2>2, <3>1, AcceptPlace
    <3>2. CASE UNCHANGED hist
      BY Zenon, <3>2 DEF Current, PlaceOf
    <3> QED BY Zenon, <2>1, <3>1, <3>2
  <2>4. StatusOf(p)'
    BY Zenon, <1>l, <1>s, <2>1, <2>3 DEF StatusOf, h
  <2>5. MetricsOf(p, F)'
    BY Zenon, <1>l, <1>s, <1>u, <2>1 DEF MetricsOf, h
  <2> QED BY Zenon, <1>o, <2>3, <2>4, <2>5 DEF KnownIn
<1> QED BY Zenon, <1>1, <1>2, <1>3, <1>4 DEF SetAliveStep

\* The steps of the loops over the links: a call that returns was told the place.
LEMMA LoopKnown ==
  ASSUME Inv, NEW F, KnownIn(F), NEW h \in Handlers, HandlerStep(h) \/ LockStep(h)
  PROVE  KnownIn(F)'
<1>t. /\ pc \in [Handlers -> PC] /\ sbx \in [Pods -> Sandbox] /\ loc \in [Handlers -> Place]
      /\ h[1] \in Pods /\ h[2] \in {"cni", "ctl"}
      /\ h[2] = "cni" => h = Cni(h[1])
      /\ \A q \in Pods : Cni(q) \in Handlers /\ Cni(q)[1] = q /\ Cni(q)[2] = "cni"
  BY Zenon, HandlerFacts DEF Inv, Typed, Cni, Handlers
<1>u. UNCHANGED <<hist, node, start, unread, tm>>
  BY Zenon, LoopSteps DEF elsewhere, storeVars, aliveVars
<1>c. \A q \in Pods : PlaceOf(Current(q))' = PlaceOf(Current(q))
  BY Zenon, <1>u DEF Current, PlaceOf
<1>1. ASSUME NEW q \in Pods, h # Cni(q) PROVE StatusOf(q)' /\ MetricsOf(q, F)'
  <2>1. sbx'[q] = sbx[q] /\ pc'[Cni(q)] = pc[Cni(q)] /\ loc'[Cni(q)] = loc[Cni(q)]
    BY <1>t, <1>1, LoopSteps DEF Return
  <2> QED BY Zenon, <1>u, <1>c, <2>1, KnownKept DEF KnownIn
<1>2. ASSUME NEW p \in Pods, h = Cni(p) PROVE StatusOf(p)' /\ MetricsOf(p, F)'
  <2>1. /\ pc[h] \in Add \cup Del
        /\ \/ pc'[h] \in Add \cup Del /\ UNCHANGED <<sbx, loc>>
           \/ sbx'[p] \in {"failed", IF sbx[p] = "adding" THEN "up" ELSE "deleted"}
    BY <1>t, <1>2, LoopSteps DEF Return
  <2>2. SandboxOK(p) /\ StatusOf(p) /\ MetricsOf(p, F)
    BY Zenon DEF Inv, HandlersOK, KnownIn
  <2>3. sbx[p] \in {"adding", "deleting"}
    BY Zenon, <1>2, <2>1, <2>2 DEF SandboxOK, Add, Del
  <2>4. PlaceOf(Current(p))' = loc[h]
    BY Zenon, <1>2, <1>c, <2>1, <2>2, <2>3 DEF StatusOf, Add, Del
  <2>d. sbx[p] = "deleting" => ~Alive(loc[h])
    <3>1. sbx[p] = "deleting" => loc[h] = NoPlace
      BY Zenon, <1>2, <2>2 DEF SandboxOK
    <3> QED BY <3>1 DEF Alive, NoPlace
  <2>5. StatusOf(p)'
    <3>1. CASE pc'[h] \in Add \cup Del /\ UNCHANGED <<sbx, loc>>
      BY Zenon, <1>2, <2>3, <2>4, <3>1 DEF StatusOf
    <3>2. CASE sbx'[p] = "failed"
      BY Zenon, <3>2 DEF StatusOf
    <3>3. CASE sbx'[p] = "up" /\ sbx[p] = "adding"
      BY Zenon, <1>2, <1>u, <2>2, <2>4, <3>3 DEF StatusOf, SandboxOK
    <3>4. CASE sbx'[p] = "deleted" /\ sbx[p] = "deleting"
      BY Zenon, <1>2, <2>4, <2>d, <3>4 DEF StatusOf, Alive
    <3> QED BY Zenon, <2>1, <2>3, <3>1, <3>2, <3>3, <3>4
  <2>6. MetricsOf(p, F)'
    BY Zenon, <1>2, <1>u, <2>1, <2>2, <2>3 DEF MetricsOf, Add, Del
  <2> QED BY Zenon, <2>5, <2>6
<1> QED BY Zenon, <1>1, <1>2 DEF KnownIn

\* The steps of the controller and of the watch change no place.
LEMMA OtherStepKnown ==
  ASSUME Inv, NEW F, KnownIn(F), NEW p \in Pods,
         AddLinks(p) \/ DelLinks(p) \/ Touch(p) \/ \E n \in Nodes : Watch(n, p)
  PROVE  KnownIn(F)'
<1> SUFFICES ASSUME NEW q \in Pods PROVE StatusOf(q)' /\ MetricsOf(q, F)'
  BY Zenon DEF KnownIn
<1>1. /\ UNCHANGED <<sbx, node, start, unread, tm>>
      /\ pc'[Cni(q)] = pc[Cni(q)] /\ loc'[Cni(q)] = loc[Cni(q)]
  BY Zenon, PodHandlers DEF AddLinks, DelLinks, CallLinks, Touch, Watch, kubeletVars, handlerVars, aliveVars,
                     Inv, Typed
<1>2. PlaceOf(Current(q))' = PlaceOf(Current(q))
  <2>1. hist \in [Pods -> Seq(Object) \ {<<>>}]
    BY Zenon DEF Inv, Typed, StoreTypeOK
  <2>2. UNCHANGED hist \/ hist' = [hist EXCEPT ![p] = Append(@, Current(p))]
    BY Zenon DEF AddLinks, DelLinks, CallLinks, Touch, TouchByController, Watch, Deliver, storeVars
  <2>3. hist'[q][Len(hist'[q])] = hist[q][Len(hist[q])]
    BY <2>1, <2>2 DEF Current
  <2> QED BY Zenon, <2>3 DEF Current, PlaceOf
<1> QED BY Zenon, <1>1, <1>2, KnownKept DEF KnownIn

\* All of them.
LEMMA KnownNext ==
  ASSUME Inv, NEW F, KnownIn(F), [Next]_vars
  PROVE  KnownIn(F)'
<1>1. CASE UNCHANGED vars
  BY Zenon, <1>1, KnownKept DEF vars, storeVars, kubeletVars, handlerVars, aliveVars, KnownIn,
                         Current, PlaceOf
<1> QED BY Zenon, <1>1, KubeletKnown, SetAliveKnown, LoopKnown, OtherStepKnown DEF Next, Quiet

\* Whatever the conflicts, retries, stale reads and lost requests of SetAlive,
\* and whatever else writes the objects, what is known of a pod that no CNI call
\* has passed by is right once its CNI call has returned.
THEOREM KnownCorrect == Spec => []KnownInv
<1>1. Init => KnownInv
  BY DEF Init, StoreInit, DevInit, KnownInv, KnownIn, StatusOf, MetricsOf, Current, PlaceOf, Unset, Alive
<1>2. Inv /\ KnownInv /\ [Next]_vars => KnownInv'
  BY Zenon, KnownNext DEF KnownInv, Nobody
<1> QED BY <1>1, <1>2, HandlersCorrect, PTL DEF Spec

\* The object in the API server tells the truth about a pod that is up and about
\* one that is gone.
THEOREM StatusCorrect == Spec => []StatusTruthful
<1>1. KnownInv => StatusTruthful
  BY Zenon DEF KnownInv, KnownIn, StatusOf, StatusTruthful, Alive, PlaceOf
<1> QED BY <1>1, KnownCorrect, PTL

\* Metrics are collected for the pods that are up on a node, and for no pod that
\* is gone or elsewhere.
THEOREM MetricsCorrect == Spec => []MetricsTrack
<1>1. Inv /\ KnownInv => MetricsTrack
  BY Zenon DEF KnownInv, KnownIn, Nobody, MetricsOf, MetricsTrack, Inv, Typed, HandlersOK, SandboxOK, DevTypeOK
<1> QED BY <1>1, HandlersCorrect, KnownCorrect, PTL
-----------------------------------------------------------------------------
(* How a step of a loop over the links moves its handler.                  *)

\* The next link, the end of the call, or another place on the same link.
Moves(h) ==
  \/ UNCHANGED <<todo, sbx>> /\ pc'[h] \in Add \cup Del /\ (pc[h] \in Del <=> pc'[h] \in Del)
  \/ \E label \in {"add", "del"} :
       NextLink(h, label) /\ todo[h] # <<>> /\ (pc[h] \in Del <=> label \in Del)
  \/ Return(h, TRUE) /\ todo[h] = <<>>
  \/ Return(h, FALSE)

\* Every step of a loop is one of these.
LEMMA HandlerMoves ==
  ASSUME Inv, NEW h \in Handlers, HandlerStep(h) \/ LockStep(h)
  PROVE  Moves(h)
<1>t. pc \in [Handlers -> PC] /\ upd \in [Handlers -> Upd] /\ (upd[h] # "none" => pc[h] = "rpc")
  BY Zenon DEF Inv, Typed, HandlersOK, HandlerOK
<1>s. pc[h] \notin Simple => todo[h] # <<>>
  BY Zenon, HandlerFacts
<1>1. CASE LockStep(h)
  BY Zenon, <1>1, <1>t
  DEF LockStep, LockForVeth, LockForVxLan, UpdateLock, UpdateStep, Goto, Add, Del, Moves
<1>2. CASE UpdateSetup(h) \/ UpdateDone(h)
  <2>1. pc[h] = "rpc" /\ \E x : UpdateStep(h, x)
    BY Zenon, <1>2, <1>t DEF UpdateSetup, UpdateSetupWith, UpdateDone
  <2> QED BY Zenon, <2>1, <1>t DEF UpdateStep, Moves, Add, Del
<1>3. CASE PlumbVeth(h) \/ PlumbVxLan(h)
  <2>1. todo[h] # <<>> /\ pc[h] \in Add
    BY Zenon, <1>3, <1>s DEF PlumbVeth, PlumbVxLan, Simple, Add
  <2>2. NextLink(h, "add") \/ Return(h, FALSE) \/ Goto(h, "vxadd")
    BY Zenon, <1>3 DEF PlumbVeth, PlumbVethWith, PlumbVxLan, PlumbVxLanWith
  <2> QED BY Zenon, <2>1, <2>2, <1>t DEF Goto, Moves, Add, Del
<1>4. CASE CallUpdateRemote(h) \/ AddLinkPhysical(h) \/ AddLinkAlive(h)
  BY Zenon, <1>4, <1>t DEF CallUpdateRemote, AddLinkPhysical, AddLinkAlive, AddingLink, Moves, Add, Del
<1>5. CASE UpdateReturns(h) \/ AddLinkError(h) \/ AddLinkMacVlan(h) \/ AddLinkSkip(h)
  <2>1. todo[h] # <<>> /\ pc[h] \in Add
    BY Zenon, <1>5, <1>s DEF UpdateReturns, AddLinkError, AddLinkMacVlan, AddLinkSkip, AddingLink, Simple, Add
  <2>2. NextLink(h, "add") \/ Return(h, FALSE)
    BY Zenon, <1>5 DEF UpdateReturns, AddLinkError, AddLinkMacVlan, AddLinkSkip
  <2> QED BY Zenon, <2>1, <2>2 DEF Moves, Add, Del
<1>6. CASE AddLinksDone(h) \/ DelLinksDone(h) \/ DelLinkError(h)
  BY Zenon, <1>6 DEF AddLinksDone, DelLinksDone, DelLinkError, Moves
<1>7. CASE DelLinkRemove(h) \/ DelLinkGet(h) \/ DelLinkDelete(h)
  <2>1. todo[h] # <<>> /\ pc[h] \in Del
    BY Zenon, <1>7, <1>s DEF DelLinkRemove, DelLinkGet, DelLinkDelete, Simple, Del
  <2>2. Goto(h, "delget") \/ Goto(h, "deldel") \/ NextLink(h, "del")
    BY Zenon, <1>7 DEF DelLinkRemove, DelLinkGet, DelLinkDelete
  <2> QED BY Zenon, <2>1, <2>2, <1>t DEF Goto, Moves, Add, Del
<1> QED BY Zenon, <1>1, <1>2, <1>3, <1>4, <1>5, <1>6, <1>7 DEF HandlerStep

\* It moves no other handler and no other pod.
LEMMA OthersRest ==
  ASSUME Inv, NEW h \in Handlers, HandlerStep(h) \/ LockStep(h), NEW g \in Handlers \ {h}
  PROVE  /\ pc'[g] = pc[g] /\ todo'[g] = todo[g] /\ upd'[g] = upd[g] /\ peer'[g] = peer[g]
         /\ loc'[g] = loc[g] /\ (g[2] = "cni" => sbx'[g[1]] = sbx[g[1]])
<1>t. /\ pc \in [Handlers -> PC] /\ upd \in [Handlers -> Upd] /\ peer \in [Handlers -> Place]
      /\ todo \in [Handlers -> Seq(Links)] /\ loc \in [Handlers -> Place]
      /\ sbx \in [Pods -> Sandbox]
      /\ h = <<h[1], h[2]>> /\ g = <<g[1], g[2]>> /\ g[1] \in Pods /\ h[1] \in Pods
      /\ h[2] \in {"cni", "ctl"}
  BY Zenon, HandlerFacts DEF Inv, Typed
<1>g. /\ \A label : Goto(h, label) \/ NextLink(h, label)
           => /\ pc'[g] = pc[g] /\ todo'[g] = todo[g] /\ upd'[g] = upd[g] /\ peer'[g] = peer[g]
              /\ loc' = loc /\ sbx' = sbx
      /\ \A ok : Return(h, ok)
           => /\ pc'[g] = pc[g] /\ todo'[g] = todo[g] /\ upd'[g] = upd[g] /\ peer'[g] = peer[g]
              /\ loc'[g] = loc[g] /\ (g[2] = "cni" => sbx'[g[1]] = sbx[g[1]])
      /\ \A label : UpdateStep(h, label)
           => /\ pc'[g] = pc[g] /\ todo'[g] = todo[g] /\ upd'[g] = upd[g] /\ peer'[g] = peer[g]
              /\ loc' = loc /\ sbx' = sbx
  BY Zenon, <1>t DEF Goto, NextLink, Return, UpdateStep
<1>1. CASE CallUpdateRemote(h) \/ AddLinkPhysical(h) \/ AddLinkAlive(h)
  BY Zenon, <1>1, <1>t DEF CallUpdateRemote, AddLinkPhysical, AddLinkAlive
<1>2. CASE \/ \E label : Goto(h, label) \/ NextLink(h, label) \/ UpdateStep(h, label)
           \/ \E ok : Return(h, ok)
  BY Zenon, <1>2, <1>g
<1>3. CASE LockStep(h)
  BY Zenon, <1>2, <1>3 DEF LockStep, LockForVeth, LockForVxLan, UpdateLock
<1>4. CASE UpdateSetup(h) \/ UpdateDone(h)
  BY Zenon, <1>2, <1>4 DEF UpdateSetup, UpdateSetupWith, UpdateDone
<1>5. CASE PlumbVeth(h) \/ PlumbVxLan(h) \/ UpdateReturns(h)
  BY Zenon, <1>2, <1>5 DEF PlumbVeth, PlumbVethWith, PlumbVxLan, PlumbVxLanWith, UpdateReturns
<1>6. CASE AddLinkError(h) \/ AddLinkMacVlan(h) \/ AddLinkSkip(h) \/ AddLinksDone(h)
  BY Zenon, <1>2, <1>6 DEF AddLinkError, AddLinkMacVlan, AddLinkSkip, AddLinksDone
<1>7. CASE DelLinksDone(h) \/ DelLinkError(h) \/ DelLinkRemove(h) \/ DelLinkGet(h) \/ DelLinkDelete(h)
  BY Zenon, <1>2, <1>7 DEF DelLinksDone, DelLinkError, DelLinkRemove, DelLinkGet, DelLinkDelete
<1> QED BY Zenon, <1>1, <1>3, <1>4, <1>5, <1>6, <1>7 DEF HandlerStep
=============================================================================
