-------------------------- MODULE DaemonLockProofs --------------------------
(* The link mutexes of the daemons: what the steps do to them, the lemmas on *)
(* one mutex first, and the steps that take none; the sections they make; and *)
(* the vxlanManager, which is told under them.  Then the mutexes when daemons *)
(* end at any time and are started again (DaemonCrash).                      *)
EXTENDS DaemonProofs, DaemonCrash

LockInv == HoldersRun /\ EntrantsHold

\* Only h moves, and no running handler changes its node.
OnlyMoves(h) ==
  \A g \in Handlers \ {h} :
    /\ pc'[g] = pc[g] /\ todo'[g] = todo[g] /\ upd'[g] = upd[g]
    /\ peer'[g] = peer[g] /\ loc'[g] = loc[g]
    /\ pc[g] # "idle" => node'[g[1]] = node[g[1]]

\* The tags of the holders tell them apart.
LEMMA HoldersDiffer ==
  ASSUME NEW g, NEW h
  PROVE  /\ Own(g) = Own(h) => g = h
         /\ Rem(g) = Rem(h) => g = h
         /\ Own(g) # Rem(h)
         /\ Own(g) # Free
         /\ Rem(g) # Free
  BY Zenon DEF Own, Rem, Free

\* A handler that does not move stays where it is with respect to the mutexes.
LEMMA OthersStay ==
  ASSUME Inv, NEW h \in Handlers, OnlyMoves(h), NEW g \in Handlers \ {h}, NEW n, NEW l
  PROVE  /\ InAddLink(g, n, l)' <=> InAddLink(g, n, l)
         /\ InUpdate(g, n, l)' <=> InUpdate(g, n, l)
<1>1. upd[g] # "none" => pc[g] # "idle"
  BY Zenon DEF Inv, HandlersOK, HandlerOK
<1>2. InAddLink(g, n, l)' <=> InAddLink(g, n, l)
  BY Zenon DEF OnlyMoves, InAddLink, At, Cur
<1>3. InUpdate(g, n, l)' <=> InUpdate(g, n, l)
  BY Zenon, <1>1 DEF OnlyMoves, InUpdate, UpdNode, Peer, At, Cur
<1> QED BY Zenon, <1>2, <1>3

\* Nothing changes when no handler moves with respect to the mutexes.
LEMMA SameLocks ==
  ASSUME LockInv, UNCHANGED mutex,
         \A g \in Handlers, n \in Nodes, l \in Links :
           /\ InAddLink(g, n, l)' <=> InAddLink(g, n, l)
           /\ InUpdate(g, n, l)' <=> InUpdate(g, n, l)
  PROVE  LockInv'
  BY DEF LockInv, HoldersRun, EntrantsHold, Own, Rem

\* Nor when the handlers do nothing.
LEMMA IdleLocks ==
  ASSUME LockInv, UNCHANGED <<node, handlerVars, mutex>>
  PROVE  LockInv'
<1>1. ASSUME NEW g \in Handlers, NEW n \in Nodes, NEW l \in Links
      PROVE  /\ InAddLink(g, n, l)' <=> InAddLink(g, n, l)
             /\ InUpdate(g, n, l)' <=> InUpdate(g, n, l)
  BY Zenon DEF handlerVars, InAddLink, InUpdate, At, UpdNode, Peer, Cur
<1> QED BY Zenon, <1>1, SameLocks

\* A step that takes or gives back no mutex.
LEMMA QuietLocks ==
  ASSUME Inv, LockInv, NEW h \in Handlers, OnlyMoves(h), UNCHANGED mutex,
         \A n \in Nodes, l \in Links : /\ InAddLink(h, n, l)' <=> InAddLink(h, n, l)
                                       /\ InUpdate(h, n, l)' <=> InUpdate(h, n, l)
  PROVE  LockInv'
<1>1. \A g \in Handlers, n \in Nodes, l \in Links :
        /\ InAddLink(g, n, l)' <=> InAddLink(g, n, l)
        /\ InUpdate(g, n, l)' <=> InUpdate(g, n, l)
  BY Zenon, OthersStay
<1> QED BY Zenon, <1>1, SameLocks

\* A step that takes the mutex of link k on node m for who.
LEMMA TakeLock ==
  ASSUME Inv, LockInv, NEW h \in Handlers, OnlyMoves(h), NEW m \in Nodes, NEW k \in Links,
         NEW who \in {Own(h), Rem(h)}, Lock(m, k, who),
         \A n \in Nodes, l \in Links :
           /\ InAddLink(h, n, l)' <=> InAddLink(h, n, l) \/ (who = Own(h) /\ n = m /\ l = k)
           /\ InUpdate(h, n, l)' <=> InUpdate(h, n, l) \/ (who = Rem(h) /\ n = m /\ l = k)
  PROVE  LockInv'
<1>1. ASSUME NEW n \in Nodes, NEW l \in Links
      PROVE  /\ n = m /\ l = k => mutex[n][l] = Free /\ mutex'[n][l] = who
             /\ ~(n = m /\ l = k) => mutex'[n][l] = mutex[n][l]
  BY Zenon DEF Lock, Inv, Typed
<1>2. ASSUME NEW n \in Nodes, NEW l \in Links, NEW g \in Handlers
      PROVE  /\ mutex'[n][l] = Own(g) => InAddLink(g, n, l)'
             /\ mutex'[n][l] = Rem(g) => InUpdate(g, n, l)'
             /\ InAddLink(g, n, l)' => mutex'[n][l] = Own(g)
             /\ InUpdate(g, n, l)' => mutex'[n][l] = Rem(g)
  <2>1. CASE g = h
    BY <2>1, <1>1, HoldersDiffer DEF LockInv, HoldersRun, EntrantsHold
  <2>2. CASE g # h
    BY <2>2, <1>1, OthersStay, HoldersDiffer DEF LockInv, HoldersRun, EntrantsHold
  <2> QED BY Zenon, <2>1, <2>2
<1> QED BY <1>2 DEF LockInv, HoldersRun, EntrantsHold, Own, Rem

\* A step that gives the mutex of link k on node m back for who.
LEMMA GiveLock ==
  ASSUME Inv, LockInv, NEW h \in Handlers, OnlyMoves(h), NEW m \in Nodes, NEW k \in Links,
         NEW who \in {Own(h), Rem(h)}, Unlock(m, k),
         who = Own(h) => InAddLink(h, m, k), who = Rem(h) => InUpdate(h, m, k),
         \A n \in Nodes, l \in Links :
           /\ InAddLink(h, n, l)' <=> InAddLink(h, n, l) /\ ~(who = Own(h) /\ n = m /\ l = k)
           /\ InUpdate(h, n, l)' <=> InUpdate(h, n, l) /\ ~(who = Rem(h) /\ n = m /\ l = k)
  PROVE  LockInv'
<1>1. ASSUME NEW n \in Nodes, NEW l \in Links
      PROVE  /\ n = m /\ l = k => mutex[n][l] = who /\ mutex'[n][l] = Free
             /\ ~(n = m /\ l = k) => mutex'[n][l] = mutex[n][l]
  BY DEF Unlock, Inv, Typed, LockInv, EntrantsHold
<1>2. ASSUME NEW n \in Nodes, NEW l \in Links, NEW g \in Handlers
      PROVE  /\ mutex'[n][l] = Own(g) => InAddLink(g, n, l)'
             /\ mutex'[n][l] = Rem(g) => InUpdate(g, n, l)'
             /\ InAddLink(g, n, l)' => mutex'[n][l] = Own(g)
             /\ InUpdate(g, n, l)' => mutex'[n][l] = Rem(g)
  <2>1. CASE g = h
    BY <2>1, <1>1, HoldersDiffer DEF LockInv, HoldersRun, EntrantsHold
  <2>2. CASE g # h
    BY <2>2, <1>1, OthersStay, HoldersDiffer DEF LockInv, HoldersRun, EntrantsHold
  <2> QED BY Zenon, <2>1, <2>2
<1> QED BY <1>2 DEF LockInv, HoldersRun, EntrantsHold, Own, Rem

\* addLink takes its mutex.
LEMMA TakeOwn ==
  ASSUME Inv, LockInv, NEW h \in Handlers, OnlyMoves(h), NEW m \in Nodes, NEW k \in Links,
         Lock(m, k, Own(h)),
         \A n \in Nodes, l \in Links :
           /\ InAddLink(h, n, l)' <=> InAddLink(h, n, l) \/ (n = m /\ l = k)
           /\ InUpdate(h, n, l)' <=> InUpdate(h, n, l)
  PROVE  LockInv'
<1>1. PICK who \in {Own(h), Rem(h)} : who = Own(h) /\ who # Rem(h)
  BY Zenon, HoldersDiffer
<1> QED BY <1>1, TakeLock

\* Update takes its mutex.
LEMMA TakeRem ==
  ASSUME Inv, LockInv, NEW h \in Handlers, OnlyMoves(h), NEW m \in Nodes, NEW k \in Links,
         Lock(m, k, Rem(h)),
         \A n \in Nodes, l \in Links :
           /\ InAddLink(h, n, l)' <=> InAddLink(h, n, l)
           /\ InUpdate(h, n, l)' <=> InUpdate(h, n, l) \/ (n = m /\ l = k)
  PROVE  LockInv'
<1>1. PICK who \in {Own(h), Rem(h)} : who = Rem(h) /\ who # Own(h)
  BY Zenon, HoldersDiffer
<1> QED BY <1>1, TakeLock

\* addLink gives its mutex back.
LEMMA GiveOwn ==
  ASSUME Inv, LockInv, NEW h \in Handlers, OnlyMoves(h), NEW m \in Nodes, NEW k \in Links,
         Unlock(m, k), InAddLink(h, m, k),
         \A n \in Nodes, l \in Links :
           /\ InAddLink(h, n, l)' <=> InAddLink(h, n, l) /\ ~(n = m /\ l = k)
           /\ InUpdate(h, n, l)' <=> InUpdate(h, n, l)
  PROVE  LockInv'
<1>1. PICK who \in {Own(h), Rem(h)} : who = Own(h) /\ who # Rem(h)
  BY Zenon, HoldersDiffer
<1> QED BY <1>1, GiveLock

\* Update gives its mutex back.
LEMMA GiveRem ==
  ASSUME Inv, LockInv, NEW h \in Handlers, OnlyMoves(h), NEW m \in Nodes, NEW k \in Links,
         Unlock(m, k), InUpdate(h, m, k),
         \A n \in Nodes, l \in Links :
           /\ InAddLink(h, n, l)' <=> InAddLink(h, n, l)
           /\ InUpdate(h, n, l)' <=> InUpdate(h, n, l) /\ ~(n = m /\ l = k)
  PROVE  LockInv'
<1>1. PICK who \in {Own(h), Rem(h)} : who = Rem(h) /\ who # Own(h)
  BY Zenon, HoldersDiffer
<1> QED BY <1>1, GiveLock

Critical == {"veth", "vx", "vxadd"}

\* The three ways a handler goes on move only that handler.
LEMMA MovesAlone ==
  ASSUME Inv, NEW h \in Handlers, UNCHANGED node,
         \/ \E label \in PC : Goto(h, label)
         \/ \E label \in PC : NextLink(h, label)
         \/ \E ok \in BOOLEAN : Return(h, ok)
  PROVE  OnlyMoves(h)
  BY Zenon DEF Inv, Typed, OnlyMoves, Goto, NextLink, Return

\* A step from outside the critical sections to outside.
LEMMA StaysOutside ==
  ASSUME Inv, LockInv, NEW h \in Handlers, OnlyMoves(h), UNCHANGED mutex,
         pc[h] \notin Critical, pc'[h] \notin Critical,
         upd[h] \notin {"locked", "setup"}, upd'[h] \notin {"locked", "setup"}
  PROVE  LockInv'
<1>1. \A n \in Nodes, l \in Links : /\ InAddLink(h, n, l)' <=> InAddLink(h, n, l)
                                    /\ InUpdate(h, n, l)' <=> InUpdate(h, n, l)
  BY Zenon DEF InAddLink, InUpdate, Critical
<1> QED BY Zenon, <1>1, QuietLocks

\* A handler that calls no Update is in none.
LEMMA NoUpdate ==
  ASSUME Inv, NEW h \in Handlers, pc[h] # "rpc"
  PROVE  upd[h] = "none"
  BY Zenon DEF Inv, HandlersOK, HandlerOK, Typed

\* A step that gives a pod another node, or none, while no handler of its kubelet
\* runs.  The controller's handler of the pod may run: it stays where it is.
LEMMA NewNodeLocks ==
  ASSUME Inv, LockInv, NEW p \in Pods, UNCHANGED <<mutex, upd>>,
         pc[Cni(p)] = "idle", pc'[Cni(p)] \in {"idle", "read"},
         \A g \in Handlers \ {Cni(p)} : /\ pc'[g] = pc[g] /\ todo'[g] = todo[g]
                                        /\ peer'[g] = peer[g] /\ loc'[g] = loc[g],
         \A q \in Pods \ {p} : node'[q] = node[q]
  PROVE  LockInv'
<1>1. upd[Cni(p)] = "none"
  BY Zenon, PodHandlers, NoUpdate
<1>2. ASSUME NEW g \in Handlers, NEW k \in Nodes, NEW l \in Links
      PROVE  /\ InAddLink(g, k, l)' <=> InAddLink(g, k, l)
             /\ InUpdate(g, k, l)' <=> InUpdate(g, k, l)
  <2>1. CASE g = Cni(p)
    BY Zenon, <1>1, <2>1 DEF InAddLink, InUpdate
  <2>2. CASE g # Cni(p)
    <3>1. g[1] = p => g[2] = "ctl"
      BY <2>2 DEF Handlers, Cni
    <3>2. At(g)' = At(g)
      BY Zenon, <2>2, <3>1, HandlerFacts DEF At
    <3> QED BY Zenon, <2>2, <3>2 DEF InAddLink, InUpdate, UpdNode, Peer, Cur
  <2> QED BY Zenon, <2>1, <2>2
<1> QED BY Zenon, <1>2, SameLocks

\* A step that begins a call of the kubelet or of the controller.
LEMMA BeginLocks ==
  ASSUME Inv, LockInv, NEW h \in Handlers, OnlyMoves(h), UNCHANGED <<mutex, upd>>,
         pc[h] = "idle", pc'[h] \in {"read", "add", "del"}
  PROVE  LockInv'
<1>1. upd[h] = "none"
  BY Zenon, NoUpdate
<1> QED BY Zenon, <1>1, StaysOutside DEF Critical

\* SetupPod.
LEMMA SetupPodLocks ==
  ASSUME Inv, LockInv, NEW p \in Pods, NEW n \in Nodes, SetupPod(p, n)
  PROVE  LockInv'
<1>1. pc[Cni(p)] = "idle" /\ UNCHANGED <<mutex, upd>>
  BY Zenon, CniIdle DEF SetupPod, NewSandbox
<1>2. pc'[Cni(p)] = "read" /\ \A q \in Pods \ {p} : node'[q] = node[q]
  BY Zenon, PodHandlers DEF SetupPod, NewSandbox, Inv, Typed, DevTypeOK
<1>3. \A g \in Handlers \ {Cni(p)} : /\ pc'[g] = pc[g] /\ todo'[g] = todo[g]
                                     /\ peer'[g] = peer[g] /\ loc'[g] = loc[g]
  BY Zenon DEF SetupPod, Inv, Typed
<1> QED BY Zenon, <1>1, <1>2, <1>3, NewNodeLocks

\* A SetupPod that does not find the pod, and the removal of a sandbox.
LEMMA SandboxLocks ==
  ASSUME Inv, LockInv, NEW p \in Pods,
         RemoveSandbox(p) \/ \E n \in Nodes : SetupPodUnread(p, n)
  PROVE  LockInv'
<1>1. /\ sbx[p] \in {"none", "deleted"} /\ UNCHANGED <<handlerVars, mutex>>
      /\ \A q \in Pods \ {p} : node'[q] = node[q]
  <2>1. node \in [Pods -> Nodes \cup {NoNode}]
    BY Zenon DEF Inv, Typed, DevTypeOK
  <2>2. CASE RemoveSandbox(p)
    BY Zenon, <2>1, <2>2 DEF RemoveSandbox
  <2>3. CASE \E n \in Nodes : SetupPodUnread(p, n)
    BY Zenon, <2>1, <2>3 DEF SetupPodUnread, NewSandbox
  <2> QED BY Zenon, <2>2, <2>3
<1>2. pc[Cni(p)] = "idle"
  BY Zenon, <1>1, CniIdle
<1> QED BY Zenon, <1>1, <1>2, NewNodeLocks DEF handlerVars

\* DestroyPod.
LEMMA DestroyPodLocks ==
  ASSUME Inv, LockInv, NEW p \in Pods, DestroyPod(p)
  PROVE  LockInv'
<1>1. pc[Cni(p)] = "idle" /\ UNCHANGED <<mutex, upd>>
  BY Zenon, CniIdle DEF DestroyPod, DeletedSandbox
<1>2. pc'[Cni(p)] = "read" /\ OnlyMoves(Cni(p))
  BY Zenon, PodHandlers DEF DestroyPod, OnlyMoves, Inv, Typed
<1> QED BY Zenon, <1>1, <1>2, PodHandlers, BeginLocks

\* The steps of SetAlive.
LEMMA SetAliveLocks ==
  ASSUME Inv, LockInv, NEW p \in Pods, SetAliveStep(p)
  PROVE  LockInv'
<1>1. /\ pc[Cni(p)] \in {"read", "write", "fin"} /\ UNCHANGED <<node, mutex>>
      /\ \/ \E label \in {"read", "write", "fin", "add", "del"} : Goto(Cni(p), label)
         \/ Return(Cni(p), FALSE)
  BY Zenon DEF SetAliveStep, SetAliveRead, SetAliveWrite, SetAliveConflict, SetAliveError, SetFinalizer
<1>2. OnlyMoves(Cni(p))
  BY Zenon, <1>1, PodHandlers, MovesAlone DEF PC
<1>3. upd[Cni(p)] = "none"
  BY Zenon, <1>1, PodHandlers, NoUpdate
<1>4. pc'[Cni(p)] \notin Critical /\ upd'[Cni(p)] = "none"
  BY Zenon, <1>1, <1>3, PodHandlers DEF Goto, Return, Critical, Inv, Typed
<1> QED BY Zenon, <1>1, <1>2, <1>3, <1>4, PodHandlers, StaysOutside DEF Critical

\* The calls of the controller.
LEMMA CallLinksLocks ==
  ASSUME Inv, LockInv, NEW p \in Pods, NEW label \in {"add", "del"}, CallLinks(p, label)
  PROVE  LockInv'
<1>1. pc[Ctl(p)] = "idle" /\ pc'[Ctl(p)] = label /\ UNCHANGED <<mutex, upd>>
  BY Zenon, PodHandlers DEF CallLinks, Inv, Typed
<1>2. OnlyMoves(Ctl(p))
  BY Zenon DEF CallLinks, kubeletVars, OnlyMoves, Inv, Typed
<1> QED BY Zenon, <1>1, <1>2, PodHandlers, BeginLocks

\* The steps of the kubelet, of SetAlive, of the controller and of the watch
\* are outside the critical sections.
LEMMA PodStepLocks ==
  ASSUME Inv, LockInv, NEW p \in Pods,
         \/ \E n \in Nodes : SetupPod(p, n) \/ SetupPodUnread(p, n)
         \/ DestroyPod(p) \/ DestroyPodUnread(p) \/ RemoveSandbox(p)
         \/ SetAliveStep(p) \/ AddLinks(p) \/ DelLinks(p) \/ Touch(p)
         \/ \E n \in Nodes : Watch(n, p)
  PROVE  LockInv'
<1>1. ASSUME DestroyPodUnread(p) \/ Touch(p) \/ \E n \in Nodes : Watch(n, p) PROVE LockInv'
  <2>1. UNCHANGED <<node, handlerVars, mutex>>
    BY Zenon, <1>1 DEF DestroyPodUnread, Touch, Watch, kubeletVars
  <2> QED BY Zenon, <2>1, IdleLocks
<1> QED BY Zenon, <1>1, SetupPodLocks, SandboxLocks, DestroyPodLocks, SetAliveLocks, CallLinksLocks
        DEF AddLinks, DelLinks

-----------------------------------------------------------------------------
(* The link mutexes of the daemons: who holds one is plumbing, and who is  *)
(* plumbing holds one.                                                     *)

\* The steps of a handler that send it to a mutex or to a remote Update.
LEMMA DepartLocks ==
  ASSUME Inv, LockInv, NEW h \in Handlers, AddLinkPhysical(h) \/ AddLinkAlive(h)
  PROVE  LockInv'
<1>1. pc[h] = "add" /\ UNCHANGED mutex
  BY Zenon DEF AddLinkPhysical, AddLinkAlive, AddingLink
<1>2. pc'[h] \in {"rpc", "vethlock", "vxlock"}
  BY Zenon DEF AddLinkPhysical, AddLinkAlive, Inv, Typed
<1>3. upd[h] = "none" /\ upd'[h] \in {"none", "sent"}
  BY Zenon, <1>1, NoUpdate DEF AddLinkPhysical, AddLinkAlive, Inv, Typed
<1>4. OnlyMoves(h)
  BY Zenon DEF AddLinkPhysical, AddLinkAlive, elsewhere, OnlyMoves, Inv, Typed
<1> QED BY Zenon, <1>1, <1>2, <1>3, <1>4, StaysOutside DEF Critical

\* A handler outside the critical sections goes on to another place outside.
LEMMA GoesOnLocks ==
  ASSUME Inv, LockInv, NEW h \in Handlers, UNCHANGED <<node, mutex>>,
         pc[h] \notin Critical, upd[h] \notin {"locked", "setup"},
         \/ \E label \in PC \ Critical : Goto(h, label)
         \/ \E label \in {"add", "del"} : NextLink(h, label)
         \/ \E ok \in BOOLEAN : Return(h, ok)
  PROVE  LockInv'
<1>1. OnlyMoves(h)
  BY Zenon, MovesAlone DEF PC
<1>2. pc'[h] \notin Critical /\ upd'[h] \notin {"locked", "setup"}
  BY Zenon DEF Goto, NextLink, Return, Critical, Inv, Typed
<1> QED BY Zenon, <1>1, <1>2, StaysOutside

\* The other steps of addLink and the return of Update.
LEMMA AddLinkOutsideLocks ==
  ASSUME Inv, LockInv, NEW h \in Handlers,
         \/ AddLinksDone(h) \/ AddLinkError(h) \/ AddLinkMacVlan(h) \/ AddLinkSkip(h)
         \/ UpdateReturns(h)
  PROVE  LockInv'
<1>1. /\ pc[h] \in {"add", "rpc"} /\ (pc[h] = "rpc" => upd[h] \in {"ok", "err", "sent"})
      /\ UNCHANGED <<node, mutex>>
      /\ NextLink(h, "add") \/ \E ok \in BOOLEAN : Return(h, ok)
  BY Zenon DEF AddLinksDone, AddLinkError, AddLinkMacVlan, AddLinkSkip, AddingLink, UpdateReturns, elsewhere
<1>2. pc[h] \notin Critical /\ upd[h] \notin {"locked", "setup"}
  BY Zenon, <1>1, NoUpdate DEF Critical
<1> QED BY Zenon, <1>1, <1>2, GoesOnLocks

\* The steps of delLink.
LEMMA DelLinkLocks ==
  ASSUME Inv, LockInv, NEW h \in Handlers,
         \/ DelLinksDone(h) \/ DelLinkError(h) \/ DelLinkRemove(h)
         \/ DelLinkGet(h) \/ DelLinkDelete(h)
  PROVE  LockInv'
<1>1. /\ pc[h] \in {"del", "delget", "deldel"} /\ UNCHANGED <<node, mutex>>
      /\ \/ Goto(h, "delget") \/ Goto(h, "deldel")
         \/ NextLink(h, "del") \/ \E ok \in BOOLEAN : Return(h, ok)
  BY Zenon DEF DelLinksDone, DelLinkError, DelLinkRemove, DelLinkGet, DelLinkDelete, elsewhere
<1>2. pc[h] \notin Critical /\ upd[h] \notin {"locked", "setup"}
  BY Zenon, <1>1, NoUpdate DEF Critical
<1>3. {"delget", "deldel"} \subseteq PC \ Critical
  BY Zenon DEF PC, Critical
<1> QED BY Zenon, <1>1, <1>2, <1>3, GoesOnLocks

\* What is known of a handler that plumbs a link.
LEMMA PlumbingFacts ==
  ASSUME Inv, NEW h \in Handlers, pc[h] \in Plumbing
  PROVE  /\ upd[h] = "none" /\ At(h) \in Nodes /\ Cur(h) \in Links /\ h[1] \in Pods
         /\ todo \in [Handlers -> Seq(Links)] /\ pc \in [Handlers -> PC] /\ upd \in [Handlers -> Upd]
  BY Zenon, HandlerFacts, NoUpdate DEF Plumbing, Simple, Inv, Typed

\* addLink enters its critical section.
LEMMA EnterLocks ==
  ASSUME Inv, LockInv, NEW h \in Handlers, LockForVeth(h) \/ LockForVxLan(h)
  PROVE  LockInv'
<1>1. /\ pc[h] \in Plumbing \ Critical /\ UNCHANGED node /\ Lock(At(h), Cur(h), Own(h))
      /\ \E label \in Critical : Goto(h, label)
  BY Zenon DEF LockForVeth, LockForVxLan, elsewhere, Critical, Plumbing
<1>f. upd[h] = "none" /\ At(h) \in Nodes /\ Cur(h) \in Links
  BY Zenon, <1>1, PlumbingFacts
<1>2. OnlyMoves(h)
  BY Zenon, <1>1, MovesAlone DEF Critical, PC
<1>3. At(h)' = At(h) /\ Cur(h)' = Cur(h) /\ pc'[h] \in Critical /\ upd'[h] = "none"
  BY Zenon, <1>1, <1>f DEF Goto, At, Cur, Inv, Typed
<1>4. \A n \in Nodes, l \in Links :
        /\ InAddLink(h, n, l)' <=> InAddLink(h, n, l) \/ (n = At(h) /\ l = Cur(h))
        /\ InUpdate(h, n, l)' <=> InUpdate(h, n, l)
  BY Zenon, <1>1, <1>f, <1>3 DEF InAddLink, InUpdate, Critical
<1> DEFINE m == At(h)
           k == Cur(h)
<1>5. /\ m \in Nodes /\ k \in Links /\ Lock(m, k, Own(h))
      /\ \A n \in Nodes, l \in Links :
           /\ InAddLink(h, n, l)' <=> InAddLink(h, n, l) \/ (n = m /\ l = k)
           /\ InUpdate(h, n, l)' <=> InUpdate(h, n, l)
  BY Zenon, <1>1, <1>f, <1>4
<1> HIDE DEF m, k
<1> QED BY <1>2, <1>5, TakeOwn

\* addLink leaves its critical section.
LEMMA LeaveLocks ==
  ASSUME Inv, LockInv, NEW h \in Handlers, pc[h] \in Critical, OnlyMoves(h),
         Unlock(At(h), Cur(h)), pc'[h] \notin Critical, upd'[h] \in {"none", "sent"}
  PROVE  LockInv'
<1>1. upd[h] = "none" /\ At(h) \in Nodes /\ Cur(h) \in Links
  BY Zenon, PlumbingFacts DEF Critical, Plumbing
<1>2. InAddLink(h, At(h), Cur(h))
  BY Zenon DEF InAddLink, Critical
<1>3. \A n \in Nodes, l \in Links :
        /\ InAddLink(h, n, l)' <=> InAddLink(h, n, l) /\ ~(n = At(h) /\ l = Cur(h))
        /\ InUpdate(h, n, l)' <=> InUpdate(h, n, l)
  BY Zenon, <1>1 DEF InAddLink, InUpdate, Critical
<1> QED BY <1>1, <1>2, <1>3, GiveOwn

\* It leaves with the next link or with an error.
LEMMA LeaveAloneLocks ==
  ASSUME Inv, LockInv, NEW h \in Handlers, pc[h] \in Critical, UNCHANGED node,
         Unlock(At(h), Cur(h)), NextLink(h, "add") \/ Return(h, FALSE)
  PROVE  LockInv'
<1>1. upd[h] = "none"
  BY Zenon, NoUpdate DEF Critical
<1>2. OnlyMoves(h)
  BY Zenon, MovesAlone DEF PC
<1>3. pc'[h] \notin Critical /\ upd'[h] = "none"
  BY Zenon, <1>1 DEF NextLink, Return, Critical, Inv, Typed
<1> QED BY Zenon, <1>2, <1>3, LeaveLocks

\* It goes on inside, from the first call for a vxlan to the second.
LEMMA StayLocks ==
  ASSUME Inv, LockInv, NEW h \in Handlers, pc[h] \in Critical, UNCHANGED <<node, mutex>>,
         Goto(h, "vxadd")
  PROVE  LockInv'
<1>1. upd[h] = "none"
  BY Zenon, NoUpdate DEF Critical
<1>2. OnlyMoves(h)
  BY Zenon, MovesAlone DEF PC
<1>3. At(h)' = At(h) /\ Cur(h)' = Cur(h) /\ pc'[h] \in Critical /\ upd'[h] = "none"
  BY Zenon, <1>1 DEF Goto, At, Cur, Critical, Inv, Typed
<1>4. \A n \in Nodes, l \in Links : /\ InAddLink(h, n, l)' <=> InAddLink(h, n, l)
                                    /\ InUpdate(h, n, l)' <=> InUpdate(h, n, l)
  BY Zenon, <1>1, <1>3 DEF InAddLink, InUpdate, Critical
<1> QED BY Zenon, <1>2, <1>4, QuietLocks

\* SetupVeth under the mutex.
LEMMA PlumbVethLocks ==
  ASSUME Inv, LockInv, NEW h \in Handlers, PlumbVeth(h)
  PROVE  LockInv'
<1>1. /\ pc[h] \in Critical /\ UNCHANGED node /\ Unlock(At(h), Cur(h))
      /\ NextLink(h, "add") \/ Return(h, FALSE)
  BY Zenon DEF PlumbVeth, PlumbVethWith, elsewhere, Critical
<1> QED BY Zenon, <1>1, LeaveAloneLocks

\* SetupVxLan under the mutex.
LEMMA PlumbVxLanLocks ==
  ASSUME Inv, LockInv, NEW h \in Handlers, PlumbVxLan(h)
  PROVE  LockInv'
<1>1. /\ pc[h] \in Critical /\ UNCHANGED node
      /\ \/ Goto(h, "vxadd") /\ UNCHANGED mutex
         \/ Return(h, FALSE) /\ Unlock(At(h), Cur(h))
  BY Zenon DEF PlumbVxLan, PlumbVxLanWith, elsewhere, Critical
<1> QED BY Zenon, <1>1, StayLocks, LeaveAloneLocks

\* The mutex is given back before Update is called on the other node.
LEMMA CallUpdateRemoteLocks ==
  ASSUME Inv, LockInv, NEW h \in Handlers, CallUpdateRemote(h)
  PROVE  LockInv'
<1>1. pc[h] \in Critical /\ UNCHANGED node /\ Unlock(At(h), Cur(h))
  BY Zenon DEF CallUpdateRemote, elsewhere, Critical
<1>2. pc'[h] \notin Critical /\ upd'[h] = "sent"
  BY Zenon DEF CallUpdateRemote, Critical, Inv, Typed
<1>3. OnlyMoves(h)
  BY Zenon DEF CallUpdateRemote, elsewhere, OnlyMoves, Inv, Typed
<1> QED BY Zenon, <1>1, <1>2, <1>3, LeaveLocks

\* What is known of a handler whose Update has been sent.
LEMMA UpdateFacts ==
  ASSUME Inv, NEW h \in Handlers, upd[h] # "none"
  PROVE  /\ pc[h] = "rpc" /\ UpdNode(h) \in Nodes /\ Cur(h) \in Links /\ h[1] \in Pods
         /\ upd \in [Handlers -> Upd]
  BY Zenon, HandlerFacts DEF Inv, Typed, HandlersOK, HandlerOK, Simple, UpdNode

\* What a step of Update moves.
LEMMA UpdateMoves ==
  ASSUME Inv, NEW h \in Handlers, upd[h] # "none", NEW s, UpdateStep(h, s)
  PROVE  /\ OnlyMoves(h) /\ UpdNode(h)' = UpdNode(h) /\ Cur(h)' = Cur(h)
         /\ pc'[h] = "rpc" /\ upd'[h] = s
<1>1. h[1] \in Pods /\ pc[h] = "rpc" /\ upd \in [Handlers -> Upd]
  BY Zenon, UpdateFacts
<1> QED BY Zenon, <1>1 DEF UpdateStep, elsewhere, OnlyMoves, UpdNode, At, Peer, Cur

\* Update takes its mutex.
LEMMA UpdateLockLocks ==
  ASSUME Inv, LockInv, NEW h \in Handlers, UpdateLock(h)
  PROVE  LockInv'
<1>1. upd[h] = "sent" /\ Lock(UpdNode(h), Cur(h), Rem(h)) /\ UpdateStep(h, "locked")
  BY Zenon DEF UpdateLock
<1>2. /\ OnlyMoves(h) /\ UpdNode(h)' = UpdNode(h) /\ Cur(h)' = Cur(h)
      /\ pc'[h] = "rpc" /\ upd'[h] = "locked"
  BY Zenon, <1>1, UpdateMoves
<1>3. pc[h] = "rpc" /\ UpdNode(h) \in Nodes /\ Cur(h) \in Links
  BY Zenon, <1>1, UpdateFacts
<1>4. \A n \in Nodes, l \in Links :
        /\ InAddLink(h, n, l)' <=> InAddLink(h, n, l)
        /\ InUpdate(h, n, l)' <=> InUpdate(h, n, l) \/ (n = UpdNode(h) /\ l = Cur(h))
  BY Zenon, <1>1, <1>2, <1>3 DEF InAddLink, InUpdate
<1> QED BY Zenon, <1>1, <1>2, <1>3, <1>4, TakeRem

\* Update gives its mutex back, with success or an error.
LEMMA UpdateLeaveLocks ==
  ASSUME Inv, LockInv, NEW h \in Handlers, upd[h] \in {"locked", "setup"},
         NEW s \in {"ok", "err"}, UpdateStep(h, s), Unlock(UpdNode(h), Cur(h))
  PROVE  LockInv'
<1>1. OnlyMoves(h) /\ pc'[h] = "rpc" /\ upd'[h] = s
  BY Zenon, UpdateMoves
<1>2. pc[h] = "rpc" /\ UpdNode(h) \in Nodes /\ Cur(h) \in Links
  BY Zenon, UpdateFacts
<1>3. InUpdate(h, UpdNode(h), Cur(h))
  BY Zenon DEF InUpdate
<1>4. \A n \in Nodes, l \in Links :
        /\ InAddLink(h, n, l)' <=> InAddLink(h, n, l)
        /\ InUpdate(h, n, l)' <=> InUpdate(h, n, l) /\ ~(n = UpdNode(h) /\ l = Cur(h))
  BY Zenon, <1>1, <1>2 DEF InAddLink, InUpdate
<1> QED BY <1>1, <1>2, <1>3, <1>4, GiveRem

\* Update goes on under its mutex.
LEMMA UpdateStayLocks ==
  ASSUME Inv, LockInv, NEW h \in Handlers, upd[h] = "locked", UpdateStep(h, "setup"),
         UNCHANGED mutex
  PROVE  LockInv'
<1>1. /\ OnlyMoves(h) /\ UpdNode(h)' = UpdNode(h) /\ Cur(h)' = Cur(h)
      /\ pc[h] = "rpc" /\ pc'[h] = "rpc" /\ upd'[h] = "setup"
  BY Zenon, UpdateMoves, UpdateFacts
<1>2. \A n \in Nodes, l \in Links : /\ InAddLink(h, n, l)' <=> InAddLink(h, n, l)
                                    /\ InUpdate(h, n, l)' <=> InUpdate(h, n, l)
  BY Zenon, <1>1 DEF InAddLink, InUpdate
<1> QED BY Zenon, <1>1, <1>2, QuietLocks

\* The steps of Update.
LEMMA UpdateLocks ==
  ASSUME Inv, LockInv, NEW h \in Handlers, UpdateLock(h) \/ UpdateSetup(h) \/ UpdateDone(h)
  PROVE  LockInv'
<1>1. ASSUME UpdateSetup(h) PROVE LockInv'
  <2>1. /\ upd[h] = "locked"
        /\ \/ UpdateStep(h, "setup") /\ UNCHANGED mutex
           \/ UpdateStep(h, "err") /\ Unlock(UpdNode(h), Cur(h))
    BY Zenon, <1>1 DEF UpdateSetup, UpdateSetupWith
  <2>2. CASE UpdateStep(h, "setup") /\ UNCHANGED mutex
    BY Zenon, <2>1, <2>2, UpdateStayLocks
  <2>3. CASE UpdateStep(h, "err") /\ Unlock(UpdNode(h), Cur(h))
    BY Zenon, <2>1, <2>3, UpdateLeaveLocks
  <2> QED BY <2>1, <2>2, <2>3, ZenonT(60)
<1>2. ASSUME UpdateDone(h) PROVE LockInv'
  BY Zenon, <1>2, UpdateLeaveLocks DEF UpdateDone
<1> QED BY Zenon, <1>1, <1>2, UpdateLockLocks

\* All the steps.
LEMMA LockNext == Inv /\ LockInv /\ [Next]_vars => LockInv'
<1> SUFFICES ASSUME Inv, LockInv, [Next]_vars PROVE LockInv'
  BY Zenon
<1>1. ASSUME NEW h \in Handlers, HandlerStep(h) \/ LockStep(h) PROVE LockInv'
  BY Zenon, <1>1, DepartLocks, AddLinkOutsideLocks, DelLinkLocks, EnterLocks, PlumbVethLocks,
     PlumbVxLanLocks, CallUpdateRemoteLocks, UpdateLocks DEF HandlerStep, LockStep
<1>2. CASE UNCHANGED vars
  BY Zenon, <1>2, IdleLocks DEF vars, kubeletVars
<1> QED BY Zenon, <1>1, <1>2, PodStepLocks DEF Next, Quiet

\* Nobody holds a mutex when the daemons start.
LEMMA InitLocks == Init => LockInv
<1> SUFFICES ASSUME Init, NEW n \in Nodes, NEW l \in Links, NEW h \in Handlers
             PROVE  /\ mutex[n][l] # Own(h) /\ mutex[n][l] # Rem(h)
                    /\ ~InAddLink(h, n, l) /\ ~InUpdate(h, n, l)
  BY Zenon DEF LockInv, HoldersRun, EntrantsHold
<1>1. mutex[n][l] = Free /\ pc[h] = "idle" /\ upd[h] = "none"
  BY Zenon DEF Init
<1> QED BY Zenon, <1>1, HoldersDiffer DEF InAddLink, InUpdate

\* Whoever holds a link mutex is plumbing under it, and the other way round.
THEOREM LocksHeld == Spec => []LockInv
  BY InitLocks, LockNext, HandlersCorrect, PTL DEF Spec

\* No handler keeps a link mutex while it waits for another mutex or for the
\* answer of a remote Update, nor when it returns, on any error path of addLink
\* and Update: the daemons cannot deadlock on each other's links.
THEOREM NoHoldAndWait == Spec => []HoldersRun
<1>1. LockInv => HoldersRun
  BY Zenon DEF LockInv
<1> QED BY <1>1, LocksHeld, PTL

\* addLink and Update exclude each other on a link of a node.
THEOREM MutualExclusion == Spec => []Exclusive
<1>1. LockInv => Exclusive
  BY HoldersDiffer DEF LockInv, EntrantsHold, Exclusive
<1> QED BY <1>1, LocksHeld, PTL

-----------------------------------------------------------------------------
(* The daemons implement LinkSections, for any pods, nodes and links.      *)

InsideIsHolder ==
  \A n \in Nodes, l \in Links :
    InsideOf(n, l) = IF mutex[n][l] = Free THEN {} ELSE {mutex[n][l]}

\* The worker in the section of a link is the holder of its mutex.
LEMMA InsideHolder == TypeOK /\ LockInv => InsideIsHolder
<1> SUFFICES ASSUME TypeOK, LockInv, NEW n \in Nodes, NEW l \in Links
             PROVE  InsideOf(n, l) = IF mutex[n][l] = Free THEN {} ELSE {mutex[n][l]}
  BY Zenon DEF InsideIsHolder
<1>1. ASSUME NEW x \in InsideOf(n, l) PROVE x = mutex[n][l] /\ x # Free
  BY Zenon, HoldersDiffer DEF InsideOf, LockInv, EntrantsHold
<1>2. ASSUME mutex[n][l] # Free PROVE mutex[n][l] \in InsideOf(n, l)
  <2>1. mutex[n][l] \in {"own", "upd"} \X Handlers
    BY <1>2 DEF TypeOK, Holder
  <2>2. PICK t \in {"own", "upd"}, h \in Handlers : mutex[n][l] = <<t, h>>
    BY <2>1
  <2>3. mutex[n][l] = Own(h) \/ mutex[n][l] = Rem(h)
    BY Zenon, <2>2 DEF Own, Rem
  <2> QED BY Zenon, <2>3 DEF LockInv, HoldersRun, InsideOf
<1> QED BY Zenon, <1>1, <1>2

\* Every step of the daemons is a step of the sections.
LEMMA SectionStep ==
  ASSUME Inv, TypeOK', InsideIsHolder, InsideIsHolder', [Next]_vars
  PROVE  Sections!Next
<1>1. ASSUME NEW n \in Nodes, NEW l \in Links
      PROVE  \/ InsideOf(n, l)' = InsideOf(n, l)
             \/ InsideOf(n, l)' = {}
             \/ InsideOf(n, l) = {} /\ \E w \in Workers : InsideOf(n, l)' = {w}
  <2>1. InsideOf(n, l) = IF mutex[n][l] = Free THEN {} ELSE {mutex[n][l]}
    BY Zenon DEF InsideIsHolder
  <2>2. InsideOf(n, l)' = IF mutex'[n][l] = Free THEN {} ELSE {mutex'[n][l]}
    BY Zenon DEF InsideIsHolder
  <2>3. mutex'[n][l] # Free => mutex'[n][l] \in Workers
    BY DEF TypeOK, Holder, Workers
  <2>4. MutexStep(n, l)
    BY Zenon, NextMutex
  <2> QED BY Zenon, <2>1, <2>2, <2>3, <2>4 DEF MutexStep
<1> QED BY Zenon, <1>1 DEF Sections!Next, Sections!Stay, Sections!Leave, Sections!Enter, Inside

\* The daemons implement LinkSections: whatever the pods, the nodes, the links
\* and the faults, addLink and Update enter the section of a link on a node only
\* when nobody is in it, and leave it by a step of their own.
THEOREM DaemonsKeepSections == Spec => LinkSectionsKept
<1>1. Init => Sections!Init
  BY DEF Init, Sections!Init, Inside, InsideOf, InAddLink, InUpdate
<1>2. Inv /\ TypeOK' /\ InsideIsHolder /\ InsideIsHolder' /\ [Next]_vars
      => [Sections!Next]_Inside
  BY Zenon, SectionStep
<1> QED BY <1>1, <1>2, InsideHolder, HandlersCorrect, TypeCorrect, LocksHeld, PTL DEF Spec, LinkSectionsKept, Sections!Spec

-----------------------------------------------------------------------------
(* The vxlanManager.                                                       *)

\* h has made a vxlan, or found it made, and is about to tell the vxlanManager of
\* the node: of its own end in addLink, of the other end in Update.
Made(h) == pc[h] = "vxadd" \/ upd[h] = "setup"
MadeAt(h) == IF pc[h] = "vxadd" THEN At(h) ELSE UpdNode(h)
MadeFor(h) == IF pc[h] = "vxadd" THEN <<h[1], loc[h].gen>> ELSE <<UpdPod(h), UpdGen(h)>>
Telling(h, n, l) == Made(h) /\ MadeAt(h) = n /\ Cur(h) = l

\* A vxlan that is there is the one the vxlanManager knows, or is about to be told of.
Tracked(p, l) ==
  /\ \A h \in Handlers : Telling(h, node[p], l) => MadeFor(h) = <<p, start[p]>>
  /\ (\A h \in Handlers : ~Telling(h, node[p], l)) => vxm[node[p]][l] = <<p, start[p]>>

Tracks ==
  /\ \A p \in Pods, l \in Links :
       dev[p][l].kind = "vxlan" => node[p] # NoNode /\ Tracked(p, l)
  /\ \A h \in Handlers : Made(h) => MadeFor(h)[2] # 0
  /\ \A n \in Nodes, l \in Links : vxm[n][l] # NoNs => vxm[n][l][2] # 0

\* Only DestroyPod deletes links, and it names no namespace.
NoDeletion ==
  /\ \A p \in Pods : pc[Ctl(p)] = "idle"
                     /\ (sbx[p] = "adding" => pc[Cni(p)] \notin Del)
  /\ \A h \in Handlers : pc[h] # "deldel"

VxmInv == NoDeletion /\ Tracks

SameWork(h) ==
  /\ Made(h)' <=> Made(h)
  /\ Made(h) => MadeAt(h)' = MadeAt(h) /\ Cur(h)' = Cur(h) /\ MadeFor(h)' = MadeFor(h)

\* The vxlans after a step were there before, in the same namespaces.
Fewer ==
  \A p \in Pods, l \in Links :
    dev'[p][l].kind = "vxlan" => dev[p][l].kind = "vxlan" /\ node'[p] = node[p] /\ start'[p] = start[p]

\* A handler that does not move has the same to tell.
LEMMA OthersTell ==
  ASSUME Inv, NEW h \in Handlers, OnlyMoves(h), NEW g \in Handlers \ {h}
  PROVE  SameWork(g)
<1>1. Made(g) => pc[g] # "idle"
  BY Zenon DEF Made, Inv, HandlersOK, HandlerOK
<1>2. /\ pc'[g] = pc[g] /\ todo'[g] = todo[g] /\ upd'[g] = upd[g]
      /\ peer'[g] = peer[g] /\ loc'[g] = loc[g]
      /\ pc[g] # "idle" => node'[g[1]] = node[g[1]]
  BY Zenon DEF OnlyMoves
<1>3. Made(g)' <=> Made(g)
  BY Zenon, <1>2 DEF Made
<1>4. Made(g) => MadeAt(g)' = MadeAt(g)
  BY Zenon, <1>1, <1>2 DEF MadeAt, At, UpdNode, Peer, Cur
<1>5. Made(g) => Cur(g)' = Cur(g) /\ MadeFor(g)' = MadeFor(g)
  BY Zenon, <1>1, <1>2 DEF MadeFor, UpdPod, UpdGen, Peer, Cur
<1> QED BY Zenon, <1>3, <1>4, <1>5 DEF SameWork

\* A step that makes no vxlan, and of which the vxlanManager learns nothing.
LEMMA QuietTracks ==
  ASSUME Inv, Tracks, NEW h \in Handlers, OnlyMoves(h), SameWork(h), UNCHANGED vxm, Fewer
  PROVE  Tracks'
<1>1. ASSUME NEW g \in Handlers PROVE SameWork(g)
  BY Zenon, OthersTell
<1>2. ASSUME NEW g \in Handlers, NEW n, NEW l PROVE Telling(g, n, l)' <=> Telling(g, n, l)
  BY Zenon, <1>1 DEF SameWork, Telling
<1>3. ASSUME NEW p \in Pods, NEW l \in Links, dev'[p][l].kind = "vxlan"
      PROVE  node'[p] # NoNode /\ Tracked(p, l)'
  <2>1. /\ node[p] # NoNode /\ Tracked(p, l)
        /\ node'[p] = node[p] /\ start'[p] = start[p]
    BY Zenon, <1>3 DEF Tracks, Fewer
  <2>n. PICK n : n = node[p]
    BY Zenon
  <2>2. \A g \in Handlers : Telling(g, n, l)' <=> Telling(g, n, l)
    BY Zenon, <1>2
  <2>3. \A g \in Handlers : Telling(g, n, l) => MadeFor(g)' = <<p, start[p]>>
    BY Zenon, <1>1, <2>1, <2>n DEF SameWork, Tracked, Telling
  <2>4. (\A g \in Handlers : ~Telling(g, n, l)) => vxm'[n][l] = <<p, start[p]>>
    BY Zenon, <2>1, <2>n DEF Tracked
  <2>5. \A g \in Handlers : Telling(g, n, l)' => MadeFor(g)' = <<p, start[p]>>
    BY Zenon, <2>2, <2>3
  <2>6. (\A g \in Handlers : ~Telling(g, n, l)') => vxm'[n][l] = <<p, start[p]>>
    BY Zenon, <2>2, <2>4
  <2>7. Tracked(p, l)'
    BY Zenon, <2>1, <2>n, <2>5, <2>6 DEF Tracked
  <2> QED BY Zenon, <2>1, <2>7
<1>4. \A g \in Handlers : Made(g)' => MadeFor(g)'[2] # 0
  BY Zenon, <1>1 DEF SameWork, Tracks
<1>5. \A n \in Nodes, l \in Links : vxm'[n][l] # NoNs => vxm'[n][l][2] # 0
  BY Zenon DEF Tracks
<1> QED BY Zenon, <1>3, <1>4, <1>5 DEF Tracks

\* Who plumbs a link on a node is alone there.
LEMMA AloneThere ==
  ASSUME Inv, LockInv, NEW h \in Handlers, NEW n \in Nodes, NEW l \in Links,
         InAddLink(h, n, l) \/ InUpdate(h, n, l), NEW g \in Handlers, g # h
  PROVE  ~Telling(g, n, l)
<1>1. Telling(g, n, l) => InAddLink(g, n, l) \/ InUpdate(g, n, l)
  BY Zenon DEF Telling, Made, MadeAt, InAddLink, InUpdate
<1>2. /\ InAddLink(g, n, l) => mutex[n][l] = Own(g)
      /\ InUpdate(g, n, l) => mutex[n][l] = Rem(g)
      /\ InAddLink(h, n, l) => mutex[n][l] = Own(h)
      /\ InUpdate(h, n, l) => mutex[n][l] = Rem(h)
  BY Zenon DEF LockInv, EntrantsHold
<1> QED BY Zenon, <1>1, <1>2, HoldersDiffer

\* Of d, with a vxlan of link l made in the namespace of x, e has no other new one,
\* and no second one of this VNI on node n, unless there were two before.
MadeOne(e, d, n, x, g, l) ==
  /\ NsExists(n, x, g)
  /\ \A p \in Pods, k \in Links : e[p][k].kind = "vxlan" => d[p][k].kind = "vxlan" \/ (p = x /\ k = l)
  /\ \A p \in Pods \ {x} : e[p][l].kind = "vxlan" /\ node[p] = n
       => d[p][l].kind = "vxlan" /\ d[x][l].kind = "vxlan"

\* A step of h that makes the vxlan of link l in the namespace of x on n, or finds it made.
MakesAt(h, n, l, x, g) ==
  /\ OnlyMoves(h) /\ UNCHANGED <<vxm, node, start>>
  /\ ~Made(h) /\ Made(h)' /\ MadeAt(h)' = n /\ Cur(h)' = l /\ MadeFor(h)' = <<x, g>>
  /\ \A f \in Handlers : ~Telling(f, n, l)
  /\ MadeOne(dev', dev, n, x, g, l)

\* It leaves one vxlan of the VNI on the node, that of x, and so keeps Tracks.
LEMMA MakeTracks ==
  ASSUME Inv, Tracks, NEW h \in Handlers, NEW n \in Nodes, NEW l \in Links, NEW x \in Pods, NEW g,
         MakesAt(h, n, l, x, g)
  PROVE  Tracks'
<1> SUFFICES ASSUME OnlyMoves(h), UNCHANGED <<vxm, node, start>>,
                    ~Made(h), Made(h)', MadeAt(h)' = n, Cur(h)' = l, MadeFor(h)' = <<x, g>>,
                    g # 0, start[x] = g,
                    \A f \in Handlers : ~Telling(f, n, l),
                    \A p \in Pods, k \in Links : dev'[p][k].kind = "vxlan"
                      => dev[p][k].kind = "vxlan" \/ (p = x /\ k = l /\ node[x] = n),
                    \A p \in Pods : dev'[p][l].kind = "vxlan" /\ node[p] = n => p = x
             PROVE  Tracks'
  <2>1. \A p \in Pods : dev'[p][l].kind = "vxlan" /\ node[p] = n => p = x
    <3> SUFFICES ASSUME NEW p \in Pods, dev'[p][l].kind = "vxlan", node[p] = n, p # x PROVE FALSE
      BY Zenon
    <3>1. dev[p][l].kind = "vxlan" /\ dev[x][l].kind = "vxlan" /\ node[x] = n
      BY Zenon DEF MakesAt, MadeOne, NsExists
    <3>2. \A f \in Handlers : ~Telling(f, n, l)
      BY Zenon DEF MakesAt
    <3>3. vxm[n][l] = <<p, start[p]>> /\ vxm[n][l] = <<x, start[x]>>
      BY Zenon, <3>1, <3>2 DEF Tracks, Tracked
    <3> QED BY <3>3
  <2> QED BY Zenon, <2>1 DEF MakesAt, MadeOne, NsExists
<1>1. ASSUME NEW f \in Handlers \ {h} PROVE SameWork(f)
  BY Zenon, OthersTell
<1>2. ASSUME NEW f \in Handlers \ {h}, NEW m, NEW k PROVE Telling(f, m, k)' <=> Telling(f, m, k)
  BY Zenon, <1>1 DEF SameWork, Telling
<1>3. ASSUME NEW m, NEW k PROVE (Telling(h, m, k)' <=> m = n /\ k = l) /\ ~Telling(h, m, k)
  BY Zenon DEF Telling
<1>4. ASSUME NEW p \in Pods, NEW k \in Links, dev'[p][k].kind = "vxlan"
      PROVE  node[p] # NoNode /\ Tracked(p, k)'
  <2>1. CASE node[p] = n /\ k = l
    <3>1. p = x
      BY Zenon, <1>4, <2>1
    <3>2. \A f \in Handlers \ {h} : ~Telling(f, n, l)'
      BY Zenon, <1>2
    <3>3. Telling(h, n, l)'
      BY Zenon, <1>3
    <3> QED BY Zenon, <2>1, <3>1, <3>2, <3>3, StoreAssumption DEF Tracked
  <2>2. CASE ~(node[p] = n /\ k = l)
    <3>1. node[p] # NoNode /\ Tracked(p, k)
      BY Zenon, <1>4, <2>2 DEF Tracks
    <3>2. \A f \in Handlers : Telling(f, node[p], k)' <=> Telling(f, node[p], k)
      BY Zenon, <1>2, <1>3, <2>2
    <3>3. \A f \in Handlers : Telling(f, node[p], k)' => MadeFor(f)' = <<p, start[p]>>
      BY Zenon, <1>1, <1>3, <3>1, <3>2 DEF SameWork, Tracked, Telling
    <3> QED BY Zenon, <3>1, <3>2, <3>3 DEF Tracked
  <2> QED BY Zenon, <2>1, <2>2
<1>5. \A f \in Handlers : Made(f)' => MadeFor(f)'[2] # 0
  <2>1. ASSUME NEW f \in Handlers \ {h}, Made(f)' PROVE MadeFor(f)'[2] # 0
    BY Zenon, <1>1, <2>1 DEF SameWork, Tracks
  <2>2. MadeFor(h)'[2] # 0
    OBVIOUS
  <2> QED BY Zenon, <2>1, <2>2
<1>6. \A m \in Nodes, k \in Links : vxm'[m][k] # NoNs => vxm'[m][k][2] # 0
  BY Zenon DEF Tracks
<1> QED BY Zenon, <1>4, <1>5, <1>6 DEF Tracks

\* A step by which the vxlanManager learns of a vxlan.
LEMMA TellTracks ==
  ASSUME Inv, Tracks, NEW h \in Handlers, OnlyMoves(h), UNCHANGED <<dev, node, start>>,
         Made(h), ~Made(h)', MadeAt(h) \in Nodes, Cur(h) \in Links,
         vxm' = [vxm EXCEPT ![MadeAt(h)][Cur(h)] = MadeFor(h)]
  PROVE  Tracks'
<1> DEFINE n == MadeAt(h)
           l == Cur(h)
<1>0. Telling(h, n, l) /\ n \in Nodes /\ l \in Links
  BY Zenon DEF Telling
<1> HIDE DEF n, l
<1>t. vxm \in [Nodes -> [Links -> {NoNs} \cup (Pods \X Nat)]] /\ node \in [Pods -> Nodes \cup {NoNode}]
  BY Zenon DEF Inv, Typed, DevTypeOK
<1>v. \A m \in Nodes, k \in Links :
        vxm'[m][k] = IF m = n /\ k = l THEN MadeFor(h) ELSE vxm[m][k]
  BY Zenon, <1>t, <1>0 DEF n, l
<1>1. ASSUME NEW f \in Handlers \ {h} PROVE SameWork(f)
  BY Zenon, OthersTell
<1>2. ASSUME NEW f \in Handlers \ {h}, NEW m, NEW k PROVE Telling(f, m, k)' <=> Telling(f, m, k)
  BY Zenon, <1>1 DEF SameWork, Telling
<1>3. ASSUME NEW m, NEW k PROVE ~Telling(h, m, k)' /\ (Telling(h, m, k) <=> m = n /\ k = l)
  BY Zenon DEF Telling, n, l
<1>4. ASSUME NEW p \in Pods, NEW k \in Links, dev[p][k].kind = "vxlan"
      PROVE  Tracked(p, k)'
  <2>1. node[p] \in Nodes /\ Tracked(p, k)
    BY Zenon, <1>t, <1>4 DEF Tracks
  <2>2. \A f \in Handlers : Telling(f, node[p], k)' => f # h /\ Telling(f, node[p], k)
    BY Zenon, <1>2, <1>3
  <2>3. \A f \in Handlers : Telling(f, node[p], k)' => MadeFor(f)' = <<p, start[p]>>
    BY Zenon, <1>1, <2>1, <2>2 DEF SameWork, Tracked, Telling
  <2>4. CASE node[p] = n /\ k = l
    <3>1. MadeFor(h) = <<p, start[p]>>
      BY Zenon, <1>0, <2>1, <2>4 DEF Tracked
    <3>2. vxm'[node[p]][k] = <<p, start[p]>>
      BY Zenon, <1>v, <2>1, <2>4, <3>1
    <3> QED BY Zenon, <2>3, <3>2 DEF Tracked
  <2>5. CASE ~(node[p] = n /\ k = l)
    <3>1. vxm'[node[p]][k] = vxm[node[p]][k]
      BY Zenon, <1>v, <2>1, <2>5
    <3>2. (\A f \in Handlers : ~Telling(f, node[p], k)') => (\A f \in Handlers : ~Telling(f, node[p], k))
      BY Zenon, <1>2, <1>3, <2>5
    <3> QED BY Zenon, <2>1, <2>3, <3>1, <3>2 DEF Tracked
  <2> QED BY Zenon, <2>4, <2>5
<1>5. \A f \in Handlers : Made(f)' => MadeFor(f)'[2] # 0
  BY Zenon, <1>1 DEF SameWork, Tracks
<1>6. \A m \in Nodes, k \in Links : vxm'[m][k] # NoNs => vxm'[m][k][2] # 0
  BY <1>v DEF Tracks
<1> QED BY Zenon, <1>4, <1>5, <1>6 DEF Tracks

-----------------------------------------------------------------------------
\* The vxlans of e are among those of d.
Among(e, d) == \A p \in Pods, l \in Links : e[p][l].kind = "vxlan" => d[p][l].kind = "vxlan"

\* Removing an interface makes no vxlan.
LEMMA RemovalsMakeNone ==
  ASSUME NEW d \in Devices, NEW l \in Links
  PROVE  /\ \A p \in Pods : Among(RemoveVethLink(d, p, l), d)
         /\ \A n, q, g : q \in Pods => Among(RemoveLinkWithVni(d, n, q, g, l), d)
<1>1. NoDev.kind # "vxlan"
  BY Zenon DEF NoDev
<1>2. ASSUME NEW p \in Pods PROVE Among(RemoveVethLink(d, p, l), d)
  BY Zenon, <1>1 DEF Among, RemoveVethLink, Devices
<1>3. ASSUME NEW n, NEW q \in Pods, NEW g PROVE Among(RemoveLinkWithVni(d, n, q, g, l), d)
  BY Zenon, <1>1 DEF Among, RemoveLinkWithVni, Devices
<1> QED BY Zenon, <1>2, <1>3

\* Nor does SetupVeth.
LEMMA VethMakesNone ==
  ASSUME NEW d \in Devices, NEW n, NEW p \in Pods, NEW g, NEW q \in Pods, NEW gq,
         NEW l \in Links, NEW fault
  PROVE  Among(SetupVeth(d, n, p, g, q, gq, l, fault).dev, d)
<1> DEFINE clean == IF IsExistLinkInNS(d, n, p, g, l) THEN RemoveVethLink(d, p, l)
                    ELSE IF IsExistLinkInNS(d, n, q, gq, l) THEN RemoveVethLink(d, q, l) ELSE d
           made == [clean EXCEPT ![p][l] = Veth, ![q][l] = Veth]
<1>1. clean \in Devices /\ Among(clean, d) /\ Among(d, d)
  <2>1. Among(d, d)
    BY Zenon DEF Among
  <2> QED BY Zenon, <2>1, RemovalsMakeNone, RemoveVethLinkType
<1>2. SetupVeth(d, n, p, g, q, gq, l, fault).dev \in {d, clean, made}
  BY Zenon DEF SetupVeth
<1> HIDE DEF clean
<1>3. Among(made, d)
  BY <1>1 DEF Among, Devices, Veth
<1> QED BY Zenon, <1>1, <1>2, <1>3

\* A SetupVxLan that fails makes none either, as long as the qdiscs do not fail.
LEMMA FailureMakesNone ==
  ASSUME NEW d \in Devices, NEW n, NEW p \in Pods, NEW g, NEW l \in Links, NEW v, NEW r,
         r = SetupVxLan(d, n, p, g, l, v, "no"), ~r.ok
  PROVE  Among(r.dev, d)
<1>1. r.dev \in {d, RemoveVethLink(d, p, l)}
  BY Zenon DEF SetupVxLan, CreateOrUpdate
<1>2. Among(d, d)
  BY Zenon DEF Among
<1> QED BY Zenon, <1>1, <1>2, RemovalsMakeNone

\* One that succeeds leaves a vxlan in the namespace it was told, which exists,
\* and no other of this VNI on the node, unless there were two before.
LEMMA SuccessMakesOne ==
  ASSUME NEW d \in Devices, NEW n, NEW p \in Pods, NEW g, NEW l \in Links, NEW v,
         SetupVxLan(d, n, p, g, l, v, "no").ok
  PROVE  MadeOne(SetupVxLan(d, n, p, g, l, v, "no").dev, d, n, p, g, l)
<1>r. PICK r : r = SetupVxLan(d, n, p, g, l, v, "no") /\ r.ok
  BY Zenon
<1> SUFFICES /\ NsExists(n, p, g)
             /\ \A x \in Pods, k \in Links :
                  r.dev[x][k].kind = "vxlan" => d[x][k].kind = "vxlan" \/ (x = p /\ k = l)
             /\ \A x \in Pods \ {p} : r.dev[x][l].kind = "vxlan" /\ node[x] = n
                  => d[x][l].kind = "vxlan" /\ d[p][l].kind = "vxlan"
  BY Zenon, <1>r DEF MadeOne
<1> DEFINE clean == RemoveVethLink(d, p, l)
           made == [clean EXCEPT ![p][l] = VxLan(v)]
<1>1. clean \in Devices /\ Among(clean, d)
  BY Zenon, RemovalsMakeNone, RemoveVethLinkType
<1>2. /\ NsExists(n, p, g)
      /\ \/ r.dev = d /\ d[p][l] = VxLan(v)
         \/ r.dev = made /\ ~VniTaken(d, n, p, l)
  BY Zenon, <1>r DEF SetupVxLan, CreateOrUpdate
<1> HIDE DEF clean
<1>3. CASE r.dev = d /\ d[p][l] = VxLan(v)
  BY <1>2, <1>3 DEF VxLan
<1>4. CASE r.dev = made /\ ~VniTaken(d, n, p, l)
  <2>1. \A x \in Pods, k \in Links : made[x][k].kind = "vxlan" => d[x][k].kind = "vxlan" \/ (x = p /\ k = l)
    BY Zenon, <1>1 DEF Among, Devices
  <2>2. \A x \in Pods \ {p} : node[x] = n => d[x][l].kind # "vxlan"
    BY Zenon, <1>4 DEF VniTaken
  <2>3. \A x \in Pods \ {p} : made[x][l] = clean[x][l]
    BY Zenon, <1>1 DEF Devices
  <2>4. \A x \in Pods \ {p} : node[x] = n => made[x][l].kind # "vxlan"
    BY Zenon, <1>1, <2>2, <2>3 DEF Among
  <2> HIDE DEF made
  <2> QED BY Zenon, <1>2, <1>4, <2>1, <2>4
<1> QED BY Zenon, <1>2, <1>3, <1>4

-----------------------------------------------------------------------------
\* The steps that tell, make and remove nothing.
LEMMA AsideTracks ==
  ASSUME Inv, Tracks, NEW h \in Handlers, OnlyMoves(h), ~Made(h), ~Made(h)', UNCHANGED vxm, Fewer
  PROVE  Tracks'
<1>1. SameWork(h)
  BY Zenon DEF SameWork
<1> QED BY Zenon, <1>1, QuietTracks

\* Interfaces that stay, with the namespaces they are in.
LEMMA FewerWhen ==
  ASSUME UNCHANGED <<node, start>>, Among(dev', dev)
  PROVE  Fewer
  BY Zenon DEF Fewer, Among

\* SetupVxLan on our side.
LEMMA PlumbVxLanTracks ==
  ASSUME Inv, LockInv, Tracks, Faulty = {}, NEW h \in Handlers, PlumbVxLan(h)
  PROVE  Tracks'
<1>f. /\ upd[h] = "none" /\ At(h) \in Nodes /\ Cur(h) \in Links /\ h[1] \in Pods /\ pc[h] = "vx"
      /\ pc \in [Handlers -> PC] /\ upd \in [Handlers -> Upd] /\ dev \in Devices
  BY Zenon, PlumbingFacts DEF PlumbVxLan, Plumbing, Inv, Typed, DevTypeOK, Devices
<1>1. PICK r : /\ r = SetupVxLan(dev, At(h), h[1], loc[h].gen, Cur(h), peer[h].node, "no")
               /\ dev' = r.dev
               /\ IF r.ok THEN Goto(h, "vxadd") ELSE Return(h, FALSE)
               /\ UNCHANGED <<node, start, vxm>>
  BY Zenon DEF PlumbVxLan, PlumbVxLanWith, Faults, elsewhere
<1>2. ~Made(h) /\ OnlyMoves(h)
  <2>1. OnlyMoves(h)
    BY Zenon, <1>1, MovesAlone DEF PC
  <2> QED BY Zenon, <2>1, <1>f DEF Made
<1>3. CASE ~r.ok
  <2>1. Among(dev', dev)
    BY Zenon, <1>f, <1>1, <1>3, FailureMakesNone
  <2>2. ~Made(h)'
    BY Zenon, <1>f, <1>1, <1>3 DEF Made, Return
  <2> QED BY Zenon, <1>1, <1>2, <2>1, <2>2, FewerWhen, AsideTracks
<1>4. CASE r.ok
  <2>1. PICK n \in Nodes, l \in Links, x \in Pods, g \in Nat :
          n = At(h) /\ l = Cur(h) /\ x = h[1] /\ g = loc[h].gen
    BY Zenon, <1>f DEF Inv, Typed, Place
  <2>v. PICK v : v = peer[h].node
    BY Zenon
  <2>2. r = SetupVxLan(dev, n, x, g, l, v, "no") /\ dev' = r.dev /\ dev \in Devices
    BY Zenon, <1>f, <1>1, <2>1, <2>v
  <2>u. UNCHANGED <<node, start, vxm>>
    BY Zenon, <1>1
  <2>3. MadeOne(dev', dev, n, x, g, l)
    BY Zenon, <1>4, <2>2, SuccessMakesOne
  <2>4. Made(h)' /\ MadeAt(h)' = n /\ Cur(h)' = l /\ MadeFor(h)' = <<x, g>>
    BY Zenon, <1>f, <1>1, <1>4, <2>1 DEF Goto, Made, MadeAt, MadeFor, At, Cur
  <2>5. \A f \in Handlers : ~Telling(f, n, l)
    <3>1. InAddLink(h, n, l)
      BY Zenon, <1>f, <2>1 DEF InAddLink
    <3>2. ~Telling(h, n, l)
      BY Zenon, <1>2 DEF Telling
    <3> QED BY Zenon, <3>1, <3>2, AloneThere
  <2>6. MakesAt(h, n, l, x, g)
    BY Zenon, <1>2, <2>u, <2>3, <2>4, <2>5 DEF MakesAt
  <2> QED BY Zenon, <2>6, MakeTracks
<1> QED BY Zenon, <1>3, <1>4

\* SetupVxLan in Update, after the removal of the vxlan the vxlanManager knows of.
LEMMA UpdateSetupTracks ==
  ASSUME Inv, LockInv, Tracks, Faulty = {}, NEW h \in Handlers, UpdateSetup(h)
  PROVE  Tracks'
<1>f. /\ pc[h] = "rpc" /\ upd[h] = "locked" /\ UpdNode(h) \in Nodes /\ Cur(h) \in Links /\ UpdPod(h) \in Pods
      /\ upd \in [Handlers -> Upd] /\ dev \in Devices
  BY Zenon, UpdateFacts DEF UpdateSetup, UpdPod, Inv, Typed, DevTypeOK, Devices
<1>0. PICK n \in Nodes, l \in Links, x \in Pods, g \in Nat :
        n = UpdNode(h) /\ l = Cur(h) /\ x = UpdPod(h) /\ g = UpdGen(h)
  BY Zenon, <1>f DEF UpdGen, Inv, Typed, Place
<1>d. PICK d \in Devices :
        /\ Among(d, dev)
        /\ d = IF vxm[n][l] # NoNs /\ vxm[n][l] # <<x, g>>
               THEN RemoveLinkWithVni(dev, n, vxm[n][l][1], vxm[n][l][2], l) ELSE dev
  <2>1. vxm[n][l] # NoNs => vxm[n][l][1] \in Pods
    BY DEF Inv, Typed
  <2>2. Among(dev, dev)
    BY Zenon DEF Among
  <2> QED BY Zenon, <1>f, <2>1, <2>2, RemovalsMakeNone, RemoveLinkWithVniType
<1>1. PICK r : /\ r = SetupVxLan(d, n, x, g, l, UpdVtep(h), "no")
               /\ dev' = r.dev
               /\ UpdateStep(h, IF r.ok THEN "setup" ELSE "err")
               /\ UNCHANGED <<node, start, vxm>>
  BY Zenon, <1>0, <1>d DEF UpdateSetup, UpdateSetupWith, UpdateStep, Faults, elsewhere
<1>2. /\ ~Made(h) /\ OnlyMoves(h) /\ UpdNode(h)' = UpdNode(h) /\ Cur(h)' = Cur(h)
      /\ pc'[h] = "rpc" /\ upd'[h] = IF r.ok THEN "setup" ELSE "err"
  BY Zenon, <1>f, <1>1, UpdateMoves DEF Made
<1>3. CASE ~r.ok
  <2>1. Among(dev', d)
    BY Zenon, <1>1, <1>3, FailureMakesNone
  <2>2. ~Made(h)' /\ Among(dev', dev)
    BY Zenon, <1>d, <1>2, <1>3, <2>1 DEF Made, Among
  <2> QED BY Zenon, <1>1, <1>2, <2>2, FewerWhen, AsideTracks
<1>4. CASE r.ok
  <2>3. MadeOne(dev', dev, n, x, g, l)
    <3>1. MadeOne(dev', d, n, x, g, l)
      BY Zenon, <1>1, <1>4, SuccessMakesOne
    <3> QED BY Zenon, <1>d, <3>1 DEF MadeOne, Among
  <2>4. Made(h)' /\ MadeAt(h)' = n /\ Cur(h)' = l /\ MadeFor(h)' = <<x, g>>
    <3>1. UpdPod(h)' = UpdPod(h) /\ UpdGen(h)' = UpdGen(h)
      BY Zenon, <1>1 DEF UpdateStep, UpdPod, UpdGen, Peer, Cur
    <3> QED BY Zenon, <1>0, <1>2, <1>4, <3>1 DEF Made, MadeAt, MadeFor
  <2>5. \A f \in Handlers : ~Telling(f, n, l)
    <3>1. InUpdate(h, n, l)
      BY Zenon, <1>f, <1>0 DEF InUpdate
    <3>2. ~Telling(h, n, l)
      BY Zenon, <1>2 DEF Telling
    <3> QED BY Zenon, <3>1, <3>2, AloneThere
  <2>6. MakesAt(h, n, l, x, g)
    BY Zenon, <1>1, <1>2, <2>3, <2>4, <2>5 DEF MakesAt
  <2> QED BY Zenon, <2>6, MakeTracks
<1> QED BY Zenon, <1>3, <1>4

\* vxlanManager.Add, in addLink and in Update.
LEMMA AddTracks ==
  ASSUME Inv, Tracks, NEW h \in Handlers, CallUpdateRemote(h) \/ UpdateDone(h)
  PROVE  Tracks'
<1>1. CASE CallUpdateRemote(h)
  <2>1. /\ pc[h] = "vxadd" /\ upd[h] = "none" /\ At(h) \in Nodes /\ Cur(h) \in Links
        /\ pc \in [Handlers -> PC] /\ upd \in [Handlers -> Upd]
    BY Zenon, <1>1, PlumbingFacts DEF CallUpdateRemote, Plumbing
  <2>2. Made(h) /\ MadeAt(h) = At(h) /\ MadeFor(h) = <<h[1], loc[h].gen>>
    BY Zenon, <2>1 DEF Made, MadeAt, MadeFor
  <2>3. ~Made(h)' /\ OnlyMoves(h)
    <3>1. OnlyMoves(h)
      BY Zenon, <1>1 DEF CallUpdateRemote, elsewhere, OnlyMoves, Inv, Typed
    <3> QED BY Zenon, <1>1, <2>1, <3>1 DEF CallUpdateRemote, Made
  <2>4. /\ UNCHANGED <<dev, node, start>>
        /\ vxm' = [vxm EXCEPT ![MadeAt(h)][Cur(h)] = MadeFor(h)]
    BY Zenon, <1>1, <2>2 DEF CallUpdateRemote, elsewhere
  <2> QED BY Zenon, <2>1, <2>2, <2>3, <2>4, TellTracks
<1>2. CASE UpdateDone(h)
  <2>1. upd[h] = "setup" /\ pc[h] = "rpc" /\ UpdNode(h) \in Nodes /\ Cur(h) \in Links
    BY Zenon, <1>2, UpdateFacts DEF UpdateDone
  <2>2. Made(h) /\ MadeAt(h) = UpdNode(h) /\ MadeFor(h) = <<UpdPod(h), UpdGen(h)>>
    BY Zenon, <2>1 DEF Made, MadeAt, MadeFor
  <2>3. OnlyMoves(h) /\ pc'[h] = "rpc" /\ upd'[h] = "ok"
    BY Zenon, <1>2, <2>1, UpdateMoves DEF UpdateDone
  <2>4. ~Made(h)'
    BY Zenon, <2>3 DEF Made
  <2>5. /\ UNCHANGED <<dev, node, start>>
        /\ vxm' = [vxm EXCEPT ![MadeAt(h)][Cur(h)] = MadeFor(h)]
    BY Zenon, <1>2, <2>2 DEF UpdateDone, UpdateStep, elsewhere
  <2> QED BY Zenon, <2>1, <2>2, <2>3, <2>4, <2>5, TellTracks
<1> QED BY Zenon, <1>1, <1>2

\* The other steps of a handler.
QuietStep(h) ==
  \/ AddLinksDone(h) \/ AddLinkError(h) \/ AddLinkMacVlan(h) \/ AddLinkPhysical(h)
  \/ AddLinkSkip(h) \/ AddLinkAlive(h) \/ PlumbVeth(h) \/ UpdateReturns(h)
  \/ DelLinksDone(h) \/ DelLinkError(h) \/ DelLinkRemove(h) \/ DelLinkGet(h)
  \/ LockStep(h)

\* They make no vxlan.
LEMMA QuietDevices ==
  ASSUME Inv, NEW h \in Handlers, QuietStep(h)
  PROVE  Among(dev', dev) /\ UNCHANGED vxm
<1>t. dev \in Devices /\ h[1] \in Pods /\ (todo[h] # <<>> => Cur(h) \in Links)
  BY Zenon, HandlerFacts DEF Inv, Typed, DevTypeOK, Devices
<1>a. Among(dev, dev)
  BY Zenon DEF Among
<1>1. CASE AddLinkMacVlan(h)
  <2>1. /\ Cur(h) \in Links /\ UNCHANGED vxm
        /\ dev' = dev \/ dev' = [dev EXCEPT ![h[1]][Cur(h)] = MacVlan]
    BY Zenon, <1>1, <1>t DEF AddLinkMacVlan, AddingLink
  <2> QED BY <1>t, <1>a, <2>1, SMTT(30) DEF Among, Devices, MacVlan
<1>2. CASE PlumbVeth(h)
  <2>1. Cur(h) \in Links /\ Peer(h) \in Pods
    BY Zenon, <1>2, PlumbingFacts DEF PlumbVeth, Plumbing, Inv, HandlersOK, HandlerOK
  <2>2. PICK fault \in Faults(Cur(h)) : PlumbVethWith(h, fault)
    BY Zenon, <1>2 DEF PlumbVeth
  <2>3. /\ dev' = SetupVeth(dev, At(h), h[1], loc[h].gen, Peer(h), peer[h].gen, Cur(h), fault).dev
        /\ UNCHANGED vxm
    BY Zenon, <2>2 DEF PlumbVethWith
  <2> QED BY Zenon, <1>t, <2>1, <2>3, VethMakesNone
<1>3. CASE DelLinkRemove(h)
  <2>1. /\ Cur(h) \in Links /\ UNCHANGED vxm
        /\ dev' = dev \/ dev' = RemoveVethLink(dev, h[1], Cur(h))
    BY Zenon, <1>3, <1>t DEF DelLinkRemove
  <2> QED BY Zenon, <1>t, <1>a, <2>1, RemovalsMakeNone
<1>4. CASE \/ AddLinksDone(h) \/ AddLinkError(h) \/ AddLinkPhysical(h) \/ AddLinkSkip(h)
           \/ AddLinkAlive(h) \/ UpdateReturns(h) \/ DelLinksDone(h) \/ DelLinkError(h)
           \/ DelLinkGet(h) \/ LockStep(h)
  BY Zenon, <1>4, <1>a DEF AddLinksDone, AddLinkError, AddLinkPhysical, AddLinkSkip, AddLinkAlive,
     UpdateReturns, DelLinksDone, DelLinkError, DelLinkGet, LockStep, LockForVeth, LockForVxLan, UpdateLock
<1> QED BY Zenon, <1>1, <1>2, <1>3, <1>4 DEF QuietStep

\* They leave their handler with nothing to tell.
LEMMA QuietUnmade ==
  ASSUME Inv, NEW h \in Handlers, QuietStep(h)
  PROVE  ~Made(h) /\ ~Made(h)'
<1>t. pc \in [Handlers -> PC] /\ upd \in [Handlers -> Upd] /\ todo \in [Handlers -> Seq(Links)]
  BY Zenon DEF Inv, Typed
<1>u. pc[h] # "rpc" => upd[h] = "none"
  BY Zenon, NoUpdate
<1>1. CASE LockStep(h)
  <2>1. CASE LockForVeth(h) \/ LockForVxLan(h)
    BY Zenon, <1>t, <1>u, <2>1 DEF LockForVeth, LockForVxLan, Goto, Made
  <2>2. CASE UpdateLock(h)
    BY <2>2, UpdateMoves, UpdateFacts, SMTT(30) DEF UpdateLock, Made
  <2> QED BY Zenon, <1>1, <2>1, <2>2 DEF LockStep
<1>2. CASE AddLinkPhysical(h) \/ AddLinkAlive(h)
  BY Zenon, <1>2, <1>t, <1>u DEF AddLinkPhysical, AddLinkAlive, AddingLink, Made
<1>3. CASE ~(LockStep(h) \/ AddLinkPhysical(h) \/ AddLinkAlive(h))
  <2>1. /\ pc[h] \in {"add", "veth", "rpc", "del", "delget"}
        /\ pc[h] = "rpc" => upd[h] \in {"ok", "err", "sent"}
    BY Zenon, <1>3 DEF QuietStep, AddLinksDone, AddLinkError, AddLinkMacVlan, AddLinkSkip, AddingLink, PlumbVeth,
       UpdateReturns, DelLinksDone, DelLinkError, DelLinkRemove, DelLinkGet
  <2>2. \/ \E label \in {"add", "del"} : NextLink(h, label)
        \/ \E ok \in BOOLEAN : Return(h, ok)
        \/ pc[h] \in {"del", "delget"} /\ \E label \in {"delget", "deldel"} : Goto(h, label)
    BY Zenon, <1>3 DEF QuietStep, AddLinksDone, AddLinkError, AddLinkMacVlan, AddLinkSkip, PlumbVeth, PlumbVethWith,
       UpdateReturns, DelLinksDone, DelLinkError, DelLinkRemove, DelLinkGet
  <2>3. ~Made(h)
    BY Zenon, <1>u, <2>1 DEF Made
  <2> QED BY Zenon, <1>t, <1>u, <2>1, <2>2, <2>3 DEF Made, NextLink, Return, Goto
<1> QED BY Zenon, <1>1, <1>2, <1>3

\* A step of a loop over the links moves only its handler.
LEMMA HandlerAlone ==
  ASSUME Inv, NEW h \in Handlers, HandlerStep(h) \/ LockStep(h)
  PROVE  OnlyMoves(h) /\ UNCHANGED <<node, start>>
<1>1. UNCHANGED <<node, start>>
  BY Zenon, LoopSteps DEF elsewhere
<1> QED BY Zenon, <1>1, OthersRest DEF OnlyMoves

\* The steps of the loops over the links.
LEMMA HandlerTracks ==
  ASSUME Inv, LockInv, VxmInv, Faulty = {}, NEW h \in Handlers, HandlerStep(h) \/ LockStep(h)
  PROVE  Tracks'
<1>1. CASE QuietStep(h)
  BY Zenon, <1>1, QuietDevices, QuietUnmade, HandlerAlone, FewerWhen, AsideTracks DEF VxmInv
<1>2. ~DelLinkDelete(h)
  BY Zenon DEF VxmInv, NoDeletion, DelLinkDelete
<1>3. CASE PlumbVxLan(h) \/ CallUpdateRemote(h) \/ UpdateSetup(h) \/ UpdateDone(h)
  BY Zenon, <1>3, PlumbVxLanTracks, UpdateSetupTracks, AddTracks DEF VxmInv
<1> QED BY Zenon, <1>1, <1>2, <1>3 DEF HandlerStep, QuietStep

\* DestroyPod, which names no namespace, has none to take out of the vxlanManager.
LEMMA HandlerNoDeletion ==
  ASSUME Inv, VxmInv, NEW h \in Handlers, HandlerStep(h) \/ LockStep(h)
  PROVE  NoDeletion'
<1>t. /\ pc \in [Handlers -> PC] /\ h[1] \in Pods /\ h = <<h[1], h[2]>>
      /\ todo \in [Handlers -> Seq(Links)] /\ upd \in [Handlers -> Upd]
      /\ upd[h] # "none" => pc[h] = "rpc"
  BY Zenon, HandlerFacts DEF Inv, Typed, HandlersOK, HandlerOK
<1>1. pc[h] \in Add \cup Del /\ pc[h] # "deldel"
  BY Zenon, LoopSteps DEF VxmInv, NoDeletion
<1>2. h = Cni(h[1]) /\ h # Ctl(h[1])
  <2>1. pc[Ctl(h[1])] = "idle"
    BY Zenon, <1>t DEF VxmInv, NoDeletion
  <2>2. h # Ctl(h[1])
    BY Zenon, <1>1, <2>1 DEF Add, Del
  <2> QED BY Zenon, <2>2, HandlerFacts DEF Cni, Ctl
<1>3. ASSUME NEW p \in Pods PROVE pc'[Ctl(p)] = "idle"
  <2>1. Ctl(p) \in Handlers /\ Ctl(p)[1] = p
    BY Zenon DEF Ctl, Handlers
  <2>2. Ctl(p) # h
    BY Zenon, <1>2, <2>1
  <2>3. pc'[Ctl(p)] = pc[Ctl(p)]
    BY Zenon, <2>1, <2>2, OthersRest
  <2> QED BY Zenon, <2>3 DEF VxmInv, NoDeletion
<1>4. ASSUME NEW p \in Pods, sbx'[p] = "adding" PROVE pc'[Cni(p)] \notin Del
  <2>1. CASE p # h[1]
    <3>1. Cni(p) \in Handlers \ {h} /\ Cni(p)[1] = p /\ Cni(p)[2] = "cni"
      BY <1>t, <2>1 DEF Cni, Handlers
    <3>2. pc'[Cni(p)] = pc[Cni(p)] /\ sbx'[p] = sbx[p]
      BY Zenon, <3>1, OthersRest
    <3> QED BY Zenon, <1>4, <3>2 DEF VxmInv, NoDeletion
  <2>2. CASE p = h[1]
    <3>1. Moves(h)
      BY Zenon, HandlerMoves
    <3>2. sbx[p] = "adding" => pc[h] \notin Del
      BY Zenon, <1>2, <2>2 DEF VxmInv, NoDeletion
    <3>3. CASE \E ok : Return(h, ok)
      BY Zenon, <1>t, <1>2, <2>2, <3>3 DEF Return, Del
    <3>4. CASE ~\E ok : Return(h, ok)
      BY Zenon, <1>t, <1>2, <1>4, <2>2, <3>1, <3>2, <3>4 DEF Moves, NextLink, Del
    <3> QED BY Zenon, <3>3, <3>4
  <2> QED BY Zenon, <2>1, <2>2
<1>5. ASSUME pc'[h] = "deldel" PROVE FALSE
  <2>1. DelLinkGet(h)
    <3>1. CASE LockStep(h) \/ UpdateSetup(h) \/ UpdateDone(h)
      BY Zenon, <1>t, <1>5, <3>1 DEF LockStep, LockForVeth, LockForVxLan, UpdateLock, UpdateSetup, UpdateSetupWith,
         UpdateDone, UpdateStep, Goto
    <3>2. CASE AddLinkPhysical(h) \/ AddLinkAlive(h) \/ CallUpdateRemote(h)
      BY Zenon, <1>t, <1>5, <3>2 DEF AddLinkPhysical, AddLinkAlive, CallUpdateRemote
    <3>3. CASE \/ \E label \in {"add", "del"} : NextLink(h, label)
               \/ \E ok \in BOOLEAN : Return(h, ok)
               \/ Goto(h, "vxadd") \/ Goto(h, "delget")
      BY Zenon, <1>t, <1>5, <3>3 DEF NextLink, Return, Goto
    <3> QED BY Zenon, <3>1, <3>2, <3>3
        DEF HandlerStep, AddLinksDone, AddLinkError, AddLinkMacVlan, AddLinkSkip, PlumbVeth, PlumbVethWith,
            PlumbVxLan, PlumbVxLanWith, UpdateReturns, DelLinksDone, DelLinkError, DelLinkRemove, DelLinkDelete
  <2>2. pc[h] = "delget" /\ vxm[At(h)][Cur(h)] = <<h[1], loc[h].gen>>
    <3>1. ~NextLink(h, "del")
      BY Zenon, <1>t, <1>5 DEF NextLink
    <3> QED BY Zenon, <2>1, <3>1 DEF DelLinkGet
  <2>p. PICK p \in Pods : p = h[1] /\ h = Cni(p)
    BY Zenon, <1>t, <1>2
  <2>3. sbx[p] = "deleting"
    <3>1. sbx[p] \in {"adding", "deleting"}
      BY Zenon, <2>2, <2>p DEF Inv, HandlersOK, SandboxOK
    <3>2. sbx[p] # "adding"
      BY Zenon, <2>2, <2>p DEF VxmInv, NoDeletion, Del
    <3> QED BY Zenon, <3>1, <3>2
  <2>4. loc[h].gen = 0
    <3>1. SandboxOK(p)
      BY Zenon DEF Inv, HandlersOK
    <3>2. loc[Cni(p)] = NoPlace
      BY Zenon, <2>3, <3>1 DEF SandboxOK
    <3> QED BY <2>p, <3>2 DEF NoPlace
  <2>5. At(h) \in Nodes /\ Cur(h) \in Links
    BY Zenon, <2>2, HandlerFacts DEF Simple
  <2>6. <<h[1], 0>> # NoNs /\ <<h[1], 0>>[2] = 0
    BY Zenon DEF NoNs
  <2>7. vxm[At(h)][Cur(h)] # NoNs => vxm[At(h)][Cur(h)][2] # 0
    BY Zenon, <2>5 DEF VxmInv, Tracks
  <2> QED BY Zenon, <2>2, <2>4, <2>6, <2>7
<1>6. ASSUME NEW g \in Handlers PROVE pc'[g] # "deldel"
  <2>1. CASE g = h
    BY Zenon, <1>5, <2>1
  <2>2. CASE g # h
    BY <2>2, OthersRest DEF VxmInv, NoDeletion
  <2> QED BY Zenon, <2>1, <2>2
<1> QED BY Zenon, <1>3, <1>4, <1>6 DEF NoDeletion

-----------------------------------------------------------------------------
\* Nothing changes when no handler, no interface and no namespace does.
LEMMA IdleTracks ==
  ASSUME Tracks, UNCHANGED <<node, start, dev, vxm, handlerVars>>
  PROVE  Tracks'
<1>1. ASSUME NEW h \in Handlers
      PROVE  /\ Made(h)' <=> Made(h)
             /\ MadeAt(h)' = MadeAt(h) /\ MadeFor(h)' = MadeFor(h) /\ Cur(h)' = Cur(h)
  BY Zenon DEF handlerVars, Made, MadeAt, MadeFor, At, UpdNode, UpdPod, UpdGen, Peer, Cur
<1>2. \A h \in Handlers : \A n, l : Telling(h, n, l)' <=> Telling(h, n, l)
  BY Zenon, <1>1 DEF Telling
<1>3. ASSUME NEW p \in Pods, NEW l \in Links, Tracked(p, l) PROVE Tracked(p, l)'
  <2>1. PICK n : n = node[p] /\ n = node'[p]
    BY Zenon
  <2>2. \A h \in Handlers : Telling(h, n, l)' <=> Telling(h, n, l)
    BY Zenon, <1>2
  <2> QED BY Zenon, <1>1, <1>3, <2>1, <2>2 DEF Tracked
<1> QED BY Zenon, <1>1, <1>3 DEF Tracks

\* A new sandbox, with or without SetupPod's work.
LEMMA NewSandboxTracks ==
  ASSUME Inv, VxmInv, NEW p \in Pods, NEW n \in Nodes, SetupPod(p, n) \/ SetupPodUnread(p, n)
  PROVE  Tracks'
<1>t. /\ pc \in [Handlers -> PC] /\ todo \in [Handlers -> Seq(Links)] /\ loc \in [Handlers -> Place]
      /\ node \in [Pods -> Nodes \cup {NoNode}] /\ start \in [Pods -> Nat] /\ Cni(p) \in Handlers
  BY Zenon, PodHandlers DEF Inv, Typed, DevTypeOK
<1>1. pc[Cni(p)] = "idle" /\ pc[Ctl(p)] = "idle" /\ node[p] = NoNode
  BY Zenon, CniIdle DEF SetupPod, SetupPodUnread, NewSandbox, VxmInv, NoDeletion
<1>2. upd[Cni(p)] = "none"
  BY Zenon, <1>1, PodHandlers, NoUpdate
<1>3. /\ UNCHANGED <<upd, peer, dev, vxm>> /\ pc'[Cni(p)] \in {"idle", "read"}
      /\ \A g \in Handlers \ {Cni(p)} : pc'[g] = pc[g] /\ todo'[g] = todo[g] /\ loc'[g] = loc[g]
      /\ \A q \in Pods \ {p} : node'[q] = node[q] /\ start'[q] = start[q]
  BY Zenon, <1>t, <1>1 DEF SetupPod, SetupPodUnread, NewSandbox, handlerVars
<1>4. OnlyMoves(Cni(p))
  <2>1. ASSUME NEW g \in Handlers \ {Cni(p)}, pc[g] # "idle" PROVE g[1] \in Pods \ {p}
    BY <1>1, <2>1 DEF Handlers, Cni, Ctl
  <2> QED BY Zenon, <1>3, <2>1 DEF OnlyMoves
<1>5. ~Made(Cni(p)) /\ ~Made(Cni(p))'
  BY Zenon, <1>1, <1>2, <1>3 DEF Made
<1>6. Fewer
  BY Zenon, <1>1, <1>3 DEF Fewer, VxmInv, Tracks
<1> QED BY Zenon, <1>t, <1>3, <1>4, <1>5, <1>6, AsideTracks DEF VxmInv

\* The removal of a sandbox takes its vxlans away.
LEMMA RemoveSandboxTracks ==
  ASSUME Inv, VxmInv, NEW p \in Pods, RemoveSandbox(p)
  PROVE  Tracks'
<1>t. /\ node \in [Pods -> Nodes \cup {NoNode}] /\ Cni(p) \in Handlers
  BY Zenon, PodHandlers DEF Inv, Typed, DevTypeOK
<1>1. pc[Cni(p)] = "idle" /\ pc[Ctl(p)] = "idle"
  BY Zenon, CniIdle DEF RemoveSandbox, VxmInv, NoDeletion
<1>2. upd[Cni(p)] = "none"
  BY Zenon, <1>1, PodHandlers, NoUpdate
<1>3. /\ UNCHANGED <<upd, peer, vxm, pc, todo, loc, start>>
      /\ \A q \in Pods \ {p} : node'[q] = node[q]
  BY Zenon, <1>t DEF RemoveSandbox, handlerVars
<1>4. OnlyMoves(Cni(p))
  <2>1. ASSUME NEW g \in Handlers \ {Cni(p)}, pc[g] # "idle" PROVE g[1] \in Pods \ {p}
    BY <1>1, <2>1 DEF Handlers, Cni, Ctl
  <2> QED BY Zenon, <1>3, <2>1 DEF OnlyMoves
<1>5. ~Made(Cni(p)) /\ ~Made(Cni(p))'
  BY Zenon, <1>1, <1>2, <1>3 DEF Made
<1>6. \A q \in Pods, l \in Links : dev'[q][l].kind = "vxlan" => q # p /\ dev[q][l].kind = "vxlan"
  <2>1. ASSUME NEW q \in Pods, NEW l \in Links
        PROVE  dev'[q][l] \in {NoDev, dev[q][l]} /\ (q = p => dev'[q][l] = NoDev)
    BY Zenon DEF RemoveSandbox
  <2>2. NoDev.kind # "vxlan"
    BY Zenon DEF NoDev
  <2> QED BY Zenon, <2>1, <2>2
<1>7. Fewer
  BY Zenon, <1>3, <1>6 DEF Fewer
<1> QED BY Zenon, <1>t, <1>3, <1>4, <1>5, <1>7, AsideTracks DEF VxmInv

\* DestroyPod is called, and the steps of SetAlive.
LEMMA SetAliveTracks ==
  ASSUME Inv, VxmInv, NEW p \in Pods, DestroyPod(p) \/ SetAliveStep(p)
  PROVE  Tracks'
<1>t. /\ pc \in [Handlers -> PC] /\ todo \in [Handlers -> Seq(Links)] /\ loc \in [Handlers -> Place]
      /\ upd \in [Handlers -> Upd] /\ Cni(p) \in Handlers
  BY Zenon, PodHandlers DEF Inv, Typed
<1>1. UNCHANGED <<node, start, dev, vxm>>
  BY Zenon DEF DestroyPod, SetAliveStep, SetAliveRead, SetAliveWrite, SetAliveConflict, SetAliveError, SetFinalizer
<1>2. /\ pc[Cni(p)] \in {"idle", "read", "write", "fin"}
      /\ pc'[Cni(p)] \in {"idle", "read", "write", "fin", "add", "del"}
      /\ upd'[Cni(p)] \in {"none", upd[Cni(p)]} /\ OnlyMoves(Cni(p))
  <2>1. CASE DestroyPod(p)
    <3>1. pc[Cni(p)] = "idle"
      BY Zenon, <2>1, CniIdle DEF DestroyPod, DeletedSandbox
    <3>2. OnlyMoves(Cni(p))
      BY Zenon, <1>t, <2>1 DEF DestroyPod, OnlyMoves
    <3> QED BY Zenon, <1>t, <2>1, <3>1, <3>2 DEF DestroyPod
  <2>2. CASE SetAliveStep(p)
    <3>1. /\ pc[Cni(p)] \in {"read", "write", "fin"}
          /\ \/ \E label \in {"read", "write", "fin", "add", "del"} : Goto(Cni(p), label)
             \/ Return(Cni(p), FALSE)
      BY Zenon, <2>2 DEF SetAliveStep, SetAliveRead, SetAliveWrite, SetAliveConflict, SetAliveError, SetFinalizer
    <3>2. OnlyMoves(Cni(p))
      BY Zenon, <1>t, <1>1, <3>1, MovesAlone DEF PC
    <3> QED BY Zenon, <1>t, <3>1, <3>2 DEF Goto, Return
  <2> QED BY Zenon, <2>1, <2>2
<1>3. upd[Cni(p)] = "none"
  BY Zenon, <1>t, <1>2, NoUpdate
<1>4. ~Made(Cni(p)) /\ ~Made(Cni(p))'
  BY Zenon, <1>2, <1>3 DEF Made
<1>5. Fewer
  BY Zenon, <1>1 DEF Fewer
<1> QED BY Zenon, <1>t, <1>1, <1>2, <1>4, <1>5, AsideTracks DEF VxmInv

\* The kubelet deletes no link of a pod it sets up.
LEMMA PodNoDeletion ==
  ASSUME Inv, NoDeletion, NEW p \in Pods,
         \/ \E n \in Nodes : SetupPod(p, n) \/ SetupPodUnread(p, n)
         \/ DestroyPod(p) \/ DestroyPodUnread(p) \/ RemoveSandbox(p) \/ SetAliveStep(p)
  PROVE  NoDeletion'
<1>t. /\ pc \in [Handlers -> PC] /\ sbx \in [Pods -> Sandbox] /\ Cni(p) \in Handlers
      /\ \A q \in Pods : Ctl(q) \in Handlers \ {Cni(p)}
      /\ \A q \in Pods \ {p} : Cni(q) \in Handlers \ {Cni(p)}
  BY Zenon, PodHandlers DEF Inv, Typed, Cni, Ctl, Handlers
<1>1. /\ \A g \in Handlers \ {Cni(p)} : pc'[g] = pc[g]
      /\ \A q \in Pods \ {p} : sbx'[q] = sbx[q]
      /\ pc'[Cni(p)] # "deldel"
      /\ sbx'[p] = "adding" => pc'[Cni(p)] \notin Del
  <2>1. CASE \E n \in Nodes : SetupPod(p, n)
    BY Zenon, <1>t, <2>1 DEF SetupPod, Del
  <2>2. CASE DestroyPod(p)
    BY Zenon, <1>t, <2>2 DEF DestroyPod
  <2>3. CASE RemoveSandbox(p) \/ DestroyPodUnread(p) \/ \E n \in Nodes : SetupPodUnread(p, n)
    <3>1. sbx' \in {[sbx EXCEPT ![p] = s] : s \in {"none", "deleted", "up"}} /\ UNCHANGED pc
      BY Zenon, <2>3 DEF RemoveSandbox, DestroyPodUnread, SetupPodUnread, handlerVars
    <3> QED BY Zenon, <1>t, <3>1 DEF NoDeletion
  <2>4. CASE SetAliveStep(p)
    <3>1. \/ \E label \in {"read", "write", "fin", "add"} : Goto(Cni(p), label)
          \/ Return(Cni(p), FALSE)
          \/ Goto(Cni(p), "del") /\ ~Alive(loc[Cni(p)]) /\ pc[Cni(p)] = "fin"
      BY Zenon, <2>4 DEF SetAliveStep, SetAliveRead, SetAliveWrite, SetAliveConflict, SetAliveError, SetFinalizer
    <3>2. CASE \E label \in {"read", "write", "fin", "add"} : Goto(Cni(p), label)
      BY Zenon, <1>t, <3>2 DEF Goto, Del
    <3>3. CASE Return(Cni(p), FALSE)
      BY Zenon, <1>t, <3>3 DEF Return, Del, Cni
    <3>4. CASE Goto(Cni(p), "del") /\ ~Alive(loc[Cni(p)])
      <4>1. sbx[p] # "adding"
        <5>1. SandboxOK(p)
          BY Zenon DEF Inv, HandlersOK
        <5>2. sbx[p] = "adding" => Alive(loc[Cni(p)])
          BY <5>1 DEF SandboxOK, Alive
        <5> QED BY Zenon, <3>4, <5>2
      <4> QED BY Zenon, <1>t, <3>4, <4>1 DEF Goto
    <3> QED BY Zenon, <3>1, <3>2, <3>3, <3>4
  <2> QED BY Zenon, <2>1, <2>2, <2>3, <2>4
<1>2. ASSUME NEW q \in Pods
      PROVE  pc'[Ctl(q)] = "idle" /\ (sbx'[q] = "adding" => pc'[Cni(q)] \notin Del)
  BY Zenon, <1>t, <1>1 DEF NoDeletion
<1>3. ASSUME NEW g \in Handlers PROVE pc'[g] # "deldel"
  BY Zenon, <1>1 DEF NoDeletion
<1> QED BY Zenon, <1>2, <1>3 DEF NoDeletion

\* The vxlanManager knows, or is about to be told, the namespace of every vxlan.
THEOREM VxmKnows ==
  ASSUME MaxCtl = 0, Faulty = {}
  PROVE  Spec => []VxmInv
<1>1. Init => VxmInv
  <2> SUFFICES ASSUME Init PROVE VxmInv
    BY Zenon
  <2>1. \A p \in Pods, l \in Links : dev[p][l].kind # "vxlan"
    BY Zenon DEF Init, DevInit, NoDev
  <2>2. \A h \in Handlers : pc[h] = "idle" /\ upd[h] = "none"
    BY Zenon DEF Init
  <2>3. \A n \in Nodes, l \in Links : vxm[n][l] = NoNs
    BY Zenon DEF Init
  <2>4. Tracks
    BY Zenon, <2>1, <2>2, <2>3 DEF Tracks, Made
  <2>5. NoDeletion
    BY Zenon, <2>2, PodHandlers DEF NoDeletion, Del
  <2> QED BY Zenon, <2>4, <2>5 DEF VxmInv
<1>2. Inv /\ LockInv /\ VxmInv /\ [Next]_vars => VxmInv'
  <2> SUFFICES ASSUME Inv, LockInv, VxmInv, [Next]_vars PROVE VxmInv'
    BY Zenon
  <2>1. ASSUME NEW h \in Handlers, HandlerStep(h) \/ LockStep(h) PROVE VxmInv'
    BY Zenon, <2>1, HandlerTracks, HandlerNoDeletion DEF VxmInv
  <2>2. ASSUME NEW p \in Pods,
               \/ \E n \in Nodes : SetupPod(p, n) \/ SetupPodUnread(p, n)
               \/ DestroyPod(p) \/ DestroyPodUnread(p) \/ RemoveSandbox(p) \/ SetAliveStep(p)
        PROVE  VxmInv'
    <3>1. NoDeletion'
      BY Zenon, <2>2, PodNoDeletion DEF VxmInv
    <3>2. CASE DestroyPodUnread(p)
      <4>1. UNCHANGED <<node, start, dev, vxm, handlerVars>>
        BY Zenon, <3>2 DEF DestroyPodUnread
      <4> QED BY Zenon, <3>1, <4>1, IdleTracks DEF VxmInv
    <3> QED BY Zenon, <2>2, <3>1, <3>2, NewSandboxTracks, RemoveSandboxTracks, SetAliveTracks DEF VxmInv
  <2>3. ASSUME NEW p \in Pods PROVE ~AddLinks(p) /\ ~DelLinks(p)
    BY DEF AddLinks, DelLinks, CallLinks, Inv, Typed
  <2>4. CASE \/ UNCHANGED vars \/ \E p \in Pods : Touch(p)
             \/ \E n \in Nodes, p \in Pods : Watch(n, p)
    <3>1. UNCHANGED <<node, start, dev, vxm, handlerVars, sbx>>
      BY Zenon, <2>4 DEF vars, Touch, Watch, kubeletVars
    <3>2. Tracks'
      BY Zenon, <3>1, IdleTracks DEF VxmInv
    <3>3. NoDeletion'
      BY Zenon, <3>1 DEF VxmInv, NoDeletion, handlerVars
    <3> QED BY Zenon, <3>2, <3>3 DEF VxmInv
  <2> QED BY Zenon, <2>1, <2>2, <2>3, <2>4 DEF Next, Quiet
<1> QED BY <1>1, <1>2, HandlersCorrect, LocksHeld, PTL DEF Spec

\* A vxlan interface whose link mutex is free is in the vxlanManager of its node
\* with the namespace it is in, whatever the interleaving of addLink and Update, so
\* that Update, which looks there, can remove it.  The controller's DelLinks takes
\* no mutex, and a link whose qdiscs fail is not told to the manager: neither
\* happens here.
THEOREM VxmCorrect ==
  ASSUME MaxCtl = 0, Faulty = {}
  PROVE  Spec => []VxmTracks
<1>1. Inv /\ LockInv /\ VxmInv => VxmTracks
  <2> SUFFICES ASSUME Inv, LockInv, VxmInv, NEW p \in Pods, NEW l \in Links,
                      dev[p][l].kind = "vxlan", mutex[node[p]][l] = Free
               PROVE  vxm[node[p]][l] = <<p, start[p]>>
    BY Zenon DEF VxmTracks
  <2>1. node[p] \in Nodes /\ Tracked(p, l)
    BY Zenon DEF VxmInv, Tracks, Inv, Typed, DevTypeOK
  <2>2. ASSUME NEW h \in Handlers, Telling(h, node[p], l) PROVE FALSE
    <3>1. InAddLink(h, node[p], l) \/ InUpdate(h, node[p], l)
      BY Zenon, <2>2 DEF Telling, Made, MadeAt, InAddLink, InUpdate
    <3> QED BY Zenon, <2>1, <3>1, HoldersDiffer DEF LockInv, EntrantsHold
  <2> QED BY Zenon, <2>1, <2>2 DEF Tracked
<1> QED BY <1>1, VxmKnows, HandlersCorrect, LocksHeld, PTL

-----------------------------------------------------------------------------
(* Daemons that end.                                                       *)

\* An Update whose caller is dead has a name of its own, and the mutex of its
\* link from its Lock to its Unlock.
LateInv ==
  /\ crashes \in Nat
  /\ late \subseteq LateUpdate
  /\ \A u \in late : u.id < crashes
  /\ \A u, v \in late : u.by = v.by /\ u.id = v.id => u = v
  /\ \A n \in Nodes, l \in Links : mutex[n][l] \in Holder \/ \E u \in late : mutex[n][l] = Late(u)
  /\ \A u \in late, n \in Nodes, l \in Links : InLate(u, n, l) <=> mutex[n][l] = Late(u)

CrashInv == Inv /\ LockInv /\ LateInv

-----------------------------------------------------------------------------
(* The mutexes when no daemon ends.                                        *)

\* The name of an Update without a caller is that of no handler and no other Update.
LEMMA LateDiffer ==
  ASSUME NEW u, NEW v
  PROVE  /\ Late(u) = Late(v) => u.by = v.by /\ u.id = v.id
         /\ Late(u) \notin Holder
         /\ \A h : Late(u) # Own(h) /\ Late(u) # Rem(h)
         /\ Late(u) # Free
<1>1. Late(u) = Late(v) => u.by = v.by /\ u.id = v.id
  BY DEF Late
<1>2. Late(u)[1] = "late" /\ Late(u) # <<>>
  BY DEF Late
<1>3. \A h : Own(h)[1] = "own" /\ Rem(h)[1] = "upd"
  BY Zenon DEF Own, Rem
<1>4. \A x \in {"own", "upd"} \X Handlers : x[1] \in {"own", "upd"}
  OBVIOUS
<1> QED BY Zenon, <1>1, <1>2, <1>3, <1>4 DEF Holder, Free

\* Handlers take free mutexes and give back their own: what is held by somebody
\* else stays held.
LEMMA OutsiderStays ==
  ASSUME Inv, LockInv, [Next]_vars, NEW n \in Nodes, NEW l \in Links, mutex[n][l] \notin Holder
  PROVE  mutex'[n][l] = mutex[n][l]
<1> USE DEF LockInv
<1>0. mutex \in [Nodes -> [Links -> Tenant]] /\ Free \in Holder
      /\ \A h \in Handlers : Own(h) \in Holder /\ Rem(h) \in Holder
  BY Zenon DEF Inv, Typed, Holder, Own, Rem
<1>1. ASSUME NEW m, NEW k, NEW x, mutex[m][k] \in Holder, mutex' = [mutex EXCEPT ![m][k] = x]
      PROVE  mutex'[n][l] = mutex[n][l]
  BY Zenon, <1>0, <1>1
<1>2. ASSUME NEW h \in Handlers, HandlerStep(h) \/ LockStep(h)
      PROVE  mutex'[n][l] = mutex[n][l]
  <2>1. ASSUME pc[h] \in Critical PROVE mutex[At(h)][Cur(h)] \in Holder
    BY Zenon, <2>1, <1>0, PlumbingFacts DEF EntrantsHold, InAddLink, Critical, Plumbing
  <2>2. ASSUME upd[h] \in {"locked", "setup"} PROVE mutex[UpdNode(h)][Cur(h)] \in Holder
    BY Zenon, <2>2, <1>0, UpdateFacts DEF EntrantsHold, InUpdate
  <2>3. CASE LockStep(h)
    <3>1. PICK m, k, x : Lock(m, k, x)
      BY Zenon, <2>3 DEF LockStep, LockForVeth, LockForVxLan, UpdateLock
    <3> QED BY Zenon, <3>1, <1>0, <1>1 DEF Lock
  <2>4. CASE PlumbVeth(h)
    BY Zenon, <2>4, <2>1, <1>1 DEF PlumbVeth, PlumbVethWith, Unlock, Critical
  <2>5. CASE PlumbVxLan(h)
    BY Zenon, <2>5, <2>1, <1>1 DEF PlumbVxLan, PlumbVxLanWith, Unlock, Critical
  <2>6. CASE CallUpdateRemote(h)
    BY Zenon, <2>6, <2>1, <1>1 DEF CallUpdateRemote, Unlock, Critical
  <2>7. CASE UpdateSetup(h)
    BY Zenon, <2>7, <2>2, <1>1 DEF UpdateSetup, UpdateSetupWith, Unlock
  <2>8. CASE UpdateDone(h)
    BY Zenon, <2>8, <2>2, <1>1 DEF UpdateDone, Unlock
  <2>9. CASE \/ AddLinksDone(h) \/ AddLinkError(h) \/ AddLinkMacVlan(h) \/ AddLinkPhysical(h)
             \/ AddLinkSkip(h) \/ AddLinkAlive(h) \/ UpdateReturns(h)
             \/ DelLinksDone(h) \/ DelLinkError(h) \/ DelLinkRemove(h)
             \/ DelLinkGet(h) \/ DelLinkDelete(h)
    BY Zenon, <2>9 DEF AddLinksDone, AddLinkError, AddLinkMacVlan, AddLinkPhysical, AddLinkSkip,
       AddLinkAlive, UpdateReturns, DelLinksDone, DelLinkError, DelLinkRemove, DelLinkGet, DelLinkDelete
  <2> QED BY Zenon, <1>2, <2>3, <2>4, <2>5, <2>6, <2>7, <2>8, <2>9 DEF HandlerStep
<1>3. ASSUME NEW p \in Pods,
             \/ \E m \in Nodes : SetupPod(p, m) \/ SetupPodUnread(p, m)
             \/ DestroyPod(p) \/ DestroyPodUnread(p) \/ RemoveSandbox(p) \/ SetAliveStep(p)
             \/ AddLinks(p) \/ DelLinks(p) \/ Touch(p) \/ \E m \in Nodes : Watch(m, p)
      PROVE  UNCHANGED mutex
  BY Zenon, <1>3 DEF SetupPod, SetupPodUnread, DestroyPod, DestroyPodUnread, RemoveSandbox,
     SetAliveStep, SetAliveRead, SetAliveWrite, SetAliveConflict, SetAliveError, SetFinalizer,
     AddLinks, DelLinks, CallLinks, Touch, Watch
<1>4. UNCHANGED vars => UNCHANGED mutex
  BY Zenon DEF vars
<1> QED BY Zenon, <1>2, <1>3, <1>4 DEF Next, Quiet

\* So an Update without a caller keeps its mutex whatever the handlers do.
LEMMA LateKept ==
  ASSUME CrashInv, [Next]_vars, UNCHANGED crashVars
  PROVE  LateInv'
<1> USE DEF CrashInv, LateInv
<1>1. UNCHANGED <<crashes, late>>
  BY Zenon DEF crashVars
<1>2. ASSUME NEW n \in Nodes, NEW l \in Links
      PROVE  \/ mutex'[n][l] = mutex[n][l] /\ mutex[n][l] \notin Holder
             \/ mutex'[n][l] \in Holder /\ mutex[n][l] \in Holder
  <2>1. CASE mutex[n][l] \in Holder
    BY Zenon, <2>1, NextMutex DEF MutexStep, Holder
  <2>2. CASE mutex[n][l] \notin Holder
    BY Zenon, <2>2, OutsiderStays
  <2> QED BY Zenon, <2>1, <2>2
<1>3. ASSUME NEW n \in Nodes, NEW l \in Links
      PROVE  mutex'[n][l] \in Holder \/ \E u \in late : mutex'[n][l] = Late(u)
  <2>1. mutex[n][l] \in Holder \/ \E u \in late : mutex[n][l] = Late(u)
    BY Zenon
  <2>2. CASE mutex[n][l] \in Holder
    BY Zenon, <2>2, <1>2
  <2>3. CASE mutex[n][l] \notin Holder
    BY Zenon, <2>1, <2>3, <1>2
  <2> QED BY Zenon, <2>2, <2>3
<1>4. ASSUME NEW u \in late, NEW n \in Nodes, NEW l \in Links
      PROVE  InLate(u, n, l) <=> mutex'[n][l] = Late(u)
  <2>1. Late(u) \notin Holder
    BY Zenon, LateDiffer
  <2>2. mutex'[n][l] = Late(u) <=> mutex[n][l] = Late(u)
    BY Zenon, <1>2, <2>1
  <2> QED BY Zenon, <2>2
<1>5. /\ crashes' \in Nat /\ late' \subseteq LateUpdate
      /\ \A u \in late' : u.id < crashes'
      /\ \A u, v \in late' : u.by = v.by /\ u.id = v.id => u = v
  BY Zenon, <1>1
<1> HIDE DEF CrashInv, LateInv
<1>6. \A u \in late', n \in Nodes, l \in Links : (InLate(u, n, l) <=> mutex[n][l] = Late(u))'
  BY Zenon, <1>1, <1>4 DEF InLate, Late
<1>7. \A n \in Nodes, l \in Links : (mutex[n][l] \in Holder \/ \E u \in late : mutex[n][l] = Late(u))'
  BY Zenon, <1>1, <1>3 DEF Late
<1> QED BY Zenon, <1>5, <1>6, <1>7 DEF LateInv

-----------------------------------------------------------------------------
(* The steps of an Update without a caller.                                *)

\* Where such an Update is, and for what.
LEMMA LateFacts ==
  ASSUME LateInv, NEW u \in late
  PROVE  /\ u \in LateUpdate /\ u.by \in Handlers /\ u.id \in Nat /\ u.node \in Nodes
         /\ u.link \in Links /\ u.pod \in Pods /\ u.gen \in Nat
         /\ u.vtep \in Nodes \cup Phys \cup {NoNode}
         /\ u.st \in {"locked", "setup"} => mutex[u.node][u.link] = Late(u)
<1>1. u \in LateUpdate
  BY Zenon DEF LateInv
<1>2. /\ u.by \in Handlers /\ u.id \in Nat /\ u.node \in Nodes
      /\ u.link \in Links /\ u.pod \in Pods /\ u.gen \in Nat
      /\ u.vtep \in Nodes \cup Phys \cup {NoNode}
  BY <1>1 DEF LateUpdate
<1>3. u.st \in {"locked", "setup"} => mutex[u.node][u.link] = Late(u)
  BY Zenon, <1>2 DEF LateInv, InLate
<1> QED BY Zenon, <1>1, <1>2, <1>3

\* It takes its mutex, or goes on under it.
LEMMA LateStays ==
  ASSUME Inv, LateInv, NEW u \in late, NEW s \in {"locked", "setup"}, Becomes(u, s),
         UNCHANGED crashes, mutex[u.node][u.link] \in {Free, Late(u)},
         mutex' = [mutex EXCEPT ![u.node][u.link] = Late(u)]
  PROVE  LateInv'
<1> USE LateFacts
<1>1. PICK w : w = [u EXCEPT !.st = s]
  BY Zenon
<1>2. /\ w \in LateUpdate /\ w.by = u.by /\ w.id = u.id /\ w.node = u.node /\ w.link = u.link
      /\ w.st = s
  BY <1>1 DEF LateUpdate
<1>3. late' = (late \ {u}) \cup {w} /\ Late(w) = Late(u)
  BY Zenon, <1>1, <1>2 DEF Becomes, Late
<1>4. late' \subseteq LateUpdate /\ (\A v \in late' : v.id < crashes) /\ crashes' \in Nat
  BY Zenon, <1>2, <1>3 DEF LateInv
<1>5. \A v \in late \ {u} : ~(v.by = u.by /\ v.id = u.id) /\ Late(v) # Late(u)
  <2>1. \A v \in late \ {u} : ~(v.by = u.by /\ v.id = u.id)
    BY Zenon DEF LateInv
  <2> QED BY Zenon, <2>1, LateDiffer
<1>6. \A v, x \in late' : v.by = x.by /\ v.id = x.id => v = x
  <2> SUFFICES ASSUME NEW v \in late', NEW x \in late', v.by = x.by, v.id = x.id PROVE v = x
    BY Zenon
  <2>1. CASE v = w /\ x = w
    BY Zenon, <2>1
  <2>2. CASE v \in late \ {u} /\ x \in late \ {u}
    BY Zenon, <2>2 DEF LateInv
  <2>3. CASE v = w /\ x \in late \ {u}
    BY Zenon, <2>3, <1>2, <1>5
  <2>4. CASE v \in late \ {u} /\ x = w
    BY Zenon, <2>4, <1>2, <1>5
  <2> QED BY Zenon, <1>3, <2>1, <2>2, <2>3, <2>4
<1>7. ASSUME NEW n \in Nodes, NEW l \in Links
      PROVE  /\ n = u.node /\ l = u.link => mutex'[n][l] = Late(u)
             /\ ~(n = u.node /\ l = u.link) => mutex'[n][l] = mutex[n][l]
  BY Zenon DEF Inv, Typed
<1>8. ASSUME NEW n \in Nodes, NEW l \in Links
      PROVE  mutex'[n][l] \in Holder \/ \E v \in late' : mutex'[n][l] = Late(v)
  <2>2. \A v \in late : \E x \in late' : Late(v) = Late(x)
    BY Zenon, <1>3
  <2>3. mutex[n][l] \in Holder \/ \E v \in late : mutex[n][l] = Late(v)
    BY Zenon DEF LateInv
  <2>4. CASE mutex'[n][l] = mutex[n][l]
    BY Zenon, <2>2, <2>3, <2>4
  <2>5. CASE mutex'[n][l] = Late(u)
    BY Zenon, <2>2, <2>5
  <2> QED BY Zenon, <2>4, <2>5, <1>7
<1>9. ASSUME NEW v \in late', NEW n \in Nodes, NEW l \in Links
      PROVE  InLate(v, n, l) <=> mutex'[n][l] = Late(v)
  <2>1. CASE v = w
    <3>1. InLate(w, n, l) <=> n = u.node /\ l = u.link
      BY Zenon, <1>2 DEF InLate
    <3>2. mutex'[n][l] = Late(u) => n = u.node /\ l = u.link
      <4>1. mutex[n][l] = Late(u) => InLate(u, n, l)
        BY Zenon DEF LateInv
      <4> QED BY Zenon, <4>1, <1>7 DEF InLate
    <3> QED BY Zenon, <2>1, <3>1, <3>2, <1>3, <1>7
  <2>2. CASE v \in late \ {u}
    <3>1. InLate(v, n, l) <=> mutex[n][l] = Late(v)
      BY Zenon, <2>2 DEF LateInv
    <3>2. Late(v) # Late(u) /\ Late(v) # Free
      BY Zenon, <2>2, <1>5, LateDiffer
    <3> QED BY Zenon, <3>1, <3>2, <1>7
  <2> QED BY Zenon, <1>3, <2>1, <2>2
<1> QED BY Zenon, <1>4, <1>6, <1>8, <1>9 DEF LateInv, InLate, Late

\* It gives its mutex back, and is over.
LEMMA LateLeaves ==
  ASSUME Inv, LateInv, NEW u \in late, late' = late \ {u}, UNCHANGED crashes,
         mutex[u.node][u.link] = Late(u), Unlock(u.node, u.link)
  PROVE  LateInv'
<1> USE LateFacts
<1>1. /\ late' \subseteq LateUpdate /\ (\A v \in late' : v.id < crashes) /\ crashes' \in Nat
      /\ \A v, x \in late' : v.by = x.by /\ v.id = x.id => v = x
  BY Zenon DEF LateInv
<1>2. \A v \in late \ {u} : Late(v) # Late(u) /\ Late(v) # Free
  <2>1. \A v \in late \ {u} : ~(v.by = u.by /\ v.id = u.id)
    BY Zenon DEF LateInv
  <2> QED BY Zenon, <2>1, LateDiffer
<1>3. ASSUME NEW n \in Nodes, NEW l \in Links
      PROVE  /\ n = u.node /\ l = u.link => mutex'[n][l] = Free
             /\ ~(n = u.node /\ l = u.link) => mutex'[n][l] = mutex[n][l]
  BY Zenon DEF Inv, Typed, Unlock
<1>4. ASSUME NEW n \in Nodes, NEW l \in Links
      PROVE  mutex'[n][l] \in Holder \/ \E v \in late' : mutex'[n][l] = Late(v)
  <2>1. CASE n = u.node /\ l = u.link
    BY Zenon, <2>1, <1>3 DEF Holder
  <2>2. CASE ~(n = u.node /\ l = u.link)
    <3>1. /\ mutex[n][l] \in Holder \/ \E v \in late : mutex[n][l] = Late(v)
          /\ (mutex[n][l] = Late(u) => InLate(u, n, l))
      BY Zenon DEF LateInv
    <3> QED BY Zenon, <2>2, <3>1, <1>3 DEF InLate
  <2> QED BY Zenon, <2>1, <2>2
<1>5. ASSUME NEW v \in late', NEW n \in Nodes, NEW l \in Links
      PROVE  InLate(v, n, l) <=> mutex'[n][l] = Late(v)
  <2>1. v \in late \ {u} /\ (InLate(v, n, l) <=> mutex[n][l] = Late(v))
    BY Zenon DEF LateInv
  <2> QED BY Zenon, <2>1, <1>2, <1>3
<1> QED BY Zenon, <1>1, <1>4, <1>5 DEF LateInv, InLate, Late

\* The handlers hold what they held when somebody else takes or gives back a mutex.
LEMMA OutsiderLocks ==
  ASSUME Inv, LockInv, UNCHANGED <<node, handlerVars>>, NEW m \in Nodes, NEW k \in Links, NEW x,
         mutex' = [mutex EXCEPT ![m][k] = x],
         \A h \in Handlers : /\ mutex[m][k] # Own(h) /\ mutex[m][k] # Rem(h)
                             /\ x # Own(h) /\ x # Rem(h)
  PROVE  LockInv'
<1>1. ASSUME NEW n \in Nodes, NEW l \in Links, NEW h \in Handlers
      PROVE  /\ mutex'[n][l] = Own(h) <=> mutex[n][l] = Own(h)
             /\ mutex'[n][l] = Rem(h) <=> mutex[n][l] = Rem(h)
  BY Zenon DEF Inv, Typed
<1>2. ASSUME NEW n \in Nodes, NEW l \in Links, NEW h \in Handlers
      PROVE  /\ InAddLink(h, n, l)' <=> InAddLink(h, n, l)
             /\ InUpdate(h, n, l)' <=> InUpdate(h, n, l)
  BY Zenon DEF handlerVars, InAddLink, InUpdate, At, Cur, UpdNode, Peer
<1>3. ASSUME NEW n \in Nodes, NEW l \in Links, NEW h \in Handlers
      PROVE  /\ mutex'[n][l] = Own(h) <=> InAddLink(h, n, l)'
             /\ mutex'[n][l] = Rem(h) <=> InUpdate(h, n, l)'
  <2>1. /\ mutex[n][l] = Own(h) <=> InAddLink(h, n, l)
        /\ mutex[n][l] = Rem(h) <=> InUpdate(h, n, l)
    BY Zenon DEF LockInv, HoldersRun, EntrantsHold
  <2> QED BY Zenon, <2>1, <1>1, <1>2
<1>4. HoldersRun'
  BY Zenon, <1>3 DEF HoldersRun
<1>5. EntrantsHold'
  BY Zenon, <1>3 DEF EntrantsHold
<1> QED BY Zenon, <1>4, <1>5 DEF LockInv

\* An Update without a caller keeps everything in order.
LEMMA LateStep ==
  ASSUME CrashInv, NEW u \in late, LateLock(u) \/ LateSetup(u) \/ LateDone(u)
  PROVE  CrashInv'
<1> USE LateFacts DEF CrashInv
<1>0. Control' /\ UNCHANGED <<elsewhere, node, handlerVars, crashes>> /\ miss' = miss
  BY Zenon, SameControl DEF LateLock, LateSetup, LateSetupWith, LateDone, lateElsewhere, kubeletVars, handlerVars, elsewhere
<1>1. /\ Late(u) \in Tenant /\ Free \in Tenant
      /\ \A h \in Handlers : /\ Late(u) # Own(h) /\ Late(u) # Rem(h)
                             /\ Free # Own(h) /\ Free # Rem(h)
  <2>1. Late(u) \in Tenant
    BY DEF Late, Tenant
  <2>2. Free \in Tenant
    BY Zenon DEF Tenant, Holder
  <2>3. \A h \in Handlers : /\ Late(u) # Own(h) /\ Late(u) # Rem(h)
                            /\ Free # Own(h) /\ Free # Rem(h)
    BY Zenon, LateDiffer, HoldersDiffer
  <2> QED BY Zenon, <2>1, <2>2, <2>3
<1>2. ASSUME NEW x \in {Late(u), Free}, mutex[u.node][u.link] \in {Late(u), Free},
             mutex' = [mutex EXCEPT ![u.node][u.link] = x]
      PROVE  LockInv' /\ mutex' \in [Nodes -> [Links -> Tenant]]
  <2>1. \A h \in Handlers :
          /\ mutex[u.node][u.link] # Own(h) /\ mutex[u.node][u.link] # Rem(h)
          /\ x # Own(h) /\ x # Rem(h)
    BY Zenon, <1>1, <1>2
  <2>2. LockInv'
    <3>1. UNCHANGED <<node, handlerVars>> /\ u.node \in Nodes /\ u.link \in Links
      BY Zenon, <1>0
    <3> HIDE LateFacts
    <3>2. PICK m \in Nodes, k \in Links : m = u.node /\ k = u.link
      BY Zenon, <3>1
    <3>3. /\ mutex' = [mutex EXCEPT ![m][k] = x]
          /\ \A h \in Handlers : /\ mutex[m][k] # Own(h) /\ mutex[m][k] # Rem(h)
                                  /\ x # Own(h) /\ x # Rem(h)
      BY Zenon, <3>2, <1>2, <2>1
    <3>4. Inv /\ LockInv
      BY Zenon
    <3>5. node' = node /\ handlerVars' = handlerVars
      BY Zenon, <3>1
    <3> HIDE DEF CrashInv
    <3> QED BY Zenon, <3>3, <3>4, <3>5, OutsiderLocks
  <2>3. mutex' \in [Nodes -> [Links -> Tenant]]
    BY <1>1, <1>2, LinkTypes
  <2> QED BY Zenon, <2>2, <2>3
<1>3. CASE LateLock(u)
  <2>1. mutex[u.node][u.link] = Free /\ mutex' = [mutex EXCEPT ![u.node][u.link] = Late(u)]
    BY Zenon, <1>3 DEF LateLock, Lock
  <2>2. Inv'
    BY Zenon, <1>0, <1>2, <1>3, <2>1, LinkTypes, LinkStepInv DEF LateLock
  <2> QED BY Zenon, <1>0, <1>2, <1>3, <2>1, <2>2, LateStays DEF LateLock
<1>4. CASE LateSetup(u)
  <2>0. mutex[u.node][u.link] = Late(u)
    BY Zenon, <1>4 DEF LateSetup
  <2>f. PICK fault : LateSetupWith(u, fault)
    BY Zenon, <1>4 DEF LateSetup
  <2>1. PICK d \in Devices :
          LET r == SetupVxLan(d, u.node, u.pod, u.gen, u.link, u.vtep, fault)
          IN  /\ dev' = r.dev
              /\ IF r.ok THEN Becomes(u, "setup") /\ UNCHANGED mutex
                         ELSE late' = late \ {u} /\ Unlock(u.node, u.link)
    BY Zenon, <2>f, RemoveLinkWithVniType, LinkTypes DEF LateSetupWith
  <2>2. dev' \in Devices
    BY Zenon, <2>1, SetupVxLanType
  <2>3. UNCHANGED mutex => mutex' = [mutex EXCEPT ![u.node][u.link] = Late(u)]
    BY <2>0, LinkTypes
  <2>4. LockInv' /\ mutex' \in [Nodes -> [Links -> Tenant]]
    BY Zenon, <2>0, <2>1, <2>3, <1>2 DEF Unlock
  <2>5. Inv'
    BY Zenon, <1>0, <2>2, <2>4, <2>f, LinkTypes, LinkStepInv DEF LateSetupWith
  <2>6. LateInv'
    BY Zenon, <1>0, <2>0, <2>1, <2>3, LateStays, LateLeaves
  <2> QED BY Zenon, <2>4, <2>5, <2>6
<1>5. CASE LateDone(u)
  <2>0. mutex[u.node][u.link] = Late(u)
    BY Zenon, <1>5 DEF LateDone
  <2>1. LockInv' /\ mutex' \in [Nodes -> [Links -> Tenant]]
    BY Zenon, <2>0, <1>2, <1>5 DEF Unlock, LateDone
  <2>2. vxm' \in [Nodes -> [Links -> {NoNs} \cup (Pods \X Nat)]]
    BY <1>5, VxmType DEF LateDone
  <2>3. Inv'
    BY Zenon, <1>0, <2>1, <2>2, <1>5, LinkTypes, LinkStepInv DEF LateDone
  <2> QED BY Zenon, <1>0, <2>0, <2>1, <2>3, <1>5, LateLeaves DEF LateDone
<1> QED BY Zenon, <1>3, <1>4, <1>5

-----------------------------------------------------------------------------
(* The end of a daemon.                                                    *)

\* What a handler that leaves an Update behind was doing.
LEMMA LeavesFacts ==
  ASSUME Inv, crashes \in Nat, NEW n \in Nodes, NEW h \in Leaves(n)
  PROVE  /\ h \in Handlers /\ pc[h] = "rpc" /\ At(h) = n /\ UpdNode(h) # n
         /\ upd[h] \in {"sent", "locked", "setup"}
         /\ LeftBy(h) \in LateUpdate
<1>1. /\ h \in Handlers /\ pc[h] # "idle" /\ At(h) = n /\ UpdNode(h) # n
      /\ upd[h] \in {"sent", "locked", "setup"}
  BY Zenon DEF Leaves, Dead
<1>2. pc[h] = "rpc" /\ todo[h] # <<>> /\ Peer(h) \in Pods \cup Phys
      /\ (Peer(h) \in Pods => peer[h].node \in Nodes)
  BY Zenon, <1>1 DEF Inv, HandlersOK, HandlerOK, Simple
<1>3. /\ Cur(h) \in Links /\ UpdNode(h) \in Nodes /\ UpdPod(h) \in Pods /\ UpdGen(h) \in Nat
      /\ UpdVtep(h) \in Nodes \cup Phys \cup {NoNode}
  BY Zenon, <1>1, <1>2, HandlerFacts DEF UpdNode, UpdPod, UpdGen, UpdVtep, ControlType, Place
<1>4. start[h[1]] \in Nat
  BY Zenon, <1>1, HandlerFacts DEF Inv, Typed, DevTypeOK
<1>5. LeftBy(h) \in LateUpdate
  BY <1>1, <1>3, <1>4 DEF LeftBy, LateUpdate
<1> QED BY Zenon, <1>1, <1>2, <1>5

\* The mutexes after the end of the daemon of n: its own are new, and of the
\* others those of the Updates it leaves behind have changed their holder's name.
LEMMA CrashMutex ==
  ASSUME Inv, NEW n \in Nodes, FreshMutexes(n), NEW m \in Nodes, NEW l \in Links
  PROVE  /\ m = n => mutex'[m][l] = Free
         /\ \A h \in Leaves(n) : m # n /\ mutex[m][l] = Rem(h) => mutex'[m][l] = Late(LeftBy(h))
         /\ m # n /\ (\A h \in Leaves(n) : mutex[m][l] # Rem(h)) => mutex'[m][l] = mutex[m][l]
<1>1. mutex'[m][l] = IF m = n THEN Free
                     ELSE IF \E h \in Leaves(n) : mutex[m][l] = Rem(h)
                     THEN Late(LeftBy(CHOOSE h \in Leaves(n) : mutex[m][l] = Rem(h)))
                     ELSE mutex[m][l]
  BY Zenon DEF FreshMutexes
<1>2. ASSUME NEW h \in Leaves(n), mutex[m][l] = Rem(h)
      PROVE  (CHOOSE g \in Leaves(n) : mutex[m][l] = Rem(g)) = h
  <2>1. \A g \in Leaves(n) : mutex[m][l] = Rem(g) => g = h
    BY Zenon, <1>2, HoldersDiffer
  <2> QED BY Zenon, <1>2, <2>1
<1> QED BY Zenon, <1>1, <1>2

\* A handler that does not run in that daemon goes on, and knows of an Update it
\* had there only that the call is broken.
LEMMA CrashOthers ==
  ASSUME Inv, NEW n \in Nodes, Crash(n), NEW h \in Handlers \ Dead(n)
  PROVE  /\ pc'[h] = pc[h] /\ loc'[h] = loc[h] /\ peer'[h] = peer[h] /\ todo'[h] = todo[h]
         /\ upd'[h] = IF upd[h] # "none" /\ UpdNode(h) = n THEN "err" ELSE upd[h]
         /\ At(h)' = At(h) /\ UpdNode(h)' = UpdNode(h) /\ Cur(h)' = Cur(h) /\ Peer(h)' = Peer(h)
<1>1. /\ pc'[h] = pc[h] /\ loc'[h] = loc[h] /\ peer'[h] = peer[h] /\ todo'[h] = todo[h]
      /\ upd'[h] = IF upd[h] # "none" /\ UpdNode(h) = n THEN "err" ELSE upd[h]
      /\ node' = node
  BY Zenon DEF Crash, CallsFail, UpdateBreaks
<1> QED BY Zenon, <1>1 DEF At, UpdNode, Cur, Peer

\* One that does is gone.
LEMMA CrashDead ==
  ASSUME NEW n \in Nodes, Crash(n), NEW h \in Dead(n)
  PROVE  /\ h \in Handlers /\ pc[h] # "idle" /\ At(h) = n
         /\ pc'[h] = "idle" /\ loc'[h] = NoPlace /\ peer'[h] = NoPlace /\ todo'[h] = <<>>
         /\ upd'[h] = "none"
  BY Zenon DEF Crash, CallsFail, Dead

\* The types, and the control state of the handlers that go on.
LEMMA CrashTyped ==
  ASSUME CrashInv, NEW n \in Nodes, Crash(n)
  PROVE  Inv'
<1> USE DEF CrashInv
<1>0. UNCHANGED <<hist, node, start, rd, unread, dev, miss, touches, ctl>>
  BY Zenon DEF Crash, bounds
<1>1. /\ pc' \in [Handlers -> PC] /\ loc' \in [Handlers -> Place] /\ peer' \in [Handlers -> Place]
      /\ todo' \in [Handlers -> Seq(Links)] /\ upd' \in [Handlers -> Upd]
      /\ sbx' \in [Pods -> Sandbox] /\ att' \in [Pods -> 0 .. RetrySteps - 1]
  <2>1. /\ pc \in [Handlers -> PC] /\ loc \in [Handlers -> Place] /\ peer \in [Handlers -> Place]
        /\ todo \in [Handlers -> Seq(Links)] /\ upd \in [Handlers -> Upd]
        /\ sbx \in [Pods -> Sandbox] /\ att \in [Pods -> 0 .. RetrySteps - 1]
    BY Zenon DEF Inv, Typed
  <2>2. NoPlace \in Place /\ <<>> \in Seq(Links)
    BY DEF NoPlace, Place
  <2>3. "idle" \in PC /\ "none" \in Upd /\ "err" \in Upd /\ "failed" \in Sandbox
    BY DEF PC, Upd, Sandbox
  <2>4. CallsFail(n)
    BY Zenon DEF Crash
  <2> QED BY Zenon, <2>1, <2>2, <2>3, <2>4, Attempts DEF CallsFail, UpdateBreaks, CallBreaks
<1>2. mutex' \in [Nodes -> [Links -> Tenant]]
  <2>1. ASSUME NEW m \in Nodes, NEW l \in Links PROVE mutex'[m][l] \in Tenant
    <3>0. FreshMutexes(n) /\ mutex[m][l] \in Tenant /\ Free \in Tenant
      <4>1. FreshMutexes(n)
        BY Zenon DEF Crash
      <4>2. Free \in Tenant
        BY Zenon DEF Tenant, Holder
      <4> QED BY Zenon, LinkTypes, <4>1, <4>2
    <3>1. \A h \in Leaves(n) : LeftBy(h) \in LateUpdate
      BY Zenon, LeavesFacts DEF LateInv
    <3>2. \A u \in LateUpdate : Late(u) \in Tenant
      BY DEF LateUpdate, Late, Tenant
    <3> QED BY Zenon, <3>0, <3>1, <3>2, CrashMutex
  <2>2. mutex' = [m \in Nodes |-> [l \in Links |-> mutex'[m][l]]]
    BY Zenon DEF Crash, FreshMutexes
  <2> QED BY Zenon, <2>1, <2>2
<1>3. vxm' \in [Nodes -> [Links -> {NoNs} \cup (Pods \X Nat)]]
  <2>1. \A p \in Pods : Current(p).gen \in Nat
    BY GetPodType DEF Object
  <2>2. PICK x \in Pods \X Nat : vxm' = [vxm EXCEPT ![n] = [l \in Links |->
          IF \E p \in LocalTopologies(n) :
               NsExists(n, p, Current(p).gen) /\ dev[p][l].kind = "vxlan" THEN x ELSE NoNs]]
    <3>1. PICK last \in Pods : vxm' = [vxm EXCEPT ![n] = [l \in Links |->
            IF \E p \in LocalTopologies(n) :
                 NsExists(n, p, Current(p).gen) /\ dev[p][l].kind = "vxlan"
            THEN <<last, Current(last).gen>> ELSE NoNs]]
      BY Zenon DEF Crash, VxlanManagerInit, LocalTopologies
    <3>2. <<last, Current(last).gen>> \in Pods \X Nat
      BY Zenon, <2>1
    <3> QED BY Zenon, <3>1, <3>2
  <2> QED BY Zenon, <2>2, LinkTypes
<1>4. tm' \in [Nodes -> SUBSET Pods]
  BY Zenon DEF Crash, TopologyManagerInit, Inv, Typed
<1>5. StoreTypeOK' /\ DevTypeOK'
  <2>1. store' \in [Nodes -> [Pods -> [rv : Nat, obj : Object]]]
    BY DEF Crash, FreshStore, Inv, Typed, StoreTypeOK, Unset, Object
  <2> QED BY Zenon, <2>1, <1>0 DEF Inv, Typed, StoreTypeOK, DevTypeOK
<1>6. ASSUME NEW h \in Handlers PROVE HandlerOK(h)'
  <2>1. CASE h \in Dead(n)
    <3>1. pc'[h] = "idle" /\ upd'[h] = "none"
      BY Zenon, <2>1, CrashDead
    <3> QED BY Zenon, <3>1 DEF HandlerOK, Simple, Plumbing
  <2>2. CASE h \notin Dead(n)
    BY Zenon, <2>2, CrashOthers DEF Inv, HandlersOK, HandlerOK
  <2> QED BY Zenon, <2>1, <2>2
<1>7. ASSUME NEW p \in Pods PROVE SandboxOK(p)'
  <2>0. /\ SandboxOK(p) /\ Cni(p) \in Handlers /\ Ctl(p) \in Handlers
        /\ sbx' = [q \in Pods |-> IF Cni(q) \in Dead(n) THEN "failed" ELSE sbx[q]]
    BY Zenon, PodHandlers DEF Inv, HandlersOK, Crash, CallsFail, CallBreaks
  <2>1. pc'[Ctl(p)] \in {"idle", pc[Ctl(p)]} /\ (pc'[Ctl(p)] # "idle" => loc'[Ctl(p)] = loc[Ctl(p)])
    BY Zenon, <2>0, CrashDead, CrashOthers
  <2>2. CASE Cni(p) \in Dead(n)
    <3>1. sbx'[p] = "failed" /\ pc'[Cni(p)] = "idle" /\ pc[Cni(p)] # "idle"
      BY Zenon, <2>0, <2>2, CrashDead
    <3> QED BY Zenon, <1>0, <2>0, <2>1, <3>1 DEF SandboxOK
  <2>3. CASE Cni(p) \notin Dead(n)
    <3>1. sbx'[p] = sbx[p] /\ pc'[Cni(p)] = pc[Cni(p)] /\ loc'[Cni(p)] = loc[Cni(p)]
      BY Zenon, <2>0, <2>3, CrashOthers
    <3> QED BY Zenon, <1>0, <2>0, <2>1, <3>1 DEF SandboxOK
  <2> QED BY Zenon, <2>2, <2>3
<1>8. HandlersOK'
  BY Zenon, <1>6, <1>7 DEF HandlersOK
<1>9. rd' \in [Pods -> Nat] /\ unread' \in [Pods -> BOOLEAN] /\ touches' \in Nat /\ ctl' \in Nat
      /\ miss' \in [Pods -> [Links -> {"no", "fresh", "stale"}]]
  BY Zenon, <1>0 DEF Inv, Typed
<1> QED BY Zenon, <1>1, <1>2, <1>3, <1>4, <1>5, <1>8, <1>9 DEF Inv, Typed

\* The handlers that go on hold the mutexes they held, but for those of an Update
\* in the daemon that has ended.
LEMMA CrashLocks ==
  ASSUME CrashInv, NEW n \in Nodes, Crash(n)
  PROVE  LockInv'
<1> USE DEF CrashInv
<1>0. FreshMutexes(n)
  BY Zenon DEF Crash
<1>1. ASSUME NEW m \in Nodes, NEW l \in Links, NEW h \in Handlers
      PROVE  /\ mutex[m][l] = Own(h) <=> InAddLink(h, m, l)
             /\ mutex[m][l] = Rem(h) <=> InUpdate(h, m, l)
  BY Zenon DEF LockInv, HoldersRun, EntrantsHold
<1>2. ASSUME NEW l \in Links, NEW h \in Handlers
      PROVE  /\ mutex'[n][l] # Own(h) /\ mutex'[n][l] # Rem(h)
             /\ ~InAddLink(h, n, l)' /\ ~InUpdate(h, n, l)'
  <2>1. mutex'[n][l] = Free
    BY Zenon, <1>0, CrashMutex
  <2>2. CASE h \in Dead(n)
    <3>1. pc'[h] = "idle" /\ upd'[h] = "none"
      BY Zenon, <2>2, CrashDead
    <3> QED BY Zenon, <2>1, <3>1, HoldersDiffer DEF InAddLink, InUpdate
  <2>3. CASE h \notin Dead(n)
    <3>1. /\ pc'[h] = pc[h] /\ At(h)' = At(h) /\ UpdNode(h)' = UpdNode(h)
          /\ upd'[h] = IF upd[h] # "none" /\ UpdNode(h) = n THEN "err" ELSE upd[h]
      BY Zenon, <2>3, CrashOthers
    <3>2. pc[h] = "idle" \/ At(h) # n
      BY Zenon, <2>3 DEF Dead
    <3>3. ~InAddLink(h, n, l)'
      BY Zenon, <3>1, <3>2 DEF InAddLink
    <3>4. ~InUpdate(h, n, l)'
      BY Zenon, <3>1 DEF InUpdate
    <3> QED BY Zenon, <2>1, <3>3, <3>4, HoldersDiffer
  <2> QED BY Zenon, <2>2, <2>3
<1>3. ASSUME NEW m \in Nodes, NEW l \in Links, NEW h \in Handlers, m # n
      PROVE  /\ mutex'[m][l] = Own(h) <=> InAddLink(h, m, l)'
             /\ mutex'[m][l] = Rem(h) <=> InUpdate(h, m, l)'
  <2>0. \/ mutex'[m][l] = mutex[m][l] /\ \A g \in Leaves(n) : mutex[m][l] # Rem(g)
        \/ \E g \in Leaves(n) : mutex[m][l] = Rem(g) /\ mutex'[m][l] = Late(LeftBy(g))
    BY Zenon, <1>0, <1>3, CrashMutex
  <2>1. CASE h \in Dead(n)
    <3>1. pc'[h] = "idle" /\ upd'[h] = "none" /\ pc[h] # "idle" /\ At(h) = n
      BY Zenon, <2>1, CrashDead
    <3>2. mutex[m][l] # Own(h)
      BY Zenon, <3>1, <1>1, <1>3 DEF InAddLink
    <3>3. ASSUME mutex[m][l] = Rem(h) PROVE h \in Leaves(n)
      <4>1. InUpdate(h, m, l)
        BY Zenon, <3>3, <1>1
      <4>2. upd[h] \in {"sent", "locked", "setup"} /\ UpdNode(h) # n
        BY Zenon, <4>1, <1>3 DEF InUpdate
      <4> QED BY Zenon, <4>2, <2>1 DEF Leaves
    <3>4. mutex'[m][l] # Own(h) /\ mutex'[m][l] # Rem(h)
      BY Zenon, <2>0, <3>2, <3>3, LateDiffer
    <3> QED BY Zenon, <3>1, <3>4 DEF InAddLink, InUpdate
  <2>2. CASE h \notin Dead(n)
    <3>1. /\ pc'[h] = pc[h] /\ At(h)' = At(h) /\ UpdNode(h)' = UpdNode(h) /\ Cur(h)' = Cur(h)
          /\ upd'[h] = IF upd[h] # "none" /\ UpdNode(h) = n THEN "err" ELSE upd[h]
      BY Zenon, <2>2, CrashOthers
    <3>2. InAddLink(h, m, l)' <=> InAddLink(h, m, l)
      BY Zenon, <3>1 DEF InAddLink
    <3>3. InUpdate(h, m, l)' <=> InUpdate(h, m, l)
      BY Zenon, <3>1, <1>3 DEF InUpdate
    <3>4. h \notin Leaves(n)
      BY Zenon, <2>2 DEF Leaves
    <3>5. /\ mutex'[m][l] = Own(h) <=> mutex[m][l] = Own(h)
          /\ mutex'[m][l] = Rem(h) <=> mutex[m][l] = Rem(h)
      <4>1. ASSUME NEW g \in Leaves(n)
            PROVE  Rem(g) # Rem(h) /\ Rem(g) # Own(h) /\ Late(LeftBy(g)) # Rem(h) /\ Late(LeftBy(g)) # Own(h)
        BY Zenon, <3>4, HoldersDiffer, LateDiffer
      <4> QED BY Zenon, <2>0, <4>1
    <3> QED BY Zenon, <3>2, <3>3, <3>5, <1>1
  <2> QED BY Zenon, <2>1, <2>2
<1>4. ASSUME NEW m \in Nodes, NEW l \in Links, NEW h \in Handlers
      PROVE  /\ mutex'[m][l] = Own(h) <=> InAddLink(h, m, l)'
             /\ mutex'[m][l] = Rem(h) <=> InUpdate(h, m, l)'
  BY Zenon, <1>2, <1>3
<1> HIDE DEF CrashInv
<1> QED BY Zenon, <1>4 DEF LockInv, HoldersRun, EntrantsHold, Own, Rem

\* The Updates it leaves behind hold the mutexes they held for their callers.
LEMMA CrashLate ==
  ASSUME CrashInv, NEW n \in Nodes, Crash(n)
  PROVE  LateInv'
<1> USE DEF CrashInv
<1>0. /\ FreshMutexes(n) /\ crashes' = crashes + 1 /\ crashes \in Nat
      /\ late' = {u \in late : u.node # n} \cup {LeftBy(h) : h \in Leaves(n)}
  BY Zenon DEF Crash, LateInv
<1>1. \A h \in Leaves(n) : /\ LeftBy(h) \in LateUpdate /\ LeftBy(h).by = h /\ LeftBy(h).id = crashes
                           /\ LeftBy(h).st = upd[h] /\ LeftBy(h).node = UpdNode(h)
                           /\ LeftBy(h).link = Cur(h)
  <2>1. \A h \in Leaves(n) : LeftBy(h) \in LateUpdate
    BY Zenon, <1>0, LeavesFacts
  <2> QED BY <2>1 DEF LeftBy
<1>2. \A u \in late : u \in LateUpdate /\ u.id \in Nat /\ u.id < crashes /\ u.id # crashes
  <2>1. \A u \in late : u \in LateUpdate /\ u.id < crashes
    BY Zenon DEF LateInv
  <2> QED BY <2>1, <1>0 DEF LateUpdate
<1>3. crashes' \in Nat /\ late' \subseteq LateUpdate /\ \A u \in late' : u.id < crashes'
  <2>1. late' \subseteq LateUpdate
    <3> SUFFICES ASSUME NEW u \in late' PROVE u \in LateUpdate
      BY Zenon
    <3>1. u \in late \/ \E h \in Leaves(n) : u = LeftBy(h)
      BY Zenon, <1>0
    <3> QED BY Zenon, <3>1, <1>1, <1>2
  <2>2. ASSUME NEW u \in late' PROVE u.id < crashes + 1
    <3>1. CASE u \in late
      BY <3>1, <1>0, <1>2
    <3>2. CASE \E h \in Leaves(n) : u = LeftBy(h)
      <4>1. u.id = crashes
        BY Zenon, <3>2, <1>1
      <4> QED BY <4>1, <1>0
    <3> QED BY Zenon, <1>0, <3>1, <3>2
  <2>3. crashes' \in Nat
    BY <1>0
  <2> QED BY Zenon, <1>0, <2>1, <2>2, <2>3
<1>4. ASSUME NEW u \in late', NEW v \in late', u.by = v.by, u.id = v.id PROVE u = v
  <2>1. CASE u \in late /\ v \in late
    BY Zenon, <1>4, <2>1 DEF LateInv
  <2>2. CASE \E g, h \in Leaves(n) : u = LeftBy(g) /\ v = LeftBy(h)
    BY Zenon, <1>4, <2>2, <1>1
  <2>3. CASE u \in late /\ \E h \in Leaves(n) : v = LeftBy(h)
    BY Zenon, <1>4, <2>3, <1>1, <1>2
  <2>4. CASE v \in late /\ \E h \in Leaves(n) : u = LeftBy(h)
    BY Zenon, <1>4, <2>4, <1>1, <1>2
  <2> QED BY Zenon, <1>0, <2>1, <2>2, <2>3, <2>4
<1>5. ASSUME NEW m \in Nodes, NEW l \in Links
      PROVE  \/ m = n /\ mutex'[m][l] = Free
             \/ m # n /\ mutex'[m][l] = mutex[m][l] /\ \A h \in Leaves(n) : mutex[m][l] # Rem(h)
             \/ m # n /\ \E h \in Leaves(n) : mutex[m][l] = Rem(h) /\ mutex'[m][l] = Late(LeftBy(h))
  BY Zenon, <1>0, CrashMutex
<1>6. ASSUME NEW m \in Nodes, NEW l \in Links
      PROVE  mutex'[m][l] \in Holder \/ \E u \in late' : mutex'[m][l] = Late(u)
  <2>1. CASE mutex'[m][l] = Free
    BY Zenon, <2>1 DEF Holder
  <2>2. CASE m # n /\ mutex'[m][l] = mutex[m][l]
    <3>1. ASSUME NEW u \in late, mutex[m][l] = Late(u) PROVE u \in late'
      <4>1. InLate(u, m, l)
        BY Zenon, <3>1 DEF LateInv
      <4> QED BY Zenon, <4>1, <2>2, <1>0 DEF InLate
    <3>2. mutex[m][l] \in Holder \/ \E u \in late : mutex[m][l] = Late(u)
      BY Zenon DEF LateInv
    <3> QED BY Zenon, <2>2, <3>1, <3>2
  <2>3. CASE \E h \in Leaves(n) : mutex'[m][l] = Late(LeftBy(h))
    BY Zenon, <2>3, <1>0
  <2> QED BY Zenon, <1>5, <2>1, <2>2, <2>3
<1>7. ASSUME NEW u \in late', NEW m \in Nodes, NEW l \in Links
      PROVE  InLate(u, m, l) <=> mutex'[m][l] = Late(u)
  <2>1. CASE u \in late /\ u.node # n
    <3>1. InLate(u, m, l) <=> mutex[m][l] = Late(u)
      BY Zenon, <2>1 DEF LateInv
    <3>2. InLate(u, m, l) => m # n
      BY Zenon, <2>1 DEF InLate
    <3>3. Late(u) # Free /\ \A h \in Leaves(n) : Late(u) # Rem(h) /\ Late(u) # Late(LeftBy(h))
      <4>1. u.id # crashes /\ \A h \in Leaves(n) : LeftBy(h).id = crashes
        BY Zenon, <2>1, <1>1, <1>2
      <4> QED BY Zenon, <4>1, LateDiffer
    <3> QED BY Zenon, <3>1, <3>2, <3>3, <1>5
  <2>2. CASE \E h \in Leaves(n) : u = LeftBy(h)
    <3>1. PICK h \in Leaves(n) : u = LeftBy(h)
      BY Zenon, <2>2
    <3>2. /\ h \in Handlers /\ UpdNode(h) # n
      BY Zenon, <1>0, LeavesFacts
    <3>3. InLate(u, m, l) <=> InUpdate(h, m, l)
      BY Zenon, <3>1, <1>1 DEF InLate, InUpdate
    <3>4. InUpdate(h, m, l) <=> mutex[m][l] = Rem(h)
      BY Zenon, <3>2 DEF LockInv, HoldersRun, EntrantsHold
    <3>5. InUpdate(h, m, l) => m # n
      BY Zenon, <3>2 DEF InUpdate
    <3>6. Late(u) # Free /\ \A g \in Leaves(n) : Late(u) = Late(LeftBy(g)) => g = h
      BY Zenon, <3>1, <1>1, LateDiffer
    <3>7. mutex[m][l] # Late(u)
      <4>1. mutex[m][l] \in Holder \/ \E v \in late : mutex[m][l] = Late(v)
        BY Zenon DEF LateInv
      <4>2. Late(u) \notin Holder /\ \A v \in late : Late(v) # Late(u)
        <5>1. u.id = crashes /\ \A v \in late : v.id # crashes
          BY Zenon, <3>1, <1>1, <1>2
        <5> QED BY Zenon, <5>1, LateDiffer
      <4> QED BY Zenon, <4>1, <4>2
    <3>8. \A g \in Leaves(n) : mutex[m][l] = Rem(g) /\ mutex'[m][l] = Late(u) /\ mutex'[m][l] = Late(LeftBy(g))
            => mutex[m][l] = Rem(h)
      BY Zenon, <3>6
    <3>9. mutex'[m][l] = Late(u) => mutex[m][l] = Rem(h)
      BY Zenon, <3>6, <3>7, <3>8, <1>5
    <3>10. m # n /\ mutex[m][l] = Rem(h) => mutex'[m][l] = Late(u)
      BY Zenon, <3>1, <1>0, CrashMutex
    <3> QED BY Zenon, <3>3, <3>4, <3>5, <3>9, <3>10
  <2> QED BY Zenon, <1>0, <2>1, <2>2
<1> HIDE DEF CrashInv
<1>8. \A u \in late', m \in Nodes, l \in Links : (InLate(u, m, l) <=> mutex[m][l] = Late(u))'
  BY Zenon, <1>7 DEF InLate, Late
<1>9. \A m \in Nodes, l \in Links : (mutex[m][l] \in Holder \/ \E u \in late : mutex[m][l] = Late(u))'
  BY Zenon, <1>6 DEF Late
<1> QED BY Zenon, <1>3, <1>4, <1>8, <1>9 DEF LateInv

\* All the steps of daemons that end.
LEMMA CrashInvNext == CrashInv /\ [CrashNext]_allVars => CrashInv'
<1> SUFFICES ASSUME CrashInv, [CrashNext]_allVars PROVE CrashInv'
  BY Zenon
<1>1. ASSUME [Next]_vars, UNCHANGED crashVars PROVE CrashInv'
  BY Zenon, <1>1, NextInv, LockNext, LateKept DEF CrashInv
<1>2. ASSUME NEW n \in Nodes, Crash(n) PROVE CrashInv'
  BY Zenon, <1>2, CrashTyped, CrashLocks, CrashLate DEF CrashInv
<1>3. UNCHANGED allVars => UNCHANGED vars /\ UNCHANGED crashVars
  BY Zenon DEF allVars
<1> QED BY Zenon, <1>1, <1>2, <1>3, LateStep DEF CrashNext

\* Types, control and mutexes, in daemons that end at any time and of which Updates
\* go on that nobody waits for.
THEOREM CrashCorrect == CrashSpec => []CrashInv
<1>1. CrashInit => CrashInv
  <2> SUFFICES ASSUME CrashInit PROVE CrashInv
    BY Zenon
  <2>1. Init /\ crashes = 0 /\ late = {}
    BY Zenon DEF CrashInit
  <2>2. \A n \in Nodes, l \in Links : mutex[n][l] \in Holder
    BY Zenon, <2>1 DEF Init, Holder
  <2>3. LateInv
    BY <2>1, <2>2 DEF LateInv
  <2> QED BY Zenon, <2>1, <2>3, InitInv, InitLocks DEF CrashInv
<1> QED BY <1>1, CrashInvNext, PTL DEF CrashSpec

\* A daemon that ends leaves nothing behind that is not a pod, a link, or the
\* mutex of an Update that goes on.
THEOREM CrashTypes == CrashSpec => []CrashTypeOK
<1>1. CrashInit => CrashTypeOK
  BY CrashAssumption DEF CrashInit, CrashTypeOK, Init, Holder
<1>2. CrashInv /\ CrashInv' /\ CrashTypeOK /\ [CrashNext]_allVars => CrashTypeOK'
  <2> SUFFICES ASSUME CrashInv, CrashInv', CrashTypeOK, [CrashNext]_allVars PROVE CrashTypeOK'
    BY Zenon
  <2>1. late' \subseteq LateUpdate
        /\ \A n \in Nodes, l \in Links : mutex'[n][l] \in Holder \cup {Late(u) : u \in late'}
    <3>1. late' \subseteq LateUpdate
          /\ \A n \in Nodes, l \in Links : mutex'[n][l] \in Holder \/ \E u \in late' : mutex'[n][l] = Late(u)
      BY Zenon DEF CrashInv, LateInv, Late
    <3> QED BY Zenon, <3>1
  <2>2. crashes' \in 0 .. MaxCrashes /\ found' \in [Nodes -> SUBSET Pods] /\ overtaken' \subseteq Links
    <3>1. CASE UNCHANGED crashVars
      BY Zenon, <3>1 DEF CrashTypeOK, crashVars
    <3>2. ASSUME NEW n \in Nodes, Crash(n) PROVE <2>2
      <4>1. crashes' \in 0 .. MaxCrashes
        BY <3>2, CrashAssumption DEF Crash, CrashTypeOK
      <4>2. found' \in [Nodes -> SUBSET Pods]
        BY Zenon, <3>2 DEF Crash, TopologyManagerInit, LocalTopologies, CrashTypeOK
      <4> QED BY Zenon, <4>1, <4>2, <3>2 DEF Crash, CrashTypeOK
    <3>3. ASSUME NEW u \in late, LateLock(u) \/ LateSetup(u) \/ LateDone(u) PROVE <2>2
      <4>1. u.link \in Links
        BY Zenon, LateFacts DEF CrashInv
      <4>2. overtaken' \in {overtaken, overtaken \cup {u.link}} /\ UNCHANGED <<crashes, found>>
        BY Zenon, <3>3 DEF LateLock, LateSetup, LateSetupWith, LateDone, lateElsewhere
      <4> QED BY Zenon, <4>1, <4>2 DEF CrashTypeOK
    <3> QED BY Zenon, <3>1, <3>2, <3>3 DEF CrashNext, allVars
  <2> QED BY Zenon, <2>1, <2>2 DEF CrashTypeOK, Late
<1> QED BY <1>1, <1>2, CrashCorrect, PTL DEF CrashSpec
=============================================================================
