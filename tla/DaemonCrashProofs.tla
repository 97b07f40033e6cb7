------------------------- MODULE DaemonCrashProofs -------------------------
(* What daemons that end at any time and are started again (DaemonCrash)     *)
(* leave intact: the sections of the links, and what is known of the pods.    *)
(* Then why two pods that are up are joined all the same: of what the end of  *)
(* a daemon leaves behind, only an Update that goes on without its caller     *)
(* touches an interface, and until its caller's pod has a new sandbox that    *)
(* pod is not up.                                                            *)
EXTENDS DaemonLockProofs, DaemonJoinProofs

-----------------------------------------------------------------------------
(* The sections of the links, when daemons end.                            *)

\* The worker that holder x of a mutex stands for: an Update without a caller is
\* still the Update of the handler that called it.
Who(x) == IF x = Free THEN {} ELSE IF x \in Workers THEN {x} ELSE {Rem(x[2])}

InsideIsWho == \A n \in Nodes, l \in Links : InsideWithLate[n][l] = Who(mutex[n][l])

\* The worker of each kind of holder.
LEMMA WhoIs ==
  /\ Who(Free) = {}
  /\ \A x \in Workers : Who(x) = {x} /\ x # Free
  /\ \A u : Who(Late(u)) = {Rem(u.by)}
<1>1. \A x \in Workers : x # Free
  BY DEF Workers, Free
<1>2. ASSUME NEW u PROVE Late(u) \notin Workers /\ Late(u) # Free /\ Late(u)[2] = u.by
  <2>1. Late(u)[2] = u.by
    BY DEF Late
  <2>2. Late(u) \notin Holder
    BY Zenon, LateDiffer
  <2> QED BY Zenon, <2>1, <2>2 DEF Holder, Workers
<1> QED BY Zenon, <1>1, <1>2 DEF Who

\* A holder that is no Update without a caller is a handler's worker.
LEMMA HolderWorks ==
  ASSUME NEW x \in Holder
  PROVE  x # Free => x \in Workers /\ \E h \in Handlers : x = Own(h) \/ x = Rem(h)
<1>1. x # Free => x \in {"own", "upd"} \X Handlers
  BY Zenon DEF Holder
<1>2. ASSUME NEW t \in {"own", "upd"}, NEW h \in Handlers, x = <<t, h>>
      PROVE  x = Own(h) \/ x = Rem(h)
  BY Zenon, <1>2 DEF Own, Rem
<1>3. x \in {"own", "upd"} \X Handlers => \E t \in {"own", "upd"}, h \in Handlers : x = <<t, h>>
  OBVIOUS
<1>4. x # Free => \E h \in Handlers : x = Own(h) \/ x = Rem(h)
  BY Zenon, <1>1, <1>2, <1>3
<1>5. x # Free => x \in Workers
  BY Zenon, <1>1 DEF Workers
<1> QED BY Zenon, <1>4, <1>5

\* The worker in the section of a link is the one its mutex is held for.
LEMMA InsideWho == CrashInv => InsideIsWho
<1> SUFFICES ASSUME CrashInv, NEW n \in Nodes, NEW l \in Links
             PROVE  InsideWithLate[n][l] = Who(mutex[n][l])
  BY Zenon DEF InsideIsWho
<1>0. InsideWithLate[n][l] = InsideOf(n, l) \cup {Rem(u.by) : u \in {v \in late : InLate(v, n, l)}}
  BY Zenon DEF InsideWithLate
<1>1. ASSUME NEW h \in Handlers
      PROVE  /\ InAddLink(h, n, l) <=> mutex[n][l] = Own(h)
             /\ InUpdate(h, n, l) <=> mutex[n][l] = Rem(h)
  BY Zenon DEF CrashInv, LockInv, HoldersRun, EntrantsHold
<1>2. \A u \in late : InLate(u, n, l) <=> mutex[n][l] = Late(u)
  BY Zenon DEF CrashInv, LateInv
<1>3. CASE mutex[n][l] \in Holder
  <2>1. {u \in late : InLate(u, n, l)} = {}
    BY Zenon, <1>2, <1>3, LateDiffer
  <2>2. InsideWithLate[n][l] = InsideOf(n, l)
    BY Zenon, <1>0, <2>1
  <2>3. CASE mutex[n][l] = Free
    <3>1. InsideOf(n, l) = {}
      BY Zenon, <2>3, <1>1, HoldersDiffer DEF InsideOf
    <3> QED BY Zenon, <2>2, <2>3, <3>1, WhoIs
  <2>4. ASSUME mutex[n][l] \in Workers, NEW h \in Handlers, mutex[n][l] = Own(h) \/ mutex[n][l] = Rem(h)
        PROVE  InsideWithLate[n][l] = Who(mutex[n][l])
    <3>1. InsideOf(n, l) = {mutex[n][l]}
      <4>1. CASE mutex[n][l] = Own(h)
        <5>1. \A g \in Handlers : (InAddLink(g, n, l) <=> g = h) /\ ~InUpdate(g, n, l)
          BY Zenon, <4>1, <1>1, HoldersDiffer
        <5> QED BY Zenon, <4>1, <5>1 DEF InsideOf
      <4>2. CASE mutex[n][l] = Rem(h)
        <5>1. \A g \in Handlers : (InUpdate(g, n, l) <=> g = h) /\ ~InAddLink(g, n, l)
          BY Zenon, <4>2, <1>1, HoldersDiffer
        <5> QED BY Zenon, <4>2, <5>1 DEF InsideOf
      <4> QED BY Zenon, <2>4, <4>1, <4>2
    <3> QED BY Zenon, <2>2, <2>4, <3>1, WhoIs
  <2> QED BY Zenon, <1>3, <2>3, <2>4, HolderWorks
<1>4. ASSUME NEW u \in late, mutex[n][l] = Late(u)
      PROVE  InsideWithLate[n][l] = Who(mutex[n][l])
  <2>1. InsideOf(n, l) = {}
    BY Zenon, <1>1, <1>4, LateDiffer DEF InsideOf
  <2>2. \A v \in late : InLate(v, n, l) => v.by = u.by
    BY Zenon, <1>2, <1>4, LateDiffer
  <2>3. {Rem(v.by) : v \in {x \in late : InLate(x, n, l)}} = {Rem(u.by)}
    BY Zenon, <2>2, <1>2, <1>4
  <2> QED BY Zenon, <1>0, <2>1, <2>3, <1>4, WhoIs
<1> QED BY Zenon, <1>3, <1>4 DEF CrashInv, LateInv

\* What may become of the worker in a section.
SectionMoves(n, l) ==
  \/ Who(mutex[n][l])' = Who(mutex[n][l])
  \/ Who(mutex[n][l])' = {}
  \/ Who(mutex[n][l]) = {} /\ \E w \in Workers : Who(mutex[n][l])' = {w}

\* Every step keeps the workers apart.
LEMMA CrashSectionStep ==
  ASSUME CrashInv, [CrashNext]_allVars, NEW n \in Nodes, NEW l \in Links
  PROVE  SectionMoves(n, l)
<1>1. ASSUME NEW x, mutex'[n][l] = x PROVE Who(mutex[n][l])' = Who(x)
  BY Zenon, <1>1 DEF Who, Free, Workers, Rem
<1>2. ASSUME [Next]_vars PROVE SectionMoves(n, l)
  <2>1. MutexStep(n, l)
    BY Zenon, <1>2, NextMutex DEF CrashInv
  <2>2. CASE mutex'[n][l] = mutex[n][l]
    BY Zenon, <2>2, <1>1 DEF SectionMoves
  <2>3. CASE mutex'[n][l] = Free
    BY Zenon, <2>3, <1>1, WhoIs DEF SectionMoves
  <2>4. CASE mutex[n][l] = Free /\ mutex'[n][l] \in Holder /\ mutex'[n][l] # Free
    <3>1. PICK x \in Workers : mutex'[n][l] = x
      BY Zenon, <2>4, HolderWorks
    <3> QED BY Zenon, <2>4, <3>1, <1>1, WhoIs DEF SectionMoves
  <2> QED BY Zenon, <2>1, <2>2, <2>3, <2>4 DEF MutexStep
<1>3. ASSUME NEW m \in Nodes, Crash(m) PROVE SectionMoves(n, l)
  <2>1. \/ mutex'[n][l] \in {Free, mutex[n][l]}
        \/ \E h \in Leaves(m) : mutex[n][l] = Rem(h) /\ mutex'[n][l] = Late(LeftBy(h))
    BY Zenon, <1>3, CrashMutex DEF Crash, CrashInv
  <2>2. CASE mutex'[n][l] = mutex[n][l]
    BY Zenon, <2>2, <1>1 DEF SectionMoves
  <2>3. CASE mutex'[n][l] = Free
    BY Zenon, <2>3, <1>1, WhoIs DEF SectionMoves
  <2>4. ASSUME NEW h \in Leaves(m), mutex[n][l] = Rem(h), mutex'[n][l] = Late(LeftBy(h))
        PROVE  SectionMoves(n, l)
    <3>1. LeftBy(h).by = h
      BY DEF LeftBy
    <3>2. Rem(h) \in Workers
      BY Zenon DEF Leaves, Dead, Rem, Workers
    <3>3. PICK x : x = Late(LeftBy(h))
      BY Zenon
    <3>4. Who(x) = {Rem(h)} /\ Who(mutex[n][l]) = {Rem(h)}
      BY Zenon, <3>1, <3>2, <3>3, <2>4, WhoIs
    <3> QED BY Zenon, <3>3, <3>4, <2>4, <1>1 DEF SectionMoves
  <2> QED BY Zenon, <2>1, <2>2, <2>3, <2>4
<1>4. ASSUME NEW u \in late, LateLock(u) \/ LateSetup(u) \/ LateDone(u) PROVE SectionMoves(n, l)
  <2>0. mutex \in [Nodes -> [Links -> Tenant]] /\ u.by \in Handlers
    BY Zenon, LinkTypes, LateFacts DEF CrashInv
  <2>1. \/ mutex'[n][l] \in {Free, mutex[n][l]}
        \/ mutex[n][l] = Free /\ mutex'[n][l] = Late(u)
    <3>1. CASE LateLock(u)
      BY Zenon, <2>0, <3>1 DEF LateLock, Lock
    <3>2. CASE LateSetup(u)
      <4>1. mutex' = mutex \/ Unlock(u.node, u.link)
        BY Zenon, <3>2 DEF LateSetup, LateSetupWith
      <4>2. Unlock(u.node, u.link) => mutex'[n][l] \in {Free, mutex[n][l]}
        BY Zenon, <2>0 DEF Unlock
      <4> QED BY Zenon, <4>1, <4>2
    <3>3. CASE LateDone(u)
      BY Zenon, <2>0, <3>3 DEF LateDone, Unlock
    <3> QED BY Zenon, <1>4, <3>1, <3>2, <3>3
  <2>2. CASE mutex'[n][l] = mutex[n][l]
    BY Zenon, <2>2, <1>1 DEF SectionMoves
  <2>3. CASE mutex'[n][l] = Free
    BY Zenon, <2>3, <1>1, WhoIs DEF SectionMoves
  <2>4. CASE mutex[n][l] = Free /\ mutex'[n][l] = Late(u)
    <3>1. Rem(u.by) \in Workers
      BY Zenon, <2>0 DEF Rem, Workers
    <3>2. Who(mutex[n][l]) = {} /\ Who(mutex[n][l])' = {Rem(u.by)}
      BY Zenon, <2>4, <1>1, WhoIs
    <3> QED BY Zenon, <3>1, <3>2 DEF SectionMoves
  <2> QED BY Zenon, <2>1, <2>2, <2>3, <2>4
<1>5. UNCHANGED allVars => UNCHANGED vars
  BY Zenon DEF allVars
<1> QED BY Zenon, <1>2, <1>3, <1>4, <1>5 DEF CrashNext

\* Daemons that end implement LinkSections too: an Update that has lost its caller
\* keeps everybody else out of the link on its node until it is done, and nobody
\* is still in a section of a daemon that has just started.
THEOREM SectionsSurviveCrashes == CrashSpec => SectionsSurvive
<1>1. CrashInit => CrashSections!Init
  <2> SUFFICES ASSUME CrashInit PROVE CrashSections!Init
    BY Zenon
  <2>1. ASSUME NEW n \in Nodes, NEW l \in Links
        PROVE  InsideOf(n, l) \cup {Rem(u.by) : u \in {v \in late : InLate(v, n, l)}} = {}
    BY DEF CrashInit, Init, InsideOf, InAddLink, InUpdate
  <2> QED BY Zenon, <2>1 DEF InsideWithLate, CrashSections!Init
<1>2. CrashInv /\ InsideIsWho /\ InsideIsWho' /\ [CrashNext]_allVars
      => [CrashSections!Next]_InsideWithLate
  <2> SUFFICES ASSUME CrashInv, InsideIsWho, InsideIsWho', [CrashNext]_allVars PROVE CrashSections!Next
    BY Zenon
  <2>1. ASSUME NEW n \in Nodes, NEW l \in Links
        PROVE  \/ InsideWithLate'[n][l] = InsideWithLate[n][l]
               \/ InsideWithLate'[n][l] = {}
               \/ InsideWithLate[n][l] = {} /\ \E w \in Workers : InsideWithLate'[n][l] = {w}
    <3>1. InsideWithLate[n][l] = Who(mutex[n][l]) /\ InsideWithLate'[n][l] = Who(mutex[n][l])'
      BY Zenon DEF InsideIsWho
    <3>2. SectionMoves(n, l)
      BY Zenon, CrashSectionStep
    <3> QED BY Zenon, <3>1, <3>2 DEF SectionMoves
  <2>2. InsideWithLate' = [n \in Nodes |-> [l \in Links |-> InsideWithLate'[n][l]]]
    BY Zenon DEF InsideWithLate
  <2> QED BY Zenon, <2>1, <2>2 DEF CrashSections!Next, CrashSections!Stay, CrashSections!Leave, CrashSections!Enter
<1> QED BY <1>1, <1>2, InsideWho, CrashCorrect, PTL DEF CrashSpec, SectionsSurvive, CrashSections!Spec

-----------------------------------------------------------------------------
(* What is known of the pods, when daemons end.                            *)

\* The end of a daemon: the pods it was working on are not up, and it finds the
\* others again where the API server says they are.
LEMMA CrashKnown ==
  ASSUME Inv, found \in [Nodes -> SUBSET Pods], KnownIn(found), NEW n \in Nodes, Crash(n)
  PROVE  KnownIn(found)'
<1>0. /\ UNCHANGED <<hist, node, start, unread>>
      /\ tm' = [tm EXCEPT ![n] = {}] /\ found' = [found EXCEPT ![n] = LocalTopologies(n)]
      /\ sbx' = [p \in Pods |-> IF Cni(p) \in Dead(n) THEN "failed" ELSE sbx[p]]
  BY Zenon DEF Crash, TopologyManagerInit, CallsFail, CallBreaks
<1>1. /\ tm'[n] = {} /\ found'[n] = LocalTopologies(n)
      /\ \A m \in Nodes \ {n} : tm'[m] = tm[m] /\ found'[m] = found[m]
  BY Zenon, <1>0 DEF Inv, Typed
<1> SUFFICES ASSUME NEW p \in Pods PROVE StatusOf(p)' /\ MetricsOf(p, found)'
  BY Zenon DEF KnownIn, StatusOf, MetricsOf
<1>2. StatusOf(p) /\ MetricsOf(p, found) /\ SandboxOK(p) /\ Cni(p) \in Handlers
      /\ PlaceOf(Current(p))' = PlaceOf(Current(p))
  BY Zenon, <1>0, PodHandlers DEF KnownIn, Inv, HandlersOK, Current, Version, PlaceOf
<1>3. CASE Cni(p) \in Dead(n)
  <2>1. sbx'[p] = "failed"
    BY Zenon, <1>0, <1>3
  <2>2. ASSUME NEW m \in Nodes, node[p] # m PROVE p \notin tm'[m]
    BY Zenon, <2>2, <1>1, <1>2 DEF MetricsOf
  <2> QED BY Zenon, <2>1, <2>2, <1>0 DEF StatusOf, MetricsOf
<1>4. CASE Cni(p) \notin Dead(n)
  <2>1. /\ sbx'[p] = sbx[p] /\ pc'[Cni(p)] = pc[Cni(p)] /\ loc'[Cni(p)] = loc[Cni(p)]
        /\ node'[p] = node[p] /\ start'[p] = start[p] /\ unread'[p] = unread[p]
    BY Zenon, <1>0, <1>2, <1>4, CrashOthers
  <2>2. StatusOf(p)'
    BY Zenon, <1>2, <2>1 DEF StatusOf, Alive
  <2>3. sbx[p] = "adding" => node[p] # n
    BY Zenon, <1>2, <1>4 DEF SandboxOK, Dead, At, Cni
  <2>4. sbx[p] \in {"adding", "up"} => node[p] \in Nodes
    BY <1>2 DEF SandboxOK, Inv, Typed, DevTypeOK
  <2>5. sbx[p] = "up" /\ ~unread[p] /\ node[p] = n => p \in LocalTopologies(n)
    BY Zenon, <1>2 DEF StatusOf, PlaceOf, LocalTopologies
  <2>6. sbx[p] = "adding" /\ pc[Cni(p)] # "read" => p \in tm'[node[p]]
    BY Zenon, <1>1, <1>2, <2>3, <2>4 DEF MetricsOf
  <2>7. sbx[p] = "up" /\ ~unread[p] => p \in tm'[node[p]] \cup found'[node[p]]
    BY Zenon, <1>1, <1>2, <2>4, <2>5 DEF MetricsOf
  <2>8. \A m \in Nodes : sbx[p] \in {"none", "deleting", "deleted"} \/ node[p] # m => p \notin tm'[m]
    BY Zenon, <1>1, <1>2 DEF MetricsOf
  <2> QED BY Zenon, <2>1, <2>2, <2>6, <2>7, <2>8 DEF MetricsOf
<1> QED BY Zenon, <1>3, <1>4

CrashKnownInv == KnownIn(found)

\* Every step.
LEMMA CrashKnownNext ==
  ASSUME CrashInv, CrashTypeOK, CrashKnownInv, [CrashNext]_allVars
  PROVE  CrashKnownInv'
<1> USE DEF CrashKnownInv
<1>1. ASSUME [Next]_vars, UNCHANGED found PROVE KnownIn(found)'
  <2>1. PICK F : F = found
    BY Zenon
  <2>2. KnownIn(F)
    BY Zenon, <2>1
  <2>3. KnownIn(F)'
    BY Zenon, <1>1, <2>2, KnownNext DEF CrashInv
  <2> QED BY Zenon, <1>1, <2>1, <2>3 DEF KnownIn, StatusOf, MetricsOf
<1>2. ASSUME NEW n \in Nodes, Crash(n) PROVE KnownIn(found)'
  BY Zenon, <1>2, CrashKnown DEF CrashInv, CrashTypeOK
<1>3. ASSUME NEW u \in late, LateLock(u) \/ LateSetup(u) \/ LateDone(u) PROVE KnownIn(found)'
  <2>1. UNCHANGED <<hist, kubeletVars, handlerVars, aliveVars, tm, found>>
    BY Zenon, <1>3 DEF LateLock, LateSetup, LateSetupWith, LateDone, lateElsewhere, storeVars
  <2>2. UNCHANGED <<hist, sbx, node, start, unread, pc, loc, tm, found>>
    BY Zenon, <2>1 DEF kubeletVars, handlerVars, aliveVars
  <2> QED BY Zenon, <2>2 DEF KnownIn, StatusOf, MetricsOf, PlaceOf, Current, Version, Alive
<1>4. UNCHANGED crashVars => UNCHANGED found
  BY Zenon DEF crashVars
<1>5. UNCHANGED allVars => UNCHANGED vars /\ UNCHANGED crashVars
  BY Zenon DEF allVars
<1> QED BY Zenon, <1>1, <1>2, <1>3, <1>4, <1>5 DEF CrashNext

\* Whenever a daemon ends, what is known of a pod that is up is right.
THEOREM CrashKnownCorrect == CrashSpec => []CrashKnownInv
<1>1. CrashInit => CrashKnownInv
  <2> SUFFICES ASSUME CrashInit, NEW p \in Pods PROVE StatusOf(p) /\ MetricsOf(p, found)
    BY Zenon DEF CrashKnownInv, KnownIn
  <2>1. StatusOf(p)
    BY DEF CrashInit, Init, StoreInit, StatusOf, PlaceOf, Current, Version, Alive, Unset
  <2>2. MetricsOf(p, found)
    BY Zenon DEF CrashInit, Init, MetricsOf
  <2> QED BY Zenon, <2>1, <2>2
<1>2. CrashInv /\ CrashTypeOK /\ CrashKnownInv /\ [CrashNext]_allVars => CrashKnownInv'
  BY Zenon, CrashKnownNext
<1> QED BY <1>1, <1>2, CrashCorrect, CrashTypes, PTL DEF CrashSpec

\* A daemon that ends in the middle of SetAlive leaves no wrong word in the API
\* server about a pod that is up or gone.
THEOREM StatusSurvives == CrashSpec => []StatusTruthful
<1>1. CrashKnownInv => StatusTruthful
  BY Zenon DEF CrashKnownInv, KnownIn, StatusOf, StatusTruthful, PlaceOf, Alive
<1> QED BY <1>1, CrashKnownCorrect, PTL

\* The metrics of a node miss no pod that is up there, because the daemon that
\* starts again files the pods the API server knows on its node.
THEOREM MetricsSurvive == CrashSpec => []MetricsFind
<1>1. CrashKnownInv => MetricsFind
  BY Zenon DEF CrashKnownInv, KnownIn, MetricsOf, MetricsFind
<1> QED BY <1>1, CrashKnownCorrect, PTL

-----------------------------------------------------------------------------
(* Pods that are joined, when daemons end.                                 *)

\* An Update that goes on works on a link its caller's pod lists, for the peer on
\* it; the sandbox that pod had is broken, and will never be up.
LateTold(u) ==
  LET p == u.by[1]
  IN  /\ Has(LinksOf[p], u.link) /\ u.pod = PeerOf[p][u.link] /\ u.vtep \in Nodes
      /\ u.from <= start[p]
      /\ u.from = start[p] => sbx[p] \notin {"adding", "up"}

\* S is FALSE: the informers of a daemon that has started again know nothing yet.
CrashJoinInv(S) ==
  /\ Calm /\ TodoOK
  /\ \A u \in late : LateTold(u)
  /\ \A p, q \in Pods, l \in Links :
       VirtualLink(p, q, l) /\ l \notin overtaken => Pair(S, p, q, l)

-----------------------------------------------------------------------------
(* The steps of the daemons that run.                                      *)

\* A sandbox that is neither up nor being set up does not come up again.
LEMMA SandboxStays ==
  ASSUME Inv, Calm, JoinStep, NEW p \in Pods
  PROVE  \/ start'[p] = start[p] + 1
         \/ start'[p] = start[p] /\ (sbx[p] \notin {"adding", "up"} => sbx'[p] \notin {"adding", "up"})
<1>t. /\ start \in [Pods -> Nat] /\ sbx \in [Pods -> Sandbox]
      /\ Cni(p) \in Handlers /\ Cni(p)[1] = p /\ Cni(p)[2] = "cni"
  BY Zenon, PodHandlers DEF Inv, Typed, DevTypeOK, Cni
<1>1. CASE KubeletStep(p)
  BY Zenon, <1>t, <1>1 DEF KubeletStep, SetupPod, NewSandbox, DestroyPod, RemoveSandbox
<1>2. CASE SetAliveStep(p)
  BY Zenon, <1>2, SetAliveControl
<1>3. CASE HandlerStep(Cni(p)) \/ LockStep(Cni(p))
  <2>1. start' = start /\ (sbx' = sbx \/ \E ok \in BOOLEAN : Return(Cni(p), ok))
    BY Zenon, <1>t, <1>3, LoopSteps DEF elsewhere
  <2>2. ASSUME NEW ok \in BOOLEAN, Return(Cni(p), ok), sbx[p] # "adding" PROVE sbx'[p] \in {"failed", "deleted"}
    BY Zenon, <1>t, <2>2 DEF Return
  <2> QED BY Zenon, <2>1, <2>2
<1>4. CASE Touch(p) \/ \E n \in Nodes : Watch(n, p)
  BY Zenon, <1>4 DEF Touch, Watch, kubeletVars
<1>5. CASE Aside(p)
  BY Zenon, <1>5 DEF Aside, Still
<1> QED BY Zenon, <1>1, <1>2, <1>3, <1>4, <1>5, StepOf

\* So what is true of an Update that goes on stays true.
LEMMA ToldStays ==
  ASSUME Inv, NEW u \in LateUpdate, LateTold(u),
         \A p \in Pods :
           \/ start'[p] = start[p] + 1
           \/ start'[p] = start[p] /\ (sbx[p] \notin {"adding", "up"} => sbx'[p] \notin {"adding", "up"})
  PROVE  LateTold(u)'
<1>1. PICK p \in Pods : u.by[1] = p
  BY DEF LateUpdate, Handlers
<1>2. u.from \in Nat /\ start[p] \in Nat
  BY Zenon DEF LateUpdate, Inv, Typed, DevTypeOK
<1>3. /\ Has(LinksOf[p], u.link) /\ u.pod = PeerOf[p][u.link] /\ u.vtep \in Nodes
      /\ u.from <= start[p]
      /\ u.from = start[p] => sbx[p] \notin {"adding", "up"}
  BY Zenon, <1>1 DEF LateTold
<1>4. u.from <= start'[p] /\ (u.from = start'[p] => sbx'[p] \notin {"adding", "up"})
  <2>1. CASE start'[p] = start[p] + 1
    BY <1>2, <1>3, <2>1
  <2>2. CASE start'[p] = start[p] /\ (sbx[p] \notin {"adding", "up"} => sbx'[p] \notin {"adding", "up"})
    BY Zenon, <1>3, <2>2
  <2> QED BY Zenon, <2>1, <2>2
<1> QED BY Zenon, <1>1, <1>3, <1>4 DEF LateTold

\* Every step of Daemon.
LEMMA RunningJoin ==
  ASSUME NEW S \in BOOLEAN, ~S, Undisturbed, ~Lossy, CrashInv, CrashKnownInv, CrashJoinInv(S),
         [Next]_vars, UNCHANGED crashVars
  PROVE  CrashJoinInv(S)'
<1>1. Inv /\ Inv' /\ StatusInv /\ Stored(S) /\ Calm /\ TodoOK
  BY Zenon, NextInv DEF CrashInv, CrashKnownInv, KnownIn, StatusInv, Stored, CrashJoinInv
<1>2. JoinStep
  BY Zenon, <1>1, JoinSteps
<1>3. Calm' /\ TodoOK'
  BY Zenon, <1>1, <1>2, CalmKept, TodoKept
<1>4. late' = late /\ overtaken' = overtaken
  BY Zenon DEF crashVars
<1>5. \A u \in late : LateTold(u)'
  BY Zenon, <1>1, <1>2, SandboxStays, ToldStays DEF CrashJoinInv, CrashInv, LateInv
<1>6. ASSUME NEW p \in Pods, NEW q \in Pods, NEW l \in Links, VirtualLink(p, q, l), l \notin overtaken
      PROVE  Pair(S, p, q, l)'
  <2>1. Pair(S, p, q, l)
    BY Zenon, <1>6 DEF CrashJoinInv
  <2> QED BY Zenon, <1>1, <1>2, <1>6, <2>1, PairsKept
<1> QED BY Zenon, <1>3, <1>4, <1>5, <1>6 DEF CrashJoinInv, VirtualLink

-----------------------------------------------------------------------------
(* The end of a daemon.                                                    *)

\* It takes no pod further: what a pod has been through it had been through
\* before, and its interfaces stay.
LEMMA CrashEnd ==
  ASSUME Inv, NEW n \in Nodes, Crash(n), NEW r \in Pods, NEW l \in Links, Ends(r, l)
  PROVE  EndKept(r, l)
<1>0. /\ UNCHANGED <<dev, miss, node, start>> /\ Cni(r) \in Handlers
      /\ sbx' = [p \in Pods |-> IF Cni(p) \in Dead(n) THEN "failed" ELSE sbx[p]]
  BY Zenon, PodHandlers DEF Crash, CallsFail, CallBreaks
<1>1. CASE Cni(r) \in Dead(n)
  <2>1. sbx'[r] = "failed" /\ pc'[Cni(r)] = "idle"
    BY Zenon, <1>0, <1>1, CrashDead
  <2> QED BY Zenon, <1>0, <2>1 DEF EndKept, Through, Halfway, Ends
<1>2. CASE Cni(r) \notin Dead(n)
  <2>1. /\ pc'[Cni(r)] = pc[Cni(r)] /\ peer'[Cni(r)] = peer[Cni(r)] /\ todo'[Cni(r)] = todo[Cni(r)]
        /\ upd'[Cni(r)] = IF upd[Cni(r)] # "none" /\ UpdNode(Cni(r)) = n THEN "err" ELSE upd[Cni(r)]
        /\ sbx'[r] = sbx[r]
    BY Zenon, <1>0, <1>2, CrashOthers
  <2>2. CASE upd'[Cni(r)] = upd[Cni(r)]
    <3>1. (Through(r, l)' <=> Through(r, l)) /\ (Halfway(r, l)' <=> Halfway(r, l)) /\ Ends(r, l)'
      BY <1>0, <2>1, <2>2, SameEnd
    <3> QED BY Zenon, <1>0, <2>1, <3>1 DEF EndKept
  <2>3. CASE upd'[Cni(r)] = "err" /\ upd[Cni(r)] # "none"
    <3>1. pc[Cni(r)] = "rpc" /\ todo[Cni(r)] \in Seq(Links) /\ todo[Cni(r)] # <<>>
      BY Zenon, <1>0, <2>3 DEF Inv, Typed, HandlersOK, HandlerOK, Simple
    <3>2. ~Has(todo[Cni(r)], l) => ~Has(Rest(r), l)
      BY Zenon, <3>1, HasTail DEF Rest
    <3>3. Through(r, l)' => Through(r, l)
      BY Zenon, <2>1, <2>3, <3>2 DEF Through, Rest
    <3>4. ~Halfway(r, l)'
      BY Zenon, <2>1, <2>3, <3>1 DEF Halfway
    <3>5. Ends(r, l)'
      BY Zenon, <1>0, <2>1 DEF Ends, Cur
    <3> QED BY Zenon, <1>0, <3>3, <3>4, <3>5 DEF EndKept
  <2> QED BY Zenon, <2>1, <2>2, <2>3
<1> QED BY Zenon, <1>1, <1>2

\* The handlers that go on have the links they had, and the others none.
LEMMA CrashTodo ==
  ASSUME Inv, Calm, TodoOK, NEW n \in Nodes, Crash(n)
  PROVE  Calm' /\ TodoOK'
<1> SUFFICES ASSUME NEW p \in Pods, NEW h, h = Cni(p)
             PROVE  /\ pc'[Ctl(p)] = "idle" /\ ~unread'[p]
                    /\ \A i \in 1 .. Len(todo'[h]) : Has(LinksOf[p], todo'[h][i])
                    /\ sbx'[p] = "adding" /\ pc'[h] \in {"read", "write", "fin"} => todo'[h] = LinksOf[p]
                    /\ sbx'[p] = "adding" => pc'[h] \notin Del
                    /\ sbx'[p] = "deleting" => pc'[h] \notin Add
  BY Zenon DEF Calm, TodoOK, Begun
<1>0. /\ UNCHANGED unread /\ h \in Handlers /\ Ctl(p) \in Handlers
      /\ sbx' = [q \in Pods |-> IF Cni(q) \in Dead(n) THEN "failed" ELSE sbx[q]]
  BY Zenon, PodHandlers DEF Crash, CallsFail, CallBreaks
<1>1. pc'[Ctl(p)] = "idle" /\ ~unread'[p]
  BY Zenon, <1>0, CrashDead, CrashOthers DEF Calm
<1>2. CASE h \in Dead(n)
  <2>1. sbx'[p] = "failed" /\ todo'[h] = <<>>
    BY Zenon, <1>0, <1>2, CrashDead
  <2> QED BY <1>1, <2>1
<1>3. CASE h \notin Dead(n)
  <2>1. sbx'[p] = sbx[p] /\ todo'[h] = todo[h] /\ pc'[h] = pc[h]
    BY Zenon, <1>0, <1>3, CrashOthers
  <2> QED BY Zenon, <1>1, <2>1 DEF TodoOK, Begun
<1> QED BY Zenon, <1>2, <1>3

\* An Update it leaves behind was called for a pod whose call is broken now.
LEMMA LeftTold ==
  ASSUME Inv, Calm, TodoOK, crashes \in Nat, NEW n \in Nodes, Crash(n),
         NEW h \in Leaves(n), NEW u, u = LeftBy(h)
  PROVE  LateTold(u)'
<1>1. /\ h \in Handlers /\ pc[h] = "rpc" /\ At(h) = n /\ UpdNode(h) # n /\ h \in Dead(n)
  BY Zenon, LeavesFacts DEF Leaves
<1>2. PICK p \in Pods : h = Cni(p) /\ h[1] = p /\ h[2] = "cni"
  <2>1. h[1] \in Pods /\ h[2] \in {"cni", "ctl"} /\ h = <<h[1], h[2]>>
    BY Zenon, <1>1, HandlerFacts
  <2>2. h # Ctl(h[1])
    BY Zenon, <1>1, <2>1 DEF Calm
  <2> QED BY Zenon, <2>1, <2>2 DEF Cni, Ctl
<1>3. todo[h] \in Seq(Links) /\ todo[h] # <<>> /\ sbx[p] = "adding" /\ loc[h].node = node[p] /\ node[p] = n
  <2>1. sbx[p] \in {"adding", "deleting"} /\ (sbx[p] = "adding" => loc[h].node = node[p])
    <3>1. SandboxOK(p) /\ pc[Cni(p)] # "idle"
      BY Zenon, <1>1, <1>2 DEF Inv, HandlersOK
    <3>2. loc[h] = loc[Cni(p)]
      BY Zenon, <1>2
    <3>3. sbx[p] = "adding" => loc[h] = [node |-> node[p], gen |-> start[p]]
      BY Zenon, <3>1, <3>2 DEF SandboxOK
    <3>4. sbx[p] \in {"adding", "deleting"}
      BY Zenon, <3>1 DEF SandboxOK
    <3> QED BY <3>3, <3>4
  <2>2. sbx[p] # "deleting"
    BY Zenon, <1>1, <1>2 DEF TodoOK, Add
  <2>3. todo[h] \in Seq(Links) /\ todo[h] # <<>> /\ node[p] = n
    BY Zenon, <1>1, <1>2 DEF Inv, Typed, HandlersOK, HandlerOK, Simple, At
  <2> QED BY Zenon, <2>1, <2>2, <2>3
<1>4. Has(LinksOf[p], Cur(h))
  <2>1. 1 \in 1 .. Len(todo[h]) /\ Cur(h) = todo[h][1]
    BY <1>3, SMTT(30) DEF Cur
  <2> QED BY Zenon, <1>2, <2>1 DEF TodoOK
<1>5. Peer(h) \in Pods /\ Peer(h) = PeerOf[p][Cur(h)]
  BY Zenon, <1>1, <1>2 DEF UpdNode, Peer
<1>6. start' = start /\ sbx'[p] = "failed"
  BY Zenon, <1>1, <1>2 DEF Crash, CallsFail, CallBreaks
<1>7. /\ LeftBy(h).by[1] = p /\ LeftBy(h).link = Cur(h) /\ LeftBy(h).pod = PeerOf[p][Cur(h)]
      /\ LeftBy(h).vtep = n /\ LeftBy(h).from = start[p]
  BY <1>2, <1>3, <1>5 DEF LeftBy, UpdPod, UpdVtep
<1>8. start[p] \in Nat
  BY Zenon DEF Inv, Typed, DevTypeOK
<1>9. u.by[1] = p /\ u.link = Cur(h) /\ u.pod = PeerOf[p][u.link] /\ u.vtep \in Nodes
  BY Zenon, <1>7
<1>10. u.from <= start'[p] /\ sbx'[p] \notin {"adding", "up"}
  BY <1>6, <1>7, <1>8
<1> QED BY Zenon, <1>4, <1>9, <1>10 DEF LateTold

\* The daemon of n ends.
LEMMA CrashJoin ==
  ASSUME NEW S \in BOOLEAN, CrashInv, CrashJoinInv(S), NEW n \in Nodes, Crash(n)
  PROVE  CrashJoinInv(S)'
<1>0. Inv /\ Calm /\ TodoOK /\ crashes \in Nat
  BY Zenon DEF CrashInv, LateInv, CrashJoinInv
<1>1. Calm' /\ TodoOK'
  BY Zenon, <1>0, CrashTodo
<1>2. ASSUME NEW u \in late PROVE LateTold(u)'
  <2>1. u \in LateUpdate /\ LateTold(u)
    BY Zenon DEF CrashInv, LateInv, CrashJoinInv
  <2>2. \A p \in Pods : start'[p] = start[p] /\ sbx'[p] \in {"failed", sbx[p]}
    BY Zenon DEF Crash, CallsFail, CallBreaks
  <2> QED BY Zenon, <1>0, <2>1, <2>2, ToldStays
<1>3. ASSUME NEW u \in late' PROVE LateTold(u)'
  <2>1. u \in late \/ \E h \in Leaves(n) : u = LeftBy(h)
    BY Zenon DEF Crash
  <2> QED BY Zenon, <1>0, <1>2, <2>1, LeftTold
<1>4. UNCHANGED <<dev, node, overtaken>>
  BY Zenon DEF Crash
<1>5. ASSUME NEW p \in Pods, NEW q \in Pods, NEW l \in Links, VirtualLink(p, q, l), l \notin overtaken
      PROVE  Pair(S, p, q, l)'
  <2>1. Pair(S, p, q, l)
    BY Zenon, <1>5 DEF CrashJoinInv
  <2>2. InterfacesIn(dev', node', p, q, l) /\ Ends(p, l) /\ Ends(q, l)
    BY Zenon, <1>4, <2>1 DEF Pair
  <2> QED BY Zenon, <1>0, <2>1, <2>2, CrashEnd, PairKept
<1> QED BY Zenon, <1>1, <1>3, <1>4, <1>5 DEF CrashJoinInv, VirtualLink

-----------------------------------------------------------------------------
(* Updates that go on without their callers.                               *)

\* What they leave alone.
LEMMA LateElsewhere ==
  ASSUME NEW u \in late, LateLock(u) \/ LateSetup(u) \/ LateDone(u)
  PROVE  UNCHANGED <<sbx, node, start, pc, todo, upd, peer, unread, miss>>
<1>1. UNCHANGED <<kubeletVars, handlerVars, aliveVars, miss>>
  BY Zenon DEF LateLock, LateSetup, LateSetupWith, LateDone, lateElsewhere
<1> QED BY Zenon, <1>1 DEF kubeletVars, handlerVars, aliveVars

\* An Update that has come a step further is told the same.
LEMMA LateToldNext ==
  ASSUME CrashInv, NEW S, CrashJoinInv(S), NEW u \in late, LateLock(u) \/ LateSetup(u) \/ LateDone(u),
         NEW v \in late'
  PROVE  LateTold(v)'
<1>1. UNCHANGED <<sbx, start>>
  BY Zenon, LateElsewhere
<1>2. ASSUME NEW w \in late PROVE LateTold(w)'
  BY Zenon, <1>1 DEF LateTold, CrashJoinInv
<1>3. u \in LateUpdate
  BY Zenon DEF CrashInv, LateInv
<1>4. v \in late \/ \E st \in {"locked", "setup"} : v = [u EXCEPT !.st = st]
  BY Zenon DEF LateLock, LateSetup, LateSetupWith, LateDone, Becomes
<1>5. ASSUME NEW st, v = [u EXCEPT !.st = st] PROVE LateTold(v)'
  <2>1. v.by = u.by /\ v.link = u.link /\ v.pod = u.pod /\ v.vtep = u.vtep /\ v.from = u.from
    BY <1>3, <1>5 DEF LateUpdate
  <2> QED BY Zenon, <1>2, <2>1 DEF LateTold
<1> QED BY Zenon, <1>2, <1>4, <1>5

\* What the setup of one does to a link it is not about.
LEMMA LateOtherLink ==
  ASSUME NEW S \in BOOLEAN, CrashInv, NEW u \in late, LateSetup(u),
         NEW p \in Pods, NEW q \in Pods, NEW l \in Links, Pair(S, p, q, l), l # u.link
  PROVE  Pair(S, p, q, l)'
<1>0. u \in LateUpdate /\ Inv /\ dev \in Devices
  BY Zenon, LinkTypes DEF CrashInv, LateInv
<1>1. PICK n \in Nodes, x \in Pods, k \in Links, g \in Nat, v \in Nodes \cup Phys \cup {NoNode} :
        n = u.node /\ x = u.pod /\ k = u.link /\ g = u.gen /\ v = u.vtep
  BY Zenon, <1>0 DEF LateUpdate
<1>2. PICK ns : ns = vxm[n][k]
  BY Zenon
<1>3. PICK d : d = IF ns # NoNs /\ ns # <<x, g>> THEN RemoveLinkWithVni(dev, n, ns[1], ns[2], k) ELSE dev
  BY Zenon
<1>4. PICK fault : dev' = SetupVxLan(d, n, x, g, k, v, fault).dev
  BY Zenon, <1>1, <1>2, <1>3 DEF LateSetup, LateSetupWith
<1>5. ns = NoNs \/ ns[1] \in Pods
  <2>1. ns \in {NoNs} \cup (Pods \X Nat)
    <3>1. vxm \in [Nodes -> [Links -> {NoNs} \cup (Pods \X Nat)]]
      BY Zenon, <1>0, LinkTypes
    <3> QED BY Zenon, <1>2, <3>1
  <2> QED BY Zenon, <2>1
<1>6. d \in Devices
  BY Zenon, <1>0, <1>3, RemoveLinkWithVniType
<1>k. l # k
  BY Zenon, <1>1
<1>7. ASSUME NEW y \in Pods PROVE d[y][l] = dev[y][l]
  <2>1. CASE ns # NoNs /\ ns # <<x, g>>
    <3>1. PICK z \in Pods : z = ns[1]
      BY Zenon, <1>5, <2>1
    <3>2. d = RemoveLinkWithVni(dev, n, z, ns[2], k)
      BY Zenon, <1>3, <2>1, <3>1
    <3>3. ButFor(RemoveLinkWithVni(dev, n, z, ns[2], k), dev, k)
      BY Zenon, <1>0, OtherThanVni
    <3> QED BY Zenon, <1>k, <3>2, <3>3 DEF ButFor
  <2>2. CASE ~(ns # NoNs /\ ns # <<x, g>>)
    BY Zenon, <1>3, <2>2
  <2> QED BY Zenon, <2>1, <2>2
<1>8. ASSUME NEW y \in Pods PROVE dev'[y][l] = dev[y][l]
  <2>1. ButFor(SetupVxLan(d, n, x, g, k, v, fault).dev, d, k)
    BY Zenon, <1>6, OtherThanVxLan
  <2> QED BY Zenon, <1>k, <1>4, <1>7, <2>1 DEF ButFor
<1>9. UNCHANGED <<sbx, node, start, pc, todo, upd, peer, unread, miss>>
  BY Zenon, LateElsewhere
<1>10. EndKept(p, l) /\ EndKept(q, l)
  BY Zenon, <1>8, <1>9, EndStays DEF Pair, Still
<1>11. InterfacesIn(dev', node', p, q, l)
  BY Zenon, <1>8, <1>9 DEF Pair, InterfacesIn
<1> QED BY Zenon, <1>10, <1>11, PairKept

\* What it does to its own link, before its caller's pod p has a new sandbox.
LEMMA LateOwnLink ==
  ASSUME NEW S \in BOOLEAN, CrashInv, TodoOK, NEW u \in late, LateTold(u), LateSetup(u),
         NEW p \in Pods, NEW q \in Pods, NEW l \in Links, VirtualLink(p, q, l), Pair(S, p, q, l),
         l = u.link, p = u.by[1], q = u.pod, start[p] = u.from
  PROVE  Pair(S, p, q, l)'
<1>0. u \in LateUpdate /\ Inv /\ dev \in Devices
  BY Zenon, LinkTypes DEF CrashInv, LateInv
<1>1. PICK n \in Nodes, g \in Nat, v \in Nodes : n = u.node /\ g = u.gen /\ v = u.vtep
  BY Zenon, <1>0 DEF LateUpdate, LateTold
<1>2. PICK ns : ns = vxm[n][l]
  BY Zenon
<1>3. PICK d : d = IF ns # NoNs /\ ns # <<q, g>> THEN RemoveLinkWithVni(dev, n, ns[1], ns[2], l) ELSE dev
  BY Zenon
<1>4. PICK fault : dev' = SetupVxLan(d, n, q, g, l, v, fault).dev
  BY Zenon, <1>1, <1>2, <1>3 DEF LateSetup, LateSetupWith
<1>5. PICK r : r = SetupVxLan(d, n, q, g, l, v, fault) /\ dev' = r.dev
  BY Zenon, <1>4
<1>6. InterfacesIn(dev, node, q, p, l) /\ VirtualLink(q, p, l)
  BY Zenon, EitherEnd DEF Pair
<1>7. d \in Devices /\ InterfacesIn(d, node, q, p, l)
  <2>1. CASE ns # NoNs
    <3>1. ns \in Pods \X Nat
      BY Zenon, <1>0, <1>2, <2>1, LinkTypes
    <3>2. PICK x \in Pods, y \in Nat : ns[1] = x /\ ns[2] = y
      BY Zenon, <3>1
    <3>3. PICK e : e = RemoveLinkWithVni(dev, n, x, y, l)
      BY Zenon
    <3>4. e \in Devices
      BY Zenon, <1>0, <3>3, RemoveLinkWithVniType
    <3>5. InterfacesIn(e, node, q, p, l)
      <4>1. VniDone(RemoveLinkWithVni(dev, n, x, y, l), dev, n, q, p, l)
        BY Zenon, <1>0, <1>6, VniKeeps
      <4> QED BY Zenon, <3>3, <4>1 DEF VniDone
    <3> QED BY Zenon, <1>0, <1>3, <1>6, <3>2, <3>3, <3>4, <3>5
  <2>2. CASE ns = NoNs
    BY Zenon, <1>0, <1>3, <1>6, <2>2
  <2> QED BY Zenon, <2>1, <2>2
<1>8. InterfacesIn(r.dev, node, q, p, l)
  <2>1. VxLanDone(SetupVxLan(d, n, q, g, l, v, fault).dev, d, q, p, l)
    BY Zenon, <1>6, <1>7, VxLanKeeps
  <2> QED BY Zenon, <1>5, <2>1 DEF VxLanDone
<1>9. UNCHANGED <<sbx, node, start, pc, todo, upd, peer, unread, miss>>
  BY Zenon, LateElsewhere
<1>10. InterfacesIn(dev', node', p, q, l)
  BY Zenon, <1>5, <1>8, <1>9, EitherEnd
<1>11. ~Through(p, l) /\ ~Halfway(p, l)
  <2>1. sbx[p] \notin {"adding", "up"}
    BY Zenon DEF LateTold
  <2>2. pc[Cni(p)] \notin Add
    BY Zenon, <1>0, <2>1 DEF Inv, HandlersOK, SandboxOK, TodoOK, Add
  <2> QED BY Zenon, <2>1, <2>2 DEF Through, Halfway, Add
<1>12. /\ Through(p, l)' <=> Through(p, l)
       /\ Halfway(p, l)' <=> Halfway(p, l)
       /\ Ends(p, l)' /\ Ends(q, l)'
  BY Zenon, <1>9, SameEnd DEF Pair
<1> QED BY Zenon, <1>10, <1>11, <1>12, PairOpen

\* The steps of an Update that goes on.
LEMMA LateJoin ==
  ASSUME NEW S \in BOOLEAN, Undisturbed, CrashInv, CrashJoinInv(S),
         NEW u \in late, LateLock(u) \/ LateSetup(u) \/ LateDone(u)
  PROVE  CrashJoinInv(S)'
<1>0. UNCHANGED <<sbx, node, start, pc, todo, upd, peer, unread, miss>>
  BY Zenon, LateElsewhere
<1>1. Calm' /\ TodoOK'
  BY Zenon, <1>0 DEF CrashJoinInv, Calm, TodoOK, Begun
<1>2. \A v \in late' : LateTold(v)'
  BY Zenon, LateToldNext
<1>3. overtaken \subseteq overtaken'
  BY Zenon DEF LateLock, LateSetup, LateSetupWith, LateDone
<1>4. ASSUME NEW p \in Pods, NEW q \in Pods, NEW l \in Links, VirtualLink(p, q, l), l \notin overtaken'
      PROVE  Pair(S, p, q, l)'
  <2>1. Pair(S, p, q, l)
    BY Zenon, <1>3, <1>4 DEF CrashJoinInv
  <2>2. CASE LateLock(u) \/ LateDone(u)
    <3>1. UNCHANGED dev
      BY Zenon, <2>2 DEF LateLock, LateDone
    <3> QED BY Zenon, <1>0, <2>1, <3>1, QuietPairs
  <2>3. CASE LateSetup(u) /\ l # u.link
    BY Zenon, <2>1, <2>3, LateOtherLink
  <2>4. CASE LateSetup(u) /\ l = u.link
    <3>1. start[u.by[1]] = u.from
      BY Zenon, <1>4, <2>4 DEF LateSetup, LateSetupWith
    <3>2. LateTold(u) /\ TodoOK /\ u \in LateUpdate
      BY Zenon DEF CrashJoinInv, CrashInv, LateInv
    <3>3. PICK b \in Pods : b = u.by[1]
      BY <3>2 DEF LateUpdate, Handlers
    <3>4. Has(LinksOf[b], l) /\ u.pod = PeerOf[b][l]
      BY Zenon, <2>4, <3>2, <3>3 DEF LateTold
    <3>5. /\ p # q /\ PeerOf[p][l] = q /\ PeerOf[q][l] = p
          /\ Has(LinksOf[p], l) /\ Has(LinksOf[q], l)
      BY Zenon, <1>4 DEF VirtualLink, Has
    <3>6. (b = p /\ u.pod = q) \/ (b = q /\ u.pod = p)
      BY Zenon, <3>4, <3>5 DEF Undisturbed, Paired
    <3>7. CASE b = p /\ u.pod = q
      BY Zenon, <1>4, <2>1, <2>4, <3>1, <3>2, <3>3, <3>7, LateOwnLink
    <3>8. CASE b = q /\ u.pod = p
      <4>1. VirtualLink(q, p, l) /\ Pair(S, q, p, l)
        BY Zenon, <1>4, <2>1, EitherEnd, PairTurned
      <4>2. Pair(S, q, p, l)'
        BY Zenon, <2>4, <3>1, <3>2, <3>3, <3>8, <4>1, LateOwnLink
      <4> QED BY Zenon, <4>2, PairTurned
    <3> QED BY Zenon, <3>6, <3>7, <3>8
  <2> QED BY Zenon, <2>2, <2>3, <2>4
<1> QED BY Zenon, <1>1, <1>2, <1>4 DEF CrashJoinInv, VirtualLink

-----------------------------------------------------------------------------
\* All the steps of daemons that end.
LEMMA CrashJoinNext ==
  ASSUME NEW S \in BOOLEAN, ~S, Undisturbed, ~Lossy, CrashInv, CrashKnownInv, CrashJoinInv(S),
         [CrashNext]_allVars
  PROVE  CrashJoinInv(S)'
<1>1. UNCHANGED allVars => UNCHANGED vars /\ UNCHANGED crashVars
  BY Zenon DEF allVars
<1>2. \/ [Next]_vars /\ UNCHANGED crashVars
      \/ \E n \in Nodes : Crash(n)
      \/ \E u \in late : LateLock(u) \/ LateSetup(u) \/ LateDone(u)
  BY Zenon, <1>1 DEF CrashNext
<1> QED BY Zenon, <1>2, RunningJoin, CrashJoin, LateJoin

\* addLink and Update in daemons that end between any two of their steps.  Without
\* Lossy every CNI call reads its own pod; with it a daemon whose store is empty
\* passes a pod by.
THEOREM CrashJoinCorrect ==
  ASSUME NEW S \in BOOLEAN, ~S, Undisturbed, ~Lossy
  PROVE  CrashSpec => []CrashJoinInv(S)
<1>1. CrashInit => CrashJoinInv(S)
  <2> SUFFICES ASSUME CrashInit PROVE CrashJoinInv(S)
    BY Zenon
  <2>1. JoinInv(S) /\ late = {}
    BY Zenon, InitJoin DEF CrashInit
  <2> QED BY Zenon, <2>1 DEF JoinInv, CrashJoinInv
<1>2. CrashInv /\ CrashKnownInv /\ CrashJoinInv(S) /\ [CrashNext]_allVars => CrashJoinInv(S)'
  BY Zenon, CrashJoinNext
<1> QED BY <1>1, <1>2, CrashCorrect, CrashKnownCorrect, PTL DEF CrashSpec

\* A daemon that ends between any two steps of addLink, Update and SetAlive leaves
\* nothing behind that keeps two pods that are up apart, but for an Update that
\* overtakes the next sandbox of its caller's pod.
THEOREM JoinedSurvives ==
  ASSUME Undisturbed, ~Lossy
  PROVE  CrashSpec => []JoinedAfterCrash
<1>1. PICK S \in BOOLEAN : ~S
  BY Zenon
<1>2. CrashJoinInv(S) => JoinedAfterCrash
  <2> SUFFICES ASSUME CrashJoinInv(S), NEW p \in Pods, NEW q \in Pods, NEW l \in Links,
                      VirtualLink(p, q, l), BothUp(p, q),
                      "stale" \notin {miss[p][l], miss[q][l]}, l \notin overtaken
               PROVE  Joined(p, q, l)
    BY Zenon DEF JoinedAfterCrash
  <2>1. Pair(S, p, q, l)
    BY Zenon DEF CrashJoinInv
  <2> QED BY Zenon, <2>1 DEF Pair, Linked, Through, BothUp
<1>3. CrashSpec => []CrashJoinInv(S)
  BY Zenon, <1>1, CrashJoinCorrect
<1> QED BY <1>2, <1>3, PTL
=============================================================================
