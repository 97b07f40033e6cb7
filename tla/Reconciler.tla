----------------------------- MODULE Reconciler -----------------------------
(***************************************************************************)
(* The controller's reconcile loop for one Topology object                 *)
(* (controllers/topology_controller.go): the user edits spec.links, the    *)
(* controller compares them with status.links, sends the difference to the *)
(* daemon of the pod's node and copies spec.links to status.links.         *)
(*                                                                         *)
(* Every read of the controller is a read of its cache, which follows the  *)
(* API server with a delay.  controller-runtime queues the object when the *)
(* cache changes or a reconcile fails, and runs one reconcile of an object *)
(* at a time.  The CNI plugin sets the pod up while all this goes on.      *)
(***************************************************************************)
EXTENDS LinkDiff, Integers

CONSTANTS
  Nil,          \* a nil list: the field is absent from the object
  First,        \* spec.links as the user creates the object
  Specs,        \* the lists the user may edit spec.links to
  NoProp,       \* the properties that need no qdisc
  RetrySteps,   \* the attempts RetryOnConflict makes
  Running,      \* the pod has been set up and recorded before the behaviour starts
  MaxEdits,     \* bound: edits by the user
  MaxFails,     \* bound: calls to the daemon that fail
  MaxTouches    \* bound: writes that leave the links alone

ASSUME ReconcilerAssumption ==
  /\ Nil \notin Seq(Link)
  /\ NoLink \notin Link
  /\ First \in Seq(Link)
  /\ Specs \subseteq Seq(Link) \cup {Nil}
  /\ NoProp \in Props
  /\ RetrySteps \in Nat \ {0}
  /\ Running \in BOOLEAN
  /\ MaxEdits \in Nat
  /\ MaxFails \in Nat
  /\ MaxTouches \in Nat

VARIABLES
  api,       \* the versions of the object, the last one is current
  cache,     \* the version in the controller's cache
  queued,    \* the object is in the controller's work queue
  pc,        \* where the reconcile is
  topology,  \* the object Reconcile read first
  diff,      \* the difference Reconcile computed
  todo,      \* the links of the current call the daemon has yet to treat
  got,       \* the version the status update read
  att,       \* failed attempts at the status update
  net,       \* the interfaces of the pod
  pod,       \* how far the CNI plugin is with the pod
  podLinks,  \* the links SetupPod read
  risk,      \* history: what happened that may leave the links unlike the spec
  edits, fails, touches

reconcileVars == <<pc, topology, diff, todo, got, att>>
podVars == <<pod, podLinks>>
bounds == <<edits, fails, touches>>
vars == <<api, cache, queued, reconcileVars, net, podVars, risk, bounds>>

Links == Seq(Link) \cup {Nil}
Topology == [spec : Links, status : Links, alive : BOOLEAN]
Calls == {"del", "add", "changed"}

Current == api[Len(api)]
List(links) == IF links = Nil THEN <<>> ELSE links
Accept(t) == api' = Append(api, t)

\* The locals of Reconcile when it is not running.
NoTopology == [spec |-> Nil, status |-> Nil, alive |-> FALSE]
NoDiff == [c \in Calls |-> <<>>]

Init ==
  /\ api = <<[spec |-> First, status |-> IF Running THEN First ELSE Nil,
              alive |-> Running]>>
  /\ cache = 1
  /\ queued = ~Running
  /\ pc = "idle"
  /\ topology = NoTopology
  /\ diff = NoDiff
  /\ todo = <<>>
  /\ got = 1
  /\ att = 0
  /\ net = IF Running THEN Wanted(First) ELSE [i \in Intfs |-> NoLink]
  /\ pod = IF Running THEN "up" ELSE "down"
  /\ podLinks = <<>>
  /\ risk = {}
  /\ edits = 0 /\ fails = 0 /\ touches = 0

-----------------------------------------------------------------------------
(* The surroundings: the user, the watch of the cache, the CNI side.       *)

Idle == pc = "idle" /\ ~queued /\ cache = Len(api)
Settled == Idle /\ pod = "up"

\* The last edit has been reconciled, in every respect.
Made == Settled /\ Current.spec = Current.status

\* An edit is hasty when the one before it is still being reconciled.
Edit(s) ==
  /\ edits < MaxEdits
  /\ s # Current.spec
  /\ Accept([Current EXCEPT !.spec = s])
  /\ edits' = edits + 1
  /\ risk' = risk \cup (IF Made THEN {} ELSE {"hasty"})
                   \cup (IF Current.status = Nil THEN {"refilled"} ELSE {})
  /\ UNCHANGED <<cache, queued, reconcileVars, net, podVars, fails, touches>>

\* The watch delivers a later version, versions in between may be skipped.
Watch ==
  /\ \E v \in cache + 1 .. Len(api) : cache' = v
  /\ queued' = TRUE
  /\ UNCHANGED <<api, reconcileVars, net, podVars, risk, bounds>>

\* A write that leaves the links alone: the CNI side's to the status and the
\* finalizers, the user's to the metadata.
Touch ==
  /\ touches < MaxTouches
  /\ Accept(Current)
  /\ touches' = touches + 1
  /\ UNCHANGED <<cache, queued, reconcileVars, net, podVars, risk, edits, fails>>

\* SetupPod, by its effects: it reads the links from the daemon's store,
\* which may lag behind, ...
SetupGet ==
  /\ pod = "down"
  /\ \E v \in 1 .. Len(api) : api[v].spec # Nil /\ podLinks' = api[v].spec
  /\ pod' = "get"
  /\ UNCHANGED <<api, cache, queued, reconcileVars, net, risk, bounds>>

\* ... without a list the pod is taken to be outside the topology and passed by ...
SetupPassBy ==
  /\ pod = "down"
  /\ \E v \in 1 .. Len(api) : api[v].spec = Nil
  /\ pod' = "up"
  /\ UNCHANGED <<api, cache, queued, reconcileVars, net, podLinks, risk, bounds>>

\* ... SetAlive records the pod's place in the status ...
SetupAlive ==
  /\ pod = "get"
  /\ Accept([Current EXCEPT !.alive = TRUE])
  /\ pod' = "alive"
  /\ UNCHANGED <<cache, queued, reconcileVars, net, podLinks, risk, bounds>>

\* ... and AddLinks adds the links it read, one after the other.
SetupLink ==
  /\ pod = "alive"
  /\ podLinks # <<>>
  /\ net' = AddLink(net, Head(podLinks))
  /\ podLinks' = Tail(podLinks)
  /\ UNCHANGED <<api, cache, queued, reconcileVars, pod, risk, bounds>>

SetupDone ==
  /\ pod = "alive"
  /\ podLinks = <<>>
  /\ pod' = "up"
  /\ UNCHANGED <<api, cache, queued, reconcileVars, net, podLinks, risk, bounds>>

-----------------------------------------------------------------------------
(* Reconcile.                                                              *)

reconcileOnly == <<api, cache, podVars, edits, touches>>

\* Mutant: an error does not put the object back.
ReturnForgets(err) ==
  /\ pc' = "idle"
  /\ topology' = NoTopology
  /\ diff' = NoDiff
  /\ todo' = <<>>
  /\ got' = 1
  /\ att' = 0
  /\ UNCHANGED queued

\* The end of Reconcile: with an error the object goes back to the queue.
Return(err) ==
  /\ pc' = "idle"
  /\ topology' = NoTopology
  /\ diff' = NoDiff
  /\ todo' = <<>>
  /\ got' = 1
  /\ att' = 0
  /\ queued' = (queued \/ err)

\* Mutant: the links are added before the old ones are deleted.
CallsAddFirst == <<"add", "del", "changed">>

CallOrder == <<"del", "add", "changed">>

Position(c) == CHOOSE i \in 1 .. 3 : CallOrder[i] = c

\* The next call, from position k on and skipping those without links, or the update
\* of the status.
Proceed(d, k) ==
  \/ /\ \A i \in k .. 3 : d[CallOrder[i]] = <<>>
     /\ pc' = "read"
     /\ todo' = <<>>
  \/ \E i \in k .. 3 :
       /\ d[CallOrder[i]] # <<>>
       /\ \A j \in k .. i - 1 : d[CallOrder[j]] = <<>>
       /\ pc' = CallOrder[i]
       /\ todo' = d[CallOrder[i]]

\* Mutant: the object is queued again whatever its links.
ReconcileSameAgain ==
  /\ pc = "idle"
  /\ queued
  /\ api[cache].status = api[cache].spec
  /\ UNCHANGED vars

\* Reconcile reads the object: its links are recorded, nothing to do ...
ReconcileSame ==
  /\ pc = "idle"
  /\ queued
  /\ api[cache].status = api[cache].spec
  /\ queued' = FALSE
  /\ UNCHANGED <<reconcileOnly, reconcileVars, net, risk, fails>>

\* ... they have never been recorded, on to the update of the status ...
ReconcileFirst ==
  /\ pc = "idle"
  /\ queued
  /\ api[cache].status = Nil
  /\ api[cache].spec # Nil
  /\ queued' = FALSE
  /\ topology' = api[cache]
  /\ pc' = "read"
  /\ UNCHANGED <<reconcileOnly, diff, todo, got, att, net, risk, fails>>

\* ... or they have changed.
ReconcileChanged ==
  /\ pc = "idle"
  /\ queued
  /\ api[cache].status # Nil
  /\ api[cache].status # api[cache].spec
  /\ queued' = FALSE
  /\ topology' = api[cache]
  /\ diff' = CalcDiff(List(api[cache].status), List(api[cache].spec))
  /\ Proceed(diff', 1)
  /\ UNCHANGED <<reconcileOnly, got, att, net, risk, fails>>

\* The daemon treats one link of a call.  Without an interface there is nothing
\* to shape, which is no error only when nothing is asked for.
DaemonStep ==
  /\ pc \in Calls
  /\ topology.alive
  /\ todo # <<>>
  /\ LET a == Head(todo)
     IN  \/ pc = "del" /\ net' = DelLink(net, a)
         \/ pc = "add" /\ net' = AddLink(net, a)
         \/ pc = "changed" /\ net[a.intf] # NoLink /\ net' = UpdateLink(net, a)
         \/ pc = "changed" /\ net[a.intf] = NoLink /\ a.prop = NoProp /\ net' = net
  /\ todo' = Tail(todo)
  /\ UNCHANGED <<reconcileOnly, queued, pc, topology, diff, got, att, risk, fails>>

\* The daemon answers, with every link treated.
CallReturns ==
  /\ pc \in Calls
  /\ topology.alive
  /\ todo = <<>>
  /\ Proceed(diff, Position(pc) + 1)
  /\ UNCHANGED <<reconcileOnly, queued, topology, diff, got, att, net, risk, fails>>

\* A call that fails ends Reconcile.  It is redone when there was nothing left to do.
CallFailed(more) ==
  /\ Return(TRUE)
  /\ risk' = risk \cup more \cup (IF Current.status = Current.spec THEN {"redone"} ELSE {})
  /\ UNCHANGED reconcileOnly

\* There is no daemon at the empty address of a pod that is not alive.
NoDaemon ==
  /\ pc \in Calls
  /\ ~topology.alive
  /\ CallFailed({})
  /\ UNCHANGED <<net, fails>>

\* There is no interface to shape.
NoInterface ==
  /\ pc = "changed"
  /\ topology.alive
  /\ todo # <<>>
  /\ net[Head(todo).intf] = NoLink
  /\ Head(todo).prop # NoProp
  /\ CallFailed({})
  /\ UNCHANGED <<net, fails>>

\* The daemon or the connection fails at any point of the list, the answer included.
CallFails ==
  /\ pc \in Calls
  /\ topology.alive
  /\ fails < MaxFails
  /\ fails' = fails + 1
  /\ CallFailed({})
  /\ UNCHANGED net

\* The qdiscs of a new interface, or the new ones of an interface, cannot be set,
\* after the interface has been made, or the old qdiscs have been cleared.  Making
\* a vxlan again sets its qdiscs again, making a veth pair again does not.
QdiscsFail ==
  /\ pc \in {"add", "changed"}
  /\ topology.alive
  /\ todo # <<>>
  /\ fails < MaxFails
  /\ fails' = fails + 1
  /\ LET a == Head(todo)
         bare == [a EXCEPT !.prop = NoProp]
     IN  /\ a.prop # NoProp
         /\ \/ /\ pc = "add" /\ a.id \notin Tunnels /\ net[a.intf] = NoLink
               /\ net' = AddLink(net, bare)
               /\ CallFailed({"unshaped"})
            \/ /\ pc = "add" /\ a.id \in Tunnels
               /\ net' = AddLink(net, bare)
               /\ CallFailed({})
            \/ /\ pc = "changed" /\ net[a.intf] # NoLink
               /\ net' = UpdateLink(net, bare)
               /\ CallFailed({})

\* The status update: the object is read again, from the cache ...
StatusRead ==
  /\ pc = "read"
  /\ got' = cache
  /\ pc' = "write"
  /\ UNCHANGED <<reconcileOnly, queued, topology, diff, todo, att, net, risk, fails>>

\* ... and written with the links of ITS spec.
StatusWrite ==
  /\ pc = "write"
  /\ got = Len(api)
  /\ Accept([api[got] EXCEPT !.status = api[got].spec])
  /\ Return(FALSE)
  /\ UNCHANGED <<cache, podVars, edits, touches, net, risk, fails>>

\* Mutant: one attempt too many.
ConflictOnceMore ==
  /\ pc = "write"
  /\ got # Len(api)
  /\ \/ /\ att < RetrySteps
        /\ att' = att + 1
        /\ pc' = "read"
        /\ UNCHANGED <<queued, topology, diff, todo, got>>
     \/ /\ att = RetrySteps
        /\ Return(TRUE)
  /\ UNCHANGED <<reconcileOnly, net, risk, fails>>

StatusConflict ==
  /\ pc = "write"
  /\ got # Len(api)
  /\ \/ /\ att + 1 < RetrySteps
        /\ att' = att + 1
        /\ pc' = "read"
        /\ UNCHANGED <<queued, topology, diff, todo, got>>
     \/ /\ att + 1 = RetrySteps
        /\ Return(TRUE)
  /\ UNCHANGED <<reconcileOnly, net, risk, fails>>

ReconcileStep ==
  \/ ReconcileSame
  \/ ReconcileFirst
  \/ ReconcileChanged
  \/ DaemonStep
  \/ CallReturns
  \/ NoDaemon
  \/ NoInterface
  \/ CallFails
  \/ QdiscsFail
  \/ StatusRead
  \/ StatusWrite
  \/ StatusConflict

SetupStep ==
  \/ SetupGet
  \/ SetupPassBy
  \/ SetupAlive
  \/ SetupLink
  \/ SetupDone

\* Nothing is left to do until the user edits again.
Rest == Idle /\ UNCHANGED vars

Next ==
  \/ \E s \in Specs : Edit(s)
  \/ Watch
  \/ Touch
  \/ SetupStep
  \/ ReconcileStep
  \/ Rest

Spec == Init /\ [][Next]_vars

\* The work queue is served, the watch delivers and the kubelet starts the pod.
\* Without SF for a call that succeeds: the failures are bounded.
FairSpec ==
  /\ Spec
  /\ WF_vars(Watch)
  /\ WF_vars(SetupStep)
  /\ WF_vars(ReconcileStep)

-----------------------------------------------------------------------------
(* Properties.                                                             *)

\* Every variable has its type.
TypeOK ==
  /\ api \in Seq(Topology) /\ api # <<>>
  /\ cache \in 1 .. Len(api)
  /\ got \in 1 .. Len(api)
  /\ queued \in BOOLEAN
  /\ pc \in Calls \cup {"idle", "read", "write"}
  /\ topology \in Topology
  /\ diff \in [Calls -> Seq(Link)]
  /\ todo \in Seq(Link)
  /\ att \in 0 .. RetrySteps - 1
  /\ net \in Interfaces
  /\ pod \in {"down", "get", "alive", "up"}
  /\ podLinks \in Seq(Link)
  /\ risk \subseteq {"hasty", "refilled", "redone", "unshaped"}
  /\ edits \in 0 .. MaxEdits
  /\ fails \in 0 .. MaxFails
  /\ touches \in 0 .. MaxTouches

\* The desired state is reached: when the reconcile loop has come to rest and the
\* pod is up, its interfaces are the ones spec.links asks for.
DesiredState == Settled => net = Wanted(List(Current.spec))

\* The desired state is reached, through stale reads of the cache, calls that failed
\* half way or lost their answer and were made again, and conflicts with the CNI side,
\* when every edit was made after the one before it had been reconciled, the list had
\* been filled before, no call failed that did again what had already been recorded,
\* and none between making a veth pair and shaping it.
DesiredUnlessRisked == risk = {} => DesiredState

\* At rest the status records the spec: no edit is forgotten by the work queue.
RestsRecorded == Idle => Current.status = Current.spec

\* Under the same proviso the loop comes to rest: it does not fail for ever on a
\* property of an interface that does not exist, nor queue itself for ever.
ComesToRest == <>[](Settled \/ risk # {})
=============================================================================
