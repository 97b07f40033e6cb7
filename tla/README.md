# Verification of kube-dtn

TLA+ modules for kube-dtn: the network-emulation operator whose `Topology`
objects describe, per pod, the links to other pods; whose daemons, one per node,
make those links from veth pairs and VXLAN interfaces; and whose controller
brings running links in line with edited objects. The modules are checked with
TLC on small instances. The safety properties of the state machines are also
proved with TLAPS for every value of the constants: of the daemons, with and
without crashes, of a node's configuration and bypass, of shaping, of the gRPC
wires and of the reconcile loop; and so is that the daemons implement the promise
of the link mutexes.

## The system and its parts

| part | source | what it does |
|---|---|---|
| Topology object | `api/v1/topology_types.go` | `spec.links` (the user), `status.src_ip`/`net_ns` (the daemon: alive or not), `status.links` (the controller), finalizers |
| CNI plugin | `plugin/kube_dtn.go` | the kubelet's ADD and DEL of a sandbox become `SetupPod` and `DestroyPod` of the local daemon |
| daemon handlers | `daemon/kubedtn/handler.go` | `SetupPod`, `DestroyPod`, `SetAlive`, `AddLinks`, `DelLinks`, `UpdateLinks`, and `Update`, called by the daemon of another node |
| informer store | `daemon/kubedtn/kubedtn.go` | a local copy of all objects that follows the API server with a delay; `getPod` returns pointers into it |
| interfaces | `common/veth.go`, `daemon/vxlan/vxlan.go` | veth pairs on one node, VXLAN across nodes (VNI = 5000 + uid) |
| link mutexes, vxlan manager | `common/utils.go`, `daemon/vxlan/manager.go` | one mutex per link and node; which namespace holds a VNI |
| topology manager, metrics | `daemon/metrics/` | the pods whose interfaces are measured |
| shaping | `common/qdisc.go` | netem, tbf and the program against the TCP/IP bypass |
| controller | `controllers/topology_controller.go` | compares spec and status, calls the pod's daemon, records the result |
| gRPC wires | `daemon/grpcwire/grpcwire.go` | an alternative to VXLAN reached only by its own RPCs |
| TCP/IP bypass | `bpf/` | eBPF programs that short-cut local connections |
| CNI configuration, start | `daemon/cni/cni.go`, `daemon/main.go` | the files the kubelet reads, written by a daemon that starts |
| CLI, metrics endpoint, controller start | `cmd`, `daemon/metrics`, `main.go` | printing, counters, flags |

Two pods of a link never talk to each other. Whichever comes up second is to find
the first alive in its store and to make both ends: directly on one node, with an
`Update` call to the other daemon across nodes. All of this runs concurrently:
the handlers of different pods, the `Update` calls of other nodes, and the
controller's calls for edited objects.

## Modules

| module | models | state |
|---|---|---|
| `TopologyStore` | API server and informer stores | `hist[p]`, all versions of an object; `store[n][p]`, what node n's informer has |
| `PodDevices` (extends it) | namespaces and interfaces | `node`, `start` (generation of a pod's namespace), `dev[p][l]` |
| `Daemon` (extends it) | the handlers on all nodes | program counter, local pod, peer and remaining links per handler; mutexes, vxlan managers, topology managers |
| `LinkSections` | what the link mutexes promise: one worker in the section of a link on a node | `inside[n][l]` |
| `DaemonSections` (extends `Daemon`) | the mapping of `Daemon` to `LinkSections` (`INSTANCE ... WITH`) | none |
| `DaemonCrash` (extends it) | daemons that end at any step and start again | crashes, Updates without a caller (`late`), what `Init` of the topology manager found |
| `LinkDiff` | `CalcDiff`, and the effect of the three calls on a pod's interfaces, veth pairs or vxlans (`Tunnels`) | none: operators |
| `Reconciler` (extends it) | `Reconcile` for one object, with cache, work queue, user, daemon calls and the pod's setup | versions, cached version, locals of `Reconcile`, interfaces |
| `Qdiscs` | `SetVethQdiscs` on one interface by concurrent callers | the qdiscs of the interface, one call per handler |
| `Conversions` | rates, durations, bursts and VNIs with their integer widths | none: operators |
| `GrpcWire` | the wires of one daemon: handlers, wire map, veth pairs, receive threads, restart | the maps of `wireMap`, interfaces, threads counted per state, locals per handler |
| `Frames` | the arithmetic of `DecodeFrame` and `DecodePkt` | none: operators |
| `Lifecycle` | `main` of the daemon and the CNI files | where `main` is, the two files, what was loaded |
| `Bypass` | `sockops.c`, `redir.c`, `redir_disable.c` and their maps | which programs are attached, the sockets and what they are connected to, the maps, packets on their way, the sockets whose packets pass `redir_disable.c` |
| `Node` (extends both) | the composition: `LoadProgram` attaches, the end of a process detaches `sockops.c`, maps, files and `redir.c` stay | |
| `MCDaemon`, `MCDaemonCrash`, `MCAlgorithms`, `MCReconciler`, `MCQdiscs`, `MCGrpcWire`, `MCNode` | instances for TLC; `MCAlgorithms` enumerates the inputs of `LinkDiff`, `Conversions` and `Frames` | |
| `DaemonProofs`, `DaemonLockProofs`, `DaemonJoinProofs`, `DaemonCrashProofs`, `NodeProofs`, `QdiscsProofs`, `GrpcWireProofs`, `ReconcilerProofs` | lemmas and theorems about `Daemon`, `DaemonSections` and `DaemonCrash`, `Node`, `Qdiscs` and `Conversions`, `GrpcWire`, `LinkDiff` and `Reconciler` | |

Operators named `...Locked`, `...Forgets`, `...Peer` and so on, marked
"Mutant:" in their comment, are plausible mistakes in the definition they
precede. No specification uses them; put in place of that definition, each
violates the property it was written for.

### Daemon

A handler is `<<pod, caller>>`: the kubelet makes one CNI call per pod at a time
("cni"), the controller runs one reconcile per object ("ctl"). Steps are cut
where another process can be observed: every read of the store, every request to
the API server, every acquisition of a mutex, the changes made under it, and the
remote call. So `SetAlive` is `SetAliveRead` (the read, the topology manager, the
assignments to the cached object), `SetAliveWrite`/`Conflict`/`Error` (the answer
of `UpdateStatus`) and `SetFinalizer` (the second loop). `addLink` is one of
`AddLinkError`, `AddLinkMacVlan`, `AddLinkPhysical`, `AddLinkSkip`,
`AddLinkAlive`, then `LockForVeth`/`PlumbVeth` or
`LockForVxLan`/`PlumbVxLan`/`CallUpdateRemote`/`UpdateReturns`. `Update` is
`UpdateLock`, `UpdateSetup`, `UpdateDone`. `delLink`, which takes no mutex, is
`DelLinkRemove`, `DelLinkGet`, `DelLinkDelete`. A namespace path is a pod and a
generation, so that a stale path is one that no longer exists.

The history variables `miss` and `unread` exist only for the properties. `miss`
records that a pod left a link to its peer, and whether its store was then behind
the API server. `unread` marks pods whose object could not be read.

### DaemonCrash

`Crash(n)` ends the process of node n between any two steps and starts it again:
the calls it was answering break, and `cmdAdd`/`cmdDel` return the error
(`CallBreaks`); an `Update` it was running for another daemon answers with an error
whether it was done or not (`UpdateBreaks`); its mutexes, managers and store are
what `New` makes (`FreshMutexes`, `VxlanManagerInit`, `TopologyManagerInit`,
`FreshStore`). An `Update` it had called on another node goes on without it, in
the steps `LateLock`, `LateSetup`, `LateDone`; as in `Daemon`, its `SetupVxLan` may fail,
before or after the vxlan was made, and the `Update` then ends. `VxlanManagerInit` keeps the
aliasing of the loop variable: all entries name the topology listed last.
A request to the API server is processed before the crash or never. The history
variable `overtaken` marks links that a late `Update` set up for a sandbox that
was gone.

### Reconciler

`ReconcileSame`, `ReconcileFirst` and `ReconcileChanged` are the three ways
through the first half of `Reconcile`. The calls go to the daemon in the order
`CallOrder`, and the daemon treats one link per `DaemonStep`. `StatusRead`,
`StatusWrite` and `StatusConflict` are the retry loop of the status update. The
history variable `risk` records the four situations in which the code as it is
may rest in another state than the desired one:

- `hasty`: an edit before the previous one was reconciled (finding 2);
- `refilled`: links added to an object whose status was nil, which `Reconcile`
  assumes to have been set up;
- `redone`: a call failed that repeated, from a stale cache, what was recorded;
- `unshaped`: a call failed between making a veth pair and shaping it; the
  repetition finds the pair and returns (`veth.go:73`). For a vxlan it is no risk:
  `SetupVxLan` finds the interface and sets its qdiscs again.

### Qdiscs

The three handlers that reach `SetVethQdiscs`. `addLink` and `Update` hold the
mutex of the link, `UpdateLinks` does not. An `Update` from another node does not
carry the setting of the bypass and adds no program. Listing, each deletion and
each addition is a step of its own.

### GrpcWire

A handler of the wire RPCs looks a wire up, makes the pair, files the wire and
starts its thread in separate steps, holding the mutex of the wire map only
inside each. `RemoveVeth` and `RemoveVethAgain` are the two removals of
`RemoveWire`. What panics or calls `Fatalf` ends the daemon (`up`): a handler or
a receive thread that cannot open the interface, a removal that finds the channel
closed or the interface gone, and a large frame on which `DecodeFrame` (`Frames`) passes
the end of its slice; `Restart` starts it
with empty maps and an index from the beginning, while the interfaces stay. A
receive thread opens its handle, waits for a frame or the closed channel, and
delivers the frame.

### Node

`Lifecycle` has one action per step of `main` at which the process can fail or be
killed; writing a file truncates it in one step and fills it in the next.
`LoadProgram` attaches `redir.c`, then `sockops.c`; that either cannot be attached is
only printed, and the daemon goes on.

`Bypass` has one action per callback, and two for `redir.c`, which reads the flag
and writes it later, with `redir_disable.c` in between on another processor. A
client dials a server or a cluster address behind which there are several; `end`
says which sockets are connected, which the programs do not know. They know what
the client has dialled from its record in `map_active_estab`. `SetVethQdiscs` clears
an interface (`ClearVethQdiscs`) and puts `redir_disable.c` on it (`AddBpf`) only if the
bypass is on. History variables: `covered` has the sockets that have passed
`redir_disable.c` ever since they were off the bypass, `missed` the clients whose
connections `sockops.c` has lost track of, by a second connection of one address or by
a recorded socket that closed while nothing was attached.

## Runs

| run | instance | shows |
|---|---|---|
| `DaemonRestart` | 2 pods, 1 link, 2 nodes; one pod destroyed and set up again on either node; stores lag by up to two versions | joined once both are up unless a stale store made one skip, and on one node in any case; stale ends, VTEPs and VNIs are replaced; mutual exclusion; the vxlan manager knows every vxlan |
| `DaemonStatus` | 1 pod with a physical and a macvlan link; unsynced informer, unreachable API server, failing link, 1 foreign write, 1 call of the controller | status and topology manager tell the truth |
| `DaemonCalls` | 2 pods on 2 nodes, requests may be lost | no holding while waiting; both skip their link only on stale news; every call returns (liveness); refinement of `LinkSections` |
| `DaemonCrash` | 2 pods, 2 nodes, 1 crash, a pod whose call broke started once more | joined after crashes, status truthful, metrics miss no pod; refinement of `LinkSections` with late Updates |
| `Algorithms` | all pairs of lists of up to 2 links, over veth pairs and vxlans; texts, uids and frames about the edges | the difference brings about the new list and disturbs nothing that stays; rates, times and frames come out as they should within the stated ranges, and for which uids VNIs and mutexes meet |
| `Reconciler` | new object and pod setup, a veth pair and a vxlan, 2 edits, 1 failing call, 1 foreign write | comes to rest, with the spec recorded, and applied unless at risk |
| `Qdiscs` | 3 handlers, 3 calls, 1 failing system call, 2 values | a successful call leaves what it asked for |
| `GrpcWire` | 2 pods, 1 link, 2 concurrent handlers, 2 pairs, 2 threads, 1 restart | wires are filed for the links they were made for, nothing is orphaned, removals that succeed have removed, stopped threads end |
| `Node` | 1 client, a server here, dialled directly or behind a cluster address with one elsewhere, 2 processes | the kubelet's configuration, connections through `redir_disable.c` leave the bypass, redirection reaches the socket at the other end |
| `DaemonMissedLink`, `ReconcilerLostEdit`, `GrpcWireRemove` | a small instance each | the findings below (violations) |

Why the bounds are enough to be of use: a link has two ends, so two pods and two
nodes give every placement (same node, different nodes, moved by a restart).
Two attempts of `RetryOnConflict` (`DaemonStatus`) include success after a conflict
and giving up; elsewhere one attempt is made, so that a stale store means giving up.
One restart gives an old and a new generation of a namespace, of an object and of
a vxlan. Two edits are the least for an edit during a reconcile; one failing call
and one foreign write each hit every point of the loop. With one vxlan per VNI a
link shares no state with another except through its pod's object and its order
in the list. Two versions of lag (`TwoBehind` in `DaemonRestart`) are the least with
which a store can name the place of the old sandbox when the new one is set up: the
write of `DestroyPod` and that of the next `SetupPod`, where writes of the finalizer
were lost to conflicts. What larger instances could add are chains of failures, and links of
three pods that fail one after another; the theorems have them.

`DaemonCrash` has one crash (`MaxCrashes`), which with the repeated `SetupPod`
covers every pair of a broken and a repeated step. Two bounds keep it finite in
practice (`BoundedSpec` in `MCDaemonCrash`): a synced store is served before anything
else happens (`Prompt` with `MaxLag = 0`; the empty store of a new process may stay
empty), and a pod that is up stays up (`KeepUp`). Crashes together with lagging stores
and with pods destroyed after they were up are beyond the run; the theorems about
`CrashSpec` include them.
`SameNodeJoined` is not among its properties: a new process whose store is still
empty takes a pod of its own node for dead, and the run would refute it. In `GrpcWire`, two pairs
(`MaxIfs`) and two names (`MaxIndex`) are the least for a name that collides
after a restart (`MaxRestarts`), two threads (`MaxThreads`) for a wire with two
receivers. In `Node`, two processes (`MaxLives`) are the least for files and maps
that a process left to the next, and one packet on its way per socket (`MaxStack`)
is what the flag can race with; one client with two addresses to dial (`Dialled`) has
every pair of concurrent connections that share its record. In `Algorithms` the
widths of the integers are scaled down (16 and 12 bits for 64 and 32), and the bases
of the prefixes with them (10 and 16 for 1000 and 1024), so that numbers with each
prefix from `k` to `g` lie on both sides of the widths.

`Algorithms` and the two runs of `GrpcWire` have no deadlock check: the first
enumerates inputs and stops, the others stop when the daemon is down and has used
up its restarts. Elsewhere a state without work takes the step `Quiet` or `Rest`,
whose guard requires that nothing is running, or some connection can still change.

Symmetry (of the nodes) is used in `DaemonRestart` and `DaemonCrash`, which check
invariants and one step property, with constants that treat the nodes alike.

### Fairness

`FairSpec` of `Daemon` has weak fairness of each handler's steps (the scheduler
runs a goroutine that can run) and strong fairness of acquiring a mutex (Go's
mutex hands over to a starving waiter). Nothing is assumed of the kubelet, the
controller or the informers. `FairSpec` of `Reconciler` has weak fairness of the
watch, of the pod's setup and of the reconcile steps (controller-runtime serves
its queue and delivers events). `FairSpec` of `GrpcWire` has weak fairness of a
removal's and a thread's own steps and strong fairness of a thread taking the
closed channel: `select` picks at random among ready cases, and a closed channel
stays ready. That a delivery returns rests on gRPC reporting a broken connection.
Nothing is assumed of frames arriving. Failures are bounded, not unfair.

## Findings

1. `DaemonMissedLink`: two pods that come up together on two nodes can each
   read the other as not alive and both leave the link to the other
   (`handler.go:389`; the comment at 392 assumes the peer does the plumbing).
   `MissOnce`, proved, says this takes a store that lags.
2. `ReconcilerLostEdit`: the status update records the spec of a later read than
   the one that was applied (`topology_controller.go:136`).
3. `GrpcWireRemove`: `RemoveWire` removes the veth link twice
   (`grpcwire.go:246`); the second removal fails and the wire stays registered,
   while `handler.go:537` says of `DestroyPod` that it removes all GRPC wires.

Divergences met while modelling, which the properties state as exceptions or
bounds and which have no run of their own:

- `delLink` changes the vxlan manager without the mutex `manager.go:15` counts on:
  `VxmTracks` is checked without calls of the controller (`MaxCtl = 0`).
- `DestroyPod` empties the namespace before `DelLinks` (`handler.go:572`) and so
  removes no link; the next `SetupPod` copes (`JoinedUnlessStale`).
- A repeated `addLink` leaves the veth pair a failed one made unshaped (`veth.go:73`):
  `unshaped` in `DesiredUnlessRisked`.
- `TopologyManager.Init` files pods by name, `Add` and `Delete` by namespace and
  name: pods found at start stay in the metrics. `MetricsFind` is the half of
  `MetricsTrack` that survives a restart.
- A late `Update` of a dead caller may overwrite a newer one: `overtaken` in
  `JoinedAfterCrash`.
- An object whose status has no links is taken for one seen for the first time
  (`topology_controller.go:84`: "assume all links in spec have been set up"). After all
  links were removed this is so again, and links added then are recorded and never
  made: `refilled` in `DesiredUnlessRisked`.
- The pattern of a rate (`topology_types.go:145`) admits decimals, which `ParseRate`
  (`qdisc.go:194`) refuses when the link is made: `RatesKept` is about rates without, and
  states nothing of the others.
- A latency of 2^32 microseconds or more wraps round (`qdisc.go:157`): 2h, in units
  that `topology_types.go:121` admits, becomes 48m25s. So do a rate whose number of bits
  passes 2^64 and a burst that passes 2^32. `TimesKept` and `RatesKept` are about those that
  do not.
- Uids from 2^31 on do not come back from their VNI, so that `addLink` and `Update`
  would lock different mutexes: `VnisDistinct` says for which they do. The kernel's
  VNIs have 24 bits, so no such vxlan is made.
- `DecodeFrame` cuts what is left of a frame by the total decoded so far
  (`grpcwire.go:484`), and `DecodePkt` measures IPv6 packets 40 bytes short and of a kind it
  does not know only the Ethernet header. On such frames, and on three packets, a
  slice may pass the end and the daemon end, where `grpcwire.go:446` says "Do not drop
  these packets": `FramesDecoded` is about one or two packets of kinds measured right.
- `map_active_estab` has one record per local address and keeps the one it has
  (`sockops.c:23`): a second connection of an address may be joined in `map_proxy` with a
  socket it is not connected to, which `maps.h:22` says is the "other side". `missed` in
  `RedirectsToPeer` names the clients.
- An interface is shaped and has no `redir_disable.c` if the bypass was off, if an
  `Update` from another node shaped it, or if `AddBpf` failed; and a connection that was
  redirected before its interface was shaped sends nothing through the program. Both
  stay on the bypass: `covered` in `ShapedLeavesBypass` leaves them out.
- A daemon that starts truncates `00-kubedtn.conflist`: `ServingInstalled` is
  about a daemon that serves, not about the time before.

## Proofs

The theorems hold for any pods, nodes, links, handlers, values, faults and bounds
that satisfy the named assumptions of the modules: `StoreAssumption`,
`LinkAssumption`, `DaemonAssumption`, `CrashAssumption`, `LifecycleAssumption`,
`BypassAssumption`, `QdiscsAssumption`, `ConversionsAssumption`, `WireConstants` and
`ReconcilerAssumption` (types of the constants, and that different kinds of names
differ). TLC evaluates each of them in a run. A theorem that needs more says so
after `ASSUME`. The inductive invariants about links, mutexes, wires and the reconcile
loop were checked by TLC on the instances of the runs before they were proved.

**`DaemonProofs`** (control, status, metrics).

- `HandlersCorrect` and `TypeCorrect`, from `Inv`. `TypeOK` alone is not inductive:
  that `vxm'` or `mutex'` has its type needs the node a handler runs on to be a
  node, and the head of `todo` to be a link. `HandlersOK` says so: a CNI handler
  runs only while its pod has a sandbox, its local pod is that sandbox or, in
  `DestroyPod`, empty, a handler past the choice of a link has one, and an `Update`
  is under way only while its caller waits. `Inv` types the mutexes loosely
  (`Tenant`: a handler of `Daemon`, or an `Update` that has outlived its caller), so
  that the same lemmas serve `DaemonCrash`.
- `MissOnlyStale` (`MissOnce`). The strengthening is `MissingPodsAlive`: a pod that
  skipped a link, or is past `SetAlive`, is alive in the API server. So the second
  pod to skip finds the first alive there, and its skip is stale.
- `StatusCorrect` (`StatusTruthful`) and `MetricsCorrect` (`MetricsTrack`), from
  `KnownIn(F)`: what the object and the topology manager say of a pod at each step of
  `SetAlive`. F is what the managers found when they started: nobody here, `found`
  in `DaemonCrash`.

**`DaemonLockProofs`** (mutexes).

- `NoHoldAndWait` (`HoldersRun`) and `MutualExclusion` (`Exclusive`), from `LockInv`,
  which adds to `HoldersRun` its converse `EntrantsHold`: who is between Lock and
  Unlock holds the mutex. Exclusion follows because a mutex has one holder.
- `DaemonsKeepSections`, `Spec => LinkSectionsKept`: the initial state maps to empty
  sections; by `LockInv` each section is empty or holds the one worker the mutex
  names, so a step that changes who is inside is an `Enter` of an empty section or a
  `Leave`, section by section.
- `VxmCorrect` (`VxmTracks`), for `MaxCtl = 0` and `Faulty = {}`. Both are needed: the
  controller's `DelLinks` takes no mutex, and qdiscs that fail after the vxlan was
  made leave it untracked. The invariant says of every vxlan that it is in the
  manager with its namespace, or that the holder of the mutex is about to file it.
- `CrashCorrect` and `CrashTypes` (`CrashTypeOK`): the same control and lock
  invariants when daemons end. `LateInv` adds that an `Update` without a caller has a
  name of its own and has the mutex of its link exactly from its Lock to its Unlock.

**`DaemonJoinProofs`** (why pods that are up are joined).

- `JoinedCorrect` (`JoinedUnlessStale`), assuming `Undisturbed` (no calls of the
  controller; no uid is that of two links) and `Lossy => Synced` (an informer that
  has not listed and a lost request together make `SetupPod` take a pod for one
  outside the topology). `SameNodeCorrect` (`SameNodeJoined`), assuming `Undisturbed`
  and `Synced`: before the first list `SetAlive` has no cached object to write into,
  and TLC finds two pods of one node that skip each other.
- The invariant `JoinInv(S)` follows a link from both ends: which of the two has been
  through it (`Through`), who has set up its end of a vxlan and waits for the other
  daemon (`Halfway`, and what its interface then is, `Half`), that interfaces come in
  pairs and one per VNI and node (`InterfacesIn`), and that the store of a node knows
  its own pods from `SetAlive` on (`OwnStore`). S says whether the informers have done
  their first list, which a crash takes back.

**`DaemonCrashProofs`** (daemons that end between any two steps, any number of times,
with pods destroyed and set up again and stores that lag without bound: `CrashSpec`
has none of the bounds of the run).

- `SectionsSurviveCrashes`, `CrashSpec => SectionsSurvive`: `Who` reads off a mutex the
  worker it stands for, an `Update` without a caller still being that of the handler
  which called it; a crash only empties sections or hands a mutex from one name of a
  worker to the other.
- `StatusSurvives` (`StatusTruthful`) and `MetricsSurvive` (`MetricsFind`), from
  `KnownIn(found)`.
- `JoinedSurvives` (`JoinedAfterCrash`), assuming `Undisturbed` and `~Lossy`: with lost
  requests a daemon whose store is empty after its start passes pods by. The
  invariant `CrashJoinInv` is `JoinInv` without what is said of the stores, for links
  not `overtaken`, and `LateTold`: a late `Update` works for a sandbox of its caller's
  pod that will never be up. So what it does to a link of that sandbox harms nothing,
  and what it does after the next sandbox was made is `overtaken`. The aliasing in
  `VxlanManager.Init` is part of this: the theorem has any number of vxlans on a node.

**`NodeProofs`**. `Installed` (`ServingInstalled`) needs what `main` has loaded and
written at each earlier step. `NodeTypes` (`TypeOK`) and `BypassIsLeft`
(`ShapedLeavesBypass`) come from `ShapedInv`, which adds that the packets of `covered`
sockets pass `redir_disable.c`. `PeerReached` (`RedirectsToPeer`) comes from `PairInv`, that
the ends of connections belong together, and `TrackInv`: of a client that is not in
`missed`, the record in `map_active_estab` is what its one open connection has dialled,
and an entry of `map_proxy` names the socket at the other end. The theorems are about
any number of clients, servers and cluster addresses.

**`QdiscsProofs`**. `ShapingCorrect` (`ShapedAsAsked`) and `QdiscsTyped`, from
`ShapingInv`: without an overlapping `UpdateLinks` one call is in `SetVethQdiscs` at a
time, and `Progress` says what the interface has at each of its steps. And of the
conversions, for every width of the integers, where the run has 12 and 16 bits:
`DurationsKept`, `BurstsSuffice` and `VnisKept`, each of the operator that the run's
property checks on its inputs. `VnisKept` is about any two integers, those beyond the
width included, and is exact: the identifiers meet, and a uid comes back, if and only if.

**`GrpcWireProofs`**. `WiresTyped`, `NoOrphans`, `RemovalTruth` and `WiresFiledAsMade`
(`FiledAsMade`), from `WireInv`: names of wires that were filed are not used again in one
life of the daemon, and who makes or files a wire has a number of its own.
`RemovalTruth` holds because the second removal of a pair always fails (finding 3).

**`ReconcilerProofs`**. `ReconcilerTyped`, `EditsRecorded` (`RestsRecorded`), and
`DesiredReached` (`DesiredUnlessRisked`), assuming `Proper`: no list has two links of
one interface name. The invariant `NetInv` says of each interface that it is as in
the list before the last edit, as in the one after it, or between the two in a way
the next reconcile completes; `Shapeless` is the vxlan that a failed call has made and
not shaped. It needs what `CalcDiff` returns for lists of any length
(`CalcDiffOK`) and gives what is `DiffBringsAbout` of lists of two links;
`CommonLinksKept` is `DiffKeeps` for any lists. What the loop `Collect` returns is
proved by its least counterexample, since the library's induction rules cannot be
applied here.

The proofs have one lemma or one step per action, and facts about `getPod`, `Accept`,
`Goto`, `Return` and the operations on interfaces are lemmas.

Only model-checked:

- liveness (`CallsReturn`, `ComesToRest`, `StoppedReceiversEnd`), which the prover does
  not handle under fairness;
- `DiffBringsAbout` as it is stated, with folds over the three lists (`DesiredReached`
  has the same content link by link); the rates of `RatesKept`, whose powers are a
  recursive function; and `FramesDecoded`, whose `Decode` is recursive;
- that `VxmTracks`, `JoinedUnlessStale` and the others hold where the hypotheses of
  their theorems do not, as far as a run includes it.

## What is not modelled

- koko, netlink, the kernel and the API server are external and modelled from
  their use: a namespace exists or not, an interface is there or not, deleting one
  end of a veth deletes the other, a VNI is unique per node, a write with an old
  version conflicts.
- In `Daemon` the peer's daemon is unreachable only before its `Update` starts; an
  answer lost afterwards is part of `DaemonCrash`. A connection that breaks while
  both daemons live is not modelled.
- Two pods of one node that both have vxlans when their daemon starts, where the
  aliasing in `VxlanManager.Init` yields a wrong namespace, need a larger instance
  than TLC finishes; the step is modelled, and `JoinedSurvives` includes it.
- Loss and the other percentages: `ParseFloatPercentage` is `strconv.ParseFloat` and a
  comparison of 32-bit floating point numbers, which TLA+ does not have.
- A vxlan that `CreateOrUpdate` keeps also keeps its addresses; `Reconciler` has one
  address per link.
- `SetupPod` makes no gRPC wires, so `GrpcWire` stands beside `Daemon` and is not
  composed with it; in `Daemon`, `DestroyPod` is for pods without wires. The peer
  of a wire is its answers.
- `Reconciler` treats the peers of the links as alive, and a failing call as
  stopping where it failed: a daemon that goes on after the connection broke is
  left out. Deletion of the object is left out. A failing removal in `delLink`,
  which is only logged, is left out.
- `Bypass` leaves out the inbound proxy of a service mesh, connections of a pod to
  itself and the debug map. `CloseProgram` and `Stop` have no caller that reaches
  them.
- Data races: concurrent writes to the topology manager's map, which the runtime
  may answer with an abort, are one cause of `Crash`.
- The metrics endpoint, the CLI, loggers, flags and generated code have no state
  of their own.
