------------------------------ MODULE GrpcWire ------------------------------
(***************************************************************************)
(* The grpc wires of one daemon (daemon/grpcwire/grpcwire.go and the wire  *)
(* handlers of daemon/kubedtn/handler.go).  A wire joins one interface of  *)
(* a pod, through a veth pair, to the daemon, which carries its frames to  *)
(* the daemon of the peer pod.  Handlers run concurrently; the wire map    *)
(* has a mutex, but a handler that looks a wire up and acts on it later    *)
(* holds nothing in between.                                               *)
(***************************************************************************)
EXTENDS Integers, FiniteSetsExt

CONSTANTS
  NetNs,        \* network namespaces of pods
  Uids,         \* link uids
  Pods,         \* pods, as <<namespace, name>>
  PodOf,        \* the pod each network namespace belongs to
  Callers,      \* concurrent handler slots of the daemon
  MaxIfs,       \* bound: veth pairs ever made on the node
  MaxIndex,     \* bound: names handed out in one life of the daemon
  MaxThreads,   \* bound: receive threads, past which no wire is asked for again
  MaxRestarts   \* bound: restarts of the daemon

ASSUME WireConstants ==
  /\ PodOf \in [NetNs -> Pods]
  /\ {MaxIfs, MaxIndex, MaxThreads, MaxRestarts} \subseteq Nat

VARIABLES
  up,        \* the daemon process runs
  restarts,  \* restarts so far
  index,     \* indexGen.currId
  made,      \* the kernel's last interface index
  live,      \* interface indices of the veth pairs that exist
  key,       \* key[i]: the link key of the pod's end of pair i
  name,      \* name[i]: the number that ends the node name of pair i
  wires,     \* wires.wires: link key -> interface index of its wire, 0 if none
  handles,   \* wires.handles: interface indices that have a write handle
  stopped,   \* wires whose StopC is closed
  threads,   \* threads[i][s]: receive threads of wire i in state s
  pc, arg, num, snap, rem, cur, errs  \* a handler's control and locals

wireVars == <<wires, handles, stopped, threads>>
ifVars == <<made, live, key, name>>
callVars == <<pc, arg, num, snap, rem, cur, errs>>
vars == <<up, restarts, index, ifVars, wireVars, callVars>>

Ifs == 1 .. MaxIfs
Keys == NetNs \X Uids
ThreadStates == {"fresh", "wait", "send"}
PodOfKey(k) == PodOf[k[1]]

(* linkKey: wires are filed by the network namespace of the pod and the    *)
(* uid, so that both ends of a link inside one node have their own entry.  *)
LinkKey(k) == k

AllThreads(i) == threads[i]["fresh"] + threads[i]["wait"] + threads[i]["send"]
NoThreads == [s \in ThreadStates |-> 0]

Registered(i) == \E k \in Keys : wires[k] = i

TypeOK ==
  /\ up \in BOOLEAN
  /\ restarts \in 0 .. MaxRestarts
  /\ index \in 0 .. MaxIndex
  /\ made \in 0 .. MaxIfs
  /\ live \subseteq 1 .. made
  /\ key \in [Ifs -> Keys \union {<<>>}]
  /\ name \in [Ifs -> 0 .. MaxIndex]
  /\ wires \in [Keys -> 0 .. MaxIfs]
  /\ handles \subseteq Ifs /\ stopped \subseteq Ifs
  /\ threads \in [Ifs -> [ThreadStates -> Nat]]
  /\ pc \in [Callers -> {"idle", "make", "open", "veth", "local",
                         "rem", "find", "del", "again"}]
  /\ arg \in [Callers -> Keys \union {<<>>}]
  /\ num \in [Callers -> 0 .. MaxIndex]
  /\ snap \in [Callers -> SUBSET Ifs] /\ rem \in [Callers -> SUBSET Ifs]
  /\ cur \in [Callers -> 0 .. MaxIfs]
  /\ errs \in [Callers -> BOOLEAN]

Init ==
  /\ up = TRUE /\ restarts = 0 /\ index = 0
  /\ made = 0 /\ live = {}
  /\ key = [i \in Ifs |-> <<>>] /\ name = [i \in Ifs |-> 0]
  /\ wires = [k \in Keys |-> 0]
  /\ handles = {} /\ stopped = {}
  /\ threads = [i \in Ifs |-> NoThreads]
  /\ pc = [c \in Callers |-> "idle"]
  /\ arg = [c \in Callers |-> <<>>] /\ num = [c \in Callers |-> 0]
  /\ snap = [c \in Callers |-> {}] /\ rem = [c \in Callers |-> {}]
  /\ cur = [c \in Callers |-> 0] /\ errs = [c \in Callers |-> FALSE]

-----------------------------------------------------------------------------
(* Steps that several handlers share.                                      *)

(* A panic, or log.Fatalf, ends the process.                               *)
Die ==
  /\ up' = FALSE
  /\ UNCHANGED <<restarts, index, ifVars, wireVars, callVars>>

Return(c) ==
  /\ pc' = [pc EXCEPT ![c] = "idle"]
  /\ arg' = [arg EXCEPT ![c] = <<>>]
  /\ num' = [num EXCEPT ![c] = 0]
  /\ snap' = [snap EXCEPT ![c] = {}]
  /\ errs' = [errs EXCEPT ![c] = FALSE]
  /\ UNCHANGED <<rem, cur>>

(* Mutant: without the mutex of indexGen an increment may be lost.         *)
GenNodeIfaceNameLost(c, k, next) ==
  /\ index < MaxIndex
  /\ index' \in {index, index + 1}
  /\ num' = [num EXCEPT ![c] = index + 1]
  /\ arg' = [arg EXCEPT ![c] = k]
  /\ pc' = [pc EXCEPT ![c] = next]
  /\ UNCHANGED <<up, restarts, ifVars, wireVars, snap, rem, cur, errs>>

(* GenNodeIfaceName.  The name is cut from the names of the pod and of its *)
(* interface, five characters each; the model lets all of these agree, so  *)
(* that only the number, NextIndex, tells two names apart.                 *)
GenNodeIfaceName(c, k, next) ==
  /\ index < MaxIndex
  /\ index' = index + 1
  /\ num' = [num EXCEPT ![c] = index + 1]
  /\ arg' = [arg EXCEPT ![c] = k]
  /\ pc' = [pc EXCEPT ![c] = next]
  /\ UNCHANGED <<up, restarts, ifVars, wireVars, snap, rem, cur, errs>>

Named(n) == {i \in live : name[i] = n}
InPod(k) == {i \in live : key[i] = k}

(* koko.MakeVeth refuses a name the node or the pod already has.           *)
PairMade(c, next) ==
  /\ made < MaxIfs
  /\ Named(num[c]) = {} /\ InPod(arg[c]) = {}
  /\ made' = made + 1
  /\ live' = live \union {made + 1}
  /\ key' = [key EXCEPT ![made + 1] = arg[c]]
  /\ name' = [name EXCEPT ![made + 1] = num[c]]
  /\ pc' = [pc EXCEPT ![c] = next]
  /\ UNCHANGED <<up, restarts, index, wireVars, arg, num, snap, rem, cur, errs>>

(* The call can also fail for reasons of its own (no such namespace, an    *)
(* address that does not parse): the handler then gives up, its number     *)
(* used.                                                                   *)
MakeVeth(c, from, next) ==
  /\ up /\ pc[c] = from
  /\ \/ PairMade(c, next)
     \/ Return(c) /\ UNCHANGED <<up, restarts, index, ifVars, wireVars>>

(* Mutant: a wire that is filed for the link is kept.                      *)
AddWireUnlessFiled(i, k) ==
  /\ wires' = [wires EXCEPT ![LinkKey(k)] = IF @ = 0 THEN i ELSE @]
  /\ handles' = handles \union {i}

(* AddWire files the wire and its handle, replacing what was there; the    *)
(* handler then starts a receive thread for it.                            *)
AddWire(i, k) ==
  /\ wires' = [wires EXCEPT ![LinkKey(k)] = i]
  /\ handles' = handles \union {i}

Receive(i) ==
  threads' = [threads EXCEPT ![i]["fresh"] = @ + 1]

-----------------------------------------------------------------------------
(* AddGRPCWireRemote.  A wire that is already filed is answered as it is,  *)
(* and a receive thread is started for it all the same.                    *)
RemoteExists(c, k) ==
  /\ up /\ pc[c] = "idle" /\ wires[LinkKey(k)] # 0
  /\ MapThenSumSet(AllThreads, Ifs) < MaxThreads
  /\ Receive(wires[LinkKey(k)])
  /\ UNCHANGED <<up, restarts, index, ifVars, wires, handles, stopped, callVars>>

RemoteNew(c, k) ==
  /\ up /\ pc[c] = "idle" /\ wires[LinkKey(k)] = 0
  /\ GenNodeIfaceName(c, k, "make")

RemoteMake(c) == MakeVeth(c, "make", "open")

(* The interface is found by its name and opened; a failure of either,     *)
(* because it is gone or otherwise, is fatal.                              *)
RemoteAdd(c) ==
  /\ up /\ pc[c] = "open"
  /\ \/ Die
     \/ \E i \in Named(num[c]) :
          /\ AddWire(i, arg[c])
          /\ Receive(i)
          /\ Return(c)
          /\ UNCHANGED <<up, restarts, index, ifVars, stopped>>

(* The local end: the client asks GRPCWireExists, gets a name from         *)
(* GenerateNodeInterfaceName, makes the pair itself and calls              *)
(* AddGRPCWireLocal with the name.                                         *)
GRPCWireExists(k) == wires[LinkKey(k)] # 0

GenerateNodeInterfaceName(c, k) ==
  /\ up /\ pc[c] = "idle" /\ ~ GRPCWireExists(k)
  /\ GenNodeIfaceName(c, k, "veth")

ClientVeth(c) == MakeVeth(c, "veth", "local")

(* Here an interface that is not found is an error, and only one that is   *)
(* found and cannot be opened is fatal.                                    *)
AddGRPCWireLocal(c) ==
  /\ up /\ pc[c] = "local"
  /\ \/ Die
     \/ /\ \/ Named(num[c]) = {} /\ UNCHANGED <<wires, handles, threads>>
           \/ \E i \in Named(num[c]) : AddWire(i, arg[c]) /\ Receive(i)
        /\ Return(c)
        /\ UNCHANGED <<up, restarts, index, ifVars, stopped>>

-----------------------------------------------------------------------------
(* RemGRPCWire: the wires of a pod, read once, are removed one by one.     *)
GetWiresByPod(p) == {i \in Ifs : \E k \in Keys : wires[k] = i /\ PodOfKey(key[i]) = p}

RemGRPCWire(c, p) ==
  /\ up /\ pc[c] = "idle"
  /\ snap' = [snap EXCEPT ![c] = GetWiresByPod(p)]
  /\ rem' = [rem EXCEPT ![c] = GetWiresByPod(p)]
  /\ pc' = [pc EXCEPT ![c] = "rem"]
  /\ UNCHANGED <<up, restarts, index, ifVars, wireVars, arg, num, cur, errs>>

(* Mutant: the error of a wire is dropped.                                 *)
NoteNothing(c) == errs' = errs

(* A wire has failed to go: the loop notes it and goes on.                 *)
NoteError(c) == errs' = [errs EXCEPT ![c] = TRUE]

NextWire(c) ==
  /\ pc' = [pc EXCEPT ![c] = "rem"]
  /\ cur' = [cur EXCEPT ![c] = 0]

(* RemoveWire closes the channel of the receive threads; closing a closed  *)
(* channel panics.                                                         *)
RemoveClose(c, i) ==
  /\ up /\ pc[c] = "rem" /\ i \in rem[c]
  /\ IF i \in stopped THEN Die
     ELSE /\ stopped' = stopped \union {i}
          /\ cur' = [cur EXCEPT ![c] = i]
          /\ rem' = [rem EXCEPT ![c] = @ \ {i}]
          /\ pc' = [pc EXCEPT ![c] = "find"]
          /\ UNCHANGED <<up, restarts, index, ifVars, wires, handles, threads, arg, num, snap, errs>>

(* The interface is looked up by index.  If it is gone the code says so    *)
(* and then reads the name of the interface it has not found.              *)
RemoveFind(c) ==
  /\ up /\ pc[c] = "find"
  /\ IF cur[c] \notin live THEN Die
     ELSE /\ pc' = [pc EXCEPT ![c] = "del"]
          /\ UNCHANGED <<up, restarts, index, ifVars, wireVars, arg, num, snap, rem, cur, errs>>

RemoveVeth(c) ==
  /\ up /\ pc[c] = "del"
  /\ IF Named(name[cur[c]]) = {}
     THEN NoteError(c) /\ NextWire(c) /\ live' = live
     ELSE /\ live' = live \ Named(name[cur[c]])
          /\ pc' = [pc EXCEPT ![c] = "again"]
          /\ UNCHANGED <<errs, cur>>
  /\ UNCHANGED <<up, restarts, index, made, key, name, wireVars, arg, num, snap, rem>>

DeleteWire(i) ==
  /\ wires' = [wires EXCEPT ![LinkKey(key[i])] = 0]
  /\ handles' = handles \ {i}

(* The same interface is removed a second time; only if that succeeds does *)
(* DeleteWire take the wire out of the maps.                               *)
RemoveVethAgain(c) ==
  /\ up /\ pc[c] = "again"
  /\ IF Named(name[cur[c]]) = {}
     THEN NoteError(c) /\ UNCHANGED <<live, wires, handles>>
     ELSE /\ live' = live \ Named(name[cur[c]])
          /\ DeleteWire(cur[c]) /\ errs' = errs
  /\ NextWire(c)
  /\ UNCHANGED <<up, restarts, index, made, key, name, stopped, threads, arg, num, snap, rem>>

Answers(c) == up /\ pc[c] = "rem" /\ rem[c] = {}

RemReturn(c) ==
  /\ Answers(c)
  /\ Return(c)
  /\ UNCHANGED <<up, restarts, index, ifVars, wireVars>>

-----------------------------------------------------------------------------
(* RecvFrmLocalPodThread.  It opens the interface, and dials the peer's    *)
(* daemon, which does not wait for it; then a loop takes a frame and sends *)
(* it, or sees the closed channel.                                         *)
Move(i, s, t) == threads' = [threads EXCEPT ![i] = [threads[i] EXCEPT ![s] = @ - 1, ![t] = @ + 1]]

(* An interface that is gone, or cannot be opened or set, is fatal.        *)
ThreadOpen(i) ==
  /\ up /\ threads[i]["fresh"] > 0
  /\ \/ Die
     \/ /\ i \in live
        /\ Move(i, "fresh", "wait")
        /\ UNCHANGED <<up, restarts, index, ifVars, wires, handles, stopped, callVars>>

(* A frame of more than 1518 bytes is decoded, for the log, and the        *)
(* decoding (DecodeFrame, module Frames) panics on some.                   *)
ThreadFrame(i) ==
  /\ up /\ threads[i]["wait"] > 0 /\ i \in live
  /\ \/ Die
     \/ /\ Move(i, "wait", "send")
        /\ UNCHANGED <<up, restarts, index, ifVars, wires, handles, stopped, callVars>>

(* SendToOnce has answered, or failed: either way the thread goes on.      *)
ThreadSent(i) ==
  /\ up /\ threads[i]["send"] > 0
  /\ Move(i, "send", "wait")
  /\ UNCHANGED <<up, restarts, index, ifVars, wires, handles, stopped, callVars>>

(* Mutant: the channel is looked at only after a frame.                    *)
ThreadStopAfterFrame(i) ==
  /\ up /\ threads[i]["send"] > 0 /\ i \in stopped
  /\ threads' = [threads EXCEPT ![i]["send"] = @ - 1]
  /\ UNCHANGED <<up, restarts, index, ifVars, wires, handles, stopped, callVars>>

(* The closed channel is taken, and the thread returns.                    *)
ThreadStop(i) ==
  /\ up /\ threads[i]["wait"] > 0 /\ i \in stopped
  /\ threads' = [threads EXCEPT ![i]["wait"] = @ - 1]
  /\ UNCHANGED <<up, restarts, index, ifVars, wires, handles, stopped, callVars>>

(* SendToOnce: a frame from the peer reaches the pod through the handle    *)
(* filed for the interface index it carries, if that interface is there.   *)
SendToOnce(i) == i \in handles /\ i \in live

-----------------------------------------------------------------------------
(* The world around the daemon.  A pair goes with the namespace of its     *)
(* pod, or when delLink removes the pod's end of it.                       *)
VethGone(i) ==
  /\ i \in live
  /\ live' = live \ {i}
  /\ UNCHANGED <<up, restarts, index, made, key, name, wireVars, callVars>>

(* The process may end at any time; another starts with empty maps and the *)
(* numbers from one, on a node that keeps its interfaces.                  *)
Restart ==
  /\ restarts < MaxRestarts
  /\ up' = TRUE /\ restarts' = restarts + 1
  /\ index' = 0
  /\ wires' = [k \in Keys |-> 0]
  /\ handles' = {} /\ stopped' = {}
  /\ threads' = [i \in Ifs |-> NoThreads]
  /\ pc' = [c \in Callers |-> "idle"]
  /\ snap' = [c \in Callers |-> {}] /\ rem' = [c \in Callers |-> {}]
  /\ arg' = [c \in Callers |-> <<>>] /\ num' = [c \in Callers |-> 0]
  /\ cur' = [c \in Callers |-> 0] /\ errs' = [c \in Callers |-> FALSE]
  /\ UNCHANGED ifVars

HandlerStep(c) ==
  \/ \E k \in Keys : RemoteExists(c, k) \/ RemoteNew(c, k) \/ GenerateNodeInterfaceName(c, k)
  \/ RemoteMake(c) \/ RemoteAdd(c) \/ ClientVeth(c) \/ AddGRPCWireLocal(c)
  \/ \E p \in Pods : RemGRPCWire(c, p)
  \/ \E i \in Ifs : RemoveClose(c, i)
  \/ RemoveFind(c) \/ RemoveVeth(c) \/ RemoveVethAgain(c) \/ RemReturn(c)

ThreadStep(i) == ThreadOpen(i) \/ ThreadFrame(i) \/ ThreadSent(i) \/ ThreadStop(i)

Next ==
  \/ \E c \in Callers : HandlerStep(c)
  \/ \E i \in Ifs : ThreadStep(i) \/ VethGone(i)
  \/ Restart

(* Handlers and threads are scheduled; select takes a ready case at        *)
(* random, so a closed channel, which stays ready, is taken in the end;    *)
(* and SendToOnce comes back from a peer that answers or whose connection  *)
(* breaks.                                                                 *)
Fairness ==
  /\ \A c \in Callers : WF_vars(RemoveFind(c)) /\ WF_vars(RemoveVeth(c))
  /\ \A i \in Ifs : WF_vars(ThreadOpen(i)) /\ WF_vars(ThreadSent(i))
  /\ \A i \in Ifs : SF_vars(ThreadStop(i))

Spec == Init /\ [][Next]_vars
FairSpec == Spec /\ Fairness

-----------------------------------------------------------------------------
(* Whatever is still at work on an interface that exists can be found: if  *)
(* SendToOnce would deliver into it, or a receive thread takes frames from *)
(* it and has not been told to stop, then its wire is the one filed for    *)
(* its link, where RemGRPCWire looks.  AddWire overwrites what is filed,   *)
(* and the check before it is not atomic with it.                          *)
NothingOrphaned ==
  \A i \in live :
    (SendToOnce(i) \/ (AllThreads(i) > 0 /\ i \notin stopped)) => wires[key[i]] = i

(* A RemGRPCWire that answers without an error has removed every wire of   *)
(* the pod that was filed when it began: a pod's removal goes on after it. *)
RemovalTellsTruth ==
  \A c \in Callers : Answers(c) /\ ~ errs[c] => \A i \in snap[c] : ~ Registered(i)

(* The wire filed for a link has the pair that was made for this link: the *)
(* handler that makes a pair knows it again only by the name it was given, *)
(* and meanwhile the pair may go, other handlers make theirs, and names of *)
(* an earlier life of the daemon be about.  A wrong one would carry the    *)
(* frames of another link.                                                 *)
FiledAsMade ==
  \A k \in Keys : wires[k] # 0 => key[wires[k]] = k

(* Every receive thread of a wire whose channel is closed returns in the   *)
(* end, unless the daemon ends first.                                      *)
StoppedReceiversEnd ==
  \A i \in Ifs : i \in stopped ~> (AllThreads(i) = 0 \/ ~ up)

(* "Destroy a pod, removing all its GRPC wires and links" (handler.go): a  *)
(* RemGRPCWire that answers leaves none of the wires it found.             *)
RemovesWires ==
  \A c \in Callers : Answers(c) => \A i \in snap[c] : ~ Registered(i)
=============================================================================
