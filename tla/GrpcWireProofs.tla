--------------------------- MODULE GrpcWireProofs ---------------------------
(* Proofs about the grpc wires of a daemon, for any namespaces, links,      *)
(* callers and bounds.                                                     *)
EXTENDS GrpcWire, TLAPS

Making == {"make", "veth"}
Filing == {"open", "local"}
Removing == {"find", "del", "again"}

\* No two pairs that exist have the same name, or their ends in the same pod.
Distinct ==
  /\ \A i, j \in live : name[i] = name[j] \/ key[i] = key[j] => i = j
  /\ \A i \in 1 .. made : key[i] \in Keys

\* The handlers that make or file a wire have numbers of their own, and who has
\* made a pair finds no other pair under its number.
Numbers ==
  \A c \in Callers :
    /\ pc[c] \in Making \cup Filing =>
         /\ arg[c] \in Keys /\ num[c] \in 1 .. index
         /\ \A d \in Callers \ {c} : pc[d] \in Making \cup Filing => num[d] # num[c]
    /\ pc[c] \in Filing =>
         /\ \E i \in 1 .. made : name[i] = num[c]
         /\ \A i \in live : name[i] = num[c] => key[i] = arg[c]

\* Whatever handlers and threads work on has been filed with its handle, which
\* nobody takes back.
Filed ==
  /\ handles \subseteq 1 .. made
  /\ \A k \in Keys : wires[k] # 0 => wires[k] \in handles
  /\ stopped \subseteq handles
  /\ \A c \in Callers : rem[c] \subseteq handles /\ (pc[c] \in Removing => cur[c] \in handles)
  /\ \A i \in Ifs \ handles : threads[i] = NoThreads

\* The name of a wire that has been filed is not used again in this life of the
\* daemon.
UsedUp ==
  \A i \in handles :
    /\ name[i] \in 1 .. index
    /\ \A j \in live : name[j] = name[i] => j = i
    /\ \A c \in Callers : pc[c] \in Making => num[c] # name[i]

\* The first removal of the pair has made sure that the second one fails, so
\* that every wire RemGRPCWire gets to ends in an error.
RemovalFails ==
  \A c \in Callers :
    /\ pc[c] = "again" => cur[c] \notin live
    /\ pc[c] = "rem" /\ ~errs[c] => snap[c] = rem[c]

WireInv ==
  /\ TypeOK /\ Distinct /\ Numbers /\ Filed /\ UsedUp /\ RemovalFails
  /\ NothingOrphaned /\ FiledAsMade

PCs == {"idle", "make", "open", "veth", "local", "rem", "find", "del", "again"}

\* The part of the type invariant about the handlers.
CallType ==
  /\ pc \in [Callers -> PCs]
  /\ arg \in [Callers -> Keys \union {<<>>}]
  /\ num \in [Callers -> 0 .. MaxIndex]
  /\ snap \in [Callers -> SUBSET Ifs] /\ rem \in [Callers -> SUBSET Ifs]
  /\ cur \in [Callers -> 0 .. MaxIfs]
  /\ errs \in [Callers -> BOOLEAN]

IfType ==
  /\ made \in 0 .. MaxIfs
  /\ live \subseteq 1 .. made
  /\ key \in [Ifs -> Keys \union {<<>>}]
  /\ name \in [Ifs -> 0 .. MaxIndex]

WireType ==
  /\ wires \in [Keys -> 0 .. MaxIfs]
  /\ handles \subseteq Ifs /\ stopped \subseteq Ifs
  /\ threads \in [Ifs -> [ThreadStates -> Nat]]

DaemonType == up \in BOOLEAN /\ restarts \in 0 .. MaxRestarts /\ index \in 0 .. MaxIndex

\* The type invariant in parts.
LEMMA Types == TypeOK <=> CallType /\ IfType /\ WireType /\ DaemonType
  BY Zenon DEF TypeOK, CallType, IfType, WireType, DaemonType, PCs

\* The bounds are numbers.
LEMMA Bounds == MaxIfs \in Nat /\ MaxIndex \in Nat /\ MaxThreads \in Nat /\ MaxRestarts \in Nat
  BY Zenon, WireConstants

\* A handler that returns.
LEMMA ReturnFacts ==
  ASSUME CallType, NEW c \in Callers, Return(c)
  PROVE  /\ CallType'
         /\ pc'[c] = "idle"
         /\ \A d \in Callers \ {c} :
              /\ pc'[d] = pc[d] /\ arg'[d] = arg[d] /\ num'[d] = num[d]
              /\ snap'[d] = snap[d] /\ errs'[d] = errs[d]
         /\ UNCHANGED <<rem, cur>>
<1>1. CallType'
  <2>1. pc' \in [Callers -> PCs] /\ arg' \in [Callers -> Keys \union {<<>>}]
    BY Zenon DEF CallType, Return, PCs
  <2>2. num' \in [Callers -> 0 .. MaxIndex]
    BY Bounds DEF CallType, Return
  <2>3. snap' \in [Callers -> SUBSET Ifs] /\ errs' \in [Callers -> BOOLEAN]
    BY Zenon DEF CallType, Return
  <2> QED BY Zenon, <2>1, <2>2, <2>3 DEF CallType, Return
<1> QED BY <1>1 DEF CallType, Return

\* The process ends: nothing else is touched.
LEMMA DieInv ==
  ASSUME WireInv, Die
  PROVE  WireInv'
<1>1. TypeOK'
  BY Zenon DEF WireInv, TypeOK, Die, ifVars, wireVars, callVars
<1>2. Distinct' /\ Numbers' /\ Filed' /\ UsedUp' /\ RemovalFails'
  BY DEF WireInv, Distinct, Numbers, Filed, UsedUp, RemovalFails, Die, ifVars, wireVars, callVars
<1>3. NothingOrphaned'
  BY Zenon DEF WireInv, NothingOrphaned, SendToOnce, AllThreads, Die, ifVars, wireVars
<1>4. FiledAsMade'
  BY Zenon DEF WireInv, FiledAsMade, Die, ifVars, wireVars
<1> QED BY Zenon, <1>1, <1>2, <1>3, <1>4 DEF WireInv

\* A handler that returns, and changes nothing else, keeps the invariant.
LEMMA ReturnInv ==
  ASSUME WireInv, NEW c \in Callers, Return(c), UNCHANGED <<up, restarts, index, ifVars, wireVars>>
  PROVE  WireInv'
<1>t. CallType /\ IfType /\ WireType /\ DaemonType
  BY Zenon, Types DEF WireInv
<1>r. /\ CallType' /\ pc'[c] = "idle" /\ UNCHANGED <<rem, cur>>
      /\ \A d \in Callers \ {c} :
           /\ pc'[d] = pc[d] /\ arg'[d] = arg[d] /\ num'[d] = num[d]
           /\ snap'[d] = snap[d] /\ errs'[d] = errs[d]
  BY Zenon, <1>t, ReturnFacts
<1>u. UNCHANGED <<up, restarts, index, made, live, key, name, wires, handles, stopped, threads>>
  BY Zenon DEF ifVars, wireVars
<1>1. TypeOK'
  BY Zenon, <1>t, <1>r, <1>u, Types DEF TypeOK, CallType, IfType, WireType, DaemonType, PCs
<1>2. Distinct' /\ NothingOrphaned' /\ FiledAsMade'
  BY <1>u DEF WireInv, Distinct, NothingOrphaned, SendToOnce, AllThreads, FiledAsMade
<1>3. Numbers'
  BY <1>r, <1>u DEF WireInv, Numbers, Making, Filing
<1>4. Filed'
  BY Zenon, <1>r, <1>u DEF WireInv, Filed, Removing
<1>5. UsedUp'
  BY <1>r, <1>u DEF WireInv, UsedUp, Making
<1>6. RemovalFails'
  BY Zenon, <1>r, <1>u DEF WireInv, RemovalFails
<1> QED BY Zenon, <1>1, <1>2, <1>3, <1>4, <1>5, <1>6 DEF WireInv

\* The number of a name is new in this life of the daemon.
LEMMA GenNodeIfaceNameInv ==
  ASSUME WireInv, NEW c \in Callers, NEW k \in Keys, NEW next \in Making, pc[c] = "idle",
         GenNodeIfaceName(c, k, next)
  PROVE  WireInv'
<1>t. CallType /\ IfType /\ WireType /\ DaemonType
  BY Zenon, Types DEF WireInv
<1>u. UNCHANGED <<up, restarts, made, live, key, name, wires, handles, stopped, threads,
                  snap, rem, cur, errs>>
  BY Zenon DEF GenNodeIfaceName, ifVars, wireVars
<1>i. /\ index \in Nat /\ index' = index + 1 /\ index' \in 0 .. MaxIndex
      /\ num'[c] = index' /\ pc'[c] = next /\ arg'[c] = k
      /\ \A d \in Callers \ {c} : pc'[d] = pc[d] /\ arg'[d] = arg[d] /\ num'[d] = num[d]
  BY <1>t, Bounds DEF GenNodeIfaceName, CallType, DaemonType
<1>1. TypeOK'
  <2>1. CallType'
    <3>1. pc' \in [Callers -> PCs]
      BY Zenon, <1>t DEF GenNodeIfaceName, CallType, PCs, Making
    <3>2. num' \in [Callers -> 0 .. MaxIndex]
      BY Zenon, <1>t, <1>i DEF GenNodeIfaceName, CallType
    <3>3. arg' \in [Callers -> Keys \union {<<>>}]
      BY Zenon, <1>t DEF GenNodeIfaceName, CallType
    <3> QED BY Zenon, <1>t, <1>u, <3>1, <3>2, <3>3 DEF CallType
  <2>2. IfType' /\ WireType' /\ DaemonType'
    BY Zenon, <1>t, <1>u, <1>i DEF IfType, WireType, DaemonType
  <2> QED BY Zenon, <2>1, <2>2, Types DEF TypeOK, CallType, IfType, WireType, DaemonType, PCs
<1>2. Distinct' /\ NothingOrphaned' /\ FiledAsMade'
  BY Zenon, <1>u DEF WireInv, Distinct, NothingOrphaned, SendToOnce, AllThreads, FiledAsMade
<1>3. Numbers'
  <2>1. \A d \in Callers : pc[d] \in Making \cup Filing => num[d] \in 1 .. index
    BY Zenon DEF WireInv, Numbers
  <2>2. ASSUME NEW d \in Callers, pc'[d] \in Making \cup Filing
        PROVE  /\ arg'[d] \in Keys /\ num'[d] \in 1 .. index'
               /\ \A e \in Callers \ {d} : pc'[e] \in Making \cup Filing => num'[e] # num'[d]
    BY <1>i, <2>1, <2>2 DEF WireInv, Numbers
  <2>3. ASSUME NEW d \in Callers, pc'[d] \in Filing
        PROVE  /\ \E i \in 1 .. made : name[i] = num'[d]
               /\ \A i \in live : name[i] = num'[d] => key[i] = arg'[d]
    BY <1>i, <2>3 DEF WireInv, Numbers, Making, Filing
  <2> QED BY Zenon, <1>u, <2>2, <2>3 DEF Numbers
<1>4. Filed'
  BY Zenon, <1>u, <1>i DEF WireInv, Filed, Making, Removing
<1>5. UsedUp'
  BY <1>u, <1>i DEF WireInv, UsedUp, Making
<1>6. RemovalFails'
  BY Zenon, <1>u, <1>i DEF WireInv, RemovalFails, Making
<1> QED BY Zenon, <1>1, <1>2, <1>3, <1>4, <1>5, <1>6 DEF WireInv

\* MakeVeth adds a pair under a name and in a pod that had none.
LEMMA PairMadeInv ==
  ASSUME WireInv, NEW c \in Callers, pc[c] \in Making, NEW next \in Filing, PairMade(c, next)
  PROVE  WireInv'
<1>t. CallType /\ IfType /\ WireType /\ DaemonType
  BY Zenon, Types DEF WireInv
<1> DEFINE n == made + 1
<1>u. UNCHANGED <<up, restarts, index, wires, handles, stopped, threads, arg, num, snap, rem,
                  cur, errs>>
  BY Zenon DEF PairMade, wireVars
<1>p. pc'[c] = next /\ \A d \in Callers \ {c} : pc'[d] = pc[d]
  BY Zenon, <1>t DEF PairMade, CallType
<1>a. arg[c] \in Keys /\ num[c] \in 1 .. index
  BY Zenon DEF WireInv, Numbers
<1>n. /\ made \in Nat /\ made' = n /\ n \in Ifs /\ live' = live \union {n} /\ n \notin live
      /\ 1 .. made' = (1 .. made) \union {n} /\ n \notin 1 .. made
  BY <1>t, Bounds DEF PairMade, IfType, Ifs
<1>k. /\ key'[n] = arg[c] /\ name'[n] = num[c]
      /\ \A i \in Ifs \ {n} : key'[i] = key[i] /\ name'[i] = name[i]
      /\ key' \in [Ifs -> Keys \union {<<>>}] /\ name' \in [Ifs -> 0 .. MaxIndex]
  BY Zenon, <1>t, <1>n DEF PairMade, IfType, CallType
<1>l. /\ live \subseteq Ifs \ {n} /\ 1 .. made \subseteq Ifs \ {n} /\ handles \subseteq Ifs \ {n}
      /\ \A i \in live : name[i] # num[c] /\ key[i] # arg[c]
  <2>1. 1 .. made \subseteq Ifs \ {n}
    BY <1>t, <1>n, Bounds DEF IfType, Ifs
  <2>2. live \subseteq 1 .. made /\ handles \subseteq 1 .. made
    BY Zenon, <1>t DEF IfType, WireInv, Filed
  <2>3. \A i \in live : name[i] # num[c] /\ key[i] # arg[c]
    BY Zenon DEF PairMade, Named, InPod
  <2> QED BY Zenon, <2>1, <2>2, <2>3
<1> HIDE DEF n
<1>1. TypeOK'
  <2>1. CallType'
    <3>1. pc' \in [Callers -> PCs]
      BY Zenon, <1>t DEF PairMade, CallType, PCs, Filing
    <3> QED BY Zenon, <1>t, <1>u, <3>1 DEF CallType
  <2>2. IfType'
    <3>1. made' \in 0 .. MaxIfs
      BY <1>n, Bounds DEF Ifs
    <3>2. live' \subseteq 1 .. made'
      BY Zenon, <1>n, <1>t DEF IfType
    <3> QED BY Zenon, <1>k, <3>1, <3>2 DEF IfType
  <2>3. WireType' /\ DaemonType'
    BY Zenon, <1>t, <1>u DEF WireType, DaemonType
  <2> QED BY Zenon, <2>1, <2>2, <2>3, Types DEF TypeOK, CallType, IfType, WireType, DaemonType, PCs
<1>2. Distinct'
  <2>1. ASSUME NEW i \in live', NEW j \in live', name'[i] = name'[j] \/ key'[i] = key'[j]
        PROVE  i = j
    <3>1. CASE i \in live /\ j \in live
      BY Zenon, <1>k, <1>l, <2>1, <3>1 DEF WireInv, Distinct
    <3>2. CASE i = n
      BY Zenon, <1>n, <1>k, <1>l, <2>1, <3>2
    <3>3. CASE j = n
      BY Zenon, <1>n, <1>k, <1>l, <2>1, <3>3
    <3> QED BY Zenon, <1>n, <3>1, <3>2, <3>3
  <2>2. ASSUME NEW i \in 1 .. made' PROVE key'[i] \in Keys
    BY Zenon, <1>n, <1>k, <1>l, <1>a, <2>2 DEF WireInv, Distinct
  <2> QED BY Zenon, <2>1, <2>2 DEF Distinct
<1>3. Numbers'
  <2>1. ASSUME NEW d \in Callers, pc'[d] \in Making \cup Filing
        PROVE  /\ arg'[d] \in Keys /\ num'[d] \in 1 .. index'
               /\ \A e \in Callers \ {d} : pc'[e] \in Making \cup Filing => num'[e] # num'[d]
    BY Zenon, <1>u, <1>p, <2>1 DEF WireInv, Numbers
  <2>2. ASSUME NEW d \in Callers, pc'[d] \in Filing
        PROVE  /\ \E i \in 1 .. made' : name'[i] = num'[d]
               /\ \A i \in live' : name'[i] = num'[d] => key'[i] = arg'[d]
    <3>1. CASE d = c
      BY Zenon, <1>u, <1>n, <1>k, <1>l, <3>1
    <3>2. CASE d # c
      <4>1. pc[d] \in Filing /\ num[d] # num[c]
        BY Zenon, <1>p, <2>2, <3>2 DEF WireInv, Numbers
      <4>2. PICK i \in 1 .. made : name[i] = num[d]
        BY Zenon, <4>1 DEF WireInv, Numbers
      <4>3. i \in 1 .. made' /\ name'[i] = num'[d]
        BY Zenon, <1>u, <1>n, <1>k, <1>l, <4>2
      <4>4. \A j \in live' : name'[j] = num'[d] => key'[j] = arg'[d]
        BY <1>u, <1>n, <1>k, <1>l, <4>1 DEF WireInv, Numbers
      <4> QED BY Zenon, <4>3, <4>4
    <3> QED BY Zenon, <3>1, <3>2
  <2> QED BY Zenon, <2>1, <2>2 DEF Numbers
<1>4. Filed'
  <2>1. handles' \subseteq 1 .. made'
    BY Zenon, <1>u, <1>n DEF WireInv, Filed
  <2>2. \A d \in Callers : pc'[d] \in Removing => pc[d] = pc'[d]
    BY Zenon, <1>p DEF Removing, Filing
  <2> QED BY Zenon, <1>u, <2>1, <2>2 DEF WireInv, Filed
<1>5. UsedUp'
  <2> SUFFICES ASSUME NEW i \in handles
               PROVE  /\ name'[i] \in 1 .. index
                      /\ \A j \in live' : name'[j] = name'[i] => j = i
                      /\ \A d \in Callers : pc'[d] \in Making => num[d] # name'[i]
    BY Zenon, <1>u DEF UsedUp
  <2>1. name'[i] = name[i] /\ name[i] \in 1 .. index /\ name[i] # num[c]
    BY Zenon, <1>k, <1>l DEF WireInv, UsedUp
  <2>2. \A j \in live' : name'[j] = name'[i] => j = i
    BY Zenon, <1>n, <1>k, <1>l, <2>1 DEF WireInv, UsedUp
  <2>3. \A d \in Callers : pc'[d] \in Making => num[d] # name'[i]
    BY Zenon, <1>p, <2>1 DEF WireInv, UsedUp
  <2> QED BY Zenon, <2>1, <2>2, <2>3
<1>6. RemovalFails'
  <2>1. \A d \in Callers : pc[d] = "again" => cur[d] \in handles
    BY Zenon DEF WireInv, Filed, Removing
  <2> QED BY Zenon, <1>u, <1>p, <1>n, <1>l, <2>1 DEF WireInv, RemovalFails, Filing
<1>7. NothingOrphaned'
  <2>1. n \notin handles /\ AllThreads(n) = 0
    BY <1>n, <1>l DEF WireInv, Filed, AllThreads, NoThreads, ThreadStates
  <2>2. ASSUME NEW i \in live', SendToOnce(i)' \/ (AllThreads(i)' > 0 /\ i \notin stopped')
        PROVE  wires'[key'[i]] = i
    <3>1. i \in live
      BY <1>u, <1>n, <2>1, <2>2 DEF SendToOnce, AllThreads
    <3>2. key'[i] = key[i]
      BY Zenon, <1>k, <1>l, <3>1
    <3> QED BY Zenon, <1>u, <2>2, <3>1, <3>2 DEF WireInv, NothingOrphaned, SendToOnce, AllThreads
  <2> QED BY Zenon, <2>2 DEF NothingOrphaned
<1>8. FiledAsMade'
  <2>1. \A k \in Keys : wires[k] # 0 => wires[k] \in Ifs \ {n}
    BY Zenon, <1>l DEF WireInv, Filed
  <2> QED BY Zenon, <1>u, <1>k, <2>1 DEF WireInv, FiledAsMade
<1> QED BY Zenon, <1>1, <1>2, <1>3, <1>4, <1>5, <1>6, <1>7, <1>8 DEF WireInv

\* A handler that has made its pair files the wire, or finds the pair gone.
LEMMA FileInv ==
  ASSUME WireInv, NEW c \in Callers, RemoteAdd(c) \/ AddGRPCWireLocal(c)
  PROVE  WireInv'
<1>t. CallType /\ IfType /\ WireType /\ DaemonType
  BY Zenon, Types DEF WireInv
<1>a. pc[c] \in Filing /\ arg[c] \in Keys /\ num[c] \in 1 .. index
  BY Zenon DEF RemoteAdd, AddGRPCWireLocal, Filing, WireInv, Numbers
<1>1. CASE Die
  BY Zenon, <1>1, DieInv
<1>2. CASE Return(c) /\ UNCHANGED <<up, restarts, index, ifVars, wireVars>>
  BY Zenon, <1>2, ReturnInv
<1>3. ASSUME NEW i \in Named(num[c]), AddWire(i, arg[c]), Receive(i), Return(c),
             UNCHANGED <<up, restarts, index, ifVars, stopped>>
      PROVE  WireInv'
  <2> DEFINE k == arg[c]
  <2>1. i \in live /\ name[i] = num[c]
    BY Zenon DEF Named
  <2>2. /\ wires' = [wires EXCEPT ![k] = i] /\ handles' = handles \union {i}
        /\ threads' = [threads EXCEPT ![i]["fresh"] = @ + 1]
        /\ Return(c) /\ UNCHANGED <<up, restarts, index, ifVars, stopped>>
    BY Zenon, <1>3 DEF AddWire, Receive, LinkKey
  <2> HIDE DEF k
  <2>k. key[i] = k /\ k \in Keys
    BY Zenon, <1>a, <2>1 DEF WireInv, Numbers, k
  <2>i. i \in 1 .. made /\ i \in Ifs /\ 1 .. made \subseteq Ifs
    BY <1>t, <2>1, Bounds DEF IfType, Ifs
  <2>u. UNCHANGED <<up, restarts, index, made, live, key, name, stopped>>
    BY Zenon, <2>2 DEF ifVars
  <2>r. /\ CallType' /\ pc'[c] = "idle" /\ UNCHANGED <<rem, cur>>
        /\ \A d \in Callers \ {c} :
             /\ pc'[d] = pc[d] /\ arg'[d] = arg[d] /\ num'[d] = num[d]
             /\ snap'[d] = snap[d] /\ errs'[d] = errs[d]
    BY Zenon, <1>t, <2>2, ReturnFacts
  <2>w. wires'[k] = i /\ \A j \in Keys \ {k} : wires'[j] = wires[j]
    BY Zenon, <1>t, <2>2, <2>k DEF WireType
  <2>h. /\ threads' \in [Ifs -> [ThreadStates -> Nat]]
        /\ \A j \in Ifs \ {i} : threads'[j] = threads[j]
    BY <1>t, <2>2, <2>i DEF WireType, ThreadStates
  <2>3. TypeOK'
    <3>1. WireType'
      <4>1. wires' \in [Keys -> 0 .. MaxIfs]
        <5>1. i \in 0 .. MaxIfs
          BY <2>i, Bounds DEF Ifs
        <5> QED BY Zenon, <1>t, <2>2, <2>k, <5>1 DEF WireType
      <4>2. handles' \subseteq Ifs /\ stopped' \subseteq Ifs
        BY Zenon, <1>t, <2>2, <2>i, <2>u DEF WireType
      <4> QED BY Zenon, <2>h, <4>1, <4>2 DEF WireType
    <3>2. IfType' /\ DaemonType'
      BY Zenon, <1>t, <2>u DEF IfType, DaemonType
    <3> QED BY Zenon, <2>r, <3>1, <3>2, Types DEF TypeOK, CallType, IfType, WireType, DaemonType, PCs
  <2>4. Distinct'
    BY Zenon, <2>u DEF WireInv, Distinct
  <2>5. Numbers'
    BY <2>r, <2>u DEF WireInv, Numbers, Making, Filing
  <2>6. Filed'
    <3>1. handles' \subseteq 1 .. made' /\ stopped' \subseteq handles'
      BY Zenon, <2>2, <2>i, <2>u DEF WireInv, Filed
    <3>2. \A j \in Keys : wires'[j] # 0 => wires'[j] \in handles'
      BY <2>2, <2>w DEF WireInv, Filed
    <3>3. \A d \in Callers : rem'[d] \subseteq handles' /\ (pc'[d] \in Removing => cur'[d] \in handles')
      BY Zenon, <2>2, <2>r DEF WireInv, Filed, Removing
    <3>4. \A j \in Ifs \ handles' : threads'[j] = NoThreads
      BY Zenon, <2>2, <2>h DEF WireInv, Filed
    <3> QED BY Zenon, <3>1, <3>2, <3>3, <3>4 DEF Filed
  <2>7. UsedUp'
    <3>1. ASSUME NEW j \in handles'
          PROVE  /\ name[j] \in 1 .. index
                 /\ \A m \in live : name[m] = name[j] => m = j
                 /\ \A d \in Callers : pc'[d] \in Making => num'[d] # name[j]
      <4>1. CASE j = i
        <5>1. \A m \in live : name[m] = name[j] => m = j
          BY Zenon, <2>1, <4>1 DEF WireInv, Distinct
        <5>2. \A d \in Callers : pc'[d] \in Making => num'[d] # name[j]
          BY <1>a, <2>1, <2>r, <4>1 DEF WireInv, Numbers, Making
        <5> QED BY Zenon, <1>a, <2>1, <4>1, <5>1, <5>2
      <4>2. CASE j # i
        <5>1. j \in handles
          BY Zenon, <2>2, <4>2
        <5> QED BY Zenon, <2>r, <5>1 DEF WireInv, UsedUp, Making
      <4> QED BY Zenon, <4>1, <4>2
    <3> QED BY Zenon, <2>u, <3>1 DEF UsedUp
  <2>8. RemovalFails'
    BY Zenon, <2>r, <2>u DEF WireInv, RemovalFails
  <2>9. NothingOrphaned'
    <3>1. ASSUME NEW j \in live, SendToOnce(j)' \/ (AllThreads(j)' > 0 /\ j \notin stopped')
          PROVE  wires'[key[j]] = j
      <4>1. CASE j = i
        BY Zenon, <2>k, <2>w, <4>1
      <4>2. CASE j # i
        <5>1. key[j] # k /\ key[j] \in Keys /\ j \in Ifs
          BY Zenon, <1>t, <2>1, <2>k, <2>i, <4>2 DEF WireInv, Distinct, IfType
        <5>2. AllThreads(j)' = AllThreads(j) /\ (SendToOnce(j)' => SendToOnce(j))
          BY Zenon, <2>2, <2>u, <2>h, <4>2, <5>1 DEF AllThreads, SendToOnce
        <5>3. wires[key[j]] = j
          BY Zenon, <2>u, <3>1, <5>2 DEF WireInv, NothingOrphaned
        <5> QED BY Zenon, <2>w, <5>1, <5>3
      <4> QED BY Zenon, <4>1, <4>2
    <3> QED BY Zenon, <2>u, <3>1 DEF NothingOrphaned
  <2>10. FiledAsMade'
    BY Zenon, <2>k, <2>u, <2>w DEF WireInv, FiledAsMade
  <2> QED BY Zenon, <2>3, <2>4, <2>5, <2>6, <2>7, <2>8, <2>9, <2>10 DEF WireInv
<1> QED BY Zenon, <1>1, <1>2, <1>3 DEF RemoteAdd, AddGRPCWireLocal, wireVars

\* A step that changes only the threads of a wire that has been filed.
LEMMA ThreadInv ==
  ASSUME WireInv, NEW i \in handles, threads' \in [Ifs -> [ThreadStates -> Nat]],
         \A j \in Ifs \ {i} : threads'[j] = threads[j],
         UNCHANGED <<up, restarts, index, ifVars, wires, handles, stopped, callVars>>
  PROVE  WireInv'
<1>u. UNCHANGED <<made, live, key, name, pc, arg, num, snap, rem, cur, errs>>
  BY Zenon DEF ifVars, callVars
<1>1. TypeOK'
  BY Zenon, <1>u DEF WireInv, TypeOK
<1>2. Distinct' /\ Numbers' /\ UsedUp' /\ RemovalFails' /\ FiledAsMade'
  <2>1. Distinct' /\ UsedUp'
    BY Zenon, <1>u DEF WireInv, Distinct, UsedUp
  <2>2. Numbers'
    BY Zenon, <1>u DEF WireInv, Numbers
  <2>3. RemovalFails' /\ FiledAsMade'
    BY Zenon, <1>u DEF WireInv, RemovalFails, FiledAsMade
  <2> QED BY Zenon, <2>1, <2>2, <2>3
<1>3. Filed'
  BY Zenon, <1>u DEF WireInv, Filed
<1>4. NothingOrphaned'
  <2>1. ASSUME NEW j \in live, SendToOnce(j)' \/ (AllThreads(j)' > 0 /\ j \notin stopped)
        PROVE  wires[key[j]] = j
    <3>1. j \in Ifs
      BY Bounds DEF WireInv, TypeOK, Ifs
    <3>2. CASE j = i
      BY Zenon, <3>2 DEF WireInv, NothingOrphaned, SendToOnce
    <3>3. CASE j # i
      BY Zenon, <1>u, <2>1, <3>1, <3>3 DEF WireInv, NothingOrphaned, SendToOnce, AllThreads
    <3> QED BY Zenon, <3>2, <3>3
  <2> QED BY Zenon, <1>u, <2>1 DEF NothingOrphaned
<1> QED BY Zenon, <1>1, <1>2, <1>3, <1>4 DEF WireInv

\* The steps of the receive threads, which may end the daemon.
LEMMA ThreadStepInv ==
  ASSUME WireInv, NEW i \in Ifs, ThreadStep(i)
  PROVE  WireInv'
<1>t. threads \in [Ifs -> [ThreadStates -> Nat]]
  BY Zenon DEF WireInv, TypeOK
<1>1. i \in handles
  BY <1>t DEF ThreadStep, ThreadOpen, ThreadFrame, ThreadSent, ThreadStop, WireInv, Filed, NoThreads,
             ThreadStates
<1>2. CASE Die
  BY Zenon, <1>2, DieInv
<1>3. CASE ~Die
  <2>1. UNCHANGED <<up, restarts, index, ifVars, wires, handles, stopped, callVars>>
    BY Zenon, <1>3 DEF ThreadStep, ThreadOpen, ThreadFrame, ThreadSent, ThreadStop
  <2>2. \/ \E a, b \in ThreadStates : a # b /\ threads[i][a] > 0 /\ Move(i, a, b)
        \/ threads[i]["wait"] > 0 /\ threads' = [threads EXCEPT ![i]["wait"] = @ - 1]
    BY Zenon, <1>3 DEF ThreadStep, ThreadOpen, ThreadFrame, ThreadSent, ThreadStop, ThreadStates
  <2>3. CASE \E a, b \in ThreadStates : a # b /\ threads[i][a] > 0 /\ Move(i, a, b)
    <3>1. PICK a \in ThreadStates, b \in ThreadStates :
            a # b /\ threads[i][a] > 0 /\ Move(i, a, b)
      BY Zenon, <2>3
    <3>2. threads[i] \in [ThreadStates -> Nat] /\ threads[i][a] - 1 \in Nat /\ threads[i][b] + 1 \in Nat
      BY <1>t, <3>1
    <3> DEFINE f == [threads[i] EXCEPT ![a] = @ - 1, ![b] = @ + 1]
    <3>3. f \in [ThreadStates -> Nat] /\ threads' = [threads EXCEPT ![i] = f]
      BY Zenon, <3>1, <3>2 DEF Move
    <3> HIDE DEF f
    <3>4. /\ threads' \in [Ifs -> [ThreadStates -> Nat]]
          /\ \A j \in Ifs \ {i} : threads'[j] = threads[j]
      BY Zenon, <1>t, <3>3
    <3> QED BY Zenon, <1>1, <2>1, <3>4, ThreadInv
  <2>4. CASE threads[i]["wait"] > 0 /\ threads' = [threads EXCEPT ![i]["wait"] = @ - 1]
    <3>1. threads[i] \in [ThreadStates -> Nat] /\ threads[i]["wait"] - 1 \in Nat
      BY <1>t, <2>4 DEF ThreadStates
    <3>2. [threads[i] EXCEPT !["wait"] = @ - 1] \in [ThreadStates -> Nat]
      BY Zenon, <3>1
    <3>3. /\ threads' \in [Ifs -> [ThreadStates -> Nat]]
          /\ \A j \in Ifs \ {i} : threads'[j] = threads[j]
      BY Zenon, <1>t, <2>4, <3>2
    <3> QED BY Zenon, <1>1, <2>1, <3>3, ThreadInv
  <2> QED BY Zenon, <2>2, <2>3, <2>4
<1> QED BY Zenon, <1>2, <1>3

\* A wire that exists is answered with one more receive thread.
LEMMA RemoteExistsInv ==
  ASSUME WireInv, NEW c \in Callers, NEW k \in Keys, RemoteExists(c, k)
  PROVE  WireInv'
<1> DEFINE i == wires[k]
<1>1. i \in handles
  BY Zenon DEF RemoteExists, LinkKey, WireInv, Filed
<1>2. threads \in [Ifs -> [ThreadStates -> Nat]] /\ i \in Ifs
  BY Zenon, <1>1 DEF WireInv, TypeOK
<1>3. threads' = [threads EXCEPT ![i]["fresh"] = @ + 1]
  BY Zenon DEF RemoteExists, LinkKey, Receive
<1> HIDE DEF i
<1>4. threads[i] \in [ThreadStates -> Nat] /\ threads[i]["fresh"] + 1 \in Nat
  BY <1>2 DEF ThreadStates
<1>5. [threads[i] EXCEPT !["fresh"] = @ + 1] \in [ThreadStates -> Nat]
  BY Zenon, <1>4
<1>6. /\ threads' \in [Ifs -> [ThreadStates -> Nat]]
      /\ \A j \in Ifs \ {i} : threads'[j] = threads[j]
  BY Zenon, <1>2, <1>3, <1>5
<1> QED BY Zenon, <1>1, <1>6, ThreadInv DEF RemoteExists

\* A pair that goes takes nothing with it that was not already findable.
LEMMA VethGoneInv ==
  ASSUME WireInv, NEW i \in Ifs, VethGone(i)
  PROVE  WireInv'
<1>u. /\ UNCHANGED <<up, restarts, index, made, key, name, wires, handles, stopped, threads,
                     pc, arg, num, snap, rem, cur, errs>>
      /\ live' = live \ {i}
  BY Zenon DEF VethGone, wireVars, callVars
<1>1. TypeOK'
  BY Zenon, <1>u DEF WireInv, TypeOK
<1>2. Distinct' /\ Numbers' /\ UsedUp' /\ RemovalFails' /\ FiledAsMade'
  <2>1. Distinct' /\ UsedUp'
    BY Zenon, <1>u DEF WireInv, Distinct, UsedUp
  <2>2. Numbers'
    BY Zenon, <1>u DEF WireInv, Numbers
  <2>3. RemovalFails' /\ FiledAsMade'
    BY Zenon, <1>u DEF WireInv, RemovalFails, FiledAsMade
  <2> QED BY Zenon, <2>1, <2>2, <2>3
<1>3. Filed' /\ NothingOrphaned'
  BY Zenon, <1>u DEF WireInv, Filed, NothingOrphaned, SendToOnce, AllThreads
<1> QED BY Zenon, <1>1, <1>2, <1>3 DEF WireInv

\* A new process starts with empty maps.
LEMMA RestartInv ==
  ASSUME WireInv, Restart
  PROVE  WireInv'
<1>u. UNCHANGED <<made, live, key, name>>
  BY Zenon DEF Restart, ifVars
<1>1. TypeOK'
  <2>1. NoThreads \in [ThreadStates -> Nat]
    BY Zenon DEF NoThreads
  <2>2. restarts' \in 0 .. MaxRestarts /\ up' \in BOOLEAN /\ index' \in 0 .. MaxIndex
    BY Bounds DEF WireInv, TypeOK, Restart
  <2>3. WireType'
    BY <2>1, Bounds DEF Restart, WireType
  <2>4. CallType'
    BY Bounds DEF Restart, CallType, PCs
  <2>5. IfType'
    BY Zenon, <1>u, Types DEF WireInv, IfType
  <2> QED BY Zenon, <2>2, <2>3, <2>4, <2>5 DEF TypeOK, WireType, CallType, IfType, PCs
<1>2. Distinct'
  BY Zenon, <1>u DEF WireInv, Distinct
<1>3. Numbers' /\ Filed' /\ UsedUp' /\ RemovalFails'
  BY Zenon DEF Restart, Numbers, Filed, UsedUp, RemovalFails, Making, Filing, Removing
<1>4. NothingOrphaned'
  <2>1. \A i \in Ifs : AllThreads(i)' = 0 /\ ~SendToOnce(i)'
    BY DEF Restart, AllThreads, SendToOnce, NoThreads, ThreadStates
  <2>2. live' \subseteq Ifs
    BY <1>u, Bounds DEF WireInv, TypeOK, Ifs
  <2> QED BY <2>1, <2>2 DEF NothingOrphaned
<1>5. FiledAsMade'
  BY Zenon DEF Restart, FiledAsMade
<1> QED BY Zenon, <1>1, <1>2, <1>3, <1>4, <1>5 DEF WireInv

\* RemGRPCWire reads the wires of its pod.
LEMMA RemGRPCWireInv ==
  ASSUME WireInv, NEW c \in Callers, NEW p \in Pods, RemGRPCWire(c, p)
  PROVE  WireInv'
<1>u. UNCHANGED <<up, restarts, index, made, live, key, name, wires, handles, stopped, threads,
                  arg, num, cur, errs>>
  BY Zenon DEF RemGRPCWire, ifVars, wireVars
<1>p. /\ snap' = [snap EXCEPT ![c] = GetWiresByPod(p)] /\ rem' = [rem EXCEPT ![c] = GetWiresByPod(p)]
      /\ pc' = [pc EXCEPT ![c] = "rem"]
  BY Zenon DEF RemGRPCWire
<1>g. GetWiresByPod(p) \subseteq Ifs /\ GetWiresByPod(p) \subseteq handles
  <2>1. 0 \notin Ifs
    BY DEF Ifs
  <2> QED BY Zenon, <2>1 DEF GetWiresByPod, WireInv, Filed
<1>t. /\ snap \in [Callers -> SUBSET Ifs] /\ rem \in [Callers -> SUBSET Ifs]
      /\ pc \in [Callers -> PCs]
  BY Zenon, Types DEF WireInv, CallType
<1>1. TypeOK'
  <2>1. CallType'
    <3>1. pc' \in [Callers -> PCs]
      BY Zenon, <1>p, <1>t DEF PCs
    <3>2. snap' \in [Callers -> SUBSET Ifs] /\ rem' \in [Callers -> SUBSET Ifs]
      BY Zenon, <1>p, <1>g, <1>t
    <3> QED BY Zenon, <1>u, <3>1, <3>2, Types DEF WireInv, CallType
  <2> QED BY Zenon, <1>u, <2>1 DEF WireInv, TypeOK, CallType, PCs
<1>2. Distinct' /\ NothingOrphaned' /\ FiledAsMade'
  BY Zenon, <1>u DEF WireInv, Distinct, NothingOrphaned, SendToOnce, AllThreads, FiledAsMade
<1>3. Numbers'
  BY Zenon, <1>u, <1>p, <1>t DEF WireInv, Numbers, Making, Filing
<1>4. Filed'
  BY Zenon, <1>u, <1>p, <1>t, <1>g DEF WireInv, Filed, Removing
<1>5. UsedUp'
  BY Zenon, <1>u, <1>p, <1>t DEF WireInv, UsedUp, Making
<1>6. RemovalFails'
  BY Zenon, <1>u, <1>p, <1>t DEF WireInv, RemovalFails
<1> QED BY Zenon, <1>1, <1>2, <1>3, <1>4, <1>5, <1>6 DEF WireInv

\* A step of RemoveWire moves only its handler on, and takes away pairs only.
LEMMA RemovingInv ==
  ASSUME WireInv, NEW c \in Callers, NEW label \in Removing \cup {"rem"},
         pc' = [pc EXCEPT ![c] = label], UNCHANGED <<up, restarts, index, made, key, name,
                                                    wires, handles, threads, arg, num, snap>>,
         live' \subseteq live,
         stopped' \subseteq handles, stopped \subseteq stopped',
         rem' \in [Callers -> SUBSET Ifs], \A d \in Callers : rem'[d] \subseteq rem[d],
         cur' \in [Callers -> 0 .. MaxIfs], errs' \in [Callers -> BOOLEAN],
         \A d \in Callers \ {c} : rem'[d] = rem[d] /\ cur'[d] = cur[d] /\ errs'[d] = errs[d],
         label \in Removing => cur'[c] \in handles,
         label = "again" => cur'[c] \notin live',
         label = "rem" => errs'[c]
  PROVE  WireInv'
<1>t. pc \in [Callers -> PCs] /\ up \in BOOLEAN
  BY Zenon, Types DEF WireInv, CallType, DaemonType
<1>1. TypeOK'
  <2>1. pc' \in [Callers -> PCs]
    BY Zenon, <1>t DEF PCs, Removing
  <2>2. stopped' \subseteq Ifs /\ live' \subseteq 1 .. made
    BY Zenon DEF WireInv, TypeOK
  <2> QED BY Zenon, <2>1, <2>2 DEF WireInv, TypeOK, PCs
<1>2. Distinct'
  BY Zenon DEF WireInv, Distinct
<1>3. Numbers'
  <2>1. \A d \in Callers : pc'[d] \in Making \cup Filing => pc[d] = pc'[d]
    BY Zenon, <1>t DEF Making, Filing, Removing
  <2>2. \A d \in Callers : pc'[d] \in Filing => pc[d] = pc'[d]
    BY Zenon, <2>1
  <2> QED BY <2>1, <2>2 DEF WireInv, Numbers
<1>4. Filed'
  <2>1. \A d \in Callers : rem'[d] \subseteq handles
    BY Zenon DEF WireInv, Filed
  <2>2. \A d \in Callers : pc'[d] \in Removing => cur'[d] \in handles
    BY Zenon, <1>t DEF WireInv, Filed
  <2> QED BY Zenon, <2>1, <2>2 DEF WireInv, Filed
<1>5. UsedUp'
  <2>1. \A d \in Callers : pc'[d] \in Making => pc[d] = pc'[d]
    BY Zenon, <1>t DEF Making, Removing
  <2> QED BY Zenon, <2>1 DEF WireInv, UsedUp
<1>6. RemovalFails'
  BY Zenon, <1>t DEF WireInv, RemovalFails, Removing
<1>7. NothingOrphaned'
  BY Zenon DEF WireInv, NothingOrphaned, SendToOnce, AllThreads
<1>8. FiledAsMade'
  BY Zenon DEF WireInv, FiledAsMade
<1> QED BY Zenon, <1>1, <1>2, <1>3, <1>4, <1>5, <1>6, <1>7, <1>8 DEF WireInv

\* The steps of RemoveWire.
LEMMA RemoveInv ==
  ASSUME WireInv, NEW c \in Callers,
         \/ \E i \in Ifs : RemoveClose(c, i)
         \/ RemoveFind(c) \/ RemoveVeth(c) \/ RemoveVethAgain(c)
  PROVE  WireInv'
<1>t. CallType /\ IfType /\ WireType /\ DaemonType
  BY Zenon, Types DEF WireInv
<1>h. /\ handles \subseteq 1 .. made /\ rem[c] \subseteq handles /\ stopped \subseteq handles
      /\ pc[c] \in Removing => cur[c] \in handles
  BY Zenon DEF WireInv, Filed
<1>1. ASSUME NEW i \in Ifs, RemoveClose(c, i) PROVE WireInv'
  <2>1. CASE i \in stopped
    BY Zenon, <1>1, <2>1, DieInv DEF RemoveClose
  <2>2. CASE i \notin stopped
    <3>1. /\ i \in rem[c] /\ stopped' = stopped \union {i}
          /\ cur' = [cur EXCEPT ![c] = i] /\ rem' = [rem EXCEPT ![c] = @ \ {i}]
          /\ pc' = [pc EXCEPT ![c] = "find"]
          /\ UNCHANGED <<up, restarts, index, made, live, key, name, wires, handles, threads,
                         arg, num, snap, errs>>
      BY Zenon, <1>1, <2>2 DEF RemoveClose, ifVars
    <3>2. i \in handles /\ i \in 0 .. MaxIfs
      BY <1>h, <1>t, <3>1, Bounds DEF Ifs
    <3>3. /\ cur' \in [Callers -> 0 .. MaxIfs] /\ cur'[c] = i
          /\ \A d \in Callers \ {c} : cur'[d] = cur[d]
      BY Zenon, <1>t, <3>1, <3>2 DEF CallType
    <3>4. /\ rem' \in [Callers -> SUBSET Ifs] /\ \A d \in Callers : rem'[d] \subseteq rem[d]
          /\ \A d \in Callers \ {c} : rem'[d] = rem[d]
      BY Zenon, <1>t, <3>1 DEF CallType
    <3>5. errs' \in [Callers -> BOOLEAN]
      BY Zenon, <1>t, <3>1 DEF CallType
    <3> QED BY Zenon, <1>h, <3>1, <3>2, <3>3, <3>4, <3>5, RemovingInv DEF Removing
  <2> QED BY Zenon, <2>1, <2>2
<1>2. CASE RemoveFind(c)
  <2>1. pc[c] = "find" /\ cur[c] \in handles
    BY Zenon, <1>2, <1>h DEF RemoveFind, Removing
  <2>2. CASE cur[c] \notin live
    BY Zenon, <1>2, <2>2, DieInv DEF RemoveFind
  <2>3. CASE cur[c] \in live
    <3>1. /\ pc' = [pc EXCEPT ![c] = "del"]
          /\ UNCHANGED <<up, restarts, index, made, live, key, name, wires, handles, stopped, threads,
                         arg, num, snap, rem, cur, errs>>
      BY Zenon, <1>2, <2>3 DEF RemoveFind, ifVars, wireVars
    <3> QED BY Zenon, <1>h, <1>t, <2>1, <3>1, RemovingInv DEF Removing, CallType
  <2> QED BY Zenon, <2>2, <2>3
<1>3. CASE RemoveVeth(c)
  <2>1. /\ pc[c] = "del" /\ cur[c] \in handles
        /\ UNCHANGED <<up, restarts, index, made, key, name, wires, handles, stopped, threads,
                       arg, num, snap, rem>>
    BY Zenon, <1>3, <1>h DEF RemoveVeth, Removing, wireVars
  <2>2. CASE Named(name[cur[c]]) = {}
    <3>1. /\ errs' = [errs EXCEPT ![c] = TRUE] /\ pc' = [pc EXCEPT ![c] = "rem"]
          /\ cur' = [cur EXCEPT ![c] = 0] /\ live' = live
      BY Zenon, <1>3, <2>2 DEF RemoveVeth, NoteError, NextWire
    <3>2. /\ cur' \in [Callers -> 0 .. MaxIfs] /\ errs' \in [Callers -> BOOLEAN] /\ errs'[c]
          /\ \A d \in Callers \ {c} : cur'[d] = cur[d] /\ errs'[d] = errs[d]
      BY <1>t, <3>1, Bounds DEF CallType
    <3> QED BY Zenon, <1>h, <1>t, <2>1, <3>1, <3>2, RemovingInv DEF Removing, CallType
  <2>3. CASE Named(name[cur[c]]) # {}
    <3>1. /\ live' = live \ Named(name[cur[c]]) /\ pc' = [pc EXCEPT ![c] = "again"]
          /\ UNCHANGED <<errs, cur>>
      BY Zenon, <1>3, <2>3 DEF RemoveVeth
    <3>2. cur[c] \notin live'
      BY Zenon, <3>1 DEF Named
    <3> QED BY Zenon, <1>h, <1>t, <2>1, <3>1, <3>2, RemovingInv DEF Removing, CallType
  <2> QED BY Zenon, <2>2, <2>3
<1>4. CASE RemoveVethAgain(c)
  <2>1. pc[c] = "again" /\ cur[c] \in handles /\ cur[c] \notin live
    BY Zenon, <1>4, <1>h DEF RemoveVethAgain, Removing, WireInv, RemovalFails
  <2>2. Named(name[cur[c]]) = {}
    BY Zenon, <2>1 DEF WireInv, UsedUp, Named
  <2>3. /\ errs' = [errs EXCEPT ![c] = TRUE] /\ pc' = [pc EXCEPT ![c] = "rem"]
        /\ cur' = [cur EXCEPT ![c] = 0]
        /\ UNCHANGED <<up, restarts, index, made, live, key, name, wires, handles, stopped, threads,
                       arg, num, snap, rem>>
    BY Zenon, <1>4, <2>2 DEF RemoveVethAgain, NoteError, NextWire
  <2>4. /\ cur' \in [Callers -> 0 .. MaxIfs] /\ errs' \in [Callers -> BOOLEAN] /\ errs'[c]
        /\ \A d \in Callers \ {c} : cur'[d] = cur[d] /\ errs'[d] = errs[d]
    BY <1>t, <2>3, Bounds DEF CallType
  <2> QED BY Zenon, <1>h, <1>t, <2>3, <2>4, RemovingInv DEF Removing, CallType
<1> QED BY Zenon, <1>1, <1>2, <1>3, <1>4

\* The invariant of the wires, through every interleaving of the handlers, the
\* receive threads, restarts of the daemon and pairs that go.
THEOREM WiresCorrect == Spec => []WireInv
<1>1. Init => WireInv
  <2> SUFFICES ASSUME Init PROVE WireInv
    BY Zenon
  <2>1. TypeOK
    <3>1. NoThreads \in [ThreadStates -> Nat]
      BY Zenon DEF NoThreads
    <3>2. WireType
      BY <3>1, Bounds DEF Init, WireType
    <3>3. CallType
      BY Bounds DEF Init, CallType, PCs
    <3>4. IfType /\ DaemonType
      BY Bounds DEF Init, IfType, DaemonType
    <3> QED BY Zenon, <3>2, <3>3, <3>4, Types
  <2>2. Distinct /\ Numbers /\ Filed /\ UsedUp /\ RemovalFails
    BY DEF Init, Distinct, Numbers, Filed, UsedUp, RemovalFails, Making, Filing, Removing
  <2>3. NothingOrphaned /\ FiledAsMade
    BY Zenon DEF Init, NothingOrphaned, FiledAsMade
  <2> QED BY Zenon, <2>1, <2>2, <2>3 DEF WireInv
<1>2. WireInv /\ [Next]_vars => WireInv'
  <2> SUFFICES ASSUME WireInv, [Next]_vars PROVE WireInv'
    BY Zenon
  <2>1. CASE UNCHANGED vars
    <3>1. UNCHANGED <<up, restarts, index, made, live, key, name, wires, handles, stopped, threads,
                      pc, arg, num, snap, rem, cur, errs>>
      BY Zenon, <2>1 DEF vars, ifVars, wireVars, callVars
    <3>2. TypeOK' /\ Distinct' /\ Numbers' /\ Filed' /\ UsedUp' /\ RemovalFails'
      BY <3>1 DEF WireInv, TypeOK, Distinct, Numbers, Filed, UsedUp, RemovalFails
    <3>3. NothingOrphaned' /\ FiledAsMade'
      BY Zenon, <3>1 DEF WireInv, NothingOrphaned, SendToOnce, AllThreads, FiledAsMade
    <3> QED BY Zenon, <3>2, <3>3 DEF WireInv
  <2>2. ASSUME NEW c \in Callers, HandlerStep(c) PROVE WireInv'
    <3>1. CASE \E k \in Keys : RemoteExists(c, k)
      BY Zenon, <3>1, RemoteExistsInv
    <3>2. CASE \E k \in Keys : RemoteNew(c, k) \/ GenerateNodeInterfaceName(c, k)
      BY Zenon, <3>2, GenNodeIfaceNameInv DEF RemoteNew, GenerateNodeInterfaceName, Making
    <3>3. CASE RemoteMake(c) \/ ClientVeth(c)
      <4>1. PICK next \in Filing :
              /\ pc[c] \in Making
              /\ \/ PairMade(c, next)
                 \/ Return(c) /\ UNCHANGED <<up, restarts, index, ifVars, wireVars>>
        BY Zenon, <3>3 DEF RemoteMake, ClientVeth, MakeVeth, Making, Filing
      <4> QED BY Zenon, <4>1, PairMadeInv, ReturnInv
    <3>4. CASE RemReturn(c)
      BY Zenon, <3>4, ReturnInv DEF RemReturn
    <3> QED BY Zenon, <2>2, <3>1, <3>2, <3>3, <3>4, FileInv, RemGRPCWireInv, RemoveInv DEF HandlerStep
  <2> QED BY Zenon, <2>1, <2>2, ThreadStepInv, VethGoneInv, RestartInv DEF Next
<1> QED BY <1>1, <1>2, PTL DEF Spec

\* The variables keep their types; above all, a receive thread is never taken from
\* a wire that has none, and the numbers of the interfaces stay in their bounds.
THEOREM WiresTyped == Spec => []TypeOK
<1>1. WireInv => TypeOK
  BY Zenon DEF WireInv
<1> QED BY <1>1, WiresCorrect, PTL

\* Whatever still works on an interface that exists is found by RemGRPCWire.
THEOREM NoOrphans == Spec => []NothingOrphaned
<1>1. WireInv => NothingOrphaned
  BY Zenon DEF WireInv
<1> QED BY <1>1, WiresCorrect, PTL

\* A RemGRPCWire that answers without an error leaves none of the wires it found.
THEOREM RemovalTruth == Spec => []RemovalTellsTruth
<1>1. WireInv => RemovalTellsTruth
  BY Zenon DEF WireInv, RemovalFails, RemovalTellsTruth, Answers
<1> QED BY <1>1, WiresCorrect, PTL

\* The wire filed for a link is on the pair that was made for this link, whichever
\* handlers run at once and whatever an earlier life of the daemon has left.
THEOREM WiresFiledAsMade == Spec => []FiledAsMade
<1>1. WireInv => FiledAsMade
  BY Zenon DEF WireInv
<1> QED BY <1>1, WiresCorrect, PTL
=============================================================================
