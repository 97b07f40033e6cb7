----------------------------- MODULE NodeProofs -----------------------------
(***************************************************************************)
(* What holds on a node for any pods, sockets and number of processes of   *)
(* the daemon.  Neither part disturbs the other: an invariant of Lifecycle *)
(* needs only the steps of main, one of Bypass only those of the programs. *)
(***************************************************************************)
EXTENDS Node, SequenceTheorems, TLAPS

-----------------------------------------------------------------------------
(* Lifecycle                                                               *)

\* How far main is with what it installs.
Loaded == {"type", "typed", "conf", "confed", "bypass", "new", "serve"}
TypeSaved == {"conf", "confed", "bypass", "new", "serve"}
ConfSaved == {"bypass", "new", "serve"}

\* What main has written is there until it is done: main never goes back, and
\* nobody else writes the files.
InstallInv ==
  /\ LifeTypeOK
  /\ main \in Loaded => loaded = <<Base>>
  /\ main \in TypeSaved => linkType = "set"
  /\ main \in ConfSaved => conf = <<Base, Kubedtn>>

LifeStep ==
  \/ InstallBase \/ Start \/ LoadConf \/ saveInterNodeLinkConf \/ saveConfList
  \/ BypassReady \/ BypassFails \/ Cleanup \/ NewServes \/ Killed

\* The lists of plugins that are loaded and saved (loadConfList, saveConfList).
LEMMA PluginLists ==
  /\ <<>> \in Seq({Base, Kubedtn})
  /\ <<Base>> \in Seq({Base, Kubedtn})
  /\ <<Base>> # <<>>
  /\ <<Base, Kubedtn>> \in Seq({Base, Kubedtn})
  /\ Append(<<Base>>, Kubedtn) = <<Base, Kubedtn>>
  <1>1. /\ <<>> \in Seq({Base, Kubedtn})
        /\ <<Base>> \in Seq({Base, Kubedtn})
        /\ <<Base, Kubedtn>> \in Seq({Base, Kubedtn})
    OBVIOUS
  <1>2. <<Base>> # <<>>
    BY Zenon
  <1>3. Append(<<Base>>, Kubedtn) = <<Base, Kubedtn>>
    <2> DEFINE Plugins == {Base, Kubedtn}
    <2>1. /\ Append(<<Base>>, Kubedtn) \in Seq(Plugins)
          /\ Len(Append(<<Base>>, Kubedtn)) = 2
          /\ \A i \in 1 .. 2 : Append(<<Base>>, Kubedtn)[i] = <<Base, Kubedtn>>[i]
      OBVIOUS
    <2>2. <<Base, Kubedtn>> \in Seq(Plugins) /\ Len(<<Base, Kubedtn>>) = 2
      OBVIOUS
    <2> HIDE DEF Plugins
    <2> QED BY Zenon, <2>1, <2>2, SeqEqual
  <1> QED BY Zenon, <1>1, <1>2, <1>3

\* A node starts without files and without a process (LifeInit).
LEMMA InstallInit == LifeInit => InstallInv
  <1> SUFFICES ASSUME LifeInit PROVE InstallInv
    BY Zenon
  <1>1. /\ main = "down" /\ loaded = <<>> /\ conf = NoFile /\ linkType = NoFile
        /\ lives = 0 /\ bypass \in BOOLEAN /\ base \in BOOLEAN
    BY Zenon DEF LifeInit
  <1>2. 0 \in 0 .. MaxLives
    BY LifecycleAssumption
  <1>3. LifeTypeOK
    BY <1>1, <1>2, PluginLists, Zenon DEF LifeTypeOK, Mains
  <1> QED
    BY Zenon, <1>1, <1>3 DEF InstallInv, Loaded, TypeSaved, ConfSaved

\* cni.Init reads and writes the files in turn.
LEMMA InitKeepsInstall ==
  ASSUME InstallInv, LoadConf \/ saveInterNodeLinkConf \/ saveConfList
  PROVE  InstallInv'
  <1> USE DEF InstallInv, LifeTypeOK, Mains, Loaded, TypeSaved, ConfSaved
  <1>1. CASE LoadConf
    BY Zenon, <1>1, PluginLists DEF LoadConf, loadConfList, Exit
  <1>2. CASE saveInterNodeLinkConf
    BY Zenon, <1>2 DEF saveInterNodeLinkConf, Exit
  <1>3. CASE saveConfList
    BY Zenon, <1>3, PluginLists DEF saveConfList, Exit
  <1> QED BY Zenon, <1>1, <1>2, <1>3

\* The rest of main, its end, and the next process.
LEMMA MainKeepsInstall ==
  ASSUME InstallInv,
         InstallBase \/ Start \/ BypassReady \/ BypassFails \/ Cleanup \/ NewServes \/ Killed
  PROVE  InstallInv'
  <1> USE LifecycleAssumption DEF InstallInv, LifeTypeOK, Mains, Loaded, TypeSaved, ConfSaved
  <1>1. CASE InstallBase
    BY Zenon, <1>1 DEF InstallBase
  <1>2. CASE Start
    BY <1>2 DEF Start
  <1>3. CASE BypassReady
    BY Zenon, <1>3 DEF BypassReady
  <1>4. CASE BypassFails
    BY Zenon, <1>4 DEF BypassFails
  <1>5. CASE Cleanup
    BY Zenon, <1>5 DEF Cleanup, Exit
  <1>6. CASE NewServes
    BY Zenon, <1>6 DEF NewServes
  <1>7. CASE Killed
    BY Zenon, <1>7 DEF Killed, Exit
  <1> QED BY Zenon, <1>1, <1>2, <1>3, <1>4, <1>5, <1>6, <1>7

\* Steps of the bypass leave main and its files alone.
LEMMA InstallStutter ==
  ASSUME InstallInv, UNCHANGED lifeVars PROVE InstallInv'
  BY Zenon DEF InstallInv, lifeVars, LifeTypeOK

\* A step of a node is one of main, or leaves main's variables alone.
LEMMA NodeLifeStep == [Next]_nodeVars => LifeStep \/ UNCHANGED lifeVars
  BY Zenon DEF Next, nodeVars, MainStep, LoadProgram, SetVethQdiscs, LifeStep

\* The invariant of what main installs holds throughout.
LEMMA InstallAlways == Spec => []InstallInv
  <1>1. Init => InstallInv
    BY Zenon, InstallInit DEF Init
  <1>2. InstallInv /\ [Next]_nodeVars => InstallInv'
    BY Zenon, NodeLifeStep, InitKeepsInstall, MainKeepsInstall, InstallStutter DEF LifeStep
  <1> QED BY <1>1, <1>2, PTL DEF Spec

\* While the daemon serves, the kubelet finds the node's own plugins followed by
\* the kubedtn plugin, and the type of the links between nodes (main, cni.Init).
THEOREM Installed == Spec => []ServingInstalled
  <1>1. InstallInv => ServingInstalled
    BY Zenon DEF InstallInv, ServingInstalled, TypeSaved, ConfSaved
  <1> QED BY <1>1, InstallAlways, PTL

-----------------------------------------------------------------------------
(* Bypass: types, and traffic of shaped interfaces                         *)

\* The connections that passed redir_disable.c when they were off the bypass pass
\* it still, which is why the egress takes them off again.
ShapedInv ==
  /\ BypassTypeOK
  /\ covered \subseteq disabling
  /\ ShapedLeavesBypass

\* The socket of a client (struct socket_4_tuple).
LEMMA ClientEnd ==
  ASSUME NEW a \in Clients, NEW d \in Dialled
  PROVE  <<a, d>> \in Sockets /\ <<a, d>>[1] = a /\ ClientOf(<<a, d>>) = a
  BY Zenon DEF Sockets, ClientOf

\* The socket of a server to a client.
LEMMA ServerEnd ==
  ASSUME NEW a \in Clients, NEW b \in Servers
  PROVE  /\ <<b, a>> \in Ends /\ <<b, a>>[1] \notin Clients /\ ClientOf(<<b, a>>) = a
         /\ b \in Here => <<b, a>> \in Sockets
  <1>1. /\ b \notin Clients /\ <<b, a>>[1] = b /\ <<b, a>>[2] = a
        /\ <<b, a>> \in Servers \X Clients
    BY Zenon DEF Servers
  <1>2. b \in Here => <<b, a>> \in (Here \ Clients) \X Clients
    BY Zenon, <1>1
  <1> QED BY Zenon, <1>1, <1>2 DEF Ends, Sockets, ClientOf

\* A socket is one or the other.
LEMMA SocketForms ==
  ASSUME NEW s \in Sockets
  PROVE  \/ \E a \in Clients, d \in Dialled : s = <<a, d>>
         \/ \E a \in Clients, b \in Servers : b \in Here /\ s = <<b, a>>
  <1>1. CASE s \in Clients \X Dialled
    BY <1>1
  <1>2. CASE s \in (Here \ Clients) \X Clients
    BY <1>2 DEF Servers
  <1> QED BY Zenon, <1>1, <1>2 DEF Sockets

\* Each has a client, and its own address is of this node.
LEMMA SocketParts ==
  ASSUME NEW s \in Sockets
  PROVE  s[1] \in Here /\ ClientOf(s) \in Clients /\ (s[1] \in Clients => ClientOf(s) = s[1])
  <1>1. ASSUME NEW a \in Clients, NEW d \in Dialled, s = <<a, d>>
        PROVE  s[1] \in Here /\ ClientOf(s) \in Clients /\ ClientOf(s) = s[1]
    <2>1. <<a, d>>[1] = a /\ ClientOf(<<a, d>>) = a /\ a \in Here
      BY Zenon, ClientEnd, BypassAssumption
    <2> QED BY Zenon, <1>1, <2>1
  <1>2. ASSUME NEW a \in Clients, NEW b \in Servers, b \in Here, s = <<b, a>>
        PROVE  s[1] \in Here /\ ClientOf(s) \in Clients /\ s[1] \notin Clients
    <2>1. <<b, a>>[1] = b /\ <<b, a>>[1] \notin Clients /\ ClientOf(<<b, a>>) = a
      BY Zenon, ServerEnd
    <2> QED BY Zenon, <1>2, <2>1
  <1> QED BY Zenon, <1>1, <1>2, SocketForms

\* No connection is recorded, and nothing shaped, at first.
LEMMA ShapedInit == BypassInit => ShapedInv
  <1> SUFFICES ASSUME BypassInit PROVE ShapedInv
    BY Zenon
  <1> USE DEF BypassInit
  <1>1. /\ sockops \in BOOLEAN /\ verdict \in BOOLEAN
    BY Zenon
  <1>2. /\ alive \subseteq Sockets /\ redir \subseteq Sockets /\ sending \subseteq Sockets
        /\ disabling \subseteq Sockets /\ covered \subseteq Sockets
        /\ missed \subseteq Clients /\ covered \subseteq disabling
    BY Zenon
  <1>3. /\ end \in [Sockets -> Ends \cup {NoSocket}]
        /\ active \in [Here -> Dialled \cup {NoAddr}]
        /\ to \in [Sockets -> Sockets \cup {NoSocket}]
        /\ flag \in [Sockets -> Flags]
    BY Zenon DEF Flags
  <1>4. stack \in [Sockets -> 0 .. MaxStack]
    BY BypassAssumption
  <1>5. ShapedLeavesBypass
    BY Zenon DEF ShapedLeavesBypass
  <1> QED BY Zenon, <1>1, <1>2, <1>3, <1>4, <1>5 DEF ShapedInv, BypassTypeOK

\* sockops.c, a client's socket is established.
LEMMA ActiveKeepsShaped ==
  ASSUME ShapedInv, NEW a \in Clients, NEW d \in Dialled, NEW b \in Servers,
         ActiveEstablish(a, d, b)
  PROVE  ShapedInv'
  <1>1. <<a, d>> \in Sockets /\ <<b, a>> \in Ends
    BY Zenon, ClientEnd, ServerEnd
  <1>2. /\ alive' \subseteq Sockets /\ redir' \subseteq Sockets
        /\ end' \in [Sockets -> Ends \cup {NoSocket}]
        /\ active' \in [Here -> Dialled \cup {NoAddr}]
    BY Zenon, <1>1 DEF ActiveEstablish, ShapedInv, BypassTypeOK
  <1>3. missed' \subseteq Clients
    BY Zenon DEF ActiveEstablish, ShapedInv, BypassTypeOK
  <1> QED
    BY Zenon, <1>2, <1>3
    DEF ActiveEstablish, programs, ShapedInv, BypassTypeOK, ShapedLeavesBypass

\* sockops.c records the two ends of a connection with PROXY_INIT.
LEMMA RecordKeepsShaped ==
  ASSUME ShapedInv, NEW a \in Clients, NEW b \in Servers, b \in Here, NEW d \in Dialled,
         Record(a, b, d)
  PROVE  /\ to' \in [Sockets -> Sockets \cup {NoSocket}]
         /\ flag' \in [Sockets -> Flags]
         /\ covered' \subseteq Sockets /\ covered' \subseteq disabling
         /\ \A s \in covered' : flag'[s] = "ENABLED" => stack[s] > 0
  <1>1. <<a, d>> \in Sockets /\ <<b, a>> \in Sockets
    BY Zenon, ClientEnd, ServerEnd
  <1>2. to' \in [Sockets -> Sockets \cup {NoSocket}]
    BY Zenon, <1>1 DEF Record, ShapedInv, BypassTypeOK
  <1>3. flag' \in [Sockets -> Flags]
    BY Zenon, <1>1 DEF Record, ShapedInv, BypassTypeOK, Flags
  <1>4. covered' \subseteq Sockets /\ covered' \subseteq disabling
    BY Zenon, <1>1 DEF Record, ShapedInv, BypassTypeOK
  <1>5. ASSUME NEW s \in covered', flag'[s] = "ENABLED" PROVE stack[s] > 0
    BY Zenon, <1>4, <1>5 DEF Record, ShapedInv, BypassTypeOK, ShapedLeavesBypass
  <1> QED BY Zenon, <1>2, <1>3, <1>4, <1>5

\* sockops.c, the server's socket is established.
LEMMA PassiveKeepsShaped ==
  ASSUME ShapedInv, NEW a \in Clients, NEW d \in Dialled, NEW b \in Servers, b \in Here,
         PassiveEstablish(a, d, b)
  PROVE  ShapedInv'
  <1>1. <<a, d>> \in Sockets /\ <<b, a>> \in Sockets /\ <<a, d>> \in Ends
    BY Zenon, ClientEnd, ServerEnd DEF Ends
  <1>2. /\ alive' \subseteq Sockets /\ end' \in [Sockets -> Ends \cup {NoSocket}]
        /\ UNCHANGED <<sockops, verdict, sending, stack, disabling, missed>>
    BY Zenon, <1>1 DEF PassiveEstablish, Accepts, programs, ShapedInv, BypassTypeOK
  <1>3. CASE sockops /\ active[a] # NoAddr
    <2>1. active[a] \in Dialled
      BY Zenon, <1>3, BypassAssumption DEF ShapedInv, BypassTypeOK
    <2>2. Record(a, b, active[a])
      BY Zenon, <1>3 DEF PassiveEstablish, ServerEstablished
    <2>3. redir' \subseteq Sockets /\ active' \in [Here -> Dialled \cup {NoAddr}]
      BY Zenon, <1>3, <1>1 DEF PassiveEstablish, ServerEstablished, ShapedInv, BypassTypeOK
    <2> QED
      BY Zenon, <1>2, <2>1, <2>2, <2>3, RecordKeepsShaped
      DEF ShapedInv, BypassTypeOK, ShapedLeavesBypass
  <1>4. CASE ~(sockops /\ active[a] # NoAddr)
    <2>1. UNCHANGED <<active, to, flag, redir, covered>>
      BY Zenon, <1>4 DEF PassiveEstablish, maps
    <2> QED BY Zenon, <1>2, <2>1 DEF ShapedInv, BypassTypeOK, ShapedLeavesBypass
  <1> QED BY Zenon, <1>3, <1>4

\* sockops.c, a socket is closed.
LEMMA CloseKeepsShaped ==
  ASSUME ShapedInv, NEW s \in Sockets, Close(s)
  PROVE  ShapedInv'
  <1> USE DEF Close, ShapedInv, BypassTypeOK
  <1>1. missed' \subseteq Clients
    BY Zenon, SocketParts
  <1>2. /\ to' \in [Sockets -> Sockets \cup {NoSocket}]
        /\ flag' \in [Sockets -> Flags]
        /\ active' \in [Here -> Dialled \cup {NoAddr}]
    BY Zenon DEF Flags
  <1>3. alive' \subseteq Sockets /\ redir' \subseteq Sockets
    BY Zenon
  <1>4. end' \in [Sockets -> Ends \cup {NoSocket}]
    BY Zenon
  <1>5. ShapedLeavesBypass'
    BY Zenon DEF ShapedLeavesBypass
  <1> QED BY Zenon, <1>1, <1>2, <1>3, <1>4, <1>5 DEF programs

\* redir.c enables the redirection while its message takes the stack.
LEMMA SendKeepsShaped ==
  ASSUME ShapedInv, NEW s \in Sockets, SendPass(s) \/ SendFirst(s) \/ SendEnable(s)
  PROVE  ShapedInv'
  <1> USE BypassAssumption DEF ShapedInv, BypassTypeOK, ShapedLeavesBypass
  <1>1. CASE SendPass(s)
    <2>1. stack' \in [Sockets -> 0 .. MaxStack]
      BY <1>1 DEF SendPass, Pass
    <2>2. ShapedLeavesBypass'
      BY <1>1 DEF SendPass, Pass, maps
    <2> QED BY Zenon, <1>1, <2>1, <2>2 DEF SendPass, maps, programs
  <1>2. CASE SendFirst(s)
    BY Zenon, <1>2 DEF SendFirst, maps, programs
  <1>3. CASE SendEnable(s)
    <2>1. flag' \in [Sockets -> Flags] /\ stack' \in [Sockets -> 0 .. MaxStack]
      BY <1>3 DEF SendEnable, Pass, Flags
    <2>2. ShapedLeavesBypass'
      BY <1>3 DEF SendEnable, Pass
    <2> QED BY Zenon, <1>3, <2>1, <2>2 DEF SendEnable, programs
  <1> QED BY Zenon, <1>1, <1>2, <1>3

\* redir_disable.c, when the packet leaves.
LEMMA EgressKeepsShaped ==
  ASSUME ShapedInv, NEW s \in Sockets, Egress(s)
  PROVE  ShapedInv'
  <1> USE BypassAssumption DEF ShapedInv, BypassTypeOK
  <1>1. flag' \in [Sockets -> Flags] /\ stack' \in [Sockets -> 0 .. MaxStack]
    BY DEF Egress, Flags
  <1>2. ShapedLeavesBypass'
    BY Zenon DEF Egress, ShapedLeavesBypass, Flags
  <1> QED BY Zenon, <1>1, <1>2 DEF Egress, programs

\* SetVethQdiscs puts redir_disable.c in place: what is redirected then, with no
\* packet on its way, is not covered.
LEMMA SetKeepsShaped ==
  ASSUME ShapedInv, NEW s \in Sockets, ClearVethQdiscs(s) \/ AddBpf(s)
  PROVE  ShapedInv'
  <1> USE DEF ShapedInv, BypassTypeOK
  <1>1. CASE ClearVethQdiscs(s)
    BY Zenon, <1>1 DEF ClearVethQdiscs, maps, programs, ShapedLeavesBypass
  <1>2. CASE AddBpf(s)
    <2>1. stack[s] = 0 \/ stack[s] > 0
      BY BypassAssumption
    <2>2. ShapedLeavesBypass'
      BY Zenon, <1>2, <2>1 DEF AddBpf, maps, ShapedLeavesBypass
    <2> QED BY Zenon, <1>2, <2>2 DEF AddBpf, maps, programs
  <1> QED BY Zenon, <1>1, <1>2

\* The process of the daemon.
LEMMA ProcessKeepsShaped ==
  ASSUME ShapedInv, AttachRedir \/ AttachSockops \/ ProcessGone \/ UNCHANGED bypassVars
  PROVE  ShapedInv'
  <1> USE DEF ShapedInv, BypassTypeOK, ShapedLeavesBypass
  <1>1. CASE AttachRedir
    BY Zenon, <1>1 DEF AttachRedir, maps
  <1>2. CASE AttachSockops
    BY Zenon, <1>2 DEF AttachSockops, maps
  <1>3. CASE ProcessGone
    BY Zenon, <1>3 DEF ProcessGone, maps
  <1>4. CASE UNCHANGED bypassVars
    BY Zenon, <1>4 DEF bypassVars, maps, programs
  <1> QED BY Zenon, <1>1, <1>2, <1>3, <1>4

\* A step of a node is one of the bypass, or leaves its variables alone.
LEMMA NodeBypassStep == [Next]_nodeVars => BypassNext \/ UNCHANGED bypassVars
  BY Zenon DEF Next, nodeVars, MainStep, LoadProgram, SetVethQdiscs, BypassNext

\* Every step of a node keeps it.
LEMMA NextKeepsShaped == ShapedInv /\ [Next]_nodeVars => ShapedInv'
  BY Zenon, NodeBypassStep, ActiveKeepsShaped, PassiveKeepsShaped, CloseKeepsShaped,
     SendKeepsShaped, EgressKeepsShaped, SetKeepsShaped, ProcessKeepsShaped
  DEF BypassNext, BypassStep

\* The invariant of the shaped connections holds throughout.
LEMMA ShapedAlways == Spec => []ShapedInv
  <1>1. Init => ShapedInv
    BY Zenon, ShapedInit DEF Init
  <1> QED BY <1>1, NextKeepsShaped, PTL DEF Spec

\* redir.c never leaves a connection that passes redir_disable.c enabled without a
\* packet of it on its way there, unless it was redirected before (SetVethQdiscs).
THEOREM BypassIsLeft == Spec => []ShapedLeavesBypass
  <1>1. ShapedInv => ShapedLeavesBypass
    BY Zenon DEF ShapedInv
  <1> QED BY <1>1, ShapedAlways, PTL

\* The type invariant of a node.
THEOREM NodeTypes == Spec => []TypeOK
  <1>1. InstallInv /\ ShapedInv => TypeOK
    BY Zenon DEF InstallInv, ShapedInv, TypeOK
  <1> QED BY <1>1, InstallAlways, ShapedAlways, PTL

-----------------------------------------------------------------------------
(* Bypass: the other end of a connection                                   *)

\* The ends of the connections are paired: a server's socket is connected to a
\* client's that is connected to it, and no two sockets to the same one.
PairInv ==
  /\ redir \subseteq alive
  /\ \A s \in alive : end[s] # NoSocket
  /\ \A s \in Sockets : s[1] \notin Clients /\ end[s] # NoSocket =>
       end[s] \in Sockets /\ end[end[s]] = s
  /\ \A s \in Sockets : s[1] \in Clients /\ end[s] # NoSocket => end[s][1] \notin Clients
  /\ \A r, s \in Sockets : end[r] = end[s] /\ end[r] # NoSocket => r = s

\* The connections of a client that the maps keep track of: a record in
\* map_active_estab is of the only one that is open, and an entry of map_proxy
\* names the other end.
TracksClient(a) ==
  /\ active[a] # NoAddr => <<a, active[a]>> \in alive
  /\ \A c, d \in Dialled : <<a, c>> \in alive /\ <<a, d>> \in alive => c = d
  /\ \A s \in Sockets : ClientOf(s) = a /\ to[s] # NoSocket => s \in alive /\ to[s] = end[s]

TrackInv == \A a \in Clients \ missed : TracksClient(a)

\* There are no sockets, and the maps are empty, at first.
LEMMA PairInit == BypassInit => PairInv /\ TrackInv
  <1> SUFFICES ASSUME BypassInit PROVE PairInv /\ TrackInv
    BY Zenon
  <1>1. PairInv
    <2>1. \A s \in Sockets : end[s] = NoSocket
      BY Zenon DEF BypassInit
    <2> QED BY Zenon, <2>1 DEF BypassInit, PairInv
  <1>2. ASSUME NEW a \in Clients PROVE TracksClient(a)
    BY Zenon, BypassAssumption DEF BypassInit, TracksClient
  <1> QED BY Zenon, <1>1, <1>2 DEF TrackInv

\* A connection is opened between ends that have none.
LEMMA ActiveKeepsPairs ==
  ASSUME ShapedInv, PairInv, NEW a \in Clients, NEW d \in Dialled, NEW b \in Servers,
         ActiveEstablish(a, d, b)
  PROVE  PairInv'
  <1> DEFINE c == <<a, d>>
             e == <<b, a>>
  <1>1. /\ c \in Sockets /\ c[1] \in Clients /\ e[1] \notin Clients
        /\ NoSocket \notin Sockets /\ e # NoSocket
    <2>1. <<a, d>> \in Sockets /\ <<a, d>>[1] = a
      BY Zenon, ClientEnd
    <2>2. <<b, a>> \in Ends /\ <<b, a>>[1] \notin Clients
      BY Zenon, ServerEnd
    <2>3. NoSocket \notin Sockets /\ NoSocket \notin Ends
      BY Zenon, BypassAssumption DEF Ends
    <2> QED BY Zenon, <2>1, <2>2, <2>3
  <1>2. /\ end[c] = NoSocket /\ \A r \in Sockets : end[r] # e
        /\ alive' = alive \cup {c}
        /\ redir' \subseteq redir \cup {c}
        /\ end'[c] = e /\ \A r \in Sockets \ {c} : end'[r] = end[r]
    BY Zenon, <1>1 DEF ActiveEstablish, ShapedInv, BypassTypeOK
  <1> HIDE DEF c, e
  <1>3. alive \subseteq Sockets
    BY Zenon DEF ShapedInv, BypassTypeOK
  <1>4. redir' \subseteq alive' /\ \A s \in alive' : end'[s] # NoSocket
    <2>1. redir' \subseteq alive'
      BY Zenon, <1>2 DEF PairInv
    <2>2. ASSUME NEW s \in alive' PROVE end'[s] # NoSocket
      <3>1. CASE s = c
        BY Zenon, <3>1, <1>1, <1>2
      <3>2. CASE s # c
        <4>1. s \in alive /\ end'[s] = end[s]
          BY Zenon, <3>2, <2>2, <1>2, <1>3
        <4> QED BY Zenon, <4>1 DEF PairInv
      <3> QED BY Zenon, <3>1, <3>2
    <2> QED BY Zenon, <2>1, <2>2
  <1>5. ASSUME NEW s \in Sockets, s[1] \notin Clients, end'[s] # NoSocket
        PROVE  end'[s] \in Sockets /\ end'[end'[s]] = s
    <2>1. s # c /\ end'[s] = end[s]
      BY Zenon, <1>1, <1>2, <1>5
    <2>2. end[s] \in Sockets /\ end[end[s]] = s /\ s # NoSocket
      BY Zenon, <2>1, <1>1, <1>5 DEF PairInv
    <2> QED BY Zenon, <2>1, <2>2, <1>2
  <1>6. ASSUME NEW s \in Sockets, s[1] \in Clients, end'[s] # NoSocket
        PROVE  end'[s][1] \notin Clients
    BY Zenon, <1>1, <1>2, <1>6 DEF PairInv
  <1>7. ASSUME NEW r \in Sockets, NEW s \in Sockets, end'[r] = end'[s], end'[r] # NoSocket
        PROVE  r = s
    <2>1. \A q \in Sockets \ {c} : end'[q] # end'[c]
      BY Zenon, <1>2
    <2>2. CASE r # c /\ s # c
      <3>1. end[r] = end[s] /\ end[r] # NoSocket
        BY Zenon, <2>2, <1>2, <1>7
      <3> QED BY Zenon, <3>1 DEF PairInv
    <2> QED BY Zenon, <2>1, <2>2, <1>7
  <1> QED BY Zenon, <1>4, <1>5, <1>6, <1>7 DEF PairInv

\* A server accepts the connection it is the end of.
LEMMA PassiveKeepsPairs ==
  ASSUME ShapedInv, PairInv, NEW a \in Clients, NEW d \in Dialled, NEW b \in Servers,
         b \in Here, PassiveEstablish(a, d, b)
  PROVE  PairInv'
  <1> DEFINE c == <<a, d>>
             e == <<b, a>>
  <1>1. /\ c \in Sockets /\ c[1] \in Clients /\ e \in Sockets /\ e[1] \notin Clients
        /\ NoSocket \notin Sockets
    BY Zenon, ClientEnd, ServerEnd, BypassAssumption DEF Ends
  <1>2. /\ c \in alive /\ end[c] = e /\ end[e] = NoSocket
        /\ alive' = alive \cup {e}
        /\ end'[e] = c /\ \A r \in Sockets \ {e} : end'[r] = end[r]
    BY Zenon, <1>1 DEF PassiveEstablish, Accepts, ShapedInv, BypassTypeOK
  <1>3. redir' \subseteq redir \cup {e}
    BY Zenon DEF PassiveEstablish, ServerEstablished, maps
  <1> HIDE DEF c, e
  <1>4. alive \subseteq Sockets
    BY Zenon DEF ShapedInv, BypassTypeOK
  <1>5. redir' \subseteq alive' /\ \A s \in alive' : end'[s] # NoSocket
    <2>1. redir' \subseteq alive'
      BY Zenon, <1>2, <1>3 DEF PairInv
    <2>2. ASSUME NEW s \in alive' PROVE end'[s] # NoSocket
      <3>1. CASE s = e
        BY Zenon, <3>1, <1>1, <1>2
      <3>2. CASE s # e
        <4>1. s \in alive /\ end'[s] = end[s]
          BY Zenon, <3>2, <2>2, <1>2, <1>4
        <4> QED BY Zenon, <4>1 DEF PairInv
      <3> QED BY Zenon, <3>1, <3>2
    <2> QED BY Zenon, <2>1, <2>2
  <1>6. ASSUME NEW s \in Sockets, s[1] \notin Clients, end'[s] # NoSocket
        PROVE  end'[s] \in Sockets /\ end'[end'[s]] = s
    <2>1. CASE s = e
      BY Zenon, <2>1, <1>1, <1>2
    <2>2. CASE s # e
      <3>1. end'[s] = end[s] /\ end[s] \in Sockets /\ end[end[s]] = s
        BY Zenon, <2>2, <1>2, <1>6 DEF PairInv
      <3> QED BY Zenon, <3>1, <1>1, <1>2
    <2> QED BY Zenon, <2>1, <2>2
  <1>7. ASSUME NEW s \in Sockets, s[1] \in Clients, end'[s] # NoSocket
        PROVE  end'[s][1] \notin Clients
    BY Zenon, <1>1, <1>2, <1>7 DEF PairInv
  <1>8. ASSUME NEW s \in Sockets, s # e PROVE end[s] # c
    BY Zenon, <1>1, <1>2, <1>8 DEF PairInv
  <1>9. ASSUME NEW r \in Sockets, NEW s \in Sockets, end'[r] = end'[s], end'[r] # NoSocket
        PROVE  r = s
    <2>1. \A q \in Sockets \ {e} : end'[q] # end'[e]
      BY Zenon, <1>2, <1>8
    <2>2. CASE r # e /\ s # e
      <3>1. end[r] = end[s] /\ end[r] # NoSocket
        BY Zenon, <2>2, <1>2, <1>9
      <3> QED BY Zenon, <3>1 DEF PairInv
    <2> QED BY Zenon, <2>1, <2>2, <1>9
  <1> QED BY Zenon, <1>5, <1>6, <1>7, <1>9 DEF PairInv

\* A connection is over when both its ends are closed.
LEMMA CloseKeepsPairs ==
  ASSUME ShapedInv, PairInv, NEW s \in Sockets, Close(s)
  PROVE  PairInv'
  <1>1. /\ s \in alive /\ alive' = alive \ {s} /\ redir' = redir \ {s} /\ alive \subseteq Sockets
    BY Zenon DEF Close, ShapedInv, BypassTypeOK
  <1>2. redir' \subseteq alive'
    BY Zenon, <1>1 DEF PairInv
  <1>3. CASE end[s] \in alive
    <2>1. \A r \in Sockets : end'[r] = end[r]
      BY Zenon, <1>3 DEF Close
    <2> QED BY Zenon, <2>1, <1>1, <1>2 DEF PairInv
  <1>4. CASE end[s] \notin alive
    <2>1. \A r \in Sockets : end'[r] = IF r \in {s, end[s]} THEN NoSocket ELSE end[r]
      BY Zenon, <1>4 DEF Close
    <2>2. \A r \in alive' : end'[r] # NoSocket
      BY Zenon, <2>1, <1>1, <1>4 DEF PairInv
    <2>3. ASSUME NEW r \in Sockets, end'[r] # NoSocket
          PROVE  r # s /\ r # end[s] /\ end'[r] = end[r] /\ end[r] # NoSocket
      BY Zenon, <2>1, <2>3
    <2>4. ASSUME NEW r \in Sockets, r[1] \notin Clients, end'[r] # NoSocket
          PROVE  end'[r] \in Sockets /\ end'[end'[r]] = r
      <3>1. end'[r] = end[r] /\ end[r] \in Sockets /\ end[end[r]] = r
        BY Zenon, <2>3, <2>4 DEF PairInv
      <3>2. end[r] # s /\ end[r] # end[s]
        BY Zenon, <3>1, <2>3, <2>4 DEF PairInv
      <3> QED BY Zenon, <3>1, <3>2, <2>1
    <2> QED BY Zenon, <2>2, <2>3, <2>4, <1>2 DEF PairInv
  <1> QED BY Zenon, <1>3, <1>4

\* BPF_NOEXIST keeps an older record; it would be of a second connection.
LEMMA ActiveKeepsTrack ==
  ASSUME ShapedInv, TrackInv, NEW a \in Clients, NEW d \in Dialled, NEW b \in Servers,
         ActiveEstablish(a, d, b)
  PROVE  TrackInv'
  <1> SUFFICES ASSUME NEW e \in Clients \ missed' PROVE TracksClient(e)'
    BY Zenon DEF TrackInv
  <1>1. /\ <<a, d>> \in Sockets /\ ClientOf(<<a, d>>) = a
        /\ a \in Here /\ active[a] \in Dialled \cup {NoAddr} /\ alive \subseteq Sockets
    BY Zenon, ClientEnd, BypassAssumption DEF ShapedInv, BypassTypeOK
  <1>2. /\ alive' = alive \cup {<<a, d>>} /\ to' = to
        /\ \A r \in Sockets : r # <<a, d>> => end'[r] = end[r]
        /\ missed \subseteq missed'
    BY Zenon DEF ActiveEstablish, ShapedInv, BypassTypeOK
  <1>3. TracksClient(e)
    BY Zenon, <1>2 DEF TrackInv
  <1>4. CASE e = a
    <2>1. \A r \in alive : r[1] # a
      BY Zenon, <1>4 DEF ActiveEstablish
    <2>2. \A c \in Dialled : <<a, c>> \notin alive
      BY Zenon, <2>1, ClientEnd
    <2>3. active[a] = NoAddr
      BY Zenon, <2>2, <1>1, <1>3, <1>4 DEF TracksClient
    <2>4. active' = active \/ active' = [active EXCEPT ![a] = d]
      BY Zenon DEF ActiveEstablish
    <2>5. active'[a] # NoAddr => <<a, active'[a]>> \in alive'
      BY Zenon, <2>3, <2>4, <1>1, <1>2 DEF ShapedInv, BypassTypeOK
    <2>6. ASSUME NEW f \in Dialled, NEW g \in Dialled, <<a, f>> \in alive', <<a, g>> \in alive'
          PROVE  f = g
      BY Zenon, <2>2, <2>6, <1>2
    <2>7. ASSUME NEW s \in Sockets, ClientOf(s) = a, to'[s] # NoSocket
          PROVE  s \in alive' /\ to'[s] = end'[s]
      <3>1. s \in alive /\ to[s] = end[s]
        BY Zenon, <2>7, <1>2, <1>3, <1>4 DEF TracksClient
      <3>2. s # <<a, d>>
        BY Zenon, <3>1, <2>2
      <3> QED BY Zenon, <3>1, <3>2, <1>2
    <2> QED BY Zenon, <2>5, <2>6, <2>7, <1>4 DEF TracksClient
  <1>5. CASE e # a
    <2>1. active'[e] = active[e]
      BY Zenon, <1>5, BypassAssumption DEF ActiveEstablish, ShapedInv, BypassTypeOK
    <2>2. \A f : <<e, f>> \in alive' <=> <<e, f>> \in alive
      BY Zenon, <1>2, <1>5
    <2>3. ASSUME NEW s \in Sockets, ClientOf(s) = e PROVE s # <<a, d>>
      BY Zenon, <2>3, <1>1, <1>5
    <2> QED BY Zenon, <2>1, <2>2, <2>3, <1>2, <1>3 DEF TracksClient
  <1> QED BY Zenon, <1>4, <1>5

\* The record that is used is of this very connection, whatever was dialled.
LEMMA PassiveKeepsTrack ==
  ASSUME ShapedInv, PairInv, TrackInv,
         NEW a \in Clients, NEW d \in Dialled, NEW b \in Servers, b \in Here,
         PassiveEstablish(a, d, b)
  PROVE  TrackInv'
  <1> SUFFICES ASSUME NEW e \in Clients \ missed PROVE TracksClient(e)'
    BY Zenon DEF TrackInv, PassiveEstablish, Accepts
  <1>1. /\ <<a, d>> \in Sockets /\ ClientOf(<<a, d>>) = a /\ <<a, d>>[1] = a
        /\ <<b, a>> \in Sockets /\ ClientOf(<<b, a>>) = a /\ <<b, a>>[1] \notin Clients
        /\ a \in Here /\ active[a] \in Dialled \cup {NoAddr}
    BY Zenon, ClientEnd, ServerEnd, BypassAssumption DEF ShapedInv, BypassTypeOK
  <1>2. /\ <<a, d>> \in alive /\ end[<<a, d>>] = <<b, a>> /\ end[<<b, a>>] = NoSocket
        /\ alive' = alive \cup {<<b, a>>}
        /\ end'[<<b, a>>] = <<a, d>>
        /\ \A r \in Sockets : r # <<b, a>> => end'[r] = end[r]
    BY Zenon, <1>1 DEF PassiveEstablish, Accepts, ShapedInv, BypassTypeOK
  <1>3. TracksClient(e)
    BY Zenon DEF TrackInv
  <1>4. \A f : <<e, f>> \in alive' => <<e, f>> \in alive
    BY Zenon, <1>1, <1>2
  <1>5. <<b, a>> \notin alive
    BY Zenon, <1>2 DEF PairInv
  <1>6. CASE sockops /\ active[a] # NoAddr
    <2>1. active' = [active EXCEPT ![a] = NoAddr] /\ Record(a, b, active[a])
      BY Zenon, <1>6 DEF PassiveEstablish, ServerEstablished
    <2>2. /\ active'[a] = NoAddr
          /\ e # a => active'[e] = active[e]
      BY Zenon, <2>1, <1>1, BypassAssumption DEF ShapedInv, BypassTypeOK
    <2>3. ASSUME NEW s \in Sockets, ClientOf(s) = e, to'[s] # NoSocket
          PROVE  s \in alive' /\ to'[s] = end'[s]
      <3>1. CASE e = a
        <4>1. active[a] = d
          BY Zenon, <3>1, <1>1, <1>2, <1>3, <1>6 DEF TracksClient
        <4>2. to'[s] = IF s = <<b, a>> THEN <<a, d>> ELSE IF s = <<a, d>> THEN <<b, a>> ELSE to[s]
          BY Zenon, <2>1, <4>1 DEF Record
        <4>3. CASE s = <<b, a>>
          BY Zenon, <4>2, <4>3, <1>2
        <4>4. CASE s = <<a, d>>
          BY Zenon, <4>2, <4>4, <1>1, <1>2
        <4>5. CASE s # <<b, a>> /\ s # <<a, d>>
          BY Zenon, <4>2, <4>5, <2>3, <1>2, <1>3 DEF TracksClient
        <4> QED BY Zenon, <4>3, <4>4, <4>5
      <3>2. CASE e # a
        <4>1. ClientOf(<<a, active[a]>>) = a
          BY Zenon, ClientEnd, <1>1, <1>6
        <4>2. s # <<b, a>> /\ s # <<a, active[a]>>
          BY Zenon, <4>1, <3>2, <2>3, <1>1
        <4>3. to'[s] = to[s] /\ end'[s] = end[s]
          BY Zenon, <4>2, <2>1, <1>2 DEF Record
        <4> QED BY Zenon, <4>3, <2>3, <1>2, <1>3 DEF TracksClient
      <3> QED BY Zenon, <3>1, <3>2
    <2>4. active'[e] # NoAddr => <<e, active'[e]>> \in alive'
      BY Zenon, <2>2, <1>2, <1>3 DEF TracksClient
    <2> QED BY Zenon, <2>3, <2>4, <1>3, <1>4 DEF TracksClient
  <1>7. CASE ~(sockops /\ active[a] # NoAddr)
    <2>1. active' = active /\ to' = to
      BY Zenon, <1>7 DEF PassiveEstablish, maps
    <2>2. ASSUME NEW s \in Sockets, ClientOf(s) = e, to'[s] # NoSocket
          PROVE  s \in alive' /\ to'[s] = end'[s]
      <3>1. s \in alive /\ to[s] = end[s]
        BY Zenon, <2>1, <2>2, <1>3 DEF TracksClient
      <3> QED BY Zenon, <3>1, <2>1, <1>2, <1>5
    <2> QED BY Zenon, <2>1, <2>2, <1>2, <1>3, <1>4 DEF TracksClient
  <1> QED BY Zenon, <1>6, <1>7

\* A record goes with the connection, unless nobody sees it close.
LEMMA CloseKeepsTrack ==
  ASSUME ShapedInv, TrackInv, NEW s \in Sockets, Close(s)
  PROVE  TrackInv'
  <1> SUFFICES ASSUME NEW e \in Clients \ missed' PROVE TracksClient(e)'
    BY Zenon DEF TrackInv
  <1>1. s[1] \in Here /\ (s[1] \in Clients => ClientOf(s) = s[1])
    BY Zenon, SocketParts
  <1>2. /\ s \in alive /\ alive' = alive \ {s} /\ missed \subseteq missed'
        /\ \A r \in Sockets : end'[r] = end[r] \/ r = s \/ (r = end[s] /\ r \notin alive)
    BY Zenon DEF Close
  <1>3. TracksClient(e)
    BY Zenon, <1>2 DEF TrackInv
  <1>4. e \in Here
    BY Zenon, BypassAssumption
  <1>5. ASSUME active'[e] # NoAddr PROVE <<e, active'[e]>> \in alive'
    <2>1. s[1] # e /\ active'[e] = active[e]
      BY Zenon, <1>1, <1>4, <1>5 DEF Close, ShapedInv, BypassTypeOK
    <2>2. <<e, active[e]>> \in alive
      BY Zenon, <2>1, <1>3, <1>5 DEF TracksClient
    <2>3. <<e, active[e]>>[1] = e
      BY Zenon
    <2> QED BY Zenon, <2>1, <2>2, <2>3, <1>2
  <1>6. ASSUME NEW r \in Sockets, ClientOf(r) = e, to'[r] # NoSocket
        PROVE  r \in alive' /\ to'[r] = end'[r]
    <2>1. r # s /\ to'[r] = to[r]
      BY Zenon, <1>6 DEF Close, ShapedInv, BypassTypeOK
    <2>2. r \in alive /\ to[r] = end[r]
      BY Zenon, <2>1, <1>3, <1>6 DEF TracksClient
    <2> QED BY Zenon, <2>1, <2>2, <1>2
  <1> QED BY Zenon, <1>2, <1>3, <1>5, <1>6 DEF TracksClient

\* The other steps leave the records, the other ends and the sockets alone.
LEMMA OthersKeepTrack ==
  ASSUME PairInv, TrackInv,
         \/ \E s \in Sockets : \/ SendPass(s) \/ SendFirst(s) \/ SendEnable(s) \/ Egress(s)
                               \/ ClearVethQdiscs(s) \/ AddBpf(s)
         \/ AttachRedir \/ AttachSockops \/ ProcessGone
         \/ UNCHANGED bypassVars
  PROVE  PairInv' /\ TrackInv'
  <1>1. UNCHANGED <<alive, end, active, to, redir, missed>>
    BY Zenon DEF SendPass, SendFirst, SendEnable, Egress, ClearVethQdiscs, AddBpf,
           AttachRedir, AttachSockops, ProcessGone, bypassVars, maps
  <1> QED BY Zenon, <1>1 DEF PairInv, TrackInv, TracksClient

\* Every step of a node keeps them.
LEMMA NextKeepsTrack ==
  ShapedInv /\ PairInv /\ TrackInv /\ [Next]_nodeVars => PairInv' /\ TrackInv'
  BY Zenon, NodeBypassStep, ActiveKeepsPairs, PassiveKeepsPairs, CloseKeepsPairs,
     ActiveKeepsTrack, PassiveKeepsTrack, CloseKeepsTrack, OthersKeepTrack
  DEF BypassNext, BypassStep

\* The ends that the maps name are connected to each other.
LEMMA TrackedEnds ==
  ASSUME ShapedInv, PairInv, TrackInv PROVE RedirectsToPeer
  <1> SUFFICES ASSUME NEW s \in Sockets, Redirects(s), ClientOf(s) \notin missed
               PROVE  to[s] = end[s] /\ end[to[s]] = s
    BY Zenon DEF RedirectsToPeer
  <1>1. /\ to[s] \in redir /\ redir \subseteq Sockets /\ NoSocket \notin Sockets
        /\ redir \subseteq alive
    BY Zenon, BypassAssumption DEF Redirects, ShapedInv, BypassTypeOK, PairInv, Ends
  <1>2. to[s] = end[s]
    BY Zenon, <1>1, SocketParts DEF TrackInv, TracksClient
  <1>3. end[to[s]] # NoSocket /\ to[s] \in Sockets /\ end[s] # NoSocket
    BY Zenon, <1>1, <1>2 DEF PairInv
  <1>4. CASE to[s][1] \in Clients
    BY Zenon, <1>2, <1>3, <1>4 DEF PairInv
  <1>5. CASE to[s][1] \notin Clients
    <2>1. end[to[s]] \in Sockets /\ end[end[to[s]]] = to[s]
      BY Zenon, <1>3, <1>5 DEF PairInv
    <2> QED BY Zenon, <2>1, <1>2, <1>3 DEF PairInv
  <1> QED BY Zenon, <1>2, <1>4, <1>5

\* redir.c redirects a message to the socket its own is connected to, as long as
\* sockops.c and map_active_estab have not lost track of the client's connections.
THEOREM PeerReached == Spec => []RedirectsToPeer
  <1>1. Init => PairInv /\ TrackInv
    BY Zenon, PairInit DEF Init
  <1> QED BY <1>1, TrackedEnds, ShapedAlways, NextKeepsTrack, PTL DEF Spec
=============================================================================
