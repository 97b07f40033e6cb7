-------------------------------- MODULE Node --------------------------------
(***************************************************************************)
(* A node: the life of its daemon (Lifecycle) and the TCP/IP bypass the    *)
(* daemon sets up (Bypass), whose programs and maps have lives of their    *)
(* own.  sockops.c is attached while a process that has loaded it runs.    *)
(***************************************************************************)
EXTENDS Lifecycle, Bypass

nodeVars == <<lifeVars, bypassVars>>

Init == LifeInit /\ BypassInit

\* Steps of main that change nothing of the bypass.  The exits among them come
\* before sockops.c is attached.
MainStep ==
  /\ \/ InstallBase
     \/ Start
     \/ LoadConf
     \/ saveInterNodeLinkConf
     \/ saveConfList
     \/ ~bypass /\ BypassReady
     \/ BypassFails
     \/ Cleanup
     \/ NewServes
  /\ UNCHANGED bypassVars

\* LoadProgram attaches redir.c, then sockops.c, and main goes on.
LoadProgram ==
  /\ bypass
  /\ \/ main = "bypass" /\ AttachRedir /\ UNCHANGED lifeVars
     \/ BypassReady /\ AttachSockops

\* A handler sets the qdiscs of an interface.
SetVethQdiscs ==
  /\ main = "serve"
  /\ \E s \in Sockets : ClearVethQdiscs(s) \/ (bypass /\ AddBpf(s))
  /\ UNCHANGED lifeVars

Next ==
  \/ MainStep
  \/ LoadProgram
  \/ SetVethQdiscs
  \/ Killed /\ ProcessGone
  \/ BypassStep /\ UNCHANGED lifeVars

Spec == Init /\ [][Next]_nodeVars

TypeOK == LifeTypeOK /\ BypassTypeOK
=============================================================================
