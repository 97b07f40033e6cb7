------------------------------ MODULE Lifecycle -----------------------------
(***************************************************************************)
(* The start and the end of the daemon on one node (daemon/main.go), with  *)
(* the configuration files of the CNI plugin it installs (daemon/cni) and  *)
(* that the kubelet reads.  A process that ends in os.Exit, in a signal or *)
(* in a crash runs no deferred call; the files it has written stay.        *)
(***************************************************************************)
EXTENDS Naturals, Sequences

CONSTANTS
  NoFile,       \* no such file
  Base,         \* the plugins of the node's own network configuration
  Kubedtn,      \* the plugin that is added to them
  MaxLives      \* bound: processes started

ASSUME LifecycleAssumption == Kubedtn # Base /\ MaxLives \in Nat

VARIABLES
  main,         \* where main is; "down" without a process
  bypass,       \* TCPIP_BYPASS of this process
  base,         \* a valid network configuration is there
  loaded,       \* what loadConfList has returned
  conf,         \* 00-kubedtn.conflist: NoFile, or its plugins
  linkType,     \* kubedtn-inter-node-link-type: NoFile, "empty" or "set"
  lives

lifeVars == <<main, bypass, base, loaded, conf, linkType, lives>>

LifeInit ==
  /\ main = "down" /\ bypass = FALSE
  /\ base \in BOOLEAN /\ loaded = <<>>
  /\ conf = NoFile /\ linkType = NoFile
  /\ lives = 0

\* The node's own network comes up.
InstallBase ==
  /\ ~base /\ base' = TRUE
  /\ UNCHANGED <<main, bypass, loaded, conf, linkType, lives>>

Start ==
  /\ main = "down" /\ lives < MaxLives
  /\ lives' = lives + 1
  /\ main' = "load"
  /\ bypass' \in BOOLEAN
  /\ loaded' = <<>>
  /\ UNCHANGED <<base, conf, linkType>>

-----------------------------------------------------------------------------
(* cni.Init                                                                *)

\* Mutant: the daemon's own file, which sorts first, is not left out.
loadConfListAll == IF conf \notin {NoFile, <<>>} THEN conf
                   ELSE IF base THEN <<Base>> ELSE <<>>

\* The plugins of the first valid file that is not the daemon's own.
loadConfList == IF base THEN <<Base>> ELSE <<>>

Exit == main' = "down"

\* Without a configuration to add to, Init fails and main exits.
LoadConf ==
  /\ main = "load"
  /\ loaded' = loadConfList
  /\ IF loadConfList = <<>> THEN Exit ELSE main' = "type"
  /\ UNCHANGED <<bypass, base, conf, linkType, lives>>

\* WriteFile truncates a file and writes it; either may fail.
saveInterNodeLinkConf ==
  /\ main \in {"type", "typed"}
  /\ \/ main = "type" /\ linkType' = "empty" /\ main' = "typed"
     \/ main = "typed" /\ linkType' = "set" /\ main' = "conf"
     \/ Exit /\ UNCHANGED linkType
  /\ UNCHANGED <<bypass, base, loaded, conf, lives>>

saveConfList ==
  /\ main \in {"conf", "confed"}
  /\ \/ main = "conf" /\ conf' = <<>> /\ main' = "confed"
     \/ main = "confed" /\ conf' = Append(loaded, Kubedtn) /\ main' = "bypass"
     \/ Exit /\ UNCHANGED conf
  /\ UNCHANGED <<bypass, base, loaded, linkType, lives>>

-----------------------------------------------------------------------------
(* The rest of main.                                                       *)

\* The bypass is set up if it is asked for.
BypassReady ==
  /\ main = "bypass"
  /\ main' = "new"
  /\ UNCHANGED <<bypass, base, loaded, conf, linkType, lives>>

\* CheckOrMountBPFFSDefault, SetLimit or LoadProgram fail: main returns, and the
\* deferred Cleanup runs.
BypassFails ==
  /\ main = "bypass" /\ bypass
  /\ main' = "cleanConf"
  /\ UNCHANGED <<bypass, base, loaded, conf, linkType, lives>>

\* Failures to remove a file are only logged.
Cleanup ==
  /\ main \in {"cleanConf", "cleanType"}
  /\ \/ /\ main = "cleanConf" /\ main' = "cleanType"
        /\ conf' \in {NoFile, conf} /\ UNCHANGED linkType
     \/ /\ main = "cleanType" /\ Exit
        /\ linkType' \in {NoFile, linkType} /\ UNCHANGED conf
  /\ UNCHANGED <<bypass, base, loaded, lives>>

\* kubedtn.New succeeds, and Serve is called.
NewServes ==
  /\ main = "new"
  /\ main' = "serve"
  /\ UNCHANGED <<bypass, base, loaded, conf, linkType, lives>>

\* New or Serve fail, main exits; or the process is killed, at any time.
Killed ==
  /\ main # "down"
  /\ Exit
  /\ UNCHANGED <<bypass, base, loaded, conf, linkType, lives>>

-----------------------------------------------------------------------------
Mains == {"down", "load", "type", "typed", "conf", "confed", "bypass", "new", "serve",
          "cleanConf", "cleanType"}

LifeTypeOK ==
  /\ main \in Mains
  /\ bypass \in BOOLEAN /\ base \in BOOLEAN
  /\ loaded \in Seq({Base, Kubedtn})
  /\ conf = NoFile \/ conf \in Seq({Base, Kubedtn})
  /\ linkType \in {NoFile, "empty", "set"}
  /\ lives \in 0 .. MaxLives

\* Whatever earlier processes left behind, while the daemon serves the kubelet
\* runs the node's own plugins and then the kubedtn plugin, once; and the type of
\* the links between nodes is there for it.  A pod started without it would have
\* none of its links.
ServingInstalled ==
  main = "serve" => conf = <<Base, Kubedtn>> /\ linkType = "set"
=============================================================================
