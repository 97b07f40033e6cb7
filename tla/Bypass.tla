------------------------------- MODULE Bypass -------------------------------
(***************************************************************************)
(* The TCP/IP bypass of one node (bpf/lib): sockops.c records the          *)
(* connections between pods of the node, redir.c hands a message straight  *)
(* to the socket at the other end, redir_disable.c, on the egress of an    *)
(* interface that is shaped, takes a connection off the bypass.  The       *)
(* programs run on any processor and share maps that outlive the daemon.   *)
(*                                                                         *)
(* An address is an IP address with a port; a socket is the pair of its    *)
(* local and its remote address.  A client may dial a cluster address,     *)
(* behind which the node's proxy puts a server of its choice: the client's *)
(* socket keeps the cluster address, the server's has the client's.  The   *)
(* addresses of the mesh's inbound proxy (INBOUND_ENVOY_IP), which no pod  *)
(* of a topology has, and the connections of a pod to itself, which are    *)
(* not recorded, are left out.                                             *)
(***************************************************************************)
EXTENDS Naturals

CONSTANTS
  Here,         \* addresses of pods on this node
  Away,         \* addresses on other nodes
  Clients,      \* those on this node that open connections; nobody listens there
  Dialled,      \* what they dial: addresses of servers and cluster addresses
  Shapeable,    \* sockets whose packets leave through a link of a topology
  NoAddr, NoSocket,
  MaxStack      \* bound: packets of one socket on their way through the stack

Servers == (Here \cup Away) \ Clients
Cluster == Dialled \ Servers
\* A socket of a client, or of a server of this node to a client.
Sockets == (Clients \X Dialled) \cup ((Here \ Clients) \X Clients)
\* Those, and the sockets of servers elsewhere.
Ends == Sockets \cup (Servers \X Clients)
ClientOf(s) == IF s[1] \in Clients THEN s[1] ELSE s[2]

ASSUME BypassAssumption ==
  /\ Clients \subseteq Here /\ Here \cap Away = {}
  /\ Dialled \cap Clients = {}
  /\ NoAddr \notin Dialled
  /\ NoSocket \notin Ends
  /\ MaxStack \in Nat

VARIABLES
  sockops,      \* sockops.c is attached
  verdict,      \* redir.c is attached to map_redir
  alive,        \* the sockets of the pods of this node
  end,          \* end[s]: the socket that s is connected to
  active,       \* map_active_estab: local address -> remote address
  to, flag,     \* map_proxy: socket -> the socket at the other end, with a flag
  redir,        \* map_redir: the sockets redir.c runs on and can redirect to
  sending,      \* sockets for which redir.c has read PROXY_INIT and not yet written
  stack,        \* stack[s]: packets of s on their way to the egress
  disabling,    \* sockets whose packets leave through redir_disable.c
  covered,      \* history: passing redir_disable.c since they were off the bypass
  missed        \* history: clients whose connections the maps have lost track of

maps == <<active, to, flag, redir>>
programs == <<sockops, verdict>>
bypassVars ==
  <<programs, alive, end, maps, sending, stack, disabling, covered, missed>>

Flags == {"none", "INIT", "ENABLED", "DISABLED"}

BypassInit ==
  /\ sockops = FALSE /\ verdict = FALSE
  /\ alive = {}
  /\ end = [s \in Sockets |-> NoSocket]
  /\ active = [a \in Here |-> NoAddr]
  /\ to = [s \in Sockets |-> NoSocket]
  /\ flag = [s \in Sockets |-> "none"]
  /\ redir = {} /\ sending = {}
  /\ stack = [s \in Sockets |-> 0]
  /\ disabling = {} /\ covered = {}
  /\ missed = {}

-----------------------------------------------------------------------------
(* sockops.c                                                               *)

\* A client at a dials d, and is connected to the server b: its socket is
\* established.  Two addresses have one connection at a time, which lasts until
\* both ends are closed.  A record of the client's address that is there stays
\* (BPF_NOEXIST).
ActiveEstablish(a, d, b) ==
  LET s == <<a, d>> IN
  /\ b = d \/ d \in Cluster
  /\ end[s] = NoSocket /\ \A r \in Sockets : end[r] # <<b, a>>
  /\ alive' = alive \cup {s}
  /\ end' = [end EXCEPT ![s] = <<b, a>>]
  /\ missed' = missed \cup {c \in {a} : \E r \in alive : r[1] = a}
  /\ IF sockops
     THEN /\ active' = IF active[a] = NoAddr THEN [active EXCEPT ![a] = d] ELSE active
          /\ redir' = redir \cup {s}
     ELSE UNCHANGED <<active, redir>>
  /\ UNCHANGED <<programs, to, flag, sending, stack, disabling, covered>>

\* Mutant: an end is recorded with itself at the other end.
RecordSelf(a, b, d) ==
  LET ends == {<<a, d>>, <<b, a>>} IN
  /\ to' = [s \in Sockets |-> IF s \in ends THEN <<b, a>> ELSE to[s]]
  /\ flag' = [s \in Sockets |-> IF s \in ends THEN "INIT" ELSE flag[s]]
  /\ covered' = (covered \ ends) \cup (ends \cap disabling)

\* Both ends of the connection are recorded, under the address the client's
\* record holds; the record has then served.
Record(a, b, d) ==
  LET ends == {<<a, d>>, <<b, a>>} IN
  /\ to' = [s \in Sockets |-> IF s = <<b, a>> THEN <<a, d>>
                              ELSE IF s = <<a, d>> THEN <<b, a>> ELSE to[s]]
  /\ flag' = [s \in Sockets |-> IF s \in ends THEN "INIT" ELSE flag[s]]
  /\ covered' = (covered \ ends) \cup (ends \cap disabling)

ServerEstablished(a, b) ==
  /\ Record(a, b, active[a])
  /\ redir' = redir \cup {<<b, a>>}
  /\ active' = [active EXCEPT ![a] = NoAddr]

\* The client's end comes first, and a server accepts a connection once.
Accepts(a, d, b) ==
  /\ <<a, d>> \in alive /\ end[<<a, d>>] = <<b, a>>
  /\ end[<<b, a>>] = NoSocket
  /\ alive' = alive \cup {<<b, a>>}
  /\ end' = [end EXCEPT ![<<b, a>>] = <<a, d>>]
  /\ UNCHANGED <<programs, sending, stack, disabling, missed>>

\* Mutant: the record of the client is not looked at before it is used.
PassiveEstablishUnchecked(a, d, b) ==
  /\ Accepts(a, d, b)
  /\ IF sockops THEN ServerEstablished(a, b) ELSE UNCHANGED <<maps, covered>>

\* The server's socket is established; without a record of the client nothing is
\* done.  What the client dialled is not known here but from its record.
PassiveEstablish(a, d, b) ==
  /\ Accepts(a, d, b)
  /\ IF sockops /\ active[a] # NoAddr
     THEN ServerEstablished(a, b) ELSE UNCHANGED <<maps, covered>>

\* A socket is closed; the kernel takes it out of map_redir.
Close(s) ==
  /\ s \in alive /\ s \notin sending
  /\ alive' = alive \ {s}
  /\ end' = [r \in Sockets |-> IF r \in {s, end[s]} /\ end[s] \notin alive
                               THEN NoSocket ELSE end[r]]
  /\ redir' = redir \ {s}
  /\ IF sockops
     THEN /\ to' = [to EXCEPT ![s] = NoSocket]
          /\ flag' = [flag EXCEPT ![s] = "none"]
          /\ active' = [active EXCEPT ![s[1]] = NoAddr]
          /\ UNCHANGED missed
     ELSE /\ missed' = missed \cup
               {c \in {ClientOf(s)} : to[s] # NoSocket \/ active[s[1]] # NoAddr}
          /\ UNCHANGED <<to, flag, active>>
  /\ UNCHANGED <<programs, sending, stack, disabling, covered>>

-----------------------------------------------------------------------------
(* redir.c, on a message of a socket in map_redir, and the stack.          *)

Judged == IF verdict THEN redir ELSE {}
Redirects(s) == s \in Judged /\ flag[s] = "ENABLED" /\ to[s] \in redir

Pass(s) ==
  /\ stack[s] < MaxStack
  /\ stack' = [stack EXCEPT ![s] = @ + 1]

\* A message without an entry, with a disabled one, or whose other end is gone,
\* goes through the stack.
SendPass(s) ==
  /\ s \in alive /\ s \notin sending
  /\ ~Redirects(s) /\ (s \in Judged => flag[s] # "INIT")
  /\ Pass(s)
  /\ UNCHANGED <<programs, alive, end, maps, sending, disabling, covered, missed>>

\* The first message is let through, and the ones after it are to be redirected:
\* the flag is read here,
SendFirst(s) ==
  /\ s \in alive \cap Judged /\ s \notin sending /\ flag[s] = "INIT"
  /\ sending' = sending \cup {s}
  /\ UNCHANGED <<programs, alive, end, maps, stack, disabling, covered, missed>>

\* Mutant: the first message is redirected too.
SendEnableRedirect(s) ==
  /\ s \in sending
  /\ sending' = sending \ {s}
  /\ flag' = [flag EXCEPT ![s] = "ENABLED"]
  /\ UNCHANGED <<programs, alive, end, active, to, redir, stack, disabling, covered, missed>>

\* and written here, whatever it is by then.
SendEnable(s) ==
  /\ s \in sending
  /\ sending' = sending \ {s}
  /\ flag' = [flag EXCEPT ![s] = "ENABLED"]
  /\ Pass(s)
  /\ UNCHANGED <<programs, alive, end, active, to, redir, disabling, covered, missed>>

\* A packet leaves; redir_disable.c takes its connection off the bypass.
Egress(s) ==
  /\ stack[s] > 0
  /\ stack' = [stack EXCEPT ![s] = @ - 1]
  /\ flag' = IF s \in disabling /\ flag[s] # "none"
             THEN [flag EXCEPT ![s] = "DISABLED"] ELSE flag
  /\ UNCHANGED <<programs, alive, end, active, to, redir, sending, disabling, covered, missed>>

BypassStep ==
  \/ \E a \in Clients, d \in Dialled, b \in Servers :
       ActiveEstablish(a, d, b) \/ (b \in Here /\ PassiveEstablish(a, d, b))
  \/ \E s \in Sockets :
       Close(s) \/ SendPass(s) \/ SendFirst(s) \/ SendEnable(s) \/ Egress(s)

-----------------------------------------------------------------------------
(* SetVethQdiscs clears what shapes an interface, redir_disable.c with it, *)
(* and ends with AddBpf if there is something to set and its caller has    *)
(* passed the setting of the bypass on: addLink and UpdateLinks do, Update *)
(* for a daemon of another node does not.  If setting a qdisc or AddBpf    *)
(* fails, what was set before stays.                                       *)

ClearVethQdiscs(s) ==
  /\ s \in disabling
  /\ disabling' = disabling \ {s}
  /\ covered' = covered \ {s}
  /\ UNCHANGED <<programs, alive, end, maps, sending, stack, missed>>

\* A connection that is already redirected sends nothing through the interface.
AddBpf(s) ==
  /\ s \in Shapeable \ disabling
  /\ disabling' = disabling \cup {s}
  /\ covered' = IF flag[s] = "ENABLED" /\ stack[s] = 0 THEN covered ELSE covered \cup {s}
  /\ UNCHANGED <<programs, alive, end, maps, sending, stack, missed>>

-----------------------------------------------------------------------------
(* The daemon loads and attaches the programs.  That redir.c or sockops.c  *)
(* cannot be attached is printed, and the daemon goes on without.  When    *)
(* its process ends, sockops.c is detached with the file descriptor that   *)
(* held it, and the maps stay pinned, with redir.c attached to map_redir.  *)

AttachRedir ==
  /\ verdict' = TRUE
  /\ UNCHANGED <<sockops, alive, end, maps, sending, stack, disabling, covered, missed>>

AttachSockops ==
  /\ sockops' \in BOOLEAN
  /\ UNCHANGED <<verdict, alive, end, maps, sending, stack, disabling, covered, missed>>

ProcessGone ==
  /\ sockops' = FALSE
  /\ UNCHANGED <<verdict, alive, end, maps, sending, stack, disabling, covered, missed>>

BypassNext ==
  \/ BypassStep
  \/ \E s \in Sockets : ClearVethQdiscs(s) \/ AddBpf(s)
  \/ AttachRedir \/ AttachSockops \/ ProcessGone

-----------------------------------------------------------------------------
BypassTypeOK ==
  /\ sockops \in BOOLEAN /\ verdict \in BOOLEAN
  /\ alive \subseteq Sockets /\ redir \subseteq Sockets /\ sending \subseteq Sockets
  /\ disabling \subseteq Sockets /\ covered \subseteq Sockets
  /\ missed \subseteq Clients
  /\ end \in [Sockets -> Ends \cup {NoSocket}]
  /\ active \in [Here -> Dialled \cup {NoAddr}]
  /\ to \in [Sockets -> Sockets \cup {NoSocket}]
  /\ flag \in [Sockets -> Flags]
  /\ stack \in [Sockets -> 0 .. MaxStack]

\* Where redir_disable.c is in place, shaped traffic does not stay on the bypass:
\* a connection that was not redirected when SetVethQdiscs put the program on its
\* interface, or was recorded later, is marked for redirection only while a packet
\* of it is on its way to the egress, where it is taken off again.  redir.c and
\* redir_disable.c write the flag without regard for each other.
ShapedLeavesBypass ==
  \A s \in covered : flag[s] = "ENABLED" => stack[s] > 0

\* A message is redirected to the socket its own is connected to, also when the
\* client has dialled a cluster address, which only its record in map_active_estab
\* tells.  A record has only a local address, so it takes that the client's
\* address has not opened a second connection while it had one, and that none of
\* its recorded sockets was closed while sockops.c was not attached to see it.
RedirectsToPeer ==
  \A s \in Sockets : Redirects(s) /\ ClientOf(s) \notin missed =>
    to[s] = end[s] /\ end[to[s]] = s
=============================================================================
