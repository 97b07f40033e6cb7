---------------------------- MODULE LinkSections ----------------------------
(***************************************************************************)
(* What the mutexes of MutexMap promise the daemons: on every node and for *)
(* every link a section that one worker at a time is in, the addLink of a  *)
(* handler or the Update that one has called.  The sections are            *)
(* independent: a step may move workers in several of them, as when a      *)
(* daemon ends and its workers leave theirs.                               *)
(***************************************************************************)
CONSTANTS Nodes, Links, Workers

VARIABLE inside     \* inside[n][l]: the workers in the section of l on n

Init == inside = [n \in Nodes |-> [l \in Links |-> {}]]

\* A worker enters an empty section.
Enter(n, l) ==
  /\ inside[n][l] = {}
  /\ \E w \in Workers : inside'[n][l] = {w}

\* The worker leaves.
Leave(n, l) == inside'[n][l] = {}

Stay(n, l) == inside'[n][l] = inside[n][l]

Next ==
  /\ inside' = [n \in Nodes |-> [l \in Links |-> inside'[n][l]]]
  /\ \A n \in Nodes, l \in Links : Stay(n, l) \/ Leave(n, l) \/ Enter(n, l)

Spec == Init /\ [][Next]_inside
=============================================================================
