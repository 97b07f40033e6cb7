--------------------------- MODULE DaemonSections ---------------------------
(* The daemons of module Daemon as an implementation of LinkSections: who  *)
(* is between Lock and Unlock, read from where the handlers and the        *)
(* Updates are and not from the mutexes, is in the section of the link.    *)
EXTENDS Daemon

Workers == {"own", "upd"} \X Handlers

InsideOf(n, l) ==
  {Own(h) : h \in {g \in Handlers : InAddLink(g, n, l)}}
    \cup {Rem(h) : h \in {g \in Handlers : InUpdate(g, n, l)}}

Inside == [n \in Nodes |-> [l \in Links |-> InsideOf(n, l)]]

Sections == INSTANCE LinkSections WITH inside <- Inside

\* The daemons keep the promise of the link mutexes: whatever the handlers of
\* all nodes do, addLink and Update enter the section of a link on a node only
\* when it is empty, and none takes the place of another in a single step.
LinkSectionsKept == Sections!Spec
=============================================================================
