------------------------------- MODULE Qdiscs -------------------------------
(***************************************************************************)
(* SetVethQdiscs (common/qdisc.go) on one interface: the qdiscs that shape *)
(* a link are cleared and set anew, one system call at a time, by handlers *)
(* of the daemon that may do so at the same time.  addLink and Update hold *)
(* the mutex of the link, UpdateLinks does not.  All but Update pass the   *)
(* configuration of the TCP/IP bypass on to SetVethQdiscs.                 *)
(*                                                                         *)
(* netem is the root (1:0), tbf its child (10:0), and clsact carries the   *)
(* program (redir_disable) that takes the connections through a shaped     *)
(* interface off the TCP/IP bypass.  The kernel refuses to add a qdisc that *)
(* is there, or a child whose parent is not.                               *)
(***************************************************************************)
EXTENDS Naturals, Sequences, FiniteSets

CONSTANTS
  Setters,      \* the handlers
  Locking,      \* those that hold the mutex of the link
  Bypassing,    \* those that know the TCP/IP bypass is on
  Values,       \* settings of a netem or a tbf qdisc
  None,         \* no such qdisc, no such property
  MaxCalls,     \* bound: calls of SetVethQdiscs
  MaxFails      \* bound: system calls that fail

ASSUME QdiscsAssumption ==
  /\ Locking \subseteq Setters
  /\ None \notin Values
  /\ Bypassing \subseteq Setters
  /\ MaxCalls \in Nat
  /\ MaxFails \in Nat

VARIABLES
  intf,         \* the qdiscs and the program on the interface
  pc, qdiscs,   \* where each call is, the qdiscs it is to set
  listed,       \* the kinds of qdisc ClearVethQdiscs has still to delete
  last,         \* history: the last call, with its outcome
  raced,        \* history: it overlapped with an UpdateLinks
  calls, fails

history == <<last, raced>>
bounds == <<calls, fails>>
vars == <<intf, pc, qdiscs, listed, history, bounds>>

Setting == Values \cup {None}
QdiscKinds == {"netem", "tbf", "clsact"}
Clsact == {"none", "bare", "program"}
Interface == [netem : Setting, tbf : Setting, clsact : Clsact]
Lists == {<<>>} \cup {<<n>> : n \in Values} \cup {<<n, t>> : n, t \in Values}
PCs == {"idle", "list", "clear", "netem", "tbf", "clsact", "filter"}

\* The properties of a link: what netem is to do, and the rate.
Properties == {None} \cup [netem : Values, rate : Setting]

\* Mutant: a tbf qdisc also without a rate.
MakeQdiscsAlways(p) == IF p = None THEN <<>> ELSE <<p.netem, p.rate>>

\* A netem qdisc whenever any property is set, a tbf qdisc when there is a rate.
MakeQdiscs(p) ==
  IF p = None THEN <<>>
  ELSE IF p.rate = None THEN <<p.netem>>
  ELSE <<p.netem, p.rate>>

NoCall == [by |-> None, qdiscs |-> <<>>, ok |-> FALSE, uncleared |-> FALSE]

Init ==
  /\ intf = [netem |-> None, tbf |-> None, clsact |-> "none"]
  /\ pc = [s \in Setters |-> "idle"]
  /\ qdiscs = [s \in Setters |-> <<>>]
  /\ listed = [s \in Setters |-> <<>>]
  /\ last = NoCall /\ raced = FALSE
  /\ calls = 0 /\ fails = 0

-----------------------------------------------------------------------------
Busy == {s \in Setters : pc[s] # "idle"}

Goto(s, label) ==
  /\ pc' = [pc EXCEPT ![s] = label]
  /\ UNCHANGED <<qdiscs, history, calls>>

\* SetVethQdiscs returns, with or without an error.
Return(s, ok) ==
  /\ pc' = [pc EXCEPT ![s] = "idle"]
  /\ last' = IF last.by = s THEN [last EXCEPT !.ok = ok] ELSE last
  /\ qdiscs' = [qdiscs EXCEPT ![s] = <<>>]
  /\ UNCHANGED <<raced, calls>>

Start(s, p) ==
  /\ calls < MaxCalls
  /\ calls' = calls + 1
  /\ pc[s] = "idle"
  /\ pc' = [pc EXCEPT ![s] = "list"]
  /\ qdiscs' = [qdiscs EXCEPT ![s] = MakeQdiscs(p)]
  /\ last' = [by |-> s, qdiscs |-> MakeQdiscs(p), ok |-> FALSE, uncleared |-> FALSE]
  /\ raced' = (Busy # {} /\ (raced \/ ~(Busy \cup {s} \subseteq Locking)))
  /\ UNCHANGED <<intf, listed, fails>>

\* Mutant: no handler takes the mutex of the link.
CallUnlocked(s, p) == Start(s, p)

\* A handler calls SetVethQdiscs with what MakeQdiscs makes of the properties.
Call(s, p) ==
  /\ s \in Locking => Busy \cap Locking = {}
  /\ Start(s, p)

-----------------------------------------------------------------------------
(* ClearVethQdiscs, the failures of which are only logged.                 *)

Present(kind, there) == IF there THEN <<kind>> ELSE <<>>

\* The kinds of qdisc QdiscList finds on the interface.
Found(i) ==
  Present("netem", i.netem # None) \o Present("tbf", i.tbf # None)
    \o Present("clsact", i.clsact # "none")

ClearList(s) ==
  /\ pc[s] = "list"
  /\ listed' = [listed EXCEPT ![s] = Found(intf)]
  /\ Goto(s, "clear")
  /\ UNCHANGED <<intf, fails>>

\* Deleting a qdisc deletes its children; one that has gone is only logged.
Without(i, kind) ==
  CASE kind = "netem" -> [i EXCEPT !.netem = None, !.tbf = None]
    [] kind = "tbf" -> [i EXCEPT !.tbf = None]
    [] kind = "clsact" -> [i EXCEPT !.clsact = "none"]

ClearDelete(s) ==
  /\ pc[s] = "clear"
  /\ listed[s] # <<>>
  /\ intf' = Without(intf, Head(listed[s]))
  /\ listed' = [listed EXCEPT ![s] = Tail(@)]
  /\ UNCHANGED <<pc, qdiscs, history, bounds>>

\* The qdiscs cannot be listed, or one of them cannot be deleted.
ClearFails(s) ==
  /\ fails < MaxFails
  /\ fails' = fails + 1
  /\ \/ pc[s] = "list" /\ pc' = [pc EXCEPT ![s] = "clear"] /\ UNCHANGED listed
     \/ /\ pc[s] = "clear" /\ listed[s] # <<>>
        /\ listed' = [listed EXCEPT ![s] = Tail(@)]
        /\ UNCHANGED pc
  /\ last' = IF last.by = s THEN [last EXCEPT !.uncleared = TRUE] ELSE last
  /\ UNCHANGED <<intf, qdiscs, raced, calls>>

\* Without qdiscs to set SetVethQdiscs is done.
Cleared(s) ==
  /\ pc[s] = "clear"
  /\ listed[s] = <<>>
  /\ IF qdiscs[s] = <<>> THEN Return(s, TRUE) ELSE Goto(s, "netem")
  /\ UNCHANGED <<intf, listed, fails>>

-----------------------------------------------------------------------------
(* The qdiscs are added, and the program; the first failure is returned.   *)

Finish(s) == IF s \in Bypassing THEN Goto(s, "clsact") ELSE Return(s, TRUE)

AddNetem(s) ==
  /\ pc[s] = "netem"
  /\ IF intf.netem # None
     THEN Return(s, FALSE) /\ UNCHANGED intf
     ELSE /\ intf' = [intf EXCEPT !.netem = qdiscs[s][1]]
          /\ IF Len(qdiscs[s]) = 2 THEN Goto(s, "tbf") ELSE Finish(s)
  /\ UNCHANGED <<listed, fails>>

AddTbf(s) ==
  /\ pc[s] = "tbf"
  /\ IF intf.netem = None \/ intf.tbf # None
     THEN Return(s, FALSE) /\ UNCHANGED intf
     ELSE intf' = [intf EXCEPT !.tbf = qdiscs[s][2]] /\ Finish(s)
  /\ UNCHANGED <<listed, fails>>

AddBpfClsact(s) ==
  /\ pc[s] = "clsact"
  /\ IF intf.clsact # "none"
     THEN Return(s, FALSE) /\ UNCHANGED intf
     ELSE intf' = [intf EXCEPT !.clsact = "bare"] /\ Goto(s, "filter")
  /\ UNCHANGED <<listed, fails>>

AddBpfFilter(s) ==
  /\ pc[s] = "filter"
  /\ IF intf.clsact = "none"
     THEN Return(s, FALSE) /\ UNCHANGED intf
     ELSE intf' = [intf EXCEPT !.clsact = "program"] /\ Return(s, TRUE)
  /\ UNCHANGED <<listed, fails>>

\* Another failure of one of the additions.
AddFails(s) ==
  /\ pc[s] \in {"netem", "tbf", "clsact", "filter"}
  /\ fails < MaxFails
  /\ fails' = fails + 1
  /\ Return(s, FALSE)
  /\ UNCHANGED <<intf, listed>>

Step(s) ==
  \/ ClearList(s)
  \/ ClearDelete(s)
  \/ ClearFails(s)
  \/ Cleared(s)
  \/ AddNetem(s)
  \/ AddTbf(s)
  \/ AddBpfClsact(s)
  \/ AddBpfFilter(s)
  \/ AddFails(s)

Quiet == Busy = {} /\ UNCHANGED vars

Next ==
  \/ \E s \in Setters : Step(s) \/ \E p \in Properties : Call(s, p)
  \/ Quiet

Spec == Init /\ [][Next]_vars

-----------------------------------------------------------------------------
(* Properties.                                                             *)

\* The qdiscs MakeQdiscs makes are a netem with or without a tbf, and every
\* variable has its type.
TypeOK ==
  /\ intf \in Interface
  /\ pc \in [Setters -> PCs]
  /\ qdiscs \in [Setters -> Lists]
  /\ listed \in [Setters -> Seq(QdiscKinds)]
  /\ last \in [by : Setters \cup {None}, qdiscs : Lists, ok : BOOLEAN, uncleared : BOOLEAN]
  /\ raced \in BOOLEAN
  /\ calls \in 0 .. MaxCalls
  /\ fails \in 0 .. MaxFails

\* What the last call asked for.
Asked ==
  [netem |-> IF last.qdiscs = <<>> THEN None ELSE last.qdiscs[1],
   tbf |-> IF Len(last.qdiscs) = 2 THEN last.qdiscs[2] ELSE None,
   clsact |-> IF last.by \in Bypassing /\ last.qdiscs # <<>> THEN "program" ELSE "none"]

\* When every call has returned and the last one succeeded, the interface is
\* shaped as that call asked, whatever the calls before it left behind, and a
\* shaped interface has its program against the bypass.  Excepted are a last
\* call that overlapped with an UpdateLinks, which takes no mutex, and a last
\* call whose clearing failed, which SetVethQdiscs only logs: then a call to set
\* nothing leaves the old shaping, and one that adds no program the old program.
ShapedAsAsked ==
  Busy = {} /\ last.ok /\ ~raced =>
    \/ intf = Asked
    \/ last.uncleared /\ (last.qdiscs = <<>> \/ [intf EXCEPT !.clsact = "none"] = Asked)
=============================================================================
