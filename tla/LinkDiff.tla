------------------------------ MODULE LinkDiff ------------------------------
(***************************************************************************)
(* The difference between two lists of links (CalcDiff in                  *)
(* controllers/topology_controller.go), and what the daemon does with the  *)
(* links of the three parts of it.                                         *)
(*                                                                         *)
(* Of a link its interface, its properties and the rest of its fields (id: *)
(* the addresses, the peer and the UID) are told apart.                    *)
(***************************************************************************)
EXTENDS Naturals, Sequences

CONSTANTS
  Intfs, Ids, Props, NoLink,
  Tunnels       \* the ids of links to pods of other nodes

Link == [intf : Intfs, id : Ids, prop : Props]

EqualWithoutProperties(a, b) == a.intf = b.intf /\ a.id = b.id

\* The links of list new that stand for the same link as a, by position.
Matches(a, new) == {i \in 1 .. Len(new) : EqualWithoutProperties(a, new[i])}

Found(a, new) == Matches(a, new) # {}

FirstMatch(a, new) ==
  new[CHOOSE i \in Matches(a, new) : \A j \in Matches(a, new) : i <= j]

Changed(a, new) == Found(a, new) /\ FirstMatch(a, new).prop # a.prop

\* The links of a list at the positions in K, in order: what a loop over the list
\* that appends them to an empty list ends with.
Collect(links, K) ==
  LET upTo[i \in 0 .. Len(links)] ==
        IF i = 0 THEN <<>>
        ELSE IF i \in K THEN Append(upTo[i - 1], links[i]) ELSE upTo[i - 1]
  IN  upTo[Len(links)]

\* The positions of the links of one list that the other has not, or has with other
\* properties.
Missing(links, other) == {i \in 1 .. Len(links) : ~Found(links[i], other)}
Differing(old, new) == {i \in 1 .. Len(old) : Changed(old[i], new)}

\* Mutant: the properties are part of what makes a link the same.
CalcDiffWhole(old, new) ==
  LET NotIn(links, other) == {i \in 1 .. Len(links) : \A k \in 1 .. Len(other) : other[k] # links[i]}
  IN  [del |-> Collect(old, NotIn(old, new)), add |-> Collect(new, NotIn(new, old)),
       changed |-> <<>>]

\* Mutant: the properties of the old link are sent.
CalcDiffOld(old, new) ==
  [del |-> Collect(old, Missing(old, new)), add |-> Collect(new, Missing(new, old)),
   changed |-> Collect(old, Differing(old, new))]

CalcDiff(old, new) ==
  LET differing == Collect(old, Differing(old, new))
  IN  [del |-> Collect(old, Missing(old, new)),
       add |-> Collect(new, Missing(new, old)),
       changed |-> [i \in 1 .. Len(differing) |-> FirstMatch(differing[i], new)]]

\* A link that is in both lists, whatever its properties and its position, is neither
\* deleted nor added.
KeepsCommon(old, new) ==
  LET diff == CalcDiff(old, new)
  IN  \A j \in 1 .. Len(old), k \in 1 .. Len(new) :
        EqualWithoutProperties(old[j], new[k]) =>
          /\ \A i \in 1 .. Len(diff.del) : ~EqualWithoutProperties(diff.del[i], old[j])
          /\ \A i \in 1 .. Len(diff.add) : ~EqualWithoutProperties(diff.add[i], new[k])

-----------------------------------------------------------------------------
(* The interfaces of the pod, with the link each was made for.             *)

Interfaces == [Intfs -> Link \cup {NoLink}]

\* delLink removes the interface of that name.
DelLink(net, a) == [net EXCEPT ![a.intf] = NoLink]

\* A veth pair that is there is left alone, with the qdiscs it has.
SetupVeth(net, a) == IF net[a.intf] = NoLink THEN [net EXCEPT ![a.intf] = a] ELSE net

\* An interface of that name that is another's is replaced, and the qdiscs are set
\* also of one that is right.
SetupVxLan(net, a) == [net EXCEPT ![a.intf] = a]

AddLink(net, a) == IF a.id \in Tunnels THEN SetupVxLan(net, a) ELSE SetupVeth(net, a)

\* UpdateLinks sets the qdiscs of the interface, and fails without one.
UpdateLink(net, a) == [net EXCEPT ![a.intf].prop = a.prop]

\* The interfaces a list of links asks for.
Wanted(links) ==
  [i \in Intfs |->
     IF \E k \in 1 .. Len(links) : links[k].intf = i
     THEN links[CHOOSE k \in 1 .. Len(links) : links[k].intf = i] ELSE NoLink]

OneLinkPerIntf(links) ==
  \A j, k \in 1 .. Len(links) : links[j].intf = links[k].intf => j = k
=============================================================================
