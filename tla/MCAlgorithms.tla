---------------------------- MODULE MCAlgorithms ----------------------------
(* The pure algorithms on every input of a bounded set: CalcDiff on pairs  *)
(* of short lists, the conversions on texts and numbers about the widths,  *)
(* DecodeFrame on frames of one or two packets.                            *)
EXTENDS LinkDiff, Conversions, Frames

CONSTANTS
  MaxLen,       \* bound: the length of the lists
  Numbers,      \* bound: the numbers in the texts of rates
  PacketLens    \* bound: the lengths of packets

ASSUME AlgorithmsAssumption ==
  /\ MaxLen \in Nat
  /\ Numbers \subseteq Nat
  /\ PacketLens \subseteq Nat

VARIABLES old, new, in

NoInput == [of |-> "none"]

Grow(list) == \E a \in Link : Len(list) < MaxLen /\ list' = Append(list, a)

Init == old = <<>> /\ new = <<>> /\ in = NoInput

\* About zero and about the width.
Edges(width) == (-2 .. 2) \cup (width - 2 .. width + 2)

Uids == Edges(U32 \div 2 - VxlanBase) \cup Edges(U32 \div 2) \cup Edges(U32)
          \cup Edges(-(U32 \div 2) - VxlanBase) \cup Edges(-(U32 \div 2))

Packets ==
  {Packet(kind, vlan, len) : kind \in Kinds \ {"ARP"}, vlan \in BOOLEAN, len \in PacketLens}
    \cup {Packet("ARP", FALSE, ARPLen), Packet("ARP", TRUE, VlanHdrLen + ARPLen)}

Frames2 == {<<p>> : p \in Packets} \cup {<<p, q>> : p, q \in Packets}

\* Two lists grow, or one input is given to the other algorithms.
Lists ==
  /\ in = NoInput
  /\ \/ Grow(old) /\ UNCHANGED <<new, in>>
     \/ Grow(new) /\ UNCHANGED <<old, in>>

Input ==
  /\ old = <<>> /\ new = <<>> /\ in = NoInput
  /\ \/ \E t \in RateTexts(Numbers) : in' = [of |-> "rate", text |-> t]
     \/ \E n \in Edges(U32), part \in {0, 1, 999}, ok \in BOOLEAN :
          in' = [of |-> "duration", text |-> [ok |-> ok, value |-> 1000 * n + part]]
     \/ \E uid, other \in Uids : in' = [of |-> "uids", uid |-> uid, other |-> other]
     \/ \E f \in Frames2, junk \in {0, ARPLen} :
          in' = [of |-> "frame", frame |-> f, junk |-> junk]
  /\ UNCHANGED <<old, new>>

Next == Lists \/ Input

Spec == Init /\ [][Next]_<<old, new, in>>

\* Deleting, adding and updating the links CalcDiff returns, in this order, takes
\* the interfaces of the old list to the interfaces of the new one, also when a
\* link changes its identity and keeps its interface name.
DiffBringsAbout ==
  LET diff == CalcDiff(old, new)
      deleted == FoldSeq(LAMBDA a, net : DelLink(net, a), Wanted(old), diff.del)
      added == FoldSeq(LAMBDA a, net : AddLink(net, a), deleted, diff.add)
  IN  OneLinkPerIntf(old) /\ OneLinkPerIntf(new) =>
        /\ \A k \in 1 .. Len(diff.changed) : added[diff.changed[k].intf] # NoLink
        /\ FoldSeq(LAMBDA a, net : UpdateLink(net, a), added, diff.changed) = Wanted(new)

\* Nothing that stays is interrupted: a link that is in both lists, whatever its
\* properties and its position, is neither deleted nor added.
DiffKeeps == KeepsCommon(old, new)

\* A rate without a decimal part is the rate tc.8 says it is, and the burst made
\* from it lets it through between two ticks of the kernel, as long as the number
\* of bits fits in 64 bits and the burst in 32.
RatesKept ==
  in.of = "rate" /\ ~in.text[1].decimal /\ RateMeans(in.text) < U64 =>
    ParseRate(in.text) = Value(RateMeans(in.text)) /\ BurstEnough(ParseRate(in.text).value)

\* Latency and jitter: what is no number or negative never reaches netem, and what
\* fits in 32 bits reaches it to the microsecond.
TimesKept == in.of = "duration" => DurationKept(in.text)

\* Two links share a VXLAN identifier only if their uids are a multiple of 2^32
\* apart, also where the addition wraps; and Update, which has only the
\* identifier, takes the mutex of addLink for every uid that is an int32, and for
\* no other.
VnisDistinct == in.of = "uids" => VnisApart(in.uid, in.other)

\* A frame of one or two packets whose lengths DecodePkt reads right is decoded
\* packet by packet to its end, and the receive thread goes on.
FramesDecoded ==
  in.of = "frame" /\ (\A k \in 1 .. Len(in.frame) : Measured(in.frame[k])) =>
    DecodeFrame(in.frame, in.junk) = [numPkts |-> Len(in.frame), panics |-> FALSE]
=============================================================================
