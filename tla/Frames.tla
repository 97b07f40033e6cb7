------------------------------- MODULE Frames -------------------------------
(***************************************************************************)
(* The arithmetic of DecodeFrame and DecodePkt (grpcwire.go), which a      *)
(* receive thread runs on a frame larger than an Ethernet frame can be.    *)
(* What is printed is left out; what matters is that a slice past the end  *)
(* of the frame ends the daemon, and with it every wire of the node.       *)
(*                                                                         *)
(* A frame is a sequence of packets, each behind an Ethernet header.  A    *)
(* packet is the kind of its network layer, whether a VLAN header comes    *)
(* before it, and the bytes behind the Ethernet header (len).              *)
(***************************************************************************)
EXTENDS Integers, Sequences, SequencesExt

EtherHdrLen == 14
VlanHdrLen == 4
IPv6HdrLen == 40
ARPLen == 28

Kinds == {"IPv4", "IPv6", "LLC", "ARP", "other"}
Packet(kind, vlan, len) == [kind |-> kind, vlan |-> vlan, len |-> len]

Size(frame) == FoldSeq(LAMBDA p, n : n + EtherHdrLen + p.len, 0, frame)

\* The bytes of a packet DecodePkt accounts for: the total length of IPv4, but
\* the payload length of IPv6; the length field in front of LLC; a constant for
\* ARP; nothing for any other kind.
NetworkLen(kind, len) ==
  CASE kind = "IPv4" -> len
    [] kind = "IPv6" -> len - IPv6HdrLen
    [] kind = "LLC" -> len
    [] kind = "ARP" -> ARPLen
    [] kind = "other" -> 0

\* Mutant: the VLAN header is not counted.
DecodePktBare(p) == NetworkLen(p.kind, IF p.vlan THEN p.len - VlanHdrLen ELSE p.len)

\* A VLAN header counts with what is decoded behind it.
DecodePkt(p) ==
  IF ~p.vlan THEN NetworkLen(p.kind, p.len)
  ELSE IF p.kind = "other" THEN 0
  ELSE VlanHdrLen + NetworkLen(p.kind, p.len - VlanHdrLen)

\* The packets of the frame that begin at byte off: one or none.
At(frame, off) == {k \in 1 .. Len(frame) : Size(SubSeq(frame, 1, k - 1)) = off}

\* The loop of DecodeFrame: off is where the slice begins, total is
\* totalDecodedLen.  Bytes that do not begin a packet decode as junk bytes.
RECURSIVE Decode(_, _, _, _, _)
Decode(frame, junk, off, total, numPkts) ==
  LET decoded == IF At(frame, off) = {} THEN junk
                 ELSE DecodePkt(frame[CHOOSE k \in At(frame, off) : TRUE])
      sum == total + EtherHdrLen + decoded
      rest == Size(frame) - off
  IN  IF rest < EtherHdrLen \/ Size(frame) - sum < EtherHdrLen
      THEN [numPkts |-> numPkts, panics |-> FALSE]
      ELSE IF sum > rest THEN [numPkts |-> numPkts, panics |-> TRUE]
      ELSE Decode(frame, junk, off + sum, sum, numPkts + 1)

DecodeFrame(frame, junk) == Decode(frame, junk, 0, 0, 1)

\* The packets whose length DecodePkt reads as it is.
Measured(p) == p.kind \notin {"IPv6", "other"}
=============================================================================
