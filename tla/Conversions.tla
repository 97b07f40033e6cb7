---------------------------- MODULE Conversions -----------------------------
(***************************************************************************)
(* What the daemon makes of the texts and numbers of a link: ParseRate,    *)
(* ParseDuration and getTbfBurst (common/qdisc.go), GetVniFromUid and      *)
(* GetUidFromVni (common/utils.go), against the texts the patterns of the  *)
(* Topology type admit (api/v1/topology_types.go).                         *)
(*                                                                         *)
(* A text is the tokens the code tells apart: a number, then suffixes.     *)
(* Machine integers keep a width, the moduli U64 and U32.  TLC runs with   *)
(* smaller ones, and with smaller bases, so that every prefix is met on    *)
(* both sides of the width.                                                *)
(***************************************************************************)
EXTENDS Integers, Sequences, FiniteSets

CONSTANTS
  U64, U32,     \* 2^64 and 2^32
  SIBase,       \* 1000
  IECBase,      \* 1024
  VxlanBase,    \* 5000
  KernelHZ,     \* 250
  MinBurst      \* 5000

ASSUME ConversionsAssumption ==
  /\ {U64, U32, SIBase, IECBase, KernelHZ} \subseteq Nat \ {0}
  /\ VxlanBase \in Nat /\ MinBurst \in Nat
  /\ MinBurst < U32 /\ U32 % 2 = 0

Error == [ok |-> FALSE, value |-> 0]
Value(n) == [ok |-> TRUE, value |-> n]

Min2(a, b) == IF a < b THEN a ELSE b

\* a * b * ... where limit stands for everything that does not fit below it.
Capped(a, b, limit) == IF b # 0 /\ a > limit \div b THEN limit ELSE Min2(a * b, limit)

-----------------------------------------------------------------------------
(* Rates.  The tokens of a text are a number (with or without a decimal    *)
(* part), a prefix, "i" and a unit, any of the last three absent.          *)

RatePrefixes == <<"k", "m", "g", "t">>
Number(n, decimal) == [digits |-> n, decimal |-> decimal]

HasSuffix(text, s) == Len(text) > 1 /\ text[Len(text)] = s
TrimSuffix(text, s) == IF HasSuffix(text, s) THEN SubSeq(text, 1, Len(text) - 1) ELSE text

\* Multiplying as the machine does.
Times(a, b) == (a * b) % U64

\* unitMultiplier after the loop over the prefixes, which stops at the first.
Scaled(unit, base, i) ==
  LET power[j \in 0 .. i] == IF j = 0 THEN unit ELSE Times(power[j - 1], base)
  IN  power[i]

\* Mutant: the multiplier is kept in 32 bits.
ParseRate32(text) ==
  IF text = <<>> THEN Value(0)
  ELSE LET unit == IF HasSuffix(text, "bps") THEN 8 ELSE 1
           bare == IF unit = 8 THEN TrimSuffix(text, "bps") ELSE TrimSuffix(text, "bit")
           base == IF HasSuffix(bare, "i") THEN IECBase ELSE SIBase
           rate == TrimSuffix(bare, "i")
           which == {i \in 1 .. 4 : HasSuffix(rate, RatePrefixes[i])}
           mult == IF which = {} THEN unit
                   ELSE Scaled(unit, base, CHOOSE i \in which : TRUE)
       IN  IF rate[1].decimal \/ rate[1].digits >= U64 THEN Error
           ELSE Value(Times(rate[1].digits, mult % U32))

\* "bit" or "bps", then "i", then a prefix are cut off; what is left must be an
\* unsigned integer of 64 bits, so that a decimal part is refused.
ParseRate(text) ==
  IF text = <<>> THEN Value(0)
  ELSE LET unit == IF HasSuffix(text, "bps") THEN 8 ELSE 1
           bare == IF unit = 8 THEN TrimSuffix(text, "bps") ELSE TrimSuffix(text, "bit")
           base == IF HasSuffix(bare, "i") THEN IECBase ELSE SIBase
           rate == TrimSuffix(bare, "i")
           which == {i \in 1 .. 4 : HasSuffix(rate, RatePrefixes[i])}
           mult == IF which = {} THEN unit
                   ELSE Scaled(unit, base, CHOOSE i \in which : TRUE)
           left == IF which = {} THEN rate ELSE SubSeq(rate, 1, Len(rate) - 1)
       IN  IF Len(left) # 1 \/ left[1].decimal \/ left[1].digits >= U64 THEN Error
           ELSE Value(Times(left[1].digits, mult))

\* The texts the pattern of Rate admits, with numbers from a set N.
Opt(s) == {<<>>, <<s>>}
RateTexts(N) ==
  {<<Number(n, d)>> \o prefix \o unit :
     n \in N, d \in BOOLEAN,
     prefix \in {<<>>} \cup {<<p>> \o i : p \in {"k", "m", "g"}, i \in Opt("i")},
     unit \in Opt("bit") \cup Opt("bps")}

\* What a rate means (tc.8), its decimal part apart: a prefix is a power of 1000,
\* or of 1024 with "i"; bps are bytes.  U64 stands for what does not fit.
RateMeans(text) ==
  LET Has(s) == \E i \in 2 .. Len(text) : text[i] = s
      base == IF Has("i") THEN IECBase ELSE SIBase
      power == CASE Has("k") -> 1 [] Has("m") -> 2 [] Has("g") -> 3 [] OTHER -> 0
      scale[j \in 0 .. power] == IF j = 0 THEN text[1].digits ELSE Capped(scale[j - 1], base, U64)
  IN  Capped(scale[power], IF Has("bps") THEN 8 ELSE 1, U64)

-----------------------------------------------------------------------------
(* The burst of a tbf qdisc, and durations, which are kept as microseconds. *)

getTbfBurst(rate) ==
  LET burst == (rate \div KernelHZ) % U32
  IN  IF burst < MinBurst THEN MinBurst ELSE burst

\* A duration is what time.ParseDuration reads: a number of nanoseconds, or a
\* text it refuses.
\* Mutant: milliseconds.
ParseDurationMillis(d) ==
  IF ~d.ok \/ d.value < 0 THEN Error ELSE Value((d.value \div 1000000) % U32)

ParseDuration(d) ==
  IF ~d.ok \/ d.value < 0 THEN Error ELSE Value((d.value \div 1000) % U32)

-----------------------------------------------------------------------------
(* The VXLAN identifier of a link; Int32 is the conversion to int32.       *)

Int32s == -(U32 \div 2) .. U32 \div 2 - 1

Int32(n) ==
  LET m == n % U32 IN IF m < U32 \div 2 THEN m ELSE m - U32

\* Mutant: the base is left out on the way back.
GetUidFromVniRaw(vni) == vni

GetVniFromUid(uid) == Int32(VxlanBase + uid)
GetUidFromVni(vni) == Int32(vni - VxlanBase)

-----------------------------------------------------------------------------
(* What the conversions are to keep.                                       *)

\* The burst is never below the least one, and unless it does not fit in 32 bits
\* it lets the rate through between two ticks of the kernel.
BurstEnough(rate) ==
  rate \div KernelHZ < U32 =>
    getTbfBurst(rate) >= MinBurst /\ getTbfBurst(rate) >= rate \div KernelHZ

\* The microseconds are those of the duration, rounded down.
Micros(d, micros) == 1000 * micros <= d.value /\ d.value < 1000 * (micros + 1)

\* A duration that is no number or negative is refused, and one that fits is kept
\* to the microsecond.
DurationKept(d) ==
  /\ ParseDuration(d).ok = (d.ok /\ d.value >= 0)
  /\ d.ok /\ d.value \in 0 .. 1000 * U32 - 1 => Micros(d, ParseDuration(d).value)

\* Two uids have the same identifier exactly if they are a multiple of 2^32 apart,
\* and a uid comes back from its own exactly if it is an int32.
VnisApart(uid, other) ==
  /\ GetVniFromUid(uid) = GetVniFromUid(other) <=> (uid - other) % U32 = 0
  /\ GetUidFromVni(GetVniFromUid(uid)) = uid <=> uid \in Int32s
=============================================================================
