--------------------------- MODULE QdiscsProofs ----------------------------
(* Proofs about SetVethQdiscs, for any handlers, settings and bounds; and  *)
(* about the conversions that the properties and the uid of a link go      *)
(* through, for any widths of the machine integers.                        *)
EXTENDS Qdiscs, Conversions, TLAPS

\* The call that counts: the last one, while it runs.
Running(s) == pc[s] # "idle" /\ last.by = s

\* Without an UpdateLinks in between, nobody else is in SetVethQdiscs.
Alone == ~raced => \A s \in Setters : pc[s] # "idle" => last.by = s

\* The kernel keeps a tbf only below its netem.
TbfBelowNetem == intf.tbf # None => intf.netem # None

\* The last call has not succeeded while it runs, and sets what it was told.
Told ==
  \A s \in Setters :
    /\ Running(s) => ~last.ok /\ qdiscs[s] = last.qdiscs
    /\ pc[s] \in {"netem", "tbf", "clsact", "filter"} => qdiscs[s] # <<>>
    /\ pc[s] = "tbf" => Len(qdiscs[s]) = 2
    /\ pc[s] \in {"clsact", "filter"} => s \in Bypassing

\* The interface when a call that has cleared it has still to delete ks.
Leaves(ks) ==
  /\ intf.netem # None => \E i \in 1 .. Len(ks) : ks[i] = "netem"
  /\ intf.tbf # None => \E i \in 1 .. Len(ks) : ks[i] = "tbf"
  /\ intf.clsact # "none" => \E i \in 1 .. Len(ks) : ks[i] = "clsact"

\* How far a call that runs alone has come with the interface.
Progress(s) ==
  /\ pc[s] \in {"clear", "netem"} /\ ~last.uncleared => Leaves(listed[s])
  /\ pc[s] = "netem" => listed[s] = <<>>
  /\ pc[s] \in {"tbf", "clsact", "filter"} => intf.netem = qdiscs[s][1]
  /\ pc[s] = "tbf" => intf.tbf = None
  /\ pc[s] \in {"clsact", "filter"} =>
       intf.tbf = IF Len(qdiscs[s]) = 2 THEN qdiscs[s][2] ELSE None
  /\ pc[s] \in {"tbf", "clsact"} /\ ~last.uncleared => intf.clsact = "none"

ShapingInv ==
  /\ Alone
  /\ TbfBelowNetem
  /\ Told
  /\ ~raced => \A s \in Setters : Running(s) => Progress(s)
  /\ ShapedAsAsked

QInv == TypeOK /\ ShapingInv

\* MakeQdiscs returns a netem with or without a tbf, or nothing.
LEMMA MakeQdiscsType ==
  ASSUME NEW p \in Properties
  PROVE  MakeQdiscs(p) \in Lists
  BY DEF MakeQdiscs, Properties, Lists, Setting

\* A qdisc that is there is listed as one.
LEMMA PresentListed ==
  ASSUME NEW kind \in QdiscKinds, NEW there \in BOOLEAN
  PROVE  /\ Present(kind, there) \in Seq(QdiscKinds)
         /\ there => Len(Present(kind, there)) = 1 /\ Present(kind, there)[1] = kind
<1>1. CASE there
  BY <1>1 DEF Present
<1>2. CASE ~there
  BY <1>2 DEF Present
<1> QED BY Zenon, <1>1, <1>2

\* QdiscList finds every qdisc of the interface.
LEMMA FoundAll ==
  ASSUME intf \in Interface
  PROVE  Found(intf) \in Seq(QdiscKinds) /\ Leaves(Found(intf))
<1> DEFINE a == Present("netem", intf.netem # None)
           b == Present("tbf", intf.tbf # None)
           c == Present("clsact", intf.clsact # "none")
<1>1. /\ a \in Seq(QdiscKinds) /\ b \in Seq(QdiscKinds) /\ c \in Seq(QdiscKinds)
      /\ intf.netem # None => Len(a) = 1 /\ a[1] = "netem"
      /\ intf.tbf # None => Len(b) = 1 /\ b[1] = "tbf"
      /\ intf.clsact # "none" => Len(c) = 1 /\ c[1] = "clsact"
  BY Zenon, PresentListed DEF QdiscKinds
<1> HIDE DEF a, b, c
<1>2. a \o b \in Seq(QdiscKinds) /\ Len(a \o b) = Len(a) + Len(b)
  BY <1>1
<1>3. /\ (a \o b) \o c \in Seq(QdiscKinds)
      /\ Len((a \o b) \o c) = Len(a) + Len(b) + Len(c)
      /\ \A i \in 1 .. Len(a) : ((a \o b) \o c)[i] = a[i]
      /\ \A i \in 1 .. Len(b) : ((a \o b) \o c)[Len(a) + i] = b[i]
      /\ \A i \in 1 .. Len(c) : ((a \o b) \o c)[Len(a) + Len(b) + i] = c[i]
  BY <1>1, <1>2
<1>4. Found(intf) = (a \o b) \o c
  BY Zenon DEF Found, a, b, c
<1>5. Leaves(Found(intf))
  <2> DEFINE f == Found(intf)
  <2>1. intf.netem # None => 1 \in 1 .. Len(f) /\ f[1] = "netem"
    BY <1>1, <1>3, <1>4
  <2>2. intf.tbf # None => Len(a) + 1 \in 1 .. Len(f) /\ f[Len(a) + 1] = "tbf"
    BY <1>1, <1>3, <1>4
  <2>3. intf.clsact # "none" => /\ Len(a) + Len(b) + 1 \in 1 .. Len(f)
                                /\ f[Len(a) + Len(b) + 1] = "clsact"
    BY <1>1, <1>3, <1>4
  <2> QED BY Zenon, <2>1, <2>2, <2>3 DEF Leaves
<1> QED BY Zenon, <1>3, <1>4, <1>5

\* A call that goes on keeps the invariant when its own part of it is kept.
LEMMA GoesOn ==
  ASSUME QInv, NEW s \in Setters, pc[s] # "idle", NEW label \in PCs \ {"idle"},
         pc' = [pc EXCEPT ![s] = label], UNCHANGED <<qdiscs, raced>>,
         last' \in {last, [last EXCEPT !.uncleared = TRUE]},
         label \in {"netem", "tbf", "clsact", "filter"} => qdiscs[s] # <<>>,
         label = "tbf" => Len(qdiscs[s]) = 2,
         label \in {"clsact", "filter"} => s \in Bypassing,
         TbfBelowNetem',
         ~raced /\ last.by = s => Progress(s)'
  PROVE  ShapingInv'
<1>t. pc \in [Setters -> PCs]
  BY Zenon DEF QInv, TypeOK
<1>l. last'.by = last.by /\ last'.ok = last.ok /\ last'.qdiscs = last.qdiscs
  BY Zenon DEF QInv, TypeOK
<1>1. Alone'
  BY Zenon, <1>t, <1>l DEF QInv, ShapingInv, Alone
<1>2. Told'
  BY Zenon, <1>t, <1>l DEF QInv, ShapingInv, Told, Running
<1>3. ASSUME ~raced', NEW r \in Setters, Running(r)' PROVE Progress(r)'
  <2>1. last.by = s /\ r = s
    BY Zenon, <1>3, <1>l DEF QInv, ShapingInv, Alone, Running
  <2> QED BY Zenon, <1>3, <2>1
<1>4. ShapedAsAsked'
  <2>1. Busy' # {}
    BY Zenon, <1>t DEF Busy
  <2> QED BY Zenon, <2>1 DEF ShapedAsAsked
<1> QED BY Zenon, <1>1, <1>2, <1>3, <1>4 DEF ShapingInv

\* So does one that returns, when a success of the last call has shaped the
\* interface as it asked.
LEMMA Returns ==
  ASSUME QInv, NEW s \in Setters, pc[s] # "idle", NEW ok \in BOOLEAN, Return(s, ok),
         TbfBelowNetem',
         ~raced /\ last.by = s /\ ok =>
           \/ intf' = Asked
           \/ last.uncleared /\ (last.qdiscs = <<>> \/ [intf' EXCEPT !.clsact = "none"] = Asked)
  PROVE  ShapingInv'
<1>t. pc \in [Setters -> PCs] /\ pc' = [pc EXCEPT ![s] = "idle"] /\ UNCHANGED raced
  BY Zenon DEF QInv, TypeOK, Return
<1>l. /\ last'.by = last.by /\ last'.qdiscs = last.qdiscs /\ last'.uncleared = last.uncleared
      /\ last'.ok = IF last.by = s THEN ok ELSE last.ok
  BY Zenon DEF QInv, TypeOK, Return
<1>1. Alone'
  BY Zenon, <1>t, <1>l DEF QInv, ShapingInv, Alone
<1>2. Told'
  <2>1. \A r \in Setters \ {s} : qdiscs'[r] = qdiscs[r] /\ pc'[r] = pc[r]
    BY Zenon, <1>t DEF Return, QInv, TypeOK
  <2>2. pc'[s] = "idle"
    BY Zenon, <1>t
  <2>3. ASSUME NEW r \in Setters
        PROVE  /\ Running(r)' => ~last'.ok /\ qdiscs'[r] = last'.qdiscs
               /\ pc'[r] \in {"netem", "tbf", "clsact", "filter"} => qdiscs'[r] # <<>>
               /\ pc'[r] = "tbf" => Len(qdiscs'[r]) = 2
               /\ pc'[r] \in {"clsact", "filter"} => r \in Bypassing
    <3>1. CASE r = s
      BY Zenon, <2>2, <3>1 DEF Running
    <3>2. CASE r # s
      BY Zenon, <1>l, <2>1, <3>2 DEF QInv, ShapingInv, Told, Running
    <3> QED BY Zenon, <3>1, <3>2
  <2> QED BY Zenon, <2>3 DEF Told
<1>3. ASSUME ~raced', NEW r \in Setters PROVE ~Running(r)'
  BY Zenon, <1>3, <1>t, <1>l DEF QInv, ShapingInv, Alone, Running
<1>4. ShapedAsAsked'
  <2> SUFFICES ASSUME last'.ok, ~raced'
               PROVE  \/ intf' = Asked'
                      \/ /\ last'.uncleared
                         /\ last'.qdiscs = <<>> \/ [intf' EXCEPT !.clsact = "none"] = Asked'
    BY Zenon DEF ShapedAsAsked
  <2>1. last.by = s
    BY Zenon, <1>t DEF QInv, ShapingInv, Alone
  <2>2. Asked' = Asked
    BY Zenon, <1>l DEF Asked
  <2> QED BY Zenon, <1>t, <1>l, <2>1, <2>2
<1> QED BY Zenon, <1>1, <1>2, <1>3, <1>4 DEF ShapingInv

\* What is known of the call that takes a step.
LEMMA StepFacts ==
  ASSUME QInv, NEW s \in Setters
  PROVE  /\ pc \in [Setters -> PCs] /\ qdiscs \in [Setters -> Lists]
         /\ listed \in [Setters -> Seq(QdiscKinds)] /\ intf \in Interface
         /\ last \in [by : Setters \cup {None}, qdiscs : Lists, ok : BOOLEAN, uncleared : BOOLEAN]
         /\ TbfBelowNetem
         /\ ~raced /\ last.by = s /\ pc[s] # "idle" => Progress(s) /\ qdiscs[s] = last.qdiscs
         /\ pc[s] \in {"netem", "tbf", "clsact", "filter"} => qdiscs[s] # <<>>
         /\ pc[s] = "tbf" => Len(qdiscs[s]) = 2
         /\ pc[s] \in {"clsact", "filter"} => s \in Bypassing
  BY Zenon DEF QInv, TypeOK, ShapingInv, Told, Running

\* The steps of ClearVethQdiscs.
LEMMA ClearSteps ==
  ASSUME QInv, NEW s \in Setters, ClearList(s) \/ ClearDelete(s) \/ ClearFails(s) \/ Cleared(s)
  PROVE  ShapingInv'
<1> USE StepFacts
<1>1. CASE ClearList(s)
  <2>1. /\ pc[s] = "list" /\ pc' = [pc EXCEPT ![s] = "clear"] /\ listed'[s] = Found(intf)
        /\ UNCHANGED <<intf, qdiscs, raced, last>>
    BY Zenon, <1>1 DEF ClearList, Goto, history
  <2>2. Progress(s)'
    BY <2>1, FoundAll DEF Progress, Leaves
  <2> QED BY Zenon, <2>1, <2>2, GoesOn DEF PCs, TbfBelowNetem
<1>2. CASE ClearDelete(s)
  <2> DEFINE k == Head(listed[s])
  <2>1. /\ pc[s] = "clear" /\ listed[s] # <<>> /\ listed'[s] = Tail(listed[s])
        /\ intf' = Without(intf, k) /\ UNCHANGED <<pc, qdiscs, raced, last>>
    BY Zenon, <1>2 DEF ClearDelete, history
  <2>2. k \in QdiscKinds
    BY <2>1
  <2>3. /\ intf'.netem = IF k = "netem" THEN None ELSE intf.netem
        /\ intf'.tbf = IF k \in {"netem", "tbf"} THEN None ELSE intf.tbf
        /\ intf'.clsact = IF k = "clsact" THEN "none" ELSE intf.clsact
    BY Zenon, <2>1, <2>2 DEF Without, Interface, QdiscKinds
  <2>4. ASSUME Leaves(listed[s]) PROVE Leaves(listed[s])'
    <3> DEFINE ks == listed[s]
    <3>1. /\ ks[1] = k /\ Len(Tail(ks)) = Len(ks) - 1
          /\ \A i \in 1 .. Len(ks) : i # 1 => /\ i - 1 \in 1 .. Len(Tail(ks))
                                             /\ Tail(ks)[i - 1] = ks[i]
      BY <2>1
    <3>2. \A kind \in QdiscKinds \ {k} :
            (\E i \in 1 .. Len(ks) : ks[i] = kind)
              => \E i \in 1 .. Len(Tail(ks)) : Tail(ks)[i] = kind
      <4> SUFFICES ASSUME NEW kind \in QdiscKinds \ {k}, NEW i \in 1 .. Len(ks), ks[i] = kind
                   PROVE  \E j \in 1 .. Len(Tail(ks)) : Tail(ks)[j] = kind
        BY Zenon
      <4> HIDE DEF k, ks
      <4>1. i # 1
        BY Zenon, <3>1
      <4>2. i - 1 \in 1 .. Len(Tail(ks)) /\ Tail(ks)[i - 1] = kind
        BY Zenon, <3>1, <4>1
      <4> QED BY Zenon, <4>2
    <3> HIDE DEF k
    <3>3. /\ intf'.netem # None => \E i \in 1 .. Len(Tail(ks)) : Tail(ks)[i] = "netem"
          /\ intf'.tbf # None => \E i \in 1 .. Len(Tail(ks)) : Tail(ks)[i] = "tbf"
          /\ intf'.clsact # "none" => \E i \in 1 .. Len(Tail(ks)) : Tail(ks)[i] = "clsact"
      BY Zenon, <2>3, <2>4, <3>2 DEF Leaves, QdiscKinds
    <3> QED BY Zenon, <2>1, <3>3 DEF Leaves
  <2>5. TbfBelowNetem'
    BY Zenon, <2>3 DEF TbfBelowNetem
  <2>6. ~raced /\ last.by = s => Progress(s)'
    BY Zenon, <2>1, <2>4 DEF Progress
  <2>7. pc' = [pc EXCEPT ![s] = "clear"]
    BY Zenon, <2>1
  <2> QED BY Zenon, <2>1, <2>5, <2>6, <2>7, GoesOn DEF PCs
<1>3. CASE ClearFails(s)
  <2>1. /\ pc[s] \in {"list", "clear"} /\ pc' = [pc EXCEPT ![s] = "clear"]
        /\ last' = IF last.by = s THEN [last EXCEPT !.uncleared = TRUE] ELSE last
        /\ UNCHANGED <<intf, qdiscs, raced>>
    BY Zenon, <1>3 DEF ClearFails
  <2>2. last.by = s => Progress(s)'
    BY Zenon, <2>1 DEF Progress
  <2> QED BY Zenon, <2>1, <2>2, GoesOn DEF PCs, TbfBelowNetem
<1>4. CASE Cleared(s)
  <2>1. pc[s] = "clear" /\ listed[s] = <<>> /\ UNCHANGED <<intf, listed>>
    BY Zenon, <1>4 DEF Cleared
  <2>2. ~raced /\ last.by = s /\ ~last.uncleared =>
          intf.netem = None /\ intf.tbf = None /\ intf.clsact = "none"
    BY <2>1 DEF Progress, Leaves
  <2>3. CASE qdiscs[s] = <<>>
    <3>1. Return(s, TRUE)
      BY Zenon, <1>4, <2>3 DEF Cleared
    <3>2. ~raced /\ last.by = s /\ ~last.uncleared => intf' = Asked
      BY <2>1, <2>2, <2>3 DEF Asked, Interface
    <3> QED BY Zenon, <2>1, <2>3, <3>1, <3>2, Returns DEF TbfBelowNetem
  <2>4. CASE qdiscs[s] # <<>>
    <3>1. pc' = [pc EXCEPT ![s] = "netem"] /\ UNCHANGED <<qdiscs, raced, last>>
      BY Zenon, <1>4, <2>4 DEF Cleared, Goto, history
    <3>2. ~raced /\ last.by = s => Progress(s)'
      BY Zenon, <2>1, <3>1 DEF Progress, Leaves
    <3> QED BY Zenon, <2>1, <2>4, <3>1, <3>2, GoesOn DEF PCs, TbfBelowNetem
  <2> QED BY Zenon, <2>3, <2>4
<1> QED BY Zenon, <1>1, <1>2, <1>3, <1>4

\* The steps that add the qdiscs and the program.
LEMMA AddSteps ==
  ASSUME QInv, NEW s \in Setters,
         \/ AddNetem(s) \/ AddTbf(s) \/ AddBpfClsact(s) \/ AddBpfFilter(s) \/ AddFails(s)
  PROVE  ShapingInv'
<1> USE StepFacts
<1>q. /\ qdiscs[s] \in Lists
      /\ qdiscs[s] # <<>> => /\ Len(qdiscs[s]) \in {1, 2} /\ qdiscs[s][1] \in Values
                             /\ Len(qdiscs[s]) = 2 => qdiscs[s][2] \in Values
  BY DEF Lists
<1>a. ASSUME ~raced, last.by = s, qdiscs[s] # <<>>, pc[s] # "idle", NEW i \in Interface,
             i.netem = qdiscs[s][1],
             i.tbf = IF Len(qdiscs[s]) = 2 THEN qdiscs[s][2] ELSE None
      PROVE  /\ s \in Bypassing /\ i.clsact = "program" => i = Asked
             /\ s \notin Bypassing => [i EXCEPT !.clsact = "none"] = Asked
  BY <1>a DEF Asked, Interface
<1>r. ASSUME Return(s, FALSE), pc[s] # "idle", UNCHANGED intf PROVE ShapingInv'
  BY Zenon, <1>r, Returns DEF TbfBelowNetem
<1>f. ASSUME Finish(s), pc[s] \in {"netem", "tbf"}, qdiscs[s] # <<>>, TbfBelowNetem',
             intf' \in Interface, intf'.clsact = intf.clsact,
             ~raced /\ last.by = s =>
               /\ intf'.netem = qdiscs[s][1]
               /\ intf'.tbf = IF Len(qdiscs[s]) = 2 THEN qdiscs[s][2] ELSE None
               /\ ~last.uncleared => intf.clsact = "none"
      PROVE  ShapingInv'
  <2>1. CASE s \in Bypassing
    <3>1. pc' = [pc EXCEPT ![s] = "clsact"] /\ UNCHANGED <<qdiscs, raced, last>>
      BY Zenon, <1>f, <2>1 DEF Finish, Goto, history
    <3>2. ~raced /\ last.by = s => Progress(s)'
      BY Zenon, <1>f, <3>1 DEF Progress
    <3> QED BY Zenon, <1>f, <2>1, <3>1, <3>2, GoesOn DEF PCs
  <2>2. CASE s \notin Bypassing
    <3>1. Return(s, TRUE)
      BY Zenon, <1>f, <2>2 DEF Finish
    <3>2. ~raced /\ last.by = s => [intf' EXCEPT !.clsact = "none"] = Asked
      BY Zenon, <1>f, <1>a, <2>2
    <3>3. ~raced /\ last.by = s /\ ~last.uncleared => [intf' EXCEPT !.clsact = "none"] = intf'
      BY Zenon, <1>f DEF Interface
    <3> QED BY Zenon, <1>f, <3>1, <3>2, <3>3, Returns
  <2> QED BY Zenon, <2>1, <2>2
<1>1. CASE AddNetem(s)
  <2>1. pc[s] = "netem"
    BY Zenon, <1>1 DEF AddNetem
  <2>2. CASE intf.netem # None
    BY Zenon, <1>1, <1>r, <2>1, <2>2 DEF AddNetem
  <2>3. CASE intf.netem = None
    <3>1. /\ intf' = [intf EXCEPT !.netem = qdiscs[s][1]]
          /\ IF Len(qdiscs[s]) = 2 THEN Goto(s, "tbf") ELSE Finish(s)
      BY Zenon, <1>1, <2>3 DEF AddNetem
    <3>2. /\ intf' \in Interface /\ TbfBelowNetem' /\ intf'.netem = qdiscs[s][1]
          /\ intf'.tbf = None /\ intf'.clsact = intf.clsact
      BY Zenon, <1>q, <2>1, <2>3, <3>1 DEF Interface, Setting, TbfBelowNetem
    <3>3. ~raced /\ last.by = s /\ ~last.uncleared => intf.clsact = "none"
      BY <2>1 DEF Progress, Leaves
    <3>4. CASE Len(qdiscs[s]) = 2
      <4>1. pc' = [pc EXCEPT ![s] = "tbf"] /\ UNCHANGED <<qdiscs, raced, last>>
        BY Zenon, <3>1, <3>4 DEF Goto, history
      <4>2. ~raced /\ last.by = s => Progress(s)'
        BY Zenon, <3>2, <3>3, <4>1 DEF Progress
      <4> QED BY Zenon, <2>1, <3>2, <3>4, <4>1, <4>2, GoesOn DEF PCs
    <3>5. CASE Len(qdiscs[s]) # 2
      BY <1>f, <2>1, <3>1, <3>2, <3>3, <3>5
    <3> QED BY Zenon, <3>4, <3>5
  <2> QED BY Zenon, <2>2, <2>3
<1>2. CASE AddTbf(s)
  <2>1. pc[s] = "tbf"
    BY Zenon, <1>2 DEF AddTbf
  <2>2. CASE intf.netem = None \/ intf.tbf # None
    BY Zenon, <1>2, <1>r, <2>1, <2>2 DEF AddTbf
  <2>3. CASE ~(intf.netem = None \/ intf.tbf # None)
    <3>1. intf' = [intf EXCEPT !.tbf = qdiscs[s][2]] /\ Finish(s)
      BY Zenon, <1>2, <2>3 DEF AddTbf
    <3>2. /\ intf' \in Interface /\ TbfBelowNetem' /\ intf'.netem = intf.netem
          /\ intf'.tbf = qdiscs[s][2] /\ intf'.clsact = intf.clsact
      BY Zenon, <1>q, <2>1, <2>3, <3>1 DEF Interface, Setting, TbfBelowNetem
    <3>3. ~raced /\ last.by = s =>
            intf.netem = qdiscs[s][1] /\ (~last.uncleared => intf.clsact = "none")
      BY Zenon, <2>1 DEF Progress
    <3> QED BY Zenon, <1>f, <2>1, <3>1, <3>2, <3>3
  <2> QED BY Zenon, <2>2, <2>3
<1>3. CASE AddBpfClsact(s)
  <2>1. pc[s] = "clsact"
    BY Zenon, <1>3 DEF AddBpfClsact
  <2>2. CASE intf.clsact # "none"
    BY Zenon, <1>3, <1>r, <2>1, <2>2 DEF AddBpfClsact
  <2>3. CASE intf.clsact = "none"
    <3>1. /\ intf' = [intf EXCEPT !.clsact = "bare"] /\ pc' = [pc EXCEPT ![s] = "filter"]
          /\ UNCHANGED <<qdiscs, raced, last>>
      BY Zenon, <1>3, <2>3 DEF AddBpfClsact, Goto, history
    <3>2. intf'.netem = intf.netem /\ intf'.tbf = intf.tbf
      BY Zenon, <3>1 DEF Interface
    <3>3. ~raced /\ last.by = s => Progress(s)'
      BY Zenon, <2>1, <3>1, <3>2 DEF Progress
    <3> QED BY Zenon, <2>1, <3>1, <3>2, <3>3, GoesOn DEF PCs, TbfBelowNetem
  <2> QED BY Zenon, <2>2, <2>3
<1>4. CASE AddBpfFilter(s)
  <2>1. pc[s] = "filter"
    BY Zenon, <1>4 DEF AddBpfFilter
  <2>2. CASE intf.clsact = "none"
    BY Zenon, <1>4, <1>r, <2>1, <2>2 DEF AddBpfFilter
  <2>3. CASE intf.clsact # "none"
    <3>1. intf' = [intf EXCEPT !.clsact = "program"] /\ Return(s, TRUE)
      BY Zenon, <1>4, <2>3 DEF AddBpfFilter
    <3>2. /\ intf' \in Interface /\ TbfBelowNetem' /\ intf'.clsact = "program"
          /\ intf'.netem = intf.netem /\ intf'.tbf = intf.tbf
      BY Zenon, <3>1 DEF Interface, Clsact, TbfBelowNetem
    <3>3. ~raced /\ last.by = s => intf' = Asked
      BY Zenon, <1>a, <2>1, <3>2 DEF Progress
    <3> QED BY Zenon, <2>1, <3>1, <3>2, <3>3, Returns
  <2> QED BY Zenon, <2>2, <2>3
<1>5. CASE AddFails(s)
  BY Zenon, <1>5, <1>r DEF AddFails
<1> QED BY Zenon, <1>1, <1>2, <1>3, <1>4, <1>5

\* A handler that calls SetVethQdiscs while nobody else does counts as alone.
LEMMA CallStep ==
  ASSUME QInv, NEW s \in Setters, NEW p \in Properties, Call(s, p)
  PROVE  ShapingInv'
<1> USE StepFacts
<1>1. /\ pc[s] = "idle" /\ pc' = [pc EXCEPT ![s] = "list"] /\ UNCHANGED intf
      /\ qdiscs' = [qdiscs EXCEPT ![s] = MakeQdiscs(p)]
      /\ last' = [by |-> s, qdiscs |-> MakeQdiscs(p), ok |-> FALSE, uncleared |-> FALSE]
      /\ raced' = (Busy # {} /\ (raced \/ ~(Busy \cup {s} \subseteq Locking)))
      /\ s \in Locking => Busy \cap Locking = {}
  BY Zenon DEF Call, Start
<1>2. ~raced' => Busy = {}
  BY Zenon, <1>1
<1>3. Alone'
  BY Zenon, <1>1, <1>2 DEF Alone, Busy
<1>4. Told'
  BY Zenon, <1>1 DEF QInv, ShapingInv, Told, Running
<1>5. \A r \in Setters : Running(r)' => Progress(r)'
  BY Zenon, <1>1 DEF Running, Progress
<1>6. TbfBelowNetem' /\ ShapedAsAsked'
  BY Zenon, <1>1 DEF TbfBelowNetem, ShapedAsAsked
<1> QED BY Zenon, <1>3, <1>4, <1>5, <1>6 DEF ShapingInv

\* The part of the type invariant about the calls.
CallType ==
  /\ pc \in [Setters -> PCs]
  /\ qdiscs \in [Setters -> Lists]
  /\ last \in [by : Setters \cup {None}, qdiscs : Lists, ok : BOOLEAN, uncleared : BOOLEAN]
  /\ raced \in BOOLEAN
  /\ calls \in 0 .. MaxCalls

\* A call that goes on or returns keeps them.
LEMMA MoveTypes ==
  ASSUME QInv, NEW s \in Setters
  PROVE  /\ \A label \in PCs : Goto(s, label) => CallType'
         /\ \A ok \in BOOLEAN : Return(s, ok) => CallType'
<1>1. CallType
  BY Zenon DEF QInv, TypeOK, CallType
<1>2. ASSUME NEW label \in PCs, Goto(s, label) PROVE CallType'
  BY Zenon, <1>1, <1>2 DEF Goto, history, CallType
<1>3. ASSUME NEW ok \in BOOLEAN, Return(s, ok) PROVE CallType'
  <2>1. pc' \in [Setters -> PCs] /\ UNCHANGED <<raced, calls>>
    BY Zenon, <1>1, <1>3 DEF Return, CallType, PCs
  <2>2. qdiscs' \in [Setters -> Lists]
    <3>1. <<>> \in Lists
      BY DEF Lists
    <3> QED BY Zenon, <1>1, <1>3, <3>1 DEF Return, CallType
  <2>3. last' \in [by : Setters \cup {None}, qdiscs : Lists, ok : BOOLEAN, uncleared : BOOLEAN]
    BY Zenon, <1>1, <1>3 DEF Return, CallType
  <2> QED BY Zenon, <1>1, <2>1, <2>2, <2>3 DEF CallType
<1> QED BY Zenon, <1>2, <1>3

\* The steps keep the types.
LEMMA StepTypes ==
  ASSUME QInv, NEW s \in Setters, Step(s)
  PROVE  TypeOK'
<1>b. /\ CallType /\ fails \in 0 .. MaxFails /\ MaxFails \in Nat /\ intf \in Interface
      /\ listed \in [Setters -> Seq(QdiscKinds)]
  BY Zenon, QdiscsAssumption DEF QInv, TypeOK, CallType
<1>n. \A kind \in QdiscKinds : Without(intf, kind) \in Interface
  BY Zenon, <1>b DEF Without, QdiscKinds, Interface, Setting, Clsact
<1>q. qdiscs[s] # <<>> => /\ qdiscs[s][1] \in Setting
                          /\ Len(qdiscs[s]) = 2 => qdiscs[s][2] \in Setting
  <2>1. qdiscs[s] \in Lists
    BY Zenon, <1>b DEF CallType
  <2> QED BY <2>1 DEF Lists, Setting
<1>l. listed[s] # <<>> => /\ Head(listed[s]) \in QdiscKinds
                          /\ [listed EXCEPT ![s] = Tail(@)] \in [Setters -> Seq(QdiscKinds)]
  BY <1>b
<1>m. ASSUME \/ Goto(s, "clear") \/ Goto(s, "netem") \/ Goto(s, "tbf") \/ Goto(s, "clsact")
             \/ Goto(s, "filter") \/ Return(s, TRUE) \/ Return(s, FALSE)
      PROVE  CallType'
  BY Zenon, <1>m, MoveTypes DEF PCs
<1>f. Finish(s) => CallType'
  BY Zenon, <1>m DEF Finish
<1>1. CASE ClearList(s)
  <2>1. CallType' /\ UNCHANGED <<intf, fails>>
    BY Zenon, <1>1, <1>m DEF ClearList
  <2>2. listed' \in [Setters -> Seq(QdiscKinds)]
    BY Zenon, <1>1, <1>b, FoundAll DEF ClearList
  <2> QED BY Zenon, <1>b, <2>1, <2>2 DEF TypeOK, CallType
<1>2. CASE ClearDelete(s)
  BY Zenon, <1>2, <1>b, <1>n, <1>l DEF ClearDelete, TypeOK, CallType, history, bounds
<1>3. CASE ClearFails(s)
  <2>1. pc' \in [Setters -> PCs] /\ UNCHANGED <<intf, qdiscs, raced, calls>>
    BY Zenon, <1>3, <1>b DEF ClearFails, PCs, CallType
  <2>2. listed' \in [Setters -> Seq(QdiscKinds)]
    BY Zenon, <1>3, <1>b, <1>l DEF ClearFails
  <2>3. last' \in [by : Setters \cup {None}, qdiscs : Lists, ok : BOOLEAN, uncleared : BOOLEAN]
    BY Zenon, <1>3, <1>b DEF ClearFails, CallType
  <2>4. fails' \in 0 .. MaxFails
    BY <1>3, <1>b DEF ClearFails
  <2> QED BY Zenon, <1>b, <2>1, <2>2, <2>3, <2>4 DEF TypeOK, CallType
<1>4. CASE Cleared(s)
  <2>1. CallType' /\ UNCHANGED <<intf, listed, fails>>
    BY Zenon, <1>4, <1>m DEF Cleared
  <2> QED BY Zenon, <1>b, <2>1 DEF TypeOK, CallType
<1>5. CASE AddNetem(s)
  <2>1. CallType' /\ UNCHANGED <<listed, fails>>
    BY Zenon, <1>5, <1>m, <1>f DEF AddNetem
  <2>2. intf' \in Interface
    <3>1. PICK v \in Setting : intf' = intf \/ intf' = [intf EXCEPT !.netem = v]
      BY Zenon, <1>5, <1>q, StepFacts DEF AddNetem
    <3> QED BY Zenon, <1>b, <3>1 DEF Interface
  <2> QED BY Zenon, <1>b, <2>1, <2>2 DEF TypeOK, CallType
<1>6. CASE AddTbf(s)
  <2>1. CallType' /\ UNCHANGED <<listed, fails>>
    BY Zenon, <1>6, <1>m, <1>f DEF AddTbf
  <2>2. intf' \in Interface
    <3>1. PICK v \in Setting : intf' = intf \/ intf' = [intf EXCEPT !.tbf = v]
      BY Zenon, <1>6, <1>q, StepFacts DEF AddTbf
    <3> QED BY Zenon, <1>b, <3>1 DEF Interface
  <2> QED BY Zenon, <1>b, <2>1, <2>2 DEF TypeOK, CallType
<1>7. CASE AddBpfClsact(s) \/ AddBpfFilter(s)
  <2>1. CallType' /\ UNCHANGED <<listed, fails>>
    BY Zenon, <1>7, <1>m DEF AddBpfClsact, AddBpfFilter
  <2>2. intf' \in Interface
    <3>1. PICK c \in Clsact : intf' = intf \/ intf' = [intf EXCEPT !.clsact = c]
      BY Zenon, <1>7 DEF AddBpfClsact, AddBpfFilter, Clsact
    <3> QED BY Zenon, <1>b, <3>1 DEF Interface
  <2> QED BY Zenon, <1>b, <2>1, <2>2 DEF TypeOK, CallType
<1>8. CASE AddFails(s)
  <2>1. CallType' /\ UNCHANGED <<intf, listed>>
    BY Zenon, <1>8, <1>m DEF AddFails
  <2>2. fails' \in 0 .. MaxFails
    BY <1>8, <1>b DEF AddFails
  <2> QED BY Zenon, <1>b, <2>1, <2>2 DEF TypeOK, CallType
<1> QED BY Zenon, <1>1, <1>2, <1>3, <1>4, <1>5, <1>6, <1>7, <1>8 DEF Step

\* A call keeps the types.
LEMMA CallTypes ==
  ASSUME QInv, NEW s \in Setters, NEW p \in Properties, Call(s, p)
  PROVE  TypeOK'
<1> USE StepFacts, QdiscsAssumption
<1>1. raced' \in BOOLEAN /\ calls' \in 0 .. MaxCalls /\ UNCHANGED <<intf, listed, fails>>
  BY DEF QInv, TypeOK, Call, Start
<1>2. pc' \in [Setters -> PCs] /\ qdiscs' \in [Setters -> Lists]
  BY Zenon, MakeQdiscsType DEF Call, Start, PCs
<1>3. last' \in [by : Setters \cup {None}, qdiscs : Lists, ok : BOOLEAN, uncleared : BOOLEAN]
  BY Zenon, MakeQdiscsType DEF Call, Start
<1> QED BY Zenon, <1>1, <1>2, <1>3 DEF QInv, TypeOK

\* The invariant holds initially and is kept.
THEOREM QdiscsInvariant == Spec => []QInv
<1>1. Init => QInv
  <2>1. Init => TypeOK
    <3>1. <<>> \in Lists /\ <<>> \in Seq(QdiscKinds)
      BY DEF Lists
    <3>2. NoCall \in [by : Setters \cup {None}, qdiscs : Lists, ok : BOOLEAN, uncleared : BOOLEAN]
      BY Zenon, <3>1 DEF NoCall
    <3>3. [netem |-> None, tbf |-> None, clsact |-> "none"] \in Interface
      BY Zenon DEF Interface, Setting, Clsact
    <3>4. 0 \in 0 .. MaxCalls /\ 0 \in 0 .. MaxFails /\ "idle" \in PCs
      BY QdiscsAssumption DEF PCs
    <3>5. ASSUME Init PROVE CallType /\ fails \in 0 .. MaxFails /\ intf \in Interface
      BY Zenon, <3>1, <3>2, <3>3, <3>4, <3>5 DEF Init, CallType
    <3>6. ASSUME Init PROVE listed \in [Setters -> Seq(QdiscKinds)]
      BY Zenon, <3>1, <3>6 DEF Init
    <3> QED BY Zenon, <3>5, <3>6 DEF TypeOK, CallType
  <2>2. Init => ShapingInv
    BY DEF Init, NoCall, ShapingInv, Alone, TbfBelowNetem, Told, Running, ShapedAsAsked
  <2> QED BY Zenon, <2>1, <2>2 DEF QInv
<1>2. QInv /\ [Next]_vars => QInv'
  <2> SUFFICES ASSUME QInv, [Next]_vars PROVE QInv'
    BY Zenon
  <2>1. CASE UNCHANGED vars
    BY <2>1 DEF vars, history, bounds, QInv, TypeOK, ShapingInv, Alone, TbfBelowNetem, Told, Running,
                Progress, Leaves, ShapedAsAsked, Busy, Asked
  <2>2. CASE \E s \in Setters : Step(s)
    BY Zenon, <2>2, StepTypes, ClearSteps, AddSteps DEF Step, QInv
  <2>3. CASE \E s \in Setters, p \in Properties : Call(s, p)
    BY Zenon, <2>3, CallTypes, CallStep DEF QInv
  <2> QED BY Zenon, <2>1, <2>2, <2>3 DEF Next, Quiet
<1> QED BY <1>1, <1>2, PTL DEF Spec

\* When every call has returned and the last one succeeded the interface is
\* shaped as that call asked, for any handlers and any number of calls.
THEOREM ShapingCorrect == Spec => []ShapedAsAsked
<1>1. QInv => ShapedAsAsked
  BY Zenon DEF QInv, ShapingInv
<1> QED BY <1>1, QdiscsInvariant, PTL

\* SetVethQdiscs keeps the types.
THEOREM QdiscsTyped == Spec => []TypeOK
<1>1. QInv => TypeOK
  BY Zenon DEF QInv
<1> QED BY <1>1, QdiscsInvariant, PTL
-----------------------------------------------------------------------------
(* The conversions.                                                        *)

\* A number up to one width outside of 0 .. m - 1 wraps once.
LEMMA Wrapped ==
  ASSUME NEW m \in Nat \ {0}, NEW x \in Int
  PROVE  /\ x \in 0 .. m - 1 => x % m = x
         /\ x \in m .. 2 * m - 1 => x % m = x - m
         /\ x \in (0 - m) .. 0 - 1 => x % m = x + m
  OBVIOUS

\* A number and its residue are a multiple of the modulus apart.
LEMMA Residue ==
  ASSUME NEW m \in Nat \ {0}, NEW x \in Int
  PROVE  x % m \in 0 .. m - 1 /\ \E q \in Int : x = m * q + (x % m)
<1>1. x \div m \in Int
  OBVIOUS
<1>2. x % m \in 0 .. m - 1
  OBVIOUS
<1>3. x = m * (x \div m) + (x % m)
  BY Z3
<1> QED
  BY Zenon, <1>1, <1>2, <1>3

\* Numbers of one interval as long as the modulus, a multiple of it apart, are equal.
LEMMA Apart ==
  ASSUME NEW m \in Nat \ {0}, NEW a \in Int, NEW x \in a .. a + m - 1, NEW y \in a .. a + m - 1,
         NEW q \in Int, x = y + m * q
  PROVE  x = y /\ q = 0
<1>1. CASE q = 0
  BY <1>1
<1>2. CASE q >= 1
  <2>1. m * q >= m
    BY <1>2
  <2> QED
    BY <2>1
<1>3. CASE q <= 0 - 1
  <2>1. m * q <= 0 - m
    BY <1>3
  <2> QED
    BY <2>1
<1> QED
  BY <1>1, <1>2, <1>3

\* A quotient of natural numbers is one.
LEMMA Divided ==
  ASSUME NEW m \in Nat \ {0}, NEW x \in Nat
  PROVE  x \div m \in Nat
  OBVIOUS

\* For every rate whose burst fits in 32 bits, getTbfBurst returns at least the
\* least burst and at least what the rate lets through between two ticks.
THEOREM BurstsSuffice == \A rate \in Nat : BurstEnough(rate)
<1> SUFFICES ASSUME NEW rate \in Nat, rate \div KernelHZ < U32
             PROVE  getTbfBurst(rate) >= MinBurst /\ getTbfBurst(rate) >= rate \div KernelHZ
  BY DEF BurstEnough
<1>1. rate \div KernelHZ \in Nat
  BY Divided, ConversionsAssumption
<1>2. (rate \div KernelHZ) % U32 = rate \div KernelHZ
  BY <1>1, Wrapped, ConversionsAssumption
<1> QED
  BY <1>1, <1>2, ConversionsAssumption DEF getTbfBurst

\* Texts that time.ParseDuration has read or refused.
Readings == [ok : BOOLEAN, value : Int]

\* ParseDuration refuses exactly the texts that are no duration or a negative one,
\* and keeps every other one that fits to the microsecond.
THEOREM DurationsKept == \A d \in Readings : DurationKept(d)
<1> SUFFICES ASSUME NEW d \in Readings PROVE DurationKept(d)
  OBVIOUS
<1>1. ParseDuration(d).ok = (d.ok /\ d.value >= 0)
  <2>1. d.ok \in BOOLEAN /\ d.value \in Int
    BY DEF Readings
  <2>2. CASE d.ok /\ ~(d.value < 0)
    <3>1. d.value >= 0
      BY <2>1, <2>2
    <3>2. ParseDuration(d).ok = TRUE
      BY Zenon, <2>2 DEF ParseDuration, Value
    <3> QED
      BY Zenon, <2>2, <3>1, <3>2
  <2>3. CASE ~d.ok \/ d.value < 0
    <3>1. ~(d.ok /\ d.value >= 0)
      BY <2>1, <2>3
    <3>2. ParseDuration(d).ok = FALSE
      BY Zenon, <2>3 DEF ParseDuration, Error
    <3> QED
      BY Zenon, <2>1, <3>1, <3>2
  <2> QED
    BY Zenon, <2>2, <2>3
<1>2. ASSUME d.ok, d.value \in 0 .. 1000 * U32 - 1
      PROVE  Micros(d, ParseDuration(d).value)
  <2>1. PICK q : q = d.value \div 1000
    OBVIOUS
  <2>2. q \in Nat /\ 1000 * q <= d.value /\ d.value < 1000 * (q + 1)
    BY <1>2, <2>1, ConversionsAssumption
  <2>3. q \in 0 .. U32 - 1
    BY <1>2, <2>2, ConversionsAssumption
  <2>4. q % U32 = q
    BY <2>3, Wrapped, ConversionsAssumption
  <2>5. ParseDuration(d).value = q
    BY <1>2, <2>1, <2>4, ConversionsAssumption DEF ParseDuration, Value
  <2> QED
    BY <2>2, <2>5 DEF Micros
<1> QED
  BY <1>1, <1>2 DEF DurationKept

\* The conversion to int32 adds a multiple of the width.
LEMMA Int32Facts ==
  ASSUME NEW n \in Int
  PROVE  Int32(n) \in Int32s /\ \E q \in Int : Int32(n) = n + U32 * q
<1>0. U32 \in Nat \ {0} /\ U32 % 2 = 0
  BY ConversionsAssumption
<1>1. PICK h \in Nat : h = U32 \div 2 /\ U32 = 2 * h
  BY <1>0
<1>2. PICK r \in 0 .. U32 - 1 : r = n % U32
  BY <1>0, Residue
<1>3. PICK q \in Int : n = U32 * q + r
  BY Zenon, <1>0, <1>2, Residue
<1>4. Int32(n) = IF r < h THEN r ELSE r - U32
  BY Zenon, <1>1, <1>2 DEF Int32
<1>5. Int32(n) \in Int32s
  BY <1>1, <1>2, <1>4 DEF Int32s
<1>6. CASE r < h
  <2>1. 0 - q \in Int /\ Int32(n) = n + U32 * (0 - q)
    BY <1>0, <1>3, <1>4, <1>6
  <2> QED
    BY <1>5, <2>1
<1>7. CASE ~(r < h)
  <2>1. 0 - q - 1 \in Int /\ Int32(n) = n + U32 * (0 - q - 1)
    BY <1>0, <1>3, <1>4, <1>7
  <2> QED
    BY <1>5, <2>1
<1> QED
  BY <1>6, <1>7

\* Values of an int32 a multiple of the width apart are equal.
LEMMA Int32Apart ==
  ASSUME NEW x \in Int32s, NEW y \in Int32s, NEW q \in Int, x = y + U32 * q
  PROVE  x = y
<1>0. U32 \in Nat \ {0} /\ U32 % 2 = 0
  BY ConversionsAssumption
<1>1. PICK h \in Nat : h = U32 \div 2 /\ U32 = 2 * h
  BY <1>0
<1>2. 0 - h \in Int /\ Int32s = (0 - h) .. (0 - h) + U32 - 1
  BY <1>1 DEF Int32s
<1> QED
  BY <1>0, <1>2, Apart

\* Any two uids have the same VXLAN identifier exactly if they are a multiple of
\* the width apart, and GetUidFromVni finds the uid again exactly if it is an int32.
THEOREM VnisKept == \A uid, other \in Int : VnisApart(uid, other)
<1> SUFFICES ASSUME NEW uid \in Int, NEW other \in Int PROVE VnisApart(uid, other)
  OBVIOUS
<1>0. U32 \in Nat \ {0} /\ VxlanBase \in Nat
  BY ConversionsAssumption
<1>1. /\ GetVniFromUid(uid) \in Int32s /\ GetVniFromUid(other) \in Int32s
      /\ \E q \in Int : GetVniFromUid(uid) = VxlanBase + uid + U32 * q
      /\ \E q \in Int : GetVniFromUid(other) = VxlanBase + other + U32 * q
  <2>1. VxlanBase + uid \in Int /\ VxlanBase + other \in Int
    BY <1>0
  <2> QED
    BY Zenon, <2>1, Int32Facts DEF GetVniFromUid
<1>2. PICK i \in Int : GetVniFromUid(uid) = VxlanBase + uid + U32 * i
  BY <1>1
<1>3. PICK j \in Int : GetVniFromUid(other) = VxlanBase + other + U32 * j
  BY <1>1
<1>4. ASSUME GetVniFromUid(uid) = GetVniFromUid(other) PROVE (uid - other) % U32 = 0
  <2>1. PICK r \in 0 .. U32 - 1 : r = (uid - other) % U32
    BY <1>0, Residue
  <2>2. PICK q \in Int : uid - other = U32 * q + r
    <3>1. uid - other \in Int
      OBVIOUS
    <3>2. \E q \in Int : uid - other = U32 * q + ((uid - other) % U32)
      BY Zenon, <1>0, <3>1, Residue
    <3> QED
      BY Zenon, <2>1, <3>2
  <2>3. r = 0 + U32 * (j - i - q)
    BY <1>0, <1>2, <1>3, <1>4, <2>2
  <2>4. 0 \in 0 .. 0 + U32 - 1 /\ r \in 0 .. 0 + U32 - 1 /\ j - i - q \in Int
    BY <1>0
  <2>5. r = 0
    BY <1>0, <2>3, <2>4, Apart
  <2> QED
    BY <2>1, <2>5
<1>5. ASSUME (uid - other) % U32 = 0 PROVE GetVniFromUid(uid) = GetVniFromUid(other)
  <2>1. PICK q \in Int : uid - other = U32 * q + 0
    <3>1. uid - other \in Int
      OBVIOUS
    <3>2. \E q \in Int : uid - other = U32 * q + ((uid - other) % U32)
      BY Zenon, <1>0, <3>1, Residue
    <3> QED
      BY Zenon, <1>5, <3>2
  <2>2. GetVniFromUid(uid) = GetVniFromUid(other) + U32 * (q + i - j) /\ q + i - j \in Int
    BY <1>0, <1>2, <1>3, <2>1
  <2> QED
    BY <1>1, <2>2, Int32Apart
<1>6. GetVniFromUid(uid) \in Int
  BY <1>0, <1>2
<1>7. /\ GetUidFromVni(GetVniFromUid(uid)) \in Int32s
      /\ \E q \in Int : GetUidFromVni(GetVniFromUid(uid)) = GetVniFromUid(uid) - VxlanBase + U32 * q
  <2>1. GetVniFromUid(uid) - VxlanBase \in Int
    BY <1>0, <1>6
  <2> QED
    BY Zenon, <2>1, Int32Facts DEF GetUidFromVni
<1>8. PICK k \in Int : GetUidFromVni(GetVniFromUid(uid)) = GetVniFromUid(uid) - VxlanBase + U32 * k
  BY <1>7
<1>9. GetUidFromVni(GetVniFromUid(uid)) = uid + U32 * (i + k) /\ i + k \in Int
  BY <1>0, <1>2, <1>8
<1>10. ASSUME uid \in Int32s PROVE GetUidFromVni(GetVniFromUid(uid)) = uid
  BY Zenon, <1>7, <1>9, <1>10, Int32Apart
<1> QED
  BY Zenon, <1>4, <1>5, <1>7, <1>10 DEF VnisApart
=============================================================================
