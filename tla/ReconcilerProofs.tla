-------------------------- MODULE ReconcilerProofs --------------------------
(***************************************************************************)
(* Proofs about the controller: what CalcDiff returns, for lists of any    *)
(* length, and that the reconcile loop brings the interfaces of a pod to   *)
(* what spec.links asks for.                                               *)
(***************************************************************************)
EXTENDS Reconciler, TLAPS, WellFoundedInduction

\* The lists of links there can be, and the interfaces of a list.
Lists == Specs \cup {First, Nil}
IntfsOf(links) == {links[k].intf : k \in 1 .. Len(links)}

\* A pod has one interface of a name.
Proper == \A s \in Lists : OneLinkPerIntf(List(s))

-----------------------------------------------------------------------------
(* Interface i on the way from list o to list s.                           *)

\* The lists have the same link for it, with the same properties or with others.
Same(o, s, i) ==
  /\ Wanted(o)[i] # NoLink /\ Wanted(s)[i] # NoLink
  /\ Wanted(o)[i].id = Wanted(s)[i].id

\* The call c of Reconcile treats it.
Due(c, o, s, i) ==
  \/ c = "del" /\ Wanted(o)[i] # NoLink /\ ~Same(o, s, i)
  \/ c = "add" /\ Wanted(s)[i] # NoLink /\ ~Same(o, s, i)
  \/ c = "changed" /\ Same(o, s, i) /\ Wanted(o)[i].prop # Wanted(s)[i].prop

\* The vxlan of a new link has been made and not shaped.
Shapeless(n, o, s, i) ==
  /\ Due("add", o, s, i) /\ Wanted(s)[i].id \in Tunnels
  /\ n[i] = [Wanted(s)[i] EXCEPT !.prop = NoProp]

\* What the interfaces n may be like after calls that failed half way.
Mixed(n, o, s) ==
  \A i \in Intfs :
    \/ n[i] = Wanted(o)[i]
    \/ n[i] = Wanted(s)[i]
    \/ n[i] = NoLink /\ ~Same(o, s, i)
    \/ Due("changed", o, s, i) /\ n[i] = [Wanted(s)[i] EXCEPT !.prop = NoProp]
    \/ Shapeless(n, o, s, i)

\* The links of call c are the ones of the interfaces it treats, as s has them.
Treats(c, o, s, links) ==
  \A k \in 1 .. Len(links) :
    /\ Due(c, o, s, links[k].intf)
    /\ c # "del" => links[k] = Wanted(s)[links[k].intf]

DiffOK(o, s, d) ==
  \A c \in Calls :
    /\ Treats(c, o, s, d[c])
    /\ \A i \in Intfs : Due(c, o, s, i) => i \in IntfsOf(d[c])

-----------------------------------------------------------------------------
(* The stages of the calls, with links still to be treated.                *)

Deleting(n, o, s, links) ==
  \A i \in Intfs \ IntfsOf(links) : Due("del", o, s, i) => n[i] = NoLink
Adding(n, o, s, links) ==
  \A i \in Intfs : ~Same(o, s, i) =>
    /\ n[i] \in {NoLink, Wanted(s)[i]} \/ Shapeless(n, o, s, i)
    /\ i \notin IntfsOf(links) => n[i] = Wanted(s)[i]
Changing(n, s, links) ==
  \A i \in Intfs \ IntfsOf(links) : n[i] = Wanted(s)[i]

\* A reconcile that has read the lists o and s is in call c, with the difference d.
CallOK(c, d, links, n, o, s) ==
  /\ DiffOK(o, s, d)
  /\ Treats(c, o, s, links)
  /\ c = "del" => Deleting(n, o, s, links)
  /\ c = "add" => Adding(n, o, s, links)
  /\ c = "changed" => Changing(n, s, links)

\* SetupPod, of which p is the state, makes the interfaces of the first list.
SetupOK(p, links, n, s) ==
  /\ p \in {"down", "get"} => n = Wanted(<<>>)
  /\ p = "get" => links = s
  /\ p = "alive" => Treats("add", <<>>, s, links) /\ Adding(n, <<>>, s, links)

-----------------------------------------------------------------------------
(* The invariant: o is the list before the last edit, s the one after it.  *)

\* What the reconcile loop and SetupPod can still read.
VersionsOK(o, s) ==
  /\ Current.status \in {o, s}
  /\ \A v \in cache .. Len(api) :
       v > cache \/ pc # "idle" \/ queued => api[v].spec = s /\ api[v].status \in {o, s}
  /\ pod # "up" => o = Nil /\ s # Nil /\ \A v \in 1 .. Len(api) : api[v].spec = s

\* The interfaces are those of the new list once the calls are through, and stay so.
Reached(o, s) ==
  \/ o = Nil
  \/ pc \in {"read", "write"}
  \/ pc = "idle" /\ Current.status = s

Phase(o, s) ==
  /\ VersionsOK(o, s)
  /\ Mixed(net, List(o), List(s))
  /\ SetupOK(pod, podLinks, net, List(s))
  /\ pc \in Calls => o # Nil /\ CallOK(pc, diff, todo, net, List(o), List(s))
  /\ pod = "up" /\ Reached(o, s) => net = Wanted(List(s))

NetInv ==
  risk = {} => Current.spec \in Lists /\ \E o \in Lists : Phase(o, Current.spec)
-----------------------------------------------------------------------------
(* Collect, by induction over the list: the least counterexample.          *)

\* A set of natural numbers has a least one.
LEMMA Least ==
  ASSUME NEW T, T \subseteq Nat, T # {}
  PROVE  \E m \in T : \A k \in T : m <= k
<1> DEFINE R == OpToRel(<, Nat)
<1>1. IsWellFoundedOn(R, Nat)
  BY Zenon, NatLessThanWellFounded
<1>2. \A x, y \in Nat : x < y => <<x, y>> \in R
  BY Zenon DEF OpToRel
<1> HIDE DEF R
<1>3. PICK m \in T : \A y \in T : ~(<<y, m>> \in R)
  BY Zenon, <1>1, WFMin
<1>4. ASSUME NEW k \in T PROVE m <= k
  <2>1. m \in Nat /\ k \in Nat
    BY Zenon
  <2>2. ~(k < m)
    BY Zenon, <1>2, <1>3, <2>1
  <2> QED BY <2>1, <2>2
<1> QED BY Zenon, <1>4

\* f is the function Collect defines, for the first n links.
Collects(links, K, n, f) ==
  f = [i \in 0 .. n |->
         IF i = 0 THEN <<>>
         ELSE IF i \in K THEN Append(f[i - 1], links[i]) ELSE f[i - 1]]

\* There is such a function.
LEMMA CollectsExists ==
  ASSUME NEW links, NEW K, NEW n \in Nat
  PROVE  \E f : Collects(links, K, n, f)
<1> DEFINE T == {m \in Nat : ~ \E f : Collects(links, K, m, f)}
<1> SUFFICES ASSUME T # {} PROVE FALSE
  BY Zenon
<1>1. PICK m \in T : \A k \in T : m <= k
  BY Zenon, Least
<1>2. m \in Nat /\ ~ \E f : Collects(links, K, m, f)
  BY Zenon
<1>3. m # 0
  <2>1. Collects(links, K, 0, [i \in 0 .. 0 |-> <<>>])
    BY DEF Collects
  <2> QED BY Zenon, <1>2, <2>1
<1>4. PICK f : Collects(links, K, m - 1, f)
  BY <1>1, <1>2, <1>3
<1> DEFINE g == [i \in 0 .. m |->
                   IF i < m THEN f[i]
                   ELSE IF m \in K THEN Append(f[m - 1], links[m]) ELSE f[m - 1]]
<1>5. Collects(links, K, m, g)
  <2>1. \A i \in 0 .. m - 1 : g[i] = f[i]
    BY <1>2
  <2>2. ASSUME NEW i \in 0 .. m
        PROVE  g[i] = IF i = 0 THEN <<>>
                      ELSE IF i \in K THEN Append(g[i - 1], links[i]) ELSE g[i - 1]
    <3>1. CASE i = m
      BY <1>2, <1>3, <2>1, <3>1
    <3>2. CASE i < m
      <4>0. i \in 0 .. m - 1
        BY <1>2, <3>2
      <4>1. f[i] = IF i = 0 THEN <<>>
                   ELSE IF i \in K THEN Append(f[i - 1], links[i]) ELSE f[i - 1]
        <5> DEFINE B(j) == IF j = 0 THEN <<>>
                           ELSE IF j \in K THEN Append(f[j - 1], links[j]) ELSE f[j - 1]
        <5>1. f = [j \in 0 .. m - 1 |-> B(j)]
          BY Zenon, <1>4 DEF Collects
        <5> HIDE DEF B
        <5>2. f[i] = B(i)
          BY Zenon, <4>0, <5>1
        <5> QED BY Zenon, <5>2 DEF B
      <4>2. i # 0 => g[i - 1] = f[i - 1]
        BY <1>2, <2>1, <3>2
      <4> QED BY Zenon, <1>2, <2>1, <3>2, <4>1, <4>2
    <3> QED BY <1>2, <3>1, <3>2
  <2> HIDE DEF g
  <2>3. g = [i \in 0 .. m |-> g[i]]
    BY Zenon DEF g
  <2> QED BY Zenon, <2>2, <2>3 DEF Collects
<1> QED BY Zenon, <1>2, <1>5

\* Collect returns the links at the positions in K and no other.
LEMMA Collected ==
  ASSUME NEW links \in Seq(Link), NEW K \in SUBSET (1 .. Len(links))
  PROVE  /\ Collect(links, K) \in Seq(Link)
         /\ \A k \in 1 .. Len(Collect(links, K)) : \E j \in K : Collect(links, K)[k] = links[j]
         /\ \A j \in K : \E k \in 1 .. Len(Collect(links, K)) : Collect(links, K)[k] = links[j]
<1> DEFINE f == CHOOSE g : Collects(links, K, Len(links), g)
<1>1. Collect(links, K) = f[Len(links)]
  BY Zenon DEF Collect, Collects
<1>2. Collects(links, K, Len(links), f)
  BY CollectsExists
<1> HIDE DEF f
<1> DEFINE P(i) == /\ f[i] \in Seq(Link)
                   /\ \A k \in 1 .. Len(f[i]) : \E j \in K : f[i][k] = links[j]
                   /\ \A j \in K \cap (1 .. i) : \E k \in 1 .. Len(f[i]) : f[i][k] = links[j]
           T == {i \in 0 .. Len(links) : ~P(i)}
<1>3. T = {}
  <2> SUFFICES ASSUME T # {} PROVE FALSE
    BY Zenon
  <2>0. T \subseteq Nat
    OBVIOUS
  <2>1. PICK m \in T : \A k \in T : m <= k
    <3> HIDE DEF T
    <3> QED BY Zenon, <2>0, Least
  <2>2. m \in 0 .. Len(links) /\ ~P(m)
    BY Zenon
  <2>3. CASE m = 0
    <3>1. f[m] = <<>>
      BY Zenon, <1>2, <2>2, <2>3 DEF Collects
    <3> QED BY <2>2, <2>3, <3>1
  <2>4. CASE m # 0
    <3>1. P(m - 1)
      BY <2>1, <2>2, <2>4
    <3>2. links[m] \in Link
      BY <2>2, <2>4
    <3>3. f[m] = IF m \in K THEN Append(f[m - 1], links[m]) ELSE f[m - 1]
      BY Zenon, <1>2, <2>2, <2>4 DEF Collects
    <3>4. CASE m \notin K
      BY <2>2, <2>4, <3>1, <3>3, <3>4
    <3>5. CASE m \in K
      <4>1. f[m] = Append(f[m - 1], links[m])
        BY Zenon, <3>3, <3>5
      <4>2. f[m] \in Seq(Link) /\ Len(f[m]) = Len(f[m - 1]) + 1
        BY <3>1, <3>2, <4>1
      <4>3. /\ \A k \in 1 .. Len(f[m - 1]) : f[m][k] = f[m - 1][k]
            /\ f[m][Len(f[m])] = links[m]
        BY <3>1, <3>2, <4>1
      <4>4. ASSUME NEW k \in 1 .. Len(f[m]) PROVE \E j \in K : f[m][k] = links[j]
        <5>1. k \in 1 .. Len(f[m - 1]) \/ k = Len(f[m])
          BY <3>1, <4>2
        <5> QED BY <3>1, <3>5, <4>3, <5>1
      <4>5. ASSUME NEW j \in K \cap (1 .. m) PROVE \E k \in 1 .. Len(f[m]) : f[m][k] = links[j]
        <5>1. CASE j = m
          BY <3>1, <4>2, <4>3, <5>1, SMTT(30)
        <5>2. CASE j # m
          <6>1. j \in K \cap (1 .. m - 1)
            BY <2>2, <5>2
          <6>2. PICK k \in 1 .. Len(f[m - 1]) : f[m - 1][k] = links[j]
            BY Zenon, <3>1, <6>1
          <6> QED BY <3>1, <4>2, <4>3, <6>2
        <5> QED BY Zenon, <5>1, <5>2
      <4> QED BY Zenon, <2>2, <4>2, <4>4, <4>5
    <3> QED BY Zenon, <3>4, <3>5
  <2> QED BY Zenon, <2>3, <2>4
<1>4. P(Len(links))
  BY <1>3
<1> QED BY Zenon, <1>1, <1>4

\* Whatever the lists are, and however long: CalcDiff neither deletes nor adds a
\* link that both have, so that a link that stays is never interrupted.
THEOREM CommonLinksKept == \A o, s \in Seq(Link) : KeepsCommon(o, s)
<1>1. ASSUME NEW a, NEW b, NEW c, EqualWithoutProperties(a, b), EqualWithoutProperties(b, c)
      PROVE  EqualWithoutProperties(a, c)
  BY Zenon, <1>1 DEF EqualWithoutProperties
<1>2. ASSUME NEW links \in Seq(Link), NEW others \in Seq(Link),
             NEW i \in 1 .. Len(Collect(links, Missing(links, others))),
             NEW k \in 1 .. Len(others)
      PROVE  ~EqualWithoutProperties(Collect(links, Missing(links, others))[i], others[k])
  <2>1. Missing(links, others) \in SUBSET (1 .. Len(links))
    BY Zenon DEF Missing
  <2>2. PICK j \in Missing(links, others) : Collect(links, Missing(links, others))[i] = links[j]
    BY Zenon, <2>1, Collected
  <2> QED BY Zenon, <2>2 DEF Missing, Found, Matches
<1> SUFFICES ASSUME NEW o \in Seq(Link), NEW s \in Seq(Link),
                    NEW j \in 1 .. Len(o), NEW k \in 1 .. Len(s),
                    EqualWithoutProperties(o[j], s[k])
             PROVE  /\ \A i \in 1 .. Len(CalcDiff(o, s).del) :
                         ~EqualWithoutProperties(CalcDiff(o, s).del[i], o[j])
                    /\ \A i \in 1 .. Len(CalcDiff(o, s).add) :
                         ~EqualWithoutProperties(CalcDiff(o, s).add[i], s[k])
  BY Zenon DEF KeepsCommon
<1>3. /\ CalcDiff(o, s).del = Collect(o, Missing(o, s))
      /\ CalcDiff(o, s).add = Collect(s, Missing(s, o))
  BY Zenon DEF CalcDiff
<1>4. EqualWithoutProperties(s[k], o[j])
  BY Zenon DEF EqualWithoutProperties
<1> QED BY Zenon, <1>1, <1>2, <1>3, <1>4
-----------------------------------------------------------------------------
(* What CalcDiff returns, in terms of the interfaces the lists ask for.    *)

\* The interfaces a list asks for are those of its links.
LEMMA WantedFacts ==
  ASSUME NEW links \in Seq(Link)
  PROVE  /\ Wanted(links) \in Interfaces
         /\ \A i \in Intfs : Wanted(links)[i] # NoLink =>
              \E k \in 1 .. Len(links) : links[k] = Wanted(links)[i] /\ links[k].intf = i
         /\ OneLinkPerIntf(links) =>
              \A k \in 1 .. Len(links) : /\ links[k].intf \in Intfs
                                         /\ Wanted(links)[links[k].intf] = links[k]
<1>1. ASSUME NEW k \in 1 .. Len(links) PROVE links[k] \in Link /\ links[k].intf \in Intfs
  <2>1. links[k] \in Link
    OBVIOUS
  <2> QED BY Zenon, <2>1 DEF Link
<1>2. ASSUME NEW i \in Intfs
      PROVE  \/ Wanted(links)[i] = NoLink /\ \A k \in 1 .. Len(links) : links[k].intf # i
             \/ \E k \in 1 .. Len(links) : links[k] = Wanted(links)[i] /\ links[k].intf = i
  <2>1. CASE \E k \in 1 .. Len(links) : links[k].intf = i
    <3> DEFINE k == CHOOSE k \in 1 .. Len(links) : links[k].intf = i
    <3>1. k \in 1 .. Len(links) /\ links[k].intf = i
      BY Zenon, <2>1
    <3>2. Wanted(links)[i] = links[k]
      BY Zenon, <2>1 DEF Wanted
    <3> HIDE DEF k
    <3> QED BY Zenon, <3>1, <3>2
  <2>2. CASE ~ \E k \in 1 .. Len(links) : links[k].intf = i
    BY Zenon, <2>2 DEF Wanted
  <2> QED BY Zenon, <2>1, <2>2
<1>3. Wanted(links) \in Interfaces
  <2>1. \A i \in Intfs : Wanted(links)[i] \in Link \cup {NoLink}
    BY Zenon, <1>1, <1>2
  <2>2. Wanted(links) = [i \in Intfs |-> Wanted(links)[i]]
    BY Zenon DEF Wanted
  <2> QED BY Zenon, <2>1, <2>2 DEF Interfaces
<1>4. ASSUME OneLinkPerIntf(links), NEW k \in 1 .. Len(links)
      PROVE  Wanted(links)[links[k].intf] = links[k]
  <2>1. PICK j \in 1 .. Len(links) :
          links[j] = Wanted(links)[links[k].intf] /\ links[j].intf = links[k].intf
    BY Zenon, <1>1, <1>2
  <2> QED BY Zenon, <1>4, <2>1 DEF OneLinkPerIntf
<1> QED BY Zenon, <1>1, <1>2, <1>3, <1>4

\* A link of one list is found in the other when both ask for the same link.
LEMMA FoundSame ==
  ASSUME NEW a \in Link, NEW s \in Seq(Link), OneLinkPerIntf(s)
  PROVE  /\ Found(a, s) <=> Wanted(s)[a.intf] # NoLink /\ Wanted(s)[a.intf].id = a.id
         /\ Found(a, s) => FirstMatch(a, s) = Wanted(s)[a.intf]
<1>0. a.intf \in Intfs /\ NoLink \notin Link
  BY Zenon, ReconcilerAssumption DEF Link
<1>1. ASSUME NEW k \in Matches(a, s) PROVE s[k] = Wanted(s)[a.intf] /\ s[k].id = a.id /\ s[k] \in Link
  BY WantedFacts DEF Matches, EqualWithoutProperties
<1>2. ASSUME Wanted(s)[a.intf] # NoLink, Wanted(s)[a.intf].id = a.id PROVE Found(a, s)
  <2>1. PICK k \in 1 .. Len(s) : s[k] = Wanted(s)[a.intf] /\ s[k].intf = a.intf
    BY Zenon, <1>0, <1>2, WantedFacts
  <2> QED BY Zenon, <1>2, <2>1 DEF Found, Matches, EqualWithoutProperties
<1>3. ASSUME Found(a, s) PROVE FirstMatch(a, s) = Wanted(s)[a.intf]
  <2>1. Matches(a, s) \subseteq Nat /\ Matches(a, s) # {}
    BY <1>3 DEF Matches, Found
  <2>2. PICK k \in Matches(a, s) : \A j \in Matches(a, s) : k <= j
    BY Zenon, <2>1, Least
  <2>3. (CHOOSE i \in Matches(a, s) : \A j \in Matches(a, s) : i <= j) \in Matches(a, s)
    BY Zenon, <2>2
  <2> QED BY Zenon, <1>1, <2>3 DEF FirstMatch
<1>4. Found(a, s) => Wanted(s)[a.intf] # NoLink /\ Wanted(s)[a.intf].id = a.id
  <2> SUFFICES ASSUME Found(a, s) PROVE Wanted(s)[a.intf] # NoLink /\ Wanted(s)[a.intf].id = a.id
    BY Zenon
  <2>1. PICK k \in Matches(a, s) : TRUE
    BY Zenon DEF Found
  <2> QED BY Zenon, <1>0, <1>1, <2>1
<1> QED BY Zenon, <1>2, <1>3, <1>4

\* The three lists of a diff, as a function of the call they are for.
LEMMA ThreeLists ==
  ASSUME NEW a \in Seq(Link), NEW b \in Seq(Link), NEW c \in Seq(Link)
  PROVE  [del |-> a, add |-> b, changed |-> c] \in [Calls -> Seq(Link)]
BY DEF Calls

\* CalcDiff returns the links that are gone, the ones that are new, and the new form
\* of the ones that have other properties, all of them and nothing else.
LEMMA CalcDiffOK ==
  ASSUME NEW o \in Seq(Link), NEW s \in Seq(Link), OneLinkPerIntf(o), OneLinkPerIntf(s)
  PROVE  /\ CalcDiff(o, s) \in [Calls -> Seq(Link)]
         /\ DiffOK(o, s, CalcDiff(o, s))
<1> DEFINE d == CalcDiff(o, s)
           del == Collect(o, Missing(o, s))
           add == Collect(s, Missing(s, o))
           dif == Collect(o, Differing(o, s))
<1>0. NoLink \notin Link
  BY Zenon, ReconcilerAssumption
<1>w. /\ Wanted(o) \in Interfaces /\ Wanted(s) \in Interfaces
      /\ \A k \in 1 .. Len(o) : o[k] \in Link /\ o[k].intf \in Intfs /\ Wanted(o)[o[k].intf] = o[k]
      /\ \A k \in 1 .. Len(s) : s[k] \in Link /\ s[k].intf \in Intfs /\ Wanted(s)[s[k].intf] = s[k]
  BY WantedFacts
<1>a. ASSUME NEW k \in 1 .. Len(o)
      PROVE  /\ k \in Missing(o, s) <=> Due("del", o, s, o[k].intf)
             /\ k \in Differing(o, s) <=> Due("changed", o, s, o[k].intf)
             /\ k \in Differing(o, s) => FirstMatch(o[k], s) = Wanted(s)[o[k].intf]
  BY <1>0, <1>w, FoundSame DEF Missing, Differing, Changed, Due, Same
<1>b. ASSUME NEW k \in 1 .. Len(s) PROVE k \in Missing(s, o) <=> Due("add", o, s, s[k].intf)
  BY <1>0, <1>w, FoundSame DEF Missing, Due, Same
<1>m. /\ Missing(o, s) \in SUBSET (1 .. Len(o)) /\ Differing(o, s) \in SUBSET (1 .. Len(o))
      /\ Missing(s, o) \in SUBSET (1 .. Len(s))
  BY Zenon DEF Missing, Differing
<1>1. /\ del \in Seq(Link)
      /\ \A k \in 1 .. Len(del) : \E j \in Missing(o, s) : del[k] = o[j]
      /\ \A j \in Missing(o, s) : \E k \in 1 .. Len(del) : del[k] = o[j]
  BY Zenon, <1>m, Collected
<1>2. /\ add \in Seq(Link)
      /\ \A k \in 1 .. Len(add) : \E j \in Missing(s, o) : add[k] = s[j]
      /\ \A j \in Missing(s, o) : \E k \in 1 .. Len(add) : add[k] = s[j]
  BY Zenon, <1>m, Collected
<1>3. /\ dif \in Seq(Link)
      /\ \A k \in 1 .. Len(dif) : \E j \in Differing(o, s) : dif[k] = o[j]
      /\ \A j \in Differing(o, s) : \E k \in 1 .. Len(dif) : dif[k] = o[j]
  BY Zenon, <1>m, Collected
<1> DEFINE chg == [k \in 1 .. Len(dif) |-> FirstMatch(dif[k], s)]
<1>d. d = [del |-> del, add |-> add, changed |-> chg]
  BY Zenon DEF CalcDiff
<1> HIDE DEF d, del, add, dif
<1>4. ASSUME NEW k \in 1 .. Len(dif)
      PROVE  /\ dif[k].intf \in Intfs /\ Due("changed", o, s, dif[k].intf)
             /\ chg[k] = Wanted(s)[dif[k].intf] /\ chg[k] \in Link /\ chg[k].intf = dif[k].intf
  <2>1. PICK j \in Differing(o, s) : dif[k] = o[j]
    BY Zenon, <1>3
  <2>2. j \in 1 .. Len(o)
    BY Zenon DEF Differing
  <2>3. Due("changed", o, s, dif[k].intf) /\ chg[k] = Wanted(s)[dif[k].intf]
    BY Zenon, <1>a, <2>1, <2>2
  <2>4. PICK i \in 1 .. Len(s) : s[i] = Wanted(s)[dif[k].intf] /\ s[i].intf = dif[k].intf
    BY Zenon, <1>w, <2>1, <2>2, <2>3, WantedFacts DEF Due, Same
  <2> QED BY Zenon, <1>w, <2>1, <2>2, <2>3, <2>4
<1>5. chg \in Seq(Link) /\ Len(chg) = Len(dif)
  BY <1>3, <1>4, SMTT(30)
<1>6. d \in [Calls -> Seq(Link)]
  BY Zenon, <1>d, <1>1, <1>2, <1>5, ThreeLists
<1>7. d["del"] = del /\ d["add"] = add /\ d["changed"] = chg
  BY Zenon, <1>d
<1> HIDE DEF chg
<1>8. /\ Treats("del", o, s, del)
      /\ \A i \in Intfs : Due("del", o, s, i) => i \in IntfsOf(del)
  <2>1. ASSUME NEW k \in 1 .. Len(del) PROVE Due("del", o, s, del[k].intf)
    BY Zenon, <1>1, <1>a DEF Missing
  <2>2. ASSUME NEW i \in Intfs, Due("del", o, s, i) PROVE i \in IntfsOf(del)
    <3>1. PICK j \in 1 .. Len(o) : o[j].intf = i
      BY Zenon, <2>2, WantedFacts DEF Due
    <3>2. PICK k \in 1 .. Len(del) : del[k] = o[j]
      BY Zenon, <1>1, <1>a, <2>2, <3>1
    <3> QED BY Zenon, <3>1, <3>2 DEF IntfsOf
  <2> QED BY Zenon, <2>1, <2>2 DEF Treats
<1>9. /\ Treats("add", o, s, add)
      /\ \A i \in Intfs : Due("add", o, s, i) => i \in IntfsOf(add)
  <2>1. ASSUME NEW k \in 1 .. Len(add)
        PROVE  Due("add", o, s, add[k].intf) /\ add[k] = Wanted(s)[add[k].intf]
    <3>1. PICK j \in Missing(s, o) : add[k] = s[j]
      BY Zenon, <1>2
    <3>2. j \in 1 .. Len(s)
      BY Zenon DEF Missing
    <3> QED BY Zenon, <1>b, <1>w, <3>1, <3>2
  <2>2. ASSUME NEW i \in Intfs, Due("add", o, s, i) PROVE i \in IntfsOf(add)
    <3>1. PICK j \in 1 .. Len(s) : s[j].intf = i
      BY Zenon, <2>2, WantedFacts DEF Due
    <3>2. PICK k \in 1 .. Len(add) : add[k] = s[j]
      BY Zenon, <1>2, <1>b, <2>2, <3>1
    <3> QED BY Zenon, <3>1, <3>2 DEF IntfsOf
  <2> QED BY Zenon, <2>1, <2>2 DEF Treats
<1>10. /\ Treats("changed", o, s, chg)
       /\ \A i \in Intfs : Due("changed", o, s, i) => i \in IntfsOf(chg)
  <2>1. Treats("changed", o, s, chg)
    BY Zenon, <1>4, <1>5 DEF Treats
  <2>2. ASSUME NEW i \in Intfs, Due("changed", o, s, i) PROVE i \in IntfsOf(chg)
    <3>1. PICK j \in 1 .. Len(o) : o[j].intf = i
      BY <2>2, WantedFacts DEF Due, Same
    <3>2. PICK k \in 1 .. Len(dif) : dif[k] = o[j]
      BY Zenon, <1>3, <1>a, <2>2, <3>1
    <3> QED BY Zenon, <1>4, <1>5, <3>1, <3>2 DEF IntfsOf
  <2> QED BY Zenon, <2>1, <2>2
<1> QED BY Zenon, <1>6, <1>7, <1>8, <1>9, <1>10 DEF DiffOK, Calls, d
-----------------------------------------------------------------------------
(* Types, and that the work queue forgets no edit.                         *)

ApiType == /\ api \in Seq(Topology) /\ api # <<>>
           /\ cache \in 1 .. Len(api) /\ got \in 1 .. Len(api)
LoopType == /\ queued \in BOOLEAN /\ pc \in Calls \cup {"idle", "read", "write"}
            /\ topology \in Topology /\ diff \in [Calls -> Seq(Link)] /\ todo \in Seq(Link)
            /\ att \in 0 .. RetrySteps - 1
PodType == net \in Interfaces /\ pod \in {"down", "get", "alive", "up"} /\ podLinks \in Seq(Link)
CountType == /\ risk \subseteq {"hasty", "refilled", "redone", "unshaped"}
             /\ edits \in 0 .. MaxEdits /\ fails \in 0 .. MaxFails /\ touches \in 0 .. MaxTouches

\* The parts of the type invariant that the steps change together.
LEMMA Types == TypeOK <=> ApiType /\ LoopType /\ PodType /\ CountType
BY Zenon DEF TypeOK, ApiType, LoopType, PodType, CountType

\* The same after a step.
LEMMA TypesNext == TypeOK' <=> ApiType' /\ LoopType' /\ PodType' /\ CountType'
BY Zenon DEF TypeOK, ApiType, LoopType, PodType, CountType

\* The type of what CalcDiff returns.
LEMMA CalcDiffType ==
  ASSUME NEW o \in Seq(Link), NEW s \in Seq(Link)
  PROVE  CalcDiff(o, s) \in [Calls -> Seq(Link)]
<1> DEFINE dif == Collect(o, Differing(o, s))
           chg == [k \in 1 .. Len(dif) |-> FirstMatch(dif[k], s)]
<1>1. /\ Missing(o, s) \in SUBSET (1 .. Len(o)) /\ Differing(o, s) \in SUBSET (1 .. Len(o))
      /\ Missing(s, o) \in SUBSET (1 .. Len(s))
  BY Zenon DEF Missing, Differing
<1>2. /\ Collect(o, Missing(o, s)) \in Seq(Link) /\ Collect(s, Missing(s, o)) \in Seq(Link)
      /\ dif \in Seq(Link) /\ \A k \in 1 .. Len(dif) : \E j \in Differing(o, s) : dif[k] = o[j]
  BY Zenon, <1>1, Collected
<1>3. CalcDiff(o, s) = [del |-> Collect(o, Missing(o, s)), add |-> Collect(s, Missing(s, o)),
                        changed |-> chg]
  BY Zenon DEF CalcDiff
<1> HIDE DEF dif
<1>4. ASSUME NEW k \in 1 .. Len(dif) PROVE FirstMatch(dif[k], s) \in Link
  <2>1. Matches(dif[k], s) \subseteq 1 .. Len(s) /\ Matches(dif[k], s) # {}
    BY Zenon, <1>2 DEF Differing, Changed, Found, Matches
  <2>2. PICK m \in Matches(dif[k], s) : \A j \in Matches(dif[k], s) : m <= j
    <3>1. Matches(dif[k], s) \subseteq Nat
      BY <2>1
    <3> QED BY Zenon, <2>1, <3>1, Least
  <2>3. (CHOOSE i \in Matches(dif[k], s) : \A j \in Matches(dif[k], s) : i <= j) \in 1 .. Len(s)
    BY Zenon, <2>1, <2>2
  <2> QED BY <2>3 DEF FirstMatch
<1>5. chg \in Seq(Link)
  BY <1>2, <1>4
<1> HIDE DEF chg
<1> QED BY <1>2, <1>3, <1>5 DEF Calls

\* The three operations of the daemon on the interfaces.
LEMMA NetType ==
  ASSUME NEW n \in Interfaces, NEW a \in Link
  PROVE  /\ DelLink(n, a) \in Interfaces
         /\ AddLink(n, a) \in Interfaces
         /\ n[a.intf] # NoLink => UpdateLink(n, a) \in Interfaces
<1>1. a.intf \in Intfs /\ a.prop \in Props
  BY Zenon DEF Link
<1>2. DelLink(n, a) \in Interfaces /\ AddLink(n, a) \in Interfaces
  BY Zenon, <1>1 DEF DelLink, AddLink, SetupVeth, SetupVxLan, Interfaces
<1>3. ASSUME n[a.intf] # NoLink PROVE UpdateLink(n, a) \in Interfaces
  <2>1. n[a.intf] \in Link
    BY Zenon, <1>1, <1>3 DEF Interfaces
  <2>2. [n[a.intf] EXCEPT !.prop = a.prop] \in Link
    BY Zenon, <1>1, <2>1 DEF Link
  <2> QED BY Zenon, <1>1, <2>2 DEF UpdateLink, Interfaces
<1> QED BY Zenon, <1>2, <1>3

\* A write is a version more.
LEMMA AcceptType ==
  ASSUME ApiType, NEW t \in Topology, Accept(t), UNCHANGED cache, got' \in {1, got}
  PROVE  ApiType' /\ Len(api') = Len(api) + 1 /\ Current' = t
BY DEF ApiType, Accept, Current

\* Returning leaves the locals of Reconcile empty.
LEMMA ReturnType ==
  ASSUME TypeOK, NEW err \in BOOLEAN, Return(err), UNCHANGED <<api, cache>>
  PROVE  ApiType' /\ LoopType'
<1>1. ApiType'
  BY DEF TypeOK, ApiType, Return
<1>2. NoTopology \in Topology /\ NoDiff \in [Calls -> Seq(Link)] /\ 0 \in 0 .. RetrySteps - 1
  BY ReconcilerAssumption DEF NoTopology, NoDiff, Topology, Links
<1> QED BY <1>1, <1>2 DEF TypeOK, LoopType, Return

\* The next call, or none, is entered with a list of links.
LEMMA ProceedType ==
  ASSUME NEW d \in [Calls -> Seq(Link)], NEW k \in 1 .. 4, Proceed(d, k)
  PROVE  pc' \in Calls \cup {"read"} /\ todo' \in Seq(Link)
<1>1. \A i \in 1 .. 3 : CallOrder[i] \in Calls
  BY DEF CallOrder, Calls
<1>2. \A i \in k .. 3 : i \in 1 .. 3
  OBVIOUS
<1>3. CASE pc' = "read" /\ todo' = <<>>
  BY <1>3
<1>4. CASE \E i \in k .. 3 : pc' = CallOrder[i] /\ todo' = d[CallOrder[i]]
  BY Zenon, <1>1, <1>2, <1>4
<1> QED BY Zenon, <1>3, <1>4 DEF Proceed

\* The calls are made in the order of CallOrder.
LEMMA Positions == Position("del") = 1 /\ Position("add") = 2 /\ Position("changed") = 3
<1>1. CallOrder[1] = "del" /\ CallOrder[2] = "add" /\ CallOrder[3] = "changed"
  BY Zenon DEF CallOrder
<1>2. \A i \in 1 .. 3 : i = 1 \/ i = 2 \/ i = 3
  OBVIOUS
<1>3. Position("del") \in 1 .. 3 /\ CallOrder[Position("del")] = "del"
  BY <1>1 DEF Position
<1>4. Position("add") \in 1 .. 3 /\ CallOrder[Position("add")] = "add"
  BY <1>1 DEF Position
<1>5. Position("changed") \in 1 .. 3 /\ CallOrder[Position("changed")] = "changed"
  BY <1>1 DEF Position
<1> QED BY Zenon, <1>1, <1>2, <1>3, <1>4, <1>5
\* The steps around the reconcile loop keep the types.
LEMMA AroundType ==
  ASSUME TypeOK, (\E s \in Specs : Edit(s)) \/ Watch \/ Touch \/ SetupStep
  PROVE  TypeOK'
<1>t. ApiType /\ LoopType /\ PodType /\ CountType
  BY Zenon, Types
<1>c. Current \in Topology /\ \A v \in 1 .. Len(api) : api[v] \in Topology
  BY <1>t DEF ApiType, Current
<1>1. ASSUME NEW s \in Specs, Edit(s) PROVE TypeOK'
  <2>1. [Current EXCEPT !.spec = s] \in Topology
    BY Zenon, <1>c, ReconcilerAssumption DEF Topology, Links
  <2>2. ApiType'
    BY Zenon, <1>1, <1>t, <2>1, AcceptType DEF Edit, reconcileVars
  <2>3. LoopType' /\ PodType'
    BY Zenon, <1>1, <1>t DEF Edit, reconcileVars, podVars, LoopType, PodType
  <2>4. CountType'
    BY <1>1, <1>t, ReconcilerAssumption DEF Edit, CountType
  <2> QED BY Zenon, <2>2, <2>3, <2>4, TypesNext
<1>2. CASE Watch
  <2>1. ApiType'
    BY <1>2, <1>t DEF Watch, ApiType, reconcileVars
  <2>2. LoopType' /\ PodType' /\ CountType'
    BY Zenon, <1>2, <1>t DEF Watch, reconcileVars, podVars, bounds, LoopType, PodType, CountType
  <2> QED BY Zenon, <2>1, <2>2, TypesNext
<1>3. CASE Touch
  <2>1. ApiType'
    BY Zenon, <1>3, <1>t, <1>c, AcceptType DEF Touch, reconcileVars
  <2>2. LoopType' /\ PodType'
    BY Zenon, <1>3, <1>t DEF Touch, reconcileVars, podVars, LoopType, PodType
  <2>3. CountType'
    BY <1>3, <1>t, ReconcilerAssumption DEF Touch, CountType
  <2> QED BY Zenon, <2>1, <2>2, <2>3, TypesNext
<1>4. CASE SetupStep
  <2>1. LoopType' /\ CountType' /\ got' = got /\ cache' = cache
    BY Zenon, <1>4, <1>t DEF SetupStep, SetupGet, SetupPassBy, SetupAlive, SetupLink, SetupDone,
                      reconcileVars, bounds, LoopType, CountType
  <2>2. ApiType'
    <3>1. CASE UNCHANGED api
      BY Zenon, <1>t, <2>1, <3>1 DEF ApiType
    <3>2. CASE SetupAlive
      <4>1. [Current EXCEPT !.alive = TRUE] \in Topology
        BY Zenon, <1>c DEF Topology
      <4> QED BY Zenon, <1>t, <2>1, <3>2, <4>1, AcceptType DEF SetupAlive
    <3> QED BY Zenon, <1>4, <3>1, <3>2 DEF SetupStep, SetupGet, SetupPassBy, SetupLink, SetupDone
  <2>3. PodType'
    <3>1. CASE SetupGet
      <4>1. PICK v \in 1 .. Len(api) : api[v].spec # Nil /\ podLinks' = api[v].spec
        BY Zenon, <3>1 DEF SetupGet
      <4>2. podLinks' \in Seq(Link)
        BY Zenon, <1>c, <4>1 DEF Topology, Links
      <4> QED BY Zenon, <1>t, <3>1, <4>2 DEF SetupGet, PodType
    <3>2. CASE SetupLink
      <4>1. Head(podLinks) \in Link /\ Tail(podLinks) \in Seq(Link)
        BY <1>t, <3>2 DEF SetupLink, PodType
      <4> QED BY Zenon, <1>t, <3>2, <4>1, NetType DEF SetupLink, PodType
    <3>3. CASE SetupPassBy \/ SetupAlive \/ SetupDone
      BY Zenon, <1>t, <3>3 DEF SetupPassBy, SetupAlive, SetupDone, PodType
    <3> QED BY Zenon, <1>4, <3>1, <3>2, <3>3 DEF SetupStep
  <2> QED BY Zenon, <2>1, <2>2, <2>3, TypesNext
<1> QED BY Zenon, <1>1, <1>2, <1>3, <1>4

\* A reconcile that proceeds goes on.
LEMMA ProceedPc ==
  ASSUME TypeOK, ReconcileChanged \/ CallReturns
  PROVE  diff' \in [Calls -> Seq(Link)] /\ pc' \in Calls \cup {"read"} /\ todo' \in Seq(Link)
<1>t. ApiType /\ LoopType
  BY Zenon, Types
<1>1. CASE ReconcileChanged
  <2>1. api[cache] \in Topology
    BY <1>t DEF ApiType
  <2>2. List(api[cache].status) \in Seq(Link) /\ List(api[cache].spec) \in Seq(Link)
    BY <2>1 DEF Topology, List, Links
  <2>3. diff' \in [Calls -> Seq(Link)] /\ Proceed(diff', 1)
    BY Zenon, <1>1, <2>2, CalcDiffType DEF ReconcileChanged
  <2> QED BY <2>3, ProceedType
<1>2. CASE CallReturns
  <2>1. Position(pc) + 1 \in 1 .. 4
    BY <1>2, Positions DEF CallReturns, Calls
  <2>2. diff' \in [Calls -> Seq(Link)] /\ diff \in [Calls -> Seq(Link)] /\ Proceed(diff, Position(pc) + 1)
    BY Zenon, <1>2, <1>t DEF CallReturns, LoopType
  <2> QED BY Zenon, <2>1, <2>2, ProceedType
<1> QED BY Zenon, <1>1, <1>2

\* A reconcile that ends with an error keeps the types.
LEMMA CallFailedType ==
  ASSUME TypeOK, NEW more \in SUBSET {"unshaped"}, CallFailed(more), net' \in Interfaces,
         fails' \in 0 .. MaxFails
  PROVE  TypeOK'
<1>t. ApiType /\ LoopType /\ PodType /\ CountType
  BY Zenon, Types
<1>1. ApiType' /\ LoopType'
  BY Zenon, ReturnType DEF CallFailed, reconcileOnly
<1>2. PodType' /\ CountType'
  BY Zenon, <1>t DEF CallFailed, reconcileOnly, podVars, PodType, CountType
<1> QED BY Zenon, <1>1, <1>2, TypesNext

\* The steps of Reconcile keep the types.
LEMMA ReconcileType ==
  ASSUME TypeOK, ReconcileStep
  PROVE  TypeOK'
<1>t. ApiType /\ LoopType /\ PodType /\ CountType
  BY Zenon, Types
<1>c. Current \in Topology /\ \A v \in 1 .. Len(api) : api[v] \in Topology
  BY <1>t DEF ApiType, Current
<1>l. ASSUME NEW links \in Links PROVE List(links) \in Seq(Link)
  BY DEF List, Links
<1>a. api[cache] \in Topology /\ List(api[cache].status) \in Seq(Link) /\ List(api[cache].spec) \in Seq(Link)
  <2>1. api[cache] \in Topology
    BY Zenon, <1>t, <1>c DEF ApiType
  <2> QED BY Zenon, <1>l, <2>1 DEF Topology
<1>1. CASE ReconcileSame \/ ReconcileFirst
  <2>1. ApiType' /\ PodType' /\ CountType'
    BY Zenon, <1>1, <1>t DEF ReconcileSame, ReconcileFirst, reconcileOnly, reconcileVars, podVars,
                      ApiType, PodType, CountType
  <2>2. LoopType'
    BY Zenon, <1>1, <1>t, <1>a DEF ReconcileSame, ReconcileFirst, reconcileVars, LoopType
  <2> QED BY Zenon, <2>1, <2>2, TypesNext
<1>2. CASE ReconcileChanged \/ CallReturns
  <2>1. ApiType' /\ PodType' /\ CountType'
    BY Zenon, <1>2, <1>t DEF ReconcileChanged, CallReturns, reconcileOnly, podVars, ApiType, PodType, CountType
  <2>2. LoopType'
    <3>1. CASE ReconcileChanged
      BY Zenon, <3>1, <1>t, <1>a, ProceedPc DEF ReconcileChanged, LoopType
    <3>2. CASE CallReturns
      BY Zenon, <3>2, <1>t, <1>a, ProceedPc DEF CallReturns, LoopType
    <3> QED BY Zenon, <1>2, <3>1, <3>2
  <2> QED BY Zenon, <2>1, <2>2, TypesNext
<1>3. CASE DaemonStep
  <2>1. ApiType' /\ CountType'
    BY Zenon, <1>3, <1>t DEF DaemonStep, reconcileOnly, ApiType, CountType
  <2>2. Head(todo) \in Link /\ Tail(todo) \in Seq(Link)
    BY <1>3, <1>t DEF DaemonStep, LoopType
  <2>3. LoopType'
    BY Zenon, <1>3, <1>t, <2>2 DEF DaemonStep, LoopType
  <2>4. net' \in Interfaces
    BY Zenon, <1>3, <1>t, <2>2, NetType DEF DaemonStep, PodType
  <2>5. PodType'
    BY Zenon, <1>3, <1>t, <2>4 DEF DaemonStep, reconcileOnly, podVars, PodType
  <2> QED BY Zenon, <2>1, <2>3, <2>5, TypesNext
<1>5. CASE NoDaemon \/ NoInterface \/ CallFails
  <2>1. CallFailed({}) /\ net' = net /\ fails' \in 0 .. MaxFails
    BY <1>5, <1>t, ReconcilerAssumption DEF NoDaemon, NoInterface, CallFails, CountType
  <2> QED BY Zenon, <1>t, <2>1, CallFailedType DEF PodType
<1>6. CASE QdiscsFail
  <2> DEFINE a == Head(todo)
             bare == [a EXCEPT !.prop = NoProp]
  <2>1. a \in Link
    BY <1>6, <1>t DEF QdiscsFail, LoopType
  <2>2. bare \in Link /\ bare.intf = a.intf
    BY Zenon, <2>1, ReconcilerAssumption DEF Link
  <2>3. /\ fails < MaxFails /\ fails' = fails + 1
        /\ \/ net' = AddLink(net, bare) /\ (CallFailed({"unshaped"}) \/ CallFailed({}))
           \/ net[a.intf] # NoLink /\ net' = UpdateLink(net, bare) /\ CallFailed({})
    BY Zenon, <1>6 DEF QdiscsFail
  <2> HIDE DEF a, bare
  <2>4. fails' \in 0 .. MaxFails
    BY <1>t, <2>3, ReconcilerAssumption DEF CountType
  <2>5. net' \in Interfaces
    BY Zenon, <1>t, <2>2, <2>3, NetType DEF PodType
  <2> QED BY Zenon, <2>3, <2>4, <2>5, CallFailedType
<1>7. CASE StatusRead
  <2>1. ApiType' /\ PodType' /\ CountType'
    BY Zenon, <1>7, <1>t DEF StatusRead, reconcileOnly, podVars, ApiType, PodType, CountType
  <2>2. LoopType'
    BY Zenon, <1>7, <1>t DEF StatusRead, LoopType
  <2> QED BY Zenon, <2>1, <2>2, TypesNext
<1>8. CASE StatusWrite
  <2>1. [api[got] EXCEPT !.status = api[got].spec] \in Topology
    <3>1. api[got] \in Topology
      BY Zenon, <1>t, <1>c DEF ApiType
    <3> QED BY Zenon, <3>1 DEF Topology
  <2>2. ApiType'
    BY Zenon, <1>8, <1>t, <2>1, AcceptType DEF StatusWrite, Return
  <2>3. LoopType'
    <3>1. NoTopology \in Topology /\ NoDiff \in [Calls -> Seq(Link)] /\ 0 \in 0 .. RetrySteps - 1
      BY ReconcilerAssumption DEF NoTopology, NoDiff, Topology, Links
    <3> QED BY <1>8, <1>t, <3>1 DEF StatusWrite, Return, LoopType
  <2>4. PodType' /\ CountType'
    BY Zenon, <1>8, <1>t DEF StatusWrite, podVars, PodType, CountType
  <2> QED BY Zenon, <2>2, <2>3, <2>4, TypesNext
<1>9. CASE StatusConflict
  <2>1. PodType' /\ CountType' /\ UNCHANGED <<api, cache>>
    BY Zenon, <1>9, <1>t DEF StatusConflict, reconcileOnly, podVars, PodType, CountType
  <2>2. CASE Return(TRUE)
    BY Zenon, <2>1, <2>2, ReturnType, TypesNext
  <2>3. CASE /\ att + 1 < RetrySteps /\ att' = att + 1 /\ pc' = "read"
             /\ UNCHANGED <<queued, topology, diff, todo, got>>
    <3>1. att' \in 0 .. RetrySteps - 1
      BY <1>t, <2>3, ReconcilerAssumption DEF LoopType
    <3>2. ApiType' /\ LoopType'
      BY Zenon, <1>t, <2>1, <2>3, <3>1 DEF ApiType, LoopType
    <3> QED BY Zenon, <2>1, <3>2, TypesNext
  <2> QED BY Zenon, <1>9, <2>2, <2>3 DEF StatusConflict
<1> QED BY Zenon, <1>1, <1>2, <1>3, <1>5, <1>6, <1>7, <1>8, <1>9 DEF ReconcileStep
\* The initial states are of the right type.
LEMMA InitType == Init => TypeOK
<1> SUFFICES ASSUME Init PROVE TypeOK
  BY Zenon
<1>1. ApiType
  BY ReconcilerAssumption DEF Init, ApiType, Topology, Links
<1>2. LoopType
  BY ReconcilerAssumption DEF Init, LoopType, NoTopology, NoDiff, Topology, Links
<1>3. PodType
  BY ReconcilerAssumption, WantedFacts DEF Init, PodType, Interfaces
<1>4. CountType
  BY ReconcilerAssumption DEF Init, CountType
<1> QED BY Zenon, <1>1, <1>2, <1>3, <1>4, Types

\* A stuttering step changes no type.
LEMMA StutterType == TypeOK /\ UNCHANGED vars => TypeOK'
BY Zenon DEF TypeOK, vars, reconcileVars, podVars, bounds

\* Every variable keeps its type, with edits of any list and any number of failures.
THEOREM ReconcilerTyped == Spec => []TypeOK
<1>1. TypeOK /\ [Next]_vars => TypeOK'
  BY Zenon, AroundType, ReconcileType, StutterType DEF Next, Rest
<1> QED BY <1>1, InitType, PTL DEF Spec

\* The work queue forgets no edit: an object that is at rest has its links recorded,
\* whatever failed and was read late before.
THEOREM EditsRecorded == Spec => []RestsRecorded
<1>1. Init => RestsRecorded
  <2>1. ASSUME Init, Running PROVE RestsRecorded
    BY Zenon, <2>1 DEF Init, RestsRecorded, Current
  <2>2. ASSUME Init, ~Running PROVE RestsRecorded
    BY Zenon, <2>2 DEF Init, RestsRecorded, Idle
  <2> QED BY Zenon, <2>1, <2>2
<1>2. TypeOK /\ RestsRecorded /\ [Next]_vars => RestsRecorded'
  <2> SUFFICES ASSUME TypeOK, RestsRecorded, [Next]_vars, Idle'
               PROVE  (Current.status = Current.spec)'
    BY Zenon DEF RestsRecorded
  <2>t. ApiType
    BY Zenon, Types
  <2>0. pc' = "idle" /\ ~queued' /\ cache' = Len(api')
    BY Zenon DEF Idle
  <2>a. ASSUME NEW t, Accept(t), UNCHANGED cache PROVE FALSE
    BY <2>a, <2>0, <2>t DEF Accept, ApiType
  <2>1. CASE UNCHANGED vars
    BY Zenon, <2>0, <2>1 DEF RestsRecorded, Idle, Current, vars, reconcileVars
  <2>2. CASE (\E s \in Specs : Edit(s)) \/ Watch \/ Touch
    BY Zenon, <2>0, <2>2, <2>a DEF Edit, Watch, Touch
  <2>3. CASE SetupStep
    <3>1. UNCHANGED <<cache, queued, pc>> /\ (UNCHANGED api \/ SetupAlive)
      BY Zenon, <2>3 DEF SetupStep, SetupGet, SetupPassBy, SetupAlive, SetupLink, SetupDone, reconcileVars
    <3>2. UNCHANGED api
      BY Zenon, <2>a, <3>1 DEF SetupAlive
    <3> QED BY Zenon, <2>0, <3>1, <3>2 DEF RestsRecorded, Idle, Current
  <2>4. CASE ReconcileStep
    <3>1. CASE ReconcileSame
      BY Zenon, <2>0, <3>1 DEF ReconcileSame, reconcileOnly, Current
    <3>2. CASE ReconcileFirst \/ DaemonStep \/ StatusRead
      BY Zenon, <2>0, <3>2 DEF ReconcileFirst, DaemonStep, StatusRead, Calls
    <3>3. CASE ReconcileChanged \/ CallReturns
      <4>1. pc' \in Calls \cup {"read"}
        BY Zenon, <3>3, ProceedPc DEF ReconcileChanged, CallReturns
      <4> QED BY Zenon, <2>0, <4>1 DEF Calls
    <3>4. CASE NoDaemon \/ NoInterface \/ CallFails \/ QdiscsFail
      BY Zenon, <2>0, <3>4 DEF NoDaemon, NoInterface, CallFails, QdiscsFail, CallFailed, Return
    <3>5. CASE StatusWrite
      BY Zenon, <2>a, <3>5 DEF StatusWrite
    <3>6. CASE StatusConflict
      BY Zenon, <2>0, <3>6 DEF StatusConflict, Return
    <3> QED BY Zenon, <2>4, <3>1, <3>2, <3>3, <3>4, <3>5, <3>6 DEF ReconcileStep
  <2> QED BY Zenon, <2>1, <2>2, <2>3, <2>4 DEF Next, Rest
<1> QED BY <1>1, <1>2, ReconcilerTyped, PTL DEF Spec
-----------------------------------------------------------------------------
(* One link of a call, and one call after the other.                       *)

\* The first link and the rest of a list.
LEMMA HeadTail ==
  ASSUME NEW links \in Seq(Link), links # <<>>
  PROVE  /\ Head(links) \in Link /\ Head(links).intf \in Intfs /\ Tail(links) \in Seq(Link)
         /\ \A i : i \in IntfsOf(links) => i = Head(links).intf \/ i \in IntfsOf(Tail(links))
         /\ \A c, o, s : Treats(c, o, s, links) =>
              /\ Due(c, o, s, Head(links).intf)
              /\ c # "del" => Head(links) = Wanted(s)[Head(links).intf]
              /\ Treats(c, o, s, Tail(links))
<1>1. /\ Head(links) \in Link /\ Tail(links) \in Seq(Link)
      /\ Len(links) \in Nat /\ Len(links) >= 1 /\ Len(Tail(links)) = Len(links) - 1
      /\ Head(links) = links[1] /\ \A k \in 1 .. Len(links) - 1 : Tail(links)[k] = links[k + 1]
  OBVIOUS
<1>2. Head(links).intf \in Intfs
  BY Zenon, <1>1 DEF Link
<1>3. ASSUME NEW i \in IntfsOf(links) PROVE i = Head(links).intf \/ i \in IntfsOf(Tail(links))
  <2>1. PICK k \in 1 .. Len(links) : links[k].intf = i
    BY Zenon DEF IntfsOf
  <2>2. CASE k = 1
    BY Zenon, <1>1, <2>1, <2>2
  <2>3. CASE k # 1
    <3>1. k - 1 \in 1 .. Len(Tail(links)) /\ Tail(links)[k - 1].intf = i
      BY <1>1, <2>1, <2>3
    <3> QED BY Zenon, <3>1 DEF IntfsOf
  <2> QED BY Zenon, <2>2, <2>3
<1>4. ASSUME NEW c, NEW o, NEW s, Treats(c, o, s, links)
      PROVE  /\ Due(c, o, s, Head(links).intf)
             /\ c # "del" => Head(links) = Wanted(s)[Head(links).intf]
             /\ Treats(c, o, s, Tail(links))
  <2>1. 1 \in 1 .. Len(links) /\ \A k \in 1 .. Len(Tail(links)) : k + 1 \in 1 .. Len(links)
    BY <1>1
  <2> QED BY Zenon, <1>1, <1>4, <2>1 DEF Treats
<1> QED BY Zenon, <1>1, <1>2, <1>3, <1>4

\* The links both lists have, and the interfaces of one of them between the two.
LEMMA SameLinks ==
  ASSUME NEW o \in Seq(Link), NEW s \in Seq(Link), NEW i \in Intfs, Same(o, s, i)
  PROVE  /\ Wanted(o)[i] \in Link /\ Wanted(s)[i] \in Link
         /\ Wanted(o)[i].intf = i /\ Wanted(s)[i].intf = i
         /\ Wanted(o)[i].prop = Wanted(s)[i].prop => Wanted(o)[i] = Wanted(s)[i]
         /\ \A n : Mixed(n, o, s) =>
              n[i] \in Link /\ n[i].intf = i /\ n[i].id = Wanted(s)[i].id /\ n[i] # NoLink
<1>0. NoLink \notin Link
  BY Zenon, ReconcilerAssumption
<1>1. /\ Wanted(o)[i] \in Link /\ Wanted(s)[i] \in Link
      /\ Wanted(o)[i].intf = i /\ Wanted(s)[i].intf = i
  BY <1>0, WantedFacts DEF Same, Interfaces
<1>2. Wanted(o)[i].prop = Wanted(s)[i].prop => Wanted(o)[i] = Wanted(s)[i]
  BY <1>1 DEF Same, Link
<1>3. ASSUME NEW n, Mixed(n, o, s)
      PROVE  n[i] \in Link /\ n[i].intf = i /\ n[i].id = Wanted(s)[i].id /\ n[i] # NoLink
  <2>1. \/ n[i] = Wanted(o)[i] \/ n[i] = Wanted(s)[i]
        \/ n[i] = [Wanted(s)[i] EXCEPT !.prop = NoProp]
    BY Zenon, <1>3 DEF Mixed, Shapeless
  <2>2. CASE n[i] = Wanted(o)[i] \/ n[i] = Wanted(s)[i]
    BY Zenon, <1>0, <1>1, <2>2 DEF Same
  <2>3. CASE n[i] = [Wanted(s)[i] EXCEPT !.prop = NoProp]
    <3> DEFINE b == Wanted(s)[i]
    <3>1. b \in Link /\ b.intf = i /\ n[i] = [b EXCEPT !.prop = NoProp]
      BY Zenon, <1>1, <2>3
    <3> HIDE DEF b
    <3>2. n[i] \in Link /\ n[i].intf = i /\ n[i].id = b.id
      BY Zenon, <3>1, ReconcilerAssumption DEF Link
    <3> QED BY Zenon, <1>0, <3>2 DEF b
  <2> QED BY Zenon, <2>1, <2>2, <2>3
<1> QED BY Zenon, <1>1, <1>2, <1>3

\* Two links that differ in their properties only.
LEMMA OtherProp ==
  ASSUME NEW a \in Link, NEW x \in Link, x.intf = a.intf, x.id = a.id
  PROVE  /\ [x EXCEPT !.prop = a.prop] = a
         /\ [x EXCEPT !.prop = NoProp] = [a EXCEPT !.prop = NoProp]
BY Zenon DEF Link

\* delLink treats the next link of the first call.
LEMMA DelStep ==
  ASSUME NEW o \in Seq(Link), NEW s \in Seq(Link), NEW links \in Seq(Link), links # <<>>,
         NEW n \in Interfaces, Mixed(n, o, s), Treats("del", o, s, links), Deleting(n, o, s, links)
  PROVE  /\ Mixed(DelLink(n, Head(links)), o, s)
         /\ Deleting(DelLink(n, Head(links)), o, s, Tail(links))
<1> DEFINE a == Head(links)
           m == DelLink(n, a)
<1>1. /\ a.intf \in Intfs /\ Due("del", o, s, a.intf)
      /\ \A i : i \in IntfsOf(links) => i = a.intf \/ i \in IntfsOf(Tail(links))
  BY Zenon, HeadTail
<1>2. m[a.intf] = NoLink /\ \A i \in Intfs \ {a.intf} : m[i] = n[i]
  BY Zenon, <1>1 DEF DelLink, Interfaces
<1>3. ~Same(o, s, a.intf)
  BY Zenon, <1>1 DEF Due
<1> HIDE DEF a, m
<1>4. Mixed(m, o, s)
  BY Zenon, <1>1, <1>2, <1>3 DEF Mixed, Shapeless
<1>5. Deleting(m, o, s, Tail(links))
  BY Zenon, <1>1, <1>2 DEF Deleting
<1> QED BY Zenon, <1>4, <1>5 DEF a, m

\* addLink treats the next link of the second call, or fails after making a vxlan.
LEMMA AddStep ==
  ASSUME NEW o \in Seq(Link), NEW s \in Seq(Link), NEW links \in Seq(Link), links # <<>>,
         NEW n \in Interfaces, Mixed(n, o, s), Treats("add", o, s, links), Adding(n, o, s, links)
  PROVE  /\ Mixed(AddLink(n, Head(links)), o, s)
         /\ Adding(AddLink(n, Head(links)), o, s, Tail(links))
         /\ Head(links).id \in Tunnels =>
              Mixed(AddLink(n, [Head(links) EXCEPT !.prop = NoProp]), o, s)
<1> DEFINE a == Head(links)
           bare == [a EXCEPT !.prop = NoProp]
           m == AddLink(n, a)
           b == AddLink(n, bare)
<1>1. /\ a \in Link /\ a.intf \in Intfs /\ Due("add", o, s, a.intf) /\ a = Wanted(s)[a.intf]
      /\ \A i : i \in IntfsOf(links) => i = a.intf \/ i \in IntfsOf(Tail(links))
  BY HeadTail
<1>2. ~Same(o, s, a.intf)
  BY Zenon, <1>1 DEF Due
<1>3. n[a.intf] \in {NoLink, a} \/ a.id \in Tunnels
  BY Zenon, <1>1, <1>2 DEF Adding, Shapeless
<1>4. m[a.intf] = a /\ \A i \in Intfs \ {a.intf} : m[i] = n[i]
  BY Zenon, <1>1, <1>3 DEF AddLink, SetupVeth, SetupVxLan, Interfaces
<1>b. bare.intf = a.intf /\ bare.id = a.id
  BY Zenon, <1>1 DEF Link
<1>t. ASSUME a.id \in Tunnels
      PROVE  b[a.intf] = bare /\ \A i \in Intfs \ {a.intf} : b[i] = n[i]
  BY Zenon, <1>1, <1>b, <1>t DEF AddLink, SetupVxLan, Interfaces
<1> HIDE DEF a, m, b
<1>5. Mixed(m, o, s)
  BY Zenon, <1>1, <1>4 DEF Mixed, Shapeless
<1>6. Adding(m, o, s, Tail(links))
  BY Zenon, <1>1, <1>4 DEF Adding, Shapeless
<1>7. ASSUME a.id \in Tunnels PROVE Mixed(b, o, s)
  <2>1. Shapeless(b, o, s, a.intf)
    BY Zenon, <1>1, <1>t, <1>7 DEF Shapeless
  <2> QED BY Zenon, <1>t, <1>7, <2>1 DEF Mixed, Shapeless
<1> QED BY Zenon, <1>5, <1>6, <1>7 DEF a, m, b

\* UpdateLinks treats the next link of the third call, or fails after the old qdiscs
\* are gone.
LEMMA ChangeStep ==
  ASSUME NEW o \in Seq(Link), NEW s \in Seq(Link), NEW links \in Seq(Link), links # <<>>,
         NEW n \in Interfaces, Mixed(n, o, s), Treats("changed", o, s, links), Changing(n, s, links)
  PROVE  /\ n[Head(links).intf] # NoLink
         /\ Mixed(UpdateLink(n, Head(links)), o, s)
         /\ Changing(UpdateLink(n, Head(links)), s, Tail(links))
         /\ Mixed(UpdateLink(n, [Head(links) EXCEPT !.prop = NoProp]), o, s)
<1> DEFINE a == Head(links)
           bare == [a EXCEPT !.prop = NoProp]
           i == a.intf
           m == UpdateLink(n, a)
           b == UpdateLink(n, bare)
<1>1. /\ a \in Link /\ i \in Intfs /\ Due("changed", o, s, i) /\ a = Wanted(s)[i]
      /\ \A j : j \in IntfsOf(links) => j = i \/ j \in IntfsOf(Tail(links))
  BY HeadTail
<1>2. Same(o, s, i)
  BY Zenon, <1>1 DEF Due
<1>3. n[i] \in Link /\ n[i].intf = i /\ n[i].id = a.id /\ n[i] # NoLink
  BY <1>1, <1>2, SameLinks
<1>4. bare.intf = i /\ bare.prop = NoProp
  BY Zenon, <1>1 DEF Link
<1>5. /\ m[i] = [n[i] EXCEPT !.prop = a.prop] /\ b[i] = [n[i] EXCEPT !.prop = NoProp]
      /\ \A j \in Intfs \ {i} : m[j] = n[j] /\ b[j] = n[j]
  BY Zenon, <1>1, <1>4 DEF UpdateLink, Interfaces
<1>6. m[i] = a /\ b[i] = bare
  <2>1. a.intf = i
    BY Zenon
  <2> HIDE DEF a, i, m, b
  <2>2. /\ [n[i] EXCEPT !.prop = a.prop] = a
        /\ [n[i] EXCEPT !.prop = NoProp] = [a EXCEPT !.prop = NoProp]
    <3>1. PICK x \in Link : x = n[i] /\ x.intf = a.intf /\ x.id = a.id
      BY Zenon, <1>3, <2>1
    <3>2. /\ [x EXCEPT !.prop = a.prop] = a
          /\ [x EXCEPT !.prop = NoProp] = [a EXCEPT !.prop = NoProp]
      BY Zenon, <1>1, <3>1, OtherProp
    <3> QED BY Zenon, <3>1, <3>2
  <2> QED BY Zenon, <1>5, <2>2 DEF bare
<1> HIDE DEF a, i, m, b
<1>7. Mixed(m, o, s)
  BY Zenon, <1>1, <1>5, <1>6 DEF Mixed, Shapeless
<1>8. Changing(m, s, Tail(links))
  BY Zenon, <1>1, <1>5, <1>6 DEF Changing
<1>9. Mixed(b, o, s)
  <2>1. b[i] = [Wanted(s)[i] EXCEPT !.prop = NoProp]
    BY Zenon, <1>1, <1>6
  <2> QED BY Zenon, <1>1, <1>5, <2>1 DEF Mixed, Shapeless
<1> QED BY Zenon, <1>3, <1>7, <1>8, <1>9 DEF a, i, m, b
\* How far the interfaces are when the calls before position k are through.
Stage(k, n, o, s) ==
  /\ k = 2 => \A i \in Intfs :
       ~Same(o, s, i) => n[i] \in {NoLink, Wanted(s)[i]} \/ Shapeless(n, o, s, i)
  /\ k = 3 => \A i \in Intfs : ~Same(o, s, i) => n[i] = Wanted(s)[i]
  /\ k = 4 => n = Wanted(s)

\* A call of no links is skipped, one that has links is entered, and when all its
\* links are treated the next position is reached.
LEMMA Stages ==
  ASSUME NEW o \in Seq(Link), NEW s \in Seq(Link), NEW n \in Interfaces, Mixed(n, o, s),
         NEW d \in [Calls -> Seq(Link)], DiffOK(o, s, d), NEW k \in 1 .. 3
  PROVE  /\ Stage(k, n, o, s) => CallOK(CallOrder[k], d, d[CallOrder[k]], n, o, s)
         /\ \A links : IntfsOf(links) = {} /\ CallOK(CallOrder[k], d, links, n, o, s)
                         => Stage(k + 1, n, o, s)
         /\ IntfsOf(<<>>) = {}
<1>0. NoLink \notin Link /\ Wanted(s) \in Interfaces
  BY Zenon, ReconcilerAssumption, WantedFacts
<1>c. CallOrder[1] = "del" /\ CallOrder[2] = "add" /\ CallOrder[3] = "changed"
  BY Zenon DEF CallOrder
<1>d. ASSUME NEW c \in Calls
      PROVE  Treats(c, o, s, d[c]) /\ \A i \in Intfs : Due(c, o, s, i) => i \in IntfsOf(d[c])
  BY Zenon DEF DiffOK
<1>e. IntfsOf(<<>>) = {}
  BY DEF IntfsOf
<1>s. ASSUME NEW i \in Intfs, Same(o, s, i), ~Due("changed", o, s, i) PROVE n[i] = Wanted(s)[i]
  <2>1. Wanted(o)[i] = Wanted(s)[i]
    BY Zenon, <1>s, SameLinks DEF Due
  <2>2. ~Shapeless(n, o, s, i)
    BY Zenon, <1>s DEF Shapeless, Due
  <2> QED BY Zenon, <1>s, <2>1, <2>2 DEF Mixed
<1>1. CASE k = 1
  <2>1. Deleting(n, o, s, d["del"])
    BY Zenon, <1>d DEF Deleting, Calls
  <2>2. ASSUME NEW links, IntfsOf(links) = {}, Deleting(n, o, s, links), NEW i \in Intfs, ~Same(o, s, i)
        PROVE  n[i] \in {NoLink, Wanted(s)[i]} \/ Shapeless(n, o, s, i)
    BY <2>2, ZenonT(30) DEF Deleting, Due, Mixed
  <2> QED BY <1>1, <1>c, <1>d, <1>e, <2>1, <2>2 DEF CallOK, Stage, Calls
<1>2. CASE k = 2
  <2>1. ASSUME Stage(2, n, o, s) PROVE Adding(n, o, s, d["add"])
    <3>1. ASSUME NEW i \in Intfs, ~Same(o, s, i), i \notin IntfsOf(d["add"]) PROVE n[i] = Wanted(s)[i]
      <4>1. ~Due("add", o, s, i)
        BY Zenon, <1>d, <3>1 DEF Calls
      <4>2. Wanted(s)[i] = NoLink /\ ~Shapeless(n, o, s, i)
        BY Zenon, <3>1, <4>1 DEF Due, Shapeless
      <4> QED BY Zenon, <2>1, <3>1, <4>2 DEF Stage
    <3> QED BY Zenon, <2>1, <3>1 DEF Stage, Adding
  <2>2. ASSUME NEW links, IntfsOf(links) = {}, Adding(n, o, s, links), NEW i \in Intfs, ~Same(o, s, i)
        PROVE  n[i] = Wanted(s)[i]
    BY Zenon, <2>2 DEF Adding
  <2> QED BY <1>2, <1>c, <1>d, <1>e, <2>1, <2>2 DEF CallOK, Stage, Calls
<1>3. CASE k = 3
  <2>1. ASSUME Stage(3, n, o, s) PROVE Changing(n, s, d["changed"])
    <3>1. ASSUME NEW i \in Intfs \ IntfsOf(d["changed"]) PROVE n[i] = Wanted(s)[i]
      <4>1. ~Due("changed", o, s, i)
        BY Zenon, <1>d DEF Calls
      <4> QED BY Zenon, <1>s, <2>1, <4>1 DEF Stage
    <3> QED BY Zenon, <3>1 DEF Changing
  <2>2. ASSUME NEW links, IntfsOf(links) = {}, Changing(n, s, links) PROVE n = Wanted(s)
    BY <1>0, <2>2 DEF Changing, Interfaces
  <2> QED BY Zenon, <1>3, <1>c, <1>d, <1>e, <2>1, <2>2 DEF CallOK, Stage, Calls
<1> QED BY <1>1, <1>2, <1>3, <1>e

\* Reconcile goes on from position k of the calls.
LEMMA ProceedOK ==
  ASSUME NEW o \in Seq(Link), NEW s \in Seq(Link), NEW n \in Interfaces, Mixed(n, o, s),
         NEW d \in [Calls -> Seq(Link)], DiffOK(o, s, d), NEW k \in 1 .. 4, Stage(k, n, o, s),
         Proceed(d, k)
  PROVE  \/ pc' = "read" /\ n = Wanted(s)
         \/ pc' \in Calls /\ CallOK(pc', d, todo', n, o, s)
<1>1. ASSUME NEW i \in 1 .. 3, Stage(i, n, o, s), d[CallOrder[i]] = <<>> PROVE Stage(i + 1, n, o, s)
  <2>1. CallOK(CallOrder[i], d, <<>>, n, o, s) /\ IntfsOf(<<>>) = {}
    BY Zenon, <1>1, Stages
  <2> QED BY Zenon, <2>1, Stages
<1>2. ASSUME NEW i \in k .. 4, \A j \in k .. i - 1 : d[CallOrder[j]] = <<>> PROVE Stage(i, n, o, s)
  <2>1. \A j \in 1 .. 3 : j >= k /\ j < i => d[CallOrder[j]] = <<>>
    BY <1>2
  <2>2. k = 1 \/ k = 2 \/ k = 3 \/ k = 4
    OBVIOUS
  <2>3. CASE i = k
    BY Zenon, <2>3
  <2>4. CASE i = k + 1
    <3>1. k \in 1 .. 3 /\ d[CallOrder[k]] = <<>>
      BY <2>1, <2>4
    <3> QED BY Zenon, <1>1, <2>4, <3>1
  <2>5. CASE i = k + 2
    <3>1. k \in 1 .. 3 /\ k + 1 \in 1 .. 3 /\ d[CallOrder[k]] = <<>> /\ d[CallOrder[k + 1]] = <<>>
      BY <2>1, <2>5
    <3>2. Stage(k + 1, n, o, s)
      BY Zenon, <1>1, <3>1
    <3>3. Stage(k + 1 + 1, n, o, s)
      BY Zenon, <1>1, <3>1, <3>2
    <3>4. k + 1 + 1 = i
      BY <2>5
    <3> QED BY Zenon, <3>3, <3>4
  <2>6. CASE i = k + 3
    <3>1. k = 1 /\ i = 4 /\ \A j \in 1 .. 3 : d[CallOrder[j]] = <<>>
      BY <2>1, <2>6
    <3>2. Stage(1 + 1, n, o, s)
      BY <1>1, <3>1
    <3>3. Stage(2 + 1, n, o, s)
      BY <1>1, <3>1, <3>2
    <3>4. Stage(3 + 1, n, o, s)
      BY <1>1, <3>1, <3>3
    <3> QED BY <3>1, <3>4
  <2> QED BY <2>2, <2>3, <2>4, <2>5, <2>6
<1>3. CASE pc' = "read" /\ \A i \in k .. 3 : d[CallOrder[i]] = <<>>
  <2>1. Stage(4, n, o, s)
    BY <1>2, <1>3
  <2> QED BY Zenon, <1>3, <2>1 DEF Stage
<1>4. CASE \E i \in k .. 3 : /\ \A j \in k .. i - 1 : d[CallOrder[j]] = <<>>
                             /\ pc' = CallOrder[i] /\ todo' = d[CallOrder[i]]
  <2>1. PICK i \in k .. 3 : /\ \A j \in k .. i - 1 : d[CallOrder[j]] = <<>>
                            /\ pc' = CallOrder[i] /\ todo' = d[CallOrder[i]]
    BY Zenon, <1>4
  <2>2. i \in 1 .. 3 /\ Stage(i, n, o, s)
    BY <1>2, <2>1
  <2>3. CallOrder[i] \in Calls
    BY <2>2, SMTT(30) DEF CallOrder, Calls
  <2> QED BY Zenon, <2>1, <2>2, <2>3, Stages
<1> QED BY Zenon, <1>3, <1>4 DEF Proceed
-----------------------------------------------------------------------------
(* The steps keep the phase, or an edit begins the next one.               *)

\* The list a field holds, Nil read as empty, is a list of links with one link per interface.
LEMMA ListFacts ==
  ASSUME NEW s \in Lists
  PROVE  /\ List(s) \in Seq(Link) /\ s \in Links
         /\ s # Nil => List(s) = s
         /\ Proper => OneLinkPerIntf(List(s))
<1>1. CASE s = Nil
  BY <1>1, SMTT(30) DEF List, Links, Proper, OneLinkPerIntf
<1>2. CASE s # Nil
  <2>1. List(s) = s /\ s \in Seq(Link)
    BY <1>2, ReconcilerAssumption, SMTT(30) DEF List, Lists
  <2> QED BY Zenon, <1>2, <2>1 DEF Links, Proper, Lists
<1> QED BY Zenon, <1>1, <1>2

\* SetupPod begins with no interface and ends with those of its list.
LEMMA FirstLinks ==
  ASSUME NEW s \in Seq(Link), OneLinkPerIntf(s)
  PROVE  /\ Treats("add", <<>>, s, s) /\ Adding(Wanted(<<>>), <<>>, s, s)
         /\ \A n \in Interfaces : Adding(n, <<>>, s, <<>>) => n = Wanted(s)
<1>0. NoLink \notin Link /\ \A k \in 1 .. Len(s) : s[k] \in Link
  BY ReconcilerAssumption
<1>1. \A i \in Intfs : Wanted(<<>>)[i] = NoLink /\ ~Same(<<>>, s, i)
  <2>1. <<>> \in Seq(Link) /\ ~(\E k \in 1 .. Len(<<>>) : TRUE)
    OBVIOUS
  <2>2. \A i \in Intfs : Wanted(<<>>)[i] # NoLink => \E k \in 1 .. Len(<<>>) : TRUE
    BY Zenon, <2>1, WantedFacts
  <2>3. \A i \in Intfs : Wanted(<<>>)[i] = NoLink
    BY Zenon, <2>1, <2>2
  <2> QED BY Zenon, <2>3 DEF Same
<1>2. ASSUME NEW k \in 1 .. Len(s)
      PROVE  Due("add", <<>>, s, s[k].intf) /\ s[k] = Wanted(s)[s[k].intf]
  BY <1>0, <1>1, WantedFacts DEF Due
<1>3. ASSUME NEW i \in Intfs \ IntfsOf(s) PROVE Wanted(s)[i] = NoLink
  BY WantedFacts DEF IntfsOf
<1>4. ASSUME NEW n \in Interfaces, Adding(n, <<>>, s, <<>>) PROVE n = Wanted(s)
  <2>1. IntfsOf(<<>>) = {}
    BY DEF IntfsOf
  <2>2. \A i \in Intfs : n[i] = Wanted(s)[i]
    BY Zenon, <1>1, <1>4, <2>1 DEF Adding
  <2>3. Wanted(s) \in Interfaces
    BY Zenon, WantedFacts
  <2> QED BY <2>2, <2>3 DEF Interfaces
<1> QED BY Zenon, <1>1, <1>2, <1>3, <1>4 DEF Treats, Adding

\* What can be read stays right when nothing is written, ...
LEMMA VersionsKept ==
  ASSUME TypeOK, NEW o, NEW s, VersionsOK(o, s), UNCHANGED <<api, cache>>,
         pc' # "idle" \/ queued' => pc # "idle" \/ queued,
         pod' = "up" \/ pod # "up"
  PROVE  VersionsOK(o, s)'
BY Zenon DEF VersionsOK, Current

\* ... and when a version with the same list is.
LEMMA VersionsAccept ==
  ASSUME TypeOK, NEW o, NEW s, VersionsOK(o, s), NEW t \in Topology, Accept(t), UNCHANGED cache,
         t.spec = s, t.status \in {o, s},
         pc' # "idle" \/ queued' => pc # "idle" \/ queued,
         pod' = "up" \/ pod # "up"
  PROVE  VersionsOK(o, s)' /\ Current' = t
<1>1. /\ api \in Seq(Topology) /\ cache \in 1 .. Len(api)
      /\ Len(api') = Len(api) + 1 /\ api'[Len(api) + 1] = t
      /\ \A v \in 1 .. Len(api) : api'[v] = api[v]
  BY DEF TypeOK, Accept
<1>2. Current' = t
  BY Zenon, <1>1 DEF Current
<1>3. ASSUME NEW v \in cache' .. Len(api'), v > cache' \/ pc' # "idle" \/ queued'
      PROVE  api'[v].spec = s /\ api'[v].status \in {o, s}
  <2>1. CASE v = Len(api) + 1
    BY Zenon, <1>1, <2>1
  <2>2. CASE v # Len(api) + 1
    <3>1. v \in cache .. Len(api) /\ v \in 1 .. Len(api) /\ (v > cache \/ pc # "idle" \/ queued)
      BY <1>1, <1>3, <2>2
    <3>2. api[v].spec = s /\ api[v].status \in {o, s}
      BY Zenon, <3>1 DEF VersionsOK
    <3> QED BY Zenon, <1>1, <3>1, <3>2
  <2> QED BY Zenon, <2>1, <2>2
<1>4. ASSUME pod' # "up" PROVE o = Nil /\ s # Nil /\ \A v \in 1 .. Len(api') : api'[v].spec = s
  <2>1. o = Nil /\ s # Nil /\ \A v \in 1 .. Len(api) : api[v].spec = s
    BY Zenon, <1>4 DEF VersionsOK
  <2>2. \A v \in 1 .. Len(api') : v \in 1 .. Len(api) \/ v = Len(api) + 1
    BY <1>1
  <2> QED BY Zenon, <1>1, <2>1, <2>2
<1> QED BY Zenon, <1>2, <1>3, <1>4 DEF VersionsOK

\* An edit that takes no risk is made to a list that has been brought about.
LEMMA EditPhase ==
  ASSUME TypeOK, NEW o \in Lists, NEW s \in Lists, s = Current.spec, Phase(o, s),
         NEW e \in Specs, Edit(e), risk' = {}
  PROVE  Current'.spec = e /\ Phase(s, e)'
<1>t. api \in Seq(Topology) /\ Len(api) \in Nat /\ cache \in 1 .. Len(api) /\ Current \in Topology
  BY DEF TypeOK, Current
<1>1. Made /\ Current.status # Nil /\ e # s
  BY Zenon DEF Edit
<1>2. pc = "idle" /\ ~queued /\ cache = Len(api) /\ pod = "up" /\ Current.status = s /\ s # Nil
  BY Zenon, <1>1 DEF Made, Settled, Idle
<1>3. net = Wanted(List(s))
  BY Zenon, <1>2 DEF Phase, Reached
<1>4. /\ Current'.spec = e /\ Current'.status = s
      /\ Len(api') = Len(api) + 1 /\ api'[Len(api')] = Current'
      /\ UNCHANGED <<cache, queued, pc, net, pod>>
  <2> DEFINE t == [Current EXCEPT !.spec = e]
  <2>1. Accept(t) /\ UNCHANGED <<cache, queued, pc, net, pod>>
    BY Zenon DEF Edit, reconcileVars, podVars
  <2>2. t.spec = e /\ t.status = s
    BY Zenon, <1>t, <1>2 DEF Topology
  <2> HIDE DEF t
  <2>3. Len(api') = Len(api) + 1 /\ api'[Len(api')] = t
    BY <1>t, <2>1 DEF Accept
  <2> QED BY Zenon, <2>1, <2>2, <2>3 DEF Current
<1>5. VersionsOK(s, e)'
  <2>1. ASSUME NEW v \in cache' .. Len(api'), v > cache' PROVE api'[v].spec = e /\ api'[v].status = s
    BY <1>t, <1>2, <1>4, <2>1
  <2> QED BY Zenon, <1>2, <1>4, <2>1 DEF VersionsOK
<1>6. Mixed(net, List(s), List(e))
  BY Zenon, <1>3 DEF Mixed
<1>7. ~Reached(s, e)'
  BY Zenon, <1>1, <1>2, <1>4 DEF Reached
<1>8. Phase(s, e)'
  BY Zenon, <1>2, <1>4, <1>5, <1>6, <1>7 DEF Phase, SetupOK, Calls
<1> QED BY Zenon, <1>4, <1>8

\* The watch, writes that leave the links alone and SetupPod.
LEMMA AroundPhase ==
  ASSUME Proper, TypeOK, NEW o \in Lists, NEW s \in Lists, s = Current.spec, Phase(o, s),
         Watch \/ Touch \/ SetupStep
  PROVE  Current'.spec = s /\ Phase(o, s)'
<1>t. /\ api \in Seq(Topology) /\ Len(api) \in Nat /\ cache \in 1 .. Len(api) /\ Current \in Topology
      /\ net \in Interfaces /\ podLinks \in Seq(Link)
  BY DEF TypeOK, Current
<1>l. /\ List(s) \in Seq(Link) /\ (s # Nil => List(s) = s) /\ OneLinkPerIntf(List(s))
      /\ List(Nil) = <<>>
  BY Zenon, ListFacts DEF List
<1>v. VersionsOK(o, s) /\ Current.status \in {o, s}
  BY Zenon DEF Phase, VersionsOK
<1>1. CASE Watch
  <2>1. /\ UNCHANGED <<api, pc, diff, todo, net, pod, podLinks>> /\ Current' = Current
        /\ cache' \in cache + 1 .. Len(api)
    BY Zenon, <1>1 DEF Watch, reconcileVars, podVars, Current
  <2>2. VersionsOK(o, s)'
    BY <1>t, <1>v, <2>1 DEF VersionsOK
  <2> QED BY Zenon, <2>1, <2>2 DEF Phase, Reached
<1>2. CASE Touch
  <2>1. Accept(Current) /\ UNCHANGED <<cache, queued, pc, diff, todo, net, pod, podLinks>>
    BY Zenon, <1>2 DEF Touch, reconcileVars, podVars
  <2>2. VersionsOK(o, s)' /\ Current' = Current
    BY Zenon, <1>t, <1>v, <2>1, VersionsAccept
  <2> QED BY Zenon, <2>1, <2>2 DEF Phase, Reached
<1>3. CASE SetupStep
  <2>0. /\ UNCHANGED <<cache, queued, pc, diff, todo>> /\ pod # "up"
    BY Zenon, <1>3 DEF SetupStep, SetupGet, SetupPassBy, SetupAlive, SetupLink, SetupDone, reconcileVars
  <2>1. o = Nil /\ s # Nil /\ List(o) = <<>> /\ (\A v \in 1 .. Len(api) : api[v].spec = s) /\ pc \notin Calls
    BY Zenon, <1>l, <1>v, <2>0 DEF VersionsOK, Phase
  <2>2. SetupOK(pod, podLinks, net, List(s)) /\ Mixed(net, <<>>, List(s))
    BY Zenon, <2>1 DEF Phase
  <2>k. UNCHANGED api => VersionsOK(o, s)' /\ Current' = Current
    BY Zenon, <1>v, <2>0, VersionsKept DEF Current
  <2>3. CASE SetupGet
    <3>1. UNCHANGED <<api, net>> /\ pod = "down" /\ pod' = "get" /\ podLinks' = s
      BY Zenon, <2>1, <2>3 DEF SetupGet
    <3>2. SetupOK(pod', podLinks', net', List(s))
      BY Zenon, <1>l, <2>1, <2>2, <3>1 DEF SetupOK
    <3> QED BY Zenon, <2>0, <2>1, <2>2, <2>k, <3>1, <3>2 DEF Phase
  <2>4. CASE SetupPassBy
    BY Zenon, <2>1, <2>4 DEF SetupPassBy
  <2>5. CASE SetupAlive
    <3>1. /\ Accept([Current EXCEPT !.alive = TRUE]) /\ pod = "get" /\ pod' = "alive"
          /\ UNCHANGED <<net, podLinks>>
      BY Zenon, <2>5 DEF SetupAlive
    <3> DEFINE t == [Current EXCEPT !.alive = TRUE]
    <3>2. t \in Topology /\ t.spec = s /\ t.status = Current.status
      BY Zenon, <1>t DEF Topology
    <3> HIDE DEF t
    <3>3. VersionsOK(o, s)' /\ Current' = t
      BY Zenon, <1>v, <2>0, <3>1, <3>2, VersionsAccept DEF t
    <3>4. podLinks = List(s) /\ net = Wanted(<<>>)
      BY Zenon, <2>2, <3>1 DEF SetupOK
    <3>5. SetupOK(pod', podLinks', net', List(s))
      BY Zenon, <1>l, <3>1, <3>4, FirstLinks DEF SetupOK
    <3> QED BY Zenon, <2>0, <2>1, <2>2, <3>1, <3>2, <3>3, <3>5 DEF Phase
  <2>6. CASE SetupLink
    <3>1. /\ UNCHANGED api /\ pod = "alive" /\ pod' = "alive" /\ podLinks # <<>>
          /\ net' = AddLink(net, Head(podLinks)) /\ podLinks' = Tail(podLinks)
      BY Zenon, <2>6 DEF SetupLink
    <3>2. Treats("add", <<>>, List(s), podLinks) /\ Adding(net, <<>>, List(s), podLinks)
      BY Zenon, <2>2, <3>1 DEF SetupOK
    <3>3. <<>> \in Seq(Link)
      OBVIOUS
    <3>4. Mixed(net', <<>>, List(s)) /\ Adding(net', <<>>, List(s), podLinks')
      BY <1>t, <1>l, <2>2, <3>1, <3>2, <3>3, AddStep, ZenonT(30)
    <3>5. Treats("add", <<>>, List(s), podLinks')
      BY Zenon, <1>t, <3>1, <3>2, HeadTail
    <3>6. SetupOK(pod', podLinks', net', List(s))
      BY Zenon, <3>1, <3>4, <3>5 DEF SetupOK
    <3> QED BY Zenon, <2>0, <2>1, <2>k, <3>1, <3>4, <3>6 DEF Phase
  <2>7. CASE SetupDone
    <3>1. UNCHANGED <<api, net>> /\ pod = "alive" /\ pod' = "up" /\ podLinks = <<>>
      BY Zenon, <2>7 DEF SetupDone
    <3>2. Adding(net, <<>>, List(s), <<>>)
      BY Zenon, <2>2, <3>1 DEF SetupOK
    <3>3. net = Wanted(List(s))
      BY Zenon, <1>t, <1>l, <3>2, FirstLinks
    <3>4. SetupOK(pod', podLinks', net', List(s))
      BY Zenon, <3>1 DEF SetupOK
    <3> QED BY Zenon, <2>0, <2>1, <2>2, <2>k, <3>1, <3>3, <3>4 DEF Phase
  <2> QED BY Zenon, <1>3, <2>3, <2>4, <2>5, <2>6, <2>7 DEF SetupStep
<1> QED BY Zenon, <1>1, <1>2, <1>3
\* A reconcile that fails has taken the interfaces some of the way, and is not
\* through: a failure after the lists were recorded is a risk.
LEMMA CallFailedPhase ==
  ASSUME TypeOK, NEW o \in Lists, NEW s \in Lists, s = Current.spec, Phase(o, s),
         pc \in Calls, NEW more, CallFailed(more), Mixed(net', List(o), List(s)), risk' = {}
  PROVE  Current'.spec = s /\ Phase(o, s)'
<1>1. /\ pc' = "idle" /\ queued' = TRUE /\ UNCHANGED <<api, cache, pod, podLinks>>
      /\ Current.status # s /\ Current' = Current
  BY Zenon DEF CallFailed, Return, reconcileOnly, podVars, Current
<1>2. o # Nil /\ pc # "idle" /\ VersionsOK(o, s)
  BY Zenon DEF Phase, Calls
<1>3. pod = "up"
  BY Zenon, <1>2 DEF VersionsOK
<1>4. VersionsOK(o, s)'
  BY Zenon, <1>1, <1>2, <1>3, VersionsKept
<1>5. ~Reached(o, s)' /\ pc' \notin Calls
  BY Zenon, <1>1, <1>2 DEF Reached, Calls
<1> QED BY Zenon, <1>1, <1>3, <1>4, <1>5 DEF Phase, SetupOK

\* The steps of a reconcile.
LEMMA ReconcilePhase ==
  ASSUME Proper, TypeOK, NEW o \in Lists, NEW s \in Lists, s = Current.spec, Phase(o, s),
         ReconcileStep, risk' = {}
  PROVE  Current'.spec = s /\ Phase(o, s)'
<1>t. /\ api \in Seq(Topology) /\ Len(api) \in Nat /\ cache \in 1 .. Len(api) /\ Current \in Topology
      /\ net \in Interfaces /\ todo \in Seq(Link) /\ diff \in [Calls -> Seq(Link)]
  BY DEF TypeOK, Current
<1>l. /\ List(s) \in Seq(Link) /\ OneLinkPerIntf(List(s))
      /\ List(o) \in Seq(Link) /\ OneLinkPerIntf(List(o))
  BY Zenon, ListFacts
<1>v. VersionsOK(o, s) /\ Mixed(net, List(o), List(s)) /\ (o # Nil => pod = "up")
  BY Zenon DEF Phase, VersionsOK
<1>c. ASSUME pc \in Calls
      PROVE  /\ o # Nil /\ pod = "up" /\ pc # "idle"
             /\ CallOK(pc, diff, todo, net, List(o), List(s))
             /\ DiffOK(List(o), List(s), diff) /\ Treats(pc, List(o), List(s), todo)
  BY Zenon, <1>c, <1>v DEF Phase, CallOK, Calls
<1>r. ASSUME pc = "idle", queued PROVE api[cache].spec = s /\ api[cache].status \in {o, s}
  <2>1. cache \in cache .. Len(api)
    BY <1>t
  <2>2. \A v \in cache .. Len(api) : queued => api[v].spec = s /\ api[v].status \in {o, s}
    BY Zenon, <1>v DEF VersionsOK
  <2> QED BY Zenon, <1>r, <2>1, <2>2
<1>s. pod = "up" => SetupOK(pod, podLinks, net', List(s))
  BY Zenon DEF SetupOK
<1>1. CASE ReconcileSame
  <2>1. /\ UNCHANGED <<api, cache, pc, diff, todo, net, pod, podLinks>> /\ queued /\ Current' = Current
    BY Zenon, <1>1 DEF ReconcileSame, reconcileOnly, reconcileVars, podVars, Current
  <2>2. VersionsOK(o, s)'
    BY Zenon, <1>v, <2>1, VersionsKept
  <2> QED BY Zenon, <2>1, <2>2 DEF Phase, Reached
<1>2. CASE ReconcileFirst
  <2>1. /\ UNCHANGED <<api, cache, net, pod, podLinks>> /\ pc = "idle" /\ queued /\ pc' = "read"
        /\ api[cache].status = Nil /\ api[cache].spec # Nil /\ Current' = Current
    BY Zenon, <1>2 DEF ReconcileFirst, reconcileOnly, podVars, Current
  <2>2. o = Nil
    BY Zenon, <1>r, <2>1
  <2>3. VersionsOK(o, s)'
    BY Zenon, <1>v, <2>1, VersionsKept
  <2> QED BY Zenon, <2>1, <2>2, <2>3 DEF Phase, Reached, Calls
<1>3. CASE ReconcileChanged
  <2>1. /\ UNCHANGED <<api, cache, net, pod, podLinks>> /\ pc = "idle" /\ queued
        /\ api[cache].status # Nil /\ api[cache].status # api[cache].spec
        /\ diff' = CalcDiff(List(api[cache].status), List(api[cache].spec))
        /\ Proceed(diff', 1) /\ Current' = Current
    BY Zenon, <1>3 DEF ReconcileChanged, reconcileOnly, podVars, Current
  <2>2. api[cache].status = o /\ api[cache].spec = s /\ o # Nil /\ pod = "up"
    BY Zenon, <1>r, <1>v, <2>1
  <2>3. diff' \in [Calls -> Seq(Link)] /\ DiffOK(List(o), List(s), diff')
    BY Zenon, <1>l, <2>1, <2>2, CalcDiffOK
  <2>4. \/ pc' = "read" /\ net = Wanted(List(s))
        \/ pc' \in Calls /\ CallOK(pc', diff', todo', net, List(o), List(s))
    <3>1. Stage(1, net, List(o), List(s)) /\ 1 \in 1 .. 4
      BY DEF Stage
    <3>2. PICK d \in [Calls -> Seq(Link)] : d = diff'
      BY Zenon, <2>3
    <3>3. DiffOK(List(o), List(s), d) /\ Proceed(d, 1)
      BY Zenon, <2>1, <2>3, <3>2
    <3>4. \/ pc' = "read" /\ net = Wanted(List(s))
          \/ pc' \in Calls /\ CallOK(pc', d, todo', net, List(o), List(s))
      BY Zenon, <1>t, <1>l, <1>v, <3>1, <3>3, ProceedOK
    <3> QED BY Zenon, <3>2, <3>4
  <2>5. VersionsOK(o, s)'
    BY Zenon, <1>v, <2>1, VersionsKept
  <2> QED BY Zenon, <1>s, <1>v, <2>1, <2>2, <2>4, <2>5 DEF Phase, Reached, Calls
<1>4. CASE DaemonStep
  <2>1. /\ pc \in Calls /\ todo # <<>> /\ todo' = Tail(todo) /\ Current' = Current
        /\ UNCHANGED <<api, cache, queued, pc, diff, pod, podLinks>>
    BY Zenon, <1>4 DEF DaemonStep, reconcileOnly, podVars, Current
  <2>2. Treats(pc, List(o), List(s), todo')
    BY Zenon, <1>t, <1>c, <2>1, HeadTail
  <2>3. /\ Mixed(net', List(o), List(s))
        /\ pc = "del" => Deleting(net', List(o), List(s), todo')
        /\ pc = "add" => Adding(net', List(o), List(s), todo')
        /\ pc = "changed" => Changing(net', List(s), todo')
    <3>1. CASE pc = "del"
      <4>1. net' = DelLink(net, Head(todo))
        BY Zenon, <1>4, <3>1 DEF DaemonStep
      <4> QED BY Zenon, <1>t, <1>l, <1>v, <1>c, <2>1, <3>1, <4>1, DelStep DEF CallOK
    <3>2. CASE pc = "add"
      <4>1. net' = AddLink(net, Head(todo))
        BY Zenon, <1>4, <3>2 DEF DaemonStep
      <4> QED BY Zenon, <1>t, <1>l, <1>v, <1>c, <2>1, <3>2, <4>1, AddStep DEF CallOK
    <3>3. CASE pc = "changed"
      <4>1. Changing(net, List(s), todo) /\ Treats("changed", List(o), List(s), todo)
        BY Zenon, <1>c, <2>1, <3>3 DEF CallOK
      <4>2. net[Head(todo).intf] # NoLink
        BY <1>t, <1>l, <1>v, <2>1, <4>1, ChangeStep, ZenonT(30)
      <4>3. net' = UpdateLink(net, Head(todo))
        BY Zenon, <1>4, <3>3, <4>2 DEF DaemonStep
      <4> QED BY Zenon, <1>t, <1>l, <1>v, <2>1, <3>3, <4>1, <4>3, ChangeStep
    <3> QED BY Zenon, <2>1, <3>1, <3>2, <3>3 DEF Calls
  <2>4. VersionsOK(o, s)'
    BY Zenon, <1>v, <2>1, VersionsKept
  <2>5. CallOK(pc', diff', todo', net', List(o), List(s))
    BY Zenon, <1>c, <2>1, <2>2, <2>3 DEF CallOK
  <2>6. ~Reached(o, s)'
    BY Zenon, <1>c, <2>1 DEF Reached, Calls
  <2> QED BY Zenon, <1>s, <1>c, <2>1, <2>3, <2>4, <2>5, <2>6 DEF Phase
<1>5. CASE CallReturns
  <2>1. /\ pc \in Calls /\ todo = <<>> /\ Current' = Current /\ Proceed(diff, Position(pc) + 1)
        /\ UNCHANGED <<api, cache, queued, diff, net, pod, podLinks>>
    BY Zenon, <1>5 DEF CallReturns, reconcileOnly, podVars, Current
  <2>2. Position(pc) \in 1 .. 3 /\ CallOrder[Position(pc)] = pc
    BY <2>1, Positions DEF Calls, CallOrder
  <2>3. Stage(Position(pc) + 1, net, List(o), List(s))
    BY Zenon, <1>t, <1>l, <1>v, <1>c, <2>1, <2>2, Stages
  <2>4. \/ pc' = "read" /\ net = Wanted(List(s))
        \/ pc' \in Calls /\ CallOK(pc', diff, todo', net, List(o), List(s))
    <3>1. Position(pc) + 1 \in 1 .. 4
      BY <2>2
    <3> QED BY Zenon, <1>t, <1>l, <1>v, <1>c, <2>1, <2>3, <3>1, ProceedOK
  <2>5. VersionsOK(o, s)'
    BY Zenon, <1>v, <1>c, <2>1, VersionsKept
  <2> QED BY Zenon, <1>s, <1>v, <1>c, <2>1, <2>4, <2>5 DEF Phase, Reached, Calls
<1>6. CASE NoDaemon \/ NoInterface \/ CallFails
  <2>1. pc \in Calls /\ CallFailed({}) /\ net' = net
    BY Zenon, <1>6 DEF NoDaemon, NoInterface, CallFails, Calls
  <2> QED BY Zenon, <1>v, <2>1, CallFailedPhase
<1>7. CASE QdiscsFail
  <2> DEFINE bare == [Head(todo) EXCEPT !.prop = NoProp]
  <2>1. /\ pc \in Calls /\ todo # <<>> /\ CallFailed({})
        /\ \/ pc = "add" /\ Head(todo).id \in Tunnels /\ net' = AddLink(net, bare)
           \/ pc = "changed" /\ net' = UpdateLink(net, bare)
    <3>1. ~CallFailed({"unshaped"})
      BY Zenon DEF CallFailed
    <3> QED BY Zenon, <1>7, <3>1 DEF QdiscsFail, Calls
  <2>2. CASE pc = "add"
    <3>1. Adding(net, List(o), List(s), todo) /\ Treats("add", List(o), List(s), todo)
      BY Zenon, <1>c, <2>1, <2>2 DEF CallOK
    <3>2. Head(todo).id \in Tunnels /\ net' = AddLink(net, bare)
      BY Zenon, <2>1, <2>2
    <3>3. Mixed(net', List(o), List(s))
      BY <1>t, <1>l, <1>v, <2>1, <3>1, <3>2, AddStep, ZenonT(30)
    <3> QED BY Zenon, <2>1, <3>3, CallFailedPhase
  <2>3. CASE pc = "changed"
    <3>1. Changing(net, List(s), todo) /\ Treats("changed", List(o), List(s), todo)
      BY Zenon, <1>c, <2>1, <2>3 DEF CallOK
    <3>2. net' = UpdateLink(net, bare)
      BY Zenon, <2>1, <2>3
    <3>3. Mixed(net', List(o), List(s))
      BY <1>t, <1>l, <1>v, <2>1, <3>1, <3>2, ChangeStep, ZenonT(30)
    <3> QED BY Zenon, <2>1, <3>3, CallFailedPhase
  <2> QED BY Zenon, <2>1, <2>2, <2>3
<1>8. CASE StatusRead
  <2>1. /\ pc = "read" /\ pc' = "write" /\ Current' = Current
        /\ UNCHANGED <<api, cache, queued, net, pod, podLinks>>
    BY Zenon, <1>8 DEF StatusRead, reconcileOnly, podVars, Current
  <2>2. VersionsOK(o, s)'
    BY Zenon, <1>v, <2>1, VersionsKept
  <2> QED BY Zenon, <2>1, <2>2 DEF Phase, Reached, Calls
<1>9. CASE StatusWrite
  <2> DEFINE t == [Current EXCEPT !.status = s]
  <2>1. /\ pc = "write" /\ pc' = "idle" /\ queued' = queued
        /\ Accept(t) /\ UNCHANGED <<cache, net, pod, podLinks>>
    BY Zenon, <1>9 DEF StatusWrite, Return, podVars, Current, TypeOK
  <2>2. t \in Topology /\ t.spec = s /\ t.status = s
    BY Zenon, <1>t DEF Topology
  <2> HIDE DEF t
  <2>3. VersionsOK(o, s)' /\ Current' = t
    BY Zenon, <1>v, <2>1, <2>2, VersionsAccept
  <2> QED BY Zenon, <2>1, <2>2, <2>3 DEF Phase, Reached, Calls
<1>10. CASE StatusConflict
  <2>1. /\ pc = "write" /\ pc' \in {"read", "idle"} /\ Current' = Current
        /\ UNCHANGED <<api, cache, net, pod, podLinks>>
    BY Zenon, <1>10 DEF StatusConflict, Return, reconcileOnly, podVars, Current
  <2>2. VersionsOK(o, s)'
    BY Zenon, <1>v, <2>1, VersionsKept
  <2> QED BY Zenon, <2>1, <2>2 DEF Phase, Reached, Calls
<1> QED BY Zenon, <1>1, <1>2, <1>3, <1>4, <1>5, <1>6, <1>7, <1>8, <1>9, <1>10 DEF ReconcileStep

\* In the beginning the pod is not there, or is as the object says.
LEMMA InitPhase == Proper /\ Init => NetInv
<1> SUFFICES ASSUME Proper, Init PROVE NetInv
  BY Zenon
<1>0. First \in Lists /\ Nil \in Lists /\ First # Nil /\ List(First) = First /\ List(Nil) = <<>>
  BY Zenon, ReconcilerAssumption DEF Lists, List
<1>1. /\ Current.spec = First /\ pc = "idle" /\ pc \notin Calls /\ Len(api) = 1 /\ cache = 1
      /\ api[1] = Current
  BY Zenon DEF Init, Current, Calls
<1>2. CASE Running
  <2>1. pod = "up" /\ net = Wanted(First) /\ Current.status = First
    BY Zenon, <1>2 DEF Init, Current
  <2>2. VersionsOK(First, First)
    BY <1>1, <2>1 DEF VersionsOK
  <2>3. Mixed(net, First, First)
    BY Zenon, <2>1 DEF Mixed
  <2>4. Phase(First, First)
    BY Zenon, <1>0, <1>1, <2>1, <2>2, <2>3 DEF Phase, SetupOK
  <2> QED BY Zenon, <1>0, <1>1, <2>4 DEF NetInv
<1>3. CASE ~Running
  <2>1. pod = "down" /\ net = [i \in Intfs |-> NoLink] /\ Current.status = Nil
    BY Zenon, <1>3 DEF Init, Current
  <2>2. VersionsOK(Nil, First)
    <3>1. \A v \in cache .. Len(api) : v = 1
      BY <1>1
    <3>2. \A v \in 1 .. Len(api) : v = 1
      BY <1>1
    <3> QED BY Zenon, <1>0, <1>1, <2>1, <3>1, <3>2 DEF VersionsOK
  <2>3. net = Wanted(<<>>)
    BY <2>1 DEF Wanted
  <2>4. Mixed(net, <<>>, First)
    BY Zenon, <2>3 DEF Mixed
  <2>5. Phase(Nil, First)
    BY Zenon, <1>0, <1>1, <2>1, <2>2, <2>3, <2>4 DEF Phase, SetupOK
  <2> QED BY Zenon, <1>0, <1>1, <2>5 DEF NetInv
<1> QED BY Zenon, <1>2, <1>3

\* No step takes a risk back.
LEMMA RiskStays ==
  ASSUME [Next]_vars, risk' = {}
  PROVE  risk = {}
<1>1. CASE UNCHANGED vars
  BY Zenon, <1>1 DEF vars
<1>2. CASE (\E s \in Specs : Edit(s)) \/ Watch \/ Touch \/ SetupStep
  BY Zenon, <1>2 DEF Edit, Watch, Touch, SetupStep, SetupGet, SetupPassBy, SetupAlive, SetupLink, SetupDone
<1>3. CASE ReconcileStep
  BY Zenon, <1>3 DEF ReconcileStep, ReconcileSame, ReconcileFirst, ReconcileChanged, DaemonStep, CallReturns,
              NoDaemon, NoInterface, CallFails, QdiscsFail, CallFailed, StatusRead, StatusWrite,
              StatusConflict
<1> QED BY Zenon, <1>1, <1>2, <1>3 DEF Next, Rest

\* Through stale reads, calls that fail half way and are made again, conflicts and
\* lost answers, the interfaces are those of the list before the last edit, of the
\* list after it, or between the two in a way the next reconcile completes.
THEOREM InterfacesFollow ==
  ASSUME Proper
  PROVE  Spec => []NetInv
<1>1. TypeOK /\ NetInv /\ [Next]_vars => NetInv'
  <2> SUFFICES ASSUME TypeOK, NetInv, [Next]_vars, risk' = {}
               PROVE  Current'.spec \in Lists /\ \E o \in Lists : Phase(o, Current.spec)'
    BY Zenon DEF NetInv
  <2>1. PICK s \in Lists, o \in Lists : s = Current.spec /\ Phase(o, s)
    BY Zenon, RiskStays DEF NetInv
  <2>2. ASSUME NEW s1 \in Lists, NEW o1 \in Lists, Current'.spec = s1, Phase(o1, s1)'
        PROVE  Current'.spec \in Lists /\ \E o2 \in Lists : Phase(o2, Current.spec)'
    <3>1. Phase(o1, Current.spec)'
      BY Zenon, <2>2 DEF Phase, VersionsOK, Reached
    <3> QED BY Zenon, <2>2, <3>1
  <2>3. CASE \E e \in Specs : Edit(e)
    <3>1. PICK e \in Specs : Edit(e)
      BY Zenon, <2>3
    <3>2. e \in Lists
      BY Zenon DEF Lists
    <3> QED BY Zenon, <2>1, <2>2, <3>1, <3>2, EditPhase
  <2>4. CASE Watch \/ Touch \/ SetupStep
    BY Zenon, <2>1, <2>2, <2>4, AroundPhase
  <2>5. CASE ReconcileStep
    BY Zenon, <2>1, <2>2, <2>5, ReconcilePhase
  <2>6. CASE UNCHANGED vars
    <3>1. Current' = Current /\ Phase(o, s)'
      BY Zenon, <2>1, <2>6 DEF Phase, VersionsOK, Reached, Current, vars, reconcileVars, podVars
    <3> QED BY Zenon, <2>1, <2>2, <3>1
  <2> QED BY Zenon, <2>3, <2>4, <2>5, <2>6 DEF Next, Rest
<1> QED BY <1>1, InitPhase, ReconcilerTyped, PTL DEF Spec

\* At rest the pod has the interfaces spec.links asks for, with lists of any length,
\* any number of edits, conflicts and failed calls, unless one of the four risks was
\* taken.
THEOREM DesiredReached ==
  ASSUME Proper
  PROVE  Spec => []DesiredUnlessRisked
<1>1. NetInv /\ RestsRecorded => DesiredUnlessRisked
  <2> SUFFICES ASSUME NetInv, RestsRecorded, risk = {}, Settled
               PROVE  net = Wanted(List(Current.spec))
    BY Zenon DEF DesiredUnlessRisked, DesiredState
  <2>1. PICK o \in Lists : Phase(o, Current.spec)
    BY Zenon DEF NetInv
  <2>2. pod = "up" /\ pc = "idle" /\ Current.status = Current.spec
    BY Zenon DEF Settled, Idle, RestsRecorded
  <2> QED BY Zenon, <2>1, <2>2 DEF Phase, Reached
<1> QED BY <1>1, InterfacesFollow, EditsRecorded, PTL
=============================================================================
