-------------------------- MODULE DaemonJoinProofs --------------------------
(* Why two pods that are up are joined: whichever of them came second has   *)
(* plumbed the link, and nothing has undone it since, unless a store lagged. *)
EXTENDS DaemonProofs

Has(links, l) == \E i \in 1 .. Len(links) : links[i] = l

\* No uid is that of two links: two pods that list it name each other.
Paired ==
  \A p, q \in Pods, l \in Links :
    p # q /\ Has(LinksOf[p], l) /\ Has(LinksOf[q], l) => PeerOf[p][l] = q

\* The links are left alone by the controller.
Undisturbed == MaxCtl = 0 /\ Paired

Calm == \A p \in Pods : pc[Ctl(p)] = "idle" /\ ~unread[p]

\* The handler of p works on links of p, and begins with all of them.
Begun(p) == sbx[p] = "adding" /\ pc[Cni(p)] \in {"read", "write", "fin"}

TodoOK ==
  \A p \in Pods :
    /\ \A i \in 1 .. Len(todo[Cni(p)]) : Has(LinksOf[p], todo[Cni(p)][i])
    /\ Begun(p) => todo[Cni(p)] = LinksOf[p]
    /\ sbx[p] = "adding" => pc[Cni(p)] \notin Del
    /\ sbx[p] = "deleting" => pc[Cni(p)] \notin Add

PlaceNow(p) == [node |-> node[p], gen |-> start[p]]

\* The store of a node knows its own pods from SetAlive on: what it holds and what
\* the watch can still bring it has the place of the sandbox.
OwnStore(p) ==
  LET s == store[node[p]][p]
  IN  /\ sbx[p] = "adding" /\ pc[Cni(p)] = "write"
           => rd[p] <= s.rv /\ (s.rv = rd[p] => PlaceOf(s.obj) = PlaceNow(p))
      /\ sbx[p] = "up" \/ (sbx[p] = "adding" /\ pc[Cni(p)] \notin {"read", "write"})
           => /\ PlaceOf(s.obj) = PlaceNow(p)
              /\ \A v \in s.rv + 1 .. Version(p) : PlaceOf(hist[p][v]) = PlaceNow(p)

\* S stands for the informers having done their first list (Synced), which is lost
\* when a daemon ends.
Stored(S) ==
  S => /\ \A n \in Nodes, p \in Pods : store[n][p].rv \in 1 .. Version(p)
       /\ \A p \in Pods : OwnStore(p)

\* The links the handler of p has not yet plumbed; a link counts as plumbed once
\* the peer's daemon has set its end up.
Rest(p) == IF upd[Cni(p)] \in {"setup", "ok"} THEN Tail(todo[Cni(p)]) ELSE todo[Cni(p)]

\* p has been through link l.
Through(p, l) ==
  \/ sbx[p] = "up"
  \/ sbx[p] = "adding" /\ pc[Cni(p)] \notin {"read", "write", "fin"} /\ ~Has(Rest(p), l)

\* p has set its own end of the vxlan of l up and waits for the peer's daemon.
Halfway(p, l) ==
  /\ pc[Cni(p)] = "vxadd" \/ (pc[Cni(p)] = "rpc" /\ upd[Cni(p)] \in {"sent", "locked"})
  /\ Cur(Cni(p)) = l

\* The nodes of the two ends, as addLink compared them.
Ends(p, l) ==
  LET h == Cni(p)
  IN  /\ pc[h] \in {"vxlock", "vx", "vxadd", "rpc"} /\ Cur(h) = l => peer[h].node # node[p]

\* The interfaces of link l, of pods at the given nodes: a veth is a pair, a vxlan is
\* the only one of its VNI on the node, and there is none without a sandbox.
InterfacesIn(d, at, p, q, l) ==
  /\ \A r \in Pods \ {p, q} : d[r][l] = NoDev
  /\ \A r \in {p, q} : /\ d[r][l] \notin {NoDev, Veth} => d[r][l].kind = "vxlan"
                       /\ d[r][l] # NoDev => at[r] # NoNode
  /\ d[p][l] = Veth <=> d[q][l] = Veth
  /\ d[p][l].kind = "vxlan" /\ d[q][l].kind = "vxlan" => at[p] # at[q]

Linked(S, p, q, l) ==
  Through(p, l) /\ Through(q, l) /\ ((S /\ node[p] = node[q]) \/ "stale" \notin {miss[p][l], miss[q][l]})
    => Joined(p, q, l)

Half(p, q, l) ==
  Halfway(p, l) /\ peer[Cni(p)] = PlaceNow(q) /\ Through(q, l) /\ miss[q][l] # "stale"
    => dev[p][l] = VxLan(node[q])

Pair(S, p, q, l) ==
  /\ InterfacesIn(dev, node, p, q, l)
  /\ Linked(S, p, q, l)
  /\ Half(p, q, l) /\ Half(q, p, l)
  /\ Ends(p, l) /\ Ends(q, l)

JoinInv(S) ==
  /\ Calm /\ TodoOK /\ Stored(S)
  /\ \A p, q \in Pods, l \in Links : VirtualLink(p, q, l) => Pair(S, p, q, l)
-----------------------------------------------------------------------------
(* What the operations on the interfaces do to the two ends of a link.     *)

\* Removing an interface removes the other end of a pair, and nothing else.
LEMMA RemoveEffect ==
  ASSUME NEW d \in Devices, NEW p \in Pods, NEW l \in Links, NEW x \in Pods, NEW k \in Links
  PROVE  RemoveVethLink(d, p, l)[x][k] =
           IF k = l /\ (x = p \/ (d[p][l] = Veth /\ x = PeerOf[p][l])) THEN NoDev ELSE d[x][k]
  BY Zenon DEF RemoveVethLink, Devices

\* The two ends of a link play the same part.
LEMMA EitherEnd ==
  ASSUME NEW d, NEW at, NEW p \in Pods, NEW q \in Pods, NEW l \in Links
  PROVE  /\ VirtualLink(p, q, l) <=> VirtualLink(q, p, l)
         /\ InterfacesIn(d, at, p, q, l) <=> InterfacesIn(d, at, q, p, l)
  BY Zenon DEF VirtualLink, InterfacesIn

\* Removing interfaces, the ends of a pair together, keeps the interfaces in order.
LEMMA FewerInterfaces ==
  ASSUME NEW d, NEW e, NEW at, NEW p \in Pods, NEW q \in Pods, NEW l \in Links,
         InterfacesIn(d, at, p, q, l), \A x \in Pods : e[x][l] \in {NoDev, d[x][l]},
         d[p][l] = Veth => (e[p][l] = NoDev <=> e[q][l] = NoDev)
  PROVE  InterfacesIn(e, at, p, q, l)
  BY DEF InterfacesIn, NoDev, Veth

\* RemoveVethLink does.
LEMMA RemoveKeeps ==
  ASSUME NEW d \in Devices, NEW at, NEW p \in Pods, NEW q \in Pods, NEW l \in Links,
         VirtualLink(p, q, l), InterfacesIn(d, at, p, q, l), NEW x \in {p, q}, NEW y \in Pods
  PROVE  /\ InterfacesIn(RemoveVethLink(d, x, l), at, p, q, l)
         /\ RemoveVethLink(d, x, l)[x][l] = NoDev
         /\ RemoveVethLink(d, x, l)[y][l] \in {NoDev, d[y][l]}
         /\ y # x /\ d[y][l].kind = "vxlan" => RemoveVethLink(d, x, l)[y][l] = d[y][l]
<1> DEFINE e == RemoveVethLink(d, x, l)
<1>1. \A z \in Pods : e[z][l] = IF z = x \/ (d[x][l] = Veth /\ z = PeerOf[x][l]) THEN NoDev ELSE d[z][l]
  BY RemoveEffect
<1> HIDE DEF e
<1>2. PeerOf[p][l] = q /\ PeerOf[q][l] = p /\ p # q
  BY Zenon DEF VirtualLink
<1>3. d[p][l] = Veth <=> d[q][l] = Veth
  BY Zenon DEF InterfacesIn
<1>4. InterfacesIn(e, at, p, q, l)
  BY <1>1, <1>2, <1>3, FewerInterfaces
<1>5. ASSUME y # x, d[y][l].kind = "vxlan" PROVE e[y][l] = d[y][l]
  BY <1>1, <1>2, <1>3, <1>5 DEF Veth
<1>6. e[x][l] = NoDev /\ e[y][l] \in {NoDev, d[y][l]}
  BY Zenon, <1>1
<1> QED BY Zenon, <1>4, <1>5, <1>6 DEF e

\* What SetupVeth leaves: the interfaces in order, and a pair when it says so.
VethDone(r, p, q, l) ==
  /\ InterfacesIn(r.dev, node, p, q, l)
  /\ r.ok => node[p] = node[q] /\ r.dev[p][l] = Veth /\ r.dev[q][l] = Veth

\* SetupVeth makes a pair, keeps one that is there, or fails.
LEMMA VethKeeps ==
  ASSUME NEW d \in Devices, NEW n \in Nodes, NEW p \in Pods, NEW q \in Pods, NEW l \in Links,
         NEW g, NEW gq, NEW fault, VirtualLink(p, q, l), InterfacesIn(d, node, p, q, l)
  PROVE  VethDone(SetupVeth(d, n, p, g, q, gq, l, fault), p, q, l)
<1>r. PICK r : r = SetupVeth(d, n, p, g, q, gq, l, fault)
  BY Zenon
<1> SUFFICES /\ InterfacesIn(r.dev, node, p, q, l)
             /\ r.ok => node[p] = node[q] /\ r.dev[p][l] = Veth /\ r.dev[q][l] = Veth
  BY Zenon, <1>r DEF VethDone
<1> DEFINE iExist == IsExistLinkInNS(d, n, p, g, l)
           pExist == IsExistLinkInNS(d, n, q, gq, l)
           clean  == IF iExist THEN RemoveVethLink(d, p, l)
                     ELSE IF pExist THEN RemoveVethLink(d, q, l) ELSE d
<1>1. clean \in Devices /\ InterfacesIn(clean, node, p, q, l)
  BY Zenon, RemoveKeeps, RemoveVethLinkType
<1>2. CASE r = [ok |-> TRUE, dev |-> d] /\ iExist /\ pExist
  <2>1. node[p] = n /\ node[q] = n /\ d[p][l] # NoDev /\ d[q][l] # NoDev
    BY Zenon, <1>2 DEF IsExistLinkInNS, NsExists
  <2>2. d[p][l] = Veth /\ d[q][l] = Veth
    BY Zenon, <2>1 DEF InterfacesIn
  <2> QED BY <1>2, <2>1, <2>2
<1>3. CASE r.ok = FALSE /\ r.dev \in {d, clean}
  BY Zenon, <1>1, <1>3
<1>4. CASE /\ NsExists(n, p, g) /\ NsExists(n, q, gq)
           /\ r.dev = [clean EXCEPT ![p][l] = Veth, ![q][l] = Veth]
  <2> HIDE DEF clean
  <2>1. node[p] = n /\ node[q] = n /\ n # NoNode
    BY Zenon, <1>4, StoreAssumption DEF NsExists
  <2>2. r.dev[p][l] = Veth /\ r.dev[q][l] = Veth
    BY <1>1, <1>4 DEF Devices
  <2>3. \A x \in Pods \ {p, q} : r.dev[x][l] = clean[x][l]
    BY Zenon, <1>1, <1>4 DEF Devices
  <2>4. InterfacesIn(r.dev, node, p, q, l)
    BY <1>1, <2>1, <2>2, <2>3 DEF InterfacesIn, Veth
  <2> QED BY Zenon, <2>1, <2>2, <2>4
<1> QED BY Zenon, <1>r, <1>2, <1>3, <1>4 DEF SetupVeth

\* What SetupVxLan for p leaves of d: the interfaces in order, and the vxlan of q.
VxLanDone(e, d, p, q, l) ==
  /\ InterfacesIn(e, node, p, q, l)
  /\ d[q][l].kind = "vxlan" => e[q][l] = d[q][l]

\* SetupVxLan makes the vxlan of pod p, keeps one that is there, or fails.
LEMMA VxLanKeeps ==
  ASSUME NEW d \in Devices, NEW n \in Nodes, NEW p \in Pods, NEW q \in Pods, NEW l \in Links,
         NEW g, NEW v \in Nodes, NEW fault, VirtualLink(p, q, l), InterfacesIn(d, node, p, q, l)
  PROVE  VxLanDone(SetupVxLan(d, n, p, g, l, v, fault).dev, d, p, q, l)
<1>r. PICK r : r = SetupVxLan(d, n, p, g, l, v, fault)
  BY Zenon
<1> SUFFICES /\ InterfacesIn(r.dev, node, p, q, l)
             /\ d[q][l].kind = "vxlan" => r.dev[q][l] = d[q][l]
  BY Zenon, <1>r DEF VxLanDone
<1> DEFINE made == CreateOrUpdate(d, n, p, g, l, v, fault)
           clean == RemoveVethLink(d, p, l)
<1>0. r.dev = made.dev
  BY Zenon, <1>r DEF SetupVxLan
<1>1. /\ clean \in Devices /\ InterfacesIn(clean, node, p, q, l) /\ p # q /\ clean[p][l] = NoDev
      /\ d[q][l].kind = "vxlan" => clean[q][l] = d[q][l]
      /\ clean[q][l] \in {NoDev, d[q][l]}
  <2>1. p # q /\ p \in {p, q} /\ q \in Pods \ {p}
    BY Zenon DEF VirtualLink
  <2>2. clean \in Devices
    BY Zenon, RemoveVethLinkType
  <2>3. /\ InterfacesIn(clean, node, p, q, l) /\ clean[p][l] = NoDev
        /\ clean[q][l] \in {NoDev, d[q][l]}
        /\ d[q][l].kind = "vxlan" => clean[q][l] = d[q][l]
    BY <2>1, RemoveKeeps
  <2> QED BY Zenon, <2>1, <2>2, <2>3
<1>2. CASE made = [ok |-> FALSE, dev |-> d] \/ made = [ok |-> FALSE, dev |-> clean]
  BY <1>0, <1>1, <1>2
<1>3. CASE NsExists(n, p, g) /\ d[p][l] = VxLan(v) /\ made = [ok |-> TRUE, dev |-> d]
  BY <1>0, <1>3
<1>4. CASE /\ NsExists(n, p, g) /\ ~VniTaken(d, n, p, l)
           /\ made = [ok |-> TRUE, dev |-> [clean EXCEPT ![p][l] = VxLan(v)]]
  <2> HIDE DEF clean, made
  <2>1. r.dev[p][l] = VxLan(v) /\ \A x \in Pods \ {p} : r.dev[x][l] = clean[x][l]
    BY <1>0, <1>1, <1>4 DEF Devices
  <2>2. node[p] = n /\ n # NoNode
    BY Zenon, <1>4, StoreAssumption DEF NsExists
  <2>3. d[q][l].kind = "vxlan" => node[q] # n
    BY Zenon, <1>1, <1>4 DEF VniTaken
  <2>4. clean[q][l] # Veth
    BY <1>1 DEF InterfacesIn, NoDev, Veth
  <2>5. clean[q][l].kind = "vxlan" => node[q] # n
    BY <1>1, <2>3 DEF NoDev
  <2>6. VxLan(v) # Veth /\ VxLan(v) # NoDev /\ VxLan(v).kind = "vxlan"
    BY Zenon DEF VxLan, Veth, NoDev
  <2>7. InterfacesIn(r.dev, node, p, q, l)
    BY Zenon, <1>1, <2>1, <2>2, <2>4, <2>5, <2>6 DEF InterfacesIn
  <2> QED BY Zenon, <1>1, <1>4, <2>1, <2>7
<1> QED BY Zenon, <1>2, <1>3, <1>4 DEF CreateOrUpdate

\* What a success of SetupVxLan means.
VxLanThere(r, n, p, g, l, v) == r.ok => NsExists(n, p, g) /\ r.dev[p][l] = VxLan(v)

\* A vxlan that SetupVxLan has set up is there.
LEMMA VxLanMade ==
  ASSUME NEW d \in Devices, NEW n, NEW p \in Pods, NEW g, NEW l \in Links, NEW v, NEW fault
  PROVE  VxLanThere(SetupVxLan(d, n, p, g, l, v, fault), n, p, g, l, v)
<1> DEFINE clean == RemoveVethLink(d, p, l)
<1>1. clean \in Devices
  BY Zenon, RemoveVethLinkType
<1>2. [clean EXCEPT ![p][l] = VxLan(v)][p][l] = VxLan(v)
  <2> HIDE DEF clean
  <2> QED BY Zenon, <1>1 DEF Devices
<1> QED BY Zenon, <1>2 DEF VxLanThere, SetupVxLan, CreateOrUpdate

\* What RemoveLinkWithVni on node n leaves of d: the interfaces in order, and those of
\* the other nodes.
VniDone(e, d, n, p, q, l) ==
  /\ InterfacesIn(e, node, p, q, l)
  /\ \A y \in Pods : node[y] # n => e[y][l] = d[y][l]

\* RemoveLinkWithVni removes a vxlan of the node it is called on.
LEMMA VniKeeps ==
  ASSUME NEW d \in Devices, NEW n \in Nodes, NEW p \in Pods, NEW q \in Pods, NEW l \in Links,
         NEW x \in Pods, NEW g, InterfacesIn(d, node, p, q, l)
  PROVE  VniDone(RemoveLinkWithVni(d, n, x, g, l), d, n, p, q, l)
<1>e. PICK e : e = RemoveLinkWithVni(d, n, x, g, l)
  BY Zenon
<1> SUFFICES /\ InterfacesIn(e, node, p, q, l)
             /\ \A y \in Pods : node[y] # n => e[y][l] = d[y][l]
  BY Zenon, <1>e DEF VniDone
<1>1. CASE e = d
  BY Zenon, <1>1
<1>2. CASE NsExists(n, x, g) /\ d[x][l].kind = "vxlan" /\ e = [d EXCEPT ![x][l] = NoDev]
  <2>1. \A y \in Pods : e[y][l] = IF y = x THEN NoDev ELSE d[y][l]
    BY Zenon, <1>2 DEF Devices
  <2>2. d[x][l] # Veth /\ node[x] = n
    BY <1>2 DEF Veth, NsExists
  <2>3. InterfacesIn(e, node, p, q, l)
    <3>1. d[p][l] = Veth <=> d[q][l] = Veth
      BY Zenon DEF InterfacesIn
    <3>2. d[p][l] = Veth => (e[p][l] = NoDev <=> e[q][l] = NoDev)
      BY Zenon, <2>1, <2>2, <3>1
    <3> QED BY Zenon, <2>1, <3>2, FewerInterfaces
  <2> QED BY Zenon, <2>1, <2>2, <2>3
<1> QED BY Zenon, <1>e, <1>1, <1>2 DEF RemoveLinkWithVni

\* e has the interfaces of d but for those of link k.
ButFor(e, d, k) == \A l \in Links \ {k}, x \in Pods : e[x][l] = d[x][l]

\* The operations of one link leave the others alone: SetupVeth ...
LEMMA OtherThanVeth ==
  ASSUME NEW d \in Devices, NEW n, NEW p \in Pods, NEW g, NEW q \in Pods, NEW gq, NEW k \in Links,
         NEW fault
  PROVE  ButFor(SetupVeth(d, n, p, g, q, gq, k, fault).dev, d, k)
<1> SUFFICES ASSUME NEW l \in Links \ {k}, NEW x \in Pods
             PROVE  SetupVeth(d, n, p, g, q, gq, k, fault).dev[x][l] = d[x][l]
  BY Zenon DEF ButFor
<1> DEFINE clean == IF IsExistLinkInNS(d, n, p, g, k) THEN RemoveVethLink(d, p, k)
                    ELSE IF IsExistLinkInNS(d, n, q, gq, k) THEN RemoveVethLink(d, q, k) ELSE d
<1>1. clean \in Devices /\ clean[x][l] = d[x][l]
  BY RemoveEffect, RemoveVethLinkType, SMTT(30)
<1>2. [clean EXCEPT ![p][k] = Veth, ![q][k] = Veth][x][l] = d[x][l]
  <2> HIDE DEF clean
  <2> QED BY Zenon, <1>1 DEF Devices
<1> QED BY Zenon, <1>1, <1>2 DEF SetupVeth

\* ... SetupVxLan ...
LEMMA OtherThanVxLan ==
  ASSUME NEW d \in Devices, NEW n, NEW p \in Pods, NEW g, NEW k \in Links, NEW v, NEW fault
  PROVE  ButFor(SetupVxLan(d, n, p, g, k, v, fault).dev, d, k)
<1> SUFFICES ASSUME NEW l \in Links \ {k}, NEW x \in Pods
             PROVE  SetupVxLan(d, n, p, g, k, v, fault).dev[x][l] = d[x][l]
  BY Zenon DEF ButFor
<1> DEFINE clean == RemoveVethLink(d, p, k)
<1>1. clean \in Devices /\ clean[x][l] = d[x][l]
  BY RemoveEffect, RemoveVethLinkType
<1>2. [clean EXCEPT ![p][k] = VxLan(v)][x][l] = d[x][l]
  <2> HIDE DEF clean
  <2> QED BY Zenon, <1>1 DEF Devices
<1> QED BY Zenon, <1>1, <1>2 DEF SetupVxLan, CreateOrUpdate

\* ... and RemoveLinkWithVni.
LEMMA OtherThanVni ==
  ASSUME NEW d \in Devices, NEW n, NEW p \in Pods, NEW g, NEW k \in Links
  PROVE  ButFor(RemoveLinkWithVni(d, n, p, g, k), d, k)
  BY Zenon DEF ButFor, RemoveLinkWithVni, Devices

\* The first link of a list, and the links after it.
LEMMA HasTail ==
  ASSUME NEW links \in Seq(Links), links # <<>>, NEW l
  PROVE  Has(links, l) <=> Head(links) = l \/ Has(Tail(links), l)
<1>1. /\ Tail(links) \in Seq(Links) /\ Len(Tail(links)) = Len(links) - 1 /\ Len(links) \in Nat \ {0}
      /\ \A i \in 1 .. Len(links) - 1 : Tail(links)[i] = links[i + 1]
      /\ Head(links) = links[1]
  OBVIOUS
<1>2. ASSUME NEW i \in 1 .. Len(links), links[i] = l, i # 1 PROVE Has(Tail(links), l)
  <2>1. i - 1 \in 1 .. Len(Tail(links)) /\ Tail(links)[i - 1] = l
    BY <1>1, <1>2
  <2> QED BY Zenon, <2>1 DEF Has
<1>3. ASSUME NEW i \in 1 .. Len(Tail(links)), Tail(links)[i] = l PROVE Has(links, l)
  <2>1. i + 1 \in 1 .. Len(links) /\ links[i + 1] = l
    BY <1>1, <1>3
  <2> QED BY Zenon, <2>1 DEF Has
<1>4. Head(links) = l => Has(links, l)
  <2>1. 1 \in 1 .. Len(links)
    BY <1>1
  <2> QED BY Zenon, <1>1, <2>1 DEF Has
<1>5. Has(links, l) => Head(links) = l \/ Has(Tail(links), l)
  BY Zenon, <1>1, <1>2 DEF Has
<1>6. Has(Tail(links), l) => Has(links, l)
  BY Zenon, <1>3 DEF Has
<1> QED BY Zenon, <1>4, <1>5, <1>6

-----------------------------------------------------------------------------
(* The two ends of a link, when a step concerns neither of them.           *)

\* When p has not been through l and waits for no daemon, little is to be shown.
LEMMA PairOpen ==
  ASSUME NEW S \in BOOLEAN, NEW p \in Pods, NEW q \in Pods, NEW l \in Links, InterfacesIn(dev', node', p, q, l),
         ~Through(p, l)', ~Halfway(p, l)', Ends(p, l)', Ends(q, l)'
  PROVE  Pair(S, p, q, l)'
  BY Zenon DEF Pair, Linked, Half

\* A step that takes pod r no further on link l and changes nothing of it there.
EndKept(r, l) ==
  /\ dev'[r][l] = dev[r][l] /\ miss'[r][l] = miss[r][l] /\ node'[r] = node[r] /\ start'[r] = start[r]
  /\ Through(r, l)' => Through(r, l)
  /\ Halfway(r, l)' => Halfway(r, l) /\ peer'[Cni(r)] = peer[Cni(r)]
  /\ Ends(r, l)'

\* A step that concerns neither end.
LEMMA PairKept ==
  ASSUME NEW S \in BOOLEAN, NEW p \in Pods, NEW q \in Pods, NEW l \in Links, Pair(S, p, q, l),
         InterfacesIn(dev', node', p, q, l), EndKept(p, l), EndKept(q, l)
  PROVE  Pair(S, p, q, l)'
<1>1. PlaceNow(p)' = PlaceNow(p) /\ PlaceNow(q)' = PlaceNow(q)
  BY Zenon DEF PlaceNow, EndKept
<1>2. Joined(p, q, l)' <=> Joined(p, q, l)
  BY Zenon DEF Joined, EndKept
<1>3. Linked(S, p, q, l)'
  BY Zenon, <1>2 DEF Pair, Linked, EndKept
<1>4. Half(p, q, l)' /\ Half(q, p, l)'
  BY Zenon, <1>1 DEF Pair, Half, EndKept
<1> QED BY Zenon, <1>3, <1>4 DEF Pair, EndKept

\* What a handler that does not move contributes to the pairs of its pod.
LEMMA SameEnd ==
  ASSUME NEW p \in Pods, NEW l \in Links, Ends(p, l),
         sbx'[p] = sbx[p], pc'[Cni(p)] = pc[Cni(p)], todo'[Cni(p)] = todo[Cni(p)],
         upd'[Cni(p)] = upd[Cni(p)], peer'[Cni(p)] = peer[Cni(p)], node'[p] = node[p]
  PROVE  /\ Through(p, l)' <=> Through(p, l)
         /\ Halfway(p, l)' <=> Halfway(p, l)
         /\ Ends(p, l)'
<1>1. Rest(p)' = Rest(p) /\ Cur(Cni(p))' = Cur(Cni(p))
  BY Zenon DEF Rest, Cur
<1>2. Through(p, l)' <=> Through(p, l)
  BY Zenon, <1>1 DEF Through
<1>3. Halfway(p, l)' <=> Halfway(p, l)
  BY Zenon, <1>1 DEF Halfway
<1>4. Ends(p, l)'
  BY Zenon, <1>1 DEF Ends
<1> QED BY Zenon, <1>2, <1>3, <1>4

\* Only the handlers of the kubelet's calls run.
LEMMA CniRuns ==
  ASSUME Inv, Calm, NEW h \in Handlers, HandlerStep(h) \/ LockStep(h)
  PROVE  /\ h = Cni(h[1]) /\ h[1] \in Pods /\ sbx[h[1]] \in {"adding", "deleting"}
         /\ At(h) = node[h[1]] /\ node[h[1]] \in Nodes /\ pc[h] \in Add \cup Del
<1>1. pc[h] \in Add \cup Del /\ pc[h] # "idle"
  BY Zenon, LoopSteps DEF Add, Del
<1>2. h[1] \in Pods /\ h = <<h[1], h[2]>> /\ h[2] \in {"cni", "ctl"}
  BY Zenon, HandlerFacts
<1>3. h = Cni(h[1])
  BY Zenon, <1>1, <1>2 DEF Calm, Cni, Ctl
<1>4. At(h) = node[h[1]] /\ At(h) \in Nodes
  BY Zenon, <1>1, <1>3, HandlerFacts DEF At, Cni
<1>5. SandboxOK(h[1])
  BY Zenon, <1>2 DEF Inv, HandlersOK
<1> QED BY Zenon, <1>1, <1>2, <1>3, <1>4, <1>5 DEF SandboxOK

\* A step of a handler touches the interfaces of the link it works on, and only
\* when it sets the pod up: DestroyPod, which has emptied the namespace, finds none.
LEMMA DevSteps ==
  ASSUME Inv, Calm, TodoOK, NEW h \in Handlers, HandlerStep(h) \/ LockStep(h)
  PROVE  \/ UNCHANGED dev
         \/ /\ todo[h] # <<>> /\ pc[h] \in Add
            /\ \A l \in Links \ {Cur(h)}, x \in Pods : dev'[x][l] = dev[x][l]
<1>t. dev \in Devices /\ h[1] \in Pods /\ (todo[h] # <<>> => Cur(h) \in Links)
  BY Zenon, HandlerFacts DEF Inv, Typed, DevTypeOK, Devices
<1>s. pc[h] \notin Simple => todo[h] # <<>>
  BY Zenon, HandlerFacts
<1>1. CASE AddLinkMacVlan(h)
  <2>1. \/ UNCHANGED dev
        \/ dev' = [dev EXCEPT ![h[1]][Cur(h)] = MacVlan]
    BY Zenon, <1>1 DEF AddLinkMacVlan
  <2>2. todo[h] # <<>> /\ pc[h] \in Add
    BY Zenon, <1>1 DEF AddLinkMacVlan, AddingLink, Add
  <2> QED BY <1>t, <2>1, <2>2 DEF Devices
<1>2. CASE PlumbVeth(h)
  <2>1. todo[h] # <<>> /\ pc[h] \in Add /\ Peer(h) \in Pods
    BY Zenon, <1>2, <1>s DEF PlumbVeth, Simple, Add, Inv, HandlersOK, HandlerOK, Plumbing
  <2>2. PICK fault \in Faults(Cur(h)) :
          dev' = SetupVeth(dev, At(h), h[1], loc[h].gen, Peer(h), peer[h].gen, Cur(h), fault).dev
    BY Zenon, <1>2 DEF PlumbVeth, PlumbVethWith
  <2>3. ButFor(dev', dev, Cur(h))
    BY Zenon, <1>t, <2>1, <2>2, OtherThanVeth
  <2> QED BY Zenon, <2>1, <2>3 DEF ButFor
<1>3. CASE PlumbVxLan(h)
  <2>1. todo[h] # <<>> /\ pc[h] \in Add
    BY Zenon, <1>3, <1>s DEF PlumbVxLan, Simple, Add
  <2>2. PICK fault \in Faults(Cur(h)) :
          dev' = SetupVxLan(dev, At(h), h[1], loc[h].gen, Cur(h), peer[h].node, fault).dev
    BY Zenon, <1>3 DEF PlumbVxLan, PlumbVxLanWith
  <2>3. ButFor(dev', dev, Cur(h))
    BY Zenon, <1>t, <2>1, <2>2, OtherThanVxLan
  <2> QED BY Zenon, <2>1, <2>3 DEF ButFor
<1>4. CASE UpdateSetup(h)
  <2>1. pc[h] = "rpc" /\ todo[h] # <<>> /\ pc[h] \in Add
    BY Zenon, <1>4, <1>s DEF UpdateSetup, Simple, Add, Inv, HandlersOK, HandlerOK
  <2>2. UpdPod(h) \in Pods /\ UpdNode(h) \in Nodes
    BY Zenon, <1>t, <2>1, HandlerFacts DEF UpdPod, UpdNode, Inv, HandlersOK, HandlerOK
  <2>3. PICK fault \in Faults(Cur(h)) : UpdateSetupWith(h, fault)
    BY Zenon, <1>4 DEF UpdateSetup
  <2> DEFINE ns == vxm[UpdNode(h)][Cur(h)]
             other == ns # NoNs /\ ns # <<UpdPod(h), UpdGen(h)>>
             d == IF other THEN RemoveLinkWithVni(dev, UpdNode(h), ns[1], ns[2], Cur(h)) ELSE dev
  <2>4. other => ns[1] \in Pods
    <3>1. ns \in {NoNs} \cup (Pods \X Nat)
      BY Zenon, <1>t, <2>1, <2>2, LinkTypes
    <3> QED BY Zenon, <3>1
  <2>5. d \in Devices /\ ButFor(d, dev, Cur(h))
    <3>1. other => d \in Devices /\ ButFor(d, dev, Cur(h))
      BY Zenon, <1>t, <2>1, <2>4, RemoveLinkWithVniType, OtherThanVni
    <3> QED BY Zenon, <1>t, <3>1 DEF ButFor
  <2>6. dev' = SetupVxLan(d, UpdNode(h), UpdPod(h), UpdGen(h), Cur(h), UpdVtep(h), fault).dev
    BY Zenon, <2>3 DEF UpdateSetupWith
  <2> HIDE DEF d
  <2>7. ButFor(dev', d, Cur(h))
    BY Zenon, <1>t, <2>1, <2>2, <2>5, <2>6, OtherThanVxLan
  <2> QED BY Zenon, <2>1, <2>5, <2>7 DEF ButFor
<1>5. CASE DelLinkRemove(h)
  <2>1. h = Cni(h[1]) /\ sbx[h[1]] = "deleting"
    <3>1. pc[h] \in Del
      BY Zenon, <1>5 DEF DelLinkRemove, Del
    <3> QED BY Zenon, <1>5, <3>1, CniRuns DEF TodoOK
  <2>2. loc[h] = NoPlace
    BY Zenon, <1>t, <2>1 DEF Inv, HandlersOK, SandboxOK
  <2>3. ~IsExistLinkInNS(dev, At(h), h[1], loc[h].gen, Cur(h))
    BY <2>2 DEF NoPlace, IsExistLinkInNS, NsExists
  <2> QED BY Zenon, <1>5, <2>3 DEF DelLinkRemove
<1>6. CASE LockStep(h)
  BY Zenon, <1>6 DEF LockStep, LockForVeth, LockForVxLan, UpdateLock
<1>7. CASE \/ AddLinksDone(h) \/ AddLinkError(h) \/ AddLinkPhysical(h) \/ AddLinkSkip(h) \/ AddLinkAlive(h)
           \/ CallUpdateRemote(h) \/ UpdateReturns(h) \/ UpdateDone(h)
  BY Zenon, <1>7 DEF AddLinksDone, AddLinkError, AddLinkPhysical, AddLinkSkip, AddLinkAlive,
              CallUpdateRemote, UpdateReturns, UpdateDone
<1>8. CASE DelLinksDone(h) \/ DelLinkError(h) \/ DelLinkGet(h) \/ DelLinkDelete(h)
  BY Zenon, <1>8 DEF DelLinksDone, DelLinkError, DelLinkGet, DelLinkDelete
<1> QED BY Zenon, <1>1, <1>2, <1>3, <1>4, <1>5, <1>6, <1>7, <1>8 DEF HandlerStep
\* A mark is made for the link worked on.
LEMMA MissSteps ==
  ASSUME Inv, NEW h \in Handlers, HandlerStep(h) \/ LockStep(h), NEW x \in Pods, NEW l \in Links,
         miss'[x][l] # miss[x][l]
  PROVE  AddLinkSkip(h) /\ x = h[1] /\ l = Cur(h)
<1>1. CASE AddLinkSkip(h)
  <2>1. miss' \in {miss, [miss EXCEPT ![h[1]][Cur(h)] = "stale"], [miss EXCEPT ![h[1]][Cur(h)] = "fresh"]}
    BY Zenon, <1>1 DEF AddLinkSkip
  <2>2. miss \in [Pods -> [Links -> {"no", "fresh", "stale"}]]
    BY Zenon DEF Inv, Typed
  <2> QED BY <1>1, <2>1, <2>2
<1>2. CASE ~AddLinkSkip(h)
  <2>1. miss' = miss
    BY Zenon, <1>2 DEF HandlerStep, LockStep, LockForVeth, LockForVxLan, UpdateLock, UpdateStep,
                AddLinksDone, AddLinkError, AddLinkMacVlan, AddLinkPhysical, AddLinkAlive,
                PlumbVeth, PlumbVethWith, PlumbVxLan, PlumbVxLanWith, CallUpdateRemote, UpdateReturns,
                UpdateSetup, UpdateSetupWith, UpdateDone,
                DelLinksDone, DelLinkError, DelLinkRemove, DelLinkGet, DelLinkDelete
  <2> QED BY Zenon, <2>1
<1> QED BY Zenon, <1>1, <1>2

\* The handlers of other pods do not work on the link of p and q.
LEMMA StrangerSteps ==
  ASSUME NEW S \in BOOLEAN, Inv, Undisturbed, Calm, TodoOK, NEW p \in Pods, NEW q \in Pods, NEW l \in Links,
         VirtualLink(p, q, l), Pair(S, p, q, l),
         NEW h \in Handlers, HandlerStep(h) \/ LockStep(h), h # Cni(p), h # Cni(q)
  PROVE  Pair(S, p, q, l)'
<1>1. h = Cni(h[1]) /\ h[1] \in Pods /\ h[1] # p /\ h[1] # q
  BY Zenon, CniRuns
<1>2. ASSUME todo[h] # <<>>, Cur(h) = l PROVE FALSE
  <2>1. todo[h] \in Seq(Links) /\ Head(todo[h]) = l
    BY Zenon, <1>2 DEF Cur, Inv, Typed
  <2>2. Has(LinksOf[h[1]], l)
    <3>1. 1 \in 1 .. Len(todo[h]) /\ todo[h][1] = l
      BY <1>2, <2>1
    <3> QED BY Zenon, <1>1, <3>1 DEF TodoOK
  <2>3. Has(LinksOf[p], l) /\ PeerOf[p][l] = q
    BY Zenon DEF VirtualLink, Has
  <2> QED BY Zenon, <1>1, <2>2, <2>3 DEF Undisturbed, Paired
<1>3. \A x \in Pods : dev'[x][l] = dev[x][l]
  BY Zenon, <1>2, DevSteps
<1>4. UNCHANGED <<node, start>>
  BY Zenon, LoopSteps DEF elsewhere
<1>5. ASSUME NEW r \in {p, q} PROVE miss'[r][l] = miss[r][l]
  BY Zenon, <1>1, MissSteps
<1>6. ASSUME NEW r \in {p, q} PROVE EndKept(r, l)
  <2>1. Cni(r) \in Handlers \ {h} /\ Cni(r)[1] = r /\ Cni(r)[2] = "cni" /\ Ends(r, l)
    BY Zenon DEF Cni, Handlers, Pair
  <2>2. /\ sbx'[r] = sbx[r] /\ pc'[Cni(r)] = pc[Cni(r)] /\ todo'[Cni(r)] = todo[Cni(r)]
        /\ upd'[Cni(r)] = upd[Cni(r)] /\ peer'[Cni(r)] = peer[Cni(r)]
    BY <2>1, OthersRest
  <2> QED BY Zenon, <1>3, <1>4, <1>5, <2>1, <2>2, SameEnd DEF EndKept
<1>7. InterfacesIn(dev', node', p, q, l)
  BY Zenon, <1>3, <1>4 DEF Pair, InterfacesIn
<1> QED BY Zenon, <1>6, <1>7, PairKept

\* p works on another link, or has done them all.
LEMMA OtherLinkSteps ==
  ASSUME NEW S \in BOOLEAN, Inv, Inv', Undisturbed, Calm, TodoOK, NEW p \in Pods, NEW q \in Pods, NEW l \in Links,
         VirtualLink(p, q, l), Pair(S, p, q, l),
         NEW h \in Handlers, HandlerStep(h) \/ LockStep(h), h = Cni(p),
         todo[h] = <<>> \/ Cur(h) # l
  PROVE  Pair(S, p, q, l)'
<1>t. /\ todo \in [Handlers -> Seq(Links)] /\ upd \in [Handlers -> Upd] /\ pc \in [Handlers -> PC]
      /\ sbx \in [Pods -> Sandbox] /\ h[1] = p /\ h[2] = "cni"
      /\ upd[h] # "none" => todo[h] # <<>>
      /\ upd'[h] # "none" => pc'[h] = "rpc" /\ todo'[h] # <<>>
  <2>1. upd[h] # "none" => pc[h] = "rpc"
    BY Zenon DEF Inv, HandlersOK, HandlerOK
  <2>2. upd'[h] # "none" => pc'[h] = "rpc"
    BY Zenon DEF Inv, HandlersOK, HandlerOK
  <2>3. /\ pc[h] \notin Simple => todo[h] # <<>>
        /\ pc'[h] \notin Simple => todo'[h] # <<>>
    BY Zenon DEF Inv, HandlersOK, HandlerOK
  <2> QED BY Zenon, <2>1, <2>2, <2>3 DEF Inv, Typed, Cni, Simple
<1>1. \A x \in Pods : dev'[x][l] = dev[x][l]
  BY Zenon, DevSteps
<1>2. UNCHANGED <<node, start>> /\ p # q
  BY Zenon, LoopSteps DEF elsewhere, VirtualLink
<1>3. ASSUME NEW r \in {p, q} PROVE miss'[r][l] = miss[r][l]
  <2>1. AddLinkSkip(h) => todo[h] # <<>>
    BY Zenon DEF AddLinkSkip, AddingLink
  <2> QED BY <1>t, <2>1, MissSteps
<1>4. Has(Rest(p), l) <=> Has(todo[h], l)
  BY Zenon, <1>t, HasTail DEF Rest, Cur
<1>5. sbx[p] \in {"adding", "deleting"} /\ pc[h] \notin {"read", "write", "fin"}
  <2>1. pc[h] \in Add \cup Del /\ sbx[h[1]] \in {"adding", "deleting"}
    BY Zenon, CniRuns
  <2> QED BY Zenon, <1>t, <2>1 DEF Add, Del
<1>e. ~Has(<<>>, l)
  BY DEF Has
<1>m. Moves(h)
  BY Zenon, HandlerMoves
<1>6. Through(p, l)' => Through(p, l)
  <2>1. CASE UNCHANGED <<todo, sbx>> /\ pc'[h] \in Add \cup Del
    <3>1. Has(Rest(p), l)' <=> Has(todo[h], l)
      BY Zenon, <1>t, <2>1, HasTail DEF Rest, Cur
    <3> QED BY Zenon, <1>4, <1>5, <2>1, <3>1 DEF Through
  <2>2. CASE todo[h] # <<>> /\ \E label \in {"add", "del"} : NextLink(h, label)
    <3>1. todo'[h] = Tail(todo[h]) /\ upd'[h] = "none" /\ sbx' = sbx
      BY Zenon, <1>t, <2>2 DEF NextLink
    <3>2. Has(Rest(p), l)' <=> Has(todo[h], l)
      BY <1>t, <2>2, <3>1, HasTail DEF Rest, Cur
    <3> QED BY Zenon, <1>4, <1>5, <3>1, <3>2 DEF Through
  <2>3. CASE Return(h, TRUE) /\ todo[h] = <<>>
    <3>1. sbx'[p] = IF sbx[p] = "adding" THEN "up" ELSE "deleted"
      BY Zenon, <1>t, <2>3 DEF Return
    <3> QED BY Zenon, <1>4, <1>5, <1>e, <2>3, <3>1 DEF Through
  <2>4. CASE Return(h, FALSE)
    <3>1. sbx'[p] = "failed"
      BY Zenon, <1>t, <2>4 DEF Return
    <3> QED BY Zenon, <3>1 DEF Through
  <2> QED BY Zenon, <1>m, <2>1, <2>2, <2>3, <2>4 DEF Moves
<1>7. /\ ~Halfway(p, l)'
      /\ pc'[h] \in {"vxlock", "vx", "vxadd", "rpc"} => todo'[h] = todo[h] /\ todo[h] # <<>>
  <2>1. pc'[h] \in {"vxlock", "vx", "vxadd", "rpc"} => todo'[h] = todo[h]
    BY Zenon, <1>t, <1>m DEF Moves, NextLink, Return
  <2>2. pc'[h] \in {"vxlock", "vx", "vxadd", "rpc"} => todo'[h] # <<>>
    BY Zenon DEF Inv, HandlersOK, HandlerOK, Simple
  <2> QED BY Zenon, <2>1, <2>2 DEF Halfway, Cur
<1>8. Ends(p, l)'
  BY Zenon, <1>7 DEF Ends, Cur
<1>9. EndKept(q, l)
  <2>1. Cni(q) \in Handlers \ {h} /\ Cni(q)[1] = q /\ Cni(q)[2] = "cni" /\ Ends(q, l)
    BY Zenon, <1>2 DEF Cni, Handlers, Pair
  <2>2. /\ sbx'[q] = sbx[q] /\ pc'[Cni(q)] = pc[Cni(q)] /\ todo'[Cni(q)] = todo[Cni(q)]
        /\ upd'[Cni(q)] = upd[Cni(q)] /\ peer'[Cni(q)] = peer[Cni(q)]
    BY <2>1, OthersRest
  <2> QED BY Zenon, <1>1, <1>2, <1>3, <2>1, <2>2, SameEnd DEF EndKept
<1>10. InterfacesIn(dev', node', p, q, l)
  BY Zenon, <1>1, <1>2 DEF Pair, InterfacesIn
<1>11. EndKept(p, l)
  BY Zenon, <1>1, <1>2, <1>3, <1>6, <1>7, <1>8 DEF EndKept
<1> QED BY Zenon, <1>9, <1>10, <1>11, PairKept
-----------------------------------------------------------------------------
(* The steps of the handler of p on the link of p and q.                   *)

\* A pod that has written its place is alive in the API server.
LEMMA AliveKnown ==
  ASSUME Inv, StatusInv, Calm, NEW q \in Pods,
         sbx[q] = "up" \/ (sbx[q] = "adding" /\ pc[Cni(q)] \notin {"read", "write"})
  PROVE  Alive(Current(q)) /\ PlaceOf(Current(q)) = PlaceNow(q) /\ Alive(PlaceNow(q))
<1>1. SandboxOK(q) /\ StatusOf(q) /\ ~unread[q] /\ node \in [Pods -> Nodes \cup {NoNode}]
  BY Zenon DEF Inv, HandlersOK, StatusInv, Calm, Typed, DevTypeOK
<1>2. node[q] # NoNode /\ start[q] # 0
  BY Zenon, <1>1 DEF SandboxOK
<1>3. PlaceOf(Current(q)) = PlaceNow(q)
  BY Zenon, <1>1 DEF StatusOf, SandboxOK, PlaceNow
<1> QED BY Zenon, <1>2, <1>3 DEF PlaceOf, PlaceNow, Alive

\* What is known of the handler h of p when it works on the link l of p and q.
WorksOn(h, p, q, l) ==
  /\ h[1] = p /\ h[2] = "cni" /\ Peer(h) = q /\ At(h) = node[p] /\ node[p] \in Nodes /\ p # q
  /\ pc[h] \in Add => sbx[p] = "adding" /\ loc[h] = PlaceNow(p)
  /\ pc[h] \in Del => sbx[p] = "deleting" /\ pc[h] \notin Add
  /\ pc[h] \in Add \cup Del
  /\ todo[h] \in Seq(Links) /\ Has(todo[h], l)
  /\ UNCHANGED <<node, start>> /\ dev \in Devices

\* It holds whenever that handler takes a step.
LEMMA AtWork ==
  ASSUME Inv, Calm, TodoOK, NEW p \in Pods, NEW q \in Pods, NEW l \in Links, VirtualLink(p, q, l),
         NEW h \in Handlers, h = Cni(p), HandlerStep(h) \/ LockStep(h), todo[h] # <<>>, Cur(h) = l
  PROVE  WorksOn(h, p, q, l)
<1>1. h[1] = p /\ h[2] = "cni" /\ Peer(h) = q /\ p # q
  BY Zenon DEF Cni, Peer, VirtualLink
<1>2. At(h) = node[p] /\ node[p] \in Nodes /\ sbx[p] \in {"adding", "deleting"} /\ pc[h] \in Add \cup Del
  BY Zenon, <1>1, CniRuns
<1>3. SandboxOK(p)
  BY Zenon DEF Inv, HandlersOK
<1>4. pc[h] \in Add => sbx[p] = "adding" /\ loc[h] = PlaceNow(p)
  BY Zenon, <1>2, <1>3 DEF TodoOK, SandboxOK, PlaceNow
<1>5. pc[h] \in Del => sbx[p] = "deleting" /\ pc[h] \notin Add
  BY Zenon, <1>2 DEF TodoOK, Add, Del
<1>6. todo[h] \in Seq(Links) /\ Has(todo[h], l)
  <2>1. todo[h] \in Seq(Links)
    BY Zenon DEF Inv, Typed
  <2> QED BY Zenon, <2>1, HasTail DEF Cur
<1>7. UNCHANGED <<node, start>> /\ dev \in Devices
  BY Zenon, LoopSteps DEF elsewhere, Inv, Typed, DevTypeOK, Devices
<1> QED BY Zenon, <1>1, <1>2, <1>4, <1>5, <1>6, <1>7 DEF WorksOn

\* The other end, when p's handler moves.
LEMMA OtherEnd ==
  ASSUME Inv, NEW p \in Pods, NEW q \in Pods, NEW l \in Links, p # q, Ends(q, l),
         NEW h \in Handlers, h = Cni(p), HandlerStep(h) \/ LockStep(h)
  PROVE  /\ Through(q, l)' <=> Through(q, l)
         /\ Halfway(q, l)' <=> Halfway(q, l)
         /\ Ends(q, l)'
         /\ peer'[Cni(q)] = peer[Cni(q)] /\ miss'[q][l] = miss[q][l]
         /\ dev'[q][l] = dev[q][l] => EndKept(q, l)
<1>1. Cni(q) \in Handlers \ {h} /\ Cni(q)[1] = q /\ Cni(q)[2] = "cni" /\ h[1] = p
  BY Zenon DEF Cni, Handlers
<1>2. /\ sbx'[q] = sbx[q] /\ pc'[Cni(q)] = pc[Cni(q)] /\ todo'[Cni(q)] = todo[Cni(q)]
      /\ upd'[Cni(q)] = upd[Cni(q)] /\ peer'[Cni(q)] = peer[Cni(q)]
  BY <1>1, OthersRest
<1>3. UNCHANGED <<node, start>>
  BY Zenon, LoopSteps DEF elsewhere
<1>4. miss'[q][l] = miss[q][l]
  BY Zenon, <1>1, MissSteps
<1>5. (Through(q, l)' <=> Through(q, l)) /\ (Halfway(q, l)' <=> Halfway(q, l)) /\ Ends(q, l)'
  BY Zenon, <1>2, <1>3, SameEnd
<1> QED BY Zenon, <1>2, <1>3, <1>4, <1>5 DEF EndKept

\* A step after which p is not through l and not waiting: it fails, has still to
\* plumb l, or is being destroyed.
LEMMA NotYet ==
  ASSUME NEW S \in BOOLEAN, Inv, Inv', NEW p \in Pods, NEW q \in Pods, NEW l \in Links, p # q, Pair(S, p, q, l),
         NEW h \in Handlers, h = Cni(p), HandlerStep(h) \/ LockStep(h), UNCHANGED node,
         InterfacesIn(dev', node, p, q, l),
         \/ sbx'[p] \in {"failed", "deleting", "deleted"} /\ pc'[h] \in Del \cup {"idle"}
         \/ /\ sbx'[p] = "adding" /\ pc'[h] \notin {"vxadd", "rpc"} /\ Has(todo'[h], l) /\ Ends(p, l)'
         \/ /\ sbx'[p] = "adding" /\ upd'[h] = "err" /\ Has(todo'[h], l) /\ Ends(p, l)'
  PROVE  Pair(S, p, q, l)'
<1>1. upd'[h] # "none" => pc'[h] = "rpc"
  BY Zenon DEF Inv, HandlersOK, HandlerOK
<1>2. ~Through(p, l)'
  <2>1. CASE sbx'[p] \in {"failed", "deleting", "deleted"}
    BY Zenon, <2>1 DEF Through
  <2>2. CASE sbx'[p] = "adding" /\ upd'[h] \notin {"setup", "ok"} /\ Has(todo'[h], l)
    <3>1. Rest(p)' = todo'[h]
      BY Zenon, <2>2 DEF Rest
    <3> QED BY Zenon, <2>2, <3>1 DEF Through
  <2>3. upd'[h] \notin {"setup", "ok"} \/ pc'[h] = "rpc"
    BY Zenon, <1>1
  <2> QED BY Zenon, <2>1, <2>2, <2>3
<1>3. ~Halfway(p, l)' /\ Ends(p, l)'
  BY Zenon, <1>1 DEF Halfway, Ends, Del
<1>4. Ends(q, l)'
  BY Zenon, OtherEnd DEF Pair
<1> QED BY Zenon, <1>2, <1>3, <1>4, PairOpen
\* The step that finds the peer absent.
LEMMA SkipStep ==
  ASSUME NEW S \in BOOLEAN, Inv, StatusInv, Calm, TodoOK, Stored(S),
         NEW p \in Pods, NEW q \in Pods, NEW l \in Links, VirtualLink(p, q, l), Pair(S, p, q, l),
         NEW h \in Handlers, h = Cni(p), AddLinkSkip(h), todo[h] # <<>>, Cur(h) = l
  PROVE  Pair(S, p, q, l)'
<1>0. HandlerStep(h) /\ ~Alive(getPod(At(h), Peer(h)).obj) /\ UNCHANGED dev
  BY Zenon DEF HandlerStep, AddLinkSkip
<1>1. /\ h[1] = p /\ h[2] = "cni" /\ Peer(h) = q /\ At(h) = node[p] /\ p # q /\ node[p] \in Nodes
      /\ UNCHANGED <<node, start>>
  <2>1. WorksOn(h, p, q, l)
    BY Zenon, <1>0, AtWork
  <2> QED BY Zenon, <2>1 DEF WorksOn
<1>2. /\ Through(q, l)' <=> Through(q, l)
      /\ Halfway(q, l)' <=> Halfway(q, l)
      /\ Ends(q, l)' /\ miss'[q][l] = miss[q][l]
  BY Zenon, <1>0, <1>1, OtherEnd DEF Pair
<1>3. pc'[h] = "add"
  BY Zenon DEF AddLinkSkip, NextLink, Inv, Typed
<1>4. ~Halfway(p, l)' /\ Ends(p, l)'
  BY Zenon, <1>3 DEF Halfway, Ends
<1>5. Alive(Current(q)) => miss'[p][l] = "stale"
  <2>1. miss \in [Pods -> [Links -> {"no", "fresh", "stale"}]]
    BY Zenon DEF Inv, Typed
  <2> QED BY Zenon, <1>1, <2>1 DEF AddLinkSkip
<1>6. Halfway(q, l) => sbx[q] = "adding"
  <2>1. SandboxOK(q)
    BY Zenon DEF Inv, HandlersOK
  <2> QED BY Zenon, <2>1 DEF Halfway, SandboxOK, TodoOK, Add
<1>7. Through(q, l) \/ Halfway(q, l) => Alive(Current(q)) /\ Alive(PlaceNow(q))
  <2>1. Through(q, l) \/ Halfway(q, l)
          => sbx[q] = "up" \/ (sbx[q] = "adding" /\ pc[Cni(q)] \notin {"read", "write"})
    BY Zenon, <1>6 DEF Through, Halfway
  <2> QED BY Zenon, <2>1, AliveKnown
<1>8. ~(S /\ node[p] = node[q] /\ Through(q, l))
  <2> SUFFICES ASSUME S, node[p] = node[q], Through(q, l) PROVE FALSE
    BY Zenon
  <2>1. store[node[q]][q].rv \in 1 .. Version(q) /\ OwnStore(q)
    BY Zenon, <1>1 DEF Stored
  <2>2. PlaceOf(store[node[q]][q].obj) = PlaceNow(q)
    BY Zenon, <2>1 DEF OwnStore, Through
  <2>3. getPod(At(h), Peer(h)) = store[node[q]][q]
    BY <1>1, <2>1 DEF getPod, InStore
  <2> QED BY Zenon, <1>0, <1>7, <2>2, <2>3 DEF PlaceOf, PlaceNow, Alive
<1>9. InterfacesIn(dev', node', p, q, l)
  BY Zenon, <1>0, <1>1 DEF Pair
<1>10. Linked(S, p, q, l)'
  BY Zenon, <1>1, <1>2, <1>5, <1>7, <1>8 DEF Linked
<1>11. Half(p, q, l)' /\ Half(q, p, l)'
  BY Zenon, <1>2, <1>4, <1>5, <1>7 DEF Half
<1> QED BY Zenon, <1>2, <1>4, <1>9, <1>10, <1>11 DEF Pair

\* SetupVeth in addLink.
LEMMA VethStep ==
  ASSUME NEW S \in BOOLEAN, Inv, Inv', Calm, TodoOK,
         NEW p \in Pods, NEW q \in Pods, NEW l \in Links, VirtualLink(p, q, l), Pair(S, p, q, l),
         NEW h \in Handlers, h = Cni(p), PlumbVeth(h), todo[h] # <<>>, Cur(h) = l
  PROVE  Pair(S, p, q, l)'
<1>0. HandlerStep(h) /\ pc[h] = "veth"
  BY Zenon DEF HandlerStep, PlumbVeth
<1>1. /\ h[1] = p /\ h[2] = "cni" /\ Peer(h) = q /\ At(h) = node[p] /\ p # q /\ node[p] \in Nodes
      /\ UNCHANGED <<node, start>> /\ sbx[p] = "adding" /\ dev \in Devices
  <2>1. WorksOn(h, p, q, l)
    BY Zenon, <1>0, AtWork
  <2> QED BY Zenon, <1>0, <2>1 DEF WorksOn, Add
<1>2. /\ Through(q, l)' <=> Through(q, l)
      /\ Halfway(q, l)' <=> Halfway(q, l)
      /\ Ends(q, l)' /\ peer'[Cni(q)] = peer[Cni(q)]
  BY Zenon, <1>0, <1>1, OtherEnd DEF Pair
<1>3. PICK fault \in Faults(Cur(h)) : PlumbVethWith(h, fault)
  BY Zenon DEF PlumbVeth
<1>4. PICK r : r = SetupVeth(dev, At(h), h[1], loc[h].gen, Peer(h), peer[h].gen, Cur(h), fault)
  BY Zenon
<1>5. dev' = r.dev /\ (IF r.ok THEN NextLink(h, "add") ELSE Return(h, FALSE))
  BY Zenon, <1>3, <1>4 DEF PlumbVethWith
<1>6. /\ InterfacesIn(dev', node, p, q, l)
      /\ r.ok => node[p] = node[q] /\ dev'[p][l] = Veth /\ dev'[q][l] = Veth
  <2>1. r = SetupVeth(dev, node[p], p, loc[h].gen, q, peer[h].gen, l, fault)
    BY Zenon, <1>1, <1>4
  <2>2. InterfacesIn(dev, node, p, q, l)
    BY Zenon DEF Pair
  <2>3. VethDone(SetupVeth(dev, node[p], p, loc[h].gen, q, peer[h].gen, l, fault), p, q, l)
    BY Zenon, <1>1, <2>2, VethKeeps
  <2> QED BY Zenon, <1>5, <2>1, <2>3 DEF VethDone
<1>7. CASE ~r.ok
  <2>1. sbx'[p] = "failed" /\ pc'[h] = "idle"
    BY <1>1, <1>5, <1>7, SMTT(30) DEF Return, Inv, Typed
  <2> QED BY Zenon, <1>0, <1>1, <1>6, <2>1, NotYet
<1>8. CASE r.ok
  <2>1. pc'[h] = "add"
    BY Zenon, <1>5, <1>8 DEF NextLink, Inv, Typed
  <2>2. ~Halfway(p, l)' /\ Ends(p, l)'
    BY Zenon, <2>1 DEF Halfway, Ends
  <2>3. Linked(S, p, q, l)'
    BY Zenon, <1>1, <1>6, <1>8 DEF Linked, Joined
  <2>4. Halfway(q, l) => peer[Cni(q)].node # node[p]
    BY Zenon, <1>6, <1>8 DEF Pair, Ends, Halfway
  <2>5. Half(q, p, l)'
    <3>1. Halfway(q, l)' => peer'[Cni(q)] # PlaceNow(p)'
      <4>1. PlaceNow(p)'.node = node[p]
        BY Zenon, <1>1 DEF PlaceNow
      <4> QED BY Zenon, <1>2, <2>4, <4>1
    <3> QED BY Zenon, <3>1 DEF Half
  <2>6. Half(p, q, l)'
    BY Zenon, <2>2 DEF Half
  <2> QED BY Zenon, <1>1, <1>2, <1>6, <2>2, <2>3, <2>5, <2>6 DEF Pair
<1> QED BY Zenon, <1>7, <1>8

\* SetupVxLan in addLink.
LEMMA VxLanStep ==
  ASSUME NEW S \in BOOLEAN, Inv, Inv', Calm, TodoOK,
         NEW p \in Pods, NEW q \in Pods, NEW l \in Links, VirtualLink(p, q, l), Pair(S, p, q, l),
         NEW h \in Handlers, h = Cni(p), PlumbVxLan(h), todo[h] # <<>>, Cur(h) = l
  PROVE  Pair(S, p, q, l)'
<1>0. HandlerStep(h) /\ pc[h] = "vx"
  BY Zenon DEF HandlerStep, PlumbVxLan
<1>1. /\ h[1] = p /\ h[2] = "cni" /\ Peer(h) = q /\ At(h) = node[p] /\ p # q /\ node[p] \in Nodes
      /\ UNCHANGED <<node, start>> /\ sbx[p] = "adding" /\ Has(todo[h], l) /\ dev \in Devices
  <2>1. WorksOn(h, p, q, l)
    BY Zenon, <1>0, AtWork
  <2> QED BY Zenon, <1>0, <2>1 DEF WorksOn, Add
<1>2. Ends(q, l)'
  BY Zenon, <1>0, <1>1, OtherEnd DEF Pair
<1>3. PICK fault \in Faults(Cur(h)) : PlumbVxLanWith(h, fault)
  BY Zenon DEF PlumbVxLan
<1>4. PICK r : r = SetupVxLan(dev, At(h), h[1], loc[h].gen, Cur(h), peer[h].node, fault)
  BY Zenon
<1>5. dev' = r.dev /\ (IF r.ok THEN Goto(h, "vxadd") ELSE Return(h, FALSE))
  BY Zenon, <1>3, <1>4 DEF PlumbVxLanWith
<1>6. peer[h].node \in Nodes /\ upd[h] = "none"
  BY Zenon, <1>0, <1>1 DEF Inv, HandlersOK, HandlerOK, Plumbing
<1>7. /\ InterfacesIn(dev', node, p, q, l)
      /\ r.ok => dev'[p][l] = VxLan(peer[h].node)
  <2>1. r = SetupVxLan(dev, node[p], p, loc[h].gen, l, peer[h].node, fault)
    BY Zenon, <1>1, <1>4
  <2>2. InterfacesIn(dev, node, p, q, l)
    BY Zenon DEF Pair
  <2>3. VxLanDone(SetupVxLan(dev, node[p], p, loc[h].gen, l, peer[h].node, fault).dev, dev, p, q, l)
    BY Zenon, <1>1, <1>6, <2>2, VxLanKeeps
  <2>4. r.ok => r.dev[p][l] = VxLan(peer[h].node)
    <3>1. VxLanThere(SetupVxLan(dev, node[p], p, loc[h].gen, l, peer[h].node, fault),
                     node[p], p, loc[h].gen, l, peer[h].node)
      BY Zenon, <1>1, VxLanMade
    <3> QED BY Zenon, <2>1, <3>1 DEF VxLanThere
  <2> QED BY Zenon, <1>5, <2>1, <2>3, <2>4 DEF VxLanDone
<1>8. CASE ~r.ok
  <2>1. sbx'[p] = "failed" /\ pc'[h] = "idle"
    BY <1>1, <1>5, <1>8, SMTT(30) DEF Return, Inv, Typed
  <2> QED BY Zenon, <1>0, <1>1, <1>7, <2>1, NotYet
<1>9. CASE r.ok
  <2>1. UNCHANGED <<peer, todo, upd, sbx>>
    BY Zenon, <1>5, <1>9 DEF Goto
  <2>2. Rest(p)' = todo[h]
    BY Zenon, <1>6, <2>1 DEF Rest
  <2>3. ~Through(p, l)'
    BY Zenon, <1>1, <2>1, <2>2 DEF Through
  <2>4. Linked(S, p, q, l)' /\ Half(q, p, l)'
    BY Zenon, <2>3 DEF Linked, Half
  <2>5. Half(p, q, l)'
    <3>1. PlaceNow(q)'.node = node'[q]
      BY Zenon DEF PlaceNow
    <3>2. peer'[Cni(p)] = PlaceNow(q)' => peer[h].node = node'[q]
      BY Zenon, <2>1, <3>1
    <3> QED BY Zenon, <1>7, <1>9, <3>2 DEF Half
  <2>6. Ends(p, l)'
    BY Zenon, <1>0, <1>1, <2>1 DEF Pair, Ends, Cur
  <2> QED BY Zenon, <1>1, <1>2, <1>7, <2>4, <2>5, <2>6 DEF Pair
<1> QED BY Zenon, <1>8, <1>9

\* Update sets the peer's end up.
LEMMA UpdateSetupStep ==
  ASSUME NEW S \in BOOLEAN, Inv, Inv', Calm, TodoOK,
         NEW p \in Pods, NEW q \in Pods, NEW l \in Links, VirtualLink(p, q, l), Pair(S, p, q, l),
         NEW h \in Handlers, h = Cni(p), UpdateSetup(h), todo[h] # <<>>, Cur(h) = l
  PROVE  Pair(S, p, q, l)'
<1>0. HandlerStep(h) /\ upd[h] = "locked" /\ pc[h] = "rpc"
  BY Zenon DEF HandlerStep, UpdateSetup, Inv, HandlersOK, HandlerOK
<1>1. /\ h[1] = p /\ h[2] = "cni" /\ Peer(h) = q /\ At(h) = node[p] /\ p # q /\ node[p] \in Nodes
      /\ UNCHANGED <<node, start>> /\ sbx[p] = "adding" /\ loc[h] = PlaceNow(p)
      /\ Has(todo[h], l) /\ dev \in Devices
  <2>1. WorksOn(h, p, q, l)
    BY Zenon, <1>0, AtWork
  <2> QED BY Zenon, <1>0, <2>1 DEF WorksOn, Add
<1>2. /\ Through(q, l)' <=> Through(q, l)
      /\ Ends(q, l)' /\ miss'[q][l] = miss[q][l]
  BY Zenon, <1>0, <1>1, OtherEnd DEF Pair
<1>3. PICK n, g : n = peer[h].node /\ g = peer[h].gen
  BY Zenon
<1>4. n \in Nodes /\ n # node[p]
  BY Zenon, <1>0, <1>1, <1>3 DEF Inv, HandlersOK, HandlerOK, Pair, Ends
<1>5. PICK fault \in Faults(Cur(h)) : UpdateSetupWith(h, fault)
  BY Zenon DEF UpdateSetup
<1>6. PICK d : d = IF vxm[n][l] # NoNs /\ vxm[n][l] # <<q, g>>
                   THEN RemoveLinkWithVni(dev, n, vxm[n][l][1], vxm[n][l][2], l) ELSE dev
  BY Zenon
<1>7. PICK r : r = SetupVxLan(d, n, q, g, l, node[p], fault)
  BY Zenon
<1>8. UpdNode(h) = n /\ UpdPod(h) = q /\ UpdGen(h) = g /\ UpdVtep(h) = node[p]
  BY <1>1, <1>3 DEF UpdNode, UpdPod, UpdGen, UpdVtep, PlaceNow
<1>9. dev' = r.dev /\ UpdateStep(h, IF r.ok THEN "setup" ELSE "err")
  BY Zenon, <1>5, <1>6, <1>7, <1>8 DEF UpdateSetupWith
<1>10. d \in Devices /\ InterfacesIn(d, node, p, q, l) /\ d[p][l] = dev[p][l]
  <2>1. InterfacesIn(dev, node, p, q, l)
    BY Zenon DEF Pair
  <2>2. CASE vxm[n][l] # NoNs
    <3>1. vxm[n][l] \in Pods \X Nat
      BY <1>4, <2>2, SMTT(30) DEF Inv, Typed
    <3>2. PICK x \in Pods, y \in Nat : vxm[n][l][1] = x /\ vxm[n][l][2] = y
      BY Zenon, <3>1
    <3>3. PICK e : e = RemoveLinkWithVni(dev, n, x, y, l)
      BY Zenon
    <3>4. e \in Devices
      BY Zenon, <1>1, <3>3, RemoveLinkWithVniType
    <3>5. InterfacesIn(e, node, p, q, l) /\ e[p][l] = dev[p][l]
      <4>1. VniDone(RemoveLinkWithVni(dev, n, x, y, l), dev, n, p, q, l)
        BY Zenon, <1>1, <1>4, <2>1, VniKeeps
      <4> QED BY Zenon, <1>4, <3>3, <4>1 DEF VniDone
    <3> QED BY Zenon, <1>1, <1>6, <2>1, <3>2, <3>3, <3>4, <3>5
  <2>3. CASE vxm[n][l] = NoNs
    BY Zenon, <1>1, <1>6, <2>1, <2>3
  <2> QED BY Zenon, <2>2, <2>3
<1>11. InterfacesIn(dev', node, p, q, l) /\ (d[p][l].kind = "vxlan" => dev'[p][l] = d[p][l])
  <2>1. VirtualLink(q, p, l) /\ InterfacesIn(d, node, q, p, l)
    BY Zenon, <1>10, EitherEnd
  <2>2. VxLanDone(SetupVxLan(d, n, q, g, l, node[p], fault).dev, d, q, p, l)
    BY Zenon, <1>1, <1>4, <1>10, <2>1, VxLanKeeps
  <2> QED BY Zenon, <1>7, <1>9, <2>2, EitherEnd DEF VxLanDone
<1>12. upd'[h] = (IF r.ok THEN "setup" ELSE "err") /\ UNCHANGED <<pc, todo, peer, sbx, miss>>
  BY Zenon, <1>9 DEF UpdateStep, Inv, Typed
<1>13. Ends(p, l)'
  BY Zenon, <1>1, <1>12 DEF Pair, Ends, Cur
<1>14. CASE ~r.ok
  <2>1. upd'[h] = "err"
    BY Zenon, <1>12, <1>14
  <2> QED BY Zenon, <1>0, <1>1, <1>11, <1>12, <1>13, <2>1, NotYet
<1>15. CASE r.ok
  <2>1. NsExists(n, q, g) /\ dev'[q][l] = VxLan(node[p])
    <3>1. VxLanThere(SetupVxLan(d, n, q, g, l, node[p], fault), n, q, g, l, node[p])
      BY Zenon, <1>10, VxLanMade
    <3> QED BY Zenon, <1>7, <1>9, <1>15, <3>1 DEF VxLanThere
  <2>2. peer[h] = PlaceNow(q) /\ node[q] = n
    <3>1. peer[h] \in Place
      BY Zenon DEF Inv, Typed
    <3> QED BY Zenon, <1>3, <2>1, <3>1 DEF NsExists, PlaceNow, Place
  <2>3. Halfway(p, l)
    BY Zenon, <1>0 DEF Halfway
  <2>4. Through(q, l) /\ miss[q][l] # "stale" => dev'[p][l] = VxLan(node[q])
    <3>1. Through(q, l) /\ miss[q][l] # "stale" => dev[p][l] = VxLan(node[q])
      BY Zenon, <2>2, <2>3 DEF Pair, Half
    <3>2. VxLan(node[q]).kind = "vxlan"
      BY Zenon DEF VxLan
    <3> QED BY Zenon, <1>10, <1>11, <3>1, <3>2
  <2>5. Linked(S, p, q, l)'
    BY Zenon, <1>1, <1>2, <1>4, <2>1, <2>2, <2>4 DEF Linked, Joined
  <2>6. Half(p, q, l)'
    BY Zenon, <1>0, <1>12, <1>15 DEF Half, Halfway
  <2>7. Half(q, p, l)'
    BY Zenon, <1>1, <2>1 DEF Half
  <2> QED BY Zenon, <1>1, <1>2, <1>11, <1>13, <2>5, <2>6, <2>7 DEF Pair
<1> QED BY Zenon, <1>14, <1>15

\* The steps that change neither interface and take p no further.
LEMMA WaitSteps ==
  ASSUME NEW S \in BOOLEAN, Inv, Inv', Calm, TodoOK,
         NEW p \in Pods, NEW q \in Pods, NEW l \in Links, VirtualLink(p, q, l), Pair(S, p, q, l),
         NEW h \in Handlers, h = Cni(p), todo[h] # <<>>, Cur(h) = l,
         CallUpdateRemote(h) \/ UpdateLock(h) \/ UpdateDone(h) \/ UpdateReturns(h)
  PROVE  Pair(S, p, q, l)'
<1>0. (HandlerStep(h) \/ LockStep(h)) /\ UNCHANGED <<dev, miss>> /\ pc[h] \in {"vxadd", "rpc"}
  BY Zenon DEF HandlerStep, LockStep, CallUpdateRemote, UpdateLock, UpdateDone, UpdateReturns, UpdateStep,
         Inv, HandlersOK, HandlerOK
<1>1. /\ h[1] = p /\ h[2] = "cni" /\ Peer(h) = q /\ p # q
      /\ UNCHANGED <<node, start>> /\ sbx[p] = "adding" /\ Has(todo[h], l)
  <2>1. pc[h] \in Add
    BY Zenon, <1>0 DEF Add
  <2>2. WorksOn(h, p, q, l)
    BY Zenon, <1>0, AtWork
  <2> QED BY Zenon, <2>1, <2>2 DEF WorksOn
<1>2. EndKept(q, l)
  BY Zenon, <1>0, <1>1, OtherEnd DEF Pair
<1>3. InterfacesIn(dev', node', p, q, l)
  BY Zenon, <1>0, <1>1 DEF Pair
<1>4. pc \in [Handlers -> PC] /\ upd \in [Handlers -> Upd] /\ todo \in [Handlers -> Seq(Links)]
  BY Zenon DEF Inv, Typed
<1>5. upd[h] # "none" => pc[h] = "rpc"
  BY Zenon DEF Inv, HandlersOK, HandlerOK
<1>6. CASE Return(h, FALSE)
  <2>1. sbx'[p] = "failed" /\ pc'[h] = "idle"
    BY Zenon, <1>1, <1>6 DEF Return, Inv, Typed
  <2> QED BY Zenon, <1>0, <1>1, <1>3, <2>1, NotYet
<1>7. CASE UpdateReturns(h) /\ NextLink(h, "add") /\ upd[h] = "ok"
  <2>1. pc'[h] = "add" /\ upd'[h] = "none" /\ todo'[h] = Tail(todo[h]) /\ UNCHANGED sbx
    BY Zenon, <1>4, <1>7 DEF NextLink
  <2>2. Rest(p)' = Rest(p)
    BY Zenon, <1>7, <2>1 DEF Rest
  <2>3. Through(p, l)' => Through(p, l)
    BY Zenon, <1>0, <2>1, <2>2 DEF Through
  <2>4. ~Halfway(p, l)' /\ Ends(p, l)'
    BY Zenon, <2>1 DEF Halfway, Ends
  <2>5. EndKept(p, l)
    BY Zenon, <1>0, <1>1, <2>3, <2>4 DEF EndKept
  <2> QED BY Zenon, <1>2, <1>3, <2>5, PairKept
<1>8. CASE /\ UNCHANGED <<todo, peer, sbx>> /\ pc'[h] = "rpc" /\ upd'[h] # "none"
           /\ upd'[h] \in {"setup", "ok"} <=> upd[h] \in {"setup", "ok"}
           /\ upd'[h] \in {"sent", "locked"} => pc[h] = "vxadd" \/ (pc[h] = "rpc" /\ upd[h] = "sent")
  <2>1. Rest(p)' = Rest(p)
    BY Zenon, <1>8 DEF Rest
  <2>2. Through(p, l)' => Through(p, l)
    BY Zenon, <1>0, <1>8, <2>1 DEF Through
  <2>3. Halfway(p, l)' => Halfway(p, l) /\ peer'[Cni(p)] = peer[Cni(p)]
    BY Zenon, <1>8 DEF Halfway, Cur
  <2>4. Ends(p, l)'
    BY Zenon, <1>0, <1>1, <1>8 DEF Pair, Ends, Cur
  <2>5. EndKept(p, l)
    BY Zenon, <1>0, <1>1, <2>2, <2>3, <2>4 DEF EndKept
  <2> QED BY Zenon, <1>2, <1>3, <2>5, PairKept
<1>9. CASE CallUpdateRemote(h)
  <2>1. UNCHANGED <<todo, peer, sbx>> /\ pc'[h] = "rpc" /\ upd'[h] = "sent" /\ upd[h] = "none"
        /\ pc[h] = "vxadd"
    BY Zenon, <1>4, <1>5, <1>9 DEF CallUpdateRemote
  <2> QED BY Zenon, <1>8, <2>1
<1>10. CASE UpdateLock(h)
  <2>1. UNCHANGED <<todo, peer, sbx>> /\ pc'[h] = "rpc" /\ upd'[h] = "locked" /\ upd[h] = "sent"
        /\ pc[h] = "rpc"
    BY Zenon, <1>4, <1>5, <1>10 DEF UpdateLock, UpdateStep
  <2> QED BY Zenon, <1>8, <2>1
<1>11. CASE UpdateDone(h)
  <2>1. UNCHANGED <<todo, peer, sbx>> /\ pc'[h] = "rpc" /\ upd'[h] = "ok" /\ upd[h] = "setup"
    BY Zenon, <1>4, <1>5, <1>11 DEF UpdateDone, UpdateStep
  <2> QED BY Zenon, <1>8, <2>1
<1> QED BY Zenon, <1>6, <1>7, <1>9, <1>10, <1>11 DEF UpdateReturns

\* The steps before a plumbing, and those of DestroyPod: p is not through l.
LEMMA OpenSteps ==
  ASSUME NEW S \in BOOLEAN, Inv, Inv', Calm, TodoOK,
         NEW p \in Pods, NEW q \in Pods, NEW l \in Links, VirtualLink(p, q, l), Pair(S, p, q, l),
         NEW h \in Handlers, h = Cni(p), todo[h] # <<>>, Cur(h) = l,
         \/ AddLinkError(h) \/ AddLinkAlive(h) \/ LockForVeth(h) \/ LockForVxLan(h)
         \/ (HandlerStep(h) /\ pc[h] \in Del)
  PROVE  Pair(S, p, q, l)'
<1>0. HandlerStep(h) \/ LockStep(h)
  BY Zenon DEF HandlerStep, LockStep
<1>1. /\ h[1] = p /\ h[2] = "cni" /\ Peer(h) = q /\ p # q /\ At(h) = node[p]
      /\ pc[h] \in Add => sbx[p] = "adding" /\ loc[h] = PlaceNow(p)
      /\ pc[h] \in Del => sbx[p] = "deleting" /\ pc[h] \notin Add
      /\ UNCHANGED <<node, start>> /\ Has(todo[h], l)
  <2>1. WorksOn(h, p, q, l)
    BY Zenon, <1>0, AtWork
  <2> QED BY Zenon, <2>1 DEF WorksOn
<1>t. pc \in [Handlers -> PC] /\ sbx \in [Pods -> Sandbox] /\ peer \in [Handlers -> Place]
  BY Zenon DEF Inv, Typed
<1>2. UNCHANGED dev
  BY Zenon, <1>0, <1>1, DevSteps DEF AddLinkError, AddLinkAlive, LockForVeth, LockForVxLan
<1>3. InterfacesIn(dev', node, p, q, l)
  BY Zenon, <1>2 DEF Pair
<1>4. CASE AddLinkError(h)
  <2>1. sbx'[p] = "failed" /\ pc'[h] = "idle"
    BY Zenon, <1>t, <1>1, <1>4 DEF AddLinkError, Return
  <2> QED BY Zenon, <1>0, <1>1, <1>3, <2>1, NotYet
<1>5. CASE AddLinkAlive(h)
  <2>1. PICK o : o = getPod(At(h), Peer(h)).obj
    BY Zenon
  <2>2. /\ pc[h] \in Add /\ peer'[h] = PlaceOf(o) /\ UNCHANGED <<todo, sbx>>
        /\ pc'[h] = IF o.node = loc[h].node THEN "vethlock" ELSE "vxlock"
    BY Zenon, <1>t, <1>5, <2>1 DEF AddLinkAlive, AddingLink, Add
  <2>3. Ends(p, l)'
    <3>1. peer'[h].node = o.node /\ loc[h].node = node[p]
      <4>1. PlaceOf(o).node = o.node /\ PlaceNow(p).node = node[p]
        BY Zenon DEF PlaceOf, PlaceNow
      <4> QED BY Zenon, <1>1, <2>2, <4>1
    <3> QED BY Zenon, <1>1, <2>2, <3>1 DEF Ends
  <2>4. sbx'[p] = "adding" /\ pc'[h] \notin {"vxadd", "rpc"} /\ Has(todo'[h], l)
    BY Zenon, <1>1, <2>2
  <2> QED BY Zenon, <1>0, <1>1, <1>3, <2>3, <2>4, NotYet
<1>6. CASE LockForVeth(h) \/ LockForVxLan(h)
  <2>1. /\ pc[h] \in {"vethlock", "vxlock"} /\ UNCHANGED <<todo, sbx, peer>>
        /\ pc'[h] = IF pc[h] = "vethlock" THEN "veth" ELSE "vx"
    BY Zenon, <1>t, <1>6 DEF LockForVeth, LockForVxLan, Goto
  <2>2. Ends(p, l)'
    BY Zenon, <1>1, <2>1 DEF Pair, Ends, Cur
  <2>3. sbx'[p] = "adding" /\ pc'[h] \notin {"vxadd", "rpc"} /\ Has(todo'[h], l)
    BY Zenon, <1>1, <2>1 DEF Add
  <2> QED BY Zenon, <1>0, <1>1, <1>3, <2>2, <2>3, NotYet
<1>7. CASE HandlerStep(h) /\ pc[h] \in Del
  <2>1. sbx'[p] \in {"failed", "deleting", "deleted"} /\ pc'[h] \in Del \cup {"idle"}
    <3>1. Moves(h) /\ sbx[p] = "deleting"
      BY Zenon, <1>1, <1>7, HandlerMoves
    <3>2. ASSUME NEW ok \in BOOLEAN, Return(h, ok)
          PROVE  sbx'[p] \in {"failed", "deleted"} /\ pc'[h] = "idle"
      BY Zenon, <1>t, <1>1, <3>1, <3>2 DEF Return
    <3>3. ASSUME NEW label \in {"add", "del"}, NextLink(h, label), label \in Del
          PROVE  UNCHANGED sbx /\ pc'[h] \in Del
      BY Zenon, <1>t, <3>3 DEF NextLink
    <3>4. CASE UNCHANGED <<todo, sbx>> /\ (pc[h] \in Del => pc'[h] \in Del)
      BY Zenon, <1>7, <3>1, <3>4
    <3>5. CASE \E label \in {"add", "del"} : NextLink(h, label) /\ (pc[h] \in Del <=> label \in Del)
      BY Zenon, <1>7, <3>1, <3>3, <3>5
    <3>6. CASE Return(h, TRUE) \/ Return(h, FALSE)
      BY Zenon, <3>2, <3>6
    <3> QED BY Zenon, <3>1, <3>4, <3>5, <3>6 DEF Moves
  <2> QED BY Zenon, <1>0, <1>1, <1>3, <2>1, NotYet
<1> QED BY Zenon, <1>4, <1>5, <1>6, <1>7

\* All the steps of the handler of p keep the pair in order.
LEMMA OwnSteps ==
  ASSUME NEW S \in BOOLEAN, Inv, Inv', StatusInv, Undisturbed, Calm, TodoOK, Stored(S),
         NEW p \in Pods, NEW q \in Pods, NEW l \in Links, VirtualLink(p, q, l), Pair(S, p, q, l),
         NEW h \in Handlers, h = Cni(p), HandlerStep(h) \/ LockStep(h)
  PROVE  Pair(S, p, q, l)'
<1>1. CASE todo[h] = <<>> \/ Cur(h) # l
  BY Zenon, <1>1, OtherLinkSteps
<1>2. CASE todo[h] # <<>> /\ Cur(h) = l
  <2>1. Peer(h) = q /\ Peer(h) # Localhost /\ Peer(h) \notin Phys
    <3>1. WorksOn(h, p, q, l)
      BY Zenon, <1>2, AtWork
    <3> QED BY Zenon, <3>1, LinkAssumption DEF WorksOn
  <2>2. ~AddLinksDone(h) /\ ~DelLinksDone(h) /\ ~AddLinkMacVlan(h) /\ ~AddLinkPhysical(h)
    BY Zenon, <1>2, <2>1 DEF AddLinksDone, DelLinksDone, AddLinkMacVlan, AddLinkPhysical
  <2>3. DelLinkError(h) \/ DelLinkRemove(h) \/ DelLinkGet(h) \/ DelLinkDelete(h)
          => HandlerStep(h) /\ pc[h] \in Del
    BY Zenon DEF HandlerStep, Del, DelLinkError, DelLinkRemove, DelLinkGet, DelLinkDelete
  <2>4. CASE \/ AddLinkError(h) \/ AddLinkAlive(h) \/ LockForVeth(h) \/ LockForVxLan(h)
             \/ (HandlerStep(h) /\ pc[h] \in Del)
    BY Zenon, <1>2, <2>4, OpenSteps
  <2>5. CASE CallUpdateRemote(h) \/ UpdateLock(h) \/ UpdateDone(h) \/ UpdateReturns(h)
    BY Zenon, <1>2, <2>5, WaitSteps
  <2>6. CASE AddLinkSkip(h)
    BY Zenon, <1>2, <2>6, SkipStep
  <2>7. CASE PlumbVeth(h)
    BY Zenon, <1>2, <2>7, VethStep
  <2>8. CASE PlumbVxLan(h)
    BY Zenon, <1>2, <2>8, VxLanStep
  <2>9. CASE UpdateSetup(h)
    BY Zenon, <1>2, <2>9, UpdateSetupStep
  <2> QED BY Zenon, <2>2, <2>3, <2>4, <2>5, <2>6, <2>7, <2>8, <2>9 DEF HandlerStep, LockStep
<1> QED BY Zenon, <1>1, <1>2

\* The order of the two ends does not matter.
LEMMA PairTurned ==
  ASSUME NEW S \in BOOLEAN, NEW p \in Pods, NEW q \in Pods, NEW l \in Links
  PROVE  /\ Pair(S, p, q, l) => Pair(S, q, p, l)
         /\ Pair(S, p, q, l)' => Pair(S, q, p, l)'
<1>1. InterfacesIn(dev, node, p, q, l) => InterfacesIn(dev, node, q, p, l)
  BY Zenon, EitherEnd
<1>2. InterfacesIn(dev', node', p, q, l) => InterfacesIn(dev', node', q, p, l)
  BY Zenon, EitherEnd
<1>3. Linked(S, p, q, l) => Linked(S, q, p, l)
  BY Zenon DEF Linked, Joined
<1>4. Linked(S, p, q, l)' => Linked(S, q, p, l)'
  BY Zenon DEF Linked, Joined
<1> QED BY Zenon, <1>1, <1>2, <1>3, <1>4 DEF Pair

\* So do the handlers of both ends, and of any other pod.
LEMMA HandlerPairs ==
  ASSUME NEW S \in BOOLEAN, Inv, Inv', StatusInv, Undisturbed, Calm, TodoOK, Stored(S),
         NEW p \in Pods, NEW q \in Pods, NEW l \in Links, VirtualLink(p, q, l), Pair(S, p, q, l),
         NEW h \in Handlers, HandlerStep(h) \/ LockStep(h)
  PROVE  Pair(S, p, q, l)'
<1>1. CASE h = Cni(p)
  BY Zenon, <1>1, OwnSteps
<1>2. CASE h = Cni(q)
  <2>1. VirtualLink(q, p, l) /\ Pair(S, q, p, l)
    BY Zenon, EitherEnd, PairTurned
  <2>2. Pair(S, q, p, l)'
    BY Zenon, <1>2, <2>1, OwnSteps
  <2> QED BY Zenon, <2>2, PairTurned
<1>3. CASE h # Cni(p) /\ h # Cni(q)
  BY Zenon, <1>3, StrangerSteps
<1> QED BY Zenon, <1>1, <1>2, <1>3

-----------------------------------------------------------------------------
(* The steps outside the loops.                                            *)

\* A pod that the step leaves where it was.
Still(r) ==
  LET h == Cni(r)
  IN  /\ sbx'[r] = sbx[r] /\ pc'[h] = pc[h] /\ todo'[h] = todo[h] /\ upd'[h] = upd[h]
      /\ peer'[h] = peer[h] /\ node'[r] = node[r] /\ start'[r] = start[r]

\* A pod of which the step changes nothing but, perhaps, the other end of a link.
Aside(r) ==
  /\ Still(r) /\ rd'[r] = rd[r] /\ hist'[r] = hist[r] /\ pc'[Ctl(r)] = pc[Ctl(r)]
  /\ unread'[r] = unread[r]
  /\ \A l \in Links : miss'[r][l] = miss[r][l]
  /\ \A n \in Nodes : store'[n][r] = store[n][r]

\* It keeps its end of a link.
LEMMA EndStays ==
  ASSUME NEW r \in Pods, NEW l \in Links, Still(r), Ends(r, l),
         dev'[r][l] = dev[r][l], miss'[r][l] = miss[r][l]
  PROVE  EndKept(r, l)
<1>1. (Through(r, l)' <=> Through(r, l)) /\ (Halfway(r, l)' <=> Halfway(r, l)) /\ Ends(r, l)'
  BY Zenon, SameEnd DEF Still
<1> QED BY Zenon, <1>1 DEF EndKept, Still

\* The beginning of SetupPod and of DestroyPod, and the removal of the sandbox.
KubeletStep(r) ==
  \/ \E n \in Nodes : SetupPod(r, n)
  \/ DestroyPod(r)
  \/ RemoveSandbox(r)

\* They leave the other pods alone.
LEMMA KubeletAside ==
  ASSUME Inv, NEW r \in Pods, KubeletStep(r), NEW x \in Pods, x # r
  PROVE  Aside(x)
<1>1. Cni(x) # Cni(r) /\ Ctl(x) # Cni(r)
  BY Zenon DEF Cni, Ctl
<1>2. sbx \in [Pods -> Sandbox] /\ node \in [Pods -> Nodes \cup {NoNode}] /\ start \in [Pods -> Nat]
      /\ pc \in [Handlers -> PC] /\ todo \in [Handlers -> Seq(Links)]
  BY Zenon DEF Inv, Typed, DevTypeOK
<1>3. UNCHANGED <<hist, store, rd, unread, miss, upd, peer>>
  BY Zenon DEF KubeletStep, SetupPod, DestroyPod, RemoveSandbox, storeVars, aliveVars, handlerVars
<1>4. CASE \E n \in Nodes : SetupPod(r, n)
  BY Zenon, <1>1, <1>2, <1>3, <1>4, PodHandlers DEF SetupPod, NewSandbox, Aside, Still
<1>5. CASE DestroyPod(r)
  BY Zenon, <1>1, <1>2, <1>3, <1>5, PodHandlers DEF DestroyPod, Aside, Still
<1>6. CASE RemoveSandbox(r)
  BY Zenon, <1>1, <1>2, <1>3, <1>6, PodHandlers DEF RemoveSandbox, Aside, Still, handlerVars
<1> QED BY Zenon, <1>4, <1>5, <1>6 DEF KubeletStep

\* SetAlive touches one object, in the store of its own node and in the API server.
LEMMA SetAliveAside ==
  ASSUME Inv, NEW r \in Pods, SetAliveStep(r), NEW x \in Pods, x # r
  PROVE  Aside(x)
<1> DEFINE h == Cni(r)
<1>1. /\ Cni(x) # h /\ Ctl(x) # h /\ h \in Handlers /\ h[1] = r /\ h[2] = "cni"
      /\ Cni(x) \in Handlers /\ Ctl(x) \in Handlers
  BY Zenon DEF Cni, Ctl, Handlers
<1>2. /\ sbx \in [Pods -> Sandbox] /\ pc \in [Handlers -> PC] /\ todo \in [Handlers -> Seq(Links)]
      /\ upd \in [Handlers -> Upd] /\ peer \in [Handlers -> Place]
      /\ rd \in [Pods -> Nat] /\ unread \in [Pods -> BOOLEAN]
      /\ miss \in [Pods -> [Links -> {"no", "fresh", "stale"}]]
      /\ hist \in [Pods -> Seq(Object) \ {<<>>}]
      /\ store \in [Nodes -> [Pods -> [rv : Nat, obj : Object]]]
  BY Zenon DEF Inv, Typed, StoreTypeOK
<1> HIDE DEF h
<1>3. (\E label : Goto(h, label)) \/ Return(h, FALSE)
  BY Zenon DEF SetAliveStep, SetAliveRead, SetAliveWrite, SetAliveConflict, SetAliveError, SetFinalizer, h
<1>4. UNCHANGED <<node, start>>
  BY Zenon DEF SetAliveStep, SetAliveRead, SetAliveWrite, SetAliveConflict, SetAliveError, SetFinalizer
<1>5. Still(x) /\ pc'[Ctl(x)] = pc[Ctl(x)]
  BY Zenon, <1>1, <1>2, <1>3, <1>4 DEF Still, Goto, Return
<1>6. rd'[x] = rd[x] /\ unread'[x] = unread[x] /\ miss'[x] = miss[x]
  BY Zenon, <1>2 DEF SetAliveStep, SetAliveRead, SetAliveWrite, SetAliveConflict, SetAliveError, SetFinalizer
<1>7. UNCHANGED hist \/ \E o : Accept(r, o)
  BY Zenon DEF SetAliveStep, SetAliveRead, SetAliveWrite, SetAliveConflict, SetAliveError, SetFinalizer,
         storeVars
<1>8. hist'[x] = hist[x]
  BY Zenon, <1>2, <1>7 DEF Accept
<1>9. UNCHANGED store \/ \E o : AssignInPlace(node[r], r, o)
  BY Zenon DEF SetAliveStep, SetAliveRead, SetAliveWrite, SetAliveConflict, SetAliveError, SetFinalizer,
         storeVars
<1>10. \A n \in Nodes : store'[n][x] = store[n][x]
  <2> SUFFICES ASSUME NEW n \in Nodes PROVE store'[n][x] = store[n][x]
    BY Zenon
  <2>1. ASSUME NEW o, store' = [store EXCEPT ![node[r]][r].obj = o] PROVE store'[n][x] = store[n][x]
    <3>1. store[n] \in [Pods -> [rv : Nat, obj : Object]]
      BY Zenon, <1>2
    <3> QED BY Zenon, <1>2, <2>1, <3>1
  <2> QED BY Zenon, <1>9, <2>1 DEF AssignInPlace
<1> QED BY Zenon, <1>5, <1>6, <1>8, <1>10 DEF Aside

\* The control of SetAlive.
LEMMA SetAliveControl ==
  ASSUME Inv, NEW r \in Pods, SetAliveStep(r), NEW h, h = Cni(r)
  PROVE  /\ pc[h] \in {"read", "write", "fin"} /\ sbx[r] \in {"adding", "deleting"} /\ node[r] \in Nodes
         /\ UNCHANGED <<node, start, dev>> /\ upd'[h] = "none"
         /\ \/ /\ UNCHANGED <<sbx, todo>>
               /\ \/ pc'[h] \in {"read", "write", "fin"} /\ (pc'[h] = "fin" => pc[h] \in {"write", "fin"})
                  \/ pc[h] = "fin" /\ pc'[h] = IF sbx[r] = "adding" THEN "add" ELSE "del"
            \/ sbx'[r] = "failed" /\ pc'[h] = "idle" /\ todo'[h] = <<>>
<1>1. h \in Handlers /\ h[1] = r /\ h[2] = "cni"
  BY Zenon DEF Cni, Handlers
<1>2. /\ sbx \in [Pods -> Sandbox] /\ pc \in [Handlers -> PC] /\ todo \in [Handlers -> Seq(Links)]
      /\ upd \in [Handlers -> Upd] /\ node \in [Pods -> Nodes \cup {NoNode}]
  BY Zenon DEF Inv, Typed, DevTypeOK
<1>3. SandboxOK(r) /\ (upd[h] # "none" => pc[h] = "rpc")
  BY Zenon, <1>1 DEF Inv, HandlersOK, HandlerOK
<1>4. pc[h] \in {"read", "write", "fin"} /\ UNCHANGED <<node, start, dev>>
  BY Zenon DEF SetAliveStep, SetAliveRead, SetAliveWrite, SetAliveConflict, SetAliveError, SetFinalizer
<1>5. sbx[r] \in {"adding", "deleting"} /\ node[r] \in Nodes /\ (Alive(loc[h]) <=> sbx[r] = "adding")
  <2>1. sbx[r] \in {"adding", "deleting"} /\ node[r] # NoNode /\ start[r] # 0
    BY Zenon, <1>3, <1>4 DEF SandboxOK
  <2>2. /\ sbx[r] = "adding" => loc[h] = [node |-> node[r], gen |-> start[r]]
        /\ sbx[r] = "deleting" => loc[h] = NoPlace
    BY Zenon, <1>3 DEF SandboxOK
  <2>3. \A x, y : Alive([node |-> x, gen |-> y]) <=> x # NoNode /\ y # 0
    BY Zenon DEF Alive
  <2>4. ~Alive(NoPlace)
    BY Zenon DEF Alive, NoPlace
  <2> QED BY Zenon, <1>2, <2>1, <2>2, <2>3, <2>4
<1>6. ASSUME NEW label, Goto(h, label)
      PROVE  UNCHANGED <<sbx, todo>> /\ pc'[h] = label /\ upd'[h] = "none"
  BY Zenon, <1>1, <1>2, <1>3, <1>4, <1>6 DEF Goto
<1>7. ASSUME Return(h, FALSE)
      PROVE  sbx'[r] = "failed" /\ pc'[h] = "idle" /\ todo'[h] = <<>> /\ upd'[h] = "none"
  BY Zenon, <1>1, <1>2, <1>7 DEF Return
<1>8. CASE SetAliveRead(r)
  BY <1>4, <1>5, <1>6, <1>8, SMTT(30) DEF SetAliveRead
<1>9. CASE SetAliveWrite(r)
  BY Zenon, <1>4, <1>5, <1>6, <1>9 DEF SetAliveWrite
<1>10. CASE SetAliveConflict(r) \/ SetAliveError(r)
  BY Zenon, <1>4, <1>5, <1>6, <1>7, <1>10 DEF SetAliveConflict, SetAliveError
<1>11. CASE SetFinalizer(r)
  <2>1. pc[h] = "fin" /\ \E label \in {"fin", IF Alive(loc[h]) THEN "add" ELSE "del"} : Goto(h, label)
    BY Zenon, <1>11 DEF SetFinalizer
  <2> QED BY Zenon, <1>4, <1>5, <1>6, <2>1
<1> QED BY Zenon, <1>8, <1>9, <1>10, <1>11 DEF SetAliveStep

-----------------------------------------------------------------------------
(* The pairs.                                                              *)

\* The pod itself is not through any of its links after such a step.
LEMMA PodPairs ==
  ASSUME NEW S \in BOOLEAN, Inv, Inv', TodoOK, NEW p \in Pods, NEW q \in Pods, NEW l \in Links,
         VirtualLink(p, q, l), Pair(S, p, q, l), KubeletStep(p) \/ SetAliveStep(p)
  PROVE  Pair(S, p, q, l)'
<1>t. /\ sbx \in [Pods -> Sandbox] /\ pc \in [Handlers -> PC] /\ todo \in [Handlers -> Seq(Links)]
      /\ node \in [Pods -> Nodes \cup {NoNode}] /\ Cni(p) \in Handlers /\ p # q
  BY Zenon, PodHandlers DEF Inv, Typed, DevTypeOK, VirtualLink
<1>s. SandboxOK(p)
  BY Zenon DEF Inv, HandlersOK
<1>q. Aside(q)
  BY Zenon, <1>t, KubeletAside, SetAliveAside
<1>e. Ends(q, l)'
  BY Zenon, <1>q, SameEnd DEF Aside, Still, Pair
<1>1. ASSUME UNCHANGED <<dev, node>> PROVE InterfacesIn(dev', node', p, q, l)
  BY Zenon, <1>1 DEF Pair
<1>2. ASSUME sbx'[p] # "adding", sbx'[p] # "up", pc'[Cni(p)] \in {"idle", "read", "write", "fin", "del"}
      PROVE  ~Through(p, l)' /\ ~Halfway(p, l)' /\ Ends(p, l)'
  BY Zenon, <1>2 DEF Through, Halfway, Ends
<1>3. ASSUME sbx'[p] = "adding", pc'[Cni(p)] \in {"read", "write", "fin"}
      PROVE  ~Through(p, l)' /\ ~Halfway(p, l)' /\ Ends(p, l)'
  BY Zenon, <1>3 DEF Through, Halfway, Ends
<1>4. CASE \E n \in Nodes : SetupPod(p, n)
  <2>1. /\ sbx[p] = "none" /\ sbx'[p] = "adding" /\ pc'[Cni(p)] = "read" /\ UNCHANGED dev
        /\ \A x \in Pods \ {p} : node'[x] = node[x]
    BY Zenon, <1>t, <1>4 DEF SetupPod, NewSandbox
  <2>2. dev[p][l] = NoDev
    BY Zenon, <1>s, <2>1 DEF SandboxOK, Pair, InterfacesIn
  <2>3. InterfacesIn(dev', node', p, q, l)
    <3>1. NoDev.kind # "vxlan" /\ node'[q] = node[q]
      BY Zenon, <1>t, <2>1 DEF NoDev
    <3> QED BY Zenon, <2>1, <2>2, <3>1 DEF Pair, InterfacesIn
  <2> QED BY Zenon, <1>e, <1>3, <2>1, <2>3, PairOpen
<1>5. CASE DestroyPod(p)
  <2>1. sbx'[p] = "deleting" /\ pc'[Cni(p)] = "read" /\ UNCHANGED <<dev, node>>
    BY Zenon, <1>t, <1>5 DEF DestroyPod
  <2> QED BY Zenon, <1>e, <1>1, <1>2, <2>1, PairOpen
<1>6. CASE RemoveSandbox(p)
  <2>1. /\ sbx[p] = "deleted" /\ sbx'[p] = "none" /\ UNCHANGED pc
        /\ \A x \in Pods \ {p} : node'[x] = node[x]
        /\ \A x \in Pods : dev'[x][l] = IF x = p \/ (dev[p][l] = Veth /\ PeerOf[p][l] = x)
                                        THEN NoDev ELSE dev[x][l]
    BY Zenon, <1>t, <1>6 DEF RemoveSandbox, handlerVars
  <2>2. pc'[Cni(p)] = "idle"
    BY Zenon, <1>s, <2>1 DEF SandboxOK
  <2>3. InterfacesIn(dev', node', p, q, l)
    <3>1. InterfacesIn(dev, node, p, q, l) /\ (dev[p][l] = Veth <=> dev[q][l] = Veth)
      BY Zenon DEF Pair, InterfacesIn
    <3>2. PeerOf[p][l] = q
      BY Zenon DEF VirtualLink
    <3>3. \A x \in Pods : dev'[x][l] \in {NoDev, dev[x][l]}
      BY Zenon, <2>1
    <3>4. dev[p][l] = Veth => (dev'[p][l] = NoDev <=> dev'[q][l] = NoDev)
      BY Zenon, <2>1, <3>2
    <3>5. InterfacesIn(dev', node, p, q, l)
      BY Zenon, <3>1, <3>3, <3>4, FewerInterfaces
    <3>6. dev'[p][l] = NoDev /\ node'[q] = node[q] /\ NoDev.kind # "vxlan"
      BY Zenon, <1>t, <2>1 DEF NoDev
    <3> QED BY Zenon, <3>5, <3>6 DEF InterfacesIn
  <2> QED BY Zenon, <1>e, <1>2, <2>1, <2>2, <2>3, PairOpen
<1>7. CASE SetAliveStep(p)
  <2> DEFINE h == Cni(p)
  <2>1. /\ pc[h] \in {"read", "write", "fin"} /\ sbx[p] \in {"adding", "deleting"}
        /\ UNCHANGED <<node, start, dev>> /\ upd'[h] = "none"
        /\ \/ /\ UNCHANGED <<sbx, todo>>
              /\ \/ pc'[h] \in {"read", "write", "fin"}
                 \/ pc[h] = "fin" /\ pc'[h] = IF sbx[p] = "adding" THEN "add" ELSE "del"
           \/ sbx'[p] = "failed" /\ pc'[h] = "idle" /\ todo'[h] = <<>>
    BY Zenon, <1>7, SetAliveControl
  <2>2. CASE UNCHANGED <<sbx, todo>> /\ sbx[p] = "adding" /\ pc[h] = "fin" /\ pc'[h] = "add"
    <3>1. todo'[h] = LinksOf[p]
      BY Zenon, <2>2 DEF TodoOK, Begun
    <3>2. Has(Rest(p)', l)
      BY Zenon, <2>1, <3>1 DEF Rest, Has, VirtualLink
    <3>3. ~Through(p, l)' /\ ~Halfway(p, l)' /\ Ends(p, l)'
      BY Zenon, <2>2, <3>2 DEF Through, Halfway, Ends
    <3> QED BY Zenon, <1>e, <1>1, <2>1, <3>3, PairOpen
  <2>3. CASE sbx'[p] # "adding" /\ sbx'[p] # "up" /\ pc'[h] \in {"idle", "read", "write", "fin", "del"}
    BY Zenon, <1>e, <1>1, <1>2, <2>1, <2>3, PairOpen
  <2>4. CASE sbx'[p] = "adding" /\ pc'[h] \in {"read", "write", "fin"}
    BY Zenon, <1>e, <1>1, <1>3, <2>1, <2>4, PairOpen
  <2> HIDE DEF h
  <2> QED BY Zenon, <2>1, <2>2, <2>3, <2>4
<1> QED BY Zenon, <1>4, <1>5, <1>6, <1>7 DEF KubeletStep

\* The steps of another pod.
LEMMA OtherPodPairs ==
  ASSUME NEW S \in BOOLEAN, Inv, NEW p \in Pods, NEW q \in Pods, NEW l \in Links, Pair(S, p, q, l),
         NEW r \in Pods, r # p, r # q, KubeletStep(r) \/ SetAliveStep(r)
  PROVE  Pair(S, p, q, l)'
<1>1. Aside(p) /\ Aside(q)
  BY Zenon, KubeletAside, SetAliveAside
<1>2. dev[r][l] = NoDev
  BY Zenon DEF Pair, InterfacesIn
<1>3. \A x \in Pods : dev'[x][l] = dev[x][l]
  <2>1. CASE RemoveSandbox(r)
    <3>1. NoDev # Veth
      BY Zenon DEF NoDev, Veth
    <3>2. dev[r][l] # Veth
      BY Zenon, <1>2, <3>1
    <3> QED BY Zenon, <1>2, <2>1, <3>2 DEF RemoveSandbox
  <2>2. CASE ~RemoveSandbox(r)
    <3>1. UNCHANGED dev
      BY Zenon, <2>2, SetAliveControl DEF KubeletStep, SetupPod, DestroyPod
    <3> QED BY Zenon, <3>1
  <2> QED BY Zenon, <2>1, <2>2
<1>4. EndKept(p, l) /\ EndKept(q, l)
  BY Zenon, <1>1, <1>3, EndStays DEF Aside, Pair
<1>5. InterfacesIn(dev', node', p, q, l)
  <2>1. node'[p] = node[p] /\ node'[q] = node[q]
    BY Zenon, <1>1 DEF Aside, Still
  <2> QED BY Zenon, <1>3, <2>1 DEF Pair, InterfacesIn
<1> QED BY Zenon, <1>4, <1>5, PairKept

\* The steps of the controller and of the watch.
LEMMA QuietPairs ==
  ASSUME NEW S \in BOOLEAN, NEW p \in Pods, NEW q \in Pods, NEW l \in Links, Pair(S, p, q, l),
         UNCHANGED <<sbx, node, start, pc, todo, upd, peer, dev, miss>>
  PROVE  Pair(S, p, q, l)'
<1>1. Still(p) /\ Still(q)
  BY Zenon DEF Still
<1>2. EndKept(p, l) /\ EndKept(q, l)
  BY Zenon, <1>1, EndStays DEF Pair
<1>3. InterfacesIn(dev', node', p, q, l)
  BY Zenon DEF Pair
<1> QED BY Zenon, <1>2, <1>3, PairKept

-----------------------------------------------------------------------------
(* The invariants the pairs rest on.                                       *)

\* No CNI call passes its pod by.
LEMMA NoneUnread ==
  ASSUME NEW S \in BOOLEAN, Inv, Undisturbed, Stored(S), Lossy => S, NEW p \in Pods
  PROVE  /\ ~DestroyPodUnread(p) /\ \A n \in Nodes : ~SetupPodUnread(p, n)
         /\ ~AddLinks(p) /\ ~DelLinks(p)
<1>1. Lossy => \A n \in Nodes : InStore(n, p)
  <2>1. ASSUME S, NEW n \in Nodes PROVE InStore(n, p)
    <3>1. store[n][p].rv \in 1 .. Version(p)
      BY Zenon, <2>1 DEF Stored
    <3> QED BY <3>1 DEF InStore
  <2> QED BY Zenon, <2>1
<1>2. DeletedSandbox(p) => node[p] \in Nodes
  BY Zenon DEF DeletedSandbox, Inv, HandlersOK, SandboxOK, Typed, DevTypeOK
<1>3. ~(ctl < MaxCtl)
  BY DEF Undisturbed, Inv, Typed
<1> QED BY Zenon, <1>1, <1>2, <1>3 DEF DestroyPodUnread, SetupPodUnread, AddLinks, DelLinks, CallLinks

\* The steps there are.
JoinStep ==
  \/ \E r \in Pods : KubeletStep(r) \/ SetAliveStep(r)
  \/ \E h \in Handlers : HandlerStep(h) \/ LockStep(h)
  \/ \E r \in Pods : Touch(r)
  \/ \E n \in Nodes, r \in Pods : Watch(n, r)
  \/ UNCHANGED vars

\* There are no others.
LEMMA JoinSteps ==
  ASSUME NEW S \in BOOLEAN, Inv, Undisturbed, Stored(S), Lossy => S, [Next]_vars
  PROVE  JoinStep
  BY Zenon, NoneUnread DEF Next, JoinStep, KubeletStep, Quiet

\* What they are to a pod.
LEMMA StepOf ==
  ASSUME Inv, Calm, JoinStep, NEW p \in Pods
  PROVE  \/ KubeletStep(p) \/ SetAliveStep(p) \/ HandlerStep(Cni(p)) \/ LockStep(Cni(p))
         \/ Touch(p) \/ \E n \in Nodes : Watch(n, p)
         \/ Aside(p)
<1>1. ASSUME NEW r \in Pods, r # p, KubeletStep(r) \/ SetAliveStep(r) PROVE Aside(p)
  BY Zenon, <1>1, KubeletAside, SetAliveAside
<1>2. ASSUME NEW h \in Handlers, HandlerStep(h) \/ LockStep(h), h # Cni(p) PROVE Aside(p)
  <2>1. h = Cni(h[1]) /\ h[1] \in Pods
    BY Zenon, <1>2, CniRuns
  <2>2. /\ Cni(p) \in Handlers \ {h} /\ Ctl(p) \in Handlers \ {h} /\ Cni(p)[1] = p /\ Cni(p)[2] = "cni"
        /\ h[1] # p
    BY <1>2, <2>1 DEF Cni, Ctl, Handlers
  <2>3. UNCHANGED <<hist, store, node, start, rd, unread>>
    BY Zenon, <1>2, LoopSteps DEF elsewhere, storeVars, aliveVars
  <2>4. \A l \in Links : miss'[p][l] = miss[p][l]
    BY Zenon, <1>2, <2>2, MissSteps
  <2>5. /\ pc'[Cni(p)] = pc[Cni(p)] /\ todo'[Cni(p)] = todo[Cni(p)] /\ upd'[Cni(p)] = upd[Cni(p)]
        /\ peer'[Cni(p)] = peer[Cni(p)] /\ sbx'[p] = sbx[p]
    BY <1>2, <2>2, OthersRest
  <2>6. pc'[Ctl(p)] = pc[Ctl(p)]
    BY Zenon, <1>2, <2>2, OthersRest
  <2> QED BY Zenon, <2>3, <2>4, <2>5, <2>6 DEF Aside, Still
<1>t. /\ hist \in [Pods -> Seq(Object) \ {<<>>}]
      /\ store \in [Nodes -> [Pods -> [rv : Nat, obj : Object]]]
  BY Zenon DEF Inv, Typed, StoreTypeOK
<1>3. ASSUME NEW r \in Pods, r # p, Touch(r) PROVE Aside(p)
  <2>1. UNCHANGED <<kubeletVars, handlerVars, aliveVars, miss, store>> /\ hist'[p] = hist[p]
    BY Zenon, <1>t, <1>3 DEF Touch, TouchByController
  <2> QED BY Zenon, <2>1 DEF Aside, Still, kubeletVars, handlerVars, aliveVars
<1>4. ASSUME NEW r \in Pods, r # p, NEW n \in Nodes, Watch(n, r) PROVE Aside(p)
  <2>1. UNCHANGED <<kubeletVars, handlerVars, aliveVars, miss, hist>>
    BY Zenon, <1>4 DEF Watch, Deliver
  <2>2. PICK v : store' = [store EXCEPT ![n][r] = [rv |-> v, obj |-> hist[r][v]]]
    BY Zenon, <1>4 DEF Watch, Deliver
  <2>3. \A m \in Nodes : store'[m][p] = store[m][p]
    BY Zenon, <1>t, <1>4, <2>2
  <2> QED BY Zenon, <2>1, <2>3 DEF Aside, Still, kubeletVars, handlerVars, aliveVars
<1>5. ASSUME UNCHANGED vars PROVE Aside(p)
  BY Zenon, <1>5 DEF Aside, Still, vars, storeVars, kubeletVars, handlerVars, aliveVars
<1> QED BY Zenon, <1>1, <1>2, <1>3, <1>4, <1>5 DEF JoinStep

\* The controller stays away, and no pod is passed by.
LEMMA CalmKept ==
  ASSUME Inv, Calm, JoinStep
  PROVE  Calm'
<1> SUFFICES ASSUME NEW p \in Pods PROVE pc'[Ctl(p)] = "idle" /\ ~unread'[p]
  BY Zenon DEF Calm
<1>0. pc[Ctl(p)] = "idle" /\ ~unread[p]
  BY Zenon DEF Calm
<1>t. /\ pc \in [Handlers -> PC] /\ unread \in [Pods -> BOOLEAN]
      /\ Ctl(p) \in Handlers \ {Cni(p)} /\ Cni(p) \in Handlers
  BY Zenon, PodHandlers DEF Inv, Typed
<1>1. CASE KubeletStep(p)
  BY Zenon, <1>0, <1>t, <1>1 DEF KubeletStep, SetupPod, DestroyPod, RemoveSandbox, handlerVars, aliveVars
<1>2. CASE SetAliveStep(p)
  <2>1. (\E label : Goto(Cni(p), label)) \/ Return(Cni(p), FALSE)
    BY Zenon, <1>2 DEF SetAliveStep, SetAliveRead, SetAliveWrite, SetAliveConflict, SetAliveError, SetFinalizer
  <2>2. unread' = unread \/ unread' = [unread EXCEPT ![p] = FALSE]
    BY Zenon, <1>2 DEF SetAliveStep, SetAliveRead, SetAliveWrite, SetAliveConflict, SetAliveError, SetFinalizer
  <2> QED BY Zenon, <1>0, <1>t, <2>1, <2>2 DEF Goto, Return
<1>3. CASE HandlerStep(Cni(p)) \/ LockStep(Cni(p))
  <2>1. pc'[Ctl(p)] = pc[Ctl(p)]
    BY Zenon, <1>t, <1>3, OthersRest
  <2>2. UNCHANGED unread
    BY Zenon, <1>t, <1>3, LoopSteps DEF elsewhere, aliveVars
  <2> QED BY Zenon, <1>0, <2>1, <2>2
<1>4. CASE Touch(p) \/ \E n \in Nodes : Watch(n, p)
  BY Zenon, <1>0, <1>4 DEF Touch, Watch, handlerVars, aliveVars
<1>5. CASE Aside(p)
  BY Zenon, <1>0, <1>5 DEF Aside
<1> QED BY Zenon, <1>1, <1>2, <1>3, <1>4, <1>5, StepOf

\* The handlers go through the links of their pods.
LEMMA TodoKept ==
  ASSUME Inv, Calm, TodoOK, JoinStep
  PROVE  TodoOK'
<1> SUFFICES ASSUME NEW p \in Pods, NEW h, h = Cni(p)
             PROVE  /\ \A i \in 1 .. Len(todo'[h]) : Has(LinksOf[p], todo'[h][i])
                    /\ sbx'[p] = "adding" /\ pc'[h] \in {"read", "write", "fin"} => todo'[h] = LinksOf[p]
                    /\ sbx'[p] = "adding" => pc'[h] \notin Del
                    /\ sbx'[p] = "deleting" => pc'[h] \notin Add
  BY Zenon DEF TodoOK, Begun
<1>0. /\ \A i \in 1 .. Len(todo[h]) : Has(LinksOf[p], todo[h][i])
      /\ sbx[p] = "adding" /\ pc[h] \in {"read", "write", "fin"} => todo[h] = LinksOf[p]
      /\ sbx[p] = "adding" => pc[h] \notin Del
      /\ sbx[p] = "deleting" => pc[h] \notin Add
  BY Zenon DEF TodoOK, Begun
<1>t. /\ pc \in [Handlers -> PC] /\ todo \in [Handlers -> Seq(Links)] /\ sbx \in [Pods -> Sandbox]
      /\ h \in Handlers /\ h[1] = p /\ h[2] = "cni"
  BY Zenon, PodHandlers DEF Inv, Typed, Cni
<1>l. \A i \in 1 .. Len(LinksOf[p]) : Has(LinksOf[p], LinksOf[p][i])
  BY Zenon DEF Has
<1>1. CASE KubeletStep(p)
  <2>1. \/ todo'[h] = LinksOf[p] /\ pc'[h] = "read"
        \/ UNCHANGED todo /\ sbx'[p] = "none"
    BY Zenon, <1>t, <1>1 DEF KubeletStep, SetupPod, DestroyPod, RemoveSandbox, handlerVars
  <2> QED BY Zenon, <1>0, <1>l, <2>1 DEF Add, Del
<1>2. CASE SetAliveStep(p)
  <2>1. \/ /\ UNCHANGED <<sbx, todo>> /\ pc[h] \in {"read", "write", "fin"}
           /\ \/ pc'[h] \in {"read", "write", "fin"}
              \/ pc'[h] = IF sbx[p] = "adding" THEN "add" ELSE "del"
        \/ sbx'[p] = "failed" /\ pc'[h] = "idle" /\ todo'[h] = <<>>
    BY Zenon, <1>2, SetAliveControl
  <2> QED BY <1>0, <2>1 DEF Add, Del
<1>3. CASE HandlerStep(h) \/ LockStep(h)
  <2>1. pc[h] \in Add \cup Del /\ Moves(h)
    BY Zenon, <1>t, <1>3, CniRuns, HandlerMoves
  <2>2. CASE UNCHANGED <<todo, sbx>> /\ pc'[h] \in Add \cup Del /\ (pc[h] \in Del <=> pc'[h] \in Del)
    BY Zenon, <1>0, <2>1, <2>2 DEF Add, Del
  <2>3. CASE \E label \in {"add", "del"} :
               NextLink(h, label) /\ todo[h] # <<>> /\ (pc[h] \in Del <=> label \in Del)
    <3>1. PICK label \in {"add", "del"} :
            NextLink(h, label) /\ todo[h] # <<>> /\ (pc[h] \in Del <=> label \in Del)
      BY Zenon, <2>3
    <3>2. pc'[h] = label /\ todo'[h] = Tail(todo[h]) /\ UNCHANGED sbx
      BY Zenon, <1>t, <3>1 DEF NextLink
    <3>3. Len(todo'[h]) = Len(todo[h]) - 1 /\ \A i \in 1 .. Len(todo'[h]) : todo'[h][i] = todo[h][i + 1]
      BY <1>t, <3>1, <3>2, SMTT(30)
    <3>4. Len(todo[h]) \in Nat
      BY <1>t, SMTT(30)
    <3>5. \A i \in 1 .. Len(todo'[h]) : i + 1 \in 1 .. Len(todo[h])
      BY <3>3, <3>4, SMTT(30)
    <3>6. \A i \in 1 .. Len(todo'[h]) : Has(LinksOf[p], todo'[h][i])
      BY Zenon, <1>0, <3>3, <3>5
    <3> QED BY Zenon, <1>0, <2>1, <3>1, <3>2, <3>6 DEF Add, Del
  <2>4. CASE Return(h, TRUE) \/ Return(h, FALSE)
    BY <1>t, <2>4, SMTT(30) DEF Return, Add, Del
  <2> QED BY Zenon, <2>1, <2>2, <2>3, <2>4 DEF Moves
<1>4. CASE Touch(p) \/ \E n \in Nodes : Watch(n, p)
  BY Zenon, <1>0, <1>4 DEF Touch, Watch, handlerVars, kubeletVars
<1>5. CASE Aside(p)
  BY Zenon, <1>0, <1>5 DEF Aside, Still
<1> QED BY Zenon, <1>1, <1>2, <1>3, <1>4, <1>5, StepOf

-----------------------------------------------------------------------------
(* The stores.                                                             *)

\* What the store of a node can have of a pod.
LEMMA RvKept ==
  ASSUME Inv, Calm, JoinStep, Stored(TRUE), NEW p \in Pods, NEW n \in Nodes
  PROVE  store'[n][p].rv \in 1 .. Len(hist'[p])
<1>t. /\ hist \in [Pods -> Seq(Object) \ {<<>>}]
      /\ store \in [Nodes -> [Pods -> [rv : Nat, obj : Object]]]
  BY Zenon DEF Inv, Typed, StoreTypeOK
<1>0. store[n][p].rv \in 1 .. Len(hist[p]) /\ Len(hist[p]) \in Nat /\ store[n][p].rv \in Nat
  BY <1>t, SMTT(30) DEF Stored, Version
<1>1. ASSUME NEW o, hist' = [hist EXCEPT ![p] = Append(@, o)] PROVE Len(hist'[p]) = Len(hist[p]) + 1
  BY <1>t, <1>1, SMTT(30)
<1>2. CASE KubeletStep(p)
  BY Zenon, <1>0, <1>2 DEF KubeletStep, SetupPod, DestroyPod, RemoveSandbox, storeVars
<1>3. CASE SetAliveStep(p)
  <2>1. UNCHANGED hist \/ \E o : Accept(p, o)
    BY Zenon, <1>3 DEF SetAliveStep, SetAliveRead, SetAliveWrite, SetAliveConflict, SetAliveError,
                SetFinalizer, storeVars
  <2>2. Len(hist'[p]) \in {Len(hist[p]), Len(hist[p]) + 1}
    BY Zenon, <1>1, <2>1 DEF Accept
  <2>3. UNCHANGED store \/ \E o : AssignInPlace(node[p], p, o)
    BY Zenon, <1>3 DEF SetAliveStep, SetAliveRead, SetAliveWrite, SetAliveConflict, SetAliveError,
                SetFinalizer, storeVars
  <2>4. ASSUME NEW o, store' = [store EXCEPT ![node[p]][p].obj = o]
        PROVE  store'[n][p].rv = store[n][p].rv
    <3>1. store[n] \in [Pods -> [rv : Nat, obj : Object]]
      BY Zenon, <1>t
    <3> QED BY Zenon, <1>t, <2>4, <3>1
  <2>5. store'[n][p].rv = store[n][p].rv
    BY Zenon, <2>3, <2>4 DEF AssignInPlace
  <2> QED BY <1>0, <2>2, <2>5, SMTT(30)
<1>4. CASE HandlerStep(Cni(p)) \/ LockStep(Cni(p))
  <2>1. UNCHANGED <<hist, store>>
    BY Zenon, <1>4, LoopSteps, PodHandlers DEF elsewhere, storeVars
  <2> QED BY Zenon, <1>0, <2>1
<1>5. CASE Touch(p)
  <2>1. UNCHANGED store /\ hist' = [hist EXCEPT ![p] = Append(@, Current(p))]
    BY Zenon, <1>5 DEF Touch, TouchByController
  <2>2. Len(hist'[p]) = Len(hist[p]) + 1
    BY Zenon, <1>1, <2>1
  <2>3. store'[n][p].rv = store[n][p].rv
    BY Zenon, <2>1
  <2> QED BY <1>0, <2>2, <2>3, SMTT(30)
<1>6. ASSUME NEW m \in Nodes, Watch(m, p) PROVE store'[n][p].rv \in 1 .. Len(hist'[p])
  <2>1. PICK v \in store[m][p].rv + 1 .. Len(hist[p]) :
          store' = [store EXCEPT ![m][p] = [rv |-> v, obj |-> hist[p][v]]] /\ UNCHANGED hist
    BY Zenon, <1>6 DEF Watch, Deliver, Version
  <2>2. store[m][p].rv \in Nat
    BY Zenon, <1>t, <1>6
  <2>3. store'[n][p] = IF n = m THEN [rv |-> v, obj |-> hist[p][v]] ELSE store[n][p]
    BY Zenon, <1>t, <1>6, <2>1
  <2> QED BY <1>0, <2>1, <2>2, <2>3, SMTT(30)
<1>7. CASE Aside(p)
  BY Zenon, <1>0, <1>7 DEF Aside
<1> QED BY Zenon, <1>2, <1>3, <1>4, <1>5, <1>6, <1>7, StepOf

\* What is known of p in its own store is kept when nothing of it changes.
LEMMA OwnKept ==
  ASSUME NEW p \in Pods, OwnStore(p), node'[p] = node[p], start'[p] = start[p], rd'[p] = rd[p],
         store'[node[p]][p] = store[node[p]][p], hist'[p] = hist[p],
         sbx'[p] = "adding" /\ pc'[Cni(p)] = "write" => sbx[p] = "adding" /\ pc[Cni(p)] = "write",
         sbx'[p] = "up" \/ (sbx'[p] = "adding" /\ pc'[Cni(p)] \notin {"read", "write"})
           => sbx[p] = "up" \/ (sbx[p] = "adding" /\ pc[Cni(p)] \notin {"read", "write"})
  PROVE  OwnStore(p)'
<1>1. PlaceNow(p)' = PlaceNow(p) /\ Version(p)' = Version(p)
  BY Zenon DEF PlaceNow, Version
<1> QED BY Zenon, <1>1 DEF OwnStore

\* SetAlive brings the place of the sandbox into the store of its node, and into
\* every version after the one in the store.
LEMMA OwnSetAlive ==
  ASSUME Inv, StatusInv, Calm, Stored(TRUE), NEW p \in Pods, SetAliveStep(p)
  PROVE  OwnStore(p)'
<1> DEFINE h == Cni(p)
           n == node[p]
           s == store[n][p]
           place == PlaceNow(p)
<1>c. /\ pc[h] \in {"read", "write", "fin"} /\ sbx[p] \in {"adding", "deleting"} /\ n \in Nodes
      /\ UNCHANGED <<node, start>>
      /\ (UNCHANGED sbx) \/ sbx'[p] = "failed"
  BY Zenon, SetAliveControl
<1>t. /\ hist \in [Pods -> Seq(Object) \ {<<>>}] /\ rd \in [Pods -> Nat]
      /\ store \in [Nodes -> [Pods -> [rv : Nat, obj : Object]]]
      /\ pc \in [Handlers -> PC] /\ h \in Handlers /\ loc[h] \in Place
  BY Zenon, PodHandlers DEF Inv, Typed, StoreTypeOK
<1>r. s \in [rv : Nat, obj : Object] /\ s.rv \in 1 .. Len(hist[p]) /\ Len(hist[p]) \in Nat /\ OwnStore(p)
  <2>1. s \in [rv : Nat, obj : Object] /\ hist[p] \in Seq(Object)
    BY Zenon, <1>c, <1>t
  <2>2. s.rv \in 1 .. Len(hist[p]) /\ OwnStore(p)
    BY Zenon, <1>c DEF Stored, Version
  <2>3. Len(hist[p]) \in Nat
    BY <2>1
  <2> QED BY Zenon, <2>1, <2>2, <2>3
<1>g. getPod(n, p) = s /\ InStore(n, p)
  <2>1. s.rv # 0
    <3>1. ASSUME NEW k, NEW m \in Nat, k \in 1 .. m PROVE k # 0
      BY <3>1
    <3> QED BY Zenon, <1>r, <3>1
  <2> QED BY Zenon, <2>1 DEF getPod, InStore
<1>l. sbx[p] = "adding" => loc[h] = place
  BY Zenon DEF Inv, HandlersOK, SandboxOK, PlaceNow
<1>p. PlaceNow(p)' = place
  BY Zenon, <1>c DEF PlaceNow
<1>u. ASSUME NEW o, AssignInPlace(n, p, o)
      PROVE  store'[n][p].rv = s.rv /\ store'[n][p].obj = o
  <2>1. store' = [store EXCEPT ![n][p].obj = o]
    BY Zenon, <1>g, <1>u DEF AssignInPlace
  <2> QED BY Zenon, <1>c, <1>t, <1>r, <2>1
<1>v. ASSUME sbx'[p] \notin {"adding", "up"} PROVE OwnStore(p)'
  BY Zenon, <1>v DEF OwnStore
<1>w. ASSUME pc'[h] = "read", sbx'[p] # "up" PROVE OwnStore(p)'
  BY Zenon, <1>w DEF OwnStore
<1>1. CASE sbx[p] = "deleting"
  BY Zenon, <1>c, <1>1, <1>v
<1>2. CASE sbx[p] = "adding" /\ SetAliveRead(p)
  <2> DEFINE o == [s.obj EXCEPT !.node = loc[h].node, !.gen = loc[h].gen]
  <2>1. pc'[h] = "write" /\ UNCHANGED <<sbx, hist>> /\ rd'[p] = s.rv /\ AssignInPlace(n, p, o)
    BY Zenon, <1>t, <1>g, <1>2 DEF SetAliveRead, Goto
  <2>2. PlaceOf(o) = place
    BY Zenon, <1>l, <1>r, <1>t, <1>2 DEF PlaceOf, Object, Place
  <2> HIDE DEF o, s, n, place
  <2>3. store'[n][p].rv = s.rv /\ store'[n][p].obj = o
    BY Zenon, <1>u, <2>1
  <2>4. rd'[p] <= store'[n][p].rv /\ PlaceOf(store'[n][p].obj) = PlaceNow(p)'
    BY <1>p, <1>r, <2>1, <2>2, <2>3, SMTT(30)
  <2> QED BY Zenon, <1>c, <1>2, <2>1, <2>4 DEF OwnStore, n, h
<1>3. CASE sbx[p] = "adding" /\ SetAliveWrite(p)
  <2> DEFINE o == [Current(p) EXCEPT !.node = loc[h].node, !.gen = loc[h].gen]
  <2>1. /\ pc[h] = "write" /\ pc'[h] = "fin" /\ UNCHANGED <<sbx, store>> /\ rd[p] = Len(hist[p])
        /\ Accept(p, o)
    BY Zenon, <1>t, <1>3 DEF SetAliveWrite, Goto, Version
  <2>2. rd[p] <= s.rv /\ (s.rv = rd[p] => PlaceOf(s.obj) = place)
    BY Zenon, <1>r, <1>3, <2>1 DEF OwnStore
  <2>3. Current(p) \in Object
    BY <1>t DEF Current
  <2>4. PlaceOf(o) = place
    BY Zenon, <1>l, <1>t, <1>3, <2>3 DEF PlaceOf, Object, Place
  <2> HIDE DEF o, s, n, place
  <2>5. s.rv = Len(hist[p]) /\ PlaceOf(s.obj) = place
    BY <1>r, <1>t, <2>1, <2>2, SMTT(30)
  <2>6. \A v \in s.rv + 1 .. Len(hist'[p]) : PlaceOf(hist'[p][v]) = place
    <3>1. CASE UNCHANGED hist
      BY <2>5, <3>1, <1>r, SMTT(30)
    <3>2. CASE hist' = [hist EXCEPT ![p] = Append(@, o)]
      <4>1. Len(hist'[p]) = Len(hist[p]) + 1 /\ hist'[p][Len(hist[p]) + 1] = o
        BY <1>t, <3>2, SMTT(30)
      <4> QED BY <1>r, <2>4, <2>5, <4>1, SMTT(30)
    <3> QED BY Zenon, <2>1, <3>1, <3>2 DEF Accept
  <2> QED BY Zenon, <1>c, <1>p, <1>3, <2>1, <2>5, <2>6 DEF OwnStore, Version, n, h, s
<1>4. CASE SetAliveConflict(p) \/ SetAliveError(p)
  <2>1. Goto(h, "read") \/ Return(h, FALSE)
    BY Zenon, <1>4 DEF SetAliveConflict, SetAliveError
  <2>2. CASE Goto(h, "read")
    BY Zenon, <1>c, <1>t, <1>w, <2>2 DEF Goto
  <2>3. CASE Return(h, FALSE)
    <3>1. sbx'[p] = "failed"
      BY Zenon, <2>3 DEF Return, Cni, Inv, Typed
    <3> QED BY Zenon, <1>v, <3>1
  <2> QED BY Zenon, <2>1, <2>2, <2>3
<1>5. CASE sbx[p] = "adding" /\ SetFinalizer(p)
  <2>1. PICK f : /\ pc[h] = "fin" /\ pc'[h] \in {"fin", "add", "del"} /\ UNCHANGED sbx
                 /\ AssignInPlace(n, p, [s.obj EXCEPT !.fin = f])
                 /\ Accept(p, [Current(p) EXCEPT !.fin = f]) \/ UNCHANGED hist
    BY Zenon, <1>t, <1>g, <1>5 DEF SetFinalizer, Goto
  <2>2. /\ PlaceOf(s.obj) = place
        /\ \A v \in s.rv + 1 .. Len(hist[p]) : PlaceOf(hist[p][v]) = place
    BY Zenon, <1>r, <1>5, <2>1 DEF OwnStore, Version
  <2>3. PlaceOf(Current(p)) = place /\ Current(p) \in Object
    <3>1. Current(p) \in Object
      BY <1>t DEF Current
    <3> QED BY Zenon, <1>5, <2>1, <3>1, AliveKnown
  <2>4. /\ PlaceOf([s.obj EXCEPT !.fin = f]) = PlaceOf(s.obj)
        /\ PlaceOf([Current(p) EXCEPT !.fin = f]) = PlaceOf(Current(p))
    BY Zenon, <1>r, <2>3 DEF PlaceOf, Object
  <2> DEFINE o == [Current(p) EXCEPT !.fin = f]
             a == [s.obj EXCEPT !.fin = f]
  <2>5. /\ AssignInPlace(n, p, a) /\ (Accept(p, o) \/ UNCHANGED hist)
        /\ PlaceOf(o) = place /\ PlaceOf(a) = place
    BY Zenon, <2>1, <2>2, <2>3, <2>4
  <2> HIDE DEF o, a, s, n, place
  <2>6. store'[n][p].rv = s.rv /\ store'[n][p].obj = a
    BY Zenon, <1>u, <2>5
  <2>7. \A v \in s.rv + 1 .. Len(hist'[p]) : PlaceOf(hist'[p][v]) = place
    <3>1. CASE UNCHANGED hist
      BY Zenon, <2>2, <3>1
    <3>2. CASE hist' = [hist EXCEPT ![p] = Append(@, o)]
      <4>1. /\ Len(hist'[p]) = Len(hist[p]) + 1 /\ hist'[p][Len(hist[p]) + 1] = o
            /\ \A v \in 1 .. Len(hist[p]) : hist'[p][v] = hist[p][v]
        BY <1>t, <3>2
      <4> QED BY <1>r, <2>2, <2>5, <4>1, SMTT(30)
    <3> QED BY Zenon, <2>5, <3>1, <3>2 DEF Accept
  <2> QED BY Zenon, <1>c, <1>p, <1>5, <2>1, <2>5, <2>6, <2>7 DEF OwnStore, Version, n, h
<1> HIDE DEF s, n, place, h
<1> QED BY Zenon, <1>c, <1>1, <1>2, <1>3, <1>4, <1>5 DEF SetAliveStep

\* A write that keeps the place, and the watch, which brings one of the versions
\* after the one in the store.
LEMMA OwnWatch ==
  ASSUME Inv, StatusInv, Calm, Stored(TRUE), NEW p \in Pods, Touch(p) \/ \E m \in Nodes : Watch(m, p)
  PROVE  OwnStore(p)'
<1> DEFINE h == Cni(p)
           n == node[p]
           s == store[n][p]
           place == PlaceNow(p)
<1>1. UNCHANGED <<sbx, node, start, pc, rd>>
  BY Zenon DEF Touch, Watch, kubeletVars, handlerVars, aliveVars
<1>2. CASE sbx[p] \notin {"adding", "up"}
  BY Zenon, <1>1, <1>2 DEF OwnStore
<1>3. CASE sbx[p] \in {"adding", "up"}
  <2>n. n \in Nodes
    BY Zenon, <1>3 DEF Inv, HandlersOK, SandboxOK, Typed, DevTypeOK
  <2>t. /\ hist \in [Pods -> Seq(Object) \ {<<>>}] /\ rd \in [Pods -> Nat]
        /\ store \in [Nodes -> [Pods -> [rv : Nat, obj : Object]]]
    BY Zenon DEF Inv, Typed, StoreTypeOK
  <2>r. s.rv \in 1 .. Len(hist[p]) /\ Len(hist[p]) \in Nat /\ s.rv \in Nat /\ rd[p] \in Nat
    BY <2>n, <2>t DEF Stored, Version
  <2>o. /\ sbx[p] = "adding" /\ pc[h] = "write"
             => rd[p] <= s.rv /\ (s.rv = rd[p] => PlaceOf(s.obj) = place)
        /\ sbx[p] = "up" \/ (sbx[p] = "adding" /\ pc[h] \notin {"read", "write"})
             => /\ PlaceOf(s.obj) = place /\ PlaceOf(Current(p)) = place
                /\ \A v \in s.rv + 1 .. Len(hist[p]) : PlaceOf(hist[p][v]) = place
    BY Zenon, AliveKnown DEF Stored, OwnStore, Version
  <2>p. PlaceNow(p)' = place
    BY Zenon, <1>1 DEF PlaceNow
  <2> HIDE DEF s, place
  <2>1. CASE Touch(p)
    <3>1. UNCHANGED store /\ hist' = [hist EXCEPT ![p] = Append(@, Current(p))]
      BY Zenon, <2>1 DEF Touch, TouchByController
    <3>2. /\ Len(hist'[p]) = Len(hist[p]) + 1 /\ hist'[p][Len(hist[p]) + 1] = Current(p)
          /\ \A v \in 1 .. Len(hist[p]) : hist'[p][v] = hist[p][v]
      <4>1. Current(p) \in Object
        BY <2>t, SMTT(30) DEF Current
      <4> QED BY <2>t, <3>1, <4>1, SMTT(30)
    <3>3. sbx[p] = "up" \/ (sbx[p] = "adding" /\ pc[h] \notin {"read", "write"})
            => \A v \in s.rv + 1 .. Len(hist'[p]) : PlaceOf(hist'[p][v]) = place
      BY <2>r, <2>o, <3>2, SMTT(30)
    <3> QED BY Zenon, <1>1, <2>o, <2>p, <3>1, <3>3 DEF OwnStore, Version, s
  <2>2. ASSUME NEW m \in Nodes, Watch(m, p) PROVE OwnStore(p)'
    <3>1. PICK v \in store[m][p].rv + 1 .. Len(hist[p]) :
            store' = [store EXCEPT ![m][p] = [rv |-> v, obj |-> hist[p][v]]] /\ UNCHANGED hist
      BY Zenon, <2>2 DEF Watch, Deliver, Version
    <3>2. CASE m # n
      <4>1. store'[n][p] = s
        BY Zenon, <2>n, <2>t, <3>1, <3>2 DEF s
      <4> QED BY Zenon, <1>1, <2>o, <2>p, <3>1, <4>1 DEF OwnStore, Version, s
    <3>3. CASE m = n
      <4>1. store'[n][p] = [rv |-> v, obj |-> hist[p][v]] /\ v \in s.rv + 1 .. Len(hist[p])
        BY Zenon, <2>n, <2>t, <3>1, <3>3 DEF s
      <4>2. s.rv < v /\ v \in Nat /\ \A w \in v + 1 .. Len(hist[p]) : w \in s.rv + 1 .. Len(hist[p])
        BY <2>r, <4>1, SMTT(30)
      <4>3. /\ sbx[p] = "adding" /\ pc[h] = "write" => rd[p] < v
            /\ sbx[p] = "up" \/ (sbx[p] = "adding" /\ pc[h] \notin {"read", "write"})
                 => /\ PlaceOf(hist[p][v]) = place
                    /\ \A w \in v + 1 .. Len(hist[p]) : PlaceOf(hist[p][w]) = place
        <5>1. ASSUME sbx[p] = "adding", pc[h] = "write" PROVE rd[p] < v
          <6>1. rd[p] <= s.rv
            BY Zenon, <2>o, <5>1
          <6> QED BY <2>r, <4>2, <6>1
        <5>2. ASSUME sbx[p] = "up" \/ (sbx[p] = "adding" /\ pc[h] \notin {"read", "write"})
              PROVE  /\ PlaceOf(hist[p][v]) = place
                     /\ \A w \in v + 1 .. Len(hist[p]) : PlaceOf(hist[p][w]) = place
          BY Zenon, <2>o, <4>1, <4>2, <5>2
        <5> QED BY Zenon, <5>1, <5>2
      <4>4. rd[p] < v => rd[p] <= v /\ v # rd[p]
        BY <2>r, <4>2, SMTT(30)
      <4>5. store'[n][p].rv = v /\ store'[n][p].obj = hist[p][v]
        BY <4>1
      <4> QED BY Zenon, <1>1, <2>p, <3>1, <4>3, <4>4, <4>5 DEF OwnStore, Version
    <3> QED BY Zenon, <3>2, <3>3
  <2> QED BY Zenon, <2>1, <2>2
<1> QED BY Zenon, <1>2, <1>3

\* The stores, over all the steps.
LEMMA StoredKept ==
  ASSUME NEW S \in BOOLEAN, Inv, StatusInv, Calm, TodoOK, Stored(S), JoinStep
  PROVE  Stored(S)'
<1> SUFFICES ASSUME S
             PROVE  /\ \A n \in Nodes, p \in Pods : store'[n][p].rv \in 1 .. Len(hist'[p])
                    /\ \A p \in Pods : OwnStore(p)'
  BY Zenon DEF Stored, Version
<1>0. Stored(TRUE)
  BY Zenon DEF Stored
<1>1. \A n \in Nodes, p \in Pods : store'[n][p].rv \in 1 .. Len(hist'[p])
  BY Zenon, <1>0, RvKept
<1>2. ASSUME NEW p \in Pods PROVE OwnStore(p)'
  <2> DEFINE h == Cni(p)
  <2>0. OwnStore(p)
    BY Zenon DEF Stored
  <2>t. /\ sbx \in [Pods -> Sandbox] /\ pc \in [Handlers -> PC] /\ h \in Handlers
        /\ h[1] = p /\ h[2] = "cni" /\ node \in [Pods -> Nodes \cup {NoNode}]
    BY Zenon, PodHandlers DEF Inv, Typed, DevTypeOK, Cni
  <2>n. sbx[p] # "none" => node[p] \in Nodes
    BY Zenon, <2>t DEF Inv, HandlersOK, SandboxOK
  <2>1. CASE KubeletStep(p)
    <3>1. sbx'[p] \in {"deleting", "none"} \/ (sbx'[p] = "adding" /\ pc'[h] = "read")
      BY Zenon, <2>t, <2>1 DEF KubeletStep, SetupPod, DestroyPod, RemoveSandbox
    <3> QED BY Zenon, <3>1 DEF OwnStore
  <2>2. CASE SetAliveStep(p)
    BY Zenon, <1>0, <2>2, OwnSetAlive
  <2>3. CASE HandlerStep(h) \/ LockStep(h)
    <3>1. /\ sbx[p] \in {"adding", "deleting"} /\ pc[h] \in Add \cup Del
          /\ UNCHANGED <<hist, store, node, start, rd>>
      BY Zenon, <2>t, <2>3, CniRuns, LoopSteps DEF elsewhere, storeVars, aliveVars
    <3>2. Moves(h)
      BY Zenon, <2>t, <2>3, HandlerMoves
    <3>3. ASSUME NEW ok, Return(h, ok)
          PROVE  pc'[h] = "idle" /\ (sbx[p] = "deleting" => sbx'[p] \notin {"adding", "up"})
      BY Zenon, <2>t, <3>3 DEF Return
    <3>4. ASSUME NEW label \in {"add", "del"}, NextLink(h, label) PROVE pc'[h] = label /\ UNCHANGED sbx
      BY Zenon, <2>t, <3>4 DEF NextLink
    <3>5. pc'[h] \notin {"read", "write"} /\ (sbx[p] = "deleting" => sbx'[p] \notin {"adding", "up"})
      <4>1. CASE UNCHANGED <<todo, sbx>> /\ pc'[h] \in Add \cup Del
        BY Zenon, <4>1 DEF Add, Del
      <4>2. CASE \E label \in {"add", "del"} : NextLink(h, label)
        BY Zenon, <3>4, <4>2
      <4>3. CASE Return(h, TRUE) \/ Return(h, FALSE)
        BY Zenon, <3>3, <4>3
      <4> QED BY Zenon, <3>2, <4>1, <4>2, <4>3 DEF Moves
    <3>6. pc[h] \notin {"read", "write"}
      BY Zenon, <3>1 DEF Add, Del
    <3> QED BY Zenon, <2>0, <3>1, <3>5, <3>6, OwnKept
  <2>4. CASE Touch(p) \/ \E n \in Nodes : Watch(n, p)
    BY Zenon, <1>0, <2>4, OwnWatch
  <2>5. CASE Aside(p)
    <3>1. /\ sbx'[p] = sbx[p] /\ pc'[h] = pc[h] /\ node'[p] = node[p] /\ start'[p] = start[p]
          /\ rd'[p] = rd[p] /\ hist'[p] = hist[p] /\ \A n \in Nodes : store'[n][p] = store[n][p]
      BY Zenon, <2>5 DEF Aside, Still
    <3>2. CASE sbx[p] = "none"
      BY Zenon, <3>1, <3>2 DEF OwnStore
    <3>3. CASE sbx[p] # "none"
      BY Zenon, <2>0, <2>n, <3>1, <3>3, OwnKept
    <3> QED BY Zenon, <3>2, <3>3
  <2> HIDE DEF h
  <2> QED BY Zenon, <2>1, <2>2, <2>3, <2>4, <2>5, StepOf DEF h
<1> QED BY Zenon, <1>1, <1>2

\* The pairs, over all the steps.
LEMMA PairsKept ==
  ASSUME NEW S \in BOOLEAN, Inv, Inv', StatusInv, Undisturbed, Calm, TodoOK, Stored(S), JoinStep,
         NEW p \in Pods, NEW q \in Pods, NEW l \in Links, VirtualLink(p, q, l), Pair(S, p, q, l)
  PROVE  Pair(S, p, q, l)'
<1>1. ASSUME NEW r \in Pods, KubeletStep(r) \/ SetAliveStep(r) PROVE Pair(S, p, q, l)'
  <2>1. CASE r = p
    BY Zenon, <1>1, <2>1, PodPairs
  <2>2. CASE r = q
    <3>1. VirtualLink(q, p, l) /\ Pair(S, q, p, l)
      BY Zenon, EitherEnd, PairTurned
    <3>2. Pair(S, q, p, l)'
      BY Zenon, <1>1, <2>2, <3>1, PodPairs
    <3> QED BY Zenon, <3>2, PairTurned
  <2>3. CASE r # p /\ r # q
    BY Zenon, <1>1, <2>3, OtherPodPairs
  <2> QED BY Zenon, <2>1, <2>2, <2>3
<1>2. ASSUME NEW h \in Handlers, HandlerStep(h) \/ LockStep(h) PROVE Pair(S, p, q, l)'
  BY Zenon, <1>2, HandlerPairs
<1>3. CASE (\E r \in Pods : Touch(r)) \/ (\E n \in Nodes, r \in Pods : Watch(n, r)) \/ UNCHANGED vars
  <2>1. UNCHANGED <<sbx, node, start, pc, todo, upd, peer, dev, miss>>
    BY Zenon, <1>3 DEF Touch, Watch, vars, kubeletVars, handlerVars
  <2> QED BY Zenon, <2>1, QuietPairs
<1> QED BY Zenon, <1>1, <1>2, <1>3 DEF JoinStep

\* No pod has been through any link when the daemons start.
LEMMA InitJoin ==
  ASSUME NEW S \in BOOLEAN, S => Synced, Init
  PROVE  JoinInv(S)
<1>1. Calm
  BY Zenon, PodHandlers DEF Init, Calm
<1>2. TodoOK
  <2>1. \A p \in Pods : sbx[p] = "none" /\ todo[Cni(p)] = <<>>
    BY Zenon, PodHandlers DEF Init
  <2>2. \A p \in Pods : 1 .. Len(todo[Cni(p)]) = {}
    BY <2>1
  <2> QED BY Zenon, <2>1, <2>2 DEF TodoOK, Begun
<1>3. Stored(S)
  <2> SUFFICES ASSUME S PROVE /\ \A n \in Nodes, p \in Pods : store[n][p].rv \in 1 .. Version(p)
                              /\ \A p \in Pods : OwnStore(p)
    BY Zenon DEF Stored
  <2>1. \A n \in Nodes, p \in Pods : store[n][p].rv = 1 /\ Version(p) = 1
    BY Zenon DEF Init, StoreInit, Version
  <2>2. \A p \in Pods : OwnStore(p)
    BY Zenon DEF Init, OwnStore
  <2> QED BY <2>1, <2>2
<1>4. ASSUME NEW p \in Pods, NEW q \in Pods, NEW l \in Links PROVE Pair(S, p, q, l)
  <2>1. \A r \in Pods : sbx[r] = "none" /\ pc[Cni(r)] = "idle" /\ dev[r][l] = NoDev
    BY Zenon, PodHandlers DEF Init, DevInit
  <2>2. InterfacesIn(dev, node, p, q, l)
    <3>1. NoDev # Veth /\ NoDev.kind # "vxlan"
      BY DEF NoDev, Veth
    <3> QED BY Zenon, <2>1, <3>1 DEF InterfacesIn
  <2> QED BY Zenon, <2>1, <2>2 DEF Pair, Linked, Half, Ends, Through, Halfway
<1> QED BY Zenon, <1>1, <1>2, <1>3, <1>4 DEF JoinInv

\* What addLink and Update do to the two ends of a link, in any interleaving of
\* the daemons, with failing links, lost requests, retries and restarts: a link that
\* one end has been through and the other has not skipped on stale news is there as
\* soon as the other end has been through it too.
THEOREM JoinCorrect ==
  ASSUME Undisturbed, Lossy => Synced
  PROVE  Spec => []JoinInv(Synced)
<1>b. Synced \in BOOLEAN
  BY Zenon, StoreAssumption
<1>1. Init => JoinInv(Synced)
  BY Zenon, <1>b, InitJoin
<1>2. Inv /\ Inv' /\ StatusInv /\ JoinInv(Synced) /\ [Next]_vars => JoinInv(Synced)'
  <2> SUFFICES ASSUME Inv, Inv', StatusInv, JoinInv(Synced), [Next]_vars PROVE JoinInv(Synced)'
    BY Zenon
  <2>1. Calm /\ TodoOK /\ Stored(Synced)
    BY Zenon DEF JoinInv
  <2>2. JoinStep
    BY Zenon, <2>1, <1>b, JoinSteps
  <2>3. Calm' /\ TodoOK' /\ Stored(Synced)'
    BY Zenon, <2>1, <2>2, CalmKept, TodoKept, StoredKept, <1>b
  <2>4. ASSUME NEW p \in Pods, NEW q \in Pods, NEW l \in Links, VirtualLink(p, q, l)
        PROVE  Pair(Synced, p, q, l)'
    <3>1. Pair(Synced, p, q, l)
      BY Zenon, <2>4 DEF JoinInv
    <3> QED BY Zenon, <2>1, <2>2, <2>4, <3>1, <1>b, PairsKept
  <2> QED BY Zenon, <2>3, <2>4 DEF JoinInv, VirtualLink
<1>3. KnownInv => StatusInv
  BY Zenon DEF KnownInv, KnownIn, StatusInv
<1> QED BY <1>1, <1>2, <1>3, HandlersCorrect, KnownCorrect, PTL DEF Spec

\* Two pods that are up are joined unless one skipped the link on stale news: "the
\* peer POD will do all the plumbing when it comes up", as addLink says.
THEOREM JoinedCorrect ==
  ASSUME Undisturbed, Lossy => Synced
  PROVE  Spec => []JoinedUnlessStale
<1>1. JoinInv(Synced) => JoinedUnlessStale
  BY Zenon DEF JoinInv, Pair, Linked, JoinedUnlessStale, BothUp, Through
<1> QED BY <1>1, JoinCorrect, PTL

\* Two pods of one node are joined whatever the watch has brought, once the
\* informers have done their first list: SetAlive writes into the daemon's own store.
THEOREM SameNodeCorrect ==
  ASSUME Undisturbed, Synced
  PROVE  Spec => []SameNodeJoined
<1>1. JoinInv(Synced) => SameNodeJoined
  BY Zenon DEF JoinInv, Pair, Linked, SameNodeJoined, BothUp, Through
<1> QED BY <1>1, JoinCorrect, PTL
=============================================================================
