--------------------------- MODULE DeliveryProofs ---------------------------
(***************************************************************************)
(* Theorems about Delivery, for every set of gateways, hosts, flows and    *)
(* protocols, every NUM_OF_GUEST and bound: what the eventual delivery of  *)
(* a packet rests on, without its fairness.  No packet and no guess is     *)
(* forgotten on its way, so that nothing is missing but the pre-requests   *)
(* the network lost when no thread has anything left to do.                *)
(***************************************************************************)
EXTENDS Delivery, AnnouncementProofs

-----------------------------------------------------------------------------
(* Delivery is Gateway with one kind of fault, so that what was proved of  *)
(* Gateway holds of it.                                                    *)

LEMMA DeliverySteps ==
  ASSUME [DeliveryNext]_deliveryVars
  PROVE  \/ lost' = lost /\ (\/ \E g \in Gateways : CaptureStep(g) \/ NdnStep(g)
                             \/ UNCHANGED vars)
         \/ \E n \in PreNames : LosePre(n) /\ lost' = lost \cup {n}
         \/ \E g \in Gateways, n \in TcpDataNames : Expire(g, n)
BY DEF DeliveryNext, Work, System, Lose, deliveryVars

LEMMA ExpireIsTimeout ==
  ASSUME NEW g \in Gateways, NEW n \in TcpDataNames, Expire(g, n)
  PROVE  /\ Tcp(n) \in Requests /\ n \in DataNames /\ OnTimeoutOrNack(g, Tcp(n)) /\ lost' = lost
         /\ UNCHANGED <<sequenceTable, posted, guest, network, history>>
BY RequestsOf DEF Expire, TcpRequest, Tcp, OnTimeoutOrNack, DataNames

LEMMA DeliveryStepIsNext ==
  ASSUME [DeliveryNext]_deliveryVars
  PROVE  [Next]_vars
<1>1. ASSUME NEW g \in Gateways, NEW n \in TcpDataNames, Expire(g, n) PROVE Next
  BY <1>1, ExpireIsTimeout DEF Next, Faults
<1> QED  BY <1>1, DeliverySteps DEF Next, System, Faults, Loss

\* Delivery implements Gateway: every invariant proved for all faults holds when
\* the network only loses pre-requests.
THEOREM DeliveryIsGateway == DeliverySpec => Spec
<1>1. DeliveryInit => Init
  BY DEF DeliveryInit
<1>2. [DeliveryNext]_deliveryVars => [Next]_vars
  BY DeliveryStepIsNext
<1> QED  BY <1>1, <1>2, PTL DEF DeliverySpec, Spec

\* Without evictions and restarts, what was put stays in the forwarders' stores.
Kindly == stored = published /\ restarts = [g \in Gateways |-> 0]

LEMMA KindlyKept == Kindly /\ [DeliveryNext]_deliveryVars => Kindly'
<1> SUFFICES ASSUME Kindly, [DeliveryNext]_deliveryVars PROVE Kindly'
  OBVIOUS
<1>1. ASSUME NEW g \in Gateways, CaptureStep(g) \/ FaceExpress(g) \/ PreStep(g) \/ DataStep(g)
      PROVE  UNCHANGED <<stored, published, restarts>>
  BY <1>1 DEF CaptureStep, DealFirst, DealNext, DealOther, FaceExpress, PreStep, DealPreTcp, DealPreOther,
              DataStep, OnData, network, history
<1>2. ASSUME NEW g \in Gateways, FacePut(g) PROVE Kindly'
  BY <1>2 DEF Kindly, FacePut
<1>3. ASSUME NEW n \in PreNames, LosePre(n) PROVE Kindly'
  BY <1>3 DEF Kindly, LosePre, history
<1>4. CASE UNCHANGED vars
  BY <1>4 DEF Kindly, vars, network, history
<1>5. ASSUME NEW g \in Gateways, CaptureStep(g) \/ NdnStep(g) PROVE Kindly'
  BY <1>1, <1>2, <1>5 DEF Kindly, NdnStep
<1>6. ASSUME NEW g \in Gateways, NEW n \in TcpDataNames, Expire(g, n) PROVE Kindly'
  BY <1>6, ExpireIsTimeout DEF Kindly, network, history
<1> QED  BY <1>3, <1>4, <1>5, <1>6, DeliverySteps

\* The content of a name that was handed to a raw socket came out.
Out(n)  == \E d \in published, i \in injected : d.name = n /\ i.pkt = d.content
Brought == \A g \in Gateways, n \in DataNames : copies[g][n] > 0 => Out(n)

LEMMA OutNext ==
  ASSUME NEW n
  PROVE  Out(n)' <=> \E d \in published', i \in injected' : d.name = n /\ i.pkt = d.content
BY DEF Out

LEMMA BroughtKept ==
  TypeInv /\ Kindly /\ Brought /\ [DeliveryNext]_deliveryVars => Brought'
<1> SUFFICES ASSUME TypeInv, Kindly, Brought, [DeliveryNext]_deliveryVars,
                    NEW h \in Gateways, NEW n \in DataNames, copies'[h][n] > 0
             PROVE  Out(n)'
  BY DEF Brought
<1>0. published \subseteq published' /\ injected \subseteq injected' => (Out(n) => Out(n)')
  BY OutNext DEF Out
<1>1. ASSUME NEW g \in Gateways, CaptureStep(g) \/ FacePut(g) \/ FaceExpress(g) \/ PreStep(g)
      PROVE  copies' = copies /\ published \subseteq published' /\ injected \subseteq injected'
  BY <1>1 DEF CaptureStep, DealFirst, DealNext, DealOther, FacePut, FaceExpress, PreStep, DealPreTcp,
              DealPreOther, history
<1>2. ASSUME NEW m \in PreNames, LosePre(m) PROVE UNCHANGED <<copies, published, injected>>
  BY <1>2 DEF LosePre, history
<1>3. ASSUME NEW g \in Gateways, NEW m \in TcpDataNames, Expire(g, m)
      PROVE  UNCHANGED <<copies, published, injected>>
  BY <1>3, ExpireIsTimeout DEF history
<1>4. CASE UNCHANGED vars
  BY <1>0, <1>4 DEF vars, history, Brought
<1>5. ASSUME NEW g \in Gateways, DataStep(g) PROVE Out(n)'
  <2>1. PICK d \in stored, isTCP \in BOOLEAN : OnData(g, d, isTCP)
    BY <1>5 DEF DataStep
  <2> DEFINE asked == pending[g][[name |-> d.name, isTCP |-> isTCP]]
             out   == [gw |-> g, to |-> TargetIp(d.name, isTCP), pkt |-> d.content]
  <2>2. /\ copies' = [copies EXCEPT ![g][d.name] = @ + asked]
        /\ injected' = injected \cup {out}
        /\ published' = published
    BY <2>1 DEF OnData
  <2>3. out.pkt = d.content
    OBVIOUS
  <2> HIDE DEF asked, out
  <2>4. CASE n = d.name
    <3>1. d \in published' /\ out \in injected'
      BY <2>2 DEF Kindly
    <3> QED  BY <2>3, <2>4, <3>1, OutNext
  <2>5. CASE n # d.name
    <3>1. copies'[h][n] = copies[h][n]
      BY <2>2, <2>5 DEF TypeInv, TypeOK, Counts
    <3>2. Out(n)
      BY <3>1 DEF Brought
    <3> QED  BY <1>0, <2>2, <3>2
  <2> QED  BY <2>4, <2>5
<1> QED  BY <1>0, <1>1, <1>2, <1>3, <1>4, <1>5, DeliverySteps DEF NdnStep, Brought

Ground == TypeInv /\ NameInv /\ PreFollowsData /\ Kindly /\ Brought

LEMMA GroundInvariant == DeliverySpec => []Ground
<1>1. DeliveryInit => Kindly
  BY DEF DeliveryInit, Init, Kindly
<1>2. DeliverySpec => []Kindly
  BY <1>1, KindlyKept, PTL DEF DeliverySpec
<1>3. DeliverySpec => [](TypeInv /\ NameInv /\ PreFollowsData)
  BY DeliveryIsGateway, TypeInvariant, NameInvariant, DataBeforePre, PTL
<1>4. DeliveryInit => Brought
  <2> SUFFICES ASSUME Init, NEW g \in Gateways, NEW n \in DataNames PROVE ~(copies[g][n] > 0)
    BY DEF DeliveryInit, Brought
  <2>1. copies[g][n] = 0
    BY DEF Init, NoCounts
  <2> QED  BY <2>1
<1>5. DeliverySpec => []Brought
  BY <1>2, <1>3, <1>4, BroughtKept, PTL DEF DeliverySpec
<1>6. TypeInv /\ NameInv /\ PreFollowsData /\ Kindly /\ Brought => Ground
  BY DEF Ground
<1> QED  BY <1>2, <1>3, <1>5, <1>6, PTL

\* A Data has a pre-request of its own, which leads to its name.
LEMMA OwnPreName ==
  ASSUME NEW k \in Keys, NEW s \in Ids, NEW t \in BOOLEAN
  PROVE  /\ PreNameOf(DataName(k, s, t)) = PreName(k, s, t)
         /\ (Len(DataName(k, s, t)) = 5) = t
BY DEF PreNameOf, PreName, DataName, BuildName

\* One name, one Data.
LEMMA OneData ==
  ASSUME Ground, NEW d \in Sent, NEW e \in Sent, d.name = e.name
  PROVE  d = e
<1>1. d.content.key \in Keys /\ Placed(d)
  BY DEF Ground, NameInv, Packets
<1>2. PICK s \in Ids, t \in BOOLEAN : d.name = DataName(d.content.key, s, t)
  BY <1>1 DEF Placed
<1>3. SourceOf(d.name) = d.content.key.src /\ d.content.key.src \in Hosts
  BY <1>1, <1>2, NextOfPre, KeyAssumption DEF KeyType
<1>4. restarts[GatewayOf[SourceOf(d.name)]] = 0
  BY <1>3, GatewayAssumption DEF Ground, Kindly
<1> QED  BY <1>4 DEF Ground, NameInv, Alone

-----------------------------------------------------------------------------
(* Packets.                                                                *)

\* The Data of a packet is published or waits to be.
Held(d) == d \in published \cup PostedPuts(GatewayOf[d.content.key.src])

\* What PacketsInHand says of it.
Safe(d) == InHand(d) \/ PreNameOf(d.name) \in lost \/ \E i \in injected : i.pkt = d.content

\* The ways to be in hand.
Posts(g, n)  == \E i \in DOMAIN posted[g] : posted[g][i] = [op |-> "express", name |-> n]
Request(d)   == [name |-> d.name, isTCP |-> Len(d.name) = 5]
Requested(d) == /\ d \in stored
                /\ pulled[GatewayOf[d.content.key.dst]][d.name] > 0
                /\ pending[GatewayOf[d.content.key.dst]][Request(d)] > 0

LEMMA SafeParts ==
  ASSUME NEW d
  PROVE  Safe(d) <=> \/ Posts(GatewayOf[d.content.key.src], PreNameOf(d.name))
                     \/ pre[PreNameOf(d.name)] > 0
                     \/ Requested(d)
                     \/ PreNameOf(d.name) \in lost
                     \/ \E i \in injected : i.pkt = d.content
BY DEF Safe, InHand, Posts, Requested, Request

LEMMA SafePartsNext ==
  ASSUME NEW d
  PROVE  Safe(d)' <=> \/ Posts(GatewayOf[d.content.key.src], PreNameOf(d.name))'
                      \/ pre'[PreNameOf(d.name)] > 0
                      \/ Requested(d)'
                      \/ PreNameOf(d.name) \in lost'
                      \/ \E i \in injected' : i.pkt = d.content
BY DEF Safe, InHand, Posts, Requested, Request

\* The names of a Data that was sent.
LEMMA DataOf ==
  ASSUME Ground, NEW d \in Sent
  PROVE  /\ d.content.key \in Keys
         /\ GatewayOf[d.content.key.src] \in Gateways /\ GatewayOf[d.content.key.dst] \in Gateways
         /\ Request(d) \in Requests
         /\ \E s \in Ids, t \in BOOLEAN : /\ d.name = DataName(d.content.key, s, t)
                                          /\ PreNameOf(d.name) = PreName(d.content.key, s, t)
                                          /\ PreName(d.content.key, s, t) \in PreNames
                                          /\ Request(d) = [name |-> d.name, isTCP |-> t]
<1>1. d.content.key \in Keys /\ Placed(d)
  BY DEF Ground, NameInv, Packets
<1>2. PICK s \in Ids, t \in BOOLEAN : d.name = DataName(d.content.key, s, t)
  BY <1>1 DEF Placed
<1>3. PreNameOf(d.name) = PreName(d.content.key, s, t) /\ (Len(d.name) = 5) = t
  BY <1>1, <1>2, OwnPreName
<1>4. PreName(d.content.key, s, t) \in PreNames /\ d.name \in DataNames
  BY <1>1, <1>2, NextOfPre
<1>5. GatewayOf[d.content.key.src] \in Gateways /\ GatewayOf[d.content.key.dst] \in Gateways
  BY <1>1, KeyAssumption, GatewayAssumption DEF KeyType
<1>6. Request(d) = [name |-> d.name, isTCP |-> t]
  BY <1>3 DEF Request
<1> QED  BY <1>1, <1>2, <1>3, <1>4, <1>5, <1>6 DEF Requests

\* An announcement leaves what is posted where it is, and adds its pre-request.
LEMMA PostsOnAnnounce ==
  ASSUME TypeInv, NEW g \in Gateways, NEW p \in Packets, NEW s \in Ids, NEW t \in BOOLEAN,
         Announces(g, p, s, t), NEW h \in Gateways, NEW n
  PROVE  /\ Posts(h, n) => Posts(h, n)'
         /\ Posts(g, PreName(p.key, s, t))'
<1> DEFINE put     == PutOf(p, s, t)
           express == ExpressOf(p.key, s, t)
<1>1. posted \in [Gateways -> Seq(FaceOps)] /\ posted' = [posted EXCEPT ![g] = @ \o <<put, express>>]
  BY DEF Announces, TypeInv, TypeOK
<1> HIDE DEF put, express
<1>2. /\ DOMAIN posted'[g] = 1..(Len(posted[g]) + 2) /\ Len(posted[g]) \in Nat
      /\ DOMAIN posted[g] = 1..Len(posted[g])
      /\ \A j \in 1..Len(posted[g]) : posted'[g][j] = posted[g][j]
      /\ posted'[g][Len(posted[g]) + 2] = express
  <2>1. posted'[g] = posted[g] \o <<put, express>> /\ posted[g] \in Seq(FaceOps)
    BY <1>1
  <2> QED  BY <2>1, QueueExtended
<1>3. h # g => posted'[h] = posted[h]
  BY <1>1
<1>4. Posts(h, n) => Posts(h, n)'
  <2>1. SUFFICES ASSUME NEW i \in DOMAIN posted[h], posted[h][i] = [op |-> "express", name |-> n]
                 PROVE  i \in DOMAIN posted'[h] /\ posted'[h][i] = posted[h][i]
    BY DEF Posts
  <2> QED  BY <1>2, <1>3
<1>5. Posts(g, PreName(p.key, s, t))'
  <2>1. Len(posted[g]) + 2 \in DOMAIN posted'[g]
    BY <1>2
  <2>2. express = [op |-> "express", name |-> PreName(p.key, s, t)]
    BY DEF express, ExpressOf
  <2> QED  BY <1>2, <2>1, <2>2 DEF Posts
<1> QED  BY <1>4, <1>5

\* A pre-request leaves the queue only to be on its way.
LEMMA PostsOnTake ==
  ASSUME TypeInv, NEW g \in Gateways, FacePut(g) \/ FaceExpress(g), NEW h \in Gateways, NEW n \in PreNames, Posts(h, n)
  PROVE  Posts(h, n)' \/ (FaceExpress(g) /\ pre' = [pre EXCEPT ![n] = @ + 1])
<1>1. PICK i \in DOMAIN posted[h] : posted[h][i] = [op |-> "express", name |-> n]
  BY DEF Posts
<1>2. /\ h # g => posted'[h] = posted[h]
      /\ h = g => /\ Len(posted[g]) \in Nat /\ Len(posted[g]) > 0
                  /\ Head(posted[g]) = posted[g][1]
                  /\ DOMAIN posted[g] = 1..Len(posted[g])
                  /\ DOMAIN posted'[g] = 1..(Len(posted[g]) - 1)
                  /\ \A j \in 1..(Len(posted[g]) - 1) : posted'[g][j] = posted[g][j + 1]
  BY QueueTail
<1>3. CASE h # g
  BY <1>1, <1>2, <1>3 DEF Posts
<1>4. CASE h = g /\ i # 1
  <2> DEFINE len == Len(posted[g])
  <2>a. /\ len \in Nat /\ i \in 1..len
        /\ DOMAIN posted'[g] = 1..(len - 1)
        /\ \A j \in 1..(len - 1) : posted'[g][j] = posted[g][j + 1]
    BY <1>2, <1>4
  <2> HIDE DEF len
  <2>b. i - 1 \in 1..(len - 1) /\ (i - 1) + 1 = i
    BY <1>4, <2>a
  <2>1. i - 1 \in DOMAIN posted'[g] /\ posted'[g][i - 1] = posted[g][i]
    BY <2>a, <2>b
  <2> QED  BY <1>1, <1>4, <2>1 DEF Posts
<1>5. CASE h = g /\ i = 1
  <2>1. Head(posted[g]) = [op |-> "express", name |-> n]
    BY <1>1, <1>2, <1>5
  <2>2. ~FacePut(g)
    BY <2>1 DEF FacePut, PutOps
  <2> QED  BY <2>1, <2>2 DEF FaceExpress
<1> QED  BY <1>3, <1>4, <1>5

\* Expressing interests takes none away.
LEMMA ExpressGrows ==
  ASSUME TypeInv, NEW g \in Gateways, NEW names, NEW isTCP, Express(g, names, isTCP),
         NEW h \in Gateways, NEW r \in Requests
  PROVE  /\ pending[h][r] > 0 => pending'[h][r] > 0
         /\ h = g /\ r.name \in names /\ r.isTCP = isTCP => pending'[h][r] > 0
<1>1. pending \in [Gateways -> [Requests -> Nat]]
  BY DEF TypeInv, TypeOK
<1> QED  BY <1>1 DEF Express

\* The gateway a pre-request reaches asks for its Data.
LEMMA PreAsks ==
  ASSUME TypeInv, NEW g \in Gateways, PreStep(g)
  PROVE  \E l \in Keys, r \in Ids, u \in BOOLEAN : \E names :
           /\ GatewayOf[l.dst] = g
           /\ pre' = [pre EXCEPT ![PreName(l, r, u)] = @ - 1]
           /\ DataName(l, r, u) \in names
           /\ Express(g, names, u)
           /\ pulled' = Count(pulled, g, {DataName(l, r, u)})
<1>1. PICK m \in PreNames : DealPreTcp(g, m) \/ DealPreOther(g, m)
  BY DEF PreStep
<1>2. CASE DealPreTcp(g, m)
  <2>1. PICK l \in Keys, r \in Ids : m = BuildName(l, 3, TcpUid(l, r)) /\ GatewayOf[l.dst] = g
    BY <1>2, ReceivesTcp DEF DealPreTcp
  <2>2. m = PreName(l, r, TRUE) /\ NextName(m, TRUE) = DataName(l, r, TRUE)
    BY <2>1, NextOfTcp DEF PreName, DataName
  <2>3. /\ pre' = [pre EXCEPT ![m] = @ - 1]
        /\ Express(g, {NextName(m, TRUE)} \cup NewGuesses(g, m), TRUE)
        /\ pulled' = Count(pulled, g, {NextName(m, TRUE)})
    BY <1>2 DEF DealPreTcp, Wanted, Arrives
  <2> QED  BY <2>1, <2>2, <2>3
<1>3. CASE DealPreOther(g, m)
  <2>1. PICK l \in Keys, r \in Ids : m = BuildName(l, 1, r) /\ GatewayOf[l.dst] = g
    BY <1>3, ReceivesOther DEF DealPreOther
  <2>2. m = PreName(l, r, FALSE) /\ NextName(m, FALSE) = DataName(l, r, FALSE)
    BY <2>1, NextOfOther DEF PreName, DataName
  <2>3. /\ pre' = [pre EXCEPT ![m] = @ - 1]
        /\ Express(g, {NextName(m, FALSE)}, FALSE)
        /\ pulled' = Count(pulled, g, {NextName(m, FALSE)})
    BY <1>3 DEF DealPreOther, Arrives
  <2> QED  BY <2>1, <2>2, <2>3
<1> QED  BY <1>1, <1>2, <1>3

\* A pre-request on its way has its Data in the stores.
LEMMA PreHasData ==
  ASSUME Ground, NEW d \in Sent, pre[PreNameOf(d.name)] > 0
  PROVE  d \in stored
<1>1. PICK s \in Ids, t \in BOOLEAN : /\ d.name = DataName(d.content.key, s, t)
                                      /\ PreNameOf(d.name) = PreName(d.content.key, s, t)
  BY DataOf
<1>2. d.content.key \in Keys
  BY DataOf
<1>3. /\ PreNameOf(d.name) \in PreNames
      /\ NextName(PreNameOf(d.name), PreNameOf(d.name) \in TcpPreNames) = d.name
  BY <1>1, <1>2, NextOfPre
<1>4. PICK e \in published : e.name = d.name
  BY <1>3 DEF Ground, PreFollowsData
<1>5. e = d
  BY <1>4, OneData DEF Sent
<1> QED  BY <1>4, <1>5 DEF Ground, Kindly

\* A Data stays in hand while a pre-request is answered: its own turns into a
\* request for it, others do not touch it.
LEMMA SafeOnPre ==
  ASSUME Ground, NEW g \in Gateways, PreStep(g), lost' = lost, NEW d \in Sent, Safe(d)
  PROVE  Safe(d)'
<1> DEFINE k == d.content.key
           P == PreNameOf(d.name)
<1>1. UNCHANGED <<posted, stored, injected, lost>>
  BY DEF PreStep, DealPreTcp, DealPreOther
<1>a. PICK l \in Keys, r \in Ids, u \in BOOLEAN : \E names :
        /\ GatewayOf[l.dst] = g
        /\ pre' = [pre EXCEPT ![PreName(l, r, u)] = @ - 1]
        /\ DataName(l, r, u) \in names
        /\ Express(g, names, u)
        /\ pulled' = Count(pulled, g, {DataName(l, r, u)})
  BY PreAsks DEF Ground
<1>2. PICK names :
        /\ GatewayOf[l.dst] = g
        /\ pre' = [pre EXCEPT ![PreName(l, r, u)] = @ - 1]
        /\ DataName(l, r, u) \in names
        /\ Express(g, names, u)
        /\ pulled' = Count(pulled, g, {DataName(l, r, u)})
  BY <1>a
<1>3. k \in Keys /\ GatewayOf[k.dst] \in Gateways /\ Request(d) \in Requests
  BY DataOf
<1>4. PICK s \in Ids, t \in BOOLEAN : /\ d.name = DataName(k, s, t) /\ P = PreName(k, s, t)
                                      /\ P \in PreNames /\ Request(d) = [name |-> d.name, isTCP |-> t]
  BY DataOf
<1>b. /\ pulled[GatewayOf[k.dst]][d.name] > 0 => pulled'[GatewayOf[k.dst]][d.name] > 0
      /\ GatewayOf[k.dst] = g /\ d.name = DataName(l, r, u) => pulled'[GatewayOf[k.dst]][d.name] > 0
  <2> DEFINE h == GatewayOf[k.dst]
             n == d.name
             o == DataName(l, r, u)
  <2>1. h \in Gateways /\ n \in DataNames /\ pulled' = Count(pulled, g, {o})
    BY <1>2, <1>3 DEF Requests, Request
  <2>2. pulled \in [Gateways -> Counts]
    BY DEF Ground, TypeInv, TypeOK
  <2> HIDE DEF h, n, o
  <2>3. pulled'[h][n] = IF h = g /\ n \in {o} THEN pulled[h][n] + 1 ELSE pulled[h][n]
    BY <2>1, <2>2, CountAt
  <2>4. pulled[h][n] \in Nat
    BY <2>1, <2>2 DEF Counts
  <2>5. (pulled[h][n] > 0 => pulled'[h][n] > 0) /\ (h = g /\ n = o => pulled'[h][n] > 0)
    BY <2>3, <2>4
  <2> QED  BY <2>5 DEF h, n, o
<1>5. Requested(d) => Requested(d)'
  <2>1. TypeInv
    BY DEF Ground
  <2>2. pending[GatewayOf[k.dst]][Request(d)] > 0 => pending'[GatewayOf[k.dst]][Request(d)] > 0
    BY <1>2, <1>3, <2>1, ExpressGrows
  <2> QED  BY <1>1, <1>b, <2>2 DEF Requested, Request
<1>6. ASSUME pre[P] > 0 PROVE pre'[P] > 0 \/ Requested(d)'
  <2>1. CASE P # PreName(l, r, u)
    <3>1. pre \in [PreNames -> Nat]
      BY DEF Ground, TypeInv, TypeOK
    <3>2. pre'[P] = pre[P]
      BY <1>2, <1>4, <2>1, <3>1
    <3> QED  BY <1>6, <3>2
  <2>2. CASE P = PreName(l, r, u)
    <3>1. s = r /\ t = u /\ k.src = l.src /\ k.dst = l.dst /\ (t => k = l)
      <4>1. k \in Keys /\ PreName(k, s, t) = PreName(l, r, u)
        BY <1>3, <1>4, <2>2
      <4> HIDE DEF k
      <4> QED  BY <4>1, PreNameInjective
    <3>2. d.name = DataName(l, r, u)
      BY <1>4, <3>1 DEF DataName, BuildName
    <3>3. TypeInv
      BY DEF Ground
    <3>4. Request(d).name = DataName(l, r, u) /\ Request(d).isTCP = u
      BY <1>4, <3>1, <3>2
    <3>5. pending'[GatewayOf[k.dst]][Request(d)] > 0
      BY <1>2, <1>3, <3>1, <3>3, <3>4, ExpressGrows
    <3>6. d \in stored'
      BY <1>1, <1>6, PreHasData
    <3>7. pulled'[GatewayOf[k.dst]][d.name] > 0
      BY <1>2, <1>b, <3>1, <3>2
    <3> QED  BY <3>5, <3>6, <3>7 DEF Requested, Request
  <2> QED  BY <2>1, <2>2
<1>7. Posts(GatewayOf[k.src], P) => Posts(GatewayOf[k.src], P)'
  BY <1>1 DEF Posts
<1> QED  BY <1>1, <1>5, <1>6, <1>7, SafeParts, SafePartsNext

\* While a Data is received: it is the requested one, as no other has its name.
LEMMA SafeOnData ==
  ASSUME Ground, NEW g \in Gateways, DataStep(g), lost' = lost, NEW d \in Sent, Safe(d)
  PROVE  Safe(d)'
<1> DEFINE h == GatewayOf[d.content.key.dst]
           q == Request(d)
<1>0. h \in Gateways /\ q \in Requests
  BY DataOf
<1>1. PICK e \in stored, isTCP \in BOOLEAN : OnData(g, e, isTCP)
  BY DEF DataStep
<1> DEFINE r == [name |-> e.name, isTCP |-> isTCP]
<1>2. /\ UNCHANGED <<posted, stored, pre, pulled, lost>>
      /\ pending' = [pending EXCEPT ![g][r] = 0]
      /\ injected' = injected \cup {[gw |-> g, to |-> TargetIp(e.name, isTCP), pkt |-> e.content]}
  BY <1>1 DEF OnData, Satisfy, network
<1>3. e \in Sent
  BY DEF Sent, Ground, Kindly
<1>4. ASSUME Requested(d) PROVE Requested(d)' \/ \E i \in injected' : i.pkt = d.content
  <2>1. CASE q = r
    <3>1. e.name = d.name
      BY <2>1 DEF Request
    <3>2. e = d
      BY <1>3, <3>1, OneData
    <3> DEFINE out == [gw |-> g, to |-> TargetIp(e.name, isTCP), pkt |-> e.content]
    <3>3. out \in injected' /\ out.pkt = e.content
      BY <1>2
    <3> HIDE DEF out
    <3> QED  BY <3>2, <3>3
  <2>2. CASE q # r
    <3>1. pending \in [Gateways -> [Requests -> Nat]]
      BY DEF Ground, TypeInv, TypeOK
    <3> HIDE DEF h, q, r
    <3>2. pending'[h][q] = pending[h][q]
      BY <1>0, <1>2, <2>2, <3>1
    <3> QED  BY <1>2, <1>4, <3>2 DEF Requested, h, q, Request
  <2> QED  BY <2>1, <2>2
<1>5. Posts(GatewayOf[d.content.key.src], PreNameOf(d.name)) => Posts(GatewayOf[d.content.key.src], PreNameOf(d.name))'
  BY <1>2 DEF Posts
<1>6. (\E i \in injected : i.pkt = d.content) => (\E i \in injected' : i.pkt = d.content)
  BY <1>2
<1> QED  BY <1>2, <1>4, <1>5, <1>6, SafeParts, SafePartsNext

\* A guess that expires: the request of an announced Data is another one, or the
\* Data is out already.
LEMMA SafeOnExpire ==
  ASSUME Ground, NEW g \in Gateways, NEW n \in TcpDataNames, Expire(g, n), NEW d \in Sent, Safe(d)
  PROVE  Safe(d)'
<1> DEFINE h == GatewayOf[d.content.key.dst]
           q == Request(d)
           r == Tcp(n)
<1>0. h \in Gateways /\ q \in Requests /\ r \in Requests /\ n \in DataNames
  BY DataOf, ExpireIsTimeout
<1>1. /\ UNCHANGED <<posted, stored, pre, pulled, injected, lost>>
      /\ pending' = [pending EXCEPT ![g][r] = @ - 1]
  BY ExpireIsTimeout DEF OnTimeoutOrNack, network, history
<1>2. pending \in [Gateways -> [Requests -> Nat]]
  BY DEF Ground, TypeInv, TypeOK
<1>3. ASSUME Requested(d) PROVE Requested(d)' \/ \E i \in injected' : i.pkt = d.content
  <2>1. pulled[h][d.name] > 0 /\ pending[h][q] > 0
    BY <1>3 DEF Requested
  <2>2. CASE h = g /\ q = r
    <3>1. d.name = n
      BY <2>2 DEF Request, Tcp
    <3>2. CASE copies[g][n] > 0
      <4>1. PICK e \in published, i \in injected : e.name = n /\ i.pkt = e.content
        BY <1>0, <3>2 DEF Ground, Brought, Out
      <4>2. e = d
        BY <3>1, <4>1, OneData DEF Sent
      <4> QED  BY <1>1, <4>1, <4>2
    <3>3. CASE ~(copies[g][n] > 0)
      <4>1. pulled[g][n] > 0
        BY <2>1, <2>2, <3>1
      <4>2. pulled[g][n] # 0
        BY <4>1
      <4>3. pending[g][r] > 1
        BY <3>3, <4>2 DEF Expire, TcpRequest, Tcp
      <4> HIDE DEF h, q, r
      <4>4. pending'[h][q] > 0
        BY <1>0, <1>1, <1>2, <2>2, <4>3
      <4> QED  BY <1>1, <1>3, <4>4 DEF Requested, h, q
    <3> QED  BY <3>2, <3>3
  <2>3. CASE ~(h = g /\ q = r)
    <3> HIDE DEF h, q, r
    <3>1. pending'[h][q] = pending[h][q]
      BY <1>0, <1>1, <1>2, <2>3
    <3> QED  BY <1>1, <1>3, <3>1 DEF Requested, h, q, Request
  <2> QED  BY <2>2, <2>3
<1>4. Posts(GatewayOf[d.content.key.src], PreNameOf(d.name)) => Posts(GatewayOf[d.content.key.src], PreNameOf(d.name))'
  BY <1>1 DEF Posts
<1> QED  BY <1>1, <1>3, <1>4, SafeParts, SafePartsNext

\* Nothing in hand is let go: every step of the threads and of the network
\* keeps each Data in hand, loses its pre-request or brings it out.
LEMMA SafeKept ==
  ASSUME Ground, [DeliveryNext]_deliveryVars, NEW d \in Sent, Safe(d)
  PROVE  Safe(d)'
<1> DEFINE h == GatewayOf[d.content.key.src]
           P == PreNameOf(d.name)
<1>0. TypeInv /\ h \in Gateways /\ P \in PreNames
  BY DataOf DEF Ground
<1>1. ASSUME NEW g \in Gateways, CaptureStep(g), lost' = lost PROVE Safe(d)'
  <2>1. PICK p \in Packets, s \in Ids, t \in BOOLEAN : Announces(g, p, s, t)
    BY <1>0, <1>1, CaptureAnnounces
  <2>2. Posts(h, P) => Posts(h, P)'
    BY <1>0, <2>1, PostsOnAnnounce
  <2>3. UNCHANGED <<pre, stored, pending, pulled, injected>>
    BY <2>1 DEF Announces
  <2> QED  BY <1>1, <2>2, <2>3, SafeParts, SafePartsNext DEF Requested, Request
<1>2. ASSUME NEW g \in Gateways, FacePut(g) \/ FaceExpress(g), lost' = lost PROVE Safe(d)'
  <2>1. UNCHANGED <<pending, pulled, injected>> /\ stored \subseteq stored'
    BY <1>2 DEF FacePut, FaceExpress, history
  <2>2. pre \in [PreNames -> Nat]
    BY <1>0 DEF TypeInv, TypeOK
  <2>3. pre[P] > 0 => pre'[P] > 0
    <3>1. CASE FacePut(g)
      BY <3>1 DEF FacePut
    <3>2. CASE FaceExpress(g)
      <4>1. pre' = [pre EXCEPT ![Head(posted[g]).name] = @ + 1]
        BY <3>2 DEF FaceExpress
      <4> HIDE DEF P
      <4> QED  BY <1>0, <2>2, <4>1
    <3> QED  BY <1>2, <3>1, <3>2
  <2>4. Posts(h, P) => Posts(h, P)' \/ pre'[P] > 0
    <3>1. ASSUME Posts(h, P) PROVE Posts(h, P)' \/ pre' = [pre EXCEPT ![P] = @ + 1]
      BY <1>0, <1>2, <3>1, PostsOnTake
    <3>2. pre' = [pre EXCEPT ![P] = @ + 1] => pre'[P] > 0
      <4> HIDE DEF P
      <4> QED  BY <1>0, <2>2
    <3> QED  BY <3>1, <3>2
  <2> QED  BY <1>2, <2>1, <2>3, <2>4, SafeParts, SafePartsNext DEF Requested, Request
<1>3. ASSUME NEW n \in PreNames, LosePre(n), lost' = lost \cup {n} PROVE Safe(d)'
  <2>1. UNCHANGED <<posted, stored, pending, pulled, injected>> /\ pre' = [pre EXCEPT ![n] = @ - 1]
    BY <1>3 DEF LosePre, Arrives, process, history
  <2>2. pre \in [PreNames -> Nat]
    BY <1>0 DEF TypeInv, TypeOK
  <2>3. pre[P] > 0 => pre'[P] > 0 \/ P \in lost'
    <3> HIDE DEF P
    <3> QED  BY <1>0, <1>3, <2>1, <2>2
  <2> QED  BY <1>3, <2>1, <2>3, SafeParts, SafePartsNext DEF Requested, Request, Posts
<1>4. CASE UNCHANGED vars /\ lost' = lost
  <2>1. UNCHANGED <<posted, stored, pre, pending, pulled, injected, lost>>
    BY <1>4 DEF vars, process, network, history
  <2> QED  BY <2>1, SafeParts, SafePartsNext DEF Requested, Request, Posts
<1> QED  BY <1>1, <1>2, <1>3, <1>4, SafeOnPre, SafeOnData, SafeOnExpire, DeliverySteps DEF NdnStep

\* Nor does its Data vanish between the capture thread and the forwarders.
LEMMA HeldKept ==
  ASSUME Ground, [DeliveryNext]_deliveryVars, NEW d \in Sent, Held(d)
  PROVE  Held(d)'
<1> DEFINE h == GatewayOf[d.content.key.src]
<1>0. TypeInv /\ h \in Gateways
  BY DataOf DEF Ground
<1>1. ASSUME NEW g \in Gateways, CaptureStep(g) PROVE Held(d)'
  <2>1. PICK p \in Packets, s \in Ids, t \in BOOLEAN : Announces(g, p, s, t)
    BY <1>0, <1>1, CaptureAnnounces
  <2>2. PostedPuts(h) \subseteq PostedPuts(h)'
    BY <1>0, <2>1, PutsOnAnnounce
  <2>3. published' = published
    BY <2>1 DEF Announces
  <2> QED  BY <2>2, <2>3 DEF Held
<1>2. ASSUME NEW g \in Gateways, FacePut(g) \/ FaceExpress(g) PROVE Held(d)'
  <2>1. PostedPuts(h) \subseteq PostedPuts(h)' \cup published' /\ published \subseteq published'
    BY <1>0, <1>2, PutsOnTake
  <2> QED  BY <2>1 DEF Held
<1>3. CASE Quiet
  <2>1. UNCHANGED <<posted, published>>
    BY <1>3, QuietUnchanged
  <2> QED  BY <2>1 DEF Held, PostedPuts
<1>4. ASSUME NEW g \in Gateways, NEW n \in TcpDataNames, Expire(g, n) PROVE Quiet
  BY <1>4, ExpireIsTimeout DEF Quiet
<1> QED  BY <1>1, <1>2, <1>3, <1>4, DeliverySteps DEF NdnStep, Quiet, Loss

LEMMA PacketsInHandIs ==
  PacketsInHand <=> \A p \in captured : \E d : d.content = p /\ Held(d) /\ Safe(d)
BY DEF PacketsInHand, Held, Safe

LEMMA PacketsInHandNext ==
  PacketsInHand' <=> \A p \in captured' : \E d : d.content = p /\ Held(d)' /\ Safe(d)'
BY DEF PacketsInHand, Held, Safe

\* An announced packet starts in hand.
LEMMA NewInHand ==
  ASSUME Ground, NEW g \in Gateways, NEW p \in Packets, NEW s \in Ids, NEW t \in BOOLEAN, Announces(g, p, s, t)
  PROVE  \E d : d.content = p /\ Held(d)' /\ Safe(d)'
<1> DEFINE d == [name |-> DataName(p.key, s, t), content |-> p]
<1>1. TypeInv /\ p.key \in Keys /\ g = GatewayOf[p.key.src]
  BY DEF Ground, Packets, Announces
<1>2. d.content = p /\ d.name = DataName(p.key, s, t)
  OBVIOUS
<1>3. PostedPuts(g)' = PostedPuts(g) \cup {d}
  BY <1>1, PutsOnAnnounce
<1>4. PreNameOf(d.name) = PreName(p.key, s, t)
  BY <1>1, <1>2, OwnPreName
<1>5. Posts(g, PreName(p.key, s, t))'
  BY <1>1, PostsOnAnnounce
<1> HIDE DEF d
<1>6. Held(d)'
  BY <1>1, <1>2, <1>3 DEF Held
<1>7. Safe(d)'
  BY <1>1, <1>2, <1>4, <1>5, SafePartsNext
<1> QED  BY <1>2, <1>6, <1>7

LEMMA PacketsStep == Ground /\ PacketsInHand /\ [DeliveryNext]_deliveryVars => PacketsInHand'
<1> SUFFICES ASSUME Ground, PacketsInHand, [DeliveryNext]_deliveryVars, NEW p \in captured'
             PROVE  \E d : d.content = p /\ Held(d)' /\ Safe(d)'
  BY PacketsInHandNext
<1>1. CASE p \in captured
  <2>1. PICK d : d.content = p /\ Held(d) /\ Safe(d)
    BY <1>1, PacketsInHandIs
  <2>2. p \in Packets
    BY <1>1 DEF Ground, TypeInv, TypeOK
  <2>3. GatewayOf[p.key.src] \in Gateways
    BY <2>2, KeyAssumption, GatewayAssumption DEF KeyType, Packets
  <2>4. d \in Sent
    BY <2>1, <2>3 DEF Held, Sent
  <2> QED  BY <2>1, <2>4, HeldKept, SafeKept
<1>2. CASE p \notin captured
  <2>1. TypeInv
    BY DEF Ground
  <2>2. captured' = captured \/ \E g \in Gateways : CaptureStep(g)
    <3>1. ASSUME NEW g \in Gateways, NdnStep(g) PROVE captured' = captured
      BY <3>1 DEF NdnStep, FacePut, FaceExpress, PreStep, DealPreTcp, DealPreOther, DataStep, OnData, history
    <3>2. ASSUME NEW n \in PreNames, LosePre(n) PROVE captured' = captured
      BY <3>2 DEF LosePre, history
    <3>3. ASSUME NEW g \in Gateways, NEW n \in TcpDataNames, Expire(g, n) PROVE captured' = captured
      BY <3>3, ExpireIsTimeout DEF history
    <3> QED  BY <3>1, <3>2, <3>3, DeliverySteps DEF vars, history
  <2>3. PICK g \in Gateways, q \in Packets, s \in Ids, t \in BOOLEAN : Announces(g, q, s, t)
    BY <1>2, <2>1, <2>2, CaptureAnnounces
  <2>4. p = q
    BY <1>2, <2>3 DEF Announces
  <2> QED  BY <2>3, <2>4, NewInHand
<1> QED  BY <1>1, <1>2

\* A packet that was captured is never forgotten: posted, announced, asked for
\* or out, unless the network lost its pre-request.
THEOREM NoPacketForgotten == DeliverySpec => []PacketsInHand
<1>1. DeliveryInit => PacketsInHand
  BY DEF DeliveryInit, Init, PacketsInHand
<1> QED  BY <1>1, PacketsStep, GroundInvariant, PTL DEF DeliverySpec

-----------------------------------------------------------------------------
(* Guesses.                                                                *)

\* A name was asked for by a request that is open, or has brought its content, or
\* has ended by its lifetime.
AskedFor(g, n) == pending[g][Tcp(n)] > 0 \/ copies[g][n] > 0 \/ <<g, n>> \in expired

\* What the table holds is asked for: this is why it may keep the gateway from
\* asking again.
GuessInv == GuessesInHand /\ \A g \in Gateways : \A n \in guest[g] : AskedFor(g, n)

LEMMA GuessesInHandIs ==
  GuessesInHand <=> \A g \in Gateways, m \in TcpPreNames : \A n \in GuessNames(m, NUM_OF_GUEST) :
                      pulled[g][NextName(m, TRUE)] > 0 => AskedFor(g, n)
BY DEF GuessesInHand, AskedFor, Tcp, TcpRequest

LEMMA GuessesInHandNext ==
  GuessesInHand' <=> \A g \in Gateways, m \in TcpPreNames : \A n \in GuessNames(m, NUM_OF_GUEST) :
                       pulled'[g][NextName(m, TRUE)] > 0 => AskedFor(g, n)'
BY DEF GuessesInHand, AskedFor, Tcp, TcpRequest

\* The names guessed after a pre-request are data names, and not the one it
\* announces.
LEMMA GuessedNames ==
  ASSUME NEW m \in TcpPreNames
  PROVE  /\ GuessNames(m, NUM_OF_GUEST) \subseteq TcpDataNames
         /\ NextName(m, TRUE) \in TcpDataNames
<1>1. PICK k \in Keys, s \in Ids : m = BuildName(k, 3, TcpUid(k, s))
  BY DEF TcpPreNames
<1>2. s \in 1..MaxPackets /\ MaxPackets \in Nat /\ NUM_OF_GUEST \in Nat
  BY BoundAssumption DEF Ids
<1>3. GuessNames(m, NUM_OF_GUEST) = { BuildName(k, 4, TcpUid(k, s + i)) : i \in 1..NUM_OF_GUEST }
  BY <1>1, GuessesOfTcp
<1>4. GuessNames(m, NUM_OF_GUEST) \subseteq TcpDataNames
  BY <1>2, <1>3 DEF TcpDataNames
<1>5. NextName(m, TRUE) = BuildName(k, 4, TcpUid(k, s))
  BY <1>1, NextOfTcp
<1>6. BuildName(k, 4, TcpUid(k, s)) \in TcpDataNames
  <2>1. s \in 1..(MaxPackets + NUM_OF_GUEST)
    BY <1>2
  <2> QED  BY <2>1 DEF TcpDataNames
<1> QED  BY <1>4, <1>5, <1>6

\* No two numbered pre-requests announce one name.
LEMMA OneAnnouncement ==
  ASSUME NEW m \in TcpPreNames, NEW n \in TcpPreNames, NextName(m, TRUE) = NextName(n, TRUE)
  PROVE  m = n
<1>1. PICK k \in Keys, s \in Ids : m = PreName(k, s, TRUE)
  BY DEF TcpPreNames, PreName
<1>2. PICK l \in Keys, r \in Ids : n = PreName(l, r, TRUE)
  BY DEF TcpPreNames, PreName
<1>3. NextName(m, TRUE) = DataName(k, s, TRUE) /\ NextName(n, TRUE) = DataName(l, r, TRUE)
  BY <1>1, <1>2, NextOfPre
<1>4. PreName(k, s, TRUE) = PreName(l, r, TRUE)
  <2>1. DataName(k, s, TRUE) = DataName(l, r, TRUE)
    BY <1>3
  <2>2. ASSUME NEW t \in BOOLEAN, t = TRUE PROVE PreName(k, s, t) = PreName(l, r, t)
    <3>1. DataName(k, s, t) = DataName(l, r, t)
      BY <2>1, <2>2
    <3> QED  BY <3>1, SameName
  <2> QED  BY <2>2
<1> QED  BY <1>1, <1>2, <1>4

\* What has expired stays so until it is asked for again.
LEMMA ExpiredKept ==
  ASSUME [DeliveryNext]_deliveryVars, NEW h, NEW n, <<h, n>> \in expired
  PROVE  <<h, n>> \in expired' \/ pending'[h][Tcp(n)] # 0
<1>1. ASSUME NEW new, RecordExpired(new) PROVE <<h, n>> \in expired' \/ pending'[h][Tcp(n)] # 0
  BY <1>1 DEF RecordExpired, TcpRequest, Tcp
<1> QED  BY <1>1 DEF DeliveryNext, Work, Lose, Expire, deliveryVars

\* The steps that neither ask nor receive, nor end a request.
LEMMA AsksNothing ==
  ASSUME [DeliveryNext]_deliveryVars, ~ \E g \in Gateways : PreStep(g) \/ DataStep(g),
         ~ \E g \in Gateways, n \in TcpDataNames : Expire(g, n)
  PROVE  UNCHANGED <<guest, pending, pulled, copies>>
<1>1. ASSUME NEW g \in Gateways, CaptureStep(g) \/ FacePut(g) \/ FaceExpress(g)
      PROVE  UNCHANGED <<guest, pending, pulled, copies>>
  BY <1>1 DEF CaptureStep, DealFirst, DealNext, DealOther, FacePut, FaceExpress, history
<1>2. ASSUME NEW n \in PreNames, LosePre(n) PROVE UNCHANGED <<guest, pending, pulled, copies>>
  BY <1>2 DEF LosePre, process, history
<1>3. CASE UNCHANGED vars
  BY <1>3 DEF vars, process, history
<1> QED  BY <1>1, <1>2, <1>3, DeliverySteps DEF NdnStep

\* A request stays open until its Data comes or its lifetime ends.
LEMMA AskedForKept ==
  ASSUME TypeInv, [DeliveryNext]_deliveryVars, NEW h \in Gateways, NEW n \in DataNames, AskedFor(h, n)
  PROVE  AskedFor(h, n)'
<1>0. Tcp(n) \in Requests /\ pending \in [Gateways -> [Requests -> Nat]] /\ copies \in [Gateways -> Counts]
  BY RequestsOf DEF TypeInv, TypeOK
<1>e. ASSUME <<h, n>> \in expired PROVE AskedFor(h, n)'
  <2>1. pending' \in [Gateways -> [Requests -> Nat]]
    BY DeliveryStepIsNext, TypeStep DEF TypeInv, TypeOK
  <2>2. pending'[h][Tcp(n)] # 0 => pending'[h][Tcp(n)] > 0
    BY <1>0, <2>1
  <2> QED  BY <1>e, <2>2, ExpiredKept DEF AskedFor, Tcp
<1>1. ASSUME NEW g \in Gateways, PreStep(g), <<h, n>> \notin expired PROVE AskedFor(h, n)'
  <2>1. PICK u \in BOOLEAN : \E names : Express(g, names, u)
    BY <1>1, PreAsks
  <2>a. PICK names : Express(g, names, u)
    BY <2>1
  <2>2. copies' = copies
    BY <1>1 DEF PreStep, DealPreTcp, DealPreOther
  <2>3. pending[h][Tcp(n)] > 0 => pending'[h][Tcp(n)] > 0
    BY <1>0, <2>a, ExpressGrows
  <2> QED  BY <1>1, <2>2, <2>3 DEF AskedFor, Tcp
<1>2. ASSUME NEW g \in Gateways, DataStep(g), <<h, n>> \notin expired PROVE AskedFor(h, n)'
  <2>1. PICK d \in stored, isTCP \in BOOLEAN : OnData(g, d, isTCP)
    BY <1>2 DEF DataStep
  <2> DEFINE r == [name |-> d.name, isTCP |-> isTCP]
             q == Tcp(n)
  <2>2. /\ pending[g][r] > 0
        /\ pending' = [pending EXCEPT ![g][r] = 0]
        /\ copies' = [copies EXCEPT ![g][d.name] = @ + pending[g][r]]
    BY <2>1 DEF OnData, Satisfy
  <2>3. d.name \in DataNames /\ r \in Requests
    BY DEF TypeInv, TypeOK, Data, Requests
  <2>4. q = r => n = d.name
    BY DEF Tcp
  <2> HIDE DEF r, q
  <2>5. pending[g][r] \in Nat /\ copies[h][n] \in Nat /\ copies[g][d.name] \in Nat
    BY <1>0, <2>3 DEF Counts
  <2>6. copies[h][n] > 0 => copies'[h][n] > 0
    BY <1>0, <2>2, <2>3, <2>5 DEF Counts
  <2>7. CASE h = g /\ q = r
    <3>1. copies'[g][d.name] = copies[g][d.name] + pending[g][r]
      BY <1>0, <2>2, <2>3 DEF Counts
    <3>2. copies'[g][d.name] > 0
      BY <2>2, <2>5, <3>1
    <3>3. n = d.name /\ h = g
      BY <2>4, <2>7
    <3>4. copies'[h][n] > 0
      BY <3>2, <3>3
    <3> QED  BY <3>4 DEF AskedFor
  <2>8. CASE ~(h = g /\ q = r)
    <3>1. pending'[h][q] = pending[h][q]
      BY <1>0, <2>2, <2>3, <2>8 DEF q
    <3> QED  BY <1>2, <2>6, <3>1 DEF AskedFor, q, Tcp
  <2> QED  BY <2>7, <2>8
<1>3. ASSUME NEW g \in Gateways, NEW m \in TcpDataNames, Expire(g, m), <<h, n>> \notin expired
      PROVE  AskedFor(h, n)'
  <2> DEFINE r == Tcp(m)
             q == Tcp(n)
  <2>1. /\ copies' = copies /\ r \in Requests
        /\ pending[g][r] > 0
        /\ pending' = [pending EXCEPT ![g][r] = @ - 1]
    BY <1>3, ExpireIsTimeout DEF OnTimeoutOrNack, history
  <2>2. CASE h = g /\ n = m
    <3>1. CASE pending'[g][r] = 0
      <4>1. <<g, m>> \in expired'
        BY <1>3, <3>1 DEF Expire, RecordExpired, TcpRequest, Tcp
      <4> QED  BY <2>2, <4>1 DEF AskedFor
    <3>2. CASE pending'[g][r] # 0
      <4> HIDE DEF r
      <4>1. pending'[g][r] > 0
        BY <1>0, <2>1, <3>2
      <4> QED  BY <2>2, <4>1 DEF AskedFor, r, Tcp
    <3> QED  BY <3>1, <3>2
  <2>3. CASE ~(h = g /\ n = m)
    <3>1. q = r => n = m
      BY DEF Tcp
    <3> HIDE DEF r, q
    <3>2. pending'[h][q] = pending[h][q]
      BY <1>0, <2>1, <2>3, <3>1 DEF q
    <3> QED  BY <1>3, <2>1, <3>2 DEF AskedFor, q, Tcp
  <2> QED  BY <2>2, <2>3
<1>4. CASE /\ ~ \E g \in Gateways : PreStep(g) \/ DataStep(g)
           /\ ~ \E g \in Gateways, m \in TcpDataNames : Expire(g, m)
           /\ <<h, n>> \notin expired
  BY <1>4, AsksNothing DEF AskedFor, Tcp
<1> QED  BY <1>e, <1>1, <1>2, <1>3, <1>4

\* On a pre-request of a numbered packet, what is not guessed is in the table,
\* and so was asked for before.
LEMMA GuessOnPreTcp ==
  ASSUME TypeInv, GuessInv, [DeliveryNext]_deliveryVars, NEW g \in Gateways, NEW o \in PreNames, DealPreTcp(g, o)
  PROVE  GuessInv'
<1> DEFINE next  == NextName(o, TRUE)
           fresh == NewGuesses(g, o)
<1>1. o \in TcpPreNames
  <2>1. Receives(g, o, TRUE)
    BY DEF DealPreTcp, Wanted
  <2>2. PICK k \in Keys, s \in Ids : o = BuildName(k, 3, TcpUid(k, s))
    BY <2>1, ReceivesTcp
  <2> QED  BY <2>2 DEF TcpPreNames
<1>2. GuessNames(o, NUM_OF_GUEST) \subseteq TcpDataNames /\ next \in TcpDataNames
  BY <1>1, GuessedNames
<1>3. /\ Express(g, {next} \cup fresh, TRUE)
      /\ pulled' = Count(pulled, g, {next})
      /\ guest' = [guest EXCEPT ![g] = Kept(g, o) \cup fresh]
  BY DEF DealPreTcp, Wanted
<1>4. /\ fresh = GuessNames(o, NUM_OF_GUEST) \ Kept(g, o)
      /\ Kept(g, o) \subseteq guest[g]
  BY DEF NewGuesses, Kept
<1> HIDE DEF next, fresh
<1>5. \A n \in fresh : AskedFor(g, n)'
  <2>1. SUFFICES ASSUME NEW n \in fresh PROVE pending'[g][Tcp(n)] > 0
    BY DEF AskedFor, Tcp
  <2>2. n \in DataNames
    BY <1>2, <1>4 DEF DataNames
  <2>3. Tcp(n) \in Requests /\ Tcp(n).name = n /\ Tcp(n).isTCP = TRUE
    BY <2>2, RequestsOf DEF Tcp
  <2> QED  BY <1>3, <2>3, ExpressGrows
<1>6. \A h \in Gateways : \A n \in guest[h] : AskedFor(h, n)'
  <2>1. SUFFICES ASSUME NEW h \in Gateways, NEW n \in guest[h] PROVE AskedFor(h, n)'
    OBVIOUS
  <2>2. n \in DataNames
    BY DEF TypeInv, TypeOK, DataNames
  <2> QED  BY <2>2, AskedForKept DEF GuessInv
<1>7. \A h \in Gateways : guest'[h] = IF h = g THEN Kept(g, o) \cup fresh ELSE guest[h]
  BY <1>3 DEF TypeInv, TypeOK
<1>8. \A h \in Gateways : \A n \in guest'[h] : AskedFor(h, n)'
  BY <1>4, <1>5, <1>6, <1>7
<1>9. ASSUME NEW h \in Gateways, NEW m \in TcpPreNames, NEW n \in GuessNames(m, NUM_OF_GUEST),
             pulled'[h][NextName(m, TRUE)] > 0
      PROVE  AskedFor(h, n)'
  <2>1. n \in DataNames /\ NextName(m, TRUE) \in DataNames
    BY GuessedNames DEF DataNames
  <2>2. CASE pulled[h][NextName(m, TRUE)] > 0
    <3>1. AskedFor(h, n)
      BY <2>2, GuessesInHandIs DEF GuessInv
    <3> QED  BY <2>1, <3>1, AskedForKept
  <2>3. CASE ~(pulled[h][NextName(m, TRUE)] > 0)
    <3>1. h = g /\ NextName(m, TRUE) = next
      <4> DEFINE d == NextName(m, TRUE)
      <4>1. pulled \in [Gateways -> Counts] /\ d \in DataNames /\ pulled' = Count(pulled, g, {next})
        BY <1>3, <2>1 DEF TypeInv, TypeOK
      <4>2. pulled'[h][d] > 0 /\ ~(pulled[h][d] > 0)
        BY <1>9, <2>3
      <4> HIDE DEF d
      <4>3. pulled'[h][d] = IF h = g /\ d \in {next} THEN pulled[h][d] + 1 ELSE pulled[h][d]
        BY <4>1, CountAt
      <4>4. h = g /\ d = next
        BY <4>2, <4>3
      <4> QED  BY <4>4 DEF d
    <3>2. m = o
      BY <1>1, <3>1, OneAnnouncement DEF next
    <3> QED  BY <1>4, <1>5, <1>6, <3>1, <3>2
  <2> QED  BY <2>2, <2>3
<1> QED  BY <1>8, <1>9, GuessesInHandNext DEF GuessInv

LEMMA GuessStep == TypeInv /\ GuessInv /\ [DeliveryNext]_deliveryVars => GuessInv'
<1> SUFFICES ASSUME TypeInv, GuessInv, [DeliveryNext]_deliveryVars PROVE GuessInv'
  OBVIOUS
<1>1. ASSUME guest' = guest,
             \A h \in Gateways, m \in TcpPreNames : pulled'[h][NextName(m, TRUE)] = pulled[h][NextName(m, TRUE)]
      PROVE  GuessInv'
  <2>1. ASSUME NEW h \in Gateways, NEW n \in guest'[h] PROVE AskedFor(h, n)'
    <3>1. n \in DataNames
      BY <1>1, <2>1 DEF TypeInv, TypeOK, DataNames
    <3> QED  BY <1>1, <2>1, <3>1, AskedForKept DEF GuessInv
  <2>2. ASSUME NEW h \in Gateways, NEW m \in TcpPreNames, NEW n \in GuessNames(m, NUM_OF_GUEST),
               pulled'[h][NextName(m, TRUE)] > 0
        PROVE  AskedFor(h, n)'
    <3>1. n \in DataNames
      BY GuessedNames DEF DataNames
    <3>2. AskedFor(h, n)
      BY <1>1, <2>2, GuessesInHandIs DEF GuessInv
    <3> QED  BY <3>1, <3>2, AskedForKept
  <2> QED  BY <2>1, <2>2, GuessesInHandNext DEF GuessInv
<1>2. ASSUME NEW g \in Gateways, PreStep(g) PROVE GuessInv'
  <2>1. PICK o \in PreNames : DealPreTcp(g, o) \/ DealPreOther(g, o)
    BY <1>2 DEF PreStep
  <2>2. CASE DealPreOther(g, o)
    <3>1. guest' = guest /\ pulled' = Count(pulled, g, {NextName(o, FALSE)})
      BY <2>2 DEF DealPreOther
    <3>2. NextName(o, FALSE) \in OtherDataNames
      <4>1. Receives(g, o, FALSE)
        BY <2>2 DEF DealPreOther
      <4>2. PICK k \in Keys, u \in Ids : o = BuildName(k, 1, u)
        BY <4>1, ReceivesOther
      <4>3. NextName(o, FALSE) = BuildName(k, 2, u)
        BY <4>2, NextOfOther
      <4>4. BuildName(k, 2, u) \in OtherDataNames
        BY DEF OtherDataNames
      <4> QED  BY <4>3, <4>4
    <3>3. ASSUME NEW h \in Gateways, NEW m \in TcpPreNames
          PROVE  pulled'[h][NextName(m, TRUE)] = pulled[h][NextName(m, TRUE)]
      <4> DEFINE d     == NextName(m, TRUE)
                 other == NextName(o, FALSE)
      <4>1. d \in DataNames /\ d \notin {other}
        BY <3>2, GuessedNames, KindsDiffer DEF DataNames
      <4>2. pulled \in [Gateways -> Counts] /\ pulled' = Count(pulled, g, {other})
        BY <3>1 DEF TypeInv, TypeOK
      <4> HIDE DEF d, other
      <4>3. pulled'[h][d] = pulled[h][d]
        BY <4>1, <4>2, CountAt
      <4> QED  BY <4>3 DEF d
    <3> QED  BY <1>1, <3>1, <3>3
  <2> QED  BY <2>1, <2>2, GuessOnPreTcp
<1>3. ASSUME NEW g \in Gateways, DataStep(g) PROVE GuessInv'
  BY <1>1, <1>3 DEF DataStep, OnData
<1>4. ASSUME NEW g \in Gateways, NEW n \in TcpDataNames, Expire(g, n) PROVE GuessInv'
  BY <1>1, <1>4, ExpireIsTimeout DEF history
<1>5. CASE /\ ~ \E g \in Gateways : PreStep(g) \/ DataStep(g)
           /\ ~ \E g \in Gateways, n \in TcpDataNames : Expire(g, n)
  BY <1>1, <1>5, AsksNothing
<1> QED  BY <1>2, <1>3, <1>4, <1>5

\* A gateway that has answered a pre-request has asked for each of the
\* NUM_OF_GUEST names after it: prefixGuestTable only keeps it from asking for
\* what it asks for already, or has got, or asked for in vain until the request
\* ended by its lifetime.
THEOREM NoGuessForgotten == DeliverySpec => []GuessesInHand
<1>1. DeliveryInit => GuessInv
  <2> SUFFICES ASSUME Init PROVE GuessInv
    BY DEF DeliveryInit
  <2>1. \A g \in Gateways : guest[g] = {}
    BY DEF Init
  <2>2. \A g \in Gateways, m \in TcpPreNames : pulled[g][NextName(m, TRUE)] = 0
    BY GuessedNames DEF Init, NoCounts, DataNames
  <2>3. GuessesInHand
    <3>1. ASSUME NEW g \in Gateways, NEW m \in TcpPreNames PROVE ~(pulled[g][NextName(m, TRUE)] > 0)
      <4>1. pulled[g][NextName(m, TRUE)] = 0
        BY <2>2
      <4> QED  BY <4>1
    <3> QED  BY <3>1, GuessesInHandIs
  <2> QED  BY <2>1, <2>3 DEF GuessInv
<1>2. DeliverySpec => []TypeInv
  BY DeliveryIsGateway, TypeInvariant, PTL
<1>3. GuessInv => GuessesInHand
  BY DEF GuessInv
<1> QED  BY <1>1, <1>2, <1>3, GuessStep, PTL DEF DeliverySpec

-----------------------------------------------------------------------------
(* When nothing is left to do.                                             *)

\* The face of no gateway has anything to work on: no call is posted, no
\* pre-request is on its way, no interest is pending that could be answered.
Idle ==
  /\ \A g \in Gateways : posted[g] = << >>
  /\ \A n \in PreNames : pre[n] = 0
  /\ \A g \in Gateways, d \in stored, isTCP \in BOOLEAN : pending[g][[name |-> d.name, isTCP |-> isTCP]] = 0

\* An NDN thread that takes a step was not idle.
LEMMA StepsWhenNotIdle ==
  ASSUME TypeInv, Idle, NEW g \in Gateways
  PROVE  ~NdnStep(g)
<1>1. ~FacePut(g) /\ ~FaceExpress(g)
  BY DEF Idle, FacePut, FaceExpress
<1>2. ASSUME NEW n \in PreNames, Arrives(n) PROVE FALSE
  <2>1. pre[n] = 0 /\ pre[n] > 0
    BY <1>2 DEF Idle, Arrives
  <2> QED  BY <2>1
<1>3. ASSUME NEW d \in stored, NEW isTCP \in BOOLEAN, OnData(g, d, isTCP) PROVE FALSE
  <2> DEFINE r == [name |-> d.name, isTCP |-> isTCP]
  <2>1. pending[g][r] > 0
    BY <1>3 DEF OnData
  <2>2. pending[g][r] = 0
    BY DEF Idle
  <2> HIDE DEF r
  <2> QED  BY <2>1, <2>2
<1> QED  BY <1>1, <1>2, <1>3 DEF NdnStep, PreStep, DealPreTcp, DealPreOther, DataStep

\* What Delivered and GuessMasksLostPre say will be, for a state.
DeliveredWhenIdle ==
  Idle =>
    /\ \A p \in captured : AnnouncementLost(p) \/ \E i \in injected : i.pkt = p
    /\ \A g \in Gateways, m \in TcpPreNames : \A n \in GuessNames(m, NUM_OF_GUEST) :
         (pulled[g][NextName(m, TRUE)] > 0 /\ \E d \in published : d.name = n)
            => copies[g][n] > 0 \/ <<g, n>> \in expired

\* With nothing left to do, each captured packet is out but those whose
\* pre-request was lost, and of the NUM_OF_GUEST after an answered one these are
\* out too, but those whose guess expired: an NDN thread that comes to rest
\* leaves nothing else behind.
THEOREM DeliveredAtRest == DeliverySpec => []DeliveredWhenIdle
<1>1. Ground /\ PacketsInHand /\ GuessesInHand => DeliveredWhenIdle
  <2> SUFFICES ASSUME Ground, PacketsInHand, GuessesInHand, Idle
               PROVE  /\ \A p \in captured : AnnouncementLost(p) \/ \E i \in injected : i.pkt = p
                      /\ \A g \in Gateways, m \in TcpPreNames : \A n \in GuessNames(m, NUM_OF_GUEST) :
                           (pulled[g][NextName(m, TRUE)] > 0 /\ \E d \in published : d.name = n)
                              => copies[g][n] > 0 \/ <<g, n>> \in expired
    BY DEF DeliveredWhenIdle
  <2>1. ASSUME NEW p \in captured PROVE AnnouncementLost(p) \/ \E i \in injected : i.pkt = p
    <3>1. PICK d \in published \cup PostedPuts(GatewayOf[p.key.src]) :
            /\ d.content = p
            /\ InHand(d) \/ PreNameOf(d.name) \in lost \/ \E i \in injected : i.pkt = p
      BY DEF PacketsInHand
    <3>2. p.key \in Keys /\ GatewayOf[p.key.src] \in Gateways /\ GatewayOf[p.key.dst] \in Gateways
      BY KeyAssumption, GatewayAssumption DEF Ground, TypeInv, TypeOK, Packets, KeyType
    <3>3. posted[GatewayOf[p.key.src]] = << >>
      BY <3>2 DEF Idle
    <3>4. d \in published
      BY <3>1, <3>3 DEF PostedPuts
    <3>5. ~InHand(d)
      <4>1. ~Posts(GatewayOf[p.key.src], PreNameOf(d.name))
        BY <3>3 DEF Posts
      <4>2. ~(pre[PreNameOf(d.name)] > 0)
        <5>1. PreNameOf(d.name) \in PreNames
          BY <3>4, DataOf DEF Sent
        <5>2. pre[PreNameOf(d.name)] = 0
          BY <5>1 DEF Idle
        <5> QED  BY <5>2
      <4>3. ~Requested(d)
        <5>1. SUFFICES ASSUME d \in stored PROVE ~(pending[GatewayOf[d.content.key.dst]][Request(d)] > 0)
          BY DEF Requested
        <5>2. pending[GatewayOf[d.content.key.dst]][Request(d)] = 0
          BY <3>1, <3>2, <5>1 DEF Idle, Request
        <5> QED  BY <5>2
      <4> QED  BY <3>1, <4>1, <4>2, <4>3 DEF InHand, Posts, Requested, Request
    <3> QED  BY <3>1, <3>4, <3>5 DEF AnnouncementLost
  <2>2. ASSUME NEW g \in Gateways, NEW m \in TcpPreNames, NEW n \in GuessNames(m, NUM_OF_GUEST),
               pulled[g][NextName(m, TRUE)] > 0, NEW d \in published, d.name = n
        PROVE  copies[g][n] > 0 \/ <<g, n>> \in expired
    <3>1. pending[g][TcpRequest(n)] = 0
      BY <2>2 DEF Idle, Ground, Kindly, TcpRequest
    <3>2. ~(pending[g][TcpRequest(n)] > 0)
      BY <3>1
    <3> QED  BY <2>2, <3>2 DEF GuessesInHand
  <2> QED  BY <2>1, <2>2
<1> QED  BY <1>1, GroundInvariant, NoPacketForgotten, NoGuessForgotten, PTL
=============================================================================
