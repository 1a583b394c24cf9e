--------------------------- MODULE GatewayProofs ---------------------------
(***************************************************************************)
(* Theorems about Gateway for every set of gateways, hosts, flows and      *)
(* protocols, every NUM_OF_GUEST and every bound, with all the faults.     *)
(***************************************************************************)
EXTENDS Gateway, TLAPS

-----------------------------------------------------------------------------
(* Names.                                                                  *)

\* The destination turns the pre-request of a numbered packet into the name
\* its source published it under.
LEMMA NextOfTcp ==
  ASSUME NEW k, NEW s
  PROVE  NextName(BuildName(k, 3, TcpUid(k, s)), TRUE) = BuildName(k, 4, TcpUid(k, s))
BY DEF NextName, BuildName

\* The same for a packet named by a uuid.
LEMMA NextOfOther ==
  ASSUME NEW k, NEW u
  PROVE  NextName(BuildName(k, 1, u), FALSE) = BuildName(k, 2, u)
BY DEF NextName, BuildName

\* The names guessed after number s are those of the num numbers after it.
LEMMA GuessesOfTcp ==
  ASSUME NEW k, NEW s, NEW num
  PROVE  GuessNames(BuildName(k, 3, TcpUid(k, s)), num)
           = { BuildName(k, 4, TcpUid(k, s + i)) : i \in 1..num }
BY DEF GuessNames, BuildName, TcpUid

\* The address in a data name is its flow's destination.
LEMMA TargetOfTcp ==
  ASSUME NEW k, NEW s
  PROVE  TargetIp(BuildName(k, 4, TcpUid(k, s)), TRUE) = k.dst
BY DEF TargetIp, BuildName

LEMMA TargetOfOther ==
  ASSUME NEW k, NEW u
  PROVE  TargetIp(BuildName(k, 2, u), FALSE) = k.dst
BY DEF TargetIp, BuildName

\* No data name is of both kinds.
LEMMA KindsDiffer == TcpDataNames \cap OtherDataNames = {}
<1> SUFFICES ASSUME NEW k \in Keys, NEW s, NEW l \in Keys, NEW u,
                    BuildName(k, 4, TcpUid(k, s)) = BuildName(l, 2, u)
             PROVE  FALSE
  BY DEF TcpDataNames, OtherDataNames
<1>1. l.src = "TCP"
  BY DEF BuildName
<1>2. l.src \in Hosts
  BY KeyAssumption DEF KeyType
<1> QED
  BY <1>1, <1>2, HostAssumption

\* The filters of pre-requests tell numbered packets from the others, and lead
\* to the gateway that serves the destination.
LEMMA ReceivesTcp ==
  ASSUME NEW g, NEW n \in PreNames, Receives(g, n, TRUE)
  PROVE  \E k \in Keys, s \in Ids : /\ n = BuildName(k, 3, TcpUid(k, s))
                                    /\ GatewayOf[k.dst] = g
<1>0. PICK h \in Hosts : /\ GatewayOf[h] = g
                         /\ \E f \in InterestFilters(h) : f.isPre /\ f.isTCP /\ Matches(f, n)
  BY DEF Receives
<1>1. PICK f \in InterestFilters(h) : f.isPre /\ f.isTCP /\ Matches(f, n)
  BY <1>0
<1>2. f.prefix = <<"IP", "TCP", "pre", h>>
  BY <1>1 DEF InterestFilters
<1>3. n[2] = "TCP" /\ n[4] = h
  BY <1>1, <1>2 DEF Matches
<1>4. ASSUME n \in OtherPreNames PROVE FALSE
  BY <1>3, <1>4 DEF OtherPreNames, BuildName
<1>5. PICK k \in Keys, s \in Ids : n = BuildName(k, 3, TcpUid(k, s))
  BY <1>4 DEF PreNames, TcpPreNames
<1>6. k.dst = h
  BY <1>3, <1>5 DEF BuildName
<1> QED
  BY <1>0, <1>5, <1>6

LEMMA ReceivesOther ==
  ASSUME NEW g, NEW n \in PreNames, Receives(g, n, FALSE)
  PROVE  \E k \in Keys, u \in Ids : /\ n = BuildName(k, 1, u)
                                    /\ GatewayOf[k.dst] = g
<1>0. PICK h \in Hosts : /\ GatewayOf[h] = g
                         /\ \E f \in InterestFilters(h) : f.isPre /\ ~f.isTCP /\ Matches(f, n)
  BY DEF Receives
<1>1. PICK f \in InterestFilters(h) : f.isPre /\ ~f.isTCP /\ Matches(f, n)
  BY <1>0
<1>2. f.prefix = <<"IP", "pre", h>>
  BY <1>1 DEF InterestFilters
<1>3. n[2] = "pre" /\ n[3] = h
  BY <1>1, <1>2 DEF Matches
<1>4. ASSUME n \in TcpPreNames PROVE FALSE
  BY <1>3, <1>4 DEF TcpPreNames, BuildName
<1>5. PICK k \in Keys, u \in Ids : n = BuildName(k, 1, u)
  BY <1>4 DEF PreNames, OtherPreNames
<1>6. k.dst = h
  BY <1>3, <1>5 DEF BuildName
<1> QED
  BY <1>0, <1>5, <1>6

\* A gateway asks for data names of the kind the flag says, whose destination
\* it serves.
RequestOK(g, name, isTCP) == /\ isTCP <=> (name \in TcpDataNames)
                             /\ TargetIp(name, isTCP) \in Hosts
                             /\ GatewayOf[TargetIp(name, isTCP)] = g

\* So it does on a pre-request of a numbered packet, and it does not guess the
\* announced name.
LEMMA AnsweredTcp ==
  ASSUME NEW g, NEW k \in Keys, NEW s \in Ids, GatewayOf[k.dst] = g,
         NEW n, n = BuildName(k, 3, TcpUid(k, s))
  PROVE  /\ NextName(n, TRUE) \in TcpDataNames
         /\ NewGuesses(g, n) \subseteq TcpDataNames
         /\ \A m \in {NextName(n, TRUE)} \cup NewGuesses(g, n) : RequestOK(g, m, TRUE)
         /\ NextName(n, TRUE) \notin GuessNames(n, NUM_OF_GUEST)
<1>1. k.dst \in Hosts
  BY KeyAssumption DEF KeyType
<1>2. s \in 1..MaxPackets /\ MaxPackets \in Nat /\ NUM_OF_GUEST \in Nat
  BY BoundAssumption DEF Ids
<1>3. NextName(n, TRUE) = BuildName(k, 4, TcpUid(k, s))
  BY NextOfTcp
<1>4. GuessNames(n, NUM_OF_GUEST) = { BuildName(k, 4, TcpUid(k, s + i)) : i \in 1..NUM_OF_GUEST }
  BY GuessesOfTcp
<1>5. NextName(n, TRUE) \in TcpDataNames
  <2>1. s \in 1..(MaxPackets + NUM_OF_GUEST)
    BY <1>2
  <2>2. BuildName(k, 4, TcpUid(k, s)) \in TcpDataNames
    BY <2>1 DEF TcpDataNames
  <2> QED
    BY <1>3, <2>2
<1>6. GuessNames(n, NUM_OF_GUEST) \subseteq TcpDataNames
  BY <1>2, <1>4 DEF TcpDataNames
<1>7. NextName(n, TRUE) \notin GuessNames(n, NUM_OF_GUEST)
  <2>1. SUFFICES ASSUME NEW i \in 1..NUM_OF_GUEST,
                        BuildName(k, 4, TcpUid(k, s)) = BuildName(k, 4, TcpUid(k, s + i))
                 PROVE  FALSE
    BY <1>3, <1>4
  <2>2. s = s + i
    BY <2>1 DEF BuildName, TcpUid
  <2> QED
    BY <1>2, <2>2
<1>8. ASSUME NEW m \in {NextName(n, TRUE)} \cup NewGuesses(g, n)
      PROVE  RequestOK(g, m, TRUE)
  <2>1. m \in TcpDataNames
    BY <1>5, <1>6 DEF NewGuesses
  <2>2. \E i : m = BuildName(k, 4, TcpUid(k, i))
    BY <1>3, <1>4 DEF NewGuesses
  <2>3. TargetIp(m, TRUE) = k.dst
    BY <2>2, TargetOfTcp
  <2> QED
    BY <1>1, <2>1, <2>3 DEF RequestOK
<1> QED
  BY <1>5, <1>6, <1>7, <1>8 DEF NewGuesses

\* The same for a pre-request of any other packet.
LEMMA AnsweredOther ==
  ASSUME NEW g, NEW k \in Keys, NEW u \in Ids, GatewayOf[k.dst] = g,
         NEW n, n = BuildName(k, 1, u)
  PROVE  RequestOK(g, NextName(n, FALSE), FALSE)
<1>1. NextName(n, FALSE) = BuildName(k, 2, u)
  BY NextOfOther
<1>2. BuildName(k, 2, u) \in OtherDataNames
  BY DEF OtherDataNames
<1>3. BuildName(k, 2, u) \notin TcpDataNames
  BY <1>2, KindsDiffer
<1>4. TargetIp(BuildName(k, 2, u), FALSE) = k.dst
  BY TargetOfOther
<1>5. k.dst \in Hosts
  BY KeyAssumption DEF KeyType
<1>6. RequestOK(g, BuildName(k, 2, u), FALSE)
  BY <1>3, <1>4, <1>5 DEF RequestOK
<1> QED
  BY <1>1, <1>6

-----------------------------------------------------------------------------
(* Type correctness.  A flow is never numbered past the packets captured,  *)
(* which keeps the next number within the type; a gateway only asks for    *)
(* names it can address, which keeps what it injects within the type.      *)

Numbering == \A g \in Gateways, k \in Keys : sequenceTable[g][k] <= ncaptured

Addressed == \A g \in Gateways, r \in Requests :
  pending[g][r] > 0 => RequestOK(g, r.name, r.isTCP)

TypeInv == TypeOK /\ Numbering /\ Addressed

\* Every gateway starts with empty tables.
LEMMA TypeInit == Init => TypeInv
BY BoundAssumption DEF Init, TypeInv, TypeOK, Numbering, Addressed, NoSequence, NoRequests, NoCounts, Absent, Counts

\* Posting the two face calls keeps the queue well typed.
LEMMA PostedType ==
  ASSUME TypeOK, NEW g \in Gateways, NEW p \in Packets,
         NEW dn \in DataNames, NEW pn \in PreNames, PublishAndAnnounce(g, p, dn, pn)
  PROVE  posted' \in [Gateways -> Seq(FaceOps)]
<1> DEFINE put     == [op |-> "put", data |-> [name |-> dn, content |-> p]]
           express == [op |-> "express", name |-> pn]
<1>1. put \in FaceOps /\ express \in FaceOps
  BY DEF FaceOps, PutOps, ExpressOps, Data
<1>2. <<put, express>> \in Seq(FaceOps)
  BY <1>1
<1>3. posted[g] \o <<put, express>> \in Seq(FaceOps)
  BY <1>2 DEF TypeOK
<1>4. posted' = [posted EXCEPT ![g] = posted[g] \o <<put, express>>]
  BY DEF PublishAndAnnounce
<1> QED
  BY <1>3, <1>4 DEF TypeOK

\* Counting names keeps counts natural numbers.
LEMMA CountType ==
  ASSUME NEW counts \in [Gateways -> Counts], NEW g \in Gateways, NEW names
  PROVE  Count(counts, g, names) \in [Gateways -> Counts]
BY DEF Count, Counts

\* So does expressing interests.
LEMMA ExpressType ==
  ASSUME TypeOK, NEW g \in Gateways, NEW names, NEW isTCP, Express(g, names, isTCP)
  PROVE  pending' \in [Gateways -> [Requests -> Nat]]
BY DEF Express, TypeOK

\* Requests a gateway can address keep all of them addressed.
LEMMA ExpressAddressed ==
  ASSUME TypeInv, NEW g \in Gateways, NEW names, NEW isTCP, Express(g, names, isTCP),
         \A m \in names : RequestOK(g, m, isTCP)
  PROVE  Addressed'
<1> SUFFICES ASSUME NEW h \in Gateways, NEW r \in Requests, pending'[h][r] > 0
             PROVE  RequestOK(h, r.name, r.isTCP)
  BY DEF Addressed, RequestOK
<1>1. pending[h][r] > 0 \/ (h = g /\ r.name \in names /\ r.isTCP = isTCP)
  BY DEF Express, TypeInv, TypeOK
<1> QED
  BY <1>1 DEF TypeInv, Addressed

\* A step of the capture thread keeps the types.
LEMMA TypeCapture ==
  ASSUME TypeInv, NEW g \in Gateways, CaptureStep(g)
  PROVE  TypeInv'
<1>1. PICK p \in Packets : DealFirst(g, p) \/ DealNext(g, p) \/ DealOther(g, p)
  BY DEF CaptureStep
<1>2. p.key \in Keys /\ p.id \in 1..MaxPackets /\ MaxPackets \in Nat /\ NUM_OF_GUEST \in Nat
  BY BoundAssumption DEF Packets, Ids
<1>3. p.id = ncaptured + 1 /\ ncaptured' = p.id /\ captured' = captured \cup {p}
  BY <1>1 DEF DealFirst, DealNext, DealOther, Capture
<1>4. ncaptured' \in 0..MaxPackets /\ captured' \in SUBSET Packets /\ ncaptured' = ncaptured + 1
  BY <1>2, <1>3 DEF TypeInv, TypeOK
<1>5. ASSUME NEW s \in 1..MaxPackets
      PROVE  /\ BuildName(p.key, 4, TcpUid(p.key, s)) \in DataNames
             /\ BuildName(p.key, 3, TcpUid(p.key, s)) \in PreNames
  BY <1>2, <1>5 DEF DataNames, TcpDataNames, PreNames, TcpPreNames, Ids
<1>6. CASE DealFirst(g, p)
  <2>1. 1 \in 1..MaxPackets
    BY <1>2
  <2>2. posted' \in [Gateways -> Seq(FaceOps)]
    BY <1>5, <1>6, <2>1, PostedType DEF DealFirst, TypeInv
  <2>3. sequenceTable' = [sequenceTable EXCEPT ![g][p.key] = 1]
    BY <1>6 DEF DealFirst
  <2>4. sequenceTable' \in [Gateways -> [Keys -> 0..MaxPackets]]
    BY <1>2, <2>1, <2>3 DEF TypeInv, TypeOK
  <2>5. Numbering'
    BY <1>2, <1>4, <2>3 DEF Numbering, TypeInv, TypeOK
  <2> QED
    BY <1>4, <1>6, <2>2, <2>4, <2>5 DEF DealFirst, TypeInv, TypeOK, Addressed, network
<1>7. CASE DealNext(g, p)
  <2> DEFINE seq == NextSequence(g, p.key)
  <2>1. seq \in 1..MaxPackets /\ seq <= ncaptured'
    BY <1>2, <1>4 DEF NextSequence, TypeInv, TypeOK, Numbering, Addressed
  <2>2. posted' \in [Gateways -> Seq(FaceOps)]
    BY <1>5, <1>7, <2>1, PostedType DEF DealNext, TypeInv
  <2>3. sequenceTable' = [sequenceTable EXCEPT ![g][p.key] = seq]
    BY <1>7 DEF DealNext
  <2> HIDE DEF seq
  <2>4. sequenceTable' \in [Gateways -> [Keys -> 0..MaxPackets]]
    BY <1>2, <2>1, <2>3 DEF TypeInv, TypeOK
  <2>5. Numbering'
    BY <1>2, <1>4, <2>1, <2>3 DEF Numbering, TypeInv, TypeOK
  <2> QED
    BY <1>4, <1>7, <2>2, <2>4, <2>5 DEF DealNext, TypeInv, TypeOK, Addressed, network
<1>8. CASE DealOther(g, p)
  <2>1. /\ BuildName(p.key, 2, p.id) \in DataNames
        /\ BuildName(p.key, 1, p.id) \in PreNames
    BY <1>2 DEF DataNames, OtherDataNames, PreNames, OtherPreNames, Ids
  <2>2. posted' \in [Gateways -> Seq(FaceOps)]
    BY <1>8, <2>1, PostedType DEF DealOther, TypeInv
  <2>3. Numbering'
    BY <1>4, <1>8 DEF DealOther, Numbering, TypeInv, TypeOK
  <2> QED
    BY <1>4, <1>8, <2>2, <2>3 DEF DealOther, TypeInv, TypeOK, Addressed, network
<1> QED
  BY <1>1, <1>6, <1>7, <1>8

\* What the NDN thread takes from the queue of posted calls is well typed.
LEMMA PostedHead ==
  ASSUME TypeOK, NEW g \in Gateways, posted[g] # << >>
  PROVE  /\ Head(posted[g]) \in FaceOps
         /\ [posted EXCEPT ![g] = Tail(@)] \in [Gateways -> Seq(FaceOps)]
<1>1. posted[g] \in Seq(FaceOps) /\ posted \in [Gateways -> Seq(FaceOps)]
  BY DEF TypeOK
<1>2. Head(posted[g]) \in FaceOps /\ Tail(posted[g]) \in Seq(FaceOps)
  BY <1>1
<1> QED
  BY <1>1, <1>2

\* A step of the NDN thread on a posted call keeps the types.
LEMMA TypePosted ==
  ASSUME TypeInv, NEW g \in Gateways, FacePut(g) \/ FaceExpress(g)
  PROVE  TypeInv'
<1>1. CASE FacePut(g)
  <2>1. posted' \in [Gateways -> Seq(FaceOps)]
    BY <1>1, PostedHead DEF FacePut, TypeInv
  <2>2. Head(posted[g]).data \in Data
    BY <1>1 DEF FacePut, PutOps
  <2> QED
    BY <1>1, <2>1, <2>2 DEF FacePut, TypeInv, TypeOK, Numbering, Addressed
<1>2. CASE FaceExpress(g)
  <2>1. posted' \in [Gateways -> Seq(FaceOps)]
    BY <1>2, PostedHead DEF FaceExpress, TypeInv
  <2>2. Head(posted[g]).name \in PreNames
    BY <1>2 DEF FaceExpress, ExpressOps
  <2>3. pre' \in [PreNames -> Nat]
    BY <1>2, <2>2 DEF FaceExpress, TypeInv, TypeOK
  <2> QED
    BY <1>2, <2>1, <2>3 DEF FaceExpress, TypeInv, TypeOK, Numbering, Addressed, history
<1> QED
  BY <1>1, <1>2

\* Taking a copy of a pre-request off the network keeps the counts natural.
LEMMA ArrivesType ==
  ASSUME TypeOK, NEW n \in PreNames, Arrives(n)
  PROVE  pre' \in [PreNames -> Nat]
BY DEF Arrives, TypeOK

\* Answering a pre-request keeps the types.
LEMMA TypePre ==
  ASSUME TypeInv, NEW g \in Gateways, PreStep(g)
  PROVE  TypeInv'
<1>1. PICK n \in PreNames : DealPreTcp(g, n) \/ DealPreOther(g, n)
  BY DEF PreStep
<1>2. CASE DealPreTcp(g, n)
  <2>1. PICK k \in Keys, s \in Ids : n = BuildName(k, 3, TcpUid(k, s)) /\ GatewayOf[k.dst] = g
    BY <1>2, ReceivesTcp DEF DealPreTcp
  <2>2. /\ NewGuesses(g, n) \subseteq TcpDataNames
        /\ \A m \in {NextName(n, TRUE)} \cup NewGuesses(g, n) : RequestOK(g, m, TRUE)
    BY <2>1, AnsweredTcp
  <2>3. guest' \in [Gateways -> SUBSET TcpDataNames]
    BY <1>2, <2>2 DEF DealPreTcp, TypeInv, TypeOK, Kept
  <2>4. pending' \in [Gateways -> [Requests -> Nat]] /\ Addressed'
    BY <1>2, <2>2, ExpressType, ExpressAddressed DEF DealPreTcp, Wanted, TypeInv
  <2>5. pulled' \in [Gateways -> Counts] /\ guessed' \in [Gateways -> Counts]
    BY <1>2, CountType DEF DealPreTcp, TypeInv, TypeOK
  <2>6. pre' \in [PreNames -> Nat]
    BY <1>2, ArrivesType DEF DealPreTcp, TypeInv
  <2> QED
    BY <1>2, <2>3, <2>4, <2>5, <2>6 DEF DealPreTcp, TypeInv, TypeOK, Numbering
<1>3. CASE DealPreOther(g, n)
  <2>1. PICK k \in Keys, u \in Ids : n = BuildName(k, 1, u) /\ GatewayOf[k.dst] = g
    BY <1>3, ReceivesOther DEF DealPreOther
  <2>2. \A m \in {NextName(n, FALSE)} : RequestOK(g, m, FALSE)
    BY <2>1, AnsweredOther
  <2>3. pending' \in [Gateways -> [Requests -> Nat]] /\ Addressed'
    <3> DEFINE names == {NextName(n, FALSE)}
    <3>1. Express(g, names, FALSE) /\ \A m \in names : RequestOK(g, m, FALSE)
      BY <1>3, <2>2 DEF DealPreOther
    <3> HIDE DEF names
    <3>2. pending' \in [Gateways -> [Requests -> Nat]]
      BY <3>1, ExpressType DEF TypeInv
    <3>3. Addressed'
      BY <3>1, ExpressAddressed
    <3> QED
      BY <3>2, <3>3
  <2>4. pulled' \in [Gateways -> Counts]
    BY <1>3, CountType DEF DealPreOther, TypeInv, TypeOK
  <2>5. pre' \in [PreNames -> Nat]
    BY <1>3, ArrivesType DEF DealPreOther, TypeInv
  <2> QED
    BY <1>3, <2>3, <2>4, <2>5 DEF DealPreOther, TypeInv, TypeOK, Numbering
<1> QED
  BY <1>1, <1>2, <1>3

\* A received Data keeps the types.
LEMMA TypeData ==
  ASSUME TypeInv, NEW g \in Gateways, DataStep(g)
  PROVE  TypeInv'
<1>1. PICK d \in stored, isTCP \in BOOLEAN : OnData(g, d, isTCP)
  BY DEF DataStep
<1> DEFINE r == [name |-> d.name, isTCP |-> isTCP]
<1>2. d \in Data /\ d.name \in DataNames /\ d.content \in Packets /\ r \in Requests
  BY DEF TypeInv, TypeOK, Data, Requests
<1>3. pending' = [pending EXCEPT ![g][r] = 0] /\ pending[g][r] > 0
  BY <1>1 DEF OnData, Satisfy
<1>4. TargetIp(d.name, isTCP) \in Hosts
  BY <1>2, <1>3 DEF TypeInv, Addressed, RequestOK
<1>5. injected' \in SUBSET [gw : Gateways, to : Hosts, pkt : Packets]
  BY <1>1, <1>2, <1>4 DEF OnData, TypeInv, TypeOK
<1>6. copies' \in [Gateways -> Counts]
  BY <1>1, <1>2 DEF OnData, TypeInv, TypeOK, Counts
<1> HIDE DEF r
<1>7. pending' \in [Gateways -> [Requests -> Nat]] /\ Addressed'
  BY <1>2, <1>3 DEF TypeInv, TypeOK, Addressed, RequestOK
<1> QED
  BY <1>1, <1>5, <1>6, <1>7 DEF OnData, TypeInv, TypeOK, Numbering, network

\* A fault keeps the types.
LEMMA TypeFaults ==
  ASSUME TypeInv, Faults
  PROVE  TypeInv'
<1>1. CASE Loss
  <2>1. PICK n \in PreNames : LosePre(n)
    BY <1>1 DEF Loss
  <2> QED
    BY <2>1, ArrivesType DEF LosePre, TypeInv, TypeOK, Numbering, Addressed, process, history
<1>2. CASE \E g \in Gateways, r \in Requests : OnTimeoutOrNack(g, r)
  <2>1. PICK g \in Gateways, r \in Requests : OnTimeoutOrNack(g, r)
    BY <1>2
  <2>2. pending' \in [Gateways -> [Requests -> Nat]] /\ Addressed'
    BY <2>1 DEF OnTimeoutOrNack, TypeInv, TypeOK, Addressed, RequestOK
  <2> QED
    BY <2>1, <2>2 DEF OnTimeoutOrNack, TypeInv, TypeOK, Numbering, network, history
<1>3. CASE \E d \in stored : Evict(d)
  BY <1>3 DEF Evict, TypeInv, TypeOK, Numbering, Addressed, process, history
<1>4. CASE \E g \in Gateways : Restart(g)
  <2>1. PICK g \in Gateways : Restart(g)
    BY <1>4
  <2>2. NoSequence \in [Keys -> 0..MaxPackets] /\ NoRequests \in [Requests -> Nat]
    BY BoundAssumption DEF NoSequence, NoRequests, Absent
  <2>3. restarts' \in [Gateways -> 0..MaxRestarts]
    BY <2>1, BoundAssumption DEF Restart, TypeInv, TypeOK
  <2>4. Numbering' /\ Addressed'
    BY <2>1 DEF Restart, TypeInv, TypeOK, Numbering, Addressed, RequestOK, NoSequence, NoRequests, Absent
  <2> QED
    BY <2>1, <2>2, <2>3, <2>4 DEF Restart, TypeInv, TypeOK, network
<1> QED
  BY <1>1, <1>2, <1>3, <1>4 DEF Faults

\* Every step keeps the types.
LEMMA TypeStep == TypeInv /\ [Next]_vars => TypeInv'
<1> SUFFICES ASSUME TypeInv, [Next]_vars PROVE TypeInv'
  OBVIOUS
<1>1. CASE System
  BY <1>1, TypeCapture, TypePosted, TypePre, TypeData DEF System, NdnStep
<1>2. CASE Faults
  BY <1>2, TypeFaults
<1>3. CASE UNCHANGED vars
  BY <1>3 DEF vars, process, network, history, TypeInv, TypeOK, Numbering, Addressed
<1> QED
  BY <1>1, <1>2, <1>3 DEF Next

\* Every state of the gateways is well typed, whatever is lost or restarted.
THEOREM TypeCorrect == Spec => []TypeOK
<1>1. TypeInv => TypeOK
  BY DEF TypeInv
<1> QED
  BY <1>1, TypeInit, TypeStep, PTL DEF Spec

\* The inductive invariant, for the theorems below.
LEMMA TypeInvariant == Spec => []TypeInv
BY TypeInit, TypeStep, PTL DEF Spec

-----------------------------------------------------------------------------
(* Guesses and copies.  Both invariants are inductive with the types.      *)

\* What counting a set of names does to one count.
LEMMA CountAt ==
  ASSUME NEW counts \in [Gateways -> Counts], NEW g \in Gateways, NEW names,
         NEW h \in Gateways, NEW m \in DataNames
  PROVE  Count(counts, g, names)[h][m]
           = IF h = g /\ m \in names THEN counts[h][m] + 1 ELSE counts[h][m]
BY DEF Count, Counts

\* The steps other than answers to pre-requests and restarts.
Elsewhere == \/ \E g \in Gateways : CaptureStep(g) \/ FacePut(g) \/ FaceExpress(g) \/ DataStep(g)
             \/ Loss
             \/ \E g \in Gateways, r \in Requests : OnTimeoutOrNack(g, r)
             \/ \E d \in stored : Evict(d)
             \/ UNCHANGED vars

LEMMA Cases ==
  ASSUME [Next]_vars
  PROVE  \/ Elsewhere
         \/ \E g \in Gateways : PreStep(g)
         \/ \E g \in Gateways : Restart(g)
BY DEF Next, System, NdnStep, Faults, Elsewhere

\* They neither guess, nor forget a guess, nor ask for an announced name.
LEMMA ElsewhereUnchanged ==
  ASSUME Elsewhere
  PROVE  UNCHANGED <<guest, pulled, guessed, restarts>>
BY DEF Elsewhere, CaptureStep, DealFirst, DealNext, DealOther, FacePut, FaceExpress, DataStep, OnData,
       Loss, LosePre, OnTimeoutOrNack, Evict, vars, process, network, history

GuessBound(g, n) ==
  guessed[g][n] <= pulled[g][n] + (IF n \in guest[g] THEN 1 ELSE 0) + restarts[g]

\* The flows start with nothing guessed.
LEMMA GuessesInit == Init => GuessesBounded
BY BoundAssumption DEF Init, GuessesBounded, NoCounts

\* A step of a gateway never guesses a name twice without having asked for it
\* because of its pre-request, or having been restarted, in between.
LEMMA GuessesStep == TypeInv /\ GuessesBounded /\ [Next]_vars => GuessesBounded'
<1> SUFFICES ASSUME TypeInv, GuessesBounded, [Next]_vars, NEW h \in Gateways, NEW m \in DataNames
             PROVE  GuessBound(h, m)'
  BY DEF GuessesBounded, GuessBound
<1>0. /\ GuessBound(h, m)
      /\ guessed[h][m] \in Nat /\ pulled[h][m] \in Nat /\ restarts[h] \in Nat
  BY BoundAssumption DEF GuessesBounded, GuessBound, TypeInv, TypeOK, Counts
<1>1. CASE Elsewhere
  BY <1>0, <1>1, ElsewhereUnchanged DEF GuessBound
<1>2. ASSUME NEW g \in Gateways, NEW n \in PreNames, DealPreTcp(g, n)
      PROVE  GuessBound(h, m)'
  <2> DEFINE next == NextName(n, TRUE)
             fresh == NewGuesses(g, n)
  <2>1. next \notin fresh
    <3>1. PICK k \in Keys, s \in Ids : n = BuildName(k, 3, TcpUid(k, s)) /\ GatewayOf[k.dst] = g
      BY <1>2, ReceivesTcp DEF DealPreTcp
    <3> QED
      BY <3>1, AnsweredTcp DEF NewGuesses
  <2>2. /\ pulled'[h][m] = IF h = g /\ m \in {next} THEN pulled[h][m] + 1 ELSE pulled[h][m]
        /\ guessed'[h][m] = IF h = g /\ m \in fresh THEN guessed[h][m] + 1 ELSE guessed[h][m]
    <3>1. /\ pulled' = Count(pulled, g, {next})
          /\ guessed' = Count(guessed, g, fresh)
      BY <1>2 DEF DealPreTcp
    <3>2. pulled \in [Gateways -> Counts] /\ guessed \in [Gateways -> Counts]
      BY DEF TypeInv, TypeOK
    <3> HIDE DEF next, fresh
    <3> QED
      BY <3>1, <3>2, CountAt
  <2>3. restarts' = restarts
    BY <1>2 DEF DealPreTcp
  <2>4. guest'[h] = IF h = g THEN (guest[g] \ {next}) \cup fresh ELSE guest[h]
    BY <1>2 DEF DealPreTcp, Kept, TypeInv, TypeOK
  <2>5. fresh \cap (guest[g] \ {next}) = {}
    BY DEF NewGuesses, Kept
  <2> HIDE DEF next, fresh
  <2> QED
    BY <1>0, <2>1, <2>2, <2>3, <2>4, <2>5 DEF GuessBound
<1>3. ASSUME NEW g \in Gateways, NEW n \in PreNames, DealPreOther(g, n)
      PROVE  GuessBound(h, m)'
  <2>1. UNCHANGED <<guest, guessed, restarts>>
    BY <1>3 DEF DealPreOther
  <2>2. pulled'[h][m] >= pulled[h][m] /\ pulled'[h][m] \in Nat
    <3> DEFINE names == {NextName(n, FALSE)}
    <3>1. pulled' = Count(pulled, g, names)
      BY <1>3 DEF DealPreOther
    <3>2. pulled \in [Gateways -> Counts]
      BY DEF TypeInv, TypeOK
    <3> HIDE DEF names
    <3>3. pulled'[h][m] = IF h = g /\ m \in names THEN pulled[h][m] + 1 ELSE pulled[h][m]
      BY <3>1, <3>2, CountAt
    <3> QED
      BY <1>0, <3>3
  <2> QED
    BY <1>0, <2>1, <2>2 DEF GuessBound
<1>4. ASSUME NEW g \in Gateways, Restart(g)
      PROVE  GuessBound(h, m)'
  BY <1>0, <1>4 DEF Restart, GuessBound, TypeInv, TypeOK
<1> QED
  BY <1>1, <1>2, <1>3, <1>4, Cases DEF PreStep

\* However messages are lost, delayed or reordered and gateways restarted, a
\* name is guessed at most once more than it was asked for because of its own
\* pre-request, plus once for each restart of the guessing gateway.
THEOREM GuessesAreBounded == Spec => []GuessesBounded
BY TypeInvariant, GuessesInit, GuessesStep, PTL DEF Spec

\* The two requests a gateway can have for a name, by the flag of the callback.
Tcp(n)   == [name |-> n, isTCP |-> TRUE]
Other(n) == [name |-> n, isTCP |-> FALSE]

CopyBound(g, n) == copies[g][n] + pending[g][Tcp(n)] + pending[g][Other(n)] <= pulled[g][n] + guessed[g][n]

LEMMA RequestsOf ==
  ASSUME NEW n \in DataNames
  PROVE  /\ Tcp(n) \in Requests /\ Tcp(n).name = n /\ Tcp(n).isTCP
         /\ Other(n) \in Requests /\ Other(n).name = n /\ ~Other(n).isTCP
BY DEF Tcp, Other, Requests

LEMMA CopiesInit == Init => CopiesAnswerRequests
<1> SUFFICES ASSUME Init, NEW g \in Gateways, NEW n \in DataNames PROVE CopyBound(g, n)
  BY DEF CopiesAnswerRequests, CopyBound, Tcp, Other
<1>1. copies[g][n] = 0 /\ pulled[g][n] = 0 /\ guessed[g][n] = 0
  BY DEF Init, NoCounts
<1>2. pending[g][Tcp(n)] = 0 /\ pending[g][Other(n)] = 0
  BY RequestsOf DEF Init, NoRequests
<1> QED
  BY <1>1, <1>2 DEF CopyBound

\* Every copy uses up a request of its own, and every request was counted when
\* it was expressed.
LEMMA CopiesStep == TypeInv /\ CopiesAnswerRequests /\ [Next]_vars => CopiesAnswerRequests'
<1> SUFFICES ASSUME TypeInv, CopiesAnswerRequests, [Next]_vars, NEW h \in Gateways, NEW m \in DataNames
             PROVE  CopyBound(h, m)'
  BY DEF CopiesAnswerRequests, CopyBound, Tcp, Other
<1>0. /\ CopyBound(h, m)
      /\ guessed[h][m] \in Nat /\ pulled[h][m] \in Nat /\ copies[h][m] \in Nat
      /\ pending[h][Tcp(m)] \in Nat /\ pending[h][Other(m)] \in Nat
      /\ Tcp(m) \in Requests /\ Other(m) \in Requests
  BY RequestsOf DEF CopiesAnswerRequests, CopyBound, Tcp, Other, TypeInv, TypeOK, Counts
<1>1. ASSUME UNCHANGED <<pending, copies, pulled, guessed>>
      PROVE  CopyBound(h, m)'
  BY <1>0, <1>1 DEF CopyBound
<1>2. ASSUME NEW g \in Gateways, CaptureStep(g) \/ FacePut(g) \/ FaceExpress(g)
      PROVE  CopyBound(h, m)'
  BY <1>1, <1>2 DEF CaptureStep, DealFirst, DealNext, DealOther, FacePut, FaceExpress, history
<1>3. ASSUME NEW g \in Gateways, NEW n \in PreNames, DealPreTcp(g, n)
      PROVE  CopyBound(h, m)'
  <2> DEFINE own   == {NextName(n, TRUE)}
             fresh == NewGuesses(g, n)
  <2>1. /\ pulled' = Count(pulled, g, own)
        /\ guessed' = Count(guessed, g, fresh)
        /\ Express(g, own \cup fresh, TRUE)
        /\ copies' = copies
    BY <1>3 DEF DealPreTcp, Wanted
  <2> HIDE DEF own, fresh
  <2>2. pulled \in [Gateways -> Counts] /\ guessed \in [Gateways -> Counts]
    BY DEF TypeInv, TypeOK
  <2>3. /\ pulled'[h][m] = IF h = g /\ m \in own THEN pulled[h][m] + 1 ELSE pulled[h][m]
        /\ guessed'[h][m] = IF h = g /\ m \in fresh THEN guessed[h][m] + 1 ELSE guessed[h][m]
    BY <2>1, <2>2, CountAt
  <2>4. pending'[h][Tcp(m)] = IF h = g /\ m \in own \cup fresh
                                THEN pending[h][Tcp(m)] + 1 ELSE pending[h][Tcp(m)]
    BY <2>1, RequestsOf DEF Express, TypeInv, TypeOK
  <2>5. pending'[h][Other(m)] = pending[h][Other(m)]
    BY <2>1, RequestsOf DEF Express, TypeInv, TypeOK
  <2> QED
    BY <1>0, <2>1, <2>3, <2>4, <2>5 DEF CopyBound
<1>4. ASSUME NEW g \in Gateways, NEW n \in PreNames, DealPreOther(g, n)
      PROVE  CopyBound(h, m)'
  <2> DEFINE own == {NextName(n, FALSE)}
  <2>1. /\ pulled' = Count(pulled, g, own)
        /\ Express(g, own, FALSE)
        /\ copies' = copies /\ guessed' = guessed
    BY <1>4 DEF DealPreOther
  <2> HIDE DEF own
  <2>2. pulled \in [Gateways -> Counts]
    BY DEF TypeInv, TypeOK
  <2>3. pulled'[h][m] = IF h = g /\ m \in own THEN pulled[h][m] + 1 ELSE pulled[h][m]
    BY <2>1, <2>2, CountAt
  <2>4. pending'[h][Other(m)] = IF h = g /\ m \in own
                                  THEN pending[h][Other(m)] + 1 ELSE pending[h][Other(m)]
    BY <2>1, RequestsOf DEF Express, TypeInv, TypeOK
  <2>5. pending'[h][Tcp(m)] = pending[h][Tcp(m)]
    BY <2>1, RequestsOf DEF Express, TypeInv, TypeOK
  <2> QED
    BY <1>0, <2>1, <2>3, <2>4, <2>5 DEF CopyBound
<1>5. ASSUME NEW g \in Gateways, DataStep(g)
      PROVE  CopyBound(h, m)'
  <2>1. PICK d \in stored, isTCP \in BOOLEAN : OnData(g, d, isTCP)
    BY <1>5 DEF DataStep
  <2> DEFINE r == [name |-> d.name, isTCP |-> isTCP]
  <2>2. d.name \in DataNames /\ r \in Requests
    BY DEF TypeInv, TypeOK, Data, Requests
  <2>3. /\ pending' = [pending EXCEPT ![g][r] = 0]
        /\ copies' = [copies EXCEPT ![g][d.name] = @ + pending[g][r]]
        /\ UNCHANGED <<pulled, guessed>>
    BY <2>1 DEF OnData, Satisfy
  <2>4. CASE h = g /\ m = d.name
    <3>1. r = Tcp(m) \/ r = Other(m)
      BY <2>4 DEF Tcp, Other
    <3>2. Tcp(m) # Other(m)
      BY DEF Tcp, Other
    <3> HIDE DEF r
    <3>3. copies'[h][m] = copies[h][m] + pending[h][r]
      BY <2>2, <2>3, <2>4 DEF TypeInv, TypeOK, Counts
    <3>4. pending'[h][r] = 0 /\ \A q \in Requests : q # r => pending'[h][q] = pending[h][q]
      BY <2>2, <2>3, <2>4 DEF TypeInv, TypeOK
    <3> QED
      BY <1>0, <2>3, <3>1, <3>2, <3>3, <3>4 DEF CopyBound
  <2>5. CASE ~(h = g /\ m = d.name)
    <3>1. ~(h = g) \/ (r # Tcp(m) /\ r # Other(m))
      BY <2>5 DEF Tcp, Other
    <3> HIDE DEF r
    <3>2. copies'[h][m] = copies[h][m]
      BY <2>3, <2>5 DEF TypeInv, TypeOK, Counts
    <3>3. pending'[h][Tcp(m)] = pending[h][Tcp(m)] /\ pending'[h][Other(m)] = pending[h][Other(m)]
      BY <1>0, <2>3, <3>1 DEF TypeInv, TypeOK
    <3> QED
      BY <1>0, <2>3, <3>2, <3>3 DEF CopyBound
  <2> QED
    BY <2>4, <2>5
<1>6. ASSUME NEW g \in Gateways, NEW r \in Requests, OnTimeoutOrNack(g, r)
      PROVE  CopyBound(h, m)'
  <2>1. /\ pending'[h][Tcp(m)] \in Nat /\ pending'[h][Tcp(m)] <= pending[h][Tcp(m)]
        /\ pending'[h][Other(m)] \in Nat /\ pending'[h][Other(m)] <= pending[h][Other(m)]
    BY <1>0, <1>6 DEF OnTimeoutOrNack, TypeInv, TypeOK
  <2> QED
    BY <1>0, <1>6, <2>1 DEF OnTimeoutOrNack, history, CopyBound
<1>7. ASSUME NEW g \in Gateways, Restart(g)
      PROVE  CopyBound(h, m)'
  <2>1. /\ pending'[h][Tcp(m)] \in {0, pending[h][Tcp(m)]}
        /\ pending'[h][Other(m)] \in {0, pending[h][Other(m)]}
    BY <1>0, <1>7 DEF Restart, NoRequests, TypeInv, TypeOK
  <2> QED
    BY <1>0, <1>7, <2>1 DEF Restart, CopyBound
<1>8. CASE Loss \/ (\E d \in stored : Evict(d)) \/ UNCHANGED vars
  BY <1>1, <1>8 DEF Loss, LosePre, Evict, vars, process, history
<1> QED
  BY <1>2, <1>3, <1>4, <1>5, <1>6, <1>7, <1>8 DEF Next, System, NdnStep, Faults, PreStep

\* The receiving host never sees more copies of a packet than the gateway
\* expressed interests for its name, timeouts and restarts included.
THEOREM CopiesAreAnswers == Spec => []CopiesAnswerRequests
BY TypeInvariant, CopiesInit, CopiesStep, PTL DEF Spec

-----------------------------------------------------------------------------
(* The tunnel.  A Data that is stored, or waits to be put, carries a       *)
(* captured packet under a name that leads to the packet's destination.    *)

Carries(d, packets) ==
  /\ d.content \in packets
  /\ d.name \in TcpDataNames    => TargetIp(d.name, TRUE) = d.content.key.dst
  /\ d.name \notin TcpDataNames => TargetIp(d.name, FALSE) = d.content.key.dst

Contents ==
  /\ \A d \in stored : Carries(d, captured)
  /\ \A g \in Gateways : \A i \in DOMAIN posted[g] :
       posted[g][i] \in PutOps => Carries(posted[g][i].data, captured)

\* Packets are captured in the order of their ids, so that none is captured twice.
CapturedIds == \A p \in captured : p.id <= ncaptured

TunnelInv == TypeInv /\ Contents /\ CapturedIds /\ InjectedIsCaptured

LEMMA TunnelInit == Init => TunnelInv
BY TypeInit DEF Init, TunnelInv, Contents, CapturedIds, InjectedIsCaptured

\* What a step of the capture thread does to the packets and the queue.
LEMMA CaptureEffect ==
  ASSUME TypeInv, NEW g \in Gateways, CaptureStep(g)
  PROVE  \E p \in Packets, d \in Data, n \in PreNames :
           /\ p.id = ncaptured + 1 /\ ncaptured' = p.id /\ captured' = captured \cup {p}
           /\ posted' = [posted EXCEPT ![g] = @ \o << [op |-> "put", data |-> d], [op |-> "express", name |-> n] >>]
           /\ d.content = p
           /\ d.name \in TcpDataNames    => TargetIp(d.name, TRUE) = p.key.dst
           /\ d.name \notin TcpDataNames => TargetIp(d.name, FALSE) = p.key.dst
           /\ UNCHANGED <<stored, pre, injected>>
<1>1. PICK p \in Packets : DealFirst(g, p) \/ DealNext(g, p) \/ DealOther(g, p)
  BY DEF CaptureStep
<1>2. p.key \in Keys /\ p.id \in Ids
  BY DEF Packets
<1>3. p.id = ncaptured + 1 /\ ncaptured' = p.id /\ captured' = captured \cup {p}
  BY <1>1 DEF DealFirst, DealNext, DealOther, Capture
<1>4. UNCHANGED <<stored, pre, injected>>
  BY <1>1 DEF DealFirst, DealNext, DealOther, network
<1>5. ASSUME NEW s \in 1..MaxPackets,
             PublishAndAnnounce(g, p, BuildName(p.key, 4, TcpUid(p.key, s)), BuildName(p.key, 3, TcpUid(p.key, s)))
      PROVE  \E d \in Data, n \in PreNames :
               /\ posted' = [posted EXCEPT ![g] = @ \o << [op |-> "put", data |-> d], [op |-> "express", name |-> n] >>]
               /\ d.content = p
               /\ d.name \in TcpDataNames    => TargetIp(d.name, TRUE) = p.key.dst
               /\ d.name \notin TcpDataNames => TargetIp(d.name, FALSE) = p.key.dst
  <2> DEFINE dn == BuildName(p.key, 4, TcpUid(p.key, s))
             pn == BuildName(p.key, 3, TcpUid(p.key, s))
             d  == [name |-> dn, content |-> p]
  <2>1. dn \in TcpDataNames /\ pn \in PreNames
    BY <1>2, BoundAssumption DEF TcpDataNames, PreNames, TcpPreNames, Ids
  <2>2. TargetIp(dn, TRUE) = p.key.dst
    BY TargetOfTcp
  <2>3. posted' = [posted EXCEPT ![g] = @ \o << [op |-> "put", data |-> d], [op |-> "express", name |-> pn] >>]
    BY <1>5 DEF PublishAndAnnounce
  <2> HIDE DEF dn, pn
  <2>4. d \in Data /\ d.name = dn /\ d.content = p
    BY <2>1 DEF Data, DataNames
  <2> QED
    BY <2>1, <2>2, <2>3, <2>4
<1>6. CASE DealFirst(g, p)
  <2>1. 1 \in 1..MaxPackets
    BY <1>2, BoundAssumption DEF Ids
  <2> QED
    BY <1>3, <1>4, <1>5, <1>6, <2>1 DEF DealFirst
<1>7. CASE DealNext(g, p)
  <2>1. NextSequence(g, p.key) \in 1..MaxPackets
    BY <1>2, <1>3, BoundAssumption DEF NextSequence, TypeInv, TypeOK, Numbering, Ids
  <2> QED
    BY <1>3, <1>4, <1>5, <1>7, <2>1 DEF DealNext
<1>8. CASE DealOther(g, p)
  <2> DEFINE dn == BuildName(p.key, 2, p.id)
             pn == BuildName(p.key, 1, p.id)
             d  == [name |-> dn, content |-> p]
  <2>1. dn \in OtherDataNames /\ pn \in PreNames
    BY <1>2 DEF OtherDataNames, PreNames, OtherPreNames
  <2>2. TargetIp(dn, FALSE) = p.key.dst /\ dn \notin TcpDataNames
    BY <2>1, TargetOfOther, KindsDiffer
  <2>3. posted' = [posted EXCEPT ![g] = @ \o << [op |-> "put", data |-> d], [op |-> "express", name |-> pn] >>]
    BY <1>8 DEF DealOther, PublishAndAnnounce
  <2> HIDE DEF dn, pn
  <2>4. d \in Data /\ d.name = dn /\ d.content = p
    BY <2>1 DEF Data, DataNames
  <2> QED
    BY <1>3, <1>4, <2>1, <2>2, <2>3, <2>4
<1> QED
  BY <1>1, <1>6, <1>7, <1>8

\* A step of the capture thread captures one new packet, and publishes it under
\* a name that leads to its destination.
LEMMA TunnelCapture ==
  ASSUME TunnelInv, NEW g \in Gateways, CaptureStep(g)
  PROVE  Contents' /\ CapturedIds' /\ InjectedIsCaptured' /\ [Tunnel!Next]_<<captured, injected>>
<1>1. PICK p \in Packets, d \in Data, n \in PreNames :
        /\ p.id = ncaptured + 1 /\ ncaptured' = p.id /\ captured' = captured \cup {p}
        /\ posted' = [posted EXCEPT ![g] = @ \o << [op |-> "put", data |-> d], [op |-> "express", name |-> n] >>]
        /\ d.content = p
        /\ d.name \in TcpDataNames    => TargetIp(d.name, TRUE) = p.key.dst
        /\ d.name \notin TcpDataNames => TargetIp(d.name, FALSE) = p.key.dst
        /\ UNCHANGED <<stored, pre, injected>>
  BY CaptureEffect DEF TunnelInv
<1>2. ASSUME NEW e, Carries(e, captured) PROVE Carries(e, captured')
  BY <1>1, <1>2 DEF Carries
<1>3. Carries(d, captured')
  BY <1>1 DEF Carries
<1>4. ASSUME NEW h \in Gateways, NEW i \in DOMAIN posted'[h], posted'[h][i] \in PutOps
      PROVE  Carries(posted'[h][i].data, captured')
  <2> DEFINE put     == [op |-> "put", data |-> d]
             express == [op |-> "express", name |-> n]
  <2>1. posted[h] \in Seq(FaceOps) /\ posted[g] \in Seq(FaceOps)
    BY DEF TunnelInv, TypeInv, TypeOK
  <2>2. put.data = d /\ express \notin PutOps /\ <<put, express>> \in Seq({put, express})
    BY DEF PutOps
  <2>3. posted'[h] = IF h = g THEN posted[g] \o <<put, express>> ELSE posted[h]
    BY <1>1 DEF TunnelInv, TypeInv, TypeOK
  <2> HIDE DEF put, express
  <2>4. (i \in DOMAIN posted[h] /\ posted'[h][i] = posted[h][i]) \/ posted'[h][i] = put \/ posted'[h][i] = express
    BY <1>4, <2>1, <2>3
  <2>5. posted'[h][i] = put => Carries(posted'[h][i].data, captured')
    BY <1>3, <2>2
  <2> QED
    BY <1>2, <1>4, <2>2, <2>4, <2>5 DEF TunnelInv, Contents
<1>5. Contents'
  BY <1>1, <1>2, <1>4 DEF TunnelInv, Contents
<1>6. CapturedIds' /\ p \notin captured
  BY <1>1 DEF TunnelInv, CapturedIds, TypeInv, TypeOK, Packets, Ids
<1>7. InjectedIsCaptured'
  BY <1>1 DEF TunnelInv, InjectedIsCaptured
<1>8. Tunnel!Capture(p)
  BY <1>1, <1>6 DEF Tunnel!Capture
<1> QED
  BY <1>5, <1>6, <1>7, <1>8 DEF Tunnel!Next

\* A step of the NDN thread on a posted call stores what the queue carried.
LEMMA TunnelPosted ==
  ASSUME TunnelInv, NEW g \in Gateways, FacePut(g) \/ FaceExpress(g)
  PROVE  Contents' /\ UNCHANGED <<ncaptured, captured, injected>>
<1>1. /\ posted[g] \in Seq(FaceOps) /\ posted[g] # << >>
      /\ posted' = [posted EXCEPT ![g] = Tail(posted[g])]
      /\ UNCHANGED <<ncaptured, captured, injected>>
  BY DEF FacePut, FaceExpress, history, TunnelInv, TypeInv, TypeOK
<1>2. ASSUME NEW e, Carries(e, captured) PROVE Carries(e, captured')
  BY <1>1, <1>2 DEF Carries
<1>3. ASSUME NEW h \in Gateways, NEW i \in DOMAIN posted'[h], posted'[h][i] \in PutOps
      PROVE  Carries(posted'[h][i].data, captured')
  <2>1. posted[h] \in Seq(FaceOps)
    BY DEF TunnelInv, TypeInv, TypeOK
  <2>2. posted'[h] = IF h = g THEN Tail(posted[g]) ELSE posted[h]
    BY <1>1 DEF TunnelInv, TypeInv, TypeOK
  <2>3. \E j \in DOMAIN posted[h] : posted'[h][i] = posted[h][j]
    BY <1>1, <1>3, <2>1, <2>2
  <2> QED
    BY <1>2, <1>3, <2>3 DEF TunnelInv, Contents
<1>4. ASSUME NEW e \in stored' PROVE Carries(e, captured')
  <2>1. 1 \in DOMAIN posted[g] /\ Head(posted[g]) = posted[g][1]
    BY <1>1
  <2>2. e \in stored \/ (e = Head(posted[g]).data /\ Head(posted[g]) \in PutOps)
    BY <1>4 DEF FacePut, FaceExpress
  <2>3. Carries(e, captured)
    BY <2>1, <2>2 DEF TunnelInv, Contents
  <2> QED
    BY <1>2, <2>3
<1> QED
  BY <1>1, <1>3, <1>4 DEF Contents

\* A received Data is a delivery of the tunnel.
LEMMA TunnelData ==
  ASSUME TunnelInv, NEW g \in Gateways, DataStep(g)
  PROVE  InjectedIsCaptured' /\ Tunnel!Next /\ UNCHANGED <<stored, posted, ncaptured, captured>>
<1>1. PICK d \in stored, isTCP \in BOOLEAN : OnData(g, d, isTCP)
  BY DEF DataStep
<1> DEFINE to == TargetIp(d.name, isTCP)
<1>2. /\ injected' = injected \cup {[gw |-> g, to |-> to, pkt |-> d.content]}
      /\ UNCHANGED <<stored, posted, ncaptured, captured>>
      /\ pending[g][[name |-> d.name, isTCP |-> isTCP]] > 0
  BY <1>1 DEF OnData, network
<1>3. d \in Data /\ d.name \in DataNames /\ d.content \in Packets
  BY DEF TunnelInv, TypeInv, TypeOK, Data
<1>4. [name |-> d.name, isTCP |-> isTCP] \in Requests
  BY <1>3 DEF Requests
<1>5. RequestOK(g, d.name, isTCP)
  BY <1>2, <1>4 DEF TunnelInv, TypeInv, Addressed
<1>6. d.content \in captured /\ to = d.content.key.dst /\ GatewayOf[to] = g
  <2>1. d.content \in captured
    BY DEF TunnelInv, Contents, Carries
  <2>2. GatewayOf[to] = g /\ (isTCP <=> d.name \in TcpDataNames)
    BY <1>5 DEF RequestOK
  <2>3. CASE isTCP = TRUE
    BY <2>2, <2>3 DEF TunnelInv, Contents, Carries
  <2>4. CASE isTCP = FALSE
    BY <2>2, <2>4 DEF TunnelInv, Contents, Carries
  <2> QED
    BY <2>1, <2>2, <2>3, <2>4
<1> HIDE DEF to
<1>7. InjectedIsCaptured'
  BY <1>2, <1>6 DEF TunnelInv, InjectedIsCaptured
<1>8. Tunnel!Deliver(d.content)
  BY <1>2, <1>6 DEF Tunnel!Deliver, Tunnel!Delivery
<1> QED
  BY <1>2, <1>3, <1>7, <1>8 DEF Tunnel!Next

\* The other steps touch neither end of the tunnel.
LEMMA TunnelElse ==
  ASSUME TunnelInv, (\E g \in Gateways : PreStep(g)) \/ Faults \/ UNCHANGED vars
  PROVE  Contents' /\ UNCHANGED <<ncaptured, captured, injected>>
<1>1. UNCHANGED <<ncaptured, captured, injected>> /\ stored' \subseteq stored
  BY DEF PreStep, DealPreTcp, DealPreOther, Faults, Loss, LosePre, OnTimeoutOrNack, Evict, Restart,
         vars, process, network, history
<1>2. ASSUME NEW e, Carries(e, captured) PROVE Carries(e, captured')
  BY <1>1, <1>2 DEF Carries
<1>3. posted' = posted \/ \E g \in Gateways : posted' = [posted EXCEPT ![g] = << >>]
  BY DEF PreStep, DealPreTcp, DealPreOther, Faults, Loss, LosePre, OnTimeoutOrNack, Evict, Restart,
         vars, process, network, history
<1>4. ASSUME NEW h \in Gateways, NEW i \in DOMAIN posted'[h], posted'[h][i] \in PutOps
      PROVE  Carries(posted'[h][i].data, captured')
  <2>1. posted'[h] = posted[h] \/ posted'[h] = << >>
    BY <1>3 DEF TunnelInv, TypeInv, TypeOK
  <2>2. posted'[h] = posted[h]
    BY <1>4, <2>1
  <2> QED
    BY <1>2, <1>4, <2>2 DEF TunnelInv, Contents
<1> QED
  BY <1>1, <1>2, <1>4 DEF TunnelInv, Contents

LEMMA TunnelStep == TunnelInv /\ [Next]_vars => TunnelInv' /\ [Tunnel!Next]_<<captured, injected>>
<1> SUFFICES ASSUME TunnelInv, [Next]_vars
             PROVE  TunnelInv' /\ [Tunnel!Next]_<<captured, injected>>
  OBVIOUS
<1>0. TypeInv'
  BY TypeStep DEF TunnelInv
<1>1. ASSUME UNCHANGED <<ncaptured, captured, injected>>
      PROVE  CapturedIds' /\ InjectedIsCaptured'
  BY <1>1 DEF TunnelInv, CapturedIds, InjectedIsCaptured
<1>2. CASE \E g \in Gateways : CaptureStep(g)
  BY <1>0, <1>2, TunnelCapture DEF TunnelInv
<1>3. CASE \E g \in Gateways : FacePut(g) \/ FaceExpress(g)
  BY <1>0, <1>1, <1>3, TunnelPosted DEF TunnelInv
<1>4. CASE \E g \in Gateways : DataStep(g)
  BY <1>0, <1>4, TunnelData DEF TunnelInv, Contents, Carries, CapturedIds
<1>5. CASE (\E g \in Gateways : PreStep(g)) \/ Faults \/ UNCHANGED vars
  BY <1>0, <1>1, <1>5, TunnelElse DEF TunnelInv
<1> QED
  BY <1>2, <1>3, <1>4, <1>5 DEF Next, System, NdnStep

\* What comes out at a gateway was captured and is addressed to the host it is
\* given to, whatever was restarted and whichever name was used twice.
THEOREM InjectionsAreCaptured == Spec => []InjectedIsCaptured
<1>1. TunnelInv => InjectedIsCaptured
  BY DEF TunnelInv
<1> QED
  BY <1>1, TunnelInit, TunnelStep, PTL DEF Spec

\* The gateways and the network between them implement the tunnel.
THEOREM TunnelImplemented == Spec => ImplementsTunnel
<1>1. Init => Tunnel!Init
  BY DEF Init, Tunnel!Init
<1> QED
  BY <1>1, TunnelInit, TunnelStep, PTL DEF Spec, ImplementsTunnel, Tunnel!Spec
=============================================================================
