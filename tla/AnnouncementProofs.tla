------------------------- MODULE AnnouncementProofs -------------------------
(***************************************************************************)
(* Theorems about what Gateway publishes and announces, for every set of   *)
(* gateways, hosts, flows and protocols, every NUM_OF_GUEST and bound,     *)
(* with all the faults: numbers without gaps, names without repeats, Data  *)
(* before pre-requests, and from these the bound on copies.                *)
(*                                                                         *)
(* An announcement is a flow k, a number or uuid s, and whether it is      *)
(* numbered (t).  It has a pre-request and a data name.                    *)
(***************************************************************************)
EXTENDS GatewayProofs

PreName(k, s, t)  == IF t THEN BuildName(k, 3, TcpUid(k, s)) ELSE BuildName(k, 1, s)
DataName(k, s, t) == IF t THEN BuildName(k, 4, TcpUid(k, s)) ELSE BuildName(k, 2, s)

-----------------------------------------------------------------------------
(* Names.                                                                  *)

\* Equal pre-requests are of one kind and one number between the same hosts;
\* numbered ones are of one flow.
LEMMA PreNameInjective ==
  ASSUME NEW k \in Keys, NEW l \in Keys, NEW s, NEW r, NEW t \in BOOLEAN, NEW u \in BOOLEAN,
         PreName(k, s, t) = PreName(l, r, u)
  PROVE  s = r /\ t = u /\ k.src = l.src /\ k.dst = l.dst /\ (t => k = l)
<1> USE DEF PreName, BuildName, TcpUid
<1>1. t = u
  BY SMT
<1>2. CASE t
  BY <1>1, <1>2, KeyAssumption DEF KeyType
<1>3. CASE ~t
  BY <1>1, <1>3
<1> QED  BY <1>1, <1>2, <1>3

\* The same for data names: no address is called "TCP".
LEMMA DataNameInjective ==
  ASSUME NEW k \in Keys, NEW l \in Keys, NEW s, NEW r, NEW t \in BOOLEAN, NEW u \in BOOLEAN,
         DataName(k, s, t) = DataName(l, r, u)
  PROVE  s = r /\ t = u /\ k.src = l.src /\ k.dst = l.dst /\ (t => k = l)
<1> USE DEF DataName, BuildName, TcpUid
<1>0. k.src # "TCP" /\ l.src # "TCP"
  BY KeyAssumption, HostAssumption DEF KeyType
<1>1. t = u
  BY <1>0
<1>2. CASE t
  BY <1>1, <1>2, KeyAssumption DEF KeyType
<1>3. CASE ~t
  BY <1>1, <1>3
<1> QED  BY <1>1, <1>2, <1>3

\* A pre-request is answered with a request for the data name it announces.
LEMMA NextOfPre ==
  ASSUME NEW k \in Keys, NEW s \in Ids, NEW t \in BOOLEAN
  PROVE  /\ PreName(k, s, t) \in PreNames
         /\ t <=> (PreName(k, s, t) \in TcpPreNames)
         /\ NextName(PreName(k, s, t), t) = DataName(k, s, t)
         /\ DataName(k, s, t) \in DataNames
         /\ SourceOf(DataName(k, s, t)) = k.src
<1>1. PreName(k, s, t) \in PreNames
  BY DEF PreName, PreNames, TcpPreNames, OtherPreNames
<1>2. t => PreName(k, s, t) \in TcpPreNames
  BY DEF PreName, TcpPreNames
<1>3. ASSUME ~t, PreName(k, s, t) \in TcpPreNames PROVE FALSE
  BY <1>3 DEF PreName, TcpPreNames, BuildName
<1>4. NextName(PreName(k, s, t), t) = DataName(k, s, t)
  BY NextOfTcp, NextOfOther DEF PreName, DataName
<1>5. DataName(k, s, t) \in DataNames
  <2>1. s \in 1..(MaxPackets + NUM_OF_GUEST)
    BY BoundAssumption DEF Ids
  <2> QED  BY <2>1 DEF DataName, DataNames, TcpDataNames, OtherDataNames
<1>6. SourceOf(DataName(k, s, t)) = k.src
  BY DEF DataName, SourceOf, BuildName
<1> QED  BY <1>1, <1>2, <1>3, <1>4, <1>5, <1>6

\* Every pre-request is that of an announcement.
LEMMA EveryPreName ==
  ASSUME NEW n \in PreNames
  PROVE  \E k \in Keys, s \in Ids, t \in BOOLEAN : n = PreName(k, s, t)
<1>1. CASE n \in TcpPreNames
  <2>1. PICK k \in Keys, s \in Ids : n = PreName(k, s, TRUE)
    BY <1>1 DEF TcpPreNames, PreName
  <2> QED  BY <2>1
<1>2. CASE n \in OtherPreNames
  <2>1. PICK k \in Keys, s \in Ids : n = PreName(k, s, FALSE)
    BY <1>2 DEF OtherPreNames, PreName
  <2> QED  BY <2>1
<1> QED  BY <1>1, <1>2 DEF PreNames

-----------------------------------------------------------------------------
(* What a step of the capture thread gives: an announcement of its own.    *)

\* An announcement was made in the present life of its source's gateway; a
\* uuid in any life.
Given(k, s, t) == IF t THEN s <= sequenceTable[GatewayOf[k.src]][k] ELSE s <= ncaptured

PutOf(p, s, t)     == [op |-> "put", data |-> [name |-> DataName(p.key, s, t), content |-> p]]
ExpressOf(k, s, t) == [op |-> "express", name |-> PreName(k, s, t)]

Announces(g, p, s, t) ==
  /\ g = GatewayOf[p.key.src]
  /\ p.id = ncaptured + 1 /\ ncaptured' = p.id /\ captured' = captured \cup {p}
  /\ posted' = [posted EXCEPT ![g] = @ \o << PutOf(p, s, t), ExpressOf(p.key, s, t) >>]
  /\ t => /\ s = sequenceTable[g][p.key] + 1
          /\ sequenceTable' = [sequenceTable EXCEPT ![g][p.key] = s]
  /\ ~t => s = p.id /\ UNCHANGED sequenceTable
  /\ UNCHANGED <<guest, pending, stored, pre, published, injected, pulled, guessed, copies, restarts>>

LEMMA SequenceOnAnnounce ==
  ASSUME TypeInv, NEW g \in Gateways, NEW p \in Packets, NEW s \in Ids, NEW t \in BOOLEAN,
         Announces(g, p, s, t), NEW h \in Gateways, NEW k \in Keys
  PROVE  /\ sequenceTable[h][k] \in Nat
         /\ t /\ h = g /\ k = p.key => /\ s = sequenceTable[h][k] + 1
                                       /\ sequenceTable'[h][k] = s
         /\ ~(t /\ h = g /\ k = p.key) => sequenceTable'[h][k] = sequenceTable[h][k]
<1>1. sequenceTable[h][k] \in Nat /\ sequenceTable \in [Gateways -> [Keys -> 0..MaxPackets]]
  BY BoundAssumption DEF TypeInv, TypeOK
<1>2. CASE t
  <2>1. sequenceTable' = [sequenceTable EXCEPT ![g][p.key] = s] /\ s = sequenceTable[g][p.key] + 1
    BY <1>2 DEF Announces
  <2>2. p.key \in Keys
    BY DEF Packets
  <2> QED  BY <1>1, <1>2, <2>1, <2>2
<1>3. CASE ~t
  BY <1>1, <1>3 DEF Announces
<1> QED  BY <1>1, <1>2, <1>3

LEMMA CaptureAnnounces ==
  ASSUME TypeInv, NEW g \in Gateways, CaptureStep(g)
  PROVE  \E p \in Packets, s \in Ids, t \in BOOLEAN : Announces(g, p, s, t)
<1>1. PICK p \in Packets : DealFirst(g, p) \/ DealNext(g, p) \/ DealOther(g, p)
  BY DEF CaptureStep
<1>2. p.key \in Keys /\ p.id \in 1..MaxPackets /\ MaxPackets \in Nat
  BY BoundAssumption DEF Packets, Ids
<1>3. p.id = ncaptured + 1 /\ ncaptured' = p.id /\ captured' = captured \cup {p} /\ g = GatewayOf[p.key.src]
  BY <1>1 DEF DealFirst, DealNext, DealOther, Capture
<1>4. UNCHANGED <<guest, pending, stored, pre, published, injected, pulled, guessed, copies, restarts>>
  BY <1>1 DEF DealFirst, DealNext, DealOther, network
<1>5. CASE DealFirst(g, p)
  <2>1. sequenceTable[g][p.key] = 0 /\ 1 \in Ids
    BY <1>2, <1>5 DEF DealFirst, Absent, Ids
  <2>2. Announces(g, p, 1, TRUE)
    BY <1>3, <1>4, <1>5, <2>1 DEF DealFirst, Announces, PublishAndAnnounce, PutOf, ExpressOf, PreName, DataName
  <2> QED  BY <2>1, <2>2
<1>6. CASE DealNext(g, p)
  <2> DEFINE s == sequenceTable[g][p.key] + 1
  <2>1. s \in Ids
    BY <1>2, <1>3 DEF Ids, TypeInv, TypeOK, Numbering
  <2>2. Announces(g, p, s, TRUE)
    BY <1>3, <1>4, <1>6 DEF DealNext, NextSequence, Announces, PublishAndAnnounce, PutOf, ExpressOf, PreName, DataName
  <2> HIDE DEF s
  <2> QED  BY <2>1, <2>2
<1>7. CASE DealOther(g, p)
  <2>1. p.id \in Ids
    BY <1>2 DEF Ids
  <2>2. Announces(g, p, p.id, FALSE)
    BY <1>3, <1>4, <1>7 DEF DealOther, Announces, PublishAndAnnounce, PutOf, ExpressOf, PreName, DataName
  <2> QED  BY <2>1, <2>2
<1> QED  BY <1>1, <1>5, <1>6, <1>7

-----------------------------------------------------------------------------
(* The Data of the announcements: published, or posted and not yet run.    *)

Sent == published \cup UNION { PostedPuts(g) : g \in Gateways }

LEMMA PostedPut ==
  ASSUME NEW g, NEW d
  PROVE  d \in PostedPuts(g) <=>
           \E i \in DOMAIN posted[g] : posted[g][i] \in PutOps /\ posted[g][i].data = d
BY DEF PostedPuts

LEMMA PostedPutNext ==
  ASSUME NEW g, NEW d
  PROVE  d \in PostedPuts(g)' <=>
           \E i \in DOMAIN posted'[g] : posted'[g][i] \in PutOps /\ posted'[g][i].data = d
BY DEF PostedPuts

\* Two elements at the end of a sequence.
LEMMA QueueExtended ==
  ASSUME NEW S, NEW q \in Seq(S), NEW a, NEW b, NEW r, r = q \o <<a, b>>
  PROVE  /\ DOMAIN r = 1..(Len(q) + 2) /\ Len(q) \in Nat
         /\ DOMAIN q = 1..Len(q)
         /\ \A i \in 1..Len(q) : r[i] = q[i]
         /\ r[Len(q) + 1] = a
         /\ r[Len(q) + 2] = b
OBVIOUS

\* An announcement posts its Data, behind everything that is posted.
LEMMA PutsOnAnnounce ==
  ASSUME TypeInv, NEW g \in Gateways, NEW h \in Gateways,
         NEW p \in Packets, NEW s \in Ids, NEW t \in BOOLEAN, Announces(g, p, s, t)
  PROVE  PostedPuts(h)' = PostedPuts(h) \cup
           (IF h = g THEN {[name |-> DataName(p.key, s, t), content |-> p]} ELSE {})
<1> DEFINE d       == [name |-> DataName(p.key, s, t), content |-> p]
           put     == PutOf(p, s, t)
           express == ExpressOf(p.key, s, t)
<1>1. d \in Data /\ p.key \in Keys
  BY NextOfPre DEF Packets, Data
<1>2. put \in PutOps /\ put.data = d /\ express \notin PutOps
  BY <1>1 DEF PutOf, ExpressOf, PutOps
<1>3. posted[h] \in Seq(FaceOps) /\ posted[g] \in Seq(FaceOps) /\ <<put, express>> \in Seq({put, express})
  BY DEF TypeInv, TypeOK
<1>4. posted'[h] = IF h = g THEN posted[g] \o <<put, express>> ELSE posted[h]
  BY DEF Announces, TypeInv, TypeOK
<1> HIDE DEF d, put, express
<1>5. CASE h # g
  BY <1>4, <1>5, PostedPut, PostedPutNext
<1>6. CASE h = g
  <2>0. posted'[g] = posted[g] \o <<put, express>>
    BY <1>4, <1>6
  <2>1. /\ DOMAIN posted'[g] = 1..(Len(posted[g]) + 2) /\ Len(posted[g]) \in Nat
        /\ DOMAIN posted[g] = 1..Len(posted[g])
        /\ \A i \in 1..Len(posted[g]) : posted'[g][i] = posted[g][i]
        /\ posted'[g][Len(posted[g]) + 1] = put
        /\ posted'[g][Len(posted[g]) + 2] = express
    BY <1>3, <2>0, QueueExtended
  <2>2. ASSUME NEW e PROVE e \in PostedPuts(g)' <=> e \in PostedPuts(g) \/ e = d
    <3>1. ASSUME NEW i \in DOMAIN posted'[g], posted'[g][i] \in PutOps, posted'[g][i].data = e
          PROVE  e \in PostedPuts(g) \/ e = d
      <4>1. i \in 1..Len(posted[g]) \/ i = Len(posted[g]) + 1 \/ i = Len(posted[g]) + 2
        BY <2>1
      <4> QED  BY <1>2, <2>1, <3>1, <4>1, PostedPut
    <3>2. ASSUME e \in PostedPuts(g) PROVE e \in PostedPuts(g)'
      <4>1. PICK i \in DOMAIN posted[g] : posted[g][i] \in PutOps /\ posted[g][i].data = e
        BY <3>2, PostedPut
      <4>2. i \in DOMAIN posted'[g] /\ posted'[g][i] = posted[g][i]
        BY <2>1
      <4> QED  BY <4>1, <4>2, PostedPutNext
    <3>3. d \in PostedPuts(g)'
      <4>1. Len(posted[g]) + 1 \in DOMAIN posted'[g]
        BY <2>1
      <4> QED  BY <1>2, <2>1, <4>1, PostedPutNext
    <3> QED  BY <3>1, <3>2, <3>3, PostedPutNext
  <2> QED  BY <1>6, <2>2 DEF d
<1> QED  BY <1>5, <1>6 DEF d

\* The NDN thread takes the first of the posted calls.
LEMMA QueueTail ==
  ASSUME TypeInv, NEW g \in Gateways, FacePut(g) \/ FaceExpress(g), NEW h \in Gateways
  PROVE  /\ h # g => posted'[h] = posted[h]
         /\ h = g => /\ Len(posted[g]) \in Nat /\ Len(posted[g]) > 0
                     /\ Head(posted[g]) = posted[g][1]
                     /\ DOMAIN posted[g] = 1..Len(posted[g])
                     /\ DOMAIN posted'[g] = 1..(Len(posted[g]) - 1)
                     /\ \A i \in 1..(Len(posted[g]) - 1) : posted'[g][i] = posted[g][i + 1]
<1>1. posted[g] \in Seq(FaceOps) /\ posted[g] # << >> /\ posted \in [Gateways -> Seq(FaceOps)]
  BY DEF FacePut, FaceExpress, TypeInv, TypeOK
<1>2. posted' = [posted EXCEPT ![g] = Tail(posted[g])]
  BY DEF FacePut, FaceExpress
<1>3. h # g => posted'[h] = posted[h]
  BY <1>1, <1>2
<1>4. posted'[g] = Tail(posted[g])
  BY <1>1, <1>2
<1> QED  BY <1>1, <1>3, <1>4

\* What is put leaves the queue for the stores; nothing else is lost or made.
LEMMA PutsOnTake ==
  ASSUME TypeInv, NEW g \in Gateways, FacePut(g) \/ FaceExpress(g), NEW h \in Gateways
  PROVE  /\ PostedPuts(h)' \subseteq PostedPuts(h)
         /\ PostedPuts(h) \subseteq PostedPuts(h)' \cup published'
         /\ published \subseteq published'
         /\ published' \subseteq published \cup PostedPuts(g)
<1>1. /\ FacePut(g) => published' = published \cup {Head(posted[g]).data} /\ Head(posted[g]) \in PutOps
      /\ FaceExpress(g) => published' = published /\ Head(posted[g]) \in ExpressOps
  BY DEF FacePut, FaceExpress, history
<1>2. ExpressOps \cap PutOps = {}
  BY DEF ExpressOps, PutOps
<1>3. published \subseteq published' /\ published' \subseteq published \cup PostedPuts(g)
  <2>1. 1 \in DOMAIN posted[g] /\ Head(posted[g]) = posted[g][1]
    BY QueueTail
  <2> QED  BY <1>1, <2>1, PostedPut
<1>4. CASE h # g
  BY <1>3, <1>4, QueueTail, PostedPut, PostedPutNext
<1>5. CASE h = g
  <2>1. ASSUME NEW e \in PostedPuts(g)' PROVE e \in PostedPuts(g)
    <3>1. PICK i \in DOMAIN posted'[g] : posted'[g][i] \in PutOps /\ posted'[g][i].data = e
      BY <2>1, PostedPutNext
    <3>2. i + 1 \in DOMAIN posted[g] /\ posted'[g][i] = posted[g][i + 1]
      BY QueueTail
    <3> QED  BY <3>1, <3>2, PostedPut
  <2>2. ASSUME NEW e \in PostedPuts(g) PROVE e \in PostedPuts(g)' \/ e \in published'
    <3>1. PICK i \in DOMAIN posted[g] : posted[g][i] \in PutOps /\ posted[g][i].data = e
      BY <2>2, PostedPut
    <3>2. CASE i = 1
      BY <1>1, <1>2, <3>1, <3>2, QueueTail
    <3>3. CASE i # 1
      <4>1. i - 1 \in DOMAIN posted'[g] /\ posted'[g][i - 1] = posted[g][i]
        BY <3>3, QueueTail
      <4> QED  BY <3>1, <4>1, PostedPutNext
    <3> QED  BY <3>2, <3>3
  <2> QED  BY <1>3, <1>5, <2>1, <2>2
<1> QED  BY <1>4, <1>5

\* The other steps neither post nor put; a restart forgets what was posted.
Quiet == \/ \E g \in Gateways : PreStep(g) \/ DataStep(g)
         \/ Loss
         \/ \E g \in Gateways, r \in Requests : OnTimeoutOrNack(g, r)
         \/ \E d \in stored : Evict(d)
         \/ UNCHANGED vars

LEMMA QuietUnchanged ==
  ASSUME Quiet
  PROVE  UNCHANGED <<sequenceTable, posted, ncaptured, published, restarts>>
BY DEF Quiet, PreStep, DealPreTcp, DealPreOther, DataStep, OnData, Loss, LosePre, OnTimeoutOrNack,
       Evict, vars, process, network, history

\* They send no pre-request on its way.
LEMMA QuietPre ==
  ASSUME TypeInv, Quiet, NEW n \in PreNames
  PROVE  pre[n] \in Nat /\ pre'[n] \in Nat /\ pre'[n] <= pre[n]
<1>1. (\E m \in PreNames : Arrives(m)) \/ pre' = pre
  BY DEF Quiet, PreStep, DealPreTcp, DealPreOther, DataStep, OnData, Loss, LosePre, OnTimeoutOrNack,
         Evict, vars, network
<1>2. pre \in [PreNames -> Nat]
  BY DEF TypeInv, TypeOK
<1>3. ASSUME NEW m \in PreNames, Arrives(m) PROVE pre'[n] \in Nat /\ pre'[n] <= pre[n]
  BY <1>2, <1>3 DEF Arrives
<1> QED  BY <1>1, <1>2, <1>3

\* The steps, by what they do to announcements.
LEMMA StepCases ==
  ASSUME TypeInv, [Next]_vars
  PROVE  \/ \E g \in Gateways, p \in Packets, s \in Ids, t \in BOOLEAN : Announces(g, p, s, t)
         \/ \E g \in Gateways : FacePut(g) \/ FaceExpress(g)
         \/ \E g \in Gateways : Restart(g)
         \/ Quiet
BY CaptureAnnounces DEF Next, System, NdnStep, Faults, Quiet

-----------------------------------------------------------------------------
(* Numbers without gaps.                                                   *)

LEMMA NoGapsInit == Init => NoGaps
BY DEF Init, NoGaps, NoSequence, Absent

LEMMA NoGapsStep == TypeInv /\ NoGaps /\ [Next]_vars => NoGaps'
<1> SUFFICES ASSUME TypeInv, NoGaps, [Next]_vars,
                    NEW h \in Gateways, NEW k \in Keys, NEW r \in 1..sequenceTable'[h][k]
             PROVE  \E d \in published' \cup PostedPuts(h)' : d.name = BuildName(k, 4, TcpUid(k, r))
  BY DEF NoGaps, PostedPuts
<1>0. sequenceTable[h][k] \in Nat
  BY BoundAssumption DEF TypeInv, TypeOK
<1>1. ASSUME r \in 1..sequenceTable[h][k], published \cup PostedPuts(h) \subseteq published' \cup PostedPuts(h)'
      PROVE  \E d \in published' \cup PostedPuts(h)' : d.name = BuildName(k, 4, TcpUid(k, r))
  BY <1>1 DEF NoGaps
<1>2. ASSUME NEW g \in Gateways, NEW p \in Packets, NEW s \in Ids, NEW t \in BOOLEAN, Announces(g, p, s, t)
      PROVE  \E d \in published' \cup PostedPuts(h)' : d.name = BuildName(k, 4, TcpUid(k, r))
  <2>1. published' = published /\ p.key \in Keys
    BY <1>2 DEF Announces, Packets
  <2>2. CASE r \in 1..sequenceTable[h][k]
    BY <1>1, <1>2, <2>1, <2>2, PutsOnAnnounce
  <2>3. CASE r \notin 1..sequenceTable[h][k]
    <3>1. sequenceTable'[h][k] # sequenceTable[h][k]
      BY <2>3
    <3>2. t /\ h = g /\ k = p.key /\ sequenceTable'[h][k] = s /\ s = sequenceTable[h][k] + 1
      BY <1>2, <2>1, <3>1, SequenceOnAnnounce
    <3>3. r = s
      BY <1>0, <2>3, <3>2
    <3>4. PostedPuts(g)' = PostedPuts(g) \cup (IF g = g THEN {[name |-> DataName(p.key, s, t), content |-> p]} ELSE {})
      BY <1>2, PutsOnAnnounce
    <3>5. DataName(k, r, TRUE) = DataName(p.key, s, t)
      BY <3>2, <3>3
    <3>6. DataName(k, r, TRUE) = BuildName(k, 4, TcpUid(k, r))
      BY DEF DataName
    <3> DEFINE new == [name |-> DataName(p.key, s, t), content |-> p]
    <3>7. new \in PostedPuts(g)' /\ new.name = DataName(p.key, s, t)
      BY <3>4
    <3> HIDE DEF new
    <3>8. new.name = BuildName(k, 4, TcpUid(k, r)) /\ new \in PostedPuts(h)'
      BY <3>2, <3>5, <3>6, <3>7
    <3> QED  BY <3>8
  <2> QED  BY <2>2, <2>3
<1>3. ASSUME NEW g \in Gateways, FacePut(g) \/ FaceExpress(g)
      PROVE  \E d \in published' \cup PostedPuts(h)' : d.name = BuildName(k, 4, TcpUid(k, r))
  <2>1. sequenceTable' = sequenceTable
    BY <1>3 DEF FacePut, FaceExpress
  <2> QED  BY <1>1, <1>3, <2>1, PutsOnTake
<1>4. ASSUME NEW g \in Gateways, Restart(g)
      PROVE  \E d \in published' \cup PostedPuts(h)' : d.name = BuildName(k, 4, TcpUid(k, r))
  <2>1. h # g
    BY <1>4 DEF Restart, NoSequence, Absent, TypeInv, TypeOK
  <2>2. sequenceTable'[h] = sequenceTable[h] /\ posted'[h] = posted[h] /\ published' = published
    BY <1>4, <2>1 DEF Restart, TypeInv, TypeOK
  <2> QED  BY <1>1, <2>2 DEF PostedPuts
<1>5. CASE Quiet
  BY <1>1, <1>5, QuietUnchanged DEF PostedPuts
<1> QED  BY <1>2, <1>3, <1>4, <1>5, StepCases

\* The numbers of each flow go up by one through both branches of deal and the
\* table's get, erase and save, and each one's Data is on its way to the face:
\* also after a restart, and however the two threads interleave.
THEOREM NumbersHaveNoGaps == Spec => []NoGaps
BY TypeInvariant, NoGapsInit, NoGapsStep, PTL DEF Spec

-----------------------------------------------------------------------------
(* Names without repeats.                                                  *)

\* The name of a Data is that of an announcement already made: in this life of
\* its gateway, if it has had no other.
Placed(d) ==
  LET k == d.content.key
  IN  \E s \in Ids, t \in BOOLEAN :
        /\ d.name = DataName(k, s, t)
        /\ (~t \/ restarts[GatewayOf[k.src]] = 0) => Given(k, s, t)

Alone(d, e) == (d.name = e.name /\ restarts[GatewayOf[SourceOf(d.name)]] = 0) => d = e

NameInv == /\ \A d \in Sent : d.content \in Packets /\ Placed(d)
           /\ \A d, e \in Sent : Alone(d, e)

LEMMA NameInit == Init => NameInv
<1> SUFFICES ASSUME Init PROVE Sent = {}
  BY DEF NameInv
<1> QED  BY DEF Init, Sent, PostedPuts

\* How the Data sent change.
LEMMA SentOnAnnounce ==
  ASSUME TypeInv, NEW g \in Gateways, NEW p \in Packets, NEW s \in Ids, NEW t \in BOOLEAN,
         Announces(g, p, s, t)
  PROVE  Sent' = Sent \cup {[name |-> DataName(p.key, s, t), content |-> p]}
<1>1. published' = published
  BY DEF Announces
<1>2. \A h \in Gateways : PostedPuts(h)' = PostedPuts(h) \cup
        (IF h = g THEN {[name |-> DataName(p.key, s, t), content |-> p]} ELSE {})
  BY PutsOnAnnounce
<1> QED  BY <1>1, <1>2 DEF Sent

LEMMA SentOtherwise ==
  ASSUME TypeInv, (\E g \in Gateways : FacePut(g) \/ FaceExpress(g) \/ Restart(g)) \/ Quiet
  PROVE  Sent' \subseteq Sent
<1>1. ASSUME NEW g \in Gateways, FacePut(g) \/ FaceExpress(g) PROVE Sent' \subseteq Sent
  <2>1. \A h \in Gateways : PostedPuts(h)' \subseteq PostedPuts(h)
    BY <1>1, PutsOnTake
  <2>2. published' \subseteq published \cup PostedPuts(g)
    BY <1>1, PutsOnTake
  <2> QED  BY <2>1, <2>2 DEF Sent
<1>2. ASSUME NEW g \in Gateways, Restart(g) PROVE Sent' \subseteq Sent
  <2>1. \A h \in Gateways : posted'[h] = IF h = g THEN << >> ELSE posted[h]
    BY <1>2 DEF Restart, TypeInv, TypeOK
  <2>2. \A h \in Gateways : PostedPuts(h)' \subseteq PostedPuts(h)
    BY <2>1 DEF PostedPuts
  <2> QED  BY <1>2, <2>2 DEF Sent, Restart
<1>3. CASE Quiet
  BY <1>3, QuietUnchanged DEF Sent, PostedPuts
<1> QED  BY <1>1, <1>2, <1>3

\* An announcement was not given before it is made, and stays given as long as
\* the gateway lives.
LEMMA GivenOnAnnounce ==
  ASSUME TypeInv, NEW g \in Gateways, NEW p \in Packets, NEW s \in Ids, NEW t \in BOOLEAN,
         Announces(g, p, s, t)
  PROVE  /\ ~Given(p.key, s, t) /\ Given(p.key, s, t)'
         /\ \A k \in Keys, r \in Ids, u \in BOOLEAN : Given(k, r, u) => Given(k, r, u)'
<1>1. p.key \in Keys /\ GatewayOf[p.key.src] = g /\ s \in Nat /\ ncaptured \in Nat /\ ncaptured' = ncaptured + 1
  BY BoundAssumption DEF Announces, Packets, TypeInv, TypeOK, Ids
<1>2. \A h \in Gateways, k \in Keys : sequenceTable[h][k] \in Nat
  BY BoundAssumption DEF TypeInv, TypeOK
<1>3. \A h \in Gateways, k \in Keys :
        sequenceTable'[h][k] = IF t /\ h = g /\ k = p.key THEN sequenceTable[h][k] + 1 ELSE sequenceTable[h][k]
  BY SequenceOnAnnounce
<1>4. /\ t => s = sequenceTable[g][p.key] + 1
      /\ ~t => s = ncaptured + 1
  BY DEF Announces
<1>5. \A k \in Keys : GatewayOf[k.src] \in Gateways
  BY KeyAssumption, GatewayAssumption DEF KeyType
<1>6. ~Given(p.key, s, t) /\ Given(p.key, s, t)'
  <2>1. CASE t
    BY <1>1, <1>2, <1>3, <1>4, <2>1 DEF Given
  <2>2. CASE ~t
    BY <1>1, <1>4, <2>2 DEF Given
  <2> QED  BY <2>1, <2>2
<1>7. ASSUME NEW k \in Keys, NEW r \in Ids, NEW u \in BOOLEAN
      PROVE  Given(k, r, u) => Given(k, r, u)'
  <2>0. r \in Nat
    BY DEF Ids
  <2>1. CASE u /\ t
    BY <1>1, <1>2, <1>3, <1>4, <1>5, <2>0, <2>1 DEF Given
  <2>2. CASE u /\ ~t
    BY <1>2, <1>3, <1>5, <2>0, <2>2 DEF Given
  <2>3. CASE ~u
    BY <1>1, <1>4, <2>0, <2>3 DEF Given
  <2> QED  BY <2>1, <2>2, <2>3
<1> QED  BY <1>6, <1>7

\* Announcements of one name are given together.
LEMMA GivenByName ==
  ASSUME NEW k \in Keys, NEW l \in Keys, NEW s, NEW r, NEW t \in BOOLEAN, NEW u \in BOOLEAN,
         DataName(k, s, t) = DataName(l, r, u)
  PROVE  Given(k, s, t) <=> Given(l, r, u)
BY DataNameInjective DEF Given

\* Given announcements stay given, except the numbered ones of a gateway that
\* is restarted.
LEMMA GivenOtherwise ==
  ASSUME TypeInv, NEW k \in Keys, NEW s \in Ids, NEW t \in BOOLEAN,
         (\E g \in Gateways : FacePut(g) \/ FaceExpress(g)) \/ Quiet
  PROVE  /\ Given(k, s, t)' <=> Given(k, s, t)
         /\ restarts' = restarts
<1>1. UNCHANGED <<sequenceTable, ncaptured, restarts>>
  BY QuietUnchanged DEF FacePut, FaceExpress, history
<1> QED  BY <1>1 DEF Given

LEMMA GivenOnRestart ==
  ASSUME TypeInv, NEW k \in Keys, NEW s \in Ids, NEW t \in BOOLEAN, NEW g \in Gateways, Restart(g)
  PROVE  /\ ncaptured' = ncaptured
         /\ GatewayOf[k.src] \in Gateways
         /\ \A h \in Gateways : restarts[h] \in Nat /\ restarts'[h] = IF h = g THEN restarts[h] + 1 ELSE restarts[h]
         /\ GatewayOf[k.src] = g /\ t => ~Given(k, s, t)'
         /\ GatewayOf[k.src] # g \/ ~t => (Given(k, s, t)' <=> Given(k, s, t))
<1>1. GatewayOf[k.src] \in Gateways
  BY KeyAssumption, GatewayAssumption DEF KeyType
<1>2. \A h \in Gateways : restarts[h] \in Nat /\ restarts'[h] = IF h = g THEN restarts[h] + 1 ELSE restarts[h]
  BY BoundAssumption DEF Restart, TypeInv, TypeOK
<1>3. /\ ncaptured' = ncaptured
      /\ \A h \in Gateways : sequenceTable'[h] = IF h = g THEN NoSequence ELSE sequenceTable[h]
  BY DEF Restart, TypeInv, TypeOK
<1>4. NoSequence[k] = 0 /\ s \in Nat /\ s > 0
  BY DEF NoSequence, Absent, Ids
<1>5. CASE GatewayOf[k.src] = g /\ t
  <2>1. sequenceTable'[GatewayOf[k.src]][k] = 0
    BY <1>1, <1>3, <1>4, <1>5
  <2> QED  BY <1>1, <1>2, <1>3, <1>4, <1>5, <2>1 DEF Given
<1>6. CASE GatewayOf[k.src] # g
  <2>1. sequenceTable'[GatewayOf[k.src]] = sequenceTable[GatewayOf[k.src]]
    BY <1>1, <1>3, <1>6
  <2>2. Given(k, s, t)' <=> Given(k, s, t)
    BY <1>3, <2>1 DEF Given
  <2> QED  BY <1>1, <1>2, <1>3, <1>6, <2>2
<1>7. CASE ~t
  <2>1. Given(k, s, t)' <=> Given(k, s, t)
    BY <1>3, <1>7 DEF Given
  <2> QED  BY <1>1, <1>2, <1>3, <1>7, <2>1
<1> QED  BY <1>5, <1>6, <1>7

LEMMA NameStep == TypeInv /\ NameInv /\ [Next]_vars => NameInv'
<1> SUFFICES ASSUME TypeInv, NameInv, [Next]_vars
             PROVE  /\ \A d \in Sent' : d.content \in Packets /\ Placed(d)'
                    /\ \A d, e \in Sent' : Alone(d, e)'
  BY DEF NameInv
<1>1. ASSUME NEW g \in Gateways, NEW p \in Packets, NEW s \in Ids, NEW t \in BOOLEAN, Announces(g, p, s, t)
      PROVE  /\ \A d \in Sent' : d.content \in Packets /\ Placed(d)'
             /\ \A d, e \in Sent' : Alone(d, e)'
  <2> DEFINE new == [name |-> DataName(p.key, s, t), content |-> p]
  <2>1. new.content = p /\ new.name = DataName(p.key, s, t) /\ p.key \in Keys
    BY DEF Packets
  <2>2. Sent' = Sent \cup {new} /\ restarts' = restarts
    BY <1>1, SentOnAnnounce DEF Announces
  <2> HIDE DEF new
  <2>3. Placed(new)'
    BY <1>1, <2>1, GivenOnAnnounce DEF Placed
  <2>4. ASSUME NEW d \in Sent PROVE d.content \in Packets /\ Placed(d)'
    <3>1. d.content \in Packets /\ d.content.key \in Keys /\ Placed(d)
      BY DEF NameInv, Packets
    <3> QED  BY <1>1, <2>2, <3>1, GivenOnAnnounce DEF Placed
  <2>5. ASSUME NEW d \in Sent, d.name = new.name, restarts[GatewayOf[p.key.src]] = 0 PROVE FALSE
    <3>1. d.content.key \in Keys /\ Placed(d)
      BY DEF NameInv, Packets
    <3>2. PICK r \in Ids, u \in BOOLEAN :
            /\ d.name = DataName(d.content.key, r, u)
            /\ (~u \/ restarts[GatewayOf[d.content.key.src]] = 0) => Given(d.content.key, r, u)
      BY <3>1 DEF Placed
    <3> DEFINE l == d.content.key
    <3>3. l \in Keys /\ DataName(p.key, s, t) = DataName(l, r, u) /\ p.key \in Keys
      BY <2>1, <2>5, <3>1, <3>2
    <3>4. (~u \/ restarts[GatewayOf[l.src]] = 0) => Given(l, r, u)
      BY <3>2
    <3> HIDE DEF l
    <3>5. l.src = p.key.src
      BY <3>3, DataNameInjective
    <3>6. Given(p.key, s, t)
      BY <2>5, <3>3, <3>4, <3>5, GivenByName
    <3> QED  BY <1>1, <3>6, GivenOnAnnounce
  <2>6. SourceOf(new.name) = p.key.src
    BY <2>1, NextOfPre
  <2>7. ASSUME NEW d \in Sent', NEW e \in Sent' PROVE Alone(d, e)'
    <3>1. CASE d \in Sent /\ e \in Sent
      BY <2>2, <3>1 DEF NameInv, Alone
    <3>2. CASE d = new
      BY <2>2, <2>5, <2>6, <3>2 DEF Alone
    <3>3. CASE e = new
      BY <2>2, <2>5, <2>6, <3>3 DEF Alone
    <3> QED  BY <2>2, <3>1, <3>2, <3>3
  <2> QED  BY <2>1, <2>2, <2>3, <2>4, <2>7
<1>2. ASSUME (\E g \in Gateways : FacePut(g) \/ FaceExpress(g)) \/ Quiet
      PROVE  /\ \A d \in Sent' : d.content \in Packets /\ Placed(d)'
             /\ \A d, e \in Sent' : Alone(d, e)'
  <2>1. Sent' \subseteq Sent /\ restarts' = restarts
    BY <1>2, SentOtherwise, QuietUnchanged DEF FacePut, FaceExpress, history
  <2>2. ASSUME NEW d \in Sent' PROVE d.content \in Packets /\ Placed(d)'
    <3>1. d.content \in Packets /\ d.content.key \in Keys /\ Placed(d)
      BY <2>1 DEF NameInv, Packets
    <3> QED  BY <1>2, <2>1, <3>1, GivenOtherwise DEF Placed
  <2> QED  BY <2>1, <2>2 DEF NameInv, Alone
<1>3. ASSUME NEW g \in Gateways, Restart(g)
      PROVE  /\ \A d \in Sent' : d.content \in Packets /\ Placed(d)'
             /\ \A d, e \in Sent' : Alone(d, e)'
  <2>1. Sent' \subseteq Sent
    BY <1>3, SentOtherwise
  <2>2. ASSUME NEW d \in Sent'
        PROVE  /\ d.content \in Packets /\ Placed(d)'
               /\ restarts'[GatewayOf[SourceOf(d.name)]] = 0 => restarts[GatewayOf[SourceOf(d.name)]] = 0
    <3>1. d.content \in Packets /\ d.content.key \in Keys /\ Placed(d)
      BY <2>1 DEF NameInv, Packets
    <3> DEFINE k == d.content.key
    <3>2. PICK r \in Ids, u \in BOOLEAN :
            d.name = DataName(k, r, u) /\ ((~u \/ restarts[GatewayOf[k.src]] = 0) => Given(k, r, u))
      BY <3>1 DEF Placed
    <3>3. SourceOf(d.name) = k.src
      BY <3>1, <3>2, NextOfPre
    <3> HIDE DEF k
    <3>4. k \in Keys
      BY <3>1 DEF k
    <3>5. /\ restarts'[GatewayOf[k.src]] = 0 => restarts[GatewayOf[k.src]] = 0 /\ GatewayOf[k.src] # g
          /\ ~u => (Given(k, r, u) => Given(k, r, u)')
          /\ GatewayOf[k.src] # g => (Given(k, r, u) => Given(k, r, u)')
      BY <1>3, <3>4, GivenOnRestart
    <3>6. (~u \/ restarts'[GatewayOf[k.src]] = 0) => Given(k, r, u)'
      BY <3>2, <3>5
    <3> QED  BY <3>1, <3>2, <3>3, <3>5, <3>6 DEF Placed, k
  <2> QED  BY <2>1, <2>2 DEF NameInv, Alone
<1> QED  BY <1>1, <1>2, <1>3, StepCases

\* The names sent stay placed and alone.
LEMMA NameInvariant == Spec => []NameInv
BY TypeInvariant, NameInit, NameStep, PTL DEF Spec

\* A name stands for one packet as long as its source's gateway is not
\* restarted: the sequence table hands no number out twice, and flows between
\* the same hosts differ in their ports.
THEOREM NamesAreUnique == Spec => []NamesUnique
<1>1. NameInv => NamesUnique
  BY DEF NameInv, NamesUnique, Alone, Sent
<1> QED  BY <1>1, NameInvariant, PTL

-----------------------------------------------------------------------------
(* Data before pre-requests.                                               *)

\* The Data a pre-request announces is published, or is put by a call before
\* the i-th of those posted at gateway g.
Available(n, g, i) ==
  \/ \E d \in published : d.name = NextName(n, n \in TcpPreNames)
  \/ \E j \in 1..(i - 1) : /\ posted[g][j] \in PutOps
                          /\ posted[g][j].data.name = NextName(n, n \in TcpPreNames)

Behind(g, i) == posted[g][i] \in ExpressOps => Available(posted[g][i].name, g, i)

OrderInv == /\ PreFollowsData
            /\ \A g \in Gateways : \A i \in DOMAIN posted[g] : Behind(g, i)

LEMMA OrderInit == Init => OrderInv
BY DEF Init, OrderInv, PreFollowsData

\* Data stays available while the queue of its gateway grows or stands still.
LEMMA AvailableLonger ==
  ASSUME NEW g, NEW i, NEW n, Available(n, g, i), published \subseteq published',
         \A j \in 1..(i - 1) : posted'[g][j] = posted[g][j]
  PROVE  Available(n, g, i)'
BY DEF Available

LEMMA OrderStep == TypeInv /\ OrderInv /\ [Next]_vars => OrderInv'
<1> SUFFICES ASSUME TypeInv, OrderInv, [Next]_vars
             PROVE  /\ PreFollowsData'
                    /\ \A h \in Gateways : \A i \in DOMAIN posted'[h] : Behind(h, i)'
  BY DEF OrderInv
<1>1. ASSUME NEW g \in Gateways, NEW p \in Packets, NEW s \in Ids, NEW t \in BOOLEAN, Announces(g, p, s, t)
      PROVE  /\ PreFollowsData'
             /\ \A h \in Gateways : \A i \in DOMAIN posted'[h] : Behind(h, i)'
  <2> DEFINE put     == PutOf(p, s, t)
             express == ExpressOf(p.key, s, t)
             q       == posted[g]
  <2>1. UNCHANGED <<pre, published>> /\ posted \in [Gateways -> Seq(FaceOps)] /\ posted' = [posted EXCEPT ![g] = @ \o <<put, express>>]
    BY <1>1 DEF Announces, TypeInv, TypeOK
  <2>2. /\ put \in PutOps /\ put \notin ExpressOps
        /\ put.data.name = NextName(express.name, express.name \in TcpPreNames)
    <3>1. p.key \in Keys /\ PreName(p.key, s, t) \in PreNames /\ DataName(p.key, s, t) \in DataNames
          /\ NextName(PreName(p.key, s, t), PreName(p.key, s, t) \in TcpPreNames) = DataName(p.key, s, t)
      BY NextOfPre DEF Packets
    <3> QED  BY <3>1 DEF PutOf, ExpressOf, PutOps, ExpressOps, Data
  <2> HIDE DEF put, express
  <2>3. ASSUME NEW h \in Gateways, h # g, NEW i \in DOMAIN posted'[h] PROVE Behind(h, i)'
    <3>1. posted'[h] = posted[h]
      BY <2>1, <2>3
    <3> QED  BY <2>1, <2>3, <3>1 DEF OrderInv, Behind, Available
  <2>4. ASSUME NEW i \in DOMAIN posted'[g] PROVE Behind(g, i)'
    <3>1. posted'[g] = q \o <<put, express>> /\ q \in Seq(FaceOps)
      BY <2>1
    <3> HIDE DEF q
    <3>2. /\ DOMAIN posted'[g] = 1..(Len(q) + 2) /\ Len(q) \in Nat
          /\ DOMAIN q = 1..Len(q)
          /\ \A j \in 1..Len(q) : posted'[g][j] = q[j]
          /\ posted'[g][Len(q) + 1] = put
          /\ posted'[g][Len(q) + 2] = express
      BY <3>1, QueueExtended
    <3>3. CASE i \in 1..Len(q)
      <4>1. posted'[g][i] = posted[g][i] /\ Behind(g, i) /\ \A j \in 1..(i - 1) : posted'[g][j] = posted[g][j]
        BY <3>2, <3>3 DEF OrderInv, q
      <4> QED  BY <2>1, <4>1, AvailableLonger DEF Behind
    <3>4. CASE i = Len(q) + 1
      BY <2>2, <3>2, <3>4 DEF Behind
    <3>5. CASE i = Len(q) + 2
      <4>1. Len(q) + 1 \in 1..(i - 1)
        BY <3>2, <3>5
      <4> QED  BY <2>2, <3>2, <3>5, <4>1 DEF Behind, Available
    <3> QED  BY <3>2, <3>3, <3>4, <3>5
  <2>5. PreFollowsData'
    BY <2>1 DEF OrderInv, PreFollowsData
  <2> QED  BY <2>3, <2>4, <2>5
<1>2. ASSUME NEW g \in Gateways, FacePut(g) \/ FaceExpress(g)
      PROVE  /\ PreFollowsData'
             /\ \A h \in Gateways : \A i \in DOMAIN posted'[h] : Behind(h, i)'
  <2>1. published \subseteq published'
    BY <1>2, PutsOnTake
  <2>2. ASSUME NEW h \in Gateways, h # g, NEW i \in DOMAIN posted'[h] PROVE Behind(h, i)'
    <3>1. posted'[h] = posted[h]
      BY <1>2, <2>2, QueueTail
    <3> QED  BY <2>1, <2>2, <3>1 DEF OrderInv, Behind, Available
  <2>3. ASSUME NEW i \in DOMAIN posted'[g] PROVE Behind(g, i)'
    <3>1. /\ Len(posted[g]) \in Nat /\ Len(posted[g]) > 0
          /\ Head(posted[g]) = posted[g][1]
          /\ DOMAIN posted[g] = 1..Len(posted[g])
          /\ i \in 1..(Len(posted[g]) - 1)
          /\ \A j \in 1..(Len(posted[g]) - 1) : posted'[g][j] = posted[g][j + 1]
      BY <1>2, <2>3, QueueTail
    <3>2. SUFFICES ASSUME posted'[g][i] \in ExpressOps PROVE Available(posted[g][i].name, g, i)'
      BY DEF Behind
    <3> DEFINE n    == posted[g][i + 1].name
               name == NextName(n, n \in TcpPreNames)
    <3>3. posted'[g][i] = posted[g][i + 1] /\ Available(n, g, i + 1)
      BY <3>1, <3>2 DEF OrderInv, Behind
    <3>4. SUFFICES \/ \E d \in published' : d.name = name
                   \/ \E j \in 1..(i - 1) : posted'[g][j] \in PutOps /\ posted'[g][j].data.name = name
      BY <3>3 DEF Available
    <3>5. \/ \E d \in published : d.name = name
          \/ \E j \in 1..i : posted[g][j] \in PutOps /\ posted[g][j].data.name = name
      BY <3>1, <3>3 DEF Available
    <3> HIDE DEF name, n
    <3>6. CASE \E d \in published : d.name = name
      BY <2>1, <3>6
    <3>7. ASSUME NEW j \in 1..i, posted[g][j] \in PutOps, posted[g][j].data.name = name
          PROVE  \/ \E d \in published' : d.name = name
                 \/ \E l \in 1..(i - 1) : posted'[g][l] \in PutOps /\ posted'[g][l].data.name = name
      <4>1. CASE j = 1
        <5>1. posted[g][1].data \in published'
          BY <1>2, <3>1, <3>7, <4>1 DEF FacePut, FaceExpress, ExpressOps, PutOps
        <5> QED  BY <3>7, <4>1, <5>1
      <4>2. CASE j # 1
        <5>1. j - 1 \in 1..(i - 1) /\ posted'[g][j - 1] = posted[g][j]
          BY <3>1, <4>2
        <5> QED  BY <3>7, <5>1
      <4> QED  BY <4>1, <4>2
    <3> QED  BY <3>5, <3>6, <3>7
  <2>4. PreFollowsData'
    <3>1. CASE FacePut(g)
      BY <2>1, <3>1 DEF FacePut, OrderInv, PreFollowsData
    <3>2. CASE FaceExpress(g)
      <4>1. /\ published' = published
            /\ pre' = [pre EXCEPT ![posted[g][1].name] = @ + 1]
            /\ posted[g][1] \in ExpressOps /\ 1 \in DOMAIN posted[g]
        <5>1. Head(posted[g]) = posted[g][1] /\ 1 \in DOMAIN posted[g]
          BY <1>2, QueueTail
        <5>2. /\ published' = published
              /\ pre' = [pre EXCEPT ![Head(posted[g]).name] = @ + 1]
              /\ Head(posted[g]) \in ExpressOps
          BY <3>2 DEF FaceExpress, history
        <5> QED  BY <5>1, <5>2
      <4>2. Available(posted[g][1].name, g, 1)
        BY <4>1 DEF OrderInv, Behind
      <4>3. \E d \in published : d.name = NextName(posted[g][1].name, posted[g][1].name \in TcpPreNames)
        BY <4>2 DEF Available
      <4>4. ASSUME NEW n \in PreNames, pre'[n] > 0 PROVE n = posted[g][1].name \/ pre[n] > 0
        BY <4>1, <4>4 DEF TypeInv, TypeOK
      <4> QED  BY <4>1, <4>3, <4>4 DEF OrderInv, PreFollowsData
    <3> QED  BY <1>2, <3>1, <3>2
  <2> QED  BY <2>2, <2>3, <2>4
<1>3. ASSUME NEW g \in Gateways, Restart(g)
      PROVE  /\ PreFollowsData'
             /\ \A h \in Gateways : \A i \in DOMAIN posted'[h] : Behind(h, i)'
  <2>1. /\ UNCHANGED <<pre, published>>
        /\ \A h \in Gateways : posted'[h] = IF h = g THEN << >> ELSE posted[h]
    BY <1>3 DEF Restart, network, TypeInv, TypeOK
  <2> QED  BY <2>1 DEF OrderInv, PreFollowsData, Behind, Available
<1>4. CASE Quiet
  <2>1. UNCHANGED <<posted, published>>
    BY <1>4, QuietUnchanged
  <2>2. ASSUME NEW n \in PreNames, pre'[n] > 0 PROVE pre[n] > 0
    BY <1>4, <2>2, QuietPre
  <2> QED  BY <2>1, <2>2 DEF OrderInv, PreFollowsData, Behind, Available
<1> QED  BY <1>1, <1>2, <1>3, <1>4, StepCases

\* The Data a pre-request announces is published before the pre-request leaves:
\* deal puts first and expresses second, and the face runs posted calls in order.
THEOREM DataBeforePre == Spec => []PreFollowsData
<1>1. OrderInv => PreFollowsData
  BY DEF OrderInv
<1> QED  BY <1>1, TypeInvariant, OrderInit, OrderStep, PTL DEF Spec

-----------------------------------------------------------------------------
(* The window of guesses.                                                  *)

LEMMA WindowInit == Init => GuessesInWindow
BY DEF Init, GuessesInWindow

InWindow(g, n, m) == m \in TcpPreNames /\ pulled[g][NextName(m, TRUE)] > 0 /\ n \in GuessNames(m, NUM_OF_GUEST)

LEMMA WindowStep == TypeInv /\ GuessesInWindow /\ [Next]_vars => GuessesInWindow'
<1> SUFFICES ASSUME TypeInv, GuessesInWindow, [Next]_vars, NEW h \in Gateways, NEW n \in guest'[h]
             PROVE  \E m \in PreNames : InWindow(h, n, m)'
  BY DEF GuessesInWindow, InWindow
<1>1. \A m \in TcpPreNames : NextName(m, TRUE) \in DataNames
  <2> SUFFICES ASSUME NEW m \in TcpPreNames PROVE NextName(m, TRUE) \in DataNames
    OBVIOUS
  <2>1. PICK k \in Keys, s \in Ids : m = PreName(k, s, TRUE)
    BY DEF TcpPreNames, PreName
  <2> QED  BY <2>1, NextOfPre
<1>2. ASSUME n \in guest[h], \A d \in DataNames : pulled[h][d] > 0 => pulled'[h][d] > 0
      PROVE  \E m \in PreNames : InWindow(h, n, m)'
  <2>1. PICK m \in PreNames : InWindow(h, n, m)
    BY <1>2 DEF GuessesInWindow, InWindow
  <2> QED  BY <1>1, <1>2, <2>1 DEF InWindow
<1>3. CASE Elsewhere
  BY <1>2, <1>3, ElsewhereUnchanged
<1>4. ASSUME NEW g \in Gateways, PreStep(g) PROVE \E m \in PreNames : InWindow(h, n, m)'
  <2>1. PICK m \in PreNames : DealPreTcp(g, m) \/ DealPreOther(g, m)
    BY <1>4 DEF PreStep
  <2>2. pulled \in [Gateways -> Counts] /\ guest \in [Gateways -> SUBSET TcpDataNames]
    BY DEF TypeInv, TypeOK
  <2>3. \A d \in DataNames : pulled[h][d] > 0 => pulled'[h][d] > 0
    <3>1. PICK name : pulled' = Count(pulled, g, {name})
      BY <2>1 DEF DealPreTcp, DealPreOther
    <3>2. \A d \in DataNames : pulled'[h][d] = IF h = g /\ d \in {name} THEN pulled[h][d] + 1 ELSE pulled[h][d]
      BY <2>2, <3>1, CountAt
    <3>3. \A d \in DataNames : pulled[h][d] \in Nat
      BY <2>2 DEF Counts
    <3> QED  BY <3>2, <3>3
  <2>4. CASE n \in guest[h]
    BY <1>2, <2>3, <2>4
  <2>5. CASE n \notin guest[h]
    <3>1. DealPreTcp(g, m)
      BY <2>1, <2>2, <2>5 DEF DealPreOther
    <3>2. h = g /\ n \in GuessNames(m, NUM_OF_GUEST)
      BY <2>2, <2>5, <3>1 DEF DealPreTcp, Kept, NewGuesses
    <3>3. m \in TcpPreNames
      <4>1. Receives(g, m, TRUE)
        BY <3>1 DEF DealPreTcp
      <4>2. PICK k \in Keys, s \in Ids : m = BuildName(k, 3, TcpUid(k, s))
        BY <4>1, ReceivesTcp
      <4> QED  BY <4>2 DEF TcpPreNames
    <3>4. pulled'[g][NextName(m, TRUE)] > 0
      <4> DEFINE d == NextName(m, TRUE)
      <4>1. pulled' = Count(pulled, g, {d}) /\ d \in DataNames
        BY <1>1, <3>1, <3>3 DEF DealPreTcp
      <4> HIDE DEF d
      <4>2. pulled[g][d] \in Nat
        BY <2>2, <4>1 DEF Counts
      <4>3. pulled'[g][d] = pulled[g][d] + 1
        BY <2>2, <4>1, CountAt
      <4>4. pulled'[g][d] > 0
        BY <4>2, <4>3
      <4> QED  BY <4>4 DEF d
    <3> QED  BY <3>2, <3>3, <3>4 DEF InWindow
  <2> QED  BY <2>4, <2>5
<1>5. ASSUME NEW g \in Gateways, Restart(g) PROVE \E m \in PreNames : InWindow(h, n, m)'
  <2>1. n \in guest[h] /\ pulled' = pulled
    BY <1>5 DEF Restart, TypeInv, TypeOK
  <2> QED  BY <1>2, <2>1
<1> QED  BY <1>3, <1>4, <1>5, Cases

\* Guesses stay near the pre-requests the gateway has answered: the callbacks of
\* guessed Data guess nothing themselves.
THEOREM GuessesStayInWindow == Spec => []GuessesInWindow
BY TypeInvariant, WindowInit, WindowStep, PTL DEF Spec

-----------------------------------------------------------------------------
(* Copies.  Every life of the source's gateway announces a name at most    *)
(* once, and an announcement is one pre-request: posted, on its way, or    *)
(* answered once at each gateway it can reach.                             *)

\* The i-th call posted at gateway g is the pre-request n.
ExpressAt(g, i, n) == posted[g][i] \in ExpressOps /\ posted[g][i].name = n

Waiting(n) == \E g \in Gateways : \E i \in DOMAIN posted[g] : ExpressAt(g, i, n)

\* How often a name may have been announced and left the queue.
Begun(k, t)    == IF t THEN restarts[GatewayOf[k.src]] ELSE 0
Left(k, s, t)  == IF Given(k, s, t) /\ ~Waiting(PreName(k, s, t)) THEN 1 ELSE 0
Lives(k, s, t) == Begun(k, t) + Left(k, s, t)

WaitInv ==
  \* A pre-request is posted once, and only when its number is given.
  /\ \A g, h \in Gateways, n \in PreNames : \A i \in DOMAIN posted[g], j \in DOMAIN posted[h] :
       ExpressAt(g, i, n) /\ ExpressAt(h, j, n) => g = h /\ i = j
  /\ \A k \in Keys, s \in Ids, t \in BOOLEAN : Waiting(PreName(k, s, t)) => Given(k, s, t)
  \* A gateway posts the numbered ones of its own flows.
  /\ \A k \in Keys, s \in Ids, t \in BOOLEAN, g \in Gateways : \A i \in DOMAIN posted[g] :
       t /\ ExpressAt(g, i, PreName(k, s, t)) => g = GatewayOf[k.src]

\* Each request for an announced Data used up one copy of the pre-request.
OnceInv ==
  /\ \A h \in Gateways, k \in Keys, s \in Ids, t \in BOOLEAN :
       pulled[h][DataName(k, s, t)] + pre[PreName(k, s, t)] <= Lives(k, s, t)
  /\ \A h \in Gateways, n \in DataNames :
       pulled[h][n] > 0 => \E k \in Keys, s \in Ids, t \in BOOLEAN : n = DataName(k, s, t)

\* Announcements of one pre-request are given together, and share a data name.
LEMMA GivenByPreName ==
  ASSUME NEW k \in Keys, NEW l \in Keys, NEW s, NEW r, NEW t \in BOOLEAN, NEW u \in BOOLEAN,
         PreName(k, s, t) = PreName(l, r, u)
  PROVE  Given(k, s, t) <=> Given(l, r, u)
BY PreNameInjective DEF Given

LEMMA SameName ==
  ASSUME NEW k \in Keys, NEW l \in Keys, NEW s, NEW r, NEW t \in BOOLEAN, NEW u \in BOOLEAN,
         DataName(k, s, t) = DataName(l, r, u)
  PROVE  PreName(k, s, t) = PreName(l, r, u)
<1>1. s = r /\ t = u /\ k.src = l.src /\ (t => k = l)
  BY DataNameInjective
<1>2. CASE t
  BY <1>1, <1>2
<1>3. CASE ~t
  BY <1>1, <1>3 DEF DataName, PreName, BuildName
<1> QED  BY <1>2, <1>3

\* What is posted after an announcement: what was, and its pre-request.
LEMMA ExpressesOnAnnounce ==
  ASSUME TypeInv, NEW g \in Gateways, NEW p \in Packets, NEW s \in Ids, NEW t \in BOOLEAN,
         Announces(g, p, s, t), NEW h \in Gateways, NEW i \in DOMAIN posted'[h], NEW n, ExpressAt(h, i, n)'
  PROVE  \/ i \in DOMAIN posted[h] /\ ExpressAt(h, i, n)
         \/ h = g /\ i = Len(posted[g]) + 2 /\ n = PreName(p.key, s, t)
<1> DEFINE put     == PutOf(p, s, t)
           express == ExpressOf(p.key, s, t)
<1>1. put \notin ExpressOps /\ express.name = PreName(p.key, s, t)
  BY DEF PutOf, ExpressOf, ExpressOps
<1>2. posted \in [Gateways -> Seq(FaceOps)] /\ posted' = [posted EXCEPT ![g] = @ \o <<put, express>>]
  BY DEF Announces, TypeInv, TypeOK
<1> HIDE DEF put, express
<1>3. CASE h # g
  BY <1>2, <1>3 DEF ExpressAt
<1>4. CASE h = g
  <2>1. posted'[g] = posted[g] \o <<put, express>> /\ posted[g] \in Seq(FaceOps)
    BY <1>2
  <2>2. /\ DOMAIN posted'[g] = 1..(Len(posted[g]) + 2) /\ Len(posted[g]) \in Nat
        /\ DOMAIN posted[g] = 1..Len(posted[g])
        /\ \A j \in 1..Len(posted[g]) : posted'[g][j] = posted[g][j]
        /\ posted'[g][Len(posted[g]) + 1] = put
        /\ posted'[g][Len(posted[g]) + 2] = express
    BY <2>1, QueueExtended
  <2>3. i \in 1..Len(posted[g]) \/ i = Len(posted[g]) + 1 \/ i = Len(posted[g]) + 2
    BY <1>4, <2>2
  <2> QED  BY <1>1, <1>4, <2>2, <2>3 DEF ExpressAt
<1> QED  BY <1>3, <1>4

\* What is posted after the NDN thread took a call was posted one place later.
LEMMA ExpressesOnTake ==
  ASSUME TypeInv, NEW g \in Gateways, FacePut(g) \/ FaceExpress(g),
         NEW h \in Gateways, NEW i \in DOMAIN posted'[h], NEW n, ExpressAt(h, i, n)'
  PROVE  /\ h # g => i \in DOMAIN posted[h] /\ ExpressAt(h, i, n)
         /\ h = g => i \in Nat /\ i > 0 /\ i + 1 \in DOMAIN posted[g] /\ ExpressAt(g, i + 1, n)
<1>1. CASE h # g
  BY <1>1, QueueTail DEF ExpressAt
<1>2. CASE h = g
  <2>1. /\ Len(posted[g]) \in Nat
        /\ DOMAIN posted[g] = 1..Len(posted[g])
        /\ DOMAIN posted'[g] = 1..(Len(posted[g]) - 1)
        /\ \A j \in 1..(Len(posted[g]) - 1) : posted'[g][j] = posted[g][j + 1]
    BY QueueTail
  <2>2. posted'[g][i] = posted[g][i + 1] /\ i \in Nat /\ i > 0 /\ i + 1 \in DOMAIN posted[g]
    BY <1>2, <2>1
  <2> QED  BY <1>2, <2>2 DEF ExpressAt
<1> QED  BY <1>1, <1>2

\* What is posted after a restart is what the other gateways had posted.
LEMMA ExpressesOnRestart ==
  ASSUME TypeInv, NEW g \in Gateways, Restart(g),
         NEW h \in Gateways, NEW i \in DOMAIN posted'[h], NEW n, ExpressAt(h, i, n)'
  PROVE  h # g /\ i \in DOMAIN posted[h] /\ ExpressAt(h, i, n)
<1>1. posted'[h] = IF h = g THEN << >> ELSE posted[h]
  BY DEF Restart, TypeInv, TypeOK
<1> QED  BY <1>1 DEF ExpressAt

LEMMA WaitInit == Init => WaitInv
BY DEF Init, WaitInv, Waiting

LEMMA WaitStep == TypeInv /\ WaitInv /\ [Next]_vars => WaitInv'
<1> SUFFICES ASSUME TypeInv, WaitInv, [Next]_vars PROVE WaitInv'
  OBVIOUS
<1>1. ASSUME NEW g \in Gateways, NEW p \in Packets, NEW s \in Ids, NEW t \in BOOLEAN, Announces(g, p, s, t)
      PROVE  WaitInv'
  <2>0. p.key \in Keys /\ g = GatewayOf[p.key.src]
    BY <1>1 DEF Packets, Announces
  <2>1. ~Waiting(PreName(p.key, s, t))
    BY <1>1, <2>0, GivenOnAnnounce DEF WaitInv
  <2>2. ASSUME NEW h \in Gateways, NEW e \in Gateways, NEW n \in PreNames,
               NEW i \in DOMAIN posted'[h], NEW j \in DOMAIN posted'[e], ExpressAt(h, i, n)', ExpressAt(e, j, n)'
        PROVE  h = e /\ i = j
    <3>1. \/ i \in DOMAIN posted[h] /\ ExpressAt(h, i, n)
          \/ h = g /\ i = Len(posted[g]) + 2 /\ n = PreName(p.key, s, t)
      BY <1>1, <2>2, ExpressesOnAnnounce
    <3>2. \/ j \in DOMAIN posted[e] /\ ExpressAt(e, j, n)
          \/ e = g /\ j = Len(posted[g]) + 2 /\ n = PreName(p.key, s, t)
      BY <1>1, <2>2, ExpressesOnAnnounce
    <3> QED  BY <2>1, <3>1, <3>2 DEF WaitInv, Waiting
  <2>3. ASSUME NEW k \in Keys, NEW r \in Ids, NEW u \in BOOLEAN, Waiting(PreName(k, r, u))'
        PROVE  Given(k, r, u)'
    <3>1. PICK h \in Gateways : \E i \in DOMAIN posted'[h] : ExpressAt(h, i, PreName(k, r, u))'
      BY <2>3 DEF Waiting
    <3>0. PICK i \in DOMAIN posted'[h] : ExpressAt(h, i, PreName(k, r, u))'
      BY <3>1
    <3>2. \/ i \in DOMAIN posted[h] /\ ExpressAt(h, i, PreName(k, r, u))
          \/ PreName(k, r, u) = PreName(p.key, s, t)
      BY <1>1, <3>0, ExpressesOnAnnounce
    <3>3. CASE i \in DOMAIN posted[h] /\ ExpressAt(h, i, PreName(k, r, u))
      BY <1>1, <3>3, GivenOnAnnounce DEF WaitInv, Waiting
    <3>4. CASE PreName(k, r, u) = PreName(p.key, s, t)
      <4>1. r = s /\ u = t /\ k.src = p.key.src /\ (u => k = p.key)
        BY <2>0, <3>4, PreNameInjective
      <4> QED  BY <1>1, <4>1, GivenOnAnnounce DEF Given
    <3> QED  BY <3>2, <3>3, <3>4
  <2>4. ASSUME NEW k \in Keys, NEW r \in Ids, NEW u \in BOOLEAN, NEW h \in Gateways,
               NEW i \in DOMAIN posted'[h], ExpressAt(h, i, PreName(k, r, u))'
        PROVE  u => h = GatewayOf[k.src]
    <3>1. \/ i \in DOMAIN posted[h] /\ ExpressAt(h, i, PreName(k, r, u))
          \/ h = g /\ PreName(k, r, u) = PreName(p.key, s, t)
      BY <1>1, <2>4, ExpressesOnAnnounce
    <3>2. CASE i \in DOMAIN posted[h] /\ ExpressAt(h, i, PreName(k, r, u))
      BY <2>4, <3>2 DEF WaitInv
    <3>3. CASE h = g /\ PreName(k, r, u) = PreName(p.key, s, t)
      <4>1. r = s /\ u = t /\ k.src = p.key.src /\ (u => k = p.key)
        BY <2>0, <3>3, PreNameInjective
      <4> QED  BY <2>0, <3>3, <4>1
    <3> QED  BY <3>1, <3>2, <3>3
  <2> QED  BY <2>2, <2>3, <2>4 DEF WaitInv
<1>2. ASSUME NEW g \in Gateways, FacePut(g) \/ FaceExpress(g) PROVE WaitInv'
  <2>1. ASSUME NEW h \in Gateways, NEW e \in Gateways, NEW n \in PreNames,
               NEW i \in DOMAIN posted'[h], NEW j \in DOMAIN posted'[e], ExpressAt(h, i, n)', ExpressAt(e, j, n)'
        PROVE  h = e /\ i = j
    <3>1. /\ h # g => i \in DOMAIN posted[h] /\ ExpressAt(h, i, n)
          /\ h = g => i \in Nat /\ i + 1 \in DOMAIN posted[g] /\ ExpressAt(g, i + 1, n)
      BY <1>2, <2>1, ExpressesOnTake
    <3>2. /\ e # g => j \in DOMAIN posted[e] /\ ExpressAt(e, j, n)
          /\ e = g => j \in Nat /\ j + 1 \in DOMAIN posted[g] /\ ExpressAt(g, j + 1, n)
      BY <1>2, <2>1, ExpressesOnTake
    <3>3. CASE h = g /\ e = g
      <4>1. i + 1 = j + 1
        BY <3>1, <3>2, <3>3 DEF WaitInv
      <4> QED  BY <3>1, <3>2, <3>3, <4>1
    <3>4. CASE ~(h = g /\ e = g)
      BY <3>1, <3>2, <3>4 DEF WaitInv
    <3> QED  BY <3>3, <3>4
  <2>2. ASSUME NEW k \in Keys, NEW r \in Ids, NEW u \in BOOLEAN, Waiting(PreName(k, r, u))'
        PROVE  Given(k, r, u)'
    <3>1. PICK h \in Gateways : \E i \in DOMAIN posted'[h] : ExpressAt(h, i, PreName(k, r, u))'
      BY <2>2 DEF Waiting
    <3>0. PICK i \in DOMAIN posted'[h] : ExpressAt(h, i, PreName(k, r, u))'
      BY <3>1
    <3>2. Waiting(PreName(k, r, u))
      BY <1>2, <3>0, ExpressesOnTake DEF Waiting
    <3> QED  BY <1>2, <3>2, GivenOtherwise DEF WaitInv
  <2>3. ASSUME NEW k \in Keys, NEW r \in Ids, NEW u \in BOOLEAN, NEW h \in Gateways,
               NEW i \in DOMAIN posted'[h], ExpressAt(h, i, PreName(k, r, u))'
        PROVE  u => h = GatewayOf[k.src]
    <3>1. /\ h # g => i \in DOMAIN posted[h] /\ ExpressAt(h, i, PreName(k, r, u))
          /\ h = g => i + 1 \in DOMAIN posted[g] /\ ExpressAt(g, i + 1, PreName(k, r, u))
      BY <1>2, <2>3, ExpressesOnTake
    <3> QED  BY <2>3, <3>1 DEF WaitInv
  <2> QED  BY <2>1, <2>2, <2>3 DEF WaitInv
<1>3. ASSUME NEW g \in Gateways, Restart(g) PROVE WaitInv'
  <2>1. ASSUME NEW h \in Gateways, NEW e \in Gateways, NEW n \in PreNames,
               NEW i \in DOMAIN posted'[h], NEW j \in DOMAIN posted'[e], ExpressAt(h, i, n)', ExpressAt(e, j, n)'
        PROVE  h = e /\ i = j
    BY <1>3, <2>1, ExpressesOnRestart DEF WaitInv
  <2>2. ASSUME NEW k \in Keys, NEW r \in Ids, NEW u \in BOOLEAN, Waiting(PreName(k, r, u))'
        PROVE  Given(k, r, u)'
    <3>1. PICK h \in Gateways : \E i \in DOMAIN posted'[h] : ExpressAt(h, i, PreName(k, r, u))'
      BY <2>2 DEF Waiting
    <3>0. PICK i \in DOMAIN posted'[h] : ExpressAt(h, i, PreName(k, r, u))'
      BY <3>1
    <3>2. h # g /\ i \in DOMAIN posted[h] /\ ExpressAt(h, i, PreName(k, r, u))
      BY <1>3, <3>0, ExpressesOnRestart
    <3>3. Given(k, r, u)
      BY <3>2 DEF WaitInv, Waiting
    <3>4. CASE u
      <4>1. h = GatewayOf[k.src]
        BY <3>2, <3>4 DEF WaitInv
      <4> QED  BY <1>3, <3>2, <3>3, <4>1, GivenOnRestart
    <3>5. CASE ~u
      BY <1>3, <3>3, <3>5, GivenOnRestart
    <3> QED  BY <3>4, <3>5
  <2>3. ASSUME NEW k \in Keys, NEW r \in Ids, NEW u \in BOOLEAN, NEW h \in Gateways,
               NEW i \in DOMAIN posted'[h], ExpressAt(h, i, PreName(k, r, u))'
        PROVE  u => h = GatewayOf[k.src]
    <3>1. i \in DOMAIN posted[h] /\ ExpressAt(h, i, PreName(k, r, u))
      BY <1>3, <2>3, ExpressesOnRestart
    <3> QED  BY <2>3, <3>1 DEF WaitInv
  <2> QED  BY <2>1, <2>2, <2>3 DEF WaitInv
<1>4. CASE Quiet
  <2>1. UNCHANGED <<posted, sequenceTable, ncaptured>>
    BY <1>4, QuietUnchanged
  <2>2. \A h \in Gateways : \A i, n : ExpressAt(h, i, n)' <=> ExpressAt(h, i, n)
    BY <2>1 DEF ExpressAt
  <2>3. \A n : Waiting(n)' <=> Waiting(n)
    BY <2>1 DEF Waiting, ExpressAt
  <2>4. \A k \in Keys, s \in Ids, t \in BOOLEAN : Given(k, s, t)' <=> Given(k, s, t)
    BY <2>1 DEF Given
  <2> QED  BY <2>1, <2>2, <2>3, <2>4 DEF WaitInv
<1> QED  BY <1>1, <1>2, <1>3, <1>4, StepCases

\* Lives, without the IFs.
LEMMA LivesParts ==
  ASSUME TypeInv, NEW k \in Keys, NEW s \in Ids, NEW t \in BOOLEAN
  PROVE  /\ Begun(k, t) \in Nat /\ Left(k, s, t) \in {0, 1} /\ Lives(k, s, t) \in Nat
         /\ restarts[GatewayOf[k.src]] \in Nat
         /\ t => Begun(k, t) = restarts[GatewayOf[k.src]]
         /\ ~t => Begun(k, t) = 0
         /\ Left(k, s, t) = 1 <=> Given(k, s, t) /\ ~Waiting(PreName(k, s, t))
<1>1. restarts[GatewayOf[k.src]] \in Nat
  BY KeyAssumption, GatewayAssumption, BoundAssumption DEF KeyType, TypeInv, TypeOK
<1>2. /\ Begun(k, t) \in Nat
      /\ t => Begun(k, t) = restarts[GatewayOf[k.src]]
      /\ ~t => Begun(k, t) = 0
  BY <1>1 DEF Begun
<1>3. /\ Left(k, s, t) \in {0, 1}
      /\ Left(k, s, t) = 1 <=> Given(k, s, t) /\ ~Waiting(PreName(k, s, t))
  BY DEF Left
<1>4. Lives(k, s, t) \in Nat
  BY <1>2, <1>3 DEF Lives
<1> QED  BY <1>1, <1>2, <1>3, <1>4

LEMMA LivesPartsNext ==
  ASSUME TypeInv', NEW k \in Keys, NEW s \in Ids, NEW t \in BOOLEAN
  PROVE  /\ Begun(k, t)' \in Nat /\ Left(k, s, t)' \in {0, 1} /\ Lives(k, s, t)' \in Nat
         /\ restarts'[GatewayOf[k.src]] \in Nat
         /\ t => Begun(k, t)' = restarts'[GatewayOf[k.src]]
         /\ ~t => Begun(k, t)' = 0
         /\ Left(k, s, t)' = 1 <=> Given(k, s, t)' /\ ~Waiting(PreName(k, s, t))'
<1>1. restarts'[GatewayOf[k.src]] \in Nat
  BY KeyAssumption, GatewayAssumption, BoundAssumption DEF KeyType, TypeInv, TypeOK
<1>2. /\ Begun(k, t)' \in Nat
      /\ t => Begun(k, t)' = restarts'[GatewayOf[k.src]]
      /\ ~t => Begun(k, t)' = 0
  BY <1>1 DEF Begun
<1>3. /\ Left(k, s, t)' \in {0, 1}
      /\ Left(k, s, t)' = 1 <=> Given(k, s, t)' /\ ~Waiting(PreName(k, s, t))'
  BY DEF Left
<1>4. Lives(k, s, t)' \in Nat
  BY <1>2, <1>3 DEF Lives
<1> QED  BY <1>1, <1>2, <1>3, <1>4

\* An announcement that stays given, and is not posted anew, keeps its lives.
LEMMA LivesGrow ==
  ASSUME TypeInv, TypeInv', NEW k \in Keys, NEW s \in Ids, NEW t \in BOOLEAN,
         restarts'[GatewayOf[k.src]] >= restarts[GatewayOf[k.src]],
         Given(k, s, t) /\ ~Waiting(PreName(k, s, t)) => Given(k, s, t)' /\ ~Waiting(PreName(k, s, t))'
  PROVE  Lives(k, s, t)' >= Lives(k, s, t)
<1>1. Begun(k, t)' >= Begun(k, t) /\ Begun(k, t) \in Nat /\ Begun(k, t)' \in Nat
  BY LivesParts, LivesPartsNext
<1>2. Left(k, s, t) = 1 => Left(k, s, t)' = 1
  BY LivesParts, LivesPartsNext
<1>3. Left(k, s, t) \in {0, 1} /\ Left(k, s, t)' \in {0, 1}
  BY LivesParts, LivesPartsNext
<1> QED  BY <1>1, <1>2, <1>3 DEF Lives

\* Every step but an announcement posts nothing.
LEMMA WaitingShrinks ==
  ASSUME TypeInv, (\E g \in Gateways : FacePut(g) \/ FaceExpress(g) \/ Restart(g)) \/ Quiet,
         NEW n, Waiting(n)'
  PROVE  Waiting(n)
<1>1. PICK h \in Gateways : \E i \in DOMAIN posted'[h] : ExpressAt(h, i, n)'
  BY DEF Waiting
<1>2. PICK i \in DOMAIN posted'[h] : ExpressAt(h, i, n)'
  BY <1>1
<1>3. ASSUME NEW g \in Gateways, FacePut(g) \/ FaceExpress(g) PROVE Waiting(n)
  BY <1>2, <1>3, ExpressesOnTake DEF Waiting
<1>4. ASSUME NEW g \in Gateways, Restart(g) PROVE Waiting(n)
  BY <1>2, <1>4, ExpressesOnRestart DEF Waiting
<1>5. CASE Quiet
  <2>1. posted' = posted
    BY <1>5, QuietUnchanged
  <2> QED  BY <1>2, <2>1 DEF Waiting, ExpressAt
<1> QED  BY <1>3, <1>4, <1>5

\* Answering a pre-request turns a copy of it into a request for its Data.
LEMMA PulledOnPre ==
  ASSUME TypeInv, NEW g \in Gateways, PreStep(g), NEW h \in Gateways
  PROVE  \E l \in Keys, r \in Ids, u \in BOOLEAN :
           /\ pre[PreName(l, r, u)] > 0
           /\ pre' = [pre EXCEPT ![PreName(l, r, u)] = @ - 1]
           /\ \A n \in DataNames : pulled'[h][n] = IF h = g /\ n = DataName(l, r, u) THEN pulled[h][n] + 1 ELSE pulled[h][n]
<1>1. PICK m \in PreNames : DealPreTcp(g, m) \/ DealPreOther(g, m)
  BY DEF PreStep
<1>2. pulled \in [Gateways -> Counts]
  BY DEF TypeInv, TypeOK
<1>3. pre[m] > 0 /\ pre' = [pre EXCEPT ![m] = @ - 1]
  BY <1>1 DEF DealPreTcp, DealPreOther, Arrives
<1>4. \E l \in Keys, r \in Ids, u \in BOOLEAN :
        m = PreName(l, r, u) /\ pulled' = Count(pulled, g, {DataName(l, r, u)})
  <2>1. CASE DealPreTcp(g, m)
    <3>1. PICK l \in Keys, r \in Ids : m = BuildName(l, 3, TcpUid(l, r))
      BY <2>1, ReceivesTcp DEF DealPreTcp
    <3>2. m = PreName(l, r, TRUE) /\ pulled' = Count(pulled, g, {DataName(l, r, TRUE)})
      BY <2>1, <3>1, NextOfTcp DEF DealPreTcp, PreName, DataName
    <3> QED  BY <3>2
  <2>2. CASE DealPreOther(g, m)
    <3>1. PICK l \in Keys, r \in Ids : m = BuildName(l, 1, r)
      BY <2>2, ReceivesOther DEF DealPreOther
    <3>2. m = PreName(l, r, FALSE) /\ pulled' = Count(pulled, g, {DataName(l, r, FALSE)})
      BY <2>2, <3>1, NextOfOther DEF DealPreOther, PreName, DataName
    <3> QED  BY <3>2
  <2> QED  BY <1>1, <2>1, <2>2
<1>5. PICK l \in Keys, r \in Ids, u \in BOOLEAN :
        m = PreName(l, r, u) /\ pulled' = Count(pulled, g, {DataName(l, r, u)})
  BY <1>4
<1> DEFINE d == DataName(l, r, u)
<1>6. \A n \in DataNames : pulled'[h][n] = IF h = g /\ n \in {d} THEN pulled[h][n] + 1 ELSE pulled[h][n]
  <2> HIDE DEF d
  <2>1. pulled' = Count(pulled, g, {d})
    BY <1>5 DEF d
  <2> QED  BY <1>2, <2>1, CountAt
<1> QED  BY <1>3, <1>5, <1>6

LEMMA PulledOtherwise ==
  ASSUME [Next]_vars
  PROVE  pulled' = pulled \/ \E g \in Gateways : PreStep(g)
BY Cases, ElsewhereUnchanged DEF Restart

LEMMA OnceInit == Init => OnceInv
<1> SUFFICES ASSUME Init PROVE OnceInv
  OBVIOUS
<1>1. \A h \in Gateways, n \in DataNames : pulled[h][n] = 0
  BY DEF Init, NoCounts
<1>2. \A n \in PreNames : pre[n] = 0
  BY DEF Init
<1>3. ASSUME NEW k \in Keys, NEW s \in Ids, NEW t \in BOOLEAN PROVE Lives(k, s, t) \in Nat
  BY <1>3, TypeInit, LivesParts
<1>4. ASSUME NEW h \in Gateways, NEW k \in Keys, NEW s \in Ids, NEW t \in BOOLEAN
      PROVE  pulled[h][DataName(k, s, t)] + pre[PreName(k, s, t)] <= Lives(k, s, t)
  <2>1. PreName(k, s, t) \in PreNames /\ DataName(k, s, t) \in DataNames
    BY NextOfPre
  <2>2. pulled[h][DataName(k, s, t)] = 0 /\ pre[PreName(k, s, t)] = 0
    BY <1>1, <1>2, <2>1
  <2> QED  BY <1>3, <2>2
<1> QED  BY <1>1, <1>4 DEF OnceInv

OnceFor(h, k, s, t) == pulled[h][DataName(k, s, t)] + pre[PreName(k, s, t)] <= Lives(k, s, t)

LEMMA OnceStep == TypeInv /\ TypeInv' /\ WaitInv /\ OnceInv /\ [Next]_vars => OnceInv'
<1> SUFFICES ASSUME TypeInv, TypeInv', WaitInv, OnceInv, [Next]_vars PROVE OnceInv'
  OBVIOUS
<1>1. ASSUME NEW h \in Gateways, NEW n \in DataNames, pulled'[h][n] > 0
      PROVE  \E k \in Keys, s \in Ids, t \in BOOLEAN : n = DataName(k, s, t)
  <2>1. CASE pulled' = pulled
    BY <1>1, <2>1 DEF OnceInv
  <2>2. ASSUME NEW g \in Gateways, PreStep(g) PROVE \E k \in Keys, s \in Ids, t \in BOOLEAN : n = DataName(k, s, t)
    <3>1. PICK l \in Keys, r \in Ids, u \in BOOLEAN :
            pulled'[h][n] = IF h = g /\ n = DataName(l, r, u) THEN pulled[h][n] + 1 ELSE pulled[h][n]
      BY <2>2, PulledOnPre
    <3> QED  BY <1>1, <3>1 DEF OnceInv
  <2> QED  BY <2>1, <2>2, PulledOtherwise
<1>2. ASSUME NEW h \in Gateways, NEW k \in Keys, NEW s \in Ids, NEW t \in BOOLEAN
      PROVE  OnceFor(h, k, s, t)'
  <2> DEFINE P == PreName(k, s, t)
             D == DataName(k, s, t)
  <2>0. P \in PreNames /\ D \in DataNames /\ GatewayOf[k.src] \in Gateways
    BY NextOfPre, KeyAssumption, GatewayAssumption DEF KeyType
  <2>1. OnceFor(h, k, s, t)
    BY DEF OnceInv, OnceFor
  <2>2. /\ pulled[h][D] \in Nat /\ pulled'[h][D] \in Nat /\ pre[P] \in Nat /\ pre'[P] \in Nat
        /\ Lives(k, s, t) \in Nat /\ Lives(k, s, t)' \in Nat
    <3>1. /\ pulled \in [Gateways -> Counts] /\ pulled' \in [Gateways -> Counts]
          /\ pre \in [PreNames -> Nat] /\ pre' \in [PreNames -> Nat]
      BY DEF TypeInv, TypeOK
    <3>2. Lives(k, s, t) \in Nat /\ Lives(k, s, t)' \in Nat
      BY LivesParts, LivesPartsNext
    <3> HIDE DEF P, D
    <3> QED  BY <2>0, <3>1, <3>2 DEF Counts
  <2>3. ASSUME pulled'[h][D] + pre'[P] <= pulled[h][D] + pre[P], Lives(k, s, t)' >= Lives(k, s, t)
        PROVE  OnceFor(h, k, s, t)'
    <3>1. pulled[h][D] + pre[P] <= Lives(k, s, t)
      BY <2>1 DEF OnceFor
    <3>2. OnceFor(h, k, s, t)' <=> pulled'[h][D] + pre'[P] <= Lives(k, s, t)'
      BY DEF OnceFor
    <3> HIDE DEF P, D
    <3> QED  BY <2>2, <2>3, <3>1, <3>2
  <2>4. ASSUME NEW g \in Gateways, NEW p \in Packets, NEW r \in Ids, NEW u \in BOOLEAN, Announces(g, p, r, u)
        PROVE  OnceFor(h, k, s, t)'
    <3>1. UNCHANGED <<pulled, pre, restarts>> /\ p.key \in Keys
      BY <2>4 DEF Announces, Packets
    <3>2. Given(k, s, t) => Given(k, s, t)'
      BY <2>4, GivenOnAnnounce
    <3>3. ASSUME Given(k, s, t), Waiting(P)' PROVE Waiting(P)
      <4>1. PICK e \in Gateways : \E i \in DOMAIN posted'[e] : ExpressAt(e, i, P)'
        BY <3>3 DEF Waiting
      <4>2. PICK i \in DOMAIN posted'[e] : ExpressAt(e, i, P)'
        BY <4>1
      <4>3. P # PreName(p.key, r, u)
        BY <2>4, <3>1, <3>3, GivenOnAnnounce, GivenByPreName
      <4>4. i \in DOMAIN posted[e] /\ ExpressAt(e, i, P)
        BY <2>4, <4>2, <4>3, ExpressesOnAnnounce
      <4> QED  BY <4>4 DEF Waiting
    <3>4. restarts'[GatewayOf[k.src]] >= restarts[GatewayOf[k.src]]
      BY <3>1, LivesParts
    <3>5. Lives(k, s, t)' >= Lives(k, s, t)
      BY <3>2, <3>3, <3>4, LivesGrow
    <3> QED  BY <2>2, <2>3, <3>1, <3>5
  <2>5. ASSUME (\E g \in Gateways : FacePut(g) \/ FaceExpress(g)) \/ Quiet
        PROVE  Lives(k, s, t)' >= Lives(k, s, t)
    <3>1. (Given(k, s, t)' <=> Given(k, s, t)) /\ restarts' = restarts
      BY <2>5, GivenOtherwise
    <3>2. Waiting(P)' => Waiting(P)
      BY <2>5, WaitingShrinks
    <3>3. restarts'[GatewayOf[k.src]] >= restarts[GatewayOf[k.src]]
      BY <3>1, LivesParts
    <3> QED  BY <3>1, <3>2, <3>3, LivesGrow
  <2>6. ASSUME NEW g \in Gateways, FacePut(g) PROVE OnceFor(h, k, s, t)'
    <3>1. UNCHANGED <<pre, pulled>>
      BY <2>6 DEF FacePut
    <3> QED  BY <2>2, <2>3, <2>5, <2>6, <3>1
  <2>7. ASSUME NEW g \in Gateways, FaceExpress(g) PROVE OnceFor(h, k, s, t)'
    <3>1. /\ 1 \in DOMAIN posted[g] /\ Head(posted[g]) = posted[g][1]
          /\ Head(posted[g]) \in ExpressOps /\ pulled' = pulled
          /\ pre' = [pre EXCEPT ![Head(posted[g]).name] = @ + 1]
      <4>1. 1 \in DOMAIN posted[g] /\ Head(posted[g]) = posted[g][1]
        BY <2>7, QueueTail
      <4>2. /\ Head(posted[g]) \in ExpressOps /\ pulled' = pulled
            /\ pre' = [pre EXCEPT ![Head(posted[g]).name] = @ + 1]
        BY <2>7 DEF FaceExpress, history
      <4> QED  BY <4>1, <4>2
    <3>2. pre \in [PreNames -> Nat]
      BY DEF TypeInv, TypeOK
    <3>3. CASE posted[g][1].name # P
      <4>1. pre'[P] = pre[P]
        <5> HIDE DEF P
        <5> QED  BY <2>0, <3>1, <3>2, <3>3
      <4> QED  BY <2>2, <2>3, <2>5, <2>7, <3>1, <4>1
    <3>4. CASE posted[g][1].name = P
      <4>1. ExpressAt(g, 1, P)
        BY <3>1, <3>4 DEF ExpressAt
      <4>2. Waiting(P) /\ Given(k, s, t)
        BY <3>1, <4>1 DEF Waiting, WaitInv
      <4>3. ASSUME Waiting(P)' PROVE FALSE
        <5>1. PICK e \in Gateways : \E i \in DOMAIN posted'[e] : ExpressAt(e, i, P)'
          BY <4>3 DEF Waiting
        <5>2. PICK i \in DOMAIN posted'[e] : ExpressAt(e, i, P)'
          BY <5>1
        <5>3. /\ e # g => i \in DOMAIN posted[e] /\ ExpressAt(e, i, P)
              /\ e = g => i \in Nat /\ i > 0 /\ i + 1 \in DOMAIN posted[g] /\ ExpressAt(g, i + 1, P)
          BY <2>7, <5>2, ExpressesOnTake
        <5>4. CASE e # g
          BY <2>0, <3>1, <4>1, <5>3, <5>4 DEF WaitInv
        <5>5. CASE e = g
          <6>1. i + 1 = 1
            BY <2>0, <3>1, <4>1, <5>3, <5>5 DEF WaitInv
          <6> QED  BY <5>3, <5>5, <6>1
        <5> QED  BY <5>4, <5>5
      <4>4. Given(k, s, t)' /\ restarts' = restarts
        BY <2>7, <4>2, GivenOtherwise
      <4>5. Left(k, s, t) = 0 /\ Left(k, s, t)' = 1
        BY <4>2, <4>3, <4>4, LivesParts, LivesPartsNext
      <4>6. Begun(k, t)' = Begun(k, t) /\ Begun(k, t) \in Nat
        BY <4>4, LivesParts DEF Begun
      <4>7. Lives(k, s, t)' = Lives(k, s, t) + 1
        BY <4>5, <4>6 DEF Lives
      <4>8. pre'[P] = pre[P] + 1 /\ pulled'[h][D] = pulled[h][D]
        <5> HIDE DEF P, D
        <5> QED  BY <2>0, <3>1, <3>2, <3>4
      <4>9. pulled[h][D] + pre[P] <= Lives(k, s, t)
        BY <2>1 DEF OnceFor
      <4>10. pulled'[h][D] + pre'[P] <= Lives(k, s, t)'
        <5> HIDE DEF P, D
        <5> QED  BY <2>2, <4>7, <4>8, <4>9
      <4> QED  BY <4>10 DEF OnceFor
    <3> QED  BY <3>3, <3>4
  <2>8. ASSUME NEW g \in Gateways, Restart(g) PROVE OnceFor(h, k, s, t)'
    <3>1. UNCHANGED <<pre, pulled>>
      BY <2>8 DEF Restart, network
    <3>2. Waiting(P)' => Waiting(P)
      BY <2>8, WaitingShrinks
    <3>3. /\ GatewayOf[k.src] # g \/ ~t => (Given(k, s, t)' <=> Given(k, s, t))
          /\ restarts[GatewayOf[k.src]] \in Nat
          /\ restarts'[GatewayOf[k.src]] = IF GatewayOf[k.src] = g THEN restarts[GatewayOf[k.src]] + 1 ELSE restarts[GatewayOf[k.src]]
      BY <2>8, GivenOnRestart
    <3>4. CASE GatewayOf[k.src] # g \/ ~t
      <4>1. restarts'[GatewayOf[k.src]] >= restarts[GatewayOf[k.src]]
        BY <3>3
      <4>2. Given(k, s, t)' <=> Given(k, s, t)
        BY <3>3, <3>4
      <4>3. Lives(k, s, t)' >= Lives(k, s, t)
        BY <3>2, <4>1, <4>2, LivesGrow
      <4> QED  BY <2>2, <2>3, <3>1, <4>3
    <3>5. CASE GatewayOf[k.src] = g /\ t
      <4>1. /\ Begun(k, t) \in Nat /\ Begun(k, t)' = Begun(k, t) + 1
            /\ Left(k, s, t) \in {0, 1} /\ Left(k, s, t)' \in {0, 1}
        <5>1. Begun(k, t) = restarts[GatewayOf[k.src]] /\ Left(k, s, t) \in {0, 1}
          BY <3>5, LivesParts
        <5>2. Begun(k, t)' = restarts'[GatewayOf[k.src]] /\ Left(k, s, t)' \in {0, 1}
          BY <3>5, LivesPartsNext
        <5>3. restarts'[GatewayOf[k.src]] = restarts[GatewayOf[k.src]] + 1
          BY <3>3, <3>5
        <5> QED  BY <3>3, <5>1, <5>2, <5>3
      <4>2. Lives(k, s, t)' >= Lives(k, s, t)
        BY <4>1 DEF Lives
      <4> QED  BY <2>2, <2>3, <3>1, <4>2
    <3> QED  BY <3>4, <3>5
  <2>9. ASSUME NEW g \in Gateways, PreStep(g) PROVE OnceFor(h, k, s, t)'
    <3>1. PICK l \in Keys, r \in Ids, u \in BOOLEAN :
            /\ pre[PreName(l, r, u)] > 0
            /\ pre' = [pre EXCEPT ![PreName(l, r, u)] = @ - 1]
            /\ \A n \in DataNames : pulled'[h][n] = IF h = g /\ n = DataName(l, r, u) THEN pulled[h][n] + 1 ELSE pulled[h][n]
      BY <2>9, PulledOnPre
    <3>2. D = DataName(l, r, u) => P = PreName(l, r, u)
      BY SameName
    <3>3. pre \in [PreNames -> Nat]
      BY DEF TypeInv, TypeOK
    <3> DEFINE Q == PreName(l, r, u)
               E == DataName(l, r, u)
    <3>4. pulled'[h][D] + pre'[P] <= pulled[h][D] + pre[P]
      <4>1. /\ pre' = [pre EXCEPT ![Q] = @ - 1]
            /\ pulled'[h][D] = IF h = g /\ D = E THEN pulled[h][D] + 1 ELSE pulled[h][D]
            /\ D = E => P = Q
        BY <2>0, <3>1, <3>2
      <4> HIDE DEF P, D, Q, E
      <4>2. CASE P = Q
        <5>1. pre'[P] = pre[P] - 1
          BY <2>0, <3>3, <4>1, <4>2
        <5>2. pulled'[h][D] <= pulled[h][D] + 1
          BY <2>2, <4>1
        <5> QED  BY <2>2, <5>1, <5>2
      <4>3. CASE P # Q
        <5>1. pre'[P] = pre[P] /\ pulled'[h][D] = pulled[h][D]
          BY <2>0, <3>3, <4>1, <4>3
        <5> QED  BY <2>2, <5>1
      <4> QED  BY <4>2, <4>3
    <3>5. Quiet
      BY <2>9 DEF Quiet
    <3> QED  BY <2>3, <2>5, <3>4, <3>5
  <2>10. CASE Quiet
    <3>1. CASE pulled' = pulled
      <4>1. pre'[P] <= pre[P]
        BY <2>0, <2>10, QuietPre
      <4>2. pulled'[h][D] + pre'[P] <= pulled[h][D] + pre[P]
        <5> HIDE DEF P, D
        <5> QED  BY <2>2, <3>1, <4>1
      <4> QED  BY <2>3, <2>5, <2>10, <4>2
    <3> QED  BY <2>9, <3>1, PulledOtherwise
  <2> QED  BY <2>4, <2>6, <2>7, <2>8, <2>10, StepCases
<1> QED  BY <1>1, <1>2 DEF OnceInv, OnceFor

\* A host gets the content of a name at most three times: once for its
\* pre-request, and twice for guesses; restarts of either gateway add to that.
THEOREM CopiesAreBounded == Spec => []CopiesBounded
<1>1. TypeInv /\ OnceInv /\ GuessesBounded /\ CopiesAnswerRequests => CopiesBounded
  <2> SUFFICES ASSUME TypeInv, OnceInv, GuessesBounded, CopiesAnswerRequests, NEW g \in Gateways, NEW n \in DataNames
               PROVE  copies[g][n] <= 3 + 2 * restarts[GatewayOf[SourceOf(n)]] + restarts[g]
    BY DEF CopiesBounded
  <2>1. /\ copies[g][n] \in Nat /\ pulled[g][n] \in Nat /\ guessed[g][n] \in Nat /\ restarts[g] \in Nat
        /\ pending[g][Tcp(n)] \in Nat /\ pending[g][Other(n)] \in Nat
    BY RequestsOf, BoundAssumption DEF TypeInv, TypeOK, Counts
  <2>2. copies[g][n] <= pulled[g][n] + guessed[g][n]
    <3>1. CopyBound(g, n)
      BY DEF CopiesAnswerRequests, CopyBound, Tcp, Other
    <3> QED  BY <2>1, <3>1 DEF CopyBound
  <2>3. guessed[g][n] <= pulled[g][n] + 1 + restarts[g]
    BY <2>1 DEF GuessesBounded
  <2>4. \E k \in Keys : SourceOf(n) = k.src
    <3>1. CASE n \in TcpDataNames
      BY <3>1 DEF TcpDataNames, BuildName, SourceOf
    <3>2. CASE n \in OtherDataNames
      BY <3>2 DEF OtherDataNames, BuildName, SourceOf
    <3> QED  BY <3>1, <3>2 DEF DataNames
  <2>5. restarts[GatewayOf[SourceOf(n)]] \in Nat
    BY <2>4, KeyAssumption, GatewayAssumption, BoundAssumption DEF KeyType, TypeInv, TypeOK
  <2>6. pulled[g][n] <= restarts[GatewayOf[SourceOf(n)]] + 1
    <3>1. CASE pulled[g][n] = 0
      BY <2>5, <3>1
    <3>2. CASE pulled[g][n] > 0
      <4>1. PICK k \in Keys, s \in Ids, t \in BOOLEAN : n = DataName(k, s, t)
        BY <3>2 DEF OnceInv
      <4>2. PreName(k, s, t) \in PreNames /\ SourceOf(n) = k.src
        BY <4>1, NextOfPre
      <4>3. pulled[g][n] + pre[PreName(k, s, t)] <= Lives(k, s, t) /\ pre[PreName(k, s, t)] \in Nat
        BY <4>1, <4>2 DEF OnceInv, TypeInv, TypeOK
      <4>4. Begun(k, t) <= restarts[GatewayOf[k.src]] /\ Begun(k, t) \in Nat /\ Left(k, s, t) \in {0, 1}
        BY LivesParts
      <4>5. Lives(k, s, t) <= restarts[GatewayOf[SourceOf(n)]] + 1 /\ Lives(k, s, t) \in Nat
        BY <2>5, <4>2, <4>4 DEF Lives
      <4> QED  BY <2>1, <2>5, <4>3, <4>5
    <3> QED  BY <2>1, <3>1, <3>2
  <2> QED  BY <2>1, <2>2, <2>3, <2>5, <2>6
<1> QED  BY <1>1, TypeInvariant, WaitInit, WaitStep, OnceInit, OnceStep, GuessesAreBounded, CopiesAreAnswers, PTL DEF Spec
=============================================================================
