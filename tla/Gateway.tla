------------------------------ MODULE Gateway ------------------------------
(***************************************************************************)
(* Gateways that carry IP packets over NDN.  Each gateway is a process     *)
(* with two threads.  The capture thread (LibPcapHelper::deal) numbers a   *)
(* captured packet, publishes it as Data and sends a pre-request towards   *)
(* the destination; every call it makes on the face is only posted to the  *)
(* NDN thread.  The NDN thread (NDNHelper) runs the posted calls, answers  *)
(* a pre-request by asking for the Data and, for numbered packets, for the *)
(* next NUM_OF_GUEST Data of the flow, and hands the content of received   *)
(* Data to the raw socket.                                                 *)
(*                                                                         *)
(* The NDN forwarders between the gateways are external: content stores    *)
(* that keep Data (stored), interests on their way (pre), and the pending  *)
(* interests of each face (pending).                                       *)
(***************************************************************************)
EXTENDS Names, Integers, FiniteSets

CONSTANTS
  Gateways,      \* running ip-ndn-stack processes
  Hosts,         \* IP addresses
  GatewayOf,     \* [Hosts -> Gateways], the registerIp lists of the config files
  Ports,         \* transport ports
  Keys,          \* the flows that exist, 4-tuples without the protocol
  Protos,        \* the IP protocols that occur
  NUM_OF_GUEST,  \* how many sequence numbers are guessed ahead
  MaxPackets,    \* bound: packets captured in all
  MaxRestarts    \* bound: restarts of each gateway

KeyType == [src : Hosts, dst : Hosts, sport : Ports, dport : Ports]

ASSUME HostAssumption    == {"pre", "TCP"} \cap Hosts = {}
ASSUME GatewayAssumption == GatewayOf \in [Hosts -> Gateways]
\* What hosts of one gateway send each other is left out: the pre-request of such
\* a packet would have to come back to the face that expressed it, which no
\* forwarder does, so its Data is published and numbered but never asked for.
ASSUME KeyAssumption     == /\ Keys \subseteq KeyType
                            /\ \A k \in Keys : GatewayOf[k.src] # GatewayOf[k.dst]
ASSUME BoundAssumption   == /\ NUM_OF_GUEST \in Nat
                            /\ MaxPackets \in Nat
                            /\ MaxRestarts \in Nat

Numbered == {"TCP", "UDP"}    \* the protocols deal() numbers per flow
Absent   == 0                 \* a key the sequence table does not hold

Ids      == 1..MaxPackets     \* capture order; also the uuid of an unnumbered packet
Packets  == [key : Keys, proto : Protos, id : Ids]

TcpDataNames   == { BuildName(k, 4, TcpUid(k, s)) : k \in Keys, s \in 1..(MaxPackets + NUM_OF_GUEST) }
OtherDataNames == { BuildName(k, 2, u) : k \in Keys, u \in Ids }
DataNames      == TcpDataNames \cup OtherDataNames
TcpPreNames    == { BuildName(k, 3, TcpUid(k, s)) : k \in Keys, s \in Ids }
OtherPreNames  == { BuildName(k, 1, u) : k \in Keys, u \in Ids }
PreNames       == TcpPreNames \cup OtherPreNames
Data           == [name : DataNames, content : Packets]

\* A pending interest for Data, with the isTCP flag bound into its callback.
Requests == [name : DataNames, isTCP : BOOLEAN]

\* Calls on the face, posted by the capture thread.
PutOps     == [op : {"put"}, data : Data]
ExpressOps == [op : {"express"}, name : PreNames]
FaceOps    == PutOps \cup ExpressOps

VARIABLES
  sequenceTable,  \* last sequence number given to each flow, by gateway
  posted,         \* face calls the NDN thread has not run yet, in order
  guest,          \* prefixGuestTable: data names guessed and not yet announced
  pending,        \* interests for Data, expressed and not answered
  stored,         \* Data in the forwarders' content stores
  pre,            \* copies of each pre-request on their way
  \* History: what happened, read by no action's guard except the bounds.
  ncaptured,      \* how many packets were captured
  captured,       \* those packets
  published,      \* Data ever put on a face
  injected,       \* packets handed to a raw socket, with gateway and address
  pulled,         \* interests for a name expressed because of its pre-request
  guessed,        \* interests for a name expressed by guessing
  copies,         \* times the content of a name was handed to the raw socket
  restarts        \* restarts of each gateway

process == <<sequenceTable, posted, guest, pending>>
network == <<stored, pre>>
history == <<ncaptured, captured, published, injected, pulled, guessed, copies, restarts>>
vars    == <<process, network, history>>

Counts == [DataNames -> Nat]

TypeOK ==
  /\ sequenceTable \in [Gateways -> [Keys -> 0..MaxPackets]]
  /\ posted    \in [Gateways -> Seq(FaceOps)]
  /\ guest     \in [Gateways -> SUBSET TcpDataNames]
  /\ pending   \in [Gateways -> [Requests -> Nat]]
  /\ stored    \in SUBSET Data
  /\ pre       \in [PreNames -> Nat]
  /\ ncaptured \in 0..MaxPackets
  /\ captured  \in SUBSET Packets
  /\ published \in SUBSET Data
  /\ injected  \in SUBSET [gw : Gateways, to : Hosts, pkt : Packets]
  /\ pulled    \in [Gateways -> Counts]
  /\ guessed   \in [Gateways -> Counts]
  /\ copies    \in [Gateways -> Counts]
  /\ restarts  \in [Gateways -> 0..MaxRestarts]

NoSequence == [k \in Keys |-> Absent]
NoRequests == [r \in Requests |-> 0]
NoCounts   == [n \in DataNames |-> 0]

Init ==
  /\ sequenceTable = [g \in Gateways |-> NoSequence]
  /\ posted    = [g \in Gateways |-> << >>]
  /\ guest     = [g \in Gateways |-> {}]
  /\ pending   = [g \in Gateways |-> NoRequests]
  /\ stored    = {}
  /\ pre       = [n \in PreNames |-> 0]
  /\ ncaptured = 0
  /\ captured  = {}
  /\ published = {}
  /\ injected  = {}
  /\ pulled    = [g \in Gateways |-> NoCounts]
  /\ guessed   = [g \in Gateways |-> NoCounts]
  /\ copies    = [g \in Gateways |-> NoCounts]
  /\ restarts  = [g \in Gateways |-> 0]

-----------------------------------------------------------------------------
(* The capture thread: one action per branch of LibPcapHelper::deal.       *)

\* pcap hands over the next packet of some host, at that host's gateway.
Capture(g, p) ==
  /\ g = GatewayOf[p.key.src]
  /\ p.id = ncaptured + 1
  /\ ncaptured' = p.id
  /\ captured' = captured \cup {p}

\* Mutant: the pre-request is expressed before the Data is put.
PublishAndAnnounce_Swapped(g, p, dataName, preName) ==
  posted' = [posted EXCEPT ![g] = @ \o
    << [op |-> "express", name |-> preName],
       [op |-> "put", data |-> [name |-> dataName, content |-> p]] >>]

\* putDataToCache, then expressInterest of the pre-request.  The face runs
\* neither on the capture thread: it posts both to the NDN thread, in order.
PublishAndAnnounce(g, p, dataName, preName) ==
  posted' = [posted EXCEPT ![g] = @ \o
    << [op |-> "put", data |-> [name |-> dataName, content |-> p]],
       [op |-> "express", name |-> preName] >>]

\* The first packet of a flow gets sequence number 1.
DealFirst(g, p) ==
  /\ p.proto \in Numbered
  /\ sequenceTable[g][p.key] = Absent
  /\ Capture(g, p)
  /\ sequenceTable' = [sequenceTable EXCEPT ![g][p.key] = 1]
  /\ PublishAndAnnounce(g, p, BuildName(p.key, 4, TcpUid(p.key, 1)),
                              BuildName(p.key, 3, TcpUid(p.key, 1)))
  /\ UNCHANGED <<guest, pending, network, published, injected, pulled, guessed, copies, restarts>>

\* Mutants: the table's value is used without increasing it; it is increased twice.
NextSequence_Stale(g, k) == sequenceTable[g][k]
NextSequence_Twice(g, k) == sequenceTable[g][k] + 2

\* getAndIncreaseSequence, on the capture thread only.
NextSequence(g, k) == sequenceTable[g][k] + 1

\* A later packet of the flow gets the next number.
DealNext(g, p) ==
  LET seq == NextSequence(g, p.key)
  IN  /\ p.proto \in Numbered
      /\ sequenceTable[g][p.key] # Absent
      /\ Capture(g, p)
      /\ sequenceTable' = [sequenceTable EXCEPT ![g][p.key] = seq]
      /\ PublishAndAnnounce(g, p, BuildName(p.key, 4, TcpUid(p.key, seq)),
                                  BuildName(p.key, 3, TcpUid(p.key, seq)))
      /\ UNCHANGED <<guest, pending, network, published, injected, pulled, guessed, copies, restarts>>

\* A packet of any other protocol is named by a fresh uuid (generateUUID).
DealOther(g, p) ==
  /\ p.proto \notin Numbered
  /\ Capture(g, p)
  /\ PublishAndAnnounce(g, p, BuildName(p.key, 2, p.id), BuildName(p.key, 1, p.id))
  /\ UNCHANGED <<sequenceTable, guest, pending, network,
                 published, injected, pulled, guessed, copies, restarts>>

-----------------------------------------------------------------------------
(* The NDN thread: posted face calls and the callbacks of the face.        *)

\* face.put: the Data reaches the content stores.
FacePut(g) ==
  /\ posted[g] # << >>
  /\ Head(posted[g]) \in PutOps
  /\ LET d == Head(posted[g]).data
     IN  /\ stored' = stored \cup {d}
         /\ published' = published \cup {d}
  /\ posted' = [posted EXCEPT ![g] = Tail(@)]
  /\ UNCHANGED <<sequenceTable, guest, pending, pre,
                 ncaptured, captured, injected, pulled, guessed, copies, restarts>>

\* face.expressInterest of a pre-request.  Nothing ever answers it with Data,
\* so its callbacks change nothing and it leaves no pending entry to track.
FaceExpress(g) ==
  /\ posted[g] # << >>
  /\ Head(posted[g]) \in ExpressOps
  /\ pre' = [pre EXCEPT ![Head(posted[g]).name] = @ + 1]
  /\ posted' = [posted EXCEPT ![g] = Tail(@)]
  /\ UNCHANGED <<sequenceTable, guest, pending, stored, history>>

\* The gateway whose filters, for the given flags, a pre-request matches.
Receives(g, n, isTCP) ==
  \E h \in Hosts : \E f \in InterestFilters(h) :
    GatewayOf[h] = g /\ f.isPre /\ f.isTCP = isTCP /\ Matches(f, n)

\* One copy of a pre-request arrives.
Arrives(n) == pre[n] > 0 /\ pre' = [pre EXCEPT ![n] = @ - 1]

\* Mutant: each interest is expressed twice, as a retry would that does not wait.
Express_Twice(g, names, isTCP) ==
  pending' = [pending EXCEPT ![g] = [r \in Requests |->
    IF r.name \in names /\ r.isTCP = isTCP THEN @[r] + 2 ELSE @[r]]]

\* expressInterest(name, false, isTCP) for each of the names.
Express(g, names, isTCP) ==
  pending' = [pending EXCEPT ![g] = [r \in Requests |->
    IF r.name \in names /\ r.isTCP = isTCP THEN @[r] + 1 ELSE @[r]]]

Count(counts, g, names) ==
  [counts EXCEPT ![g] = [n \in DataNames |-> IF n \in names THEN @[n] + 1 ELSE @[n]]]

\* prefixGuestTable once the announced name is erased from it.
Kept(g, n) == guest[g] \ {NextName(n, TRUE)}

\* Mutants: the table is not consulted; guessing starts at the announced
\* number; one name too few is guessed.
NewGuesses_All(g, n)     == GuessNames(n, NUM_OF_GUEST)
NewGuesses_FromOwn(g, n) == ({NextName(n, TRUE)} \cup GuessNames(n, NUM_OF_GUEST - 1)) \ Kept(g, n)
NewGuesses_Fewer(g, n)   == GuessNames(n, NUM_OF_GUEST - 1) \ Kept(g, n)

\* The guessed names saveConcurrence finds absent and records.
NewGuesses(g, n) == GuessNames(n, NUM_OF_GUEST) \ Kept(g, n)

\* Mutant: the announced name, too, is only asked for if the table lacks it.
Wanted_Absent(g, n) == ({NextName(n, TRUE)} \ guest[g]) \cup NewGuesses(g, n)

\* The names asked for: the announced one whatever the table holds, and the
\* new guesses.
Wanted(g, n) == {NextName(n, TRUE)} \cup NewGuesses(g, n)

\* dealOnInterest, isPre and isTCP: ask for the announced Data, forget its
\* guess, then guess the next names, skipping those already in the table.
DealPreTcp(g, n) ==
  LET next  == NextName(n, TRUE)
      fresh == NewGuesses(g, n)
  IN  /\ Receives(g, n, TRUE)
      /\ Arrives(n)
      /\ guest' = [guest EXCEPT ![g] = Kept(g, n) \cup fresh]
      /\ Express(g, Wanted(g, n), TRUE)
      /\ pulled' = Count(pulled, g, {next})
      /\ guessed' = Count(guessed, g, fresh)
      /\ UNCHANGED <<sequenceTable, posted, stored,
                     ncaptured, captured, published, injected, copies, restarts>>

\* dealOnInterest, isPre and not isTCP: ask for the announced Data.
DealPreOther(g, n) ==
  LET next == NextName(n, FALSE)
  IN  /\ Receives(g, n, FALSE)
      /\ Arrives(n)
      /\ Express(g, {next}, FALSE)
      /\ pulled' = Count(pulled, g, {next})
      /\ UNCHANGED <<sequenceTable, posted, guest, stored,
                     ncaptured, captured, published, injected, guessed, copies, restarts>>

\* A Data answers every pending interest of the request at once.
Satisfy(g, r) == pending' = [pending EXCEPT ![g][r] = 0]

\* onData: a Data answers every pending interest of its name; each callback
\* hands the content to the raw socket of the address in the name.
OnData(g, d, isTCP) ==
  LET r == [name |-> d.name, isTCP |-> isTCP]
  IN  /\ d \in stored
      /\ pending[g][r] > 0
      /\ Satisfy(g, r)
      /\ injected' = injected \cup {[gw |-> g, to |-> TargetIp(d.name, isTCP), pkt |-> d.content]}
      /\ copies' = [copies EXCEPT ![g][d.name] = @ + pending[g][r]]
      /\ UNCHANGED <<sequenceTable, posted, guest, network,
                     ncaptured, captured, published, pulled, guessed, restarts>>

-----------------------------------------------------------------------------
(* Faults.                                                                 *)

\* onTimeout and onNack: the interest is gone and neither callback retries it.
OnTimeoutOrNack(g, r) ==
  /\ pending[g][r] > 0
  /\ pending' = [pending EXCEPT ![g][r] = @ - 1]
  /\ UNCHANGED <<sequenceTable, posted, guest, network, history>>

\* The forwarders lose, or aggregate away, a copy of a pre-request.
LosePre(n) ==
  /\ Arrives(n)
  /\ UNCHANGED <<process, stored, history>>

\* The content stores drop a Data; nothing puts it back.
Evict(d) ==
  /\ d \in stored
  /\ stored' = stored \ {d}
  /\ UNCHANGED <<process, pre, history>>

\* A gateway process dies and is started again: its tables are in memory only,
\* the forwarders' stores are not its own.
Restart(g) ==
  /\ restarts[g] < MaxRestarts
  /\ restarts' = [restarts EXCEPT ![g] = @ + 1]
  /\ sequenceTable' = [sequenceTable EXCEPT ![g] = NoSequence]
  /\ posted'  = [posted  EXCEPT ![g] = << >>]
  /\ guest'   = [guest   EXCEPT ![g] = {}]
  /\ pending' = [pending EXCEPT ![g] = NoRequests]
  /\ UNCHANGED <<network, ncaptured, captured, published, injected, pulled, guessed, copies>>

-----------------------------------------------------------------------------

CaptureStep(g) == \E p \in Packets : DealFirst(g, p) \/ DealNext(g, p) \/ DealOther(g, p)
PreStep(g)     == \E n \in PreNames : DealPreTcp(g, n) \/ DealPreOther(g, n)
DataStep(g)    == \E d \in stored, isTCP \in BOOLEAN : OnData(g, d, isTCP)

NdnStep(g) == FacePut(g) \/ FaceExpress(g) \/ PreStep(g) \/ DataStep(g)

System == \E g \in Gateways : CaptureStep(g) \/ NdnStep(g)

Loss   == \E n \in PreNames : LosePre(n)
Faults == \/ Loss
          \/ \E g \in Gateways, r \in Requests : OnTimeoutOrNack(g, r)
          \/ \E d \in stored : Evict(d)
          \/ \E g \in Gateways : Restart(g)

Next == System \/ Faults
Spec == Init /\ [][Next]_vars

-----------------------------------------------------------------------------
(* Properties.                                                             *)

PostedPuts(g) == { posted[g][i].data : i \in { j \in DOMAIN posted[g] : posted[g][j] \in PutOps } }
SourceOf(n)      == IF Len(n) = 5 THEN n[3] ELSE n[2]
DestinationOf(n) == IF Len(n) = 5 THEN n[4] ELSE n[3]

\* What comes out was captured, and comes out at the gateway and the address
\* its own header names: no name leads to the content of another flow.
InjectedIsCaptured ==
  \A i \in injected : /\ i.pkt \in captured
                      /\ i.to = i.pkt.key.dst
                      /\ i.gw = GatewayOf[i.to]

\* A pre-request is on its way only for Data that is already published, so that
\* the request it provokes can be answered (deal puts first, announces second,
\* and the two calls reach the face in that order).
PreFollowsData ==
  \A n \in PreNames : pre[n] > 0 =>
    \E d \in published : d.name = NextName(n, n \in TcpPreNames)

\* As long as the source's gateway was not restarted, a name stands for one
\* packet only: a cached Data is never the answer to a request for another.
NamesUnique ==
  \A d1, d2 \in published :
    (d1.name = d2.name /\ restarts[GatewayOf[SourceOf(d1.name)]] = 0) => d1 = d2

\* The numbers of a flow have no gaps: each number up to the last one given is
\* published or waits to be.  Guessing relies on it.
NoGaps ==
  \A g \in Gateways, k \in Keys : \A s \in 1..sequenceTable[g][k] :
    \E d \in published \cup PostedPuts(g) : d.name = BuildName(k, 4, TcpUid(k, s))

\* A recorded guess lies within NUM_OF_GUEST of a pre-request of its flow that
\* this gateway has answered: guesses do not feed on guesses.
GuessesInWindow ==
  \A g \in Gateways : \A n \in guest[g] :
    \E m \in PreNames : /\ m \in TcpPreNames
                        /\ pulled[g][NextName(m, TRUE)] > 0
                        /\ n \in GuessNames(m, NUM_OF_GUEST)

\* prefixGuestTable does its work: a name is guessed again only after its own
\* pre-request made the gateway forget it, or after a restart.
GuessesBounded ==
  \A g \in Gateways, n \in DataNames :
    guessed[g][n] <= pulled[g][n] + (IF n \in guest[g] THEN 1 ELSE 0) + restarts[g]

\* Each copy handed to the raw socket answers an interest of its own.
CopiesAnswerRequests ==
  \A g \in Gateways, n \in DataNames :
    copies[g][n] + pending[g][[name |-> n, isTCP |-> TRUE]]
                 + pending[g][[name |-> n, isTCP |-> FALSE]] <= pulled[g][n] + guessed[g][n]

\* The receiving host gets a packet at most three times when nothing restarts:
\* once for a guess, once for its pre-request, and once more if the pre-request
\* of an earlier packet arrives late and guesses the forgotten name again.
CopiesBounded ==
  \A g \in Gateways, n \in DataNames :
    copies[g][n] <= 3 + 2 * restarts[GatewayOf[SourceOf(n)]] + restarts[g]

\* Together the gateways implement a tunnel that delivers only what was
\* captured, and only to its destination.
Tunnel == INSTANCE PacketTunnel WITH delivered <- injected
ImplementsTunnel == Tunnel!Spec
=============================================================================
