------------------------------ MODULE Delivery ------------------------------
(***************************************************************************)
(* What the gateways deliver when the network does no worse than lose      *)
(* pre-requests: Gateway with the names of the lost ones recorded, and     *)
(* fairness.  A guess may still end by the two seconds the program gives   *)
(* every interest: it is expressed for a packet no host may send in time.  *)
(* The request for an announced Data is answered within its two seconds,   *)
(* as the Data is in the stores when its pre-request arrives.              *)
(***************************************************************************)
EXTENDS Gateway

VARIABLES
  \* History, read by no action.
  lost,     \* pre-requests of which a copy was lost
  expired   \* names whose last request ended unanswered, with its gateway

deliveryVars == <<vars, lost, expired>>

DeliveryInit == Init /\ lost = {} /\ expired = {}

\* The request for a numbered name, announced or guessed.
TcpRequest(n) == [name |-> n, isTCP |-> TRUE]

\* A name that is asked for again is not expired any more.
RecordExpired(new) ==
  expired' = { e \in expired \cup new : pending'[e[1]][TcpRequest(e[2])] = 0 }

Work(step) == step /\ UNCHANGED lost /\ RecordExpired({})

Lose(n) == LosePre(n) /\ lost' = lost \cup {n} /\ RecordExpired({})

\* The lifetime of a guess ends, before or after its Data is published: the name
\* was not announced yet, or is asked for once more or out already.  onTimeout
\* leaves the name in prefixGuestTable.
Expire(g, n) ==
  /\ pulled[g][n] = 0 \/ pending[g][TcpRequest(n)] > 1 \/ copies[g][n] > 0
  /\ OnTimeoutOrNack(g, TcpRequest(n))
  /\ UNCHANGED lost
  /\ RecordExpired({<<g, n>>})

DeliveryNext == \/ Work(System)
                \/ \E n \in PreNames : Lose(n)
                \/ \E g \in Gateways, n \in TcpDataNames : Expire(g, n)

\* io_service::run of each NDN thread keeps running posted calls and callbacks
\* as long as there are any.  Nothing obliges a host to send packets, nor an
\* interest to expire before its Data comes.
NdnFairness == \A g \in Gateways : WF_deliveryVars(Work(NdnStep(g)))

DeliverySpec == DeliveryInit /\ [][DeliveryNext]_deliveryVars /\ NdnFairness

-----------------------------------------------------------------------------
(* Properties.                                                             *)

\* The name deal announces a data name with.
PreNameOf(n) == IF Len(n) = 5 THEN <<"IP", "TCP", "pre", n[4], n[3], n[5]>>
                              ELSE <<"IP", "pre", n[3], n[2], n[4]>>

\* The network lost the pre-request of a packet.
AnnouncementLost(p) ==
  \E d \in published : d.content = p /\ PreNameOf(d.name) \in lost

\* Some step is left that brings the Data d of a packet to its destination: its
\* pre-request is to be expressed, or is on its way, or the destination has
\* answered it, asks for the Data and the forwarders have it.
InHand(d) ==
  LET source      == GatewayOf[d.content.key.src]
      destination == GatewayOf[d.content.key.dst]
      request     == [name |-> d.name, isTCP |-> Len(d.name) = 5]
  IN  \/ \E i \in DOMAIN posted[source] : posted[source][i] = [op |-> "express", name |-> PreNameOf(d.name)]
      \/ pre[PreNameOf(d.name)] > 0
      \/ d \in stored /\ pulled[destination][d.name] > 0 /\ pending[destination][request] > 0

\* No captured packet is forgotten: it is out, or its pre-request was lost, or
\* something is left to do for it, at every moment between two steps of the
\* threads and the network.
PacketsInHand ==
  \A p \in captured : \E d \in published \cup PostedPuts(GatewayOf[p.key.src]) :
    /\ d.content = p
    /\ InHand(d) \/ PreNameOf(d.name) \in lost \/ \E i \in injected : i.pkt = p

\* Every name within NUM_OF_GUEST of an answered pre-request is being asked for,
\* or its content came out, or its last request ended by its lifetime: the table
\* keeps the gateway from asking for no other name.
GuessesInHand ==
  \A g \in Gateways, m \in TcpPreNames : \A n \in GuessNames(m, NUM_OF_GUEST) :
    pulled[g][NextName(m, TRUE)] > 0 =>
      pending[g][TcpRequest(n)] > 0 \/ copies[g][n] > 0 \/ <<g, n>> \in expired

\* Each captured packet comes out at its destination unless the network lost the
\* one pre-request it has: no other part of the way through two gateways loses
\* it, no packet is lost for the pre-request of another, and a guess of it that
\* expired does not keep the gateway from asking when it is announced.
Delivered ==
  \A p \in Packets :
    p \in captured ~> (AnnouncementLost(p) \/ \E i \in injected : i.pkt = p)

\* One answered pre-request is enough for the NUM_OF_GUEST packets after it, as
\* long as their guesses live: each that is published comes out even if its own
\* pre-request is lost, unless the last request for it has expired.
GuessMasksLostPre ==
  \A m \in TcpPreNames : \A n \in GuessNames(m, NUM_OF_GUEST) :
    LET g == GatewayOf[DestinationOf(n)]
    IN  (pulled[g][NextName(m, TRUE)] > 0 /\ \E d \in published : d.name = n)
          ~> (copies[g][n] > 0 \/ <<g, n>> \in expired)
=============================================================================
