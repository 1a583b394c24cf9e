---------------------------- MODULE PacketTunnel ----------------------------
(***************************************************************************)
(* What the gateways promise together: a packet is delivered only after it *)
(* was captured, only at the gateway that serves its destination address,  *)
(* and only to that address.  The tunnel may lose, delay, reorder and      *)
(* repeat packets, as IP may.                                              *)
(***************************************************************************)
CONSTANTS Packets, GatewayOf
VARIABLES captured, delivered

Init == captured = {} /\ delivered = {}

\* A host sends a packet.
Capture(p) == /\ p \notin captured
              /\ captured' = captured \cup {p}
              /\ UNCHANGED delivered

Delivery(p) == [gw |-> GatewayOf[p.key.dst], to |-> p.key.dst, pkt |-> p]

\* A captured packet is delivered, perhaps again.
Deliver(p) == /\ p \in captured
              /\ delivered' = delivered \cup {Delivery(p)}
              /\ UNCHANGED captured

Next == \E p \in Packets : Capture(p) \/ Deliver(p)
Spec == Init /\ [][Next]_<<captured, delivered>>
=============================================================================
