----------------------------- MODULE MCGateway -----------------------------
(* Two hosts behind two gateways.  Small instances of Gateway for TLC.      *)
EXTENDS Gateway

CONSTANTS g1, g2, h1, h2

MCGatewayOf == [h \in {h1, h2} |-> IF h = h1 THEN g1 ELSE g2]

Flow(a, b, p, q) == [src |-> a, dst |-> b, sport |-> p, dport |-> q]
OneWay   == { Flow(h1, h2, 1, 2) }
BothWays == OneWay \cup { Flow(h2, h1, 2, 1) }
Flows    == BothWays \cup { Flow(h1, h2, 2, 1) }
=============================================================================
