----------------------------- MODULE MCDelivery -----------------------------
(* One flow between two gateways: a small instance of Delivery for TLC.      *)
EXTENDS Delivery

CONSTANTS g1, g2, h1, h2

MCGatewayOf == [h \in {h1, h2} |-> IF h = h1 THEN g1 ELSE g2]
OneWay == { [src |-> h1, dst |-> h2, sport |-> 1, dport |-> 2] }
=============================================================================
