\* Pre-requests may be lost, nothing else: what comes out all the same.
SPECIFICATION DeliverySpec
CONSTANTS
  g1 = g1
  g2 = g2
  h1 = h1
  h2 = h2
  Gateways = {g1, g2}
  Hosts = {h1, h2}
  GatewayOf <- MCGatewayOf
  Ports = {1, 2}
  Keys <- OneWay
  Protos = {"TCP", "ICMP"}
  NUM_OF_GUEST = 2
  MaxPackets = 3
  MaxRestarts = 0
INVARIANTS
  PacketsInHand
  GuessesInHand
PROPERTIES
  Delivered
  GuessMasksLostPre
CHECK_DEADLOCK FALSE
