\* Flows that share hosts or ports, protocols that share a 4-tuple.
SPECIFICATION Spec
CONSTANTS
  g1 = g1
  g2 = g2
  h1 = h1
  h2 = h2
  Gateways = {g1, g2}
  Hosts = {h1, h2}
  GatewayOf <- MCGatewayOf
  Ports = {1, 2}
  Keys <- Flows
  Protos = {"TCP", "UDP", "ICMP"}
  NUM_OF_GUEST = 1
  MaxPackets = 2
  MaxRestarts = 0
INVARIANTS
  InjectedIsCaptured
  NamesUnique
CHECK_DEADLOCK FALSE
