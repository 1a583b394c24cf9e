\* Restarts of either gateway in the middle of a flow.
SPECIFICATION Spec
CONSTANTS
  g1 = g1
  g2 = g2
  h1 = h1
  h2 = h2
  Gateways = {g1, g2}
  Hosts = {h1, h2}
  GatewayOf <- MCGatewayOf
  Ports = {1, 2}
  Keys <- OneWay
  Protos = {"TCP"}
  NUM_OF_GUEST = 1
  MaxPackets = 3
  MaxRestarts = 1
INVARIANTS
  PreFollowsData
  NoGaps
  GuessesBounded
  CopiesBounded
PROPERTY ImplementsTunnel
CHECK_DEADLOCK FALSE
