\* Late, lost and timed out messages; evicted Data; no restarts.
SPECIFICATION Spec
CONSTANTS
  g1 = g1
  g2 = g2
  h1 = h1
  h2 = h2
  Gateways = {g1, g2}
  Hosts = {h1, h2}
  GatewayOf <- MCGatewayOf
  Ports = {1, 2}
  Keys <- OneWay
  Protos = {"TCP", "ICMP"}
  NUM_OF_GUEST = 2
  MaxPackets = 3
  MaxRestarts = 0
INVARIANTS
  TypeOK
  PreFollowsData
  NamesUnique
  NoGaps
  GuessesInWindow
  GuessesBounded
  CopiesAnswerRequests
  CopiesBounded
PROPERTY ImplementsTunnel
CHECK_DEADLOCK FALSE
