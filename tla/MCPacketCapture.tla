-------------------------- MODULE MCPacketCapture --------------------------
(* Frames that take each way through the decoder and the size filter.       *)
EXTENDS PacketCapture

Frame(cap, ether, proto, total) ==
  [cap |-> cap, ether |-> ether, ver |-> 4, hl |-> 20, sumOK |-> TRUE,
   proto |-> proto, doff |-> 20, total |-> total]

MCFrames == {
  Frame(1514, "IP", "TCP", 1500),                          \* a full segment
  Frame(60, "IP", "TCP", 40),                              \* an acknowledgement, padded by the link
  Frame(78, "VLAN", "UDP", 60),
  Frame(9014, "IP", "TCP", 9000),                          \* merged by the network card: too large
  Frame(8613, "IP", "OTHER", 8599),                        \* the largest that passes
  Frame(44, "IP", "TCP", 100),                             \* cut inside the TCP header
  Frame(40, "IP", "UDP", 100),
  Frame(14, "IP", "ICMP", 84),                             \* the link header only
  Frame(10, "IP", "TCP", 40),                              \* shorter than the link header
  Frame(16, "VLAN", "OTHER", 20),                          \* shorter than the tagged header
  [Frame(60, "OTHER", "OTHER", 28) EXCEPT !.ver = 0],      \* ARP
  [Frame(60, "IP", "TCP", 40) EXCEPT !.sumOK = FALSE],
  [Frame(60, "IP", "ICMP", 40) EXCEPT !.ver = 6] }
=============================================================================
