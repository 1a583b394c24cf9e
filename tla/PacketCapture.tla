--------------------------- MODULE PacketCapture ---------------------------
(***************************************************************************)
(* From a frame in pcap's buffer to LibPcapHelper::deal: the asynchronous  *)
(* read loop, the decoder with its statistics, and what of a decoded frame *)
(* becomes the content of a Data.                                          *)
(*                                                                         *)
(* A frame is what the decoder reads of it.  When the capture is shorter   *)
(* than the headers, the fields are whatever the buffer holds there.       *)
(***************************************************************************)
EXTENDS Integers, Sequences, FiniteSets

CONSTANTS
  Frames,      \* frames the interface may deliver
  MaxFrames,   \* bound: frames delivered in all
  MaxCalls,    \* bound: calls of report_final_stat and reset_stat in all
  WORD         \* 2^32, the width of cap_len; any even bound above the frames will do

Ethers == {"IP", "VLAN", "OTHER"}
Protos == {"TCP", "UDP", "ICMP", "OTHER"}
Versions    == 0..15       \* 4 bits
HeaderBytes == 0..60       \* 4 bits, in words of 4 bytes
Lengths16   == 0..65535    \* 16 bits
FrameType == [cap   : Nat,          \* captured bytes, link header included
              ether : Ethers,       \* ether_type
              ver   : Versions,     \* ip_v
              hl    : HeaderBytes,  \* ip_hl << 2
              sumOK : BOOLEAN,      \* the header checksum is right
              proto : Protos,       \* ip_p
              doff  : HeaderBytes,  \* TCP doff << 2
              total : Lengths16]    \* ip_len

ETH_LEN   == 14
MaxIpSize == 8600     \* the filter in handleRead

ASSUME FrameAssumption == /\ Frames \subseteq FrameType
                          /\ \A f \in Frames : f.cap < WORD \div 2
ASSUME CaptureBounds   == /\ MaxFrames \in Nat
                          /\ MaxCalls \in Nat
                          /\ WORD \in Nat
                          /\ WORD > 2 * (MaxIpSize + ETH_LEN)

\* The checks of decode, in the order of the code, by the status each sets.
Checks == << "NON_IP", "IP_NOT_FULL", "IP_VER_FAIL", "IP_CHKSUM_FAIL",
             "TCP_NOT_FULL", "UDP_NOT_FULL", "ICMP_NOT_FULL" >>
Errors   == { Checks[i] : i \in 1..Len(Checks) }
Statuses == Errors \cup {"VALID", "IP_FRAG"}

-----------------------------------------------------------------------------
(* The decoder.                                                            *)

\* uint32_t arithmetic, and the cast back to int.
Unsigned(n) == n % WORD
Signed(n)   == IF n < WORD \div 2 THEN n ELSE n - WORD

\* A VLAN tag moves the IP header by four bytes.
EthLen(f) == IF f.ether = "VLAN" THEN 18 ELSE ETH_LEN

\* Mutants: no wrap-around; no cast back to int.
IpSize_NoWrap(f)         == f.cap - ETH_LEN
CapturedLen_Unsigned(f)  == Unsigned(f.cap - EthLen(f))

\* p->ipSize, which becomes the length of the content.
IpSize(f) == Unsigned(f.cap - ETH_LEN)

\* (int)len, the bytes captured from the IP header on.
CapturedLen(f) == Signed(Unsigned(f.cap - EthLen(f)))

\* The bytes the headers of a frame take, from the IP header on.
HeadersLen(f) == f.hl + (IF f.proto = "TCP" THEN f.doff ELSE IF f.proto \in {"UDP", "ICMP"} THEN 8 ELSE 0)

L4NotFull(f, proto) == f.proto = proto /\ CapturedLen(f) < HeadersLen(f)

Fails(f, status) ==
  \/ status = "NON_IP"         /\ f.ether = "OTHER"
  \/ status = "IP_NOT_FULL"    /\ CapturedLen(f) < f.hl
  \/ status = "IP_VER_FAIL"    /\ f.ver # 4
  \/ status = "IP_CHKSUM_FAIL" /\ ~f.sumOK
  \/ status = "TCP_NOT_FULL"   /\ L4NotFull(f, "TCP")
  \/ status = "UDP_NOT_FULL"   /\ L4NotFull(f, "UDP")
  \/ status = "ICMP_NOT_FULL"  /\ L4NotFull(f, "ICMP")

\* A later check overwrites the status an earlier one has set.
Status(f) ==
  LET failing == { i \in 1..Len(Checks) : Fails(f, Checks[i]) }
  IN  IF failing = {} THEN "VALID"
      ELSE Checks[CHOOSE i \in failing : \A j \in failing : j <= i]

-----------------------------------------------------------------------------

VARIABLES
  buffer,    \* frames pcap holds and the program has not read
  armed,     \* a read of the descriptor is pending
  failed,    \* history: a read reported an error
  crashed,   \* the process was killed by an invalid access
  cnt,       \* packet_stat: the counter of each status
  tot,       \* packet_stat.tot_pkt_cnt
  seqCount,  \* seq_count
  dealt,     \* tuples given to deal, in order
  arrived,   \* history: frames delivered
  seen,      \* history: frames decoded since the last reset_stat
  reports,   \* history: reports since the last reset_stat
  calls      \* history: calls of report_final_stat and reset_stat

vars == <<buffer, armed, failed, crashed, cnt, tot, seqCount, dealt, arrived, seen, reports, calls>>
stat == <<cnt, tot, seqCount>>

\* What deal sees of a tuple: seq stays 0, and the packet pointer null, when
\* decode gives up early.
Tuple == [frame : Frames, status : Statuses, seq : Nat, ipSize : Nat, null : BOOLEAN]

TypeOK ==
  /\ buffer \in Seq(Frames)
  /\ armed \in BOOLEAN
  /\ failed \in BOOLEAN
  /\ crashed \in BOOLEAN
  /\ cnt \in [Statuses -> Nat]
  /\ tot \in Nat
  /\ seqCount \in Nat
  /\ dealt \in Seq(Tuple)
  /\ arrived \in 0..MaxFrames
  /\ seen \in Seq(Frames)
  /\ reports \in 0..MaxCalls
  /\ calls \in 0..MaxCalls

ZeroStat == [s \in Statuses |-> 0]

Init ==
  /\ buffer = << >>
  /\ armed = TRUE
  /\ failed = FALSE
  /\ crashed = FALSE
  /\ cnt = ZeroStat
  /\ tot = 0
  /\ seqCount = 0
  /\ dealt = << >>
  /\ arrived = 0
  /\ seen = << >>
  /\ reports = 0
  /\ calls = 0

\* The kernel delivers a frame that passed the pcap filter.
Arrive(f) ==
  /\ arrived < MaxFrames
  /\ arrived' = arrived + 1
  /\ buffer' = Append(buffer, f)
  /\ UNCHANGED <<armed, failed, crashed, stat, dealt, seen, reports, calls>>

\* Mutant: numbered by the counter that reset_stat clears.
NextSeq_Total == tot + 1

\* ++seq_count
NextSeq == seqCount + 1

\* decode: the statistics, the sequence number, and the tuple it fills.
Decode(f) ==
  /\ tot' = tot + 1
  /\ cnt' = [cnt EXCEPT ![Status(f)] = @ + 1]
  /\ seqCount' = IF Status(f) = "VALID" THEN NextSeq ELSE seqCount
  /\ seen' = Append(seen, f)

DecodedTuple(f) ==
  [frame |-> f, status |-> Status(f), ipSize |-> IpSize(f),
   seq  |-> IF Status(f) = "VALID" THEN NextSeq ELSE 0,
   null |-> Status(f) # "VALID"]

\* Mutant: the read is not armed again after a packet.
Rearm_Never == armed' = FALSE

\* The asyncRead at the end of handleRead.
Rearm == armed' = TRUE

\* putDataToCache copies ipSize bytes from the packet pointer; a null pointer
\* with anything to copy kills the process.
Faults(t) == t.null /\ t.ipSize > 0

\* handleRead on a readable descriptor: the status decode returns is ignored,
\* only the size keeps a tuple from deal.
HandleRead ==
  /\ armed /\ ~crashed
  /\ buffer # << >>
  /\ LET f == Head(buffer)
         t == DecodedTuple(f)
     IN  /\ Decode(f)
         /\ IF t.ipSize < MaxIpSize
              THEN dealt' = Append(dealt, t) /\ crashed' = Faults(t)
              ELSE UNCHANGED <<dealt, crashed>>
  /\ buffer' = Tail(buffer)
  /\ Rearm
  /\ UNCHANGED <<failed, arrived, reports, calls>>

\* handleRead with an error: it returns without arming the read again.
HandleReadError ==
  /\ armed /\ ~crashed
  /\ armed' = FALSE
  /\ failed' = TRUE
  /\ UNCHANGED <<buffer, crashed, stat, dealt, arrived, seen, reports, calls>>

\* report_final_stat_file: two of the counters are incremented where they are
\* printed, whichever stream the report goes to.
ReportFinalStat ==
  /\ ~crashed /\ calls < MaxCalls
  /\ calls' = calls + 1
  /\ reports' = reports + 1
  /\ cnt' = [cnt EXCEPT !["IP_CHKSUM_FAIL"] = @ + 1, !["IP_FRAG"] = @ + 1]
  /\ UNCHANGED <<buffer, armed, failed, crashed, tot, seqCount, dealt, arrived, seen>>

\* Mutant: one counter is forgotten.
ZeroStat_Partial == [ZeroStat EXCEPT !["VALID"] = cnt["VALID"]]

\* memset of packet_stat.
ClearedStat == ZeroStat

\* reset_stat: seq_count is not part of packet_stat.
ResetStat ==
  /\ ~crashed /\ calls < MaxCalls
  /\ calls' = calls + 1
  /\ reports' = 0
  /\ cnt' = ClearedStat
  /\ tot' = 0
  /\ seen' = << >>
  /\ UNCHANGED <<buffer, armed, failed, crashed, seqCount, dealt, arrived>>

Next == \/ \E f \in Frames : Arrive(f)
        \/ HandleRead
        \/ HandleReadError
        \/ ReportFinalStat
        \/ ResetStat

\* service.run keeps running the handler of a readable descriptor.
Spec == Init /\ [][Next]_vars /\ WF_vars(HandleRead)

-----------------------------------------------------------------------------
(* Properties.                                                             *)

SumOfCounters ==
  cnt["VALID"] + cnt["NON_IP"] + cnt["IP_NOT_FULL"] + cnt["IP_VER_FAIL"] + cnt["IP_CHKSUM_FAIL"]
    + cnt["IP_FRAG"] + cnt["TCP_NOT_FULL"] + cnt["UDP_NOT_FULL"] + cnt["ICMP_NOT_FULL"]

\* Each frame since the last reset is counted once, under one status; each
\* report adds two to the sum.  No other call or order of calls disturbs it.
Accounted == SumOfCounters = tot + 2 * reports /\ tot = Len(seen)

\* Valid frames get consecutive sequence numbers for the life of the process,
\* resets included: a tuple with a number is the only one to have it.
SequenceUnique ==
  \A i, j \in DOMAIN dealt : (dealt[i].seq = dealt[j].seq /\ dealt[i].seq # 0) => i = j

\* A frame shorter than the link header never reaches deal: its size wraps
\* around and fails the filter.
RuntsDropped == \A i \in DOMAIN dealt : dealt[i].frame.cap >= ETH_LEN

\* The headers of a frame decode accepts were captured whole.
HeadersCaptured ==
  \A i \in DOMAIN dealt : ~dealt[i].null =>
    EthLen(dealt[i].frame) + HeadersLen(dealt[i].frame) <= dealt[i].frame.cap

\* The read loop handles every frame unless it met an error or the process died.
Drained == []<>(buffer = << >> \/ failed \/ crashed)

\* What the comments say of packet_stat: a counter is the number of packets
\* with its status.
CountersTrue ==
  \A s \in Statuses : cnt[s] = Cardinality({ i \in DOMAIN seen : Status(seen[i]) = s })

\* What sendPacketTo says of the length it is given, which is that of the Data's
\* content: the length of the IP packet.
ContentIsPacket ==
  \A i \in DOMAIN dealt : ~dealt[i].null => dealt[i].ipSize = dealt[i].frame.total

\* What the comment on deal says: it handles packets that were decoded.
DealtDecoded == \A i \in DOMAIN dealt : dealt[i].status = "VALID"
=============================================================================
