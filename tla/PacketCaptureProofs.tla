------------------------ MODULE PacketCaptureProofs ------------------------
(***************************************************************************)
(* Theorems about PacketCapture for every set of frames below half of the  *)
(* word, every bound and every even word large enough.                     *)
(***************************************************************************)
EXTENDS PacketCapture, TLAPS

-----------------------------------------------------------------------------
(* Unsigned lengths.                                                       *)

\* Nothing wraps when there is nothing to wrap.
LEMMA UnsignedSmall ==
  ASSUME NEW n \in Int, 0 <= n, n < WORD
  PROVE  Unsigned(n) = n
BY CaptureBounds DEF Unsigned

\* A length below zero comes out just below WORD.
LEMMA UnsignedWraps ==
  ASSUME NEW n \in Int, n < 0, 0 <= n + WORD
  PROVE  Unsigned(n) = n + WORD
<1>1. WORD \in Nat /\ WORD > 0
  BY CaptureBounds
<1>2. (n + WORD) % WORD = n + WORD
  BY <1>1
<1>3. (n + WORD) % WORD = n % WORD
  BY <1>1
<1> QED
  BY <1>2, <1>3 DEF Unsigned

LEMMA CapType ==
  ASSUME NEW f \in FrameType
  PROVE  f.cap \in Nat
BY SMT DEF FrameType

\* The size of the content, and the length the header checks use: the former
\* wraps, the latter is cast back.
LEMMA Lengths ==
  ASSUME NEW f \in Frames
  PROVE  /\ f.cap >= ETH_LEN => IpSize(f) = f.cap - ETH_LEN
         /\ f.cap < ETH_LEN => IpSize(f) = f.cap - ETH_LEN + WORD
         /\ CapturedLen(f) = f.cap - EthLen(f)
<1>1. /\ f.cap \in Nat /\ f.cap < WORD \div 2
      /\ WORD \in Nat /\ WORD > 2 * (MaxIpSize + ETH_LEN)
      /\ EthLen(f) \in {14, 18} /\ ETH_LEN = 14 /\ MaxIpSize = 8600
  <2>1. f \in FrameType /\ f.cap < WORD \div 2
    BY FrameAssumption
  <2>2. f.cap \in Nat
    BY <2>1, CapType
  <2>3. EthLen(f) \in {14, 18} /\ ETH_LEN = 14 /\ MaxIpSize = 8600
    BY DEF EthLen, ETH_LEN, MaxIpSize
  <2> QED
    BY <2>1, <2>2, <2>3, CaptureBounds
<1>2. /\ WORD \div 2 \in Nat /\ WORD \div 2 <= WORD - 18
  BY <1>1
<1>3. f.cap >= ETH_LEN => IpSize(f) = f.cap - ETH_LEN
  <2>1. SUFFICES ASSUME f.cap >= ETH_LEN PROVE Unsigned(f.cap - ETH_LEN) = f.cap - ETH_LEN
    BY DEF IpSize
  <2> QED
    BY <1>1, <1>2, <2>1, UnsignedSmall
<1>4. f.cap < ETH_LEN => IpSize(f) = f.cap - ETH_LEN + WORD
  <2>1. SUFFICES ASSUME f.cap < ETH_LEN PROVE Unsigned(f.cap - ETH_LEN) = f.cap - ETH_LEN + WORD
    BY DEF IpSize
  <2> QED
    BY <1>1, <2>1, UnsignedWraps
<1>5. CapturedLen(f) = f.cap - EthLen(f)
  <2> DEFINE n == f.cap - EthLen(f)
  <2>1. n \in Int /\ n < WORD \div 2 /\ n >= 0 - 18
    BY <1>1
  <2> HIDE DEF n
  <2>2. CASE n >= 0
    <3>1. Unsigned(n) = n
      BY <1>1, <1>2, <2>1, <2>2, UnsignedSmall
    <3> QED
      BY <2>1, <3>1 DEF CapturedLen, Signed, n
  <2>3. CASE n < 0
    <3>1. Unsigned(n) = n + WORD
      BY <1>1, <2>1, <2>3, UnsignedWraps
    <3>2. ~(n + WORD < WORD \div 2)
      BY <1>1, <1>2, <2>1
    <3>3. Signed(n + WORD) = n
      BY <1>1, <2>1, <3>2 DEF Signed
    <3> QED
      BY <3>1, <3>3 DEF CapturedLen, n
  <2> QED
    BY <2>1, <2>2, <2>3
<1> QED
  BY <1>3, <1>4, <1>5

-----------------------------------------------------------------------------
(* The decoder's verdict.                                                  *)

\* The verdict is that of the last check that fails.
LEMMA StatusIs ==
  ASSUME NEW f
  PROVE  /\ Status(f) \in Statuses
         /\ Status(f) = "VALID" => \A c \in Errors : ~Fails(f, c)
<1> DEFINE failing == { i \in 1..7 : Fails(f, Checks[i]) }
<1>1. Len(Checks) = 7
  BY DEF Checks
<1>2. Status(f) = IF failing = {} THEN "VALID"
                  ELSE Checks[CHOOSE i \in failing : \A j \in failing : j <= i]
  BY <1>1 DEF Status
<1>3. failing \subseteq 1..7
  OBVIOUS
<1>4. Errors = { Checks[i] : i \in 1..7 }
  BY <1>1 DEF Errors
<1>5. failing = {} => \A c \in Errors : ~Fails(f, c)
  BY <1>4
<1> HIDE DEF failing
<1>6. ASSUME failing # {}
      PROVE  \E i \in failing : \A j \in failing : j <= i
  <2>1. \A j \in failing : j \in {1, 2, 3, 4, 5, 6, 7}
    BY <1>3
  <2>2. CASE 7 \in failing
    BY <2>1, <2>2
  <2>3. CASE 7 \notin failing /\ 6 \in failing
    BY <2>1, <2>3
  <2>4. CASE failing \cap {6, 7} = {} /\ 5 \in failing
    BY <2>1, <2>4
  <2>5. CASE failing \cap {5, 6, 7} = {} /\ 4 \in failing
    BY <2>1, <2>5
  <2>6. CASE failing \cap {4, 5, 6, 7} = {} /\ 3 \in failing
    BY <2>1, <2>6
  <2>7. CASE failing \cap {3, 4, 5, 6, 7} = {} /\ 2 \in failing
    BY <2>1, <2>7
  <2>8. CASE failing \cap {2, 3, 4, 5, 6, 7} = {}
    <3>1. \A j \in failing : j = 1
      BY <2>1, <2>8
    <3> QED
      BY <1>6, <3>1
  <2> QED
    BY <2>2, <2>3, <2>4, <2>5, <2>6, <2>7, <2>8
<1>7. ASSUME failing # {}
      PROVE  Status(f) \in Errors
  <2>1. (CHOOSE i \in failing : \A j \in failing : j <= i) \in 1..7
    BY <1>3, <1>6, <1>7
  <2> QED
    BY <1>2, <1>4, <1>7, <2>1
<1>8. "VALID" \notin Errors
  BY <1>1 DEF Errors, Checks
<1> QED
  BY <1>2, <1>5, <1>7, <1>8 DEF Statuses

\* A frame decode accepts has its headers within the captured bytes.
LEMMA ValidHeaders ==
  ASSUME NEW f \in Frames, Status(f) = "VALID"
  PROVE  EthLen(f) + HeadersLen(f) <= f.cap
<1>1. Errors = { Checks[i] : i \in 1..7 }
  BY DEF Errors, Checks
<1>2. /\ "IP_NOT_FULL" \in Errors /\ "TCP_NOT_FULL" \in Errors
      /\ "UDP_NOT_FULL" \in Errors /\ "ICMP_NOT_FULL" \in Errors
  BY <1>1 DEF Checks
<1>3. /\ ~Fails(f, "IP_NOT_FULL") /\ ~Fails(f, "TCP_NOT_FULL")
      /\ ~Fails(f, "UDP_NOT_FULL") /\ ~Fails(f, "ICMP_NOT_FULL")
  BY <1>2, StatusIs
<1>4. /\ ~(CapturedLen(f) < f.hl)
      /\ f.proto \in {"TCP", "UDP", "ICMP"} => ~(CapturedLen(f) < HeadersLen(f))
  BY <1>3 DEF Fails, L4NotFull
<1>5. f \in FrameType
  BY FrameAssumption
<1>6. f.cap \in Nat /\ f.hl \in Nat /\ f.doff \in Nat
  <2>1. f.hl \in HeaderBytes /\ f.doff \in HeaderBytes
    BY <1>5 DEF FrameType
  <2> QED
    BY <1>5, <2>1, CapType DEF HeaderBytes
<1>7. EthLen(f) \in Nat /\ HeadersLen(f) \in Nat
  BY <1>6 DEF EthLen, ETH_LEN, HeadersLen
<1>8. f.proto \notin {"TCP", "UDP", "ICMP"} => HeadersLen(f) = f.hl
  BY <1>6 DEF HeadersLen
<1>9. ~(CapturedLen(f) < HeadersLen(f))
  BY <1>4, <1>8
<1>10. CapturedLen(f) = f.cap - EthLen(f)
  BY Lengths
<1> QED
  BY <1>6, <1>7, <1>9, <1>10

\* A frame that passes the size filter has a link header.
LEMMA FilteredFrames ==
  ASSUME NEW f \in Frames, IpSize(f) < MaxIpSize
  PROVE  f.cap >= ETH_LEN /\ IpSize(f) \in Nat
<1>1. f.cap \in Nat
  BY FrameAssumption, CapType
<1>2. WORD \in Nat /\ WORD > 2 * (8600 + 14) /\ MaxIpSize = 8600 /\ ETH_LEN = 14
  BY CaptureBounds DEF MaxIpSize, ETH_LEN
<1>3. f.cap >= 14
  BY <1>1, <1>2, Lengths
<1> QED
  BY <1>1, <1>2, <1>3, Lengths

-----------------------------------------------------------------------------
(* The invariant.                                                          *)

\* What is dealt is what decode made of some frame that passed the filter,
\* and the numbers given so far are behind the counter, each given once.
Dealt ==
  /\ dealt \in Seq(Tuple)
  /\ seqCount \in Nat
  /\ \A i \in DOMAIN dealt :
       /\ dealt[i].ipSize = IpSize(dealt[i].frame) /\ dealt[i].ipSize < MaxIpSize
       /\ ~dealt[i].null => Status(dealt[i].frame) = "VALID"
       /\ dealt[i].seq <= seqCount
  /\ SequenceUnique

Buffered == buffer \in Seq(Frames)

LEMMA DealtAppend ==
  ASSUME Dealt, NEW f \in Frames, IpSize(f) < MaxIpSize,
         dealt' = Append(dealt, DecodedTuple(f)),
         seqCount' = IF Status(f) = "VALID" THEN NextSeq ELSE seqCount
  PROVE  Dealt'
<1> DEFINE t == DecodedTuple(f)
<1>1. /\ t.frame = f /\ t.ipSize = IpSize(f)
      /\ t.seq = IF Status(f) = "VALID" THEN seqCount + 1 ELSE 0
      /\ ~t.null => Status(f) = "VALID"
  BY DEF DecodedTuple, NextSeq
<1>2. t \in Tuple
  <2>1. Status(f) \in Statuses /\ IpSize(f) \in Nat /\ seqCount \in Nat
    BY StatusIs, FilteredFrames DEF Dealt
  <2>2. (IF Status(f) = "VALID" THEN NextSeq ELSE 0) \in Nat
    BY <2>1 DEF NextSeq
  <2> QED
    BY <2>1, <2>2 DEF DecodedTuple, Tuple
<1> HIDE DEF t
<1>3. /\ Len(dealt) \in Nat /\ DOMAIN dealt = 1..Len(dealt)
      /\ dealt' \in Seq(Tuple) /\ DOMAIN dealt' = 1..(Len(dealt) + 1)
      /\ \A i \in 1..Len(dealt) : dealt'[i] = dealt[i]
      /\ dealt'[Len(dealt) + 1] = t
  BY <1>2 DEF Dealt, t
<1>4. seqCount \in Nat /\ seqCount' \in Nat /\ seqCount' >= seqCount
  BY DEF Dealt, NextSeq
<1>5. t.seq <= seqCount' /\ (t.seq = 0 \/ t.seq = seqCount + 1)
  BY <1>1, <1>4 DEF NextSeq
<1>6. \A i \in 1..Len(dealt) : dealt[i] \in Tuple /\ dealt[i].seq \in Nat /\ dealt[i].seq <= seqCount
  <2>1. \A i \in 1..Len(dealt) : dealt[i] \in Tuple
    BY <1>3 DEF Dealt
  <2> QED
    BY <1>3, <2>1 DEF Dealt, Tuple
<1>7. SequenceUnique'
  <2>1. SUFFICES ASSUME NEW i \in DOMAIN dealt', NEW j \in DOMAIN dealt',
                        dealt'[i].seq = dealt'[j].seq, dealt'[i].seq # 0
                 PROVE  i = j
    BY DEF SequenceUnique
  <2>2. CASE i \in 1..Len(dealt) /\ j \in 1..Len(dealt)
    BY <1>3, <2>1, <2>2 DEF Dealt, SequenceUnique
  <2>3. CASE i = Len(dealt) + 1 \/ j = Len(dealt) + 1
    BY <1>3, <1>4, <1>5, <1>6, <2>1, <2>3
  <2> QED
    BY <1>3, <2>2, <2>3
<1>8. ASSUME NEW i \in DOMAIN dealt'
      PROVE  /\ dealt'[i].ipSize = IpSize(dealt'[i].frame) /\ dealt'[i].ipSize < MaxIpSize
             /\ ~dealt'[i].null => Status(dealt'[i].frame) = "VALID"
             /\ dealt'[i].seq <= seqCount'
  <2>1. CASE i = Len(dealt) + 1
    BY <1>1, <1>3, <1>5, <2>1
  <2>2. CASE i \in 1..Len(dealt)
    BY <1>3, <1>4, <1>6, <2>2 DEF Dealt
  <2> QED
    BY <1>3, <1>8, <2>1, <2>2
<1> QED
  BY <1>3, <1>4, <1>7, <1>8 DEF Dealt

LEMMA BufferedStep == Buffered /\ [Next]_vars => Buffered'
<1> SUFFICES ASSUME Buffered, [Next]_vars PROVE Buffered'
  OBVIOUS
<1>1. ASSUME NEW f \in Frames, Arrive(f) PROVE Buffered'
  BY <1>1 DEF Buffered, Arrive
<1>2. CASE HandleRead
  BY <1>2 DEF Buffered, HandleRead
<1>3. CASE HandleReadError \/ ReportFinalStat \/ ResetStat \/ UNCHANGED vars
  BY <1>3 DEF Buffered, HandleReadError, ReportFinalStat, ResetStat, vars
<1> QED
  BY <1>1, <1>2, <1>3 DEF Next

LEMMA DealtStep == Buffered /\ Dealt /\ [Next]_vars => Dealt'
<1> SUFFICES ASSUME Buffered, Dealt, [Next]_vars PROVE Dealt'
  OBVIOUS
<1>1. ASSUME UNCHANGED <<dealt, seqCount>> PROVE Dealt'
  BY <1>1 DEF Dealt, SequenceUnique
<1>2. CASE HandleRead
  <2> DEFINE f == Head(buffer)
  <2>1. f \in Frames
    BY <1>2 DEF Buffered, HandleRead
  <2>2. seqCount' = IF Status(f) = "VALID" THEN NextSeq ELSE seqCount
    BY <1>2 DEF HandleRead, Decode
  <2>3. DecodedTuple(f).ipSize = IpSize(f)
    BY DEF DecodedTuple
  <2>4. IF IpSize(f) < MaxIpSize THEN dealt' = Append(dealt, DecodedTuple(f)) ELSE dealt' = dealt
    BY <1>2, <2>3 DEF HandleRead
  <2> HIDE DEF f
  <2>5. CASE IpSize(f) < MaxIpSize
    BY <2>1, <2>2, <2>4, <2>5, DealtAppend
  <2>6. CASE ~(IpSize(f) < MaxIpSize)
    <3>1. dealt' = dealt /\ seqCount' \in Nat /\ seqCount <= seqCount'
      BY <2>2, <2>4, <2>6 DEF Dealt, NextSeq
    <3>2. \A i \in DOMAIN dealt : dealt[i].seq \in Nat
      <4>1. \A i \in DOMAIN dealt : dealt[i] \in Tuple
        BY DEF Dealt
      <4> QED
        BY <4>1 DEF Tuple
    <3>3. \A i \in DOMAIN dealt : dealt[i].seq <= seqCount'
      BY <3>1, <3>2 DEF Dealt
    <3> QED
      BY <3>1, <3>3 DEF Dealt, SequenceUnique
  <2> QED
    BY <2>5, <2>6
<1>3. ASSUME NEW f \in Frames, Arrive(f) PROVE Dealt'
  BY <1>1, <1>3 DEF Arrive, stat
<1>4. CASE HandleReadError \/ ReportFinalStat \/ ResetStat \/ UNCHANGED vars
  BY <1>1, <1>4 DEF HandleReadError, ReportFinalStat, ResetStat, vars, stat
<1> QED
  BY <1>2, <1>3, <1>4 DEF Next

LEMMA DealtInvariant == Spec => []Dealt
<1>1. Init => Buffered /\ Dealt
  BY DEF Init, Buffered, Dealt, SequenceUnique
<1>2. Buffered /\ Dealt /\ [Next]_vars => (Buffered /\ Dealt)'
  BY BufferedStep, DealtStep
<1> QED
  BY <1>1, <1>2, PTL DEF Spec

\* Sequence numbers are never given twice, whatever is reset in between.
THEOREM NumbersUnique == Spec => []SequenceUnique
<1>1. Dealt => SequenceUnique
  BY DEF Dealt
<1> QED
  BY DealtInvariant, <1>1, PTL

\* No frame shorter than the link header reaches deal, for all its size wraps.
THEOREM RuntsAreDropped == Spec => []RuntsDropped
<1>1. Dealt => RuntsDropped
  <2> SUFFICES ASSUME Dealt, NEW i \in DOMAIN dealt
               PROVE  dealt[i].frame.cap >= ETH_LEN
    BY DEF RuntsDropped
  <2>1. dealt[i] \in Tuple
    BY DEF Dealt
  <2>2. dealt[i].frame \in Frames
    BY <2>1 DEF Tuple
  <2>3. IpSize(dealt[i].frame) < MaxIpSize
    BY DEF Dealt
  <2> QED
    BY <2>2, <2>3, FilteredFrames
<1> QED
  BY DealtInvariant, <1>1, PTL

\* The headers of a frame decode accepts were captured whole.
THEOREM HeadersAreCaptured == Spec => []HeadersCaptured
<1>1. Dealt => HeadersCaptured
  <2> SUFFICES ASSUME Dealt, NEW i \in DOMAIN dealt, ~dealt[i].null
               PROVE  EthLen(dealt[i].frame) + HeadersLen(dealt[i].frame) <= dealt[i].frame.cap
    BY DEF HeadersCaptured
  <2>1. dealt[i] \in Tuple
    BY DEF Dealt
  <2>2. dealt[i].frame \in Frames
    BY <2>1 DEF Tuple
  <2>3. Status(dealt[i].frame) = "VALID"
    BY DEF Dealt
  <2> QED
    BY <2>2, <2>3, ValidHeaders
<1> QED
  BY DealtInvariant, <1>1, PTL

-----------------------------------------------------------------------------
(* The statistics.                                                         *)

Counted ==
  /\ cnt \in [Statuses -> Nat] /\ tot \in Nat
  /\ arrived \in 0..MaxFrames
  /\ seen \in Seq(Frames)
  /\ calls \in 0..MaxCalls /\ reports \in 0..calls
  /\ armed \in BOOLEAN /\ failed \in BOOLEAN /\ crashed \in BOOLEAN

LEMMA StatusesAre ==
  Statuses = {"VALID", "NON_IP", "IP_NOT_FULL", "IP_VER_FAIL", "IP_CHKSUM_FAIL",
              "IP_FRAG", "TCP_NOT_FULL", "UDP_NOT_FULL", "ICMP_NOT_FULL"}
<1>1. Errors = { Checks[i] : i \in 1..7 }
  BY DEF Errors, Checks
<1>2. Errors = { Checks[1], Checks[2], Checks[3], Checks[4], Checks[5], Checks[6], Checks[7] }
  BY <1>1
<1> QED
  BY <1>2 DEF Statuses, Checks

\* Counting one packet adds one to the sum of the counters.
LEMMA SumIncreases ==
  ASSUME NEW s \in Statuses, cnt \in [Statuses -> Nat], cnt' = [cnt EXCEPT ![s] = @ + 1]
  PROVE  /\ cnt' \in [Statuses -> Nat]
         /\ SumOfCounters' = SumOfCounters + 1
<1>1. cnt' \in [Statuses -> Nat]
  OBVIOUS
<1>2. \A r \in Statuses : cnt'[r] = IF r = s THEN cnt[r] + 1 ELSE cnt[r]
  OBVIOUS
<1>3. \A r \in Statuses : cnt[r] \in Nat
  OBVIOUS
<1> QED
  BY <1>1, <1>2, <1>3, StatusesAre DEF SumOfCounters

CountInv == Buffered /\ Counted /\ Accounted

LEMMA CountRead ==
  ASSUME CountInv, HandleRead
  PROVE  Counted' /\ Accounted'
<1> DEFINE f == Head(buffer)
<1>1. f \in Frames /\ Status(f) \in Statuses
  BY StatusIs DEF CountInv, Buffered, HandleRead
<1>2. /\ tot' = tot + 1 /\ cnt' = [cnt EXCEPT ![Status(f)] = @ + 1]
      /\ seen' = Append(seen, f)
      /\ UNCHANGED <<failed, arrived, reports, calls>>
  BY DEF HandleRead, Decode
<1> HIDE DEF f
<1>3. cnt' \in [Statuses -> Nat] /\ SumOfCounters' = SumOfCounters + 1
  BY <1>1, <1>2, SumIncreases DEF CountInv, Counted
<1>4. seen' \in Seq(Frames) /\ Len(seen') = Len(seen) + 1
  BY <1>1, <1>2 DEF CountInv, Counted
<1>5. Accounted'
  <2>1. /\ SumOfCounters = tot + 2 * reports /\ tot = Len(seen)
        /\ tot \in Nat /\ reports \in Nat
    BY DEF CountInv, Accounted, Counted
  <2> QED
    BY <1>2, <1>3, <1>4, <2>1 DEF Accounted
<1>6. armed' \in BOOLEAN /\ crashed' \in BOOLEAN
  <2>1. armed' \in BOOLEAN
    BY DEF HandleRead, Rearm
  <2>2. crashed' \in BOOLEAN
    BY DEF HandleRead, Faults, CountInv, Counted
  <2> QED
    BY <2>1, <2>2
<1> QED
  BY <1>2, <1>3, <1>4, <1>5, <1>6 DEF CountInv, Counted

LEMMA CountReport ==
  ASSUME CountInv, ReportFinalStat
  PROVE  Counted' /\ Accounted'
<1>1. cnt \in [Statuses -> Nat] /\ "IP_CHKSUM_FAIL" \in Statuses /\ "IP_FRAG" \in Statuses
  BY StatusesAre DEF CountInv, Counted
<1>2. cnt' = [cnt EXCEPT !["IP_CHKSUM_FAIL"] = @ + 1, !["IP_FRAG"] = @ + 1]
  BY DEF ReportFinalStat
<1>3. cnt' \in [Statuses -> Nat]
  BY <1>1, <1>2
<1>4. \A r \in Statuses : /\ cnt[r] \in Nat
                         /\ cnt'[r] = IF r \in {"IP_CHKSUM_FAIL", "IP_FRAG"} THEN cnt[r] + 1 ELSE cnt[r]
  BY <1>1, <1>2
<1>5. SumOfCounters' = SumOfCounters + 2
  <2>1. /\ cnt'["IP_CHKSUM_FAIL"] = cnt["IP_CHKSUM_FAIL"] + 1
        /\ cnt'["IP_FRAG"] = cnt["IP_FRAG"] + 1
    BY <1>1, <1>4
  <2>2. \A r \in {"VALID", "NON_IP", "IP_NOT_FULL", "IP_VER_FAIL", "TCP_NOT_FULL",
                  "UDP_NOT_FULL", "ICMP_NOT_FULL"} : cnt'[r] = cnt[r]
    BY <1>4, StatusesAre
  <2>3. \A r \in {"VALID", "NON_IP", "IP_NOT_FULL", "IP_VER_FAIL", "IP_CHKSUM_FAIL",
                  "IP_FRAG", "TCP_NOT_FULL", "UDP_NOT_FULL", "ICMP_NOT_FULL"} : cnt[r] \in Nat
    BY <1>4, StatusesAre
  <2> QED
    BY <2>1, <2>2, <2>3 DEF SumOfCounters
<1>6. /\ reports' = reports + 1 /\ calls' = calls + 1 /\ calls < MaxCalls
      /\ UNCHANGED <<tot, seen, armed, failed, crashed, arrived>>
  BY DEF ReportFinalStat
<1>7. Counted'
  BY <1>3, <1>6, CaptureBounds DEF CountInv, Counted
<1>8. Accounted'
  <2>1. /\ SumOfCounters = tot + 2 * reports /\ tot = Len(seen)
        /\ tot \in Nat /\ reports \in Nat
    BY DEF CountInv, Accounted, Counted
  <2> QED
    BY <1>5, <1>6, <2>1 DEF Accounted
<1> QED
  BY <1>7, <1>8

LEMMA ZeroSum ==
  ASSUME cnt = ZeroStat
  PROVE  cnt \in [Statuses -> Nat] /\ SumOfCounters = 0
BY StatusesAre DEF ZeroStat, SumOfCounters

LEMMA CountReset ==
  ASSUME CountInv, ResetStat
  PROVE  Counted' /\ Accounted'
<1>1. /\ cnt' = ZeroStat /\ tot' = 0 /\ reports' = 0 /\ seen' = << >>
      /\ calls' = calls + 1 /\ calls < MaxCalls
      /\ UNCHANGED <<armed, failed, crashed, arrived>>
  BY DEF ResetStat, ClearedStat
<1>2. cnt' \in [Statuses -> Nat]
  BY <1>1 DEF ZeroStat
<1>3. \A r \in Statuses : cnt'[r] = 0
  BY <1>1 DEF ZeroStat
<1>4. SumOfCounters' = 0
  BY <1>3, StatusesAre DEF SumOfCounters
<1>5. Counted'
  BY <1>1, <1>2, CaptureBounds DEF CountInv, Counted
<1>6. Accounted'
  BY <1>1, <1>4 DEF Accounted
<1> QED
  BY <1>5, <1>6

LEMMA CountStep == CountInv /\ [Next]_vars => CountInv'
<1> SUFFICES ASSUME CountInv, [Next]_vars PROVE Counted' /\ Accounted'
  BY BufferedStep DEF CountInv
<1>1. ASSUME UNCHANGED <<cnt, tot, seen, reports>> PROVE Accounted'
  BY <1>1 DEF CountInv, Accounted, SumOfCounters
<1>2. ASSUME NEW f \in Frames, Arrive(f) PROVE Counted' /\ Accounted'
  <2>1. Counted'
    BY <1>2, CaptureBounds DEF CountInv, Counted, Arrive, stat
  <2> QED
    BY <1>1, <1>2, <2>1 DEF Arrive, stat
<1>3. CASE HandleReadError
  <2>1. Counted'
    BY <1>3 DEF CountInv, Counted, HandleReadError, stat
  <2> QED
    BY <1>1, <1>3, <2>1 DEF HandleReadError, stat
<1>4. CASE UNCHANGED vars
  <2>1. Counted'
    BY <1>4 DEF CountInv, Counted, vars, stat
  <2> QED
    BY <1>1, <1>4, <2>1 DEF vars, stat
<1> QED
  BY <1>2, <1>3, <1>4, CountRead, CountReport, CountReset DEF Next

LEMMA CountInit == Init => CountInv
<1> SUFFICES ASSUME Init PROVE CountInv
  OBVIOUS
<1>1. cnt \in [Statuses -> Nat] /\ SumOfCounters = 0
  BY ZeroSum DEF Init
<1>2. Counted
  <2>1. armed \in BOOLEAN /\ failed \in BOOLEAN /\ crashed \in BOOLEAN
    BY DEF Init
  <2>2. /\ tot \in Nat /\ arrived \in 0..MaxFrames /\ seen \in Seq(Frames)
        /\ calls \in 0..MaxCalls /\ reports \in 0..calls
    BY CaptureBounds DEF Init
  <2> QED
    BY <1>1, <2>1, <2>2 DEF Counted
<1>3. Accounted
  BY <1>1 DEF Init, Accounted
<1>4. Buffered
  BY DEF Init, Buffered
<1> QED
  BY <1>2, <1>3, <1>4 DEF CountInv

LEMMA CountInvariant == Spec => []CountInv
BY CountInit, CountStep, PTL DEF Spec

\* Each frame since the last reset is counted once, each report adds two.
THEOREM CountersAccountedFor == Spec => []Accounted
<1>1. CountInv => Accounted
  BY DEF CountInv
<1> QED
  BY CountInvariant, <1>1, PTL

\* Every reachable state is well typed.
THEOREM TypeCorrect == Spec => []TypeOK
<1>1. CountInv /\ Dealt => TypeOK
  BY CaptureBounds DEF CountInv, Counted, Buffered, Dealt, TypeOK
<1> QED
  BY CountInvariant, DealtInvariant, <1>1, PTL

-----------------------------------------------------------------------------
(* The order of what is dealt, and its end.                                *)

\* Numbers are given in the order of dealing: what deal sees without a number
\* in between does not disturb it.
SequenceIncreases ==
  \A i, j \in DOMAIN dealt :
    (i < j /\ dealt[i].seq # 0 /\ dealt[j].seq # 0) => dealt[i].seq < dealt[j].seq

\* Reading ends with an error that was reported, or with the tuple whose null
\* pointer deal follows; that one is the last.
EndsForAReason ==
  /\ armed \/ failed
  /\ crashed => dealt # << >> /\ Faults(dealt[Len(dealt)])
  /\ \A i \in DOMAIN dealt : Faults(dealt[i]) => crashed /\ i = Len(dealt)

LEMMA OrderStep ==
  ASSUME Buffered, Dealt, SequenceIncreases, EndsForAReason, [Next]_vars
  PROVE  SequenceIncreases' /\ EndsForAReason'
<1>1. ASSUME UNCHANGED <<dealt, crashed>>, armed' \/ failed'
      PROVE  SequenceIncreases' /\ EndsForAReason'
  BY <1>1 DEF SequenceIncreases, EndsForAReason, Faults
<1>2. ASSUME HandleRead, IpSize(Head(buffer)) < MaxIpSize
      PROVE  SequenceIncreases' /\ EndsForAReason'
  <2> DEFINE t == DecodedTuple(Head(buffer))
             n == Len(dealt)
  <2>1. /\ t.ipSize = IpSize(Head(buffer)) /\ t.seq \in {0, seqCount + 1}
        /\ dealt' = Append(dealt, t) /\ crashed' = Faults(t)
        /\ armed' /\ ~crashed
    BY <1>2 DEF HandleRead, DecodedTuple, NextSeq, Rearm
  <2> HIDE DEF t
  <2>2. /\ n \in Nat /\ DOMAIN dealt = 1..n /\ DOMAIN dealt' = 1..(n + 1) /\ Len(dealt') = n + 1
        /\ \A i \in 1..n : dealt'[i] = dealt[i]
        /\ dealt'[n + 1] = t
    BY <2>1 DEF Dealt
  <2>3. \A i \in 1..n : dealt[i].seq \in Nat /\ dealt[i].seq <= seqCount /\ seqCount \in Nat
    <3>1. \A i \in 1..n : dealt[i] \in Tuple
      BY <2>2 DEF Dealt
    <3> QED  BY <2>2, <3>1 DEF Dealt, Tuple
  <2>4. \A i \in 1..n : ~Faults(dealt[i])
    BY <2>1, <2>2 DEF EndsForAReason
  <2> HIDE DEF n
  <2>5. SequenceIncreases'
    <3> SUFFICES ASSUME NEW i \in DOMAIN dealt', NEW j \in DOMAIN dealt', i < j,
                        dealt'[i].seq # 0, dealt'[j].seq # 0
                 PROVE  dealt'[i].seq < dealt'[j].seq
      BY DEF SequenceIncreases
    <3>1. CASE j \in 1..n
      BY <2>2, <3>1 DEF SequenceIncreases
    <3>2. CASE j = n + 1
      <4>1. i \in 1..n
        BY <2>2, <3>2
      <4> QED  BY <2>1, <2>2, <2>3, <3>2, <4>1
    <3> QED  BY <2>2, <3>1, <3>2
  <2>6. EndsForAReason'
    <3>1. ASSUME NEW i \in DOMAIN dealt', Faults(dealt'[i]) PROVE crashed' /\ i = Len(dealt')
      <4>1. i = n + 1
        BY <2>2, <2>4, <3>1
      <4> QED  BY <2>1, <2>2, <3>1, <4>1
    <3>2. dealt' # << >> /\ (crashed' => Faults(dealt'[Len(dealt')]))
      BY <2>1, <2>2
    <3> QED  BY <2>1, <3>1, <3>2 DEF EndsForAReason, Faults
  <2> QED  BY <2>5, <2>6
<1>3. ASSUME HandleRead, ~(IpSize(Head(buffer)) < MaxIpSize)
      PROVE  SequenceIncreases' /\ EndsForAReason'
  BY <1>1, <1>3 DEF HandleRead, DecodedTuple, Rearm
<1>4. ASSUME NEW f \in Frames, Arrive(f) PROVE SequenceIncreases' /\ EndsForAReason'
  BY <1>1, <1>4 DEF Arrive, EndsForAReason
<1>5. CASE HandleReadError \/ ReportFinalStat \/ ResetStat \/ UNCHANGED vars
  BY <1>1, <1>5 DEF HandleReadError, ReportFinalStat, ResetStat, vars, EndsForAReason
<1> QED  BY <1>2, <1>3, <1>4, <1>5 DEF Next

LEMMA OrderInvariant == Spec => [](SequenceIncreases /\ EndsForAReason)
<1>1. Init => Buffered /\ Dealt /\ SequenceIncreases /\ EndsForAReason
  BY DEF Init, Buffered, Dealt, SequenceUnique, SequenceIncreases, EndsForAReason
<1>2. ASSUME Buffered, Dealt, SequenceIncreases, EndsForAReason, [Next]_vars
      PROVE  Buffered' /\ Dealt' /\ SequenceIncreases' /\ EndsForAReason'
  BY <1>2, BufferedStep, DealtStep, OrderStep
<1> QED  BY <1>1, <1>2, PTL DEF Spec

\* Valid packets are numbered in the order they are dealt in, across resets of
\* the statistics.
THEOREM NumbersIncrease == Spec => []SequenceIncreases
BY OrderInvariant, PTL

\* handleRead always reads on but for an error; a rejected frame with a content
\* is the last one deal ever sees.
THEOREM LoopEnds == Spec => []EndsForAReason
BY OrderInvariant, PTL
=============================================================================
