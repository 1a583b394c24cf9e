--------------------------- MODULE LifecycleProofs ---------------------------
(***************************************************************************)
(* Theorems about Lifecycle, for every number of addresses and frames.     *)
(* What is true of the threads, the bindings and the handle depends on how *)
(* far main has come: the invariant says so place by place.                *)
(***************************************************************************)
EXTENDS Lifecycle, TLAPS

Early   == Building \cup {"bind", "initNDN", "spawn"}       \* there is no NDN thread yet
Bound   == {"initNDN", "spawn", "run"}                      \* every bind call was made
Equipped == {"bind", "initNDN", "spawn", "run", "joinNdn", "joinId", "hung", "close"}

\* TypeOK, with what keeps its bounds: a frame is posted or awaited at most
\* once, and nothing is registered before the thread starts.
Sizes ==
  /\ TypeOK
  /\ posted + awaiting <= frames
  /\ ndn = "none" => asked = 0 /\ registered = 0

\* How far the bind calls have come.
BindingsMade ==
  /\ pc \in Building => bound = 0
  /\ pc = "bind" => bound < Len(Bindings)
  /\ pc \in Bound => bound = Len(Bindings)

\* Where an exception may have come from, and the thread not be running.
Threads ==
  /\ pc \notin {"unwind"} \cup Ended => thrownAt = Nowhere
  /\ pc \in Early => ndn = "none"
  /\ pc \in {"joinId", "hung", "close"} => ndn = "ended"
  /\ pc = "unwind" => thrownAt = "run" \/ ndn \in {"none", "ended"}

\* Which objects exist.
ObjectsBuilt ==
  /\ pc \notin {"ndnHelper", "unwind"} \cup Ended => "ndnHelper" \in built
  /\ pc \in Equipped => "libPcapHelper" \in built

\* Who will close what is open.
Handle ==
  /\ m_pcap => pcap
  /\ closes = IF pcap /\ ~m_pcap THEN 1 ELSE 0
  /\ pc \in {"ndnHelper", "config", "create"} => ~pcap
  /\ pc \in Building => fd = "none"
  /\ pc = "unwind" /\ m_pcap => thrownAt = "setup" \/ "libPcapHelper" \in built
  /\ fd = "open" => "libPcapHelper" \in built
  /\ fd = "leaked" => thrownAt = "assign"

IInv == /\ Sizes /\ BindingsMade /\ Threads /\ ObjectsBuilt /\ Handle
        /\ BoundBeforeUse /\ HelperOutlivesThread /\ ResourcesReleased

\* main makes seven bind calls.
LEMMA BindingsLength == Len(Bindings) = 7
BY DEF Bindings

-----------------------------------------------------------------------------
(* Every step keeps each conjunct.                                         *)

LEMMA HandleStep ==
  ASSUME IInv, [Next]_vars PROVE Handle'
<1> USE DEF IInv, Handle, ObjectsBuilt, Threads, Building, Ended, Equipped, Nowhere,
        handleVars, ndnVars
<1>1. CASE Construct
  BY <1>1 DEF Construct, ConstructNdnHelper, ReadConfig, CreateHandle, SetUpHandle,
        ConstructMembers, Activate, SetPacketFilter, AssignSocket, Goes, Throws,
        RawSocketRefused, ThrowsInBody, PcapClose, PrepareHandle
<1>2. CASE Start
  BY <1>2 DEF Start, Bind, InitNDN, SpawnNdnThread, Goes, Throws
<1>3. CASE Finish
  BY <1>3 DEF Finish, ServiceReturns, JoinNdnThread, JoinId, Close, Goes, ThreadJoined,
        SocketClose, PcapClose
<1>4. CASE Unwind
  BY <1>4 DEF Unwind, DestroyThread, DestroyLibPcapHelper, DestroyNdnHelper, Return,
        SocketClose, PcapClose, Goes
<1>5. CASE Capture
  BY <1>5 DEF Capture, DealFrame, ReadFails, ServiceRuns, Throws
<1>6. CASE Registering
  BY <1>6 DEF Registering, RegisterAddress, BadName, ProcessEvents, MainVars
<1>7. CASE Events
  BY <1>7 DEF Events, RunPosted, RegistrationAnswered, PreTimesOut, EventsThrow,
        ProcessEventsReturns, MainVars, NothingToWaitFor
<1>8. CASE UNCHANGED vars
  BY <1>8 DEF vars
<1> QED
  BY <1>1, <1>2, <1>3, <1>4, <1>5, <1>6, <1>7, <1>8 DEF Next, Main

LEMMA BindingsMadeStep ==
  ASSUME IInv, [Next]_vars PROVE BindingsMade'
<1> USE BindingsLength DEF IInv, BindingsMade, Building, Bound, Ended, handleVars, ndnVars,
        Sizes, TypeOK, CountsOK
<1>1. CASE Construct
  BY <1>1 DEF Construct, ConstructNdnHelper, ReadConfig, CreateHandle, SetUpHandle,
        ConstructMembers, Activate, SetPacketFilter, AssignSocket, Goes, Throws,
        RawSocketRefused, ThrowsInBody, PcapClose, PrepareHandle
<1>2. CASE Start
  BY <1>2 DEF Start, Bind, InitNDN, SpawnNdnThread, Goes, Throws
<1>3. CASE Finish
  BY <1>3 DEF Finish, ServiceReturns, JoinNdnThread, JoinId, Close, Goes, ThreadJoined,
        SocketClose, PcapClose
<1>4. CASE Unwind
  BY <1>4 DEF Unwind, DestroyThread, DestroyLibPcapHelper, DestroyNdnHelper, Return,
        SocketClose, PcapClose, Goes
<1>5. CASE Capture
  BY <1>5 DEF Capture, DealFrame, ReadFails, ServiceRuns, Throws
<1>6. CASE Registering
  BY <1>6 DEF Registering, RegisterAddress, BadName, ProcessEvents, MainVars
<1>7. CASE Events
  BY <1>7 DEF Events, RunPosted, RegistrationAnswered, PreTimesOut, EventsThrow,
        ProcessEventsReturns, MainVars, NothingToWaitFor
<1>8. CASE UNCHANGED vars
  BY <1>8 DEF vars
<1> QED
  BY <1>1, <1>2, <1>3, <1>4, <1>5, <1>6, <1>7, <1>8 DEF Next, Main

LEMMA ThreadsStep ==
  ASSUME IInv, [Next]_vars PROVE Threads'
<1> USE DEF IInv, Threads, Building, Early, Ended, Nowhere, Over, handleVars, ndnVars
<1>1. CASE Construct
  BY <1>1 DEF Construct, ConstructNdnHelper, ReadConfig, CreateHandle, SetUpHandle,
        ConstructMembers, Activate, SetPacketFilter, AssignSocket, Goes, Throws,
        RawSocketRefused, ThrowsInBody, PcapClose, PrepareHandle
<1>2. CASE Start
  BY <1>2 DEF Start, Bind, InitNDN, SpawnNdnThread, Goes, Throws
<1>3. CASE Finish
  BY <1>3 DEF Finish, ServiceReturns, JoinNdnThread, JoinId, Close, Goes, ThreadJoined,
        SocketClose, PcapClose
<1>4. CASE Unwind
  BY <1>4 DEF Unwind, DestroyThread, DestroyLibPcapHelper, DestroyNdnHelper, Return,
        SocketClose, PcapClose, Goes
<1>5. CASE Capture
  BY <1>5 DEF Capture, DealFrame, ReadFails, ServiceRuns, Throws
<1>6. CASE Registering
  BY <1>6 DEF Registering, RegisterAddress, BadName, ProcessEvents, MainVars
<1>7. CASE Events
  BY <1>7 DEF Events, RunPosted, RegistrationAnswered, PreTimesOut, EventsThrow,
        ProcessEventsReturns, MainVars, NothingToWaitFor
<1>8. CASE UNCHANGED vars
  BY <1>8 DEF vars
<1> QED
  BY <1>1, <1>2, <1>3, <1>4, <1>5, <1>6, <1>7, <1>8 DEF Next, Main

LEMMA ObjectsBuiltStep ==
  ASSUME IInv, [Next]_vars PROVE ObjectsBuilt'
<1> USE DEF IInv, ObjectsBuilt, Building, Equipped, Ended, Over, handleVars, ndnVars
<1>1. CASE Construct
  BY <1>1 DEF Construct, ConstructNdnHelper, ReadConfig, CreateHandle, SetUpHandle,
        ConstructMembers, Activate, SetPacketFilter, AssignSocket, Goes, Throws,
        RawSocketRefused, ThrowsInBody, PcapClose, PrepareHandle
<1>2. CASE Start
  BY <1>2 DEF Start, Bind, InitNDN, SpawnNdnThread, Goes, Throws
<1>3. CASE Finish
  BY <1>3 DEF Finish, ServiceReturns, JoinNdnThread, JoinId, Close, Goes, ThreadJoined,
        SocketClose, PcapClose
<1>4. CASE Unwind
  BY <1>4 DEF Unwind, DestroyThread, DestroyLibPcapHelper, DestroyNdnHelper, Return,
        SocketClose, PcapClose, Goes
<1>5. CASE Capture
  BY <1>5 DEF Capture, DealFrame, ReadFails, ServiceRuns, Throws
<1>6. CASE Registering
  BY <1>6 DEF Registering, RegisterAddress, BadName, ProcessEvents, MainVars
<1>7. CASE Events
  BY <1>7 DEF Events, RunPosted, RegistrationAnswered, PreTimesOut, EventsThrow,
        ProcessEventsReturns, MainVars, NothingToWaitFor
<1>8. CASE UNCHANGED vars
  BY <1>8 DEF vars
<1> QED
  BY <1>1, <1>2, <1>3, <1>4, <1>5, <1>6, <1>7, <1>8 DEF Next, Main

LEMMA BoundBeforeUseStep ==
  ASSUME IInv, [Next]_vars PROVE BoundBeforeUse'
<1> USE BindingsLength DEF IInv, BoundBeforeUse, BindingsMade, Threads, Bound, Building,
        Early, Ended, handleVars, ndnVars
<1>1. CASE Construct
  BY <1>1 DEF Construct, ConstructNdnHelper, ReadConfig, CreateHandle, SetUpHandle,
        ConstructMembers, Activate, SetPacketFilter, AssignSocket, Goes, Throws,
        RawSocketRefused, ThrowsInBody, PcapClose, PrepareHandle
<1>2. CASE Start
  BY <1>2 DEF Start, Bind, InitNDN, SpawnNdnThread, Goes, Throws
<1>3. CASE Finish
  BY <1>3 DEF Finish, ServiceReturns, JoinNdnThread, JoinId, Close, Goes, ThreadJoined,
        SocketClose, PcapClose
<1>4. CASE Unwind
  BY <1>4 DEF Unwind, DestroyThread, DestroyLibPcapHelper, DestroyNdnHelper, Return,
        SocketClose, PcapClose, Goes
<1>5. CASE Capture
  BY <1>5 DEF Capture, DealFrame, ReadFails, ServiceRuns, Throws
<1>6. CASE Registering
  BY <1>6 DEF Registering, RegisterAddress, BadName, ProcessEvents, MainVars
<1>7. CASE Events
  BY <1>7 DEF Events, RunPosted, RegistrationAnswered, PreTimesOut, EventsThrow,
        ProcessEventsReturns, MainVars, NothingToWaitFor
<1>8. CASE UNCHANGED vars
  BY <1>8 DEF vars
<1> QED
  BY <1>1, <1>2, <1>3, <1>4, <1>5, <1>6, <1>7, <1>8 DEF Next, Main

LEMMA HelperOutlivesThreadStep ==
  ASSUME IInv, [Next]_vars PROVE HelperOutlivesThread'
<1> USE DEF IInv, HelperOutlivesThread, ObjectsBuilt, Threads, Building, Early, Ended,
        Equipped, Nowhere, Over, handleVars, ndnVars
<1>1. CASE Construct
  BY <1>1 DEF Construct, ConstructNdnHelper, ReadConfig, CreateHandle, SetUpHandle,
        ConstructMembers, Activate, SetPacketFilter, AssignSocket, Goes, Throws,
        RawSocketRefused, ThrowsInBody, PcapClose, PrepareHandle
<1>2. CASE Start
  BY <1>2 DEF Start, Bind, InitNDN, SpawnNdnThread, Goes, Throws
<1>3. CASE Finish
  BY <1>3 DEF Finish, ServiceReturns, JoinNdnThread, JoinId, Close, Goes, ThreadJoined,
        SocketClose, PcapClose
<1>4. CASE Unwind
  BY <1>4 DEF Unwind, DestroyThread, DestroyLibPcapHelper, DestroyNdnHelper, Return,
        SocketClose, PcapClose, Goes
<1>5. CASE Capture
  BY <1>5 DEF Capture, DealFrame, ReadFails, ServiceRuns, Throws
<1>6. CASE Registering
  BY <1>6 DEF Registering, RegisterAddress, BadName, ProcessEvents, MainVars
<1>7. CASE Events
  BY <1>7 DEF Events, RunPosted, RegistrationAnswered, PreTimesOut, EventsThrow,
        ProcessEventsReturns, MainVars, NothingToWaitFor
<1>8. CASE UNCHANGED vars
  BY <1>8 DEF vars
<1> QED
  BY <1>1, <1>2, <1>3, <1>4, <1>5, <1>6, <1>7, <1>8 DEF Next, Main

LEMMA ResourcesReleasedStep ==
  ASSUME IInv, [Next]_vars PROVE ResourcesReleased'
<1> USE DEF IInv, ResourcesReleased, Handle, Threads, ObjectsBuilt, Building, Ended,
        Nowhere, handleVars, ndnVars
<1>1. CASE Construct
  BY <1>1 DEF Construct, ConstructNdnHelper, ReadConfig, CreateHandle, SetUpHandle,
        ConstructMembers, Activate, SetPacketFilter, AssignSocket, Goes, Throws,
        RawSocketRefused, ThrowsInBody, PcapClose, PrepareHandle
<1>2. CASE Start
  BY <1>2 DEF Start, Bind, InitNDN, SpawnNdnThread, Goes, Throws
<1>3. CASE Finish
  BY <1>3 DEF Finish, ServiceReturns, JoinNdnThread, JoinId, Close, Goes, ThreadJoined,
        SocketClose, PcapClose
<1>4. CASE Unwind
  BY <1>4 DEF Unwind, DestroyThread, DestroyLibPcapHelper, DestroyNdnHelper, Return,
        SocketClose, PcapClose, Goes
<1>5. CASE Capture
  BY <1>5 DEF Capture, DealFrame, ReadFails, ServiceRuns, Throws
<1>6. CASE Registering
  BY <1>6 DEF Registering, RegisterAddress, BadName, ProcessEvents, MainVars
<1>7. CASE Events
  BY <1>7 DEF Events, RunPosted, RegistrationAnswered, PreTimesOut, EventsThrow,
        ProcessEventsReturns, MainVars, NothingToWaitFor
<1>8. CASE UNCHANGED vars
  BY <1>8 DEF vars
<1> QED
  BY <1>1, <1>2, <1>3, <1>4, <1>5, <1>6, <1>7, <1>8 DEF Next, Main


\* The types of main's variables.
LEMMA MainTypes ==
  ASSUME IInv, [Next]_vars PROVE MainOK'
<1> USE DEF IInv, Sizes, TypeOK, MainOK, Building, Ended, Places, handleVars, ndnVars
<1>1. CASE Construct
  <2>1. CASE ConstructNdnHelper
    BY <2>1 DEF ConstructNdnHelper, Goes, Throws, RawSocketRefused, Objects
  <2>2. CASE ReadConfig \/ SetUpHandle
    BY <2>2 DEF ReadConfig, SetUpHandle, Goes, Throws
  <2>3. CASE CreateHandle
    BY <2>3 DEF CreateHandle, Goes, Throws
  <2>4. CASE ConstructMembers
    BY <2>4 DEF ConstructMembers, Goes, Throws, ThrowsInBody, PcapClose, RawSocketRefused
  <2>5. CASE Activate \/ SetPacketFilter
    BY <2>5 DEF Activate, SetPacketFilter, PrepareHandle, Goes, Throws, ThrowsInBody, PcapClose
  <2>6. CASE AssignSocket
    BY <2>6 DEF AssignSocket, Goes, Throws, ThrowsInBody, PcapClose, Objects
  <2> QED  BY <1>1, <2>1, <2>2, <2>3, <2>4, <2>5, <2>6 DEF Construct
<1>2. CASE Start
  <2>1. CASE Bind
    BY <2>1 DEF Bind, Goes
  <2>2. CASE InitNDN
    BY <2>2 DEF InitNDN, Goes, Throws
  <2>3. CASE SpawnNdnThread
    BY <2>3 DEF SpawnNdnThread, Goes, Throws, Objects
  <2> QED  BY <1>2, <2>1, <2>2, <2>3 DEF Start
<1>3. CASE Finish
  BY <1>3 DEF Finish, ServiceReturns, JoinNdnThread, JoinId, Close, Goes, SocketClose, PcapClose
<1>4. CASE Unwind
  BY <1>4 DEF Unwind, DestroyThread, DestroyLibPcapHelper, DestroyNdnHelper, Return, Goes,
        SocketClose, PcapClose
<1>5. CASE Capture
  BY <1>5 DEF Capture, DealFrame, ReadFails, Throws
<1>6. CASE Registering
  BY <1>6 DEF Registering, RegisterAddress, BadName, ProcessEvents, MainVars
<1>7. CASE Events
  BY <1>7 DEF Events, RunPosted, RegistrationAnswered, PreTimesOut, EventsThrow,
        ProcessEventsReturns, MainVars
<1>8. CASE UNCHANGED vars
  BY <1>8 DEF vars
<1> QED
  BY <1>1, <1>2, <1>3, <1>4, <1>5, <1>6, <1>7, <1>8 DEF Next, Main

\* The counts and their sum; the number of pcap_close calls follows from Handle.
LEMMA SizesStep ==
  ASSUME IInv, [Next]_vars PROVE Sizes'
<1> USE SizeAssumption DEF IInv, Sizes, TypeOK, CountsOK, ndnVars
<1>a. MainOK'
  BY MainTypes
<1>b. closes' \in Nat
  BY HandleStep DEF Handle
<1>1. CASE Construct
  BY <1>1, <1>a, <1>b DEF Construct, ConstructNdnHelper, ReadConfig, CreateHandle, SetUpHandle,
        ConstructMembers, Activate, SetPacketFilter, AssignSocket, PrepareHandle
<1>2. CASE Start
  <2>1. CASE Bind
    BY <1>a, <1>b, <2>1 DEF Bind, BindingsMade
  <2>2. CASE InitNDN
    BY <1>a, <1>b, <2>2 DEF InitNDN, Threads, Early, FiltersPerIp
  <2>3. CASE SpawnNdnThread
    BY <1>a, <1>b, <2>3 DEF SpawnNdnThread, Threads, Early
  <2> QED  BY <1>2, <2>1, <2>2, <2>3 DEF Start
<1>3. CASE Finish
  BY <1>3, <1>a, <1>b DEF Finish, ServiceReturns, JoinNdnThread, JoinId, Close
<1>4. CASE Unwind
  BY <1>4, <1>a, <1>b DEF Unwind, DestroyThread, DestroyLibPcapHelper, DestroyNdnHelper, Return
<1>5. CASE Capture
  <2>1. CASE DealFrame
    BY <1>a, <1>b, <2>1 DEF DealFrame
  <2>2. CASE ReadFails
    BY <1>a, <1>b, <2>2 DEF ReadFails
  <2> QED  BY <1>5, <2>1, <2>2 DEF Capture
<1>6. CASE Registering
  <2>1. CASE RegisterAddress
    BY <1>a, <1>b, <2>1 DEF RegisterAddress, FiltersPerIp, MainVars
  <2>2. CASE BadName \/ ProcessEvents
    BY <1>a, <1>b, <2>2 DEF BadName, ProcessEvents, MainVars
  <2> QED  BY <1>6, <2>1, <2>2 DEF Registering
<1>7. CASE Events
  <2>1. CASE RunPosted
    BY <1>a, <1>b, <2>1 DEF RunPosted, MainVars
  <2>2. CASE RegistrationAnswered
    <3>1. registered' = registered \/ registered' = registered + 1
      BY <2>2 DEF RegistrationAnswered
    <3>2. /\ asked > 0 /\ asked' = asked - 1
          /\ UNCHANGED <<bound, ndn, left, awaiting, posted, frames>> /\ ndn = "events"
      BY <2>2 DEF RegistrationAnswered, MainVars
    <3>3. CountsOK'
      BY <1>b, <3>1, <3>2 DEF FiltersPerIp
    <3> QED  BY <1>a, <3>2, <3>3
  <2>3. CASE PreTimesOut
    BY <1>a, <1>b, <2>3 DEF PreTimesOut, MainVars
  <2>4. CASE EventsThrow \/ ProcessEventsReturns
    BY <1>a, <1>b, <2>4 DEF EventsThrow, ProcessEventsReturns, MainVars
  <2> QED  BY <1>7, <2>1, <2>2, <2>3, <2>4 DEF Events
<1>8. CASE UNCHANGED vars
  BY <1>8, <1>a, <1>b DEF vars
<1> QED
  BY <1>1, <1>2, <1>3, <1>4, <1>5, <1>6, <1>7, <1>8 DEF Next, Main

-----------------------------------------------------------------------------

LEMMA InitInvariant == Init => IInv
<1> SUFFICES ASSUME Init PROVE IInv
  OBVIOUS
<1> USE DEF Init
<1>1. MainOK
  BY DEF MainOK, Configs, Places, Building, Objects, Nowhere
<1>2. CountsOK
  BY BindingsLength, SizeAssumption DEF CountsOK, FiltersPerIp
<1>3. Sizes
  BY <1>1, <1>2 DEF Sizes, TypeOK
<1>4. BindingsMade /\ Threads /\ ObjectsBuilt /\ Handle
  BY DEF BindingsMade, Threads, ObjectsBuilt, Handle, Bound, Equipped, Nowhere
<1>5. BoundBeforeUse /\ HelperOutlivesThread /\ ResourcesReleased
  BY DEF BoundBeforeUse, HelperOutlivesThread, ResourcesReleased
<1> QED
  BY <1>3, <1>4, <1>5 DEF IInv

LEMMA StepInvariant == IInv /\ [Next]_vars => IInv'
BY HandleStep, BindingsMadeStep, ThreadsStep, ObjectsBuiltStep, BoundBeforeUseStep,
   HelperOutlivesThreadStep, ResourcesReleasedStep, SizesStep DEF IInv

LEMMA Invariant == Spec => []IInv
BY InitInvariant, StepInvariant, PTL DEF Spec

\* Every variable keeps its type; at most four filters are asked for or
\* registered for each address start() has come to, and at most one call is
\* posted, and one pre-request awaited, for each frame.
THEOREM TypeCorrect == Spec => []TypeOK
<1>1. IInv => TypeOK  BY DEF IInv, Sizes
<1> QED  BY <1>1, Invariant, PTL

\* The read armed by LibPcapHelper's constructor is served, and the NDN thread
\* works, only once main has made all its bind calls.
THEOREM TablesBound == Spec => []BoundBeforeUse
<1>1. IInv => BoundBeforeUse  BY DEF IInv
<1> QED  BY <1>1, Invariant, PTL

\* Whatever constructor, configuration or thread creation fails, main destroys
\* NDNHelper only under an NDN thread it never started or has joined; the
\* exception is one out of the capture loop.
THEOREM HelperOutlives == Spec => []HelperOutlivesThread
<1>1. IInv => HelperOutlivesThread  BY DEF IInv
<1> QED  BY <1>1, Invariant, PTL

\* close() and the destructors never close the handle twice, and leave open only
\* what a throw in PcapHelper's constructor or in assign leaves.
THEOREM Released == Spec => []ResourcesReleased
<1>1. IInv => ResourcesReleased  BY DEF IInv
<1> QED  BY <1>1, Invariant, PTL

-----------------------------------------------------------------------------
(* The pending read.                                                       *)

\* A read is pending only on a descriptor that is open, of a handle that is.
ReadsOpenHandle == armed => m_pcap /\ fd = "open"

\* Why: a handle lives from pcap_create on, a read is armed as the last step of
\* construction, and main closes only after the read has failed.
Reading ==
  /\ ReadsOpenHandle
  /\ pc \in Building \ {"ndnHelper", "config", "create"} => m_pcap
  /\ pc \in Building \cup {"joinNdn", "joinId", "hung", "close"} => ~armed

LEMMA ReadingStep ==
  ASSUME Reading, [Next]_vars PROVE Reading'
<1> USE DEF Reading, ReadsOpenHandle, Building, Ended, handleVars, ndnVars
<1>1. CASE Construct
  BY <1>1 DEF Construct, ConstructNdnHelper, ReadConfig, CreateHandle, SetUpHandle,
        ConstructMembers, Activate, SetPacketFilter, AssignSocket, Goes, Throws,
        RawSocketRefused, ThrowsInBody, PcapClose, PrepareHandle
<1>2. CASE Start
  BY <1>2 DEF Start, Bind, InitNDN, SpawnNdnThread, Goes, Throws
<1>3. CASE Finish
  BY <1>3 DEF Finish, ServiceReturns, JoinNdnThread, JoinId, Close, Goes, ThreadJoined,
        SocketClose, PcapClose
<1>4. CASE Unwind
  BY <1>4 DEF Unwind, DestroyThread, DestroyLibPcapHelper, DestroyNdnHelper, Return,
        SocketClose, PcapClose, Goes
<1>5. CASE Capture
  BY <1>5 DEF Capture, DealFrame, ReadFails, ServiceRuns, Throws
<1>6. CASE Registering
  BY <1>6 DEF Registering, RegisterAddress, BadName, ProcessEvents, MainVars
<1>7. CASE Events
  BY <1>7 DEF Events, RunPosted, RegistrationAnswered, PreTimesOut, EventsThrow,
        ProcessEventsReturns, MainVars, NothingToWaitFor
<1>8. CASE UNCHANGED vars
  BY <1>8 DEF vars
<1> QED
  BY <1>1, <1>2, <1>3, <1>4, <1>5, <1>6, <1>7, <1>8 DEF Next, Main

\* Closing on the regular way, in a destructor or on an exception never leaves a
\* read of the closed descriptor pending.
THEOREM ReadsOpen == Spec => []ReadsOpenHandle
<1>1. Init => Reading
  BY DEF Init, Reading, ReadsOpenHandle
<1>2. Reading => ReadsOpenHandle
  BY DEF Reading
<1> QED  BY <1>1, <1>2, ReadingStep, PTL DEF Spec

\* A frame is read, and its packet dealt, only through an open handle.
DealsOnOpenHandle == [][frames' # frames => m_pcap /\ fd = "open"]_vars

\* handleRead never deals a packet read through a handle that was closed.
THEOREM DealsOpen == Spec => DealsOnOpenHandle
<1>1. ReadsOpenHandle /\ [Next]_vars => [frames' # frames => m_pcap /\ fd = "open"]_vars
  <2> SUFFICES ASSUME ReadsOpenHandle, [Next]_vars, frames' # frames
               PROVE  m_pcap /\ fd = "open"
    OBVIOUS
  <2>1. DealFrame
    BY DEF Next, Main, Construct, ConstructNdnHelper, ReadConfig, CreateHandle, SetUpHandle,
           ConstructMembers, Activate, SetPacketFilter, AssignSocket, PrepareHandle, Start, Bind,
           InitNDN, SpawnNdnThread, Finish, ServiceReturns, JoinNdnThread, JoinId, Close, Unwind,
           DestroyThread, DestroyLibPcapHelper, DestroyNdnHelper, Return, Capture, ReadFails,
           Registering, RegisterAddress, BadName, ProcessEvents, Events, RunPosted,
           RegistrationAnswered, PreTimesOut, EventsThrow, ProcessEventsReturns, MainVars, vars
  <2> QED  BY <2>1 DEF DealFrame, ReadsOpenHandle
<1> QED  BY <1>1, ReadsOpen, PTL DEF Spec, DealsOnOpenHandle
=============================================================================
