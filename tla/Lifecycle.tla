------------------------------ MODULE Lifecycle ------------------------------
(***************************************************************************)
(* The life of one gateway process: main constructs the NDN side and the   *)
(* capture side, binds the tables, starts the NDN thread, captures until a *)
(* read fails, joins and closes.  Any construction may throw or exit, a    *)
(* handler may throw while the NDN thread runs, and processEvents returns  *)
(* when the face has nothing left to wait for.                             *)
(*                                                                         *)
(* What the threads do with packets is in Gateway and PacketCapture; here  *)
(* a dealt frame is one call posted to the NDN thread.                     *)
(***************************************************************************)
EXTENDS Integers, Sequences

CONSTANTS
  NumIps,     \* how many addresses a registerIp list names
  MaxFrames   \* bound: frames captured

ASSUME SizeAssumption == NumIps \in Nat /\ MaxFrames \in Nat

\* What the configuration file may be.  "text" is a registerIp that is a string
\* and not a list, as in config/test1.json: its size is 0.
Configs == {"missing", "badNumber", "badAddress", "text", "list"}

\* start() makes this many setInterestFilter calls for each address.
FiltersPerIp == 4

\* The bind calls of main, in order.
Bindings == << "ndn.cacheHelper", "ndn.pendingInterestMap", "ndn.prefixGuestTable",
               "pcap.cacheHelper", "pcap.pendingInterestTable", "pcap.sequenceTable",
               "pcap.ndnHelper" >>

\* Where main is.  From "ndnHelper" to "assign" it is in a constructor.
Building == {"ndnHelper", "config", "create", "setup", "members", "activate", "filter", "assign"}
Ended    == {"returned", "exited", "aborted"}
Places   == Building \cup Ended \cup
            {"bind", "initNDN", "spawn", "run", "joinNdn", "joinId", "hung", "close", "unwind"}

Objects == {"ndnHelper", "libPcapHelper", "t"}   \* locals of main's try block
Nowhere == "nowhere"
Unset   == "unset"

VARIABLES
  config,      \* the configuration file, fixed
  pc,          \* where main is
  thrownAt,    \* where main was when an exception was thrown, or Nowhere
  built,       \* the objects constructed and not destroyed
  bound,       \* how many of the bind calls were made
  pcap,        \* whether pcap_create gave a handle
  m_pcap,      \* whether PcapHelper's pointer to it is not null
  closes,      \* history: calls of pcap_close
  fd,          \* the duplicate of its descriptor: none, open, closed or leaked
  armed,       \* whether a read is pending on m_socket
  ndn,         \* the NDN thread: none, registering, events or ended
  left,        \* how many addresses start() has not come to yet
  asked,       \* how many filters wait for the forwarder's answer
  registered,  \* how many filters are registered
  posted,      \* calls posted to the face and not run
  awaiting,    \* pre-requests expressed and not timed out
  frames,      \* history: frames dealt
  processEventThreadId   \* NDNHelper's member of that name

\* Variables only the NDN thread changes, and those of capture handle and socket.
ndnVars    == <<ndn, left, asked, registered, awaiting>>
handleVars == <<pcap, m_pcap, closes, fd>>
vars == <<config, pc, thrownAt, built, bound, handleVars, armed,
          ndnVars, posted, frames, processEventThreadId>>

MainOK ==
  /\ config \in Configs
  /\ pc \in Places
  /\ thrownAt \in Places \cup {Nowhere}
  /\ built \in SUBSET Objects
  /\ pcap \in BOOLEAN
  /\ m_pcap \in BOOLEAN
  /\ fd \in {"none", "open", "closed", "leaked"}
  /\ armed \in BOOLEAN
  /\ processEventThreadId = Unset

\* At most four filters are asked for or registered for each address the NDN
\* thread has come to.
CountsOK ==
  /\ bound \in 0..Len(Bindings)
  /\ closes \in Nat
  /\ ndn \in {"none", "registering", "events", "ended"}
  /\ left \in 0..NumIps
  /\ asked \in Nat
  /\ registered \in Nat
  /\ asked + registered <= FiltersPerIp * (NumIps - left)
  /\ posted \in 0..MaxFrames
  /\ awaiting \in 0..MaxFrames
  /\ frames \in 0..MaxFrames

TypeOK == MainOK /\ CountsOK

Init ==
  /\ config \in Configs
  /\ pc = "ndnHelper"
  /\ thrownAt = Nowhere
  /\ built = {}
  /\ bound = 0
  /\ pcap = FALSE
  /\ m_pcap = FALSE
  /\ closes = 0
  /\ fd = "none"
  /\ armed = FALSE
  /\ ndn = "none"
  /\ left = 0
  /\ asked = 0
  /\ registered = 0
  /\ posted = 0
  /\ awaiting = 0
  /\ frames = 0
  /\ processEventThreadId = Unset

Over == pc \in Ended

-----------------------------------------------------------------------------
(* What a step of main comes to.                                           *)

Goes(next) == pc' = next /\ UNCHANGED thrownAt
Throws     == pc' = "unwind" /\ thrownAt' = pc

\* Mutant: the pointer is kept after pcap_close.
PcapClose_KeepsPointer ==
  /\ closes' = IF m_pcap THEN closes + 1 ELSE closes
  /\ UNCHANGED <<pcap, m_pcap>>

\* PcapHelper::close, also its destructor.
PcapClose ==
  /\ closes' = IF m_pcap THEN closes + 1 ELSE closes
  /\ m_pcap' = FALSE
  /\ UNCHANGED pcap

\* m_socket is closed, by LibPcapHelper::close or its destructor.
SocketClose == fd' = IF fd = "open" THEN "closed" ELSE fd

\* LibPcapHelper's constructor throws once its member mPcap is constructed.
ThrowsInBody == Throws /\ PcapClose

-----------------------------------------------------------------------------
(* Construction.                                                           *)

\* RawSocketHelper(): without the right to open a raw socket the process exits.
RawSocketRefused == Goes("exited")

\* NDNHelper(): a raw socket, and a key chain that may throw.
ConstructNdnHelper ==
  /\ pc = "ndnHelper"
  /\ \/ Goes("config") /\ built' = {"ndnHelper"}
     \/ (Throws \/ RawSocketRefused) /\ UNCHANGED built
  /\ UNCHANGED <<config, bound, handleVars, armed, ndnVars, posted, frames, processEventThreadId>>

\* PcapHelper reads the configuration.
ReadConfig ==
  /\ pc = "config"
  /\ \/ config = "missing" /\ Goes("exited")
     \/ config = "badNumber" /\ Throws
     \/ config \notin {"missing", "badNumber"} /\ Goes("create")
  /\ UNCHANGED <<config, built, bound, handleVars, armed, ndnVars, posted, frames, processEventThreadId>>

\* pcap_create; the code tests its result after one more use of the interface.
CreateHandle ==
  /\ pc = "create"
  /\ \/ Goes("setup") /\ pcap' = TRUE /\ m_pcap' = TRUE
     \/ Throws /\ UNCHANGED <<pcap, m_pcap>>
  /\ UNCHANGED <<config, built, bound, closes, fd, armed, ndnVars, posted, frames, processEventThreadId>>

\* Immediate mode, snapshot length, buffer size.  PcapHelper's constructor throws
\* if one is refused; its destructor does not run, so the handle stays open.
SetUpHandle ==
  /\ pc = "setup"
  /\ Goes("members") \/ Throws
  /\ UNCHANGED <<config, built, bound, handleVars, armed, ndnVars, posted, frames, processEventThreadId>>

\* The other members of LibPcapHelper: a raw socket, a pool with its worker.
ConstructMembers ==
  /\ pc = "members"
  /\ \/ (Goes("activate") \/ RawSocketRefused) /\ UNCHANGED <<pcap, m_pcap, closes>>
     \/ ThrowsInBody
  /\ UNCHANGED <<config, built, bound, fd, armed, ndnVars, posted, frames, processEventThreadId>>

\* activate() and setPacketFilter(): every error throws.
PrepareHandle(from, to) ==
  /\ pc = from
  /\ \/ Goes(to) /\ UNCHANGED <<pcap, m_pcap, closes>>
     \/ ThrowsInBody
  /\ UNCHANGED <<config, built, bound, fd, armed, ndnVars, posted, frames, processEventThreadId>>

Activate        == PrepareHandle("activate", "filter")
SetPacketFilter == PrepareHandle("filter", "assign")

\* getFd() duplicates the descriptor and m_socket takes it; then the first read
\* is armed.  If m_socket refuses it, nobody closes the duplicate.
AssignSocket ==
  /\ pc = "assign"
  /\ \/ /\ Goes("bind")
        /\ fd' = "open"
        /\ armed' = TRUE
        /\ built' = built \cup {"libPcapHelper"}
        /\ UNCHANGED <<pcap, m_pcap, closes>>
     \/ /\ ThrowsInBody
        /\ fd' \in {"none", "leaked"}
        /\ UNCHANGED <<armed, built>>
  /\ UNCHANGED <<config, bound, ndnVars, posted, frames, processEventThreadId>>

-----------------------------------------------------------------------------
(* main, from the bind calls to the two threads.                           *)

Bind ==
  /\ pc = "bind"
  /\ bound' = bound + 1
  /\ Goes(IF bound' = Len(Bindings) THEN "initNDN" ELSE "bind")
  /\ UNCHANGED <<config, built, handleVars, armed, ndnVars, posted, frames, processEventThreadId>>

\* initNDN: a list is taken element by element, anything else has size 0.
InitNDN ==
  /\ pc = "initNDN"
  /\ \/ config = "badAddress" /\ Throws /\ UNCHANGED left
     \/ config = "list" /\ Goes("spawn") /\ left' = NumIps
     \/ config = "text" /\ Goes("spawn") /\ left' = 0
  /\ UNCHANGED <<config, built, bound, handleVars, armed, ndn, asked, registered, awaiting,
                 posted, frames, processEventThreadId>>

\* boost::thread t: creating the thread may fail.
SpawnNdnThread ==
  /\ pc = "spawn"
  /\ \/ Goes("run") /\ ndn' = "registering" /\ built' = built \cup {"t"}
     \/ Throws /\ UNCHANGED <<ndn, built>>
  /\ UNCHANGED <<config, bound, handleVars, armed, left, asked, registered, awaiting,
                 posted, frames, processEventThreadId>>

\* Mutant: the constructor runs the service on a thread of its own.
ServiceRuns_Early == "libPcapHelper" \in built

\* Handlers of the capture side run in service.run(), called by start().
ServiceRuns == pc = "run"

\* handleRead: a frame is dealt, its calls posted, the next read armed.
DealFrame ==
  /\ ServiceRuns
  /\ armed
  /\ frames < MaxFrames
  /\ frames' = frames + 1
  /\ posted' = posted + 1
  /\ UNCHANGED <<config, pc, thrownAt, built, bound, handleVars, armed, ndnVars, processEventThreadId>>

\* handleRead with an error, of which the handler only takes note; or deal
\* throws (signing does), and the exception leaves service.run().
ReadFails ==
  /\ pc = "run"
  /\ armed
  /\ armed' = FALSE
  /\ Throws \/ UNCHANGED <<pc, thrownAt>>
  /\ UNCHANGED <<config, built, bound, handleVars, ndnVars, posted, frames, processEventThreadId>>

\* service.run() returns once no read is pending.
ServiceReturns ==
  /\ pc = "run"
  /\ ~armed
  /\ Goes("joinNdn")
  /\ UNCHANGED <<config, built, bound, handleVars, armed, ndnVars, posted, frames, processEventThreadId>>

\* Mutant: main does not wait for the thread.
ThreadJoined_Always == TRUE

\* t.join() returns.
ThreadJoined == ndn = "ended"

JoinNdnThread ==
  /\ pc = "joinNdn"
  /\ ThreadJoined
  /\ Goes("joinId")
  /\ UNCHANGED <<config, built, bound, handleVars, armed, ndnVars, posted, frames, processEventThreadId>>

\* ndnHelper.join(): pthread_join on an id nothing has set.  The call may report
\* an error, which is ignored, crash, or wait for a thread that never ends.
JoinId ==
  /\ pc = "joinId"
  /\ \E next \in {"close", "aborted", "hung"} : Goes(next)
  /\ UNCHANGED <<config, built, bound, handleVars, armed, ndnVars, posted, frames, processEventThreadId>>

\* libPcapHelper.close().
Close ==
  /\ pc = "close"
  /\ Goes("unwind")
  /\ SocketClose
  /\ PcapClose
  /\ UNCHANGED <<config, built, bound, armed, ndnVars, posted, frames, processEventThreadId>>

-----------------------------------------------------------------------------
(* The end of the try block: objects die in the reverse of their order, on *)
(* the way out and on an exception alike.                                  *)

\* Mutant: the destructor waits for the thread.
DestroyThread_Joins ==
  /\ pc = "unwind"
  /\ "t" \in built
  /\ ThreadJoined
  /\ built' = built \ {"t"}
  /\ UNCHANGED <<config, pc, thrownAt, bound, handleVars, armed, ndnVars, posted, frames, processEventThreadId>>

\* A boost::thread that was not joined is detached and goes on.
DestroyThread ==
  /\ pc = "unwind"
  /\ "t" \in built
  /\ built' = built \ {"t"}
  /\ UNCHANGED <<config, pc, thrownAt, bound, handleVars, armed, ndnVars, posted, frames, processEventThreadId>>

\* The pool's idle worker is joined, the socket and the handle are closed; a
\* read still pending is forgotten.
DestroyLibPcapHelper ==
  /\ pc = "unwind"
  /\ "t" \notin built
  /\ "libPcapHelper" \in built
  /\ built' = built \ {"libPcapHelper"}
  /\ armed' = FALSE
  /\ SocketClose
  /\ PcapClose
  /\ UNCHANGED <<config, pc, thrownAt, bound, ndnVars, posted, frames, processEventThreadId>>

DestroyNdnHelper ==
  /\ pc = "unwind"
  /\ built = {"ndnHelper"}
  /\ built' = {}
  /\ UNCHANGED <<config, pc, thrownAt, bound, handleVars, armed, ndnVars, posted, frames, processEventThreadId>>

\* main returns, after printing what() of an exception; the process ends.
Return ==
  /\ pc = "unwind"
  /\ built = {}
  /\ Goes("returned")
  /\ UNCHANGED <<config, built, bound, handleVars, armed, ndnVars, posted, frames, processEventThreadId>>

-----------------------------------------------------------------------------
(* The NDN thread: dealNDN calls NDNHelper::start.  It lives as long as    *)
(* the process does, whatever main is doing.                               *)

MainVars == <<config, thrownAt, built, bound, handleVars, armed, frames, processEventThreadId>>

\* The filters of one address.  A call that throws is noted and ends the
\* address's turn; the filters before it stay.
RegisterAddress ==
  /\ ndn = "registering" /\ ~Over
  /\ left > 0
  /\ left' = left - 1
  /\ \E n \in 0..FiltersPerIp : asked' = asked + n
  /\ UNCHANGED <<MainVars, pc, ndn, registered, awaiting, posted>>

\* An address that makes no name throws outside the try block, and nothing in
\* the thread catches: std::terminate.
BadName ==
  /\ ndn = "registering" /\ ~Over
  /\ left > 0
  /\ pc' = "aborted"
  /\ UNCHANGED <<MainVars, ndnVars, posted>>

ProcessEvents ==
  /\ ndn = "registering" /\ ~Over
  /\ left = 0
  /\ ndn' = "events"
  /\ UNCHANGED <<MainVars, pc, left, asked, registered, awaiting, posted>>

\* Mutant: the call is run and left in the queue.
RunPosted_Kept ==
  /\ ndn = "events" /\ ~Over
  /\ posted > 0
  /\ awaiting' = awaiting + 1
  /\ UNCHANGED <<MainVars, pc, ndn, left, asked, registered, posted>>

\* The calls deal posted for one frame: a Data is put, a pre-request expressed.
RunPosted ==
  /\ ndn = "events" /\ ~Over
  /\ posted > 0
  /\ posted' = posted - 1
  /\ awaiting' = awaiting + 1
  /\ UNCHANGED <<MainVars, pc, ndn, left, asked, registered>>

\* The forwarder registers a filter or refuses; onRegisterFailed only prints.
RegistrationAnswered ==
  /\ ndn = "events" /\ ~Over
  /\ asked > 0
  /\ asked' = asked - 1
  /\ registered' \in {registered, registered + 1}
  /\ UNCHANGED <<MainVars, pc, ndn, left, awaiting, posted>>

\* Nothing answers a pre-request: it is dropped at the end of its lifetime.
PreTimesOut ==
  /\ ndn = "events" /\ ~Over
  /\ awaiting > 0
  /\ awaiting' = awaiting - 1
  /\ UNCHANGED <<MainVars, pc, ndn, left, asked, registered, posted>>

\* A callback throws, or the connection to the forwarder breaks.
EventsThrow ==
  /\ ndn = "events" /\ ~Over
  /\ pc' = "aborted"
  /\ UNCHANGED <<MainVars, ndnVars, posted>>

\* Mutant: the events that are ready are processed, and no more is waited for.
NothingToWaitFor_Polls == posted = 0

\* processEvents returns when no call is queued, no command or interest is
\* pending and no filter is registered.
NothingToWaitFor == posted = 0 /\ awaiting = 0 /\ asked = 0 /\ registered = 0

ProcessEventsReturns ==
  /\ ndn = "events" /\ ~Over
  /\ NothingToWaitFor
  /\ ndn' = "ended"
  /\ UNCHANGED <<MainVars, pc, left, asked, registered, awaiting, posted>>

-----------------------------------------------------------------------------

Construct == \/ ConstructNdnHelper \/ ReadConfig \/ CreateHandle \/ SetUpHandle
             \/ ConstructMembers \/ Activate \/ SetPacketFilter \/ AssignSocket
Start     == Bind \/ InitNDN \/ SpawnNdnThread
Finish    == ServiceReturns \/ JoinNdnThread \/ JoinId \/ Close
Unwind    == DestroyThread \/ DestroyLibPcapHelper \/ DestroyNdnHelper \/ Return
Main      == Construct \/ Start \/ Finish \/ Unwind

Capture == DealFrame \/ ReadFails

Registering == RegisterAddress \/ BadName \/ ProcessEvents
Events      == RunPosted \/ RegistrationAnswered \/ PreTimesOut \/ EventsThrow \/ ProcessEventsReturns

Next == Main \/ Capture \/ Registering \/ Events

\* Threads run.  The forwarder answers a registration, or ndn-cxx times it out;
\* interests have a lifetime.  Frames, failing reads and exceptions need not come.
Fairness ==
  /\ WF_vars(Main)
  /\ WF_vars(Registering)
  /\ WF_vars(RunPosted)
  /\ WF_vars(PreTimesOut)
  /\ WF_vars(RegistrationAnswered)
  /\ WF_vars(ProcessEventsReturns)

Spec == Init /\ [][Next]_vars /\ Fairness

-----------------------------------------------------------------------------
(* Properties.                                                             *)

\* The first read is armed in a constructor, before any table is bound: still
\* no frame is dealt, and no event handled, before all are.
BoundBeforeUse == (frames > 0 \/ ndn # "none") => bound = Len(Bindings)

\* The NDN thread never works on a destroyed NDNHelper, whether construction,
\* configuration or thread creation fails; only an exception out of the capture
\* loop, past t.join(), leaves it running on one.
HelperOutlivesThread ==
  (ndn \in {"registering", "events"} /\ ~Over /\ thrownAt # "run") => "ndnHelper" \in built

\* The handle is closed once, though close() and a destructor both try; when main
\* returns only two failures have left something open: a handle refused its
\* parameters, a descriptor refused by m_socket.
ResourcesReleased ==
  /\ closes <= 1
  /\ pc = "returned" =>
       /\ pcap /\ closes = 0 => thrownAt = "setup"
       /\ fd # "open"
       /\ fd = "leaked" => thrownAt = "assign"

\* The process ends after any exception that reaches main, and after the last
\* read failed: main waits for nothing but an NDN thread that still serves a
\* filter, and may hang in the join of the unset id.
Ends ==
  (thrownAt # Nowhere \/ (pc \in {"run", "joinNdn"} /\ ~armed))
    ~> (Over \/ pc = "hung" \/ (pc = "joinNdn" /\ registered > 0))

\* The calls of each dealt frame are run, however many frames follow, unless the
\* process ends or the NDN thread left the face for lack of any filter: a frame
\* dealt after that is dealt in vain.
PostedRun ==
  \A k \in 1..MaxFrames :
    frames >= k ~> (frames - posted >= k \/ Over \/ (ndn = "ended" /\ registered = 0))

\* ndnHelper.join() joins a thread.
JoinsThread == pc = "joinId" => processEventThreadId # Unset
=============================================================================
