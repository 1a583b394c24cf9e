# Verification of ip-ndn-stack

ip-ndn-stack carries IP packets over a Named Data Networking (NDN) network.
Every site runs one process, a *gateway*. It captures the packets its hosts
send, publishes each as a piece of named Data, and announces it to the
destination's gateway with a *pre-request*; that gateway asks for the Data by
name and hands the content to a raw socket. This directory holds TLA+
modules that model the gateways, TLC configurations that check them on small
instances, and proofs, checked by TLAPS, of what holds for every instance.

Paths such as `NDNHelper.cpp:147` are relative to `src/helper/`,
`packet.cpp:194` to `src/libpcapcapture/`.

## 1. The system: inventory

| Component | State | Operations | Talks to |
|---|---|---|---|
| Capture loop (`LibPcapHelper::asyncRead`, `handleRead`, `PcapHelper`) | a pending read, pcap's buffer | arm a read, read and decode one frame, filter by size | kernel, decoder, `deal` |
| Decoder (`packet.cpp`) | `packet_stat`, `seq_count` (globals) | `decode`, `report_final_stat`, `reset_stat` | the capture loop |
| Capture thread (`LibPcapHelper::deal`) | `sequenceTable`: last number per flow | number a TCP or UDP packet (first, later), name any other by a uuid; publish; announce | face (calls are posted) |
| NDN thread (`NDNHelper`) | `prefixGuestTable`, the face's pending interests | posted `put` and `expressInterest`; `onInterest`, `onData`, `onTimeout`, `onNack` | NDN forwarders, raw socket |
| Names (`buildName`, `dealOnInterest`, `dealOnData`) | none | build the four kinds of name; derive the data name of a pre-request, guessed names, the target address | all of the above |
| Tables (`MapCacheHelper`, `SetHelper`) | a map or a set, with a mutex | `save`, `get`, `erase`, `getAndIncreaseSequence`; `saveConcurrence`, `find`, `erase` | both threads, each table from one |
| Thread pool (`ThreadPool.h`) | task queue, `stop`, workers | `enqueue`, worker loop, destructor | nothing: its only use is commented out (`LibPcapHelper.cpp:56`) |
| Process (`main.cpp`, the constructors) | which objects exist, the pcap handle and its descriptor, the two threads | construct, bind the tables, start, join, close, destroy, on the regular way and after an exception | all |
| Raw socket | a descriptor | constructor (ends the process if refused), `sendPacketTo` | both helpers construct one |
| Configuration (`JSONCPPHelper`) | a JSON tree | read a file, read a value | `PcapHelper`, `NDNHelper::initNDN` |
| Utilities of the capture library | none | format a time, log | not built |

What makes it hard:

* *Two threads on one face.* `deal` runs on the capture thread, the face on the
  NDN thread. ndn-cxx posts the calls, so they take effect later, in order.
* *A network in between.* Pre-requests, requests and Data may be late, lost,
  reordered, timed out or evicted. Nothing in the code retries.
* *Guessing.* To hide a round trip, a pre-request for number *s* of a flow makes
  the destination ask for *s+1 .. s+NUM_OF_GUEST* too, unless
  `prefixGuestTable` says it has. A name leaves the table when its own
  pre-request arrives, so late pre-requests make names be guessed again.
* *Lifetimes.* Every interest lives two seconds (`NDNHelper.cpp:212`). A guess for a
  packet the host has not sent by then is gone, `onTimeout` does nothing about it, and
  its entry in the table keeps the gateway from guessing the name again.
* *Restarts.* Tables live in memory. A restarted gateway gives the names of its
  first life to new packets, while old Data sit in the forwarders' stores.
* *Start and end.* The constructor arms the first read before the tables are
  bound; every constructor may throw half-way; an exception out of the capture
  loop skips the join of the NDN thread; `processEvents` returns when the face
  has nothing to wait for; `NDNHelper::join` joins an id nobody set.
* *A number with three types.* `int` in the table, `unsigned` in the tuple, text in
  the name, `int` again at the receiver.
* *Unsigned arithmetic* on lengths that come from the wire, and a decoder whose
  verdict is ignored.

What makes each component correct, in one line: what comes out was captured and
comes out where its header says (tunnel); numbers without gaps or repeats
(capture thread); a bounded number of guesses and copies (NDN thread); no frame
whose headers were not captured is published as valid, and the statistics add
up (decoder); the loop keeps reading (capture loop); what is used exists, what
is opened is closed once, what must end does (process); no task or wakeup lost
(pool). `PROJECT.json` lists the hazards line by line.

## 2. Modules

| Module | What it is |
|---|---|
| `Names` | Names as sequences of components: `BuildName`, `NextName`, `GuessNames`, `TargetIp`, the filters |
| `Gateway` | The core: any number of gateways and the NDN network between them. Extends `Names` |
| `PacketTunnel` | Abstract specification of what gateways promise together; `Gateway!ImplementsTunnel` instantiates it |
| `GatewayProofs` | Theorems about `Gateway`: types, guesses, copies per request, the tunnel |
| `AnnouncementProofs` | Theorems about what `Gateway` publishes and announces. Extends `GatewayProofs` |
| `Delivery` | `Gateway` when the network loses nothing but pre-requests and guesses expire, with fairness. Extends `Gateway` |
| `DeliveryProofs` | Theorems about `Delivery`: nothing captured is forgotten, and no guess before it expires. Extends `Delivery`, `AnnouncementProofs` |
| `FlowNumbers` | The numbers of one flow in words of limited width |
| `FlowNumbersProofs` | Theorems about `FlowNumbers` |
| `Lifecycle` | One process from the first constructor to the end of `main` |
| `LifecycleProofs` | Theorems about `Lifecycle` |
| `PacketCapture` | From a frame in pcap's buffer to `deal`: read loop, decoder, statistics |
| `PacketCaptureProofs` | Theorems about `PacketCapture` |
| `ThreadPool` | `ThreadPool.h`: workers, enqueuing threads, destructor |
| `TaskExecutor` | Abstract specification of a pool; `ThreadPool!ImplementsExecutor` instantiates it |
| `ThreadPoolProofs` | Theorems about `ThreadPool` |
| `MCGateway`, `MCDelivery`, `MCFlowNumbers`, `MCLifecycle`, `MCPacketCapture`, `MCThreadPool` | Constants of the small instances |

Operators named `X_Something` next to an operator `X` are mutants: what a
plausible mistake would make of `X`. No specification uses them; for each
property of each run one of them shows that the property would notice.

### Gateway

| Variable | Code |
|---|---|
| `sequenceTable[g][k]` | `sequenceTable` of gateway g, key `build4TupleKey`; `Absent` for no entry |
| `posted[g]` | calls on `face` from the capture thread that the io_service has queued |
| `guest[g]` | `prefixGuestTable` |
| `pending[g][r]` | interests for Data in the face, counted; `isTCP` is the flag bound into their callback |
| `stored`, `pre` | external: Data in the forwarders' content stores; copies of pre-requests on their way |
| `captured`, `published`, `injected`, `pulled`, `guessed`, `copies`, `restarts`, `ncaptured` | history: read only by properties and bounds |

| Action | Code |
|---|---|
| `DealFirst`, `DealNext`, `DealOther` | the three branches of `deal` (`LibPcapHelper.cpp:98-144`); one step each, as the tables they touch are the capture thread's own |
| `FacePut`, `FaceExpress` | the NDN thread runs a posted call |
| `DealPreTcp`, `DealPreOther` | `dealOnInterest` for a pre-request of either kind |
| `OnData` | `dealOnData`, for every pending interest the Data answers |
| `OnTimeoutOrNack` | `onTimeout`, `onNack`: both empty |
| `LosePre`, `Evict` | external: the network |
| `Restart` | the process ends and `main` runs again |

Assumptions on what is outside the repository: the forwarders admit the Data a
face puts unsolicited into their stores (the design relies on it, as no interest
filter answers a request for Data); the calls a face receives from another
thread are posted to its io_service in order; a prefix registered with
`registerIp` attracts the interests below it. Packets between two hosts of one
gateway are left out (`KeyAssumption`). Most configuration files would capture them
(`config/part1.json` and `config/node3.json` filter on the protocol only), but their
pre-request would have to come back to the face that expressed it, which a forwarder
does not do: they are numbered and published, and nobody asks for them. A Data may answer a request
only while it is stored. That is weaker than NDN, where a Data on its way is
also cached: `Evict` stands for both. Addresses and ports are opaque. The code
converts ports to host order twice (`packet.cpp:344`, `NDNHelper.cpp:246`) on
both the numbering key and the names, which renames ports one to one.

### Delivery

`DeliveryNext` is the system of `Gateway`, unchanged, with one fault of the network
and one end the program itself sets. `Lose(n)` is `LosePre(n)` and records `n` in `lost`.
`Expire(g, n)` is `OnTimeoutOrNack` for a request of the numbered name `n`: the
lifetime of a guess ends, at any time after it was expressed, before its Data is
published or after. When no request for the name is left, `expired` records it until the
name is asked for again; the entry in `guest` stays, as in the code. Each gateway's NDN
thread is fair; nothing makes a guess expire.

The module asks what the gateways deliver when nothing but pre-requests is lost
on the way. So the request for an *announced* Data does not expire: when its pre-request
arrives, the Data is in the stores (`PreFollowsData`), and forwarders that lose nothing
answer within two seconds. That is the guard of `Expire`: the name was not announced yet,
or another request for it is left, or its content is out. Requests for announced Data
that time out are in `Gateway`. `InHand(d)` says what may still bring a Data out: its
posted pre-request, one on its way, or the request made because of it, which the stores
can answer. A guess is not counted on.

### FlowNumbers

`Gateway` counts packets without a limit; this module keeps the numbers of one
flow as the machine does. `MaxInt` is the largest `int`, `Word` the number of values
of an `unsigned`.

| Variable, operator | Code |
|---|---|
| `present`, `value` | the flow's entry of `sequenceTable` |
| `published` | history: the uid of each packet's name, split as the receiver splits it |
| `onWay`, `guest`, `asked`, `answered` | pre-requests on their way, `prefixGuestTable`, history of requests and answers |
| `ToUnsigned`, `ToInt` | `tuple->index = ...`, and the `int` parameter of `buildName` |
| `Digits`, `Parses` | `to_string` and the split on `-`: a sign makes an empty field, on which `lexical_cast<int>` throws |
| `DealFirst`, `DealNext` | the first and the later packets; the latter is `getAndIncreaseSequence`: get, erase, save |
| `DealOnInterest`, `DealOnInterestThrows` | `dealOnInterest` for a number that parses, and for one that does not: the request is made, then the exception leaves the callback, and as nothing on the thread catches it the process ends |

Overflow of a signed sum is taken to wrap: each is stored to an `int`, or printed
as one, at once.

### Lifecycle

`pc` is where `main` is, in a constructor or between them; `built` the locals of
the try block that exist. The NDN thread is `ndn`, with the filters it has still
to set (`left`), has asked for (`asked`) and has (`registered`). `pcap`, `m_pcap` and
`closes` are the handle, the pointer to it and the calls of `pcap_close`; `fd` the
duplicated descriptor. A dealt frame is one posted call; its pre-request waits
(`awaiting`) until it times out, as nothing answers it.

| Action | Code |
|---|---|
| `ConstructNdnHelper`, `ReadConfig`, `CreateHandle`, `SetUpHandle` | `NDNHelper()`, `PcapHelper()`; each may throw, a raw socket or a missing file ends the process |
| `ConstructMembers`, `Activate`, `SetPacketFilter`, `AssignSocket` | `LibPcapHelper()`; from here on the destructor of its member closes the handle on an exception |
| `Bind`, `InitNDN`, `SpawnNdnThread` | `main`, up to the two threads |
| `DealFrame`, `ReadFails`, `ServiceReturns` | `service.run()` |
| `JoinNdnThread`, `JoinId`, `Close` | `t.join()`, `ndnHelper.join()`, `libPcapHelper.close()` |
| `DestroyThread`, `DestroyLibPcapHelper`, `DestroyNdnHelper`, `Return` | the end of the try block, in reverse order of construction |
| `RegisterAddress`, `BadName`, `ProcessEvents` | the loop of `NDNHelper::start` |
| `RunPosted`, `RegistrationAnswered`, `PreTimesOut`, `EventsThrow`, `ProcessEventsReturns` | `processEvents` |

`config` is what reading the configuration file may come to: no file, a number that
is none, an address that is none, a `registerIp` that is text (as in `config/test1.json`
and `config/test2.json`: `initNDN` then registers nothing), or a list. Assumed of
ndn-cxx: `processEvents` returns when no call is queued, no command and no interest
is pending and no filter is registered. `pthread_join` of the unset id may return an
error, crash, or wait for ever: all three are in `JoinId`.

### PacketCapture

A frame is a record of what `decode` reads. `Status` applies the checks
in order, a later one overwriting an earlier one, as the code does. `cap_len -
14` and `len` are `uint32_t` (`Unsigned`), and `len` is compared as `int`
(`Signed`). `HandleRead` is one whole call: decode, statistics, tuple, size
filter, `deal`, the next `asyncRead`. What deal does with the tuple belongs to
`Gateway`, except that copying from a null pointer kills the process. A read
that finds no packet only arms the next read, and changes nothing here.

### ThreadPool

A critical section of `queue_mutex` is one step, a notification another. A
worker that is woken is at `lock`: it takes the mutex and looks again, as the
loop inside `wait` does. `SpuriousWakeup` is allowed and not relied upon.

## 3. Runs

| Run | Instance | Shows |
|---|---|---|
| `gateway` | two gateways, one flow, TCP and ICMP, 3 packets, `NUM_OF_GUEST` 2, all faults but restarts | `PreFollowsData`, `NamesUnique`, `NoGaps`, `GuessesInWindow`, `GuessesBounded`, `CopiesAnswerRequests`, `CopiesBounded`, and the tunnel |
| `restart` | TCP, 3 packets, `NUM_OF_GUEST` 1, each gateway may restart once | the same where it survives a restart |
| `flows` | three flows over two gateways, TCP, UDP, ICMP, 2 packets | `InjectedIsCaptured`, `NamesUnique` across flows and protocols |
| `delivery` | one flow, TCP and ICMP, 3 packets, `NUM_OF_GUEST` 2, any pre-requests may be lost, any guess may expire, fairness | `PacketsInHand`, `GuessesInHand`: between any two steps no packet is forgotten, nor a guess before it expires; `Delivered`: a packet comes out unless its own pre-request was lost, also if a guess of it expired; `GuessMasksLostPre`: and even then within `NUM_OF_GUEST` of an answered one, unless the last request for it expired |
| `numbers` | `MaxInt` 3 (words of 8 values), 12 packets, 3 pre-requests on their way | `FailsOnlyBeyondInt`, `NamesApart`, `GuessesAreSuccessors` |
| `lifecycle` | two addresses, three frames, every failure | `BoundBeforeUse`, `HelperOutlivesThread`, `ResourcesReleased`; `Ends`: after an exception or a failed read the process ends, hangs in the join of the unset id or waits for an NDN thread that serves a filter; `PostedRun`: the calls of the *k*-th dealt frame are run, for every *k*, unless the process ends or that thread left for lack of any filter |
| `capture` | 13 frames, sequences of 3, two calls of report or reset | the decoder's and the loop's properties |
| `threadpool` | two workers, three tasks, destructor at any time | the pool's properties, liveness included |
| `content`, `undecoded`, `counters`, `join` | small | disagreements, see section 6 |

*Bounds.* Three packets of one flow are the least that let a name be guessed,
announced, forgotten and guessed again by a late pre-request of an earlier
packet; the bound 3 of `CopiesBounded` is reached with them (2 is violated).
`NUM_OF_GUEST` is 60 in the code; 2 lets windows overlap without covering the
flow. Two gateways suffice as each flow involves two and gateways share nothing
but the stores. One restart of each gateway covers a reused name on either side.
`WORD` is 2^16 instead of 2^32: larger than any frame, so wrapped values are
told apart from real ones. The frames of `MCPacketCapture` take each exit of the
decoder and both sides of the size filter. With `MaxInt` 3 the flow passes the
largest int at packet 4 and comes round at packet 9; 12 packets go on past both.
Two addresses let one have its filters while another has not; three frames let one
be posted, one be awaited and one be captured. Three tasks on two workers let one
wait behind two that run. `THREAD_POOL_SIZE` is 1 in the code; the pool takes
any number.

*Deadlock* is not checked: a gateway whose hosts are silent, a loop that met a
read error, a process that has ended and a destroyed pool stop, and bounded instances run out of packets.
For the pool, "everyone waits on everyone" is excluded by the liveness part of
`ImplementsExecutor`.

*Fairness.* `NdnFairness` of `Delivery`: for each gateway, `io_service::run` of its NDN
thread goes on as long as a posted call or a callback is ready (weak fairness of
the thread, not of each callback); there is none on capturing, as hosts may be
silent, nor on losses or on the lifetime of guesses. `Lifecycle`: `main` and the NDN thread run; a registration
is answered or timed out by ndn-cxx, an interest has a lifetime. Frames, failing
reads and exceptions need never come, so a process that captures for ever is a
behaviour. `Spec` of `PacketCapture`: the io_service runs the
handler of a readable descriptor. `ThreadPool`: each thread that can go on does;
none on `Enqueue`, `Stop` or spurious wakeups. Tasks end.

## 4. Proofs

`GatewayProofs`, for every set of gateways, hosts, flows and protocols, every
`NUM_OF_GUEST` and bound, with all faults and restarts; from the assumptions of
`Gateway` (no address is called `pre` or `TCP`; flows join different gateways):

* `TypeCorrect`. `TypeOK` is not inductive: that guessed names are data names
  needs the pre-requests to be names of real packets, and that a pre-request
  on its way has a number in range needs the numbering. The invariant is
  `TypeInv == TypeOK /\ Numbering /\ Addressed`: a flow's number never exceeds the
  packets captured; every pending interest has the flag of its kind of name and
  is for an address of its gateway.
* `GuessesAreBounded`, `CopiesAreAnswers`: inductive relative to `TypeInv`. The
  proofs go action by action; the lemmas on `Count` and `Express` say what a step
  does at one name.
* `InjectionsAreCaptured` and `TunnelImplemented`: `TunnelInv` adds that Data,
  posted or stored, carry the packet their name was made for (`Contents`). The
  lemmas on names say that building, swapping, guessing and splitting fit
  together, and that the filters lead to the gateway of the destination. The
  step lemma `TunnelStep` gives the refinement.

`ThreadPoolProofs`, for every non-empty finite set of workers and every set of
tasks:

* `WakeupsKept`. Needs `Leaving`: a worker that left did so from a stopped and
  empty pool. Else `notify_one` could find only workers that are gone.
* `TasksInOnePlace`, `TypeCorrect`: one inductive invariant `PlaceInv`. The three
  actions that move a task (`Enqueue`, `Take`, `Run`) have a lemma each; the
  others leave every place as it is (`NothingMoves`).
* `ExecutorImplemented`: the safety part of `TaskExecutor`.
* `NothingStuck`: when no thread can go on by itself (workers wait or have left, no
  notification is due), every accepted task is executed, and if the destructor was
  called all workers have left. Needs `NoneLeftWaiting`: after `notify_all` no worker
  waits, as one that sees the flag does not wait again.

`PacketCaptureProofs`, for every set of frames shorter than half a word, every
bound and every word that holds twice the size limit:

* The lemmas on lengths say when `Unsigned` wraps and that `Signed` undoes it;
  `StatusIs` says that a valid frame fails no check, whatever the order in which
  checks overwrite each other.
* `NumbersUnique`, `RuntsAreDropped`, `HeadersAreCaptured`: the invariant `Dealt`
  says that each tuple dealt is what the decoder made of a frame that passed the
  size filter, and that `seq_count` is not behind any number given.
* `CountersAccountedFor`, `TypeCorrect`: the invariant `CountInv`.
* `NumbersIncrease`: numbers are given in the order of dealing, across resets.
* `LoopEnds`: reading ends with a reported error or with a rejected frame whose null
  pointer `deal` follows; that frame is the last one dealt. With `armed \/ failed`,
  a loop that met neither has its next read pending: the safety half of `Drained`.

`AnnouncementProofs`, from the same assumptions. An *announcement* is a flow, a number
or uuid, and whether it is numbered; it has a pre-request and a data name, and the
lemmas on names say that either name tells the announcement (up to the ports of a
flow that is not numbered). `CaptureAnnounces` says that each branch of `deal` makes
one, `QueueExtended` and `QueueTail` what happens to the queue of posted calls. Then:

* `NumbersHaveNoGaps`: `NoGaps` is inductive, as a Data only moves from the queue to
  the stores.
* `NamesAreUnique`. `NameInv` adds the Data still posted, and that the name of each
  is of an announcement *given*: its number is not above the table's, unless its
  gateway was restarted. A new announcement is not given, hence its name is new.
* `DataBeforePre`. `OrderInv` adds that of a posted pre-request the Data is
  published or put by a call before it in the queue.
* `GuessesStayInWindow`: inductive with the types.
* `CopiesAreBounded`. `WaitInv`: a pre-request is posted once in all queues, and only
  while given. `OnceInv`: the copies of a pre-request on their way and the requests
  made because of it are together at most one for each life of the source's
  gateway. With `GuessesBounded` and `CopiesAnswerRequests` the bound follows.

`DeliveryProofs`, from the assumptions of `Gateway`: what the gateways owe when the
network loses nothing but pre-requests and guesses expire.

* `DeliveryIsGateway`: `Delivery` implements `Gateway`, so every theorem above holds of it.
* `NoPacketForgotten`. The invariant `Ground` collects what is known of the names and of
  a network that loses no Data (`Kindly`: what was published is stored, no gateway was
  restarted; `Brought`: a name whose content was handed to a raw socket brought out the
  packet of its Data). Then each way a Data may be in hand is followed step by step: its posted
  pre-request is expressed after the Data is put (`PreFollowsData`), one on its way
  becomes a request or is lost, and a request is answered, which injects the packet,
  or stays: a guess that expires leaves it open, or the packet is out. One lemma for each
  kind of step (`SafeOnPre`, `SafeOnData`, `SafeOnExpire`, `SafeKept`), one
  for what a capture adds (`NewInHand`). That a name has one Data (`OneData`) makes
  the answer the right packet.
* `NoGuessForgotten`. `GuessesInHand` alone is not inductive: the gateway skips a guess
  that its table holds. `GuessInv` adds that what the table holds is being asked for,
  has come out or has expired, and `AskedForKept` that no step ends that: a request is
  answered or expires, and what has expired stays so until it is asked for again.
* `DeliveredAtRest`: in a state `Idle`, in which no NDN thread can take a step
  (`StepsWhenNotIdle`), every captured packet is out but those whose pre-request was lost,
  and even of those the ones within `NUM_OF_GUEST` of an answered pre-request are out,
  unless their last request expired. This is what
  `Delivered` and `GuessMasksLostPre` come to once the threads have nothing left to do;
  that they get there is fairness, and model-checked.

`FlowNumbersProofs`, for every size of `int`, every `NUM_OF_GUEST` and bound: packet *n* has the
number *n* wrapped into an `int` (`Numbering`), and whoever counts on from a
wrapped number wraps to the same (`NumberPlus`, from the uniqueness of remainders).
Hence `FailsLate`, `NamesAreApart`, `GuessesFit` and `TypeCorrect`. `CountsAsGateway` says how
far `Gateway`, which counts without a limit, is right: up to `MaxInt` packets of a flow
the number in the table and the text in each name are those of `Gateway`, and no
receiver has failed (`NumberExact`).

`LifecycleProofs`, for any number of addresses and frames: what holds of the
threads, the bindings, the objects and the handle depends on how far `main` has
come, so the invariant `IInv` says it place by place (`BindingsMade`, `Threads`,
`ObjectsBuilt`, `Handle`); `Sizes` bounds the counters. One lemma for each conjunct, one
step for each group of actions. Hence `TypeCorrect`, `TablesBound`, `HelperOutlives`,
`Released`.

* `ReadsOpen`: the first read is armed inside a constructor, and three places close: still
  a read is pending only on an open descriptor of an open handle. `Reading` adds from
  where on there is a handle, and that no read is pending while `main` joins and closes.
* `DealsOpen`: the action property that follows, no packet is dealt that was read
  through a closed handle.

Every invariant that a run expects to hold is thus also proved. Only model-checked,
on the instances of section 3: liveness (`Delivered`, `GuessMasksLostPre`, `Drained`,
`Ends`, `PostedRun`, the liveness part of `ImplementsExecutor`), which the prover
does not cover. `DeliveredAtRest`, `LoopEnds` and `NothingStuck` are their safety halves: what
holds when the fair steps have run out.

## 5. What the properties say of the design

* Announcing after publishing is sound because the face keeps the order of
  posted calls; swapping the two lines of `deal` breaks `PreFollowsData`.
* A receiver may get a packet up to three times without any fault but delay, and
  more after restarts; TCP copes, other protocols see duplicates.
* After a restart names stand for two packets. The tunnel property still holds,
  as both belong to the same flow; `NamesUnique` claims uniqueness only without restarts.
* `prefixGuestTable` grows for the life of the process: names whose own pre-request
  never comes stay in it. `GuessesInWindow` says how far ahead of an answered pre-request
  an entry lies, not how many there are.
* Nothing between two gateways loses a packet but the network, and of the network only
  the one pre-request of that packet: `PacketsInHand` holds in every interleaving.
* One answered pre-request covers the next `NUM_OF_GUEST` packets only as long as the
  guesses live, which is two seconds: what is published by then comes out though its own
  pre-request is lost. An expired guess is not repeated, since its entry stays in the
  table: however many later pre-requests cover the name, only its own makes the gateway
  ask again. That this one always does is `Delivered`; a gateway that asked only for
  what the table lacks would break it. Of a flow that sends less than `NUM_OF_GUEST`
  packets in two seconds, the packets depend on their own pre-requests, and nothing
  retries.
* The numbers of a flow wrap without any harm to guessing, and names come round only
  after 2^32 packets. But packet 2^31 has a negative number, and its sign makes
  `lexical_cast` throw in the receiver's NDN thread (`FailsOnlyBeyondInt` is tight).
* A read error stops capturing, and `main` then waits for an NDN thread that goes on
  as long as a filter is registered: the process neither captures nor ends. `Ends` says
  that it waits for nothing else. The other way round, an NDN thread without any filter
  ends while capturing goes on, and what is dealt from then on is never sent: `PostedRun`
  says that nothing else leaves a posted call in a process that goes on.
* An exception out of the capture loop destroys `NDNHelper` under the running NDN
  thread; `HelperOutlivesThread` and its theorem say that nothing else does.
* Two failures leave something open until the process ends: a handle that refuses a
  parameter, a descriptor that `m_socket` refuses (`ResourcesReleased`).

## 6. Disagreements between the code and its comments

* `counters`: `report_final_stat_file` increments two counters where it prints
  them (`packet.cpp:91-92`, `140-141`), so they no longer count packets.
* `content`: the content of a Data is as long as the capture without 14 bytes
  (`NDNHelper.cpp:331`, `packet.cpp:194`), so it includes the link's padding,
  and four bytes too many of a tagged frame. `RawSocketHelper.h:23` wants the
  length of the packet; the decoder has it, in `size`.
* `undecoded`: `handleRead` does not look at the decoder's verdict
  (`LibPcapHelper.cpp:53`); a rejected frame is dealt with a zero key and a null
  pointer. The comment at `LibPcapHelper.cpp:87` speaks of decoded packets.
* `join`: `NDNHelper::join` (`NDNHelper.cpp:82`) joins `processEventThreadId`, which
  no code sets, after `main` has joined the NDN thread; its comment says "join thread".

## 7. Not modelled

* The locks inside `MapCacheHelper` and `SetHelper`: each table is used by one thread
  only, since the pool that would have run `deal` on several is commented out
  (`LibPcapHelper.cpp:56`). The tables `cacheHelper` and `pendingInterestMap` are bound and
  never used.
* Code nothing calls: `handleError`, `readNextPacket`, `getNDropped`, `putData`,
  `getCurTime`, `read_tuple`, `print_tuple`. Modelled although nothing calls them:
  `ThreadPool::enqueue` (its only use, `LibPcapHelper.cpp:56`, is commented out; `main` still
  constructs and destroys an idle pool), `report_final_stat` and `reset_stat`.
* System calls and wording: what `sendPacketTo` does beyond the injection, the values
  read from the configuration (constants here), byte counters and time stamps of the
  statistics, `ttime.cpp`, `util.cpp` (not built by CMake).
* `interestPacketNum`, counted by both threads without a lock: it is only printed. The
  tuples nothing deletes: no state depends on them.
* The tests and the notes under `documents/`.

What a continuation could add: `PacketCapture` composed with the capture thread of
`Gateway`, so that the content of a rejected or padded frame can be followed to the
receiving host; and `Delivery` with evicted Data.
