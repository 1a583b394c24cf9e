----------------------------- MODULE ThreadPool -----------------------------
(***************************************************************************)
(* helper/ThreadPool.h: workers that wait on a condition variable for      *)
(* tasks, enqueue from other threads, and the destructor.  A critical      *)
(* section of queue_mutex is one step, as no other thread sees the inside  *)
(* of one; the notifications come after the unlock and are steps of their  *)
(* own.                                                                    *)
(***************************************************************************)
EXTENDS Integers, Sequences, FiniteSets

CONSTANTS Workers,   \* the threads of the pool, THREAD_POOL_SIZE of them
          Tasks      \* tasks, each enqueued once by some thread

ASSUME WorkerAssumption == Workers # {} /\ IsFiniteSet(Workers)

None == "none"
ASSUME NoneAssumption == None \notin Tasks

VARIABLES
  tasks,    \* the task queue
  stop,     \* the flag the destructor sets
  worker,   \* where each worker is: lock (about to), waiting, run, done
  current,  \* the task a worker runs
  call,     \* the enqueue of each task: idle, notify (about to), returned, threw
  owner,    \* the destructor: alive, notify (about to), join (joining), joined
  executed  \* history: tasks run, by how often

vars == <<tasks, stop, worker, current, call, owner, executed>>

TypeOK ==
  /\ tasks \in Seq(Tasks)
  /\ stop \in BOOLEAN
  /\ worker \in [Workers -> {"lock", "waiting", "run", "done"}]
  /\ current \in [Workers -> Tasks \cup {None}]
  /\ call \in [Tasks -> {"idle", "notify", "returned", "threw"}]
  /\ owner \in {"alive", "notify", "join", "joined"}
  /\ executed \in [Tasks -> 0..1]

Init ==
  /\ tasks = << >>
  /\ stop = FALSE
  /\ worker = [w \in Workers |-> "lock"]
  /\ current = [w \in Workers |-> None]
  /\ call = [t \in Tasks |-> "idle"]
  /\ owner = "alive"
  /\ executed = [t \in Tasks |-> 0]

\* Mutants of a worker's decisions: it leaves as soon as the pool stops; it
\* waits for tasks only.
MayReturn_OnStop == stop
MayWait_ForTasks == tasks = << >>

\* A worker returns when the pool stops and the queue is empty,
\* and waits while the queue is empty and the pool does not stop.
MayReturn == stop /\ tasks = << >>
MayWait   == ~stop /\ tasks = << >>

\* Take the mutex and find nothing to do: wait releases it.
Wait(w) ==
  /\ worker[w] = "lock" /\ MayWait
  /\ worker' = [worker EXCEPT ![w] = "waiting"]
  /\ UNCHANGED <<tasks, stop, current, call, owner, executed>>

Return(w) ==
  /\ worker[w] = "lock" /\ ~MayWait /\ MayReturn
  /\ worker' = [worker EXCEPT ![w] = "done"]
  /\ UNCHANGED <<tasks, stop, current, call, owner, executed>>

\* Mutant: the task is run but not popped.
Rest_NotPopped == tasks

\* The queue without its front.
Rest == Tail(tasks)

Take(w) ==
  /\ worker[w] = "lock" /\ ~MayWait /\ ~MayReturn
  /\ current' = [current EXCEPT ![w] = Head(tasks)]
  /\ tasks' = Rest
  /\ worker' = [worker EXCEPT ![w] = "run"]
  /\ UNCHANGED <<stop, call, owner, executed>>

\* task() outside the mutex; the packaged_task keeps what it throws.
Run(w) ==
  /\ worker[w] = "run"
  /\ executed' = [executed EXCEPT ![current[w]] = @ + 1]
  /\ current' = [current EXCEPT ![w] = None]
  /\ worker' = [worker EXCEPT ![w] = "lock"]
  /\ UNCHANGED <<tasks, stop, call, owner>>

\* The condition variable may wake a waiting worker at any time.
SpuriousWakeup(w) ==
  /\ worker[w] = "waiting"
  /\ worker' = [worker EXCEPT ![w] = "lock"]
  /\ UNCHANGED <<tasks, stop, current, call, owner, executed>>

Waiting == { w \in Workers : worker[w] = "waiting" }

\* Mutant: nobody is woken.
WakeOne_Nobody == UNCHANGED worker

\* notify_one and notify_all.
WakeOne == \/ Waiting = {} /\ UNCHANGED worker
           \/ \E w \in Waiting : worker' = [worker EXCEPT ![w] = "lock"]
WakeAll == worker' = [w \in Workers |-> IF w \in Waiting THEN "lock" ELSE worker[w]]

\* Mutant: tasks are taken on a stopped pool.
Accepts_Always == TRUE

\* Enqueueing on a stopped pool throws.
Accepts == ~stop

Enqueue(t) ==
  /\ call[t] = "idle" /\ Accepts
  /\ tasks' = Append(tasks, t)
  /\ call' = [call EXCEPT ![t] = "notify"]
  /\ UNCHANGED <<stop, worker, current, owner, executed>>

\* No caller holds a pool that is gone.
EnqueueThrows(t) ==
  /\ call[t] = "idle" /\ ~Accepts /\ owner # "joined"
  /\ call' = [call EXCEPT ![t] = "threw"]
  /\ UNCHANGED <<tasks, stop, worker, current, owner, executed>>

EnqueueNotifies(t) ==
  /\ call[t] = "notify"
  /\ WakeOne
  /\ call' = [call EXCEPT ![t] = "returned"]
  /\ UNCHANGED <<tasks, stop, current, owner, executed>>

\* ~ThreadPool: set the flag, notify all, join every worker.
Stop ==
  /\ owner = "alive"
  /\ stop' = TRUE
  /\ owner' = "notify"
  /\ UNCHANGED <<tasks, worker, current, call, executed>>

StopNotifies ==
  /\ owner = "notify"
  /\ WakeAll
  /\ owner' = "join"
  /\ UNCHANGED <<tasks, stop, current, call, executed>>

Join ==
  /\ owner = "join"
  /\ \A w \in Workers : worker[w] = "done"
  /\ owner' = "joined"
  /\ UNCHANGED <<tasks, stop, worker, current, call, executed>>

WorkerStep(w) == Wait(w) \/ Return(w) \/ Take(w) \/ Run(w)

Next == \/ \E w \in Workers : WorkerStep(w) \/ SpuriousWakeup(w)
        \/ \E t \in Tasks : Enqueue(t) \/ EnqueueThrows(t) \/ EnqueueNotifies(t)
        \/ Stop \/ StopNotifies \/ Join

\* Threads that can go on do: workers, an enqueue before its notification, and
\* the destructor once it is called.  Tasks end.
Fairness == /\ \A w \in Workers : WF_vars(WorkerStep(w))
            /\ \A t \in Tasks : WF_vars(EnqueueNotifies(t))
            /\ WF_vars(StopNotifies) /\ WF_vars(Join)

Spec == Init /\ [][Next]_vars /\ Fairness

-----------------------------------------------------------------------------
(* Properties.                                                             *)

Queued   == { tasks[i] : i \in DOMAIN tasks }
Running  == { current[w] : w \in { v \in Workers : worker[v] = "run" } }
Executed == { t \in Tasks : executed[t] > 0 }
Accepted == { t \in Tasks : call[t] \in {"notify", "returned"} }

\* An accepted task is in one place only: the queue, once, or one worker, or
\* done.  None is dropped between two of them, none is run twice.
EachInOnePlace ==
  /\ Accepted = Queued \cup Running \cup Executed
  /\ Queued \cap (Running \cup Executed) = {} /\ Running \cap Executed = {}
  /\ \A i, j \in DOMAIN tasks : tasks[i] = tasks[j] => i = j
  /\ \A v, w \in Workers : (worker[v] = "run" /\ worker[w] = "run" /\ v # w) => current[v] # current[w]

\* With tasks waiting, some thread is about to look at the queue: no
\* notification is ever lost to a worker that was about to wait.
NoLostWakeup ==
  tasks # << >> =>
    \/ \E w \in Workers : worker[w] \in {"lock", "run"}
    \/ \E t \in Tasks : call[t] = "notify"
    \/ owner = "notify"

\* The pool is an executor, liveness included: accepted tasks are executed and
\* the destructor returns, though not before all of them were.
Phase == IF owner = "joined" THEN "closed" ELSE IF stop THEN "closing" ELSE "open"
Executor == INSTANCE TaskExecutor WITH
  accepted <- Accepted, executed <- Executed, phase <- Phase
ImplementsExecutor == Executor!Spec
=============================================================================
