-------------------------- MODULE ThreadPoolProofs --------------------------
(***************************************************************************)
(* Theorems about ThreadPool for every non-empty set of workers and every  *)
(* set of tasks.                                                           *)
(***************************************************************************)
EXTENDS ThreadPool, TLAPS

-----------------------------------------------------------------------------
(* No lost wakeup.                                                         *)

\* TypeOK without the bound on executed, which is a consequence of where the
\* tasks are.
Typing ==
  /\ tasks \in Seq(Tasks)
  /\ stop \in BOOLEAN
  /\ worker \in [Workers -> {"lock", "waiting", "run", "done"}]
  /\ current \in [Workers -> Tasks \cup {None}]
  /\ \A w \in Workers : worker[w] = "run" => current[w] \in Tasks
  /\ call \in [Tasks -> {"idle", "notify", "returned", "threw"}]
  /\ owner \in {"alive", "notify", "join", "joined"}
  /\ executed \in [Tasks -> Nat]

\* A worker leaves a stopped and empty pool, and the queue of a stopped pool
\* only gets shorter; the destructor has begun exactly when the flag is set.
Leaving ==
  /\ (\E w \in Workers : worker[w] = "done") => (stop /\ tasks = << >>)
  /\ stop <=> owner # "alive"
  /\ owner = "joined" => \A w \in Workers : worker[w] = "done"

WakeInv == Typing /\ Leaving /\ NoLostWakeup

LEMMA TypingInit == Init => Typing /\ Leaving
<1> SUFFICES ASSUME Init PROVE Typing /\ Leaving
  OBVIOUS
<1>1. Typing
  <2>1. tasks \in Seq(Tasks)
    BY DEF Init
  <2>2. worker \in [Workers -> {"lock"}] /\ current \in [Workers -> {None}]
    BY DEF Init
  <2> QED
    BY <2>1, <2>2 DEF Init, Typing
<1>2. Leaving
  BY DEF Init, Leaving
<1> QED
  BY <1>1, <1>2

LEMMA WorkerTyping ==
  ASSUME Typing, NEW w \in Workers, WorkerStep(w) \/ SpuriousWakeup(w)
  PROVE  Typing'
<1>1. CASE Wait(w)
  BY <1>1 DEF Typing, Wait
<1>2. CASE Return(w)
  BY <1>2 DEF Typing, Return
<1>3. CASE Take(w)
  <2>1. tasks # << >>
    BY <1>3 DEF Take, MayWait, MayReturn, Typing
  <2>2. Head(tasks) \in Tasks /\ Tail(tasks) \in Seq(Tasks)
    BY <2>1 DEF Typing
  <2> QED
    BY <1>3, <2>2 DEF Typing, Take, Rest
<1>4. CASE Run(w)
  BY <1>4 DEF Typing, Run
<1>5. CASE SpuriousWakeup(w)
  BY <1>5 DEF Typing, SpuriousWakeup
<1> QED
  BY <1>1, <1>2, <1>3, <1>4, <1>5 DEF WorkerStep

LEMMA CallTyping ==
  ASSUME Typing, NEW t \in Tasks, Enqueue(t) \/ EnqueueThrows(t) \/ EnqueueNotifies(t)
  PROVE  Typing'
<1>1. CASE Enqueue(t)
  BY <1>1 DEF Typing, Enqueue
<1>2. CASE EnqueueThrows(t)
  BY <1>2 DEF Typing, EnqueueThrows
<1>3. CASE EnqueueNotifies(t)
  BY <1>3 DEF Typing, EnqueueNotifies, WakeOne, Waiting
<1> QED
  BY <1>1, <1>2, <1>3

LEMMA OwnerTyping ==
  ASSUME Typing, Stop \/ StopNotifies \/ Join
  PROVE  Typing'
<1>1. CASE Stop
  BY <1>1 DEF Typing, Stop
<1>2. CASE StopNotifies
  BY <1>2 DEF Typing, StopNotifies, WakeAll, Waiting
<1>3. CASE Join
  BY <1>3 DEF Typing, Join
<1> QED
  BY <1>1, <1>2, <1>3

LEMMA TypingStep == Typing /\ [Next]_vars => Typing'
<1> SUFFICES ASSUME Typing, [Next]_vars PROVE Typing'
  OBVIOUS
<1>1. CASE UNCHANGED vars
  BY <1>1 DEF vars, Typing
<1> QED
  BY <1>1, WorkerTyping, CallTyping, OwnerTyping DEF Next

LEMMA LeavingStep == Typing /\ Leaving /\ [Next]_vars => Leaving'
<1> SUFFICES ASSUME Typing, Leaving, [Next]_vars PROVE Leaving'
  OBVIOUS
<1>1. ASSUME NEW w \in Workers, Wait(w) PROVE Leaving'
  BY <1>1 DEF Typing, Leaving, Wait
<1>2. ASSUME NEW w \in Workers, Return(w) PROVE Leaving'
  BY <1>2 DEF Typing, Leaving, Return, MayReturn
<1>3. ASSUME NEW w \in Workers, Take(w) PROVE Leaving'
  <2>1. tasks # << >>
    BY <1>3 DEF Take, MayWait, MayReturn, Typing
  <2> QED
    BY <1>3, <2>1 DEF Typing, Leaving, Take
<1>4. ASSUME NEW w \in Workers, Run(w) PROVE Leaving'
  BY <1>4 DEF Typing, Leaving, Run
<1>5. ASSUME NEW w \in Workers, SpuriousWakeup(w) PROVE Leaving'
  BY <1>5 DEF Typing, Leaving, SpuriousWakeup
<1>6. ASSUME NEW t \in Tasks, Enqueue(t) PROVE Leaving'
  BY <1>6 DEF Typing, Leaving, Enqueue, Accepts
<1>7. ASSUME NEW t \in Tasks, EnqueueThrows(t) PROVE Leaving'
  BY <1>7 DEF Typing, Leaving, EnqueueThrows
<1>8. ASSUME NEW t \in Tasks, EnqueueNotifies(t) PROVE Leaving'
  BY <1>8 DEF Typing, Leaving, EnqueueNotifies, WakeOne, Waiting
<1>9. CASE Stop
  BY <1>9 DEF Typing, Leaving, Stop
<1>10. CASE StopNotifies
  BY <1>10 DEF Typing, Leaving, StopNotifies, WakeAll, Waiting
<1>11. CASE Join
  BY <1>11 DEF Typing, Leaving, Join
<1>12. CASE UNCHANGED vars
  BY <1>12 DEF vars, Leaving
<1> QED
  BY <1>1, <1>2, <1>3, <1>4, <1>5, <1>6, <1>7, <1>8, <1>9, <1>10, <1>11, <1>12
     DEF Next, WorkerStep

LEMMA WakeStep == WakeInv /\ [Next]_vars => NoLostWakeup'
<1> SUFFICES ASSUME WakeInv, [Next]_vars PROVE NoLostWakeup'
  OBVIOUS
<1> USE DEF WakeInv
<1>1. ASSUME NEW w \in Workers, Wait(w) PROVE NoLostWakeup'
  BY <1>1 DEF NoLostWakeup, Wait, MayWait
<1>2. ASSUME NEW w \in Workers, Return(w) PROVE NoLostWakeup'
  BY <1>2 DEF NoLostWakeup, Return, MayReturn
<1>3. ASSUME NEW w \in Workers, Take(w) PROVE NoLostWakeup'
  BY <1>3 DEF NoLostWakeup, Take, Typing
<1>4. ASSUME NEW w \in Workers, Run(w) PROVE NoLostWakeup'
  BY <1>4 DEF NoLostWakeup, Run, Typing
<1>5. ASSUME NEW w \in Workers, SpuriousWakeup(w) PROVE NoLostWakeup'
  BY <1>5 DEF NoLostWakeup, SpuriousWakeup, Typing
<1>6. ASSUME NEW t \in Tasks, Enqueue(t) PROVE NoLostWakeup'
  BY <1>6 DEF NoLostWakeup, Enqueue, Typing
<1>7. ASSUME NEW t \in Tasks, EnqueueThrows(t) PROVE NoLostWakeup'
  BY <1>7 DEF NoLostWakeup, EnqueueThrows, Typing
<1>8. ASSUME NEW t \in Tasks, EnqueueNotifies(t) PROVE NoLostWakeup'
  <2> SUFFICES ASSUME tasks # << >>
               PROVE  \E w \in Workers : worker'[w] \in {"lock", "run"}
    BY <1>8 DEF NoLostWakeup, EnqueueNotifies
  <2>1. CASE Waiting = {} /\ UNCHANGED worker
    <3>1. PICK w \in Workers : TRUE
      BY WorkerAssumption
    <3>2. worker[w] # "done" /\ worker[w] # "waiting"
      BY <2>1 DEF Leaving, Waiting
    <3> QED
      BY <2>1, <3>2 DEF Typing
  <2>2. ASSUME NEW w \in Waiting, worker' = [worker EXCEPT ![w] = "lock"]
        PROVE  \E v \in Workers : worker'[v] \in {"lock", "run"}
    BY <2>2 DEF Waiting, Typing
  <2> QED
    BY <1>8, <2>1, <2>2 DEF EnqueueNotifies, WakeOne
<1>9. CASE Stop
  BY <1>9 DEF NoLostWakeup, Stop
<1>10. CASE StopNotifies
  <2> SUFFICES ASSUME tasks # << >>
               PROVE  \E w \in Workers : worker'[w] \in {"lock", "run"}
    BY <1>10 DEF NoLostWakeup, StopNotifies
  <2>1. PICK w \in Workers : TRUE
    BY WorkerAssumption
  <2>2. worker[w] # "done"
    BY DEF Leaving
  <2> QED
    BY <1>10, <2>2 DEF StopNotifies, WakeAll, Waiting, Typing
<1>11. CASE Join
  BY <1>11 DEF NoLostWakeup, Join
<1>12. CASE UNCHANGED vars
  BY <1>12 DEF vars, NoLostWakeup
<1> QED
  BY <1>1, <1>2, <1>3, <1>4, <1>5, <1>6, <1>7, <1>8, <1>9, <1>10, <1>11, <1>12
     DEF Next, WorkerStep

LEMMA WakeInvariant == Spec => []WakeInv
<1>1. Init => WakeInv
  BY TypingInit DEF WakeInv, Init, NoLostWakeup
<1>2. WakeInv /\ [Next]_vars => WakeInv'
  BY TypingStep, LeavingStep, WakeStep DEF WakeInv
<1> QED
  BY <1>1, <1>2, PTL DEF Spec

\* While tasks wait, some thread is about to look at the queue: the
\* notifications after the unlock (lines 82 and 93) never come too early.
THEOREM WakeupsKept == Spec => []NoLostWakeup
<1>1. WakeInv => NoLostWakeup
  BY DEF WakeInv
<1> QED
  BY <1>1, WakeInvariant, PTL

-----------------------------------------------------------------------------
(* Where the tasks are.                                                    *)

PlaceInv == Typing /\ Leaving /\ executed \in [Tasks -> 0..1] /\ EachInOnePlace

LEMMA QueuedAppend ==
  ASSUME Typing, EachInOnePlace, NEW t \in Tasks, t \notin Queued, tasks' = Append(tasks, t)
  PROVE  /\ Queued' = Queued \cup {t}
         /\ \A i, j \in DOMAIN tasks' : tasks'[i] = tasks'[j] => i = j
<1>1. /\ Len(tasks) \in Nat /\ DOMAIN tasks = 1..Len(tasks)
      /\ DOMAIN tasks' = 1..(Len(tasks) + 1)
      /\ \A i \in 1..Len(tasks) : tasks'[i] = tasks[i]
      /\ tasks'[Len(tasks) + 1] = t
  BY DEF Typing
<1>2. Queued' = { tasks'[i] : i \in DOMAIN tasks' }
  BY DEF Queued
<1>3. Queued' = Queued \cup {t}
  BY <1>1, <1>2 DEF Queued
<1>4. \A i, j \in DOMAIN tasks' : tasks'[i] = tasks'[j] => i = j
  BY <1>1 DEF Queued, EachInOnePlace
<1> QED
  BY <1>3, <1>4

LEMMA QueuedTail ==
  ASSUME Typing, EachInOnePlace, tasks # << >>, tasks' = Tail(tasks)
  PROVE  /\ Head(tasks) \in Queued
         /\ Queued' = Queued \ {Head(tasks)}
         /\ \A i, j \in DOMAIN tasks' : tasks'[i] = tasks'[j] => i = j
<1>1. /\ Len(tasks) \in Nat \ {0} /\ DOMAIN tasks = 1..Len(tasks)
      /\ DOMAIN tasks' = 1..(Len(tasks) - 1)
      /\ \A i \in 1..(Len(tasks) - 1) : tasks'[i] = tasks[i + 1]
      /\ Head(tasks) = tasks[1]
  BY DEF Typing
<1>2. \A i, j \in 1..Len(tasks) : tasks[i] = tasks[j] => i = j
  BY <1>1 DEF EachInOnePlace
<1>3. Head(tasks) \in Queued
  BY <1>1 DEF Queued
<1>4. Queued' = { tasks[i + 1] : i \in 1..(Len(tasks) - 1) }
  BY <1>1 DEF Queued
<1>5. \A i \in 1..Len(tasks) : i # 1 => i - 1 \in 1..(Len(tasks) - 1) /\ (i - 1) + 1 = i
  BY <1>1
<1>6. Queued' = Queued \ {Head(tasks)}
  <2>1. Head(tasks) \notin Queued'
    BY <1>1, <1>2, <1>4
  <2>2. Queued' \subseteq Queued
    BY <1>1, <1>4 DEF Queued
  <2>3. ASSUME NEW i \in 1..Len(tasks), tasks[i] # Head(tasks) PROVE tasks[i] \in Queued'
    <3>1. i - 1 \in 1..(Len(tasks) - 1) /\ (i - 1) + 1 = i
      BY <1>1, <1>5, <2>3
    <3> QED
      BY <1>4, <3>1
  <2> QED
    BY <1>1, <2>1, <2>2, <2>3 DEF Queued
<1>7. \A i, j \in DOMAIN tasks' : tasks'[i] = tasks'[j] => i = j
  BY <1>1, <1>2
<1> QED
  BY <1>3, <1>6, <1>7

\* A step that neither moves nor accepts a task.
LEMMA NothingMoves ==
  ASSUME UNCHANGED <<tasks, current, executed>>,
         \A w \in Workers : worker'[w] = "run" <=> worker[w] = "run",
         \A t \in Tasks : call'[t] \in {"notify", "returned"} <=> call[t] \in {"notify", "returned"}
  PROVE  /\ Accepted' = Accepted /\ Queued' = Queued
         /\ Running' = Running /\ Executed' = Executed
         /\ EachInOnePlace => EachInOnePlace'
<1>1. Accepted' = Accepted
  BY DEF Accepted
<1>2. Queued' = Queued
  BY DEF Queued
<1>3. Running' = Running
  BY DEF Running
<1>4. Executed' = Executed
  BY DEF Executed
<1> QED
  BY <1>1, <1>2, <1>3, <1>4 DEF EachInOnePlace

\* What each action does to the places: nothing but for these three.
LEMMA EnqueuePlace ==
  ASSUME PlaceInv, NEW t \in Tasks, Enqueue(t)
  PROVE  /\ EachInOnePlace' /\ Executed' = Executed
         /\ t \notin Accepted /\ Accepted' = Accepted \cup {t}
<1>1. t \notin Accepted
  BY DEF Accepted, Enqueue
<1>2. Accepted' = Accepted \cup {t}
  BY DEF Accepted, Enqueue, PlaceInv, Typing
<1>3. t \notin Queued \cup Running \cup Executed
  BY <1>1 DEF PlaceInv, EachInOnePlace
<1>4. /\ Queued' = Queued \cup {t}
      /\ \A i, j \in DOMAIN tasks' : tasks'[i] = tasks'[j] => i = j
  BY <1>3, QueuedAppend DEF PlaceInv, Enqueue
<1>5. Running' = Running /\ Executed' = Executed
  BY DEF Running, Executed, Enqueue
<1>6. \A v, w \in Workers : (worker'[v] = "run" /\ worker'[w] = "run" /\ v # w) => current'[v] # current'[w]
  BY DEF PlaceInv, EachInOnePlace, Enqueue
<1>7. /\ Accepted = Queued \cup Running \cup Executed
      /\ Queued \cap (Running \cup Executed) = {} /\ Running \cap Executed = {}
  BY DEF PlaceInv, EachInOnePlace
<1>8. /\ Accepted' = Queued' \cup Running' \cup Executed'
      /\ Queued' \cap (Running' \cup Executed') = {} /\ Running' \cap Executed' = {}
  BY <1>2, <1>3, <1>4, <1>5, <1>7
<1> QED
  BY <1>1, <1>2, <1>4, <1>5, <1>6, <1>8 DEF EachInOnePlace

LEMMA TakePlace ==
  ASSUME PlaceInv, NEW w \in Workers, Take(w)
  PROVE  /\ EachInOnePlace' /\ Executed' = Executed /\ Accepted' = Accepted
<1> DEFINE h == Head(tasks)
<1>1. tasks # << >>
  BY DEF Take, MayWait, MayReturn, PlaceInv, Typing
<1>2. /\ h \in Queued /\ Queued' = Queued \ {h}
      /\ \A i, j \in DOMAIN tasks' : tasks'[i] = tasks'[j] => i = j
  BY <1>1, QueuedTail DEF PlaceInv, Take, Rest
<1>3. Accepted' = Accepted /\ Executed' = Executed
  BY DEF Accepted, Executed, Take
<1> HIDE DEF h
<1>4. /\ worker[w] = "lock" /\ worker'[w] = "run" /\ current'[w] = h
      /\ \A v \in Workers \ {w} : worker'[v] = worker[v] /\ current'[v] = current[v]
  BY DEF Take, PlaceInv, Typing, h
<1>5. Running' = { current'[v] : v \in { u \in Workers : worker'[u] = "run" } }
  BY DEF Running
<1>6. Running' = Running \cup {h}
  BY <1>4, <1>5 DEF Running
<1>7. /\ Accepted = Queued \cup Running \cup Executed
      /\ Queued \cap (Running \cup Executed) = {} /\ Running \cap Executed = {}
  BY DEF PlaceInv, EachInOnePlace
<1>8. /\ Accepted' = Queued' \cup Running' \cup Executed'
      /\ Queued' \cap (Running' \cup Executed') = {} /\ Running' \cap Executed' = {}
  BY <1>2, <1>3, <1>6, <1>7
<1>9. \A u, v \in Workers : (worker'[u] = "run" /\ worker'[v] = "run" /\ u # v) => current'[u] # current'[v]
  <2>1. \A v \in Workers : worker[v] = "run" => current[v] # h
    BY <1>2, <1>7 DEF Running
  <2> QED
    BY <1>4, <2>1 DEF PlaceInv, EachInOnePlace
<1> QED
  BY <1>2, <1>3, <1>8, <1>9 DEF EachInOnePlace

LEMMA RunPlace ==
  ASSUME PlaceInv, NEW w \in Workers, Run(w)
  PROVE  /\ EachInOnePlace' /\ executed' \in [Tasks -> 0..1] /\ Accepted' = Accepted
         /\ current[w] \in Accepted \ Executed /\ Executed' = Executed \cup {current[w]}
<1> DEFINE c == current[w]
<1>1. c \in Tasks /\ c \in Running
  BY DEF Run, PlaceInv, Typing, Running
<1>2. /\ Accepted = Queued \cup Running \cup Executed
      /\ Queued \cap (Running \cup Executed) = {} /\ Running \cap Executed = {}
  BY DEF PlaceInv, EachInOnePlace
<1>3. executed[c] = 0 /\ executed' = [executed EXCEPT ![c] = 1]
  <2>1. c \in Tasks /\ c \notin Executed
    BY <1>1, <1>2
  <2>2. executed' = [executed EXCEPT ![c] = executed[c] + 1]
    BY DEF Run
  <2> HIDE DEF c
  <2>3. executed[c] = 0
    BY <2>1 DEF Executed, PlaceInv
  <2> QED
    BY <2>2, <2>3
<1> HIDE DEF c
<1>4. executed' \in [Tasks -> 0..1] /\ Executed' = Executed \cup {c}
  BY <1>1, <1>3 DEF Executed, PlaceInv
<1>5. Accepted' = Accepted /\ Queued' = Queued
  BY DEF Accepted, Queued, Run
<1>6. /\ worker[w] = "run" /\ worker'[w] = "lock"
      /\ \A v \in Workers \ {w} : worker'[v] = worker[v] /\ current'[v] = current[v]
  BY DEF Run, PlaceInv, Typing
<1>7. \A v \in Workers \ {w} : worker[v] = "run" => current[v] # c
  BY <1>6 DEF PlaceInv, EachInOnePlace, c
<1>8. Running' = { current'[v] : v \in { u \in Workers : worker'[u] = "run" } }
  BY DEF Running
<1>9. Running' = { current[v] : v \in { u \in Workers \ {w} : worker[u] = "run" } }
  BY <1>6, <1>8
<1>10. Running' = Running \ {c}
  BY <1>6, <1>7, <1>9 DEF Running, c
<1>11. /\ Accepted' = Queued' \cup Running' \cup Executed'
       /\ Queued' \cap (Running' \cup Executed') = {} /\ Running' \cap Executed' = {}
  BY <1>1, <1>2, <1>4, <1>5, <1>10
<1>12. \A u, v \in Workers : (worker'[u] = "run" /\ worker'[v] = "run" /\ u # v) => current'[u] # current'[v]
  BY <1>6 DEF PlaceInv, EachInOnePlace
<1>13. \A i, j \in DOMAIN tasks' : tasks'[i] = tasks'[j] => i = j
  BY DEF PlaceInv, EachInOnePlace, Run
<1> QED
  BY <1>1, <1>2, <1>4, <1>5, <1>11, <1>12, <1>13 DEF EachInOnePlace, c

LEMMA PlaceStep == PlaceInv /\ [Next]_vars => PlaceInv' /\ [Executor!Next]_<<Accepted, Executed, Phase>>
<1> SUFFICES ASSUME PlaceInv, [Next]_vars
             PROVE  PlaceInv' /\ [Executor!Next]_<<Accepted, Executed, Phase>>
  OBVIOUS
<1>1. Typing' /\ Leaving'
  BY TypingStep, LeavingStep DEF PlaceInv
<1> DEFINE Quiet == /\ executed' \in [Tasks -> 0..1] /\ EachInOnePlace'
                    /\ Accepted' = Accepted /\ Executed' = Executed
<1>2. ASSUME UNCHANGED <<tasks, current, executed>>,
             \A w \in Workers : worker'[w] = "run" <=> worker[w] = "run",
             \A t \in Tasks : call'[t] \in {"notify", "returned"} <=> call[t] \in {"notify", "returned"}
      PROVE  Quiet
  BY <1>2, NothingMoves DEF PlaceInv
<1> HIDE DEF Quiet
<1>3. ASSUME Quiet, UNCHANGED Phase
      PROVE  PlaceInv' /\ [Executor!Next]_<<Accepted, Executed, Phase>>
  BY <1>1, <1>3 DEF PlaceInv, Quiet
<1>4. ASSUME NEW w \in Workers, WorkerStep(w) \/ SpuriousWakeup(w)
      PROVE  PlaceInv' /\ [Executor!Next]_<<Accepted, Executed, Phase>>
  <2>1. UNCHANGED Phase
    BY <1>4 DEF WorkerStep, Wait, Return, Take, Run, SpuriousWakeup, Phase
  <2>2. CASE Wait(w) \/ Return(w) \/ SpuriousWakeup(w)
    <3>1. Quiet
      BY <1>2, <2>2 DEF Wait, Return, SpuriousWakeup, PlaceInv, Typing
    <3> QED
      BY <1>3, <2>1, <3>1
  <2>3. CASE Take(w)
    <3>1. Quiet
      BY <2>3, TakePlace DEF Quiet, PlaceInv, Take
    <3> QED
      BY <1>3, <2>1, <3>1
  <2>4. CASE Run(w)
    <3>1. PlaceInv'
      BY <1>1, <2>4, RunPlace DEF PlaceInv
    <3>2. Executor!Execute(current[w])
      BY <2>1, <2>4, RunPlace DEF Executor!Execute
    <3>3. current[w] \in Tasks
      BY <2>4 DEF Run, PlaceInv, Typing
    <3> QED
      BY <3>1, <3>2, <3>3 DEF Executor!Next
  <2> QED
    BY <1>4, <2>2, <2>3, <2>4 DEF WorkerStep
<1>5. ASSUME NEW t \in Tasks, Enqueue(t) \/ EnqueueThrows(t) \/ EnqueueNotifies(t)
      PROVE  PlaceInv' /\ [Executor!Next]_<<Accepted, Executed, Phase>>
  <2>1. UNCHANGED Phase
    BY <1>5 DEF Enqueue, EnqueueThrows, EnqueueNotifies, Phase
  <2>2. CASE Enqueue(t)
    <3>1. PlaceInv'
      BY <1>1, <2>2, EnqueuePlace DEF PlaceInv, Enqueue
    <3>2. Phase = "open"
      BY <2>2 DEF Enqueue, Accepts, Phase, PlaceInv, Leaving
    <3>3. Executor!Accept(t)
      BY <2>1, <2>2, <3>2, EnqueuePlace DEF Executor!Accept
    <3> QED
      BY <3>1, <3>3 DEF Executor!Next
  <2>3. CASE EnqueueThrows(t)
    <3>1. Quiet
      BY <1>2, <2>3 DEF EnqueueThrows, PlaceInv, Typing
    <3> QED
      BY <1>3, <2>1, <3>1
  <2>4. CASE EnqueueNotifies(t)
    <3>1. \A w \in Workers : worker'[w] = "run" <=> worker[w] = "run"
      BY <2>4 DEF EnqueueNotifies, WakeOne, Waiting, PlaceInv, Typing
    <3>2. \A s \in Tasks : call'[s] \in {"notify", "returned"} <=> call[s] \in {"notify", "returned"}
      BY <2>4 DEF EnqueueNotifies, PlaceInv, Typing
    <3>3. Quiet
      BY <1>2, <2>4, <3>1, <3>2 DEF EnqueueNotifies
    <3> QED
      BY <1>3, <2>1, <3>3
  <2> QED
    BY <1>5, <2>2, <2>3, <2>4
<1>6. ASSUME Stop \/ StopNotifies \/ Join
      PROVE  PlaceInv' /\ [Executor!Next]_<<Accepted, Executed, Phase>>
  <2>1. Quiet
    <3>1. \A w \in Workers : worker'[w] = "run" <=> worker[w] = "run"
      BY <1>6 DEF Stop, StopNotifies, Join, WakeAll, Waiting, PlaceInv, Typing
    <3> QED
      BY <1>2, <1>6, <3>1 DEF Stop, StopNotifies, Join
  <2>2. PlaceInv'
    BY <1>1, <2>1 DEF PlaceInv, Quiet
  <2>3. CASE Stop
    <3>1. Phase = "open" /\ Phase' = "closing"
      BY <2>3 DEF Stop, Phase, PlaceInv, Leaving
    <3>2. Executor!Close
      BY <2>1, <3>1 DEF Executor!Close, Quiet
    <3> QED
      BY <2>2, <3>2 DEF Executor!Next
  <2>4. CASE StopNotifies
    <3>1. UNCHANGED Phase
      BY <2>4 DEF StopNotifies, Phase
    <3> QED
      BY <1>3, <2>1, <3>1
  <2>5. CASE Join
    <3>1. Phase = "closing" /\ Phase' = "closed"
      BY <2>5 DEF Join, Phase, PlaceInv, Leaving
    <3>2. tasks = << >> /\ \A w \in Workers : worker[w] = "done"
      BY <2>5, WorkerAssumption DEF Join, PlaceInv, Leaving
    <3>3. Queued = {} /\ Running = {}
      BY <3>2 DEF Queued, Running
    <3>4. Executed = Accepted
      BY <3>3 DEF PlaceInv, EachInOnePlace
    <3>5. Executor!Closed
      BY <2>1, <3>1, <3>4 DEF Executor!Closed, Quiet
    <3> QED
      BY <2>2, <3>5 DEF Executor!Next
  <2> QED
    BY <1>6, <2>3, <2>4, <2>5
<1>7. CASE UNCHANGED vars
  <2>1. Quiet /\ UNCHANGED Phase
    BY <1>2, <1>7 DEF vars, Phase
  <2> QED
    BY <1>3, <2>1
<1> QED
  BY <1>4, <1>5, <1>6, <1>7 DEF Next

LEMMA PlaceInit == Init => PlaceInv /\ Executor!Init
<1> SUFFICES ASSUME Init PROVE PlaceInv /\ Executor!Init
  OBVIOUS
<1>1. Typing /\ Leaving
  BY TypingInit
<1>2. executed \in [Tasks -> 0..1]
  BY DEF Init
<1>3. Queued = {} /\ Running = {} /\ Executed = {} /\ Accepted = {} /\ Phase = "open"
  BY DEF Init, Queued, Running, Executed, Accepted, Phase
<1>4. EachInOnePlace
  BY <1>3 DEF EachInOnePlace, Init
<1> QED
  BY <1>1, <1>2, <1>3, <1>4 DEF PlaceInv, Executor!Init

LEMMA PlaceInvariant == Spec => []PlaceInv
<1>1. PlaceInv /\ [Next]_vars => PlaceInv'
  BY PlaceStep
<1> QED
  BY PlaceInit, <1>1, PTL DEF Spec

\* Every reachable state is well typed; no task is run twice.
THEOREM TypeCorrect == Spec => []TypeOK
<1>1. PlaceInv => TypeOK
  BY DEF PlaceInv, Typing, TypeOK
<1> QED
  BY PlaceInvariant, <1>1, PTL

\* An accepted task is in the queue once, or with one worker, or done.
THEOREM TasksInOnePlace == Spec => []EachInOnePlace
<1>1. PlaceInv => EachInOnePlace
  BY DEF PlaceInv
<1> QED
  BY PlaceInvariant, <1>1, PTL

\* The pool is a safe executor: it executes accepted tasks only, each once,
\* and its destructor returns when none is left.
THEOREM ExecutorImplemented == Spec => Executor!Safety
<1>1. PlaceInv /\ [Next]_vars => [Executor!Next]_<<Accepted, Executed, Phase>>
  BY PlaceStep
<1> QED
  BY PlaceInit, PlaceInvariant, <1>1, PTL DEF Spec, Executor!Safety, Executor!vars

-----------------------------------------------------------------------------
(* The pool at rest.                                                       *)

\* Once the destructor has notified, no worker waits: the flag is set, and a
\* worker that sees it does not wait again.
NoneLeftWaiting == owner \in {"join", "joined"} => Waiting = {}

LEMMA NoneWaitingStep == WakeInv /\ NoneLeftWaiting /\ [Next]_vars => NoneLeftWaiting'
<1> SUFFICES ASSUME WakeInv, NoneLeftWaiting, [Next]_vars, owner' \in {"join", "joined"}
             PROVE  \A v \in Workers : worker'[v] # "waiting"
  BY DEF NoneLeftWaiting, Waiting
<1> USE DEF WakeInv, NoneLeftWaiting, Waiting
<1>1. ASSUME NEW w \in Workers, WorkerStep(w) \/ SpuriousWakeup(w)
      PROVE  \A v \in Workers : worker'[v] # "waiting"
  <2>1. owner' = owner /\ stop
    BY <1>1 DEF WorkerStep, Wait, Return, Take, Run, SpuriousWakeup, Leaving
  <2>2. ~Wait(w)
    BY <2>1 DEF Wait, MayWait
  <2> QED
    BY <1>1, <2>1, <2>2 DEF WorkerStep, Return, Take, Run, SpuriousWakeup, Typing
<1>2. ASSUME NEW t \in Tasks, Enqueue(t) \/ EnqueueThrows(t) \/ EnqueueNotifies(t)
      PROVE  \A v \in Workers : worker'[v] # "waiting"
  BY <1>2 DEF Enqueue, EnqueueThrows, EnqueueNotifies, WakeOne
<1>3. CASE Stop
  BY <1>3 DEF Stop
<1>4. CASE StopNotifies
  BY <1>4 DEF StopNotifies, WakeAll
<1>5. CASE Join
  BY <1>5 DEF Join
<1>6. CASE UNCHANGED vars
  BY <1>6 DEF vars
<1> QED
  BY <1>1, <1>2, <1>3, <1>4, <1>5, <1>6 DEF Next

\* No thread has anything to do before another moves: workers wait or have
\* left, and no notification is due.
Settled ==
  /\ \A w \in Workers : worker[w] \in {"waiting", "done"}
  /\ \A t \in Tasks : call[t] # "notify"
  /\ owner # "notify"

\* Then every accepted task is executed, and if the destructor was called every
\* worker has left, so that it can return.
DoneWhenSettled ==
  Settled => /\ Accepted = Executed
             /\ stop => \A w \in Workers : worker[w] = "done"

\* The pool never comes to rest with work undone or with a destructor waiting
\* for workers that wait: everyone waiting on everyone is excluded.
THEOREM NothingStuck == Spec => []DoneWhenSettled
<1>1. Init => NoneLeftWaiting
  BY DEF Init, NoneLeftWaiting
<1>2. Spec => []NoneLeftWaiting
  BY <1>1, NoneWaitingStep, WakeInvariant, PTL DEF Spec
<1>3. WakeInv /\ PlaceInv /\ NoneLeftWaiting => DoneWhenSettled
  <2> SUFFICES ASSUME WakeInv, PlaceInv, NoneLeftWaiting, Settled
               PROVE  /\ Accepted = Executed
                      /\ stop => \A w \in Workers : worker[w] = "done"
    BY DEF DoneWhenSettled
  <2>1. tasks = << >>
    BY DEF WakeInv, NoLostWakeup, Settled
  <2>2. Queued = {} /\ Running = {}
    BY <2>1 DEF Queued, Running, Settled
  <2>3. Accepted = Executed
    BY <2>2 DEF PlaceInv, EachInOnePlace
  <2>4. ASSUME stop PROVE \A w \in Workers : worker[w] = "done"
    <3>1. owner \in {"join", "joined"}
      BY <2>4 DEF WakeInv, Typing, Leaving, Settled
    <3> QED
      BY <3>1 DEF NoneLeftWaiting, Waiting, Settled
  <2> QED
    BY <2>3, <2>4
<1> QED
  BY <1>2, <1>3, WakeInvariant, PlaceInvariant, PTL
=============================================================================
