---------------------------- MODULE TaskExecutor ----------------------------
(***************************************************************************)
(* What a thread pool promises: every accepted task is executed once,      *)
(* closing refuses further tasks, and the pool is closed only when nothing *)
(* accepted is left to execute.                                            *)
(***************************************************************************)
CONSTANT Tasks
VARIABLES accepted, executed, phase
vars == <<accepted, executed, phase>>

Init == accepted = {} /\ executed = {} /\ phase = "open"

Accept(t) == /\ phase = "open" /\ t \in Tasks \ accepted
             /\ accepted' = accepted \cup {t}
             /\ UNCHANGED <<executed, phase>>

Execute(t) == /\ t \in accepted \ executed
              /\ executed' = executed \cup {t}
              /\ UNCHANGED <<accepted, phase>>

Close == /\ phase = "open"
         /\ phase' = "closing"
         /\ UNCHANGED <<accepted, executed>>

Closed == /\ phase = "closing" /\ executed = accepted
          /\ phase' = "closed"
          /\ UNCHANGED <<accepted, executed>>

Next == (\E t \in Tasks : Accept(t) \/ Execute(t)) \/ Close \/ Closed
Safety == Init /\ [][Next]_vars
Spec == /\ Safety
        /\ \A t \in Tasks : WF_vars(Execute(t))
        /\ WF_vars(Closed)
=============================================================================
