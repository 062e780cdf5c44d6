--------------------------- MODULE ExecutionPromise ---------------------------
(***************************************************************************)
(* What the execution lifecycle promises, without locks, callers, requests *)
(* and polls: executions come one at a time, and what is recorded of one   *)
(* when it ends was true, at that moment, of the very task that the        *)
(* service accepted for it.                                                *)
(***************************************************************************)
EXTENDS OpenHandsClient

VARIABLES running,   \* an execution is under way
          own,       \* the task the service accepted for it, if it told us
          active,    \* the record: a status and a task
          cancelled  \* the last thing said was to stop

vars == <<remote, running, own, active, cancelled>>

Unfinished == {"RUNNING", "WORKING", "UNKNOWN", "TIMEOUT"}

Init ==
  /\ ServiceInit
  /\ running = FALSE
  /\ own = NoTask
  /\ active = [status |-> "none", id |-> NoTask]
  /\ cancelled = FALSE

Start ==
  /\ ~running
  /\ active.status # "RUNNING"
  /\ running' = TRUE
  /\ own' = NoTask
  /\ active' = [status |-> "RUNNING", id |-> NoTask]
  /\ cancelled' = FALSE
  /\ UNCHANGED remote

\* The service takes the execution's task and says so.
Accepted ==
  /\ running /\ own = NoTask
  /\ \E t \in Tasks : Accept(t) /\ own' = t
  /\ UNCHANGED <<running, active, cancelled>>

\* What may be recorded of the execution's task as the service has it now.
TrueOf(t, status) ==
  \/ status = "COMPLETED" /\ remote[t] \notin {"absent"} \cup Waiting
  \/ status = "FAILED" /\ remote[t] = "error"
  \/ status \in Unfinished /\ remote[t] # "absent"

Finish ==
  /\ running
  /\ own # NoTask
  /\ \E status \in {"COMPLETED", "FAILED"} \cup Unfinished :
       /\ TrueOf(own, status)
       /\ active' = [status |-> status, id |-> own]
  /\ running' = FALSE
  /\ own' = NoTask
  /\ UNCHANGED <<remote, cancelled>>

\* The execution failed on the way; no task is named, but the service may
\* just have accepted one.
Fail ==
  /\ running
  /\ active' = [status |-> "FAILED", id |-> NoTask]
  /\ running' = FALSE
  /\ own' = NoTask
  /\ UNCHANGED remote \/ (own = NoTask /\ \E t \in Tasks : Accept(t))
  /\ UNCHANGED cancelled

Cancel ==
  /\ ~running
  /\ active # [status |-> "none", id |-> NoTask]
  /\ active' = [active EXCEPT !.status = "CANCELLED"]
  /\ cancelled' = TRUE
  /\ UNCHANGED <<remote, running, own>>

Forget ==
  /\ ~running
  /\ active' = [status |-> "none", id |-> NoTask]
  /\ cancelled' = TRUE
  /\ UNCHANGED <<remote, running, own>>

\* The service works, and takes tasks for investigations.
Service ==
  /\ \E t \in Tasks : Advance(t) \/ (~running /\ Accept(t))
  /\ UNCHANGED <<running, own, active, cancelled>>

Next == Start \/ Accepted \/ Finish \/ Fail \/ Cancel \/ Forget \/ Service

Spec == Init /\ [][Next]_vars
=============================================================================
