-------------------------- MODULE ExecutionLifecycle --------------------------
(***************************************************************************)
(* internal/intent/lifecycle.go with the callers it has in                 *)
(* integrations/telegram/cmd/bot/router.go: goroutines call Execute and    *)
(* StopExecution; lc.mu is held through a whole dispatch to OpenHands,     *)
(* which is several requests long and may end in an answer, an error or a  *)
(* timeout.  A call that comes from the Router (intent = nil) then appends *)
(* the message and the answer to the history, each under the lock.         *)
(***************************************************************************)
EXTENDS OpenHandsClient, Intent

CONSTANTS Callers,     \* the goroutines that use the lifecycle
          NoCaller,    \* lc.mu is free
          Requests,    \* the calls they may make, a set of Request records
          MaxPolls,    \* polls that fit between the start and the deadline
          HistoryMax   \* 50 in AddToHistory

\* A call of StopExecution, or of Execute with a message and an intent.
Request == [op : {"message", "stop"}, intent : IntentTypes \cup {"nil"},
            text : Message]

ASSUME LifecycleAssumption ==
  /\ NoCaller \notin Callers
  /\ Requests \subseteq Request
  /\ MaxPolls \in Nat \ {0}
  /\ HistoryMax \in Nat \ {0}

VARIABLES configured,   \* NewExecutionLifecycle found an API key: lc.client # nil
          mu,           \* the caller that holds lc.mu
          active,       \* lc.ActiveTask
          isCancelled,  \* lc.IsCancelled
          history,      \* the roles in lc.History
          pc,           \* where each caller is
          req,          \* the call it is making
          task,         \* the id its StartExecution returned
          polls,        \* iterations of its PollExecution
          res,          \* its latest ExecutionResult
          reply         \* what its latest call returned

lifecycleVars == <<mu, active, isCancelled>>
localVars     == <<req, task, polls, res>>   \* locals of the call
vars == <<remote, configured, mu, active, isCancelled, history, pc, req, task,
          polls, res, reply>>

-----------------------------------------------------------------------------

NoActive   == [status |-> "none", id |-> NoTask]
InProgress == {"RUNNING", "IN_PROGRESS"}
NoRequest  == [op |-> "message", intent |-> "Unknown", text |-> {}]

Dispatching == {"start", "poll", "fetch"}
Replies     == {"none", "busy", "unconfigured", "text", "error", "result",
                "cancelled", "no active"}

\* Where a call goes on when Execute has returned: the Router keeps history.
ViaRouter(q)   == q.op = "message" /\ q.intent = "nil"
AfterReturn(q) == IF ViaRouter(q) THEN "user" ELSE "idle"

\* The intent Execute switches on.
Type(c) == IF req[c].intent = "nil" THEN InferIntent(req[c].text)
                                    ELSE req[c].intent

Init ==
  /\ ServiceInit
  /\ configured \in BOOLEAN
  /\ mu = NoCaller
  /\ active = NoActive
  /\ isCancelled = FALSE
  /\ history = << >>
  /\ pc    = [c \in Callers |-> "idle"]
  /\ req   = [c \in Callers |-> NoRequest]
  /\ task  = [c \in Callers |-> NoTask]
  /\ polls = [c \in Callers |-> 0]
  /\ res   = [c \in Callers |-> UnknownResult]
  /\ reply = [c \in Callers |-> "none"]

-----------------------------------------------------------------------------
(* Calls.                                                                  *)

\* A caller enters Execute or StopExecution and waits for lc.mu.
Call(c) ==
  /\ pc[c] = "idle"
  /\ \E q \in Requests :
       /\ ViaRouter(q) => configured
       /\ req' = [req EXCEPT ![c] = q]
  /\ pc' = [pc EXCEPT ![c] = "waiting"]
  /\ reply' = [reply EXCEPT ![c] = "none"]
  /\ UNCHANGED <<remote, configured, lifecycleVars, history, task, polls, res>>

\* Router.Route answers without the lifecycle when there is no client.
RouteRefuses(c) ==
  /\ pc[c] = "idle"
  /\ ~configured
  /\ \E q \in Requests : ViaRouter(q)
  /\ reply' = [reply EXCEPT ![c] = "unconfigured"]
  /\ UNCHANGED <<remote, configured, lifecycleVars, history, pc, localVars>>

\* Leave Execute or StopExecution with an answer, releasing lc.mu; the locals
\* of the call are gone.
Return(c, answer) ==
  /\ mu' = NoCaller
  /\ pc' = [pc EXCEPT ![c] = AfterReturn(req[c])]
  /\ reply' = [reply EXCEPT ![c] = answer]
  /\ req' = [req EXCEPT ![c] = NoRequest]
  /\ task' = [task EXCEPT ![c] = NoTask]
  /\ polls' = [polls EXCEPT ![c] = 0]
  /\ res' = [res EXCEPT ![c] = UnknownResult]

-----------------------------------------------------------------------------
(* Handlers that hold the lock without waiting for anything: one step.     *)

Entering(c) == pc[c] = "waiting" /\ mu = NoCaller
Executing(c, type) == Entering(c) /\ req[c].op = "message" /\ Type(c) = type

StopExecution_unlocked(c) ==   \* variant: lc.mu not taken
  /\ pc[c] = "waiting" /\ req[c].op = "stop" /\ active # NoActive
  /\ active' = [active EXCEPT !.status = "CANCELLED"]
  /\ isCancelled' = TRUE
  /\ pc' = [pc EXCEPT ![c] = "idle"]
  /\ UNCHANGED <<remote, configured, mu, history, localVars, reply>>

StopExecution(c) ==
  /\ Entering(c)
  /\ req[c].op = "stop"
  /\ \/ active = NoActive /\ Return(c, "no active")
        /\ UNCHANGED <<active, isCancelled>>
     \/ active # NoActive /\ Return(c, "cancelled")
        /\ active' = [active EXCEPT !.status = "CANCELLED"]
        /\ isCancelled' = TRUE
  /\ UNCHANGED <<remote, configured, history>>

handleBlocking(c) ==
  /\ Executing(c, "Blocking")
  /\ isCancelled' = TRUE
  /\ active' = NoActive
  /\ Return(c, "cancelled")
  /\ UNCHANGED <<remote, configured, history>>

\* Planning, prioritization, auditing, clarification, acknowledgment and the
\* default only compose a text; so does an investigation without a client.
handleText(c) ==
  /\ Entering(c) /\ req[c].op = "message"
  /\ \/ Type(c) \notin {"Blocking", "Investigation", "Execution"}
     \/ Type(c) = "Investigation" /\ ~configured
  /\ Return(c, "text")
  /\ UNCHANGED <<remote, configured, active, isCancelled, history>>

\* handleExecution without a client.
executionUnconfigured(c) ==
  /\ Executing(c, "Execution")
  /\ ~configured
  /\ Return(c, "unconfigured")
  /\ UNCHANGED <<remote, configured, active, isCancelled, history>>

\* "There's already an execution in progress."
executionBusy(c) ==
  /\ Executing(c, "Execution")
  /\ configured
  /\ active.status \in InProgress
  /\ Return(c, "busy")
  /\ UNCHANGED <<remote, configured, active, isCancelled, history>>

-----------------------------------------------------------------------------
(* Handlers that dispatch to OpenHands, holding lc.mu all the while.       *)

BeginDispatch(c) ==
  /\ mu' = c
  /\ pc' = [pc EXCEPT ![c] = "start"]
  /\ UNCHANGED <<remote, configured, history, localVars, reply>>

handleExecution_unrecorded(c) ==   \* variant: ActiveTask not replaced
  /\ Executing(c, "Execution")
  /\ configured
  /\ active.status \notin InProgress
  /\ isCancelled' = FALSE
  /\ BeginDispatch(c)
  /\ UNCHANGED active

handleExecution(c) ==
  /\ Executing(c, "Execution")
  /\ configured
  /\ active.status \notin InProgress
  /\ isCancelled' = FALSE
  /\ active' = [status |-> "RUNNING", id |-> NoTask]
  /\ BeginDispatch(c)

handleInvestigation(c) ==
  /\ Executing(c, "Investigation")
  /\ configured
  /\ BeginDispatch(c)
  /\ UNCHANGED <<active, isCancelled>>

FinishDispatch_always(c, r) ==   \* variant: an investigation records its result
  /\ active' = [status |-> r.status, id |-> task[c]]
  /\ Return(c, "result")
  /\ UNCHANGED <<configured, isCancelled, history>>

\* Dispatch returned a result; only an execution records it.
FinishDispatch(c, r) ==
  /\ active' = IF Type(c) = "Execution"
                 THEN [status |-> r.status, id |-> task[c]] ELSE active
  /\ Return(c, "result")
  /\ UNCHANGED <<configured, isCancelled, history>>

FailDispatch_locked(c) ==   \* variant: the error path does not unlock
  /\ pc' = [pc EXCEPT ![c] = AfterReturn(req[c])]
  /\ reply' = [reply EXCEPT ![c] = "error"]
  /\ UNCHANGED <<configured, lifecycleVars, history, localVars>>

FailDispatch_silent(c) ==   \* variant: the error is not recorded
  /\ Return(c, "error")
  /\ UNCHANGED <<configured, active, isCancelled, history>>

FailDispatch_withId(c) ==   \* variant: every error is recorded with the id
  /\ active' = IF Type(c) = "Execution"
                 THEN [status |-> "FAILED", id |-> task[c]] ELSE active
  /\ Return(c, "error")
  /\ UNCHANGED <<configured, isCancelled, history>>

\* Dispatch returned an error: ActiveTask keeps the id it had.
FailDispatch(c) ==
  /\ active' = IF Type(c) = "Execution"
                 THEN [active EXCEPT !.status = "FAILED"] ELSE active
  /\ Return(c, "error")
  /\ UNCHANGED <<configured, isCancelled, history>>

\* One round of PollExecution ended with r: return it, or sleep and go on.
Settle(c, r) ==
  IF Settles(r)
    THEN FinishDispatch(c, r)
    ELSE /\ polls' = [polls EXCEPT ![c] = @ + 1]
         /\ res' = [res EXCEPT ![c] = r]
         /\ pc' = [pc EXCEPT ![c] = "poll"]
         /\ UNCHANGED <<configured, lifecycleVars, history, req, task, reply>>

StartExecution(c) ==
  /\ pc[c] = "start"
  /\ \E t \in Tasks :
       /\ Accept(t)
       /\ task' = [task EXCEPT ![c] = t]
  /\ pc' = [pc EXCEPT ![c] = "poll"]
  /\ UNCHANGED <<configured, lifecycleVars, history, req, polls, res, reply>>

\* The POST failed, its answer could not be read, or it carried no id; the
\* service may have accepted the task all the same.
StartFails(c) ==
  /\ pc[c] = "start"
  /\ UNCHANGED remote \/ \E t \in Tasks : Accept(t)
  /\ FailDispatch(c)

\* First request of GetExecutionStatus.
PollTask(c) ==
  /\ pc[c] = "poll"
  /\ polls[c] < MaxPolls
  /\ \E detail \in BOOLEAN :
       IF remote[task[c]] \in InConversation
         THEN /\ res' = [res EXCEPT ![c] = StatusResult("READY", detail, {})]
              /\ pc' = [pc EXCEPT ![c] = "fetch"]
              /\ UNCHANGED <<configured, lifecycleVars, history, req, task,
                             polls, reply>>
         ELSE Settle(c, StatusResult(TaskStatusOf(remote[task[c]]), detail, {}))
  /\ UNCHANGED remote

\* The service knows no such task (yet).
PollEmpty(c) ==
  /\ pc[c] = "poll"
  /\ polls[c] < MaxPolls
  /\ Settle(c, UnknownResult)
  /\ UNCHANGED remote

\* Transport, status-code or parse error: PollExecution gives up at once.
PollFails(c) ==
  /\ pc[c] = "poll"
  /\ polls[c] < MaxPolls
  /\ FailDispatch(c)
  /\ UNCHANGED remote

\* Second request: the conversation, which may have moved on since the first;
\* when it cannot be had the result goes without an output.
FetchConversation(c) ==
  /\ pc[c] = "fetch"
  /\ \/ Settle(c, res[c])
     \/ \E fields \in SUBSET {"runtime", "title"} :
          Settle(c, StatusResult("READY", res[c].error,
                      getConversationDetails(remote[task[c]], fields)))
  /\ UNCHANGED remote

Deadline_never(c) ==   \* variant: polling without a deadline
  /\ pc[c] = "poll"
  /\ polls[c] > MaxPolls
  /\ FinishDispatch(c, TimeoutResult)
  /\ UNCHANGED remote

\* The deadline passes; the first round always runs.
Deadline(c) ==
  /\ pc[c] = "poll"
  /\ polls[c] > 0
  /\ FinishDispatch(c, TimeoutResult)
  /\ UNCHANGED remote

-----------------------------------------------------------------------------
(* The Router's two calls of AddToHistory.                                 *)

Bounded_early(h) ==   \* variant: dropped one entry too early
  IF Len(h) >= HistoryMax THEN SubSeq(h, Len(h) - HistoryMax + 2, Len(h)) ELSE h

Bounded(h) == IF Len(h) > HistoryMax
                THEN SubSeq(h, Len(h) - HistoryMax + 1, Len(h)) ELSE h

AddToHistory(c, role, next) ==
  /\ pc[c] = role
  /\ mu = NoCaller
  /\ history' = Bounded(Append(history, role))
  /\ pc' = [pc EXCEPT ![c] = next]
  /\ UNCHANGED <<remote, configured, lifecycleVars, localVars, reply>>

-----------------------------------------------------------------------------

\* Steps that wait for lc.mu.
Acquire(c) ==
  \/ StopExecution(c) \/ handleBlocking(c) \/ handleText(c)
  \/ executionUnconfigured(c) \/ executionBusy(c)
  \/ handleExecution(c) \/ handleInvestigation(c)
  \/ AddToHistory(c, "user", "assistant") \/ AddToHistory(c, "assistant", "idle")

\* Steps of a dispatch, each ended by an answer or the HTTP client's timeout.
DispatchStep(c) ==
  \/ StartExecution(c) \/ StartFails(c) \/ PollTask(c) \/ PollEmpty(c)
  \/ PollFails(c) \/ FetchConversation(c) \/ Deadline(c)

Service ==
  /\ \E t \in Tasks : Advance(t)
  /\ UNCHANGED <<configured, lifecycleVars, history, pc, localVars, reply>>

Next ==
  \/ \E c \in Callers : Call(c) \/ RouteRefuses(c) \/ Acquire(c) \/ DispatchStep(c)
  \/ Service

Spec == Init /\ [][Next]_vars

\* Go runs every goroutine that can run; sync.RWMutex hands the lock over to
\* a writer that has waited long enough.
Fairness == \A c \in Callers : SF_vars(Acquire(c)) /\ WF_vars(DispatchStep(c))

FairSpec == Spec /\ Fairness

-----------------------------------------------------------------------------
(* Properties.                                                             *)

SharedTypeOK ==
  /\ remote \in [Tasks -> RemoteState]
  /\ configured \in BOOLEAN
  /\ mu \in Callers \cup {NoCaller}
  /\ active \in [status : ResultStatus \cup {"none", "CANCELLED"},
                 id : Tasks \cup {NoTask}]
  /\ isCancelled \in BOOLEAN
  /\ history \in Seq({"user", "assistant"})

CallTypeOK ==
  /\ pc \in [Callers -> {"idle", "waiting", "user", "assistant"} \cup Dispatching]
  /\ req \in [Callers -> Request]
  /\ task \in [Callers -> Tasks \cup {NoTask}]
  /\ polls \in [Callers -> 0..MaxPolls]
  /\ res \in [Callers -> Result]
  /\ reply \in [Callers -> Replies]

TypeOK == SharedTypeOK /\ CallTypeOK

\* At most one goroutine is inside a dispatch, and it is the one that holds
\* lc.mu: no path out of Dispatch leaves the lock taken or frees it early.
DispatchHoldsLock ==
  \A c \in Callers : pc[c] \in Dispatching <=> mu = c

\* An execution that is recorded as RUNNING while nobody dispatches (the
\* early return of PollExecution on an error detail) names a task that the
\* service accepted; one that never got an id is recorded as FAILED.
StrandedHasTask ==
  mu = NoCaller /\ active.status \in InProgress
    => active.id \in Tasks /\ remote[active.id] # "absent"

\* ActiveTask is COMPLETED only if its remote task got as far as a
\* conversation: no lost answer or empty list is taken for success.
CompletedReachedConversation ==
  active.status = "COMPLETED" =>
    active.id \in Tasks /\ remote[active.id] \notin {"absent"} \cup Waiting

\* ActiveTask is FAILED under a task id only if that very task failed; every
\* other error leaves the id empty.
FailedNamesFailedTask ==
  active.status = "FAILED" /\ active.id # NoTask => remote[active.id] = "error"

\* What makes these inductive: a dispatch is about an accepted task, a
\* conversation is fetched for a task that has one, and a running execution
\* is recorded as RUNNING without an id until its dispatch returns.
DispatchTracked ==
  \A c \in Callers :
    /\ pc[c] \in {"poll", "fetch"} =>
         task[c] \in Tasks /\ remote[task[c]] # "absent"
    /\ pc[c] = "fetch" =>
         /\ polls[c] < MaxPolls
         /\ remote[task[c]] \notin Waiting
         /\ res[c].status = "RUNNING"

ExecutionInFlight == mu # NoCaller /\ Type(mu) = "Execution"

ActiveMatchesDispatch ==
  /\ ExecutionInFlight => active = [status |-> "RUNNING", id |-> NoTask]
  /\ ~ExecutionInFlight /\ active.status \in InProgress
       => active.id \in Tasks /\ remote[active.id] # "absent"

LifecycleInv ==
  /\ TypeOK /\ DispatchHoldsLock /\ DispatchTracked /\ ActiveMatchesDispatch
  /\ CompletedReachedConversation /\ FailedNamesFailedTask

\* While a dispatch is under way nobody else touches ActiveTask or
\* IsCancelled, and an investigation leaves both alone to its end: a stop or
\* a late result cannot land on another call's execution.
DispatchUndisturbed ==
  [][mu # NoCaller /\ (mu' = mu \/ Type(mu) # "Execution")
       => UNCHANGED <<active, isCancelled>>]_vars

\* A recorded outcome (completed, failed, timed out, cancelled) is replaced
\* only by a new execution, a cancellation or a reset, never by the outcome
\* of an earlier dispatch.
OutcomeIsFinal ==
  [][active.status \notin InProgress \cup {"none"} /\ active' # active
       => \/ active'.status = "CANCELLED" /\ active'.id = active.id
          \/ active' = NoActive
          \/ active'.status = "RUNNING" /\ mu' # NoCaller]_vars

\* The lifecycle implements its promise: seen from outside, the requests of a
\* dispatch, its polls and the lock are one execution that starts, gets a task
\* and ends with what is true of that task.
OwnTask == IF ExecutionInFlight THEN task[mu] ELSE NoTask

Promise == INSTANCE ExecutionPromise
             WITH running <- ExecutionInFlight, own <- OwnTask,
                  cancelled <- isCancelled

KeepsPromise == Promise!Spec

\* Every call returns, stop requests included, whatever the service does: the
\* deadline bounds a dispatch and the lock is handed on.
CallsReturn ==
  \A c \in Callers : pc[c] = "waiting" ~> pc[c] = "idle"
=============================================================================
