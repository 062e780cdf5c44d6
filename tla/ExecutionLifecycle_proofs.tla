---------------------- MODULE ExecutionLifecycle_proofs ----------------------
(***************************************************************************)
(* Proofs about ExecutionLifecycle, for any callers, tasks, requests and   *)
(* bounds.                                                                 *)
(***************************************************************************)
EXTENDS ExecutionLifecycle, TLAPS

LEMMA RemoteStateFacts ==
  /\ \A s \in RemoteState \ {"absent"} :
       TaskStatusOf(s) \in {"WORKING", "IN_PROGRESS", "READY", "FINISHED", "ERROR"}
  /\ \A e \in ServiceSteps : e[1] \in Live \cup {"done"} /\ e[2] \in RemoteState
PROOF BY DEF RemoteState, Live, Waiting, Over, InConversation, TaskStatusOf,
             ServiceSteps

\* Whatever the service answers, the client makes a well-formed result of it.
LEMMA StatusResultType ==
  ASSUME NEW s \in {"WORKING", "IN_PROGRESS", "READY", "FINISHED", "ERROR"},
         NEW d \in BOOLEAN, NEW o \in SUBSET OutputParts
  PROVE  StatusResult(s, d, o) \in Result
PROOF BY DEF StatusResult, MapStatus, Result, ResultStatus

LEMMA ConversationType ==
  ASSUME NEW s, NEW f \in SUBSET {"runtime", "title"}
  PROVE  getConversationDetails(s, f) \in SUBSET OutputParts
PROOF BY DEF getConversationDetails, OutputParts

-----------------------------------------------------------------------------
(* Type correctness.                                                       *)

\* The end of a call gives every local of the caller a value of its type.
LEMMA ReturnType ==
  ASSUME CallTypeOK, NEW c \in Callers, NEW a \in Replies, Return(c, a)
  PROVE  CallTypeOK' /\ mu' = NoCaller
PROOF
<1> USE DEF CallTypeOK, Return
<1>1. NoRequest \in Request /\ UnknownResult \in Result
  BY DEF NoRequest, Request, IntentTypes, Message, UnknownResult, Result, ResultStatus
<1>2. 0 \in 0..MaxPolls
  BY LifecycleAssumption
<1>3. AfterReturn(req[c]) \in {"user", "idle"}
  BY DEF AfterReturn
<1>4. (pc \in [Callers -> {"idle", "waiting", "user", "assistant"} \cup Dispatching])'
  BY <1>3
<1>5. (req \in [Callers -> Request])'
  BY <1>1
<1>6. (task \in [Callers -> Tasks \cup {NoTask}])'
  OBVIOUS
<1>7. (polls \in [Callers -> 0..MaxPolls])'
  BY <1>2
<1>8. (res \in [Callers -> Result])'
  BY <1>1
<1>9. (reply \in [Callers -> Replies])'
  OBVIOUS
<1> QED BY <1>4, <1>5, <1>6, <1>7, <1>8, <1>9

LEMMA FinishType ==
  ASSUME TypeOK, UNCHANGED remote, NEW c \in Callers, NEW r \in Result,
         FinishDispatch(c, r)
  PROVE  TypeOK'
PROOF
<1>1. Return(c, "result") /\ "result" \in Replies
  BY DEF FinishDispatch, Replies
<1>2. CallTypeOK' /\ mu' = NoCaller
  BY <1>1, ReturnType DEF TypeOK
<1>3. task[c] \in Tasks \cup {NoTask} /\ r.status \in ResultStatus
  BY DEF TypeOK, CallTypeOK, Result
<1>4. SharedTypeOK'
  BY <1>2, <1>3 DEF FinishDispatch, TypeOK, SharedTypeOK
<1> QED BY <1>2, <1>4 DEF TypeOK

LEMMA SettleType ==
  ASSUME TypeOK, UNCHANGED remote, NEW c \in Callers, NEW r \in Result,
         polls[c] < MaxPolls, Settle(c, r)
  PROVE  TypeOK'
PROOF
<1>1. CASE Settles(r)
  BY <1>1, FinishType DEF Settle
<1>2. CASE ~Settles(r)
  <2>1. SharedTypeOK'
    BY <1>2 DEF Settle, lifecycleVars, TypeOK, SharedTypeOK
  <2>2. polls[c] + 1 \in 0..MaxPolls
    BY LifecycleAssumption DEF TypeOK, CallTypeOK
  <2>3. (pc \in [Callers -> {"idle", "waiting", "user", "assistant"} \cup Dispatching])'
    BY <1>2 DEF Settle, TypeOK, CallTypeOK, Dispatching
  <2>4. (polls \in [Callers -> 0..MaxPolls] /\ res \in [Callers -> Result])'
    BY <1>2, <2>2 DEF Settle, TypeOK, CallTypeOK
  <2>5. CallTypeOK'
    BY <1>2, <2>3, <2>4 DEF Settle, TypeOK, CallTypeOK
  <2> QED BY <2>1, <2>5 DEF TypeOK
<1> QED BY <1>1, <1>2

\* A step that leaves the locals of the calls and the history alone, but may
\* move one caller to another place.
LEMMA MoveType ==
  ASSUME TypeOK, NEW c \in Callers,
         NEW l \in {"idle", "waiting", "user", "assistant"} \cup Dispatching,
         pc' = [pc EXCEPT ![c] = l], UNCHANGED <<localVars, reply>>
  PROVE  CallTypeOK'
PROOF
<1>1. (pc \in [Callers -> {"idle", "waiting", "user", "assistant"} \cup Dispatching])'
  BY DEF TypeOK, CallTypeOK
<1> QED BY <1>1 DEF TypeOK, CallTypeOK, localVars

LEMMA BeginDispatchType ==
  ASSUME TypeOK, NEW c \in Callers, BeginDispatch(c),
         active' \in [status : ResultStatus \cup {"none", "CANCELLED"},
                      id : Tasks \cup {NoTask}],
         isCancelled' \in BOOLEAN
  PROVE  TypeOK'
PROOF
<1>1. CallTypeOK'
  BY MoveType DEF BeginDispatch, Dispatching
<1>2. SharedTypeOK'
  BY DEF BeginDispatch, TypeOK, SharedTypeOK
<1> QED BY <1>1, <1>2 DEF TypeOK

LEMMA AcceptType ==
  ASSUME remote \in [Tasks -> RemoteState], NEW t \in Tasks, Accept(t)
  PROVE  remote' \in [Tasks -> RemoteState]
PROOF BY DEF Accept, RemoteState, Live, Waiting

LEMMA FailType ==
  ASSUME TypeOK, remote' \in [Tasks -> RemoteState], NEW c \in Callers,
         FailDispatch(c)
  PROVE  TypeOK'
PROOF
<1>1. Return(c, "error") /\ "error" \in Replies
  BY DEF FailDispatch, Replies
<1>2. CallTypeOK' /\ mu' = NoCaller
  BY <1>1, ReturnType DEF TypeOK
<1>3. SharedTypeOK'
  BY <1>2 DEF FailDispatch, TypeOK, SharedTypeOK, ResultStatus
<1> QED BY <1>2, <1>3 DEF TypeOK

LEMMA BoundedType ==
  ASSUME NEW h \in Seq({"user", "assistant"})
  PROVE  Bounded(h) \in Seq({"user", "assistant"})
PROOF BY LifecycleAssumption DEF Bounded

\* The steps that wait for the lock.
LEMMA AcquireType ==
  ASSUME TypeOK, NEW c \in Callers, Acquire(c)
  PROVE  TypeOK'
PROOF
<1> USE DEF Executing, Entering
<1>1. {"no active", "cancelled", "text", "unconfigured", "busy"} \subseteq Replies
  BY DEF Replies
<1>2. CASE StopExecution(c)
  <2>1. CallTypeOK' /\ mu' = NoCaller
    BY <1>1, <1>2, ReturnType DEF StopExecution, TypeOK
  <2>2. SharedTypeOK'
    <3>1. CASE active = NoActive /\ UNCHANGED <<active, isCancelled>>
      BY <1>2, <2>1, <3>1 DEF StopExecution, TypeOK, SharedTypeOK
    <3>2. CASE /\ active' = [active EXCEPT !.status = "CANCELLED"]
               /\ isCancelled' = TRUE
      BY <1>2, <2>1, <3>2 DEF StopExecution, TypeOK, SharedTypeOK
    <3> QED BY <1>2, <3>1, <3>2 DEF StopExecution
  <2> QED BY <2>1, <2>2 DEF TypeOK
<1>3. CASE handleBlocking(c)
  <2>1. CallTypeOK' /\ mu' = NoCaller
    BY <1>1, <1>3, ReturnType DEF handleBlocking, TypeOK
  <2>2. SharedTypeOK'
    BY <1>3, <2>1 DEF handleBlocking, TypeOK, SharedTypeOK, NoActive
  <2> QED BY <2>1, <2>2 DEF TypeOK
<1>4. CASE handleText(c) \/ executionUnconfigured(c) \/ executionBusy(c)
  <2>1. CallTypeOK' /\ mu' = NoCaller
    BY <1>1, <1>4, ReturnType
    DEF handleText, executionUnconfigured, executionBusy, TypeOK
  <2>2. UNCHANGED <<remote, configured, active, isCancelled, history>>
    BY <1>4 DEF handleText, executionUnconfigured, executionBusy
  <2> QED BY <2>1, <2>2 DEF TypeOK, SharedTypeOK
<1>5. CASE handleExecution(c)
  BY <1>5, BeginDispatchType DEF handleExecution, ResultStatus
<1>6. CASE handleInvestigation(c)
  BY <1>6, BeginDispatchType DEF handleInvestigation, TypeOK, SharedTypeOK
<1>7. ASSUME NEW role \in {"user", "assistant"},
             NEW next \in {"assistant", "idle"}, AddToHistory(c, role, next)
      PROVE  TypeOK'
  <2>1. CallTypeOK'
    BY <1>7, MoveType DEF AddToHistory
  <2>2. Append(history, role) \in Seq({"user", "assistant"})
    BY DEF TypeOK, SharedTypeOK
  <2>3. history' \in Seq({"user", "assistant"})
    BY <1>7, <2>2, BoundedType DEF AddToHistory
  <2>4. SharedTypeOK'
    BY <1>7, <2>3 DEF AddToHistory, lifecycleVars, TypeOK, SharedTypeOK
  <2> QED BY <2>1, <2>4 DEF TypeOK
<1> QED BY <1>2, <1>3, <1>4, <1>5, <1>6, <1>7 DEF Acquire

\* The steps of a dispatch.
LEMMA DispatchType ==
  ASSUME TypeOK, NEW c \in Callers, DispatchStep(c),
         pc[c] \in {"poll", "fetch"} =>
           task[c] \in Tasks /\ remote[task[c]] # "absent",
         pc[c] = "fetch" => polls[c] < MaxPolls
  PROVE  TypeOK'
PROOF
<1>1. CASE StartExecution(c)
  <2> PICK t \in Tasks : Accept(t) /\ task' = [task EXCEPT ![c] = t]
    BY <1>1 DEF StartExecution
  <2>1. SharedTypeOK'
    BY <1>1, AcceptType DEF StartExecution, lifecycleVars, TypeOK, SharedTypeOK
  <2>2. (pc \in [Callers -> {"idle", "waiting", "user", "assistant"} \cup Dispatching])'
    BY <1>1 DEF StartExecution, TypeOK, CallTypeOK, Dispatching
  <2>3. CallTypeOK'
    BY <1>1, <2>2 DEF StartExecution, TypeOK, CallTypeOK
  <2> QED BY <2>1, <2>3 DEF TypeOK
<1>2. CASE StartFails(c)
  BY <1>2, AcceptType, FailType DEF StartFails, TypeOK, SharedTypeOK
<1>3. CASE PollTask(c)
  <2> PICK detail \in BOOLEAN :
        IF remote[task[c]] \in InConversation
          THEN /\ res' = [res EXCEPT ![c] = StatusResult("READY", detail, {})]
               /\ pc' = [pc EXCEPT ![c] = "fetch"]
               /\ UNCHANGED <<configured, lifecycleVars, history, req, task,
                              polls, reply>>
          ELSE Settle(c, StatusResult(TaskStatusOf(remote[task[c]]), detail, {}))
    BY <1>3 DEF PollTask
  <2>1. remote[task[c]] \in RemoteState \ {"absent"}
    BY <1>3 DEF PollTask, TypeOK, SharedTypeOK
  <2>2. StatusResult(TaskStatusOf(remote[task[c]]), detail, {}) \in Result
    BY <2>1, RemoteStateFacts, StatusResultType
  <2>3. CASE remote[task[c]] \in InConversation
    <3>1. StatusResult("READY", detail, {}) \in Result
      BY StatusResultType
    <3>2. (res \in [Callers -> Result])'
      BY <2>3, <3>1 DEF TypeOK, CallTypeOK
    <3>3. (pc \in [Callers -> {"idle", "waiting", "user", "assistant"} \cup Dispatching])'
      BY <2>3 DEF TypeOK, CallTypeOK, Dispatching
    <3>4. SharedTypeOK' /\ UNCHANGED <<req, task, polls, reply>>
      BY <1>3, <2>3 DEF PollTask, lifecycleVars, TypeOK, SharedTypeOK
    <3> QED BY <3>2, <3>3, <3>4 DEF TypeOK, CallTypeOK
  <2>4. CASE remote[task[c]] \notin InConversation
    BY <1>3, <2>2, <2>4, SettleType DEF PollTask
  <2> QED BY <2>3, <2>4
<1>4. CASE PollEmpty(c)
  <2>1. UnknownResult \in Result
    BY DEF UnknownResult, Result, ResultStatus
  <2> QED BY <1>4, <2>1, SettleType DEF PollEmpty
<1>5. CASE PollFails(c)
  BY <1>5, FailType DEF PollFails, TypeOK, SharedTypeOK
<1>6. CASE FetchConversation(c)
  <2>1. res[c] \in Result /\ res[c].error \in BOOLEAN /\ polls[c] < MaxPolls
    BY <1>6 DEF FetchConversation, TypeOK, CallTypeOK, Result
  <2>2. CASE Settle(c, res[c])
    BY <1>6, <2>1, <2>2, SettleType DEF FetchConversation
  <2>3. ASSUME NEW fields \in SUBSET {"runtime", "title"},
               Settle(c, StatusResult("READY", res[c].error,
                           getConversationDetails(remote[task[c]], fields)))
        PROVE  TypeOK'
    <3>1. getConversationDetails(remote[task[c]], fields) \in SUBSET OutputParts
      BY ConversationType
    <3>2. StatusResult("READY", res[c].error,
            getConversationDetails(remote[task[c]], fields)) \in Result
      BY <2>1, <3>1, StatusResultType
    <3> QED BY <1>6, <2>1, <2>3, <3>2, SettleType DEF FetchConversation
  <2> QED BY <1>6, <2>2, <2>3 DEF FetchConversation
<1>7. CASE Deadline(c)
  <2>1. TimeoutResult \in Result
    BY DEF TimeoutResult, Result, ResultStatus
  <2> QED BY <1>7, <2>1, FinishType DEF Deadline
<1> QED BY <1>1, <1>2, <1>3, <1>4, <1>5, <1>6, <1>7 DEF DispatchStep

-----------------------------------------------------------------------------
(* The inductive invariant.                                                *)

\* The part of LifecycleInv that is not typing.
LifecycleFacts ==
  /\ DispatchHoldsLock /\ DispatchTracked /\ ActiveMatchesDispatch
  /\ CompletedReachedConversation /\ FailedNamesFailedTask

\* The service only makes progress: an accepted task stays accepted, one that
\* reached its conversation is past waiting for good, a failed one is final.
RemoteProgresses ==
  \A t \in Tasks :
    /\ remote[t] # "absent" => remote'[t] # "absent"
    /\ remote[t] \notin {"absent"} \cup Waiting
         => remote'[t] \notin {"absent"} \cup Waiting
    /\ remote[t] = "error" => remote'[t] = "error"

LEMMA AcceptProgresses ==
  ASSUME remote \in [Tasks -> RemoteState], NEW t \in Tasks, Accept(t)
  PROVE  RemoteProgresses /\ remote'[t] = "queued"
PROOF BY DEF Accept, RemoteProgresses

LEMMA AdvanceProgresses ==
  ASSUME remote \in [Tasks -> RemoteState], NEW t \in Tasks, Advance(t)
  PROVE  RemoteProgresses /\ remote' \in [Tasks -> RemoteState]
PROOF
<1> PICK s \in RemoteState : /\ <<remote[t], s>> \in ServiceSteps
                             /\ remote' = [remote EXCEPT ![t] = s]
  BY DEF Advance
<1>1. remote[t] # "absent" /\ s # "absent" /\ remote[t] # "error"
  BY DEF ServiceSteps
<1>2. remote[t] \notin {"absent"} \cup Waiting => s \notin {"absent"} \cup Waiting
  BY DEF ServiceSteps, Waiting
<1> QED BY <1>1, <1>2 DEF RemoteProgresses

\* A step that moves nobody into or out of a dispatch and leaves ActiveTask
\* alone keeps all of it, whatever the service did meanwhile.
LEMMA FrameFacts ==
  ASSUME TypeOK, LifecycleFacts, RemoteProgresses, UNCHANGED <<mu, active>>,
         \A d \in Callers :
           \/ UNCHANGED <<pc[d], req[d], task[d], polls[d], res[d]>>
           \/ pc[d] \notin Dispatching /\ pc'[d] \notin Dispatching
  PROVE  LifecycleFacts'
PROOF
<1> USE DEF LifecycleFacts
<1>1. DispatchHoldsLock'
  BY DEF DispatchHoldsLock
<1>2. DispatchTracked'
  BY DEF DispatchTracked, RemoteProgresses, Dispatching
<1>3. mu # NoCaller => mu \in Callers /\ pc[mu] \in Dispatching
  BY DEF TypeOK, SharedTypeOK, DispatchHoldsLock
<1>4. mu # NoCaller => req'[mu] = req[mu]
  BY <1>3
<1>5. ExecutionInFlight' <=> ExecutionInFlight
  BY <1>4 DEF ExecutionInFlight, Type
<1>6. ActiveMatchesDispatch'
  BY <1>5 DEF ActiveMatchesDispatch, RemoteProgresses
<1>7. active.status = "COMPLETED" => active.id \in Tasks
  BY DEF CompletedReachedConversation
<1>8. CompletedReachedConversation'
  BY DEF CompletedReachedConversation, RemoteProgresses
<1>9. active.id \in Tasks \cup {NoTask}
  BY DEF TypeOK, SharedTypeOK
<1>10. FailedNamesFailedTask'
  BY <1>9 DEF FailedNamesFailedTask, RemoteProgresses
<1> QED BY <1>1, <1>2, <1>6, <1>8, <1>10

\* A call that returns frees the lock; what it leaves in ActiveTask decides.
LEMMA ReturnFacts ==
  ASSUME TypeOK, LifecycleFacts, RemoteProgresses, NEW c \in Callers,
         NEW a \in Replies, Return(c, a), mu \in {c, NoCaller},
         active'.status \in InProgress =>
           active'.id \in Tasks /\ remote'[active'.id] # "absent",
         CompletedReachedConversation', FailedNamesFailedTask'
  PROVE  LifecycleFacts'
PROOF
<1>1. AfterReturn(req[c]) \notin Dispatching
  BY DEF AfterReturn, Dispatching
<1>2. pc' = [pc EXCEPT ![c] = AfterReturn(req[c])] /\ mu' = NoCaller
  BY DEF Return
<1>3. NoCaller \notin Callers /\ pc \in [Callers -> {"idle", "waiting", "user", "assistant"} \cup Dispatching]
  BY LifecycleAssumption DEF TypeOK, CallTypeOK
<1>4. DispatchHoldsLock'
  BY <1>1, <1>2, <1>3 DEF DispatchHoldsLock, LifecycleFacts
<1>5. \A d \in Callers : pc'[d] \notin Dispatching
  BY <1>2, <1>3, <1>4 DEF DispatchHoldsLock
<1>6. DispatchTracked'
  BY <1>5 DEF DispatchTracked, Dispatching
<1>7. ActiveMatchesDispatch'
  BY <1>2 DEF ActiveMatchesDispatch, ExecutionInFlight
<1> QED BY <1>4, <1>6, <1>7 DEF LifecycleFacts

\* ActiveTask untouched keeps what it says of its remote task.
LEMMA OutcomeKept ==
  ASSUME TypeOK, LifecycleFacts, RemoteProgresses, UNCHANGED active
  PROVE  /\ CompletedReachedConversation' /\ FailedNamesFailedTask'
         /\ ~ExecutionInFlight /\ active.status \in InProgress
              => active.id \in Tasks /\ remote'[active.id] # "absent"
PROOF BY DEF TypeOK, SharedTypeOK, LifecycleFacts, RemoteProgresses,
             CompletedReachedConversation, FailedNamesFailedTask,
             ActiveMatchesDispatch

LEMMA DispatcherHoldsLock ==
  ASSUME TypeOK, LifecycleFacts, NEW c \in Callers, pc[c] \in Dispatching
  PROVE  mu = c /\ (ExecutionInFlight <=> Type(c) = "Execution")
PROOF BY LifecycleAssumption DEF LifecycleFacts, DispatchHoldsLock, ExecutionInFlight

LEMMA FinishFacts ==
  ASSUME TypeOK, LifecycleFacts, UNCHANGED remote, NEW c \in Callers,
         pc[c] \in {"poll", "fetch"}, NEW r \in Result, FinishDispatch(c, r),
         r.status = "COMPLETED" => remote[task[c]] \notin {"absent"} \cup Waiting,
         r.status = "FAILED" => remote[task[c]] = "error"
  PROVE  LifecycleFacts'
PROOF
<1>1. RemoteProgresses
  BY DEF RemoteProgresses
<1>2. Return(c, "result") /\ "result" \in Replies
  BY DEF FinishDispatch, Replies
<1>3. mu = c /\ (ExecutionInFlight <=> Type(c) = "Execution")
  BY DispatcherHoldsLock DEF Dispatching
<1>4. task[c] \in Tasks /\ remote[task[c]] # "absent"
  BY DEF LifecycleFacts, DispatchTracked
<1>5. CASE Type(c) = "Execution"
  <2>1. active' = [status |-> r.status, id |-> task[c]]
    BY <1>5 DEF FinishDispatch
  <2>2. CompletedReachedConversation' /\ FailedNamesFailedTask'
    BY <1>4, <2>1 DEF CompletedReachedConversation, FailedNamesFailedTask
  <2> QED BY <1>1, <1>2, <1>3, <1>4, <2>1, <2>2, ReturnFacts
<1>6. CASE Type(c) # "Execution"
  <2>1. UNCHANGED active
    BY <1>6 DEF FinishDispatch
  <2> QED BY <1>1, <1>2, <1>3, <1>6, <2>1, OutcomeKept, ReturnFacts
<1> QED BY <1>5, <1>6

LEMMA SettleFacts ==
  ASSUME TypeOK, LifecycleFacts, UNCHANGED remote, NEW c \in Callers,
         pc[c] \in {"poll", "fetch"}, NEW r \in Result, Settle(c, r),
         r.status = "COMPLETED" => remote[task[c]] \notin {"absent"} \cup Waiting,
         r.status = "FAILED" => remote[task[c]] = "error"
  PROVE  LifecycleFacts'
PROOF
<1>1. CASE Settles(r)
  BY <1>1, FinishFacts DEF Settle
<1>2. CASE ~Settles(r)
  <2>1. /\ pc' = [pc EXCEPT ![c] = "poll"]
        /\ polls' = [polls EXCEPT ![c] = @ + 1]
        /\ res' = [res EXCEPT ![c] = r]
        /\ UNCHANGED <<mu, active, req, task>>
    BY <1>2 DEF Settle, lifecycleVars
  <2>2. DispatchHoldsLock'
    BY <2>1 DEF LifecycleFacts, DispatchHoldsLock, Dispatching, TypeOK, CallTypeOK
  <2>3. \A d \in Callers :
          /\ pc'[d] \in {"poll", "fetch"} => pc[d] \in {"poll", "fetch"}
          /\ pc'[d] = "fetch" =>
               pc[d] = "fetch" /\ polls'[d] = polls[d] /\ res'[d] = res[d]
    BY <2>1 DEF TypeOK, CallTypeOK
  <2>4. DispatchTracked'
    BY <2>1, <2>3 DEF LifecycleFacts, DispatchTracked
  <2>5. ActiveMatchesDispatch'
    BY <2>1 DEF LifecycleFacts, ActiveMatchesDispatch, ExecutionInFlight, Type
  <2>6. CompletedReachedConversation' /\ FailedNamesFailedTask'
    BY <2>1 DEF LifecycleFacts, CompletedReachedConversation, FailedNamesFailedTask
  <2> QED BY <2>2, <2>4, <2>5, <2>6 DEF LifecycleFacts
<1> QED BY <1>1, <1>2

LEMMA FailFacts ==
  ASSUME TypeOK, LifecycleFacts, RemoteProgresses, NEW c \in Callers,
         pc[c] \in Dispatching, FailDispatch(c)
  PROVE  LifecycleFacts'
PROOF
<1>1. Return(c, "error") /\ "error" \in Replies
  BY DEF FailDispatch, Replies
<1>2. mu = c /\ (ExecutionInFlight <=> Type(c) = "Execution")
  BY DispatcherHoldsLock
<1>3. CASE Type(c) = "Execution"
  <2>1. active = [status |-> "RUNNING", id |-> NoTask]
    BY <1>2, <1>3 DEF LifecycleFacts, ActiveMatchesDispatch
  <2>2. active' = [status |-> "FAILED", id |-> NoTask]
    BY <1>3, <2>1 DEF FailDispatch
  <2>3. CompletedReachedConversation' /\ FailedNamesFailedTask'
    BY <2>2 DEF CompletedReachedConversation, FailedNamesFailedTask
  <2> QED BY <1>1, <1>2, <2>2, <2>3, ReturnFacts DEF InProgress
<1>4. CASE Type(c) # "Execution"
  <2>1. UNCHANGED active
    BY <1>4 DEF FailDispatch
  <2> QED BY <1>1, <1>2, <1>4, <2>1, OutcomeKept, ReturnFacts
<1> QED BY <1>3, <1>4

\* A dispatch begins: the caller takes the lock.
LEMMA BeginFacts ==
  ASSUME TypeOK, LifecycleFacts, NEW c \in Callers, Entering(c),
         BeginDispatch(c),
         IF Type(c) = "Execution"
           THEN active' = [status |-> "RUNNING", id |-> NoTask]
           ELSE UNCHANGED active
  PROVE  LifecycleFacts'
PROOF
<1>1. /\ mu = NoCaller /\ mu' = c /\ pc' = [pc EXCEPT ![c] = "start"]
      /\ UNCHANGED <<remote, req, task, polls, res>>
  BY DEF Entering, BeginDispatch, localVars
<1>2. DispatchHoldsLock'
  BY <1>1, LifecycleAssumption
  DEF LifecycleFacts, DispatchHoldsLock, Dispatching, TypeOK, CallTypeOK
<1>3. \A d \in Callers : pc'[d] \in {"poll", "fetch"} => pc'[d] = pc[d]
  BY <1>1 DEF TypeOK, CallTypeOK
<1>4. DispatchTracked'
  BY <1>1, <1>3 DEF LifecycleFacts, DispatchTracked
<1>5. ~ExecutionInFlight
  BY <1>1 DEF ExecutionInFlight
<1>6. ExecutionInFlight' <=> Type(c) = "Execution"
  BY <1>1, LifecycleAssumption DEF ExecutionInFlight, Type
<1>7. CASE Type(c) = "Execution"
  BY <1>2, <1>4, <1>6, <1>7 DEF LifecycleFacts, ActiveMatchesDispatch,
     CompletedReachedConversation, FailedNamesFailedTask
<1>8. CASE Type(c) # "Execution"
  BY <1>1, <1>2, <1>4, <1>5, <1>6, <1>8 DEF LifecycleFacts, ActiveMatchesDispatch,
     CompletedReachedConversation, FailedNamesFailedTask
<1> QED BY <1>7, <1>8

LEMMA AcquireFacts ==
  ASSUME TypeOK, LifecycleFacts, NEW c \in Callers, Acquire(c)
  PROVE  LifecycleFacts'
PROOF
<1> USE DEF Executing, Entering
<1>1. CASE StopExecution(c)
  <2>1. RemoteProgresses
    BY <1>1 DEF StopExecution, RemoteProgresses
  <2>2. CASE Return(c, "no active") /\ UNCHANGED active
    BY <1>1, <2>1, <2>2, OutcomeKept, ReturnFacts
    DEF StopExecution, Replies, ExecutionInFlight
  <2>3. CASE /\ Return(c, "cancelled")
             /\ active' = [active EXCEPT !.status = "CANCELLED"]
    <3>1. active'.status = "CANCELLED"
      BY <2>3 DEF TypeOK, SharedTypeOK
    <3>2. CompletedReachedConversation' /\ FailedNamesFailedTask'
      BY <3>1 DEF CompletedReachedConversation, FailedNamesFailedTask
    <3> QED BY <1>1, <2>1, <2>3, <3>1, <3>2, ReturnFacts
            DEF StopExecution, Replies, InProgress
  <2> QED BY <1>1, <2>2, <2>3 DEF StopExecution
<1>2. CASE handleBlocking(c)
  <2>1. RemoteProgresses /\ active' = NoActive /\ Return(c, "cancelled")
    BY <1>2 DEF handleBlocking, RemoteProgresses
  <2>2. CompletedReachedConversation' /\ FailedNamesFailedTask'
    BY <2>1 DEF CompletedReachedConversation, FailedNamesFailedTask, NoActive
  <2>3. active'.status \notin InProgress
    BY <2>1 DEF NoActive, InProgress
  <2>4. mu = NoCaller /\ "cancelled" \in Replies
    BY <1>2 DEF handleBlocking, Replies
  <2> QED BY <2>1, <2>2, <2>3, <2>4, ReturnFacts
<1>3. CASE handleText(c) \/ executionUnconfigured(c) \/ executionBusy(c)
  <2>1. PICK a \in Replies : Return(c, a)
    BY <1>3 DEF handleText, executionUnconfigured, executionBusy, Replies
  <2>2. RemoteProgresses /\ UNCHANGED active /\ mu = NoCaller
    BY <1>3 DEF handleText, executionUnconfigured, executionBusy, RemoteProgresses
  <2> QED BY <2>1, <2>2, OutcomeKept, ReturnFacts DEF ExecutionInFlight
<1>4. CASE handleExecution(c)
  BY <1>4, BeginFacts DEF handleExecution
<1>5. CASE handleInvestigation(c)
  BY <1>5, BeginFacts DEF handleInvestigation
<1>6. ASSUME NEW role \in {"user", "assistant"},
             NEW next \in {"assistant", "idle"}, AddToHistory(c, role, next)
      PROVE  LifecycleFacts'
  <2>1. RemoteProgresses /\ UNCHANGED <<mu, active>>
    BY <1>6 DEF AddToHistory, RemoteProgresses, lifecycleVars
  <2>2. \A d \in Callers :
          \/ UNCHANGED <<pc[d], req[d], task[d], polls[d], res[d]>>
          \/ pc[d] \notin Dispatching /\ pc'[d] \notin Dispatching
    BY <1>6 DEF AddToHistory, localVars, Dispatching, TypeOK, CallTypeOK
  <2> QED BY <2>1, <2>2, FrameFacts
<1> QED BY <1>1, <1>2, <1>3, <1>4, <1>5, <1>6 DEF Acquire

LEMMA MapStatusFacts ==
  ASSUME NEW s \in RemoteState \ {"absent"}, NEW d \in BOOLEAN
  PROVE  /\ s \notin InConversation =>
              LET r == StatusResult(TaskStatusOf(s), d, {})
              IN  /\ r.status = "COMPLETED" => s = "finished"
                  /\ r.status = "FAILED" => s = "error"
         /\ StatusResult("READY", d, {}).status = "RUNNING"
         /\ \A o : StatusResult("READY", d, o).status \in {"COMPLETED", "RUNNING"}
PROOF
<1>1. \A o : StatusResult("READY", d, o).status \in {"COMPLETED", "RUNNING"}
  BY DEF StatusResult, MapStatus
<1>2. StatusResult("READY", d, {}).status = "RUNNING"
  BY DEF StatusResult, MapStatus
<1>3. /\ TaskStatusOf(s) = "WORKING" => MapStatus(TaskStatusOf(s), {}) = "WORKING"
      /\ TaskStatusOf(s) = "IN_PROGRESS" => MapStatus(TaskStatusOf(s), {}) = "RUNNING"
      /\ TaskStatusOf(s) = "READY" => MapStatus(TaskStatusOf(s), {}) = "RUNNING"
      /\ TaskStatusOf(s) = "FINISHED" => MapStatus(TaskStatusOf(s), {}) = "COMPLETED"
      /\ TaskStatusOf(s) = "ERROR" => MapStatus(TaskStatusOf(s), {}) = "FAILED"
  BY DEF MapStatus
<1>4. /\ s = "queued" => TaskStatusOf(s) = "WORKING"
      /\ s = "starting" => TaskStatusOf(s) = "IN_PROGRESS"
      /\ s = "sandbox" => TaskStatusOf(s) = "READY"
      /\ s = "finished" => TaskStatusOf(s) = "FINISHED"
      /\ s = "error" => TaskStatusOf(s) = "ERROR"
  BY DEF TaskStatusOf, InConversation
<1>5. s \notin InConversation
        => s \in {"queued", "starting", "sandbox", "finished", "error"}
  BY DEF RemoteState, Live, Waiting, Over, InConversation
<1> QED BY <1>1, <1>2, <1>3, <1>4, <1>5 DEF StatusResult

LEMMA DispatchFacts ==
  ASSUME TypeOK, LifecycleFacts, NEW c \in Callers, DispatchStep(c)
  PROVE  LifecycleFacts'
PROOF
<1> USE DEF Dispatching
<1>1. CASE StartExecution(c)
  <2> PICK t \in Tasks : Accept(t) /\ task' = [task EXCEPT ![c] = t]
    BY <1>1 DEF StartExecution
  <2>1. RemoteProgresses /\ remote'[t] = "queued"
    BY AcceptProgresses DEF TypeOK, SharedTypeOK
  <2>2. /\ pc[c] = "start" /\ pc' = [pc EXCEPT ![c] = "poll"]
        /\ UNCHANGED <<mu, active, req, polls, res>>
    BY <1>1 DEF StartExecution, lifecycleVars
  <2>3. DispatchHoldsLock'
    BY <2>2 DEF LifecycleFacts, DispatchHoldsLock, TypeOK, CallTypeOK
  <2>4. DispatchTracked'
    <3>1. \A d \in Callers \ {c} : pc'[d] = pc[d] /\ task'[d] = task[d]
      BY <2>2 DEF TypeOK, CallTypeOK
    <3>2. pc'[c] = "poll" /\ task'[c] = t
      BY <2>2 DEF TypeOK, CallTypeOK
    <3>3. remote'[t] # "absent"
      BY <2>1
    <3> QED BY <2>1, <2>2, <3>1, <3>2, <3>3
            DEF LifecycleFacts, DispatchTracked, RemoteProgresses
  <2>5. CompletedReachedConversation' /\ FailedNamesFailedTask'
    BY <2>1, <2>2, OutcomeKept
  <2>6. ActiveMatchesDispatch'
    BY <2>1, <2>2 DEF LifecycleFacts, ActiveMatchesDispatch, ExecutionInFlight,
       Type, RemoteProgresses
  <2> QED BY <2>3, <2>4, <2>5, <2>6 DEF LifecycleFacts
<1>2. CASE StartFails(c)
  <2>1. RemoteProgresses
    <3>1. CASE UNCHANGED remote
      BY <3>1 DEF RemoteProgresses
    <3>2. CASE \E t \in Tasks : Accept(t)
      BY <3>2, AcceptProgresses DEF TypeOK, SharedTypeOK
    <3> QED BY <1>2, <3>1, <3>2 DEF StartFails
  <2> QED BY <1>2, <2>1, FailFacts DEF StartFails
<1>3. CASE PollTask(c)
  <2>1. pc[c] = "poll" /\ UNCHANGED remote /\ polls[c] < MaxPolls
    BY <1>3 DEF PollTask
  <2> PICK detail \in BOOLEAN :
        IF remote[task[c]] \in InConversation
          THEN /\ res' = [res EXCEPT ![c] = StatusResult("READY", detail, {})]
               /\ pc' = [pc EXCEPT ![c] = "fetch"]
               /\ UNCHANGED <<configured, lifecycleVars, history, req, task,
                              polls, reply>>
          ELSE Settle(c, StatusResult(TaskStatusOf(remote[task[c]]), detail, {}))
    BY <1>3 DEF PollTask
  <2>2. remote[task[c]] \in RemoteState \ {"absent"}
    BY <2>1 DEF LifecycleFacts, DispatchTracked, TypeOK, SharedTypeOK
  <2>3. CASE remote[task[c]] \in InConversation
    <3>1. /\ res' = [res EXCEPT ![c] = StatusResult("READY", detail, {})]
          /\ pc' = [pc EXCEPT ![c] = "fetch"]
          /\ UNCHANGED <<mu, active, req, task, polls, remote>>
      BY <2>1, <2>3 DEF lifecycleVars
    <3>2. StatusResult("READY", detail, {}).status = "RUNNING"
      BY <2>2, MapStatusFacts
    <3>3. DispatchHoldsLock'
      BY <2>1, <3>1 DEF LifecycleFacts, DispatchHoldsLock, TypeOK, CallTypeOK
    <3>4. \A d \in Callers \ {c} : pc'[d] = pc[d] /\ res'[d] = res[d]
      BY <3>1 DEF TypeOK, CallTypeOK
    <3>5. pc'[c] = "fetch" /\ res'[c].status = "RUNNING"
      BY <3>1, <3>2 DEF TypeOK, CallTypeOK
    <3>6. remote[task[c]] \notin Waiting
      BY <2>3 DEF InConversation, Waiting
    <3>7. DispatchTracked'
      BY <2>1, <2>2, <3>1, <3>4, <3>5, <3>6 DEF LifecycleFacts, DispatchTracked
    <3>8. ActiveMatchesDispatch'
      BY <3>1 DEF LifecycleFacts, ActiveMatchesDispatch, ExecutionInFlight, Type
    <3>9. CompletedReachedConversation' /\ FailedNamesFailedTask'
      BY <3>1 DEF LifecycleFacts, CompletedReachedConversation, FailedNamesFailedTask
    <3> QED BY <3>3, <3>7, <3>8, <3>9 DEF LifecycleFacts
  <2>4. CASE remote[task[c]] \notin InConversation
    <3> DEFINE r == StatusResult(TaskStatusOf(remote[task[c]]), detail, {})
    <3>1. r \in Result
      BY <2>2, RemoteStateFacts, StatusResultType
    <3>2. /\ r.status = "COMPLETED" => remote[task[c]] = "finished"
          /\ r.status = "FAILED" => remote[task[c]] = "error"
      BY <2>2, <2>4, MapStatusFacts
    <3>3. Settle(c, r)
      BY <2>4
    <3> HIDE DEF r
    <3> QED BY <2>1, <3>1, <3>2, <3>3, SettleFacts DEF Waiting
  <2> QED BY <2>3, <2>4
<1>4. CASE PollEmpty(c)
  <2>1. UnknownResult \in Result /\ UnknownResult.status = "UNKNOWN"
    BY DEF UnknownResult, Result, ResultStatus
  <2> QED BY <1>4, <2>1, SettleFacts DEF PollEmpty
<1>5. CASE PollFails(c)
  BY <1>5, FailFacts DEF PollFails, RemoteProgresses
<1>6. CASE FetchConversation(c)
  <2>1. /\ pc[c] = "fetch" /\ UNCHANGED remote
        /\ res[c] \in Result /\ res[c].error \in BOOLEAN
    BY <1>6 DEF FetchConversation, TypeOK, CallTypeOK, Result
  <2>2. /\ res[c].status = "RUNNING"
        /\ remote[task[c]] \in RemoteState \ {"absent"}
        /\ remote[task[c]] \notin {"absent"} \cup Waiting
    BY <2>1 DEF LifecycleFacts, DispatchTracked, TypeOK, SharedTypeOK
  <2>3. CASE Settle(c, res[c])
    BY <2>1, <2>2, <2>3, SettleFacts
  <2>4. ASSUME NEW fields \in SUBSET {"runtime", "title"},
               Settle(c, StatusResult("READY", res[c].error,
                           getConversationDetails(remote[task[c]], fields)))
        PROVE  LifecycleFacts'
    <3> DEFINE r == StatusResult("READY", res[c].error,
                      getConversationDetails(remote[task[c]], fields))
    <3>1. r \in Result
      BY <2>1, ConversationType, StatusResultType
    <3>2. r.status \in {"COMPLETED", "RUNNING"}
      BY <2>1, <2>2, MapStatusFacts
    <3>3. Settle(c, r)
      BY <2>4
    <3> HIDE DEF r
    <3> QED BY <2>1, <2>2, <3>1, <3>2, <3>3, SettleFacts
  <2> QED BY <1>6, <2>3, <2>4 DEF FetchConversation
<1>7. CASE Deadline(c)
  <2>1. TimeoutResult \in Result /\ TimeoutResult.status = "TIMEOUT"
    BY DEF TimeoutResult, Result, ResultStatus
  <2> QED BY <1>7, <2>1, FinishFacts DEF Deadline
<1> QED BY <1>1, <1>2, <1>3, <1>4, <1>5, <1>6, <1>7 DEF DispatchStep

LEMMA InvInit == Init => LifecycleInv
PROOF
<1> SUFFICES ASSUME Init PROVE LifecycleInv
  OBVIOUS
<1> USE LifecycleAssumption DEF Init
<1>1. SharedTypeOK
  <2>1. remote \in [Tasks -> RemoteState]
    BY DEF ServiceInit, RemoteState
  <2>2. configured \in BOOLEAN /\ isCancelled \in BOOLEAN
    OBVIOUS
  <2>3. active \in [status : ResultStatus \cup {"none", "CANCELLED"},
                    id : Tasks \cup {NoTask}]
    BY DEF NoActive
  <2>4. history \in Seq({"user", "assistant"})
    OBVIOUS
  <2> QED BY <2>1, <2>2, <2>3, <2>4 DEF SharedTypeOK
<1>2. NoRequest \in Request /\ UnknownResult \in Result /\ "none" \in Replies
  BY DEF NoRequest, Request, IntentTypes, Message, UnknownResult, Result,
         ResultStatus, Replies
<1>3. CallTypeOK
  BY <1>2 DEF CallTypeOK
<1>4. DispatchHoldsLock /\ DispatchTracked
  BY DEF DispatchHoldsLock, DispatchTracked, Dispatching
<1>5. /\ ActiveMatchesDispatch /\ CompletedReachedConversation
      /\ FailedNamesFailedTask
  BY DEF ActiveMatchesDispatch, ExecutionInFlight, CompletedReachedConversation,
         FailedNamesFailedTask, NoActive, InProgress
<1> QED BY <1>1, <1>3, <1>4, <1>5 DEF LifecycleInv, TypeOK

LEMMA CallInv ==
  ASSUME LifecycleInv, NEW c \in Callers, Call(c) \/ RouteRefuses(c)
  PROVE  LifecycleInv'
PROOF
<1>1. TypeOK /\ LifecycleFacts
  BY DEF LifecycleInv, LifecycleFacts
<1>2. RemoteProgresses /\ UNCHANGED <<mu, active, remote, task, polls, res>>
  BY DEF Call, RouteRefuses, RemoteProgresses, lifecycleVars, localVars
<1>3. \A d \in Callers :
        \/ UNCHANGED <<pc[d], req[d], task[d], polls[d], res[d]>>
        \/ pc[d] \notin Dispatching /\ pc'[d] \notin Dispatching
  BY <1>1, <1>2 DEF Call, RouteRefuses, localVars, Dispatching, TypeOK, CallTypeOK
<1>4. LifecycleFacts'
  BY <1>1, <1>2, <1>3, FrameFacts
<1>5. SharedTypeOK'
  BY <1>1 DEF Call, RouteRefuses, lifecycleVars, TypeOK, SharedTypeOK
<1>6. (pc \in [Callers -> {"idle", "waiting", "user", "assistant"} \cup Dispatching])'
  BY <1>1 DEF Call, RouteRefuses, TypeOK, CallTypeOK
<1>7. (req \in [Callers -> Request])'
  <2>1. CASE Call(c)
    <3> PICK q \in Requests : req' = [req EXCEPT ![c] = q]
      BY <2>1 DEF Call
    <3> QED BY <1>1, LifecycleAssumption DEF TypeOK, CallTypeOK
  <2>2. CASE RouteRefuses(c)
    BY <1>1, <2>2 DEF RouteRefuses, localVars, TypeOK, CallTypeOK
  <2> QED BY <2>1, <2>2
<1>8. (reply \in [Callers -> Replies])'
  BY <1>1 DEF Call, RouteRefuses, Replies, TypeOK, CallTypeOK
<1>9. CallTypeOK'
  BY <1>1, <1>2, <1>6, <1>7, <1>8 DEF TypeOK, CallTypeOK
<1> QED BY <1>4, <1>5, <1>9 DEF LifecycleInv, LifecycleFacts, TypeOK

LEMMA ServiceInv ==
  ASSUME LifecycleInv, Service
  PROVE  LifecycleInv'
PROOF
<1>1. TypeOK /\ LifecycleFacts
  BY DEF LifecycleInv, LifecycleFacts
<1> PICK t \in Tasks : Advance(t)
  BY DEF Service
<1>2. RemoteProgresses /\ remote' \in [Tasks -> RemoteState]
  BY <1>1, AdvanceProgresses DEF TypeOK, SharedTypeOK
<1>3. UNCHANGED <<configured, mu, active, isCancelled, history, pc, req, task,
                  polls, res, reply>>
  BY DEF Service, lifecycleVars, localVars
<1>4. LifecycleFacts'
  BY <1>1, <1>2, <1>3, FrameFacts
<1>5. TypeOK'
  BY <1>1, <1>2, <1>3 DEF TypeOK, SharedTypeOK, CallTypeOK
<1> QED BY <1>4, <1>5 DEF LifecycleInv, LifecycleFacts

LEMMA InvNext == LifecycleInv /\ [Next]_vars => LifecycleInv'
PROOF
<1> SUFFICES ASSUME LifecycleInv, [Next]_vars
             PROVE  LifecycleInv'
  OBVIOUS
<1>1. TypeOK /\ LifecycleFacts
  BY DEF LifecycleInv, LifecycleFacts
<1>2. ASSUME NEW c \in Callers, Call(c) \/ RouteRefuses(c)
      PROVE  LifecycleInv'
  BY <1>2, CallInv
<1>3. ASSUME NEW c \in Callers, Acquire(c)
      PROVE  LifecycleInv'
  BY <1>1, <1>3, AcquireType, AcquireFacts DEF LifecycleInv, LifecycleFacts
<1>4. ASSUME NEW c \in Callers, DispatchStep(c)
      PROVE  LifecycleInv'
  <2>1. /\ pc[c] \in {"poll", "fetch"} =>
             task[c] \in Tasks /\ remote[task[c]] # "absent"
        /\ pc[c] = "fetch" => polls[c] < MaxPolls
    BY <1>1 DEF LifecycleFacts, DispatchTracked
  <2> QED BY <1>1, <1>4, <2>1, DispatchType, DispatchFacts
          DEF LifecycleInv, LifecycleFacts
<1>5. CASE Service
  BY <1>5, ServiceInv
<1>6. CASE UNCHANGED vars
  <2>1. UNCHANGED <<remote, configured, mu, active, isCancelled, history, pc,
                    req, task, polls, res, reply>>
    BY <1>6 DEF vars
  <2>2. LifecycleFacts'
    BY <1>1, <2>1, FrameFacts DEF RemoteProgresses
  <2>3. TypeOK'
    BY <1>1, <2>1 DEF TypeOK, SharedTypeOK, CallTypeOK
  <2> QED BY <2>2, <2>3 DEF LifecycleInv, LifecycleFacts
<1> QED BY <1>2, <1>3, <1>4, <1>5, <1>6 DEF Next

\* The inductive invariant holds of every execution of the lifecycle.
THEOREM LifecycleInvariant == Spec => []LifecycleInv
PROOF
<1>1. Init => LifecycleInv
  BY InvInit
<1>2. LifecycleInv /\ [Next]_vars => LifecycleInv'
  BY InvNext
<1> QED BY <1>1, <1>2, PTL DEF Spec

\* Every variable keeps its type, whatever callers, service and clock do.
THEOREM TypeCorrect == Spec => []TypeOK
PROOF
<1>1. LifecycleInv => TypeOK
  BY DEF LifecycleInv
<1> QED BY <1>1, LifecycleInvariant, PTL

\* At most one goroutine dispatches, and it is the one that holds lc.mu.
THEOREM LockHeldThroughDispatch == Spec => []DispatchHoldsLock
PROOF
<1>1. LifecycleInv => DispatchHoldsLock
  BY DEF LifecycleInv
<1> QED BY <1>1, LifecycleInvariant, PTL

\* An execution recorded as running while nobody dispatches has a task.
THEOREM StrandedExecutionHasTask == Spec => []StrandedHasTask
PROOF
<1>1. LifecycleInv => StrandedHasTask
  BY DEF LifecycleInv, ActiveMatchesDispatch, ExecutionInFlight, StrandedHasTask
<1> QED BY <1>1, LifecycleInvariant, PTL

\* A completion that ActiveTask records, the service has seen.
THEOREM OutcomesAreReal == Spec => []CompletedReachedConversation
PROOF
<1>1. LifecycleInv => CompletedReachedConversation
  BY DEF LifecycleInv
<1> QED BY <1>1, LifecycleInvariant, PTL

\* A failure that ActiveTask records under an id is the failure of that task.
THEOREM FailuresAreReal == Spec => []FailedNamesFailedTask
PROOF
<1>1. LifecycleInv => FailedNamesFailedTask
  BY DEF LifecycleInv
<1> QED BY <1>1, LifecycleInvariant, PTL

-----------------------------------------------------------------------------
(* Action properties.                                                      *)

\* While a dispatch holds the lock, no other caller gets anywhere.
LEMMA OthersWait ==
  ASSUME LifecycleInv, Next, mu # NoCaller
  PROVE  \/ UNCHANGED <<mu, active, isCancelled>>
         \/ DispatchStep(mu)
PROOF
<1>1. ASSUME NEW c \in Callers, Call(c) \/ RouteRefuses(c)
      PROVE  UNCHANGED <<mu, active, isCancelled>>
  BY <1>1 DEF Call, RouteRefuses, lifecycleVars
<1>2. ASSUME NEW c \in Callers, Acquire(c)
      PROVE  FALSE
  BY <1>2 DEF Acquire, StopExecution, handleBlocking, handleText,
     executionUnconfigured, executionBusy, handleExecution,
     handleInvestigation, AddToHistory, Executing, Entering
<1>3. ASSUME NEW c \in Callers, DispatchStep(c)
      PROVE  DispatchStep(mu)
  <2>1. pc[c] \in Dispatching
    BY <1>3 DEF DispatchStep, StartExecution, StartFails, PollTask, PollEmpty,
       PollFails, FetchConversation, Deadline, Dispatching
  <2>2. mu = c
    BY <2>1 DEF LifecycleInv, DispatchHoldsLock
  <2> QED BY <1>3, <2>2
<1>4. CASE Service
  BY <1>4 DEF Service, lifecycleVars
<1> QED BY <1>1, <1>2, <1>3, <1>4 DEF Next

\* A step of a dispatch goes on with ActiveTask untouched, or ends it.
LEMMA DispatchStepEffect ==
  ASSUME LifecycleInv, NEW c \in Callers, DispatchStep(c)
  PROVE  \/ UNCHANGED <<mu, active, isCancelled>>
         \/ /\ mu' = NoCaller /\ UNCHANGED isCancelled
            /\ Type(c) # "Execution" => UNCHANGED active
PROOF
<1> USE DEF lifecycleVars
<1>1. ASSUME NEW r, FinishDispatch(c, r)
      PROVE  /\ mu' = NoCaller /\ UNCHANGED isCancelled
             /\ Type(c) # "Execution" => UNCHANGED active
  BY <1>1 DEF FinishDispatch, Return
<1>2. ASSUME FailDispatch(c)
      PROVE  /\ mu' = NoCaller /\ UNCHANGED isCancelled
             /\ Type(c) # "Execution" => UNCHANGED active
  BY <1>2 DEF FailDispatch, Return
<1>3. ASSUME NEW r, Settle(c, r)
      PROVE  \/ UNCHANGED <<mu, active, isCancelled>>
             \/ /\ mu' = NoCaller /\ UNCHANGED isCancelled
                /\ Type(c) # "Execution" => UNCHANGED active
  BY <1>1, <1>3 DEF Settle
<1>4. CASE StartExecution(c)
  BY <1>4 DEF StartExecution
<1>5. CASE StartFails(c) \/ PollFails(c)
  BY <1>2, <1>5 DEF StartFails, PollFails
<1>6. CASE PollTask(c)
  BY <1>3, <1>6 DEF PollTask
<1>7. CASE PollEmpty(c) \/ FetchConversation(c)
  BY <1>3, <1>7 DEF PollEmpty, FetchConversation
<1>8. CASE Deadline(c)
  BY <1>1, <1>8 DEF Deadline
<1> QED BY <1>4, <1>5, <1>6, <1>7, <1>8 DEF DispatchStep

\* No stop and no other call reaches ActiveTask during a dispatch.
THEOREM DispatchIsUndisturbed == Spec => DispatchUndisturbed
PROOF
<1>1. LifecycleInv /\ [Next]_vars
        => [mu # NoCaller /\ (mu' = mu \/ Type(mu) # "Execution")
              => UNCHANGED <<active, isCancelled>>]_vars
  <2> SUFFICES ASSUME LifecycleInv, Next, mu # NoCaller,
                      mu' = mu \/ Type(mu) # "Execution"
               PROVE  UNCHANGED <<active, isCancelled>>
    OBVIOUS
  <2>1. mu \in Callers
    BY DEF LifecycleInv, TypeOK, SharedTypeOK
  <2>2. CASE DispatchStep(mu)
    BY <2>1, <2>2, DispatchStepEffect
  <2> QED BY <2>2, OthersWait
<1> QED BY <1>1, LifecycleInvariant, PTL DEF Spec, DispatchUndisturbed

\* What a caller that gets the lock may do to ActiveTask.
LEMMA AcquireEffect ==
  ASSUME LifecycleInv, NEW c \in Callers, Acquire(c)
  PROVE  \/ UNCHANGED active
         \/ active'.status = "CANCELLED" /\ active'.id = active.id
         \/ active' = NoActive
         \/ active'.status = "RUNNING" /\ mu' = c
PROOF
<1>1. CASE StopExecution(c)
  <2>1. active \in [status : ResultStatus \cup {"none", "CANCELLED"},
                    id : Tasks \cup {NoTask}]
    BY DEF LifecycleInv, TypeOK, SharedTypeOK
  <2>2. CASE active' = [active EXCEPT !.status = "CANCELLED"]
    BY <2>1, <2>2
  <2> QED BY <1>1, <2>2 DEF StopExecution
<1>2. CASE handleBlocking(c)
  BY <1>2 DEF handleBlocking
<1>3. CASE handleExecution(c)
  BY <1>3 DEF handleExecution, BeginDispatch
<1>4. CASE \/ handleText(c) \/ executionUnconfigured(c) \/ executionBusy(c)
           \/ handleInvestigation(c)
           \/ AddToHistory(c, "user", "assistant")
           \/ AddToHistory(c, "assistant", "idle")
  BY <1>4 DEF handleText, executionUnconfigured, executionBusy,
     handleInvestigation, AddToHistory, lifecycleVars
<1> QED BY <1>1, <1>2, <1>3, <1>4 DEF Acquire

\* The dispatch that records an outcome finds its own execution RUNNING, never
\* the outcome of another one.
LEMMA OutcomeStep ==
  ASSUME LifecycleInv, Next, active.status \notin InProgress \cup {"none"},
         active' # active
  PROVE  \/ active'.status = "CANCELLED" /\ active'.id = active.id
         \/ active' = NoActive
         \/ active'.status = "RUNNING" /\ mu' # NoCaller
PROOF
<1>1. ASSUME NEW c \in Callers, Call(c) \/ RouteRefuses(c)
      PROVE  FALSE
  BY <1>1 DEF Call, RouteRefuses, lifecycleVars
<1>2. ASSUME NEW c \in Callers, Acquire(c)
      PROVE  \/ active'.status = "CANCELLED" /\ active'.id = active.id
             \/ active' = NoActive
             \/ active'.status = "RUNNING" /\ mu' # NoCaller
  BY <1>2, AcquireEffect, LifecycleAssumption
<1>3. ASSUME NEW c \in Callers, DispatchStep(c)
      PROVE  FALSE
  <2>1. pc[c] \in Dispatching
    BY <1>3 DEF DispatchStep, StartExecution, StartFails, PollTask, PollEmpty,
       PollFails, FetchConversation, Deadline, Dispatching
  <2>2. mu = c /\ mu # NoCaller
    BY <2>1, LifecycleAssumption DEF LifecycleInv, DispatchHoldsLock
  <2>3. Type(c) = "Execution"
    BY <1>3, DispatchStepEffect
  <2>4. active = [status |-> "RUNNING", id |-> NoTask]
    BY <2>2, <2>3 DEF LifecycleInv, ActiveMatchesDispatch, ExecutionInFlight
  <2> QED BY <2>4 DEF InProgress
<1>4. CASE Service
  BY <1>4 DEF Service, lifecycleVars
<1> QED BY <1>1, <1>2, <1>3, <1>4 DEF Next

\* A recorded outcome is replaced by a new execution, a cancellation or a
\* reset, never by that of a dispatch that began before it.
THEOREM OutcomesAreFinal == Spec => OutcomeIsFinal
PROOF
<1>1. LifecycleInv /\ [Next]_vars
        => [active.status \notin InProgress \cup {"none"} /\ active' # active
              => \/ active'.status = "CANCELLED" /\ active'.id = active.id
                 \/ active' = NoActive
                 \/ active'.status = "RUNNING" /\ mu' # NoCaller]_vars
  BY OutcomeStep
<1> QED BY <1>1, LifecycleInvariant, PTL DEF Spec, OutcomeIsFinal
-----------------------------------------------------------------------------
(* The promise: ExecutionLifecycle implements ExecutionPromise.  Initial   *)
(* states map to an initial state, and every step to a step of the promise *)
(* or to none.                                                             *)

\* A caller has a task only while it polls one.
LocalsClean == \A c \in Callers : pc[c] \notin {"poll", "fetch"} => task[c] = NoTask

-----------------------------------------------------------------------------
(* What a step of a dispatch can be.                                       *)

\* The round is over and the poll goes on, or a first request saw a conversation.
GoesOn(c) ==
  /\ pc[c] \in {"poll", "fetch"} /\ \E l \in {"poll", "fetch"} : pc' = [pc EXCEPT ![c] = l]
  /\ UNCHANGED <<remote, mu, active, isCancelled, req, task>>

\* The dispatch ends with a result that is true of its task.
Ends(c) ==
  /\ pc[c] \in {"poll", "fetch"} /\ UNCHANGED remote
  /\ \E r \in Result :
       /\ FinishDispatch(c, r)
       /\ r.status = "COMPLETED" => remote[task[c]] \notin {"absent"} \cup Waiting
       /\ r.status = "FAILED" => remote[task[c]] = "error"

LEMMA SettleOutcomes ==
  ASSUME NEW c \in Callers, pc[c] \in {"poll", "fetch"}, UNCHANGED remote,
         NEW r \in Result, Settle(c, r),
         r.status = "COMPLETED" => remote[task[c]] \notin {"absent"} \cup Waiting,
         r.status = "FAILED" => remote[task[c]] = "error"
  PROVE  GoesOn(c) \/ Ends(c)
PROOF
<1>1. CASE Settles(r)
  BY <1>1 DEF Settle, Ends
<1>2. CASE ~Settles(r)
  BY <1>2 DEF Settle, GoesOn, lifecycleVars
<1> QED BY <1>1, <1>2

LEMMA DispatchOutcomes ==
  ASSUME TypeOK, LifecycleFacts, NEW c \in Callers, DispatchStep(c)
  PROVE  StartExecution(c) \/ StartFails(c) \/ PollFails(c) \/ GoesOn(c) \/ Ends(c)
PROOF
<1>1. CASE PollTask(c)
  <2>1. pc[c] = "poll" /\ UNCHANGED remote
    BY <1>1 DEF PollTask
  <2> PICK detail \in BOOLEAN :
        IF remote[task[c]] \in InConversation
          THEN /\ res' = [res EXCEPT ![c] = StatusResult("READY", detail, {})]
               /\ pc' = [pc EXCEPT ![c] = "fetch"]
               /\ UNCHANGED <<configured, lifecycleVars, history, req, task,
                              polls, reply>>
          ELSE Settle(c, StatusResult(TaskStatusOf(remote[task[c]]), detail, {}))
    BY <1>1 DEF PollTask
  <2>2. remote[task[c]] \in RemoteState \ {"absent"}
    BY <2>1 DEF LifecycleFacts, DispatchTracked, TypeOK, SharedTypeOK
  <2>3. CASE remote[task[c]] \in InConversation
    BY <2>1, <2>3 DEF GoesOn, lifecycleVars
  <2>4. CASE remote[task[c]] \notin InConversation
    <3> DEFINE r == StatusResult(TaskStatusOf(remote[task[c]]), detail, {})
    <3>1. r \in Result
      BY <2>2, RemoteStateFacts, StatusResultType
    <3>2. /\ r.status = "COMPLETED" => remote[task[c]] = "finished"
          /\ r.status = "FAILED" => remote[task[c]] = "error"
      BY <2>2, <2>4, MapStatusFacts
    <3>3. Settle(c, r)
      BY <2>4
    <3> HIDE DEF r
    <3> QED BY <2>1, <3>1, <3>2, <3>3, SettleOutcomes DEF Waiting
  <2> QED BY <2>3, <2>4
<1>2. CASE PollEmpty(c)
  <2>1. UnknownResult \in Result /\ UnknownResult.status = "UNKNOWN"
    BY DEF UnknownResult, Result, ResultStatus
  <2> QED BY <1>2, <2>1, SettleOutcomes DEF PollEmpty
<1>3. CASE FetchConversation(c)
  <2>1. /\ pc[c] = "fetch" /\ UNCHANGED remote
        /\ res[c] \in Result /\ res[c].error \in BOOLEAN
    BY <1>3 DEF FetchConversation, TypeOK, CallTypeOK, Result
  <2>2. /\ res[c].status = "RUNNING"
        /\ remote[task[c]] \in RemoteState \ {"absent"}
        /\ remote[task[c]] \notin {"absent"} \cup Waiting
    BY <2>1 DEF LifecycleFacts, DispatchTracked, TypeOK, SharedTypeOK
  <2>3. CASE Settle(c, res[c])
    BY <2>1, <2>2, <2>3, SettleOutcomes
  <2>4. ASSUME NEW fields \in SUBSET {"runtime", "title"},
               Settle(c, StatusResult("READY", res[c].error,
                           getConversationDetails(remote[task[c]], fields)))
        PROVE  GoesOn(c) \/ Ends(c)
    <3> DEFINE r == StatusResult("READY", res[c].error,
                      getConversationDetails(remote[task[c]], fields))
    <3>1. r \in Result
      BY <2>1, ConversationType, StatusResultType
    <3>2. r.status \in {"COMPLETED", "RUNNING"}
      BY <2>1, <2>2, MapStatusFacts
    <3>3. Settle(c, r)
      BY <2>4
    <3> HIDE DEF r
    <3> QED BY <2>1, <2>2, <3>1, <3>2, <3>3, SettleOutcomes
  <2> QED BY <1>3, <2>3, <2>4 DEF FetchConversation
<1>4. CASE Deadline(c)
  <2>1. TimeoutResult \in Result /\ TimeoutResult.status = "TIMEOUT"
    BY DEF TimeoutResult, Result, ResultStatus
  <2> QED BY <1>4, <2>1 DEF Deadline, Ends
<1> QED BY <1>1, <1>2, <1>3, <1>4 DEF DispatchStep

-----------------------------------------------------------------------------
(* The locals of a call.                                                   *)

LEMMA CleanNext ==
  ASSUME LifecycleInv, LocalsClean, [Next]_vars
  PROVE  LocalsClean'
PROOF
<1>1. TypeOK /\ LifecycleFacts
  BY DEF LifecycleInv, LifecycleFacts
<1>2. /\ task \in [Callers -> Tasks \cup {NoTask}]
      /\ pc \in [Callers -> {"idle", "waiting", "user", "assistant"} \cup Dispatching]
  BY <1>1 DEF TypeOK, CallTypeOK
<1>3. ASSUME NEW c \in Callers, NEW a, Return(c, a)
      PROVE  LocalsClean'
  BY <1>2, <1>3 DEF LocalsClean, Return
<1>4. ASSUME UNCHANGED task, NEW c \in Callers, NEW l,
             pc' = [pc EXCEPT ![c] = l],
             l \in {"poll", "fetch"} \/ pc[c] \notin {"poll", "fetch"}
      PROVE  LocalsClean'
  BY <1>2, <1>4 DEF LocalsClean
<1>5. ASSUME UNCHANGED <<pc, task>>
      PROVE  LocalsClean'
  BY <1>5 DEF LocalsClean
<1>6. ASSUME NEW c \in Callers, Call(c) \/ RouteRefuses(c)
      PROVE  LocalsClean'
  BY <1>4, <1>5, <1>6 DEF Call, RouteRefuses, localVars
<1>7. ASSUME NEW c \in Callers, Acquire(c)
      PROVE  LocalsClean'
  <2>1. ASSUME BeginDispatch(c), pc[c] = "waiting"
        PROVE  LocalsClean'
    BY <1>4, <2>1 DEF BeginDispatch, localVars
  <2>2. CASE handleExecution(c) \/ handleInvestigation(c)
    BY <2>1, <2>2 DEF handleExecution, handleInvestigation, Executing, Entering
  <2>3. CASE AddToHistory(c, "user", "assistant") \/ AddToHistory(c, "assistant", "idle")
    BY <1>4, <2>3 DEF AddToHistory, localVars
  <2>4. CASE \/ StopExecution(c) \/ handleBlocking(c) \/ handleText(c)
             \/ executionUnconfigured(c) \/ executionBusy(c)
    BY <1>3, <2>4 DEF StopExecution, handleBlocking, handleText,
       executionUnconfigured, executionBusy
  <2> QED BY <1>7, <2>2, <2>3, <2>4 DEF Acquire
<1>8. ASSUME NEW c \in Callers, DispatchStep(c)
      PROVE  LocalsClean'
  <2>1. CASE StartExecution(c)
    <3> PICK t \in Tasks : task' = [task EXCEPT ![c] = t]
      BY <2>1 DEF StartExecution
    <3> QED BY <1>2, <2>1 DEF StartExecution, LocalsClean
  <2>2. CASE StartFails(c) \/ PollFails(c)
    BY <1>3, <2>2 DEF StartFails, PollFails, FailDispatch
  <2>3. CASE GoesOn(c)
    BY <1>4, <2>3 DEF GoesOn
  <2>4. CASE Ends(c)
    BY <1>3, <2>4 DEF Ends, FinishDispatch
  <2> QED BY <1>1, <1>8, <2>1, <2>2, <2>3, <2>4, DispatchOutcomes
<1>9. CASE Service
  BY <1>5, <1>9 DEF Service, localVars
<1>10. CASE UNCHANGED vars
  BY <1>5, <1>10 DEF vars
<1> QED BY <1>6, <1>7, <1>8, <1>9, <1>10 DEF Next

-----------------------------------------------------------------------------
(* Steps.                                                                  *)

Silent == UNCHANGED <<remote, ExecutionInFlight, OwnTask, active, isCancelled>>

\* Nobody enters or leaves a dispatch and nobody's call changes while it lasts.
LEMMA SameExecution ==
  ASSUME TypeOK, LifecycleFacts, UNCHANGED <<mu, task>>,
         \A d \in Callers : pc[d] \in Dispatching => req'[d] = req[d]
  PROVE  UNCHANGED <<ExecutionInFlight, OwnTask>>
PROOF
<1>1. mu # NoCaller => mu \in Callers /\ pc[mu] \in Dispatching
  BY DEF TypeOK, SharedTypeOK, LifecycleFacts, DispatchHoldsLock
<1> QED BY <1>1 DEF ExecutionInFlight, OwnTask, Type

LEMMA NoExecution ==
  ASSUME mu' = NoCaller
  PROVE  ExecutionInFlight' = FALSE /\ OwnTask' = NoTask
PROOF BY DEF ExecutionInFlight, OwnTask

LEMMA FreeNoExecution ==
  ASSUME mu = NoCaller
  PROVE  ExecutionInFlight = FALSE /\ OwnTask = NoTask
PROOF BY DEF ExecutionInFlight, OwnTask

LEMMA AcquireSimulates ==
  ASSUME TypeOK, LifecycleFacts, LocalsClean, NEW c \in Callers, Acquire(c)
  PROVE  Silent \/ Promise!Next
PROOF
<1> USE DEF Executing, Entering
<1>1. mu = NoCaller /\ UNCHANGED remote
  BY DEF Acquire, StopExecution, handleBlocking, handleText,
     executionUnconfigured, executionBusy, handleExecution,
     handleInvestigation, AddToHistory, BeginDispatch
<1>2. ExecutionInFlight = FALSE /\ OwnTask = NoTask
  BY <1>1, FreeNoExecution
<1>3. ASSUME mu' = NoCaller, UNCHANGED <<active, isCancelled>>
      PROVE  Silent
  BY <1>1, <1>2, <1>3, NoExecution DEF Silent
<1>4. CASE StopExecution(c)
  <2>1. mu' = NoCaller
    BY <1>4 DEF StopExecution, Return
  <2>2. CASE UNCHANGED <<active, isCancelled>>
    BY <1>3, <2>1, <2>2
  <2>3. CASE /\ active # NoActive /\ isCancelled' = TRUE
             /\ active' = [active EXCEPT !.status = "CANCELLED"]
    <3>1. ExecutionInFlight' = FALSE /\ OwnTask' = NoTask
      BY <2>1, NoExecution
    <3> QED BY <1>1, <1>2, <2>3, <3>1 DEF NoActive, Promise!Next, Promise!Cancel
  <2> QED BY <1>4, <2>2, <2>3 DEF StopExecution
<1>5. CASE handleBlocking(c)
  <2>1. mu' = NoCaller /\ active' = NoActive /\ isCancelled' = TRUE
    BY <1>5 DEF handleBlocking, Return
  <2> QED BY <1>1, <1>2, <2>1, NoExecution
          DEF NoActive, Promise!Next, Promise!Forget
<1>6. CASE handleText(c) \/ executionUnconfigured(c) \/ executionBusy(c)
  BY <1>3, <1>6 DEF handleText, executionUnconfigured, executionBusy, Return
<1>7. CASE AddToHistory(c, "user", "assistant") \/ AddToHistory(c, "assistant", "idle")
  BY <1>1, <1>3, <1>7 DEF AddToHistory, lifecycleVars
<1>8. ASSUME BeginDispatch(c), pc[c] = "waiting"
      PROVE  /\ ExecutionInFlight' = (Type(c) = "Execution")
             /\ OwnTask' = NoTask
  <2>1. mu' = c /\ UNCHANGED <<req, task>> /\ task[c] = NoTask
    BY <1>8 DEF BeginDispatch, localVars, LocalsClean
  <2> QED BY <2>1, LifecycleAssumption DEF ExecutionInFlight, OwnTask, Type
<1>9. CASE handleExecution(c)
  <2>1. /\ ExecutionInFlight' = TRUE /\ OwnTask' = NoTask
        /\ active' = [status |-> "RUNNING", id |-> NoTask]
        /\ isCancelled' = FALSE /\ active.status # "RUNNING"
    BY <1>8, <1>9 DEF handleExecution, InProgress
  <2> QED BY <1>1, <1>2, <2>1 DEF Promise!Next, Promise!Start
<1>10. CASE handleInvestigation(c)
  <2>1. /\ ExecutionInFlight' = FALSE /\ OwnTask' = NoTask
        /\ UNCHANGED <<active, isCancelled>>
    BY <1>8, <1>10 DEF handleInvestigation
  <2> QED BY <1>1, <1>2, <2>1 DEF Silent
<1> QED BY <1>4, <1>5, <1>6, <1>7, <1>9, <1>10 DEF Acquire

\* During a dispatch the lock says whose execution is in flight.
LEMMA InFlight ==
  ASSUME TypeOK, LifecycleFacts, NEW c \in Callers, pc[c] \in Dispatching
  PROVE  /\ mu = c /\ c # NoCaller
         /\ ExecutionInFlight = (Type(c) = "Execution")
         /\ Type(c) = "Execution" =>
              /\ OwnTask = task[c]
              /\ active = [status |-> "RUNNING", id |-> NoTask]
         /\ Type(c) # "Execution" => OwnTask = NoTask
PROOF
<1>1. mu = c /\ c # NoCaller
  BY LifecycleAssumption DEF LifecycleFacts, DispatchHoldsLock
<1> QED BY <1>1 DEF ExecutionInFlight, OwnTask, LifecycleFacts, ActiveMatchesDispatch

LEMMA StartSimulates ==
  ASSUME TypeOK, LifecycleFacts, LocalsClean, NEW c \in Callers, StartExecution(c)
  PROVE  Silent \/ Promise!Next
PROOF
<1> PICK t \in Tasks : Accept(t) /\ task' = [task EXCEPT ![c] = t]
  BY DEF StartExecution
<1>1. pc[c] \in Dispatching /\ pc[c] \notin {"poll", "fetch"}
  BY DEF StartExecution, Dispatching
<1>2. UNCHANGED <<mu, req, active, isCancelled>> /\ task'[c] = t
  BY DEF StartExecution, lifecycleVars, TypeOK, CallTypeOK
<1>3. mu = c /\ c # NoCaller
  BY <1>1, InFlight
<1>4. ExecutionInFlight' = (Type(c) = "Execution")
  BY <1>2, <1>3 DEF ExecutionInFlight, Type
<1>5. CASE Type(c) = "Execution"
  <2>1. ExecutionInFlight = TRUE /\ OwnTask = NoTask
    BY <1>1, <1>5, InFlight DEF LocalsClean
  <2>2. ExecutionInFlight' = TRUE /\ OwnTask' = t
    BY <1>2, <1>3, <1>4, <1>5 DEF OwnTask
  <2>3. Promise!Accept(t)
    BY DEF Accept, Promise!Accept
  <2> QED BY <1>2, <2>1, <2>2, <2>3 DEF Promise!Next, Promise!Accepted
<1>6. CASE Type(c) # "Execution"
  <2>1. ExecutionInFlight = FALSE /\ OwnTask = NoTask
    BY <1>1, <1>6, InFlight
  <2>2. ExecutionInFlight' = FALSE /\ OwnTask' = NoTask
    BY <1>4, <1>6 DEF OwnTask
  <2>3. Promise!Accept(t)
    BY DEF Accept, Promise!Accept
  <2> QED BY <1>2, <2>1, <2>2, <2>3 DEF Promise!Next, Promise!Service
<1> QED BY <1>5, <1>6

LEMMA FailSimulates ==
  ASSUME TypeOK, LifecycleFacts, LocalsClean, NEW c \in Callers,
         pc[c] \in Dispatching, FailDispatch(c),
         UNCHANGED remote \/ (pc[c] = "start" /\ \E t \in Tasks : Accept(t))
  PROVE  Silent \/ Promise!Next
PROOF
<1>1. mu' = NoCaller /\ UNCHANGED isCancelled
  BY DEF FailDispatch, Return
<1>2. ExecutionInFlight' = FALSE /\ OwnTask' = NoTask
  BY <1>1, NoExecution
<1>3. \A t : Accept(t) => Promise!Accept(t)
  BY DEF Accept, Promise!Accept
<1>4. CASE Type(c) = "Execution"
  <2>1. /\ ExecutionInFlight = TRUE
        /\ active = [status |-> "RUNNING", id |-> NoTask]
        /\ pc[c] = "start" => OwnTask = NoTask
    BY <1>4, InFlight DEF LocalsClean
  <2>2. active' = [status |-> "FAILED", id |-> NoTask]
    BY <1>4, <2>1 DEF FailDispatch
  <2> QED BY <1>1, <1>2, <1>3, <2>1, <2>2 DEF Promise!Next, Promise!Fail
<1>5. CASE Type(c) # "Execution"
  <2>1. ExecutionInFlight = FALSE /\ OwnTask = NoTask /\ UNCHANGED active
    BY <1>5, InFlight DEF FailDispatch
  <2>2. CASE UNCHANGED remote
    BY <1>1, <1>2, <2>1, <2>2 DEF Silent
  <2>3. CASE \E t \in Tasks : Accept(t)
    BY <1>1, <1>2, <1>3, <2>1, <2>3 DEF Promise!Next, Promise!Service
  <2> QED BY <2>2, <2>3
<1> QED BY <1>4, <1>5

LEMMA EndSimulates ==
  ASSUME TypeOK, LifecycleFacts, LocalsClean, NEW c \in Callers, Ends(c)
  PROVE  Silent \/ Promise!Next
PROOF
<1> PICK r \in Result :
      /\ FinishDispatch(c, r)
      /\ r.status = "COMPLETED" => remote[task[c]] \notin {"absent"} \cup Waiting
      /\ r.status = "FAILED" => remote[task[c]] = "error"
  BY DEF Ends
<1>1. /\ pc[c] \in {"poll", "fetch"} /\ pc[c] \in Dispatching /\ UNCHANGED remote
      /\ mu' = NoCaller /\ UNCHANGED isCancelled
  BY DEF Ends, FinishDispatch, Return, Dispatching
<1>2. ExecutionInFlight' = FALSE /\ OwnTask' = NoTask
  BY <1>1, NoExecution
<1>3. CASE Type(c) = "Execution"
  <2>1. ExecutionInFlight = TRUE /\ OwnTask = task[c]
    BY <1>1, <1>3, InFlight
  <2>2. task[c] \in Tasks /\ remote[task[c]] # "absent" /\ task[c] # NoTask
    BY <1>1, NoTaskAssumption DEF LifecycleFacts, DispatchTracked
  <2>3. active' = [status |-> r.status, id |-> task[c]]
    BY <1>3 DEF FinishDispatch
  <2>4. r.status \in {"COMPLETED", "FAILED"} \cup Promise!Unfinished
    BY DEF Result, ResultStatus, Promise!Unfinished
  <2>5. Promise!TrueOf(task[c], r.status)
    BY <2>2, <2>4 DEF Promise!TrueOf, Waiting, Promise!Waiting
  <2>6. Promise!Finish
    BY <1>1, <1>2, <2>1, <2>2, <2>3, <2>4, <2>5 DEF Promise!Finish
  <2> QED BY <2>6 DEF Promise!Next
<1>4. CASE Type(c) # "Execution"
  <2>1. ExecutionInFlight = FALSE /\ OwnTask = NoTask /\ UNCHANGED active
    BY <1>1, <1>4, InFlight DEF FinishDispatch
  <2> QED BY <1>1, <1>2, <2>1 DEF Silent
<1> QED BY <1>3, <1>4

LEMMA StepSimulates ==
  ASSUME LifecycleInv, LocalsClean, [Next]_vars
  PROVE  Silent \/ Promise!Next
PROOF
<1>1. TypeOK /\ LifecycleFacts
  BY DEF LifecycleInv, LifecycleFacts
<1>2. ASSUME UNCHANGED <<mu, task, active, isCancelled>>,
             \A d \in Callers : pc[d] \in Dispatching => req'[d] = req[d]
      PROVE  UNCHANGED <<ExecutionInFlight, OwnTask, active, isCancelled>>
  BY <1>1, <1>2, SameExecution
<1>3. ASSUME NEW c \in Callers, Call(c) \/ RouteRefuses(c)
      PROVE  Silent
  <2>1. \A d \in Callers : pc[d] \in Dispatching => req'[d] = req[d]
    BY <1>1, <1>3 DEF Call, RouteRefuses, localVars, Dispatching, TypeOK, CallTypeOK
  <2>2. UNCHANGED <<mu, task, active, isCancelled, remote>>
    BY <1>3 DEF Call, RouteRefuses, localVars, lifecycleVars
  <2> QED BY <1>2, <2>1, <2>2 DEF Silent
<1>4. ASSUME NEW c \in Callers, Acquire(c)
      PROVE  Silent \/ Promise!Next
  BY <1>1, <1>4, AcquireSimulates
<1>5. ASSUME NEW c \in Callers, DispatchStep(c)
      PROVE  Silent \/ Promise!Next
  <2>1. CASE StartExecution(c)
    BY <1>1, <2>1, StartSimulates
  <2>2. CASE StartFails(c) \/ PollFails(c)
    <3>1. /\ pc[c] \in Dispatching /\ FailDispatch(c)
          /\ UNCHANGED remote \/ (pc[c] = "start" /\ \E t \in Tasks : Accept(t))
      BY <2>2 DEF StartFails, PollFails, Dispatching
    <3> QED BY <1>1, <3>1, FailSimulates
  <2>3. CASE GoesOn(c)
    BY <1>2, <2>3 DEF GoesOn, Silent
  <2>4. CASE Ends(c)
    BY <1>1, <2>4, EndSimulates
  <2> QED BY <1>1, <1>5, <2>1, <2>2, <2>3, <2>4, DispatchOutcomes
<1>6. CASE Service
  <2>1. UNCHANGED <<ExecutionInFlight, OwnTask, active, isCancelled>>
    BY <1>2, <1>6 DEF Service, lifecycleVars, localVars
  <2>2. PICK t \in Tasks : Advance(t)
    BY <1>6 DEF Service
  <2>3. Promise!Advance(t)
    BY <2>2 DEF Advance, Promise!Advance, RemoteState, Promise!RemoteState,
       Live, Promise!Live, Over, Promise!Over, Waiting, Promise!Waiting,
       ServiceSteps, Promise!ServiceSteps
  <2> QED BY <2>1, <2>2, <2>3 DEF Promise!Next, Promise!Service
<1>7. CASE UNCHANGED vars
  BY <1>2, <1>7 DEF vars, Silent, lifecycleVars
<1> QED BY <1>3, <1>4, <1>5, <1>6, <1>7 DEF Next

\* The lifecycle implements its promise: one execution at a time, and what is
\* recorded of it is true of the task the service took for it.
THEOREM ImplementsPromise == Spec => KeepsPromise
PROOF
<1>1. Init => Promise!Init
  BY FreeNoExecution DEF Init, NoActive, Promise!Init, ServiceInit, Promise!ServiceInit
<1>2. Init => LocalsClean
  BY DEF Init, LocalsClean
<1>3. LifecycleInv /\ LocalsClean /\ [Next]_vars => LocalsClean'
  BY CleanNext
<1>4. LifecycleInv /\ LocalsClean /\ [Next]_vars => [Promise!Next]_Promise!vars
  BY StepSimulates DEF Silent, Promise!vars
<1> QED BY <1>1, <1>2, <1>3, <1>4, LifecycleInvariant, PTL
        DEF Spec, KeepsPromise, Promise!Spec

-----------------------------------------------------------------------------
(* What the end of a dispatch rests on.                                    *)

\* How many steps a dispatch has at most before it returns: two for each poll
\* that fits, the end at the deadline, and the start.
StepsLeft(c) ==
  CASE pc[c] = "start" -> 2 * MaxPolls + 2
    [] pc[c] = "poll"  -> 2 * (MaxPolls - polls[c]) + 1
    [] pc[c] = "fetch" -> 2 * (MaxPolls - polls[c])
    [] OTHER           -> 0

\* Every step of a dispatch brings it nearer to its return, and nothing that
\* other callers or the service do sets it back: no answer keeps a poll alive
\* past the deadline, so lc.mu is free again after 2 * MaxPolls + 2 steps of
\* whoever holds it.
DispatchesEnd ==
  [][\A c \in Callers :
       pc[c] \in Dispatching
         => UNCHANGED <<pc[c], polls[c]>> \/ StepsLeft(c)' < StepsLeft(c)]_vars

\* Whoever dispatches has steps left, and has none left when it has returned.
LEMMA StepsAreLeft ==
  ASSUME LifecycleInv, NEW c \in Callers
  PROVE  /\ polls[c] \in 0..MaxPolls /\ MaxPolls \in Nat \ {0}
         /\ pc[c] \in Dispatching => StepsLeft(c) > 0
         /\ pc[c] \notin Dispatching => StepsLeft(c) = 0
PROOF
<1>1. polls[c] \in 0..MaxPolls /\ MaxPolls \in Nat \ {0}
  BY LifecycleAssumption DEF LifecycleInv, TypeOK, CallTypeOK
<1>2. pc[c] = "fetch" => polls[c] < MaxPolls
  BY DEF LifecycleInv, DispatchTracked
<1> QED BY <1>1, <1>2 DEF StepsLeft, Dispatching

LEMMA ReturnGetsNearer ==
  ASSUME LifecycleInv, NEW c \in Callers, pc[c] \in Dispatching, NEW a, Return(c, a)
  PROVE  StepsLeft(c)' < StepsLeft(c)
PROOF
<1>1. pc'[c] \in {"user", "idle"}
  BY DEF Return, AfterReturn, LifecycleInv, TypeOK, CallTypeOK
<1>2. StepsLeft(c)' = 0
  BY <1>1 DEF StepsLeft
<1> QED BY <1>2, StepsAreLeft

LEMMA SettleGetsNearer ==
  ASSUME LifecycleInv, NEW c \in Callers, pc[c] \in {"poll", "fetch"}, NEW r, Settle(c, r)
  PROVE  StepsLeft(c)' < StepsLeft(c)
PROOF
<1>1. CASE Settles(r)
  BY <1>1, ReturnGetsNearer DEF Settle, FinishDispatch, Dispatching
<1>2. CASE ~Settles(r)
  <2>1. pc'[c] = "poll" /\ polls'[c] = polls[c] + 1
    BY <1>2 DEF Settle, LifecycleInv, TypeOK, CallTypeOK
  <2>2. StepsLeft(c)' = 2 * (MaxPolls - (polls[c] + 1)) + 1
    BY <2>1 DEF StepsLeft
  <2>3. StepsLeft(c) >= 2 * (MaxPolls - polls[c])
    BY StepsAreLeft DEF StepsLeft
  <2> QED BY <2>2, <2>3, StepsAreLeft DEF StepsLeft
<1> QED BY <1>1, <1>2

LEMMA DispatchGetsNearer ==
  ASSUME LifecycleInv, LifecycleInv', NEW c \in Callers, DispatchStep(c)
  PROVE  StepsLeft(c)' < StepsLeft(c)
PROOF
<1>1. CASE StartExecution(c)
  <2>1. pc[c] = "start" /\ pc'[c] = "poll" /\ polls'[c] = polls[c]
    BY <1>1 DEF StartExecution, LifecycleInv, TypeOK, CallTypeOK
  <2>2. /\ StepsLeft(c)' = 2 * (MaxPolls - polls[c]) + 1
        /\ StepsLeft(c) = 2 * MaxPolls + 2
    BY <2>1 DEF StepsLeft
  <2> QED BY <2>2, StepsAreLeft
<1>2. CASE StartFails(c) \/ PollFails(c)
  BY <1>2, ReturnGetsNearer DEF StartFails, PollFails, FailDispatch, Dispatching
<1>3. CASE PollTask(c)
  <2>1. pc[c] = "poll"
    BY <1>3 DEF PollTask
  <2>2. ASSUME pc' = [pc EXCEPT ![c] = "fetch"], UNCHANGED polls
        PROVE  StepsLeft(c)' < StepsLeft(c)
    <3>1. pc'[c] = "fetch" /\ polls'[c] = polls[c]
      BY <2>2 DEF LifecycleInv, TypeOK, CallTypeOK
    <3>2. /\ StepsLeft(c)' = 2 * (MaxPolls - polls[c])
          /\ StepsLeft(c) = 2 * (MaxPolls - polls[c]) + 1
      BY <2>1, <3>1 DEF StepsLeft
    <3> QED BY <3>2, StepsAreLeft
  <2>3. ASSUME NEW r, Settle(c, r) PROVE StepsLeft(c)' < StepsLeft(c)
    BY <2>1, <2>3, SettleGetsNearer
  <2>4. \/ pc' = [pc EXCEPT ![c] = "fetch"] /\ UNCHANGED polls
        \/ \E detail \in BOOLEAN :
             Settle(c, StatusResult(TaskStatusOf(remote[task[c]]), detail, {}))
    BY <1>3 DEF PollTask
  <2> QED BY <2>2, <2>3, <2>4
<1>4. CASE PollEmpty(c) \/ FetchConversation(c)
  BY <1>4, SettleGetsNearer DEF PollEmpty, FetchConversation
<1>5. CASE Deadline(c)
  BY <1>5, ReturnGetsNearer DEF Deadline, FinishDispatch, Dispatching
<1> QED BY <1>1, <1>2, <1>3, <1>4, <1>5 DEF DispatchStep

\* A dispatch that has begun ends: the steps that are left get fewer with each
\* one taken, whatever the service answers.
THEOREM DispatchesGetNearerToTheirEnd == Spec => DispatchesEnd
PROOF
<1>1. ASSUME LifecycleInv, LifecycleInv', [Next]_vars, NEW c \in Callers,
             pc[c] \in Dispatching
      PROVE  UNCHANGED <<pc[c], polls[c]>> \/ StepsLeft(c)' < StepsLeft(c)
  <2>1. ASSUME DispatchStep(c) PROVE StepsLeft(c)' < StepsLeft(c)
    BY <1>1, <2>1, DispatchGetsNearer
  <2>2. mu = c /\ mu # NoCaller
    BY <1>1, LifecycleAssumption DEF LifecycleInv, DispatchHoldsLock
  <2>3. ASSUME NEW d \in Callers, Acquire(d) PROVE FALSE
    BY <2>2, <2>3 DEF Acquire, StopExecution, handleBlocking, handleText,
       executionUnconfigured, executionBusy, handleExecution,
       handleInvestigation, AddToHistory, Executing, Entering
  <2>4. ASSUME NEW d \in Callers, DispatchStep(d) PROVE d = c
    <3>1. pc[d] \in Dispatching
      BY <2>4 DEF DispatchStep, StartExecution, StartFails, PollTask, PollEmpty,
         PollFails, FetchConversation, Deadline, Dispatching
    <3> QED BY <1>1, <2>2, <3>1 DEF LifecycleInv, DispatchHoldsLock
  <2>5. ASSUME NEW d \in Callers, Call(d) \/ RouteRefuses(d)
        PROVE  UNCHANGED <<pc[c], polls[c]>>
    <3>1. pc[c] # "idle" /\ pc \in [Callers -> {"idle", "waiting", "user", "assistant"} \cup Dispatching]
      BY <1>1 DEF Dispatching, LifecycleInv, TypeOK, CallTypeOK
    <3> QED BY <2>5, <3>1 DEF Call, RouteRefuses, localVars
  <2>6. CASE Service \/ UNCHANGED vars
    BY <2>6 DEF Service, vars, localVars
  <2> QED BY <1>1, <2>1, <2>3, <2>4, <2>5, <2>6 DEF Next
<1>2. LifecycleInv /\ LifecycleInv' /\ [Next]_vars
        => [\A c \in Callers :
              pc[c] \in Dispatching
                => UNCHANGED <<pc[c], polls[c]>> \/ StepsLeft(c)' < StepsLeft(c)]_vars
  BY <1>1
<1> QED BY <1>2, LifecycleInvariant, PTL DEF Spec, DispatchesEnd
=============================================================================
