---------------------------- MODULE WorkflowEngine ----------------------------
(***************************************************************************)
(* The operational engine (internal/workflow/engine.go) over the GitHub    *)
(* Actions dispatcher (internal/workflow/dispatcher.go), both configured,  *)
(* used by several goroutines.  The engine keeps the tasks it dispatched   *)
(* in `active`, guarded by e.mu; the dispatcher keeps its runs in `runs`,  *)
(* guarded by d.mu.  Both maps hold pointers and are keyed by the run ID   *)
(* that was parsed from GitHub's answer, which is 0 when the answer has    *)
(* none (GitHub answers a dispatch with 204 and no body).                  *)
(*                                                                         *)
(* A task and its run are named by the GitHub run that the dispatch made.  *)
(* The intents that only produce a text change nothing and are left out,   *)
(* as are `queue`, `cancelChans` and `completed`, which nothing fills.     *)
(***************************************************************************)
EXTENDS Naturals, FiniteSets

CONSTANTS
  Callers,   \* goroutines that use the engine
  NoCaller,  \* e.mu is free
  Runs,      \* GitHub runs, by their IDs
  Zero,      \* the ID that is parsed when there is none
  NoRun,     \* no entry in a map
  MaxPolls   \* bound: polls of PollRun before its deadline

Keys == Runs \cup {Zero}

ASSUME EngineAssumption ==
  /\ NoCaller \notin Callers
  /\ Zero \notin Runs
  /\ NoRun \notin Keys
  /\ MaxPolls \in Nat \ {0}

VARIABLES
  remote,      \* GitHub's runs
  keyOf,       \* ID of the task and run made by a dispatch; NoRun: none was
  runs,        \* d.runs
  runStatus,   \* Status of the dispatcher's runs
  active,      \* e.active
  taskStatus,  \* Status of the engine's tasks
  mu,          \* who holds e.mu across a request
  pc, key, task, polls,   \* of each call: its place, argument, task, polls
  answer       \* what GetRunStatus told PollStatus, until it returns it

mapVars   == <<keyOf, runs, runStatus, active, taskStatus>>
localVars == <<key, task, polls, answer>>
vars      == <<remote, mapVars, mu, pc, localVars>>

Alive       == {"in_progress"}   \* or queued
Over        == {"success", "failure", "cancelled"}
RunStatus   == {"queued", "in_progress", "completed", "failed", "cancelled"}
TaskStatus  == RunStatus \cup {"none", "dispatched", "not_found"}
Answer      == RunStatus \cup {"none", "not_found"}
PCs         == {"idle", "dispatch", "register", "block", "lookup", "status",
                "store", "cancel", "cancelling", "pollrun"}

TypeOK ==
  /\ remote \in [Runs -> Alive \cup Over \cup {"absent"}]
  /\ keyOf \in [Runs -> Keys \cup {NoRun}]
  /\ runs \in [Keys -> Runs \cup {NoRun}]
  /\ runStatus \in [Runs -> RunStatus]
  /\ active \in [Keys -> Runs \cup {NoRun}]
  /\ taskStatus \in [Runs -> TaskStatus]
  /\ mu \in Callers \cup {NoCaller}
  /\ pc \in [Callers -> PCs]
  /\ key \in [Callers -> Keys]
  /\ task \in [Callers -> Runs \cup {NoRun}]
  /\ polls \in [Callers -> 0..MaxPolls]
  /\ answer \in [Callers -> Answer]

Init ==
  /\ remote = [r \in Runs |-> "absent"]
  /\ keyOf = [r \in Runs |-> NoRun]
  /\ runs = [k \in Keys |-> NoRun]
  /\ runStatus = [r \in Runs |-> "queued"]
  /\ active = [k \in Keys |-> NoRun]
  /\ taskStatus = [r \in Runs |-> "none"]
  /\ mu = NoCaller
  /\ pc = [c \in Callers |-> "idle"]
  /\ key = [c \in Callers |-> Zero]
  /\ task = [c \in Callers |-> NoRun]
  /\ polls = [c \in Callers |-> 0]
  /\ answer = [c \in Callers |-> "none"]

Goto(c, from, to) == pc[c] = from /\ pc' = [pc EXCEPT ![c] = to]

\* The call of c returns; its locals are reset.
Return(c, from) ==
  /\ Goto(c, from, "idle")
  /\ answer' = [answer EXCEPT ![c] = "none"]
  /\ key' = [key EXCEPT ![c] = Zero]
  /\ task' = [task EXCEPT ![c] = NoRun]
  /\ polls' = [polls EXCEPT ![c] = 0]

-----------------------------------------------------------------------------
(* GitHub Actions.                                                         *)

GitHub ==
  /\ \E r \in Runs :
       /\ remote[r] = "in_progress"
       /\ \E end \in {"success", "failure"} : remote' = [remote EXCEPT ![r] = end]
  /\ UNCHANGED <<mapVars, mu, pc, localVars>>

Created(r) == remote[r] = "absent" /\ remote' = [remote EXCEPT ![r] = "in_progress"]

-----------------------------------------------------------------------------
(* Calls.                                                                  *)

Call(c) ==
  /\ pc[c] = "idle"
  /\ \E op \in {"dispatch", "block", "lookup", "cancel", "pollrun"}, k \in Keys :
       /\ op \in {"dispatch", "block"} => k = Zero
       /\ pc' = [pc EXCEPT ![c] = op]
       /\ key' = [key EXCEPT ![c] = k]
  /\ UNCHANGED <<remote, mapVars, mu, task, polls, answer>>

\* Execute: GitHub makes a run; DispatchSimplified parses an ID from the
\* answer, if there is one, and stores the run under it.
Dispatch(c) ==
  /\ Goto(c, "dispatch", "register")
  /\ \E r \in Runs, k \in Keys :
       /\ Created(r)
       /\ k \in {r, Zero}
       /\ keyOf' = [keyOf EXCEPT ![r] = k]
       /\ runs' = [runs EXCEPT ![k] = r]
       /\ runStatus' = [runStatus EXCEPT ![r] = "queued"]
       /\ task' = [task EXCEPT ![c] = r]
  /\ UNCHANGED <<active, taskStatus, mu, key, polls, answer>>

\* The request fails, perhaps after GitHub took it: executeLocally answers.
DispatchFails(c) ==
  /\ Return(c, "dispatch")
  /\ UNCHANGED remote \/ \E r \in Runs : Created(r)
  /\ UNCHANGED <<mapVars, mu>>

\* variant: kept under another key than its ID
EntryOf_zero(r) == Zero

EntryOf(r) == keyOf[r]

\* The second half of Execute: the task becomes active under its ID.
Register(c) ==
  /\ mu = NoCaller
  /\ Return(c, "register")
  /\ active' = [active EXCEPT ![EntryOf(task[c])] = task[c]]
  /\ taskStatus' = [taskStatus EXCEPT ![task[c]] = "dispatched"]
  /\ UNCHANGED <<remote, keyOf, runs, runStatus, mu>>

ActiveTasks == {r \in Runs : \E k \in Keys : active[k] = r}

\* handleBlocking marks every active task cancelled and forgets it; GitHub is
\* not told.
Block(c) ==
  /\ mu = NoCaller
  /\ Return(c, "block")
  /\ taskStatus' = [r \in Runs |-> IF r \in ActiveTasks THEN "cancelled" ELSE taskStatus[r]]
  /\ active' = [k \in Keys |-> NoRun]
  /\ UNCHANGED <<remote, keyOf, runs, runStatus, mu>>

-----------------------------------------------------------------------------
(* GetRunStatus.                                                           *)

\* The URL is formatted with "%s" from run.RunID, which is an int: it ends in
\* "%!s(int=7)", which is no URL, so that NewRequest fails and the run is
\* returned as it is.
UrlParses == FALSE

MapStatus(s) ==
  CASE s = "success" -> "completed"
    [] s \in {"failure", "cancelled"} -> "failed"
    [] OTHER -> s

Refreshed_raw(r) == remote[r]   \* variant: the status stored as it came

Refreshed(r) == IF UrlParses THEN MapStatus(remote[r]) ELSE runStatus[r]

\* The status that a poll of the run under key k reports.
GetRunStatus(k) == IF runs[k] = NoRun THEN "not_found" ELSE Refreshed(runs[k])

Refresh(k) ==
  runStatus' = IF runs[k] = NoRun THEN runStatus
               ELSE [runStatus EXCEPT ![runs[k]] = Refreshed(runs[k])]

-----------------------------------------------------------------------------
(* PollStatus: the task is looked up under the lock, its run is asked for  *)
(* without it, and the task is written without it.                         *)

PollNotFound(c) ==
  /\ mu = NoCaller /\ active[key[c]] = NoRun
  /\ Return(c, "lookup")
  /\ UNCHANGED <<remote, mapVars, mu>>

PollFound(c) ==
  /\ mu = NoCaller /\ active[key[c]] # NoRun
  /\ Goto(c, "lookup", "status")
  /\ task' = [task EXCEPT ![c] = active[key[c]]]
  /\ UNCHANGED <<remote, mapVars, mu, key, polls, answer>>

PollRunStatus(c) ==
  /\ Goto(c, "status", "store")
  /\ answer' = [answer EXCEPT ![c] = GetRunStatus(keyOf[task[c]])]
  /\ Refresh(keyOf[task[c]])
  /\ UNCHANGED <<remote, keyOf, runs, active, taskStatus, mu, key, task, polls>>

PollStore(c) ==
  /\ Return(c, "store")
  /\ taskStatus' = [taskStatus EXCEPT ![task[c]] = answer[c]]
  /\ UNCHANGED <<remote, keyOf, runs, runStatus, active, mu>>

-----------------------------------------------------------------------------
(* Cancel holds e.mu during its request.                                   *)

CancelUnknown(c) ==
  /\ mu = NoCaller /\ active[key[c]] = NoRun
  /\ Return(c, "cancel")
  /\ UNCHANGED <<remote, mapVars, mu>>

CancelKnown(c) ==
  /\ mu = NoCaller /\ active[key[c]] # NoRun
  /\ Goto(c, "cancel", "cancelling")
  /\ mu' = c
  /\ taskStatus' = [taskStatus EXCEPT ![active[key[c]]] = "cancelled"]
  /\ UNCHANGED <<remote, keyOf, runs, runStatus, active, localVars>>

Unlocked_error == mu   \* variant: the lock kept when the request fails

Unlocked == NoCaller

\* variant: the run marked although its cancellation was refused
MarkedIfRefused_always(k) ==
  IF runs[k] = NoRun THEN runStatus ELSE [runStatus EXCEPT ![runs[k]] = "cancelled"]

\* The dispatcher's records after a cancellation that failed.
MarkedIfRefused(k) == runStatus

\* CancelRun fails: there is no run 0, the run is over, the request is lost, or
\* GitHub answers 202 for what it accepts.  Cancel ignores the error.
CancelRefused(c) ==
  /\ Return(c, "cancelling")
  /\ \/ UNCHANGED remote
     \/ /\ key[c] \in Runs /\ remote[key[c]] \in Alive
        /\ remote' = [remote EXCEPT ![key[c]] = "cancelled"]
  /\ runStatus' = MarkedIfRefused(key[c])
  /\ mu' = Unlocked
  /\ UNCHANGED <<keyOf, runs, active, taskStatus>>

\* CancelRun is answered with 200 or 204 and marks its run.
CancelAccepted(c) ==
  /\ key[c] \in Runs /\ remote[key[c]] \in Alive
  /\ Return(c, "cancelling")
  /\ remote' = [remote EXCEPT ![key[c]] = "cancelled"]
  /\ runStatus' = IF runs[key[c]] = NoRun THEN runStatus
                  ELSE [runStatus EXCEPT ![runs[key[c]]] = "cancelled"]
  /\ mu' = NoCaller
  /\ UNCHANGED <<keyOf, runs, active, taskStatus>>

-----------------------------------------------------------------------------
(* PollRun of the dispatcher.                                              *)

Terminal == {"completed", "failed", "not_found"}

PollRunReturns(c) ==
  /\ GetRunStatus(key[c]) \in Terminal
  /\ Return(c, "pollrun")
  /\ Refresh(key[c])
  /\ UNCHANGED <<remote, keyOf, runs, active, taskStatus, mu>>

PollRunSleeps(c) ==
  /\ pc[c] = "pollrun" /\ polls[c] < MaxPolls
  /\ GetRunStatus(key[c]) \notin Terminal
  /\ Refresh(key[c])
  /\ polls' = [polls EXCEPT ![c] = @ + 1]
  /\ UNCHANGED <<remote, keyOf, runs, active, taskStatus, mu, pc, key, task,
                 answer>>

Deadline(c) ==
  /\ polls[c] > 0
  /\ Return(c, "pollrun")
  /\ UNCHANGED <<remote, mapVars, mu>>

-----------------------------------------------------------------------------

Working(c) ==
  \/ Dispatch(c) \/ DispatchFails(c) \/ Register(c) \/ Block(c)
  \/ PollNotFound(c) \/ PollFound(c) \/ PollRunStatus(c) \/ PollStore(c)
  \/ CancelUnknown(c) \/ CancelKnown(c) \/ CancelRefused(c) \/ CancelAccepted(c)
  \/ PollRunReturns(c) \/ PollRunSleeps(c) \/ Deadline(c)

Next == GitHub \/ \E c \in Callers : Call(c) \/ Working(c)

Spec == Init /\ [][Next]_vars

\* A goroutine inside a call goes on, and every request is answered or times
\* out; sync.RWMutex lets no waiter starve.
FairSpec == Spec /\ \A c \in Callers : SF_vars(Working(c))

-----------------------------------------------------------------------------
(* Properties.                                                             *)

\* The two maps are written under two locks, the dispatcher's first: an active
\* task is kept under its own ID, and there is a run under that ID, so that a
\* poll that has found its task does not answer "not_found".
ActiveHasRun ==
  /\ \A k \in Keys : active[k] # NoRun =>
       keyOf[active[k]] = k /\ runs[k] # NoRun
  /\ \A c \in Callers :
       /\ pc[c] \in {"status", "store"} =>
            task[c] # NoRun /\ keyOf[task[c]] # NoRun /\ runs[keyOf[task[c]]] # NoRun
       /\ pc[c] = "store" => answer[c] # "not_found"

\* The dispatcher calls a run cancelled only when GitHub cancelled it, also when
\* runs share an ID and whatever becomes of the requests.
CancelledIsReal == \A r \in Runs : runStatus[r] = "cancelled" => remote[r] = "cancelled"

\* Every call returns, although Cancel keeps the lock during its request.
CallsReturn == \A c \in Callers : pc[c] # "idle" ~> pc[c] = "idle"

-----------------------------------------------------------------------------
(* What a comment of the code says, which the code does not do.            *)

\* "Cancel cancels a task": a cancelled task stays cancelled.
CancelIsFinal ==
  [][\A r \in Runs : taskStatus[r] = "cancelled" => taskStatus'[r] = "cancelled"]_vars
=============================================================================
