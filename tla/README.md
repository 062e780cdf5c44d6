# SMART-WORKER: models and proofs

This directory is a TLA+ development of the repository: state machines of its
components, TLC configurations that check them on small instances, and theorems
about them that TLAPS proves for every value of the constants.  Paths are
relative to the repository root.

The code is read as it is meant to run.  At this commit some packages do not
compile (`internal/openhands/client.go` lacks the `log` import and the closing
brace of `StartExecution`, `internal/workflow/engine.go` passes `Dispatch` a
value of the wrong type, `cmd/bot/main.go` declares `apiKey` twice); the evident
intention is modelled.  `.go/` is a Go toolchain that was committed along with
the code and is no part of the system.

## 1. Inventory

### Components

| component | where | state it keeps | operations | correct when |
|---|---|---|---|---|
| OpenHands client | `internal/openhands/client.go` | none; the service keeps the tasks | `StartExecution`, `GetExecutionStatus` (two requests), `PollExecution`, `Dispatch` | an outcome it reports is one the service had |
| Execution lifecycle | `internal/intent/lifecycle.go` | `ActiveTask`, `IsCancelled`, `History`, lock `mu` | `Execute` and its handlers, `StopExecution`, `AddToHistory` | one dispatch at a time; recorded outcomes are real and final; every call returns |
| Intent cognition | `internal/intent/cognition.go`, and the inference in `Execute` | none | `fallbackAnalysis`, `ShouldDispatchOpenHands` | what restrains never executes |
| Bot main loop, router | `integrations/telegram/cmd/bot/` | the router's lifecycle | one message at a time, `Route`, commands | every message is answered; history is whole exchanges |
| Risk gates | the two `main.go`, `runtime.sh`, `agents/executor/run.sh` | none | four classifiers of findings | the copies agree where one relies on another; more severe is never less risky |
| Audit loops | the two `main.go`, `runtime.sh` | `KnownFindings`, files in `/tmp` | audit, load, compare, hand over, save, restart | only low risk is applied; nothing is skipped or handed over twice |
| Auditor, executor scripts | `agents/*/run.sh` | files in `/tmp` | one run | (inside the audit loops) |
| Workflow engine | `internal/workflow/engine.go` | `active`, lock `e.mu` | `Execute`, `handleBlocking`, `PollStatus`, `Cancel` | an active task has its run; cancelled means cancelled |
| Workflow dispatcher | `internal/workflow/dispatcher.go` | `runs`, lock `d.mu` | `DispatchSimplified`, `GetRunStatus`, `PollRun`, `CancelRun` | the status of a run is GitHub's |
| Memory store | `internal/memory/postgres.go`, `cmd/api/handlers.go` | four tables | `CreateMemory` for create, ingest and webhook | few duplicates; what is acknowledged is stored |
| Context assembly | same files | none | `SearchMemory`, search, context, agent runtime, bootstrap | a context lists what it holds, repeats nothing, leaves out nothing that fits |
| Process control | `runtime.sh`, `integrations/telegram/context/memory.go` | `/tmp/runtime.pid` | start, stop, status, `LoadFromDisk` | a start leaves a loop; the PID file names it, a second start is refused and stop stops it, three things that the code does not keep |

The remaining parts (OpenHands bridge, embeddings client, configuration, logger,
database connection, API `main`, migrations, CI, start script and deployment
files) keep no state that changes over time and are not modelled; PROJECT.json
gives the reason for each.

### How they interact

A Telegram message goes through the bot's main loop to `Router.Route`, which
hands it to `ExecutionLifecycle.Execute` with no intent; `Execute` infers one
and, for an execution or an investigation, calls the OpenHands client and holds
`lc.mu` until the client returns.  The router then appends the message and the
answer to the history.  The router also creates the workflow engine, whose
operations are calls of any goroutine; at this commit no handler calls them.

Beside that the bot runs an audit loop in a goroutine, the Go runtime
(`integrations/telegram/runtime`) runs the same loop as a process of its own and
`runtime.sh` runs a third.  They call the auditor script and read the findings
it leaves in `/tmp`; the two Go loops hand low-risk findings to the executor
script.  The processes share the newest findings file, one executor input file
and one state file, none of which is locked or written atomically.

The API process stores memories in Postgres, one goroutine per request.

### What is hard

* *Interleaving.*  A lock held through requests (lifecycle, `Cancel`), status
  written without the lock that it was read under (`PollStatus`), three
  processes on shared files, a check and an insertion in no transaction.
* *Failure.*  Requests that time out after the service acted, lists that are
  still empty, conversations that cannot be fetched, scripts that fail, rows
  that cannot be scanned, errors that are ignored.
* *Crash and restart.*  The saved state decides what a later life skips; scripts
  go on when the process that started them is gone.
* *Time.*  Deadlines of polls against late answers; ten minutes under a lock.
* *Classification.*  Ordered lists of substrings, copied into four places.

PROJECT.json lists the hazards one by one, each at its line.

## 2. Modules

| module | models | composes |
|---|---|---|
| `OpenHandsClient` | the external service and the client's reading of its answers | |
| `Intent` | the two classifiers of messages | |
| `ExecutionLifecycle` | lifecycle, client calls, callers | EXTENDS the two above |
| `Bot` | the lifecycle with the bot's one caller | EXTENDS `ExecutionLifecycle` |
| `RiskGate` | the four classifiers of findings | |
| `AuditLoop` | the three loops over shared files | EXTENDS `RiskGate` |
| `WorkflowEngine` | engine, dispatcher, GitHub Actions | |
| `ExecutionPromise` | what the lifecycle promises, without locks and requests | EXTENDS `OpenHandsClient`; INSTANCE in `ExecutionLifecycle` |
| `AuditPromise` | what the audit loops promise, without scripts and files | INSTANCE in `AuditLoop` |
| `MemoryStore` | `CreateMemory` under concurrent requests | |
| `ContextAssembly` | `SearchMemory` and the four handlers that use it | |
| `RuntimeProcess` | start, stop, status over the PID file; the bot's reading of it | |
| `*_proofs` | theorems about the module of that name | EXTENDS it and TLAPS |
| `Decisions_proofs` | theorems about `Intent`, `RiskGate` and their composition with the other parts | EXTENDS `MC_Parts`, `ContextAssembly_proofs` |
| `MC_*` | constants, symmetry and input spaces for TLC | EXTENDS it |
| `MC_Parts` | the parts that share nothing, in one run | EXTENDS `MC_Intent`, `MC_RiskGate`, `MC_ContextAssembly`, `MC_MemoryStore`, `RuntimeProcess` |

Definitions keep the names of the source.  A definition marked `variant` is not
part of the model: it is a plausible mistake in the definition of the same name,
and shows that a property notices it.

### OpenHandsClient and ExecutionLifecycle

`remote` is the service: for each task how far it has got, from `queued` to
`finished` or `error`.  Two states can look alike to the client (`READY` without
and with a conversation), which is why it makes a second request; between the
two the service goes on (`FetchConversation` reads `remote` anew).  `MapStatus`
and `getConversationDetails` are the switch and the text of the client;
texts are sets of the parts that may be present.

Each caller has a program counter: `idle`, `waiting` (for `lc.mu`), `start`,
`poll`, `fetch` (inside a dispatch, holding it), `user`, `assistant` (the two
calls of `AddToHistory`).  Handlers that hold the lock without waiting for
anything are one step, as nobody else can see between.  `StartFails` lets the
service accept a task whose answer is lost; `PollFails` ends a poll at once, as
the code does; `Deadline` needs one poll to have run, as `PollExecution` tests
the clock only between polls.  The history keeps the roles only.  Intents that
only compose a text are one action.  `dispatchExecution` is dead code, the
urgency only shortens the deadline, and nothing receives from `CancelChan`.

### ExecutionPromise

The abstract specification has an execution under way or not (`running`), the
task the service accepted for it (`own`), the record (`active`) and whether the
last word was to stop (`cancelled`).  An execution may only record what is true,
at that moment, of the task that is its own (`TrueOf`), or that it failed
without naming one.  `KeepsPromise` is `Promise!Spec` under the mapping `running`
<- `ExecutionInFlight` (an execution holds `lc.mu`), `own` <- `OwnTask` (the task
of that dispatch), `cancelled` <- `isCancelled`; `active` and `remote` are the same
in both.  Lock, callers, the polls and the two requests of a status, the
history and investigations are steps that the abstract specification does not
see, or sees as work of the service.

### Bot

The main loop takes one update at a time and the router passes no intent, so it
is `ExecutionLifecycle` with one caller (`BotAssumption`).  `BotSpec` adds that
users write and the service works.  `CompletedMeansFinished` and
`StopEndsExecution` say what comments and answers of the code say, and do not
hold.

### Intent

A message is the set of listed phrases that it contains, one or two for every
list, each put into all lists one of whose entries it contains.  Order of lists,
the check for "nao " and fall-through are those of the code.  Acknowledgments are
compared with the whole text (`ok`), or with its beginning if a full stop or an
exclamation mark follows (`ok_then`).  The one word that `fallbackAnalysis` takes for
a negation is "nao " (`cognition.go:315`): "don't" and the accented "não" are none to
it, and `InferIntent`, the inference that the bot lives by, knows none at all.  So
the property is called `NaoNeverDispatches` and speaks of this word and of
`CognitionEngine` only, which at this commit nobody calls.

### RiskGate

A text is a set of words; `Inside` says which keywords are found inside longer
words, since all four classifiers search for substrings.  The executor's loop
over `APPROVAL_REQUIRED` is modelled by what bash does: with the default `IFS` a
list separated by commas is one word.

### AuditLoop

`pc[p]` is where the loop `p` of {bot, runtime, script} is.  Every write of a
shared file is two steps, truncate and write: in between, a reader sees
`TornFile`, and a second writer in between may leave a mixture
(`Written`); so may two auditors that are started in the same second, whose
files have one name.  The executor reads its input with several commands, which
is one read here: what any of them reads is torn or has passed the gate.
Findings come in any order.

`Crash` loses the memory of a process.  The script that it was running may die
with it or not, since `exec.Command` ties no child to its parent: `orphans` counts,
by their place, the scripts that go on, and `OrphanOpens`, `OrphanWrites` and
`OrphanExecutes` are what they still do.  `Restart` loads the state file, of which
a Go loop finds its findings only if the Go runtime wrote it (`Tagged`).

`handled` is the history of what a Go loop has dealt with: reported and, if of
low risk, tried, that is, the executor was run for it, whichever finding it then
read in the shared file.  What the shell loop loads is in its own `known`
and never in `handled`: it tries nothing, and shows five findings at most
(`runtime.sh:189`).  `handed` and `applied` are history variables too.  Counters and times are reported and decide
nothing; they are left out, and so is the `run-audit` command, whose handler is
not connected to any update.

### AuditPromise

The abstract specification of the loops has no tickers, scripts or files.  A
worker takes findings on (`known`, `pending`), reports those that may not run by
themselves, tries each of the others at most once in a life (`trying`, `tried`), and
takes on more, or remembers what it knows, only when nothing is pending; a try
applies nothing but low risk; whoever comes up knows what is remembered, or
nothing.  A loop that goes down may leave a try behind (`strays`), which may still
apply low risk (`Stray`).  `KeepsAuditPromise` is `Promise!Spec` under the mapping
`Workers` <- `GoLoops`, `alive` <- not `down`, `pending` <- `queue`, `trying` <- `current`,
`tried` <- `handed`, `strays` <- the executors among `orphans`, `memory` <- the findings in
the state file, if it can be read.  `Forget` is when the shell, which saves no
findings, or a truncation or a torn write leaves a state that no loop can use.  The
shell loop beside that, the executor input file, the findings file and the
repository are steps that the abstract specification does not see.

### WorkflowEngine

Tasks and runs are named by the GitHub run behind them; both maps are keyed by
the ID the dispatcher parsed, the run's own or `Zero` when the answer had no
body, so that runs may share a key.  `mu` is `e.mu`, which only `Cancel` holds
across a request; the other critical sections are single steps.  `UrlParses` is
false: `%s` of an `int` is no valid URL, so `GetRunStatus` returns the run as it
was.  The text-only intents and `queue`, `cancelChans` and `completed`, which
nothing fills, are left out.

### MemoryStore

Handlers are the goroutines of concurrent requests.  `CreateMemory` is four
places: search among the PDRs (`CheckPDRs`), search among the ADRs (`CheckADRs`), insertion, next commit of
a webhook.  Titles are compared without case on both sides, so a title stands
for its spellings; titles with a backslash are never found, for `ILIKE` takes it
for an escape.  Either search may fail unnoticed (`CheckPDRsFails` is counted in `blind`;
`CheckADRs` may always find nothing).  An ADR is never inserted, since the
empty string is no `TEXT[]`; `OthersInsertADR` is rows from elsewhere, perhaps
with NULL consequences, which cannot be scanned.

### ContextAssembly

One request goes through the two queries of `SearchMemory`, each of which may
fail unnoticed, the limit, the loop over the results and the cut, while other
requests store rows.  A text is its length, since the handlers look at nothing
else; `trail` is the white space at its end, which `strings.TrimSpace` takes off
the last one.  `Write` is one iteration with its `break`, `SkipSeen` one with its
`continue`.  A slice out of range goes to `panicked`, after which the
server closes the connection and serves on.  Scores are returned and order
nothing.

### RuntimeProcess

`proc` is the process table.  Each command of `runtime.sh` is a process that
tests the file, reads it, probes or kills, and spawns or removes, each a step of
its own; a loop first truncates the PID file, then writes `$$` to it, which in a
background subshell is the PID of the shell that launched it (`Spawn` hands it
on).  The system may give a free PID out again, to a command, a loop or another
process, and `again` remembers that.  `Stop` kills whatever the PID names, be it
the script itself.  `LoadFromDisk` is the bot's reading of the file.  The audit
inside a round, and the saving of the state, are in `AuditLoop`.

`FileNamesLoop`, `SecondStartRefused` and `StopEndsLoop` are what the script says:
"Runtime running (PID: $pid)", "Runtime already running (PID: $pid)" and "Runtime
stopped".  `OrderlySpec` is the case in which they could be expected at the least:
one command at a time, no deaths, no PID given out twice.

### MC_Parts

The classifiers, the contexts, the memory store and process control share
nothing.  One run has them all: while one part works the others rest in their
initial states, so that the run sees of each what a run of its own would see.

## 3. Runs

| run | instance | shows |
|---|---|---|
| `lifecycle_api` | 2 goroutines, 2 tasks, 2 polls, history of 2, all kinds of call | the lock covers a dispatch (`DispatchHoldsLock`, `DispatchUndisturbed`), outcomes are real (`CompletedReachedConversation`, `FailedNamesFailedTask`, `StrandedHasTask`) and final (`OutcomeIsFinal`), and the whole implements `ExecutionPromise` (`KeepsPromise`) |
| `bot` | 1 goroutine, 3 tasks, history of 4 | `WholeExchanges`, and every message is answered (`CallsReturn`) |
| `bot_completed` | 2 tasks | **violated** `CompletedMeansFinished`: an execution is completed while its conversation runs |
| `bot_stop` | 2 tasks, orders and stops | **violated** `StopEndsExecution`: a message that says stop leaves the execution in progress |
| `risk_protected` | the findings of `parts` | **violated** `ProtectedIsNotApplied`: the executor applies findings about payments |
| `audit_shared` | 3 loops, 2 findings, a failing script, a crash, which a script may outlive | `OnlyLowApplied`, `PersistedWereHandled`, `HandedOnce`, and the loops implement `AuditPromise` (`KeepsAuditPromise`) |
| `audit_live` | the Go runtime, 3 findings, a failure, a crash, 2 changes | `IssuesAreHandled`, with finitely many failures |
| `audit_bot_forgets` | the bot, 2 findings, a crash | **violated** `RestartRemembers`: the bot does not find what it saved |
| `workflow` | 2 goroutines, 2 runs, 1 poll | `ActiveHasRun`, `CancelledIsReal`, `CallsReturn` |
| `workflow_cancel` | same | **violated** `CancelIsFinal`: a poll overwrites a cancellation |
| `parts` | every message of up to 4 phrases | `RestraintIsMonotone`, `NaoNeverDispatches` |
| | every finding of up to 4 words in title and content together, every severity | `AutoRunIsApplied`, `NotificationNotStricter`, `SeverityNeverRelaxes` |
| | contexts of up to 2 rows of each table under each kind of limit | `OnlyLastIsCut`, `NothingFitsIsMissing`, `ListedOnce`, `PanicNeedsNegative` |
| | 2 handlers, 2 titles, 1 failing search | `TwinBound` (tight: three rows of one title are reached), `AckedIsKept` |
| | 4 PIDs, 3 commands, 1 death or other process | `TornFileIsNotRunning`; a start on its own leaves a loop (`StartLeavesLoop`) |
| `runtime_promises` | 6 PIDs, 3 commands one after the other | **violated** `APidPromiseHolds`: start, start, stop refutes `FileNamesLoop`, `SecondStartRefused` and `StopEndsLoop` at once |

`lifecycle_api`, `audit_shared` and `workflow` also check the type invariant `TypeOK`
of their module, and `parts` checks `ContextTypeOK`, `StoreTypeOK` and `ProcessTypeOK`.

`APidPromiseHolds` is the disjunction of the three, so that one behaviour refutes
each of them.  With the PID of the loop itself in the file (`pidFile' = q` in
`WritePid`) each of the three holds under `OrderlySpec`: `$$` is the one cause.

*Bounds.*  Two goroutines are enough to interleave any two calls, the lock lets
at most one of them be inside a dispatch, and two tasks allow an old and a new
one.  Two polls give a first and a later one; the history bound of 2 or 4
stands for 50 and is even, as 50 is, which `WholeExchanges` depends on.  Three
audit loops are all there are; two findings are one for each side of the gate
(the other would also be applied by the executor), and a third lets two be
queued.  The repository changes in `audit_live` only: with three loops, a change
besides would be millions of states, and the theorems have no bound.  `spent` bounds failures,
crashes and changes.  For safety that is a matter of size only.  For
`IssuesAreHandled` the bound on failures matters: it is what rules out an auditor
that fails for ever, after which nothing is ever handled (`runtime/main.go:127-131`),
so the property is about loops whose scripts fail finitely often.  A crash is
allowed for in the property, and changes only where they end.  Two runs allow two tasks under one
key.  `MaxRows` stops requests for a title once there are that many rows, which
still leaves those that are past the check to go on.  The classifiers run on
texts of up to four words: no condition in them depends on more than three.
Contexts are made of rows that are short, that just fit and that do not, under
limits below, at and above the number of results, zero and negative; their
lengths are those of the code divided by about a thousand.  Four PIDs are enough
for a start and its loop beside a stop and a second start, and are given out
again when these end; three commands are the fewest of which a third meets what
the first two left.

*Deadlock* is checked in all runs but `parts`, where a full message or finding can
grow no further, and `runtime_promises`, where the commands are used up.

### Fairness

* `ExecutionLifecycle`: strong fairness of `Acquire(c)`: the lock is free again
  and again, and `sync.RWMutex` hands it to a waiter that has waited long enough.
  Weak fairness of `DispatchStep(c)`: requests have a timeout of 60 s
  and polls a deadline.  `BotSpec` adds weak fairness of the service and the
  users, so that the behaviours checked are those of a bot in use; `CallsReturn`
  does not rest on it.
* `AuditLoop`: weak fairness of `Step(p)`: a process that is up goes on.  It assumes
  that the scripts it waits for and the alerts it sends end: the code sets no
  timeout for a script.  There is none of orphaned scripts, and none of `Restart`: `docker-compose.yml` sets no restart policy, and
  `IssuesAreHandled` allows for a loop that is down.
* `RuntimeProcess`: weak fairness of `Script(p)` and `Loop(p)`: the operating
  system runs every process.  None of commands, deaths or the bot.
* `WorkflowEngine`: strong fairness of `Working(c)` for the same reasons as in
  the lifecycle.

## 4. Theorems

All are about every value of the constants that satisfies the named assumptions
of the module, so any number of goroutines, tasks, runs, findings, loops,
titles, PIDs, rows and requests.

| theorem | module | property |
|---|---|---|
| `LifecycleInvariant`, `TypeCorrect`, `LockHeldThroughDispatch`, `StrandedExecutionHasTask`, `OutcomesAreReal`, `FailuresAreReal`, `DispatchIsUndisturbed`, `OutcomesAreFinal` | `ExecutionLifecycle_proofs` | `LifecycleInv`, `TypeOK`, `DispatchHoldsLock`, `StrandedHasTask`, `CompletedReachedConversation`, `FailedNamesFailedTask`, `DispatchUndisturbed`, `OutcomeIsFinal` |
| `ImplementsPromise` | `ExecutionLifecycle_proofs` | `KeepsPromise`: the lifecycle implements its abstract specification |
| `DispatchesGetNearerToTheirEnd` | `ExecutionLifecycle_proofs` | `DispatchesEnd` |
| `HistoryIsWhole`, `BotKeepsPromise` | `Bot_proofs` | `WholeExchanges`, `KeepsPromise` of `BotSpec` |
| `LoopInvariant`, `AuditTypes`, `LoopBookkeeping`, `NothingRiskyApplied`, `NothingSkipped`, `NothingHandedTwice` | `AuditLoop_proofs` | `LoopInv` with `TypeOK`, each of the two, `OnlyLowApplied`, `PersistedWereHandled`, `HandedOnce` |
| `ImplementsAuditPromise` | `AuditLoop_proofs` | `KeepsAuditPromise`: the loops implement their abstract specification |
| `RoundsGetNearerToTheirEnd` | `AuditLoop_proofs` | `RoundsEnd` |
| `NaoHoldsBack`, `RestraintHolds` | `Decisions_proofs` | `NaoNeverDispatches`, `RestraintIsMonotone`, for messages of any length |
| `GatesAgree` | `Decisions_proofs` | for every finding: what a Go loop lets through the executor applies, and the script shows as such |
| `LowRunsApply`, `ShellShowsNoMore`, `RiskNeverRelaxes` | `Decisions_proofs` | `AutoRunIsApplied`, `NotificationNotStricter`, `SeverityNeverRelaxes` |
| `ContextsRunAlone` | `Decisions_proofs` | the specification of the run `parts` implies `ContextSpec`, so that what is proved of contexts holds in it |
| `StoreInvariant`, `StoreTypes`, `TwinsAreBounded`, `NothingAckedIsLost` | `MemoryStore_proofs` | `StoreInv`, `StoreTypeOK`, `TwinBound`, `AckedIsKept` |
| `EngineInvariant`, `EngineTypes`, `ActiveTasksHaveRuns`, `CancelledRunsAreCancelled` | `WorkflowEngine_proofs` | `EngineInv`, `TypeOK`, `ActiveHasRun`, `CancelledIsReal` |
| `LockIsHeldForOneRequest`, `CallsGetNearerToTheirEnd` | `WorkflowEngine_proofs` | `LockIsCancelling`, `CallsEnd` |
| `CancellationIsLostToPollsOnly` | `WorkflowEngine_proofs` | `CancelLostToPollOnly`: what is left of `CancelIsFinal` |
| `RuntimeInvariant`, `ProcessTypes`, `TornFilesAreSeen` | `RuntimeProcess_proofs` | `RuntimeInv`, `ProcessTypeOK`, `TornFileIsNotRunning` |
| `StartsLeaveTheirLoop` | `RuntimeProcess_proofs` | `StartsRunThrough` |
| `ContextTypes`, `CutsReachOnlyLast`, `NothingIsMissing`, `NothingListedTwice`, `PanicsAreAskedFor`, `DecisionsGoFirst` | `ContextAssembly_proofs` | `ContextTypeOK`, `OnlyLastIsCut`, `NothingFitsIsMissing`, `ListedOnce`, `PanicNeedsNegative`, `DecisionsComeLast` |

Each rests on an inductive invariant, proved by Init => Inv and one lemma per
conjunct over the actions of Next:

* `LifecycleInv`.  That an outcome is real is not inductive: it needs that the
  dispatch in flight is about a task the service accepted and fetches a
  conversation only for one that has one (`DispatchTracked`), and that the
  execution in flight is recorded as RUNNING with no ID
  (`ActiveMatchesDispatch`).  `DispatchHoldsLock` makes that dispatch unique.
  The same two facts make outcomes final: the dispatch that records one replaces
  RUNNING, never another outcome.
* `LoopInv`.  What is saved was handled only because what is known was handled
  or is queued (`KnownAccounted`) and the queue is empty when a loop saves
  (`QueueInUse`); what is applied passed the gate only because the input file
  never holds anything else (`InputIsLow`), whoever wrote it and whichever executor,
  awaited or orphaned, reads it; and no finding is
  handed over twice because one that was is known and off the queue
  (`HandedIsDone`).
* `StoreInv` is `StoreTypeOK`, `AckedIsKept` and `TwinsAccounted`: from the first row
  of a title on, the rows and the handlers past the check are together at most
  the handlers and the failed searches, since a handler gets past the check
  only by a failed search.
* `EngineInv` says that a run has at most one key and is kept under it for good
  (`Keyed`, `KeptUnderKey`), that a task about to be registered has a run, and
  that an active task or a poll that found its task has one.  Runs may share a
  key, so it is the ID that is bound, not the run in the map.
* `CancelLostToPollOnly` needs that a task about to be registered is known to its
  call alone (`TasksInv`): a run that GitHub has yet to make is in no map and in
  nobody's hands, so that the registration cannot be what undoes a cancellation.
* `KeepsPromise` is a step simulation (`StepSimulates`): `Acquire` of an execution
  is `Start`, the accepted task is `Accepted`, `FinishDispatch` and `FailDispatch` are
  `Finish` and `Fail`, cancellations are `Cancel` and `Forget`, the service is
  `Service`, and everything else stutters.  That `Finish` records the truth is
  `DispatchTracked` again: the task is the dispatch's own, and the service has not
  moved between its last answer and the record in a way that would make it
  false.  `LocalsClean` says that a dispatch begins without a task.  `BotKeepsPromise`
  is the same for the bot.
* `KeepsAuditPromise` is a step simulation too, one lemma for each group of actions.
  It needs, beside `LoopInv`, that the finding at the executor has been recorded
  as handed over (`CurrentWasHanded`): the hand-over is two steps, with the input
  file truncated in between.  That `Settle` applies low risk only is `InputIsLow`, and
  that what is remembered was known is that a state file in writing is `TornFile`
  for everybody.  A crash leaves a stray try only if the loop was trying something
  (`CurrentIsQueued`).
* `RoundsEnd`, `DispatchesEnd` and `CallsEnd` are the halves of `IssuesAreHandled` and
  of the two `CallsReturn` that can be proved.  A measure (`StepsLeft`) counts the
  steps that a loop, a dispatch or a call has left at most; each of its own steps makes it less
  and no step of others changes it.  With the fairness of section 3 each step that is
  left is taken.  For a loop the measure counts the queue, and decreases because what the
  executor returns from is in it (`CurrentIsQueued`); for a dispatch it counts
  the polls that fit before the deadline, and a fetch is never the last
  (`DispatchTracked`).  `StartsRunThrough` is that half of `StartLeavesLoop`: a start has
  at most four steps to its loop, and no stop kills it on its way, since no kept
  PID names it before it is about to end (`PidsNameStarters`).
* The classifiers of messages try eight lists in order; `FirstHitDecides` says that
  the first that applies gives the answer, and `RestrainedBy` reads off that
  restraint depends on three of the lists only, which grow with the message.  That a graver
  finding is no less risky is that every test that speaks for risk persists
  (`TestsPersist`).
* `WholeExchanges` needs an invariant counted from the end of the history
  (`Alternates`), since the head is what `AddToHistory` drops: during an exchange
  the oldest entry may be an answer without its question, and it is gone when
  the exchange ends, because the bound is even (`BotAssumption`).
* `PidsNameStarters` is the inductive part of `RuntimeInv`: the PID in the file, in the
  bot and in a script's variable is one that has been given out, and is free, given
  out again, or that of a start command about to end.  `Bookkeeping` adds that whoever lives has a PID that
  was given out.
* `ContextInv` says at each place of a request what has been passed and how long
  the text is (`LoopPassed`, `LengthInv`): before the source written last the text
  always fits.

*Only model-checked*: liveness, which is out of the prover's reach: `CallsReturn` of
the bot and of the engine, `IssuesAreHandled`, `StartLeavesLoop`.  That each step
their fairness forces leaves fewer steps to take is proved (above).  Every other
property of a passing run is stated by a theorem.  The three promises of the
script under the fix are checked by TLC and have no run, since they are about code
that is not there.

## 5. Where the code and its words differ

Six disagreements are runs, above, and findings in PROJECT.json.  Others were met while
reading and have no run of their own:

* `StopExecution` closes a channel that nobody receives from; the remote task
  goes on.  A message "stop" that finds no execution in progress is itself
  dispatched (`lifecycle.go:105`); one that finds an execution is refused as busy
  (the run `bot_stop`).
* "nao " is the one negation that `fallbackAnalysis` knows: "não corrija" and "don't
  fix" execute there.  The inference that is in use (`lifecycle.go:76-86`) looks for
  none, so that it takes "nao corrija" for an execution.
* After an error detail the active task stays RUNNING with nobody polling
  (`client.go:385`, `lifecycle.go:271`), and executions are refused as busy
  until the process restarts.  After a timeout a second execution can overlap
  the first.
* The executor treats an array and a single finding differently (`run.sh:134`
  against `:190`, under the comment "same logic"); the auditor's `limit` does
  not limit (`agents/auditor/run.sh:175`).
* `handleBlocking` of the engine tells GitHub nothing; `GetRunStatus` never
  reaches GitHub (`dispatcher.go:174`), so `PollRun` never sees an end.
* Decisions (ADRs) can never be stored through the API, contents are not compared by
  `isDuplicate`, and nothing that the webhook classifies has a table it can go
  to, while it answers "processed" (`handlers.go:438`).
* "Runtime already running" (`runtime.sh:227`) is said only while the start command
  that launched a loop is about to end, or when its PID has been given out again.
  Otherwise every later start adds a loop, `stop` says "Runtime not running" and
  removes the file while the loops go on, and `status` and the bot report a PID
  under which nothing runs (the run `runtime_promises`).
* Decisions are searched with "higher priority" (`postgres.go:324`) and the agent
  runtime names the order "ADR > pref > mistake > pdr" (`handlers.go:365`).  The code
  appends them last, computes scores and a table of priorities and sorts by
  neither, so that the limit drops every decision before one product document
  (`DecisionsGoFirst`).
* A context is cut only if its trimmed text is longer than the maximum
  (`handlers.go:394`, `:615`), while the loop ends by the untrimmed length: a text
  whose last line breaks alone go past the maximum ends the loop and is returned
  without the "...", although results have been left out.

## 6. What is left

An abstract specification for `MemoryStore`: a table without twins, which the code
keeps only up to `TwinBound`.  A composition of `RuntimeProcess` with `AuditLoop` would show
several script loops over one state file; `AuditLoop` has one of each kind.

*Not modelled*, and why:

* The rest of the repository keeps no state over time, or is run by somebody
  else: OpenHands bridge (a second caller of the same client, of which only the
  readiness report is used), embeddings client (its results are thrown away),
  configuration, logger, connection, API `main`, migrations, CI workflows,
  Dockerfiles and start script.
* `.go/`, the Go toolchain, is all but 56 of the 12626 files and no part of the
  system.
* Inside the modelled components: `dispatchExecution`, `CancelChan`, `queue`,
  `cancelChans` and `completed`, which are dead or have no receiver; readers that
  change nothing; report files, counters and wording.
