------------------------------ MODULE AuditLoop ------------------------------
(***************************************************************************)
(* The continuous audit loops: the goroutine of the bot                    *)
(* (integrations/telegram/cmd/bot/main.go, runBotScheduledAudit), that of  *)
(* the runtime (integrations/telegram/runtime/main.go, runScheduledAudit)  *)
(* and the shell loop (runtime.sh, runtime_loop).  Each runs the auditor   *)
(* script, reads the newest findings file, reports what it has not seen    *)
(* yet and saves its state; the two Go loops also run the executor on each *)
(* new finding of low risk.  They are separate processes that meet in      *)
(* /tmp: the newest findings file, the one executor input file and the one *)
(* state file are shared, and none is written atomically.                  *)
(*                                                                         *)
(* A finding is known by its hash (title, severity, evidence), which tells *)
(* the findings of an audit apart, so sets of findings stand for sets of   *)
(* hashes.  Findings come in the order in which `find` lists the files,    *)
(* which is any order.  Times, counters and IsRunning are stored and       *)
(* reported but decide nothing, and are left out.                          *)
(***************************************************************************)
EXTENDS RiskGate, Integers, FiniteSets

CONSTANTS
  Loops,         \* the loops that are deployed
  Findings,      \* what an audit may find
  NoFinding,     \* a loop that has handed nothing over
  MissingFile,   \* what a reader sees of a file that is not there
  TornFile,      \* ... that was truncated, or holds parts of two writes
  MaxFailures,   \* bound: failing runs of the auditor and the executor
  MaxCrashes,    \* bound: processes that die
  MaxChanges     \* bound: changes of the audited repository

Shell   == "script"
GoLoops == Loops \ {Shell}
Unreadable == {MissingFile, TornFile}

ASSUME LoopsAssumption == Loops \subseteq {"bot", "runtime", Shell}

ASSUME FindingsAssumption ==
  /\ IsFiniteSet(Findings)
  /\ \A f \in Findings : f.severity \in Severities
  /\ NoFinding \notin Findings
  /\ Findings \cap Unreadable = {}

ASSUME FilesAssumption ==
  /\ MissingFile # TornFile
  /\ \A u \in Unreadable : \A K \in SUBSET Findings :
       /\ u # K
       /\ \A by \in Loops : u # [by |-> by, known |-> K]

ASSUME BoundsAssumption ==
  /\ MaxFailures \in Nat
  /\ MaxCrashes \in Nat
  /\ MaxChanges \in Nat

VARIABLES
  issues,     \* what there is to find in the audited repository
  newest,     \* the newest /tmp/auditor_findings_*.json
  execFile,   \* /tmp/executor_finding.json
  stateFile,  \* /tmp/runtime_state.json
  pc,         \* where each loop is
  known,      \* KnownFindings; the shell: what KNOWN_FINDINGS_HASH is of
  queue,      \* newFindings not dealt with yet
  current,    \* the finding handed to the executor
  orphans,    \* scripts that have outlived the process which started them
  handled,    \* history: findings that a Go loop has dealt with: reported and,
              \* if low, tried: the executor was run for it, whatever it read
  handed,     \* history: findings handed over in this life of the process
  applied,    \* history: findings the executor has recorded as applied
  spent       \* the bounds used up

files   == <<newest, execFile, stateFile>>
history == <<handled, handed, applied>>
vars    == <<issues, newest, execFile, stateFile, pc, known, queue, current,
             orphans, handled, handed, applied, spent>>

PCs == {"down", "waiting", "auditing", "writing", "loading", "executing",
        "handing", "running", "saving", "storing"}

\* The places where a script is running: the auditor before and after it has
\* opened its file, and the executor.
InScript == {"auditing", "writing", "running"}

Saved == [by : Loops, known : SUBSET Findings]

TypeOK ==
  /\ issues \in SUBSET Findings
  /\ newest \in Unreadable \cup SUBSET Findings
  /\ execFile \in Unreadable \cup Findings
  /\ stateFile \in Unreadable \cup Saved
  /\ pc \in [Loops -> PCs]
  /\ known \in [Loops -> SUBSET Findings]
  /\ queue \in [Loops -> SUBSET Findings]
  /\ current \in [Loops -> Findings \cup {NoFinding}]
  /\ orphans \in [InScript -> Nat]
  /\ handled \in SUBSET Findings
  /\ handed \in [Loops -> SUBSET Findings]
  /\ applied \in SUBSET Findings
  /\ spent \in [failures : 0..MaxFailures, crashes : 0..MaxCrashes, changes : 0..MaxChanges]

Init ==
  /\ issues \in SUBSET Findings
  /\ newest = MissingFile /\ execFile = MissingFile /\ stateFile = MissingFile
  /\ pc = [p \in Loops |-> "waiting"]
  /\ known = [p \in Loops |-> {}]
  /\ queue = [p \in Loops |-> {}]
  /\ current = [p \in Loops |-> NoFinding]
  /\ orphans = [place \in InScript |-> 0]
  /\ handled = {} /\ applied = {}
  /\ handed = [p \in Loops |-> {}]
  /\ spent = [failures |-> 0, crashes |-> 0, changes |-> 0]

Goto(p, from, to) == pc[p] = from /\ pc' = [pc EXCEPT ![p] = to]

Spend(what, bound) ==
  /\ spent[what] < bound
  /\ spent' = [spent EXCEPT ![what] = @ + 1]

\* What a file may hold once a writer that truncated it writes: what was
\* meant, or parts of two texts if somebody else has written in between.
Written(file, text) == IF file = TornFile THEN {text} ELSE {text, TornFile}

-----------------------------------------------------------------------------
(* The repository and the auditor script.                                  *)

\* Somebody commits to, or fixes, the audited repository.
RepositoryChanges ==
  /\ Spend("changes", MaxChanges)
  /\ \E f \in Findings : issues' = (issues \ {f}) \cup ({f} \ issues)
  /\ UNCHANGED <<files, pc, known, queue, current, history, orphans>>

\* All there is to find: jq "limit(20; .)" limits the number of outputs, of
\* which there is one, the array of all findings.
Audit_some == {f \in issues : f.severity # "medium"}   \* variant: a check left out

Audit == issues

\* The ticker fires; the shell has slept.
Tick(p) ==
  /\ Goto(p, "waiting", "auditing")
  /\ UNCHANGED <<issues, files, known, queue, current, history, spent, orphans>>

\* The auditor fails: a Go loop reports that and returns without saving; the
\* shell carries on with the files there are.
AuditorFails(p) ==
  /\ pc[p] \in {"auditing", "writing"}
  /\ pc' = [pc EXCEPT ![p] = IF p = Shell THEN "loading" ELSE "waiting"]
  /\ Spend("failures", MaxFailures)
  /\ UNCHANGED <<issues, files, known, queue, current, history, orphans>>

\* The redirection creates the findings file, which is the newest from now on.
AuditorOpens(p) ==
  /\ Goto(p, "auditing", "writing")
  /\ newest' = TornFile
  /\ UNCHANGED <<issues, execFile, stateFile, known, queue, current, history, spent, orphans>>

AuditorWrites(p) ==
  /\ Goto(p, "writing", "loading")
  /\ newest' \in Written(newest, Audit)
  /\ UNCHANGED <<issues, execFile, stateFile, known, queue, current, history, spent, orphans>>

-----------------------------------------------------------------------------
(* What a loop does with the newest findings.                              *)

\* loadFindings: a file that is missing or is no JSON counts as no findings.
Loaded == IF newest \in Unreadable THEN {} ELSE newest

NewFindings_all(p) == Loaded   \* variant: known findings not left out

NewFindings(p) == Loaded \ known[p]

\* findNewFindings marks what is new as known; then it is reported.
Load(p) ==
  /\ p \in GoLoops
  /\ Goto(p, "loading", IF NewFindings(p) = {} THEN "saving" ELSE "executing")
  /\ known' = [known EXCEPT ![p] = @ \cup NewFindings(p)]
  /\ queue' = [queue EXCEPT ![p] = NewFindings(p)]
  /\ UNCHANGED <<issues, files, current, history, spent, orphans>>

\* check_new_findings compares the whole file with the last one, unless there
\* is none; the shell shows up to five of the findings in it, tries none and
\* deals with none.
ShellCheck(p) ==
  /\ p = Shell
  /\ Goto(p, "loading", "saving")
  /\ known' = [known EXCEPT ![p] = IF newest = MissingFile THEN @ ELSE Loaded]
  /\ UNCHANGED <<issues, files, queue, current, history, spent, orphans>>

Dealt_last(p, f) ==   \* variant: the loop over the findings left early
  /\ queue' = [queue EXCEPT ![p] = {}]
  /\ handled' = handled \cup {f}

Dealt(p, f) ==
  /\ queue' = [queue EXCEPT ![p] = @ \ {f}]
  /\ handled' = handled \cup {f}

\* triggerExecutor on a finding of medium or high risk: one more alert.
Hold(p) ==
  /\ pc[p] = "executing"
  /\ \E f \in queue[p] : classifyRisk(f) # "low" /\ Dealt(p, f)
  /\ UNCHANGED <<issues, files, pc, known, current, handed, applied, spent, orphans>>

AutoRun_notHigh(f) == classifyRisk(f) # "high"   \* variant: medium runs as well

AutoRun(f) == classifyRisk(f) = "low"

\* triggerExecutor on a finding of low risk, first half of os.WriteFile.
HandOver(p) ==
  /\ Goto(p, "executing", "handing")
  /\ \E f \in queue[p] :
       /\ AutoRun(f)
       /\ current' = [current EXCEPT ![p] = f]
       /\ handed' = [handed EXCEPT ![p] = @ \cup {f}]
  /\ execFile' = TornFile
  /\ UNCHANGED <<issues, newest, stateFile, known, queue, handled, applied, spent, orphans>>

WriteFinding(p) ==
  /\ Goto(p, "handing", "running")
  /\ execFile' \in Written(execFile, current[p])
  /\ UNCHANGED <<issues, newest, stateFile, known, queue, current, history, spent, orphans>>

Record(f) == applied' = IF ObjectRisk(f) = "low" THEN applied \cup {f} ELSE applied

\* The executor reads the file and records what its own gate says; it exits
\* with an error if it finds no title there.  Either way the loop goes on.
Executor(p) ==
  /\ Goto(p, "running", "executing")
  /\ IF execFile \in Unreadable THEN UNCHANGED applied ELSE Record(execFile)
  /\ Dealt(p, current[p])
  /\ current' = [current EXCEPT ![p] = NoFinding]
  /\ UNCHANGED <<issues, files, known, handed, spent, orphans>>

\* The executor fails of itself: an alert, and no second try.
ExecutorFails(p) ==
  /\ Goto(p, "running", "executing")
  /\ Spend("failures", MaxFailures)
  /\ Dealt(p, current[p])
  /\ current' = [current EXCEPT ![p] = NoFinding]
  /\ UNCHANGED <<issues, files, known, handed, applied, orphans>>

AllDealtWith_reported(p) == pc[p] = "executing"   \* variant: saved once reported

AllDealtWith(p) == pc[p] = "executing" /\ queue[p] = {}

FindingsDone(p) ==
  /\ AllDealtWith(p)
  /\ pc' = [pc EXCEPT ![p] = "saving"]
  /\ UNCHANGED <<issues, files, known, queue, current, history, spent, orphans>>

-----------------------------------------------------------------------------
(* The state file and restarts.                                            *)

SavedBy(p) == [by |-> p, known |-> IF p = Shell THEN {} ELSE known[p]]

\* saveBotState, saveState and save_state truncate the file and then write it.
OpenState(p) ==
  /\ Goto(p, "saving", "storing")
  /\ stateFile' = TornFile
  /\ UNCHANGED <<issues, newest, execFile, known, queue, current, history, spent, orphans>>

WriteState(p) ==
  /\ Goto(p, "storing", "waiting")
  /\ stateFile' \in Written(stateFile, SavedBy(p))
  /\ UNCHANGED <<issues, newest, execFile, known, queue, current, history, spent, orphans>>

\* Loops whose saved state has a "known_findings" key, which is the one that
\* loadBotState and loadState look for: BotRuntime has no json tags and is
\* saved with "KnownFindings", and the shell saves no findings at all.
Tagged == {"runtime"}

Restored_unchecked ==   \* variant: the error of Unmarshal not looked at
  IF stateFile \in Unreadable THEN {NoFinding}
  ELSE IF stateFile.by \in Tagged THEN stateFile.known ELSE {}

Restored ==
  IF stateFile \in Unreadable THEN {}
  ELSE IF stateFile.by \in Tagged THEN stateFile.known ELSE {}

\* A process dies.  A script that it is running dies with it or goes on.
Crash(p) ==
  /\ pc[p] # "down"
  /\ pc' = [pc EXCEPT ![p] = "down"]
  /\ Spend("crashes", MaxCrashes)
  /\ known' = [known EXCEPT ![p] = {}]
  /\ queue' = [queue EXCEPT ![p] = {}]
  /\ current' = [current EXCEPT ![p] = NoFinding]
  /\ handed' = [handed EXCEPT ![p] = {}]
  /\ \/ UNCHANGED orphans
     \/ pc[p] \in InScript /\ orphans' = [orphans EXCEPT ![pc[p]] = @ + 1]
  /\ UNCHANGED <<issues, files, handled, applied>>

\* main loads the previous state; the shell keeps nothing of it.
Restart(p) ==
  /\ Goto(p, "down", "waiting")
  /\ known' = [known EXCEPT ![p] = IF p = Shell THEN {} ELSE Restored]
  /\ UNCHANGED <<issues, files, queue, current, history, spent, orphans>>

-----------------------------------------------------------------------------
(* Scripts that nobody waits for any longer.                               *)

OrphanOpens ==
  /\ orphans["auditing"] > 0
  /\ orphans' = [orphans EXCEPT !["auditing"] = @ - 1, !["writing"] = @ + 1]
  /\ newest' = TornFile
  /\ UNCHANGED <<issues, execFile, stateFile, pc, known, queue, current, history, spent>>

OrphanWrites ==
  /\ orphans["writing"] > 0
  /\ orphans' = [orphans EXCEPT !["writing"] = @ - 1]
  /\ newest' \in Written(newest, Audit)
  /\ UNCHANGED <<issues, execFile, stateFile, pc, known, queue, current, history, spent>>

OrphanExecutes ==
  /\ orphans["running"] > 0
  /\ orphans' = [orphans EXCEPT !["running"] = @ - 1]
  /\ IF execFile \in Unreadable THEN UNCHANGED applied ELSE Record(execFile)
  /\ UNCHANGED <<issues, files, pc, known, queue, current, handled, handed, spent>>

-----------------------------------------------------------------------------

Step(p) ==
  \/ Tick(p) \/ AuditorFails(p) \/ AuditorOpens(p) \/ AuditorWrites(p)
  \/ Load(p) \/ ShellCheck(p)
  \/ Hold(p) \/ HandOver(p) \/ WriteFinding(p) \/ Executor(p) \/ ExecutorFails(p)
  \/ FindingsDone(p) \/ OpenState(p) \/ WriteState(p)

Next ==
  \/ RepositoryChanges
  \/ \E p \in Loops : Step(p) \/ Crash(p) \/ Restart(p)
  \/ OrphanOpens \/ OrphanWrites \/ OrphanExecutes

Spec == Init /\ [][Next]_vars

\* A process that is up goes on running; nothing restarts one that is down.
FairSpec == Spec /\ \A p \in Loops : WF_vars(Step(p))

-----------------------------------------------------------------------------
(* Properties.                                                             *)

\* The bookkeeping of the Go loops: what is known has been dealt with or is
\* queued, the queue is empty but while the executor is being run, what is
\* handed over is queued and of low risk, and what was handed over in this life
\* is known and no longer queued; a process that is down has no life.
Executing == {"executing", "handing", "running"}

KnownAccounted  == \A p \in GoLoops : known[p] \subseteq handled \cup queue[p]
QueueInUse      == \A p \in Loops :
  p = Shell \/ pc[p] \notin Executing => queue[p] = {}
CurrentIsQueued == \A p \in Loops :
  IF pc[p] \in {"handing", "running"} THEN current[p] \in queue[p]
                                     ELSE current[p] = NoFinding
InputIsLow ==
  /\ execFile \notin Unreadable => AutoRun(execFile)
  /\ \A p \in Loops : current[p] # NoFinding => AutoRun(current[p])
HandedIsDone == \A p \in GoLoops :
  /\ queue[p] \subseteq known[p] /\ handed[p] \subseteq known[p]
  /\ handed[p] \cap queue[p] \subseteq {current[p]}
  /\ pc[p] = "down" => handed[p] = {}

\* What the executor records as applied has passed the gate of the Go loops,
\* also when it has read the finding of another loop than the one that ran it.
OnlyLowApplied == \A f \in applied : classifyRisk(f) = "low"

\* A finding that a saved state lets a later life skip has been dealt with by a
\* Go loop, that is reported and, if low, tried: a crash never makes a loop skip
\* what nobody tried, and what the shell has shown does not count.
PersistedWereHandled ==
  stateFile \notin Unreadable => stateFile.known \subseteq handled

LoopInv ==
  /\ KnownAccounted /\ QueueInUse /\ CurrentIsQueued /\ InputIsLow /\ HandedIsDone
  /\ OnlyLowApplied /\ PersistedWereHandled

\* One life of a process hands a finding to the executor once, however often
\* the audit finds it again.
HandedOnce ==
  [][\A p \in Loops : current'[p] \notin {current[p], NoFinding}
       => current'[p] \notin handed[p]]_vars

\* After a restart a loop knows what it had saved, if its own state is what
\* the file holds ("Load previous state").
RestartRemembers ==
  [][\A p \in GoLoops :
       pc[p] = "down" /\ pc'[p] = "waiting" /\ stateFile \notin Unreadable
         => (stateFile.by = p => known'[p] = stateFile.known)]_vars

\* The Go loops as the promise sees them: the files are gone but for what the
\* state file lets a later life know, and so is where a loop has got to.
OfGoLoops(f) == [p \in GoLoops |-> f[p]]

Promise == INSTANCE AuditPromise WITH
  Workers <- GoLoops,
  Low     <- {f \in Findings : classifyRisk(f) = "low"},
  Nothing <- NoFinding,
  alive   <- [p \in GoLoops |-> pc[p] # "down"],
  known   <- OfGoLoops(known),
  pending <- OfGoLoops(queue),
  trying  <- OfGoLoops(current),
  tried   <- OfGoLoops(handed),
  strays  <- orphans["running"],
  memory  <- IF stateFile \in Unreadable THEN {} ELSE stateFile.known

\* The loops implement AuditPromise: whichever way they share the files, crash
\* and come back, each finding is taken on and tried once in a life and dealt
\* with before it is remembered.
KeepsAuditPromise == Promise!Spec

\* What stays to be found is dealt with, unless the loops die.
IssuesAreHandled ==
  \A f \in Findings :
    <>[](f \in issues) => <>(f \in handled \/ \E p \in Loops : pc[p] = "down")
=============================================================================
