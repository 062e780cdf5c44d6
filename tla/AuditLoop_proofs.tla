--------------------------- MODULE AuditLoop_proofs ---------------------------
(***************************************************************************)
(* Proofs about AuditLoop, for any loops, findings and bounds.             *)
(***************************************************************************)
EXTENDS AuditLoop, FiniteSetTheorems, TLAPS

-----------------------------------------------------------------------------
(* Type correctness.                                                       *)

LEMMA GotoType ==
  ASSUME pc \in [Loops -> PCs], NEW p \in Loops, NEW from, NEW to \in PCs,
         Goto(p, from, to)
  PROVE  pc' \in [Loops -> PCs]
PROOF BY DEF Goto

SpentType == spent \in [failures : 0..MaxFailures, crashes : 0..MaxCrashes, changes : 0..MaxChanges]

LEMMA SpendType ==
  ASSUME SpentType,
         \/ Spend("failures", MaxFailures)
         \/ Spend("crashes", MaxCrashes)
         \/ Spend("changes", MaxChanges)
  PROVE  SpentType'
PROOF BY BoundsAssumption DEF SpentType, Spend

LEMMA LoadedType ==
  ASSUME newest \in Unreadable \cup SUBSET Findings
  PROVE  Loaded \in SUBSET Findings
PROOF BY DEF Loaded

LEMMA RestoredType ==
  ASSUME stateFile \in Unreadable \cup Saved
  PROVE  Restored \in SUBSET Findings
PROOF BY DEF Restored, Saved

LEMMA SavedByType ==
  ASSUME NEW p \in Loops, known \in [Loops -> SUBSET Findings]
  PROVE  SavedBy(p) \in Saved
PROOF BY DEF SavedBy, Saved

LEMMA DealtType ==
  ASSUME queue \in [Loops -> SUBSET Findings], handled \in SUBSET Findings,
         NEW p \in Loops, NEW f \in Findings \cup {NoFinding}, Dealt(p, f)
  PROVE  queue' \in [Loops -> SUBSET Findings]
PROOF BY DEF Dealt

\* A step of a loop keeps every variable well typed.
LEMMA StepType ==
  ASSUME TypeOK, QueueInUse, CurrentIsQueued, NEW p \in Loops, Step(p)
  PROVE  TypeOK'
PROOF
<1> USE DEF TypeOK
<1>0. pc \in [Loops -> PCs] /\ SpentType
  BY DEF SpentType
<1> HIDE DEF TypeOK
<1>1. CASE Tick(p)
  BY <1>0, <1>1, GotoType DEF Tick, TypeOK, files, history, PCs
<1>2. CASE AuditorFails(p)
  <2>1. SpentType'
    BY <1>0, <1>2, SpendType DEF AuditorFails
  <2>2. pc' \in [Loops -> PCs]
    BY <1>0, <1>2 DEF AuditorFails, PCs
  <2> QED BY <1>2, <2>1, <2>2 DEF AuditorFails, TypeOK, files, history, SpentType
<1>3. CASE AuditorOpens(p)
  BY <1>0, <1>3, GotoType DEF AuditorOpens, TypeOK, history, PCs, Unreadable
<1>4. CASE AuditorWrites(p)
  BY <1>0, <1>4, GotoType DEF AuditorWrites, Written, TypeOK, history, PCs, Audit, Unreadable
<1>5. CASE Load(p)
  <2>1. Loaded \in SUBSET Findings
    BY LoadedType DEF TypeOK
  <2>2. pc' \in [Loops -> PCs]
    BY <1>0, <1>5 DEF Load, Goto, PCs
  <2>3. known' \in [Loops -> SUBSET Findings]
    BY <1>5, <2>1 DEF Load, NewFindings, TypeOK
  <2>4. queue' \in [Loops -> SUBSET Findings]
    BY <1>5, <2>1 DEF Load, NewFindings, TypeOK
  <2> QED BY <1>5, <2>2, <2>3, <2>4 DEF Load, TypeOK, files, history
<1>6. CASE ShellCheck(p)
  <2>1. Loaded \in SUBSET Findings
    BY LoadedType DEF TypeOK
  <2>2. pc' \in [Loops -> PCs]
    BY <1>0, <1>6 DEF ShellCheck, Goto, PCs
  <2>3. known' \in [Loops -> SUBSET Findings]
    BY <1>6, <2>1 DEF ShellCheck, TypeOK
  <2> QED BY <1>6, <2>1, <2>2, <2>3 DEF ShellCheck, TypeOK, files, history
<1>7. CASE Hold(p)
  <2>1. PICK f \in queue[p] : Dealt(p, f)
    BY <1>7 DEF Hold
  <2>2. f \in Findings
    BY <2>1 DEF TypeOK
  <2>3. queue' \in [Loops -> SUBSET Findings]
    BY <2>1, <2>2, DealtType DEF TypeOK
  <2> QED BY <1>7, <2>1, <2>2, <2>3 DEF Hold, Dealt, TypeOK, files
<1>8. CASE HandOver(p)
  <2>1. PICK f \in queue[p] : /\ current' = [current EXCEPT ![p] = f]
                              /\ handed' = [handed EXCEPT ![p] = @ \cup {f}]
    BY <1>8 DEF HandOver
  <2>2. f \in Findings
    BY <2>1 DEF TypeOK
  <2>3. pc' \in [Loops -> PCs]
    BY <1>0, <1>8 DEF HandOver, Goto, PCs
  <2>4. current' \in [Loops -> Findings \cup {NoFinding}]
    BY <2>1, <2>2 DEF TypeOK
  <2>5. handed' \in [Loops -> SUBSET Findings]
    BY <2>1, <2>2 DEF TypeOK
  <2> QED BY <1>8, <2>3, <2>4, <2>5 DEF HandOver, TypeOK, Unreadable
<1>9. CASE WriteFinding(p)
  <2>1. current[p] \in Findings
    BY <1>9 DEF WriteFinding, Goto, CurrentIsQueued, TypeOK
  <2>2. pc' \in [Loops -> PCs]
    BY <1>0, <1>9 DEF WriteFinding, Goto, PCs
  <2> QED BY <1>9, <2>1, <2>2 DEF WriteFinding, Written, TypeOK, history, Unreadable
<1>10. CASE Executor(p)
  <2>1. current[p] \in Findings
    BY <1>10 DEF Executor, Goto, CurrentIsQueued, TypeOK
  <2>2. pc' \in [Loops -> PCs]
    BY <1>0, <1>10 DEF Executor, Goto, PCs
  <2>3. queue' \in [Loops -> SUBSET Findings] /\ handled' \in SUBSET Findings
    BY <1>10, <2>1, DealtType DEF Executor, Dealt, TypeOK
  <2>4. applied' \in SUBSET Findings
    BY <1>10 DEF Executor, Record, TypeOK
  <2>5. current' \in [Loops -> Findings \cup {NoFinding}]
    BY <1>10 DEF Executor, TypeOK
  <2> QED BY <1>10, <2>2, <2>3, <2>4, <2>5 DEF Executor, TypeOK, files
<1>11. CASE ExecutorFails(p)
  <2>1. current[p] \in Findings
    BY <1>11 DEF ExecutorFails, Goto, CurrentIsQueued, TypeOK
  <2>2. pc' \in [Loops -> PCs]
    BY <1>0, <1>11 DEF ExecutorFails, Goto, PCs
  <2>3. queue' \in [Loops -> SUBSET Findings] /\ handled' \in SUBSET Findings
    BY <1>11, <2>1, DealtType DEF ExecutorFails, Dealt, TypeOK
  <2>4. SpentType'
    BY <1>0, <1>11, SpendType DEF ExecutorFails
  <2>5. current' \in [Loops -> Findings \cup {NoFinding}]
    BY <1>11 DEF ExecutorFails, TypeOK
  <2> QED BY <1>11, <2>2, <2>3, <2>4, <2>5 DEF ExecutorFails, TypeOK, files, SpentType
<1>12. CASE FindingsDone(p)
  <2>1. pc' \in [Loops -> PCs]
    BY <1>0, <1>12 DEF FindingsDone, PCs
  <2> QED BY <1>12, <2>1 DEF FindingsDone, TypeOK, files, history
<1>13. CASE OpenState(p)
  BY <1>0, <1>13, GotoType DEF OpenState, TypeOK, history, PCs, Unreadable
<1>14. CASE WriteState(p)
  <2>1. SavedBy(p) \in Saved
    BY SavedByType DEF TypeOK
  <2>2. pc' \in [Loops -> PCs]
    BY <1>0, <1>14 DEF WriteState, Goto, PCs
  <2> QED BY <1>14, <2>1, <2>2 DEF WriteState, Written, TypeOK, history, Unreadable
<1> QED BY <1>1, <1>2, <1>3, <1>4, <1>5, <1>6, <1>7, <1>8, <1>9, <1>10, <1>11,
           <1>12, <1>13, <1>14 DEF Step

LEMMA CrashType ==
  ASSUME TypeOK, NEW p \in Loops, Crash(p) \/ Restart(p)
  PROVE  TypeOK'
PROOF
<1>1. CASE Crash(p)
  <2>1. pc' \in [Loops -> PCs]
    BY <1>1 DEF Crash, PCs, TypeOK
  <2>2. known' \in [Loops -> SUBSET Findings] /\ queue' \in [Loops -> SUBSET Findings]
    BY <1>1 DEF Crash, TypeOK
  <2>3. handed' \in [Loops -> SUBSET Findings]
    BY <1>1 DEF Crash, TypeOK
  <2>4. current' \in [Loops -> Findings \cup {NoFinding}]
    BY <1>1 DEF Crash, TypeOK
  <2>5. SpentType'
    BY <1>1, SpendType DEF Crash, TypeOK, SpentType
  <2>6. orphans' \in [InScript -> Nat]
    BY <1>1 DEF Crash, TypeOK
  <2> QED BY <1>1, <2>1, <2>2, <2>3, <2>4, <2>5, <2>6 DEF Crash, TypeOK, files, SpentType
<1>2. CASE Restart(p)
  <2>1. Restored \in SUBSET Findings
    BY RestoredType DEF TypeOK
  <2>2. pc' \in [Loops -> PCs]
    BY <1>2 DEF Restart, Goto, PCs, TypeOK
  <2>3. known' \in [Loops -> SUBSET Findings]
    BY <1>2, <2>1 DEF Restart, TypeOK
  <2> QED BY <1>2, <2>2, <2>3 DEF Restart, TypeOK, files, history
<1> QED BY <1>1, <1>2

LEMMA ChangeType ==
  ASSUME TypeOK, RepositoryChanges
  PROVE  TypeOK'
PROOF
<1>1. SpentType'
  BY SpendType DEF RepositoryChanges, TypeOK, SpentType
<1> QED BY <1>1 DEF RepositoryChanges, TypeOK, files, history, SpentType

OrphanStep == OrphanOpens \/ OrphanWrites \/ OrphanExecutes

\* A script that nobody waits for touches the findings file, or what has been
\* applied, and nothing that belongs to a loop.
LEMMA OrphanFrame ==
  ASSUME OrphanStep
  PROVE  UNCHANGED <<issues, execFile, stateFile, pc, known, queue, current, handled,
                     handed, spent>>
PROOF BY DEF OrphanStep, OrphanOpens, OrphanWrites, OrphanExecutes, files, history

LEMMA OrphanType ==
  ASSUME TypeOK, OrphanStep
  PROVE  TypeOK'
PROOF
<1>1. orphans' \in [InScript -> Nat]
  <2>1. orphans \in [InScript -> Nat]
    BY DEF TypeOK
  <2> QED BY <2>1 DEF OrphanStep, OrphanOpens, OrphanWrites, OrphanExecutes, InScript
<1>2. newest' \in Unreadable \cup SUBSET Findings
  BY DEF OrphanStep, OrphanOpens, OrphanWrites, OrphanExecutes, TypeOK, files, Written,
         Audit, Unreadable
<1>3. applied' \in SUBSET Findings
  BY DEF OrphanStep, OrphanOpens, OrphanWrites, OrphanExecutes, TypeOK, history, Record
<1> QED BY <1>1, <1>2, <1>3, OrphanFrame DEF TypeOK

LEMMA InitType == Init => TypeOK
PROOF BY BoundsAssumption DEF Init, TypeOK, PCs, Unreadable

-----------------------------------------------------------------------------
(* The bookkeeping.                                                        *)

IInv == TypeOK /\ LoopInv

LEMMA InitInv == Init => IInv
PROOF
<1> SUFFICES ASSUME Init PROVE LoopInv
  BY InitType DEF IInv
<1> QED BY DEF Init, LoopInv, KnownAccounted, QueueInUse, CurrentIsQueued,
       InputIsLow, HandedIsDone, OnlyLowApplied, PersistedWereHandled, GoLoops,
       Unreadable

\* Steps that only move a loop between two places where nothing is queued, and
\* may change the findings file or tear the state file.
LEMMA QuietSteps ==
  ASSUME IInv, NEW p \in Loops,
         \/ Tick(p) \/ AuditorFails(p) \/ AuditorOpens(p) \/ AuditorWrites(p)
         \/ FindingsDone(p) \/ OpenState(p)
  PROVE  LoopInv'
PROOF
<1>1. /\ UNCHANGED <<execFile, known, queue, current, handled, handed, applied>>
      /\ stateFile' \in {stateFile, TornFile}
  BY DEF Tick, AuditorFails, AuditorOpens, AuditorWrites, FindingsDone, OpenState,
         files, history
<1>2. \A q \in Loops :
        \/ pc'[q] = pc[q]
        \/ /\ pc'[q] \notin {"handing", "running"}
           /\ pc[q] \notin {"handing", "running"}
           /\ q = Shell \/ queue[q] = {}
  BY DEF Tick, AuditorFails, AuditorOpens, AuditorWrites, FindingsDone, OpenState,
         Goto, AllDealtWith, IInv, LoopInv, TypeOK, QueueInUse,
         Executing
<1>3. KnownAccounted' /\ InputIsLow' /\ OnlyLowApplied'
  BY <1>1 DEF IInv, LoopInv, KnownAccounted, InputIsLow, OnlyLowApplied, AutoRun
<1>4. \A q \in Loops : pc'[q] = "down" => pc[q] = "down"
  BY DEF Tick, AuditorFails, AuditorOpens, AuditorWrites, FindingsDone, OpenState,
         Goto, IInv, TypeOK
<1>5. HandedIsDone'
  BY <1>1, <1>4 DEF IInv, LoopInv, HandedIsDone, GoLoops
<1>6. QueueInUse'
  BY <1>1, <1>2 DEF IInv, LoopInv, QueueInUse, Executing
<1>7. CurrentIsQueued'
  BY <1>1, <1>2 DEF IInv, LoopInv, CurrentIsQueued
<1>8. PersistedWereHandled'
  BY <1>1 DEF IInv, LoopInv, PersistedWereHandled, Unreadable
<1> QED BY <1>3, <1>6, <1>7, <1>8, <1>5 DEF LoopInv

LEMMA LoadSteps ==
  ASSUME IInv, NEW p \in Loops, Load(p) \/ ShellCheck(p)
  PROVE  LoopInv'
PROOF
<1>0. TypeOK /\ Loaded \in SUBSET Findings
  BY LoadedType DEF IInv, TypeOK
<1>1. CASE Load(p)
  <2>1. queue[p] = {} /\ known[p] \subseteq handled /\ p # Shell
    BY <1>1 DEF Load, Goto, GoLoops, IInv, LoopInv, QueueInUse, KnownAccounted, Executing
  <2>2. /\ known' = [known EXCEPT ![p] = @ \cup NewFindings(p)]
        /\ queue' = [queue EXCEPT ![p] = NewFindings(p)]
        /\ UNCHANGED <<execFile, stateFile, current, handled, handed, applied>>
    BY <1>1 DEF Load, files, history
  <2>3. KnownAccounted'
    BY <1>0, <2>1, <2>2 DEF TypeOK, IInv, LoopInv, KnownAccounted, GoLoops
  <2>4. QueueInUse'
    BY <1>0, <1>1, <2>1, <2>2 DEF Load, Goto, TypeOK, IInv, LoopInv, QueueInUse, Executing
  <2>5. CurrentIsQueued'
    BY <1>0, <1>1, <2>2 DEF Load, Goto, TypeOK, IInv, LoopInv, CurrentIsQueued
  <2>6. HandedIsDone'
    BY <1>0, <1>1, <2>2 DEF Load, Goto, TypeOK, IInv, LoopInv, HandedIsDone,
                            NewFindings, GoLoops
  <2>7. InputIsLow' /\ OnlyLowApplied' /\ PersistedWereHandled'
    BY <2>2 DEF IInv, LoopInv, InputIsLow, OnlyLowApplied, PersistedWereHandled, AutoRun
  <2> QED BY <2>3, <2>4, <2>5, <2>6, <2>7 DEF LoopInv
<1>2. CASE ShellCheck(p)
  <2>1. /\ p \notin GoLoops
        /\ UNCHANGED <<execFile, stateFile, queue, current, handled, handed, applied>>
        /\ \A q \in GoLoops : known'[q] = known[q]
    BY <1>0, <1>2 DEF ShellCheck, files, history, GoLoops, TypeOK
  <2>2. \A q \in Loops : pc'[q] = pc[q] \/ (q = Shell /\ pc'[q] = "saving" /\ pc[q] = "loading")
    BY <1>0, <1>2 DEF ShellCheck, Goto, TypeOK
  <2>3. KnownAccounted' /\ HandedIsDone'
    BY <2>1, <2>2 DEF IInv, LoopInv, KnownAccounted, HandedIsDone, GoLoops
  <2>4. QueueInUse' /\ CurrentIsQueued'
    BY <2>1, <2>2 DEF IInv, LoopInv, QueueInUse, CurrentIsQueued, Executing
  <2>5. InputIsLow' /\ OnlyLowApplied' /\ PersistedWereHandled'
    BY <2>1 DEF IInv, LoopInv, InputIsLow, OnlyLowApplied, PersistedWereHandled, AutoRun
  <2> QED BY <2>3, <2>4, <2>5 DEF LoopInv
<1> QED BY <1>1, <1>2

\* A finding that is dealt with leaves the queue for the handled ones.
LEMMA DealtSteps ==
  ASSUME IInv, NEW p \in Loops, Hold(p) \/ Executor(p) \/ ExecutorFails(p)
  PROVE  LoopInv'
PROOF
<1>0. TypeOK
  BY DEF IInv
<1>1. PICK f \in queue[p] :
        /\ Dealt(p, f)
        /\ f = current[p] \/ current[p] = NoFinding
        /\ pc'[p] = "executing" /\ pc[p] \in Executing
        /\ \A q \in Loops \ {p} : pc'[q] = pc[q] /\ current'[q] = current[q]
        /\ current'[p] = NoFinding
  <2>1. CASE Hold(p)
    BY <1>0, <2>1 DEF Hold, IInv, LoopInv, CurrentIsQueued, TypeOK, Executing
  <2>2. CASE Executor(p)
    BY <1>0, <2>2 DEF Executor, Goto, IInv, LoopInv, CurrentIsQueued, TypeOK, Executing
  <2>3. CASE ExecutorFails(p)
    BY <1>0, <2>3 DEF ExecutorFails, Goto, IInv, LoopInv, CurrentIsQueued, TypeOK, Executing
  <2> QED BY <2>1, <2>2, <2>3
<1>2. UNCHANGED <<execFile, stateFile, known, handed>>
  BY DEF Hold, Executor, ExecutorFails, files
<1>3. /\ queue' = [queue EXCEPT ![p] = @ \ {f}]
      /\ handled' = handled \cup {f}
  BY <1>1 DEF Dealt
<1>4. KnownAccounted'
  BY <1>0, <1>2, <1>3 DEF TypeOK, IInv, LoopInv, KnownAccounted, GoLoops
<1>5. QueueInUse'
  BY <1>0, <1>1, <1>3 DEF TypeOK, IInv, LoopInv, QueueInUse, Executing
<1>6. CurrentIsQueued'
  BY <1>0, <1>1, <1>3 DEF TypeOK, IInv, LoopInv, CurrentIsQueued
<1>7. InputIsLow'
  BY <1>0, <1>1, <1>2 DEF IInv, LoopInv, InputIsLow, AutoRun
<1>8. HandedIsDone'
  BY <1>0, <1>1, <1>2, <1>3, FindingsAssumption DEF TypeOK, IInv, LoopInv, HandedIsDone, GoLoops
<1>9. OnlyLowApplied'
  BY DEF Hold, Executor, ExecutorFails, Record, IInv, LoopInv, OnlyLowApplied,
         InputIsLow, AutoRun
<1>10. PersistedWereHandled'
  BY <1>2, <1>3 DEF IInv, LoopInv, PersistedWereHandled
<1> QED BY <1>4, <1>5, <1>6, <1>7, <1>8, <1>9, <1>10 DEF LoopInv

LEMMA HandOverStep ==
  ASSUME IInv, NEW p \in Loops, HandOver(p)
  PROVE  LoopInv'
PROOF
<1>0. TypeOK
  BY DEF IInv
<1>1. PICK f \in queue[p] :
        /\ AutoRun(f)
        /\ current' = [current EXCEPT ![p] = f]
        /\ handed' = [handed EXCEPT ![p] = @ \cup {f}]
  BY DEF HandOver
<1>2. /\ UNCHANGED <<stateFile, known, queue, handled, applied>>
      /\ execFile' = TornFile
      /\ pc[p] = "executing" /\ pc' = [pc EXCEPT ![p] = "handing"]
      /\ current[p] = NoFinding
  BY DEF HandOver, Goto, IInv, LoopInv, CurrentIsQueued
<1>3. KnownAccounted' /\ OnlyLowApplied' /\ PersistedWereHandled'
  BY <1>2 DEF IInv, LoopInv, KnownAccounted, OnlyLowApplied, PersistedWereHandled
<1>4. QueueInUse'
  BY <1>0, <1>2 DEF TypeOK, IInv, LoopInv, QueueInUse, Executing
<1>5. CurrentIsQueued'
  BY <1>0, <1>1, <1>2 DEF TypeOK, IInv, LoopInv, CurrentIsQueued
<1>6. InputIsLow'
  BY <1>0, <1>1, <1>2 DEF TypeOK, IInv, LoopInv, InputIsLow, AutoRun, Unreadable
<1>7. HandedIsDone'
  BY <1>0, <1>1, <1>2, FindingsAssumption DEF TypeOK, IInv, LoopInv, HandedIsDone, GoLoops
<1> QED BY <1>3, <1>4, <1>5, <1>6, <1>7 DEF LoopInv

LEMMA WriteFindingStep ==
  ASSUME IInv, NEW p \in Loops, WriteFinding(p)
  PROVE  LoopInv'
PROOF
<1>0. TypeOK
  BY DEF IInv
<1>1. /\ UNCHANGED <<stateFile, known, queue, current, handled, handed, applied>>
      /\ execFile' \in {current[p], TornFile}
      /\ pc[p] = "handing" /\ pc' = [pc EXCEPT ![p] = "running"]
  BY DEF WriteFinding, Goto, history, Written
<1>2. current[p] \in Findings
  BY <1>0, <1>1 DEF TypeOK, IInv, LoopInv, CurrentIsQueued
<1>3. InputIsLow'
  BY <1>1, <1>2, FindingsAssumption DEF IInv, LoopInv, InputIsLow, AutoRun, Unreadable
<1>4. QueueInUse' /\ CurrentIsQueued'
  BY <1>0, <1>1 DEF TypeOK, IInv, LoopInv, QueueInUse, CurrentIsQueued, Executing
<1>5. KnownAccounted' /\ HandedIsDone' /\ OnlyLowApplied' /\ PersistedWereHandled'
  BY <1>1 DEF IInv, LoopInv, KnownAccounted, HandedIsDone, OnlyLowApplied,
              PersistedWereHandled
<1> QED BY <1>3, <1>4, <1>5 DEF LoopInv

\* The state is saved when the queue is empty, so that all that is known has
\* been dealt with.
LEMMA WriteStateStep ==
  ASSUME IInv, NEW p \in Loops, WriteState(p)
  PROVE  LoopInv'
PROOF
<1>0. TypeOK
  BY DEF IInv
<1>1. /\ UNCHANGED <<execFile, known, queue, current, handled, handed, applied>>
      /\ stateFile' \in {SavedBy(p), TornFile}
      /\ pc[p] = "storing" /\ pc' = [pc EXCEPT ![p] = "waiting"]
  BY DEF WriteState, Goto, history, Written
<1>2. SavedBy(p).known \subseteq handled
  BY <1>0, <1>1 DEF SavedBy, IInv, LoopInv, KnownAccounted, QueueInUse, GoLoops, Executing
<1>3. PersistedWereHandled'
  BY <1>1, <1>2 DEF PersistedWereHandled, Unreadable
<1>4. QueueInUse' /\ CurrentIsQueued'
  BY <1>0, <1>1 DEF TypeOK, IInv, LoopInv, QueueInUse, CurrentIsQueued, Executing
<1>5. KnownAccounted' /\ HandedIsDone' /\ OnlyLowApplied' /\ InputIsLow'
  BY <1>1 DEF IInv, LoopInv, KnownAccounted, HandedIsDone, OnlyLowApplied,
              InputIsLow, AutoRun
<1> QED BY <1>3, <1>4, <1>5 DEF LoopInv

LEMMA CrashSteps ==
  ASSUME IInv, NEW p \in Loops, Crash(p) \/ Restart(p)
  PROVE  LoopInv'
PROOF
<1>0. TypeOK
  BY DEF IInv
<1>1. CASE Crash(p)
  <2>1. /\ UNCHANGED <<execFile, stateFile, handled, applied>>
        /\ pc' = [pc EXCEPT ![p] = "down"]
        /\ known' = [known EXCEPT ![p] = {}]
        /\ queue' = [queue EXCEPT ![p] = {}]
        /\ current' = [current EXCEPT ![p] = NoFinding]
        /\ handed' = [handed EXCEPT ![p] = {}]
    BY <1>1 DEF Crash, files
  <2>2. KnownAccounted' /\ HandedIsDone'
    BY <1>0, <2>1 DEF TypeOK, IInv, LoopInv, KnownAccounted, HandedIsDone, GoLoops
  <2>3. QueueInUse' /\ CurrentIsQueued'
    BY <1>0, <2>1 DEF TypeOK, IInv, LoopInv, QueueInUse, CurrentIsQueued, Executing
  <2>4. InputIsLow' /\ OnlyLowApplied' /\ PersistedWereHandled'
    BY <1>0, <2>1 DEF TypeOK, IInv, LoopInv, InputIsLow, OnlyLowApplied,
                      PersistedWereHandled, AutoRun
  <2> QED BY <2>2, <2>3, <2>4 DEF LoopInv
<1>2. CASE Restart(p)
  <2>1. /\ UNCHANGED <<execFile, stateFile, queue, current, handled, handed, applied>>
        /\ pc[p] = "down" /\ pc' = [pc EXCEPT ![p] = "waiting"]
        /\ \A q \in GoLoops : known'[q] = IF q = p THEN Restored ELSE known[q]
    BY <1>0, <1>2 DEF Restart, Goto, files, history, TypeOK, GoLoops
  <2>2. Restored \subseteq handled
    BY DEF Restored, IInv, LoopInv, PersistedWereHandled
  <2>3. KnownAccounted'
    BY <2>1, <2>2 DEF IInv, LoopInv, KnownAccounted
  <2>4. QueueInUse' /\ CurrentIsQueued'
    BY <1>0, <2>1 DEF TypeOK, IInv, LoopInv, QueueInUse, CurrentIsQueued, Executing
  <2>5. HandedIsDone'
    BY <2>1 DEF IInv, LoopInv, HandedIsDone, GoLoops, QueueInUse, Executing
  <2>6. InputIsLow' /\ OnlyLowApplied' /\ PersistedWereHandled'
    BY <2>1 DEF IInv, LoopInv, InputIsLow, OnlyLowApplied, PersistedWereHandled, AutoRun
  <2> QED BY <2>3, <2>4, <2>5, <2>6 DEF LoopInv
<1> QED BY <1>1, <1>2

\* An executor that has outlived its loop reads what a live one would read.
LEMMA OrphanSteps ==
  ASSUME IInv, OrphanStep
  PROVE  LoopInv'
PROOF
<1>1. KnownAccounted' /\ InputIsLow' /\ HandedIsDone' /\ PersistedWereHandled'
  BY OrphanFrame DEF IInv, LoopInv, KnownAccounted, InputIsLow, HandedIsDone,
                     PersistedWereHandled, AutoRun
<1>2. QueueInUse' /\ CurrentIsQueued'
  BY OrphanFrame DEF IInv, LoopInv, QueueInUse, CurrentIsQueued
<1>3. OnlyLowApplied'
  BY DEF OrphanStep, OrphanOpens, OrphanWrites, OrphanExecutes, history, Record, IInv,
         LoopInv, OnlyLowApplied, InputIsLow, AutoRun
<1> QED BY <1>1, <1>2, <1>3 DEF LoopInv

LEMMA InvStep == IInv /\ [Next]_vars => IInv'
PROOF
<1> SUFFICES ASSUME IInv, [Next]_vars PROVE IInv'
  OBVIOUS
<1>1. ASSUME NEW p \in Loops, Step(p) PROVE IInv'
  <2>1. TypeOK'
    BY <1>1, StepType DEF IInv, LoopInv
  <2>2. LoopInv'
    BY <1>1, QuietSteps, LoadSteps, DealtSteps, HandOverStep, WriteFindingStep,
       WriteStateStep DEF Step
  <2> QED BY <2>1, <2>2 DEF IInv
<1>2. ASSUME NEW p \in Loops, Crash(p) \/ Restart(p) PROVE IInv'
  BY <1>2, CrashType, CrashSteps DEF IInv
<1>3. CASE RepositoryChanges
  <2>1. KnownAccounted' /\ InputIsLow' /\ HandedIsDone' /\ OnlyLowApplied'
    BY <1>3 DEF RepositoryChanges, files, history, IInv, LoopInv, KnownAccounted,
                InputIsLow, HandedIsDone, OnlyLowApplied, AutoRun
  <2>2. QueueInUse' /\ CurrentIsQueued' /\ PersistedWereHandled'
    BY <1>3 DEF RepositoryChanges, files, history, IInv, LoopInv, QueueInUse,
                CurrentIsQueued, PersistedWereHandled
  <2> QED BY <1>3, <2>1, <2>2, ChangeType DEF IInv, LoopInv
<1>4. CASE UNCHANGED vars
  <2>1. TypeOK'
    BY <1>4 DEF vars, IInv, TypeOK
  <2>2. KnownAccounted' /\ InputIsLow' /\ HandedIsDone' /\ OnlyLowApplied'
    BY <1>4 DEF vars, IInv, LoopInv, KnownAccounted, InputIsLow, HandedIsDone,
                OnlyLowApplied, AutoRun
  <2>3. QueueInUse' /\ CurrentIsQueued' /\ PersistedWereHandled'
    BY <1>4 DEF vars, IInv, LoopInv, QueueInUse, CurrentIsQueued, PersistedWereHandled
  <2> QED BY <2>1, <2>2, <2>3 DEF IInv, LoopInv
<1>5. CASE OrphanStep
  BY <1>5, OrphanType, OrphanSteps DEF IInv
<1> QED BY <1>1, <1>2, <1>3, <1>4, <1>5 DEF Next, OrphanStep

-----------------------------------------------------------------------------
(* Theorems.                                                               *)

\* The types and the bookkeeping of the loops hold in every reachable state.
THEOREM LoopInvariant == Spec => []IInv
PROOF BY InitInv, InvStep, PTL DEF Spec

\* What the loops know, have queued and have handed over agrees, whoever else
\* writes the files in /tmp.
THEOREM LoopBookkeeping == Spec => []LoopInv
PROOF
<1>1. IInv => LoopInv
  BY DEF IInv
<1> QED BY <1>1, LoopInvariant, PTL

\* Type correctness; it needs the bookkeeping, because what a loop hands over
\* is a finding only while it is queued.
THEOREM AuditTypes == Spec => []TypeOK
PROOF BY LoopInvariant, PTL DEF IInv

\* Whatever two loops do to the one executor input file, the executor records
\* as applied only findings that passed the gate.
THEOREM NothingRiskyApplied == Spec => []OnlyLowApplied
PROOF
<1>1. IInv => OnlyLowApplied
  BY DEF IInv, LoopInv
<1> QED BY <1>1, LoopInvariant, PTL

\* Whoever wrote the state file and whenever it died, a Go loop has reported
\* and, if it is low, tried whatever the file makes a later life skip.  What the
\* shell has read and shown does not count as handled.
THEOREM NothingSkipped == Spec => []PersistedWereHandled
PROOF
<1>1. IInv => PersistedWereHandled
  BY DEF IInv, LoopInv
<1> QED BY <1>1, LoopInvariant, PTL

\* In one life of a process no finding goes to the executor twice.
THEOREM NothingHandedTwice == Spec => HandedOnce
PROOF
<1> DEFINE Fresh(p) == current'[p] \notin {current[p], NoFinding}
                         => current'[p] \notin handed[p]
<1>1. ASSUME IInv, NEW p \in Loops, HandOver(p) PROVE Fresh(p)
  <2>1. PICK f \in queue[p] : current' = [current EXCEPT ![p] = f]
    BY <1>1 DEF HandOver
  <2>2. p # Shell /\ current[p] = NoFinding /\ current'[p] = f /\ f \in Findings
    BY <1>1, <2>1 DEF HandOver, Goto, IInv, LoopInv, TypeOK, QueueInUse, CurrentIsQueued
  <2> QED BY <1>1, <2>1, <2>2, FindingsAssumption DEF IInv, LoopInv, HandedIsDone, GoLoops
<1>2. ASSUME IInv, NEW p \in Loops, NEW q \in Loops, Step(q) \/ Crash(q) \/ Restart(q),
             ~(p = q /\ HandOver(q))
      PROVE  current'[p] \in {current[p], NoFinding}
  BY <1>2 DEF IInv, TypeOK, Step, Tick, AuditorFails, AuditorOpens, AuditorWrites,
              Load, ShellCheck, Hold, HandOver, WriteFinding, Executor, ExecutorFails,
              FindingsDone, OpenState, WriteState, Crash, Restart
<1>3. ASSUME IInv, NEW p \in Loops, RepositoryChanges \/ OrphanStep \/ UNCHANGED vars
      PROVE  current'[p] = current[p]
  BY <1>3, OrphanFrame DEF RepositoryChanges, vars
<1>4. IInv /\ [Next]_vars => \A p \in Loops : Fresh(p)
  BY <1>1, <1>2, <1>3 DEF Next, OrphanStep
<1>5. IInv /\ [Next]_vars => [\A p \in Loops : Fresh(p)]_vars
  BY <1>4
<1> QED BY <1>5, LoopInvariant, PTL DEF Spec, HandedOnce

-----------------------------------------------------------------------------
(* The promise: AuditLoop implements AuditPromise.                         *)

Alive  == [p \in GoLoops |-> pc[p] # "down"]
Memory == IF stateFile \in Unreadable THEN {} ELSE stateFile.known
Low    == {f \in Findings : classifyRisk(f) = "low"}

\* All that the promise sees of the loops.
Seen  == <<Alive, OfGoLoops(known), OfGoLoops(queue), OfGoLoops(current), OfGoLoops(handed)>>

\* What is at the executor was handed over in this life.
CurrentWasHanded == \A p \in Loops : current[p] \in handed[p] \cup {NoFinding}

LEMMA HandedStep == IInv /\ CurrentWasHanded /\ [Next]_vars => CurrentWasHanded'
PROOF
<1> SUFFICES ASSUME IInv, CurrentWasHanded, [Next]_vars PROVE CurrentWasHanded'
  OBVIOUS
<1>0. /\ current \in [Loops -> Findings \cup {NoFinding}]
      /\ handed \in [Loops -> SUBSET Findings]
  BY DEF IInv, TypeOK
<1>1. ASSUME NEW p \in Loops, HandOver(p) PROVE CurrentWasHanded'
  <2>1. PICK f : /\ current' = [current EXCEPT ![p] = f]
                 /\ handed' = [handed EXCEPT ![p] = @ \cup {f}]
    BY <1>1 DEF HandOver
  <2> QED BY <1>0, <2>1 DEF CurrentWasHanded
<1>2. ASSUME NEW p \in Loops, Crash(p) PROVE CurrentWasHanded'
  BY <1>0, <1>2 DEF Crash, CurrentWasHanded
<1>3. ASSUME NEW p \in Loops, Executor(p) \/ ExecutorFails(p) PROVE CurrentWasHanded'
  BY <1>0, <1>3 DEF Executor, ExecutorFails, CurrentWasHanded
<1>4. CASE UNCHANGED <<current, handed>>
  BY <1>4 DEF CurrentWasHanded
<1>5. ASSUME NEW p \in Loops, Step(p) \/ Restart(p),
             ~(HandOver(p) \/ Executor(p) \/ ExecutorFails(p))
      PROVE  UNCHANGED <<current, handed>>
  BY <1>5 DEF Step, Tick, AuditorFails, AuditorOpens, AuditorWrites, Load, ShellCheck,
              Hold, WriteFinding, FindingsDone, OpenState, WriteState, Restart, history
<1>6. RepositoryChanges \/ OrphanStep \/ UNCHANGED vars => UNCHANGED <<current, handed>>
  BY OrphanFrame DEF RepositoryChanges, history, vars
<1> QED BY <1>1, <1>2, <1>3, <1>4, <1>5, <1>6 DEF Next, OrphanStep

\* What changes of one loop, the promise sees of a Go loop and not of the shell.
Updated(f, p, v) == [f EXCEPT ![p] = v]

LEMMA SeenOfOne ==
  ASSUME NEW f, NEW p \in Loops, NEW v, DOMAIN f = Loops
  PROVE  /\ p \in GoLoops => OfGoLoops(Updated(f, p, v)) = Updated(OfGoLoops(f), p, v)
         /\ p = Shell => OfGoLoops(Updated(f, p, v)) = OfGoLoops(f)
PROOF BY DEF OfGoLoops, GoLoops, Updated

\* What the promise sees after a step are the new values.
LEMMA SeenNext ==
  /\ OfGoLoops(known)' = OfGoLoops(known')     /\ OfGoLoops(queue)' = OfGoLoops(queue')
  /\ OfGoLoops(current)' = OfGoLoops(current') /\ OfGoLoops(handed)' = OfGoLoops(handed')
PROOF BY DEF OfGoLoops

LEMMA StillAlive ==
  ASSUME pc \in [Loops -> PCs], NEW p \in Loops,
         \A q \in Loops \ {p} : pc'[q] = pc[q],
         p = Shell \/ (pc[p] # "down" /\ pc'[p] # "down")
  PROVE  Alive' = Alive
PROOF BY DEF Alive, GoLoops

\* Steps that the promise does not see, or sees as a loss of memory.
LEMMA QuietSimulates ==
  ASSUME IInv, NEW p \in Loops,
         \/ Tick(p) \/ AuditorFails(p) \/ AuditorOpens(p) \/ AuditorWrites(p)
         \/ WriteFinding(p) \/ FindingsDone(p) \/ OpenState(p)
  PROVE  Promise!Forget \/ UNCHANGED Promise!vars
PROOF
<1>0. pc \in [Loops -> PCs]
  BY DEF IInv, TypeOK
<1>1. /\ UNCHANGED <<known, queue, current, handled, handed, applied, orphans>>
      /\ stateFile' \in {stateFile, TornFile}
  BY DEF Tick, AuditorFails, AuditorOpens, AuditorWrites, WriteFinding, FindingsDone,
         OpenState, files, history
<1>2. \A q \in Loops : pc'[q] = pc[q] \/ (q = p /\ pc[q] # "down" /\ pc'[q] # "down")
  BY <1>0 DEF Tick, AuditorFails, AuditorOpens, AuditorWrites, WriteFinding,
         FindingsDone, OpenState, Goto, AllDealtWith
<1>3. Alive' = Alive
  BY <1>0, <1>2 DEF Alive, GoLoops
<1>4. Memory' \in {Memory, {}}
  BY <1>1 DEF Memory, Unreadable
<1>5. UNCHANGED Seen
  BY <1>1, <1>3 DEF Seen
<1> QED BY <1>1, <1>4, <1>5 DEF Seen, Alive, Memory, Promise!Forget, Promise!vars, Promise!worker

LEMMA LoadSimulates ==
  ASSUME IInv, NEW p \in Loops, Load(p)
  PROVE  Promise!TakeOn(p)
PROOF
<1>0. TypeOK /\ p \in GoLoops
  BY DEF IInv, Load
<1>1. /\ pc[p] = "loading" /\ pc'[p] # "down" /\ \A q \in Loops \ {p} : pc'[q] = pc[q]
      /\ queue[p] = {}
  BY <1>0 DEF Load, Goto, TypeOK, IInv, LoopInv, QueueInUse, Executing, GoLoops
<1>2. Alive[p] /\ Alive' = Alive
  BY <1>0, <1>1, StillAlive DEF Alive, TypeOK
<1>3. NewFindings(p) \in SUBSET (Findings \ known[p])
  BY <1>0, LoadedType DEF NewFindings, TypeOK
<1>4. /\ OfGoLoops(known)' = Updated(OfGoLoops(known), p, known[p] \cup NewFindings(p))
      /\ OfGoLoops(queue)' = Updated(OfGoLoops(queue), p, NewFindings(p))
  <2>1. /\ known' = Updated(known, p, known[p] \cup NewFindings(p))
        /\ queue' = Updated(queue, p, NewFindings(p))
    BY <1>0 DEF Load, TypeOK, Updated
  <2>2. DOMAIN known = Loops /\ DOMAIN queue = Loops
    BY <1>0 DEF TypeOK
  <2> QED BY <1>0, <2>1, <2>2, SeenOfOne, SeenNext
<1>5. OfGoLoops(known)[p] = known[p] /\ OfGoLoops(queue)[p] = {}
  BY <1>0, <1>1 DEF OfGoLoops
<1>6. /\ UNCHANGED <<OfGoLoops(current), OfGoLoops(handed), handled, applied, orphans>>
      /\ Memory' = Memory
  BY DEF Load, files, history, OfGoLoops, Memory
<1> QED BY <1>2, <1>3, <1>4, <1>5, <1>6 DEF Promise!TakeOn, Alive, Memory, Updated

\* A finding leaves the queue of a Go loop for the handled ones.
LEMMA DealtSeen ==
  ASSUME IInv, NEW p \in GoLoops, NEW f, Dealt(p, f)
  PROVE  Promise!DealtWith(p, f)
PROOF
<1>1. p \in Loops /\ DOMAIN queue = Loops
  BY DEF GoLoops, IInv, TypeOK
<1>2. queue' = Updated(queue, p, queue[p] \ {f}) /\ handled' = handled \cup {f}
  BY <1>1 DEF Dealt, IInv, TypeOK, Updated
<1>3. OfGoLoops(queue)' = Updated(OfGoLoops(queue), p, queue[p] \ {f})
  BY <1>1, <1>2, SeenOfOne, SeenNext
<1>4. OfGoLoops(queue)[p] = queue[p]
  BY DEF OfGoLoops
<1> QED BY <1>2, <1>3, <1>4 DEF Promise!DealtWith, Updated

LEMMA HoldSimulates ==
  ASSUME IInv, NEW p \in Loops, Hold(p)
  PROVE  Promise!Report(p)
PROOF
<1>1. PICK f \in queue[p] : classifyRisk(f) # "low" /\ Dealt(p, f)
  BY DEF Hold
<1>2. p \in GoLoops /\ pc[p] = "executing"
  BY <1>1 DEF Hold, IInv, LoopInv, QueueInUse, GoLoops
<1>3. Promise!DealtWith(p, f)
  BY <1>1, <1>2, DealtSeen
<1>4. Alive[p] /\ f \in OfGoLoops(queue)[p] \ Low
  BY <1>1, <1>2 DEF Alive, OfGoLoops, Low
<1>5. /\ UNCHANGED <<Alive, OfGoLoops(known), OfGoLoops(current), OfGoLoops(handed)>>
      /\ UNCHANGED <<applied, Memory, orphans>>
  BY DEF Hold, files, Alive, OfGoLoops, Memory
<1> QED BY <1>3, <1>4, <1>5 DEF Promise!Report, Alive, Low, Memory

LEMMA HandOverSimulates ==
  ASSUME IInv, NEW p \in Loops, HandOver(p)
  PROVE  Promise!Try(p)
PROOF
<1>0. TypeOK
  BY DEF IInv
<1>1. PICK f \in queue[p] :
        /\ AutoRun(f)
        /\ current' = Updated(current, p, f)
        /\ handed' = Updated(handed, p, handed[p] \cup {f})
  BY <1>0 DEF HandOver, TypeOK, Updated
<1>2. /\ p \in GoLoops /\ pc[p] = "executing" /\ pc'[p] = "handing"
      /\ \A q \in Loops \ {p} : pc'[q] = pc[q]
      /\ current[p] = NoFinding /\ f \in Findings
  BY <1>0, <1>1 DEF HandOver, Goto, IInv, LoopInv, QueueInUse, CurrentIsQueued, GoLoops, TypeOK
<1>3. f \notin handed[p]
  BY <1>1, <1>2, FindingsAssumption DEF IInv, LoopInv, HandedIsDone
<1>4. Alive[p] /\ Alive' = Alive
  BY <1>0, <1>2, StillAlive DEF Alive, TypeOK
<1>5. /\ OfGoLoops(current)' = Updated(OfGoLoops(current), p, f)
      /\ OfGoLoops(handed)' = Updated(OfGoLoops(handed), p, handed[p] \cup {f})
  <2>1. DOMAIN current = Loops /\ DOMAIN handed = Loops
    BY <1>0 DEF TypeOK
  <2> QED BY <1>1, <1>2, <2>1, SeenOfOne, SeenNext
<1>6. /\ OfGoLoops(current)[p] = NoFinding /\ OfGoLoops(handed)[p] = handed[p]
      /\ f \in (OfGoLoops(queue)[p] \cap Low) \ OfGoLoops(handed)[p]
  BY <1>1, <1>2, <1>3 DEF OfGoLoops, Low, AutoRun
<1>7. /\ UNCHANGED <<OfGoLoops(known), OfGoLoops(queue)>>
      /\ UNCHANGED <<handled, applied, Memory, orphans>>
  BY DEF HandOver, OfGoLoops, Memory
<1> QED BY <1>4, <1>5, <1>6, <1>7 DEF Promise!Try, Alive, Low, Memory, Updated

\* The executor ran, or failed, on whatever finding it read.
LEMMA ExecutorSimulates ==
  ASSUME IInv, CurrentWasHanded, NEW p \in Loops, Executor(p) \/ ExecutorFails(p)
  PROVE  Promise!Settle(p)
PROOF
<1>0. TypeOK
  BY DEF IInv
<1>1. /\ pc[p] = "running" /\ pc'[p] = "executing" /\ \A q \in Loops \ {p} : pc'[q] = pc[q]
      /\ Dealt(p, current[p])
      /\ current' = Updated(current, p, NoFinding)
      /\ UNCHANGED <<known, handed, stateFile, orphans>>
  BY <1>0 DEF Executor, ExecutorFails, Goto, files, TypeOK, Updated
<1>2. current[p] \in queue[p] /\ p \in GoLoops /\ current[p] \in handed[p]
  BY <1>0, <1>1, FindingsAssumption DEF IInv, LoopInv, CurrentIsQueued, QueueInUse,
     GoLoops, CurrentWasHanded, TypeOK
<1>3. Promise!DealtWith(p, current[p])
  BY <1>1, <1>2, DealtSeen
<1>4. applied' = applied \/ \E g \in Low : applied' = applied \cup {g}
  <2>1. execFile \notin Unreadable => execFile \in Low
    BY <1>0 DEF IInv, LoopInv, InputIsLow, AutoRun, TypeOK, Low
  <2> QED BY <2>1 DEF Executor, ExecutorFails, Record
<1>5. Alive[p] /\ Alive' = Alive
  BY <1>0, <1>1, <1>2, StillAlive DEF Alive, TypeOK
<1>6. OfGoLoops(current)' = Updated(OfGoLoops(current), p, NoFinding)
  <2>1. DOMAIN current = Loops /\ DOMAIN handed = Loops
    BY <1>0 DEF TypeOK
  <2> QED BY <1>1, <1>2, <2>1, SeenOfOne, SeenNext
<1>7. OfGoLoops(current)[p] \in OfGoLoops(queue)[p] \cap OfGoLoops(handed)[p]
  BY <1>2 DEF OfGoLoops
<1>8. OfGoLoops(current)[p] = current[p]
  BY <1>2 DEF OfGoLoops
<1>9. UNCHANGED <<OfGoLoops(known), OfGoLoops(handed), Memory, orphans>>
  BY <1>1 DEF OfGoLoops, Memory
<1> QED BY <1>3, <1>4, <1>5, <1>6, <1>7, <1>8, <1>9 DEF Promise!Settle, Alive, Low, Memory, Updated

\* The promise is about the Go loops: what the shell knows and shows is no part
\* of it.
LEMMA ShellSimulates ==
  ASSUME IInv, NEW p \in Loops, ShellCheck(p)
  PROVE  UNCHANGED Promise!vars
PROOF
<1>0. TypeOK /\ p = Shell
  BY DEF IInv, ShellCheck
<1>1. UNCHANGED <<queue, current, handled, handed, applied, stateFile, orphans>>
  BY DEF ShellCheck, files, history
<1>2. Alive' = Alive
  BY <1>0 DEF ShellCheck, Goto, Alive, GoLoops, TypeOK
<1>3. OfGoLoops(known)' = OfGoLoops(known)
  BY <1>0 DEF ShellCheck, OfGoLoops, GoLoops, TypeOK
<1> QED BY <1>1, <1>2, <1>3
        DEF Promise!vars, Promise!worker, Alive, Memory, OfGoLoops

\* What is saved is what a loop knows, all of which has been dealt with; the
\* shell, or a text torn by another writer, leaves nothing to remember.
LEMMA WriteStateSimulates ==
  ASSUME IInv, NEW p \in Loops, WriteState(p)
  PROVE  (p \in GoLoops /\ Promise!Remember(p)) \/ Promise!Forget
PROOF
<1>0. TypeOK
  BY DEF IInv
<1>1. /\ pc[p] = "storing" /\ pc'[p] = "waiting" /\ \A q \in Loops \ {p} : pc'[q] = pc[q]
      /\ stateFile' \in {SavedBy(p), TornFile}
      /\ UNCHANGED <<known, queue, current, handled, handed, applied, orphans>>
  BY <1>0 DEF WriteState, Goto, history, Written, TypeOK
<1>2. Alive' = Alive
  BY <1>0, <1>1, StillAlive DEF TypeOK
<1>3. SavedBy(p) \in Saved /\ SavedBy(p) \notin Unreadable
  <2>1. SavedBy(p) \in Saved
    BY <1>0, SavedByType DEF TypeOK
  <2> QED BY <2>1, FilesAssumption DEF Saved
<1>4. Memory' \in {SavedBy(p).known, {}}
  BY <1>1, <1>3 DEF Memory, Unreadable
<1>5. UNCHANGED <<Seen, handled, applied, orphans>>
  BY <1>1, <1>2 DEF Seen, OfGoLoops
<1>6. CASE Memory' = {}
  BY <1>5, <1>6 DEF Seen, Promise!Forget, Promise!worker, Alive, Memory
<1>7. CASE p \in GoLoops /\ Memory' = SavedBy(p).known
  <2>1. Memory' = OfGoLoops(known)[p]
    BY <1>7 DEF SavedBy, GoLoops, OfGoLoops
  <2>2. Alive[p] /\ OfGoLoops(queue)[p] = {}
    BY <1>1, <1>7 DEF Alive, OfGoLoops, GoLoops, IInv, LoopInv, QueueInUse, Executing
  <2>3. Promise!Remember(p)
    BY <1>5, <2>1, <2>2 DEF Seen, Promise!Remember, Promise!worker, Alive, Memory
  <2> QED BY <1>7, <2>3
<1>8. p \notin GoLoops => SavedBy(p).known = {}
  BY DEF GoLoops, SavedBy
<1> QED BY <1>4, <1>6, <1>7, <1>8

\* The death of a Go loop, whose executor may live on, and that of the shell,
\* which knows nothing and runs no executor.
LEMMA CrashSimulates ==
  ASSUME IInv, NEW p \in Loops, Crash(p)
  PROVE  IF p \in GoLoops THEN Promise!GoDown(p) ELSE UNCHANGED Promise!vars
PROOF
<1>0. TypeOK
  BY DEF IInv
<1>1. /\ pc[p] # "down" /\ pc' = [pc EXCEPT ![p] = "down"]
      /\ known' = Updated(known, p, {})
      /\ queue' = Updated(queue, p, {})
      /\ current' = Updated(current, p, NoFinding)
      /\ handed' = Updated(handed, p, {})
      /\ UNCHANGED <<handled, applied, stateFile>>
  BY DEF Crash, files, Updated
<1>2. /\ DOMAIN known = Loops /\ DOMAIN queue = Loops
      /\ DOMAIN current = Loops /\ DOMAIN handed = Loops
  BY <1>0 DEF TypeOK
<1>3. Memory' = Memory
  BY <1>1 DEF Memory
<1>4. \/ orphans'["running"] = orphans["running"]
      \/ /\ pc[p] = "running"
         /\ orphans'["running"] = orphans["running"] + 1
  BY <1>0 DEF Crash, TypeOK, InScript
<1>5. CASE p \in GoLoops
  <2>1. Alive[p] /\ Alive' = [Alive EXCEPT ![p] = FALSE]
    BY <1>0, <1>1, <1>5 DEF Alive, GoLoops, TypeOK
  <2>2. /\ OfGoLoops(known)' = Updated(OfGoLoops(known), p, {})
        /\ OfGoLoops(queue)' = Updated(OfGoLoops(queue), p, {})
        /\ OfGoLoops(current)' = Updated(OfGoLoops(current), p, NoFinding)
        /\ OfGoLoops(handed)' = Updated(OfGoLoops(handed), p, {})
    BY <1>1, <1>2, <1>5, SeenOfOne, SeenNext
  <2>3. pc[p] = "running" => OfGoLoops(current)[p] # NoFinding
    BY <1>0, <1>5, FindingsAssumption DEF IInv, LoopInv, CurrentIsQueued, OfGoLoops, TypeOK
  <2> QED BY <1>1, <1>3, <1>5, <1>4, <2>1, <2>2, <2>3
          DEF Promise!GoDown, Alive, Memory, Updated
<1>6. CASE p \notin GoLoops
  <2>1. p = Shell
    BY <1>6 DEF GoLoops
  <2>2. Alive' = Alive
    BY <1>0, <1>1, <2>1 DEF Alive, GoLoops, TypeOK
  <2>3. UNCHANGED <<OfGoLoops(known), OfGoLoops(queue), OfGoLoops(current), OfGoLoops(handed)>>
    BY <1>1, <1>2, <2>1, SeenOfOne, SeenNext
  <2>4. orphans'["running"] = orphans["running"]
    BY <1>0, <1>4, <2>1 DEF IInv, LoopInv, CurrentIsQueued, QueueInUse
  <2> QED BY <1>1, <1>3, <1>6, <2>2, <2>3, <2>4
          DEF Promise!vars, Promise!worker, Alive, Memory
<1> QED BY <1>5, <1>6

\* An executor that nobody waits for records what it finds in its input file;
\* the promise sees nothing of an auditor.
LEMMA OrphanSimulates ==
  ASSUME IInv, OrphanStep
  PROVE  Promise!Stray \/ UNCHANGED Promise!vars
PROOF
<1>0. TypeOK
  BY DEF IInv
<1>1. UNCHANGED <<OfGoLoops(known), OfGoLoops(queue), OfGoLoops(current),
                  OfGoLoops(handed), Alive, Memory, handled>>
  BY OrphanFrame DEF OfGoLoops, Alive, Memory
<1>2. CASE OrphanExecutes
  <2>1. /\ orphans["running"] > 0
        /\ orphans'["running"] = orphans["running"] - 1
    BY <1>0, <1>2 DEF OrphanExecutes, TypeOK, InScript
  <2>2. applied' = applied \/ \E g \in Low : applied' = applied \cup {g}
    <3>1. execFile \notin Unreadable => execFile \in Low
      BY <1>0 DEF IInv, LoopInv, InputIsLow, AutoRun, TypeOK, Low
    <3> QED BY <1>2, <3>1 DEF OrphanExecutes, Record
  <2> QED BY <1>1, <2>1, <2>2 DEF Promise!Stray, Promise!worker, Alive, Memory, Low
<1>3. CASE OrphanOpens \/ OrphanWrites
  <2>1. orphans'["running"] = orphans["running"] /\ applied' = applied
    BY <1>0, <1>3 DEF OrphanOpens, OrphanWrites, TypeOK, InScript, history
  <2> QED BY <1>1, <2>1 DEF Promise!vars, Promise!worker, Alive, Memory
<1> QED BY <1>2, <1>3 DEF OrphanStep

LEMMA RestartSimulates ==
  ASSUME IInv, NEW p \in Loops, Restart(p)
  PROVE  IF p \in GoLoops THEN Promise!ComeUp(p) ELSE UNCHANGED Promise!vars
PROOF
<1>0. TypeOK
  BY DEF IInv
<1>1. /\ pc[p] = "down" /\ pc' = [pc EXCEPT ![p] = "waiting"]
      /\ known' = Updated(known, p, IF p = Shell THEN {} ELSE Restored)
      /\ UNCHANGED <<stateFile, queue, current, handled, handed, applied, orphans>>
  BY DEF Restart, Goto, files, history, Updated
<1>2. DOMAIN known = Loops
  BY <1>0 DEF TypeOK
<1>3. UNCHANGED <<OfGoLoops(queue), OfGoLoops(current), OfGoLoops(handed), Memory>>
  BY <1>1 DEF OfGoLoops, Memory
<1>4. CASE p \in GoLoops
  <2>1. ~Alive[p] /\ Alive' = [Alive EXCEPT ![p] = TRUE]
    BY <1>0, <1>1, <1>4 DEF Alive, GoLoops, TypeOK
  <2>2. OfGoLoops(known)' = Updated(OfGoLoops(known), p, Restored)
    <3>1. known' = Updated(known, p, Restored)
      BY <1>1, <1>4 DEF GoLoops
    <3> QED BY <1>2, <1>4, <3>1, SeenOfOne, SeenNext
  <2>3. Restored \in {{}, Memory}
    BY DEF Restored, Memory
  <2> QED BY <1>1, <1>3, <1>4, <2>1, <2>2, <2>3 DEF Promise!ComeUp, Alive, Memory, Updated
<1>5. CASE p \notin GoLoops
  <2>1. p = Shell
    BY <1>5 DEF GoLoops
  <2>2. Alive' = Alive
    BY <1>0, <1>1, <2>1 DEF Alive, GoLoops, TypeOK
  <2>3. OfGoLoops(known)' = OfGoLoops(known)
    BY <1>1, <1>2, <2>1, SeenOfOne, SeenNext
  <2> QED BY <1>1, <1>3, <1>5, <2>2, <2>3 DEF Promise!vars, Promise!worker, Alive, Memory
<1> QED BY <1>4, <1>5

LEMMA StepSimulates ==
  IInv /\ CurrentWasHanded /\ [Next]_vars => [Promise!Next]_(Promise!vars)
PROOF
<1> SUFFICES ASSUME IInv, CurrentWasHanded, [Next]_vars
             PROVE  Promise!Next \/ UNCHANGED Promise!vars
  OBVIOUS
<1>1. ASSUME NEW p \in Loops, Step(p) PROVE Promise!Next \/ UNCHANGED Promise!vars
  <2>1. CASE \/ Tick(p) \/ AuditorFails(p) \/ AuditorOpens(p) \/ AuditorWrites(p)
             \/ WriteFinding(p) \/ FindingsDone(p) \/ OpenState(p)
    BY <2>1, QuietSimulates DEF Promise!Next
  <2>2. CASE Load(p)
    <3>1. p \in GoLoops /\ Promise!TakeOn(p)
      BY <2>2, LoadSimulates DEF Load
    <3> QED BY <3>1 DEF Promise!Next
  <2>3. CASE ShellCheck(p)
    BY <2>3, ShellSimulates
  <2>4. CASE Hold(p) \/ HandOver(p) \/ Executor(p) \/ ExecutorFails(p)
    <3>1. p \in GoLoops
      BY <2>4 DEF Hold, HandOver, Executor, ExecutorFails, Goto, IInv, LoopInv,
                  QueueInUse, CurrentIsQueued, GoLoops
    <3>2. Promise!Report(p) \/ Promise!Try(p) \/ Promise!Settle(p)
      BY <2>4, HoldSimulates, HandOverSimulates, ExecutorSimulates
    <3> QED BY <3>1, <3>2 DEF Promise!Next
  <2>5. CASE WriteState(p)
    BY <2>5, WriteStateSimulates DEF Promise!Next
  <2> QED BY <1>1, <2>1, <2>2, <2>3, <2>4, <2>5 DEF Step
<1>2. ASSUME NEW p \in Loops, Crash(p) PROVE Promise!Next \/ UNCHANGED Promise!vars
  BY <1>2, CrashSimulates DEF Promise!Next
<1>3. ASSUME NEW p \in Loops, Restart(p) PROVE Promise!Next \/ UNCHANGED Promise!vars
  BY <1>3, RestartSimulates DEF Promise!Next
<1>4. CASE RepositoryChanges \/ UNCHANGED vars
  BY <1>4 DEF RepositoryChanges, vars, files, history, Promise!vars, Promise!worker, OfGoLoops
<1>5. CASE OrphanStep
  BY <1>5, OrphanSimulates DEF Promise!Next
<1> QED BY <1>1, <1>2, <1>3, <1>4, <1>5 DEF Next, OrphanStep

\* The three loops, however they share the files in /tmp, crash and come back,
\* do what AuditPromise says and nothing else.
THEOREM ImplementsAuditPromise == Spec => KeepsAuditPromise
PROOF
<1>1. Init => Promise!Init
  BY DEF Init, Promise!Init, OfGoLoops, GoLoops, Unreadable, InScript
<1>2. Init => CurrentWasHanded
  BY DEF Init, CurrentWasHanded
<1> QED BY <1>1, <1>2, HandedStep, StepSimulates, LoopInvariant, PTL
        DEF Spec, KeepsAuditPromise, Promise!Spec
-----------------------------------------------------------------------------
(* What the end of a round rests on.                                       *)

\* How many steps a loop has at most before it waits again.
StepsLeft(p) ==
  CASE pc[p] = "storing"   -> 1
    [] pc[p] = "saving"    -> 2
    [] pc[p] = "executing" -> 3 * Cardinality(queue[p]) + 3
    [] pc[p] = "handing"   -> 3 * Cardinality(queue[p]) + 2
    [] pc[p] = "running"   -> 3 * Cardinality(queue[p]) + 1
    [] pc[p] = "loading"   -> 3 * Cardinality(Findings) + 4
    [] pc[p] = "writing"   -> 3 * Cardinality(Findings) + 5
    [] pc[p] = "auditing"  -> 3 * Cardinality(Findings) + 6
    [] OTHER               -> 0

\* Once its ticker has fired, a loop gets nearer to the next wait with whatever
\* step it takes, and nothing that happens elsewhere sets it back: not the
\* scripts that fail, the files that others tear, or the findings that appear.
RoundsEnd ==
  [][\A p \in Loops :
       pc[p] \notin {"waiting", "down"} /\ pc'[p] # "down"
         => UNCHANGED <<pc[p], queue[p]>> \/ StepsLeft(p)' < StepsLeft(p)]_vars

LEMMA QueueCounts ==
  ASSUME TypeOK, NEW p \in Loops
  PROVE  /\ Cardinality(queue[p]) \in 0..Cardinality(Findings)
         /\ \A f \in queue[p] : Cardinality(queue[p] \ {f}) = Cardinality(queue[p]) - 1
PROOF
<1>1. queue[p] \subseteq Findings /\ IsFiniteSet(Findings)
  BY FindingsAssumption DEF TypeOK
<1>2. IsFiniteSet(queue[p]) /\ Cardinality(queue[p]) <= Cardinality(Findings)
  BY <1>1, FS_Subset
<1>3. Cardinality(queue[p]) \in Nat /\ Cardinality(Findings) \in Nat
  BY <1>1, <1>2, FS_CardinalityType
<1>4. \A f \in queue[p] : Cardinality(queue[p] \ {f}) = Cardinality(queue[p]) - 1
  BY <1>2, FS_RemoveElement
<1> QED BY <1>2, <1>3, <1>4

LEMMA StepGetsNearer ==
  ASSUME IInv, TypeOK', NEW p \in Loops, Step(p), pc[p] # "waiting"
  PROVE  StepsLeft(p)' < StepsLeft(p)
PROOF
<1>0. TypeOK /\ pc \in [Loops -> PCs] /\ Cardinality(Findings) \in Nat
  BY FindingsAssumption, FS_CardinalityType DEF IInv, TypeOK
<1>1. /\ Cardinality(queue[p]) \in Nat /\ Cardinality(queue'[p]) \in Nat
      /\ Cardinality(queue[p]) <= Cardinality(Findings)
      /\ Cardinality(queue'[p]) <= Cardinality(Findings)
  <2>1. Cardinality(queue[p]) \in 0..Cardinality(Findings)
    BY <1>0, QueueCounts
  <2>2. queue'[p] \subseteq Findings /\ IsFiniteSet(Findings)
    BY FindingsAssumption DEF TypeOK
  <2>3. IsFiniteSet(queue'[p]) /\ Cardinality(queue'[p]) <= Cardinality(Findings)
    BY <2>2, FS_Subset
  <2> QED BY <1>0, <2>1, <2>3, FS_CardinalityType
<1>2. CASE Tick(p)
  BY <1>2 DEF Tick, Goto
<1>3. CASE AuditorFails(p)
  BY <1>0, <1>3 DEF AuditorFails, StepsLeft
<1>4. CASE AuditorOpens(p) \/ AuditorWrites(p)
  BY <1>0, <1>4 DEF AuditorOpens, AuditorWrites, Goto, StepsLeft
<1>5. CASE Load(p)
  <2>1. pc[p] = "loading" /\ pc'[p] \in {"saving", "executing"}
    BY <1>0, <1>5 DEF Load, Goto
  <2> QED BY <1>0, <1>1, <2>1 DEF StepsLeft
<1>6. CASE ShellCheck(p)
  BY <1>0, <1>6 DEF ShellCheck, Goto, StepsLeft
<1>7. CASE Hold(p)
  <2>1. PICK f \in queue[p] : queue'[p] = queue[p] \ {f}
    BY <1>0, <1>7 DEF Hold, Dealt, TypeOK
  <2>2. Cardinality(queue'[p]) = Cardinality(queue[p]) - 1
    BY <1>0, <2>1, QueueCounts
  <2>3. pc[p] = "executing" /\ pc'[p] = "executing"
    BY <1>7 DEF Hold
  <2> QED BY <1>1, <2>2, <2>3 DEF StepsLeft
<1>8. CASE HandOver(p) \/ WriteFinding(p)
  <2>1. queue' = queue
    BY <1>8 DEF HandOver, WriteFinding
  <2>2. \/ pc[p] = "executing" /\ pc'[p] = "handing"
        \/ pc[p] = "handing" /\ pc'[p] = "running"
    BY <1>0, <1>8 DEF HandOver, WriteFinding, Goto
  <2> QED BY <1>1, <2>1, <2>2 DEF StepsLeft
<1>9. CASE Executor(p) \/ ExecutorFails(p)
  <2>1. pc[p] = "running" /\ pc'[p] = "executing"
    BY <1>0, <1>9 DEF Executor, ExecutorFails, Goto
  <2>2. current[p] \in queue[p]
    BY <2>1 DEF IInv, LoopInv, CurrentIsQueued
  <2>3. queue'[p] = queue[p] \ {current[p]}
    BY <1>0, <1>9 DEF Executor, ExecutorFails, Dealt, TypeOK
  <2>4. Cardinality(queue'[p]) = Cardinality(queue[p]) - 1
    BY <1>0, <2>2, <2>3, QueueCounts
  <2> QED BY <1>1, <2>1, <2>4 DEF StepsLeft
<1>10. CASE FindingsDone(p) \/ OpenState(p) \/ WriteState(p)
  <2>1. \/ pc[p] = "executing" /\ pc'[p] = "saving"
        \/ pc[p] = "saving" /\ pc'[p] = "storing"
        \/ pc[p] = "storing" /\ pc'[p] = "waiting"
    BY <1>0, <1>10 DEF FindingsDone, AllDealtWith, OpenState, WriteState, Goto
  <2> QED BY <1>1, <2>1 DEF StepsLeft
<1> QED BY <1>2, <1>3, <1>4, <1>5, <1>6, <1>7, <1>8, <1>9, <1>10 DEF Step

\* What another loop does leaves the place and the queue of this one alone.
LEMMA OthersSteps ==
  ASSUME IInv, NEW p \in Loops, NEW q \in Loops \ {p}, Step(q) \/ Crash(q) \/ Restart(q)
  PROVE  UNCHANGED <<pc[p], queue[p]>>
PROOF BY DEF IInv, TypeOK, Step, Tick, AuditorFails, AuditorOpens, AuditorWrites, Load,
  ShellCheck, Hold, HandOver, WriteFinding, Executor, ExecutorFails, FindingsDone,
  OpenState, WriteState, Crash, Restart, Goto, Dealt

\* A round that has begun ends: the steps that are left get fewer with each one
\* taken, for any number of findings.
THEOREM RoundsGetNearerToTheirEnd == Spec => RoundsEnd
PROOF
<1>1. ASSUME IInv, IInv', [Next]_vars, NEW p \in Loops,
             pc[p] \notin {"waiting", "down"}, pc'[p] # "down"
      PROVE  UNCHANGED <<pc[p], queue[p]>> \/ StepsLeft(p)' < StepsLeft(p)
  <2>1. ASSUME Step(p) PROVE StepsLeft(p)' < StepsLeft(p)
    BY <1>1, <2>1, StepGetsNearer DEF IInv
  <2>2. ~Crash(p) /\ ~Restart(p)
    BY <1>1 DEF Crash, Restart, Goto, IInv, TypeOK
  <2>3. ASSUME NEW q \in Loops \ {p}, Step(q) \/ Crash(q) \/ Restart(q)
        PROVE  UNCHANGED <<pc[p], queue[p]>>
    BY <1>1, <2>3, OthersSteps
  <2>4. CASE RepositoryChanges \/ OrphanStep \/ UNCHANGED vars
    BY <2>4, OrphanFrame DEF RepositoryChanges, vars
  <2> QED BY <1>1, <2>1, <2>2, <2>3, <2>4 DEF Next, OrphanStep
<1>2. IInv /\ IInv' /\ [Next]_vars
        => [\A p \in Loops :
              pc[p] \notin {"waiting", "down"} /\ pc'[p] # "down"
                => UNCHANGED <<pc[p], queue[p]>> \/ StepsLeft(p)' < StepsLeft(p)]_vars
  BY <1>1
<1> QED BY <1>2, LoopInvariant, PTL DEF Spec, RoundsEnd
=============================================================================
