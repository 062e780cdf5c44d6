------------------------- MODULE WorkflowEngine_proofs -------------------------
(***************************************************************************)
(* Type correctness of WorkflowEngine, that active tasks have runs and that*)
(* only cancelled runs are called so, for any goroutines, runs and polls.  *)
(***************************************************************************)
EXTENDS WorkflowEngine, TLAPS

\* What makes them inductive: a run that was created has an ID, its own or
\* none; a run is kept under its ID; a task to be registered has a run.
Keyed ==
  \A r \in Runs : /\ keyOf[r] \in {r, Zero, NoRun}
                  /\ keyOf[r] # NoRun => remote[r] # "absent"
KeptUnderKey == \A k \in Keys : runs[k] # NoRun => keyOf[runs[k]] = k
TaskHasRun(r) == r # NoRun /\ keyOf[r] # NoRun /\ runs[keyOf[r]] # NoRun
Registering == \A c \in Callers : pc[c] = "register" => TaskHasRun(task[c])
ActiveKept == \A k \in Keys : active[k] # NoRun => keyOf[active[k]] = k /\ runs[k] # NoRun
PollsFound ==
  \A c \in Callers :
    /\ pc[c] \in {"status", "store"} => TaskHasRun(task[c])
    /\ pc[c] = "store" => answer[c] # "not_found"

RunsInv == Keyed /\ KeptUnderKey
EngineInv ==
  TypeOK /\ RunsInv /\ Registering /\ ActiveKept /\ PollsFound /\ CancelledIsReal

-----------------------------------------------------------------------------
(* Types.                                                                  *)

MapTypes ==
  /\ keyOf \in [Runs -> Keys \cup {NoRun}]
  /\ runs \in [Keys -> Runs \cup {NoRun}]
  /\ runStatus \in [Runs -> RunStatus]
  /\ active \in [Keys -> Runs \cup {NoRun}]
  /\ taskStatus \in [Runs -> TaskStatus]

LocalTypes ==
  /\ key \in [Callers -> Keys]
  /\ task \in [Callers -> Runs \cup {NoRun}]
  /\ polls \in [Callers -> 0..MaxPolls]
  /\ answer \in [Callers -> Answer]

SharedTypes ==
  /\ remote \in [Runs -> Alive \cup Over \cup {"absent"}]
  /\ mu \in Callers \cup {NoCaller}
  /\ pc \in [Callers -> PCs]

LEMMA TypeParts == TypeOK <=> MapTypes /\ LocalTypes /\ SharedTypes
BY DEF TypeOK, MapTypes, LocalTypes, SharedTypes

\* A returning call keeps the types of its locals.
LEMMA ReturnTypes ==
  ASSUME LocalTypes, SharedTypes, NEW c \in Callers, NEW from, Return(c, from)
  PROVE  LocalTypes' /\ pc' \in [Callers -> PCs]
<1>1. Zero \in Keys /\ 0 \in 0..MaxPolls /\ "none" \in Answer
  BY EngineAssumption DEF Keys, Answer
<1>2. answer' \in [Callers -> Answer] /\ polls' \in [Callers -> 0..MaxPolls]
  BY <1>1 DEF LocalTypes, Return
<1>3. key' \in [Callers -> Keys] /\ task' \in [Callers -> Runs \cup {NoRun}]
  BY <1>1 DEF LocalTypes, Return
<1>4. pc' \in [Callers -> PCs]
  BY DEF SharedTypes, Return, Goto, PCs
<1>5. QED
  BY <1>2, <1>3, <1>4 DEF LocalTypes

\* A call that moves on inside keeps the type of its place.
LEMMA GotoTypes ==
  ASSUME SharedTypes, NEW c \in Callers, NEW from, NEW to \in PCs, Goto(c, from, to)
  PROVE  pc' \in [Callers -> PCs]
BY DEF SharedTypes, Goto

\* A poll reports one of the statuses, and leaves the runs' as they are.
LEMMA RefreshKeeps ==
  ASSUME TypeOK, NEW k \in Keys, Refresh(k)
  PROVE  runStatus' = runStatus
BY DEF TypeOK, Refresh, Refreshed, UrlParses

LEMMA AnswerTypes ==
  ASSUME TypeOK, NEW k \in Keys
  PROVE  /\ GetRunStatus(k) \in Answer
         /\ runs[k] # NoRun => GetRunStatus(k) # "not_found"
<1>1. CASE runs[k] = NoRun
  BY <1>1 DEF GetRunStatus, Answer
<1>2. CASE runs[k] # NoRun
  <2>1. runStatus[runs[k]] \in RunStatus
    BY <1>2 DEF TypeOK
  <2>2. QED
    BY <1>2, <2>1 DEF GetRunStatus, Refreshed, UrlParses, RunStatus, Answer
<1>3. QED
  BY <1>1, <1>2

\* GitHub's part of a step.
LEMMA CreatedTypes ==
  ASSUME SharedTypes, NEW r \in Runs, Created(r)
  PROVE  remote' \in [Runs -> Alive \cup Over \cup {"absent"}]
BY DEF SharedTypes, Created, Alive

LEMMA CancelledTypes ==
  ASSUME SharedTypes, NEW k, remote' = [remote EXCEPT ![k] = "cancelled"]
  PROVE  remote' \in [Runs -> Alive \cup Over \cup {"absent"}]
BY DEF SharedTypes, Over

LEMMA TypeStep == EngineInv /\ [Next]_vars => TypeOK'
<1> SUFFICES ASSUME EngineInv, [Next]_vars PROVE TypeOK'
  OBVIOUS
<1> USE DEF EngineInv
<1>0. MapTypes /\ LocalTypes /\ SharedTypes
  BY TypeParts
<1>1. CASE GitHub
  <2>1. remote' \in [Runs -> Alive \cup Over \cup {"absent"}]
    BY <1>0, <1>1 DEF GitHub, SharedTypes, Over
  <2>2. QED
    BY <1>1, <2>1 DEF GitHub, TypeOK, mapVars, localVars
<1>2. ASSUME NEW c \in Callers, Call(c) PROVE TypeOK'
  <2>1. PICK op \in {"dispatch", "block", "lookup", "cancel", "pollrun"}, k \in Keys :
          pc' = [pc EXCEPT ![c] = op] /\ key' = [key EXCEPT ![c] = k]
    BY <1>2 DEF Call
  <2>2. pc' \in [Callers -> PCs]
    BY <1>0, <2>1 DEF SharedTypes, PCs
  <2>3. key' \in [Callers -> Keys]
    BY <1>0, <2>1 DEF LocalTypes
  <2>4. QED
    BY <1>2, <2>2, <2>3 DEF Call, TypeOK, mapVars
<1>3. ASSUME NEW c \in Callers, Dispatch(c) PROVE TypeOK'
  <2>1. PICK r \in Runs, k \in Keys :
          /\ Created(r)
          /\ keyOf' = [keyOf EXCEPT ![r] = k]
          /\ runs' = [runs EXCEPT ![k] = r]
          /\ runStatus' = [runStatus EXCEPT ![r] = "queued"]
          /\ task' = [task EXCEPT ![c] = r]
    BY <1>3 DEF Dispatch
  <2>2. MapTypes'
    BY <1>0, <1>3, <2>1 DEF MapTypes, Dispatch, RunStatus
  <2>3. task' \in [Callers -> Runs \cup {NoRun}]
    BY <1>0, <2>1 DEF LocalTypes
  <2>4. LocalTypes'
    BY <1>0, <1>3, <2>3 DEF LocalTypes, Dispatch
  <2>5. pc' \in [Callers -> PCs]
    BY <1>0, <1>3, GotoTypes DEF Dispatch, PCs
  <2>6. SharedTypes'
    BY <1>0, <1>3, <2>1, <2>5, CreatedTypes DEF SharedTypes, Dispatch
  <2>7. QED
    BY <2>2, <2>4, <2>6, TypeParts DEF TypeOK, MapTypes, LocalTypes, SharedTypes
<1>4. ASSUME NEW c \in Callers, DispatchFails(c) PROVE TypeOK'
  <2>1. LocalTypes' /\ pc' \in [Callers -> PCs]
    BY <1>0, <1>4, ReturnTypes DEF DispatchFails
  <2>2. remote' \in [Runs -> Alive \cup Over \cup {"absent"}]
    BY <1>0, <1>4, CreatedTypes DEF DispatchFails, SharedTypes
  <2>3. QED
    BY <1>0, <1>4, <2>1, <2>2 DEF DispatchFails, TypeOK, MapTypes, LocalTypes,
       SharedTypes, mapVars
<1>5. ASSUME NEW c \in Callers, Register(c) PROVE TypeOK'
  <2>1. LocalTypes' /\ pc' \in [Callers -> PCs]
    BY <1>0, <1>5, ReturnTypes DEF Register
  <2>2. task[c] \in Runs
    BY <1>0, <1>5 DEF Register, Return, Goto, Registering, TaskHasRun, LocalTypes
  <2>3. active' \in [Keys -> Runs \cup {NoRun}]
    BY <1>0, <1>5, <2>2 DEF Register, MapTypes
  <2>4. taskStatus' \in [Runs -> TaskStatus]
    BY <1>0, <1>5 DEF Register, MapTypes, TaskStatus
  <2>5. QED
    BY <1>0, <1>5, <2>1, <2>3, <2>4 DEF Register, TypeOK, MapTypes, LocalTypes, SharedTypes
<1>6. ASSUME NEW c \in Callers, Block(c) PROVE TypeOK'
  <2>1. LocalTypes' /\ pc' \in [Callers -> PCs]
    BY <1>0, <1>6, ReturnTypes DEF Block
  <2>2. active' \in [Keys -> Runs \cup {NoRun}]
    BY <1>6 DEF Block
  <2>3. taskStatus' \in [Runs -> TaskStatus]
    BY <1>0, <1>6 DEF Block, MapTypes, TaskStatus, RunStatus
  <2>4. QED
    BY <1>0, <1>6, <2>1, <2>2, <2>3 DEF Block, TypeOK, MapTypes, LocalTypes, SharedTypes
<1>7. ASSUME NEW c \in Callers, PollNotFound(c) \/ CancelUnknown(c) \/ Deadline(c)
      PROVE  TypeOK'
  <2>1. LocalTypes' /\ pc' \in [Callers -> PCs]
    BY <1>0, <1>7, ReturnTypes DEF PollNotFound, CancelUnknown, Deadline
  <2>2. QED
    BY <1>0, <1>7, <2>1 DEF PollNotFound, CancelUnknown, Deadline, TypeOK, MapTypes,
       LocalTypes, SharedTypes, mapVars
<1>8. ASSUME NEW c \in Callers, PollFound(c) PROVE TypeOK'
  <2>1. pc' \in [Callers -> PCs]
    BY <1>0, <1>8, GotoTypes DEF PollFound, PCs
  <2>2. task' \in [Callers -> Runs \cup {NoRun}]
    BY <1>0, <1>8 DEF PollFound, LocalTypes, MapTypes
  <2>3. QED
    BY <1>8, <2>1, <2>2 DEF PollFound, TypeOK, mapVars
<1>9. ASSUME NEW c \in Callers, PollRunStatus(c) PROVE TypeOK'
  <2>1. pc' \in [Callers -> PCs]
    BY <1>0, <1>9, GotoTypes DEF PollRunStatus, PCs
  <2>2. task[c] \in Runs /\ keyOf[task[c]] \in Keys
    BY <1>0, <1>9 DEF PollRunStatus, Goto, PollsFound, TaskHasRun, LocalTypes, MapTypes
  <2>3. answer' \in [Callers -> Answer]
    BY <1>0, <1>9, <2>2, AnswerTypes DEF PollRunStatus, LocalTypes
  <2>4. runStatus' = runStatus
    BY <1>9, <2>2, RefreshKeeps DEF PollRunStatus
  <2>5. QED
    BY <1>9, <2>1, <2>3, <2>4 DEF PollRunStatus, TypeOK
<1>10. ASSUME NEW c \in Callers, PollStore(c) PROVE TypeOK'
  <2>1. LocalTypes' /\ pc' \in [Callers -> PCs]
    BY <1>0, <1>10, ReturnTypes DEF PollStore
  <2>2. taskStatus' \in [Runs -> TaskStatus]
    BY <1>0, <1>10 DEF PollStore, MapTypes, LocalTypes, TaskStatus, Answer
  <2>3. QED
    BY <1>0, <1>10, <2>1, <2>2 DEF PollStore, TypeOK, MapTypes, LocalTypes, SharedTypes
<1>11. ASSUME NEW c \in Callers, CancelKnown(c) PROVE TypeOK'
  <2>1. pc' \in [Callers -> PCs]
    BY <1>0, <1>11, GotoTypes DEF CancelKnown, PCs
  <2>2. taskStatus' \in [Runs -> TaskStatus]
    BY <1>0, <1>11 DEF CancelKnown, MapTypes, TaskStatus, RunStatus
  <2>3. QED
    BY <1>11, <2>1, <2>2 DEF CancelKnown, TypeOK, localVars
<1>12. ASSUME NEW c \in Callers, CancelRefused(c) PROVE TypeOK'
  <2>1. LocalTypes' /\ pc' \in [Callers -> PCs]
    BY <1>0, <1>12, ReturnTypes DEF CancelRefused
  <2>2. remote' \in [Runs -> Alive \cup Over \cup {"absent"}]
    BY <1>0, <1>12, CancelledTypes DEF CancelRefused, SharedTypes
  <2>3. QED
    BY <1>0, <1>12, <2>1, <2>2 DEF CancelRefused, MarkedIfRefused, Unlocked, TypeOK,
       MapTypes, LocalTypes, SharedTypes
<1>13. ASSUME NEW c \in Callers, CancelAccepted(c) PROVE TypeOK'
  <2>1. LocalTypes' /\ pc' \in [Callers -> PCs]
    BY <1>0, <1>13, ReturnTypes DEF CancelAccepted
  <2>2. remote' \in [Runs -> Alive \cup Over \cup {"absent"}]
    BY <1>0, <1>13, CancelledTypes DEF CancelAccepted
  <2>3. runStatus' \in [Runs -> RunStatus]
    BY <1>0, <1>13 DEF CancelAccepted, MapTypes, RunStatus
  <2>4. QED
    BY <1>0, <1>13, <2>1, <2>2, <2>3 DEF CancelAccepted, TypeOK, MapTypes, LocalTypes,
       SharedTypes
<1>14. ASSUME NEW c \in Callers, PollRunReturns(c) PROVE TypeOK'
  <2>1. LocalTypes' /\ pc' \in [Callers -> PCs]
    BY <1>0, <1>14, ReturnTypes DEF PollRunReturns
  <2>2. runStatus' = runStatus
    BY <1>0, <1>14, RefreshKeeps DEF PollRunReturns, LocalTypes
  <2>3. QED
    BY <1>0, <1>14, <2>1, <2>2 DEF PollRunReturns, TypeOK, MapTypes, LocalTypes, SharedTypes
<1>15. ASSUME NEW c \in Callers, PollRunSleeps(c) PROVE TypeOK'
  <2>1. polls' \in [Callers -> 0..MaxPolls]
    BY <1>0, <1>15, EngineAssumption DEF PollRunSleeps, LocalTypes
  <2>2. runStatus' = runStatus
    BY <1>0, <1>15, RefreshKeeps DEF PollRunSleeps, LocalTypes
  <2>3. QED
    BY <1>15, <2>1, <2>2 DEF PollRunSleeps, TypeOK
<1>16. CASE UNCHANGED vars
  BY <1>16 DEF TypeOK, vars, mapVars, localVars
<1>17. QED
  BY <1>1, <1>2, <1>3, <1>4, <1>5, <1>6, <1>7, <1>8, <1>9, <1>10, <1>11, <1>12, <1>13,
     <1>14, <1>15, <1>16 DEF Next, Working

-----------------------------------------------------------------------------
(* What no step takes back.                                                *)

\* Nobody but GitHub decides what becomes of a run: it stays once it is made,
\* and stays cancelled.
LEMMA RemoteGrows ==
  ASSUME TypeOK, [Next]_vars, NEW r \in Runs
  PROVE  /\ remote[r] # "absent" => remote'[r] # "absent"
         /\ remote[r] = "cancelled" => remote'[r] = "cancelled"
<1>1. CASE UNCHANGED remote
  BY <1>1
<1>2. CASE \E q \in Runs : Created(q)
  BY <1>2 DEF Created, TypeOK
<1>3. CASE GitHub
  BY <1>3 DEF GitHub, TypeOK
<1>4. ASSUME NEW k, remote' = [remote EXCEPT ![k] = "cancelled"]
      PROVE  /\ remote[r] # "absent" => remote'[r] # "absent"
             /\ remote[r] = "cancelled" => remote'[r] = "cancelled"
  BY <1>4 DEF TypeOK
<1>5. \/ UNCHANGED remote \/ (\E q \in Runs : Created(q)) \/ GitHub
      \/ \E k : remote' = [remote EXCEPT ![k] = "cancelled"]
  BY DEF Next, Working, vars, Call, Dispatch, DispatchFails, Register, Block,
     PollNotFound, PollFound, PollRunStatus, PollStore, CancelUnknown, CancelKnown,
     CancelRefused, CancelAccepted, PollRunReturns, PollRunSleeps, Deadline
<1>6. QED
  BY <1>1, <1>2, <1>3, <1>4, <1>5

\* Only a dispatch changes which runs there are and under which IDs.
LEMMA OnlyDispatchKeys ==
  ASSUME [Next]_vars
  PROVE  UNCHANGED <<keyOf, runs>> \/ \E c \in Callers : Dispatch(c)
BY DEF Next, Working, vars, mapVars, GitHub, Call, DispatchFails, Register, Block,
   PollNotFound, PollFound, PollRunStatus, PollStore, CancelUnknown, CancelKnown,
   CancelRefused, CancelAccepted, PollRunReturns, PollRunSleeps, Deadline

\* A run that has an ID keeps it, and the entry under that ID stays filled.
LEMMA RunsStay ==
  ASSUME TypeOK, Keyed, [Next]_vars
  PROVE  /\ \A r \in Runs : keyOf[r] # NoRun => keyOf'[r] = keyOf[r]
         /\ \A k \in Keys : runs[k] # NoRun => runs'[k] # NoRun
<1>1. ASSUME NEW c \in Callers, Dispatch(c)
      PROVE  /\ \A r \in Runs : keyOf[r] # NoRun => keyOf'[r] = keyOf[r]
             /\ \A k \in Keys : runs[k] # NoRun => runs'[k] # NoRun
  <2>1. PICK r \in Runs, k \in Keys :
          /\ Created(r)
          /\ keyOf' = [keyOf EXCEPT ![r] = k]
          /\ runs' = [runs EXCEPT ![k] = r]
    BY <1>1 DEF Dispatch, Keys
  <2>2. keyOf[r] = NoRun
    BY <2>1 DEF Created, Keyed
  <2>3. r # NoRun
    BY EngineAssumption DEF Keys
  <2>4. QED
    BY <2>1, <2>2, <2>3 DEF TypeOK
<1>2. QED
  BY <1>1, OnlyDispatchKeys

LEMMA HasRunStays ==
  ASSUME TypeOK, Keyed, [Next]_vars, NEW r \in Runs \cup {NoRun}, TaskHasRun(r)
  PROVE  TaskHasRun(r)'
<1>1. r \in Runs /\ keyOf[r] \in Keys
  BY DEF TaskHasRun, TypeOK
<1>2. QED
  BY <1>1, RunsStay DEF TaskHasRun

-----------------------------------------------------------------------------
(* The invariants.                                                         *)

LEMMA KeyedStep == TypeOK /\ RunsInv /\ [Next]_vars => RunsInv'
<1> SUFFICES ASSUME TypeOK, RunsInv, [Next]_vars PROVE RunsInv'
  OBVIOUS
<1>1. CASE UNCHANGED <<keyOf, runs>>
  BY <1>1, RemoteGrows DEF RunsInv, Keyed, KeptUnderKey
<1>2. ASSUME NEW c \in Callers, Dispatch(c) PROVE RunsInv'
  <2>1. PICK r \in Runs, k \in Keys :
          /\ Created(r) /\ k \in {r, Zero}
          /\ keyOf' = [keyOf EXCEPT ![r] = k]
          /\ runs' = [runs EXCEPT ![k] = r]
    BY <1>2 DEF Dispatch
  <2>2. remote'[r] # "absent"
    BY <2>1 DEF Created, TypeOK
  <2>3. Keyed'
    BY <2>1, <2>2, RemoteGrows DEF RunsInv, Keyed, TypeOK
  <2>4. keyOf[r] = NoRun
    BY <2>1 DEF RunsInv, Keyed, Created
  <2>5. ASSUME NEW j \in Keys, runs'[j] # NoRun PROVE keyOf'[runs'[j]] = j
    <3>1. CASE j = k
      BY <2>1, <2>5, <3>1 DEF TypeOK
    <3>2. CASE j # k
      <4>1. runs'[j] = runs[j]
        BY <2>1, <3>2 DEF TypeOK
      <4>2. keyOf[runs[j]] = j /\ j # NoRun /\ runs[j] \in Runs
        BY <2>5, <4>1, EngineAssumption DEF RunsInv, KeptUnderKey, TypeOK
      <4>3. QED
        BY <2>1, <2>4, <4>1, <4>2 DEF TypeOK
    <3>3. QED
      BY <3>1, <3>2
  <2>6. QED
    BY <2>3, <2>5 DEF RunsInv, KeptUnderKey
<1>3. QED
  BY <1>1, <1>2, OnlyDispatchKeys

\* A step of one goroutine leaves the places of the others alone.
LEMMA OnePlace ==
  ASSUME TypeOK, NEW d \in Callers, pc'[d] # pc[d], [Next]_vars
  PROVE  Call(d) \/ Working(d)
<1>1. ASSUME NEW c \in Callers, Call(c), d # c PROVE FALSE
  BY <1>1 DEF Call, TypeOK
<1>2. ASSUME NEW c \in Callers, Working(c), d # c PROVE FALSE
  BY <1>2 DEF Working, TypeOK, Dispatch, DispatchFails, Register, Block, PollNotFound,
     PollFound, PollRunStatus, PollStore, CancelUnknown, CancelKnown, CancelRefused,
     CancelAccepted, PollRunReturns, PollRunSleeps, Deadline, Goto, Return
<1>3. ~GitHub /\ ~UNCHANGED vars
  BY DEF GitHub, vars
<1>4. QED
  BY <1>1, <1>2, <1>3 DEF Next

\* While a call stays where it is, it keeps its task, and its answer.
LEMMA TaskStays ==
  ASSUME TypeOK, NEW d \in Callers, pc'[d] = pc[d], [Next]_vars, pc[d] # "idle"
  PROVE  task'[d] = task[d] /\ answer'[d] = answer[d]
<1>1. ASSUME NEW c \in Callers, Working(c)
      PROVE  task'[d] = task[d] /\ answer'[d] = answer[d]
  <2>1. CASE c # d
    BY <1>1, <2>1 DEF Working, TypeOK, Dispatch, DispatchFails, Register, Block,
       PollNotFound, PollFound, PollRunStatus, PollStore, CancelUnknown, CancelKnown,
       CancelRefused, CancelAccepted, PollRunReturns, PollRunSleeps, Deadline, Goto,
       Return, localVars
  <2>2. CASE c = d
    <3>1. PollRunSleeps(c)
      BY <1>1, <2>2 DEF Working, TypeOK, Dispatch, DispatchFails, Register, Block,
         PollNotFound, PollFound, PollRunStatus, PollStore, CancelUnknown, CancelKnown,
         CancelRefused, CancelAccepted, PollRunReturns, Deadline, Goto, Return
    <3>2. QED
      BY <3>1 DEF PollRunSleeps
  <2>3. QED
    BY <2>1, <2>2
<1>2. QED
  BY <1>1 DEF Next, Call, GitHub, vars, localVars

LEMMA RegisteringStep ==
  TypeOK /\ Keyed /\ Registering /\ [Next]_vars => Registering'
<1> SUFFICES ASSUME TypeOK, Keyed, Registering, [Next]_vars,
                    NEW d \in Callers, pc'[d] = "register"
             PROVE  TaskHasRun(task[d])'
  BY DEF Registering
<1>1. CASE pc[d] = "register"
  <2>1. task'[d] = task[d] /\ TaskHasRun(task[d]) /\ task[d] \in Runs \cup {NoRun}
    BY <1>1, TaskStays DEF Registering, TypeOK
  <2>2. QED
    BY <2>1, HasRunStays DEF TaskHasRun
<1>2. CASE pc[d] # "register"
  <2>1. Dispatch(d)
    BY SMTT(20), <1>2, OnePlace DEF Call, Working, TypeOK, Dispatch, DispatchFails, Register, Block,
       PollNotFound, PollFound, PollRunStatus, PollStore, CancelUnknown, CancelKnown,
       CancelRefused, CancelAccepted, PollRunReturns, PollRunSleeps, Deadline, Goto, Return
  <2>2. PICK r \in Runs, k \in Keys :
          /\ keyOf' = [keyOf EXCEPT ![r] = k]
          /\ runs' = [runs EXCEPT ![k] = r]
          /\ task' = [task EXCEPT ![d] = r]
    BY <2>1 DEF Dispatch
  <2>3. task'[d] = r /\ keyOf'[r] = k /\ runs'[k] = r
    BY <2>2 DEF TypeOK
  <2>4. QED
    BY <2>3, EngineAssumption DEF TaskHasRun, Keys
<1>3. QED
  BY <1>1, <1>2

LEMMA ActiveKeptStep ==
  TypeOK /\ Keyed /\ Registering /\ ActiveKept /\ [Next]_vars => ActiveKept'
<1> SUFFICES ASSUME TypeOK, Keyed, Registering, ActiveKept, [Next]_vars,
                    NEW k \in Keys, active'[k] # NoRun
             PROVE  keyOf'[active'[k]] = k /\ runs'[k] # NoRun
  BY DEF ActiveKept
<1>1. CASE active'[k] = active[k]
  <2>1. active[k] \in Runs /\ keyOf[active[k]] = k /\ runs[k] # NoRun /\ k # NoRun
    BY <1>1, EngineAssumption DEF TypeOK, ActiveKept
  <2>2. QED
    BY <1>1, <2>1, RunsStay
<1>2. CASE active'[k] # active[k]
  <2>1. PICK c \in Callers : Register(c)
    BY <1>2 DEF Next, Working, vars, mapVars, GitHub, Call, Dispatch, DispatchFails, Block,
       PollNotFound, PollFound, PollRunStatus, PollStore, CancelUnknown, CancelKnown,
       CancelRefused, CancelAccepted, PollRunReturns, PollRunSleeps, Deadline
  <2>2. TaskHasRun(task[c])
    BY <2>1 DEF Register, Return, Goto, Registering
  <2>3. keyOf[task[c]] = k /\ active'[k] = task[c]
    BY <1>2, <2>1 DEF Register, EntryOf, TypeOK
  <2>4. UNCHANGED <<keyOf, runs>>
    BY <2>1 DEF Register
  <2>5. QED
    BY <2>2, <2>3, <2>4 DEF TaskHasRun
<1>3. QED
  BY <1>1, <1>2

LEMMA PollsFoundStep ==
  TypeOK /\ Keyed /\ ActiveKept /\ PollsFound /\ [Next]_vars => PollsFound'
<1> SUFFICES ASSUME TypeOK, Keyed, ActiveKept, PollsFound, [Next]_vars,
                    NEW d \in Callers, pc'[d] \in {"status", "store"}
             PROVE  TaskHasRun(task[d])' /\ (pc'[d] = "store" => answer'[d] # "not_found")
  BY DEF PollsFound
<1>1. CASE pc'[d] = pc[d]
  <2>1. task'[d] = task[d] /\ answer'[d] = answer[d]
    BY <1>1, TaskStays
  <2>2. TaskHasRun(task[d]) /\ task[d] \in Runs \cup {NoRun}
    BY <1>1 DEF PollsFound, TypeOK
  <2>3. TaskHasRun(task[d])'
    BY <2>1, <2>2, HasRunStays DEF TaskHasRun
  <2>4. QED
    BY <1>1, <2>1, <2>3 DEF PollsFound
<1>2. CASE pc'[d] # pc[d]
  <2>1. PollFound(d) \/ PollRunStatus(d)
    BY <1>2, OnePlace DEF Call, Working, TypeOK, Dispatch, DispatchFails, Register, Block,
       PollNotFound, PollFound, PollRunStatus, PollStore, CancelUnknown, CancelKnown,
       CancelRefused, CancelAccepted, PollRunReturns, PollRunSleeps, Deadline, Goto, Return
  <2>2. CASE PollFound(d)
    <3>1. task'[d] = active[key[d]] /\ key[d] \in Keys /\ active[key[d]] # NoRun
      BY <2>2 DEF PollFound, TypeOK
    <3>2. UNCHANGED <<keyOf, runs>> /\ pc'[d] = "status"
      BY <2>2 DEF PollFound, Goto, TypeOK, mapVars
    <3>3. QED
      BY <3>1, <3>2, EngineAssumption DEF ActiveKept, TaskHasRun
  <2>3. CASE PollRunStatus(d)
    <3>1. pc[d] = "status" /\ UNCHANGED <<keyOf, runs, task>>
      BY <2>3 DEF PollRunStatus, Goto
    <3>2. TaskHasRun(task[d]) /\ keyOf[task[d]] \in Keys
      BY <3>1 DEF PollsFound, TaskHasRun, TypeOK
    <3>3. answer'[d] # "not_found"
      BY <2>3, <3>2, AnswerTypes DEF PollRunStatus, TaskHasRun, TypeOK
    <3>4. QED
      BY <3>1, <3>2, <3>3 DEF TaskHasRun
  <2>4. QED
    BY <2>1, <2>2, <2>3
<1>3. QED
  BY <1>1, <1>2

LEMMA CancelledStep ==
  EngineInv /\ [Next]_vars => CancelledIsReal'
<1> SUFFICES ASSUME EngineInv, [Next]_vars, NEW r \in Runs, runStatus'[r] = "cancelled"
             PROVE  remote'[r] = "cancelled"
  BY DEF CancelledIsReal
<1> USE DEF EngineInv
<1>1. CASE runStatus'[r] = runStatus[r]
  BY <1>1, RemoteGrows DEF CancelledIsReal
<1>2. CASE runStatus'[r] # runStatus[r]
  <2>1. ASSUME NEW c \in Callers, Dispatch(c) PROVE FALSE
    BY <1>2, <2>1 DEF Dispatch, TypeOK
  <2>2. ASSUME NEW c \in Callers, PollRunStatus(c) PROVE FALSE
    <3>1. keyOf[task[c]] \in Keys
      BY <2>2 DEF PollRunStatus, Goto, PollsFound, TaskHasRun, TypeOK
    <3>2. QED
      BY <1>2, <2>2, <3>1, RefreshKeeps DEF PollRunStatus
  <2>3. ASSUME NEW c \in Callers, PollRunReturns(c) \/ PollRunSleeps(c) PROVE FALSE
    BY <1>2, <2>3, RefreshKeeps DEF PollRunReturns, PollRunSleeps, TypeOK
  <2>4. PICK c \in Callers : CancelAccepted(c)
    BY <1>2, <2>1, <2>2, <2>3 DEF Next, Working, vars, mapVars, GitHub, Call,
       DispatchFails, Register, Block, PollNotFound, PollFound, PollStore, CancelUnknown,
       CancelKnown, CancelRefused, MarkedIfRefused, Deadline
  <2>5. key[c] \in Runs /\ runs[key[c]] # NoRun /\ r = runs[key[c]]
    BY <1>2, <2>4 DEF CancelAccepted, TypeOK
  <2>6. keyOf[r] = key[c] /\ keyOf[r] \in {r, Zero, NoRun}
    BY <2>5 DEF RunsInv, KeptUnderKey, Keyed, Keys
  <2>7. r = key[c]
    BY <2>5, <2>6, EngineAssumption DEF Keys
  <2>8. QED
    BY <2>4, <2>7 DEF CancelAccepted, TypeOK
<1>3. QED
  BY <1>1, <1>2

-----------------------------------------------------------------------------

\* The bookkeeping of the engine and its dispatcher agrees in every state.
THEOREM EngineInvariant == Spec => []EngineInv
<1>1. Init => EngineInv
  <2> SUFFICES ASSUME Init PROVE EngineInv
    OBVIOUS
  <2>1. TypeOK
    BY EngineAssumption DEF Init, TypeOK, Keys, RunStatus, TaskStatus, Answer, PCs
  <2>2. QED
    BY <2>1 DEF Init, EngineInv, RunsInv, Keyed, KeptUnderKey, Registering, ActiveKept,
       PollsFound, CancelledIsReal
<1>2. EngineInv /\ [Next]_vars => EngineInv'
  <2>1. EngineInv /\ [Next]_vars => TypeOK' /\ CancelledIsReal'
    BY TypeStep, CancelledStep
  <2>2. EngineInv /\ [Next]_vars => RunsInv' /\ Registering' /\ ActiveKept' /\ PollsFound'
    BY KeyedStep, RegisteringStep, ActiveKeptStep, PollsFoundStep DEF EngineInv, RunsInv
  <2>3. QED
    BY <2>1, <2>2 DEF EngineInv
<1>3. QED
  BY <1>1, <1>2, PTL DEF Spec

\* Every variable of the engine, the dispatcher and the calls keeps its type.
THEOREM EngineTypes == Spec => []TypeOK
<1>1. EngineInv => TypeOK
  BY DEF EngineInv
<1>2. QED
  BY <1>1, EngineInvariant, PTL

\* An active task is kept under its own ID and has a run, and a poll that has
\* found its task finds the run: the two maps, written under two locks, agree.
THEOREM ActiveTasksHaveRuns == Spec => []ActiveHasRun
<1>1. EngineInv => ActiveHasRun
  BY DEF EngineInv, ActiveKept, PollsFound, TaskHasRun, ActiveHasRun
<1>2. QED
  BY <1>1, EngineInvariant, PTL

\* The dispatcher calls a run cancelled only when GitHub cancelled it.
THEOREM CancelledRunsAreCancelled == Spec => []CancelledIsReal
<1>1. EngineInv => CancelledIsReal
  BY DEF EngineInv
<1>2. QED
  BY <1>1, EngineInvariant, PTL

-----------------------------------------------------------------------------
(* What the end of a call rests on.                                        *)

\* e.mu is held across a request by the one call that is cancelling, and by
\* nobody else: no path out of Cancel keeps it.
LockIsCancelling ==
  \A c \in Callers : mu = c <=> pc[c] = "cancelling"

LEMMA LockStep == TypeOK /\ LockIsCancelling /\ [Next]_vars => LockIsCancelling'
<1> SUFFICES ASSUME TypeOK, LockIsCancelling, [Next]_vars PROVE LockIsCancelling'
  OBVIOUS
<1>1. pc \in [Callers -> PCs] /\ NoCaller \notin Callers
  BY EngineAssumption DEF TypeOK
<1>2. ASSUME UNCHANGED mu, NEW c \in Callers, NEW from, NEW to, Goto(c, from, to),
             from # "cancelling", to # "cancelling"
      PROVE  LockIsCancelling'
  BY <1>1, <1>2 DEF Goto, LockIsCancelling
<1>3. ASSUME NEW c \in Callers, Call(c) PROVE LockIsCancelling'
  BY <1>1, <1>3 DEF Call, LockIsCancelling
<1>4. ASSUME NEW c \in Callers,
             \/ Dispatch(c) \/ DispatchFails(c) \/ Register(c) \/ Block(c)
             \/ PollNotFound(c) \/ PollFound(c) \/ PollRunStatus(c) \/ PollStore(c)
             \/ CancelUnknown(c) \/ PollRunReturns(c) \/ Deadline(c)
      PROVE  LockIsCancelling'
  BY <1>2, <1>4 DEF Dispatch, DispatchFails, Register, Block, PollNotFound, PollFound,
     PollRunStatus, PollStore, CancelUnknown, PollRunReturns, Deadline, Return
<1>5. ASSUME NEW c \in Callers, CancelKnown(c) PROVE LockIsCancelling'
  <2>1. mu = NoCaller /\ mu' = c /\ Goto(c, "cancel", "cancelling")
    BY <1>5 DEF CancelKnown
  <2>2. QED
    BY <1>1, <2>1 DEF Goto, LockIsCancelling
<1>6. ASSUME NEW c \in Callers, CancelRefused(c) \/ CancelAccepted(c) PROVE LockIsCancelling'
  <2>1. mu' = NoCaller /\ Goto(c, "cancelling", "idle")
    BY <1>6 DEF CancelRefused, CancelAccepted, Return, Unlocked
  <2>2. \A d \in Callers : d # c => pc[d] # "cancelling"
    BY <2>1 DEF Goto, LockIsCancelling
  <2>3. QED
    BY <1>1, <2>1, <2>2 DEF Goto, LockIsCancelling
<1>7. CASE GitHub \/ UNCHANGED vars \/ \E c \in Callers : PollRunSleeps(c)
  BY <1>7 DEF GitHub, vars, PollRunSleeps, LockIsCancelling
<1>8. QED
  BY <1>3, <1>4, <1>5, <1>6, <1>7 DEF Next, Working

\* Whoever finds the lock taken waits for one answer of GitHub only.
THEOREM LockIsHeldForOneRequest == Spec => []LockIsCancelling
<1>1. Init => LockIsCancelling
  BY EngineAssumption DEF Init, LockIsCancelling
<1>2. QED
  BY <1>1, LockStep, EngineTypes, PTL DEF Spec

\* How many steps a call has at most before it returns.
StepsLeft(c) ==
  CASE pc[c] \in {"register", "block", "store", "cancelling"} -> 1
    [] pc[c] \in {"dispatch", "status", "cancel"}             -> 2
    [] pc[c] = "lookup"  -> 3
    [] pc[c] = "pollrun" -> MaxPolls - polls[c] + 1
    [] OTHER             -> 0

\* Every step of a call brings it nearer to its return, and nothing that other
\* calls or GitHub do sets it back; so does PollRun, which never sees a run end
\* (Refreshed), by its deadline alone.
CallsEnd ==
  [][\A c \in Callers :
       pc[c] # "idle" => UNCHANGED <<pc[c], polls[c]>> \/ StepsLeft(c)' < StepsLeft(c)]_vars

LEMMA WorkGetsNearer ==
  ASSUME TypeOK, NEW c \in Callers, Working(c)
  PROVE  StepsLeft(c)' < StepsLeft(c)
<1>1. pc \in [Callers -> PCs] /\ polls[c] \in 0..MaxPolls /\ MaxPolls \in Nat \ {0}
  BY EngineAssumption DEF TypeOK
<1>2. ASSUME NEW from \in PCs \ {"idle"}, Return(c, from) PROVE StepsLeft(c)' < StepsLeft(c)
  <2>1. pc[c] = from /\ pc'[c] = "idle"
    BY <1>1, <1>2 DEF Return, Goto
  <2>2. StepsLeft(c)' = 0 /\ StepsLeft(c) > 0
    BY <1>1, <2>1 DEF StepsLeft, PCs
  <2>3. QED
    BY <1>1, <2>2 DEF StepsLeft
<1>3. CASE \/ DispatchFails(c) \/ Register(c) \/ Block(c) \/ PollNotFound(c)
           \/ PollStore(c) \/ CancelUnknown(c) \/ CancelRefused(c)
           \/ CancelAccepted(c) \/ PollRunReturns(c) \/ Deadline(c)
  BY <1>2, <1>3 DEF DispatchFails, Register, Block, PollNotFound, PollStore,
     CancelUnknown, CancelRefused, CancelAccepted, PollRunReturns, Deadline, PCs
<1>4. CASE Dispatch(c) \/ PollFound(c) \/ PollRunStatus(c) \/ CancelKnown(c)
  <2>1. \/ pc[c] = "dispatch" /\ pc'[c] = "register"
        \/ pc[c] = "lookup" /\ pc'[c] = "status"
        \/ pc[c] = "status" /\ pc'[c] = "store"
        \/ pc[c] = "cancel" /\ pc'[c] = "cancelling"
    BY <1>1, <1>4 DEF Dispatch, PollFound, PollRunStatus, CancelKnown, Goto
  <2>2. QED
    BY <2>1 DEF StepsLeft
<1>5. CASE PollRunSleeps(c)
  <2>1. pc[c] = "pollrun" /\ pc'[c] = "pollrun" /\ polls'[c] = polls[c] + 1
    BY <1>5 DEF PollRunSleeps, TypeOK
  <2>2. /\ StepsLeft(c) = MaxPolls - polls[c] + 1
        /\ StepsLeft(c)' = MaxPolls - (polls[c] + 1) + 1
    BY <2>1 DEF StepsLeft
  <2>3. QED
    BY <1>1, <2>2
<1>6. QED
  BY <1>3, <1>4, <1>5 DEF Working

\* A call that has begun ends: the steps that are left get fewer with each one
\* taken, whatever GitHub answers and whoever else is at work.
THEOREM CallsGetNearerToTheirEnd == Spec => CallsEnd
<1>1. ASSUME TypeOK, [Next]_vars, NEW c \in Callers, pc[c] # "idle"
      PROVE  UNCHANGED <<pc[c], polls[c]>> \/ StepsLeft(c)' < StepsLeft(c)
  <2>1. ASSUME Working(c) PROVE StepsLeft(c)' < StepsLeft(c)
    BY <1>1, <2>1, WorkGetsNearer
  <2>2. ASSUME NEW d \in Callers \ {c}, Working(d) PROVE UNCHANGED <<pc[c], polls[c]>>
    BY <1>1, <2>2 DEF TypeOK, Working, Dispatch, DispatchFails, Register, Block,
       PollNotFound, PollFound, PollRunStatus, PollStore, CancelUnknown, CancelKnown,
       CancelRefused, CancelAccepted, PollRunReturns, PollRunSleeps, Deadline,
       Return, Goto, localVars
  <2>3. ASSUME NEW d \in Callers, Call(d) PROVE UNCHANGED <<pc[c], polls[c]>>
    BY <1>1, <2>3 DEF TypeOK, Call
  <2>4. CASE GitHub \/ UNCHANGED vars
    BY <2>4 DEF GitHub, vars, localVars
  <2>5. QED
    BY <1>1, <2>1, <2>2, <2>3, <2>4 DEF Next
<1>2. TypeOK /\ [Next]_vars
        => [\A c \in Callers :
              pc[c] # "idle" => UNCHANGED <<pc[c], polls[c]>> \/ StepsLeft(c)' < StepsLeft(c)]_vars
  BY <1>1
<1>3. QED
  BY <1>2, EngineTypes, PTL DEF Spec, CallsEnd

-----------------------------------------------------------------------------
(* What a cancellation can be lost to.                                     *)

\* A call names a task only while it registers it or polls it; a run that the
\* dispatcher did not make has no task; and until a task is registered it is
\* known to the call that made it and to nobody else.
TasksOfCalls ==
  \A c \in Callers : pc[c] \notin {"register", "status", "store"} => task[c] = NoRun
Untouched == \A r \in Runs : keyOf[r] = NoRun => taskStatus[r] = "none"
Unshared ==
  \A c \in Callers : pc[c] = "register" =>
    /\ taskStatus[task[c]] = "none"
    /\ \A k \in Keys : active[k] # task[c]
    /\ \A d \in Callers \ {c} : task[d] # task[c]

TasksInv == TasksOfCalls /\ Untouched /\ Unshared

\* A task that is cancelled stays so but for one thing: a poll that had looked
\* it up stores its answer.  Registration, other cancellations, blocking and
\* whatever GitHub says leave it cancelled.
CancelLostToPollOnly ==
  [][\A r \in Runs :
       taskStatus[r] = "cancelled" /\ taskStatus'[r] # "cancelled"
         => \E c \in Callers : /\ pc[c] = "store" /\ pc'[c] = "idle"
                               /\ task[c] = r /\ taskStatus'[r] = answer[c]]_vars

\* A run that GitHub has yet to make is in nobody's hands.
LEMMA AbsentIsUnknown ==
  ASSUME EngineInv, TasksInv, NEW r \in Runs, remote[r] = "absent"
  PROVE  /\ keyOf[r] = NoRun /\ taskStatus[r] = "none"
         /\ \A k \in Keys : active[k] # r
         /\ \A d \in Callers : task[d] # r
<1>1. keyOf[r] = NoRun
  BY DEF EngineInv, RunsInv, Keyed
<1>2. r # NoRun /\ \A k \in Keys : k # NoRun
  BY EngineAssumption DEF Keys
<1>3. \A k \in Keys : active[k] # r
  BY <1>1, <1>2 DEF EngineInv, ActiveKept
<1>4. ASSUME NEW d \in Callers PROVE task[d] # r
  <2>1. CASE pc[d] \in {"register", "status", "store"}
    BY <1>1, <2>1 DEF EngineInv, Registering, PollsFound, TaskHasRun
  <2>2. CASE pc[d] \notin {"register", "status", "store"}
    BY <1>2, <2>2 DEF TasksInv, TasksOfCalls
  <2>3. QED
    BY <2>1, <2>2
<1>5. QED
  BY <1>1, <1>3, <1>4 DEF TasksInv, Untouched

\* A call that returns has no task any more.
LEMMA ReturnKeepsTasks ==
  ASSUME TypeOK, TasksInv, NEW c \in Callers, NEW from, Return(c, from)
  PROVE  /\ TasksOfCalls'
         /\ \A d \in Callers : pc'[d] = "register" =>
              /\ d # c /\ pc[d] = "register" /\ task'[d] = task[d]
              /\ \A e \in Callers \ {d} : task'[e] # task'[d] \/ task'[d] = NoRun
<1>1. /\ pc' = [pc EXCEPT ![c] = "idle"] /\ pc \in [Callers -> PCs]
      /\ task' = [task EXCEPT ![c] = NoRun] /\ task \in [Callers -> Runs \cup {NoRun}]
  BY DEF Return, Goto, TypeOK
<1>2. TasksOfCalls'
  BY <1>1 DEF TasksInv, TasksOfCalls
<1>3. QED
  BY <1>1, <1>2 DEF TasksInv, Unshared

\* A returning call that leaves the tasks and the active ones alone.
LEMMA QuietReturn ==
  ASSUME EngineInv, TasksInv, NEW c \in Callers, NEW from, Return(c, from),
         UNCHANGED <<keyOf, active, taskStatus>>
  PROVE  TasksInv'
<1>1. TypeOK /\ Registering
  BY DEF EngineInv
<1>2. TasksOfCalls'
  BY <1>1, ReturnKeepsTasks
<1>3. Untouched'
  BY DEF TasksInv, Untouched
<1>4. Unshared'
  BY <1>1, ReturnKeepsTasks DEF TasksInv, Unshared, Registering, TaskHasRun
<1>5. QED
  BY <1>2, <1>3, <1>4 DEF TasksInv

\* A call whose place does not concern tasks moves on, or nothing of a task changes.
LEMMA QuietMove ==
  ASSUME TypeOK, TasksInv, NEW c \in Callers, NEW to,
         pc' = [pc EXCEPT ![c] = to], to \notin {"register", "status", "store"},
         pc[c] \notin {"register", "status", "store"},
         UNCHANGED <<keyOf, active, taskStatus, task>>
  PROVE  TasksInv'
<1>1. pc \in [Callers -> PCs]
  BY DEF TypeOK
<1>2. \A d \in Callers : pc'[d] = "register" => pc[d] = "register"
  BY <1>1
<1>3. TasksOfCalls'
  BY <1>1 DEF TasksInv, TasksOfCalls
<1>4. QED
  BY <1>2, <1>3 DEF TasksInv, Untouched, Unshared

LEMMA DispatchTasks ==
  ASSUME EngineInv, TasksInv, NEW c \in Callers, Dispatch(c)
  PROVE  TasksInv'
<1>1. PICK r \in Runs, k \in Keys :
        /\ Created(r)
        /\ keyOf' = [keyOf EXCEPT ![r] = k]
        /\ task' = [task EXCEPT ![c] = r]
  BY DEF Dispatch
<1>2. /\ UNCHANGED <<active, taskStatus>>
      /\ pc' = [pc EXCEPT ![c] = "register"] /\ pc \in [Callers -> PCs]
      /\ keyOf \in [Runs -> Keys \cup {NoRun}] /\ task \in [Callers -> Runs \cup {NoRun}]
  BY DEF Dispatch, Goto, EngineInv, TypeOK
<1>3. /\ taskStatus[r] = "none"
      /\ \A l \in Keys : active[l] # r
      /\ \A d \in Callers : task[d] # r
  BY <1>1, AbsentIsUnknown DEF Created
<1>4. TasksOfCalls'
  BY <1>1, <1>2 DEF TasksInv, TasksOfCalls
<1>5. Untouched'
  BY <1>1, <1>2, <1>3 DEF TasksInv, Untouched
<1>6. Unshared'
  <2> SUFFICES ASSUME NEW d \in Callers, pc'[d] = "register"
               PROVE  /\ taskStatus'[task'[d]] = "none"
                      /\ \A l \in Keys : active'[l] # task'[d]
                      /\ \A e \in Callers \ {d} : task'[e] # task'[d]
    BY DEF Unshared
  <2>1. CASE d = c
    BY <1>1, <1>2, <1>3, <2>1
  <2>2. CASE d # c
    <3>1. pc[d] = "register" /\ task'[d] = task[d]
      BY <1>1, <1>2, <2>2
    <3>2. QED
      BY <1>1, <1>2, <1>3, <2>2, <3>1 DEF TasksInv, Unshared
  <2>3. QED
    BY <2>1, <2>2
<1>7. QED
  BY <1>4, <1>5, <1>6 DEF TasksInv

LEMMA RegisterTasks ==
  ASSUME EngineInv, TasksInv, NEW c \in Callers, Register(c)
  PROVE  TasksInv'
<1>1. /\ Return(c, "register") /\ pc[c] = "register"
      /\ active' = [active EXCEPT ![keyOf[task[c]]] = task[c]]
      /\ taskStatus' = [taskStatus EXCEPT ![task[c]] = "dispatched"]
      /\ UNCHANGED keyOf
  BY DEF Register, EntryOf, Return, Goto
<1>2. TypeOK /\ TaskHasRun(task[c]) /\ Registering
  BY <1>1 DEF EngineInv, Registering
<1>3. TasksOfCalls'
  BY <1>1, <1>2, ReturnKeepsTasks
<1>4. Untouched'
  BY <1>1, <1>2 DEF TasksInv, Untouched, TaskHasRun, TypeOK
<1>5. ASSUME NEW d \in Callers, pc'[d] = "register"
      PROVE  /\ taskStatus'[task'[d]] = "none"
             /\ \A k \in Keys : active'[k] # task'[d]
             /\ \A e \in Callers \ {d} : task'[e] # task'[d]
  <2>1. d # c /\ pc[d] = "register" /\ task'[d] = task[d]
    BY <1>1, <1>2, <1>5, ReturnKeepsTasks
  <2>2. /\ task[d] # NoRun /\ task[c] # task[d]
        /\ taskStatus[task[d]] = "none" /\ \A k \in Keys : active[k] # task[d]
    BY <1>2, <2>1 DEF TasksInv, Unshared, Registering, TaskHasRun
  <2>3. \A e \in Callers \ {d} : task'[e] # task'[d]
    BY <1>1, <1>2, <1>5, <2>1, <2>2, ReturnKeepsTasks
  <2>4. taskStatus'[task[d]] = "none"
    BY <1>1, <1>2, <2>1, <2>2 DEF TypeOK
  <2>5. \A k \in Keys : active'[k] # task[d]
    BY <1>1, <1>2, <2>2 DEF TypeOK
  <2>6. QED
    BY <2>1, <2>3, <2>4, <2>5
<1>6. QED
  BY <1>3, <1>4, <1>5 DEF TasksInv, Unshared

LEMMA BlockTasks ==
  ASSUME EngineInv, TasksInv, NEW c \in Callers, Block(c)
  PROVE  TasksInv'
<1>1. /\ Return(c, "block") /\ UNCHANGED keyOf
      /\ taskStatus' = [r \in Runs |-> IF r \in ActiveTasks THEN "cancelled" ELSE taskStatus[r]]
      /\ active' = [k \in Keys |-> NoRun]
  BY DEF Block
<1>2. TypeOK /\ Registering /\ ActiveKept
  BY DEF EngineInv
<1>3. TasksOfCalls'
  BY <1>1, <1>2, ReturnKeepsTasks
<1>4. \A r \in ActiveTasks : keyOf[r] # NoRun
  BY <1>2, EngineAssumption DEF ActiveTasks, ActiveKept, Keys
<1>5. Untouched'
  BY <1>1, <1>4 DEF TasksInv, Untouched
<1>6. ASSUME NEW d \in Callers, pc'[d] = "register"
      PROVE  /\ taskStatus'[task'[d]] = "none"
             /\ \A k \in Keys : active'[k] # task'[d]
             /\ \A e \in Callers \ {d} : task'[e] # task'[d]
  <2>1. d # c /\ pc[d] = "register" /\ task'[d] = task[d]
    BY <1>1, <1>2, <1>6, ReturnKeepsTasks
  <2>2. /\ task[d] \in Runs /\ task[d] # NoRun
        /\ taskStatus[task[d]] = "none" /\ task[d] \notin ActiveTasks
    BY <1>2, <2>1 DEF TasksInv, Unshared, Registering, TaskHasRun, ActiveTasks, TypeOK
  <2>3. \A e \in Callers \ {d} : task'[e] # task'[d]
    BY <1>1, <1>2, <1>6, <2>1, <2>2, ReturnKeepsTasks
  <2>4. QED
    BY <1>1, <2>1, <2>2, <2>3
<1>7. QED
  BY <1>3, <1>5, <1>6 DEF TasksInv, Unshared

\* A poll takes an active task in hand, or stores what it was told of it.
LEMMA PollTasks ==
  ASSUME EngineInv, TasksInv, NEW c \in Callers,
         PollFound(c) \/ PollRunStatus(c) \/ PollStore(c)
  PROVE  TasksInv'
<1>1. TypeOK /\ Registering /\ PollsFound
  BY DEF EngineInv
<1>2. pc \in [Callers -> PCs] /\ task \in [Callers -> Runs \cup {NoRun}]
  BY <1>1 DEF TypeOK
<1>3. CASE PollFound(c)
  <2>1. /\ pc' = [pc EXCEPT ![c] = "status"] /\ pc[c] = "lookup"
        /\ key[c] \in Keys /\ task' = [task EXCEPT ![c] = active[key[c]]]
        /\ UNCHANGED <<keyOf, active, taskStatus>>
    BY <1>1, <1>3 DEF PollFound, Goto, TypeOK, mapVars
  <2>2. TasksOfCalls' /\ Untouched'
    BY <1>2, <2>1 DEF TasksInv, TasksOfCalls, Untouched
  <2>3. Unshared'
    BY <1>2, <2>1 DEF TasksInv, Unshared
  <2>4. QED
    BY <2>2, <2>3 DEF TasksInv
<1>4. CASE PollRunStatus(c)
  <2>1. /\ pc' = [pc EXCEPT ![c] = "store"] /\ pc[c] = "status"
        /\ UNCHANGED <<keyOf, active, taskStatus, task>>
    BY <1>4 DEF PollRunStatus, Goto
  <2>2. TasksOfCalls' /\ Untouched'
    BY <1>2, <2>1 DEF TasksInv, TasksOfCalls, Untouched
  <2>3. Unshared'
    BY <1>2, <2>1 DEF TasksInv, Unshared
  <2>4. QED
    BY <2>2, <2>3 DEF TasksInv
<1>5. CASE PollStore(c)
  <2>1. /\ Return(c, "store") /\ pc[c] = "store"
        /\ taskStatus' = [taskStatus EXCEPT ![task[c]] = answer[c]]
        /\ UNCHANGED <<keyOf, active>>
    BY <1>5 DEF PollStore, Return, Goto
  <2>2. TaskHasRun(task[c]) /\ task[c] \in Runs
    BY <1>1, <2>1 DEF PollsFound, TaskHasRun, TypeOK
  <2>3. TasksOfCalls'
    BY <1>1, <2>1, ReturnKeepsTasks
  <2>4. Untouched'
    BY <1>1, <2>1, <2>2 DEF TasksInv, Untouched, TaskHasRun, TypeOK
  <2>5. ASSUME NEW d \in Callers, pc'[d] = "register"
        PROVE  /\ taskStatus'[task'[d]] = "none"
               /\ \A k \in Keys : active'[k] # task'[d]
               /\ \A e \in Callers \ {d} : task'[e] # task'[d]
    <3>1. d # c /\ pc[d] = "register" /\ task'[d] = task[d]
      BY <1>1, <2>1, <2>5, ReturnKeepsTasks
    <3>2. /\ task[d] # NoRun /\ task[c] # task[d]
          /\ taskStatus[task[d]] = "none" /\ \A k \in Keys : active[k] # task[d]
      BY <1>1, <3>1 DEF TasksInv, Unshared, Registering, TaskHasRun
    <3>3. \A e \in Callers \ {d} : task'[e] # task'[d]
      BY <1>1, <2>1, <2>5, <3>1, <3>2, ReturnKeepsTasks
    <3>4. taskStatus'[task[d]] = "none"
      BY <1>1, <2>1, <3>2 DEF TypeOK
    <3>5. QED
      BY <2>1, <3>1, <3>2, <3>3, <3>4
  <2>6. QED
    BY <2>3, <2>4, <2>5 DEF TasksInv, Unshared
<1>6. QED
  BY <1>3, <1>4, <1>5

LEMMA CancelTasks ==
  ASSUME EngineInv, TasksInv, NEW c \in Callers, CancelKnown(c)
  PROVE  TasksInv'
<1>1. /\ pc' = [pc EXCEPT ![c] = "cancelling"] /\ pc[c] = "cancel"
      /\ key[c] \in Keys /\ active[key[c]] # NoRun
      /\ taskStatus' = [taskStatus EXCEPT ![active[key[c]]] = "cancelled"]
      /\ UNCHANGED <<keyOf, active, task>>
  BY DEF CancelKnown, Goto, localVars, EngineInv, TypeOK
<1>2. pc \in [Callers -> PCs] /\ taskStatus \in [Runs -> TaskStatus]
  BY DEF EngineInv, TypeOK
<1>3. keyOf[active[key[c]]] # NoRun
  BY <1>1, EngineAssumption DEF EngineInv, ActiveKept, Keys
<1>4. TasksOfCalls'
  BY <1>1, <1>2 DEF TasksInv, TasksOfCalls
<1>5. Untouched'
  BY <1>1, <1>2, <1>3 DEF TasksInv, Untouched
<1>6. \A d \in Callers : pc'[d] = "register" => pc[d] = "register" /\ task[d] \in Runs
  BY <1>1, <1>2 DEF EngineInv, Registering, TaskHasRun, TypeOK
<1>7. Unshared'
  BY <1>1, <1>2, <1>6 DEF TasksInv, Unshared
<1>8. QED
  BY <1>4, <1>5, <1>7 DEF TasksInv

LEMMA TasksStep == EngineInv /\ TasksInv /\ [Next]_vars => TasksInv'
<1> SUFFICES ASSUME EngineInv, TasksInv, [Next]_vars PROVE TasksInv'
  OBVIOUS
<1>0. TypeOK
  BY DEF EngineInv
<1>1. ASSUME NEW c \in Callers,
             \/ DispatchFails(c) \/ PollNotFound(c) \/ CancelUnknown(c)
             \/ CancelRefused(c) \/ CancelAccepted(c) \/ PollRunReturns(c) \/ Deadline(c)
      PROVE  TasksInv'
  BY <1>1, QuietReturn DEF DispatchFails, PollNotFound, CancelUnknown, CancelRefused,
     CancelAccepted, PollRunReturns, Deadline, mapVars
<1>2. ASSUME NEW c \in Callers, Call(c) PROVE TasksInv'
  <2>1. PICK op \in {"dispatch", "block", "lookup", "cancel", "pollrun"} :
          pc' = [pc EXCEPT ![c] = op]
    BY <1>2 DEF Call
  <2>2. pc[c] = "idle" /\ UNCHANGED <<keyOf, active, taskStatus, task>>
    BY <1>2 DEF Call, mapVars
  <2>3. QED
    BY <1>0, <2>1, <2>2, QuietMove
<1>3. CASE GitHub \/ UNCHANGED vars \/ \E c \in Callers : PollRunSleeps(c)
  BY <1>3 DEF GitHub, vars, mapVars, localVars, PollRunSleeps, TasksInv, TasksOfCalls,
     Untouched, Unshared
<1>4. QED
  BY <1>1, <1>2, <1>3, DispatchTasks, RegisterTasks, BlockTasks, PollTasks, CancelTasks
  DEF Next, Working

\* What a step that takes a task out of "cancelled" can be.
LEMMA OnlyPollsUndo ==
  ASSUME EngineInv, TasksInv, [Next]_vars, NEW r \in Runs,
         taskStatus[r] = "cancelled", taskStatus'[r] # "cancelled"
  PROVE  \E c \in Callers : /\ pc[c] = "store" /\ pc'[c] = "idle"
                            /\ task[c] = r /\ taskStatus'[r] = answer[c]
<1>1. taskStatus' # taskStatus /\ taskStatus \in [Runs -> TaskStatus]
  BY DEF EngineInv, TypeOK
<1>2. PICK c \in Callers : Register(c) \/ Block(c) \/ PollStore(c) \/ CancelKnown(c)
  BY <1>1 DEF Next, Working, vars, mapVars, GitHub, Call, Dispatch, DispatchFails,
     PollNotFound, PollFound, PollRunStatus, CancelUnknown, CancelRefused,
     CancelAccepted, PollRunReturns, PollRunSleeps, Deadline
<1>3. ~Register(c)
  <2> SUFFICES ASSUME Register(c) PROVE FALSE
    OBVIOUS
  <2>1. pc[c] = "register" /\ taskStatus' = [taskStatus EXCEPT ![task[c]] = "dispatched"]
    BY DEF Register, Return, Goto
  <2>2. taskStatus[task[c]] = "none"
    BY <2>1 DEF TasksInv, Unshared
  <2>3. QED
    BY <1>1, <2>1, <2>2
<1>4. ~Block(c) /\ ~CancelKnown(c)
  BY <1>1 DEF Block, CancelKnown
<1>5. PollStore(c)
  BY <1>2, <1>3, <1>4
<1>6. /\ pc[c] = "store" /\ pc'[c] = "idle"
      /\ taskStatus' = [taskStatus EXCEPT ![task[c]] = answer[c]]
  BY <1>5 DEF PollStore, Return, Goto, EngineInv, TypeOK
<1>7. QED
  BY <1>1, <1>6

\* The one way in which the code loses a cancellation, for any number of
\* goroutines and runs: a poll between its look-up and its answer.
THEOREM CancellationIsLostToPollsOnly == Spec => CancelLostToPollOnly
<1>1. Init => TasksInv
  BY DEF Init, TasksInv, TasksOfCalls, Untouched, Unshared
<1>2. EngineInv /\ TasksInv /\ [Next]_vars
        => [\A r \in Runs :
              taskStatus[r] = "cancelled" /\ taskStatus'[r] # "cancelled"
                => \E c \in Callers : /\ pc[c] = "store" /\ pc'[c] = "idle"
                                      /\ task[c] = r /\ taskStatus'[r] = answer[c]]_vars
  BY OnlyPollsUndo
<1>3. QED
  BY <1>1, <1>2, TasksStep, EngineInvariant, PTL DEF Spec, CancelLostToPollOnly
=============================================================================
