------------------------ MODULE RuntimeProcess_proofs ------------------------
(***************************************************************************)
(* What the PID file names, what the bot makes of it and that a start gets  *)
(* to its loop, for any number of processes, commands, deaths and PIDs.     *)
(***************************************************************************)
EXTENDS RuntimeProcess, TLAPS

\* What is alive has had its PID given out, and a loop keeps the PID of the
\* shell that started it.
Bookkeeping ==
  \A p \in Pids : /\ Alive(p) => p \in used
                  /\ proc[p].kind = "loop" => proc[p].pid \in Pids

\* The PID belonged to a start command that has launched its loop and ended,
\* or is about to, unless the system gave it out again.
NamesStarter(p) ==
  p \in used /\ (~Alive(p) \/ At(p, {"start"}, "exit") \/ proc[p].again)

\* $$ in a background subshell is the PID of the shell that started it, so every
\* PID that is kept is that of a start command: the PID file's, the bot's, a
\* loop's own $$ and what a stop is about to kill.
PidsNameStarters ==
  /\ pidFile \in Pids => NamesStarter(pidFile)
  /\ memory.pid \in Pids => NamesStarter(memory.pid)
  /\ \A p \in Pids : proc[p].pid \in Pids => NamesStarter(proc[p].pid)

RuntimeInv == ProcessTypeOK /\ Bookkeeping /\ PidsNameStarters /\ TornFileIsNotRunning

-----------------------------------------------------------------------------
(* The operations on the table of processes.                               *)

\* Nobody is a process.
LEMMA NobodyIsProcess == Nobody \in Process
BY DEF Nobody, Process, Kinds, Places

\* Beginning a process keeps the table's type.
LEMMA BeginTypes ==
  ASSUME ProcessTypeOK, NEW q \in Pids, NEW kind \in Kinds, NEW place \in Places,
         NEW pid \in Pids \cup {NoPid}
  PROVE  Begin(q, kind, place, pid) \in [Pids -> Process]
<1>1. [kind |-> kind, at |-> place, pid |-> pid, again |-> q \in used] \in Process
  BY DEF Process
<1>2. QED
  BY <1>1 DEF ProcessTypeOK, Begin

\* So does going on to another place, and ending.
LEMMA GotoTypes ==
  ASSUME ProcessTypeOK, NEW p \in Pids, NEW place \in Places, Goto(p, place)
  PROVE  proc' \in [Pids -> Process]
<1>1. [proc[p] EXCEPT !.at = place] \in Process
  BY DEF ProcessTypeOK, Process
<1>2. QED
  BY <1>1 DEF ProcessTypeOK, Goto

LEMMA ExitTypes ==
  ASSUME ProcessTypeOK, NEW p \in Pids, Exit(p)
  PROVE  proc' \in [Pids -> Process]
BY NobodyIsProcess DEF ProcessTypeOK, Exit

-----------------------------------------------------------------------------
(* Types.                                                                  *)

LEMMA TypeStep == ProcessTypeOK /\ Bookkeeping /\ [ProcessNext]_processVars => ProcessTypeOK'
<1> SUFFICES ASSUME ProcessTypeOK, Bookkeeping, [ProcessNext]_processVars PROVE ProcessTypeOK'
  OBVIOUS
<1> USE ProcessAssumption
<1>1. ASSUME NEW p \in Pids, NEW command \in Commands, Invoke(p, command)
      PROVE ProcessTypeOK'
  <2>1. proc' \in [Pids -> Process]
    BY <1>1, BeginTypes DEF Invoke, Commands, Kinds, Places
  <2>2. QED
    BY <1>1, <2>1 DEF ProcessTypeOK, Invoke
<1>2. ASSUME NEW p \in Pids, TestFile(p) PROVE ProcessTypeOK'
  <2>1. proc' \in [Pids -> Process]
    BY <1>2, GotoTypes, ExitTypes DEF TestFile, Places
  <2>2. QED
    BY <1>2, <2>1 DEF ProcessTypeOK, TestFile, OnlyProc
<1>3. ASSUME NEW p \in Pids, ReadFile(p) PROVE ProcessTypeOK'
  <2> DEFINE pid == IF pidFile \in Pids THEN pidFile ELSE NoPid
  <2>1. [proc[p] EXCEPT !.at = "probe", !.pid = pid] \in Process
    <3>1. pid \in Pids \cup {NoPid}
      OBVIOUS
    <3>2. proc[p] \in Process
      BY DEF ProcessTypeOK
    <3> HIDE DEF pid
    <3> QED  BY <3>1, <3>2 DEF Process, Places
  <2>2. proc' = [proc EXCEPT ![p] = [@ EXCEPT !.at = "probe", !.pid = pid]]
    BY <1>3 DEF ReadFile
  <2>3. proc' \in [Pids -> Process]
    <3> HIDE DEF pid
    <3> QED  BY <2>1, <2>2 DEF ProcessTypeOK
  <2>4. QED
    BY <1>3, <2>3 DEF ProcessTypeOK, ReadFile, OnlyProc
<1>4. ASSUME NEW p \in Pids, Refuse(p) \/ Launched(p) \/ Status(p) PROVE ProcessTypeOK'
  <2>1. proc' \in [Pids -> Process]
    BY <1>4, ExitTypes DEF Refuse, Launched, Status
  <2>2. QED
    BY <1>4, <2>1 DEF ProcessTypeOK, Refuse, Launched, Status, OnlyProc
<1>5. ASSUME NEW p \in Pids, StartAnyway(p) PROVE ProcessTypeOK'
  <2>1. proc' \in [Pids -> Process]
    BY <1>5, GotoTypes DEF StartAnyway, Places
  <2>2. QED
    BY <1>5, <2>1 DEF ProcessTypeOK, StartAnyway, OnlyProc
<1>6. ASSUME NEW p \in Pids, Spawn(p) PROVE ProcessTypeOK'
  <2>1. PICK q \in Pids :
          /\ proc' = [Begin(q, "loop", "truncate", p) EXCEPT ![p].at = "exit"]
          /\ used' = used \cup {q}
    BY <1>6 DEF Spawn
  <2>2. Begin(q, "loop", "truncate", p) \in [Pids -> Process]
    BY BeginTypes DEF Kinds, Places
  <2>3. [Begin(q, "loop", "truncate", p)[p] EXCEPT !.at = "exit"] \in Process
    BY <2>2 DEF Process, Places
  <2>4. proc' \in [Pids -> Process]
    BY <2>1, <2>2, <2>3
  <2>5. QED
    BY <1>6, <2>1, <2>4 DEF ProcessTypeOK, Spawn
<1>7. ASSUME NEW p \in Pids, Stop(p) PROVE ProcessTypeOK'
  <2>1. [proc[p] EXCEPT !.at = "remove"] \in Process
    BY DEF ProcessTypeOK, Process, Places
  <2>2. proc' \in [Pids -> Process]
    BY <1>7, <2>1, NobodyIsProcess DEF ProcessTypeOK, Stop
  <2>3. QED
    BY <1>7, <2>2 DEF ProcessTypeOK, Stop, OnlyProc
<1>8. ASSUME NEW p \in Pids, Remove(p) PROVE ProcessTypeOK'
  <2>1. proc' \in [Pids -> Process]
    BY <1>8, ExitTypes DEF Remove
  <2>2. QED
    BY <1>8, <2>1 DEF ProcessTypeOK, Remove
<1>9. ASSUME NEW q \in Pids, TruncatePid(q) PROVE ProcessTypeOK'
  <2>1. proc' \in [Pids -> Process]
    BY <1>9, GotoTypes DEF TruncatePid, Places
  <2>2. QED
    BY <1>9, <2>1 DEF ProcessTypeOK, TruncatePid
<1>10. ASSUME NEW q \in Pids, WritePid(q) PROVE ProcessTypeOK'
  <2>1. proc' \in [Pids -> Process]
    BY <1>10, GotoTypes DEF WritePid, Places
  <2>2. pidFile' \in Pids
    BY <1>10 DEF WritePid, At, Bookkeeping
  <2>3. QED
    BY <1>10, <2>1, <2>2 DEF ProcessTypeOK, WritePid
<1>12. CASE LoadFromDisk
  BY <1>12 DEF ProcessTypeOK, LoadFromDisk
<1>13. ASSUME NEW q \in Pids, OtherBegins(q) PROVE ProcessTypeOK'
  <2>1. proc' \in [Pids -> Process]
    BY <1>13, BeginTypes DEF OtherBegins, Kinds, Places
  <2>2. QED
    BY <1>13, <2>1 DEF ProcessTypeOK, OtherBegins
<1>14. ASSUME NEW q \in Pids, OtherEnds(q) PROVE ProcessTypeOK'
  <2>1. proc' \in [Pids -> Process]
    BY <1>14, ExitTypes DEF OtherEnds
  <2>2. QED
    BY <1>14, <2>1 DEF ProcessTypeOK, OtherEnds, OnlyProc
<1>15. ASSUME NEW q \in Pids, LoopDies(q) PROVE ProcessTypeOK'
  <2>1. proc' \in [Pids -> Process]
    BY <1>15, ExitTypes DEF LoopDies
  <2>2. QED
    BY <1>15, <2>1 DEF ProcessTypeOK, LoopDies
<1>16. CASE UNCHANGED processVars
  BY <1>16 DEF ProcessTypeOK, processVars
<1>17. QED
  BY <1>1, <1>2, <1>3, <1>4, <1>5, <1>6, <1>7, <1>8, <1>9, <1>10, <1>12,
     <1>13, <1>14, <1>15, <1>16 DEF ProcessNext, Script, Loop

-----------------------------------------------------------------------------
(* What every step does to the table of processes.                         *)

\* A step begins a process under a free PID, or lets one that lives go on, in
\* its own kind, or ends it.
Begun(q) == /\ Free(q)
            /\ proc'[q].again = (q \in used)
            /\ used' = used \cup {q}
            /\ proc'[q].kind = "loop" => proc'[q].pid \in Pids

\* A process that has gone to "exit" only ends.
GoesOn(q) == /\ proc'[q].kind = proc[q].kind
             /\ proc'[q].again = proc[q].again
             /\ At(q, {"start"}, "exit") => proc'[q].at = "exit"
             /\ proc[q].kind = "loop" => proc'[q].pid = proc[q].pid
             /\ used \subseteq used'

Ended(q) == proc'[q] = Nobody /\ used \subseteq used'

LEMMA ProcessSteps ==
  ProcessTypeOK /\ Bookkeeping /\ [ProcessNext]_processVars
    => \A q \in Pids : Begun(q) \/ GoesOn(q) \/ Ended(q)
<1> SUFFICES ASSUME ProcessTypeOK, Bookkeeping, [ProcessNext]_processVars, NEW q \in Pids
             PROVE  Begun(q) \/ GoesOn(q) \/ Ended(q)
  OBVIOUS
<1> USE ProcessAssumption DEF ProcessTypeOK, Process
<1>1. ASSUME NEW p \in Pids, NEW command \in Commands, Invoke(p, command)
      PROVE  Begun(q) \/ GoesOn(q)
  BY <1>1 DEF Invoke, Begin, Begun, GoesOn, At, Commands
<1>2. ASSUME NEW p \in Pids, TestFile(p) PROVE GoesOn(q) \/ Ended(q)
  <2>1. CASE p = q /\ Exit(p)
    BY <1>2, <2>1 DEF TestFile, OnlyProc, Exit, Ended
  <2>2. CASE p # q /\ Exit(p)
    BY <1>2, <2>2 DEF TestFile, OnlyProc, Exit, GoesOn, At
  <2>3. CASE Goto(p, "read") \/ Goto(p, "spawn")
    BY <1>2, <2>3 DEF TestFile, OnlyProc, Goto, GoesOn, At
  <2>4. QED
    BY <1>2, <2>1, <2>2, <2>3 DEF TestFile
<1>3. ASSUME NEW p \in Pids, ReadFile(p) PROVE GoesOn(q) \/ Ended(q)
  BY <1>3 DEF ReadFile, OnlyProc, GoesOn, Ended, At, Commands
<1>4. ASSUME NEW p \in Pids, Refuse(p) \/ Launched(p) \/ Status(p)
      PROVE  GoesOn(q) \/ Ended(q)
  BY <1>4 DEF Refuse, Launched, Status, Exit, OnlyProc, GoesOn, Ended, At
<1>5. ASSUME NEW p \in Pids, StartAnyway(p) PROVE GoesOn(q) \/ Ended(q)
  BY <1>5 DEF StartAnyway, Goto, OnlyProc, GoesOn, Ended, At
<1>6. ASSUME NEW p \in Pids, Spawn(p) PROVE Begun(q) \/ GoesOn(q)
  <2>1. PICK r \in Pids :
          /\ Free(r)
          /\ proc' = [Begin(r, "loop", "truncate", p) EXCEPT ![p].at = "exit"]
          /\ used' = used \cup {r}
    BY <1>6 DEF Spawn
  <2>2. r # p
    BY <1>6, <2>1 DEF Spawn, At, Free, Alive
  <2>3. CASE q = r
    BY <2>1, <2>2, <2>3 DEF Begin, Begun
  <2>4. CASE q # r
    BY <2>1, <2>4 DEF Begin, GoesOn, At
  <2>5. QED
    BY <2>3, <2>4
<1>7. ASSUME NEW p \in Pids, Stop(p) PROVE GoesOn(q) \/ Ended(q)
  BY <1>7 DEF Stop, OnlyProc, GoesOn, Ended, At
<1>8. ASSUME NEW p \in Pids, Remove(p) PROVE GoesOn(q) \/ Ended(q)
  BY <1>8 DEF Remove, Exit, GoesOn, Ended, At
<1>9. ASSUME NEW p \in Pids, TruncatePid(p) \/ WritePid(p) PROVE GoesOn(q)
  <2>1. /\ Goto(p, "write") \/ Goto(p, "round")
        /\ used' = used
    BY <1>9 DEF TruncatePid, WritePid
  <2>2. At(p, {"loop"}, "truncate") \/ At(p, {"loop"}, "write")
    BY <1>9 DEF TruncatePid, WritePid
  <2>3. QED
    BY <2>1, <2>2 DEF Goto, GoesOn, At
<1>11. CASE LoadFromDisk
  BY <1>11 DEF LoadFromDisk, GoesOn, At
<1>12. ASSUME NEW p \in Pids, OtherBegins(p) PROVE Begun(q) \/ GoesOn(q)
  BY <1>12 DEF OtherBegins, Begin, Begun, GoesOn, At
<1>13. ASSUME NEW p \in Pids, OtherEnds(p) PROVE GoesOn(q) \/ Ended(q)
  BY <1>13 DEF OtherEnds, Exit, OnlyProc, GoesOn, Ended, At
<1>14. ASSUME NEW p \in Pids, LoopDies(p) PROVE GoesOn(q) \/ Ended(q)
  BY <1>14 DEF LoopDies, Exit, GoesOn, Ended, At
<1>15. CASE UNCHANGED processVars
  BY <1>15 DEF processVars, GoesOn, At
<1>16. QED
  BY <1>1, <1>2, <1>3, <1>4, <1>5, <1>6, <1>7, <1>8, <1>9, <1>11, <1>12,
     <1>13, <1>14, <1>15 DEF ProcessNext, Script, Loop

\* A PID that names a starter names no loop ever after, unless it is given
\* out again.
LEMMA StarterForGood ==
  ASSUME ProcessTypeOK, Bookkeeping, [ProcessNext]_processVars, NEW p \in Pids, NamesStarter(p)
  PROVE  NamesStarter(p)'
<1>1. CASE Begun(p)
  BY <1>1 DEF Begun, NamesStarter
<1>2. CASE GoesOn(p)
  BY <1>2 DEF GoesOn, NamesStarter, At, Alive
<1>3. CASE Ended(p)
  BY <1>3 DEF Ended, NamesStarter, Alive, Nobody
<1>4. QED
  BY <1>1, <1>2, <1>3, ProcessSteps

LEMMA BookkeepingStep ==
  ProcessTypeOK /\ Bookkeeping /\ [ProcessNext]_processVars => Bookkeeping'
<1> SUFFICES ASSUME ProcessTypeOK, Bookkeeping, [ProcessNext]_processVars, NEW p \in Pids
             PROVE  /\ Alive(p)' => p \in used'
                    /\ proc'[p].kind = "loop" => proc'[p].pid \in Pids
  BY DEF Bookkeeping
<1>1. CASE Begun(p)
  BY <1>1 DEF Begun
<1>2. CASE GoesOn(p)
  BY <1>2 DEF GoesOn, Bookkeeping, Alive
<1>3. CASE Ended(p)
  BY <1>3 DEF Ended, Alive, Nobody
<1>4. QED
  BY <1>1, <1>2, <1>3, ProcessSteps
-----------------------------------------------------------------------------
(* The invariant.                                                          *)

\* When the bot says RUNNING after a step, its PID has been given out.
LEMMA RunningStep ==
  PidsNameStarters /\ TornFileIsNotRunning /\ [ProcessNext]_processVars
    => TornFileIsNotRunning'
<1> SUFFICES ASSUME PidsNameStarters, TornFileIsNotRunning, [ProcessNext]_processVars
             PROVE  memory'.running => memory'.pid \in used'
  BY DEF TornFileIsNotRunning
<1>1. used \subseteq used'
  BY DEF ProcessNext, Script, Loop, Invoke, TestFile, ReadFile, Refuse, StartAnyway, Spawn,
     Launched, Stop, Remove, Status, TruncatePid, WritePid, LoadFromDisk,
     OtherBegins, OtherEnds, LoopDies, OnlyProc, processVars
<1>2. CASE LoadFromDisk
  BY <1>1, <1>2 DEF LoadFromDisk, PidsNameStarters, NamesStarter
<1>3. CASE ~LoadFromDisk
  <2>1. UNCHANGED memory
    BY <1>3 DEF ProcessNext, Script, Loop, Invoke, TestFile, ReadFile, Refuse, StartAnyway,
       Spawn, Launched, Stop, Remove, Status, TruncatePid, WritePid,
       OtherBegins, OtherEnds, LoopDies, OnlyProc, processVars
  <2>2. QED
    BY <1>1, <2>1 DEF TornFileIsNotRunning
<1>4. QED
  BY <1>2, <1>3

\* Every PID that is kept anywhere after a step was kept before, or is that of
\* a start command that has just launched its loop.
LEMMA PidsNameStartersStep ==
  ProcessTypeOK /\ Bookkeeping /\ PidsNameStarters /\ [ProcessNext]_processVars => PidsNameStarters'
<1> SUFFICES ASSUME ProcessTypeOK, Bookkeeping, PidsNameStarters, [ProcessNext]_processVars
             PROVE  PidsNameStarters'
  OBVIOUS
<1> USE ProcessAssumption
<1> DEFINE Named == {p \in Pids : NamesStarter(p)}
           Kept  == Named \cup {NoPid, "empty", "absent"}
           Launcher(s) == s \in Pids /\ NamesStarter(s)'
<1>1. /\ pidFile \in Kept /\ memory.pid \in Kept
      /\ \A p \in Pids : proc[p].pid \in Kept
  BY DEF ProcessTypeOK, Process, PidsNameStarters
<1>2. \A s \in Named : Launcher(s)
  BY StarterForGood
<1>3. pidFile' \in Kept
  <2>1. ASSUME NEW p \in Pids, WritePid(p) PROVE pidFile' \in Kept
    BY <1>1, <2>1 DEF WritePid
  <2>2. ASSUME NEW p \in Pids, TruncatePid(p) \/ Remove(p) PROVE pidFile' \in Kept
    BY <2>2 DEF TruncatePid, Remove
  <2>3. QED
    BY <1>1, <2>1, <2>2 DEF ProcessNext, Script, Loop, Invoke, TestFile, ReadFile, Refuse,
       StartAnyway, Spawn, Launched, Stop, Status, LoadFromDisk, OtherBegins,
       OtherEnds, LoopDies, OnlyProc, processVars
<1>5. memory'.pid \in Kept
  <2>1. CASE LoadFromDisk
    BY <1>1, <2>1 DEF LoadFromDisk
  <2>2. QED
    BY <1>1, <2>1 DEF ProcessNext, Script, Loop, Invoke, TestFile, ReadFile, Refuse,
       StartAnyway, Spawn, Launched, Stop, Status, Remove, TruncatePid, WritePid, OtherBegins, OtherEnds, LoopDies, OnlyProc, processVars
<1>6. ASSUME NEW q \in Pids
      PROVE  proc'[q].pid \in Kept \/ \E s \in Pids : proc'[q].pid = s /\ Launcher(s)
  <2>1. ASSUME NEW p \in Pids, Spawn(p)
        PROVE  proc'[q].pid \in Kept \/ (proc'[q].pid = p /\ Launcher(p))
    <3>1. p \in used
      BY <2>1 DEF Spawn, At, Bookkeeping, Alive
    <3>2. PICK r \in Pids :
            /\ Free(r)
            /\ proc' = [Begin(r, "loop", "truncate", p) EXCEPT ![p].at = "exit"]
            /\ used' = used \cup {r}
      BY <2>1 DEF Spawn
    <3>3. r # p /\ proc[p].kind = "start"
      BY <2>1, <3>2 DEF Spawn, At, Free, Alive
    <3>4. Launcher(p)
      BY <3>1, <3>2, <3>3 DEF NamesStarter, At, Begin, ProcessTypeOK, Process
    <3>5. proc'[q].pid \in {p, proc[q].pid}
      BY <3>2, <3>3 DEF Begin, ProcessTypeOK, Process
    <3>6. QED
      BY <1>1, <3>4, <3>5
  <2>2. ASSUME NEW p \in Pids, NEW command \in Commands, Invoke(p, command)
        PROVE  proc'[q].pid \in {NoPid, proc[q].pid}
    BY <2>2 DEF Invoke, Begin, ProcessTypeOK, Process
  <2>3. ASSUME NEW p \in Pids, OtherBegins(p)
        PROVE  proc'[q].pid \in {NoPid, proc[q].pid}
    BY <2>3 DEF OtherBegins, Begin, ProcessTypeOK, Process
  <2>4. ASSUME NEW p \in Pids, ReadFile(p)
        PROVE  proc'[q].pid \in {NoPid, pidFile, proc[q].pid}
    BY <2>4 DEF ReadFile, ProcessTypeOK, Process
  <2>5. ASSUME NEW p \in Pids, Stop(p) PROVE proc'[q].pid \in {NoPid, proc[q].pid}
    BY <2>5 DEF Stop, Nobody, ProcessTypeOK, Process
  <2>6. ASSUME NEW p \in Pids, Exit(p) PROVE proc'[q].pid \in {NoPid, proc[q].pid}
    BY <2>6 DEF Exit, Nobody, ProcessTypeOK, Process
  <2>7. ASSUME NEW p \in Pids, NEW place, Goto(p, place)
        PROVE  proc'[q].pid = proc[q].pid
    BY <2>7 DEF Goto, ProcessTypeOK, Process
  <2>8. CASE proc' = proc
    BY <1>1, <2>8
  <2>9. ASSUME NEW p \in Pids, Script(p) \/ Loop(p) PROVE
          proc'[q].pid \in Kept \/ \E s \in Pids : proc'[q].pid = s /\ Launcher(s)
    <3> HIDE DEF Kept, Launcher
    <3>1. NoPid \in Kept
      BY DEF Kept
    <3>2. QED
      BY <1>1, <2>1, <2>4, <2>5, <2>6, <2>7, <2>8, <2>9, <3>1 DEF Script, Loop,
         TestFile, Refuse, StartAnyway, Launched, Remove, Status, TruncatePid,
         WritePid
  <2>10. QED
    <3> HIDE DEF Kept, Launcher
    <3>1. NoPid \in Kept
      BY DEF Kept
    <3>2. QED
      BY <1>1, <2>2, <2>3, <2>6, <2>8, <2>9, <3>1 DEF ProcessNext, LoadFromDisk, OtherEnds,
         LoopDies, processVars
<1>7. QED
  <2> DEFINE Good == {s \in Pids : /\ s \in used'
                                  /\ \/ proc'[s].kind = "nobody"
                                     \/ proc'[s].kind = "start" /\ proc'[s].at = "exit"
                                     \/ proc'[s].again}
  <2>1. \A s \in Pids : Launcher(s) => s \in Good
    BY DEF NamesStarter, At, Alive
  <2>2. \A x \in Kept : x \in Pids => x \in Good
    BY <1>2, <2>1
  <2>3. /\ pidFile' \in Pids => pidFile' \in Good
        /\ memory'.pid \in Pids => memory'.pid \in Good
        /\ \A q \in Pids : proc'[q].pid \in Pids => proc'[q].pid \in Good
    <3> HIDE DEF Good, Kept, Launcher
    <3> QED  BY <1>3, <1>5, <1>6, <2>1, <2>2
  <2>4. QED
    BY <2>3 DEF PidsNameStarters, NamesStarter, At, Alive

LEMMA InitRuntimeInv == ProcessInit => RuntimeInv
<1> SUFFICES ASSUME ProcessInit PROVE RuntimeInv
  OBVIOUS
<1>1. ProcessTypeOK
  BY ProcessAssumption, NobodyIsProcess DEF ProcessInit, ProcessTypeOK
<1>2. Bookkeeping
  BY DEF ProcessInit, Bookkeeping, Alive, Nobody
<1>3. PidsNameStarters
  BY ProcessAssumption DEF ProcessInit, PidsNameStarters, Nobody
<1>4. TornFileIsNotRunning
  BY DEF ProcessInit, TornFileIsNotRunning
<1>5. QED
  BY <1>1, <1>2, <1>3, <1>4 DEF RuntimeInv

LEMMA RuntimeInvStep == RuntimeInv /\ [ProcessNext]_processVars => RuntimeInv'
BY TypeStep, BookkeepingStep, PidsNameStartersStep, RunningStep DEF RuntimeInv

\* The inductive invariant: whatever the shells, the loops and the system do,
\* a live process has a PID that was given out, and every PID kept anywhere is
\* that of a start command.
THEOREM RuntimeInvariant == ProcessSpec => []RuntimeInv
<1>1. ProcessInit => RuntimeInv
  BY InitRuntimeInv
<1>2. RuntimeInv /\ [ProcessNext]_processVars => RuntimeInv'
  BY RuntimeInvStep
<1>3. QED
  BY <1>1, <1>2, PTL DEF ProcessSpec

\* Every variable of runtime.sh's process control keeps its type.
THEOREM ProcessTypes == ProcessSpec => []ProcessTypeOK
<1>1. RuntimeInv => ProcessTypeOK
  BY DEF RuntimeInv
<1>2. QED
  BY <1>1, RuntimeInvariant, PTL

\* What the bot shows as RUNNING is a process the system has started, never what
\* it made of a torn PID file, whatever the loops are writing meanwhile.
THEOREM TornFilesAreSeen == ProcessSpec => []TornFileIsNotRunning
<1>1. RuntimeInv => TornFileIsNotRunning
  BY DEF RuntimeInv
<1>2. QED
  BY <1>1, RuntimeInvariant, PTL

-----------------------------------------------------------------------------
(* What the start of a loop rests on.                                      *)

\* How many steps a start command has before it before its loop is there.
StepsLeft(p) ==
  CASE proc[p].at = "test"  -> 4
    [] proc[p].at = "read"  -> 3
    [] proc[p].at = "probe" -> 2
    [] proc[p].at = "spawn" -> 1
    [] OTHER                -> 0

\* A start command, until it is about to end, gets nearer to its loop with
\* whatever step it takes, unless it is refused; it has its loop when it gets
\* there.  No stop kills it on its way, whatever the PID file says, unless its PID
\* had belonged to another process before.
StartsRunThrough ==
  [][\A p \in Pids :
       proc[p].kind = "start" /\ proc[p].at # "exit" /\ ~proc[p].again
         => \/ UNCHANGED proc[p]
            \/ Refuse(p)
            \/ /\ proc'[p].kind = "start" /\ StepsLeft(p)' < StepsLeft(p)
               /\ proc'[p].at = "exit" => \E q \in Loops' \ Loops : proc'[q].pid = p]_processVars

LEMMA StartSteps ==
  ASSUME RuntimeInv, [ProcessNext]_processVars, NEW p \in Pids,
         proc[p].kind = "start", proc[p].at # "exit", ~proc[p].again
  PROVE  \/ UNCHANGED proc[p]
         \/ Refuse(p)
         \/ /\ proc'[p].kind = "start" /\ StepsLeft(p)' < StepsLeft(p)
            /\ proc'[p].at = "exit" => \E q \in Loops' \ Loops : proc'[q].pid = p
<1> DEFINE Nearer == proc'[p].kind = "start" /\ StepsLeft(p)' < StepsLeft(p)
<1>0. proc \in [Pids -> Process] /\ proc[p] \in Process
  BY DEF RuntimeInv, ProcessTypeOK
<1>1. ASSUME TestFile(p) PROVE Nearer /\ proc'[p].at # "exit"
  <2>1. proc[p].at = "test" /\ (Goto(p, "read") \/ Goto(p, "spawn"))
    BY <1>1 DEF TestFile, At
  <2>2. proc'[p].kind = "start" /\ proc'[p].at \in {"read", "spawn"}
    BY <1>0, <2>1 DEF Goto, Process
  <2>3. QED
    BY <2>1, <2>2 DEF StepsLeft
<1>2. ASSUME ReadFile(p) PROVE Nearer /\ proc'[p].at # "exit"
  <2>1. proc[p].at = "read" /\ proc'[p].kind = "start" /\ proc'[p].at = "probe"
    BY <1>0, <1>2 DEF ReadFile, At, Process
  <2>2. QED
    BY <2>1 DEF StepsLeft
<1>3. ASSUME StartAnyway(p) PROVE Nearer /\ proc'[p].at # "exit"
  <2>1. proc[p].at = "probe" /\ proc'[p].kind = "start" /\ proc'[p].at = "spawn"
    BY <1>0, <1>3 DEF StartAnyway, At, Goto, Process
  <2>2. QED
    BY <2>1 DEF StepsLeft
<1>4. ASSUME Spawn(p)
      PROVE  Nearer /\ \E q \in Loops' \ Loops : proc'[q].pid = p
  <2>1. PICK q \in Pids :
          /\ Free(q)
          /\ proc' = [Begin(q, "loop", "truncate", p) EXCEPT ![p].at = "exit"]
    BY <1>4 DEF Spawn
  <2>2. q # p /\ proc[q].kind # "loop"
    BY <2>1 DEF Free, Alive
  <2>3. proc[p].at = "spawn" /\ proc'[p].kind = "start" /\ proc'[p].at = "exit"
    BY <1>0, <1>4, <2>1, <2>2 DEF Spawn, Begin, At, Process
  <2>4. proc'[q].kind = "loop" /\ proc'[q].pid = p
    BY <1>0, <2>1, <2>2 DEF Begin
  <2>5. QED
    BY <2>2, <2>3, <2>4 DEF StepsLeft, Loops
<1>5. ASSUME Script(p)
      PROVE  TestFile(p) \/ ReadFile(p) \/ Refuse(p) \/ StartAnyway(p) \/ Spawn(p)
  BY <1>5 DEF Script, Launched, Stop, Remove, Status, At
<1>6. ASSUME NEW r \in Pids, r # p, Stop(r) PROVE UNCHANGED proc[p]
  <2>1. proc[r].pid # p
    BY DEF RuntimeInv, PidsNameStarters, NamesStarter, Alive, At
  <2>2. QED
    BY <1>6, <2>1 DEF Stop
<1>7. ASSUME NEW r \in Pids, r # p, Script(r) PROVE UNCHANGED proc[p]
  <2>1. CASE Spawn(r)
    BY <1>0, <1>7, <2>1 DEF Spawn, Begin, Free, Alive
  <2>2. CASE Stop(r)
    BY <1>6, <1>7, <2>2
  <2>3. CASE ~Spawn(r) /\ ~Stop(r)
    BY <1>0, <1>7, <2>3 DEF Script, TestFile, ReadFile, Refuse, StartAnyway, Launched,
       Remove, Status, Goto, Exit
  <2>4. QED
    BY <2>1, <2>2, <2>3
<1>8. ASSUME NEW r \in Pids, Loop(r) \/ OtherEnds(r) \/ LoopDies(r) PROVE UNCHANGED proc[p]
  BY <1>0, <1>8 DEF Loop, TruncatePid, WritePid, OtherEnds, LoopDies, Goto, Exit, At
<1>9. ASSUME NEW r \in Pids, NEW command \in Commands, Invoke(r, command) \/ OtherBegins(r)
       PROVE  UNCHANGED proc[p]
  BY <1>0, <1>9 DEF Invoke, OtherBegins, Begin, Free, Alive
<1>10. CASE LoadFromDisk \/ UNCHANGED processVars
  BY <1>10 DEF LoadFromDisk, processVars
<1>11. QED
  BY <1>1, <1>2, <1>3, <1>4, <1>5, <1>7, <1>8, <1>9, <1>10 DEF ProcessNext, Commands

\* A start that is not refused leaves a loop of its own behind, in at most four
\* steps, however many commands run at once.
THEOREM StartsLeaveTheirLoop == ProcessSpec => StartsRunThrough
<1>1. RuntimeInv /\ [ProcessNext]_processVars
        => [\A p \in Pids :
              proc[p].kind = "start" /\ proc[p].at # "exit" /\ ~proc[p].again
                => \/ UNCHANGED proc[p]
                   \/ Refuse(p)
                   \/ /\ proc'[p].kind = "start" /\ StepsLeft(p)' < StepsLeft(p)
                      /\ proc'[p].at = "exit"
                           => \E q \in Loops' \ Loops : proc'[q].pid = p]_processVars
  BY StartSteps
<1>2. QED
  BY <1>1, RuntimeInvariant, PTL DEF ProcessSpec, StartsRunThrough
=============================================================================
