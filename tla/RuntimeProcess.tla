---------------------------- MODULE RuntimeProcess ----------------------------
(***************************************************************************)
(* Process control: start, stop and status of                              *)
(* integrations/telegram/runtime/runtime.sh, run from any number of shells *)
(* over one PID file in /tmp, the loops they leave in the background, and  *)
(* the bot's OperationalMemory (integrations/telegram/context/memory.go),  *)
(* which reads the same file.  The operating system gives out the PIDs and *)
(* may give a free one out again; loops and other processes may die.       *)
(***************************************************************************)
EXTENDS Naturals, FiniteSets

CONSTANTS Pids,      \* process identifiers
          NoPid,     \* no identifier: an empty variable, 0 in the state file
          MaxCalls,  \* bound: invocations of the script
          MaxEvents  \* bound: deaths of loops, starts of other processes

ASSUME ProcessAssumption ==
  /\ {NoPid, "empty", "absent"} \cap Pids = {}
  /\ MaxCalls \in Nat
  /\ MaxEvents \in Nat

VARIABLES proc,     \* what runs under each PID
          used,     \* the PIDs given out so far
          pidFile,  \* PID_FILE: a PID, "empty" (just truncated) or "absent"
          memory,   \* RuntimePID and IsRunning of the bot's OperationalMemory
          calls, events   \* what has been used of the bounds

processVars == <<proc, used, pidFile, memory, calls, events>>

-----------------------------------------------------------------------------

Commands == {"start", "stop", "status"}
Kinds    == Commands \cup {"nobody", "other", "loop"}
Places   == {"test", "read", "probe", "spawn", "exit", "remove", "truncate",
             "write", "round"}

\* pid: the script's variable of that name; for a loop, its $$.  again: the
\* PID belonged to another process before.
Process == [kind : Kinds, at : Places, pid : Pids \cup {NoPid}, again : BOOLEAN]
Nobody  == [kind |-> "nobody", at |-> "exit", pid |-> NoPid, again |-> FALSE]

Alive(p) == p \in Pids /\ proc[p].kind # "nobody"
\* The system gives out unused PIDs in order, and may give out any that was
\* used and is free again.
Free(q)  == ~Alive(q) /\ (q \notin used => q = CHOOSE n \in Pids \ used : TRUE)
Loops    == {p \in Pids : proc[p].kind = "loop"}
At(p, kinds, place) == proc[p].kind \in kinds /\ proc[p].at = place

Begin(q, kind, place, pid) ==
  [proc EXCEPT ![q] = [kind |-> kind, at |-> place, pid |-> pid,
                       again |-> q \in used]]

ProcessInit ==
  /\ proc = [p \in Pids |-> Nobody]
  /\ used = {}
  /\ pidFile = "absent"
  /\ memory = [pid |-> NoPid, running |-> FALSE]
  /\ calls = 0
  /\ events = 0

\* There is a PID left for every start command that will need one for its loop:
\* a machine out of PIDs is not modelled.
Room ==
  LET starting == {p \in Pids : proc[p].kind = "start" /\ proc[p].at # "exit"}
  IN  Cardinality({p \in Pids : ~Alive(p)}) > 1 + Cardinality(starting)

-----------------------------------------------------------------------------
(* The script, up to what it does with the PID it has read.                *)

Invoke(p, command) ==
  /\ Free(p) /\ Room
  /\ calls < MaxCalls
  /\ calls' = calls + 1
  /\ proc' = Begin(p, command, "test", NoPid)
  /\ used' = used \cup {p}
  /\ UNCHANGED <<pidFile, memory, events>>

Goto(p, place) == proc' = [proc EXCEPT ![p].at = place]
Exit(p)        == proc' = [proc EXCEPT ![p] = Nobody]
OnlyProc       == UNCHANGED <<used, pidFile, memory, calls, events>>

\* if [ -f "$PID_FILE" ]
TestFile(p) ==
  /\ At(p, Commands, "test")
  /\ \/ pidFile # "absent" /\ Goto(p, "read")
     \/ pidFile = "absent" /\ proc[p].kind = "start" /\ Goto(p, "spawn")
     \/ pidFile = "absent" /\ proc[p].kind # "start" /\ Exit(p)
  /\ OnlyProc

ReadFile_raw(p) ==   \* variant: whatever the file holds is taken for a PID
  /\ At(p, Commands, "read")
  /\ proc' = [proc EXCEPT ![p] = [@ EXCEPT !.at = "probe", !.pid = pidFile]]
  /\ OnlyProc

\* pid=$(cat "$PID_FILE"); the file may be gone or empty by now.
ReadFile(p) ==
  /\ At(p, Commands, "read")
  /\ LET pid == IF pidFile \in Pids THEN pidFile ELSE NoPid
     IN  proc' = [proc EXCEPT ![p] = [@ EXCEPT !.at = "probe", !.pid = pid]]
  /\ OnlyProc

\* kill -0 succeeded: "Runtime already running".
Refuse(p) ==
  /\ At(p, {"start"}, "probe")
  /\ Alive(proc[p].pid)
  /\ Exit(p)
  /\ OnlyProc

StartAnyway_never(p) ==   \* variant: an existing file is enough to refuse
  /\ At(p, {"start"}, "probe")
  /\ ~Alive(proc[p].pid)
  /\ Exit(p)
  /\ OnlyProc

\* kill -0 failed: the file is stale.
StartAnyway(p) ==
  /\ At(p, {"start"}, "probe")
  /\ ~Alive(proc[p].pid)
  /\ Goto(p, "spawn")
  /\ OnlyProc

\* runtime_loop &: the subshell gets a PID of its own but keeps $$.
Spawn(p) ==
  /\ At(p, {"start"}, "spawn")
  /\ \E q \in Pids :
       /\ Free(q)
       /\ proc' = [Begin(q, "loop", "truncate", p) EXCEPT ![p].at = "exit"]
       /\ used' = used \cup {q}
  /\ UNCHANGED <<pidFile, memory, calls, events>>

\* The start command has logged "Runtime started".
Launched(p) ==
  /\ At(p, {"start"}, "exit")
  /\ Exit(p)
  /\ OnlyProc

\* kill "$pid": the process it names, if there is one, ends; it may be this
\* very script, with a PID that is in use again.
Stop(p) ==
  /\ At(p, {"stop"}, "probe")
  /\ proc' = [q \in Pids |->
                IF q = proc[p].pid THEN Nobody
                ELSE IF q = p THEN [proc[p] EXCEPT !.at = "remove"] ELSE proc[q]]
  /\ OnlyProc

\* rm -f "$PID_FILE"
Remove(p) ==
  /\ At(p, {"stop"}, "remove")
  /\ pidFile' = "absent"
  /\ Exit(p)
  /\ UNCHANGED <<used, memory, calls, events>>

\* status only reports what kill -0 says.
Status(p) ==
  /\ At(p, {"status"}, "probe")
  /\ Exit(p)
  /\ OnlyProc

-----------------------------------------------------------------------------
(* runtime_loop in its subshell, until its rounds begin.                   *)

\* echo $$ > "$PID_FILE": the file is truncated, then written.
TruncatePid(q) ==
  /\ At(q, {"loop"}, "truncate")
  /\ pidFile' = "empty"
  /\ Goto(q, "write")
  /\ UNCHANGED <<used, memory, calls, events>>

WritePid(q) ==
  /\ At(q, {"loop"}, "write")
  /\ pidFile' = proc[q].pid
  /\ Goto(q, "round")
  /\ UNCHANGED <<used, memory, calls, events>>

-----------------------------------------------------------------------------
(* The bot, and the rest of the machine.                                   *)

LoadFromDisk_unchecked ==   \* variant: the error of Sscanf ignored
  /\ pidFile # "absent"
  /\ memory' = [pid |-> IF pidFile = "empty" THEN NoPid ELSE pidFile,
                running |-> TRUE]
  /\ UNCHANGED <<proc, used, pidFile, calls, events>>

\* A PID that can be read is taken for a running runtime; nothing is reset.
LoadFromDisk ==
  /\ pidFile \in Pids
  /\ memory' = [pid |-> pidFile, running |-> TRUE]
  /\ UNCHANGED <<proc, used, pidFile, calls, events>>

OtherBegins(q) ==
  /\ Free(q) /\ Room
  /\ events < MaxEvents
  /\ events' = events + 1
  /\ proc' = Begin(q, "other", "exit", NoPid)
  /\ used' = used \cup {q}
  /\ UNCHANGED <<pidFile, memory, calls>>

OtherEnds(q) ==
  /\ proc[q].kind = "other"
  /\ Exit(q)
  /\ OnlyProc

\* A loop ends by something else than this script.
LoopDies(q) ==
  /\ proc[q].kind = "loop"
  /\ events < MaxEvents
  /\ events' = events + 1
  /\ Exit(q)
  /\ UNCHANGED <<used, pidFile, memory, calls>>

Script(p) ==
  \/ TestFile(p) \/ ReadFile(p) \/ Refuse(p) \/ StartAnyway(p) \/ Spawn(p)
  \/ Launched(p) \/ Stop(p) \/ Remove(p) \/ Status(p)

Loop(q) == TruncatePid(q) \/ WritePid(q)

ProcessNext ==
  \/ \E p \in Pids : \/ \E command \in Commands : Invoke(p, command)
                     \/ Script(p) \/ Loop(p)
                     \/ OtherBegins(p) \/ OtherEnds(p) \/ LoopDies(p)
  \/ LoadFromDisk

ProcessSpec == ProcessInit /\ [][ProcessNext]_processVars

-----------------------------------------------------------------------------
(* Properties.                                                             *)

ProcessTypeOK ==
  /\ proc \in [Pids -> Process]
  /\ used \subseteq Pids
  /\ pidFile \in Pids \cup {"empty", "absent"}
  /\ memory \in [pid : Pids \cup {NoPid}, running : BOOLEAN]
  /\ calls \in 0..MaxCalls
  /\ events \in 0..MaxEvents

\* What the bot shows as RUNNING is a process the system has started: a file
\* it finds torn, between its truncation and its PID, is not taken for one.
TornFileIsNotRunning == memory.running => memory.pid \in used

\* A start command that begins with no loop running and no other start
\* command under way is followed by a loop, also when the PID file is stale
\* (and its PID was not given out again).
LoneStart(p) ==
  /\ At(p, {"start"}, "test")
  /\ Loops = {}
  /\ \A q \in Pids \ {p} : proc[q].kind # "start"

StartLeavesLoop ==
  [](\A q \in Pids : ~proc[q].again)
    => \A p \in Pids : LoneStart(p) ~> Loops # {}
-----------------------------------------------------------------------------
(* What the script's own words promise.                                    *)

\* A command, up to the end of its work; a loop is part of its start until its
\* PID is written.
UnderWay ==
  {p \in Pids : \/ proc[p].kind \in Commands /\ proc[p].at # "exit"
                \/ At(p, {"loop"}, "truncate") \/ At(p, {"loop"}, "write")}

\* The easy case: each command ends before the next begins, no loop dies, no
\* other process begins and no PID is given out twice.
InTurn ==
  /\ Cardinality(UnderWay) <= 1
  /\ events = 0
  /\ \A p \in Pids : ~proc[p].again

OrderlySpec ==
  /\ ProcessInit /\ [][ProcessNext /\ InTurn']_processVars
  /\ \A p \in Pids : WF_processVars(Script(p)) /\ WF_processVars(Loop(p))

\* The PID that status and the bot show as that of the running runtime is the
\* PID of a loop.
FileNamesLoop == [](UnderWay = {} /\ pidFile \in Pids => pidFile \in Loops)

\* A start that has read a PID goes on only when there is no loop.
SecondStartRefused ==
  [](\A p \in Pids : At(p, {"start"}, "spawn") /\ proc[p].pid \in Pids => Loops = {})

\* After a stop the runtime is stopped.
StopEndsLoop == \A p \in Pids : At(p, {"stop"}, "test") ~> Loops = {}

\* Of what "RUNNING (PID: $pid)", "Runtime already running" and "Runtime
\* stopped" say, at least one thing is true, however orderly the script is
\* used.  Only a single behaviour that breaks all three refutes it.
APidPromiseHolds == FileNamesLoop \/ SecondStartRefused \/ StopEndsLoop
=============================================================================
