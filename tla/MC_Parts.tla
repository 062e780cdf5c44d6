------------------------------- MODULE MC_Parts -------------------------------
(***************************************************************************)
(* The parts that share nothing with each other or with the rest in one    *)
(* run: the classifiers of messages, those of findings, the assembly of    *)
(* contexts, the memory API's store and the process control of the shell   *)
(* runtime.  While one of them is at work the others rest in their initial *)
(* states, so the run sees of each part what a run of its own would see.   *)
(***************************************************************************)
EXTENDS MC_Intent, MC_RiskGate, MC_ContextAssembly, MC_MemoryStore, RuntimeProcess

messageVars == <<message, other>>
partsVars   == <<messageVars, finding, contextVars, storeVars, processVars>>

Init == MessageInit /\ FindingInit /\ ContextInit /\ StoreInit /\ ProcessInit

MessageWorks ==
  /\ FindingInit /\ ContextInit /\ StoreInit /\ ProcessInit
  /\ MessageNext
  /\ UNCHANGED <<finding, contextVars, storeVars, processVars>>

FindingWorks ==
  /\ MessageInit /\ ContextInit /\ StoreInit /\ ProcessInit
  /\ FindingNext
  /\ UNCHANGED <<messageVars, contextVars, storeVars, processVars>>

ContextWorks ==
  /\ MessageInit /\ FindingInit /\ StoreInit /\ ProcessInit
  /\ ContextNext
  /\ UNCHANGED <<messageVars, finding, storeVars, processVars>>

StoreWorks ==
  /\ MessageInit /\ FindingInit /\ ContextInit /\ ProcessInit
  /\ StoreNext
  /\ UNCHANGED <<messageVars, finding, contextVars, processVars>>

ProcessWorks ==
  /\ MessageInit /\ FindingInit /\ ContextInit /\ StoreInit
  /\ ProcessNext
  /\ UNCHANGED <<messageVars, finding, contextVars, storeVars>>

Next == MessageWorks \/ FindingWorks \/ ContextWorks \/ StoreWorks \/ ProcessWorks

Spec == Init /\ [][Next]_partsVars

\* The operating system runs every process that can run.
FairSpec ==
  Spec /\ \A p \in Pids : WF_processVars(Script(p)) /\ WF_processVars(Loop(p))
=============================================================================
