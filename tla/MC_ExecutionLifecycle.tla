------------------------ MODULE MC_ExecutionLifecycle ------------------------
(***************************************************************************)
(* ExecutionLifecycle for TLC.                                             *)
(***************************************************************************)
EXTENDS ExecutionLifecycle, TLC

Symmetry == Permutations(Callers) \cup Permutations(Tasks)

Ask(intent)  == [op |-> "message", intent |-> intent, text |-> {}]
Say(phrases) == [op |-> "message", intent |-> "nil", text |-> phrases]

\* Every handler, through the API and through the Router.
ApiRequests ==
  {[op |-> "stop", intent |-> "Unknown", text |-> {}],
   Ask("Execution"), Ask("Investigation"), Ask("Blocking"), Ask("Planning"),
   Say({"fix"})}
=============================================================================
