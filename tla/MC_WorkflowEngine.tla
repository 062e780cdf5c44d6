--------------------------- MODULE MC_WorkflowEngine ---------------------------
(***************************************************************************)
(* WorkflowEngine for TLC: two goroutines and two GitHub runs, so that a   *)
(* run can take another's entry and a poll can meet a stop or a cancel.    *)
(***************************************************************************)
EXTENDS WorkflowEngine, TLC

CallerSymmetry == Permutations(Callers)
=============================================================================
