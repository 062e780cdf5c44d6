------------------------------- MODULE Intent -------------------------------
(***************************************************************************)
(* The two classifiers that decide what a chat message asks for:           *)
(* CognitionEngine.fallbackAnalysis (internal/intent/cognition.go) and the *)
(* inference ExecutionLifecycle.Execute makes when its caller hands it no  *)
(* intent (internal/intent/lifecycle.go).  Both search the lower-cased     *)
(* message for substrings of fixed lists, so a message is modelled as the  *)
(* set of listed phrases it contains.  One or two representatives of every *)
(* list are kept; a phrase sits in every list one of whose entries is a    *)
(* substring of it ("don't execute" contains "execute").                   *)
(***************************************************************************)
EXTENDS Integers, Sequences, FiniteSetsExt

Phrases == {"stop", "dont_execute", "nao_execute", "just_analyze", "check",
            "fix", "agora", "nao_", "roadmap", "priority", "como", "why",
            "status", "ok", "ok_then"}

Message == SUBSET Phrases

IntentTypes == {"Unknown", "Investigation", "Execution", "Planning",
                "Prioritization", "Blocking", "Auditing", "Clarification",
                "Acknowledgment"}

Matches(m, patterns) == m \cap patterns # {}

-----------------------------------------------------------------------------
(* cognition.go *)

blockingPatterns       == {"stop"}
investigationPatterns  == {"dont_execute", "nao_execute", "just_analyze"}
auditingPatterns       == {"check"}
executionPatterns      == {"fix", "agora", "dont_execute", "nao_execute"}
planningPatterns       == {"roadmap"}
prioritizationPatterns == {"priority"}
clarificationPatterns  == {"como"}
negations              == {"nao_", "nao_execute"}

Negated_unchecked(m) == FALSE   \* variant: "nao " forgotten

\* "nao " is the only word the code takes for a negation ("don't" and the
\* accented "não" are none).  It lets a message fall through the execution
\* patterns, unless it is that of the listed "nao execute".
Negated(m) == Matches(m, negations) /\ "nao_execute" \notin m

\* The lists in the order fallbackAnalysis tries them, each with whether it
\* applies to the message: first those that hold the bot back, then the rest;
\* acknowledgments are compared with the whole text, or with its beginning when a
\* full stop or an exclamation mark follows ("ok_then").
Restraining(m) ==
  << <<"Blocking",       Matches(m, blockingPatterns)>>,
     <<"Investigation",  Matches(m, investigationPatterns)>>,
     <<"Auditing",       Matches(m, auditingPatterns)>> >>

Acting(m) ==
  << <<"Execution",      Matches(m, executionPatterns) /\ ~Negated(m)>>,
     <<"Planning",       Matches(m, planningPatterns)>>,
     <<"Prioritization", Matches(m, prioritizationPatterns)>>,
     <<"Clarification",  Matches(m, clarificationPatterns)>>,
     <<"Acknowledgment", m = {"ok"} \/ "ok_then" \in m>> >>

Tried_actFirst(m) == Acting(m) \o Restraining(m)   \* variant: order swapped

Tried(m) == Restraining(m) \o Acting(m)

\* The first list that applies decides; none: ask for clarification.
fallbackAnalysis(m) ==
  LET hits == {i \in 1..Len(Tried(m)) : Tried(m)[i][2]}
  IN  IF hits = {} THEN "Clarification" ELSE Tried(m)[Min(hits)][1]

ShouldExecute(type) == type = "Execution"
ShouldStop(type)    == type = "Blocking"

\* ShouldDispatchOpenHands, given the statuses of the executions in progress.
ShouldDispatchOpenHands(type, activeStatuses) ==
  /\ ~ShouldStop(type)
  /\ ShouldExecute(type)
  /\ activeStatuses \cap {"RUNNING", "IN_PROGRESS"} = {}

-----------------------------------------------------------------------------
(* lifecycle.go, Execute with a nil intent *)

executionTriggers     == {"fix", "dont_execute", "nao_execute"}
investigationTriggers == {"why", "como", "check", "status"}

InferIntent(m) ==
  IF Matches(m, executionTriggers) /\ ~Matches(m, {"why", "just_analyze"})
    THEN "Execution"
    ELSE IF Matches(m, investigationTriggers) THEN "Investigation"
                                              ELSE "Execution"
=============================================================================
