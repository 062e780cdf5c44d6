------------------------------- MODULE MC_Intent -------------------------------
(***************************************************************************)
(* The two classifiers on every message made of at most MaxPhrases of the  *)
(* listed phrases; a user words a message phrase by phrase.                *)
(***************************************************************************)
EXTENDS Intent, FiniteSets

CONSTANT MaxPhrases

VARIABLES message,  \* what is written so far
          other     \* statuses of the executions in progress elsewhere

MessageInit == message = {} /\ other = {}

Others ==
  /\ message = {}
  /\ other' \in SUBSET {"RUNNING", "COMPLETED"}
  /\ UNCHANGED message

Append1(p) ==
  /\ Cardinality(message) < MaxPhrases
  /\ message' = message \cup {p}
  /\ UNCHANGED other

MessageNext == Others \/ \E p \in Phrases \ message : Append1(p)

Restrained(m) == fallbackAnalysis(m) \in {"Blocking", "Investigation", "Auditing"}

-----------------------------------------------------------------------------

\* Once a message reads as a stop, an investigation or an audit, nothing the
\* user adds to it makes the cognition engine execute: the restraining lists
\* come before the execution patterns.
RestraintIsMonotone ==
  [][Restrained(message) => Restrained(message')]_<<message, other>>

\* A message with the word "nao " is not dispatched by the cognition engine,
\* whatever execution patterns it also has: it reads as one of the listed
\* phrases (an investigation) or falls through the execution patterns.  This is
\* said of this word and of this engine only: "don't" and "não" are no
\* negations to it, and the inference of Execute knows none.
NaoNeverDispatches ==
  Matches(message, negations) =>
    ~ShouldDispatchOpenHands(fallbackAnalysis(message), other)
=============================================================================
