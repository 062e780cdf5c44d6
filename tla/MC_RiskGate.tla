------------------------------ MODULE MC_RiskGate ------------------------------
(***************************************************************************)
(* The classifiers on every finding whose title and content are written    *)
(* from Vocabulary, up to MaxWords words together, at every severity.      *)
(***************************************************************************)
EXTENDS RiskGate, Integers, FiniteSets

CONSTANT MaxWords

Vocabulary == {"missing", "auth", "payments", "runtime", "imports", "lint",
               "login", "unused_variables", "dead_code", Joined}

VARIABLE finding

FindingInit == finding = [title |-> {}, content |-> {}, severity |-> "low"]

Words == Cardinality(finding.title) + Cardinality(finding.content)

Word(part) ==
  /\ Words < MaxWords
  /\ \E w \in Vocabulary : finding' = [finding EXCEPT ![part] = @ \cup {w}]

\* The auditor reports the same text with another severity.
Reassess == \E s \in Severities : finding' = [finding EXCEPT !.severity = s]

FindingNext == Word("title") \/ Word("content") \/ Reassess

FindingSpec == FindingInit /\ [][FindingNext]_finding

-----------------------------------------------------------------------------

\* What a Go loop lets run by itself the executor applies: its alert "Executor
\* applied fix" is sent on exit status 0, which the executor also returns when
\* it blocks, and is true only because the two gates agree this way.
AutoRunIsApplied ==
  classifyRisk(finding) = "low" => Action[ObjectRisk(finding)] = "applied"

\* The shell loop never shows a finding as riskier than the Go loops treat it,
\* nor one that they fix as anything but low.
NotificationNotStricter ==
  /\ classify_risk(finding) = "high" => classifyRisk(finding) = "high"
  /\ classifyRisk(finding) = "low" => classify_risk(finding) = "low"

Rank == [low |-> 1, medium |-> 2, high |-> 3, critical |-> 4]

\* No classifier takes a finding for less risky because it is more severe, or
\* because its content says more.
SeverityNeverRelaxes ==
  [][ /\ finding'.title = finding.title
      /\ Rank[finding'.severity] >= Rank[finding.severity]
      => /\ Rank[classifyRisk(finding')]  >= Rank[classifyRisk(finding)]
         /\ Rank[classify_risk(finding')] >= Rank[classify_risk(finding)]
         /\ Rank[ObjectRisk(finding')]    >= Rank[ObjectRisk(finding)]
         /\ Rank[ArrayRisk(finding')]     >= Rank[ArrayRisk(finding)] ]_finding

\* "NEVER modifies auth/payment code": the executor itself does not apply a
\* finding about either.
ProtectedIsNotApplied ==
  HasAny(finding.title \cup finding.content, {"auth", "payment"})
    => Action[ObjectRisk(finding)] # "applied"
=============================================================================
