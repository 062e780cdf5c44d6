---------------------------- MODULE Decisions_proofs ----------------------------
(***************************************************************************)
(* What the classifiers keep to, for messages and findings of any length;  *)
(* and that a run of the parts beside each other is one of each part.      *)
(***************************************************************************)
EXTENDS MC_Parts, ContextAssembly_proofs

-----------------------------------------------------------------------------
(* Messages.                                                               *)

\* The lists one by one, in the order they are tried: their names.
LEMMA TriedTypes ==
  ASSUME NEW m
  PROVE  /\ Len(Tried(m)) = 8
         /\ Tried(m)[1][1] = "Blocking"
         /\ Tried(m)[2][1] = "Investigation"
         /\ Tried(m)[3][1] = "Auditing"
         /\ Tried(m)[4][1] = "Execution"
         /\ Tried(m)[5][1] = "Planning"
         /\ Tried(m)[6][1] = "Prioritization"
         /\ Tried(m)[7][1] = "Clarification"
         /\ Tried(m)[8][1] = "Acknowledgment"
PROOF BY SMTT(30) DEF Tried, Restraining, Acting

\* When the first four of them apply.
LEMMA TriedTests ==
  ASSUME NEW m
  PROVE  /\ Tried(m)[1][2] <=> Matches(m, blockingPatterns)
         /\ Tried(m)[2][2] <=> Matches(m, investigationPatterns)
         /\ Tried(m)[3][2] <=> Matches(m, auditingPatterns)
         /\ Tried(m)[4][2] <=> Matches(m, executionPatterns) /\ ~Negated(m)
PROOF
<1> DEFINE blocks == Matches(m, blockingPatterns)
           investigates == Matches(m, investigationPatterns)
           audits == Matches(m, auditingPatterns)
           executes == Matches(m, executionPatterns) /\ ~Negated(m)
<1>1. /\ Tried(m)[1] = <<"Blocking", blocks>>
      /\ Tried(m)[2] = <<"Investigation", investigates>>
      /\ Tried(m)[3] = <<"Auditing", audits>>
      /\ Tried(m)[4] = <<"Execution", executes>>
  BY SMTT(30) DEF Tried, Restraining, Acting
<1>2. ASSUME NEW e, NEW n, NEW b \in BOOLEAN, e = <<n, b>> PROVE e[2] <=> b
  BY <1>2
<1>3. blocks \in BOOLEAN /\ investigates \in BOOLEAN /\ audits \in BOOLEAN /\ executes \in BOOLEAN
  BY DEF Matches, Negated
<1> HIDE DEF blocks, investigates, audits, executes
<1>4. /\ Tried(m)[1][2] <=> blocks
      /\ Tried(m)[2][2] <=> investigates
      /\ Tried(m)[3][2] <=> audits
      /\ Tried(m)[4][2] <=> executes
  BY <1>1, <1>2, <1>3
<1> QED BY <1>4 DEF blocks, investigates, audits, executes

\* The least element of a set of list numbers.
LEMMA MinOfHits ==
  ASSUME NEW S \in SUBSET (1..8), S # {}
  PROVE  Min(S) \in S /\ \A i \in S : Min(S) <= i
PROOF
<1>1. \E i \in S : \A j \in S : i <= j
  <2> SUFFICES ASSUME \A i \in S : \E j \in S : j < i PROVE FALSE
    OBVIOUS
  <2>1. 1 \notin S OBVIOUS
  <2>2. 2 \notin S BY <2>1
  <2>3. 3 \notin S BY <2>1, <2>2
  <2>4. 4 \notin S BY <2>1, <2>2, <2>3
  <2>5. 5 \notin S BY <2>1, <2>2, <2>3, <2>4
  <2>6. 6 \notin S BY <2>1, <2>2, <2>3, <2>4, <2>5
  <2>7. 7 \notin S BY <2>1, <2>2, <2>3, <2>4, <2>5, <2>6
  <2>8. 8 \notin S BY <2>1, <2>2, <2>3, <2>4, <2>5, <2>6, <2>7
  <2>9. PICK k \in S : k \in 1..8
    OBVIOUS
  <2> QED BY <2>1, <2>2, <2>3, <2>4, <2>5, <2>6, <2>7, <2>8, <2>9
<1> QED BY <1>1 DEF Min

\* The first list that applies decides.
LEMMA FirstHitDecides ==
  ASSUME NEW m
  PROVE  \/ /\ \A i \in 1..8 : ~Tried(m)[i][2]
            /\ fallbackAnalysis(m) = "Clarification"
         \/ \E i \in 1..8 :
              /\ Tried(m)[i][2]
              /\ \A j \in 1..8 : j < i => ~Tried(m)[j][2]
              /\ fallbackAnalysis(m) = Tried(m)[i][1]
PROOF
<1> DEFINE hits == {i \in 1..Len(Tried(m)) : Tried(m)[i][2]}
<1>1. hits = {i \in 1..8 : Tried(m)[i][2]}
  BY TriedTypes
<1>2. CASE hits = {}
  BY <1>1, <1>2 DEF fallbackAnalysis
<1>3. CASE hits # {}
  <2> DEFINE i == Min(hits)
  <2>1. i \in hits /\ \A j \in hits : i <= j
    BY <1>1, <1>3, MinOfHits
  <2>2. fallbackAnalysis(m) = Tried(m)[i][1]
    BY <1>3 DEF fallbackAnalysis
  <2>3. \A j \in 1..8 : j < i => ~Tried(m)[j][2]
    BY <1>1, <2>1
  <2> QED BY <1>1, <2>1, <2>2, <2>3
<1> QED BY <1>2, <1>3

\* A message is restrained exactly when it matches a restraining list.
LEMMA RestrainedBy ==
  ASSUME NEW m
  PROVE  Restrained(m) <=> \/ Matches(m, blockingPatterns)
                           \/ Matches(m, investigationPatterns)
                           \/ Matches(m, auditingPatterns)
PROOF
<1>1. Restrained(m) <=> \E i \in 1..3 : Tried(m)[i][2]
  <2>1. CASE \A i \in 1..8 : ~Tried(m)[i][2]
    BY <2>1, FirstHitDecides DEF Restrained
  <2>2. ASSUME NEW i \in 1..8, Tried(m)[i][2],
               \A j \in 1..8 : j < i => ~Tried(m)[j][2],
               fallbackAnalysis(m) = Tried(m)[i][1]
        PROVE  Restrained(m) <=> \E j \in 1..3 : Tried(m)[j][2]
    <3>1. i \in 1..3 <=> Restrained(m)
      BY <2>2, TriedTypes DEF Restrained
    <3> QED BY <2>2, <3>1
  <2> QED BY <2>1, <2>2, FirstHitDecides
<1>2. (\E i \in 1..3 : Tried(m)[i][2]) <=> Tried(m)[1][2] \/ Tried(m)[2][2] \/ Tried(m)[3][2]
  OBVIOUS
<1> QED BY <1>1, <1>2, TriedTests

\* Only a message that says to act, and has no "nao ", reads as an execution.
LEMMA ExecutionIsMeant ==
  ASSUME NEW m, fallbackAnalysis(m) = "Execution"
  PROVE  /\ Matches(m, executionPatterns)
         /\ ~Matches(m, negations)
PROOF
<1>1. PICK i \in 1..8 : /\ Tried(m)[i][2]
                        /\ \A j \in 1..8 : j < i => ~Tried(m)[j][2]
                        /\ fallbackAnalysis(m) = Tried(m)[i][1]
  BY FirstHitDecides
<1>2. i = 4
  BY <1>1, TriedTypes
<1>3. Tried(m)[4][2] /\ ~Tried(m)[2][2]
  BY <1>1, <1>2
<1>4. "nao_execute" \notin m
  BY <1>3, TriedTests DEF Matches, investigationPatterns
<1> QED BY <1>3, <1>4, TriedTests DEF Negated

\* A user only adds to a message.
LEMMA MessageGrows == [Next]_partsVars => message \subseteq message'
PROOF
<1> SUFFICES ASSUME [Next]_partsVars PROVE message \subseteq message'
  OBVIOUS
<1> QED BY DEF Next, MessageWorks, FindingWorks, ContextWorks, StoreWorks, ProcessWorks,
       MessageNext, Others, Append1, messageVars, partsVars

\* The cognition engine dispatches no message with the word "nao ", the one
\* negation it knows, whatever else the message says and whatever runs elsewhere.
THEOREM NaoHoldsBack == Spec => []NaoNeverDispatches
PROOF
<1>1. NaoNeverDispatches
  BY ExecutionIsMeant DEF NaoNeverDispatches, ShouldDispatchOpenHands, ShouldExecute
<1> QED BY <1>1, PTL

\* What restrains a message still does when the user adds to it.
THEOREM RestraintHolds == Spec => RestraintIsMonotone
PROOF
<1>1. ASSUME NEW m, NEW n, m \subseteq n, Restrained(m)
      PROVE  Restrained(n)
  BY <1>1, RestrainedBy DEF Matches
<1>2. [Next]_partsVars
        => [Restrained(message) => Restrained(message')]_<<message, other>>
  BY <1>1, MessageGrows
<1> QED BY <1>2, PTL DEF Spec, RestraintIsMonotone
-----------------------------------------------------------------------------
(* Findings.                                                               *)

\* On every finding the gate of the Go loops lets run only what the executor
\* applies, and runtime.sh shows nothing as riskier than the Go loops treat it.
THEOREM GatesAgree ==
  ASSUME NEW f
  PROVE  /\ classifyRisk(f) = "low" => Action[ObjectRisk(f)] = "applied"
         /\ classify_risk(f) = "high" => classifyRisk(f) = "high"
         /\ classifyRisk(f) = "low" => classify_risk(f) = "low"
PROOF
<1>1. ASSUME HasAny(f.title \cup f.content, APPROVAL_REQUIRED) PROVE Protected(f)
  <2>1. Joined \in f.title \/ Joined \in f.content
    BY <1>1 DEF HasAny, Has, APPROVAL_REQUIRED, Inside, Joined
  <2>2. "auth" \in highRiskKeywords /\ <<"auth", Joined>> \in Inside
    BY DEF highRiskKeywords, Inside
  <2> QED BY <2>1, <2>2 DEF Protected, HasAny, Has
<1>2. classifyRisk(f) = "low" => ~Protected(f) /\ ~Grave(f) /\ HasAny(f.title, lowRiskKeywords)
  BY DEF classifyRisk
<1>3. classifyRisk(f) = "low" => Action[ObjectRisk(f)] = "applied"
  BY <1>1, <1>2 DEF ObjectRisk, Action
<1>4. HasAny(f.title, highRiskKeywords) => Protected(f)
  BY DEF Protected
<1>5. classify_risk(f) = "high" => classifyRisk(f) = "high"
  BY <1>4 DEF classify_risk, classifyRisk
<1>6. HasAny(f.title, lowRiskKeywords) => HasAny(f.title, lowRiskKeywords \cup {"dead_code"})
  BY DEF HasAny
<1>7. classifyRisk(f) = "low" => classify_risk(f) = "low"
  BY <1>2, <1>4, <1>6 DEF classify_risk
<1> QED BY <1>3, <1>5, <1>7

\* On the findings of a run: what a Go loop lets run by itself, the executor
\* applies.
THEOREM LowRunsApply == Spec => []AutoRunIsApplied
PROOF
<1>1. AutoRunIsApplied
  BY GatesAgree DEF AutoRunIsApplied
<1> QED BY <1>1, PTL

\* ... and the shell loop shows nothing as riskier than the Go loops treat it.
THEOREM ShellShowsNoMore == Spec => []NotificationNotStricter
PROOF
<1>1. NotificationNotStricter
  BY GatesAgree DEF NotificationNotStricter
<1> QED BY <1>1, PTL

\* A longer content or a graver severity keeps every test that speaks for risk.
LEMMA TestsPersist ==
  ASSUME NEW f, NEW g, g.title = f.title, f.content \subseteq g.content,
         f.severity \in Severities, g.severity \in Severities,
         Rank[g.severity] >= Rank[f.severity]
  PROVE  /\ Grave(f) => Grave(g)
         /\ Protected(f) => Protected(g)
         /\ HasAny(f.title \cup f.content, APPROVAL_REQUIRED)
              => HasAny(g.title \cup g.content, APPROVAL_REQUIRED)
PROOF
<1>1. Grave(f) => Grave(g)
  BY DEF Grave, Severities, Rank
<1>2. ASSUME NEW s, NEW t, NEW K, s \subseteq t, HasAny(s, K) PROVE HasAny(t, K)
  BY <1>2 DEF HasAny, Has
<1>3. Protected(f) => Protected(g)
  BY <1>2 DEF Protected
<1>4. f.title \cup f.content \subseteq g.title \cup g.content
  OBVIOUS
<1> QED BY <1>1, <1>2, <1>3, <1>4

\* The classifiers only look at these tests and at the title.
LEMMA RiskPersists ==
  ASSUME NEW f, NEW g, g.title = f.title, f.content \subseteq g.content,
         f.severity \in Severities, g.severity \in Severities,
         Rank[g.severity] >= Rank[f.severity]
  PROVE  /\ Rank[classifyRisk(g)]  >= Rank[classifyRisk(f)]
         /\ Rank[classify_risk(g)] >= Rank[classify_risk(f)]
         /\ Rank[ObjectRisk(g)]    >= Rank[ObjectRisk(f)]
         /\ Rank[ArrayRisk(g)]     >= Rank[ArrayRisk(f)]
PROOF
<1>1. Rank["low"] = 1 /\ Rank["medium"] = 2 /\ Rank["high"] = 3
  BY DEF Rank
<1>2. Rank[classifyRisk(g)] >= Rank[classifyRisk(f)]
  <2>1. CASE Protected(f) \/ Grave(f)
    <3>1. Protected(g) \/ Grave(g)
      BY <2>1, TestsPersist
    <3>2. classifyRisk(f) = "high" /\ classifyRisk(g) = "high"
      BY <2>1, <3>1 DEF classifyRisk
    <3> QED BY <1>1, <3>2
  <2>2. CASE ~(Protected(f) \/ Grave(f))
    <3>1. classifyRisk(f) = IF HasAny(g.title, lowRiskKeywords) THEN "low" ELSE "medium"
      BY <2>2 DEF classifyRisk
    <3> QED BY <1>1, <3>1 DEF classifyRisk
  <2> QED BY <2>1, <2>2
<1>3. Rank[classify_risk(g)] >= Rank[classify_risk(f)]
  <2>1. Grave(f) => Grave(g)
    BY TestsPersist
  <2>2. classify_risk(f) = IF HasAny(g.title, highRiskKeywords) \/ Grave(f) THEN "high"
                           ELSE IF HasAny(g.title, lowRiskKeywords \cup {"dead_code"}) THEN "low"
                           ELSE "medium"
    BY DEF classify_risk
  <2> QED BY <1>1, <2>1, <2>2 DEF classify_risk
<1>4. Rank[ObjectRisk(g)] >= Rank[ObjectRisk(f)]
  <2>1. ObjectRisk(f) = "high" => ObjectRisk(g) = "high"
    BY TestsPersist DEF ObjectRisk
  <2> QED BY <1>1, <2>1 DEF ObjectRisk
<1>5. Rank[ArrayRisk(g)] >= Rank[ArrayRisk(f)]
  <2> DEFINE joined(h) == HasAny(h.title \cup h.content, APPROVAL_REQUIRED)
  <2>1. CASE Grave(f) \/ joined(f)
    <3>1. Grave(g) \/ joined(g)
      BY <2>1, TestsPersist
    <3>2. ArrayRisk(f) = "high" /\ ArrayRisk(g) = "high"
      BY <2>1, <3>1 DEF ArrayRisk
    <3> QED BY <1>1, <3>2
  <2>2. CASE ~(Grave(f) \/ joined(f))
    <3>1. ArrayRisk(f) = IF HasAny(g.title, AUTO_FIX_ALLOWED) THEN "low" ELSE "medium"
      BY <2>2 DEF ArrayRisk
    <3> QED BY <1>1, <3>1 DEF ArrayRisk
  <2> QED BY <2>1, <2>2
<1> QED BY <1>2, <1>3, <1>4, <1>5

\* The texts and the severity of a finding keep their types.
FindingTypeOK ==
  finding \in [title : SUBSET Vocabulary, content : SUBSET Vocabulary, severity : Severities]

LEMMA FindingTypes == Spec => []FindingTypeOK
PROOF
<1>1. Init => FindingTypeOK
  BY DEF Init, FindingInit, FindingTypeOK, Severities
<1>2. FindingTypeOK /\ [Next]_partsVars => FindingTypeOK'
  <2> SUFFICES ASSUME FindingTypeOK, [Next]_partsVars
               PROVE  FindingTypeOK'
    OBVIOUS
  <2>1. ASSUME NEW part \in {"title", "content"}, Word(part) PROVE FindingTypeOK'
    BY <2>1 DEF Word, FindingTypeOK
  <2>2. CASE Reassess
    BY <2>2 DEF Reassess, FindingTypeOK
  <2>3. CASE UNCHANGED finding
    BY <2>3 DEF FindingTypeOK
  <2> QED BY <2>1, <2>2, <2>3 DEF Next, FindingNext, MessageWorks, FindingWorks, ContextWorks, StoreWorks, ProcessWorks, partsVars
<1> QED BY <1>1, <1>2, PTL DEF Spec

\* Whoever reassesses a finding, or adds to its content, makes no classifier
\* take it for less risky.
THEOREM RiskNeverRelaxes == Spec => SeverityNeverRelaxes
PROOF
<1> DEFINE Relaxes ==
       ~ ( /\ finding'.title = finding.title
           /\ Rank[finding'.severity] >= Rank[finding.severity]
           => /\ Rank[classifyRisk(finding')]  >= Rank[classifyRisk(finding)]
              /\ Rank[classify_risk(finding')] >= Rank[classify_risk(finding)]
              /\ Rank[ObjectRisk(finding')]    >= Rank[ObjectRisk(finding)]
              /\ Rank[ArrayRisk(finding')]     >= Rank[ArrayRisk(finding)] )
<1>1. ASSUME FindingTypeOK, FindingTypeOK', [Next]_partsVars
      PROVE  [~Relaxes]_finding
  <2>1. finding.content \subseteq finding'.content
    <3>1. ASSUME NEW part \in {"title", "content"}, Word(part)
          PROVE  finding.content \subseteq finding'.content
      BY <1>1, <3>1 DEF Word, FindingTypeOK
    <3>2. CASE Reassess
      BY <1>1, <3>2 DEF Reassess, FindingTypeOK
    <3>3. CASE UNCHANGED finding
      BY <3>3
    <3> QED BY <1>1, <3>1, <3>2, <3>3 DEF Next, FindingNext, MessageWorks, FindingWorks, ContextWorks, StoreWorks, ProcessWorks, partsVars
  <2>2. finding.severity \in Severities /\ finding'.severity \in Severities
    BY <1>1 DEF FindingTypeOK
  <2> QED BY <2>1, <2>2, RiskPersists
<1> QED BY <1>1, FindingTypes, PTL DEF Spec, SeverityNeverRelaxes

-----------------------------------------------------------------------------
(* Contexts.                                                               *)

\* What is proved of ContextAssembly on its own holds of it beside the others.
THEOREM ContextsRunAlone == Spec => ContextSpec
PROOF
<1>1. Init => ContextInit
  BY DEF Init
<1>2. [Next]_partsVars => [ContextNext]_contextVars
  BY DEF Next, MessageWorks, FindingWorks, ContextWorks, StoreWorks, ProcessWorks, partsVars
<1> QED BY <1>1, <1>2, PTL DEF Spec, ContextSpec
===============================================================================
