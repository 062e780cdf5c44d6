------------------------------- MODULE RiskGate -------------------------------
(***************************************************************************)
(* How a finding of the auditor is classified before anything acts on it:  *)
(* classifyRisk of the two Go loops (the bot's classifyBotRisk is the same *)
(* code), classify_risk of runtime.sh, and the two paths of the executor   *)
(* script.  All search texts for keywords as substrings, so a text is the  *)
(* set of words it holds, and Inside lists the keywords found in longer    *)
(* words.                                                                  *)
(***************************************************************************)

\* APPROVAL_REQUIRED is one string with commas; unquoted, bash splits it at
\* blanks and it has none, so the loop over it has one keyword: the string.
Joined == "architecture,auth,database_schema,payments,runtime_core,cross_module_refactor,infra,mass_delete"

Inside ==
  { <<"payment", "payments">>, <<"import", "imports">>, <<"log", "login">>,
    <<"unused", "unused_variables">>, <<"auth", Joined>> }

Has(text, keyword) ==
  \E word \in text : keyword = word \/ <<keyword, word>> \in Inside

HasAny(text, keywords) == \E keyword \in keywords : Has(text, keyword)

Severities == {"low", "medium", "high", "critical"}
Risks      == {"low", "medium", "high"}

Grave_highOnly(f) == f.severity = "high"   \* variant: "critical" forgotten

Grave(f) == f.severity \in {"critical", "high"}

-----------------------------------------------------------------------------
(* The Go loops and runtime.sh.                                            *)

highRiskKeywords ==
  {"auth", "payment", "runtime", "core", "architecture", "schema", "infra", "security"}

lowRiskKeywords == {"lint", "import", "unused", "nil", "log", "build"}

Protected(f) ==
  HasAny(f.title, highRiskKeywords) \/ HasAny(f.content, highRiskKeywords)

classifyRisk(f) ==
  IF Protected(f) \/ Grave(f) THEN "high"
  ELSE IF HasAny(f.title, lowRiskKeywords) THEN "low" ELSE "medium"

\* The shell loop classifies for its notifications only, and by the title.
classify_risk_noDeadCode(f) ==   \* variant: a word dropped from the low list
  IF HasAny(f.title, highRiskKeywords) \/ Grave(f) THEN "high"
  ELSE IF HasAny(f.title, {"lint"}) THEN "low" ELSE "medium"

classify_risk(f) ==
  IF HasAny(f.title, highRiskKeywords) \/ Grave(f) THEN "high"
  ELSE IF HasAny(f.title, lowRiskKeywords \cup {"dead_code"}) THEN "low"
  ELSE "medium"

-----------------------------------------------------------------------------
(* agents/executor/run.sh                                                  *)

APPROVAL_REQUIRED == {Joined}

AUTO_FIX_ALLOWED ==
  {"lint", "imports", "unused_variables", "isolated_dead_code",
   "small_nil_safety", "log_consistency", "minor_build_fix"}

\* A file that holds one finding, as the Go loops write it: what is not high
\* is low, for the second loop only sets "low" again.
ObjectRisk_listed(f) ==   \* variant: low only if the title is on the list
  IF Grave(f) \/ HasAny(f.title \cup f.content, APPROVAL_REQUIRED) THEN "high"
  ELSE IF HasAny(f.title, AUTO_FIX_ALLOWED) THEN "low" ELSE "medium"

ObjectRisk(f) ==
  IF Grave(f) \/ HasAny(f.title \cup f.content, APPROVAL_REQUIRED)
    THEN "high" ELSE "low"

\* A file that holds an array, as the auditor writes it: low is lowered to
\* medium unless the title matches the list.
ArrayRisk(f) ==
  IF Grave(f) \/ HasAny(f.title \cup f.content, APPROVAL_REQUIRED) THEN "high"
  ELSE IF HasAny(f.title, AUTO_FIX_ALLOWED) THEN "low" ELSE "medium"

Action == [low |-> "applied", medium |-> "approval_required", high |-> "blocked"]
=============================================================================
