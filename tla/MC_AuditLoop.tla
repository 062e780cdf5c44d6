----------------------------- MODULE MC_AuditLoop -----------------------------
(***************************************************************************)
(* AuditLoop for TLC: three findings, of which the gates of the Go loops   *)
(* let two through and hold one that the executor itself would apply.      *)
(***************************************************************************)
EXTENDS AuditLoop

Finding(title, severity) ==
  [title |-> title, content |-> {}, severity |-> severity]

lintFinding   == Finding({"lint"}, "low")
importFinding == Finding({"imports"}, "medium")
otherFinding  == Finding({"missing"}, "medium")

ThreeFindings == {lintFinding, importFinding, otherFinding}
TwoFindings   == {lintFinding, otherFinding}
=============================================================================
