SPECIFICATION Spec
CONSTANTS
  Loops = {"bot", "runtime", "script"}
  Findings <- TwoFindings
  NoFinding = NoFinding
  MissingFile = MissingFile
  TornFile = TornFile
  MaxFailures = 1
  MaxCrashes = 1
  MaxChanges = 0
INVARIANTS
  TypeOK
  OnlyLowApplied
  PersistedWereHandled
PROPERTIES
  HandedOnce
  KeepsAuditPromise
