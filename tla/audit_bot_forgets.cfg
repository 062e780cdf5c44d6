SPECIFICATION Spec
CONSTANTS
  Loops = {"bot"}
  Findings <- TwoFindings
  NoFinding = NoFinding
  MissingFile = MissingFile
  TornFile = TornFile
  MaxFailures = 0
  MaxCrashes = 1
  MaxChanges = 1
PROPERTY RestartRemembers
