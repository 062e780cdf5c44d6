SPECIFICATION FairSpec
CONSTANTS
  Loops = {"runtime"}
  Findings <- ThreeFindings
  NoFinding = NoFinding
  MissingFile = MissingFile
  TornFile = TornFile
  MaxFailures = 1
  MaxCrashes = 1
  MaxChanges = 2
PROPERTY
  IssuesAreHandled
