SPECIFICATION FairSpec
CHECK_DEADLOCK FALSE
CONSTANTS
  MaxPhrases = 4
  MaxWords = 4
  Contents = {"a", "b"}
  Rows <- SomeRows
  Queries <- SomeQueries
  MaxRows = 2
  BuildLimit = 3
  RuntimeLimit = 3
  BootstrapLimit = 4
  maxContextLength = 8
  BootstrapLength = 7
  Handlers = {h1, h2}
  plain = plain
  slashed = slashed
  Titles = {plain, slashed}
  Escaped = {slashed}
  Requests <- ApiAndPush
  MaxTwins = 2
  MaxFaults = 1
  Pids = {p1, p2, p3, p4}
  NoPid = NoPid
  MaxCalls = 3
  MaxEvents = 1
INVARIANTS
  NaoNeverDispatches
  AutoRunIsApplied
  NotificationNotStricter
  ContextTypeOK
  OnlyLastIsCut
  NothingFitsIsMissing
  ListedOnce
  PanicNeedsNegative
  StoreTypeOK
  TwinBound
  AckedIsKept
  ProcessTypeOK
  TornFileIsNotRunning
PROPERTIES
  RestraintIsMonotone
  SeverityNeverRelaxes
  StartLeavesLoop
