SPECIFICATION Spec
CONSTANTS
  Callers = {c1, c2}
  NoCaller = NoCaller
  Tasks = {t1, t2}
  NoTask = NoTask
  MaxPolls = 2
  HistoryMax = 2
  Requests <- ApiRequests
SYMMETRY Symmetry
INVARIANTS
  TypeOK
  DispatchHoldsLock
  StrandedHasTask
  CompletedReachedConversation
  FailedNamesFailedTask
PROPERTIES
  DispatchUndisturbed
  OutcomeIsFinal
  KeepsPromise
