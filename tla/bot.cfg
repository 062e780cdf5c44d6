SPECIFICATION BotSpec
CONSTANTS
  Callers = {main}
  NoCaller = NoCaller
  Tasks = {t1, t2, t3}
  NoTask = NoTask
  MaxPolls = 2
  HistoryMax = 4
  Requests <- BotRequests
INVARIANTS
  WholeExchanges
PROPERTIES
  CallsReturn
