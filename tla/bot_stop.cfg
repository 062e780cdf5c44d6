SPECIFICATION BotSpec
CONSTANTS
  Callers = {main}
  NoCaller = NoCaller
  Tasks = {t1, t2}
  NoTask = NoTask
  MaxPolls = 2
  HistoryMax = 2
  Requests <- OrderOrStop
PROPERTY StopEndsExecution
