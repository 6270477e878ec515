SPECIFICATION Spec
CONSTANTS
  Contexts = {web, lazy}
  WebContext = web
  DayLen = 3
  MaxLate = 1
  NumIndexes = 1
  LastDay = 2
  MaxFaults = 1
  MaxRestarts = 1
INVARIANTS TypeOK TodayHasTable BatchIsComplete
PROPERTIES RunsOutlastRestarts
