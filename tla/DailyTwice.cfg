SPECIFICATION Spec
CONSTANTS
  Contexts = {web, lazy}
  WebContext = web
  DayLen = 3
  MaxLate = 0
  NumIndexes = 1
  LastDay = 1
  MaxFaults = 0
  MaxRestarts = 0
INVARIANTS OnceADay
