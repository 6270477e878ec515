SPECIFICATION Spec
CONSTANTS
  Contexts = {web}
  WebContext = web
  DayLen = 3
  MaxLate = 1
  NumIndexes = 1
  LastDay = 1
  MaxFaults = 0
  MaxRestarts = 0
PROPERTIES RunCreatesToday
