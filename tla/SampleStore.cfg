SPECIFICATION StoreSpec
CONSTANTS
  Contexts = {web}
  WebContext = web
  ServletContext = web
  DayLen = 3
  MaxLate = 0
  NumIndexes = 0
  LastDay = 1
  MaxFaults = 0
  MaxRestarts = 1
  Workers = {w1, w2}
  Batches = {b1, b2}
  MaxRows = 2
  MaxInsert = 1
  Hour = 1
INVARIANTS StoreTypeOK ReportShowsLastHour NoDuplicate
PROPERTIES KeepsPromise
