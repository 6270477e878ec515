SPECIFICATION FairPoolSpec
CONSTANTS
  Threads = {t1, t2}
  Conns = {c1, c2}
  NoConn = none
  Kinds = {"report"}
  MaxCells = 1
  MaxFaults = 0
CHECK_DEADLOCK FALSE
PROPERTIES Served
