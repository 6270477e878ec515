SPECIFICATION FairPoolSpec
CONSTANTS
  Threads = {t1, t2}
  Conns = {c1, c2, c3, c4}
  NoConn = none
  Kinds = {"report", "insert"}
  MaxCells = 1
  MaxFaults = 1
PROPERTIES Served
