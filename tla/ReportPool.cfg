SPECIFICATION PoolSpec
CONSTANTS
  Threads = {t1, t2}
  Conns = {c1, c2, c3, c4, c5}
  NoConn = none
  Kinds = {"report", "insert", "update"}
  MaxCells = 3
  MaxFaults = 2
SYMMETRY Symmetry
INVARIANTS PoolTypeOK LeaksBounded PageIsComplete InsertKept
