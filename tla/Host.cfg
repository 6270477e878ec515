SPECIFICATION HostSpec
CONSTANTS
  Scripts = {s1, s2, s3}
  Asked = {"port", "webPath"}
  Value = {a}
  Default = Default
  Nothing = Nothing
  MaxEdits = 3
  Lengths = {0, 1, 2, 3, 4, 5}
  Buffer = 2
  MaxMarks = 2
  Monitors = {"monitor", "sys monitor"}
  Sys = {"sys monitor"}
  Pids = {12, 123}
  Apps = {"app", "app12"}
  Numbered <- HostNumbered
  None = None
INVARIANTS HostTypeOK ConfigKept ServersKept IntactInOnePiece 
CHECK_DEADLOCK FALSE
