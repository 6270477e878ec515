SPECIFICATION EventsSpec
CONSTANTS
  Elements = {"doc", "box", "button"}
  Document = "doc"
  Path <- Path3
  Matches <- Matches3
  Null = Null
  Fns = {"f"}
  Selectors = {"inner", "any"}
  EventTypes = {"click"}
  Namespaces = {"a"}
  Removes = TRUE
  MaxBinds = 2
  MaxUnbinds = 2
  MaxEvents = 2
  MaxNested = 2
INVARIANTS EventsTypeOK HandlersServed
CHECK_DEADLOCK FALSE
