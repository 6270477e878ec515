SPECIFICATION Spec
CONSTANTS
  Values = {"v", "w"}
  Types = {"text", "checkbox", "select-multiple", "submit", "image", "reset", "file"}
  Size = 2
  None = None
  MaxSubmits = 2
  Methods = {"GET", "POST"}
  TypeOptions = {"form", "GET"}
  IframeOptions = {TRUE, FALSE}
  Afters = {"clear", "reset"}
  Throws = TRUE
  Fields = {1, 2}
  Required = {1}
  Remote = {2}
  MaxAsks = 1
  Fails = TRUE
  AbortAnswers = {TRUE, FALSE}
  Cancels = FALSE
  Resets = FALSE
  Patient = FALSE
  Length = 3
  Longest = 4
  Dash = Dash
  Requests = {r1, r2}
  NoRequest = NoRequest
  Kinds = {"xhr", "sync", "remote jsonp", "remote script"}
  SharedName = FALSE
  AbortIn = {"beforeSend", "success", "error", "complete"}
  AbortsAgain = FALSE
  MaxDepth = 2
  MaxFaults = 0
  MaxNumber = 2
  MaxRules = 3
  Empty = Empty
  Text = Text
  N = 3
  IE = TRUE
  MayThrow = TRUE
INVARIANTS PageTypeOK RequestsServed ReadyCalls FormPairs UploadsAnswered SelectionRight RulesKept
PROPERTIES KeepsPromise DisplayKept FormsValid QueryKept CardsChecked
CHECK_DEADLOCK FALSE
