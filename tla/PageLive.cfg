SPECIFICATION LiveSpec
CONSTANTS
  None = None
  Fields = {1, 2}
  Required = {2}
  Remote = {1}
  MaxAsks = 2
  Fails = FALSE
  AbortAnswers = {TRUE, FALSE}
  Cancels = TRUE
  Resets = FALSE
  Patient = TRUE
PROPERTIES SubmissionsKept RequestsEnd WorkEnds
CHECK_DEADLOCK FALSE
