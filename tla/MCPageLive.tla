------------------------------- MODULE MCPageLive -------------------------------
(* What must happen in a page some time.  As in MCPage a behaviour is about one of    *)
(* the scripts: the validator, which has its own variables, or one of those that use  *)
(* x1, x2, ...; here the user of the validator leaves the form alone while it waits.   *)
EXTENDS Validate, Sequences

CONSTANT None

VARIABLES part, x1, x2, x3, x4, x5, x6, x7, x8, x9, x10

slots == <<x1, x2, x3, x4, x5, x6, x7, x8, x9, x10>>
all == <<part, slots, vvars>>

\* Two requests, of which a send or a callback may throw.
Ajax ==
  INSTANCE Ajax WITH
    Requests <- {"r1", "r2"}, NoRequest <- "none",
    Kinds <- {"xhr", "sync", "local jsonp", "remote jsonp"}, SharedName <- FALSE,
    AbortIn <- {"success"}, AbortsAgain <- TRUE, MaxDepth <- 2, MaxFaults <- 1,
    req <- x1, calls <- x2, stack <- x3, active <- x4, indicator <- x5, window <- x6,
    faults <- x7

\* Two elements with animations and delays that nobody stops.
Effects ==
  INSTANCE Effects WITH
    Elements <- {"e1", "e2"}, MaxEntries <- 3, Kinds <- {"toggle", "delay"},
    Queued <- {TRUE}, Instants <- {FALSE}, Stops <- {},
    StopInDelay <- FALSE, Clears <- FALSE, Callbacks <- {"nothing"},
    entries <- x1, queue <- x2, timers <- x3, ticking <- x4, delays <- x5, shown <- x6,
    clipped <- x7, last <- x8

\* A browser with DOMContentLoaded.
Ready ==
  INSTANCE DomReady WITH
    N <- 3, IE <- FALSE, MayThrow <- TRUE,
    nested <- x1, throwing <- x2, readyState <- x3, body <- x4, isReady <- x5,
    readyBound <- x6, readyList <- x7, retry <- x8, registered <- x9, ran <- x10

\* Two uploads of a form whose callbacks do not throw.
Upload ==
  INSTANCE FormUpload WITH
    Values <- {"v"}, Types <- {"file", "text"}, Size <- 2, MaxSubmits <- 2,
    Methods <- {"POST"}, TypeOptions <- {"form"}, IframeOptions <- BOOLEAN, Afters <- {"clear"}, Throws <- FALSE,
    fields <- x1, clk <- x2, written <- x3, method <- x4, action <- x5, subs <- x6,
    activeUploads <- x7

--------------------------------------------------------------------------------

From10 == x10 = None
From9 == x9 = None /\ From10
From8 == x8 = None /\ From9
From1 == x1 = None /\ x2 = None /\ x3 = None /\ x4 = None /\ x5 = None /\ x6 = None /\ x7 = None /\ From8

NoForm ==
  /\ value = [e \in Fields |-> ""] /\ v = Fresh
  /\ requests = {} /\ asks = 0 /\ sends = 0 /\ waiting = FALSE

LiveInit ==
  \/ part = "validate" /\ ValidateInit /\ From1
  \/ /\ NoForm
     /\ \/ part = "ajax" /\ Ajax!AjaxInit /\ From8
        \/ part = "effects" /\ Effects!Init /\ From9
        \/ part = "ready" /\ Ready!ReadyInit
        \/ part = "upload" /\ Upload!UploadInit /\ From8

LiveNext ==
  /\ UNCHANGED part
  /\ \/ part = "validate" /\ ValidateNext /\ UNCHANGED slots
     \/ /\ UNCHANGED vvars
        /\ \/ part = "ajax" /\ Ajax!AjaxNext /\ UNCHANGED <<x8, x9, x10>>
           \/ part = "effects" /\ Effects!Next /\ UNCHANGED <<x9, x10>>
           \/ part = "ready" /\ Ready!ReadyNext
           \/ part = "upload" /\ Upload!UploadNext /\ UNCHANGED <<x8, x9, x10>>

--------------------------------------------------------------------------------
(* Fairness, written out: an event that can occur again and again occurs.  Each part  *)
(* names at most four events and when they can occur.                                *)

Can(n) ==
  CASE part = "validate" -> n = 1 /\ requests # {}
    [] part = "ajax" -> \/ n = 1 /\ x3 # <<>>
                        \/ n = 2 /\ Ajax!InCallback
                        \/ n = 3 /\ Ajax!TimerIsDue("r1")
                        \/ n = 4 /\ Ajax!TimerIsDue("r2")
    [] part = "effects" -> (n = 1 /\ x3 # <<>>) \/ (n = 2 /\ x5 # {})
    [] part = "ready" -> (n = 1 /\ ~ x4) \/ (n = 2 /\ x4 /\ x3 # "complete")
    [] part = "upload" -> n \in {1, 2} /\ Upload!TimerIsSet(n)

Does(n) ==
  CASE part = "validate" -> n = 1 /\ success
    [] part = "ajax" -> \/ n = 1 /\ Ajax!Running
                        \/ n = 2 /\ (Ajax!AnswerReturns \/ Ajax!CompleteReturns)
                        \/ n = 3 /\ Ajax!Timeout("r1")
                        \/ n = 4 /\ Ajax!Timeout("r2")
    [] part = "effects" -> (n = 1 /\ Effects!TimerEnds) \/ (n = 2 /\ ~ (x5 \subseteq x5'))
    [] part = "ready" -> (n = 1 /\ Ready!parse) \/ (n = 2 /\ Ready!loaded)
    [] part = "upload" -> n \in {1, 2} /\ Upload!TimerGoesOff(n)

Fair(n) == []<>Can(n) => []<><<Does(n)>>_all

LiveSpec ==
  LiveInit /\ [][LiveNext]_all /\ Fair(1) /\ Fair(2) /\ Fair(3) /\ Fair(4)

--------------------------------------------------------------------------------

\* A request that is done is not answered again, whatever throws: by a late answer, a timer
\* that was not cleared, or an abort (requestDone); a JSONP request is given the answer to
\* it; one with a timeout completes, answer or not, unless a send or a callback throws.
RequestsEnd ==
  /\ [][part = "ajax" => Ajax!StayDone]_all
  /\ [](part = "ajax" => Ajax!OwnData)
  /\ \A r \in {"r1", "r2"} :
       part = "ajax" /\ Ajax!Timed(r) ~> (part = "ajax" => Ajax!Completed(r))

AllEnded ==
  /\ part = "validate" => ~ waiting
  /\ part = "effects" => \A id \in 1..3 : Effects!Asked(id) => Effects!IsOver(id)
  /\ part = "ready" => \A f \in 1..3 : Ready!Registered(f) => Ready!HasRun(f)
  /\ part = "upload" => \A s \in 1..2 : Upload!TimedUpload(s) => Upload!Cleaned(s)

\* Again and again all that was begun has ended: a submission that waited is sent or refused
\* (stopRequest); whatever is queued for an element, and its callback is called (dequeue,
\* tick); the functions that are registered are called, unless one throws (jQuery.ready); an
\* upload with a timeout, whose iframe is removed, answer or not (fileUpload).
WorkEnds == []<>AllEnded

================================================================================
