---------------------------------- MODULE Ajax ----------------------------------
(* jQuery.ajax (jquery-1.4.2.js) in a page.  Its code runs to its end on one       *)
(* thread, but for the callbacks of the page: beforeSend, success, error and       *)
(* complete may themselves send and abort requests.  So what runs is a stack of    *)
(* frames, and the browser delivers answers and timeouts when it is empty.         *)
(*                                                                                 *)
(* All requests have global events, which start no request themselves.  Urls,      *)
(* bodies and headers are not told apart; data is the request that was answered.   *)
EXTENDS Integers, Sequences, FiniteSets

CONSTANTS
  Requests,   \* the requests the page makes
  NoRequest,  \* none of them
  Kinds,      \* "xhr", "sync", "local jsonp", "remote jsonp", "remote script"
  SharedName, \* all JSONP requests ask for the same name of their function
  AbortIn,    \* the callbacks in which the page aborts requests
  AbortsAgain, \* a request may be aborted in the complete callback of its abort
  MaxDepth,   \* bound: calls of callbacks inside each other
  MaxFaults   \* bound: sends and callbacks that throw

ASSUME NoRequestAssumption == NoRequest \notin Requests

VARIABLES
  req,       \* req[r]: the settings and the closure of request r
  calls,     \* calls[r]: how often each of its callbacks was called, and returned
  stack,     \* the frames that run, the innermost first
  active,    \* jQuery.active
  indicator, \* ajaxStart was triggered, and ajaxStop not since
  window,    \* window[n]: the request whose function has the name n
  faults

avars == <<req, calls, stack, active, indicator, window, faults>>

Jsonp(kind) == kind \in {"local jsonp", "remote jsonp"}
IsRemote(kind) == kind \in {"remote jsonp", "remote script"}
Async(r) == req[r].kind # "sync"

\* Mutant of NameOf: jsc is not counted on.
NameOfFirst(r) == CHOOSE q \in Requests : TRUE

\* jsonp1, jsonp2, ... or the name that the page chose.
NameOf(r) == IF SharedName THEN CHOOSE q \in Requests : TRUE ELSE r

\* The request as ajax finds it: step is what became of it, xhr says that the closure
\* still has its transport, data is the request whose answer it was given.
NewRequest ==
  [kind |-> "xhr", step |-> "new", requestDone |-> FALSE, xhr |-> FALSE,
   timer |-> FALSE, data |-> NoRequest]
NoCalls == [beforeSend |-> 0, success |-> 0, error |-> 0, complete |-> 0, completed |-> 0]

\* Frames: the request, why it runs, and which callback or call it is in.
Frame(r, why, at) == [r |-> r, why |-> why, at |-> at]
On(frame, rest) == <<frame>> \o rest
Top == Head(stack)
At(point) == stack # <<>> /\ Top.at = point
Goto(point) == stack' = On([Top EXCEPT !.at = point], Tail(stack))
Callbacks == {"beforeSend", "success", "error", "complete"}

\* The code of the page runs: from the event loop, or in a callback.
InPage == stack # <<>> => Top.at \in Callbacks /\ Len(stack) < MaxDepth

Fault == faults < MaxFaults /\ faults' = faults + 1

Called(r, callback) == calls' = [calls EXCEPT ![r][callback] = @ + 1]

\* Mutant of CountUp: the counter is raised before it is looked at.
CountUpEarly ==
  /\ active' = active + 1
  /\ indicator' = (indicator \/ active' = 0)

\* if (!jQuery.active++) ajaxStart, and if (!--jQuery.active) ajaxStop.
CountUp ==
  /\ active' = active + 1
  /\ indicator' = (indicator \/ active = 0)
CountDown ==
  /\ active' = active - 1
  /\ indicator' = (indicator /\ active # 1)

--------------------------------------------------------------------------------
(* Sending.                                                                        *)

\* The function of a JSONP request is made unless its name is taken; a remote script
\* is a script element, and everything else has an xhr.
ajax(r) ==
  /\ InPage
  /\ req[r].step = "new"
  /\ \E kind \in Kinds, timed \in BOOLEAN :
       /\ req' = [req EXCEPT ![r] =
                    [@ EXCEPT !.kind = kind, !.xhr = ~ IsRemote(kind),
                              !.timer = timed /\ kind # "sync" /\ ~ IsRemote(kind),
                              !.step = IF IsRemote(kind) THEN "sent" ELSE "open"]]
       /\ window' = IF Jsonp(kind) /\ window[NameOf(r)] = NoRequest
                    THEN [window EXCEPT ![NameOf(r)] = r]
                    ELSE window
       /\ IF IsRemote(kind)
          THEN UNCHANGED <<stack, calls>>
          ELSE /\ stack' = On(Frame(r, "call", "beforeSend"), stack)
               /\ Called(r, "beforeSend")
  /\ CountUp
  /\ UNCHANGED faults

beforeSend ==
  /\ At("beforeSend")
  /\ Goto("send")
  /\ UNCHANGED <<req, calls, active, indicator, window, faults>>

\* beforeSend returned false.
Refuse ==
  /\ At("beforeSend")
  /\ req' = [req EXCEPT ![Top.r] = [@ EXCEPT !.step = "refused", !.timer = FALSE]]
  /\ stack' = Tail(stack)
  /\ CountDown
  /\ UNCHANGED <<calls, window, faults>>

\* What comes back: a status (0 when there is no answer), and whether the text parses.
Answers == [status : {200, 304, 404, 0}, parses : BOOLEAN]

httpSuccess(answer) == answer.status \in {200, 304, 0}
httpNotModified(answer) == answer.status \in {304, 0}

\* The text is parsed unless ifModified is asked for and it is the old one.
Succeeds(answer, ifModified) ==
  httpSuccess(answer) /\ (answer.parses \/ (ifModified /\ httpNotModified(answer)))

\* Mutant of Respond: the request is not marked as done.
RespondOpen(r, answer, rest) ==
  /\ req' = [req EXCEPT ![r].step = "answered"]
  /\ \E ifModified \in BOOLEAN :
       CASE ~ Succeeds(answer, ifModified) ->
              /\ stack' = On(Frame(r, "load", "error"), rest)
              /\ Called(r, "error")
         [] Succeeds(answer, ifModified) /\ ~ Jsonp(req[r].kind) ->
              /\ stack' = On(Frame(r, "load", "success"), rest)
              /\ Called(r, "success")
         [] Succeeds(answer, ifModified) /\ Jsonp(req[r].kind) ->
              /\ stack' = On(Frame(r, "load", "eval"), rest)
              /\ UNCHANGED calls

\* onreadystatechange with an answer, in a frame on rest.  A JSONP text calls its
\* function when it is evaluated, and success is left to that.
Respond(r, answer, rest) ==
  /\ req' = [req EXCEPT ![r] = [@ EXCEPT !.requestDone = TRUE, !.step = "answered"]]
  /\ \E ifModified \in BOOLEAN :
       CASE ~ Succeeds(answer, ifModified) ->
              /\ stack' = On(Frame(r, "load", "error"), rest)
              /\ Called(r, "error")
         [] Succeeds(answer, ifModified) /\ ~ Jsonp(req[r].kind) ->
              /\ stack' = On(Frame(r, "load", "success"), rest)
              /\ Called(r, "success")
         [] Succeeds(answer, ifModified) /\ Jsonp(req[r].kind) ->
              /\ stack' = On(Frame(r, "load", "eval"), rest)
              /\ UNCHANGED calls

send ==
  /\ At("send")
  /\ Async(Top.r)
  /\ req' = [req EXCEPT ![Top.r].step = "sent"]
  /\ stack' = Tail(stack)
  /\ UNCHANGED <<calls, active, indicator, window, faults>>

\* The page stands still until the answer is there.
sendSync ==
  /\ At("send")
  /\ ~ Async(Top.r)
  /\ \E answer \in Answers : Respond(Top.r, answer, Tail(stack))
  /\ UNCHANGED <<active, indicator, window, faults>>

sendThrows ==
  /\ At("send")
  /\ Fault
  /\ req' = [req EXCEPT ![Top.r].step = "failed"]
  /\ stack' = On(Frame(Top.r, "throw", "error"), Tail(stack))
  /\ Called(Top.r, "error")
  /\ UNCHANGED <<active, indicator, window>>

--------------------------------------------------------------------------------
(* Answers, timeouts and aborts.                                                   *)

\* onreadystatechange, for an xhr whose handler was not replaced by noop.
Load(r) ==
  /\ stack = <<>>
  /\ req[r].step = "sent" /\ req[r].xhr /\ ~ req[r].requestDone
  /\ \E answer \in Answers : Respond(r, answer, <<>>)
  /\ UNCHANGED <<active, indicator, window, faults>>

\* Mutant of Timeout: only the xhr is looked at.
TimeoutUnchecked(r) ==
  /\ stack = <<>>
  /\ req[r].timer /\ req[r].step # "open"
  /\ IF req[r].xhr
     THEN /\ req' = [req EXCEPT ![r] = [@ EXCEPT !.timer = FALSE, !.requestDone = TRUE,
                                                !.step = "answered"]]
          /\ stack' = <<Frame(r, "timeout", "error")>>
          /\ Called(r, "error")
     ELSE /\ req' = [req EXCEPT ![r].timer = FALSE]
          /\ UNCHANGED <<stack, calls>>
  /\ UNCHANGED <<active, indicator, window, faults>>

\* Mutant of Timeout: the timer says nothing to the request.
TimeoutSilent(r) ==
  /\ stack = <<>>
  /\ req[r].timer /\ req[r].step # "open"
  /\ req' = [req EXCEPT ![r].timer = FALSE]
  /\ UNCHANGED <<stack, calls, active, indicator, window, faults>>

\* The timeout checker: xhr && !requestDone.
Timeout(r) ==
  /\ stack = <<>>
  /\ req[r].timer /\ req[r].step # "open"
  /\ IF req[r].xhr /\ ~ req[r].requestDone
     THEN /\ req' = [req EXCEPT ![r] = [@ EXCEPT !.timer = FALSE, !.requestDone = TRUE,
                                                !.step = "answered"]]
          /\ stack' = <<Frame(r, "timeout", "error")>>
          /\ Called(r, "error")
     ELSE /\ req' = [req EXCEPT ![r].timer = FALSE]
          /\ UNCHANGED <<stack, calls>>
  /\ UNCHANGED <<active, indicator, window, faults>>

\* The evaluated text calls the function of its name, if there is one.
CallsJsonp(r, rest) ==
  IF window[NameOf(r)] = NoRequest
  THEN /\ stack' = rest
       /\ UNCHANGED calls
  ELSE /\ stack' = On(Frame(window[NameOf(r)], "jsonp", "success"), rest)
       /\ Called(window[NameOf(r)], "success")

\* httpData of a JSONP request with an xhr: what its function leaves is completed.
Eval ==
  /\ At("eval")
  /\ LET r == Top.r
         rest == On([Top EXCEPT !.at = "evaled"], Tail(stack))
     IN /\ CallsJsonp(r, rest)
        /\ req' = IF window[NameOf(r)] = NoRequest THEN req
                  ELSE [req EXCEPT ![window[NameOf(r)]].data = r]
  /\ UNCHANGED <<active, indicator, window, faults>>

Evaled ==
  /\ At("evaled")
  /\ Goto("complete")
  /\ Called(Top.r, "complete")
  /\ UNCHANGED <<req, active, indicator, window, faults>>

\* A script element is loaded: it calls its function, or onload is its success.
LoadScript(r) ==
  /\ stack = <<>>
  /\ req[r].step = "sent" /\ IsRemote(req[r].kind)
  /\ IF Jsonp(req[r].kind)
     THEN /\ CallsJsonp(r, <<>>)
          /\ req' = LET q == window[NameOf(r)]
                    IN [x \in Requests |->
                          [req[x] EXCEPT !.step = IF x = r THEN "answered" ELSE @,
                                         !.data = IF x = q THEN r ELSE @]]
     ELSE /\ stack' = <<Frame(r, "script", "success")>>
          /\ Called(r, "success")
          /\ req' = [req EXCEPT ![r] = [@ EXCEPT !.step = "answered", !.data = r]]
  /\ UNCHANGED <<active, indicator, window, faults>>

MayAbort(r) ==
  /\ stack # <<>> => Top.at \in AbortIn
  /\ AbortsAgain \/ \A i \in DOMAIN stack : stack[i] # Frame(r, "abort", "complete")

\* xhr.abort, as the page sees it after the request was set up.
abort(r) ==
  /\ InPage /\ MayAbort(r)
  /\ req[r].step \in {"sent", "failed", "answered", "aborted"} /\ ~ IsRemote(req[r].kind)
  /\ stack' = On(Frame(r, "abort", "enter"), stack)
  /\ UNCHANGED <<req, calls, active, indicator, window, faults>>

\* Some browsers say that a request in flight is loaded (readyState 4) when it is aborted.
AbortLoads ==
  /\ At("enter")
  /\ req[Top.r].step = "sent" /\ req[Top.r].xhr /\ ~ req[Top.r].requestDone
  /\ Respond(Top.r, [status |-> 0, parses |-> TRUE], stack)
  /\ UNCHANGED <<active, indicator, window, faults>>

\* A request that is in flight no longer.
Aborted(r) == [req EXCEPT ![r].step = IF @ = "sent" THEN "aborted" ELSE @]

\* Mutant of AbortEnters: whether the request is done is not asked.
AbortEntersAlways ==
  /\ At("enter")
  /\ Goto("complete")
  /\ Called(Top.r, "complete")
  /\ req' = Aborted(Top.r)
  /\ UNCHANGED <<active, indicator, window, faults>>

\* onreadystatechange("abort"): requestDone is set when complete has returned.
AbortEnters ==
  /\ At("enter")
  /\ IF req[Top.r].requestDone
     THEN /\ stack' = Tail(stack)
          /\ UNCHANGED <<req, calls>>
     ELSE /\ Goto("complete")
          /\ Called(Top.r, "complete")
          /\ req' = Aborted(Top.r)
  /\ UNCHANGED <<active, indicator, window, faults>>

--------------------------------------------------------------------------------
(* The callbacks return.                                                           *)

\* success() and handleError(), and on to complete().
AnswerReturns ==
  /\ At("success") \/ At("error")
  /\ Goto("complete")
  /\ Called(Top.r, "complete")
  /\ UNCHANGED <<req, active, indicator, window, faults>>

\* What follows complete(): the closure gives up its xhr, the abort is done, the name
\* of the function is free.  After a send that threw nothing is set.
CompleteReturns ==
  /\ At("complete")
  /\ ~ (Top.why = "throw" /\ ~ Async(Top.r))
  /\ Called(Top.r, "completed")
  /\ CountDown
  /\ stack' = Tail(stack)
  /\ LET r == Top.r
     IN CASE Top.why \in {"load", "timeout"} ->
               /\ req' = [req EXCEPT ![r].xhr = ~ Async(r)]
               /\ UNCHANGED window
          [] Top.why = "abort" ->
               /\ req' = [req EXCEPT ![r].requestDone = TRUE]
               /\ UNCHANGED window
          [] Top.why = "jsonp" ->
               /\ window' = [window EXCEPT ![NameOf(r)] = NoRequest]
               /\ UNCHANGED req
          [] OTHER -> UNCHANGED <<req, window>>
  /\ UNCHANGED faults

\* A synchronous send that threw: onreadystatechange is called all the same, and the
\* request that failed may be one that is loaded.
SyncThrowReturns ==
  /\ At("complete") /\ Top.why = "throw" /\ ~ Async(Top.r)
  /\ CountDown
  /\ LET counted == [calls EXCEPT ![Top.r].completed = @ + 1]
     IN \/ /\ stack' = Tail(stack)
           /\ calls' = counted
           /\ UNCHANGED req
        \/ /\ ~ req[Top.r].requestDone
           /\ stack' = On(Frame(Top.r, "load", "success"), Tail(stack))
           /\ calls' = [counted EXCEPT ![Top.r].success = @ + 1]
           /\ req' = [req EXCEPT ![Top.r].requestDone = TRUE]
  /\ UNCHANGED <<window, faults>>

\* A callback throws: everything that runs is left where it is.
CallbackThrows ==
  /\ stack # <<>> /\ Top.at \in Callbacks
  /\ Fault
  /\ stack' = <<>>
  /\ UNCHANGED <<req, calls, active, indicator, window>>

AjaxInit ==
  /\ req = [r \in Requests |-> NewRequest]
  /\ calls = [r \in Requests |-> NoCalls]
  /\ stack = <<>>
  /\ active = 0
  /\ indicator = FALSE
  /\ window = [r \in Requests |-> NoRequest]
  /\ faults = 0

Running ==
  \/ beforeSend \/ Refuse \/ send \/ sendSync
  \/ Eval \/ Evaled \/ AbortLoads \/ AbortEnters
  \/ AnswerReturns \/ CompleteReturns \/ SyncThrowReturns

AjaxNext ==
  \/ Running \/ sendThrows \/ CallbackThrows
  \/ \E r \in Requests :
       ajax(r) \/ abort(r) \/ Load(r) \/ LoadScript(r) \/ Timeout(r)

AjaxSpec == AjaxInit /\ [][AjaxNext]_avars

--------------------------------------------------------------------------------

AjaxTypeOK ==
  /\ \A r \in Requests :
       /\ req[r].kind \in Kinds \cup {"xhr"}
       /\ req[r].step \in {"new", "open", "sent", "refused", "failed", "answered", "aborted"}
       /\ req[r].data \in Requests \cup {NoRequest}
  /\ \A i \in DOMAIN stack :
       /\ stack[i].r \in Requests
       /\ stack[i].why \in {"call", "throw", "load", "timeout", "jsonp", "script", "abort"}
  /\ active \in 0..Cardinality(Requests)
  /\ window \in [Requests -> Requests \cup {NoRequest}]
  /\ faults \in 0..MaxFaults

\* Requests that were counted, and those whose end was counted too.
Begun == {r \in Requests : req[r].step # "new"}
Ended == {r \in Begun : req[r].step = "refused" \/ calls[r].completed > 0}

\* The promise of the callbacks and of active, whatever the page does in its
\* callbacks, with aborts, timeouts and answers in any order.
Promise ==
  INSTANCE AjaxPromise WITH
    begun <- Begun,
    refused <- {r \in Requests : req[r].step = "refused"},
    answers <- [r \in Requests |-> calls[r].success + calls[r].error],
    completes <- [r \in Requests |-> calls[r].complete],
    ended <- Ended

\* The callbacks of a request and jQuery.active, whatever is sent and aborted in callbacks,
\* are those of AjaxPromise (jQuery.ajax).
KeepsPromise == Promise!Spec

\* The page shows that it waits while it does (ajaxStart, ajaxStop).
IndicatorShows == indicator <=> Begun # Ended

\* A JSONP request is given the answer to it, and not to another one.
OwnData == \A r \in Requests : req[r].data \in {r, NoRequest}

\* The page shows that it waits while it does, and no request is given another one's data.
RequestsServed == IndicatorShows /\ OwnData

\* A request that is done is not answered again, whatever throws: by a late answer, a
\* timer that was not cleared, or an abort (requestDone of jQuery.ajax).  The answer
\* of JSONP is called by its text.
StayDone ==
  \A r \in Requests :
    req[r].requestDone /\ ~ Jsonp(req[r].kind) =>
      calls'[r].success = calls[r].success /\ calls'[r].error = calls[r].error

\* When an event that is said to occur can: a callback returns, a timer goes off.
InCallback == At("success") \/ At("error") \/ (At("complete") /\ ~ (Top.why = "throw" /\ ~ Async(Top.r)))
TimerIsDue(r) == stack = <<>> /\ req[r].timer /\ req[r].step # "open"

\* A request that has a timeout will complete, or a send or a callback throws.
Timed(r) == req[r].timer /\ req[r].step = "sent"
Completed(r) == calls[r].completed > 0 \/ faults > 0

================================================================================
