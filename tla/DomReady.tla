-------------------------------- MODULE DomReady --------------------------------
(* jQuery(document).ready: functions that are to run when the document is loaded,  *)
(* registered before that, after it, or by each other, while the browser tells it  *)
(* more than once and sometimes before there is a body.                            *)
EXTENDS Integers, Sequences, Arrays

CONSTANTS
  N,        \* bound: functions 1..N
  IE,       \* the browser scrolls (doScrollCheck) instead of DOMContentLoaded
  MayThrow  \* functions may throw

ASSUME ReadyAssumption == N \in Nat

VARIABLES
  nested,      \* the function that a function registers when it runs, or 0
  throwing,    \* the functions that throw
  readyState,  \* of the document: "loading", "interactive", "complete"
  body,        \* document.body is there
  isReady, readyBound, readyList,
  retry,       \* there is a timer of 13 milliseconds for ready()
  registered,  \* by scripts of the page, in their order
  ran          \* the functions that were called, in their order

rvars ==
  <<nested, throwing, readyState, body, isReady, readyBound, readyList, retry, registered, ran>>

Functions == 1..N

\* The script is loaded at any time; a function registers one that nobody else does.
ReadyInit ==
  /\ nested \in [Functions -> 0..N]
  /\ \A f, g \in Functions :
       /\ nested[f] = 0 \/ nested[f] > f
       /\ f # g /\ nested[f] # 0 => nested[f] # nested[g]
  /\ throwing \in (IF MayThrow THEN SUBSET Functions ELSE {{}})
  /\ readyState \in {"loading", "interactive", "complete"}
  /\ body = (readyState # "loading")
  /\ isReady = FALSE /\ readyBound = FALSE /\ retry = FALSE
  /\ readyList = <<>> /\ registered = <<>> /\ ran = <<>>

--------------------------------------------------------------------------------

\* The calls of a function when isReady, as one that it registers is called at once: to
\* the first that throws.
Calls[f \in Functions] ==
  <<f>> \o IF nested[f] = 0 \/ f \in throwing THEN <<>> ELSE Calls[nested[f]]

\* An exception leaves all the calls that are going on.
Thrown(f) == \E i \in DOMAIN Calls[f] : Calls[f][i] \in throwing

\* The loop over readyList: it ends where a function throws.
Executed(list) ==
  LET stops == {i \in DOMAIN list : Thrown(list[i])}
  IN FlattenSeq([i \in {j \in DOMAIN list : \A s \in stops : j <= s} |-> Calls[list[i]]])

\* Mutant of ready: it neither asks whether it ran nor forgets what it ran.
readyAgain(timer) ==
  /\ isReady' = (isReady \/ body)
  /\ retry' = (timer \/ ~ body)
  /\ ran' = IF body THEN ran \o Executed(readyList) ELSE ran
  /\ UNCHANGED readyList

\* Mutant of ready: it is not asked whether there is a body.
readyEarly(timer) ==
  /\ isReady' = TRUE
  /\ retry' = timer
  /\ ran' = IF ~ isReady THEN ran \o Executed(readyList) ELSE ran
  /\ readyList' = IF ~ isReady THEN <<>> ELSE readyList

\* jQuery.ready, while a timer for it is there or not: nothing when it ran; again later
\* when there is no body; else all that is in readyList, which is reset unless one of it
\* throws.
ready(timer) ==
  /\ isReady' = (isReady \/ body)
  /\ retry' = (timer \/ (~ isReady /\ ~ body))
  /\ IF ~ isReady /\ body
     THEN /\ ran' = ran \o Executed(readyList)
          /\ readyList' = IF \E i \in DOMAIN readyList : Thrown(readyList[i]) THEN readyList ELSE <<>>
     ELSE UNCHANGED <<ran, readyList>>

\* Mutant of register: a function waits in the list whatever happened.
registerWaits ==
  \E f \in Functions :
    /\ f \notin ToSet(registered) /\ \A g \in Functions : nested[g] # f
    /\ registered' = Append(registered, f)
    /\ readyBound' = TRUE
    /\ readyList' = Append(readyList, f)
    /\ UNCHANGED <<isReady, ran, nested, throwing, readyState, body, retry>>

\* jQuery.fn.ready, with bindReady: a function that is late is called now.
register ==
  \E f \in Functions :
    /\ f \notin ToSet(registered) /\ \A g \in Functions : nested[g] # f
    /\ registered' = Append(registered, f)
    /\ readyBound' = TRUE
    /\ isReady' = (isReady \/ (~ readyBound /\ readyState = "complete"))
    /\ IF isReady' THEN ran' = ran \o Calls[f] /\ UNCHANGED readyList
       ELSE readyList' = Append(readyList, f) /\ UNCHANGED ran
    /\ UNCHANGED <<nested, throwing, readyState, body, retry>>

\* The browser has read so far that there is a body.
parse ==
  /\ ~ body /\ body' = TRUE
  /\ UNCHANGED <<nested, throwing, readyState, isReady, readyBound, readyList, retry, registered, ran>>

\* DOMContentLoaded, and load: each calls ready() if bindReady was called before.
loaded ==
  /\ body
  /\ \/ readyState = "loading" /\ readyState' = "interactive"
     \/ readyState = "interactive" /\ readyState' = "complete"
  /\ IF readyBound /\ (IE => readyState' = "complete") THEN ready(retry)
     ELSE UNCHANGED <<isReady, retry, ran, readyList>>
  /\ UNCHANGED <<nested, throwing, body, readyBound, registered>>

\* doScrollCheck: the document can be scrolled.
doScrollCheck ==
  /\ IE /\ readyBound /\ ~ isReady
  /\ ready(retry)
  /\ UNCHANGED <<nested, throwing, readyState, body, readyBound, registered>>

\* The timer of ready().
again ==
  /\ retry
  /\ ready(FALSE)
  /\ UNCHANGED <<nested, throwing, readyState, body, readyBound, registered>>

ReadyNext == register \/ parse \/ loaded \/ doScrollCheck \/ again

ReadySpec == ReadyInit /\ [][ReadyNext]_rvars

--------------------------------------------------------------------------------

\* A function threw while the list was gone through, or when it was called at once.
Threw == ToSet(ran) \cap throwing # {}

ReadyTypeOK ==
  /\ nested \in [Functions -> 0..N] /\ throwing \subseteq Functions
  /\ readyState \in {"loading", "interactive", "complete"}
  /\ body \in BOOLEAN /\ isReady \in BOOLEAN /\ readyBound \in BOOLEAN /\ retry \in BOOLEAN
  /\ readyList \in Seq(Functions) /\ registered \in Seq(Functions) /\ ran \in Seq(Functions)

\* Though two or three events of the browser and a timer call ready(), a function is
\* called once, and those that scripts of the page register in the order they did it.
InOrder ==
  LET own == Filter(ran, ToSet(registered))
      called == Filter(registered, ToSet(ran))
  IN own = called /\ IsInjective(ran)

\* "Make sure body exists, at least, in case IE gets a little overzealous"
\* (jquery-1.4.2.js:379): no function is called without a body.
WithBody == ran # <<>> => body

\* "Execute all of them" (jquery-1.4.2.js:389): once the document is ready, all that
\* was registered was called, unless one of them threw.
AllExecuted == isReady /\ ~ Threw => ToSet(registered) \subseteq ToSet(ran)

\* What is registered will be called, unless something throws.
Registered(f) == f \in ToSet(registered)
HasRun(f) == f \in ToSet(ran) \/ Threw

\* Functions are called once, in their order and with a body there, though the browser
\* tells more than once that the document is loaded; when the document is ready all that
\* was registered was called, unless one of them threw (jQuery.ready).
ReadyCalls == InOrder /\ WithBody /\ AllExecuted

================================================================================
