------------------------------ MODULE AjaxPromise ------------------------------
(* What jQuery.ajax promises of its callbacks: a request that was not refused is    *)
(* answered at most once, by success or by error, and completed at most once, after *)
(* its answer; and active counts the requests in between.                           *)
EXTENDS Naturals, FiniteSets

CONSTANT Requests

VARIABLES
  begun,    \* requests that were counted
  refused,  \* requests that beforeSend refused
  answers,  \* answers[r]: how often success or error was called
  completes,\* completes[r]: how often complete was called
  ended,    \* requests that are no longer counted
  active

pvars == <<begun, refused, answers, completes, ended, active>>

Init ==
  /\ begun = {} /\ refused = {} /\ ended = {}
  /\ answers = [r \in Requests |-> 0]
  /\ completes = [r \in Requests |-> 0]
  /\ active = 0

Begin(r) ==
  /\ r \notin begun
  /\ begun' = begun \cup {r}
  /\ active' = active + 1
  /\ UNCHANGED <<refused, answers, completes, ended>>

Refuse(r) ==
  /\ r \in begun \ ended /\ answers[r] = 0 /\ completes[r] = 0
  /\ refused' = refused \cup {r}
  /\ ended' = ended \cup {r}
  /\ active' = active - 1
  /\ UNCHANGED <<begun, answers, completes>>

Answer(r) ==
  /\ r \in begun \ ended /\ answers[r] = 0 /\ completes[r] = 0
  /\ answers' = [answers EXCEPT ![r] = 1]
  /\ UNCHANGED <<begun, refused, completes, ended, active>>

\* An aborted request completes without an answer.
Complete(r) ==
  /\ r \in begun \ ended /\ completes[r] = 0
  /\ completes' = [completes EXCEPT ![r] = 1]
  /\ UNCHANGED <<begun, refused, answers, ended, active>>

EndOf(r) ==
  /\ r \in begun \ ended /\ completes[r] = 1
  /\ ended' = ended \cup {r}
  /\ active' = active - 1
  /\ UNCHANGED <<begun, refused, answers, completes>>

Next ==
  \E r \in Requests : Begin(r) \/ Refuse(r) \/ Answer(r) \/ Complete(r) \/ EndOf(r)

Spec == Init /\ [][Next]_pvars

================================================================================
