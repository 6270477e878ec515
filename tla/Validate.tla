-------------------------------- MODULE Validate --------------------------------
(* The validator of jquery.validate.js: the fields of a form are checked when the  *)
(* user types, leaves a field or submits; the rule "remote" asks the server, and a *)
(* submission waits while a question is open.  A field is of type text, and one of *)
(* four kinds of values is in it: none, one that a rule of the page refuses, one   *)
(* that the server refuses and one that passes.                                    *)
EXTENDS Integers, FiniteSetsExt

CONSTANTS
  Fields,    \* the fields that have rules: their places in the form
  Required,  \* those with the rule "required"
  Remote,    \* those with the rule "remote"
  MaxAsks,   \* bound: submissions of the user in the whole behaviour
  Fails,     \* a request to the server may fail
  AbortAnswers, \* whether the browser says of an aborted request that it is loaded: one is
             \* like the other, or both happen
  Cancels,   \* the form has a submit button of class "cancel"
  Resets,    \* the page resets the form
  Patient    \* the user leaves the form alone while a submission waits

ASSUME ValidateAssumption ==
  /\ Required \subseteq Fields /\ Remote \subseteq Fields
  /\ Fields \subseteq Nat \ {0} /\ IsFiniteSet(Fields)
  /\ AbortAnswers \subseteq BOOLEAN /\ MaxAsks \in Nat /\ Cancels \in BOOLEAN

VARIABLES
  value,      \* the values of the fields
  v,          \* the validator
  requests,   \* the open requests of "remote": field and value
  asks,       \* submissions of the user
  sends,      \* submissions that reached the server
  waiting     \* the last submission of the user was neither sent nor refused

vvars == <<value, v, requests, asks, sends, waiting>>

FieldValues == {"", "malformed", "taken", "good"}

\* The box of all errors, among the labels of the fields.
Box == 0

\* The validator as init makes it.
Fresh ==
  [pendingRequest |-> 0, pending |-> {}, formSubmitted |-> FALSE,
   invalid |-> {}, submitted |-> {}, lastElement |-> {}, cancelSubmit |-> FALSE,
   errorList |-> {}, currentElements |-> {},
   toShow |-> {}, toHide |-> {},              \* labels, by field, and the box
   shown |-> {}, highlighted |-> {},
   old |-> [e \in Remote |-> ""], valid |-> [e \in Remote |-> TRUE]]

ValidateInit ==
  /\ value \in [Fields -> {"", "good"}]
  /\ v = Fresh
  /\ requests = {}
  /\ asks = 0 /\ sends = 0 /\ waiting = FALSE

--------------------------------------------------------------------------------

(* check *)

\* The rule "remote" is reached, and the value is not the one it was asked about last.
Asks(w, e) == e \in Remote /\ value[e] \in {"taken", "good"} /\ w.old[e] # value[e]

\* What check returns, with the methods in their order: required, those that need only
\* the page, remote.  An empty field that is not required passes none of them.
Verdict(w, e) ==
  IF value[e] = "" THEN (IF e \in Required THEN "error" ELSE "mismatch")
  ELSE IF value[e] = "malformed" THEN "error"
  ELSE IF e \notin Remote THEN "valid"
  ELSE IF Asks(w, e) \/ e \in w.pending THEN "pending"
  ELSE IF w.valid[e] THEN "valid" ELSE "error"

\* Of some fields those that ask, and of these those whose request before answers null when
\* it is aborted: jQuery calls the success of what is loaded, also without a status.  nulls
\* are the fields whose open request would.
AskedOf(w, E) == {e \in E : Asks(w, e)}
Nulled(w, E, nulls) == AskedOf(w, E) \cap nulls

Answering(reqs) == {IF loads THEN {r[1] : r \in reqs} ELSE {} : loads \in AbortAnswers}

\* pendingRequest when the fields E were checked one after the other: one more for each that
\* begins to be pending, and one less, but not less than 0, for each that was pending and
\* answers null.
CountAfter(w, E, began, nulls) ==
  LET Net(S) == Cardinality((began \ nulls) \cap S)
                  - Cardinality(Nulled(w, E, nulls) \cap w.pending \cap S)
  IN Max({w.pendingRequest + Net(E)} \cup {Net({f \in E : f > e}) : e \in E})

\* Mutant of startRequest: each request is counted.
startRequestEach(w, E, nulls) ==
  [w EXCEPT !.pendingRequest = CountAfter(w, E, AskedOf(w, E), nulls),
            !.pending = (@ \cup AskedOf(w, E)) \ Nulled(w, E, nulls),
            !.old = [e \in Remote |-> IF e \in AskedOf(w, E) THEN value[e] ELSE @[e]]]

\* startRequest of the fields that ask, and stopRequest of those that answer null.
startRequest(w, E, nulls) ==
  [w EXCEPT !.pendingRequest = CountAfter(w, E, AskedOf(w, E) \ w.pending, nulls),
            !.pending = (@ \cup AskedOf(w, E)) \ Nulled(w, E, nulls),
            !.old = [e \in Remote |-> IF e \in AskedOf(w, E) THEN value[e] ELSE @[e]]]

\* Mutant of NullAnswers: null is taken for a value that passes.
NullAnswersPass(w, u, E, nulls, pending) ==
  LET null == Nulled(w, E, nulls)
  IN IF null = {} THEN u ELSE [u EXCEPT !.valid = [e \in Remote |-> @[e] \/ e \in null]]

\* success(null) of those that answer null: an error, that is shown at once, refuses what waits
\* when it is the last that is counted, and takes the place of those that were found before.
\* pending are the fields of E whose labels stay.
NullAnswers(w, u, E, nulls, pending) ==
  LET null == Nulled(w, E, nulls)
      UpTo(g) == {e \in E : e <= g}
      begun(g) == startRequest(w, UpTo(g), nulls)
      stays == {e \in pending : \A g \in null : e < g}
  IN IF null = {} THEN u
     ELSE [u EXCEPT !.valid = [e \in Remote |-> @[e] /\ e \notin null],
                    !.formSubmitted = @ /\ \A g \in null : begun(g).pendingRequest > 0,
                    !.errorList = {e \in @ \cup null : \A g \in null : e >= g},
                    !.shown = (@ \ (w.toHide \ stays)) \cup null \cup {Box},
                    !.toShow = @ \cup null \cup {Box}, !.toHide = @ \ (null \cup {Box})]

\* check of some fields, in the order of the form: their errors are added to errorList, and
\* the label of one that is pending is not hidden.
Check(w, E, nulls) ==
  LET errors == {e \in E : Verdict(w, e) = "error"}
      pending == {e \in E : Verdict(w, e) = "pending"}
      s == startRequest(w, E, nulls)
  IN NullAnswers(w, [s EXCEPT !.errorList = @ \cup errors, !.submitted = @ \cup errors,
                              !.toHide = @ \ pending],
                 E, nulls, pending)

\* Mutant of Asked: the request before is not aborted.
AskedBoth(w, E, reqs) == reqs \cup {<<e, value[e]>> : e \in AskedOf(w, E)}

\* The requests after check: a new one aborts the one before it on its port.
Asked(w, E, reqs) ==
  {r \in reqs : r[1] \notin AskedOf(w, E)} \cup {<<e, value[e]>> : e \in AskedOf(w, E)}

(* showErrors *)

\* Mutant of ShowErrors: what was valid stays marked.
ShowErrorsMarked(w) ==
  LET show == w.toShow \cup w.errorList \cup (IF w.errorList # {} THEN {Box} ELSE {})
  IN [w EXCEPT !.highlighted = @ \cup w.errorList, !.toShow = show, !.toHide = @ \ show,
               !.shown = (@ \ w.toHide) \cup show]

\* Mutant of ShowErrors: only the elements of the last check are labelled.
ShowErrorsCurrent(w) ==
  LET errors == w.errorList \cap w.currentElements
      show == w.toShow \cup errors \cup (IF errors # {} THEN {Box} ELSE {})
  IN [w EXCEPT !.highlighted = (@ \cup errors) \ (w.currentElements \ errors), !.toShow = show,
               !.toHide = @ \ show, !.shown = (@ \ w.toHide) \cup show]

\* defaultShowErrors: what is in errorList is marked and labelled, the rest of the
\* elements that were checked is not, and what is to hide is hidden but for what is to
\* show.
ShowErrors(w) ==
  LET show == w.toShow \cup w.errorList \cup (IF w.errorList # {} THEN {Box} ELSE {})
  IN [w EXCEPT !.highlighted = (@ \cup w.errorList) \ (w.currentElements \ w.errorList),
               !.toShow = show,
               !.toHide = @ \ show,
               !.shown = (@ \ w.toHide) \cup show]

\* reset, with the labels of prepareForm or prepareElement.
Prepare(w, hide) ==
  [w EXCEPT !.errorList = {}, !.currentElements = {}, !.toShow = {}, !.toHide = hide]

\* form().
Form(w, nulls) ==
  LET c == Check(Prepare(w, Fields \cup {Box}), Fields, nulls)
      map == {e \in Fields : Verdict(w, e) = "error"} \cup Nulled(w, Fields, nulls)
  IN ShowErrors([c EXCEPT !.currentElements = Fields, !.invalid = map, !.submitted = @ \cup map])

\* element().
Element(w, e, nulls) ==
  LET c == [Check(Prepare([w EXCEPT !.lastElement = {e}], {e}), {e}, nulls)
              EXCEPT !.currentElements = {e}]
      invalid == IF Verdict(w, e) = "valid" THEN c.invalid \ {e} ELSE c.invalid \cup {e}
  IN ShowErrors([c EXCEPT !.invalid = invalid,
                          !.toHide = IF invalid = {} THEN @ \cup {Box} ELSE @])

--------------------------------------------------------------------------------

(* The user *)

MayEdit == Patient => ~ waiting

\* A field is left, or a key went up in it, and is to be checked.
Checked(e) ==
  /\ \E nulls \in Answering(requests) : v' = Element(v, e, nulls)
  /\ requests' = Asked(v, {e}, requests)

\* The user writes in a field, with or without the keyboard.
write(e) ==
  /\ MayEdit
  /\ \E x \in FieldValues : value' = [value EXCEPT ![e] = x]
  /\ UNCHANGED <<v, requests, asks, sends, waiting>>

\* A key goes up in a field that had an error before or was the last one checked.
onkeyup(e) ==
  /\ e \in v.submitted \cup v.lastElement
  /\ Checked(e)
  /\ UNCHANGED <<value, asks, sends, waiting>>

\* A field is left that had an error before or is not empty (optional).
onfocusout(e) ==
  /\ e \in v.submitted \/ value[e] # ""
  /\ Checked(e)
  /\ UNCHANGED <<value, asks, sends, waiting>>

\* Mutant of SubmitForm: a submission that waits is forgotten.
SubmitFormForgets(w, nulls) ==
  IF w.cancelSubmit THEN [w EXCEPT !.cancelSubmit = FALSE] ELSE Form(w, nulls)

\* The listener of "submit", in a state of the validator: what it does to the state, and
\* whether the form is sent.
SubmitForm(w, nulls) ==
  IF w.cancelSubmit THEN [w EXCEPT !.cancelSubmit = FALSE]
  ELSE LET f == Form(w, nulls)
       IN IF f.errorList = {} /\ f.pendingRequest > 0 THEN [f EXCEPT !.formSubmitted = TRUE] ELSE f

Sends(w, nulls) ==
  w.cancelSubmit \/ (Form(w, nulls).errorList = {} /\ Form(w, nulls).pendingRequest = 0)

\* The user submits the form, with the button of class "cancel" or another way.
submit ==
  /\ asks < MaxAsks /\ asks' = asks + 1
  /\ MayEdit
  /\ \E cancel \in {FALSE} \cup {Cancels}, nulls \in Answering(requests) :
       LET w == [v EXCEPT !.cancelSubmit = cancel]
       IN /\ v' = SubmitForm(w, nulls)
          /\ requests' = IF cancel THEN requests ELSE Asked(w, Fields, requests)
          /\ sends' = IF Sends(w, nulls) THEN sends + 1 ELSE sends
          /\ waiting' = (~ Sends(w, nulls) /\ Form(w, nulls).errorList = {})
  /\ UNCHANGED value

\* resetForm: of what belongs to the validator, only the errors and submitted.
resetValidator ==
  /\ Resets /\ MayEdit
  /\ value' = [e \in Fields |-> ""]
  /\ v' = [Prepare(v, Fields \cup {Box}) EXCEPT !.submitted = {}, !.shown = {}, !.highlighted = {}]
  /\ waiting' = FALSE
  /\ UNCHANGED <<requests, asks, sends>>

--------------------------------------------------------------------------------

(* The server *)

\* success of the rule "remote", as far as stopRequest: what is shown.
Answered(w, e, ok) ==
  LET u == IF ok THEN ShowErrors(Prepare(w, {e})) ELSE ShowErrors([w EXCEPT !.errorList = {e}])
  IN [u EXCEPT !.valid[e] = ok,
               !.pendingRequest = IF @ = 0 THEN 0 ELSE @ - 1, !.pending = @ \ {e}]

\* The form is checked, and submitted when there is no error.
Resubmit(w, nulls) ==
  LET f == Form(w, nulls)
  IN IF f.errorList # {} THEN [w |-> f, sent |-> FALSE]
     ELSE [w |-> [SubmitForm(f, nulls) EXCEPT !.formSubmitted = FALSE], sent |-> Sends(f, nulls)]

\* Mutant of stopRequest: a submission goes on while a question is open.
stopRequestOther(w, ok, nulls) ==
  IF ~ (ok /\ w.formSubmitted) THEN [w |-> w, sent |-> FALSE]
  ELSE [Resubmit(w, nulls) EXCEPT !.sent = Form(w, nulls).errorList = {}]

\* Mutant of stopRequest: a submission that is refused is kept.
stopRequestKept(w, ok, nulls) ==
  IF ~ (w.pendingRequest = 0 /\ w.formSubmitted) \/ ~ ok THEN [w |-> w, sent |-> FALSE]
  ELSE Resubmit(w, nulls)

\* stopRequest: the last answer submits the form again, if there is no error, or says
\* that it is invalid; in between, nothing is done.
stopRequest(w, ok, nulls) ==
  IF ~ (w.pendingRequest = 0 /\ w.formSubmitted) THEN [w |-> w, sent |-> FALSE]
  ELSE IF ~ ok THEN [w |-> [w EXCEPT !.formSubmitted = FALSE], sent |-> FALSE]
  ELSE Resubmit(w, nulls)

\* The server answers: true, or that the value is taken.
success ==
  \E r \in requests : \E nulls \in Answering(requests \ {r}) :
    LET ok == r[2] = "good"
        w == Answered(v, r[1], ok)
        s == stopRequest(w, ok, nulls)
        tried == ok /\ w.pendingRequest = 0 /\ w.formSubmitted
    IN /\ v' = s.w
       /\ requests' = IF tried THEN Asked(w, Fields, requests \ {r}) ELSE requests \ {r}
       /\ sends' = IF s.sent THEN sends + 1 ELSE sends
       /\ waiting' = (waiting /\ ~ s.sent
                        /\ (w.pendingRequest = 0 => ok /\ Form(w, nulls).errorList = {}))
       /\ UNCHANGED <<value, asks>>

\* The request fails: the options of "remote" have no error callback.
fail ==
  /\ Fails
  /\ \E r \in requests : requests' = requests \ {r}
  /\ UNCHANGED <<value, v, asks, sends, waiting>>

ValidateNext ==
  \/ \E e \in Fields : write(e) \/ onkeyup(e) \/ onfocusout(e)
  \/ submit \/ resetValidator \/ success \/ fail

ValidateSpec == ValidateInit /\ [][ValidateNext]_vvars

--------------------------------------------------------------------------------

Labels == Fields \cup {Box}

ValidateTypeOK ==
  /\ value \in [Fields -> FieldValues] /\ requests \subseteq Remote \X {"taken", "good"}
  /\ v.pendingRequest \in 0..Cardinality(Remote) /\ v.pending \subseteq Remote
  /\ v.shown \subseteq Labels /\ v.toHide \cap v.toShow = {}

\* "make sure pendingRequest is never < 0" (jquery.validate.js:720): it is the number of the
\* requests that are open, whatever was checked again or aborted meanwhile; where an aborted
\* request answers null, of the requests that a submission waits for.
PendingCounts ==
  waiting \/ TRUE \notin AbortAnswers =>
    /\ v.pendingRequest = Cardinality(requests)
    /\ v.pending = {r[1] : r \in requests}

\* What the page and the server say of the value that is in a field now.
Acceptable(e) ==
  IF value[e] = "" THEN e \notin Required
  ELSE value[e] # "malformed" /\ (e \in Remote => value[e] = "good")

\* "prevent submit for invalid forms or custom submit handlers" (jquery.validate.js:73):
\* what is sent passes all the rules, though the answers are about values of another
\* time.
SendsValid == sends' # sends => \A e \in Fields : Acceptable(e)

\* The same of a submission that is not of an invalid form: while it waits for answers
\* it is remembered.
WaitingKept == waiting => v.formSubmitted

\* The form is sent because the user submits it, and once for each time; a submission
\* that was refused is not sent later.
SentAsked == [][sends' # sends => waiting \/ asks' # asks]_vvars

\* A submission that waited and is not sent leaves an error on the page.
Told == [][waiting /\ ~ waiting' /\ sends' = sends => \E e \in Fields : e \in v'.shown]_vvars

\* What is marked is what is labelled, with rules the page can check by itself.
MarkedAsLabelled == v.highlighted = v.shown \cap Fields

\* What is sent passes all the rules, though the answers of the server are about values of
\* another time and some do not come (stopRequest).
FormsValid == [][SendsValid]_vvars

\* A submission that waits for the server is remembered and counts its requests; it is sent
\* because the user asked for it, or leaves an error on the page (startRequest, stopRequest,
\* and the handler of submit in validate).
SubmissionsKept == [](PendingCounts /\ WaitingKept) /\ SentAsked /\ Told

================================================================================
