------------------------------- MODULE FormUpload -------------------------------
(* ajaxSubmit and ajaxForm of jquery.form.js: a form is submitted by jQuery.ajax   *)
(* or, when a file is chosen in it, by the browser into a hidden iframe (ten       *)
(* milliseconds later), while the user goes on editing.  What is in a url is the   *)
(* sequence of the queries in it, each named by what made it one of GET: the form, *)
(* or the option type of the page.                                                 *)
EXTENDS FormFields

CONSTANTS
  MaxSubmits,  \* bound: submissions in the whole behaviour
  Methods,     \* the methods of the form as it is written
  TypeOptions, \* options.type: "form" where it is left out
  IframeOptions,  \* options.iframe
  Afters,      \* what success callbacks do: "nothing", "clear", "reset"
  Throws       \* success callbacks of the page may throw

ASSUME UploadAssumption ==
  /\ MaxSubmits \in Nat /\ Methods \subseteq {"GET", "POST"} /\ Throws \in BOOLEAN
  /\ TypeOptions \subseteq {"form", "GET", "POST"} /\ IframeOptions \subseteq BOOLEAN

VARIABLES
  method,   \* form.method
  action,   \* form.action: the queries that were put into it
  subs,     \* the submissions
  activeUploads    \* jQuery.active, with jQuery.ajax

uvars == <<fields, clk, written, method, action, subs, activeUploads>>

UploadInit ==
  /\ fields \in {f \in Forms : \A i \in DOMAIN f : ~ f[i].disabled}
  /\ written = fields
  /\ clk = None
  /\ method \in Methods
  /\ action = <<>>
  /\ subs = <<>>
  /\ activeUploads = 0

Chosen == \E i \in DOMAIN fields : fields[i].type = "file" /\ fields[i].value # ""

Gets(type) == type = "GET" \/ (type = "form" /\ method = "GET")

\* The options of a submission, and how far it is.
Submission(upload, type, timeout, after) ==
  [upload |-> upload,
   url |-> IF Gets(type) THEN Append(action, type) ELSE action,
   timeout |-> timeout, timer |-> FALSE, after |-> after,
   step |-> IF upload THEN "breath" ELSE "sent",
   invoked |-> FALSE, answers |-> 0, completes |-> 0]

\* Mutant of ajaxSubmit: a form that uploads keeps its method.
ajaxSubmitKeeps ==
  /\ Len(subs) < MaxSubmits
  /\ \E pressed \in {None} \cup {i \in DOMAIN fields : fields[i].type \in Buttons},
        type \in TypeOptions, iframe \in IframeOptions, timeout \in BOOLEAN, after \in Afters :
       /\ subs' = Append(subs, Submission(iframe \/ Chosen, type, timeout, after))
       /\ clk' = pressed
  /\ activeUploads' = activeUploads + 1
  /\ UNCHANGED <<fields, written, method, action>>

\* ajaxSubmit, at the click of a button or at the key of Enter; beforeSubmit and the
\* listeners of validate let it pass.  To upload is to make the form one that posts, and
\* not to change the type that the page gives with each submission.
ajaxSubmit ==
  /\ Len(subs) < MaxSubmits
  /\ \E pressed \in {None} \cup {i \in DOMAIN fields : fields[i].type \in Buttons},
        type \in TypeOptions, iframe \in IframeOptions, timeout \in BOOLEAN, after \in Afters :
       LET uploads == iframe \/ Chosen
       IN /\ subs' = Append(subs, Submission(uploads, type, timeout, after))
          /\ method' = IF uploads THEN "POST" ELSE method
          /\ clk' = pressed
  /\ activeUploads' = activeUploads + 1
  /\ UNCHANGED <<fields, written, action>>

\* Mutant of upload: the timeout is forgotten.
uploadUntimed(s) ==
  /\ subs[s].step = "breath"
  /\ action' = subs[s].url
  /\ subs' = [subs EXCEPT ![s] = [@ EXCEPT !.step = "sent"]]
  /\ UNCHANGED <<fields, clk, written, method, activeUploads>>

\* The timer of fileUpload: the browser submits the form as it is now.  The
\* target of the form is put back, its action is not.
upload(s) ==
  /\ subs[s].step = "breath"
  /\ action' = subs[s].url
  /\ subs' = [subs EXCEPT ![s] = [@ EXCEPT !.step = "sent", !.timer = subs[s].timeout]]
  /\ UNCHANGED <<fields, clk, written, method, activeUploads>>

\* The callbacks of options.success: the form is reset or cleared.
AfterSuccess(s) ==
  CASE subs[s].after = "clear" -> Cleared
    [] subs[s].after = "reset" -> written
    [] OTHER -> fields

\* Mutant of Done: it is not asked whether it was called before.
DoneAgain(s, ok, timer) ==
  /\ subs' = [subs EXCEPT ![s] = [@ EXCEPT !.invoked = TRUE, !.timer = timer,
                                           !.answers = subs[s].answers + 1,
                                           !.completes = subs[s].completes + 1]]
  /\ activeUploads' = activeUploads - 1
  /\ fields' = IF ok THEN AfterSuccess(s) ELSE fields

\* cb: success or handleError, then complete.
Done(s, ok, timer) ==
  /\ ~ subs[s].invoked
  /\ subs' = [subs EXCEPT ![s] = [@ EXCEPT !.invoked = TRUE, !.timer = timer,
                                           !.answers = subs[s].answers + 1,
                                           !.completes = subs[s].completes + 1]]
  /\ activeUploads' = activeUploads - 1
  /\ fields' = IF ok THEN AfterSuccess(s) ELSE fields

\* The answer to an upload is loaded into its iframe; its text may not parse.
load(s) ==
  /\ subs[s].upload /\ subs[s].step = "sent"
  /\ \E ok \in BOOLEAN : Done(s, ok, subs[s].timer)
  /\ UNCHANGED <<clk, written, method, action>>

\* Its timer: if cb was called in time it returns at once.
timeout(s) ==
  /\ subs[s].timer
  /\ IF subs[s].invoked
     THEN /\ subs' = [subs EXCEPT ![s].timer = FALSE]
          /\ UNCHANGED <<fields, activeUploads>>
     ELSE Done(s, FALSE, FALSE)
  /\ UNCHANGED <<clk, written, method, action>>

\* jQuery.ajax, which is external to the plugin, answers.
answer(s) ==
  /\ ~ subs[s].upload /\ subs[s].step = "sent"
  /\ \E ok \in BOOLEAN : Done(s, ok, subs[s].timer)
  /\ UNCHANGED <<clk, written, method, action>>

\* The success callback throws: nothing after it is done, in cb as in jQuery.ajax.
successThrows(s) ==
  /\ Throws
  /\ subs[s].step = "sent" /\ ~ subs[s].invoked
  /\ subs' = [subs EXCEPT ![s] = [@ EXCEPT !.invoked = TRUE, !.answers = 1]]
  /\ fields' = AfterSuccess(s)
  /\ UNCHANGED <<clk, written, method, action, activeUploads>>

\* The timer that removes the iframe.
clean(s) ==
  /\ subs[s].upload /\ subs[s].step = "sent" /\ subs[s].completes > 0
  /\ subs' = [subs EXCEPT ![s].step = "cleaned"]
  /\ UNCHANGED <<fields, clk, written, method, action, activeUploads>>

\* The user and the page work on the form.
work ==
  /\ \/ edit
     \/ forget
     \/ press
     \/ resetForm
  /\ UNCHANGED <<method, action, subs, activeUploads>>

UploadNext ==
  \/ ajaxSubmit \/ work
  \/ \E s \in DOMAIN subs :
       upload(s) \/ load(s) \/ timeout(s) \/ answer(s) \/ successThrows(s) \/ clean(s)

UploadSpec == UploadInit /\ [][UploadNext]_uvars

--------------------------------------------------------------------------------

UploadTypeOK ==
  /\ FieldsTypeOK
  /\ method \in {"GET", "POST"} /\ activeUploads \in 0..MaxSubmits
  /\ \A s \in DOMAIN subs : subs[s].answers \in Nat /\ subs[s].step \in {"breath", "sent", "cleaned"}

\* The answer of an upload and its timeout race: one of them calls success or error,
\* and complete, and the other one nothing (cbInvoked).
CalledBackOnce == \A s \in DOMAIN subs : subs[s].answers <= 1 /\ subs[s].completes <= 1

\* "trigger ajax global events so that activity/block indicators work like normal"
\* (jquery.form.js:272): uploads and requests are counted until they
\* complete, and those whose success callback throws for ever.
Counted == activeUploads = Cardinality({s \in DOMAIN subs : subs[s].completes = 0})

\* url: "default value: value of form's 'action' attribute" (jquery.form.js:27), into which
\* an upload writes its own with the query in it.  A url gets a second one only where the
\* page asks for GET by options.type, as a form that was uploaded posts.
OneQuery ==
  \A s \in DOMAIN subs : \A i \in 2..Len(subs[s].url) : subs[s].url[i] = "GET"

\* Whichever comes first calls an upload back, once, and it is counted till then; queries do
\* not pile up in the url of a form whose page gives no type (ajaxSubmit, fileUpload).
UploadsAnswered == CalledBackOnce /\ Counted /\ OneQuery

\* The timers of a submission: of ten milliseconds, of its timeout, of its iframe.
TimerIsSet(s) ==
  s \in DOMAIN subs
    /\ (subs[s].step = "breath" \/ subs[s].timer
          \/ (subs[s].upload /\ subs[s].step = "sent" /\ subs[s].completes > 0))
TimerGoesOff(s) == TimerIsSet(s) /\ (upload(s) \/ timeout(s) \/ clean(s))

\* An upload that has a timeout will end: its iframe is removed.
TimedUpload(s) == s \in DOMAIN subs /\ subs[s].upload /\ subs[s].timeout
Cleaned(s) == s \in DOMAIN subs /\ subs[s].step = "cleaned"

================================================================================
