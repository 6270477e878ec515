--------------------------------- MODULE MCPage ---------------------------------
(* The scripts of a page, one at a time: `part` says which of them a behaviour is    *)
(* about, and stays what it is.  The scripts share no state (jQuery.active, which two *)
(* of them count, is kept by each for its own), so that their sum has the behaviours *)
(* of each of them and a property of one is a property of all of its page.           *)
(*                                                                                   *)
(* Requests, forms and their upload, the validator, its rules, the number of a card    *)
(* and ready have their own variables and rest as they began in the other parts.      *)
(* The others use x1, x2, ...: the instances below say for which of theirs.           *)
EXTENDS FormUpload, Ajax, Validate, DomReady, ValidateRules, CreditCard

VARIABLES part, x1, x2, x3, x4, x5, x6, x7, x8

slots == <<x1, x2, x3, x4, x5, x6, x7, x8>>
cards == <<number, rlvars>>
all == <<part, slots, uvars, avars, vvars, rvars, cards>>

\* An element whose animations are stopped in every way the queue allows.
Effects ==
  INSTANCE Effects WITH
    Elements <- {"e1"}, MaxEntries <- 3, Kinds <- {"hide", "toggle", "delay"},
    Queued <- {TRUE}, Instants <- BOOLEAN, Stops <- {"stop", "clear", "end", "clear end"},
    StopInDelay <- FALSE, Clears <- FALSE, Callbacks <- {"nothing"},
    entries <- x1, queue <- x2, timers <- x3, ticking <- x4, delays <- x5, shown <- x6,
    clipped <- x7, last <- x8

\* An element that nobody stops.
Unstopped ==
  INSTANCE Effects WITH
    Elements <- {"e1"}, MaxEntries <- 3, Kinds <- {"show", "hide", "toggle", "to"},
    Queued <- {TRUE}, Instants <- {FALSE}, Stops <- {},
    StopInDelay <- FALSE, Clears <- FALSE, Callbacks <- {"nothing"},
    entries <- x1, queue <- x2, timers <- x3, ticking <- x4, delays <- x5, shown <- x6,
    clipped <- x7, last <- x8

\* Two elements that a page stops, clears and animates as it likes.
Misused ==
  INSTANCE Effects WITH
    Elements <- {"e1", "e2"}, MaxEntries <- 2, Kinds <- {"to", "delay"},
    Queued <- BOOLEAN, Instants <- BOOLEAN, Stops <- {"stop", "end"},
    StopInDelay <- TRUE, Clears <- TRUE, Callbacks <- {"nothing", "stop"},
    entries <- x1, queue <- x2, timers <- x3, ticking <- x4, delays <- x5, shown <- x6,
    clipped <- x7, last <- x8

\* Two fields with rules that the page checks by itself.
Alone ==
  INSTANCE Validate WITH
    Fields <- {1, 2}, Required <- {1}, Remote <- {}, MaxAsks <- 2,
    Fails <- FALSE, AbortAnswers <- {FALSE}, Cancels <- FALSE, Resets <- TRUE, Patient <- FALSE,
    value <- x1, v <- x2, requests <- x3, asks <- x4, sends <- x5, waiting <- x6

Query ==
  INSTANCE QueryString WITH
    Keys <- {"a"} \X {<<>>, <<"">>, <<"x">>, <<"0">>, <<"1">>, <<"", "x">>, <<"x", "">>, <<"x", "x">>,
                      <<"x", "1">>, <<"0", "x">>, <<"0", "0">>},
    Texts <- {<<>>, <<"a%2Bb">>, <<"+7">>, <<"1.50">>, <<"0.0000001">>},
    Inputs <- {<<"string", "007">>, <<"boolean", "false">>}, MaxOps <- 2,
    keys <- x1, ops <- x2

To(rel, p) == [rel |-> rel, part |-> p]
From(p) == To("", p)

\* Selectors of one part, of each pair of relations, of more, and two with a comma.
Lists ==
  {<<>>, <<<<From("b")>>>>, <<<<From(":nth-child(2)")>>>>,
   <<<<To(">", "b")>>>>, <<<<To("+", "b")>>>>, <<<<To("~", "b")>>>>,
   <<<<From("b"), From("b")>>>>, <<<<From(".c"), To(">", "b")>>>>,
   <<<<From("b"), To("+", "a")>>>>, <<<<From("a"), To("~", "b")>>>>,
   <<<<From("#i"), To(">", "a")>>>>, <<<<From("#i"), To("+", "a")>>>>,
   <<<<From(":nth-child(2)"), From("b")>>>>, <<<<From(":nth-child(2)"), To("~", "b")>>>>,
   <<<<From("a"), From("b"), From("b")>>>>, <<<<From("a"), To("~", "b"), To("~", "b")>>>>,
   <<<<From("b"), To(">", "a"), To("~", "b")>>>>, <<<<From("a"), To(">", "b"), From("b")>>>>,
   <<<<From("b")>>, <<From("a"), From("b")>>>>, <<<<To(">", "b")>>, <<From(".c")>>>>}

Root == -1

\* Every document of three elements and every selector.
Select ==
  INSTANCE Selectors WITH
    N <- 3, Looks <- {"a", "b.c", "b#i"}, Lists <- Lists,
    Starts <- {<<Root>>, <<1>>, <<3>>, <<2, 3>>},
    Methods <- {"find", "filter", "not", "closest", "parents", "prevAll", "siblings"},
    MaxQueries <- 1, MaxEdits <- 0,
    parent <- x1, look <- x2, notes <- x3, asked <- x4, queries <- x5, edits <- x6

\* Two queries with a change of the document between them.
Again ==
  INSTANCE Selectors WITH
    N <- 3, Looks <- {"a", "b.c"},
    Lists <- {<<<<From("b"), From("b")>>>>, <<<<From(".c"), To("~", "b")>>>>,
              <<<<From(":nth-child(2)")>>>>, <<<<From(":nth-child(2)"), From("b")>>>>},
    Starts <- {<<Root>>, <<1, 2>>}, Methods <- {"find", "nextAll", "children"},
    MaxQueries <- 2, MaxEdits <- 1,
    parent <- x1, look <- x2, notes <- x3, asked <- x4, queries <- x5, edits <- x6

--------------------------------------------------------------------------------

(* From a variable on, the ones a script does not use.                             *)
From8 == x8 = None
From7 == x7 = None /\ From8
From6 == x6 = None /\ From7
From4 == x4 = None /\ x5 = None /\ From6
From3 == x3 = None /\ From4
From2 == x2 = None /\ From3
From1 == x1 = None /\ From2

NoForm == fields = (CHOOSE f \in Forms : \A i \in 1..Size : f[i].disabled) /\ FormInit
NoUpload == method = "GET" /\ action = <<>> /\ subs = <<>> /\ activeUploads = 0

\* The forms that are submitted: a file and another field, with one text that is entered.
Small ==
  /\ fields[1].type \in {"text", "submit", "file"} /\ fields[2].type = "file"
  /\ \A i \in 1..2 : fields[i].value # "w"

InitOther ==
  \/ part = "effects" /\ Effects!Init
  \/ part = "unstopped" /\ Unstopped!Init
  \/ part = "misused" /\ Misused!Init
  \/ part = "alone" /\ Alone!ValidateInit /\ From7
  \/ part = "query" /\ Query!Init /\ From3
  \/ part = "select" /\ Select!SelectInit /\ From7
  \/ part = "again" /\ Again!SelectInit /\ From7

NoValues == ValidateInit /\ value = [e \in Fields |-> ""]

\* A page that is loading, with functions that neither throw nor register others.
NoReady == readyState = "loading" /\ nested = [f \in Functions |-> 0] /\ throwing = {} /\ ReadyInit

Init ==
  /\ AjaxInit
  /\ \/ InitOther /\ NoForm /\ NoUpload /\ NoValues /\ NoReady
     \/ part = "ajax" /\ NoForm /\ NoUpload /\ NoValues /\ NoReady /\ From1
     \/ part = "form" /\ FormInit /\ NoUpload /\ NoValues /\ NoReady /\ From1
     \/ part = "upload" /\ UploadInit /\ Small /\ NoValues /\ NoReady /\ From1
     \/ part = "asking" /\ ValidateInit /\ NoForm /\ NoUpload /\ NoReady /\ From1
     \/ part = "ready" /\ ReadyInit /\ NoForm /\ NoUpload /\ NoValues /\ From1
     \/ part \in {"rules", "card"} /\ NoForm /\ NoUpload /\ NoValues /\ NoReady /\ From1
  /\ IF part = "card" THEN CardInit ELSE number = <<>>
  /\ RulesInit /\ (part # "rules" => class = {} /\ attribute = NoRules)

NextOther ==
  \/ part = "effects" /\ Effects!Next
  \/ part = "unstopped" /\ Unstopped!Next
  \/ part = "misused" /\ Misused!Next
  \/ part = "alone" /\ Alone!ValidateNext /\ UNCHANGED <<x7, x8>>
  \/ part = "query" /\ Query!Next /\ UNCHANGED <<x3, x4, x5, x6, x7, x8>>
  \/ part = "select" /\ Select!SelectNext /\ UNCHANGED <<x7, x8>>
  \/ part = "again" /\ Again!SelectNext /\ UNCHANGED <<x7, x8>>

Next ==
  /\ UNCHANGED part
  /\ \/ NextOther /\ UNCHANGED <<uvars, avars, vvars, rvars, cards>>
     \/ part = "ajax" /\ AjaxNext /\ UNCHANGED <<slots, uvars, vvars, rvars, cards>>
     \/ part = "form" /\ FormNext
          /\ UNCHANGED <<method, action, subs, activeUploads, slots, avars, vvars, rvars, cards>>
     \/ part = "upload" /\ UploadNext /\ Small'
          /\ UNCHANGED <<slots, avars, vvars, rvars, cards>>
     \/ part = "asking" /\ ValidateNext /\ UNCHANGED <<slots, uvars, avars, rvars, cards>>
     \/ part = "ready" /\ ReadyNext /\ UNCHANGED <<slots, uvars, avars, vvars, cards>>
     \/ part = "card" /\ CardNext /\ UNCHANGED <<slots, uvars, avars, vvars, rvars, rlvars>>
     \/ part = "rules" /\ RulesNext /\ UNCHANGED <<slots, uvars, avars, vvars, rvars, number>>

Spec == Init /\ [][Next]_all

--------------------------------------------------------------------------------
(* What the modules of the scripts state, each of its part; KeepsPromise and          *)
(* RequestsServed are stated by Ajax, UploadsAnswered by FormUpload, FormsValid by     *)
(* Validate, ReadyCalls by DomReady, FormPairs by FormFields, *)
(* RulesKept by ValidateRules and CardsChecked by CreditCard.                            *)

\* The variables of each script have values of their types.
PageTypeOK ==
  CASE part = "ajax" -> AjaxTypeOK
    [] part = "effects" -> Effects!EffectsTypeOK
    [] part = "unstopped" -> Unstopped!EffectsTypeOK
    [] part = "misused" -> Misused!EffectsTypeOK
    [] part = "ready" -> ReadyTypeOK
    [] part = "form" -> FieldsTypeOK
    [] part = "asking" -> ValidateTypeOK
    [] part = "alone" -> Alone!ValidateTypeOK
    [] OTHER -> UploadTypeOK

\* What is queued for an element runs one after the other, in the order of the calls, and
\* waits only for what will dequeue it, also when some of it is stopped (queue, dequeue).
\* If nobody stops it, it rests as the last animation asked, and not with its overflow
\* hidden (step).  Whatever is stopped, by callbacks too, what is stepped is stepped by an
\* interval and a complete callback is called once (tick, custom).  What the validator marks
\* is what it labels, with rules that the page checks by itself (defaultShowErrors).
DisplayKept ==
  /\ [](part = "effects" => Effects!OneAtATime /\ Effects!Driven)
  /\ [][part = "effects" => Effects!StartInOrder]_all
  /\ [](part = "unstopped" => Unstopped!RestsAsAsked /\ Unstopped!OverflowReset)
  /\ [](part = "misused" => Misused!Ticks /\ Misused!CalledOnce)
  /\ [](part = "alone" => Alone!MarkedAsLabelled)

\* What is written is read again as the same query (toString, queryObject); SET changes its
\* key and nothing beside it, REMOVE takes what is under its key and nothing else.
QueryKept ==
  /\ [](part = "query" => Query!RoundTrip)
  /\ [][part = "query" => Query!SetsOne /\ Query!RemovesOne]_all

\* A selector finds what it says, in whatever document and order, also by the notes that
\* other queries left on its nodes (Sizzle).
SelectionRight ==
  /\ part = "select" => Select!SelectionRight
  /\ part = "again" => Again!SelectionRight

================================================================================
