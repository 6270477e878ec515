---------------------------- MODULE Scripts_proofs -----------------------------
(* What is true of what jQuery calls of a page's functions: the callbacks of its        *)
(* requests, the handlers of its events, and the functions that wait for it to be      *)
(* ready, for any number of them, however deep they call each other.                   *)
EXTENDS Ajax, Events, DomReady, Arrays_proofs, FiniteSetTheorems, TLAPS

--------------------------------------------------------------------------------
(* Requests (Ajax).                                                                  *)

\* The cases in which jQuery keeps its promise: no JSONP of the page's own server, which is
\* completed twice, a name of its own for each function, nothing that throws, and no abort in
\* the complete callback of an abort.
Benign ==
  "local jsonp" \notin Kinds /\ ~ SharedName /\ ~ AbortsAgain /\ MaxFaults = 0

Phase == {"new", "open", "sent", "refused", "failed", "answered", "aborted"}
Whys == {"call", "throw", "load", "timeout", "jsonp", "script", "abort"}
Points == Callbacks \cup {"send", "enter", "eval", "evaled"}

Reqs ==
  [kind : Kinds \cup {"xhr"}, step : Phase, requestDone : BOOLEAN, xhr : BOOLEAN,
   timer : BOOLEAN, data : Requests \cup {NoRequest}]
Counts == [beforeSend : Nat, success : Nat, error : Nat, complete : Nat, completed : Nat]
Frames == [r : Requests, why : Whys, at : Points]

TypesInv ==
  /\ req \in [Requests -> Reqs]
  /\ calls \in [Requests -> Counts]
  /\ stack \in Seq(Frames)
  /\ active \in Int /\ indicator \in BOOLEAN
  /\ window \in [Requests -> Requests \cup {NoRequest}]
  /\ faults \in Nat

--------------------------------------------------------------------------------
(* What is known of a request and of a frame.                                        *)

AnswersOf(c) == c.success + c.error
Untouched(c) == c.success = 0 /\ c.error = 0 /\ c.complete = 0 /\ c.completed = 0

\* A request, its calls and its function.
ReqInv(q, c, hasName) ==
  /\ q.step \in {"new", "open", "sent", "refused"} => Untouched(c) /\ ~ q.requestDone
  /\ q.step = "new" => ~ hasName
  /\ q.step \in {"open", "aborted"} \/ q.xhr \/ q.timer => ~ IsRemote(q.kind)
  /\ q.step = "sent" /\ Jsonp(q.kind) => hasName
  /\ q.timer => q.step \notin {"new", "refused"}
  /\ q.step = "answered" =>
       /\ AnswersOf(c) = 1 /\ c.completed <= c.complete /\ c.complete <= 1
       /\ IsRemote(q.kind) \/ q.requestDone
  /\ q.step = "aborted" =>
       /\ AnswersOf(c) = 0
       /\ c.complete = 1 /\ c.completed = IF q.requestDone THEN 1 ELSE 0
  /\ q.step # "failed"

\* A frame of it, which is the innermost or not.
FrameInv(f, q, c, isTop) ==
  /\ f.at \in {"beforeSend", "send"} => f.why = "call" /\ q.step = "open"
  /\ f.at \in {"success", "error"} =>
       /\ f.why \in {"load", "timeout", "jsonp", "script"}
       /\ q.step = "answered" /\ c.complete = 0
  /\ f.at = "complete" =>
       /\ c.complete = 1 /\ c.completed = 0
       /\ IF f.why = "abort" THEN q.step = "aborted" /\ ~ q.requestDone
          ELSE f.why \in {"load", "timeout", "jsonp", "script"} /\ q.step = "answered"
  /\ f.at = "enter" =>
       /\ f.why = "abort"
       /\ q.requestDone \/ (isTop /\ q.step = "sent")
  /\ f.at \notin {"eval", "evaled"}
  /\ f.why \in {"load", "timeout", "abort"} => ~ IsRemote(q.kind)

Named(r) == window[r] = r

RequestsInv == \A r \in Requests : ReqInv(req[r], calls[r], Named(r))
WindowInv == \A r \in Requests : window[r] \in {r, NoRequest}
FramesInv == \A i \in DOMAIN stack : FrameInv(stack[i], req[stack[i].r], calls[stack[i].r], i = 1)

\* A request runs in one frame, but for the calls of abort.
OneFrame ==
  \A i, j \in DOMAIN stack :
    i # j /\ stack[i].r = stack[j].r => stack[i].at = "enter" \/ stack[j].at = "enter"

\* An abort that is not done is running.
AbortRuns ==
  \A r \in Requests :
    req[r].step = "aborted" /\ ~ req[r].requestDone =>
      \E i \in DOMAIN stack : stack[i] = Frame(r, "abort", "complete")

CountInv ==
  /\ IsFiniteSet(Begun)
  /\ active = Cardinality(Begun \ Ended)
  /\ indicator <=> active # 0

AjaxInv ==
  /\ TypesInv
  /\ RequestsInv /\ WindowInv
  /\ FramesInv /\ OneFrame /\ AbortRuns
  /\ CountInv
--------------------------------------------------------------------------------
(* The stack.                                                                         *)

\* s2 is s with a frame pushed (d = -1), its first frame replaced (0), or popped (1).
Shifted(s, s2, d) ==
  /\ \A i \in DOMAIN s2 : (i = 1 /\ d # 1) \/ (i + d \in DOMAIN s /\ s2[i] = s[i + d])
  /\ \A i \in DOMAIN s : (i = 1 /\ d # -1) \/ (i - d \in DOMAIN s2 /\ s2[i - d] = s[i])

LEMMA PlaceTypes ==
  ASSUME NEW s \in Seq(Frames)
  PROVE  \A i \in DOMAIN s : i \in Nat /\ i >= 1 /\ s[i] \in Frames /\ s[i].r \in Requests
<1>1. DOMAIN s = 1..Len(s) /\ Len(s) \in Nat /\ \A i \in 1..Len(s) : s[i] \in Frames
  OBVIOUS
<1>2. \A f \in Frames : f.r \in Requests
  BY DEF Frames
<1> QED
  BY <1>1, <1>2

LEMMA OnFacts ==
  ASSUME NEW F, NEW f \in F, NEW s \in Seq(F)
  PROVE  /\ On(f, s) \in Seq(F) /\ Len(On(f, s)) = Len(s) + 1
         /\ On(f, s)[1] = f /\ \A i \in 1..Len(s) : On(f, s)[i + 1] = s[i]
BY DEF On

LEMMA OnEmpty == ASSUME NEW F, NEW f \in F PROVE <<f>> = On(f, <<>>) /\ <<f>> \in Seq(F) /\ <<>> \in Seq(F)
BY DEF On

LEMMA TopFacts ==
  ASSUME NEW F, NEW s \in Seq(F), s # <<>>
  PROVE  /\ Head(s) = s[1] /\ s[1] \in F /\ 1 \in DOMAIN s
         /\ Tail(s) \in Seq(F) /\ Len(Tail(s)) = Len(s) - 1 /\ Len(s) >= 1
         /\ \A i \in 1..(Len(s) - 1) : Tail(s)[i] = s[i + 1]
OBVIOUS

LEMMA ShiftPush ==
  ASSUME NEW s \in Seq(Frames), NEW f \in Frames
  PROVE  /\ On(f, s) \in Seq(Frames) /\ On(f, s)[1] = f /\ 1 \in DOMAIN On(f, s)
         /\ Shifted(s, On(f, s), -1)
<1>1. /\ On(f, s) \in Seq(Frames) /\ Len(On(f, s)) = Len(s) + 1
      /\ On(f, s)[1] = f /\ \A i \in 1..Len(s) : On(f, s)[i + 1] = s[i]
  BY OnFacts
<1>2. DOMAIN s = 1..Len(s) /\ DOMAIN On(f, s) = 1..(Len(s) + 1) /\ Len(s) \in Nat
  BY <1>1
<1>3. \A i \in DOMAIN On(f, s) : i = 1 \/ (i + (-1) \in DOMAIN s /\ On(f, s)[i] = s[i + (-1)])
  <2> SUFFICES ASSUME NEW i \in DOMAIN On(f, s), i # 1
               PROVE  i + (-1) \in DOMAIN s /\ On(f, s)[i] = s[i + (-1)]
    OBVIOUS
  <2>1. i + (-1) \in 1..Len(s) /\ (i + (-1)) + 1 = i
    BY <1>2
  <2> QED
    BY <1>1, <1>2, <2>1
<1>4. \A i \in DOMAIN s : i - (-1) \in DOMAIN On(f, s) /\ On(f, s)[i - (-1)] = s[i]
  <2> SUFFICES ASSUME NEW i \in DOMAIN s PROVE i - (-1) \in DOMAIN On(f, s) /\ On(f, s)[i - (-1)] = s[i]
    OBVIOUS
  <2>1. i - (-1) = i + 1 /\ i \in 1..Len(s) /\ i + 1 \in 1..(Len(s) + 1)
    BY <1>2
  <2> QED
    BY <1>1, <1>2, <2>1
<1> QED
  BY <1>1, <1>2, <1>3, <1>4 DEF Shifted

LEMMA ShiftPop ==
  ASSUME NEW s \in Seq(Frames), s # <<>>
  PROVE  Tail(s) \in Seq(Frames) /\ Shifted(s, Tail(s), 1)
<1>1. /\ Tail(s) \in Seq(Frames) /\ Len(Tail(s)) = Len(s) - 1 /\ Len(s) >= 1
      /\ \A i \in 1..(Len(s) - 1) : Tail(s)[i] = s[i + 1]
  BY TopFacts
<1>2. DOMAIN s = 1..Len(s) /\ DOMAIN Tail(s) = 1..(Len(s) - 1) /\ Len(s) \in Nat
  BY <1>1
<1>3. \A i \in DOMAIN Tail(s) : i + 1 \in DOMAIN s /\ Tail(s)[i] = s[i + 1]
  BY <1>1, <1>2
<1>4. \A i \in DOMAIN s : i = 1 \/ (i - 1 \in DOMAIN Tail(s) /\ Tail(s)[i - 1] = s[i])
  <2> SUFFICES ASSUME NEW i \in DOMAIN s, i # 1 PROVE i - 1 \in DOMAIN Tail(s) /\ Tail(s)[i - 1] = s[i]
    OBVIOUS
  <2>1. i - 1 \in 1..(Len(s) - 1) /\ (i - 1) + 1 = i
    BY <1>2
  <2> QED
    BY <1>1, <1>2, <2>1
<1> QED
  BY <1>1, <1>3, <1>4 DEF Shifted

LEMMA ShiftTop ==
  ASSUME NEW s \in Seq(Frames), s # <<>>, NEW f \in Frames
  PROVE  /\ On(f, Tail(s)) \in Seq(Frames) /\ On(f, Tail(s))[1] = f /\ 1 \in DOMAIN On(f, Tail(s))
         /\ Shifted(s, On(f, Tail(s)), 0)
<1> DEFINE rest == Tail(s)
           s2 == On(f, rest)
<1>1. /\ rest \in Seq(Frames) /\ Len(rest) = Len(s) - 1 /\ Len(s) >= 1
      /\ \A i \in 1..(Len(s) - 1) : rest[i] = s[i + 1]
  BY TopFacts
<1> HIDE DEF rest
<1>2. /\ s2 \in Seq(Frames) /\ Len(s2) = Len(rest) + 1
      /\ s2[1] = f /\ \A i \in 1..Len(rest) : s2[i + 1] = rest[i]
  BY <1>1, OnFacts, SMTT(30)
<1> HIDE DEF s2
<1>3. DOMAIN s = 1..Len(s) /\ DOMAIN s2 = 1..Len(s) /\ Len(s) \in Nat /\ Len(rest) = Len(s) - 1
  BY <1>1, <1>2
<1>4. \A i \in 1..Len(s) : i = 1 \/ s2[i] = s[i]
  <2> SUFFICES ASSUME NEW i \in 1..Len(s), i # 1 PROVE s2[i] = s[i]
    OBVIOUS
  <2>1. i - 1 \in 1..(Len(s) - 1) /\ (i - 1) + 1 = i
    BY <1>3
  <2> QED
    BY <1>1, <1>2, <1>3, <2>1
<1>5. \A i \in 1..Len(s) : i + 0 = i /\ i - 0 = i
  OBVIOUS
<1>6. Shifted(s, s2, 0)
  BY <1>3, <1>4, <1>5 DEF Shifted
<1> QED
  BY <1>1, <1>2, <1>3, <1>6 DEF s2, rest

--------------------------------------------------------------------------------
(* Types.                                                                             *)

LEMMA TypesInit == AjaxInit => TypesInv
<1>1. NewRequest \in Reqs
  BY DEF NewRequest, Reqs, Phase
<1>2. NoCalls \in Counts
  BY DEF NoCalls, Counts
<1> SUFFICES ASSUME AjaxInit PROVE TypesInv
  OBVIOUS
<1>3. req \in [Requests -> Reqs]
  BY <1>1 DEF AjaxInit
<1>4. calls \in [Requests -> Counts]
  BY <1>2 DEF AjaxInit
<1>5. stack \in Seq(Frames)
  BY DEF AjaxInit
<1>6. window \in [Requests -> Requests \cup {NoRequest}]
  BY DEF AjaxInit
<1>7. active \in Int /\ faults \in Nat
  BY DEF AjaxInit
<1>8. indicator \in BOOLEAN
  BY Zenon DEF AjaxInit
<1> QED
  BY <1>3, <1>4, <1>5, <1>6, <1>7, <1>8 DEF TypesInv

\* The frame that runs.
LEMMA TopTypes ==
  ASSUME TypesInv, stack # <<>>
  PROVE  /\ Top = stack[1] /\ Top \in Frames /\ Top.r \in Requests /\ 1 \in DOMAIN stack
         /\ Tail(stack) \in Seq(Frames)
<1>1. stack \in Seq(Frames)
  BY DEF TypesInv
<1>2. Top = stack[1] /\ Top \in Frames /\ 1 \in DOMAIN stack /\ Tail(stack) \in Seq(Frames)
  BY <1>1, TopFacts DEF Top
<1> QED
  BY <1>2 DEF Frames

\* A frame that goes on.
LEMMA GotoTypes ==
  ASSUME TypesInv, stack # <<>>, NEW point \in Points, Goto(point)
  PROVE  /\ stack' \in Seq(Frames) /\ stack'[1] = Frame(Top.r, Top.why, point) /\ 1 \in DOMAIN stack'
         /\ Shifted(stack, stack', 0)
<1>1. Top \in Frames
  BY TopTypes
<1>2. [Top EXCEPT !.at = point] = Frame(Top.r, Top.why, point) /\ Frame(Top.r, Top.why, point) \in Frames
  BY <1>1 DEF Frames, Frame
<1> QED
  BY <1>2, ShiftTop DEF Goto, TypesInv

LEMMA RaisedTypes ==
  ASSUME NEW c \in Counts, NEW callback \in {"beforeSend", "success", "error", "complete", "completed"}
  PROVE  [c EXCEPT ![callback] = @ + 1] \in Counts
BY DEF Counts

\* A callback is called.
LEMMA CalledTypes ==
  ASSUME TypesInv, NEW r \in Requests,
         NEW callback \in {"beforeSend", "success", "error", "complete", "completed"},
         Called(r, callback)
  PROVE  /\ calls' \in [Requests -> Counts]
         /\ calls'[r] = [calls[r] EXCEPT ![callback] = @ + 1]
         /\ \A q \in Requests : q # r => calls'[q] = calls[q]
<1>1. calls[r] \in Counts
  BY DEF TypesInv
<1>2. [calls[r] EXCEPT ![callback] = @ + 1] \in Counts
  BY <1>1 DEF Counts
<1> QED
  BY <1>2 DEF Called, TypesInv

LEMMA NameTypes == ASSUME NEW r \in Requests PROVE NameOf(r) \in Requests
BY DEF NameOf

\* What onreadystatechange does.
LEMMA RespondTypes ==
  ASSUME TypesInv, NEW r \in Requests, NEW answer, NEW rest \in Seq(Frames), Respond(r, answer, rest)
  PROVE  /\ req' \in [Requests -> Reqs] /\ calls' \in [Requests -> Counts] /\ stack' \in Seq(Frames)
         /\ \A q \in Requests : q # r => req'[q] = req[q] /\ calls'[q] = calls[q]
         /\ req'[r] = [req[r] EXCEPT !.requestDone = TRUE, !.step = "answered"]
         /\ \/ Jsonp(req[r].kind) /\ calls' = calls
            \/ \E at \in {"success", "error"} :
                 /\ stack' = On(Frame(r, "load", at), rest)
                 /\ calls'[r] = [calls[r] EXCEPT ![at] = @ + 1]
<1>1. req[r] \in Reqs
  BY DEF TypesInv
<1>2. [req[r] EXCEPT !.requestDone = TRUE, !.step = "answered"] \in Reqs
  BY <1>1 DEF Reqs, Phase
<1>3. /\ req' \in [Requests -> Reqs] /\ req'[r] = [req[r] EXCEPT !.requestDone = TRUE, !.step = "answered"]
      /\ \A q \in Requests : q # r => req'[q] = req[q]
  BY <1>2 DEF Respond, TypesInv
<1>4. ASSUME NEW at \in Points PROVE Frame(r, "load", at) \in Frames
  BY DEF Frame, Frames, Whys
<1>5. \/ Jsonp(req[r].kind) /\ calls' = calls /\ stack' = On(Frame(r, "load", "eval"), rest)
      \/ \E at \in {"success", "error"} : stack' = On(Frame(r, "load", at), rest) /\ Called(r, at)
  BY DEF Respond
<1>6. CASE Jsonp(req[r].kind) /\ calls' = calls /\ stack' = On(Frame(r, "load", "eval"), rest)
  BY <1>3, <1>4, <1>6, OnFacts DEF TypesInv, Points
<1>7. CASE \E at \in {"success", "error"} : stack' = On(Frame(r, "load", at), rest) /\ Called(r, at)
  <2> PICK at \in {"success", "error"} : stack' = On(Frame(r, "load", at), rest) /\ Called(r, at)
    BY <1>7
  <2>1. at \in Points
    BY DEF Points, Callbacks
  <2>2. stack' \in Seq(Frames)
    BY <1>4, <2>1, OnFacts
  <2>3. /\ calls' \in [Requests -> Counts] /\ calls'[r] = [calls[r] EXCEPT ![at] = @ + 1]
        /\ \A q \in Requests : q # r => calls'[q] = calls[q]
    BY CalledTypes
  <2> QED
    BY <1>3, <2>2, <2>3
<1> QED
  BY <1>5, <1>6, <1>7

--------------------------------------------------------------------------------
(* A step of one request.                                                             *)

\* Nothing is done to the other requests.
Others(r) == \A q \in Requests : q # r => req'[q] = req[q] /\ calls'[q] = calls[q]

\* The frames that stay in the stack when it is shifted.
Stays(i, d) == i \in DOMAIN stack /\ (i # 1 \/ d = -1)

LEMMA FrameDeeper ==
  ASSUME NEW f, NEW q, NEW c, f.at # "enter", NEW top, FrameInv(f, q, c, top), NEW top2
  PROVE  FrameInv(f, q, c, top2)
BY DEF FrameInv

LEMMA FrameHigher ==
  ASSUME NEW f, NEW q, NEW c, NEW top, FrameInv(f, q, c, FALSE)
  PROVE  FrameInv(f, q, c, top)
BY DEF FrameInv

\* What has to be shown of the frames of the request and of the one on top.
LEMMA FramesStep ==
  ASSUME TypesInv, TypesInv', FramesInv, OneFrame,
         NEW r \in Requests, Others(r), NEW d \in {-1, 0, 1}, Shifted(stack, stack', d),
         d = -1 /\ stack # <<>> => stack[1].at # "enter" \/ stack[1].r = r,
         \A i : Stays(i, d) /\ stack[i].r = r => FrameInv(stack[i], req'[r], calls'[r], FALSE),
         d # 1 => /\ FrameInv(stack'[1], req'[stack'[1].r], calls'[stack'[1].r], TRUE)
                  /\ \/ stack'[1].at = "enter"
                     \/ \A i : Stays(i, d) /\ stack[i].r = stack'[1].r => stack[i].at = "enter"
  PROVE  FramesInv' /\ OneFrame'
<1>1. \A i \in DOMAIN stack : i \in Nat /\ i >= 1 /\ stack[i] \in Frames /\ stack[i].r \in Requests
  BY PlaceTypes DEF TypesInv
<1>2. \A i \in DOMAIN stack' : i \in Nat /\ i >= 1 /\ stack'[i] \in Frames /\ stack'[i].r \in Requests
  BY PlaceTypes DEF TypesInv
<1>3. \A i \in DOMAIN stack' : (i = 1 /\ d # 1) \/ (Stays(i + d, d) /\ stack'[i] = stack[i + d])
  <2> SUFFICES ASSUME NEW i \in DOMAIN stack', ~ (i = 1 /\ d # 1)
               PROVE  Stays(i + d, d) /\ stack'[i] = stack[i + d]
    OBVIOUS
  <2>1. i + d \in DOMAIN stack /\ stack'[i] = stack[i + d]
    BY DEF Shifted
  <2>2. i + d # 1 \/ d = -1
    BY <1>2
  <2> QED
    BY <2>1, <2>2 DEF Stays
<1>4. ASSUME NEW i \in DOMAIN stack', Stays(i + d, d), stack'[i] = stack[i + d]
      PROVE  FrameInv(stack'[i], req'[stack'[i].r], calls'[stack'[i].r], i = 1)
  <2> DEFINE f == stack[i + d]
             top == i = 1
             old == i + d = 1
  <2>1. i + d \in DOMAIN stack /\ f \in Frames /\ f.r \in Requests
    BY <1>1, <1>4 DEF Stays
  <2>2. CASE f.r = r
    <3>1. FrameInv(f, req'[f.r], calls'[f.r], FALSE)
      BY <1>4, <2>2
    <3> QED
      BY <1>4, <3>1, FrameHigher
  <2>3. CASE f.r # r
    <3>1. req'[f.r] = req[f.r] /\ calls'[f.r] = calls[f.r]
      BY <2>1, <2>3 DEF Others
    <3>2. FrameInv(f, req[f.r], calls[f.r], old)
      BY <2>1 DEF FramesInv
    <3>3. CASE i + d = 1
      <4>1. d = -1 /\ stack # <<>>
        BY <1>2, <1>4, <3>3 DEF Stays
      <4>2. f.at # "enter"
        BY <2>3, <3>3, <4>1
      <4>3. FrameInv(f, req[f.r], calls[f.r], top)
        BY <3>2, <4>2, FrameDeeper
      <4> QED
        BY <1>4, <3>1, <4>3
    <3>4. CASE i + d # 1
      <4>1. FrameInv(f, req[f.r], calls[f.r], FALSE)
        BY <3>2, <3>4
      <4>2. FrameInv(f, req[f.r], calls[f.r], top)
        BY <4>1, FrameHigher
      <4> QED
        BY <1>4, <3>1, <4>2
    <3> QED
      BY <3>3, <3>4
  <2> QED
    BY <2>2, <2>3
<1>5. FramesInv'
  <2> SUFFICES ASSUME NEW i \in DOMAIN stack'
               PROVE  FrameInv(stack'[i], req'[stack'[i].r], calls'[stack'[i].r], i = 1)
    BY DEF FramesInv
  <2> QED
    BY <1>3, <1>4
<1>6. OneFrame'
  <2> SUFFICES ASSUME NEW i \in DOMAIN stack', NEW j \in DOMAIN stack', i # j, stack'[i].r = stack'[j].r,
                      stack'[i].at # "enter"
               PROVE  stack'[j].at = "enter"
    BY DEF OneFrame
  <2>1. CASE i = 1 /\ d # 1
    <3>1. Stays(j + d, d) /\ stack'[j] = stack[j + d]
      BY <1>3, <2>1
    <3> QED
      BY <2>1, <3>1
  <2>2. CASE ~ (i = 1 /\ d # 1) /\ j = 1 /\ d # 1
    <3>1. Stays(i + d, d) /\ stack'[i] = stack[i + d]
      BY <1>3, <2>2
    <3>2. \/ stack'[1].at = "enter"
          \/ stack[i + d].r = stack'[1].r => stack[i + d].at = "enter"
      BY <2>2, <3>1
    <3> QED
      BY <2>2, <3>1, <3>2
  <2>3. CASE ~ (i = 1 /\ d # 1) /\ ~ (j = 1 /\ d # 1)
    <3>1. /\ i + d \in DOMAIN stack /\ stack'[i] = stack[i + d]
          /\ j + d \in DOMAIN stack /\ stack'[j] = stack[j + d]
      BY <1>3, <2>3 DEF Stays
    <3>2. i + d # j + d
      BY <1>2
    <3> QED
      BY <3>1, <3>2 DEF OneFrame
  <2> QED
    BY <2>1, <2>2, <2>3
<1> QED
  BY <1>5, <1>6

\* An abort that runs goes on running, unless it is the one of the step.
LEMMA AbortsStep ==
  ASSUME TypesInv, AbortRuns, NEW r \in Requests, Others(r), NEW d \in {-1, 0, 1},
         Shifted(stack, stack', d), d # -1 => stack[1].r = r,
         \/ d = -1 /\ req'[r].step = req[r].step /\ req'[r].requestDone = req[r].requestDone
         \/ req'[r].step # "aborted" \/ req'[r].requestDone
         \/ 1 \in DOMAIN stack' /\ stack'[1] = Frame(r, "abort", "complete")
  PROVE  AbortRuns'
<1> DEFINE Runs(f, q) == f = Frame(q, "abort", "complete")
<1>1. ASSUME NEW q \in Requests, NEW i \in DOMAIN stack, Runs(stack[i], q), q # r \/ d = -1
      PROVE  \E j \in DOMAIN stack' : Runs(stack'[j], q)
  <2>1. stack[i].r = q
    BY <1>1 DEF Frame
  <2>2. i - d \in DOMAIN stack' /\ stack'[i - d] = stack[i]
    BY <1>1, <2>1 DEF Shifted
  <2> QED
    BY <1>1, <2>2
<1>2. ASSUME NEW q \in Requests, req'[q].step = "aborted", ~ req'[q].requestDone
      PROVE  \E j \in DOMAIN stack' : Runs(stack'[j], q)
  <2>1. CASE q # r \/ (d = -1 /\ req'[r].step = req[r].step /\ req'[r].requestDone = req[r].requestDone)
    <3>1. req[q].step = "aborted" /\ ~ req[q].requestDone
      BY <1>2, <2>1 DEF Others
    <3>2. \E i \in DOMAIN stack : Runs(stack[i], q)
      BY <3>1 DEF AbortRuns
    <3> QED
      BY <1>1, <2>1, <3>2
  <2>2. CASE q = r /\ 1 \in DOMAIN stack' /\ Runs(stack'[1], r)
    BY <2>2
  <2> QED
    BY <1>2, <2>1, <2>2
<1> QED
  BY <1>2 DEF AbortRuns

LEMMA RequestsStep ==
  ASSUME RequestsInv, NEW r \in Requests, Others(r),
         \A q \in Requests : q # r => window'[q] = window[q],
         ReqInv(req'[r], calls'[r], Named(r)')
  PROVE  RequestsInv'
<1> SUFFICES ASSUME NEW q \in Requests PROVE ReqInv(req'[q], calls'[q], Named(q)')
  BY DEF RequestsInv
<1>1. CASE q = r
  BY <1>1
<1>2. CASE q # r
  <2>1. req'[q] = req[q] /\ calls'[q] = calls[q] /\ Named(q)' = Named(q)
    BY <1>2 DEF Others, Named
  <2> QED
    BY <2>1 DEF RequestsInv
<1> QED
  BY <1>1, <1>2

--------------------------------------------------------------------------------
(* The count of the requests.                                                         *)

IsEnded(r) == req[r].step = "refused" \/ calls[r].completed > 0

LEMMA EndedOf == Ended \subseteq Begun /\ Ended = {r \in Begun : IsEnded(r)}
BY DEF Ended, IsEnded

\* A request begins.
LEMMA CountBegins ==
  ASSUME CountInv, NEW r \in Requests, Others(r), req[r].step = "new", req'[r].step # "new",
         ~ IsEnded(r)', TypesInv, CountUp
  PROVE  CountInv' /\ Begun' = Begun \cup {r} /\ Ended' = Ended /\ r \notin Begun
<1>1. Begun' = Begun \cup {r} /\ r \notin Begun
  BY DEF Begun, Others
<1>2. Ended' = Ended
  <2>1. \A q \in Begun : IsEnded(q)' <=> IsEnded(q)
    BY DEF IsEnded, Others, Begun
  <2> QED
    BY <1>1, <2>1, EndedOf DEF Ended, IsEnded
<1>3. Begun' \ Ended' = (Begun \ Ended) \cup {r} /\ r \notin Begun \ Ended
  BY <1>1, <1>2, EndedOf
<1>4. IsFiniteSet(Begun) /\ IsFiniteSet(Begun \ Ended)
  BY FS_Subset DEF CountInv
<1>5. Cardinality((Begun \ Ended) \cup {r}) = Cardinality(Begun \ Ended) + 1
      /\ Cardinality(Begun \ Ended) \in Nat
  BY <1>3, <1>4, FS_AddElement, FS_CardinalityType
<1>6. IsFiniteSet(Begun')
  BY <1>1, <1>4, FS_AddElement
<1>7. active' = Cardinality(Begun' \ Ended') /\ active' # 0
  BY <1>3, <1>5 DEF CountInv, CountUp
<1>8. indicator' <=> (indicator \/ active = 0)
  BY Zenon DEF CountUp
<1>9. indicator' <=> active' # 0
  BY <1>7, <1>8 DEF CountInv
<1> QED
  BY <1>1, <1>2, <1>6, <1>7, <1>9 DEF CountInv

\* One that is counted is not counted any more.
LEMMA CountEnds ==
  ASSUME CountInv, NEW r \in Requests, Others(r), req[r].step # "new", req'[r].step # "new",
         ~ IsEnded(r), IsEnded(r)', CountDown
  PROVE  CountInv' /\ Begun' = Begun /\ Ended' = Ended \cup {r} /\ r \in Begun \ Ended
<1>1. Begun' = Begun /\ r \in Begun \ Ended
  BY EndedOf DEF Begun, Others
<1>2. Ended' = Ended \cup {r}
  <2>1. \A q \in Begun : q # r => (IsEnded(q)' <=> IsEnded(q))
    BY DEF IsEnded, Others, Begun
  <2>2. Ended' = {q \in Begun : IsEnded(q)'}
    BY <1>1 DEF Ended, IsEnded
  <2> QED
    BY <1>1, <2>1, <2>2, EndedOf
<1>3. Begun' \ Ended' = (Begun \ Ended) \ {r}
  BY <1>1, <1>2
<1>4. IsFiniteSet(Begun) /\ IsFiniteSet(Begun \ Ended)
  BY FS_Subset DEF CountInv
<1>5. Cardinality((Begun \ Ended) \ {r}) = Cardinality(Begun \ Ended) - 1
      /\ Cardinality(Begun \ Ended) \in Nat
  BY <1>1, <1>4, FS_RemoveElement, FS_CardinalityType
<1>6. active' = Cardinality(Begun' \ Ended') /\ active' = active - 1 /\ active \in Nat
  BY <1>3, <1>5 DEF CountInv, CountDown
<1>7. active # 0
  BY <1>1, <1>4, FS_EmptySet DEF CountInv
<1>8. indicator' <=> (indicator /\ active # 1)
  BY Zenon DEF CountDown
<1>9. indicator' <=> active' # 0
  BY <1>6, <1>7, <1>8 DEF CountInv
<1> QED
  BY <1>1, <1>2, <1>4, <1>6, <1>9 DEF CountInv

\* It stays as it is.
LEMMA CountStays ==
  ASSUME CountInv, NEW r \in Requests, Others(r), req[r].step # "new", req'[r].step # "new",
         IsEnded(r)' <=> IsEnded(r), active' = active, indicator' = indicator
  PROVE  CountInv' /\ Begun' = Begun /\ Ended' = Ended
<1>1. Begun' = Begun
  BY DEF Begun, Others
<1>2. Ended' = Ended
  <2>1. \A q \in Begun : IsEnded(q)' <=> IsEnded(q)
    BY DEF IsEnded, Others, Begun
  <2> QED
    BY <1>1, <2>1 DEF Ended, IsEnded
<1> QED
  BY <1>1, <1>2 DEF CountInv

--------------------------------------------------------------------------------
(* What AjaxPromise sees.                                                             *)

RefusedOnes == {r \in Requests : req[r].step = "refused"}
AnswerCounts == [r \in Requests |-> calls[r].success + calls[r].error]
CompleteCounts == [r \in Requests |-> calls[r].complete]

LEMMA SeenOfStep ==
  ASSUME NEW r \in Requests, Others(r)
  PROVE  /\ AnswerCounts' = [AnswerCounts EXCEPT ![r] = AnswersOf(calls'[r])]
         /\ CompleteCounts' = [CompleteCounts EXCEPT ![r] = calls'[r].complete]
         /\ (req'[r].step = "refused" <=> req[r].step = "refused") => RefusedOnes' = RefusedOnes
         /\ req'[r].step = "refused" => RefusedOnes' = RefusedOnes \cup {r}
<1>1. \A q \in Requests : q # r => req'[q] = req[q] /\ calls'[q] = calls[q]
  BY DEF Others
<1>2. AnswerCounts' = [AnswerCounts EXCEPT ![r] = AnswersOf(calls'[r])]
  BY <1>1 DEF AnswerCounts, AnswersOf
<1>3. CompleteCounts' = [CompleteCounts EXCEPT ![r] = calls'[r].complete]
  BY <1>1 DEF CompleteCounts
<1>4. (req'[r].step = "refused" <=> req[r].step = "refused") => RefusedOnes' = RefusedOnes
  BY <1>1 DEF RefusedOnes
<1>5. req'[r].step = "refused" => RefusedOnes' = RefusedOnes \cup {r}
  BY <1>1 DEF RefusedOnes
<1> QED
  BY <1>2, <1>3, <1>4, <1>5

\* A step that only this module sees.
LEMMA SeenUnchanged ==
  ASSUME NEW r \in Requests, Others(r), Begun' = Begun, Ended' = Ended, active' = active,
         AnswersOf(calls'[r]) = AnswersOf(calls[r]), calls'[r].complete = calls[r].complete,
         req'[r].step = "refused" <=> req[r].step = "refused"
  PROVE  UNCHANGED Promise!pvars
<1>1. AnswerCounts' = AnswerCounts
  BY SeenOfStep DEF AnswerCounts, AnswersOf
<1>2. CompleteCounts' = CompleteCounts
  BY SeenOfStep DEF CompleteCounts
<1>3. RefusedOnes' = RefusedOnes
  BY SeenOfStep
<1> QED
  BY <1>1, <1>2, <1>3 DEF Promise!pvars, AnswerCounts, CompleteCounts, RefusedOnes

LEMMA SeenAnswer ==
  ASSUME NEW r \in Requests, Others(r), Begun' = Begun, Ended' = Ended, active' = active,
         r \in Begun \ Ended, AnswersOf(calls[r]) = 0, calls[r].complete = 0,
         AnswersOf(calls'[r]) = 1, calls'[r].complete = 0,
         req'[r].step # "refused", req[r].step # "refused"
  PROVE  Promise!Next
<1>1. /\ AnswerCounts' = [AnswerCounts EXCEPT ![r] = 1]
      /\ AnswerCounts[r] = 0 /\ CompleteCounts[r] = 0
  BY SeenOfStep DEF AnswerCounts, CompleteCounts, AnswersOf
<1>2. CompleteCounts' = CompleteCounts
  BY SeenOfStep DEF CompleteCounts
<1>3. RefusedOnes' = RefusedOnes
  BY SeenOfStep
<1>4. Promise!Answer(r)
  BY <1>1, <1>2, <1>3 DEF Promise!Answer, AnswerCounts, CompleteCounts, RefusedOnes
<1> QED
  BY <1>4 DEF Promise!Next

LEMMA SeenComplete ==
  ASSUME NEW r \in Requests, Others(r), Begun' = Begun, Ended' = Ended, active' = active,
         r \in Begun \ Ended, AnswersOf(calls'[r]) = AnswersOf(calls[r]), calls[r].complete = 0,
         calls'[r].complete = 1, req'[r].step # "refused", req[r].step # "refused"
  PROVE  Promise!Next
<1>1. AnswerCounts' = AnswerCounts
  BY SeenOfStep DEF AnswerCounts, AnswersOf
<1>2. CompleteCounts' = [CompleteCounts EXCEPT ![r] = 1] /\ CompleteCounts[r] = 0
  BY SeenOfStep DEF CompleteCounts
<1>3. RefusedOnes' = RefusedOnes
  BY SeenOfStep
<1>4. Promise!Complete(r)
  BY <1>1, <1>2, <1>3 DEF Promise!Complete, AnswerCounts, CompleteCounts, RefusedOnes
<1> QED
  BY <1>4 DEF Promise!Next

LEMMA SeenEnd ==
  ASSUME NEW r \in Requests, Others(r), Begun' = Begun, Ended' = Ended \cup {r}, active' = active - 1,
         r \in Begun \ Ended, AnswersOf(calls'[r]) = AnswersOf(calls[r]), calls[r].complete = 1,
         calls'[r].complete = 1, req'[r].step # "refused", req[r].step # "refused"
  PROVE  Promise!Next
<1>1. AnswerCounts' = AnswerCounts
  BY SeenOfStep DEF AnswerCounts, AnswersOf
<1>2. CompleteCounts' = CompleteCounts /\ CompleteCounts[r] = 1
  BY SeenOfStep DEF CompleteCounts
<1>3. RefusedOnes' = RefusedOnes
  BY SeenOfStep
<1>4. Promise!EndOf(r)
  BY <1>1, <1>2, <1>3 DEF Promise!EndOf, AnswerCounts, CompleteCounts, RefusedOnes
<1> QED
  BY <1>4 DEF Promise!Next

LEMMA SeenRefuse ==
  ASSUME NEW r \in Requests, Others(r), Begun' = Begun, Ended' = Ended \cup {r}, active' = active - 1,
         r \in Begun \ Ended, AnswersOf(calls[r]) = 0, calls[r].complete = 0, calls'[r] = calls[r],
         req'[r].step = "refused"
  PROVE  Promise!Next
<1>1. AnswerCounts' = AnswerCounts /\ AnswerCounts[r] = 0
  BY SeenOfStep DEF AnswerCounts, AnswersOf
<1>2. CompleteCounts' = CompleteCounts /\ CompleteCounts[r] = 0
  BY SeenOfStep DEF CompleteCounts
<1>3. RefusedOnes' = RefusedOnes \cup {r}
  BY SeenOfStep
<1>4. Promise!Refuse(r)
  BY <1>1, <1>2, <1>3 DEF Promise!Refuse, AnswerCounts, CompleteCounts, RefusedOnes
<1> QED
  BY <1>4 DEF Promise!Next

LEMMA SeenBegin ==
  ASSUME NEW r \in Requests, Others(r), Begun' = Begun \cup {r}, Ended' = Ended, active' = active + 1,
         r \notin Begun, AnswersOf(calls'[r]) = AnswersOf(calls[r]),
         calls'[r].complete = calls[r].complete,
         req'[r].step # "refused", req[r].step # "refused"
  PROVE  Promise!Next
<1>1. AnswerCounts' = AnswerCounts
  BY SeenOfStep DEF AnswerCounts, AnswersOf
<1>2. CompleteCounts' = CompleteCounts
  BY SeenOfStep DEF CompleteCounts
<1>3. RefusedOnes' = RefusedOnes
  BY SeenOfStep
<1>4. Promise!Begin(r)
  BY <1>1, <1>2, <1>3 DEF Promise!Begin, AnswerCounts, CompleteCounts, RefusedOnes
<1> QED
  BY <1>4 DEF Promise!Next

--------------------------------------------------------------------------------
(* Every step keeps the types.                                                        *)

LEMMA CountTypes == ASSUME TypesInv, CountUp \/ CountDown PROVE active' \in Int /\ indicator' \in BOOLEAN
<1>1. active' \in Int
  BY DEF TypesInv, CountUp, CountDown
<1>2. indicator' \in BOOLEAN
  BY Zenon DEF CountUp, CountDown
<1> QED
  BY <1>1, <1>2

LEMMA SendingTypes ==
  ASSUME TypesInv, \/ \E r \in Requests : ajax(r)
                   \/ beforeSend \/ Refuse \/ send \/ sendSync \/ sendThrows
  PROVE  TypesInv'
<1> USE DEF TypesInv
<1>1. ASSUME NEW r \in Requests, ajax(r) PROVE TypesInv'
  <2>1. PICK kind \in Kinds, timed \in BOOLEAN :
          /\ req' = [req EXCEPT ![r] =
                       [@ EXCEPT !.kind = kind, !.xhr = ~ IsRemote(kind),
                                 !.timer = timed /\ kind # "sync" /\ ~ IsRemote(kind),
                                 !.step = IF IsRemote(kind) THEN "sent" ELSE "open"]]
          /\ window' = IF Jsonp(kind) /\ window[NameOf(r)] = NoRequest
                       THEN [window EXCEPT ![NameOf(r)] = r]
                       ELSE window
          /\ IF IsRemote(kind)
             THEN UNCHANGED <<stack, calls>>
             ELSE /\ stack' = On(Frame(r, "call", "beforeSend"), stack)
                  /\ Called(r, "beforeSend")
    BY <1>1 DEF ajax
  <2>2. [req[r] EXCEPT !.kind = kind, !.xhr = ~ IsRemote(kind),
                       !.timer = timed /\ kind # "sync" /\ ~ IsRemote(kind),
                       !.step = IF IsRemote(kind) THEN "sent" ELSE "open"] \in Reqs
    BY ZenonT(60) DEF Reqs, Phase
  <2>3. req' \in [Requests -> Reqs]
    BY <2>1, <2>2
  <2>4. window' \in [Requests -> Requests \cup {NoRequest}]
    BY <2>1, NameTypes
  <2>5. Frame(r, "call", "beforeSend") \in Frames
    BY DEF Frame, Frames, Whys, Points, Callbacks
  <2>6. stack' \in Seq(Frames) /\ calls' \in [Requests -> Counts]
    <3>1. CASE IsRemote(kind)
      BY <2>1, <3>1
    <3>2. CASE ~ IsRemote(kind)
      <4>1. stack' = On(Frame(r, "call", "beforeSend"), stack) /\ Called(r, "beforeSend")
        BY <2>1, <3>2
      <4>2. stack' \in Seq(Frames)
        BY <2>5, <4>1, OnFacts
      <4> QED
        BY <4>1, <4>2, CalledTypes
    <3> QED
      BY <3>1, <3>2
  <2> QED
    BY <1>1, <2>3, <2>4, <2>6, CountTypes DEF ajax
<1>2. CASE beforeSend
  <2>1. stack # <<>> /\ Goto("send") /\ "send" \in Points
    BY <1>2 DEF beforeSend, At, Points
  <2>2. stack' \in Seq(Frames)
    BY <2>1, GotoTypes
  <2> QED
    BY <1>2, <2>2 DEF beforeSend
<1>3. CASE Refuse
  <2>1. stack # <<>> /\ Top.r \in Requests /\ stack' \in Seq(Frames)
    BY <1>3, TopTypes DEF Refuse, At
  <2>2. [req[Top.r] EXCEPT !.step = "refused", !.timer = FALSE] \in Reqs
    <3>1. req[Top.r] \in Reqs
      BY <2>1
    <3> QED
      BY <3>1 DEF Reqs, Phase
  <2>3. req' \in [Requests -> Reqs]
    BY <1>3, <2>1, <2>2 DEF Refuse
  <2> QED
    BY <1>3, <2>1, <2>3, CountTypes DEF Refuse
<1>4. CASE send
  <2>1. stack # <<>> /\ Top.r \in Requests /\ stack' \in Seq(Frames)
    BY <1>4, TopTypes DEF send, At
  <2>2. [req[Top.r] EXCEPT !.step = "sent"] \in Reqs
    <3>1. req[Top.r] \in Reqs
      BY <2>1
    <3> QED
      BY <3>1 DEF Reqs, Phase
  <2>3. req' \in [Requests -> Reqs]
    BY <1>4, <2>1, <2>2 DEF send
  <2> QED
    BY <1>4, <2>1, <2>3 DEF send
<1>5. CASE sendSync
  <2>1. stack # <<>> /\ Top.r \in Requests /\ Tail(stack) \in Seq(Frames)
    BY <1>5, TopTypes DEF sendSync, At
  <2>2. PICK answer \in Answers : Respond(Top.r, answer, Tail(stack))
    BY <1>5 DEF sendSync
  <2>3. req' \in [Requests -> Reqs] /\ calls' \in [Requests -> Counts] /\ stack' \in Seq(Frames)
    BY <2>1, <2>2, RespondTypes
  <2> QED
    BY <1>5, <2>3 DEF sendSync
<1>6. CASE sendThrows
  <2>1. stack # <<>> /\ Top.r \in Requests /\ Tail(stack) \in Seq(Frames)
    BY <1>6, TopTypes DEF sendThrows, At
  <2>2. req' \in [Requests -> Reqs]
    BY <1>6, <2>1 DEF sendThrows, Reqs, Phase
  <2>3. Frame(Top.r, "throw", "error") \in Frames
    BY <2>1 DEF Frame, Frames, Whys, Points, Callbacks
  <2>4. stack' \in Seq(Frames)
    BY <1>6, <2>1, <2>3, OnFacts DEF sendThrows
  <2>5. calls' \in [Requests -> Counts]
    BY <1>6, <2>1, CalledTypes DEF sendThrows
  <2> QED
    BY <1>6, <2>2, <2>4, <2>5 DEF sendThrows, Fault
<1> QED
  BY <1>1, <1>2, <1>3, <1>4, <1>5, <1>6

\* The function of a JSONP request is called, or there is none.
LEMMA CallsJsonpTypes ==
  ASSUME TypesInv, NEW r \in Requests, NEW rest \in Seq(Frames), CallsJsonp(r, rest)
  PROVE  stack' \in Seq(Frames) /\ calls' \in [Requests -> Counts]
<1> DEFINE q == window[NameOf(r)]
<1>1. CASE q = NoRequest
  BY <1>1 DEF CallsJsonp, TypesInv
<1>2. CASE q # NoRequest
  <2>1. q \in Requests
    BY <1>2, NameTypes DEF TypesInv
  <2>2. Frame(q, "jsonp", "success") \in Frames
    BY <2>1 DEF Frame, Frames, Whys, Points, Callbacks
  <2>3. stack' = On(Frame(q, "jsonp", "success"), rest) /\ Called(q, "success")
    BY <1>2 DEF CallsJsonp
  <2>4. stack' \in Seq(Frames)
    BY <2>2, <2>3, OnFacts
  <2>5. calls' \in [Requests -> Counts]
    BY <2>1, <2>3, CalledTypes
  <2> QED
    BY <2>4, <2>5
<1> QED
  BY <1>1, <1>2

LEMMA AnsweringTypes ==
  ASSUME TypesInv, \/ \E r \in Requests : abort(r) \/ Load(r) \/ LoadScript(r) \/ Timeout(r)
                   \/ Eval \/ Evaled \/ AbortLoads \/ AbortEnters
  PROVE  TypesInv'
<1> USE DEF TypesInv
<1>1. ASSUME NEW r \in Requests, abort(r) PROVE TypesInv'
  <2>1. Frame(r, "abort", "enter") \in Frames
    BY DEF Frame, Frames, Whys, Points
  <2>2. stack' \in Seq(Frames)
    BY <1>1, <2>1, OnFacts DEF abort
  <2> QED
    BY <1>1, <2>2 DEF abort
<1>2. ASSUME NEW r \in Requests, Load(r) PROVE TypesInv'
  <2>1. PICK answer \in Answers : Respond(r, answer, <<>>)
    BY <1>2 DEF Load
  <2>2. <<>> \in Seq(Frames)
    OBVIOUS
  <2>3. req' \in [Requests -> Reqs] /\ calls' \in [Requests -> Counts] /\ stack' \in Seq(Frames)
    BY <2>1, <2>2, RespondTypes
  <2> QED
    BY <1>2, <2>3 DEF Load
<1>3. ASSUME NEW r \in Requests, LoadScript(r) PROVE TypesInv'
  <2>1. \A x \in Requests : req[x] \in Reqs
    OBVIOUS
  <2>2. <<>> \in Seq(Frames)
    OBVIOUS
  <2>3. CASE Jsonp(req[r].kind)
    <3> DEFINE q == window[NameOf(r)]
    <3>1. CallsJsonp(r, <<>>)
      BY <1>3, <2>3 DEF LoadScript
    <3>2. stack' \in Seq(Frames) /\ calls' \in [Requests -> Counts]
      BY <2>2, <3>1, CallsJsonpTypes
    <3>3. req' = [x \in Requests |->
                    [req[x] EXCEPT !.step = IF x = r THEN "answered" ELSE @,
                                   !.data = IF x = q THEN r ELSE @]]
      BY <1>3, <2>3 DEF LoadScript
    <3>4. \A x \in Requests : [req[x] EXCEPT !.step = IF x = r THEN "answered" ELSE @,
                                             !.data = IF x = q THEN r ELSE @] \in Reqs
      BY <2>1, ZenonT(60) DEF Reqs, Phase
    <3>5. req' \in [Requests -> Reqs]
      BY <3>3, <3>4
    <3> QED
      BY <1>3, <3>2, <3>5 DEF LoadScript
  <2>4. CASE ~ Jsonp(req[r].kind)
    <3>1. Frame(r, "script", "success") \in Frames
      BY DEF Frame, Frames, Whys, Points, Callbacks
    <3>2. stack' \in Seq(Frames)
      <4>1. stack' = <<Frame(r, "script", "success")>>
        BY <1>3, <2>4 DEF LoadScript
      <4> QED
        BY <3>1, <4>1, OnEmpty
    <3>3. calls' \in [Requests -> Counts]
      BY <1>3, <2>4, CalledTypes DEF LoadScript
    <3>4. [req[r] EXCEPT !.step = "answered", !.data = r] \in Reqs
      BY <2>1 DEF Reqs, Phase
    <3>5. req' \in [Requests -> Reqs]
      BY <1>3, <2>4, <3>4 DEF LoadScript
    <3> QED
      BY <1>3, <3>2, <3>3, <3>5 DEF LoadScript
  <2> QED
    BY <2>3, <2>4
<1>4. ASSUME NEW r \in Requests, Timeout(r) PROVE TypesInv'
  <2>1. req[r] \in Reqs
    OBVIOUS
  <2>2. CASE req[r].xhr /\ ~ req[r].requestDone
    <3>1. Frame(r, "timeout", "error") \in Frames
      BY DEF Frame, Frames, Whys, Points, Callbacks
    <3>2. stack' \in Seq(Frames)
      <4>1. stack' = <<Frame(r, "timeout", "error")>>
        BY <1>4, <2>2 DEF Timeout
      <4> QED
        BY <3>1, <4>1, OnEmpty
    <3>3. calls' \in [Requests -> Counts]
      BY <1>4, <2>2, CalledTypes DEF Timeout
    <3>4. [req[r] EXCEPT !.timer = FALSE, !.requestDone = TRUE, !.step = "answered"] \in Reqs
      BY <2>1 DEF Reqs, Phase
    <3>5. req' \in [Requests -> Reqs]
      BY <1>4, <2>2, <3>4 DEF Timeout
    <3> QED
      BY <1>4, <3>2, <3>3, <3>5 DEF Timeout
  <2>3. CASE ~ (req[r].xhr /\ ~ req[r].requestDone)
    <3>1. [req[r] EXCEPT !.timer = FALSE] \in Reqs
      BY <2>1 DEF Reqs
    <3>2. req' \in [Requests -> Reqs]
      BY <1>4, <2>3, <3>1 DEF Timeout
    <3> QED
      BY <1>4, <2>3, <3>2 DEF Timeout
  <2> QED
    BY <2>2, <2>3
<1>5. CASE Eval
  <2> DEFINE q == window[NameOf(Top.r)]
             rest == On([Top EXCEPT !.at = "evaled"], Tail(stack))
  <2>1. stack # <<>> /\ Top.r \in Requests /\ Top \in Frames /\ Tail(stack) \in Seq(Frames)
    BY <1>5, TopTypes DEF Eval, At
  <2>2. [Top EXCEPT !.at = "evaled"] \in Frames
    BY <2>1 DEF Frames, Points
  <2>3. rest \in Seq(Frames)
    BY <2>1, <2>2, OnFacts
  <2>4. CallsJsonp(Top.r, rest)
    BY <1>5 DEF Eval
  <2>5. stack' \in Seq(Frames) /\ calls' \in [Requests -> Counts]
    <3> HIDE DEF rest
    <3> QED
      BY <2>1, <2>3, <2>4, CallsJsonpTypes
  <2>6. req' \in [Requests -> Reqs]
    <3>1. req' = IF q = NoRequest THEN req ELSE [req EXCEPT ![q].data = Top.r]
      BY <1>5 DEF Eval
    <3>2. q \in Requests \cup {NoRequest}
      BY <2>1, NameTypes
    <3> HIDE DEF q
    <3>3. q \in Requests => [req[q] EXCEPT !.data = Top.r] \in Reqs
      BY <2>1 DEF Reqs
    <3> QED
      BY <3>1, <3>2, <3>3
  <2> QED
    BY <1>5, <2>5, <2>6 DEF Eval
<1>6. CASE Evaled
  <2>1. stack # <<>> /\ Goto("complete") /\ "complete" \in Points
    BY <1>6 DEF Evaled, At, Points, Callbacks
  <2>2. stack' \in Seq(Frames)
    BY <2>1, GotoTypes
  <2>3. calls' \in [Requests -> Counts]
    BY <1>6, <2>1, TopTypes, CalledTypes DEF Evaled
  <2> QED
    BY <1>6, <2>2, <2>3 DEF Evaled
<1>7. CASE AbortLoads
  <2>1. stack # <<>> /\ Top.r \in Requests
    BY <1>7, TopTypes DEF AbortLoads, At
  <2>2. Respond(Top.r, [status |-> 0, parses |-> TRUE], stack)
    BY <1>7 DEF AbortLoads
  <2>3. req' \in [Requests -> Reqs] /\ calls' \in [Requests -> Counts] /\ stack' \in Seq(Frames)
    BY <2>1, <2>2, RespondTypes
  <2> QED
    BY <1>7, <2>3 DEF AbortLoads
<1>8. CASE AbortEnters
  <2>1. stack # <<>> /\ Top.r \in Requests /\ Tail(stack) \in Seq(Frames)
    BY <1>8, TopTypes DEF AbortEnters, At
  <2>2. CASE req[Top.r].requestDone
    BY <1>8, <2>1, <2>2 DEF AbortEnters
  <2>3. CASE ~ req[Top.r].requestDone
    <3>1. Goto("complete") /\ "complete" \in Points /\ Called(Top.r, "complete") /\ req' = Aborted(Top.r)
      BY <1>8, <2>3 DEF AbortEnters, Points, Callbacks
    <3>2. stack' \in Seq(Frames)
      BY <2>1, <3>1, GotoTypes
    <3>3. calls' \in [Requests -> Counts]
      BY <2>1, <3>1, CalledTypes
    <3>4. req' \in [Requests -> Reqs]
      <4>1. req[Top.r] \in Reqs
        BY <2>1
      <4>2. [req[Top.r] EXCEPT !.step = IF @ = "sent" THEN "aborted" ELSE @] \in Reqs
        BY <4>1 DEF Reqs, Phase
      <4> QED
        BY <2>1, <3>1, <4>2 DEF Aborted
    <3> QED
      BY <1>8, <3>2, <3>3, <3>4 DEF AbortEnters
  <2> QED
    BY <2>2, <2>3
<1> QED
  BY <1>1, <1>2, <1>3, <1>4, <1>5, <1>6, <1>7, <1>8

LEMMA ReturningTypes ==
  ASSUME TypesInv, AnswerReturns \/ CompleteReturns \/ SyncThrowReturns \/ CallbackThrows
  PROVE  TypesInv'
<1> USE DEF TypesInv
<1>1. CASE AnswerReturns
  <2>1. stack # <<>> /\ Goto("complete") /\ "complete" \in Points
    BY <1>1 DEF AnswerReturns, At, Points, Callbacks
  <2>2. stack' \in Seq(Frames)
    BY <2>1, GotoTypes
  <2>3. calls' \in [Requests -> Counts]
    BY <1>1, <2>1, TopTypes, CalledTypes DEF AnswerReturns
  <2> QED
    BY <1>1, <2>2, <2>3 DEF AnswerReturns
<1>2. CASE CompleteReturns
  <2>1. stack # <<>> /\ Top.r \in Requests /\ stack' \in Seq(Frames)
    BY <1>2, TopTypes DEF CompleteReturns, At
  <2>2. calls' \in [Requests -> Counts]
    BY <1>2, <2>1, CalledTypes DEF CompleteReturns
  <2>3. \/ req' = [req EXCEPT ![Top.r].xhr = ~ Async(Top.r)]
        \/ req' = [req EXCEPT ![Top.r].requestDone = TRUE]
        \/ req' = req
    BY <1>2 DEF CompleteReturns
  <2>4. Async(Top.r) \in BOOLEAN
    BY DEF Async
  <2>5. req' \in [Requests -> Reqs]
    <3>1. req[Top.r] \in Reqs
      BY <2>1
    <3>2. /\ [req[Top.r] EXCEPT !.xhr = ~ Async(Top.r)] \in Reqs
          /\ [req[Top.r] EXCEPT !.requestDone = TRUE] \in Reqs
      BY <2>4, <3>1 DEF Reqs
    <3> QED
      BY <2>1, <2>3, <3>2
  <2>6. window' = window \/ window' = [window EXCEPT ![NameOf(Top.r)] = NoRequest]
    BY <1>2 DEF CompleteReturns
  <2>7. window' \in [Requests -> Requests \cup {NoRequest}]
    BY <2>6
  <2> QED
    BY <1>2, <2>1, <2>2, <2>5, <2>7, CountTypes DEF CompleteReturns
<1>3. CASE SyncThrowReturns
  <2>1. stack # <<>> /\ Top.r \in Requests /\ Tail(stack) \in Seq(Frames)
    BY <1>3, TopTypes DEF SyncThrowReturns, At
  <2> DEFINE counted == [calls EXCEPT ![Top.r].completed = @ + 1]
  <2>2. counted \in [Requests -> Counts]
    <3>1. calls[Top.r] \in Counts
      BY <2>1
    <3>2. [calls[Top.r] EXCEPT !.completed = @ + 1] \in Counts
      BY <3>1, RaisedTypes
    <3> QED
      BY <2>1, <3>2
  <2>3. Frame(Top.r, "load", "success") \in Frames
    BY <2>1 DEF Frame, Frames, Whys, Points, Callbacks
  <2>4. \/ stack' = Tail(stack) /\ calls' = counted /\ req' = req
        \/ /\ stack' = On(Frame(Top.r, "load", "success"), Tail(stack))
           /\ calls' = [counted EXCEPT ![Top.r].success = @ + 1]
           /\ req' = [req EXCEPT ![Top.r].requestDone = TRUE]
    BY <1>3 DEF SyncThrowReturns
  <2> HIDE DEF counted
  <2>5. On(Frame(Top.r, "load", "success"), Tail(stack)) \in Seq(Frames)
    BY <2>1, <2>3, OnFacts
  <2>6. [counted EXCEPT ![Top.r].success = @ + 1] \in [Requests -> Counts]
    <3>1. counted[Top.r] \in Counts
      BY <2>1, <2>2
    <3>2. [counted[Top.r] EXCEPT !.success = @ + 1] \in Counts
      BY <3>1, RaisedTypes
    <3> QED
      BY <2>1, <2>2, <3>2
  <2>7. [req EXCEPT ![Top.r].requestDone = TRUE] \in [Requests -> Reqs]
    <3>1. req[Top.r] \in Reqs
      BY <2>1
    <3>2. [req[Top.r] EXCEPT !.requestDone = TRUE] \in Reqs
      BY <3>1 DEF Reqs
    <3> QED
      BY <2>1, <3>2
  <2>8. req' \in [Requests -> Reqs] /\ calls' \in [Requests -> Counts] /\ stack' \in Seq(Frames)
    BY <2>1, <2>2, <2>4, <2>5, <2>6, <2>7
  <2> QED
    BY <1>3, <2>8, CountTypes DEF SyncThrowReturns
<1>4. CASE CallbackThrows
  BY <1>4 DEF CallbackThrows, Fault
<1> QED
  BY <1>1, <1>2, <1>3, <1>4

LEMMA TypesNext == TypesInv /\ [AjaxNext]_avars => TypesInv'
<1>1. TypesInv /\ UNCHANGED avars => TypesInv'
  BY DEF avars, TypesInv
<1> QED
  BY <1>1, SendingTypes, AnsweringTypes, ReturningTypes DEF AjaxNext, Running

--------------------------------------------------------------------------------
(* What a step does to a request.                                                     *)

\* A request that is in flight runs in no frame but that of an abort that begins.
LEMMA SentIsIdle ==
  ASSUME AjaxInv, NEW i \in DOMAIN stack, req[stack[i].r].step \in {"new", "sent"}
  PROVE  stack[i].at = "enter"
<1>1. FrameInv(stack[i], req[stack[i].r], calls[stack[i].r], i = 1)
  BY DEF AjaxInv, FramesInv
<1>2. stack[i] \in Frames
  BY PlaceTypes DEF AjaxInv, TypesInv
<1> QED
  BY <1>1, <1>2 DEF FrameInv, Frames, Points, Callbacks

\* Neither success nor error was called before, and one of them is.
LEMMA AnsweringStep ==
  ASSUME AjaxInv, TypesInv', NEW r \in Requests, Others(r),
         active' = active, indicator' = indicator, window' = window,
         NEW d \in {-1, 0}, Shifted(stack, stack', d), 1 \in DOMAIN stack',
         NEW why \in {"load", "timeout", "jsonp", "script"}, NEW at \in {"success", "error"},
         stack'[1] = Frame(r, why, at),
         \/ d = 0 /\ 1 \in DOMAIN stack /\ stack[1].r = r /\ stack[1].at = "send"
         \/ /\ d = -1 /\ req[r].step = "sent"
            /\ stack = <<>> \/ stack[1].r = r,
         why \in {"load", "timeout"} => ~ IsRemote(req[r].kind),
         req'[r].step = "answered", req'[r].kind = req[r].kind,
         req'[r].xhr => req[r].xhr, req'[r].timer => req[r].timer,
         IsRemote(req[r].kind) \/ req'[r].requestDone,
         calls'[r] = [calls[r] EXCEPT ![at] = @ + 1]
  PROVE  AjaxInv' /\ Promise!Next
<1>1. req[r].step \in {"open", "sent"}
  BY DEF AjaxInv, FramesInv, FrameInv
<1>2. ReqInv(req[r], calls[r], Named(r)) /\ Untouched(calls[r]) /\ calls[r] \in Counts
  BY <1>1 DEF AjaxInv, RequestsInv, ReqInv, TypesInv
<1>3. /\ AnswersOf(calls'[r]) = 1 /\ calls'[r].complete = 0 /\ calls'[r].completed = 0
      /\ AnswersOf(calls[r]) = 0
  BY <1>2 DEF Untouched, AnswersOf, Counts
<1>4. ASSUME NEW i, Stays(i, d), stack[i].r = r PROVE stack[i].at = "enter"
  <2>1. CASE d = 0
    BY <1>4, <2>1 DEF Stays, AjaxInv, OneFrame
  <2>2. CASE d = -1
    BY <1>4, <2>2, SentIsIdle DEF Stays
  <2> QED
    BY <2>1, <2>2
<1>5. ASSUME NEW i, Stays(i, d), stack[i].r = r PROVE FrameInv(stack[i], req'[r], calls'[r], FALSE)
  <2>1. stack[i].why = "abort" /\ ~ IsRemote(req[r].kind)
    BY <1>4, <1>5 DEF Stays, AjaxInv, FramesInv, FrameInv
  <2> QED
    BY <1>4, <1>5, <2>1 DEF FrameInv
<1>6. FrameInv(stack'[1], req'[r], calls'[r], TRUE) /\ stack'[1].r = r
  BY <1>3 DEF FrameInv, Frame
<1>7. FramesInv' /\ OneFrame'
  <2>1. d \in {-1, 0, 1} /\ (d = -1 /\ stack # <<>> => stack[1].r = r)
    OBVIOUS
  <2>2. FrameInv(stack'[1], req'[stack'[1].r], calls'[stack'[1].r], TRUE)
    BY <1>6
  <2>3. \A i : Stays(i, d) /\ stack[i].r = stack'[1].r => stack[i].at = "enter"
    BY <1>4, <1>6
  <2>4. TypesInv /\ FramesInv /\ OneFrame
    BY DEF AjaxInv
  <2> QED
    BY <1>5, <2>1, <2>2, <2>3, <2>4, FramesStep
<1>8. AbortRuns'
  BY AbortsStep DEF AjaxInv
<1>9. ReqInv(req'[r], calls'[r], Named(r)')
  BY <1>2, <1>3 DEF ReqInv, Named
<1>10. RequestsInv' /\ WindowInv'
  BY <1>9, RequestsStep DEF AjaxInv, WindowInv
<1>11. ~ IsEnded(r) /\ ~ IsEnded(r)' /\ req[r].step # "new" /\ req'[r].step # "new"
  BY <1>1, <1>2, <1>3 DEF IsEnded, Untouched
<1>12. CountInv' /\ Begun' = Begun /\ Ended' = Ended /\ r \in Begun \ Ended
  BY <1>11, CountStays, EndedOf DEF AjaxInv, Begun
<1>13. Promise!Next
  BY <1>1, <1>2, <1>3, <1>12, SeenAnswer DEF Untouched
<1> QED
  BY <1>7, <1>8, <1>10, <1>12, <1>13 DEF AjaxInv

\* complete is called: success or error have returned, or the request is aborted.
LEMMA CompletingStep ==
  ASSUME AjaxInv, TypesInv', NEW r \in Requests, Others(r),
         active' = active, indicator' = indicator, window' = window,
         Shifted(stack, stack', 0), 1 \in DOMAIN stack', 1 \in DOMAIN stack, stack[1].r = r,
         stack'[1] = Frame(r, stack[1].why, "complete"),
         \/ stack[1].at \in {"success", "error"} /\ req' = req
         \/ /\ stack[1].at = "enter" /\ ~ req[r].requestDone
            /\ req'[r] = [req[r] EXCEPT !.step = "aborted"],
         calls'[r] = [calls[r] EXCEPT !.complete = @ + 1]
  PROVE  AjaxInv' /\ Promise!Next
<1>1. /\ FrameInv(stack[1], req[r], calls[r], TRUE) /\ ReqInv(req[r], calls[r], Named(r))
      /\ calls[r] \in Counts /\ req[r] \in Reqs
  BY DEF AjaxInv, FramesInv, RequestsInv, TypesInv
<1>2. calls[r].complete = 0 /\ calls[r].completed = 0
  <2>1. CASE stack[1].at \in {"success", "error"}
    BY <1>1, <2>1 DEF FrameInv, ReqInv, Counts
  <2>2. CASE stack[1].at = "enter" /\ ~ req[r].requestDone
    BY <1>1, <2>2 DEF FrameInv, ReqInv, Untouched
  <2> QED
    BY <2>1, <2>2
<1>3. /\ calls'[r].complete = 1 /\ calls'[r].completed = 0
      /\ calls'[r].success = calls[r].success /\ calls'[r].error = calls[r].error
      /\ AnswersOf(calls'[r]) = AnswersOf(calls[r])
  BY <1>1, <1>2 DEF Counts, AnswersOf
<1>4. /\ req'[r].kind = req[r].kind /\ req'[r].xhr = req[r].xhr /\ req'[r].timer = req[r].timer
      /\ req'[r].requestDone = req[r].requestDone
      /\ IF stack[1].at = "enter" THEN req[r].step = "sent" /\ req'[r].step = "aborted"
         ELSE req[r].step = "answered" /\ req'[r].step = "answered"
  BY <1>1 DEF Reqs, FrameInv
<1>5. ASSUME NEW i, Stays(i, 0), stack[i].r = r PROVE stack[i].at = "enter" /\ req[r].requestDone
  <2>1. i \in DOMAIN stack /\ i # 1
    BY <1>5 DEF Stays
  <2>2. FrameInv(stack[i], req[r], calls[r], FALSE)
    BY <1>5, <2>1 DEF AjaxInv, FramesInv
  <2>3. stack[i].at = "enter"
    <3>1. CASE stack[1].at # "enter"
      BY <1>5, <2>1, <3>1 DEF AjaxInv, OneFrame
    <3>2. CASE stack[1].at = "enter"
      BY <1>4, <1>5, <2>1, <3>2, SentIsIdle
    <3> QED
      BY <3>1, <3>2
  <2> QED
    BY <2>2, <2>3 DEF FrameInv
<1>6. ASSUME NEW i, Stays(i, 0), stack[i].r = r PROVE FrameInv(stack[i], req'[r], calls'[r], FALSE)
  <2>1. stack[i].why = "abort" /\ ~ IsRemote(req[r].kind)
    BY <1>5, <1>6 DEF Stays, AjaxInv, FramesInv, FrameInv
  <2> QED
    BY <1>4, <1>5, <1>6, <2>1 DEF FrameInv
<1>7. FrameInv(stack'[1], req'[r], calls'[r], TRUE) /\ stack'[1].r = r
  <2>1. stack'[1].r = r /\ stack'[1].why = stack[1].why /\ stack'[1].at = "complete"
    BY DEF Frame
  <2>2. stack[1].at \in {"success", "error", "enter"}
    OBVIOUS
  <2> QED
    BY <1>1, <1>3, <1>4, <2>1, <2>2 DEF FrameInv
<1>8. FramesInv' /\ OneFrame'
  BY <1>5, <1>6, <1>7, FramesStep DEF AjaxInv
<1>9. AbortRuns'
  <2>1. stack[1].at = "enter" => stack'[1] = Frame(r, "abort", "complete")
    BY <1>1 DEF FrameInv
  <2>2. stack[1].at # "enter" => req'[r].step # "aborted"
    BY <1>4
  <2> QED
    BY <2>1, <2>2, AbortsStep DEF AjaxInv
<1>10. ReqInv(req'[r], calls'[r], Named(r)')
  BY <1>1, <1>2, <1>3, <1>4 DEF ReqInv, Named, FrameInv, Untouched, AnswersOf
<1>11. RequestsInv' /\ WindowInv'
  BY <1>10, RequestsStep DEF AjaxInv, WindowInv
<1>12. ~ IsEnded(r) /\ ~ IsEnded(r)' /\ req[r].step # "new" /\ req'[r].step # "new"
  BY <1>2, <1>3, <1>4 DEF IsEnded
<1>13. CountInv' /\ Begun' = Begun /\ Ended' = Ended /\ r \in Begun \ Ended
  BY <1>12, CountStays, EndedOf DEF AjaxInv, Begun
<1>14. Promise!Next
  BY <1>2, <1>3, <1>4, <1>13, SeenComplete
<1> QED
  BY <1>8, <1>9, <1>11, <1>13, <1>14 DEF AjaxInv

--------------------------------------------------------------------------------
(* Each action.                                                                       *)

\* The stack stays as it is.
LEMMA FramesAlone ==
  ASSUME TypesInv, FramesInv, OneFrame, AbortRuns, NEW r \in Requests, Others(r), stack' = stack,
         req'[r].step = "aborted" => req'[r].requestDone,
         \A i \in DOMAIN stack : stack[i].r = r => FrameInv(stack[i], req'[r], calls'[r], i = 1)
  PROVE  FramesInv' /\ OneFrame' /\ AbortRuns'
<1>1. \A i \in DOMAIN stack : stack[i].r \in Requests
  BY PlaceTypes DEF TypesInv
<1>2. FramesInv'
  <2> SUFFICES ASSUME NEW i \in DOMAIN stack
               PROVE  FrameInv(stack[i], req'[stack[i].r], calls'[stack[i].r], i = 1)
    BY DEF FramesInv
  <2>1. CASE stack[i].r = r
    BY <2>1
  <2>2. CASE stack[i].r # r
    <3>1. req'[stack[i].r] = req[stack[i].r] /\ calls'[stack[i].r] = calls[stack[i].r]
      BY <1>1, <2>2 DEF Others
    <3> QED
      BY <3>1 DEF FramesInv
  <2> QED
    BY <2>1, <2>2
<1>3. OneFrame'
  BY DEF OneFrame
<1>4. AbortRuns'
  BY DEF AbortRuns, Others
<1> QED
  BY <1>2, <1>3, <1>4

\* A request that is set up runs in one frame.
LEMMA SettingUp ==
  ASSUME AjaxInv, stack # <<>>, Top.at \in {"beforeSend", "send"}
  PROVE  /\ Top.r \in Requests /\ Top.why = "call" /\ stack[1] = Top /\ 1 \in DOMAIN stack
         /\ req[Top.r].step = "open" /\ ~ req[Top.r].requestDone /\ ~ IsRemote(req[Top.r].kind)
         /\ Untouched(calls[Top.r]) /\ ReqInv(req[Top.r], calls[Top.r], Named(Top.r))
         /\ \A i : i \in DOMAIN stack /\ i # 1 => stack[i].r # Top.r
<1>1. Top = stack[1] /\ Top.r \in Requests /\ 1 \in DOMAIN stack
  BY TopTypes DEF AjaxInv
<1>2. FrameInv(Top, req[Top.r], calls[Top.r], TRUE) /\ ReqInv(req[Top.r], calls[Top.r], Named(Top.r))
  BY <1>1 DEF AjaxInv, FramesInv, RequestsInv
<1>3. /\ Top.why = "call" /\ req[Top.r].step = "open" /\ ~ req[Top.r].requestDone
      /\ ~ IsRemote(req[Top.r].kind) /\ Untouched(calls[Top.r])
  BY <1>2 DEF FrameInv, ReqInv
<1>4. ASSUME NEW i \in DOMAIN stack, i # 1, stack[i].r = Top.r PROVE FALSE
  <2>1. stack[i].at = "enter"
    BY <1>1, <1>4 DEF AjaxInv, OneFrame
  <2>2. FrameInv(stack[i], req[Top.r], calls[Top.r], FALSE)
    BY <1>4 DEF AjaxInv, FramesInv
  <2> QED
    BY <1>3, <2>1, <2>2 DEF FrameInv
<1> QED
  BY <1>1, <1>2, <1>3, <1>4

LEMMA BeginStep ==
  ASSUME AjaxInv, TypesInv', Benign, NEW r \in Requests, ajax(r)
  PROVE  AjaxInv' /\ Promise!Next
<1>1. PICK kind \in Kinds, timed \in BOOLEAN :
        /\ req' = [req EXCEPT ![r] =
                     [@ EXCEPT !.kind = kind, !.xhr = ~ IsRemote(kind),
                               !.timer = timed /\ kind # "sync" /\ ~ IsRemote(kind),
                               !.step = IF IsRemote(kind) THEN "sent" ELSE "open"]]
        /\ window' = IF Jsonp(kind) /\ window[NameOf(r)] = NoRequest
                     THEN [window EXCEPT ![NameOf(r)] = r]
                     ELSE window
        /\ IF IsRemote(kind)
           THEN UNCHANGED <<stack, calls>>
           ELSE /\ stack' = On(Frame(r, "call", "beforeSend"), stack)
                /\ Called(r, "beforeSend")
  BY DEF ajax
<1>2. NameOf(r) = r /\ req[r].step = "new" /\ InPage /\ CountUp
  BY DEF NameOf, Benign, ajax
<1>3. /\ req[r] \in Reqs /\ calls[r] \in Counts /\ req \in [Requests -> Reqs]
      /\ window \in [Requests -> Requests \cup {NoRequest}] /\ TypesInv
  BY DEF AjaxInv, TypesInv
<1>4. /\ ReqInv(req[r], calls[r], Named(r)) /\ Untouched(calls[r]) /\ ~ req[r].requestDone
      /\ window[r] # r /\ window[r] \in {r, NoRequest}
  BY <1>2 DEF AjaxInv, RequestsInv, WindowInv, ReqInv, Named
<1>5. /\ req'[r].kind = kind /\ req'[r].xhr = ~ IsRemote(kind)
      /\ req'[r].timer => ~ IsRemote(kind)
      /\ req'[r].step = IF IsRemote(kind) THEN "sent" ELSE "open"
      /\ ~ req'[r].requestDone
      /\ \A q \in Requests : q # r => req'[q] = req[q]
  BY <1>1, <1>3, <1>4 DEF Reqs
<1>6. /\ Untouched(calls'[r]) /\ \A q \in Requests : q # r => calls'[q] = calls[q]
  <2>1. CASE IsRemote(kind)
    BY <1>1, <1>4, <2>1
  <2>2. CASE ~ IsRemote(kind)
    <3>1. /\ calls'[r] = [calls[r] EXCEPT !["beforeSend"] = @ + 1]
          /\ \A q \in Requests : q # r => calls'[q] = calls[q]
      BY <1>1, <1>3, <2>2, CalledTypes
    <3> QED
      BY <1>3, <1>4, <3>1 DEF Untouched, Counts
  <2> QED
    BY <2>1, <2>2
<1>7. Others(r)
  BY <1>5, <1>6 DEF Others
<1>8. /\ \A q \in Requests : q # r => window'[q] = window[q]
      /\ Jsonp(kind) => window'[r] = r
      /\ window'[r] \in {r, NoRequest}
  BY <1>1, <1>2, <1>3, <1>4
<1>9. RequestsInv' /\ WindowInv'
  <2>1. ReqInv(req'[r], calls'[r], Named(r)')
    BY <1>5, <1>6, <1>8 DEF ReqInv, Named
  <2>2. RequestsInv'
    BY <1>7, <1>8, <2>1, RequestsStep DEF AjaxInv
  <2>3. WindowInv'
    BY <1>8 DEF AjaxInv, WindowInv
  <2> QED
    BY <2>2, <2>3
<1>10. \A i \in DOMAIN stack : stack[i].r # r
  <2> SUFFICES ASSUME NEW i \in DOMAIN stack, stack[i].r = r PROVE FALSE
    OBVIOUS
  <2>1. stack[i].at = "enter"
    BY <1>2, SentIsIdle
  <2>2. FrameInv(stack[i], req[r], calls[r], i = 1)
    BY DEF AjaxInv, FramesInv
  <2> QED
    BY <1>2, <1>4, <2>1, <2>2 DEF FrameInv
<1>11. FramesInv' /\ OneFrame' /\ AbortRuns'
  <2>1. CASE IsRemote(kind)
    <3>1. stack' = stack /\ req'[r].step # "aborted"
      BY <1>1, <1>5, <2>1
    <3> QED
      BY <1>7, <1>10, <3>1, FramesAlone DEF AjaxInv
  <2>2. CASE ~ IsRemote(kind)
    <3> DEFINE f == Frame(r, "call", "beforeSend")
    <3>1. f \in Frames /\ f.r = r /\ f.why = "call" /\ f.at = "beforeSend"
      BY DEF Frame, Frames, Whys, Points, Callbacks
    <3>2. stack' = On(f, stack) /\ stack \in Seq(Frames)
      BY <1>1, <1>3, <2>2 DEF TypesInv
    <3> HIDE DEF f
    <3>3. stack'[1] = f /\ 1 \in DOMAIN stack' /\ Shifted(stack, stack', -1)
      BY <3>1, <3>2, ShiftPush
    <3>4. FrameInv(stack'[1], req'[stack'[1].r], calls'[stack'[1].r], TRUE)
      BY <1>5, <2>2, <3>1, <3>3 DEF FrameInv
    <3>5. stack # <<>> => stack[1].at # "enter"
      BY <1>2, <1>3, TopTypes DEF InPage, Callbacks
    <3>6. \A i : Stays(i, -1) => stack[i].r # r
      BY <1>10 DEF Stays
    <3>7. FramesInv' /\ OneFrame'
      BY <1>3, <1>7, <3>1, <3>3, <3>4, <3>5, <3>6, FramesStep DEF AjaxInv
    <3>8. req'[r].step # "aborted"
      BY <1>5
    <3>9. AbortRuns'
      BY <1>3, <1>7, <3>3, <3>8, AbortsStep DEF AjaxInv
    <3> QED
      BY <3>7, <3>9
  <2> QED
    BY <2>1, <2>2
<1>12. req'[r].step # "new" /\ ~ IsEnded(r)'
  BY <1>5, <1>6 DEF IsEnded, Untouched
<1>13. CountInv' /\ Begun' = Begun \cup {r} /\ Ended' = Ended /\ r \notin Begun
  BY <1>2, <1>3, <1>7, <1>12, CountBegins DEF AjaxInv
<1>14. active' = active + 1 /\ req'[r].step # "refused" /\ req[r].step # "refused"
  BY <1>2, <1>5 DEF CountUp
<1>15. AnswersOf(calls'[r]) = AnswersOf(calls[r]) /\ calls'[r].complete = calls[r].complete
  BY <1>4, <1>6 DEF AnswersOf, Untouched
<1>16. Promise!Next
  BY <1>7, <1>13, <1>14, <1>15, SeenBegin
<1> QED
  BY <1>9, <1>11, <1>13, <1>16 DEF AjaxInv

LEMMA SendingStep ==
  ASSUME AjaxInv, TypesInv', Benign, beforeSend \/ Refuse \/ send, NEW r, r = Top.r
  PROVE  AjaxInv' /\ (Promise!Next \/ UNCHANGED Promise!pvars)
<1>1. stack # <<>> /\ Top.at \in {"beforeSend", "send"}
  BY DEF beforeSend, Refuse, send, At
<1>2. /\ r \in Requests /\ Top.why = "call" /\ stack[1] = Top /\ 1 \in DOMAIN stack
      /\ req[r].step = "open" /\ ~ req[r].requestDone /\ ~ IsRemote(req[r].kind)
      /\ Untouched(calls[r]) /\ ReqInv(req[r], calls[r], Named(r))
      /\ \A i : i \in DOMAIN stack /\ i # 1 => stack[i].r # r
  BY <1>1, SettingUp
<1>3. /\ TypesInv /\ req \in [Requests -> Reqs] /\ calls \in [Requests -> Counts]
      /\ req[r] \in Reqs /\ stack \in Seq(Frames) /\ Tail(stack) \in Seq(Frames)
  BY <1>1, <1>2, TopTypes DEF AjaxInv, TypesInv
<1>4. \A d \in {0, 1} : \A i : Stays(i, d) => stack[i].r # r
  BY <1>2 DEF Stays
<1>5. CASE beforeSend
  <2>1. Goto("send") /\ UNCHANGED <<req, calls, active, indicator, window>> /\ "send" \in Points
    BY <1>5 DEF beforeSend, Points
  <2>2. stack'[1] = Frame(r, Top.why, "send") /\ 1 \in DOMAIN stack' /\ Shifted(stack, stack', 0)
    BY <1>1, <1>3, <2>1, GotoTypes
  <2>3. stack'[1].r = r /\ stack'[1].why = "call" /\ stack'[1].at = "send"
    BY <1>2, <2>2 DEF Frame
  <2>4. Others(r)
    BY <2>1 DEF Others
  <2>5. FrameInv(stack'[1], req'[stack'[1].r], calls'[stack'[1].r], TRUE)
    BY <1>2, <2>1, <2>3 DEF FrameInv
  <2>6. FramesInv' /\ OneFrame'
    BY <1>2, <1>3, <1>4, <2>2, <2>3, <2>4, <2>5, FramesStep DEF AjaxInv
  <2>7. AbortRuns'
    BY <1>2, <1>3, <2>1, <2>2, <2>4, AbortsStep DEF AjaxInv
  <2>8. RequestsInv' /\ WindowInv' /\ CountInv'
    BY <2>1 DEF AjaxInv, RequestsInv, WindowInv, CountInv, Named, Begun, Ended
  <2>9. UNCHANGED Promise!pvars
    BY <2>1 DEF Promise!pvars, Begun, Ended
  <2> QED
    BY <2>6, <2>7, <2>8, <2>9 DEF AjaxInv
<1>6. CASE Refuse \/ send
  <2>1. stack' = Tail(stack) /\ UNCHANGED <<calls, window>>
    BY <1>6 DEF Refuse, send
  <2>2. /\ req'[r].step = IF Refuse THEN "refused" ELSE "sent"
        /\ req'[r].kind = req[r].kind /\ req'[r].xhr = req[r].xhr
        /\ req'[r].timer => req[r].timer
        /\ Refuse => ~ req'[r].timer
        /\ ~ req'[r].requestDone
        /\ \A q \in Requests : q # r => req'[q] = req[q]
    <3>1. CASE Refuse
      <4>1. req' = [req EXCEPT ![r] = [@ EXCEPT !.step = "refused", !.timer = FALSE]]
        BY <3>1 DEF Refuse
      <4> QED
        BY <1>2, <1>3, <3>1, <4>1 DEF Reqs
    <3>2. CASE send /\ ~ Refuse
      <4>1. req' = [req EXCEPT ![r].step = "sent"]
        BY <3>2 DEF send
      <4> QED
        BY <1>2, <1>3, <3>2, <4>1 DEF Reqs
    <3> QED
      BY <1>6, <3>1, <3>2
  <2>3. Shifted(stack, stack', 1)
    BY <1>1, <1>3, <2>1, ShiftPop
  <2>4. Others(r) /\ calls'[r] = calls[r]
    BY <2>1, <2>2 DEF Others
  <2>5. ReqInv(req'[r], calls'[r], Named(r)')
    <3>1. ~ Jsonp(req[r].kind)
      BY <1>2, <1>3 DEF Jsonp, IsRemote, Benign, Reqs
    <3>2. Named(r)' = Named(r)
      BY <2>1 DEF Named
    <3> QED
      BY <1>2, <2>2, <2>4, <3>1, <3>2 DEF ReqInv
  <2>6. RequestsInv' /\ WindowInv'
    BY <1>2, <2>1, <2>4, <2>5, RequestsStep DEF AjaxInv, WindowInv
  <2>7. FramesInv' /\ OneFrame'
    BY <1>2, <1>3, <1>4, <2>3, <2>4, FramesStep DEF AjaxInv
  <2>8. AbortRuns'
    BY <1>2, <1>3, <2>2, <2>3, <2>4, AbortsStep DEF AjaxInv
  <2>9. ~ IsEnded(r) /\ req[r].step # "new" /\ req'[r].step # "new"
    BY <1>2, <2>2 DEF IsEnded, Untouched
  <2>10. AnswersOf(calls[r]) = 0 /\ calls[r].complete = 0
    BY <1>2 DEF AnswersOf, Untouched
  <2>11. CASE Refuse
    <3>1. CountDown /\ active' = active - 1 /\ req'[r].step = "refused"
      BY <2>2, <2>11 DEF Refuse, CountDown
    <3>2. IsEnded(r)'
      BY <3>1 DEF IsEnded
    <3>3. CountInv' /\ Begun' = Begun /\ Ended' = Ended \cup {r} /\ r \in Begun \ Ended
      BY <1>2, <2>4, <2>9, <3>1, <3>2, CountEnds DEF AjaxInv
    <3>4. Promise!Next
      BY <1>2, <2>4, <2>10, <3>1, <3>3, SeenRefuse
    <3> QED
      BY <2>6, <2>7, <2>8, <3>3, <3>4 DEF AjaxInv
  <2>12. CASE ~ Refuse
    <3>1. active' = active /\ indicator' = indicator
      BY <1>6, <2>12 DEF send
    <3>2. ~ IsEnded(r)'
      BY <2>2, <2>4, <2>9, <2>12 DEF IsEnded
    <3>3. CountInv' /\ Begun' = Begun /\ Ended' = Ended
      BY <1>2, <2>4, <2>9, <3>1, <3>2, CountStays DEF AjaxInv
    <3>4. req'[r].step # "refused" /\ req[r].step # "refused"
      BY <1>2, <2>2, <2>12
    <3>5. UNCHANGED Promise!pvars
      BY <1>2, <2>4, <3>1, <3>3, <3>4, SeenUnchanged
    <3> QED
      BY <2>6, <2>7, <2>8, <3>3, <3>5 DEF AjaxInv
  <2> QED
    BY <2>11, <2>12
<1> QED
  BY <1>5, <1>6

\* onreadystatechange with an answer.
LEMMA RespondStep ==
  ASSUME AjaxInv, TypesInv', Benign, NEW r \in Requests, NEW answer, NEW rest \in Seq(Frames),
         Respond(r, answer, rest), UNCHANGED <<active, indicator, window>>,
         ~ IsRemote(req[r].kind), NEW d \in {-1, 0},
         \A f \in Frames :
           On(f, rest)[1] = f /\ 1 \in DOMAIN On(f, rest) /\ Shifted(stack, On(f, rest), d),
         \/ d = 0 /\ 1 \in DOMAIN stack /\ stack[1].r = r /\ stack[1].at = "send"
         \/ /\ d = -1 /\ req[r].step = "sent"
            /\ stack = <<>> \/ stack[1].r = r
  PROVE  AjaxInv' /\ Promise!Next
<1>1. TypesInv /\ req[r] \in Reqs
  BY DEF AjaxInv, TypesInv
<1>2. ~ Jsonp(req[r].kind)
  BY <1>1 DEF Jsonp, IsRemote, Benign, Reqs
<1>3. /\ \A q \in Requests : q # r => req'[q] = req[q] /\ calls'[q] = calls[q]
      /\ req'[r] = [req[r] EXCEPT !.requestDone = TRUE, !.step = "answered"]
      /\ \E at \in {"success", "error"} :
           /\ stack' = On(Frame(r, "load", at), rest)
           /\ calls'[r] = [calls[r] EXCEPT ![at] = @ + 1]
  BY <1>1, <1>2, RespondTypes
<1>4. PICK at \in {"success", "error"} :
        /\ stack' = On(Frame(r, "load", at), rest)
        /\ calls'[r] = [calls[r] EXCEPT ![at] = @ + 1]
  BY <1>3
<1>5. Frame(r, "load", at) \in Frames
  BY DEF Frame, Frames, Whys, Points, Callbacks
<1>6. /\ req'[r].step = "answered" /\ req'[r].kind = req[r].kind /\ req'[r].requestDone
      /\ req'[r].xhr = req[r].xhr /\ req'[r].timer = req[r].timer
  BY <1>1, <1>3 DEF Reqs
<1>7. stack'[1] = Frame(r, "load", at) /\ 1 \in DOMAIN stack' /\ Shifted(stack, stack', d)
  BY <1>4, <1>5
<1>8. Others(r)
  BY <1>3 DEF Others
<1> QED
  BY <1>4, <1>6, <1>7, <1>8, AnsweringStep, ZenonT(60)

LEMMA AnswersInCode ==
  ASSUME AjaxInv, TypesInv', Benign, sendSync \/ AbortLoads
  PROVE  AjaxInv' /\ Promise!Next
<1>1. stack # <<>>
  BY DEF sendSync, AbortLoads, At
<1>2. /\ Top = stack[1] /\ Top.r \in Requests /\ 1 \in DOMAIN stack
      /\ stack \in Seq(Frames) /\ Tail(stack) \in Seq(Frames)
  BY <1>1, TopTypes DEF AjaxInv, TypesInv
<1>3. CASE sendSync
  <2>1. PICK answer \in Answers : Respond(Top.r, answer, Tail(stack))
    BY <1>3 DEF sendSync
  <2>2. Top.at = "send" /\ UNCHANGED <<active, indicator, window>>
    BY <1>3 DEF sendSync, At
  <2>3. ~ IsRemote(req[Top.r].kind)
    BY <1>1, <2>2, SettingUp
  <2>4. \A f \in Frames : /\ On(f, Tail(stack))[1] = f /\ 1 \in DOMAIN On(f, Tail(stack))
                          /\ Shifted(stack, On(f, Tail(stack)), 0)
    BY <1>1, <1>2, ShiftTop
  <2> QED
    BY <1>2, <2>1, <2>2, <2>3, <2>4, RespondStep
<1>4. CASE AbortLoads
  <2>1. /\ Respond(Top.r, [status |-> 0, parses |-> TRUE], stack)
        /\ req[Top.r].step = "sent" /\ req[Top.r].xhr /\ UNCHANGED <<active, indicator, window>>
    BY <1>4 DEF AbortLoads
  <2>2. ~ IsRemote(req[Top.r].kind)
    BY <1>2, <2>1 DEF AjaxInv, RequestsInv, ReqInv
  <2>3. \A f \in Frames : /\ On(f, stack)[1] = f /\ 1 \in DOMAIN On(f, stack)
                          /\ Shifted(stack, On(f, stack), -1)
    BY <1>2, ShiftPush
  <2> QED
    BY <1>2, <2>1, <2>2, <2>3, RespondStep
<1> QED
  BY <1>3, <1>4

\* What the browser calls when no code runs.
LEMMA EmptyStack ==
  ASSUME AjaxInv, stack = <<>>
  PROVE  /\ \A r \in Requests : req[r].step = "aborted" => req[r].requestDone
         /\ \A f \in Frames : /\ <<f>> \in Seq(Frames) /\ <<f>>[1] = f /\ 1 \in DOMAIN <<f>>
                              /\ Shifted(stack, <<f>>, -1) /\ <<f>> = On(f, <<>>)
<1>1. DOMAIN stack = {}
  OBVIOUS
<1>2. \A r \in Requests : req[r].step = "aborted" => req[r].requestDone
  BY <1>1 DEF AjaxInv, AbortRuns
<1>3. ASSUME NEW f \in Frames
      PROVE  /\ <<f>> \in Seq(Frames) /\ <<f>>[1] = f /\ 1 \in DOMAIN <<f>>
             /\ Shifted(stack, <<f>>, -1) /\ <<f>> = On(f, <<>>)
  <2>1. <<f>> = On(f, <<>>) /\ <<f>> \in Seq(Frames) /\ <<>> \in Seq(Frames)
    BY OnEmpty
  <2>2. On(f, <<>>)[1] = f /\ 1 \in DOMAIN On(f, <<>>) /\ Shifted(<<>>, On(f, <<>>), -1)
    BY <2>1, ShiftPush
  <2> QED
    BY <2>1, <2>2
<1> QED
  BY <1>2, <1>3

LEMMA LoadStep ==
  ASSUME AjaxInv, TypesInv', Benign, NEW r \in Requests, Load(r)
  PROVE  AjaxInv' /\ Promise!Next
<1>1. PICK answer \in Answers : Respond(r, answer, <<>>)
  BY DEF Load
<1>2. /\ stack = <<>> /\ req[r].step = "sent" /\ req[r].xhr
      /\ UNCHANGED <<active, indicator, window>>
  BY DEF Load
<1>3. ~ IsRemote(req[r].kind)
  BY <1>2 DEF AjaxInv, RequestsInv, ReqInv
<1>4. \A f \in Frames : /\ On(f, <<>>)[1] = f /\ 1 \in DOMAIN On(f, <<>>)
                        /\ Shifted(stack, On(f, <<>>), -1)
  <2> TAKE f \in Frames
  <2>1. /\ <<f>>[1] = f /\ 1 \in DOMAIN <<f>> /\ Shifted(stack, <<f>>, -1) /\ <<f>> = On(f, <<>>)
    BY <1>2, EmptyStack
  <2> QED
    BY <2>1
<1>5. <<>> \in Seq(Frames)
  OBVIOUS
<1> QED
  BY <1>1, <1>2, <1>3, <1>4, <1>5, RespondStep

LEMMA TimeoutStep ==
  ASSUME AjaxInv, TypesInv', NEW r \in Requests, Timeout(r)
  PROVE  AjaxInv' /\ (Promise!Next \/ UNCHANGED Promise!pvars)
<1>1. /\ stack = <<>> /\ req[r].timer /\ req[r].step # "open"
      /\ UNCHANGED <<active, indicator, window>>
  BY DEF Timeout
<1>2. /\ req[r] \in Reqs /\ req \in [Requests -> Reqs] /\ calls \in [Requests -> Counts]
      /\ TypesInv /\ ReqInv(req[r], calls[r], Named(r))
  BY DEF AjaxInv, TypesInv, RequestsInv
<1>3. /\ req[r].step \in {"sent", "answered", "aborted"} /\ ~ IsRemote(req[r].kind)
      /\ req[r].step # "sent" => req[r].requestDone
  <2>1. req[r].step \notin {"new", "refused", "failed", "open"} /\ ~ IsRemote(req[r].kind)
    BY <1>1, <1>2 DEF ReqInv
  <2>2. req[r].step \in {"sent", "answered", "aborted"}
    BY <1>2, <2>1 DEF Reqs, Phase
  <2>3. req[r].step = "aborted" => req[r].requestDone
    BY <1>1, EmptyStack
  <2>4. req[r].step = "answered" => req[r].requestDone
    BY <1>2, <2>1 DEF ReqInv
  <2> QED
    BY <2>1, <2>2, <2>3, <2>4
<1>4. CASE req[r].xhr /\ ~ req[r].requestDone
  <2> DEFINE f == Frame(r, "timeout", "error")
  <2>1. /\ req' = [req EXCEPT ![r] = [@ EXCEPT !.timer = FALSE, !.requestDone = TRUE,
                                              !.step = "answered"]]
        /\ stack' = <<f>> /\ Called(r, "error")
    BY <1>4 DEF Timeout
  <2>2. /\ req'[r].step = "answered" /\ req'[r].kind = req[r].kind /\ req'[r].requestDone
        /\ req'[r].xhr = req[r].xhr /\ ~ req'[r].timer
        /\ \A q \in Requests : q # r => req'[q] = req[q]
    BY <1>2, <2>1 DEF Reqs
  <2>3. /\ calls'[r] = [calls[r] EXCEPT !["error"] = @ + 1]
        /\ \A q \in Requests : q # r => calls'[q] = calls[q]
    BY <1>2, <2>1, CalledTypes
  <2>4. f \in Frames
    BY DEF Frame, Frames, Whys, Points, Callbacks
  <2>5. stack'[1] = f /\ 1 \in DOMAIN stack' /\ Shifted(stack, stack', -1)
    BY <1>1, <2>1, <2>4, EmptyStack
  <2>6. Others(r)
    BY <2>2, <2>3 DEF Others
  <2>7. req[r].step = "sent"
    BY <1>3, <1>4
  <2> QED
    BY <1>1, <1>3, <2>2, <2>3, <2>5, <2>6, <2>7, AnsweringStep
<1>5. CASE ~ (req[r].xhr /\ ~ req[r].requestDone)
  <2>1. req' = [req EXCEPT ![r].timer = FALSE] /\ stack' = stack /\ calls' = calls
    BY <1>5 DEF Timeout
  <2>2. /\ req'[r].step = req[r].step /\ req'[r].kind = req[r].kind /\ req'[r].xhr = req[r].xhr
        /\ req'[r].requestDone = req[r].requestDone /\ ~ req'[r].timer
        /\ \A q \in Requests : q # r => req'[q] = req[q]
    BY <1>2, <2>1 DEF Reqs
  <2>3. Others(r) /\ calls'[r] = calls[r]
    BY <2>1, <2>2 DEF Others
  <2>4. ReqInv(req'[r], calls'[r], Named(r)')
    BY <1>1, <1>2, <2>2, <2>3 DEF ReqInv, Named
  <2>5. RequestsInv' /\ WindowInv'
    BY <1>1, <2>3, <2>4, RequestsStep DEF AjaxInv, WindowInv
  <2>6. FramesInv' /\ OneFrame' /\ AbortRuns'
    <3>1. DOMAIN stack = {}
      BY <1>1
    <3> QED
      BY <1>2, <1>3, <2>1, <2>2, <2>3, <3>1, FramesAlone DEF AjaxInv
  <2>7. req[r].step # "new" /\ req'[r].step # "new" /\ (IsEnded(r)' <=> IsEnded(r))
    BY <1>3, <2>2, <2>3 DEF IsEnded
  <2>8. CountInv' /\ Begun' = Begun /\ Ended' = Ended
    BY <1>1, <2>3, <2>7, CountStays DEF AjaxInv
  <2>9. UNCHANGED Promise!pvars
    BY <1>1, <2>2, <2>3, <2>8, SeenUnchanged
  <2> QED
    BY <2>5, <2>6, <2>8, <2>9 DEF AjaxInv
<1> QED
  BY <1>4, <1>5

LEMMA LoadScriptStep ==
  ASSUME AjaxInv, TypesInv', Benign, NEW r \in Requests, LoadScript(r)
  PROVE  AjaxInv' /\ Promise!Next
<1>1. /\ stack = <<>> /\ req[r].step = "sent" /\ IsRemote(req[r].kind)
      /\ UNCHANGED <<active, indicator, window>>
  BY DEF LoadScript
<1>2. /\ req[r] \in Reqs /\ req \in [Requests -> Reqs] /\ calls \in [Requests -> Counts]
      /\ TypesInv /\ ReqInv(req[r], calls[r], Named(r))
  BY DEF AjaxInv, TypesInv, RequestsInv
<1>3. PICK why \in {"jsonp", "script"} :
        /\ stack' = <<Frame(r, why, "success")>> /\ Called(r, "success")
        /\ req'[r] = [req[r] EXCEPT !.step = "answered", !.data = r]
        /\ \A q \in Requests : q # r => req'[q] = req[q]
  <2>1. CASE Jsonp(req[r].kind)
    <3>1. NameOf(r) = r /\ window[r] = r /\ r # NoRequest
      BY <1>1, <1>2, <2>1, NoRequestAssumption DEF NameOf, Benign, ReqInv, Named
    <3>2. CallsJsonp(r, <<>>)
      BY <2>1 DEF LoadScript
    <3>3. stack' = On(Frame(r, "jsonp", "success"), <<>>) /\ Called(r, "success")
      BY <3>1, <3>2 DEF CallsJsonp
    <3>4. Frame(r, "jsonp", "success") \in Frames
      BY DEF Frame, Frames, Whys, Points, Callbacks
    <3>5. stack' = <<Frame(r, "jsonp", "success")>>
      BY <1>1, <3>3, <3>4, EmptyStack
    <3>6. req' = [x \in Requests |-> [req[x] EXCEPT !.step = IF x = r THEN "answered" ELSE @,
                                                    !.data = IF x = r THEN r ELSE @]]
      BY <2>1, <3>1 DEF LoadScript
    <3>7. req'[r] = [req[r] EXCEPT !.step = "answered", !.data = r]
      BY <3>6
    <3>8. ASSUME NEW x \in Requests, x # r PROVE req'[x] = req[x]
      <4>1. req'[x] = [req[x] EXCEPT !.step = @, !.data = @] /\ req[x] \in Reqs
        BY <1>2, <3>6, <3>8
      <4> QED
        BY <4>1 DEF Reqs
    <3> QED
      BY <3>3, <3>5, <3>7, <3>8
  <2>2. CASE ~ Jsonp(req[r].kind)
    <3>1. /\ stack' = <<Frame(r, "script", "success")>> /\ Called(r, "success")
          /\ req' = [req EXCEPT ![r] = [@ EXCEPT !.step = "answered", !.data = r]]
      BY <2>2 DEF LoadScript
    <3> QED
      BY <1>2, <3>1
  <2> QED
    BY <2>1, <2>2
<1>4. /\ req'[r].step = "answered" /\ req'[r].kind = req[r].kind
      /\ req'[r].xhr = req[r].xhr /\ req'[r].timer = req[r].timer
  BY <1>2, <1>3 DEF Reqs
<1>5. /\ calls'[r] = [calls[r] EXCEPT !["success"] = @ + 1]
      /\ \A q \in Requests : q # r => calls'[q] = calls[q]
  BY <1>2, <1>3, CalledTypes
<1>6. Frame(r, why, "success") \in Frames
  BY DEF Frame, Frames, Whys, Points, Callbacks
<1>7. stack'[1] = Frame(r, why, "success") /\ 1 \in DOMAIN stack' /\ Shifted(stack, stack', -1)
  BY <1>1, <1>3, <1>6, EmptyStack
<1>8. Others(r)
  BY <1>3, <1>5 DEF Others
<1> QED
  BY <1>1, <1>4, <1>5, <1>7, <1>8, AnsweringStep

LEMMA AbortStep ==
  ASSUME AjaxInv, TypesInv', Benign, NEW r \in Requests, abort(r)
  PROVE  AjaxInv' /\ UNCHANGED Promise!pvars
<1> DEFINE f == Frame(r, "abort", "enter")
<1>1. /\ InPage /\ MayAbort(r) /\ ~ IsRemote(req[r].kind)
      /\ req[r].step \in {"sent", "failed", "answered", "aborted"}
      /\ stack' = On(f, stack) /\ UNCHANGED <<req, calls, active, indicator, window>>
  BY DEF abort
<1>2. /\ TypesInv /\ ReqInv(req[r], calls[r], Named(r)) /\ stack \in Seq(Frames)
      /\ \A i \in DOMAIN stack : FrameInv(stack[i], req[stack[i].r], calls[stack[i].r], i = 1)
  BY DEF AjaxInv, TypesInv, RequestsInv, FramesInv
<1>3. req[r].step = "sent" \/ req[r].requestDone
  <2>1. ASSUME req[r].step = "aborted", ~ req[r].requestDone PROVE FALSE
    <3>1. \E i \in DOMAIN stack : stack[i] = Frame(r, "abort", "complete")
      BY <2>1 DEF AjaxInv, AbortRuns
    <3> QED
      BY <1>1, <3>1 DEF MayAbort, Benign
  <2> QED
    BY <1>1, <1>2, <2>1 DEF ReqInv
<1>4. f \in Frames /\ f.r = r /\ f.why = "abort" /\ f.at = "enter"
  BY DEF Frame, Frames, Whys, Points
<1>5. stack'[1] = f /\ 1 \in DOMAIN stack' /\ Shifted(stack, stack', -1)
  BY <1>1, <1>2, <1>4, ShiftPush
<1>6. Others(r) /\ req' = req /\ calls' = calls
  BY <1>1 DEF Others
<1> HIDE DEF f
<1>7. FrameInv(stack'[1], req'[stack'[1].r], calls'[stack'[1].r], TRUE)
  BY <1>1, <1>3, <1>4, <1>5, <1>6 DEF FrameInv
<1>8. stack # <<>> => stack[1].at # "enter"
  BY <1>1, <1>2, TopTypes DEF InPage, Callbacks
<1>9. ASSUME NEW i, Stays(i, -1), stack[i].r = r PROVE FrameInv(stack[i], req'[r], calls'[r], FALSE)
  <2>1. i \in DOMAIN stack /\ FrameInv(stack[i], req[r], calls[r], i = 1)
    BY <1>2, <1>9 DEF Stays
  <2>2. CASE i = 1
    <3>1. stack # <<>>
      BY <2>1
    <3> QED
      BY <1>6, <1>8, <2>1, <2>2, <3>1, FrameDeeper
  <2>3. CASE i # 1
    BY <1>6, <2>1, <2>3
  <2> QED
    BY <2>2, <2>3
<1>10. FramesInv' /\ OneFrame'
  BY <1>2, <1>4, <1>5, <1>6, <1>7, <1>8, <1>9, FramesStep DEF AjaxInv
<1>11. AbortRuns'
  BY <1>2, <1>5, <1>6, AbortsStep DEF AjaxInv
<1>12. RequestsInv' /\ WindowInv' /\ CountInv'
  BY <1>1 DEF AjaxInv, RequestsInv, WindowInv, CountInv, Named, Begun, Ended
<1>13. UNCHANGED Promise!pvars
  BY <1>1 DEF Promise!pvars, Begun, Ended
<1> QED
  BY <1>10, <1>11, <1>12, <1>13 DEF AjaxInv

LEMMA CompletesStep ==
  ASSUME AjaxInv, TypesInv', AnswerReturns \/ AbortEnters, NEW r, r = Top.r
  PROVE  AjaxInv' /\ (Promise!Next \/ UNCHANGED Promise!pvars)
<1>1. stack # <<>> /\ "complete" \in Points
  BY DEF AnswerReturns, AbortEnters, At, Points, Callbacks
<1>2. /\ Top = stack[1] /\ r \in Requests /\ 1 \in DOMAIN stack /\ Top.r = r
      /\ stack \in Seq(Frames) /\ Tail(stack) \in Seq(Frames) /\ TypesInv
      /\ req \in [Requests -> Reqs] /\ req[r] \in Reqs
  BY <1>1, TopTypes DEF AjaxInv, TypesInv
<1>3. FrameInv(stack[1], req[r], calls[r], TRUE)
  BY <1>2 DEF AjaxInv, FramesInv
<1>4. CASE AnswerReturns \/ (AbortEnters /\ ~ req[r].requestDone)
  <2>1. /\ Goto("complete") /\ Called(r, "complete")
        /\ UNCHANGED <<active, indicator, window>>
        /\ \/ stack[1].at \in {"success", "error"} /\ req' = req
           \/ stack[1].at = "enter" /\ ~ req[r].requestDone /\ req' = Aborted(r)
    BY <1>2, <1>4 DEF AnswerReturns, AbortEnters, At
  <2>2. stack'[1] = Frame(r, stack[1].why, "complete") /\ 1 \in DOMAIN stack' /\ Shifted(stack, stack', 0)
    BY <1>1, <1>2, <2>1, GotoTypes
  <2>3. /\ calls'[r] = [calls[r] EXCEPT !["complete"] = @ + 1]
        /\ \A q \in Requests : q # r => calls'[q] = calls[q]
    BY <1>2, <2>1, CalledTypes
  <2>4. stack[1].at = "enter" /\ ~ req[r].requestDone => req[r].step = "sent"
    BY <1>3 DEF FrameInv
  <2>5. /\ \/ stack[1].at \in {"success", "error"} /\ req' = req
           \/ /\ stack[1].at = "enter" /\ ~ req[r].requestDone
              /\ req'[r] = [req[r] EXCEPT !.step = "aborted"]
        /\ \A q \in Requests : q # r => req'[q] = req[q]
    BY <1>2, <2>1, <2>4 DEF Aborted
  <2>6. Others(r)
    BY <2>3, <2>5 DEF Others
  <2> QED
    BY <1>2, <2>1, <2>2, <2>3, <2>5, <2>6, CompletingStep
<1>5. CASE AbortEnters /\ req[r].requestDone
  <2>1. stack' = Tail(stack) /\ UNCHANGED <<req, calls, active, indicator, window>>
    BY <1>2, <1>5 DEF AbortEnters
  <2>2. Shifted(stack, stack', 1)
    BY <1>1, <1>2, <2>1, ShiftPop
  <2>3. Others(r) /\ req' = req /\ calls' = calls
    BY <2>1 DEF Others
  <2>4. ASSUME NEW i, Stays(i, 1), stack[i].r = r PROVE FrameInv(stack[i], req'[r], calls'[r], FALSE)
    <3>1. i \in DOMAIN stack /\ i # 1
      BY <2>4 DEF Stays
    <3>2. FrameInv(stack[i], req[r], calls[r], i = 1)
      BY <2>4, <3>1 DEF AjaxInv, FramesInv
    <3> QED
      BY <2>3, <3>1, <3>2
  <2>5. FramesInv' /\ OneFrame'
    BY <1>2, <2>2, <2>3, <2>4, FramesStep DEF AjaxInv
  <2>6. AbortRuns'
    BY <1>2, <1>5, <2>2, <2>3, AbortsStep DEF AjaxInv
  <2>7. RequestsInv' /\ WindowInv' /\ CountInv'
    BY <2>1 DEF AjaxInv, RequestsInv, WindowInv, CountInv, Named, Begun, Ended
  <2>8. UNCHANGED Promise!pvars
    BY <2>1 DEF Promise!pvars, Begun, Ended
  <2> QED
    BY <2>5, <2>6, <2>7, <2>8 DEF AjaxInv
<1> QED
  BY <1>4, <1>5

LEMMA CompleteReturnsStep ==
  ASSUME AjaxInv, TypesInv', Benign, CompleteReturns, NEW r, r = Top.r
  PROVE  AjaxInv' /\ Promise!Next
<1>1. stack # <<>> /\ Top.at = "complete"
  BY DEF CompleteReturns, At
<1>2. /\ Top = stack[1] /\ r \in Requests /\ 1 \in DOMAIN stack /\ Top.r = r
      /\ stack \in Seq(Frames) /\ TypesInv
      /\ req \in [Requests -> Reqs] /\ req[r] \in Reqs /\ calls[r] \in Counts
      /\ window \in [Requests -> Requests \cup {NoRequest}]
  BY <1>1, TopTypes DEF AjaxInv, TypesInv
<1>3. /\ FrameInv(stack[1], req[r], calls[r], TRUE) /\ ReqInv(req[r], calls[r], Named(r))
      /\ calls[r].complete = 1 /\ calls[r].completed = 0
      /\ IF Top.why = "abort" THEN req[r].step = "aborted" /\ ~ req[r].requestDone
         ELSE Top.why \in {"load", "timeout", "jsonp", "script"} /\ req[r].step = "answered"
  BY <1>1, <1>2 DEF AjaxInv, FramesInv, RequestsInv, FrameInv
<1>4. /\ Called(r, "completed") /\ CountDown /\ stack' = Tail(stack)
      /\ \/ /\ Top.why \in {"load", "timeout"} /\ window' = window
            /\ req' = [req EXCEPT ![r].xhr = ~ Async(r)]
         \/ /\ Top.why = "abort" /\ window' = window
            /\ req' = [req EXCEPT ![r].requestDone = TRUE]
         \/ /\ Top.why = "jsonp" /\ req' = req
            /\ window' = [window EXCEPT ![NameOf(r)] = NoRequest]
         \/ Top.why = "script" /\ req' = req /\ window' = window
  BY <1>2, <1>3 DEF CompleteReturns
<1>5. NameOf(r) = r
  BY DEF NameOf, Benign
<1>6. /\ \A q \in Requests : q # r => window'[q] = window[q]
      /\ window'[r] \in {window[r], NoRequest}
  BY <1>2, <1>4, <1>5
<1>7. /\ req'[r].step = req[r].step /\ req'[r].kind = req[r].kind
      /\ IF Top.why = "abort" THEN req'[r].requestDone
         ELSE req'[r].requestDone = req[r].requestDone
      /\ req'[r].timer = req[r].timer
      /\ req'[r].xhr => req[r].xhr \/ Top.why \in {"load", "timeout"}
      /\ \A q \in Requests : q # r => req'[q] = req[q]
  <2>1. CASE Top.why \in {"load", "timeout"}
    <3>1. req' = [req EXCEPT ![r].xhr = ~ Async(r)]
      BY <1>4, <2>1
    <3> QED
      BY <1>2, <2>1, <3>1 DEF Reqs
  <2>2. CASE Top.why = "abort"
    <3>1. req' = [req EXCEPT ![r].requestDone = TRUE]
      BY <1>4, <2>2
    <3> QED
      BY <1>2, <2>2, <3>1 DEF Reqs
  <2>3. CASE Top.why \in {"jsonp", "script"}
    BY <1>4, <2>3
  <2> QED
    BY <1>4, <2>1, <2>2, <2>3
<1>8. /\ calls'[r] = [calls[r] EXCEPT !["completed"] = @ + 1]
      /\ \A q \in Requests : q # r => calls'[q] = calls[q]
  BY <1>2, <1>4, CalledTypes
<1>9. /\ calls'[r].complete = 1 /\ calls'[r].completed = 1
      /\ AnswersOf(calls'[r]) = AnswersOf(calls[r])
  BY <1>2, <1>3, <1>8 DEF Counts, AnswersOf
<1>10. Others(r) /\ Shifted(stack, stack', 1)
  BY <1>1, <1>2, <1>4, <1>7, <1>8, ShiftPop DEF Others
<1>11. ReqInv(req'[r], calls'[r], Named(r)')
  <2>1. req'[r].xhr \/ req'[r].timer => ~ IsRemote(req[r].kind)
    BY <1>2, <1>3, <1>7 DEF FrameInv, ReqInv
  <2> QED
    BY <1>3, <1>7, <1>9, <2>1 DEF ReqInv
<1>12. RequestsInv' /\ WindowInv'
  BY <1>2, <1>6, <1>10, <1>11, RequestsStep DEF AjaxInv, WindowInv
<1>13. ASSUME NEW i, Stays(i, 1), stack[i].r = r PROVE FrameInv(stack[i], req'[r], calls'[r], FALSE)
  <2>1. i \in DOMAIN stack /\ i # 1
    BY <1>13 DEF Stays
  <2>2. stack[i].at = "enter" /\ FrameInv(stack[i], req[r], calls[r], FALSE)
    BY <1>1, <1>2, <1>13, <2>1 DEF AjaxInv, OneFrame, FramesInv
  <2> QED
    BY <1>7, <2>2 DEF FrameInv
<1>14. FramesInv' /\ OneFrame'
  BY <1>2, <1>10, <1>13, FramesStep DEF AjaxInv
<1>15. AbortRuns'
  <2>1. req'[r].step # "aborted" \/ req'[r].requestDone
    BY <1>3, <1>7
  <2> QED
    BY <1>2, <1>10, <2>1, AbortsStep DEF AjaxInv
<1>16. ~ IsEnded(r) /\ IsEnded(r)' /\ req[r].step # "new" /\ req'[r].step # "new"
  BY <1>3, <1>7, <1>9 DEF IsEnded
<1>17. CountInv' /\ Begun' = Begun /\ Ended' = Ended \cup {r} /\ r \in Begun \ Ended
  BY <1>2, <1>4, <1>10, <1>16, CountEnds DEF AjaxInv
<1>18. active' = active - 1 /\ req[r].step # "refused" /\ req'[r].step # "refused"
  BY <1>3, <1>4, <1>7 DEF CountDown
<1>19. Promise!Next
  BY <1>2, <1>3, <1>9, <1>10, <1>17, <1>18, SeenEnd
<1> QED
  BY <1>12, <1>14, <1>15, <1>17, <1>19 DEF AjaxInv

\* What does not happen then.
LEMMA NothingThrows ==
  ASSUME AjaxInv, Benign
  PROVE  ~ (Eval \/ Evaled \/ SyncThrowReturns \/ sendThrows \/ CallbackThrows)
<1>1. ~ Fault
  <2>1. faults \in Nat /\ MaxFaults = 0
    BY DEF AjaxInv, TypesInv, Benign
  <2> QED
    BY <2>1 DEF Fault
<1>2. ASSUME stack # <<>>
      PROVE  Top.at \notin {"eval", "evaled"} /\ (Top.at = "complete" => Top.why # "throw")
  <2>1. Top = stack[1] /\ 1 \in DOMAIN stack
    BY <1>2, TopTypes DEF AjaxInv
  <2>2. FrameInv(Top, req[Top.r], calls[Top.r], TRUE)
    BY <2>1 DEF AjaxInv, FramesInv
  <2> QED
    BY <2>2 DEF FrameInv
<1> QED
  BY <1>1, <1>2 DEF Eval, Evaled, SyncThrowReturns, sendThrows, CallbackThrows, At

--------------------------------------------------------------------------------
(* The theorems.                                                                      *)

LEMMA AjaxInvInit == ASSUME AjaxInit PROVE AjaxInv /\ Promise!Init
<1>1. TypesInv
  BY TypesInit
<1>2. /\ \A r \in Requests : req[r] = NewRequest /\ calls[r] = NoCalls /\ window[r] = NoRequest
      /\ stack = <<>> /\ active = 0 /\ indicator = FALSE
  BY DEF AjaxInit
<1>3. RequestsInv /\ WindowInv
  <2>1. ASSUME NEW r \in Requests PROVE ReqInv(req[r], calls[r], Named(r))
    <3>1. /\ req[r].step = "new" /\ ~ req[r].requestDone /\ ~ req[r].xhr /\ ~ req[r].timer
          /\ Untouched(calls[r])
      BY <1>2 DEF NewRequest, NoCalls, Untouched
    <3>2. ~ Named(r)
      BY <1>2, NoRequestAssumption DEF Named
    <3> QED
      BY <3>1, <3>2 DEF ReqInv
  <2> QED
    BY <1>2, <2>1 DEF RequestsInv, WindowInv
<1>4. DOMAIN stack = {}
  BY <1>2
<1>5. FramesInv /\ OneFrame
  BY <1>4 DEF FramesInv, OneFrame
<1>6. AbortRuns
  BY <1>2 DEF AbortRuns, NewRequest
<1>7. Begun = {} /\ Ended = {}
  BY <1>2 DEF Begun, Ended, NewRequest
<1>8. CountInv
  BY <1>2, <1>7, FS_EmptySet DEF CountInv
<1>9. Promise!Init
  BY <1>2, <1>7 DEF Promise!Init, NewRequest, NoCalls
<1> QED
  BY <1>1, <1>3, <1>5, <1>6, <1>8, <1>9 DEF AjaxInv

LEMMA AjaxInvNext ==
  ASSUME AjaxInv, Benign, [AjaxNext]_avars
  PROVE  AjaxInv' /\ (Promise!Next \/ UNCHANGED Promise!pvars)
<1>1. TypesInv'
  BY TypesNext DEF AjaxInv
<1>2. CASE UNCHANGED avars
  <2>1. AjaxInv'
    BY <1>1, <1>2 DEF avars, AjaxInv, RequestsInv, WindowInv, FramesInv, OneFrame, AbortRuns,
                      CountInv, Named, Begun, Ended
  <2>2. UNCHANGED Promise!pvars
    BY <1>2 DEF avars, Promise!pvars, Begun, Ended
  <2> QED
    BY <2>1, <2>2
<1>3. CASE Running \/ sendThrows \/ CallbackThrows
  <2> PICK r : r = Top.r
    OBVIOUS
  <2>1. beforeSend \/ Refuse \/ send \/ sendSync \/ AbortLoads \/ AbortEnters \/ AnswerReturns \/ CompleteReturns
    BY <1>3, NothingThrows DEF Running
  <2> QED
    BY <1>1, <2>1, SendingStep, AnswersInCode, CompletesStep, CompleteReturnsStep
<1>4. CASE \E r \in Requests : ajax(r) \/ abort(r) \/ Load(r) \/ LoadScript(r) \/ Timeout(r)
  BY <1>1, <1>4, BeginStep, AbortStep, LoadStep, LoadScriptStep, TimeoutStep
<1> QED
  BY <1>2, <1>3, <1>4 DEF AjaxNext

LEMMA ServedOf == ASSUME AjaxInv PROVE IndicatorShows
<1>1. IsFiniteSet(Begun \ Ended)
  BY FS_Subset DEF AjaxInv, CountInv
<1>2. Cardinality(Begun \ Ended) = 0 <=> Begun \ Ended = {}
  BY <1>1, FS_EmptySet
<1>3. Begun \ Ended = {} <=> Begun = Ended
  BY EndedOf
<1>4. indicator <=> active # 0
  BY DEF AjaxInv, CountInv
<1>5. active = Cardinality(Begun \ Ended)
  BY DEF AjaxInv, CountInv
<1> QED
  BY <1>2, <1>3, <1>4, <1>5 DEF IndicatorShows

\* With a function of its own for each request.
OwnInv == TypesInv /\ WindowInv /\ OwnData

LEMMA OwnInvInit == ASSUME AjaxInit PROVE OwnInv
<1>1. \A r \in Requests : req[r].data = NoRequest /\ window[r] = NoRequest
  BY DEF AjaxInit, NewRequest
<1> QED
  BY <1>1, TypesInit DEF OwnInv, WindowInv, OwnData

\* Data is given to the request that the function of its name is of.
LEMMA OwnDataKept ==
  ASSUME OwnInv, ~ SharedName,
         \/ \E r \in Requests :
              ajax(r) \/ abort(r) \/ Load(r) \/ LoadScript(r) \/ Timeout(r)
         \/ Running \/ sendThrows \/ CallbackThrows
  PROVE  OwnData'
<1>1. /\ TypesInv /\ req \in [Requests -> Reqs]
      /\ \A r \in Requests : req[r] \in Reqs /\ req[r].data \in {r, NoRequest}
      /\ \A r \in Requests : window[r] \in {r, NoRequest}
  BY DEF OwnInv, TypesInv, OwnData, WindowInv
<1>2. \A r \in Requests : NameOf(r) = r
  BY DEF NameOf
<1>3. SUFFICES ASSUME NEW q \in Requests PROVE req'[q].data \in {q, NoRequest}
  BY DEF OwnData
<1>4. stack # <<>> => Top.r \in Requests /\ Tail(stack) \in Seq(Frames) /\ stack \in Seq(Frames)
  BY <1>1, TopTypes DEF TypesInv
<1>5. ASSUME NEW r \in Requests, NEW answer, NEW rest \in Seq(Frames), Respond(r, answer, rest)
      PROVE  req'[q].data = req[q].data
  <2>1. /\ req'[r] = [req[r] EXCEPT !.requestDone = TRUE, !.step = "answered"]
        /\ \A x \in Requests : x # r => req'[x] = req[x]
    BY <1>1, <1>5, RespondTypes
  <2> QED
    BY <1>1, <2>1, ZenonT(60) DEF Reqs
<1>6. ASSUME NEW r \in Requests, ajax(r) PROVE req'[q].data = req[q].data
  <2>1. PICK kind \in Kinds, timed \in BOOLEAN :
          req' = [req EXCEPT ![r] =
                    [@ EXCEPT !.kind = kind, !.xhr = ~ IsRemote(kind),
                              !.timer = timed /\ kind # "sync" /\ ~ IsRemote(kind),
                              !.step = IF IsRemote(kind) THEN "sent" ELSE "open"]]
    BY <1>6 DEF ajax
  <2> QED
    BY <1>1, <2>1 DEF Reqs
<1>7. ASSUME NEW r \in Requests, abort(r) PROVE req'[q].data = req[q].data
  BY <1>7 DEF abort
<1>8. ASSUME NEW r \in Requests, Load(r) PROVE req'[q].data = req[q].data
  <2>1. <<>> \in Seq(Frames)
    OBVIOUS
  <2> QED
    BY <1>5, <1>8, <2>1 DEF Load
<1>9. ASSUME NEW r \in Requests, LoadScript(r) PROVE req'[q].data \in {q, NoRequest}
  <2>1. CASE Jsonp(req[r].kind)
    <3>1. req' = LET w == window[NameOf(r)]
                 IN [x \in Requests |->
                       [req[x] EXCEPT !.step = IF x = r THEN "answered" ELSE @,
                                      !.data = IF x = w THEN r ELSE @]]
      BY <1>9, <2>1 DEF LoadScript
    <3>2. req'[q].data = IF q = window[r] THEN r ELSE req[q].data
      BY <1>1, <1>2, <3>1 DEF Reqs
    <3> QED
      BY <1>1, <3>2, NoRequestAssumption
  <2>2. CASE ~ Jsonp(req[r].kind)
    <3>1. req' = [req EXCEPT ![r] = [@ EXCEPT !.step = "answered", !.data = r]]
      BY <1>9, <2>2 DEF LoadScript
    <3> QED
      BY <1>1, <3>1 DEF Reqs
  <2> QED
    BY <2>1, <2>2
<1>10. ASSUME NEW r \in Requests, Timeout(r) PROVE req'[q].data = req[q].data
  <2>1. \/ req' = [req EXCEPT ![r] = [@ EXCEPT !.timer = FALSE, !.requestDone = TRUE,
                                               !.step = "answered"]]
        \/ req' = [req EXCEPT ![r].timer = FALSE]
    BY <1>10 DEF Timeout
  <2>2. CASE req' = [req EXCEPT ![r].timer = FALSE]
    BY <1>1, <2>2 DEF Reqs
  <2>3. CASE req' = [req EXCEPT ![r] = [@ EXCEPT !.timer = FALSE, !.requestDone = TRUE,
                                                 !.step = "answered"]]
    BY <1>1, <2>3 DEF Reqs
  <2> QED
    BY <2>1, <2>2, <2>3
<1>11. CASE Eval
  <2>1. stack # <<>> /\ Top.r \in Requests
    BY <1>4, <1>11 DEF Eval, At
  <2>2. req' = IF window[Top.r] = NoRequest THEN req ELSE [req EXCEPT ![window[Top.r]].data = Top.r]
    BY <1>2, <1>11, <2>1 DEF Eval
  <2>3. req' = req \/ req' = [req EXCEPT ![Top.r].data = Top.r]
    BY <1>1, <2>1, <2>2
  <2> QED
    BY <1>1, <2>1, <2>3 DEF Reqs
<1>12. CASE Refuse \/ send \/ sendThrows
  <2>1. stack # <<>> /\ Top.r \in Requests
    BY <1>4, <1>12 DEF Refuse, send, sendThrows, At
  <2>2. \/ req' = [req EXCEPT ![Top.r] = [@ EXCEPT !.step = "refused", !.timer = FALSE]]
        \/ req' = [req EXCEPT ![Top.r].step = "sent"]
        \/ req' = [req EXCEPT ![Top.r].step = "failed"]
    BY <1>12 DEF Refuse, send, sendThrows
  <2>3. CASE req' = [req EXCEPT ![Top.r] = [@ EXCEPT !.step = "refused", !.timer = FALSE]]
    BY <1>1, <2>1, <2>3 DEF Reqs
  <2>4. CASE \/ req' = [req EXCEPT ![Top.r].step = "sent"]
             \/ req' = [req EXCEPT ![Top.r].step = "failed"]
    BY <1>1, <2>1, <2>4 DEF Reqs
  <2> QED
    BY <2>2, <2>3, <2>4
<1>13. CASE sendSync \/ AbortLoads
  <2>1. stack # <<>> /\ Top.r \in Requests /\ Tail(stack) \in Seq(Frames) /\ stack \in Seq(Frames)
    BY <1>4, <1>13 DEF sendSync, AbortLoads, At
  <2>2. \E answer, rest : rest \in Seq(Frames) /\ Respond(Top.r, answer, rest)
    BY <1>13, <2>1 DEF sendSync, AbortLoads
  <2> QED
    BY <1>1, <1>5, <2>1, <2>2
<1>14. CASE AbortEnters \/ CompleteReturns \/ SyncThrowReturns
  <2>1. stack # <<>> /\ Top.r \in Requests
    BY <1>4, <1>14 DEF AbortEnters, CompleteReturns, SyncThrowReturns, At
  <2>2. \/ req' = req \/ req' = Aborted(Top.r)
        \/ req' = [req EXCEPT ![Top.r].xhr = ~ Async(Top.r)]
        \/ req' = [req EXCEPT ![Top.r].requestDone = TRUE]
    BY <1>14 DEF AbortEnters, CompleteReturns, SyncThrowReturns
  <2> QED
    BY <1>1, <2>1, <2>2 DEF Reqs, Aborted
<1>15. CASE beforeSend \/ Evaled \/ AnswerReturns \/ CallbackThrows
  BY <1>1, <1>15 DEF beforeSend, Evaled, AnswerReturns, CallbackThrows
<1> QED
  BY <1>1, <1>5, <1>6, <1>7, <1>8, <1>9, <1>10, <1>11, <1>12, <1>13, <1>14, <1>15 DEF Running

LEMMA WindowKept ==
  ASSUME OwnInv, ~ SharedName, AjaxNext
  PROVE  WindowInv'
<1>1. /\ window \in [Requests -> Requests \cup {NoRequest}] /\ TypesInv
      /\ \A r \in Requests : window[r] \in {r, NoRequest}
  BY DEF OwnInv, TypesInv, WindowInv
<1>2. \A r \in Requests : NameOf(r) = r
  BY DEF NameOf
<1>3. ASSUME NEW r \in Requests, ajax(r) PROVE window' = window \/ window' = [window EXCEPT ![r] = r]
  BY <1>2, <1>3 DEF ajax
<1>4. ASSUME CompleteReturns
      PROVE  \E r \in Requests : window' = window \/ window' = [window EXCEPT ![r] = NoRequest]
  <2>1. Top.r \in Requests
    BY <1>1, <1>4, TopTypes DEF CompleteReturns, At
  <2> QED
    BY <1>2, <1>4, <2>1 DEF CompleteReturns
<1>5. \/ window' = window
      \/ \E r \in Requests : ajax(r)
      \/ CompleteReturns
  BY DEF AjaxNext, Running, beforeSend, Refuse, send, sendSync, sendThrows, Load, Timeout, Eval, Evaled,
         LoadScript, abort, AbortLoads, AbortEnters, AnswerReturns, SyncThrowReturns, CallbackThrows
<1> QED
  BY <1>1, <1>3, <1>4, <1>5 DEF WindowInv

\* A JSONP request is given the answer to it, and not to another one, whatever throws and is
\* aborted, if each has a function of a name of its own (jQuery.ajax, jsc).
THEOREM OwnDataAlways == ~ SharedName => (AjaxSpec => []OwnData)
<1> SUFFICES ASSUME ~ SharedName PROVE AjaxSpec => []OwnData
  OBVIOUS
<1>1. AjaxInit => OwnInv
  BY OwnInvInit
<1>2. OwnInv /\ [AjaxNext]_avars => OwnInv'
  <2>1. CASE OwnInv /\ AjaxNext
    BY <2>1, TypesNext, OwnDataKept, WindowKept DEF AjaxNext, OwnInv
  <2>2. CASE OwnInv /\ UNCHANGED avars
    BY <2>2 DEF avars, OwnInv, TypesInv, WindowInv, OwnData
  <2> QED
    BY <2>1, <2>2
<1>3. OwnInv => OwnData
  BY DEF OwnInv
<1> QED
  BY <1>1, <1>2, <1>3, PTL DEF AjaxSpec

\* The page shows that it waits while a request is under way, and no request is given another
\* one's data (ajaxStart, ajaxStop, jsc of jQuery.ajax).
THEOREM RequestsServedAlways == Benign => (AjaxSpec => []RequestsServed)
<1> SUFFICES ASSUME Benign PROVE AjaxSpec => []RequestsServed
  OBVIOUS
<1>1. AjaxInit => AjaxInv
  BY AjaxInvInit
<1>2. AjaxInv /\ [AjaxNext]_avars => AjaxInv'
  BY AjaxInvNext
<1>3. AjaxInv => IndicatorShows
  BY ServedOf
<1>4. ~ SharedName
  BY DEF Benign
<1>5. AjaxSpec => []OwnData
  BY <1>4, OwnDataAlways
<1>6. RequestsServed <=> IndicatorShows /\ OwnData
  BY DEF RequestsServed
<1> QED
  BY <1>1, <1>2, <1>3, <1>5, <1>6, PTL DEF AjaxSpec

\* A request is answered at most once, completed at most once and after its answer, and active
\* counts the requests in between: jQuery.ajax implements AjaxPromise.
THEOREM PromiseKept == Benign => (AjaxSpec => KeepsPromise)
<1> SUFFICES ASSUME Benign PROVE AjaxSpec => KeepsPromise
  OBVIOUS
<1>1. AjaxInit => AjaxInv /\ Promise!Init
  BY AjaxInvInit
<1>2. AjaxInv /\ [AjaxNext]_avars => AjaxInv' /\ (Promise!Next \/ UNCHANGED Promise!pvars)
  BY AjaxInvNext
<1> QED
  BY <1>1, <1>2, PTL DEF AjaxSpec, KeepsPromise, Promise!Spec

\* Nothing fails where nothing may.
LEMMA FaultsStep ==
  ASSUME MaxFaults = 0, faults = 0, [AjaxNext]_avars
  PROVE  faults' = 0
<1>1. ~ Fault
  BY DEF Fault
<1>2. CASE UNCHANGED avars
  BY <1>2 DEF avars
<1>3. CASE Running
  BY <1>1, <1>3 DEF Running, beforeSend, Refuse, send, sendSync,
     Eval, Evaled, AbortLoads, AbortEnters, AnswerReturns, CompleteReturns, SyncThrowReturns
<1>4. CASE sendThrows \/ CallbackThrows
  BY <1>1, <1>4 DEF sendThrows, CallbackThrows
<1>5. ASSUME NEW r \in Requests, ajax(r) \/ abort(r) \/ Load(r) \/ LoadScript(r) \/ Timeout(r)
      PROVE  faults' = 0
  BY <1>1, <1>5 DEF ajax, abort, Load, LoadScript, Timeout
<1> QED
  BY <1>2, <1>3, <1>4, <1>5 DEF AjaxNext

\* The requests, the frames that run and the counter of a page have values of their types; no
\* more requests are counted than there are (jQuery.ajax, jQuery.active).
THEOREM AjaxTypes == Benign /\ IsFiniteSet(Requests) => (AjaxSpec => []AjaxTypeOK)
<1> SUFFICES ASSUME Benign, IsFiniteSet(Requests) PROVE AjaxSpec => []AjaxTypeOK
  OBVIOUS
<1> DEFINE Inv == AjaxInv /\ faults = 0
<1>1. AjaxInit => Inv
  BY AjaxInvInit DEF AjaxInit
<1>2. Inv /\ [AjaxNext]_avars => Inv'
  BY AjaxInvNext, FaultsStep DEF Benign
<1>3. Inv => AjaxTypeOK
  <2> SUFFICES ASSUME AjaxInv, faults = 0 PROVE AjaxTypeOK
    OBVIOUS
  <2>1. TypesInv /\ CountInv
    BY DEF AjaxInv
  <2>2. active \in 0..Cardinality(Requests)
    <3>1. Begun \ Ended \subseteq Requests
      BY DEF Begun
    <3>2. /\ Cardinality(Begun \ Ended) <= Cardinality(Requests)
          /\ Cardinality(Begun \ Ended) \in Nat /\ Cardinality(Requests) \in Nat
      BY <3>1, FS_Subset, FS_CardinalityType
    <3>3. active = Cardinality(Begun \ Ended)
      BY <2>1 DEF CountInv
    <3> QED
      BY <3>2, <3>3
  <2>3. ASSUME NEW r \in Requests
        PROVE  /\ req[r].kind \in Kinds \cup {"xhr"} /\ req[r].step \in Phase
               /\ req[r].data \in Requests \cup {NoRequest}
    <3>1. req[r] \in Reqs
      BY <2>1 DEF TypesInv
    <3> QED
      BY <3>1 DEF Reqs
  <2>4. ASSUME NEW i \in DOMAIN stack
        PROVE  stack[i].r \in Requests /\ stack[i].why \in Whys
    <3>1. stack[i] \in Frames
      BY <2>1 DEF TypesInv
    <3> QED
      BY <3>1 DEF Frames
  <2>5. window \in [Requests -> Requests \cup {NoRequest}]
    BY <2>1 DEF TypesInv
  <2>6. faults \in 0..MaxFaults
    <3>1. MaxFaults = 0
      BY DEF Benign
    <3> QED
      BY <3>1
  <2> QED
    BY <2>2, <2>3, <2>4, <2>5, <2>6 DEF AjaxTypeOK, Phase, Whys
<1> QED
  BY <1>1, <1>2, <1>3, PTL DEF AjaxSpec

--------------------------------------------------------------------------------
(* Handlers of events (Events).                                                      *)

(* Why: what is true of the handlers that are bound, and of the copies that the events   *)
(* took of them.                                                                        *)

\* What live binds is told from what the page binds.
Sorts ==
  \A e \in Elements : \A o \in Objs(e) :
    /\ o.once = handlers[o.id].once
    /\ o.type = "live" => ~ o.once /\ o.fn \in Fns /\ o.ns = ""
    /\ o.type # "live" => o.orig = Null
    /\ o.fn = LiveHandler => ~ o.once /\ o.type # "live" /\ o.ns = ""

IsOnce(id) == handlers[id].once

\* A handler of one is bound in one place.
OnePlace ==
  \A e, x \in Elements : \A i \in DOMAIN bound[e], j \in DOMAIN bound[x] :
    bound[e][i].id = bound[x][j].id /\ IsOnce(bound[e][i].id) => e = x /\ i = j

\* The copy that an event took of a handler of one: it has no other one, and the handler
\* is still bound where the event took it, or nowhere.
Copy(f, of, in) ==
  /\ \A i, j \in DOMAIN f.left : f.left[i].id = f.left[j].id /\ of[f.left[i].id].once => i = j
  /\ \A o \in ToSet(f.left) :
       /\ o.once = of[o.id].once
       /\ of[o.id].once =>
            /\ o.type = f.type
            /\ \A e \in Elements : \A x \in ToSet(in[e]) : x.id = o.id => e = f.cur /\ x = o
Copies == \A k \in DOMAIN frames : Copy(frames[k], handlers, bound)

\* The events, from the outermost, that have a copy of a handler.
Depth(d) == frames[Len(frames) + 1 - d]
Copied(id) == {d \in DOMAIN frames : \E o \in ToSet(Depth(d).left) : o.id = id}

\* A handler of one that is bound was not called; one that was, is called again only by
\* those events that have a copy.
Totals ==
  \A id \in DOMAIN handlers :
    IsOnce(id) =>
      /\ (\E e \in Elements : \E o \in Objs(e) : o.id = id) => handlers[id].n = 0
      /\ handlers[id].n + Cardinality(Copied(id)) <= MaxNested

EventsInv ==
  /\ EventsTypeOK /\ Listens /\ LiveServed
  /\ Sorts /\ OnePlace /\ Copies /\ Totals

--------------------------------------------------------------------------------
(* Types.                                                                          *)

\* More handlers may be bound, and what was of a type is of it.
LEMMA HandlersGrow ==
  ASSUME Len(handlers) \in Nat, Len(handlers)' \in Nat, Len(handlers) <= Len(handlers)'
  PROVE  /\ Handler \subseteq Handler' /\ Seq(Handler) \subseteq Seq(Handler')
         /\ EventFrame \subseteq EventFrame' /\ Seq(EventFrame) \subseteq Seq(EventFrame')
<1>1. 1..Len(handlers) \subseteq 1..Len(handlers)'
  OBVIOUS
<1>2. Handler \subseteq Handler'
  BY <1>1 DEF Handler
<1>3. Seq(Handler) \subseteq Seq(Handler')
  BY <1>2, SeqMonotonic
<1>4. EventFrame \subseteq EventFrame'
  BY <1>2, <1>3 DEF EventFrame
<1>5. QED
  BY <1>2, <1>3, <1>4, SeqMonotonic

Types ==
  /\ bound \in [Elements -> Seq(Handler)]
  /\ frames \in Seq(EventFrame)
  /\ handlers \in Seq([once : BOOLEAN, n : Nat, cut : BOOLEAN])

LEMMA TypesOf == EventsTypeOK => Types
  BY DEF EventsTypeOK, Types

\* What Keep leaves of an element.
LEMMA Keeping ==
  ASSUME Types, NEW e \in Elements, NEW L, L \subseteq DOMAIN bound[e]
  PROVE  /\ Pick(bound[e], L) \in Seq(Handler)
         /\ ToSet(Pick(bound[e], L)) = {bound[e][i] : i \in L}
         /\ \E m : Embeds(m, Pick(bound[e], L), bound[e])
<1>1. bound[e] \in Seq(Handler)
  BY DEF Types
<1>2. {bound[e][i] : i \in L} \subseteq ToSet(bound[e])
  BY DEF ToSet
<1> DEFINE kept == {bound[e][i] : i \in L}
<1>3. /\ Filter(bound[e], kept) \in Seq(Handler)
      /\ ToSet(Filter(bound[e], kept)) = ToSet(bound[e]) \cap kept
      /\ \E m : Embeds(m, Filter(bound[e], kept), bound[e])
  <2> HIDE DEF kept
  <2>1. QED
    BY <1>1, FilterType, FilterRange, FilterOrder
<1>4. QED
  BY <1>2, <1>3 DEF Pick

RemovesTo(new, e, G, named, L) ==
  /\ L \subseteq DOMAIN bound[e] \ G
  /\ new.bound = Pick(bound[e], L)
  /\ bound[e] # <<>> => new.listening = {bound[e][i].type : i \in L}
  /\ bound[e] = <<>> => new.listening = listening[e]
  /\ \A i \in (DOMAIN bound[e] \ G) \ L :
       /\ named /\ bound[e][i].fn = LiveHandler
       /\ \A j \in L : bound[e][j].orig # bound[e][i].type

\* What remove leaves: those of some places.
LEMMA Removing ==
  ASSUME Types, NEW e \in Elements, NEW G, G \subseteq DOMAIN bound[e], NEW named \in BOOLEAN
  PROVE  \E L : RemovesTo(remove(Of(e), G, named), e, G, named, L)
<1> DEFINE old == bound[e]
           left == DOMAIN old \ G
           over == {old[i].orig : i \in G} \ {old[i].orig : i \in left}
           Over(o) == named /\ o.fn = LiveHandler /\ o.type \in over
           new == remove(Of(e), G, named)
<1>1. Of(e).bound = old /\ Of(e).listening = listening[e]
  BY DEF Of
<1>2. old \in Seq(Handler)
  BY DEF Types
<1>3. CASE old = <<>>
  <2>1. new = [Of(e) EXCEPT !.cached = TRUE]
    BY <1>1, <1>3 DEF remove
  <2>2. new.bound = <<>> /\ new.listening = listening[e]
    BY <1>1, <1>3, <2>1 DEF Of
  <2>3. Pick(old, {}) = <<>>
    BY <1>3, FilterEmpty DEF Pick
  <2>4. DOMAIN old = {}
    BY <1>3
  <2>5. {} \in SUBSET left
    OBVIOUS
  <2>6. QED
    BY <1>3, <2>2, <2>3, <2>4, <2>5 DEF RemovesTo
<1>4. CASE old # <<>>
  <2> DEFINE L == {i \in left : ~ Over(old[i])}
  <2>1. new = Keep(Of(e), L)
    BY <1>1, <1>4 DEF remove
  <2>2. new.bound = Pick(old, L) /\ new.listening = {old[i].type : i \in L}
    BY <1>1, <2>1, SMTT(30) DEF Keep
  <2>3. ASSUME NEW i \in left \ L
        PROVE  /\ named /\ old[i].fn = LiveHandler
               /\ \A j \in L : old[j].orig # old[i].type
    <3>1. Over(old[i])
      BY <2>3
    <3>2. old[i].type \notin {old[j].orig : j \in left}
      BY <3>1
    <3>3. QED
      BY <3>1, <3>2
  <2>4. L \in SUBSET left
    OBVIOUS
  <2>5. QED
    <3> HIDE DEF L, Over, left, new, old
    <3>1. QED
      BY <1>4, <2>2, <2>3, <2>4 DEF left, new, old, RemovesTo
<1>5. QED
  BY <1>3, <1>4
\* Elements lose handlers and get none, and the rest of them stay in their order.
Shrink ==
  /\ bound' \in [Elements -> Seq(Handler)]
  /\ \A e \in Elements : \E m : Embeds(m, bound'[e], bound[e])

\* An element with some of its handlers.
LeftOf(e, G, named, L) ==
  /\ L \subseteq DOMAIN bound[e] \ G
  /\ ToSet(bound'[e]) = {bound[e][i] : i \in L}
  /\ \A x \in Elements \ {e} : bound'[x] = bound[x]
  /\ \A i \in (DOMAIN bound[e] \ G) \ L :
       /\ named /\ bound[e][i].fn = LiveHandler
       /\ \A j \in L : bound[e][j].orig # bound[e][i].type

LEMMA EmbedsItself ==
  ASSUME NEW T, NEW s, s \in Seq(T)
  PROVE  \E m : Embeds(m, s, s)
<1>1. Embeds([i \in 1..Len(s) |-> i], s, s)
  BY DEF Embeds
<1>2. QED
  BY <1>1

LEMMA StoreLeft ==
  ASSUME EventsTypeOK, Listens, NEW e \in Elements, NEW G, G \subseteq DOMAIN bound[e],
         NEW named \in BOOLEAN, Put(e, remove(Of(e), G, named))
  PROVE  /\ Shrink /\ Listens' /\ cache' \subseteq Elements
         /\ listening' \in [Elements -> SUBSET (EventTypes \cup {"live"})]
         /\ \E L : LeftOf(e, G, named, L)
<1> DEFINE new == remove(Of(e), G, named)
<1>1. Types
  BY TypesOf
<1>2. PICK L : RemovesTo(new, e, G, named, L)
  BY <1>1, Removing
<1> DEFINE s == Pick(bound[e], L)
<1>3. s \in Seq(Handler) /\ ToSet(s) = {bound[e][i] : i \in L} /\ \E m : Embeds(m, s, bound[e])
  BY <1>1, <1>2, Keeping DEF RemovesTo
<1>4. /\ bound' = [bound EXCEPT ![e] = new.bound]
      /\ listening' = [listening EXCEPT ![e] = new.listening]
      /\ cache' = cache \cup {e} \/ cache' = cache \ {e}
  BY DEF Put
<1> HIDE DEF new, s
<1>5. bound \in [Elements -> Seq(Handler)] /\ new.bound = s
  BY <1>1, <1>2 DEF Types, s, RemovesTo
<1>6. bound' \in [Elements -> Seq(Handler)]
  BY <1>3, <1>4, <1>5
<1>7. bound'[e] = s /\ \A x \in Elements \ {e} : bound'[x] = bound[x]
  BY <1>4, <1>5
<1>8. \A x \in Elements : \E m : Embeds(m, bound'[x], bound[x])
  <2>1. ASSUME NEW x \in Elements PROVE \E m : Embeds(m, bound'[x], bound[x])
    <3>1. CASE x = e
      BY <1>3, <1>7, <3>1
    <3>2. CASE x # e
      <4>1. bound'[x] = bound[x] /\ bound[x] \in Seq(Handler)
        BY <1>5, <1>7, <3>2
      <4>2. QED
        BY <4>1, EmbedsItself
    <3>3. QED
      BY <3>1, <3>2
  <2>2. QED
    BY <2>1
<1>9. LeftOf(e, G, named, L)
  BY <1>2, <1>3, <1>7 DEF LeftOf, RemovesTo
<1>10. listening \in [Elements -> SUBSET (EventTypes \cup {"live"})] /\ cache \subseteq Elements
  BY DEF EventsTypeOK
<1>11. new.listening = {o.type : o \in ToSet(s)}
  <2>1. CASE bound[e] # <<>>
    BY <1>2, <1>3, <2>1 DEF RemovesTo
  <2>2. CASE bound[e] = <<>>
    <3>1. DOMAIN bound[e] = {} /\ ToSet(bound[e]) = {}
      BY <2>2 DEF ToSet
    <3>2. ToSet(s) = {} /\ Objs(e) = {}
      BY <1>2, <1>3, <3>1 DEF Objs, RemovesTo
    <3>3. listening[e] = {}
      BY <3>2 DEF Listens
    <3>4. QED
      BY <1>2, <2>2, <3>2, <3>3 DEF RemovesTo
  <2>3. QED
    BY <2>1, <2>2
<1>12. \A x \in Elements : listening'[x] = {o.type : o \in ToSet(bound'[x])}
  <2>1. ASSUME NEW x \in Elements PROVE listening'[x] = {o.type : o \in ToSet(bound'[x])}
    <3>1. CASE x = e
      BY <1>4, <1>7, <1>10, <1>11, <3>1
    <3>2. CASE x # e
      BY <1>4, <1>7, <1>10, <3>2 DEF Listens, Objs
    <3>3. QED
      BY <3>1, <3>2
  <2>2. QED
    BY <2>1
<1>13. Listens'
  BY <1>12 DEF Listens, Objs
<1>14. \A o \in ToSet(s) : o.type \in EventTypes \cup {"live"}
  <2>1. ToSet(s) \subseteq Handler
    BY <1>3, ToSetType
  <2>2. QED
    BY <2>1 DEF Handler
<1>15. listening' \in [Elements -> SUBSET (EventTypes \cup {"live"})]
  BY <1>4, <1>10, <1>11, <1>14
<1>16. QED
  BY <1>4, <1>6, <1>8, <1>9, <1>10, <1>13, <1>15 DEF Shrink
--------------------------------------------------------------------------------
(* Handlers go.                                                                    *)

SameOnce ==
  /\ DOMAIN handlers' = DOMAIN handlers
  /\ \A id \in DOMAIN handlers : handlers'[id].once = handlers[id].once

\* What was cut off stays cut off.
CutStays == \A id \in DOMAIN handlers : handlers[id].cut => handlers'[id].cut

LEMMA EmbedsRange ==
  ASSUME NEW T, NEW s, s \in Seq(T), NEW t, t \in Seq(T), NEW m, Embeds(m, s, t)
  PROVE  ToSet(s) \subseteq ToSet(t)
<1>1. DOMAIN s = 1..Len(s) /\ DOMAIN t = 1..Len(t)
  BY LenProperties
<1>2. \A i \in 1..Len(s) : m[i] \in 1..Len(t) /\ s[i] = t[m[i]]
  BY DEF Embeds
<1>3. QED
  BY <1>1, <1>2 DEF ToSet

LEMMA FewerObjs ==
  ASSUME Types, Shrink, NEW e \in Elements
  PROVE  ToSet(bound'[e]) \subseteq Objs(e)
<1>1. bound[e] \in Seq(Handler) /\ bound'[e] \in Seq(Handler)
  BY DEF Types, Shrink
<1>2. PICK m : Embeds(m, bound'[e], bound[e])
  BY DEF Shrink
<1>3. QED
  BY <1>1, <1>2, EmbedsRange DEF Objs

LEMMA IdOfObj ==
  ASSUME Types, NEW e \in Elements, NEW o \in Objs(e)
  PROVE  o \in Handler /\ o.id \in DOMAIN handlers
<1>1. bound[e] \in Seq(Handler)
  BY DEF Types
<1>2. o \in Handler
  BY <1>1, ToSetType DEF Objs
<1>3. DOMAIN handlers = 1..Len(handlers)
  BY LenProperties DEF Types
<1>4. QED
  BY <1>2, <1>3 DEF Handler

LEMMA KindsLeft ==
  ASSUME Types, Shrink, SameOnce, Sorts
  PROVE  Sorts'
<1>1. ASSUME NEW e \in Elements, NEW o \in ToSet(bound'[e])
      PROVE  /\ o.once = handlers'[o.id].once
             /\ o.type = "live" => ~ o.once /\ o.fn \in Fns /\ o.ns = ""
             /\ o.type # "live" => o.orig = Null
             /\ o.fn = LiveHandler => ~ o.once /\ o.type # "live" /\ o.ns = ""
  <2>1. o \in Objs(e)
    BY FewerObjs
  <2>2. o.id \in DOMAIN handlers
    BY <2>1, IdOfObj
  <2>3. QED
    BY <2>1, <2>2 DEF Sorts, SameOnce
<1>2. QED
  BY <1>1 DEF Sorts, Objs

LEMMA OnePlaceLeft ==
  ASSUME Types, Shrink, SameOnce, OnePlace
  PROVE  OnePlace'
<1>1. SUFFICES ASSUME NEW e \in Elements, NEW x \in Elements,
                      NEW i \in DOMAIN bound'[e], NEW j \in DOMAIN bound'[x],
                      bound'[e][i].id = bound'[x][j].id, handlers'[bound'[e][i].id].once
               PROVE  e = x /\ i = j
  BY DEF OnePlace, IsOnce
<1>2. /\ bound[e] \in Seq(Handler) /\ bound'[e] \in Seq(Handler)
      /\ bound[x] \in Seq(Handler) /\ bound'[x] \in Seq(Handler)
  BY DEF Types, Shrink
<1> DEFINE at(y) == CHOOSE m : Embeds(m, bound'[y], bound[y])
<1>3. Embeds(at(e), bound'[e], bound[e])
  BY DEF Shrink
<1>4. Embeds(at(x), bound'[x], bound[x])
  BY DEF Shrink
<1> HIDE DEF at
<1>5. i \in 1..Len(bound'[e]) /\ j \in 1..Len(bound'[x])
  BY <1>2, LenProperties
<1>6. at(e)[i] \in DOMAIN bound[e] /\ bound'[e][i] = bound[e][at(e)[i]]
  BY <1>2, <1>3, <1>5, LenProperties DEF Embeds
<1>7. at(x)[j] \in DOMAIN bound[x] /\ bound'[x][j] = bound[x][at(x)[j]]
  BY <1>2, <1>4, <1>5, LenProperties DEF Embeds
<1>8. IsOnce(bound[e][at(e)[i]].id)
  <2>1. bound[e][at(e)[i]] \in Objs(e)
    BY <1>6 DEF Objs, ToSet
  <2>2. bound[e][at(e)[i]].id \in DOMAIN handlers
    BY <2>1, IdOfObj
  <2>3. QED
    BY <1>1, <1>6, <2>2 DEF SameOnce, IsOnce
<1>9. bound[e][at(e)[i]].id = bound[x][at(x)[j]].id
  BY <1>1, <1>6, <1>7
<1>10. e = x /\ at(e)[i] = at(x)[j]
  BY <1>6, <1>7, <1>8, <1>9 DEF OnePlace
<1>11. ~ (i < j) /\ ~ (j < i)
  BY <1>3, <1>5, <1>10 DEF Embeds
<1>12. i \in Int /\ j \in Int
  BY <1>5
<1>13. QED
  BY <1>10, <1>11, <1>12
LEMMA LeftObjs ==
  ASSUME Types, NEW f \in EventFrame, NEW o \in ToSet(f.left)
  PROVE  o \in Handler /\ o.id \in DOMAIN handlers
<1>1. f.left \in Seq(Handler)
  BY DEF EventFrame
<1>2. o \in Handler
  BY <1>1, ToSetType
<1>3. DOMAIN handlers = 1..Len(handlers)
  BY LenProperties DEF Types
<1>4. QED
  BY <1>2, <1>3 DEF Handler

LEMMA CopyLeft ==
  ASSUME Types, Shrink, SameOnce, NEW f \in EventFrame, Copy(f, handlers, bound)
  PROVE  Copy(f, handlers', bound')
<1>1. f.left \in Seq(Handler)
  BY DEF EventFrame
<1>2. ASSUME NEW o \in ToSet(f.left)
      PROVE  handlers'[o.id].once = handlers[o.id].once
  BY LeftObjs DEF SameOnce
<1>3. ASSUME NEW i \in DOMAIN f.left, NEW j \in DOMAIN f.left,
             f.left[i].id = f.left[j].id, handlers'[f.left[i].id].once
      PROVE  i = j
  <2>1. f.left[i] \in ToSet(f.left)
    BY DEF ToSet
  <2>2. handlers[f.left[i].id].once
    BY <1>2, <1>3, <2>1
  <2>3. QED
    BY <1>3, <2>2 DEF Copy
<1>4. ASSUME NEW o \in ToSet(f.left)
      PROVE  /\ o.once = handlers'[o.id].once
             /\ handlers'[o.id].once =>
                  /\ o.type = f.type
                  /\ \A e \in Elements : \A x \in ToSet(bound'[e]) :
                       x.id = o.id => e = f.cur /\ x = o
  <2>1. o.once = handlers[o.id].once
    BY DEF Copy
  <2>2. ASSUME handlers[o.id].once, NEW e \in Elements, NEW x \in ToSet(bound'[e]), x.id = o.id
        PROVE  e = f.cur /\ x = o
    <3>1. x \in ToSet(bound[e])
      BY FewerObjs DEF Objs
    <3>2. QED
      BY <2>2, <3>1 DEF Copy
  <2>3. handlers[o.id].once => o.type = f.type
    BY DEF Copy
  <2>4. handlers'[o.id].once = handlers[o.id].once
    BY <1>2
  <2>5. QED
    BY <2>1, <2>2, <2>3, <2>4
<1>5. QED
  BY <1>3, <1>4 DEF Copy

\* liveHandler stays where handlers of live are left that it serves.
Served(e, G) ==
  \A i \in G : bound[e][i].fn = LiveHandler =>
    \A j \in DOMAIN bound[e] \ G :
      /\ bound[e][j].type = "live" /\ bound[e][j].orig = bound[e][i].type
      => handlers'[bound[e][j].id].cut

LEMMA LiveServedLeft ==
  ASSUME Types, CutStays, LiveServed, NEW e \in Elements, NEW G, G \subseteq DOMAIN bound[e],
         NEW named, NEW L, LeftOf(e, G, named, L), Served(e, G)
  PROVE  LiveServed'
<1>1. ASSUME NEW x \in Elements, NEW o \in ToSet(bound'[x]), o.type = "live",
             ~ handlers'[o.id].cut
      PROVE  \E h \in ToSet(bound'[x]) : h.fn = LiveHandler /\ h.type = o.orig
  <2>1. CASE x # e
    <3>1. bound'[x] = bound[x]
      BY <2>1 DEF LeftOf
    <3>2. o \in Objs(x)
      BY <1>1, <3>1 DEF Objs
    <3>3. ~ handlers[o.id].cut
      BY <1>1, <3>2, IdOfObj, Zenon DEF CutStays
    <3>4. \E h \in Objs(x) : h.fn = LiveHandler /\ h.type = o.orig
      BY <1>1, <3>2, <3>3, Zenon DEF LiveServed
    <3>5. QED
      BY <3>1, <3>4 DEF Objs
  <2>2. CASE x = e
    <3>1. PICK j \in L : o = bound[e][j]
      BY <2>2 DEF LeftOf
    <3>2. j \in DOMAIN bound[e] \ G
      BY DEF LeftOf
    <3>3. o \in Objs(e) /\ ~ handlers[o.id].cut
      <4>1. o \in Objs(e)
        BY <3>1, <3>2 DEF Objs, ToSet
      <4>2. QED
        BY <1>1, <4>1, IdOfObj, Zenon DEF CutStays
    <3>4. PICK h \in Objs(e) : h.fn = LiveHandler /\ h.type = o.orig
      BY <1>1, <3>3, Zenon DEF LiveServed
    <3>5. PICK i \in DOMAIN bound[e] : h = bound[e][i]
      BY <3>4 DEF Objs, ToSet
    <3>6. i \notin G
      BY <1>1, <3>1, <3>2, <3>4, <3>5 DEF Served
    <3>7. i \in L
      BY <3>1, <3>4, <3>5, <3>6 DEF LeftOf
    <3>8. h \in ToSet(bound'[e])
      BY <3>5, <3>7 DEF LeftOf
    <3>9. QED
      BY <2>2, <3>4, <3>8
  <2>3. QED
    BY <2>1, <2>2
<1>2. QED
  BY <1>1 DEF LiveServed, Objs

--------------------------------------------------------------------------------
(* Calls.                                                                          *)

LEMMA SomeOfInterval ==
  ASSUME NEW n, n \in Nat, NEW S, S \subseteq 1..n
  PROVE  IsFiniteSet(S) /\ Cardinality(S) \in Nat /\ Cardinality(S) <= n
<1>1. IsFiniteSet(1..n) /\ Cardinality(1..n) = n
  <2>1. 1 \in Int /\ n \in Int
    OBVIOUS
  <2>2. IsFiniteSet(1..n) /\ Cardinality(1..n) = IF 1 > n THEN 0 ELSE n - 1 + 1
    BY <2>1, FS_Interval
  <2>3. QED
    BY <2>2
<1>2. IsFiniteSet(S) /\ Cardinality(S) <= Cardinality(1..n)
  BY <1>1, FS_Subset
<1>3. QED
  BY <1>1, <1>2, FS_CardinalityType

\* A handler is called again only if an event has a copy of it, and an event takes one only
\* of a handler that is bound.
LEMMA CountsKept ==
  ASSUME EventsTypeOK, EventsTypeOK', Totals, SameOnce,
         \A id \in DOMAIN handlers : handlers'[id].n = handlers[id].n,
         \A e \in Elements : Objs(e)' \subseteq Objs(e),
         \A id \in DOMAIN handlers :
           IsOnce(id) => \/ \E e \in Elements : \E o \in Objs(e) : o.id = id
                         \/ Copied(id)' \subseteq Copied(id)
  PROVE  Totals'
<1>1. SUFFICES ASSUME NEW id \in DOMAIN handlers, IsOnce(id)
               PROVE  /\ (\E e \in Elements : \E o \in Objs(e)' : o.id = id) => handlers[id].n = 0
                      /\ handlers[id].n + Cardinality(Copied(id)') <= MaxNested
  BY DEF Totals, IsOnce, SameOnce
<1>2. (\E e \in Elements : \E o \in Objs(e)' : o.id = id) => handlers[id].n = 0
  BY <1>1 DEF Totals
<1>3. handlers[id] \in [once : BOOLEAN, n : Nat, cut : BOOLEAN]
  <2>1. handlers \in Seq([once : BOOLEAN, n : Nat, cut : BOOLEAN])
    BY DEF EventsTypeOK
  <2>2. QED
    BY <2>1, LenProperties, ElementOfSeq
<1>4. /\ DOMAIN frames = 1..Len(frames) /\ Len(frames) \in Nat /\ Len(frames) <= MaxNested
      /\ DOMAIN frames' = 1..Len(frames') /\ Len(frames') \in Nat /\ Len(frames') <= MaxNested
  BY LenProperties DEF EventsTypeOK
<1>5. Copied(id) \subseteq 1..Len(frames) /\ Copied(id)' \subseteq 1..Len(frames')
  BY <1>4 DEF Copied
<1> DEFINE old == Copied(id)
           new == Copied(id)'
           k == Len(frames')
           n == handlers[id].n
<1>6. /\ IsFiniteSet(old) /\ Cardinality(old) \in Nat
      /\ Cardinality(new) \in Nat /\ Cardinality(new) <= k
  BY <1>4, <1>5, SomeOfInterval
<1>7. n \in Nat /\ MaxNested \in Nat /\ k \in Nat /\ k <= MaxNested
  BY <1>3, <1>4, EventsAssumption DEF EventsAssumption
<1>8. CASE \E e \in Elements : \E o \in Objs(e) : o.id = id
  <2>1. n = 0
    BY <1>1, <1>8 DEF Totals
  <2>2. n + Cardinality(new) <= MaxNested
    <3> HIDE DEF n, new, k
    <3>1. QED
      BY <1>6, <1>7, <2>1
  <2>3. QED
    BY <1>2, <2>2
<1>9. CASE new \subseteq old
  <2>1. Cardinality(new) <= Cardinality(old)
    BY <1>6, <1>9, FS_Subset
  <2>2. n + Cardinality(old) <= MaxNested
    BY <1>1 DEF Totals
  <2>3. n + Cardinality(new) <= MaxNested
    <3> HIDE DEF n, new, old, k
    <3>1. QED
      BY <1>6, <1>7, <2>1, <2>2
  <2>4. QED
    BY <1>2, <2>3
<1>10. QED
  BY <1>1, <1>8, <1>9
--------------------------------------------------------------------------------
(* The stack of events.                                                            *)

LEMMA Replaced ==
  ASSUME NEW F, frames \in Seq(F), frames # <<>>, NEW g, frames' = <<g>> \o Tail(frames)
  PROVE  /\ Len(frames') = Len(frames) /\ Len(frames) \in Nat \ {0}
         /\ DOMAIN frames = 1..Len(frames) /\ DOMAIN frames' = 1..Len(frames)
         /\ frames'[1] = g /\ \A k \in 2..Len(frames) : frames'[k] = frames[k]
<1>1. Len(frames) \in Nat \ {0} /\ DOMAIN frames = 1..Len(frames)
  BY EmptySeq, LenProperties
<1> DEFINE t == Tail(frames)
           u == <<g>> \o t
<1>2. /\ t \in Seq(F) /\ Len(t) = Len(frames) - 1
      /\ \A k \in 1..Len(t) : t[k] = frames[k + 1]
  BY <1>1, HeadTailProperties
<1>3. /\ Len(u) = 1 + Len(t) /\ u[1] = g /\ DOMAIN u = 1..1 + Len(t)
      /\ \A k \in 2..1 + Len(t) : u[k] = t[k - 1]
  <2> HIDE DEF t
  <2>1. t \in Seq(F \cup {g}) /\ <<g>> \in Seq(F \cup {g})
    BY <1>2
  <2>2. Len(<<g>>) = 1
    OBVIOUS
  <2>3. QED
    BY <2>1, <2>2, ConcatProperties
<1> HIDE DEF t, u
<1>4. \A k \in 2..Len(frames) : k - 1 \in 1..Len(t) /\ (k - 1) + 1 = k /\ k \in 2..1 + Len(t)
  BY <1>1, <1>2
<1>5. frames' = u /\ 1 + Len(t) = Len(frames)
  BY <1>1, <1>2 DEF u, t
<1>6. \A k \in 2..Len(frames) : u[k] = frames[k]
  BY <1>2, <1>3, <1>4
<1>7. QED
  BY <1>1, <1>3, <1>5, <1>6

LEMMA Popped ==
  ASSUME NEW F, frames \in Seq(F), frames # <<>>, frames' = Tail(frames)
  PROVE  /\ Len(frames') = Len(frames) - 1 /\ Len(frames) \in Nat \ {0} /\ frames' \in Seq(F)
         /\ DOMAIN frames = 1..Len(frames) /\ DOMAIN frames' = 1..Len(frames) - 1
         /\ \A k \in 1..Len(frames) - 1 : frames'[k] = frames[k + 1]
<1>1. Len(frames) \in Nat \ {0} /\ DOMAIN frames = 1..Len(frames)
  BY EmptySeq, LenProperties
<1>2. /\ frames' \in Seq(F) /\ Len(frames') = Len(frames) - 1
      /\ \A k \in 1..Len(frames') : frames'[k] = frames[k + 1]
  BY <1>1, HeadTailProperties
<1>3. QED
  BY <1>1, <1>2, LenProperties

LEMMA Pushed ==
  ASSUME NEW F, frames \in Seq(F), NEW g, frames' = <<g>> \o frames
  PROVE  /\ Len(frames') = Len(frames) + 1 /\ Len(frames) \in Nat
         /\ DOMAIN frames = 1..Len(frames) /\ DOMAIN frames' = 1..Len(frames) + 1
         /\ frames'[1] = g /\ \A k \in 1..Len(frames) : frames'[k + 1] = frames[k]
<1>1. Len(frames) \in Nat /\ DOMAIN frames = 1..Len(frames)
  BY LenProperties
<1> DEFINE u == <<g>> \o frames
<1>2. /\ Len(u) = 1 + Len(frames) /\ u[1] = g /\ DOMAIN u = 1..1 + Len(frames)
      /\ \A k \in 2..1 + Len(frames) : u[k] = frames[k - 1]
  <2>1. frames \in Seq(F \cup {g}) /\ <<g>> \in Seq(F \cup {g})
    BY SeqMonotonic
  <2>2. Len(<<g>>) = 1
    OBVIOUS
  <2>3. QED
    BY <1>1, <2>1, <2>2, ConcatProperties
<1> HIDE DEF u
<1>3. \A k \in 1..Len(frames) : k + 1 \in 2..1 + Len(frames) /\ (k + 1) - 1 = k
  BY <1>1
<1>4. \A k \in 1..Len(frames) : u[k + 1] = frames[k]
  BY <1>2, <1>3
<1>5. frames' = u
  BY DEF u
<1>6. QED
  BY <1>1, <1>2, <1>4, <1>5

HasId(f, id) == \E o \in ToSet(f.left) : o.id = id

LEMMA CopiedReplaced ==
  ASSUME frames \in Seq(EventFrame), frames # <<>>, NEW g, frames' = <<g>> \o Tail(frames),
         NEW id, HasId(g, id) => HasId(Head(frames), id)
  PROVE  Copied(id)' \subseteq Copied(id)
<1> DEFINE n == Len(frames)
<1>1. /\ Len(frames') = n /\ n \in Nat \ {0} /\ DOMAIN frames = 1..n /\ DOMAIN frames' = 1..n
      /\ frames'[1] = g /\ \A k \in 2..n : frames'[k] = frames[k]
  BY Replaced
<1>2. Head(frames) = frames[1]
  OBVIOUS
<1>3. ASSUME NEW d \in 1..n, HasId(frames'[n + 1 - d], id) PROVE HasId(frames[n + 1 - d], id)
  <2>1. n + 1 - d = 1 \/ n + 1 - d \in 2..n
    BY <1>1
  <2>2. CASE n + 1 - d = 1
    BY <1>1, <1>2, <1>3, <2>2
  <2>3. CASE n + 1 - d \in 2..n
    BY <1>1, <1>3, <2>3
  <2>4. QED
    BY <2>1, <2>2, <2>3
<1>4. QED
  BY <1>1, <1>3 DEF Copied, Depth, HasId

LEMMA CopiedPopped ==
  ASSUME frames \in Seq(EventFrame), frames # <<>>, frames' = Tail(frames), NEW id
  PROVE  Copied(id)' \subseteq Copied(id)
<1> DEFINE n == Len(frames)
<1>1. /\ Len(frames') = n - 1 /\ n \in Nat \ {0} /\ DOMAIN frames = 1..n
      /\ DOMAIN frames' = 1..n - 1 /\ \A k \in 1..n - 1 : frames'[k] = frames[k + 1]
  BY Popped
<1>2. \A d \in 1..n - 1 :
        /\ d \in 1..n /\ (n - 1) + 1 - d \in 1..n - 1 /\ ((n - 1) + 1 - d) + 1 = n + 1 - d
  BY <1>1
<1>3. \A d \in 1..n - 1 : frames'[(n - 1) + 1 - d] = frames[n + 1 - d]
  BY <1>1, <1>2
<1>4. QED
  BY <1>1, <1>2, <1>3 DEF Copied, Depth

LEMMA CopiedPushed ==
  ASSUME frames \in Seq(EventFrame), NEW g, frames' = <<g>> \o frames, NEW id, ~ HasId(g, id)
  PROVE  Copied(id)' \subseteq Copied(id)
<1> DEFINE n == Len(frames)
<1>1. /\ Len(frames') = n + 1 /\ n \in Nat /\ DOMAIN frames = 1..n
      /\ DOMAIN frames' = 1..n + 1
      /\ frames'[1] = g /\ \A k \in 1..n : frames'[k + 1] = frames[k]
  BY Pushed
<1>2. ASSUME NEW d \in 1..n + 1, HasId(frames'[(n + 1) + 1 - d], id)
      PROVE  d \in 1..n /\ HasId(frames[n + 1 - d], id)
  <2>1. d # n + 1
    <3>1. ASSUME d = n + 1 PROVE FALSE
      <4>1. (n + 1) + 1 - d = 1
        BY <1>1, <3>1
      <4>2. HasId(frames'[1], id)
        BY <1>2, <4>1
      <4>3. QED
        BY <1>1, <4>2
    <3>2. QED
      BY <3>1
  <2>2. d \in 1..n /\ n + 1 - d \in 1..n /\ (n + 1 - d) + 1 = (n + 1) + 1 - d
    BY <1>1, <2>1
  <2>3. QED
    BY <1>1, <1>2, <2>2
<1>3. QED
  BY <1>1, <1>2 DEF Copied, Depth, HasId

--------------------------------------------------------------------------------
(* Copies.                                                                         *)

\* An event with some of the handlers that were left there.
LEMMA FewerLeft ==
  ASSUME NEW f, f \in EventFrame, NEW g, g \in EventFrame, g.cur = f.cur, g.type = f.type,
         NEW m, Embeds(m, g.left, f.left)
  PROVE  /\ \A of, in : Copy(f, of, in) => Copy(g, of, in)
         /\ \A id : HasId(g, id) => HasId(f, id)
<1>1. f.left \in Seq(Handler) /\ g.left \in Seq(Handler)
  BY DEF EventFrame
<1>2. ToSet(g.left) \subseteq ToSet(f.left)
  BY <1>1, EmbedsRange
<1>3. DOMAIN f.left = 1..Len(f.left) /\ DOMAIN g.left = 1..Len(g.left)
  BY <1>1, LenProperties
<1>4. ASSUME NEW of, NEW in, Copy(f, of, in) PROVE Copy(g, of, in)
  <2>1. ASSUME NEW i \in DOMAIN g.left, NEW j \in DOMAIN g.left,
               g.left[i].id = g.left[j].id, of[g.left[i].id].once
        PROVE  i = j
    <3>1. /\ m[i] \in DOMAIN f.left /\ g.left[i] = f.left[m[i]]
          /\ m[j] \in DOMAIN f.left /\ g.left[j] = f.left[m[j]]
      BY <1>3 DEF Embeds
    <3>2. m[i] = m[j]
      BY <1>4, <2>1, <3>1 DEF Copy
    <3>3. ~ (i < j) /\ ~ (j < i)
      BY <1>3, <3>1, <3>2 DEF Embeds
    <3>4. i \in Int /\ j \in Int
      BY <1>3
    <3>5. QED
      BY <3>3, <3>4
  <2>2. QED
    BY <1>2, <1>4, <2>1 DEF Copy
<1>5. QED
  BY <1>2, <1>4 DEF HasId

\* An event with handlers of live before those that were left there.
LEMMA MoreLeft ==
  ASSUME NEW f, f \in EventFrame, NEW g, g.cur = f.cur, g.type = f.type,
         NEW c, c \in Seq(Handler), g.left = c \o f.left,
         NEW of, NEW in, Copy(f, of, in),
         \A o \in ToSet(c) : o.once = of[o.id].once /\ ~ of[o.id].once
  PROVE  /\ Copy(g, of, in)
         /\ \A id : HasId(g, id) /\ of[id].once => HasId(f, id)
<1>1. f.left \in Seq(Handler)
  BY DEF EventFrame
<1> DEFINE k == Len(c)
           l == Len(f.left)
<1>2. /\ k \in Nat /\ l \in Nat /\ DOMAIN f.left = 1..l /\ DOMAIN g.left = 1..k + l
      /\ \A i \in 1..k + l : g.left[i] = IF i <= k THEN c[i] ELSE f.left[i - k]
  <2>1. Len(g.left) = k + l /\ g.left \in Seq(Handler)
    BY <1>1, ConcatProperties
  <2>2. QED
    BY <1>1, <2>1, ConcatProperties, LenProperties
<1>3. ToSet(g.left) = ToSet(c) \cup ToSet(f.left)
  BY <1>1, ToSetConcat
<1>4. ASSUME NEW i \in 1..k + l, of[g.left[i].id].once
      PROVE  i - k \in 1..l /\ g.left[i] = f.left[i - k]
  <2>1. ~ (i <= k)
    <3>1. ASSUME i <= k PROVE FALSE
      <4>1. i \in 1..k /\ g.left[i] = c[i]
        BY <1>2, <3>1
      <4>2. c[i] \in ToSet(c)
        BY <4>1, LenProperties DEF ToSet
      <4>3. QED
        BY <1>4, <4>1, <4>2
    <3>2. QED
      BY <3>1
  <2>2. i - k \in 1..l
    BY <1>2, <2>1
  <2>3. QED
    BY <1>2, <2>1, <2>2
<1>5. ASSUME NEW i \in DOMAIN g.left, NEW j \in DOMAIN g.left,
             g.left[i].id = g.left[j].id, of[g.left[i].id].once
      PROVE  i = j
  <2>1. i \in 1..k + l /\ j \in 1..k + l /\ of[g.left[j].id].once
    BY <1>2, <1>5
  <2>2. i - k \in 1..l /\ g.left[i] = f.left[i - k]
    BY <1>4, <1>5, <2>1
  <2>3. j - k \in 1..l /\ g.left[j] = f.left[j - k]
    BY <1>4, <2>1
  <2>4. i - k = j - k
    BY <1>2, <1>5, <2>2, <2>3 DEF Copy
  <2>5. QED
    BY <1>2, <2>1, <2>4
<1>6. ASSUME NEW o \in ToSet(g.left)
      PROVE  /\ o.once = of[o.id].once
             /\ of[o.id].once =>
                  /\ o.type = g.type
                  /\ \A e \in Elements : \A x \in ToSet(in[e]) : x.id = o.id => e = g.cur /\ x = o
  <2>1. CASE o \in ToSet(c)
    BY <2>1
  <2>2. CASE o \in ToSet(f.left)
    BY <2>2 DEF Copy
  <2>3. QED
    BY <1>3, <2>1, <2>2
<1>7. Copy(g, of, in)
  BY <1>5, <1>6 DEF Copy
<1>8. ASSUME NEW id, HasId(g, id), of[id].once PROVE HasId(f, id)
  BY <1>3, <1>8 DEF HasId
<1>9. QED
  BY <1>7, <1>8

\* The copy that handle takes.
LEMMA Arriving ==
  ASSUME Types, Sorts, OnePlace, NEW f, f \in EventFrame, NEW e, e \in Elements
  PROVE  /\ Arrive(f, e) \in EventFrame
         /\ Copy(Arrive(f, e), handlers, bound)
         /\ \A id : HasId(Arrive(f, e), id) => \E o \in Objs(e) : o.id = id
<1> DEFINE g == Arrive(f, e)
           Mine(o) == o.type = f.type /\ (f.ns = "" \/ o.ns = f.ns)
           mine == {o \in Objs(e) : Mine(o)}
<1>1. bound[e] \in Seq(Handler) /\ DOMAIN bound[e] = 1..Len(bound[e])
  BY LenProperties DEF Types
<1>2. PICK kept : /\ g.left = Filter(bound[e], kept) /\ g.cur = e /\ g.type = f.type
                  /\ \A o \in ToSet(bound[e]) \cap kept : o.type = f.type
                  /\ g.ns \in {f.ns, ""}
                  /\ g = [f EXCEPT !.cur = e, !.ns = g.ns, !.left = g.left]
  <2>1. CASE bound[e] = <<>>
    <3>1. g = [f EXCEPT !.cur = e, !.left = <<>>]
      BY <2>1 DEF Arrive
    <3>2. /\ g.left = <<>> /\ g.cur = e /\ g.type = f.type /\ g.ns = f.ns
          /\ g = [f EXCEPT !.cur = e, !.ns = g.ns, !.left = g.left]
      BY <3>1 DEF EventFrame
    <3>3. Filter(bound[e], {}) = <<>>
      BY <2>1, FilterEmpty
    <3> HIDE DEF g
    <3>4. QED
      BY <3>2, <3>3
  <2>2. CASE bound[e] # <<>>
    <3>1. g = [f EXCEPT !.cur = e, !.ns = "", !.left = Filter(bound[e], mine)]
      BY <2>2 DEF Arrive, Those, Objs
    <3> HIDE DEF mine, g
    <3>2. /\ g.left = Filter(bound[e], mine) /\ g.cur = e /\ g.type = f.type /\ g.ns = ""
          /\ g = [f EXCEPT !.cur = e, !.ns = g.ns, !.left = g.left]
      BY <3>1 DEF EventFrame
    <3>3. \A o \in mine : o.type = f.type
      BY DEF mine
    <3>4. QED
      BY <3>2, <3>3
  <2>3. QED
    BY <2>1, <2>2
<1> HIDE DEF g, mine
<1>3. g.left \in Seq(Handler) /\ ToSet(g.left) = ToSet(bound[e]) \cap kept
  <2>1. Filter(bound[e], kept) \in Seq(Handler)
    BY <1>1, FilterType
  <2>2. ToSet(Filter(bound[e], kept)) = ToSet(bound[e]) \cap kept
    BY <1>1, FilterRange
  <2>3. QED
    BY <1>2, <2>1, <2>2
<1>4. g \in EventFrame
  BY <1>2, <1>3 DEF EventFrame
<1>5. DOMAIN g.left = 1..Len(g.left)
  BY <1>3, LenProperties
<1>6. PICK m : Embeds(m, g.left, bound[e])
  <2>1. \E m : Embeds(m, Filter(bound[e], kept), bound[e])
    BY <1>1, FilterOrder
  <2>2. g.left = Filter(bound[e], kept)
    BY <1>2
  <2>3. QED
    BY <2>1, <2>2, Zenon
<1>7. ASSUME NEW i \in DOMAIN g.left, NEW j \in DOMAIN g.left,
             g.left[i].id = g.left[j].id, handlers[g.left[i].id].once
      PROVE  i = j
  <2>1. /\ m[i] \in DOMAIN bound[e] /\ g.left[i] = bound[e][m[i]]
        /\ m[j] \in DOMAIN bound[e] /\ g.left[j] = bound[e][m[j]]
    BY <1>1, <1>5, <1>6 DEF Embeds
  <2>2. m[i] = m[j]
    BY <1>7, <2>1 DEF OnePlace, IsOnce
  <2>3. ~ (i < j) /\ ~ (j < i)
    BY <1>5, <1>6, <2>2 DEF Embeds
  <2>4. i \in Int /\ j \in Int
    BY <1>5
  <2>5. QED
    BY <2>3, <2>4
<1>8. ASSUME NEW o \in ToSet(g.left)
      PROVE  /\ o.once = handlers[o.id].once /\ o.type = g.type
             /\ handlers[o.id].once =>
                  \A y \in Elements : \A x \in ToSet(bound[y]) : x.id = o.id => y = g.cur /\ x = o
  <2>1. o \in Objs(e) /\ o.type = f.type
    BY <1>2, <1>3 DEF Objs
  <2>2. ASSUME handlers[o.id].once, NEW y \in Elements, NEW x \in ToSet(bound[y]), x.id = o.id
        PROVE  y = e /\ x = o
    <3>1. PICK i \in DOMAIN bound[e] : o = bound[e][i]
      BY <2>1 DEF Objs, ToSet
    <3>2. PICK j \in DOMAIN bound[y] : x = bound[y][j]
      BY DEF ToSet
    <3>3. y = e /\ j = i
      BY <2>2, <3>1, <3>2 DEF OnePlace, IsOnce
    <3>4. QED
      BY <3>1, <3>2, <3>3
  <2>3. QED
    BY <1>2, <2>1, <2>2 DEF Sorts
<1>9. Copy(g, handlers, bound)
  BY <1>7, <1>8 DEF Copy
<1>10. \A id : HasId(g, id) => \E o \in Objs(e) : o.id = id
  BY <1>3 DEF HasId, Objs
<1>11. QED
  BY <1>4, <1>9, <1>10 DEF g

\* The element that closest finds.
LEMMA ClosestType ==
  ASSUME NEW target, target \in Elements, NEW sel, NEW context
  PROVE  Closest(target, sel, context) \in Elements \cup {Null}
<1> DEFINE hits == Filter(Path[target], (Matches[sel] \cap Below(context)) \ {context})
<1>1. Path[target] \in Seq(Elements)
  BY EventsAssumption DEF EventsAssumption
<1>2. hits \in Seq(Elements)
  BY <1>1, FilterType
<1>3. hits # <<>> => Head(hits) \in Elements
  <2> HIDE DEF hits
  <2>1. QED
    BY <1>2
<1>4. Closest(target, sel, context) = IF hits = <<>> THEN Null ELSE Head(hits)
  BY DEF Closest
<1>5. QED
  <2> HIDE DEF hits
  <2>1. QED
    BY <1>3, <1>4

\* Handlers that were not bound with one.
Repeated == {o \in Handler : o.once = handlers[o.id].once /\ ~ handlers[o.id].once}

\* What liveHandler calls is of no one.
LEMMA LiveCallsRepeat ==
  ASSUME Types, Sorts, NEW f, f \in EventFrame
  PROVE  LiveCalls(f) \in Seq(Repeated)
<1> DEFINE Asked(o) == o.type = "live" /\ o.orig = f.type
           asked == {o \in ToSet(bound[f.cur]) : Asked(o)}
           entries == Filter(bound[f.cur], asked)
           Up(i) == Closest(f.target, entries[i].sel, f.cur)
           found == [i \in DOMAIN entries |-> [entries[i] EXCEPT !.at = Up(i)]]
           path == Path[f.target]
           Here(i) == {o \in ToSet(found) : o.at = path[i]}
           parts == [i \in DOMAIN path |-> Filter(found, Here(i))]
<1>1. f.cur \in Elements /\ f.target \in Elements
  BY DEF EventFrame
<1>2. bound[f.cur] \in Seq(Handler)
  BY <1>1 DEF Types
<1>3. entries \in Seq(Handler) /\ ToSet(entries) \subseteq asked
  <2> HIDE DEF asked
  <2>1. entries \in Seq(Handler)
    BY <1>2, FilterType
  <2>2. ToSet(entries) = ToSet(bound[f.cur]) \cap asked
    BY <1>2, FilterRange
  <2>3. QED
    BY <2>1, <2>2
<1>4. \A i : Up(i) \in Elements \cup {Null}
  BY <1>1, ClosestType
<1>5. LiveCalls(f) = FlattenSeq(parts)
  BY DEF LiveCalls, Those
<1>6. DOMAIN entries = 1..Len(entries) /\ Len(entries) \in Nat
  BY <1>3, LenProperties
<1>7. ASSUME NEW i \in 1..Len(entries)
      PROVE  [entries[i] EXCEPT !.at = Up(i)] \in Repeated
  <2> DEFINE o == entries[i]
             p == [o EXCEPT !.at = Up(i)]
  <2>1. o \in ToSet(entries)
    BY <1>6 DEF ToSet
  <2>2. o \in Objs(f.cur) /\ o.type = "live"
    BY <1>3, <2>1 DEF Objs
  <2>3. o \in Handler
    BY <1>1, <2>2, IdOfObj
  <2>4. o.once = handlers[o.id].once /\ ~ o.once
    BY <1>1, <2>2 DEF Sorts
  <2>5. Up(i) \in Elements \cup {Null}
    BY <1>4
  <2> HIDE DEF o, Up
  <2>6. p \in Handler /\ p.id = o.id /\ p.once = o.once
    BY <2>3, <2>5 DEF Handler
  <2> HIDE DEF p
  <2>7. p \in Repeated
    BY <2>4, <2>6 DEF Repeated
  <2>8. QED
    BY <2>7 DEF p, o
<1>8. found \in Seq(Repeated)
  <2> HIDE DEF entries, Up
  <2>1. found \in [1..Len(entries) -> Repeated]
    BY <1>6, <1>7
  <2> HIDE DEF found
  <2>2. QED
    BY <1>6, <2>1
<1>9. path \in Seq(Elements)
  BY <1>1, EventsAssumption DEF EventsAssumption
<1>10. DOMAIN path = 1..Len(path) /\ Len(path) \in Nat
  BY <1>9, LenProperties
<1>11. ASSUME NEW i \in 1..Len(path) PROVE Filter(found, Here(i)) \in Seq(Repeated)
  <2> HIDE DEF found, Here
  <2>1. QED
    BY <1>8, FilterType
<1>12. parts \in Seq(Seq(Repeated))
  <2> HIDE DEF found, Here, path
  <2>1. parts \in [1..Len(path) -> Seq(Repeated)]
    BY <1>10, <1>11
  <2>2. QED
    BY <1>10, <2>1
<1>13. FlattenSeq(parts) \in Seq(Repeated)
  <2> HIDE DEF parts
  <2>1. QED
    BY <1>12, FlattenType
<1>14. QED
  <2> HIDE DEF parts
  <2>1. QED
    BY <1>5, <1>13

--------------------------------------------------------------------------------
(* Steps that change what runs.                                                    *)

\* Copies stay copies when handlers go and events go.
LEMMA CopiesKept ==
  ASSUME Types, Shrink, SameOnce, Copies,
         \A k \in DOMAIN frames' : \/ \E j \in DOMAIN frames : frames'[k] = frames[j]
                                   \/ Copy(frames'[k], handlers', bound')
  PROVE  Copies'
<1>1. ASSUME NEW k \in DOMAIN frames' PROVE Copy(frames'[k], handlers', bound')
  <2>1. CASE \E j \in DOMAIN frames : frames'[k] = frames[j]
    <3>1. PICK j \in DOMAIN frames : frames'[k] = frames[j]
      BY <2>1
    <3>2. frames[j] \in EventFrame
      BY LenProperties, ElementOfSeq DEF Types
    <3>3. Copy(frames[j], handlers, bound)
      BY DEF Copies
    <3>4. QED
      BY <3>1, <3>2, <3>3, CopyLeft
  <2>2. QED
    BY <2>1
<1>2. QED
  BY <1>1 DEF Copies

LEMMA ShrinkSame ==
  ASSUME Types, bound' = bound
  PROVE  Shrink
<1>1. ASSUME NEW e \in Elements PROVE \E m : Embeds(m, bound'[e], bound[e])
  <2>1. bound[e] \in Seq(Handler)
    BY DEF Types
  <2>2. QED
    BY <2>1, EmbedsItself
<1>2. QED
  BY <1>1 DEF Shrink, Types

\* What is true of handlers that are bound does not depend on what runs.
LEMMA BoundSame ==
  ASSUME UNCHANGED <<bound, listening, handlers>>, Listens, LiveServed, Sorts, OnePlace
  PROVE  Listens' /\ LiveServed' /\ Sorts' /\ OnePlace'
<1>1. Listens'
  BY DEF Listens, Objs
<1>2. LiveServed'
  BY DEF LiveServed, Objs
<1>3. Sorts'
  BY DEF Sorts, Objs
<1>4. OnePlace'
  BY DEF OnePlace, IsOnce
<1>5. QED
  BY <1>1, <1>2, <1>3, <1>4

\* Steps that leave the handlers alone: an event starts, goes on, or is over.
LEMMA FrameMoves ==
  ASSUME EventsInv, EventsTypeOK', UNCHANGED <<bound, listening, handlers>>,
         \A k \in DOMAIN frames' : \/ \E j \in DOMAIN frames : frames'[k] = frames[j]
                                   \/ Copy(frames'[k], handlers, bound),
         \A id \in DOMAIN handlers :
           IsOnce(id) => \/ \E e \in Elements : \E o \in Objs(e) : o.id = id
                         \/ Copied(id)' \subseteq Copied(id)
  PROVE  EventsInv'
<1>1. /\ EventsTypeOK /\ Listens /\ LiveServed /\ Sorts /\ OnePlace /\ Copies /\ Totals
      /\ bound' = bound /\ handlers' = handlers
  BY DEF EventsInv
<1>2. Types
  BY <1>1, TypesOf
<1>3. Listens' /\ LiveServed' /\ Sorts' /\ OnePlace'
  BY <1>1, BoundSame
<1>4. Shrink
  BY <1>1, <1>2, ShrinkSame
<1>5. SameOnce
  BY <1>1 DEF SameOnce
<1>6. Copies'
  BY <1>1, <1>2, <1>4, <1>5, CopiesKept
<1>7. \A e \in Elements : Objs(e)' \subseteq Objs(e)
  BY <1>1 DEF Objs
<1>8. Totals'
  BY <1>1, <1>5, <1>7, CountsKept
<1>9. QED
  BY <1>1, <1>3, <1>6, <1>8 DEF EventsInv

\* The innermost event goes on.
LEMMA FrameStep ==
  ASSUME EventsInv, frames # <<>>, UNCHANGED <<bound, listening, handlers, removed, unbinds>>,
         cache' = cache, events' = events,
         NEW g, g \in EventFrame, frames' = <<g>> \o Tail(frames), Copy(g, handlers, bound),
         \A id \in DOMAIN handlers :
           IsOnce(id) /\ HasId(g, id) => \/ \E e \in Elements : \E o \in Objs(e) : o.id = id
                                         \/ HasId(Head(frames), id)
  PROVE  EventsInv'
<1>1. EventsTypeOK /\ frames \in Seq(EventFrame)
  BY DEF EventsInv, EventsTypeOK
<1>2. /\ Len(frames') = Len(frames) /\ Len(frames) \in Nat \ {0}
      /\ DOMAIN frames = 1..Len(frames) /\ DOMAIN frames' = 1..Len(frames)
      /\ frames'[1] = g /\ \A k \in 2..Len(frames) : frames'[k] = frames[k]
  BY <1>1, Replaced
<1>3. Tail(frames) \in Seq(EventFrame) /\ <<g>> \in Seq(EventFrame)
  BY <1>1, HeadTailProperties
<1>4. frames' \in Seq(EventFrame)
  BY <1>3, ConcatProperties
<1>5. Handler' = Handler
  BY DEF Handler
<1>6. EventFrame' = EventFrame
  BY <1>5 DEF EventFrame
<1>7. EventsTypeOK'
  BY <1>1, <1>2, <1>4, <1>5, <1>6 DEF EventsTypeOK
<1>8. ASSUME NEW k \in DOMAIN frames'
      PROVE  \/ \E j \in DOMAIN frames : frames'[k] = frames[j]
             \/ Copy(frames'[k], handlers, bound)
  <2>1. CASE k = 1
    BY <1>2, <2>1
  <2>2. CASE k # 1
    <3>1. k \in 2..Len(frames) /\ k \in DOMAIN frames
      BY <1>2, <2>2
    <3>2. QED
      BY <1>2, <3>1
  <2>3. QED
    BY <2>1, <2>2
<1>9. ASSUME NEW id \in DOMAIN handlers, IsOnce(id)
      PROVE  \/ \E e \in Elements : \E o \in Objs(e) : o.id = id
             \/ Copied(id)' \subseteq Copied(id)
  <2>1. CASE HasId(g, id) => HasId(Head(frames), id)
    BY <1>1, <2>1, CopiedReplaced
  <2>2. CASE HasId(g, id) /\ ~ HasId(Head(frames), id)
    BY <1>9, <2>2
  <2>3. QED
    BY <2>1, <2>2
<1>10. QED
  BY <1>7, <1>8, <1>9, FrameMoves

LEMMA PopStep ==
  ASSUME EventsInv, frames # <<>>, UNCHANGED <<bound, listening, handlers, removed, unbinds>>,
         cache' = cache, events' = events, frames' = Tail(frames)
  PROVE  EventsInv'
<1>1. EventsTypeOK /\ frames \in Seq(EventFrame)
  BY DEF EventsInv, EventsTypeOK
<1>2. /\ Len(frames') = Len(frames) - 1 /\ Len(frames) \in Nat \ {0} /\ frames' \in Seq(EventFrame)
      /\ DOMAIN frames = 1..Len(frames) /\ DOMAIN frames' = 1..Len(frames) - 1
      /\ \A k \in 1..Len(frames) - 1 : frames'[k] = frames[k + 1]
  BY <1>1, Popped
<1>3. Handler' = Handler
  BY DEF Handler
<1>4. EventFrame' = EventFrame
  BY <1>3 DEF EventFrame
<1>5. Len(frames') <= MaxNested
  <2> DEFINE n == Len(frames)
             k == Len(frames')
  <2>1. n \in Nat /\ k = n - 1 /\ n <= MaxNested
    BY <1>1, <1>2 DEF EventsTypeOK
  <2>2. MaxNested \in Nat
    BY EventsAssumption DEF EventsAssumption
  <2> HIDE DEF n, k
  <2>3. k <= MaxNested
    BY <2>1, <2>2
  <2>4. QED
    BY <2>3 DEF k
<1>6. EventsTypeOK'
  BY <1>1, <1>2, <1>3, <1>4, <1>5 DEF EventsTypeOK
<1>7. \A k \in DOMAIN frames' : k + 1 \in DOMAIN frames /\ frames'[k] = frames[k + 1]
  BY <1>2
<1>8. ASSUME NEW id PROVE Copied(id)' \subseteq Copied(id)
  BY <1>1, CopiedPopped
<1>9. QED
  BY <1>6, <1>7, <1>8, FrameMoves

LEMMA PushStep ==
  ASSUME EventsInv, UNCHANGED <<bound, listening, handlers, removed, unbinds>>,
         cache' = cache, events' = events + 1, Len(frames) < MaxNested,
         NEW g, g \in EventFrame, frames' = <<g>> \o frames, Copy(g, handlers, bound),
         \A id : HasId(g, id) => \E e \in Elements : \E o \in Objs(e) : o.id = id
  PROVE  EventsInv'
<1>1. EventsTypeOK /\ frames \in Seq(EventFrame)
  BY DEF EventsInv, EventsTypeOK
<1>2. /\ Len(frames') = Len(frames) + 1 /\ Len(frames) \in Nat
      /\ DOMAIN frames = 1..Len(frames) /\ DOMAIN frames' = 1..Len(frames) + 1
      /\ frames'[1] = g /\ \A k \in 1..Len(frames) : frames'[k + 1] = frames[k]
  BY <1>1, Pushed
<1>3. frames' \in Seq(EventFrame)
  BY <1>1, ConcatProperties
<1>4. Handler' = Handler
  BY DEF Handler
<1>5. EventFrame' = EventFrame
  BY <1>4 DEF EventFrame
<1>6. Len(frames') <= MaxNested
  <2> DEFINE n == Len(frames)
             k == Len(frames')
  <2>1. n \in Nat /\ k = n + 1 /\ n < MaxNested
    BY <1>2
  <2>2. MaxNested \in Nat
    BY EventsAssumption DEF EventsAssumption
  <2> HIDE DEF n, k
  <2>3. k <= MaxNested
    BY <2>1, <2>2
  <2>4. QED
    BY <2>3 DEF k
<1>7. EventsTypeOK'
  BY <1>1, <1>3, <1>4, <1>5, <1>6 DEF EventsTypeOK
<1>8. ASSUME NEW k \in DOMAIN frames'
      PROVE  \/ \E j \in DOMAIN frames : frames'[k] = frames[j]
             \/ Copy(frames'[k], handlers, bound)
  <2>1. CASE k = 1
    BY <1>2, <2>1
  <2>2. CASE k # 1
    <3>1. k - 1 \in 1..Len(frames) /\ (k - 1) + 1 = k
      BY <1>2, <2>2
    <3>2. QED
      BY <1>2, <3>1
  <2>3. QED
    BY <2>1, <2>2
<1>9. ASSUME NEW id \in DOMAIN handlers
      PROVE  \/ \E e \in Elements : \E o \in Objs(e) : o.id = id
             \/ Copied(id)' \subseteq Copied(id)
  <2>1. CASE HasId(g, id)
    BY <2>1
  <2>2. CASE ~ HasId(g, id)
    BY <1>1, <2>2, CopiedPushed
  <2>3. QED
    BY <2>1, <2>2
<1>10. QED
  BY <1>7, <1>8, <1>9, FrameMoves

--------------------------------------------------------------------------------
(* The actions.                                                                    *)

LEMMA FrameKept ==
  ASSUME EventsInv
  PROVE  /\ Types /\ Sorts /\ OnePlace
         /\ frames # <<>> => Current \in EventFrame /\ Current = frames[1] /\ Copy(Current, handlers, bound)
<1>1. Types /\ Sorts /\ OnePlace /\ Copies
  BY TypesOf DEF EventsInv
<1>2. frames # <<>> => Current \in EventFrame /\ Current = frames[1] /\ 1 \in DOMAIN frames
  BY <1>1, EmptySeq, LenProperties, ElementOfSeq DEF Types, Current
<1>3. QED
  BY <1>1, <1>2 DEF Copies

\* An event comes to the next element.
LEMMA UpStep ==
  ASSUME EventsInv, frames # <<>>, UNCHANGED <<store, removed, handlers, unbinds, events>>,
         NEW e, e \in Elements, frames' = <<Arrive(Current, e)>> \o Tail(frames)
  PROVE  EventsInv'
<1>1. Types /\ Sorts /\ OnePlace /\ Current \in EventFrame
  BY FrameKept
<1>2. PICK g : g = Arrive(Current, e)
  OBVIOUS
<1>3. /\ g \in EventFrame /\ Copy(g, handlers, bound)
      /\ \A id : HasId(g, id) => \E o \in Objs(e) : o.id = id
  BY <1>1, <1>2, Arriving
<1>4. UNCHANGED <<bound, listening, cache, handlers, removed, unbinds, events>>
  BY DEF store
<1>5. frames' = <<g>> \o Tail(frames)
  BY <1>2
<1>6. QED
  BY <1>3, <1>4, <1>5, FrameStep

LEMMA TriggerUpStep ==
  ASSUME EventsInv, TriggerUp
  PROVE  EventsInv'
<1>1. Current \in EventFrame
  BY FrameKept DEF TriggerUp, Passed
<1>2. Current.cur \in Elements
  BY <1>1 DEF EventFrame
<1>3. ParentNow(Current.cur) \in Elements
  <2> DEFINE e == Current.cur
  <2>1. Path[e] \in Seq(Elements) /\ Path[e] # <<>> /\ Document \in Elements
    BY <1>2, EventsAssumption DEF EventsAssumption
  <2>2. Len(Path[e]) # 1 => Path[e][2] \in Elements
    <3>1. Len(Path[e]) \in Nat /\ Len(Path[e]) # 0
      BY <2>1, EmptySeq, LenProperties
    <3>2. \A l \in Nat : l # 0 /\ l # 1 => 2 \in 1..l
      OBVIOUS
    <3>3. QED
      BY <2>1, <3>1, <3>2, ElementOfSeq
  <2>3. ParentNow(e) # Null
    BY DEF TriggerUp
  <2>4. QED
    BY <2>1, <2>2, <2>3 DEF ParentNow, Parent
<1>4. QED
  BY <1>3, UpStep DEF TriggerUp, Passed

LEMMA NativeUpStep ==
  ASSUME EventsInv, NativeUp
  PROVE  EventsInv'
<1> DEFINE over == {x \in ToSet(Path[Current.target]) : Current.cur \in Below(x) \ {x}}
           above == Filter(Path[Current.target], over)
<1>1. Current \in EventFrame /\ frames # <<>>
  BY FrameKept DEF NativeUp, Passed
<1>2. Current.target \in Elements
  BY <1>1 DEF EventFrame
<1>3. Path[Current.target] \in Seq(Elements)
  BY <1>2, EventsAssumption DEF EventsAssumption
<1>4. above \in Seq(Elements)
  <2> HIDE DEF over
  <2>1. QED
    BY <1>3, FilterType
<1>5. frames' = IF Current.stopped \/ above = <<>> THEN Tail(frames)
                ELSE <<Arrive(Current, Head(above))>> \o Tail(frames)
  BY DEF NativeUp, Those
<1>6. UNCHANGED <<store, removed, handlers, unbinds, events>>
  BY DEF NativeUp
<1> HIDE DEF above
<1>7. CASE above # <<>> /\ ~ Current.stopped
  <2>1. Head(above) \in Elements
    BY <1>4, <1>7
  <2>2. frames' = <<Arrive(Current, Head(above))>> \o Tail(frames)
    BY <1>5, <1>7
  <2>3. QED
    BY <1>1, <1>6, <2>1, <2>2, UpStep
<1>8. CASE Current.stopped \/ above = <<>>
  <2>1. frames' = Tail(frames)
    BY <1>5, <1>8
  <2>2. QED
    BY <1>1, <1>6, <2>1, PopStep DEF store
<1>9. QED
  BY <1>7, <1>8

LEMMA StartStep ==
  ASSUME EventsInv, UNCHANGED <<store, removed, handlers, unbinds>>, events' = events + 1,
         Len(frames) < MaxNested, NEW e, e \in Elements, NEW type, type \in EventTypes,
         NEW ns, ns \in Namespaces \cup {""}, NEW b, b \in BOOLEAN,
         frames' = <<Arrive(Event(type, ns, e, b), e)>> \o frames
  PROVE  EventsInv'
<1>1. Types /\ Sorts /\ OnePlace
  BY FrameKept
<1>2. Event(type, ns, e, b) \in EventFrame
  <2> DEFINE f == Event(type, ns, e, b)
  <2>1. <<>> \in Seq(Handler)
    BY EmptySeq
  <2>2. f = [type |-> type, ns |-> ns, target |-> e, cur |-> e, native |-> b,
             left |-> <<>>, running |-> Null, fired |-> Null, stopped |-> FALSE]
    BY DEF Event
  <2>3. Null \in Handler \cup {Null} /\ Null \in Elements \cup {Null} /\ FALSE \in BOOLEAN
    OBVIOUS
  <2> HIDE DEF f
  <2>4. f \in EventFrame
    BY <2>1, <2>2, <2>3, Zenon DEF EventFrame
  <2>5. QED
    BY <2>4 DEF f
<1>3. PICK g : g = Arrive(Event(type, ns, e, b), e)
  OBVIOUS
<1>4. /\ g \in EventFrame /\ Copy(g, handlers, bound)
      /\ \A id : HasId(g, id) => \E o \in Objs(e) : o.id = id
  BY <1>1, <1>2, <1>3, Arriving
<1>5. UNCHANGED <<bound, listening, cache, handlers, removed, unbinds>>
  BY DEF store
<1>6. frames' = <<g>> \o frames
  BY <1>3
<1>7. QED
  BY <1>4, <1>5, <1>6, PushStep

\* An event goes on with some of the handlers that were left.
LEMMA LeftStep ==
  ASSUME EventsInv, frames # <<>>, UNCHANGED <<store, removed, handlers, unbinds, events>>,
         NEW g, g \in EventFrame, frames' = <<g>> \o Tail(frames),
         g.cur = Current.cur, g.type = Current.type,
         NEW m, Embeds(m, g.left, Current.left)
  PROVE  EventsInv'
<1>1. Current \in EventFrame /\ Copy(Current, handlers, bound) /\ Current = Head(frames)
  BY FrameKept DEF Current
<1>2. PICK f : f = Current
  OBVIOUS
<1>3. f \in EventFrame /\ Copy(f, handlers, bound) /\ g.cur = f.cur /\ g.type = f.type
      /\ Embeds(m, g.left, f.left) /\ f = Head(frames)
  BY <1>1, <1>2
<1>4. Copy(g, handlers, bound) /\ \A id : HasId(g, id) => HasId(Head(frames), id)
  BY <1>3, FewerLeft
<1>5. QED
  BY <1>4, FrameStep DEF store

LEMMA ReturnStep ==
  ASSUME EventsInv, Return
  PROVE  EventsInv'
<1>1. Current \in EventFrame /\ frames # <<>>
  BY FrameKept DEF Return
<1>2. PICK f : f = Current
  OBVIOUS
<1>3. f.left \in Seq(Handler) /\ f \in EventFrame
  BY <1>1, <1>2 DEF EventFrame
<1>4. PICK ret \in {"undefined", "false", "immediate"} :
        frames' = <<[f EXCEPT
              !.running = Null,
              !.stopped = @ \/ ret # "undefined",
              !.left = CASE ret = "immediate" -> Those(@, LAMBDA o : o.at # Null)
                         [] ret = "false" /\ f.running.at # Null ->
                              Those(@, LAMBDA o : o.at = Null)
                         [] OTHER -> @]>> \o Tail(frames)
  BY <1>2 DEF Return
<1> DEFINE lives == {o \in ToSet(f.left) : o.at # Null}
           others == {o \in ToSet(f.left) : o.at = Null}
           left == CASE ret = "immediate" -> Filter(f.left, lives)
                     [] ret = "false" /\ f.running.at # Null -> Filter(f.left, others)
                     [] OTHER -> f.left
           stopped == f.stopped \/ ret # "undefined"
           g == [f EXCEPT !.running = Null, !.stopped = stopped, !.left = left]
<1>5. frames' = <<g>> \o Tail(frames)
  BY <1>4 DEF Those
<1>6. left = f.left \/ left = Filter(f.left, lives) \/ left = Filter(f.left, others)
  OBVIOUS
<1>7. left \in Seq(Handler) /\ \E m : Embeds(m, left, f.left)
  <2> HIDE DEF lives, others, left
  <2>1. CASE left = f.left
    BY <1>3, <2>1, EmbedsItself
  <2>2. CASE left = Filter(f.left, lives)
    BY <1>3, <2>2, FilterType, FilterOrder
  <2>3. CASE left = Filter(f.left, others)
    BY <1>3, <2>3, FilterType, FilterOrder
  <2>4. QED
    BY <1>6, <2>1, <2>2, <2>3
<1>8. stopped \in BOOLEAN
  BY <1>3 DEF EventFrame
<1> HIDE DEF left, stopped
<1>9. g \in EventFrame /\ g.cur = f.cur /\ g.type = f.type /\ g.left = left
  BY <1>3, <1>7, <1>8 DEF EventFrame
<1> HIDE DEF g
<1>10. PICK m : Embeds(m, g.left, f.left)
  BY <1>7, <1>9, Zenon
<1>11. UNCHANGED <<store, removed, handlers, unbinds, events>>
  BY DEF Return
<1>12. QED
  BY <1>1, <1>2, <1>5, <1>9, <1>10, <1>11, LeftStep

\* Handlers go from an element.
LEMMA Unbound ==
  ASSUME EventsInv, SameOnce, CutStays, NEW e, e \in Elements, NEW G, G \subseteq DOMAIN bound[e],
         NEW named, named \in BOOLEAN, Put(e, remove(Of(e), G, named)), Served(e, G)
  PROVE  /\ Shrink /\ Listens' /\ LiveServed' /\ Sorts' /\ OnePlace'
         /\ cache' \subseteq Elements
         /\ listening' \in [Elements -> SUBSET (EventTypes \cup {"live"})]
         /\ \A x \in Elements : ToSet(bound'[x]) \subseteq Objs(x)
         /\ \E L : LeftOf(e, G, named, L)
<1>1. /\ EventsTypeOK /\ Listens /\ LiveServed /\ Sorts /\ OnePlace
  BY DEF EventsInv
<1>2. Types
  BY <1>1, TypesOf
<1>3. /\ Shrink /\ Listens' /\ cache' \subseteq Elements
      /\ listening' \in [Elements -> SUBSET (EventTypes \cup {"live"})]
      /\ \E L : LeftOf(e, G, named, L)
  BY <1>1, StoreLeft
<1>4. PICK L : LeftOf(e, G, named, L)
  BY <1>3
<1>5. LiveServed'
  BY <1>1, <1>2, <1>4, LiveServedLeft
<1>6. Sorts' /\ OnePlace'
  BY <1>1, <1>2, <1>3, KindsLeft, OnePlaceLeft
<1>7. \A x \in Elements : ToSet(bound'[x]) \subseteq Objs(x)
  BY <1>2, <1>3, FewerObjs
<1>8. QED
  BY <1>3, <1>5, <1>6, <1>7

\* No handler is called.
SameCounts ==
  /\ SameOnce /\ CutStays
  /\ handlers' \in Seq([once : BOOLEAN, n : Nat, cut : BOOLEAN])
  /\ \A id \in DOMAIN handlers : handlers'[id].n = handlers[id].n

LEMMA CountsStay ==
  ASSUME EventsInv, UNCHANGED handlers
  PROVE  SameCounts
  BY DEF SameCounts, SameOnce, CutStays, EventsInv, EventsTypeOK

\* Handlers go and the events stay as they are.
LEMMA GoneStep ==
  ASSUME EventsInv, UNCHANGED <<frames, events>>, unbinds' = unbinds + 1, SameCounts,
         removed' \subseteq Elements, cache' \subseteq Elements, Shrink,
         listening' \in [Elements -> SUBSET (EventTypes \cup {"live"})],
         Listens', LiveServed', Sorts', OnePlace'
  PROVE  EventsInv'
<1>1. EventsTypeOK /\ Copies /\ Totals
  BY DEF EventsInv
<1>2. Types
  BY <1>1, TypesOf
<1>3. Handler' = Handler
  <2>1. Len(handlers') \in Nat /\ Len(handlers) \in Nat /\ 1..Len(handlers') = 1..Len(handlers)
    BY <1>2, LenProperties DEF Types, SameCounts, SameOnce
  <2>2. QED
    BY <2>1 DEF Handler
<1>4. EventFrame' = EventFrame
  BY <1>3 DEF EventFrame
<1>5. unbinds' \in Nat
  BY <1>1 DEF EventsTypeOK
<1>6. EventsTypeOK'
  BY <1>1, <1>3, <1>4, <1>5 DEF EventsTypeOK, Shrink, SameCounts
<1>7. SameOnce
  BY DEF SameCounts
<1>8. Copies'
  <2>1. \A k \in DOMAIN frames' : \E j \in DOMAIN frames : frames'[k] = frames[j]
    OBVIOUS
  <2>2. QED
    BY <1>1, <1>2, <1>7, <2>1, CopiesKept
<1>9. \A x \in Elements : Objs(x)' \subseteq Objs(x)
  BY <1>2, FewerObjs DEF Objs
<1>10. \A id : Copied(id)' = Copied(id)
  BY DEF Copied, Depth
<1>11. Totals'
  BY <1>1, <1>6, <1>7, <1>9, <1>10, CountsKept DEF SameCounts
<1>12. QED
  BY <1>6, <1>8, <1>11 DEF EventsInv

LEMMA UnbindStep ==
  ASSUME EventsInv, Still, Unbinding, SameCounts,
         NEW e, e \in Elements, NEW G, G \subseteq DOMAIN bound[e],
         NEW named, named \in BOOLEAN, Put(e, remove(Of(e), G, named)), Served(e, G)
  PROVE  EventsInv'
<1>1. SameOnce /\ CutStays
  BY DEF SameCounts
<1>2. /\ Shrink /\ Listens' /\ LiveServed' /\ Sorts' /\ OnePlace'
      /\ cache' \subseteq Elements
      /\ listening' \in [Elements -> SUBSET (EventTypes \cup {"live"})]
  BY <1>1, Unbound
<1>3. removed' \subseteq Elements
  BY DEF EventsInv, EventsTypeOK, Still
<1>4. QED
  BY <1>2, <1>3, GoneStep DEF Still, Unbinding

LEMMA ObjAt ==
  ASSUME EventsInv, NEW e, e \in Elements, NEW i, i \in DOMAIN bound[e]
  PROVE  LET o == bound[e][i]
         IN /\ o.type = "live" => ~ o.once /\ o.fn \in Fns /\ o.ns = ""
            /\ o.type # "live" => o.orig = Null
            /\ o.fn = LiveHandler => ~ o.once /\ o.type # "live" /\ o.ns = ""
<1>1. bound[e][i] \in Objs(e)
  BY DEF Objs, ToSet
<1>2. QED
  BY <1>1 DEF EventsInv, Sorts

LEMMA UnbindAll ==
  ASSUME EventsInv, NEW e, e \in Elements, unbind(e) \/ die(e) \/ dieAll(e)
  PROVE  EventsInv'
<1>1. LiveHandler \notin Fns /\ Null \notin EventTypes /\ "" \notin Namespaces
  BY EventsAssumption DEF EventsAssumption
<1>2. Unbinding /\ Still /\ SameCounts
  <2>1. Unbinding /\ Still /\ UNCHANGED handlers
    BY DEF unbind, die, dieAll, MayUnbind
  <2>2. QED
    BY <2>1, CountsStay
<1>3. ASSUME NEW type \in EventTypes, NEW fn \in Fns, NEW G,
             G = Where(e, LAMBDA o : o.type = type /\ o.fn = fn),
             Put(e, remove(Of(e), G, TRUE))
      PROVE  EventsInv'
  <2>1. G \subseteq DOMAIN bound[e] /\ \A i \in G : bound[e][i].fn # LiveHandler
    BY <1>1, <1>3 DEF Where
  <2>2. Served(e, G)
    BY <2>1 DEF Served
  <2>3. QED
    BY <1>2, <1>3, <2>1, <2>2, UnbindStep
<1>4. ASSUME NEW ns \in Namespaces, NEW G,
             G = Where(e, LAMBDA o : o.ns = ns),
             Put(e, remove(Of(e), G, FALSE))
      PROVE  EventsInv'
  <2>1. G \subseteq DOMAIN bound[e] /\ \A i \in G : bound[e][i].ns = ns
    BY <1>4 DEF Where
  <2>2. \A i \in G : bound[e][i].fn # LiveHandler
    BY <1>1, <2>1, ObjAt
  <2>3. Served(e, G)
    BY <2>2 DEF Served
  <2>4. QED
    BY <1>2, <1>4, <2>1, <2>3, UnbindStep
<1>5. ASSUME NEW G, G = DOMAIN bound[e], Put(e, remove(Of(e), G, FALSE))
      PROVE  EventsInv'
  <2>1. DOMAIN bound[e] \ G = {}
    BY <1>5
  <2>2. QED
    BY <1>2, <1>5, <2>1, UnbindStep DEF Served
<1>6. ASSUME NEW type \in EventTypes, NEW G, G \subseteq DOMAIN bound[e],
             \A i \in G : bound[e][i].orig = type,
             NEW named \in BOOLEAN, Put(e, remove(Of(e), G, named))
      PROVE  EventsInv'
  <2>1. \A i \in G : bound[e][i].fn # LiveHandler
    BY <1>1, <1>6, ObjAt
  <2>2. QED
    BY <1>2, <1>6, <2>1, UnbindStep DEF Served
<1>7. CASE unbind(e)
  <2>1. CASE \E type \in EventTypes, fn \in Fns :
               Put(e, remove(Of(e), Where(e, LAMBDA o : o.type = type /\ o.fn = fn), TRUE))
    BY <1>3, <2>1
  <2>2. CASE \E ns \in Namespaces :
               Put(e, remove(Of(e), Where(e, LAMBDA o : o.ns = ns), FALSE))
    BY <1>4, <2>2
  <2>3. CASE Put(e, remove(Of(e), DOMAIN bound[e], FALSE))
    BY <1>5, <2>3
  <2>4. QED
    BY <1>7, <2>1, <2>2, <2>3 DEF unbind
<1>8. CASE die(e)
  <2>1. PICK type \in EventTypes, sel \in Selectors, fn \in Fns :
          Put(e, remove(Of(e), Where(e, LAMBDA o : o.orig = type /\ o.sel = sel /\ o.fn = fn),
                        TRUE))
    BY <1>8 DEF die
  <2>2. PICK G : G = Where(e, LAMBDA o : o.orig = type /\ o.sel = sel /\ o.fn = fn)
    OBVIOUS
  <2>3. G \subseteq DOMAIN bound[e] /\ \A i \in G : bound[e][i].orig = type
    BY <2>2 DEF Where
  <2>4. QED
    BY <1>6, <2>1, <2>2, <2>3
<1>9. CASE dieAll(e)
  <2>1. PICK type \in EventTypes, sel \in Selectors :
          Put(e, remove(Of(e), Where(e, LAMBDA o : o.orig = type /\ o.sel = sel), FALSE))
    BY <1>9 DEF dieAll
  <2>2. PICK G : G = Where(e, LAMBDA o : o.orig = type /\ o.sel = sel)
    OBVIOUS
  <2>3. G \subseteq DOMAIN bound[e] /\ \A i \in G : bound[e][i].orig = type
    BY <2>2 DEF Where
  <2>4. QED
    BY <1>6, <2>1, <2>2, <2>3
<1>10. QED
  BY <1>7, <1>8, <1>9

LEMMA UnbindTypeStep ==
  ASSUME EventsInv, NEW e, e \in Elements, unbindType(e)
  PROVE  EventsInv'
<1>1. PICK type \in EventTypes :
        /\ Put(e, remove(Of(e), Where(e, LAMBDA o : o.type = type), FALSE))
        /\ LET over == {o.id : o \in {x \in ToSet(bound[e]) : x.orig = type}}
           IN handlers' = [id \in DOMAIN handlers |->
                             [handlers[id] EXCEPT !.cut = @ \/ id \in over]]
  BY DEF unbindType
<1>2. Unbinding /\ Still
  BY DEF unbindType, MayUnbind
<1> DEFINE over == {o.id : o \in {x \in ToSet(bound[e]) : x.orig = type}}
           T == [once : BOOLEAN, n : Nat, cut : BOOLEAN]
<1>3. PICK G : G = Where(e, LAMBDA o : o.type = type)
  OBVIOUS
<1>4. G \subseteq DOMAIN bound[e] /\ \A i \in G : bound[e][i].type = type
  BY <1>3 DEF Where
<1>5. handlers' = [id \in DOMAIN handlers |-> [handlers[id] EXCEPT !.cut = @ \/ id \in over]]
  BY <1>1
<1>6. Types /\ handlers \in Seq(T) /\ DOMAIN handlers = 1..Len(handlers) /\ Len(handlers) \in Nat
  BY TypesOf, LenProperties DEF EventsInv, Types
<1> HIDE DEF over
<1>7. \A id \in DOMAIN handlers : handlers[id] \in T
  BY <1>6, ElementOfSeq
<1>8. ASSUME NEW id \in DOMAIN handlers
      PROVE  /\ handlers'[id] \in T
             /\ handlers'[id].once = handlers[id].once /\ handlers'[id].n = handlers[id].n
             /\ handlers[id].cut => handlers'[id].cut
             /\ id \in over => handlers'[id].cut
  <2>1. handlers'[id] = [handlers[id] EXCEPT !.cut = @ \/ id \in over]
    BY <1>5
  <2>2. handlers[id] \in T
    BY <1>7
  <2>3. QED
    BY <2>1, <2>2
<1>9. handlers' \in [1..Len(handlers) -> T]
  BY <1>5, <1>6, <1>8
<1>10. SameCounts
  <2>1. handlers' \in Seq(T)
    BY <1>6, <1>9, SeqDef
  <2>2. DOMAIN handlers' = DOMAIN handlers
    BY <1>5
  <2>3. QED
    BY <1>8, <2>1, <2>2 DEF SameCounts, SameOnce, CutStays
<1>11. Served(e, G)
  <2>1. ASSUME NEW i \in G, NEW j \in DOMAIN bound[e], bound[e][j].orig = bound[e][i].type
        PROVE  handlers'[bound[e][j].id].cut
    <3>1. bound[e][j] \in Objs(e) /\ bound[e][j] \in ToSet(bound[e]) /\ bound[e][j].orig = type
      BY <1>4, <2>1 DEF Objs, ToSet
    <3>2. bound[e][j].id \in over /\ bound[e][j].id \in DOMAIN handlers
      BY <1>6, <3>1, IdOfObj DEF over
    <3>3. QED
      BY <1>8, <3>2
  <2>2. QED
    BY <2>1 DEF Served
<1>12. Put(e, remove(Of(e), G, FALSE))
  BY <1>1, <1>3
<1>13. QED
  BY <1>2, <1>4, <1>10, <1>11, <1>12, UnbindStep

LEMMA EmbedsNothing ==
  ASSUME NEW s
  PROVE  \E m : Embeds(m, <<>>, s)
<1>1. Embeds([i \in 1..0 |-> 0], <<>>, s)
  BY DEF Embeds
<1>2. QED
  BY <1>1

LEMMA RemoveElementStep ==
  ASSUME EventsInv, NEW e, e \in Elements, removeElement(e)
  PROVE  EventsInv'
<1>1. /\ EventsTypeOK /\ Listens /\ LiveServed /\ Sorts /\ OnePlace
  BY DEF EventsInv
<1>2. Types
  BY <1>1, TypesOf
<1>3. /\ removed' = removed \cup {e}
      /\ bound' = [x \in Elements |-> IF x \in Below(e) THEN <<>> ELSE bound[x]]
      /\ listening' = [x \in Elements |-> IF x \in Below(e) THEN {} ELSE listening[x]]
      /\ cache' = cache \ Below(e)
      /\ UNCHANGED <<frames, handlers, events>> /\ unbinds' = unbinds + 1
  BY DEF removeElement, Unbinding
<1>4. bound \in [Elements -> Seq(Handler)] /\ <<>> \in Seq(Handler)
  BY <1>2, EmptySeq DEF Types
<1>5. bound' \in [Elements -> Seq(Handler)]
  BY <1>3, <1>4
<1>6. ASSUME NEW x \in Elements PROVE \E m : Embeds(m, bound'[x], bound[x])
  <2>1. CASE x \in Below(e)
    <3>1. bound'[x] = <<>>
      BY <1>3, <2>1
    <3>2. QED
      BY <3>1, EmbedsNothing
  <2>2. CASE x \notin Below(e)
    <3>1. bound'[x] = bound[x] /\ bound[x] \in Seq(Handler)
      BY <1>3, <1>4, <2>2
    <3>2. QED
      BY <3>1, EmbedsItself
  <2>3. QED
    BY <2>1, <2>2
<1>7. Shrink
  BY <1>5, <1>6 DEF Shrink
<1>8. SameOnce
  BY <1>3 DEF SameOnce
<1>9. Sorts' /\ OnePlace'
  BY <1>1, <1>2, <1>7, <1>8, KindsLeft, OnePlaceLeft
<1>10. ASSUME NEW x \in Elements, x \in Below(e)
       PROVE  ToSet(bound'[x]) = {} /\ listening'[x] = {}
  <2>1. bound'[x] = <<>> /\ listening'[x] = {}
    BY <1>3, <1>10
  <2>2. QED
    BY <2>1, ToSetEmpty
<1>11. ASSUME NEW x \in Elements, x \notin Below(e)
       PROVE  bound'[x] = bound[x] /\ listening'[x] = listening[x]
  BY <1>3, <1>11
<1>12. ASSUME NEW x \in Elements
       PROVE  /\ listening'[x] = {o.type : o \in ToSet(bound'[x])}
              /\ \A o \in ToSet(bound'[x]) :
                   o.type = "live" /\ ~ handlers'[o.id].cut =>
                     \E h \in ToSet(bound'[x]) : h.fn = LiveHandler /\ h.type = o.orig
  <2>1. CASE x \in Below(e)
    BY <1>10, <2>1
  <2>2. CASE x \notin Below(e)
    BY <1>1, <1>3, <1>11, <2>2 DEF Listens, LiveServed, Objs
  <2>3. QED
    BY <2>1, <2>2
<1>13. Listens' /\ LiveServed'
  BY <1>12 DEF Listens, LiveServed, Objs
<1>14. /\ removed' \subseteq Elements /\ cache' \subseteq Elements
       /\ listening' \in [Elements -> SUBSET (EventTypes \cup {"live"})]
  BY <1>1, <1>3 DEF EventsTypeOK
<1>15. QED
  BY <1>3, <1>7, <1>9, <1>13, <1>14, CountsStay, GoneStep

--------------------------------------------------------------------------------
(* The next handler is called.                                                     *)

LEMMA TailEmbeds ==
  ASSUME NEW T, NEW s, s \in Seq(T), s # <<>>
  PROVE  /\ Tail(s) \in Seq(T) /\ \E m : Embeds(m, Tail(s), s)
         /\ Head(s) \in ToSet(s) /\ Head(s) = s[1] /\ 1 \in DOMAIN s
         /\ \A o \in ToSet(Tail(s)) : \E i \in DOMAIN s : i # 1 /\ o = s[i]
<1> DEFINE n == Len(s)
           t == Tail(s)
<1>1. n \in Nat \ {0} /\ DOMAIN s = 1..n
  BY EmptySeq, LenProperties
<1>2. /\ t \in Seq(T) /\ Len(t) = n - 1 /\ \A i \in 1..Len(t) : t[i] = s[i + 1]
  BY <1>1, HeadTailProperties
<1>3. DOMAIN t = 1..n - 1
  BY <1>2, LenProperties
<1>4. Head(s) = s[1] /\ 1 \in DOMAIN s
  BY <1>1
<1> HIDE DEF t
<1>5. \A i \in 1..n - 1 : i + 1 \in 1..n /\ i + 1 # 1
  BY <1>1
<1>6. Embeds([i \in 1..n - 1 |-> i + 1], t, s)
  BY <1>1, <1>2, <1>5 DEF Embeds
<1>7. \A o \in ToSet(t) : \E i \in DOMAIN s : i # 1 /\ o = s[i]
  BY <1>1, <1>2, <1>3, <1>5 DEF ToSet
<1>8. Head(s) \in ToSet(s)
  BY <1>4 DEF ToSet
<1>9. QED
  BY <1>2, <1>4, <1>6, <1>7, <1>8 DEF t

\* liveHandler is next.
LEMMA CallLiveStep ==
  ASSUME EventsInv, frames # <<>>, Current.left # <<>>,
         UNCHANGED <<store, removed, handlers, unbinds, events>>,
         LET rest == [Current EXCEPT !.left = Tail(@)]
         IN frames' = <<IF Current.fired = Current.cur THEN rest
                        ELSE [rest EXCEPT !.left = LiveCalls(Current) \o @,
                                          !.fired = Current.cur]>> \o Tail(frames)
  PROVE  EventsInv'
<1>1. PICK f : f = Current
  OBVIOUS
<1>2. /\ f \in EventFrame /\ Copy(f, handlers, bound) /\ f = Head(frames)
      /\ Types /\ Sorts
  BY <1>1, FrameKept DEF Current
<1>3. f.left \in Seq(Handler) /\ f.left # <<>>
  BY <1>1, <1>2 DEF EventFrame
<1>4. Tail(f.left) \in Seq(Handler) /\ \E m : Embeds(m, Tail(f.left), f.left)
  BY <1>3, TailEmbeds
<1>5. PICK rest : rest = [f EXCEPT !.left = Tail(f.left)]
  OBVIOUS
<1>6. /\ rest \in EventFrame /\ rest.left = Tail(f.left)
      /\ rest.cur = f.cur /\ rest.type = f.type
  BY <1>2, <1>4, <1>5 DEF EventFrame
<1>7. PICK m : Embeds(m, rest.left, f.left)
  BY <1>4, <1>6, Zenon
<1>8. CASE Current.fired = Current.cur
  <2>1. frames' = <<rest>> \o Tail(frames)
    BY <1>1, <1>5, <1>8
  <2>2. QED
    BY <1>1, <1>6, <1>7, <2>1, LeftStep
<1>9. CASE Current.fired # Current.cur
  <2>1. PICK c : c = LiveCalls(f)
    OBVIOUS
  <2>2. c \in Seq(Repeated)
    BY <1>2, <2>1, LiveCallsRepeat
  <2>3. Repeated \subseteq Handler
    BY DEF Repeated
  <2>4. c \in Seq(Handler) /\ ToSet(c) \subseteq Repeated
    BY <2>2, <2>3, SeqMonotonic, ToSetType
  <2>5. PICK g : g = [rest EXCEPT !.left = c \o rest.left, !.fired = f.cur]
    OBVIOUS
  <2>6. c \o rest.left \in Seq(Handler) /\ f.cur \in Elements
    BY <1>2, <1>4, <1>6, <2>4, ConcatProperties DEF EventFrame
  <2>7. /\ g \in EventFrame /\ g.left = c \o rest.left
        /\ g.cur = rest.cur /\ g.type = rest.type
    BY <1>6, <2>5, <2>6 DEF EventFrame
  <2>8. Copy(rest, handlers, bound) /\ \A id : HasId(rest, id) => HasId(f, id)
    BY <1>2, <1>6, <1>7, FewerLeft
  <2>9. \A o \in ToSet(c) : o.once = handlers[o.id].once /\ ~ handlers[o.id].once
    BY <2>4 DEF Repeated
  <2>10. /\ Copy(g, handlers, bound)
         /\ \A id : HasId(g, id) /\ handlers[id].once => HasId(rest, id)
    BY <1>6, <2>4, <2>7, <2>8, <2>9, MoreLeft
  <2>11. frames' = <<g>> \o Tail(frames)
    BY <1>1, <1>5, <1>9, <2>1, <2>5
  <2>12. \A id \in DOMAIN handlers :
           IsOnce(id) /\ HasId(g, id) => HasId(Head(frames), id)
    BY <1>2, <2>8, <2>10 DEF IsOnce
  <2>13. QED
    BY <2>7, <2>10, <2>11, <2>12, FrameStep DEF store
<1>10. QED
  BY <1>8, <1>9

\* The next handler is called: the count of calls goes up, and that of copies down.
LEMMA CountsCalled ==
  ASSUME EventsInv, EventsTypeOK', frames # <<>>,
         NEW f, f = Current, f.left # <<>>, NEW o, o = Head(f.left), CountCall(o),
         NEW g, g.left = Tail(f.left), frames' = <<g>> \o Tail(frames),
         \A id : HasId(g, id) => HasId(f, id),
         \A e \in Elements : Objs(e)' \subseteq Objs(e),
         o.once => \A e \in Elements : \A x \in Objs(e)' : x.id # o.id
  PROVE  Totals'
<1>1. /\ f \in EventFrame /\ Copy(f, handlers, bound) /\ f = Head(frames) /\ f = frames[1] /\ Types
      /\ Totals
  BY FrameKept DEF Current, EventsInv
<1>2. f.left \in Seq(Handler)
  BY <1>1 DEF EventFrame
<1>3. /\ o \in ToSet(f.left) /\ o = f.left[1] /\ 1 \in DOMAIN f.left
      /\ \A x \in ToSet(g.left) : \E i \in DOMAIN f.left : i # 1 /\ x = f.left[i]
  BY <1>2, TailEmbeds
<1>4. o \in Handler /\ o.id \in DOMAIN handlers
  BY <1>1, <1>3, LeftObjs
<1>5. /\ handlers \in Seq([once : BOOLEAN, n : Nat, cut : BOOLEAN]) /\ DOMAIN handlers = 1..Len(handlers)
      /\ handlers' = [handlers EXCEPT ![o.id].n = @ + 1]
  BY <1>1, LenProperties DEF Types, CountCall
<1>6. \A id \in DOMAIN handlers : handlers[id] \in [once : BOOLEAN, n : Nat, cut : BOOLEAN]
  BY <1>5, ElementOfSeq
<1>7. ASSUME NEW id \in DOMAIN handlers
      PROVE  /\ handlers'[id].once = handlers[id].once
             /\ handlers'[id].n = IF id = o.id THEN handlers[id].n + 1 ELSE handlers[id].n
  BY <1>4, <1>5, <1>6
<1>8. DOMAIN handlers' = DOMAIN handlers
  BY <1>5
<1>9. frames \in Seq(EventFrame)
  BY <1>1 DEF Types
<1> DEFINE n == Len(frames)
<1>10. /\ Len(frames') = n /\ n \in Nat \ {0} /\ DOMAIN frames = 1..n /\ DOMAIN frames' = 1..n
       /\ frames'[1] = g
  BY <1>9, Replaced
<1>11. ASSUME NEW id PROVE Copied(id)' \subseteq Copied(id)
  BY <1>1, <1>9, <1>11, CopiedReplaced
<1>12. ASSUME NEW id
       PROVE  IsFiniteSet(Copied(id)) /\ Cardinality(Copied(id)) \in Nat
  <2>1. Copied(id) \subseteq 1..n
    BY <1>10 DEF Copied
  <2> HIDE DEF n
  <2>2. QED
    BY <1>10, <2>1, SomeOfInterval
<1>13. MaxNested \in Nat
  BY EventsAssumption DEF EventsAssumption
<1>14. ASSUME NEW id \in DOMAIN handlers, handlers'[id].once
       PROVE  /\ (\E e \in Elements : \E x \in Objs(e)' : x.id = id) => handlers'[id].n = 0
              /\ handlers'[id].n + Cardinality(Copied(id)') <= MaxNested
  <2>1. IsOnce(id)
    BY <1>7, <1>14 DEF IsOnce
  <2> DEFINE old == Copied(id)
             new == Copied(id)'
             k == handlers[id].n
  <2>2. k \in Nat /\ k + Cardinality(old) <= MaxNested
    BY <1>1, <1>6, <2>1 DEF Totals
  <2>3. new \subseteq old /\ IsFiniteSet(old) /\ Cardinality(old) \in Nat
    BY <1>11, <1>12
  <2>4. Cardinality(new) \in Nat /\ Cardinality(new) <= Cardinality(old)
    BY <2>3, FS_Subset, FS_CardinalityType
  <2>5. CASE id # o.id
    <3>1. handlers'[id].n = k
      BY <1>7, <2>5
    <3>2. (\E e \in Elements : \E x \in Objs(e) : x.id = id) => k = 0
      BY <1>1, <2>1 DEF Totals
    <3>3. k + Cardinality(new) <= MaxNested
      <4> HIDE DEF k, new, old
      <4>1. QED
        BY <1>13, <2>2, <2>3, <2>4
    <3>4. QED
      BY <3>1, <3>2, <3>3
  <2>6. CASE id = o.id
    <3>1. handlers'[id].n = k + 1
      BY <1>7, <2>6
    <3>2. o.once
      BY <1>1, <1>3, <2>1, <2>6 DEF Copy, IsOnce
    <3>3. n \in old
      <4>1. n + 1 - n = 1 /\ n \in 1..n
        BY <1>10
      <4>2. o \in ToSet(Depth(n).left)
        BY <1>1, <1>3, <4>1 DEF Depth
      <4>3. QED
        BY <1>10, <2>6, <4>1, <4>2 DEF Copied
    <3>4. n \notin new
      <4>1. ASSUME n \in new PROVE FALSE
        <5>1. n + 1 - n = 1
          BY <1>10
        <5>2. \E x \in ToSet(g.left) : x.id = id
          BY <1>10, <4>1, <5>1 DEF Copied, Depth
        <5>3. PICK i \in DOMAIN f.left : i # 1 /\ f.left[i].id = id
          BY <1>3, <5>2
        <5>4. QED
          BY <1>1, <1>3, <2>1, <2>6, <5>3, SMTT(30) DEF Copy, IsOnce
      <4>2. QED
        BY <4>1
    <3>5. new \subseteq old \ {n}
      BY <2>3, <3>4
    <3>6. IsFiniteSet(old \ {n}) /\ Cardinality(old \ {n}) = Cardinality(old) - 1
      BY <2>3, <3>3, FS_RemoveElement
    <3>7. Cardinality(new) <= Cardinality(old) - 1
      BY <3>5, <3>6, FS_Subset
    <3>8. (k + 1) + Cardinality(new) <= MaxNested
      <4> HIDE DEF k, new, old, n
      <4>1. QED
        BY <1>13, <2>2, <2>3, <2>4, <3>7
    <3>9. QED
      BY <2>6, <3>1, <3>2, <3>8
  <2>7. QED
    BY <2>5, <2>6
<1>15. QED
  BY <1>8, <1>14 DEF Totals, IsOnce

LEMMA CallStep ==
  ASSUME EventsInv, Call
  PROVE  EventsInv'
<1>1. frames # <<>> /\ Current.running = Null /\ Current.left # <<>>
      /\ UNCHANGED <<removed, unbinds, events>>
  BY DEF Call
<1>2. CASE Head(Current.left).fn = LiveHandler
  <2>1. /\ frames' = <<IF Current.fired = Current.cur THEN [Current EXCEPT !.left = Tail(@)]
                       ELSE [[Current EXCEPT !.left = Tail(@)]
                                EXCEPT !.left = LiveCalls(Current) \o @,
                                       !.fired = Current.cur]>> \o Tail(frames)
        /\ UNCHANGED <<store, handlers>>
    BY <1>2 DEF Call
  <2>2. QED
    BY <1>1, <2>1, CallLiveStep
<1>3. CASE Head(Current.left).fn # LiveHandler
  <2>1. PICK f : f = Current
    OBVIOUS
  <2>2. PICK o : o = Head(f.left)
    OBVIOUS
  <2>3. PICK g : g = [f EXCEPT !.left = Tail(f.left), !.running = o]
    OBVIOUS
  <2> DEFINE e == f.cur
             G == Where(e, LAMBDA x : x.type = f.type /\ x.fn = o.fn)
  <2>4. /\ frames' = <<g>> \o Tail(frames) /\ CountCall(o)
        /\ IF o.once THEN Put(e, remove(Of(e), G, TRUE)) ELSE UNCHANGED store
    <3>1. frames' = <<[[Current EXCEPT !.left = Tail(@)] EXCEPT !.running = o]>> \o Tail(frames)
      BY <1>3, <2>1, <2>2 DEF Call
    <3>2. g = [[f EXCEPT !.left = Tail(@)] EXCEPT !.running = o]
      BY <2>3
    <3> DEFINE h == Head(Current.left)
               H == Where(Current.cur, LAMBDA x : x.type = Current.type /\ x.fn = h.fn)
    <3>3. /\ CountCall(h)
          /\ IF h.once THEN Put(Current.cur, remove(Of(Current.cur), H, TRUE))
             ELSE UNCHANGED store
      BY <1>3 DEF Call
    <3>4. H = {i \in DOMAIN bound[Current.cur] :
                 bound[Current.cur][i].type = Current.type /\ bound[Current.cur][i].fn = h.fn}
      BY DEF Where
    <3>5. G = {i \in DOMAIN bound[f.cur] : bound[f.cur][i].type = f.type /\ bound[f.cur][i].fn = o.fn}
      BY DEF Where
    <3>6. h = o
      BY <2>1, <2>2
    <3> HIDE DEF h, H, G
    <3>7. H = G
      BY <2>1, <3>4, <3>5, <3>6
    <3>8. IF o.once THEN Put(e, remove(Of(e), G, TRUE)) ELSE UNCHANGED store
      BY <2>1, <3>3, <3>6, <3>7
    <3>9. QED
      BY <2>1, <3>1, <3>2, <3>3, <3>6, <3>8
  <2>5. /\ f \in EventFrame /\ Copy(f, handlers, bound) /\ f = Head(frames) /\ Types
        /\ EventsTypeOK /\ Listens /\ LiveServed /\ Sorts /\ OnePlace /\ Copies
    BY <1>1, <2>1, FrameKept DEF Current, EventsInv
  <2>6. f.left \in Seq(Handler) /\ f.left # <<>> /\ e \in Elements
    BY <1>1, <2>1, <2>5 DEF EventFrame
  <2>7. /\ o \in ToSet(f.left) /\ Tail(f.left) \in Seq(Handler)
        /\ \E m : Embeds(m, Tail(f.left), f.left)
    BY <2>2, <2>6, TailEmbeds
  <2>8. o \in Handler /\ o.id \in DOMAIN handlers
    BY <2>5, <2>7, LeftObjs
  <2>9. /\ g \in EventFrame /\ g.left = Tail(f.left) /\ g.cur = f.cur /\ g.type = f.type
    BY <2>3, <2>5, <2>7, <2>8 DEF EventFrame
  <2>10. Copy(g, handlers, bound) /\ \A id : HasId(g, id) => HasId(f, id)
    <3>1. PICK m : Embeds(m, g.left, f.left)
      BY <2>7, <2>9, Zenon
    <3>2. QED
      BY <2>5, <2>9, <3>1, FewerLeft
  <2>11. /\ handlers \in Seq([once : BOOLEAN, n : Nat, cut : BOOLEAN])
         /\ handlers' = [handlers EXCEPT ![o.id].n = @ + 1]
         /\ DOMAIN handlers = 1..Len(handlers)
    BY <2>4, <2>5, LenProperties DEF Types, CountCall
  <2>12. \A id \in DOMAIN handlers : handlers[id] \in [once : BOOLEAN, n : Nat, cut : BOOLEAN]
    BY <2>11, ElementOfSeq
  <2>13. SameOnce /\ CutStays
    <3>1. ASSUME NEW id \in DOMAIN handlers
          PROVE  handlers'[id].once = handlers[id].once /\ handlers'[id].cut = handlers[id].cut
      BY <2>8, <2>11, <2>12
    <3>2. DOMAIN handlers' = DOMAIN handlers
      BY <2>11
    <3>3. QED
      BY <3>1, <3>2 DEF SameOnce, CutStays
  <2>14. /\ handlers' \in Seq([once : BOOLEAN, n : Nat, cut : BOOLEAN]) /\ Len(handlers') = Len(handlers)
    <3> DEFINE h == handlers[o.id]
    <3>1. [h EXCEPT !.n = @ + 1] \in [once : BOOLEAN, n : Nat, cut : BOOLEAN]
      BY <2>8, <2>12
    <3>2. handlers' = [handlers EXCEPT ![o.id] = [h EXCEPT !.n = @ + 1]]
      BY <2>11
    <3>3. o.id \in 1..Len(handlers)
      BY <2>8, <2>11
    <3> HIDE DEF h
    <3>4. QED
      BY <2>11, <3>1, <3>2, <3>3, ExceptSeq
  <2>15. /\ Shrink /\ Listens' /\ LiveServed' /\ Sorts' /\ OnePlace'
         /\ cache' \subseteq Elements
         /\ listening' \in [Elements -> SUBSET (EventTypes \cup {"live"})]
         /\ \A x \in Elements : ToSet(bound'[x]) \subseteq Objs(x)
         /\ o.once => \A y \in Elements : \A x \in ToSet(bound'[y]) : x.id # o.id
    <3>1. CASE ~ o.once
      <4>1. bound' = bound /\ listening' = listening /\ cache' = cache
        BY <2>4, <3>1 DEF store
      <4>2. Shrink
        BY <2>5, <4>1, ShrinkSame
      <4>3. Sorts' /\ OnePlace'
        BY <2>5, <2>13, <4>2, KindsLeft, OnePlaceLeft
      <4>4. Listens' /\ LiveServed'
        <5>1. Listens'
          BY <2>5, <4>1 DEF Listens, Objs
        <5>2. \A y \in Elements : \A x \in Objs(y) : handlers[x.id].cut => handlers'[x.id].cut
          BY <2>5, <2>13, IdOfObj, Zenon DEF CutStays
        <5>3. LiveServed'
          BY <2>5, <4>1, <5>2 DEF LiveServed, Objs
        <5>4. QED
          BY <5>1, <5>3
      <4>5. QED
        BY <2>5, <3>1, <4>1, <4>2, <4>3, <4>4 DEF EventsTypeOK, Objs
    <3>2. CASE o.once
      <4>1. Put(e, remove(Of(e), G, TRUE))
        BY <2>4, <3>2
      <4>2. /\ G \subseteq DOMAIN bound[e] /\ \A i \in G : bound[e][i].fn # LiveHandler
            /\ \A i \in DOMAIN bound[e] : bound[e][i] = o /\ o.type = f.type => i \in G
        BY <1>3, <2>1, <2>2 DEF Where
      <4> HIDE DEF e, G
      <4>3. /\ Shrink /\ Listens' /\ LiveServed' /\ Sorts' /\ OnePlace'
            /\ cache' \subseteq Elements
            /\ listening' \in [Elements -> SUBSET (EventTypes \cup {"live"})]
            /\ \A x \in Elements : ToSet(bound'[x]) \subseteq Objs(x)
            /\ \E L : LeftOf(e, G, TRUE, L)
        <5>1. Served(e, G)
          BY <4>2 DEF Served
        <5>2. QED
          BY <2>6, <2>13, <4>1, <4>2, <5>1, Unbound
      <4>4. PICK L : LeftOf(e, G, TRUE, L)
        BY <4>3
      <4>5. ASSUME NEW y \in Elements, NEW x \in ToSet(bound'[y]), x.id = o.id PROVE FALSE
        <5>1. x \in ToSet(bound[y])
          BY <4>3 DEF Objs
        <5>2. handlers[o.id].once /\ o.type = f.type
          BY <2>5, <2>7, <3>2 DEF Copy
        <5>3. y = e /\ x = o
          BY <2>5, <2>7, <4>5, <5>1, <5>2 DEF Copy, e
        <5>4. PICK i \in L : o = bound[e][i]
          BY <4>4, <5>3 DEF LeftOf
        <5>5. i \in DOMAIN bound[e] /\ i \notin G
          BY <4>4 DEF LeftOf
        <5>6. QED
          BY <4>2, <5>2, <5>4, <5>5
      <4>6. QED
        BY <4>3, <4>5
    <3>3. QED
      BY <3>1, <3>2
  <2>16. /\ Len(frames') = Len(frames) /\ Len(frames) \in Nat \ {0}
         /\ DOMAIN frames = 1..Len(frames) /\ DOMAIN frames' = 1..Len(frames)
         /\ frames'[1] = g /\ \A k \in 2..Len(frames) : frames'[k] = frames[k]
    BY <1>1, <2>4, <2>5, Replaced DEF Types
  <2>17. frames' \in Seq(EventFrame)
    <3>1. Tail(frames) \in Seq(EventFrame) /\ <<g>> \in Seq(EventFrame)
      BY <1>1, <2>5, <2>9, HeadTailProperties DEF Types
    <3>2. QED
      BY <2>4, <3>1, ConcatProperties
  <2>18. Handler' = Handler
    BY <2>14 DEF Handler
  <2>19. EventFrame' = EventFrame
    BY <2>18 DEF EventFrame
  <2>20. EventsTypeOK'
    BY <1>1, <2>5, <2>14, <2>15, <2>16, <2>17, <2>18, <2>19 DEF EventsTypeOK, Shrink
  <2>21. Copies'
    <3>1. Copy(g, handlers', bound')
      BY <2>5, <2>9, <2>10, <2>13, <2>15, CopyLeft
    <3>2. ASSUME NEW k \in DOMAIN frames'
          PROVE  \/ \E j \in DOMAIN frames : frames'[k] = frames[j]
                 \/ Copy(frames'[k], handlers', bound')
      <4>1. CASE k = 1
        BY <2>16, <3>1, <4>1
      <4>2. CASE k # 1
        <5>1. k \in 2..Len(frames) /\ k \in DOMAIN frames
          BY <2>16, <4>2
        <5>2. QED
          BY <2>16, <5>1
      <4>3. QED
        BY <4>1, <4>2
    <3>3. QED
      BY <2>5, <2>13, <2>15, <3>2, CopiesKept
  <2>22. Totals'
    <3>1. \A x \in Elements : Objs(x)' \subseteq Objs(x)
      BY <2>15 DEF Objs
    <3>2. o.once => \A y \in Elements : \A x \in Objs(y)' : x.id # o.id
      BY <2>15 DEF Objs
    <3>3. QED
      BY <1>1, <2>1, <2>2, <2>4, <2>6, <2>9, <2>10, <2>20, <3>1, <3>2, CountsCalled
  <2>23. QED
    BY <2>15, <2>20, <2>21, <2>22 DEF EventsInv
<1>4. QED
  BY <1>2, <1>3

--------------------------------------------------------------------------------
(* Handlers are bound.                                                             *)

\* An element gets the handlers S, with a new id.
Gains(e, S, once) ==
  /\ bound' \in [Elements -> Seq(Handler')]
  /\ \A x \in Elements \ {e} : bound'[x] = bound[x]
  /\ ToSet(bound'[e]) = Objs(e) \cup S
  /\ \A o \in S : o.id = Len(handlers) + 1 /\ o.once = once
  /\ \A i \in DOMAIN bound'[e] :
       \/ i \in DOMAIN bound[e] /\ bound'[e][i] = bound[e][i]
       \/ bound'[e][i] \in S /\ (once => i = Len(bound[e]) + 1)
  /\ listening' = [listening EXCEPT ![e] = @ \cup {o.type : o \in S}]
  /\ handlers' = Append(handlers, [once |-> once, n |-> 0, cut |-> FALSE])

NewKinds(S) ==
  /\ \A o \in S : /\ o.type \in EventTypes \cup {"live"}
                  /\ o.type = "live" => ~ o.once /\ o.fn \in Fns /\ o.ns = ""
                  /\ o.type # "live" => o.orig = Null
                  /\ o.fn = LiveHandler => ~ o.once /\ o.type # "live" /\ o.ns = ""
  /\ \A o \in S : o.type = "live" => \E h \in S : h.fn = LiveHandler /\ h.type = o.orig

LEMMA Appended ==
  ASSUME NEW T, NEW s, s \in Seq(T), NEW x, x \in T, NEW t, t = Append(s, x)
  PROVE  /\ Len(s) \in Nat /\ DOMAIN s = 1..Len(s)
         /\ Len(t) = Len(s) + 1 /\ DOMAIN t = 1..Len(s) + 1 /\ t \in Seq(T)
         /\ \A i \in 1..Len(s) : t[i] = s[i]
         /\ t[Len(s) + 1] = x
  BY AppendProperties, LenProperties

LEMMA GainStep ==
  ASSUME EventsInv, NEW e, e \in Elements, NEW S, NEW once, once \in BOOLEAN, Gains(e, S, once),
         UNCHANGED <<removed, frames, events, unbinds>>, cache' \subseteq Elements,
         NewKinds(S)
  PROVE  EventsInv'
<1>1. /\ EventsTypeOK /\ Types /\ Listens /\ LiveServed /\ Sorts /\ OnePlace /\ Copies /\ Totals
  BY TypesOf DEF EventsInv
<1> DEFINE n == Len(handlers)
<1>2. handlers \in Seq([once : BOOLEAN, n : Nat, cut : BOOLEAN]) /\ [once |-> once, n |-> 0, cut |-> FALSE] \in [once : BOOLEAN, n : Nat, cut : BOOLEAN]
  BY <1>1 DEF Types
<1>3. /\ n \in Nat /\ DOMAIN handlers = 1..n /\ DOMAIN handlers' = 1..n + 1 /\ Len(handlers') = n + 1
      /\ handlers' \in Seq([once : BOOLEAN, n : Nat, cut : BOOLEAN])
      /\ \A id \in 1..n : handlers'[id] = handlers[id]
      /\ handlers'[n + 1] = [once |-> once, n |-> 0, cut |-> FALSE]
  <2>1. handlers' = Append(handlers, [once |-> once, n |-> 0, cut |-> FALSE])
    BY DEF Gains
  <2>2. QED
    BY <1>2, <2>1, Appended
<1>4. n + 1 \notin 1..n /\ \A id \in 1..n : id \in 1..n + 1
  <2>1. \A m \in Nat : m + 1 \notin 1..m /\ \A id \in 1..m : id \in 1..m + 1
    OBVIOUS
  <2> HIDE DEF n
  <2>2. QED
    BY <1>3, <2>1
<1>5. Seq(Handler) \subseteq Seq(Handler') /\ Seq(EventFrame) \subseteq Seq(EventFrame')
  <2>1. Len(handlers) \in Nat /\ Len(handlers)' \in Nat /\ Len(handlers)' = Len(handlers) + 1
    BY <1>3
  <2>2. \A a, b \in Nat : b = a + 1 => a <= b
    OBVIOUS
  <2>3. Len(handlers) <= Len(handlers)'
    BY <2>1, <2>2
  <2>4. QED
    BY <2>1, <2>3, HandlersGrow
<1>6. listening' \in [Elements -> SUBSET (EventTypes \cup {"live"})]
  <2>1. {o.type : o \in S} \subseteq EventTypes \cup {"live"}
    BY DEF NewKinds
  <2>2. listening \in [Elements -> SUBSET (EventTypes \cup {"live"})]
    BY <1>1 DEF EventsTypeOK
  <2>3. listening' = [listening EXCEPT ![e] = @ \cup {o.type : o \in S}]
    BY DEF Gains
  <2>4. QED
    BY <2>1, <2>2, <2>3
<1>7. EventsTypeOK'
  BY <1>1, <1>3, <1>5, <1>6 DEF EventsTypeOK, Gains
<1>8. \A x \in Elements : \A o \in Objs(x) : o.id \in 1..n
  BY <1>1, <1>3, IdOfObj
<1>9. ASSUME NEW x \in Elements
      PROVE  /\ listening'[x] = {o.type : o \in ToSet(bound'[x])}
             /\ \A o \in ToSet(bound'[x]) :
                  o.type = "live" /\ ~ handlers'[o.id].cut =>
                    \E h \in ToSet(bound'[x]) : h.fn = LiveHandler /\ h.type = o.orig
             /\ \A o \in ToSet(bound'[x]) :
                  /\ o.once = handlers'[o.id].once
                  /\ o.type = "live" => ~ o.once /\ o.fn \in Fns /\ o.ns = ""
                  /\ o.type # "live" => o.orig = Null
                  /\ o.fn = LiveHandler => ~ o.once /\ o.type # "live" /\ o.ns = ""
  <2>1. \A o \in Objs(x) : handlers'[o.id] = handlers[o.id]
    BY <1>3, <1>8
  <2>2. CASE x # e
    <3>1. bound'[x] = bound[x] /\ listening'[x] = listening[x]
      BY <1>1, <2>2 DEF Gains, EventsTypeOK
    <3>2. ToSet(bound'[x]) = Objs(x)
      BY <3>1 DEF Objs
    <3>3. listening'[x] = {o.type : o \in Objs(x)}
      BY <1>1, <3>1 DEF Listens
    <3>4. \A o \in Objs(x) : o.type = "live" /\ ~ handlers'[o.id].cut =>
                              \E h \in Objs(x) : h.fn = LiveHandler /\ h.type = o.orig
      BY <1>1, <2>1 DEF LiveServed
    <3>5. \A o \in Objs(x) : /\ o.once = handlers'[o.id].once
                             /\ o.type = "live" => ~ o.once /\ o.fn \in Fns /\ o.ns = ""
                             /\ o.type # "live" => o.orig = Null
                             /\ o.fn = LiveHandler => ~ o.once /\ o.type # "live" /\ o.ns = ""
      BY <1>1, <2>1 DEF Sorts
    <3>6. QED
      BY <3>2, <3>3, <3>4, <3>5
  <2>3. CASE x = e
    <3>1. ToSet(bound'[e]) = Objs(e) \cup S
      BY DEF Gains
    <3>2. listening'[e] = listening[e] \cup {o.type : o \in S}
      BY <1>1 DEF Gains, EventsTypeOK
    <3>3. \A o \in S : o.once = handlers'[o.id].once
      <4>1. handlers'[n + 1].once = once
        BY <1>3
      <4>2. \A o \in S : o.id = n + 1 /\ o.once = once
        BY DEF Gains
      <4>3. QED
        BY <4>1, <4>2
    <3>4. listening[e] = {o.type : o \in Objs(e)}
      BY <1>1 DEF Listens
    <3>5. \A o \in Objs(e) : /\ o.type = "live" /\ ~ handlers'[o.id].cut =>
                                  \E h \in Objs(e) : h.fn = LiveHandler /\ h.type = o.orig
                             /\ o.once = handlers'[o.id].once
                             /\ o.type = "live" => ~ o.once /\ o.fn \in Fns /\ o.ns = ""
                             /\ o.type # "live" => o.orig = Null
                             /\ o.fn = LiveHandler => ~ o.once /\ o.type # "live" /\ o.ns = ""
      BY <1>1, <2>1, <2>3 DEF LiveServed, Sorts
    <3>6. QED
      BY <2>3, <3>1, <3>2, <3>3, <3>4, <3>5, ZenonT(60) DEF NewKinds
  <2>4. QED
    BY <2>2, <2>3
<1>10. Listens' /\ LiveServed' /\ Sorts'
  BY <1>9 DEF Listens, LiveServed, Sorts, Objs
<1>11. ASSUME NEW x \in Elements, NEW i \in DOMAIN bound'[x]
       PROVE  \/ /\ i \in DOMAIN bound[x] /\ bound'[x][i] = bound[x][i]
                 /\ bound'[x][i].id \in 1..n
                 /\ handlers'[bound'[x][i].id].once = IsOnce(bound[x][i].id)
              \/ /\ x = e /\ bound'[x][i].id = n + 1
                 /\ once => i = Len(bound[e]) + 1
                 /\ handlers'[bound'[x][i].id].once = once
  <2>1. CASE i \in DOMAIN bound[x] /\ bound'[x][i] = bound[x][i]
    <3>1. bound[x][i] \in Objs(x)
      BY <2>1 DEF Objs, ToSet
    <3>2. QED
      BY <1>3, <1>8, <2>1, <3>1 DEF IsOnce
  <2>2. CASE x = e /\ bound'[e][i] \in S /\ (once => i = Len(bound[e]) + 1)
    BY <1>3, <2>2 DEF Gains
  <2>3. QED
    BY <1>11, <2>1, <2>2 DEF Gains
<1>12. OnePlace'
  <2>1. SUFFICES ASSUME NEW x \in Elements, NEW y \in Elements,
                        NEW i \in DOMAIN bound'[x], NEW j \in DOMAIN bound'[y],
                        bound'[x][i].id = bound'[y][j].id, handlers'[bound'[x][i].id].once
                 PROVE  x = y /\ i = j
    BY DEF OnePlace, IsOnce
  <2>2. CASE bound'[x][i].id = n + 1
    <3>1. bound'[y][j].id = n + 1
      BY <2>1, <2>2
    <3>2. x = e /\ (once => i = Len(bound[e]) + 1) /\ handlers'[n + 1].once = once
      BY <1>4, <1>11, <2>2
    <3>3. y = e /\ (once => j = Len(bound[e]) + 1)
      BY <1>4, <1>11, <3>1
    <3>4. once
      BY <2>1, <2>2, <3>2
    <3>5. QED
      BY <3>2, <3>3, <3>4
  <2>3. CASE bound'[x][i].id # n + 1
    <3>1. i \in DOMAIN bound[x] /\ bound'[x][i] = bound[x][i] /\ IsOnce(bound[x][i].id)
      BY <1>11, <2>1, <2>3
    <3>2. j \in DOMAIN bound[y] /\ bound'[y][j] = bound[y][j]
      BY <1>11, <2>1, <2>3
    <3>3. QED
      BY <1>1, <2>1, <3>1, <3>2 DEF OnePlace
  <2>4. QED
    BY <2>2, <2>3
<1>13. ASSUME NEW f \in EventFrame, NEW o \in ToSet(f.left)
       PROVE  o.id \in 1..n /\ handlers'[o.id] = handlers[o.id]
  BY <1>1, <1>3, LeftObjs
<1>14. ASSUME NEW f \in EventFrame, Copy(f, handlers, bound)
       PROVE  Copy(f, handlers', bound')
  <2>1. ASSUME NEW i \in DOMAIN f.left, NEW j \in DOMAIN f.left,
               f.left[i].id = f.left[j].id, handlers'[f.left[i].id].once
        PROVE  i = j
    <3>1. f.left[i] \in ToSet(f.left)
      BY DEF ToSet
    <3>2. handlers[f.left[i].id].once
      BY <1>13, <2>1, <3>1
    <3>3. QED
      BY <1>14, <2>1, <3>2 DEF Copy
  <2>2. ASSUME NEW o \in ToSet(f.left)
        PROVE  /\ o.once = handlers'[o.id].once
               /\ handlers'[o.id].once =>
                    /\ o.type = f.type
                    /\ \A y \in Elements : \A x \in ToSet(bound'[y]) :
                         x.id = o.id => y = f.cur /\ x = o
    <3>1. o.id \in 1..n /\ handlers'[o.id] = handlers[o.id]
      BY <1>13
    <3>2. /\ o.once = handlers[o.id].once /\ (handlers[o.id].once => o.type = f.type)
      BY <1>14 DEF Copy
    <3>3. ASSUME handlers[o.id].once, NEW y \in Elements, NEW x \in ToSet(bound'[y]), x.id = o.id
          PROVE  y = f.cur /\ x = o
      <4>1. x \in ToSet(bound[y])
        BY <1>4, <3>1, <3>3 DEF Gains, Objs
      <4>2. QED
        BY <1>14, <3>3, <4>1 DEF Copy
    <3>4. QED
      BY <3>1, <3>2, <3>3
  <2>3. QED
    BY <2>1, <2>2 DEF Copy
<1>15. \A k \in DOMAIN frames : frames[k] \in EventFrame
  BY <1>1, LenProperties, ElementOfSeq DEF Types
<1>16. Copies'
  BY <1>1, <1>14, <1>15 DEF Copies
<1>17. \A id : Copied(id)' = Copied(id)
  BY DEF Copied, Depth
<1>18. Copied(n + 1) = {}
  <2>1. ASSUME NEW d \in Copied(n + 1) PROVE FALSE
    <3>1. d \in DOMAIN frames /\ \E o \in ToSet(Depth(d).left) : o.id = n + 1
      BY <2>1 DEF Copied
    <3>2. d \in 1..Len(frames) /\ DOMAIN frames = 1..Len(frames) /\ Len(frames) \in Nat
      BY <1>1, <3>1, LenProperties DEF Types
    <3>3. Len(frames) + 1 - d \in DOMAIN frames
      <4> DEFINE m == Len(frames)
      <4> HIDE DEF m
      <4>1. m + 1 - d \in 1..m
        BY <3>2 DEF m
      <4>2. QED
        BY <3>2, <4>1 DEF m
    <3>4. Depth(d) \in EventFrame
      BY <1>15, <3>3 DEF Depth
    <3>5. QED
      BY <1>4, <1>13, <3>1, <3>4
  <2>2. QED
    BY <2>1
<1>19. MaxNested \in Nat
  BY EventsAssumption DEF EventsAssumption
<1>20. ASSUME NEW id \in DOMAIN handlers', handlers'[id].once
       PROVE  /\ (\E x \in Elements : \E o \in ToSet(bound'[x]) : o.id = id) => handlers'[id].n = 0
              /\ handlers'[id].n + Cardinality(Copied(id)) <= MaxNested
  <2>1. CASE id = n + 1
    <3>1. handlers'[id].n = 0
      BY <1>3, <2>1
    <3>2. Cardinality(Copied(id)) = 0
      BY <1>18, <2>1, FS_EmptySet
    <3>3. QED
      BY <1>19, <3>1, <3>2
  <2>2. CASE id # n + 1
    <3>1. id \in DOMAIN handlers /\ handlers'[id] = handlers[id]
      BY <1>3, <2>2
    <3>2. ASSUME NEW x \in Elements, NEW o \in ToSet(bound'[x]), o.id = id
          PROVE  o \in Objs(x)
      BY <2>2, <3>2 DEF Gains, Objs
    <3>3. QED
      BY <1>1, <1>20, <3>1, <3>2 DEF Totals, IsOnce
  <2>3. QED
    BY <2>1, <2>2
<1>21. Totals'
  BY <1>17, <1>20 DEF Totals, IsOnce, Objs
<1>22. QED
  BY <1>7, <1>10, <1>12, <1>16, <1>21 DEF EventsInv

LEMMA NextOfInterval ==
  ASSUME NEW n, n \in Nat
  PROVE  /\ n <= n + 1 /\ n + 1 \in 1..n + 1
         /\ \A i \in 1..n : i \in 1..n + 1
         /\ \A i \in 1..n + 1 : i \in 1..n \/ i = n + 1
  OBVIOUS

LEMMA HandlersAppended ==
  ASSUME Types, NEW x, handlers' = Append(handlers, x), x \in [once : BOOLEAN, n : Nat, cut : BOOLEAN]
  PROVE  /\ Len(handlers) + 1 \in 1..Len(handlers')
         /\ Handler \subseteq Handler' /\ Seq(Handler) \subseteq Seq(Handler')
<1>1. Len(handlers) \in Nat /\ Len(handlers') = Len(handlers) + 1
  BY Appended DEF Types
<1>2. Len(handlers) + 1 \in 1..Len(handlers) + 1 /\ Len(handlers) <= Len(handlers) + 1
  BY <1>1, NextOfInterval
<1>3. Len(handlers)' \in Nat /\ Len(handlers) <= Len(handlers)'
  BY <1>1, <1>2
<1>4. QED
  BY <1>1, <1>2, <1>3, HandlersGrow

Names(type, ns, fn, b, orig, sel) ==
  /\ type \in EventTypes \cup {"live"} /\ ns \in Namespaces \cup {""}
  /\ fn \in Fns \cup {LiveHandler} /\ b \in BOOLEAN
  /\ orig \in EventTypes \cup {Null} /\ sel \in Selectors \cup {Null}

Made(o, type, ns, fn, b, orig) ==
  /\ o \in Handler' /\ o.id = Len(handlers) + 1 /\ o.type = type /\ o.ns = ns
  /\ o.fn = fn /\ o.once = b /\ o.orig = orig

\* What handleObj makes.
LEMMA NewObj ==
  ASSUME Len(handlers) + 1 \in 1..Len(handlers'),
         NEW type, NEW ns, NEW fn, NEW b, NEW orig, NEW sel, Names(type, ns, fn, b, orig, sel)
  PROVE  Made(handleObj(type, ns, fn, b, orig, sel), type, ns, fn, b, orig)
<1> DEFINE o == handleObj(type, ns, fn, b, orig, sel)
           id == Len(handlers) + 1
<1>1. o = [id |-> id, type |-> type, ns |-> ns, fn |-> fn, once |-> b,
           orig |-> orig, sel |-> sel, at |-> Null]
  BY DEF handleObj
<1>2. id \in 1..Len(handlers')
  OBVIOUS
<1> HIDE DEF o, id
<1>3. o \in [id : 1..Len(handlers'), type : EventTypes \cup {"live"}, ns : Namespaces \cup {""},
             fn : Fns \cup {LiveHandler}, once : BOOLEAN, orig : EventTypes \cup {Null},
             sel : Selectors \cup {Null}, at : Elements \cup {Null}]
  BY <1>1, <1>2 DEF Names
<1>4. o \in Handler'
  BY <1>3 DEF Handler
<1>5. /\ o.id = id /\ o.type = type /\ o.ns = ns
      /\ o.fn = fn /\ o.once = b /\ o.orig = orig
  BY <1>1
<1>6. QED
  BY <1>4, <1>5 DEF o, id, Made

\* What add makes of an element.
LEMMA AddedOne ==
  ASSUME EventsInv, NEW e, e \in Elements, NEW b, handlers' = Append(handlers, [once |-> b, n |-> 0, cut |-> FALSE]),
         NEW o, o \in Handler', o.id = Len(handlers) + 1, o.once = b,
         Seq(Handler) \subseteq Seq(Handler'),
         bound' = [bound EXCEPT ![e] = Append(@, o)],
         listening' = [listening EXCEPT ![e] = @ \cup {o.type}]
  PROVE  Gains(e, {o}, b)
<1>1. bound \in [Elements -> Seq(Handler)]
  BY FrameKept DEF Types
<1>2. bound[e] \in Seq(Handler')
  BY <1>1
<1>3. PICK t : t = Append(bound[e], o)
  OBVIOUS
<1> DEFINE k == Len(bound[e])
<1>4. /\ DOMAIN bound[e] = 1..k /\ DOMAIN t = 1..k + 1 /\ t \in Seq(Handler')
      /\ \A i \in 1..k : t[i] = bound[e][i]
      /\ t[k + 1] = o /\ k \in Nat
  BY <1>2, <1>3, Appended
<1>5. ToSet(t) = Objs(e) \cup {o}
  BY <1>2, <1>3, ToSetAppend DEF Objs
<1>6. bound' \in [Elements -> Seq(Handler')] /\ bound'[e] = t
      /\ \A x \in Elements \ {e} : bound'[x] = bound[x]
  BY <1>1, <1>3, <1>4
<1>7. \A i \in 1..k + 1 : i \in 1..k \/ i = k + 1
  BY <1>4, NextOfInterval
<1>8. \A i \in DOMAIN bound'[e] :
        \/ i \in DOMAIN bound[e] /\ bound'[e][i] = bound[e][i]
        \/ bound'[e][i] \in {o} /\ (b => i = Len(bound[e]) + 1)
  BY <1>4, <1>6, <1>7
<1>9. listening' = [listening EXCEPT ![e] = @ \cup {y.type : y \in {o}}]
  <2>1. {y.type : y \in {o}} = {o.type}
    OBVIOUS
  <2>2. QED
    BY <2>1
<1>10. \A y \in {o} : y.id = Len(handlers) + 1 /\ y.once = b
  OBVIOUS
<1>11. ToSet(bound'[e]) = Objs(e) \cup {o}
  BY <1>5, <1>6
<1>12. QED
  BY <1>6, <1>8, <1>9, <1>10, <1>11 DEF Gains

LEMMA AddedTwo ==
  ASSUME EventsInv, NEW e, e \in Elements, handlers' = Append(handlers, [once |-> FALSE, n |-> 0, cut |-> FALSE]),
         NEW h, h \in Handler', h.id = Len(handlers) + 1, h.once = FALSE,
         NEW o, o \in Handler', o.id = Len(handlers) + 1, o.once = FALSE,
         Seq(Handler) \subseteq Seq(Handler'),
         bound' = [bound EXCEPT ![e] = Append(Append(@, h), o)],
         listening' = [listening EXCEPT ![e] = (@ \cup {h.type}) \cup {o.type}]
  PROVE  Gains(e, {h, o}, FALSE)
<1>1. bound \in [Elements -> Seq(Handler)]
  BY FrameKept DEF Types
<1>2. bound[e] \in Seq(Handler')
  BY <1>1
<1>3. PICK s : s = Append(bound[e], h)
  OBVIOUS
<1>4. PICK t : t = Append(s, o)
  OBVIOUS
<1> DEFINE k == Len(bound[e])
<1>5. /\ DOMAIN bound[e] = 1..k /\ Len(s) = k + 1 /\ s \in Seq(Handler')
      /\ \A i \in 1..k : s[i] = bound[e][i]
      /\ s[k + 1] = h /\ k \in Nat
  BY <1>2, <1>3, Appended
<1>6. /\ DOMAIN t = 1..Len(s) + 1 /\ t \in Seq(Handler')
      /\ \A i \in 1..Len(s) : t[i] = s[i]
      /\ t[Len(s) + 1] = o /\ Len(s) \in Nat
  BY <1>4, <1>5, Appended
<1>7. ToSet(t) = Objs(e) \cup {h, o}
  <2>1. ToSet(s) = Objs(e) \cup {h}
    BY <1>2, <1>3, ToSetAppend DEF Objs
  <2>2. ToSet(t) = ToSet(s) \cup {o}
    BY <1>4, <1>5, ToSetAppend
  <2>3. QED
    BY <2>1, <2>2
<1>8. bound' \in [Elements -> Seq(Handler')] /\ bound'[e] = t
      /\ \A x \in Elements \ {e} : bound'[x] = bound[x]
  BY <1>1, <1>3, <1>4, <1>6
<1>9. /\ \A i \in 1..Len(s) + 1 : i \in 1..Len(s) \/ i = Len(s) + 1
      /\ \A i \in 1..k + 1 : i \in 1..k \/ i = k + 1
  BY <1>5, <1>6, NextOfInterval
<1>10. \A i \in DOMAIN bound'[e] :
         \/ i \in DOMAIN bound[e] /\ bound'[e][i] = bound[e][i]
         \/ bound'[e][i] \in {h, o}
  <2>1. ASSUME NEW i \in 1..Len(s) + 1
        PROVE  (i \in 1..k /\ t[i] = bound[e][i]) \/ t[i] \in {h, o}
    <3>1. CASE i = Len(s) + 1
      BY <1>6, <3>1
    <3>2. CASE i \in 1..Len(s)
      <4>1. t[i] = s[i] /\ i \in 1..k + 1
        BY <1>5, <1>6, <3>2
      <4>2. QED
        BY <1>5, <1>9, <4>1
    <3>3. QED
      BY <1>9, <3>1, <3>2
  <2>2. QED
    BY <1>5, <1>6, <1>8, <2>1
<1>11. listening' = [listening EXCEPT ![e] = @ \cup {y.type : y \in {h, o}}]
  <2>1. {y.type : y \in {h, o}} = {h.type} \cup {o.type}
    OBVIOUS
  <2>2. \A l : l \cup ({h.type} \cup {o.type}) = (l \cup {h.type}) \cup {o.type}
    OBVIOUS
  <2>3. QED
    BY <2>1, <2>2
<1>12. \A y \in {h, o} : y.id = Len(handlers) + 1 /\ y.once = FALSE
  OBVIOUS
<1>13. ToSet(bound'[e]) = Objs(e) \cup {h, o}
  BY <1>7, <1>8
<1>14. QED
  BY <1>8, <1>10, <1>11, <1>12, <1>13 DEF Gains

LEMMA BindStep ==
  ASSUME EventsInv, NEW e, e \in Elements, bind(e)
  PROVE  EventsInv'
<1>1. PICK type \in EventTypes, ns \in Namespaces \cup {""}, fn \in Fns, b \in BOOLEAN :
        /\ Put(e, add(Of(e), handleObj(type, ns, fn, b, Null, Null)))
        /\ handlers' = Append(handlers, [once |-> b, n |-> 0, cut |-> FALSE])
  BY DEF bind
<1>2. UNCHANGED <<unbinds, removed, frames, events>>
  BY DEF bind, Still
<1>3. Types /\ EventsTypeOK
  BY FrameKept DEF EventsInv
<1>4. PICK o : o = handleObj(type, ns, fn, b, Null, Null)
  OBVIOUS
<1>5. [once |-> b, n |-> 0, cut |-> FALSE] \in [once : BOOLEAN, n : Nat, cut : BOOLEAN]
  OBVIOUS
<1>6. Len(handlers) + 1 \in 1..Len(handlers') /\ Seq(Handler) \subseteq Seq(Handler')
  BY <1>1, <1>3, <1>5, HandlersAppended
<1>7. /\ o \in Handler' /\ o.id = Len(handlers) + 1 /\ o.type = type /\ o.ns = ns
      /\ o.fn = fn /\ o.once = b /\ o.orig = Null
  <2>1. Names(type, ns, fn, b, Null, Null)
    BY DEF Names
  <2>2. Made(o, type, ns, fn, b, Null)
    BY <1>4, <1>6, <2>1, NewObj, Zenon
  <2>3. QED
    BY <2>2 DEF Made
<1>8. /\ bound' = [bound EXCEPT ![e] = Append(@, o)]
      /\ listening' = [listening EXCEPT ![e] = @ \cup {o.type}]
      /\ cache' = cache \cup {e}
  BY <1>1, <1>4 DEF Put, add, Of
<1>9. Gains(e, {o}, b)
  BY <1>1, <1>6, <1>7, <1>8, AddedOne
<1>10. NewKinds({o})
  <2>1. o.type # "live" /\ o.fn # LiveHandler /\ o.type \in EventTypes
    BY <1>7, EventsAssumption DEF EventsAssumption
  <2>2. QED
    BY <1>7, <2>1 DEF NewKinds
<1>11. cache' \subseteq Elements
  BY <1>3, <1>8 DEF EventsTypeOK
<1>12. QED
  BY <1>2, <1>9, <1>10, <1>11, GainStep

LEMMA LiveStep ==
  ASSUME EventsInv, NEW e, e \in Elements, live(e)
  PROVE  EventsInv'
<1>1. PICK type \in EventTypes, fn \in Fns, sel \in Selectors :
        /\ Put(e, add(add(Of(e), handleObj(type, "", LiveHandler, FALSE, Null, Null)),
                      handleObj("live", "", fn, FALSE, type, sel)))
        /\ handlers' = Append(handlers, [once |-> FALSE, n |-> 0, cut |-> FALSE])
  BY DEF live
<1>2. UNCHANGED <<unbinds, removed, frames, events>>
  BY DEF live, Still
<1>3. Types /\ EventsTypeOK
  BY FrameKept DEF EventsInv
<1>4. PICK h : h = handleObj(type, "", LiveHandler, FALSE, Null, Null)
  OBVIOUS
<1>5. PICK o : o = handleObj("live", "", fn, FALSE, type, sel)
  OBVIOUS
<1>6. [once |-> FALSE, n |-> 0, cut |-> FALSE] \in [once : BOOLEAN, n : Nat, cut : BOOLEAN]
  OBVIOUS
<1>7. Len(handlers) + 1 \in 1..Len(handlers') /\ Seq(Handler) \subseteq Seq(Handler')
  BY <1>1, <1>3, <1>6, HandlersAppended
<1>8. /\ h \in Handler' /\ h.id = Len(handlers) + 1 /\ h.type = type /\ h.ns = ""
      /\ h.fn = LiveHandler /\ h.once = FALSE /\ h.orig = Null
  <2>1. Names(type, "", LiveHandler, FALSE, Null, Null)
    BY DEF Names
  <2>2. Made(h, type, "", LiveHandler, FALSE, Null)
    BY <1>4, <1>7, <2>1, NewObj, Zenon
  <2>3. QED
    BY <2>2 DEF Made
<1>9. /\ o \in Handler' /\ o.id = Len(handlers) + 1 /\ o.type = "live" /\ o.ns = ""
      /\ o.fn = fn /\ o.once = FALSE /\ o.orig = type
  <2>1. Names("live", "", fn, FALSE, type, sel)
    BY DEF Names
  <2>2. Made(o, "live", "", fn, FALSE, type)
    BY <1>5, <1>7, <2>1, NewObj, Zenon
  <2>3. QED
    BY <2>2 DEF Made
<1>10. /\ bound' = [bound EXCEPT ![e] = Append(Append(@, h), o)]
       /\ listening' = [listening EXCEPT ![e] = (@ \cup {h.type}) \cup {o.type}]
       /\ cache' = cache \cup {e}
  BY <1>1, <1>4, <1>5 DEF Put, add, Of
<1>11. Gains(e, {h, o}, FALSE)
  BY <1>1, <1>7, <1>8, <1>9, <1>10, AddedTwo
<1>12. NewKinds({h, o})
  <2>1. "live" # type /\ fn # LiveHandler /\ type \in EventTypes
    BY EventsAssumption DEF EventsAssumption
  <2>2. \A y \in {h, o} : y.type = "live" => \E z \in {h, o} : z.fn = LiveHandler /\ z.type = y.orig
    BY <1>8, <1>9, <2>1
  <2>3. \A y \in {h, o} : /\ y.type \in EventTypes \cup {"live"}
                          /\ y.type = "live" => ~ y.once /\ y.fn \in Fns /\ y.ns = ""
                          /\ y.type # "live" => y.orig = Null
                          /\ y.fn = LiveHandler => ~ y.once /\ y.type # "live" /\ y.ns = ""
    BY <1>8, <1>9, <2>1
  <2>4. QED
    BY <2>2, <2>3 DEF NewKinds
<1>13. cache' \subseteq Elements
  BY <1>3, <1>10 DEF EventsTypeOK
<1>14. QED
  BY <1>2, <1>11, <1>12, <1>13, GainStep

--------------------------------------------------------------------------------

LEMMA EventsInitially == EventsInit => EventsInv
<1> SUFFICES ASSUME EventsInit PROVE EventsInv
  OBVIOUS
<1>1. /\ bound = [e \in Elements |-> <<>>] /\ listening = [e \in Elements |-> {}]
      /\ cache = {} /\ removed = {} /\ frames = <<>>
      /\ handlers = <<>> /\ unbinds = 0 /\ events = 0
  BY DEF EventsInit
<1>2. \A T : <<>> \in Seq(T)
  BY EmptySeq
<1>3. Len(frames) = 0 /\ DOMAIN frames = {} /\ DOMAIN handlers = {}
  BY <1>1
<1>4. EventsTypeOK
  <2>1. MaxNested \in Nat \ {0}
    BY EventsAssumption DEF EventsAssumption
  <2>2. Len(frames) <= MaxNested
    BY <1>3, <2>1
  <2>3. bound \in [Elements -> Seq(Handler)]
    BY <1>1, <1>2
  <2>4. frames \in Seq(EventFrame) /\ handlers \in Seq([once : BOOLEAN, n : Nat, cut : BOOLEAN])
    BY <1>1, <1>2
  <2>5. listening \in [Elements -> SUBSET (EventTypes \cup {"live"})]
    BY <1>1
  <2>6. QED
    BY <1>1, <2>2, <2>3, <2>4, <2>5 DEF EventsTypeOK
<1>5. \A e \in Elements : Objs(e) = {} /\ DOMAIN bound[e] = {} /\ listening[e] = {}
  BY <1>1, ToSetEmpty DEF Objs
<1>6. Listens /\ LiveServed /\ Sorts /\ OnePlace
  BY <1>5 DEF Listens, LiveServed, Sorts, OnePlace
<1>7. Copies /\ Totals
  BY <1>3 DEF Copies, Totals
<1>8. QED
  BY <1>4, <1>6, <1>7 DEF EventsInv

LEMMA EventsStutter ==
  ASSUME EventsInv, UNCHANGED evars
  PROVE  EventsInv'
<1>1. /\ bound' = bound /\ listening' = listening /\ cache' = cache /\ removed' = removed
      /\ frames' = frames /\ handlers' = handlers /\ unbinds' = unbinds /\ events' = events
  BY DEF evars
<1>2. Handler' = Handler
  BY <1>1 DEF Handler
<1>3. EventFrame' = EventFrame
  BY <1>2 DEF EventFrame
<1>4. EventsTypeOK'
  BY <1>1, <1>2, <1>3 DEF EventsInv, EventsTypeOK
<1>5. \A k \in DOMAIN frames' : \E j \in DOMAIN frames : frames'[k] = frames[j]
  BY <1>1
<1>6. \A id : Copied(id)' = Copied(id)
  BY <1>1 DEF Copied, Depth
<1>7. QED
  BY <1>1, <1>4, <1>5, <1>6, FrameMoves

LEMMA EventsStep == EventsInv /\ [EventsNext]_evars => EventsInv'
<1> SUFFICES ASSUME EventsInv, [EventsNext]_evars PROVE EventsInv'
  OBVIOUS
<1>1. CASE Call
  BY <1>1, CallStep
<1>2. CASE Return
  BY <1>2, ReturnStep
<1>3. CASE NativeUp
  BY <1>3, NativeUpStep
<1>4. CASE TriggerUp
  BY <1>4, TriggerUpStep
<1>5. CASE Default
  <2>1. /\ frames # <<>> /\ frames' = Tail(frames)
        /\ UNCHANGED <<bound, listening, cache, removed, handlers, unbinds, events>>
    BY <1>5 DEF Default, Passed, store
  <2>2. QED
    BY <2>1, PopStep
<1>6. ASSUME NEW e \in Elements, trigger(e) PROVE EventsInv'
  <2>1. PICK type \in EventTypes, ns \in Namespaces \cup {""} :
          frames' = <<Arrive(Event(type, ns, e, FALSE), e)>> \o frames
    BY <1>6 DEF trigger
  <2>2. /\ UNCHANGED <<store, removed, handlers, unbinds>> /\ events' = events + 1
        /\ Len(frames) < MaxNested
    BY <1>6 DEF trigger, Starting
  <2>3. QED
    BY <2>1, <2>2, StartStep
<1>7. ASSUME NEW e \in Elements, native(e) PROVE EventsInv'
  <2>1. PICK type \in EventTypes : frames' = <<Arrive(Event(type, "", e, TRUE), e)>>
    BY <1>7 DEF native
  <2>2. /\ UNCHANGED <<store, removed, handlers, unbinds>> /\ events' = events + 1
        /\ frames = <<>>
    BY <1>7 DEF native, Starting
  <2>3. PICK g : g = Arrive(Event(type, "", e, TRUE), e)
    OBVIOUS
  <2>4. Len(frames) < MaxNested
    <3>1. Len(frames) = 0 /\ MaxNested \in Nat \ {0}
      BY <2>2, EventsAssumption DEF EventsAssumption
    <3>2. QED
      BY <3>1
  <2>5. <<g>> \o frames = <<g>>
    BY <2>2
  <2>6. frames' = <<g>> \o frames
    BY <2>1, <2>3, <2>5
  <2>7. "" \in Namespaces \cup {""} /\ TRUE \in BOOLEAN
    OBVIOUS
  <2>8. frames' = <<Arrive(Event(type, "", e, TRUE), e)>> \o frames
    BY <2>3, <2>6
  <2>9. QED
    BY <2>2, <2>4, <2>7, <2>8, StartStep
<1>8. CASE UNCHANGED evars
  BY <1>8, EventsStutter
<1>9. QED
  BY <1>1, <1>2, <1>3, <1>4, <1>5, <1>6, <1>7, <1>8,
     BindStep, LiveStep, UnbindAll, UnbindTypeStep, RemoveElementStep DEF EventsNext

\* The handlers of a page and the events that run are what their types say.
THEOREM EventsTypes == EventsSpec => []EventsTypeOK
<1>1. EventsInv => EventsTypeOK
  BY DEF EventsInv
<1>2. QED
  BY <1>1, EventsInitially, EventsStep, PTL DEF EventsSpec

\* Whatever the page binds and unbinds, removes and triggers, also while its handlers run,
\* an element listens to what it has handlers for, those of live have their liveHandler
\* until the page unbinds their type, and a handler of one is bound nowhere once it was
\* called, and called once by each of the events that run inside each other, at most (add,
\* remove, handle).
THEOREM AllHandlersServed == EventsSpec => []HandlersServed
<1>1. EventsInv => HandlersServed
  <2> SUFFICES ASSUME EventsInv PROVE HandlersServed
    OBVIOUS
  <2>1. Listens /\ LiveServed /\ Totals /\ EventsTypeOK
    BY DEF EventsInv
  <2>2. ASSUME NEW id \in DOMAIN handlers, handlers[id].once
        PROVE  /\ handlers[id].n <= MaxNested
               /\ handlers[id].n > 0 => \A e \in Elements : \A o \in Objs(e) : o.id # id
    <3> DEFINE k == handlers[id].n
               c == Cardinality(Copied(id))
    <3>1. k + c <= MaxNested
      BY <2>1, <2>2 DEF Totals, IsOnce
    <3>2. frames \in Seq(EventFrame) /\ handlers \in Seq([once : BOOLEAN, n : Nat, cut : BOOLEAN])
      BY <2>1 DEF EventsTypeOK
    <3>3. handlers[id] \in [once : BOOLEAN, n : Nat, cut : BOOLEAN]
      BY <3>2, LenProperties, ElementOfSeq
    <3>4. Copied(id) \subseteq 1..Len(frames) /\ Len(frames) \in Nat
      BY <3>2, LenProperties DEF Copied
    <3>5. c \in Nat
      BY <3>4, SomeOfInterval
    <3>6. k \in Nat /\ MaxNested \in Nat
      BY <3>3, EventsAssumption DEF EventsAssumption
    <3> HIDE DEF k, c
    <3>7. k <= MaxNested
      BY <3>1, <3>5, <3>6
    <3>8. (\E e \in Elements : \E o \in Objs(e) : o.id = id) => k = 0
      BY <2>1, <2>2 DEF Totals, IsOnce, k
    <3>9. k > 0 => k # 0
      BY <3>6
    <3>10. QED
      BY <3>7, <3>8, <3>9 DEF k
  <2>3. QED
    BY <2>1, <2>2 DEF HandlersServed, OnceOnly
<1>2. QED
  BY <1>1, EventsInitially, EventsStep, PTL DEF EventsSpec

--------------------------------------------------------------------------------
(* Functions that wait for the page (DomReady).                                      *)

(* Functions that register each other.                                             *)

\* What ReadyInit says of nested, which stays.
Nesting ==
  /\ nested \in [Functions -> 0..N]
  /\ \A f \in Functions : nested[f] = 0 \/ nested[f] > f
  /\ \A f, g \in Functions : f # g /\ nested[f] # 0 => nested[f] # nested[g]

Stops(f) == nested[f] = 0 \/ f \in throwing
Rest(f) == IF Stops(f) THEN <<>> ELSE Calls[nested[f]]

LEMMA NestedType ==
  ASSUME Nesting, NEW f \in Functions, ~ Stops(f)
  PROVE  nested[f] \in Functions /\ nested[f] > f
  BY ReadyAssumption DEF Nesting, Stops, Functions

\* What holds of a function when it holds of all after it holds of all functions.
LEMMA FromTheLast ==
  ASSUME NEW S, \A f \in Functions : (\A g \in Functions : g > f => g \in S) => f \in S
  PROVE  \A f \in Functions : f \in S
<1> DEFINE P == {k \in Nat : \A f \in Functions : f > N - k => f \in S}
<1>1. N \in Nat
  BY ReadyAssumption
<1>2. 0 \in P
  BY <1>1 DEF Functions
<1>3. ASSUME NEW k \in Nat, k \in P PROVE k + 1 \in P
  <2>1. SUFFICES ASSUME NEW f \in Functions, f > N - (k + 1) PROVE f \in S
    OBVIOUS
  <2>2. \A g \in Functions : g > f => g > N - k
    BY <1>1, <2>1 DEF Functions
  <2>3. \A g \in Functions : g > f => g \in S
    BY <1>3, <2>2
  <2>4. QED
    BY <2>3
<1>4. N \in P
  <2>1. \A k \in Nat : k \in P
    <3> HIDE DEF P
    <3>1. QED
      BY <1>2, <1>3, NatSetInduction
  <2>2. QED
    BY <2>1, <1>1
<1>5. QED
  BY <1>1, <1>4 DEF Functions

Follow(a, f) == <<f>> \o IF Stops(f) THEN <<>> ELSE a[nested[f]]

\* There is a function that calls as Calls says: make it one call longer, N times.
LEMMA CallsUnfold ==
  ASSUME Nesting
  PROVE  /\ Calls \in [Functions -> Seq(Functions)]
         /\ \A f \in Functions : Calls[f] = <<f>> \o Rest(f)
<1> DEFINE A == [Functions -> Seq(Functions)]
           base == [f \in Functions |-> <<>>]
           step == [n \in 1..N |-> [a \in A |-> [f \in Functions |-> Follow(a, f)]]]
<1>1. N \in Nat /\ base \in A
  BY ReadyAssumption, EmptySeq
<1>2. \A a \in A, f \in Functions : Follow(a, f) \in Seq(Functions)
  <2>1. SUFFICES ASSUME NEW a \in A, NEW f \in Functions PROVE Follow(a, f) \in Seq(Functions)
    OBVIOUS
  <2>2. (IF Stops(f) THEN <<>> ELSE a[nested[f]]) \in Seq(Functions)
    BY NestedType
  <2>3. <<f>> \in Seq(Functions)
    OBVIOUS
  <2>4. QED
    BY <2>2, <2>3, ConcatProperties DEF Follow
<1>3. Steps(step, N, A)
  <2>1. \A n \in 1..N, a \in A : step[n][a] = [f \in Functions |-> Follow(a, f)]
    OBVIOUS
  <2>2. QED
    <3>1. \A a \in A : [f \in Functions |-> Follow(a, f)] \in A
      BY <1>2
    <3> HIDE DEF step, A
    <3>2. QED
      BY <2>1, <3>1 DEF Steps
<1>4. PICK g : Iterates(g, step, N, A, base)
  <2>1. \E g : Iterates(g, step, N, A, base)
    <3> HIDE DEF step, A, base
    <3>1. QED
      BY <1>1, <1>3, Iteration
  <2>2. QED
    BY <2>1
<1>5. /\ g \in [0..N -> A]
      /\ \A n \in 1..N : g[n] = [f \in Functions |-> Follow(g[n - 1], f)]
  <2>1. g \in [0..N -> A] /\ \A n \in 1..N : g[n] = step[n][g[n - 1]]
    BY <1>4 DEF Iterates
  <2>2. \A n \in 1..N : n - 1 \in 0..N /\ g[n - 1] \in A
    BY <1>1, <2>1
  <2>3. QED
    BY <2>1, <2>2
<1> DEFINE Same(k) == \A f \in Functions : f > N - k => g[k][f] = Follow(g[k], f)
           P == {k \in Nat : k <= N => Same(k)}
<1>6. 0 \in P
  <2>1. Same(0)
    BY <1>1 DEF Functions
  <2>2. QED
    BY <2>1
<1>7. ASSUME NEW k \in Nat, k \in P PROVE k + 1 \in P
  <2>1. SUFFICES ASSUME k + 1 <= N, NEW f \in Functions, f > N - (k + 1)
                 PROVE  g[k + 1][f] = Follow(g[k + 1], f)
    OBVIOUS
  <2>2. Same(k) /\ k \in 0..N /\ k + 1 \in 1..N /\ (k + 1) - 1 = k
    BY <1>1, <1>7, <2>1
  <2>3. \A h \in Functions : g[k + 1][h] = Follow(g[k], h)
    <3>1. g[k + 1] = [h \in Functions |-> Follow(g[(k + 1) - 1], h)]
      BY <1>5, <2>2
    <3>2. g[k + 1] = [h \in Functions |-> Follow(g[k], h)]
      BY <2>2, <3>1
    <3>3. QED
      BY <3>2
  <2>4. CASE Stops(f)
    BY <2>3, <2>4 DEF Follow
  <2>5. CASE ~ Stops(f)
    <3>1. nested[f] \in Functions /\ nested[f] > f
      BY <2>5, NestedType
    <3>2. nested[f] > N - k
      BY <1>1, <2>1, <3>1 DEF Functions
    <3>3. g[k][nested[f]] = Follow(g[k], nested[f])
      BY <2>2, <3>1, <3>2
    <3>4. g[k + 1][nested[f]] = g[k][nested[f]]
      BY <2>3, <3>1, <3>3
    <3>5. QED
      BY <2>3, <2>5, <3>4 DEF Follow
  <2>6. QED
    BY <2>4, <2>5
<1>8. Same(N)
  <2>1. \A k \in Nat : k \in P
    <3> HIDE DEF P
    <3>1. QED
      BY <1>6, <1>7, NatSetInduction
  <2>2. N \in P
    BY <2>1, <1>1
  <2>3. QED
    BY <2>2, <1>1
<1> DEFINE Rec(a) == [f \in Functions |-> <<f>> \o IF nested[f] = 0 \/ f \in throwing THEN <<>> ELSE a[nested[f]]]
<1>9. \A a : Rec(a) = [f \in Functions |-> Follow(a, f)]
  BY DEF Follow, Stops
<1>10. g[N] \in A /\ \A f \in Functions : g[N][f] = Follow(g[N], f)
  <2>1. N \in 0..N /\ \A f \in Functions : f > N - N
    BY <1>1 DEF Functions
  <2>2. QED
    BY <2>1, <1>5, <1>8
<1>11. g[N] = [f \in Functions |-> Follow(g[N], f)]
  <2> HIDE DEF Same, P, step, base, Rec
  <2>1. QED
    BY <1>10
<1>12. g[N] = Rec(g[N])
  <2> HIDE DEF Rec, A, Same, P, step, base
  <2>1. QED
    BY <1>9, <1>11
<1>13. Calls = Rec(Calls)
  <2> HIDE DEF Same, P, step, base, A
  <2>1. QED
    BY <1>12 DEF Calls
<1>14. \A f \in Functions : Calls[f] = <<f>> \o Rest(f)
  <2>1. \A f \in Functions : Rec(Calls)[f] = <<f>> \o Rest(f)
    BY DEF Rest, Stops
  <2>2. QED
    <3> HIDE DEF Rec
    <3>1. QED
      BY <1>13, <2>1
<1>15. \A f \in Functions : Calls[f] \in Seq(Functions)
  <2> DEFINE S == {f \in Functions : Calls[f] \in Seq(Functions)}
  <2>1. ASSUME NEW f \in Functions, \A h \in Functions : h > f => h \in S PROVE f \in S
    <3>1. Rest(f) \in Seq(Functions)
      BY <2>1, NestedType, EmptySeq DEF Rest
    <3>2. <<f>> \in Seq(Functions)
      OBVIOUS
    <3>3. <<f>> \o Rest(f) \in Seq(Functions)
      BY <3>1, <3>2, ConcatProperties
    <3>4. QED
      BY <1>14, <3>3
  <2>2. \A f \in Functions : f \in S
    <3> HIDE DEF S
    <3>1. QED
      BY <2>1, FromTheLast
  <2>3. QED
    BY <2>2
<1>16. DOMAIN Calls = Functions
  <2>1. DOMAIN Rec(Calls) = Functions
    OBVIOUS
  <2>2. QED
    <3> HIDE DEF Rec
    <3>1. QED
      BY <1>13, <2>1
<1>17. Calls = [f \in Functions |-> Calls[f]]
  <2> DEFINE C == Calls
  <2>1. C = Rec(C)
    BY <1>13
  <2> HIDE DEF C
  <2>2. C = [f \in Functions |-> C[f]]
    BY <2>1
  <2>3. QED
    BY <2>2 DEF C
<1>18. QED
  BY <1>14, <1>15, <1>17
\* The calls of a function: it and then others, each of which one that was called before
\* it has registered.
Chain(f) ==
  /\ ToSet(Calls[f]) = {f} \cup ToSet(Rest(f)) /\ IsInjective(Calls[f])
  /\ \A x \in ToSet(Rest(f)) : x > f /\ \E p \in ToSet(Calls[f]) : nested[p] = x

LEMMA ConcatInjective ==
  ASSUME NEW T, NEW s \in Seq(T), NEW t \in Seq(T), IsInjective(s), IsInjective(t),
         ToSet(s) \cap ToSet(t) = {}
  PROVE  IsInjective(s \o t)
<1> DEFINE m == Len(s)
           n == Len(t)
           u == s \o t
<1>1. /\ m \in Nat /\ n \in Nat /\ DOMAIN s = 1..m /\ DOMAIN t = 1..n /\ DOMAIN u = 1..m + n
      /\ \A i \in 1..m : u[i] = s[i]
      /\ \A i \in 1..m + n : i > m => i - m \in 1..n /\ u[i] = t[i - m]
  <2>1. u \in Seq(T) /\ Len(u) = m + n /\ m \in Nat /\ n \in Nat
    BY ConcatProperties, LenProperties
  <2>2. QED
    BY <2>1, ConcatProperties, LenProperties
<1>2. \A i \in DOMAIN s, j \in DOMAIN t : s[i] # t[j]
  BY DEF ToSet
<1>3. ASSUME NEW i \in 1..m + n, NEW j \in 1..m + n, u[i] = u[j] PROVE i = j
  <2> HIDE DEF m, n, u
  <2>1. CASE i \in 1..m /\ j \in 1..m
    BY <1>1, <1>3, <2>1 DEF IsInjective
  <2>2. CASE i > m /\ j > m
    <3>1. t[i - m] = t[j - m] /\ i - m \in DOMAIN t /\ j - m \in DOMAIN t
      BY <1>1, <1>3, <2>2
    <3>2. i - m = j - m
      BY <3>1 DEF IsInjective
    <3>3. QED
      BY <1>1, <3>2
  <2>3. CASE i \in 1..m /\ j > m
    BY <1>1, <1>2, <1>3, <2>3
  <2>4. CASE i > m /\ j \in 1..m
    BY <1>1, <1>2, <1>3, <2>4
  <2>5. QED
    BY <1>1, <2>1, <2>2, <2>3, <2>4
<1>4. QED
  BY <1>1, <1>3 DEF IsInjective

LEMMA Chains ==
  ASSUME Nesting
  PROVE  \A f \in Functions : Rest(f) \in Seq(Functions) /\ Chain(f)
<1>1. /\ \A f \in Functions : Calls[f] \in Seq(Functions) /\ Calls[f] = <<f>> \o Rest(f)
      /\ \A f \in Functions : Rest(f) \in Seq(Functions)
  <2>1. /\ \A f \in Functions : Calls[f] \in Seq(Functions)
        /\ \A f \in Functions : Calls[f] = <<f>> \o Rest(f)
    BY CallsUnfold
  <2>2. QED
    BY <2>1, NestedType, EmptySeq DEF Rest
<1>2. \A f \in Functions : <<f>> \in Seq(Functions) /\ ToSet(<<f>>) = {f} /\ IsInjective(<<f>>)
  <2>1. \A f : ToSet(<<f>>) = {f}
    BY DEF ToSet
  <2>2. QED
    BY <2>1 DEF IsInjective
<1>3. ASSUME NEW f \in Functions PROVE ToSet(Calls[f]) = {f} \cup ToSet(Rest(f))
  <2> DEFINE s == <<f>>
             t == Rest(f)
  <2>1. s \in Seq(Functions) /\ t \in Seq(Functions)
    BY <1>1, <1>2
  <2>2. ToSet(s \o t) = ToSet(s) \cup ToSet(t)
    <3> HIDE DEF s, t
    <3>1. QED
      BY <2>1, ToSetConcat
  <2>3. QED
    BY <1>1, <1>2, <2>2
<1> DEFINE S == {f \in Functions : Chain(f)}
<1>4. ASSUME NEW f \in Functions, \A g \in Functions : g > f => g \in S PROVE f \in S
  <2>1. CASE Stops(f)
    <3>1. Rest(f) = <<>> /\ ToSet(Rest(f)) = {}
      BY <2>1, ToSetEmpty DEF Rest
    <3>2. Calls[f] = <<f>>
      BY <1>1, <1>2, <3>1, ConcatEmptySeq
    <3>3. QED
      BY <1>2, <1>3, <3>1, <3>2 DEF Chain
  <2>2. CASE ~ Stops(f)
    <3> DEFINE g == nested[f]
    <3>1. g \in Functions /\ g > f /\ Rest(f) = Calls[g]
      BY <2>2, NestedType DEF Rest
    <3>2. Chain(g)
      BY <1>4, <3>1
    <3>3. \A x \in ToSet(Rest(f)) : x = g \/ x \in ToSet(Rest(g))
      BY <3>1, <3>2 DEF Chain
    <3>4. ToSet(Rest(g)) \subseteq Functions
      BY <1>1, <3>1, ToSetType
    <3>5. \A x \in ToSet(Rest(f)) : x > f
      <4>1. \A x \in ToSet(Rest(g)) : x > g
        BY <3>2 DEF Chain
      <4>2. QED
        BY <3>1, <3>3, <3>4, <4>1, ReadyAssumption DEF Functions
    <3>6. f \notin ToSet(Rest(f))
      BY <3>5, ReadyAssumption DEF Functions
    <3>7. IsInjective(Calls[f])
      <4>1. ToSet(<<f>>) \cap ToSet(Rest(f)) = {}
        BY <1>2, <3>6
      <4>2. IsInjective(Rest(f))
        BY <3>1, <3>2 DEF Chain
      <4>3. IsInjective(<<f>> \o Rest(f))
        BY <1>1, <1>2, <4>1, <4>2, ConcatInjective
      <4>4. QED
        BY <1>1, <4>3
    <3>8. \A x \in ToSet(Rest(f)) : \E p \in ToSet(Calls[f]) : nested[p] = x
      <4>1. f \in ToSet(Calls[f]) /\ ToSet(Calls[g]) \subseteq ToSet(Calls[f])
        BY <1>3, <3>1
      <4>2. \A x \in ToSet(Rest(g)) : \E p \in ToSet(Calls[g]) : nested[p] = x
        BY <3>2 DEF Chain
      <4>3. QED
        BY <3>3, <4>1, <4>2
    <3>9. QED
      BY <1>3, <3>5, <3>7, <3>8 DEF Chain
  <2>3. QED
    BY <2>1, <2>2
<1>5. \A f \in Functions : f \in S
  <2> HIDE DEF S
  <2>1. QED
    BY <1>4, FromTheLast
<1>6. QED
  BY <1>1, <1>5

\* What scripts of the page may register.
Roots == {f \in Functions : \A g \in Functions : nested[g] # f}

\* No function is in the calls of two roots: the least that is would be registered by two
\* functions, or by one and by the page.
LEMMA ChainsDisjoint ==
  ASSUME Nesting, NEW f \in Roots, NEW g \in Roots, f # g
  PROVE  ToSet(Calls[f]) \cap ToSet(Calls[g]) = {}
<1> DEFINE S == {x \in Functions : x \notin ToSet(Calls[f]) \/ x \notin ToSet(Calls[g])}
           P == {n \in Nat : \A x \in Functions : x <= n => x \in S}
<1>1. f \in Functions /\ g \in Functions
  BY DEF Roots
<1>2. ASSUME NEW x \in Functions, \A y \in Functions : y < x => y \in S PROVE x \in S
  <2>1. SUFFICES ASSUME x \in ToSet(Calls[f]), x \in ToSet(Calls[g]) PROVE FALSE
    OBVIOUS
  <2>2. /\ x = f \/ x \in ToSet(Rest(f))
        /\ x = g \/ x \in ToSet(Rest(g))
    BY <1>1, <2>1, Chains DEF Chain
  <2>3. \A h \in {f, g} : \A p \in ToSet(Calls[h]) : p \in Functions
    BY <1>1, CallsUnfold, ToSetType
  <2>4. /\ x # f => \E p \in ToSet(Calls[f]) : nested[p] = x
        /\ x # g => \E p \in ToSet(Calls[g]) : nested[p] = x
    BY <1>1, <2>2, Chains DEF Chain
  <2>5. x # f /\ x # g
    BY <2>3, <2>4 DEF Roots
  <2>6. PICK p \in ToSet(Calls[f]) : nested[p] = x
    BY <2>4, <2>5
  <2>7. PICK q \in ToSet(Calls[g]) : nested[q] = x
    BY <2>4, <2>5
  <2>8. p \in Functions /\ q \in Functions /\ x # 0
    BY <2>3 DEF Functions
  <2>9. p = q
    BY <2>6, <2>7, <2>8 DEF Nesting
  <2>10. p < x
    <3>1. nested[p] > p
      BY <2>6, <2>8 DEF Nesting
    <3>2. QED
      BY <2>6, <3>1, <2>8, ReadyAssumption DEF Functions
  <2>11. QED
    BY <1>2, <2>6, <2>7, <2>8, <2>9, <2>10
<1>3. \A n \in Nat : n \in P
  <2>1. 0 \in P
    BY ReadyAssumption DEF Functions
  <2>2. ASSUME NEW n \in Nat, n \in P PROVE n + 1 \in P
    <3>1. SUFFICES ASSUME NEW x \in Functions, x <= n + 1 PROVE x \in S
      OBVIOUS
    <3>2. \A y \in Functions : y < x => y \in S
      BY <2>2, <3>1, ReadyAssumption DEF Functions
    <3>3. QED
      <4> HIDE DEF S
      <4>1. QED
        BY <1>2, <3>2
  <2>3. QED
    <3> HIDE DEF P
    <3>1. QED
      BY <2>1, <2>2, NatSetInduction
<1>4. \A x \in Functions : x \in S
  <2>1. \A x \in Functions : x \in Nat /\ x <= x
    BY ReadyAssumption DEF Functions
  <2> HIDE DEF S
  <2>2. QED
    BY <1>3, <2>1
<1>5. ToSet(Calls[f]) \subseteq Functions
  BY <1>1, CallsUnfold, ToSetType
<1>6. QED
  BY <1>4, <1>5
--------------------------------------------------------------------------------
(* What was called when the functions in done were called one after the other.     *)

All(done) == FlattenSeq([i \in DOMAIN done |-> Calls[done[i]]])

LEMMA AllTypes ==
  ASSUME Nesting, NEW done \in Seq(Functions)
  PROVE  /\ [i \in DOMAIN done |-> Calls[done[i]]] \in Seq(Seq(Functions))
         /\ All(done) \in Seq(Functions)
<1>1. Len(done) \in Nat /\ DOMAIN done = 1..Len(done) /\ \A i \in 1..Len(done) : done[i] \in Functions
  BY LenProperties, ElementOfSeq
<1>2. \A i \in 1..Len(done) : Calls[done[i]] \in Seq(Functions)
  BY <1>1, CallsUnfold
<1>3. [i \in 1..Len(done) |-> Calls[done[i]]] \in Seq(Seq(Functions))
  BY <1>1, <1>2, IsASeq
<1>4. QED
  BY <1>1, <1>3, FlattenType DEF All

LEMMA AllAppend ==
  ASSUME Nesting, NEW done \in Seq(Functions), NEW f \in Functions
  PROVE  All(Append(done, f)) = All(done) \o Calls[f]
<1> DEFINE n == Len(done)
           more == Append(done, f)
           parts == [i \in DOMAIN done |-> Calls[done[i]]]
<1>1. /\ n \in Nat /\ DOMAIN done = 1..n /\ more \in Seq(Functions) /\ Len(more) = n + 1
      /\ DOMAIN more = 1..n + 1 /\ more[n + 1] = f /\ \A i \in 1..n : more[i] = done[i]
  BY AppendProperties, LenProperties
<1>2. parts \in Seq(Seq(Functions)) /\ Calls[f] \in Seq(Functions)
  BY AllTypes, CallsUnfold
<1>3. Len(parts) = n /\ DOMAIN parts = 1..n /\ \A i \in 1..n : parts[i] = Calls[done[i]]
  <2>1. DOMAIN parts = 1..n
    BY <1>1
  <2>2. Len(parts) = n
    BY <2>1, <1>1, <1>2, LenProperties
  <2>3. QED
    BY <2>1, <2>2, <1>1
<1>4. [i \in DOMAIN more |-> Calls[more[i]]] = Append(parts, Calls[f])
  <2> DEFINE a == [i \in DOMAIN more |-> Calls[more[i]]]
             b == Append(parts, Calls[f])
  <2>1. a \in Seq(Seq(Functions)) /\ DOMAIN a = 1..n + 1
    BY <1>1, AllTypes
  <2>2. /\ b \in Seq(Seq(Functions)) /\ Len(b) = n + 1 /\ b[n + 1] = Calls[f]
        /\ \A i \in 1..n : b[i] = parts[i]
    <3> HIDE DEF parts
    <3>1. QED
      BY <1>2, <1>3, AppendProperties
  <2>3. Len(a) = n + 1
    BY <2>1, <1>1, LenProperties
  <2>4. \A i \in 1..n + 1 : a[i] = b[i]
    <3>1. ASSUME NEW i \in 1..n + 1 PROVE a[i] = b[i]
      <4>1. a[i] = Calls[more[i]]
        BY <1>1
      <4>2. i = n + 1 \/ i \in 1..n
        BY <1>1
      <4> HIDE DEF a, b, parts, more
      <4>3. QED
        BY <1>1, <1>3, <2>2, <4>1, <4>2
    <3>2. QED
      BY <3>1
  <2>5. QED
    <3> HIDE DEF a, b
    <3>1. QED
      BY <2>1, <2>2, <2>3, <2>4, SeqEqual
<1>5. FlattenSeq(Append(parts, Calls[f])) = FlattenSeq(parts) \o Calls[f]
  <2> HIDE DEF parts
  <2>1. QED
    BY <1>2, FlattenAppend
<1>6. QED
  BY <1>4, <1>5 DEF All

LEMMA AllEmpty == All(<<>>) = <<>>
<1>1. [i \in DOMAIN <<>> |-> Calls[<<>>[i]]] = <<>>
  OBVIOUS
<1>2. QED
  BY <1>1, FlattenEmpty DEF All

\* What was called of the page, from what was called.
Kept(done) ==
  /\ ToSet(All(done)) \cap Roots = ToSet(done)
  /\ \A x \in ToSet(All(done)) : \E f \in ToSet(done) : x \in ToSet(Calls[f])
  /\ IsInjective(done) => IsInjective(All(done))
  /\ \A kept \in SUBSET Roots : ToSet(done) \subseteq kept => Filter(All(done), kept) = done

LEMMA RootCalls ==
  ASSUME Nesting, NEW f \in Roots
  PROVE  /\ ToSet(Calls[f]) \cap Roots = {f}
         /\ \A kept \in SUBSET Roots : f \in kept => Filter(Calls[f], kept) = <<f>>
<1>1. /\ f \in Functions /\ Calls[f] \in Seq(Functions) /\ Calls[f] = <<f>> \o Rest(f)
      /\ Rest(f) \in Seq(Functions) /\ ToSet(Calls[f]) = {f} \cup ToSet(Rest(f))
      /\ \A x \in ToSet(Rest(f)) : \E p \in ToSet(Calls[f]) : nested[p] = x
  <2>1. f \in Functions
    BY DEF Roots
  <2>2. QED
    BY <2>1, CallsUnfold, Chains DEF Chain
<1>2. ToSet(Rest(f)) \cap Roots = {}
  <2>1. ToSet(Calls[f]) \subseteq Functions
    BY <1>1, ToSetType
  <2>2. QED
    BY <1>1, <2>1 DEF Roots
<1>3. ASSUME NEW kept \in SUBSET Roots, f \in kept PROVE Filter(Calls[f], kept) = <<f>>
  <2> DEFINE s == <<f>>
             t == Rest(f)
  <2>1. s \in Seq(Functions) /\ ToSet(s) \subseteq kept /\ t \in Seq(Functions)
    <3>1. ToSet(s) = {f}
      BY DEF ToSet
    <3>2. QED
      BY <1>1, <1>3, <3>1
  <2>2. ToSet(t) \cap kept = {}
    BY <1>2
  <2>3. Filter(s \o t, kept) = s
    <3> HIDE DEF s, t
    <3>1. Filter(s, kept) = s
      BY <2>1, FilterAll
    <3>2. Filter(t, kept) = <<>>
      BY <2>1, <2>2, FilterNone
    <3>3. Filter(s \o t, kept) = Filter(s, kept) \o Filter(t, kept)
      BY <2>1, FilterConcat
    <3>4. s \o <<>> = s
      BY <2>1, ConcatEmptySeq
    <3>5. QED
      BY <3>1, <3>2, <3>3, <3>4
  <2>4. QED
    BY <1>1, <2>3
<1>4. QED
  BY <1>1, <1>2, <1>3

LEMMA AllKept ==
  ASSUME Nesting
  PROVE  \A done \in Seq(Roots) : Kept(done)
<1> DEFINE S == {done \in Seq(Roots) : Kept(done)}
<1>1. <<>> \in S
  <2>1. \A kept : Filter(<<>>, kept) = <<>>
    BY FilterEmpty
  <2>2. ToSet(<<>>) = {} /\ IsInjective(<<>>) /\ <<>> \in Seq(Roots)
    BY ToSetEmpty, EmptySeq DEF IsInjective
  <2>3. QED
    BY <2>1, <2>2, AllEmpty DEF Kept
<1>2. ASSUME NEW done \in Seq(Roots), NEW f \in Roots, done \in S PROVE Append(done, f) \in S
  <2> DEFINE more == Append(done, f)
  <2>1. /\ more \in Seq(Roots) /\ Kept(done) /\ done \in Seq(Functions) /\ f \in Functions
        /\ ToSet(more) = ToSet(done) \cup {f}
    <3>1. Roots \subseteq Functions
      BY DEF Roots
    <3>2. done \in Seq(Functions)
      BY <3>1, LenProperties, ElementOfSeq, IsASeq
    <3>3. QED
      BY <1>2, <3>1, <3>2, AppendProperties, ToSetAppend
  <2>2. /\ All(more) = All(done) \o Calls[f]
        /\ All(done) \in Seq(Functions) /\ Calls[f] \in Seq(Functions)
    BY <2>1, AllAppend, AllTypes, CallsUnfold
  <2>3. ToSet(All(more)) = ToSet(All(done)) \cup ToSet(Calls[f])
    BY <2>2, ToSetConcat
  <2>4. ToSet(All(more)) \cap Roots = ToSet(more)
    BY <2>1, <2>3, RootCalls DEF Kept
  <2>5. \A x \in ToSet(All(more)) : \E g \in ToSet(more) : x \in ToSet(Calls[g])
    BY <2>1, <2>3 DEF Kept
  <2>6. ASSUME IsInjective(more) PROVE IsInjective(All(more))
    <3>1. IsInjective(done) /\ f \notin ToSet(done)
      <4>1. /\ Len(done) \in Nat /\ DOMAIN done = 1..Len(done) /\ DOMAIN more = 1..Len(done) + 1
            /\ more[Len(done) + 1] = f /\ \A i \in 1..Len(done) : more[i] = done[i]
        BY <2>1, AppendProperties, LenProperties
      <4>2. IsInjective(done)
        BY <2>6, <4>1 DEF IsInjective
      <4>3. f \notin ToSet(done)
        BY <2>6, <4>1 DEF IsInjective, ToSet
      <4>4. QED
        BY <4>2, <4>3
    <3>2. IsInjective(All(done)) /\ IsInjective(Calls[f])
      BY <2>1, <3>1, Chains DEF Kept, Chain
    <3>3. ToSet(All(done)) \cap ToSet(Calls[f]) = {}
      <4>1. SUFFICES ASSUME NEW x \in ToSet(All(done)), x \in ToSet(Calls[f]) PROVE FALSE
        OBVIOUS
      <4>2. PICK g \in ToSet(done) : x \in ToSet(Calls[g])
        BY <2>1 DEF Kept
      <4>3. g \in Roots /\ g # f
        BY <3>1, ToSetType
      <4>4. QED
        BY <4>1, <4>2, <4>3, ChainsDisjoint
    <3>4. QED
      BY <2>2, <3>2, <3>3, ConcatInjective
  <2>7. ASSUME NEW kept \in SUBSET Roots, ToSet(more) \subseteq kept
        PROVE  Filter(All(more), kept) = more
    <3>1. Filter(All(done), kept) = done /\ Filter(Calls[f], kept) = <<f>>
      BY <2>1, <2>7, RootCalls DEF Kept
    <3>2. Filter(All(more), kept) = done \o <<f>>
      <4>1. Filter(All(done) \o Calls[f], kept) = Filter(All(done), kept) \o Filter(Calls[f], kept)
        BY <2>2, FilterConcat
      <4>2. QED
        BY <2>2, <3>1, <4>1, Zenon
    <3>3. done \o <<f>> = more
      BY AppendIsConcat
    <3>4. QED
      BY <3>2, <3>3
  <2>8. Kept(more)
    BY <2>4, <2>5, <2>6, <2>7 DEF Kept
  <2>9. QED
    BY <2>1, <2>8
<1>3. \A done \in Seq(Roots) : done \in S
  <2> HIDE DEF S
  <2>1. QED
    BY <1>1, <1>2, SeqSetInduction
<1>4. QED
  BY <1>3
--------------------------------------------------------------------------------
(* The loop over readyList.                                                        *)

LEMMA LeastOf ==
  ASSUME NEW S, S \subseteq Nat, S # {}
  PROVE  \E k \in S : \A j \in S : k <= j
<1>1. PICK k \in S : \A j \in S : ~ (<<j, k>> \in OpToRel(<, Nat))
  BY NatLessThanWellFounded, WFMin
<1>2. \A j \in S : ~ (j < k)
  BY <1>1 DEF OpToRel
<1>3. QED
  BY <1>2

\* How far the loop goes: to the end, or to the first function that leads to an exception.
Reaches(list, k) ==
  /\ Executed(list) = All(SubSeq(list, 1, k))
  /\ \/ k = Len(list) /\ \A i \in DOMAIN list : ~ Thrown(list[i])
     \/ ToSet(Executed(list)) \cap throwing # {}

LEMMA ExecutedPrefix ==
  ASSUME Nesting, NEW list \in Seq(Functions)
  PROVE  \E k \in 0..Len(list) : Reaches(list, k)
<1> DEFINE n == Len(list)
           stops == {i \in DOMAIN list : Thrown(list[i])}
           run == {j \in DOMAIN list : \A s \in stops : j <= s}
<1>1. n \in Nat /\ DOMAIN list = 1..n /\ \A i \in 1..n : list[i] \in Functions
  BY LenProperties, ElementOfSeq
<1>2. ASSUME NEW k \in 0..n, run = 1..k PROVE Executed(list) = All(SubSeq(list, 1, k))
  <2> DEFINE p == SubSeq(list, 1, k)
  <2>1. p \in Seq(Functions) /\ Len(p) = k /\ \A i \in 1..k : p[i] = list[i]
    <3>1. \A i \in 1..k : list[i] \in Functions
      BY <1>1
    <3>2. k \in Int /\ 1 \in Int /\ k - 1 + 1 = k /\ \A i \in 1..k : 1 + i - 1 = i
      BY <1>1
    <3>3. (IF 1 <= k THEN k - 1 + 1 ELSE 0) = k
      BY <1>1
    <3>4. /\ SubSeq(list, 1, k) \in Seq(Functions)
          /\ Len(SubSeq(list, 1, k)) = IF 1 <= k THEN k - 1 + 1 ELSE 0
          /\ \A i \in 1..k - 1 + 1 : SubSeq(list, 1, k)[i] = list[1 + i - 1]
      BY <3>1, <3>2, SubSeqProperties
    <3>5. QED
      BY <3>2, <3>3, <3>4
  <2>2. DOMAIN p = 1..k
    BY <2>1, LenProperties
  <2>3. [i \in run |-> Calls[list[i]]] = [i \in DOMAIN p |-> Calls[p[i]]]
    <3> HIDE DEF p, run
    <3>1. QED
      BY <1>2, <2>1, <2>2
  <2>4. Executed(list) = FlattenSeq([i \in run |-> Calls[list[i]]])
    BY DEF Executed
  <2>5. QED
    BY <2>3, <2>4 DEF All
<1>3. CASE stops = {}
  <2>1. run = 1..n
    BY <1>1, <1>3
  <2>2. Executed(list) = All(SubSeq(list, 1, n))
    BY <1>1, <1>2, <2>1
  <2>3. \A i \in DOMAIN list : ~ Thrown(list[i])
    BY <1>3
  <2>4. n \in 0..n
    BY <1>1
  <2>5. QED
    BY <2>2, <2>3, <2>4 DEF Reaches
<1>4. CASE stops # {}
  <2>1. PICK k \in stops : \A j \in stops : k <= j
    <3>1. stops \subseteq Nat
      BY <1>1
    <3>2. QED
      BY <1>4, <3>1, LeastOf
  <2>2. k \in 1..n /\ Thrown(list[k])
    BY <1>1
  <2>3. run = 1..k
    <3>1. \A j \in 1..n : j \in run <=> \A s \in stops : j <= s
      BY <1>1
    <3>2. \A s \in stops : s \in 1..n
      BY <1>1
    <3>3. \A j \in 1..n : j \in run <=> j <= k
      <4> HIDE DEF stops, run
      <4>1. \A j \in 1..n : j <= k => \A s \in stops : j <= s
        BY <1>1, <2>1, <2>2, <3>2
      <4>2. QED
        BY <2>1, <3>1, <4>1
    <3>4. run \subseteq 1..n
      BY <1>1
    <3>5. \A j \in 1..n : j <= k <=> j \in 1..k
      BY <1>1, <2>2
    <3>6. 1..k \subseteq 1..n
      BY <1>1, <2>2
    <3> HIDE DEF run, stops
    <3>7. QED
      BY <3>3, <3>4, <3>5, <3>6
  <2>4. k \in 0..n /\ Executed(list) = All(SubSeq(list, 1, k))
    BY <1>1, <1>2, <2>2, <2>3
  <2>5. ToSet(Executed(list)) \cap throwing # {}
    <3> DEFINE seqs == [i \in run |-> Calls[list[i]]]
    <3>1. seqs \in Seq(Seq(Functions)) /\ DOMAIN seqs = 1..k /\ seqs[k] = Calls[list[k]]
      <4>1. \A i \in 1..k : Calls[list[i]] \in Seq(Functions)
        BY <1>1, <2>2, CallsUnfold
      <4>2. [i \in 1..k |-> Calls[list[i]]] \in Seq(Seq(Functions))
        BY <4>1, <2>2, <1>1, IsASeq
      <4> HIDE DEF run
      <4>3. QED
        BY <2>2, <2>3, <4>2, <1>1
    <3>2. PICK j \in DOMAIN Calls[list[k]] : Calls[list[k]][j] \in throwing
      BY <2>2 DEF Thrown
    <3>3. Calls[list[k]][j] \in ToSet(seqs[k])
      BY <3>1 DEF ToSet
    <3>4. ToSet(FlattenSeq(seqs)) = UNION {ToSet(seqs[i]) : i \in DOMAIN seqs}
      <4> HIDE DEF seqs
      <4>1. QED
        BY <3>1, FlattenRange
    <3>5. k \in DOMAIN seqs
      BY <3>1, <2>2, <1>1
    <3>6. Calls[list[k]][j] \in ToSet(FlattenSeq(seqs))
      <4> HIDE DEF seqs
      <4>1. QED
        BY <3>3, <3>4, <3>5
    <3>7. Executed(list) = FlattenSeq(seqs)
      BY DEF Executed
    <3>8. QED
      BY <3>2, <3>6, <3>7
  <2>6. QED
    BY <2>4, <2>5 DEF Reaches
<1>5. QED
  BY <1>3, <1>4

\* The first of a list are those of the list that are among them.
LEMMA PrefixKept ==
  ASSUME NEW T, NEW s \in Seq(T), IsInjective(s), NEW k \in 0..Len(s)
  PROVE  /\ SubSeq(s, 1, k) \in Seq(T)
         /\ Filter(s, ToSet(SubSeq(s, 1, k))) = SubSeq(s, 1, k)
<1> DEFINE n == Len(s)
           p == SubSeq(s, 1, k)
           r == SubSeq(s, k + 1, n)
<1>1. n \in Nat /\ DOMAIN s = 1..n /\ k \in 0..n /\ \A i \in 1..n : s[i] \in T
  BY LenProperties, ElementOfSeq
<1>2. p \in Seq(T) /\ \A x \in ToSet(p) : \E i \in 1..k : x = s[i]
  <2>1. \A i \in 1..k : s[i] \in T
    BY <1>1
  <2>2. /\ p \in Seq(T) /\ Len(p) = IF 1 <= k THEN k - 1 + 1 ELSE 0
        /\ \A i \in 1..k - 1 + 1 : p[i] = s[1 + i - 1]
    BY <1>1, <2>1, SubSeqProperties
  <2>3. DOMAIN p = 1..k
    BY <1>1, <2>2, LenProperties
  <2>4. \A i \in 1..k : p[i] = s[i]
    BY <1>1, <2>2
  <2>5. QED
    <3> HIDE DEF p
    <3>1. QED
      BY <2>2, <2>3, <2>4 DEF ToSet
<1>3. r \in Seq(T) /\ \A x \in ToSet(r) : \E i \in k + 1..n : x = s[i]
  <2>1. \A i \in k + 1..n : s[i] \in T
    BY <1>1
  <2>2. /\ r \in Seq(T) /\ Len(r) = IF k + 1 <= n THEN n - (k + 1) + 1 ELSE 0
        /\ \A i \in 1..n - (k + 1) + 1 : r[i] = s[(k + 1) + i - 1]
    BY <1>1, <2>1, SubSeqProperties
  <2>3. DOMAIN r = 1..n - k
    BY <1>1, <2>2, LenProperties
  <2>4. \A i \in 1..n - k : r[i] = s[k + i] /\ k + i \in k + 1..n
    BY <1>1, <2>2
  <2>5. QED
    <3> HIDE DEF r
    <3>1. QED
      BY <2>2, <2>3, <2>4 DEF ToSet
<1>4. p \o r = s
  <2>1. /\ 1 \in 1..n + 1 /\ k \in 1 - 1..n /\ n \in k..n
    BY <1>1
  <2>2. p \o r = SubSeq(s, 1, n)
    BY <2>1, ConcatAdjacentSubSeq
  <2>3. QED
    BY <2>2, SubSeqFull
<1>5. ToSet(r) \cap ToSet(p) = {}
  <2>1. \A i \in 1..k, j \in k + 1..n : s[i] # s[j]
    BY <1>1 DEF IsInjective
  <2> HIDE DEF p, r
  <2>2. QED
    BY <1>2, <1>3, <2>1
<1> HIDE DEF p, r
<1>6. Filter(p, ToSet(p)) = p /\ Filter(r, ToSet(p)) = <<>>
  BY <1>2, <1>3, <1>5, FilterAll, FilterNone
<1>7. Filter(p \o r, ToSet(p)) = Filter(p, ToSet(p)) \o Filter(r, ToSet(p))
  BY <1>2, <1>3, FilterConcat
<1>8. p \o <<>> = p
  BY <1>2, ConcatEmptySeq
<1>9. QED
  BY <1>2, <1>4, <1>6, <1>7, <1>8 DEF p
--------------------------------------------------------------------------------
(* The invariant: what was called are the calls of some of the functions that the page *)
(* registered, in their order, and of all of them once the document is ready, unless   *)
(* one threw.                                                                          *)

Listed == registered \in Seq(Roots) /\ IsInjective(registered)
Waiting == ~ isReady => ran = <<>> /\ readyList = registered
Unasked == ~ readyBound => registered = <<>>
Loaded == (readyState # "loading" => body) /\ (isReady => body)
Done(done) ==
  /\ done \in Seq(Roots)
  /\ ran = All(done)
  /\ done = Filter(registered, ToSet(done))
  /\ isReady /\ ~ Threw => ToSet(registered) \subseteq ToSet(done)
SomeDone == \E done : Done(done)

ReadyInv ==
  /\ ReadyTypeOK /\ Nesting
  /\ Listed /\ Waiting /\ Unasked /\ Loaded
  /\ SomeDone

LEMMA ReadyInit_Inv ==
  ASSUME ReadyInit
  PROVE  ReadyInv
<1>1. ReadyTypeOK
  BY EmptySeq DEF ReadyInit, ReadyTypeOK
<1>2. Nesting
  BY DEF ReadyInit, Nesting
<1>3. Listed /\ Waiting /\ Unasked /\ Loaded
  <2>1. Waiting /\ Unasked
    BY DEF ReadyInit, Waiting, Unasked
  <2>2. Loaded
    BY DEF ReadyInit, Loaded
  <2>3. <<>> \in Seq(Roots) /\ IsInjective(<<>>)
    BY EmptySeq DEF IsInjective
  <2>4. registered = <<>>
    BY DEF ReadyInit
  <2>5. QED
    BY <2>1, <2>2, <2>3, <2>4 DEF Listed
<1>4. Done(<<>>)
  <2>1. ran = <<>> /\ registered = <<>> /\ ~ isReady
    BY DEF ReadyInit
  <2>2. <<>> \in Seq(Roots) /\ All(<<>>) = <<>> /\ Filter(<<>>, ToSet(<<>>)) = <<>>
    BY EmptySeq, AllEmpty, FilterEmpty
  <2>3. QED
    BY <2>1, <2>2 DEF Done
<1>5. QED
  BY <1>1, <1>2, <1>3, <1>4 DEF ReadyInv, SomeDone

LEMMA SeqOfRoots ==
  ASSUME NEW s \in Seq(Roots)
  PROVE  s \in Seq(Functions)
<1>1. Roots \subseteq Functions
  BY DEF Roots
<1>2. QED
  BY <1>1, SeqMonotonic

\* What an unchanged page does not change.
LEMMA PageSame ==
  ASSUME UNCHANGED <<nested, throwing>>
  PROVE  /\ Nesting' = Nesting /\ Roots' = Roots /\ Calls' = Calls
         /\ \A done : All(done)' = All(done)
<1>1. Calls' = Calls
  BY DEF Calls, Functions
<1>2. QED
  BY <1>1 DEF Nesting, Roots, All, Functions

--------------------------------------------------------------------------------

\* The part of a step that ready() is, the lists of the page being as they were.
LEMMA ReadyStep ==
  ASSUME ReadyInv, NEW timer \in BOOLEAN, ready(timer),
         UNCHANGED <<nested, throwing, registered>>
  PROVE  /\ readyList' \in Seq(Functions) /\ ran' \in Seq(Functions)
         /\ isReady' \in BOOLEAN /\ retry' \in BOOLEAN
         /\ Waiting' /\ (isReady' => body) /\ SomeDone'
<1>1. /\ readyList \in Seq(Functions) /\ ran \in Seq(Functions) /\ registered \in Seq(Functions)
      /\ isReady \in BOOLEAN /\ body \in BOOLEAN /\ retry \in BOOLEAN /\ throwing \subseteq Functions
      /\ Nesting /\ Listed /\ Waiting /\ Loaded
  BY DEF ReadyInv, ReadyTypeOK
<1>2. PICK done : Done(done)
  BY DEF ReadyInv, SomeDone
<1>3. isReady' \in BOOLEAN /\ retry' \in BOOLEAN
  BY <1>1, Zenon DEF ready
<1>4. isReady' = (isReady \/ body)
  BY DEF ready
<1>5. isReady' => body
  BY <1>1, <1>4, Zenon DEF Loaded
<1>6. CASE ~ isReady /\ body
  <2>1. ran = <<>> /\ readyList = registered /\ isReady'
    BY <1>1, <1>4, <1>6, Zenon DEF Waiting
  <2>2. ran' = ran \o Executed(readyList)
    BY <1>6 DEF ready
  <2>3. readyList' = readyList \/ readyList' = <<>>
    BY <1>6 DEF ready
  <2>4. PICK k \in 0..Len(registered) : Reaches(registered, k)
    BY <1>1, ExecutedPrefix
  <2> DEFINE p == SubSeq(registered, 1, k)
  <2>5. p \in Seq(Roots) /\ Filter(registered, ToSet(p)) = p
    <3>1. registered \in Seq(Roots) /\ IsInjective(registered)
      BY <1>1 DEF Listed
    <3>2. QED
      BY <3>1, <2>4, PrefixKept
  <2>6. All(p) \in Seq(Functions)
    BY <1>1, <2>5, SeqOfRoots, AllTypes
  <2>7. Executed(registered) = All(p)
    BY <2>4 DEF Reaches
  <2>8. ran' = All(p)
    <3> DEFINE x == Executed(registered)
    <3>1. x \in Seq(Functions)
      BY <2>6, <2>7
    <3>2. ran' = <<>> \o x
      BY <2>1, <2>2
    <3>3. <<>> \o x = x
      <4> HIDE DEF x
      <4>1. QED
        BY <3>1, ConcatEmptySeq
    <3>4. QED
      BY <2>7, <3>2, <3>3
  <2>9. ~ Threw' => ToSet(registered) \subseteq ToSet(p)
    <3>1. CASE k = Len(registered)
      <4>1. p = registered
        BY <1>1, <3>1, SubSeqFull
      <4>2. QED
        BY <4>1
    <3>2. CASE ToSet(Executed(registered)) \cap throwing # {}
      BY <2>7, <2>8, <3>2 DEF Threw
    <3>3. QED
      BY <2>4, <3>1, <3>2 DEF Reaches
  <2>10. Done(p)'
    <3>1. Roots' = Roots /\ All(p)' = All(p)
      <4> DEFINE q == p
      <4>1. q' = q
        OBVIOUS
      <4>2. All(q)' = All(q)
        BY <4>1, PageSame DEF All
      <4>3. QED
        BY <4>2, PageSame
    <3>2. p' = p /\ registered' = registered
      OBVIOUS
    <3>3. ToSet(p)' = ToSet(p)
      BY <3>2
    <3> HIDE DEF p
    <3>4. QED
      BY <2>5, <2>8, <2>9, <3>1, <3>2, <3>3 DEF Done
  <2>11. SomeDone'
    BY <2>10 DEF SomeDone
  <2>12. readyList' \in Seq(Functions) /\ ran' \in Seq(Functions)
    BY <1>1, <2>3, <2>6, <2>8, EmptySeq
  <2>13. Waiting'
    BY <2>1, Zenon DEF Waiting
  <2>14. QED
    BY <1>3, <1>5, <2>11, <2>12, <2>13
<1>7. CASE ~ (~ isReady /\ body)
  <2>1. ran' = ran /\ readyList' = readyList
    BY <1>7 DEF ready
  <2>2. isReady' = isReady
    BY <1>1, <1>4, <1>7, Zenon DEF Loaded
  <2>3. Waiting'
    BY <1>1, <2>1, <2>2 DEF Waiting
  <2>4. All(done)' = All(done) /\ Roots' = Roots
    BY PageSame
  <2>5. Done(done)'
    BY <1>2, <2>1, <2>2, <2>4 DEF Done, Threw
  <2>6. QED
    BY <1>1, <1>3, <1>5, <2>1, <2>3, <2>5 DEF SomeDone
<1>8. QED
  BY <1>6, <1>7

LEMMA RegisterStep ==
  ASSUME ReadyInv, register
  PROVE  ReadyInv'
<1>1. /\ readyList \in Seq(Functions) /\ ran \in Seq(Functions) /\ registered \in Seq(Functions)
      /\ isReady \in BOOLEAN /\ body \in BOOLEAN /\ readyBound \in BOOLEAN
      /\ Nesting /\ Listed /\ Waiting /\ Unasked /\ Loaded
  BY DEF ReadyInv, ReadyTypeOK
<1>2. PICK done : Done(done)
  BY DEF ReadyInv, SomeDone
<1>3. PICK f \in Functions :
        /\ f \notin ToSet(registered) /\ \A g \in Functions : nested[g] # f
        /\ registered' = Append(registered, f)
        /\ readyBound' = TRUE
        /\ isReady' = (isReady \/ (~ readyBound /\ readyState = "complete"))
        /\ IF isReady' THEN ran' = ran \o Calls[f] /\ UNCHANGED readyList
           ELSE readyList' = Append(readyList, f) /\ UNCHANGED ran
        /\ UNCHANGED <<nested, throwing, readyState, body, retry>>
  BY DEF register
<1>4. f \in Roots
  BY <1>3 DEF Roots
<1>5. Nesting' = Nesting /\ Roots' = Roots /\ Calls' = Calls /\ \A d : All(d)' = All(d)
  BY <1>3, PageSame
<1>6. isReady' \in BOOLEAN
  BY <1>1, <1>3, Zenon
<1>7. Listed'
  <2>1. registered \in Seq(Roots) /\ IsInjective(registered)
    BY <1>1 DEF Listed
  <2>2. /\ registered' \in Seq(Roots) /\ Len(registered) \in Nat
        /\ DOMAIN registered = 1..Len(registered) /\ DOMAIN registered' = 1..Len(registered) + 1
        /\ registered'[Len(registered) + 1] = f
        /\ \A i \in 1..Len(registered) : registered'[i] = registered[i]
    BY <1>3, <1>4, <2>1, AppendProperties, LenProperties
  <2>3. \A i \in 1..Len(registered) : registered[i] # f
    BY <1>3, <2>2 DEF ToSet
  <2>4. IsInjective(registered')
    BY <2>1, <2>2, <2>3 DEF IsInjective
  <2>5. QED
    BY <1>5, <2>2, <2>4 DEF Listed
<1>8. Loaded'
  <2>1. isReady' => body
    BY <1>1, <1>3, Zenon DEF Loaded
  <2>2. body' = body /\ readyState' = readyState
    BY <1>3
  <2>3. QED
    BY <1>1, <2>1, <2>2 DEF Loaded
<1>9. Unasked'
  BY <1>3 DEF Unasked
<1>10. done \in Seq(Functions) /\ All(done) \in Seq(Functions) /\ Calls[f] \in Seq(Functions)
  <2>1. done \in Seq(Roots)
    BY <1>2 DEF Done
  <2>2. QED
    BY <1>1, <2>1, SeqOfRoots, AllTypes, CallsUnfold
<1>11. CASE isReady'
  <2> DEFINE more == Append(done, f)
  <2>1. ran' = ran \o Calls[f] /\ readyList' = readyList
    BY <1>3, <1>11
  <2>2. ran' = All(more)
    BY <1>1, <1>2, <1>10, <2>1, AllAppend DEF Done
  <2>3. more \in Seq(Roots) /\ ToSet(more) = ToSet(done) \cup {f}
    BY <1>2, <1>4, AppendProperties, ToSetAppend DEF Done
  <2>4. Filter(registered', ToSet(more)) = more
    <3>1. Filter(registered', ToSet(more)) = Append(Filter(registered, ToSet(more)), f)
      BY <1>1, <1>3, <2>3, FilterAppend
    <3>2. Filter(registered, ToSet(more)) = Filter(registered, ToSet(done))
      <4>1. ToSet(registered) \cap ToSet(more) = ToSet(registered) \cap ToSet(done)
        BY <1>3, <2>3
      <4>2. QED
        BY <1>1, <4>1, FilterSame
    <3>3. QED
      BY <1>2, <3>1, <3>2 DEF Done
  <2>5. ToSet(registered') = ToSet(registered) \cup {f}
    BY <1>1, <1>3, ToSetAppend
  <2>6. ~ Threw' => ToSet(registered') \subseteq ToSet(more)
    <3>1. SUFFICES ASSUME ~ Threw' PROVE ToSet(registered) \subseteq ToSet(done)
      BY <2>3, <2>5
    <3>2. CASE isReady
      <4>1. ToSet(ran') = ToSet(ran) \cup ToSet(Calls[f])
        BY <1>1, <1>10, <2>1, ToSetConcat
      <4>2. throwing' = throwing
        BY <1>3
      <4>3. ~ Threw
        BY <3>1, <4>1, <4>2 DEF Threw
      <4>4. QED
        BY <1>2, <3>2, <4>3 DEF Done
    <3>3. CASE ~ isReady
      <4>1. ~ readyBound
        BY <1>3, <1>11, <3>3, Zenon
      <4>2. registered = <<>>
        BY <1>1, <4>1 DEF Unasked
      <4>3. QED
        BY <4>2, ToSetEmpty
    <3>4. QED
      BY <3>2, <3>3
  <2>7. Done(more)'
    <3>1. more' = more
      OBVIOUS
    <3>2. All(more)' = All(more)
      BY <1>5, <3>1 DEF All
    <3>3. ToSet(more)' = ToSet(more)
      BY <3>1
    <3> HIDE DEF more
    <3>4. QED
      BY <1>5, <2>2, <2>3, <2>4, <2>6, <3>1, <3>2, <3>3 DEF Done
  <2>8. Waiting'
    BY <1>11, Zenon DEF Waiting
  <2>9. ran' \in Seq(Functions)
    BY <1>1, <1>10, <2>1, ConcatProperties
  <2>10. ReadyTypeOK'
    <3>1. registered' \in Seq(Functions)
      BY <1>1, <1>3, AppendProperties
    <3>2. UNCHANGED <<nested, throwing, readyState, body, retry, readyList>> /\ readyBound' = TRUE
      BY <1>3, <2>1
    <3>3. ReadyTypeOK
      BY DEF ReadyInv
    <3>4. QED
      BY <1>6, <2>9, <3>1, <3>2, <3>3, Zenon DEF ReadyTypeOK, Functions
  <2>11. SomeDone'
    BY <2>7 DEF SomeDone
  <2>12. QED
    BY <1>1, <1>5, <1>7, <1>8, <1>9, <2>8, <2>10, <2>11 DEF ReadyInv
<1>12. CASE ~ isReady'
  <2>1. readyList' = Append(readyList, f) /\ ran' = ran
    BY <1>3, <1>12
  <2>2. ~ isReady
    BY <1>3, <1>12, Zenon
  <2>3. Waiting'
    BY <1>1, <1>3, <2>1, <2>2 DEF Waiting
  <2>4. Done(<<>>)'
    <3>1. ran' = <<>>
      BY <1>1, <2>1, <2>2 DEF Waiting
    <3>2. All(<<>>)' = <<>>
      <4>1. All(<<>>)' = All(<<>>)
        BY <1>5
      <4>2. QED
        BY <4>1, AllEmpty
    <3>3. Filter(registered', ToSet(<<>>)) = <<>>
      <4>1. registered' \in Seq(Functions) /\ ToSet(registered') \cap ToSet(<<>>) = {}
        BY <1>1, <1>3, AppendProperties, ToSetEmpty
      <4>2. QED
        BY <4>1, FilterNone
    <3>4. <<>> \in Seq(Roots)'
      BY EmptySeq
    <3>5. QED
      BY <1>12, <3>1, <3>2, <3>3, <3>4 DEF Done
  <2>5. ReadyTypeOK'
    <3>1. registered' \in Seq(Functions) /\ readyList' \in Seq(Functions)
      BY <1>1, <1>3, <2>1, AppendProperties
    <3>2. UNCHANGED <<nested, throwing, readyState, body, retry, ran>> /\ readyBound' = TRUE
      BY <1>3, <2>1
    <3>3. ReadyTypeOK
      BY DEF ReadyInv
    <3>4. QED
      BY <1>6, <3>1, <3>2, <3>3, Zenon DEF ReadyTypeOK, Functions
  <2>6. SomeDone'
    BY <2>4 DEF SomeDone
  <2>7. QED
    BY <1>1, <1>5, <1>7, <1>8, <1>9, <2>3, <2>5, <2>6 DEF ReadyInv
<1>13. QED
  BY <1>11, <1>12

\* The steps that only call ready(), or nothing.
LEMMA CallingStep ==
  ASSUME ReadyInv, UNCHANGED <<nested, throwing, registered, readyBound>>,
         readyState' \in {"loading", "interactive", "complete"}, body' \in BOOLEAN,
         readyState' # "loading" => body', body => body',
         \/ \E timer \in BOOLEAN : ready(timer)
         \/ UNCHANGED <<isReady, retry, ran, readyList>>
  PROVE  ReadyInv'
<1>1. /\ readyList' \in Seq(Functions) /\ ran' \in Seq(Functions)
      /\ isReady' \in BOOLEAN /\ retry' \in BOOLEAN
      /\ Waiting' /\ (isReady' => body) /\ SomeDone'
  <2>1. CASE \E timer \in BOOLEAN : ready(timer)
    BY <2>1, ReadyStep
  <2>2. CASE UNCHANGED <<isReady, retry, ran, readyList>>
    <3>1. ReadyTypeOK /\ Waiting /\ Loaded
      BY DEF ReadyInv
    <3>2. PICK done : Done(done)
      BY DEF ReadyInv, SomeDone
    <3>3. All(done)' = All(done) /\ Roots' = Roots
      BY PageSame
    <3>4. Done(done)'
      BY <2>2, <3>2, <3>3 DEF Done, Threw
    <3>5. SomeDone'
      BY <3>4 DEF SomeDone
    <3>6. Waiting'
      BY <2>2, <3>1 DEF Waiting
    <3>7. isReady' => body
      BY <2>2, <3>1 DEF Loaded
    <3>8. /\ readyList' \in Seq(Functions) /\ ran' \in Seq(Functions)
          /\ isReady' \in BOOLEAN /\ retry' \in BOOLEAN
      BY <2>2, <3>1, Zenon DEF ReadyTypeOK
    <3>9. QED
      BY <3>5, <3>6, <3>7, <3>8
  <2>3. QED
    BY <2>1, <2>2
<1>2. ReadyTypeOK'
  <2>1. ReadyTypeOK
    BY DEF ReadyInv
  <2>2. QED
    BY <1>1, <2>1, Zenon DEF ReadyTypeOK, Functions
<1>3. Nesting' /\ Listed' /\ Unasked' /\ Loaded'
  <2>1. Nesting /\ Listed /\ Unasked /\ Loaded
    BY DEF ReadyInv
  <2>2. Nesting' = Nesting /\ Roots' = Roots
    BY PageSame
  <2>3. QED
    BY <1>1, <2>1, <2>2 DEF Listed, Unasked, Loaded
<1>4. QED
  BY <1>1, <1>2, <1>3 DEF ReadyInv

LEMMA ReadyStep_Inv ==
  ASSUME ReadyInv, [ReadyNext]_rvars
  PROVE  ReadyInv'
<1>0. /\ readyState \in {"loading", "interactive", "complete"} /\ body \in BOOLEAN
      /\ retry \in BOOLEAN /\ (readyState # "loading" => body)
  BY DEF ReadyInv, ReadyTypeOK, Loaded
<1>1. CASE register
  BY <1>1, RegisterStep
<1>2. CASE parse
  <2>1. /\ UNCHANGED <<nested, throwing, registered, readyBound>>
        /\ readyState' = readyState /\ body' = TRUE
        /\ UNCHANGED <<isReady, retry, ran, readyList>>
    BY <1>2 DEF parse
  <2>2. QED
    BY <1>0, <2>1, CallingStep
<1>3. CASE loaded
  <2>1. /\ UNCHANGED <<nested, throwing, registered, readyBound>> /\ body' = body /\ body
        /\ readyState' \in {"loading", "interactive", "complete"}
    BY <1>3 DEF loaded
  <2>2. ready(retry) \/ UNCHANGED <<isReady, retry, ran, readyList>>
    BY <1>3 DEF loaded
  <2>3. (\E timer \in BOOLEAN : ready(timer)) \/ UNCHANGED <<isReady, retry, ran, readyList>>
    BY <1>0, <2>2
  <2>4. QED
    BY <1>0, <2>1, <2>3, CallingStep
<1>4. CASE doScrollCheck
  <2>1. /\ UNCHANGED <<nested, throwing, registered, readyBound>>
        /\ readyState' = readyState /\ body' = body /\ ready(retry)
    BY <1>4 DEF doScrollCheck
  <2>2. \E timer \in BOOLEAN : ready(timer)
    BY <1>0, <2>1
  <2>3. QED
    BY <1>0, <2>1, <2>2, CallingStep
<1>5. CASE again
  <2>1. /\ UNCHANGED <<nested, throwing, registered, readyBound>>
        /\ readyState' = readyState /\ body' = body /\ ready(FALSE)
    BY <1>5 DEF again
  <2>2. \E timer \in BOOLEAN : ready(timer)
    BY <2>1
  <2>3. QED
    BY <1>0, <2>1, <2>2, CallingStep
<1>6. CASE UNCHANGED rvars
  <2>1. /\ UNCHANGED <<nested, throwing, registered, readyBound>>
        /\ readyState' = readyState /\ body' = body
        /\ UNCHANGED <<isReady, retry, ran, readyList>>
    BY <1>6 DEF rvars
  <2>2. QED
    BY <1>0, <2>1, CallingStep
<1>7. QED
  BY <1>1, <1>2, <1>3, <1>4, <1>5, <1>6 DEF ReadyNext

LEMMA ReadyInv_Calls ==
  ASSUME ReadyInv
  PROVE  ReadyCalls
<1>1. PICK done : Done(done)
  BY DEF ReadyInv, SomeDone
<1>2. /\ Nesting /\ Listed /\ Waiting /\ Loaded /\ registered \in Seq(Functions)
      /\ isReady \in BOOLEAN
  BY DEF ReadyInv, ReadyTypeOK
<1>3. done \in Seq(Roots) /\ ran = All(done) /\ Kept(done)
  BY <1>1, <1>2, AllKept DEF Done
<1>4. registered \in Seq(Roots) /\ IsInjective(registered) /\ ToSet(registered) \subseteq Roots
  BY <1>2, ToSetType DEF Listed
<1>5. done = Filter(registered, ToSet(done)) /\ IsInjective(done)
  BY <1>1, <1>4, FilterInjective DEF Done
<1>6. ToSet(done) \subseteq ToSet(registered)
  BY <1>4, <1>5, FilterRange
<1>7. InOrder
  <2>1. Filter(ran, ToSet(registered)) = done
    BY <1>3, <1>4, <1>6 DEF Kept
  <2>2. Filter(registered, ToSet(ran)) = done
    <3>1. ToSet(registered) \cap ToSet(ran) = ToSet(registered) \cap ToSet(done)
      BY <1>3, <1>4 DEF Kept
    <3>2. Filter(registered, ToSet(ran)) = Filter(registered, ToSet(done))
      BY <1>4, <3>1, FilterSame
    <3>3. QED
      BY <1>5, <3>2
  <2>3. IsInjective(ran)
    BY <1>3, <1>5 DEF Kept
  <2>4. QED
    BY <2>1, <2>2, <2>3 DEF InOrder
<1>8. WithBody
  BY <1>2 DEF WithBody, Waiting, Loaded
<1>9. AllExecuted
  <2>1. ToSet(done) \subseteq ToSet(ran)
    BY <1>3 DEF Kept
  <2>2. isReady /\ ~ Threw => ToSet(registered) \subseteq ToSet(done)
    BY <1>1 DEF Done
  <2>3. QED
    BY <2>1, <2>2 DEF AllExecuted
<1>10. QED
  BY <1>7, <1>8, <1>9 DEF ReadyCalls

\* The variables of ready have values of their types (jQuery.ready, bindReady).
THEOREM ReadyTypes == ReadySpec => []ReadyTypeOK
<1>1. ReadyInit => ReadyInv
  BY ReadyInit_Inv
<1>2. ReadyInv /\ [ReadyNext]_rvars => ReadyInv'
  BY ReadyStep_Inv
<1>3. ReadyInv => ReadyTypeOK
  BY DEF ReadyInv
<1>4. QED
  BY <1>1, <1>2, <1>3, PTL DEF ReadySpec

\* Whatever functions the page registers, and whichever of them throw, those that are called
\* are called once, in their order and with a body there, and all of them once the document
\* is ready, unless one threw (jQuery.ready).
THEOREM FunctionsCalled == ReadySpec => []ReadyCalls
<1>1. ReadyInit => ReadyInv
  BY ReadyInit_Inv
<1>2. ReadyInv /\ [ReadyNext]_rvars => ReadyInv'
  BY ReadyStep_Inv
<1>3. ReadyInv => ReadyCalls
  BY ReadyInv_Calls
<1>4. QED
  BY <1>1, <1>2, <1>3, PTL DEF ReadySpec

================================================================================
