-------------------------------- MODULE Effects --------------------------------
(* The effects of jquery-1.4.2.js: the fx queue of an element (queue, dequeue,     *)
(* delay, clearQueue), animate with show, hide and toggle, stop, and the one       *)
(* interval that steps all running animations.                                     *)
(*                                                                                 *)
(* What runs, runs to its end, so an action is a call of the page or an event of   *)
(* the browser, and the calls in it are operators on the state.  Time is left out: *)
(* any of the running animations may be due at a tick.  Of the style, whether the  *)
(* element is shown and whether its overflow is hidden are kept.                   *)
EXTENDS Integers, Sequences, FiniteSets

CONSTANTS
  Elements,
  MaxEntries,  \* bound: calls of animate and delay in the whole behaviour
  Kinds,       \* what they are: "show", "hide", "toggle", "to", "delay"
  Queued,      \* values of the option queue
  Instants,    \* whether the duration is 0 (jQuery.fx.off)
  Stops,       \* how stop is called: "stop", "clear", "end", "clear end"
  StopInDelay, \* the page stops elements whose queue is delayed
  Clears,      \* the page calls clearQueue
  Callbacks    \* what complete callbacks do: "nothing", or "stop": $(this).stop()

VARIABLES
  entries,  \* what animate and delay were asked, in the order of the calls
  queue,    \* queue[e]: the fx queue: indices of entries, or the sentinel
  timers,   \* jQuery.timers: what is stepped, by entry and property
  ticking,  \* timerId: the interval is set
  delays,   \* the entries of delay whose timeout is set
  shown,    \* shown[e]: e is displayed
  clipped,  \* clipped[e]: its overflow is hidden by an animation
  last      \* last[e]: what the animation of e that started last does

vars == <<entries, queue, timers, ticking, delays, shown, clipped, last>>

inprogress == 0

Now == [entries |-> entries, queue |-> queue, timers |-> timers, ticking |-> ticking,
        delays |-> delays, shown |-> shown, clipped |-> clipped, last |-> last]

Become(s) ==
  /\ entries' = s.entries /\ queue' = s.queue /\ timers' = s.timers
  /\ ticking' = s.ticking /\ delays' = s.delays /\ shown' = s.shown
  /\ clipped' = s.clipped /\ last' = s.last

RemoveIndex(seq, i) == SubSeq(seq, 1, i - 1) \o SubSeq(seq, i + 1, Len(seq))

\* timers.splice(i, 1), which does nothing beyond the end.
DropAt(s, i) == IF i > Len(s.timers) THEN s ELSE [s EXCEPT !.timers = RemoveIndex(@, i)]

RECURSIVE Dequeue(_, _), Start(_, _), StartProps(_, _, _), StepEnds(_, _),
          Complete(_, _), StopFrom(_, _, _, _)

\* Mutant of Dequeue: the sentinel stays when it is the last.
DequeueKept(s, e) ==
  LET fns == SelectSeq(s.queue[e], LAMBDA id : id # inprogress)
  IN IF fns = <<>>
     THEN s
     ELSE Start([s EXCEPT !.queue[e] = <<inprogress>> \o Tail(fns)], Head(fns))

\* Mutant of Dequeue: pop for shift.
DequeueLast(s, e) ==
  LET fns == SelectSeq(s.queue[e], LAMBDA id : id # inprogress)
      n == Len(fns)
  IN IF fns = <<>>
     THEN [s EXCEPT !.queue[e] = <<>>]
     ELSE Start([s EXCEPT !.queue[e] = <<inprogress>> \o SubSeq(fns, 1, n - 1)], fns[n])

\* The sentinel goes, and the next function is called behind a new one.
Dequeue(s, e) ==
  LET fns == SelectSeq(s.queue[e], LAMBDA id : id # inprogress)
  IN IF fns = <<>>
     THEN [s EXCEPT !.queue[e] = <<>>]
     ELSE Start([s EXCEPT !.queue[e] = <<inprogress>> \o Tail(fns)], Head(fns))

\* The function that animate or delay has queued.  Nothing to show or to hide is
\* completed at once; an animation of the height clips what overflows.
Start(s, id) ==
  LET a == s.entries[id]
      e == a.elem
      kind == IF a.kind # "toggle" THEN a.kind
              ELSE IF s.shown[e] THEN "hide" ELSE "show"
      sized == "height" \in a.left
      begun == [s EXCEPT !.entries[id].started = TRUE, !.entries[id].kind = kind,
                         !.last[e] = kind]
  IN CASE kind = "delay" -> [begun EXCEPT !.delays = @ \cup {id}]
       [] kind = (IF s.shown[e] THEN "show" ELSE "hide") ->
            Complete(begun, id)
       [] OTHER ->
            StartProps([begun EXCEPT !.entries[id].clipped = s.clipped[e],
                                     !.clipped[e] = @ \/ sized],
                       id, SelectSeq(<<"height", "opacity">>, LAMBDA p : p \in a.left))

\* update: to change the height is to display the element.
Update(s, id, prop) ==
  [s EXCEPT !.shown[s.entries[id].elem] = @ \/ prop = "height"]

\* custom steps once and has the rest stepped by the interval; show is called after
\* it for every property that is shown.
StartProps(s, id, props) ==
  IF props = <<>> THEN s
  ELSE LET t == [id |-> id, prop |-> Head(props)]
           a == s.entries[id]
           stepped == IF a.instant THEN StepEnds(s, t)
                      ELSE [Update(s, id, t.prop) EXCEPT !.timers = Append(@, t),
                                                         !.ticking = TRUE]
       IN StartProps([stepped EXCEPT !.shown[a.elem] = @ \/ a.kind = "show"],
                     id, Tail(props))

\* Mutant of StepEnds: the last step of any property ends the animation.
StepEndsFirst(s, t) ==
  Complete([Update(s, t.id, t.prop) EXCEPT !.entries[t.id].left = @ \ {t.prop}], t.id)

\* The last step of a property; the last one of all ends the animation.
StepEnds(s, t) ==
  LET a == s.entries[t.id]
      e == a.elem
      u == [Update(s, t.id, t.prop) EXCEPT !.entries[t.id].left = @ \ {t.prop}]
  IN IF u.entries[t.id].left # {} THEN u
     ELSE Complete([u EXCEPT !.clipped[e] = IF a.sized THEN a.clipped ELSE @,
                             !.shown[e] = @ /\ a.kind # "hide"],
                   t.id)

\* opt.complete: the next one is started before the callback is called.
Complete(s, id) ==
  LET a == s.entries[id]
      next == IF a.queued THEN Dequeue(s, a.elem) ELSE s
      called == [next EXCEPT !.entries[id].called = @ + 1]
  IN IF a.callback # "stop" THEN called
     ELSE Dequeue(StopFrom(called, a.elem, Len(called.timers), FALSE), a.elem)

\* The loop of stop for e, from the last timer; it throws when the callbacks have
\* taken the timer it looks at.
StopFrom(s, e, i, end) ==
  CASE i = 0 -> s
    [] i > Len(s.timers) -> s
    [] OTHER ->
         LET t == s.timers[i]
         IN IF s.entries[t.id].elem # e THEN StopFrom(s, e, i - 1, end)
            ELSE StopFrom(DropAt(IF end THEN StepEnds(s, t) ELSE s, i), e, i - 1, end)

--------------------------------------------------------------------------------

Entry(e, kind, props, queued, instant, callback) ==
  [elem |-> e, kind |-> kind, left |-> props, sized |-> "height" \in props,
   queued |-> queued, instant |-> instant, callback |-> callback, clipped |-> FALSE,
   started |-> FALSE, called |-> 0]

\* Mutant of Enqueue: whether something is in progress is not asked.
EnqueueAlways(s, e, id) == Dequeue([s EXCEPT !.queue[e] = Append(@, id)], e)

\* jQuery.fn.queue: nothing in progress, so the first one is called.
Enqueue(s, e, id) ==
  LET t == [s EXCEPT !.queue[e] = Append(@, id)]
  IN IF Head(t.queue[e]) # inprogress THEN Dequeue(t, e) ELSE t

animate(e) ==
  /\ Len(entries) < MaxEntries
  /\ \E kind \in Kinds \ {"delay"}, props \in {{"height", "opacity"}, {"opacity"}},
        queued \in Queued, instant \in Instants, callback \in Callbacks :
       LET id == Len(entries) + 1
           s == [Now EXCEPT !.entries =
                   Append(@, Entry(e, kind, props, queued, instant, callback))]
       IN Become(IF queued THEN Enqueue(s, e, id) ELSE Start(s, id))

delay(e) ==
  /\ Len(entries) < MaxEntries
  /\ "delay" \in Kinds
  /\ Become(Enqueue([Now EXCEPT !.entries =
                       Append(@, Entry(e, "delay", {}, TRUE, FALSE, "nothing"))],
                    e, Len(entries) + 1))

Delayed(e) == \E id \in delays : entries[id].elem = e

\* stop(clearQueue, gotoEnd): the next one is started unless the last step was forced.
stop(e) ==
  /\ StopInDelay \/ ~ Delayed(e)
  /\ \E how \in Stops :
       LET s == IF how \in {"clear", "clear end"} THEN [Now EXCEPT !.queue[e] = <<>>] ELSE Now
           stopped == StopFrom(s, e, Len(timers), how \in {"end", "clear end"})
       IN Become(IF how \in {"end", "clear end"} THEN stopped ELSE Dequeue(stopped, e))

clearQueue(e) ==
  /\ Clears
  /\ Become([Now EXCEPT !.queue[e] = <<>>])

\* The timeout of a delay.
DelayEnds ==
  \E id \in delays :
    Become(Dequeue([Now EXCEPT !.delays = @ \ {id}], entries[id].elem))

\* The loop of tick: i-- after each timer that was taken away.
RECURSIVE TickFrom(_, _, _)
TickFrom(s, i, due) ==
  IF i > Len(s.timers) THEN s
  ELSE IF s.timers[i] \in due
       THEN TickFrom(DropAt(StepEnds(s, s.timers[i]), i), i, due)
       ELSE TickFrom(Update(s, s.timers[i].id, s.timers[i].prop), i + 1, due)

\* Mutant of tick: the timers are counted before the steps.
tickCounts ==
  /\ ticking
  /\ \E due \in SUBSET {timers[i] : i \in DOMAIN timers} :
       LET s == TickFrom(Now, 1, due)
       IN Become([s EXCEPT !.ticking = Len(timers) # Cardinality(due)])

\* Those that are due end, and when none is left the interval is cleared.
tick ==
  /\ ticking
  /\ \E due \in SUBSET {timers[i] : i \in DOMAIN timers} :
       LET s == TickFrom(Now, 1, due)
       IN Become([s EXCEPT !.ticking = s.timers # <<>>])

Init ==
  /\ entries = <<>> /\ timers = <<>> /\ delays = {} /\ ticking = FALSE
  /\ queue = [e \in Elements |-> <<>>]
  /\ shown \in [Elements -> BOOLEAN]
  /\ clipped = [e \in Elements |-> FALSE]
  /\ last = [e \in Elements |-> "to"]

Next ==
  \/ \E e \in Elements : animate(e) \/ delay(e) \/ stop(e) \/ clearQueue(e)
  \/ DelayEnds \/ tick

Spec == Init /\ [][Next]_vars

\* The last step of a timer that is due, or a stop.
TimerEnds == \E i \in DOMAIN timers : \A j \in DOMAIN timers' : timers'[j] # timers[i]
--------------------------------------------------------------------------------

Stepped(id) == \E i \in DOMAIN timers : timers[i].id = id
Running(e) ==
  {id \in DOMAIN entries : entries[id].elem = e /\ entries[id].queued
                             /\ (Stepped(id) \/ id \in delays)}

EffectsTypeOK ==
  /\ \A id \in DOMAIN entries :
       /\ entries[id].elem \in Elements /\ entries[id].called \in Nat
       /\ entries[id].left \subseteq {"height", "opacity"}
  /\ \A e \in Elements : \A i \in DOMAIN queue[e] : queue[e][i] \in 0..Len(entries)
  /\ \A i \in DOMAIN timers : timers[i].prop \in entries[timers[i].id].left
  /\ delays \subseteq DOMAIN entries
  /\ {ticking} \subseteq BOOLEAN

\* The animations and delays in the queue of an element run one after the other, also
\* when some are stopped: "Add a progress sentinel to prevent the fx queue from being
\* automatically dequeued" (dequeue, jquery-1.4.2.js:1151).
OneAtATime == \A e \in Elements : Cardinality(Running(e)) <= 1

\* What waits in a queue waits for something that will dequeue it.
Driven == \A e \in Elements : queue[e] # <<>> => Running(e) # {}

\* What is stepped is stepped by an interval that was not cleared (tick, custom).
Ticks == timers # <<>> => ticking

\* The complete callback of an animation is called once (step, stop with gotoEnd).
CalledOnce == \A id \in DOMAIN entries : entries[id].called <= 1

Idle(e) ==
  /\ queue[e] = <<>>
  /\ \A id \in DOMAIN entries : entries[id].elem = e => ~ Stepped(id) /\ id \notin delays

\* "Start by showing the element" (show, jquery-1.4.2.js:5784): an element rests as
\* the last of its animations asked, in whatever order they were queued.
RestsAsAsked ==
  \A e \in Elements :
    Idle(e) /\ last[e] \in {"show", "hide"} => (shown[e] <=> last[e] = "show")

\* "Reset the overflow" (step, jquery-1.4.2.js:5817): no element rests clipped.
OverflowReset == \A e \in Elements : Idle(e) => ~ clipped[e]

\* Queued animations start in the order of the calls (queue, dequeue).
StartInOrder ==
  \A id, later \in DOMAIN entries :
    /\ id < later /\ entries[id].queued /\ entries[later].queued
    /\ entries[id].elem = entries[later].elem
    /\ entries[later].started /\ ~ entries[id].started
    => ~ entries'[id].started

\* What is asked ends: its callback is called.
Asked(id) == id \in DOMAIN entries
IsOver(id) ==
  Asked(id) /\ IF entries[id].kind = "delay" THEN id \notin delays ELSE entries[id].called = 1

================================================================================
