--------------------------------- MODULE Events ---------------------------------
(* jQuery.event (jquery-1.4.2.js): handlers bound to elements with bind, one and   *)
(* live, and events that browser or page start at an element and that go up from   *)
(* it.  A handler is code of the page: while it runs it binds, unbinds, removes    *)
(* elements and triggers events.  So what runs is a stack of events, the innermost *)
(* first, each at an element with the handlers that are left there.                *)
(*                                                                                 *)
(* A selector stands for the set of elements that it matches, and fn for a         *)
(* function and its guid.                                                          *)
EXTENDS Integers, Sequences, FiniteSets, Arrays

CONSTANTS
  Elements,
  Document,
  Path,        \* Path[e]: e, its parentNode in the page, the parentNode of that, ...
  Null,
  Fns,         \* functions of the page
  Selectors,
  Matches,     \* Matches[sel]: the elements that match
  EventTypes,
  Namespaces,  \* those of handlers and triggers besides ""
  Removes,     \* the page removes elements
  MaxBinds,    \* bound: handlers bound in the whole behaviour
  MaxUnbinds,  \* bound: calls of unbind, die and remove
  MaxEvents,   \* bound: events started
  MaxNested    \* bound: events inside each other

LiveHandler == "liveHandler"

\* The elements are a tree, and the names that jQuery gives are not names of the page.
ASSUME EventsAssumption ==
  /\ Document \in Elements /\ Null \notin Elements
  /\ Path \in [Elements -> Seq(Elements)]
  /\ \A e \in Elements :
       /\ Path[e] # <<>> /\ Path[e][1] = e
       /\ Len(Path[e]) > 1 => Tail(Path[e]) = Path[Path[e][2]]
  /\ Matches \in [Selectors -> SUBSET Elements]
  /\ LiveHandler \notin Fns /\ {"live", Null} \cap EventTypes = {} /\ "" \notin Namespaces
  /\ MaxNested \in Nat \ {0}

VARIABLES
  bound,     \* bound[e]: the handleObjs in events of e, of all types, in their order
  listening, \* listening[e]: the types for which e has the native listener
  cache,     \* the elements with an entry in jQuery.cache
  removed,   \* the elements that were removed from the page
  frames,    \* the events that run, the innermost first
  handlers,  \* handlers[id]: the one that was bound id-th: of one, how often called, and cut
             \* off, which one of live is when the page unbinds its type
  unbinds,   \* calls of unbind, die and remove so far
  events     \* events so far

evars == <<bound, listening, cache, removed, frames, handlers, unbinds, events>>
store == <<bound, listening, cache>>

Parent(e) == IF Len(Path[e]) = 1 THEN Null ELSE Path[e][2]
Attached(e) == ToSet(Path[e]) \cap removed = {}
Below(e) == {x \in Elements : e \in ToSet(Path[x])}

--------------------------------------------------------------------------------
(* Handlers of an element.                                                         *)

\* Mutant of handleObj: the last part of click.ns is taken for the type.
handleObjLast(type, ns, fn, once, orig, sel) ==
  [id |-> Len(handlers) + 1, type |-> IF ns = "" THEN type ELSE ns, ns |-> "", fn |-> fn,
   once |-> once, orig |-> orig, sel |-> sel, at |-> Null]

\* orig and sel are those of live, and Null otherwise; at is where live calls it.
handleObj(type, ns, fn, once, orig, sel) ==
  [id |-> Len(handlers) + 1, type |-> type, ns |-> ns, fn |-> fn, once |-> once,
   orig |-> orig, sel |-> sel, at |-> Null]

Of(e) == [bound |-> bound[e], listening |-> listening[e], cached |-> e \in cache]
Put(e, el) ==
  /\ bound' = [bound EXCEPT ![e] = el.bound]
  /\ listening' = [listening EXCEPT ![e] = el.listening]
  /\ cache' = IF el.cached THEN cache \cup {e} ELSE cache \ {e}

\* jQuery.event.add of one type.
add(el, obj) ==
  [bound |-> Append(el.bound, obj), listening |-> el.listening \cup {obj.type},
   cached |-> TRUE]

Pick(seq, indices) == Filter(seq, {seq[i] : i \in indices})

\* Mutant of Keep: the native listener stays.
KeepListening(el, left) ==
  [bound |-> Pick(el.bound, left), listening |-> el.listening, cached |-> left # {}]

\* What remove leaves: the native listener goes with the last handler of its type, and
\* the data of the element with the last handler of all.
Keep(el, left) ==
  [bound |-> Pick(el.bound, left),
   listening |-> {el.bound[i].type : i \in left},
   cached |-> left # {}]

\* Mutant of remove: any live handler takes liveHandler with it.
removeLive(el, gone, named) ==
  IF el.bound = <<>> THEN [el EXCEPT !.cached = TRUE]
  ELSE LET over == {el.bound[i].orig : i \in gone}
           Over(o) == named /\ o.fn = LiveHandler /\ o.type \in over
       IN Keep(el, {i \in DOMAIN el.bound \ gone : ~ Over(el.bound[i])})

\* jQuery.event.remove: to ask for the data of an element is to make it.  The last live
\* handler of a type, if its function was named, takes liveHandler with it: without a
\* name it is still in the list when special.live.remove looks there.
remove(el, gone, named) ==
  IF el.bound = <<>> THEN [el EXCEPT !.cached = TRUE]
  ELSE LET left == DOMAIN el.bound \ gone
           over == {el.bound[i].orig : i \in gone} \ {el.bound[i].orig : i \in left}
           Over(o) == named /\ o.fn = LiveHandler /\ o.type \in over
       IN Keep(el, {i \in left : ~ Over(el.bound[i])})

Where(e, Test(_)) == {i \in DOMAIN bound[e] : Test(bound[e][i])}

--------------------------------------------------------------------------------
(* The page.                                                                       *)

Current == Head(frames)
Free == frames # <<>> => Current.running # Null

Unbinding == unbinds < MaxUnbinds /\ unbinds' = unbinds + 1
Still == UNCHANGED <<removed, frames, events>>

bind(e) ==
  /\ Free /\ Len(handlers) < MaxBinds
  /\ \E type \in EventTypes, ns \in Namespaces \cup {""}, fn \in Fns, once \in BOOLEAN :
       /\ Put(e, add(Of(e), handleObj(type, ns, fn, once, Null, Null)))
       /\ handlers' = Append(handlers, [once |-> once, n |-> 0, cut |-> FALSE])
  /\ UNCHANGED unbinds /\ Still

\* live: liveHandler for the type, and an entry for it to look up.
live(e) ==
  /\ Free /\ Len(handlers) < MaxBinds
  /\ \E type \in EventTypes, fn \in Fns, sel \in Selectors :
       /\ Put(e, add(add(Of(e), handleObj(type, "", LiveHandler, FALSE, Null, Null)),
                     handleObj("live", "", fn, FALSE, type, sel)))
       /\ handlers' = Append(handlers, [once |-> FALSE, n |-> 0, cut |-> FALSE])
  /\ UNCHANGED unbinds /\ Still

MayUnbind(e) == Free /\ Unbinding

\* unbind(type, fn), unbind(".ns") and unbind()
unbind(e) ==
  /\ MayUnbind(e)
  /\ \/ \E type \in EventTypes, fn \in Fns :
          Put(e, remove(Of(e), Where(e, LAMBDA o : o.type = type /\ o.fn = fn), TRUE))
     \/ \E ns \in Namespaces :
          Put(e, remove(Of(e), Where(e, LAMBDA o : o.ns = ns), FALSE))
     \/ Put(e, remove(Of(e), DOMAIN bound[e], FALSE))
  /\ UNCHANGED handlers /\ Still

\* unbind(type): liveHandler is one of the handlers, and what is bound by live stays.
unbindType(e) ==
  /\ MayUnbind(e)
  /\ \E type \in EventTypes :
       /\ Put(e, remove(Of(e), Where(e, LAMBDA o : o.type = type), FALSE))
       /\ LET over == {o.id : o \in {x \in ToSet(bound[e]) : x.orig = type}}
          IN handlers' = [id \in DOMAIN handlers |-> [handlers[id] EXCEPT !.cut = @ \/ id \in over]]
  /\ Still

\* die(type, fn): unbind of the entry of live.
die(e) ==
  /\ MayUnbind(e)
  /\ \E type \in EventTypes, sel \in Selectors, fn \in Fns :
       Put(e, remove(Of(e), Where(e, LAMBDA o : o.orig = type /\ o.sel = sel /\ o.fn = fn),
                     TRUE))
  /\ UNCHANGED handlers /\ Still

\* die(type)
dieAll(e) ==
  /\ MayUnbind(e)
  /\ \E type \in EventTypes, sel \in Selectors :
       Put(e, remove(Of(e), Where(e, LAMBDA o : o.orig = type /\ o.sel = sel), FALSE))
  /\ UNCHANGED handlers /\ Still

\* remove: cleanData of the element and all below it.
removeElement(e) ==
  /\ Removes /\ Free /\ Unbinding
  /\ e # Document /\ e \notin removed
  /\ removed' = removed \cup {e}
  /\ bound' = [x \in Elements |-> IF x \in Below(e) THEN <<>> ELSE bound[x]]
  /\ listening' = [x \in Elements |-> IF x \in Below(e) THEN {} ELSE listening[x]]
  /\ cache' = cache \ Below(e)
  /\ UNCHANGED <<frames, handlers, events>>

--------------------------------------------------------------------------------
(* Events.                                                                         *)

\* handle takes a copy of the handlers of the type; those of a namespace, if the event
\* has one.  From then on the event has none.
Arrive(f, e) ==
  IF bound[e] = <<>> THEN [f EXCEPT !.cur = e, !.left = <<>>]
  ELSE [f EXCEPT !.cur = e, !.ns = "",
                 !.left = Those(bound[e], LAMBDA o :
                            o.type = f.type /\ (f.ns = "" \/ o.ns = f.ns))]

Event(type, ns, e, native) ==
  [type |-> type, ns |-> ns, target |-> e, cur |-> e, native |-> native,
   left |-> <<>>, running |-> Null, fired |-> Null, stopped |-> FALSE]

Starting == events < MaxEvents /\ events' = events + 1

\* jQuery.event.trigger, in a handler or outside.
trigger(e) ==
  /\ Free /\ Starting /\ Len(frames) < MaxNested
  /\ \E type \in EventTypes, ns \in Namespaces \cup {""} :
       frames' = <<Arrive(Event(type, ns, e, FALSE), e)>> \o frames
  /\ UNCHANGED <<store, removed, handlers, unbinds>>

\* What the user does.
native(e) ==
  /\ frames = <<>> /\ Starting /\ Attached(e)
  /\ \E type \in EventTypes :
       frames' = <<Arrive(Event(type, "", e, TRUE), e)>>
  /\ UNCHANGED <<store, removed, handlers, unbinds>>

\* closest(selectors, context): for each selector the next element up from target and
\* below context.
Closest(target, sel, context) ==
  LET hits == Filter(Path[target], (Matches[sel] \cap Below(context)) \ {context})
  IN IF hits = <<>> THEN Null ELSE Head(hits)

\* liveHandler: the entries whose selector has a match, the innermost match first.
LiveCalls(f) ==
  LET entries == Those(bound[f.cur], LAMBDA o : o.type = "live" /\ o.orig = f.type)
      found == [i \in DOMAIN entries |->
                  [entries[i] EXCEPT !.at = Closest(f.target, entries[i].sel, f.cur)]]
  IN FlattenSeq([i \in DOMAIN Path[f.target] |->
                   Those(found, LAMBDA o : o.at = Path[f.target][i])])

CountCall(o) == handlers' = [handlers EXCEPT ![o.id].n = @ + 1]

\* Mutant of Call: one does not unbind its handler.
CallKept ==
  /\ frames # <<>> /\ Current.running = Null /\ Current.left # <<>>
  /\ LET o == Head(Current.left)
         rest == [Current EXCEPT !.left = Tail(@)]
     IN IF o.fn = LiveHandler
        THEN /\ frames' = <<IF Current.fired = Current.cur THEN rest
                            ELSE [rest EXCEPT !.left = LiveCalls(Current) \o @,
                                              !.fired = Current.cur]>> \o Tail(frames)
             /\ UNCHANGED <<store, handlers>>
        ELSE /\ frames' = <<[rest EXCEPT !.running = o]>> \o Tail(frames)
             /\ CountCall(o) /\ UNCHANGED store
  /\ UNCHANGED <<removed, unbinds, events>>

\* The next handler is called.  That of one first unbinds its function, and liveHandler
\* calls those of live, once for an event at an element.
Call ==
  /\ frames # <<>> /\ Current.running = Null /\ Current.left # <<>>
  /\ LET o == Head(Current.left)
         e == Current.cur
         rest == [Current EXCEPT !.left = Tail(@)]
     IN IF o.fn = LiveHandler
        THEN /\ frames' = <<IF Current.fired = e THEN rest
                            ELSE [rest EXCEPT !.left = LiveCalls(Current) \o @,
                                              !.fired = e]>> \o Tail(frames)
             /\ UNCHANGED <<store, handlers>>
        ELSE /\ frames' = <<[rest EXCEPT !.running = o]>> \o Tail(frames)
             /\ CountCall(o)
             /\ IF o.once
                THEN Put(e, remove(Of(e), Where(e, LAMBDA x : x.type = Current.type /\ x.fn = o.fn),
                                    TRUE))
                ELSE UNCHANGED store
  /\ UNCHANGED <<removed, unbinds, events>>

\* It returns false, or calls stopImmediatePropagation; among those of live, false
\* skips the rest of them and the other none.
Return ==
  /\ frames # <<>> /\ Current.running # Null
  /\ \E ret \in {"undefined", "false", "immediate"} :
       frames' =
         <<[Current EXCEPT
              !.running = Null,
              !.stopped = @ \/ ret # "undefined",
              !.left = CASE ret = "immediate" -> Those(@, LAMBDA o : o.at # Null)
                         [] ret = "false" /\ Current.running.at # Null ->
                              Those(@, LAMBDA o : o.at = Null)
                         [] OTHER -> @]>> \o Tail(frames)
  /\ UNCHANGED <<store, removed, handlers, unbinds, events>>

Passed == frames # <<>> /\ Current.running = Null /\ Current.left = <<>>

\* The browser takes its event along the path it began with.
NativeUp ==
  /\ Passed /\ Current.native
  /\ LET above == Those(Path[Current.target], LAMBDA x : Current.cur \in Below(x) \ {x})
     IN frames' = IF Current.stopped \/ above = <<>> THEN Tail(frames)
                  ELSE <<Arrive(Current, Head(above))>> \o Tail(frames)
  /\ UNCHANGED <<store, removed, handlers, unbinds, events>>

\* What trigger finds as parentNode || ownerDocument once the handlers were called.
ParentNow(e) == IF e \in removed THEN Document ELSE Parent(e)

TriggerUp ==
  /\ Passed /\ ~ Current.native /\ ~ Current.stopped /\ ParentNow(Current.cur) # Null
  /\ frames' = <<Arrive(Current, ParentNow(Current.cur))>> \o Tail(frames)
  /\ UNCHANGED <<store, removed, handlers, unbinds, events>>

\* The native method of the target, if it has one, changes nothing here: while it runs,
\* jQuery.event.triggered has the native listeners look away.
Default ==
  /\ Passed /\ ~ Current.native
  /\ Current.stopped \/ ParentNow(Current.cur) = Null
  /\ frames' = Tail(frames)
  /\ UNCHANGED <<store, removed, handlers, unbinds, events>>

EventsInit ==
  /\ bound = [e \in Elements |-> <<>>] /\ listening = [e \in Elements |-> {}]
  /\ cache = {} /\ removed = {} /\ frames = <<>>
  /\ handlers = <<>> /\ unbinds = 0 /\ events = 0

EventsNext ==
  \/ Call \/ Return \/ NativeUp \/ TriggerUp \/ Default
  \/ \E e \in Elements :
       \/ bind(e) \/ live(e) \/ unbind(e) \/ unbindType(e) \/ die(e) \/ dieAll(e) \/ removeElement(e)
       \/ trigger(e) \/ native(e)

EventsSpec == EventsInit /\ [][EventsNext]_evars

--------------------------------------------------------------------------------

Handler ==
  [id : 1..Len(handlers), type : EventTypes \cup {"live"}, ns : Namespaces \cup {""},
   fn : Fns \cup {LiveHandler}, once : BOOLEAN, orig : EventTypes \cup {Null},
   sel : Selectors \cup {Null}, at : Elements \cup {Null}]

EventFrame ==
  [type : EventTypes, ns : Namespaces \cup {""}, target : Elements, cur : Elements,
   native : BOOLEAN, left : Seq(Handler), running : Handler \cup {Null},
   fired : Elements \cup {Null}, stopped : BOOLEAN]

EventsTypeOK ==
  /\ bound \in [Elements -> Seq(Handler)]
  /\ listening \in [Elements -> SUBSET (EventTypes \cup {"live"})]
  /\ cache \subseteq Elements /\ removed \subseteq Elements
  /\ frames \in Seq(EventFrame) /\ Len(frames) <= MaxNested
  /\ handlers \in Seq([once : BOOLEAN, n : Nat, cut : BOOLEAN]) /\ unbinds \in Nat /\ events \in Nat

Objs(e) == ToSet(bound[e])

\* An element listens to what it has handlers for, whatever is bound, unbound and
\* removed while events run ("remove generic event handler if no more handlers exist",
\* jquery-1.4.2.js:1769).
Listens == \A e \in Elements : listening[e] = {o.type : o \in Objs(e)}

\* Handlers of live are called until the page unbinds their type: liveHandler is bound while
\* there is one of its type.
LiveServed ==
  \A e \in Elements : \A o \in Objs(e) :
    o.type = "live" /\ ~ handlers[o.id].cut => \E h \in Objs(e) : h.fn = LiveHandler /\ h.type = o.orig

\* A handler of one is called once, whatever its element goes through: from then on it is
\* bound nowhere, and only the events around may still call it, each once, that had taken
\* their copies before (one, handle).
OnceOnly ==
  \A id \in DOMAIN handlers :
    handlers[id].once =>
      /\ handlers[id].n <= MaxNested
      /\ handlers[id].n > 0 => \A e \in Elements : \A o \in Objs(e) : o.id # id

\* The handlers of a page: none is forgotten, and none of one is called again (add, remove,
\* handle).
HandlersServed == Listens /\ LiveServed /\ OnceOnly

================================================================================
