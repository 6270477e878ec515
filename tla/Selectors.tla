------------------------------- MODULE Selectors -------------------------------
(* Sizzle, the selector engine of jQuery 1.4.2, and the methods that find and filter  *)
(* elements by it.  It runs wherever querySelectorAll does not: from an element, on   *)
(* elements given (filter, is, closest, the traversals), and in browsers without it.  *)
(* The elements are numbered in the order of the document, text nodes are left out.   *)
(* A selector is a sequence of parts, each after its relation to the one before it.   *)
EXTENDS Integers, FiniteSets, Sequences, SequencesExt

CONSTANTS
  N,          \* the elements are 0, which is html, and 1..N
  Looks,      \* what they may look like: tag a, or tag b, with a class or an id
  Lists,      \* the selectors: sequences of selectors, which a comma parts
  Starts,     \* what is selected from: sequences of nodes
  Methods,    \* find, filter, not, closest and traversals
  None,       \* no value
  MaxQueries, \* bound: queries
  MaxEdits    \* bound: changes of the document

VARIABLES
  parent, look,
  notes,      \* what queries leave behind: done, and on nodes sizcache, sizset, nodeIndex
  asked,      \* the last query and what it found, if the document is still the same
  queries, edits

vars == <<parent, look, notes, asked, queries, edits>>

TheDocument == -1
false == -2
true == -3
PageElements == 0..N
Nodes == -1..N

Ascending(S) == SetToSortSeq(S, <)
Descending(S) == SetToSortSeq(S, >)

(* The tree, as the browser shows it.                                               *)
Above(e) ==
  LET above[x \in PageElements] ==
        IF parent[x] = TheDocument THEN {} ELSE {parent[x]} \cup above[parent[x]]
  IN above[e]
Children(n) == {e \in PageElements : parent[e] = n}
Siblings(e) == Children(parent[e]) \ {e}
Before(e) == {s \in Siblings(e) : s < e}
After(e) == {s \in Siblings(e) : s > e}
Inside(n) == {e \in PageElements : n = TheDocument \/ n \in Above(e)}
Previous(e) == IF Before(e) = {} THEN false ELSE CHOOSE s \in Before(e) : \A t \in Before(e) : t <= s

\* The numbers are those of the order of the document.
InOrder(p) ==
  \A e \in 1..N : p[e] < e /\ \A x \in (p[e] + 1)..(e - 1) : p[x] >= p[e]

Carry(part) ==
  CASE part = "a" -> {"a"}
    [] part = "b" -> {"b", "b.c", "b#i"}
    [] part = ".c" -> {"b.c"}
    [] part = "#i" -> {"b#i"}

\* The elements a part fits, by its tag, its class or its id; :nth-child(2) is counted.
Fits(n, part, e) == IF part = ":nth-child(2)" THEN n.nodeIndex[e] = 2 ELSE look[e] \in Carry(part)

\* The filter CHILD: the children of a parent are numbered once for a name.
Count(n, S) ==
  LET stale == {e \in S : n.sizcache[parent[e]] # n.done \/ n.nodeIndex[e] = 0}
      P == {parent[e] : e \in stale}
  IN [n EXCEPT
        !.done = n.done + 1,
        !.sizcache = [x \in Nodes |-> IF x \in P THEN n.done ELSE n.sizcache[x]],
        !.nodeIndex = [e \in PageElements |->
          IF parent[e] \in P THEN Cardinality(Before(e)) + 1 ELSE n.nodeIndex[e]]]

\* Sizzle.filter: of S, what fits a part.
Fitting(n, part, S) == [notes |-> n, pass |-> {e \in S : Fits(n, part, e)}]
Filter(n, part, S) == Fitting(IF part = ":nth-child(2)" THEN Count(n, S) ELSE n, part, S)

\* What dirCheck says of an element on its way; with no part it looks for the context.
Answer(n, over, match) == [notes |-> n, over |-> over, match |-> IF over THEN match ELSE false]
AnswerOf(f, e) == Answer(f.notes, f.pass # {}, e)
Judge(n, step, e) ==
  IF step.part = "" THEN Answer(n, e = step.context, true) ELSE AnswerOf(Filter(n, step.part, {e}), e)

\* The i-th element of checkSet comes by e: where another one was, the match is that of
\* the other one.
Visit(n, name, check, i, step, e) ==
  IF n.sizcache[e] = name THEN [notes |-> n, over |-> TRUE, match |-> check[n.sizset[e]]]
  ELSE Judge([n EXCEPT !.sizcache[e] = name, !.sizset[e] = i], step, e)

RECURSIVE Walk(_, _, _, _, _, _)
Walk(w, name, check, i, step, path) ==
  IF w.over \/ path = <<>> THEN w
  ELSE Walk(Visit(w.notes, name, check, i, step, Head(path)), name, check, i, step, Tail(path))

\* What there is above or before an element, from the nearest on.
Route(rel, e) == Descending(IF rel = "" THEN Above(e) ELSE Before(e))

Matched(s, i, w) == [notes |-> w.notes, check |-> [s.check EXCEPT ![i] = w.match]]

\* checkSet from its i-th element on.
RECURSIVE CheckFrom(_, _, _, _)
CheckFrom(s, i, name, step) ==
  CASE i > Len(s.check) -> s
    [] i <= Len(s.check) ->
         CheckFrom(IF s.check[i] = false THEN s
                   ELSE Matched(s, i, Walk(Answer(s.notes, FALSE, false), name, s.check, i, step,
                                           Route(step.rel, s.check[i]))),
                   i + 1, name, step)

\* Mutant of DirCheck: every call has the same name.
DirCheckSameName(n, check, step) == CheckFrom([notes |-> n, check |-> check], 1, n.done, step)

\* The relations "" and ~: dirCheck, dirNodeCheck.
DirCheck(n, check, step) ==
  CheckFrom([notes |-> [n EXCEPT !.done = n.done + 1], check |-> check], 1, n.done, step)

\* The relations > and +: the parent, or the element before.
Kept(f, next) ==
  [notes |-> f.notes, check |-> [i \in DOMAIN next |-> IF next[i] \in f.pass THEN next[i] ELSE false]]

Near(n, check, step) ==
  LET next == [i \in DOMAIN check |->
                 CASE check[i] = false -> false
                   [] check[i] # false /\ step.rel = ">" -> parent[check[i]]
                   [] OTHER -> Previous(check[i])]
  IN IF step.part = ""
     THEN [notes |-> n, check |-> [i \in DOMAIN check |->
             IF check[i] # false /\ next[i] = step.context THEN true ELSE false]]
     ELSE Kept(Filter(n, step.part, Range(next) \cap PageElements), next)

Relate(n, check, step) ==
  IF step.rel \in {"", "~"} THEN DirCheck(n, check, step) ELSE Near(n, check, step)

--------------------------------------------------------------------------------
(* Sizzle for a selector without a comma.                                           *)

\* Elements that may fit the last part: in the context, beside it for a selector that is
\* only + or ~ of it, or those that are given.
Candidates(parts, context, seed) ==
  LET beside == Len(parts) = 1 /\ parts[1].rel \in {"+", "~"} /\ context # TheDocument
  IN IF seed # None THEN seed
     ELSE Ascending(Inside(IF beside THEN parent[context] ELSE context))

Chosen(f, given) == [notes |-> f.notes, check |-> SelectSeq(given, LAMBDA e : e \in f.pass)]

\* From right to left, each relation takes checkSet to what is on its left.
RECURSIVE Leftwards(_, _, _, _)
Leftwards(s, k, parts, context) ==
  IF k = 0 \/ (k = 1 /\ parts[1].rel = "") THEN s
  ELSE LET step == [rel |-> parts[k].rel, part |-> IF k = 1 THEN "" ELSE parts[k - 1].part,
                    context |-> context]
       IN Leftwards(Relate(s.notes, s.check, step), k - 1, parts, context)

\* An element of the result was found by a part of the context, or by the context itself.
Pruned(match, context) ==
  \/ match \in PageElements /\ match \in Inside(context)
  \/ match = true /\ context # TheDocument

\* Of the set, what is left when its checkSet has come to the left end.
Results(set, s, context, alone) ==
  LET kept == SelectSeq([i \in DOMAIN set |-> i], LAMBDA i : alone \/ Pruned(s.check[i], context))
  IN [notes |-> s.notes, found |-> [j \in DOMAIN kept |-> set[kept[j]]]]

FromRight(s, parts, context) ==
  Results(s.check, Leftwards(s, Len(parts), parts, context), context,
          Len(parts) = 1 /\ parts[1].rel = "")

SizzleParts(n, parts, context, given) ==
  FromRight(Chosen(Filter(n, Last(parts).part, Range(given)), given), parts, context)

\* A selector that begins with an id is that of the element with the id.
Sizzle(n, parts, context, seed) ==
  LET shortcut == /\ seed = None /\ Len(parts) > 1 /\ context = TheDocument
                  /\ parts[1].rel = "" /\ parts[1].part = "#i" /\ Last(parts).part # "#i"
      ids == {e \in PageElements : look[e] = "b#i"}
      from == IF shortcut THEN CHOOSE e \in ids : TRUE ELSE context
      rest == IF shortcut THEN Tail(parts) ELSE parts
  IN IF shortcut /\ ids = {} THEN [notes |-> n, found |-> <<>>]
     ELSE SizzleParts(n, rest, from, Candidates(rest, from, seed))

\* After a comma all is sorted, and what is twice there taken out (uniqueSort).
Joined(found, q) == [q EXCEPT !.found = found \o q.found]
Sorted(many, q) == IF many THEN [q EXCEPT !.found = Ascending(Range(q.found))] ELSE q

RECURSIVE EachOf(_, _, _, _)
EachOf(r, list, context, seed) ==
  IF list = <<>> THEN r
  ELSE EachOf(Joined(r.found, Sizzle(r.notes, Head(list), context, seed)), Tail(list), context, seed)

SizzleList(n, list, context, seed, results) ==
  Sorted(Len(list) > 1, EachOf([notes |-> n, found |-> results], list, context, seed))

--------------------------------------------------------------------------------
(* The methods.                                                                     *)

\* find: from each node, without what was found from another one.
OnlyNew(found, q) ==
  Joined(found, [q EXCEPT !.found = SelectSeq(SubSeq(q.found, Len(found) + 1, Len(q.found)),
                                              LAMBDA e : e \notin Range(found))])

Find(n, from, list) ==
  FoldLeft(LAMBDA r, c :
             IF Len(list) > 1 THEN SizzleList(r.notes, list, c, None, r.found)
             ELSE OnlyNew(r.found, SizzleList(r.notes, list, c, None, r.found)),
           [notes |-> n, found |-> <<>>], from)

\* jQuery.filter: of the elements given, those a selector selects in the document.
Matching(n, list, elems) == SizzleList(n, list, TheDocument, elems, <<>>)

\* filter and not: winnow.
Same(q, from, keep) == [q EXCEPT !.found = SelectSeq(from, LAMBDA e : (e \in Range(q.found)) = keep)]
Winnow(n, from, list, keep) == Same(Matching(n, list, from), from, keep)

\* closest: for each, up from itself until one is selected.
RECURSIVE Upwards(_, _, _)
Upwards(q, list, path) ==
  IF q.found # <<>> \/ path = <<>> THEN q
  ELSE Upwards(Matching(q.notes, list, <<Head(path)>>), list, Tail(path))

Closest(n, from, list) ==
  FoldLeft(LAMBDA r, e :
             Joined(r.found, Upwards([notes |-> r.notes, found |-> <<>>], list,
                                     <<e>> \o Descending(Above(e)))),
           [notes |-> n, found |-> <<>>], from)

Relatives(method, e) ==
  CASE method = "parents" -> Descending(Above(e))
    [] method = "prevAll" -> Descending(Before(e))
    [] method = "nextAll" -> Ascending(After(e))
    [] method = "siblings" -> Ascending(Siblings(e))
    [] method = "children" -> Ascending(Children(e))

\* Mutant of Turns: only what comes from many is turned.
TurnsMany(method, from, list) == Len(from) > 1 /\ method \in {"parents", "prevAll"}

\* parents and prevAll of many, or for many selectors, come from the last one to the first.
Turns(method, from, list) ==
  (Len(from) > 1 \/ Len(list) > 1) /\ method \in {"parents", "prevAll"}

\* The traversals: the relatives of all, those selected, each once.
Turned(turn, q) == IF turn THEN [q EXCEPT !.found = Reverse(q.found)] ELSE q
Traverse(n, method, from, list) ==
  LET all == FlattenSeq([i \in DOMAIN from |-> Relatives(method, from[i])])
  IN Turned(Turns(method, from, list),
            Sorted(Len(from) > 1,
                   IF list = <<>> THEN [notes |-> n, found |-> all] ELSE Matching(n, list, all)))

Result(method, from, list) ==
  CASE method = "find" -> Find(notes, from, list)
    [] method \in {"filter", "not"} -> Winnow(notes, from, list, method = "filter")
    [] method = "closest" -> Closest(notes, from, list)
    [] OTHER -> Traverse(notes, method, from, list)

--------------------------------------------------------------------------------

NothingAsked == [method |-> "none", from |-> <<>>, list |-> <<>>, found |-> <<>>]

SelectInit ==
  /\ \E p \in [1..N -> 0..N] :
       /\ parent = [e \in PageElements |-> IF e = 0 THEN TheDocument ELSE p[e]]
       /\ InOrder(parent)
  /\ \E l \in [1..N -> Looks] : look = [e \in PageElements |-> IF e = 0 THEN "html" ELSE l[e]]
  /\ Cardinality({e \in PageElements : look[e] = "b#i"}) <= 1
  /\ notes = [done |-> 0, sizcache |-> [x \in Nodes |-> None],
              sizset |-> [x \in Nodes |-> 0], nodeIndex |-> [e \in PageElements |-> 0]]
  /\ asked = NothingAsked /\ queries = 0 /\ edits = 0

\* Only find is called on the document, and only the traversals without a selector.
query ==
  /\ queries < MaxQueries /\ queries' = queries + 1
  /\ \E method \in Methods, from \in Starts, list \in Lists :
       /\ method # "find" => TheDocument \notin Range(from)
       /\ method \in {"find", "filter", "not", "closest"} => list # <<>>
       /\ \E r \in {Result(method, from, list)} :
            /\ notes' = r.notes
            /\ asked' = [method |-> method, from |-> from, list |-> list, found |-> r.found]
  /\ UNCHANGED <<parent, look, edits>>

\* The page gives an element its class, or takes it.
toggleClass ==
  /\ edits < MaxEdits /\ edits' = edits + 1
  /\ \E e \in PageElements :
       /\ look[e] \in {"b", "b.c"}
       /\ look' = [look EXCEPT ![e] = IF look[e] = "b" THEN "b.c" ELSE "b"]
  /\ asked' = NothingAsked
  /\ UNCHANGED <<parent, notes, queries>>

\* The page puts the last element elsewhere, still the last one.
append ==
  /\ edits < MaxEdits /\ edits' = edits + 1
  /\ \E e \in PageElements \ {parent[N]} :
       LET p == [parent EXCEPT ![N] = e] IN InOrder(p) /\ parent' = p
  /\ asked' = NothingAsked
  /\ UNCHANGED <<look, notes, queries>>

SelectNext == query \/ toggleClass \/ append

--------------------------------------------------------------------------------
(* What a selector selects, from left to right.                                     *)

Is(e, part) == IF part = ":nth-child(2)" THEN Cardinality(Before(e)) = 1 ELSE look[e] \in Carry(part)

Related(rel, S, e) ==
  CASE rel = "" -> \E s \in S : e \in Inside(s)
    [] rel = ">" -> parent[e] \in S
    [] rel = "+" -> Previous(e) \in S
    [] rel = "~" -> Before(e) \cap S # {}

Selected(parts, context) ==
  LET S[k \in 0..Len(parts)] ==
        IF k = 0 THEN {context}
        ELSE {e \in PageElements : Is(e, parts[k].part) /\ Related(parts[k].rel, S[k - 1], e)}
  IN S[Len(parts)]

SelectedFrom(list, context) == UNION {Selected(parts, context) : parts \in Range(list)}

\* The nearest ancestor, or the nearest element before, that fits is as good as any other:
\* what is left of it does not tell them apart.
NearestIsEnough(parts) ==
  /\ parts[1].rel \in {"+", "~"} => Len(parts) = 1
  /\ parts[1].part = "#i" /\ Len(parts) > 2 => parts[2].rel \in {"", ">"}
  /\ \A k \in 2..Len(parts) :
       /\ parts[k].rel = "" => \A j \in 1..(k - 1) : parts[j].rel = ""
       /\ parts[k].rel = "~" =>
            \A j \in 1..(k - 1) :
              parts[j].rel = "+" => \E i \in (j + 1)..(k - 1) : parts[i].rel \in {"", ">"}

Plain(list) == \A parts \in Range(list) : NearestIsEnough(parts)

AsSelected(a) ==
  LET found == Range(a.found)
      here == SelectedFrom(a.list, TheDocument)
      wanted == IF a.list = <<>> THEN PageElements ELSE here
      near(e) == {x \in {e} \cup Above(e) : x \in here}
  IN CASE a.method = "find" ->
            LET all == UNION {SelectedFrom(a.list, c) : c \in Range(a.from)}
            IN found \subseteq all /\ (Plain(a.list) => all \subseteq found)
       [] a.method = "filter" -> found \subseteq here /\ (Plain(a.list) => found = Range(a.from) \cap here)
       [] a.method = "not" -> Plain(a.list) => found = Range(a.from) \ here
       [] a.method = "closest" ->
            Plain(a.list) => found = UNION {{Max(near(e))} : e \in {x \in Range(a.from) : near(x) # {}}}
       [] OTHER ->
            Plain(a.list) => found = wanted \cap UNION {Range(Relatives(a.method, e)) : e \in Range(a.from)}

Ordered(a) ==
  CASE a.method = "closest" -> TRUE
    [] a.method = "find" /\ Len(a.from) > 1 -> IsInjective(a.found)
    [] a.method \in {"parents", "prevAll"} -> a.found = Descending(Range(a.found))
    [] OTHER -> a.found = Ascending(Range(a.found))

\* What is found is what the selector says, though each relation takes only the nearest
\* element that fits, elements share what they found by notes on the nodes between, and
\* notes of earlier queries are still on them; it is in the order of the document, or
\* turned (Sizzle, uniqueSort, the traversals).
SelectionRight == asked.method # "none" => AsSelected(asked) /\ Ordered(asked)

================================================================================
