------------------------------ MODULE QueryString ------------------------------
(* The query object of jquery.query-2.1.7.js: keys with brackets name places in a  *)
(* tree of arrays and objects, which is read from a query string and written to    *)
(* one.  A key is its base and its tokens; a chunk of the string is a key and the  *)
(* text after its "=", or none.                                                    *)
EXTENDS Integers, Sequences, SequencesExt, FiniteSets, FiniteSetsExt, Bags, TLC

CONSTANTS
  Keys,      \* the keys of pages, with tokens of "", a name, or a number below 10
  Texts,     \* the texts in the query string of the page: <<>> where there is no "="
  Inputs,    \* the values that pages set
  MaxOps     \* bound: operations in the whole behaviour

VARIABLES
  keys,   \* of the query object: a node for each base
  ops

vars == <<keys, ops>>

Indexes == {ToString(i) : i \in 0..9}
PlaceOf == [t \in Indexes |-> CHOOSE i \in 0..9 : ToString(i) = t]
Place(token) == PlaceOf[token]

(* A value is a string, a number as it is printed, or true or false.               *)
String(text) == <<"string", text>>
Number(text) == <<"number", text>>
True == <<"boolean", "true">>
False == <<"boolean", "false">>

(* A node: undefined, a value, an array (0..n-1), an object.                       *)
Nothing == [type |-> "nothing"]
Value(x) == [type |-> "value", value |-> x]
Array(items) == [type |-> "array", items |-> items]
Object(items) == [type |-> "object", items |-> items]

IsTree(node) == node.type \in {"array", "object"}
At(node, i) == IF IsTree(node) /\ i \in DOMAIN node.items THEN node.items[i] ELSE Nothing
LengthOf(items) == Cardinality(DOMAIN items)

--------------------------------------------------------------------------------

\* Where target[token] is: a number in an array, which has nothing at a name.
Spot(node, token) ==
  IF node.type # "array" THEN token ELSE IF token \in Indexes THEN Place(token) ELSE -1

\* target[i] = node, of an array, which grows to hold it, or an object.
Put(target, i, node) ==
  IF target.type = "array"
  THEN Array([j \in 0..Max({i, LengthOf(target.items) - 1}) |-> IF j = i THEN node ELSE At(target, j)])
  ELSE Object([j \in DOMAIN target.items \cup {i} |-> IF j = i THEN node ELSE target.items[j]])

\* The place after the last one of an array, or the first free number of an object.
Free(target) ==
  IF target.type = "array" THEN LengthOf(target.items)
  ELSE ToString(Min({i \in 0..9 : At(target, ToString(i)) = Nothing}))

\* Mutant of AsObject: what was in the array is lost.
AsObjectEmpty(array) == Object([i \in {} |-> Nothing])

\* An array that gets a name for an index becomes an object.
AsObject(array) ==
  Object([k \in {ToString(i) : i \in DOMAIN array.items} |-> array.items[Place(k)]])

\* What token is looked for in: a target that is no array and no object is replaced.
Container(target, token) ==
  IF ~ IsTree(target)
  THEN IF token \in {""} \cup Indexes THEN Array([i \in {} |-> Nothing])
       ELSE Object([i \in {} |-> Nothing])
  ELSE IF target.type = "array" /\ token \notin {""} \cup Indexes THEN AsObject(target)
  ELSE target

\* set.
RECURSIVE set(_, _, _)
set(target, tokens, node) ==
  IF tokens = <<>> THEN node
  ELSE LET c == Container(target, tokens[1])
           i == IF tokens[1] = "" THEN Free(c) ELSE Spot(c, tokens[1])
       IN Put(c, i, set(At(c, i), Tail(tokens), node))

\* x[token] of a value: a character of a string.
Character(x, token) ==
  IF x[1] = "string" /\ token \in Indexes /\ Place(token) < Len(x[2])
  THEN Value(String(SubSeq(x[2], Place(token) + 1, Place(token) + 1)))
  ELSE Nothing

RECURSIVE Follow(_, _)
Follow(node, tokens) ==
  IF tokens = <<>> \/ node = Nothing THEN node
  ELSE Follow(IF IsTree(node) THEN At(node, Spot(node, tokens[1]))
              ELSE Character(node.value, tokens[1]),
              Tail(tokens))

Target(ks, key) == Follow(IF key[1] \in DOMAIN ks THEN ks[key[1]] ELSE Nothing, key[2])

\* GET, in some keys: "" where there is nothing, and of false.
GET(ks, key) ==
  IF Target(ks, key) \in {Nothing, Value(False)} THEN Value(String("")) ELSE Target(ks, key)

\* SET.
SetIn(ks, key, node) ==
  (key[1] :> set(IF key[1] \in DOMAIN ks THEN ks[key[1]] ELSE Nothing, key[2], node)) @@ ks

\* build of COMPACT: what is undefined or null is left out, and an array closes up.
RECURSIVE Compacted(_)
Compacted(node) ==
  IF ~ IsTree(node) THEN node
  ELSE LET kept == {i \in DOMAIN node.items : node.items[i] # Nothing}
       IN IF node.type = "object" THEN Object([i \in kept |-> Compacted(node.items[i])])
          ELSE LET order == SetToSortSeq(kept, <)
               IN Array([i \in 0..Len(order) - 1 |-> Compacted(node.items[order[i + 1]])])

CompactIn(ks) == [b \in {c \in DOMAIN ks : ks[c] # Nothing} |-> Compacted(ks[b])]

(* toString and the constructor *)

\* Mutant of Written: nothing is escaped.
WrittenPlain(x) == IF x = True THEN <<>> ELSE <<IF x[2] = "a b" THEN "a+b" ELSE x[2]>>

\* The chunk of a value: true has no "=".  A space is made a plus, and the plus is escaped
\* like one that was there.
Written(x) ==
  IF x = True THEN <<>>
  ELSE <<CASE x[2] \in {"a b", "a+b"} -> "a%2Bb" [] x[2] = " 7" -> "%2B7" [] OTHER -> x[2]>>

\* What is read of a chunk: a plus is a space and an escaped one a plus, what is written as a
\* number is one, also with a sign or zeros, and what has no text is true.
Read(written) ==
  IF written \in {<<>>, <<"">>} THEN True
  ELSE LET text == written[1]
       IN CASE text = "a%2Bb" -> String("a+b")
            [] text = "a+b" -> String("a b")
            [] text = "+7" -> String(" 7")
            [] text \in {"7", "007", "%2B7"} -> Number("7")
            [] text \in {"1.5", "1.50"} -> Number("1.5")
            [] text = "0.0000001" -> Number("1e-7")
            [] OTHER -> String(text)

\* build of toString: the chunks, with the index or name of each place.
RECURSIVE Chunks(_, _, _)
Chunks(base, tokens, node) ==
  IF IsTree(node)
  THEN UNION {Chunks(base, Append(tokens, IF node.type = "array" THEN ToString(i) ELSE i),
                     node.items[i]) : i \in DOMAIN node.items}
  ELSE IF node \in {Nothing, Value(False)} THEN {}
  ELSE {<<<<base, tokens>>, Written(node.value)>>}

toString(ks) == UNION {Chunks(b, <<>>, ks[b]) : b \in DOMAIN ks}

NoKeys == [b \in {} |-> Nothing]

\* The query object that is read from chunks, one after the other.
Parsed(chunks) == FoldLeft(LAMBDA ks, c : SetIn(ks, c[1], Value(Read(c[2]))), NoKeys, chunks)

--------------------------------------------------------------------------------

Init ==
  /\ \E n \in 0..1 : \E cs \in [1..n -> Keys \X Texts] : keys = Parsed(cs)
  /\ ops = 0

More == ops < MaxOps /\ ops' = ops + 1

SET(key, x) == keys' = SetIn(keys, key, Value(x))

\* Mutant of REMOVE: the base goes.
REMOVEBase(key) == keys' = CompactIn(SetIn(keys, <<key[1], <<>>>>, Nothing))

REMOVE(key) == keys' = CompactIn(SetIn(keys, key, Nothing))

COMPACT == keys' = CompactIn(keys)

EMPTY == keys' = NoKeys

Next ==
  /\ More
  /\ \/ \E key \in Keys, x \in Inputs : SET(key, x)
     \/ \E key \in Keys : REMOVE(key)
     \/ COMPACT
     \/ EMPTY

Spec == Init /\ [][Next]_vars

--------------------------------------------------------------------------------

NamedKeys == {key \in Keys : "" \notin ToSet(key[2])}
Under(key, other) == key[1] = other[1] /\ IsPrefix(other[2], key[2])

Again(ks) == Parsed(SetToSeq(toString(ks)))

\* Values that are read as they were written: they are neither empty nor false, and no string
\* that has a space or is like a number, nor a number that is printed with an exponent.
Kept == {String("a+b"), String("1e-7"), Number("7"), Number("1.5"), True}

\* What is written is read again at the same places, whatever arrays, objects and holes the
\* page made, with the same values where they are read as they were written; what was read
\* once is written as before.
RoundTrip ==
  LET chunks == toString(keys)
      again == Again(keys)
  IN /\ {c[1] : c \in toString(again)} = {c[1] : c \in chunks}
     /\ \A c \in chunks : GET(keys, c[1]).value \in Kept => GET(again, c[1]) = GET(keys, c[1])
     /\ toString(Again(again)) = toString(again)

\* A key that leads through a value, to a character or nothing.
Inside(ks, key) == \E n \in 0..Len(key[2]) - 1 : Target(ks, <<key[1], SubSeq(key[2], 1, n)>>).type = "value"

\* A value that is set can be got at its key, and nothing is changed at a key that is
\* neither part of it nor has it as a part, even when an array becomes an object; only what
\* was a character of a value may go with it.
SetsOne ==
  \A key \in NamedKeys, x \in Inputs :
    SET(key, x)
      => /\ GET(keys', key) = Value(IF x = False THEN String("") ELSE x)
         /\ \A other \in NamedKeys :
              ~ Under(other, key) /\ ~ Under(key, other) /\ ~ Inside(keys, other)
                => GET(keys', other) = GET(keys, other)

ValuesOf(chunks) == [x \in {c[2] : c \in chunks} |-> Cardinality({c \in chunks : c[2] = x})]

\* A key that is removed takes what is under it and nothing else, though an array
\* closes up behind it.
RemovesOne ==
  \A key \in NamedKeys :
    Target(keys, key) # Nothing /\ ~ Inside(keys, key) /\ REMOVE(key)
      => ValuesOf(toString(keys')) = ValuesOf({c \in toString(keys) : ~ Under(c[1], key)})

================================================================================
