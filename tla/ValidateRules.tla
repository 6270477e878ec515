----------------------------- MODULE ValidateRules -----------------------------
(* The rules of a field in jquery.validate.js: those of its classes, attributes    *)
(* and of the settings are merged and normalised, the page adds and removes rules, *)
(* and check applies what is left to the value.                                    *)
EXTENDS Integers, FiniteSets

CONSTANTS
  MaxNumber, \* bound: numbers are 0..MaxNumber
  MaxRules,  \* bound: rules that the page added at a time
  Empty,     \* the value ""
  Text       \* a value that is no number

ASSUME RulesAssumption ==
  /\ MaxNumber \in Nat \ {0} /\ MaxRules \in Nat
  /\ Empty \notin 0..MaxNumber /\ Text \notin 0..MaxNumber /\ Empty # Text

VARIABLES
  class,      \* the classes of the field that are rules
  attribute,  \* the rules in its attributes
  static,     \* settings.rules of its name
  entered,    \* the value of the field
  other       \* the value of the field that "equalTo" names

rlvars == <<class, attribute, static, entered, other>>

Numbers == 0..MaxNumber
Inputs == Numbers \cup {Empty, Text}
MethodNames == {"required", "min", "max", "equalTo"}

\* A parameter: a number (true is 1), false, or "depends" on what does not hold.
Given(n) == [off |-> FALSE, n |-> n, when |-> TRUE]
Param == {Given(n) : n \in Numbers} \cup {[Given(1) EXCEPT !.off = TRUE], [Given(1) EXCEPT !.when = FALSE]}
NoRules == [m \in {} |-> Given(1)]

--------------------------------------------------------------------------------

(* rules *)

Without(rules, M) == [m \in DOMAIN rules \ M |-> rules[m]]

\* $.extend: the second wins.
extend(target, options) ==
  [m \in DOMAIN target \cup DOMAIN options |-> IF m \in DOMAIN options THEN options[m] ELSE target[m]]

\* rules("add")
Add(rules, argument) == extend(rules, argument)

\* Mutant of Dropped: all is removed.
DroppedAll(rules, M) == NoRules

\* rules("remove", methods): what is left, and what it returns.
Dropped(rules, M) == Without(rules, M)
Removed(rules, M) == [m \in DOMAIN rules \cap M |-> rules[m]]

classRules == [m \in class |-> Given(1)]

\* Mutant of normalizeRules: a rule that does not apply stays.
normalizeRulesAll(rules) == [m \in DOMAIN rules |-> rules[m].n]

\* normalizeRules: what is false, or depends on what does not hold, is deleted; the
\* parameters are numbers.
normalizeRules(rules) ==
  LET kept == {m \in DOMAIN rules : ~ rules[m].off /\ rules[m].when}
  IN [m \in kept |-> rules[m].n]

\* Mutant of Ranges: one bound is enough.
RangesOne(rules) ==
  IF ({"min", "max"} \cap DOMAIN rules) # {}
  THEN [range |-> <<IF "min" \in DOMAIN rules THEN rules.min ELSE 0,
                    IF "max" \in DOMAIN rules THEN rules.max ELSE 0>>]
  ELSE [m \in {} |-> <<0, 0>>]

\* autoCreateRanges: of min and max when both are there and neither is zero.
Ranges(rules) ==
  IF {"min", "max"} \subseteq DOMAIN rules /\ rules.min # 0 /\ rules.max # 0
  THEN [range |-> <<rules.min, rules.max>>]
  ELSE [m \in {} |-> <<0, 0>>]

\* What rules() returns, but for ranges.
Rules == normalizeRules(extend(extend(classRules, attribute), static))

(* check *)

\* The methods that an empty field passes, as it is optional.
optional(m) == m \in {"min", "max"}

\* A method refuses the value, with its parameter.
Refuses(m, n) ==
  \/ m = "required" /\ entered = Empty
  \/ m = "equalTo" /\ entered # other
  \/ /\ m \in {"min", "max"}
     /\ IF entered = Empty THEN ~ optional(m)
        ELSE entered = Text \/ (IF m = "min" THEN entered < n ELSE entered > n)

\* check: an error if a method refuses.  Whether an optional field that is empty counts
\* as valid depends on the order of the rules as well, and is not told apart here.
Refused(rules) == \E m \in DOMAIN rules : Refuses(m, rules[m])

\* The method "range".
OutOf(range) ==
  \/ entered = Text
  \/ entered \in Numbers /\ (entered < range[1] \/ entered > range[2])

\* check with autoCreateRanges: the method "range" stands for the two.
CheckRanges(rules) ==
  LET ranges == Ranges(rules)
  IN IF DOMAIN ranges = {} THEN Refused(rules)
     ELSE Refused(Without(rules, {"min", "max"})) \/ OutOf(ranges.range)

--------------------------------------------------------------------------------

RulesInit ==
  /\ class \in SUBSET {"required"}
  /\ attribute \in {NoRules} \cup {[min |-> Given(n)] : n \in {0, MaxNumber}}
                             \cup {[max |-> Given(n)] : n \in {0, MaxNumber}}
  /\ static = NoRules
  /\ entered = Empty /\ other = Empty

\* The user writes, in one of the fields.
enter ==
  /\ \/ entered' \in Inputs /\ UNCHANGED other
     \/ other' \in {Empty, 1} /\ UNCHANGED entered
  /\ UNCHANGED <<class, attribute, static>>

addRule ==
  /\ \E m \in MethodNames, p \in Param :
       /\ m \notin {"min", "max"} => p.n = 1
       /\ Cardinality(DOMAIN static \cup {m}) <= MaxRules
       /\ static' = Add(static, [x \in {m} |-> p])
  /\ UNCHANGED <<class, attribute, entered, other>>

removeRules ==
  /\ \E M \in {{m} : m \in MethodNames} \cup {MethodNames} : static' = Dropped(static, M)
  /\ UNCHANGED <<class, attribute, entered, other>>

RulesNext == enter \/ addRule \/ removeRules

RulesSpec == RulesInit /\ [][RulesNext]_rlvars

--------------------------------------------------------------------------------

\* A range that is made of min and max says what the two said, whatever they are: zero,
\* crossed, of two sources, or switched off.
RangesAgree == CheckRanges(Rules) = Refused(Rules)

\* "if a method indicates that the field is optional and therefore valid"
\* (jquery.validate.js:494): an empty field is refused by required and equalTo alone,
\* and not when they are false or depend on what does not hold, wherever they are from.
OptionalPasses ==
  entered = Empty /\ Refused(Rules)
    => \/ "required" \in DOMAIN static /\ ~ static["required"].off /\ static["required"].when
       \/ "required" \notin DOMAIN static /\ "required" \in class
       \/ /\ other # Empty /\ "equalTo" \in DOMAIN static
          /\ ~ static["equalTo"].off /\ static["equalTo"].when

\* What rules("remove") returns puts the rules back when it is added, whichever it removed.
PutBack ==
  \A M \in SUBSET DOMAIN static : Add(Dropped(static, M), Removed(static, M)) = static

\* Ranges say what min and max said (normalizeRules), an empty field is refused by required
\* and equalTo alone, if they apply (check), and rules("remove") returns what puts the rules
\* back (rules).
RulesKept == RangesAgree /\ OptionalPasses /\ PutBack

================================================================================
