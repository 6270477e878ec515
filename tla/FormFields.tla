------------------------------- MODULE FormFields -------------------------------
(* A form and what jquery.form.js gathers of it: fieldValue, formToArray,          *)
(* clearForm and resetForm, while the user edits the fields and presses buttons.   *)
(* A field is named by its place in the form; its value is a member of Values, or  *)
(* "" when it is empty, and what is chosen in a select is a subset of them.        *)
EXTENDS Integers, Sequences, SequencesExt, FiniteSets

CONSTANTS
  Values,
  Types,     \* the types of fields in the forms
  Size,      \* the number of fields of a form
  None

ASSUME FieldsAssumption ==
  /\ Types \subseteq {"text", "hidden", "checkbox", "select-one", "select-multiple",
                      "submit", "image", "reset", "file"}
  /\ Size \in Nat /\ None \notin 1..Size /\ IsFiniteSet(Values) /\ "" \notin Values

VARIABLES
  fields,   \* the fields, in the order of the page
  clk,      \* form.clk: the button that was pressed, for 10 milliseconds
  written   \* the fields as the page was written

fvars == <<fields, clk, written>>

Buttons == {"submit", "image"}
Selects == {"select-one", "select-multiple"}

Entered == {"text", "file"}

\* A field as it is written: disabled, checked, what is chosen, and its text.
Field(type) ==
  {f \in [type : {type}, disabled : BOOLEAN, checked : BOOLEAN,
          chosen : SUBSET Values, value : Values \cup {""}] :
     /\ f.checked => type = "checkbox"
     /\ f.chosen # {} => type \in Selects
     /\ type = "select-one" => Cardinality(f.chosen) <= 1
     /\ f.value # "" <=> type \notin Entered \cup Selects}

Forms == [1..Size -> UNION {Field(type) : type \in Types}]

--------------------------------------------------------------------------------

\* Mutant of fieldValue: a disabled field has its value.
fieldValueDisabled(i, pressed) ==
  LET f == fields[i]
  IN IF \/ f.type = "reset"
        \/ f.type = "checkbox" /\ ~ f.checked
        \/ f.type \in Buttons /\ pressed # i
     THEN <<>>
     ELSE IF f.type \in Selects THEN SetToSeq(f.chosen) ELSE <<f.value>>

\* The values of a field, if it is successful; null and the empty array are alike.
fieldValue(i, pressed) ==
  LET f == fields[i]
  IN IF \/ f.disabled
        \/ f.type = "reset"
        \/ f.type = "checkbox" /\ ~ f.checked
        \/ f.type \in Buttons /\ pressed # i
     THEN <<>>
     ELSE IF f.type \in Selects THEN SetToSeq(f.chosen) ELSE <<f.value>>

Pairs(i, values) == [j \in DOMAIN values |-> [name |-> i, value |-> values[j]]]

\* Where the button that was pressed is an image: its coordinates, x and y.
Coordinates(i, pressed) ==
  IF pressed = i /\ ~ fields[i].disabled THEN Pairs(i, <<"x", "y">>) ELSE <<>>

IsImage(i) == fields[i].type = "image"

\* Mutant of formToArray: the image that was pressed comes last in any order.
formToArrayLast(semantic, pressed) ==
  FlattenSeq([i \in DOMAIN fields |-> IF IsImage(i) THEN <<>>
                                      ELSE Pairs(i, fieldValue(i, pressed))])
  \o (IF pressed # None /\ IsImage(pressed) THEN Coordinates(pressed, pressed) ELSE <<>>)

\* Images are not in form.elements: unless all elements are gone through, the one that
\* was pressed is put at the end.
formToArray(semantic, pressed) ==
  IF semantic
  THEN FlattenSeq([i \in DOMAIN fields |-> IF IsImage(i) THEN Coordinates(i, pressed)
                                           ELSE Pairs(i, fieldValue(i, pressed))])
  ELSE FlattenSeq([i \in DOMAIN fields |-> IF IsImage(i) THEN <<>>
                                           ELSE Pairs(i, fieldValue(i, pressed))])
       \o (IF pressed # None /\ IsImage(pressed) THEN Coordinates(pressed, pressed) ELSE <<>>)

\* clearFields of all fields.
Cleared ==
  [i \in DOMAIN fields |->
     LET f == fields[i]
     IN CASE f.type = "text" -> [f EXCEPT !.value = ""]
          [] f.type = "checkbox" -> [f EXCEPT !.checked = FALSE]
          [] f.type \in Selects -> [f EXCEPT !.chosen = {}]
          [] OTHER -> f]

\* What the user does to a field that is not disabled.
edit ==
  /\ \E i \in DOMAIN fields :
       /\ ~ fields[i].disabled
       /\ \E f \in Field(fields[i].type) \cup
                   {[fields[i] EXCEPT !.value = v] : v \in Values} :
            /\ ~ f.disabled
            /\ fields[i].type \notin Entered => f.value = fields[i].value
            /\ fields' = [fields EXCEPT ![i] = f]
  /\ UNCHANGED <<clk, written>>

\* The click handler of ajaxForm, and its timer.
press ==
  /\ \E i \in DOMAIN fields :
       /\ fields[i].type \in Buttons /\ ~ fields[i].disabled
       /\ clk' = i
  /\ UNCHANGED <<fields, written>>

forget ==
  /\ clk # None
  /\ clk' = None
  /\ UNCHANGED <<fields, written>>

clearForm ==
  /\ fields' = Cleared
  /\ UNCHANGED <<clk, written>>

resetForm ==
  /\ fields' = written
  /\ UNCHANGED <<clk, written>>

FormInit ==
  /\ fields \in Forms
  /\ written = fields
  /\ clk = None

FormNext == edit \/ press \/ forget \/ clearForm \/ resetForm

FormSpec == FormInit /\ [][FormNext]_fvars

--------------------------------------------------------------------------------

Control ==
  [type : Types, disabled : BOOLEAN, checked : BOOLEAN, chosen : SUBSET Values,
   value : Values \cup {""}]

FieldsTypeOK ==
  /\ fields \in [1..Size -> Control] /\ written \in [1..Size -> Control]
  /\ clk \in 1..Size \cup {None}

\* "true if value returned must be for a successful controls" (jquery.form.js:685): the
\* successful controls of HTML 4, 17.13.2.
Successful(i) ==
  /\ ~ fields[i].disabled
  /\ CASE fields[i].type \in Buttons -> clk = i
       [] fields[i].type = "checkbox" -> fields[i].checked
       [] fields[i].type \in Selects -> fields[i].chosen # {}
       [] OTHER -> fields[i].type # "reset"
OnlySuccessful(pairs) == {p.name : p \in ToSet(pairs)} = {i \in DOMAIN fields : Successful(i)}

\* "The semantic argument can be used to force form serialization in semantic order"
\* (jquery.form.js:463): the pairs are in the order of the page, and the same ones.
SemanticOrder(semantic, other) ==
  /\ \A i, j \in DOMAIN semantic : i < j => semantic[i].name <= semantic[j].name
  /\ Len(semantic) = Len(other) /\ ToSet(semantic) = ToSet(other)

\* The pairs gathered are those of the successful controls, the same in both orders of
\* formToArray (fieldValue).
FormPairs ==
  LET semantic == formToArray(TRUE, clk)
  IN OnlySuccessful(semantic) /\ SemanticOrder(semantic, formToArray(FALSE, clk))

================================================================================
