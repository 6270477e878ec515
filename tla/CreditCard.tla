------------------------------- MODULE CreditCard -------------------------------
(* The method "creditcard" of jquery.validate.js: the check sum of Luhn, and what  *)
(* the slips of somebody who copies a number make of it.                           *)
EXTENDS Integers, Sequences, SequencesExt, Functions, Arrays

CONSTANTS
  Length,   \* bound: the digits of a number
  Longest,  \* bound: the characters of a value, with its dashes
  Dash

Digits == 0..9

ASSUME CardAssumption == Length \in Nat /\ Longest \in Nat /\ Dash \notin Digits

VARIABLE number    \* the value: digits and dashes

\* Mutant of Doubled: the nine is not taken off.
DoubledAll(d) == 2 * d

\* Mutant of Doubled: it is not.
DoubledNot(d) == d

\* What every second digit counts, from the right.
Doubled(d) == IF 2 * d > 9 THEN 2 * d - 9 ELSE 2 * d

\* Mutant of creditcard: a dash has a place.
creditcardPlaces(value) ==
  LET count == [n \in DOMAIN value |->
                  IF value[n] = Dash THEN 0
                  ELSE IF (Len(value) - n) % 2 = 1 THEN Doubled(value[n]) ELSE value[n]]
  IN SumFunctionOnSet(count, DOMAIN count) % 10 = 0

\* creditcard, of a value that is not empty and has only digits and dashes: what is no
\* digit is taken out, and every second digit is doubled.
creditcard(value) ==
  LET digits == Filter(value, Digits)
      count == [n \in DOMAIN digits |-> IF (Len(digits) - n) % 2 = 1 THEN Doubled(digits[n])
                                        ELSE digits[n]]
  IN SumFunctionOnSet(count, DOMAIN count) % 10 = 0

\* One digit is read wrong.
misread ==
  \E i \in DOMAIN number, d \in Digits :
    /\ number[i] \in Digits \ {d}
    /\ number' = [number EXCEPT ![i] = d]

\* Two digits that follow each other are swapped.
swap ==
  \E i \in 1..Len(number) - 1 :
    /\ number[i] \in Digits /\ number[i + 1] \in Digits /\ number[i] # number[i + 1]
    /\ number' = [number EXCEPT ![i] = number[i + 1], ![i + 1] = number[i]]

\* A dash is put in.
dash ==
  /\ Len(number) < Longest
  /\ \E i \in 1..Len(number) + 1 : number' = InsertAt(number, i, Dash)

CardInit == \E n \in 1..Length : number \in [1..n -> Digits]

CardNext == misread \/ swap \/ dash

CardSpec == CardInit /\ [][CardNext]_number

--------------------------------------------------------------------------------

\* No number stays one when a digit of it is read wrong.
FindsMisread == misread /\ creditcard(number) => ~ creditcard(number')

\* Nor when two neighbours are swapped, but for a zero and a nine.
FindsSwap ==
  swap /\ creditcard(number) /\ creditcard(number')
    => \E i \in DOMAIN number : {number[i], number'[i]} = {0, 9}

\* "accept only digits and dashes" (jquery.validate.js:1035): a dash changes nothing.
IgnoresDash == dash => creditcard(number) = creditcard(number')

\* The check finds what it is there for: no number stays one when a digit is read wrong, nor
\* when neighbours are swapped, but for a zero and a nine; dashes do not matter (creditcard).
CardsChecked == [][FindsMisread /\ FindsSwap /\ IgnoresDash]_number

================================================================================
