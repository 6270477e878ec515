------------------------------ MODULE RequestBody ------------------------------
(* RequestUtil.getRequestString: how the servlets read the body of a request while it *)
(* arrives.  A body is 1, 2, ..., n: its bytes are told apart by their places, and    *)
(* none at its ends is blank; 0 is the byte a new buffer is full of.  A text is given *)
(* by the bytes of its characters, with Bad where a character was cut or a byte was   *)
(* taken for another one.                                                             *)
EXTENDS Integers, Sequences, FiniteSetsExt

CONSTANTS
  Lengths,  \* of the bodies
  Buffer,   \* the size of the buffer
  MaxMarks  \* bound: bytes of a body that mean something in a form

ASSUME RequestAssumption == Lengths \subseteq Nat /\ Buffer \in Nat \ {0} /\ MaxMarks \in Nat

VARIABLES
  n,       \* the length of this body
  joined,  \* the bytes that are of one character with the byte behind them
  mark,    \* what a byte means in a form: & or =, or + for + and for a byte after %
  form,    \* the content type is application/x-www-form-urlencoded
  arrived, \* the bytes of it that arrived
  taken,   \* those that were read
  mode,    \* new, parameters, stream, done
  buffer,
  pieces,  \* what each read returned
  str

sent == <<n, joined, mark, form>>
bvars == <<sent, arrived, taken, mode, buffer, pieces, str>>

Bad == -1

Body == [i \in 1..n |-> i]
Marks == {"-", "+", "&", "="}

RequestInit ==
  /\ n \in Lengths /\ joined \in SUBSET (1..(n - 1)) /\ form \in BOOLEAN
  /\ \E marked \in {S \in SUBSET (1..n) : Cardinality(S) <= MaxMarks} :
       /\ mark \in {f \in [1..n -> Marks] : \A i \in 1..n : f[i] # "-" <=> i \in marked}
       /\ \A i \in joined : i \notin marked /\ i + 1 \notin marked
  /\ arrived \in 0..n /\ taken = 0
  /\ mode = "new" /\ buffer = [i \in 1..Buffer |-> 0]
  /\ pieces = <<>> /\ str = <<>>

arrive ==
  /\ arrived < n
  /\ arrived' \in (arrived + 1)..n
  /\ UNCHANGED <<sent, taken, mode, buffer, pieces, str>>

\* available() == 0: the names of the parameters, for which all of the body is awaited.
available ==
  /\ mode = "new"
  /\ mode' = IF arrived = 0 THEN "parameters" ELSE "stream"
  /\ UNCHANGED <<sent, arrived, taken, buffer, pieces, str>>

Decoded(i) == IF mark[i] = "+" THEN Bad ELSE i

\* The bytes of names: the & is in none, nor is what follows the = of a parameter.
Named ==
  {i \in 1..n : /\ mark[i] # "&"
               /\ \A j \in 1..i : mark[j] = "=" => \E k \in j..i : mark[k] = "&"}

\* The keys of getParameterMap one after the other: nothing but for a form; all of a body
\* that has neither & nor =; else the names, in any order.
keys ==
  IF ~ form THEN {<<>>}
  ELSE IF \A i \in 1..n : mark[i] \notin {"&", "="} THEN {[i \in 1..n |-> Decoded(i)]}
  ELSE {[k \in DOMAIN f |-> Decoded(f[k])] : f \in
          {g \in [1..Cardinality(Named) -> Named] :
             /\ \A k, l \in DOMAIN g : g[k] = g[l] => k = l
             /\ \A k \in DOMAIN g : g[k] + 1 \in Named => k + 1 \in DOMAIN g /\ g[k + 1] = g[k] + 1}}

\* Mutant of parameters: the body of whatever type is taken as it is.
parametersAsSent ==
  /\ mode = "parameters" /\ arrived = n
  /\ mode' = "done" /\ str' = Body
  /\ UNCHANGED <<sent, arrived, taken, buffer, pieces>>

parameters ==
  /\ mode = "parameters" /\ arrived = n
  /\ mode' = "done" /\ str' \in keys
  /\ UNCHANGED <<sent, arrived, taken, buffer, pieces>>

\* The byte at a place of the buffer stands with the others of its character.
whole(b, i) ==
  /\ b[i] \in joined => i + 1 \in DOMAIN b /\ b[i + 1] = b[i] + 1
  /\ b[i] - 1 \in joined => i - 1 \in DOMAIN b /\ b[i - 1] = b[i] - 1

\* new String(read): the bytes of the buffer by themselves.
decode(b) == [i \in DOMAIN b |-> IF whole(b, i) THEN b[i] ELSE Bad]

\* A read takes what arrived and fits in the buffer, and all of the buffer is added.
read ==
  /\ mode = "stream" /\ arrived > taken
  /\ LET m == Min({arrived - taken, Buffer})
     IN /\ buffer' = [i \in 1..Buffer |-> IF i <= m THEN taken + i ELSE buffer[i]]
        /\ pieces' = Append(pieces, m)
        /\ taken' = taken + m
  /\ str' = str \o decode(buffer')
  /\ UNCHANGED <<sent, arrived, mode>>

\* Mutant of trim: what follows the body stays.
trimNot(s) == s

\* trim: the zeros behind the last byte go; there is none before the first.
trim(s) == SubSeq(s, 1, Max({0} \cup {i \in DOMAIN s : s[i] # 0}))

\* read returns -1.
end ==
  /\ mode = "stream" /\ taken = n
  /\ mode' = "done" /\ str' = trim(str)
  /\ UNCHANGED <<sent, arrived, taken, buffer, pieces>>

RequestNext == arrive \/ available \/ parameters \/ read \/ end

RequestSpec == RequestInit /\ [][RequestNext]_bvars

--------------------------------------------------------------------------------

RequestTypeOK ==
  /\ buffer \in [1..Buffer -> 0..n]
  /\ taken <= arrived /\ arrived <= n /\ n \in Lengths

\* No character stands across the end of a full buffer.
NoneCut == \A k \in 1..n : k * Buffer \notin joined

\* The servlet is given the text that was sent when the body was read at once, or filled the
\* buffer each time and no character was cut by its end; or when nothing of it had arrived
\* at first and it was a form without any &, =, + or %.  In all other cases it is given
\* another text: one with holes, padding or old bytes, or the names of parameters
\* (getRequestString).
IntactInOnePiece ==
  mode = "done" =>
    (str = Body <=>
       IF pieces = <<>> THEN n = 0 \/ (form /\ \A i \in 1..n : mark[i] = "-")
       ELSE Len(pieces) = 1 \/ (NoneCut /\ \A i \in DOMAIN pieces : pieces[i] = Buffer))

================================================================================
