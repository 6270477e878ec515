------------------------------- MODULE MCConsole --------------------------------
(* What an administrator has before him, one at a time as the scripts of MCPage are:   *)
(* the charts, which a call of a generator draws from the stored rows, and the menu,   *)
(* which he and others change.  The two have tables and connections of their own;      *)
(* `part` says which of them a behaviour is about.                                     *)
EXTENDS Charts, MenuAdmin

VARIABLE part

all == <<part, vars, mvars>>

ConsoleInit == part \in {"charts", "menu"} /\ Init /\ MenuInit

ConsoleNext ==
  /\ UNCHANGED part
  /\ \/ part = "charts" /\ Next /\ UNCHANGED mvars
     \/ part = "menu" /\ MenuNext /\ UNCHANGED vars

ConsoleSpec == ConsoleInit /\ [][ConsoleNext]_all

--------------------------------------------------------------------------------
(* The other properties are stated by the modules.                                     *)

\* The variables of each have values of their types.
ConsoleTypeOK == ChartsTypeOK /\ MenuTypeOK

================================================================================
