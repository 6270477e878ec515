-------------------------------- MODULE MCEvents --------------------------------
(* The handlers and events of a document with a box in it and a button in the box.     *)
EXTENDS Events

Path3 == [doc |-> <<"doc">>, box |-> <<"box", "doc">>, button |-> <<"button", "box", "doc">>]

\* One selector matches the box and the button, the other one the button.
Matches3 == [inner |-> {"button"}, any |-> {"box", "button"}]

================================================================================
