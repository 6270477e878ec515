--------------------------------- MODULE Arrays --------------------------------
(* What the scripts do with an array when they go through it and keep some of it.  *)
(* It is SelectSeq with a set for the test, as a recursive function of how far the *)
(* loop came.                                                                      *)
EXTENDS Integers, Sequences, SequencesExt

\* The members of seq that are in kept, in their order.
Filter(seq, kept) ==
  LET upTo[n \in 0..Len(seq)] ==
        IF n = 0 THEN <<>>
        ELSE IF seq[n] \in kept THEN Append(upTo[n - 1], seq[n])
        ELSE upTo[n - 1]
  IN upTo[Len(seq)]

\* Those members that pass a test.
Those(seq, Test(_)) == Filter(seq, {x \in ToSet(seq) : Test(x)})

================================================================================
