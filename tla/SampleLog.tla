------------------------------- MODULE SampleLog -------------------------------
(* What POST /monitor/_add promises of a batch of samples: no sample is stored  *)
(* that was not sent, none is stored after the answer, and the answer "ok"      *)
(* comes only when every sample is stored.  It does not promise that a batch    *)
(* answered with an error, or never answered, left nothing behind.              *)
EXTENDS Naturals

CONSTANTS Batches, MaxRows

VARIABLES
  size,    \* size[b]: how many samples batch b holds
  status,  \* status[b]: "new", "open", or the answer "ok" or "error"
  stored   \* the samples stored, as pairs of a batch and a position in it

logVars == <<size, status, stored>>

Samples(b) == {b} \X (1..size[b])

LogTypeOK ==
  /\ size \in [Batches -> 0..MaxRows]
  /\ status \in [Batches -> {"new", "open", "ok", "error"}]
  /\ stored \subseteq Batches \X (1..MaxRows)

LogInit ==
  /\ size = [b \in Batches |-> 0]
  /\ status = [b \in Batches |-> "new"]
  /\ stored = {}

Send(b) ==
  /\ status[b] = "new"
  /\ \E n \in 0..MaxRows : size' = [size EXCEPT ![b] = n]
  /\ status' = [status EXCEPT ![b] = "open"]
  /\ UNCHANGED stored

Store(b) ==
  /\ status[b] = "open"
  /\ \E s \in Samples(b) \ stored : stored' = stored \cup {s}
  /\ UNCHANGED <<size, status>>

Answer(b) ==
  /\ status[b] = "open"
  /\ \/ Samples(b) \subseteq stored /\ status' = [status EXCEPT ![b] = "ok"]
     \/ status' = [status EXCEPT ![b] = "error"]
  /\ UNCHANGED <<size, stored>>

LogNext == \E b \in Batches : Send(b) \/ Store(b) \/ Answer(b)

LogSpec == LogInit /\ [][LogNext]_logVars

\* A batch acknowledged without an error is stored in full, and only what was sent
\* is stored.
AckedIsStored ==
  /\ \A b \in Batches : status[b] = "ok" => Samples(b) \subseteq stored
  /\ stored \subseteq UNION {Samples(b) : b \in Batches}
================================================================================
