------------------------------ MODULE SampleStore ------------------------------
(* Storing samples: POST /monitor/_add handled by the worker threads of the     *)
(* server, beside the job that creates the daily tables.                        *)
(*                                                                              *)
(* AppMonitorDao.insert names the table once, when it begins, stamps each       *)
(* sample with the clock as it goes through the array, and then executes one    *)
(* insert per sample, each committed by itself.  Workers, the job, the clock    *)
(* and restarts interleave.                                                     *)
EXTENDS DailyTables, Sequences

CONSTANTS
  Workers,         \* threads of the server
  ServletContext,  \* the context that MonitorHandler starts when first called
  Batches,         \* the arrays of samples that clients send
  MaxRows,         \* bound: samples in an array
  MaxInsert,       \* ticks a call of insert lasts at most
  Hour             \* ticks of the period a report covers when asked for none

ASSUME StoreAssumption ==
  /\ ServletContext \in Contexts
  /\ MaxRows \in Nat
  /\ MaxInsert \in Nat
  /\ MaxInsert < DayLen
  /\ Hour \in Nat
  /\ Hour < DayLen

VARIABLES
  req,     \* req[w]: the call of insert that worker w is in
  rows,    \* the rows of all the daily tables; "again" marks a second row of a sample
  size,    \* size[b]: samples in the array b
  status   \* status[b]: "new", "open" (sent, not answered), "ok" or "error"

storeVars == <<req, rows, size, status>>
vars == <<dailyVars, storeVars>>

Time == (0..LastDay) \X (0..(DayLen - 1))
Idle == [step |-> "idle"]
Calls ==
  [step : {"stamping", "executing"}, batch : Batches, table : 0..LastDay, stamps : Seq(Time),
   next : 1..(MaxRows + 1), bad : BOOLEAN, left : 0..MaxInsert]
Rows == [batch : Batches, pos : 1..MaxRows, table : 0..LastDay, stamp : Time,
         again : BOOLEAN]

Active(w) == req[w].step # "idle"

StoreTypeOK ==
  /\ TypeOK
  /\ req \in [Workers -> Calls \cup {Idle}]
  /\ \A w \in Workers : Active(w) => Len(req[w].stamps) <= MaxRows
  /\ rows \subseteq Rows
  /\ size \in [Batches -> 0..MaxRows]
  /\ status \in [Batches -> {"new", "open", "ok", "error"}]

--------------------------------------------------------------------------------
\* The clock moves with the calls in progress, none of which outlasts MaxInsert.
StoreTick ==
  /\ \A w \in Workers : Active(w) => req[w].left > 0
  /\ Tick
  /\ req' = [w \in Workers |->
               IF Active(w) THEN [req[w] EXCEPT !.left = @ - 1] ELSE req[w]]
  /\ UNCHANGED <<rows, size, status>>

\* Mutant of TableName: the name is that of the table created last.
TableNameLatest == IF day + 1 \in tables /\ day < LastDay THEN day + 1 ELSE day

\* TableUtil.getT_API_MONITOR_YYYYMMDD: the table of the day the clock shows.
TableName == day

\* insert() begins for the array b, of n samples, and names its table.
Receive(w, b, n) ==
  /\ ~ Active(w)
  /\ job[ServletContext] # "off"
  /\ status[b] = "new"
  /\ status' = [status EXCEPT ![b] = "open"]
  /\ size' = [size EXCEPT ![b] = n]
  /\ req' = [req EXCEPT ![w] =
               [step |-> "stamping", batch |-> b, table |-> TableName, stamps |-> <<>>,
                next |-> 1, bad |-> FALSE, left |-> MaxInsert]]
  /\ UNCHANGED <<dailyVars, rows>>

\* Mutant of Unstamped: the loop goes one element too far.
UnstampedPast(w) == req[w].step = "stamping" /\ Len(req[w].stamps) <= size[req[w].batch]

Unstamped(w) == req[w].step = "stamping" /\ Len(req[w].stamps) < size[req[w].batch]

\* The loop goes on, and stamps one more sample with the current time.
Stamp(w) ==
  /\ Unstamped(w)
  /\ req' = [req EXCEPT ![w].stamps = Append(@, <<day, tod>>)]
  /\ UNCHANGED <<dailyVars, rows, size, status>>

Respond(w, answer) ==
  /\ status' = [status EXCEPT ![req[w].batch] = answer]
  /\ req' = [req EXCEPT ![w] = Idle]
  /\ UNCHANGED <<dailyVars, rows, size>>

\* An element that is no JSON object: the exception ends the call before any row.
Malformed(w) == Unstamped(w) /\ Respond(w, "error")

Stamped(w) == req[w].step = "stamping" /\ Len(req[w].stamps) = size[req[w].batch]

\* No connection, or no table by that name: the exception becomes the answer.
PrepareFails(w) == Stamped(w) /\ Respond(w, "error")

Prepare(w) ==
  /\ Stamped(w)
  /\ req[w].table \in tables
  /\ req' = [req EXCEPT ![w].step = "executing"]
  /\ UNCHANGED <<dailyVars, rows, size, status>>

Executing(w) == req[w].step = "executing" /\ req[w].next <= size[req[w].batch]

Advance(w, failed) == req' = [req EXCEPT ![w].next = @ + 1, ![w].bad = failed]

\* One insert of the batch is executed and committed.
ExecuteRow(w) ==
  LET r == req[w]
      again == \E q \in rows : q.batch = r.batch /\ q.pos = r.next IN
  /\ Executing(w)
  /\ rows' = rows \cup {[batch |-> r.batch, pos |-> r.next, table |-> r.table,
                         stamp |-> r.stamps[r.next], again |-> again]}
  /\ Advance(w, r.bad)
  /\ UNCHANGED <<dailyVars, size, status>>

\* One insert fails (a value that is no number, a name too long); the others go on.
RejectRow(w) ==
  /\ Executing(w)
  /\ Advance(w, TRUE)
  /\ UNCHANGED <<dailyVars, rows, size, status>>

Executed(w) == req[w].step = "executing" /\ req[w].next > size[req[w].batch]

\* Mutant of Finish: the exception of the batch is ignored.
FinishOk(w) == Executed(w) /\ Respond(w, "ok")

\* Mutant of Finish: a batch that had a failure is executed again.
FinishRetry(w) ==
  /\ Executed(w)
  /\ IF req[w].bad
       THEN /\ req' = [req EXCEPT ![w].next = 1, ![w].bad = FALSE]
            /\ UNCHANGED <<dailyVars, rows, size, status>>
       ELSE Respond(w, "ok")

\* The counts of the batch, or the message of its exception, become the answer.
Finish(w) == Executed(w) /\ Respond(w, IF req[w].bad THEN "error" ELSE "ok")

\* The process stops: calls in progress are never answered, and what they have
\* committed stays.
StoreRestart ==
  /\ Restart
  /\ req' = [w \in Workers |-> Idle]
  /\ UNCHANGED <<rows, size, status>>

WorkerStep(w) ==
  \/ \E b \in Batches, n \in 0..MaxRows : Receive(w, b, n)
  \/ Stamp(w)
  \/ Malformed(w)
  \/ PrepareFails(w)
  \/ Prepare(w)
  \/ ExecuteRow(w)
  \/ RejectRow(w)
  \/ Finish(w)

--------------------------------------------------------------------------------
StoreInit ==
  /\ Init
  /\ req = [w \in Workers |-> Idle]
  /\ rows = {}
  /\ size = [b \in Batches |-> 0]
  /\ status = [b \in Batches |-> "new"]

StoreNext ==
  \/ StoreTick
  \/ \E c \in Contexts : JobStep(c) /\ UNCHANGED storeVars
  \/ \E w \in Workers : WorkerStep(w)
  \/ StoreRestart
  \/ Horizon /\ UNCHANGED storeVars

StoreSpec == StoreInit /\ [][StoreNext]_vars

--------------------------------------------------------------------------------
(* Properties.                                                                  *)

\* Since the time t, both ends included.
Since(t) == {r \in rows : ~ Before(r.stamp[1], r.stamp[2], t[1], t[2])}

\* The rows a report asked for no period shows: MonitorHandler.report reads the table
\* of today only, for the samples stamped since an hour ago.
HourAgo == IF Hour <= tod THEN <<day, tod - Hour>> ELSE <<day - 1, tod + DayLen - Hour>>
DefaultReport == {r \in Since(HourAgo) : r.table = day}

\* Once the last midnight is more than an hour and the length of an insert away, the
\* default report misses no sample of the last hour, although a sample stamped after
\* midnight may lie in the table of the day before.
ReportShowsLastHour ==
  Hour + MaxInsert <= tod => Since(HourAgo) \subseteq DefaultReport

\* No sample is stored twice, and none in a table that does not exist.
NoDuplicate ==
  /\ \A r, s \in rows : r.batch = s.batch /\ r.pos = s.pos => r = s
  /\ \A r \in rows : r.table \in tables

Log == INSTANCE SampleLog WITH stored <- {<<r.batch, r.pos>> : r \in rows}

\* Calls of insert keep the promise of SampleLog, whatever interleaves with them.
KeepsPromise == Log!LogSpec
================================================================================
