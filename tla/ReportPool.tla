------------------------------- MODULE ReportPool -------------------------------
(* The connection pool of the context that MonitorHandler starts, shared by the *)
(* worker threads that draw reports through Dbop and ChartUtil and by those that *)
(* store samples through JdbcTemplate.                                           *)
(*                                                                               *)
(* A report asks the database for its product name when no thread has done so    *)
(* yet, for the addresses, for the statuses, and then for the samples of each    *)
(* status.  Each question borrows a connection of its own.  Getting, using and   *)
(* closing a connection may fail, and some of those failures lose it for good.   *)
EXTENDS Naturals, Sequences, FiniteSets

CONSTANTS
  Threads,    \* threads of the server
  Conns,      \* connections of the pool (maxActive of applicationContext.xml)
  NoConn,     \* no connection
  Kinds,      \* the requests that are sent: "report", "insert", "update"
  MaxCells,   \* bound: statuses a report finds
  MaxFaults   \* bound: calls on a connection or the pool that throw

ASSUME PoolAssumption ==
  /\ IsFiniteSet(Threads)
  /\ IsFiniteSet(Conns)
  /\ NoConn \notin Conns
  /\ Kinds \subseteq {"report", "insert", "update"}
  /\ MaxCells \in Nat
  /\ MaxFaults \in Nat

VARIABLES
  pool,       \* connections that wait in the pool
  leaked,     \* connections borrowed, and held by nobody any more
  auto,       \* auto[c]: connection c commits each statement by itself
  typeKnown,  \* the field DBType of the servlet is set
  req,        \* req[t]: the request thread t is in, or the last one it answered
  faults

vars == <<pool, leaked, auto, typeKnown, req, faults>>

\* A fresh call: its kind, where it stands, the connection it holds, the statuses
\* it has found; the variables of its loop (the side it writes, i, map2 as the place
\* of a status, 0 for null, and analysisfilename as the place of the status whose
\* picture it names, 0 for none); the cells on its page; whether the work of its stage
\* succeeded, whether anything in it failed, and what became of the row it writes.
Call(k, stage, step) ==
  [kind |-> k, stage |-> stage, step |-> step, conn |-> NoConn, listed |-> 0,
   side |-> "left", i |-> 0, map2 |-> 0, file |-> 0,
   page |-> <<>>, ok |-> TRUE, failed |-> FALSE, write |-> "none"]

Asking == {"probe", "ips", "list", "chart", "write"}
Waiting == {"first", "again"}
Using == {"run", "close"}

\* A cell of the page: the status it was asked for and the picture it shows.
Cells == [side : {"left", "right"}, status : 0..MaxCells, file : 0..MaxCells]

Calls ==
  [kind : {"report", "insert", "update"},
   stage : Asking \cup {"check", "draw", "ok", "error"},
   step : Waiting \cup Using \cup {"none"},
   conn : Conns \cup {NoConn}, listed : 0..MaxCells,
   side : {"left", "right"}, i : 0..(MaxCells + 1), map2 : 0..MaxCells, file : 0..MaxCells,
   page : Seq(Cells),
   ok : BOOLEAN, failed : BOOLEAN, write : {"none", "pending", "kept", "lost"}]

Active(t) == req[t].stage \notin {"ok", "error"}
Uses(t) == req[t].step \in Using

PoolTypeOK ==
  /\ pool \subseteq Conns
  /\ leaked \subseteq Conns
  /\ auto \in [Conns -> BOOLEAN]
  /\ typeKnown \in BOOLEAN
  /\ req \in [Threads -> Calls]
  /\ \A t \in Threads : Len(req[t].page) <= req[t].listed /\ (Uses(t) => req[t].conn \in Conns)
  /\ faults \in 0..MaxFaults

--------------------------------------------------------------------------------
(* The control of a request between its uses of the database.                    *)

Ask(r, stage) == [r EXCEPT !.stage = stage, !.step = "first", !.conn = NoConn, !.ok = TRUE]
End(r, answer) == [r EXCEPT !.stage = answer, !.step = "none", !.conn = NoConn]

\* The name of the product is looked at before each cell, and is a null reference if
\* it never was learned.
Cell(r, side) ==
  IF typeKnown THEN Ask([r EXCEPT !.side = side], "chart") ELSE End(r, "error")

\* Mutant of Turn: the loop goes one status too far.
TurnOver(r) ==
  IF r.i > r.listed THEN End(r, "ok")
  ELSE Cell([r EXCEPT !.map2 = IF r.listed > r.i + 1 THEN r.i + 2 ELSE @], "left")

\* The head of the loop over the statuses, two by two: map2 keeps the status of the
\* row before where there is no second one.
Turn(r) ==
  IF r.i >= r.listed THEN End(r, "ok")
  ELSE Cell([r EXCEPT !.map2 = IF r.listed > r.i + 1 THEN r.i + 2 ELSE @], "left")

\* Mutant of NextCell: the check before the right cell is one off, as if it were for i.
NextCellOver(r) ==
  IF r.side = "left" /\ r.listed > r.i THEN Cell(r, "right")
  ELSE Turn([r EXCEPT !.i = @ + 2])

\* After the left cell the right one, if the list goes so far, and else the next turn.
NextCell(r) ==
  IF r.side = "left" /\ r.listed > r.i + 1 THEN Cell(r, "right")
  ELSE Turn([r EXCEPT !.i = @ + 2])

\* Mutant of Continue: a question that failed is asked again.
ContinueAgain(r) ==
  IF r.stage = "chart" THEN [r EXCEPT !.stage = "draw", !.step = "none", !.conn = NoConn]
  ELSE IF ~ r.ok THEN Ask(r, r.stage)
  ELSE IF r.stage = "ips" THEN Ask(r, "list")
  ELSE IF r.stage = "list" THEN Turn(r)
  ELSE End(r, "ok")

\* After a connection is given back: a question that failed has a null answer, on
\* which the report throws; a chart is drawn from the rows read so far.
Continue(r) ==
  IF r.stage = "chart" THEN [r EXCEPT !.stage = "draw", !.step = "none", !.conn = NoConn]
  ELSE IF ~ r.ok THEN End(r, "error")
  ELSE IF r.stage = "ips" THEN Ask(r, "list")
  ELSE IF r.stage = "list" THEN Turn(r)
  ELSE End(r, "ok")

Failed(r) == [r EXCEPT !.ok = FALSE, !.failed = TRUE]

\* No connection: the caller throws on the null reference.  Only the charts catch it.
Denied(r) == IF r.stage = "probe" THEN End(Failed(r), "error") ELSE Continue(Failed(r))

ByDbop(r) == r.kind # "insert"

\* Dbop.GetConnection tries once more after an exception; JdbcTemplate does not.
Refused(r) == IF ByDbop(r) /\ r.step = "first" THEN [r EXCEPT !.step = "again", !.failed = TRUE]
                                               ELSE Denied(r)

Fault == faults < MaxFaults /\ faults' = faults + 1

--------------------------------------------------------------------------------
(* The steps of a thread.                                                        *)

Accept(t) ==
  /\ ~ Active(t)
  /\ \E k \in Kinds :
       req' = [req EXCEPT ![t] = IF k = "report" THEN Call(k, "check", "none")
                                                 ELSE Call(k, "write", "first")]
  /\ UNCHANGED <<pool, leaked, auto, typeKnown, faults>>

\* report() looks whether the name of the product is known; other threads may
\* learn it meanwhile.
CheckType(t) ==
  /\ req[t].stage = "check"
  /\ req' = [req EXCEPT ![t] = Ask(@, IF typeKnown THEN "ips" ELSE "probe")]
  /\ UNCHANGED <<pool, leaked, auto, typeKnown, faults>>

\* Mutant of AutoAfter: samples are stored through Dbop too, and nobody commits.
AutoOff(r, before) == FALSE

\* Dbop turns autocommit off, JdbcTemplate leaves it as the pool set it.
AutoAfter(r, before) == IF ByDbop(r) THEN FALSE ELSE before

Borrow(t) ==
  /\ req[t].step \in Waiting
  /\ \E c \in pool :
       /\ pool' = pool \ {c}
       /\ auto' = [auto EXCEPT ![c] = AutoAfter(req[t], @)]
       /\ req' = [req EXCEPT ![t].conn = c, ![t].step = "run"]
  /\ UNCHANGED <<leaked, typeKnown, faults>>

\* getConnection throws.
BorrowFails(t) ==
  /\ req[t].step \in Waiting
  /\ Fault
  /\ req' = [req EXCEPT ![t] = Refused(@)]
  /\ UNCHANGED <<pool, leaked, auto, typeKnown>>

\* setAutoCommit throws: Dbop has no reference to the connection left.
SwitchFails(t) ==
  /\ req[t].step \in Waiting
  /\ ByDbop(req[t])
  /\ Fault
  /\ \E c \in pool : pool' = pool \ {c} /\ leaked' = leaked \cup {c}
  /\ req' = [req EXCEPT ![t] = Refused(@)]
  /\ UNCHANGED <<auto, typeKnown>>

\* Mutant of Probe: the name is not kept in the field.
ProbeForgets(t) ==
  /\ req[t].stage = "probe"
  /\ req[t].step = "run"
  /\ leaked' = leaked \cup {req[t].conn}
  /\ req' = [req EXCEPT ![t] = Ask(@, "ips")]
  /\ UNCHANGED <<pool, auto, typeKnown, faults>>

\* report() asks for the name of the product; nothing closes the connection.
Probe(t) ==
  /\ req[t].stage = "probe"
  /\ req[t].step = "run"
  /\ typeKnown' = TRUE
  /\ leaked' = leaked \cup {req[t].conn}
  /\ req' = [req EXCEPT ![t] = Ask(@, "ips")]
  /\ UNCHANGED <<pool, auto, faults>>

\* The question throws; the report goes on without an answer.
ProbeFails(t) ==
  /\ req[t].stage = "probe"
  /\ req[t].step = "run"
  /\ Fault
  /\ leaked' = leaked \cup {req[t].conn}
  /\ req' = [req EXCEPT ![t] = Ask([@ EXCEPT !.failed = TRUE], "ips")]
  /\ UNCHANGED <<pool, auto, typeKnown>>

Statement(t) == req[t].stage # "probe" /\ req[t].step = "run"

\* The statement succeeds: a list of statuses is found, or a row is written.
Execute(t) ==
  /\ Statement(t)
  /\ \E n \in 0..MaxCells :
       req' = [req EXCEPT
         ![t].step = "close",
         ![t].listed = IF req[t].stage = "list" THEN n ELSE @,
         ![t].write = IF req[t].stage # "write" THEN @
                      ELSE IF auto[req[t].conn] THEN "kept" ELSE "pending"]
  /\ UNCHANGED <<pool, leaked, auto, typeKnown, faults>>

\* It throws: no table for the day asked for, a value that does not fit, an error of
\* the database, or, for the addresses, a row that has none.
ExecuteFails(t) ==
  /\ Statement(t)
  /\ req' = [req EXCEPT ![t] = [Failed(@) EXCEPT !.step = "close"]]
  /\ UNCHANGED <<pool, leaked, auto, typeKnown, faults>>

\* The pool takes a connection back: it undoes what is not committed and commits
\* each statement by itself again.
Reset(r) == [r EXCEPT !.write = IF @ = "pending" THEN "lost" ELSE @]

\* The finally blocks of Dbop, ChartUtil and JdbcTemplate.
Close(t) ==
  /\ req[t].step = "close"
  /\ pool' = pool \cup {req[t].conn}
  /\ auto' = [auto EXCEPT ![req[t].conn] = TRUE]
  /\ req' = [req EXCEPT ![t] = Continue(Reset(@))]
  /\ UNCHANGED <<leaked, typeKnown, faults>>

\* ChartUtil closes result set, statement and connection in one try: when one of the
\* first two throws, the connection is not closed.
CloseFails(t) ==
  /\ req[t].step = "close"
  /\ req[t].stage = "chart"
  /\ Fault
  /\ leaked' = leaked \cup {req[t].conn}
  /\ req' = [req EXCEPT ![t] = Continue([@ EXCEPT !.failed = TRUE])]
  /\ UNCHANGED <<pool, auto, typeKnown>>

\* The status a cell is asked for: map in the left one, map2 in the right one.
Status(r) == IF r.side = "left" THEN r.i + 1 ELSE r.map2

\* The cell shows what analysisfilename names.
WriteCell(r) ==
  NextCell([r EXCEPT !.page =
    Append(r.page, [side |-> r.side, status |-> Status(r), file |-> r.file])])

\* The picture is saved, and analysisfilename names it.
Draw(t) ==
  /\ req[t].stage = "draw"
  /\ req' = [req EXCEPT ![t] = WriteCell([@ EXCEPT !.file = Status(req[t])])]
  /\ UNCHANGED <<pool, leaked, auto, typeKnown, faults>>

\* Saving the picture or writing its map throws: analysisfilename stays as it was.
DrawFails(t) ==
  /\ req[t].stage = "draw"
  /\ Fault
  /\ req' = [req EXCEPT ![t] = WriteCell([@ EXCEPT !.failed = TRUE])]
  /\ UNCHANGED <<pool, leaked, auto, typeKnown>>

Work(t) == CheckType(t) \/ Probe(t) \/ Execute(t) \/ Close(t) \/ Draw(t)
Trouble(t) == BorrowFails(t) \/ SwitchFails(t) \/ ProbeFails(t) \/ ExecuteFails(t)
              \/ CloseFails(t) \/ DrawFails(t)

ThreadStep(t) == Accept(t) \/ Work(t) \/ Borrow(t) \/ Trouble(t)

--------------------------------------------------------------------------------
PoolInit ==
  /\ pool = Conns
  /\ leaked = {}
  /\ auto = [c \in Conns |-> TRUE]
  /\ typeKnown = FALSE
  /\ req = [t \in Threads |-> End(Call("report", "ok", "none"), "ok")]
  /\ faults = 0

PoolNext == \E t \in Threads : ThreadStep(t)

PoolSpec == PoolInit /\ [][PoolNext]_vars

\* A thread that can go on does, and the pool serves the threads that wait for it in
\* the order of their arrival.
FairPoolSpec ==
  PoolSpec /\ \A t \in Threads : WF_vars(Work(t)) /\ SF_vars(Borrow(t))

--------------------------------------------------------------------------------
(* Properties.                                                                   *)

\* Connections are lost by the threads that race to learn the name of the product, one
\* each and once, and by failures, one each; never by requests that follow.
LeaksBounded == Cardinality(leaked) <= Cardinality(Threads) + faults

PictureBefore(page, k) == IF k = 1 THEN 0 ELSE page[k - 1].file

\* A report that is answered has a cell for each status found, in order and two in a
\* row, also the last one of an odd number; each cell shows the picture of its status,
\* and after a failure possibly what the cell before it shows: never the picture of a
\* status that comes later, or one out of reach of a failure.
PageIsComplete ==
  \A t \in Threads :
    LET r == req[t] IN
    r.kind = "report" /\ r.stage = "ok" =>
      /\ Len(r.page) = r.listed
      /\ \A k \in 1..r.listed :
           /\ r.page[k].status = k
           /\ r.page[k].side = "left" <=> k % 2 = 1
           /\ \/ r.page[k].file = k
              \/ r.failed /\ r.page[k].file = PictureBefore(r.page, k)

Kept(k) == \A t \in Threads :
  req[t].kind = k /\ req[t].stage = "ok" => req[t].write = "kept"

\* A sample whose insert is answered without an error is committed, though its
\* connection may have served reports, which turn autocommit off.
InsertKept == Kept("insert")

\* Every request is answered, however many connections are lost on the way.
Served == \A t \in Threads : Active(t) ~> ~ Active(t)
================================================================================
