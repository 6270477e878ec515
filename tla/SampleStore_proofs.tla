-------------------------- MODULE SampleStore_proofs --------------------------
(* Proofs about DailyTables and SampleStore, for every value of their constants:  *)
(* what the job leaves, what a report sees of the samples, and that calls of      *)
(* insert implement SampleLog.                                                   *)
EXTENDS SampleStore, TLAPS

-------------------------------------------------------------------------------
(* DailyTables.                                                                 *)

\* A run that is going on has come due.
RunIsDue == \A c \in Contexts : job[c] \in Running => Due(c)

\* No context is past the deadline of its next run.
InTime ==
  \A c \in Contexts :
    job[c] # "off" => ~ Before(DeadlineDay(c), DeadlineTick(c), day, tod)

\* A context that is off has no latest run.
OffIsNew == \A c \in Contexts : job[c] = "off" => last[c] = "none"

\* What the current batch of c names, and what it has created.
BatchInv(c) ==
  /\ job[c] = "today" => target[c] = dueDay[c]
  /\ job[c] = "tomorrow" => target[c] = dueDay[c] + 1 /\ dueDay[c] \in tables
  /\ job[c] \in Running /\ stmt[c] > 0 /\ ~ bad[c] => target[c] \in tables

\* What the latest run of c, due the day before the next one, has left.
LastInv(c) ==
  last[c] = "ok" =>
    dueDay[c] <= day + 1 /\ dueDay[c] - 1 \in tables /\ dueDay[c] \in tables

RunsInv == \A c \in Contexts : SameDay(c) => BatchInv(c) /\ LastInv(c)

Inv == TypeOK /\ RunIsDue /\ InTime /\ OffIsNew /\ RunsInv

--------------------------------------------------------------------------------
\* The initial state satisfies the invariant.
LEMMA InitInv == Init => Inv
<1> SUFFICES ASSUME Init PROVE Inv
  OBVIOUS
<1> USE ConstantsAssumption DEF Init
<1>1. TypeOK
  BY DEF TypeOK, Running, NoDay
<1>2. RunIsDue /\ InTime /\ OffIsNew /\ RunsInv
  BY DEF OffIsNew, RunIsDue, InTime, RunsInv, BatchInv, LastInv, Running
<1> QED
  BY <1>1, <1>2 DEF Inv

\* Every step of a context's job preserves the invariant.
LEMMA JobInv ==
  ASSUME Inv, NEW k \in Contexts, JobStep(k)
  PROVE  Inv'
<1> USE ConstantsAssumption
<1>1. CASE StartContext(k)
  <2> USE <1>1 DEF StartContext
  <2>1. TypeOK'
    BY DEF Inv, TypeOK, Running, NoDay, tableVars, jobVars, RunIsDue, Due, Before
  <2>2. RunIsDue' /\ OffIsNew'
    BY DEF Inv, TypeOK, Running, tableVars, jobVars, RunIsDue, OffIsNew, Due, Before
  <2>3. InTime'
    BY DEF Inv, TypeOK, Running, NoDay, tableVars, jobVars, RunIsDue, InTime, DeadlineDay, DeadlineTick, Due, Before
  <2>4. RunsInv'
    BY DEF Inv, OffIsNew, TypeOK, Running, NoDay, tableVars, jobVars, RunIsDue, InTime, RunsInv, SameDay, BatchInv, LastInv, DeadlineDay, DeadlineTick, Due, Before
  <2> QED
    BY <2>1, <2>2, <2>3, <2>4 DEF Inv
<1>2. CASE ReadToday(k)
  <2> USE <1>2 DEF ReadToday, StartBatch
  <2>1. TypeOK'
    BY DEF Inv, TypeOK, Running, NoDay, tableVars, jobVars, RunIsDue, Due, Before
  <2>2. RunIsDue' /\ OffIsNew'
    BY DEF Inv, TypeOK, Running, tableVars, jobVars, RunIsDue, OffIsNew, Due, Before
  <2>3. InTime'
    BY DEF Inv, TypeOK, Running, NoDay, tableVars, jobVars, RunIsDue, InTime, DeadlineDay, DeadlineTick, Due, Before
  <2>4. RunsInv'
    BY DEF Inv, OffIsNew, TypeOK, Running, NoDay, tableVars, jobVars, RunIsDue, InTime, RunsInv, SameDay, BatchInv, LastInv, DeadlineDay, DeadlineTick, Due, Before
  <2> QED
    BY <2>1, <2>2, <2>3, <2>4 DEF Inv
<1>3. CASE ReadTomorrow(k)
  <2> USE <1>3 DEF ReadTomorrow, BatchDone, StartBatch
  <2>1. TypeOK'
    BY DEF Inv, TypeOK, Running, NoDay, tableVars, jobVars, RunIsDue, Due, Before
  <2>2. RunIsDue' /\ OffIsNew'
    BY DEF Inv, TypeOK, Running, tableVars, jobVars, RunIsDue, OffIsNew, Due, Before
  <2>3. InTime'
    BY DEF Inv, TypeOK, Running, NoDay, tableVars, jobVars, RunIsDue, InTime, DeadlineDay, DeadlineTick, Due, Before
  <2>4. RunsInv'
    BY DEF Inv, OffIsNew, TypeOK, Running, NoDay, tableVars, jobVars, RunIsDue, InTime, RunsInv, SameDay, BatchInv, LastInv, DeadlineDay, DeadlineTick, Due, Before
  <2> QED
    BY <2>1, <2>2, <2>3, <2>4 DEF Inv
<1>4. CASE CreateTable(k)
  <2> USE <1>4 DEF CreateTable, InBatch, NextStatement
  <2>1. TypeOK'
    <3>1. target[k] \in 0..(LastDay + 1)
      BY DEF Inv, TypeOK
    <3>2. tables' \subseteq 0..(LastDay + 1)
      BY <3>1 DEF Inv, TypeOK
    <3>3. stmt' \in [Contexts -> 0..(NumIndexes + 1)]
      BY DEF Inv, TypeOK
    <3> QED
      BY <3>2, <3>3 DEF Inv, TypeOK
  <2>2. RunIsDue' /\ OffIsNew'
    BY DEF Inv, TypeOK, Running, tableVars, jobVars, RunIsDue, OffIsNew, Due, Before
  <2>3. InTime'
    BY DEF Inv, TypeOK, Running, NoDay, tableVars, jobVars, RunIsDue, InTime, DeadlineDay, DeadlineTick, Due, Before
  <2>4. RunsInv'
    BY DEF Inv, OffIsNew, TypeOK, Running, NoDay, tableVars, jobVars, RunIsDue, InTime, RunsInv, SameDay, BatchInv, LastInv, DeadlineDay, DeadlineTick, Due, Before
  <2> QED
    BY <2>1, <2>2, <2>3, <2>4 DEF Inv
<1>5. CASE CreateIndex(k)
  <2> USE <1>5 DEF CreateIndex, InBatch, NextStatement, PutIndex, Indexes
  <2>1. TypeOK'
    <3>1. stmt' \in [Contexts -> 0..(NumIndexes + 1)] /\ target[k] \in 0..NoDay
      <4>1. stmt[k] + 1 \in 0..(NumIndexes + 1) /\ target[k] \in 0..NoDay
        <5>1. stmt[k] \in 1..NumIndexes
          OBVIOUS
        <5>2. target[k] \in 0..(LastDay + 1)
          BY DEF Inv, TypeOK
        <5> HIDE DEF CreateIndex
        <5> HIDE <1>5
        <5> QED BY <5>1, <5>2, ConstantsAssumption DEF NoDay
      <4>2. stmt' = [stmt EXCEPT ![k] = stmt[k] + 1]
        OBVIOUS
      <4> HIDE DEF CreateIndex
      <4> QED
        BY <4>1, <4>2 DEF Inv, TypeOK
    <3>2. bad' \in [Contexts -> BOOLEAN] /\ index' \in [Indexes -> 0..NoDay]
      <4>1. CASE target[k] \in tables
        BY <3>1, <4>1 DEF Inv, TypeOK
      <4>2. CASE target[k] \notin tables
        <5>1. index' = index /\ bad' = [bad EXCEPT ![k] = TRUE]
          BY <4>2
        <5> QED
          BY <5>1 DEF Inv, TypeOK
      <4> QED
        BY <4>1, <4>2
    <3> QED
      BY <3>1, <3>2 DEF Inv, TypeOK
  <2>2. RunIsDue' /\ OffIsNew'
    BY DEF Inv, TypeOK, Running, tableVars, jobVars, RunIsDue, OffIsNew, Due, Before
  <2>3. InTime'
    BY DEF Inv, TypeOK, Running, NoDay, tableVars, jobVars, RunIsDue, InTime, DeadlineDay, DeadlineTick, Due, Before
  <2>4. RunsInv'
    BY DEF Inv, OffIsNew, TypeOK, Running, NoDay, tableVars, jobVars, RunIsDue, InTime, RunsInv, SameDay, BatchInv, LastInv, DeadlineDay, DeadlineTick, Due, Before
  <2> QED
    BY <2>1, <2>2, <2>3, <2>4 DEF Inv
<1>6. CASE FailStatement(k)
  <2> USE <1>6 DEF FailStatement, InBatch, RecordFailure, NextStatement
  <2>1. TypeOK'
    BY DEF Inv, TypeOK, Running, NoDay, tableVars, jobVars, RunIsDue, Due, Before
  <2>2. RunIsDue' /\ OffIsNew'
    BY DEF Inv, TypeOK, Running, tableVars, jobVars, RunIsDue, OffIsNew, Due, Before
  <2>3. InTime'
    BY DEF Inv, TypeOK, Running, NoDay, tableVars, jobVars, RunIsDue, InTime, DeadlineDay, DeadlineTick, Due, Before
  <2>4. RunsInv'
    BY DEF Inv, OffIsNew, TypeOK, Running, NoDay, tableVars, jobVars, RunIsDue, InTime, RunsInv, SameDay, BatchInv, LastInv, DeadlineDay, DeadlineTick, Due, Before
  <2> QED
    BY <2>1, <2>2, <2>3, <2>4 DEF Inv
<1>7. CASE FailConnection(k)
  <2> USE <1>7 DEF FailConnection, RecordFailure
  <2>1. TypeOK'
    BY DEF Inv, TypeOK, Running, NoDay, tableVars, jobVars, RunIsDue, Due, Before
  <2>2. RunIsDue' /\ OffIsNew'
    BY DEF Inv, TypeOK, Running, tableVars, jobVars, RunIsDue, OffIsNew, Due, Before
  <2>3. InTime'
    BY DEF Inv, TypeOK, Running, NoDay, tableVars, jobVars, RunIsDue, InTime, DeadlineDay, DeadlineTick, Due, Before
  <2>4. RunsInv'
    BY DEF Inv, OffIsNew, TypeOK, Running, NoDay, tableVars, jobVars, RunIsDue, InTime, RunsInv, SameDay, BatchInv, LastInv, DeadlineDay, DeadlineTick, Due, Before
  <2> QED
    BY <2>1, <2>2, <2>3, <2>4 DEF Inv
<1>8. CASE EndRun(k)
  <2> USE <1>8 DEF EndRun
  <2>1. TypeOK'
    BY DEF Inv, TypeOK, Running, NoDay, tableVars, jobVars, RunIsDue, Due, Before
  <2>2. RunIsDue' /\ OffIsNew'
    BY DEF Inv, TypeOK, Running, tableVars, jobVars, RunIsDue, OffIsNew, Due, Before
  <2>3. InTime'
    BY DEF Inv, TypeOK, Running, NoDay, tableVars, jobVars, RunIsDue, InTime, DeadlineDay, DeadlineTick, Due, Before
  <2>4. RunsInv'
    BY DEF Inv, OffIsNew, TypeOK, Running, NoDay, tableVars, jobVars, RunIsDue, InTime, RunsInv, SameDay, BatchInv, LastInv, DeadlineDay, DeadlineTick, Due, Before
  <2> QED
    BY <2>1, <2>2, <2>3, <2>4 DEF Inv
<1> QED
  BY <1>1, <1>2, <1>3, <1>4, <1>5, <1>6, <1>7, <1>8 DEF JobStep

\* Every step of the process preserves the invariant.
LEMMA NextInv == Inv /\ [Next]_dailyVars => Inv'
<1> SUFFICES ASSUME Inv, [Next]_dailyVars PROVE Inv'
  OBVIOUS
<1> USE ConstantsAssumption
<1>1. CASE Tick
  <2> USE <1>1 DEF Tick, AdvanceClock
  <2>1. TypeOK'
    BY DEF Inv, TypeOK, Running, NoDay, tableVars, jobVars
  <2>2. RunIsDue' /\ OffIsNew'
    BY DEF Inv, TypeOK, Running, tableVars, jobVars, RunIsDue, OffIsNew, Due, Before
  <2>3. InTime'
    BY DEF Inv, TypeOK, jobVars, RunsInTime, InTime, DeadlineDay, DeadlineTick, Before
  <2>4. RunsInv'
    BY DEF Inv, TypeOK, Running, tableVars, jobVars, RunsInv, SameDay, BatchInv, LastInv
  <2> QED
    BY <2>1, <2>2, <2>3, <2>4 DEF Inv
<1>2. CASE \E c \in Contexts : JobStep(c)
  BY <1>2, JobInv
<1>3. CASE Restart
  <2> USE <1>3 DEF Restart
  <2>1. TypeOK'
    BY DEF Inv, TypeOK, Running, NoDay, tableVars
  <2>2. RunIsDue' /\ InTime' /\ OffIsNew' /\ RunsInv'
    BY DEF Running, RunIsDue, InTime, OffIsNew, RunsInv, BatchInv, LastInv
  <2> QED
    BY <2>1, <2>2 DEF Inv
<1>4. CASE Horizon \/ UNCHANGED dailyVars
  BY <1>4, ZenonT(60) DEF Horizon, dailyVars, jobVars, tableVars, Inv, TypeOK, Running, NoDay, Indexes,
    RunIsDue, InTime, OffIsNew, RunsInv, SameDay, BatchInv, LastInv,
    DeadlineDay, DeadlineTick, Due, Before
<1> QED
  BY <1>1, <1>2, <1>3, <1>4 DEF Next

\* The reachable states of the store of daily tables satisfy the invariant.
THEOREM Invariance == Spec => []Inv
BY InitInv, NextInv, PTL DEF Spec

\* Every variable of DailyTables keeps to its type, whatever the constants.
THEOREM TypeCorrect == Spec => []TypeOK
<1>1. Inv => TypeOK
  BY DEF Inv
<1> QED
  BY <1>1, Invariance, PTL

\* A context whose latest run of createDay succeeded, and whose runs do not straddle
\* midnight, leaves no moment of any day without the table of that day.
THEOREM TodayAlwaysHasTable == Spec => []TodayHasTable
<1>1. Inv => TodayHasTable
  <2> SUFFICES ASSUME Inv, NEW c \in Contexts, last[c] = "ok", SameDay(c)
               PROVE  day \in tables
    BY DEF TodayHasTable
  <2> USE ConstantsAssumption
  <2>1. day \in Nat /\ dueDay[c] \in Nat /\ phase[c] \in Nat
    BY DEF Inv, TypeOK
  <2>2. dueDay[c] <= day + 1 /\ dueDay[c] - 1 \in tables /\ dueDay[c] \in tables
    BY DEF Inv, RunsInv, LastInv
  <2>3. ~ Before(dueDay[c], phase[c] + MaxLate, day, tod)
    BY DEF Inv, InTime, OffIsNew, SameDay, DeadlineDay, DeadlineTick
  <2>4. day <= dueDay[c]
    BY <2>1, <2>3 DEF Before
  <2>5. day = dueDay[c] \/ day = dueDay[c] - 1
    BY <2>1, <2>2, <2>4
  <2> QED
    BY <2>2, <2>5
<1> QED
  BY <1>1, Invariance, PTL

--------------------------------------------------------------------------------
\* An index name is free or stands on a table; and what the statements of a batch
\* executed so far have created, if none of them failed.
StatementsInv ==
  /\ \A i \in Indexes : index[i] \in tables \cup {NoDay}
  /\ \A c \in Contexts : job[c] \in Running /\ ~ bad[c] =>
       /\ stmt[c] > 0 => target[c] \in tables
       /\ \A i \in Indexes : stmt[c] > i => index[i] \in tables

\* Every step preserves it.
LEMMA NextStatements == Inv /\ StatementsInv /\ [Next]_dailyVars => StatementsInv'
<1> SUFFICES ASSUME Inv, StatementsInv, [Next]_dailyVars PROVE StatementsInv'
  OBVIOUS
<1> USE ConstantsAssumption DEF StatementsInv, Running
<1>1. ASSUME NEW k \in Contexts, JobStep(k) PROVE StatementsInv'
  <2> USE DEF Inv, TypeOK, tableVars, jobVars
  <2>1. CASE StartContext(k)
    BY <2>1 DEF StartContext
  <2>b. ASSUME NEW which, NEW d, StartBatch(k, which, d) PROVE StatementsInv'
    <3>1. /\ stmt'[k] = 0 /\ index' = index /\ tables' = tables
          /\ \A c \in Contexts \ {k} : /\ job'[c] = job[c] /\ stmt'[c] = stmt[c]
                                       /\ target'[c] = target[c] /\ bad'[c] = bad[c]
      BY <2>b DEF StartBatch
    <3>2. \A i \in Indexes : ~ (0 > i)
      BY DEF Indexes
    <3>3. \A i \in Indexes : index'[i] \in tables' \cup {NoDay}
      BY <3>1
    <3>4. ASSUME NEW c \in Contexts, job'[c] \in Running, ~ bad'[c]
          PROVE  /\ stmt'[c] > 0 => target'[c] \in tables'
                 /\ \A i \in Indexes : stmt'[c] > i => index'[i] \in tables'
      <4>1. CASE c = k
        BY <3>1, <3>2, <4>1
      <4>2. CASE c # k
        BY <3>1, <3>4, <4>2
      <4> QED BY <4>1, <4>2
    <3> QED BY <3>3, <3>4
  <2>2. CASE ReadToday(k)
    BY <2>2, <2>b DEF ReadToday
  <2>3. CASE ReadTomorrow(k)
    BY <2>3, <2>b DEF ReadTomorrow
  <2>4. CASE CreateTable(k)
    BY <2>4, SMTT(30) DEF CreateTable, InBatch, NextStatement, Indexes
  <2>5. CASE CreateIndex(k)
    <3> USE <2>5 DEF CreateIndex, InBatch, NextStatement
    <3>1. CASE target[k] \in tables
      <4>1. \A i \in Indexes :
              /\ index'[i] \in tables \cup {NoDay}
              /\ index[i] \in tables \/ i = stmt[k] => index'[i] \in tables
        <5>1. index' = [index EXCEPT ![stmt[k]] =
                          IF index[stmt[k]] = NoDay THEN target[k] ELSE index[stmt[k]]]
          BY <3>1 DEF PutIndex
        <5>2. NoDay \notin tables
          BY DEF NoDay
        <5> HIDE DEF CreateIndex
        <5> QED
          BY <3>1, <5>1, <5>2
      <4>2. /\ stmt' = [stmt EXCEPT ![k] = stmt[k] + 1]
            /\ stmt[k] \in Indexes
            /\ bad' = bad /\ job' = job /\ target' = target /\ tables' = tables
        BY <3>1
      <4>3. \A c \in Contexts, i \in Indexes :
              stmt'[c] > i => stmt[c] > i \/ (c = k /\ i = stmt[k])
        <5> HIDE DEF CreateIndex, InBatch, NextStatement
        <5> QED
          BY <4>2 DEF Indexes
      <4>4. \A c \in Contexts : stmt'[c] > 0 => stmt[c] > 0
        <5> HIDE DEF CreateIndex, InBatch, NextStatement
        <5> QED
          BY <4>2 DEF Indexes
      <4> HIDE DEF CreateIndex, InBatch, NextStatement, Inv, TypeOK
      <4> QED
        BY <4>1, <4>2, <4>3, <4>4 DEF NoDay, Indexes
    <3>2. CASE target[k] \notin tables
      <4>1. index' = index /\ bad' = [bad EXCEPT ![k] = TRUE]
        BY <3>2
      <4> QED
        BY <4>1
    <3> QED
      BY <3>1, <3>2
  <2>6. CASE FailStatement(k)
    BY <2>6 DEF FailStatement, InBatch, RecordFailure, NextStatement
  <2>7. CASE FailConnection(k)
    BY <2>7 DEF FailConnection, RecordFailure
  <2>8. CASE EndRun(k)
    BY <2>8 DEF EndRun
  <2> QED
    BY <1>1, <2>1, <2>2, <2>3, <2>4, <2>5, <2>6, <2>7, <2>8 DEF JobStep
<1>2. CASE Tick
  BY <1>2 DEF Tick, tableVars, jobVars
<1>3. CASE Restart
  BY <1>3 DEF Restart, tableVars
<1>4. CASE Horizon \/ UNCHANGED dailyVars
  BY <1>4 DEF Horizon, dailyVars, tableVars, jobVars
<1> QED
  BY <1>1, <1>2, <1>3, <1>4 DEF Next

\* A batch that had no failure leaves its table, and every index name on a table that
\* exists, whichever statements of other contexts came between its own.
THEOREM BatchAlwaysComplete == Spec => []BatchIsComplete
<1> USE ConstantsAssumption
<1>1. Init => StatementsInv
  BY DEF Init, StatementsInv, Running
<1>2. Inv /\ StatementsInv => BatchIsComplete
  BY DEF StatementsInv, BatchIsComplete, Inv, TypeOK, Indexes
<1> QED
  BY <1>1, <1>2, NextStatements, Invariance, PTL DEF Spec

\* A successful run leaves its day and the next one with their tables for good.
THEOREM RunsAlwaysOutlastRestarts == Spec => RunsOutlastRestarts
<1> SUFFICES ASSUME NEW d \in 0..LastDay
             PROVE  Spec => [](RanOn(d) => [](day \in {d, d + 1} => day \in tables))
  BY DEF RunsOutlastRestarts
<1> DEFINE Covered == d \in tables /\ d + 1 \in tables
<1>1. Inv /\ RanOn(d) => Covered
  <2> SUFFICES ASSUME Inv, NEW c \in Contexts,
                      last[c] = "ok", SameDay(c), dueDay[c] = d + 1
               PROVE  Covered
    BY DEF RanOn
  <2>1. dueDay[c] - 1 \in tables /\ dueDay[c] \in tables
    BY DEF Inv, RunsInv, LastInv
  <2> QED
    BY <2>1, ConstantsAssumption
<1>2. Covered /\ [Next]_dailyVars => Covered'
  <2>1. [Next]_dailyVars => tables \subseteq tables'
    BY DEF Next, Tick, Restart, Horizon, JobStep, StartContext, ReadToday, CreateTable,
      CreateIndex, FailStatement, FailConnection, ReadTomorrow, BatchDone, StartBatch,
      EndRun, dailyVars, tableVars
  <2> QED
    BY <2>1
<1>3. Covered => (day \in {d, d + 1} => day \in tables)
  OBVIOUS
<1> QED
  BY <1>1, <1>2, <1>3, Invariance, PTL DEF Spec

-------------------------------------------------------------------------------
(* SampleStore.                                                                  *)

\* A time t is filed in the table of day d: on that day, or early in the next one.
Filed(d, t) == t[1] = d \/ (t[1] = d + 1 /\ t[2] < MaxInsert)

Past(t) == ~ Before(day, tod, t[1], t[2])

\* The clock of a call: it named its table today, or before the last midnight.
CallClock(r) == day = r.table \/ (day = r.table + 1 /\ tod + r.left < MaxInsert)

\* The array b is the one of a single call, which is not answered yet.
CallOwns ==
  /\ \A w \in Workers : Active(w) => status[req[w].batch] = "open"
  /\ \A v, w \in Workers : Active(v) /\ Active(w) /\ req[v].batch = req[w].batch => v = w

\* The samples a call has stored are among those it has executed, and all of them if
\* none failed.
CallInv(w) ==
  LET r == req[w] IN
  /\ CallClock(r)
  /\ Len(r.stamps) <= size[r.batch]
  /\ r.next <= size[r.batch] + 1
  /\ \A i \in 1..Len(r.stamps) : Filed(r.table, r.stamps[i]) /\ Past(r.stamps[i])
  /\ \A q \in rows : q.batch = r.batch => q.pos < r.next
  /\ r.step = "stamping" => r.next = 1 /\ ~ r.bad
  /\ r.step = "executing" => Len(r.stamps) = size[r.batch] /\ r.table \in tables
  /\ ~ r.bad => \A i \in 1..(r.next - 1) : \E q \in rows : q.batch = r.batch /\ q.pos = i

\* The rows of the tables.
RowsInv ==
  /\ \A q \in rows : Filed(q.table, q.stamp) /\ Past(q.stamp) /\ q.table \in tables
  /\ \A q \in rows : status[q.batch] # "new" /\ q.pos <= size[q.batch]
  /\ \A p, q \in rows : p.batch = q.batch /\ p.pos = q.pos => p = q

CallsInv == \A w \in Workers : Active(w) => CallInv(w)

StoreInv == Inv /\ StoreTypeOK /\ CallOwns /\ CallsInv /\ RowsInv

--------------------------------------------------------------------------------
\* A step of the job, in any context, leaves the clock alone and drops no table.
LEMMA JobKeeps ==
  ASSUME NEW c \in Contexts, JobStep(c)
  PROVE  day' = day /\ tod' = tod /\ tables \subseteq tables'
BY DEF JobStep, StartContext, ReadToday, ReadTomorrow, BatchDone, StartBatch, CreateTable,
  CreateIndex, FailStatement, FailConnection, EndRun, tableVars

\* The elements of a sequence after an Append.
LEMMA AppendElements ==
  ASSUME NEW T, NEW s \in Seq(T), NEW e \in T, NEW j \in 1..Len(Append(s, e))
  PROVE  Append(s, e)[j] = e \/ (j \in 1..Len(s) /\ Append(s, e)[j] = s[j])
<1>1. Len(Append(s, e)) = Len(s) + 1 /\ Len(s) \in Nat
  OBVIOUS
<1>2. j \in 1..Len(s) \/ j = Len(s) + 1
  BY <1>1
<1> QED
  BY <1>1, <1>2

\* A worker that is not idle is in a call.
LEMMA ActiveIsCall ==
  ASSUME StoreTypeOK, NEW w \in Workers, Active(w)
  PROVE  req[w] \in Calls
BY DEF StoreTypeOK, Active, Idle

\* What each step of a call changes of it, field by field.
LEMMA CallEffects ==
  ASSUME StoreTypeOK, NEW w \in Workers, req[w] \in Calls
  PROVE  /\ Stamp(w) \/ Prepare(w) \/ ExecuteRow(w) \/ RejectRow(w) =>
              /\ req'[w].batch = req[w].batch
              /\ req'[w].table = req[w].table
              /\ req'[w].left = req[w].left
         /\ Stamp(w) => /\ req'[w].stamps = Append(req[w].stamps, <<day, tod>>)
                        /\ req'[w].step = "stamping"
                        /\ req'[w].next = req[w].next /\ req'[w].bad = req[w].bad
         /\ Prepare(w) => /\ req'[w].step = "executing" /\ req'[w].stamps = req[w].stamps
                          /\ req'[w].next = req[w].next /\ req'[w].bad = req[w].bad
         /\ ExecuteRow(w) \/ RejectRow(w) =>
              /\ req'[w].step = "executing" /\ req'[w].stamps = req[w].stamps
              /\ req'[w].next = req[w].next + 1
         /\ ExecuteRow(w) => req'[w].bad = req[w].bad
         /\ RejectRow(w) => req'[w].bad
<1> USE DEF StoreTypeOK, Calls
<1>1. CASE Stamp(w)
  <2>1. req'[w] = [req[w] EXCEPT !.stamps = Append(req[w].stamps, <<day, tod>>)]
    BY <1>1 DEF Stamp
  <2> QED
    BY <1>1, <2>1 DEF Stamp, Unstamped, Prepare, Stamped, ExecuteRow, RejectRow, Executing
<1>2. CASE Prepare(w)
  <2>1. req'[w] = [req[w] EXCEPT !.step = "executing"]
    BY <1>2 DEF Prepare
  <2> QED
    BY <1>2, <2>1 DEF Stamp, Unstamped, Prepare, Stamped, ExecuteRow, RejectRow, Executing
<1>3. ASSUME NEW f \in BOOLEAN, Advance(w, f)
      PROVE  req'[w] = [req[w] EXCEPT !.next = req[w].next + 1, !.bad = f]
  BY <1>3 DEF Advance
<1>4. ExecuteRow(w) => req'[w] = [req[w] EXCEPT !.next = req[w].next + 1, !.bad = req[w].bad]
  BY <1>3 DEF ExecuteRow
<1>5. RejectRow(w) => req'[w] = [req[w] EXCEPT !.next = req[w].next + 1, !.bad = TRUE]
  BY <1>3 DEF RejectRow
<1>6. CASE ExecuteRow(w) \/ RejectRow(w)
  <2>1. req[w].step = "executing" /\ ~ Stamp(w) /\ ~ Prepare(w)
    BY <1>6 DEF Stamp, Unstamped, Prepare, Stamped, ExecuteRow, Executing, RejectRow
  <2> QED
    BY <1>4, <1>5, <1>6, <2>1
<1> QED
  BY <1>1, <1>2, <1>6

\* Every step of a worker keeps the types.
LEMMA WorkerType ==
  ASSUME StoreInv, NEW w \in Workers, WorkerStep(w)
  PROVE  StoreTypeOK'
<1> USE ConstantsAssumption, StoreAssumption DEF StoreInv, StoreTypeOK, Active
<1>0. (UNCHANGED dailyVars) => TypeOK'
  BY DEF TypeOK, dailyVars, jobVars, tableVars, NoDay, Running, Indexes
<1>1. ASSUME NEW b \in Batches, NEW n \in 0..MaxRows, Receive(w, b, n) PROVE StoreTypeOK'
  <2>1. [step |-> "stamping", batch |-> b, table |-> TableName, stamps |-> <<>>,
         next |-> 1, bad |-> FALSE, left |-> MaxInsert] \in Calls
    BY DEF Calls, TableName, TypeOK
  <2> QED
    BY <1>0, <1>1, <2>1 DEF Receive
<1>2. CASE Stamp(w)
  <2>0. <<day, tod>> \in Time
    BY DEF TypeOK, Time
  <2>1. req[w] \in Calls
    BY <1>2 DEF Stamp, Unstamped, Idle
  <2>2. Append(req[w].stamps, <<day, tod>>) \in Seq(Time)
    BY <2>0, <2>1 DEF Calls
  <2>3. Len(Append(req[w].stamps, <<day, tod>>)) <= MaxRows
    BY <1>2, <2>1, SMTT(30) DEF Stamp, Unstamped, Calls
  <2>4. [req[w] EXCEPT !.stamps = Append(@, <<day, tod>>)] \in Calls
    BY <2>1, <2>2 DEF Calls
  <2> QED
    BY <1>0, <1>2, <2>1, <2>3, <2>4 DEF Stamp, Calls
<1>3. ASSUME NEW a \in {"ok", "error"}, Respond(w, a) PROVE StoreTypeOK'
  BY <1>0, <1>3 DEF Respond, Idle
<1>4. CASE Prepare(w)
  <2>1. req[w] \in Calls
    BY <1>4 DEF Prepare, Stamped, Idle
  <2>2. [req[w] EXCEPT !.step = "executing"] \in Calls
    BY <2>1 DEF Calls
  <2> QED
    BY <1>0, <1>4, <2>1, <2>2 DEF Prepare, Calls
<1>5. ASSUME NEW f \in BOOLEAN, Executing(w), Advance(w, f)
      PROVE  /\ req[w] \in Calls
             /\ req' \in [Workers -> Calls \cup {Idle}]
             /\ \A v \in Workers : req'[v].step # "idle" => Len(req'[v].stamps) <= MaxRows
  <2>1. req[w] \in Calls
    BY <1>5 DEF Executing, Idle
  <2>2. req[w].next + 1 \in 1..(MaxRows + 1)
    BY <1>5, <2>1 DEF Executing, Calls
  <2>3. [req[w] EXCEPT !.next = @ + 1, !.bad = f] \in Calls
    BY <2>1, <2>2 DEF Calls
  <2> QED
    BY <1>5, <2>1, <2>3 DEF Advance, Calls
<1>6. CASE ExecuteRow(w)
  <2>1. req[w] \in Calls /\ req[w].bad \in BOOLEAN
    BY <1>6 DEF ExecuteRow, Executing, Idle, Calls
  <2>2. req[w].next \in 1..MaxRows /\ req[w].stamps[req[w].next] \in Time
    BY <1>6, <2>1 DEF ExecuteRow, Executing, Calls, CallsInv, CallInv
  <2>3. ASSUME NEW again \in BOOLEAN
        PROVE  [batch |-> req[w].batch, pos |-> req[w].next, table |-> req[w].table,
                stamp |-> req[w].stamps[req[w].next], again |-> again] \in Rows
    BY <2>1, <2>2 DEF Rows, Calls
  <2>4. rows' \subseteq Rows
    BY <1>6, <2>3 DEF ExecuteRow
  <2> QED
    BY <1>0, <1>5, <1>6, <2>1, <2>4 DEF ExecuteRow
<1>7. CASE RejectRow(w)
  BY <1>0, <1>5, <1>7 DEF RejectRow
<1> QED
  BY <1>1, <1>2, <1>3, <1>4, <1>6, <1>7
  DEF WorkerStep, Malformed, PrepareFails, Finish

\* A step of one worker leaves the calls of the others as they were.
LEMMA OthersKeep ==
  ASSUME StoreInv, NEW w \in Workers, WorkerStep(w), NEW v \in Workers, v # w
  PROVE  req'[v] = req[v]
BY DEF StoreInv, StoreTypeOK, WorkerStep, Receive, Stamp, Malformed, PrepareFails, Prepare,
  ExecuteRow, RejectRow, Advance, Finish, Respond

\* No worker step moves the clock or touches a table.
LEMMA WorkerKeeps ==
  ASSUME NEW w \in Workers, WorkerStep(w)
  PROVE  UNCHANGED dailyVars
BY DEF WorkerStep, Receive, Stamp, Malformed, PrepareFails, Prepare, ExecuteRow, RejectRow,
  Finish, Respond

\* An array is the business of one call, until it is answered.
LEMMA WorkerOwns ==
  ASSUME StoreInv, NEW w \in Workers, WorkerStep(w)
  PROVE  CallOwns'
<1> USE DEF StoreInv, CallOwns, Active
<1>1. ASSUME NEW b \in Batches, NEW n \in 0..MaxRows, Receive(w, b, n) PROVE CallOwns'
  BY <1>1 DEF Receive, StoreTypeOK
<1>2. ASSUME NEW a, Active(w), Respond(w, a) PROVE CallOwns'
  BY <1>2 DEF Respond, StoreTypeOK, Idle
<1>3. CASE Stamp(w) \/ Prepare(w) \/ ExecuteRow(w) \/ RejectRow(w)
  <2>1. Active(w) /\ status' = status
    BY <1>3 DEF Stamp, Unstamped, Prepare, Stamped, ExecuteRow, RejectRow, Executing
  <2>2. req'[w].batch = req[w].batch
    BY <1>3, <2>1, ActiveIsCall, CallEffects
  <2> QED
    BY <2>1, <2>2, OthersKeep
<1> QED
  BY <1>1, <1>2, <1>3 DEF WorkerStep, Malformed, PrepareFails, Finish, Unstamped, Stamped,
    Executed

\* The other calls are as good after a worker step as before it.
LEMMA OthersInv ==
  ASSUME StoreInv, NEW w \in Workers, WorkerStep(w),
         NEW v \in Workers, v # w, Active(v)
  PROVE  CallInv(v)'
<1> DEFINE r == req[v]
<1>1. req'[v] = r /\ UNCHANGED dailyVars /\ CallInv(v)
  BY OthersKeep, WorkerKeeps DEF StoreInv, CallsInv
<1>2. size'[r.batch] = size[r.batch]
  <2>1. ASSUME NEW b \in Batches, NEW n \in 0..MaxRows, Receive(w, b, n)
        PROVE  size'[r.batch] = size[r.batch]
    <3>1. size' = [size EXCEPT ![b] = n] /\ r.batch # b /\ r \in Calls
      BY <2>1, ActiveIsCall DEF Receive, StoreInv, CallOwns
    <3> QED
      BY <3>1 DEF StoreInv, StoreTypeOK, Calls
  <2>2. CASE size' = size
    BY <2>2
  <2> QED
    BY <2>1, <2>2 DEF WorkerStep, Stamp, Malformed, PrepareFails, Prepare, ExecuteRow,
      RejectRow, Finish, Respond
<1>3. rows \subseteq rows' /\ \A q \in rows' : q.batch = r.batch => q \in rows
  <2>1. CASE ExecuteRow(w)
    <3>1. Active(w) /\ req[w].batch # r.batch
      BY <2>1 DEF ExecuteRow, Executing, StoreInv, CallOwns, Active
    <3> QED
      BY <2>1, <3>1 DEF ExecuteRow
  <2>2. CASE rows' = rows
    BY <2>2
  <2> QED
    BY <2>1, <2>2 DEF WorkerStep, Receive, Stamp, Malformed, PrepareFails, Prepare,
      RejectRow, Finish, Respond
<1> QED
  BY <1>1, <1>2, <1>3 DEF CallInv, CallClock, Filed, Past, Before, dailyVars, tableVars

\* The call of the worker that makes the step, if it goes on, keeps to its part.
LEMMA OwnInv ==
  ASSUME StoreInv, NEW w \in Workers, WorkerStep(w), Active(w)'
  PROVE  CallInv(w)'
<1> USE ConstantsAssumption, StoreAssumption DEF StoreInv
<1>1. UNCHANGED dailyVars
  BY WorkerKeeps
<1>2. ASSUME NEW b \in Batches, NEW n \in 0..MaxRows, Receive(w, b, n) PROVE CallInv(w)'
  <2>1. req'[w] = [step |-> "stamping", batch |-> b, table |-> day, stamps |-> <<>>,
                   next |-> 1, bad |-> FALSE, left |-> MaxInsert]
    BY <1>2 DEF Receive, TableName, StoreTypeOK
  <2>2. size'[b] = n /\ rows' = rows /\ status[b] = "new"
    BY <1>2 DEF Receive, StoreTypeOK
  <2>3. \A q \in rows : q.batch # b
    BY <2>2 DEF RowsInv
  <2> QED
    BY <1>1, <2>1, <2>2, <2>3 DEF CallInv, CallClock, dailyVars
<1>3. ASSUME NEW a, Respond(w, a) PROVE FALSE
  BY <1>3 DEF Respond, Active, Idle, StoreTypeOK
<1>4. CASE Stamp(w) \/ Prepare(w) \/ ExecuteRow(w) \/ RejectRow(w)
  <2>1. req[w] \in Calls /\ CallInv(w) /\ size' = size
    BY <1>4, ActiveIsCall
      DEF Active, CallsInv, Stamp, Unstamped, Prepare, Stamped, ExecuteRow, RejectRow, Executing
  <2>2. CASE Stamp(w)
    <3>1. rows' = rows /\ Len(req[w].stamps) < size[req[w].batch] /\ req[w].step = "stamping"
      BY <2>2 DEF Stamp, Unstamped
    <3>2. req[w].stamps \in Seq(Time)
      BY <2>1 DEF Calls
    <3>3. CallClock(req[w]) /\ day \in Nat /\ tod \in Nat /\ req[w].left \in Nat
      BY <2>1 DEF CallInv, Calls, StoreTypeOK, TypeOK
    <3>4. Filed(req[w].table, <<day, tod>>) /\ Past(<<day, tod>>)
      BY <3>3 DEF CallClock, Filed, Past, Before
    <3>8. req'[w].stamps = Append(req[w].stamps, <<day, tod>>)
      BY <2>1, <2>2, CallEffects
    <3>5. \A i \in 1..Len(req'[w].stamps) :
            Filed(req[w].table, req'[w].stamps[i]) /\ Past(req'[w].stamps[i])
      <4>1. \A i \in 1..Len(req[w].stamps) :
              Filed(req[w].table, req[w].stamps[i]) /\ Past(req[w].stamps[i])
        BY <2>1 DEF CallInv
      <4>2. ASSUME NEW i \in 1..Len(req'[w].stamps)
            PROVE  req'[w].stamps[i] = <<day, tod>>
                   \/ (i \in 1..Len(req[w].stamps) /\ req'[w].stamps[i] = req[w].stamps[i])
        <5>1. <<day, tod>> \in Time
          BY DEF StoreTypeOK, TypeOK, Time
        <5>2. i \in 1..Len(Append(req[w].stamps, <<day, tod>>))
          BY <3>8
        <5>3. Append(req[w].stamps, <<day, tod>>)[i] = <<day, tod>>
              \/ (i \in 1..Len(req[w].stamps)
                  /\ Append(req[w].stamps, <<day, tod>>)[i] = req[w].stamps[i])
          <6> HIDE DEF StoreInv
          <6> QED
            BY ONLY <3>2, <5>1, <5>2, AppendElements
        <5> QED
          BY ONLY <3>8, <5>3
      <4> HIDE DEF Filed, Past
      <4> QED
        BY <3>4, <4>1, <4>2
    <3>6. Len(req'[w].stamps) <= size[req[w].batch]
      <4>1. Len(req'[w].stamps) = Len(req[w].stamps) + 1 /\ Len(req[w].stamps) \in Nat
        BY <3>2, <3>8
      <4>2. size[req[w].batch] \in Nat
        BY <2>1 DEF Calls, StoreTypeOK
      <4> QED
        BY <3>1, <4>1, <4>2
    <3>7. /\ req'[w].batch = req[w].batch /\ req'[w].table = req[w].table
          /\ req'[w].left = req[w].left /\ req'[w].step = "stamping"
          /\ req'[w].next = req[w].next /\ req'[w].bad = req[w].bad
      BY <2>1, <2>2, CallEffects
    <3> HIDE DEF StoreInv
    <3> QED
      BY <1>1, <2>1, <3>1, <3>5, <3>6, <3>7
      DEF CallInv, CallClock, Filed, Past, Before, dailyVars
  <2>3. CASE Prepare(w)
    BY <1>1, <2>1, <2>3, CallEffects
    DEF Prepare, Stamped, CallInv, CallClock, Filed, Past, Before, StoreTypeOK, dailyVars, tableVars
  <2>4. CASE ExecuteRow(w) \/ RejectRow(w)
    <3>1. /\ req'[w].batch = req[w].batch /\ req'[w].table = req[w].table
          /\ req'[w].left = req[w].left /\ req'[w].step = "executing"
          /\ req'[w].next = req[w].next + 1 /\ req'[w].stamps = req[w].stamps
          /\ ~ req'[w].bad => ~ req[w].bad /\ ExecuteRow(w)
      BY <2>1, <2>4, CallEffects
    <3>2. req[w].step = "executing" /\ req[w].next <= size[req[w].batch]
      BY <2>4 DEF ExecuteRow, RejectRow, Executing
    <3>3. req[w].next \in Nat /\ \A q \in rows : q.pos \in Nat
      BY <2>1, SMTT(30) DEF Calls, StoreTypeOK, Rows
    <3>0. rows' = rows \/ (ExecuteRow(w) /\ \E x :
            x.batch = req[w].batch /\ x.pos = req[w].next /\ rows' = rows \cup {x})
      BY <2>4 DEF ExecuteRow, RejectRow
    <3>4. \A q \in rows' : q.batch = req[w].batch => q.pos < req[w].next + 1
      <4>1. \A q \in rows : q.batch = req[w].batch => q.pos < req[w].next
        BY <2>1 DEF CallInv
      <4> QED
        BY <3>0, <3>3, <4>1
    <3>5. ExecuteRow(w) => \E q \in rows' : q.batch = req[w].batch /\ q.pos = req[w].next
      <4>1. ExecuteRow(w) => \E x :
              x.batch = req[w].batch /\ x.pos = req[w].next /\ rows' = rows \cup {x}
        BY DEF ExecuteRow
      <4> QED
        BY <4>1
    <3>6. rows \subseteq rows'
      BY <3>0
    <3>7. ~ req'[w].bad =>
            \A i \in 1..req[w].next : \E q \in rows' : q.batch = req[w].batch /\ q.pos = i
      BY <2>1, <3>1, <3>3, <3>5, <3>6 DEF CallInv
    <3>8. size[req[w].batch] \in Nat
      BY <2>1 DEF Calls, StoreTypeOK
    <3> HIDE DEF StoreInv
    <3>9. CallClock(req[w])' /\ req'[w].next <= size'[req'[w].batch] + 1
      BY <1>1, <2>1, <3>1, <3>2, <3>3, <3>8 DEF CallInv, CallClock, dailyVars
    <3>10. \A i \in 1..Len(req'[w].stamps) :
             (Filed(req[w].table, req[w].stamps[i]) /\ Past(req[w].stamps[i]))'
      BY <1>1, <2>1, <3>1 DEF CallInv, Filed, Past, Before, dailyVars
    <3>11. /\ Len(req'[w].stamps) = size'[req'[w].batch]
           /\ req'[w].table \in tables'
      BY <1>1, <2>1, <3>1, <3>2 DEF CallInv, dailyVars, tableVars
    <3>12. req'[w].next - 1 = req[w].next
      BY <3>1, <3>3
    <3> QED
      BY <3>1, <3>4, <3>7, <3>8, <3>9, <3>10, <3>11, <3>12, <2>1 DEF CallInv
  <2> QED
    BY <1>4, <2>2, <2>3, <2>4
<1> QED
  BY <1>2, <1>3, <1>4 DEF WorkerStep, Malformed, PrepareFails, Finish

\* A row that a call adds is the first of its sample and is filed with it.
LEMMA WorkerRows ==
  ASSUME StoreInv, NEW w \in Workers, WorkerStep(w)
  PROVE  RowsInv'
<1> USE ConstantsAssumption, StoreAssumption DEF StoreInv
<1>1. UNCHANGED dailyVars
  BY WorkerKeeps
<1>2. \A q \in rows : q.batch \in Batches /\ q.pos \in Nat
  BY DEF StoreTypeOK, Rows
<1>3. CASE ExecuteRow(w)
  <2>1. /\ req[w] \in Calls /\ CallInv(w) /\ req[w].step = "executing"
        /\ req[w].next <= size[req[w].batch] /\ status' = status /\ size' = size
        /\ status[req[w].batch] = "open"
    BY <1>3, ActiveIsCall DEF ExecuteRow, Executing, Active, CallsInv, CallOwns
  <2>2. PICK x : /\ rows' = rows \cup {x}
                 /\ x.batch = req[w].batch /\ x.pos = req[w].next
                 /\ x.table = req[w].table /\ x.stamp = req[w].stamps[req[w].next]
    <3> DEFINE new(again) == [batch |-> req[w].batch, pos |-> req[w].next,
                              table |-> req[w].table,
                              stamp |-> req[w].stamps[req[w].next], again |-> again]
    <3>1. rows' = rows \cup {new(\E q \in rows : q.batch = req[w].batch /\ q.pos = req[w].next)}
      BY <1>3 DEF ExecuteRow
    <3>2. \A again : /\ new(again).batch = req[w].batch /\ new(again).pos = req[w].next
                     /\ new(again).table = req[w].table
                     /\ new(again).stamp = req[w].stamps[req[w].next]
      OBVIOUS
    <3> HIDE DEF new, StoreInv
    <3> QED
      BY <3>1, <3>2
  <2>3. req[w].next \in 1..Len(req[w].stamps)
    BY <2>1 DEF CallInv, Calls, StoreTypeOK
  <2>4. Filed(x.table, x.stamp) /\ Past(x.stamp) /\ x.table \in tables
    <3> HIDE DEF StoreInv
    <3> QED
      BY <2>1, <2>2, <2>3 DEF CallInv
  <2>5. \A q \in rows : q.batch = x.batch => q.pos # x.pos
    BY <1>2, <2>1, <2>2 DEF CallInv, Calls
  <2>6. /\ \A q \in rows : Filed(q.table, q.stamp) /\ Past(q.stamp) /\ q.table \in tables
        /\ \A q \in rows : status[q.batch] # "new" /\ q.pos <= size[q.batch]
        /\ \A p, q \in rows : p.batch = q.batch /\ p.pos = q.pos => p = q
    BY DEF RowsInv
  <2> HIDE DEF StoreInv
  <2> QED
    BY <1>1, <2>1, <2>2, <2>4, <2>5, <2>6
    DEF RowsInv, Past, Before, Filed, dailyVars, tableVars
<1>4. CASE rows' = rows
  <2>1. \A q \in rows : status'[q.batch] # "new" /\ size'[q.batch] = size[q.batch]
    <3>1. ASSUME NEW b \in Batches, NEW n \in 0..MaxRows, Receive(w, b, n), NEW q \in rows
          PROVE  status'[q.batch] # "new" /\ size'[q.batch] = size[q.batch]
      BY <1>2, <3>1 DEF Receive, RowsInv, StoreTypeOK
    <3>2. ASSUME NEW a \in {"ok", "error"}, Respond(w, a), NEW q \in rows
          PROVE  status'[q.batch] # "new" /\ size'[q.batch] = size[q.batch]
      BY <1>2, <3>2 DEF Respond, RowsInv, StoreTypeOK
    <3>3. CASE status' = status /\ size' = size
      BY <3>3 DEF RowsInv
    <3> QED
      BY <3>1, <3>2, <3>3 DEF WorkerStep, Stamp, Malformed, PrepareFails, Prepare,
        ExecuteRow, RejectRow, Finish
  <2> QED
    BY <1>1, <1>4, <2>1 DEF RowsInv, Past, Before, Filed, dailyVars, tableVars
<1> QED
  BY <1>3, <1>4 DEF WorkerStep, Receive, Stamp, Malformed, PrepareFails, Prepare,
    RejectRow, Finish, Respond

\* Every step of a worker preserves the invariant.
LEMMA WorkerInv ==
  ASSUME StoreInv, NEW w \in Workers, WorkerStep(w)
  PROVE  StoreInv'
<1>1. Inv'
  BY WorkerKeeps, NextInv DEF StoreInv
<1>2. CallsInv'
  <2> SUFFICES ASSUME NEW v \in Workers, Active(v)' PROVE CallInv(v)'
    BY DEF CallsInv
  <2>1. CASE v = w
    BY <2>1, OwnInv
  <2>2. CASE v # w
    <3>1. Active(v)
      BY <2>2, OthersKeep DEF Active
    <3> QED
      BY <2>2, <3>1, OthersInv
  <2> QED
    BY <2>1, <2>2
<1> QED
  BY <1>1, <1>2, WorkerType, WorkerOwns, WorkerRows DEF StoreInv

\* The clock moves: a call that named yesterday's table has little time left.
LEMMA TickInv == StoreInv /\ StoreTick => StoreInv'
<1> SUFFICES ASSUME StoreInv, StoreTick PROVE StoreInv'
  OBVIOUS
<1> USE ConstantsAssumption, StoreAssumption DEF StoreInv, StoreTick
<1>1. Inv' /\ TypeOK' /\ tables' = tables /\ AdvanceClock
  <2>1. Tick
    OBVIOUS
  <2>2. Inv'
    BY <2>1, NextInv DEF Next
  <2> QED
    BY <2>1, <2>2 DEF Inv, Tick, tableVars
<1>2. ASSUME NEW v \in Workers
      PROVE  /\ Active(v)' <=> Active(v)
             /\ Active(v) => /\ req[v] \in Calls /\ req[v].left > 0
                             /\ req'[v] = [req[v] EXCEPT !.left = req[v].left - 1]
                             /\ req'[v] \in Calls
             /\ ~ Active(v) => req'[v] = req[v]
  <2>1. CASE Active(v)
    <3>1. req[v] \in Calls /\ req[v].left > 0
      BY <2>1, ActiveIsCall
    <3>2. req'[v] = [req[v] EXCEPT !.left = req[v].left - 1]
      BY <2>1
    <3>3. req[v].left - 1 \in 0..MaxInsert
      <4>1. req[v].left \in 0..MaxInsert
        BY <3>1, Zenon DEF Calls
      <4>2. \A n \in 0..MaxInsert : n > 0 => n - 1 \in 0..MaxInsert
        BY StoreAssumption
      <4> QED BY <3>1, <4>1, <4>2, Zenon
    <3>4. [req[v] EXCEPT !.left = req[v].left - 1] \in Calls
      BY <3>1, <3>3 DEF Calls
    <3> QED
      BY <2>1, <3>1, <3>2, <3>4 DEF Active, Calls
  <2>2. CASE ~ Active(v)
    BY <2>2 DEF Active
  <2> QED
    BY <2>1, <2>2
<1>3. StoreTypeOK'
  <2>1. req' \in [Workers -> Calls \cup {Idle}]
    BY <1>2 DEF StoreTypeOK
  <2>2. \A v \in Workers : Active(v)' => Len(req'[v].stamps) <= MaxRows
    BY <1>2 DEF StoreTypeOK, Calls
  <2> QED
    BY <1>1, <2>1, <2>2 DEF StoreTypeOK
<1>4. CallOwns'
  <2>1. \A v \in Workers : Active(v)' => Active(v) /\ req'[v].batch = req[v].batch
    BY <1>2 DEF Calls
  <2>2. status' = status /\ CallOwns
    OBVIOUS
  <2> HIDE DEF StoreInv, StoreTick
  <2> QED
    BY <2>1, <2>2 DEF CallOwns
<1>5. \A t \in Time : Past(t) => ~ Before(day', tod', t[1], t[2])
  <2> SUFFICES ASSUME NEW t \in Time, Past(t) PROVE ~ Before(day', tod', t[1], t[2])
    OBVIOUS
  <2>1. t[1] \in Nat /\ t[2] \in 0..(DayLen - 1)
    BY DEF Time
  <2>2. day \in Nat /\ tod \in 0..(DayLen - 1)
    BY DEF StoreTypeOK, TypeOK
  <2> QED
    BY <1>1, <2>1, <2>2 DEF Past, Before, AdvanceClock
<1>6. CallsInv'
  <2> SUFFICES ASSUME NEW v \in Workers, Active(v) PROVE CallInv(v)'
    BY <1>2 DEF CallsInv
  <2>1. /\ req'[v].batch = req[v].batch /\ req'[v].table = req[v].table
        /\ req'[v].step = req[v].step /\ req'[v].next = req[v].next
        /\ req'[v].stamps = req[v].stamps /\ req'[v].bad = req[v].bad
        /\ req'[v].left = req[v].left - 1
        /\ req[v] \in Calls /\ req[v].left > 0 /\ CallInv(v)
    BY <1>2 DEF Calls, CallsInv
  <2>2. day \in Nat /\ tod \in 0..(DayLen - 1) /\ req[v].left \in 0..MaxInsert /\ req[v].table \in Nat
    BY <2>1 DEF Calls, StoreTypeOK, TypeOK
  <2>3. CallClock(req[v])'
    <3>1. CallClock(req[v])
      BY <2>1 DEF CallInv
    <3> HIDE DEF StoreInv, StoreTick
    <3> QED
      BY <1>1, <2>1, <2>2, <3>1 DEF CallClock, AdvanceClock
  <2>4. (\A i \in 1..Len(req[v].stamps) :
           Filed(req[v].table, req[v].stamps[i]) /\ Past(req[v].stamps[i]))'
    <3>1. \A i \in 1..Len(req[v].stamps) :
            /\ req[v].stamps[i] \in Time
            /\ Filed(req[v].table, req[v].stamps[i]) /\ Past(req[v].stamps[i])
      BY <2>1, SMTT(30) DEF Calls, CallInv
    <3> HIDE DEF StoreInv, StoreTick
    <3> QED
      BY <1>5, <2>1, <3>1 DEF Filed, Past
  <2>5. rows' = rows /\ size' = size
    OBVIOUS
  <2> HIDE DEF StoreInv, StoreTick
  <2> QED
    BY <1>1, <2>1, <2>3, <2>4, <2>5 DEF CallInv
<1>7. RowsInv'
  <2>1. \A q \in rows : q.stamp \in Time
    BY DEF StoreTypeOK, Rows
  <2> QED
    BY <1>1, <1>5, <2>1 DEF RowsInv, Filed, Past
<1> QED
  BY <1>1, <1>3, <1>4, <1>6, <1>7

\* Steps that leave the calls and the rows alone: those of the job, and none at all.
LEMMA QuietInv ==
  ASSUME StoreInv, [Next]_dailyVars, UNCHANGED storeVars,
         day' = day, tod' = tod, tables \subseteq tables'
  PROVE  StoreInv'
<1>1. Inv'
  BY NextInv DEF StoreInv
<1>2. StoreTypeOK' /\ CallOwns' /\ RowsInv'
  BY <1>1 DEF Inv, StoreInv, StoreTypeOK, CallOwns, RowsInv, Active, Filed, Past, Before, storeVars
<1>3. CallsInv'
  BY DEF StoreInv, CallsInv, CallInv, Active, CallClock, Filed, Past, Before, storeVars
<1> QED
  BY <1>1, <1>2, <1>3 DEF StoreInv

\* The initial state satisfies the invariant.
LEMMA InitStoreInv == StoreInit => StoreInv
<1> SUFFICES ASSUME StoreInit PROVE StoreInv
  OBVIOUS
<1> USE StoreAssumption DEF StoreInit
<1>1. Inv
  BY InitInv
<1>2. StoreTypeOK
  BY <1>1 DEF Inv, StoreTypeOK, Active, Idle
<1>3. CallOwns /\ CallsInv /\ RowsInv
  BY DEF CallOwns, CallsInv, RowsInv, Active, Idle
<1> QED
  BY <1>1, <1>2, <1>3 DEF StoreInv

\* Every step of the store preserves the invariant.
LEMMA NextStoreInv == StoreInv /\ [StoreNext]_vars => StoreInv'
<1> SUFFICES ASSUME StoreInv, [StoreNext]_vars PROVE StoreInv'
  OBVIOUS
<1>1. CASE StoreTick
  BY <1>1, TickInv
<1>2. ASSUME NEW c \in Contexts, JobStep(c), UNCHANGED storeVars PROVE StoreInv'
  BY <1>2, QuietInv, JobKeeps DEF Next
<1>3. CASE \E w \in Workers : WorkerStep(w)
  BY <1>3, WorkerInv
<1>4. CASE StoreRestart
  <2> USE <1>4 DEF StoreRestart
  <2>1. Inv' /\ TypeOK'
    BY NextInv DEF StoreInv, Inv, Next
  <2>2. StoreTypeOK'
    BY <2>1 DEF StoreInv, StoreTypeOK, Active, Idle
  <2>3. CallOwns' /\ CallsInv'
    BY DEF CallOwns, CallsInv, Active, Idle
  <2>4. RowsInv'
    BY DEF StoreInv, RowsInv, Filed, Past, Before, Restart, tableVars
  <2> QED
    BY <2>1, <2>2, <2>3, <2>4 DEF StoreInv
<1>5. CASE (Horizon /\ UNCHANGED storeVars) \/ UNCHANGED vars
  BY <1>5, QuietInv DEF Horizon, vars, dailyVars, tableVars
<1> QED
  BY <1>1, <1>2, <1>3, <1>4, <1>5 DEF StoreNext

\* The reachable states of the store satisfy the invariant.
THEOREM StoreInvariance == StoreSpec => []StoreInv
BY InitStoreInv, NextStoreInv, PTL DEF StoreSpec

\* The variables of the store keep their types: no call outgrows its array, and every
\* row belongs to an array that was received (MonitorHandler._add, AppMonitorDao.insert).
THEOREM StoreTypeCorrect == StoreSpec => []StoreTypeOK
<1>1. StoreInv => StoreTypeOK
  BY DEF StoreInv
<1> QED
  BY <1>1, StoreInvariance, PTL

\* No sample is stored twice, nor in a table that does not exist.
THEOREM NeverDuplicate == StoreSpec => []NoDuplicate
<1>1. StoreInv => NoDuplicate
  BY DEF StoreInv, RowsInv, NoDuplicate
<1> QED
  BY <1>1, StoreInvariance, PTL

\* Away from midnight, a report asked for no period misses no row of the last hour.
THEOREM ReportAlwaysShowsLastHour == StoreSpec => []ReportShowsLastHour
<1>1. StoreInv => ReportShowsLastHour
  <2> SUFFICES ASSUME StoreInv, Hour + MaxInsert <= tod, NEW r \in Since(HourAgo)
               PROVE  r.table = day
    BY DEF ReportShowsLastHour, DefaultReport
  <2> USE ConstantsAssumption, StoreAssumption
  <2>1. r \in rows /\ Filed(r.table, r.stamp) /\ Past(r.stamp)
    BY DEF Since, StoreInv, RowsInv
  <2>2. /\ day \in Nat /\ tod \in Nat /\ r.table \in Nat
        /\ r.stamp[1] \in Nat /\ r.stamp[2] \in Nat
    <3>1. day \in Nat /\ tod \in Nat
      BY DEF StoreInv, StoreTypeOK, TypeOK
    <3>2. r \in Rows
      BY <2>1 DEF StoreInv, StoreTypeOK
    <3>3. r.table \in 0..LastDay /\ r.stamp \in Time
      BY <3>2 DEF Rows
    <3> QED BY <3>1, <3>3 DEF Time
  <2>3. ~ Before(r.stamp[1], r.stamp[2], day, tod - Hour)
    BY <2>2 DEF Since, HourAgo
  <2> QED
    BY <2>1, <2>2, <2>3 DEF Filed, Past, Before
<1> QED
  BY <1>1, StoreInvariance, PTL

\* Every step of the store is one of SampleLog, or none, seen through the mapping.
LEMMA StepKeepsPromise ==
  StoreInv /\ [StoreNext]_vars => [Log!LogNext]_(Log!logVars)
<1> SUFFICES ASSUME StoreInv, [StoreNext]_vars PROVE [Log!LogNext]_(Log!logVars)
  OBVIOUS
<1> DEFINE stored == {<<r.batch, r.pos>> : r \in rows}
<1> USE DEF Log!logVars
<1>1. CASE UNCHANGED <<size, status, rows>>
  BY <1>1
<1>2. ASSUME NEW w \in Workers, NEW b \in Batches, NEW n \in 0..MaxRows, Receive(w, b, n)
      PROVE  Log!LogNext
  BY <1>2 DEF Receive, Log!LogNext, Log!Send
<1>3. ASSUME NEW w \in Workers, ExecuteRow(w)
      PROVE  Log!LogNext
  <2>0. /\ req[w] \in Calls /\ CallInv(w) /\ status[req[w].batch] = "open"
        /\ req[w].batch \in Batches
    BY <1>3, ActiveIsCall
    DEF ExecuteRow, Executing, Active, StoreInv, CallsInv, CallOwns, Calls
  <2> PICK b \in Batches : b = req[w].batch
    BY <2>0
  <2> DEFINE s == <<b, req[w].next>>
  <2>1. req[w] \in Calls /\ CallInv(w) /\ status[b] = "open"
    BY <2>0
  <2>2. b \in Batches /\ req[w].next \in 1..size[b]
    BY <1>3, <2>1 DEF ExecuteRow, Executing, Calls, StoreInv, StoreTypeOK
  <2>3. s \notin stored
    BY <2>1, <2>2 DEF CallInv, StoreInv, StoreTypeOK, Rows
  <2>4. stored' = stored \cup {s}
    <3>1. PICK x : rows' = rows \cup {x} /\ x.batch = req[w].batch /\ x.pos = req[w].next
      <4> DEFINE new(again) == [batch |-> req[w].batch, pos |-> req[w].next,
                                table |-> req[w].table,
                                stamp |-> req[w].stamps[req[w].next], again |-> again]
      <4>1. rows' = rows \cup {new(\E q \in rows : q.batch = req[w].batch /\ q.pos = req[w].next)}
        BY <1>3 DEF ExecuteRow
      <4>2. \A again : new(again).batch = req[w].batch /\ new(again).pos = req[w].next
        OBVIOUS
      <4> HIDE DEF new
      <4> QED
        BY <4>1, <4>2
    <3> QED
      BY <3>1
  <2>5. s \in Log!Samples(b) \ stored
    BY <2>2, <2>3 DEF Log!Samples
  <2>6. UNCHANGED <<size, status>>
    BY <1>3 DEF ExecuteRow
  <2>7. Log!Store(b)
    <3> HIDE DEF s
    <3> QED
      BY <2>1, <2>4, <2>5, <2>6 DEF Log!Store
  <2> QED
    BY <2>7 DEF Log!LogNext
<1>4. ASSUME NEW w \in Workers, NEW a \in {"ok", "error"}, Respond(w, a), Active(w),
             a = "ok" => Finish(w) /\ ~ req[w].bad
      PROVE  Log!LogNext
  <2> DEFINE b == req[w].batch
  <2>1. req[w] \in Calls /\ CallInv(w) /\ status[b] = "open" /\ b \in Batches
    BY <1>4, ActiveIsCall DEF StoreInv, CallsInv, CallOwns, Calls
  <2>2. ASSUME a = "ok" PROVE Log!Samples(b) \subseteq stored
    <3>1. req[w].next = size[b] + 1 /\ size[b] \in Nat /\ ~ req[w].bad
      BY <1>4, <2>1, <2>2 DEF Finish, Executed, CallInv, Calls, StoreInv, StoreTypeOK
    <3>2. \A i \in 1..size[b] : \E q \in rows : q.batch = b /\ q.pos = i
      BY <2>1, <3>1 DEF CallInv
    <3> QED
      BY <3>2 DEF Log!Samples
  <2>3. status' = [status EXCEPT ![b] = a] /\ UNCHANGED <<size, rows>>
    BY <1>4 DEF Respond
  <2>4. Log!Answer(b)
    BY <2>1, <2>2, <2>3 DEF Log!Answer
  <2> QED
    BY <2>1, <2>4 DEF Log!LogNext
<1>5. CASE \E w \in Workers : WorkerStep(w)
  <2> SUFFICES ASSUME NEW w \in Workers, WorkerStep(w) PROVE [Log!LogNext]_(Log!logVars)
    BY <1>5
  <2>1. CASE Malformed(w) \/ PrepareFails(w)
    BY <1>4, <2>1 DEF Malformed, PrepareFails, Unstamped, Stamped, Active
  <2>2. CASE Finish(w)
    BY <1>4, <2>2 DEF Finish, Executed, Active
  <2>3. CASE Stamp(w) \/ Prepare(w) \/ RejectRow(w)
    BY <1>1, <2>3 DEF Stamp, Prepare, RejectRow
  <2> QED
    BY <1>2, <1>3, <2>1, <2>2, <2>3 DEF WorkerStep
<1> QED
  BY <1>1, <1>5 DEF StoreNext, StoreTick, StoreRestart, storeVars, vars

\* Calls of AppMonitorDao.insert implement SampleLog: an answer without an error means
\* that every sample of the array is stored, once, and nothing is stored afterwards.
THEOREM PromiseKept == StoreSpec => KeepsPromise
<1>1. StoreInit => Log!LogInit
  BY DEF StoreInit, Log!LogInit
<1> QED
  BY <1>1, StepKeepsPromise, StoreInvariance, PTL DEF StoreSpec, KeepsPromise, Log!LogSpec

===============================================================================
