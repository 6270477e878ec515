------------------------------ MODULE DailyTables ------------------------------
(* The table-per-day store of samples and the scheduled job that prepares it.   *)
(*                                                                              *)
(* Job.createDay runs at a fixed rate of one day in every Spring context of the *)
(* process, first when the context starts.  It calls AppMonitorDao.create,      *)
(* which reads the clock and creates the table and the indexes of today in one  *)
(* batch of autocommitted statements, then reads the clock again and creates    *)
(* those of tomorrow.  Contexts, statements, failures of statements, the clock  *)
(* and restarts of the process interleave freely; the tables are on disk and    *)
(* survive a restart.                                                           *)
EXTENDS Naturals

CONSTANTS
  Contexts,     \* the Spring contexts that load applicationContext.xml
  WebContext,   \* the one the ContextLoaderListener of web.xml starts
  DayLen,       \* ticks of the clock in a day
  MaxLate,      \* ticks after its due time by which a run of the job is over
  NumIndexes,   \* indexes the batch creates on each table (3 in the source)
  LastDay,      \* bound: the clock stops at the end of this day
  MaxFaults,    \* bound: statements and connections that fail
  MaxRestarts   \* bound: restarts of the process

ASSUME ConstantsAssumption ==
  /\ WebContext \in Contexts
  /\ DayLen \in Nat \ {0}
  /\ MaxLate \in Nat
  /\ MaxLate < DayLen
  /\ NumIndexes \in Nat
  /\ LastDay \in Nat
  /\ MaxFaults \in Nat
  /\ MaxRestarts \in Nat

VARIABLES
  day, tod,     \* the clock: the day, and the tick within it
  job,          \* job[c]: where the run of createDay stands in context c
  stmt,         \* stmt[c]: statements of the current batch already executed
  target,       \* target[c]: the day whose table the current batch creates
  bad,          \* bad[c]: a statement of the current batch has failed
  dueDay, phase,\* the due time of the next (or current) run of c: day and tick
  last,         \* last[c]: how the latest run of c since its start ended
  tables,       \* the days that have a table
  index,        \* index[i]: the day on whose table the i-th index name stands
  faults, restarts

jobVars == <<job, stmt, target, bad, dueDay, phase, last>>
tableVars == <<tables, index>>
dailyVars == <<day, tod, jobVars, tableVars, faults, restarts>>

Indexes == 1..NumIndexes
NoDay == LastDay + 2
Running == {"today", "tomorrow"}

TypeOK ==
  /\ day \in 0..LastDay
  /\ tod \in 0..(DayLen - 1)
  /\ job \in [Contexts -> {"off", "idle"} \cup Running]
  /\ stmt \in [Contexts -> 0..(NumIndexes + 1)]
  /\ target \in [Contexts -> 0..(LastDay + 1)]
  /\ bad \in [Contexts -> BOOLEAN]
  /\ dueDay \in [Contexts -> 0..(LastDay + 1)]
  /\ phase \in [Contexts -> 0..(DayLen - 1)]
  /\ last \in [Contexts -> {"none", "ok", "failed"}]
  /\ tables \subseteq 0..(LastDay + 1)
  /\ index \in [Indexes -> 0..NoDay]
  /\ faults \in 0..MaxFaults
  /\ restarts \in 0..MaxRestarts

--------------------------------------------------------------------------------
(* Time.                                                                        *)

Before(d1, t1, d2, t2) == d1 < d2 \/ (d1 = d2 /\ t1 < t2)

Due(c) == ~ Before(day, tod, dueDay[c], phase[c])

\* The last moment at which the run due next may still be going on.
DeadlineDay(c) == IF phase[c] + MaxLate < DayLen THEN dueDay[c] ELSE dueDay[c] + 1
DeadlineTick(c) == IF phase[c] + MaxLate < DayLen THEN phase[c] + MaxLate
                                                  ELSE phase[c] + MaxLate - DayLen

\* The clock advances unless that would take a run of the job past its deadline.
RunsInTime ==
  \A c \in Contexts : job[c] # "off" => Before(day, tod, DeadlineDay(c), DeadlineTick(c))

AdvanceClock ==
  \/ tod + 1 < DayLen /\ tod' = tod + 1 /\ day' = day
  \/ tod + 1 = DayLen /\ day < LastDay /\ tod' = 0 /\ day' = day + 1

Tick ==
  /\ RunsInTime
  /\ AdvanceClock
  /\ UNCHANGED <<jobVars, tableVars, faults, restarts>>

--------------------------------------------------------------------------------
(* The job, in each context.                                                    *)

\* A context starts: the listener's with the process, the others on demand once
\* the server takes requests.  The first run of createDay is due at once.
StartContext(c) ==
  /\ job[c] = "off"
  /\ c # WebContext => job[WebContext] # "off"
  /\ job' = [job EXCEPT ![c] = "idle"]
  /\ dueDay' = [dueDay EXCEPT ![c] = day]
  /\ phase' = [phase EXCEPT ![c] = tod]
  /\ UNCHANGED <<day, tod, stmt, target, bad, last, tableVars, faults, restarts>>

StartBatch(c, which, d) ==
  /\ job' = [job EXCEPT ![c] = which]
  /\ target' = [target EXCEPT ![c] = d]
  /\ stmt' = [stmt EXCEPT ![c] = 0]
  /\ bad' = [bad EXCEPT ![c] = FALSE]
  /\ UNCHANGED <<day, tod, dueDay, phase, last, tableVars, faults, restarts>>

\* create(): the first reading of the clock names the table of today.
ReadToday(c) == job[c] = "idle" /\ Due(c) /\ StartBatch(c, "today", day)

BatchDone(c) == job[c] = "today" /\ stmt[c] > NumIndexes /\ ~ bad[c]

\* Mutants of ReadTomorrow: a day too few, a day too many.
ReadTomorrowToday(c) == BatchDone(c) /\ StartBatch(c, "tomorrow", day)
ReadTomorrowAfter(c) == BatchDone(c) /\ StartBatch(c, "tomorrow", day + 2)

\* The second reading of the clock, after the first batch, names that of tomorrow.
ReadTomorrow(c) == BatchDone(c) /\ StartBatch(c, "tomorrow", day + 1)

InBatch(c) == job[c] \in Running /\ stmt[c] <= NumIndexes

NextStatement(c) == stmt' = [stmt EXCEPT ![c] = @ + 1]

\* CREATE TABLE IF NOT EXISTS for the target day.
CreateTable(c) ==
  /\ InBatch(c)
  /\ stmt[c] = 0
  /\ tables' = tables \cup {target[c]}
  /\ NextStatement(c)
  /\ UNCHANGED <<day, tod, job, target, bad, dueDay, phase, last, index, faults, restarts>>

\* Mutant of PutIndex: the name is put on the table of the following day.
PutIndexAhead(i, d) == index' = [index EXCEPT ![i] = IF @ = NoDay THEN d + 1 ELSE @]

\* CREATE INDEX IF NOT EXISTS: the names are the same for every table and live in
\* the schema, so the statement does nothing once any table carries the index.
PutIndex(i, d) == index' = [index EXCEPT ![i] = IF @ = NoDay THEN d ELSE @]

\* The statement fails when the table is missing, whether or not the index exists.
CreateIndex(c) ==
  /\ InBatch(c)
  /\ stmt[c] \in Indexes
  /\ IF target[c] \in tables
       THEN PutIndex(stmt[c], target[c]) /\ bad' = bad
       ELSE index' = index /\ bad' = [bad EXCEPT ![c] = TRUE]
  /\ NextStatement(c)
  /\ UNCHANGED <<day, tod, job, target, dueDay, phase, last, tables, faults, restarts>>

RecordFailure(c) ==
  /\ faults < MaxFaults
  /\ faults' = faults + 1
  /\ bad' = [bad EXCEPT ![c] = TRUE]

\* A statement fails (lock timeout, I/O); the batch goes on with the next one.
FailStatement(c) ==
  /\ InBatch(c)
  /\ RecordFailure(c)
  /\ NextStatement(c)
  /\ UNCHANGED <<day, tod, job, target, dueDay, phase, last, tableVars, restarts>>

\* The batch gets no connection, and none of its statements runs.
FailConnection(c) ==
  /\ job[c] \in Running
  /\ stmt[c] = 0
  /\ RecordFailure(c)
  /\ stmt' = [stmt EXCEPT ![c] = NumIndexes + 1]
  /\ UNCHANGED <<day, tod, job, target, dueDay, phase, last, tableVars, restarts>>

\* The run returns, or leaves with the exception of a batch that had a failure,
\* which the scheduler logs; either way the next one is due a day after this one was.
EndRun(c) ==
  /\ job[c] \in Running
  /\ stmt[c] > NumIndexes
  /\ job[c] = "tomorrow" \/ bad[c]
  /\ job' = [job EXCEPT ![c] = "idle"]
  /\ last' = [last EXCEPT ![c] = IF bad[c] THEN "failed" ELSE "ok"]
  /\ dueDay' = [dueDay EXCEPT ![c] = @ + 1]
  /\ UNCHANGED <<day, tod, stmt, target, bad, phase, tableVars, faults, restarts>>

\* Mutant of Restart: the database of applicationContext.xml is one in memory.
RestartInMemory ==
  /\ restarts < MaxRestarts
  /\ restarts' = restarts + 1
  /\ job' = [c \in Contexts |-> "off"]
  /\ last' = [c \in Contexts |-> "none"]
  /\ stmt' = [c \in Contexts |-> 0]
  /\ bad' = [c \in Contexts |-> FALSE]
  /\ tables' = {}
  /\ index' = [i \in Indexes |-> NoDay]
  /\ UNCHANGED <<day, tod, target, dueDay, phase, faults>>

\* The process stops at any point and starts anew; only the database survives.
Restart ==
  /\ restarts < MaxRestarts
  /\ restarts' = restarts + 1
  /\ job' = [c \in Contexts |-> "off"]
  /\ last' = [c \in Contexts |-> "none"]
  /\ stmt' = [c \in Contexts |-> 0]
  /\ bad' = [c \in Contexts |-> FALSE]
  /\ UNCHANGED <<day, tod, target, dueDay, phase, tableVars, faults>>

JobStep(c) ==
  \/ StartContext(c)
  \/ ReadToday(c)
  \/ CreateTable(c)
  \/ CreateIndex(c)
  \/ FailStatement(c)
  \/ FailConnection(c)
  \/ ReadTomorrow(c)
  \/ EndRun(c)

--------------------------------------------------------------------------------
Init ==
  /\ day = 0
  /\ tod = 0
  /\ job = [c \in Contexts |-> "off"]
  /\ stmt = [c \in Contexts |-> 0]
  /\ target = [c \in Contexts |-> 0]
  /\ bad = [c \in Contexts |-> FALSE]
  /\ dueDay = [c \in Contexts |-> 0]
  /\ phase = [c \in Contexts |-> 0]
  /\ last = [c \in Contexts |-> "none"]
  /\ tables = {}
  /\ index = [i \in Indexes |-> NoDay]
  /\ faults = 0
  /\ restarts = 0

\* The end of the bounded history: nothing is left to happen but by the clock.
Horizon == day = LastDay /\ tod + 1 = DayLen /\ UNCHANGED dailyVars

Next ==
  \/ Tick
  \/ \E c \in Contexts : JobStep(c)
  \/ Restart
  \/ Horizon

Spec == Init /\ [][Next]_dailyVars

--------------------------------------------------------------------------------
(* Properties.                                                                  *)

\* A run of c that keeps to its deadline ends on the day on which it began.
SameDay(c) == phase[c] + MaxLate < DayLen

\* While a context's latest run succeeded and its runs do not straddle midnight, the
\* table that AppMonitorDao.insert and MonitorHandler.report name for the current
\* day exists at every moment, the ones after midnight and before the next run
\* included, whatever the other contexts, failed runs and restarts did.
TodayHasTable ==
  \A c \in Contexts : last[c] = "ok" /\ SameDay(c) => day \in tables

\* What the batch of AppMonitorDao.create leaves behind when no statement of it
\* failed: the table of its day and every index name, each index on a table that
\* exists, though two contexts interleave their statements.
BatchIsComplete ==
  \A c \in Contexts :
    job[c] \in Running /\ stmt[c] > NumIndexes /\ ~ bad[c]
      => target[c] \in tables /\ \A i \in Indexes : index[i] \in tables

\* The latest run of some context succeeded on day d and kept to that day.
RanOn(d) == \E c \in Contexts : last[c] = "ok" /\ SameDay(c) /\ dueDay[c] = d + 1

\* What a successful run of createDay is worth after the process stopped: the samples
\* of its day and of the next one find their table, also those that come before the
\* new process has run the job, or after runs of it that failed.
RunsOutlastRestarts ==
  \A d \in 0..LastDay : [](RanOn(d) => [](day \in {d, d + 1} => day \in tables))

Succeeds(c) == job[c] = "tomorrow" /\ job'[c] = "idle" /\ last'[c] = "ok"

\* The first comment of create() is that it makes the table of the current day:
\* when a run ends without a failure, the day has its table.
RunCreatesToday == [][\A c \in Contexts : Succeeds(c) => day \in tables]_dailyVars

RanToday(c) == last[c] # "none" /\ dueDay[c] = day + 1

\* The comment on Job.createDay: it runs once a day.
OnceADay == \A c, d \in Contexts : RanToday(c) /\ RanToday(d) => c = d
================================================================================
