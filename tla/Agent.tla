--------------------------------- MODULE Agent ---------------------------------
(* performance_monitor.sh and sys_performance_monitor.sh on a host: each lists the    *)
(* Java processes with their names in a file that both use, measures each of them     *)
(* three or four times and posts what it found.  Each has a file of its own to count  *)
(* threads in.  They look for a process with grep, which finds its pid anywhere in a  *)
(* line: in a longer pid, or in a name with digits.  A pid is not used again.         *)
EXTENDS Integers, FiniteSets

CONSTANTS
  Monitors, \* the scripts, one run of each
  Sys,      \* those that have function_gcutil
  Pids,     \* of Java processes
  Apps,     \* the names of the processes
  Numbered, \* pairs of a pid and a name that has its digits in it
  None      \* no process

ASSUME AgentAssumption == Pids \subseteq Nat /\ None \notin Pids

VARIABLES
  app,      \* the name of each process
  alive,
  used,     \* the processes that were started
  jps,      \* the processes listed in JPS_FILE
  tmp,      \* of a script: the process whose threads are counted in its TMPFILE
  script,   \* of a script: where it is, what it measures, which pids are left; serverName
            \* has a line for each process that was found, and is here the set of their names
  body      \* of a script: the samples it gathered since it posted

gvars == <<app, alive, used, jps, tmp, script, body>>

AgentInit ==
  /\ app \in [Pids -> Apps]
  /\ alive \in SUBSET Pids /\ used = alive
  /\ jps = {} /\ tmp = [s \in Monitors |-> None]
  /\ script = [s \in Monitors |-> [at |-> "list", kind |-> "thread", todo |-> {}, pid |-> None, serverName |-> {}]]
  /\ body = [s \in Monitors |-> {}]

Stands(s, point) == script[s].at = point
GoesTo(s, point) == script' = [script EXCEPT ![s].at = point]

startJava == \E p \in Pids \ used : alive' = alive \cup {p} /\ used' = used \cup {p}
endJava == \E p \in alive : alive' = alive \ {p} /\ used' = used

\* Processes start and end whatever the scripts do.
host ==
  /\ startJava \/ endJava
  /\ UNCHANGED <<app, jps, tmp, script, body>>

\* jps > $JPS_FILE: the file is empty until jps has written.
list(s) ==
  /\ Stands(s, "list") /\ GoesTo(s, "listing")
  /\ jps' = {}
  /\ UNCHANGED <<app, alive, used, tmp, body>>

listed(s) ==
  /\ Stands(s, "listing") /\ GoesTo(s, "begin")
  /\ jps' = alive
  /\ UNCHANGED <<app, alive, used, tmp, body>>

\* A function begins: pgrep java.
begin(s) ==
  /\ Stands(s, "begin")
  /\ script' = [script EXCEPT ![s].at = "loop", ![s].todo = alive]
  /\ UNCHANGED <<app, alive, used, jps, tmp, body>>

\* pgrep lists the smaller pids first.
next(s) == {p \in script[s].todo : \A q \in script[s].todo : p <= q}

\* 10 to the number of the digits of p.
Width(p) == CHOOSE w \in {10, 100, 1000, 10000, 100000} : w \div 10 <= p /\ p < w

\* grep finds p at the end of the digits of q; or anywhere in them.
EndsIn(p, q) == q % Width(p) = p
Contains(p, q) == \E d \in {1, 10, 100, 1000, 10000} : EndsIn(p, q \div d)

\* grep $pid finds the line of q in JPS_FILE.
Finds(p, q) == Contains(p, q) \/ <<p, app[q]>> \in Numbered

\* Mutant of lookup: nothing found is no new name.
lookupKeeps(p, name) == LET found == {app[q] : q \in {r \in jps : Finds(p, r)}}
                        IN IF found = {} THEN name ELSE found

\* serverName: what JPS_FILE has for the pid, or nothing.
lookup(p, name) == {app[q] : q \in {r \in jps : Finds(p, r)}}

\* A sample: the process it was taken for, what was measured, its name, and the
\* processes whose values are in it.  A process without a name is left out.
Add(s, p, kind, name, of) ==
  body' = [body EXCEPT ![s] = IF name = {} THEN @
                              ELSE @ \cup {[pid |-> p, kind |-> kind, name |-> name, of |-> of]}]

\* netstat | grep "$pid/java" | wc -l counts the connections of all that end in the pid.
connections(p) == {q \in alive : EndsIn(p, q)}

\* ps aux | grep $serverName | grep $pid: the lines of the name, with the pid in any column
\* of theirs; grep takes a second name for a file to read, and finds nothing.
usage(p, name) ==
  IF Cardinality(name) > 1 THEN {{}}
  ELSE {of \in SUBSET {q \in alive : app[q] \in name} : \A q \in alive : app[q] \in name /\ Contains(p, q) => q \in of}

\* Mutant of jstack: the file is written if there is something to write.
jstackKeeps(s) ==
  /\ Stands(s, "loop") /\ script[s].kind = "thread"
  /\ \E p \in next(s) :
       script' = [script EXCEPT ![s].at = "jstack", ![s].pid = p, ![s].todo = @ \ {p},
                                ![s].serverName = {}]
  /\ UNCHANGED <<app, alive, used, jps, tmp, body>>

\* function_thread_state: jstack of the next process, and TMPFILE is empty.
jstack(s) ==
  /\ Stands(s, "loop") /\ script[s].kind = "thread"
  /\ \E p \in next(s) :
       script' = [script EXCEPT ![s].at = "jstack", ![s].pid = p, ![s].todo = @ \ {p},
                                ![s].serverName = {}]
  /\ tmp' = [tmp EXCEPT ![s] = None]
  /\ UNCHANGED <<app, alive, used, jps, body>>

\* The counts are written, if the process is still there.
counted(s) ==
  /\ Stands(s, "jstack") /\ GoesTo(s, "read")
  /\ tmp' = [tmp EXCEPT ![s] = IF script[s].pid \in alive THEN script[s].pid ELSE @]
  /\ UNCHANGED <<app, alive, used, jps, body>>

\* The lines of TMPFILE, each with the name of the process.
readLines(s) ==
  /\ Stands(s, "read")
  /\ LET name == lookup(script[s].pid, script[s].serverName)
     IN IF tmp[s] = None THEN script' = [script EXCEPT ![s].at = "loop", ![s].pid = None] /\ UNCHANGED body
        ELSE /\ script' = [script EXCEPT ![s].at = "loop", ![s].pid = None, ![s].serverName = name]
             /\ Add(s, script[s].pid, "thread", name, {tmp[s]})
  /\ UNCHANGED <<app, alive, used, jps, tmp>>

\* function_network_conn: the next process by netstat.
network(s) ==
  /\ Stands(s, "loop") /\ script[s].kind = "network"
  /\ \E p \in next(s) :
       LET name == lookup(p, script[s].serverName)
       IN /\ script' = [script EXCEPT ![s].todo = @ \ {p}, ![s].serverName = name]
          /\ Add(s, p, "network", name, connections(p))
  /\ UNCHANGED <<app, alive, used, jps, tmp>>

\* function_cpu_use: the next process by ps.
cpu(s) ==
  /\ Stands(s, "loop") /\ script[s].kind = "cpu"
  /\ \E p \in next(s) :
       LET name == lookup(p, script[s].serverName)
       IN /\ script' = [script EXCEPT ![s].todo = @ \ {p}, ![s].serverName = name]
          /\ \E of \in usage(p, name) : Add(s, p, "cpu", name, of)
  /\ UNCHANGED <<app, alive, used, jps, tmp>>

\* function_gcutil: the next process, if jstat finds it.
jstat(s) ==
  /\ Stands(s, "loop") /\ script[s].kind = "gc"
  /\ \E p \in next(s) :
       LET name == IF p \in alive THEN lookup(p, {}) ELSE {}
       IN /\ script' = [script EXCEPT ![s].todo = @ \ {p}, ![s].serverName = name]
          /\ Add(s, p, "gc", name, {p})
  /\ UNCHANGED <<app, alive, used, jps, tmp>>

Following(s) ==
  CASE script[s].kind = "thread" -> "network"
    [] script[s].kind = "network" -> "cpu"
    [] script[s].kind = "cpu" -> IF s \in Sys THEN "gc" ELSE "thread"
    [] script[s].kind = "gc" -> "thread"

\* function_send_data: the samples are posted once, whatever comes of it; then the next
\* function begins, or after a minute the next list.
function_send_data(s) ==
  /\ Stands(s, "loop") /\ script[s].todo = {}
  /\ body' = [body EXCEPT ![s] = {}]
  /\ script' = [script EXCEPT ![s].at = IF Following(s) = "thread" THEN "list" ELSE "begin",
                              ![s].kind = Following(s)]
  /\ UNCHANGED <<app, alive, used, jps, tmp>>

AgentNext ==
  \/ host
  \/ \E s \in Monitors :
       \/ list(s) \/ listed(s) \/ begin(s)
       \/ jstack(s) \/ counted(s) \/ readLines(s) \/ network(s) \/ cpu(s) \/ jstat(s)
       \/ function_send_data(s)

AgentSpec == AgentInit /\ [][AgentNext]_gvars

--------------------------------------------------------------------------------

AgentTypeOK ==
  /\ app \in [Pids -> Apps] /\ alive \subseteq used /\ used \subseteq Pids
  /\ jps \subseteq used /\ tmp \in [Monitors -> used \cup {None}]
  /\ \A s \in Monitors : script[s].todo \subseteq used

\* No process that was started has the pid p in its own pid or in its name, but its own.
Apart(p) == \A q \in used \ {p} : ~ Finds(p, q)

\* A process that JPS_FILE does not have, because it is new or the other script is writing
\* the file, is left out: no sample has the name of another process.
OwnName == \A s \in Monitors : \A x \in body[s] : Apart(x.pid) => x.name = {app[x.pid]}

\* A sample of a process has its values, though the process may end while it is looked at;
\* a share of the processor may be one of another process of the name, as ps prints other
\* numbers beside the pid.
OwnValues ==
  \A s \in Monitors : \A x \in body[s] : Apart(x.pid) =>
    x.of \subseteq IF x.kind = "cpu" THEN {q \in used : app[q] = app[x.pid]} ELSE {x.pid}

\* The sample of a process whose pid no other process has in its pid or name has neither the
\* name nor the values of another one, but for shares of the processor among processes of
\* one name; the scripts of a host use one list (performance_monitor.sh,
\* sys_performance_monitor.sh).
OwnSample == OwnName /\ OwnValues

================================================================================
