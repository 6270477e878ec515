-------------------------------- MODULE Redeploy --------------------------------
(* restart-server.sh, run by several administrators at a time: each run looks for a  *)
(* server, kills what there is, waits a second and starts a server of its own.  A     *)
(* server binds its port some time after its start, exits when the port is taken, and *)
(* holds it until it is gone.                                                         *)
CONSTANT Scripts  \* the runs of the script

ASSUME FirstIsNoScript == "first" \notin Scripts

VARIABLES
  pc,     \* of a script: look, kill, sleep, start, done
  killed, \* the servers a script killed
  proc,   \* the servers: the first one, and one for each script that started one
  holder, \* the servers that hold the port
  late    \* a server that was killed took more than a second to stop

vars == <<pc, killed, proc, holder, late>>

Servers == Scripts \cup {"first"}
Alive == {p \in Servers : proc[p] \in {"starting", "up", "dying"}}

Init ==
  /\ pc = [s \in Scripts |-> "look"]
  /\ killed = [s \in Scripts |-> {}]
  /\ proc \in {[p \in Servers |-> IF p = "first" THEN was ELSE "none"] : was \in {"up", "none"}}
  /\ holder = {p \in Servers : proc[p] = "up"}
  /\ late = FALSE

Goto(s, label) == pc' = [pc EXCEPT ![s] = label]

\* pgrep -f counts the servers.
look(s) ==
  /\ pc[s] = "look"
  /\ Goto(s, IF Alive # {} THEN "kill" ELSE "start")
  /\ UNCHANGED <<killed, proc, holder, late>>

\* pkill -f sends its signal to all that there are now.
pkill(s) ==
  /\ pc[s] = "kill"
  /\ Goto(s, "sleep")
  /\ killed' = [killed EXCEPT ![s] = Alive]
  /\ proc' = [p \in Servers |-> IF p \in Alive THEN "dying" ELSE proc[p]]
  /\ UNCHANGED <<holder, late>>

\* Mutant of sleep: the script goes on at once, however fast a server stops.
sleepNot(s) ==
  /\ pc[s] = "sleep"
  /\ Goto(s, "start")
  /\ UNCHANGED <<killed, proc, holder, late>>

\* sleep 1: a server that was killed has stopped by then, or is late.
sleep(s) ==
  /\ pc[s] = "sleep"
  /\ Goto(s, "start")
  /\ late' = (late \/ killed[s] \cap Alive # {})
  /\ UNCHANGED <<killed, proc, holder>>

start(s) ==
  /\ pc[s] = "start"
  /\ Goto(s, "done")
  /\ proc' = [proc EXCEPT ![s] = "starting"]
  /\ UNCHANGED <<killed, holder, late>>

\* Mutant of bind: a server whose port is taken goes on.
bindAnyway(p) ==
  /\ proc[p] = "starting"
  /\ proc' = [proc EXCEPT ![p] = "up"]
  /\ holder' = holder \cup {p}
  /\ UNCHANGED <<pc, killed, late>>

\* server.start(): with the port, the server is up; without it main catches the
\* exception and exits.
bind(p) ==
  /\ proc[p] = "starting"
  /\ IF holder = {}
     THEN proc' = [proc EXCEPT ![p] = "up"] /\ holder' = {p}
     ELSE proc' = [proc EXCEPT ![p] = "dying"] /\ UNCHANGED holder
  /\ UNCHANGED <<pc, killed, late>>

\* Mutant of die: the port is not given back.
dieHolding(p) ==
  /\ proc[p] = "dying"
  /\ proc' = [proc EXCEPT ![p] = "gone"]
  /\ UNCHANGED <<pc, killed, holder, late>>

\* The shutdown hooks are done.
die(p) ==
  /\ proc[p] = "dying"
  /\ proc' = [proc EXCEPT ![p] = "gone"]
  /\ holder' = holder \ {p}
  /\ UNCHANGED <<pc, killed, late>>

Next ==
  \/ \E s \in Scripts : look(s) \/ pkill(s) \/ sleep(s) \/ start(s)
  \/ \E p \in Servers : bind(p) \/ die(p)

Spec == Init /\ [][Next]_vars

--------------------------------------------------------------------------------

RedeployTypeOK ==
  /\ pc \in [Scripts -> {"look", "kill", "sleep", "start", "done"}]
  /\ killed \in [Scripts -> SUBSET Servers]
  /\ proc \in [Servers -> {"none", "starting", "up", "dying", "gone"}]
  /\ holder \subseteq {p \in Servers : proc[p] \in {"up", "dying"}}
  /\ late \in BOOLEAN

\* When all the scripts are done there is a server, or one that starts, however they kill
\* what the others started and whichever finds the port taken, unless a server took more
\* than the second that the script waits for it.
SomeServer ==
  ~ late /\ Scripts # {} /\ (\A s \in Scripts : pc[s] = "done")
    => \E p \in Servers : proc[p] \in {"starting", "up"}

\* One server at a time holds the port, and what is up holds it.
OnePort ==
  /\ \A p, q \in holder : p = q
  /\ \A p \in Servers : proc[p] = "up" => p \in holder

\* However the scripts of several administrators kill what the others started, in the end
\* a server is there, and never two that hold the port.
ServersKept == SomeServer /\ OnePort

================================================================================
