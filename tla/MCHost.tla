--------------------------------- MODULE MCHost ---------------------------------
(* What surrounds the server on its hosts, one at a time as the scripts of MCPage are: *)
(* its configuration, its restarts, the bodies of its requests and the agents.  `part` *)
(* says which, and the variables of the others stay as they are.                       *)
EXTENDS Redeploy, ConfigStore, RequestBody, Agent

\* The names of processes with digits in them.
HostNumbered == {<<12, "app12">>}

VARIABLE part

all == <<part, vars, cvars, bvars, gvars>>

--------------------------------------------------------------------------------

(* One state of each in which it may be while it is another one's turn.                *)
NoRestart == Init /\ holder = {}
NoConfig == ConfigInit /\ file = Empty
NoBody == RequestInit /\ n = Min(Lengths) /\ arrived = 0 /\ ~ form
NoAgent == AgentInit /\ app = (CHOOSE names \in [Pids -> Apps] : TRUE) /\ alive = {}

HostInit ==
  \/ part = "restarts" /\ Init /\ NoConfig /\ NoBody /\ NoAgent
  \/ part = "config" /\ ConfigInit /\ NoRestart /\ NoBody /\ NoAgent
  \/ part = "request" /\ RequestInit /\ NoRestart /\ NoConfig /\ NoAgent
  \/ part = "monitors" /\ AgentInit /\ NoRestart /\ NoConfig /\ NoBody

HostNext ==
  /\ UNCHANGED part
  /\ \/ part = "restarts" /\ Next /\ UNCHANGED <<cvars, bvars, gvars>>
     \/ part = "config" /\ ConfigNext /\ UNCHANGED <<vars, bvars, gvars>>
     \/ part = "request" /\ RequestNext /\ UNCHANGED <<vars, cvars, gvars>>
     \/ part = "monitors" /\ AgentNext /\ UNCHANGED <<vars, cvars, bvars>>

HostSpec == HostInit /\ [][HostNext]_all

--------------------------------------------------------------------------------
(* The other properties are stated by the modules.                                     *)

\* The variables have values of their types.
HostTypeOK == ConfigTypeOK /\ RedeployTypeOK /\ RequestTypeOK /\ AgentTypeOK

================================================================================
