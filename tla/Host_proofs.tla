------------------------------- MODULE Host_proofs -------------------------------
(* What is true on the hosts of the server: of restarts for any number of scripts that *)
(* run at the same time; of the configuration for any keys and values, however often   *)
(* the administrator saves the file and whenever the server starts, exits or is killed; *)
(* of the bodies of requests for any length and buffer; of any number of agents and     *)
(* processes.                                                                           *)
EXTENDS MCHost, WellFoundedInduction, TLAPS

--------------------------------------------------------------------------------
(* Restarts.                                                                          *)

\* A server that holds the port and was killed is waited for by a script that killed it:
\* the server that starts then will find the port free.  No longer so when one was late.
AwaitedInv ==
  ~ late => \A v \in holder : proc[v] = "dying" => \E s \in Scripts : pc[s] = "sleep" /\ v \in killed[s]

\* A script that has not started its server has none.
UnstartedInv == \A s \in Scripts : pc[s] # "done" => proc[s] = "none"

RedeployInv == RedeployTypeOK /\ OnePort /\ UnstartedInv /\ AwaitedInv /\ SomeServer

\* It holds at the beginning.
LEMMA RedeployStarts == Init => RedeployInv
<1> SUFFICES ASSUME Init PROVE RedeployInv
  OBVIOUS
<1> USE FirstIsNoScript
<1> PICK was \in {"up", "none"} : proc = [v \in Servers |-> IF v = "first" THEN was ELSE "none"]
  BY DEF Init
<1>1. \A v \in holder : v = "first" /\ proc[v] = "up"
  BY DEF Init
<1>2. \A s \in Scripts : proc[s] = "none" /\ pc[s] = "look"
  BY DEF Init, Servers
<1>3. RedeployTypeOK
  BY DEF Init, RedeployTypeOK, Servers
<1>4. OnePort
  BY <1>1 DEF Init, OnePort
<1> QED
  BY <1>1, <1>2, <1>3, <1>4 DEF RedeployInv, UnstartedInv, AwaitedInv, SomeServer

\* A step keeps it.
LEMMA RedeployKeeps == RedeployInv /\ [Next]_vars => RedeployInv'
<1> SUFFICES ASSUME RedeployInv, [Next]_vars PROVE RedeployInv'
  OBVIOUS
<1> USE FirstIsNoScript DEF RedeployInv
<1>1. ASSUME NEW s \in Scripts, look(s) PROVE RedeployInv'
  <2> USE <1>1 DEF look, Goto
  <2>1. pc' \in [Scripts -> {"look", "kill", "sleep", "start", "done"}] /\ pc'[s] # "done"
    BY DEF RedeployTypeOK
  <2>2. \A r \in Scripts : r # s => pc'[r] = pc[r]
    BY DEF RedeployTypeOK
  <2>3. RedeployTypeOK' /\ OnePort'
    BY <2>1 DEF RedeployTypeOK, OnePort
  <2>4. UnstartedInv'
    BY <2>2 DEF UnstartedInv
  <2>5. AwaitedInv'
    BY <2>2 DEF AwaitedInv
  <2> QED
    BY <2>1, <2>3, <2>4, <2>5 DEF SomeServer
<1>2. ASSUME NEW s \in Scripts, pkill(s) PROVE RedeployInv'
  <2> USE <1>2 DEF pkill, Goto
  <2>1. pc' \in [Scripts -> {"look", "kill", "sleep", "start", "done"}] /\ pc'[s] = "sleep"
    BY DEF RedeployTypeOK
  <2>2. \A r \in Scripts : r # s => pc'[r] = pc[r]
    BY DEF RedeployTypeOK
  <2>3. killed' \in [Scripts -> SUBSET Servers] /\ killed'[s] = Alive
    BY DEF RedeployTypeOK, Alive
  <2>4. \A v \in Servers : proc'[v] = IF v \in Alive THEN "dying" ELSE proc[v]
    OBVIOUS
  <2>5. \A v \in holder : v \in Alive
    BY DEF RedeployTypeOK, Alive
  <2>6. RedeployTypeOK'
    BY <2>1, <2>3, <2>4, <2>5 DEF RedeployTypeOK, Alive
  <2>7. OnePort'
    BY <2>4 DEF OnePort, Alive
  <2>8. UnstartedInv'
    BY <2>2, <2>4 DEF UnstartedInv, Alive, Servers
  <2>9. AwaitedInv'
    BY <2>1, <2>3, <2>5 DEF AwaitedInv
  <2> QED
    BY <2>1, <2>6, <2>7, <2>8, <2>9 DEF SomeServer
<1>3. ASSUME NEW s \in Scripts, sleep(s) PROVE RedeployInv'
  <2> USE <1>3 DEF sleep, Goto
  <2>1. pc' \in [Scripts -> {"look", "kill", "sleep", "start", "done"}] /\ pc'[s] = "start"
    BY DEF RedeployTypeOK
  <2>2. \A r \in Scripts : r # s => pc'[r] = pc[r]
    BY DEF RedeployTypeOK
  <2>3. RedeployTypeOK' /\ OnePort'
    BY <2>1 DEF RedeployTypeOK, OnePort
  <2>4. UnstartedInv'
    BY <2>2 DEF UnstartedInv
  <2>5. ASSUME ~ late', NEW v \in holder, proc[v] = "dying" PROVE \E r \in Scripts : pc'[r] = "sleep" /\ v \in killed[r]
    <3>1. ~ late /\ killed[s] \cap Alive = {}
      BY <2>5 DEF RedeployTypeOK
    <3>2. PICK r \in Scripts : pc[r] = "sleep" /\ v \in killed[r]
      BY <2>5, <3>1 DEF AwaitedInv
    <3>3. v \in Alive
      BY <2>5 DEF RedeployTypeOK, Alive
    <3>4. r # s
      BY <3>1, <3>2, <3>3
    <3> QED
      BY <2>2, <3>2, <3>4
  <2>6. AwaitedInv'
    BY <2>5 DEF AwaitedInv
  <2> QED
    BY <2>1, <2>3, <2>4, <2>6 DEF SomeServer
<1>4. ASSUME NEW s \in Scripts, start(s) PROVE RedeployInv'
  <2> USE <1>4 DEF start, Goto
  <2>1. pc' \in [Scripts -> {"look", "kill", "sleep", "start", "done"}] /\ pc'[s] = "done"
    BY DEF RedeployTypeOK
  <2>2. \A r \in Scripts : r # s => pc'[r] = pc[r]
    BY DEF RedeployTypeOK
  <2>3. proc[s] = "none"
    BY DEF UnstartedInv
  <2>4. s \in Servers /\ proc' \in [Servers -> {"none", "starting", "up", "dying", "gone"}]
        /\ proc'[s] = "starting" /\ \A v \in Servers : v # s => proc'[v] = proc[v]
    BY DEF RedeployTypeOK, Servers
  <2>5. s \notin holder /\ holder \subseteq Servers
    BY <2>3 DEF RedeployTypeOK
  <2>6. RedeployTypeOK'
    BY <2>1, <2>4, <2>5 DEF RedeployTypeOK
  <2>7. OnePort'
    BY <2>4 DEF OnePort
  <2>8. UnstartedInv'
    BY <2>1, <2>2, <2>4 DEF UnstartedInv, Servers
  <2>9. AwaitedInv'
    BY <2>2, <2>4, <2>5 DEF AwaitedInv
  <2>10. SomeServer'
    BY <2>4 DEF SomeServer
  <2> QED
    BY <2>6, <2>7, <2>8, <2>9, <2>10
<1>5. ASSUME NEW v \in Servers, bind(v) PROVE RedeployInv'
  <2> USE <1>5 DEF bind
  <2>1. CASE holder = {}
    <3>1. proc' \in [Servers -> {"none", "starting", "up", "dying", "gone"}]
          /\ proc'[v] = "up" /\ (\A q \in Servers : q # v => proc'[q] = proc[q]) /\ holder' = {v}
      BY <2>1 DEF RedeployTypeOK
    <3>2. RedeployTypeOK'
      BY <3>1 DEF RedeployTypeOK
    <3>3. OnePort'
      BY <2>1, <3>1 DEF OnePort
    <3>4. UnstartedInv'
      BY <3>1 DEF UnstartedInv, Servers
    <3>5. AwaitedInv'
      BY <3>1 DEF AwaitedInv
    <3>6. SomeServer'
      BY <3>1 DEF SomeServer
    <3> QED
      BY <3>2, <3>3, <3>4, <3>5, <3>6
  <2>2. CASE holder # {}
    <3>1. proc' \in [Servers -> {"none", "starting", "up", "dying", "gone"}]
          /\ proc'[v] = "dying" /\ (\A q \in Servers : q # v => proc'[q] = proc[q]) /\ holder' = holder
      BY <2>2 DEF RedeployTypeOK
    <3>2. PICK h \in holder : h # v /\ proc[h] \in {"up", "dying"} /\ h \in Servers
      BY <2>2 DEF RedeployTypeOK
    <3>3. v \notin holder
      BY DEF RedeployTypeOK
    <3>4. RedeployTypeOK'
      BY <3>1, <3>3 DEF RedeployTypeOK
    <3>5. OnePort'
      BY <3>1 DEF OnePort
    <3>6. UnstartedInv'
      BY <3>1 DEF UnstartedInv, Servers
    <3>7. AwaitedInv'
      BY <3>1, <3>3 DEF AwaitedInv, RedeployTypeOK
    <3>8. SomeServer'
      <4>1. CASE proc[h] = "up"
        BY <4>1, <3>1, <3>2 DEF SomeServer
      <4>2. CASE proc[h] = "dying"
        BY <4>2 DEF AwaitedInv, SomeServer
      <4> QED
        BY <3>2, <4>1, <4>2
    <3> QED
      BY <3>4, <3>5, <3>6, <3>7, <3>8
  <2> QED
    BY <2>1, <2>2
<1>6. ASSUME NEW v \in Servers, die(v) PROVE RedeployInv'
  <2> USE <1>6 DEF die
  <2>1. proc' \in [Servers -> {"none", "starting", "up", "dying", "gone"}]
        /\ proc'[v] = "gone" /\ \A q \in Servers : q # v => proc'[q] = proc[q]
    BY DEF RedeployTypeOK
  <2>2. RedeployTypeOK'
    BY <2>1 DEF RedeployTypeOK
  <2>3. OnePort'
    BY <2>1 DEF OnePort
  <2>4. UnstartedInv'
    BY <2>1 DEF UnstartedInv, Servers
  <2>5. AwaitedInv'
    BY <2>1 DEF AwaitedInv, RedeployTypeOK
  <2>6. SomeServer'
    BY <2>1 DEF SomeServer
  <2> QED
    BY <2>2, <2>3, <2>4, <2>5, <2>6
<1>7. CASE UNCHANGED vars
  BY <1>7 DEF vars, RedeployTypeOK, OnePort, UnstartedInv, AwaitedInv, SomeServer, Alive
<1> QED
  BY <1>1, <1>2, <1>3, <1>4, <1>5, <1>6, <1>7 DEF Next

\* The invariant holds always.
LEMMA RedeployAlways == Spec => []RedeployInv
<1>1. Init => RedeployInv
  BY RedeployStarts
<1>2. RedeployInv /\ [Next]_vars => RedeployInv'
  BY RedeployKeeps
<1> QED
  BY <1>1, <1>2, PTL DEF Spec

\* However many scripts kill each other's servers, when all are done there is a server, or
\* one that starts; and of any number of servers one holds the port, and what is up holds it
\* (restart-server.sh, lines 38 to 47, and AppMonitorJettyServer.main).
THEOREM ServersAlwaysKept == Spec => []ServersKept
<1>1. RedeployInv => ServersKept
  BY DEF RedeployInv, ServersKept
<1> QED
  BY <1>1, RedeployAlways, PTL

--------------------------------------------------------------------------------
(* The configuration.                                                                 *)

Vals == Value \cup {Nothing, Default}

\* f has what the administrator counts on.
Agrees(f) == \A k \in Keys : due[k] # Nothing => f[k] = due[k]

\* The types, and times that are not of the future.
TimesInv ==
  /\ file \in [Keys -> Vals] /\ p \in [Keys -> Vals] /\ due \in [Keys -> Vals]
  /\ mtime \in Nat \ {0} /\ lmd \in Nat /\ missed \in Nat
  /\ lmd <= mtime /\ missed <= mtime

\* While the server stores the file is empty, or holds what the store will write over: what
\* counts is in the server then, and in the file at all other times.
StoreInv ==
  IF server = "storing"
  THEN Agrees(p) /\ (file = Empty \/ due = Empty)
  ELSE Agrees(file)

\* The server has what is in the file, if it has looked at the file that is there.
LoadInv ==
  /\ server = "stat" /\ missed = mtime => Agrees(p)
  /\ server \in {"get", "up"} /\ Loaded => Agrees(p)

ConfigInv == TimesInv /\ StoreInv /\ LoadInv

--------------------------------------------------------------------------------

\* Nobody counts on an empty file.
LEMMA EmptyAgrees == ASSUME due = Empty, NEW f PROVE Agrees(f)
BY DEF Agrees, Empty

\* What is loaded from a file that agrees does.
LEMMA LoadAgrees ==
  ASSUME TimesInv, Agrees(file), Load, due' = due
  PROVE  Agrees(p)' /\ p' \in [Keys -> Vals]
BY DEF TimesInv, Agrees, Load

\* Nothing is loaded from an empty one.
LEMMA LoadEmpty == ASSUME TimesInv, file = Empty, Load PROVE p' = p
BY DEF TimesInv, Load, Empty

LEMMA ConfigInvInit == ConfigInit => ConfigInv
BY DEF ConfigInit, ConfigInv, TimesInv, StoreInv, LoadInv, Agrees, Files, Empty, Vals, Loaded

--------------------------------------------------------------------------------

LEMMA EditInv == ConfigInv /\ edit => ConfigInv'
<1> SUFFICES ASSUME ConfigInv, edit PROVE ConfigInv'
  OBVIOUS
<1>1. PICK f \in Files : file' = f /\ due' = IF server = "storing" THEN Empty ELSE f
  BY DEF edit
<1>2. /\ mtime' = mtime + 1
      /\ UNCHANGED <<server, p, lmd, changed, refresher, missed>>
  BY DEF edit
<1>3. f \in [Keys -> Vals] /\ Empty \in [Keys -> Vals]
  BY DEF Files, Empty, Vals
<1>4. TimesInv'
  BY <1>1, <1>2, <1>3 DEF ConfigInv, TimesInv
<1>5. StoreInv'
  <2>1. CASE server = "storing"
    BY <1>1, <1>2, <2>1 DEF StoreInv, Agrees, Empty
  <2>2. CASE server # "storing"
    BY <1>1, <1>2, <2>2 DEF StoreInv, Agrees
  <2> QED
    BY <2>1, <2>2
<1>6. missed' # mtime' /\ lmd' # mtime'
  BY <1>2 DEF ConfigInv, TimesInv
<1>7. LoadInv'
  BY <1>6 DEF LoadInv, Loaded
<1> QED
  BY <1>4, <1>5, <1>7 DEF ConfigInv

\* The server starts.
LEMMA StartInv == ConfigInv /\ (boot \/ firstLoad \/ stat \/ get) => ConfigInv'
<1>1. ASSUME ConfigInv, boot PROVE ConfigInv'
  <2>1. p' = Empty /\ lmd' = 0 /\ server' = "load" /\ server # "storing"
        /\ UNCHANGED <<file, mtime, missed, due>>
    BY <1>1 DEF boot
  <2>2. Empty \in [Keys -> Vals]
    BY DEF Empty, Vals
  <2>3. TimesInv'
    BY <1>1, <2>1, <2>2 DEF ConfigInv, TimesInv
  <2> QED
    BY <1>1, <2>1, <2>3 DEF ConfigInv, StoreInv, LoadInv, Agrees
<1>2. ASSUME ConfigInv, firstLoad PROVE ConfigInv'
  <2>1. Load /\ missed' = mtime /\ server = "load" /\ server' = "stat"
        /\ UNCHANGED <<file, mtime, lmd, due>>
    BY <1>2 DEF firstLoad
  <2>2. Agrees(p)' /\ p' \in [Keys -> Vals]
    BY <1>2, <2>1, LoadAgrees DEF ConfigInv, StoreInv
  <2>3. TimesInv'
    BY <1>2, <2>1, <2>2 DEF ConfigInv, TimesInv
  <2> QED
    BY <1>2, <2>1, <2>2, <2>3 DEF ConfigInv, StoreInv, LoadInv, Agrees
<1>3. ASSUME ConfigInv, stat PROVE ConfigInv'
  <2>1. /\ server = "stat" /\ server' = "get"
        /\ lmd' = mtime /\ missed' = IF missed = mtime THEN 0 ELSE mtime
        /\ UNCHANGED <<file, mtime, p, due>>
    BY <1>3 DEF stat
  <2>2. TimesInv'
    BY <1>3, <2>1 DEF ConfigInv, TimesInv
  <2>3. Loaded' => missed = mtime
    BY <2>1 DEF Loaded
  <2>4. LoadInv'
    BY <1>3, <2>1, <2>3 DEF ConfigInv, LoadInv, Agrees
  <2> QED
    BY <1>3, <2>1, <2>2, <2>4 DEF ConfigInv, StoreInv, Agrees
<1>4. ASSUME ConfigInv, get PROVE ConfigInv'
  <2>1. /\ server = "get" /\ server' = "up"
        /\ p' = [k \in Keys |-> IF k \in Asked /\ p[k] = Nothing THEN Default ELSE p[k]]
        /\ UNCHANGED <<file, mtime, lmd, refresher, missed, due>>
    BY <1>4 DEF get
  <2>2. p' \in [Keys -> Vals] /\ TimesInv'
    BY <1>4, <2>1 DEF ConfigInv, TimesInv, Vals
  <2>3. Agrees(p) => Agrees(p)'
    BY <2>1 DEF Agrees
  <2>4. Loaded' = Loaded
    BY <2>1 DEF Loaded
  <2>5. LoadInv'
    BY <1>4, <2>1, <2>3, <2>4 DEF ConfigInv, LoadInv
  <2> QED
    BY <1>4, <2>1, <2>2, <2>5 DEF ConfigInv, StoreInv, Agrees
<1> QED
  BY <1>1, <1>2, <1>3, <1>4

\* The thread loads the file, also while the hook stores it.
LEMMA RefreshInv == ConfigInv /\ refresh => ConfigInv'
<1> SUFFICES ASSUME ConfigInv, refresh PROVE ConfigInv'
  OBVIOUS
<1>1. UNCHANGED <<file, mtime, server, missed, due>> /\ server \in {"up", "storing"}
  BY DEF refresh, Runs
<1>2. CASE refresher' = "load" /\ lmd' = mtime /\ UNCHANGED p
  <2>1. TimesInv'
    BY <1>1, <1>2 DEF ConfigInv, TimesInv
  <2>2. LoadInv'
    BY <1>1, <1>2 DEF LoadInv, Loaded
  <2> QED
    BY <1>1, <1>2, <2>1, <2>2 DEF ConfigInv, StoreInv, Agrees
<1>3. CASE Load /\ UNCHANGED lmd
  <2>1. CASE server = "up"
    <3>1. Agrees(p)' /\ p' \in [Keys -> Vals]
      BY <1>1, <1>3, <2>1, LoadAgrees DEF ConfigInv, StoreInv
    <3>2. TimesInv'
      BY <1>1, <1>3, <3>1 DEF ConfigInv, TimesInv
    <3> QED
      BY <1>1, <2>1, <3>1, <3>2 DEF ConfigInv, StoreInv, LoadInv, Agrees
  <2>2. CASE server = "storing"
    <3>1. p' \in [Keys -> Vals]
      BY <1>3 DEF ConfigInv, TimesInv, Load
    <3>2. TimesInv'
      BY <1>1, <1>3, <3>1 DEF ConfigInv, TimesInv
    <3>3. Agrees(p)'
      <4>1. CASE file = Empty
        BY <1>1, <1>3, <2>2, <4>1, LoadEmpty DEF ConfigInv, StoreInv, Agrees
      <4>2. CASE due = Empty
        BY <1>1, <4>2 DEF Agrees, Empty
      <4> QED
        BY <2>2, <4>1, <4>2 DEF ConfigInv, StoreInv
    <3> QED
      BY <1>1, <2>2, <3>2, <3>3 DEF ConfigInv, StoreInv, LoadInv, Empty
  <2> QED
    BY <1>1, <2>1, <2>2
<1>4. CASE refresher' = "failed" /\ UNCHANGED <<p, lmd>>
  <2>1. LoadInv'
    BY <1>1, <1>4 DEF LoadInv, Loaded
  <2> QED
    BY <1>1, <1>4, <2>1 DEF ConfigInv, TimesInv, StoreInv, Agrees
<1> QED
  BY <1>2, <1>3, <1>4 DEF refresh

\* The server exits or is killed.
LEMMA ExitInv == ConfigInv /\ (terminate \/ store \/ kill) => ConfigInv'
<1>1. ASSUME ConfigInv, terminate PROVE ConfigInv'
  <2>1. CASE server' = "off" /\ UNCHANGED <<file, mtime, due>>
    BY <1>1, <2>1 DEF terminate, ConfigInv, TimesInv, StoreInv, LoadInv, Agrees
  <2>2. CASE /\ server' = "storing" /\ file' = Empty /\ mtime' = mtime + 1
             /\ due' = IF Loaded THEN due ELSE Empty
    <3>1. server = "up" /\ UNCHANGED <<p, lmd, missed>>
      BY <1>1 DEF terminate
    <3>2. Empty \in [Keys -> Vals]
      BY DEF Empty, Vals
    <3>3. TimesInv'
      BY <1>1, <2>2, <3>1, <3>2 DEF ConfigInv, TimesInv
    <3>4. Agrees(p)'
      <4>1. CASE Loaded
        BY <1>1, <2>2, <3>1, <4>1 DEF ConfigInv, LoadInv, Agrees
      <4>2. CASE ~ Loaded
        BY <2>2, <4>2 DEF Agrees, Empty
      <4> QED
        BY <4>1, <4>2
    <3> QED
      BY <2>2, <3>3, <3>4 DEF ConfigInv, StoreInv, LoadInv, Empty
  <2> QED
    BY <1>1, <2>1, <2>2 DEF terminate
<1>2. ASSUME ConfigInv, store PROVE ConfigInv'
  <2>1. /\ server = "storing" /\ server' = "stored" /\ file' = p /\ mtime' = mtime + 1
        /\ UNCHANGED <<p, lmd, missed, due>>
    BY <1>2 DEF store
  <2>2. TimesInv'
    BY <1>2, <2>1 DEF ConfigInv, TimesInv
  <2> QED
    BY <1>2, <2>1, <2>2 DEF ConfigInv, StoreInv, LoadInv, Agrees
<1>3. ASSUME ConfigInv, kill PROVE ConfigInv'
  <2>1. /\ server' = "off" /\ due' = IF server = "storing" THEN Empty ELSE due
        /\ UNCHANGED <<file, mtime, p, lmd, missed>>
    BY <1>3 DEF kill
  <2>2. Empty \in [Keys -> Vals]
    BY DEF Empty, Vals
  <2>3. TimesInv'
    BY <1>3, <2>1, <2>2 DEF ConfigInv, TimesInv
  <2>4. Agrees(file)'
    BY <1>3, <2>1 DEF ConfigInv, StoreInv, Agrees, Empty
  <2> QED
    BY <2>1, <2>3, <2>4 DEF ConfigInv, StoreInv, LoadInv
<1> QED
  BY <1>1, <1>2, <1>3

LEMMA ConfigInvNext == ConfigInv /\ [ConfigNext]_cvars => ConfigInv'
<1>1. ConfigInv /\ UNCHANGED cvars => ConfigInv'
  BY DEF cvars, ConfigInv, TimesInv, StoreInv, LoadInv, Agrees, Loaded
<1> QED
  BY <1>1, EditInv, StartInv, RefreshInv, ExitInv DEF ConfigNext

\* The server has what the administrator wrote last, once it has looked at the file that is
\* there, and the store at its exit keeps what it had loaded: for any number of edits and
\* restarts (Config.java: the refresher and the hook "store-config").
THEOREM ConfigAlwaysKept == ConfigSpec => []ConfigKept
<1>1. ConfigInit => ConfigInv
  BY ConfigInvInit
<1>2. ConfigInv /\ [ConfigNext]_cvars => ConfigInv'
  BY ConfigInvNext
<1>3. ConfigInv => ConfigKept
  BY DEF ConfigInv, StoreInv, LoadInv, Agrees, ConfigKept, Fresh, EditsKept
<1> QED
  BY <1>1, <1>2, <1>3, PTL DEF ConfigSpec

--------------------------------------------------------------------------------
(* The body of a request.                                                             *)

Bytes == 1..Buffer

BodyTypes ==
  /\ n \in Lengths /\ n \in Nat /\ arrived \in Nat /\ taken \in Nat
  /\ taken <= arrived /\ arrived <= n
  /\ joined \in SUBSET (1..(n - 1)) /\ mark \in [1..n -> Marks] /\ form \in BOOLEAN
  /\ buffer \in [Bytes -> 0..n]
  /\ pieces \in Seq(Nat) /\ (mode # "done" => str \in Seq(Int))

AllFull == \A i \in DOMAIN pieces : pieces[i] = Buffer

\* The byte at i is read as it is if t bytes were taken so far: it is not cut by their end.
Ends(i, t) == IF i = t /\ i \in joined THEN Bad ELSE i

\* All pieces filled the buffer and none of their ends but the last cut a character: str is
\* what was taken, and the buffer has the end of it.
InOrder ==
  /\ AllFull /\ Len(str) = taken /\ taken = Len(pieces) * Buffer
  /\ \A i \in 1..taken : str[i] = Ends(i, taken)
  /\ \A k \in Nat : k * Buffer < taken => k * Buffer \notin joined
  /\ IF pieces = <<>> THEN taken = 0 /\ \A i \in Bytes : buffer[i] = 0
     ELSE taken >= Buffer /\ \A i \in Bytes : buffer[i] = taken - Buffer + i

\* The only piece did not fill it: zeros follow it.
OnePiece ==
  /\ Len(pieces) = 1 /\ ~ AllFull /\ 1 <= taken /\ taken < Buffer
  /\ Len(str) = Buffer
  /\ \A i \in Bytes : buffer[i] = IF i <= taken THEN i ELSE 0
  /\ \A i \in Bytes : str[i] = IF i <= taken THEN Ends(i, taken) ELSE 0

\* A piece that did not fill it or cut a character, and another one: there is a byte in the wrong
\* place or none where one was, which no read moves and no trim takes away.
Misplaced ==
  /\ Len(pieces) > 1 /\ ~ (AllFull /\ NoneCut)
  /\ \E i \in DOMAIN str : str[i] # i /\ str[i] # 0

ReadInv ==
  /\ mode \in {"new", "parameters"} => pieces = <<>> /\ InOrder
  /\ mode = "stream" => InOrder \/ OnePiece \/ Misplaced

BodyInv == BodyTypes /\ ReadInv /\ IntactInOnePiece

--------------------------------------------------------------------------------

\* No multiple is between one and the next.
LEMMA NoMultipleBetween ==
  ASSUME NEW k \in Nat, NEW b \in Nat \ {0}, NEW j \in Nat, k * b < j * b, j * b < k * b + b
  PROVE  FALSE
<1>1. CASE j <= k
  <2>1. k - j \in Nat
    BY <1>1
  <2>2. (k - j) * b >= 0
    BY <2>1
  <2>3. (k - j) * b = k * b - j * b
    OBVIOUS
  <2> QED
    BY <2>2, <2>3
<1>2. CASE j > k
  <2>1. PICK d \in Nat : j = k + 1 + d
    <3>1. j - (k + 1) \in Nat /\ j = k + 1 + (j - (k + 1))
      BY <1>2
    <3> QED
      BY <3>1
  <2>2. j * b = k * b + b + d * b /\ d * b >= 0
    BY <2>1
  <2>3. j * b >= k * b + b
    BY <2>2
  <2> QED
    BY <2>3
<1> QED
  BY <1>1, <1>2

LEMMA MinOfTwo ==
  ASSUME NEW a \in Int, NEW b \in Int
  PROVE  Min({a, b}) = IF a <= b THEN a ELSE b
<1>1. \A y \in {a, b} : (IF a <= b THEN a ELSE b) <= y
  OBVIOUS
<1>2. \A x \in {a, b} : (\A y \in {a, b} : x <= y) => x = (IF a <= b THEN a ELSE b)
  OBVIOUS
<1> QED
  BY <1>1, <1>2 DEF Min

\* A set of numbers with a bound has a greatest one.
LEMMA MaxOfBounded ==
  ASSUME NEW S, S \subseteq Nat, S # {}, NEW b \in Nat, \A i \in S : i <= b
  PROVE  Max(S) \in S /\ \A i \in S : i <= Max(S)
<1> DEFINE T == {b - i : i \in S}
<1>1. T \subseteq Nat /\ T # {}
  <2>1. \A i \in S : b - i \in Nat
    OBVIOUS
  <2> QED
    BY <2>1
<1>2. \A i \in S : b - i \in T
  OBVIOUS
<1>3. \A x \in T : \E i \in S : x = b - i
  OBVIOUS
<1> HIDE DEF T
<1>4. PICK x \in T : \A y \in T : ~ (<<y, x>> \in OpToRel(<, Nat))
  BY <1>1, NatLessThanWellFounded, WFMin
<1>5. \A y \in T : x <= y
  <2> TAKE y \in T
  <2>1. x \in Nat /\ y \in Nat
    BY <1>1
  <2>2. ~ (y < x)
    BY <1>4, <2>1 DEF OpToRel
  <2> QED
    BY <2>1, <2>2
<1>6. PICK g \in S : x = b - g
  BY <1>3
<1>7. \A i \in S : g >= i
  <2> TAKE i \in S
  <2>1. b - g <= b - i
    BY <1>2, <1>5, <1>6
  <2>2. g \in Nat /\ i \in Nat
    OBVIOUS
  <2> QED
    BY <2>1, <2>2
<1>8. Max(S) \in S /\ \A i \in S : Max(S) >= i
  BY <1>7 DEF Max
<1>9. Max(S) \in Nat /\ \A i \in S : i \in Nat
  BY <1>8
<1> QED
  BY <1>8, <1>9

\* trim keeps what is before the last byte that is not zero.
LEMMA TrimFacts ==
  ASSUME NEW s \in Seq(Int)
  PROVE  /\ trim(s) \in Seq(Int) /\ Len(trim(s)) <= Len(s)
         /\ \A i \in DOMAIN s : s[i] # 0 => i <= Len(trim(s))
         /\ \A i \in 1..Len(trim(s)) : trim(s)[i] = s[i]
         /\ Len(trim(s)) > 0 => s[Len(trim(s))] # 0
<1> DEFINE S == {0} \cup {i \in DOMAIN s : s[i] # 0}
           m == Max(S)
<1>1. Len(s) \in Nat /\ DOMAIN s = 1..Len(s)
  OBVIOUS
<1>2. S \subseteq Nat /\ S # {} /\ \A i \in S : i <= Len(s)
  BY <1>1
<1>3. m \in S /\ \A i \in S : i <= m
  <2> HIDE DEF S
  <2> QED
    BY <1>1, <1>2, MaxOfBounded
<1>4. m \in 0..Len(s) /\ (m > 0 => s[m] # 0) /\ \A i \in DOMAIN s : s[i] # 0 => i <= m
  BY <1>1, <1>2, <1>3
<1>5. trim(s) = SubSeq(s, 1, m)
  BY DEF trim
<1> HIDE DEF m
<1>6. Len(trim(s)) = m /\ trim(s) \in Seq(Int) /\ \A i \in 1..m : trim(s)[i] = s[i]
  BY <1>1, <1>4, <1>5
<1> QED
  BY <1>1, <1>4, <1>6

LEMMA BodyInvInit == RequestInit => BodyInv
<1> USE RequestAssumption DEF Bytes
<1> SUFFICES ASSUME RequestInit PROVE BodyInv
  OBVIOUS
<1>1. mark \in [1..n -> Marks]
  BY DEF RequestInit
<1>2. BodyTypes
  BY <1>1 DEF RequestInit, BodyTypes
<1>3. \A k \in Nat : k * Buffer >= 0
  OBVIOUS
<1>4. InOrder
  BY <1>3 DEF RequestInit, InOrder, AllFull
<1> QED
  BY <1>2, <1>4 DEF RequestInit, BodyInv, ReadInv, IntactInOnePiece

LEMMA ReadTypes ==
  ASSUME BodyTypes, read
  PROVE  \E m \in 1..Buffer :
           /\ buffer' = [i \in Bytes |-> IF i <= m THEN taken + i ELSE buffer[i]]
           /\ pieces' = Append(pieces, m) /\ taken' = taken + m /\ str' = str \o decode(buffer')
           /\ BodyTypes' /\ decode(buffer') \in Seq(Int) /\ Len(decode(buffer')) = Buffer
           /\ DOMAIN buffer' = Bytes
<1> USE RequestAssumption DEF BodyTypes, Bytes
<1> DEFINE m == Min({arrived - taken, Buffer})
<1>1. arrived > taken /\ UNCHANGED <<n, joined, mark, form, arrived, mode>> /\ mode # "done"
  BY DEF read, sent
<1>2. m \in 1..Buffer /\ taken + m <= arrived
  <2>1. arrived - taken \in Int /\ Buffer \in Int
    OBVIOUS
  <2>2. m = IF arrived - taken <= Buffer THEN arrived - taken ELSE Buffer
    BY <2>1, MinOfTwo
  <2> HIDE DEF m
  <2> QED
    BY <1>1, <2>1, <2>2
<1>3. /\ buffer' = [i \in Bytes |-> IF i <= m THEN taken + i ELSE buffer[i]]
      /\ pieces' = Append(pieces, m) /\ taken' = taken + m /\ str' = str \o decode(buffer')
  BY DEF read
<1> HIDE DEF m
<1>4. \A i \in Bytes : (IF i <= m THEN taken + i ELSE buffer[i]) \in 0..n
  BY <1>1, <1>2
<1>5. buffer' \in [Bytes -> 0..n]
  BY <1>3, <1>4
<1>6. decode(buffer') \in Seq(Int) /\ Len(decode(buffer')) = Buffer
  <2>1. decode(buffer') = [i \in 1..Buffer |-> IF whole(buffer', i) THEN buffer'[i] ELSE Bad]
    BY <1>5 DEF decode
  <2>2. \A i \in 1..Buffer : (IF whole(buffer', i) THEN buffer'[i] ELSE Bad) \in Int
    BY <1>5 DEF Bad
  <2> QED
    BY <2>1, <2>2
<1>7. str' \in Seq(Int) /\ pieces' \in Seq(Nat)
  BY <1>1, <1>2, <1>3, <1>6
<1>8. BodyTypes'
  BY <1>1, <1>2, <1>3, <1>5, <1>7
<1>9. DOMAIN buffer' = Bytes
  BY <1>5
<1> QED
  BY <1>2, <1>3, <1>6, <1>8, <1>9

LEMMA ReadStep ==
  ASSUME BodyTypes, read, InOrder \/ OnePiece \/ Misplaced
  PROVE  BodyTypes' /\ (InOrder \/ OnePiece \/ Misplaced)'
<1> USE RequestAssumption DEF Bytes
<1>1. PICK m \in 1..Buffer :
        /\ buffer' = [i \in Bytes |-> IF i <= m THEN taken + i ELSE buffer[i]]
        /\ pieces' = Append(pieces, m) /\ taken' = taken + m /\ str' = str \o decode(buffer')
        /\ BodyTypes' /\ decode(buffer') \in Seq(Int) /\ Len(decode(buffer')) = Buffer
        /\ DOMAIN buffer' = Bytes
  BY ReadTypes
<1> DEFINE L == Len(str)
           k == Len(pieces)
           d == decode(buffer')
<1>2. /\ L \in Nat /\ k \in Nat /\ taken \in Nat /\ buffer \in [Bytes -> 0..n] /\ n \in Nat
      /\ str \in Seq(Int) /\ pieces \in Seq(Nat) /\ joined \in SUBSET (1..(n - 1)) /\ taken < n
      /\ DOMAIN str = 1..L /\ DOMAIN pieces = 1..k
  BY DEF BodyTypes, read
<1>n. joined' = joined /\ n' = n /\ NoneCut' = NoneCut
  BY DEF read, sent, NoneCut
<1>3. \A i \in Bytes : buffer'[i] = IF i <= m THEN taken + i ELSE buffer[i]
  BY <1>1
<1>d. \A i \in Bytes : d[i] = IF whole(buffer', i) THEN buffer'[i] ELSE Bad
  BY <1>1 DEF decode
<1>4. /\ Len(str') = L + Buffer /\ DOMAIN str' = 1..(L + Buffer)
      /\ \A i \in 1..L : str'[i] = str[i]
      /\ \A i \in Bytes : str'[L + i] = d[i]
  <2>1. \A a, b \in Seq(Int) :
          /\ Len(a \o b) = Len(a) + Len(b) /\ DOMAIN (a \o b) = 1..(Len(a) + Len(b))
          /\ \A i \in 1..Len(a) : (a \o b)[i] = a[i]
          /\ \A i \in 1..Len(b) : (a \o b)[Len(a) + i] = b[i]
    OBVIOUS
  <2>2. d \in Seq(Int) /\ Len(d) = Buffer /\ str \in Seq(Int) /\ str' = str \o d
    BY <1>1, <1>2
  <2> HIDE DEF d
  <2> QED
    BY <2>1, <2>2
<1>5. /\ Len(pieces') = k + 1 /\ DOMAIN pieces' = 1..(k + 1) /\ pieces'[k + 1] = m
      /\ \A i \in 1..k : pieces'[i] = pieces[i]
  BY <1>1, <1>2
<1>6. AllFull' <=> AllFull /\ m = Buffer
  <2>1. AllFull' <=> \A i \in 1..(k + 1) : pieces'[i] = Buffer
    BY <1>5 DEF AllFull
  <2>2. AllFull <=> \A i \in 1..k : pieces[i] = Buffer
    BY <1>2 DEF AllFull
  <2>3. \A c \in Nat : /\ c + 1 \in 1..(c + 1) /\ \A i \in 1..(c + 1) : i \in 1..c \/ i = c + 1
                      /\ \A i \in 1..c : i \in 1..(c + 1)
    OBVIOUS
  <2>4. k \in Nat
    BY <1>2
  <2> HIDE DEF k
  <2> QED
    BY <1>5, <2>1, <2>2, <2>3, <2>4
<1> HIDE DEF L, k, d
\* What a piece adds is the bytes of it, if none before it belongs to them.
<1>p. ASSUME taken \notin joined, NEW i \in 1..m PROVE d[i] = Ends(taken + i, taken + m) \/ (i = m /\ m < Buffer)
  <2>1. buffer'[i] = taken + i /\ i \in Bytes
    BY <1>3
  <2>2. CASE i < m
    <3>1. i + 1 \in Bytes /\ buffer'[i + 1] = taken + i + 1
      BY <1>2, <1>3, <2>2
    <3>2. taken + i - 1 \in joined => i - 1 \in Bytes /\ buffer'[i - 1] = taken + i - 1
      BY <1>2, <1>3, <1>p
    <3>3. whole(buffer', i)
      BY <1>1, <1>2, <2>1, <3>1, <3>2 DEF whole
    <3> QED
      BY <1>d, <1>2, <2>1, <2>2, <3>3 DEF Ends
  <2>3. CASE i = m /\ m = Buffer
    <3>1. taken + i - 1 \in joined => i - 1 \in Bytes /\ buffer'[i - 1] = taken + i - 1
      BY <1>2, <1>3, <1>p
    <3>2. i + 1 \notin Bytes
      BY <2>3
    <3>3. whole(buffer', i) <=> taken + i \notin joined
      BY <1>1, <1>2, <2>1, <3>1, <3>2 DEF whole
    <3> QED
      BY <1>d, <1>2, <2>1, <2>3, <3>3 DEF Ends
  <2> QED
    BY <1>2, <2>2, <2>3
<1>c. CASE InOrder /\ taken \in joined
  <2>1. L = taken /\ taken \in 1..L /\ k > 0 /\ str[taken] = Bad /\ taken = k * Buffer
    BY <1>2, <1>c DEF InOrder, Ends, L, k
  <2>2. taken \in DOMAIN str' /\ str'[taken] = Bad
    BY <1>2, <1>4, <2>1
  <2>3. taken # Bad /\ Bad # 0
    BY <1>2 DEF Bad
  <2>4. k \in 1..n
    <3>1. k * Buffer >= k
      BY <1>2
    <3>2. k <= taken
      BY <2>1, <3>1
    <3>3. \A a, b, c \in Nat : a > 0 /\ a <= b /\ b < c => a \in 1..c
      OBVIOUS
    <3> QED
      BY <1>2, <2>1, <3>2, <3>3
  <2>5. ~ NoneCut
    BY <1>c, <2>1, <2>4 DEF NoneCut
  <2>6. Len(pieces') > 1
    BY <1>2, <1>5, <2>1
  <2> QED
    BY <1>1, <1>n, <2>2, <2>3, <2>5, <2>6 DEF Misplaced
<1>7. CASE InOrder /\ taken \notin joined /\ m = Buffer
  <2>1. L = taken /\ taken' = taken + Buffer /\ AllFull' /\ taken = k * Buffer
    BY <1>1, <1>6, <1>7 DEF InOrder, L, k
  <2>2. ASSUME NEW i \in 1..taken' PROVE str'[i] = Ends(i, taken')
    <3>1. CASE i <= taken
      BY <1>2, <1>4, <1>7, <2>1, <3>1 DEF InOrder, Ends
    <3>2. CASE i > taken
      <4>1. i - taken \in 1..m /\ i - taken \in Bytes /\ L + (i - taken) = i /\ taken + (i - taken) = i
        BY <1>2, <1>7, <2>1, <3>2
      <4>2. str'[i] = d[i - taken]
        BY <1>4, <4>1
      <4>3. d[i - taken] = Ends(taken + (i - taken), taken + m)
        BY <1>p, <1>7, <4>1
      <4> QED
        BY <1>7, <2>1, <4>1, <4>2, <4>3
    <3> QED
      BY <1>2, <2>1, <3>1, <3>2
  <2>3. \A i \in Bytes : buffer'[i] = taken' - Buffer + i
    BY <1>2, <1>3, <1>7, <2>1
  <2>4. taken' >= Buffer /\ pieces' # <<>> /\ Len(str') = taken'
    BY <1>2, <1>4, <1>5, <2>1
  <2>5. taken' = Len(pieces') * Buffer
    <3>1. (k + 1) * Buffer = k * Buffer + Buffer
      BY <1>2
    <3> QED
      BY <1>5, <2>1, <3>1
  <2>6. ASSUME NEW j \in Nat, j * Buffer < taken' PROVE j * Buffer \notin joined
    <3>1. CASE j * Buffer < taken
      BY <1>7, <3>1 DEF InOrder
    <3>2. CASE j * Buffer = taken
      BY <1>7, <3>2
    <3>3. CASE taken < j * Buffer
      BY <1>2, <2>1, <2>6, <3>3, NoMultipleBetween
    <3>4. j * Buffer \in Nat
      OBVIOUS
    <3> QED
      BY <1>2, <3>1, <3>2, <3>3, <3>4
  <2>7. \A i \in 1..taken' : str'[i] = Ends(i, taken)'
    BY <1>n, <2>2 DEF Ends
  <2>8. \A j \in Nat : j * Buffer < taken' => j * Buffer \notin joined'
    BY <1>n, <2>6
  <2> QED
    BY <1>1, <2>1, <2>3, <2>4, <2>5, <2>7, <2>8 DEF InOrder
<1>8. CASE InOrder /\ m # Buffer /\ pieces = <<>>
  <2>1. L = 0 /\ taken = 0 /\ k = 0 /\ \A i \in Bytes : buffer[i] = 0
    BY <1>8 DEF InOrder, L, k
  <2>2. \A i \in Bytes : buffer'[i] = IF i <= m THEN i ELSE 0
    BY <1>3, <2>1
  <2>3. ASSUME NEW i \in Bytes PROVE d[i] = IF i <= m THEN Ends(i, m) ELSE 0
    <3>1. CASE i < m
      BY <1>2, <1>p, <2>1, <3>1
    <3>2. CASE i = m
      <4>1. i + 1 \in Bytes /\ buffer'[i + 1] = 0 /\ buffer'[i] = i /\ i + 1 # 0
        BY <1>8, <2>2, <3>2
      <4>2. i - 1 \in joined => i - 1 \in Bytes /\ buffer'[i - 1] = i - 1
        BY <1>2, <2>2, <3>2
      <4>3. whole(buffer', i) <=> i \notin joined
        BY <1>1, <4>1, <4>2 DEF whole
      <4> QED
        BY <1>d, <3>2, <4>1, <4>3 DEF Ends
    <3>3. CASE i > m
      <4>1. buffer'[i] = 0 /\ 0 \notin joined /\ 0 - 1 \notin joined
        BY <1>2, <2>2, <3>3
      <4>2. whole(buffer', i)
        BY <4>1 DEF whole
      <4> QED
        BY <1>d, <3>3, <4>1, <4>2
    <3> QED
      BY <3>1, <3>2, <3>3
  <2>4. Len(pieces') = 1 /\ ~ AllFull' /\ taken' = m /\ 1 <= m /\ m < Buffer /\ Len(str') = Buffer
    BY <1>1, <1>4, <1>5, <1>6, <1>8, <2>1
  <2>5. ASSUME NEW i \in Bytes PROVE str'[i] = IF i <= taken' THEN Ends(i, taken)' ELSE 0
    <3>1. str'[i] = d[i]
      BY <1>4, <2>1
    <3>2. Ends(i, taken)' = Ends(i, m)
      BY <1>n, <2>4 DEF Ends
    <3> QED
      BY <2>3, <2>4, <3>1, <3>2
  <2> QED
    BY <1>1, <2>2, <2>4, <2>5 DEF OnePiece
<1>9. CASE InOrder /\ m # Buffer /\ pieces # <<>>
  <2>1. L = taken /\ taken >= Buffer /\ k > 0 /\ \A i \in Bytes : buffer[i] = taken - Buffer + i
    BY <1>2, <1>9 DEF InOrder, L, k
  <2>2. m + 1 \in Bytes /\ ~ (m + 1 <= m)
    BY <1>9
  <2>3. buffer'[m + 1] = taken - Buffer + (m + 1)
    BY <1>3, <2>1, <2>2
  <2>4. /\ L + (m + 1) \in DOMAIN str'
        /\ str'[L + (m + 1)] = taken - Buffer + (m + 1) \/ str'[L + (m + 1)] = Bad
    BY <1>2, <1>4, <1>d, <2>2, <2>3
  <2>5. /\ taken - Buffer + (m + 1) # 0 /\ taken - Buffer + (m + 1) # L + (m + 1)
        /\ Bad # 0 /\ Bad # L + (m + 1)
    BY <1>2, <2>1 DEF Bad
  <2>6. Len(pieces') > 1 /\ ~ AllFull'
    BY <1>2, <1>5, <1>6, <1>9, <2>1
  <2> QED
    BY <1>1, <2>4, <2>5, <2>6 DEF Misplaced
<1>10. CASE OnePiece
  <2>1. L = Buffer /\ k = 1 /\ ~ AllFull /\ taken < Buffer
    BY <1>10 DEF OnePiece, L, k
  <2>2. 1 \in Bytes /\ buffer'[1] = taken + 1
    BY <1>3
  <2>3. L + 1 \in DOMAIN str' /\ (str'[L + 1] = taken + 1 \/ str'[L + 1] = Bad)
    BY <1>2, <1>4, <1>d, <2>2
  <2>4. taken + 1 # 0 /\ taken + 1 # L + 1 /\ Bad # 0 /\ Bad # L + 1
    BY <1>2, <2>1 DEF Bad
  <2>5. Len(pieces') > 1 /\ ~ AllFull'
    BY <1>5, <1>6, <2>1
  <2> QED
    BY <1>1, <2>3, <2>4, <2>5 DEF Misplaced
<1>11. CASE Misplaced
  <2>1. k > 1 /\ ~ (AllFull /\ NoneCut)
    BY <1>11 DEF Misplaced, k
  <2>2. PICK i \in DOMAIN str : str[i] # i /\ str[i] # 0
    BY <1>11 DEF Misplaced
  <2>3. i \in DOMAIN str' /\ str'[i] = str[i]
    BY <1>2, <1>4
  <2>4. Len(pieces') > 1 /\ ~ (AllFull' /\ NoneCut')
    BY <1>2, <1>5, <1>6, <1>n, <2>1
  <2> QED
    BY <1>1, <2>2, <2>3, <2>4 DEF Misplaced
<1> QED
  BY <1>c, <1>7, <1>8, <1>9, <1>10, <1>11

\* What trim makes of what was read.
LEMMA TrimmedBody ==
  ASSUME BodyTypes, mode = "stream", taken = n, InOrder \/ OnePiece \/ Misplaced
  PROVE  trim(str) = Body <=> Len(pieces) <= 1 \/ (NoneCut /\ AllFull)
<1> USE RequestAssumption DEF Bytes
<1> DEFINE t == trim(str)
<1>1. /\ t \in Seq(Int) /\ Len(t) <= Len(str)
      /\ \A i \in DOMAIN str : str[i] # 0 => i <= Len(t)
      /\ \A i \in 1..Len(t) : t[i] = str[i]
      /\ Len(t) > 0 => str[Len(t)] # 0
  BY TrimFacts DEF BodyTypes
<1>n. n \notin joined /\ n \in Nat
  BY DEF BodyTypes
<1>2. n \in Nat /\ str \in Seq(Int) /\ DOMAIN str = 1..Len(str) /\ Len(str) \in Nat
  BY DEF BodyTypes
<1> HIDE DEF t
<1>3. Len(t) \in Nat /\ DOMAIN t = 1..Len(t)
  BY <1>1
<1>4. CASE InOrder \/ OnePiece
  <2>1. Len(pieces) <= 1 \/ (NoneCut /\ AllFull)
    <3>1. CASE InOrder
      <4>1. ASSUME NEW k \in 1..n PROVE k * Buffer \notin joined
        <5>1. k * Buffer \in joined => k * Buffer < n
          BY DEF BodyTypes
        <5> QED
          BY <3>1, <5>1 DEF InOrder
      <4> QED
        BY <3>1, <4>1 DEF InOrder, NoneCut
    <3>2. CASE OnePiece
      <4>1. Len(pieces) = 1
        BY <3>2 DEF OnePiece
      <4> QED
        BY <4>1
    <3> QED
      BY <1>4, <3>1, <3>2
  <2>2. /\ n <= Len(str) /\ \A i \in 1..n : str[i] = i
        /\ \A i \in 1..Len(str) : i > n => str[i] = 0
    <3>1. CASE InOrder
      <4>1. Len(str) = n /\ \A i \in 1..n : str[i] = i
        BY <1>n, <3>1 DEF InOrder, Ends
      <4> QED
        BY <1>2, <4>1
    <3>2. CASE OnePiece
      <4>1. n < Buffer /\ Len(str) = Buffer
        BY <3>2 DEF OnePiece
      <4>2. \A i \in 1..Buffer : str[i] = (IF i <= n THEN i ELSE 0)
        BY <1>n, <3>2 DEF OnePiece, Ends
      <4> QED
        BY <1>2, <4>1, <4>2
    <3> QED
      BY <1>4, <3>1, <3>2
  <2>3. n <= Len(t)
    <3>1. CASE n = 0
      BY <1>3, <3>1
    <3>2. CASE n > 0
      BY <1>1, <1>2, <2>2, <3>2
    <3> QED
      BY <1>2, <3>1, <3>2
  <2>4. Len(t) <= n
    BY <1>1, <1>2, <1>3, <2>2
  <2>5. Len(t) = n
    <3>1. \A a \in Nat, b \in Nat : a <= b /\ b <= a => a = b
      OBVIOUS
    <3> QED
      BY <1>2, <1>3, <2>3, <2>4, <3>1
  <2>6. \A i \in 1..n : t[i] = i
    BY <1>1, <2>2, <2>5
  <2>7. t = Body
    BY <1>1, <1>3, <2>5, <2>6 DEF Body
  <2> QED
    BY <1>1, <2>1, <2>7 DEF t
<1>5. CASE Misplaced
  <2>1. ~ (Len(pieces) <= 1) /\ ~ (NoneCut /\ AllFull)
    BY <1>5 DEF Misplaced, BodyTypes
  <2>2. PICK i \in DOMAIN str : str[i] # i /\ str[i] # 0
    BY <1>5 DEF Misplaced
  <2>3. i \in DOMAIN t /\ t[i] # i
    BY <1>1, <1>2, <1>3, <2>2
  <2>4. t # Body
    BY <2>3 DEF Body
  <2> QED
    BY <1>1, <2>1, <2>4 DEF t
<1> QED
  BY <1>4, <1>5

\* What the names of the parameters make of it.
LEMMA KeysOfBody ==
  ASSUME BodyTypes, NEW t \in keys
  PROVE  t = Body <=> n = 0 \/ (form /\ \A i \in 1..n : mark[i] = "-")
<1>1. n \in Nat /\ mark \in [1..n -> Marks] /\ form \in BOOLEAN /\ Bad \notin 1..n
  BY DEF BodyTypes, Bad
<1>2. CASE ~ form
  <2>1. t = <<>>
    BY <1>2 DEF keys
  <2>2. Body = <<>> <=> n = 0
    <3>1. CASE n = 0
      BY <3>1 DEF Body
    <3>2. CASE n > 0
      <4>1. 1 \in DOMAIN Body
        BY <1>1, <3>2 DEF Body
      <4> QED
        BY <3>2, <4>1
    <3> QED
      BY <1>1, <3>1, <3>2
  <2> QED
    BY <1>2, <2>1, <2>2
<1>3. CASE form /\ \A i \in 1..n : mark[i] \notin {"&", "="}
  <2>1. t = [i \in 1..n |-> Decoded(i)]
    BY <1>3 DEF keys
  <2>2. \A i \in 1..n : mark[i] \in {"-", "+"}
    BY <1>1, <1>3 DEF Marks
  <2>3. \A i \in 1..n : Decoded(i) = i <=> mark[i] = "-"
    BY <1>1, <2>2 DEF Decoded
  <2>4. t = Body <=> \A i \in 1..n : Decoded(i) = i
    BY <2>1 DEF Body
  <2> QED
    BY <1>1, <1>3, <2>3, <2>4
<1>4. CASE form /\ ~ \A i \in 1..n : mark[i] \notin {"&", "="}
  <2>1. PICK b \in 1..n : mark[b] \in {"&", "="}
    BY <1>4
  <2>2. b \notin Named
    <3>1. CASE mark[b] = "&"
      BY <3>1 DEF Named
    <3>2. CASE mark[b] = "="
      <4>1. b \in 1..b /\ \A k \in b..b : mark[k] # "&"
        BY <1>1, <3>2
      <4> QED
        BY <3>2, <4>1 DEF Named
    <3> QED
      BY <2>1, <3>1, <3>2
  <2>3. PICK f \in [1..Cardinality(Named) -> Named] : t = [k \in DOMAIN f |-> Decoded(f[k])]
    BY <1>4 DEF keys
  <2>4. ASSUME t = Body PROVE FALSE
    <3>1. DOMAIN t = 1..n /\ t[b] = b
      BY <2>4 DEF Body
    <3>2. b \in DOMAIN f /\ t[b] = Decoded(f[b]) /\ f[b] \in Named
      BY <2>3, <3>1
    <3>3. f[b] = b
      BY <1>1, <3>1, <3>2 DEF Decoded
    <3> QED
      BY <2>2, <3>2, <3>3
  <2>5. mark[b] # "-" /\ n # 0
    BY <1>1, <2>1
  <2> QED
    BY <2>4, <2>5
<1> QED
  BY <1>1, <1>2, <1>3, <1>4

LEMMA BodyInvNext == BodyInv /\ [RequestNext]_bvars => BodyInv'
<1> SUFFICES ASSUME BodyInv, [RequestNext]_bvars PROVE BodyInv'
  OBVIOUS
<1> USE RequestAssumption
<1>1. BodyTypes /\ ReadInv /\ IntactInOnePiece
  BY DEF BodyInv
<1>2. CASE arrive
  <2>1. UNCHANGED <<n, joined, mark, form, taken, mode, buffer, pieces, str>> /\ arrived' \in (arrived + 1)..n
    BY <1>2 DEF arrive, sent
  <2>2. BodyTypes'
    BY <1>1, <2>1 DEF BodyTypes
  <2>3. ReadInv' /\ IntactInOnePiece'
    BY <1>1, <2>1 DEF ReadInv, InOrder, OnePiece, Misplaced, AllFull, Ends, NoneCut, IntactInOnePiece, Body
  <2> QED
    BY <2>2, <2>3 DEF BodyInv
<1>3. CASE available
  <2>1. /\ UNCHANGED <<n, joined, mark, form, arrived, taken, buffer, pieces, str>>
        /\ mode = "new" /\ mode' \in {"parameters", "stream"}
    BY <1>3 DEF available, sent
  <2>2. InOrder' /\ pieces' = <<>>
    BY <1>1, <2>1 DEF ReadInv, InOrder, Ends, AllFull
  <2>3. BodyTypes'
    BY <1>1, <2>1 DEF BodyTypes
  <2> QED
    BY <2>1, <2>2, <2>3 DEF BodyInv, ReadInv, IntactInOnePiece
<1>4. CASE parameters
  <2>1. /\ UNCHANGED <<n, joined, mark, form, arrived, taken, buffer, pieces>>
        /\ mode = "parameters" /\ mode' = "done" /\ str' \in keys
    BY <1>4 DEF parameters, sent
  <2>2. pieces = <<>>
    BY <1>1, <2>1 DEF ReadInv
  <2>3. str' = Body <=> n = 0 \/ (form /\ \A i \in 1..n : mark[i] = "-")
    BY <1>1, <2>1, KeysOfBody
  <2>4. BodyTypes'
    BY <1>1, <2>1, <2>3 DEF BodyTypes
  <2>5. IntactInOnePiece'
    BY <2>1, <2>2, <2>3 DEF IntactInOnePiece, Body
  <2> QED
    BY <2>1, <2>4, <2>5 DEF BodyInv, ReadInv
<1>5. CASE read
  <2>1. mode = "stream" /\ mode' = mode
    BY <1>5 DEF read
  <2>2. BodyTypes' /\ (InOrder \/ OnePiece \/ Misplaced)'
    BY <1>1, <1>5, <2>1, ReadStep DEF ReadInv
  <2> QED
    BY <2>1, <2>2 DEF BodyInv, ReadInv, IntactInOnePiece
<1>6. CASE end
  <2>1. /\ UNCHANGED <<n, joined, mark, form, arrived, taken, buffer, pieces>>
        /\ mode = "stream" /\ mode' = "done" /\ taken = n /\ str' = trim(str)
    BY <1>6 DEF end, sent
  <2>b. Body' = Body /\ NoneCut' = NoneCut /\ (\A i \in DOMAIN pieces' : pieces'[i] = Buffer <=> pieces[i] = Buffer)
    BY <2>1 DEF Body, NoneCut
  <2>2. trim(str) = Body <=> Len(pieces) <= 1 \/ (NoneCut /\ AllFull)
    BY <1>1, <2>1, TrimmedBody DEF ReadInv
  <2>3. BodyTypes'
    BY <1>1, <2>1, <2>2 DEF BodyTypes
  <2>4. ASSUME pieces = <<>> PROVE IntactInOnePiece'
    <3>1. n = 0
      BY <1>1, <2>1, <2>4 DEF ReadInv, InOrder, OnePiece, Misplaced
    <3>2. Len(pieces) <= 1
      BY <2>4
    <3>3. str' = Body' /\ n' = 0 /\ pieces' = <<>>
      BY <2>1, <2>b, <2>2, <2>4, <3>1, <3>2
    <3> QED
      BY <3>3 DEF IntactInOnePiece
  <2>5. ASSUME pieces # <<>> PROVE IntactInOnePiece'
    <3>1. Len(pieces) <= 1 <=> Len(pieces) = 1
      <4>1. \A q \in Seq(Nat) : q # <<>> => Len(q) \in Nat /\ Len(q) # 0
        OBVIOUS
      <4>2. Len(pieces) \in Nat /\ Len(pieces) # 0
        BY <1>1, <2>5, <4>1 DEF BodyTypes
      <4> QED
        BY <4>2
    <3>2. /\ str' = Body' <=> Len(pieces') = 1 \/ (NoneCut' /\ \A i \in DOMAIN pieces' : pieces'[i] = Buffer)
          /\ pieces' # <<>>
      BY <2>1, <2>b, <2>2, <2>5, <3>1 DEF AllFull
    <3> QED
      BY <3>2 DEF IntactInOnePiece
  <2> QED
    BY <2>1, <2>3, <2>4, <2>5 DEF BodyInv, ReadInv
<1>7. CASE UNCHANGED bvars
  <2>1. UNCHANGED <<n, joined, mark, form, arrived, taken, mode, buffer, pieces, str>>
    BY <1>7 DEF bvars, sent
  <2>2. BodyTypes'
    BY <1>1, <2>1 DEF BodyTypes
  <2>3. ReadInv'
    BY <1>1, <2>1 DEF ReadInv, InOrder, OnePiece, Misplaced, AllFull, Ends, NoneCut
  <2>4. IntactInOnePiece'
    BY <1>1, <2>1 DEF IntactInOnePiece, NoneCut, Body
  <2> QED
    BY <2>2, <2>3, <2>4 DEF BodyInv
<1> QED
  BY <1>2, <1>3, <1>4, <1>5, <1>6, <1>7 DEF RequestNext

\* For a body of any length and a buffer of any size, the servlet is given what was sent exactly
\* when it came in one read, in full buffers that cut no character, or all at once as the name of a
\* parameter (RequestUtil.getRequestString).
THEOREM BodyAlwaysIntact == RequestSpec => []IntactInOnePiece
<1>1. RequestInit => BodyInv
  BY BodyInvInit
<1>2. BodyInv /\ [RequestNext]_bvars => BodyInv'
  BY BodyInvNext
<1>3. BodyInv => IntactInOnePiece
  BY DEF BodyInv
<1> QED
  BY <1>1, <1>2, <1>3, PTL DEF RequestSpec
--------------------------------------------------------------------------------
(* The agents.                                                                        *)

MonitorType ==
  [at : {"list", "listing", "begin", "loop", "jstack", "read"},
   kind : {"thread", "network", "cpu", "gc"},
   todo : SUBSET Pids, pid : Pids \cup {None}, serverName : SUBSET Apps]

AgentTypes ==
  /\ AgentTypeOK
  /\ alive \in SUBSET Pids /\ used \in SUBSET Pids /\ jps \in SUBSET Pids
  /\ script \in [Monitors -> MonitorType]
  /\ DOMAIN body = Monitors

\* The threads that a script counts in its file are those of the process it looks at.
CountedInv ==
  \A s \in Monitors :
    /\ Stands(s, "jstack") => tmp[s] = None
    /\ Stands(s, "read") => tmp[s] \in {None, script[s].pid}

AgentInv == AgentTypes /\ CountedInv /\ OwnSample

--------------------------------------------------------------------------------

\* What is as it was is a process's own, whatever starts beside it.
LEMMA OwnStays ==
  ASSUME OwnSample, UNCHANGED <<app, body>>, used \subseteq used'
  PROVE  OwnSample'
<1>1. ASSUME NEW q, Apart(q)' PROVE Apart(q)
  <2>1. \A r : Finds(q, r)' <=> Finds(q, r)
    BY DEF Finds, Contains, EndsIn
  <2> QED
    BY <1>1, <2>1 DEF Apart
<1>2. OwnName'
  BY <1>1 DEF OwnSample, OwnName
<1>3. OwnValues'
  BY <1>1 DEF OwnSample, OwnValues
<1> QED
  BY <1>2, <1>3 DEF OwnSample

\* A sample of the process q is its own.
Own(q, kind, name, of) ==
  Apart(q) /\ name # {} =>
    /\ name = {app[q]}
    /\ of \subseteq IF kind = "cpu" THEN {r \in used : app[r] = app[q]} ELSE {q}

\* What a script adds to its samples are those of the process, with its name.
LEMMA AddKeepsOwn ==
  ASSUME AgentTypes, OwnSample, UNCHANGED <<app, used>>, NEW s \in Monitors,
         NEW q, NEW kind, NEW name, NEW of,
         Add(s, q, kind, name, of), Own(q, kind, name, of)
  PROVE  OwnSample' /\ DOMAIN body' = Monitors
<1> DEFINE sample == [pid |-> q, kind |-> kind, name |-> name, of |-> of]
<1>1. DOMAIN body' = Monitors /\ \A r \in Monitors : r # s => body'[r] = body[r]
  BY DEF Add, AgentTypes
<1>2. name # {} => body'[s] = body[s] \cup {sample}
  BY DEF Add, AgentTypes
<1>3. name = {} => body'[s] = body[s]
  BY DEF Add, AgentTypes
<1>4. sample.pid = q /\ sample.kind = kind /\ sample.name = name /\ sample.of = of
  OBVIOUS
<1> HIDE DEF sample
<1>5. \A r : Apart(r)' <=> Apart(r)
  BY DEF Apart, Finds, Contains, EndsIn
<1>6. ASSUME NEW r \in Monitors, NEW x \in body'[r] PROVE x \in body[r] \/ (name # {} /\ x = sample)
  BY <1>1, <1>2, <1>3, <1>6
<1>7. OwnName'
  BY <1>4, <1>5, <1>6 DEF Own, OwnSample, OwnName
<1>8. OwnValues'
  BY <1>4, <1>5, <1>6 DEF Own, OwnSample, OwnValues
<1> QED
  BY <1>1, <1>7, <1>8 DEF OwnSample

\* The name of a process that stands apart is its own, if it is found.
LEMMA LookupOwn ==
  ASSUME AgentTypes, NEW q, NEW old
  PROVE  /\ lookup(q, old) \in SUBSET Apps
         /\ Apart(q) /\ lookup(q, old) # {} => lookup(q, old) = {app[q]}
<1>1. app \in [Pids -> Apps] /\ jps \subseteq used /\ jps \subseteq Pids
  BY DEF AgentTypes, AgentTypeOK
<1>2. Apart(q) => \A r \in jps : Finds(q, r) => r = q
  BY <1>1 DEF Apart
<1> QED
  BY <1>1, <1>2 DEF lookup

\* Its connections and its shares of the processor are.
LEMMA ConnectionsOwn ==
  ASSUME AgentTypes, NEW q, Apart(q)
  PROVE  connections(q) \subseteq {q}
<1>1. ASSUME NEW r \in alive, EndsIn(q, r) PROVE r = q
  <2>1. r \in used /\ r \in Nat
    BY AgentAssumption DEF AgentTypes, AgentTypeOK
  <2>2. r \div 1 = r
    BY <2>1
  <2>3. EndsIn(q, r \div 1)
    BY <1>1, <2>2
  <2>4. Contains(q, r)
    BY <2>3 DEF Contains
  <2> QED
    BY <2>1, <2>4 DEF Apart, Finds
<1> QED
  BY <1>1 DEF connections

LEMMA UsageOwn ==
  ASSUME AgentTypes, NEW q, NEW of \in usage(q, {app[q]})
  PROVE  of \subseteq {r \in used : app[r] = app[q]}
<1>1. alive \subseteq used
  BY DEF AgentTypes, AgentTypeOK
<1>2. CASE Cardinality({app[q]}) > 1
  BY <1>2 DEF usage
<1>3. CASE ~ (Cardinality({app[q]}) > 1)
  BY <1>1, <1>3 DEF usage
<1> QED
  BY <1>2, <1>3

\* A script that goes on and nothing else that the invariant is about.
LEMMA ScriptKeeps ==
  ASSUME AgentInv, NEW s \in Monitors, NEW m \in MonitorType,
         script' = [script EXCEPT ![s] = m], m.todo \subseteq used,
         m.at \notin {"jstack", "read"}, UNCHANGED <<app, alive, used, jps, tmp>>
  PROVE  /\ script' \in [Monitors -> MonitorType] /\ AgentTypeOK' /\ CountedInv'
         /\ DOMAIN body' = Monitors => AgentTypes'
<1>1. script' \in [Monitors -> MonitorType] /\ script'[s] = m /\ \A r \in Monitors : r # s => script'[r] = script[r]
  BY DEF AgentInv, AgentTypes
<1>2. AgentTypeOK'
  BY <1>1 DEF AgentInv, AgentTypes, AgentTypeOK
<1>3. CountedInv'
  BY <1>1 DEF AgentInv, CountedInv, Stands
<1> QED
  BY <1>1, <1>2, <1>3 DEF AgentInv, AgentTypes

LEMMA AgentInvInit == AgentInit => AgentInv
<1> SUFFICES ASSUME AgentInit PROVE AgentInv
  OBVIOUS
<1>1. \A s \in Monitors : script[s] = [at |-> "list", kind |-> "thread", todo |-> {}, pid |-> None, serverName |-> {}]
  BY DEF AgentInit
<1>2. script \in [Monitors -> MonitorType]
  BY DEF AgentInit, MonitorType
<1>3. AgentTypes
  BY <1>1, <1>2 DEF AgentInit, AgentTypes, AgentTypeOK
<1>4. CountedInv
  BY <1>1 DEF CountedInv, Stands
<1>5. OwnSample
  BY DEF AgentInit, OwnSample, OwnName, OwnValues
<1> QED
  BY <1>3, <1>4, <1>5 DEF AgentInv

\* Processes start and end; jps writes the list; a function begins or its samples are posted.
LEMMA AgentInvHost == AgentInv /\ host => AgentInv'
<1> SUFFICES ASSUME AgentInv, host PROVE AgentInv'
  OBVIOUS
<1>1. used \subseteq used' /\ alive' \subseteq used' /\ used' \in SUBSET Pids /\ UNCHANGED <<app, jps, tmp, script, body>>
  BY DEF host, startJava, endJava, AgentInv, AgentTypes, AgentTypeOK
<1>2. AgentTypes'
  BY <1>1 DEF AgentInv, AgentTypes, AgentTypeOK
<1>3. OwnSample'
  BY <1>1, OwnStays DEF AgentInv
<1> QED
  BY <1>1, <1>2, <1>3 DEF AgentInv, CountedInv, Stands

LEMMA AgentInvList ==
  ASSUME AgentInv, NEW s \in Monitors, list(s) \/ listed(s) PROVE AgentInv'
<1>1. PICK point \in {"listing", "begin"} : GoesTo(s, point)
  BY DEF list, listed
<1>2. jps' \in SUBSET used /\ UNCHANGED <<app, alive, used, tmp, body>>
  BY DEF list, listed, AgentInv, AgentTypes, AgentTypeOK
<1>3. script \in [Monitors -> MonitorType]
  BY DEF AgentInv, AgentTypes
<1>4. script' \in [Monitors -> MonitorType]
  BY <1>1, <1>3 DEF GoesTo, MonitorType
<1>5. /\ \A r \in Monitors : script'[r].todo = script[r].todo
      /\ script'[s].at = point /\ \A r \in Monitors : r # s => script'[r] = script[r]
  BY <1>1, <1>3 DEF GoesTo, MonitorType
<1>6. AgentTypes'
  BY <1>2, <1>4, <1>5 DEF AgentInv, AgentTypes, AgentTypeOK
<1>7. CountedInv'
  BY <1>2, <1>5 DEF AgentInv, CountedInv, Stands
<1>8. OwnSample'
  BY <1>2, OwnStays DEF AgentInv
<1> QED
  BY <1>6, <1>7, <1>8 DEF AgentInv

LEMMA AgentInvBegin ==
  ASSUME AgentInv, NEW s \in Monitors, begin(s) \/ function_send_data(s) PROVE AgentInv'
<1>1. script \in [Monitors -> MonitorType] /\ script[s] \in MonitorType /\ DOMAIN body = Monitors
  BY DEF AgentInv, AgentTypes
<1>2. CASE begin(s)
  <2> DEFINE m == [script[s] EXCEPT !.at = "loop", !.todo = alive]
  <2>1. script' = [script EXCEPT ![s] = m] /\ UNCHANGED <<app, alive, used, jps, tmp, body>>
    BY <1>2 DEF begin
  <2>2. m \in MonitorType /\ m.at = "loop" /\ m.todo = alive
    BY <1>1 DEF MonitorType, AgentInv, AgentTypes
  <2>3. alive \subseteq used
    BY DEF AgentInv, AgentTypes, AgentTypeOK
  <2> HIDE DEF m
  <2>4. AgentTypes' /\ CountedInv'
    BY <1>1, <2>1, <2>2, <2>3, ScriptKeeps
  <2>5. OwnSample'
    BY <2>1, OwnStays DEF AgentInv
  <2> QED
    BY <2>4, <2>5 DEF AgentInv
<1>3. CASE function_send_data(s)
  <2> DEFINE point == IF Following(s) = "thread" THEN "list" ELSE "begin"
             m == [script[s] EXCEPT !.at = point, !.kind = Following(s)]
  <2>1. script' = [script EXCEPT ![s] = m] /\ UNCHANGED <<app, alive, used, jps, tmp>>
    BY <1>3 DEF function_send_data
  <2>2. body' = [body EXCEPT ![s] = {}] /\ script[s].todo = {}
    BY <1>3 DEF function_send_data
  <2>3. Following(s) \in {"thread", "network", "cpu", "gc"}
    BY <1>1 DEF Following, MonitorType
  <2>4. m \in MonitorType /\ m.at = point /\ m.todo = {}
    BY <1>1, <2>2, <2>3 DEF MonitorType
  <2>5. point \in {"list", "begin"}
    OBVIOUS
  <2> HIDE DEF m, point
  <2>6. AgentTypes' /\ CountedInv'
    BY <1>1, <2>1, <2>2, <2>4, <2>5, ScriptKeeps
  <2>7. body'[s] = {} /\ \A r \in Monitors : r # s => body'[r] = body[r]
    BY <1>1, <2>2
  <2>8. \A r : Apart(r)' <=> Apart(r)
    BY <2>1 DEF Apart, Finds, Contains, EndsIn
  <2>9. OwnSample'
    BY <2>1, <2>7, <2>8 DEF AgentInv, OwnSample, OwnName, OwnValues
  <2> QED
    BY <2>6, <2>9 DEF AgentInv
<1> QED
  BY <1>2, <1>3

\* A script looks at the threads of a process: its file is empty until they are counted.
LEMMA AgentInvCount ==
  ASSUME AgentInv, NEW s \in Monitors, jstack(s) \/ counted(s) PROVE AgentInv'
<1>1. /\ script \in [Monitors -> MonitorType] /\ script[s] \in MonitorType
      /\ tmp \in [Monitors -> used \cup {None}]
  BY DEF AgentInv, AgentTypes, AgentTypeOK
<1>2. UNCHANGED <<app, alive, used, jps, body>>
  BY DEF jstack, counted
<1>3. PICK m \in MonitorType, c \in used \cup {None} :
        /\ script' = [script EXCEPT ![s] = m] /\ tmp' = [tmp EXCEPT ![s] = c]
        /\ m.todo \subseteq script[s].todo
        /\ \/ m.at = "jstack" /\ c = None
           \/ m.at = "read" /\ c \in {None, m.pid}
  <2>1. CASE jstack(s)
    <3>1. PICK q \in next(s) :
            script' = [script EXCEPT ![s].at = "jstack", ![s].pid = q, ![s].todo = @ \ {q},
                                     ![s].serverName = {}]
      BY <2>1 DEF jstack
    <3> DEFINE m == [script[s] EXCEPT !.at = "jstack", !.pid = q, !.todo = @ \ {q}, !.serverName = {}]
    <3>2. script' = [script EXCEPT ![s] = m]
      BY <3>1
    <3>3. m \in MonitorType /\ m.at = "jstack" /\ m.todo \subseteq script[s].todo
      <4>1. q \in Pids
        BY <1>1, <3>1 DEF next, MonitorType
      <4> QED
        BY <1>1, <4>1 DEF MonitorType
    <3>4. tmp' = [tmp EXCEPT ![s] = None]
      BY <2>1 DEF jstack
    <3> HIDE DEF m
    <3> QED
      BY <3>2, <3>3, <3>4
  <2>2. CASE counted(s)
    <3> DEFINE m == [script[s] EXCEPT !.at = "read"]
               c == IF script[s].pid \in alive THEN script[s].pid ELSE tmp[s]
    <3>1. script' = [script EXCEPT ![s] = m] /\ tmp' = [tmp EXCEPT ![s] = c] /\ Stands(s, "jstack")
      BY <2>2 DEF counted, GoesTo
    <3>2. m \in MonitorType /\ m.at = "read" /\ m.todo = script[s].todo /\ m.pid = script[s].pid
      BY <1>1 DEF MonitorType
    <3>3. c \in used \cup {None} /\ c \in {None, script[s].pid}
      BY <1>1, <3>1 DEF AgentInv, AgentTypes, AgentTypeOK, CountedInv
    <3> HIDE DEF m, c
    <3> QED
      BY <3>1, <3>2, <3>3
  <2> QED
    BY <2>1, <2>2
<1>4. script' \in [Monitors -> MonitorType] /\ script'[s] = m /\ \A r \in Monitors : r # s => script'[r] = script[r]
  BY <1>1, <1>3
<1>5. tmp' \in [Monitors -> used \cup {None}] /\ tmp'[s] = c /\ \A r \in Monitors : r # s => tmp'[r] = tmp[r]
  BY <1>1, <1>3
<1>6. AgentTypes'
  BY <1>2, <1>3, <1>4, <1>5 DEF AgentInv, AgentTypes, AgentTypeOK
<1>7. CountedInv'
  BY <1>3, <1>4, <1>5 DEF AgentInv, CountedInv, Stands
<1>8. OwnSample'
  BY <1>2, OwnStays DEF AgentInv
<1> QED
  BY <1>6, <1>7, <1>8 DEF AgentInv

\* A script goes on to the next process, or with the lines of this one, and takes its sample.
LEMMA SampleKeeps ==
  ASSUME AgentInv, NEW s \in Monitors, NEW m \in MonitorType,
         script' = [script EXCEPT ![s] = m], m.at = "loop", m.todo \subseteq script[s].todo,
         UNCHANGED <<app, alive, used, jps, tmp>>,
         NEW q, NEW kind, NEW name, NEW of, Add(s, q, kind, name, of), Own(q, kind, name, of)
  PROVE  AgentInv'
<1>1. AgentTypes /\ OwnSample /\ m.todo \subseteq used
  BY DEF AgentInv, AgentTypes, AgentTypeOK
<1>2. OwnSample' /\ DOMAIN body' = Monitors
  BY <1>1, AddKeepsOwn
<1>3. AgentTypes' /\ CountedInv'
  BY <1>1, <1>2, ScriptKeeps
<1> QED
  BY <1>2, <1>3 DEF AgentInv

LEMMA AgentInvLines ==
  ASSUME AgentInv, NEW s \in Monitors, readLines(s) PROVE AgentInv'
<1>1. script \in [Monitors -> MonitorType] /\ script[s] \in MonitorType /\ AgentTypes /\ DOMAIN body = Monitors
  BY DEF AgentInv, AgentTypes
<1>2. UNCHANGED <<app, alive, used, jps, tmp>>
  BY DEF readLines
<1>3. Stands(s, "read") /\ tmp[s] \in {None, script[s].pid}
  BY DEF readLines, AgentInv, CountedInv
<1> DEFINE name == lookup(script[s].pid, script[s].serverName)
           k == [script[s] EXCEPT !.at = "loop", !.pid = None]
           m == [script[s] EXCEPT !.at = "loop", !.pid = None, !.serverName = name]
<1>4. CASE tmp[s] = None
  <2>1. script' = [script EXCEPT ![s] = k] /\ UNCHANGED body
    BY <1>4 DEF readLines
  <2>2. k \in MonitorType /\ k.at = "loop" /\ k.todo = script[s].todo
    BY <1>1 DEF MonitorType
  <2>3. k.todo \subseteq used
    BY <2>2 DEF AgentInv, AgentTypes, AgentTypeOK
  <2> HIDE DEF k
  <2>4. AgentTypes' /\ CountedInv'
    BY <1>1, <1>2, <2>1, <2>2, <2>3, ScriptKeeps
  <2>5. OwnSample'
    BY <1>2, <2>1, OwnStays DEF AgentInv
  <2> QED
    BY <2>4, <2>5 DEF AgentInv
<1>5. CASE tmp[s] # None
  <2>1. script' = [script EXCEPT ![s] = m] /\ Add(s, script[s].pid, "thread", name, {tmp[s]})
    BY <1>5 DEF readLines
  <2>2. name \in SUBSET Apps /\ (Apart(script[s].pid) /\ name # {} => name = {app[script[s].pid]})
    BY <1>1, LookupOwn
  <2> HIDE DEF name
  <2>3. m \in MonitorType /\ m.at = "loop" /\ m.todo = script[s].todo
    BY <1>1, <2>2 DEF MonitorType
  <2>4. Own(script[s].pid, "thread", name, {tmp[s]})
    BY <1>3, <1>5, <2>2 DEF Own
  <2> HIDE DEF m
  <2> QED
    BY <1>2, <2>1, <2>3, <2>4, SampleKeeps
<1> QED
  BY <1>4, <1>5

LEMMA AgentInvMeasure ==
  ASSUME AgentInv, NEW s \in Monitors, network(s) \/ cpu(s) \/ jstat(s) PROVE AgentInv'
<1>1. script \in [Monitors -> MonitorType] /\ script[s] \in MonitorType /\ AgentTypes
  BY DEF AgentInv, AgentTypes
<1>2. UNCHANGED <<app, alive, used, jps, tmp>> /\ script[s].at = "loop"
  BY DEF network, cpu, jstat, Stands
<1>3. PICK q \in next(s), name \in SUBSET Apps, kind \in {"network", "cpu", "gc"} :
        /\ script' = [script EXCEPT ![s].todo = @ \ {q}, ![s].serverName = name]
        /\ \E of : Add(s, q, kind, name, of) /\ Own(q, kind, name, of)
  <2>1. CASE network(s)
    <3>1. PICK q \in next(s) :
            LET name == lookup(q, script[s].serverName)
            IN /\ script' = [script EXCEPT ![s].todo = @ \ {q}, ![s].serverName = name]
               /\ Add(s, q, "network", name, connections(q))
      BY <2>1 DEF network
    <3>2. Own(q, "network", lookup(q, script[s].serverName), connections(q))
      BY <1>1, LookupOwn, ConnectionsOwn DEF Own
    <3>3. lookup(q, script[s].serverName) \in SUBSET Apps
      BY <1>1, LookupOwn
    <3> QED
      BY <3>1, <3>2, <3>3
  <2>2. CASE cpu(s)
    <3>1. PICK q \in next(s) :
            LET name == lookup(q, script[s].serverName)
            IN /\ script' = [script EXCEPT ![s].todo = @ \ {q}, ![s].serverName = name]
               /\ \E of \in usage(q, name) : Add(s, q, "cpu", name, of)
      BY <2>2 DEF cpu
    <3>2. PICK of \in usage(q, lookup(q, script[s].serverName)) :
            Add(s, q, "cpu", lookup(q, script[s].serverName), of)
      BY <3>1
    <3>3. Own(q, "cpu", lookup(q, script[s].serverName), of)
      <4>1. CASE Apart(q) /\ lookup(q, script[s].serverName) # {}
        <5>1. lookup(q, script[s].serverName) = {app[q]}
          BY <1>1, <4>1, LookupOwn
        <5>2. of \subseteq {r \in used : app[r] = app[q]}
          BY <1>1, <5>1, UsageOwn
        <5> QED
          BY <5>1, <5>2 DEF Own
      <4>2. CASE ~ (Apart(q) /\ lookup(q, script[s].serverName) # {})
        BY <4>2 DEF Own
      <4> QED
        BY <4>1, <4>2
    <3>4. lookup(q, script[s].serverName) \in SUBSET Apps
      BY <1>1, LookupOwn
    <3> QED
      BY <3>1, <3>2, <3>3, <3>4
  <2>3. CASE jstat(s)
    <3>1. PICK q \in next(s) :
            LET name == IF q \in alive THEN lookup(q, {}) ELSE {}
            IN /\ script' = [script EXCEPT ![s].todo = @ \ {q}, ![s].serverName = name]
               /\ Add(s, q, "gc", name, {q})
      BY <2>3 DEF jstat
    <3> DEFINE name == IF q \in alive THEN lookup(q, {}) ELSE {}
    <3>2. name \in SUBSET Apps /\ (Apart(q) /\ name # {} => name = {app[q]})
      BY <1>1, LookupOwn
    <3>3. Own(q, "gc", name, {q})
      BY <3>2 DEF Own
    <3> QED
      BY <3>1, <3>2, <3>3
  <2> QED
    BY <2>1, <2>2, <2>3
<1>4. PICK of : Add(s, q, kind, name, of) /\ Own(q, kind, name, of)
  BY <1>3
<1> DEFINE m == [script[s] EXCEPT !.todo = @ \ {q}, !.serverName = name]
<1>5. script' = [script EXCEPT ![s] = m]
  BY <1>3
<1>6. m \in MonitorType /\ m.at = "loop" /\ m.todo \subseteq script[s].todo
  BY <1>1, <1>2 DEF MonitorType
<1> HIDE DEF m
<1> QED
  BY <1>2, <1>4, <1>5, <1>6, SampleKeeps

LEMMA AgentInvNext == AgentInv /\ [AgentNext]_gvars => AgentInv'
<1> SUFFICES ASSUME AgentInv, [AgentNext]_gvars PROVE AgentInv'
  OBVIOUS
<1>1. CASE UNCHANGED gvars
  BY <1>1 DEF gvars, AgentInv, AgentTypes, AgentTypeOK, CountedInv, Stands, OwnSample, OwnName, OwnValues,
                    Apart, Finds, Contains, EndsIn
<1>2. CASE AgentNext
  BY <1>2, AgentInvHost, AgentInvList, AgentInvBegin, AgentInvCount, AgentInvLines, AgentInvMeasure
     DEF AgentNext
<1> QED
  BY <1>1, <1>2

\* However many scripts run on a host and however its processes start and end: no sample of a
\* process whose pid grep finds in no other has the name of another one, or the values of one,
\* but for shares of the processor among those of its name (performance_monitor.sh,
\* sys_performance_monitor.sh).
THEOREM SamplesAlwaysOwn == AgentSpec => []OwnSample
<1>1. AgentInit => AgentInv
  BY AgentInvInit
<1>2. AgentInv /\ [AgentNext]_gvars => AgentInv'
  BY AgentInvNext
<1>3. AgentInv => OwnSample
  BY DEF AgentInv
<1> QED
  BY <1>1, <1>2, <1>3, PTL DEF AgentSpec

--------------------------------------------------------------------------------
(* All of them.                                                                       *)

PartsInv == RedeployInv /\ ConfigInv /\ BodyInv /\ AgentInv

LEMMA PartsBegin == HostInit => PartsInv
<1>1. HostInit => Init /\ ConfigInit /\ RequestInit /\ AgentInit
  BY DEF HostInit, NoRestart, NoConfig, NoBody, NoAgent
<1> QED
  BY <1>1, RedeployStarts, ConfigInvInit, BodyInvInit, AgentInvInit DEF PartsInv

LEMMA PartsStep == [HostNext]_all => [Next]_vars /\ [ConfigNext]_cvars /\ [RequestNext]_bvars /\ [AgentNext]_gvars
  BY DEF HostNext, all

\* The variables of all that surrounds the server keep the types of their values.
THEOREM HostTypesAlways == HostSpec => []HostTypeOK
<1>1. HostInit => PartsInv
  BY PartsBegin
<1>2. PartsInv /\ [HostNext]_all => PartsInv'
  BY PartsStep, RedeployKeeps, ConfigInvNext, BodyInvNext, AgentInvNext DEF PartsInv
<1>3. PartsInv => HostTypeOK
  <2>1. RedeployInv => RedeployTypeOK
    BY DEF RedeployInv
  <2>2. ConfigInv => ConfigTypeOK
    BY DEF ConfigInv, TimesInv, ConfigTypeOK, Vals
  <2>3. BodyInv => RequestTypeOK
    BY DEF BodyInv, BodyTypes, RequestTypeOK, Bytes
  <2>4. AgentInv => AgentTypeOK
    BY DEF AgentInv, AgentTypes
  <2> QED
    BY <2>1, <2>2, <2>3, <2>4 DEF PartsInv, HostTypeOK
<1> QED
  BY <1>1, <1>2, <1>3, PTL DEF HostSpec

================================================================================
