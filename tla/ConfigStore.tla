------------------------------ MODULE ConfigStore ------------------------------
(* conf/main.properties, as Config of the server and the administrator use it: the   *)
(* server loads it when it starts, a daemon thread loads it again when it is newer,   *)
(* and a hook writes it back when the server exits.  The only callers of get are in   *)
(* the constructor of AppMonitorJettyServer, long before the thread looks the first   *)
(* time.                                                                              *)
EXTENDS Integers

CONSTANTS
  Asked,     \* the keys the constructor asks for
  Value,     \* the values an administrator may write
  Default,   \* the default of a key
  Nothing,   \* no value
  MaxEdits   \* bound: edits of the administrator

VARIABLES
  file,       \* the file: the value of each key
  mtime,      \* when it was last written; two writes are told apart
  edits,      \* edits so far
  server,     \* off, load, stat, get, up, storing, stored
  p, lmd, changed,
  refresher,  \* sleep, load, failed: its last load failed, and it sleeps
  missed,     \* the time of a file that was written between firstLoad and stat
  due         \* what the administrator counts on in the server and, later, in the file

cvars == <<file, mtime, edits, server, p, lmd, changed, refresher, missed, due>>

Keys == Asked \cup {"autoUpdate"}
Empty == [k \in Keys |-> Nothing]
Files == [Keys -> Value \cup {Nothing}]

ConfigInit ==
  /\ file \in Files
  /\ mtime = 1 /\ edits = 0
  /\ server = "off" /\ p = Empty /\ lmd = 0 /\ changed = FALSE
  /\ refresher = "sleep" /\ missed = 0 /\ due = file

\* Properties.load: the keys of the file are put, the others stay.
Load == p' = [k \in Keys |-> IF file[k] # Nothing THEN file[k] ELSE p[k]]

\* The administrator saves the file with other values.
edit ==
  /\ edits < MaxEdits /\ edits' = edits + 1
  /\ \E f \in Files : file' = f /\ due' = IF server = "storing" THEN Empty ELSE f
  /\ mtime' = mtime + 1
  /\ UNCHANGED <<server, p, lmd, changed, refresher, missed>>

--------------------------------------------------------------------------------
(* The server starts: load, lastModified, and the questions of the constructor.     *)

boot ==
  /\ server \in {"off", "stored"}
  /\ server' = "load"
  /\ p' = Empty /\ lmd' = 0 /\ changed' = FALSE /\ refresher' = "sleep"
  /\ UNCHANGED <<file, mtime, edits, missed, due>>

firstLoad ==
  /\ server = "load" /\ server' = "stat"
  /\ Load /\ missed' = mtime
  /\ UNCHANGED <<file, mtime, edits, lmd, changed, refresher, due>>

stat ==
  /\ server = "stat" /\ server' = "get"
  /\ lmd' = mtime /\ missed' = IF missed = mtime THEN 0 ELSE mtime
  /\ UNCHANGED <<file, mtime, edits, p, changed, refresher, due>>

\* Mutant of get: the default is set whether or not there is a value.
getAlways ==
  /\ server = "get" /\ server' = "up"
  /\ p' = [k \in Keys |-> IF k \in Asked THEN Default ELSE p[k]]
  /\ changed' = TRUE
  /\ UNCHANGED <<file, mtime, edits, lmd, refresher, missed, due>>

\* get(k, defaultValue) of each key the constructor asks for: a default is set and will
\* be written.
get ==
  /\ server = "get" /\ server' = "up"
  /\ p' = [k \in Keys |-> IF k \in Asked /\ p[k] = Nothing THEN Default ELSE p[k]]
  /\ changed' = \E k \in Asked : p[k] = Nothing
  /\ UNCHANGED <<file, mtime, edits, lmd, refresher, missed, due>>

--------------------------------------------------------------------------------
(* The thread "Config file refresher".                                              *)

Runs == server \in {"up", "storing"}

\* Mutant of refresh: lmd is set to what the file has when it was loaded.
refreshLate ==
  /\ Runs
  /\ \/ refresher # "load" /\ mtime > lmd /\ refresher' = "load" /\ Load /\ UNCHANGED lmd
     \/ refresher = "load" /\ refresher' = "sleep" /\ lmd' = mtime /\ UNCHANGED p
  /\ UNCHANGED <<file, mtime, edits, server, changed, missed, due>>

\* A minute is over and the file is newer; then it is loaded, or an exception is logged
\* and lmd is as if it had been.
refresh ==
  /\ Runs
  /\ \/ refresher # "load" /\ mtime > lmd /\ refresher' = "load" /\ lmd' = mtime /\ UNCHANGED p
     \/ refresher = "load" /\ refresher' = "sleep" /\ Load /\ UNCHANGED lmd
     \/ refresher = "load" /\ refresher' = "failed" /\ UNCHANGED <<p, lmd>>
  /\ UNCHANGED <<file, mtime, edits, server, changed, missed, due>>

--------------------------------------------------------------------------------
(* The server exits.                                                                *)

\* The server knows what the file was last edited to.
Loaded == refresher = "sleep" /\ lmd = mtime /\ mtime # missed

\* The hook "store-config" opens the file, which is empty then, if a default was set and
\* the key autoUpdate is there.  What the server did not know will be overwritten.
terminate ==
  /\ server = "up"
  /\ IF changed /\ p["autoUpdate"] # Nothing
     THEN /\ server' = "storing" /\ file' = Empty /\ mtime' = mtime + 1
          /\ due' = IF Loaded THEN due ELSE Empty
     ELSE /\ server' = "off" /\ UNCHANGED <<file, mtime, due>>
  /\ UNCHANGED <<edits, p, lmd, changed, refresher, missed>>

\* store: all the properties.
store ==
  /\ server = "storing" /\ server' = "stored"
  /\ file' = p /\ mtime' = mtime + 1
  /\ UNCHANGED <<edits, p, lmd, changed, refresher, missed, due>>

\* The process is killed; when it was storing, the file stays empty.
kill ==
  /\ server \notin {"off", "stored"} /\ server' = "off"
  /\ due' = IF server = "storing" THEN Empty ELSE due
  /\ UNCHANGED <<file, mtime, edits, p, lmd, changed, refresher, missed>>

ConfigNext ==
  \/ edit
  \/ boot \/ firstLoad \/ stat \/ get
  \/ refresh
  \/ terminate \/ store \/ kill

ConfigSpec == ConfigInit /\ [][ConfigNext]_cvars

--------------------------------------------------------------------------------

ConfigTypeOK ==
  /\ file \in [Keys -> Value \cup {Nothing, Default}]
  /\ p \in [Keys -> Value \cup {Nothing, Default}]
  /\ lmd <= mtime

\* "is changed,reloading ..." (Config.java:67): when the server has looked
\* at the file that is there, it has the values of it, though the administrator may save
\* the file while it is loaded.  Not so when it was saved while the server started.
Fresh ==
  server = "up" /\ Loaded => \A k \in Keys : due[k] # Nothing => p[k] = due[k]

\* "auto update config form default values" (Config.java:41): the store at the exit adds
\* defaults to the file and keeps the values that the server had loaded from it.
EditsKept ==
  server = "stored" => \A k \in Keys : due[k] # Nothing => file[k] = due[k]

\* What the server has, and what it leaves, is what the administrator wrote (Config: the
\* refresher, store-config).
ConfigKept == Fresh /\ EditsKept

================================================================================
