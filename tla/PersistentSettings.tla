------------------------- MODULE PersistentSettings -------------------------
(***************************************************************************)
(* How settings get to the file system and back: HttpEndpoint,             *)
(* StatefulService and FSPersistence together, for all services at once,   *)
(* with restarts, power cuts, failing writes and the factory reset.        *)
(*                                                                         *)
(* A POST changes the state in memory and is answered; the update handlers *)
(* run, and write the file, only when its client has disconnected.  All of *)
(* that happens on the async_tcp task, one callback at a time.  LittleFS   *)
(* keeps the old file until the new one is closed, so that a power cut     *)
(* finds one or the other.                                                 *)
(***************************************************************************)
EXTENDS Integers, FiniteSets

CONSTANTS
  Services,    \* the services with a settings file
  Values,      \* what a settings record may be
  Defaults,    \* those the updater makes of an empty object: several, as
               \* some factory settings hold random placeholders
  Resetting,   \* services whose updater falls back to defaults on an ERROR
  MaxOpen,     \* requests of one service still connected
  MaxFailures  \* failing writes

ASSUME SettingsAssumption ==
  /\ Defaults \subseteq Values /\ Defaults # {} /\ Resetting \subseteq Services
  /\ MaxOpen \in Nat \ {0} /\ MaxFailures \in Nat

Absent  == "absent"
Corrupt == "corrupt"

ASSUME ContentAssumption == Absent \notin Values /\ Corrupt \notin Values

VARIABLES
  mem,       \* _state of each service
  file,      \* content of its file
  loading,   \* services whose begin() has not run since the start
  open,      \* answered POSTs of each service whose client is connected
  removing,  \* files the factory reset has still to remove
  reset,     \* the factory reset is running
  failures,  \* writes that have failed
  settled,   \* history: the value every closed request agrees on, if any
  wiped,     \* history: reset by the factory reset, and not posted since
  spoilt     \* history: a refused request has replaced the state, and no
             \* other request has saved it since

vars == <<mem, file, loading, open, removing, reset, failures, settled, wiped,
          spoilt>>

NoValue == "no value"
ASSUME NoValueAssumption == NoValue \notin Values

Init ==
  /\ mem \in [Services -> Defaults]    \* constructed, not read yet
  /\ file = [s \in Services |-> Absent]
  /\ loading = Services
  /\ open = [s \in Services |-> 0]
  /\ removing = {} /\ reset = FALSE /\ failures = 0
  /\ settled = [s \in Services |-> NoValue]
  /\ wiped = [s \in Services |-> FALSE]
  /\ spoilt = [s \in Services |-> FALSE]

Up == loading = {} /\ ~reset

(* writeToFS() of a service in state v: it works, the file cannot be       *)
(* opened, or the file system is full half way.  Nobody looks at what it   *)
(* returns.                                                                *)
WriteToFS(s, v) ==
  \/ /\ file' = [file EXCEPT ![s] = v]
     /\ UNCHANGED failures
  \/ /\ failures < MaxFailures
     /\ failures' = failures + 1
     /\ \/ UNCHANGED file
        \/ file' = [file EXCEPT ![s] = Corrupt]

Settle(s, v) ==
  settled' = [settled EXCEPT ![s] = IF file'[s] = v THEN v ELSE NoValue]

(* Mutant: the updater is not run on what was read.                        *)
ReadFromFSUnused(s) ==
  /\ s \in loading
  /\ file[s] \in Values
  /\ loading' = loading \ {s}
  /\ UNCHANGED <<mem, file, open, removing, reset, failures, settled, wiped, spoilt>>

(* readFromFS() from begin(): without a file that parses, the defaults are *)
(* applied and written back.                                               *)
ReadFromFS(s) ==
  /\ s \in loading
  /\ file[s] \in Values
  /\ mem' = [mem EXCEPT ![s] = file[s]]
  /\ loading' = loading \ {s}
  /\ UNCHANGED <<file, open, removing, reset, failures, settled, wiped, spoilt>>

ApplyDefaults(s) ==
  /\ s \in loading
  /\ file[s] \notin Values
  /\ \E d \in Defaults : /\ mem' = [mem EXCEPT ![s] = d]
                         /\ WriteToFS(s, d)
                         /\ Settle(s, d)
  /\ loading' = loading \ {s}
  /\ UNCHANGED <<open, removing, reset, wiped, spoilt>>

(* updateSettings() with a record the updater accepts                      *)
Post(s, v) ==
  /\ Up /\ open[s] < MaxOpen
  /\ mem' = [mem EXCEPT ![s] = v]
  /\ open' = [open EXCEPT ![s] = open[s] + 1]
  /\ settled' = [settled EXCEPT ![s] = NoValue]
  /\ wiped' = [wiped EXCEPT ![s] = FALSE]
  /\ UNCHANGED <<file, loading, removing, reset, failures, spoilt>>

(* ... and with one it refuses: 400, and no update handler.  Most updaters *)
(* leave the state alone, that of LightColors has replaced it by then.     *)
PostRefused(s) ==
  /\ Up
  /\ \/ s \notin Resetting /\ UNCHANGED <<mem, settled, spoilt>>
     \/ /\ s \in Resetting
        /\ \E d \in Defaults : mem' = [mem EXCEPT ![s] = d]
        /\ settled' = [settled EXCEPT ![s] = NoValue]
        /\ spoilt' = [spoilt EXCEPT ![s] = TRUE]
  /\ UNCHANGED <<file, loading, open, removing, reset, failures, wiped>>

(* Mutant: the handler saves only when it is the last one.                 *)
DisconnectFirst(s) ==
  /\ Up /\ open[s] > 0
  /\ open' = [open EXCEPT ![s] = open[s] - 1]
  /\ IF open[s] = MaxOpen
       THEN WriteToFS(s, mem[s])
       ELSE UNCHANGED <<file, failures>>
  /\ settled' = [settled EXCEPT ![s] = IF open'[s] = 0 THEN mem[s] ELSE NoValue]
  /\ spoilt' = [spoilt EXCEPT ![s] = FALSE]
  /\ UNCHANGED <<mem, loading, removing, reset, wiped>>

(* Mutant: the handler runs twice for one request.                         *)
DisconnectTwice(s) ==
  /\ Up
  /\ open' = [open EXCEPT ![s] = open[s] - 1]
  /\ WriteToFS(s, mem[s])
  /\ IF open'[s] = 0 THEN Settle(s, mem[s]) ELSE UNCHANGED settled
  /\ spoilt' = [spoilt EXCEPT ![s] = FALSE]
  /\ UNCHANGED <<mem, loading, removing, reset, wiped>>

(* onDisconnect of a POST: callUpdateHandlers, which writes what the state *)
(* is by now.                                                              *)
Disconnect(s) ==
  /\ Up /\ open[s] > 0
  /\ open' = [open EXCEPT ![s] = open[s] - 1]
  /\ WriteToFS(s, mem[s])
  /\ IF open'[s] = 0 THEN Settle(s, mem[s]) ELSE UNCHANGED settled
  /\ spoilt' = [spoilt EXCEPT ![s] = FALSE]
  /\ UNCHANGED <<mem, loading, removing, reset, wiped>>

(* A restart, a power cut or a watchdog: the requests are gone with the    *)
(* state, and begin() runs again.                                          *)
Restart ==
  /\ loading' = Services
  /\ open' = [s \in Services |-> 0]
  /\ removing' = {} /\ reset' = FALSE
  /\ mem' \in [Services -> Defaults]
  /\ spoilt' = [s \in Services |-> FALSE]
  /\ UNCHANGED <<file, failures, settled, wiped>>

(* factoryReset(), on the disconnect of its own request: it removes the    *)
(* files one by one and restarts.                                          *)
FactoryReset ==
  /\ Up
  /\ reset' = TRUE
  /\ removing' = {s \in Services : file[s] # Absent}
  /\ UNCHANGED <<mem, file, loading, open, failures, settled, wiped, spoilt>>

(* Mutant: what a file holds is emptied, not removed.                      *)
RemoveKept(s) ==
  /\ reset /\ s \in removing
  /\ removing' = removing \ {s}
  /\ settled' = [settled EXCEPT ![s] = NoValue]
  /\ wiped' = [wiped EXCEPT ![s] = TRUE]
  /\ UNCHANGED <<mem, file, loading, open, reset, failures, spoilt>>

Remove(s) ==
  /\ reset /\ s \in removing
  /\ removing' = removing \ {s}
  /\ file' = [file EXCEPT ![s] = Absent]
  /\ settled' = [settled EXCEPT ![s] = NoValue]
  /\ wiped' = [wiped EXCEPT ![s] = TRUE]
  /\ UNCHANGED <<mem, loading, open, reset, failures, spoilt>>

RestartAfterReset == reset /\ removing = {} /\ Restart

Next ==
  \/ \E s \in Services :
       \/ ReadFromFS(s) \/ ApplyDefaults(s)
       \/ \E v \in Values : Post(s, v)
       \/ PostRefused(s) \/ Disconnect(s) \/ Remove(s)
  \/ FactoryReset \/ RestartAfterReset \/ Restart

Spec == Init /\ [][Next]_vars

-----------------------------------------------------------------------------
(* Properties.                                                             *)

TypeOK ==
  /\ mem \in [Services -> Values]
  /\ file \in [Services -> Values \cup {Absent, Corrupt}]
  /\ loading \subseteq Services /\ open \in [Services -> 0 .. MaxOpen]
  /\ removing \subseteq Services /\ reset \in BOOLEAN
  /\ failures \in 0 .. MaxFailures
  /\ settled \in [Services -> Values \cup {NoValue}]
  /\ wiped \in [Services -> BOOLEAN] /\ spoilt \in [Services -> BOOLEAN]

(* The file of a running service holds its state, unless a request that    *)
(* changed it is still connected, a write has failed, or a refused request *)
(* has replaced the state: changes are written without anybody asking.     *)
MemorySaved ==
  \A s \in Services :
    Up /\ open[s] = 0 /\ failures = 0 /\ ~spoilt[s] => file[s] = mem[s]

(* A value on which all closed requests agreed is what the service holds   *)
(* until the next request, over any number of restarts: also the random    *)
(* defaults of a first start.                                              *)
Durable ==
  \A s \in Services : s \notin loading /\ settled[s] # NoValue => mem[s] = settled[s]

(* After a factory reset a service holds defaults until it is told         *)
(* otherwise, even when the power fails before the reset restarts.         *)
ResetForgets ==
  \A s \in Services : Up /\ wiped[s] => mem[s] \in Defaults
=============================================================================
