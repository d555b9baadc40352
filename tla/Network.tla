------------------------------- MODULE Network -------------------------------
(***************************************************************************)
(* The station, the access point and the network time of the device: the   *)
(* loops of WiFiSettingsService and APSettingsService on the Services task *)
(* (core 0), the settings that are posted on the async_tcp task, and the   *)
(* handlers of WiFi events on the event task.  They share the WiFi driver, *)
(* _lastConnectionAttempt and _stopping without a lock.                    *)
(*                                                                         *)
(* The driver is external: what its calls do to its mode, its connection   *)
(* and its queue of events is modelled after what the services rely on.    *)
(* WiFi.isConnected() tells what the events handled so far say.            *)
(***************************************************************************)
EXTENDS Naturals, Sequences

CONSTANTS
  Networks, NoNet,
  MaxPosts,   \* bounds: settings that are changed,
  MaxChanges  \* and networks that come and go

ASSUME NetworkAssumption == NoNet \notin Networks /\ MaxPosts \in Nat /\ MaxChanges \in Nat

VARIABLES
  ssid, provisionMode, enabled,  \* settings of the station, the access point and NTP
  open,           \* requests whose connection is still to be closed
  inReach,        \* the networks a station can join
  sta, ap,        \* the two bits of WiFi.getMode(); ap is the captive portal too
  link, up,       \* the network that was begun, and whether it is joined
  connected,      \* WiFi.isConnected()
  events,         \* for the event task
  attemptDue,     \* _lastConnectionAttempt is zero or long ago
  stopping,
  apDue, reconfigureAp,
  sntp,           \* the SNTP client is running
  pc, credentials, want,   \* of the tasks: place, and what they have read
  stale,          \* history: the station was begun with settings of before a change
  raced,          \* history: the last two runs of configureNTP overlapped
  posts, changes

settings == <<ssid, provisionMode, enabled, open>>
driver   == <<inReach, sta, link, up, events>>
locals   == <<credentials, want>>
counts   == <<posts, changes>>
apVars   == <<ap, apDue, reconfigureAp>>
vars == <<settings, driver, connected, apVars, attemptDue, stopping, sntp, pc, locals,
          stale, raced, counts>>

Tasks == {"services", "async", "event"}
Goto(task, from, to) == pc[task] = from /\ pc' = [pc EXCEPT ![task] = to]

-----------------------------------------------------------------------------
(* The driver.                                                             *)

(* WiFi.disconnect(true) does something only while the station is on.      *)
disconnect ==
  /\ sta' = FALSE /\ link' = NoNet /\ up' = FALSE
  /\ events' = events \o (IF link # NoNet THEN <<"disconnected">> ELSE <<>>)
                      \o (IF sta THEN <<"stop">> ELSE <<>>)
  /\ stale' = (stale /\ ~sta)
  /\ UNCHANGED inReach

(* Without a name the station is turned on and nothing is begun.           *)
WiFiBegin ==
  /\ sta' = TRUE /\ link' = credentials
  /\ stale' = (credentials # ssid)
  /\ UNCHANGED <<inReach, up, events>>

Environment == UNCHANGED <<settings, connected, ap, apDue, reconfigureAp, attemptDue, stopping, sntp,
                           pc, locals, raced, posts>>

Join ==
  /\ link \in inReach /\ ~up
  /\ up' = TRUE
  /\ events' = Append(events, "gotIP")
  /\ UNCHANGED <<inReach, sta, link, stale, changes>> /\ Environment

LinkLost == link' = NoNet /\ up' = FALSE /\ events' = Append(events, "disconnected")

(* Out of reach, or refused.                                               *)
JoinFails ==
  /\ link # NoNet /\ ~up
  /\ LinkLost
  /\ UNCHANGED <<inReach, sta, stale, changes>> /\ Environment

NetworksChange ==
  /\ changes < MaxChanges /\ changes' = changes + 1
  /\ inReach' \in SUBSET Networks
  /\ IF up /\ link \notin inReach' THEN LinkLost ELSE UNCHANGED <<link, up, events>>
  /\ UNCHANGED <<sta, stale>> /\ Environment

-----------------------------------------------------------------------------
(* The station, on Services.  WIFI_RECONNECTION_DELAY is much longer than  *)
(* the event task takes for what is waiting for it.                        *)

Elapse ==
  /\ ~attemptDue /\ attemptDue' = TRUE
  /\ events = <<>> /\ pc["event"] = "idle"
  /\ UNCHANGED <<settings, driver, connected, apVars, stopping, sntp, pc, locals, stale, raced, counts>>

ServicesStep == UNCHANGED <<settings, connected, stopping, sntp, want, raced, counts>>

CheckDelay ==
  /\ Goto("services", "wifi", IF attemptDue THEN "attempt" ELSE "ap")
  /\ UNCHANGED <<driver, apVars, attemptDue, credentials, stale>> /\ ServicesStep

Attempt ==
  /\ Goto("services", "attempt", "manageSTA")
  /\ attemptDue' = FALSE
  /\ UNCHANGED <<driver, apVars, credentials, stale>> /\ ServicesStep

manageSTA ==
  /\ Goto("services", "manageSTA", IF connected \/ ssid = NoNet \/ sta THEN "ap" ELSE "config")
  /\ UNCHANGED <<driver, apVars, attemptDue, credentials, stale>> /\ ServicesStep

ReadCredentials ==
  /\ Goto("services", "config", "begin")
  /\ credentials' = ssid
  /\ UNCHANGED <<driver, apVars, attemptDue, stale>> /\ ServicesStep

Begin ==
  /\ Goto("services", "begin", "ap")
  /\ WiFiBegin /\ credentials' = NoNet
  /\ UNCHANGED <<apVars, attemptDue>> /\ ServicesStep

-----------------------------------------------------------------------------
(* The access point, on Services.                                          *)

ManageElapse ==
  /\ ~apDue /\ apDue' = TRUE
  /\ UNCHANGED <<settings, driver, connected, ap, reconfigureAp, attemptDue, stopping, sntp,
                 pc, locals, stale, raced, counts>>

Wanted == provisionMode = "always" \/ (provisionMode = "disconnected" /\ ~connected)

(* Mutant: the access point is only started when all of WiFi is off.       *)
manageAPOff(stations) ==
  IF Wanted
    THEN IF reconfigureAp \/ (~ap /\ ~sta) THEN "startAP" ELSE "wifi"
    ELSE IF ap /\ (reconfigureAp \/ ~stations) THEN "stopAP" ELSE "wifi"

(* Whether there are stations on it is up to them.                         *)
manageAP(stations) ==
  IF Wanted
    THEN IF reconfigureAp \/ ~ap THEN "startAP" ELSE "wifi"
    ELSE IF ap /\ (reconfigureAp \/ ~stations) THEN "stopAP" ELSE "wifi"

APLoop ==
  /\ \E stations \in BOOLEAN : Goto("services", "ap", IF apDue THEN manageAP(stations) ELSE "wifi")
  /\ apDue' = FALSE
  /\ reconfigureAp' = (reconfigureAp /\ ~apDue)
  /\ UNCHANGED <<driver, ap, attemptDue, credentials, stale>> /\ ServicesStep

startAP ==
  /\ Goto("services", "startAP", "wifi")
  /\ ap' = TRUE
  /\ UNCHANGED <<driver, apDue, reconfigureAp, attemptDue, credentials, stale>> /\ ServicesStep

stopAP ==
  /\ Goto("services", "stopAP", "wifi")
  /\ ap' = FALSE
  /\ UNCHANGED <<driver, apDue, reconfigureAp, attemptDue, credentials, stale>> /\ ServicesStep

Services ==
  \/ CheckDelay \/ Attempt \/ manageSTA \/ ReadCredentials \/ Begin
  \/ APLoop \/ startAP \/ stopAP

-----------------------------------------------------------------------------
(* Network time, on either of the other tasks.                             *)

NtpStep == UNCHANGED <<settings, driver, connected, apVars, attemptDue, stopping, credentials, stale, counts>>

(* Entering configureNTP.                                                  *)
Enter(task) == raced' = \E other \in Tasks \ {task} : pc[other] \in {"ntp", "sntp"}

(* Mutant: the setting is not asked for.                                   *)
IsWantedConnected == connected

IsWanted == connected /\ enabled

ReadConnected(task) ==
  /\ Goto(task, "ntp", "sntp")
  /\ want' = [want EXCEPT ![task] = IsWanted]
  /\ UNCHANGED <<sntp, raced>> /\ NtpStep

StartOrStop(task) ==
  /\ Goto(task, "sntp", "idle")
  /\ sntp' = want[task] /\ want' = [want EXCEPT ![task] = FALSE]
  /\ UNCHANGED raced /\ NtpStep

configureNTP(task) == ReadConnected(task) \/ StartOrStop(task)

-----------------------------------------------------------------------------
(* Requests, on async_tcp: what is posted is in force at once, and its     *)
(* handler is called when the connection is closed.  A change of the       *)
(* access point's settings has no handler.                                 *)

Post ==
  /\ pc["async"] = "idle" /\ posts < MaxPosts /\ posts' = posts + 1
  /\ \/ /\ ssid' \in (Networks \cup {NoNet}) /\ open' = open \cup {"wifi"}
        /\ UNCHANGED <<provisionMode, enabled>>
     \/ /\ provisionMode' \in {"always", "disconnected", "never"} \ {provisionMode}
        /\ UNCHANGED <<ssid, enabled, open>>
     \/ /\ enabled' = ~enabled /\ open' = open \cup {"ntp"}
        /\ UNCHANGED <<ssid, provisionMode>>
  /\ UNCHANGED <<driver, connected, apVars, attemptDue, stopping, sntp, pc, locals, stale, raced, changes>>

AsyncStep == UNCHANGED <<ssid, provisionMode, enabled, connected, apVars, sntp, locals, counts>>

CloseNTP ==
  /\ "ntp" \in open /\ open' = open \ {"ntp"}
  /\ Goto("async", "idle", "ntp") /\ Enter("async")
  /\ UNCHANGED <<driver, attemptDue, stopping, stale>> /\ AsyncStep

ResetAttempt ==
  /\ "wifi" \in open /\ open' = open \ {"wifi"}
  /\ Goto("async", "idle", "drop")
  /\ attemptDue' = TRUE
  /\ UNCHANGED <<driver, stopping, stale, raced>> /\ AsyncStep

Reconfigure ==
  /\ Goto("async", "drop", IF sta THEN "mark" ELSE "idle")
  /\ disconnect
  /\ UNCHANGED <<open, attemptDue, stopping, raced>> /\ AsyncStep

MarkStopping ==
  /\ Goto("async", "mark", "idle")
  /\ stopping' = TRUE
  /\ UNCHANGED <<open, driver, attemptDue, stale, raced>> /\ AsyncStep

reconfigureWiFiConnection == ResetAttempt \/ Reconfigure \/ MarkStopping

AsyncTcp == CloseNTP \/ reconfigureWiFiConnection \/ configureNTP("async")

-----------------------------------------------------------------------------
(* Events.  The status is changed before the handlers are called; that of  *)
(* WiFiSettingsService was registered first.                               *)

EventStep == UNCHANGED <<settings, apVars, sntp, locals, counts>>

Event(name, to) ==
  /\ events # <<>> /\ Head(events) = name
  /\ Goto("event", "idle", to)
  /\ events' = Tail(events)
  /\ UNCHANGED <<inReach, sta, link, up, attemptDue, stopping, stale>> /\ EventStep

GotIP == Event("gotIP", "ntp") /\ connected' = TRUE /\ Enter("event")
Disconnected == Event("disconnected", "drop") /\ connected' = FALSE /\ UNCHANGED raced
Stopped == Event("stop", "stop") /\ connected' = FALSE /\ UNCHANGED raced

(* Mutant: the station is left on.                                         *)
onStationModeDisconnectedOn ==
  /\ Goto("event", "drop", "ntp") /\ Enter("event")
  /\ UNCHANGED <<driver, stale, connected, attemptDue, stopping>> /\ EventStep

onStationModeDisconnected ==
  /\ Goto("event", "drop", "ntp") /\ Enter("event")
  /\ disconnect
  /\ UNCHANGED <<connected, attemptDue, stopping>> /\ EventStep

onStationModeStop ==
  /\ Goto("event", "stop", "idle")
  /\ attemptDue' = (attemptDue \/ stopping) /\ stopping' = FALSE
  /\ UNCHANGED <<driver, connected, stale, raced>> /\ EventStep

EventTask ==
  \/ GotIP \/ Disconnected \/ Stopped
  \/ onStationModeDisconnected \/ onStationModeStop \/ configureNTP("event")

-----------------------------------------------------------------------------
(* After begin(): nothing is on, and both loops are due.                   *)
Init ==
  /\ ssid \in Networks \cup {NoNet} /\ provisionMode \in {"always", "disconnected", "never"}
  /\ enabled = TRUE /\ open = {}
  /\ inReach \in {{}, Networks}
  /\ sta = FALSE /\ ap = FALSE /\ link = NoNet /\ up = FALSE
  /\ connected = FALSE /\ events = <<>>
  /\ attemptDue = TRUE /\ stopping = FALSE /\ apDue = TRUE /\ reconfigureAp = TRUE
  /\ sntp = FALSE
  /\ pc = [t \in Tasks |-> IF t = "services" THEN "wifi" ELSE "idle"]
  /\ credentials = NoNet /\ want = [t \in Tasks |-> FALSE]
  /\ stale = FALSE /\ raced = FALSE /\ posts = 0 /\ changes = 0

Next ==
  \/ Services \/ Elapse \/ ManageElapse
  \/ Post \/ AsyncTcp \/ EventTask
  \/ Join \/ JoinFails \/ NetworksChange

Spec == Init /\ [][Next]_vars

(* The tasks go on, time goes by, a network out of reach is not joined,    *)
(* and one in reach is if it is tried again and again.                     *)
Fairness ==
  /\ WF_vars(Services) /\ WF_vars(AsyncTcp) /\ WF_vars(EventTask)
  /\ WF_vars(Elapse) /\ WF_vars(ManageElapse)
  /\ WF_vars(JoinFails /\ link \notin inReach) /\ SF_vars(Join)

FairSpec == Spec /\ Fairness

-----------------------------------------------------------------------------
(* Properties.                                                             *)

(* The SNTP client runs exactly while there is a connection and it is      *)
(* wanted, once the events are handled and the requests over, unless the   *)
(* last two runs of configureNTP, which checks first and acts afterwards,  *)
(* overlapped.                                                             *)
ClockFollows ==
  /\ events = <<>> /\ "ntp" \notin open /\ ~raced
  /\ \A t \in Tasks : pc[t] \notin {"drop", "ntp", "sntp"}
  => (sntp <=> connected /\ enabled)

(* The device does not stay out of reach: unless its access point is never *)
(* to be there, the station is on a network or the access point comes up.  *)
Dark == provisionMode # "never" /\ ~ap /\ ~up
Reachable == Dark ~> ~Dark

(* Whatever was lost or changed, a device whose network is in reach ends   *)
(* up on it: no race of the three tasks leaves the station on and idle, or *)
(* off.  On another network it can only be when the old name was read      *)
(* before a change that found the station off.                             *)
Reconnects ==
  <>[](ssid \in inReach) => <>[](connected /\ (link = ssid \/ stale))

=============================================================================
