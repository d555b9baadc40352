------------------------------- MODULE ScanPage -------------------------------
(***************************************************************************)
(* The network scanner: the page asks for a scan and polls for the list;   *)
(* choosing a network opens the WiFi settings with it.  The device has one *)
(* scan for all its clients, so others may start it and read it as well.   *)
(***************************************************************************)
EXTENDS SettingsForms

CONSTANT NUM_POLLS  \* polls before the page gives up: 10

ASSUME PollsAssumption == NUM_POLLS \in Nat \ {0}

VARIABLES
  scan,       \* WiFi.scanComplete(): none, running or done
  found,      \* the networks of the last scan
  pollCount,
  timer,      \* setTimeout of the next poll
  since       \* history: a scan has ended since the page asked for one

scanVars == <<scan, found, pollCount, timer, since>>

-----------------------------------------------------------------------------
(* The device.                                                             *)

(* Mutant: the results of an earlier scan are left where they are.         *)
scanNetworksOnce ==
  /\ scan' = IF scan = "none" THEN "running" ELSE scan
  /\ UNCHANGED found

scanNetworks ==
  /\ scan' = "running"
  /\ found' = {}

(* A scan takes its time, and may fail.                                    *)
ScanEnds ==
  /\ scan = "running"
  /\ \/ scan' = "done" /\ found' \in SUBSET Networks /\ since' = TRUE
     \/ scan' = "none" /\ UNCHANGED <<found, since>>
  /\ UNCHANGED <<restVars, settingsVars, pollCount, timer>>

ServeScan ==
  /\ \E r \in Sent("scan") : Answered(r, "done", NoData)
  /\ scanNetworks /\ since' = FALSE
  /\ UNCHANGED <<page, admin, form, stored, bounds, history, settingsVars, pollCount, timer>>

(* Without a scan to tell of, one is started.                              *)
listNetworks ==
  /\ \E r \in Sent("list") :
       Answered(r, "done", IF scan = "done" THEN found ELSE NoData)
  /\ IF scan = "none" THEN scanNetworks ELSE UNCHANGED <<scan, found>>
  /\ UNCHANGED <<page, admin, form, stored, bounds, history, settingsVars, pollCount, timer, since>>

(* Another client asks for a scan, or for a list when there is none.       *)
OtherScans ==
  /\ page = "scan" /\ edits < MaxEdits /\ edits' = edits + 1
  /\ scanNetworks
  /\ UNCHANGED <<page, admin, form, requests, stored, visits, faults, history, settingsVars,
                 pollCount, timer, since>>

-----------------------------------------------------------------------------
(* The page.                                                               *)

finishedWithError == data' = NoData /\ errorMessage' = TRUE

startNetworkScan ==
  /\ page = "scan" /\ (data # NoData \/ errorMessage)
  /\ data' = NoData /\ errorMessage' = FALSE /\ pollCount' = 0
  /\ Send("scan", NoData)
  /\ UNCHANGED <<page, admin, saving, stored, bounds, history, settingsVars, scan, found, timer, since>>

ScanStarted ==
  /\ \/ /\ \E r \in Back("scan", "done") : Take(r)
        /\ timer' = TRUE
        /\ UNCHANGED form
     \/ /\ \E r \in Back("scan", "failed") : Take(r)
        /\ finishedWithError
        /\ UNCHANGED <<saving, timer>>
  /\ UNCHANGED <<page, admin, stored, bounds, history, settingsVars, scan, found, pollCount, since>>

pollNetworkList ==
  /\ timer /\ timer' = FALSE
  /\ Send("list", NoData)
  /\ UNCHANGED <<page, admin, form, stored, bounds, history, settingsVars,
                 scan, found, pollCount, since>>

(* The list, 202 for not yet, or an error.                                 *)
Polled ==
  /\ \/ /\ \E r \in Back("list", "done") : r.answer = NoData /\ Take(r)
        /\ IF pollCount + 1 < NUM_POLLS
             THEN pollCount' = pollCount + 1 /\ timer' = TRUE /\ UNCHANGED form
             ELSE finishedWithError /\ UNCHANGED <<saving, pollCount, timer>>
     \/ /\ \E r \in Back("list", "done") : r.answer # NoData /\ data' = r.answer /\ Take(r)
        /\ UNCHANGED <<saving, errorMessage, pollCount, timer>>
     \/ /\ \E r \in Back("list", "failed") : Take(r)
        /\ finishedWithError /\ UNCHANGED <<saving, pollCount, timer>>
  /\ UNCHANGED <<page, admin, stored, bounds, history, settingsVars, scan, found, since>>

(* Left and opened again, the page starts anew; the polls of the visit     *)
(* before go on, to the device like those of another client (OtherScans).  *)
RevisitScan ==
  /\ page = "scan"
  /\ visits < MaxVisits /\ visits' = visits + 1
  /\ data' = NoData /\ errorMessage' = FALSE /\ requests' = {Request("scan", NoData)}
  /\ pollCount' = 0 /\ timer' = FALSE /\ since' = FALSE
  /\ UNCHANGED <<page, admin, saving, stored, edits, faults, history, settingsVars, scan, found>>

(* The settings page is opened with the network.                           *)
selectNetwork ==
  /\ page = "scan" /\ data # NoData
  /\ selected' \in data
  /\ page' = "wifi"
  /\ Remount
  /\ pollCount' = 0 /\ since' = FALSE
  /\ UNCHANGED <<admin, stored, bounds, late, scan, found, timer>>

ScanAnswers == ScanEnds \/ ServeScan \/ listNetworks \/ ScanStarted \/ pollNetworkList \/ Polled

ScanNext ==
  \/ ScanAnswers
  \/ Lose /\ UNCHANGED <<settingsVars, scanVars>>
  \/ OtherScans \/ startNetworkScan \/ RevisitScan \/ selectNetwork

=============================================================================
