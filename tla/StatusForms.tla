----------------------------- MODULE StatusForms -----------------------------
(***************************************************************************)
(* The status pages: the system with its two commands, the network time    *)
(* with the dialog that sets the clock, WiFi and access point.  What a     *)
(* page shows depends on the status it was sent, and so do the keys that   *)
(* the device puts into its answer.                                        *)
(*                                                                         *)
(* stored is the status the device is in, data the answer: a status and    *)
(* the keys that came with it.                                             *)
(***************************************************************************)
EXTENDS RestForm

VARIABLES
  dialog,      \* which one is open: none, restart, factoryReset or time
  processing,  \* a command is on its way
  localTime    \* what the dialog holds is a time

statusVars == <<dialog, processing, localTime>>

StatusPages == {"system", "wifiStatus", "apStatus", "ntpStatus"}

(* The statuses that make a difference to what is sent and shown.          *)
Statuses == [
  system |-> {"esp32", "esp8266"},
  wifiStatus |-> {"disconnected", "connected"},
  apStatus |-> {"inactive", "active", "lingering"},
  ntpStatus |-> {"inactive", "active"}]

-----------------------------------------------------------------------------
(* The keys a page reads to draw its rows.                                 *)

SystemRows(status) ==
  {"esp_platform", "sdk_version", "cpu_freq_mhz", "free_heap", "max_alloc_heap",
   "sketch_size", "free_sketch_space", "flash_chip_size", "flash_chip_speed", "fs_used", "fs_total"}
  \cup IF status = "esp32" THEN {"temprature", "psram_size", "free_psram"} ELSE {"heap_fragmentation"}

(* Mutant: the rows of a connection are always there.                      *)
WiFiRowsAlways(status) == {"status", "ssid", "local_ip", "mac_address", "subnet_mask", "gateway_ip"}

(* The name servers are left out of the row when they are not sent.        *)
WiFiRows(status) ==
  {"status"} \cup IF status = "connected"
                    THEN {"ssid", "local_ip", "mac_address", "subnet_mask", "gateway_ip"}
                    ELSE {}

APRows == {"status", "ip_address", "mac_address", "station_num"}

NTPRows(status) ==
  {"status", "local_time", "utc_time", "uptime"} \cup IF status = "active" THEN {"server"} ELSE {}

Rows(status) == CASE page = "system" -> SystemRows(status)
                  [] page = "wifiStatus" -> WiFiRows(status)
                  [] page = "apStatus" -> APRows
                  [] page = "ntpStatus" -> NTPRows(status)

-----------------------------------------------------------------------------
(* The keys the device sends.                                              *)

systemStatus(status) ==
  {"esp_platform", "cpu_freq_mhz", "free_heap", "max_alloc_heap", "sketch_size", "free_sketch_space",
   "sdk_version", "flash_chip_size", "flash_chip_speed", "fs_total", "fs_used"}
  \cup IF status = "esp32" THEN {"psram_size", "free_psram", "temprature"} ELSE {"heap_fragmentation"}

wifiStatus(status) ==
  {"status"} \cup IF status = "connected"
                    THEN {"local_ip", "mac_address", "rssi", "ssid", "bssid", "channel",
                          "subnet_mask", "gateway_ip"}
                    ELSE {}

apStatus == {"status", "ip_address", "mac_address", "station_num"}
ntpStatus == {"status", "utc_time", "local_time", "server", "uptime"}

Keys(status) == CASE page = "system" -> systemStatus(status)
                  [] page = "wifiStatus" -> wifiStatus(status)
                  [] page = "apStatus" -> apStatus
                  [] page = "ntpStatus" -> ntpStatus

ServeStatus ==
  /\ \E r \in Sent("load") : Answered(r, "done", [status |-> stored, keys |-> Keys(stored)])
  /\ UNCHANGED <<page, admin, form, stored, bounds, history, statusVars>>

(* The clock is set by hand only while NTP does not set it.                *)
configureTime ==
  \E r \in Sent("time") : Answered(r, IF stored = "inactive" THEN "done" ELSE "failed", NoData)

(* The device answers first and restarts when the connection is closed.    *)
restart == \E r \in Sent("restart") \cup Sent("factoryReset") : Answered(r, "done", NoData)

ServeCommand ==
  /\ configureTime \/ restart
  /\ UNCHANGED <<page, admin, form, stored, bounds, history, statusVars>>

(* The network comes and goes, and NTP with it; the platform stays.        *)
StatusChanges ==
  /\ page \in StatusPages \ {"system"}
  /\ edits < MaxEdits /\ edits' = edits + 1
  /\ stored' \in Statuses[page] \ {stored}
  /\ UNCHANGED <<page, admin, form, requests, visits, faults, history, statusVars>>

-----------------------------------------------------------------------------
(* The page.                                                               *)

Open == page \in StatusPages /\ data # NoData /\ dialog = "none"

Refresh ==
  /\ Open
  /\ LoadData
  /\ UNCHANGED <<page, admin, stored, bounds, history, statusVars>>

openConfirm ==
  /\ Open /\ admin /\ page = "system"
  /\ dialog' \in {"restart", "factoryReset"}
  /\ UNCHANGED <<restVars, processing, localTime>>

(* The dialog starts with the time of the browser.                         *)
openSetTime ==
  /\ Open /\ admin /\ page = "ntpStatus" /\ data.status # "active"
  /\ dialog' = "time" /\ localTime' = TRUE
  /\ UNCHANGED <<restVars, processing>>

updateLocalTime ==
  /\ dialog = "time" /\ data # NoData /\ ~processing
  /\ localTime' = ~localTime
  /\ UNCHANGED <<restVars, dialog, processing>>

(* A dialog can be closed while its command is on the way.                 *)
closeDialog ==
  /\ dialog # "none" /\ data # NoData
  /\ dialog' = "none"
  /\ UNCHANGED <<restVars, processing, localTime>>

Command ==
  /\ data # NoData /\ ~processing
  /\ processing' = TRUE
  /\ Send(dialog, NoData)
  /\ UNCHANGED <<page, admin, form, stored, bounds, history, dialog, localTime>>

ConfirmCommand == dialog \in {"restart", "factoryReset"} /\ Command

(* A time that cannot be parsed is complained about and not sent.          *)
SetTime == dialog = "time" /\ localTime /\ Command

CommandDone ==
  /\ processing' = FALSE
  /\ UNCHANGED <<page, admin, saving, stored, bounds, history, localTime>>

(* A command of the system closes its dialog also when it has failed.      *)
ConfirmAnswered ==
  /\ \E kind \in {"restart", "factoryReset"} : \E r \in Back(kind, "done") \cup Back(kind, "failed") :
       /\ dialog' = IF dialog = kind THEN "none" ELSE dialog
       /\ Take(r)
  /\ UNCHANGED <<data, errorMessage>>
  /\ CommandDone

(* The time was set: the page loads itself anew, whatever else is on its   *)
(* way.                                                                    *)
TimeAnswered ==
  /\ \/ \E r \in Back("time", "done") :
          /\ dialog' = "none"
          /\ data' = NoData /\ errorMessage' = FALSE
          /\ requests' = {[q EXCEPT !.last = @ /\ q.kind # "load"] : q \in requests \ {r}}
                           \cup {Request("load", NoData)}
     \/ \E r \in Back("time", "failed") :
          Take(r) /\ UNCHANGED <<dialog, data, errorMessage>>
  /\ CommandDone

CommandAnswered == ConfirmAnswered \/ TimeAnswered

StatusLoaded ==
  /\ \/ \E r \in Back("load", "done") : LoadAnswered(r)
     \/ \E r \in Back("load", "failed") : LoadFailed(r)
  /\ UNCHANGED <<page, admin, stored, bounds, history, statusVars>>

RevisitStatus ==
  /\ Revisit
  /\ dialog' = "none" /\ processing' = FALSE /\ localTime' = TRUE

StatusAnswers == ServeStatus \/ ServeCommand \/ StatusLoaded \/ CommandAnswered

StatusNext ==
  \/ StatusAnswers
  \/ (Lose \/ Retry) /\ UNCHANGED statusVars
  \/ StatusChanges
  \/ Refresh \/ openConfirm \/ openSetTime \/ updateLocalTime \/ closeDialog
  \/ ConfirmCommand \/ SetTime \/ RevisitStatus

=============================================================================
