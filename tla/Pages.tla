-------------------------------- MODULE Pages --------------------------------
(***************************************************************************)
(* All the pages that talk to the device by REST, one at a time: page says *)
(* which one is on the screen.  The rest of the state belongs to the       *)
(* modules of the pages.                                                   *)
(***************************************************************************)
EXTENDS ScanPage, TankForms, StatusForms, UploadPage

vars == <<restVars, settingsVars, tankVars, statusVars, scanVars, uploadVars>>

-----------------------------------------------------------------------------
(* What the device may have stored when the page is opened.                *)

WiFiStored ==
  {[f \in DOMAIN Fields.wifi |->
      CASE f = "static_ip_config" -> static
        [] f \in Servers -> dns[f]
        [] OTHER -> "old"] :
     static \in Flag, dns \in [Servers -> {"old", "empty"}]}

(* A mode that is none of the three can come with the file it is read      *)
(* from.                                                                   *)
APStored ==
  {[f \in DOMAIN Fields.ap |->
      CASE f = "provision_mode" -> mode [] f = "ssid_hidden" -> "off" [] OTHER -> "old"] :
     mode \in {"always", "never", "other"}}

Stored(p) ==
  CASE p = "wifi" -> WiFiStored
    [] p = "scan" -> {w \in WiFiStored : w.static_ip_config = "on" /\ w.dns_ip_1 = "old" /\ w.dns_ip_2 = "old"}
    [] p = "ap" -> APStored
    [] p = "ntp" -> {[enabled |-> "on", server |-> "old", tz_label |-> "old", tz_format |-> "old"]}
    [] p = "ota" -> {[enabled |-> "on", port |-> "old", password |-> "old"]}
    [] p = "security" -> {[jwt_secret |-> "old"]}
    [] p = "points" -> {[start |-> lo, stop |-> hi] : lo, hi \in Positions}
    [] p = "light" -> {[i \in 1..Colors |-> "old"]}
    [] p = "timing" -> {[i \in 1..n |-> Timer("old", "old")] : n \in 0..MAX_AUTOSTART}
    [] p \in StatusPages -> Statuses[p]
    [] OTHER -> {NoData}

(* The pages of a tab that are for admins only.                            *)
WiFiAdminPages == {"scan", "wifi"}
APAdminPages == {"ap"}
NTPAdminPages == {"ntp"}
SystemAdminPages == {"ota", "upload"}
SecurityAdminPages == {"security"}

AdminPages ==
  WiFiAdminPages \cup APAdminPages \cup NTPAdminPages \cup SystemAdminPages \cup SecurityAdminPages

Init ==
  /\ page \in SettingsPages \cup TankPages \cup StatusPages \cup {"scan", "upload"}
  /\ admin \in BOOLEAN /\ (page \in AdminPages => admin)
  /\ data = NoData /\ saving = FALSE /\ errorMessage = FALSE
  /\ requests = CASE page = "upload" -> {}
                  [] page = "scan" -> {Request("scan", NoData)}
                  [] OTHER -> {Request("load", NoData)}
  /\ stored \in Stored(page)
  /\ edits = (IF page \in {"wifi", "ap", "scan"} THEN 1 ELSE 0) /\ visits = 0 /\ faults = 0
  /\ dirty = FALSE /\ late = FALSE
  /\ selected \in {"none"} \cup IF page = "wifi" THEN Networks ELSE {}
  /\ timepopup = FALSE /\ idx = ADD_NEW_TIMER /\ crashed = FALSE
  /\ dialog = "none" /\ processing = FALSE /\ localTime = TRUE
  /\ scan \in IF page = "scan" THEN {"none", "running", "done"} ELSE {"none"}
  /\ found \in IF scan = "done" THEN {{}, Networks} ELSE {{}}
  /\ pollCount = 0 /\ timer = FALSE /\ since = FALSE
  /\ uploads = [u \in Ids |-> Unused]
  /\ running = FALSE /\ staged = FALSE /\ up = TRUE
  /\ uploading = FALSE /\ current = 0 /\ monitor = "off" /\ polls = 0 /\ stray = FALSE

(* A step of a page leaves what belongs to the others alone.               *)
OnSettings(A) == page \in SettingsPages /\ A /\ UNCHANGED <<tankVars, statusVars, scanVars, uploadVars>>
OnTank(A)     == page \in TankPages /\ A /\ UNCHANGED <<settingsVars, statusVars, scanVars, uploadVars>>
OnStatus(A)   == page \in StatusPages /\ A /\ UNCHANGED <<settingsVars, tankVars, scanVars, uploadVars>>
OnScan(A)     == page = "scan" /\ A /\ UNCHANGED <<tankVars, statusVars, uploadVars>>
OnUpload(A)   == page = "upload" /\ A /\ UNCHANGED <<settingsVars, tankVars, statusVars, scanVars>>

Next ==
  \/ OnSettings(SettingsNext)
  \/ OnTank(TankNext)
  \/ OnStatus(StatusNext)
  \/ OnScan(ScanNext)
  \/ OnUpload(UploadNext)

Spec == Init /\ [][Next]_vars

(* The device answers what reaches it, the browser hands every answer to   *)
(* the page and keeps its timers, and a scan ends.                         *)
Fairness ==
  /\ WF_vars(OnSettings(SettingsDevice))
  /\ WF_vars(OnSettings(SettingsLoaded))
  /\ WF_vars(OnSettings(SettingsSaved))
  /\ WF_vars(OnTank(TankDevice))
  /\ WF_vars(OnTank(~crashed /\ TankAnswered))
  /\ WF_vars(OnStatus(ServeStatus))
  /\ WF_vars(OnStatus(ServeCommand))
  /\ WF_vars(OnStatus(StatusLoaded))
  /\ WF_vars(OnStatus(CommandAnswered))
  /\ WF_vars(OnScan(ScanAnswers))
  /\ WF_vars(OnUpload(handleUpload))
  /\ WF_vars(OnUpload(UploadAnswered))
  /\ WF_vars(OnUpload(poll \/ pollTimer))

FairSpec == Spec /\ Fairness

-----------------------------------------------------------------------------
(* Properties.                                                             *)

(* The values the state can have, whatever the page.                       *)
TypeOK ==
  /\ \A r \in requests : r.kind \in Kinds /\ r.phase \in {"sent", "done", "failed"}
  /\ saving \in BOOLEAN /\ errorMessage \in BOOLEAN /\ processing \in BOOLEAN
  /\ idx \in 0..(MAX_AUTOSTART + 1)
  /\ crashed => page = "timing"
  /\ dialog \in {"none", "restart", "factoryReset", "time"}
  /\ pollCount \in 0..(NUM_POLLS - 1)
  /\ current \in {0} \cup Ids /\ (uploading <=> current # 0)

(* Every field the validator complains about is on the form, so that the   *)
(* user can mend it: no settings page refuses to save for a reason that is *)
(* out of sight (validators and the conditions in the pages' JSX).         *)
Repairable ==
  page \in SettingsPages /\ data # NoData => Invalid(data) \subseteq Shown(data)

(* What the device makes of a field that the page has let pass.            *)
Swapped(d) == ~IsSet(d.dns_ip_1) /\ IsSet(d.dns_ip_2)
IsExcused(old, d, f) ==
  \/ f \in Statics \cup Servers /\ (d[f] = "unset" \/ (f \in Servers /\ Swapped(d)))
  \/ page = "wifi" /\ f = "static_ip_config" /\ \E s \in Statics : d[s] = "unset"
  \/ page = "ap" /\ f = "provision_mode" /\ old.provision_mode = "other"

(* A save that the device answers with success has stored every field the  *)
(* page showed as the user left it: the validators of the page refuse all  *)
(* that update() would quietly change, but for name servers that move up,  *)
(* an address the device takes for none, and an access point mode chosen   *)
(* while the stored one is invalid (WiFiSettings::update, AP update).      *)
KeepsSettings ==
  [][\A r \in Sent("save") :
       page \in SettingsPages /\ ServeSave(r, stored')
         => \A f \in Shown(r.body) : stored'[f] = r.body[f] \/ IsExcused(stored, r.body, f)]_vars

(* A form that is loaded, has nothing on its way, shows no error and was   *)
(* not touched shows what the device has stored, unless a save of an       *)
(* earlier visit was served after its load (useRest).                      *)
ShownIsStored ==
  /\ page \in SettingsPages \cup TankPages
  /\ data # NoData /\ ~dirty /\ ~errorMessage /\ ~late
  /\ \A r \in requests : ~r.mine
  => data = stored

(* No page has two saves, two commands, two polls or, but for the time of  *)
(* NTP, two loads on their way (saving, processing, the buttons' disabled).*)
OneRequest ==
  LET mine == {r \in requests : r.mine}
  IN /\ Cardinality({r \in mine : r.kind = "save"}) <= 1
     /\ Cardinality({r \in mine : r.kind \in Commands}) <= 1
     /\ Cardinality({r \in mine : r.kind = "load"}) > 1 => page = "ntpStatus"
     /\ page = "scan" => Cardinality(requests) + (IF timer THEN 1 ELSE 0) <= 1

(* A status page finds in the answer every key its rows read               *)
(* (WiFiStatusForm, SystemStatusForm and the services that answer them).   *)
RowsSent ==
  page \in StatusPages /\ data # NoData => Rows(data.status) \subseteq data.keys

(* The networks on the screen come from a scan that ended after the page   *)
(* asked for one, never from the results another client left there.        *)
FreshList == page = "scan" /\ data # NoData => since

(* While an update is running there is an open connection that will abort  *)
(* it when it closes: "make sure we end the update if the client hangs     *)
(* up" (UploadFirmwareService.cpp:31).                                     *)
UpdateHasOwner ==
  running => \E u \in Ids : IsOpen(u) /\ uploads[u].hangup = "abort" /\ uploads[u].written > 0

(* Nothing the user waits for lasts forever: a save, a command, a load or  *)
(* a scan that shows a spinner, an upload, the wait for the restart.  Left *)
(* out are the pages of the tank, whose spinner outlives a failed load.    *)
Spinning == data = NoData /\ ~errorMessage /\ page \notin TankPages \cup {"upload"}
Settles ==
  /\ saving ~> ~saving \/ crashed
  /\ processing ~> ~processing
  /\ Spinning ~> ~Spinning
  /\ uploading ~> ~uploading
  /\ monitor \in {"polling", "waiting"} ~> monitor \notin {"polling", "waiting"}

=============================================================================
