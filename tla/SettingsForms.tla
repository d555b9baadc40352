---------------------------- MODULE SettingsForms ----------------------------
(***************************************************************************)
(* The settings pages: WiFi, access point, network time, OTA and the JWT   *)
(* secret.  A page is its fields, which of them are shown, what its        *)
(* validator says of them, and what update() on the device makes of them.  *)
(*                                                                         *)
(* A text or number is one of two legal values, missing, or one that the   *)
(* page calls bad.  An address may also be "unset": legal dotted numbers   *)
(* that the device reads as INADDR_NONE.                                   *)
(***************************************************************************)
EXTENDS RestForm

VARIABLE selected  \* selectedNetwork: none, or one from the scanner

settingsVars == <<selected>>

SettingsPages == {"wifi", "ap", "ntp", "ota", "security"}
Networks == {"open", "locked"}

Text == {"new", "empty", "bad"}
Address == Text \cup {"unset"}
Flag == {"on", "off"}
Choice == {"old", "new"}

Statics == {"local_ip", "gateway_ip", "subnet_mask"}
Servers == {"dns_ip_1", "dns_ip_2"}

(* What a user can put into the fields of a page.                          *)
Fields == [
  wifi |-> [f \in {"ssid", "password", "hostname"} \cup {"static_ip_config"} \cup Statics \cup Servers |->
              CASE f = "static_ip_config" -> Flag
                [] f \in Statics \cup Servers -> Address
                [] OTHER -> Text],
  ap |-> [f \in {"provision_mode", "ssid", "password", "channel", "ssid_hidden", "max_clients"} \cup Statics |->
            CASE f = "provision_mode" -> {"always", "disconnected", "never"}
              [] f = "ssid_hidden" -> Flag
              [] f \in {"channel", "max_clients"} -> Choice
              [] f \in Statics -> Address
              [] OTHER -> Text],
  ntp |-> [enabled |-> Flag, server |-> Text, tz_label |-> Choice, tz_format |-> Choice],
  ota |-> [enabled |-> Flag, port |-> Text, password |-> Text],
  security |-> [jwt_secret |-> Text]]

-----------------------------------------------------------------------------
(* What is on the form.                                                    *)

WiFiShown(d) ==
  (IF selected = "none" THEN {"ssid"} ELSE {})
  \cup (IF selected # "open" THEN {"password"} ELSE {})
  \cup {"hostname", "static_ip_config"}
  \cup (IF d.static_ip_config = "on" THEN Statics \cup Servers ELSE {})

isAPEnabled(d) == d.provision_mode \in {"always", "disconnected"}

APShown(d) ==
  {"provision_mode"}
  \cup IF isAPEnabled(d)
         THEN {"ssid", "password", "channel", "ssid_hidden", "max_clients"} \cup Statics
         ELSE {}

NTPShown == {"enabled", "server", "tz_label"}
OTAShown == {"enabled", "port", "password"}
SecurityShown == {"jwt_secret"}

Shown(d) == CASE page = "wifi" -> WiFiShown(d)
              [] page = "ap" -> APShown(d)
              [] page = "ntp" -> NTPShown
              [] page = "ota" -> OTAShown
              [] page = "security" -> SecurityShown

-----------------------------------------------------------------------------
(* The validators: the fields with a complaint.                            *)

Missing(d, fs) == {f \in fs : d[f] = "empty"}
Malformed(d, fs) == {f \in fs : d[f] = "bad"}

isValidIpAddress(v) == v \in {"old", "new", "factory", "unset"}
IP_ADDRESS_VALIDATOR(d, fs) == {f \in fs : d[f] # "empty" /\ ~isValidIpAddress(d[f])}

(* Mutant: the gateway may be left out.                                    *)
WiFiInvalidGateway(d) ==
  Missing(d, {"ssid", "hostname"}) \cup Malformed(d, {"ssid", "password", "hostname"})
  \cup IF d.static_ip_config = "on"
         THEN Missing(d, Statics \ {"gateway_ip"}) \cup IP_ADDRESS_VALIDATOR(d, Statics \cup Servers)
         ELSE {}

(* Mutant: addresses are checked with the static configuration off.        *)
WiFiInvalidAlways(d) ==
  Missing(d, {"ssid", "hostname"}) \cup Malformed(d, {"ssid", "password", "hostname"})
  \cup Missing(d, Statics) \cup IP_ADDRESS_VALIDATOR(d, Statics \cup Servers)

WiFiInvalid(d) ==
  Missing(d, {"ssid", "hostname"}) \cup Malformed(d, {"ssid", "password", "hostname"})
  \cup IF d.static_ip_config = "on"
         THEN Missing(d, Statics) \cup IP_ADDRESS_VALIDATOR(d, Statics \cup Servers)
         ELSE {}

APInvalid(d) ==
  IF isAPEnabled(d)
    THEN Missing(d, {"ssid", "password"} \cup Statics) \cup Malformed(d, {"ssid", "password"})
         \cup IP_ADDRESS_VALIDATOR(d, Statics)
    ELSE {}

NTPInvalid(d) == Missing(d, {"server", "tz_label"}) \cup Malformed(d, {"server"})
OTAInvalid(d) == Missing(d, {"port", "password"}) \cup Malformed(d, {"port", "password"})
SecurityInvalid(d) == Missing(d, {"jwt_secret"}) \cup Malformed(d, {"jwt_secret"})

Invalid(d) == CASE page = "wifi" -> WiFiInvalid(d)
                [] page = "ap" -> APInvalid(d)
                [] page = "ntp" -> NTPInvalid(d)
                [] page = "ota" -> OTAInvalid(d)
                [] page = "security" -> SecurityInvalid(d)

-----------------------------------------------------------------------------
(* update() of the services.                                               *)

ReadIP(v, default) == IF isValidIpAddress(v) THEN v ELSE default
IsSet(v) == isValidIpAddress(v) /\ v # "unset"
ReadWiFiIP(v) == IF IsSet(v) THEN v ELSE "empty"

(* The name servers swap places when only the second is set, and a static  *)
(* configuration that is not complete is turned off.                       *)
WiFiUpdate(d) ==
  LET ip == [f \in Statics \cup Servers |-> ReadWiFiIP(d[f])]
      swap == ip.dns_ip_1 = "empty" /\ ip.dns_ip_2 # "empty"
      complete == \A f \in Statics : ip[f] # "empty"
  IN [f \in DOMAIN d |->
        CASE f = "static_ip_config" -> IF complete THEN d[f] ELSE "off"
          [] f = "dns_ip_1" /\ swap -> ip.dns_ip_2
          [] f = "dns_ip_2" /\ swap -> "empty"
          [] f \in Statics \cup Servers /\ ~swap -> ip[f]
          [] f \in Statics /\ swap -> ip[f]
          [] OTHER -> d[f]]

(* The mode that was stored, not the new one, decides about the default.   *)
APUpdate(old, d) ==
  [f \in DOMAIN d |->
     CASE f = "provision_mode" /\ old.provision_mode \notin Fields.ap.provision_mode -> "always"
       [] f \in Statics -> ReadIP(d[f], "factory")
       [] OTHER -> d[f]]

SettingsUpdate(old, d) == CASE page = "wifi" -> WiFiUpdate(d)
                            [] page = "ap" -> APUpdate(old, d)
                            [] OTHER -> d

SettingsDevice ==
  /\ \/ \E r \in Sent("load") : ServeLoad(r)
     \/ \E r \in Sent("save") : ServeSave(r, SettingsUpdate(stored, r.body))
  /\ UNCHANGED settingsVars

-----------------------------------------------------------------------------
(* The page.                                                               *)

(* A network chosen in the scanner fills the form once.                    *)
FromNetwork(d) ==
  [f \in DOMAIN d |-> CASE f = "ssid" -> "new"
                        [] f = "hostname" -> d.hostname
                        [] f = "static_ip_config" -> "off"
                        [] OTHER -> "empty"]

SettingsLoaded ==
  \/ \E r \in Back("load", "done") :
       /\ page = "wifi" /\ selected # "none"
       /\ data' = FromNetwork(r.answer) /\ Take(r)
       /\ dirty' = TRUE
       /\ UNCHANGED <<saving, errorMessage, page, admin, stored, bounds, late, settingsVars>>
  \/ \E r \in Back("load", "done") :
       /\ page # "wifi" \/ selected = "none"
       /\ LoadAnswered(r)
       /\ dirty' = FALSE
       /\ UNCHANGED <<page, admin, stored, bounds, late, settingsVars>>
  \/ \E r \in Back("load", "failed") :
       /\ LoadFailed(r)
       /\ UNCHANGED <<page, admin, stored, bounds, history, settingsVars>>

SettingsSaved ==
  \/ \E r \in Back("save", "done") :
       /\ SaveAnswered(r)
       /\ dirty' = FALSE
       /\ UNCHANGED <<page, admin, stored, bounds, late, settingsVars>>
  \/ \E r \in Back("save", "failed") :
       /\ SaveFailed(r)
       /\ UNCHANGED <<page, admin, stored, bounds, history, settingsVars>>

updateFormValue ==
  /\ data # NoData
  /\ \E f \in Shown(data) \ {"tz_label"} : \E v \in Fields[page][f] \ {data[f]} :
       Edited([data EXCEPT ![f] = v])
  /\ UNCHANGED settingsVars

changeTimeZone ==
  /\ page = "ntp" /\ data # NoData
  /\ \E v \in Choice \ {data.tz_label} :
       Edited([data EXCEPT !.tz_label = v, !.tz_format = v])
  /\ UNCHANGED settingsVars

deselectNetwork ==
  /\ page = "wifi" /\ selected # "none" /\ data # NoData
  /\ selected' = "none"
  /\ UNCHANGED restVars

(* Mutant: the button can be pressed while saving.                         *)
validateAndSubmitTwice ==
  /\ data # NoData /\ Cardinality(requests) < 3
  /\ Invalid(data) = {}
  /\ Save(data)
  /\ UNCHANGED <<page, admin, stored, bounds, history, selected>>

(* Nothing is sent while the validator complains.                          *)
validateAndSubmit ==
  /\ data # NoData /\ ~saving
  /\ Invalid(data) = {}
  /\ Save(data)
  /\ UNCHANGED <<page, admin, stored, bounds, history, selected>>

(* The page is opened again by its tab or, for WiFi, from the scanner.     *)
RevisitSettings ==
  /\ Revisit
  /\ selected' \in {"none"} \cup IF page = "wifi" THEN Networks ELSE {}

SettingsAnswers == SettingsDevice \/ SettingsLoaded \/ SettingsSaved

SettingsNext ==
  \/ SettingsAnswers
  \/ (Lose \/ Retry) /\ UNCHANGED settingsVars
  \/ updateFormValue \/ changeTimeZone \/ deselectNetwork
  \/ validateAndSubmit \/ RevisitSettings

=============================================================================
