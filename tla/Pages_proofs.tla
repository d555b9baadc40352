---------------------------- MODULE Pages_proofs ----------------------------
(***************************************************************************)
(* Proofs about Pages, for any number of edits, visits, lost requests,     *)
(* timings, polls, uploads and chunks.                                     *)
(***************************************************************************)
EXTENDS Pages, FiniteSetTheorems, TLAPS

-----------------------------------------------------------------------------
(* Requests.                                                               *)

(* A request is a record with these fields.                                *)
IsRequest(r) ==
  /\ r = [kind |-> r.kind, body |-> r.body, phase |-> r.phase,
          answer |-> r.answer, mine |-> r.mine, last |-> r.last]
  /\ r.kind \in Kinds /\ r.phase \in {"sent", "done", "failed"}
  /\ r.mine \in BOOLEAN /\ r.last \in BOOLEAN

(* What a request keeps when a newer one of its kind is sent.              *)
Unmarked(x, r) ==
  /\ x.kind = r.kind /\ x.body = r.body /\ x.phase = r.phase
  /\ x.answer = r.answer /\ x.mine = r.mine

LEMMA RequestIs ==
  ASSUME NEW kind \in Kinds, NEW body
  PROVE  LET x == Request(kind, body)
         IN  /\ IsRequest(x) /\ x.kind = kind /\ x.body = body
             /\ x.phase = "sent" /\ x.answer = NoData /\ x.mine = TRUE
BY DEF Request, IsRequest

(* The requests of which the proofs say more.                              *)
LEMMA Asked ==
  ASSUME NEW kind \in {"load", "scan", "list"}
  PROVE  LET x == Request(kind, NoData)
         IN  IsRequest(x) /\ x.kind = kind /\ x.phase = "sent" /\ x.mine
<1>1. kind \in Kinds
  BY DEF Kinds
<1> QED BY <1>1, RequestIs

(* A request that the device has answered, and one that its page forgets.  *)
Reply(r, phase, answer) == [r EXCEPT !.phase = phase, !.answer = answer]
Forgotten(r) == [r EXCEPT !.mine = FALSE, !.last = FALSE]

LEMMA ReplyIs ==
  ASSUME NEW r, IsRequest(r), NEW phase \in {"sent", "done", "failed"}, NEW answer
  PROVE  LET x == Reply(r, phase, answer)
         IN  /\ IsRequest(x) /\ x.kind = r.kind /\ x.body = r.body
             /\ x.phase = phase /\ x.answer = answer /\ x.mine = r.mine
<1> DEFINE y == [r EXCEPT !.phase = phase]
           z == [y EXCEPT !.answer = answer]
<1>1. z = Reply(r, phase, answer)
  BY DEF Reply
<1>2. /\ IsRequest(y) /\ y.kind = r.kind /\ y.body = r.body
      /\ y.phase = phase /\ y.answer = r.answer /\ y.mine = r.mine
  BY DEF IsRequest
<1> HIDE DEF y
<1>3. /\ IsRequest(z) /\ z.kind = y.kind /\ z.body = y.body
      /\ z.phase = y.phase /\ z.answer = answer /\ z.mine = y.mine
  BY <1>2 DEF IsRequest
<1> HIDE DEF z
<1> QED BY <1>1, <1>2, <1>3

LEMMA UnmarkedIs ==
  ASSUME NEW r, IsRequest(r), NEW last \in BOOLEAN
  PROVE  LET x == [r EXCEPT !.last = last]
         IN  IsRequest(x) /\ Unmarked(x, r)
BY DEF IsRequest, Unmarked

LEMMA ForgottenIs ==
  ASSUME NEW r, IsRequest(r)
  PROVE  LET x == Forgotten(r)
         IN  /\ IsRequest(x) /\ x.kind = r.kind /\ x.body = r.body
             /\ x.phase = r.phase /\ x.answer = r.answer /\ x.mine = FALSE
<1>1. ASSUME NEW mine \in BOOLEAN, NEW y, y = [r EXCEPT !.mine = mine]
      PROVE  /\ IsRequest(y) /\ y.kind = r.kind /\ y.body = r.body
             /\ y.phase = r.phase /\ y.answer = r.answer /\ y.mine = mine
  BY <1>1 DEF IsRequest
<1>2. PICK y : y = [r EXCEPT !.mine = FALSE]
  OBVIOUS
<1>3. /\ IsRequest(y) /\ y.kind = r.kind /\ y.body = r.body
      /\ y.phase = r.phase /\ y.answer = r.answer /\ y.mine = FALSE
  BY <1>1, <1>2
<1>4. Forgotten(r) = [y EXCEPT !.last = FALSE]
  BY <1>2 DEF Forgotten
<1>5. IsRequest(Forgotten(r)) /\ Unmarked(Forgotten(r), y)
  BY <1>3, <1>4, UnmarkedIs
<1> QED BY <1>3, <1>5 DEF Unmarked

(* What is on its way after each of the steps that change it.              *)
(* The mark of the newest of its kind passes on.                           *)
Unmark(r, kind) == [r EXCEPT !.last = @ /\ r.kind # kind]

LEMMA UnmarkIs ==
  ASSUME NEW r, IsRequest(r), NEW kind
  PROVE  IsRequest(Unmark(r, kind)) /\ Unmarked(Unmark(r, kind), r)
<1>1. (r.last /\ r.kind # kind) \in BOOLEAN
  OBVIOUS
<1> QED BY <1>1, UnmarkedIs DEF Unmark

LEMMA SendRequests ==
  ASSUME \A r \in requests : IsRequest(r), NEW kind \in Kinds, NEW body, Send(kind, body)
  PROVE  \A x \in requests' :
           /\ IsRequest(x)
           /\ x = Request(kind, body) \/ \E r \in requests : x = Unmark(r, kind) /\ Unmarked(x, r)
<1>1. requests' = {Unmark(r, kind) : r \in requests} \cup {Request(kind, body)}
  BY DEF Send, Unmark
<1>2. IsRequest(Request(kind, body))
  BY RequestIs
<1>3. \A r \in requests : IsRequest(Unmark(r, kind)) /\ Unmarked(Unmark(r, kind), r)
  BY UnmarkIs
<1> QED BY <1>1, <1>2, <1>3

LEMMA AnsweredRequests ==
  ASSUME \A r \in requests : IsRequest(r), NEW r \in requests,
         NEW phase \in {"sent", "done", "failed"}, NEW answer, Answered(r, phase, answer)
  PROVE  \A x \in requests' :
           /\ IsRequest(x)
           /\ \/ x \in requests /\ x # r
              \/ /\ x = Reply(r, phase, answer) /\ x.kind = r.kind /\ x.body = r.body
                 /\ x.phase = phase /\ x.answer = answer /\ x.mine = r.mine
<1>1. IsRequest(r)
  OBVIOUS
<1>2. requests' = (requests \ {r}) \cup {Reply(r, phase, answer)}
  BY DEF Answered, Reply
<1> QED BY <1>1, <1>2, ReplyIs

LEMMA AnsweredThere ==
  ASSUME \A r \in requests : IsRequest(r), NEW r \in requests,
         NEW phase \in {"sent", "done", "failed"}, NEW answer, Answered(r, phase, answer)
  PROVE  /\ \A q \in requests : q # r => q \in requests'
         /\ Reply(r, phase, answer) \in requests' /\ Reply(r, phase, answer).mine = r.mine
<1>1. IsRequest(r)
  OBVIOUS
<1>2. requests' = (requests \ {r}) \cup {Reply(r, phase, answer)}
  BY DEF Answered, Reply
<1> QED BY <1>1, <1>2, ReplyIs

(* A page that is opened again asks for its data; of what was sent before, *)
(* saves and commands are on their way still.                              *)
LEMMA RemountRequests ==
  ASSUME \A r \in requests : IsRequest(r), Remount
  PROVE  \A x \in requests' :
           /\ IsRequest(x)
           /\ \/ x = Request("load", NoData)
              \/ \E r \in requests : /\ r.kind \in {"save"} \cup Commands /\ x.kind = r.kind
                                     /\ x.body = r.body /\ x.phase = "sent" /\ x.mine = FALSE
<1> SUFFICES ASSUME NEW x \in requests'
             PROVE  /\ IsRequest(x)
                    /\ \/ x = Request("load", NoData)
                       \/ \E r \in requests : /\ r.kind \in {"save"} \cup Commands /\ x.kind = r.kind
                                              /\ x.body = r.body /\ x.phase = "sent" /\ x.mine = FALSE
  OBVIOUS
<1>1. CASE x = Request("load", NoData)
  BY <1>1, RequestIs DEF Kinds
<1>2. ASSUME NEW r \in requests, r.kind \in {"save"} \cup Commands, r.phase = "sent",
             x = Forgotten(r)
      PROVE  /\ IsRequest(x) /\ x.kind = r.kind /\ x.body = r.body
             /\ x.phase = "sent" /\ x.mine = FALSE
  BY <1>2, ForgottenIs
<1> QED BY <1>1, <1>2 DEF Remount, Forgotten

(* A page without commands leaves none.                                    *)
LEMMA RemountForm ==
  ASSUME \A r \in requests : IsRequest(r), \A r \in requests : r.kind \notin Commands, Remount
  PROVE  \A x \in requests' :
           /\ IsRequest(x)
           /\ \/ x = Request("load", NoData)
              \/ \E r \in requests : /\ r.kind = "save" /\ x.kind = "save" /\ x.body = r.body
                                     /\ x.phase = "sent" /\ x.mine = FALSE
BY RemountRequests

-----------------------------------------------------------------------------
(* The forms: the settings pages and those of the tank.                    *)

FormPages == SettingsPages \cup TankPages

(* The values of what every page has.                                      *)
Flags == saving \in BOOLEAN /\ errorMessage \in BOOLEAN /\ dirty \in BOOLEAN /\ late \in BOOLEAN
Counters == edits \in Nat /\ visits \in Nat /\ faults \in Nat

Values == (\A r \in requests : IsRequest(r)) /\ Flags /\ Counters

(* The page waits for one answer at most: for a load it has no data, for a *)
(* save it is saving, and an error has ended the wait.  An answer on its   *)
(* way is what is stored, and so is what the page shows when it waits for  *)
(* none, unless it was changed or a save that is not its own came after.   *)
FormInv ==
  page \in FormPages =>
    /\ \A r \in requests : r.kind \in {"load", "save"}
    /\ \A r, q \in requests : r.mine /\ q.mine => r = q
    /\ \A r \in requests : r.mine =>
         /\ ~errorMessage
         /\ r.kind = "load" => data = NoData
         /\ r.kind = "save" => saving
         /\ r.phase = "done" /\ ~late => r.answer = stored
    /\ data # NoData /\ ~dirty /\ ~errorMessage /\ ~late /\ (\A r \in requests : ~r.mine)
         => data = stored

(* What the steps of the forms have in common.                             *)
Served(r) ==
  /\ r \in requests /\ Answered(r, "done", stored')
  /\ r.mine => ~late'
  /\ ~r.mine => late' \/ UNCHANGED <<late, stored>>
  /\ UNCHANGED <<page, form, dirty>>

Failed(r) ==
  /\ r \in requests /\ Answered(r, "failed", NoData)
  /\ UNCHANGED <<page, form, stored, history>>

Taken(r) ==
  /\ r \in requests /\ r.mine /\ r.phase = "done" /\ Take(r)
  /\ dirty' \/ (data' = r.answer /\ ~dirty')
  /\ UNCHANGED <<page, errorMessage, stored, late>>

Refused(r) ==
  /\ r \in requests /\ r.mine /\ Take(r)
  /\ errorMessage'
  /\ UNCHANGED <<page, stored, late>>

Retried == data = NoData /\ errorMessage /\ LoadData /\ UNCHANGED <<page, stored, history>>

Changed == data # NoData /\ dirty' /\ UNCHANGED <<page, saving, errorMessage, requests, stored, late>>

Submitted == data # NoData /\ ~saving /\ Save(data) /\ UNCHANGED <<page, stored, history>>

Opened == Remount /\ UNCHANGED <<page, stored, late>>

Still == UNCHANGED <<page, form, requests, stored, history>>

FormStep ==
  \/ \E r \in requests : Served(r) \/ Failed(r) \/ Taken(r) \/ Refused(r)
  \/ Retried \/ Changed \/ Submitted \/ Opened \/ Still

LEMMA ServeLoadStep == ASSUME Values, NEW r \in requests, ServeLoad(r) PROVE Served(r) /\ late' \in BOOLEAN
<1>1. r.mine \in BOOLEAN /\ late \in BOOLEAN
  BY DEF Values, Flags, IsRequest
<1>2. Answered(r, "done", stored')
  BY DEF ServeLoad
<1>3. late' = (late /\ ~r.mine)
  BY DEF ServeLoad
<1>4. (r.mine => ~late') /\ (~r.mine => late' = late) /\ late' \in BOOLEAN
  BY <1>1, <1>3
<1> QED BY <1>2, <1>4 DEF ServeLoad, Served

LEMMA ServeSaveStep ==
  ASSUME Values, NEW r \in requests, NEW new, ServeSave(r, new) PROVE Served(r) /\ late' \in BOOLEAN
<1>1. r.mine \in BOOLEAN
  BY DEF Values, Flags, IsRequest
<1>2. Answered(r, "done", stored')
  BY DEF ServeSave
<1>3. (r.mine => ~late') /\ (~r.mine => late') /\ late' \in BOOLEAN
  BY <1>1 DEF ServeSave
<1> QED BY <1>2, <1>3 DEF ServeSave, Served

LEMMA SettingsFormStep == ASSUME Values, SettingsNext PROVE FormStep
<1>1. CASE SettingsDevice
  <2>1. ASSUME NEW r \in Sent("load"), ServeLoad(r) PROVE FormStep
    BY <2>1, ServeLoadStep DEF Sent, FormStep
  <2>2. ASSUME NEW r \in Sent("save"), ServeSave(r, SettingsUpdate(stored, r.body)) PROVE FormStep
    BY <2>2, ServeSaveStep DEF Sent, FormStep
  <2> QED BY <1>1, <2>1, <2>2 DEF SettingsDevice
<1>2. CASE SettingsLoaded
  BY <1>2 DEF SettingsLoaded, Back, LoadAnswered, LoadFailed, Taken, Refused, FormStep, history, form
<1>3. CASE SettingsSaved
  BY <1>3 DEF SettingsSaved, Back, SaveAnswered, SaveFailed, Taken, Refused, FormStep, history, form
<1>4. CASE Lose
  BY <1>4 DEF Lose, Failed, FormStep
<1>5. CASE Retry
  BY <1>5 DEF Retry, Retried, FormStep
<1>6. CASE updateFormValue \/ changeTimeZone
  BY <1>6 DEF updateFormValue, changeTimeZone, Edited, Changed, FormStep
<1>7. CASE deselectNetwork
  BY <1>7 DEF deselectNetwork, restVars, Still, FormStep
<1>8. CASE validateAndSubmit
  BY <1>8 DEF validateAndSubmit, Submitted, FormStep
<1>9. CASE RevisitSettings
  BY <1>9 DEF RevisitSettings, Revisit, Opened, FormStep
<1> QED BY <1>1, <1>2, <1>3, <1>4, <1>5, <1>6, <1>7, <1>8, <1>9 DEF SettingsNext, SettingsAnswers

LEMMA TankFormStep == ASSUME Values, TankNext PROVE FormStep
<1>1. CASE TankDevice
  <2>1. ASSUME NEW r \in Sent("load"), ServeLoad(r) PROVE FormStep
    BY <2>1, ServeLoadStep DEF Sent, FormStep
  <2>2. ASSUME NEW r \in Sent("save"), ServeSave(r, r.body) PROVE FormStep
    BY <2>2, ServeSaveStep DEF Sent, FormStep
  <2>3. ASSUME NEW r \in Sent("save"), RefuseSave(r) PROVE FormStep
    BY <2>3 DEF Sent, RefuseSave, Failed, FormStep
  <2> QED BY <1>1, <2>1, <2>2, <2>3 DEF TankDevice
<1>2. CASE TankAnswered
  BY <1>2 DEF TankAnswered, Back, LoadAnswered, LoadFailed, SaveAnswered, SaveFailed, Taken, Refused, FormStep
<1>3. CASE Lose
  BY <1>3 DEF Lose, Failed, FormStep
<1>4. CASE handleChanges \/ generateHexCode
  BY <1>4 DEF handleChanges, generateHexCode, Edited, Changed, FormStep
<1>5. CASE saveTimer \/ toggleBit \/ deleteTimer
  BY <1>5 DEF saveTimer, toggleBit, deleteTimer, OnTimings, Edited, Changed, FormStep
<1>6. CASE openTimerPopUp \/ closeTimerSetBox
  BY <1>6 DEF openTimerPopUp, closeTimerSetBox, restVars, Still, FormStep
<1>7. CASE validateAndSave
  BY <1>7 DEF validateAndSave, CanSavePoints, CanSaveLight, CanSaveTiming, Submitted, FormStep
<1>8. CASE RevisitTank
  BY <1>8 DEF RevisitTank, Revisit, Opened, FormStep
<1> QED BY <1>1, <1>2, <1>3, <1>4, <1>5, <1>6, <1>7, <1>8 DEF TankNext, TankAnswers

(* No page is left but the scanner, for the WiFi settings.                 *)
LEMMA PageStays == ASSUME Next PROVE page' = page \/ (page = "scan" /\ selectNetwork)
<1>1. CASE OnSettings(SettingsNext)
  BY <1>1 DEF OnSettings, SettingsNext, SettingsAnswers, SettingsDevice, ServeLoad, ServeSave, SettingsLoaded,
     SettingsSaved, Lose, Retry, updateFormValue, changeTimeZone, Edited, deselectNetwork, validateAndSubmit,
     RevisitSettings, Revisit, restVars
<1>2. CASE OnTank(TankNext)
  BY <1>2 DEF OnTank, TankNext, TankAnswers, TankDevice, ServeLoad, ServeSave, RefuseSave, TankAnswered, Lose,
     handleChanges, generateHexCode, Edited, openTimerPopUp, closeTimerSetBox, saveTimer, toggleBit, deleteTimer,
     validateAndSave, RevisitTank, Revisit, restVars
<1>3. CASE OnStatus(StatusNext)
  BY <1>3 DEF OnStatus, StatusNext, StatusAnswers, ServeStatus, ServeCommand, StatusLoaded, CommandAnswered,
     ConfirmAnswered, TimeAnswered, CommandDone, Lose, Retry, StatusChanges, Refresh, openConfirm, openSetTime,
     updateLocalTime, closeDialog, ConfirmCommand, SetTime, Command, RevisitStatus, Revisit, restVars
<1>4. CASE OnScan(ScanNext)
  BY <1>4 DEF OnScan, ScanNext, ScanAnswers, ScanEnds, ServeScan, listNetworks, ScanStarted, pollNetworkList,
     Polled, Lose, OtherScans, startNetworkScan, RevisitScan, restVars
<1>5. CASE OnUpload(UploadNext)
  BY <1>5 DEF OnUpload, UploadNext, UploadAnswers, handleUpload, HangUp, UploadAnswered, poll, pollTimer,
     UploadLost, Boot, uploadFile, OtherUploads, cancelUpload, strayPoll, RevisitUpload, restVars
<1> QED BY <1>1, <1>2, <1>3, <1>4, <1>5 DEF Next

LEMMA FormStepKeeps == ASSUME Values, FormInv, page \in FormPages, FormStep PROVE FormInv'
<1>a. /\ \A r \in requests : IsRequest(r)
      /\ \A r \in requests : r.kind \in {"load", "save"}
      /\ \A r, q \in requests : r.mine /\ q.mine => r = q
      /\ \A r \in requests : r.mine =>
           /\ ~errorMessage
           /\ r.kind = "load" => data = NoData
           /\ r.kind = "save" => saving
           /\ r.phase = "done" /\ ~late => r.answer = stored
      /\ data # NoData /\ ~dirty /\ ~errorMessage /\ ~late /\ (\A r \in requests : ~r.mine)
           => data = stored
  BY DEF Values, FormInv
<1>1. ASSUME NEW r \in requests, Served(r) PROVE FormInv'
  <2>1. \A x \in requests' :
           \/ x \in requests /\ x # r
           \/ x = Reply(r, "done", stored') /\ x.kind = r.kind /\ x.phase = "done" /\ x.answer = stored' /\ x.mine = r.mine
    BY <1>a, <1>1, AnsweredRequests DEF Served
  <2>2. Reply(r, "done", stored') \in requests' /\ Reply(r, "done", stored').mine = r.mine
    BY <1>a, <1>1, AnsweredThere DEF Served
  <2>3. \A x \in requests' : x.kind \in {"load", "save"}
    BY <1>a, <2>1
  <2>4. \A x, y \in requests' : x.mine /\ y.mine => x = y
    BY <1>a, <2>1
  <2>5. \A x \in requests' : x.mine =>
          /\ ~errorMessage'
          /\ x.kind = "load" => data' = NoData
          /\ x.kind = "save" => saving'
          /\ x.phase = "done" /\ ~late' => x.answer = stored'
    BY <1>a, <1>1, <2>1 DEF Served, form
  <2>6. data' # NoData /\ ~dirty' /\ ~errorMessage' /\ ~late' /\ (\A x \in requests' : ~x.mine)
          => data' = stored'
    <3>1. CASE r.mine
      BY <3>1, <2>2
    <3>2. CASE ~r.mine
      <4>1. \A q \in requests : q.mine => q \in requests'
        BY <1>1, <1>a, <3>2, AnsweredThere DEF Served
      <4> QED BY <1>a, <1>1, <3>2, <4>1 DEF Served, form
    <3> QED BY <3>1, <3>2
  <2> QED BY <2>3, <2>4, <2>5, <2>6 DEF FormInv
<1>2. ASSUME NEW r \in requests, Failed(r) PROVE FormInv'
  <2>1. \A x \in requests' :
           \/ x \in requests /\ x # r
           \/ x = Reply(r, "failed", NoData) /\ x.kind = r.kind /\ x.phase = "failed" /\ x.mine = r.mine
    BY <1>a, <1>2, AnsweredRequests DEF Failed
  <2>2. Reply(r, "failed", NoData) \in requests' /\ Reply(r, "failed", NoData).mine = r.mine
    BY <1>a, <1>2, AnsweredThere DEF Failed
  <2>3. \A q \in requests : q # r => q \in requests'
    BY <1>2 DEF Failed, Answered
  <2> QED BY <1>a, <1>2, <2>1, <2>2, <2>3 DEF Failed, FormInv, form, history
<1>3. ASSUME NEW r \in requests, Taken(r) PROVE FormInv'
  BY <1>a, <1>3 DEF Taken, Take, FormInv
<1>4. ASSUME NEW r \in requests, Refused(r) PROVE FormInv'
  BY <1>a, <1>4 DEF Refused, Take, FormInv
<1>5. CASE Retried
  <2>1. \A x \in requests' : x = Request("load", NoData) \/ \E r \in requests : Unmarked(x, r)
    BY <1>a, <1>5, SendRequests DEF Retried, LoadData, Kinds
  <2>2. Request("load", NoData).kind = "load" /\ Request("load", NoData).phase = "sent"
    BY DEF Request
  <2> QED BY <1>a, <1>5, <2>1, <2>2 DEF Retried, LoadData, Unmarked, FormInv
<1>6. CASE Changed
  BY <1>a, <1>6 DEF Changed, FormInv
<1>7. CASE Submitted
  <2>1. \A x \in requests' : x = Request("save", data) \/ \E r \in requests : Unmarked(x, r)
    BY <1>a, <1>7, SendRequests DEF Submitted, Save, Kinds
  <2>2. Request("save", data).kind = "save" /\ Request("save", data).phase = "sent" /\ Request("save", data).mine
    BY DEF Request
  <2>3. Request("save", data) \in requests'
    BY <1>7 DEF Submitted, Save, Send
  <2> QED BY <1>a, <1>7, <2>1, <2>2, <2>3 DEF Submitted, Save, Unmarked, FormInv
<1>8. CASE Opened
  <2>1. \A x \in requests' :
           \/ x = Request("load", NoData)
           \/ \E r \in requests : x.kind = "save" /\ x.mine = FALSE
    BY <1>a, <1>8, RemountForm DEF Commands, Opened
  <2>2. Request("load", NoData).kind = "load" /\ Request("load", NoData).phase = "sent"
    BY DEF Request
  <2> QED BY <1>a, <1>8, <2>1, <2>2 DEF Opened, Remount, FormInv
<1>9. CASE Still
  BY <1>9 DEF Still, FormInv, form, history
<1> QED BY <1>1, <1>2, <1>3, <1>4, <1>5, <1>6, <1>7, <1>8, <1>9 DEF FormStep

LEMMA FormStepRequests == ASSUME Values, FormStep PROVE \A x \in requests' : IsRequest(x)
<1>a. \A r \in requests : IsRequest(r)
  BY DEF Values
<1>1. ASSUME NEW r \in requests, Served(r) \/ Failed(r) PROVE \A x \in requests' : IsRequest(x)
  BY <1>a, <1>1, AnsweredRequests DEF Served, Failed
<1>2. ASSUME NEW r \in requests, Taken(r) \/ Refused(r) PROVE \A x \in requests' : IsRequest(x)
  BY <1>a, <1>2 DEF Taken, Refused, Take
<1>3. CASE Retried
  BY <1>a, <1>3, SendRequests DEF Retried, LoadData, Kinds
<1>4. CASE Submitted
  BY <1>a, <1>4, SendRequests DEF Submitted, Save, Kinds
<1>5. CASE Opened
  BY <1>a, <1>5, RemountRequests DEF Opened
<1>6. CASE Changed \/ Still
  BY <1>a, <1>6 DEF Changed, Still
<1> QED BY <1>1, <1>2, <1>3, <1>4, <1>5, <1>6 DEF FormStep

LEMMA EditedValues == ASSUME Values, NEW new, Edited(new) PROVE Flags' /\ Counters'
<1>1. Flags'
  BY DEF Edited, Values, Flags
<1>2. Counters'
  BY DEF Edited, Values, Counters
<1> QED BY <1>1, <1>2

LEMMA RevisitValues == ASSUME Values, Revisit PROVE Flags' /\ Counters'
<1>1. Flags'
  BY DEF Revisit, Remount, Values, Flags
<1>2. Counters'
  BY DEF Revisit, Values, Counters
<1> QED BY <1>1, <1>2

LEMMA LoseValues == ASSUME Values, Lose PROVE Flags' /\ Counters'
<1>1. Flags'
  BY DEF Lose, form, history, Values, Flags
<1>2. Counters'
  BY DEF Lose, Values, Counters
<1> QED BY <1>1, <1>2

LEMMA ServeLoadValues == ASSUME Values, NEW r \in requests, ServeLoad(r) PROVE Flags' /\ Counters'
BY ServeLoadStep DEF ServeLoad, form, bounds, Values, Flags, Counters

LEMMA ServeSaveValues ==
  ASSUME Values, NEW r \in requests, NEW new, ServeSave(r, new) PROVE Flags' /\ Counters'
BY ServeSaveStep DEF ServeSave, form, bounds, Values, Flags, Counters

LEMMA SettingsValues == ASSUME Values, SettingsNext PROVE Values'
<1>a. \A x \in requests' : IsRequest(x)
  BY SettingsFormStep, FormStepRequests
<1> SUFFICES Flags' /\ Counters'
  BY <1>a DEF Values
<1>b. Flags /\ Counters
  BY DEF Values
<1>1. CASE SettingsDevice
  <2>1. ASSUME NEW r \in Sent("load"), ServeLoad(r) PROVE Flags' /\ Counters'
    BY <2>1, ServeLoadValues DEF Sent
  <2>2. ASSUME NEW r \in Sent("save"), ServeSave(r, SettingsUpdate(stored, r.body)) PROVE Flags' /\ Counters'
    BY <2>2, ServeSaveValues DEF Sent
  <2> QED BY <1>1, <2>1, <2>2 DEF SettingsDevice
<1>2. CASE SettingsLoaded
  BY <1>b, <1>2 DEF SettingsLoaded, LoadAnswered, LoadFailed, history, form, bounds, Flags, Counters
<1>3. CASE SettingsSaved
  BY <1>b, <1>3 DEF SettingsSaved, SaveAnswered, SaveFailed, history, form, bounds, Flags, Counters
<1>4. CASE Lose
  BY <1>4, LoseValues
<1>5. CASE Retry
  BY <1>b, <1>5 DEF Retry, LoadData, bounds, history, Flags, Counters
<1>6. CASE updateFormValue \/ changeTimeZone
  BY <1>6, EditedValues DEF updateFormValue, changeTimeZone
<1>7. CASE deselectNetwork
  BY <1>b, <1>7 DEF deselectNetwork, restVars, form, bounds, history, Flags, Counters
<1>8. CASE validateAndSubmit
  BY <1>b, <1>8 DEF validateAndSubmit, Save, bounds, history, Flags, Counters
<1>9. CASE RevisitSettings
  BY <1>9, RevisitValues DEF RevisitSettings
<1> QED BY <1>1, <1>2, <1>3, <1>4, <1>5, <1>6, <1>7, <1>8, <1>9 DEF SettingsNext, SettingsAnswers

LEMMA TankValues == ASSUME Values, TankNext PROVE Values'
<1>a. \A x \in requests' : IsRequest(x)
  BY TankFormStep, FormStepRequests
<1> SUFFICES Flags' /\ Counters'
  BY <1>a DEF Values
<1>b. Flags /\ Counters
  BY DEF Values
<1>1. CASE TankDevice
  <2>1. ASSUME NEW r \in Sent("load"), ServeLoad(r) PROVE Flags' /\ Counters'
    BY <2>1, ServeLoadValues DEF Sent
  <2>2. ASSUME NEW r \in Sent("save"), ServeSave(r, r.body) PROVE Flags' /\ Counters'
    BY <2>2, ServeSaveValues DEF Sent
  <2>3. ASSUME NEW r \in Sent("save"), RefuseSave(r) PROVE Flags' /\ Counters'
    BY <1>b, <2>3 DEF RefuseSave, form, bounds, history, Flags, Counters
  <2> QED BY <1>1, <2>1, <2>2, <2>3 DEF TankDevice
<1>2. CASE TankAnswered
  BY <1>b, <1>2 DEF TankAnswered, LoadAnswered, LoadFailed, SaveAnswered, SaveFailed, bounds, Flags, Counters
<1>3. CASE Lose
  BY <1>3, LoseValues
<1>4. CASE handleChanges \/ generateHexCode
  BY <1>4, EditedValues DEF handleChanges, generateHexCode
<1>5. CASE saveTimer \/ toggleBit \/ deleteTimer
  BY <1>5, EditedValues DEF saveTimer, toggleBit, deleteTimer
<1>6. CASE openTimerPopUp \/ closeTimerSetBox
  BY <1>b, <1>6 DEF openTimerPopUp, closeTimerSetBox, restVars, form, bounds, history, Flags, Counters
<1>7. CASE validateAndSave
  BY <1>b, <1>7 DEF validateAndSave, Save, bounds, history, Flags, Counters
<1>8. CASE RevisitTank
  BY <1>8, RevisitValues DEF RevisitTank
<1> QED BY <1>1, <1>2, <1>3, <1>4, <1>5, <1>6, <1>7, <1>8 DEF TankNext, TankAnswers

-----------------------------------------------------------------------------
(* The status pages.                                                       *)

(* A command of the page is on its way only while it is processed, and     *)
(* alone.                                                                  *)
StatusRequests ==
  /\ \A r \in requests : r.kind \in Commands \/ (r.kind = "load" /\ r.mine)
  /\ \A r, q \in requests : r.kind \in Commands /\ q.kind \in Commands /\ r.mine /\ q.mine => r = q
  /\ \A r \in requests : r.kind \in Commands /\ r.mine => processing

(* But for the page that sets the clock, there is no data and no error     *)
(* while the status is loaded.                                             *)
StatusLoads ==
  page # "ntpStatus" =>
    /\ dialog # "time" /\ \A r \in requests : r.kind # "time"
    /\ \A r, q \in requests : r.kind = "load" /\ q.kind = "load" => r = q
    /\ \A r \in requests : r.kind = "load" => data = NoData /\ ~errorMessage

(* What is shown came with the keys of its status.                         *)
IsStatus(a) == a = [status |-> a.status, keys |-> Keys(a.status)]
StatusContents ==
  /\ \A r \in requests : r.kind = "load" /\ r.phase = "done" => IsStatus(r.answer)
  /\ data # NoData => IsStatus(data)

StatusInv == page \in StatusPages => StatusRequests /\ StatusLoads /\ StatusContents

LEMMA TimeRequests ==
  ASSUME \A r \in requests : IsRequest(r), NEW r,
         requests' = {[q EXCEPT !.last = @ /\ q.kind # "load"] : q \in requests \ {r}}
                       \cup {Request("load", NoData)}
  PROVE  \A x \in requests' :
           /\ IsRequest(x)
           /\ \/ x = Request("load", NoData)
              \/ \E q \in requests \ {r} : x = Unmark(q, "load") /\ Unmarked(x, q)
<1>1. requests' = {Unmark(q, "load") : q \in requests \ {r}} \cup {Request("load", NoData)}
  BY DEF Unmark
<1>2. IsRequest(Request("load", NoData))
  BY RequestIs DEF Kinds
<1>3. \A q \in requests \ {r} : IsRequest(Unmark(q, "load")) /\ Unmarked(Unmark(q, "load"), q)
  BY UnmarkIs
<1> QED BY <1>1, <1>2, <1>3

(* What the steps of a status page do to its requests.                     *)
StatusAnswered(r, phase, answer) ==
  /\ r \in requests /\ Answered(r, phase, answer)
  /\ \/ phase = "done" /\ r.kind = "load" /\ answer = [status |-> stored, keys |-> Keys(stored)]
     \/ phase = "done" /\ r.kind # "load"
     \/ phase = "failed"
  /\ UNCHANGED <<page, form, dialog, processing>>

StatusTaken(r) ==
  /\ r \in requests /\ r.kind = "load" /\ Take(r)
  /\ (r.phase = "done" /\ data' = r.answer) \/ data' = data
  /\ UNCHANGED <<page, dialog, processing>>

CommandTaken(r) ==
  /\ r \in requests /\ r.kind \in Commands /\ r.mine /\ Take(r)
  /\ dialog' \in {dialog, "none"}
  /\ UNCHANGED <<page, data, errorMessage>>

TimeTaken(r) ==
  /\ r \in requests /\ r.kind = "time" /\ r.mine
  /\ requests' = {[q EXCEPT !.last = @ /\ q.kind # "load"] : q \in requests \ {r}}
                   \cup {Request("load", NoData)}
  /\ dialog' = "none" /\ data' = NoData
  /\ UNCHANGED page

StatusReload ==
  /\ data # NoData \/ errorMessage
  /\ LoadData
  /\ UNCHANGED <<page, dialog, processing>>

StatusOpened == Remount /\ dialog' = "none" /\ UNCHANGED page

CommandSent(kind) ==
  /\ kind \in Commands /\ dialog = kind /\ ~processing /\ processing'
  /\ Send(kind, NoData)
  /\ UNCHANGED <<page, form, dialog>>

StatusStill ==
  /\ dialog' \in {dialog, "none", "restart", "factoryReset"} \cup (IF page = "ntpStatus" THEN {"time"} ELSE {})
  /\ UNCHANGED <<page, form, requests, processing>>

StatusStep ==
  \/ \E r \in requests : \/ \E phase, answer : StatusAnswered(r, phase, answer)
                         \/ StatusTaken(r) \/ CommandTaken(r) \/ TimeTaken(r)
  \/ StatusReload \/ StatusOpened \/ StatusStill
  \/ \E kind \in Commands : CommandSent(kind)

LEMMA StatusSteps == ASSUME page \in StatusPages, StatusNext PROVE StatusStep
<1>1. CASE ServeStatus
  <2>1. PICK r \in Sent("load") : Answered(r, "done", [status |-> stored, keys |-> Keys(stored)])
    BY <1>1 DEF ServeStatus
  <2>2. StatusAnswered(r, "done", [status |-> stored, keys |-> Keys(stored)])
    BY <1>1, <2>1 DEF ServeStatus, Sent, StatusAnswered, statusVars
  <2> QED BY <2>1, <2>2 DEF StatusStep, Sent
<1>2. CASE ServeCommand
  <2>1. PICK r \in requests, phase \in {"done", "failed"} : Answered(r, phase, NoData) /\ r.kind # "load"
    BY <1>2 DEF ServeCommand, configureTime, restart, Sent
  <2>2. StatusAnswered(r, phase, NoData)
    BY <1>2, <2>1 DEF ServeCommand, StatusAnswered, statusVars
  <2> QED BY <2>1, <2>2 DEF StatusStep
<1>3. CASE StatusLoaded
  BY <1>3 DEF StatusLoaded, Back, LoadAnswered, LoadFailed, StatusTaken, statusVars, StatusStep
<1>4. CASE ConfirmAnswered
  BY <1>4 DEF ConfirmAnswered, CommandDone, Back, Commands, CommandTaken, StatusStep
<1>5. CASE TimeAnswered
  BY <1>5 DEF TimeAnswered, CommandDone, Back, Commands, CommandTaken, TimeTaken, StatusStep
<1>6. CASE Lose /\ UNCHANGED statusVars
  <2>1. PICK r \in requests : Answered(r, "failed", NoData)
    BY <1>6 DEF Lose
  <2>2. StatusAnswered(r, "failed", NoData)
    BY <1>6, <2>1 DEF Lose, StatusAnswered, statusVars
  <2> QED BY <2>1, <2>2 DEF StatusStep
<1>7. CASE Retry /\ UNCHANGED statusVars
  BY <1>7 DEF Retry, StatusReload, statusVars, StatusStep
<1>8. CASE Refresh
  BY <1>8 DEF Refresh, Open, StatusReload, statusVars, StatusStep
<1>9. CASE StatusChanges \/ openConfirm \/ openSetTime \/ updateLocalTime \/ closeDialog
  BY <1>9 DEF StatusChanges, openConfirm, openSetTime, updateLocalTime, closeDialog, restVars, statusVars,
     StatusStill, StatusStep
<1>10. CASE ConfirmCommand \/ SetTime
  <2>1. dialog \in Commands /\ CommandSent(dialog)
    BY <1>10 DEF ConfirmCommand, SetTime, Command, Commands, CommandSent
  <2> QED BY <2>1 DEF StatusStep
<1>11. CASE RevisitStatus
  BY <1>11 DEF RevisitStatus, Revisit, StatusOpened, StatusStep
<1> QED BY <1>1, <1>2, <1>3, <1>4, <1>5, <1>6, <1>7, <1>8, <1>9, <1>10, <1>11
    DEF StatusNext, StatusAnswers, CommandAnswered

LEMMA StatusStepKeeps ==
  ASSUME Values, StatusInv, page \in StatusPages, StatusStep
  PROVE  (\A x \in requests' : IsRequest(x)) /\ StatusInv'
<1>a. /\ \A r \in requests : IsRequest(r)
      /\ \A r \in requests : r.kind \in Commands \/ (r.kind = "load" /\ r.mine)
      /\ \A r, q \in requests : r.kind \in Commands /\ q.kind \in Commands /\ r.mine /\ q.mine => r = q
      /\ \A r \in requests : r.kind \in Commands /\ r.mine => processing
      /\ \A r \in requests : r.kind = "load" /\ r.phase = "done" => IsStatus(r.answer)
      /\ data # NoData => IsStatus(data)
  BY DEF Values, StatusInv, StatusRequests, StatusContents
<1>b. page # "ntpStatus" =>
        /\ dialog # "time" /\ \A r \in requests : r.kind # "time"
        /\ \A r, q \in requests : r.kind = "load" /\ q.kind = "load" => r = q
        /\ \A r \in requests : r.kind = "load" => data = NoData /\ ~errorMessage
  BY DEF StatusInv, StatusLoads
<1>c. page' = page
  BY DEF StatusStep, StatusAnswered, StatusTaken, CommandTaken, TimeTaken, StatusReload, StatusOpened,
     StatusStill, CommandSent
<1>d. /\ \A a : IsStatus(a)' <=> IsStatus(a)
      /\ IsStatus([status |-> stored, keys |-> Keys(stored)])
  BY <1>c DEF IsStatus, Keys
<1>e. Request("load", NoData).kind = "load" /\ Request("load", NoData).phase = "sent" /\ Request("load", NoData).mine
  BY DEF Request
<1>f. "load" \notin Commands /\ Commands \cup {"load"} \subseteq Kinds /\ "time" \in Commands
  BY DEF Commands, Kinds
<1> DEFINE Sound == \A x \in requests' : IsRequest(x)
           Known == \A x \in requests' : x.kind \in Commands \/ (x.kind = "load" /\ x.mine)
           Alone == \A x, y \in requests' :
                      x.kind \in Commands /\ y.kind \in Commands /\ x.mine /\ y.mine => x = y
           Busy  == \A x \in requests' : x.kind \in Commands /\ x.mine => processing'
           Loads == page # "ntpStatus" =>
                      /\ dialog' # "time" /\ \A x \in requests' : x.kind # "time"
                      /\ \A x, y \in requests' : x.kind = "load" /\ y.kind = "load" => x = y
                      /\ \A x \in requests' : x.kind = "load" => data' = NoData /\ ~errorMessage'
           Sure  == \A x \in requests' : x.kind = "load" /\ x.phase = "done" => IsStatus(x.answer)
           Shows == data' # NoData => IsStatus(data')
<1> SUFFICES Sound /\ Known /\ Alone /\ Busy /\ Loads /\ Sure /\ Shows
  <2>1. StatusRequests' /\ StatusLoads'
    BY <1>c DEF StatusRequests, StatusLoads, Commands
  <2>2. StatusContents'
    BY <1>d DEF StatusContents
  <2> QED BY <2>1, <2>2 DEF StatusInv
<1>1. ASSUME NEW r \in requests, NEW phase, NEW answer, StatusAnswered(r, phase, answer)
      PROVE  Sound /\ Known /\ Alone /\ Busy /\ Loads /\ Sure /\ Shows
  <2>1. phase \in {"sent", "done", "failed"} /\ Answered(r, phase, answer) /\ UNCHANGED <<data, errorMessage, dialog, processing>>
    BY <1>1 DEF StatusAnswered, form
  <2>2. \A x \in requests' :
           /\ IsRequest(x)
           /\ \/ x \in requests /\ x # r
              \/ /\ x = Reply(r, phase, answer) /\ x.kind = r.kind /\ x.body = r.body
                 /\ x.phase = phase /\ x.answer = answer /\ x.mine = r.mine
    BY <1>a, <2>1, AnsweredRequests
  <2>3. r.kind = "load" /\ phase = "done" => IsStatus(answer)
    BY <1>1, <1>d DEF StatusAnswered
  <2>4. Sound /\ Known /\ Sure /\ Shows
    BY <1>a, <2>1, <2>2, <2>3
  <2>5. Alone /\ Busy
    BY <1>a, <2>1, <2>2
  <2>6. Loads
    BY <1>b, <2>1, <2>2
  <2> QED BY <2>4, <2>5, <2>6
<1>2. ASSUME NEW r \in requests, StatusTaken(r)
      PROVE  Sound /\ Known /\ Alone /\ Busy /\ Loads /\ Sure /\ Shows
  <2>1. requests' \subseteq requests /\ r \notin requests'
    BY <1>2 DEF StatusTaken, Take
  <2>2. Sound /\ Known /\ Alone /\ Busy /\ Sure
    BY <1>a, <1>2, <2>1 DEF StatusTaken
  <2>3. Loads
    BY <1>b, <1>2, <2>1 DEF StatusTaken
  <2>4. Shows
    BY <1>a, <1>2 DEF StatusTaken
  <2> QED BY <2>2, <2>3, <2>4
<1>3. ASSUME NEW r \in requests, CommandTaken(r)
      PROVE  Sound /\ Known /\ Alone /\ Busy /\ Loads /\ Sure /\ Shows
  <2>1. requests' \subseteq requests /\ r \notin requests'
    BY <1>3 DEF CommandTaken, Take
  <2>2. Sound /\ Known /\ Alone /\ Busy /\ Sure /\ Shows
    BY <1>a, <1>3, <2>1 DEF CommandTaken
  <2>3. Loads
    BY <1>b, <1>3, <2>1 DEF CommandTaken
  <2> QED BY <2>2, <2>3
<1>4. ASSUME NEW r \in requests, TimeTaken(r)
      PROVE  Sound /\ Known /\ Alone /\ Busy /\ Loads /\ Sure /\ Shows
  <2>1. \A x \in requests' :
           /\ IsRequest(x)
           /\ \/ x = Request("load", NoData)
              \/ \E q \in requests \ {r} : x = Unmark(q, "load") /\ Unmarked(x, q)
    BY <1>a, <1>4, TimeRequests DEF TimeTaken
  <2>2. \A x \in requests' : x.kind = "load" \/ ~x.mine
    BY <1>a, <1>e, <1>f, <1>4, <2>1 DEF TimeTaken, Unmarked
  <2>3. page = "ntpStatus"
    BY <1>b, <1>4 DEF TimeTaken
  <2>4. Sound /\ Known /\ Sure /\ Shows
    BY <1>a, <1>e, <1>4, <2>1, <2>2 DEF TimeTaken, Unmarked
  <2> QED BY <1>f, <2>2, <2>3, <2>4
<1>5. CASE StatusReload
  <2>1. \A x \in requests' :
           /\ IsRequest(x)
           /\ x = Request("load", NoData) \/ \E q \in requests : x = Unmark(q, "load") /\ Unmarked(x, q)
    BY <1>a, <1>f, <1>5, SendRequests DEF StatusReload, LoadData
  <2>2. Sound /\ Known /\ Sure /\ Shows
    BY <1>a, <1>e, <1>5, <2>1 DEF StatusReload, LoadData, Unmarked
  <2>3. Alone /\ Busy
    BY <1>a, <1>e, <1>f, <1>5, <2>1 DEF StatusReload, Unmarked
  <2>4. Loads
    BY <1>b, <1>e, <1>5, <2>1 DEF StatusReload, LoadData, Unmarked
  <2> QED BY <2>2, <2>3, <2>4
<1>6. CASE StatusOpened
  <2>1. \A x \in requests' :
           /\ IsRequest(x)
           /\ \/ x = Request("load", NoData)
              \/ \E r \in requests : r.kind \in Commands /\ x.kind = r.kind /\ ~x.mine
    BY <1>a, <1>6, RemountRequests DEF StatusOpened, Commands
  <2>2. data' = NoData /\ ~errorMessage' /\ dialog' = "none"
    BY <1>6 DEF StatusOpened, Remount
  <2>3. \A x \in requests' : x.kind = "load" => x = Request("load", NoData)
    BY <1>f, <2>1
  <2>4. \A x \in requests' : x.kind \in Commands => ~x.mine
    BY <1>e, <1>f, <2>1
  <2>5. Sound /\ Known
    BY <1>e, <2>1
  <2>6. Alone /\ Busy
    BY <2>4
  <2>7. Sure /\ Shows
    BY <1>e, <2>2, <2>3
  <2>8. page # "ntpStatus" => \A x \in requests' : x.kind # "time"
    BY <1>b, <1>e, <2>1
  <2>9. Loads
    BY <2>2, <2>3, <2>8
  <2> QED BY <2>5, <2>6, <2>7, <2>9
<1>7. CASE StatusStill
  <2>1. Loads
    BY <1>b, <1>7 DEF StatusStill, form
  <2> QED BY <1>a, <1>7, <2>1 DEF StatusStill, form
<1>8. ASSUME NEW kind \in Commands, CommandSent(kind)
      PROVE  Sound /\ Known /\ Alone /\ Busy /\ Loads /\ Sure /\ Shows
  <2>1. \A x \in requests' :
           /\ IsRequest(x)
           /\ x = Request(kind, NoData) \/ \E q \in requests : x = Unmark(q, kind) /\ Unmarked(x, q)
    BY <1>a, <1>f, <1>8, SendRequests DEF CommandSent
  <2>2. Request(kind, NoData).kind = kind /\ Request(kind, NoData).mine
    BY DEF Request
  <2>3. \A q \in requests : q.kind = "load" \/ ~q.mine
    BY <1>a, <1>8 DEF CommandSent
  <2>4. Sound /\ Known /\ Alone /\ Busy
    BY <1>a, <1>f, <1>8, <2>1, <2>2, <2>3 DEF CommandSent, Unmarked
  <2>5. Sure /\ Shows
    BY <1>a, <1>f, <1>8, <2>1, <2>2 DEF CommandSent, Unmarked, form
  <2>6. Loads
    BY <1>b, <1>f, <1>8, <2>1, <2>2, <2>3 DEF CommandSent, Unmarked, form
  <2> QED BY <2>4, <2>5, <2>6
<1> HIDE DEF Sound, Known, Alone, Busy, Loads, Sure, Shows
<1> QED BY <1>1, <1>2, <1>3, <1>4, <1>5, <1>6, <1>7, <1>8 DEF StatusStep

-----------------------------------------------------------------------------
(* The scanner.                                                            *)

(* One request or the timer at a time, and none with a list or an error on *)
(* the screen.                                                             *)
ScanTurns ==
  /\ \A r, q \in requests : r = q
  /\ \A r \in requests : r.kind \in {"scan", "list"} /\ r.mine
  /\ timer => requests = {}
  /\ data # NoData \/ errorMessage => requests = {} /\ ~timer

(* From the answer to the request for a scan on, the results on the device *)
(* are of a scan that ended since.                                         *)
ScanFresh ==
  /\ scan = "done" /\ (timer \/ \E r \in requests : r.kind = "list" \/ r.phase = "done") => since
  /\ \A r \in requests : r.kind = "list" /\ r.phase = "done" /\ r.answer # NoData => since
  /\ data # NoData => since

ScanInv == page = "scan" => ScanTurns /\ ScanFresh

LEMMA SendAlone ==
  ASSUME requests = {}, NEW kind \in Kinds, NEW body, Send(kind, body)
  PROVE  requests' = {Request(kind, body)}
BY DEF Send

(* The one request is answered.                                            *)
LEMMA AnsweredAlone ==
  ASSUME \A r \in requests : IsRequest(r), \A r, q \in requests : r = q, NEW r \in requests,
         NEW phase \in {"sent", "done", "failed"}, NEW answer, Answered(r, phase, answer)
  PROVE  \A x \in requests' :
           /\ IsRequest(x) /\ x = Reply(r, phase, answer) /\ x.kind = r.kind
           /\ x.phase = phase /\ x.answer = answer /\ x.mine = r.mine
BY AnsweredRequests

LEMMA ScanKeeps ==
  ASSUME Values, ScanInv, page = "scan", ScanNext
  PROVE  (\A x \in requests' : IsRequest(x)) /\ ScanInv'
<1>a. /\ \A r \in requests : IsRequest(r)
      /\ \A r, q \in requests : r = q
      /\ \A r \in requests : r.kind \in {"scan", "list"} /\ r.mine
      /\ timer => requests = {}
      /\ data # NoData \/ errorMessage => requests = {} /\ ~timer
  BY DEF Values, ScanInv, ScanTurns
<1>b. /\ scan = "done" /\ (timer \/ \E r \in requests : r.kind = "list" \/ r.phase = "done") => since
      /\ \A r \in requests : r.kind = "list" /\ r.phase = "done" /\ r.answer # NoData => since
      /\ data # NoData => since
  BY DEF ScanInv, ScanFresh
<1> DEFINE Sound == \A x \in requests' : IsRequest(x)
<1>1. CASE ScanEnds
  <2>1. Sound /\ ScanTurns'
    BY <1>a, <1>1 DEF ScanEnds, restVars, form, ScanTurns
  <2>2. ScanFresh'
    BY <1>b, <1>1 DEF ScanEnds, restVars, form, ScanFresh
  <2> QED BY <2>1, <2>2 DEF ScanInv
<1>2. CASE ServeScan
  <2>1. PICK r \in requests : r.kind = "scan" /\ Answered(r, "done", NoData)
    BY <1>2 DEF ServeScan, Sent
  <2>2. \A x \in requests' :
          /\ IsRequest(x) /\ x = Reply(r, "done", NoData) /\ x.kind = "scan" /\ x.mine = r.mine
    BY <1>a, <2>1, AnsweredAlone
  <2>3. data = NoData /\ ~errorMessage /\ ~timer /\ scan' = "running" /\ UNCHANGED <<data, errorMessage, timer>>
    BY <1>a, <1>2, <2>1 DEF ServeScan, scanNetworks, form
  <2>4. ScanTurns'
    BY <1>a, <2>1, <2>2, <2>3 DEF ScanTurns
  <2>5. ScanFresh'
    BY <2>2, <2>3 DEF ScanFresh
  <2> QED BY <2>2, <2>4, <2>5 DEF ScanInv
<1>3. CASE listNetworks
  <2>1. PICK r \in requests : r.kind = "list" /\ Answered(r, "done", IF scan = "done" THEN found ELSE NoData)
    BY <1>3 DEF listNetworks, Sent
  <2>2. \A x \in requests' :
          /\ IsRequest(x) /\ x = Reply(r, "done", IF scan = "done" THEN found ELSE NoData)
          /\ x.kind = "list" /\ x.answer = (IF scan = "done" THEN found ELSE NoData) /\ x.mine = r.mine
    BY <1>a, <2>1, AnsweredAlone
  <2>3. /\ data = NoData /\ ~errorMessage /\ ~timer /\ UNCHANGED <<data, errorMessage, timer, since>>
        /\ scan' = "done" => scan = "done"
    BY <1>a, <1>3, <2>1 DEF listNetworks, scanNetworks, form
  <2>4. scan = "done" => since
    BY <1>b, <2>1
  <2>5. ScanTurns'
    BY <1>a, <2>1, <2>2, <2>3 DEF ScanTurns
  <2>6. ScanFresh'
    BY <2>2, <2>3, <2>4 DEF ScanFresh
  <2> QED BY <2>2, <2>5, <2>6 DEF ScanInv
<1>4. CASE ScanStarted
  <2>1. PICK r \in requests : r.kind = "scan" /\ Take(r)
    BY <1>4 DEF ScanStarted, Back
  <2>2. requests' = {} /\ data = NoData /\ ~errorMessage /\ ~timer
    BY <1>a, <2>1 DEF Take
  <2>3. scan' = scan /\ since' = since /\ data' = NoData /\ (timer' => ~errorMessage' /\ (scan = "done" => since))
    BY <1>b, <1>4, <2>2 DEF ScanStarted, Back, finishedWithError, form
  <2> QED BY <2>2, <2>3 DEF ScanInv, ScanTurns, ScanFresh
<1>5. CASE pollNetworkList
  <2>1. requests' = {Request("list", NoData)}
    BY <1>a, <1>5, SendAlone DEF pollNetworkList, Kinds
  <2>2. /\ IsRequest(Request("list", NoData)) /\ Request("list", NoData).kind = "list"
        /\ Request("list", NoData).mine /\ Request("list", NoData).phase = "sent"
    BY Asked
  <2>3. /\ data = NoData /\ ~errorMessage /\ ~timer' /\ UNCHANGED <<data, errorMessage, scan, since>>
        /\ scan = "done" => since
    BY <1>a, <1>b, <1>5 DEF pollNetworkList, form
  <2> QED BY <2>1, <2>2, <2>3 DEF ScanInv, ScanTurns, ScanFresh
<1>6. CASE Polled
  <2>1. PICK r \in requests : r.kind = "list" /\ Take(r)
    BY <1>6 DEF Polled, Back
  <2>2. requests' = {} /\ data = NoData /\ ~errorMessage /\ ~timer /\ (scan = "done" => since)
    BY <1>a, <1>b, <2>1 DEF Take
  <2>3. /\ scan' = scan /\ since' = since /\ (timer' => data' = NoData /\ ~errorMessage')
        /\ data' # NoData => since
    BY <1>b, <1>6, <2>2 DEF Polled, Back, finishedWithError, form
  <2> QED BY <2>2, <2>3 DEF ScanInv, ScanTurns, ScanFresh
<1>7. CASE Lose /\ UNCHANGED scanVars
  <2>1. PICK r \in requests : Answered(r, "failed", NoData)
    BY <1>7 DEF Lose
  <2>2. \A x \in requests' :
          /\ IsRequest(x) /\ x = Reply(r, "failed", NoData) /\ x.kind = r.kind
          /\ x.phase = "failed" /\ x.answer = NoData /\ x.mine = r.mine
    BY <1>a, <2>1, AnsweredAlone
  <2>3. data = NoData /\ ~errorMessage /\ ~timer /\ UNCHANGED <<data, errorMessage, timer, scan, since>>
    BY <1>a, <1>7, <2>1 DEF Lose, form, scanVars
  <2>4. ScanTurns'
    BY <1>a, <2>1, <2>2, <2>3 DEF ScanTurns
  <2>5. ScanFresh'
    BY <1>b, <2>2, <2>3 DEF ScanFresh
  <2> QED BY <2>2, <2>4, <2>5 DEF ScanInv
<1>8. CASE OtherScans
  <2>1. UNCHANGED <<data, errorMessage, requests, timer, since>> /\ scan' = "running"
    BY <1>8 DEF OtherScans, scanNetworks, form
  <2>2. Sound /\ ScanTurns'
    BY <1>a, <2>1 DEF ScanTurns
  <2>3. ScanFresh'
    BY <1>b, <2>1 DEF ScanFresh
  <2> QED BY <2>2, <2>3 DEF ScanInv
<1>9. CASE startNetworkScan
  <2>1. requests' = {Request("scan", NoData)}
    BY <1>a, <1>9, SendAlone DEF startNetworkScan, Kinds
  <2>2. /\ IsRequest(Request("scan", NoData)) /\ Request("scan", NoData).kind = "scan"
        /\ Request("scan", NoData).mine /\ Request("scan", NoData).phase = "sent"
    BY Asked
  <2>3. data' = NoData /\ ~errorMessage' /\ ~timer'
    BY <1>a, <1>9 DEF startNetworkScan
  <2> QED BY <2>1, <2>2, <2>3 DEF ScanInv, ScanTurns, ScanFresh
<1>10. CASE selectNetwork
  <2>1. page' = "wifi"
    BY <1>10 DEF selectNetwork
  <2>2. Sound
    BY <1>a, <1>10, RemountRequests DEF selectNetwork
  <2> QED BY <2>1, <2>2 DEF ScanInv
<1>11. CASE RevisitScan
  <2>1. requests' = {Request("scan", NoData)} /\ data' = NoData /\ ~errorMessage' /\ ~timer'
    BY <1>11 DEF RevisitScan
  <2>2. /\ IsRequest(Request("scan", NoData)) /\ Request("scan", NoData).kind = "scan"
        /\ Request("scan", NoData).mine /\ Request("scan", NoData).phase = "sent"
    BY Asked
  <2> QED BY <2>1, <2>2 DEF ScanInv, ScanTurns, ScanFresh
<1> QED BY <1>1, <1>2, <1>3, <1>4, <1>5, <1>6, <1>7, <1>8, <1>9, <1>10, <1>11 DEF ScanNext, ScanAnswers

(* Choosing a network opens the settings with one load on its way.         *)
LEMMA SelectOpens ==
  ASSUME Values, ScanInv, selectNetwork
  PROVE  /\ \A x \in requests' : x = Request("load", NoData)
         /\ page' = "wifi" /\ data' = NoData /\ errorMessage' = FALSE /\ stored' = stored
<1>1. /\ page = "scan" /\ Remount /\ page' = "wifi" /\ data' = NoData /\ errorMessage' = FALSE
      /\ stored' = stored
  BY DEF selectNetwork, Remount
<1>2. \A r \in requests : r.kind \notin {"save"} \cup Commands /\ IsRequest(r)
  BY <1>1 DEF Values, ScanInv, ScanTurns, Commands
<1> QED BY <1>1, <1>2, RemountRequests

-----------------------------------------------------------------------------
(* The settings pages: what the device stores and the page sends.          *)

WiFiFields == {"ssid", "password", "hostname", "static_ip_config",
               "local_ip", "gateway_ip", "subnet_mask", "dns_ip_1", "dns_ip_2"}
APFields == {"provision_mode", "ssid", "password", "channel", "ssid_hidden", "max_clients",
             "local_ip", "gateway_ip", "subnet_mask"}
Modes == {"always", "disconnected", "never"}

(* Settings have all their fields; the switch of the static addresses is   *)
(* on or off, and the mode of the access point can be one of none.         *)
Legal(d) ==
  /\ page \in {"wifi", "scan"} => DOMAIN d = WiFiFields /\ d.static_ip_config \in Flag
  /\ page = "ap" => DOMAIN d = APFields /\ d.provision_mode \in Modes \cup {"other"}

(* The name and the password of a network that were accepted once.         *)
Entered(d) == page = "wifi" => d.ssid \notin {"empty", "bad"} /\ d.password # "bad"

SettingsStored == page \in SettingsPages \cup {"scan"} => Legal(stored)

SettingsSent ==
  page \in SettingsPages =>
    /\ \A r \in requests : r.kind \in {"load", "save"}
    /\ \A r \in requests : r.phase = "done" => Legal(r.answer)
    /\ \A r \in requests : r.phase = "done" /\ r.kind = "save" => Entered(r.answer)
    /\ \A r \in requests : r.kind = "save" => Legal(r.body) /\ Invalid(r.body) = {}

(* With a network from the scanner the fields that are not on the form are *)
(* without a fault.                                                        *)
SettingsShown ==
  page \in SettingsPages /\ data # NoData =>
    /\ Legal(data)
    /\ page = "wifi" /\ selected # "none" => data.ssid \notin {"empty", "bad"}
    /\ page = "wifi" /\ selected = "open" => data.password # "bad"

SettingsInv == SettingsStored /\ SettingsSent /\ SettingsShown

LEMMA FieldsOfWiFi ==
  /\ DOMAIN Fields.wifi = WiFiFields /\ DOMAIN Fields.ap = APFields
  /\ Fields.wifi.static_ip_config = Flag /\ Fields.ap.provision_mode = Modes
BY DEF Fields, WiFiFields, APFields, Modes, Statics, Servers

(* update() keeps the form of the settings, and the name and the password. *)
LEMMA WiFiUpdateIs ==
  ASSUME NEW d, DOMAIN d = WiFiFields, d.static_ip_config \in Flag
  PROVE  /\ DOMAIN WiFiUpdate(d) = WiFiFields /\ WiFiUpdate(d).static_ip_config \in Flag
         /\ WiFiUpdate(d).ssid = d.ssid /\ WiFiUpdate(d).password = d.password
BY DEF WiFiUpdate, WiFiFields, Flag, Statics, Servers

LEMMA APUpdateIs ==
  ASSUME NEW old, NEW d, DOMAIN d = APFields, d.provision_mode \in Modes \cup {"other"}
  PROVE  /\ DOMAIN APUpdate(old, d) = APFields
         /\ APUpdate(old, d).provision_mode \in Modes \cup {"other"}
BY DEF APUpdate, APFields, Modes, Statics

LEMMA UpdateIsLegal ==
  ASSUME NEW old, NEW d, page \in SettingsPages, Legal(d), Invalid(d) = {}
  PROVE  Legal(SettingsUpdate(old, d)) /\ Entered(SettingsUpdate(old, d))
<1>1. CASE page = "wifi"
  <2>1. DOMAIN d = WiFiFields /\ d.static_ip_config \in Flag /\ SettingsUpdate(old, d) = WiFiUpdate(d)
    BY <1>1 DEF Legal, SettingsUpdate
  <2>2. d.ssid \notin {"empty", "bad"} /\ d.password # "bad"
    BY <1>1 DEF Invalid, WiFiInvalid, Missing, Malformed
  <2> QED BY <1>1, <2>1, <2>2, WiFiUpdateIs DEF Legal, Entered
<1>2. CASE page = "ap"
  <2>1. /\ DOMAIN d = APFields /\ d.provision_mode \in Modes \cup {"other"}
        /\ SettingsUpdate(old, d) = APUpdate(old, d)
    BY <1>2 DEF Legal, SettingsUpdate
  <2> QED BY <1>2, <2>1, APUpdateIs DEF Legal, Entered
<1>3. CASE page \notin {"wifi", "ap"}
  BY <1>3 DEF Legal, Entered, SettingsPages
<1> QED BY <1>1, <1>2, <1>3

LEMMA FromNetworkIs ==
  ASSUME NEW d, page = "wifi", Legal(d)
  PROVE  Legal(FromNetwork(d)) /\ FromNetwork(d).ssid = "new" /\ FromNetwork(d).password = "empty"
BY DEF Legal, FromNetwork, WiFiFields, Flag

(* A field that is edited is on the form.                                  *)
LEMMA EditIsLegal ==
  ASSUME page \in SettingsPages, NEW d, Legal(d), NEW f \in Shown(d) \ {"tz_label"}, NEW v \in Fields[page][f]
  PROVE  /\ Legal([d EXCEPT ![f] = v])
         /\ page = "wifi" /\ selected # "none" => [d EXCEPT ![f] = v].ssid = d.ssid
         /\ page = "wifi" /\ selected = "open" => [d EXCEPT ![f] = v].password = d.password
<1>1. CASE page = "wifi"
  <2>1. DOMAIN d = WiFiFields /\ d.static_ip_config \in Flag
    BY <1>1 DEF Legal
  <2>2. f = "static_ip_config" => v \in Flag
    BY <1>1, FieldsOfWiFi
  <2>3. (selected # "none" => f # "ssid") /\ (selected = "open" => f # "password")
    BY <1>1 DEF Shown, WiFiShown, Statics, Servers
  <2> QED BY <1>1, <2>1, <2>2, <2>3 DEF Legal, WiFiFields
<1>2. CASE page = "ap"
  <2>1. DOMAIN d = APFields /\ d.provision_mode \in Modes \cup {"other"}
    BY <1>2 DEF Legal
  <2>2. f = "provision_mode" => v \in Modes
    BY <1>2, FieldsOfWiFi
  <2> QED BY <1>2, <2>1, <2>2 DEF Legal, APFields
<1>3. CASE page \notin {"wifi", "ap"}
  BY <1>3 DEF Legal, SettingsPages
<1> QED BY <1>1, <1>2, <1>3

LEMMA SettingsKeeps == ASSUME Values, SettingsInv, page \in SettingsPages, SettingsNext PROVE SettingsInv'
<1>a. /\ \A r \in requests : IsRequest(r)
      /\ \A r \in requests : r.kind \in {"load", "save"}
      /\ \A r \in requests : r.phase = "done" => Legal(r.answer)
      /\ \A r \in requests : r.phase = "done" /\ r.kind = "save" => Entered(r.answer)
      /\ \A r \in requests : r.kind = "save" => Legal(r.body) /\ Invalid(r.body) = {}
      /\ Legal(stored)
  BY DEF Values, SettingsInv, SettingsSent, SettingsStored
<1>b. data # NoData =>
        /\ Legal(data)
        /\ page = "wifi" /\ selected # "none" => data.ssid \notin {"empty", "bad"}
        /\ page = "wifi" /\ selected = "open" => data.password # "bad"
  BY DEF SettingsInv, SettingsShown
<1>c. page' = page
  BY SettingsFormStep DEF FormStep, Served, Failed, Taken, Refused, Retried, Changed, Submitted, Opened, Still
<1>d. /\ \A d : Legal(d)' <=> Legal(d)
      /\ \A d : Entered(d)' <=> Entered(d)
      /\ \A d : Invalid(d)' = Invalid(d)
  BY <1>c DEF Legal, Entered, Invalid
<1> DEFINE IsFine(x) == /\ x.kind \in {"load", "save"}
                        /\ x.phase = "done" => Legal(x.answer)
                        /\ x.phase = "done" /\ x.kind = "save" => Entered(x.answer)
                        /\ x.kind = "save" => Legal(x.body) /\ Invalid(x.body) = {}
           Fine == \A x \in requests' : IsFine(x)
           Good == data' # NoData =>
                     /\ Legal(data')
                     /\ page = "wifi" /\ selected' # "none" => data'.ssid \notin {"empty", "bad"}
                     /\ page = "wifi" /\ selected' = "open" => data'.password # "bad"
<1> SUFFICES Fine /\ Good /\ Legal(stored')
  <2>1. SettingsSent'
    BY <1>c, <1>d DEF SettingsSent
  <2>2. SettingsShown'
    BY <1>c, <1>d DEF SettingsShown
  <2>3. SettingsStored'
    BY <1>c, <1>d DEF SettingsStored
  <2> QED BY <2>1, <2>2, <2>3 DEF SettingsInv
<1>e. \A r \in requests : IsFine(r)
  BY <1>a
<1>f. ASSUME NEW r \in requests, NEW phase \in {"done", "failed"}, NEW answer, Answered(r, phase, answer),
             phase = "done" => Legal(answer) /\ (r.kind = "save" => Entered(answer))
      PROVE  Fine
  <2>1. \A x \in requests' :
           \/ x \in requests
           \/ /\ x.kind = r.kind /\ x.body = r.body /\ x.phase = phase /\ x.answer = answer
    BY <1>a, <1>f, AnsweredRequests
  <2> QED BY <1>a, <1>f, <2>1
<1>g. UNCHANGED <<data, selected>> => Good
  BY <1>b
<1>1. CASE SettingsDevice
  <2>1. ASSUME NEW r \in Sent("load"), ServeLoad(r) PROVE Fine /\ Legal(stored')
    <3>1. r \in requests /\ r.kind = "load" /\ Answered(r, "done", stored) /\ stored' = stored
      BY <2>1 DEF Sent, ServeLoad
    <3> QED BY <1>a, <1>f, <3>1
  <2>2. ASSUME NEW r \in Sent("save"), ServeSave(r, SettingsUpdate(stored, r.body)) PROVE Fine /\ Legal(stored')
    <3>1. /\ r \in requests /\ r.kind = "save" /\ stored' = SettingsUpdate(stored, r.body)
          /\ Answered(r, "done", SettingsUpdate(stored, r.body))
      BY <2>2 DEF Sent, ServeSave
    <3>2. Legal(SettingsUpdate(stored, r.body)) /\ Entered(SettingsUpdate(stored, r.body))
      BY <1>a, <3>1, UpdateIsLegal
    <3> QED BY <1>f, <3>1, <3>2
  <2>3. UNCHANGED <<data, selected>>
    BY <1>1 DEF SettingsDevice, ServeLoad, ServeSave, form, settingsVars
  <2> QED BY <1>1, <1>g, <2>1, <2>2, <2>3 DEF SettingsDevice
<1>2. CASE SettingsLoaded
  <2>1. PICK r \in requests : /\ r.kind = "load" /\ requests' = requests \ {r}
                              /\ \/ r.phase = "done" /\ page = "wifi" /\ data' = FromNetwork(r.answer)
                                 \/ r.phase = "done" /\ (page # "wifi" \/ selected = "none") /\ data' = r.answer
                                 \/ data' = data
    BY <1>2 DEF SettingsLoaded, Back, Take, LoadAnswered, LoadFailed
  <2>2. UNCHANGED <<stored, selected>>
    BY <1>2 DEF SettingsLoaded, settingsVars
  <2>3. Fine
    BY <1>e, <2>1
  <2>4. Good
    <3>1. CASE r.phase = "done" /\ page = "wifi" /\ data' = FromNetwork(r.answer)
      BY <1>a, <3>1, FromNetworkIs
    <3>2. CASE r.phase = "done" /\ (page # "wifi" \/ selected = "none") /\ data' = r.answer
      BY <1>a, <2>2, <3>2
    <3>3. CASE data' = data
      BY <1>g, <2>2, <3>3
    <3> QED BY <2>1, <3>1, <3>2, <3>3
  <2> QED BY <1>a, <2>2, <2>3, <2>4
<1>3. CASE SettingsSaved
  <2>1. PICK r \in requests : /\ r.kind = "save" /\ requests' = requests \ {r}
                              /\ (r.phase = "done" /\ data' = r.answer) \/ data' = data
    BY <1>3 DEF SettingsSaved, Back, Take, SaveAnswered, SaveFailed
  <2>2. UNCHANGED <<stored, selected>>
    BY <1>3 DEF SettingsSaved, settingsVars
  <2>3. Fine
    BY <1>e, <2>1
  <2>4. CASE r.phase = "done" /\ data' = r.answer
    <3>1. Legal(data') /\ Entered(data')
      BY <1>a, <2>1, <2>4
    <3>2. Good
      BY <3>1 DEF Entered
    <3> QED BY <1>a, <2>2, <2>3, <3>2
  <2> QED BY <1>a, <1>g, <2>1, <2>2, <2>3, <2>4
<1>4. CASE Lose /\ UNCHANGED settingsVars
  <2>1. PICK r \in requests : Answered(r, "failed", NoData)
    BY <1>4 DEF Lose
  <2>2. Fine
    BY <1>f, <2>1
  <2> QED BY <1>a, <1>g, <1>4, <2>2 DEF Lose, form, settingsVars
<1>5. CASE Retry /\ UNCHANGED settingsVars
  <2>1. \A x \in requests' : x = Request("load", NoData) \/ \E r \in requests : Unmarked(x, r)
    BY <1>a, <1>5, SendRequests DEF Retry, LoadData, Kinds
  <2>2. Request("load", NoData).kind = "load" /\ Request("load", NoData).phase = "sent"
    BY DEF Request
  <2>3. Fine
    BY <1>e, <2>1, <2>2 DEF Unmarked
  <2> QED BY <1>a, <1>5, <2>3 DEF Retry, LoadData
<1>6. CASE updateFormValue
  <2>1. PICK f \in Shown(data) \ {"tz_label"} : \E v \in Fields[page][f] : Edited([data EXCEPT ![f] = v])
    BY <1>6 DEF updateFormValue
  <2>a. PICK v \in Fields[page][f] : Edited([data EXCEPT ![f] = v])
    BY <2>1
  <2>2. /\ data # NoData /\ data' = [data EXCEPT ![f] = v]
        /\ UNCHANGED <<requests, stored, selected>>
    BY <1>6, <2>a DEF updateFormValue, Edited, settingsVars
  <2>3. Good
    BY <1>b, <2>2, EditIsLegal
  <2> QED BY <1>a, <1>e, <2>2, <2>3
<1>7. CASE changeTimeZone
  <2>1. page = "ntp" /\ UNCHANGED <<requests, stored, selected>>
    BY <1>7 DEF changeTimeZone, Edited, settingsVars
  <2> QED BY <1>a, <1>e, <2>1 DEF Legal
<1>8. CASE deselectNetwork
  BY <1>a, <1>b, <1>e, <1>8 DEF deselectNetwork, restVars, form
<1>9. CASE validateAndSubmit
  <2>1. \A x \in requests' : x = Request("save", data) \/ \E r \in requests : Unmarked(x, r)
    BY <1>a, <1>9, SendRequests DEF validateAndSubmit, Save, Kinds
  <2>2. /\ Request("save", data).kind = "save" /\ Request("save", data).phase = "sent"
        /\ Request("save", data).body = data
    BY DEF Request
  <2>3. Legal(data) /\ Invalid(data) = {}
    BY <1>b, <1>9 DEF validateAndSubmit
  <2>4. Fine
    BY <1>e, <2>1, <2>2, <2>3 DEF Unmarked
  <2> QED BY <1>a, <1>g, <1>9, <2>4 DEF validateAndSubmit, Save
<1>10. CASE RevisitSettings
  <2>1. \A x \in requests' :
           \/ x = Request("load", NoData)
           \/ \E r \in requests : r.kind = "save" /\ x.kind = "save" /\ x.body = r.body /\ x.phase = "sent"
    BY <1>a, <1>10, RemountForm DEF Commands, RevisitSettings, Revisit
  <2>2. Request("load", NoData).kind = "load" /\ Request("load", NoData).phase = "sent"
    BY DEF Request
  <2>3. Fine
    BY <1>a, <2>1, <2>2
  <2> QED BY <1>a, <1>10, <2>3 DEF RevisitSettings, Revisit, Remount
<1> HIDE DEF Fine, Good
<1> QED BY <1>1, <1>2, <1>3, <1>4, <1>5, <1>6, <1>7, <1>8, <1>9, <1>10 DEF SettingsNext, SettingsAnswers

-----------------------------------------------------------------------------
(* The timings.                                                            *)

Timers == [time : Fresh, weekAndState : Fresh]
IsTimings(list, n) == list \in Seq(Timers) /\ Len(list) <= n

(* The list has one timer too many when one was added to a list that had   *)
(* grown meanwhile.  The timer the dialog reads is there, or the page has  *)
(* crashed.                                                                *)
TimingLists ==
  page = "timing" =>
    /\ IsTimings(stored, MAX_AUTOSTART)
    /\ \A r \in requests : r.kind \in {"load", "save"}
    /\ \A r \in requests : r.phase = "done" => IsTimings(r.answer, MAX_AUTOSTART)
    /\ \A r \in requests : r.kind = "save" => r.body \in Seq(Timers)

TimingShown ==
  page = "timing" /\ data # NoData =>
    /\ IsTimings(data, MAX_AUTOSTART + 1)
    /\ ~crashed => idx = ADD_NEW_TIMER \/ idx <= Len(data)
    /\ timepopup /\ idx = ADD_NEW_TIMER => Len(data) <= MAX_AUTOSTART

Dialog ==
  /\ idx \in 0..(MAX_AUTOSTART + 1)
  /\ crashed \in BOOLEAN /\ timepopup \in BOOLEAN
  /\ crashed => page = "timing"

TankInv == TimingLists /\ TimingShown /\ Dialog

LEMMA SetTimeIs ==
  ASSUME NEW list \in Seq(Timers), NEW i \in DOMAIN list, NEW t \in Fresh
  PROVE  [list EXCEPT ![i].time = t] \in Seq(Timers) /\ Len([list EXCEPT ![i].time = t]) = Len(list)
<1>1. list[i] \in Timers
  OBVIOUS
<1>2. [list[i] EXCEPT !.time = t] \in Timers
  BY <1>1 DEF Timers
<1>3. [list EXCEPT ![i].time = t] = [list EXCEPT ![i] = [list[i] EXCEPT !.time = t]]
  OBVIOUS
<1>4. ASSUME NEW e \in Timers
      PROVE  [list EXCEPT ![i] = e] \in Seq(Timers) /\ Len([list EXCEPT ![i] = e]) = Len(list)
  OBVIOUS
<1> QED BY <1>2, <1>3, <1>4

LEMMA ToggleIs ==
  ASSUME NEW list \in Seq(Timers), NEW i \in DOMAIN list
  PROVE  LET new == [list EXCEPT ![i].weekAndState = IF @ = "old" THEN "new" ELSE "old"]
         IN  new \in Seq(Timers) /\ Len(new) = Len(list)
<1> DEFINE w == IF list[i].weekAndState = "old" THEN "new" ELSE "old"
<1>1. list[i] \in Timers /\ w \in Fresh
  BY DEF Fresh
<1> HIDE DEF w
<1>2. [list[i] EXCEPT !.weekAndState = w] \in Timers
  BY <1>1 DEF Timers
<1>3. [list EXCEPT ![i].weekAndState = IF @ = "old" THEN "new" ELSE "old"]
        = [list EXCEPT ![i] = [list[i] EXCEPT !.weekAndState = w]]
  BY DEF w
<1>4. ASSUME NEW e \in Timers
      PROVE  [list EXCEPT ![i] = e] \in Seq(Timers) /\ Len([list EXCEPT ![i] = e]) = Len(list)
  OBVIOUS
<1> QED BY <1>2, <1>3, <1>4

LEMMA RemoveAtIs ==
  ASSUME NEW list \in Seq(Timers), NEW i \in DOMAIN list
  PROVE  RemoveAt(list, i) \in Seq(Timers) /\ Len(RemoveAt(list, i)) <= Len(list)
<1>1. i \in 1..Len(list) /\ Len(list) \in Nat
  OBVIOUS
<1>2. SubSeq(list, 1, i - 1) \in Seq(Timers) /\ Len(SubSeq(list, 1, i - 1)) = i - 1
  BY <1>1
<1>3. SubSeq(list, i + 1, Len(list)) \in Seq(Timers) /\ Len(SubSeq(list, i + 1, Len(list))) = Len(list) - i
  BY <1>1
<1>4. ASSUME NEW a \in Seq(Timers), NEW b \in Seq(Timers)
      PROVE  a \o b \in Seq(Timers) /\ Len(a \o b) = Len(a) + Len(b)
  OBVIOUS
<1> QED BY <1>1, <1>2, <1>3, <1>4 DEF RemoveAt

(* The page draws itself: it crashes exactly when the timer of the dialog  *)
(* is not in the list.                                                     *)
LEMMA RenderIs ==
  ASSUME Render, NEW n \in Nat, page' = "timing" /\ data' # NoData => IsTimings(data', n), idx \in Nat
  PROVE  /\ crashed' \in BOOLEAN
         /\ crashed' => page = "timing"
         /\ page = "timing" /\ page' = "timing" /\ data' # NoData /\ ~crashed' => idx = ADD_NEW_TIMER \/ idx <= Len(data')
<1>1. page = "timing" /\ page' = "timing" /\ data' # NoData => Len(data') \in Nat
  BY DEF IsTimings
<1>2. crashed' = (page = "timing" /\ data' # NoData /\ idx # ADD_NEW_TIMER /\ idx > Len(data'))
  BY DEF Render, TimePopUpThrows
<1>3. crashed' \in BOOLEAN
  BY <1>2
<1>4. crashed' <=> page = "timing" /\ data' # NoData /\ idx # ADD_NEW_TIMER /\ idx > Len(data')
  BY <1>2
<1> QED BY <1>1, <1>3, <1>4

LEMMA TankKeeps == ASSUME Values, TankInv, page \in TankPages, TankNext PROVE TankInv'
<1>a. page = "timing" =>
        /\ IsTimings(stored, MAX_AUTOSTART)
        /\ \A r \in requests : r.kind \in {"load", "save"}
        /\ \A r \in requests : r.phase = "done" => IsTimings(r.answer, MAX_AUTOSTART)
        /\ \A r \in requests : r.kind = "save" => r.body \in Seq(Timers)
  BY DEF TankInv, TimingLists
<1>b. page = "timing" /\ data # NoData =>
        /\ IsTimings(data, MAX_AUTOSTART + 1)
        /\ ~crashed => idx = ADD_NEW_TIMER \/ idx <= Len(data)
        /\ timepopup /\ idx = ADD_NEW_TIMER => Len(data) <= MAX_AUTOSTART
  BY DEF TankInv, TimingShown
<1>c. Dialog /\ \A r \in requests : IsRequest(r)
  BY DEF TankInv, Values
<1>d. page' = page
  BY TankFormStep DEF FormStep, Served, Failed, Taken, Refused, Retried, Changed, Submitted, Opened, Still
<1>e. MAX_AUTOSTART \in Nat /\ MAX_AUTOSTART + 1 \in Nat
  BY TankAssumption
<1>f. ASSUME NEW r \in requests, NEW phase \in {"done", "failed"}, NEW answer, Answered(r, phase, answer),
             page = "timing" => /\ phase = "done" => IsTimings(answer, MAX_AUTOSTART)
                                /\ IsTimings(stored', MAX_AUTOSTART)
      PROVE  TimingLists'
  <2>1. \A x \in requests' :
           \/ x \in requests
           \/ /\ x.kind = r.kind /\ x.body = r.body /\ x.phase = phase /\ x.answer = answer
    BY <1>c, <1>f, AnsweredRequests
  <2> QED BY <1>a, <1>d, <1>f, <2>1 DEF TimingLists, IsTimings
<1>g. UNCHANGED <<data, tankVars>> => TimingShown' /\ Dialog'
  BY <1>b, <1>c, <1>d DEF TimingShown, Dialog, tankVars, IsTimings
<1>h. UNCHANGED <<requests, stored>> => TimingLists'
  BY <1>a, <1>d DEF TimingLists, IsTimings
<1>1. CASE TankDevice
  <2>1. ASSUME NEW r \in Sent("load"), ServeLoad(r) PROVE TimingLists'
    <3>1. r \in requests /\ Answered(r, "done", stored) /\ stored' = stored
      BY <2>1 DEF Sent, ServeLoad
    <3> QED BY <1>a, <1>f, <3>1
  <2>2. ASSUME NEW r \in Sent("save"), ServeSave(r, r.body), ~(page = "timing" /\ Len(r.body) > MAX_AUTOSTART)
        PROVE  TimingLists'
    <3>1. r \in requests /\ r.kind = "save" /\ Answered(r, "done", r.body) /\ stored' = r.body
      BY <2>2 DEF Sent, ServeSave
    <3>2. page = "timing" => r.body \in Seq(Timers) /\ Len(r.body) <= MAX_AUTOSTART
      BY <1>a, <1>e, <2>2, <3>1
    <3> QED BY <1>f, <3>1, <3>2 DEF IsTimings
  <2>3. ASSUME NEW r \in Sent("save"), RefuseSave(r) PROVE TimingLists'
    <3>1. r \in requests /\ Answered(r, "failed", NoData) /\ stored' = stored
      BY <2>3 DEF Sent, RefuseSave
    <3> QED BY <1>a, <1>f, <3>1
  <2>4. UNCHANGED <<data, tankVars>>
    BY <1>1 DEF TankDevice, ServeLoad, ServeSave, RefuseSave, form
  <2> QED BY <1>1, <1>g, <2>1, <2>2, <2>3, <2>4 DEF TankDevice, TankInv
<1>2. CASE ~crashed /\ TankAnswered
  <2>1. PICK r \in requests : /\ requests' = requests \ {r}
                              /\ (r.phase = "done" /\ data' = r.answer) \/ data' = data
    BY <1>2 DEF TankAnswered, Back, Take, LoadAnswered, LoadFailed, SaveAnswered, SaveFailed
  <2>2. Render /\ UNCHANGED <<stored, timepopup, idx>>
    BY <1>2 DEF TankAnswered
  <2>3. TimingLists'
    BY <1>a, <1>d, <2>1, <2>2 DEF TimingLists, IsTimings
  <2>4. page = "timing" /\ data' # NoData =>
          /\ IsTimings(data', MAX_AUTOSTART + 1)
          /\ timepopup /\ idx = ADD_NEW_TIMER => Len(data') <= MAX_AUTOSTART
    BY <1>a, <1>b, <1>e, <2>1 DEF IsTimings
  <2>5. /\ crashed' \in BOOLEAN /\ (crashed' => page = "timing")
        /\ page = "timing" /\ data' # NoData /\ ~crashed' => idx = ADD_NEW_TIMER \/ idx <= Len(data')
    BY <1>c, <1>d, <1>e, <2>2, <2>4, RenderIs DEF Dialog
  <2>6. TimingShown' /\ Dialog'
    BY <1>c, <1>d, <2>2, <2>4, <2>5 DEF TimingShown, Dialog, IsTimings
  <2> QED BY <2>3, <2>6 DEF TankInv
<1>3. CASE Lose /\ UNCHANGED tankVars
  <2>1. PICK r \in requests : Answered(r, "failed", NoData)
    BY <1>3 DEF Lose
  <2>2. stored' = stored /\ data' = data
    BY <1>3 DEF Lose, form
  <2>3. TimingLists'
    BY <1>a, <1>f, <2>1, <2>2
  <2> QED BY <1>3, <1>g, <2>2, <2>3 DEF TankInv
<1>4. CASE handleChanges \/ generateHexCode
  <2>1. page # "timing" /\ UNCHANGED <<requests, stored, tankVars>>
    BY <1>4 DEF handleChanges, generateHexCode, Edited
  <2> QED BY <1>c, <1>d, <1>h, <2>1 DEF TankInv, TimingShown, Dialog, tankVars
<1>5. CASE openTimerPopUp
  <2>1. /\ page = "timing" /\ data # NoData /\ UNCHANGED <<data, requests, stored, crashed>>
        /\ (idx' \in DOMAIN data) \/ (Len(data) < MAX_AUTOSTART /\ idx' = ADD_NEW_TIMER)
        /\ timepopup' = TRUE
    BY <1>5 DEF openTimerPopUp, OnTimings, restVars, form
  <2>2. data \in Seq(Timers) /\ Len(data) <= MAX_AUTOSTART + 1 /\ Len(data) \in Nat /\ DOMAIN data = 1..Len(data)
    BY <1>b, <2>1 DEF IsTimings
  <2>3. idx' \in 0..(MAX_AUTOSTART + 1)
    BY <1>e, <2>1, <2>2 DEF ADD_NEW_TIMER
  <2>4. idx' = ADD_NEW_TIMER => Len(data) <= MAX_AUTOSTART
    BY <1>e, <2>1, <2>2 DEF ADD_NEW_TIMER
  <2>5. idx' = ADD_NEW_TIMER \/ idx' <= Len(data)
    BY <2>1, <2>2
  <2>6. TimingShown'
    BY <1>b, <1>d, <2>1, <2>4, <2>5 DEF TimingShown, IsTimings
  <2>7. Dialog'
    BY <1>c, <1>d, <2>1, <2>3 DEF Dialog
  <2> QED BY <1>h, <2>1, <2>6, <2>7 DEF TankInv
<1>6. CASE closeTimerSetBox
  <2>1. UNCHANGED <<data, requests, stored, idx, crashed>> /\ timepopup' = FALSE
    BY <1>6 DEF closeTimerSetBox, restVars, form
  <2>2. TimingShown' /\ Dialog'
    BY <1>b, <1>c, <1>d, <2>1 DEF TimingShown, Dialog, IsTimings
  <2> QED BY <1>h, <2>1, <2>2 DEF TankInv
<1>7. CASE saveTimer
  <2>1. /\ page = "timing" /\ data # NoData /\ ~crashed /\ timepopup
        /\ timepopup' = FALSE /\ Render /\ UNCHANGED <<requests, stored, idx>>
    BY <1>7 DEF saveTimer, OnTimings, Edited
  <2>2. PICK t \in Fresh : IF idx \in DOMAIN data THEN data' = [data EXCEPT ![idx].time = t]
                                                  ELSE data' = Append(data, Timer(t, "old"))
    BY <1>7 DEF saveTimer, Edited
  <2>3. data \in Seq(Timers) /\ Len(data) <= MAX_AUTOSTART + 1 /\ Len(data) \in Nat /\ DOMAIN data = 1..Len(data)
    BY <1>b, <2>1 DEF IsTimings
  <2>4. idx \notin DOMAIN data => Len(data) <= MAX_AUTOSTART
    BY <1>b, <1>c, <1>e, <2>1, <2>3 DEF Dialog, ADD_NEW_TIMER
  <2>5. IsTimings(data', MAX_AUTOSTART + 1)
    <3>1. CASE idx \in DOMAIN data
      <4>1. data' = [data EXCEPT ![idx].time = t]
        BY <2>2, <3>1
      <4>2. data' \in Seq(Timers) /\ Len(data') = Len(data)
        BY <2>3, <3>1, <4>1, SetTimeIs
      <4> QED BY <1>e, <2>3, <4>2 DEF IsTimings
    <3>2. CASE idx \notin DOMAIN data
      <4>1. Timer(t, "old") \in Timers
        BY DEF Timer, Timers, Fresh
      <4>2. Append(data, Timer(t, "old")) \in Seq(Timers) /\ Len(Append(data, Timer(t, "old"))) = Len(data) + 1
        BY <2>3, <4>1
      <4>3. data' = Append(data, Timer(t, "old"))
        BY <2>2, <3>2
      <4>4. Len(data) + 1 <= MAX_AUTOSTART + 1
        BY <1>e, <2>3, <2>4, <3>2
      <4> QED BY <4>2, <4>3, <4>4 DEF IsTimings
    <3> QED BY <3>1, <3>2
  <2>6. /\ crashed' \in BOOLEAN /\ (crashed' => page = "timing")
        /\ data' # NoData /\ ~crashed' => idx = ADD_NEW_TIMER \/ idx <= Len(data')
    BY <1>c, <1>d, <1>e, <2>1, <2>5, RenderIs DEF Dialog
  <2>7. TimingShown' /\ Dialog'
    BY <1>c, <1>d, <2>1, <2>5, <2>6 DEF TimingShown, Dialog, IsTimings
  <2> QED BY <1>h, <2>1, <2>7 DEF TankInv
<1>8. CASE toggleBit
  <2>1. page = "timing" /\ data # NoData /\ UNCHANGED <<requests, stored, tankVars>>
    BY <1>8 DEF toggleBit, OnTimings, Edited
  <2>2. PICK i \in DOMAIN data : data' = [data EXCEPT ![i].weekAndState = IF @ = "old" THEN "new" ELSE "old"]
    BY <1>8 DEF toggleBit, Edited
  <2>3. data \in Seq(Timers)
    BY <1>b, <2>1 DEF IsTimings
  <2>4. data' \in Seq(Timers) /\ Len(data') = Len(data)
    BY <2>2, <2>3, ToggleIs
  <2>5. TimingShown' /\ Dialog'
    BY <1>b, <1>c, <1>d, <2>1, <2>4 DEF TimingShown, Dialog, IsTimings, tankVars
  <2> QED BY <1>h, <2>1, <2>5 DEF TankInv
<1>9. CASE deleteTimer
  <2>1. page = "timing" /\ data # NoData /\ ~timepopup /\ Render /\ UNCHANGED <<requests, stored, timepopup, idx>>
    BY <1>9 DEF deleteTimer, OnTimings, Edited
  <2>2. PICK i \in DOMAIN data : data' = RemoveAt(data, i)
    BY <1>9 DEF deleteTimer, Edited
  <2>3. data \in Seq(Timers) /\ Len(data) <= MAX_AUTOSTART + 1 /\ Len(data) \in Nat
    BY <1>b, <2>1 DEF IsTimings
  <2>4. data' \in Seq(Timers) /\ Len(data') <= Len(data) /\ Len(data') \in Nat
    BY <2>2, <2>3, RemoveAtIs
  <2>5. IsTimings(data', MAX_AUTOSTART + 1)
    BY <1>e, <2>3, <2>4 DEF IsTimings
  <2>6. /\ crashed' \in BOOLEAN /\ (crashed' => page = "timing")
        /\ data' # NoData /\ ~crashed' => idx = ADD_NEW_TIMER \/ idx <= Len(data')
    BY <1>c, <1>d, <1>e, <2>1, <2>5, RenderIs DEF Dialog
  <2>7. TimingShown' /\ Dialog'
    BY <1>c, <1>d, <2>1, <2>5, <2>6 DEF TimingShown, Dialog, IsTimings
  <2> QED BY <1>h, <2>1, <2>7 DEF TankInv
<1>10. CASE validateAndSave
  <2>1. data # NoData /\ Send("save", data) /\ UNCHANGED <<data, stored, tankVars>>
    BY <1>10 DEF validateAndSave, CanSavePoints, CanSaveLight, CanSaveTiming, Save
  <2>2. \A x \in requests' : x = Request("save", data) \/ \E r \in requests : Unmarked(x, r)
    BY <1>c, <2>1, SendRequests DEF Kinds
  <2>3. /\ Request("save", data).kind = "save" /\ Request("save", data).phase = "sent"
        /\ Request("save", data).body = data
    BY DEF Request
  <2>4. page = "timing" => data \in Seq(Timers)
    BY <1>b, <2>1 DEF IsTimings
  <2>5. TimingLists'
    BY <1>a, <1>d, <2>1, <2>2, <2>3, <2>4 DEF TimingLists, IsTimings, Unmarked
  <2> QED BY <1>g, <2>1, <2>5 DEF TankInv
<1>11. CASE RevisitTank
  <2>1. /\ Remount /\ data' = NoData /\ stored' = stored /\ timepopup' = FALSE /\ crashed' = FALSE
        /\ idx' \in {ADD_NEW_TIMER, idx}
    BY <1>11 DEF RevisitTank, Revisit, Remount
  <2>2. page = "timing" =>
          \A x \in requests' :
            \/ x = Request("load", NoData)
            \/ \E r \in requests : r.kind = "save" /\ x.kind = "save" /\ x.body = r.body /\ x.phase = "sent"
    <3>1. page = "timing" => \A r \in requests : r.kind \notin Commands
      BY <1>a DEF Commands
    <3> QED BY <1>c, <2>1, <3>1, RemountForm
  <2>3. Request("load", NoData).kind = "load" /\ Request("load", NoData).phase = "sent"
    BY DEF Request
  <2>4. TimingLists'
    BY <1>a, <1>d, <2>1, <2>2, <2>3 DEF TimingLists, IsTimings
  <2>5. TimingShown' /\ Dialog'
    <3>1. idx' \in 0..(MAX_AUTOSTART + 1)
      BY <1>c, <1>e, <2>1 DEF Dialog, ADD_NEW_TIMER
    <3>2. crashed' \in BOOLEAN /\ timepopup' \in BOOLEAN /\ ~crashed'
      BY <2>1
    <3>3. Dialog'
      BY <3>1, <3>2 DEF Dialog
    <3>4. TimingShown'
      BY <2>1 DEF TimingShown
    <3> QED BY <3>3, <3>4
  <2> QED BY <2>4, <2>5 DEF TankInv
<1> QED BY <1>1, <1>2, <1>3, <1>4, <1>5, <1>6, <1>7, <1>8, <1>9, <1>10, <1>11 DEF TankNext, TankAnswers

-----------------------------------------------------------------------------
(* The firmware page.                                                      *)

Upload == [phase : {"unused", "sending", "refused", "accepted", "closed"}, file : {"none", "image"},
           written : Nat, hangup : {"nothing", "abort", "restart"}]

(* An update that is running was begun by an upload of an image that is    *)
(* still connected and will abort it.                                      *)
Owns(u) ==
  /\ uploads[u].phase \in {"sending", "refused", "accepted"} /\ uploads[u].hangup = "abort"
  /\ uploads[u].written > 0 /\ uploads[u].file = "image"

UploadInv ==
  /\ uploads \in [Ids -> Upload] /\ running \in BOOLEAN /\ uploading \in BOOLEAN
  /\ current \in {0} \cup Ids /\ (uploading <=> current # 0)
  /\ running => \E u \in Ids : Owns(u)
  /\ page = "upload" => requests = {}

LEMMA DisconnectKeeps ==
  ASSUME UploadInv, NEW u \in Ids, Disconnect(u)
  PROVE  /\ uploads' \in [Ids -> Upload] /\ running' \in BOOLEAN
         /\ running' => \E v \in Ids : Owns(v)'
<1>a. uploads \in [Ids -> Upload] /\ running \in BOOLEAN /\ (running => \E v \in Ids : Owns(v))
  BY DEF UploadInv
<1>b. \A v \in Ids : [uploads[v] EXCEPT !.phase = "closed"] \in Upload /\ uploads[v] \in Upload
  BY <1>a DEF Upload
<1>1. CASE uploads[u].hangup = "restart"
  <2>1. /\ running' = FALSE
        /\ uploads' = [v \in Ids |-> IF IsOpen(v) THEN [uploads[v] EXCEPT !.phase = "closed"] ELSE uploads[v]]
    BY <1>1 DEF Disconnect
  <2>2. uploads' \in [Ids -> Upload]
    BY <1>b, <2>1
  <2> QED BY <2>1, <2>2
<1>2. CASE uploads[u].hangup = "abort"
  <2>1. running' = FALSE /\ uploads' = [uploads EXCEPT ![u].phase = "closed"]
    BY <1>2 DEF Disconnect
  <2>2. uploads' \in [Ids -> Upload]
    BY <1>a, <1>b, <2>1
  <2> QED BY <2>1, <2>2
<1>3. CASE uploads[u].hangup \notin {"restart", "abort"}
  <2>1. running' = running /\ uploads' = [uploads EXCEPT ![u].phase = "closed"]
    BY <1>3 DEF Disconnect
  <2>2. uploads' \in [Ids -> Upload]
    BY <1>a, <1>b, <2>1
  <2>3. ASSUME NEW v \in Ids, Owns(v) PROVE Owns(v)'
    BY <1>a, <1>3, <2>1, <2>3 DEF Owns
  <2> QED BY <1>a, <2>1, <2>2, <2>3
<1> QED BY <1>1, <1>2, <1>3

LEMMA handleUploadKeeps ==
  ASSUME UploadInv, handleUpload
  PROVE  /\ uploads' \in [Ids -> Upload] /\ running' \in BOOLEAN
         /\ running' => \E v \in Ids : Owns(v)'
<1>a. uploads \in [Ids -> Upload] /\ running \in BOOLEAN /\ (running => \E v \in Ids : Owns(v))
  BY DEF UploadInv
<1>b. PICK u \in Ids : /\ uploads[u].phase = "sending"
                       /\ \/ uploads[u].file = "image" /\ (beginUpdate(u) \/ writeUpdate(u) \/ failUpdate(u))
                          \/ uploadComplete(u)
  BY DEF handleUpload
<1>c. uploads[u] \in Upload /\ uploads[u].written \in Nat
  BY <1>a DEF Upload
<1>1. CASE uploads[u].file = "image" /\ beginUpdate(u)
  <2>1. /\ uploads' = [uploads EXCEPT ![u].written = 1, ![u].hangup = "abort"] /\ running' = TRUE
    BY <1>1 DEF beginUpdate
  <2>2. uploads' \in [Ids -> Upload]
    BY <1>a, <1>c, <2>1 DEF Upload
  <2>3. Owns(u)'
    BY <1>a, <1>b, <1>c, <1>1, <2>1 DEF Owns, Upload
  <2> QED BY <2>1, <2>2, <2>3
<1>2. CASE writeUpdate(u)
  <2>1. /\ uploads' = [uploads EXCEPT ![u].written = uploads[u].written + 1] /\ running' = running
        /\ uploads[u].written + 1 \in Nat /\ uploads[u].written + 1 > 0
    BY <1>c, <1>2 DEF writeUpdate
  <2>2. uploads' \in [Ids -> Upload]
    BY <1>a, <1>c, <2>1 DEF Upload
  <2>3. ASSUME NEW v \in Ids, Owns(v) PROVE Owns(v)'
    BY <1>a, <1>c, <2>1, <2>3 DEF Owns, Upload
  <2> QED BY <1>a, <2>1, <2>2, <2>3
<1>3. CASE failUpdate(u)
  <2>1. /\ uploads' = [uploads EXCEPT ![u].phase = "refused"]
        /\ running' = (running /\ uploads[u].written = 0)
    BY <1>3 DEF failUpdate, handleError
  <2>2. uploads' \in [Ids -> Upload]
    BY <1>a, <1>c, <2>1 DEF Upload
  <2>3. running' \in BOOLEAN /\ (running' => running)
    BY <1>a, <2>1
  <2>4. ASSUME NEW v \in Ids, Owns(v) PROVE Owns(v)'
    BY <1>a, <1>c, <2>1, <2>4 DEF Owns, Upload
  <2> QED BY <1>a, <2>2, <2>3, <2>4
<1>4. CASE uploadComplete(u)
  <2>1. /\ uploads' = [uploads EXCEPT ![u].phase = "accepted", ![u].hangup = "restart"]
        /\ IF uploads[u].file = "image" THEN running' = FALSE ELSE running' = running
    BY <1>4 DEF uploadComplete
  <2>2. uploads' \in [Ids -> Upload]
    BY <1>a, <1>c, <2>1 DEF Upload
  <2>3. ASSUME uploads[u].file # "image", NEW v \in Ids, Owns(v) PROVE Owns(v)'
    BY <1>a, <1>c, <2>1, <2>3 DEF Owns, Upload
  <2> QED BY <1>a, <2>1, <2>2, <2>3
<1> QED BY <1>b, <1>1, <1>2, <1>3, <1>4

LEMMA PostKeeps ==
  ASSUME UploadInv, NEW u \in Ids, NEW file \in {"image", "none"}, Post(u, file)
  PROVE  uploads' \in [Ids -> Upload] /\ \A v \in Ids : Owns(v) => Owns(v)'
<1>a. uploads \in [Ids -> Upload] /\ uploads[u] \in Upload
  BY DEF UploadInv
<1>1. PICK phase \in {"sending", "closed"} : uploads' = [uploads EXCEPT ![u].phase = phase, ![u].file = file]
  BY DEF Post
<1>2. uploads' \in [Ids -> Upload]
  BY <1>a, <1>1 DEF Upload
<1>3. ASSUME NEW v \in Ids, Owns(v) PROVE Owns(v)'
  <2>1. v # u
    BY <1>3 DEF Owns, Post
  <2> QED BY <1>a, <1>1, <1>3, <2>1 DEF Owns
<1> QED BY <1>2, <1>3

LEMMA UploadKeeps == ASSUME UploadInv, page = "upload", UploadNext PROVE UploadInv'
<1>a. /\ uploads \in [Ids -> Upload] /\ running \in BOOLEAN /\ uploading \in BOOLEAN
      /\ current \in {0} \cup Ids /\ (uploading <=> current # 0)
      /\ running => \E u \in Ids : Owns(u)
      /\ requests = {}
  BY DEF UploadInv
<1>b. 0 \notin Ids
  BY DEF Ids
<1>c. UNCHANGED <<uploads, running>> => /\ uploads' \in [Ids -> Upload] /\ running' \in BOOLEAN
                                        /\ running' => \E v \in Ids : Owns(v)'
  BY <1>a DEF Owns
<1>d. UNCHANGED <<uploading, current>> \/ (uploading' = FALSE /\ current' = 0) =>
        /\ uploading' \in BOOLEAN /\ current' \in {0} \cup Ids /\ (uploading' <=> current' # 0)
  <2>1. ASSUME UNCHANGED <<uploading, current>>
        PROVE  uploading' \in BOOLEAN /\ current' \in {0} \cup Ids /\ (uploading' <=> current' # 0)
    BY <1>a, <2>1
  <2>2. ASSUME uploading' = FALSE, current' = 0
        PROVE  uploading' \in BOOLEAN /\ current' \in {0} \cup Ids /\ (uploading' <=> current' # 0)
    <3>1. uploading' \in BOOLEAN /\ ~uploading'
      BY <2>2
    <3> QED BY <2>2, <3>1
  <2> QED BY <2>1, <2>2
<1>e. requests' = {}
  BY <1>a DEF UploadNext, UploadAnswers, handleUpload, HangUp, UploadAnswered, poll, pollTimer, UploadLost, Boot,
     uploadFile, OtherUploads, cancelUpload, strayPoll, RevisitUpload, restVars
<1> DEFINE Begun == /\ uploads' \in [Ids -> Upload] /\ running' \in BOOLEAN
                    /\ running' => \E v \in Ids : Owns(v)'
           Waits == uploading' \in BOOLEAN /\ current' \in {0} \cup Ids /\ (uploading' <=> current' # 0)
<1> SUFFICES Begun /\ Waits
  BY <1>e DEF UploadInv
<1>1. CASE handleUpload
  BY <1>1, <1>d, handleUploadKeeps DEF handleUpload
<1>2. CASE HangUp
  <2>1. PICK u \in Ids : Disconnect(u)
    BY <1>2 DEF HangUp
  <2> QED BY <1>2, <1>d, <2>1, DisconnectKeeps DEF HangUp
<1>3. CASE UploadLost
  BY <1>3, <1>d, DisconnectKeeps DEF UploadLost
<1>4. CASE UploadAnswered
  BY <1>4, <1>c, <1>d DEF UploadAnswered, resetUploadingStates
<1>5. CASE poll \/ pollTimer \/ Boot
  BY <1>5, <1>c, <1>d DEF poll, pollTimer, Boot
<1>6. CASE uploadFile
  <2>1. PICK u \in Ids, file \in {"image", "none"} : Post(u, file) /\ current' = u
    BY <1>6 DEF uploadFile
  <2>2. uploading' = TRUE /\ running' = running
    BY <1>6 DEF uploadFile
  <2>3. Begun
    BY <1>a, <2>1, <2>2, PostKeeps
  <2>4. Waits
    BY <1>b, <2>1, <2>2
  <2> QED BY <2>3, <2>4
<1>7. CASE OtherUploads
  <2>1. PICK u \in Ids : Post(u, "image")
    BY <1>7 DEF OtherUploads
  <2>2. UNCHANGED <<uploading, current, running>>
    BY <1>7 DEF OtherUploads
  <2>3. Begun
    BY <1>a, <2>1, <2>2, PostKeeps
  <2> QED BY <1>d, <2>2, <2>3
<1>8. CASE cancelUpload
  BY <1>8, <1>c, <1>d DEF cancelUpload, resetUploadingStates
<1>9. CASE RevisitUpload
  BY <1>9, <1>c, <1>d DEF RevisitUpload, resetUploadingStates
<1>10. CASE strayPoll
  BY <1>10, <1>c, <1>d DEF strayPoll, resetUploadingStates
<1> HIDE DEF Begun, Waits
<1> QED BY <1>1, <1>2, <1>3, <1>4, <1>5, <1>6, <1>7, <1>8, <1>9, <1>10 DEF UploadNext, UploadAnswers

-----------------------------------------------------------------------------
(* All the pages together.                                                 *)

Widgets ==
  /\ processing \in BOOLEAN
  /\ dialog \in {"none", "restart", "factoryReset", "time"}
  /\ pollCount \in 0..(NUM_POLLS - 1)

PagesInv ==
  /\ Values /\ FormInv /\ StatusInv /\ ScanInv /\ SettingsInv /\ TankInv /\ UploadInv /\ Widgets
  /\ page \in SettingsPages \cup TankPages \cup StatusPages \cup {"scan", "upload"}

LEMMA PagesDiffer ==
  /\ SettingsPages \cap TankPages = {} /\ SettingsPages \cap StatusPages = {} /\ TankPages \cap StatusPages = {}
  /\ "scan" \notin FormPages \cup StatusPages /\ "upload" \notin FormPages \cup StatusPages \cup {"scan"}
  /\ "ap" \in SettingsPages /\ "wifi" \in SettingsPages /\ "timing" \in TankPages
BY DEF SettingsPages, TankPages, StatusPages, FormPages

LEMMA StatusValues == ASSUME Values, StatusInv, page \in StatusPages, StatusNext PROVE Values' /\ StatusInv'
<1>a. (\A x \in requests' : IsRequest(x)) /\ StatusInv'
  BY StatusSteps, StatusStepKeeps
<1>b. Flags /\ Counters
  BY DEF Values
<1> SUFFICES Flags' /\ Counters'
  BY <1>a DEF Values
<1>1. CASE ServeStatus \/ ServeCommand
  BY <1>b, <1>1 DEF ServeStatus, ServeCommand, form, bounds, history, Flags, Counters
<1>2. CASE StatusLoaded
  BY <1>b, <1>2 DEF StatusLoaded, LoadAnswered, LoadFailed, bounds, history, Flags, Counters
<1>3. CASE CommandAnswered
  BY <1>b, <1>3 DEF CommandAnswered, ConfirmAnswered, TimeAnswered, CommandDone, bounds, history, Flags, Counters
<1>4. CASE Lose
  BY <1>4, LoseValues
<1>5. CASE Retry \/ Refresh
  BY <1>b, <1>5 DEF Retry, Refresh, LoadData, bounds, history, Flags, Counters
<1>6. CASE StatusChanges
  BY <1>b, <1>6 DEF StatusChanges, form, history, Flags, Counters
<1>7. CASE openConfirm \/ openSetTime \/ updateLocalTime \/ closeDialog
  BY <1>b, <1>7 DEF openConfirm, openSetTime, updateLocalTime, closeDialog, restVars, form, bounds, history, Flags, Counters
<1>8. CASE ConfirmCommand \/ SetTime
  BY <1>b, <1>8 DEF ConfirmCommand, SetTime, Command, form, bounds, history, Flags, Counters
<1>9. CASE RevisitStatus
  BY <1>9, RevisitValues DEF RevisitStatus
<1> QED BY <1>1, <1>2, <1>3, <1>4, <1>5, <1>6, <1>7, <1>8, <1>9 DEF StatusNext, StatusAnswers

LEMMA ScanValues == ASSUME Values, ScanInv, page = "scan", ScanNext PROVE Values' /\ ScanInv'
<1>a. (\A x \in requests' : IsRequest(x)) /\ ScanInv'
  BY ScanKeeps
<1>b. Flags /\ Counters
  BY DEF Values
<1> SUFFICES Flags' /\ Counters'
  BY <1>a DEF Values
<1>1. CASE ScanEnds \/ ServeScan \/ listNetworks \/ pollNetworkList
  BY <1>b, <1>1 DEF ScanEnds, ServeScan, listNetworks, pollNetworkList, restVars, form, bounds, history, Flags, Counters
<1>2. CASE ScanStarted \/ Polled
  BY <1>b, <1>2 DEF ScanStarted, Polled, finishedWithError, form, bounds, history, Flags, Counters
<1>3. CASE Lose
  BY <1>3, LoseValues
<1>4. CASE OtherScans
  BY <1>b, <1>4 DEF OtherScans, form, history, Flags, Counters
<1>5. CASE startNetworkScan
  BY <1>b, <1>5 DEF startNetworkScan, bounds, history, Flags, Counters
<1>6. CASE selectNetwork
  <2>1. Flags'
    BY <1>b, <1>6 DEF selectNetwork, Remount, Flags
  <2>2. Counters'
    BY <1>b, <1>6 DEF selectNetwork, bounds, Counters
  <2> QED BY <2>1, <2>2
<1>7. CASE RevisitScan
  <2>1. Flags'
    BY <1>b, <1>7 DEF RevisitScan, history, Flags
  <2>2. Counters'
    BY <1>b, <1>7 DEF RevisitScan, Counters
  <2> QED BY <2>1, <2>2
<1> QED BY <1>1, <1>2, <1>3, <1>4, <1>5, <1>6, <1>7 DEF ScanNext, ScanAnswers

LEMMA UploadValues == ASSUME Values, page = "upload", UploadNext PROVE Values' /\ UNCHANGED <<page, data>>
<1>1. UNCHANGED <<page, form, requests, stored, edits, history>>
  BY DEF UploadNext, UploadAnswers, handleUpload, HangUp, UploadAnswered, poll, pollTimer, UploadLost, Boot,
     uploadFile, OtherUploads, cancelUpload, strayPoll, RevisitUpload, restVars, bounds
<1>2. visits' \in {visits, visits + 1} /\ faults' \in {faults, faults + 1}
  BY DEF UploadNext, UploadAnswers, handleUpload, HangUp, UploadAnswered, poll, pollTimer, UploadLost, Boot,
     uploadFile, OtherUploads, cancelUpload, strayPoll, RevisitUpload, restVars, bounds
<1>3. Counters'
  BY <1>1, <1>2 DEF Values, Counters
<1> QED BY <1>1, <1>3 DEF Values, Flags, form, history

LEMMA StatusWidgets == ASSUME Widgets, StatusNext PROVE processing' \in BOOLEAN /\ dialog' \in {"none", "restart", "factoryReset", "time"}
<1>1. processing' \in BOOLEAN
  BY DEF Widgets, StatusNext, StatusAnswers, ServeStatus, ServeCommand, StatusLoaded, CommandAnswered,
     ConfirmAnswered, TimeAnswered, CommandDone, StatusChanges, Refresh, openConfirm, openSetTime,
     updateLocalTime, closeDialog, ConfirmCommand, SetTime, Command, RevisitStatus, statusVars
<1>2. dialog' \in {"none", "restart", "factoryReset", "time"}
  BY DEF Widgets, StatusNext, StatusAnswers, ServeStatus, ServeCommand, StatusLoaded, CommandAnswered,
     ConfirmAnswered, TimeAnswered, CommandDone, StatusChanges, Refresh, openConfirm, openSetTime,
     updateLocalTime, closeDialog, ConfirmCommand, SetTime, Command, RevisitStatus, statusVars
<1> QED BY <1>1, <1>2

LEMMA ScanWidgets == ASSUME Widgets, ScanNext PROVE pollCount' \in 0..(NUM_POLLS - 1)
<1>1. NUM_POLLS \in Nat \ {0} /\ pollCount \in 0..(NUM_POLLS - 1)
  BY PollsAssumption DEF Widgets
<1>2. pollCount' \in {0, pollCount} \/ (pollCount' = pollCount + 1 /\ pollCount + 1 < NUM_POLLS)
  BY DEF ScanNext, ScanAnswers, ScanEnds, ServeScan, listNetworks, ScanStarted, pollNetworkList, Polled,
     OtherScans, startNetworkScan, RevisitScan, selectNetwork, scanVars
<1> QED BY <1>1, <1>2

LEMMA UploadStays ==
  ASSUME UploadInv, UNCHANGED uploadVars, page' # "upload"
  PROVE  UploadInv'
BY DEF UploadInv, uploadVars, Owns

LEMMA DialogStays ==
  ASSUME Dialog, page # "timing", UNCHANGED tankVars
  PROVE  Dialog'
BY DEF Dialog, tankVars

LEMMA SettingsPageKeeps == ASSUME PagesInv, OnSettings(SettingsNext) PROVE PagesInv'
<1>1. page \in SettingsPages /\ SettingsNext /\ UNCHANGED <<tankVars, statusVars, scanVars, uploadVars>>
  BY DEF OnSettings
<1>2. Values' /\ FormInv' /\ SettingsInv'
  BY <1>1, SettingsValues, SettingsFormStep, FormStepKeeps, SettingsKeeps DEF PagesInv, FormPages
<1>3. page' = page
  BY <1>1, PageStays, PagesDiffer DEF Next, OnSettings, FormPages
<1>4. StatusInv' /\ ScanInv'
  BY <1>1, <1>3, PagesDiffer DEF StatusInv, ScanInv, FormPages
<1>5. TankInv'
  BY <1>1, <1>3, DialogStays, PagesDiffer DEF PagesInv, TankInv, TimingLists, TimingShown
<1>6. UploadInv'
  BY <1>1, <1>3, UploadStays, PagesDiffer DEF PagesInv, FormPages
<1>7. Widgets'
  BY <1>1 DEF PagesInv, Widgets, statusVars, scanVars
<1> QED BY <1>1, <1>2, <1>3, <1>4, <1>5, <1>6, <1>7 DEF PagesInv

LEMMA TankPageKeeps == ASSUME PagesInv, OnTank(TankNext) PROVE PagesInv'
<1>1. page \in TankPages /\ TankNext /\ UNCHANGED <<settingsVars, statusVars, scanVars, uploadVars>>
  BY DEF OnTank
<1>2. Values' /\ FormInv' /\ TankInv'
  BY <1>1, TankValues, TankFormStep, FormStepKeeps, TankKeeps DEF PagesInv, FormPages
<1>3. page' = page
  BY <1>1, PageStays, PagesDiffer DEF Next, OnTank, FormPages
<1>4. StatusInv' /\ ScanInv'
  BY <1>1, <1>3, PagesDiffer DEF StatusInv, ScanInv, FormPages
<1>5. SettingsInv'
  BY <1>1, <1>3, PagesDiffer DEF SettingsInv, SettingsStored, SettingsSent, SettingsShown, FormPages
<1>6. UploadInv'
  BY <1>1, <1>3, UploadStays, PagesDiffer DEF PagesInv, FormPages
<1>7. Widgets'
  BY <1>1 DEF PagesInv, Widgets, statusVars, scanVars
<1> QED BY <1>1, <1>2, <1>3, <1>4, <1>5, <1>6, <1>7 DEF PagesInv

LEMMA StatusPageKeeps == ASSUME PagesInv, OnStatus(StatusNext) PROVE PagesInv'
<1>1. page \in StatusPages /\ StatusNext /\ UNCHANGED <<settingsVars, tankVars, scanVars, uploadVars>>
  BY DEF OnStatus
<1>2. Values' /\ StatusInv'
  BY <1>1, StatusValues DEF PagesInv
<1>3. page' = page
  BY <1>1, PageStays, PagesDiffer DEF Next, OnStatus
<1>4. FormInv' /\ ScanInv'
  BY <1>1, <1>3, PagesDiffer DEF FormInv, ScanInv, FormPages
<1>5. SettingsInv'
  BY <1>1, <1>3, PagesDiffer DEF SettingsInv, SettingsStored, SettingsSent, SettingsShown, FormPages
<1>6. TankInv'
  BY <1>1, <1>3, DialogStays, PagesDiffer DEF PagesInv, TankInv, TimingLists, TimingShown
<1>7. UploadInv'
  BY <1>1, <1>3, UploadStays, PagesDiffer DEF PagesInv
<1>8. Widgets'
  BY <1>1, StatusWidgets DEF PagesInv, Widgets, scanVars
<1> QED BY <1>1, <1>2, <1>3, <1>4, <1>5, <1>6, <1>7, <1>8 DEF PagesInv

LEMMA ScanPageKeeps == ASSUME PagesInv, OnScan(ScanNext) PROVE PagesInv'
<1>1. page = "scan" /\ ScanNext /\ UNCHANGED <<tankVars, statusVars, uploadVars>>
  BY DEF OnScan
<1>2. Values' /\ ScanInv'
  BY <1>1, ScanValues DEF PagesInv
<1>3. page' = page \/ selectNetwork
  BY <1>1, PageStays DEF Next, OnScan
<1>4. page' \in {"scan", "wifi"}
  BY <1>1, <1>3, SelectOpens DEF PagesInv
<1>5. stored' = stored
  BY <1>1 DEF ScanNext, ScanAnswers, ScanEnds, ServeScan, listNetworks, ScanStarted, pollNetworkList, Polled,
     Lose, OtherScans, startNetworkScan, RevisitScan, selectNetwork, restVars
<1>6. Request("load", NoData).kind = "load" /\ Request("load", NoData).phase = "sent"
  BY DEF Request
<1>7. FormInv'
  <2>1. CASE page' = page
    BY <1>1, <2>1, PagesDiffer DEF FormInv, FormPages
  <2>2. CASE selectNetwork
    BY <1>6, <2>2, SelectOpens DEF PagesInv, FormInv
  <2> QED BY <1>3, <2>1, <2>2
<1>8. SettingsInv'
  <2>1. Legal(stored)'
    BY <1>1, <1>4, <1>5 DEF PagesInv, SettingsInv, SettingsStored, Legal
  <2>2. CASE page' = page
    BY <1>1, <2>1, <2>2, PagesDiffer DEF SettingsInv, SettingsStored, SettingsSent, SettingsShown, FormPages
  <2>3. CASE selectNetwork
    <3>1. SettingsSent'
      BY <1>6, <2>3, SelectOpens DEF PagesInv, SettingsSent
    <3>2. SettingsShown'
      BY <2>3, SelectOpens DEF PagesInv, SettingsShown
    <3> QED BY <2>1, <3>1, <3>2 DEF SettingsInv, SettingsStored
  <2> QED BY <1>3, <2>2, <2>3
<1>9. TankInv'
  BY <1>1, <1>4, DialogStays DEF PagesInv, TankInv, TimingLists, TimingShown
<1>10. StatusInv' /\ UploadInv'
  BY <1>1, <1>4, UploadStays, PagesDiffer DEF PagesInv, StatusInv, FormPages
<1>11. Widgets'
  BY <1>1, ScanWidgets DEF PagesInv, Widgets, statusVars
<1> QED BY <1>2, <1>4, <1>7, <1>8, <1>9, <1>10, <1>11, PagesDiffer DEF PagesInv

LEMMA UploadPageKeeps == ASSUME PagesInv, OnUpload(UploadNext) PROVE PagesInv'
<1>1. page = "upload" /\ UploadNext /\ UNCHANGED <<settingsVars, tankVars, statusVars, scanVars>>
  BY DEF OnUpload
<1>2. Values' /\ UNCHANGED <<page, data>>
  BY <1>1, UploadValues DEF PagesInv
<1>3. FormInv' /\ ScanInv' /\ StatusInv'
  BY <1>1, <1>2, PagesDiffer DEF FormInv, ScanInv, StatusInv
<1>4. SettingsInv'
  BY <1>1, <1>2, PagesDiffer DEF SettingsInv, SettingsStored, SettingsSent, SettingsShown, FormPages
<1>5. TankInv'
  BY <1>1, <1>2, DialogStays DEF PagesInv, TankInv, TimingLists, TimingShown
<1>6. UploadInv'
  BY <1>1, UploadKeeps DEF PagesInv
<1>7. Widgets'
  BY <1>1 DEF PagesInv, Widgets, statusVars, scanVars
<1> QED BY <1>1, <1>2, <1>3, <1>4, <1>5, <1>6, <1>7 DEF PagesInv

LEMMA PagesStay == ASSUME PagesInv, UNCHANGED vars PROVE PagesInv'
<1>1. Values'
  BY DEF PagesInv, vars, restVars, form, bounds, history, Values, Flags, Counters
<1>2. FormInv'
  BY DEF PagesInv, vars, restVars, form, bounds, history, FormInv
<1>3. StatusInv'
  BY DEF PagesInv, vars, restVars, form, bounds, history, statusVars, StatusInv, StatusRequests, StatusLoads,
     StatusContents, IsStatus, Keys
<1>4. ScanInv'
  BY DEF PagesInv, vars, restVars, form, bounds, history, scanVars, ScanInv, ScanTurns, ScanFresh
<1>5. SettingsInv'
  BY DEF PagesInv, vars, restVars, form, bounds, history, settingsVars, SettingsInv, SettingsStored, SettingsSent,
     SettingsShown, Legal, Entered, Invalid
<1>6. TankInv'
  BY DEF PagesInv, vars, restVars, form, bounds, history, tankVars, TankInv, TimingLists, TimingShown, Dialog, IsTimings
<1>7. UploadInv'
  BY DEF PagesInv, vars, restVars, form, bounds, history, uploadVars, UploadInv, Owns
<1>8. Widgets' /\ page' = page
  BY DEF PagesInv, vars, restVars, statusVars, scanVars, Widgets
<1> QED BY <1>1, <1>2, <1>3, <1>4, <1>5, <1>6, <1>7, <1>8 DEF PagesInv

LEMMA PagesStart == ASSUME Init PROVE PagesInv
<1>a. /\ \A x \in requests : IsRequest(x) /\ x.phase = "sent" /\ x.mine
      /\ \A x \in requests : x.kind = (IF page = "scan" THEN "scan" ELSE "load")
      /\ \A x, y \in requests : x = y
      /\ page = "upload" => requests = {}
  <2>1. /\ IsRequest(Request("load", NoData)) /\ Request("load", NoData).kind = "load"
        /\ Request("load", NoData).phase = "sent" /\ Request("load", NoData).mine
        /\ IsRequest(Request("scan", NoData)) /\ Request("scan", NoData).kind = "scan"
        /\ Request("scan", NoData).phase = "sent" /\ Request("scan", NoData).mine
    BY Asked
  <2>2. CASE page = "upload"
    BY <2>2 DEF Init
  <2>3. CASE page = "scan"
    BY <2>1, <2>3 DEF Init
  <2>4. CASE page \notin {"scan", "upload"}
    BY <2>1, <2>4 DEF Init
  <2> QED BY <2>2, <2>3, <2>4
<1>b. /\ page \in SettingsPages \cup TankPages \cup StatusPages \cup {"scan", "upload"}
      /\ data = NoData /\ saving = FALSE /\ errorMessage = FALSE /\ dirty = FALSE /\ late = FALSE
      /\ edits \in {0, 1} /\ visits = 0 /\ faults = 0 /\ stored \in Stored(page)
      /\ timepopup = FALSE /\ idx = 0 /\ crashed = FALSE
      /\ dialog = "none" /\ processing = FALSE /\ pollCount = 0 /\ timer = FALSE
      /\ uploads = [u \in Ids |-> Unused] /\ running = FALSE /\ uploading = FALSE /\ current = 0
  BY DEF Init, ADD_NEW_TIMER
<1>1. Values
  <2>1. Flags
    BY <1>b DEF Flags
  <2>2. Counters
    BY <1>b DEF Counters
  <2> QED BY <1>a, <2>1, <2>2 DEF Values
<1>2. FormInv
  BY <1>a, <1>b, PagesDiffer DEF FormInv
<1>3. StatusInv
  BY <1>a, <1>b, PagesDiffer DEF StatusInv, StatusRequests, StatusLoads, StatusContents, Commands
<1>4. ScanInv
  BY <1>a, <1>b DEF ScanInv, ScanTurns, ScanFresh
<1>5. SettingsInv
  <2>1. \A w \in WiFiStored : DOMAIN w = WiFiFields /\ w.static_ip_config \in Flag
    <3> SUFFICES ASSUME NEW w \in WiFiStored PROVE DOMAIN w = WiFiFields /\ w.static_ip_config \in Flag
      OBVIOUS
    <3>1. PICK static \in Flag, dns \in [Servers -> {"old", "empty"}] :
            w = [f \in WiFiFields |-> CASE f = "static_ip_config" -> static
                                       [] f \in Servers -> dns[f]
                                       [] OTHER -> "old"]
      BY FieldsOfWiFi DEF WiFiStored
    <3>2. "static_ip_config" \in WiFiFields /\ "static_ip_config" \notin Servers
      BY DEF WiFiFields, Servers
    <3> QED BY <3>1, <3>2
  <2>2. \A w \in APStored : DOMAIN w = APFields /\ w.provision_mode \in Modes \cup {"other"}
    BY FieldsOfWiFi DEF APStored, APFields, Modes
  <2>3. page \in {"wifi", "scan"} => stored \in WiFiStored
    BY <1>b DEF Stored, StatusPages
  <2>4. page = "ap" => stored \in APStored
    BY <1>b DEF Stored, StatusPages
  <2>5. SettingsStored
    BY <2>1, <2>2, <2>3, <2>4 DEF SettingsStored, Legal
  <2> QED BY <1>a, <1>b, <2>5 DEF SettingsInv, SettingsSent, SettingsShown, SettingsPages
<1>6. TankInv
  <2>1. page = "timing" => \E n \in 0..MAX_AUTOSTART : stored = [i \in 1..n |-> Timer("old", "old")]
    BY <1>b DEF Stored, StatusPages
  <2>2. Timer("old", "old") \in Timers
    BY DEF Timer, Timers, Fresh
  <2>3. \A n \in 0..MAX_AUTOSTART : IsTimings([i \in 1..n |-> Timer("old", "old")], MAX_AUTOSTART)
    BY <2>2, TankAssumption DEF IsTimings
  <2>4. TimingLists
    BY <1>a, <2>1, <2>3 DEF TimingLists
  <2>5. Dialog
    <3>1. crashed \in BOOLEAN /\ timepopup \in BOOLEAN /\ ~crashed
      BY <1>b
    <3>2. idx \in 0..(MAX_AUTOSTART + 1)
      BY <1>b, TankAssumption
    <3> QED BY <3>1, <3>2 DEF Dialog
  <2> QED BY <1>b, <2>4, <2>5 DEF TankInv, TimingShown
<1>7. UploadInv
  <2>1. Unused \in Upload
    BY DEF Unused, Upload
  <2> QED BY <1>a, <1>b, <2>1 DEF UploadInv
<1>8. Widgets
  <2>1. processing \in BOOLEAN /\ dialog \in {"none", "restart", "factoryReset", "time"}
    BY <1>b
  <2>2. pollCount \in 0..(NUM_POLLS - 1)
    BY <1>b, PollsAssumption
  <2> QED BY <2>1, <2>2 DEF Widgets
<1> QED BY <1>b, <1>1, <1>2, <1>3, <1>4, <1>5, <1>6, <1>7, <1>8 DEF PagesInv

LEMMA PagesInvariant == Spec => []PagesInv
<1>1. Init => PagesInv
  BY PagesStart
<1>2. PagesInv /\ [Next]_vars => PagesInv'
  BY SettingsPageKeeps, TankPageKeeps, StatusPageKeeps, ScanPageKeeps, UploadPageKeeps, PagesStay DEF Next
<1> QED BY <1>1, <1>2, PTL DEF Spec

-----------------------------------------------------------------------------
(* The properties.                                                         *)

(* The state keeps its type on every page.  The timer of the dialog is one *)
(* of a list that is longer by one than the device accepts, at most.       *)
THEOREM PagesTyped == Spec => []TypeOK
<1>1. PagesInv => TypeOK
  BY DEF PagesInv, Values, Flags, IsRequest, UploadInv, TankInv, Dialog, Widgets, TypeOK
<1> QED BY <1>1, PagesInvariant, PTL

(* The page never loses track of what is stored: once it is loaded, waits  *)
(* for nothing, shows no error and was not touched, it shows what the      *)
(* device has, whatever was lost and in whatever order the answers came.   *)
THEOREM PagesShowWhatIsStored == Spec => []ShownIsStored
<1>1. PagesInv => ShownIsStored
  BY DEF PagesInv, FormInv, FormPages, ShownIsStored
<1> QED BY <1>1, PagesInvariant, PTL

LEMMA AtMostOne ==
  ASSUME NEW S, \A x, y \in S : x = y
  PROVE  Cardinality(S) \in Nat /\ Cardinality(S) <= 1
<1>1. CASE S = {}
  BY <1>1, FS_EmptySet
<1>2. CASE S # {}
  <2>1. PICK x : S = {x}
    BY <1>2
  <2> QED BY <2>1, FS_Singleton
<1> QED BY <1>1, <1>2

(* A page waits for one save and one command at most and, but for the one  *)
(* that sets the clock, for one load; the scanner for one request or its   *)
(* timer.                                                                  *)
THEOREM OneAtATime == Spec => []OneRequest
<1>1. ASSUME PagesInv PROVE OneRequest
  <2> DEFINE mine == {r \in requests : r.mine}
  <2>1. ASSUME page \in FormPages, NEW S, S \subseteq mine PROVE Cardinality(S) \in Nat /\ Cardinality(S) <= 1
    BY <1>1, <2>1, AtMostOne DEF PagesInv, FormInv
  <2>2. ASSUME page \in StatusPages
        PROVE  /\ {r \in mine : r.kind = "save"} = {}
               /\ \A r, q \in {x \in mine : x.kind \in Commands} : r = q
               /\ page # "ntpStatus" => \A r, q \in {x \in mine : x.kind = "load"} : r = q
    BY <1>1, <2>2 DEF PagesInv, StatusInv, StatusRequests, StatusLoads, Commands
  <2>3. ASSUME page = "scan"
        PROVE  (\A r, q \in requests : r = q) /\ (timer => requests = {})
    BY <1>1, <2>3 DEF PagesInv, ScanInv, ScanTurns
  <2>4. page = "upload" => requests = {}
    BY <1>1 DEF PagesInv, UploadInv
  <2>5. page \in FormPages \/ page \in StatusPages \/ page = "scan" \/ page = "upload"
    BY <1>1 DEF PagesInv, FormPages
  <2>6. Cardinality({r \in mine : r.kind = "save"}) <= 1
    <3>1. \A x, y \in {r \in mine : r.kind = "save"} : x = y
      BY <1>1, <2>2, <2>3, <2>4, <2>5 DEF PagesInv, FormInv
    <3> QED BY <3>1, AtMostOne
  <2>7. Cardinality({r \in mine : r.kind \in Commands}) <= 1
    <3>1. \A x, y \in {r \in mine : r.kind \in Commands} : x = y
      BY <1>1, <2>2, <2>3, <2>4, <2>5 DEF PagesInv, FormInv
    <3> QED BY <3>1, AtMostOne
  <2>8. Cardinality({r \in mine : r.kind = "load"}) > 1 => page = "ntpStatus"
    <3>1. SUFFICES ASSUME page # "ntpStatus" PROVE ~(Cardinality({r \in mine : r.kind = "load"}) > 1)
      OBVIOUS
    <3>2. \A x, y \in {r \in mine : r.kind = "load"} : x = y
      BY <1>1, <2>2, <2>3, <2>4, <2>5, <3>1 DEF PagesInv, FormInv
    <3>3. Cardinality({r \in mine : r.kind = "load"}) \in Nat /\ Cardinality({r \in mine : r.kind = "load"}) <= 1
      BY <3>2, AtMostOne
    <3> HIDE DEF mine
    <3> QED BY <3>3
  <2>9. page = "scan" => Cardinality(requests) + (IF timer THEN 1 ELSE 0) <= 1
    <3>1. SUFFICES ASSUME page = "scan" PROVE Cardinality(requests) + (IF timer THEN 1 ELSE 0) <= 1
      OBVIOUS
    <3>2. CASE timer
      BY <2>3, <3>1, <3>2, FS_EmptySet
    <3>3. CASE ~timer
      <4>1. Cardinality(requests) \in Nat /\ Cardinality(requests) <= 1
        BY <2>3, <3>1, AtMostOne
      <4> QED BY <3>3, <4>1
    <3> QED BY <3>2, <3>3
  <2> QED BY <2>6, <2>7, <2>8, <2>9 DEF OneRequest
<1> QED BY <1>1, PagesInvariant, PTL

(* Every key a status page reads came with the answer, in every status the *)
(* device can be in.                                                       *)
THEOREM RowsAreSent == Spec => []RowsSent
<1>1. ASSUME PagesInv PROVE RowsSent
  <2>1. SUFFICES ASSUME page \in StatusPages, data # NoData PROVE Rows(data.status) \subseteq data.keys
    BY DEF RowsSent
  <2>2. data = [status |-> data.status, keys |-> Keys(data.status)]
    BY <1>1, <2>1 DEF PagesInv, StatusInv, StatusContents, IsStatus
  <2>3. data.keys = Keys(data.status)
    BY <2>2
  <2>4. Rows(data.status) \subseteq Keys(data.status)
    <3>1. CASE page = "system"
      BY <3>1 DEF Rows, Keys, SystemRows, systemStatus
    <3>2. CASE page = "wifiStatus"
      BY <3>2 DEF Rows, Keys, WiFiRows, wifiStatus
    <3>3. CASE page = "apStatus"
      BY <3>3 DEF Rows, Keys, APRows, apStatus
    <3>4. CASE page = "ntpStatus"
      BY <3>4 DEF Rows, Keys, NTPRows, ntpStatus
    <3> QED BY <2>1, <3>1, <3>2, <3>3, <3>4 DEF StatusPages
  <2> QED BY <2>3, <2>4
<1> QED BY <1>1, PagesInvariant, PTL

(* The list of networks is from a scan that ended after this page had      *)
(* asked for one, whoever else scans.                                      *)
THEOREM ListIsFresh == Spec => []FreshList
<1>1. PagesInv => FreshList
  BY DEF PagesInv, ScanInv, ScanFresh, FreshList
<1> QED BY <1>1, PagesInvariant, PTL

(* An update that is running has a connection that ends it when it closes, *)
(* whatever else is uploaded, refused or cut off.                          *)
THEOREM UpdateIsOwned == Spec => []UpdateHasOwner
<1>1. PagesInv => UpdateHasOwner
  BY DEF PagesInv, UploadInv, Owns, IsOpen, UpdateHasOwner
<1> QED BY <1>1, PagesInvariant, PTL

(* No settings page complains about a field that is not on it, also when   *)
(* the network was chosen in the scanner and its fields are hidden.        *)
THEOREM AlwaysRepairable == Spec => []Repairable
<1>1. ASSUME PagesInv PROVE Repairable
  <2>1. SUFFICES ASSUME page \in SettingsPages, data # NoData PROVE Invalid(data) \subseteq Shown(data)
    BY DEF Repairable
  <2>2. CASE page = "wifi"
    <3>1. /\ selected # "none" => data.ssid \notin {"empty", "bad"}
          /\ selected = "open" => data.password # "bad"
      BY <1>1, <2>1, <2>2 DEF PagesInv, SettingsInv, SettingsShown
    <3> QED BY <2>2, <3>1 DEF Invalid, WiFiInvalid, Missing, Malformed, IP_ADDRESS_VALIDATOR, Shown, WiFiShown, Statics, Servers
  <2>3. CASE page = "ap"
    BY <2>3 DEF Invalid, APInvalid, Missing, Malformed, IP_ADDRESS_VALIDATOR, Shown, APShown, Statics
  <2>4. CASE page = "ntp"
    BY <2>4 DEF Invalid, NTPInvalid, Missing, Malformed, Shown, NTPShown
  <2>5. CASE page = "ota"
    BY <2>5 DEF Invalid, OTAInvalid, Missing, Malformed, Shown, OTAShown
  <2>6. CASE page = "security"
    BY <2>6 DEF Invalid, SecurityInvalid, Missing, Malformed, Shown, SecurityShown
  <2> QED BY <2>1, <2>2, <2>3, <2>4, <2>5, <2>6 DEF SettingsPages
<1> QED BY <1>1, PagesInvariant, PTL

-----------------------------------------------------------------------------
(* What a save keeps.                                                      *)

(* A request that the device answers is on its way back afterwards.        *)
LEMMA ServedIsGone ==
  ASSUME Values, NEW r \in requests, r.phase = "sent", NEW answer, Answered(r, "done", answer)
  PROVE  r \notin requests'
<1>1. IsRequest(r)
  BY DEF Values
<1>2. Reply(r, "done", answer).phase = "done"
  BY <1>1, ReplyIs
<1>3. requests' = (requests \ {r}) \cup {Reply(r, "done", answer)}
  BY DEF Answered, Reply
<1> QED BY <1>2, <1>3

(* No other step of the pages does what serving a save does.               *)
LEMMA ServedByUpdate ==
  ASSUME Values, [Next]_vars, page \in SettingsPages, NEW r \in Sent("save"), ServeSave(r, stored')
  PROVE  stored' = SettingsUpdate(stored, r.body)
<1>a. /\ r \in requests /\ r.kind = "save" /\ r.phase = "sent" /\ r \notin requests'
      /\ UNCHANGED <<saving, errorMessage, edits, visits, faults>>
  BY ServedIsGone DEF Sent, ServeSave, form, bounds
<1>b. edits \in Nat /\ visits \in Nat /\ faults \in Nat /\ \A q \in requests : IsRequest(q)
  BY DEF Values, Counters
<1>c. ASSUME NEW q \in requests, NEW answer, Answered(q, "done", answer) PROVE q = r
  BY <1>a, <1>b, <1>c, AnsweredThere
<1>0. CASE UNCHANGED vars
  BY <1>0, <1>a DEF vars, restVars
<1>1. CASE SettingsDevice
  <2>1. ASSUME NEW q \in Sent("load"), ServeLoad(q) PROVE FALSE
    BY <1>a, <1>c, <2>1 DEF Sent, ServeLoad
  <2>2. ASSUME NEW q \in Sent("save"), ServeSave(q, SettingsUpdate(stored, q.body))
        PROVE  stored' = SettingsUpdate(stored, r.body)
    BY <1>c, <2>2 DEF Sent, ServeSave
  <2> QED BY <1>1, <2>1, <2>2 DEF SettingsDevice
<1>2. CASE SettingsLoaded \/ SettingsSaved
  <2>1. PICK q \in requests : q.phase # "sent" /\ requests' = requests \ {q}
    BY <1>2 DEF SettingsLoaded, SettingsSaved, Back, Take, LoadAnswered, LoadFailed, SaveAnswered, SaveFailed
  <2> QED BY <1>a, <2>1
<1>3. CASE Lose
  BY <1>3, <1>a, <1>b DEF Lose
<1>4. CASE Retry
  <2>1. errorMessage /\ errorMessage' = FALSE
    BY <1>4 DEF Retry, LoadData
  <2> QED BY <1>a, <2>1
<1>5. CASE updateFormValue \/ changeTimeZone
  <2>1. edits' = edits + 1
    BY <1>5 DEF updateFormValue, changeTimeZone, Edited
  <2> QED BY <1>a, <1>b, <2>1
<1>6. CASE deselectNetwork
  BY <1>6, <1>a DEF deselectNetwork, restVars
<1>7. CASE validateAndSubmit
  <2>1. ~saving /\ saving' = TRUE
    BY <1>7 DEF validateAndSubmit, Save
  <2> QED BY <1>a, <2>1
<1>8. CASE RevisitSettings
  BY <1>8, <1>a, <1>b DEF RevisitSettings, Revisit
<1>9. SettingsNext \/ UNCHANGED vars
  BY PagesDiffer DEF Next, OnTank, OnStatus, OnScan, OnUpload, OnSettings, FormPages
<1> QED BY <1>9, <1>0, <1>1, <1>2, <1>3, <1>4, <1>5, <1>6, <1>7, <1>8 DEF SettingsNext, SettingsAnswers

(* update() keeps what the validator has let pass.                         *)
LEMMA WiFiUpdateKeeps ==
  ASSUME NEW old, page = "wifi", NEW d, Legal(d), Invalid(d) = {}, NEW f \in Shown(d)
  PROVE  WiFiUpdate(d)[f] = d[f] \/ IsExcused(old, d, f)
<1> DEFINE ip == [g \in Statics \cup Servers |-> ReadWiFiIP(d[g])]
           swap == ip.dns_ip_1 = "empty" /\ ip.dns_ip_2 # "empty"
<1>1. DOMAIN d = WiFiFields /\ d.static_ip_config \in Flag /\ f \in WiFiFields
  BY DEF Legal, Shown, WiFiShown, WiFiFields, Statics, Servers
<1>2. \A g \in Statics \cup Servers : ip[g] = IF IsSet(d[g]) THEN d[g] ELSE "empty"
  BY DEF ReadWiFiIP
<1>3. "dns_ip_1" \in Servers /\ "dns_ip_2" \in Servers /\ Statics \cap Servers = {} /\ "static_ip_config" \notin Statics \cup Servers
  BY DEF Statics, Servers
<1>4. swap <=> Swapped(d)
  BY <1>2, <1>3 DEF Swapped, IsSet, isValidIpAddress
<1>5. d.static_ip_config = "on" =>
        /\ \A g \in Statics : IsSet(d[g]) \/ d[g] = "unset"
        /\ \A g \in Servers : IsSet(d[g]) \/ d[g] \in {"unset", "empty"}
  BY DEF Invalid, WiFiInvalid, Missing, IP_ADDRESS_VALIDATOR, isValidIpAddress, IsSet
<1>6. f \in Statics \cup Servers => d.static_ip_config = "on"
  BY DEF Shown, WiFiShown, Statics, Servers
<1>7. CASE f = "static_ip_config"
  <2>1. WiFiUpdate(d)["static_ip_config"]
          = IF \A g \in Statics : ip[g] # "empty" THEN d["static_ip_config"] ELSE "off"
    <3> DEFINE complete == \A g \in Statics : ip[g] # "empty"
    <3>1. WiFiUpdate(d) =
            [g \in DOMAIN d |->
               CASE g = "static_ip_config" -> IF complete THEN d[g] ELSE "off"
                 [] g = "dns_ip_1" /\ swap -> ip.dns_ip_2
                 [] g = "dns_ip_2" /\ swap -> "empty"
                 [] g \in Statics \cup Servers /\ ~swap -> ip[g]
                 [] g \in Statics /\ swap -> ip[g]
                 [] OTHER -> d[g]]
      BY DEF WiFiUpdate
    <3> HIDE DEF complete, ip, swap
    <3>2. "static_ip_config" \in DOMAIN d
      BY <1>1, <1>7
    <3>3. WiFiUpdate(d)["static_ip_config"] = IF complete THEN d["static_ip_config"] ELSE "off"
      BY <3>1, <3>2, <1>3
    <3> QED BY <3>3 DEF complete
  <2>2. CASE d[f] = "off"
    BY <1>7, <2>1, <2>2
  <2>3. CASE d[f] = "on"
    <3>1. ASSUME NEW g \in Statics, ip[g] = "empty" PROVE d[g] = "unset"
      BY <1>2, <1>5, <1>7, <2>3, <3>1 DEF IsSet, isValidIpAddress
    <3>2. (\E g \in Statics : d[g] = "unset") => IsExcused(old, d, f)
      BY <1>7 DEF IsExcused
    <3> QED BY <1>7, <2>1, <3>1, <3>2
  <2> QED BY <1>1, <1>7, <2>2, <2>3 DEF Flag
<1>8. CASE f \in Statics
  <2>1. WiFiUpdate(d)[f] = ip[f]
    BY <1>1, <1>3, <1>8 DEF WiFiUpdate, Statics, Servers
  <2>2. IsSet(d[f]) => ip[f] = d[f]
    BY <1>2, <1>8
  <2>3. d[f] = "unset" => IsExcused(old, d, f)
    BY <1>8 DEF IsExcused
  <2> QED BY <1>5, <1>6, <1>8, <2>1, <2>2, <2>3
<1>9. CASE f \in Servers
  <2>1. ~swap => WiFiUpdate(d)[f] = ip[f]
    BY <1>1, <1>3, <1>9 DEF WiFiUpdate, Statics, Servers
  <2>2. swap => IsExcused(old, d, f)
    BY <1>4, <1>9 DEF IsExcused
  <2>3. IsSet(d[f]) \/ d[f] = "empty" => ip[f] = d[f]
    BY <1>2, <1>9 DEF IsSet
  <2>4. d[f] = "unset" => IsExcused(old, d, f)
    BY <1>9 DEF IsExcused
  <2> QED BY <1>5, <1>6, <1>9, <2>1, <2>2, <2>3, <2>4
<1>10. CASE f \notin {"static_ip_config"} \cup Statics \cup Servers
  BY <1>1, <1>3, <1>10 DEF WiFiUpdate
<1> QED BY <1>7, <1>8, <1>9, <1>10

LEMMA APUpdateKeeps ==
  ASSUME page = "ap", NEW old, Legal(old), NEW d, Legal(d), Invalid(d) = {}, NEW f \in Shown(d)
  PROVE  APUpdate(old, d)[f] = d[f] \/ IsExcused(old, d, f)
<1>1. DOMAIN d = APFields /\ f \in APFields /\ old.provision_mode \in Modes \cup {"other"}
  BY DEF Legal, Shown, APShown, APFields, Statics
<1>2. CASE f = "provision_mode"
  <2>1. APUpdate(old, d)[f] = IF old.provision_mode \notin Modes THEN "always" ELSE d[f]
    BY <1>1, <1>2, FieldsOfWiFi DEF APUpdate, Statics
  <2> QED BY <1>1, <1>2, <2>1 DEF IsExcused
<1>3. CASE f \in Statics
  <2>1. isAPEnabled(d) /\ APUpdate(old, d)[f] = ReadIP(d[f], "factory")
    BY <1>1, <1>3 DEF Shown, APShown, APUpdate, Statics
  <2>2. isValidIpAddress(d[f])
    BY <1>3, <2>1 DEF Invalid, APInvalid, Missing, IP_ADDRESS_VALIDATOR
  <2> QED BY <2>1, <2>2 DEF ReadIP
<1>4. CASE f # "provision_mode" /\ f \notin Statics
  BY <1>1, <1>4 DEF APUpdate
<1> QED BY <1>2, <1>3, <1>4

(* A save that is answered with success has stored every field the page    *)
(* showed as the user left it, but for the values the device takes for no  *)
(* address, name servers that move up and the mode of an access point that *)
(* had none.                                                               *)
THEOREM SavesKeepSettings == Spec => KeepsSettings
<1>1. ASSUME PagesInv, [Next]_vars, NEW r \in Sent("save"), page \in SettingsPages, ServeSave(r, stored')
      PROVE  \A f \in Shown(r.body) : stored'[f] = r.body[f] \/ IsExcused(stored, r.body, f)
  <2>1. stored' = SettingsUpdate(stored, r.body)
    BY <1>1, ServedByUpdate DEF PagesInv
  <2>2. Legal(stored) /\ Legal(r.body) /\ Invalid(r.body) = {}
    BY <1>1 DEF PagesInv, SettingsInv, SettingsStored, SettingsSent, Sent
  <2>3. CASE page = "wifi"
    BY <2>1, <2>2, <2>3, WiFiUpdateKeeps DEF SettingsUpdate
  <2>4. CASE page = "ap"
    BY <2>1, <2>2, <2>4, APUpdateKeeps DEF SettingsUpdate
  <2>5. CASE page \notin {"wifi", "ap"}
    BY <2>1, <2>5 DEF SettingsUpdate
  <2> QED BY <2>3, <2>4, <2>5
<1>2. PagesInv /\ [Next]_vars =>
        [\A r \in Sent("save") :
           page \in SettingsPages /\ ServeSave(r, stored')
             => \A f \in Shown(r.body) : stored'[f] = r.body[f] \/ IsExcused(stored, r.body, f)]_vars
  BY <1>1
<1> QED BY <1>2, PagesInvariant, PTL DEF Spec, KeepsSettings
=============================================================================
