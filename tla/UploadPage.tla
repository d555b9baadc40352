------------------------------ MODULE UploadPage ------------------------------
(***************************************************************************)
(* The firmware page and the device's end of it.  An upload is a POST with *)
(* a connection of its own: the device takes it chunk by chunk into the    *)
(* one Update of the ESP32 library, and what it does when the connection   *)
(* closes depends on how far it has come.  Once it has been told that all  *)
(* went well the page polls the device until it is back.                   *)
(***************************************************************************)
EXTENDS RestForm

CONSTANTS
  Chunks,      \* parts a file is sent in, never just one
  MaxUploads,  \* bound: of this page and of others
  MaxPolls     \* polls within RESTART_TIMEOUT: 24 or fewer

ASSUME UploadAssumption == Chunks \in Nat \ {0, 1} /\ MaxUploads \in Nat \ {0} /\ MaxPolls \in Nat

VARIABLES
  uploads,    \* the POSTs: phase, how much has come, what onDisconnect does
  running,    \* Update has begun and not ended
  staged,     \* the partition of a whole image is the one to boot
  up,         \* the device is there
  uploading,
  current,    \* the upload the page waits for, or 0
  monitor,    \* FirmwareRestartMonitor: off, polling, waiting, failed or updated
  polls,
  stray       \* the monitor of an earlier visit is still polling

uploadVars == <<uploads, running, staged, up, uploading, current, monitor, polls, stray>>

Ids == 1..MaxUploads
Unused == [phase |-> "unused", file |-> "none", written |-> 0, hangup |-> "nothing"]
IsOpen(u) == uploads[u].phase \in {"sending", "refused", "accepted"}

-----------------------------------------------------------------------------
(* The device.                                                             *)

(* Update.begin() succeeds only for an admin and when no update is         *)
(* running, Update.write() when one is; both, and Update.end(), may fail   *)
(* for reasons of their own, which ends the update.                        *)
handleError(u) == uploads' = [uploads EXCEPT ![u].phase = "refused"]

(* Mutant: the update of a client that hangs up is left running.           *)
beginUpdateForever(u) ==
  /\ uploads[u].written = 0 /\ ~running
  /\ uploads' = [uploads EXCEPT ![u].written = 1]
  /\ running' = TRUE
  /\ UNCHANGED staged

beginUpdate(u) ==
  /\ uploads[u].written = 0 /\ ~running
  /\ uploads' = [uploads EXCEPT ![u].written = 1, ![u].hangup = "abort"]
  /\ running' = TRUE
  /\ UNCHANGED staged

writeUpdate(u) ==
  /\ uploads[u].written \in 1..(Chunks - 2) /\ running
  /\ uploads' = [uploads EXCEPT ![u].written = @ + 1]
  /\ UNCHANGED <<running, staged>>

(* An error is answered at once; what was begun stays to be aborted, but   *)
(* Update itself stops at a write that fails.                              *)
failUpdate(u) ==
  /\ handleError(u)
  /\ running' = (running /\ uploads[u].written = 0)
  /\ UNCHANGED staged

(* The last chunk ends the update and the request.  A request without a    *)
(* file has no chunk and is a success.                                     *)
uploadComplete(u) ==
  /\ IF uploads[u].file = "image"
       THEN /\ uploads[u].written = Chunks - 1 /\ running
            /\ staged' = TRUE /\ running' = FALSE
       ELSE UNCHANGED <<staged, running>>
  /\ uploads' = [uploads EXCEPT ![u].phase = "accepted", ![u].hangup = "restart"]

handleUpload ==
  /\ up
  /\ \E u \in Ids :
       /\ uploads[u].phase = "sending"
       /\ \/ uploads[u].file = "image" /\ (beginUpdate(u) \/ writeUpdate(u) \/ failUpdate(u))
          \/ uploadComplete(u)
  /\ UNCHANGED <<restVars, up, uploading, current, monitor, polls, stray>>

(* A connection closes: onDisconnect.  A restart takes the others along.   *)
Disconnect(u) ==
  /\ IsOpen(u)
  /\ CASE uploads[u].hangup = "restart" ->
            /\ up' = FALSE /\ running' = FALSE
            /\ uploads' = [v \in Ids |-> IF IsOpen(v) THEN [uploads[v] EXCEPT !.phase = "closed"]
                                                      ELSE uploads[v]]
       [] uploads[u].hangup = "abort" ->
            /\ running' = FALSE
            /\ uploads' = [uploads EXCEPT ![u].phase = "closed"]
            /\ UNCHANGED up
       [] OTHER ->
            /\ uploads' = [uploads EXCEPT ![u].phase = "closed"]
            /\ UNCHANGED <<up, running>>
  /\ UNCHANGED staged

HangUp ==
  /\ \E u \in Ids \ {current} : Disconnect(u)
  /\ UNCHANGED <<restVars, uploading, current, monitor, polls, stray>>

(* The connection the page waits for breaks.                               *)
UploadLost ==
  /\ faults < MaxFaults /\ faults' = faults + 1
  /\ current \in Ids /\ Disconnect(current)
  /\ UNCHANGED <<page, admin, form, requests, stored, edits, visits, history,
                 uploading, current, monitor, polls, stray>>

Boot ==
  /\ ~up /\ up' = TRUE
  /\ UNCHANGED <<restVars, uploads, running, staged, uploading, current, monitor, polls, stray>>

-----------------------------------------------------------------------------
(* The page.                                                               *)

(* There is nothing to connect to while the device is down.                *)
Post(u, file) ==
  /\ \A v \in Ids : v < u => uploads[v].phase # "unused"
  /\ uploads[u].phase = "unused"
  /\ uploads' = [uploads EXCEPT ![u].phase = IF up THEN "sending" ELSE "closed", ![u].file = file]

(* The dropzone is disabled while a file is on its way.                    *)
SingleUpload == page = "upload" /\ ~uploading /\ monitor = "off"

(* A file the dropzone does not accept is dropped, and the form is sent    *)
(* without one.                                                            *)
uploadFile ==
  /\ SingleUpload
  /\ \E u \in Ids, file \in {"image", "none"} : Post(u, file) /\ current' = u
  /\ uploading' = TRUE
  /\ UNCHANGED <<restVars, running, staged, up, monitor, polls, stray>>

OtherUploads ==
  /\ page = "upload" /\ \E u \in Ids : Post(u, "image")
  /\ UNCHANGED <<restVars, running, staged, up, uploading, current, monitor, polls, stray>>

(* Mutant: the upload that has ended is kept.                              *)
resetUploadingOnly == uploading' = FALSE /\ UNCHANGED current

resetUploadingStates == uploading' = FALSE /\ current' = 0

(* What was sent before may still be on its way.                           *)
cancelUpload ==
  /\ uploading
  /\ resetUploadingStates
  /\ UNCHANGED <<restVars, uploads, running, staged, up, monitor, polls, stray>>

(* Mutant: only the success ends the upload.                               *)
UploadAnsweredAccepted ==
  /\ current \in Ids
  /\ uploads[current].phase = "accepted" /\ monitor' = "polling" /\ polls' = 0
  /\ resetUploadingStates
  /\ UNCHANGED <<restVars, uploads, running, staged, up, stray>>

(* With the success the monitor takes the place of the form, and polls.    *)
UploadAnswered ==
  /\ current \in Ids
  /\ \/ uploads[current].phase = "accepted" /\ monitor' = "polling" /\ polls' = 0
     \/ uploads[current].phase \in {"refused", "closed"} /\ UNCHANGED <<monitor, polls>>
  /\ resetUploadingStates
  /\ UNCHANGED <<restVars, uploads, running, staged, up, stray>>

(* A poll that is answered leads away from the page; one that is not in    *)
(* time is tried again for as long as RESTART_TIMEOUT.                     *)
poll ==
  /\ monitor = "polling"
  /\ \/ up /\ monitor' = "updated" /\ UNCHANGED polls
     \/ polls < MaxPolls /\ monitor' = "waiting" /\ polls' = polls + 1
     \/ polls = MaxPolls /\ monitor' = "failed" /\ UNCHANGED polls
  /\ UNCHANGED <<restVars, uploads, running, staged, up, uploading, current, stray>>

pollTimer ==
  /\ monitor = "waiting" /\ monitor' = "polling"
  /\ UNCHANGED <<restVars, uploads, running, staged, up, uploading, current, polls, stray>>

(* A poll that was on its way when its page was left leads away all the    *)
(* same, or sets the timer again until RESTART_TIMEOUT is over.            *)
strayPoll ==
  /\ stray /\ stray' = FALSE
  /\ \/ up /\ monitor' = "updated" /\ resetUploadingStates
     \/ UNCHANGED <<monitor, uploading, current>>
  /\ UNCHANGED <<restVars, uploads, running, staged, up, polls>>

(* Leaving the page cancels, and clears the timer, but not the poll.       *)
RevisitUpload ==
  /\ page = "upload"
  /\ visits < MaxVisits /\ visits' = visits + 1
  /\ resetUploadingStates
  /\ monitor' = "off" /\ polls' = 0 /\ stray' = (stray \/ monitor = "polling")
  /\ UNCHANGED <<page, admin, form, requests, stored, edits, faults, history,
                 uploads, running, staged, up>>

UploadAnswers == handleUpload \/ HangUp \/ UploadAnswered \/ poll \/ pollTimer

UploadNext ==
  \/ UploadAnswers
  \/ UploadLost \/ Boot \/ strayPoll
  \/ uploadFile \/ OtherUploads \/ cancelUpload \/ RevisitUpload

=============================================================================
