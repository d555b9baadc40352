------------------------------ MODULE TankForms ------------------------------
(***************************************************************************)
(* The three pages of TankSettings: the start and stop points, the colours *)
(* of the light and the timings.  Everyone signed in may look and change,  *)
(* only an admin may save, and none of them offers a retry.                *)
(*                                                                         *)
(* A position of the slider is a number; a colour, the time of a timer and *)
(* its days are "old" or "new".                                            *)
(***************************************************************************)
EXTENDS RestForm, Sequences, SequencesExt

CONSTANTS
  MAX_AUTOSTART,  \* most timers in the list: 5
  Colors,         \* how many colours there are: 6
  Positions       \* where a thumb of the slider can be

ASSUME TankAssumption == MAX_AUTOSTART \in Nat \ {0} /\ Colors \in Nat /\ Positions \subseteq Nat

VARIABLES
  timepopup,  \* the dialog for the time of a timer is open
  idx,        \* of the timer the dialog was opened for last; outlives the page
  crashed     \* a render has thrown: nothing is on the screen

tankVars == <<timepopup, idx, crashed>>

TankPages == {"points", "light", "timing"}

Fresh == {"old", "new"}
ADD_NEW_TIMER == 0

Timer(time, week) == [time |-> time, weekAndState |-> week]

-----------------------------------------------------------------------------
(* What the pages draw.                                                    *)

(* TimePopUp reads the timer idx at every render, open or not; without one *)
(* dayjs().hour(undefined) is a number and has no minute().                *)
TimePopUpThrows(list, i) == i # ADD_NEW_TIMER /\ i > Len(list)

Render ==
  crashed' = (page = "timing" /\ data' # NoData /\ TimePopUpThrows(data', idx))

(* The slider keeps its thumbs in order.                                   *)
handleChanges ==
  /\ page = "points" /\ data # NoData
  /\ \E start, stop \in Positions :
       /\ start <= stop
       /\ {start, stop} \cap {data.start, data.stop} # {}
       /\ Edited([start |-> start, stop |-> stop])
  /\ UNCHANGED tankVars

generateHexCode ==
  /\ page = "light" /\ data # NoData /\ ~saving
  /\ \E i \in DOMAIN data, color \in Fresh : Edited([data EXCEPT ![i] = color])
  /\ UNCHANGED tankVars

-----------------------------------------------------------------------------
(* The timings.                                                            *)

OnTimings == page = "timing" /\ data # NoData /\ ~crashed

openTimerPopUp ==
  /\ OnTimings /\ ~timepopup
  /\ \/ idx' \in DOMAIN data
     \/ Len(data) < MAX_AUTOSTART /\ idx' = ADD_NEW_TIMER
  /\ timepopup' = TRUE
  /\ UNCHANGED <<restVars, crashed>>

closeTimerSetBox ==
  /\ OnTimings /\ timepopup
  /\ timepopup' = FALSE
  /\ UNCHANGED <<restVars, idx, crashed>>

(* The list may have grown or shrunk since the dialog was opened.          *)
saveTimer ==
  /\ OnTimings /\ timepopup
  /\ \E time \in Fresh :
       IF idx \in DOMAIN data
         THEN Edited([data EXCEPT ![idx].time = time])
         ELSE Edited(Append(data, Timer(time, "old")))
  /\ timepopup' = FALSE
  /\ Render
  /\ UNCHANGED idx

toggleBit ==
  /\ OnTimings /\ ~timepopup
  /\ \E i \in DOMAIN data :
       Edited([data EXCEPT ![i].weekAndState = IF @ = "old" THEN "new" ELSE "old"])
  /\ UNCHANGED tankVars

deleteTimer ==
  /\ OnTimings /\ ~timepopup
  /\ \E i \in DOMAIN data : Edited(RemoveAt(data, i))
  /\ Render
  /\ UNCHANGED <<timepopup, idx>>

-----------------------------------------------------------------------------
(* What the three have in common.                                          *)

Modal == timepopup \/ crashed

CanSavePoints == page = "points" /\ data # NoData /\ ~saving
CanSaveLight  == page = "light" /\ data # NoData /\ ~saving
CanSaveTiming == page = "timing" /\ data # NoData /\ ~saving /\ ~Modal

(* Without an admin there is only a warning.                               *)
validateAndSave ==
  /\ CanSavePoints \/ CanSaveLight \/ CanSaveTiming
  /\ admin
  /\ Save(data)
  /\ UNCHANGED <<page, admin, stored, bounds, history, tankVars>>

(* update() of the services: a list that is too long is refused.           *)
TankDevice ==
  /\ \/ \E r \in Sent("load") : ServeLoad(r)
     \/ \E r \in Sent("save") :
          IF page = "timing" /\ Len(r.body) > MAX_AUTOSTART
            THEN RefuseSave(r)
            ELSE ServeSave(r, r.body)
  /\ UNCHANGED tankVars

TankAnswered ==
  /\ \/ /\ \/ \E r \in Back("load", "done") : LoadAnswered(r)
           \/ \E r \in Back("save", "done") : SaveAnswered(r)
        /\ dirty' = FALSE
     \/ /\ \/ \E r \in Back("load", "failed") : LoadFailed(r)
           \/ \E r \in Back("save", "failed") : SaveFailed(r)
        /\ UNCHANGED dirty
  /\ Render
  /\ UNCHANGED <<page, admin, stored, bounds, late, timepopup, idx>>

(* Another tab and back; after a crash the site is loaded anew.            *)
RevisitTank ==
  /\ Revisit
  /\ timepopup' = FALSE /\ crashed' = FALSE
  /\ idx' = IF crashed THEN ADD_NEW_TIMER ELSE idx

(* A page that has crashed takes no answer.                                *)
TankAnswers == TankDevice \/ (~crashed /\ TankAnswered)

TankNext ==
  \/ TankAnswers
  \/ Lose /\ UNCHANGED tankVars
  \/ handleChanges \/ generateHexCode
  \/ openTimerPopUp \/ closeTimerSetBox \/ saveTimer \/ toggleBit \/ deleteTimer
  \/ validateAndSave \/ RevisitTank

=============================================================================
