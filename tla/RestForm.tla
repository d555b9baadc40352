------------------------------ MODULE RestForm ------------------------------
(***************************************************************************)
(* One page of the site and the REST endpoint behind it: the hook useRest, *)
(* the retry of FormLoader, the requests on their way, and what            *)
(* HttpEndpoint keeps.  The modules of the pages extend this one: a page   *)
(* says what its data is, what the user may do to it, and what the device  *)
(* makes of a request.                                                     *)
(*                                                                         *)
(* A request is served by the device in one step and its answer taken by   *)
(* the page in another, in any order: each has a connection of its own.    *)
(***************************************************************************)
EXTENDS Naturals, FiniteSets

CONSTANTS
  NoData,
  MaxEdits,   \* bounds: what the user changes,
  MaxVisits,  \* how often a page is left and opened again,
  MaxFaults   \* and how many requests or answers are lost

ASSUME BoundsAssumption == MaxEdits \in Nat /\ MaxVisits \in Nat /\ MaxFaults \in Nat

VARIABLES
  page,          \* what is on the screen
  admin,         \* me.admin
  data, saving, errorMessage,
  requests,      \* on their way there or back
  stored,        \* what the device keeps for this page
  edits, visits, faults,
  dirty,         \* history: data was changed since the device sent it
  late           \* history: a save of an earlier visit was served since then

form    == <<data, saving, errorMessage>>
bounds  == <<edits, visits, faults>>
history == <<dirty, late>>
restVars == <<page, admin, form, requests, stored, bounds, history>>

Commands == {"time", "restart", "factoryReset"}
Kinds == {"load", "save", "scan", "list", "poll"} \cup Commands

Request(kind, body) ==
  [kind |-> kind, body |-> body, phase |-> "sent", answer |-> NoData, mine |-> TRUE, last |-> TRUE]

(* Of two requests of a kind the newer is marked.                          *)
Send(kind, body) ==
  requests' = {[r EXCEPT !.last = @ /\ r.kind # kind] : r \in requests} \cup {Request(kind, body)}

LoadData ==
  /\ data' = NoData /\ errorMessage' = FALSE
  /\ Send("load", NoData)
  /\ UNCHANGED saving

Save(toSave) ==
  /\ saving' = TRUE /\ errorMessage' = FALSE
  /\ Send("save", toSave)
  /\ UNCHANGED data

-----------------------------------------------------------------------------
(* The way to the device and back.                                         *)

Sent(kind) == {r \in requests : r.phase = "sent" /\ r.kind = kind}
Back(kind, phase) == {r \in requests : r.phase = phase /\ r.kind = kind /\ r.mine}

Answered(r, phase, answer) ==
  requests' = (requests \ {r}) \cup {[r EXCEPT !.phase = phase, !.answer = answer]}

(* The answer is read in the call that stored the change.                  *)
ServeLoad(r) ==
  /\ Answered(r, "done", stored)
  /\ late' = (late /\ ~r.mine)
  /\ UNCHANGED <<page, admin, form, stored, bounds, dirty>>

ServeSave(r, new) ==
  /\ stored' = new
  /\ Answered(r, "done", new)
  /\ late' = ~r.mine
  /\ UNCHANGED <<page, admin, form, bounds, dirty>>

RefuseSave(r) ==
  /\ Answered(r, "failed", NoData)
  /\ UNCHANGED <<page, admin, form, stored, bounds, history>>

(* A request, or the answer to one that was served, is lost.               *)
Lose ==
  /\ faults < MaxFaults /\ faults' = faults + 1
  /\ \E r \in requests : r.phase # "failed" /\ Answered(r, "failed", NoData)
  /\ UNCHANGED <<page, admin, form, stored, edits, visits, history>>

-----------------------------------------------------------------------------
(* The page.                                                               *)

Take(r) == requests' = requests \ {r}

LoadAnswered(r) == data' = r.answer /\ Take(r) /\ UNCHANGED <<saving, errorMessage>>

LoadFailed(r) == errorMessage' = TRUE /\ Take(r) /\ UNCHANGED <<data, saving>>

(* Mutant: the page keeps what it has sent.                                *)
SaveAnsweredKeeping(r) ==
  data' = r.body /\ saving' = FALSE /\ Take(r) /\ UNCHANGED errorMessage

SaveAnswered(r) ==
  data' = r.answer /\ saving' = FALSE /\ Take(r) /\ UNCHANGED errorMessage

(* Mutant: saving is not reset when the request fails.                     *)
SaveFailedSaving(r) ==
  errorMessage' = TRUE /\ Take(r) /\ UNCHANGED <<data, saving>>

SaveFailed(r) ==
  errorMessage' = TRUE /\ saving' = FALSE /\ Take(r) /\ UNCHANGED data

(* Pages that give FormLoader neither errorMessage nor onRetry.            *)
NoRetry == {"points", "light", "timing"}

Retry ==
  /\ data = NoData /\ errorMessage /\ page \notin NoRetry \cup {"scan"}
  /\ LoadData
  /\ UNCHANGED <<page, admin, stored, bounds, history>>

(* The page is left and opened again: what is on its way to be saved is    *)
(* still served, but nobody takes the answer.                              *)
Remount ==
  /\ data' = NoData /\ saving' = FALSE /\ errorMessage' = FALSE
  /\ requests' = {[r EXCEPT !.mine = FALSE, !.last = FALSE] :
                    r \in {q \in requests : q.kind \in {"save"} \cup Commands /\ q.phase = "sent"}}
                 \cup {Request("load", NoData)}
  /\ dirty' = FALSE

Revisit ==
  /\ visits < MaxVisits /\ visits' = visits + 1
  /\ Remount
  /\ UNCHANGED <<page, admin, stored, edits, faults, late>>

Edited(new) ==
  /\ edits < MaxEdits /\ edits' = edits + 1
  /\ data' = new /\ dirty' = TRUE
  /\ UNCHANGED <<page, admin, saving, errorMessage, requests, stored, visits, faults, late>>

=============================================================================
