--------------------------- MODULE HysteresisPump ---------------------------
(***************************************************************************)
(* What a pump controller with a start and a stop point promises, without  *)
(* saying how: it switches the pump on only in a low tank that has no      *)
(* fault and a ground reserve, leaves it alone between the points, and     *)
(* does not leave it on in a full tank or during a fault.  Once the ground *)
(* reserve is given up the pump stays off.                                 *)
(***************************************************************************)
EXTENDS Integers

VARIABLES level, start, stop, fault, reserve, on

vars == <<level, start, stop, fault, reserve, on>>

Init == /\ level = 0 /\ start \in Nat /\ stop \in Nat
        /\ fault = FALSE /\ reserve = TRUE /\ on = FALSE

(* The water and the faults are the environment's.                         *)
Sense == /\ level' \in Nat /\ fault' \in BOOLEAN
         /\ UNCHANGED <<start, stop, reserve, on>>

SwitchOn == /\ ~on /\ ~fault /\ reserve
            /\ level <= start /\ level < stop
            /\ on' = TRUE
            /\ UNCHANGED <<level, start, stop, fault, reserve>>

SwitchOff == /\ on /\ on' = FALSE
             /\ UNCHANGED <<level, start, stop, fault, reserve>>

GiveUp == /\ ~on /\ reserve' = FALSE
          /\ UNCHANGED <<level, start, stop, fault, on>>

Next == Sense \/ SwitchOn \/ SwitchOff \/ GiveUp

Halt == (fault \/ level >= stop) /\ SwitchOff

Spec == Init /\ [][Next]_vars

FairSpec == Spec /\ WF_vars(SwitchOn) /\ WF_vars(Halt)
=============================================================================
