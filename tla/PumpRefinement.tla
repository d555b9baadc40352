--------------------------- MODULE PumpRefinement ---------------------------
(***************************************************************************)
(* With nobody at the web page and no timer, the control loop implements   *)
(* the promise of HysteresisPump: the relay is the pump, and a fault is    *)
(* any of the three flags.                                                 *)
(***************************************************************************)
EXTENDS PumpStartStop

Promise == INSTANCE HysteresisPump WITH
             start <- start_p, stop <- stop_p, fault <- Fault,
             reserve <- ground_reserve, on <- relay

(* Every behaviour of the control loop on its own is one of the abstract   *)
(* pump, liveness included: switched on only when low, never left on in a  *)
(* full tank or a fault, and off for good without a ground reserve.        *)
KeepsPromise == Promise!FairSpec
=============================================================================
