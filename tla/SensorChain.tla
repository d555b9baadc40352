----------------------------- MODULE SensorChain -----------------------------
(***************************************************************************)
(* The sensor, its line and the level: readSensor() with the getDistance() *)
(* it calls.  SerialFrame has the line and its reader, WaterSensor what    *)
(* becomes of a distance.  A call looks for a byte, stays in getDistance() *)
(* until that returns, and puts its distance to use before the next one;   *)
(* with no byte waiting it looks for silence.                              *)
(***************************************************************************)
EXTENDS SerialFrame, WaterSensor

ASSUME ReturnedAssumption == 0 .. Base * Base \subseteq Returned

vars == <<frameVars, levelVars>>

Init == FrameInit /\ LevelInit

Use(d) == GoodFrame(d) \/ BadFrame(d)

(* A call that has a distance.                                             *)
UseDistance == (Return \/ ReadStray) /\ Use(distance')

(* A call that has met a mark and waits for the rest of the frame.         *)
Wait == (ReadMark \/ ReadBytes \/ ReadTimeout) /\ UNCHANGED levelVars

(* A call that finds no byte.                                              *)
NoByte == ~inFrame /\ queue = <<>> /\ Silence /\ UNCHANGED frameVars

Calls == UseDistance \/ Wait \/ NoByte

Measures == Measure /\ UNCHANGED levelVars
Sends == Send /\ UNCHANGED levelVars
Breaks == (Lose \/ Cut \/ Mend) /\ UNCHANGED levelVars
Passes == Tick /\ UNCHANGED frameVars

Next == Calls \/ Measures \/ Sends \/ Breaks \/ Passes

Spec == Init /\ [][Next]_vars

(* The control task calls readSensor for ever, the sensor measures for     *)
(* ever as long as its wire is whole, and the clock goes on.               *)
FairSpec ==
  /\ Spec
  /\ WF_vars(Calls) /\ WF_vars(Measures) /\ WF_vars(Sends) /\ WF_vars(Passes)

-----------------------------------------------------------------------------
(* Properties.                                                             *)

Measurable(d) == d[1] + d[2] < Base /\ Valid(Value(d))

(* As long as the line has lost nothing, every measurable distance enters  *)
(* the ring and takes the fault away, once and in the order they were      *)
(* measured; and the sensor is called faulty only for one that is out of   *)
(* range or has a sum that does not fit in a byte.                         *)
LevelsAreMeasured ==
  [][intact' =>
       IF expected # <<>> /\ expected' = Tail(expected)
         THEN IF Measurable(Head(expected))
                THEN ~fault_sensor' /\ window' = Slide(WaterOf(Value(Head(expected))))
                ELSE fault_sensor' /\ UNCHANGED ring
         ELSE UNCHANGED <<ring, fault_sensor>>]_vars

(* A wire that is cut and not mended is reported for good, wherever in a   *)
(* frame it was cut and whatever the reader makes of the bytes it did not  *)
(* get.                                                                    *)
CutIsReported == <>[]~plugged => <>[]fault_wire

(* Once the line is whole again and usable distances are measured, the     *)
(* reader falls in step with the sensor, wherever it was in the frames     *)
(* before: it returns nothing but distances measured, the sensor is never  *)
(* called faulty any more, and a wire that was comes back.                 *)
Usable == {d \in Distances : Measurable(d) /\ \A b \in {d[1], d[2], d[1] + d[2]} : b # Mark}
Recovers ==
  <>[](plugged /\ measured \in Usable) =>
    /\ <>[](distance \in {Value(d) : d \in Usable})
    /\ <>[]~fault_sensor /\ []<>~fault_wire
=============================================================================
