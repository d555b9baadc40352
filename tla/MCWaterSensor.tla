---------------------------- MODULE MCWaterSensor ----------------------------
(* A window of three readings, and distances at the edges of their range:  *)
(* the sensor's blind zone, the first valid one, one in the middle of the  *)
(* tank, the bottom of the tank and a frame with a wrong sum.              *)
EXTENDS WaterSensor

EdgeDistances == {0, 219, 220, 700, 2000}
=============================================================================
