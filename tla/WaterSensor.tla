----------------------------- MODULE WaterSensor -----------------------------
(***************************************************************************)
(* readSensor() of the control task: a distance measured from the lid of   *)
(* the tank becomes a water level by way of a ring of the last WINDOW_SIZE *)
(* readings, of which water_sum keeps the running sum.  Distances and      *)
(* levels are the real ones, the window is a constant.                     *)
(*                                                                         *)
(* Only the control task writes these variables, so a call is one step;    *)
(* PumpStartStop has the order of its writes.  Ages of timestamps stop at  *)
(* the interval they are compared with.                                    *)
(***************************************************************************)
EXTENDS Integers, Sequences

CONSTANTS
  WINDOW_SIZE,          \* 30 in the code
  Returned,             \* what getDistance can return, 0 for a bad frame
  SilenceTicks,         \* the 1000 ms without a byte
  measurementInterval   \* the 5000 ms between speeds, in ticks

ASSUME SensorAssumption ==
  /\ WINDOW_SIZE \in Nat \ {0}
  /\ Returned \subseteq Nat
  /\ SilenceTicks \in Nat \ {0} /\ measurementInterval \in Nat \ {0}

START_READ  == 220
TANK_HEIGHT == 1300
FaultLevel  == 3000

VARIABLES
  READINGS, idx, water_sum,
  level, prv_level, speed, fault_sensor, fault_wire,
  sensorAge,     \* age of prv_millis_sensor
  speedAge,      \* age of prv_millis_speed
  window         \* history: the last good readings, WINDOW_SIZE at most

ring == <<READINGS, idx, water_sum, window>>
levelVars ==
  <<ring, level, prv_level, speed, fault_sensor, fault_wire, sensorAge, speedAge>>

Slots == 0 .. WINDOW_SIZE - 1

LevelInit ==
  /\ READINGS = [i \in Slots |-> 0] /\ idx = 0 /\ water_sum = 0
  /\ level = 0 /\ prv_level = 0 /\ speed = 0
  /\ fault_sensor = FALSE /\ fault_wire = FALSE
  /\ sensorAge \in 0 .. SilenceTicks     \* boot takes a while
  /\ speedAge = 0
  /\ window = <<>>

Valid(d) == d >= START_READ /\ d <= 2000

(* Mutant: the conversion without its upper cut-off.                       *)
WaterUncut(d) == 2000 - ((d - 210) * 2000) \div TANK_HEIGHT

(* (int)((reading - 210) * (float)(2000.0 / TANK_HEIGHT)), then cut off    *)
WaterOf(d) ==
  LET empty_tank == ((d - 210) * 2000) \div TANK_HEIGHT
  IN  2000 - (IF empty_tank >= 2000 THEN 2000 ELSE empty_tank)

Slide(r) == IF Len(window) < WINDOW_SIZE THEN Append(window, r)
                                         ELSE Append(Tail(window), r)

(* Mutant: the wrap of the index one too early.                            *)
PushShort(r) ==
  /\ READINGS' = [READINGS EXCEPT ![idx] = r]
  /\ water_sum' = water_sum - READINGS[idx] + r
  /\ idx' = IF idx + 1 >= WINDOW_SIZE - 1 THEN 0 ELSE idx + 1
  /\ window' = Slide(r)

(* The new reading takes the place of the oldest one.                      *)
Push(r) ==
  /\ READINGS' = [READINGS EXCEPT ![idx] = r]
  /\ water_sum' = water_sum - READINGS[idx] + r
  /\ idx' = (idx + 1) % WINDOW_SIZE
  /\ window' = Slide(r)

(* The speed is taken only while the level is above the last one taken,    *)
(* which therefore never comes down again.                                 *)
Speed ==
  IF level' > prv_level /\ speedAge >= measurementInterval
    THEN /\ speed' = (level' - prv_level) \div 5
         /\ prv_level' = level'
         /\ speedAge' = 0
    ELSE UNCHANGED <<speed, prv_level, speedAge>>

GoodFrame(d) ==
  /\ Valid(d)
  /\ Push(WaterOf(d))
  /\ level' = water_sum' \div WINDOW_SIZE
  /\ Speed
  /\ fault_sensor' = FALSE /\ fault_wire' = FALSE
  /\ sensorAge' = 0

(* Mutant: a bad frame leaves the last level in place.                     *)
BadFrameKept(d) ==
  /\ ~Valid(d)
  /\ fault_sensor' = TRUE /\ fault_wire' = FALSE
  /\ sensorAge' = 0
  /\ UNCHANGED <<ring, level, prv_level, speed, speedAge>>

BadFrame(d) ==
  /\ ~Valid(d)
  /\ level' = FaultLevel
  /\ fault_sensor' = TRUE /\ fault_wire' = FALSE
  /\ sensorAge' = 0
  /\ UNCHANGED <<ring, prv_level, speed, speedAge>>

(* Mutant: silence noticed only by a sensor that has not failed already.   *)
SilenceOnce ==
  /\ sensorAge >= SilenceTicks /\ ~fault_wire /\ ~fault_sensor
  /\ level' = FaultLevel
  /\ fault_wire' = TRUE
  /\ UNCHANGED <<ring, prv_level, speed, fault_sensor, sensorAge, speedAge>>

Silence ==
  /\ sensorAge >= SilenceTicks /\ ~fault_wire
  /\ level' = FaultLevel
  /\ fault_wire' = TRUE
  /\ UNCHANGED <<ring, prv_level, speed, fault_sensor, sensorAge, speedAge>>

readSensor == (\E d \in Returned : GoodFrame(d) \/ BadFrame(d)) \/ Silence

Tick ==
  /\ sensorAge' = IF sensorAge < SilenceTicks THEN sensorAge + 1 ELSE sensorAge
  /\ speedAge' = IF speedAge < measurementInterval THEN speedAge + 1 ELSE speedAge
  /\ UNCHANGED <<ring, level, prv_level, speed, fault_sensor, fault_wire>>

LevelNext == readSensor \/ Tick

LevelSpec == LevelInit /\ [][LevelNext]_levelVars

-----------------------------------------------------------------------------
(* Properties.                                                             *)

(* Levels a valid distance can give: never more than a full tank.          *)
TopReading == 1985
Reading == 0 .. TopReading

(* The ring and the level hold readings, or the level that means "none";   *)
(* ages stop at the interval they are compared with.                       *)
LevelTypeOK ==
  /\ READINGS \in [Slots -> Reading] /\ idx \in Slots
  /\ water_sum \in 0 .. TopReading * WINDOW_SIZE
  /\ level \in Reading \cup {FaultLevel} /\ prv_level \in Reading
  /\ speed \in Nat /\ fault_sensor \in BOOLEAN /\ fault_wire \in BOOLEAN
  /\ sensorAge \in 0 .. SilenceTicks /\ speedAge \in 0 .. measurementInterval
  /\ window \in Seq(Reading) /\ Len(window) <= WINDOW_SIZE

(* The sum of a sequence of readings.                                      *)
Total(s) ==
  LET upTo[i \in 0 .. Len(s)] == IF i = 0 THEN 0 ELSE upTo[i - 1] + s[i]
  IN  upTo[Len(s)]

(* The level shown without a fault is the mean of the last WINDOW_SIZE     *)
(* good readings, those that have not come in since the start counted as   *)
(* empty: nothing older is left in it, and nothing newer is missing.       *)
MovingMean ==
  level # FaultLevel => level = Total(window) \div WINDOW_SIZE

(* The level that means "no level" is shown exactly while a fault is: no   *)
(* fault hides behind a plausible level, and none outlives it.             *)
LevelOrFault == level = FaultLevel <=> fault_sensor \/ fault_wire

(* One reading, also one of a garbled frame, moves the level by its share  *)
(* of the window at most.                                                  *)
Share == TopReading \div WINDOW_SIZE + 1
MovesLittle ==
  [][level # FaultLevel /\ level' # FaultLevel => level' - level \in -Share .. Share]_levelVars
=============================================================================
