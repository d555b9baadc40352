------------------------ MODULE PumpStartStop_proofs ------------------------
(***************************************************************************)
(* Proofs about PumpStartStop for every value of its constants: types and  *)
(* the agreement of relay and flag for all three tasks at once; then, for  *)
(* the control task on its own, the bound on a run, the time limit, and    *)
(* the safety part of the promise of HysteresisPump.                       *)
(***************************************************************************)
EXTENDS PumpRefinement, TLAPS

(* currentMillis is forgotten when loop() has returned: a new iteration    *)
(* starts with cmAge = 0, so that it is never older than the iteration.    *)
CmAgeReset ==
  pc["ctl"] \in {"poll", "enter", "good", "bad", "seen", "cut"} => cmAge = 0

TypeInv == TypeOK /\ CmAgeReset

(* Levels stay below twice the tank: the integer division of forceStart    *)
(* yields all of FULL_TANK_TIME or nothing, never a negative run time.     *)
LEMMA RunTillIs ==
  ASSUME NEW l \in Levels
  PROVE  FULL_TANK_TIME * (1 - l \div Tank) \in {0, FULL_TANK_TIME}
<1>1. l \in Nat /\ l <= 2 * Tank - 1
  BY LevelAssumption DEF Levels
<1>2. l \div Tank \in {0, 1}
  <2>1. CASE l < Tank
    BY <1>1, <2>1, LevelAssumption
  <2>2. CASE l >= Tank
    BY <1>1, <2>2, LevelAssumption
  <2> QED BY <1>1, <2>1, <2>2, LevelAssumption
<1>3. CASE l \div Tank = 0
  BY <1>3, TimeAssumption
<1>4. CASE l \div Tank = 1
  BY <1>4, TimeAssumption
<1> QED BY <1>2, <1>3, <1>4

LEMMA RunTillNat ==
  ASSUME NEW l \in Levels
  PROVE  FULL_TANK_TIME * (1 - l \div Tank) \in Nat
BY RunTillIs, TimeAssumption

LEMMA RunSecondsNat ==
  ASSUME sinceAge \in Age, cmAge \in Nat
  PROVE  RunSeconds \in Nat
<1>1. Elapsed(sinceAge) \in Nat
  BY TimeAssumption DEF Elapsed, Age
<1> HIDE DEF Elapsed
<1> QED BY <1>1, TimeAssumption DEF RunSeconds

(* The inductive form of TypeOK.                                           *)
LEMMA TypeInvariant == Spec => []TypeInv
<1> USE DEF TypeInv, TypeOK, CmAgeReset, CtlLabels, PumpLabels, SvcLabels, NetLabels, Task, GuardEnd
<1>1. Init => TypeInv
  <2>1. 0 .. RUN_DELAY_SS \subseteq Age
    <3>1. (FULL_TANK_TIME + 1) * Second >= Second
      BY TimeAssumption
    <3> QED BY <3>1, TimeAssumption DEF Age, RUN_DELAY_SS
  <2>2. \A p \in Points : p[1] \in Nat /\ p[2] \in Nat
    BY LevelAssumption
  <2> SUFFICES ASSUME Init PROVE TypeInv
    OBVIOUS
  <2>3. start_p \in Nat /\ stop_p \in Nat
    BY <2>2 DEF Init
  <2>4. lastAge \in Age /\ sinceAge \in Age
    BY <2>1 DEF Init
  <2>5. /\ pc \in [Task -> CtlLabels \cup PumpLabels \cup SvcLabels \cup NetLabels]
        /\ k \in [Task -> 1 .. GuardEnd]
        /\ ret \in [Task -> {"sense", "over", "limit", "reserve", "walk", "idle"}]
        /\ held \in [Task -> Nat]
    BY DEF Init
  <2>6. level \in Levels /\ lag \in 0 .. MaxLag /\ cmAge \in 0 .. lag /\ cmAge = 0
    BY TimeAssumption DEF Init, Levels
  <2>7. /\ fault_relay = FALSE /\ fault_sensor = FALSE /\ fault_wire = FALSE
        /\ ground_reserve = TRUE /\ automatic = TRUE /\ pump_running = FALSE
        /\ relay = FALSE /\ raced = FALSE /\ run_till = 0
    BY DEF Init
  <2> QED BY <2>3, <2>4, <2>5, <2>6, <2>7
<1>2. TypeInv /\ [Next]_vars => TypeInv'
  <2> SUFFICES ASSUME TypeInv, [Next]_vars PROVE TypeInv'
    OBVIOUS
  <2> USE DEF Goto, Call, sensorVars, latchVars, pumpVars, confVars, timeVars, flow
  <2>1. ASSUME NEW t \in Task, Pump(t) PROVE TypeInv'
    <3>1. CASE GuardFails(t)
      BY <3>1 DEF GuardFails
    <3>2. CASE GuardHolds(t)
      BY <3>2 DEF GuardHolds
    <3>3. CASE RelayOn(t)
      BY <3>3 DEF RelayOn, Overlap
    <3>4. CASE RunningSince(t)
      BY <3>4, TimeAssumption DEF RunningSince, Age
    <3>5. CASE RunTill(t)
      BY <3>5, RunTillNat DEF RunTill
    <3>6. CASE RunAtLeast(t)
      BY <3>6, TimeAssumption DEF RunAtLeast
    <3>10. CASE CheckRunTill(t)
      BY <3>10 DEF CheckRunTill
    <3>11. CASE ReadRunTill(t)
      BY <3>11 DEF ReadRunTill
    <3>7. CASE MarkRunning(t)
      BY <3>7 DEF MarkRunning
    <3>8. CASE RelayOff(t)
      BY <3>8 DEF RelayOff, Overlap
    <3>9. CASE MarkStopped(t)
      BY <3>9 DEF MarkStopped
    <3> QED BY <2>1, <3>1, <3>2, <3>3, <3>4, <3>5, <3>6, <3>7, <3>8, <3>9, <3>10, <3>11 DEF Pump
  <2>2. ASSUME TankController PROVE TypeInv'
    <3>1. CASE Pump("ctl")
      BY <2>1, <3>1
    <3>2. CASE Poll
      BY <3>2, TimeAssumption DEF Poll
    <3>3. CASE EnterLocked
      BY <3>3 DEF EnterLocked
    <3>4. CASE ReadMillis
      BY <3>4 DEF ReadMillis
    <3>5. CASE BodyFault
      BY <3>5 DEF BodyFault
    <3>6. CASE BodyRunning
      BY <3>6 DEF BodyRunning
    <3>7. CASE StopIfFull
      BY <3>7 DEF StopIfFull
    <3>8. CASE TimeLimit
      BY <3>8 DEF TimeLimit
    <3>19. CASE ReadElapsed
      BY <3>19, RunSecondsNat DEF ReadElapsed
    <3>9. CASE LatchReserve
      BY <3>9 DEF LatchReserve
    <3>10. CASE LatchRelayFault
      BY <3>10 DEF LatchRelayFault
    <3>11. CASE StartIfLow
      BY <3>11 DEF StartIfLow, StartGuard
    <3>12. CASE LoopOver
      BY <3>12, TimeAssumption DEF LoopOver, Age
    <3>13. CASE NoReading
      BY <3>13 DEF NoReading
    <3>14. CASE GoodFrame
      BY <3>14 DEF GoodFrame, ReadSensor, Levels
    <3>15. CASE BadFrame
      BY <3>15 DEF BadFrame, ReadSensor, Levels
    <3>16. CASE Silence
      BY <3>16 DEF Silence, ReadSensor, Levels
    <3>17. CASE MarkSensor
      <4>1. fault_sensor' \in BOOLEAN /\ pc' = [pc EXCEPT !["ctl"] = "seen"]
        BY <3>17 DEF MarkSensor
      <4>2. cmAge = 0
        BY <3>17 DEF MarkSensor
      <4> QED BY <3>17, <4>1, <4>2 DEF MarkSensor
    <3>18. CASE MarkWire
      <4>1. fault_wire' \in BOOLEAN /\ pc' = [pc EXCEPT !["ctl"] = "poll"]
        BY <3>18 DEF MarkWire
      <4>2. cmAge = 0
        BY <3>18 DEF MarkWire
      <4> QED BY <3>18, <4>1, <4>2 DEF MarkWire
    <3> QED
      BY <2>2, <3>1, <3>2, <3>3, <3>4, <3>5, <3>6, <3>7, <3>8, <3>9, <3>10, <3>11, <3>12, <3>13, <3>14, <3>15, <3>16, <3>17, <3>18, <3>19 DEF TankController
  <2>3. ASSUME Services PROVE TypeInv'
    <3>1. CASE Pump("svc")
      BY <2>1, <3>1
    <3>2. CASE TimerDue
      BY <3>2 DEF TimerDue
    <3>3. CASE FaultSeen
      BY <3>3 DEF FaultSeen
    <3>4. CASE NoFaultSeen
      BY <3>4 DEF NoFaultSeen
    <3>5. CASE NextTiming \/ TimingsOver
      BY <3>5 DEF NextTiming, TimingsOver
    <3> QED BY <2>3, <3>1, <3>2, <3>3, <3>4, <3>5 DEF Services
  <2>4. ASSUME AsyncTcp PROVE TypeInv'
    <3>1. CASE Pump("net")
      BY <2>1, <3>1
    <3>2. ASSUME NEW c \in Commands, SetAutomatic(c) PROVE TypeInv'
      BY <3>2, LevelAssumption DEF SetAutomatic
    <3>3. ASSUME NEW c \in Commands, SetRun(c) PROVE TypeInv'
      BY <3>3, LevelAssumption DEF SetRun, StartGuard
    <3>4. CASE StopIfRunning
      BY <3>4 DEF StopIfRunning
    <3>5. CASE PostStart
      BY <3>5, LevelAssumption DEF PostStart
    <3>6. CASE PostStop
      BY <3>6, LevelAssumption DEF PostStop
    <3> QED BY <2>4, <3>1, <3>2, <3>3, <3>4, <3>5, <3>6 DEF AsyncTcp
  <2>5. ASSUME Tick PROVE TypeInv'
    BY <2>5, TimeAssumption DEF Tick, InLoop, Age
  <2>6. CASE UNCHANGED vars
    BY <2>6 DEF vars
  <2> QED BY <2>2, <2>3, <2>4, <2>5, <2>6 DEF Next
<1> QED BY <1>1, <1>2, PTL DEF Spec

(* Every variable keeps its type, and no task ever returns to a place that *)
(* is not one of its own: for any number of readings, points and commands. *)
THEOREM TypeCorrect == Spec => []TypeOK
BY TypeInvariant, PTL DEF TypeInv

-----------------------------------------------------------------------------
(* A task is inside forceStart() or forceStop(), with the relay written    *)
(* and pump_running not yet.                                               *)
Starting(t) == pc[t] \in {"since", "till", "check", "minrun", "add", "running"}
Stopping(t) == pc[t] = "mark"

(* Agreement is not inductive: it says nothing while a task writes.  What  *)
(* it needs there is that a writer that is not racing is the only one, and *)
(* that the relay shows what it is about to store in pump_running.         *)
RelayInv ==
  ~raced =>
    /\ (\A t \in Task : ~Writing(t)) => relay = pump_running
    /\ \A t, u \in Task : Writing(t) /\ Writing(u) => t = u
    /\ \A t \in Task : Starting(t) => relay
    /\ \A t \in Task : Stopping(t) => ~relay

(* A step that neither writes the relay or pump_running nor moves a task   *)
(* into or out of the routines that do.                                    *)
Quiet ==
  /\ relay' = relay /\ pump_running' = pump_running /\ raced' = raced
  /\ \A t \in Task : Starting(t)' = Starting(t) /\ Stopping(t)' = Stopping(t)

(* Such steps, which are all but four, keep RelayInv.                      *)
LEMMA QuietSteps == RelayInv /\ Quiet => RelayInv'
<1>1. \A t \in Task : Writing(t) <=> Starting(t) \/ Stopping(t)
  BY DEF Writing, Starting, Stopping
<1>2. \A t \in Task : Writing(t)' <=> Starting(t)' \/ Stopping(t)'
  BY DEF Writing, Starting, Stopping
<1> QED BY <1>1, <1>2 DEF RelayInv, Quiet

(* The four steps that write the relay or pump_running keep it too: two    *)
(* writers at once are what raced records.                                 *)
LEMMA WriteSteps ==
  ASSUME TypeInv, RelayInv, NEW t \in Task,
         RelayOn(t) \/ MarkRunning(t) \/ RelayOff(t) \/ MarkStopped(t)
  PROVE  RelayInv'
<1> USE DEF RelayInv, Writing, Starting, Stopping, Goto
<1>0. pc \in [Task -> CtlLabels \cup PumpLabels \cup SvcLabels \cup NetLabels]
      /\ ret[t] \in {"sense", "over", "limit", "reserve", "walk", "idle"}
      /\ relay \in BOOLEAN /\ pump_running \in BOOLEAN
  BY DEF TypeInv, TypeOK
<1>1. CASE RelayOn(t)
  BY <1>0, <1>1 DEF RelayOn, Overlap
<1>2. CASE RelayOff(t)
  BY <1>0, <1>2 DEF RelayOff, Overlap
<1>3. CASE MarkRunning(t)
  BY <1>0, <1>3 DEF MarkRunning
<1>4. CASE MarkStopped(t)
  BY <1>0, <1>4 DEF MarkStopped
<1> QED BY <1>1, <1>2, <1>3, <1>4

(* Every step of a pump routine is one or the other.                       *)
LEMMA PumpSteps ==
  ASSUME TypeInv, RelayInv, NEW t \in Task, Pump(t)
  PROVE  RelayInv'
<1> USE DEF Quiet, Starting, Stopping, Goto, pumpVars
<1>0. /\ pc \in [Task -> CtlLabels \cup PumpLabels \cup SvcLabels \cup NetLabels]
      /\ ret[t] \in {"sense", "over", "limit", "reserve", "walk", "idle"}
  BY DEF TypeInv, TypeOK
<1>1. CASE GuardFails(t)
  <2>1. Quiet
    BY <1>0, <1>1 DEF GuardFails
  <2> QED BY <2>1, QuietSteps
<1>2. CASE GuardHolds(t)
  <2>1. Quiet
    BY <1>0, <1>2 DEF GuardHolds
  <2> QED BY <2>1, QuietSteps
<1>3. CASE RunningSince(t)
  <2>1. Quiet
    BY <1>0, <1>3 DEF RunningSince
  <2> QED BY <2>1, QuietSteps
<1>4. CASE RunTill(t)
  <2>1. Quiet
    BY <1>0, <1>4 DEF RunTill
  <2> QED BY <2>1, QuietSteps
<1>5. CASE CheckRunTill(t) \/ ReadRunTill(t) \/ RunAtLeast(t)
  <2>1. Quiet
    BY <1>0, <1>5 DEF CheckRunTill, ReadRunTill, RunAtLeast
  <2> QED BY <2>1, QuietSteps
<1>6. CASE RelayOn(t) \/ MarkRunning(t) \/ RelayOff(t) \/ MarkStopped(t)
  BY <1>6, WriteSteps
<1> QED BY <1>1, <1>2, <1>3, <1>4, <1>5, <1>6 DEF Pump

(* The steps of the control loop outside the pump routines are quiet.      *)
LEMMA ControlSteps ==
  ASSUME TypeInv, TankController, ~Pump("ctl")
  PROVE  Quiet
<1> USE DEF Quiet, Starting, Stopping, Goto, Call, pumpVars, Task
<1>0. pc \in [Task -> CtlLabels \cup PumpLabels \cup SvcLabels \cup NetLabels]
  BY DEF TypeInv, TypeOK
<1>1. CASE Poll
  BY <1>0, <1>1 DEF Poll
<1>2. CASE EnterLocked
  BY <1>0, <1>2 DEF EnterLocked
<1>3. CASE ReadMillis
  BY <1>0, <1>3 DEF ReadMillis
<1>4. CASE BodyFault
  BY <1>0, <1>4 DEF BodyFault
<1>5. CASE BodyRunning
  BY <1>0, <1>5 DEF BodyRunning
<1>6. CASE StopIfFull
  BY <1>0, <1>6 DEF StopIfFull
<1>7. CASE ReadElapsed \/ TimeLimit
  BY <1>0, <1>7 DEF ReadElapsed, TimeLimit
<1>8. CASE LatchReserve
  BY <1>0, <1>8 DEF LatchReserve
<1>9. CASE LatchRelayFault
  BY <1>0, <1>9 DEF LatchRelayFault
<1>10. CASE StartIfLow
  BY <1>0, <1>10 DEF StartIfLow
<1>11. CASE LoopOver
  BY <1>0, <1>11 DEF LoopOver
<1>12. CASE NoReading
  BY <1>0, <1>12 DEF NoReading
<1>13. CASE GoodFrame
  BY <1>0, <1>13 DEF GoodFrame, ReadSensor
<1>14. CASE BadFrame
  BY <1>0, <1>14 DEF BadFrame, ReadSensor
<1>15. CASE Silence
  BY <1>0, <1>15 DEF Silence, ReadSensor
<1>16. CASE MarkSensor
  BY <1>0, <1>16 DEF MarkSensor
<1>17. CASE MarkWire
  BY <1>0, <1>17 DEF MarkWire
<1> QED
  BY <1>1, <1>2, <1>3, <1>4, <1>5, <1>6, <1>7, <1>8, <1>9, <1>10, <1>11, <1>12, <1>13, <1>14, <1>15, <1>16, <1>17 DEF TankController

LEMMA RelayInvariant == Spec => []RelayInv
<1>1. Init => RelayInv
  BY DEF Init, RelayInv, Writing, Starting, Stopping, Task
<1>2. TypeInv /\ RelayInv /\ [Next]_vars => RelayInv'
  <2> SUFFICES ASSUME TypeInv, RelayInv, [Next]_vars PROVE RelayInv'
    OBVIOUS
  <2> USE DEF Quiet, Starting, Stopping, Goto, Call, pumpVars, Task
  <2>0. pc \in [Task -> CtlLabels \cup PumpLabels \cup SvcLabels \cup NetLabels]
    BY DEF TypeInv, TypeOK
  <2>1. CASE \E t \in Task : Pump(t)
    BY <2>1, PumpSteps
  <2>2. CASE TankController /\ ~Pump("ctl")
    BY <2>2, ControlSteps, QuietSteps
  <2>3. CASE TimerDue \/ FaultSeen \/ NoFaultSeen \/ NextTiming \/ TimingsOver
    <3>1. Quiet
      BY <2>0, <2>3 DEF TimerDue, FaultSeen, NoFaultSeen, NextTiming, TimingsOver
    <3> QED BY <3>1, QuietSteps
  <2>4. ASSUME NEW c \in Commands, SetAutomatic(c) \/ SetRun(c) PROVE RelayInv'
    <3>1. Quiet
      BY <2>0, <2>4 DEF SetAutomatic, SetRun, flow
    <3> QED BY <3>1, QuietSteps
  <2>5. CASE StopIfRunning \/ PostStart \/ PostStop
    <3>1. Quiet
      BY <2>0, <2>5 DEF StopIfRunning, PostStart, PostStop
    <3> QED BY <3>1, QuietSteps
  <2>6. CASE Tick
    BY <2>6, QuietSteps DEF Tick, flow
  <2>7. CASE UNCHANGED vars
    BY <2>7, QuietSteps DEF vars, flow
  <2> QED
    BY <2>1, <2>2, <2>3, <2>4, <2>5, <2>6, <2>7
    DEF Next, TankController, Services, AsyncTcp
<1> QED BY <1>1, <1>2, TypeInvariant, PTL DEF Spec

(* The relay and pump_running agree, whatever three unsynchronised tasks   *)
(* do, unless the latest writes of two of them overlapped.                 *)
THEOREM RelayAgreement == Spec => []Agreement
<1>1. RelayInv => Agreement
  BY DEF RelayInv, Agreement
<1> QED BY <1>1, RelayInvariant, PTL

-----------------------------------------------------------------------------
(* The control task on its own: no commands and no timers.                 *)
Unattended == Commands = {} /\ Timers = FALSE
(* The clock is wide enough and the control task fast enough: the 1500 s   *)
(* of FULL_TANK_TIME against the 120 s of MinRun, a lag of a second or so, *)
(* and an unsigned long of milliseconds.                                   *)
FillTicks == FULL_TANK_TIME * Second
Paced ==
  /\ MinRun < FULL_TANK_TIME
  /\ 2 * MaxLag < FillTicks
  /\ RunLimit < MillisMod

(* Only the control task switches the pump, and loop() is always called.   *)
Apart ==
  /\ pc["svc"] = "idle" /\ pc["net"] \in {"idle", "post"}
  /\ automatic /\ ~raced

(* The readings of a run that goes on: it began at most x ticks ago, or    *)
(* its time was not up when _last_millis was read, one period ago at most. *)
Known(x) ==
  \/ sinceAge <= x
  \/ sinceAge < FillTicks + lastAge /\ lastAge < Second + x

Reading == {"sense", "good", "bad", "seen", "cut", "poll"}
OffLabels == {"low", "guard", "on", "mark", "reserve", "latch"}
StartLabels == {"guard", "on", "since", "till", "check", "minrun", "add", "running"}

(* Where the time limit of a run is on its way to be tested.               *)
Testing ==
  \/ relay /\ pc["ctl"] \in {"body", "off"}
  \/ pc["ctl"] \in {"full", "limit", "compare"}
  \/ pc["ctl"] \in {"off", "mark"} /\ ret["ctl"] = "limit"

(* RunBound only speaks of the age of a run.  What keeps it is when that   *)
(* age was last compared with run_till, at each place of the control task. *)
TimeInv ==
  /\ pc["ctl"] \in CtlLabels \cup PumpLabels /\ ret["ctl"] \notin {"idle", "walk"}
  /\ run_till <= FULL_TANK_TIME
  /\ pc["ctl"] = "check" => run_till \in {0, FULL_TANK_TIME}
  /\ pc["ctl"] = "minrun" => run_till = 0
  /\ pc["ctl"] = "add" => held["ctl"] = 0
  /\ pc["ctl"] = "compare" => held["ctl"] = RunSeconds
  /\ pc["ctl"] \in StartLabels => ret["ctl"] = "sense"
  /\ pc["ctl"] \in OffLabels => ~relay
  /\ pc["ctl"] \in {"till", "check", "minrun", "add", "running"} => sinceAge <= lag
  /\ relay /\ pc["ctl"] \in Reading => Known(lag)
  /\ relay /\ pc["ctl"] = "enter" => Known(MaxLag + lag)
  /\ Testing => cmAge <= sinceAge /\ Known(MaxLag + lag)
  /\ relay /\ pc["ctl"] = "over" => sinceAge < FillTicks + cmAge

RunInv == TypeInv /\ RelayInv /\ Apart

(* The linear facts the steps need: FillTicks is not expanded any more.    *)
LEMMA Pace ==
  ASSUME Paced
  PROVE  /\ FillTicks \in Nat /\ 2 * MaxLag < FillTicks
         /\ RunLimit = FillTicks + Second + 2 * (MaxLag - 1) /\ RunLimit < MillisMod
         /\ Second \in Nat \ {0} /\ MaxLag \in Nat \ {0} /\ MillisMod \in Nat
         /\ MinRun \in Nat \ {0} /\ FULL_TANK_TIME \in Nat /\ MinRun < FULL_TANK_TIME
<1>1. FULL_TANK_TIME * Second \in Nat
  BY TimeAssumption
<1> QED BY <1>1, TimeAssumption DEF Paced, FillTicks, RunLimit, RUN_DELAY_SS

(* A run whose whole seconds are fewer than the limit is below the limit.  *)
LEMMA WholeSeconds ==
  ASSUME NEW x \in Nat, NEW n \in Nat, n <= FULL_TANK_TIME, ~(x \div Second >= n)
  PROVE  x < FillTicks
<1> DEFINE q == x \div Second
<1>1. q \in Nat /\ x < Second * (q + 1)
  BY TimeAssumption
<1>2. q + 1 <= FULL_TANK_TIME
  BY <1>1, TimeAssumption
<1> HIDE DEF q
<1>3. Second * (q + 1) <= Second * FULL_TANK_TIME
  BY <1>1, <1>2, TimeAssumption
<1>4. Second * FULL_TANK_TIME = FillTicks
  BY TimeAssumption DEF FillTicks
<1>5. Second * (q + 1) \in Nat /\ FillTicks \in Nat
  BY <1>1, <1>4, TimeAssumption
<1> QED BY <1>1, <1>3, <1>4, <1>5

LEMMA SecondsGrow ==
  ASSUME NEW x \in Nat, NEW y \in Nat, x <= y
  PROVE  x \div Second <= y \div Second
<1> DEFINE p == x \div Second
           q == y \div Second
<1>1. p \in Nat /\ q \in Nat /\ Second * p <= x /\ y < Second * (q + 1)
  BY TimeAssumption
<1> HIDE DEF p, q
<1>2. CASE p >= q + 1
  <2>1. Second * p >= Second * (q + 1)
    BY <1>1, <1>2, TimeAssumption
  <2>2. Second * p \in Nat /\ Second * (q + 1) \in Nat
    BY <1>1, TimeAssumption
  <2> QED BY <1>1, <2>1, <2>2
<1>3. CASE p <= q
  BY <1>3 DEF p, q
<1> QED BY <1>1, <1>2, <1>3

(* The unsigned difference of loop() is the true one: the run began before *)
(* the clock was read.                                                     *)
LEMMA ElapsedIsTrue ==
  ASSUME TypeInv, cmAge <= sinceAge
  PROVE  Elapsed(sinceAge) = sinceAge - cmAge /\ sinceAge - cmAge \in Nat
<1>1. cmAge \in Nat /\ sinceAge \in Nat /\ sinceAge < MillisMod /\ MillisMod \in Nat
  BY TimeAssumption DEF TypeInv, TypeOK, Age
<1>2. sinceAge - cmAge \in 0 .. MillisMod - 1
  BY <1>1
<1> QED BY <1>1, <1>2 DEF Elapsed

(* At the places of a run its age is within the limit.                     *)
LEMMA KnownBound ==
  ASSUME Paced, TypeInv, NEW x \in Nat, x <= 2 * MaxLag, Known(x)
  PROVE  sinceAge <= RunLimit
<1>1. sinceAge \in Nat /\ lastAge \in Nat
  BY TimeAssumption DEF TypeInv, TypeOK, Age
<1> QED BY <1>1, Pace DEF Known

LEMMA ApartSteps ==
  ASSUME Unattended, RunInv, [Next]_vars
  PROVE  /\ Apart'
         /\ \/ TankController \/ Tick
            \/ /\ UNCHANGED <<relay, sinceAge, lastAge, cmAge, lag, run_till, ret, held>>
               /\ pc'["ctl"] = pc["ctl"]
<1> USE DEF Goto, Call, pumpVars, confVars, timeVars, flow
<1>1. /\ pc \in [Task -> CtlLabels \cup PumpLabels \cup SvcLabels \cup NetLabels]
      /\ pc["svc"] = "idle" /\ pc["net"] \in {"idle", "post"} /\ automatic /\ ~raced
      /\ "ctl" \in Task /\ "svc" \in Task /\ "net" \in Task
  BY DEF RunInv, Apart, TypeInv, TypeOK, Task
<1>2. \A t \in {"svc", "net"} : ~Pump(t)
  BY <1>1 DEF Pump, GuardFails, GuardHolds, RelayOn, RunningSince, RunTill,
         CheckRunTill, ReadRunTill, RunAtLeast, MarkRunning,
              RelayOff, MarkStopped
<1>3. /\ ~TimerDue /\ ~FaultSeen /\ ~NoFaultSeen /\ ~NextTiming /\ ~TimingsOver
      /\ ~StopIfRunning /\ ~\E c \in Commands : SetAutomatic(c) \/ SetRun(c)
  BY <1>1 DEF Unattended, TimerDue, FaultSeen, NoFaultSeen, NextTiming, TimingsOver, StopIfRunning
<1>4. CASE PostStart \/ PostStop
  <2>1. /\ automatic' = automatic /\ raced' = raced
        /\ UNCHANGED <<relay, sinceAge, lastAge, cmAge, lag, run_till, ret, held>>
    BY <1>4 DEF PostStart, PostStop
  <2>2. pc' = [pc EXCEPT !["net"] = "post"] \/ pc' = [pc EXCEPT !["net"] = "idle"]
    BY <1>4 DEF PostStart, PostStop
  <2>3. pc'["ctl"] = pc["ctl"] /\ pc'["svc"] = pc["svc"] /\ pc'["net"] \in {"idle", "post"}
    BY <1>1, <2>2
  <2> QED BY <1>1, <2>1, <2>3 DEF Apart
<1>5. CASE Tick
  BY <1>1, <1>5 DEF Tick, Apart
<1>6. CASE UNCHANGED vars
  BY <1>1, <1>6 DEF vars, Apart
<1>7. CASE TankController
  <2>1. automatic' = automatic
    BY <1>7 DEF TankController, Pump, GuardFails, GuardHolds, RelayOn, RunningSince, RunTill,
         CheckRunTill, ReadRunTill, RunAtLeast,
         MarkRunning, RelayOff, MarkStopped, Poll, EnterLocked, ReadMillis, BodyFault, BodyRunning,
         StopIfFull, ReadElapsed, TimeLimit, LatchReserve, LatchRelayFault, StartIfLow, LoopOver, NoReading,
         GoodFrame, BadFrame, Silence, ReadSensor, MarkSensor, MarkWire
  <2>2. \E to : pc' = [pc EXCEPT !["ctl"] = to]
    <3>1. pc' = pc => pc' = [pc EXCEPT !["ctl"] = pc["ctl"]]
      BY <1>1
    <3> QED BY <1>7, <3>1 DEF TankController, Pump, GuardFails, GuardHolds, RelayOn, RunningSince, RunTill,
         CheckRunTill, ReadRunTill, RunAtLeast, MarkRunning, RelayOff, MarkStopped, Poll, EnterLocked, ReadMillis, BodyFault,
         BodyRunning, StopIfFull, ReadElapsed, TimeLimit, LatchReserve, LatchRelayFault, StartIfLow, LoopOver,
         NoReading, GoodFrame, BadFrame, Silence, ReadSensor, MarkSensor, MarkWire
  <2>3. ~raced'
    <3>1. ~Overlap("ctl")
      BY <1>1 DEF Overlap, Writing, Task
    <3> QED BY <1>1, <1>7, <3>1 DEF TankController, Pump, GuardFails, GuardHolds, RelayOn, RunningSince,
         RunTill,
         CheckRunTill, ReadRunTill, RunAtLeast, MarkRunning, RelayOff, MarkStopped, Poll, EnterLocked, ReadMillis, BodyFault,
         BodyRunning, StopIfFull, ReadElapsed, TimeLimit, LatchReserve, LatchRelayFault, StartIfLow, LoopOver,
         NoReading, GoodFrame, BadFrame, Silence, ReadSensor, MarkSensor, MarkWire
  <2> QED BY <1>1, <1>7, <2>1, <2>2, <2>3 DEF Apart
<1> QED BY <1>2, <1>3, <1>4, <1>5, <1>6, <1>7 DEF Next, Services, AsyncTcp

(* The ranges of the readings, and what Agreement says of the control task *)
(* when it is the only one that writes.                                    *)
LEMMA RunFacts ==
  ASSUME RunInv
  PROVE  /\ sinceAge \in Nat /\ lastAge \in Nat /\ sinceAge < MillisMod /\ lastAge < MillisMod
         /\ lag \in Nat /\ lag <= MaxLag /\ cmAge \in Nat /\ cmAge <= lag /\ run_till \in Nat
         /\ relay \in BOOLEAN
         /\ pc \in [Task -> CtlLabels \cup PumpLabels \cup SvcLabels \cup NetLabels]
         /\ ret \in [Task -> {"sense", "over", "limit", "reserve", "walk", "idle"}] /\ "ctl" \in Task
         /\ held \in [Task -> Nat]
         /\ pc["ctl"] \in {"poll", "enter", "good", "bad", "seen", "cut"} => cmAge = 0
         /\ pc["ctl"] \notin {"since", "till", "check", "minrun", "add", "running", "mark"} => relay = pump_running
<1>1. pc["ctl"] \notin {"since", "till", "check", "minrun", "add", "running", "mark"} => relay = pump_running
  BY DEF RunInv, RelayInv, Apart, Writing, Task
<1> QED BY <1>1, TimeAssumption DEF RunInv, TypeInv, TypeOK, CmAgeReset, Age, Task

(* An unsigned long holds the seconds of a run.                            *)
LEMMA SecondsFit ==
  MinRun < MillisMod /\ MinRun % MillisMod = MinRun
<1>1. (FULL_TANK_TIME + 1) * Second >= FULL_TANK_TIME + 1
  BY TimeAssumption
<1> QED BY <1>1, TimeAssumption

LEMMA TickTimes ==
  ASSUME Paced, RunInv, TimeInv, Tick
  PROVE  TimeInv'
<1>1. /\ lag < MaxLag /\ lag' = lag + 1 /\ cmAge' \in {cmAge, cmAge + 1}
      /\ pc' = pc /\ ret' = ret /\ held' = held /\ relay' = relay /\ run_till' = run_till
      /\ InLoop => cmAge' = cmAge + 1
  BY DEF Tick, flow
<1>2. ~InLoop => cmAge' = cmAge
  BY DEF Tick
<1>3. sinceAge + 1 < MillisMod => sinceAge' = sinceAge + 1
  BY RunFacts, Pace DEF Tick
<1>4. lastAge + 1 < MillisMod => lastAge' = lastAge + 1
  BY RunFacts, Pace DEF Tick
<1> DEFINE Then(x) == \/ sinceAge' <= x
                      \/ sinceAge' < FillTicks + lastAge' /\ lastAge' < Second + x
<1>5. ASSUME NEW x \in Nat, x < 2 * MaxLag, Known(x)
      PROVE  sinceAge' = sinceAge + 1 /\ Then(x + 1)
  <2>1. sinceAge' = sinceAge + 1
    BY <1>3, <1>5, RunFacts, Pace DEF Known
  <2>2. CASE sinceAge <= x
    BY <1>5, <2>1, <2>2, RunFacts, Pace
  <2>3. CASE sinceAge < FillTicks + lastAge /\ lastAge < Second + x
    <3>1. lastAge' = lastAge + 1
      BY <1>4, <1>5, <2>3, RunFacts, Pace
    <3> QED BY <1>5, <2>1, <2>3, <3>1, RunFacts, Pace
  <2> QED BY <1>5, <2>1, <2>2, <2>3 DEF Known
<1>6. Known(lag) => Known(lag)'
  <2>1. Known(lag) => Then(lag + 1)
    BY <1>1, <1>5, RunFacts, Pace
  <2> QED BY <1>1, <2>1 DEF Known
<1>7. Known(MaxLag + lag) => sinceAge' = sinceAge + 1 /\ Known(MaxLag + lag)'
  <2>1. MaxLag + lag \in Nat /\ MaxLag + lag < 2 * MaxLag
    BY <1>1, RunFacts, Pace
  <2>2. Known(MaxLag + lag) => sinceAge' = sinceAge + 1 /\ Then(MaxLag + lag + 1)
    BY <1>5, <2>1
  <2>3. MaxLag + lag + 1 = MaxLag + lag'
    BY <1>1, RunFacts, Pace
  <2> QED BY <1>1, <2>2, <2>3 DEF Known
<1>8. sinceAge <= lag => sinceAge' <= lag'
  BY <1>1, <1>3, RunFacts, Pace
<1>9. Testing' = Testing
  BY <1>1 DEF Testing
<1>10. pc["ctl"] = "over" => cmAge' = cmAge + 1
  BY <1>1 DEF InLoop
<1>11. sinceAge < FillTicks + cmAge => sinceAge' = sinceAge + 1
  BY <1>1, <1>3, RunFacts, Pace
<1>12. relay /\ pc["ctl"] = "over" => sinceAge' < FillTicks + cmAge'
  BY <1>10, <1>11, RunFacts, Pace DEF TimeInv
<1>13. Testing => cmAge' <= sinceAge'
  BY <1>1, <1>7, RunFacts, Pace DEF TimeInv
<1>14. pc["ctl"] = "compare" => RunSeconds' = RunSeconds
  <2> SUFFICES ASSUME pc["ctl"] = "compare" PROVE RunSeconds' = RunSeconds
    OBVIOUS
  <2>1. Testing /\ cmAge <= sinceAge /\ InLoop
    BY DEF Testing, TimeInv, InLoop
  <2>2. sinceAge' = sinceAge + 1 /\ cmAge' = cmAge + 1 /\ sinceAge' < MillisMod
    BY <1>1, <1>7, <2>1, RunFacts, Pace DEF TimeInv, Tick
  <2>3. Elapsed(sinceAge) = sinceAge - cmAge
    BY <2>1, ElapsedIsTrue DEF RunInv
  <2>4. Elapsed(sinceAge)' = sinceAge' - cmAge'
    <3>1. sinceAge' - cmAge' \in 0 .. MillisMod - 1
      BY <2>1, <2>2, RunFacts, Pace
    <3>2. (sinceAge' - cmAge') % MillisMod = sinceAge' - cmAge'
      BY <3>1, Pace
    <3> QED BY <3>2 DEF Elapsed
  <2>5. Elapsed(sinceAge)' = Elapsed(sinceAge)
    BY <2>2, <2>3, <2>4, RunFacts
  <2> QED BY <2>5 DEF RunSeconds
<1> QED BY <1>1, <1>6, <1>7, <1>8, <1>9, <1>12, <1>13, <1>14 DEF TimeInv

LEMMA PumpTimes ==
  ASSUME Paced, RunInv, TimeInv, Pump("ctl")
  PROVE  TimeInv'
<1> USE DEF TimeInv, CtlLabels, PumpLabels, StartLabels, Testing, Reading, OffLabels, Goto
<1>1. CASE GuardFails("ctl")
  BY <1>1, RunFacts DEF GuardFails, pumpVars, timeVars
<1>2. CASE GuardHolds("ctl")
  <2>1. pc["ctl"] = "guard" /\ pc'["ctl"] \in {"guard", "on"} /\ ret' = ret
        /\ UNCHANGED <<relay, run_till>>
    BY <1>2, RunFacts DEF GuardHolds, pumpVars
  <2> QED BY <2>1
<1>3. CASE RelayOn("ctl")
  BY <1>3, RunFacts DEF RelayOn
<1>4. CASE RunningSince("ctl")
  BY <1>4, RunFacts DEF RunningSince, timeVars
<1>5. CASE RunTill("ctl")
  <2>1. level \in Levels
    BY DEF RunInv, TypeInv, TypeOK
  <2>2. FULL_TANK_TIME * (1 - level \div Tank) \in {0, FULL_TANK_TIME}
    BY <2>1, RunTillIs
  <2>3. /\ run_till' \in {0, FULL_TANK_TIME}
        /\ pc["ctl"] = "till" /\ pc'["ctl"] = "check"
    BY <1>5, <2>2, RunFacts DEF RunTill
  <2> QED BY <1>5, <2>3, RunFacts, Pace DEF RunTill, timeVars
<1>10. CASE CheckRunTill("ctl")
  <2>1. /\ pc["ctl"] = "check" /\ UNCHANGED <<relay, run_till, ret, held, sinceAge, lastAge, cmAge, lag>>
        /\ pc'["ctl"] = IF run_till <= MinRun THEN "minrun" ELSE "running"
    BY <1>10, RunFacts DEF CheckRunTill, pumpVars, timeVars
  <2>2. \/ pc'["ctl"] = "minrun" /\ run_till = 0
        \/ pc'["ctl"] = "running"
    BY <2>1, Pace
  <2> QED BY <2>1, <2>2
<1>11. CASE ReadRunTill("ctl")
  BY <1>11, RunFacts DEF ReadRunTill, pumpVars, timeVars
<1>6. CASE RunAtLeast("ctl")
  <2>1. /\ pc["ctl"] = "add" /\ pc'["ctl"] = "running"
        /\ UNCHANGED <<relay, ret, sinceAge, lastAge, cmAge, lag>>
        /\ run_till' = (0 + MinRun) % MillisMod
    BY <1>6, RunFacts DEF RunAtLeast, timeVars
  <2>2. run_till' = MinRun
    BY <2>1, SecondsFit, Pace
  <2> QED BY <2>1, <2>2, Pace
<1>7. CASE MarkRunning("ctl")
  BY <1>7, RunFacts DEF MarkRunning, timeVars, Known
<1>8. CASE RelayOff("ctl")
  BY <1>8, RunFacts DEF RelayOff, timeVars, Known
<1>9. CASE MarkStopped("ctl")
  BY <1>9, RunFacts DEF MarkStopped, timeVars, Known
<1> QED BY <1>1, <1>2, <1>3, <1>4, <1>5, <1>6, <1>7, <1>8, <1>9, <1>10, <1>11 DEF Pump

(* A run that began in the iteration before the first one that found its   *)
(* period not over is younger than its limit.                              *)
LEMMA PollTimes ==
  ASSUME Paced, RunInv, TimeInv, Poll \/ EnterLocked \/ ReadMillis
  PROVE  TimeInv'
<1> USE DEF TimeInv, CtlLabels, PumpLabels, StartLabels, Testing, Reading, OffLabels, Goto, Call, pumpVars, timeVars
<1>1. CASE Poll
  <2>1. /\ pc["ctl"] = "poll" /\ pc'["ctl"] = "enter" /\ lag' = 0
        /\ UNCHANGED <<relay, run_till, ret, sinceAge, lastAge, cmAge>>
    BY <1>1, RunFacts DEF Poll, RunInv, Apart
  <2>2. relay => Known(MaxLag + lag)'
    BY <2>1, RunFacts, Pace DEF Known
  <2> QED BY <2>1, <2>2
<1>2. CASE EnterLocked
  <2>1. /\ pc["ctl"] = "enter" /\ pc'["ctl"] = "off" /\ ret'["ctl"] = "sense"
        /\ UNCHANGED <<relay, run_till, sinceAge, lastAge, cmAge, lag>>
    BY <1>2, RunFacts DEF EnterLocked
  <2> QED BY <2>1, RunFacts DEF Known
<1>3. CASE ReadMillis
  <2>1. /\ pc["ctl"] = "enter"
        /\ UNCHANGED <<relay, run_till, ret, sinceAge, lastAge, cmAge, lag>>
        /\ \/ lastAge >= Second /\ pc'["ctl"] = "body"
           \/ lastAge < Second /\ pc'["ctl"] = "sense"
    BY <1>3, RunFacts, Pace DEF ReadMillis, RUN_DELAY_SS
  <2>2. CASE pc'["ctl"] = "body"
    BY <2>1, <2>2, RunFacts DEF Known
  <2>3. CASE pc'["ctl"] = "sense"
    <3>1. relay => Known(lag)'
      BY <2>1, <2>3, RunFacts, Pace DEF Known
    <3> QED BY <2>1, <2>3, <3>1
  <2> QED BY <2>1, <2>2, <2>3
<1> QED BY <1>1, <1>2, <1>3

LEMMA BodyTimes ==
  ASSUME Paced, RunInv, TimeInv,
         \/ BodyFault \/ BodyRunning \/ StopIfFull \/ LatchReserve \/ LatchRelayFault \/ StartIfLow
  PROVE  TimeInv'
<1> USE DEF TimeInv, CtlLabels, PumpLabels, StartLabels, Testing, Reading, OffLabels, Goto, Call
<1>1. UNCHANGED <<relay, run_till, sinceAge, lastAge, cmAge, lag>>
  BY DEF BodyFault, BodyRunning, StopIfFull, LatchReserve, LatchRelayFault, StartIfLow, pumpVars, timeVars
<1>2. \/ pc["ctl"] = "body" /\ pc'["ctl"] = "off" /\ ret'["ctl"] = "over"
      \/ pc["ctl"] = "body" /\ pc'["ctl"] = "full" /\ relay /\ ret' = ret
      \/ pc["ctl"] = "body" /\ pc'["ctl"] = "low" /\ ~relay /\ ret' = ret
      \/ pc["ctl"] = "full" /\ pc'["ctl"] \in {"off", "limit"} /\ ret'["ctl"] \notin {"idle", "walk"}
      \/ pc["ctl"] \in OffLabels /\ pc'["ctl"] \in {"latch", "over"} /\ ret' = ret
      \/ pc["ctl"] = "low" /\ pc'["ctl"] = "guard" /\ ret'["ctl"] = "sense"
  BY RunFacts DEF BodyFault, BodyRunning, StopIfFull, LatchReserve, LatchRelayFault, StartIfLow
<1>3. Known(MaxLag + lag)' = Known(MaxLag + lag)
  BY <1>1 DEF Known
<1> QED BY <1>1, <1>2, <1>3

LEMMA ElapsedTimes ==
  ASSUME Paced, RunInv, TimeInv, ReadElapsed
  PROVE  TimeInv'
<1> USE DEF TimeInv, CtlLabels, PumpLabels, StartLabels, Testing, Reading, OffLabels, Goto
<1>1. /\ pc["ctl"] = "limit" /\ pc'["ctl"] = "compare"
      /\ UNCHANGED <<relay, run_till, sinceAge, lastAge, cmAge, lag, ret>>
      /\ held'["ctl"] = RunSeconds
  BY RunFacts DEF ReadElapsed, pumpVars, timeVars
<1>2. RunSeconds' = RunSeconds /\ Known(MaxLag + lag)' = Known(MaxLag + lag)
  BY <1>1 DEF RunSeconds, Elapsed, Known
<1> QED BY <1>1, <1>2

LEMMA LimitTimes ==
  ASSUME Paced, RunInv, TimeInv, TimeLimit
  PROVE  TimeInv'
<1> USE DEF TimeInv, CtlLabels, PumpLabels, StartLabels, Testing, Reading, OffLabels, Call
<1>1. pc["ctl"] = "compare" /\ UNCHANGED <<relay, run_till, sinceAge, lastAge, cmAge, lag>>
  BY DEF TimeLimit, pumpVars, timeVars
<1>2. cmAge <= sinceAge /\ Known(MaxLag + lag) /\ held["ctl"] = RunSeconds
  BY <1>1
<1>3. CASE OverTime
  <2>1. pc'["ctl"] = "off" /\ ret'["ctl"] = "reserve"
    BY <1>3, RunFacts DEF TimeLimit
  <2> QED BY <1>1, <1>2, <2>1 DEF Known
<1>4. CASE ~OverTime
  <2>1. pc'["ctl"] = "over" /\ ret' = ret
    BY <1>4, RunFacts DEF TimeLimit
  <2>2. ~((sinceAge - cmAge) \div Second >= run_till) /\ sinceAge - cmAge \in Nat
    BY <1>2, <1>4, ElapsedIsTrue DEF OverTime, RunSeconds, RunInv
  <2>3. sinceAge - cmAge < FillTicks
    BY <2>2, WholeSeconds, RunFacts
  <2> QED BY <1>1, <2>1, <2>3, RunFacts, Pace
<1> QED BY <1>3, <1>4

LEMMA SenseTimes ==
  ASSUME Paced, RunInv, TimeInv,
         \/ LoopOver \/ NoReading \/ GoodFrame \/ BadFrame \/ Silence \/ MarkSensor \/ MarkWire
  PROVE  TimeInv'
<1> USE DEF TimeInv, CtlLabels, PumpLabels, StartLabels, Testing, Reading, OffLabels, Goto, pumpVars, timeVars
<1>1. CASE LoopOver
  <2>1. /\ pc["ctl"] = "over" /\ pc'["ctl"] = "sense" /\ ret'["ctl"] = "sense" /\ lastAge' = cmAge
        /\ UNCHANGED <<relay, run_till, sinceAge, cmAge, lag>>
    BY <1>1, RunFacts DEF LoopOver
  <2>2. relay => Known(lag)'
    BY <2>1, RunFacts, Pace DEF Known
  <2> QED BY <2>1, <2>2
<1>2. CASE NoReading \/ GoodFrame \/ BadFrame \/ Silence \/ MarkSensor \/ MarkWire
  <2>1. /\ pc["ctl"] \in Reading /\ pc'["ctl"] \in Reading
        /\ UNCHANGED <<relay, run_till, ret, sinceAge, lastAge, lag>>
    BY <1>2, RunFacts DEF NoReading, GoodFrame, BadFrame, Silence, ReadSensor, MarkSensor, MarkWire
  <2>2. Known(lag)' = Known(lag)
    BY <2>1 DEF Known
  <2> QED BY <2>1, <2>2
<1> QED BY <1>1, <1>2

LEMMA TimeStep ==
  ASSUME Unattended, Paced, RunInv, TimeInv, [Next]_vars
  PROVE  TimeInv'
<1>1. CASE TankController
  BY <1>1, PumpTimes, PollTimes, BodyTimes, ElapsedTimes, LimitTimes, SenseTimes DEF TankController
<1>2. CASE Tick
  BY <1>2, TickTimes
<1>3. CASE /\ UNCHANGED <<relay, sinceAge, lastAge, cmAge, lag, run_till, ret, held>>
           /\ pc'["ctl"] = pc["ctl"]
  BY <1>3 DEF TimeInv, Testing, Known, RunSeconds, Elapsed
<1> QED BY <1>1, <1>2, <1>3, ApartSteps

LEMMA RunInvariant ==
  ASSUME Unattended, Paced
  PROVE  Spec => [](RunInv /\ TimeInv)
<1>1. Init => Apart /\ TimeInv
  BY Pace DEF Init, Apart, TimeInv, CtlLabels, PumpLabels, StartLabels, Testing, Reading, OffLabels, Task
<1>2. TypeInv /\ RelayInv /\ Apart /\ TimeInv /\ [Next]_vars => Apart' /\ TimeInv'
  BY ApartSteps, TimeStep DEF RunInv
<1> QED BY <1>1, <1>2, TypeInvariant, RelayInvariant, PTL DEF Spec, RunInv

(* A pump that the control task alone has switched on is switched off      *)
(* within FULL_TANK_TIME, one period of the loop and the lag of two        *)
(* iterations (loop, forceStart), whatever the sensor says, also when the  *)
(* clock wraps while a start is being refused.                             *)
THEOREM RunIsBounded ==
  ASSUME Unattended, Paced
  PROVE  Spec => []RunBound
<1>1. RunInv /\ TimeInv => RunBound
  <2> SUFFICES ASSUME RunInv, TimeInv, \A t \in Task : ~Writing(t), relay
               PROVE  sinceAge <= RunLimit
    BY DEF RunBound
  <2>1. pc["ctl"] \in CtlLabels \cup {"guard", "on", "off"}
    BY RunFacts DEF TimeInv, Writing, PumpLabels
  <2>2. pc["ctl"] \in Reading \cup {"enter", "body", "full", "limit", "compare", "off", "over"}
    BY <2>1, RunFacts DEF CtlLabels, Reading, TimeInv, OffLabels, RunInv, Apart
  <2>3. CASE pc["ctl"] = "over"
    BY <2>3, RunFacts, Pace DEF TimeInv
  <2>4. CASE pc["ctl"] \in Reading
    <3>1. Known(lag)
      BY <2>4 DEF TimeInv
    <3> QED BY <3>1, RunFacts, KnownBound, Pace DEF RunInv
  <2>5. CASE pc["ctl"] \in {"enter", "body", "full", "limit", "compare", "off"}
    <3>1. Known(MaxLag + lag)
      BY <2>5 DEF TimeInv, Testing
    <3> QED BY <3>1, RunFacts, KnownBound, Pace DEF RunInv
  <2> QED BY <2>2, <2>3, <2>4, <2>5
<1> QED BY <1>1, RunInvariant, PTL

(* The control task alone gives a pump up as running dry only when it has  *)
(* been on for the whole of run_till: no difference of loop() wraps.       *)
THEOREM TripsJustified ==
  ASSUME Unattended, Paced
  PROVE  Spec => TripJustified
<1>1. RunInv /\ TimeInv /\ [Next]_vars
      => [pc["ctl"] = "compare" /\ pc'["ctl"] = "off" => sinceAge \div Second >= run_till]_vars
  <2> SUFFICES ASSUME RunInv, TimeInv, [Next]_vars, pc["ctl"] = "compare", pc'["ctl"] = "off"
               PROVE  sinceAge \div Second >= run_till
    OBVIOUS
  <2>1. cmAge <= sinceAge /\ held["ctl"] = RunSeconds
    BY DEF TimeInv, Testing
  <2>2. TimeLimit
    <3>1. TankController
      BY ApartSteps DEF Tick, flow
    <3> QED BY <3>1, RunFacts DEF TankController, Pump, GuardFails, GuardHolds, RelayOn, RunningSince, RunTill,
         CheckRunTill, ReadRunTill, RunAtLeast, MarkRunning, RelayOff, MarkStopped, Poll, EnterLocked, ReadMillis, BodyFault,
         BodyRunning, StopIfFull, ReadElapsed, LatchReserve, LatchRelayFault, StartIfLow, LoopOver,
         NoReading, GoodFrame, BadFrame, Silence, ReadSensor, MarkSensor, MarkWire, Goto
  <2>3. OverTime
    BY <2>2, RunFacts DEF TimeLimit
  <2>4. (sinceAge - cmAge) \div Second >= run_till /\ sinceAge - cmAge \in Nat
    BY <2>1, <2>3, ElapsedIsTrue DEF OverTime, RunSeconds, RunInv
  <2>5. (sinceAge - cmAge) \div Second <= sinceAge \div Second
    BY <2>4, SecondsGrow, RunFacts
  <2>6. (sinceAge - cmAge) \div Second \in Int /\ sinceAge \div Second \in Int
    BY <2>4, RunFacts, Pace
  <2> QED BY <2>4, <2>5, <2>6, RunFacts
<1> QED BY <1>1, RunInvariant, PTL DEF Spec, TripJustified
-----------------------------------------------------------------------------
(* The promise of HysteresisPump, with one pair of points besides: what    *)
(* start() has asked for stays so because nobody posts others.             *)
OnItsOwn == Unattended /\ \E p \in Points : Points = {p}

(* The other tasks have nothing to do but to post the points there are.    *)
Alone ==
  /\ pc["svc"] = "idle" /\ pc["net"] \in {"idle", "post"}
  /\ <<start_p, stop_p>> \in Points /\ start_p \in Nat /\ stop_p \in Nat

(* What start() has seen stays so until the relay is written, for nobody   *)
(* else writes it; the loop goes on to LatchReserve only after forceStop().*)
SeenStays ==
  /\ pc["ctl"] \in {"body", "low", "guard", "on"} => ground_reserve
  /\ pc["ctl"] \in {"low", "guard", "on"} => ~Fault
  /\ pc["ctl"] \in {"guard", "on"} => level <= start_p
  /\ pc["ctl"] = "guard" => k["ctl"] >= StartGuard /\ (k["ctl"] > StartGuard => level < stop_p)
  /\ pc["ctl"] = "on" => level < stop_p
  /\ pc["ctl"] \in StartLabels => ret["ctl"] = "sense"
  /\ pc["ctl"] \in {"mark", "reserve"} => ~relay

RefInv == TypeOK /\ Alone /\ SeenStays

Mapped == <<level, start_p, stop_p, Fault, ground_reserve, relay>>

LEMMA LevelIsNat ==
  ASSUME TypeOK
  PROVE  level \in Nat /\ \A r \in Levels : r \in Nat
BY LevelAssumption DEF TypeOK, Levels

LEMMA RefInit ==
  ASSUME Init
  PROVE  Alone /\ SeenStays /\ Promise!Init
<1>1. /\ <<start_p, stop_p>> \in Points /\ start_p \in Nat /\ stop_p \in Nat
  <2>1. PICK p \in Points : start_p = p[1] /\ stop_p = p[2]
    BY DEF Init
  <2>2. p \in Nat \X Nat
    BY LevelAssumption
  <2>3. p = <<p[1], p[2]>> /\ p[1] \in Nat /\ p[2] \in Nat
    BY <2>2
  <2> QED BY <2>1, <2>3
<1>2. pc["ctl"] = "poll" /\ pc["svc"] = "idle" /\ pc["net"] = "idle"
  BY DEF Init, Task
<1>3. Alone /\ SeenStays
  BY <1>1, <1>2 DEF Alone, SeenStays, StartLabels
<1>4. Promise!Init
  BY <1>1 DEF Init, Promise!Init, Fault
<1> QED BY <1>3, <1>4

(* Posting what there is changes nothing, and the clock is not looked at.  *)
LEMMA OthersSteps ==
  ASSUME OnItsOwn, RefInv, Services \/ AsyncTcp \/ Tick
  PROVE  Alone' /\ SeenStays' /\ UNCHANGED Mapped
<1>1. pc["svc"] = "idle" /\ pc["net"] \in {"idle", "post"}
  BY DEF RefInv, Alone
<1>2. pc \in [Task -> CtlLabels \cup PumpLabels \cup SvcLabels \cup NetLabels] /\ "net" \in Task
  BY DEF RefInv, TypeOK, Task
<1>3. PICK p \in Points : Points = {p}
  BY DEF OnItsOwn
<1>4. p = <<start_p, stop_p>>
  BY <1>3 DEF RefInv, Alone
<1>5. \A t \in {"svc", "net"} : ~Pump(t)
  BY <1>1 DEF Pump, GuardFails, GuardHolds, RelayOn, RunningSince, RunTill,
         CheckRunTill, ReadRunTill, RunAtLeast, MarkRunning,
              RelayOff, MarkStopped, Goto
<1>6. CASE PostStart \/ PostStop
  <2>1. /\ pc'["ctl"] = pc["ctl"] /\ pc'["svc"] = pc["svc"] /\ pc'["net"] \in {"idle", "post"}
        /\ UNCHANGED <<sensorVars, latchVars, pumpVars, timeVars, k, ret>>
    BY <1>2, <1>6 DEF PostStart, PostStop, Goto, Task
  <2>2. UNCHANGED <<start_p, stop_p>>
    <3>1. CASE PostStart
      BY <1>3, <1>4, <3>1 DEF PostStart
    <3>2. CASE PostStop
      BY <1>3, <1>4, <3>2 DEF PostStop
    <3> QED BY <1>6, <3>1, <3>2
  <2> QED BY <2>1, <2>2 DEF RefInv, Alone, SeenStays, Mapped, Fault, sensorVars, latchVars, pumpVars
<1>7. CASE Tick
  BY <1>7 DEF Tick, RefInv, Alone, SeenStays, Mapped, Fault, sensorVars, latchVars, confVars, flow
<1>8. /\ ~TimerDue /\ ~FaultSeen /\ ~NoFaultSeen /\ ~NextTiming /\ ~TimingsOver
      /\ ~StopIfRunning /\ ~\E c \in Commands : SetAutomatic(c) \/ SetRun(c)
  BY <1>1 DEF OnItsOwn, Unattended, TimerDue, FaultSeen, NoFaultSeen, NextTiming, TimingsOver,
              StopIfRunning, Goto
<1> QED BY <1>5, <1>6, <1>7, <1>8 DEF Services, AsyncTcp

(* A step of the control task that changes nothing the promise is about.   *)
LEMMA SilentStep ==
  ASSUME RefInv, UNCHANGED <<sensorVars, latchVars, relay, start_p, stop_p>>,
         pc'["svc"] = pc["svc"], pc'["net"] = pc["net"],
         SeenStays'
  PROVE  Alone' /\ SeenStays' /\ UNCHANGED Mapped
BY DEF RefInv, Alone, Mapped, Fault, sensorVars, latchVars

LEMMA ControlPlaces ==
  ASSUME TypeOK, NEW to, pc' = [pc EXCEPT !["ctl"] = to]
  PROVE  pc'["ctl"] = to /\ pc'["svc"] = pc["svc"] /\ pc'["net"] = pc["net"]
BY DEF TypeOK, Task

LEMMA StartSteps ==
  ASSUME RefInv, Pump("ctl")
  PROVE  Alone' /\ SeenStays' /\ [Promise!Next]_Mapped
<1> USE DEF StartLabels, StartGuard
<1>0. /\ pc \in [Task -> CtlLabels \cup PumpLabels \cup SvcLabels \cup NetLabels]
      /\ k \in [Task -> 1 .. GuardEnd] /\ "ctl" \in Task
      /\ ret["ctl"] \in {"sense", "over", "limit", "reserve", "walk", "idle"}
      /\ SeenStays
  BY DEF RefInv, TypeOK, Task
<1>1. ASSUME NEW to, pc' = [pc EXCEPT !["ctl"] = to]
      PROVE  pc'["ctl"] = to /\ pc'["svc"] = pc["svc"] /\ pc'["net"] = pc["net"]
  BY <1>1, ControlPlaces DEF RefInv
<1>2. CASE GuardFails("ctl")
  <2>1. pc["ctl"] = "guard" /\ pc'["ctl"] = "sense" /\ pc'["svc"] = pc["svc"] /\ pc'["net"] = pc["net"]
    BY <1>0, <1>1, <1>2 DEF GuardFails, Goto, SeenStays
  <2>2. SeenStays'
    BY <2>1 DEF SeenStays
  <2> QED BY <1>2, <2>1, <2>2, SilentStep DEF GuardFails, pumpVars, confVars
<1>3. CASE GuardHolds("ctl")
  <2>1. /\ UNCHANGED <<sensorVars, latchVars, relay, start_p, stop_p, ret>>
        /\ pc["ctl"] = "guard" /\ Guard[k["ctl"]]
    BY <1>3 DEF GuardHolds, pumpVars, confVars
  <2>2. k["ctl"] = StartGuard => level < stop_p
    <3> SUFFICES ASSUME k["ctl"] = 2 PROVE level < stop_p
      OBVIOUS
    <3>1. Guard[2] = (level < stop_p)
      BY DEF Guard
    <3> QED BY <2>1, <3>1, Zenon
  <2>3. k["ctl"] \in StartGuard .. GuardEnd /\ level < stop_p
    BY <1>0, <2>1, <2>2 DEF SeenStays
  <2>4. \/ /\ pc' = pc /\ k'["ctl"] = k["ctl"] + 1
        \/ pc'["ctl"] = "on" /\ pc'["svc"] = pc["svc"] /\ pc'["net"] = pc["net"]
    BY <1>0, <1>1, <1>3 DEF GuardHolds, Goto
  <2>5. /\ pc'["svc"] = pc["svc"] /\ pc'["net"] = pc["net"]
        /\ \/ pc'["ctl"] = "guard" /\ k'["ctl"] = k["ctl"] + 1
           \/ pc'["ctl"] = "on"
    BY <2>1, <2>4
  <2>6. SeenStays'
    BY <1>0, <2>1, <2>3, <2>5 DEF SeenStays, Fault, sensorVars, latchVars
  <2> QED BY <2>1, <2>5, <2>6, SilentStep
<1>4. CASE RelayOn("ctl")
  <2>1. /\ pc["ctl"] = "on" /\ pc'["ctl"] = "since" /\ pc'["svc"] = pc["svc"] /\ pc'["net"] = pc["net"]
        /\ relay' = TRUE /\ UNCHANGED <<sensorVars, latchVars, start_p, stop_p, ret>>
    BY <1>1, <1>4 DEF RelayOn, Goto, confVars
  <2>2. ~Fault /\ ground_reserve /\ level <= start_p /\ level < stop_p /\ ret["ctl"] = "sense"
    BY <1>0, <2>1 DEF SeenStays
  <2>3. Alone' /\ SeenStays'
    BY <2>1, <2>2 DEF RefInv, Alone, SeenStays
  <2>4. CASE relay
    BY <2>1, <2>3, <2>4 DEF Mapped, Fault, sensorVars, latchVars
  <2>5. CASE ~relay
    <3>1. Promise!SwitchOn
      BY <2>1, <2>2, <2>5 DEF Promise!SwitchOn, Fault, sensorVars, latchVars
    <3> QED BY <2>3, <3>1 DEF Promise!Next
  <2> QED BY <2>4, <2>5
<1>5. CASE \/ RunningSince("ctl") \/ RunTill("ctl") \/ CheckRunTill("ctl") \/ ReadRunTill("ctl")
           \/ RunAtLeast("ctl")
  <2>1. /\ pc["ctl"] \in {"since", "till", "check", "minrun", "add"}
        /\ pc'["ctl"] \in {"till", "check", "minrun", "add", "running"}
        /\ pc'["svc"] = pc["svc"] /\ pc'["net"] = pc["net"] /\ ret' = ret
        /\ UNCHANGED <<sensorVars, latchVars, relay, start_p, stop_p>>
    BY <1>1, <1>5 DEF RunningSince, RunTill, CheckRunTill, ReadRunTill, RunAtLeast, Goto, pumpVars, confVars
  <2>2. SeenStays'
    BY <1>0, <2>1 DEF SeenStays
  <2> QED BY <2>1, <2>2, SilentStep
<1>6. CASE MarkRunning("ctl")
  <2>1. /\ pc["ctl"] = "running" /\ pc'["ctl"] = "sense"
        /\ pc'["svc"] = pc["svc"] /\ pc'["net"] = pc["net"]
        /\ UNCHANGED <<sensorVars, latchVars, relay, start_p, stop_p>>
    BY <1>0, <1>1, <1>6 DEF MarkRunning, Goto, SeenStays, confVars
  <2>2. SeenStays'
    BY <2>1 DEF SeenStays
  <2> QED BY <2>1, <2>2, SilentStep
<1>7. CASE RelayOff("ctl")
  <2>1. /\ pc'["ctl"] = "mark" /\ pc'["svc"] = pc["svc"] /\ pc'["net"] = pc["net"]
        /\ relay' = FALSE /\ UNCHANGED <<sensorVars, latchVars, start_p, stop_p>>
    BY <1>1, <1>7 DEF RelayOff, Goto, confVars
  <2>2. Alone' /\ SeenStays'
    BY <2>1 DEF RefInv, Alone, SeenStays
  <2>3. CASE relay
    <3>1. Promise!SwitchOff
      BY <2>1, <2>3 DEF Promise!SwitchOff, Fault, sensorVars, latchVars
    <3> QED BY <2>2, <3>1 DEF Promise!Next
  <2>4. CASE ~relay
    <3>1. relay' = relay
      BY <2>1, <2>4 DEF RefInv, TypeOK
    <3> QED BY <2>1, <2>2, <3>1 DEF Mapped, Fault, sensorVars, latchVars
  <2> QED BY <2>3, <2>4
<1>8. CASE MarkStopped("ctl")
  <2>1. /\ pc["ctl"] = "mark" /\ pc'["ctl"] = ret["ctl"]
        /\ pc'["svc"] = pc["svc"] /\ pc'["net"] = pc["net"]
        /\ UNCHANGED <<sensorVars, latchVars, relay, start_p, stop_p>>
    BY <1>1, <1>8 DEF MarkStopped, Goto, confVars
  <2>2. SeenStays'
    BY <1>0, <2>1 DEF SeenStays
  <2> QED BY <2>1, <2>2, SilentStep
<1> QED BY <1>2, <1>3, <1>4, <1>5, <1>6, <1>7, <1>8, SilentStep DEF Pump

LEMMA LoopSteps ==
  ASSUME RefInv,
         \/ Poll \/ EnterLocked \/ ReadMillis \/ BodyFault \/ BodyRunning \/ StopIfFull
         \/ ReadElapsed \/ TimeLimit \/ StartIfLow \/ LoopOver \/ NoReading
  PROVE  Alone' /\ SeenStays' /\ UNCHANGED Mapped
<1> USE DEF StartLabels
<1>1. /\ pc \in [Task -> CtlLabels \cup PumpLabels \cup SvcLabels \cup NetLabels]
      /\ k \in [Task -> 1 .. GuardEnd] /\ ret \in [Task -> {"sense", "over", "limit", "reserve", "walk", "idle"}]
      /\ "ctl" \in Task /\ SeenStays
  BY DEF RefInv, TypeOK, Task
<1>2. UNCHANGED <<sensorVars, latchVars, relay, start_p, stop_p>>
  BY DEF Poll, EnterLocked, ReadMillis, BodyFault, BodyRunning, StopIfFull, ReadElapsed, TimeLimit, StartIfLow,
         LoopOver, NoReading, pumpVars, confVars
<1>3. pc'["svc"] = pc["svc"] /\ pc'["net"] = pc["net"]
  <2>1. \E to : pc' = [pc EXCEPT !["ctl"] = to]
    BY DEF Poll, EnterLocked, ReadMillis, BodyFault, BodyRunning, StopIfFull, ReadElapsed, TimeLimit, StartIfLow,
           LoopOver, NoReading, Goto, Call
  <2> QED BY <2>1, ControlPlaces DEF RefInv
<1>4. \/ pc'["ctl"] \in {"enter", "sense", "off", "over", "full", "limit", "compare", "poll"}
      \/ pc'["ctl"] = "body" /\ ground_reserve
      \/ pc'["ctl"] = "low" /\ pc["ctl"] = "body" /\ ~Fault
      \/ /\ pc'["ctl"] = "guard" /\ pc["ctl"] = "low" /\ level <= start_p
         /\ k'["ctl"] = StartGuard /\ ret'["ctl"] = "sense"
  BY <1>1 DEF Poll, EnterLocked, ReadMillis, BodyFault, BodyRunning, StopIfFull, ReadElapsed, TimeLimit, StartIfLow,
              LoopOver, NoReading, Goto, Call
<1>5. SeenStays'
  BY <1>1, <1>2, <1>4 DEF SeenStays, Fault, sensorVars, latchVars, StartGuard
<1> QED BY <1>2, <1>3, <1>5, SilentStep

(* The lock-out comes with the relay off; the sensor is free.              *)
LEMMA LatchAndSenseSteps ==
  ASSUME RefInv,
         \/ LatchReserve \/ LatchRelayFault
         \/ GoodFrame \/ BadFrame \/ Silence \/ MarkSensor \/ MarkWire
  PROVE  Alone' /\ SeenStays' /\ [Promise!Next]_Mapped
<1> USE DEF StartLabels
<1>1. TypeOK /\ SeenStays /\ level \in Nat /\ \A r \in Levels : r \in Nat
  BY LevelIsNat DEF RefInv
<1>2. /\ pc'["svc"] = pc["svc"] /\ pc'["net"] = pc["net"] /\ UNCHANGED <<relay, start_p, stop_p>>
      /\ pc'["ctl"] \in {"latch", "over", "good", "bad", "cut", "seen", "poll"}
  BY <1>1, ControlPlaces DEF LatchReserve, LatchRelayFault, GoodFrame, BadFrame, Silence, ReadSensor,
         MarkSensor, MarkWire, Goto, pumpVars, confVars
<1>3. Alone' /\ SeenStays'
  BY <1>2 DEF RefInv, Alone, SeenStays
<1>4. CASE LatchReserve
  <2>1. ~relay /\ UNCHANGED <<level, Fault, start_p, stop_p>> /\ ground_reserve' \in {ground_reserve, FALSE}
    BY <1>1, <1>4 DEF LatchReserve, Goto, SeenStays, Fault, sensorVars, confVars, TypeOK
  <2>2. CASE ground_reserve' = FALSE
    <3>1. Promise!GiveUp
      BY <1>2, <2>1, <2>2 DEF Promise!GiveUp
    <3> QED BY <1>3, <3>1 DEF Promise!Next
  <2>3. CASE ground_reserve' = ground_reserve
    BY <1>2, <1>3, <2>1, <2>3 DEF Mapped
  <2> QED BY <2>1, <2>2, <2>3
<1>5. CASE LatchRelayFault \/ GoodFrame \/ BadFrame \/ Silence \/ MarkSensor \/ MarkWire
  <2>1. level' \in Nat /\ ground_reserve' = ground_reserve
    <3>1. Readings \subseteq Levels /\ FaultLevel \in Levels
      BY DEF Levels
    <3> QED BY <1>1, <1>5, <3>1 DEF LatchRelayFault, GoodFrame, BadFrame, Silence, ReadSensor, MarkSensor,
                MarkWire, sensorVars, latchVars
  <2>2. Fault' \in BOOLEAN
    BY DEF Fault
  <2>3. Promise!Sense
    BY <1>2, <2>1, <2>2 DEF Promise!Sense
  <2> QED BY <1>3, <2>3 DEF Promise!Next
<1> QED BY <1>4, <1>5

LEMMA RefStep ==
  ASSUME OnItsOwn, RefInv, [Next]_vars
  PROVE  Alone' /\ SeenStays' /\ [Promise!Next]_Mapped
<1>1. CASE UNCHANGED vars
  BY <1>1 DEF vars, RefInv, Alone, SeenStays, Mapped, Fault, sensorVars, latchVars, pumpVars, confVars, flow
<1>2. CASE Services \/ AsyncTcp \/ Tick
  BY <1>2, OthersSteps
<1>3. CASE TankController
  BY <1>3, StartSteps, LoopSteps, LatchAndSenseSteps DEF TankController
<1> QED BY <1>1, <1>2, <1>3 DEF Next

(* Every behaviour of the controller on its own is one of HysteresisPump:  *)
(* the pump is switched on only when the tank is low and everything start()*)
(* asked for still holds (loop, start, forceStart), and the ground reserve *)
(* is given up only with the pump off.                                     *)
THEOREM ControllerKeepsPromise ==
  ASSUME OnItsOwn
  PROVE  Spec => Promise!Spec
<1>1. Init => Alone /\ SeenStays /\ Promise!Init
  BY RefInit
<1>2. TypeOK /\ Alone /\ SeenStays /\ [Next]_vars => Alone' /\ SeenStays'
  BY RefStep DEF RefInv
<1>3. TypeOK /\ Alone /\ SeenStays /\ [Next]_vars => [Promise!Next]_(Promise!vars)
  BY RefStep DEF RefInv, Mapped, Promise!vars
<1> QED BY <1>1, <1>2, <1>3, TypeCorrect, PTL DEF Spec, Promise!Spec
=============================================================================
