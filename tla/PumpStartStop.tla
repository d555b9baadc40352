--------------------------- MODULE PumpStartStop ---------------------------
(***************************************************************************)
(* The pump controller of the water tank firmware, at the grain at which   *)
(* its three FreeRTOS tasks really interleave:                             *)
(*                                                                         *)
(*   ctl  TankController on core 1: the control loop and readSensor;       *)
(*   svc  Services on core 0: the timer loop of PumpAutoSettingService;    *)
(*   net  async_tcp: the web socket commands of TankStatus::update and the *)
(*        POSTs of the start and stop points.                              *)
(*                                                                         *)
(* They share the global TANK_DETAILS object and the relay pin without any *)
(* lock, so a step is one access to shared memory: an `if (a && b && c)`   *)
(* is three steps, and forceStart() is seven.  An access to a variable     *)
(* that no other task writes is merged with its neighbour, and the level   *)
(* is read with what it is compared with or turned into.                   *)
(*                                                                         *)
(* Time is relative.  The code only ever uses differences of the unsigned  *)
(* millis() counter, so a stored timestamp x is kept as its age, that is   *)
(* (millis() - x) % MillisMod, and Tick makes every age one older.         *)
(***************************************************************************)
EXTENDS Integers, Sequences

CONSTANTS
  Readings,        \* water levels readSensor can produce from a valid frame
  Tank,            \* the 2000 of forceStart: levels below it count as "not full"
  FaultLevel,      \* the 3000 that readSensor stores while a sensor fault lasts
  Points,          \* pairs <<start, stop>> an operator can configure
  Commands,        \* records [run, automatic] a web socket client can send
  Timers,          \* TRUE iff some auto-start timing is enabled
  FULL_TANK_TIME,  \* seconds
  MinRun,          \* the 120 of forceStart, in seconds
  Second,          \* clock ticks per second: the 1000 of the code
  MillisMod,       \* range of unsigned long
  MaxLag           \* ticks one iteration of TankController may take

ASSUME LevelAssumption ==
  /\ Tank \in Nat \ {0} /\ FaultLevel \in Tank .. 2 * Tank - 1
  /\ Readings \subseteq 0 .. Tank - 1
  /\ Points \subseteq Nat \X Nat /\ Points # {}
  /\ Commands \subseteq [run : BOOLEAN, automatic : BOOLEAN]
  /\ Timers \in BOOLEAN

ASSUME TimeAssumption ==
  /\ FULL_TANK_TIME \in Nat /\ MinRun \in Nat \ {0} /\ MinRun <= FULL_TANK_TIME
  /\ Second \in Nat \ {0} /\ MaxLag \in Nat \ {0}
  /\ MillisMod \in Nat /\ MillisMod > MaxLag /\ MillisMod > (FULL_TANK_TIME + 1) * Second

RUN_DELAY_SS == Second

Task   == {"ctl", "svc", "net"}
Levels == Readings \cup {0, FaultLevel}
Age    == 0 .. MillisMod - 1

VARIABLES
  level, fault_relay, fault_sensor, fault_wire, ground_reserve,
  automatic, pump_running, run_till,
  relay,         \* the level of RELAY_PIN, TRUE for HIGH
  start_p, stop_p,
  sinceAge,      \* age of tank.running_since
  lastAge,       \* age of _last_millis
  cmAge,         \* age of currentMillis, a local of loop()
  lag,           \* ticks since TankController began its iteration
  pc,            \* where each task is
  k,             \* the next conjunct of the guard the task evaluates
  ret,           \* where start(), stop() and forceStop() return to
  held,          \* what the task has read and not used yet, in seconds
  raced          \* history: did the last writes of the relay overlap?

sensorVars == <<level, fault_sensor, fault_wire>>
latchVars  == <<fault_relay, ground_reserve>>
pumpVars   == <<relay, pump_running, run_till, sinceAge, raced>>
confVars   == <<automatic, start_p, stop_p>>
timeVars   == <<lastAge, cmAge, lag>>
flow       == <<pc, k, ret, held>>
vars == <<sensorVars, latchVars, pumpVars, confVars, timeVars, flow>>

Fault == fault_relay \/ fault_sensor \/ fault_wire

Elapsed(age) == (age - cmAge) % MillisMod   \* currentMillis - x, unsigned

-----------------------------------------------------------------------------
Init ==
  /\ level = 0
  /\ fault_relay = FALSE /\ fault_sensor = FALSE /\ fault_wire = FALSE
  /\ ground_reserve = TRUE /\ automatic = TRUE
  /\ pump_running = FALSE /\ relay = FALSE /\ run_till = 0
  /\ \E p \in Points : start_p = p[1] /\ stop_p = p[2]
  /\ lastAge \in 0 .. RUN_DELAY_SS /\ sinceAge = lastAge
  /\ cmAge = 0 /\ lag = 0
  /\ pc = [t \in Task |-> IF t = "ctl" THEN "poll" ELSE "idle"]
  /\ k = [t \in Task |-> 1]
  /\ ret = [t \in Task |-> CASE t = "ctl" -> "sense" [] t = "svc" -> "walk" [] OTHER -> "idle"]
  /\ held = [t \in Task |-> 0]
  /\ raced = FALSE

Goto(t, from, to) == pc[t] = from /\ pc' = [pc EXCEPT ![t] = to]

-----------------------------------------------------------------------------
(* start(), which every task may call, and the test that precedes it in    *)
(* the timer loop, whose only shared variable is the first conjunct.       *)
(* Conjunct i is read in one step; a false one ends the call.              *)

Guard ==
  <<~pump_running,
    level < stop_p, ~pump_running, ground_reserve,
    ~fault_relay, ~fault_sensor, ~fault_wire>>
StartGuard == 2        \* the first conjunct of start()
GuardEnd   == 7        \* its last one

GuardFails(t) ==
  /\ Goto(t, "guard", ret[t])
  /\ ~Guard[k[t]]
  /\ k' = [k EXCEPT ![t] = 1]
  /\ UNCHANGED <<sensorVars, latchVars, pumpVars, confVars, timeVars, ret, held>>

GuardHolds(t) ==
  /\ pc[t] = "guard"
  /\ Guard[k[t]]
  /\ \/ k[t] < GuardEnd /\ k' = [k EXCEPT ![t] = k[t] + 1] /\ UNCHANGED pc
     \/ k[t] = GuardEnd /\ k' = [k EXCEPT ![t] = 1] /\ Goto(t, "guard", "on")
  /\ UNCHANGED <<sensorVars, latchVars, pumpVars, confVars, timeVars, ret, held>>

(* A task is writing while the relay and pump_running are out of step      *)
(* because of it: between its first and its last write.                    *)
Writing(t) == pc[t] \in {"since", "till", "check", "minrun", "add", "running", "mark"}
Overlap(t) == \E u \in Task \ {t} : Writing(u)

(* forceStart() *)
RelayOn(t) ==
  /\ Goto(t, "on", "since")
  /\ relay' = TRUE
  /\ raced' = Overlap(t)
  /\ UNCHANGED <<sensorVars, latchVars, pump_running, run_till, sinceAge,
                 confVars, timeVars, k, ret, held>>

RunningSince(t) ==
  /\ Goto(t, "since", "till")
  /\ sinceAge' = 0
  /\ UNCHANGED <<sensorVars, latchVars, relay, pump_running, run_till, raced,
                 confVars, timeVars, k, ret, held>>

(* Integer division: a level below Tank gives the whole FULL_TANK_TIME.  *)
RunTill(t) ==
  /\ Goto(t, "till", "check")
  /\ run_till' = FULL_TANK_TIME * (1 - level \div Tank)
  /\ UNCHANGED <<sensorVars, latchVars, relay, pump_running, sinceAge, raced,
                 confVars, timeVars, k, ret, held>>

(* run_till is read again for the comparison, and again for the addition:  *)
(* starts that overlap can add up, in an unsigned long as millis() is.     *)
CheckRunTill(t) ==
  /\ Goto(t, "check", IF run_till <= MinRun THEN "minrun" ELSE "running")
  /\ UNCHANGED <<sensorVars, latchVars, pumpVars, confVars, timeVars, k, ret, held>>

ReadRunTill(t) ==
  /\ Goto(t, "minrun", "add")
  /\ held' = [held EXCEPT ![t] = run_till]
  /\ UNCHANGED <<sensorVars, latchVars, pumpVars, confVars, timeVars, k, ret>>

RunAtLeast(t) ==
  /\ Goto(t, "add", "running")
  /\ run_till' = (held[t] + MinRun) % MillisMod
  /\ held' = [held EXCEPT ![t] = 0]
  /\ UNCHANGED <<sensorVars, latchVars, relay, pump_running, sinceAge, raced,
                 confVars, timeVars, k, ret>>

MarkRunning(t) ==
  /\ Goto(t, "running", ret[t])
  /\ pump_running' = TRUE
  /\ UNCHANGED <<sensorVars, latchVars, relay, run_till, sinceAge, raced,
                 confVars, timeVars, k, ret, held>>

(* Mutants of RelayOff: the flag forgotten, and the pin inverted.          *)
RelayOffOnly(t) ==
  /\ Goto(t, "off", ret[t])
  /\ relay' = FALSE
  /\ raced' = Overlap(t)
  /\ UNCHANGED <<sensorVars, latchVars, pump_running, run_till, sinceAge,
                 confVars, timeVars, k, ret, held>>

RelayOffInverted(t) ==
  /\ Goto(t, "off", "mark")
  /\ relay' = TRUE
  /\ raced' = Overlap(t)
  /\ UNCHANGED <<sensorVars, latchVars, pump_running, run_till, sinceAge,
                 confVars, timeVars, k, ret, held>>

(* forceStop(), and the same two writes in stop() and in loop() *)
RelayOff(t) ==
  /\ Goto(t, "off", "mark")
  /\ relay' = FALSE
  /\ raced' = Overlap(t)
  /\ UNCHANGED <<sensorVars, latchVars, pump_running, run_till, sinceAge,
                 confVars, timeVars, k, ret, held>>

MarkStopped(t) ==
  /\ Goto(t, "mark", ret[t])
  /\ pump_running' = FALSE
  /\ UNCHANGED <<sensorVars, latchVars, relay, run_till, sinceAge, raced,
                 confVars, timeVars, k, ret, held>>

Pump(t) ==
  \/ GuardFails(t) \/ GuardHolds(t)
  \/ RelayOn(t) \/ RunningSince(t) \/ RunTill(t) \/ CheckRunTill(t) \/ ReadRunTill(t)
  \/ RunAtLeast(t) \/ MarkRunning(t)
  \/ RelayOff(t) \/ MarkStopped(t)

-----------------------------------------------------------------------------
(* The control loop.  Call(t, to, r) enters a routine that returns to r.   *)

Call(t, to, r) ==
  /\ pc' = [pc EXCEPT ![t] = to]
  /\ ret' = [ret EXCEPT ![t] = r]
  /\ k' = [k EXCEPT ![t] = IF to = "guard" THEN StartGuard ELSE 1]

(* while (1) { if (tank.automatic) loop(); readSensor(); } *)
Poll ==
  /\ Goto("ctl", "poll", IF automatic THEN "enter" ELSE "sense")
  /\ lag' = 0
  /\ UNCHANGED <<sensorVars, latchVars, pumpVars, confVars, lastAge, cmAge, k, ret, held>>

EnterLocked ==
  /\ pc["ctl"] = "enter" /\ ~ground_reserve
  /\ Call("ctl", "off", "sense")
  /\ UNCHANGED <<sensorVars, latchVars, pumpVars, confVars, timeVars, held>>

ReadMillis ==
  /\ pc["ctl"] = "enter" /\ ground_reserve
  /\ pc' = [pc EXCEPT !["ctl"] =
              IF lastAge >= RUN_DELAY_SS THEN "body" ELSE "sense"]
  /\ UNCHANGED <<sensorVars, latchVars, pumpVars, confVars, timeVars, k, ret, held>>

(* Mutant: stop(), which does nothing when pump_running is false, in place *)
(* of forceStop().                                                         *)
BodyFaultStop ==
  /\ pc["ctl"] = "body" /\ Fault
  /\ IF pump_running
       THEN Call("ctl", "off", "over")
       ELSE pc' = [pc EXCEPT !["ctl"] = "over"] /\ UNCHANGED <<k, ret>>
  /\ UNCHANGED <<sensorVars, latchVars, pumpVars, confVars, timeVars, held>>

BodyFault ==
  /\ pc["ctl"] = "body" /\ Fault
  /\ Call("ctl", "off", "over")
  /\ UNCHANGED <<sensorVars, latchVars, pumpVars, confVars, timeVars, held>>

BodyRunning ==
  /\ pc["ctl"] = "body" /\ ~Fault
  /\ pc' = [pc EXCEPT !["ctl"] = IF pump_running THEN "full" ELSE "low"]
  /\ UNCHANGED <<sensorVars, latchVars, pumpVars, confVars, timeVars, k, ret, held>>

(* Reaching the stop point stops the pump and goes on to the time limit.  *)
StopIfFull ==
  /\ pc["ctl"] = "full"
  /\ IF level >= stop_p
       THEN Call("ctl", "off", "limit")
       ELSE pc' = [pc EXCEPT !["ctl"] = "limit"] /\ UNCHANGED <<k, ret>>
  /\ UNCHANGED <<sensorVars, latchVars, pumpVars, confVars, timeVars, held>>

(* Mutant: milliseconds compared with seconds.                             *)
RunSecondsUnscaled == Elapsed(sinceAge)

RunSeconds == Elapsed(sinceAge) \div Second

ReadElapsed ==
  /\ Goto("ctl", "limit", "compare")
  /\ held' = [held EXCEPT !["ctl"] = RunSeconds]
  /\ UNCHANGED <<sensorVars, latchVars, pumpVars, confVars, timeVars, k, ret>>

(* Mutant: an off-by-one.                                                  *)
OverTimeStrict == held["ctl"] > run_till

OverTime == held["ctl"] >= run_till

TimeLimit ==
  /\ pc["ctl"] = "compare"
  /\ IF OverTime
       THEN Call("ctl", "off", "reserve")
       ELSE pc' = [pc EXCEPT !["ctl"] = "over"] /\ UNCHANGED <<k, ret>>
  /\ held' = [held EXCEPT !["ctl"] = 0]
  /\ UNCHANGED <<sensorVars, latchVars, pumpVars, confVars, timeVars>>

LatchReserve ==
  /\ Goto("ctl", "reserve", "latch")
  /\ ground_reserve' = (ground_reserve /\ level > stop_p)
  /\ UNCHANGED <<sensorVars, fault_relay, pumpVars, confVars, timeVars, k, ret, held>>

LatchRelayFault ==
  /\ Goto("ctl", "latch", "over")
  /\ fault_relay' = TRUE
  /\ UNCHANGED <<sensorVars, ground_reserve, pumpVars, confVars, timeVars, k, ret, held>>

(* Mutants: the wrong point, and an off-by-one at the start point.         *)
StartBelowStop ==
  /\ pc["ctl"] = "low"
  /\ IF level <= stop_p
       THEN Call("ctl", "guard", "sense")
       ELSE pc' = [pc EXCEPT !["ctl"] = "over"] /\ UNCHANGED <<k, ret>>
  /\ UNCHANGED <<sensorVars, latchVars, pumpVars, confVars, timeVars, held>>

StartBelowStart ==
  /\ pc["ctl"] = "low"
  /\ IF level < start_p
       THEN Call("ctl", "guard", "sense")
       ELSE pc' = [pc EXCEPT !["ctl"] = "over"] /\ UNCHANGED <<k, ret>>
  /\ UNCHANGED <<sensorVars, latchVars, pumpVars, confVars, timeVars, held>>

(* start(); return -- without touching _last_millis *)
StartIfLow ==
  /\ pc["ctl"] = "low"
  /\ IF level <= start_p
       THEN Call("ctl", "guard", "sense")
       ELSE pc' = [pc EXCEPT !["ctl"] = "over"] /\ UNCHANGED <<k, ret>>
  /\ UNCHANGED <<sensorVars, latchVars, pumpVars, confVars, timeVars, held>>

LoopOver ==
  /\ Goto("ctl", "over", "sense")
  /\ lastAge' = cmAge
  /\ ret' = [ret EXCEPT !["ctl"] = "sense"]
  /\ UNCHANGED <<sensorVars, latchVars, pumpVars, confVars, cmAge, lag, k, held>>

(* readSensor(): nothing to read, a good frame, a bad one, or a second of  *)
(* silence.  The level is stored before the fault flags.                   *)
NoReading ==
  /\ Goto("ctl", "sense", "poll")
  /\ cmAge' = 0
  /\ UNCHANGED <<sensorVars, latchVars, pumpVars, confVars, lastAge, lag, k, ret, held>>

ReadSensor(reading, next) ==
  /\ Goto("ctl", "sense", next)
  /\ level' = reading
  /\ cmAge' = 0
  /\ UNCHANGED <<fault_sensor, fault_wire, latchVars, pumpVars, confVars,
                 lastAge, lag, k, ret, held>>

(* Mutant: a bad frame keeps the distance it was decoded to.               *)
BadFrameKept == ReadSensor(2 * Tank, "bad")

GoodFrame == \E r \in Readings : ReadSensor(r, "good")
BadFrame  == ReadSensor(FaultLevel, "bad")
Silence   == ~fault_wire /\ ReadSensor(FaultLevel, "cut")

MarkSensor ==
  /\ \/ Goto("ctl", "good", "seen") /\ fault_sensor' = FALSE
     \/ Goto("ctl", "bad", "seen")  /\ fault_sensor' = TRUE
  /\ UNCHANGED <<level, fault_wire, latchVars, pumpVars, confVars, timeVars, k, ret, held>>

MarkWire ==
  /\ \/ Goto("ctl", "seen", "poll") /\ fault_wire' = FALSE
     \/ Goto("ctl", "cut", "poll")  /\ fault_wire' = TRUE
  /\ UNCHANGED <<level, fault_sensor, latchVars, pumpVars, confVars, timeVars, k, ret, held>>

TankController ==
  \/ Pump("ctl")
  \/ Poll \/ EnterLocked \/ ReadMillis \/ BodyFault \/ BodyRunning
  \/ StopIfFull \/ ReadElapsed \/ TimeLimit \/ LatchReserve \/ LatchRelayFault
  \/ StartIfLow \/ LoopOver
  \/ NoReading \/ GoodFrame \/ BadFrame \/ Silence \/ MarkSensor \/ MarkWire

-----------------------------------------------------------------------------
(* The other two tasks.                                                    *)

(* PumpAutoSettingService::loop reads the faults once, flag by flag, and   *)
(* then walks through the timings.                                         *)
NoFault == <<~fault_relay, ~fault_sensor, ~fault_wire>>

TimerDue ==
  /\ Timers
  /\ Goto("svc", "idle", "due")
  /\ UNCHANGED <<sensorVars, latchVars, pumpVars, confVars, timeVars, k, ret, held>>

FaultSeen ==
  /\ Goto("svc", "due", "idle")
  /\ ~NoFault[k["svc"]]
  /\ k' = [k EXCEPT !["svc"] = 1]
  /\ UNCHANGED <<sensorVars, latchVars, pumpVars, confVars, timeVars, ret, held>>

NoFaultSeen ==
  /\ pc["svc"] = "due"
  /\ NoFault[k["svc"]]
  /\ \/ k["svc"] < 3 /\ k' = [k EXCEPT !["svc"] = @ + 1] /\ UNCHANGED pc
     \/ k["svc"] = 3 /\ k' = [k EXCEPT !["svc"] = 1] /\ Goto("svc", "due", "walk")
  /\ UNCHANGED <<sensorVars, latchVars, pumpVars, confVars, timeVars, ret, held>>

(* The day, the hour and the minute of the next timing match, or there is  *)
(* no such timing any more.                                                *)
NextTiming ==
  /\ Goto("svc", "walk", "guard")
  /\ UNCHANGED <<sensorVars, latchVars, pumpVars, confVars, timeVars, k, ret, held>>

TimingsOver ==
  /\ Goto("svc", "walk", "idle")
  /\ UNCHANGED <<sensorVars, latchVars, pumpVars, confVars, timeVars, k, ret, held>>

Services == Pump("svc") \/ TimerDue \/ FaultSeen \/ NoFaultSeen \/ NextTiming \/ TimingsOver

(* TankStatus::update: a change of `automatic` hides the rest of the record. *)
SetAutomatic(c) ==
  /\ pc["net"] = "idle"
  /\ c.automatic # automatic
  /\ automatic' = c.automatic
  /\ UNCHANGED <<sensorVars, latchVars, pumpVars, start_p, stop_p, timeVars, flow>>

SetRun(c) ==
  /\ pc["net"] = "idle"
  /\ c.automatic = automatic /\ c.run # pump_running
  /\ \/ automatic /\ c.run   /\ Call("net", "guard", "idle")
     \/ automatic /\ ~c.run  /\ Call("net", "stop", "idle")
     \/ ~automatic /\ c.run  /\ Call("net", "on", "idle")
     \/ ~automatic /\ ~c.run /\ Call("net", "off", "idle")
  /\ UNCHANGED <<sensorVars, latchVars, pumpVars, confVars, timeVars, held>>

(* stop() reads pump_running once more before it writes *)
StopIfRunning ==
  /\ Goto("net", "stop", IF pump_running THEN "off" ELSE "idle")
  /\ UNCHANGED <<sensorVars, latchVars, pumpVars, confVars, timeVars, k, ret, held>>

(* StartStopPoints::update stores the start point, then the stop point.  *)
PostStart ==
  /\ Goto("net", "idle", "post")
  /\ \E p \in Points : start_p' = p[1]
  /\ UNCHANGED <<sensorVars, latchVars, pumpVars, automatic, stop_p, timeVars, k, ret, held>>

PostStop ==
  /\ Goto("net", "post", "idle")
  /\ \E p \in Points : p[1] = start_p /\ stop_p' = p[2]
  /\ UNCHANGED <<sensorVars, latchVars, pumpVars, automatic, start_p, timeVars, k, ret, held>>

AsyncTcp ==
  \/ Pump("net")
  \/ \E c \in Commands : SetAutomatic(c) \/ SetRun(c)
  \/ StopIfRunning \/ PostStart \/ PostStop

-----------------------------------------------------------------------------
(* The clock.  An iteration of TankController takes at most MaxLag ticks:  *)
(* it has core 1 to itself but for the idle Arduino loop, and waits for    *)
(* nothing but the rest of a frame, a second at most.                      *)
InLoop == pc["ctl"] \notin {"poll", "enter", "sense", "good", "bad", "seen", "cut"}

Tick ==
  /\ lag < MaxLag
  /\ lag' = lag + 1
  /\ sinceAge' = (sinceAge + 1) % MillisMod
  /\ lastAge' = (lastAge + 1) % MillisMod
  /\ cmAge' = IF InLoop THEN cmAge + 1 ELSE cmAge
  /\ UNCHANGED <<sensorVars, latchVars, relay, pump_running, run_till, raced,
                 confVars, flow>>

Next == TankController \/ Services \/ AsyncTcp \/ Tick

Spec == Init /\ [][Next]_vars

(* Each task is preempted but never starved, and the crystal ticks.        *)
(* Readings, commands and timers are the environment's: no fairness.       *)
Fairness ==
  /\ WF_vars(TankController)
  /\ WF_vars(Pump("svc") \/ FaultSeen \/ NoFaultSeen)
  /\ WF_vars(Pump("net") \/ StopIfRunning \/ PostStop)
  /\ WF_vars(Tick)

FairSpec == Spec /\ Fairness

-----------------------------------------------------------------------------
(* Properties.                                                             *)

CtlLabels == {"poll", "enter", "body", "full", "limit", "compare", "reserve", "latch",
              "low", "over", "sense", "good", "bad", "seen", "cut"}
PumpLabels == {"guard", "on", "since", "till", "check", "minrun", "add", "running", "off", "mark"}
SvcLabels == {"idle", "due", "walk"}
NetLabels == {"idle", "stop", "post"}

(* Type correctness of every variable, and of the return labels.           *)
TypeOK ==
  /\ level \in Levels
  /\ fault_relay \in BOOLEAN /\ fault_sensor \in BOOLEAN /\ fault_wire \in BOOLEAN
  /\ ground_reserve \in BOOLEAN /\ automatic \in BOOLEAN
  /\ pump_running \in BOOLEAN /\ relay \in BOOLEAN /\ raced \in BOOLEAN
  /\ run_till \in Nat /\ start_p \in Nat /\ stop_p \in Nat
  /\ sinceAge \in Age /\ lastAge \in Age
  /\ lag \in 0 .. MaxLag /\ cmAge \in 0 .. lag
  /\ pc \in [Task -> CtlLabels \cup PumpLabels \cup SvcLabels \cup NetLabels]
  /\ k \in [Task -> 1 .. GuardEnd]
  /\ ret \in [Task -> {"sense", "over", "limit", "reserve", "walk", "idle"}]
  /\ held \in [Task -> Nat]

(* The relay and pump_running agree whenever no task is between its first  *)
(* and its last write, unless the last writes of two tasks overlapped: the *)
(* controller and the web page then know what the pump really does.        *)
Agreement ==
  (\A t \in Task : ~Writing(t)) /\ ~raced => relay = pump_running

(* While nobody has switched to manual, a pump that is on is switched off  *)
(* once its time, one period of the loop and the lag of two iterations     *)
(* have passed, whatever the sensor says.                                  *)
RunLimit == FULL_TANK_TIME * Second + RUN_DELAY_SS + 2 * (MaxLag - 1)
RunBound ==
  (\A t \in Task : ~Writing(t)) /\ ~raced /\ relay => sinceAge <= RunLimit

(* loop() gives a pump up as running dry only when it really has been on   *)
(* for run_till seconds, the unit of FULL_TANK_TIME.                       *)
TripJustified ==
  [][pc["ctl"] = "compare" /\ pc'["ctl"] = "off" => sinceAge \div Second >= run_till]_vars

(* A fault that lasts in automatic mode ends with the relay off for good,  *)
(* even when a start() that had passed the guard was in flight.            *)
FaultStops == <>[](automatic /\ Fault) => <>[]~relay

(* A tank that stays full in automatic mode ends with the relay off, as    *)
(* long as the writes of the relay do not overlap again and again.         *)
FullStops == <>[](automatic /\ level >= stop_p /\ ~raced) => <>[]~relay

(* A low tank without faults gets its pump switched on in automatic mode.  *)
MayFill == automatic /\ level <= start_p /\ level < stop_p /\ ground_reserve /\ ~Fault
LowStarts == MayFill ~> (relay \/ ~MayFill)
=============================================================================
