-------------------------- MODULE MCPumpStartStop --------------------------
(* Small instances of PumpStartStop.  Levels are 0 (empty), 1 (low), 2     *)
(* (between the points), 3 (full, not reached by the sensor at its top)    *)
(* and 5 (the level stored during a sensor fault).                         *)
EXTENDS PumpRefinement

LowMidHigh == {1, 2, 3}
JustLow    == {1}
JustHigh   == {3}

LowPoint   == {<<1, 3>>}
EmptyPoint == {<<0, 3>>}

NoCommands  == {}
AutoOnly    == [run : BOOLEAN, automatic : {TRUE}]
AllCommands == [run : BOOLEAN, automatic : BOOLEAN]
=============================================================================
