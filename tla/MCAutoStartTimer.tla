-------------------------- MODULE MCAutoStartTimer --------------------------
(* Two timings: one for the button of Mondays, and one that is switched    *)
(* off.                                                                    *)
EXTENDS AutoStartTimer

Monday == [slot |-> 1, days |-> {1}, on |-> TRUE]
Off    == [slot |-> 0, days |-> {1, 3}, on |-> FALSE]

TwoTimings == {Monday, Off}
=============================================================================
