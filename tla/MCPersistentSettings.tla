------------------------ MODULE MCPersistentSettings ------------------------
(* Two services; values a and b are what the defaults may come out as, c   *)
(* is a value only an operator can have set.                               *)
EXTENDS PersistentSettings

CONSTANTS points, light, a, b, c

TwoServices == {points, light}
ThreeValues == {a, b, c}
TwoDefaults == {a, b}
LightOnly   == {light}
=============================================================================
