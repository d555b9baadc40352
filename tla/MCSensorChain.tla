---------------------------- MODULE MCSensorChain ----------------------------
(* Real bytes: 700 mm, and 511 mm, whose low byte is a mark and whose sum  *)
(* does not fit in a byte.  A frame that is never completed is filled with *)
(* bytes of the stack that make it bad, or, by luck, 700 mm.               *)
EXTENDS SensorChain

TankDistances == {<<2, 188>>, <<1, 255>>}
SomeStack     == {0, 190}
AnyDistance   == 0 .. Base * Base
=============================================================================
