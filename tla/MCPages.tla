------------------------------- MODULE MCPages -------------------------------
EXTENDS Pages

(* Three positions of the slider.                                          *)
ThreePositions == 0..2
=============================================================================
