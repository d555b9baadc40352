------------------------------ MODULE MCNetwork ------------------------------
EXTENDS Network

(* The network of before and the network of after a change.                *)
TwoNetworks == {"home", "guest"}
=============================================================================
