------------------------------ MODULE MCSession ------------------------------
EXTENDS Session

(* A user and another.                                                     *)
TwoNames == {"ann", "bob"}
=============================================================================
