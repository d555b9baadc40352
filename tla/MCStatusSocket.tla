---------------------------- MODULE MCStatusSocket ----------------------------
(* One browser; to its page the command of another one is a change of the  *)
(* tank and a payload that is not its own, like those of Control.          *)
EXTENDS StatusSocket

CONSTANT anna

OneClient == {anna}
=============================================================================
