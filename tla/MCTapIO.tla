------------------------------ MODULE MCTapIO ------------------------------
(* Two producers, as on the shell's stdin (client tap and watchdog).       *)
EXTENDS TapIO
=============================================================================
