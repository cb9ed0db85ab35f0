------------------------------ MODULE MCFleet ------------------------------
(* Two hosts and calls for both or for the first, with a thread for each   *)
(* host or one for both: every sequence of up to MaxCalls calls, with      *)
(* every server that does or does not start.                               *)
EXTENDS Fleet

CONSTANTS h1, h2
BothOrFirst == {{h1, h2}, {h1}}
=============================================================================
