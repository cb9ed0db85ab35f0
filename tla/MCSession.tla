----------------------------- MODULE MCSession -----------------------------
(* One connection with a client that sends every sequence of at most       *)
(* MaxBytes bytes and disconnects at any point; the server stops at any    *)
(* point.                                                                  *)
EXTENDS Session
=============================================================================
