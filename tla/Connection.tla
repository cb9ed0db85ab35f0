----------------------------- MODULE Connection -----------------------------
(***************************************************************************)
(* What a connection is to the server that has accepted it: it waits for   *)
(* its thread, may log in, may have a session, and is over once its thread *)
(* has ended.  Commands are run and output is sent in a session only,      *)
(* never once it is over, although the taps may outlive the thread.        *)
(* Session implements this specification; every connection of TcpServer    *)
(* behaves as it says.                                                     *)
(***************************************************************************)

VARIABLES phase,   \* "waiting", "login", "session" or "done"
          traffic  \* what has been run for the client and sent to it

vars == <<phase, traffic>>

(* The connection arrives, or is looked at from the start of its thread.   *)
Init == phase \in {"waiting", "login"}

(* Over SSH there may be no login.                                         *)
Begin == /\ phase = "waiting"
         /\ phase' \in {"login", "session"}
         /\ UNCHANGED traffic

LogIn == /\ phase = "login"
         /\ phase' = "session"
         /\ UNCHANGED traffic

Talk == /\ phase = "session"
        /\ UNCHANGED phase
        /\ traffic' # traffic

(* Also of one that was never accepted, or whose thread did not start.     *)
End == /\ phase # "done"
       /\ phase' = "done"
       /\ UNCHANGED traffic

Next == Begin \/ LogIn \/ Talk \/ End

Spec == Init /\ [][Next]_vars
=============================================================================
