------------------------------- MODULE Server -------------------------------
(***************************************************************************)
(* What a server promises the Host that owns it, and all that Host.start() *)
(* and Host.stop() rely on: it comes up or its start fails, it is stopped  *)
(* once and is down then for ever, and it holds its port while it is up,   *)
(* never once it is down or its start has failed.  TcpServer implements    *)
(* this specification; every server of Fleet behaves as it says.           *)
(***************************************************************************)

VARIABLES state,  \* "new", "up", "stopping" or "down"
          port    \* it holds its socket

vars == <<state, port>>

Init == state = "new" /\ port = FALSE

(* Inside start(): the socket is there before the server is.               *)
Bind == /\ state = "new" /\ ~port
        /\ port' = TRUE
        /\ UNCHANGED state

(* start() returns.                                                        *)
Serve == /\ state = "new"
         /\ state' = "up" /\ port' = TRUE

(* start() raises.  Whether it may be called again is for the owner to     *)
(* say: Host never does, and makes another server.                         *)
Fail == /\ state = "new"
        /\ state' \in {"new", "down"} /\ port' = FALSE

(* stop() begins and returns.                                              *)
Halt == /\ state = "up"
        /\ state' = "stopping"
        /\ UNCHANGED port

Halted == /\ state = "stopping"
          /\ state' = "down" /\ port' = FALSE

Next == Bind \/ Serve \/ Fail \/ Halt \/ Halted

Spec == Init /\ [][Next]_vars
=============================================================================
