----------------------------- MODULE TcpServer -----------------------------
(***************************************************************************)
(* TCPServerBase (core/servers.py): the thread that calls start() and      *)
(* stop(), the listener thread, and one thread per connection.             *)
(*                                                                         *)
(* A connection thread is reduced to whether it looks at is_running: in    *)
(* its login it does not, in its session it does and then ends.  Session   *)
(* checks both of that (SessionEnds).                                      *)
(* A server is started until that succeeds once and stopped once: Host     *)
(* makes a new server for every start and drops the one it has stopped.    *)
(***************************************************************************)
EXTENDS FiniteSets

CONSTANTS Clients,  \* the clients that may connect, once each
          None      \* no client

ASSUME NoneAssumption == None \notin Clients

VARIABLES
  is_running,   \* the event of that name
  sock,         \* the listening socket: "none", "open" or "listening"
  selector,     \* the selector and the wakeup socket pair exist
  wakeup,       \* stop() has written to the wakeup socket
  caller,       \* where the thread that starts and stops the server is
  late,         \* history: stop() gave up waiting for the listener
  joining,      \* connections whose threads stop() has yet to join
  alive,        \* connections whose threads stop() found alive and left alone
  listener,     \* where the listener thread is
  client,       \* the connection the listener has accepted
  tracked,      \* _connection_threads
  conn          \* the state of each client's connection

vars == <<is_running, sock, selector, wakeup, caller, late, joining, alive,
          listener, client, tracked, conn>>
resources == <<sock, selector, wakeup>>
stopVars == <<late, joining, alive>>
listenVars == <<listener, client, tracked>>

Phase == {"login", "session"}
live == {c \in Clients : conn[c] \in Phase}
ListenerOver == listener \in {"done", "crashed"}
queued == {c \in Clients : conn[c] = "queued"}

TypeOK ==
  /\ is_running \in BOOLEAN /\ selector \in BOOLEAN /\ wakeup \in BOOLEAN
  /\ late \in BOOLEAN
  /\ sock \in {"none", "open", "listening"}
  /\ caller \in {"idle", "bind", "select", "spawn", "failed", "raise", "serving",
                 "wake", "joinListener", "joinConns", "cleanup", "stopped"}
  /\ joining \subseteq Clients /\ alive \subseteq Clients
  /\ listener \in {"none", "loop", "select", "accept", "start", "append",
                   "prune", "done", "crashed"}
  /\ client \in Clients \cup {None}
  /\ tracked \subseteq Clients
  /\ conn \in [Clients -> Phase \cup {"new", "queued", "accepted", "done"}]

Init ==
  /\ is_running = FALSE
  /\ sock = "none" /\ selector = FALSE /\ wakeup = FALSE
  /\ caller = "idle" /\ late = FALSE /\ joining = {} /\ alive = {}
  /\ listener = "none" /\ client = None /\ tracked = {}
  /\ conn = [c \in Clients |-> "new"]

-----------------------------------------------------------------------------
(* start()                                                                 *)

Start ==
  /\ caller = "idle"
  /\ is_running' = TRUE
  /\ caller' = "bind"
  /\ UNCHANGED <<resources, stopVars, listenVars, conn>>

(* A port that is taken makes bind() raise after the socket was made.      *)
BindSockets ==
  /\ caller = "bind"
  /\ \/ sock' = "listening" /\ caller' = "select"
     \/ sock' = "open" /\ caller' = "failed"
  /\ UNCHANGED <<is_running, selector, wakeup, stopVars, listenVars, conn>>

OpenSelector ==
  /\ caller = "select"
  /\ selector' = TRUE
  /\ caller' \in {"spawn", "failed"}
  /\ UNCHANGED <<is_running, sock, wakeup, stopVars, listenVars, conn>>

SpawnListener ==
  /\ caller = "spawn"
  /\ \/ listener' = "loop" /\ caller' = "serving"
     \/ caller' = "failed" /\ UNCHANGED listener
  /\ UNCHANGED <<is_running, resources, stopVars, client, tracked, conn>>

(* _cleanup_resources(): the connections nobody accepted are reset.        *)
CleanupResources ==
  /\ sock' = "none"
  /\ selector' = FALSE
  /\ conn' = [c \in Clients |-> IF c \in queued THEN "done" ELSE conn[c]]

(* Mutant: the socket is left to the garbage collector.                    *)
StartFailsOpen ==
  /\ caller = "failed"
  /\ caller' = "raise"
  /\ UNCHANGED <<is_running, resources, conn, stopVars, listenVars>>

StartFails ==
  /\ caller = "failed"
  /\ CleanupResources
  /\ caller' = "raise"
  /\ UNCHANGED <<is_running, wakeup, stopVars, listenVars>>

StartRaises ==
  /\ caller = "raise"
  /\ is_running' = FALSE
  /\ caller' = "idle"
  /\ UNCHANGED <<resources, stopVars, listenVars, conn>>

-----------------------------------------------------------------------------
(* stop()                                                                  *)

Stop ==
  /\ caller = "serving"
  /\ is_running' = FALSE
  /\ caller' = "wake"
  /\ UNCHANGED <<resources, stopVars, listenVars, conn>>

(* Mutant: nothing is written to the wakeup socket.                        *)
StopSilently ==
  /\ caller = "wake"
  /\ caller' = "joinListener"
  /\ UNCHANGED <<is_running, resources, stopVars, listenVars, conn>>

(* The write to the wakeup socket may fail; the error is suppressed.       *)
StopWakes ==
  /\ caller = "wake"
  /\ wakeup' \in BOOLEAN
  /\ caller' = "joinListener"
  /\ UNCHANGED <<is_running, sock, selector, stopVars, listenVars, conn>>

(* The join of the listener has a timeout.                                 *)
StopJoinsListener ==
  /\ caller = "joinListener"
  /\ late' = ~ListenerOver
  /\ joining' = tracked
  /\ caller' = "joinConns"
  /\ UNCHANGED <<is_running, resources, alive, listenVars, conn>>

(* Mutants of join_threads_with_deadline: a join without timeout; a thread *)
(* that was not joined in time is forgotten.                               *)
JoinForever ==
  /\ caller = "joinConns"
  /\ \E c \in joining : /\ c \notin live
                        /\ joining' = joining \ {c}
  /\ UNCHANGED <<is_running, resources, caller, late, alive, listenVars, conn>>

JoinForgets ==
  /\ caller = "joinConns"
  /\ \E c \in joining : joining' = joining \ {c}
  /\ UNCHANGED <<is_running, resources, caller, late, alive, listenVars, conn>>

(* join_threads_with_deadline(): each thread is joined until it ends or a  *)
(* timeout or the deadline passes, and then looked at.                     *)
StopJoinsConnection ==
  /\ caller = "joinConns"
  /\ \E c \in joining : /\ joining' = joining \ {c}
                        /\ alive' = alive \cup ({c} \cap live)
  /\ UNCHANGED <<is_running, resources, caller, late, listenVars, conn>>

StopJoined ==
  /\ caller = "joinConns"
  /\ joining = {}
  /\ caller' = "cleanup"
  /\ UNCHANGED <<is_running, resources, stopVars, listenVars, conn>>

StopCleansUp ==
  /\ caller = "cleanup"
  /\ CleanupResources
  /\ caller' = "stopped"
  /\ UNCHANGED <<is_running, wakeup, stopVars, listenVars>>

-----------------------------------------------------------------------------
(* _listen()                                                               *)

ListenLoop ==
  /\ listener = "loop"
  /\ listener' = IF is_running THEN "select" ELSE "done"
  /\ UNCHANGED <<is_running, resources, caller, stopVars, client, tracked, conn>>

(* select() and the look at what it returned: the wakeup comes first.      *)
ListenSelect ==
  /\ listener = "select"
  /\ \/ wakeup /\ listener' = "done"
     \/ ~wakeup /\ queued # {} /\ listener' = "accept"
  /\ UNCHANGED <<is_running, resources, caller, stopVars, client, tracked, conn>>

(* Mutant: an idle select() goes back to the loop without pruning.         *)
TimeoutSkipsPrune ==
  /\ listener = "select"
  /\ ~wakeup /\ queued = {}
  /\ listener' = "loop"
  /\ UNCHANGED <<is_running, resources, caller, stopVars, client, tracked, conn>>

(* Its timeout, a safety net: closing the selector under a select() that   *)
(* waits does not end it, and a select() on a closed selector raises.      *)
ListenSelectTimesOut ==
  /\ listener = "select"
  /\ ~wakeup /\ queued = {}
  /\ listener' \in {"prune"} \cup (IF selector THEN {} ELSE {"done"})
  /\ UNCHANGED <<is_running, resources, caller, stopVars, client, tracked, conn>>

ListenAccept ==
  /\ listener = "accept"
  /\ \E c \in queued : /\ conn' = [conn EXCEPT ![c] = "accepted"]
                       /\ client' = c
  /\ listener' = "start"
  /\ UNCHANGED <<is_running, resources, caller, stopVars, tracked>>

(* Mutant: an error of accept() ends the listener.                         *)
AcceptErrorEnds ==
  /\ listener = "accept"
  /\ listener' = "done"
  /\ UNCHANGED <<is_running, resources, caller, stopVars, client, tracked, conn>>

(* Mutants: after a failed accept() the listener goes on with whatever     *)
(* client it has; it tries again until accept() succeeds.                  *)
AcceptErrorIgnored ==
  /\ listener = "accept"
  /\ listener' = "start"
  /\ UNCHANGED <<is_running, resources, caller, stopVars, client, tracked, conn>>

AcceptRetries ==
  /\ listener = "accept"
  /\ queued = {}
  /\ UNCHANGED vars

(* accept() fails: the connection vanished, or no descriptor is left.  On  *)
(* a socket that stop() has already set to None the listener dies.         *)
ListenAcceptFails ==
  /\ listener = "accept"
  /\ listener' \in {"prune"} \cup (IF sock = "none" THEN {"done"} ELSE {})
  /\ UNCHANGED <<is_running, resources, caller, stopVars, client, tracked, conn>>

(* The exception of a thread that cannot be started ends the listener.     *)
ListenStart ==
  /\ listener = "start"
  /\ \/ /\ \E p \in Phase : conn' = [conn EXCEPT ![client] = p]
        /\ listener' = "append"
     \/ /\ conn' = [conn EXCEPT ![client] = "done"]
        /\ listener' = "crashed"
  /\ UNCHANGED <<is_running, resources, caller, stopVars, client, tracked>>

ListenAppend ==
  /\ listener = "append"
  /\ tracked' = tracked \cup {client}
  /\ listener' = "prune"
  /\ UNCHANGED <<is_running, resources, caller, stopVars, client, conn>>

ListenPrune ==
  /\ listener = "prune"
  /\ tracked' = tracked \cap live
  /\ listener' = "loop"
  /\ UNCHANGED <<is_running, resources, caller, stopVars, client, conn>>

Listener == \/ ListenLoop \/ ListenSelect \/ ListenSelectTimesOut \/ ListenAccept 
            \/ ListenAcceptFails \/ ListenStart \/ ListenAppend \/ ListenPrune

-----------------------------------------------------------------------------
(* The clients and the connection threads.                                 *)

Move(c, to) ==
  /\ conn' = [conn EXCEPT ![c] = to]
  /\ UNCHANGED <<is_running, resources, caller, stopVars, listenVars>>

Connect(c) == sock = "listening" /\ conn[c] = "new" /\ Move(c, "queued")

Login(c) == conn[c] = "login" /\ \E to \in {"session", "done"} : Move(c, to)

SessionEnds(c) == conn[c] = "session" /\ Move(c, "done")

-----------------------------------------------------------------------------
StartSteps == \/ BindSockets \/ OpenSelector \/ SpawnListener \/ StartFails
              \/ StartRaises

StopSteps == \/ StopWakes \/ StopJoinsListener \/ StopJoinsConnection \/ StopJoined
             \/ StopCleansUp

(* The server was stopped and no thread of it is left.                     *)
Rest == /\ caller = "stopped" /\ ListenerOver
        /\ \A c \in Clients : conn[c] \in {"new", "done"}
        /\ UNCHANGED vars

Next == \/ Start \/ StartSteps \/ Stop \/ StopSteps
        \/ Listener
        \/ \E c \in Clients : Connect(c) \/ Login(c) \/ SessionEnds(c)
        \/ Rest

Spec == Init /\ [][Next]_vars

(* Threads that can run do; a session ends once is_running is cleared; an  *)
(* error of accept() does not last for ever.  No client has to do anything *)
(* and nobody has to start or stop the server.  The timeout of select() is *)
(* left out: the properties that need it assume it.                        *)
ListenSteps == \/ ListenLoop \/ ListenSelect \/ ListenAccept \/ ListenAcceptFails
               \/ ListenStart \/ ListenAppend \/ ListenPrune

Fairness == /\ WF_vars(StartSteps) /\ WF_vars(StopSteps) /\ WF_vars(ListenSteps)
            /\ \A c \in Clients : WF_vars(~is_running /\ SessionEnds(c))
            /\ SF_vars(ListenAccept)

FairSpec == Spec /\ Fairness

Polling == WF_vars(ListenSelectTimesOut)
-----------------------------------------------------------------------------
(* A connection thread that runs can be joined: the list has it, or the    *)
(* listener is about to put it there; pruning never drops a live one.      *)
Tracked ==
  \A c \in live : c \in tracked \/ (listener = "append" /\ client = c)

(* What stop() leaves running it has reported: no connection slipped in    *)
(* between the flag, the wakeup and the joins.                             *)
StopAccounts == caller = "stopped" /\ ~late => live \subseteq alive

(* After stop(), or a start() that raised, the port is free, nothing is    *)
(* open and no client waits in a queue nobody will serve.                  *)
Released ==
  caller \in {"idle", "raise", "stopped"} =>
    sock = "none" /\ ~selector /\ queued = {}

(* Once stop() has returned no connection is served any more.              *)
NoneServedAfterStop == [][caller = "stopped" /\ ~late => live' \subseteq live]_vars

(* servers.py:182: the wakeup socket ends the listener without the timeout *)
(* of select(); where the wakeup failed and stop() closed the sockets      *)
(* under it, select() times out, and it ends all the same.                 *)
ListenerEnds ==
  /\ wakeup ~> ListenerOver
  /\ Polling => (caller = "wake" ~> ListenerOver)

(* stop() returns, also when a client sits in its login.                   *)
StopReturns == caller = "wake" ~> caller = "stopped"

(* A client that connects is accepted, unless the server stops or a thread *)
(* could not be started.                                                   *)
Served ==
  \A c \in Clients : conn[c] = "queued" ~> conn[c] # "queued" \/ listener = "crashed"

(* servers.py:225: "Prune finished threads to prevent unbounded growth":   *)
(* also on a server to which nobody connects any more.                     *)
Pruned ==
  Polling => \A c \in Clients :
    conn[c] = "done" /\ c \in tracked
      ~> c \notin tracked \/ ~is_running \/ listener = "crashed"
-----------------------------------------------------------------------------
(* What the owner of the server sees of it.                                *)
state == CASE caller \in {"idle", "bind", "select", "spawn", "failed", "raise"} -> "new"
           [] caller = "serving"                                               -> "up"
           [] caller \in {"wake", "joinListener", "joinConns", "cleanup"}      -> "stopping"
           [] caller = "stopped"                                               -> "down"

Owned == INSTANCE Server WITH state <- state, port <- sock # "none"

(* start() and stop(), with the listener and the connections running       *)
(* alongside and failing at any place, are the server a Host relies on.    *)
ImplementsServer == Owned!Spec

(* Each client has one connection, accepted and served once at most and    *)
(* never again once it is over, whatever the listener and stop() do.       *)
ConnectionOf(c) ==
  INSTANCE Connection WITH phase <- IF conn[c] \in {"new", "queued", "accepted"} THEN "waiting"
                                    ELSE conn[c],
                           traffic <- None

ConnectionsKept == \A c \in Clients : ConnectionOf(c)!Spec
=============================================================================
