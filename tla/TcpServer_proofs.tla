-------------------------- MODULE TcpServer_proofs --------------------------
(***************************************************************************)
(* TcpServer for any set of clients.  Inv is the inductive invariant: the  *)
(* listener exists only once start() has succeeded, what it holds while it *)
(* starts a thread is a client, and from the join of the listener on,      *)
(* stop() knows of every thread that is still alive.                       *)
(***************************************************************************)
EXTENDS TcpServer, TLAPS

Starting == {"idle", "bind", "select", "spawn", "failed", "raise"}

ListenerInv ==
  /\ listener \in {"start", "append"} => client \in Clients
  /\ caller \in Starting => listener = "none"

(* What is open, as far as start() and stop() have come.                   *)
OpenInv ==
  /\ caller \in {"idle", "bind", "raise", "stopped"} =>
       sock = "none" /\ ~selector
  /\ sock # "listening" => queued = {}

StopInv ==
  /\ caller \in {"joinConns", "cleanup", "stopped"} /\ ~late => ListenerOver
  /\ caller = "joinConns" /\ ~late => live \subseteq joining \cup alive
  /\ caller \in {"cleanup", "stopped"} /\ ~late => live \subseteq alive

Inv == TypeOK /\ ListenerInv /\ Tracked

(* Inv is inductive.                                                       *)
LEMMA InvInit == Init => Inv
BY DEF Init, Inv, TypeOK, ListenerInv, Tracked, Starting, live, Phase

(* A connection that moves on was live, or is not live now.                *)
LEMMA CleanupKeepsLive ==
  ASSUME TypeOK, CleanupResources
  PROVE  live' = live /\ queued' = {} /\ conn' \in [Clients -> Phase \cup {"new", "queued", "accepted", "done"}]
BY DEF TypeOK, CleanupResources, live, queued, Phase

LEMMA InvNext == Inv /\ [Next]_vars => Inv'
<1> SUFFICES ASSUME Inv, [Next]_vars PROVE Inv'
  OBVIOUS
<1> USE DEF Inv, TypeOK, ListenerInv, Starting, resources, stopVars, listenVars
<1>1. CASE UNCHANGED vars
  BY <1>1 DEF vars, Tracked, live
<1>2. CASE Start \/ BindSockets \/ OpenSelector \/ SpawnListener \/ StartRaises
  BY <1>2 DEF Start, BindSockets, OpenSelector, SpawnListener, StartRaises, Tracked, live
<1>3. CASE StartFails \/ StopCleansUp
  <2>1. CleanupResources
    BY <1>3 DEF StartFails, StopCleansUp
  <2>2. live' = live /\ conn' \in [Clients -> Phase \cup {"new", "queued", "accepted", "done"}]
    BY <2>1, CleanupKeepsLive
  <2> QED
    BY <1>3, <2>2 DEF StartFails, StopCleansUp, CleanupResources, Tracked
<1>4. CASE Stop \/ StopJoinsConnection \/ StopJoined
  <2>1. is_running' \in BOOLEAN
    BY <1>4, Zenon DEF Stop, StopJoinsConnection, StopJoined
  <2> QED
    BY <1>4, <2>1 DEF Stop, StopJoinsConnection, StopJoined, Tracked, live
<1>12. CASE StopWakes
  BY <1>12 DEF StopWakes, Tracked, live
<1>11. CASE StopJoinsListener
  <2>1. late' \in BOOLEAN
    BY <1>11, Zenon DEF StopJoinsListener, ListenerOver
  <2> QED
    BY <1>11, <2>1 DEF StopJoinsListener, Tracked, live
<1>5. CASE ListenLoop \/ ListenSelect \/ ListenSelectTimesOut \/ ListenAcceptFails
  BY <1>5 DEF ListenLoop, ListenSelect, ListenSelectTimesOut, ListenAcceptFails, Tracked, live
<1>6. CASE ListenAccept
  BY <1>6 DEF ListenAccept, Tracked, live, queued, Phase
<1>7. CASE ListenStart
  BY <1>7 DEF ListenStart, Tracked, live, Phase
<1>8. CASE ListenAppend \/ ListenPrune
  BY <1>8 DEF ListenAppend, ListenPrune, Tracked, live
<1>9. ASSUME NEW c \in Clients, Connect(c) \/ Login(c) \/ SessionEnds(c)
      PROVE  Inv'
  BY <1>9 DEF Connect, Login, SessionEnds, Move, Tracked, live, Phase
<1>10. CASE Rest
  BY <1>10 DEF Rest, vars, Tracked, live
<1> QED
  BY <1>1, <1>2, <1>3, <1>4, <1>5, <1>6, <1>7, <1>8, <1>9, <1>10, <1>11, <1>12
  DEF Next, StartSteps, StopSteps, Listener

(* Every variable keeps its type, for any set of clients.                  *)
THEOREM TypeCorrect == Spec => []TypeOK
<1>1. Inv => TypeOK
  BY DEF Inv
<1> QED
  BY <1>1, InvInit, InvNext, PTL DEF Spec

(* Every live connection thread can be joined: it is in                    *)
(* _connection_threads, or the listener is about to append it.             *)
THEOREM TrackedCorrect == Spec => []Tracked
<1>1. Inv => Tracked
  BY DEF Inv
<1> QED
  BY <1>1, InvInit, InvNext, PTL DEF Spec

-----------------------------------------------------------------------------
LEMMA OpenNext == Inv /\ OpenInv /\ [Next]_vars => OpenInv'
<1> SUFFICES ASSUME Inv, OpenInv, [Next]_vars PROVE OpenInv'
  OBVIOUS
<1> USE DEF OpenInv, Starting, resources, stopVars, listenVars
<1>1. CASE UNCHANGED vars
  BY <1>1 DEF vars, queued
<1>2. CASE Start \/ BindSockets \/ OpenSelector \/ SpawnListener \/ StartRaises
  BY <1>2 DEF Start, BindSockets, OpenSelector, SpawnListener, StartRaises, queued
<1>3. CASE StartFails \/ StopCleansUp
  <2>1. CleanupResources
    BY <1>3 DEF StartFails, StopCleansUp
  <2>2. queued' = {}
    BY <2>1, CleanupKeepsLive DEF Inv
  <2> QED
    BY <1>3, <2>1, <2>2 DEF StartFails, StopCleansUp, CleanupResources
<1>4. CASE Stop \/ StopWakes \/ StopJoinsListener \/ StopJoinsConnection \/ StopJoined
  BY <1>4 DEF Stop, StopWakes, StopJoinsListener, StopJoinsConnection, StopJoined, queued
<1>5. CASE ListenLoop \/ ListenSelect \/ ListenSelectTimesOut \/ ListenAcceptFails \/ ListenAppend \/ ListenPrune
  BY <1>5 DEF ListenLoop, ListenSelect, ListenSelectTimesOut, ListenAcceptFails, ListenAppend, ListenPrune, queued
<1>6. CASE ListenAccept \/ ListenStart
  BY <1>6 DEF ListenAccept, ListenStart, queued, Inv, TypeOK, ListenerInv, Phase
<1>7. ASSUME NEW c \in Clients, Connect(c) \/ Login(c) \/ SessionEnds(c)
      PROVE  OpenInv'
  BY <1>7 DEF Connect, Login, SessionEnds, Move, queued, Inv, TypeOK, Phase
<1>8. CASE Rest
  BY <1>8 DEF Rest, vars, queued
<1> QED
  BY <1>1, <1>2, <1>3, <1>4, <1>5, <1>6, <1>7, <1>8
  DEF Next, StartSteps, StopSteps, Listener

(* After stop(), or a start() that raised, nothing is left open and no     *)
(* client waits to be accepted.                                            *)
THEOREM ReleasedCorrect == Spec => []Released
<1>1. Init => OpenInv
  BY DEF Init, OpenInv, queued
<1>2. OpenInv => Released
  BY DEF OpenInv, Released
<1> QED
  BY <1>1, <1>2, InvInit, InvNext, OpenNext, PTL DEF Spec

-----------------------------------------------------------------------------
(* No step but the listener's start of a thread makes a connection live.   *)
LEMMA StopNext ==
  ASSUME Inv, StopInv, [Next]_vars
  PROVE  StopInv'
<1> USE DEF StopInv, ListenerOver, resources, stopVars, listenVars
<1>1. CASE UNCHANGED vars
  BY <1>1 DEF vars, live
<1>2. CASE Start \/ BindSockets \/ OpenSelector \/ SpawnListener \/ StartRaises
  BY <1>2 DEF Start, BindSockets, OpenSelector, SpawnListener, StartRaises, live
<1>3. CASE StartFails \/ StopCleansUp
  <2>1. live' = live
    BY <1>3, CleanupKeepsLive DEF StartFails, StopCleansUp, Inv
  <2> QED
    BY <1>3, <2>1 DEF StartFails, StopCleansUp
<1>4. CASE StopJoinsListener
  <2>1. ListenerOver /\ ~late' => live \subseteq tracked
    BY DEF Inv, Tracked, ListenerOver
  <2>2. live' = live
    BY <1>4 DEF StopJoinsListener, live
  <2> QED
    BY <1>4, <2>1, <2>2 DEF StopJoinsListener
<1>5. CASE Stop \/ StopWakes \/ StopJoinsConnection \/ StopJoined
  BY <1>5 DEF Stop, StopWakes, StopJoinsConnection, StopJoined, live
<1>6. CASE Listener
  BY <1>6 DEF Listener, ListenLoop, ListenSelect, ListenSelectTimesOut, ListenAccept, ListenAcceptFails,
              ListenStart, ListenAppend, ListenPrune
<1>7. ASSUME NEW c \in Clients, Connect(c) \/ Login(c) \/ SessionEnds(c)
      PROVE  StopInv'
  <2>1. live' \subseteq live
    BY <1>7 DEF Connect, Login, SessionEnds, Move, live, Inv, TypeOK, Phase
  <2> QED
    BY <1>7, <2>1 DEF Connect, Login, SessionEnds, Move
<1>8. CASE Rest
  BY <1>8 DEF Rest, vars, live
<1> QED
  BY <1>1, <1>2, <1>3, <1>4, <1>5, <1>6, <1>7, <1>8 DEF Next, StartSteps, StopSteps

(* When stop() has joined the listener in time, the threads it leaves      *)
(* running are those it has found alive.                                   *)
THEOREM AccountsCorrect ==
  Spec => []StopAccounts
<1>1. Init => StopInv
  BY DEF Init, StopInv
<1>2. Inv /\ StopInv /\ [Next]_vars => StopInv'
  BY StopNext
<1>3. StopInv => StopAccounts
  BY DEF StopInv, StopAccounts
<1> QED
  BY <1>1, <1>2, <1>3, InvInit, InvNext, PTL DEF Spec

(* Under the same assumption no connection is served once stop() has       *)
(* returned.                                                               *)
THEOREM NoneServed ==
  Spec => NoneServedAfterStop
<1>1. Init => StopInv
  BY DEF Init, StopInv
<1>2. Inv /\ StopInv /\ [Next]_vars => StopInv'
  BY StopNext
<1>3. Inv /\ StopInv /\ [Next]_vars => [caller = "stopped" /\ ~late => live' \subseteq live]_vars
  <2> SUFFICES ASSUME Inv, StopInv, [Next]_vars, caller = "stopped", ~late
               PROVE  live' \subseteq live
    OBVIOUS
  <2> USE DEF resources, stopVars, listenVars
  <2>1. listener \in {"done", "crashed"}
    BY DEF StopInv, ListenerOver
  <2>2. CASE UNCHANGED vars
    BY <2>2 DEF vars, live
  <2>3. ~(Start \/ StartSteps \/ Stop \/ StopSteps)
    BY DEF Start, StartSteps, BindSockets, OpenSelector, SpawnListener, StartFails,
           StartRaises, Stop, StopSteps, StopWakes, StopJoinsListener,
           StopJoinsConnection, StopJoined, StopCleansUp
  <2>4. ~Listener
    BY <2>1 DEF Listener, ListenLoop, ListenSelect, ListenSelectTimesOut, ListenAccept, ListenAcceptFails,
                ListenStart, ListenAppend, ListenPrune
  <2>5. ASSUME NEW c \in Clients, Connect(c) \/ Login(c) \/ SessionEnds(c)
        PROVE  live' \subseteq live
    BY <2>5 DEF Connect, Login, SessionEnds, Move, live, Inv, TypeOK, Phase
  <2>6. CASE Rest
    BY <2>6 DEF Rest, vars, live
  <2> QED
    BY <2>2, <2>3, <2>4, <2>5, <2>6 DEF Next
<1> QED
  BY <1>1, <1>2, <1>3, InvInit, InvNext, PTL DEF Spec, NoneServedAfterStop

-----------------------------------------------------------------------------
(* TcpServer implements Server: what an owner sees of start() and stop().  *)
(* A server that is up, or that stop() is busy with, listens.              *)
ListeningInv ==
  caller \in {"select", "spawn", "serving", "wake", "joinListener", "joinConns", "cleanup"} =>
    sock = "listening"

(* The caller's steps move between these places, and change the socket in  *)
(* three of them.                                                          *)
CallerMoves(from, to) == caller = from /\ caller' \in to /\ UNCHANGED sock

LEMMA CallerStep ==
  ASSUME [Next]_vars
  PROVE  \/ UNCHANGED <<caller, sock>>
         \/ CallerMoves("idle", {"bind"})
         \/ caller = "bind" /\ <<sock', caller'>> \in {<<"listening", "select">>, <<"open", "failed">>}
         \/ CallerMoves("select", {"spawn", "failed"}) \/ CallerMoves("spawn", {"serving", "failed"})
         \/ caller = "failed" /\ caller' = "raise" /\ sock' = "none"
         \/ CallerMoves("raise", {"idle"}) \/ CallerMoves("serving", {"wake"})
         \/ CallerMoves("wake", {"joinListener"}) \/ CallerMoves("joinListener", {"joinConns"})
         \/ CallerMoves("joinConns", {"cleanup"})
         \/ caller = "cleanup" /\ caller' = "stopped" /\ sock' = "none"
<1> USE DEF CallerMoves, resources
<1>1. CASE Start \/ StartSteps
  BY <1>1 DEF Start, StartSteps, BindSockets, OpenSelector, SpawnListener, StartFails, StartRaises,
              CleanupResources
<1>2. CASE Stop \/ StopSteps
  BY <1>2 DEF Stop, StopSteps, StopWakes, StopJoinsListener, StopJoinsConnection, StopJoined,
              StopCleansUp, CleanupResources
<1>3. CASE Listener
  BY <1>3 DEF Listener, ListenLoop, ListenSelect, ListenSelectTimesOut, ListenAccept,
              ListenAcceptFails, ListenStart, ListenAppend, ListenPrune
<1>4. CASE \E c \in Clients : Connect(c) \/ Login(c) \/ SessionEnds(c)
  BY <1>4 DEF Connect, Login, SessionEnds, Move
<1>5. CASE Rest \/ UNCHANGED vars
  BY <1>5 DEF Rest, vars
<1>. QED  BY <1>1, <1>2, <1>3, <1>4, <1>5 DEF Next

LEMMA ListeningNext ==
  ASSUME ListeningInv, [Next]_vars
  PROVE  ListeningInv'
BY CallerStep DEF ListeningInv, CallerMoves

LEMMA OwnedNext ==
  ASSUME OpenInv, ListeningInv, [Next]_vars
  PROVE  Owned!Next \/ UNCHANGED Owned!vars
<1> USE DEF state, CallerMoves, Owned!vars
<1>1. CASE UNCHANGED <<caller, sock>>
  BY <1>1
<1>2. CASE \/ CallerMoves("idle", {"bind"}) \/ CallerMoves("select", {"spawn", "failed"})
           \/ CallerMoves("spawn", {"failed"}) \/ CallerMoves("raise", {"idle"})
           \/ CallerMoves("wake", {"joinListener"}) \/ CallerMoves("joinListener", {"joinConns"})
           \/ CallerMoves("joinConns", {"cleanup"})
  BY <1>2
<1>3. CASE caller = "bind" /\ <<sock', caller'>> \in {<<"listening", "select">>, <<"open", "failed">>}
  <2>1. sock = "none"
    BY <1>3 DEF OpenInv
  <2>. QED  BY <1>3, <2>1 DEF Owned!Next, Owned!Bind
<1>4. CASE CallerMoves("spawn", {"serving"})
  <2>1. sock = "listening"
    BY <1>4 DEF ListeningInv
  <2>. QED  BY <1>4, <2>1 DEF Owned!Next, Owned!Serve
<1>5. CASE caller = "failed" /\ caller' = "raise" /\ sock' = "none"
  BY <1>5 DEF Owned!Next, Owned!Fail
<1>6. CASE CallerMoves("serving", {"wake"})
  BY <1>6 DEF Owned!Next, Owned!Halt
<1>7. CASE caller = "cleanup" /\ caller' = "stopped" /\ sock' = "none"
  BY <1>7 DEF Owned!Next, Owned!Halted
<1>. QED  BY <1>1, <1>2, <1>3, <1>4, <1>5, <1>6, <1>7, CallerStep

(* start() and stop(), whatever the listener and the connections do        *)
(* meanwhile and wherever they fail, are those of the server Host relies   *)
(* on: up only with its socket listening, stopped once, and down with its  *)
(* port free (servers.py:75, servers.py:128).                              *)
THEOREM ServerImplemented == Spec => ImplementsServer
<1>1. Init => Owned!Init /\ OpenInv /\ ListeningInv
  BY DEF Init, Owned!Init, state, OpenInv, ListeningInv, queued
<1>2. Inv /\ OpenInv /\ ListeningInv /\ [Next]_vars => ListeningInv' /\ [Owned!Next]_(Owned!vars)
  BY ListeningNext, OwnedNext
<1>. QED  BY <1>1, <1>2, InvInit, InvNext, OpenNext, PTL DEF Spec, ImplementsServer, Owned!Spec

-----------------------------------------------------------------------------
(* Each connection of the server is one as Connection has it.  The client  *)
(* the listener starts a thread for is one that it has accepted and that   *)
(* has no thread yet.                                                      *)
StartInv == listener = "start" => client \in Clients /\ conn[client] = "accepted"

Before == {"new", "queued", "accepted"}

(* What a step may do to a connection: wait on, begin, log in or end.      *)
Passes(from, to) ==
  \/ from = to
  \/ from \in Before /\ to \in Before \cup Phase \cup {"done"}
  \/ from = "login" /\ to \in {"session", "done"}
  \/ from = "session" /\ to = "done"

LEMMA ConnectionStep ==
  ASSUME Inv, StartInv, [Next]_vars
  PROVE  StartInv' /\ \A c \in Clients : Passes(conn[c], conn'[c])
<1> USE DEF Inv, TypeOK, StartInv, Passes, Before, resources, stopVars, listenVars
<1>1. CASE UNCHANGED vars \/ Rest
  BY <1>1 DEF vars, Rest
<1>2. CASE Start \/ BindSockets \/ OpenSelector \/ StartRaises
  BY <1>2 DEF Start, BindSockets, OpenSelector, StartRaises
<1>3. CASE SpawnListener
  BY <1>3 DEF SpawnListener
<1>4. CASE StartFails \/ StopCleansUp
  <2>1. CleanupResources /\ UNCHANGED listenVars
    BY <1>4 DEF StartFails, StopCleansUp
  <2>. QED  BY <2>1 DEF CleanupResources, queued
<1>5. CASE Stop \/ StopWakes \/ StopJoinsListener \/ StopJoinsConnection \/ StopJoined
  BY <1>5 DEF Stop, StopWakes, StopJoinsListener, StopJoinsConnection, StopJoined
<1>6. CASE \/ ListenLoop \/ ListenSelect \/ ListenSelectTimesOut \/ ListenAcceptFails
           \/ ListenAppend \/ ListenPrune
  BY <1>6 DEF ListenLoop, ListenSelect, ListenSelectTimesOut, ListenAcceptFails, ListenAppend,
              ListenPrune
<1>7. CASE ListenAccept
  BY <1>7 DEF ListenAccept, queued
<1>8. CASE ListenStart
  BY <1>8 DEF ListenStart
<1>9. ASSUME NEW c \in Clients, Connect(c) \/ Login(c) \/ SessionEnds(c)
      PROVE  StartInv' /\ \A d \in Clients : Passes(conn[d], conn'[d])
  <2>1. PICK to : Move(c, to) /\ Passes(conn[c], to) /\ conn[c] # "accepted"
    BY <1>9 DEF Connect, Login, SessionEnds
  <2>2. /\ conn'[c] = to /\ \A d \in Clients : d # c => conn'[d] = conn[d]
        /\ UNCHANGED listenVars
    BY <2>1 DEF Move
  <2>. QED  BY <2>1, <2>2
<1>. QED
  BY <1>1, <1>2, <1>3, <1>4, <1>5, <1>6, <1>7, <1>8, <1>9 DEF Next, StartSteps, StopSteps, Listener

(* Each connection is served once at most and never after it is over,      *)
(* whatever the listener meets and however stop() cuts in.                 *)
THEOREM ConnectionsCorrect == Spec => ConnectionsKept
<1> SUFFICES ASSUME NEW c \in Clients PROVE Spec => ConnectionOf(c)!Spec
  BY DEF ConnectionsKept
<1>1. Init => StartInv /\ ConnectionOf(c)!Init
  BY DEF Init, StartInv, ConnectionOf!Init
<1>2. Inv /\ StartInv /\ [Next]_vars => StartInv' /\ [ConnectionOf(c)!Next]_(ConnectionOf(c)!vars)
  <2> SUFFICES ASSUME Inv, StartInv, [Next]_vars
               PROVE  StartInv' /\ (ConnectionOf(c)!Next \/ UNCHANGED ConnectionOf(c)!vars)
    OBVIOUS
  <2>1. StartInv' /\ Passes(conn[c], conn'[c]) /\ conn[c] \in Before \cup Phase \cup {"done"}
    BY ConnectionStep DEF Inv, TypeOK, Before
  <2>. QED  BY <2>1 DEF Passes, Before, Phase, ConnectionOf!Next, ConnectionOf!Begin,
                        ConnectionOf!LogIn, ConnectionOf!End, ConnectionOf!vars
<1>. QED  BY <1>1, <1>2, InvInit, InvNext, PTL DEF Spec, ConnectionOf!Spec
=============================================================================
