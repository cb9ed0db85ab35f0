------------------------------- MODULE Fleet -------------------------------
(***************************************************************************)
(* SimNOS.start() and SimNOS.stop() over a set of hosts, sequential or     *)
(* with a pool of threads, and Host.start() and Host.stop(), which they    *)
(* run and which a program may also call itself.  One thread makes the     *)
(* calls, one after the other.  A parallel stop() that meets its deadline  *)
(* leaves the Host.stop() calls that have begun running in the background, *)
(* and a parallel start() leaves its Host.start() calls there when one of  *)
(* them raises TimeoutError, which is taken for the deadline's.            *)
(*                                                                         *)
(* Host.start() makes a new server object each time.  servers[h] holds the *)
(* state of every server ever made for h, and server[h] the one h.server   *)
(* refers to (0 is None): a server that is up and that no host refers to   *)
(* can never be stopped.  module TcpServer says what a server does.        *)
(*                                                                         *)
(* Choices are the sets of hosts a call is made for; a host that is one by *)
(* itself is also started and stopped directly.  Pools are the numbers of  *)
(* threads a parallel call may be given.  MaxCalls bounds the calls of a   *)
(* behaviour.  The program that makes them is one that waits for the       *)
(* starts it has left in the background (StartsAwaited): a server's own    *)
(* start() is a single step here, and what another call would find in the  *)
(* middle of it is not modelled.                                           *)
(***************************************************************************)
EXTENDS Naturals, Sequences, FiniteSets

CONSTANTS Hosts, Choices, Pools, MaxCalls

ASSUME FleetAssumption ==
  /\ IsFiniteSet(Hosts) /\ Choices \subseteq (SUBSET Hosts) \ {{}}
  /\ Pools \subseteq Nat \ {0} /\ MaxCalls \in Nat

VARIABLES
  running,  \* [Hosts -> BOOLEAN]: Host.running
  server,   \* [Hosts -> index into servers[h]]: Host.server
  servers,  \* [Hosts -> Seq of the states of its servers]
  calls,    \* number of calls made
  func,     \* what the last call does: "start" or "stop"
  mode,     \* how: over hosts "seq" or "par", or on one "host" itself
  workers,  \* the threads of its pool, 0 without one
  asked,    \* the hosts it was given
  result,   \* "pending", or how it ended: "ok", "raised" or "late"
  todo,     \* its hosts whose turn has not come
  failed,   \* its hosts whose method raised
  timeouts, \* those of a pool whose method raised TimeoutError
  noticed,  \* f.result() has raised a failure other than these
  jobs,     \* the calls of Host.start() and Host.stop() that are running
  crowded   \* history: a call was made while jobs ran in the background

hostVars == <<running, server, servers>>
callVars == <<calls, func, mode, workers, asked, crowded>>
runVars  == <<result, todo, failed, timeouts, noticed, jobs>>
vars == <<hostVars, callVars, runVars>>

ServerStates == {"new", "up", "stopping", "down"}
JobPcs == {"check", "create", "serve", "mark",
           "halt", "halting", "clear", "unmark"}
Jobs == [call : 0..MaxCalls, host : Hosts, func : {"start", "stop"},
         pc : JobPcs, srv : Nat]

Mine   == {j \in jobs : j.call = calls}     \* jobs of the last call
Idle   == result # "pending"

IsUp(h) == server[h] # 0 /\ servers[h][server[h]] = "up"

Init ==
  /\ running = [h \in Hosts |-> FALSE]
  /\ server  = [h \in Hosts |-> 0]
  /\ servers = [h \in Hosts |-> <<>>]
  /\ calls = 0 /\ func = "start" /\ mode = "seq" /\ workers = 0 /\ asked = {}
  /\ result = "ok" /\ todo = {} /\ failed = {} /\ timeouts = {}
  /\ noticed = FALSE /\ jobs = {} /\ crowded = FALSE

-----------------------------------------------------------------------------
(* Calls                                                                   *)

(* What the program waits for before it makes a call.                      *)
StartsAwaited == \A j \in jobs : j.func # "start"

Begins(f, m, n, hs, targets) ==
  /\ Idle /\ StartsAwaited
  /\ calls < MaxCalls
  /\ calls' = calls + 1
  /\ crowded' = (crowded \/ jobs # {})
  /\ func' = f /\ mode' = m /\ workers' = n /\ asked' = hs
  /\ result' = "pending"
  /\ todo' = targets /\ failed' = {} /\ timeouts' = {} /\ noticed' = FALSE
  /\ UNCHANGED <<hostVars, jobs>>

(* SimNOS.start(hosts, parallel) and SimNOS.stop(hosts, parallel): the     *)
(* hosts that run already, or run no more, are passed over.  One host is   *)
(* never handed to a pool.                                                 *)
CallOverHosts ==
  \E f \in {"start", "stop"}, hs \in Choices :
    LET targets == {h \in hs : running[h] = (f = "stop")} IN
    \/ Begins(f, "seq", 0, hs, targets)
    \/ /\ Cardinality(targets) > 1
       /\ \E n \in Pools : Begins(f, "par", n, hs, targets)

(* host.start() and host.stop(), called directly.                          *)
CallHost ==
  \E f \in {"start", "stop"}, h \in Hosts :
    {h} \in Choices /\ Begins(f, "host", 0, {h}, {h})

(* Mutant: a pool with one thread less.                                    *)
TakeTurnShort(h) ==
  /\ ~Idle
  /\ h \in todo
  /\ IF mode = "par" THEN Cardinality(Mine) < workers - 1
                     ELSE Mine = {} /\ failed = {}
  /\ todo' = todo \ {h}
  /\ jobs' = jobs \cup {[call |-> calls, host |-> h, func |-> func,
                         pc |-> "check", srv |-> 0]}
  /\ UNCHANGED <<hostVars, callVars, result, failed, timeouts, noticed>>

(* One host after the other until one raises, or as many at a time as the  *)
(* pool has threads whether or not one raises.                             *)
TakeTurn(h) ==
  /\ ~Idle
  /\ h \in todo
  /\ IF mode = "par" THEN Cardinality(Mine) < workers
                     ELSE Mine = {} /\ failed = {}
  /\ todo' = todo \ {h}
  /\ jobs' = jobs \cup {[call |-> calls, host |-> h, func |-> func,
                         pc |-> "check", srv |-> 0]}
  /\ UNCHANGED <<hostVars, callVars, result, failed, timeouts, noticed>>

(* The deadline of stop().  Sequential: looked at before each host.        *)
(* Parallel: as_completed() times out, unless f.result() has raised before *)
(* (the time is looked at before what has been done is handed out); what   *)
(* has not begun is cancelled and what has begun is not waited for.        *)
MissDeadline ==
  /\ ~Idle /\ func = "stop"
  /\ \/ mode = "seq" /\ Mine = {} /\ todo # {} /\ failed = {}
     \/ mode = "par" /\ ~noticed
  /\ result' = "late"
  /\ todo' = {}
  /\ UNCHANGED <<hostVars, callVars, failed, timeouts, noticed, jobs>>

(* f.result() raises TimeoutError because a method of the pool did: the    *)
(* handler of as_completed()'s own takes it for the deadline.  The call    *)
(* returns and raises nothing; what has not begun is cancelled and what    *)
(* has begun is not waited for.                                            *)
TakenForDeadline ==
  /\ ~Idle /\ mode = "par"
  /\ timeouts # {} /\ ~noticed
  /\ result' = "late"
  /\ todo' = {}
  /\ UNCHANGED <<hostVars, callVars, failed, timeouts, noticed, jobs>>

(* f.result() raises anything else: the call will raise it, once the pool  *)
(* has done all it was given.                                              *)
NoticeFailure ==
  /\ ~Idle /\ mode = "par"
  /\ failed \ timeouts # {} /\ ~noticed
  /\ noticed' = TRUE
  /\ UNCHANGED <<hostVars, callVars, result, todo, failed, timeouts, jobs>>

(* All is done and looked at, or a host of a sequential call raised.       *)
Return ==
  /\ ~Idle /\ Mine = {}
  /\ \/ todo = {} /\ (mode = "par" => failed = {} \/ noticed)
     \/ failed # {} /\ mode # "par"
  /\ result' = IF failed = {} THEN "ok" ELSE "raised"
  /\ todo' = {}
  /\ UNCHANGED <<hostVars, callVars, failed, timeouts, noticed, jobs>>

-----------------------------------------------------------------------------
(* Host.start() and Host.stop().  A job that ends is removed; what a job   *)
(* left in the background raises is lost with its future.                  *)

Move(j, pc, srv) ==
  /\ jobs' = (jobs \ {j}) \cup {[j EXCEPT !.pc = pc, !.srv = srv]}
  /\ UNCHANGED <<failed, timeouts>>
Finish(j) ==
  /\ jobs' = jobs \ {j}
  /\ UNCHANGED <<failed, timeouts>>
(* Mutants: a failure in a pool is lost with its future; one of a job in   *)
(* the background is taken for a failure of the last call.                 *)
RaiseLost(j) ==
  /\ jobs' = jobs \ {j}
  /\ failed' = IF mode # "par" /\ j.call = calls THEN failed \cup {j.host} ELSE failed
  /\ UNCHANGED timeouts
RaiseCharged(j) ==
  /\ jobs' = jobs \ {j}
  /\ failed' = IF ~Idle THEN failed \cup {j.host} ELSE failed
  /\ UNCHANGED timeouts
Raise(j) ==
  /\ jobs' = jobs \ {j}
  /\ failed' = IF j.call = calls /\ ~Idle THEN failed \cup {j.host} ELSE failed
  /\ UNCHANGED timeouts

(* Raises TimeoutError.  Outside a pool that is an exception like any      *)
(* other, and after the call has returned it is lost: Raise.               *)
RaiseTimeout(j) ==
  /\ mode = "par" /\ j.call = calls /\ ~Idle
  /\ jobs' = jobs \ {j}
  /\ failed' = failed \cup {j.host}
  /\ timeouts' = timeouts \cup {j.host}

JobFrame == UNCHANGED <<callVars, result, todo, noticed>>

(* Mutant: a host that runs is started again.                              *)
StartAnyway(j) ==
  /\ j.func = "start" /\ j.pc = "check"
  /\ Move(j, "create", 0)
  /\ JobFrame /\ UNCHANGED hostVars

StartGuard(j) ==
  /\ j.func = "start" /\ j.pc = "check"
  /\ IF running[j.host] THEN Finish(j) ELSE Move(j, "create", 0)
  /\ JobFrame /\ UNCHANGED hostVars

(* Mutant: the host is marked before its server is started.                *)
CreateAndMark(j) ==
  /\ j.pc = "create"
  /\ servers' = [servers EXCEPT ![j.host] = Append(@, "new")]
  /\ server' = [server EXCEPT ![j.host] = Len(servers[j.host]) + 1]
  /\ running' = [running EXCEPT ![j.host] = TRUE]
  /\ Move(j, "serve", 0)
  /\ JobFrame

(* Loading the platform or making the server may raise anything.           *)
CreateServer(j) ==
  /\ j.pc = "create"
  /\ \/ /\ servers' = [servers EXCEPT ![j.host] = Append(@, "new")]
        /\ server' = [server EXCEPT ![j.host] = Len(servers[j.host]) + 1]
        /\ Move(j, "serve", 0)
     \/ /\ Raise(j) \/ RaiseTimeout(j)
        /\ UNCHANGED <<server, servers>>
  /\ JobFrame /\ UNCHANGED running

(* self.server.start(): self.server is read again.  The server's own start *)
(* may raise; its resources are then released.                             *)
StartServer(j) ==
  /\ j.pc = "serve"
  /\ \/ /\ server[j.host] = 0
        /\ Raise(j) /\ UNCHANGED servers
     \/ /\ server[j.host] # 0 /\ servers[j.host][server[j.host]] = "new"
        /\ \/ /\ servers' = [servers EXCEPT ![j.host][server[j.host]] = "up"]
              /\ Move(j, "mark", 0)
           \/ /\ servers' = [servers EXCEPT ![j.host][server[j.host]] = "down"]
              /\ Raise(j) \/ RaiseTimeout(j)
  /\ JobFrame /\ UNCHANGED <<running, server>>

MarkRunning(j) ==
  /\ j.pc = "mark"
  /\ running' = [running EXCEPT ![j.host] = TRUE]
  /\ Finish(j)
  /\ JobFrame /\ UNCHANGED <<server, servers>>

StopGuard(j) ==
  /\ j.func = "stop" /\ j.pc = "check"
  /\ IF server[j.host] = 0 THEN Finish(j) ELSE Move(j, "halt", 0)
  /\ JobFrame /\ UNCHANGED hostVars

(* Mutant: the server is told to stop and not waited for.                  *)
HaltAndLeave(j) ==
  /\ j.pc = "halt" /\ server[j.host] # 0
  /\ servers' = [servers EXCEPT ![j.host][server[j.host]] =
                   IF @ = "up" THEN "stopping" ELSE @]
  /\ Move(j, "clear", 0)
  /\ JobFrame /\ UNCHANGED <<running, server>>

(* self.server.stop(): self.server is read again.  A server that is not up *)
(* returns at once, also when another stop() of it is under way.           *)
HaltServer(j) ==
  /\ j.pc = "halt"
  /\ \/ /\ server[j.host] = 0
        /\ Raise(j) /\ UNCHANGED servers
     \/ /\ IsUp(j.host)
        /\ servers' = [servers EXCEPT ![j.host][server[j.host]] = "stopping"]
        /\ Move(j, "halting", server[j.host])
     \/ /\ server[j.host] # 0 /\ ~IsUp(j.host)
        /\ Move(j, "clear", 0) /\ UNCHANGED servers
  /\ JobFrame /\ UNCHANGED <<running, server>>

ServerHalted(j) ==
  /\ j.pc = "halting"
  /\ servers' = [servers EXCEPT ![j.host][j.srv] = "down"]
  /\ Move(j, "clear", 0)
  /\ JobFrame /\ UNCHANGED <<running, server>>

ClearServer(j) ==
  /\ j.pc = "clear"
  /\ server' = [server EXCEPT ![j.host] = 0]
  /\ Move(j, "unmark", 0)
  /\ JobFrame /\ UNCHANGED <<running, servers>>

UnmarkRunning(j) ==
  /\ j.pc = "unmark"
  /\ running' = [running EXCEPT ![j.host] = FALSE]
  /\ Finish(j)
  /\ JobFrame /\ UNCHANGED <<server, servers>>

JobStep(j) ==
  \/ StartGuard(j) \/ CreateServer(j) \/ StartServer(j) \/ MarkRunning(j)
  \/ StopGuard(j) \/ HaltServer(j) \/ ServerHalted(j)
  \/ ClearServer(j) \/ UnmarkRunning(j)

Next ==
  \/ CallOverHosts \/ CallHost
  \/ \E h \in Hosts : TakeTurn(h)
  \/ MissDeadline \/ TakenForDeadline \/ NoticeFailure \/ Return
  \/ \E j \in jobs : JobStep(j)

Spec == Init /\ [][Next]_vars

(* Every thread of the pool runs, every server's start() and stop() ends,  *)
(* and the caller goes on when it can; the deadline need never pass.       *)
Fairness ==
  /\ WF_vars(\E h \in Hosts : TakeTurn(h))
  /\ WF_vars(TakenForDeadline) /\ WF_vars(NoticeFailure) /\ WF_vars(Return)
  /\ \A h \in Hosts : WF_vars(\E j \in jobs : j.host = h /\ JobStep(j))
FairSpec == Spec /\ Fairness

-----------------------------------------------------------------------------
(* Properties                                                              *)

(* Every variable keeps its type, and a host's server is one that was made *)
(* for it.                                                                 *)
TypeOK ==
  /\ running \in [Hosts -> BOOLEAN]
  /\ servers \in [Hosts -> Seq(ServerStates)]
  /\ server \in [Hosts -> Nat]
  /\ \A h \in Hosts : server[h] \in 0..Len(servers[h])
  /\ calls \in 0..MaxCalls
  /\ func \in {"start", "stop"} /\ mode \in {"seq", "par", "host"}
  /\ workers \in Pools \cup {0}
  /\ asked \subseteq Hosts /\ todo \subseteq asked /\ failed \subseteq asked
  /\ timeouts \subseteq failed
  /\ result \in {"pending", "ok", "raised", "late"}
  /\ noticed \in BOOLEAN
  /\ jobs \subseteq Jobs

(* When nothing runs on a host, Host.running says whether its server is    *)
(* up, whatever raised on the way.                                         *)
Consistent ==
  ~crowded => \A h \in Hosts : (\A j \in jobs : j.host # h) =>
                                 (running[h] <=> IsUp(h))

(* Every server that is up is the one its host refers to, so that the      *)
(* host's stop() will reach it: Host.start() and Host.stop() promise to    *)
(* guard against a second start and a second stop.                         *)
NoOrphan ==
  \A h \in Hosts : \A i \in 1..Len(servers[h]) :
    servers[h][i] = "up" => server[h] = i

(* The same while no call is made before the background of an earlier one  *)
(* is done, which is what the code guarantees.                             *)
NoOrphanUncrowded == ~crowded => NoOrphan

(* A start that returns has started all it was asked to, but for one whose *)
(* pool has raised TimeoutError: that one returns as if it had.  A stop    *)
(* that returns before the deadline has stopped it, every server of it.    *)
StartStarts ==
  ~crowded /\ Idle /\ func = "start" /\ result # "raised" =>
    (\A h \in asked : running[h]) \/ timeouts # {}
StopStops ==
  ~crowded /\ result = "ok" /\ func = "stop" =>
    \A h \in asked : /\ ~running[h]
                     /\ \A i \in 1..Len(servers[h]) : servers[h][i] = "down"

(* A call that returns or raises leaves nothing running in the background, *)
(* but for a parallel one: a stop() that misses its deadline, and a        *)
(* start() that takes the TimeoutError of a host for one.                  *)
NothingInBackground ==
  Idle /\ Mine # {} => /\ mode = "par" /\ result = "late"
                       /\ func = "stop" \/ timeouts # {}

(* A host that does not start keeps no other host of a parallel start from *)
(* being tried, unless it raises TimeoutError and that is taken for the    *)
(* deadline.                                                               *)
StartTriesAll ==
  ~crowded /\ Idle /\ mode = "par" /\ func = "start" /\ result # "late" =>
    \A h \in asked : running[h] \/ h \in failed

(* Every call returns.                                                     *)
CallsReturn == ~Idle ~> Idle

-----------------------------------------------------------------------------
(* The ith server of a host.  It holds its port while it is up or being    *)
(* stopped.                                                                *)
StateOf(h, i) == IF i \in 1..Len(servers[h]) THEN servers[h][i] ELSE "new"

ServerOf(h, i) ==
  INSTANCE Server WITH state <- StateOf(h, i), port <- StateOf(h, i) \in {"up", "stopping"}

(* Of two servers of a host one is down, so that a server that starts does *)
(* not find its predecessor on its port (which SO_REUSEPORT would let it   *)
(* share, servers.py:115).                                                 *)
OneServer ==
  ~crowded => \A h \in Hosts : \A i, k \in 1..Len(servers[h]) :
                i # k => servers[h][i] = "down" \/ servers[h][k] = "down"

(* Whatever the calls, also those made while a stop() runs on in the       *)
(* background, each server is only asked for what a server does: none is   *)
(* started twice, none is stopped that is not up, and none is said to be   *)
(* down that another job is stopping.                                      *)
ServersKept(places) == \A h \in Hosts, i \in places : ServerOf(h, i)!Spec

(* No call is ever stuck, whatever runs in the background: while it is     *)
(* pending it returns, has a failure to look at, a turn to give or a job,  *)
(* and every job has a next step.  Only self.server.start() could have     *)
(* none: the server that Host.start() finds there has not been started, or *)
(* is None by then (place 0, of which StateOf says "new" too).  These are  *)
(* the guards of Return, TakenForDeadline, NoticeFailure, TakeTurn and     *)
(* JobStep.                                                                *)
MayReturn == /\ Mine = {}
             /\ \/ todo = {} /\ (mode = "par" => failed = {} \/ noticed)
                \/ failed # {} /\ mode # "par"
MayNotice == mode = "par" /\ failed # {} /\ ~noticed
MayTakeTurn == /\ todo # {}
               /\ IF mode = "par" THEN Cardinality(Mine) < workers
                                  ELSE Mine = {} /\ failed = {}
MayStep(j) == j.pc = "serve" => StateOf(j.host, server[j.host]) = "new"

NeverStuck ==
  /\ ~Idle => MayReturn \/ MayNotice \/ MayTakeTurn \/ Mine # {}
  /\ \A j \in jobs : MayStep(j)
=============================================================================
