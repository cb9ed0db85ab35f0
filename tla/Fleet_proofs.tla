---------------------------- MODULE Fleet_proofs ----------------------------
(***************************************************************************)
(* Proofs about Fleet, for any hosts, pools and number of calls.           *)
(*                                                                         *)
(* IInv, the inductive invariant, says where each server of a host is      *)
(* while a job is at each place of Host.start() or Host.stop(), and what   *)
(* a call has done to the hosts whose turn is over.  It holds until a call *)
(* is made while another is left in the background.                        *)
(***************************************************************************)
EXTENDS Fleet, FiniteSetTheorems, SequenceTheorems, TLAPS

(* The state of the host's server; None is as good as one that is down.    *)
State(h) == IF server[h] = 0 THEN "down" ELSE servers[h][server[h]]

AtRest(h) == /\ State(h) \in {"up", "down"}
             /\ running[h] <=> State(h) = "up"

(* What holds of host h while a job that works on it is at pc.             *)
Fits(h, pc, srv) ==
  /\ pc \in {"check", "halt"} => AtRest(h)
  /\ pc = "create" => State(h) = "down" /\ ~running[h]
  /\ pc = "serve" => server[h] # 0 /\ State(h) = "new" /\ ~running[h]
  /\ pc = "mark" => State(h) = "up" /\ ~running[h]
  /\ pc = "halt" => server[h] # 0
  /\ pc = "halting" => server[h] # 0 /\ State(h) = "stopping" /\ srv = server[h]
  /\ pc = "clear" => State(h) = "down"
  /\ pc = "unmark" => server[h] = 0

FuncOf(pc) == IF pc \in {"create", "serve", "mark"} THEN {"start"}
              ELSE IF pc = "check" THEN {"start", "stop"} ELSE {"stop"}

(* No job is of a call to come, and the jobs of the last call are at hosts *)
(* it was asked about.                                                     *)
JobsKnown ==
  \A j \in jobs : j.call <= calls /\ (j.call = calls => j.host \in asked)

TypeInv == TypeOK /\ JobsKnown

Untouched(h) == \A j \in jobs : j.host # h

OldDown(h) ==
  \A i \in 1..Len(servers[h]) : i # server[h] => servers[h][i] = "down"

HostFits(h) ==
  /\ OldDown(h)
  /\ Untouched(h) => AtRest(h)
  /\ \A j \in jobs : j.host = h => Fits(h, j.pc, j.srv)

HostsFit == \A h \in Hosts : HostFits(h)

JobsFit ==
  /\ \A j \in jobs : /\ j.call = calls /\ j.func = func /\ j.host \notin todo
                     /\ j.func \in FuncOf(j.pc)
  /\ \A j, k \in jobs : j.host = k.host => j = k

TurnsOver ==
  /\ result = "late" => func = "stop" \/ timeouts # {}
  /\ result = "ok" => failed = {}
  /\ result = "pending" \/ todo = {}
  /\ result \in {"pending", "ok"} \/ (result = "raised" /\ mode = "par") =>
       \A h \in asked : \/ h \in todo \/ h \in failed \/ ~Untouched(h)
                        \/ running[h] = (func = "start")

IInv ==
  /\ TypeInv
  /\ NothingInBackground
  /\ ~crowded => JobsFit /\ HostsFit /\ TurnsOver

-----------------------------------------------------------------------------
(* Types                                                                   *)

(* Changing one place of a sequence changes nothing else of it.            *)
LEMMA SetAt ==
  ASSUME NEW S, NEW s \in Seq(S), NEW i, NEW x \in S
  PROVE  /\ [s EXCEPT ![i] = x] \in Seq(S)
         /\ Len([s EXCEPT ![i] = x]) = Len(s)
<1>1. CASE i \in 1..Len(s)
  BY <1>1, ExceptSeq
<1>2. CASE i \notin 1..Len(s)
  <2>1. [s EXCEPT ![i] = x] = s
    BY <1>2, LenProperties
  <2>. QED  BY <1>2, <2>1
<1>. QED  BY <1>1, <1>2

(* What a host's new list of servers may do to the types.                  *)
LEMMA NewServers ==
  ASSUME TypeOK, NEW h \in Hosts, NEW t \in Seq(ServerStates),
         Len(t) >= Len(servers[h]),
         servers' = [servers EXCEPT ![h] = t],
         NEW i \in 0..Len(t), server' = [server EXCEPT ![h] = i]
  PROVE  /\ servers' \in [Hosts -> Seq(ServerStates)]
         /\ server' \in [Hosts -> Nat]
         /\ \A g \in Hosts : server'[g] \in 0..Len(servers'[g])
  BY DEF TypeOK

LEMMA TypeInit == Init => TypeInv
<1> SUFFICES ASSUME Init PROVE TypeInv
  OBVIOUS
<1>1. servers \in [Hosts -> Seq(ServerStates)]
  BY EmptySeq DEF Init
<1>2. \A h \in Hosts : server[h] \in 0..Len(servers[h])
  BY EmptySeq DEF Init
<1>3. calls \in 0..MaxCalls /\ workers \in Pools \cup {0}
  BY FleetAssumption DEF Init
<1>4. running \in [Hosts -> BOOLEAN] /\ server \in [Hosts -> Nat]
  BY DEF Init
<1>5. JobsKnown
  BY DEF Init, JobsKnown
<1>. QED  BY <1>1, <1>2, <1>3, <1>4, <1>5 DEF Init, TypeInv, TypeOK

LEMMA TypeBegins ==
  ASSUME TypeInv, NEW f \in {"start", "stop"}, NEW m \in {"seq", "par", "host"},
         NEW n \in Pools \cup {0}, NEW hs \in SUBSET Hosts,
         NEW targets \in SUBSET hs, Begins(f, m, n, hs, targets)
  PROVE  TypeInv'
<1>1. calls' \in 0..MaxCalls /\ calls' = calls + 1 /\ calls \in Nat
  BY FleetAssumption DEF TypeInv, TypeOK, Begins
<1>2. JobsKnown'
  <2>1. \A j \in jobs : j.call <= calls /\ j.call \in Nat
    BY FleetAssumption DEF TypeInv, TypeOK, JobsKnown, Jobs
  <2>. QED  BY <1>1, <2>1 DEF JobsKnown, Begins
<1>3. TypeOK'
  BY <1>1 DEF TypeInv, TypeOK, Begins, hostVars, Jobs, JobPcs, ServerStates
<1>. QED  BY <1>2, <1>3 DEF TypeInv

LEMMA TypeStep ==
  ASSUME TypeInv, NEW j \in jobs, JobStep(j)
  PROVE  TypeInv'
<1> DEFINE h == j.host
<1> USE DEF JobFrame, callVars, hostVars
<1>1. /\ j \in Jobs /\ h \in Hosts /\ j.srv \in Nat
      /\ servers[h] \in Seq(ServerStates) /\ server[h] \in 0..Len(servers[h])
      /\ Len(servers[h]) \in Nat
  BY DEF TypeInv, TypeOK, Jobs
<1>2. UNCHANGED <<calls, func, mode, workers, asked, crowded, result, todo, noticed>>
  BY DEF JobStep, StartGuard, CreateServer, StartServer, MarkRunning,
         StopGuard, HaltServer, ServerHalted, ClearServer, UnmarkRunning
<1>3. SUFFICES /\ running' \in [Hosts -> BOOLEAN]
               /\ servers' \in [Hosts -> Seq(ServerStates)]
               /\ server' \in [Hosts -> Nat]
               /\ \A g \in Hosts : server'[g] \in 0..Len(servers'[g])
               /\ \/ \E pc \in JobPcs, srv \in Nat : Move(j, pc, srv)
                  \/ Finish(j) \/ Raise(j) \/ RaiseTimeout(j)
  <2>1. CASE \E pc \in JobPcs, srv \in Nat : Move(j, pc, srv)
    <3>1. PICK pc \in JobPcs, srv \in Nat : Move(j, pc, srv)
      BY <2>1
    <3> DEFINE k == [j EXCEPT !.pc = pc, !.srv = srv]
    <3>2. k \in Jobs /\ k.call = j.call /\ k.host = j.host
      BY <1>1 DEF Jobs
    <3>3. jobs' = (jobs \ {j}) \cup {k} /\ failed' = failed /\ timeouts' = timeouts
      BY <3>1 DEF Move
    <3>4. jobs' \subseteq Jobs /\ JobsKnown'
      BY <1>2, <3>2, <3>3 DEF TypeInv, TypeOK, JobsKnown
    <3>. QED  BY <1>2, <1>3, <3>3, <3>4 DEF TypeInv, TypeOK, Jobs
  <2>2. CASE Finish(j) \/ Raise(j) \/ RaiseTimeout(j)
    <3>1. /\ jobs' = jobs \ {j} /\ failed' \subseteq asked
          /\ timeouts' \subseteq failed'
      BY <2>2 DEF Finish, Raise, RaiseTimeout, TypeInv, TypeOK, JobsKnown
    <3>. QED  BY <1>2, <1>3, <3>1 DEF TypeInv, TypeOK, Jobs, JobsKnown
  <2>. QED  BY <1>3, <2>1, <2>2
<1> USE DEF TypeInv, TypeOK
<1>4. CASE StartGuard(j)
  BY <1>4 DEF StartGuard, JobPcs
<1>5. CASE CreateServer(j)
  <2>1. CASE UNCHANGED <<server, servers>>
    BY <1>5, <2>1 DEF CreateServer, JobPcs
  <2>2. CASE ~UNCHANGED <<server, servers>>
    <3> DEFINE t == Append(servers[h], "new")
    <3>1. t \in Seq(ServerStates) /\ Len(t) = Len(servers[h]) + 1
      BY <1>1, AppendProperties DEF ServerStates
    <3>2. servers' = [servers EXCEPT ![h] = t]
          /\ server' = [server EXCEPT ![h] = Len(servers[h]) + 1]
          /\ Move(j, "serve", 0) /\ UNCHANGED running
      BY <1>5, <2>2 DEF CreateServer
    <3> HIDE DEF t
    <3>3. Len(servers[h]) + 1 \in 0..Len(t) /\ Len(t) >= Len(servers[h])
      BY <1>1, <3>1
    <3>. QED  BY <1>1, <3>1, <3>2, <3>3, NewServers DEF JobPcs
  <2>. QED  BY <2>1, <2>2
<1>6. ASSUME NEW i, NEW x \in ServerStates,
             servers' = [servers EXCEPT ![h][i] = x]
      PROVE  /\ servers' \in [Hosts -> Seq(ServerStates)]
             /\ \A g \in Hosts : Len(servers'[g]) = Len(servers[g])
  <2> DEFINE t == [servers[h] EXCEPT ![i] = x]
  <2>1. t \in Seq(ServerStates) /\ Len(t) = Len(servers[h])
    <3> DEFINE s == servers[h]
    <3>1. s \in Seq(ServerStates)
      BY <1>1
    <3> HIDE DEF s
    <3>2. [s EXCEPT ![i] = x] \in Seq(ServerStates)
          /\ Len([s EXCEPT ![i] = x]) = Len(s)
      BY ONLY <3>1, x \in ServerStates, SetAt
    <3>. QED  BY ONLY <3>2 DEF s, t
  <2>2. servers' = [servers EXCEPT ![h] = t]
    BY <1>6
  <2> HIDE DEF t
  <2>. QED  BY <1>1, <2>1, <2>2
<1>7. CASE StartServer(j)
  <2>1. CASE (Raise(j) \/ RaiseTimeout(j)) /\ UNCHANGED servers
    BY <1>7, <2>1 DEF StartServer
  <2>2. CASE ~((Raise(j) \/ RaiseTimeout(j)) /\ UNCHANGED servers)
    <3>1. PICK x \in {"up", "down"} :
            servers' = [servers EXCEPT ![h][server[h]] = x]
      BY <1>7, <2>2 DEF StartServer
    <3>2. /\ servers' \in [Hosts -> Seq(ServerStates)]
          /\ \A g \in Hosts : Len(servers'[g]) = Len(servers[g])
      BY <1>6, <3>1 DEF ServerStates
    <3>. QED  BY <1>7, <3>2 DEF StartServer, JobPcs
  <2>. QED  BY <2>1, <2>2
<1>8. CASE MarkRunning(j)
  BY <1>8 DEF MarkRunning
<1>9. CASE StopGuard(j)
  BY <1>9 DEF StopGuard, JobPcs
<1>10. CASE HaltServer(j)
  <2>1. CASE UNCHANGED servers
    BY <1>1, <1>10, <2>1 DEF HaltServer, JobPcs
  <2>2. CASE ~UNCHANGED servers
    <3>1. servers' = [servers EXCEPT ![h][server[h]] = "stopping"]
      BY <1>10, <2>2 DEF HaltServer
    <3>2. /\ servers' \in [Hosts -> Seq(ServerStates)]
          /\ \A g \in Hosts : Len(servers'[g]) = Len(servers[g])
      BY <1>6, <3>1 DEF ServerStates
    <3>. QED  BY <1>1, <1>10, <2>2, <3>2 DEF HaltServer, JobPcs
  <2>. QED  BY <2>1, <2>2
<1>11. CASE ServerHalted(j)
  <2>1. /\ servers' \in [Hosts -> Seq(ServerStates)]
        /\ \A g \in Hosts : Len(servers'[g]) = Len(servers[g])
    BY <1>6, <1>11 DEF ServerHalted, ServerStates
  <2>. QED  BY <1>11, <2>1 DEF ServerHalted, JobPcs
<1>12. CASE ClearServer(j)
  BY <1>1, <1>12 DEF ClearServer, JobPcs
<1>13. CASE UnmarkRunning(j)
  BY <1>13 DEF UnmarkRunning
<1>. QED
  BY <1>4, <1>5, <1>7, <1>8, <1>9, <1>10, <1>11, <1>12, <1>13 DEF JobStep

LEMMA TypeNext == TypeInv /\ [Next]_vars => TypeInv'
<1> SUFFICES ASSUME TypeInv, [Next]_vars PROVE TypeInv'
  OBVIOUS
<1>1. CASE CallOverHosts
  <2>1. PICK f \in {"start", "stop"}, hs \in Choices :
          \E m \in {"seq", "par"}, n \in Pools \cup {0}, targets \in SUBSET hs :
            Begins(f, m, n, hs, targets)
    BY <1>1 DEF CallOverHosts
  <2>2. hs \in SUBSET Hosts
    BY FleetAssumption
  <2>. QED  BY <2>1, <2>2, TypeBegins
<1>2. CASE CallHost
  BY <1>2, TypeBegins DEF CallHost
<1>3. ASSUME NEW h \in Hosts, TakeTurn(h) PROVE TypeInv'
  <2>1. [call |-> calls, host |-> h, func |-> func, pc |-> "check", srv |-> 0]
          \in Jobs
    BY DEF TypeInv, TypeOK, Jobs, JobPcs
  <2>2. jobs' \subseteq Jobs /\ JobsKnown'
    BY <1>3, <2>1, FleetAssumption
       DEF TakeTurn, TypeInv, TypeOK, JobsKnown, callVars
  <2>. QED  BY <1>3, <2>2 DEF TakeTurn, TypeInv, TypeOK, hostVars, callVars, Jobs
<1>4. CASE MissDeadline \/ TakenForDeadline \/ NoticeFailure \/ Return
  BY <1>4 DEF MissDeadline, TakenForDeadline, NoticeFailure, Return, hostVars, callVars,
              TypeInv, TypeOK, JobsKnown, Jobs
<1>5. ASSUME NEW j \in jobs, JobStep(j) PROVE TypeInv'
  BY <1>5, TypeStep
<1>6. CASE UNCHANGED vars
  BY <1>6 DEF vars, hostVars, callVars, runVars, TypeInv, TypeOK, JobsKnown, Jobs
<1>. QED  BY <1>1, <1>2, <1>3, <1>4, <1>5, <1>6 DEF Next

(* TypeOK holds: every variable keeps its type, and a host's server is     *)
(* one that was made for it.                                               *)
THEOREM TypeCorrect == Spec => []TypeOK
<1>1. Spec => []TypeInv
  BY TypeInit, TypeNext, PTL DEF Spec
<1>2. TypeInv => TypeOK
  BY DEF TypeInv
<1>. QED  BY <1>1, <1>2, PTL

-----------------------------------------------------------------------------
(* The inductive invariant                                                 *)

LEMMA FitInit == Init => IInv
<1> SUFFICES ASSUME Init PROVE IInv
  OBVIOUS
<1>1. TypeInv
  BY TypeInit
<1>2. \A h \in Hosts : Len(servers[h]) = 0
  BY EmptySeq DEF Init
<1>3. HostsFit
  BY <1>2 DEF Init, HostsFit, HostFits, OldDown, AtRest, State
<1>. QED  BY <1>1, <1>3 DEF Init, IInv, NothingInBackground, Mine, JobsFit, TurnsOver

(* What a job does at its own host leaves the other hosts as they are.     *)
LEMMA OtherHostFits ==
  ASSUME HostsFit, NEW g \in Hosts,
         running'[g] = running[g], server'[g] = server[g],
         servers'[g] = servers[g],
         {k \in jobs' : k.host = g} = {k \in jobs : k.host = g}
  PROVE  HostFits(g)' /\ (Untouched(g)' <=> Untouched(g))
<1>1. State(g)' = State(g) /\ (AtRest(g)' <=> AtRest(g))
  BY DEF State, AtRest
<1>2. \A pc, srv : Fits(g, pc, srv)' <=> Fits(g, pc, srv)
  BY <1>1 DEF Fits
<1>3. Untouched(g)' <=> Untouched(g)
  BY DEF Untouched
<1>4. OldDown(g)'
  BY DEF HostsFit, HostFits, OldDown
<1>5. ASSUME NEW k \in jobs', k.host = g PROVE Fits(g, k.pc, k.srv)'
  BY <1>2, <1>5 DEF HostsFit, HostFits
<1>. QED  BY <1>1, <1>3, <1>4, <1>5 DEF HostsFit, HostFits

OnlyAt(h) ==
  \A g \in Hosts \ {h} : /\ running'[g] = running[g]
                         /\ server'[g] = server[g]
                         /\ servers'[g] = servers[g]

(* A job that goes on: what is left to show of it is that its host fits    *)
(* its new place.                                                          *)
LEMMA MoveFits ==
  ASSUME TypeInv, JobsFit, HostsFit, TurnsOver, NEW j \in jobs,
         NEW pc \in JobPcs, NEW srv \in Nat, Move(j, pc, srv), JobFrame,
         j.func \in FuncOf(pc), OnlyAt(j.host),
         OldDown(j.host)', Fits(j.host, pc, srv)'
  PROVE  JobsFit' /\ HostsFit' /\ TurnsOver'
<1> DEFINE h == j.host
           k == [j EXCEPT !.pc = pc, !.srv = srv]
<1>1. j \in Jobs /\ h \in Hosts
  BY DEF TypeInv, TypeOK, Jobs
<1>2. /\ k.call = j.call /\ k.host = h /\ k.func = j.func
      /\ k.pc = pc /\ k.srv = srv
  BY <1>1 DEF Jobs
<1>3. jobs' = (jobs \ {j}) \cup {k} /\ failed' = failed /\ timeouts' = timeouts
  BY DEF Move
<1> HIDE DEF k
<1>4. \A i \in jobs : i.host = h => i = j
  BY DEF JobsFit
<1>5. JobsFit'
  BY <1>2, <1>3, <1>4 DEF JobsFit, JobFrame, callVars
<1>6. ~Untouched(h)'
  BY <1>2, <1>3 DEF Untouched
<1>7. HostFits(h)'
  BY <1>2, <1>3, <1>4, <1>6 DEF HostFits
<1>8. ASSUME NEW g \in Hosts, g # h
      PROVE  HostFits(g)' /\ (Untouched(g)' <=> Untouched(g))
  <2>1. {i \in jobs' : i.host = g} = {i \in jobs : i.host = g}
    BY <1>2, <1>3, <1>8
  <2>. QED  BY <1>8, <2>1, OtherHostFits DEF OnlyAt
<1>9. TurnsOver'
  BY <1>1, <1>3, <1>6, <1>8 DEF TurnsOver, JobFrame, callVars, OnlyAt, TypeInv, TypeOK
<1>. QED  BY <1>5, <1>7, <1>8, <1>9 DEF HostsFit

(* A job that ends, having failed or having done what was asked for.       *)
LEMMA EndFits ==
  ASSUME TypeInv, JobsFit, HostsFit, TurnsOver, NothingInBackground,
         NEW j \in jobs, jobs' = jobs \ {j}, failed \subseteq failed',
         timeouts \subseteq timeouts', JobFrame,
         OnlyAt(j.host), OldDown(j.host)', AtRest(j.host)',
         ~Idle => j.host \in failed' \/ running'[j.host] = (func = "start")
  PROVE  JobsFit' /\ HostsFit' /\ TurnsOver'
<1> DEFINE h == j.host
<1>1. h \in Hosts
  BY DEF TypeInv, TypeOK, Jobs
<1>2. \A i \in jobs : i.host = h => i = j
  BY DEF JobsFit
<1>3. JobsFit'
  BY DEF JobsFit, JobFrame, callVars
<1>4. Untouched(h)'
  BY <1>2 DEF Untouched
<1>5. HostFits(h)'
  BY <1>2 DEF HostFits
<1>6. ASSUME NEW g \in Hosts, g # h
      PROVE  HostFits(g)' /\ (Untouched(g)' <=> Untouched(g))
  <2>1. {i \in jobs' : i.host = g} = {i \in jobs : i.host = g}
    BY <1>6
  <2>. QED  BY <1>6, <2>1, OtherHostFits DEF OnlyAt
<1>7. result \in {"pending", "late"}
  BY DEF JobsFit, NothingInBackground, Mine, Idle
<1>8. TurnsOver'
  BY <1>1, <1>6, <1>7
     DEF TurnsOver, JobFrame, callVars, OnlyAt, Idle, TypeInv, TypeOK
<1>. QED  BY <1>3, <1>5, <1>6, <1>8 DEF HostsFit

(* Every step of Host.start() and Host.stop().                             *)
LEMMA FitStep ==
  ASSUME IInv, ~crowded, NEW j \in jobs, JobStep(j)
  PROVE  JobsFit' /\ HostsFit' /\ TurnsOver'
<1> DEFINE h == j.host
<1> USE DEF IInv
<1>1. /\ j \in Jobs /\ h \in Hosts /\ j.srv \in Nat
      /\ servers[h] \in Seq(ServerStates) /\ server[h] \in 0..Len(servers[h])
      /\ Len(servers[h]) \in Nat
      /\ running \in [Hosts -> BOOLEAN] /\ server \in [Hosts -> Nat]
      /\ servers \in [Hosts -> Seq(ServerStates)]
      /\ func \in {"start", "stop"}
  BY DEF TypeInv, TypeOK, Jobs
<1>2. /\ OldDown(h) /\ Fits(h, j.pc, j.srv)
      /\ j.call = calls /\ j.func = func /\ j.func \in FuncOf(j.pc)
  BY <1>1 DEF JobsFit, HostsFit, HostFits
<1>3. JobFrame
  BY DEF JobStep, StartGuard, CreateServer, StartServer, MarkRunning,
         StopGuard, HaltServer, ServerHalted, ClearServer, UnmarkRunning
<1>4. ASSUME UNCHANGED hostVars PROVE OnlyAt(h) /\ OldDown(h)' /\
                                      (AtRest(h)' <=> AtRest(h))
  BY <1>2, <1>4 DEF OnlyAt, OldDown, AtRest, State, hostVars
<1>5. ASSUME Finish(j) \/ Raise(j) \/ RaiseTimeout(j)
      PROVE  /\ jobs' = jobs \ {j} /\ failed \subseteq failed'
             /\ timeouts \subseteq timeouts'
             /\ ~Idle /\ (Raise(j) \/ RaiseTimeout(j)) => h \in failed'
  BY <1>2, <1>5 DEF Finish, Raise, RaiseTimeout
<1>6. CASE StartGuard(j)
  <2>1. CASE running[h]
    BY <1>1, <1>2, <1>3, <1>4, <1>5, <1>6, <2>1, EndFits
       DEF StartGuard, Fits, hostVars
  <2>2. CASE ~running[h]
    <3>1. Move(j, "create", 0) /\ AtRest(h)
      BY <1>2, <1>6, <2>2 DEF StartGuard, Fits
    <3>2. Fits(h, "create", 0)'
      BY <1>1, <1>6, <2>2, <3>1 DEF StartGuard, Fits, AtRest, State, hostVars, ServerStates
    <3>. QED  BY <1>3, <1>4, <1>6, <3>1, <3>2, MoveFits DEF StartGuard, FuncOf, JobPcs
  <2>. QED  BY <2>1, <2>2
<1>7. CASE CreateServer(j)
  <2>1. State(h) = "down" /\ ~running[h]
    BY <1>2, <1>7 DEF CreateServer, Fits
  <2>2. CASE (Raise(j) \/ RaiseTimeout(j)) /\ UNCHANGED <<server, servers>>
    <3>1. UNCHANGED hostVars /\ AtRest(h)
      BY <1>7, <2>1, <2>2 DEF CreateServer, hostVars, AtRest
    <3>. QED  BY <1>3, <1>4, <1>5, <2>2, <3>1, EndFits
  <2>3. CASE ~((Raise(j) \/ RaiseTimeout(j)) /\ UNCHANGED <<server, servers>>)
    <3> DEFINE n == Len(servers[h]) + 1
               t == Append(servers[h], "new")
    <3>1. /\ servers' = [servers EXCEPT ![h] = t]
          /\ server' = [server EXCEPT ![h] = n]
          /\ running' = running /\ Move(j, "serve", 0)
      BY <1>7, <2>3 DEF CreateServer
    <3>2. /\ Len(t) = n /\ t[n] = "new"
          /\ \A i \in 1..Len(servers[h]) : t[i] = servers[h][i]
      BY <1>1, AppendProperties DEF ServerStates
    <3>3. \A i \in 1..Len(servers[h]) : servers[h][i] = "down"
      BY <1>2, <2>1 DEF OldDown, State
    <3> HIDE DEF t
    <3>4. /\ OnlyAt(h) /\ servers'[h] = t /\ server'[h] = n /\ n # 0
          /\ running'[h] = running[h]
      BY <1>1, <3>1 DEF OnlyAt
    <3>5. OldDown(h)'
      BY <1>1, <3>2, <3>3, <3>4 DEF OldDown
    <3>6. Fits(h, "serve", 0)'
      BY <2>1, <3>2, <3>4 DEF Fits, State
    <3>. QED  BY <1>2, <1>3, <1>7, <3>1, <3>4, <3>5, <3>6, MoveFits
              DEF CreateServer, FuncOf, JobPcs
  <2>. QED  BY <2>2, <2>3
<1>8. ASSUME NEW x \in ServerStates, server[h] # 0,
             servers' = [servers EXCEPT ![h][server[h]] = x],
             UNCHANGED <<running, server>>
      PROVE  /\ OnlyAt(h) /\ OldDown(h)' /\ State(h)' = x
             /\ server'[h] = server[h] /\ running'[h] = running[h]
  <2>1. OnlyAt(h)
    BY <1>1, <1>8 DEF OnlyAt
  <2>2. servers'[h] = [servers[h] EXCEPT ![server[h]] = x]
    BY <1>1, <1>8
  <2>3. server[h] \in 1..Len(servers[h])
    BY <1>1, <1>8
  <2>4. /\ Len(servers'[h]) = Len(servers[h])
        /\ \A i \in 1..Len(servers[h]) :
             servers'[h][i] = IF i = server[h] THEN x ELSE servers[h][i]
    BY <1>1, <2>2, <2>3, ExceptSeq
  <2>. QED  BY <1>2, <1>8, <2>1, <2>3, <2>4 DEF OldDown, State
<1>9. CASE StartServer(j)
  <2>1. server[h] # 0 /\ State(h) = "new" /\ ~running[h] /\ j.func = "start"
    BY <1>2, <1>9 DEF StartServer, Fits, FuncOf
  <2>2. CASE servers' = [servers EXCEPT ![h][server[h]] = "up"] /\ Move(j, "mark", 0)
    <3>1. /\ OnlyAt(h) /\ OldDown(h)' /\ State(h)' = "up"
          /\ running'[h] = running[h]
      BY <1>8, <1>9, <2>1, <2>2 DEF StartServer, ServerStates
    <3>2. Fits(h, "mark", 0)'
      BY <2>1, <3>1 DEF Fits
    <3>. QED  BY <1>3, <2>1, <2>2, <3>1, <3>2, MoveFits DEF FuncOf, JobPcs
  <2>3. CASE /\ servers' = [servers EXCEPT ![h][server[h]] = "down"]
             /\ Raise(j) \/ RaiseTimeout(j)
    <3>1. /\ OnlyAt(h) /\ OldDown(h)' /\ State(h)' = "down"
          /\ running'[h] = running[h]
      BY <1>8, <1>9, <2>1, <2>3 DEF StartServer, ServerStates
    <3>2. AtRest(h)'
      BY <2>1, <3>1 DEF AtRest
    <3>. QED  BY <1>3, <1>5, <2>3, <3>1, <3>2, EndFits
  <2>. QED  BY <1>9, <2>1, <2>2, <2>3 DEF StartServer
<1>10. CASE MarkRunning(j)
  <2>1. /\ OnlyAt(h) /\ OldDown(h)' /\ running'[h] = TRUE /\ Finish(j)
        /\ State(h)' = State(h)
    BY <1>1, <1>2, <1>10 DEF MarkRunning, OnlyAt, OldDown, State
  <2>2. State(h) = "up" /\ func = "start"
    BY <1>2, <1>10 DEF MarkRunning, Fits, FuncOf
  <2>3. AtRest(h)'
    BY <2>1, <2>2 DEF AtRest
  <2>. QED  BY <1>3, <1>5, <2>1, <2>2, <2>3, EndFits
<1>11. CASE StopGuard(j)
  <2>1. UNCHANGED hostVars /\ AtRest(h) /\ func = "stop"
    BY <1>2, <1>11 DEF StopGuard, Fits
  <2>2. CASE server[h] = 0
    <3>1. Finish(j) /\ running'[h] = (func = "start")
      BY <1>1, <1>11, <2>1, <2>2 DEF StopGuard, AtRest, State, hostVars
    <3>. QED  BY <1>3, <1>4, <1>5, <2>1, <3>1, EndFits
  <2>3. CASE server[h] # 0
    <3>1. Move(j, "halt", 0) /\ Fits(h, "halt", 0)'
      BY <1>4, <1>11, <2>1, <2>3 DEF StopGuard, Fits, hostVars
    <3>. QED  BY <1>2, <1>3, <1>4, <2>1, <3>1, MoveFits DEF FuncOf, JobPcs
  <2>. QED  BY <2>2, <2>3
<1>12. CASE HaltServer(j)
  <2>1. AtRest(h) /\ server[h] # 0 /\ func = "stop"
    BY <1>2, <1>12 DEF HaltServer, Fits, FuncOf
  <2>2. CASE servers' = [servers EXCEPT ![h][server[h]] = "stopping"]
             /\ Move(j, "halting", server[h])
    <3>1. /\ OnlyAt(h) /\ OldDown(h)' /\ State(h)' = "stopping"
          /\ server'[h] = server[h]
      BY <1>8, <1>12, <2>1, <2>2 DEF HaltServer, ServerStates
    <3>2. Fits(h, "halting", server[h])'
      BY <2>1, <3>1 DEF Fits
    <3>. QED  BY <1>1, <1>2, <1>3, <2>1, <2>2, <3>1, <3>2, MoveFits DEF FuncOf, JobPcs
  <2>3. CASE ~IsUp(h) /\ Move(j, "clear", 0) /\ UNCHANGED servers
    <3>1. UNCHANGED hostVars /\ State(h) = "down"
      BY <1>12, <2>1, <2>3 DEF HaltServer, hostVars, AtRest, State, IsUp
    <3>2. Fits(h, "clear", 0)'
      BY <3>1 DEF Fits, State, hostVars
    <3>. QED  BY <1>2, <1>3, <1>4, <2>1, <2>3, <3>1, <3>2, MoveFits DEF FuncOf, JobPcs
  <2>. QED  BY <1>12, <2>1, <2>2, <2>3 DEF HaltServer
<1>13. CASE ServerHalted(j)
  <2>1. server[h] # 0 /\ j.srv = server[h] /\ func = "stop"
    BY <1>2, <1>13 DEF ServerHalted, Fits, FuncOf
  <2>2. OnlyAt(h) /\ OldDown(h)' /\ State(h)' = "down"
    BY <1>8, <1>13, <2>1 DEF ServerHalted, ServerStates
  <2>3. Fits(h, "clear", 0)'
    BY <2>2 DEF Fits
  <2>. QED  BY <1>2, <1>3, <1>13, <2>1, <2>2, <2>3, MoveFits
            DEF ServerHalted, FuncOf, JobPcs
<1>14. CASE ClearServer(j)
  <2>1. State(h) = "down" /\ func = "stop"
    BY <1>2, <1>14 DEF ClearServer, Fits, FuncOf
  <2>2. OnlyAt(h) /\ server'[h] = 0 /\ servers' = servers /\ Move(j, "unmark", 0)
    BY <1>1, <1>14 DEF ClearServer, OnlyAt
  <2>3. OldDown(h)'
    BY <1>2, <2>1, <2>2 DEF OldDown, State
  <2>4. Fits(h, "unmark", 0)'
    BY <2>2 DEF Fits
  <2>. QED  BY <1>2, <1>3, <2>1, <2>2, <2>3, <2>4, MoveFits DEF FuncOf, JobPcs
<1>15. CASE UnmarkRunning(j)
  <2>1. /\ OnlyAt(h) /\ OldDown(h)' /\ running'[h] = FALSE /\ Finish(j)
        /\ State(h)' = State(h)
    BY <1>1, <1>2, <1>15 DEF UnmarkRunning, OnlyAt, OldDown, State
  <2>2. State(h) = "down" /\ func = "stop"
    BY <1>2, <1>15 DEF UnmarkRunning, Fits, FuncOf, State
  <2>3. AtRest(h)'
    BY <2>1, <2>2 DEF AtRest
  <2>. QED  BY <1>3, <1>5, <2>1, <2>2, <2>3, EndFits
<1>. QED
  BY <1>6, <1>7, <1>9, <1>10, <1>11, <1>12, <1>13, <1>14, <1>15 DEF JobStep

LEMMA BackgroundNext ==
  ASSUME TypeInv, NothingInBackground, [Next]_vars
  PROVE  NothingInBackground'
<1>1. CASE CallOverHosts \/ CallHost
  BY <1>1 DEF CallOverHosts, CallHost, Begins, NothingInBackground, Idle
<1>2. ASSUME NEW h \in Hosts, TakeTurn(h) PROVE NothingInBackground'
  BY <1>2 DEF TakeTurn, NothingInBackground, Idle
<1>3. CASE MissDeadline \/ TakenForDeadline \/ NoticeFailure \/ Return
  BY <1>3 DEF MissDeadline, TakenForDeadline, NoticeFailure, Return, NothingInBackground, Idle,
              Mine, callVars
<1>4. ASSUME NEW j \in jobs, JobStep(j) PROVE NothingInBackground'
  <2>1. UNCHANGED <<calls, func, mode, result>>
    BY <1>4 DEF JobFrame, callVars, JobStep, StartGuard, CreateServer,
                StartServer, MarkRunning, StopGuard, HaltServer, ServerHalted,
                ClearServer, UnmarkRunning
  <2>2. /\ timeouts \subseteq timeouts'
        /\ \/ jobs' = jobs \ {j}
           \/ \E k : k.call = j.call /\ jobs' = (jobs \ {j}) \cup {k}
    <3>1. j \in Jobs
      BY DEF TypeInv, TypeOK
    <3>2. \A pc, srv : [j EXCEPT !.pc = pc, !.srv = srv].call = j.call
      BY <3>1 DEF Jobs
    <3>3. \/ Finish(j) \/ Raise(j) \/ RaiseTimeout(j) \/ \E pc, srv : Move(j, pc, srv)
      BY <1>4 DEF JobStep, StartGuard, CreateServer,
                  StartServer, MarkRunning, StopGuard, HaltServer, ServerHalted,
                  ClearServer, UnmarkRunning
    <3>. QED  BY <3>2, <3>3 DEF Finish, Raise, RaiseTimeout, Move
  <2>. QED  BY <2>1, <2>2 DEF NothingInBackground, Idle, Mine
<1>5. CASE UNCHANGED vars
  BY <1>5 DEF vars, runVars, callVars, NothingInBackground, Idle, Mine
<1>. QED  BY <1>1, <1>2, <1>3, <1>4, <1>5 DEF Next

(* A call finds every host at rest.  The hosts it passes over are what it  *)
(* was to make of them.                                                    *)
LEMMA FitBegins ==
  ASSUME IInv, NEW f \in {"start", "stop"}, NEW m, NEW n, NEW hs \in SUBSET Hosts,
         NEW targets \in SUBSET hs, Begins(f, m, n, hs, targets), ~crowded',
         \A h \in hs \ targets : running[h] = (f = "start")
  PROVE  JobsFit' /\ HostsFit' /\ TurnsOver'
<1>1. /\ jobs = {} /\ jobs' = {} /\ ~crowded
      /\ UNCHANGED hostVars
  BY DEF Begins
<1>2. HostsFit'
  BY <1>1 DEF IInv, HostsFit, HostFits, OldDown, Untouched, AtRest, State, hostVars
<1>3. JobsFit'
  BY <1>1 DEF JobsFit
<1>4. TurnsOver'
  BY <1>1 DEF TurnsOver, Begins, hostVars
<1>. QED  BY <1>2, <1>3, <1>4

LEMMA FitTurn ==
  ASSUME IInv, ~crowded, NEW h \in Hosts, TakeTurn(h)
  PROVE  JobsFit' /\ HostsFit' /\ TurnsOver'
<1> DEFINE k == [call |-> calls, host |-> h, func |-> func,
                 pc |-> "check", srv |-> 0]
<1> USE DEF IInv
<1>1. /\ jobs' = jobs \cup {k} /\ todo' = todo \ {h} /\ h \in todo
      /\ UNCHANGED <<hostVars, callVars, result, failed, noticed>>
  BY DEF TakeTurn
<1>2. /\ k.call = calls /\ k.host = h /\ k.func = func /\ k.pc = "check" /\ k.srv = 0
      /\ k.func \in FuncOf(k.pc)
  BY DEF FuncOf, TypeInv, TypeOK
<1> HIDE DEF k
<1>3. Untouched(h)
  BY <1>1 DEF JobsFit, Untouched
<1>4. JobsFit'
  BY <1>1, <1>2, <1>3 DEF JobsFit, Untouched, callVars
<1>5. HostFits(h)'
  <2>1. AtRest(h)' /\ OldDown(h)'
    BY <1>1, <1>3 DEF HostsFit, HostFits, AtRest, State, OldDown, hostVars
  <2>2. \A i \in jobs' : i.host = h => i = k
    BY <1>1, <1>2, <1>3 DEF Untouched
  <2>3. Fits(h, "check", 0)'
    BY <1>2, <2>1 DEF Fits
  <2>. QED  BY <1>1, <1>2, <2>1, <2>2, <2>3 DEF HostFits
<1>6. ASSUME NEW g \in Hosts, g # h PROVE HostFits(g)'
  <2>1. {i \in jobs' : i.host = g} = {i \in jobs : i.host = g}
    BY <1>1, <1>2, <1>6
  <2>. QED  BY <1>1, <2>1, OtherHostFits DEF hostVars
<1>7. TurnsOver'
  BY <1>1, <1>2 DEF TurnsOver, Untouched, callVars, hostVars, TakeTurn, Idle
<1>. QED  BY <1>4, <1>5, <1>6, <1>7 DEF HostsFit

LEMMA FitReturn ==
  ASSUME IInv, ~crowded, MissDeadline \/ TakenForDeadline \/ NoticeFailure \/ Return
  PROVE  JobsFit' /\ HostsFit' /\ TurnsOver'
<1> USE DEF IInv
<1>1. UNCHANGED <<hostVars, callVars, failed, timeouts, jobs>> /\ todo' \subseteq todo
  BY DEF MissDeadline, TakenForDeadline, NoticeFailure, Return
<1>2. JobsFit' /\ HostsFit'
  BY <1>1 DEF JobsFit, HostsFit, HostFits, OldDown, Untouched, AtRest, State,
              Fits, hostVars, callVars
<1>3. CASE MissDeadline \/ TakenForDeadline
  BY <1>1, <1>2, <1>3 DEF MissDeadline, TakenForDeadline, TurnsOver, callVars
<1>4. CASE NoticeFailure
  BY <1>1, <1>2, <1>4 DEF NoticeFailure, TurnsOver, Untouched, callVars, hostVars
<1>5. CASE Return
  BY <1>1, <1>2, <1>5 DEF Return, TurnsOver, Untouched, callVars, hostVars, Idle
<1>. QED  BY <1>2, <1>3, <1>4, <1>5

LEMMA FitNext == IInv /\ [Next]_vars => IInv'
<1> SUFFICES ASSUME IInv, [Next]_vars PROVE IInv'
  OBVIOUS
<1>1. TypeInv' /\ NothingInBackground'
  BY TypeNext, BackgroundNext DEF IInv
<1>2. SUFFICES ASSUME ~crowded' PROVE JobsFit' /\ HostsFit' /\ TurnsOver'
  BY <1>1 DEF IInv
<1>3. CASE CallOverHosts
  <2>1. PICK f \in {"start", "stop"}, hs \in Choices :
          \E m \in {"seq", "par"}, n \in Pools \cup {0} :
            Begins(f, m, n, hs, {h \in hs : running[h] = (f = "stop")})
    BY <1>3 DEF CallOverHosts
  <2>2. hs \in SUBSET Hosts
    BY FleetAssumption
  <2>3. \A h \in hs \ {g \in hs : running[g] = (f = "stop")} :
          running[h] = (f = "start")
    BY <2>2 DEF IInv, TypeInv, TypeOK
  <2>. QED  BY <1>2, <2>1, <2>2, <2>3, FitBegins
<1>4. CASE CallHost
  BY <1>2, <1>4, FitBegins DEF CallHost
<1>5. ASSUME NEW h \in Hosts, TakeTurn(h) PROVE JobsFit' /\ HostsFit' /\ TurnsOver'
  BY <1>2, <1>5, FitTurn DEF TakeTurn, callVars
<1>6. CASE MissDeadline \/ TakenForDeadline \/ NoticeFailure \/ Return
  <2>1. UNCHANGED callVars
    BY <1>6 DEF MissDeadline, TakenForDeadline, NoticeFailure, Return
  <2>2. ~crowded
    BY <1>2, <2>1 DEF callVars
  <2>. QED  BY <1>6, <2>2, FitReturn
<1>7. ASSUME NEW j \in jobs, JobStep(j) PROVE JobsFit' /\ HostsFit' /\ TurnsOver'
  <2>1. ~crowded
    BY <1>2, <1>7 DEF JobFrame, callVars, JobStep, StartGuard, CreateServer,
                      StartServer, MarkRunning, StopGuard, HaltServer,
                      ServerHalted, ClearServer, UnmarkRunning
  <2>. QED  BY <1>7, <2>1, FitStep
<1>8. CASE UNCHANGED vars
  BY <1>2, <1>8 DEF IInv, vars, runVars, callVars, hostVars, JobsFit, HostsFit,
                    HostFits, OldDown, Untouched, AtRest, State, Fits, TurnsOver
<1>. QED  BY <1>3, <1>4, <1>5, <1>6, <1>7, <1>8 DEF Next

-----------------------------------------------------------------------------
(* The theorems                                                            *)

LEMMA Invariance == Spec => []IInv
  BY FitInit, FitNext, PTL DEF Spec

(* NothingInBackground holds: only a parallel stop() that misses its       *)
(* deadline leaves Host.stop() calls running when it returns, and only a   *)
(* parallel start() in which a host raised TimeoutError its Host.start()   *)
(* calls.                                                                  *)
THEOREM BackgroundCorrect == Spec => []NothingInBackground
<1>1. IInv => NothingInBackground
  BY DEF IInv
<1>. QED  BY <1>1, Invariance, PTL

(* Consistent holds: where nothing runs on a host, Host.running says       *)
(* whether its server is up.                                               *)
THEOREM ConsistencyCorrect == Spec => []Consistent
<1>1. IInv => Consistent
  BY DEF IInv, TypeInv, TypeOK, Consistent, HostsFit, HostFits, Untouched, AtRest, State, IsUp
<1>. QED  BY <1>1, Invariance, PTL

(* NoOrphanUncrowded holds: a server that is up is the one its host refers *)
(* to, so that Host.stop() reaches it.                                     *)
THEOREM NoOrphanCorrect == Spec => []NoOrphanUncrowded
<1>1. IInv => NoOrphanUncrowded
  BY DEF IInv, NoOrphanUncrowded, NoOrphan, HostsFit, HostFits, OldDown
<1>. QED  BY <1>1, Invariance, PTL

(* StartStarts holds: after a start() that returns the hosts run, or one   *)
(* of its pool has raised TimeoutError.                                    *)
THEOREM StartsCorrect == Spec => []StartStarts
<1>1. IInv => StartStarts
  BY DEF IInv, TypeInv, TypeOK, StartStarts, TurnsOver, JobsFit, Untouched,
         NothingInBackground, Idle, Mine
<1>. QED  BY <1>1, Invariance, PTL

(* StopStops holds: after a stop() that returns in time the hosts do not   *)
(* run and every server they ever had is down.                             *)
THEOREM StopsCorrect == Spec => []StopStops
<1>1. IInv => StopStops
  <2> SUFFICES ASSUME IInv, ~crowded, result = "ok", func = "stop",
                      NEW h \in asked
               PROVE  /\ ~running[h]
                      /\ \A i \in 1..Len(servers[h]) : servers[h][i] = "down"
    BY DEF StopStops
  <2>1. jobs = {} /\ h \in Hosts
    BY DEF IInv, TypeInv, TypeOK, JobsFit, NothingInBackground, Idle, Mine
  <2>2. ~running[h]
    BY <2>1 DEF IInv, TypeInv, TypeOK, TurnsOver, Untouched
  <2>3. State(h) = "down" /\ OldDown(h)
    BY <2>1, <2>2 DEF IInv, HostsFit, HostFits, Untouched, AtRest
  <2>. QED  BY <2>2, <2>3 DEF State, OldDown
<1>. QED  BY <1>1, Invariance, PTL

(* StartTriesAll holds: a host that does not start keeps no other host of  *)
(* a parallel start from being tried, unless its TimeoutError is taken for *)
(* the deadline.                                                           *)
THEOREM TriesAllCorrect == Spec => []StartTriesAll
<1>1. IInv => StartTriesAll
  BY DEF IInv, TypeInv, TypeOK, StartTriesAll, TurnsOver, JobsFit, Untouched,
         NothingInBackground, Idle, Mine
<1>. QED  BY <1>1, Invariance, PTL

(* OneServer holds: a server that is not the host's last one is down.      *)
THEOREM OneServerCorrect == Spec => []OneServer
<1>1. IInv => OneServer
  BY DEF IInv, OneServer, HostsFit, HostFits, OldDown
<1>. QED  BY <1>1, Invariance, PTL

-----------------------------------------------------------------------------
(* The servers of a fleet are servers as Server has them, crowded or not.  *)
(* A job that waits for a server's stop() is the only one that does, and   *)
(* that server is being stopped.                                           *)

Halting(j) == j.pc = "halting"

HaltingInv ==
  \A j \in jobs : Halting(j) =>
    /\ StateOf(j.host, j.srv) = "stopping"
    /\ \A k \in jobs : Halting(k) /\ k.host = j.host /\ k.srv = j.srv => k = j

KeptInv == TypeInv /\ HaltingInv

(* A new server has been there before, as one that was not made.           *)
LEMMA MakesOne ==
  ASSUME TypeInv, NEW h \in Hosts, servers' = [servers EXCEPT ![h] = Append(@, "new")]
  PROVE  /\ \A g \in Hosts : Len(servers'[g]) >= Len(servers[g])
         /\ \A g \in Hosts, k \in Nat : StateOf(g, k)' = StateOf(g, k)
<1> DEFINE s == servers[h]
           t == Append(s, "new")
<1>1. servers \in [Hosts -> Seq(ServerStates)] /\ s \in Seq(ServerStates)
  BY DEF TypeInv, TypeOK
<1>2. /\ Len(s) \in Nat /\ Len(t) = Len(s) + 1 /\ t[Len(s) + 1] = "new"
      /\ \A k \in 1..Len(s) : t[k] = s[k]
  BY <1>1, AppendProperties, LenProperties DEF ServerStates
<1>3. /\ servers'[h] = t
      /\ \A g \in Hosts : g # h => servers'[g] = servers[g]
  BY <1>1
<1> HIDE DEF s, t
<1>4. \A k \in Nat : StateOf(h, k)' = StateOf(h, k)
  <2> TAKE k \in Nat
  <2>1. k \in 1..Len(t) <=> k \in 1..Len(s) \/ k = Len(s) + 1
    BY <1>2
  <2>. QED  BY <1>2, <1>3, <2>1 DEF StateOf, s
<1>5. \A g \in Hosts, k \in Nat : g # h => StateOf(g, k)' = StateOf(g, k)
  BY <1>3 DEF StateOf
<1>6. \A g \in Hosts : Len(servers[g]) \in Nat
  BY <1>1, LenProperties
<1>. QED  BY <1>2, <1>3, <1>4, <1>5, <1>6 DEF s

(* What a step of a job does to the servers: nothing, or one of them goes  *)
(* on from one state to another.                                           *)
Stands == \A g \in Hosts, k \in Nat : StateOf(g, k)' = StateOf(g, k)

GoesOn(h, i, old, new) ==
  /\ StateOf(h, i) = old
  /\ \A g \in Hosts, k \in Nat :
       StateOf(g, k)' = IF g = h /\ k = i THEN new ELSE StateOf(g, k)

NoneWaits == \A k \in jobs' : k \in jobs \/ ~Halting(k)

(* Changing the ith server of a host changes no other server.              *)
LEMMA StateGoesOn ==
  ASSUME TypeInv, NEW h \in Hosts, NEW i \in Nat, NEW old \in ServerStates, NEW x \in ServerStates,
         StateOf(h, i) = old, i # 0 /\ i <= Len(servers[h]),
         servers' = [servers EXCEPT ![h][i] = x]
  PROVE  GoesOn(h, i, old, x)
<1> DEFINE s == servers[h]
           t == [s EXCEPT ![i] = x]
<1>1. /\ servers \in [Hosts -> Seq(ServerStates)] /\ s \in Seq(ServerStates)
      /\ i \in 1..Len(s)
  BY LenProperties DEF TypeInv, TypeOK
<1>2. servers' = [servers EXCEPT ![h] = t]
  OBVIOUS
<1>3. t \in Seq(ServerStates) /\ Len(t) = Len(s)
  BY <1>1, SetAt
<1>4. t[i] = x /\ \A k \in 1..Len(s) : k # i => t[k] = s[k]
  BY <1>1, LenProperties
<1> HIDE DEF t
<1>5. /\ servers'[h] = t
      /\ \A g \in Hosts : g # h => servers'[g] = servers[g]
  BY <1>1, <1>2
<1>6. \A k \in Nat : StateOf(h, k)' = IF k = i THEN x ELSE StateOf(h, k)
  BY <1>1, <1>3, <1>4, <1>5 DEF StateOf
<1>7. \A g \in Hosts, k \in Nat : g # h => StateOf(g, k)' = StateOf(g, k)
  BY <1>5 DEF StateOf
<1>. QED  BY <1>6, <1>7 DEF GoesOn

LEMMA MovesOrEnds ==
  ASSUME TypeInv, NEW j \in jobs, NEW pc \in JobPcs \ {"halting"}, NEW srv \in Nat,
         Move(j, pc, srv) \/ Finish(j) \/ Raise(j) \/ RaiseTimeout(j)
  PROVE  NoneWaits
<1>1. j \in Jobs
  BY DEF TypeInv, TypeOK
<1>2. [j EXCEPT !.pc = pc, !.srv = srv].pc = pc
  BY <1>1 DEF Jobs
<1>. QED  BY <1>2 DEF NoneWaits, Move, Finish, Raise, RaiseTimeout, Halting

LEMMA StepEffect ==
  ASSUME KeptInv, NEW j \in jobs, JobStep(j)
  PROVE  \/ Stands /\ NoneWaits
         \/ /\ j.pc = "serve" /\ NoneWaits
            /\ \E i \in Nat, x \in {"up", "down"} : GoesOn(j.host, i, "new", x)
         \/ /\ GoesOn(j.host, server[j.host], "up", "stopping")
            /\ Move(j, "halting", server[j.host])
         \/ /\ Halting(j) /\ GoesOn(j.host, j.srv, "stopping", "down")
            /\ NoneWaits /\ j \notin jobs'
<1> DEFINE h == j.host
           i == server[h]
<1>1. /\ j \in Jobs /\ h \in Hosts /\ j.srv \in Nat /\ i \in Nat
      /\ servers[h] \in Seq(ServerStates) /\ i \in 0..Len(servers[h])
      /\ Len(servers[h]) \in Nat
  BY DEF KeptInv, TypeInv, TypeOK, Jobs
<1>2. ASSUME UNCHANGED servers PROVE Stands
  BY <1>2 DEF Stands, StateOf
<1>3. /\ {"check", "create", "serve", "mark", "halt", "clear", "unmark"} \subseteq JobPcs \ {"halting"}
      /\ {"new", "up", "stopping", "down"} \subseteq ServerStates
  BY DEF JobPcs, ServerStates
<1>4. i # 0 => StateOf(h, i) = servers[h][i]
  BY <1>1 DEF StateOf
<1> USE DEF KeptInv
<1>5. CASE \/ StartGuard(j) \/ MarkRunning(j) \/ StopGuard(j) \/ ClearServer(j)
           \/ UnmarkRunning(j)
  <2>1. UNCHANGED servers
    BY <1>5 DEF StartGuard, MarkRunning, StopGuard, ClearServer, UnmarkRunning, hostVars
  <2>2. \/ \E pc \in {"create", "halt", "unmark"} : Move(j, pc, 0)
        \/ Finish(j)
    BY <1>5 DEF StartGuard, MarkRunning, StopGuard, ClearServer, UnmarkRunning
  <2>3. NoneWaits
    BY <1>3, <2>2, MovesOrEnds
  <2>. QED  BY <1>2, <2>1, <2>3
<1>6. CASE CreateServer(j)
  <2>1. Move(j, "serve", 0) \/ Raise(j) \/ RaiseTimeout(j)
    BY <1>6 DEF CreateServer
  <2>2. NoneWaits
    BY <1>3, <2>1, MovesOrEnds
  <2>3. Stands
    <3>1. CASE UNCHANGED servers
      BY <1>2, <3>1
    <3>2. CASE servers' = [servers EXCEPT ![h] = Append(@, "new")]
      BY <1>1, <3>2, MakesOne DEF Stands
    <3>. QED  BY <1>6, <3>1, <3>2 DEF CreateServer
  <2>. QED  BY <2>2, <2>3
<1>7. CASE StartServer(j)
  <2>1. Move(j, "mark", 0) \/ Raise(j) \/ RaiseTimeout(j)
    BY <1>7 DEF StartServer
  <2>2. NoneWaits
    BY <1>3, <2>1, MovesOrEnds
  <2>3. CASE UNCHANGED servers
    BY <1>2, <2>2, <2>3
  <2>4. CASE ~UNCHANGED servers
    <3>1. PICK x \in {"up", "down"} : /\ i # 0 /\ servers[h][i] = "new"
                                      /\ servers' = [servers EXCEPT ![h][i] = x]
      BY <1>7, <2>4 DEF StartServer
    <3>2. /\ "new" \in ServerStates /\ x \in ServerStates
          /\ StateOf(h, i) = "new" /\ i <= Len(servers[h])
      BY <1>1, <1>3, <1>4, <3>1
    <3>3. GoesOn(h, i, "new", x)
      BY <1>1, <3>1, <3>2, StateGoesOn
    <3>. QED  BY <1>1, <1>7, <2>2, <3>3 DEF StartServer
  <2>. QED  BY <2>3, <2>4
<1>8. CASE HaltServer(j)
  <2>1. CASE UNCHANGED servers /\ (Raise(j) \/ Move(j, "clear", 0))
    <3>1. NoneWaits
      BY <1>3, <2>1, MovesOrEnds
    <3>. QED  BY <1>2, <2>1, <3>1
  <2>2. CASE /\ IsUp(h) /\ servers' = [servers EXCEPT ![h][i] = "stopping"]
             /\ Move(j, "halting", i)
    <3>1. i # 0 /\ servers[h][i] = "up"
      BY <2>2 DEF IsUp
    <3>2. /\ "up" \in ServerStates /\ "stopping" \in ServerStates
          /\ StateOf(h, i) = "up" /\ i <= Len(servers[h])
      BY <1>1, <1>3, <1>4, <3>1
    <3>3. GoesOn(h, i, "up", "stopping")
      BY <1>1, <2>2, <3>1, <3>2, StateGoesOn
    <3>. QED  BY <2>2, <3>3
  <2>. QED  BY <1>8, <2>1, <2>2 DEF HaltServer
<1>9. CASE ServerHalted(j)
  <2>1. /\ Halting(j) /\ Move(j, "clear", 0)
        /\ servers' = [servers EXCEPT ![h][j.srv] = "down"]
    BY <1>9 DEF ServerHalted, Halting
  <2>2. StateOf(h, j.srv) = "stopping"
    BY <2>1 DEF HaltingInv
  <2>3. j.srv # 0 /\ j.srv <= Len(servers[h])
    BY <1>1, <2>2 DEF StateOf
  <2>4. GoesOn(h, j.srv, "stopping", "down")
    BY <1>1, <1>3, <2>1, <2>2, <2>3, StateGoesOn
  <2>5. NoneWaits
    BY <1>3, <2>1, MovesOrEnds
  <2>6. j \notin jobs'
    <3>1. [j EXCEPT !.pc = "clear", !.srv = 0].pc = "clear"
      BY <1>1 DEF Jobs
    <3>. QED  BY <2>1, <3>1 DEF Move, Halting
  <2>. QED  BY <2>1, <2>4, <2>5, <2>6
<1>. QED  BY <1>5, <1>6, <1>7, <1>8, <1>9 DEF JobStep

LEMMA HaltingStep ==
  ASSUME KeptInv, NEW j \in jobs, JobStep(j)
  PROVE  HaltingInv'
<1>1. \A k \in jobs : k.host \in Hosts /\ k.srv \in Nat
  BY DEF KeptInv, TypeInv, TypeOK, Jobs
<1>2. \A k \in jobs : Halting(k) =>
        /\ StateOf(k.host, k.srv) = "stopping"
        /\ \A l \in jobs : Halting(l) /\ l.host = k.host /\ l.srv = k.srv => l = k
  BY DEF KeptInv, HaltingInv
<1>3. CASE Stands /\ NoneWaits
  BY <1>1, <1>2, <1>3 DEF HaltingInv, Stands, NoneWaits
<1>4. ASSUME NEW i \in Nat, NEW x \in {"up", "down"}, GoesOn(j.host, i, "new", x), NoneWaits
      PROVE  HaltingInv'
  <2>1. \A k \in jobs : Halting(k) => StateOf(k.host, k.srv)' = "stopping"
    BY <1>1, <1>2, <1>4 DEF GoesOn
  <2>. QED  BY <1>2, <1>4, <2>1 DEF HaltingInv, NoneWaits
<1>5. CASE /\ GoesOn(j.host, server[j.host], "up", "stopping")
           /\ Move(j, "halting", server[j.host])
  <2>1. PICK n : n = [j EXCEPT !.pc = "halting", !.srv = server[j.host]]
    OBVIOUS
  <2>2. /\ n.host = j.host /\ n.srv = server[j.host] /\ server[j.host] \in Nat
        /\ jobs' = (jobs \ {j}) \cup {n}
    BY <1>5, <2>1 DEF KeptInv, TypeInv, TypeOK, Jobs, Move
  <2>3. StateOf(n.host, n.srv)' = "stopping"
    BY <1>1, <1>5, <2>2 DEF GoesOn
  <2>4. \A k \in jobs : Halting(k) => /\ StateOf(k.host, k.srv)' = "stopping"
                                      /\ ~(k.host = n.host /\ k.srv = n.srv)
    BY <1>1, <1>2, <1>5, <2>2 DEF GoesOn
  <2>5. \A k \in jobs' : k = n \/ k \in jobs
    BY <2>2
  <2>. QED  BY <1>2, <2>3, <2>4, <2>5 DEF HaltingInv
<1>6. CASE /\ Halting(j) /\ GoesOn(j.host, j.srv, "stopping", "down")
           /\ NoneWaits /\ j \notin jobs'
  <2>1. \A k \in jobs : Halting(k) /\ k # j => StateOf(k.host, k.srv)' = "stopping"
    BY <1>1, <1>2, <1>6 DEF GoesOn
  <2>. QED  BY <1>2, <1>6, <2>1 DEF HaltingInv, NoneWaits
<1>. QED  BY <1>3, <1>4, <1>5, <1>6, StepEffect

LEMMA KeptNext ==
  ASSUME KeptInv, [Next]_vars
  PROVE  KeptInv' /\ \A h \in Hosts, i \in Nat :
                       ServerOf(h, i)!Next \/ UNCHANGED ServerOf(h, i)!vars
<1>1. TypeInv'
  BY TypeNext DEF KeptInv
<1>2. ASSUME Stands PROVE \A h \in Hosts, i \in Nat : UNCHANGED ServerOf(h, i)!vars
  BY <1>2 DEF Stands, ServerOf!vars
<1>3. CASE \E j \in jobs : JobStep(j)
  <2>1. PICK j \in jobs : JobStep(j)
    BY <1>3
  <2>2. j.host \in Hosts /\ j.srv \in Nat /\ server[j.host] \in Nat
    BY DEF KeptInv, TypeInv, TypeOK, Jobs
  <2>3. ASSUME NEW i \in Nat, NEW old, NEW new, GoesOn(j.host, i, old, new),
               <<old, new>> \in {<<"new", "up">>, <<"new", "down">>, <<"up", "stopping">>,
                                  <<"stopping", "down">>},
               NEW g \in Hosts, NEW k \in Nat
        PROVE  ServerOf(g, k)!Next \/ UNCHANGED ServerOf(g, k)!vars
    <3>1. CASE g = j.host /\ k = i
      <4>1. StateOf(g, k) = old /\ StateOf(g, k)' = new
        BY <2>3, <3>1 DEF GoesOn
      <4>. QED  BY <2>3, <4>1 DEF ServerOf!Next, ServerOf!Serve, ServerOf!Fail, ServerOf!Halt,
                                  ServerOf!Halted
    <3>2. CASE ~(g = j.host /\ k = i)
      <4>1. StateOf(g, k)' = StateOf(g, k)
        BY <2>3, <3>2 DEF GoesOn
      <4>. QED  BY <4>1 DEF ServerOf!vars
    <3>. QED  BY <3>1, <3>2
  <2>4. \A g \in Hosts, k \in Nat : ServerOf(g, k)!Next \/ UNCHANGED ServerOf(g, k)!vars
    BY <1>2, <2>1, <2>2, <2>3, StepEffect
  <2>. QED  BY <1>1, <2>1, <2>4, HaltingStep DEF KeptInv
<1>4. CASE ~(\E j \in jobs : JobStep(j))
  <2>1. UNCHANGED servers
    BY <1>4 DEF Next, CallOverHosts, CallHost, Begins, TakeTurn, MissDeadline, TakenForDeadline,
                NoticeFailure, Return, vars, hostVars
  <2>2. Stands
    BY <2>1 DEF Stands, StateOf
  <2>3. NoneWaits
    <3>1. CASE UNCHANGED jobs
      BY <3>1 DEF NoneWaits
    <3>2. ASSUME NEW h \in Hosts, TakeTurn(h) PROVE NoneWaits
      <4>1. PICK n : /\ n = [call |-> calls, host |-> h, func |-> func, pc |-> "check", srv |-> 0]
                     /\ jobs' = jobs \cup {n}
        BY <3>2 DEF TakeTurn
      <4>. QED  BY <4>1 DEF NoneWaits, Halting
    <3>. QED  BY <1>4, <3>1, <3>2 DEF Next, CallOverHosts, CallHost, Begins, MissDeadline,
                                      TakenForDeadline, NoticeFailure, Return, vars, runVars
  <2>4. HaltingInv'
    <3>1. \A k \in jobs : k.host \in Hosts /\ k.srv \in Nat
      BY DEF KeptInv, TypeInv, TypeOK, Jobs
    <3>. QED  BY <2>2, <2>3, <3>1 DEF KeptInv, HaltingInv, Stands, NoneWaits
  <2>. QED  BY <1>1, <1>2, <2>2, <2>4 DEF KeptInv
<1>. QED  BY <1>3, <1>4

(* Every server that is ever made for a host lives as Server says, whether *)
(* or not calls run while others are left in the background: it is started *)
(* once, stopped once, by one job, and down for good after that            *)
(* (Host.start, Host.stop).                                                *)
THEOREM ServersCorrect == Spec => ServersKept(Nat)
<1> SUFFICES ASSUME NEW h \in Hosts, NEW i \in Nat PROVE Spec => ServerOf(h, i)!Spec
  BY DEF ServersKept
<1>1. Init => ServerOf(h, i)!Init
  <2> SUFFICES ASSUME Init PROVE ServerOf(h, i)!Init
    OBVIOUS
  <2>1. Len(servers[h]) = 0
    BY EmptySeq DEF Init
  <2>. QED  BY <2>1 DEF ServerOf!Init, StateOf
<1>2. Init => KeptInv
  BY TypeInit DEF Init, KeptInv, HaltingInv
<1>3. KeptInv /\ [Next]_vars => KeptInv' /\ [ServerOf(h, i)!Next]_(ServerOf(h, i)!vars)
  BY KeptNext
<1>. QED  BY <1>1, <1>2, <1>3, PTL DEF Spec, ServerOf!Spec

-----------------------------------------------------------------------------
(* No call is ever stuck.  Every start() has been waited for when another  *)
(* call is made, so that at most one Host.start() works on a host, and     *)
(* what it has made stays as it is until it gets there: a stop() left in   *)
(* the background may drop it, but the server it waits for is another one  *)
(* (HaltingInv).                                                           *)

StarterInv ==
  /\ \A j \in jobs : j.func \in FuncOf(j.pc)
  /\ \A j \in Mine : j.func = func /\ j.host \notin todo
  /\ \A j \in jobs : j.func = "start" => j.call = calls
  /\ \A j, k \in Mine : j.host = k.host => j = k
  /\ mode = "par" => workers \in Pools

MadeInv == KeptInv /\ StarterInv /\ \A j \in jobs : MayStep(j)

(* A job that goes on keeps what StarterInv says of it.                    *)
LEMMA StarterMoves ==
  ASSUME TypeInv, StarterInv, NEW j \in jobs, NEW k, jobs' = (jobs \ {j}) \cup {k},
         k.call = j.call, k.host = j.host, k.func = j.func, k.func \in FuncOf(k.pc),
         UNCHANGED <<callVars, result, todo>>
  PROVE  StarterInv'
BY DEF StarterInv, Mine, Idle, callVars

LEMMA StarterEnds ==
  ASSUME StarterInv, NEW j \in jobs, jobs' = jobs \ {j}, UNCHANGED <<callVars, result, todo>>
  PROVE  StarterInv'
BY DEF StarterInv, Mine, Idle, callVars

LEMMA StarterStep ==
  ASSUME TypeInv, StarterInv, NEW j \in jobs, JobStep(j)
  PROVE  StarterInv'
<1>1. j \in Jobs /\ j.func \in FuncOf(j.pc)
  BY DEF TypeInv, TypeOK, StarterInv
<1>2. UNCHANGED <<callVars, result, todo>>
  BY DEF JobFrame, JobStep, StartGuard, CreateServer, StartServer, MarkRunning, StopGuard,
         HaltServer, ServerHalted, ClearServer, UnmarkRunning
<1>3. \/ \E pc \in JobPcs : \E srv : Move(j, pc, srv) /\ j.func \in FuncOf(pc)
      \/ Finish(j) \/ Raise(j) \/ RaiseTimeout(j)
  BY <1>1 DEF JobStep, StartGuard, CreateServer, StartServer, MarkRunning, StopGuard,
              HaltServer, ServerHalted, ClearServer, UnmarkRunning, FuncOf, JobPcs
<1>4. ASSUME NEW pc \in JobPcs, NEW srv, Move(j, pc, srv), j.func \in FuncOf(pc)
      PROVE  StarterInv'
  <2>1. PICK k : k = [j EXCEPT !.pc = pc, !.srv = srv]
    OBVIOUS
  <2>2. /\ k.call = j.call /\ k.host = j.host /\ k.func = j.func /\ k.pc = pc
        /\ jobs' = (jobs \ {j}) \cup {k}
    BY <1>1, <1>4, <2>1 DEF Jobs, Move
  <2>. QED  BY <1>2, <1>4, <2>2, StarterMoves
<1>5. CASE Finish(j) \/ Raise(j) \/ RaiseTimeout(j)
  BY <1>2, <1>5, StarterEnds DEF Finish, Raise, RaiseTimeout
<1>. QED  BY <1>3, <1>4, <1>5

LEMMA StarterNext ==
  ASSUME TypeInv, StarterInv, [Next]_vars
  PROVE  StarterInv'
<1>1. ASSUME NEW f \in {"start", "stop"}, NEW m \in {"seq", "par", "host"}, NEW n, NEW hs,
             NEW targets, m = "par" => n \in Pools, Begins(f, m, n, hs, targets)
      PROVE  StarterInv'
  <2>1. Mine' = {}
    <3>1. calls' = calls + 1 /\ jobs' = jobs /\ calls \in Nat
      BY <1>1, FleetAssumption DEF Begins, TypeInv, TypeOK
    <3>2. \A j \in jobs : j.call <= calls /\ j.call \in Nat
      BY FleetAssumption DEF TypeInv, TypeOK, JobsKnown, Jobs
    <3>. QED  BY <3>1, <3>2 DEF Mine
  <2>2. \A j \in jobs : j.func # "start"
    BY <1>1 DEF Begins, StartsAwaited
  <2>. QED  BY <1>1, <2>1, <2>2 DEF StarterInv, Begins
<1>2. CASE CallOverHosts
  BY <1>1, <1>2 DEF CallOverHosts
<1>3. CASE CallHost
  BY <1>1, <1>3 DEF CallHost
<1>4. ASSUME NEW h \in Hosts, TakeTurn(h) PROVE StarterInv'
  <2>1. PICK n : /\ n = [call |-> calls, host |-> h, func |-> func, pc |-> "check", srv |-> 0]
                 /\ jobs' = jobs \cup {n}
    BY <1>4 DEF TakeTurn
  <2>2. n.call = calls /\ n.host = h /\ n.func = func /\ n.func \in FuncOf(n.pc)
    BY <2>1 DEF FuncOf, TypeInv, TypeOK
  <2>3. ~Idle /\ h \in todo /\ todo' = todo \ {h} /\ UNCHANGED <<callVars, result>>
    BY <1>4 DEF TakeTurn
  <2>. QED  BY <2>1, <2>2, <2>3 DEF StarterInv, Mine, Idle, callVars
<1>5. CASE MissDeadline \/ TakenForDeadline \/ NoticeFailure \/ Return
  <2>1. UNCHANGED <<callVars, jobs>> /\ todo' \subseteq todo
    BY <1>5 DEF MissDeadline, TakenForDeadline, NoticeFailure, Return
  <2>. QED  BY <2>1 DEF StarterInv, Mine, callVars
<1>6. CASE \E j \in jobs : JobStep(j)
  BY <1>6, StarterStep
<1>7. CASE UNCHANGED vars
  BY <1>7 DEF vars, runVars, callVars, StarterInv, Mine, Idle
<1>. QED  BY <1>2, <1>3, <1>4, <1>5, <1>6, <1>7 DEF Next

(* What a job may do to Host.server and to which of its hosts, and what    *)
(* Host.start() waits for next.                                            *)
LEMMA ServerEffect ==
  ASSUME TypeInv, NEW j \in jobs, JobStep(j)
  PROVE  /\ \A g \in Hosts : \/ server'[g] = server[g]
                             \/ server'[g] = 0
                             \/ g = j.host /\ j.pc = "create"
         /\ \A k \in jobs' : \/ k.pc = "serve" => k \in jobs /\ k # j
                             \/ k.host = j.host /\ StateOf(k.host, server[k.host])' = "new"
<1>1. /\ j \in Jobs /\ j.host \in Hosts /\ server \in [Hosts -> Nat]
      /\ servers[j.host] \in Seq(ServerStates) /\ servers \in [Hosts -> Seq(ServerStates)]
      /\ Len(servers[j.host]) \in Nat
  BY DEF TypeInv, TypeOK, Jobs
<1>2. ASSUME NEW pc, NEW srv, Move(j, pc, srv)
      PROVE  \E k : k.pc = pc /\ k.host = j.host /\ jobs' = (jobs \ {j}) \cup {k}
  <2>1. PICK k : k = [j EXCEPT !.pc = pc, !.srv = srv]
    OBVIOUS
  <2>2. k.pc = pc /\ k.host = j.host
    BY <1>1, <2>1 DEF Jobs
  <2>. QED  BY <1>2, <2>1, <2>2 DEF Move
<1>3. CASE (Finish(j) \/ Raise(j) \/ RaiseTimeout(j)) /\ UNCHANGED server
  BY <1>3 DEF Finish, Raise, RaiseTimeout
<1>4. CASE CreateServer(j) /\ ~((Raise(j) \/ RaiseTimeout(j)) /\ UNCHANGED server)
  <2> DEFINE h == j.host
             n == Len(servers[h]) + 1
             t == Append(servers[h], "new")
  <2>1. /\ servers' = [servers EXCEPT ![h] = t] /\ server' = [server EXCEPT ![h] = n]
        /\ Move(j, "serve", 0) /\ j.pc = "create"
    BY <1>4 DEF CreateServer
  <2>2. Len(t) = n /\ t[n] = "new"
    BY <1>1, AppendProperties DEF ServerStates
  <2> HIDE DEF t
  <2>3. /\ servers'[h] = t /\ server'[h] = n
        /\ \A g \in Hosts : g # h => server'[g] = server[g]
    BY <1>1, <2>1
  <2>4. StateOf(h, server[h])' = "new"
    BY <2>2, <2>3 DEF StateOf
  <2>5. PICK k : k.pc = "serve" /\ k.host = h /\ jobs' = (jobs \ {j}) \cup {k}
    BY <1>2, <2>1
  <2>. QED  BY <2>1, <2>3, <2>4, <2>5
<1>5. CASE /\ \E pc \in JobPcs \ {"serve"} : \E srv : Move(j, pc, srv)
           /\ UNCHANGED server \/ server' = [server EXCEPT ![j.host] = 0]
  <2>1. \A k \in jobs' : k.pc = "serve" => k \in jobs /\ k # j
    BY <1>2, <1>5
  <2>2. \A g \in Hosts : server'[g] = server[g] \/ server'[g] = 0
    BY <1>1, <1>5
  <2>. QED  BY <2>1, <2>2
<1>6. StartGuard(j) \/ StopGuard(j) => UNCHANGED server
  BY DEF StartGuard, StopGuard, hostVars
<1>. QED  BY <1>3, <1>4, <1>5, <1>6
          DEF JobStep, StartGuard, CreateServer, StartServer, MarkRunning, StopGuard,
              HaltServer, ServerHalted, ClearServer, UnmarkRunning, JobPcs

LEMMA MadeStep ==
  ASSUME MadeInv, NEW j \in jobs, JobStep(j)
  PROVE  (\A k \in jobs : MayStep(k))'
<1> SUFFICES ASSUME NEW k \in jobs', k.pc = "serve" PROVE StateOf(k.host, server[k.host])' = "new"
  BY DEF MayStep
<1> USE DEF MadeInv, KeptInv
<1>1. CASE k.host = j.host /\ StateOf(k.host, server[k.host])' = "new"
  BY <1>1
<1>2. CASE k \in jobs /\ k # j
  <2>1. /\ k.host \in Hosts /\ server[k.host] \in Nat /\ StateOf(k.host, server[k.host]) = "new"
        /\ j.srv \in Nat /\ server[j.host] \in Nat
    BY <1>2 DEF TypeInv, TypeOK, Jobs, MayStep
  <2>2. j.pc \in {"create", "serve"} => j.host # k.host
    BY <1>2 DEF StarterInv, FuncOf, Mine
  <2>3. CASE server'[k.host] = 0
    BY <2>3 DEF StateOf
  <2>4. CASE server'[k.host] = server[k.host]
    <3>1. PICK n \in Nat : n = server[k.host]
      BY <2>1
    <3>2. StateOf(k.host, n)' = "new"
      BY <2>1, <2>2, <3>1, StepEffect DEF Stands, GoesOn
    <3>. QED  BY <2>4, <3>1, <3>2 DEF StateOf
  <2>. QED  BY <1>2, <2>1, <2>2, <2>3, <2>4, ServerEffect
<1>. QED  BY <1>1, <1>2, ServerEffect

LEMMA MadeNext ==
  ASSUME MadeInv, [Next]_vars
  PROVE  MadeInv'
<1>1. KeptInv' /\ StarterInv'
  BY KeptNext, StarterNext DEF MadeInv, KeptInv
<1>2. CASE \E j \in jobs : JobStep(j)
  BY <1>1, <1>2, MadeStep DEF MadeInv
<1>3. CASE ~(\E j \in jobs : JobStep(j))
  <2>1. UNCHANGED hostVars
    BY <1>3 DEF Next, CallOverHosts, CallHost, Begins, TakeTurn, MissDeadline, TakenForDeadline,
                NoticeFailure, Return, vars
  <2>2. \A k \in jobs' : k \in jobs \/ k.pc # "serve"
    <3>1. CASE UNCHANGED jobs
      BY <3>1
    <3>2. ASSUME NEW h \in Hosts, TakeTurn(h)
          PROVE  \A k \in jobs' : k \in jobs \/ k.pc # "serve"
      <4>1. PICK n : /\ n = [call |-> calls, host |-> h, func |-> func, pc |-> "check", srv |-> 0]
                     /\ jobs' = jobs \cup {n}
        BY <3>2 DEF TakeTurn
      <4>. QED  BY <4>1
    <3>. QED  BY <1>3, <3>1, <3>2 DEF Next, CallOverHosts, CallHost, Begins, MissDeadline,
                                      TakenForDeadline, NoticeFailure, Return, vars, runVars
  <2>. QED  BY <1>1, <2>1, <2>2 DEF MadeInv, MayStep, StateOf, hostVars
<1>. QED  BY <1>2, <1>3

(* NeverStuck holds: whatever a stop() left in the background does to the  *)
(* hosts, no call is ever without a step to take.                          *)
THEOREM NeverStuckCorrect == Spec => []NeverStuck
<1>1. Init => MadeInv
  BY TypeInit DEF Init, MadeInv, KeptInv, HaltingInv, StarterInv, Mine
<1>2. MadeInv => NeverStuck
  <2> SUFFICES ASSUME MadeInv, ~Idle, Mine = {}, todo # {} PROVE MayReturn \/ MayNotice \/ MayTakeTurn
    BY DEF MadeInv, NeverStuck, MayReturn, MayNotice
  <2>1. Cardinality(Mine) = 0
    BY FS_EmptySet
  <2>2. mode = "par" => workers \in Nat \ {0}
    BY FleetAssumption DEF MadeInv, StarterInv
  <2>. QED  BY <2>1, <2>2 DEF MayReturn, MayTakeTurn
<1>. QED  BY <1>1, <1>2, MadeNext, PTL DEF Spec
=============================================================================
