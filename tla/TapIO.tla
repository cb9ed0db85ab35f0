------------------------------- MODULE TapIO -------------------------------
(***************************************************************************)
(* plugins/servers/tap_io.py: the queue of lines between a tap thread and  *)
(* the shell.  Several threads write (for the shell's stdin: the client    *)
(* tap and the watchdog; for its stdout: the shell and the client tap),    *)
(* one thread reads, with readline() or drain().                           *)
(*                                                                         *)
(* Every step here is one access to shared state: the deque is appended to *)
(* WITHOUT the lock of the condition variable, the reader polls run_srv    *)
(* and the deque while it holds the lock, and Condition.wait releases it.  *)
(* The deque is kept oldest first (appendleft is Append, pop is Head).     *)
(***************************************************************************)
EXTENDS Naturals, Sequences

CONSTANTS Producers,   \* the threads that write
          Reader,      \* the thread that reads
          MaxWrites    \* bound: number of lines written in all

ASSUME ReaderAssumption == Reader \notin Producers
ASSUME MaxWritesAssumption == MaxWrites \in Nat

VARIABLES lines,      \* the deque
          run_srv,    \* the event shared by the threads of a connection
          lock,       \* the threads that hold the lock of _cond
          waiting,    \* the reader is in the waiter list of _cond
          rpc,        \* where the reader is
          wpc,        \* where each producer is
          eof,        \* a readline() has returned ""
          written,    \* history: every line appended, in order
          taken       \* history: every line handed to the reader, in order

vars == <<lines, run_srv, lock, waiting, rpc, wpc, eof, written, taken>>

Line == Producers \X (0 .. MaxWrites)

TypeOK ==
  /\ lines \in Seq(Line)
  /\ run_srv \in BOOLEAN
  /\ lock \in SUBSET (Producers \cup {Reader})
  /\ waiting \in BOOLEAN
  /\ rpc \in {"idle", "acquire", "testRun", "testLines", "enterWait",
              "waiting", "leftover", "drain"}
  /\ wpc \in [Producers -> {"idle", "acquire", "notify"}]
  /\ eof \in BOOLEAN
  /\ written \in Seq(Line)
  /\ taken \in Seq(Line)

Init ==
  /\ lines = <<>>
  /\ run_srv = TRUE
  /\ lock = {}
  /\ waiting = FALSE
  /\ rpc = "idle"
  /\ wpc = [p \in Producers |-> "idle"]
  /\ eof = FALSE
  /\ written = <<>>
  /\ taken = <<>>

-----------------------------------------------------------------------------
(* write(): append without the lock, then notify under it.                 *)

(* Mutants of write(): a str passed to extend, and no notify.              *)
WriteExtend(p) ==
  /\ wpc[p] = "idle"
  /\ Len(written) < MaxWrites
  /\ lines' = lines \o <<p, Len(written)>>
  /\ written' = Append(written, <<p, Len(written)>>)
  /\ wpc' = [wpc EXCEPT ![p] = "acquire"]
  /\ UNCHANGED <<run_srv, lock, waiting, rpc, eof, taken>>

WriteSilently(p) ==
  /\ wpc[p] = "idle"
  /\ Len(written) < MaxWrites
  /\ lines' = Append(lines, <<p, Len(written)>>)
  /\ written' = Append(written, <<p, Len(written)>>)
  /\ UNCHANGED <<run_srv, lock, waiting, rpc, wpc, eof, taken>>

WriteAppend(p) ==
  /\ wpc[p] = "idle"
  /\ Len(written) < MaxWrites
  /\ LET line == <<p, Len(written)>>
     IN /\ lines' = Append(lines, line)
        /\ written' = Append(written, line)
  /\ wpc' = [wpc EXCEPT ![p] = "acquire"]
  /\ UNCHANGED <<run_srv, lock, waiting, rpc, eof, taken>>

WriteAcquire(p) ==
  /\ wpc[p] = "acquire"
  /\ lock = {}
  /\ lock' = {p}
  /\ wpc' = [wpc EXCEPT ![p] = "notify"]
  /\ UNCHANGED <<lines, run_srv, waiting, rpc, eof, written, taken>>

WriteNotify(p) ==
  /\ wpc[p] = "notify"
  /\ waiting' = FALSE
  /\ lock' = lock \ {p}
  /\ wpc' = [wpc EXCEPT ![p] = "idle"]
  /\ UNCHANGED <<lines, run_srv, rpc, eof, written, taken>>

-----------------------------------------------------------------------------
(* readline(): the loop under the lock, the wait with a timeout, and the   *)
(* look at what is left once run_srv is cleared.                           *)

PopLine ==
  /\ taken' = Append(taken, Head(lines))
  /\ lines' = Tail(lines)

ReadlineCall ==
  /\ rpc = "idle"
  /\ rpc' = "acquire"
  /\ UNCHANGED <<lines, run_srv, lock, waiting, wpc, eof, written, taken>>

ReadlineAcquire ==
  /\ rpc = "acquire"
  /\ lock = {}
  /\ lock' = {Reader}
  /\ rpc' = "testRun"
  /\ UNCHANGED <<lines, run_srv, waiting, wpc, eof, written, taken>>

(* Mutant of readline()'s loop: no look at run_srv.                        *)
TestRunNever ==
  /\ rpc = "testRun"
  /\ rpc' = "testLines"
  /\ UNCHANGED <<lines, run_srv, lock, waiting, wpc, eof, written, taken>>

ReadlineTestRun ==
  /\ rpc = "testRun"
  /\ IF run_srv
     THEN rpc' = "testLines" /\ UNCHANGED lock
     ELSE rpc' = "leftover" /\ lock' = lock \ {Reader}
  /\ UNCHANGED <<lines, run_srv, waiting, wpc, eof, written, taken>>

ReadlineTestLines ==
  /\ rpc = "testLines"
  /\ \/ /\ lines # <<>>
        /\ PopLine
        /\ lock' = lock \ {Reader}
        /\ rpc' = "idle"
     \/ /\ lines = <<>>
        /\ rpc' = "enterWait"
        /\ UNCHANGED <<lines, lock, taken>>
  /\ UNCHANGED <<run_srv, waiting, wpc, eof, written>>

ReadlineWait ==
  /\ rpc = "enterWait"
  /\ waiting' = TRUE
  /\ lock' = lock \ {Reader}
  /\ rpc' = "waiting"
  /\ UNCHANGED <<lines, run_srv, wpc, eof, written, taken>>

ReadlineNotified ==
  /\ rpc = "waiting"
  /\ ~waiting
  /\ rpc' = "acquire"
  /\ UNCHANGED <<lines, run_srv, lock, waiting, wpc, eof, written, taken>>

ReadlineTimeout ==
  /\ rpc = "waiting"
  /\ waiting
  /\ waiting' = FALSE
  /\ rpc' = "acquire"
  /\ UNCHANGED <<lines, run_srv, lock, wpc, eof, written, taken>>

(* Mutant: what is left after shutdown is not looked at.                   *)
LeftoverIgnored ==
  /\ rpc = "leftover"
  /\ eof' = TRUE
  /\ rpc' = "idle"
  /\ UNCHANGED <<lines, run_srv, lock, waiting, wpc, written, taken>>

ReadlineLeftover ==
  /\ rpc = "leftover"
  /\ \/ lines # <<>> /\ PopLine /\ UNCHANGED eof
     \/ lines = <<>> /\ eof' = TRUE /\ UNCHANGED <<lines, taken>>
  /\ rpc' = "idle"
  /\ UNCHANGED <<run_srv, lock, waiting, wpc, written>>

-----------------------------------------------------------------------------
(* drain(): pop until the deque is empty, without the lock.                *)

DrainCall ==
  /\ rpc = "idle"
  /\ rpc' = "drain"
  /\ UNCHANGED <<lines, run_srv, lock, waiting, wpc, eof, written, taken>>

DrainStep ==
  /\ rpc = "drain"
  /\ \/ lines # <<>> /\ PopLine /\ UNCHANGED rpc
     \/ lines = <<>> /\ rpc' = "idle" /\ UNCHANGED <<lines, taken>>
  /\ UNCHANGED <<run_srv, lock, waiting, wpc, eof, written>>

-----------------------------------------------------------------------------
(* run_srv.clear(): some thread of the connection ends it.  Nobody is      *)
(* notified: a reader that waits finds out when its wait times out.        *)

ClearRunSrv ==
  /\ run_srv
  /\ run_srv' = FALSE
  /\ UNCHANGED <<lines, lock, waiting, rpc, wpc, eof, written, taken>>

WriteSteps(p) == WriteAcquire(p) \/ WriteNotify(p)

ReadSteps == \/ ReadlineAcquire
             \/ ReadlineTestRun
             \/ ReadlineTestLines
             \/ ReadlineWait
             \/ ReadlineNotified
             \/ ReadlineLeftover
             \/ DrainStep

Next == \/ \E p \in Producers : WriteAppend(p) \/ WriteSteps(p)
        \/ ReadlineCall
        \/ DrainCall
        \/ ReadSteps
        \/ ReadlineTimeout
        \/ ClearRunSrv

Spec == Init /\ [][Next]_vars

(***************************************************************************)
(* A thread inside write(), readline() or drain() keeps running.  The lock *)
(* of a Condition is granted to whoever asks when it is free, and a writer *)
(* holds it for one step only, so strong fairness on the acquire steps is  *)
(* what an operating system's lock gives.  The timeout of the wait is left *)
(* out: the properties that need it assume it.                             *)
(***************************************************************************)
Fairness == /\ \A p \in Producers : /\ SF_vars(WriteAcquire(p))
                                    /\ WF_vars(WriteNotify(p))
            /\ SF_vars(ReadlineAcquire)
            /\ WF_vars(ReadSteps)

FairSpec == Spec /\ Fairness

Polling == WF_vars(ReadlineTimeout)

-----------------------------------------------------------------------------
(* Nothing is lost, duplicated or reordered between the unlocked append,   *)
(* the pop under the lock, the pop after shutdown and the unlocked drain:  *)
(* what was handed out, followed by what is queued, is what was written.   *)
Fifo == written = taken \o lines

(* A reader that sleeps while a line is queued is about to be notified:    *)
(* the writer that appended it has yet to call notify().  This is why      *)
(* appending before taking the lock loses no wakeup.                       *)
NoLostWakeup ==
  (rpc = "waiting" /\ waiting /\ lines # <<>>)
     => \E p \in Producers : wpc[p] # "idle"

(* readline() answers "" only when run_srv has been cleared.               *)
EofOnlyAfterShutdown == eof => ~run_srv

(* A reader whose call has a line to read never waits for the poll period: *)
(* with no fairness at all on the wait's timeout the call returns.         *)
(* Clearing run_srv notifies nobody, and still every reader returns: its   *)
(* wait times out.                                                         *)
ReadlineReturns ==
  /\ rpc # "idle" /\ lines # <<>> ~> rpc = "idle"
  /\ Polling => (rpc # "idle" /\ ~run_srv ~> rpc = "idle")

(* The queue the rest of the program relies on.                            *)
Queue == INSTANCE LineQueue WITH queue <- lines, open <- run_srv, Value <- Line

QueueSpec == Queue!Spec
=============================================================================
