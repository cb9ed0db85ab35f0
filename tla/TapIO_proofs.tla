---------------------------- MODULE TapIO_proofs ----------------------------
(***************************************************************************)
(* Proofs about TapIO, for any set of producers and any number of writes:  *)
(* its invariants, and that it implements LineQueue.                       *)
(***************************************************************************)
EXTENDS TapIO, SequenceFacts

(* The condition's lock has one holder at most, and it is the thread whose *)
(* program counter is inside the "with self._cond" block.                  *)
MutualExclusion ==
  /\ Reader \in lock <=> rpc \in {"testRun", "testLines", "enterWait"}
  /\ \A p \in Producers : p \in lock <=> wpc[p] = "notify"
  /\ \A s, t \in lock : s = t

(* The writer that appended a line is on its way to notify() from the      *)
(* moment the reader has decided to wait, lock still held.                 *)
WakeupPending ==
  (rpc \in {"enterWait", "waiting"} /\ lines # <<>>
     /\ (rpc = "waiting" => waiting))
        => \E p \in Producers : wpc[p] # "idle"

(* The reader looks at what is left only after it saw run_srv cleared.     *)
LeftoverAfterShutdown == (rpc = "leftover" \/ eof) => ~run_srv

IInv == /\ TypeOK
        /\ MutualExclusion
        /\ WakeupPending
        /\ LeftoverAfterShutdown
        /\ Fifo

USE ReaderAssumption, MaxWritesAssumption

-----------------------------------------------------------------------------
LEMMA InitIInv == Init => IInv
<1> SUFFICES ASSUME Init PROVE IInv
  OBVIOUS
<1> USE DEF Init
<1>1. TypeOK
  BY EmptySeq DEF TypeOK
<1>2. MutualExclusion
  BY DEF MutualExclusion
<1>3. WakeupPending /\ LeftoverAfterShutdown
  BY DEF WakeupPending, LeftoverAfterShutdown
<1>4. Fifo
  BY EmptySeq, ConcatProperties DEF Fifo
<1>5. QED
  BY <1>1, <1>2, <1>3, <1>4 DEF IInv

(* What one pop does, wherever it is done.                                 *)
LEMMA PopKeeps ==
  ASSUME TypeOK, Fifo, lines # <<>>, PopLine, written' = written
  PROVE  /\ lines' \in Seq(Line)
         /\ taken' \in Seq(Line)
         /\ Fifo'
BY PopFacts DEF TypeOK, Fifo, PopLine

LEMMA StepTypeOK == IInv /\ [Next]_vars => TypeOK'
<1> SUFFICES ASSUME IInv, [Next]_vars PROVE TypeOK'
  OBVIOUS
<1> USE DEF IInv, TypeOK
<1>1. ASSUME NEW p \in Producers, WriteAppend(p) PROVE TypeOK'
  <2>1. <<p, Len(written)>> \in Line
    BY <1>1, LenProperties DEF WriteAppend, Line
  <2>2. lines' \in Seq(Line) /\ written' \in Seq(Line)
    BY <1>1, <2>1, AppendProperties DEF WriteAppend
  <2>3. QED
    BY <1>1, <2>2 DEF WriteAppend
<1>2. ASSUME NEW p \in Producers, WriteSteps(p) PROVE TypeOK'
  BY <1>2 DEF WriteSteps, WriteAcquire, WriteNotify
<1>3. CASE ReadlineCall \/ DrainCall \/ ReadlineTimeout \/ ClearRunSrv
  BY <1>3 DEF ReadlineCall, DrainCall, ReadlineTimeout, ClearRunSrv
<1>4. CASE ReadSteps
  <2>1. CASE ReadlineTestLines
    BY <2>1, PopKeeps DEF ReadlineTestLines
  <2>2. CASE ReadlineLeftover
    BY <2>2, PopKeeps DEF ReadlineLeftover
  <2>3. CASE DrainStep
    BY <2>3, PopKeeps DEF DrainStep
  <2>4. CASE ReadlineAcquire \/ ReadlineTestRun \/ ReadlineWait \/ ReadlineNotified
    BY <2>4 DEF ReadlineAcquire, ReadlineTestRun, ReadlineWait, ReadlineNotified
  <2>5. QED
    BY <1>4, <2>1, <2>2, <2>3, <2>4 DEF ReadSteps
<1>5. CASE UNCHANGED vars
  BY <1>5 DEF vars
<1>6. QED
  BY <1>1, <1>2, <1>3, <1>4, <1>5 DEF Next

LEMMA StepMutualExclusion == IInv /\ [Next]_vars => MutualExclusion'
<1> SUFFICES ASSUME IInv, [Next]_vars PROVE MutualExclusion'
  OBVIOUS
<1> USE DEF IInv, TypeOK, MutualExclusion
<1>1. ASSUME NEW p \in Producers, WriteAppend(p) PROVE MutualExclusion'
  BY <1>1 DEF WriteAppend
<1>2. ASSUME NEW p \in Producers, WriteAcquire(p) PROVE MutualExclusion'
  BY <1>2 DEF WriteAcquire
<1>3. ASSUME NEW p \in Producers, WriteNotify(p) PROVE MutualExclusion'
  BY <1>3 DEF WriteNotify
<1>4. CASE ReadlineCall \/ DrainCall \/ ReadlineTimeout \/ ClearRunSrv
  BY <1>4 DEF ReadlineCall, DrainCall, ReadlineTimeout, ClearRunSrv
<1>5. CASE ReadlineAcquire
  BY <1>5 DEF ReadlineAcquire
<1>6. CASE ReadlineTestRun
  BY <1>6 DEF ReadlineTestRun
<1>7. CASE ReadlineTestLines
  BY <1>7 DEF ReadlineTestLines
<1>8. CASE ReadlineWait
  BY <1>8 DEF ReadlineWait
<1>9. CASE ReadlineNotified \/ ReadlineLeftover \/ DrainStep
  BY <1>9 DEF ReadlineNotified, ReadlineLeftover, DrainStep
<1>10. CASE UNCHANGED vars
  BY <1>10 DEF vars
<1>11. QED
  BY <1>1, <1>2, <1>3, <1>4, <1>5, <1>6, <1>7, <1>8, <1>9, <1>10
     DEF Next, WriteSteps, ReadSteps

LEMMA StepWakeupPending == IInv /\ [Next]_vars => WakeupPending'
<1> SUFFICES ASSUME IInv, [Next]_vars PROVE WakeupPending'
  OBVIOUS
<1> USE DEF IInv, TypeOK, WakeupPending
<1>1. ASSUME NEW p \in Producers, WriteAppend(p) PROVE WakeupPending'
  BY <1>1 DEF WriteAppend
<1>2. ASSUME NEW p \in Producers, WriteAcquire(p) PROVE WakeupPending'
  <2>1. wpc'[p] # "idle"
    BY <1>2 DEF WriteAcquire
  <2>2. QED
    BY <2>1
<1>3. ASSUME NEW p \in Producers, WriteNotify(p) PROVE WakeupPending'
  <2>1. p \in lock
    BY <1>3 DEF WriteNotify, MutualExclusion
  <2>2. rpc # "enterWait"
    BY <2>1 DEF MutualExclusion
  <2>3. QED
    BY <1>3, <2>2 DEF WriteNotify
<1>4. CASE ReadlineCall \/ DrainCall \/ ReadlineTimeout \/ ClearRunSrv
  BY <1>4 DEF ReadlineCall, DrainCall, ReadlineTimeout, ClearRunSrv
<1>5. CASE ReadSteps
  BY <1>5 DEF ReadSteps, ReadlineAcquire, ReadlineTestRun, ReadlineTestLines,
              ReadlineWait, ReadlineNotified, ReadlineLeftover, DrainStep, PopLine
<1>6. CASE UNCHANGED vars
  BY <1>6 DEF vars
<1>7. QED
  BY <1>1, <1>2, <1>3, <1>4, <1>5, <1>6 DEF Next, WriteSteps

LEMMA StepLeftover == IInv /\ [Next]_vars => LeftoverAfterShutdown'
<1> SUFFICES ASSUME IInv, [Next]_vars PROVE LeftoverAfterShutdown'
  OBVIOUS
<1> USE DEF IInv, LeftoverAfterShutdown
<1>1. ASSUME NEW p \in Producers, WriteAppend(p) \/ WriteSteps(p)
      PROVE  LeftoverAfterShutdown'
  BY <1>1 DEF WriteAppend, WriteSteps, WriteAcquire, WriteNotify
<1>2. CASE ReadlineCall \/ DrainCall \/ ReadlineTimeout \/ ClearRunSrv
  BY <1>2 DEF ReadlineCall, DrainCall, ReadlineTimeout, ClearRunSrv
<1>3. CASE ReadSteps
  BY <1>3 DEF ReadSteps, ReadlineAcquire, ReadlineTestRun, ReadlineTestLines,
              ReadlineWait, ReadlineNotified, ReadlineLeftover, DrainStep
<1>4. CASE UNCHANGED vars
  BY <1>4 DEF vars
<1>5. QED
  BY <1>1, <1>2, <1>3, <1>4 DEF Next

LEMMA StepFifo == IInv /\ [Next]_vars => Fifo'
<1> SUFFICES ASSUME IInv, [Next]_vars PROVE Fifo'
  OBVIOUS
<1> USE DEF IInv, TypeOK, Fifo
<1>1. ASSUME NEW p \in Producers, WriteAppend(p) PROVE Fifo'
  <2>1. <<p, Len(written)>> \in Line
    BY <1>1, LenProperties DEF WriteAppend, Line
  <2>2. QED
    BY <1>1, <2>1, AppendConcat DEF WriteAppend
<1>2. ASSUME NEW p \in Producers, WriteSteps(p) PROVE Fifo'
  BY <1>2 DEF WriteSteps, WriteAcquire, WriteNotify
<1>3. CASE ReadlineCall \/ DrainCall \/ ReadlineTimeout \/ ClearRunSrv
  BY <1>3 DEF ReadlineCall, DrainCall, ReadlineTimeout, ClearRunSrv
<1>4. CASE ReadSteps
  <2>1. CASE ReadlineTestLines
    BY <2>1, PopKeeps DEF ReadlineTestLines
  <2>2. CASE ReadlineLeftover
    BY <2>2, PopKeeps DEF ReadlineLeftover
  <2>3. CASE DrainStep
    BY <2>3, PopKeeps DEF DrainStep
  <2>4. CASE ReadlineAcquire \/ ReadlineTestRun \/ ReadlineWait \/ ReadlineNotified
    BY <2>4 DEF ReadlineAcquire, ReadlineTestRun, ReadlineWait, ReadlineNotified
  <2>5. QED
    BY <1>4, <2>1, <2>2, <2>3, <2>4 DEF ReadSteps
<1>5. CASE UNCHANGED vars
  BY <1>5 DEF vars
<1>6. QED
  BY <1>1, <1>2, <1>3, <1>4, <1>5 DEF Next

LEMMA Invariance == Spec => []IInv
<1>1. IInv /\ [Next]_vars => IInv'
  BY StepTypeOK, StepMutualExclusion, StepWakeupPending, StepLeftover, StepFifo
     DEF IInv
<1>2. QED
  BY InitIInv, <1>1, PTL DEF Spec

-----------------------------------------------------------------------------
(* Every variable of a TapIO keeps its type.                               *)
THEOREM TypeCorrect == Spec => []TypeOK
<1>1. IInv => TypeOK
  BY DEF IInv
<1>2. QED
  BY Invariance, <1>1, PTL

(* write() appends without the lock and drain() pops without it, and still *)
(* no line is lost, duplicated or reordered.                               *)
THEOREM FifoCorrect == Spec => []Fifo
<1>1. IInv => Fifo
  BY DEF IInv
<1>2. QED
  BY Invariance, <1>1, PTL

(* A reader that sleeps over a queued line is about to be notified.        *)
THEOREM WakeupsKept == Spec => []NoLostWakeup
<1>1. IInv => NoLostWakeup
  BY DEF IInv, WakeupPending, NoLostWakeup
<1>2. QED
  BY Invariance, <1>1, PTL

(* readline() answers "" only once run_srv is cleared.                     *)
THEOREM EofCorrect == Spec => []EofOnlyAfterShutdown
<1>1. IInv => EofOnlyAfterShutdown
  BY DEF IInv, LeftoverAfterShutdown, EofOnlyAfterShutdown
<1>2. QED
  BY Invariance, <1>1, PTL

-----------------------------------------------------------------------------
(* A TapIO is a first-in, first-out queue that can be closed: every step   *)
(* is a step of LineQueue or leaves its variables alone.                   *)
THEOREM Refinement == Spec => QueueSpec
<1> USE DEF Queue!vars
<1>1. Init => Queue!Init
  BY DEF Init, Queue!Init
<1>2. IInv /\ [Next]_vars => [Queue!Next]_(Queue!vars)
  <2> SUFFICES ASSUME IInv, [Next]_vars
               PROVE  Queue!Next \/ UNCHANGED <<lines, run_srv, taken, eof>>
    OBVIOUS
  <2>1. ASSUME NEW p \in Producers, WriteAppend(p) PROVE Queue!Next
    <3>1. <<p, Len(written)>> \in Line
      BY <2>1, LenProperties DEF WriteAppend, Line, IInv, TypeOK
    <3>2. Queue!Put(<<p, Len(written)>>)
      BY <2>1 DEF WriteAppend, Queue!Put
    <3>3. QED
      BY <3>1, <3>2 DEF Queue!Next
  <2>2. ASSUME lines # <<>>, PopLine, UNCHANGED <<run_srv, eof>> PROVE Queue!Next
    BY <2>2 DEF PopLine, Queue!Take, Queue!Next
  <2>3. CASE ReadSteps
    <3>1. CASE ReadlineTestLines
      BY <2>2, <3>1 DEF ReadlineTestLines
    <3>2. CASE ReadlineLeftover
      <4>1. CASE lines # <<>>
        BY <2>2, <3>2, <4>1 DEF ReadlineLeftover
      <4>2. CASE lines = <<>>
        <5>1. ~run_srv
          BY <3>2 DEF ReadlineLeftover, IInv, LeftoverAfterShutdown
        <5>2. Queue!EndOfFile
          BY <3>2, <4>2, <5>1 DEF ReadlineLeftover, Queue!EndOfFile
        <5>3. QED
          BY <5>2 DEF Queue!Next
      <4>3. QED
        BY <4>1, <4>2
    <3>3. CASE DrainStep
      BY <2>2, <3>3 DEF DrainStep
    <3>4. CASE ReadlineAcquire \/ ReadlineTestRun \/ ReadlineWait \/ ReadlineNotified
      BY <3>4 DEF ReadlineAcquire, ReadlineTestRun, ReadlineWait, ReadlineNotified
    <3>5. QED
      BY <2>3, <3>1, <3>2, <3>3, <3>4 DEF ReadSteps
  <2>4. CASE ClearRunSrv
    BY <2>4 DEF ClearRunSrv, Queue!Close, Queue!Next
  <2>5. CASE ReadlineCall \/ DrainCall \/ ReadlineTimeout
    BY <2>5 DEF ReadlineCall, DrainCall, ReadlineTimeout
  <2>6. ASSUME NEW p \in Producers, WriteSteps(p)
        PROVE  UNCHANGED <<lines, run_srv, taken, eof>>
    BY <2>6 DEF WriteSteps, WriteAcquire, WriteNotify
  <2>7. CASE UNCHANGED vars
    BY <2>7 DEF vars
  <2>8. QED
    BY <2>1, <2>3, <2>4, <2>5, <2>6, <2>7 DEF Next
<1>3. QED
  BY <1>1, <1>2, Invariance, PTL DEF Spec, QueueSpec, Queue!Spec
=============================================================================
