--------------------------- MODULE Session_proofs ---------------------------
(***************************************************************************)
(* Proofs about Session, for every transport, every bound and every set of *)
(* bytes: types, that neither direction loses or reorders anything or      *)
(* repeats more than a send that timed out half way, and that the shell is *)
(* given the lines that were typed.                                        *)
(***************************************************************************)
EXTENDS Session, SequenceFacts

USE KindAssumption, ExitAssumption, BytesAssumption,
    BoundsAssumption, OutKindsAssumption
USE DEF wireVars

IInv == TypeOK /\ OutputConserved /\ InputConserved

ItemKind == {"intro", "prompt", "out", "blank", "echo"}

-----------------------------------------------------------------------------
(* What the reads and writes of the two queues do, wherever they are done. *)

LEMMA WriteStdinKeeps ==
  ASSUME TypeOK, InputConserved, NEW line \in Line, WriteStdin(line), ran' = ran
  PROVE  /\ stdin' \in Seq(Line)
         /\ inlog' \in Seq(Line)
         /\ InputConserved'
<1>1. stdin \in Seq(Line) /\ inlog \in Seq(Line) /\ ran \in Seq(Line)
  BY DEF TypeOK
<1>2. stdin' \in Seq(Line) /\ inlog' \in Seq(Line)
  BY <1>1, AppendProperties DEF WriteStdin
<1>3. Append(ran \o stdin, line) = ran \o Append(stdin, line)
  BY <1>1, AppendConcat
<1>4. QED
  BY <1>2, <1>3 DEF WriteStdin, InputConserved

LEMMA WriteStdoutKeeps ==
  ASSUME TypeOK, OutputConserved, NEW kind \in ItemKind, WriteStdout(kind),
         UNCHANGED <<sent, batch>>
  PROVE  /\ stdout' \in Seq(Item)
         /\ outlog' \in Seq(Item)
         /\ OutputConserved'
<1> DEFINE item == [kind |-> kind, at |-> Len(outlog) + 1]
<1>1. /\ stdout \in Seq(Item) /\ outlog \in Seq(Item)
      /\ sent \in Seq(Item) /\ batch \in Seq(Item)
  BY DEF TypeOK
<1>2. item \in Item
  BY <1>1, LenProperties DEF Item, ItemKind
<1>3. stdout' = Append(stdout, item) /\ outlog' = Append(outlog, item)
  BY DEF WriteStdout
<1> HIDE DEF item
<1>4. stdout' \in Seq(Item) /\ outlog' \in Seq(Item)
  BY <1>1, <1>2, <1>3, AppendProperties
<1>5. sent \o batch \in Seq(Item)
  BY <1>1, ConcatProperties
<1>6. Append((sent \o batch) \o stdout, item) = (sent \o batch) \o Append(stdout, item)
  BY <1>1, <1>2, <1>5, AppendConcat
<1>7. QED
  BY <1>3, <1>4, <1>6 DEF OutputConserved

LEMMA ShellReadKeeps ==
  ASSUME TypeOK, InputConserved, ShellRead
  PROVE  /\ stdin' \in Seq(Line)
         /\ ran' \in Seq(Line)
         /\ InputConserved'
BY PopFacts DEF TypeOK, InputConserved, ShellRead

LEMMA OutReadKeeps ==
  ASSUME TypeOK, OutputConserved, OutRead
  PROVE  /\ stdout' \in Seq(Item)
         /\ batch' \in Seq(Item)
         /\ OutputConserved'
<1>1. stdout \in Seq(Item) /\ sent \in Seq(Item) /\ batch \in Seq(Item)
  BY DEF TypeOK
<1>2. CASE stdout = <<>>
  BY <1>1, <1>2 DEF OutRead, OutputConserved
<1>3. CASE stdout # <<>>
  <2>1. stdout' = Tail(stdout) /\ batch' = Append(batch, Head(stdout))
        /\ UNCHANGED <<sent, outlog>>
    BY <1>3 DEF OutRead
  <2>2. PICK head \in Item : head = Head(stdout)
    BY <1>1, <1>3, HeadTailProperties
  <2>3. stdout' \in Seq(Item) /\ batch' \in Seq(Item)
    BY <1>1, <1>3, <2>1, PopFacts
  <2>4. sent \o batch \in Seq(Item)
    BY <1>1, ConcatProperties
  <2>5. Append(sent \o batch, head) = sent \o Append(batch, head)
    BY <1>1, AppendConcat
  <2>6. Append(sent \o batch, Head(stdout)) \o Tail(stdout) = (sent \o batch) \o stdout
    BY <1>1, <1>3, <2>4, PopFacts
  <2>7. QED
    BY <2>1, <2>2, <2>3, <2>5, <2>6 DEF OutputConserved
<1>4. QED
  BY <1>2, <1>3

LEMMA OutDrainKeeps ==
  ASSUME TypeOK, OutputConserved, OutDrain
  PROVE  /\ stdout' \in Seq(Item)
         /\ batch' \in Seq(Item)
         /\ OutputConserved'
<1>1. stdout \in Seq(Item) /\ sent \in Seq(Item) /\ batch \in Seq(Item)
  BY DEF TypeOK
<1>2. stdout' = <<>> /\ batch' = batch \o stdout /\ UNCHANGED <<sent, outlog>>
  BY DEF OutDrain
<1>3. batch \o stdout \in Seq(Item) /\ <<>> \in Seq(Item)
  BY <1>1, ConcatProperties, EmptySeq
<1>4. sent \o (batch \o stdout) \in Seq(Item)
  BY <1>1, <1>3, ConcatProperties
<1>5. (sent \o (batch \o stdout)) \o <<>> = (sent \o batch) \o stdout
  BY <1>1, <1>4, ConcatAssociative, ConcatEmptySeq
<1>6. QED
  BY <1>2, <1>3, <1>5 DEF OutputConserved

LEMMA BreaksOffType ==
  ASSUME TypeOK, NEW n \in 0 .. Len(batch), BreaksOff(n)
  PROVE  wire' \in Seq(Item) /\ cuts' \subseteq Cut /\ sent' \in Seq(Item)
<1>1. /\ wire \in Seq(Item) /\ batch \in Seq(Item) /\ sent \in Seq(Item)
      /\ cuts \subseteq Cut
  BY DEF TypeOK
<1>2. SubSeq(batch, 1, n) \in Seq(Item)
  BY <1>1, SubSeqProperties
<1>3. wire' \in Seq(Item)
  BY <1>1, <1>2, ConcatProperties DEF BreaksOff
<1>4. n # 0 => batch[1].at \in Nat
  <2>1. ASSUME n # 0 PROVE batch[1] \in Item
    BY <1>1, <2>1, LenProperties, ElementOfSeq
  <2>2. QED
    BY <2>1 DEF Item
<1>5. n # 0 => [place |-> Len(wire) + n, first |-> batch[1].at] \in Cut
  BY <1>1, <1>4, LenProperties DEF Cut
<1>6. QED
  BY <1>1, <1>3, <1>5 DEF BreaksOff

LEMMA OutSendKeeps ==
  ASSUME TypeOK, OutputConserved, OutSend
  PROVE  /\ sent' \in Seq(Item) /\ wire' \in Seq(Item) /\ cuts' \subseteq Cut
         /\ batch' \in Seq(Item)
         /\ OutputConserved'
<1>1. /\ stdout \in Seq(Item) /\ sent \in Seq(Item) /\ batch \in Seq(Item)
      /\ wire \in Seq(Item) /\ cuts \subseteq Cut
  BY DEF TypeOK
<1>2. CASE sent' = sent \o batch /\ wire' = wire \o batch /\ batch' = <<>> /\ UNCHANGED cuts
  <2>1. sent \o batch \in Seq(Item) /\ wire \o batch \in Seq(Item) /\ <<>> \in Seq(Item)
    BY <1>1, ConcatProperties, EmptySeq
  <2>2. (sent \o batch) \o <<>> = sent \o batch
    BY <2>1, ConcatEmptySeq
  <2>3. QED
    BY <1>1, <1>2, <2>1, <2>2 DEF OutSend, OutputConserved, outVars
<1>3. CASE UNCHANGED batch /\ \E n \in 0 .. Len(batch) : BreaksOff(n)
  BY <1>1, <1>3, BreaksOffType DEF OutSend, BreaksOff, OutputConserved, outVars
<1>4. QED
  BY <1>2, <1>3 DEF OutSend

-----------------------------------------------------------------------------
LEMMA InitIInv == Init => IInv
<1> SUFFICES ASSUME Init PROVE IInv
  OBVIOUS
<1> USE DEF Init
<1>1. TypeOK
  <2>1. /\ inbox \in Seq(Byte) /\ heard \in Seq(Byte)
        /\ stdin \in Seq(Line) /\ inlog \in Seq(Line) /\ ran \in Seq(Line)
        /\ stdout \in Seq(Item) /\ outlog \in Seq(Item)
        /\ sent \in Seq(Item) /\ batch \in Seq(Item) /\ wire \in Seq(Item)
    BY EmptySeq
  <2>2. left \in 0 .. MaxOut /\ cbyte \in Byte
    BY DEF Byte
  <2>3. QED
    BY <2>1, <2>2 DEF TypeOK
<1>2. OutputConserved /\ InputConserved
  BY DEF OutputConserved, InputConserved
<1>3. QED
  BY <1>1, <1>2 DEF IInv

-----------------------------------------------------------------------------
(* Steps that touch neither queue and leave every history alone.           *)
Quiet == UNCHANGED <<inVars, outVars, batch, ran, sent>>

QuietStep ==
  \/ ClientDisconnect \/ TransportDies \/ ServerStop
  \/ AcceptPolls \/ AcceptChannel \/ AcceptAndStart \/ LoginSucceeds \/ LoginFails
  \/ DispatchBlank \/ DispatchHelp \/ DispatchExit \/ DispatchDefault
  \/ FinallyClear \/ FinallyClose
  \/ TapLoop \/ TapRecvNothing \/ TapGate \/ TapEchoText \/ TapClearReplied \/ TapExit
  \/ OutLoop \/ OutSendTest \/ OutSetReplied \/ OutExit

LEMMA QuietSteps == QuietStep => Quiet
BY DEF QuietStep, Quiet, ClientDisconnect, TransportDies, ServerStop, AcceptChannel,
       AcceptPolls, AcceptLoop, AcceptTimesOut, AcceptGivesUp, AcceptAndStart, LoginSucceeds, LoginFails, StartSession,
       DispatchBlank, DispatchHelp, DispatchExit, DispatchDefault, FinallyClear,
       FinallyClose, TapLoop, TapRecvNothing, TapGate, TapEchoText,
       TapClearReplied, TapExit, OutLoop, OutSendTest, OutSetReplied,
       OutExit, sendVars, inVars, outVars

LEMMA QuietKeeps == ASSUME IInv, Quiet
                    PROVE  OutputConserved' /\ InputConserved'
BY DEF IInv, Quiet, OutputConserved, InputConserved, inVars, outVars

(* Types of the steps that touch no queue.                                 *)
LEMMA QuietType == TypeOK /\ QuietStep => TypeOK'
<1> SUFFICES ASSUME TypeOK, QuietStep PROVE TypeOK'
  OBVIOUS
<1>1. ASSUME NEW b \in {"cr", "lf"}, StartSession(b) PROVE TypeOK'
  <2>1. <<b>> \in Seq(Byte)
    BY DEF Byte
  <2>2. heard' \in Seq(Byte)
    BY <1>1, <2>1 DEF StartSession
  <2>3. QED
    BY <1>1, <2>2 DEF StartSession, TypeOK, envVars, inVars, outVars
<1>2. CASE AcceptAndStart \/ LoginSucceeds
  BY <1>1, <1>2 DEF AcceptAndStart, LoginSucceeds
<1>3. CASE ClientDisconnect
  BY <1>3 DEF ClientDisconnect, TypeOK, envVars, connVars, tapVars, sendVars, inVars, outVars
<1>4. CASE TransportDies
  <2>1. alive' \in BOOLEAN
    BY <1>4, Zenon DEF TransportDies
  <2>2. QED
    BY <1>4, <2>1 DEF TransportDies, TypeOK, envVars, connVars, tapVars, sendVars, inVars, outVars
<1>5. CASE ServerStop
  <2>1. is_running' \in BOOLEAN
    BY <1>5, Zenon DEF ServerStop
  <2>2. QED
    BY <1>5, <2>1 DEF ServerStop, TypeOK, envVars, connVars, tapVars, sendVars, inVars, outVars
<1>6. CASE AcceptChannel
  BY <1>6 DEF AcceptChannel, TypeOK, envVars, connVars, tapVars, sendVars, inVars, outVars
<1>7. CASE AcceptPolls
  BY <1>7 DEF AcceptPolls, AcceptLoop, AcceptTimesOut, AcceptGivesUp, TypeOK, envVars, connVars, tapVars, sendVars, inVars, outVars
<1>8. CASE LoginFails
  BY <1>8 DEF LoginFails, TypeOK, envVars, connVars, tapVars, sendVars, inVars, outVars
<1>9. CASE DispatchBlank
  BY <1>9 DEF DispatchBlank, TypeOK, envVars, connVars, tapVars, sendVars, inVars, outVars
<1>10. CASE DispatchHelp
  BY <1>10 DEF DispatchHelp, TypeOK, envVars, connVars, tapVars, sendVars, inVars, outVars
<1>11. CASE DispatchExit
  BY <1>11 DEF DispatchExit, TypeOK, envVars, connVars, tapVars, sendVars, inVars, outVars
<1>12. CASE DispatchDefault
  BY <1>12 DEF DispatchDefault, TypeOK, envVars, connVars, tapVars, sendVars, inVars, outVars
<1>13. CASE FinallyClear
  <2>1. run_srv' \in BOOLEAN
    BY <1>13, Zenon DEF FinallyClear
  <2>2. QED
    BY <1>13, <2>1 DEF FinallyClear, TypeOK, envVars, connVars, tapVars, sendVars, inVars, outVars
<1>14. CASE FinallyClose
  BY <1>14 DEF FinallyClose, TypeOK, envVars, connVars, tapVars, sendVars, inVars, outVars
<1>15. CASE TapLoop
  BY <1>15 DEF TapLoop, TypeOK, envVars, connVars, tapVars, sendVars, inVars, outVars
<1>16. CASE TapRecvNothing
  BY <1>16 DEF TapRecvNothing, TypeOK, envVars, connVars, tapVars, sendVars, inVars, outVars
<1>17. CASE TapGate
  BY <1>17 DEF TapGate, TypeOK, envVars, connVars, tapVars, sendVars, inVars, outVars
<1>18. CASE TapEchoText
  BY <1>18 DEF TapEchoText, TypeOK, envVars, connVars, tapVars, sendVars, inVars, outVars
<1>19. CASE TapClearReplied
  <2>1. replied' \in BOOLEAN
    BY <1>19, Zenon DEF TapClearReplied
  <2>2. QED
    BY <1>19, <2>1 DEF TapClearReplied, TypeOK, envVars, connVars, tapVars, sendVars, inVars, outVars
<1>20. CASE TapExit
  <2>1. run_srv' \in BOOLEAN
    BY <1>20, Zenon DEF TapExit
  <2>2. QED
    BY <1>20, <2>1 DEF TapExit, TypeOK, envVars, connVars, tapVars, sendVars, inVars, outVars
<1>21. CASE OutLoop
  BY <1>21 DEF OutLoop, TypeOK, envVars, connVars, tapVars, sendVars, inVars, outVars
<1>22. CASE OutSendTest
  BY <1>22 DEF OutSendTest, TypeOK, envVars, connVars, tapVars, sendVars, inVars, outVars
<1>24. CASE OutSetReplied
  BY <1>24 DEF OutSetReplied, TypeOK, envVars, connVars, tapVars, sendVars, inVars, outVars
<1>25. CASE OutExit
  <2>1. run_srv' \in BOOLEAN
    BY <1>25, Zenon DEF OutExit
  <2>2. QED
    BY <1>25, <2>1 DEF OutExit, TypeOK, envVars, connVars, tapVars, sendVars, inVars, outVars
<1>26. QED
  BY <1>2, <1>3, <1>4, <1>5, <1>6, <1>7, <1>8, <1>9, <1>10, <1>11, <1>12, <1>13, <1>14, <1>15, <1>16, <1>17, <1>18, <1>19, <1>20, <1>21, <1>22, <1>24, <1>25
     DEF QuietStep
-----------------------------------------------------------------------------
(* The steps that touch a queue, one lemma each.                           *)

LEMMA ClientSendStep ==
  ASSUME IInv, NEW b \in Bytes, ClientSend(b) PROVE IInv'
<1>1. inbox' \in Seq(Byte)
  BY AppendProperties DEF ClientSend, IInv, TypeOK
<1>2. TypeOK'
  BY <1>1 DEF ClientSend, IInv, TypeOK, connVars, tapVars, sendVars, inVars, outVars
<1>3. Quiet
  BY DEF Quiet, ClientSend, sendVars
<1>4. QED
  BY <1>2, <1>3, QuietKeeps DEF IInv

LEMMA TapRecvByteStep ==
  ASSUME IInv, TapRecvByte PROVE IInv'
<1>1. Head(inbox) \in Byte /\ inbox' \in Seq(Byte) /\ heard' \in Seq(Byte)
  BY HeadTailProperties, AppendProperties DEF TapRecvByte, IInv, TypeOK
<1>2. TypeOK'
  BY <1>1 DEF TapRecvByte, IInv, TypeOK, connVars, sendVars, inVars, outVars
<1>3. Quiet
  BY DEF Quiet, TapRecvByte, sendVars
<1>4. QED
  BY <1>2, <1>3, QuietKeeps DEF IInv

LEMMA StdoutWrites ==
  ASSUME IInv, ShellIntro \/ ShellPrompt \/ ShellWriteline \/ TapEchoNewline
  PROVE  IInv'
<1> USE DEF IInv
<1>1. ASSUME NEW kind \in ItemKind, WriteStdout(kind), UNCHANGED <<batch, sent>>
      PROVE  stdout' \in Seq(Item) /\ outlog' \in Seq(Item) /\ OutputConserved'
  BY <1>1, WriteStdoutKeeps
<1>2. stdout' \in Seq(Item) /\ outlog' \in Seq(Item) /\ OutputConserved'
  <2>1. CASE ShellIntro
    BY <1>1, <2>1 DEF ShellIntro, ItemKind, sendVars
  <2>2. CASE ShellPrompt
    BY <1>1, <2>2 DEF ShellPrompt, ItemKind, sendVars
  <2>3. CASE ShellWriteline
    <3>1. CASE left > 0
      <4>1. PICK kind \in OutKinds : WriteStdout(kind)
        BY <2>3, <3>1 DEF ShellWriteline, TypeOK
      <4>2. kind \in ItemKind
        BY OutKindsAssumption DEF ItemKind
      <4>3. QED
        BY <1>1, <2>3, <4>1, <4>2 DEF ShellWriteline, sendVars
    <3>2. CASE ~(left > 0)
      BY <2>3, <3>2 DEF ShellWriteline, sendVars, outVars, TypeOK, OutputConserved
    <3>3. QED
      BY <3>1, <3>2
  <2>4. CASE TapEchoNewline
    BY <1>1, <2>4 DEF TapEchoNewline, ItemKind, sendVars
  <2>5. QED
    BY <2>1, <2>2, <2>3, <2>4
<1>3. InputConserved'
  BY DEF ShellIntro, ShellPrompt, ShellWriteline, TapEchoNewline, inVars, InputConserved
<1>4. TypeOK'
  <2>1. CASE ShellIntro \/ ShellPrompt
    BY <1>2, <2>1 DEF ShellIntro, ShellPrompt, TypeOK, envVars, tapVars, sendVars, inVars
  <2>2. CASE ShellWriteline
    BY <1>2, <2>2 DEF ShellWriteline, TypeOK, envVars, tapVars, sendVars, inVars
  <2>3. CASE TapEchoNewline
    <3>1. skip_lf' \in BOOLEAN
      BY <2>3 DEF TapEchoNewline
    <3>2. QED
      BY <1>2, <2>3, <3>1 DEF TapEchoNewline, TypeOK, envVars, connVars, sendVars, inVars
  <2>4. QED
    BY <2>1, <2>2, <2>3
<1>5. QED
  BY <1>2, <1>3, <1>4

LEMMA StdinWrites ==
  ASSUME IInv, TapForward \/ WatchdogStop PROVE IInv'
<1> USE DEF IInv
<1>1. ASSUME NEW line \in Line, WriteStdin(line), ran' = ran
      PROVE  stdin' \in Seq(Line) /\ inlog' \in Seq(Line) /\ InputConserved'
  BY <1>1, WriteStdinKeeps
<1>2. stdin' \in Seq(Line) /\ inlog' \in Seq(Line) /\ InputConserved'
  <2>1. CASE TapForward
    <3>1. [from |-> "client", blank |-> cbuf = "empty"] \in Line
      BY DEF Line
    <3>2. CASE cbuf # "bad"
      BY <1>1, <2>1, <3>1, <3>2 DEF TapForward
    <3>3. CASE cbuf = "bad"
      BY <2>1, <3>3 DEF TapForward, inVars, TypeOK, InputConserved
    <3>4. QED
      BY <3>2, <3>3
  <2>2. CASE WatchdogStop
    <3>1. [from |-> "watchdog", blank |-> FALSE] \in Line
      BY Zenon DEF Line
    <3>2. QED
      BY <1>1, <2>2, <3>1 DEF WatchdogStop
  <2>3. QED
    BY <2>1, <2>2
<1>3. OutputConserved'
  BY DEF TapForward, WatchdogStop, sendVars, outVars, OutputConserved
<1>4. TypeOK'
  <2>1. CASE TapForward
    BY <1>2, <2>1 DEF TapForward, TypeOK, envVars, connVars, sendVars, outVars
  <2>2. CASE WatchdogStop
    BY <1>2, <2>2 DEF WatchdogStop, TypeOK, envVars, connVars, tapVars, sendVars, outVars
  <2>3. QED
    BY <2>1, <2>2
<1>5. QED
  BY <1>2, <1>3, <1>4

LEMMA QueueReads ==
  ASSUME IInv, ShellRead \/ OutRead \/ OutDrain \/ OutSend \/ OutSendTimeout PROVE IInv'
<1> USE DEF IInv
<1>1. CASE ShellRead
  <2>1. stdin' \in Seq(Line) /\ ran' \in Seq(Line) /\ InputConserved'
    BY <1>1, ShellReadKeeps
  <2>2. TypeOK'
    BY <1>1, <2>1 DEF ShellRead, TypeOK, envVars, tapVars, sendVars, outVars
  <2>3. OutputConserved'
    BY <1>1 DEF ShellRead, sendVars, outVars, OutputConserved
  <2>4. QED
    BY <2>1, <2>2, <2>3
<1>2. CASE OutRead
  <2>1. stdout' \in Seq(Item) /\ batch' \in Seq(Item) /\ OutputConserved'
    BY <1>2, OutReadKeeps
  <2>2. TypeOK' /\ InputConserved'
    BY <1>2, <2>1 DEF OutRead, TypeOK, envVars, connVars, tapVars, inVars, InputConserved
  <2>3. QED
    BY <2>1, <2>2
<1>3. CASE OutDrain
  <2>1. stdout' \in Seq(Item) /\ batch' \in Seq(Item) /\ OutputConserved'
    BY <1>3, OutDrainKeeps
  <2>2. TypeOK' /\ InputConserved'
    BY <1>3, <2>1 DEF OutDrain, TypeOK, envVars, connVars, tapVars, inVars, InputConserved
  <2>3. QED
    BY <2>1, <2>2
<1>4. CASE OutSend
  <2>1. /\ sent' \in Seq(Item) /\ wire' \in Seq(Item) /\ cuts' \subseteq Cut
        /\ batch' \in Seq(Item) /\ OutputConserved'
    BY <1>4, OutSendKeeps
  <2>2. TypeOK' /\ InputConserved'
    BY <1>4, <2>1 DEF OutSend, TypeOK, envVars, connVars, tapVars, inVars, outVars,
                      InputConserved
  <2>3. QED
    BY <2>1, <2>2
<1>5. CASE OutSendTimeout
  <2>1. /\ sent' \in Seq(Item) /\ wire' \in Seq(Item) /\ cuts' \subseteq Cut
        /\ UNCHANGED sent
    BY <1>5, BreaksOffType DEF OutSendTimeout, BreaksOff
  <2>2. TypeOK' /\ InputConserved' /\ OutputConserved'
    BY <1>5, <2>1 DEF OutSendTimeout, TypeOK, envVars, connVars, tapVars, inVars, outVars,
                      InputConserved, OutputConserved
  <2>3. QED
    BY <2>2
<1>6. QED
  BY <1>1, <1>2, <1>3, <1>4, <1>5

LEMMA StutterStep == ASSUME IInv, UNCHANGED vars PROVE IInv'
BY DEF IInv, vars, TypeOK, OutputConserved, InputConserved, envVars, connVars,
       tapVars, sendVars, inVars, outVars

LEMMA NextIInv == IInv /\ [Next]_vars => IInv'
<1> SUFFICES ASSUME IInv, [Next]_vars PROVE IInv'
  OBVIOUS
<1>1. CASE QuietStep
  BY <1>1, QuietSteps, QuietKeeps, QuietType DEF IInv
<1>2. CASE Environment
  BY <1>1, <1>2, ClientSendStep DEF Environment, QuietStep
<1>3. CASE Connection
  BY <1>1, <1>3, StdoutWrites, QueueReads DEF Connection, ShellThread, QuietStep
<1>4. CASE ClientTap
  BY <1>1, <1>4, StdoutWrites, StdinWrites, TapRecvByteStep DEF ClientTap, QuietStep
<1>5. CASE ServerTap
  BY <1>1, <1>5, QueueReads DEF ServerTap, QuietStep
<1>6. CASE WatchdogStop
  BY <1>6, StdinWrites
<1>7. CASE Rest \/ UNCHANGED vars
  BY <1>7, StutterStep DEF Rest
<1>8. QED
  BY <1>2, <1>3, <1>4, <1>5, <1>6, <1>7 DEF Next

LEMMA Invariance == Spec => []IInv
BY InitIInv, NextIInv, PTL DEF Spec

(* Every variable of a session keeps its type.                             *)
THEOREM TypeCorrect == Spec => []TypeOK
<1>1. IInv => TypeOK
  BY DEF IInv
<1>2. QED
  BY Invariance, <1>1, PTL

(* The tap that sends batches loses and reorders no output, and has no     *)
(* item in two sendalls that return, whatever the interleaving of the      *)
(* shell, the echo and failed sends.  What is on the wire: WireCorrect.    *)
THEOREM OutputCorrect == Spec => []OutputConserved
<1>1. IInv => OutputConserved
  BY DEF IInv
<1>2. QED
  BY Invariance, <1>1, PTL

(* The shell reads the lines of the client and the watchdog once each, in  *)
(* the order they were written.                                            *)
THEOREM InputCorrect == Spec => []InputConserved
<1>1. IInv => InputConserved
  BY DEF IInv
<1>2. QED
  BY Invariance, <1>1, PTL
-----------------------------------------------------------------------------
(* What is on the wire.  Items are numbered in the order they are written, *)
(* so the batch is numbered from the first item no sendall returned with.  *)
WireInv ==
  /\ WireInOrder
  /\ \A i \in 1 .. Len(outlog) : outlog[i].at = i
  /\ \A k \in 1 .. Len(wire) : wire[k].at \in 1 .. Len(outlog)
  /\ \A c \in cuts : c.place \in 1 .. Len(wire)

LEMMA BatchNumbers ==
  ASSUME IInv, WireInv, NEW i \in 1 .. Len(batch)
  PROVE  /\ Len(sent) + i \in 1 .. Len(outlog)
         /\ batch[i] = outlog[Len(sent) + i]
         /\ batch[i].at = Len(sent) + i
<1>1. /\ sent \in Seq(Item) /\ batch \in Seq(Item) /\ stdout \in Seq(Item)
      /\ outlog \in Seq(Item)
  BY DEF IInv, TypeOK
<1>2. sent \o batch \in Seq(Item) /\ Len(sent \o batch) = Len(sent) + Len(batch)
  BY <1>1, ConcatProperties
<1>3. /\ outlog = (sent \o batch) \o stdout
      /\ Len(outlog) = Len(sent) + Len(batch) + Len(stdout)
  BY <1>1, <1>2, ConcatProperties DEF IInv, OutputConserved
<1>4. Len(sent) \in Nat /\ Len(batch) \in Nat /\ Len(stdout) \in Nat
  BY <1>1, LenProperties
<1>5. Len(sent) + i \in 1 .. Len(sent \o batch)
  BY <1>2, <1>4
<1>6. outlog[Len(sent) + i] = (sent \o batch)[Len(sent) + i]
  BY <1>1, <1>2, <1>3, <1>4, <1>5, ConcatProperties
<1>7. (sent \o batch)[Len(sent) + i] = batch[i]
  BY <1>1, <1>4, <1>5, ConcatProperties
<1>8. QED
  BY <1>3, <1>4, <1>6, <1>7 DEF WireInv

(* A send that puts the first n items of its batch on the wire.            *)
LEMMA WireGrows ==
  ASSUME IInv, WireInv, NEW n \in 0 .. Len(batch), UNCHANGED outlog,
         Len(wire') = Len(wire) + n,
         \A k \in 1 .. Len(wire) : wire'[k] = wire[k],
         \A i \in 1 .. n : wire'[Len(wire) + i] = batch[i],
         cuts \subseteq cuts', \A c \in cuts' \ cuts : n # 0 /\ c.place = Len(wire) + n
  PROVE  /\ \A k \in 1 .. Len(wire') : /\ wire'[k] = outlog'[wire'[k].at]
                                       /\ Due(k, wire[k].at)'
                                       /\ wire'[k].at \in 1 .. Len(outlog')
         /\ \A c \in cuts' : c.place \in 1 .. Len(wire')
<1>1. Len(wire) \in Nat /\ Len(batch) \in Nat /\ Len(sent) \in Nat
  BY LenProperties DEF IInv, TypeOK
<1>2. \A c \in cuts' : c.place \in 1 .. Len(wire')
  BY <1>1 DEF WireInv
<1>3. ASSUME NEW k \in 1 .. Len(wire) + n
      PROVE  \A at : [place |-> k - 1, first |-> at] \in cuts'
                        <=> [place |-> k - 1, first |-> at] \in cuts
  BY <1>1
<1>4. ASSUME NEW k \in 1 .. Len(wire) + n
      PROVE  (\E c \in cuts' : c.place = k - 1) <=> (\E c \in cuts : c.place = k - 1)
  BY <1>1
<1>5. ASSUME NEW k \in 1 .. Len(wire)
      PROVE  /\ wire'[k] = outlog'[wire'[k].at]
             /\ Due(k, wire[k].at)'
             /\ wire'[k].at \in 1 .. Len(outlog')
  <2>1. wire'[k] = wire[k] /\ (k # 1 => wire'[k - 1] = wire[k - 1]) /\ k \in 1 .. Len(wire) + n
    BY <1>1
  <2>2. Due(k, wire[k].at) /\ wire[k] = outlog[wire[k].at] /\ wire[k].at \in 1 .. Len(outlog)
    BY DEF WireInv, WireInOrder
  <2>3. Due(k, wire[k].at)'
    BY <1>3, <1>4, <2>1, <2>2 DEF Due
  <2>4. QED
    BY <2>1, <2>2, <2>3
<1>6. ASSUME NEW k \in 1 .. Len(wire) + n, NEW i \in 1 .. n, k = Len(wire) + i
      PROVE  /\ wire'[k] = outlog'[wire'[k].at]
             /\ Due(k, wire[k].at)'
             /\ wire'[k].at \in 1 .. Len(outlog')
  <2>1. /\ wire'[k] = batch[i] /\ batch[i].at = Len(sent) + i
        /\ batch[i] = outlog[Len(sent) + i] /\ Len(sent) + i \in 1 .. Len(outlog)
    BY <1>1, <1>6, BatchNumbers
  <2>2. k \in 1 .. Len(wire) + n /\ k \in 1 .. Len(wire')
    BY <1>1
  <2>3. CASE i = 1
    <3>1. Due(k, Len(sent) + 1)
      BY <1>1, <1>6, <2>3 DEF WireInv, WireInOrder
    <3>2. k # 1 => wire'[k - 1] = wire[k - 1]
      BY <1>1, <1>6, <2>3
    <3>3. Due(k, wire[k].at)'
      BY <1>3, <1>4, <2>1, <2>2, <2>3, <3>1, <3>2 DEF Due
    <3>4. QED
      BY <2>1, <3>3
  <2>4. CASE i # 1
    <3>1. i - 1 \in 1 .. n /\ i - 1 \in 1 .. Len(batch)
      BY <1>1, <2>4
    <3>2. wire'[k - 1] = batch[i - 1] /\ batch[i - 1].at = Len(sent) + (i - 1)
      <4>1. k - 1 = Len(wire) + (i - 1)
        BY <1>1, <1>6
      <4>2. QED
        BY <3>1, <4>1, BatchNumbers
    <3>3. ~\E c \in cuts' : c.place = k - 1
      BY <1>1, <1>4, <1>6, <2>2, <2>4 DEF WireInv
    <3>4. k # 1
      BY <1>1, <1>6, <2>4
    <3>5. Due(k, wire[k].at)'
      BY <1>1, <2>1, <3>2, <3>3, <3>4 DEF Due
    <3>6. QED
      BY <2>1, <3>5
  <2>5. QED
    BY <2>3, <2>4
<1>7. ASSUME NEW k \in 1 .. Len(wire')
      PROVE  /\ wire'[k] = outlog'[wire'[k].at]
             /\ Due(k, wire[k].at)'
             /\ wire'[k].at \in 1 .. Len(outlog')
  <2>1. CASE k \in 1 .. Len(wire)
    BY <1>5, <2>1
  <2>2. CASE k \notin 1 .. Len(wire)
    <3>1. k \in 1 .. Len(wire) + n
      OBVIOUS
    <3>2. k - Len(wire) \in 1 .. n /\ k = Len(wire) + (k - Len(wire))
      BY <1>1, <2>2, <3>1
    <3>3. PICK i \in 1 .. n : k = Len(wire) + i
      BY <3>2
    <3>4. QED
      BY <1>6, <3>1, <3>3
  <2>3. QED
    BY <2>1, <2>2
<1>8. QED
  BY <1>2, <1>7

LEMMA BrokenSendKeepsWire ==
  ASSUME IInv, WireInv, NEW n \in 0 .. Len(batch), BreaksOff(n), UNCHANGED outlog
  PROVE  WireInv'
<1>1. /\ wire \in Seq(Item) /\ batch \in Seq(Item)
      /\ Len(wire) \in Nat /\ Len(batch) \in Nat /\ Len(sent) \in Nat
  BY LenProperties DEF IInv, TypeOK
<1>2. /\ SubSeq(batch, 1, n) \in Seq(Item) /\ Len(SubSeq(batch, 1, n)) = n
      /\ \A i \in 1 .. n : SubSeq(batch, 1, n)[i] = batch[i]
  BY <1>1, SubSeqProperties
<1>3. /\ Len(wire') = Len(wire) + n
      /\ \A k \in 1 .. Len(wire) : wire'[k] = wire[k]
      /\ \A i \in 1 .. n : wire'[Len(wire) + i] = batch[i]
  BY <1>1, <1>2, ConcatProperties DEF BreaksOff
<1>4. cuts \subseteq cuts' /\ \A c \in cuts' \ cuts : n # 0 /\ c.place = Len(wire) + n
  BY DEF BreaksOff
<1>5. /\ \A k \in 1 .. Len(wire') : /\ wire'[k] = outlog'[wire'[k].at]
                                    /\ Due(k, wire[k].at)'
                                    /\ wire'[k].at \in 1 .. Len(outlog')
      /\ \A c \in cuts' : c.place \in 1 .. Len(wire')
  BY <1>3, <1>4, WireGrows
<1>6. Due(Len(wire) + 1, Len(sent) + 1)'
  <2>1. CASE n = 0
    <3>1. cuts' = cuts /\ sent' = sent /\ wire' = wire
      <4>1. wire' \in Seq(Item)
        BY BreaksOffType DEF IInv
      <4>2. QED
        BY <1>1, <1>3, <2>1, <4>1, SeqEqual DEF BreaksOff
    <3>2. QED
      BY <3>1 DEF WireInv, WireInOrder, Due
  <2>2. CASE n # 0
    <3>1. [place |-> Len(wire) + n, first |-> batch[1].at] \in cuts' /\ sent' = sent
      BY <2>2 DEF BreaksOff
    <3>2. batch[1].at = Len(sent) + 1
      BY <1>1, <2>2, BatchNumbers
    <3>3. Len(wire') + 1 - 1 = Len(wire) + n
      BY <1>1, <1>3
    <3>4. QED
      BY <3>1, <3>2, <3>3 DEF Due
  <2>3. QED
    BY <2>1, <2>2
<1>7. QED
  BY <1>5, <1>6 DEF WireInv, WireInOrder

LEMMA WholeSendKeepsWire ==
  ASSUME IInv, WireInv, wire' = wire \o batch, sent' = sent \o batch,
         UNCHANGED <<outlog, cuts>>
  PROVE  WireInv'
<1>1. /\ wire \in Seq(Item) /\ batch \in Seq(Item) /\ sent \in Seq(Item)
      /\ Len(wire) \in Nat /\ Len(batch) \in Nat /\ Len(sent) \in Nat
  BY LenProperties DEF IInv, TypeOK
<1>2. /\ Len(wire') = Len(wire) + Len(batch)
      /\ \A k \in 1 .. Len(wire) : wire'[k] = wire[k]
      /\ \A i \in 1 .. Len(batch) : wire'[Len(wire) + i] = batch[i]
      /\ Len(sent') = Len(sent) + Len(batch)
  BY <1>1, ConcatProperties
<1>3. /\ \A k \in 1 .. Len(wire') : /\ wire'[k] = outlog'[wire'[k].at]
                                    /\ Due(k, wire[k].at)'
                                    /\ wire'[k].at \in 1 .. Len(outlog')
      /\ \A c \in cuts' : c.place \in 1 .. Len(wire')
  <2>1. Len(batch) \in 0 .. Len(batch)
    BY <1>1
  <2>2. /\ cuts \subseteq cuts'
        /\ \A c \in cuts' \ cuts : Len(batch) # 0 /\ c.place = Len(wire) + Len(batch)
    OBVIOUS
  <2>3. UNCHANGED outlog
    OBVIOUS
  <2>4. QED
    BY <1>2, <2>1, <2>2, <2>3, WireGrows
<1>4. Due(Len(wire) + 1, Len(sent) + 1)'
  <2>1. CASE batch = <<>>
    BY <1>1, <2>1, ConcatEmptySeq DEF WireInv, WireInOrder, Due
  <2>2. CASE batch # <<>>
    <3>1. Len(batch) \in 1 .. Len(batch)
      BY <1>1, <2>2, EmptySeq
    <3>2. wire'[Len(wire')].at = Len(sent')
      BY <1>2, <3>1, BatchNumbers
    <3>3. ~\E c \in cuts' : c.place = Len(wire')
      BY <1>1, <1>2, <3>1 DEF WireInv
    <3>4. Len(wire') + 1 - 1 = Len(wire') /\ Len(wire') + 1 # 1
      BY <1>1, <1>2, <3>1
    <3>5. QED
      BY <3>2, <3>3, <3>4 DEF Due
  <2>3. QED
    BY <2>1, <2>2
<1>5. QED
  BY <1>3, <1>4 DEF WireInv, WireInOrder

LEMMA WritesKeepWire ==
  ASSUME IInv, WireInv, NEW kind \in ItemKind, WriteStdout(kind), UNCHANGED <<sent, wire, cuts>>
  PROVE  WireInv'
<1> DEFINE item == [kind |-> kind, at |-> Len(outlog) + 1]
<1>1. outlog \in Seq(Item) /\ wire \in Seq(Item) /\ Len(outlog) \in Nat /\ Len(wire) \in Nat
  BY LenProperties DEF IInv, TypeOK
<1>2. item \in Item /\ item.at = Len(outlog) + 1
  BY <1>1 DEF Item, ItemKind
<1>3. /\ Len(outlog') = Len(outlog) + 1 /\ outlog'[Len(outlog) + 1] = item
      /\ \A i \in 1 .. Len(outlog) : outlog'[i] = outlog[i]
  BY <1>1, <1>2, AppendProperties DEF WriteStdout
<1> HIDE DEF item
<1>4. \A i \in 1 .. Len(outlog') : outlog'[i].at = i
  BY <1>1, <1>2, <1>3 DEF WireInv
<1>5. ASSUME NEW k \in 1 .. Len(wire)
      PROVE  /\ wire[k] = outlog'[wire[k].at]
             /\ wire[k].at \in 1 .. Len(outlog')
  BY <1>1, <1>3 DEF WireInv, WireInOrder
<1>6. QED
  BY <1>4, <1>5 DEF WireInv, WireInOrder, Due

(* Steps that leave the output that was written, and the wire, alone.      *)
WireQuiet == UNCHANGED <<outlog, sent, wire, cuts>>

LEMMA QuietKeepsWire ==
  ASSUME IInv, WireInv, WireQuiet PROVE WireInv'
BY DEF WireInv, WireInOrder, Due, WireQuiet

LEMMA WireQuietSteps ==
  ASSUME QuietStep \/ TapRecvByte \/ TapForward \/ WatchdogStop \/ ShellRead
           \/ OutRead \/ OutDrain \/ UNCHANGED vars \/ \E b \in Bytes : ClientSend(b)
  PROVE  WireQuiet
<1>1. CASE QuietStep
  BY <1>1 DEF QuietStep, WireQuiet, ClientDisconnect, TransportDies, ServerStop,
       AcceptChannel, AcceptPolls, AcceptLoop, AcceptTimesOut, AcceptGivesUp,
       AcceptAndStart, LoginSucceeds, LoginFails, StartSession, DispatchBlank,
       DispatchHelp, DispatchExit, DispatchDefault, FinallyClear, FinallyClose,
       TapLoop, TapRecvNothing, TapGate, TapEchoText, TapClearReplied, TapExit,
       OutLoop, OutSendTest, OutSetReplied, OutExit, outVars
<1>2. CASE ~QuietStep
  BY <1>2 DEF WireQuiet, TapRecvByte, TapForward, WatchdogStop, ShellRead, OutRead,
              OutDrain, vars, ClientSend, outVars
<1>3. QED
  BY <1>1, <1>2

LEMMA WriteStepsKeepWire ==
  ASSUME IInv, WireInv, ShellIntro \/ ShellPrompt \/ ShellWriteline \/ TapEchoNewline
  PROVE  WireInv'
<1>1. CASE ShellWriteline /\ ~(left > 0)
  <2>1. WireQuiet
    BY <1>1 DEF ShellWriteline, WireQuiet, outVars
  <2>2. QED
    BY <2>1, QuietKeepsWire
<1>2. CASE ~(ShellWriteline /\ ~(left > 0))
  <2>1. \E kind \in ItemKind : WriteStdout(kind)
    BY <1>2, OutKindsAssumption
       DEF ShellIntro, ShellPrompt, ShellWriteline, TapEchoNewline, ItemKind
  <2>2. UNCHANGED <<sent, wire, cuts>>
    BY DEF ShellIntro, ShellPrompt, ShellWriteline, TapEchoNewline
  <2>3. QED
    BY <2>1, <2>2, WritesKeepWire
<1>3. QED
  BY <1>1, <1>2

LEMMA SendsKeepWire ==
  ASSUME IInv, WireInv, OutSend \/ OutSendTimeout PROVE WireInv'
<1>1. UNCHANGED outlog
  BY DEF OutSend, OutSendTimeout, outVars
<1>2. CASE \E n \in 0 .. Len(batch) : BreaksOff(n)
  BY <1>1, <1>2, BrokenSendKeepsWire
<1>3. CASE wire' = wire \o batch /\ sent' = sent \o batch /\ UNCHANGED cuts
  BY <1>1, <1>3, WholeSendKeepsWire
<1>4. QED
  BY <1>2, <1>3 DEF OutSend, OutSendTimeout

(* The client gets all output in order and without a gap; what a send that *)
(* timed out half way had put on the wire comes again, with the rest of    *)
(* its batch (tap_bridge.py:260), and nothing else comes twice.            *)
THEOREM WireCorrect == Spec => []WireInOrder
<1>1. Init => WireInv
  <2> SUFFICES ASSUME Init PROVE WireInv
    OBVIOUS
  <2>1. Len(wire) = 0 /\ Len(sent) = 0 /\ Len(outlog) = 0 /\ cuts = {}
    BY EmptySeq DEF Init
  <2>2. QED
    BY <2>1 DEF WireInv, WireInOrder, Due
<1>2. IInv /\ WireInv /\ [Next]_vars => WireInv'
  <2> SUFFICES ASSUME IInv, WireInv, [Next]_vars PROVE WireInv'
    OBVIOUS
  <2>1. CASE ShellIntro \/ ShellPrompt \/ ShellWriteline \/ TapEchoNewline
    BY <2>1, WriteStepsKeepWire
  <2>2. CASE OutSend \/ OutSendTimeout
    BY <2>2, SendsKeepWire
  <2>3. CASE QuietStep \/ TapRecvByte \/ TapForward \/ WatchdogStop \/ ShellRead
               \/ OutRead \/ OutDrain \/ UNCHANGED vars \/ \E b \in Bytes : ClientSend(b)
    BY <2>3, WireQuietSteps, QuietKeepsWire
  <2>4. QED
    BY <2>1, <2>2, <2>3 DEF Next, Rest, Environment, Connection, ShellThread, ClientTap,
                            ServerTap, QuietStep
<1>3. WireInv => WireInOrder
  BY DEF WireInv
<1>4. QED
  BY <1>1, <1>2, <1>3, Invariance, PTL DEF Spec

-----------------------------------------------------------------------------
(* Every line of the client has been echoed before it is in stdin, and one *)
(* more line once its echo is queued and the line is not.                  *)
Echoed == Count(outlog, Echo) >= Count(inlog, ClientLine) + IF cpc = "forward" THEN 1 ELSE 0

LEMMA Counts ==
  ASSUME NEW S, NEW s \in Seq(S), NEW T
  PROVE  /\ Count(s, T) \in Nat
         /\ \A e \in S : Count(Append(s, e), T) = Count(s, T) + IF e \in T THEN 1 ELSE 0
<1>1. \A q \in Seq(S) : Count(q, T) = Cardinality(Places(q, T))
  BY DEF Count
<1>2. ASSUME NEW e \in S
      PROVE  Count(Append(s, e), T) = Count(s, T) + IF e \in T THEN 1 ELSE 0
  <2>1. Append(s, e) \in Seq(S)
    BY AppendProperties
  <2>2. Cardinality(Places(Append(s, e), T))
          = Cardinality(Places(s, T)) + IF e \in T THEN 1 ELSE 0
    BY PlacesAppend
  <2>3. QED
    BY <1>1, <2>1, <2>2
<1>3. Count(s, T) \in Nat
  BY <1>1, PlacesFinite
<1>4. QED
  BY <1>2, <1>3

(* Whoever writes to stdout, no echo is taken back.                        *)
LEMMA EchoesGrow ==
  ASSUME TypeOK, NEW kind \in ItemKind, WriteStdout(kind)
  PROVE  /\ Count(outlog', Echo) >= Count(outlog, Echo)
         /\ kind = "echo" => Count(outlog', Echo) = Count(outlog, Echo) + 1
<1> DEFINE item == [kind |-> kind, at |-> Len(outlog) + 1]
<1>1. outlog \in Seq(Item) /\ Len(outlog) + 1 \in Nat
  BY LenProperties DEF TypeOK
<1>2. item \in Item /\ (kind = "echo" => item \in Echo)
  BY <1>1 DEF Item, ItemKind, Echo
<1>3. outlog' = Append(outlog, item)
  BY DEF WriteStdout
<1> HIDE DEF item
<1>4. QED
  BY <1>1, <1>2, <1>3, Counts

LEMMA EchoedCounts ==
  ASSUME TypeOK
  PROVE  Count(outlog, Echo) \in Nat /\ Count(inlog, ClientLine) \in Nat
BY Counts DEF TypeOK

LEMMA WritesKeepEchoed ==
  ASSUME TypeOK, Echoed, ShellIntro \/ ShellPrompt \/ ShellWriteline \/ TapEchoNewline
  PROVE  Echoed'
<1> USE EchoedCounts
<1>1. UNCHANGED inlog
  BY DEF ShellIntro, ShellPrompt, ShellWriteline, TapEchoNewline, inVars
<1>2. CASE TapEchoNewline
  <2>1. WriteStdout("echo") /\ cpc = "echo" /\ cpc' = "forward"
    BY <1>2 DEF TapEchoNewline
  <2>2. Count(outlog', Echo) = Count(outlog, Echo) + 1
    BY <2>1, EchoesGrow DEF ItemKind
  <2>3. QED
    BY <1>1, <2>1, <2>2 DEF Echoed
<1>3. CASE ShellIntro \/ ShellPrompt \/ ShellWriteline
  <2>1. UNCHANGED cpc
    BY <1>3 DEF ShellIntro, ShellPrompt, ShellWriteline, tapVars
  <2>2. (\E kind \in ItemKind : WriteStdout(kind)) \/ UNCHANGED outlog
    BY <1>3, OutKindsAssumption DEF ShellIntro, ShellPrompt, ShellWriteline, ItemKind, outVars
  <2>3. Count(outlog', Echo) >= Count(outlog, Echo)
    BY <2>2, EchoesGrow
  <2>4. Count(outlog', Echo) \in Nat
    <3>1. outlog' \in Seq(Item)
      <4>1. outlog \in Seq(Item)
        BY DEF TypeOK
      <4>2. ASSUME NEW kind \in ItemKind, WriteStdout(kind) PROVE outlog' \in Seq(Item)
        <5>1. [kind |-> kind, at |-> Len(outlog) + 1] \in Item
          BY <4>1, LenProperties DEF Item, ItemKind
        <5>2. QED
          BY <4>1, <4>2, <5>1, AppendProperties DEF WriteStdout
      <4>3. QED
        BY <2>2, <4>1, <4>2
    <3>2. QED
      BY <3>1, Counts
  <2>5. QED
    BY <1>1, <2>1, <2>3, <2>4 DEF Echoed
<1>4. QED
  BY <1>2, <1>3

LEMMA StdinKeepsEchoed ==
  ASSUME TypeOK, Echoed, TapForward \/ WatchdogStop
  PROVE  Echoed'
<1> USE EchoedCounts
<1>1. UNCHANGED outlog /\ inlog \in Seq(Line)
  BY DEF TapForward, WatchdogStop, outVars, TypeOK
<1>2. CASE TapForward
  <2>1. cpc = "forward" /\ cpc' # "forward"
    BY <1>2 DEF TapForward
  <2>2. CASE cbuf # "bad"
    <3>1. [from |-> "client", blank |-> cbuf = "empty"] \in Line
      BY DEF Line
    <3>2. inlog' = Append(inlog, [from |-> "client", blank |-> cbuf = "empty"])
      BY <1>2, <2>2 DEF TapForward, WriteStdin
    <3>3. Count(inlog', ClientLine) <= Count(inlog, ClientLine) + 1
      BY <1>1, <3>1, <3>2, Counts
    <3>4. Count(inlog', ClientLine) \in Nat
      BY <1>1, <3>1, <3>2, Counts
    <3>5. QED
      BY <1>1, <2>1, <3>3, <3>4 DEF Echoed
  <2>3. CASE cbuf = "bad"
    <3>1. UNCHANGED inlog
      BY <1>2, <2>3 DEF TapForward, inVars
    <3>2. QED
      BY <1>1, <2>1, <3>1 DEF Echoed
  <2>4. QED
    BY <2>2, <2>3
<1>3. CASE WatchdogStop
  <2>1. UNCHANGED cpc
    BY <1>3 DEF WatchdogStop, tapVars
  <2>2. [from |-> "watchdog", blank |-> FALSE] \in Line \ ClientLine
    BY Zenon DEF Line, ClientLine
  <2>3. UNCHANGED inlog \/ inlog' = Append(inlog, [from |-> "watchdog", blank |-> FALSE])
    BY <1>3 DEF WatchdogStop, WriteStdin, inVars
  <2>4. Count(inlog', ClientLine) = Count(inlog, ClientLine)
    <3>1. CASE UNCHANGED inlog
      BY <3>1
    <3>2. ASSUME NEW e \in Line \ ClientLine, inlog' = Append(inlog, e)
          PROVE  Count(inlog', ClientLine) = Count(inlog, ClientLine)
      <4>1. Count(Append(inlog, e), ClientLine) = Count(inlog, ClientLine) + 0
        BY <1>1, <3>2, Counts
      <4>2. QED
        BY <3>2, <4>1
    <3>3. QED
      BY <2>2, <2>3, <3>1, <3>2
  <2>5. QED
    BY <1>1, <2>1, <2>4 DEF Echoed
<1>4. QED
  BY <1>2, <1>3

(* No other step writes to a queue or goes to or from "forward".           *)
LEMMA OthersKeepEchoed ==
  ASSUME TypeOK, Echoed, UNCHANGED <<outlog, inlog>>, cpc' = "forward" => cpc = "forward"
  PROVE  Echoed'
BY EchoedCounts DEF Echoed

LEMMA QuietKeepsEchoed ==
  ASSUME TypeOK, Echoed, QuietStep \/ TapRecvByte \/ ShellRead \/ OutRead \/ OutDrain \/ OutSend
                 \/ OutSendTimeout \/ UNCHANGED vars \/ \E b \in Bytes : ClientSend(b)
  PROVE  Echoed'
<1>1. UNCHANGED <<outlog, inlog>>
  BY QuietSteps DEF Quiet, TapRecvByte, ShellRead, OutRead, OutDrain, OutSend,
                    OutSendTimeout, vars, ClientSend, inVars, outVars
<1>2. cpc' = "forward" => cpc = "forward"
  <2>1. CASE QuietStep
    BY <2>1 DEF QuietStep, ClientDisconnect, TransportDies, ServerStop, AcceptChannel,
       AcceptPolls, AcceptLoop, AcceptTimesOut, AcceptGivesUp, AcceptAndStart,
       LoginSucceeds, LoginFails, StartSession, DispatchBlank, DispatchHelp, DispatchExit,
       DispatchDefault, FinallyClear, FinallyClose, TapLoop, TapRecvNothing, TapGate,
       TapEchoText, TapClearReplied, TapExit, OutLoop, OutSendTest,
       OutSetReplied, OutExit, tapVars
  <2>2. CASE ~QuietStep
    BY <2>2 DEF TapRecvByte, ShellRead, OutRead, OutDrain, OutSend, OutSendTimeout, vars,
                ClientSend, tapVars
  <2>3. QED
    BY <2>1, <2>2
<1>3. QED
  BY <1>1, <1>2, OthersKeepEchoed

LEMMA EchoedInvariant == Spec => []Echoed
<1>1. Init => Echoed
  <2>1. ASSUME Init PROVE Echoed
    <3>1. outlog = <<>> /\ inlog = <<>> /\ cpc = "new"
      BY <2>1 DEF Init
    <3>2. Count(<<>>, Echo) = Count(<<>>, ClientLine)
      BY DEF Count, Places
    <3>3. Count(outlog, Echo) \in Nat
      BY <2>1, InitIInv, EchoedCounts DEF IInv
    <3>4. QED
      BY <3>1, <3>2, <3>3 DEF Echoed
  <2>2. QED
    BY <2>1
<1>2. IInv /\ Echoed /\ [Next]_vars => Echoed'
  <2> SUFFICES ASSUME TypeOK, Echoed, [Next]_vars PROVE Echoed'
    BY DEF IInv
  <2>1. CASE ShellIntro \/ ShellPrompt \/ ShellWriteline \/ TapEchoNewline
    BY <2>1, WritesKeepEchoed
  <2>2. CASE TapForward \/ WatchdogStop
    BY <2>2, StdinKeepsEchoed
  <2>3. CASE QuietStep \/ TapRecvByte \/ ShellRead \/ OutRead \/ OutDrain \/ OutSend
             \/ OutSendTimeout \/ UNCHANGED vars \/ \E b \in Bytes : ClientSend(b)
    BY <2>3, QuietKeepsEchoed
  <2>4. QED
    BY <2>1, <2>2, <2>3 DEF Next, Rest, Environment, Connection, ShellThread, ClientTap,
                            ServerTap, QuietStep
<1>3. QED
  BY <1>1, <1>2, Invariance, PTL DEF Spec

(* The echo of a line is queued before any reply to it, whichever threads  *)
(* run in between: each line of the client that the shell has read was     *)
(* written to stdin, and none is that has not been echoed.                 *)
THEOREM EchoCorrect == Spec => []EchoPrecedesReply
<1>1. IInv /\ Echoed => EchoPrecedesReply
  <2> SUFFICES ASSUME IInv, Echoed PROVE EchoPrecedesReply
    OBVIOUS
  <2>1. ran \in Seq(Line) /\ stdin \in Seq(Line) /\ inlog = ran \o stdin
    BY DEF IInv, TypeOK, InputConserved
  <2>2. Count(ran, ClientLine) <= Count(inlog, ClientLine)
    <3>1. Cardinality(Places(ran, ClientLine)) <= Cardinality(Places(ran \o stdin, ClientLine))
      BY <2>1, PlacesPrefix
    <3>2. \A q : Count(q, ClientLine) = Cardinality(Places(q, ClientLine))
      BY DEF Count
    <3>3. QED
      BY <2>1, <3>1, <3>2
  <2>3. /\ Count(outlog, Echo) \in Nat /\ Count(inlog, ClientLine) \in Nat
        /\ Count(ran, ClientLine) \in Nat
    BY <2>1, EchoedCounts, Counts DEF IInv
  <2>4. QED
    BY <2>2, <2>3 DEF Echoed, EchoPrecedesReply
<1>2. QED
  BY <1>1, Invariance, EchoedInvariant, PTL
-----------------------------------------------------------------------------
(* What one more byte changes in what the client typed.                    *)
LEMMA HalfAppend ==
  ASSUME NEW h \in Seq(Byte), NEW b \in Byte, NEW i \in 1 .. Len(h) + 1
  PROVE  SecondHalf(Append(h, b), i) <=> SecondHalf(h, i)
<1>1. \A j \in 1 .. i - 1 : /\ Append(h, b)[j] = h[j]
                            /\ \A m \in j + 1 .. i - 1 : Append(h, b)[m] = h[m]
  BY LenProperties, AppendProperties
<1>2. QED
  BY <1>1 DEF SecondHalf

LEMMA HalfNext ==
  ASSUME NEW h \in Seq(Byte), NEW n \in 1 .. Len(h)
  PROVE  SecondHalf(h, n + 1) <=> \/ h[n] = "cr"
                                  \/ h[n] = "nul" /\ Kind = "ssh" /\ SecondHalf(h, n)
<1>1. n \in Nat /\ n > 0
  BY LenProperties
<1>2. SecondHalf(h, n + 1) =>
        h[n] = "cr" \/ (h[n] = "nul" /\ Kind = "ssh" /\ SecondHalf(h, n))
  <2> SUFFICES ASSUME NEW j \in 1 .. n, h[j] = "cr", h[n] # "cr",
                      \A m \in j + 1 .. n : h[m] = "nul" /\ Kind = "ssh"
               PROVE  h[n] = "nul" /\ Kind = "ssh" /\ SecondHalf(h, n)
    BY <1>1 DEF SecondHalf
  <2>1. j \in 1 .. n - 1
    BY <1>1
  <2>2. QED
    BY <1>1, <2>1 DEF SecondHalf
<1>3. h[n] = "cr" => SecondHalf(h, n + 1)
  BY <1>1 DEF SecondHalf
<1>4. h[n] = "nul" /\ Kind = "ssh" /\ SecondHalf(h, n) => SecondHalf(h, n + 1)
  <2> SUFFICES ASSUME h[n] = "nul", Kind = "ssh", NEW j \in 1 .. n - 1, h[j] = "cr",
                      \A m \in j + 1 .. n - 1 : h[m] = "nul"
               PROVE  SecondHalf(h, n + 1)
    BY <1>1 DEF SecondHalf
  <2>1. \A m \in j + 1 .. n : m = n \/ m \in j + 1 .. n - 1
    BY <1>1
  <2>2. j \in 1 .. n /\ \A m \in j + 1 .. n : h[m] = "nul"
    BY <1>1, <2>1
  <2>3. QED
    BY <1>1, <2>2 DEF SecondHalf
<1>5. QED
  BY <1>2, <1>3, <1>4

(* The places of line ends are finitely many, all after the login's.       *)
LEMMA EndsFinite ==
  ASSUME NEW h \in Seq(Byte)
  PROVE  /\ IsFiniteSet(LineEnds(h)) /\ LineEnds(h) \in SUBSET Nat
         /\ \A i \in LineEnds(h) : i \in 2 .. Len(h)
         /\ Cardinality(LineEnds(h)) \in Nat
<1>1. IsFiniteSet(2 .. Len(h)) /\ Len(h) \in Nat
  BY LenProperties, FS_Interval
<1>2. LineEnds(h) \in SUBSET (2 .. Len(h)) /\ LineEnds(h) \in SUBSET Nat
  BY <1>1 DEF LineEnds
<1>3. QED
  BY <1>1, <1>2, FS_Subset, FS_CardinalityType

LEMMA EndsAppend ==
  ASSUME NEW h \in Seq(Byte), NEW b \in Byte, h # <<>>
  PROVE  LineEnds(Append(h, b)) =
           LineEnds(h) \cup IF b = "cr" \/ (b = "lf" /\ ~SecondHalf(h, Len(h) + 1))
                            THEN {Len(h) + 1} ELSE {}
<1> DEFINE g == Append(h, b)
           n == Len(h)
<1>1. /\ n \in Nat \ {0} /\ g[n + 1] = b /\ \A i \in 1 .. n : g[i] = h[i]
      /\ Len(g) = n + 1
  BY LenProperties, AppendProperties, EmptySeq
<1>2. \A i \in 1 .. n + 1 : SecondHalf(g, i) <=> SecondHalf(h, i)
  BY HalfAppend
<1> HIDE DEF g, n
<1>3. \A i \in 2 .. n : i \in LineEnds(g) <=> i \in LineEnds(h)
  <2> TAKE i \in 2 .. n
  <2>1. i \in 2 .. Len(g) /\ i \in 2 .. Len(h) /\ g[i] = h[i]
    BY <1>1 DEF n
  <2>2. SecondHalf(g, i) <=> SecondHalf(h, i)
    BY <1>1, <1>2
  <2>3. QED
    BY <2>1, <2>2 DEF LineEnds
<1>4. n + 1 \in LineEnds(g) <=> b = "cr" \/ (b = "lf" /\ ~SecondHalf(h, n + 1))
  BY <1>1, <1>2 DEF LineEnds
<1>5. LineEnds(g) \subseteq 2 .. n + 1 /\ LineEnds(h) \subseteq 2 .. n
  BY <1>1 DEF LineEnds, n
<1>6. \A i \in 2 .. n + 1 : i \in 2 .. n \/ i = n + 1
  BY <1>1
<1>7. QED
  BY <1>3, <1>4, <1>5, <1>6 DEF g, n

(* The text so far begins anew after a line end, and otherwise takes the   *)
(* byte in if that is text; a new byte changes no earlier text.            *)
LEMMA TextNext ==
  ASSUME NEW h \in Seq(Byte), NEW n \in 2 .. Len(h)
  PROVE  Text(h, n + 1) = IF n \in LineEnds(h) THEN {}
                          ELSE Text(h, n) \cup ({h[n]} \cap {"ch", "bad"})
<1>1. n \in Nat /\ (n + 1) - 1 = n
  BY LenProperties
<1>2. CASE n \in LineEnds(h)
  <2>1. \A i \in 2 .. n : n \in i .. n
    BY <1>1
  <2>2. QED
    BY <1>1, <1>2, <2>1 DEF Text
<1>3. CASE n \notin LineEnds(h)
  <2> DEFINE S == {i \in 2 .. n - 1 : i .. n - 1 \cap LineEnds(h) = {}}
  <2>1. \A i \in 2 .. n - 1 : i .. n \cap LineEnds(h) = {} <=> i .. n - 1 \cap LineEnds(h) = {}
    <3> TAKE i \in 2 .. n - 1
    <3>1. \A j : j \in i .. n <=> j = n \/ j \in i .. n - 1
      BY <1>1
    <3>2. QED
      BY <1>3, <3>1
  <2>2. n .. n \cap LineEnds(h) = {}
    BY <1>1, <1>3
  <2>3. \A i : i \in 2 .. n <=> i \in 2 .. n - 1 \/ i = n
    BY <1>1
  <2>4. {i \in 2 .. n : i .. n \cap LineEnds(h) = {}} = S \cup {n}
    BY <2>1, <2>2, <2>3
  <2> HIDE DEF S
  <2>5. {h[i] : i \in S \cup {n}} = {h[i] : i \in S} \cup {h[n]}
    OBVIOUS
  <2>6. Text(h, n + 1) = {h[i] : i \in S \cup {n}} \cap {"ch", "bad"}
    BY <1>1, <2>4 DEF Text
  <2>7. Text(h, n) = {h[i] : i \in S} \cap {"ch", "bad"}
    BY DEF Text, S
  <2>8. QED
    BY <1>3, <2>5, <2>6, <2>7
<1>4. QED
  BY <1>2, <1>3

LEMMA TextAppend ==
  ASSUME NEW h \in Seq(Byte), NEW b \in Byte, h # <<>>, NEW e \in 1 .. Len(h) + 1
  PROVE  Text(Append(h, b), e) = Text(h, e)
<1> DEFINE g == Append(h, b)
           n == Len(h)
<1>1. n \in Nat \ {0} /\ \A i \in 1 .. n : g[i] = h[i]
  BY LenProperties, AppendProperties, EmptySeq
<1>2. LineEnds(g) = LineEnds(h) \/ LineEnds(g) = LineEnds(h) \cup {n + 1}
  BY EndsAppend
<1> HIDE DEF g
<1>3. \A i \in 2 .. e - 1 : i .. e - 1 \cap LineEnds(g) = i .. e - 1 \cap LineEnds(h)
  BY <1>1, <1>2
<1>4. \A i \in 2 .. e - 1 : g[i] = h[i]
  BY <1>1
<1>5. QED
  BY <1>3, <1>4 DEF Text, g

-----------------------------------------------------------------------------
(* The lines forwarded so far against what was typed.                      *)
AsTyped(log, h) ==
  \A l \in Places(log, ClientLine), e \in LineEnds(h) :
    Rank(Places(log, ClientLine), l) = Rank(LineEnds(h), e) =>
      /\ log[l].blank <=> Text(h, e) = {}
      /\ "bad" \notin Text(h, e)

LEMMA PlacesNat ==
  ASSUME NEW log \in Seq(Line)
  PROVE  /\ IsFiniteSet(Places(log, ClientLine)) /\ Places(log, ClientLine) \in SUBSET Nat
         /\ Cardinality(Places(log, ClientLine)) \in Nat
         /\ \A l \in Places(log, ClientLine) : l \in 1 .. Len(log)
<1>1. DOMAIN log = 1 .. Len(log) /\ Len(log) \in Nat
  BY LenProperties
<1>2. \A l \in Places(log, ClientLine) : l \in 1 .. Len(log) /\ l \in Nat
  BY <1>1 DEF Places
<1>3. QED
  BY <1>2, PlacesFinite

(* A byte after as many lines as were forwarded changes none of them.      *)
LEMMA ByteKeepsLines ==
  ASSUME NEW log \in Seq(Line), NEW h \in Seq(Byte), NEW b \in Byte, h # <<>>,
         AsTyped(log, h),
         Cardinality(Places(log, ClientLine)) = Cardinality(LineEnds(h))
  PROVE  AsTyped(log, Append(h, b))
<1> DEFINE g == Append(h, b)
           P == Places(log, ClientLine)
           x == Len(h) + 1
<1>1. /\ P \in SUBSET Nat /\ IsFiniteSet(P) /\ Cardinality(P) \in Nat
      /\ LineEnds(h) \in SUBSET Nat /\ IsFiniteSet(LineEnds(h))
      /\ x \in Nat /\ \A i \in LineEnds(h) : i < x /\ i \in 1 .. x
  BY PlacesNat, EndsFinite, LenProperties
<1>2. LineEnds(g) = LineEnds(h) \/ LineEnds(g) = LineEnds(h) \cup {x}
  BY EndsAppend
<1>3. \A e \in LineEnds(h) : Text(g, e) = Text(h, e)
  BY <1>1, TextAppend
<1> HIDE DEF g, P, x
<1>4. \A e \in LineEnds(h) : Rank(LineEnds(h) \cup {x}, e) = Rank(LineEnds(h), e)
  BY <1>1, RankAdd
<1>5. \A l \in P : Rank(P, l) # Rank(LineEnds(h) \cup {x}, x)
  <2>1. \A l \in P : Rank(P, l) \in 0 .. Cardinality(P)
    BY <1>1, RankType
  <2>2. Rank(LineEnds(h) \cup {x}, x) = Cardinality(P) + 1
    BY <1>1, RankAdd DEF P
  <2>3. QED
    BY <1>1, <2>1, <2>2
<1>6. ASSUME NEW l \in P, NEW e \in LineEnds(g), Rank(P, l) = Rank(LineEnds(g), e)
      PROVE  e \in LineEnds(h) /\ Rank(P, l) = Rank(LineEnds(h), e)
  BY <1>2, <1>4, <1>5, <1>6
<1>7. QED
  BY <1>3, <1>6 DEF AsTyped, P, g

(* A line that is not the client's is not counted among its lines.         *)
LEMMA WatchdogKeepsLines ==
  ASSUME NEW log \in Seq(Line), NEW line \in Line \ ClientLine
  PROVE  /\ Places(Append(log, line), ClientLine) = Places(log, ClientLine)
         /\ \A h : AsTyped(log, h) => AsTyped(Append(log, line), h)
<1>1. line \in Line /\ line \notin ClientLine
  OBVIOUS
<1>2. /\ Places(Append(log, line), ClientLine)
             = Places(log, ClientLine) \cup (IF line \in ClientLine THEN {Len(log) + 1} ELSE {})
      /\ \A i \in Places(log, ClientLine) : Append(log, line)[i] = log[i]
  BY <1>1, PlacesGrow
<1>3. Places(Append(log, line), ClientLine) = Places(log, ClientLine)
  BY <1>1, <1>2
<1>4. QED
  BY <1>2, <1>3 DEF AsTyped

(* The line typed last is the line forwarded last.                         *)
LEMMA ForwardKeepsLines ==
  ASSUME NEW log \in Seq(Line), NEW h \in Seq(Byte), NEW line \in ClientLine,
         AsTyped(log, h), Len(h) \in LineEnds(h),
         Cardinality(LineEnds(h)) = Cardinality(Places(log, ClientLine)) + 1,
         line.blank <=> Text(h, Len(h)) = {}, "bad" \notin Text(h, Len(h))
  PROVE  /\ AsTyped(Append(log, line), h)
         /\ Cardinality(Places(Append(log, line), ClientLine)) = Cardinality(LineEnds(h))
<1> DEFINE P == Places(log, ClientLine)
           Q == Places(Append(log, line), ClientLine)
           E == LineEnds(h)
           x == Len(log) + 1
<1>1. /\ P \in SUBSET Nat /\ IsFiniteSet(P) /\ Cardinality(P) \in Nat
      /\ E \in SUBSET Nat /\ IsFiniteSet(E)
      /\ x \in Nat /\ (\A l \in P : l < x) /\ \A e \in E : e <= Len(h)
  BY PlacesNat, EndsFinite, LenProperties
<1>2. line \in Line
  BY DEF ClientLine
<1>3. Q = P \cup {x} /\ \A l \in P : Append(log, line)[l] = log[l]
  BY <1>2, PlacesGrow
<1>4. Append(log, line)[x] = line
  BY <1>2, AppendProperties
<1> HIDE DEF P, Q, E, x
<1>5. /\ Cardinality(Q) = Cardinality(P) + 1 /\ Rank(Q, x) = Cardinality(P) + 1
      /\ \A l \in P : Rank(Q, l) = Rank(P, l)
  BY <1>1, <1>3, RankAdd
<1>6. Rank(E, Len(h)) = Cardinality(P) + 1
  <2>1. Len(h) \in Nat
    BY LenProperties
  <2>2. QED
    BY <1>1, <2>1, RankLast DEF E, P
<1>7. ASSUME NEW e \in E, Rank(Q, x) = Rank(E, e) PROVE e = Len(h)
  <2>1. Rank(E, e) = Rank(E, Len(h))
    BY <1>5, <1>6, <1>7
  <2>2. QED
    BY <1>1, <2>1, RankDistinct DEF E
<1>8. ASSUME NEW l \in Q, NEW e \in E, Rank(Q, l) = Rank(E, e)
      PROVE  /\ Append(log, line)[l].blank <=> Text(h, e) = {}
             /\ "bad" \notin Text(h, e)
  <2>1. CASE l = x
    BY <1>4, <1>7, <1>8, <2>1
  <2>2. CASE l \in P
    <3>1. Rank(P, l) = Rank(E, e) /\ Append(log, line)[l] = log[l]
      BY <1>3, <1>5, <1>8, <2>2
    <3>2. QED
      BY <2>2, <3>1 DEF AsTyped, P, E
  <2>3. QED
    BY <1>3, <2>1, <2>2
<1>9. QED
  BY <1>5, <1>8 DEF AsTyped, P, Q, E

-----------------------------------------------------------------------------
(* The tap assembles the line typed: its buffer is the text since the last *)
(* line end, skip_lf says whether an LF now would be the second half of a  *)
(* pair, and at most one line is typed and not forwarded.                  *)
Buffered(text) == /\ cbuf = "empty" <=> text = {}
                  /\ cbuf = "bad" <=> "bad" \in text

Behind(k) == Cardinality(typed) = Cardinality(forwarded) + k

BeforeSession == /\ cpc = "new" => /\ wpc = "new" /\ cbuf = "empty"
                                   /\ heard = <<>> /\ inlog = <<>>
                 /\ ~Started => cpc = "new"
                 /\ cpc # "new" => heard # <<>>

BetweenBytes ==
  cpc \in {"loop", "recv", "clear"} =>
    /\ Behind(0)
    /\ Buffered(Text(heard, Len(heard) + 1))
    /\ skip_lf <=> SecondHalf(heard, Len(heard) + 1)

WithByte ==
  cpc \in {"gate", "echo"} =>
    /\ cbyte = heard[Len(heard)] /\ cbyte # "nul" /\ Len(heard) > 1
    /\ cbyte \in {"cr", "lf"} <=> Len(heard) \in typed
    /\ Behind(IF Len(heard) \in typed THEN 1 ELSE 0)
    /\ Buffered(Text(heard, Len(heard)))
    /\ ~skip_lf

WithLine ==
  cpc = "forward" =>
    /\ cbyte = heard[Len(heard)] /\ Len(heard) \in typed
    /\ Behind(1)
    /\ Buffered(Text(heard, Len(heard)))
    /\ skip_lf <=> cbyte = "cr"

Assembling == BeforeSession /\ BetweenBytes /\ WithByte /\ WithLine

AInv == Assembling /\ LinesAsTyped

LEMMA LogTypes ==
  ASSUME TypeOK
  PROVE  /\ heard \in Seq(Byte) /\ inlog \in Seq(Line) /\ Len(heard) \in Nat
         /\ forwarded \in SUBSET Nat /\ IsFiniteSet(forwarded)
         /\ Cardinality(forwarded) \in Nat
         /\ typed \in SUBSET Nat /\ IsFiniteSet(typed) /\ Cardinality(typed) \in Nat
         /\ \A e \in typed : e \in 2 .. Len(heard)
<1>1. heard \in Seq(Byte) /\ inlog \in Seq(Line)
  BY DEF TypeOK
<1>2. QED
  BY <1>1, PlacesNat, EndsFinite, LenProperties DEF typed, forwarded

LEMMA InitAInv == Init => AInv
<1> SUFFICES ASSUME Init PROVE AInv
  OBVIOUS
<1>1. heard = <<>> /\ inlog = <<>> /\ cpc = "new" /\ wpc = "new" /\ cbuf = "empty"
  BY DEF Init
<1>2. typed = {}
  BY <1>1 DEF typed, LineEnds
<1>3. forwarded = {}
  BY <1>1 DEF forwarded, Places
<1>4. QED
  BY <1>1, <1>2, <1>3
     DEF AInv, Assembling, BeforeSession, BetweenBytes, WithByte, WithLine, LinesAsTyped

(* Steps of the environment, the shell and the other tap.                  *)
LEMMA SameTap ==
  ASSUME AInv, UNCHANGED <<cpc, cbyte, cbuf, skip_lf, heard, inlog, wpc>>,
         ~Started' => ~Started
  PROVE  AInv'
BY DEF AInv, Assembling, BeforeSession, BetweenBytes, WithByte, WithLine, LinesAsTyped,
       Buffered, Behind, typed, forwarded

(* The byte that ended the login ends no line.                             *)
LEMMA StartAInv ==
  ASSUME AInv, ~Started, NEW b \in {"cr", "lf"}, StartSession(b)
  PROVE  AInv'
<1>1. /\ cpc' = "loop" /\ heard' = <<b>> /\ inlog' = <<>> /\ cbuf' = "empty"
      /\ skip_lf' = (b = "cr") /\ Started'
  BY DEF StartSession, AInv, Assembling, BeforeSession, Started, inVars
<1>2. typed' = {}
  BY <1>1 DEF typed, LineEnds
<1>3. forwarded' = {}
  BY <1>1 DEF forwarded, Places
<1>4. Text(<<b>>, 2) = {}
  BY DEF Text
<1>5. <<b>> \in Seq(Byte) /\ Len(<<b>>) = 1
  BY DEF Byte
<1>6. SecondHalf(<<b>>, 2) <=> b = "cr"
  <2>1. 1 \in 1 .. Len(<<b>>) /\ <<b>>[1] = b /\ b # "nul" /\ 1 + 1 = 2
    OBVIOUS
  <2>2. SecondHalf(<<b>>, 1 + 1) <=> b = "cr"
    BY <1>5, <2>1, HalfNext
  <2>3. QED
    BY <2>1, <2>2
<1>7. BetweenBytes'
  <2>1. Behind(0)'
    BY <1>2, <1>3, FS_EmptySet DEF Behind
  <2>2. Buffered(Text(heard, Len(heard) + 1))'
    BY <1>1, <1>4, <1>5 DEF Buffered
  <2>3. (skip_lf <=> SecondHalf(heard, Len(heard) + 1))'
    <3>1. Len(heard') + 1 = 2
      BY <1>1, <1>5
    <3>2. QED
      BY <1>1, <1>6, <3>1
  <2>4. QED
    BY <2>1, <2>2, <2>3 DEF BetweenBytes
<1>8. LinesAsTyped'
  BY <1>1, <1>2, <1>3 DEF LinesAsTyped
<1>9. QED
  BY <1>1, <1>7, <1>8 DEF AInv, Assembling, BeforeSession, WithByte, WithLine

(* A byte that is dropped leaves the text as it was; any other is at the   *)
(* end of what was heard while the tap holds it.                           *)
LEMMA RecvByteAInv ==
  ASSUME TypeOK, AInv, TapRecvByte
  PROVE  AInv'
<1> DEFINE n == Len(heard)
<1>1. PICK b \in Byte : /\ cbyte' = b /\ heard' = Append(heard, b)
                        /\ skip_lf' = (b = "nul" /\ skip_lf /\ Kind # "telnet")
                        /\ cpc' = IF b = "nul" \/ (b = "lf" /\ skip_lf)
                                  THEN "loop" ELSE "gate"
  <2>1. Head(inbox) \in Byte
    BY HeadTailProperties DEF TypeOK, TapRecvByte
  <2>2. QED
    BY <2>1 DEF TapRecvByte
<1>2. cpc = "recv" /\ UNCHANGED <<conn, wpc, cbuf, inlog>>
  BY DEF TapRecvByte, connVars, inVars
<1>3. /\ Behind(0) /\ Buffered(Text(heard, n + 1)) /\ heard # <<>>
      /\ skip_lf <=> SecondHalf(heard, n + 1)
  BY <1>2 DEF AInv, Assembling, BetweenBytes, BeforeSession
<1>4. /\ heard \in Seq(Byte) /\ inlog \in Seq(Line) /\ n \in Nat \ {0}
      /\ Cardinality(forwarded) \in Nat /\ typed \in SUBSET Nat /\ IsFiniteSet(typed)
      /\ \A e \in typed : e < n + 1
  BY <1>3, LogTypes, EmptySeq
<1>5. /\ heard' \in Seq(Byte) /\ Len(heard') = n + 1 /\ heard'[n + 1] = b
  BY <1>1, <1>4, AppendProperties
<1>6. /\ typed' = typed \cup IF b = "cr" \/ (b = "lf" /\ ~skip_lf) THEN {n + 1} ELSE {}
      /\ forwarded' = forwarded
  BY <1>1, <1>2, <1>3, <1>4, EndsAppend DEF typed, forwarded
<1>7. /\ Text(heard', n + 1) = Text(heard, n + 1)
      /\ SecondHalf(heard', n + 1) <=> SecondHalf(heard, n + 1)
  BY <1>1, <1>3, <1>4, TextAppend, HalfAppend
<1>8. AsTyped(inlog', heard')
  <2>1. AsTyped(inlog, heard)
    BY DEF AInv, LinesAsTyped, AsTyped, typed, forwarded
  <2>2. Cardinality(Places(inlog, ClientLine)) = Cardinality(LineEnds(heard))
    BY <1>3, <1>4 DEF Behind, typed, forwarded
  <2>3. QED
    BY <1>1, <1>2, <1>3, <1>4, <2>1, <2>2, ByteKeepsLines
<1>9. Cardinality(typed') = Cardinality(forwarded') + IF n + 1 \in typed' THEN 1 ELSE 0
  <2>1. Cardinality(typed) = Cardinality(forwarded) /\ n + 1 \notin typed /\ n + 1 \in Nat
    BY <1>3, <1>4 DEF Behind
  <2>2. Cardinality(typed \cup {n + 1}) = Cardinality(typed) + 1
    BY <1>4, <2>1, FS_AddElement
  <2>3. CASE typed' = typed
    <3>1. n + 1 \notin typed' /\ forwarded' = forwarded
      BY <1>6, <2>1, <2>3
    <3>2. QED
      BY <1>4, <2>1, <2>3, <3>1
  <2>4. CASE typed' = typed \cup {n + 1}
    BY <1>4, <1>6, <2>1, <2>2, <2>4
  <2>5. QED
    BY <1>6, <2>3, <2>4
<1>10. LinesAsTyped'
  <2>1. n + 1 \in typed' => cpc' = "gate"
    BY <1>1, <1>4, <1>6
  <2>2. cpc' # "dead"
    BY <1>1
  <2>3. \/ Cardinality(forwarded') = Cardinality(typed')
        \/ Cardinality(forwarded') + 1 = Cardinality(typed') /\ cpc' = "gate"
    BY <1>4, <1>6, <1>9, <2>1
  <2>4. QED
    BY <1>8, <2>2, <2>3 DEF LinesAsTyped, AsTyped, typed, forwarded
<1>11. CASE cpc' = "loop"
  <2>1. n + 1 \notin typed'
    BY <1>1, <1>4, <1>6, <1>11
  <2>2. Text(heard', n + 2) = Text(heard', n + 1)
    <3>1. n + 1 \in 2 .. Len(heard')
      BY <1>4, <1>5
    <3>2. {b} \cap {"ch", "bad"} = {}
      BY <1>1, <1>11
    <3>3. (n + 1) + 1 = n + 2
      BY <1>4
    <3>4. Text(heard', (n + 1) + 1) = Text(heard', n + 1)
      BY <1>5, <2>1, <3>1, <3>2, TextNext DEF typed
    <3>5. QED
      BY <3>3, <3>4
  <2>3. skip_lf' <=> SecondHalf(heard', n + 2)
    <3>1. n + 1 \in 1 .. Len(heard') /\ (n + 1) + 1 = n + 2
      BY <1>4, <1>5
    <3>2. SecondHalf(heard', n + 2)
            <=> b = "cr" \/ (b = "nul" /\ Kind = "ssh" /\ SecondHalf(heard', n + 1))
      BY <1>5, <3>1, HalfNext
    <3>3. QED
      BY <1>1, <1>3, <1>7, <1>11, <3>2
  <2>4. Buffered(Text(heard, Len(heard) + 1))'
    <3>1. Len(heard') + 1 = n + 2
      BY <1>4, <1>5
    <3>2. QED
      BY <1>2, <1>3, <1>7, <2>2, <3>1 DEF Buffered
  <2>5. Behind(0)'
    BY <1>9, <2>1 DEF Behind
  <2>6. Len(heard') + 1 = n + 2
    BY <1>4, <1>5
  <2>7. BetweenBytes'
    BY <2>3, <2>4, <2>5, <2>6 DEF BetweenBytes
  <2>8. BeforeSession'
    BY <1>1, <1>2, <1>5, <1>11, EmptySeq DEF AInv, Assembling, BeforeSession, Started
  <2>9. QED
    BY <1>10, <1>11, <2>7, <2>8 DEF AInv, Assembling, WithByte, WithLine
<1>12. CASE cpc' = "gate"
  <2>1. b # "nul" /\ (b \in {"cr", "lf"} <=> n + 1 \in typed')
    BY <1>1, <1>4, <1>6, <1>12
  <2>2. Buffered(Text(heard, Len(heard)))'
    BY <1>2, <1>3, <1>5, <1>7 DEF Buffered
  <2>3. Behind(IF Len(heard) \in typed THEN 1 ELSE 0)'
    BY <1>5, <1>9 DEF Behind
  <2>4. ~skip_lf'
    BY <1>1, <2>1
  <2>5. WithByte'
    BY <1>1, <1>4, <1>5, <2>1, <2>2, <2>3, <2>4 DEF WithByte
  <2>6. BeforeSession'
    BY <1>1, <1>2, <1>5, <1>12, EmptySeq DEF AInv, Assembling, BeforeSession, Started
  <2>7. QED
    BY <1>10, <1>12, <2>5, <2>6 DEF AInv, Assembling, BetweenBytes, WithLine
<1>13. QED
  BY <1>1, <1>11, <1>12

(* A text byte joins the buffer once it is echoed.                         *)
LEMMA EchoTextAInv ==
  ASSUME TypeOK, AInv, TapEchoText
  PROVE  AInv'
<1> DEFINE n == Len(heard)
<1>1. /\ cpc = "echo" /\ cbyte \in {"ch", "bad"}
      /\ UNCHANGED <<conn, wpc, heard, inlog, cbyte, skip_lf>>
      /\ \/ /\ cpc' = "loop"
            /\ cbuf' = IF cbyte = "bad" \/ cbuf = "bad" THEN "bad" ELSE "text"
         \/ cpc' = "exit"
  BY DEF TapEchoText, connVars, inVars
<1>2. /\ cbyte = heard[n] /\ n > 1 /\ n \notin typed
      /\ Behind(0) /\ Buffered(Text(heard, n)) /\ ~skip_lf
  BY <1>1 DEF AInv, Assembling, WithByte
<1>3. typed' = typed /\ forwarded' = forwarded
  BY <1>1 DEF typed, forwarded
<1>4. BeforeSession' /\ LinesAsTyped'
  BY <1>1, <1>2, <1>3, LogTypes
     DEF AInv, Assembling, BeforeSession, Started, LinesAsTyped, Behind
<1>5. CASE cpc' = "loop"
  <2>1. heard \in Seq(Byte) /\ n \in 2 .. Len(heard) /\ n \in 1 .. Len(heard)
    BY <1>2, LogTypes
  <2>2. Text(heard, n + 1) = Text(heard, n) \cup {cbyte}
    BY <1>1, <1>2, <2>1, TextNext DEF typed
  <2>3. Buffered(Text(heard, Len(heard) + 1))'
    BY <1>1, <1>2, <1>5, <2>2 DEF Buffered
  <2>4. ~SecondHalf(heard, n + 1)
    BY <1>1, <1>2, <2>1, HalfNext
  <2>5. BetweenBytes'
    BY <1>1, <1>2, <1>3, <2>3, <2>4 DEF BetweenBytes, Behind
  <2>6. QED
    BY <1>4, <1>5, <2>5 DEF AInv, Assembling, WithByte, WithLine
<1>6. CASE cpc' = "exit"
  BY <1>4, <1>6 DEF AInv, Assembling, BetweenBytes, WithByte, WithLine
<1>7. QED
  BY <1>1, <1>5, <1>6

(* The line leaves as it was typed, or the tap dies of it.                 *)
LEMMA ForwardAInv ==
  ASSUME TypeOK, AInv, TapForward
  PROVE  AInv'
<1> DEFINE n == Len(heard)
           line == [from |-> "client", blank |-> cbuf = "empty"]
<1>1. /\ cpc = "forward" /\ UNCHANGED <<conn, wpc, heard, cbyte, skip_lf>>
      /\ \/ /\ cbuf # "bad" /\ inlog' = Append(inlog, line)
            /\ cbuf' = "empty" /\ cpc' = "clear"
         \/ cbuf = "bad" /\ cpc' = "dead" /\ UNCHANGED <<cbuf, inlog>>
  BY DEF TapForward, WriteStdin, connVars, inVars
<1>2. /\ cbyte = heard[n] /\ n \in typed /\ Behind(1) /\ Buffered(Text(heard, n))
      /\ skip_lf <=> cbyte = "cr"
  BY <1>1 DEF AInv, Assembling, WithLine
<1>3. /\ heard \in Seq(Byte) /\ inlog \in Seq(Line)
      /\ n \in 2 .. Len(heard) /\ n \in 1 .. Len(heard) /\ n \in Nat
      /\ Cardinality(forwarded) \in Nat /\ Cardinality(typed) \in Nat
      /\ typed \in SUBSET Nat /\ \A e \in typed : e <= n
  BY <1>2, LogTypes
<1>4. typed' = typed
  BY <1>1 DEF typed
<1>5. AsTyped(inlog, heard)
  BY DEF AInv, LinesAsTyped, AsTyped, typed, forwarded
<1>6. BeforeSession'
  BY <1>1 DEF AInv, Assembling, BeforeSession, Started
<1>7. CASE cpc' = "clear"
  <2>1. line \in ClientLine /\ (line.blank <=> Text(heard, n) = {})
    BY <1>2 DEF ClientLine, Line, Buffered
  <2>2. "bad" \notin Text(heard, n)
    BY <1>1, <1>2, <1>7 DEF Buffered
  <2>3. inlog' = Append(inlog, line) /\ cbuf' = "empty"
    BY <1>1, <1>7
  <2> HIDE DEF line
  <2>4. AsTyped(inlog', heard') /\ Behind(0)'
    <3>1. Cardinality(LineEnds(heard)) = Cardinality(Places(inlog, ClientLine)) + 1
      BY <1>2 DEF Behind, typed, forwarded
    <3>2. /\ AsTyped(Append(inlog, line), heard)
          /\ Cardinality(Places(Append(inlog, line), ClientLine))
               = Cardinality(LineEnds(heard))
      BY <1>2, <1>3, <1>5, <2>1, <2>2, <3>1, ForwardKeepsLines DEF typed
    <3>3. QED
      BY <1>1, <1>3, <2>3, <3>2 DEF Behind, typed, forwarded
  <2>5. Buffered(Text(heard, Len(heard) + 1))'
    <3>1. Text(heard, n + 1) = {}
      BY <1>2, <1>3, TextNext DEF typed
    <3>2. QED
      BY <1>1, <2>3, <3>1 DEF Buffered
  <2>6. skip_lf' <=> SecondHalf(heard, n + 1)
    <3>1. cbyte \in {"cr", "lf"}
      BY <1>2 DEF typed, LineEnds
    <3>2. QED
      BY <1>1, <1>2, <1>3, <3>1, HalfNext
  <2>7. BetweenBytes'
    BY <1>1, <2>4, <2>5, <2>6 DEF BetweenBytes
  <2>8. LinesAsTyped'
    <3>1. Cardinality(forwarded') = Cardinality(typed')
      <4>1. Cardinality(typed') = Cardinality(forwarded') + 0
        BY <2>4 DEF Behind
      <4>2. Cardinality(forwarded') + 0 = Cardinality(forwarded')
        <5>1. forwarded' = forwarded \cup {Len(inlog) + 1}
          BY <1>3, <2>1, <2>3, PlacesGrow DEF forwarded, ClientLine
        <5>2. IsFiniteSet(forwarded')
          BY <5>1, LogTypes, FS_AddElement
        <5>3. QED
          BY <5>2, FS_CardinalityType
      <4>3. QED
        BY <4>1, <4>2
    <3>2. QED
      BY <1>7, <2>4, <3>1 DEF LinesAsTyped, AsTyped, typed, forwarded
  <2>9. QED
    BY <1>6, <1>7, <2>7, <2>8 DEF AInv, Assembling, WithByte, WithLine
<1>8. CASE cpc' = "dead"
  <2>1. UNCHANGED <<cbuf, inlog>> /\ cbuf = "bad"
    BY <1>1, <1>8
  <2>2. forwarded' = forwarded
    BY <2>1 DEF forwarded
  <2>3. Rank(typed, n) = Cardinality(forwarded) + 1 /\ "bad" \in Text(heard, n)
    BY <1>2, <1>3, <2>1, RankLast DEF Buffered, Behind
  <2>4. LinesAsTyped'
    BY <1>1, <1>2, <1>3, <1>4, <1>8, <2>1, <2>2, <2>3 DEF AInv, LinesAsTyped, Behind
  <2>5. QED
    BY <1>6, <1>8, <2>4 DEF AInv, Assembling, BetweenBytes, WithByte, WithLine
<1>9. QED
  BY <1>1, <1>7, <1>8

(* The other steps of the tap only move it.                                *)
LEMMA TapMovesAInv ==
  ASSUME TypeOK, AInv, \/ TapLoop \/ TapRecvNothing \/ TapGate \/ TapEchoNewline
                       \/ TapClearReplied \/ TapExit
  PROVE  AInv'
<1>1. UNCHANGED <<conn, wpc, heard, inlog, cbyte, cbuf>>
  BY DEF TapLoop, TapRecvNothing, TapGate, TapEchoNewline, TapClearReplied, TapExit,
         connVars, inVars
<1>2. typed' = typed /\ forwarded' = forwarded
  BY <1>1 DEF typed, forwarded
<1>3. \/ /\ UNCHANGED skip_lf
         /\ \/ cpc \in {"loop", "recv", "clear"} /\ cpc' \in {"loop", "recv", "exit"}
            \/ cpc = "gate" /\ cpc' \in {"echo", "exit"}
            \/ cpc = "exit" /\ cpc' = "done"
      \/ /\ cpc = "echo" /\ cbyte \in {"cr", "lf"}
         /\ skip_lf' = (cbyte = "cr") /\ cpc' = "forward"
  BY DEF TapLoop, TapRecvNothing, TapGate, TapEchoNewline, TapClearReplied, TapExit
<1>4. BeforeSession'
  BY <1>1, <1>3 DEF AInv, Assembling, BeforeSession, Started
<1>5. LinesAsTyped'
  BY <1>1, <1>2, <1>3, LogTypes
     DEF AInv, Assembling, BetweenBytes, WithByte, LinesAsTyped, Behind
<1>6. CASE cpc' = "forward"
  <2>1. cpc = "echo" /\ cbyte \in {"cr", "lf"} /\ skip_lf' = (cbyte = "cr")
    BY <1>3, <1>6
  <2>2. WithLine'
    BY <1>1, <1>2, <2>1 DEF AInv, Assembling, WithByte, WithLine, Behind, Buffered
  <2>3. QED
    BY <1>4, <1>5, <1>6, <2>2 DEF AInv, Assembling, BetweenBytes, WithByte
<1>7. CASE cpc' # "forward"
  <2>1. UNCHANGED skip_lf
    BY <1>3, <1>7
  <2>2. BetweenBytes' /\ WithByte' /\ WithLine'
    BY <1>1, <1>2, <1>3, <1>7, <2>1
       DEF AInv, Assembling, BetweenBytes, WithByte, WithLine, Behind, Buffered
  <2>3. QED
    BY <1>4, <1>5, <2>2 DEF AInv, Assembling
<1>8. QED
  BY <1>6, <1>7

(* The watchdog writes a line that is nobody's.                            *)
LEMMA WatchdogAInv ==
  ASSUME TypeOK, AInv, WatchdogStop
  PROVE  AInv'
<1> DEFINE line == [from |-> "watchdog", blank |-> FALSE]
<1>1. /\ UNCHANGED <<conn, cpc, cbyte, cbuf, skip_lf, heard>>
      /\ wpc = "loop" /\ inlog' = Append(inlog, line)
  BY DEF WatchdogStop, WriteStdin, connVars, tapVars
<1>2. line \in Line \ ClientLine
  BY Zenon DEF Line, ClientLine
<1>3. cpc # "new"
  BY <1>1 DEF AInv, Assembling, BeforeSession
<1> HIDE DEF line
<1>4. inlog \in Seq(Line)
  BY LogTypes
<1>5. typed' = typed /\ forwarded' = forwarded
  BY <1>1, <1>2, <1>4, WatchdogKeepsLines DEF typed, forwarded
<1>6. AsTyped(inlog, heard)
  BY DEF AInv, LinesAsTyped, AsTyped, typed, forwarded
<1>7. AsTyped(inlog', heard')
  BY <1>1, <1>2, <1>4, <1>6, WatchdogKeepsLines
<1>8. LinesAsTyped'
  BY <1>1, <1>5, <1>7 DEF AInv, LinesAsTyped, AsTyped, typed, forwarded
<1>9. Assembling'
  BY <1>1, <1>3, <1>5
     DEF AInv, Assembling, BeforeSession, Started, BetweenBytes, WithByte, WithLine,
         Behind, Buffered
<1>10. QED
  BY <1>8, <1>9 DEF AInv

(* Nobody else touches what the tap holds, what it heard or what it wrote. *)
LEMMA OthersAInv ==
  ASSUME AInv, Environment \/ Connection \/ ServerTap \/ UNCHANGED vars
  PROVE  AInv'
<1> USE DEF envVars, connVars, tapVars, sendVars, inVars, outVars
<1> DEFINE Same == UNCHANGED <<cpc, cbyte, cbuf, skip_lf, heard, inlog, wpc>>
<1>1. CASE Environment \/ UNCHANGED vars
  <2>1. Same /\ UNCHANGED conn
    BY <1>1 DEF Environment, ClientSend, ClientDisconnect, TransportDies, ServerStop, vars
  <2>2. QED
    BY <2>1, SameTap DEF Started
<1>2. CASE ServerTap
  <2>1. Same /\ UNCHANGED conn
    BY <1>2 DEF ServerTap, OutLoop, OutRead, OutDrain, OutSendTest, OutSendTimeout,
                OutSend, OutSetReplied, OutExit
  <2>2. QED
    BY <2>1, SameTap DEF Started
<1>3. CASE AcceptPolls \/ AcceptChannel \/ LoginFails
  <2>1. Same /\ ~Started
    BY <1>3 DEF AcceptPolls, AcceptLoop, AcceptTimesOut, AcceptGivesUp, AcceptChannel,
                LoginFails, Started
  <2>2. QED
    BY <2>1, SameTap
<1>4. CASE AcceptAndStart \/ LoginSucceeds
  <2>1. ~Started /\ \E b \in {"cr", "lf"} : StartSession(b)
    BY <1>4 DEF AcceptAndStart, LoginSucceeds, Started
  <2>2. QED
    BY <2>1, StartAInv
<1>5. CASE ShellThread
  <2>1. Same /\ Started'
    BY <1>5 DEF ShellThread, ShellIntro, ShellPrompt, ShellRead, DispatchBlank,
                DispatchHelp, DispatchExit, DispatchDefault, ShellWriteline,
                FinallyClear, FinallyClose, Started
  <2>2. QED
    BY <2>1, SameTap
<1>6. QED
  BY <1>1, <1>2, <1>3, <1>4, <1>5 DEF Connection

(* The lines the shell is given are the lines typed, one by one and in     *)
(* their order, for every stream of bytes and either transport's treatment *)
(* of CR, LF and NUL; a line that is not UTF-8 is not among them, and is   *)
(* all a tap dies of.                                                      *)
THEOREM TypedCorrect == Spec => []LinesAsTyped
<1>1. TypeOK /\ AInv /\ [Next]_vars => AInv'
  BY RecvByteAInv, EchoTextAInv, ForwardAInv, TapMovesAInv, WatchdogAInv, OthersAInv
     DEF Next, ClientTap, Rest
<1>2. AInv => LinesAsTyped
  BY DEF AInv
<1>3. QED
  BY <1>1, <1>2, InitAInv, TypeCorrect, PTL DEF Spec

-----------------------------------------------------------------------------
(* Session implements Connection.  Until the taps are started nobody runs  *)
(* or sends anything: neither the shell nor the tap of the output has been *)
(* started yet.  Afterwards the phase is "session" until the transport is  *)
(* closed, and a closed transport lets nothing through.                    *)
PhaseInv ==
  /\ ~Started => cpc = "new"
  /\ conn \in {"intro", "prompt", "read", "dispatch", "output"} => cpc # "new"
  /\ spc # "new" => cpc # "new"

Kept == PhaseInv' /\ (Accepted!Next \/ UNCHANGED Accepted!vars)

(* A step that leaves the phase alone is talk in a session, or a stutter.  *)
LEMMA SamePhase ==
  ASSUME phase' = phase, phase = "session" \/ UNCHANGED <<ran, wire>>
  PROVE  Accepted!Next \/ UNCHANGED Accepted!vars
BY DEF Accepted!Next, Accepted!Talk, Accepted!vars

(* Nothing gets on the wire once the transport is over.                    *)
LEMMA OverSendsNothing ==
  ASSUME TypeOK, Over, OutSend \/ OutSendTimeout PROVE UNCHANGED wire
<1>1. SendResult = {"error"}
  BY DEF SendResult
<1>2. BreaksOff(0)
  BY <1>1 DEF OutSend, OutSendTimeout
<1>3. wire \in Seq(Item) /\ batch \in Seq(Item)
  BY DEF TypeOK
<1>4. SubSeq(batch, 1, 0) = <<>>
  BY <1>3, SubSeqProperties, EmptySeq
<1>5. QED
  BY <1>2, <1>3, <1>4, ConcatEmptySeq DEF BreaksOff

LEMMA TapsKept ==
  ASSUME TypeOK, PhaseInv, ClientTap \/ ServerTap PROVE Kept
<1> USE DEF envVars, connVars, tapVars, sendVars
<1>1. CASE ClientTap
  <2>1. UNCHANGED <<conn, spc, ran, wire>> /\ cpc # "new" /\ cpc' # "new"
    BY <1>1 DEF ClientTap, TapLoop, TapRecvNothing, TapRecvByte, TapGate, TapEchoText,
                TapEchoNewline, TapForward, TapClearReplied, TapExit
  <2>2. PhaseInv' /\ phase' = phase
    BY <2>1 DEF PhaseInv, phase, Started
  <2>3. QED
    BY <2>1, <2>2, SamePhase DEF Kept
<1>2. CASE ServerTap
  <2>1. UNCHANGED <<conn, cpc, ran>> /\ spc # "new"
    BY <1>2 DEF ServerTap, OutLoop, OutRead, OutDrain, OutSendTest, OutSendTimeout,
                OutSend, OutSetReplied, OutExit
  <2>2. UNCHANGED wire \/ conn # "closed"
    <3>1. CASE OutSend \/ OutSendTimeout
      BY <3>1, OverSendsNothing DEF Over
    <3>2. CASE ~(OutSend \/ OutSendTimeout)
      BY <1>2, <3>2 DEF ServerTap, OutLoop, OutRead, OutDrain, OutSendTest, OutSetReplied,
                        OutExit
    <3>3. QED
      BY <3>1, <3>2
  <2>3. PhaseInv' /\ phase' = phase
    BY <2>1 DEF PhaseInv, phase, Started
  <2>4. phase = "session" \/ UNCHANGED <<ran, wire>>
    BY <2>1, <2>2 DEF PhaseInv, phase
  <2>5. QED
    BY <2>3, <2>4, SamePhase DEF Kept
<1>3. QED
  BY <1>1, <1>2

LEMMA OthersKept ==
  ASSUME PhaseInv, Environment \/ Connection \/ WatchdogStop \/ UNCHANGED vars
  PROVE  Kept
<1> USE DEF envVars, connVars, tapVars, sendVars
<1>1. CASE Environment \/ WatchdogStop \/ UNCHANGED vars
  <2>1. UNCHANGED <<conn, cpc, spc, ran, wire>>
    BY <1>1 DEF Environment, ClientSend, ClientDisconnect, TransportDies, ServerStop,
                WatchdogStop, vars
  <2>2. PhaseInv' /\ phase' = phase
    BY <2>1 DEF PhaseInv, phase, Started
  <2>3. QED
    BY <2>1, <2>2, SamePhase DEF Kept
<1>2. CASE AcceptPolls \/ AcceptChannel \/ LoginFails
  <2>1. /\ UNCHANGED <<cpc, spc, ran, wire>> /\ ~Started
        /\ conn' \in {"accept", "accepting", "login", "finally"}
    BY <1>2 DEF AcceptPolls, AcceptLoop, AcceptTimesOut, AcceptGivesUp, AcceptChannel,
                LoginFails, Started
  <2>2. PhaseInv' /\ phase' = phase
    BY <2>1 DEF PhaseInv, phase, Started
  <2>3. QED
    BY <2>1, <2>2, SamePhase DEF Kept
<1>3. CASE AcceptAndStart \/ LoginSucceeds
  <2>1. /\ UNCHANGED <<ran, wire>> /\ ~Started
        /\ conn' = "intro" /\ cpc' = "loop"
    BY <1>3 DEF AcceptAndStart, LoginSucceeds, StartSession, Started
  <2>2. PhaseInv' /\ phase = "login" /\ phase' = "session"
    BY <2>1 DEF PhaseInv, phase, Started
  <2>3. QED
    BY <2>1, <2>2 DEF Kept, Accepted!Next, Accepted!LogIn
<1>4. CASE FinallyClose
  <2>1. UNCHANGED <<cpc, spc, ran, wire>> /\ conn = "close" /\ conn' = "closed"
    BY <1>4 DEF FinallyClose
  <2>2. PhaseInv' /\ phase # "done" /\ phase' = "done"
    BY <2>1 DEF PhaseInv, phase, Started
  <2>3. QED
    BY <2>1, <2>2 DEF Kept, Accepted!Next, Accepted!End
<1>5. CASE ShellThread /\ ~FinallyClose
  <2>1. /\ UNCHANGED <<cpc, spc, wire>>
        /\ conn \in {"intro", "prompt", "read", "dispatch", "output", "finally"}
        /\ conn' \in {"prompt", "read", "dispatch", "output", "finally", "close"}
        /\ conn = "finally" => UNCHANGED ran /\ conn' = "close"
    BY <1>5 DEF ShellThread, ShellIntro, ShellPrompt, ShellRead, DispatchBlank,
                DispatchHelp, DispatchExit, DispatchDefault, ShellWriteline, FinallyClear
  <2>2. PhaseInv' /\ phase' = phase
    BY <2>1 DEF PhaseInv, phase, Started
  <2>3. phase = "session" \/ UNCHANGED <<ran, wire>>
    BY <2>1 DEF PhaseInv, phase
  <2>4. QED
    BY <2>2, <2>3, SamePhase DEF Kept
<1>6. QED
  BY <1>1, <1>2, <1>3, <1>4, <1>5 DEF Connection, ShellThread

(* To the server that has accepted it, a session is a connection: nothing  *)
(* is run or sent before its login is over, nor once its thread has ended, *)
(* when the taps and the watchdog may still be running                     *)
(* (telnet_server.py:366, ssh_server_paramiko.py:470).                     *)
THEOREM ConnectionImplemented == Spec => ImplementsConnection
<1>1. Init => PhaseInv /\ Accepted!Init
  BY DEF Init, PhaseInv, Started, Accepted!Init, phase
<1>2. TypeOK /\ PhaseInv /\ [Next]_vars => PhaseInv' /\ [Accepted!Next]_(Accepted!vars)
  BY TapsKept, OthersKept DEF Next, Rest, Kept
<1>3. QED
  BY <1>1, <1>2, TypeCorrect, PTL DEF Spec, ImplementsConnection, Accepted!Spec
=============================================================================
