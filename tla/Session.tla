------------------------------ MODULE Session ------------------------------
(***************************************************************************)
(* One client connection, SSH or Telnet: the thread that runs              *)
(* connection_function (login, then the shell's cmdloop, then cleanup),    *)
(* the client-to-shell tap, the shell-to-client tap and the watchdog       *)
(* (plugins/servers/tap_bridge.py, telnet_server.py,                       *)
(* ssh_server_paramiko.py, plugins/shell/cmd_shell.py).                    *)
(*                                                                         *)
(* The threads share two line queues (stdin and stdout of the shell, each  *)
(* a LineQueue: see TapIO), the event run_srv that ends the connection,    *)
(* the event shell_replied_event, and the server's event is_running.  Each *)
(* action is one access to shared state by one thread.                     *)
(***************************************************************************)
EXTENDS Naturals, Sequences, FiniteSets, Selections

CONSTANTS Kind,            \* "ssh" or "telnet"
          ExitOverridden,  \* the platform's "exit" command only moves the prompt
          Bytes,           \* the bytes the client may send: subset of Byte
          MaxBytes,        \* bound: bytes sent after login
          MaxOut,          \* bound: lines of output of one command
          OutKinds,        \* what a line of output may be: "out", "blank" or both
          MaxRepeats       \* bound: items a send broken off half way has to repeat

(* A byte is text, text that is not valid UTF-8, CR, LF or NUL.            *)
Byte == {"ch", "bad", "cr", "lf", "nul"}

ASSUME KindAssumption == Kind \in {"ssh", "telnet"}
ASSUME ExitAssumption == ExitOverridden \in BOOLEAN
ASSUME BytesAssumption == Bytes \subseteq Byte
ASSUME BoundsAssumption == MaxBytes \in Nat /\ MaxOut \in Nat /\ MaxRepeats \in Nat
ASSUME OutKindsAssumption == OutKinds \subseteq {"out", "blank"}

VARIABLES
  is_running,   \* the server has not been stopped
  clientGone,   \* the peer has closed its side
  alive,        \* SSH: the paramiko transport is alive
  inbox,        \* bytes that reached the server and were not received yet
  run_srv,      \* the connection's "keep running" event
  replied,      \* shell_replied_event
  stdin,        \* lines for the shell, oldest first
  stdout,       \* items for the client, oldest first
  conn,         \* where connection_function (and the shell it runs) is
  left,         \* lines of output the running command has yet to write
  cpc,          \* where client_to_shell_tap is
  cbyte,        \* the byte it holds
  cbuf,         \* what its line buffer holds: "empty", "text" or "bad"
  skip_lf,      \* it drops the next byte if that is LF
  spc,          \* where shell_to_client_tap is
  batch,        \* the items it has taken from stdout and not sent
  wpc,          \* where the watchdog is
  heard,        \* history: bytes received by the tap, after the login's last
  inlog,        \* history: lines written to stdin
  ran,          \* history: lines the shell has read
  outlog,       \* history: items written to stdout
  sent,         \* history: items of the sendalls that have returned
  wire,         \* history: items put on the wire, by any sendall
  cuts          \* history: where on the wire a sendall broke off, and the
                \*   first item of what it was sending

envVars  == <<is_running, clientGone, alive, inbox>>
connVars == <<conn, left>>
tapVars  == <<cpc, cbyte, cbuf, skip_lf>>
sendVars == <<spc, batch>>
inVars   == <<stdin, inlog>>
outVars  == <<stdout, outlog>>
wireVars == <<sent, wire, cuts>>
vars == <<envVars, run_srv, replied, inVars, outVars, connVars, tapVars,
          sendVars, wpc, heard, ran, wireVars>>

Line == [from : {"client", "watchdog"}, blank : BOOLEAN]
Item == [kind : {"intro", "prompt", "out", "blank", "echo"}, at : Nat]
Cut  == [place : Nat, first : Nat]

TypeOK ==
  /\ is_running \in BOOLEAN /\ clientGone \in BOOLEAN /\ alive \in BOOLEAN
  /\ inbox \in Seq(Byte)
  /\ run_srv \in BOOLEAN /\ replied \in BOOLEAN
  /\ stdin \in Seq(Line) /\ inlog \in Seq(Line) /\ ran \in Seq(Line)
  /\ stdout \in Seq(Item) /\ outlog \in Seq(Item)
  /\ sent \in Seq(Item) /\ wire \in Seq(Item) /\ cuts \subseteq Cut
  /\ conn \in {"accept", "accepting", "login", "intro", "prompt", "read", "dispatch",
               "output", "finally", "close", "closed"}
  /\ left \in 0 .. MaxOut
  /\ cpc \in {"new", "loop", "recv", "gate", "echo", "forward", "clear",
              "exit", "done", "dead"}
  /\ cbyte \in Byte
  /\ cbuf \in {"empty", "text", "bad"}
  /\ skip_lf \in BOOLEAN
  /\ spc \in {"new", "loop", "read", "drain", "read2", "drain2", "sendTest",
              "send", "set", "exit", "done"}
  /\ batch \in Seq(Item)
  /\ wpc \in {"new", "loop", "done"}
  /\ heard \in Seq(Byte)

Init ==
  /\ is_running = TRUE /\ clientGone = FALSE /\ alive = TRUE
  /\ inbox = <<>>
  /\ run_srv = TRUE /\ replied = FALSE
  /\ stdin = <<>> /\ inlog = <<>> /\ ran = <<>>
  /\ stdout = <<>> /\ outlog = <<>>
  /\ sent = <<>> /\ wire = <<>> /\ cuts = {}
  /\ conn = IF Kind = "ssh" THEN "accept" ELSE "login"
  /\ left = 0
  /\ cpc = "new" /\ cbyte = "lf" /\ cbuf = "empty" /\ skip_lf = FALSE
  /\ spc = "new" /\ batch = <<>>
  /\ wpc = "new"
  /\ heard = <<>>

-----------------------------------------------------------------------------
(* The two queues and the transport, as the threads see them.              *)

WriteStdin(line) ==
  /\ stdin' = Append(stdin, line)
  /\ inlog' = Append(inlog, line)

WriteStdout(kind) ==
  LET item == [kind |-> kind, at |-> Len(outlog) + 1]
  IN  /\ stdout' = Append(stdout, item)
      /\ outlog' = Append(outlog, item)

Over == conn = "closed" \/ ~alive

(* What is_closed() may answer: the fd is closed on our side, or paramiko  *)
(* happens to know already that the peer is gone.                          *)
IsClosed ==
  CASE Over                                  -> {TRUE}
    [] ~Over /\ Kind = "ssh" /\ clientGone    -> BOOLEAN
    [] ~Over /\ ~(Kind = "ssh" /\ clientGone) -> {FALSE}

(* How a sendall() may end.  A peer that is gone is noticed by the kernel  *)
(* at some later send; a peer that does not read makes sends time out.     *)
SendResult ==
  CASE Over                -> {"error"}
    [] ~Over /\ clientGone  -> {"ok", "timeout", "error"}
    [] ~Over /\ ~clientGone -> {"ok", "timeout"}

RecvEnds == conn = "closed" \/ (clientGone /\ inbox = <<>>)

-----------------------------------------------------------------------------
(* The client, the network and the server the connection belongs to.       *)

ClientSend(b) ==
  /\ ~clientGone
  /\ cpc # "new"
  /\ Len(heard) + Len(inbox) < MaxBytes + 1
  /\ inbox' = Append(inbox, b)
  /\ UNCHANGED <<is_running, clientGone, alive, run_srv, replied, inVars, outVars,
                 connVars, tapVars, sendVars, wpc, heard, ran, wireVars>>

ClientDisconnect ==
  /\ ~clientGone
  /\ clientGone' = TRUE
  /\ UNCHANGED <<is_running, alive, inbox, run_srv, replied, inVars, outVars,
                 connVars, tapVars, sendVars, wpc, heard, ran, wireVars>>

TransportDies ==
  /\ Kind = "ssh"
  /\ alive
  /\ alive' = FALSE
  /\ clientGone' = TRUE
  /\ UNCHANGED <<is_running, inbox, run_srv, replied, inVars, outVars,
                 connVars, tapVars, sendVars, wpc, heard, ran, wireVars>>

ServerStop ==
  /\ is_running
  /\ is_running' = FALSE
  /\ UNCHANGED <<clientGone, alive, inbox, run_srv, replied, inVars, outVars,
                 connVars, tapVars, sendVars, wpc, heard, ran, wireVars>>

-----------------------------------------------------------------------------
(* connection_function up to the start of the shell.                       *)

(* SSH: session.accept() in a loop that looks at is_running and at the     *)
(* transport, which may both change while accept() waits.  The channel     *)
(* that comes may have been opened by a client that is gone by now; it     *)
(* goes straight to the shell, or to a login when the client used the      *)
(* authentication method "none".  Module Login has the detail.             *)
AcceptLoop ==
  /\ conn = "accept"
  /\ is_running /\ alive
  /\ conn' = "accepting"
  /\ UNCHANGED <<envVars, run_srv, replied, inVars, outVars, left, tapVars,
                 sendVars, wpc, heard, ran, wireVars>>

AcceptTimesOut ==
  /\ conn = "accepting"
  /\ conn' = "accept"
  /\ UNCHANGED <<envVars, run_srv, replied, inVars, outVars, left, tapVars,
                 sendVars, wpc, heard, ran, wireVars>>

AcceptChannel ==
  /\ conn = "accepting"
  /\ conn' = "login"
  /\ UNCHANGED <<envVars, run_srv, replied, inVars, outVars, left, tapVars,
                 sendVars, wpc, heard, ran, wireVars>>

AcceptGivesUp ==
  /\ conn = "accept"
  /\ ~is_running \/ ~alive
  /\ conn' = "finally"
  /\ UNCHANGED <<envVars, run_srv, replied, inVars, outVars, left, tapVars,
                 sendVars, wpc, heard, ran, wireVars>>

(* The taps, the shell and the watchdog start.  lastByte is the byte that  *)
(* ended the login's password line: CR leaves skip_lf set for the tap.     *)
StartSession(lastByte) ==
  /\ conn' = "intro"
  /\ cpc' = "loop" /\ spc' = "loop" /\ wpc' = "loop"
  /\ skip_lf' = (lastByte = "cr")
  /\ heard' = <<lastByte>>
  /\ UNCHANGED <<envVars, run_srv, replied, inVars, outVars, left, cbyte, cbuf,
                 batch, ran, wireVars>>

AcceptAndStart ==
  /\ conn = "accepting"
  /\ StartSession("lf")

(* read_line() retries on a receive timeout and never looks at is_running: *)
(* only the client moves the login on, by logging in or by going away.     *)
(* A client that goes away right after exact credentials is logged in.     *)
LoginSucceeds ==
  /\ conn = "login"
  /\ \E lastByte \in {"cr", "lf"} : StartSession(lastByte)

LoginFails ==
  /\ conn = "login"
  /\ conn' = "finally"
  /\ UNCHANGED <<envVars, run_srv, replied, inVars, outVars, left, tapVars,
                 sendVars, wpc, heard, ran, wireVars>>

-----------------------------------------------------------------------------
(* The shell: cmd.Cmd.cmdloop with CMDShell's handlers.                    *)

ShellIntro ==
  /\ conn = "intro"
  /\ WriteStdout("intro")
  /\ conn' = "prompt"
  /\ UNCHANGED <<envVars, run_srv, replied, inVars, left, tapVars, sendVars, wpc,
                 heard, ran, wireVars>>

ShellPrompt ==
  /\ conn = "prompt"
  /\ WriteStdout("prompt")
  /\ conn' = "read"
  /\ UNCHANGED <<envVars, run_srv, replied, inVars, left, tapVars, sendVars, wpc,
                 heard, ran, wireVars>>

(* Mutant: the newest line first.                                          *)
ReadNewest ==
  /\ conn = "read"
  /\ \/ /\ stdin # <<>>
        /\ ran' = Append(ran, stdin[Len(stdin)])
        /\ stdin' = SubSeq(stdin, 1, Len(stdin) - 1)
        /\ conn' = "dispatch"
     \/ /\ stdin = <<>> /\ ~run_srv
        /\ conn' = "finally"
        /\ UNCHANGED <<stdin, ran>>
  /\ UNCHANGED <<envVars, run_srv, replied, inlog, outVars, left, tapVars,
                 sendVars, wpc, heard, wireVars>>

(* stdin.readline(): the oldest line, or "" (EOF, which stops the shell)   *)
(* once run_srv is cleared and no line is left.                            *)
ShellRead ==
  /\ conn = "read"
  /\ \/ /\ stdin # <<>>
        /\ ran' = Append(ran, Head(stdin))
        /\ stdin' = Tail(stdin)
        /\ conn' = "dispatch"
     \/ /\ stdin = <<>> /\ ~run_srv
        /\ conn' = "finally"
        /\ UNCHANGED <<stdin, ran>>
  /\ UNCHANGED <<envVars, run_srv, replied, inlog, outVars, left, tapVars,
                 sendVars, wpc, heard, wireVars>>

current == ran[Len(ran)]

(* emptyline(): nothing is written and is_running is not looked at.        *)
DispatchBlank ==
  /\ conn = "dispatch"
  /\ current.blank
  /\ conn' = "prompt"
  /\ UNCHANGED <<envVars, run_srv, replied, inVars, outVars, left, tapVars,
                 sendVars, wpc, heard, ran, wireVars>>

(* do_help: writes its lines whatever is_running says.                     *)
DispatchHelp ==
  /\ conn = "dispatch"
  /\ ~current.blank /\ current.from = "client"
  /\ left' = MaxOut
  /\ conn' = "output"
  /\ UNCHANGED <<envVars, run_srv, replied, inVars, outVars, tapVars,
                 sendVars, wpc, heard, ran, wireVars>>

(* default() with an exit command, do_EOF, or an exception that leaves     *)
(* cmdloop.  The watchdog's line is "exit".                                *)
DispatchExit ==
  /\ conn = "dispatch"
  /\ ~current.blank
  /\ current.from = "watchdog" => ~ExitOverridden
  /\ conn' = "finally"
  /\ UNCHANGED <<envVars, run_srv, replied, inVars, outVars, left, tapVars,
                 sendVars, wpc, heard, ran, wireVars>>

(* Mutant: default() without its look at is_running.                       *)
DefaultIgnoresStop ==
  /\ conn = "dispatch"
  /\ ~current.blank
  /\ current.from = "watchdog" => ExitOverridden
  /\ \E n \in 0 .. MaxOut : left' = n
  /\ conn' = "output"
  /\ UNCHANGED <<envVars, run_srv, replied, inVars, outVars, tapVars,
                 sendVars, wpc, heard, ran, wireVars>>

(* default() with any other command: it stops the shell if the server was  *)
(* stopped while the command ran, and otherwise writes the output.         *)
DispatchDefault ==
  /\ conn = "dispatch"
  /\ ~current.blank
  /\ current.from = "watchdog" => ExitOverridden
  /\ \/ ~is_running /\ conn' = "finally" /\ UNCHANGED left
     \/ /\ is_running
        /\ \E n \in 0 .. MaxOut : left' = n
        /\ conn' = "output"
  /\ UNCHANGED <<envVars, run_srv, replied, inVars, outVars, tapVars,
                 sendVars, wpc, heard, ran, wireVars>>

(* Mutant: one line too many.                                              *)
WriteOneTooMany ==
  /\ conn = "output"
  /\ WriteStdout("out")
  /\ left' = left - 1
  /\ conn' = IF left = 0 THEN "prompt" ELSE "output"
  /\ UNCHANGED <<envVars, run_srv, replied, inVars, tapVars, sendVars, wpc,
                 heard, ran, wireVars>>

(* The lines of the output, one write each.                                *)
ShellWriteline ==
  /\ conn = "output"
  /\ \/ /\ left > 0
        /\ \E kind \in OutKinds : WriteStdout(kind)
        /\ left' = left - 1
        /\ UNCHANGED conn
     \/ /\ left = 0
        /\ conn' = "prompt"
        /\ UNCHANGED <<left, outVars>>
  /\ UNCHANGED <<envVars, run_srv, replied, inVars, tapVars, sendVars, wpc,
                 heard, ran, wireVars>>

(* The finally block of connection_function.                               *)
FinallyClear ==
  /\ conn = "finally"
  /\ run_srv' = FALSE
  /\ conn' = "close"
  /\ UNCHANGED <<envVars, replied, inVars, outVars, left, tapVars, sendVars, wpc,
                 heard, ran, wireVars>>

FinallyClose ==
  /\ conn = "close"
  /\ conn' = "closed"
  /\ UNCHANGED <<envVars, run_srv, replied, inVars, outVars, left, tapVars,
                 sendVars, wpc, heard, ran, wireVars>>

ShellThread == \/ ShellIntro \/ ShellPrompt \/ ShellRead
               \/ DispatchBlank \/ DispatchHelp \/ DispatchExit \/ DispatchDefault
               \/ ShellWriteline \/ FinallyClear \/ FinallyClose

-----------------------------------------------------------------------------
(* client_to_shell_tap                                                     *)

TapLoop ==
  /\ cpc = "loop"
  /\ cpc' = IF run_srv THEN "recv" ELSE "exit"
  /\ UNCHANGED <<envVars, run_srv, replied, inVars, outVars, connVars, cbyte, cbuf,
                 skip_lf, sendVars, wpc, heard, ran, wireVars>>

(* recv_byte() times out only when there is nothing to receive.            *)
TapRecvNothing ==
  /\ cpc = "recv"
  /\ \/ RecvEnds /\ cpc' = "exit"
     \/ ~RecvEnds /\ inbox = <<>> /\ cpc' = "loop"
  /\ UNCHANGED <<envVars, run_srv, replied, inVars, outVars, connVars, cbyte, cbuf,
                 skip_lf, sendVars, wpc, heard, ran, wireVars>>

(* Mutant: NUL treated the other way round by the two transports.          *)
RecvByteNulSwapped ==
  /\ cpc = "recv"
  /\ conn # "closed"
  /\ inbox # <<>>
  /\ LET b == Head(inbox)
     IN /\ cbyte' = b
        /\ inbox' = Tail(inbox)
        /\ heard' = Append(heard, b)
        /\ skip_lf' = (b = "nul" /\ skip_lf /\ Kind = "telnet")
        /\ cpc' = IF b = "nul" \/ (b = "lf" /\ skip_lf) THEN "loop" ELSE "gate"
  /\ UNCHANGED <<is_running, clientGone, alive, run_srv, replied, inVars, outVars,
                 connVars, cbuf, sendVars, wpc, ran, wireVars>>

(* A byte arrives: NUL is dropped (on Telnet it also ends the wait for the *)
(* LF of a CR LF pair), the LF of a CR LF pair is dropped.                 *)
TapRecvByte ==
  /\ cpc = "recv"
  /\ conn # "closed"
  /\ inbox # <<>>
  /\ LET b == Head(inbox)
     IN /\ cbyte' = b
        /\ inbox' = Tail(inbox)
        /\ heard' = Append(heard, b)
        /\ skip_lf' = (b = "nul" /\ skip_lf /\ Kind # "telnet")
        /\ cpc' = IF b = "nul" \/ (b = "lf" /\ skip_lf) THEN "loop" ELSE "gate"
  /\ UNCHANGED <<is_running, clientGone, alive, run_srv, replied, inVars, outVars,
                 connVars, cbuf, sendVars, wpc, ran, wireVars>>

(* Mutant: the wait goes on whatever happens to run_srv.                   *)
GateIgnoresRun ==
  /\ cpc = "gate"
  /\ \/ replied /\ \E c \in IsClosed : cpc' = IF c THEN "exit" ELSE "echo"
     \/ ~replied /\ UNCHANGED cpc
  /\ UNCHANGED <<envVars, run_srv, replied, inVars, outVars, connVars, cbyte, cbuf,
                 skip_lf, sendVars, wpc, heard, ran, wireVars>>

(* Wait for the shell's reply to the line before; give up when run_srv is  *)
(* cleared or the transport is closed.                                     *)
TapGate ==
  /\ cpc = "gate"
  /\ \/ run_srv /\ replied /\ \E c \in IsClosed : cpc' = IF c THEN "exit" ELSE "echo"
     \/ ~run_srv /\ cpc' = "exit"
  /\ UNCHANGED <<envVars, run_srv, replied, inVars, outVars, connVars, cbyte, cbuf,
                 skip_lf, sendVars, wpc, heard, ran, wireVars>>

(* A text byte is echoed straight to the transport and buffered.           *)
TapEchoText ==
  /\ cpc = "echo"
  /\ cbyte \in {"ch", "bad"}
  /\ \E r \in SendResult :
       \/ /\ r = "ok"
          /\ cpc' = "loop"
          /\ cbuf' = IF cbyte = "bad" \/ cbuf = "bad" THEN "bad" ELSE "text"
       \/ r # "ok" /\ cpc' = "exit" /\ UNCHANGED cbuf
  /\ UNCHANGED <<envVars, run_srv, replied, inVars, outVars, connVars, cbyte,
                 skip_lf, sendVars, wpc, heard, ran, wireVars>>

(* Mutant: the newline is echoed straight to the transport.                *)
EchoNewlineDirectly ==
  /\ cpc = "echo"
  /\ cbyte \in {"cr", "lf"}
  /\ skip_lf' = (cbyte = "cr")
  /\ cpc' = IF "ok" \in SendResult THEN "forward" ELSE "exit"
  /\ UNCHANGED <<envVars, run_srv, replied, inVars, outVars, connVars, cbyte, cbuf,
                 sendVars, wpc, heard, ran, wireVars>>

(* A line end is echoed through stdout, so that it is sent with the reply. *)
TapEchoNewline ==
  /\ cpc = "echo"
  /\ cbyte \in {"cr", "lf"}
  /\ skip_lf' = (cbyte = "cr")
  /\ WriteStdout("echo")
  /\ cpc' = "forward"
  /\ UNCHANGED <<envVars, run_srv, replied, inVars, connVars, cbyte, cbuf, sendVars,
                 wpc, heard, ran, wireVars>>

(* The line goes to the shell.  A line that is not UTF-8 raises a          *)
(* UnicodeDecodeError nobody catches: the thread dies where it stands.     *)
TapForward ==
  /\ cpc = "forward"
  /\ \/ /\ cbuf # "bad"
        /\ WriteStdin([from |-> "client", blank |-> cbuf = "empty"])
        /\ cbuf' = "empty"
        /\ cpc' = "clear"
     \/ /\ cbuf = "bad"
        /\ cpc' = "dead"
        /\ UNCHANGED <<cbuf, inVars>>
  /\ UNCHANGED <<envVars, run_srv, replied, outVars, connVars, cbyte, skip_lf,
                 sendVars, wpc, heard, ran, wireVars>>

TapClearReplied ==
  /\ cpc = "clear"
  /\ replied' = FALSE
  /\ cpc' = "loop"
  /\ UNCHANGED <<envVars, run_srv, inVars, outVars, connVars, cbyte, cbuf, skip_lf,
                 sendVars, wpc, heard, ran, wireVars>>

TapExit ==
  /\ cpc = "exit"
  /\ run_srv' = FALSE
  /\ cpc' = "done"
  /\ UNCHANGED <<envVars, replied, inVars, outVars, connVars, cbyte, cbuf, skip_lf,
                 sendVars, wpc, heard, ran, wireVars>>

ClientTap == \/ TapLoop \/ TapRecvNothing \/ TapRecvByte \/ TapGate \/ TapEchoText
             \/ TapEchoNewline \/ TapForward \/ TapClearReplied \/ TapExit

-----------------------------------------------------------------------------
(* shell_to_client_tap                                                     *)

OutLoop ==
  /\ spc = "loop"
  /\ \/ ~run_srv /\ spc' = "exit"
     \/ run_srv /\ \E c \in IsClosed : spc' = IF c THEN "exit" ELSE "read"
  /\ UNCHANGED <<envVars, run_srv, replied, inVars, outVars, connVars, tapVars,
                 batch, wpc, heard, ran, wireVars>>

(* stdout.readline(), the first of a batch or the one that follows a bare  *)
(* newline echo: it blocks while run_srv is set.                           *)
OutRead ==
  /\ spc \in {"read", "read2"}
  /\ \/ /\ stdout # <<>>
        /\ batch' = Append(batch, Head(stdout))
        /\ stdout' = Tail(stdout)
        /\ spc' = IF spc = "read" THEN "drain" ELSE "drain2"
     \/ /\ stdout = <<>> /\ ~run_srv
        /\ spc' = IF spc = "read" THEN "exit" ELSE "sendTest"
        /\ UNCHANGED <<batch, stdout>>
  /\ UNCHANGED <<envVars, run_srv, replied, inVars, outlog, connVars, tapVars, wpc,
                 heard, ran, wireVars>>

(* Mutants: the drained lines are dropped when the batch waited for more;  *)
(* an echo waits for more also when more has come.                        *)
DrainDropsExtras ==
  /\ spc \in {"drain", "drain2"}
  /\ batch' = IF spc = "drain" THEN batch \o stdout ELSE batch
  /\ stdout' = <<>>
  /\ spc' = IF spc = "drain" /\ stdout = <<>> /\ batch[1].kind \in {"echo", "blank"}
            THEN "read2" ELSE "sendTest"
  /\ UNCHANGED <<envVars, run_srv, replied, inVars, outlog, connVars, tapVars, wpc,
                 heard, ran, wireVars>>

DrainEchoWaits ==
  /\ spc \in {"drain", "drain2"}
  /\ batch' = batch \o stdout
  /\ stdout' = <<>>
  /\ spc' = IF spc = "drain" /\ batch[1].kind \in {"echo", "blank"} THEN "read2" ELSE "sendTest"
  /\ UNCHANGED <<envVars, run_srv, replied, inVars, outlog, connVars, tapVars, wpc,
                 heard, ran, wireVars>>

(* After the coalescing pause everything queued joins the batch; a batch   *)
(* that is nothing but white space (a newline echo) waits for more.        *)
OutDrain ==
  /\ spc \in {"drain", "drain2"}
  /\ batch' = batch \o stdout
  /\ stdout' = <<>>
  /\ spc' = IF spc = "drain" /\ stdout = <<>> /\ batch[1].kind \in {"echo", "blank"}
            THEN "read2" ELSE "sendTest"
  /\ UNCHANGED <<envVars, run_srv, replied, inVars, outlog, connVars, tapVars, wpc,
                 heard, ran, wireVars>>

(* Each attempt to send is preceded by a look at run_srv, which may be     *)
(* cleared in between.                                                     *)
OutSendTest ==
  /\ spc = "sendTest"
  /\ spc' = IF run_srv THEN "send" ELSE "exit"
  /\ UNCHANGED <<envVars, run_srv, replied, inVars, outVars, connVars, tapVars,
                 batch, wpc, heard, ran, wireVars>>

(* A sendall() that breaks off after n items of the batch, the nth of them *)
(* perhaps sent only in part; MaxRepeats bounds the items on the wire that  *)
(* are there for no send that returned.                                    *)
BreaksOff(n) ==
  /\ n > 0 => Len(wire) + n <= Len(sent) + MaxRepeats
  /\ wire' = wire \o SubSeq(batch, 1, n)
  /\ cuts' = IF n = 0 THEN cuts
             ELSE cuts \cup {[place |-> Len(wire) + n, first |-> batch[1].at]}
  /\ UNCHANGED sent

(* Mutant: a send that timed out counts as written.                        *)
TimeoutIsWritten ==
  /\ spc = "send"
  /\ "timeout" \in SendResult
  /\ \E n \in 0 .. Len(batch) :
       /\ n > 0 => Len(wire) + n <= Len(sent) + MaxRepeats
       /\ wire' = wire \o SubSeq(batch, 1, n)
  /\ sent' = sent \o batch
  /\ batch' = <<>>
  /\ spc' = "set"
  /\ UNCHANGED <<envVars, run_srv, replied, inVars, outVars, connVars, tapVars,
                 wpc, heard, ran, cuts>>

(* A send that timed out, with a part of the batch on the wire or nothing, *)
(* is tried again with the whole batch.                                    *)
OutSendTimeout ==
  /\ spc = "send"
  /\ "timeout" \in SendResult
  /\ \E n \in 0 .. Len(batch) : BreaksOff(n)
  /\ spc' = "sendTest"
  /\ UNCHANGED <<envVars, run_srv, replied, inVars, outVars, connVars, tapVars,
                 batch, wpc, heard, ran>>

(* A send that returns, or fails for good: on a transport that is over     *)
(* before anything is on the wire, else after any part of the batch.       *)
OutSend ==
  /\ spc = "send"
  /\ \/ /\ "ok" \in SendResult
        /\ sent' = sent \o batch
        /\ wire' = wire \o batch
        /\ batch' = <<>>
        /\ spc' = "set"
        /\ UNCHANGED cuts
     \/ /\ "error" \in SendResult
        /\ \E n \in 0 .. Len(batch) : (Over => n = 0) /\ BreaksOff(n)
        /\ spc' = "exit"
        /\ UNCHANGED batch
  /\ UNCHANGED <<envVars, run_srv, replied, inVars, outVars, connVars, tapVars, wpc,
                 heard, ran>>

OutSetReplied ==
  /\ spc = "set"
  /\ replied' = TRUE
  /\ spc' = "loop"
  /\ UNCHANGED <<envVars, run_srv, inVars, outVars, connVars, tapVars, batch, wpc,
                 heard, ran, wireVars>>

OutExit ==
  /\ spc = "exit"
  /\ run_srv' = FALSE
  /\ spc' = "done"
  /\ UNCHANGED <<envVars, replied, inVars, outVars, connVars, tapVars, batch, wpc,
                 heard, ran, wireVars>>

ServerTap == \/ OutLoop \/ OutRead \/ OutDrain \/ OutSendTest \/ OutSendTimeout
             \/ OutSend \/ OutSetReplied \/ OutExit

-----------------------------------------------------------------------------
(* Mutant: the SSH watchdog does not look at the transport either.         *)
WatchdogStopBlind ==
  /\ wpc = "loop"
  /\ ~run_srv \/ ~is_running
  /\ WriteStdin([from |-> "watchdog", blank |-> FALSE])
  /\ wpc' = "done"
  /\ UNCHANGED <<envVars, run_srv, replied, outVars, connVars, tapVars, sendVars,
                 heard, ran, wireVars>>

(* Only the SSH watchdog looks at the transport.                           *)
WatchdogSeesEnd == ~run_srv \/ ~is_running \/ (Kind = "ssh" /\ ~alive)

(* watchdog(): polls, and on its way out writes "exit" to the shell.       *)
WatchdogStop ==
  /\ wpc = "loop"
  /\ WatchdogSeesEnd
  /\ WriteStdin([from |-> "watchdog", blank |-> FALSE])
  /\ wpc' = "done"
  /\ UNCHANGED <<envVars, run_srv, replied, outVars, connVars, tapVars, sendVars,
                 heard, ran, wireVars>>

-----------------------------------------------------------------------------
Ended == /\ conn = "closed"
         /\ cpc \in {"new", "done", "dead"}
         /\ spc \in {"new", "done"}
         /\ wpc \in {"new", "done"}

(* Nothing is left to do: the only state in which the session may rest.    *)
Rest == Ended /\ UNCHANGED vars

Environment == \/ \E b \in Bytes : ClientSend(b)
               \/ ClientDisconnect \/ TransportDies \/ ServerStop

AcceptPolls == AcceptLoop \/ AcceptTimesOut \/ AcceptGivesUp

Connection == \/ AcceptPolls \/ AcceptChannel \/ AcceptAndStart
              \/ LoginSucceeds \/ LoginFails
              \/ ShellThread

Next == \/ Environment \/ Connection \/ ClientTap \/ ServerTap \/ WatchdogStop
        \/ Rest

Spec == Init /\ [][Next]_vars

(***************************************************************************)
(* Every thread the code starts keeps running.  Nothing is assumed of the  *)
(* client: it may never log in, never send, never read, never disconnect.  *)
(* ReadingClient, which one property assumes, says that a client does not  *)
(* leave sends to time out forever.                                        *)
(***************************************************************************)
Fairness == /\ WF_vars(ShellThread)
            /\ WF_vars(AcceptPolls)
            /\ WF_vars(ClientTap)
            /\ WF_vars(ServerTap)
            /\ WF_vars(WatchdogStop)
            /\ WF_vars(clientGone /\ LoginFails)

FairSpec == Spec /\ Fairness

ReadingClient == SF_vars(OutSend)

ReadingSpec == FairSpec /\ ReadingClient

-----------------------------------------------------------------------------
(* What the client typed, by a definition that knows nothing of the tap:   *)
(* a CR ends a line; an LF does too, unless it is the second half of a     *)
(* CR LF pair (a NUL between the two breaks the pair on Telnet, where      *)
(* CR NUL is complete, and not on SSH).  heard[1] is the byte that ended   *)
(* the login, which ends no line of the shell but may be half of a pair.   *)

SecondHalf(h, i) ==
  \E j \in 1 .. i - 1 : /\ h[j] = "cr"
                        /\ \A m \in j + 1 .. i - 1 : h[m] = "nul" /\ Kind = "ssh"

LineEnds(h) == {i \in 2 .. Len(h) : \/ h[i] = "cr"
                                    \/ h[i] = "lf" /\ ~SecondHalf(h, i)}

(* The text of the line that ends at e, or has come as far as e.           *)
Text(h, e) == {h[i] : i \in {i \in 2 .. e - 1 : i .. e - 1 \cap LineEnds(h) = {}}}
              \cap {"ch", "bad"}

Echo       == {item \in Item : item.kind = "echo"}
ClientLine == {l \in Line : l.from = "client"}

typed     == LineEnds(heard)
forwarded == Places(inlog, ClientLine)

-----------------------------------------------------------------------------
(* Output is neither lost nor reordered on its way through the tap's       *)
(* readline, drain, second readline and second drain, and no item is in    *)
(* two sendalls that return: what they have sent, what the tap holds and   *)
(* what is queued, in this order, is what the shell and the echo wrote.    *)
(* What a send that timed out had put on the wire before is another        *)
(* matter, see WireInOrder.                                                *)
OutputConserved == outlog = sent \o batch \o stdout

(* The item that is due at a place on the wire is the next one, except     *)
(* after a send that broke off: there it is the first of that send, for    *)
(* the whole batch is sent again (tap_bridge.py:260, "partial-send         *)
(* duplicate risk").                                                       *)
Due(place, at) ==
  IF \E c \in cuts : c.place = place - 1
  THEN [place |-> place - 1, first |-> at] \in cuts
  ELSE at = IF place = 1 THEN 1 ELSE wire[place - 1].at + 1

(* The client gets the output in order and without a gap, and nothing of   *)
(* it twice but what a send that timed out half way has to repeat: neither *)
(* more than its batch, nor less, and never part of a send that returned.  *)
(* What is due next is always the first item that no sendall has returned  *)
(* with.                                                                   *)
WireInOrder ==
  /\ \A k \in 1 .. Len(wire) : /\ wire[k] = outlog[wire[k].at]
                              /\ Due(k, wire[k].at)
  /\ Due(Len(wire) + 1, Len(sent) + 1)

(* The lines of the client and the watchdog's "exit" reach the shell once  *)
(* each and in the order they were written.                                *)
InputConserved == inlog = ran \o stdin

(* The shell is given exactly the lines the client typed, in their order,  *)
(* whatever mix of CR, LF and NUL ends them and whatever the login left    *)
(* over: the nth line forwarded is the nth typed, blank if that is, and    *)
(* only the latest may be on its way.  A line that is not UTF-8 is never   *)
(* given to the shell, and the tap dies of nothing else.                   *)
LinesAsTyped ==
  /\ \/ Cardinality(forwarded) = Cardinality(typed)
     \/ /\ Cardinality(forwarded) + 1 = Cardinality(typed)
        /\ cpc \in {"gate", "echo", "forward", "exit", "done", "dead"}
  /\ \A l \in forwarded, e \in typed :
       Rank(forwarded, l) = Rank(typed, e) =>
         /\ inlog[l].blank <=> Text(heard, e) = {}
         /\ "bad" \notin Text(heard, e)
  /\ cpc = "dead" => \E e \in typed : /\ Rank(typed, e) = Cardinality(forwarded) + 1
                                      /\ "bad" \in Text(heard, e)

(* The newline echo of a line is queued before anything the shell answers  *)
(* to it, though two threads write them.                                   *)
EchoPrecedesReply == Count(outlog, Echo) >= Count(ran, ClientLine)

-----------------------------------------------------------------------------
Started == conn \notin {"accept", "accepting", "login"}

(* Whatever ends a session ends all four threads of its connection and     *)
(* closes the transport: run_srv cleared by any of them, the server        *)
(* stopped, although no tap looks at is_running and even where "exit" is   *)
(* overridden, or the transport dead.  Only the login does not look at     *)
(* the server: a channel accepted while the server stops may enter it.     *)
SessionEnds ==
  /\ ~run_srv /\ Started ~> Ended
  /\ ~is_running /\ conn # "login" ~> Ended \/ conn = "login"
  /\ ~alive ~> Ended

(* test_telnet_server.py:574: "Closing the client socket should propagate  *)
(* to shell.stop()."                                                       *)
DisconnectEndsSession == clientGone /\ Started ~> Ended

(* Everything written for the client is sent in the end, unless the        *)
(* session ends: the tap never sits on a reply.  Only the echo of a line   *)
(* that never reached the shell waits for a reply that does not come.      *)
OutputIsSent ==
  ReadingClient => (outlog # sent ~> outlog = sent \/ ~run_srv \/ cpc = "dead")

-----------------------------------------------------------------------------
(* What the server that has accepted the connection sees of it.  It is in  *)
(* its login until the taps are started, also where that fails.            *)
phase == IF conn = "closed" THEN "done" ELSE IF cpc = "new" THEN "login" ELSE "session"

Accepted == INSTANCE Connection WITH phase <- phase, traffic <- <<ran, wire>>

(* Nothing is run for a client that is not logged in, and nothing is run   *)
(* or sent once the connection's thread has ended, although its taps and   *)
(* the watchdog may still be running then.                                 *)
ImplementsConnection == Accepted!Spec
=============================================================================
