------------------------------- MODULE Login -------------------------------
(***************************************************************************)
(* One connection from the moment it was accepted to the moment its        *)
(* session starts or it is closed (telnet_server.py, tap_bridge.py,        *)
(* ssh_server_paramiko.py).                                                *)
(*                                                                         *)
(* Telnet: the server offers SGA and ECHO, drains what the client already  *)
(* sent, and asks for username and password, reading bytes through a layer *)
(* that takes the commands of the protocol (IAC ...) out of the stream.    *)
(* SSH: handshake, authentication, a loop that waits for a channel, and,   *)
(* only after the authentication method "none", the same login dialogue on *)
(* the channel.                                                            *)
(*                                                                         *)
(* The client sends units: a data byte or a whole protocol command.  What  *)
(* it meant by a unit is recorded apart from the bytes, so that it can be  *)
(* compared with what the server makes of them.                            *)
(***************************************************************************)
EXTENDS Naturals, Sequences, FiniteSets, Selections

CONSTANTS Username, Password,   \* the configured credentials: sequences of Char
          Names,                \* the names SSH clients authenticate with
          Char,                 \* printable bytes; "+" among them or not
          MaxData               \* bound: data bytes typed into one login

Verb    == {"will", "wont", "do", "dont"}
Offered == {"sga", "echo"}                  \* what the server itself offers
Option  == {"sga", "naws", "other"}         \* bound: the options clients name
Data    == Char \cup {"cr", "lf", "nul"}
Byte    == Data \cup Verb \cup Offered \cup Option \cup {"IAC", "SB", "SE", "NOP"}

Method == {"none", "publickey", "password", "keyboard-interactive"}

ASSUME CredentialsAssumption == Username \in Seq(Char) /\ Password \in Seq(Char)
ASSUME NamesAssumption == Names \subseteq Seq(Char \cup {"+"})
ASSUME CharAssumption ==
  Char \cap {"cr", "lf", "nul", "IAC", "SB", "SE", "NOP", "sga", "echo", "naws",
             "other", "will", "wont", "do", "dont"} = {}
ASSUME BoundAssumption == MaxData \in Nat

VARIABLES
  setup,       \* transport and configuration, fixed
  is_running,  \* the server has not been stopped
  clientGone,  \* the end of the client's stream has arrived
  alive,       \* SSH: the paramiko transport is alive
  coming,      \* bytes of the client's latest unit not yet received
  conn,        \* where connection_function is
  auth,        \* SSH: auth_method_used, or "no"
  asked,       \* SSH: keyboard-interactive has asked for the password
  parse,       \* where _recv_byte is; "idle": not called
  late,        \* the deadline of the drain under way has passed
  buf,         \* read_line's buffer
  skip_lf,     \* read_line's flag
  entered,     \* the lines read_line has returned
  cut,         \* one of them was cut off by the end of the stream
  heard,       \* history: bytes given to read_line since the login's first
  meant,       \* history: the data byte the client meant by its latest unit
  due,         \* history: the answer it is waiting for
  confused,    \* history: it got another answer, or another byte got through
  stalled,     \* history: a call timed out inside a command
  shown        \* history: the credentials of the latest SSH attempt

config  == <<setup>>
world   == <<is_running, clientGone, alive>>
sshVars == <<auth, asked, shown>>
line    == <<buf, skip_lf, entered, cut, heard>>
client  == <<coming, meant, due>>
verdictOnClient == <<confused, stalled>>
vars == <<config, world, coming, conn, sshVars, parse, late, line, meant, due,
          verdictOnClient>>

Telnet == setup.transport = "telnet"

Draining == conn \in {"drain", "discard"}
Reading  == conn \in {"user", "pass"}
Dialogue == {"offer", "drain", "banner", "userPrompt", "user", "passPrompt",
             "pass", "verdict", "refuse", "discard"}

Nothing == <<>>        \* no answer is due
NoByte  == "no byte"
None    == [method |-> "no", name |-> <<>>, secret |-> "wrong"]

WorldTypeOK ==
  /\ setup \in [transport : {"telnet", "ssh"}, authNone : BOOLEAN, keys : BOOLEAN]
  /\ is_running \in BOOLEAN /\ clientGone \in BOOLEAN /\ alive \in BOOLEAN

PlaceTypeOK ==
  /\ conn \in Dialogue \cup {"handshake", "accept", "accepting", "session",
                             "finally", "close", "closed"}
  /\ parse \in Verb \cup {"idle", "data", "iac", "sb", "sbiac"}
  /\ late \in BOOLEAN

AuthTypeOK ==
  /\ auth \in Method \cup {"no"} /\ asked \in BOOLEAN
  /\ shown \in [method : Method \cup {"no"}, name : Names \cup {<<>>},
                secret : {"right", "wrong"}]

LineTypeOK ==
  /\ buf \in Seq(Byte) /\ skip_lf \in BOOLEAN /\ cut \in BOOLEAN
  /\ entered \in Seq(Seq(Byte)) /\ Len(entered) <= 2
  /\ heard \in Seq(Byte)

ClientTypeOK ==
  /\ coming \in Seq(Byte)
  /\ meant \in Byte \cup {NoByte}
  /\ due \in ({"wont", "do", "dont"} \X Byte) \cup {Nothing}
  /\ confused \in BOOLEAN /\ stalled \in BOOLEAN

TypeOK == WorldTypeOK /\ PlaceTypeOK /\ AuthTypeOK /\ LineTypeOK /\ ClientTypeOK

Init ==
  /\ setup \in [transport : {"telnet"}, authNone : {FALSE}, keys : {FALSE}]
              \cup [transport : {"ssh"}, authNone : BOOLEAN, keys : BOOLEAN]
  /\ is_running = TRUE /\ clientGone = FALSE /\ alive = TRUE
  /\ coming = <<>> /\ meant = NoByte /\ due = Nothing
  /\ conn = IF Telnet THEN "offer" ELSE "handshake"
  /\ auth = "no" /\ asked = FALSE /\ shown = None
  /\ parse = "idle" /\ late = FALSE
  /\ buf = <<>> /\ skip_lf = FALSE /\ entered = <<>> /\ cut = FALSE /\ heard = <<>>
  /\ confused = FALSE /\ stalled = FALSE

-----------------------------------------------------------------------------
(* The client and the network.                                             *)

(* What a client has a right to expect for a request: an option the server *)
(* does not know is refused, NAWS is accepted.  DO SGA and DO ECHO are the *)
(* client's own answers to the server's offers, DONT and WONT change       *)
(* nothing: an answer to them could be answered for ever.                  *)
Due(verb, option) ==
  CASE verb = "do" /\ option \notin Offered -> <<"wont", option>>
    [] verb = "will" /\ option = "naws"     -> <<"do", option>>
    [] verb = "will" /\ option # "naws"     -> <<"dont", option>>
    [] OTHER                                -> Nothing

(* A unit begins when the one before it has been received.  Bound: no      *)
(* commands follow a stall, whose rest already passes for data.            *)
Sends(bytes, data, answer) ==
  /\ ~clientGone /\ coming = <<>>
  /\ conn \in Dialogue
  /\ coming' = bytes /\ meant' = data /\ due' = answer
  /\ UNCHANGED <<config, world, conn, sshVars, parse, late, line, verdictOnClient>>

ClientTypes(b) ==
  /\ Len(heard) < MaxData
  /\ Sends(<<b>>, b, Nothing)

(* Byte 255 is doubled on Telnet.                                          *)
ClientTypes255 ==
  /\ Telnet
  /\ Len(heard) < MaxData
  /\ Sends(<<"IAC", "IAC">>, "IAC", Nothing)

ClientNegotiates(verb, option) ==
  /\ Telnet /\ ~stalled
  /\ Sends(<<"IAC", verb, option>>, NoByte, Due(verb, option))

(* A command without argument, and a subnegotiation (a window size whose   *)
(* bytes are 255, doubled, and 240, which is SE).                          *)
ClientCommands ==
  /\ Telnet /\ ~stalled
  /\ \E bytes \in {<<"IAC", "NOP">>,
                   <<"IAC", "SB", "naws", "IAC", "IAC", "SE", "IAC", "SE">>} :
       Sends(bytes, NoByte, Nothing)

(* What had not arrived when the client went may arrive or be lost.        *)
ClientDisconnect ==
  /\ ~clientGone
  /\ clientGone' = TRUE
  /\ coming' \in {coming, <<>>}
  /\ UNCHANGED <<config, is_running, alive, conn, sshVars, parse, late, line, meant, due,
                 verdictOnClient>>

TransportDies ==
  /\ ~Telnet /\ alive
  /\ alive' = FALSE /\ clientGone' = TRUE
  /\ UNCHANGED <<config, is_running, client, conn, sshVars, parse, late, line,
                 verdictOnClient>>

(* Only the wait for a channel looks at is_running: no dialogue does.      *)
ServerStop ==
  /\ ~Telnet /\ is_running
  /\ is_running' = FALSE
  /\ UNCHANGED <<config, clientGone, alive, client, conn, sshVars, parse, late, line,
                 verdictOnClient>>

-----------------------------------------------------------------------------
(* SSH up to the channel.                                                  *)

(* The client's name may carry a suffix that begins with "+".              *)
MatchUsername(name) ==
  \/ name = Username
  \/ \E i \in DOMAIN name : /\ name[i] = "+"
                            /\ \A j \in 1 .. i - 1 : name[j] # "+"
                            /\ SubSeq(name, 1, i - 1) = Username

GetAllowedAuths == {"password", "keyboard-interactive"}
                   \cup (IF setup.keys THEN {"publickey"} ELSE {})
                   \cup (IF setup.authNone THEN {"none"} ELSE {})

(* start_server() raises when the handshake failed.                        *)
StartServer ==
  /\ conn = "handshake"
  /\ conn' = IF alive THEN "accept" ELSE "finally"
  /\ UNCHANGED <<config, world, client, sshVars, parse, late, line, verdictOnClient>>

Authenticating == /\ conn \in {"accept", "accepting"}
                  /\ auth = "no" /\ alive /\ ~clientGone

Attempt(method, name, secret, accepted) ==
  /\ Authenticating
  /\ shown' = [method |-> method, name |-> name, secret |-> secret]
  /\ auth' = IF accepted THEN method ELSE "no"
  /\ asked' = FALSE
  /\ UNCHANGED <<config, world, client, conn, parse, late, line, verdictOnClient>>

(* The name does not matter here.                                          *)
CheckAuthNone == Attempt("none", <<>>, "wrong", setup.authNone)

CheckAuthPublickey ==
  \E name \in Names, secret \in {"right", "wrong"} :
    Attempt("publickey", name, secret,
            setup.keys /\ MatchUsername(name) /\ secret = "right")

CheckAuthPassword ==
  \E name \in Names, secret \in {"right", "wrong"} :
    Attempt("password", name, secret, MatchUsername(name) /\ secret = "right")

(* Keyboard-interactive asks for the password of a name it knows, and      *)
(* takes the answer as the password.                                       *)
CheckAuthInteractive ==
  /\ Authenticating
  /\ \E name \in Names :
       /\ shown' = [method |-> "keyboard-interactive", name |-> name, secret |-> "wrong"]
       /\ asked' = MatchUsername(name)
  /\ UNCHANGED <<config, world, client, conn, auth, parse, late, line, verdictOnClient>>

CheckAuthInteractiveResponse ==
  /\ asked
  /\ \E secret \in {"right", "wrong"} :
       Attempt("keyboard-interactive", shown.name, secret, secret = "right")

(* Mutant: the loop looks at the transport only.                           *)
AcceptLoopForever ==
  /\ conn = "accept" /\ alive
  /\ conn' = "accepting"
  /\ UNCHANGED <<config, world, client, sshVars, parse, late, line, verdictOnClient>>

AcceptLoop ==
  /\ conn = "accept" /\ is_running /\ alive
  /\ conn' = "accepting"
  /\ UNCHANGED <<config, world, client, sshVars, parse, late, line, verdictOnClient>>

AcceptTimesOut ==
  /\ conn = "accepting"
  /\ conn' = "accept"
  /\ UNCHANGED <<config, world, client, sshVars, parse, late, line, verdictOnClient>>

AcceptGivesUp ==
  /\ conn = "accept" /\ (~is_running \/ ~alive)
  /\ conn' = "finally"
  /\ UNCHANGED <<config, world, client, sshVars, parse, late, line, verdictOnClient>>

(* Mutant: the channel login only where no other method is configured.     *)
AcceptChannelUnlessKeys ==
  /\ conn = "accepting" /\ auth # "no"
  /\ conn' = IF auth = "none" /\ ~setup.keys THEN "userPrompt" ELSE "session"
  /\ UNCHANGED <<config, world, client, sshVars, parse, late, line, verdictOnClient>>

(* A channel an authenticated client opened, perhaps just before it went.  *)
AcceptChannel ==
  /\ conn = "accepting" /\ auth # "no"
  /\ conn' = IF auth = "none" THEN "userPrompt" ELSE "session"
  /\ UNCHANGED <<config, world, client, sshVars, parse, late, line, verdictOnClient>>

-----------------------------------------------------------------------------
(* Sends of the dialogue.  A send may fail at any time: the client is gone *)
(* or does not read.                                                       *)

Abandon == IF Telnet THEN "discard" ELSE "finally"

(* The locals of the login go with it.                                     *)
Forget == /\ buf' = <<>> /\ skip_lf' = FALSE /\ entered' = <<>> /\ cut' = FALSE
          /\ heard' = <<>>

(* From one send of the dialogue to what follows it, or what follows its   *)
(* failure: the login proper is left through a drain (Telnet).             *)
Send(from, next, failed) ==
  /\ conn = from
  /\ conn' \in {next, failed}
  /\ parse' = IF conn' \in {"user", "pass"} THEN "data" ELSE "idle"
  /\ late' = FALSE
  /\ IF conn' \in {"discard", "finally"} THEN Forget ELSE UNCHANGED line
  /\ UNCHANGED <<config, world, client, sshVars, verdictOnClient>>

SendOffer      == Send("offer", "drain", "finally")
SendBanner     == Send("banner", "userPrompt", "finally")
SendUserPrompt == Send("userPrompt", "user", Abandon)
SendPassPrompt == Send("passPrompt", "pass", Abandon)
SendRefusal    == Send("refuse", "discard", "discard")

(* interactive_login's last newline and comparison.                        *)
Authenticated == entered = <<Username, Password>>

CloseLogin ==
  Send("verdict",
       CASE Authenticated           -> "session"
         [] ~Authenticated /\ Telnet  -> "refuse"
         [] ~Authenticated /\ ~Telnet -> "finally",
       Abandon)

-----------------------------------------------------------------------------
(* _recv_byte: the bytes of a protocol command are taken out of the stream *)
(* and answered; any other byte goes to whoever called.                    *)

(* The client compares an answer, and the data that got through, with what *)
(* it meant.                                                               *)
ClientGets(answer) ==
  /\ confused' = (confused \/ answer # due)
  /\ due' = IF answer = due THEN Nothing ELSE due
  /\ UNCHANGED <<meant, stalled>>

Takes(b) ==
  /\ confused' = (confused \/ b # meant)
  /\ meant' = NoByte
  /\ UNCHANGED <<due, stalled>>

(* _handle_negotiation: the answer to send, if any.                        *)
HandleNegotiation(verb, option) ==
  CASE verb = "do" /\ option \notin {"sga", "echo"} -> <<"wont", option>>
    [] verb = "do" /\ option \in {"sga", "echo"}    -> Nothing
    [] verb = "will" /\ option = "naws"             -> <<"do", option>>
    [] verb = "will" /\ option # "naws"             -> <<"dont", option>>
    [] verb \in {"wont", "dont"}                    -> Nothing

Receives == /\ conn \in {"drain", "discard", "user", "pass"}
            /\ parse # "idle" /\ coming # <<>>
            /\ coming' = Tail(coming)

(* Mutant: whatever follows IAC ends a subnegotiation.                     *)
NextParseUnescaped(b) ==
  CASE parse = "data"                             -> "iac"
    [] parse = "iac" /\ b \in Verb                -> b
    [] parse = "iac" /\ b = "SB"                  -> "sb"
    [] parse = "iac" /\ b \notin Verb \cup {"SB"} -> "data"
    [] parse = "sb" /\ b = "IAC"                  -> "sbiac"
    [] parse = "sb" /\ b # "IAC"                  -> "sb"
    [] parse = "sbiac"                            -> "data"

(* The places the parser goes through inside a command.                    *)
NextParse(b) ==
  CASE parse = "data"                             -> "iac"
    [] parse = "iac" /\ b \in Verb                -> b
    [] parse = "iac" /\ b = "SB"                  -> "sb"
    [] parse = "iac" /\ b \notin Verb \cup {"SB"} -> "data"
    [] parse = "sb" /\ b = "IAC"                  -> "sbiac"
    [] parse = "sb" /\ b # "IAC"                  -> "sb"
    [] parse = "sbiac" /\ b = "SE"                -> "data"
    [] parse = "sbiac" /\ b # "SE"                -> "sb"

(* A byte of a command that is neither its option nor the doubled 255.     *)
IsData(b) == \/ ~Telnet
             \/ parse = "data" /\ b # "IAC"
             \/ parse = "iac" /\ b = "IAC"

RecvCommand ==
  /\ Receives
  /\ parse \notin Verb /\ ~IsData(Head(coming))
  /\ parse' = NextParse(Head(coming))
  /\ UNCHANGED <<config, world, conn, sshVars, late, line, meant, due, verdictOnClient>>

(* A command is complete: back to data, once the answer is sent.  (That    *)
(* fails for a client that is gone, which is noticed just the same.)       *)
RecvOption ==
  /\ Receives
  /\ parse \in Verb
  /\ LET answer == HandleNegotiation(parse, Head(coming))
     IN IF answer = Nothing THEN UNCHANGED <<meant, due, verdictOnClient>>
                            ELSE ClientGets(answer)
  /\ parse' = "data"
  /\ UNCHANGED <<config, world, conn, sshVars, late, line>>

-----------------------------------------------------------------------------
(* _drain_pending_input: before the banner, and before a connection is     *)
(* given up.  The deadline is looked at between data bytes only.           *)

AfterDrain == IF conn = "drain" THEN "banner" ELSE "finally"

DeadlinePasses ==
  /\ Draining /\ ~late
  /\ late' = TRUE
  /\ UNCHANGED <<config, world, client, conn, sshVars, parse, line, verdictOnClient>>

(* Mutant: only silence ends a drain.                                      *)
DrainTestUnbounded ==
  /\ Draining /\ parse = "idle"
  /\ parse' = "data"
  /\ UNCHANGED <<config, world, client, conn, sshVars, late, line, verdictOnClient>>

DrainTest ==
  /\ Draining /\ parse = "idle"
  /\ IF late THEN conn' = AfterDrain /\ UNCHANGED parse
             ELSE parse' = "data" /\ UNCHANGED conn
  /\ UNCHANGED <<config, world, client, sshVars, late, line, verdictOnClient>>

DropByte ==
  /\ Draining
  /\ Receives
  /\ parse \notin Verb /\ IsData(Head(coming))
  /\ Takes(Head(coming))
  /\ parse' = "idle"
  /\ UNCHANGED <<config, world, conn, sshVars, late, line>>

(* Nothing comes for a while, or the stream has ended.  An error ends the  *)
(* connection before its banner.                                           *)
DrainEnds ==
  /\ Draining /\ parse # "idle"
  /\ \/ ~clientGone /\ conn' = AfterDrain /\ stalled' = (stalled \/ parse # "data")
     \/ clientGone /\ coming = <<>> /\ conn' \in {AfterDrain, "finally"} /\ UNCHANGED stalled
  /\ parse' = "idle"
  /\ UNCHANGED <<config, world, client, sshVars, late, line, confused>>

-----------------------------------------------------------------------------
(* read_line: the username with echo, the password without.                *)

(* Mutant: an empty line is asked for again.                               *)
LineReadInsists(next_skip_lf, cutOff) ==
  /\ entered' = Append(entered, buf)
  /\ buf' = <<>> /\ skip_lf' = next_skip_lf /\ cut' = (cut \/ cutOff)
  /\ conn' = CASE conn = "user"                -> "passPrompt"
               [] conn = "pass" /\ buf = <<>>  -> "passPrompt"
               [] conn = "pass" /\ buf # <<>>  -> "verdict"
  /\ parse' = "idle"

(* A line is complete.  Its newline is echoed for the username.            *)
LineRead(next_skip_lf, cutOff) ==
  /\ entered' = Append(entered, buf)
  /\ buf' = <<>> /\ skip_lf' = next_skip_lf /\ cut' = (cut \/ cutOff)
  /\ conn' = IF conn = "user" THEN "passPrompt" ELSE "verdict"
  /\ parse' = "idle"

EchoFails ==
  /\ conn = "user"
  /\ conn' = Abandon
  /\ parse' = "idle"
  /\ Forget

(* The second byte of a line end: of CR LF, and of CR NUL on Telnet.       *)
Skipped(b) == skip_lf /\ (b = "lf" \/ (b = "nul" /\ Telnet))

LineByte(b) ==
  \/ /\ Skipped(b)
     /\ heard' = Append(heard, b)
     /\ skip_lf' = FALSE
     /\ parse' = "data"
     /\ UNCHANGED <<conn, buf, entered, cut>>
  \/ /\ ~Skipped(b) /\ b \in {"cr", "lf"}
     /\ heard' = Append(heard, b)
     /\ LineRead(b = "cr", FALSE)
  \/ /\ ~Skipped(b) /\ b \notin {"cr", "lf"}
     /\ heard' = Append(heard, b)
     /\ buf' = Append(buf, b) /\ skip_lf' = FALSE
     /\ parse' = "data"
     /\ UNCHANGED <<conn, entered, cut>>
  \/ /\ ~Skipped(b)
     /\ EchoFails

ReadByte ==
  /\ Reading
  /\ Receives
  /\ parse \notin Verb /\ IsData(Head(coming))
  /\ Takes(Head(coming))
  /\ LineByte(Head(coming))
  /\ late' = FALSE
  /\ UNCHANGED <<config, world, sshVars>>

(* A timeout is no event for read_line, wherever the parser was.           *)
ReadTimesOut ==
  /\ Reading
  /\ ~clientGone
  /\ parse' = "data"
  /\ stalled' = (stalled \/ parse # "data")
  /\ UNCHANGED <<config, world, client, conn, sshVars, late, line, confused>>

(* Mutant: the end of the stream is taken for a timeout.                   *)
ReadEndsRetried ==
  /\ Reading
  /\ clientGone /\ coming = <<>>
  /\ parse' = "data"
  /\ UNCHANGED <<config, world, client, conn, sshVars, late, line, verdictOnClient>>

(* The end of the stream, or an error, returns the line as far as it came. *)
ReadEnds ==
  /\ Reading
  /\ clientGone /\ coming = <<>>
  /\ LineRead(FALSE, TRUE)
  /\ UNCHANGED <<config, world, client, sshVars, late, heard, verdictOnClient>>

-----------------------------------------------------------------------------
(* The finally block.                                                      *)

FinallyClear ==
  /\ conn = "finally"
  /\ conn' = "close"
  /\ UNCHANGED <<config, world, client, sshVars, parse, late, line, verdictOnClient>>

FinallyClose ==
  /\ conn = "close"
  /\ conn' = "closed"
  /\ UNCHANGED <<config, world, client, sshVars, parse, late, line, verdictOnClient>>

-----------------------------------------------------------------------------
Environment ==
  \/ \E b \in Data : ClientTypes(b)
  \/ ClientTypes255 \/ ClientCommands
  \/ \E verb \in Verb, option \in Option : ClientNegotiates(verb, option)
  \/ ClientDisconnect \/ TransportDies \/ ServerStop
  \/ CheckAuthNone \/ CheckAuthPublickey \/ CheckAuthPassword
  \/ CheckAuthInteractive \/ CheckAuthInteractiveResponse

ConnectionThread ==
  \/ StartServer \/ AcceptLoop \/ AcceptTimesOut \/ AcceptGivesUp \/ AcceptChannel
  \/ SendOffer \/ SendBanner \/ SendUserPrompt \/ SendPassPrompt \/ CloseLogin
  \/ SendRefusal
  \/ RecvCommand \/ RecvOption \/ DrainTest \/ DropByte \/ DrainEnds
  \/ ReadByte \/ ReadTimesOut \/ ReadEnds
  \/ FinallyClear \/ FinallyClose

(* The session has begun, or the connection is over.                       *)
Over == conn \in {"session", "closed"}
Rest == Over /\ UNCHANGED vars

Next == Environment \/ ConnectionThread \/ DeadlinePasses \/ Rest

Spec == Init /\ [][Next]_vars

(* The thread runs, clocks advance, and paramiko notices in the end that   *)
(* its peer is gone.  Nothing else is assumed of the client.               *)
Fairness == /\ WF_vars(ConnectionThread)
            /\ WF_vars(DeadlinePasses)
            /\ WF_vars(clientGone /\ TransportDies)

FairSpec == Spec /\ Fairness

-----------------------------------------------------------------------------
(* The protocol layer is transparent: whatever commands the client mixes   *)
(* into what it types, the byte it meant gets through and no byte of a     *)
(* command does, and each request gets the answer that is due and nothing  *)
(* else gets one, so that no negotiation goes round in circles.  Not so    *)
(* after a timeout inside a command, which loses the parser's place        *)
(* (telnet_server.py:140, :148, :154).                                     *)
Transparent ==
  ~stalled =>
    /\ ~confused
    /\ coming = <<>> /\ ~clientGone /\ (Draining \/ Reading) =>
         meant = NoByte /\ due = Nothing /\ parse \in {"idle", "data"}

(* The lines of what was typed into the login, by a definition that knows  *)
(* nothing of read_line: CR or LF ends a line, except LF (Telnet: or NUL)  *)
(* right after CR, which is no byte of any line.                           *)
Seconds == IF Telnet THEN {"lf", "nul"} ELSE {"lf"}

Half(h, i, seconds) == i > 1 /\ h[i - 1] = "cr" /\ h[i] \in seconds

LineEnds(h, seconds) == {i \in DOMAIN h : h[i] \in {"cr", "lf"} /\ ~Half(h, i, seconds)}

LineBytes(h, k, seconds) ==
  {i \in DOMAIN h : /\ i \notin LineEnds(h, seconds) /\ ~Half(h, i, seconds)
                    /\ Rank(LineEnds(h, seconds), i) = k - 1}

(* The kth line of h is this word, as far as it has come.                  *)
Typed(h, k, word, seconds) ==
  LET places == LineBytes(h, k, seconds)
  IN  /\ Cardinality(places) = Len(word)
      /\ \A i \in places : h[i] = word[Rank(places, i)]

(* A session starts exactly for a client that has shown what the           *)
(* configuration asks for: on Telnet, and after the method "none", by      *)
(* typing the two lines; otherwise by a method that is configured and      *)
(* advertised, under the configured name.                                  *)
TypedCredentials == Typed(heard, 1, Username, Seconds) /\ Typed(heard, 2, Password, Seconds)

CredentialsDecide ==
  /\ conn = "session" =>
       IF Telnet \/ auth = "none"
       THEN TypedCredentials
       ELSE /\ shown.method = auth /\ shown.secret = "right"
            /\ shown.name = Username \/ SubSeq(shown.name, 1, Len(Username) + 1)
                                          = Append(Username, "+")
  /\ conn = "refuse" => ~TypedCredentials
  /\ auth # "no" => auth \in GetAllowedAuths

(* A connection whose client has gone is over in the end, wherever it was: *)
(* in the drain, in a line, in the wait for a channel.                     *)
LoginEnds == clientGone ~> Over

(* A drain ends, whatever the client types at it, if the client does not   *)
(* send commands for ever (telnet_server.py:51: "a continuous pure-IAC     *)
(* stream is still consumed inside _recv_byte() without deadline checks"). *)
Commands == \/ ClientCommands
            \/ \E verb \in Verb, option \in Option : ClientNegotiates(verb, option)
Quiet == <>[][~Commands]_vars
DrainIsBounded == Quiet => (Draining ~> ~Draining)

-----------------------------------------------------------------------------
(* What Session calls the login, for the transport of this connection.     *)

inSession   == conn = "session"
run_srv     == conn \notin {"close", "closed"}
thread      == IF inSession THEN "loop" ELSE "new"
lastByte    == CASE ~inSession            -> <<>>
                 [] inSession /\ skip_lf  -> <<"cr">>
                 [] inSession /\ ~skip_lf -> <<"lf">>
sessionConn == CASE conn \in Dialogue                                  -> "login"
                 [] conn = "handshake"                                 -> "accept"
                 [] inSession                                          -> "intro"
                 [] conn \in {"accept", "accepting", "finally", "close", "closed"}
                                                                       -> conn

OverTelnet ==
  INSTANCE Session WITH
    Kind <- "telnet", ExitOverridden <- FALSE, Bytes <- {}, MaxBytes <- 0, MaxOut <- 0,
    OutKinds <- {}, MaxRepeats <- 0, inbox <- <<>>, run_srv <- run_srv, replied <- FALSE,
    stdin <- <<>>, stdout <- <<>>, conn <- sessionConn, left <- 0, cpc <- thread,
    cbyte <- "lf", cbuf <- "empty", skip_lf <- inSession /\ skip_lf, spc <- thread,
    batch <- <<>>, wpc <- thread, heard <- lastByte, inlog <- <<>>, ran <- <<>>,
    outlog <- <<>>, sent <- <<>>, wire <- <<>>, cuts <- {}

OverSsh ==
  INSTANCE Session WITH
    Kind <- "ssh", ExitOverridden <- FALSE, Bytes <- {}, MaxBytes <- 0, MaxOut <- 0,
    OutKinds <- {}, MaxRepeats <- 0, inbox <- <<>>, run_srv <- run_srv, replied <- FALSE,
    stdin <- <<>>, stdout <- <<>>, conn <- sessionConn, left <- 0, cpc <- thread,
    cbyte <- "lf", cbuf <- "empty", skip_lf <- inSession /\ skip_lf, spc <- thread,
    batch <- <<>>, wpc <- thread, heard <- lastByte, inlog <- <<>>, ran <- <<>>,
    outlog <- <<>>, sent <- <<>>, wire <- <<>>, cuts <- {}

(* The dialogue does what Session leaves open between the accepted         *)
(* connection and the first line of the shell, and nothing else: each of   *)
(* its steps is one of Session's login steps or none that Session sees.    *)
ImplementsSession ==
  /\ Telnet  => OverTelnet!Init
  /\ ~Telnet => OverSsh!Init
  /\ [][IF Telnet THEN OverTelnet!Next \/ UNCHANGED OverTelnet!vars
                  ELSE OverSsh!Next \/ UNCHANGED OverSsh!vars]_vars
=============================================================================
