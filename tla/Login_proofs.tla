---------------------------- MODULE Login_proofs ----------------------------
(***************************************************************************)
(* Theorems about module Login.                                            *)
(***************************************************************************)
EXTENDS Login, SequenceFacts

-----------------------------------------------------------------------------
(* Types.  Two lines are read at most, because a line is only read where   *)
(* the one before is the last of them.                                     *)

Early == {"offer", "drain", "banner", "userPrompt", "user", "handshake", "accept", "accepting"}

LinesRead ==
  /\ conn \in Early => entered = <<>> /\ ~skip_lf
  /\ conn \in {"passPrompt", "pass"} => Len(entered) = 1

TypeInv == TypeOK /\ LinesRead

LEMMA ByteFacts ==
  /\ Data \subseteq Byte /\ Verb \subseteq Byte /\ Option \subseteq Byte
  /\ Data \cap ({"IAC", "SB", "SE", "NOP"} \cup Verb) = {}
  /\ {"IAC", "SB", "SE", "NOP", "naws"} \subseteq Byte
  BY CharAssumption DEF Byte, Data, Verb, Option

LEMMA DueTyped ==
  ASSUME NEW verb \in Verb, NEW option \in Option
  PROVE  Due(verb, option) \in ({"wont", "do", "dont"} \X Byte) \cup {Nothing}
  BY ByteFacts DEF Due

(* A part whose variables stand still stands still.                        *)
LEMMA WorldStands ==
  ASSUME WorldTypeOK, UNCHANGED <<config, world>> PROVE WorldTypeOK'
  BY DEF WorldTypeOK, config, world

LEMMA AuthStands ==
  ASSUME AuthTypeOK, UNCHANGED sshVars PROVE AuthTypeOK'
  BY DEF AuthTypeOK, sshVars

LEMMA LineStands ==
  ASSUME LineTypeOK, UNCHANGED line PROVE LineTypeOK'
  BY DEF LineTypeOK, line

LEMMA ClientStands ==
  ASSUME ClientTypeOK, UNCHANGED <<client, verdictOnClient>> PROVE ClientTypeOK'
  BY DEF ClientTypeOK, client, verdictOnClient

LEMMA EmptyTyped == <<>> \in Seq(Byte) /\ <<>> \in Seq(Seq(Byte)) /\ Len(<<>>) <= 2
  OBVIOUS

LEMMA TypeStarts == Init => TypeInv
  <1> SUFFICES ASSUME Init PROVE TypeInv
    OBVIOUS
  <1>1. WorldTypeOK
    BY DEF Init, WorldTypeOK
  <1>2. PlaceTypeOK
    BY DEF Init, PlaceTypeOK, Dialogue
  <1>3. AuthTypeOK
    BY DEF Init, AuthTypeOK, None
  <1>4. LineTypeOK /\ ClientTypeOK
    BY EmptyTyped DEF Init, LineTypeOK, ClientTypeOK
  <1>5. LinesRead
    BY DEF Init, LinesRead
  <1> QED BY <1>1, <1>2, <1>3, <1>4, <1>5 DEF TypeInv, TypeOK

(* The client's units are sequences of bytes.                              *)
LEMMA TypeSends ==
  ASSUME TypeInv,
         \/ \E b \in Data : ClientTypes(b)
         \/ ClientTypes255 \/ ClientCommands
         \/ \E verb \in Verb, option \in Option : ClientNegotiates(verb, option)
  PROVE  TypeInv'
  <1>1. /\ coming' \in Seq(Byte) /\ meant' \in Byte \cup {NoByte}
        /\ due' \in ({"wont", "do", "dont"} \X Byte) \cup {Nothing}
        /\ UNCHANGED <<config, world, conn, sshVars, parse, late, line, verdictOnClient>>
    <2>1. ASSUME NEW b \in Data, ClientTypes(b)
          PROVE  coming' = <<b>> /\ meant' = b /\ due' = Nothing
                 /\ UNCHANGED <<config, world, conn, sshVars, parse, late, line, verdictOnClient>>
      BY <2>1 DEF ClientTypes, Sends
    <2>2. CASE ClientTypes255
      BY <2>2, ByteFacts DEF ClientTypes255, Sends
    <2>3. CASE ClientCommands
      <3>1. /\ coming' \in {<<"IAC", "NOP">>,
                            <<"IAC", "SB", "naws", "IAC", "IAC", "SE", "IAC", "SE">>}
            /\ meant' = NoByte /\ due' = Nothing
            /\ UNCHANGED <<config, world, conn, sshVars, parse, late, line, verdictOnClient>>
        BY <2>3 DEF ClientCommands, Sends
      <3>2. /\ <<"IAC", "NOP">> \in Seq(Byte)
            /\ <<"IAC", "SB", "naws", "IAC", "IAC", "SE", "IAC", "SE">> \in Seq(Byte)
        BY ByteFacts
      <3> QED BY <3>1, <3>2
    <2>4. ASSUME NEW verb \in Verb, NEW option \in Option, ClientNegotiates(verb, option)
          PROVE  coming' = <<"IAC", verb, option>> /\ meant' = NoByte /\ due' = Due(verb, option)
                 /\ UNCHANGED <<config, world, conn, sshVars, parse, late, line, verdictOnClient>>
      BY <2>4 DEF ClientNegotiates, Sends
    <2>5. ASSUME NEW verb \in Verb, NEW option \in Option
          PROVE  <<"IAC", verb, option>> \in Seq(Byte)
      BY ByteFacts
    <2>6. ASSUME NEW b \in Data
          PROVE  <<b>> \in Seq(Byte) /\ b \in Byte
      BY ByteFacts
    <2> QED BY <2>1, <2>2, <2>3, <2>4, <2>5, <2>6, DueTyped
  <1>2. ClientTypeOK'
    BY <1>1 DEF TypeInv, TypeOK, ClientTypeOK, verdictOnClient
  <1>3. PlaceTypeOK' /\ LinesRead'
    BY <1>1 DEF TypeInv, TypeOK, PlaceTypeOK, LinesRead, line
  <1> QED BY <1>1, <1>2, <1>3, WorldStands, AuthStands, LineStands DEF TypeInv, TypeOK

LEMMA TypeWorld ==
  ASSUME TypeInv, ClientDisconnect \/ TransportDies \/ ServerStop
  PROVE  TypeInv'
  <1>1. coming' = coming \/ coming' = <<>>
    BY DEF ClientDisconnect, TransportDies, ServerStop, client
  <1>2. /\ is_running' \in BOOLEAN /\ clientGone' \in BOOLEAN /\ alive' \in BOOLEAN
        /\ UNCHANGED <<config, conn, sshVars, parse, late, line, meant, due, verdictOnClient>>
    BY DEF TypeInv, TypeOK, WorldTypeOK, ClientDisconnect, TransportDies, ServerStop, client
  <1>3. ClientTypeOK'
    BY <1>1, <1>2, EmptyTyped DEF TypeInv, TypeOK, ClientTypeOK, verdictOnClient
  <1>4. WorldTypeOK'
    BY <1>2 DEF TypeInv, TypeOK, WorldTypeOK, config
  <1>5. PlaceTypeOK' /\ LinesRead'
    BY <1>2 DEF TypeInv, TypeOK, PlaceTypeOK, LinesRead, line
  <1> QED BY <1>2, <1>3, <1>4, <1>5, AuthStands, LineStands DEF TypeInv, TypeOK

AuthenticationStep ==
  \/ CheckAuthNone \/ CheckAuthPublickey \/ CheckAuthPassword
  \/ CheckAuthInteractive \/ CheckAuthInteractiveResponse

LEMMA TypeAuthentication ==
  ASSUME TypeInv, AuthenticationStep
  PROVE  TypeInv'
  <1> DEFINE Unmoved == UNCHANGED <<config, world, client, conn, parse, late, line, verdictOnClient>>
  <1>1. ASSUME NEW method \in Method, NEW name \in Names \cup {<<>>},
               NEW secret \in {"right", "wrong"}, NEW accepted,
               Attempt(method, name, secret, accepted)
        PROVE  AuthTypeOK' /\ Unmoved
    BY <1>1 DEF Attempt, AuthTypeOK
  <1>2. AuthTypeOK' /\ Unmoved
    <2>1. CASE CheckAuthNone
      BY <1>1, <2>1 DEF CheckAuthNone, Method
    <2>2. CASE CheckAuthPublickey
      BY <1>1, <2>2 DEF CheckAuthPublickey, Method
    <2>3. CASE CheckAuthPassword
      BY <1>1, <2>3 DEF CheckAuthPassword, Method
    <2>4. CASE CheckAuthInteractive
      <3>1. PICK name \in Names :
              /\ shown' = [method |-> "keyboard-interactive", name |-> name, secret |-> "wrong"]
              /\ asked' = MatchUsername(name)
        BY <2>4 DEF CheckAuthInteractive
      <3>2. asked' \in BOOLEAN
        BY <3>1 DEF MatchUsername
      <3> QED BY <2>4, <3>1, <3>2 DEF CheckAuthInteractive, AuthTypeOK, TypeInv, TypeOK, Method
    <2>5. CASE CheckAuthInteractiveResponse
      <3>1. shown.name \in Names \cup {<<>>}
        BY DEF TypeInv, TypeOK, AuthTypeOK
      <3> QED BY <1>1, <2>5, <3>1 DEF CheckAuthInteractiveResponse, Method
    <2> QED BY <2>1, <2>2, <2>3, <2>4, <2>5 DEF AuthenticationStep
  <1>3. PlaceTypeOK' /\ LinesRead'
    BY <1>2 DEF TypeInv, TypeOK, PlaceTypeOK, LinesRead, line
  <1> QED BY <1>2, <1>3, WorldStands, LineStands, ClientStands DEF TypeInv, TypeOK

ChannelStep ==
  \/ StartServer \/ AcceptLoop \/ AcceptTimesOut \/ AcceptGivesUp \/ AcceptChannel
  \/ FinallyClear \/ FinallyClose

LEMMA ChannelFacts ==
  ASSUME ChannelStep
  PROVE  /\ UNCHANGED <<config, world, client, sshVars, parse, late, line, verdictOnClient>>
         /\ conn \notin Dialogue \cup {"session", "closed"}
         /\ conn' \in {"accept", "accepting", "finally", "close", "closed", "session", "userPrompt"}
         /\ conn' \in Early => conn \in Early
  BY DEF ChannelStep, StartServer, AcceptLoop, AcceptTimesOut, AcceptGivesUp, AcceptChannel,
         FinallyClear, FinallyClose, Early, Dialogue

LEMMA TypeChannel ==
  ASSUME TypeInv, ChannelStep
  PROVE  TypeInv'
  <1>1. PlaceTypeOK'
    BY ChannelFacts DEF TypeInv, TypeOK, PlaceTypeOK, Dialogue
  <1>2. LinesRead'
    BY ChannelFacts DEF TypeInv, LinesRead, line
  <1> QED BY <1>1, <1>2, ChannelFacts, WorldStands, AuthStands, LineStands, ClientStands
          DEF TypeInv, TypeOK

SendStep == \/ SendOffer \/ SendBanner \/ SendUserPrompt \/ SendPassPrompt \/ CloseLogin
            \/ SendRefusal

(* The places a send leads to, with the lines read or none.                *)
LEMMA SendFacts ==
  ASSUME SendStep
  PROVE  /\ UNCHANGED <<config, world, client, sshVars, verdictOnClient>>
         /\ late' = FALSE
         /\ parse' = IF conn' \in {"user", "pass"} THEN "data" ELSE "idle"
         /\ \/ /\ conn' \in {"discard", "finally"}
               /\ Forget
            \/ /\ <<conn, conn'>> \in {<<"offer", "drain">>, <<"banner", "userPrompt">>,
                                       <<"userPrompt", "user">>, <<"passPrompt", "pass">>,
                                       <<"verdict", "session">>, <<"verdict", "refuse">>}
               /\ UNCHANGED line
         /\ conn \in Dialogue \ {"drain", "discard", "user", "pass"}
  <1>1. CASE SendOffer
    BY <1>1 DEF SendOffer, Send, Dialogue
  <1>2. CASE SendBanner
    BY <1>2 DEF SendBanner, Send, Dialogue
  <1>3. CASE SendUserPrompt
    BY <1>3 DEF SendUserPrompt, Send, Abandon, Dialogue
  <1>4. CASE SendPassPrompt
    BY <1>4 DEF SendPassPrompt, Send, Abandon, Dialogue
  <1>5. CASE CloseLogin
    BY <1>5 DEF CloseLogin, Send, Abandon, Dialogue
  <1>6. CASE SendRefusal
    BY <1>6 DEF SendRefusal, Send, Dialogue
  <1> QED BY <1>1, <1>2, <1>3, <1>4, <1>5, <1>6 DEF SendStep

LEMMA TypeSend ==
  ASSUME TypeInv, SendStep
  PROVE  TypeInv'
  <1>1. PlaceTypeOK'
    BY SendFacts DEF PlaceTypeOK, Dialogue
  <1>2. LineTypeOK'
    <2>1. CASE Forget
      BY <2>1, EmptyTyped DEF Forget, LineTypeOK
    <2>2. CASE UNCHANGED line
      BY <2>2, LineStands DEF TypeInv, TypeOK
    <2> QED BY SendFacts, <2>1, <2>2
  <1>3. LinesRead'
    <2>1. CASE conn' \in {"discard", "finally"}
      BY <2>1 DEF LinesRead, Early
    <2>2. CASE conn' \notin {"discard", "finally"}
      <3>1. /\ UNCHANGED <<entered, skip_lf>>
            /\ <<conn, conn'>> \in {<<"offer", "drain">>, <<"banner", "userPrompt">>,
                                    <<"userPrompt", "user">>, <<"passPrompt", "pass">>,
                                    <<"verdict", "session">>, <<"verdict", "refuse">>}
        BY <2>2, SendFacts DEF line
      <3> QED BY <3>1 DEF TypeInv, LinesRead, Early
    <2> QED BY <2>1, <2>2
  <1> QED BY <1>1, <1>2, <1>3, SendFacts, WorldStands, AuthStands, ClientStands DEF TypeInv, TypeOK

(* The protocol layer and the drain.                                       *)
ProtocolStep == \/ RecvCommand \/ RecvOption \/ DeadlinePasses \/ DrainTest \/ DropByte
                \/ DrainEnds

LEMMA Received ==
  ASSUME ClientTypeOK, Receives
  PROVE  /\ Head(coming) \in Byte /\ coming' = Tail(coming) /\ coming' \in Seq(Byte)
  BY HeadTailProperties DEF ClientTypeOK, Receives

LEMMA TypeProtocol ==
  ASSUME TypeInv, ProtocolStep
  PROVE  TypeInv'
  <1> USE DEF TypeInv, TypeOK
  <1>1. UNCHANGED <<config, world, sshVars, line>>
    BY DEF ProtocolStep, RecvCommand, RecvOption, DeadlinePasses, DrainTest, DropByte, DrainEnds
  <1>2. conn' = conn \/ (conn = "drain" /\ conn' = "banner") \/ conn' = "finally"
    BY DEF ProtocolStep, RecvCommand, RecvOption, DeadlinePasses, DrainTest, DropByte, DrainEnds,
           AfterDrain, Draining
  <1>3. PlaceTypeOK'
    <2>1. parse' \in Verb \cup {"idle", "data", "iac", "sb", "sbiac"} /\ late' \in BOOLEAN
      <3>1. CASE RecvCommand
        BY <3>1 DEF RecvCommand, Receives, NextParse, PlaceTypeOK
      <3>2. CASE ~RecvCommand
        BY <3>2 DEF ProtocolStep, RecvOption, DeadlinePasses, DrainTest, DropByte, DrainEnds,
                    PlaceTypeOK
      <3> QED BY <3>1, <3>2
    <2> QED BY <1>2, <2>1 DEF PlaceTypeOK, Dialogue
  <1>4. ClientTypeOK'
    <2>1. CASE RecvCommand
      BY <2>1, Received DEF RecvCommand, ClientTypeOK, verdictOnClient
    <2>2. CASE RecvOption
      <3>1. /\ due' = due \/ due' = Nothing
            /\ confused' \in BOOLEAN /\ UNCHANGED <<meant, stalled>>
        BY <2>2 DEF RecvOption, ClientGets, ClientTypeOK, verdictOnClient
      <3>2. coming' \in Seq(Byte)
        BY <2>2, Received DEF RecvOption
      <3> QED BY <3>1, <3>2 DEF ClientTypeOK
    <2>3. CASE DropByte
      BY <2>3, Received DEF DropByte, Takes, ClientTypeOK
    <2>4. CASE DeadlinePasses \/ DrainTest
      BY <2>4, ClientStands DEF DeadlinePasses, DrainTest
    <2>5. CASE DrainEnds
      BY <2>5 DEF DrainEnds, ClientTypeOK, client
    <2> QED BY <2>1, <2>2, <2>3, <2>4, <2>5 DEF ProtocolStep
  <1>5. LinesRead'
    BY <1>1, <1>2 DEF LinesRead, Early, line
  <1> QED BY <1>1, <1>3, <1>4, <1>5, WorldStands, AuthStands, LineStands

(* read_line.                                                              *)
ReadStep == ReadByte \/ ReadTimesOut \/ ReadEnds

LEMMA LineReadFacts ==
  ASSUME LineTypeOK, LinesRead, Reading,
         NEW next_skip_lf \in BOOLEAN, NEW cutOff \in BOOLEAN, LineRead(next_skip_lf, cutOff),
         heard' \in Seq(Byte)
  PROVE  /\ LineTypeOK' /\ LinesRead'
         /\ conn' \in {"passPrompt", "verdict"} /\ parse' = "idle"
  <1>1. Len(entered) = IF conn = "user" THEN 0 ELSE 1
    BY DEF Reading, LinesRead, Early
  <1>2. entered' = Append(entered, buf) /\ entered \in Seq(Seq(Byte)) /\ buf \in Seq(Byte)
    BY DEF LineRead, LineTypeOK
  <1>3. entered' \in Seq(Seq(Byte)) /\ Len(entered') = Len(entered) + 1
    BY <1>2, AppendProperties
  <1>4. LineTypeOK'
    BY <1>1, <1>3, EmptyTyped DEF LineRead, LineTypeOK
  <1>5. LinesRead'
    BY <1>1, <1>3 DEF LineRead, LinesRead, Early, Reading
  <1> QED BY <1>4, <1>5 DEF LineRead

LEMMA LineByteFacts ==
  ASSUME LineTypeOK, LinesRead, Reading, NEW b \in Byte, LineByte(b)
  PROVE  /\ LineTypeOK' /\ LinesRead'
         /\ conn' \in {"user", "pass", "passPrompt", "verdict", "discard", "finally"}
         /\ parse' \in {"idle", "data"}
  <1>1. Append(heard, b) \in Seq(Byte) /\ Append(buf, b) \in Seq(Byte)
    BY AppendProperties DEF LineTypeOK
  <1>2. CASE /\ Skipped(b)
             /\ heard' = Append(heard, b)
             /\ skip_lf' = FALSE
             /\ parse' = "data"
             /\ UNCHANGED <<conn, buf, entered, cut>>
    BY <1>1, <1>2 DEF LineTypeOK, LinesRead, Reading
  <1>3. CASE heard' = Append(heard, b) /\ LineRead(b = "cr", FALSE)
    BY <1>1, <1>3, LineReadFacts
  <1>4. CASE /\ heard' = Append(heard, b)
             /\ buf' = Append(buf, b) /\ skip_lf' = FALSE
             /\ parse' = "data"
             /\ UNCHANGED <<conn, entered, cut>>
    BY <1>1, <1>4 DEF LineTypeOK, LinesRead, Reading
  <1>5. CASE EchoFails
    <2>1. LineTypeOK'
      BY <1>5, EmptyTyped DEF EchoFails, Forget, LineTypeOK
    <2> QED BY <1>5, <2>1 DEF EchoFails, Abandon, LinesRead, Early
  <1> QED BY <1>2, <1>3, <1>4, <1>5 DEF LineByte

LEMMA TypeRead ==
  ASSUME TypeInv, ReadStep
  PROVE  TypeInv'
  <1> USE DEF TypeInv, TypeOK
  <1>1. Reading /\ UNCHANGED <<config, world, sshVars>>
    BY DEF ReadStep, ReadByte, ReadTimesOut, ReadEnds
  <1>2. CASE ReadByte
    <2>1. Head(coming) \in Byte /\ coming' \in Seq(Byte)
      BY <1>2, Received DEF ReadByte
    <2>2. /\ LineTypeOK' /\ LinesRead'
          /\ conn' \in {"user", "pass", "passPrompt", "verdict", "discard", "finally"}
          /\ parse' \in {"idle", "data"}
      BY <1>1, <1>2, <2>1, LineByteFacts DEF ReadByte
    <2>3. PlaceTypeOK'
      BY <1>2, <2>2 DEF ReadByte, PlaceTypeOK, Dialogue
    <2>4. ClientTypeOK'
      BY <1>2, <2>1 DEF ReadByte, Takes, ClientTypeOK
    <2> QED BY <1>1, <2>2, <2>3, <2>4, WorldStands, AuthStands
  <1>3. CASE ReadTimesOut
    <2>1. PlaceTypeOK' /\ ClientTypeOK' /\ LinesRead'
      BY <1>3 DEF ReadTimesOut, PlaceTypeOK, ClientTypeOK, LinesRead, client, line
    <2> QED BY <1>1, <1>3, <2>1, WorldStands, AuthStands, LineStands DEF ReadTimesOut
  <1>4. CASE ReadEnds
    <2>1. heard' \in Seq(Byte) /\ LineRead(FALSE, TRUE)
      BY <1>4 DEF ReadEnds, LineTypeOK
    <2>2. /\ LineTypeOK' /\ LinesRead'
          /\ conn' \in {"passPrompt", "verdict"} /\ parse' = "idle"
      BY <1>1, <2>1, LineReadFacts
    <2>3. PlaceTypeOK' /\ UNCHANGED <<client, verdictOnClient>>
      BY <1>4, <2>2 DEF ReadEnds, PlaceTypeOK, Dialogue
    <2> QED BY <1>1, <2>2, <2>3, WorldStands, AuthStands, ClientStands
  <1> QED BY <1>2, <1>3, <1>4 DEF ReadStep

LEMMA TypeKept ==
  ASSUME TypeInv, [Next]_vars
  PROVE  TypeInv'
  <1>1. CASE Environment
    BY <1>1, TypeSends, TypeWorld, TypeAuthentication DEF Environment, AuthenticationStep
  <1>2. CASE ConnectionThread
    BY <1>2, TypeChannel, TypeSend, TypeProtocol, TypeRead
       DEF ConnectionThread, ChannelStep, SendStep, ProtocolStep, ReadStep
  <1>3. CASE DeadlinePasses
    BY <1>3, TypeProtocol DEF ProtocolStep
  <1>4. CASE UNCHANGED vars
    <2>1. PlaceTypeOK' /\ LinesRead'
      BY <1>4 DEF vars, TypeInv, TypeOK, PlaceTypeOK, LinesRead, line
    <2> QED BY <1>4, <2>1, WorldStands, AuthStands, LineStands, ClientStands
            DEF vars, client, TypeInv, TypeOK
  <1> QED BY <1>1, <1>2, <1>3, <1>4 DEF Next, Rest

LEMMA TypeInvariant == Spec => []TypeInv
  BY TypeStarts, TypeKept, PTL DEF Spec

(* Every variable keeps its type, for any credentials, any names and       *)
(* however much is typed.                                                  *)
THEOREM TypeCorrect == Spec => []TypeOK
  <1>1. TypeInv => TypeOK
    BY DEF TypeInv
  <1> QED BY <1>1, TypeInvariant, PTL

-----------------------------------------------------------------------------
(* Transparency.  By the place the parser is at, what is still to come of  *)
(* the client's latest unit, with what it meant and the answer that is     *)
(* due.                                                                    *)

Meant(byte, answer) == meant = byte /\ due = answer

WholeUnit ==
  \/ coming = <<>> /\ Meant(NoByte, Nothing)
  \/ \E b \in Data : coming = <<b>> /\ Meant(b, Nothing)
  \/ Telnet /\ coming = <<"IAC", "IAC">> /\ Meant("IAC", Nothing)
  \/ Telnet /\ \E verb \in Verb, option \in Option :
                 coming = <<"IAC", verb, option>> /\ Meant(NoByte, Due(verb, option))
  \/ Telnet /\ coming = <<"IAC", "NOP">> /\ Meant(NoByte, Nothing)
  \/ /\ Telnet /\ Meant(NoByte, Nothing)
     /\ coming = <<"IAC", "SB", "naws", "IAC", "IAC", "SE", "IAC", "SE">>

AfterIAC ==
  /\ Telnet
  /\ \/ coming = <<"IAC">> /\ Meant("IAC", Nothing)
     \/ \E verb \in Verb, option \in Option :
          coming = <<verb, option>> /\ Meant(NoByte, Due(verb, option))
     \/ coming = <<"NOP">> /\ Meant(NoByte, Nothing)
     \/ coming = <<"SB", "naws", "IAC", "IAC", "SE", "IAC", "SE">> /\ Meant(NoByte, Nothing)

AfterVerb ==
  Telnet /\ \E option \in Option : coming = <<option>> /\ Meant(NoByte, Due(parse, option))

AfterSB ==
  /\ Telnet /\ Meant(NoByte, Nothing)
  /\ coming \in {<<"naws", "IAC", "IAC", "SE", "IAC", "SE">>, <<"IAC", "IAC", "SE", "IAC", "SE">>,
                 <<"SE", "IAC", "SE">>, <<"IAC", "SE">>}

AfterSBIAC ==
  /\ Telnet /\ Meant(NoByte, Nothing)
  /\ coming \in {<<"IAC", "SE", "IAC", "SE">>, <<"SE">>}

Intact ==
  /\ parse \in {"idle", "data"} => WholeUnit
  /\ parse = "iac" => AfterIAC
  /\ parse \in Verb => AfterVerb
  /\ parse = "sb" => AfterSB
  /\ parse = "sbiac" => AfterSBIAC

(* Nothing comes any more after the client has gone and the rest is lost.  *)
Cut == clientGone /\ coming = <<>>

TransparentInv ==
  /\ ~Draining /\ ~Reading => parse = "idle"
  /\ ~stalled => ~confused /\ (Cut \/ Intact)

LEMMA TransparentStarts == Init => TransparentInv
  BY DEF Init, TransparentInv, Intact, WholeUnit, Meant, Verb

(* A unit begins where the parser is between units.                        *)
LEMMA SendsTransparent ==
  ASSUME TypeInv, TransparentInv,
         \/ \E b \in Data : ClientTypes(b)
         \/ ClientTypes255 \/ ClientCommands
         \/ \E verb \in Verb, option \in Option : ClientNegotiates(verb, option)
  PROVE  TransparentInv'
  <1>1. /\ ~clientGone /\ coming = <<>>
        /\ UNCHANGED <<config, world, conn, parse, verdictOnClient>>
    BY DEF ClientTypes, ClientTypes255, ClientCommands, ClientNegotiates, Sends
  <1>2. ~stalled => parse \in {"idle", "data"}
    <2> SUFFICES ASSUME ~stalled PROVE parse \in {"idle", "data"}
      OBVIOUS
    <2>1. Intact
      BY <1>1 DEF TransparentInv, Cut
    <2>2. ~AfterIAC /\ ~AfterVerb /\ ~AfterSB /\ ~AfterSBIAC
      BY <1>1 DEF AfterIAC, AfterVerb, AfterSB, AfterSBIAC
    <2> QED BY <2>1, <2>2 DEF Intact, TypeInv, TypeOK, PlaceTypeOK
  <1>3. WholeUnit'
    <2>1. ASSUME NEW b \in Data, ClientTypes(b) PROVE WholeUnit'
      BY <2>1 DEF ClientTypes, Sends, WholeUnit, Meant
    <2>2. CASE ClientTypes255
      BY <2>2 DEF ClientTypes255, Sends, WholeUnit, Meant, Telnet, config
    <2>3. CASE ClientCommands
      BY <2>3 DEF ClientCommands, Sends, WholeUnit, Meant, Telnet, config
    <2>4. ASSUME NEW verb \in Verb, NEW option \in Option, ClientNegotiates(verb, option)
          PROVE  WholeUnit'
      BY <2>4 DEF ClientNegotiates, Sends, WholeUnit, Meant, Telnet, config
    <2> QED BY <2>1, <2>2, <2>3, <2>4
  <1>4. ~stalled => Intact'
    BY <1>1, <1>2, <1>3 DEF Intact, Verb
  <1> QED BY <1>1, <1>4 DEF TransparentInv, Draining, Reading, verdictOnClient

LEMMA OthersTransparent ==
  ASSUME TypeInv, TransparentInv,
         ClientDisconnect \/ TransportDies \/ ServerStop \/ AuthenticationStep
         \/ DeadlinePasses \/ UNCHANGED vars
  PROVE  TransparentInv'
  <1>1. UNCHANGED <<config, conn, parse, meant, due, verdictOnClient>>
    BY DEF ClientDisconnect, TransportDies, ServerStop, AuthenticationStep, Attempt, CheckAuthNone,
           CheckAuthPublickey, CheckAuthPassword, CheckAuthInteractive,
           CheckAuthInteractiveResponse, DeadlinePasses, client, vars
  <1>2. \/ Cut'
        \/ UNCHANGED <<coming, clientGone>>
        \/ UNCHANGED coming /\ clientGone'
    BY DEF ClientDisconnect, TransportDies, ServerStop, AuthenticationStep, Attempt, CheckAuthNone,
           CheckAuthPublickey, CheckAuthPassword, CheckAuthInteractive,
           CheckAuthInteractiveResponse, DeadlinePasses, client, vars, world, Cut
  <1>3. UNCHANGED coming /\ Intact => Intact'
    BY <1>1 DEF Intact, WholeUnit, AfterIAC, AfterVerb, AfterSB, AfterSBIAC, Meant, Telnet, config
  <1>4. Cut => Cut'
    BY <1>2 DEF Cut
  <1> QED BY <1>1, <1>2, <1>3, <1>4 DEF TransparentInv, Draining, Reading, verdictOnClient, Cut

LEMMA PlacesTransparent ==
  ASSUME TypeInv, TransparentInv, ChannelStep \/ SendStep
  PROVE  TransparentInv'
  <1>1. /\ UNCHANGED <<config, world, client, verdictOnClient>>
        /\ ~Draining /\ ~Reading
        /\ parse' \in {"idle", "data"}
        /\ conn' \notin {"user", "pass"} => parse' = "idle"
    <2>1. CASE ChannelStep
      BY <2>1, ChannelFacts DEF Draining, Reading, Dialogue, TransparentInv
    <2>2. CASE SendStep
      BY <2>2, SendFacts DEF Draining, Reading, Dialogue
    <2> QED BY <2>1, <2>2
  <1>2. parse = "idle"
    BY <1>1 DEF TransparentInv
  <1>3. Intact => Intact'
    BY <1>1, <1>2 DEF Intact, WholeUnit, Meant, Telnet, config, client, Verb
  <1>4. Cut => Cut'
    BY <1>1 DEF Cut, world, client
  <1> QED BY <1>1, <1>3, <1>4 DEF TransparentInv, Draining, Reading, verdictOnClient

LEMMA HandleNegotiationDue ==
  ASSUME NEW verb \in Verb, NEW option \in Option
  PROVE  HandleNegotiation(verb, option) = Due(verb, option)
  BY DEF HandleNegotiation, Due, Offered, Verb, Nothing

LEMMA CommandTransparent ==
  ASSUME TypeInv, TransparentInv, RecvCommand
  PROVE  TransparentInv'
  <1>1. /\ coming # <<>> /\ coming' = Tail(coming) /\ parse \notin Verb /\ parse # "idle"
        /\ ~IsData(Head(coming)) /\ parse' = NextParse(Head(coming))
        /\ UNCHANGED <<config, world, conn, meant, due, verdictOnClient>>
        /\ Draining \/ Reading
    BY DEF RecvCommand, Receives, Draining, Reading
  <1>2. Telnet
    BY <1>1 DEF IsData
  <1>3. ASSUME Intact PROVE Intact'
    <2> USE DEF Meant, Verb
    <2>1. CASE parse = "data"
      <3>1. WholeUnit /\ Head(coming) = "IAC" /\ parse' = "iac"
        BY <1>1, <1>3, <2>1 DEF Intact, IsData, NextParse
      <3>2. Telnet' /\ UNCHANGED <<meant, due>> /\ coming' = Tail(coming)
        BY <1>1, <1>2 DEF Telnet, config
      <3>3. ASSUME NEW b \in Data, coming = <<b>> PROVE FALSE
        BY <3>1, <3>3, ByteFacts
      <3>4. ASSUME coming = <<"IAC", "IAC">>, Meant("IAC", Nothing) PROVE AfterIAC'
        BY <3>2, <3>4 DEF AfterIAC
      <3>5. ASSUME NEW verb \in Verb, NEW option \in Option,
                   coming = <<"IAC", verb, option>>, Meant(NoByte, Due(verb, option))
            PROVE  AfterIAC'
        <4>1. coming' = <<verb, option>>
          BY <3>2, <3>5
        <4> QED BY <3>2, <3>5, <4>1 DEF AfterIAC
      <3>6. ASSUME coming = <<"IAC", "NOP">>, Meant(NoByte, Nothing) PROVE AfterIAC'
        <4>1. coming' = <<"NOP">>
          BY <3>2, <3>6
        <4> QED BY <3>2, <3>6, <4>1 DEF AfterIAC
      <3>7. ASSUME coming = <<"IAC", "SB", "naws", "IAC", "IAC", "SE", "IAC", "SE">>,
                   Meant(NoByte, Nothing)
            PROVE  AfterIAC'
        <4>1. coming' = <<"SB", "naws", "IAC", "IAC", "SE", "IAC", "SE">>
          BY <3>2, <3>7
        <4> QED BY <3>2, <3>7, <4>1 DEF AfterIAC
      <3>8. AfterIAC'
        BY <1>1, <3>1, <3>3, <3>4, <3>5, <3>6, <3>7 DEF WholeUnit
      <3> QED BY <3>1, <3>8 DEF Intact
    <2>2. CASE parse = "iac"
      <3>1. AfterIAC /\ Head(coming) # "IAC"
        BY <1>1, <1>3, <2>2 DEF Intact, IsData
      <3>2. CASE \E verb \in Verb, option \in Option :
                   coming = <<verb, option>> /\ Meant(NoByte, Due(verb, option))
        <4>1. PICK verb \in Verb, option \in Option :
                coming = <<verb, option>> /\ Meant(NoByte, Due(verb, option))
          BY <3>2
        <4>2. parse' = verb /\ coming' = <<option>>
          BY <1>1, <2>2, <4>1 DEF NextParse
        <4>3. AfterVerb'
          BY <1>1, <1>2, <4>1, <4>2 DEF AfterVerb, Telnet, config
        <4> QED BY <4>2, <4>3 DEF Intact
      <3>3. CASE coming = <<"NOP">> /\ Meant(NoByte, Nothing)
        <4>1. parse' = "data" /\ coming' = <<>>
          BY <1>1, <2>2, <3>3 DEF NextParse
        <4> QED BY <1>1, <3>3, <4>1 DEF Intact, WholeUnit
      <3>4. CASE coming = <<"SB", "naws", "IAC", "IAC", "SE", "IAC", "SE">> /\ Meant(NoByte, Nothing)
        <4>1. parse' = "sb" /\ coming' = <<"naws", "IAC", "IAC", "SE", "IAC", "SE">>
          BY <1>1, <2>2, <3>4 DEF NextParse
        <4> QED BY <1>1, <1>2, <3>4, <4>1 DEF Intact, AfterSB, Telnet, config
      <3> QED BY <3>1, <3>2, <3>3, <3>4 DEF AfterIAC
    <2>3. CASE parse = "sb"
      <3>1. AfterSB
        BY <1>3, <2>3 DEF Intact
      <3>2. CASE coming = <<"naws", "IAC", "IAC", "SE", "IAC", "SE">>
        <4>1. parse' = "sb" /\ coming' = <<"IAC", "IAC", "SE", "IAC", "SE">>
          BY <1>1, <2>3, <3>2 DEF NextParse
        <4> QED BY <1>1, <1>2, <3>1, <4>1 DEF Intact, AfterSB, Telnet, config
      <3>3. CASE coming = <<"IAC", "IAC", "SE", "IAC", "SE">>
        <4>1. parse' = "sbiac" /\ coming' = <<"IAC", "SE", "IAC", "SE">>
          BY <1>1, <2>3, <3>3 DEF NextParse
        <4> QED BY <1>1, <1>2, <3>1, <4>1 DEF Intact, AfterSB, AfterSBIAC, Telnet, config
      <3>4. CASE coming = <<"SE", "IAC", "SE">>
        <4>1. parse' = "sb" /\ coming' = <<"IAC", "SE">>
          BY <1>1, <2>3, <3>4 DEF NextParse
        <4> QED BY <1>1, <1>2, <3>1, <4>1 DEF Intact, AfterSB, Telnet, config
      <3>5. CASE coming = <<"IAC", "SE">>
        <4>1. parse' = "sbiac" /\ coming' = <<"SE">>
          BY <1>1, <2>3, <3>5 DEF NextParse
        <4> QED BY <1>1, <1>2, <3>1, <4>1 DEF Intact, AfterSB, AfterSBIAC, Telnet, config
      <3> QED BY <3>1, <3>2, <3>3, <3>4, <3>5 DEF AfterSB
    <2>4. CASE parse = "sbiac"
      <3>1. AfterSBIAC
        BY <1>3, <2>4 DEF Intact
      <3>2. CASE coming = <<"IAC", "SE", "IAC", "SE">>
        <4>1. parse' = "sb" /\ coming' = <<"SE", "IAC", "SE">>
          BY <1>1, <2>4, <3>2 DEF NextParse
        <4> QED BY <1>1, <1>2, <3>1, <4>1 DEF Intact, AfterSB, AfterSBIAC, Telnet, config
      <3>3. CASE coming = <<"SE">>
        <4>1. parse' = "data" /\ coming' = <<>>
          BY <1>1, <2>4, <3>3 DEF NextParse
        <4> QED BY <1>1, <3>1, <4>1 DEF Intact, AfterSBIAC, WholeUnit
      <3> QED BY <3>1, <3>2, <3>3 DEF AfterSBIAC
    <2> QED BY <1>1, <2>1, <2>2, <2>3, <2>4 DEF TypeInv, TypeOK, PlaceTypeOK
  <1>4. ~Cut
    BY <1>1 DEF Cut
  <1> QED BY <1>1, <1>3, <1>4 DEF TransparentInv, Draining, Reading, verdictOnClient

LEMMA OptionTransparent ==
  ASSUME TypeInv, TransparentInv, RecvOption
  PROVE  TransparentInv'
  <1>1. /\ coming # <<>> /\ coming' = Tail(coming) /\ parse \in Verb /\ parse' = "data"
        /\ UNCHANGED <<config, world, conn>>
        /\ Draining \/ Reading
    BY DEF RecvOption, Receives, Draining, Reading
  <1>2. stalled' = stalled
    BY DEF RecvOption, ClientGets, verdictOnClient
  <1>3. ASSUME Intact, ~confused PROVE Intact' /\ ~confused'
    <2>1. PICK option \in Option : coming = <<option>> /\ Meant(NoByte, Due(parse, option))
      BY <1>1, <1>3 DEF Intact, AfterVerb
    <2>2. Head(coming) = option /\ coming' = <<>>
      BY <1>1, <2>1
    <2>3. HandleNegotiation(parse, option) = due
      BY <1>1, <2>1, HandleNegotiationDue DEF Meant
    <2>4. meant' = NoByte /\ due' = Nothing /\ ~confused'
      BY <1>3, <2>1, <2>2, <2>3 DEF RecvOption, ClientGets, Meant, verdictOnClient
    <2> QED BY <1>1, <2>2, <2>4 DEF Intact, WholeUnit, Meant, Verb
  <1>4. ~Cut
    BY <1>1 DEF Cut
  <1> QED BY <1>1, <1>2, <1>3, <1>4 DEF TransparentInv, Draining, Reading

(* The byte that gets through is the one that was meant.                   *)
LEMMA DataThrough ==
  ASSUME TypeInv, Intact, Receives, parse \notin Verb, IsData(Head(coming))
  PROVE  Head(coming) = meant /\ Tail(coming) = <<>> /\ due = Nothing
  <1>1. coming # <<>> /\ parse # "idle"
    BY DEF Receives
  <1>2. CASE Telnet /\ parse = "iac"
    <2>1. Head(coming) = "IAC" /\ AfterIAC
      BY <1>2 DEF IsData, Intact
    <2>2. CASE coming = <<"IAC">> /\ Meant("IAC", Nothing)
      BY <2>2 DEF Meant
    <2>3. ASSUME NEW verb \in Verb, NEW option \in Option, coming = <<verb, option>>
          PROVE  FALSE
      BY <2>1, <2>3 DEF Verb
    <2>4. coming # <<"NOP">> /\ coming # <<"SB", "naws", "IAC", "IAC", "SE", "IAC", "SE">>
      BY <2>1
    <2> QED BY <2>1, <2>2, <2>3, <2>4 DEF AfterIAC
  <1>3. CASE Telnet /\ parse = "data"
    <2>1. Head(coming) # "IAC" /\ WholeUnit
      BY <1>3 DEF IsData, Intact
    <2>2. ASSUME NEW b \in Data, coming = <<b>>, Meant(b, Nothing)
          PROVE  Head(coming) = meant /\ Tail(coming) = <<>> /\ due = Nothing
      BY <2>2 DEF Meant
    <2>3. ASSUME NEW verb \in Verb, NEW option \in Option, coming = <<"IAC", verb, option>>
          PROVE  FALSE
      BY <2>1, <2>3
    <2>4. /\ coming # <<"IAC", "IAC">> /\ coming # <<"IAC", "NOP">>
          /\ coming # <<"IAC", "SB", "naws", "IAC", "IAC", "SE", "IAC", "SE">>
      BY <2>1
    <2> QED BY <1>1, <2>1, <2>2, <2>3, <2>4 DEF WholeUnit
  <1>4. CASE ~Telnet
    <2>1. WholeUnit
      BY <1>1, <1>4 DEF Intact, AfterIAC, AfterVerb, AfterSB, AfterSBIAC, TypeInv, TypeOK,
                       PlaceTypeOK
    <2>2. ASSUME NEW b \in Data, coming = <<b>>, Meant(b, Nothing)
          PROVE  Head(coming) = meant /\ Tail(coming) = <<>> /\ due = Nothing
      BY <2>2 DEF Meant
    <2> QED BY <1>1, <1>4, <2>1, <2>2 DEF WholeUnit
  <1> QED BY <1>2, <1>3, <1>4 DEF IsData

LEMMA DataTransparent ==
  ASSUME TypeInv, TransparentInv, DropByte \/ ReadByte
  PROVE  TransparentInv'
  <1>1. /\ Receives /\ parse \notin Verb /\ IsData(Head(coming)) /\ coming' = Tail(coming)
        /\ coming # <<>> /\ Takes(Head(coming))
        /\ UNCHANGED <<config, world>>
    BY DEF DropByte, ReadByte, Receives
  <1>2. /\ parse' \in {"idle", "data"}
        /\ ~Draining' /\ ~Reading' => parse' = "idle"
    <2>1. CASE DropByte
      BY <2>1 DEF DropByte
    <2>2. CASE ReadByte
      <3>1. Reading /\ LineByte(Head(coming))
        BY <2>2 DEF ReadByte
      <3> QED BY <3>1 DEF LineByte, LineRead, EchoFails, Reading
    <2> QED BY <2>1, <2>2
  <1>3. ASSUME Intact, ~confused PROVE Intact' /\ ~confused'
    <2>1. Head(coming) = meant /\ Tail(coming) = <<>> /\ due = Nothing
      BY <1>1, <1>3, DataThrough
    <2>2. coming' = <<>> /\ meant' = NoByte /\ due' = Nothing /\ ~confused'
      BY <1>1, <1>3, <2>1 DEF Takes
    <2> QED BY <1>2, <2>2 DEF Intact, WholeUnit, Meant, Verb
  <1>4. ~Cut /\ stalled' = stalled
    BY <1>1 DEF Cut, Takes
  <1> QED BY <1>2, <1>3, <1>4 DEF TransparentInv

(* Where nothing was received between units nothing is lost.               *)
LEMMA SilenceTransparent ==
  ASSUME TypeInv, TransparentInv, DrainTest \/ DrainEnds \/ ReadTimesOut \/ ReadEnds
  PROVE  TransparentInv'
  <1>1. UNCHANGED <<config, world, coming, meant, due, confused>>
    BY DEF DrainTest, DrainEnds, ReadTimesOut, ReadEnds, client, verdictOnClient
  <1>2. /\ parse' \in {"idle", "data"}
        /\ ~Draining' /\ ~Reading' => parse' = "idle"
    BY DEF DrainTest, DrainEnds, ReadTimesOut, ReadEnds, LineRead, Draining, Reading, TypeInv, TypeOK,
           PlaceTypeOK
  <1>3. \/ Cut /\ stalled' = stalled
        \/ parse \in {"idle", "data"} /\ stalled' = stalled
        \/ stalled'
    <2>1. CASE DrainTest
      BY <2>1 DEF DrainTest, verdictOnClient
    <2>2. CASE DrainEnds
      <3>1. CASE clientGone /\ coming = <<>> /\ UNCHANGED stalled
        BY <3>1 DEF Cut
      <3>2. CASE stalled' = (stalled \/ parse # "data")
        BY <3>2 DEF TypeInv, TypeOK, ClientTypeOK
      <3> QED BY <2>2, <3>1, <3>2 DEF DrainEnds
    <2>3. CASE ReadTimesOut
      <3>1. stalled' = (stalled \/ parse # "data")
        BY <2>3 DEF ReadTimesOut
      <3> QED BY <3>1 DEF TypeInv, TypeOK, ClientTypeOK
    <2>4. CASE ReadEnds
      BY <2>4 DEF ReadEnds, Cut, verdictOnClient
    <2> QED BY <2>1, <2>2, <2>3, <2>4
  <1>4. parse \in {"idle", "data"} /\ Intact => Intact'
    BY <1>1, <1>2 DEF Intact, WholeUnit, Meant, Telnet, config, Verb
  <1>5. Cut => Cut'
    BY <1>1 DEF Cut, world
  <1>6. stalled => stalled'
    BY DEF DrainTest, DrainEnds, ReadTimesOut, ReadEnds, verdictOnClient
  <1> QED BY <1>1, <1>2, <1>3, <1>4, <1>5, <1>6 DEF TransparentInv

LEMMA TransparentKept ==
  ASSUME TypeInv, TransparentInv, [Next]_vars
  PROVE  TransparentInv'
  <1>1. CASE Environment
    BY <1>1, SendsTransparent, OthersTransparent DEF Environment, AuthenticationStep
  <1>2. CASE ConnectionThread
    BY <1>2, PlacesTransparent, CommandTransparent, OptionTransparent, DataTransparent,
       SilenceTransparent DEF ConnectionThread, ChannelStep, SendStep
  <1>3. CASE DeadlinePasses \/ UNCHANGED vars
    BY <1>3, OthersTransparent
  <1> QED BY <1>1, <1>2, <1>3 DEF Next, Rest

(* Through any number of commands of the protocol, anywhere in what is     *)
(* typed, what the client means gets through and every request gets the    *)
(* one answer that is due (_recv_byte, _handle_negotiation).               *)
THEOREM TransparentCorrect == Spec => []Transparent
  <1>1. TypeInv /\ TransparentInv => Transparent
    <2> SUFFICES ASSUME TypeInv, TransparentInv, ~stalled, coming = <<>>, ~clientGone
                 PROVE  meant = NoByte /\ due = Nothing /\ parse \in {"idle", "data"}
      BY DEF Transparent, TransparentInv
    <2>1. Intact
      BY DEF TransparentInv, Cut
    <2>2. ~AfterIAC /\ ~AfterVerb /\ ~AfterSB /\ ~AfterSBIAC
      BY DEF AfterIAC, AfterVerb, AfterSB, AfterSBIAC
    <2>3. parse \in {"idle", "data"}
      BY <2>1, <2>2 DEF Intact, TypeInv, TypeOK, PlaceTypeOK
    <2> QED BY <2>1, <2>3 DEF Intact, WholeUnit, Meant
  <1> QED BY <1>1, TypeStarts, TypeKept, TransparentStarts, TransparentKept, PTL DEF Spec
-----------------------------------------------------------------------------
(* What one more byte changes in the lines of what was typed.              *)
LEMMA EndsFinite ==
  ASSUME NEW h \in Seq(Byte), NEW seconds
  PROVE  /\ IsFiniteSet(LineEnds(h, seconds)) /\ LineEnds(h, seconds) \in SUBSET Nat
         /\ Cardinality(LineEnds(h, seconds)) \in Nat
         /\ \A i \in LineEnds(h, seconds) : i <= Len(h)
  <1>1. IsFiniteSet(1 .. Len(h)) /\ DOMAIN h = 1 .. Len(h) /\ Len(h) \in Nat
    BY LenProperties, FS_Interval
  <1>2. LineEnds(h, seconds) \in SUBSET (1 .. Len(h))
    BY <1>1 DEF LineEnds
  <1> QED BY <1>1, <1>2, FS_Subset, FS_CardinalityType

LEMMA BytesFinite ==
  ASSUME NEW h \in Seq(Byte), NEW k, NEW seconds
  PROVE  /\ IsFiniteSet(LineBytes(h, k, seconds)) /\ LineBytes(h, k, seconds) \in SUBSET Nat
         /\ \A i \in LineBytes(h, k, seconds) : i <= Len(h)
  <1>1. IsFiniteSet(1 .. Len(h)) /\ DOMAIN h = 1 .. Len(h) /\ Len(h) \in Nat
    BY LenProperties, FS_Interval
  <1>2. LineBytes(h, k, seconds) \in SUBSET (1 .. Len(h))
    BY <1>1 DEF LineBytes
  <1> QED BY <1>1, <1>2, FS_Subset

(* The byte b after h would be the second half of a line end.              *)
Completes(h, b, seconds) == h # <<>> /\ h[Len(h)] = "cr" /\ b \in seconds

LEMMA HalfAppend ==
  ASSUME NEW h \in Seq(Byte), NEW b \in Byte, NEW seconds
  PROVE  /\ \A i \in 1 .. Len(h) : /\ Append(h, b)[i] = h[i]
                                   /\ Half(Append(h, b), i, seconds) <=> Half(h, i, seconds)
         /\ Half(Append(h, b), Len(h) + 1, seconds) <=> Completes(h, b, seconds)
         /\ Append(h, b)[Len(h) + 1] = b
         /\ DOMAIN Append(h, b) = 1 .. Len(h) + 1
  <1> DEFINE g == Append(h, b)
             n == Len(h)
  <1>1. /\ n \in Nat /\ DOMAIN g = 1 .. n + 1 /\ g[n + 1] = b
        /\ \A i \in 1 .. n : g[i] = h[i]
        /\ h # <<>> <=> n > 0
    BY LenProperties, AppendProperties, EmptySeq
  <1> HIDE DEF g, n
  <1>2. \A i \in 1 .. n : Half(g, i, seconds) <=> Half(h, i, seconds)
    BY <1>1 DEF Half
  <1>3. Half(g, n + 1, seconds) <=> Completes(h, b, seconds)
    BY <1>1 DEF Half, Completes, n
  <1> QED BY <1>1, <1>2, <1>3 DEF g, n

LEMMA EndsAppend ==
  ASSUME NEW h \in Seq(Byte), NEW b \in Byte, NEW seconds
  PROVE  LineEnds(Append(h, b), seconds) =
           LineEnds(h, seconds) \cup IF b \in {"cr", "lf"} /\ ~Completes(h, b, seconds)
                                     THEN {Len(h) + 1} ELSE {}
  <1> DEFINE g == Append(h, b)
             n == Len(h)
  <1>1. n \in Nat /\ DOMAIN h = 1 .. n /\ DOMAIN g = 1 .. n + 1
    BY LenProperties, HalfAppend
  <1>2. /\ g[n + 1] = b /\ (Half(g, n + 1, seconds) <=> Completes(h, b, seconds))
        /\ \A i \in 1 .. n : g[i] = h[i] /\ (Half(g, i, seconds) <=> Half(h, i, seconds))
    BY HalfAppend
  <1> HIDE DEF g
  <1>3. \A i \in 1 .. n : i \in LineEnds(g, seconds) <=> i \in LineEnds(h, seconds)
    BY <1>1, <1>2 DEF LineEnds
  <1>4. n + 1 \in LineEnds(g, seconds)
          <=> b \in {"cr", "lf"} /\ ~Completes(h, b, seconds)
    BY <1>1, <1>2 DEF LineEnds
  <1>5. /\ \A i \in LineEnds(g, seconds) : i \in 1 .. n \/ i = n + 1
        /\ \A i \in LineEnds(h, seconds) : i \in 1 .. n
    BY <1>1 DEF LineEnds
  <1> QED BY <1>3, <1>4, <1>5 DEF g

(* Only the line that has not ended can grow.                              *)
LEMMA BytesAppend ==
  ASSUME NEW h \in Seq(Byte), NEW b \in Byte, NEW k \in Nat \ {0}, NEW seconds
  PROVE  LineBytes(Append(h, b), k, seconds) =
           LineBytes(h, k, seconds) \cup
             IF /\ b \notin {"cr", "lf"} /\ ~Completes(h, b, seconds)
                /\ Cardinality(LineEnds(h, seconds)) = k - 1
             THEN {Len(h) + 1} ELSE {}
  <1> DEFINE g == Append(h, b)
             n == Len(h)
             E == LineEnds(h, seconds)
             F == LineEnds(g, seconds)
             x == n + 1
  <1>1. /\ n \in Nat /\ DOMAIN h = 1 .. n /\ x \in Nat
        /\ \A i : i \in DOMAIN g <=> i \in 1 .. n \/ i = x
        /\ \A i \in 1 .. n : i \in Nat /\ i < x /\ i # x
    BY LenProperties, HalfAppend
  <1>2. /\ g[x] = b /\ (Half(g, x, seconds) <=> Completes(h, b, seconds))
        /\ \A i \in 1 .. n : g[i] = h[i] /\ (Half(g, i, seconds) <=> Half(h, i, seconds))
    BY HalfAppend
  <1>3. /\ E \in SUBSET Nat /\ IsFiniteSet(E) /\ \A i \in E : i <= x /\ i < x
    BY <1>1, EndsFinite
  <1>4. F = E \cup IF b \in {"cr", "lf"} /\ ~Completes(h, b, seconds) THEN {x} ELSE {}
    BY EndsAppend
  <1> HIDE DEF g, E, F, n, x
  <1>5. \A i \in 1 .. n : Rank(F, i) = Rank(E, i) /\ (i \in F <=> i \in E)
    <2>1. CASE F = E
      BY <2>1
    <2>2. CASE F = E \cup {x}
      <3>1. \A i \in Nat : i < x => Rank(F, i) = Rank(E, i)
        BY <1>1, <1>3, <2>2, RankAdd
      <3> QED BY <1>1, <2>2, <3>1
    <2> QED BY <1>4, <2>1, <2>2
  <1>6. \A i \in 1 .. n : i \in LineBytes(g, k, seconds) <=> i \in LineBytes(h, k, seconds)
    BY <1>1, <1>2, <1>5 DEF LineBytes, E, F
  <1>7. x \in LineBytes(g, k, seconds)
          <=> b \notin {"cr", "lf"} /\ ~Completes(h, b, seconds) /\ Cardinality(E) = k - 1
    <2>1. x \notin E
      BY <1>1, <1>3
    <2>2. CASE F = E
      <3>1. Rank(F, x) = Cardinality(E)
        BY <1>1, <1>3, <2>2, RankLast
      <3> QED BY <1>1, <1>2, <1>4, <2>1, <2>2, <3>1 DEF LineBytes, F
    <2>3. CASE F # E
      BY <1>4, <2>3 DEF LineBytes, F
    <2> QED BY <2>2, <2>3
  <1>8. /\ \A i \in LineBytes(g, k, seconds) : i \in 1 .. n \/ i = x
        /\ \A i \in LineBytes(h, k, seconds) : i \in 1 .. n
    BY <1>1 DEF LineBytes
  <1> QED BY <1>6, <1>7, <1>8 DEF g, n, E, x

LEMMA TypedKept ==
  ASSUME NEW h \in Seq(Byte), NEW b \in Byte, NEW k \in Nat \ {0}, NEW word, NEW seconds,
         Typed(h, k, word, seconds),
         \/ b \in {"cr", "lf"} \/ Completes(h, b, seconds)
         \/ Cardinality(LineEnds(h, seconds)) # k - 1
  PROVE  Typed(Append(h, b), k, word, seconds)
  <1>1. LineBytes(Append(h, b), k, seconds) = LineBytes(h, k, seconds) \cup {}
    <2> DEFINE grows == /\ b \notin {"cr", "lf"} /\ ~Completes(h, b, seconds)
                        /\ Cardinality(LineEnds(h, seconds)) = k - 1
    <2>1. LineBytes(Append(h, b), k, seconds) = LineBytes(h, k, seconds)
            \cup (IF grows THEN {Len(h) + 1} ELSE {})
      BY BytesAppend
    <2>2. ~grows
      OBVIOUS
    <2> QED BY <2>1, <2>2
  <1>2. \A i \in LineBytes(h, k, seconds) : Append(h, b)[i] = h[i]
    <2>1. DOMAIN h = 1 .. Len(h)
      BY LenProperties
    <2> QED BY <2>1, HalfAppend DEF LineBytes
  <1> QED BY <1>1, <1>2 DEF Typed

LEMMA TypedGrows ==
  ASSUME NEW h \in Seq(Byte), NEW b \in Byte, NEW k \in Nat \ {0}, NEW word \in Seq(Byte),
         NEW seconds, Typed(h, k, word, seconds),
         b \notin {"cr", "lf"}, ~Completes(h, b, seconds),
         Cardinality(LineEnds(h, seconds)) = k - 1
  PROVE  Typed(Append(h, b), k, Append(word, b), seconds)
  <1> DEFINE P == LineBytes(h, k, seconds)
             x == Len(h) + 1
  <1>1. LineBytes(Append(h, b), k, seconds) = P \cup {x}
    BY BytesAppend
  <1>2. /\ P \in SUBSET Nat /\ IsFiniteSet(P) /\ x \in Nat
        /\ \A i \in P : i < x /\ i \in Nat /\ i \in 1 .. Len(h)
    <2>1. DOMAIN h = 1 .. Len(h) /\ Len(h) \in Nat
      BY LenProperties
    <2>2. \A i \in P : i \in 1 .. Len(h)
      BY <2>1 DEF LineBytes
    <2>3. \A i \in 1 .. Len(h) : i < x /\ i \in Nat
      BY <2>1
    <2> QED BY <2>1, <2>2, <2>3, BytesFinite
  <1>3. /\ Cardinality(P \cup {x}) = Cardinality(P) + 1
        /\ Rank(P \cup {x}, x) = Cardinality(P) + 1
        /\ \A i \in P : Rank(P \cup {x}, i) = Rank(P, i)
    BY <1>2, RankAdd
  <1>4. \A i \in P : Rank(P, i) \in 1 .. Cardinality(P)
    BY <1>2, RankType, FS_CardinalityType
  <1>5. Cardinality(P) = Len(word) /\ \A i \in P : h[i] = word[Rank(P, i)]
    BY DEF Typed
  <1>6. /\ Len(word) \in Nat /\ Len(Append(word, b)) = Len(word) + 1
        /\ Append(word, b)[Len(word) + 1] = b
        /\ \A m \in 1 .. Len(word) : Append(word, b)[m] = word[m]
    BY LenProperties, AppendProperties
  <1>7. Append(h, b)[x] = b /\ \A i \in P : Append(h, b)[i] = h[i]
    BY <1>2, HalfAppend
  <1> HIDE DEF P, x
  <1>8. \A i \in P \cup {x} : Append(h, b)[i] = Append(word, b)[Rank(P \cup {x}, i)]
    <2>1. Append(h, b)[x] = Append(word, b)[Rank(P \cup {x}, x)]
      BY <1>3, <1>5, <1>6, <1>7
    <2>2. ASSUME NEW i \in P PROVE Append(h, b)[i] = Append(word, b)[Rank(P \cup {x}, i)]
      BY <1>3, <1>4, <1>5, <1>6, <1>7
    <2> QED BY <2>1, <2>2
  <1> QED BY <1>1, <1>3, <1>5, <1>6, <1>8 DEF Typed

(* A line that has not begun is empty.                                     *)
LEMMA TypedEmpty ==
  ASSUME NEW h \in Seq(Byte), NEW k \in Nat \ {0}, NEW seconds,
         Cardinality(LineEnds(h, seconds)) < k - 1
  PROVE  Typed(h, k, <<>>, seconds)
  <1>1. \A i \in Nat : Rank(LineEnds(h, seconds), i) \in 0 .. Cardinality(LineEnds(h, seconds))
    BY EndsFinite, RankType
  <1>2. DOMAIN h = 1 .. Len(h) /\ Len(h) \in Nat /\ Cardinality(LineEnds(h, seconds)) \in Nat
    BY LenProperties, EndsFinite
  <1>3. \A i \in DOMAIN h : Rank(LineEnds(h, seconds), i) # k - 1
    BY <1>1, <1>2
  <1>4. LineBytes(h, k, seconds) = {}
    BY <1>3 DEF LineBytes
  <1> QED BY <1>4, FS_EmptySet DEF Typed

(* A line is one word only.                                                *)
LEMMA TypedUnique ==
  ASSUME NEW S, NEW h \in Seq(Byte), NEW k, NEW v \in Seq(S), NEW w \in Seq(S), NEW seconds,
         Typed(h, k, v, seconds), Typed(h, k, w, seconds)
  PROVE  v = w
  <1> DEFINE P == LineBytes(h, k, seconds)
  <1>1. P \in SUBSET Nat /\ IsFiniteSet(P)
    BY BytesFinite
  <1>2. /\ Cardinality(P) = Len(v) /\ Cardinality(P) = Len(w)
        /\ \A i \in P : h[i] = v[Rank(P, i)] /\ h[i] = w[Rank(P, i)]
    BY DEF Typed
  <1> HIDE DEF P
  <1>3. ASSUME NEW m \in 1 .. Len(v) PROVE v[m] = w[m]
    <2>1. PICK i \in P : Rank(P, i) = m
      BY <1>1, <1>2, RankOnto
    <2> QED BY <1>2, <2>1
  <1> QED BY <1>2, <1>3, SeqEqual

-----------------------------------------------------------------------------
(* What read_line has returned and holds is what was typed: the lines      *)
(* entered, the beginning of the next one in its buffer, and a flag that   *)
(* says whether the last byte was CR.  Once the stream has ended inside a  *)
(* line nothing more is typed, though another, empty line is read.         *)
LinesTyped(n) ==
  /\ Len(entered) = n
  /\ \A k \in 1 .. n : Typed(heard, k, entered[k], Seconds)
  /\ Typed(heard, n + 1, buf, Seconds)

EndsRead(n) ==
  IF cut THEN clientGone /\ coming = <<>> /\ Cardinality(LineEnds(heard, Seconds)) <= n
         ELSE /\ Cardinality(LineEnds(heard, Seconds)) = n
              /\ skip_lf <=> heard # <<>> /\ heard[Len(heard)] = "cr"

AsRead(n) == LinesTyped(n) /\ EndsRead(n)

Untouched == /\ buf = <<>> /\ skip_lf = FALSE /\ entered = <<>> /\ cut = FALSE
             /\ heard = <<>>

Before == {"offer", "drain", "banner", "handshake", "accept", "accepting"}

AsksCredentials == Telnet \/ auth = "none"

LineInv ==
  /\ conn \in Before => Untouched
  /\ conn \in {"userPrompt", "user"} => AsRead(0)
  /\ conn \in {"passPrompt", "pass"} => AsRead(1)
  /\ conn \in {"verdict", "refuse"} => AsRead(2)
  /\ conn = "session" /\ AsksCredentials => AsRead(2) /\ Authenticated
  /\ conn = "refuse" => ~Authenticated

LEMMA UntouchedReads == ASSUME Untouched PROVE AsRead(0)
  <1>1. <<>> \in Seq(Byte) /\ LineEnds(<<>>, Seconds) = {} /\ LineBytes(<<>>, 1, Seconds) = {}
    BY DEF LineEnds, LineBytes
  <1>2. Typed(<<>>, 1, <<>>, Seconds) /\ Cardinality(LineEnds(<<>>, Seconds)) = 0
    BY <1>1, FS_EmptySet DEF Typed
  <1> QED BY <1>2 DEF Untouched, AsRead, LinesTyped, EndsRead

LEMMA AsReadStands ==
  ASSUME NEW n \in 0 .. 2, AsRead(n), UNCHANGED <<config, line>>,
         clientGone => clientGone', clientGone /\ coming = <<>> => coming' = <<>>
  PROVE  AsRead(n)'
  <1>1. Seconds' = Seconds
    BY DEF Seconds, Telnet, config
  <1> QED BY <1>1 DEF AsRead, LinesTyped, EndsRead, line

(* A step that reads no byte, and leads from one place to another that the *)
(* invariant does not tell apart or says nothing of.                       *)
LEMMA LineStays ==
  ASSUME LineInv, UNCHANGED <<config, line>>,
         clientGone => clientGone', clientGone /\ coming = <<>> => coming' = <<>>,
         \/ conn' = conn /\ (conn = "session" => UNCHANGED auth)
         \/ conn \in Before /\ conn' \in Before \cup {"userPrompt"}
         \/ <<conn, conn'>> \in {<<"userPrompt", "user">>, <<"passPrompt", "pass">>}
         \/ conn' \in {"discard", "finally", "close", "closed"}
  PROVE  LineInv'
  <1> USE DEF Before
  <1>1. Untouched => Untouched'
    BY DEF Untouched, line
  <1>2. Untouched => AsRead(0)'
    BY UntouchedReads, AsReadStands
  <1>3. \A n \in 0 .. 2 : AsRead(n) => AsRead(n)'
    BY AsReadStands
  <1>4. Authenticated' = Authenticated
    BY DEF Authenticated, line
  <1>5. CASE conn' = conn /\ (conn = "session" => UNCHANGED auth)
    <2>1. (conn = "session" /\ AsksCredentials)' => conn = "session" /\ AsksCredentials
      BY <1>5 DEF AsksCredentials, Telnet, config
    <2> QED BY <1>1, <1>3, <1>4, <1>5, <2>1 DEF LineInv
  <1>6. CASE conn \in Before /\ conn' \in Before \cup {"userPrompt"}
    BY <1>1, <1>2, <1>6 DEF LineInv
  <1>7. CASE <<conn, conn'>> \in {<<"userPrompt", "user">>, <<"passPrompt", "pass">>}
    BY <1>3, <1>7 DEF LineInv
  <1>8. CASE conn' \in {"discard", "finally", "close", "closed"}
    BY <1>8 DEF LineInv
  <1> QED BY <1>5, <1>6, <1>7, <1>8

(* read_line, byte by byte.                                                *)
LEMMA SkippedCompletes ==
  ASSUME NEW n \in 0 .. 1, AsRead(n), ~cut, NEW b \in Byte
  PROVE  Skipped(b) <=> Completes(heard, b, Seconds)
  BY DEF AsRead, EndsRead, Skipped, Completes, Seconds

LEMMA ReadsOneMore ==
  ASSUME TypeInv, NEW n \in 0 .. 1, AsRead(n), ~cut, NEW b \in Byte, UNCHANGED config,
         heard' = Append(heard, b)
  PROVE  /\ Skipped(b) /\ skip_lf' = FALSE /\ UNCHANGED <<buf, entered, cut>> => AsRead(n)'
         /\ (~Skipped(b) /\ b \in {"cr", "lf"} /\ LineRead(b = "cr", FALSE) => AsRead(n + 1)')
         /\ ~Skipped(b) /\ b \notin {"cr", "lf"} /\ buf' = Append(buf, b)
              /\ skip_lf' = FALSE /\ UNCHANGED <<entered, cut>> => AsRead(n)'
  <1> DEFINE E == LineEnds(heard, Seconds)
             F == LineEnds(heard', Seconds)
             x == Len(heard) + 1
  <1>1. /\ heard \in Seq(Byte) /\ buf \in Seq(Byte) /\ entered \in Seq(Seq(Byte))
        /\ cut \in BOOLEAN
    BY DEF TypeInv, TypeOK, LineTypeOK
  <1>2. /\ n \in Nat /\ Len(entered) = n /\ Typed(heard, n + 1, buf, Seconds)
        /\ \A k \in 1 .. n : Typed(heard, k, entered[k], Seconds)
        /\ Cardinality(E) = n
    BY DEF AsRead, LinesTyped, EndsRead
  <1>3. Seconds' = Seconds
    BY DEF Seconds, Telnet, config
  <1>4. heard' # <<>> /\ heard'[Len(heard')] = b
    BY <1>1, AppendProperties, LenProperties, EmptySeq
  <1>5. F = E \cup IF b \in {"cr", "lf"} /\ ~Skipped(b) THEN {x} ELSE {}
    BY <1>1, SkippedCompletes, EndsAppend
  <1>6. ASSUME Skipped(b) \/ b \in {"cr", "lf"}, NEW k \in Nat \ {0}, NEW word,
               Typed(heard, k, word, Seconds)
        PROVE  Typed(heard', k, word, Seconds)
    BY <1>1, <1>6, SkippedCompletes, TypedKept
  <1>7. ASSUME NEW k \in 1 .. n, Typed(heard, k, entered[k], Seconds)
        PROVE  Typed(heard', k, entered[k], Seconds)
    <2>1. k \in Nat \ {0} /\ Cardinality(LineEnds(heard, Seconds)) # k - 1
      BY <1>2
    <2> QED BY <1>1, <1>7, <2>1, TypedKept
  <1> HIDE DEF E, F, x
  <1>8. ASSUME Skipped(b), skip_lf' = FALSE, UNCHANGED <<buf, entered, cut>>
        PROVE  AsRead(n)'
    <2>1. LinesTyped(n)'
      BY <1>2, <1>3, <1>6, <1>7, <1>8 DEF LinesTyped
    <2>2. F = E /\ b # "cr"
      BY <1>5, <1>8 DEF Skipped
    <2> QED BY <1>2, <1>3, <1>4, <1>8, <2>1, <2>2 DEF AsRead, EndsRead, E, F
  <1>9. ASSUME ~Skipped(b), b \in {"cr", "lf"}, LineRead(b = "cr", FALSE)
        PROVE  AsRead(n + 1)'
    <2>1. /\ entered' = Append(entered, buf) /\ buf' = <<>>
          /\ skip_lf' = (b = "cr") /\ cut' = FALSE
      BY <1>9 DEF LineRead
    <2>2. /\ Len(entered') = n + 1 /\ entered'[n + 1] = buf
          /\ \A k \in 1 .. n : entered'[k] = entered[k]
      BY <1>1, <1>2, <2>1, AppendProperties
    <2>3. Typed(heard, n + 2, <<>>, Seconds)
      BY <1>1, <1>2, TypedEmpty DEF E
    <2>4. Typed(heard', n + 1, buf, Seconds) /\ Typed(heard', n + 2, <<>>, Seconds)
      BY <1>2, <1>6, <1>9, <2>3
    <2>5. \A k \in 1 .. n + 1 : Typed(heard', k, entered'[k], Seconds)
      <3> TAKE k \in 1 .. n + 1
      <3>1. k \in 1 .. n \/ k = n + 1
        BY <1>2
      <3> QED BY <1>2, <1>7, <2>2, <2>4, <3>1
    <2>6. LinesTyped(n + 1)'
      <3>1. (n + 1) + 1 = n + 2
        BY <1>2
      <3> QED BY <1>3, <2>1, <2>2, <2>4, <2>5, <3>1 DEF LinesTyped
    <2>7. Cardinality(F) = n + 1
      <3>1. IsFiniteSet(E) /\ x \notin E
        BY <1>1, EndsFinite, LenProperties DEF E, x
      <3> QED BY <1>2, <1>5, <1>9, <3>1, FS_AddElement
    <2>8. EndsRead(n + 1)'
      BY <1>3, <1>4, <2>1, <2>7 DEF EndsRead, F
    <2> QED BY <2>6, <2>8 DEF AsRead
  <1>10. ASSUME ~Skipped(b), b \notin {"cr", "lf"}, buf' = Append(buf, b),
                skip_lf' = FALSE, UNCHANGED <<entered, cut>>
         PROVE  AsRead(n)'
    <2>1. Typed(heard', n + 1, Append(buf, b), Seconds)
      <3>1. n + 1 \in Nat \ {0} /\ Cardinality(LineEnds(heard, Seconds)) = (n + 1) - 1
        BY <1>2 DEF E
      <3> QED BY <1>1, <1>2, <1>10, <3>1, SkippedCompletes, TypedGrows
    <2>2. LinesTyped(n)'
      BY <1>2, <1>3, <1>7, <1>10, <2>1 DEF LinesTyped
    <2>3. F = E
      BY <1>5, <1>10
    <2> QED BY <1>2, <1>3, <1>4, <1>10, <2>2, <2>3 DEF AsRead, EndsRead, E, F
  <1> QED BY <1>8, <1>9, <1>10

(* Who is in a session, and by what.  The method of an SSH connection is   *)
(* one it may use and what it has shown for it was right; a dialogue over  *)
(* SSH is that of a client that has shown nothing yet.                     *)
AuthShown ==
  auth # "no" => /\ auth \in GetAllowedAuths /\ shown.method = auth
                 /\ auth # "none" => shown.secret = "right" /\ MatchUsername(shown.name)

AskedShown ==
  asked => shown.method = "keyboard-interactive" /\ MatchUsername(shown.name)

PlaceShown ==
  /\ Telnet => conn \notin {"handshake", "accept", "accepting"}
  /\ ~Telnet /\ conn \in Dialogue => auth = "none"
  /\ conn = "session" => Telnet \/ auth # "no"

ShownInv == AuthShown /\ AskedShown /\ PlaceShown

CredentialsInv == LineInv /\ ShownInv

LEMMA CredentialsStart == Init => CredentialsInv
  <1> SUFFICES ASSUME Init PROVE CredentialsInv
    OBVIOUS
  <1>1. LineInv
    BY UntouchedReads DEF Init, LineInv, Untouched, Before
  <1>2. ShownInv
    BY DEF Init, ShownInv, AuthShown, AskedShown, PlaceShown, Telnet, Dialogue
  <1> QED BY <1>1, <1>2 DEF CredentialsInv

(* A step of the connection that decides nothing about the methods.        *)
LEMMA ShownStays ==
  ASSUME ShownInv, UNCHANGED <<config, sshVars>>,
         \/ conn' = conn \/ conn' \in {"finally", "close", "closed"}
         \/ conn \in Dialogue /\ conn' \in Dialogue \cup {"session"}
  PROVE  ShownInv'
  <1>1. AuthShown' /\ AskedShown'
    BY DEF ShownInv, AuthShown, AskedShown, GetAllowedAuths, config, sshVars
  <1>2. PlaceShown'
    BY DEF ShownInv, PlaceShown, Telnet, config, sshVars, Dialogue
  <1> QED BY <1>1, <1>2 DEF ShownInv

LEMMA AuthenticationShown ==
  ASSUME TypeInv, CredentialsInv, AuthenticationStep
  PROVE  CredentialsInv'
  <1>1. /\ UNCHANGED <<config, world, client, conn, line>>
        /\ ~Telnet /\ conn \in {"accept", "accepting"}
    <2>1. /\ UNCHANGED <<config, world, client, conn, line>>
          /\ conn \in {"accept", "accepting"}
      BY DEF AuthenticationStep, Attempt, Authenticating, CheckAuthNone, CheckAuthPublickey,
             CheckAuthPassword, CheckAuthInteractive, CheckAuthInteractiveResponse
    <2> QED BY <2>1 DEF CredentialsInv, ShownInv, PlaceShown
  <1>2. GetAllowedAuths' = GetAllowedAuths
    BY <1>1 DEF GetAllowedAuths, config
  <1>3. LineInv'
    BY <1>1, LineStays DEF CredentialsInv, world, client
  <1>4. PlaceShown'
    BY <1>1 DEF PlaceShown, Telnet, config, Dialogue
  <1>5. ASSUME NEW method \in GetAllowedAuths, NEW name, NEW secret, NEW accepted \in BOOLEAN,
               accepted /\ method # "none" => secret = "right" /\ MatchUsername(name),
               Attempt(method, name, secret, accepted)
        PROVE  AuthShown' /\ AskedShown'
    BY <1>2, <1>5 DEF Attempt, AuthShown, AskedShown
  <1>6. ASSUME NEW method, NEW name, NEW secret, Attempt(method, name, secret, FALSE)
        PROVE  AuthShown' /\ AskedShown'
    BY <1>6 DEF Attempt, AuthShown, AskedShown
  <1>7. \A name : MatchUsername(name) \in BOOLEAN
    BY DEF MatchUsername
  <1>8. AuthShown' /\ AskedShown'
    <2>1. CASE CheckAuthNone
      <3>1. CASE setup.authNone
        BY <1>5, <2>1, <3>1 DEF CheckAuthNone, GetAllowedAuths
      <3>2. CASE ~setup.authNone
        <4>1. setup.authNone = FALSE
          BY <3>2 DEF TypeInv, TypeOK, WorldTypeOK
        <4> QED BY <1>6, <2>1, <4>1 DEF CheckAuthNone
      <3> QED BY <3>1, <3>2
    <2>2. CASE CheckAuthPublickey
      <3>1. PICK name \in Names, secret \in {"right", "wrong"} :
              Attempt("publickey", name, secret,
                      setup.keys /\ MatchUsername(name) /\ secret = "right")
        BY <2>2 DEF CheckAuthPublickey
      <3>2. CASE setup.keys
        BY <1>5, <1>7, <3>1, <3>2 DEF GetAllowedAuths
      <3>3. CASE ~setup.keys
        <4>1. (setup.keys /\ MatchUsername(name) /\ secret = "right") = FALSE
          BY <3>3
        <4> QED BY <1>6, <3>1, <4>1
      <3> QED BY <3>2, <3>3
    <2>3. CASE CheckAuthPassword
      <3>1. PICK name \in Names, secret \in {"right", "wrong"} :
              Attempt("password", name, secret, MatchUsername(name) /\ secret = "right")
        BY <2>3 DEF CheckAuthPassword
      <3> QED BY <1>5, <1>7, <3>1 DEF GetAllowedAuths
    <2>4. CASE CheckAuthInteractive
      <3>1. PICK name \in Names :
              /\ shown' = [method |-> "keyboard-interactive", name |-> name, secret |-> "wrong"]
              /\ asked' = MatchUsername(name)
        BY <2>4 DEF CheckAuthInteractive
      <3>2. auth' = "no"
        BY <2>4 DEF CheckAuthInteractive, Authenticating
      <3> QED BY <3>1, <3>2 DEF AuthShown, AskedShown
    <2>5. CASE CheckAuthInteractiveResponse
      <3>1. PICK secret \in {"right", "wrong"} :
              Attempt("keyboard-interactive", shown.name, secret, secret = "right")
        BY <2>5 DEF CheckAuthInteractiveResponse
      <3>2. MatchUsername(shown.name)
        BY <2>5 DEF CheckAuthInteractiveResponse, CredentialsInv, ShownInv, AskedShown
      <3> QED BY <1>5, <3>1, <3>2 DEF GetAllowedAuths
    <2> QED BY <2>1, <2>2, <2>3, <2>4, <2>5 DEF AuthenticationStep
  <1> QED BY <1>3, <1>4, <1>8 DEF CredentialsInv, ShownInv

LEMMA EnvironmentShown ==
  ASSUME TypeInv, CredentialsInv, Environment \/ DeadlinePasses \/ UNCHANGED vars
  PROVE  CredentialsInv'
  <1>1. CASE AuthenticationStep
    BY <1>1, AuthenticationShown
  <1>2. CASE ~AuthenticationStep
    <2>1. /\ UNCHANGED <<config, conn, sshVars, line>>
          /\ clientGone => clientGone'
          /\ clientGone /\ coming = <<>> => coming' = <<>>
      BY <1>2 DEF Environment, AuthenticationStep, ClientTypes, ClientTypes255, ClientNegotiates,
                  ClientCommands, Sends, ClientDisconnect, TransportDies, ServerStop,
                  DeadlinePasses, world, client, vars
    <2> QED BY <2>1, LineStays, ShownStays DEF CredentialsInv, sshVars
  <1> QED BY <1>1, <1>2

LEMMA ChannelShown ==
  ASSUME TypeInv, CredentialsInv, ChannelStep
  PROVE  CredentialsInv'
  <1>1. UNCHANGED <<config, world, client, sshVars, line>>
    BY ChannelFacts
  <1>2. CASE AcceptChannel
    <2>1. /\ conn = "accepting" /\ auth # "no" /\ ~Telnet
          /\ conn' = IF auth = "none" THEN "userPrompt" ELSE "session"
      BY <1>2 DEF AcceptChannel, CredentialsInv, ShownInv, PlaceShown
    <2>2. ShownInv'
      BY <1>1, <2>1 DEF CredentialsInv, ShownInv, AuthShown, AskedShown, PlaceShown,
                        GetAllowedAuths, Telnet, Dialogue, config, sshVars
    <2>3. LineInv'
      <3>1. CASE auth = "none"
        BY <1>1, <2>1, <3>1, LineStays DEF CredentialsInv, Before, world, client
      <3>2. CASE auth # "none"
        BY <1>1, <2>1, <3>2 DEF LineInv, AsksCredentials, Telnet, Before, config, sshVars
      <3> QED BY <3>1, <3>2
    <2> QED BY <2>2, <2>3 DEF CredentialsInv
  <1>3. CASE ~AcceptChannel
    <2>1. /\ \/ conn \in Before /\ conn' \in Before
             \/ conn' \in {"discard", "finally", "close", "closed"}
          /\ \/ conn \in {"handshake", "accept", "accepting"}
                  /\ conn' \in {"accept", "accepting"}
             \/ conn' \in {"finally", "close", "closed"}
      BY <1>3 DEF ChannelStep, StartServer, AcceptLoop, AcceptTimesOut, AcceptGivesUp,
                  FinallyClear, FinallyClose, Before
    <2>2. LineInv'
      BY <1>1, <2>1, LineStays DEF CredentialsInv, world, client
    <2>3. CASE conn \in {"handshake", "accept", "accepting"} /\ conn' \in {"accept", "accepting"}
      BY <1>1, <2>2, <2>3 DEF CredentialsInv, ShownInv, AuthShown, AskedShown, PlaceShown,
                              GetAllowedAuths, Telnet, Dialogue, config, sshVars
    <2>4. CASE conn' \in {"finally", "close", "closed"}
      BY <1>1, <2>2, <2>4, ShownStays DEF CredentialsInv
    <2> QED BY <2>1, <2>3, <2>4
  <1> QED BY <1>2, <1>3

LEMMA SendShown ==
  ASSUME TypeInv, CredentialsInv, SendStep
  PROVE  CredentialsInv'
  <1>1. /\ UNCHANGED <<config, world, client, sshVars>>
        /\ conn \in Dialogue
        /\ \/ conn' \in {"discard", "finally"}
           \/ /\ <<conn, conn'>> \in {<<"offer", "drain">>, <<"banner", "userPrompt">>,
                                      <<"userPrompt", "user">>, <<"passPrompt", "pass">>,
                                      <<"verdict", "session">>, <<"verdict", "refuse">>}
              /\ UNCHANGED line
    BY SendFacts
  <1>2. ShownInv'
    BY <1>1, ShownStays DEF CredentialsInv, Dialogue
  <1>3. LineInv'
    <2>1. CASE conn' \in {"discard", "finally"}
      BY <2>1 DEF LineInv, Before
    <2>2. CASE /\ <<conn, conn'>> \in {<<"offer", "drain">>, <<"banner", "userPrompt">>,
                                      <<"userPrompt", "user">>, <<"passPrompt", "pass">>}
               /\ UNCHANGED line
      BY <1>1, <2>2, LineStays DEF CredentialsInv, Before, world, client
    <2>3. CASE conn = "verdict" /\ conn' \in {"session", "refuse"} /\ UNCHANGED line
      <3>1. CloseLogin
        BY <2>3 DEF SendStep, SendOffer, SendBanner, SendUserPrompt, SendPassPrompt, SendRefusal,
                    Send
      <3>2. /\ conn' = "session" => Authenticated
            /\ conn' = "refuse" => ~Authenticated
        BY <2>3, <3>1 DEF CloseLogin, Send, Abandon
      <3>3. Authenticated' = Authenticated
        BY <2>3 DEF Authenticated, line
      <3>4. AsRead(2)'
        BY <1>1, <2>3, AsReadStands DEF CredentialsInv, LineInv, world, client
      <3> QED BY <2>3, <3>2, <3>3, <3>4 DEF LineInv, Before
    <2> QED BY <1>1, <2>1, <2>2, <2>3
  <1> QED BY <1>2, <1>3 DEF CredentialsInv

LEMMA ProtocolShown ==
  ASSUME TypeInv, CredentialsInv, ProtocolStep
  PROVE  CredentialsInv'
  <1>1. UNCHANGED <<config, world, sshVars, line>>
    BY DEF ProtocolStep, RecvCommand, RecvOption, DeadlinePasses, DrainTest, DropByte, DrainEnds
  <1>2. conn' = conn \/ (conn = "drain" /\ conn' = "banner") \/ conn' = "finally"
    BY DEF ProtocolStep, RecvCommand, RecvOption, DeadlinePasses, DrainTest, DropByte, DrainEnds,
           AfterDrain, Draining
  <1>3. coming = <<>> => coming' = <<>>
    BY DEF ProtocolStep, RecvCommand, RecvOption, DeadlinePasses, DrainTest, DropByte, DrainEnds,
           Receives, client
  <1> QED BY <1>1, <1>2, <1>3, LineStays, ShownStays
          DEF CredentialsInv, Before, Dialogue, world, sshVars

(* The line being read, by the lines read before it.                       *)
ReadsLine(n) == conn = IF n = 0 THEN "user" ELSE "pass"

LEMMA BeginsReading ==
  ASSUME LineInv, Reading
  PROVE  \E n \in 0 .. 1 : ReadsLine(n) /\ AsRead(n)
  <1>1. CASE conn = "user"
    <2>1. 0 \in 0 .. 1 /\ ReadsLine(0) /\ AsRead(0)
      BY <1>1 DEF LineInv, ReadsLine
    <2> QED BY <2>1
  <1>2. CASE conn = "pass"
    <2>1. 1 \in 0 .. 1 /\ ReadsLine(1) /\ AsRead(1)
      BY <1>2 DEF LineInv, ReadsLine
    <2> QED BY <2>1
  <1> QED BY <1>1, <1>2 DEF Reading

LEMMA EndsReading ==
  ASSUME NEW n \in 0 .. 1, ReadsLine(n), AsRead(n + 1)',
         conn' = IF conn = "user" THEN "passPrompt" ELSE "verdict"
  PROVE  LineInv'
  <1>1. CASE n = 0
    <2>1. n + 1 = 1 /\ conn' = "passPrompt"
      BY <1>1 DEF ReadsLine
    <2> QED BY <2>1 DEF LineInv, Before
  <1>2. CASE n = 1
    <2>1. n + 1 = 2 /\ conn' = "verdict"
      BY <1>2 DEF ReadsLine
    <2> QED BY <2>1 DEF LineInv, Before
  <1> QED BY <1>1, <1>2

LEMMA StillReading ==
  ASSUME NEW n \in 0 .. 1, ReadsLine(n), AsRead(n)', UNCHANGED conn
  PROVE  LineInv'
  <1>1. CASE n = 0
    BY <1>1 DEF ReadsLine, LineInv, Before
  <1>2. CASE n = 1
    BY <1>2 DEF ReadsLine, LineInv, Before
  <1> QED BY <1>1, <1>2

LEMMA ByteReadAsTyped ==
  ASSUME TypeInv, LineInv, ReadByte
  PROVE  LineInv'
  <1> DEFINE b == Head(coming)
  <1>1. /\ Reading /\ LineByte(b) /\ coming # <<>> /\ UNCHANGED config
        /\ b \in Byte
    BY Received DEF ReadByte, Receives, TypeInv, TypeOK
  <1>2. PICK n \in 0 .. 1 : ReadsLine(n) /\ AsRead(n)
    BY <1>1, BeginsReading
  <1>3. ~cut
    BY <1>1, <1>2 DEF AsRead, EndsRead
  <1> HIDE DEF b
  <1>4. CASE Skipped(b) /\ heard' = Append(heard, b) /\ skip_lf' = FALSE
             /\ UNCHANGED <<conn, buf, entered, cut>>
    <2>1. AsRead(n)'
      BY <1>1, <1>2, <1>3, <1>4, ReadsOneMore
    <2> QED BY <1>2, <1>4, <2>1, StillReading
  <1>5. CASE /\ ~Skipped(b) /\ b \in {"cr", "lf"}
             /\ heard' = Append(heard, b) /\ LineRead(b = "cr", FALSE)
    <2>1. AsRead(n + 1)'
      BY <1>1, <1>2, <1>3, <1>5, ReadsOneMore
    <2> QED BY <1>2, <1>5, <2>1, EndsReading DEF LineRead
  <1>6. CASE /\ ~Skipped(b) /\ b \notin {"cr", "lf"}
             /\ heard' = Append(heard, b)
             /\ buf' = Append(buf, b) /\ skip_lf' = FALSE
             /\ UNCHANGED <<conn, entered, cut>>
    <2>1. AsRead(n)'
      BY <1>1, <1>2, <1>3, <1>6, ReadsOneMore
    <2> QED BY <1>2, <1>6, <2>1, StillReading
  <1>7. CASE EchoFails
    BY <1>7 DEF EchoFails, Abandon, LineInv, Before
  <1> QED BY <1>1, <1>4, <1>5, <1>6, <1>7 DEF LineByte

(* The end of the stream: the line as far as it was typed, and no more.    *)
LEMMA EndReadAsTyped ==
  ASSUME TypeInv, LineInv, ReadEnds
  PROVE  LineInv'
  <1>1. /\ Reading /\ clientGone /\ coming = <<>> /\ LineRead(FALSE, TRUE)
        /\ UNCHANGED <<config, world, client, heard>>
    BY DEF ReadEnds
  <1>2. PICK n \in 0 .. 1 : ReadsLine(n) /\ AsRead(n)
    BY <1>1, BeginsReading
  <1>3. /\ heard \in Seq(Byte) /\ buf \in Seq(Byte) /\ entered \in Seq(Seq(Byte))
        /\ cut \in BOOLEAN
    BY DEF TypeInv, TypeOK, LineTypeOK
  <1>4. /\ entered' = Append(entered, buf) /\ buf' = <<>> /\ cut'
    BY <1>1, <1>3 DEF LineRead
  <1>5. /\ n \in Nat /\ Len(entered) = n /\ Typed(heard, n + 1, buf, Seconds)
        /\ \A k \in 1 .. n : Typed(heard, k, entered[k], Seconds)
        /\ Cardinality(LineEnds(heard, Seconds)) <= n
        /\ Cardinality(LineEnds(heard, Seconds)) \in Nat
    BY <1>2, <1>3, EndsFinite DEF AsRead, LinesTyped, EndsRead
  <1>6. /\ Len(entered') = n + 1 /\ entered'[n + 1] = buf
        /\ \A k \in 1 .. n : entered'[k] = entered[k]
    BY <1>3, <1>4, <1>5, AppendProperties
  <1>7. Typed(heard, n + 2, <<>>, Seconds)
    <2>1. n + 2 \in Nat \ {0} /\ Cardinality(LineEnds(heard, Seconds)) < (n + 2) - 1
      BY <1>5
    <2> QED BY <1>3, <2>1, TypedEmpty
  <1>8. Seconds' = Seconds
    BY <1>1 DEF Seconds, Telnet, config
  <1>9. LinesTyped(n + 1)'
    <2>1. \A k \in 1 .. n + 1 : Typed(heard, k, entered'[k], Seconds)
      <3> TAKE k \in 1 .. n + 1
      <3>1. k \in 1 .. n \/ k = n + 1
        BY <1>5
      <3> QED BY <1>5, <1>6, <3>1
    <2>2. (n + 1) + 1 = n + 2
      BY <1>5
    <2> QED BY <1>1, <1>4, <1>6, <1>7, <1>8, <2>1, <2>2 DEF LinesTyped
  <1>10. EndsRead(n + 1)'
    BY <1>1, <1>4, <1>5, <1>8 DEF EndsRead, world, client
  <1>11. AsRead(n + 1)'
    BY <1>9, <1>10 DEF AsRead
  <1> QED BY <1>1, <1>2, <1>11, EndsReading DEF LineRead

LEMMA ReadShown ==
  ASSUME TypeInv, CredentialsInv, ReadStep
  PROVE  CredentialsInv'
  <1>1. UNCHANGED <<config, sshVars>> /\ conn \in Dialogue /\ conn' \in Dialogue \cup {"finally"}
    BY DEF ReadStep, ReadByte, ReadTimesOut, ReadEnds, LineByte, LineRead, EchoFails, Abandon,
           Reading, Dialogue
  <1>2. ShownInv'
    BY <1>1, ShownStays DEF CredentialsInv
  <1>3. CASE ReadTimesOut
    <2>1. /\ UNCHANGED <<config, conn, line>> /\ Reading /\ ~clientGone
          /\ UNCHANGED <<clientGone, coming>>
      BY <1>3 DEF ReadTimesOut, world, client
    <2>2. LineInv'
      BY <2>1, LineStays DEF CredentialsInv, Reading
    <2> QED BY <1>2, <2>2 DEF CredentialsInv
  <1> QED BY <1>2, <1>3, ByteReadAsTyped, EndReadAsTyped DEF CredentialsInv, ReadStep

LEMMA CredentialsKept ==
  ASSUME TypeInv, CredentialsInv, [Next]_vars
  PROVE  CredentialsInv'
  <1>1. CASE ConnectionThread
    BY <1>1, ChannelShown, SendShown, ProtocolShown, ReadShown
       DEF ConnectionThread, ChannelStep, SendStep, ProtocolStep, ReadStep
  <1>2. CASE Environment \/ DeadlinePasses \/ UNCHANGED vars
    BY <1>2, EnvironmentShown
  <1> QED BY <1>1, <1>2 DEF Next, Rest

(* A name that matches is the configured one, or begins with it and "+".   *)
LEMMA MatchingName ==
  ASSUME NEW name \in Seq(Char \cup {"+"}), MatchUsername(name)
  PROVE  \/ name = Username
         \/ SubSeq(name, 1, Len(Username) + 1) = Append(Username, "+")
  <1> SUFFICES ASSUME name # Username
               PROVE  SubSeq(name, 1, Len(Username) + 1) = Append(Username, "+")
    OBVIOUS
  <1>1. PICK i \in DOMAIN name : name[i] = "+" /\ SubSeq(name, 1, i - 1) = Username
    BY DEF MatchUsername
  <1>2. DOMAIN name = 1 .. Len(name) /\ Len(name) \in Nat
    BY LenProperties
  <1>3. i \in Nat /\ 1 <= i /\ i <= Len(name)
    BY <1>2
  <1>4. Len(Username) = i - 1 /\ \A j \in 1 .. i - 1 : Username[j] = name[j]
    <2>1. Username = SubSeq(name, 1, i - 1)
      BY <1>1
    <2> QED BY <1>3, <2>1, SubSeqProperties
  <1>5. /\ SubSeq(name, 1, i) \in Seq(Char \cup {"+"}) /\ Len(SubSeq(name, 1, i)) = i
        /\ \A j \in 1 .. i : SubSeq(name, 1, i)[j] = name[j]
    BY <1>3, SubSeqProperties
  <1>6. /\ Append(Username, "+") \in Seq(Char \cup {"+"}) /\ Len(Append(Username, "+")) = i
        /\ Append(Username, "+")[i] = "+"
        /\ \A j \in 1 .. i - 1 : Append(Username, "+")[j] = Username[j]
    <2>1. Username \in Seq(Char \cup {"+"})
      BY CredentialsAssumption
    <2> QED BY <1>3, <1>4, <2>1, AppendProperties
  <1>7. \A j \in 1 .. i : SubSeq(name, 1, i)[j] = Append(Username, "+")[j]
    <2> TAKE j \in 1 .. i
    <2>1. j \in 1 .. i - 1 \/ j = i
      BY <1>3
    <2> QED BY <1>1, <1>3, <1>4, <1>5, <1>6, <2>1
  <1>8. SubSeq(name, 1, i) = Append(Username, "+")
    BY <1>5, <1>6, <1>7, SeqEqual
  <1> QED BY <1>3, <1>4, <1>8

(* The dialogue's comparison says what the typed lines say.                *)
LEMMA VerdictIsRight ==
  ASSUME TypeInv, AsRead(2)
  PROVE  Authenticated <=> TypedCredentials
  <1>1. /\ heard \in Seq(Byte) /\ entered \in Seq(Seq(Byte)) /\ Len(entered) = 2
        /\ Typed(heard, 1, entered[1], Seconds) /\ Typed(heard, 2, entered[2], Seconds)
    BY DEF TypeInv, TypeOK, LineTypeOK, AsRead, LinesTyped
  <1>2. Username \in Seq(Byte) /\ Password \in Seq(Byte)
    <2>1. Char \subseteq Byte
      BY DEF Byte, Data
    <2> QED BY <2>1, CredentialsAssumption
  <1>3. entered[1] \in Seq(Byte) /\ entered[2] \in Seq(Byte)
    <2>1. 1 \in 1 .. Len(entered) /\ 2 \in 1 .. Len(entered)
      BY <1>1
    <2> QED BY <1>1, <2>1, ElementOfSeq
  <1>4. ASSUME Authenticated PROVE TypedCredentials
    BY <1>1, <1>4 DEF Authenticated, TypedCredentials
  <1>5. ASSUME TypedCredentials PROVE Authenticated
    <2>1. entered[1] = Username /\ entered[2] = Password
      BY <1>1, <1>2, <1>3, <1>5, TypedUnique DEF TypedCredentials
    <2>2. <<Username, Password>> \in Seq(Seq(Byte)) /\ Len(<<Username, Password>>) = 2
          /\ <<Username, Password>>[1] = Username /\ <<Username, Password>>[2] = Password
      BY <1>2
    <2>3. \A k \in 1 .. 2 : entered[k] = <<Username, Password>>[k]
      <3> TAKE k \in 1 .. 2
      <3>1. k = 1 \/ k = 2
        OBVIOUS
      <3> QED BY <2>1, <2>2, <3>1
    <2> QED BY <1>1, <2>2, <2>3, SeqEqual DEF Authenticated
  <1> QED BY <1>4, <1>5

LEMMA CredentialsFollow ==
  ASSUME TypeInv, CredentialsInv PROVE CredentialsDecide
  <1>1. auth # "no" => auth \in GetAllowedAuths
    BY DEF CredentialsInv, ShownInv, AuthShown
  <1>2. conn = "refuse" => ~TypedCredentials
    BY VerdictIsRight DEF CredentialsInv, LineInv
  <1>3. ASSUME conn = "session", AsksCredentials PROVE TypedCredentials
    BY <1>3, VerdictIsRight DEF CredentialsInv, LineInv
  <1>4. ASSUME conn = "session", ~AsksCredentials
        PROVE  /\ shown.method = auth /\ shown.secret = "right"
               /\ shown.name = Username \/ SubSeq(shown.name, 1, Len(Username) + 1)
                                             = Append(Username, "+")
    <2>1. /\ shown.method = auth /\ shown.secret = "right" /\ MatchUsername(shown.name)
      BY <1>4 DEF CredentialsInv, ShownInv, AuthShown, PlaceShown, AsksCredentials
    <2>2. shown.name \in Seq(Char \cup {"+"})
      <3>1. shown.name \in Names \cup {<<>>}
        BY DEF TypeInv, TypeOK, AuthTypeOK
      <3>2. <<>> \in Seq(Char \cup {"+"})
        OBVIOUS
      <3> QED BY <3>1, <3>2, NamesAssumption
    <2> QED BY <2>1, <2>2, MatchingName
  <1> QED BY <1>1, <1>2, <1>3, <1>4 DEF CredentialsDecide, AsksCredentials

(* A session starts exactly for who has shown what the configuration asks  *)
(* for, for any credentials, any names and however much is typed: however  *)
(* the bytes of the two lines come, with CR, LF, CR LF or CR NUL between   *)
(* them, and whatever the end of the stream cuts off (interactive_login,   *)
(* read_line, the check_auth methods).                                     *)
THEOREM CredentialsCorrect == Spec => []CredentialsDecide
  BY TypeInvariant, CredentialsStart, CredentialsKept, CredentialsFollow, PTL DEF Spec

-----------------------------------------------------------------------------
(* The refinement.  Session sees the place, the threads it has not started *)
(* yet, and, when they start, what the last byte of the login left behind. *)

Seen == <<run_srv, thread, lastByte, inSession /\ skip_lf>>

LEMMA Unseen ==
  ASSUME UNCHANGED <<world, sessionConn, Seen>>
  PROVE  UNCHANGED OverTelnet!vars /\ UNCHANGED OverSsh!vars
  BY DEF world, Seen, OverTelnet!vars, OverTelnet!envVars, OverTelnet!inVars, OverTelnet!outVars,
         OverTelnet!connVars, OverTelnet!tapVars, OverTelnet!sendVars,
         OverSsh!vars, OverSsh!envVars, OverSsh!inVars, OverSsh!outVars, OverSsh!connVars,
         OverSsh!tapVars, OverSsh!sendVars

(* Nothing but run_srv is seen outside the session.                        *)
LEMMA SeenOutside ==
  ASSUME ~inSession, ~inSession'
  PROVE  /\ UNCHANGED <<thread, lastByte, inSession /\ skip_lf>>
         /\ thread = "new" /\ lastByte = <<>> /\ ~(inSession /\ skip_lf)
  BY DEF thread, lastByte

LEMMA SeenStands ==
  ASSUME UNCHANGED <<conn, skip_lf>>
  PROVE  UNCHANGED <<sessionConn, Seen>>
  BY DEF sessionConn, Seen, run_srv, thread, lastByte, inSession

Mapped == IF Telnet THEN OverTelnet!Next \/ UNCHANGED OverTelnet!vars
                    ELSE OverSsh!Next \/ UNCHANGED OverSsh!vars

LEMMA MapsStart == Init => (Telnet => OverTelnet!Init) /\ (~Telnet => OverSsh!Init)
  BY DEF Init, Telnet, OverTelnet!Init, OverSsh!Init, sessionConn, run_srv, thread, lastByte,
         inSession, Dialogue

(* Between two places Session does not tell apart nothing happens.         *)
LEMMA MapsInside ==
  ASSUME UNCHANGED <<config, world>>, ~inSession, ~inSession',
         UNCHANGED <<sessionConn, run_srv>>
  PROVE  Mapped
  BY SeenOutside, Unseen DEF Mapped, Seen

LEMMA MapsLoginFails ==
  ASSUME UNCHANGED <<config, world>>, conn \in Dialogue, conn' = "finally"
  PROVE  Mapped
  <1>1. /\ sessionConn = "login" /\ sessionConn' = "finally" /\ UNCHANGED run_srv
        /\ ~inSession /\ ~inSession'
    BY DEF sessionConn, run_srv, inSession, Dialogue
  <1>2. OverTelnet!LoginFails /\ OverSsh!LoginFails
    BY <1>1, SeenOutside DEF world, OverTelnet!LoginFails, OverTelnet!envVars, OverTelnet!inVars,
       OverTelnet!outVars, OverTelnet!tapVars, OverTelnet!sendVars,
       OverSsh!LoginFails, OverSsh!envVars, OverSsh!inVars,
       OverSsh!outVars, OverSsh!tapVars, OverSsh!sendVars
  <1> QED BY <1>2 DEF Mapped, OverTelnet!Next, OverTelnet!Connection, OverSsh!Next,
                      OverSsh!Connection

LEMMA MapsLoginSucceeds ==
  ASSUME TypeInv, UNCHANGED <<config, world, skip_lf>>, conn \in Dialogue, conn' = "session"
  PROVE  Mapped
  <1>1. /\ sessionConn = "login" /\ sessionConn' = "intro" /\ UNCHANGED run_srv
        /\ ~inSession /\ inSession'
    BY DEF sessionConn, run_srv, inSession, Dialogue
  <1>2. PICK last \in {"cr", "lf"} : skip_lf = (last = "cr")
    BY DEF TypeInv, TypeOK, LineTypeOK
  <1>3. /\ thread = "new" /\ thread' = "loop" /\ lastByte' = <<last>>
        /\ (inSession /\ skip_lf)' = (last = "cr")
    BY <1>1, <1>2 DEF thread, lastByte
  <1>4. OverTelnet!StartSession(last) /\ OverSsh!StartSession(last)
    BY <1>1, <1>3 DEF world, OverTelnet!StartSession, OverTelnet!envVars, OverTelnet!inVars,
       OverTelnet!outVars, OverSsh!StartSession, OverSsh!envVars, OverSsh!inVars,
       OverSsh!outVars
  <1>5. OverTelnet!LoginSucceeds /\ OverSsh!LoginSucceeds
    BY <1>1, <1>4 DEF OverTelnet!LoginSucceeds, OverSsh!LoginSucceeds
  <1> QED BY <1>5 DEF Mapped, OverTelnet!Next, OverTelnet!Connection, OverSsh!Next,
                      OverSsh!Connection

LEMMA MapsDialogue ==
  ASSUME TypeInv, UNCHANGED <<config, world>>, conn \in Dialogue,
         conn' \in Dialogue \cup {"finally"} \/ (conn' = "session" /\ UNCHANGED skip_lf)
  PROVE  Mapped
  <1>1. CASE conn' \in Dialogue
    <2>1. UNCHANGED <<sessionConn, run_srv>> /\ ~inSession /\ ~inSession'
      BY <1>1 DEF sessionConn, run_srv, inSession, Dialogue
    <2> QED BY <2>1, MapsInside
  <1> QED BY <1>1, MapsLoginFails, MapsLoginSucceeds

(* The client and the network.                                             *)
LEMMA MapsClientDisconnect ==
  ASSUME ClientDisconnect PROVE Mapped
  <1>1. /\ ~clientGone /\ clientGone' /\ UNCHANGED <<is_running, alive, sessionConn, Seen>>
    BY SeenStands DEF ClientDisconnect, line
  <1>2. OverTelnet!ClientDisconnect /\ OverSsh!ClientDisconnect
    BY <1>1 DEF ClientDisconnect, Seen,
       OverTelnet!ClientDisconnect, OverTelnet!inVars, OverTelnet!outVars, OverTelnet!connVars,
       OverTelnet!tapVars, OverTelnet!sendVars, OverSsh!ClientDisconnect, OverSsh!inVars,
       OverSsh!outVars, OverSsh!connVars, OverSsh!tapVars, OverSsh!sendVars
  <1> QED BY <1>2 DEF Mapped, OverTelnet!Next, OverTelnet!Environment, OverSsh!Next,
                      OverSsh!Environment

LEMMA MapsTransportDies ==
  ASSUME TransportDies PROVE Mapped
  <1>1. UNCHANGED <<sessionConn, Seen>>
    BY SeenStands DEF TransportDies, line
  <1>2. OverSsh!TransportDies
    BY <1>1 DEF TransportDies, Seen, OverSsh!TransportDies, OverSsh!inVars,
       OverSsh!outVars, OverSsh!connVars, OverSsh!tapVars, OverSsh!sendVars
  <1> QED BY <1>2 DEF TransportDies, Mapped, OverSsh!Next, OverSsh!Environment

LEMMA MapsServerStop ==
  ASSUME ServerStop PROVE Mapped
  <1>1. UNCHANGED <<sessionConn, Seen>>
    BY SeenStands DEF ServerStop, line
  <1>2. OverSsh!ServerStop
    BY <1>1 DEF ServerStop, Seen, OverSsh!ServerStop, OverSsh!inVars,
       OverSsh!outVars, OverSsh!connVars, OverSsh!tapVars, OverSsh!sendVars
  <1> QED BY <1>2 DEF ServerStop, Mapped, OverSsh!Next, OverSsh!Environment

LEMMA MapsEnvironment ==
  ASSUME Environment PROVE Mapped
  <1>1. CASE ClientDisconnect \/ TransportDies \/ ServerStop
    BY <1>1, MapsClientDisconnect, MapsTransportDies, MapsServerStop
  <1>2. CASE ~(ClientDisconnect \/ TransportDies \/ ServerStop)
    <2>1. CASE AuthenticationStep
      BY <2>1, SeenStands, Unseen DEF AuthenticationStep, Attempt, CheckAuthNone,
         CheckAuthPublickey, CheckAuthPassword, CheckAuthInteractive,
         CheckAuthInteractiveResponse, Mapped, line
    <2>2. CASE \/ \E b \in Data : ClientTypes(b)
               \/ ClientTypes255 \/ ClientCommands
               \/ \E verb \in Verb, option \in Option : ClientNegotiates(verb, option)
      BY <2>2, SeenStands, Unseen DEF ClientTypes, ClientTypes255, ClientCommands,
         ClientNegotiates, Sends, Mapped, line
    <2> QED BY <1>2, <2>1, <2>2 DEF Environment, AuthenticationStep
  <1> QED BY <1>1, <1>2

(* The connection's thread.                                                *)
LEMMA MapsAccept ==
  ASSUME TypeInv, ChannelStep PROVE Mapped
  <1> USE ChannelFacts, SeenOutside DEF world
  <1>1. /\ UNCHANGED <<config, is_running, clientGone, alive, skip_lf>>
        /\ ~inSession
    BY DEF inSession, line
  <1>2. ASSUME StartServer, conn' = "accept" PROVE Mapped
    <2>1. UNCHANGED <<sessionConn, run_srv>> /\ ~inSession'
      BY <1>2 DEF StartServer, sessionConn, run_srv, inSession, Dialogue
    <2> QED BY <1>1, <2>1, MapsInside
  <1>3. ASSUME AcceptGivesUp \/ (StartServer /\ conn' = "finally") PROVE Mapped
    <2>1. /\ sessionConn = "accept" /\ sessionConn' = "finally" /\ UNCHANGED run_srv
          /\ ~inSession' /\ (~is_running \/ ~alive)
      BY <1>3 DEF AcceptGivesUp, StartServer, sessionConn, run_srv, inSession, Dialogue
    <2>2. OverTelnet!AcceptGivesUp /\ OverSsh!AcceptGivesUp
      BY <1>1, <2>1 DEF OverTelnet!AcceptGivesUp, OverTelnet!envVars, OverTelnet!inVars,
         OverTelnet!outVars, OverTelnet!tapVars, OverTelnet!sendVars,
         OverSsh!AcceptGivesUp, OverSsh!envVars, OverSsh!inVars,
         OverSsh!outVars, OverSsh!tapVars, OverSsh!sendVars
    <2> QED BY <2>2 DEF Mapped, OverTelnet!Next, OverTelnet!Connection, OverTelnet!AcceptPolls,
                        OverSsh!Next, OverSsh!Connection, OverSsh!AcceptPolls
  <1>4. CASE AcceptLoop
    <2>1. /\ sessionConn = "accept" /\ sessionConn' = "accepting" /\ UNCHANGED run_srv
          /\ ~inSession' /\ is_running /\ alive
      BY <1>4 DEF AcceptLoop, sessionConn, run_srv, inSession, Dialogue
    <2>2. OverTelnet!AcceptLoop /\ OverSsh!AcceptLoop
      BY <1>1, <2>1 DEF OverTelnet!AcceptLoop, OverTelnet!envVars, OverTelnet!inVars,
         OverTelnet!outVars, OverTelnet!tapVars, OverTelnet!sendVars,
         OverSsh!AcceptLoop, OverSsh!envVars, OverSsh!inVars,
         OverSsh!outVars, OverSsh!tapVars, OverSsh!sendVars
    <2> QED BY <2>2 DEF Mapped, OverTelnet!Next, OverTelnet!Connection, OverTelnet!AcceptPolls,
                        OverSsh!Next, OverSsh!Connection, OverSsh!AcceptPolls
  <1>5. CASE AcceptTimesOut
    <2>1. /\ sessionConn = "accepting" /\ sessionConn' = "accept" /\ UNCHANGED run_srv
          /\ ~inSession'
      BY <1>5 DEF AcceptTimesOut, sessionConn, run_srv, inSession, Dialogue
    <2>2. OverTelnet!AcceptTimesOut /\ OverSsh!AcceptTimesOut
      BY <1>1, <2>1 DEF OverTelnet!AcceptTimesOut, OverTelnet!envVars, OverTelnet!inVars,
         OverTelnet!outVars, OverTelnet!tapVars, OverTelnet!sendVars,
         OverSsh!AcceptTimesOut, OverSsh!envVars, OverSsh!inVars,
         OverSsh!outVars, OverSsh!tapVars, OverSsh!sendVars
    <2> QED BY <2>2 DEF Mapped, OverTelnet!Next, OverTelnet!Connection, OverTelnet!AcceptPolls,
                        OverSsh!Next, OverSsh!Connection, OverSsh!AcceptPolls
  <1>6. ASSUME AcceptChannel, conn' = "userPrompt" PROVE Mapped
    <2>1. /\ sessionConn = "accepting" /\ sessionConn' = "login" /\ UNCHANGED run_srv
          /\ ~inSession'
      BY <1>6 DEF AcceptChannel, sessionConn, run_srv, inSession, Dialogue
    <2>2. OverTelnet!AcceptChannel /\ OverSsh!AcceptChannel
      BY <1>1, <2>1 DEF OverTelnet!AcceptChannel, OverTelnet!envVars, OverTelnet!inVars,
         OverTelnet!outVars, OverTelnet!tapVars, OverTelnet!sendVars,
         OverSsh!AcceptChannel, OverSsh!envVars, OverSsh!inVars,
         OverSsh!outVars, OverSsh!tapVars, OverSsh!sendVars
    <2> QED BY <2>2 DEF Mapped, OverTelnet!Next, OverTelnet!Connection, OverSsh!Next,
                        OverSsh!Connection
  <1>7. ASSUME AcceptChannel, conn' = "session" PROVE Mapped
    <2>1. /\ sessionConn = "accepting" /\ sessionConn' = "intro" /\ UNCHANGED run_srv
          /\ inSession' /\ ~skip_lf
      BY <1>7 DEF AcceptChannel, sessionConn, run_srv, inSession, Dialogue, TypeInv, LinesRead,
                  Early
    <2>2. /\ thread = "new" /\ thread' = "loop" /\ lastByte' = <<"lf">>
          /\ (inSession /\ skip_lf)' = FALSE
      BY <1>1, <2>1 DEF thread, lastByte
    <2>3. OverTelnet!StartSession("lf") /\ OverSsh!StartSession("lf")
      BY <1>1, <2>1, <2>2 DEF OverTelnet!StartSession, OverTelnet!envVars, OverTelnet!inVars,
         OverTelnet!outVars, OverSsh!StartSession, OverSsh!envVars, OverSsh!inVars,
         OverSsh!outVars
    <2>4. OverTelnet!AcceptAndStart /\ OverSsh!AcceptAndStart
      BY <2>1, <2>3 DEF OverTelnet!AcceptAndStart, OverSsh!AcceptAndStart
    <2> QED BY <2>4 DEF Mapped, OverTelnet!Next, OverTelnet!Connection, OverSsh!Next,
                        OverSsh!Connection
  <1>8. CASE FinallyClear
    <2>1. /\ sessionConn = "finally" /\ sessionConn' = "close" /\ ~run_srv'
          /\ ~inSession'
      BY <1>8 DEF FinallyClear, sessionConn, run_srv, inSession, Dialogue
    <2>2. OverTelnet!FinallyClear /\ OverSsh!FinallyClear
      BY <1>1, <2>1 DEF OverTelnet!FinallyClear, OverTelnet!envVars, OverTelnet!inVars,
         OverTelnet!outVars, OverTelnet!tapVars, OverTelnet!sendVars,
         OverSsh!FinallyClear, OverSsh!envVars, OverSsh!inVars,
         OverSsh!outVars, OverSsh!tapVars, OverSsh!sendVars
    <2> QED BY <2>2 DEF Mapped, OverTelnet!Next, OverTelnet!Connection, OverTelnet!ShellThread,
                        OverSsh!Next, OverSsh!Connection, OverSsh!ShellThread
  <1>9. CASE FinallyClose
    <2>1. /\ sessionConn = "close" /\ sessionConn' = "closed" /\ UNCHANGED run_srv
          /\ ~inSession'
      BY <1>9 DEF FinallyClose, sessionConn, run_srv, inSession, Dialogue
    <2>2. OverTelnet!FinallyClose /\ OverSsh!FinallyClose
      BY <1>1, <2>1 DEF OverTelnet!FinallyClose, OverTelnet!envVars, OverTelnet!inVars,
         OverTelnet!outVars, OverTelnet!tapVars, OverTelnet!sendVars,
         OverSsh!FinallyClose, OverSsh!envVars, OverSsh!inVars,
         OverSsh!outVars, OverSsh!tapVars, OverSsh!sendVars
    <2> QED BY <2>2 DEF Mapped, OverTelnet!Next, OverTelnet!Connection, OverTelnet!ShellThread,
                        OverSsh!Next, OverSsh!Connection, OverSsh!ShellThread
  <1> QED BY <1>2, <1>3, <1>4, <1>5, <1>6, <1>7, <1>8, <1>9
          DEF ChannelStep, StartServer, AcceptChannel

LEMMA MapsConnection ==
  ASSUME TypeInv, ConnectionThread PROVE Mapped
  <1>1. CASE ChannelStep
    BY <1>1, MapsAccept
  <1>2. CASE SendStep
    <2>1. conn' \in Dialogue \cup {"finally"} \/ (conn' = "session" /\ UNCHANGED skip_lf)
      BY <1>2, SendFacts DEF Dialogue, line
    <2> QED BY <1>2, <2>1, SendFacts, MapsDialogue
  <1>3. CASE ProtocolStep
    <2>1. UNCHANGED <<config, world>> /\ conn \in Dialogue /\ conn' \in Dialogue \cup {"finally"}
      BY <1>3 DEF ProtocolStep, RecvCommand, RecvOption, DeadlinePasses, DrainTest, DropByte,
                  DrainEnds, Receives, AfterDrain, Draining, Dialogue
    <2> QED BY <2>1, MapsDialogue
  <1>4. CASE ReadStep
    <2>1. UNCHANGED <<config, world>> /\ conn \in Dialogue /\ conn' \in Dialogue \cup {"finally"}
      BY <1>4 DEF ReadStep, ReadByte, ReadTimesOut, ReadEnds, LineByte, LineRead, EchoFails,
                  Abandon, Reading, Dialogue
    <2> QED BY <2>1, MapsDialogue
  <1> QED BY <1>1, <1>2, <1>3, <1>4
          DEF ConnectionThread, ChannelStep, SendStep, ProtocolStep, ReadStep

(* The dialogue, over either transport, for any credentials, any names and *)
(* any amount of typing, does what Session leaves open between the accept  *)
(* and the first line of the shell, and nothing else.                      *)
THEOREM RefinesSession == Spec => ImplementsSession
  <1>1. TypeInv /\ [Next]_vars => [Mapped]_vars
    <2> SUFFICES ASSUME TypeInv, Next PROVE Mapped
      OBVIOUS
    <2>1. CASE DeadlinePasses \/ Rest
      BY <2>1, SeenStands, Unseen DEF DeadlinePasses, Rest, vars, line, Mapped
    <2> QED BY <2>1, MapsEnvironment, MapsConnection DEF Next
  <1>2. (Telnet => OverTelnet!Init) /\ (~Telnet => OverSsh!Init) /\ [][Mapped]_vars
          => ImplementsSession
    BY DEF ImplementsSession, Mapped
  <1> QED BY <1>1, <1>2, MapsStart, TypeInvariant, PTL DEF Spec
=============================================================================
