----------------------------- MODULE RspLink_proofs -----------------------------
(***************************************************************************)
(* Proofs about one RSP link, for any number of commands, attempts, faults *)
(* and interrupts: its types, and that the client, the two readers of its  *)
(* socket and the server stay in step as long as no answer comes too late. *)
(***************************************************************************)
EXTENDS RspLink, SequenceTheorems, TLAPS

-----------------------------------------------------------------------------
(* Types, with what they rest on: only packets have a number on their way  *)
(* to the server, none come back, and a command that is under way has one. *)
Requests == {t \in Token : t.kind = "packet" => t.id \in Commands}
Answers == {t \in Token : t.kind # "packet"}
Types ==
  /\ LinkTypeOK
  /\ toServer \in Seq(Requests) /\ toClient \in Seq(Answers)
  /\ pc # "idle" => request \in Commands /\ retryCounter <= MaxAckTries /\ outcome = "none"
  /\ remote # "read" => serverCmd \in Commands

(* The first of a sequence and the rest.                                   *)
LEMMA HeadTail ==
  ASSUME NEW S, NEW s \in Seq(S), s # <<>>
  PROVE  Head(s) \in S /\ Tail(s) \in Seq(S)
OBVIOUS

(* A part of a sequence.                                                   *)
LEMMA Part ==
  ASSUME NEW S, NEW s \in Seq(S), NEW m \in 1 .. Len(s) + 1, NEW n \in 0 .. Len(s)
  PROVE  SubSeq(s, m, n) \in Seq(S)
OBVIOUS

(* The empty sequence.                                                     *)
LEMMA Empty == <<>> \in Seq(Token) /\ <<>> \in Seq(Requests) /\ <<>> \in Seq(Answers)
OBVIOUS

(* A sequence with one element more.                                       *)
LEMMA OneMore ==
  ASSUME NEW S, NEW s \in Seq(S), NEW x \in S
  PROVE  Append(s, x) \in Seq(S)
OBVIOUS

(* Sequences of either kind are sequences of tokens.                       *)
LEMMA AreTokens == Seq(Requests) \subseteq Seq(Token) /\ Seq(Answers) \subseteq Seq(Token)
<1>1. Requests \subseteq Token /\ Answers \subseteq Token
  BY DEF Requests, Answers
<1>2. ASSUME NEW S, S \subseteq Token, NEW s \in Seq(S) PROVE s \in Seq(Token)
  BY <1>2
<1> QED BY <1>1, <1>2

(* What either side sends is one of its tokens.                            *)
LEMMA Tokens ==
  /\ \A k \in {"+", "-", "$"} : Mark(k) \in Requests \cap Answers
  /\ \A c \in Commands, good \in BOOLEAN :
       /\ [kind |-> "packet", id |-> c, good |-> good] \in Requests
       /\ [kind |-> "body", id |-> c, good |-> good] \in Answers
BY DEF Mark, Requests, Answers, Token

(* What is damaged is counted.                                             *)
LEMMA Damaged ==
  ASSUME NEW good \in BOOLEAN
  PROVE  /\ Damage(good, late, MaxLate) => late' = late \/ (late < MaxLate /\ late' = late + 1)
         /\ Damage(good, faults, MaxFaults) =>
              faults' = faults \/ (faults < MaxFaults /\ faults' = faults + 1)
BY DEF Damage

(* Every step of the server or of the line keeps the types.                *)
LEMMA ServerTypes ==
  ASSUME Types, RemoteNext \/ ServerCloses \/ SetInterrupt
  PROVE  Types'
<1> USE RspLinkAssumption
<1>1. CASE ServerReads
  <2>1. toServer' \in Seq(Requests) /\ Head(toServer) \in Requests
    BY <1>1, HeadTail DEF ServerReads, Types
  <2>2. toClient' \in {toClient, Append(toClient, Mark("+")), Append(toClient, Mark("-"))}
    BY <1>1 DEF ServerReads
  <2>3. toClient' \in Seq(Answers)
    BY ZenonT(60), <2>2, OneMore, Tokens DEF Types
  <2>4. /\ remote' \in {"read", "execute", "reply", "body"}
        /\ serverCmd' \in Commands \cup {NoCommand}
        /\ remote' # "read" => serverCmd' \in Commands
    BY <1>1, <2>1 DEF ServerReads, Types, LinkTypeOK, Requests, NoCommand, Commands
  <2>5. toServer' \in Seq(Token) /\ toClient' \in Seq(Token)
    BY <2>1, <2>3, AreTokens
  <2> QED
    BY <1>1, <2>1, <2>3, <2>4, <2>5 DEF ServerReads, Types, LinkTypeOK, sending, receiving, result, counting
<1>2. CASE ServerExecutes
  BY <1>2 DEF ServerExecutes, Types, LinkTypeOK, line, sending, receiving, result, counting
<1>3. CASE ServerReplies
  <2>1. toClient' \in Seq(Answers)
    BY <1>3, OneMore, Tokens DEF ServerReplies, Types
  <2>2. toClient' \in Seq(Token)
    BY <2>1, AreTokens
  <2>3. late' = late \/ (late < MaxLate /\ late' = late + 1)
    BY <1>3, Damaged DEF ServerReplies
  <2>4. late' \in 0 .. MaxLate
    BY <2>3 DEF Types, LinkTypeOK
  <2> QED
    BY <1>3, <2>1, <2>2, <2>4 DEF ServerReplies, Types, LinkTypeOK, sending, receiving, result
<1>4. CASE ServerCloses
  BY <1>4 DEF ServerCloses, Types, LinkTypeOK, serverVars, sending, receiving, result, counting
<1>5. CASE SetInterrupt
  BY <1>5 DEF SetInterrupt, Types, LinkTypeOK, line, serverVars, sending, receiving, result
<1> QED BY <1>1, <1>2, <1>3, <1>4, <1>5 DEF RemoteNext

(* Taking a token off the buffer or the socket keeps their types.          *)
LEMMA TakeTypes ==
  ASSUME Types, TakeToken, HasToken
  PROVE  /\ buffer' \in Seq(Token)
         /\ toClient' \in Seq(Token) /\ toClient' \in Seq(Answers)
         /\ NextToken \in Token
<1> USE DEF Types, LinkTypeOK
<1>1. CASE buffer # <<>> /\ buffer' = Tail(buffer) /\ UNCHANGED toClient
  BY <1>1, HeadTail DEF NextToken
<1>2. ASSUME buffer = <<>>, NEW n \in 1 .. Len(toClient),
             buffer' = SubSeq(toClient, 2, n), toClient' = SubSeq(toClient, n + 1, Len(toClient))
      PROVE  /\ buffer' \in Seq(Token)
             /\ toClient' \in Seq(Token) /\ toClient' \in Seq(Answers)
             /\ NextToken \in Token
  <2>1. 2 \in 1 .. Len(toClient) + 1 /\ n + 1 \in 1 .. Len(toClient) + 1 /\ toClient # <<>>
    BY <1>2
  <2> QED BY SMTT(60), <1>2, <2>1, Part, HeadTail, AreTokens DEF NextToken
<1> QED BY <1>1, <1>2 DEF TakeToken

(* Every step of the client keeps them.                                    *)
LEMMA ClientTypes ==
  ASSUME Types, ExecuteCommand \/ ClientNext
  PROVE  Types'
<1> USE RspLinkAssumption
<1>1. CASE ExecuteCommand
  <2>1. request' \in Commands
    BY <1>1 DEF ExecuteCommand, Types, LinkTypeOK, Commands, NoCommand
  <2>2. retryCounter' \in 0 .. MaxAckTries + 1 /\ retryCounter' <= MaxAckTries
    BY <1>1 DEF ExecuteCommand
  <2>3. wait' \in BOOLEAN
    BY <1>1 DEF ExecuteCommand
  <2> QED
    BY ZenonT(60), <1>1, <2>1, <2>2, <2>3 DEF ExecuteCommand, Types, LinkTypeOK, line,
       serverVars, receiving, counting
<1>2. CASE SendPacket
  <2>1. toServer' \in Seq(Requests)
    BY <1>2, OneMore, Tokens DEF SendPacket, Forward, Types
  <2>2. toServer' \in Seq(Token)
    BY <2>1, AreTokens
  <2>3. faults' \in 0 .. MaxFaults
    BY <1>2, Damaged DEF SendPacket, Types, LinkTypeOK
  <2>4. buffer' \in Seq(Token) /\ pc' \in {"idle", "send", "ack", "start", "body"}
    BY <1>2, Empty DEF SendPacket, StartReceiving, Types, LinkTypeOK
  <2> QED
    BY <1>2, <2>1, <2>2, <2>3, <2>4 DEF SendPacket, Types, LinkTypeOK, serverVars, sending, receiving, result
<1>3. CASE ReadAck
  <2>1. Head(toClient) \in Answers /\ toClient' \in Seq(Answers)
    BY <1>3, HeadTail DEF ReadAck, Types
  <2>2. toClient' \in Seq(Token) /\ ackCharacter' \in {"NUL", "+", "-", "$", "body"}
    BY <1>3, <2>1, AreTokens DEF ReadAck, Answers, Token
  <2>3. /\ buffer' \in Seq(Token) /\ event' \in BOOLEAN
        /\ pc' \in {"idle", "send", "ack", "start", "body"}
    BY <1>3, Empty DEF ReadAck, EndOfTurn, StartReceiving, Types, LinkTypeOK
  <2> QED
    BY <1>3, <2>1, <2>2, <2>3 DEF ReadAck, Types, LinkTypeOK, serverVars, receiving, result, counting
<1>4. CASE AckFails
  <2>1. late' \in 0 .. MaxLate
    BY <1>4 DEF AckFails, Timeout, Types, LinkTypeOK
  <2>2. /\ retryCounter' \in 0 .. MaxAckTries + 1
        /\ pc' # "idle" => retryCounter' <= MaxAckTries /\ outcome' = "none"
    BY <1>4 DEF AckFails, Finish, IsMaxAttempts, EndOfTurn, StartReceiving, Types, LinkTypeOK
  <2>3. /\ buffer' \in Seq(Token) /\ event' \in BOOLEAN
        /\ pc' \in {"idle", "send", "ack", "start", "body"}
        /\ stage' \in {"qSupported", "QStartNoAckMode", "session", "failed"}
        /\ outcome' \in {"none", "ok", "empty", "error"}
    BY <1>4, Empty DEF AckFails, Finish, EndOfTurn, StartReceiving, Types, LinkTypeOK
  <2> QED
    BY <1>4, <2>1, <2>2, <2>3 DEF AckFails, Types, LinkTypeOK, serverVars, receiving
<1>5. CASE AckOfClosed
  <2>1. /\ buffer' \in Seq(Token) /\ event' \in BOOLEAN
        /\ pc' \in {"idle", "send", "ack", "start", "body"}
    BY <1>5, Empty DEF AckOfClosed, EndOfTurn, StartReceiving, Types, LinkTypeOK
  <2> QED
    BY <1>5, <2>1 DEF AckOfClosed, Types, LinkTypeOK, serverVars, sending, receiving, result, counting
<1>6. CASE WaitForPacketStart
  <2>1. /\ buffer' \in Seq(Token)
        /\ toClient' \in Seq(Token) /\ toClient' \in Seq(Answers)
    BY <1>6, TakeTypes DEF WaitForPacketStart
  <2>2. /\ pc' \in {"start", "body"} /\ misread' \in BOOLEAN
        /\ event' \in BOOLEAN /\ interruptFlag' \in BOOLEAN
    BY <1>6 DEF WaitForPacketStart, Types, LinkTypeOK
  <2> QED
    BY <1>6, <2>1, <2>2 DEF WaitForPacketStart, Types, LinkTypeOK, serverVars, sending, result, counting
<1>7. CASE StartFails
  <2>1. late' \in 0 .. MaxLate
    BY <1>7 DEF StartFails, ReceiveFails, Timeout, Types, LinkTypeOK
  <2>2. /\ pc' \in {"idle", "start"} /\ (pc' = "idle" \/ outcome' = outcome)
        /\ stage' \in {"qSupported", "QStartNoAckMode", "session", "failed"}
        /\ outcome' \in {"none", "ok", "empty", "error"}
        /\ event' \in BOOLEAN /\ interruptFlag' \in BOOLEAN
    BY <1>7 DEF StartFails, Finish, Types, LinkTypeOK
  <2> QED
    BY <1>7, <2>1, <2>2 DEF StartFails, Types, LinkTypeOK, serverVars, sending
<1>8. CASE BuildRspPacket
  <2>1. /\ buffer' \in Seq(Token)
        /\ toClient' \in Seq(Token) /\ toClient' \in Seq(Answers)
        /\ NextToken.id \in Commands \cup {NoCommand}
    BY <1>8, TakeTypes DEF BuildRspPacket, Token
  <2>2. toServer' \in Seq(Requests)
    BY <1>8, OneMore, Tokens DEF BuildRspPacket, AnswerPacket, Forward, Types
  <2>3. toServer' \in Seq(Token)
    BY <2>2, AreTokens
  <2>4. /\ noAckMode' \in BOOLEAN /\ misread' \in BOOLEAN /\ interruptFlag' \in BOOLEAN
        /\ stage' \in {"qSupported", "QStartNoAckMode", "session", "failed"}
    BY <1>8 DEF BuildRspPacket, SessionGoesOn, PacketFails, Finish, receiving, Types, LinkTypeOK
  <2>5. /\ outcome' \in {"none", "ok", "empty", "error"} /\ reply' \in Commands \cup {NoCommand}
        /\ pc' \in {"idle", "body"}
        /\ pc' # "idle" => outcome' = "none"
    BY <1>8, <2>1 DEF BuildRspPacket, PacketFails, Finish, result, Types, LinkTypeOK
  <2> QED
    BY <1>8, <2>1, <2>2, <2>3, <2>4, <2>5 DEF BuildRspPacket, Types, LinkTypeOK, serverVars, sending, counting
<1>9. CASE BodyFails
  <2>1. late' \in 0 .. MaxLate
    BY <1>9 DEF BodyFails, ReceiveFails, Timeout, Types, LinkTypeOK
  <2>2. /\ pc' = "idle" /\ misread' \in BOOLEAN
        /\ noAckMode' = noAckMode /\ reply' = reply /\ interruptFlag' = interruptFlag
        /\ stage' \in {"qSupported", "QStartNoAckMode", "session", "failed"}
        /\ outcome' \in {"none", "ok", "empty", "error"}
    BY <1>9 DEF BodyFails, PacketFails, Finish, Types, LinkTypeOK
  <2>3. LinkTypeOK'
    BY <1>9, <2>1, <2>2 DEF BodyFails, Types, LinkTypeOK, serverVars, sending
  <2> QED
    BY <1>9, <2>2, <2>3 DEF BodyFails, Types, serverVars
<1> QED BY <1>1, <1>2, <1>3, <1>4, <1>5, <1>6, <1>7, <1>8, <1>9 DEF ClientNext

(* The types always hold.                                                  *)
LEMMA TypesInvariant == LinkSpec => []Types
<1>1. LinkInit => Types
  <2>1. ASSUME LinkInit PROVE executed \in [Commands -> Nat]
    BY <2>1 DEF LinkInit
  <2>3. ASSUME LinkInit
        PROVE  /\ serverAcks \in BOOLEAN /\ closed \in BOOLEAN /\ wait \in BOOLEAN
               /\ misread \in BOOLEAN /\ interruptFlag \in BOOLEAN /\ noAckMode \in BOOLEAN
               /\ event \in BOOLEAN
    BY <2>3 DEF LinkInit
  <2>4. ASSUME LinkInit
        PROVE  /\ late \in 0 .. MaxLate /\ faults \in 0 .. MaxFaults
               /\ interrupts \in 0 .. MaxInterrupts /\ retryCounter \in 0 .. MaxAckTries + 1
    BY <2>4, RspLinkAssumption DEF LinkInit
  <2>2. ASSUME LinkInit PROVE LinkTypeOK
    BY <2>1, <2>2, <2>3, <2>4, Empty DEF LinkInit, LinkTypeOK
  <2> QED BY <2>2, Empty DEF LinkInit, Types
<1>2. Types /\ [LinkNext]_linkVars => Types'
  <2>1. ASSUME Types, UNCHANGED linkVars PROVE Types'
    <3>1. LinkTypeOK'
      BY <2>1 DEF Types, LinkTypeOK, linkVars, line, serverVars, sending, receiving, result, counting
    <3> QED BY <2>1, <3>1 DEF Types, linkVars, line, serverVars, sending, result
  <2> QED BY <2>1, ServerTypes, ClientTypes DEF LinkNext
<1> QED BY <1>1, <1>2, PTL DEF LinkSpec

-----------------------------------------------------------------------------
(* What the client has still to read, of its buffer and of the socket.     *)
Inbound == buffer \o toClient
Answer == [kind |-> "body", id |-> request, good |-> TRUE]
Pluses(s) == \A i \in DOMAIN s : s[i].kind = "+"
Packet == [kind |-> "packet", id |-> request, good |-> TRUE]

(* The reply as far as the server has sent it: whole, behind its "+" and   *)
(* without its start.                                                      *)
Rest ==
  IF remote = "body" THEN <<Mark("$")>>
  ELSE IF remote = "read" THEN <<Mark("$"), Answer>> ELSE <<>>
AckAndRest ==
  IF remote = "body" THEN <<Mark("+"), Mark("$")>>
  ELSE IF remote = "read" THEN <<Mark("+"), Mark("$"), Answer>> ELSE <<Mark("+")>>
AfterStart == IF remote = "read" THEN <<Answer>> ELSE <<>>

(* The phases of a command.  Nothing is under way: none is sent, or the    *)
(* last one has its reply, or its request was damaged on the way.          *)
Quiet ==
  /\ remote = "read" /\ Inbound = <<>>
  /\ Pluses(toServer)
  /\ pc \in {"idle", "send", "start"}
  /\ pc = "send" => executed[request] = 0

(* The request is on its way, whole or damaged.                            *)
Requested ==
  /\ remote = "read" /\ Inbound = <<>> /\ toServer # <<>>
  /\ \A i \in 1 .. Len(toServer) - 1 : toServer[i].kind = "+"
  /\ toServer[Len(toServer)].kind = "packet" /\ toServer[Len(toServer)].id = request
  /\ executed[request] = 0
  /\ pc = IF noAckMode THEN "start" ELSE "ack"

(* The server has refused it.                                              *)
Refused ==
  /\ remote = "read" /\ Inbound = <<Mark("-")>> /\ toServer = <<>>
  /\ executed[request] = 0
  /\ pc = "ack" \/ (pc = "start" /\ stage = "QStartNoAckMode")

(* The server executes it or has executed it once.                         *)
Working ==
  /\ serverCmd = request /\ toServer = <<>>
  /\ executed[request] = IF remote = "execute" THEN 0 ELSE 1
  /\ stage = "QStartNoAckMode" /\ remote # "execute" => ~serverAcks
  /\ \/ pc = "ack" /\ Inbound = AckAndRest
     \/ pc = "start" /\ stage = "QStartNoAckMode" /\ Inbound = AckAndRest
     \/ pc = "start" /\ Inbound = Rest
     \/ pc = "body" /\ remote \in {"body", "read"} /\ Inbound = AfterStart

(* The connection is closed and all of it is read.                         *)
Over == closed /\ Inbound = <<>> /\ outcome # "ok"

(* The two modes of acknowledgment, as the session's start sets them.      *)
Stages ==
  /\ stage = "qSupported" =>
       ~noAckMode /\ serverAcks /\ ~event /\ request = IF pc = "idle" THEN 0 ELSE 1
  /\ stage = "QStartNoAckMode" =>
       noAckMode /\ ~event /\ request = IF pc = "idle" THEN 1 ELSE 2
  /\ stage = "session" => noAckMode = ~serverAcks
  /\ stage = "failed" => pc = "idle"

(* No later command is executed yet.                                       *)
Counts ==
  \A c \in Commands : executed[c] <= 1 /\ (c > request => executed[c] = 0)

Phase == Quiet \/ Requested \/ Refused \/ Working \/ Over

Now ==
  /\ misread = FALSE
  /\ pc = "ack" => buffer = <<>>
  /\ outcome = "ok" => reply = request
  /\ Counts /\ Stages /\ Phase
InStep == late = 0 => Now

(* The properties follow: a command that succeeds is quiet.                *)
LEMMA InStepImplies ==
  ASSUME Types, InStep
  PROVE  SessionInStep /\ ReplyMatches /\ AtMostOnce
<1>1. ReplyMatches
  BY DEF InStep, Now, ReplyMatches
<1>2. AtMostOnce
  BY DEF InStep, Now, Counts, AtMostOnce
<1>3. ASSUME late = 0, outcome = "ok"
      PROVE  /\ toClient = <<>> /\ buffer = <<>> /\ remote = "read"
             /\ \A i \in DOMAIN toServer : toServer[i].kind = "+"
  <2>1. Quiet
    BY <1>3 DEF InStep, Now, Phase, Requested, Refused, Working, Over, Types
  <2>2. buffer \in Seq(Token) /\ toClient \in Seq(Token)
    BY DEF Types, LinkTypeOK
  <2>3. toClient = <<>> /\ buffer = <<>>
    BY <2>1, <2>2 DEF Quiet, Inbound
  <2> QED BY <2>1, <2>3 DEF Quiet, Pluses
<1>4. LineDrained
  BY <1>3 DEF LineDrained
<1>5. ModesAgree
  BY DEF InStep, Now, Stages, ModesAgree
<1> QED BY <1>1, <1>2, <1>4, <1>5 DEF SessionInStep, Types

-----------------------------------------------------------------------------
(* What the client reads and what the server sends, of the whole stream.   *)

(* Two streams, one after the other.                                       *)
LEMMA Streams ==
  ASSUME NEW S, NEW s \in Seq(S), NEW t \in Seq(S), NEW x \in S
  PROVE  /\ s \o t = <<>> <=> s = <<>> /\ t = <<>>
         /\ s \o Append(t, x) = Append(s \o t, x)
         /\ <<>> \o t = t
         /\ s \o t \in Seq(S)
OBVIOUS

(* The first of two streams that is not empty gives what is read first.    *)
LEMMA FirstOfTwo ==
  ASSUME NEW S, NEW s \in Seq(S), NEW t \in Seq(S), s # <<>>
  PROVE  /\ s \o t # <<>> /\ Head(s \o t) = Head(s)
         /\ Tail(s \o t) = Tail(s) \o t
OBVIOUS

(* A stream that is cut after its first element.                           *)
LEMMA CutInTwo ==
  ASSUME NEW S, NEW t \in Seq(S), NEW n \in 1 .. Len(t)
  PROVE  /\ t # <<>>
         /\ SubSeq(t, 2, n) \o SubSeq(t, n + 1, Len(t)) = Tail(t)
<1>1. t # <<>>
  OBVIOUS
<1>2. Tail(t) = SubSeq(t, 2, Len(t))
  BY <1>1, TailIsSubSeq
<1>3. 2 \in 1 .. Len(t) + 1 /\ n \in 2 - 1 .. Len(t) /\ Len(t) \in n .. Len(t)
  OBVIOUS
<1>4. SubSeq(t, 2, n) \o SubSeq(t, n + 1, Len(t)) = SubSeq(t, 2, Len(t))
  BY <1>3, ConcatAdjacentSubSeq
<1> QED BY <1>1, <1>2, <1>4

(* A token taken is the first of the stream.                               *)
LEMMA TakenIsFirst ==
  ASSUME Types, TakeToken, HasToken
  PROVE  Inbound # <<>> /\ NextToken = Head(Inbound) /\ Inbound' = Tail(Inbound)
<1>1. buffer \in Seq(Token) /\ toClient \in Seq(Token)
  BY DEF Types, LinkTypeOK
<1>2. CASE buffer # <<>> /\ buffer' = Tail(buffer) /\ UNCHANGED toClient
  BY <1>1, <1>2, FirstOfTwo DEF NextToken, Inbound
<1>3. ASSUME buffer = <<>>, NEW n \in 1 .. Len(toClient),
             buffer' = SubSeq(toClient, 2, n), toClient' = SubSeq(toClient, n + 1, Len(toClient))
      PROVE  Inbound # <<>> /\ NextToken = Head(Inbound) /\ Inbound' = Tail(Inbound)
  <2>1. Inbound = toClient
    BY <1>1, <1>3 DEF Inbound
  <2>2. Inbound' = Tail(toClient) /\ toClient # <<>>
    BY <1>1, <1>3, CutInTwo DEF Inbound
  <2> QED BY <1>3, <2>1, <2>2 DEF NextToken
<1> QED BY <1>2, <1>3 DEF TakeToken

(* Sequences of up to three tokens, one by one.                            *)
LEMMA Few ==
  ASSUME NEW S, NEW a \in S, NEW b \in S, NEW c \in S
  PROVE  /\ Append(<<>>, a) = <<a>>
         /\ Append(<<a>>, b) = <<a, b>>
         /\ Append(<<a, b>>, c) = <<a, b, c>>
<1>1. /\ <<a>> \in Seq(S) /\ <<a, b>> \in Seq(S) /\ <<a, b, c>> \in Seq(S)
      /\ Len(<<a>>) = 1 /\ Len(<<a, b>>) = 2 /\ Len(<<a, b, c>>) = 3
  OBVIOUS
<1>2. Append(<<a>>, b) = <<a, b>>
  <2>1. /\ Append(<<a>>, b) \in Seq(S) /\ Len(Append(<<a>>, b)) = 2
        /\ Append(<<a>>, b)[1] = a /\ Append(<<a>>, b)[2] = b
    BY <1>1, AppendProperties
  <2>2. \A i \in 1 .. 2 : Append(<<a>>, b)[i] = <<a, b>>[i]
    BY <2>1
  <2> QED BY <1>1, <2>1, <2>2, SeqEqual
<1>3. Append(<<a, b>>, c) = <<a, b, c>>
  <2>1. /\ Append(<<a, b>>, c) \in Seq(S) /\ Len(Append(<<a, b>>, c)) = 3
        /\ \A i \in 1 .. 3 : Append(<<a, b>>, c)[i] = IF i <= 2 THEN <<a, b>>[i] ELSE c
    BY <1>1, AppendProperties
  <2>2. \A i \in 1 .. 3 : Append(<<a, b>>, c)[i] = <<a, b, c>>[i]
    <3>1. \A i \in 1 .. 3 : i = 1 \/ i = 2 \/ i = 3
      OBVIOUS
    <3>2. /\ <<a, b>>[1] = a /\ <<a, b>>[2] = b
          /\ <<a, b, c>>[1] = a /\ <<a, b, c>>[2] = b /\ <<a, b, c>>[3] = c
      OBVIOUS
    <3> QED BY <2>1, <3>1, <3>2
  <2> QED BY <1>1, <2>1, <2>2, SeqEqual
<1> QED BY <1>2, <1>3

(* The reply that the server sends, token by token.                        *)
LEMMA ReplyRead ==
  /\ AckAndRest # <<>> /\ Head(AckAndRest) = Mark("+") /\ Tail(AckAndRest) = Rest
  /\ Rest # <<>> => /\ Head(Rest) = Mark("$") /\ Tail(Rest) = AfterStart
                    /\ remote \in {"body", "read"}
  /\ AfterStart # <<>> => /\ Head(AfterStart) = Answer /\ Tail(AfterStart) = <<>>
                          /\ remote = "read"
BY DEF AckAndRest, Rest, AfterStart

-----------------------------------------------------------------------------
(* The steps of the line and of the server, while no answer is late.       *)

(* Nothing that the client or the server keeps of a command changes.       *)
LEMMA Frame ==
  ASSUME Types, Now, closed => closed',
         UNCHANGED <<toServer, toClient, buffer, remote, serverCmd, serverAcks, executed, pc, stage,
                     request, noAckMode, outcome, reply, misread>>,
         event' = event \/ stage = "session"
  PROVE  Now'
<1>1. Inbound' = Inbound /\ AckAndRest' = AckAndRest /\ Rest' = Rest /\ AfterStart' = AfterStart
  BY DEF Inbound, AckAndRest, Rest, AfterStart, Answer
<1>2. Counts' /\ Stages'
  BY DEF Now, Counts, Stages
<1>3. Quiet => Quiet'
  BY <1>1 DEF Quiet, Pluses
<1>4. Requested => Requested'
  BY <1>1 DEF Requested
<1>5. Refused => Refused'
  BY <1>1 DEF Refused
<1>6. Working => Working'
  BY <1>1 DEF Working
<1>7. Over => Over'
  BY <1>1 DEF Over
<1> QED BY <1>2, <1>3, <1>4, <1>5, <1>6, <1>7 DEF Now, Phase

(* Behind acknowledgments only, a packet that is read is the last token.   *)
LEMMA OneLeft ==
  ASSUME NEW s \in Seq(Requests), s # <<>>, Head(s).kind # "+",
         \A i \in 1 .. Len(s) - 1 : s[i].kind = "+"
  PROVE  Len(s) = 1
<1>1. Len(s) \in Nat /\ Len(s) # 0 /\ s[1].kind # "+"
  OBVIOUS
<1>2. ASSUME NEW n \in Nat, n # 0, 1 \notin 1 .. n - 1 PROVE n = 1
  BY <1>2
<1>3. 1 \notin 1 .. Len(s) - 1
  BY <1>1
<1> QED BY <1>1, <1>2, <1>3

(* A sequence of two tokens or more without its first.                    *)
LEMMA TailOfMore ==
  ASSUME NEW S, NEW s \in Seq(S), Len(s) > 1
  PROVE  /\ Tail(s) # <<>> /\ Len(Tail(s)) = Len(s) - 1
         /\ \A i \in 1 .. Len(Tail(s)) : Tail(s)[i] = s[i + 1]
<1>1. s # <<>>
  OBVIOUS
<1>2. Len(Tail(s)) = Len(s) - 1
  BY <1>1, HeadTailProperties
<1>3. \A i \in 1 .. Len(Tail(s)) : Tail(s)[i] = s[i + 1]
  BY <1>1, HeadTailProperties
<1>4. Len(s) \in Nat
  OBVIOUS
<1>5. Tail(s) \in Seq(S)
  BY <1>1, HeadTailProperties
<1>6. Len(Tail(s)) # 0
  <2> DEFINE n == Len(s)  m == Len(Tail(s))
  <2>1. n > 1 /\ n \in Nat /\ m = n - 1
    BY <1>2, <1>4
  <2> HIDE DEF n, m
  <2>2. m # 0
    BY ONLY <2>1
  <2> QED BY <2>2 DEF m
<1>7. Tail(s) # <<>>
  BY <1>5, <1>6, EmptySeq
<1> QED BY <1>2, <1>3, <1>7, Zenon

(* The server takes a token off the line.                                  *)
LEMMA ServerReadsKeeps ==
  ASSUME Types, Now, ServerReads
  PROVE  Now'
<1> DEFINE token == Head(toServer)
<1>1. /\ toServer \in Seq(Requests) /\ toServer # <<>>
      /\ toClient \in Seq(Token) /\ buffer \in Seq(Token)
  BY DEF ServerReads, Types, LinkTypeOK
<1>2. /\ toServer' = Tail(toServer) /\ remote = "read" /\ ~closed
      /\ UNCHANGED <<buffer, closed, serverAcks, executed, pc, stage, request, noAckMode, event,
                     outcome, reply, misread>>
  BY DEF ServerReads, receiving, result
<1>3. Counts' /\ Stages' /\ misread' = FALSE /\ (pc' = "ack" => buffer' = <<>>)
      /\ (outcome' = "ok" => reply' = request')
  BY <1>2 DEF Now, Counts, Stages
<1>4. Quiet \/ Requested
  BY <1>1, <1>2 DEF Now, Phase, Refused, Working, Over
<1>5. CASE token.kind = "+"
  <2>1. UNCHANGED <<toClient, remote, serverCmd>>
    BY <1>5 DEF ServerReads
  <2>2. Inbound' = Inbound
    BY <1>2, <2>1 DEF Inbound
  <2>3. CASE Quiet
    <3>1. Pluses(toServer')
      BY <1>1, <1>2, <2>3 DEF Quiet, Pluses
    <3> QED BY <1>2, <1>3, <2>1, <2>2, <2>3, <3>1 DEF Now, Phase, Quiet
  <2>4. CASE Requested
    <3>1. toServer[Len(toServer)].kind = "packet" /\ Len(toServer) > 1
      BY <1>1, <1>5, <2>4 DEF Requested
    <3>2. /\ toServer' # <<>> /\ Len(toServer') = Len(toServer) - 1
          /\ \A i \in 1 .. Len(toServer') : toServer'[i] = toServer[i + 1]
      BY <1>1, <1>2, <3>1, TailOfMore
    <3>3. /\ \A i \in 1 .. Len(toServer') - 1 : toServer'[i].kind = "+"
          /\ toServer'[Len(toServer')] = toServer[Len(toServer)]
      BY SMTT(60), <1>1, <2>4, <3>1, <3>2 DEF Requested
    <3>4. Requested'
      BY <1>2, <2>1, <2>2, <2>4, <3>2, <3>3 DEF Requested
    <3> QED BY <1>3, <3>4 DEF Now, Phase
  <2> QED BY <1>4, <2>3, <2>4
<1>6. CASE token.kind # "+"
  <2>1. Requested
    BY <1>1, <1>4, <1>6 DEF Quiet, Pluses
  <2>2. Len(toServer) = 1
    BY <1>1, <1>6, <2>1, OneLeft DEF Requested
  <2>3. token.kind = "packet" /\ token.id = request /\ toServer' = <<>>
    BY <1>1, <1>2, <2>1, <2>2 DEF Requested
  <2>4. /\ Inbound = <<>> /\ buffer = <<>> /\ toClient = <<>> /\ executed[request] = 0
        /\ pc = IF noAckMode THEN "start" ELSE "ack"
    BY <1>1, <2>1, Streams DEF Requested, Inbound
  <2>5. CASE remote' = "execute" /\ serverCmd' = token.id /\
             toClient' = IF serverAcks THEN Append(toClient, Mark("+")) ELSE toClient
    <3>1. Inbound' = IF serverAcks THEN AckAndRest' ELSE Rest'
      BY <1>2, <2>4, <2>5 DEF Inbound, AckAndRest, Rest
    <3>2. \/ pc' = "ack" /\ serverAcks
          \/ pc' = "start" /\ (serverAcks => stage' = "QStartNoAckMode")
      BY <1>2, <2>4 DEF Now, Stages, Types, LinkTypeOK
    <3>3. Working'
      BY <1>2, <2>3, <2>4, <2>5, <3>1, <3>2 DEF Working
    <3> QED BY <1>3, <3>3 DEF Now, Phase
  <2>6. CASE UNCHANGED <<remote, serverCmd>> /\
             toClient' = IF serverAcks THEN Append(toClient, Mark("-")) ELSE toClient
    <3>1. CASE serverAcks
      <4>1. Inbound' = <<Mark("-")>>
        BY <1>2, <2>4, <2>6, <3>1 DEF Inbound
      <4>2. pc' = "ack" \/ (pc' = "start" /\ stage' = "QStartNoAckMode")
        BY <1>2, <2>4, <3>1 DEF Now, Stages, Types, LinkTypeOK
      <4>3. Refused'
        BY <1>2, <2>3, <2>4, <2>6, <4>1, <4>2 DEF Refused
      <4> QED BY <1>3, <4>3 DEF Now, Phase
    <3>2. CASE ~serverAcks
      <4>1. Inbound' = <<>>
        BY <1>2, <2>4, <2>6, <3>2 DEF Inbound
      <4>2. pc' = "start"
        BY <1>2, <2>4, <3>2 DEF Now, Stages, Types, LinkTypeOK
      <4>3. Quiet'
        BY <1>2, <2>3, <2>6, <4>1, <4>2 DEF Quiet, Pluses
      <4> QED BY <1>3, <4>3 DEF Now, Phase
    <3> QED BY <3>1, <3>2
  <2> QED BY <2>3, <2>5, <2>6 DEF ServerReads
<1> QED BY <1>5, <1>6

(* It executes the command, and sends the reply's start and the rest.      *)
LEMMA ServerWorksKeeps ==
  ASSUME Types, Now, late' = 0, late = 0, ServerExecutes \/ ServerReplies
  PROVE  Now'
<1>1. /\ UNCHANGED <<toServer, buffer, serverCmd, pc, stage, request, noAckMode, event, outcome,
                     reply, misread>>
      /\ ~closed /\ remote # "read"
  BY DEF ServerExecutes, ServerReplies, line, receiving, result
<1>2. /\ misread' = FALSE /\ (pc' = "ack" => buffer' = <<>>)
      /\ (outcome' = "ok" => reply' = request')
  BY <1>1 DEF Now
<1>3. Working /\ pc # "idle" /\ request \in Commands /\ serverCmd = request
  BY <1>1 DEF Now, Phase, Quiet, Requested, Refused, Working, Over, Types
<1>4. toClient \in Seq(Token) /\ buffer \in Seq(Token)
  BY DEF Types, LinkTypeOK
<1>5. CASE ServerExecutes
  <2>1. /\ executed' = [executed EXCEPT ![request] = 1] /\ remote = "execute" /\ remote' = "reply"
        /\ serverAcks' = (serverAcks /\ ~(request = 2 /\ noAckMode))
        /\ toClient' = toClient
    BY <1>3, <1>5 DEF ServerExecutes, Working, line, Types, LinkTypeOK
  <2>2. Counts'
    <3> SUFFICES ASSUME NEW c \in Commands
                 PROVE  executed'[c] <= 1 /\ (c > request' => executed'[c] = 0)
      BY DEF Counts
    <3>1. executed'[c] = IF c = request THEN 1 ELSE executed[c]
      BY <2>1 DEF Types, LinkTypeOK
    <3> QED BY <1>1, <1>3, <3>1 DEF Now, Counts, Commands
  <2>3. Stages'
    BY <1>1, <1>3, <2>1 DEF Now, Stages
  <2>4. Inbound' = Inbound /\ AckAndRest' = AckAndRest /\ Rest' = Rest
    BY <1>1, <2>1 DEF Inbound, AckAndRest, Rest
  <2>5. executed'[request'] = 1
    BY <1>1, <1>3, <2>1 DEF Types, LinkTypeOK
  <2>6. stage = "QStartNoAckMode" => ~serverAcks'
    BY <1>3, <2>1 DEF Now, Stages
  <2>7. Working'
    BY <1>1, <1>3, <2>1, <2>4, <2>5, <2>6 DEF Working
  <2> QED BY <1>2, <2>2, <2>3, <2>7 DEF Now, Phase
<1>6. CASE ServerReplies
  <2>1. /\ UNCHANGED <<serverAcks, executed>> /\ remote \in {"reply", "body"}
        /\ remote' = IF remote = "reply" THEN "body" ELSE "read"
        /\ toClient' = Append(toClient, IF remote = "reply" THEN Mark("$") ELSE Answer)
    <3>1. UNCHANGED <<serverAcks, executed>> /\ remote \in {"reply", "body"}
      BY <1>6 DEF ServerReplies
    <3>2. CASE remote = "reply"
      BY <1>6, <3>1, <3>2 DEF ServerReplies
    <3>3. CASE remote = "body"
      <4>1. PICK good \in BOOLEAN :
                   /\ Damage(good, late, MaxLate)
                   /\ toClient' = Append(toClient, [kind |-> "body", id |-> serverCmd,
                                                    good |-> good])
        BY <1>6, <3>3 DEF ServerReplies
      <4>2. good = TRUE
        <5>1. ~good => late' = late + 1
          BY <4>1, Zenon DEF Damage
        <5>2. late' # late + 1
          OBVIOUS
        <5> QED BY <5>1, <5>2, Zenon
      <4>3. toClient' = Append(toClient, Answer)
        BY <1>3, <4>1, <4>2 DEF Answer
      <4> QED BY <1>6, <3>1, <3>3, <4>3 DEF ServerReplies
    <3> QED BY <3>1, <3>2, <3>3
  <2>2. Counts' /\ Stages'
    BY <1>1, <2>1 DEF Now, Counts, Stages
  <2>3. Mark("$") \in Token /\ Answer \in Token
    BY <1>3 DEF Mark, Answer, Token
  <2>4. Inbound' = Append(Inbound, IF remote = "reply" THEN Mark("$") ELSE Answer)
    BY <1>1, <1>4, <2>1, <2>3, Streams DEF Inbound
  <2>5. /\ Inbound = AckAndRest => Inbound' = AckAndRest'
        /\ Inbound = Rest => Inbound' = Rest'
        /\ remote = "body" /\ Inbound = AfterStart => Inbound' = AfterStart'
    <3>1. Answer' = Answer
      BY <1>1 DEF Answer
    <3>2. CASE remote = "reply" /\ remote' = "body"
      <4>1. /\ AckAndRest = <<Mark("+")>> /\ AckAndRest' = <<Mark("+"), Mark("$")>>
            /\ Rest = <<>> /\ Rest' = <<Mark("$")>>
        BY <3>2 DEF AckAndRest, Rest
      <4>2. Mark("+") \in Token
        BY DEF Mark, Token
      <4> QED BY <2>3, <2>4, <3>2, <4>1, <4>2, Few
    <3>3. CASE remote = "body" /\ remote' = "read"
      <4>1. /\ AckAndRest = <<Mark("+"), Mark("$")>>
            /\ AckAndRest' = <<Mark("+"), Mark("$"), Answer>>
            /\ Rest = <<Mark("$")>> /\ Rest' = <<Mark("$"), Answer>>
            /\ AfterStart = <<>> /\ AfterStart' = <<Answer>>
        BY <3>1, <3>3 DEF AckAndRest, Rest, AfterStart
      <4>2. Mark("+") \in Token
        BY DEF Mark, Token
      <4> QED BY ZenonT(60), <2>3, <2>4, <3>3, <4>1, <4>2, Few
    <3> QED BY <2>1, <3>2, <3>3
  <2>6. Working'
    BY <1>1, <1>3, <2>1, <2>5 DEF Working
  <2> QED BY <1>2, <2>2, <2>6 DEF Now, Phase
<1> QED BY <1>5, <1>6

-----------------------------------------------------------------------------
(* The steps of the client.                                                *)

(* The buffer and the socket are empty when the stream is.                 *)
LEMMA StreamEmpty ==
  ASSUME Types
  PROVE  Inbound = <<>> <=> buffer = <<>> /\ toClient = <<>>
<1>1. buffer \in Seq(Token) /\ toClient \in Seq(Token)
  BY DEF Types, LinkTypeOK
<1> QED BY <1>1, Streams DEF Inbound

(* A new command, whose number is one that no packet has had.              *)
LEMMA ExecuteCommandKeeps ==
  ASSUME Types, Now, ExecuteCommand
  PROVE  Now'
<1>1. /\ UNCHANGED <<toServer, toClient, buffer, closed, remote, serverCmd, serverAcks, executed, stage,
                     misread, noAckMode, event, reply>>
      /\ pc = "idle" /\ pc' = "send" /\ outcome' = "none" /\ request' = request + 1
      /\ stage # "failed"
  BY DEF ExecuteCommand, line, serverVars
<1>2. request \in Nat /\ request' \in Commands
  <2>1. request \in Nat /\ request < MaxCommands
    BY DEF ExecuteCommand, Types, LinkTypeOK, Commands, NoCommand
  <2> QED BY <1>1, <2>1, RspLinkAssumption DEF Commands
<1>3. Counts' /\ executed'[request'] = 0
  BY <1>1, <1>2 DEF Now, Counts, Commands
<1>4. Stages'
  BY <1>1 DEF Now, Stages
<1>5. Inbound' = Inbound
  BY <1>1 DEF Inbound
<1>6. Quiet => Quiet'
  BY <1>1, <1>3, <1>5 DEF Quiet, Pluses
<1>7. Over => Over'
  BY <1>1, <1>5 DEF Over
<1>8. Quiet \/ Over
  BY <1>1 DEF Now, Phase, Requested, Refused, Working
<1>9. Phase'
  BY <1>6, <1>7, <1>8 DEF Phase
<1> QED BY <1>1, <1>3, <1>4, <1>9 DEF Now

(* Its packet, for the first time or again.                                *)
LEMMA SendPacketKeeps ==
  ASSUME Types, Now, SendPacket
  PROVE  Now'
<1>1. /\ UNCHANGED <<toClient, closed, remote, serverCmd, serverAcks, executed, stage, request, misread,
                     noAckMode, event, outcome, reply>>
      /\ pc = "send" /\ pc' = IF noAckMode THEN "start" ELSE "ack"
      /\ buffer' = <<>> \/ buffer' = buffer
  BY DEF SendPacket, StartReceiving, serverVars, receiving, result
<1>2. /\ outcome' = "none" /\ request \in Commands /\ stage # "failed"
      /\ Counts' /\ Stages'
  BY <1>1 DEF Types, Now, Counts, Stages
<1>3. Inbound = <<>>
  BY <1>1 DEF Now, Phase, Quiet, Requested, Refused, Working, Over
<1>4. buffer' = <<>> /\ toClient' = <<>>
  BY <1>1, <1>3, StreamEmpty
<1>5. Inbound' = <<>>
  BY <1>4 DEF Inbound
<1>6. CASE closed
  BY <1>1, <1>2, <1>4, <1>5, <1>6 DEF Now, Phase, Over
<1>7. CASE ~closed
  <2>1. Quiet
    BY <1>1, <1>7 DEF Now, Phase, Requested, Refused, Working, Over
  <2>2. PICK token \in Requests : /\ toServer' = Append(toServer, token)
                                  /\ token.kind = "packet" /\ token.id = request
    BY <1>2, <1>7, Tokens DEF SendPacket, Forward
  <2>3. /\ toServer' # <<>> /\ Len(toServer') = Len(toServer) + 1
        /\ toServer'[Len(toServer')] = token
        /\ \A i \in 1 .. Len(toServer') - 1 : toServer'[i] = toServer[i]
    BY <2>2, AppendProperties DEF Types
  <2>4. \A i \in 1 .. Len(toServer') - 1 : toServer'[i].kind = "+"
    BY <2>1, <2>3 DEF Quiet, Pluses, Types
  <2>5. Requested'
    BY <1>1, <1>5, <2>1, <2>2, <2>3, <2>4 DEF Requested, Quiet
  <2> QED BY <1>1, <1>2, <1>4, <2>5 DEF Now, Phase
<1> QED BY <1>6, <1>7

(* An acknowledgment, or the refusal of the packet.                        *)
LEMMA ReadAckKeeps ==
  ASSUME Types, Now, ReadAck
  PROVE  Now'
<1>1. /\ UNCHANGED <<toServer, closed, remote, serverCmd, serverAcks, executed, stage, request, misread,
                     noAckMode, outcome, reply>>
      /\ pc = "ack" /\ toClient # <<>> /\ toClient' = Tail(toClient)
      /\ EndOfTurn(Head(toClient).kind)
  BY DEF ReadAck, serverVars, receiving, result
<1>2. buffer = <<>> /\ buffer' = <<>> /\ pc' # "idle" /\ (event' = event \/ event' = FALSE)
  BY <1>1 DEF Now, EndOfTurn, StartReceiving
<1>3. Counts' /\ Stages'
  BY <1>1, <1>2 DEF Now, Counts, Stages
<1>4. Inbound = toClient /\ Inbound' = toClient'
  BY <1>1, <1>2, HeadTail, Streams DEF Inbound, Types, LinkTypeOK
<1>5. Refused \/ Working
  BY <1>1, <1>4 DEF Now, Phase, Quiet, Requested, Over
<1>6. CASE Refused
  <2>1. Head(toClient).kind = "-" /\ Inbound' = <<>>
    BY <1>1, <1>4, <1>6 DEF Refused, Mark
  <2>2. pc' \in {"start", "send"}
    BY <1>1, <2>1 DEF EndOfTurn, StartReceiving, IsNakOrStartPacket
  <2>3. Quiet'
    BY <1>1, <1>6, <2>1, <2>2 DEF Quiet, Refused, Pluses
  <2> QED BY <1>1, <1>2, <1>3, <2>3 DEF Now, Phase
<1>7. CASE Working
  <2>1. Inbound = AckAndRest
    BY <1>1, <1>7 DEF Working
  <2>2. Head(toClient).kind = "+" /\ Inbound' = Rest
    BY <1>1, <1>4, <2>1, ReplyRead DEF Mark
  <2>3. pc' = "start" /\ Rest' = Rest
    BY <1>1, <2>2 DEF EndOfTurn, StartReceiving, Rest, Answer
  <2>4. Working'
    BY <1>1, <1>7, <2>2, <2>3 DEF Working
  <2> QED BY <1>1, <1>2, <1>3, <2>4 DEF Now, Phase
<1> QED BY <1>5, <1>6, <1>7

(* No receive of an acknowledgment fails before the connection is closed.  *)
LEMMA AckFailsKeeps ==
  ASSUME Types, Now, late = 0, late' = 0, AckFails
  PROVE  FALSE
<1>1. ~closed /\ toClient = <<>> /\ pc = "ack" /\ toServer = <<>> /\ remote = "read"
  BY DEF AckFails, Timeout, AnswerUnderWay
<1>2. Inbound = <<>>
  BY <1>1, StreamEmpty DEF Now
<1> QED BY <1>1, <1>2, ReplyRead DEF Now, Phase, Quiet, Requested, Refused, Working, Over

(* The acknowledgement of a connection that is closed.                     *)
LEMMA AckOfClosedKeeps ==
  ASSUME Types, Now, AckOfClosed
  PROVE  Now'
<1>1. /\ UNCHANGED <<toServer, toClient, closed, remote, serverCmd, serverAcks, executed, stage, request,
                     misread, noAckMode, outcome, reply>>
      /\ pc = "ack" /\ toClient = <<>> /\ closed /\ EndOfTurn(ackCharacter)
  BY DEF AckOfClosed, serverVars, receiving, result
<1>2. buffer = <<>> /\ buffer' = <<>> /\ pc' # "idle" /\ (event' = event \/ event' = FALSE)
  BY <1>1 DEF Now, EndOfTurn, StartReceiving
<1>3. Counts' /\ Stages'
  BY <1>1, <1>2 DEF Now, Counts, Stages
<1>4. Inbound' = <<>> /\ outcome = "none"
  BY <1>1, <1>2 DEF Inbound, Types
<1> QED BY <1>1, <1>2, <1>3, <1>4 DEF Now, Phase, Over

(* The packet's start is found where the server has sent it.               *)
LEMMA WaitForPacketStartKeeps ==
  ASSUME Types, Now, WaitForPacketStart
  PROVE  Now'
<1>1. /\ UNCHANGED <<toServer, closed, remote, serverCmd, serverAcks, executed, stage, request,
                     noAckMode, outcome, reply>>
      /\ pc = "start" /\ event' = FALSE
      /\ IF event \/ NextToken.kind = "$"
         THEN pc' = "body" /\ misread' = (NextToken.kind # "$")
         ELSE UNCHANGED <<pc, misread>>
  BY DEF WaitForPacketStart, serverVars, result
<1>2. Inbound # <<>> /\ NextToken = Head(Inbound) /\ Inbound' = Tail(Inbound)
  BY TakenIsFirst DEF WaitForPacketStart
<1>3. outcome = "none" /\ stage # "failed" /\ pc' # "idle" /\ pc' # "ack"
  BY <1>1 DEF Now, Stages, Types
<1>4. Counts' /\ Stages'
  BY <1>1, <1>3 DEF Now, Counts, Stages
<1>5. Refused \/ Working
  BY <1>1, <1>2 DEF Now, Phase, Quiet, Requested, Over
<1>6. CASE Refused
  <2>1. stage = "QStartNoAckMode" /\ ~event
    BY <1>1, <1>6 DEF Refused, Now, Stages
  <2>2. NextToken.kind = "-" /\ Inbound' = <<>>
    BY <1>2, <1>6 DEF Refused, Mark
  <2>3. Quiet' /\ misread' = FALSE
    BY <1>1, <1>6, <2>1, <2>2 DEF Quiet, Refused, Pluses, Now
  <2> QED BY <1>1, <1>3, <1>4, <2>3 DEF Now, Phase
<1>7. CASE Working /\ stage = "QStartNoAckMode" /\ Inbound = AckAndRest
  <2>1. ~event
    BY <1>7 DEF Now, Stages
  <2>2. NextToken.kind = "+" /\ Inbound' = Rest
    BY <1>2, <1>7, ReplyRead DEF Mark
  <2>3. pc' = "start" /\ misread' = FALSE /\ Rest' = Rest
    BY <1>1, <2>1, <2>2 DEF Now, Rest, Answer
  <2>4. Working'
    BY <1>1, <1>7, <2>2, <2>3 DEF Working
  <2> QED BY <1>1, <1>3, <1>4, <2>3, <2>4 DEF Now, Phase
<1>8. CASE Working /\ Inbound = Rest
  <2>1. NextToken.kind = "$" /\ Inbound' = AfterStart /\ remote \in {"body", "read"}
    BY <1>2, <1>8, ReplyRead DEF Mark
  <2>2. pc' = "body" /\ misread' = FALSE /\ AfterStart' = AfterStart
    BY <1>1, <2>1 DEF AfterStart, Answer
  <2>3. Working'
    BY <1>1, <1>8, <2>1, <2>2 DEF Working
  <2> QED BY <1>1, <1>3, <1>4, <2>2, <2>3 DEF Now, Phase
<1> QED BY <1>1, <1>5, <1>6, <1>7, <1>8 DEF Working

(* A receive that fails finds nothing under way, or a closed connection.   *)
LEMMA ReceiveFailsWhen ==
  ASSUME Types, late = 0, late' = 0, ReceiveFails
  PROVE  /\ Inbound = <<>>
         /\ closed \/ (toServer = <<>> /\ remote = "read")
<1>1. buffer = <<>> /\ toClient = <<>>
  BY DEF ReceiveFails, Timeout
<1>2. closed \/ (toServer = <<>> /\ remote = "read")
  BY DEF ReceiveFails, Timeout, AnswerUnderWay
<1> QED BY <1>1, <1>2, StreamEmpty

(* No packet begins.                                                       *)
LEMMA StartFailsKeeps ==
  ASSUME Types, Now, late = 0, late' = 0, StartFails
  PROVE  Now'
<1>1. /\ UNCHANGED <<toServer, toClient, buffer, closed, remote, serverCmd, serverAcks, executed, request,
                     misread, noAckMode, reply>>
      /\ pc = "start" /\ ReceiveFails
  BY DEF StartFails, serverVars
<1>2. outcome = "none"
  BY <1>1 DEF Types
<1>3. /\ pc' \in {"idle", "start"} /\ outcome' # "ok" /\ (event' = event \/ event' = FALSE)
      /\ stage' = IF stage = "session" \/ pc' = "start" THEN stage ELSE "failed"
  BY <1>1, <1>2 DEF StartFails, Finish
<1>4. Counts' /\ Stages'
  BY <1>1, <1>3 DEF Now, Counts, Stages
<1>5. Inbound = <<>> /\ Inbound' = <<>> /\ (closed \/ (toServer = <<>> /\ remote = "read"))
  BY <1>1, ReceiveFailsWhen DEF Inbound
<1>6. Quiet \/ closed
  <2>1. ~Refused /\ (Requested => closed) /\ (Over => closed)
    BY <1>5 DEF Requested, Refused, Over
  <2>2. Working => remote # "read"
    BY <1>1, <1>5, ReplyRead DEF Working, Rest
  <2> QED BY <1>5, <2>1, <2>2 DEF Now, Phase
<1>7. CASE Quiet
  BY <1>1, <1>3, <1>4, <1>5, <1>7 DEF Now, Phase, Quiet, Pluses
<1>8. CASE closed
  BY <1>1, <1>3, <1>4, <1>5, <1>8 DEF Now, Phase, Over
<1> QED BY <1>6, <1>7, <1>8

(* The rest of the packet is the answer to the command.                    *)
LEMMA BuildRspPacketKeeps ==
  ASSUME Types, Now, BuildRspPacket
  PROVE  Now'
<1>1. /\ UNCHANGED <<closed, remote, serverCmd, serverAcks, executed, request, event>>
      /\ pc = "body"
  BY DEF BuildRspPacket, serverVars
<1>2. Inbound # <<>> /\ NextToken = Head(Inbound) /\ Inbound' = Tail(Inbound)
  BY TakenIsFirst DEF BuildRspPacket
<1>3. Working
  BY <1>1, <1>2 DEF Now, Phase, Quiet, Requested, Refused, Over
<1>4. remote = "read" /\ NextToken = Answer /\ Inbound' = <<>>
  BY <1>1, <1>2, <1>3, ReplyRead DEF Working
<1>5. NextToken.kind = "body" /\ NextToken.good /\ ~misread /\ NextToken.id = request
  BY <1>4 DEF Answer, Now
<1>6. /\ AnswerPacket("+") /\ reply' = request /\ outcome' = "ok" /\ pc' = "idle"
      /\ UNCHANGED receiving
      /\ \E positive \in BOOLEAN : SessionGoesOn(positive)
  BY <1>5 DEF BuildRspPacket
<1>7. Counts' /\ misread' = FALSE
  BY <1>1, <1>6 DEF Now, Counts, receiving
<1>8. Stages'
  <2>1. \/ /\ stage = "qSupported" /\ stage' = "QStartNoAckMode" /\ noAckMode' = TRUE
        \/ /\ stage = "qSupported" /\ stage' = "session" /\ noAckMode' = noAckMode
        \/ /\ stage # "qSupported" /\ stage' \in {"session", "failed"}
           /\ noAckMode' = noAckMode
    BY <1>6 DEF SessionGoesOn, Types, LinkTypeOK
  <2>2. stage # "failed" /\ (stage = "QStartNoAckMode" => ~serverAcks)
    BY <1>1, <1>3, <1>4 DEF Now, Stages, Working
  <2> QED BY <1>1, <1>6, <2>1, <2>2 DEF Now, Stages, Types, LinkTypeOK
<1>9. Pluses(toServer')
  <2>1. toServer = <<>>
    BY <1>3 DEF Working
  <2>2. toServer' \in {<<>>, <<Mark("+")>>}
    BY <1>6, <2>1, Few, Tokens DEF AnswerPacket, Forward
  <2> QED BY <2>2 DEF Pluses, Mark
<1>10. Quiet'
  BY <1>1, <1>4, <1>6, <1>9 DEF Quiet
<1> QED BY <1>1, <1>6, <1>7, <1>8, <1>10 DEF Now, Phase

(* A packet that began does not go on.                                     *)
LEMMA BodyFailsKeeps ==
  ASSUME Types, Now, late = 0, late' = 0, BodyFails
  PROVE  Now'
<1>1. /\ UNCHANGED <<toServer, toClient, buffer, closed, remote, serverCmd, serverAcks, executed, request,
                     noAckMode, event, reply>>
      /\ pc = "body" /\ pc' = "idle" /\ ReceiveFails /\ misread' = FALSE /\ outcome' # "ok"
      /\ stage' = IF stage = "session" THEN stage ELSE "failed"
  BY DEF BodyFails, PacketFails, Finish, serverVars
<1>2. Counts' /\ Stages'
  BY <1>1 DEF Now, Counts, Stages
<1>3. Inbound = <<>> /\ Inbound' = <<>> /\ (closed \/ (toServer = <<>> /\ remote = "read"))
  BY <1>1, ReceiveFailsWhen DEF Inbound
<1>4. closed
  BY <1>1, <1>3 DEF Now, Phase, Quiet, Requested, Refused, Working, Over, AfterStart
<1> QED BY <1>1, <1>2, <1>3, <1>4 DEF Now, Phase, Over

-----------------------------------------------------------------------------
(* No step makes an answer that was late timely.                           *)
LEMMA LateGrows ==
  ASSUME Types, [LinkNext]_linkVars, late' = 0
  PROVE  late = 0
<1>1. late \in Nat
  BY RspLinkAssumption DEF Types, LinkTypeOK
<1>2. late' = late \/ late' = late + 1
  <2>1. CASE ServerReplies
    BY <2>1, Damaged DEF ServerReplies
  <2>2. CASE AckFails \/ StartFails \/ BodyFails
    BY <2>2 DEF AckFails, StartFails, BodyFails, ReceiveFails, Timeout
  <2>3. CASE \/ ServerReads \/ ServerExecutes \/ ServerCloses \/ SetInterrupt \/ ExecuteCommand
             \/ SendPacket \/ ReadAck \/ AckOfClosed \/ WaitForPacketStart \/ BuildRspPacket
             \/ UNCHANGED linkVars
    BY <2>3 DEF ServerReads, ServerExecutes, ServerCloses, SetInterrupt, ExecuteCommand, SendPacket,
                ReadAck, AckOfClosed, WaitForPacketStart, BuildRspPacket, linkVars, counting
  <2> QED BY <2>1, <2>2, <2>3 DEF LinkNext, RemoteNext, ClientNext
<1> QED BY <1>1, <1>2

(* Every step keeps the invariant.                                         *)
LEMMA InStepKept ==
  ASSUME Types, InStep, [LinkNext]_linkVars
  PROVE  InStep'
<1> SUFFICES ASSUME late' = 0 PROVE Now'
  BY DEF InStep
<1>1. late = 0 /\ Now
  BY LateGrows DEF InStep
<1>2. CASE ServerCloses \/ SetInterrupt \/ UNCHANGED linkVars
  BY <1>1, <1>2, Frame DEF ServerCloses, SetInterrupt, linkVars, line, serverVars, receiving, result
<1>3. CASE RemoteNext
  BY <1>1, <1>3, ServerReadsKeeps, ServerWorksKeeps DEF RemoteNext
<1>4. CASE ExecuteCommand
  BY <1>1, <1>4, ExecuteCommandKeeps
<1>5. CASE ClientNext
  BY <1>1, <1>5, SendPacketKeeps, ReadAckKeeps, AckFailsKeeps, AckOfClosedKeeps,
     WaitForPacketStartKeeps, StartFailsKeeps, BuildRspPacketKeeps, BodyFailsKeeps DEF ClientNext
<1> QED BY <1>2, <1>3, <1>4, <1>5 DEF LinkNext

(* It holds at the start.                                                  *)
LEMMA InStepAtFirst == LinkInit => InStep
<1> SUFFICES ASSUME LinkInit PROVE Now
  BY DEF InStep
<1>1. Inbound = <<>>
  BY DEF LinkInit, Inbound
<1>2. Counts /\ Stages
  BY DEF LinkInit, Counts, Stages, NoCommand
<1>3. Quiet
  BY <1>1 DEF LinkInit, Quiet, Pluses
<1> QED BY <1>2, <1>3 DEF LinkInit, Now, Phase

(* It always holds.                                                        *)
LEMMA InStepInvariant == LinkSpec => []InStep
<1>1. Types /\ InStep /\ [LinkNext]_linkVars => InStep'
  BY InStepKept
<1> QED BY <1>1, InStepAtFirst, TypesInvariant, PTL DEF LinkSpec

-----------------------------------------------------------------------------
(* Every variable keeps its type: no token is lost track of, and no retry  *)
(* is counted past MAX_PACKETS_ATTEMPTS.                                   *)
THEOREM TypesCorrect == LinkSpec => []LinkTypeOK
<1>1. Types => LinkTypeOK
  BY DEF Types
<1> QED BY <1>1, TypesInvariant, PTL

(* As long as no answer comes too late, a command that succeeds leaves the *)
(* line, the socket and the buffer empty, and both sides agree on the mode *)
(* of acknowledgment once the session has started.                         *)
THEOREM KeptInStep == LinkSpec => []SessionInStep
<1>1. Types /\ InStep => SessionInStep
  BY InStepImplies
<1> QED BY <1>1, TypesInvariant, InStepInvariant, PTL

(* The reply that SendRspPacket and ReceiveRspPacket accept for a command  *)
(* is the reply to that command, whatever is damaged or interrupted.       *)
THEOREM RepliesMatch == LinkSpec => []ReplyMatches
<1>1. Types /\ InStep => ReplyMatches
  BY InStepImplies
<1> QED BY <1>1, TypesInvariant, InStepInvariant, PTL

(* The server executes no command twice, however often it is sent.         *)
THEOREM ExecutedAtMostOnce == LinkSpec => []AtMostOnce
<1>1. Types /\ InStep => AtMostOnce
  BY InStepImplies
<1> QED BY <1>1, TypesInvariant, InStepInvariant, PTL

=============================================================================
