------------------------------- MODULE RspLink -------------------------------
(***************************************************************************)
(* GdbSrvRspClient on one TCP connection: SendRspPacket, ReceiveRspPacket  *)
(* and the start of the session, which turns the acknowledgments off.  (An *)
(* agent's name, which some configurations send first, is left out.)  One  *)
(* thread executes commands, one after the other; another may set the      *)
(* interrupt event at any time.  The server is external: it acknowledges,  *)
(* executes and answers every packet that arrives intact, and sends its    *)
(* last reply again on a "-".                                              *)
(*                                                                         *)
(* The stream is kept by its tokens: "+", "-", "$" (the start of a packet) *)
(* and "body" (what follows it, up to the checksum), since the time-outs of*)
(* recv and the two readers of the socket tell no more apart.  No body     *)
(* holds a "+" or a "-".                                                   *)
(***************************************************************************)
EXTENDS Naturals, Sequences

CONSTANTS
  MaxCommands,    (* Bound on the commands executed.                       *)
  MaxLate,        (* Bound on the answers that come too late: receives that*)
                  (* time out before them, and replies damaged on the line,*)
                  (* which the server sends again.                         *)
  MaxFaults,      (* Bound on the requests damaged on the line.            *)
  MaxInterrupts,  (* Bound on the times the interrupt event is set.        *)
  Waits,          (* Values of isRspWaitNeeded: TRUE for a receive that    *)
                  (* ends with a time-out, FALSE for one that does not.    *)
  MayClose,       (* The server may close the connection.                  *)
  MaxAckTries     (* MAX_PACKETS_ATTEMPTS.                                 *)

ASSUME RspLinkAssumption ==
  /\ MaxCommands \in Nat /\ MaxLate \in Nat /\ MaxFaults \in Nat
  /\ MaxInterrupts \in Nat
  /\ Waits \subseteq BOOLEAN /\ Waits # {}
  /\ MayClose \in BOOLEAN
  /\ MaxAckTries \in Nat

Commands == 1 .. MaxCommands
NoCommand == 0

Token == [kind : {"+", "-", "$", "packet", "body"},
          id : Commands \cup {NoCommand}, good : BOOLEAN]
Mark(k) == [kind |-> k, id |-> NoCommand, good |-> TRUE]

VARIABLES
  toServer,      (* Tokens on their way to the server.                     *)
  toClient,      (* Tokens the client has not read off the socket.         *)
  buffer,        (* Tokens in the static buffer of ReceiveInternal.        *)
  closed,        (* The server has closed the connection.                  *)
  remote,        (* "read", "execute", "reply" or "body".                  *)
  serverCmd,     (* The packet the server executes or has executed last.   *)
  serverAcks,    (* The server's side of the acknowledgment mode.          *)
  executed,      (* How many times each command has been executed.         *)
  pc,            (* Where the client is; "idle" between two commands.      *)
  stage,         (* The next command: "qSupported", "QStartNoAckMode" or   *)
                 (* one of the "session"; "failed" when a start failed.    *)
  request,       (* The current command, or the last one.                  *)
  wait,          (* Its isRspWaitNeeded.                                   *)
  ackCharacter,  (* ackCharacter[0] of SendRspPacket; "NUL" at first.      *)
  retryCounter,  (* Receives of an acknowledgment that failed.             *)
  misread,       (* A packet's "$" will be read as data of the packet.     *)
  interruptFlag, (* m_fInterruptFlag: the event ended the last receive.    *)
  noAckMode,     (* isEnabled of PACKET_QSTART_NO_ACKMODE.                 *)
  event,         (* m_interruptEvent.                                      *)
  outcome,       (* Of the last command: "none", "ok", "empty", "error".   *)
  reply,         (* The command whose reply was accepted last.             *)
  late, faults, interrupts   (* Bounded counters of events.            *)

line == <<toServer, toClient, buffer, closed>>
serverVars == <<remote, serverCmd, serverAcks, executed>>
sending == <<ackCharacter, retryCounter>>
result == <<outcome, reply>>
counting == <<late, faults, interrupts>>
receiving == <<misread, interruptFlag>>
linkVars == <<line, serverVars, pc, stage, request, wait, sending, receiving,
          noAckMode, event, result, counting>>

(* Every variable has its type.                                            *)
LinkTypeOK ==
  /\ toServer \in Seq(Token) /\ toClient \in Seq(Token)
  /\ buffer \in Seq(Token)
  /\ closed \in BOOLEAN
  /\ remote \in {"read", "execute", "reply", "body"}
  /\ serverCmd \in Commands \cup {NoCommand}
  /\ serverAcks \in BOOLEAN
  /\ executed \in [Commands -> Nat]
  /\ pc \in {"idle", "send", "ack", "start", "body"}
  /\ stage \in {"qSupported", "QStartNoAckMode", "session", "failed"}
  /\ request \in Commands \cup {NoCommand}
  /\ wait \in BOOLEAN /\ noAckMode \in BOOLEAN
  /\ misread \in BOOLEAN /\ interruptFlag \in BOOLEAN
  /\ ackCharacter \in {"NUL", "+", "-", "$", "body"}
  /\ retryCounter \in 0 .. MaxAckTries + 1
  /\ event \in BOOLEAN
  /\ outcome \in {"none", "ok", "empty", "error"}
  /\ reply \in Commands \cup {NoCommand}
  /\ late \in 0 .. MaxLate /\ faults \in 0 .. MaxFaults
  /\ interrupts \in 0 .. MaxInterrupts

LinkInit ==
  /\ toServer = <<>> /\ toClient = <<>> /\ buffer = <<>> /\ closed = FALSE
  /\ remote = "read" /\ serverCmd = NoCommand /\ serverAcks = TRUE
  /\ executed = [c \in Commands |-> 0]
  /\ pc = "idle" /\ stage = "qSupported" /\ request = NoCommand
  /\ wait = TRUE /\ ackCharacter = "NUL" /\ retryCounter = 0
  /\ misread = FALSE /\ interruptFlag = FALSE /\ noAckMode = FALSE /\ event = FALSE
  /\ outcome = "none" /\ reply = NoCommand
  /\ late = 0 /\ faults = 0 /\ interrupts = 0

-----------------------------------------------------------------------------
(* The line and the server.                                                *)

(* A packet may be damaged on its way: one more of a bounded number.       *)
Damage(good, count, max) ==
  IF good THEN UNCHANGED count ELSE count < max /\ count' = count + 1

ServerReads ==
  /\ remote = "read" /\ ~closed /\ toServer # <<>>
  /\ toServer' = Tail(toServer)
  /\ LET token == Head(toServer) IN
     \/ /\ token.kind = "packet" /\ token.good
        /\ remote' = "execute" /\ serverCmd' = token.id
        /\ toClient' = IF serverAcks THEN Append(toClient, Mark("+")) ELSE toClient
     \/ /\ token.kind = "packet" /\ ~token.good
        /\ toClient' = IF serverAcks THEN Append(toClient, Mark("-")) ELSE toClient
        /\ UNCHANGED <<remote, serverCmd>>
     \/ /\ token.kind = "-" /\ serverCmd # NoCommand
        /\ remote' = "reply"
        /\ UNCHANGED <<toClient, serverCmd>>
     \/ /\ token.kind = "+" \/ (token.kind = "-" /\ serverCmd = NoCommand)
        /\ UNCHANGED <<toClient, remote, serverCmd>>
  /\ UNCHANGED <<buffer, closed, serverAcks, executed, pc, stage, request, wait,
                 sending, receiving, noAckMode, event, result, counting>>

(* With the client in no-ack mode, the second command asks for that mode.  *)
ServerExecutes ==
  /\ remote = "execute" /\ ~closed
  /\ executed' = [executed EXCEPT ![serverCmd] = @ + 1]
  /\ serverAcks' = (serverAcks /\ ~(serverCmd = 2 /\ noAckMode))
  /\ remote' = "reply"
  /\ UNCHANGED <<line, serverCmd, pc, stage, request, wait, sending, receiving,
                 noAckMode, event, result, counting>>

ServerReplies ==
  /\ ~closed
  /\ \/ /\ remote = "reply"
        /\ toClient' = Append(toClient, Mark("$"))
        /\ remote' = "body"
        /\ UNCHANGED late
     \/ /\ remote = "body"
        /\ \E good \in BOOLEAN :
             /\ Damage(good, late, MaxLate)
             /\ toClient' = Append(toClient, [kind |-> "body", id |-> serverCmd,
                                              good |-> good])
        /\ remote' = "read"
  /\ UNCHANGED <<toServer, buffer, closed, serverCmd, serverAcks, executed, pc,
                 stage, request, wait, sending, receiving, noAckMode, event, result,
                 faults, interrupts>>

ServerCloses ==
  /\ MayClose /\ ~closed
  /\ closed' = TRUE
  /\ UNCHANGED <<toServer, toClient, buffer, serverVars, pc, stage, request, wait,
                 sending, receiving, noAckMode, event, result, counting>>

(* Another thread breaks into the target or ends the wait of a resume.     *)
SetInterrupt ==
  /\ stage = "session" /\ interrupts < MaxInterrupts
  /\ interrupts' = interrupts + 1
  /\ event' = TRUE
  /\ UNCHANGED <<line, serverVars, pc, stage, request, wait, sending, receiving,
                 noAckMode, result, late, faults>>

(* A receive fails with nothing to read: for want of an answer, or before  *)
(* one that is under way.                                                  *)
AnswerUnderWay == toServer # <<>> \/ remote # "read"
Timeout ==
  /\ ~closed /\ toClient = <<>>
  /\ IF AnswerUnderWay
     THEN late < MaxLate /\ late' = late + 1
     ELSE UNCHANGED late

-----------------------------------------------------------------------------
(* SendRspPacket.                                                          *)

(* The commands that start a session are timed and not interrupted; the    *)
(* acknowledgments are negotiated only with a server that offers it.       *)
ExecuteCommand ==
  /\ pc = "idle" /\ stage # "failed" /\ request < MaxCommands
  /\ request' = request + 1
  /\ wait' \in (IF stage = "session" THEN Waits ELSE {TRUE})
  /\ ackCharacter' = "NUL" /\ retryCounter' = 0
  /\ interruptFlag' = FALSE
  /\ outcome' = "none"
  /\ pc' = "send"
  /\ UNCHANGED <<line, serverVars, stage, misread, noAckMode, event, reply,
                 counting>>

(* ReceiveRspPacket drops what the buffer of ReceiveInternal still holds.  *)
StartReceiving == pc' = "start" /\ buffer' = <<>>

(* What is sent to a closed connection is lost, and no error is seen: Send *)
(* returns the bytes it sent, never SOCKET_ERROR.                          *)
Forward(token) == IF closed THEN toServer ELSE Append(toServer, token)

SendPacket ==
  /\ pc = "send"
  /\ \E good \in BOOLEAN :
       /\ Damage(good, faults, MaxFaults)
       /\ toServer' = Forward([kind |-> "packet", id |-> request, good |-> good])
  /\ IF noAckMode THEN StartReceiving ELSE pc' = "ack" /\ UNCHANGED buffer
  /\ UNCHANGED <<toClient, closed, serverVars, stage, request, wait, sending,
                 receiving, noAckMode, event, result, late, interrupts>>

(* IS_NAK_OR_START_PACKET, the characters that make the packet be resent.  *)
IsNakOrStartPacket(character) == character \in {"-", "$"}

(* The end of a turn of the loop: an acknowledgment ends it, and so does   *)
(* the event, which that test consumes; both count as a success.           *)
EndOfTurn(character) ==
  \/ /\ character = "+"
     /\ StartReceiving /\ UNCHANGED event
  \/ /\ character # "+" /\ event
     /\ event' = FALSE
     /\ StartReceiving
  \/ /\ character # "+" /\ ~event
     /\ pc' = IF IsNakOrStartPacket(character) THEN "send" ELSE "ack"
     /\ UNCHANGED <<event, buffer>>

(* A character is read from the socket, past the buffer of ReceiveInternal.*)
ReadAck ==
  /\ pc = "ack" /\ toClient # <<>>
  /\ ackCharacter' = Head(toClient).kind
  /\ toClient' = Tail(toClient)
  /\ EndOfTurn(Head(toClient).kind)
  /\ UNCHANGED <<toServer, closed, serverVars, stage, request, wait, retryCounter,
                 receiving, noAckMode, result, counting>>

(* The command ends; a start of session that fails is the end of it all.   *)
Finish(how) ==
  /\ pc' = "idle"
  /\ outcome' = how
  /\ stage' = IF stage = "session" \/ how = "ok" THEN stage ELSE "failed"

(* IS_MAX_ATTEMPTS                                                         *)
IsMaxAttempts(retry) == retry > MaxAckTries

(* A failed receive: after it the test of the last character overwrites the*)
(* decision to send again.                                                 *)
AckFails ==
  /\ pc = "ack" /\ Timeout
  /\ retryCounter' = retryCounter + 1
  /\ IF IsMaxAttempts(retryCounter')
     THEN Finish("error") /\ UNCHANGED <<event, buffer>>
     ELSE EndOfTurn(ackCharacter) /\ UNCHANGED <<stage, outcome>>
  /\ UNCHANGED <<toServer, toClient, closed, serverVars, request, wait,
                 ackCharacter, receiving, noAckMode, reply, faults, interrupts>>

(* On a closed connection recv returns 0, which is not an error here.      *)
AckOfClosed ==
  /\ pc = "ack" /\ closed /\ toClient = <<>>
  /\ EndOfTurn(ackCharacter)
  /\ UNCHANGED <<toServer, toClient, closed, serverVars, stage, request, wait,
                 sending, receiving, noAckMode, result, counting>>

-----------------------------------------------------------------------------
(* ReceiveRspPacket.                                                       *)

(* ReceiveInternal: the next token is one of the buffer, or the first that *)
(* recv brings.                                                            *)
HasToken == buffer # <<>> \/ toClient # <<>>
NextToken == IF buffer # <<>> THEN Head(buffer) ELSE Head(toClient)
TakeToken ==
  \/ /\ buffer # <<>>
     /\ buffer' = Tail(buffer)
     /\ UNCHANGED toClient
  \/ /\ buffer = <<>>
     /\ \E n \in 1 .. Len(toClient) :
          /\ buffer' = SubSeq(toClient, 2, n)
          /\ toClient' = SubSeq(toClient, n + 1, Len(toClient))

(* WaitForRspPacketStart: whatever is not a "$" is skipped.  The event ends*)
(* the loop after any token, which is then taken for a packet's start.     *)
WaitForPacketStart ==
  /\ pc = "start" /\ HasToken
  /\ TakeToken
  /\ IF event \/ NextToken.kind = "$"
     THEN pc' = "body" /\ misread' = (NextToken.kind # "$")
     ELSE UNCHANGED <<pc, misread>>
  /\ event' = FALSE
  /\ interruptFlag' = event
  /\ UNCHANGED <<toServer, closed, serverVars, stage, request, wait, sending,
                 noAckMode, result, counting>>

(* recv fails, on a closed connection at once.                             *)
ReceiveFails ==
  /\ buffer = <<>>
  /\ Timeout \/ (closed /\ toClient = <<>> /\ UNCHANGED late)

(* A definition named "...Wrong" is a plausible bug in the definition that *)
(* follows it; no specification uses it.                                   *)
EndsWaitWrong == FALSE

(* IsReceiveInterrupt: a receive that fails ends a wait that is timed.     *)
EndsWait == wait

(* Without a token a timed wait ends in an exception; any other goes on    *)
(* until the event is set, and then returns an empty reply.                *)
StartFails ==
  /\ pc = "start" /\ ReceiveFails
  /\ \/ /\ EndsWait
        /\ Finish("error") /\ UNCHANGED <<event, interruptFlag>>
     \/ /\ ~EndsWait /\ event
        /\ event' = FALSE /\ interruptFlag' = TRUE /\ Finish("empty")
     \/ /\ ~EndsWait /\ ~event
        /\ UNCHANGED <<pc, stage, outcome, event, interruptFlag>>
  /\ UNCHANGED <<toServer, toClient, buffer, closed, serverVars, request, wait,
                 sending, misread, noAckMode, reply, faults, interrupts>>

(* UpdateRspPacketFeatures takes the mode from the reply to "qSupported";  *)
(* the request that the server change its own mode is sent after that, and *)
(* a server that refuses it gets no session.  What is positive is an offer *)
(* of the mode, or the consent to it.                                      *)
SessionGoesOnWrong(positive) ==
  /\ noAckMode' = (noAckMode \/ (stage = "qSupported" /\ positive))
  /\ stage' = "session"
SessionGoesOn(positive) ==
  /\ noAckMode' = (noAckMode \/ (stage = "qSupported" /\ positive))
  /\ stage' = IF stage = "qSupported" /\ positive THEN "QStartNoAckMode"
              ELSE IF stage = "QStartNoAckMode" /\ ~positive THEN "failed" ELSE "session"

(* The answer that tells the server of a good or a damaged packet.         *)
AnswerPacketWrong(mark) ==
  toServer' = IF noAckMode THEN toServer
              ELSE Forward(Mark(IF mark = "+" THEN "-" ELSE "+"))
AnswerPacket(mark) ==
  toServer' = IF noAckMode THEN toServer ELSE Forward(Mark(mark))

(* An exception, unless the event ended the wait for the packet's start.   *)
PacketFails ==
  /\ Finish(IF interruptFlag THEN "empty" ELSE "error")
  /\ misread' = FALSE
  /\ UNCHANGED <<noAckMode, reply, interruptFlag>>

(* BuildRspPacket and IsValidRspPacket.  A packet whose start was not read *)
(* as such fails its checksum.                                             *)
BuildRspPacket ==
  /\ pc = "body" /\ HasToken
  /\ TakeToken
  /\ LET token == NextToken
         valid == token.good /\ ~misread IN
     \/ /\ token.kind # "body"
        /\ UNCHANGED <<toServer, pc, stage, noAckMode, receiving, result>>
     \/ /\ token.kind = "body" /\ valid
        /\ AnswerPacket("+")
        /\ reply' = token.id /\ outcome' = "ok" /\ pc' = "idle"
        /\ \E positive \in BOOLEAN : SessionGoesOn(positive)
        /\ UNCHANGED receiving
     \/ /\ token.kind = "body" /\ ~valid
        /\ AnswerPacket("-")
        /\ PacketFails
  /\ UNCHANGED <<closed, serverVars, request, wait, sending, event, counting>>

BodyFails ==
  /\ pc = "body" /\ ReceiveFails
  /\ PacketFails
  /\ UNCHANGED <<toServer, toClient, buffer, closed, serverVars, request, wait,
                 sending, event, faults, interrupts>>

-----------------------------------------------------------------------------
RemoteNext == ServerReads \/ ServerExecutes \/ ServerReplies
ClientNext ==
  \/ SendPacket \/ ReadAck \/ AckFails \/ AckOfClosed
  \/ WaitForPacketStart \/ StartFails \/ BuildRspPacket \/ BodyFails
LinkNext ==
  RemoteNext \/ ServerCloses \/ SetInterrupt \/ ExecuteCommand \/ ClientNext

(* The client's thread and the server run on; nobody need call, interrupt  *)
(* or close.                                                               *)
LinkSpec == LinkInit /\ [][LinkNext]_linkVars
LinkFairSpec == LinkSpec /\ WF_linkVars(RemoteNext) /\ WF_linkVars(ClientNext)

-----------------------------------------------------------------------------
(* As long as no answer comes too late, the reply accepted for a command is*)
(* the reply to that command: the two readers of the socket and the buffer *)
(* between them stay in step, whatever is damaged or interrupted.          *)
ReplyMatches == late = 0 /\ outcome = "ok" => reply = request

(* However often its packet is sent, a command is executed once, as long as*)
(* no answer comes too late.                                               *)
AtMostOnce == late = 0 => \A c \in Commands : executed[c] <= 1

(* A command that succeeds leaves nothing behind that a later one could    *)
(* take for its own acknowledgment or reply.                               *)
LineDrained ==
  late = 0 /\ outcome = "ok" =>
    /\ toClient = <<>> /\ buffer = <<>>
    /\ remote = "read"
    /\ \A i \in DOMAIN toServer : toServer[i].kind = "+"

(* Both sides agree on the acknowledgments once the session has started,   *)
(* if no answer came too late.                                             *)
ModesAgree == late = 0 /\ stage = "session" => noAckMode = ~serverAcks

(* The line, the modes and the variables of both sides fit together.       *)
SessionInStep == LinkTypeOK /\ LineDrained /\ ModesAgree

(* A command whose wait is timed ends, if only in an exception, unless the *)
(* connection is closed.                                                   *)
CommandEnds == (pc # "idle" /\ wait) ~> (pc = "idle" \/ closed)

=============================================================================
