-------------------------- MODULE LiveServer_proofs --------------------------
(***************************************************************************)
(* Theorems about run control that hold for every value of the constants:  *)
(* the types, the conservation of completions, and, for an engine that     *)
(* never calls Halt, the truth of every halted report.                     *)
(***************************************************************************)
EXTENDS LiveServer, TLAPS

-----------------------------------------------------------------------------
(* Facts about the sequences the link is modelled with.                    *)

(* What is left of a channel once its first packets are dropped.           *)
LEMMA DropFirst ==
  ASSUME NEW S, NEW s \in Seq(S), NEW n \in Nat
  PROVE  /\ SubSeq(s, n + 1, Len(s)) \in Seq(S)
         /\ Len(SubSeq(s, n + 1, Len(s))) <= Len(s)
         /\ \A i \in 1 .. Len(SubSeq(s, n + 1, Len(s))) :
              /\ i + n \in 1 .. Len(s)
              /\ SubSeq(s, n + 1, Len(s))[i] = s[i + n]
OBVIOUS

(* A prefix of a channel, which is what a closed connection leaves.        *)
LEMMA KeepFirst ==
  ASSUME NEW S, NEW s \in Seq(S), NEW n \in 0 .. Len(s)
  PROVE  /\ SubSeq(s, 1, n) \in Seq(S)
         /\ Len(SubSeq(s, 1, n)) = n
         /\ \A i \in 1 .. n : SubSeq(s, 1, n)[i] = s[i]
OBVIOUS

(* The head and the tail of a channel, by their elements.                  *)
LEMMA HeadTail ==
  ASSUME NEW S, NEW s \in Seq(S), s # <<>>
  PROVE  /\ Head(s) \in S
         /\ Head(s) = s[1]
         /\ Tail(s) \in Seq(S)
         /\ Len(s) \in Nat
         /\ Len(Tail(s)) = Len(s) - 1
         /\ Len(s) > 0
         /\ \A i \in 1 .. Len(s) - 1 : Tail(s)[i] = s[i + 1]
OBVIOUS

-----------------------------------------------------------------------------
(* Types: first the Boolean variables, then all the others.                *)

(* No action takes a flag out of BOOLEAN.                                  *)
LEMMA FlagsNext == FlagsOK /\ [Next]_vars => FlagsOK'
<1> SUFFICES ASSUME FlagsOK, [Next]_vars PROVE FlagsOK'
  OBVIOUS
<1> USE DEF FlagsOK, server, command, flags, notify, counters, reported
<1>1. CASE ServerNext
  BY <1>1, ZenonT(60) DEF ServerNext, TargetStops, ConsoleOutput, ServerReadsCtrlC
<1>2. CASE CommandNext
  BY <1>2, ZenonT(60) DEF CommandNext, CommandSend, CommandReceive, CommandGivesUp,
     CommandExits
<1>3. CASE NotifyNext
  BY <1>3, ZenonT(60) DEF NotifyNext, NotifyTakesSemaphore, NotifyKeepalive,
     NotifyPosts, NotifyExits
<1>4. CASE EngineNext
  <2>1. CASE Run
    BY <2>1, Zenon DEF Run, StartAsynchronousCommand, SetStopReplyPacket
  <2>2. CASE HaltSendsCtrlC
    BY <2>2, Zenon DEF HaltSendsCtrlC, StartAsynchronousCommand
  <2>3. CASE GetContext
    BY <2>3, Zenon DEF GetContext, SetInterruptEvent
  <2>4. CASE FinalRelease
    BY <2>4, Zenon DEF FinalRelease
  <2> QED BY <1>4, <2>1, <2>2, <2>3, <2>4 DEF EngineNext
<1>5. CASE MainNext
  <2>1. CASE HaltSetsEvent
    BY <2>1, Zenon DEF HaltSetsEvent, SetInterruptEvent
  <2>2. CASE HaltPolls
    BY <2>2, Zenon DEF HaltPolls, ContinueWaiting
  <2>3. ASSUME NEW from, NEW to, MainReceives(from, to) PROVE FlagsOK'
    BY <2>3, Zenon DEF MainReceives
  <2>4. CASE HaltAsks
    BY <2>4, Zenon DEF HaltAsks, NoAnswer, TakeAnswer
  <2>5. CASE RunStopped \/ Released \/ DeleteController
    BY <2>5, ZenonT(60) DEF RunStopped, Released, DeleteController
  <2>6. CASE QueryAllRegisters
    BY <2>6, Zenon DEF QueryAllRegisters, NoAnswer, TakeAnswer
  <2>7. CASE OnAsynchronousCommandCompleted
    BY <2>7, Zenon DEF OnAsynchronousCommandCompleted
  <2>8. CASE ParseResult
    BY <2>8, Zenon DEF ParseResult, ContinueWaiting
  <2>9. CASE QueryPc
    BY <2>9, ZenonT(60) DEF QueryPc, NoAnswer, TakeAnswer
  <2> QED BY <1>5, <2>1, <2>2, <2>3, <2>4, <2>5, <2>6, <2>7, <2>8, <2>9
          DEF MainNext, HaltReceives, HaltAskReceives, ParseReceives
<1>6. CASE UNCHANGED vars
  BY <1>6, Zenon DEF vars, moving
<1> QED BY <1>1, <1>2, <1>3, <1>4, <1>5, <1>6 DEF Next

(* Taking a packet, dropping the unread ones and taking or missing an      *)
(* answer all leave a sequence of packets and a count.                     *)
LEMMA PacketTaken ==
  ASSUME DataOK, TakePacket
  PROVE  /\ channel' \in Seq(Packets)
         /\ buffered' \in 0 .. Len(channel')
         /\ Head(channel) \in Packets
BY HeadTail DEF DataOK, TakePacket

(* The packets not read yet are packets.                                   *)
LEMMA UnreadType ==
  ASSUME DataOK
  PROVE  Unread \in Seq(Packets)
BY DropFirst DEF DataOK, Unread

(* So are those packets with an answer behind them.                        *)
LEMMA AnsweredType ==
  ASSUME DataOK, NEW kinds \in SUBSET Packets, NEW packets \in Answered(kinds)
  PROVE  packets \in Seq(Packets)
BY UnreadType DEF Answered

(* Receiving an answer, or missing it, keeps the types of the link.        *)
LEMMA AnswerReceived ==
  ASSUME DataOK, NEW packets \in Seq(Packets),
         NoAnswer(packets) \/ (packets # <<>> /\ TakeAnswer(packets))
  PROVE  /\ channel' \in Seq(Packets)
         /\ buffered' \in 0 .. Len(channel')
         /\ timeouts' \in 0 .. MaxTimeouts
<1>1. CASE NoAnswer(packets)
  BY <1>1, LiveServerAssumption DEF LiveServerAssumption, DataOK, NoAnswer
<1>2. CASE packets # <<>> /\ TakeAnswer(packets)
  BY <1>2, HeadTail DEF DataOK, TakeAnswer
<1> QED BY <1>1, <1>2

(* No action takes another variable out of its type.                       *)
LEMMA DataNext == DataOK /\ [Next]_vars => DataOK'
<1> SUFFICES ASSUME DataOK, [Next]_vars PROVE DataOK'
  OBVIOUS
<1> USE LiveServerAssumption DEF LiveServerAssumption, NoReply,
        server, command, flags, notify, counters, reported
<1>0. session' = session /\ session.stops \subseteq StopReplies
  BY DEF Next, vars, DataOK
<1> USE <1>0
<1>1. CASE ServerNext
  <2>1. ASSUME NEW k \in Packets
        PROVE  Deliver(k) \in Seq(Packets) /\ buffered \in 0 .. Len(Deliver(k))
    BY DEF Deliver, DataOK
  <2>2. session.stops \subseteq Packets /\ "O" \in Packets
    BY DEF Packets
  <2>3. CASE TargetStops
    BY <2>1, <2>2, <2>3 DEF TargetStops, DataOK
  <2>4. CASE ConsoleOutput
    BY <2>1, <2>2, <2>4 DEF ConsoleOutput, DataOK
  <2>5. CASE ServerReadsCtrlC
    BY <2>1, <2>2, <2>5 DEF ServerReadsCtrlC, DataOK
  <2> QED BY <1>1, <2>3, <2>4, <2>5 DEF ServerNext
<1>2. CASE CommandNext
  <2>1. CASE CommandSend
    BY <2>1, UnreadType DEF CommandSend, ResetBuffer, DataOK
  <2>2. CASE CommandReceive
    BY <2>2, PacketTaken DEF CommandReceive, DataOK
  <2>3. CASE CommandGivesUp
    BY <2>3 DEF CommandGivesUp, ReceiveTimesOut, DataOK
  <2>4. CASE CommandExits
    BY <2>4 DEF CommandExits, DataOK
  <2> QED BY <1>2, <2>1, <2>2, <2>3, <2>4 DEF CommandNext
<1>3. CASE NotifyNext
  BY SMTT(60), <1>3 DEF NotifyNext, NotifyTakesSemaphore, NotifyKeepalive, NotifyPosts,
              NotifyExits, DataOK
<1>4. CASE EngineNext
  <2>1. CASE Run
    BY <2>1 DEF Run, StartAsynchronousCommand, ReleaseSemaphore, DataOK
  <2>2. CASE HaltSendsCtrlC
    BY <2>2 DEF HaltSendsCtrlC, StartAsynchronousCommand, DataOK
  <2>3. CASE GetContext
    BY <2>3 DEF GetContext, DataOK
  <2>4. CASE FinalRelease
    BY <2>4 DEF FinalRelease, ReleaseSemaphore, DataOK
  <2> QED BY <1>4, <2>1, <2>2, <2>3, <2>4 DEF EngineNext
<1>5. CASE MainNext
  <2>1. CASE HaltSetsEvent
    BY <2>1 DEF HaltSetsEvent, DataOK
  <2>2. CASE HaltPolls
    BY <2>2 DEF HaltPolls, ContinueWaiting, NotifyHalted, DataOK
  <2>3. ASSUME NEW from, NEW to \in {"haltPoll", "idle", "parseWait"},
               MainReceives(from, to)
        PROVE  DataOK'
    <3>1. CASE TakePacket /\ cmdResult' = Head(channel) /\ UNCHANGED timeouts
      BY <2>3, <3>1, PacketTaken DEF MainReceives, DataOK
    <3>2. CASE ReceiveTimesOut /\ UNCHANGED <<cmdResult, channel, buffered>>
      BY <2>3, <3>2 DEF MainReceives, ReceiveTimesOut, DataOK
    <3> QED BY <2>3, <3>1, <3>2 DEF MainReceives
  <2>4. CASE HaltAsks
    <3>1. session.stops \in SUBSET Packets
      BY DEF Packets
    <3>2. PICK packets \in Answered(session.stops) :
            NoAnswer(packets) \/ (packets # <<>> /\ TakeAnswer(packets))
      BY <2>4 DEF HaltAsks
    <3>3. /\ channel' \in Seq(Packets)
          /\ buffered' \in 0 .. Len(channel')
          /\ timeouts' \in 0 .. MaxTimeouts
      BY <3>1, <3>2, AnsweredType, AnswerReceived
    <3>4. /\ main' \in {"idle", "askRecv"}
          /\ cmdResult' \in Packets \cup {"none"}
          /\ engine' \in {"halted", "running"}
          /\ reports' \in Nat
      BY <2>4 DEF HaltAsks, NotifyHalted, DataOK
    <3> QED BY <2>4, <3>3, <3>4 DEF HaltAsks, DataOK
  <2>5. CASE QueryAllRegisters
    <3>1. {"R"} \in SUBSET Packets
      BY DEF Packets
    <3>2. /\ channel' \in Seq(Packets)
          /\ buffered' \in 0 .. Len(channel')
          /\ timeouts' \in 0 .. MaxTimeouts
      <4>1. CASE IsAsynchronousCommandInProgress
        BY <2>5, <4>1 DEF QueryAllRegisters, DataOK
      <4>2. CASE ~IsAsynchronousCommandInProgress
        <5>1. PICK packets \in Answered({"R"}) :
                NoAnswer(packets) \/ (packets # <<>> /\ TakeAnswer(packets))
          BY <2>5, <4>2 DEF QueryAllRegisters
        <5> QED BY <3>1, <5>1, AnsweredType, AnswerReceived
      <4> QED BY <4>1, <4>2
    <3> QED BY <2>5, <3>2 DEF QueryAllRegisters, DataOK
  <2>6. CASE OnAsynchronousCommandCompleted
    BY <2>6 DEF OnAsynchronousCommandCompleted, CallbackReturns, PumpState,
                NotifyHalted, DataOK
  <2>7. CASE ParseResult
    BY <2>7 DEF ParseResult, ContinueWaiting, CallbackReturns, PumpState,
                NotifyHalted, DataOK
  <2>8. CASE DeleteController
    <3>1. channel \in Seq(Packets) /\ buffered \in 0 .. Len(channel)
      BY DEF DataOK
    <3>2. channel' \in {channel, SubSeq(channel, 1, buffered)}
      BY <2>8 DEF DeleteController
    <3>3. channel' \in Seq(Packets) /\ buffered \in 0 .. Len(channel')
      BY <3>1, <3>2, KeepFirst
    <3> QED BY <2>8, <3>3 DEF DeleteController, DataOK
  <2>9. CASE RunStopped \/ Released
    BY ZenonT(60), <2>9 DEF RunStopped, Released, DataOK
  <2>10. CASE QueryPc
    <3>1. {"R"} \in SUBSET Packets
      BY DEF Packets
    <3>2. /\ channel' \in Seq(Packets)
          /\ buffered' \in 0 .. Len(channel')
          /\ timeouts' \in 0 .. MaxTimeouts
      <4>1. CASE IsAsynchronousCommandInProgress
        BY <2>10, <4>1 DEF QueryPc, DataOK
      <4>2. CASE ~IsAsynchronousCommandInProgress
        <5>1. PICK packets \in Answered({"R"}) :
                NoAnswer(packets) \/ (packets # <<>> /\ TakeAnswer(packets))
          BY <2>10, <4>2 DEF QueryPc
        <5> QED BY <3>1, <5>1, AnsweredType, AnswerReceived
      <4> QED BY <4>1, <4>2
    <3>3. engine' \in {"halted", "running"} /\ reports' \in Nat
      BY <2>10 DEF QueryPc, NotifyHalted, DataOK
    <3> QED BY <2>10, <3>2, <3>3 DEF QueryPc, CallbackReturns, PumpState, DataOK
  <2> QED BY <1>5, <2>1, <2>2, <2>3, <2>4, <2>5, <2>6, <2>7, <2>8, <2>9, <2>10
          DEF MainNext, HaltReceives, HaltAskReceives, ParseReceives
<1>6. CASE UNCHANGED vars
  BY <1>6 DEF vars, moving, DataOK
<1> QED BY <1>1, <1>2, <1>3, <1>4, <1>5, <1>6 DEF Next

(* Every variable keeps its type, whatever the engine calls and whatever   *)
(* the server sends.                                                       *)
THEOREM TypeCorrect == Spec => []TypeOK
<1>1. Init => FlagsOK
  BY Zenon DEF Init, FlagsOK
<1>2. Init => DataOK
  BY LiveServerAssumption DEF LiveServerAssumption, Init, DataOK
<1> QED BY <1>1, <1>2, FlagsNext, DataNext, PTL DEF Spec, TypeOK

-----------------------------------------------------------------------------
(* Every resume is completed once.  While a callback parses its result the *)
(* notification thread is inside its call, and it leaves its loop only in  *)
(* a termination.                                                          *)
CallbackInCall ==
  /\ main \in {"parse", "parseRecv", "parseWait", "parseQuery"} => notifyThread = "post"
  /\ notifyThread = "gone" => terminating

CompletionInv == CallbackInCall /\ EveryResumeCompletes

(* No action creates or loses a completion.                                *)
LEMMA CompletionNext == DataOK /\ CompletionInv /\ [Next]_vars => CompletionInv'
<1> SUFFICES ASSUME DataOK, CompletionInv, [Next]_vars PROVE CompletionInv'
  OBVIOUS
<1> USE DEF CompletionInv, CallbackInCall, EveryResumeCompletes,
            server, command, flags, notify, counters, reported
<1>1. CASE ServerNext
  BY <1>1 DEF ServerNext, TargetStops, ConsoleOutput, ServerReadsCtrlC
<1>2. CASE CommandNext
  BY <1>2 DEF CommandNext, CommandSend, CommandReceive, CommandGivesUp, CommandExits
<1>3. CASE NotifyNext
  BY SMTT(60), <1>3 DEF NotifyNext, NotifyTakesSemaphore, NotifyKeepalive, NotifyPosts,
              NotifyExits, MainIdle, DataOK
<1>4. CASE EngineNext
  <2>1. CASE Run
    BY SMTT(60), <2>1 DEF Run, StartAsynchronousCommand, ReleaseSemaphore, MainIdle, DataOK
  <2>2. CASE HaltSendsCtrlC
    BY <2>2 DEF HaltSendsCtrlC, StartAsynchronousCommand, MainIdle, DataOK
  <2>3. CASE GetContext
    BY <2>3 DEF GetContext, MainIdle
  <2>4. CASE FinalRelease
    BY <2>4 DEF FinalRelease, MainIdle
  <2> QED BY <1>4, <2>1, <2>2, <2>3, <2>4 DEF EngineNext
<1>5. CASE MainNext
  <2>1. CASE HaltSetsEvent \/ HaltPolls \/ HaltAsks
    BY <2>1 DEF HaltSetsEvent, HaltPolls, HaltAsks, ContinueWaiting
  <2>2. CASE HaltReceives \/ HaltAskReceives \/ ParseReceives
    BY <2>2 DEF HaltReceives, HaltAskReceives, ParseReceives, MainReceives
  <2>3. CASE RunStopped \/ QueryAllRegisters
    BY <2>3 DEF RunStopped, QueryAllRegisters
  <2>4. CASE OnAsynchronousCommandCompleted
    BY SMTT(60), <2>4 DEF OnAsynchronousCommandCompleted, CallbackReturns, PumpState, DataOK
  <2>5. CASE ParseResult
    BY SMTT(60), <2>5 DEF ParseResult, ContinueWaiting, CallbackReturns, PumpState, DataOK
  <2>6. CASE DeleteController \/ Released
    BY <2>6 DEF DeleteController, Released
  <2>7. CASE QueryPc
    BY SMTT(60), <2>7 DEF QueryPc, CallbackReturns, PumpState, DataOK
  <2> QED BY <1>5, <2>1, <2>2, <2>3, <2>4, <2>5, <2>6, <2>7 DEF MainNext
<1>6. CASE UNCHANGED vars
  BY <1>6 DEF vars, moving
<1> QED BY <1>1, <1>2, <1>3, <1>4, <1>5, <1>6 DEF Next

(* The notification semaphore, its thread and the callbacks that ran add   *)
(* up to the resumes, through halts, aborted waits and failed calls.       *)
THEOREM ResumesComplete == Spec => []EveryResumeCompletes
<1>1. Init => CompletionInv
  BY DEF Init, CompletionInv, CallbackInCall, EveryResumeCompletes
<1>2. CompletionInv => EveryResumeCompletes
  BY DEF CompletionInv
<1> QED BY <1>1, <1>2, TypeCorrect, CompletionNext, PTL DEF Spec, TypeOK

-----------------------------------------------------------------------------
(* An engine that never calls Halt is never told a lie.                    *)

NoStop(packets) == \A i \in 1 .. Len(packets) : packets[i] \notin StopReplies
OneStop(packets) ==
  \A i, j \in 1 .. Len(packets) :
    packets[i] \in StopReplies /\ packets[j] \in StopReplies => i = j

(* Without Halt no break is sent, and nothing of it runs.                  *)
NoBreak ==
  /\ ~ctrlC
  /\ main \notin {"setEvent", "haltPoll", "haltRecv", "haltAsk", "askRecv"}
  /\ terminating => main \notin {"idle", "stopRun", "query"}

(* At most one stop reply is under way, and none while the target runs.    *)
OneStopUnderWay ==
  /\ OneStop(channel)
  /\ cmdResult \in StopReplies => NoStop(channel)
  /\ target = "running" =>
       NoStop(channel) /\ cmdResult \notin StopReplies /\ cmdThread # "send"
  /\ cmdThread = "send" => NoStop(channel) /\ cmdResult = NoReply
  /\ main = "parseQuery" => cmdResult \in StopReplies

(* The callback of a resume comes after its command, and with the flag.    *)
OneCallback ==
  /\ notifyThread = "post" => cmdThread = "signaled"
  /\ notifyThread \in {"get", "wait", "post"} => stopReplyFlag
  /\ ~terminating =>
       /\ semaphore + (IF notifyThread \in {"get", "wait", "post"} THEN 1 ELSE 0) <= 1
       /\ semaphore > 0 => stopReplyFlag

(* What the engine believes of the target.                                 *)
EngineBelief ==
  /\ engine = "halted" =>
       /\ target = "halted"
       /\ NoStop(channel)
       /\ cmdThread \in {"null", "signaled"}
       /\ notifyThread \in {"sem", "gone"}
       /\ terminating \/ semaphore = 0
  /\ engine = "running" => reports = 0
  /\ reports <= 1

HaltFreeInv ==
  CallbackInCall /\ NoBreak /\ OneStopUnderWay /\ OneCallback /\ EngineBelief

(* How the operations on a channel keep its stop replies apart.            *)
LEMMA StopsTail ==
  ASSUME NEW s \in Seq(Packets), s # <<>>
  PROVE  /\ NoStop(s) => NoStop(Tail(s)) /\ Head(s) \notin StopReplies
         /\ OneStop(s) => OneStop(Tail(s))
         /\ OneStop(s) /\ Head(s) \in StopReplies => NoStop(Tail(s))
<1>1. /\ Head(s) = s[1]
      /\ Len(Tail(s)) = Len(s) - 1
      /\ Len(s) \in Nat /\ Len(s) > 0
      /\ \A i \in 1 .. Len(s) - 1 : Tail(s)[i] = s[i + 1]
  BY HeadTail
<1>2. NoStop(s) => NoStop(Tail(s)) /\ Head(s) \notin StopReplies
  BY <1>1 DEF NoStop
<1>3. ASSUME OneStop(s) PROVE OneStop(Tail(s))
  <2> SUFFICES ASSUME NEW i \in 1 .. Len(Tail(s)), NEW j \in 1 .. Len(Tail(s)),
                      Tail(s)[i] \in StopReplies, Tail(s)[j] \in StopReplies
               PROVE  i = j
    BY DEF OneStop
  <2>1. s[i + 1] \in StopReplies /\ s[j + 1] \in StopReplies
    BY <1>1
  <2>2. i + 1 \in 1 .. Len(s) /\ j + 1 \in 1 .. Len(s)
    BY <1>1
  <2>3. i + 1 = j + 1
    BY <1>3, <2>1, <2>2 DEF OneStop
  <2> QED BY <1>1, <2>3
<1>4. ASSUME OneStop(s), Head(s) \in StopReplies PROVE NoStop(Tail(s))
  <2> SUFFICES ASSUME NEW i \in 1 .. Len(Tail(s)), Tail(s)[i] \in StopReplies
               PROVE  FALSE
    BY DEF NoStop
  <2>1. 1 \in 1 .. Len(s) /\ i + 1 \in 1 .. Len(s) /\ i + 1 # 1
    BY <1>1
  <2>2. s[1] \in StopReplies /\ s[i + 1] \in StopReplies
    BY <1>1, <1>4
  <2> QED BY <1>4, <2>1, <2>2 DEF OneStop
<1> QED BY <1>2, <1>3, <1>4

(* Dropping the first packets adds no stop reply.                          *)
LEMMA StopsDropped ==
  ASSUME NEW s \in Seq(Packets), NEW n \in Nat
  PROVE  /\ NoStop(s) => NoStop(SubSeq(s, n + 1, Len(s)))
         /\ OneStop(s) => OneStop(SubSeq(s, n + 1, Len(s)))
<1> DEFINE t == SubSeq(s, n + 1, Len(s))
<1>1. /\ t \in Seq(Packets)
      /\ \A i \in 1 .. Len(t) : i + n \in 1 .. Len(s) /\ t[i] = s[i + n]
  BY DropFirst
<1>2. Len(t) \in Nat
  BY <1>1
<1> HIDE DEF t
<1>3. NoStop(s) => NoStop(t)
  BY <1>1 DEF NoStop
<1>4. ASSUME OneStop(s),
             NEW i \in 1 .. Len(t), NEW j \in 1 .. Len(t),
             t[i] \in StopReplies, t[j] \in StopReplies
      PROVE  i = j
  <2>1. i + n = j + n
    BY <1>1, <1>4 DEF OneStop
  <2> QED BY <1>2, <2>1
<1> QED BY <1>3, <1>4 DEF OneStop, t

(* Nor does keeping the first packets only.                                *)
LEMMA StopsKept ==
  ASSUME NEW s \in Seq(Packets), NEW n \in 0 .. Len(s)
  PROVE  /\ NoStop(s) => NoStop(SubSeq(s, 1, n))
         /\ OneStop(s) => OneStop(SubSeq(s, 1, n))
<1> DEFINE t == SubSeq(s, 1, n)
<1>1. /\ Len(t) = n
      /\ \A i \in 1 .. n : i \in 1 .. Len(s) /\ t[i] = s[i]
  BY KeepFirst
<1> HIDE DEF t
<1>2. NoStop(s) => NoStop(t)
  BY <1>1 DEF NoStop
<1>3. OneStop(s) => OneStop(t)
  BY <1>1 DEF OneStop
<1> QED BY <1>2, <1>3 DEF t

(* A packet behind a channel without a stop reply adds at most one.        *)
LEMMA StopsAppended ==
  ASSUME NEW s \in Seq(Packets), NEW k \in Packets
  PROVE  /\ NoStop(s) => OneStop(s)
         /\ NoStop(s) => OneStop(Append(s, k))
         /\ k \notin StopReplies /\ NoStop(s) => NoStop(Append(s, k))
         /\ k \notin StopReplies /\ OneStop(s) => OneStop(Append(s, k))
<1> DEFINE t == Append(s, k)
<1>1. /\ Len(s) \in Nat
      /\ Len(t) = Len(s) + 1
      /\ t[Len(s) + 1] = k
      /\ \A i \in 1 .. Len(s) : t[i] = s[i]
  OBVIOUS
<1> HIDE DEF t
<1>2. NoStop(s) => OneStop(s)
  BY DEF NoStop, OneStop
<1>3. ASSUME NoStop(s) PROVE OneStop(t)
  <2>1. \A i \in 1 .. Len(t) : t[i] \in StopReplies => i = Len(s) + 1
    BY <1>1, <1>3 DEF NoStop
  <2> QED BY <2>1 DEF OneStop
<1>4. ASSUME k \notin StopReplies, NoStop(s) PROVE NoStop(t)
  BY <1>1, <1>4 DEF NoStop
<1>5. ASSUME k \notin StopReplies, OneStop(s) PROVE OneStop(t)
  <2>1. \A i \in 1 .. Len(t) :
          t[i] \in StopReplies => i \in 1 .. Len(s) /\ s[i] \in StopReplies
    BY <1>1, <1>5
  <2> QED BY <1>5, <2>1 DEF OneStop
<1> QED BY <1>2, <1>3, <1>4, <1>5 DEF t

(* A request for registers, answered or not, adds no stop reply.           *)
LEMMA ChannelAsked ==
  ASSUME DataOK, OneStop(channel),
         \E packets \in Answered({"R"}) :
           NoAnswer(packets) \/ (packets # <<>> /\ TakeAnswer(packets))
  PROVE  (NoStop(channel) => NoStop(channel')) /\ OneStop(channel')
<1>0. /\ channel \in Seq(Packets) /\ buffered \in Nat
      /\ "R" \in Packets /\ "R" \notin StopReplies /\ {"R"} \in SUBSET Packets
  BY DEF DataOK, Packets, StopReplies
<1>1. PICK packets \in Answered({"R"}) :
        NoAnswer(packets) \/ (packets # <<>> /\ TakeAnswer(packets))
  OBVIOUS
<1>2. packets \in Seq(Packets) /\ Unread \in Seq(Packets)
  BY <1>0, <1>1, UnreadType, AnsweredType
<1>3. (NoStop(channel) => NoStop(Unread)) /\ OneStop(Unread)
  BY <1>0, StopsDropped DEF Unread
<1>4. (NoStop(channel) => NoStop(packets)) /\ OneStop(packets)
  BY <1>0, <1>1, <1>2, <1>3, StopsAppended DEF Answered
<1> QED BY <1>1, <1>2, <1>4, StopsTail DEF NoAnswer, TakeAnswer

(* Only the call of Halt leaves the invariant of the breakless runs.       *)
LEMMA HaltFreeNext ==
  ASSUME DataOK, HaltFreeInv, [Next]_vars, halts' = halts
  PROVE  HaltFreeInv'
<1> USE LiveServerAssumption DEF LiveServerAssumption, HaltFreeInv, CallbackInCall,
        NoBreak, OneStopUnderWay, OneCallback, EngineBelief,
        server, command, flags, notify, counters, reported
<1>0. /\ channel \in Seq(Packets)
      /\ buffered \in Nat
      /\ buffered \in 0 .. Len(channel)
      /\ "T" \in StopReplies /\ "S" \in StopReplies /\ "N" \in StopReplies
      /\ "O" \notin StopReplies /\ "R" \notin StopReplies /\ NoReply \notin StopReplies
      /\ session.stops \subseteq Packets /\ "O" \in Packets /\ "R" \in Packets
  BY DEF DataOK, Packets, StopReplies, NoReply
<1>1. CASE ServerNext
  <2>1. CASE TargetStops
    <3>1. PICK k \in session.stops : channel' = Deliver(k)
      BY <2>1 DEF TargetStops
    <3>2. OneStop(channel')
      BY <1>0, <2>1, <3>1, StopsAppended DEF TargetStops, Deliver
    <3> QED BY <2>1, <3>2 DEF TargetStops
  <2>2. CASE ConsoleOutput
    <3>1. NoStop(channel') /\ OneStop(channel')
      BY <1>0, <2>2, StopsAppended DEF ConsoleOutput, Deliver
    <3> QED BY <2>2, <3>1 DEF ConsoleOutput
  <2>3. CASE ServerReadsCtrlC
    BY <2>3 DEF ServerReadsCtrlC
  <2> QED BY <1>1, <2>1, <2>2, <2>3 DEF ServerNext
<1>2. CASE CommandNext
  <2>1. CASE CommandSend
    <3>1. NoStop(channel') /\ OneStop(channel')
      BY <1>0, <2>1, StopsDropped, StopsAppended DEF CommandSend, ResetBuffer, Unread
    <3> QED BY <1>0, <2>1, <3>1 DEF CommandSend
  <2>2. CASE CommandReceive
    <3>1. /\ OneStop(channel')
          /\ NoStop(channel) => NoStop(channel') /\ cmdResult' \notin StopReplies
          /\ cmdResult' \in StopReplies => NoStop(channel')
      BY <1>0, <2>2, StopsTail DEF CommandReceive, TakePacket
    <3> QED BY <2>2, <3>1 DEF CommandReceive
  <2>3. CASE CommandGivesUp
    BY <2>3 DEF CommandGivesUp
  <2>4. CASE CommandExits
    BY <2>4 DEF CommandExits
  <2> QED BY <1>2, <2>1, <2>2, <2>3, <2>4 DEF CommandNext
<1>3. CASE NotifyNext
  <2>1. CASE NotifyTakesSemaphore
    BY <2>1 DEF NotifyTakesSemaphore, DataOK
  <2>2. CASE NotifyKeepalive
    BY <2>2 DEF NotifyKeepalive, MainIdle, DataOK
  <2>3. CASE NotifyPosts
    BY <2>3 DEF NotifyPosts, CommandCompleted, DataOK
  <2>4. CASE NotifyExits
    BY <2>4 DEF NotifyExits, DataOK
  <2> QED BY <1>3, <2>1, <2>2, <2>3, <2>4 DEF NotifyNext
<1>4. CASE EngineNext
  <2>1. CASE Run
    <3>1. ~IsAsynchronousCommandInProgress /\ notifyThread \in {"sem", "gone"}
      BY <2>1 DEF Run, IsAsynchronousCommandInProgress
    <3>2. /\ cmdThread' = "send" /\ cmdResult' = NoReply
          /\ UNCHANGED <<notifyThread, target, channel, ctrlC, main, terminating>>
          /\ engine' = "running" /\ reports' = 0
          /\ stopReplyFlag' = TRUE /\ semaphore' = semaphore + 1
      BY <2>1, <3>1 DEF Run, StartAsynchronousCommand, SetStopReplyPacket,
                        ReleaseSemaphore
    <3>3. ~terminating /\ semaphore = 0 /\ target = "halted" /\ NoStop(channel)
      BY <2>1 DEF Run, MainIdle
    <3> QED BY <1>0, <3>1, <3>2, <3>3
  <2>2. CASE HaltSendsCtrlC
    BY <2>2 DEF HaltSendsCtrlC, DataOK
  <2>3. CASE GetContext
    BY <2>3 DEF GetContext, MainIdle
  <2>4. CASE FinalRelease
    BY <2>4 DEF FinalRelease, MainIdle
  <2> QED BY <1>4, <2>1, <2>2, <2>3, <2>4 DEF EngineNext
<1>5. CASE MainNext
  <2>1. CASE HaltSetsEvent \/ HaltPolls \/ HaltReceives \/ HaltAsks \/ HaltAskReceives
    BY <2>1 DEF HaltSetsEvent, HaltPolls, HaltReceives, HaltAsks, HaltAskReceives,
                MainReceives
  <2>2. CASE RunStopped
    BY <2>2 DEF RunStopped
  <2>3. CASE QueryAllRegisters
    <3>1. (NoStop(channel) => NoStop(channel')) /\ OneStop(channel')
      <4>1. CASE UNCHANGED channel
        BY <4>1
      <4>2. CASE \E packets \in Answered({"R"}) :
                   NoAnswer(packets) \/ (packets # <<>> /\ TakeAnswer(packets))
        BY <4>2, ChannelAsked
      <4> QED BY <2>3, <4>1, <4>2 DEF QueryAllRegisters
    <3> QED BY <2>3, <3>1 DEF QueryAllRegisters
  <2>4. CASE OnAsynchronousCommandCompleted
    BY <2>4 DEF OnAsynchronousCommandCompleted, DispatchingMessages
  <2>5. CASE ParseResult
    BY <1>0, <2>5 DEF ParseResult, ContinueWaiting, CallbackReturns, PumpState,
                      NotifyHalted, IsAsynchronousCommandInProgress, DataOK
  <2>6. CASE ParseReceives
    <3>1. CASE TakePacket /\ cmdResult' = Head(channel)
      <4>1. /\ OneStop(channel')
            /\ NoStop(channel) => NoStop(channel') /\ cmdResult' \notin StopReplies
            /\ cmdResult' \in StopReplies => NoStop(channel')
        BY <1>0, <3>1, StopsTail DEF TakePacket
      <4> QED BY <2>6, <4>1 DEF ParseReceives, MainReceives
    <3>2. CASE UNCHANGED <<cmdResult, channel>>
      BY <2>6, <3>2 DEF ParseReceives, MainReceives
    <3> QED BY <2>6, <3>1, <3>2 DEF ParseReceives, MainReceives
  <2>7. CASE DeleteController
    <3>1. (NoStop(channel) => NoStop(channel')) /\ OneStop(channel')
      BY <1>0, <2>7, StopsKept DEF DeleteController
    <3> QED BY <2>7, <3>1 DEF DeleteController
  <2>8. CASE Released
    BY <2>8 DEF Released
  <2>9. CASE QueryPc
    <3>1. (NoStop(channel) => NoStop(channel')) /\ OneStop(channel')
      <4>1. CASE UNCHANGED channel
        BY <4>1
      <4>2. CASE \E packets \in Answered({"R"}) :
                   NoAnswer(packets) \/ (packets # <<>> /\ TakeAnswer(packets))
        BY <4>2, ChannelAsked
      <4> QED BY <2>9, <4>1, <4>2 DEF QueryPc
    <3>2. cmdResult \in StopReplies /\ notifyThread = "post"
      BY <2>9 DEF QueryPc
    <3>3. NoStop(channel) /\ target = "halted" /\ cmdThread = "signaled" /\ stopReplyFlag
      BY <3>2 DEF DataOK
    <3>4. engine = "running" /\ reports = 0
      BY <3>2 DEF DataOK
    <3>5. /\ NoStop(channel') /\ OneStop(channel') /\ ~ctrlC'
          /\ UNCHANGED <<target, cmdThread, cmdResult, semaphore, terminating>>
          /\ main' \in {"idle", "releasing"} /\ (terminating => main' = "releasing")
          /\ notifyThread' = "sem"
      BY <2>9, <3>1, <3>3 DEF QueryPc, CallbackReturns, PumpState
    <3>6. \/ UNCHANGED <<stopReplyFlag, engine, reports>>
          \/ engine' = "halted" /\ reports' = 1
      <4>1. UNCHANGED <<flags, reported>> \/ (NotifyHalted /\ stopReplyFlag' = FALSE)
        BY ONLY <2>9 DEF QueryPc, flags
      <4> QED BY ONLY <3>4, <4>1 DEF NotifyHalted, flags, reported
    <3>7. ~terminating => semaphore = 0
      BY <3>2 DEF DataOK
    <3>8. terminating => main' = "releasing"
      BY <3>5
    <3>9. NoBreak'
      BY ONLY <3>5, <3>8 DEF NoBreak
    <3>10. CallbackInCall' /\ OneStopUnderWay' /\ OneCallback'
      BY ONLY <3>2, <3>3, <3>5, <3>7 DEF CallbackInCall, OneStopUnderWay, OneCallback
    <3>11. EngineBelief'
      <4>1. terminating' \/ semaphore' = 0
        BY ONLY <3>5, <3>7, Zenon
      <4>2. /\ target' = "halted" /\ cmdThread' = "signaled" /\ notifyThread' = "sem"
            /\ NoStop(channel')
        BY ONLY <3>3, <3>5, Zenon
      <4>3. (engine' = "running" => reports' = 0) /\ reports' <= 1
        BY ONLY <3>4, <3>6
      <4> QED BY ONLY <4>1, <4>2, <4>3 DEF EngineBelief
    <3> QED BY <3>9, <3>10, <3>11
  <2> QED BY <1>5, <2>1, <2>2, <2>3, <2>4, <2>5, <2>6, <2>7, <2>8, <2>9 DEF MainNext
<1>6. CASE UNCHANGED vars
  BY <1>6 DEF vars, moving
<1> QED BY <1>1, <1>2, <1>3, <1>4, <1>5, <1>6 DEF Next

(* The calls of Halt are only ever counted up.                             *)
LEMMA HaltsCounted ==
  ASSUME DataOK, [Next]_vars
  PROVE  halts' = halts \/ halts' = halts + 1
<1> USE DEF server, command, flags, notify, counters, reported
<1>1. CASE ServerNext
  BY <1>1 DEF ServerNext, TargetStops, ConsoleOutput, ServerReadsCtrlC
<1>2. CASE CommandNext
  BY <1>2 DEF CommandNext, CommandSend, CommandReceive, CommandGivesUp, CommandExits
<1>3. CASE NotifyNext
  BY <1>3 DEF NotifyNext, NotifyTakesSemaphore, NotifyKeepalive, NotifyPosts,
              NotifyExits
<1>4. CASE EngineNext
  BY <1>4 DEF EngineNext, Run, HaltSendsCtrlC, GetContext, FinalRelease
<1>5. CASE MainNext
  <2>1. CASE HaltSetsEvent \/ HaltPolls \/ HaltReceives \/ HaltAsks \/ HaltAskReceives
    BY <2>1 DEF HaltSetsEvent, HaltPolls, HaltReceives, HaltAsks, HaltAskReceives,
                MainReceives
  <2>2. CASE RunStopped \/ QueryAllRegisters
    BY <2>2 DEF RunStopped, QueryAllRegisters
  <2>3. CASE OnAsynchronousCommandCompleted \/ ParseResult \/ ParseReceives
    BY <2>3 DEF OnAsynchronousCommandCompleted, ParseResult, CallbackReturns,
                ParseReceives, MainReceives
  <2>4. CASE DeleteController \/ Released \/ QueryPc
    BY <2>4 DEF DeleteController, Released, QueryPc, CallbackReturns
  <2> QED BY <1>5, <2>1, <2>2, <2>3, <2>4 DEF MainNext
<1>6. CASE UNCHANGED vars
  BY <1>6 DEF vars, moving
<1> QED BY <1>1, <1>2, <1>3, <1>4, <1>5, <1>6 DEF Next

BreaklessInv == halts = 0 => HaltFreeInv

(* As long as the engine has not called Halt, it is told of a stop only    *)
(* while the target is halted, once for each resume, and the callback never*)
(* falls back on the last pc: for any number of resumes, register reads,   *)
(* console packets and time-outs.  After a Halt none of the three is left. *)
THEOREM BreaklessReports == Spec => []TruthfulUntilHalt
<1>1. Init => BreaklessInv
  BY DEF Init, BreaklessInv, HaltFreeInv, CallbackInCall, NoBreak, OneStopUnderWay,
         OneCallback, EngineBelief, OneStop, NoStop, StopReplies, NoReply
<1>2. ASSUME DataOK, BreaklessInv, [Next]_vars
      PROVE  BreaklessInv'
  <2> SUFFICES ASSUME halts' = 0 PROVE HaltFreeInv'
    BY DEF BreaklessInv
  <2>1. halts = 0
    BY <1>2, HaltsCounted DEF DataOK
  <2> QED BY <1>2, <2>1, HaltFreeNext DEF BreaklessInv
<1>3. DataOK /\ BreaklessInv => TruthfulUntilHalt
  BY DEF DataOK, BreaklessInv, HaltFreeInv, EngineBelief, OneCallback,
         TruthfulUntilHalt, HaltedWithoutBreak, HaltedWhenReported,
         OneReportWithoutBreak, FallbackAfterHalt
<1> QED BY <1>1, <1>2, <1>3, TypeCorrect, PTL DEF Spec, TypeOK

-----------------------------------------------------------------------------
(* GetRunStatus.  A resume whose wait nothing ends, and whose stop reply   *)
(* comes first, leaves its callback with that reply.                       *)
OnlyStops(packets) == \A i \in 1 .. Len(packets) : packets[i] \in StopReplies

(* The target runs, or is about to, only while the status says so; until   *)
(* then the command waits for a stop reply, and ends with it.              *)
StatusInv ==
  /\ target = "running" \/ cmdThread = "send" => targetIsRunning
  /\ main \notin {"stopRun", "query", "parseRecv", "parseWait"}
  /\ ~interruptEvent
  /\ cmdThread \in {"send", "recv"} => waitForever
  /\ cmdThread \in {"exit", "signaled"} => cmdResult \in StopReplies
  /\ cmdResult \in StopReplies \cup {NoReply}
  /\ OnlyStops(channel)

QuietInv == Undisturbed => HaltFreeInv /\ StatusInv

(* The console packets are only ever counted up.                           *)
LEMMA ConsolesCounted ==
  ASSUME DataOK, [Next]_vars
  PROVE  consoles' = consoles \/ consoles' = consoles + 1
<1> USE DEF server, command, flags, notify, counters, reported
<1>1. CASE ServerNext
  BY <1>1 DEF ServerNext, TargetStops, ConsoleOutput, ServerReadsCtrlC
<1>2. CASE CommandNext
  BY <1>2 DEF CommandNext, CommandSend, CommandReceive, CommandGivesUp, CommandExits
<1>3. CASE NotifyNext
  BY <1>3 DEF NotifyNext, NotifyTakesSemaphore, NotifyKeepalive, NotifyPosts,
              NotifyExits
<1>4. CASE EngineNext
  BY <1>4 DEF EngineNext, Run, HaltSendsCtrlC, GetContext, FinalRelease
<1>5. CASE MainNext
  <2>1. CASE HaltSetsEvent \/ HaltPolls \/ HaltReceives \/ HaltAsks \/ HaltAskReceives
    BY <2>1 DEF HaltSetsEvent, HaltPolls, HaltReceives, HaltAsks, HaltAskReceives,
                MainReceives
  <2>2. CASE RunStopped \/ QueryAllRegisters
    BY <2>2 DEF RunStopped, QueryAllRegisters
  <2>3. CASE OnAsynchronousCommandCompleted \/ ParseResult \/ ParseReceives
    BY <2>3 DEF OnAsynchronousCommandCompleted, ParseResult, CallbackReturns,
                ParseReceives, MainReceives
  <2>4. CASE DeleteController \/ Released \/ QueryPc
    BY <2>4 DEF DeleteController, Released, QueryPc, CallbackReturns
  <2> QED BY <1>5, <2>1, <2>2, <2>3, <2>4 DEF MainNext
<1>6. CASE UNCHANGED vars
  BY <1>6 DEF vars, moving
<1> QED BY <1>1, <1>2, <1>3, <1>4, <1>5, <1>6 DEF Next

(* So are the time-outs.                                                   *)
LEMMA TimeoutsCounted ==
  ASSUME DataOK, [Next]_vars
  PROVE  timeouts' = timeouts \/ timeouts' = timeouts + 1
<1> USE DEF server, command, flags, notify, counters, reported
<1>1. CASE ServerNext
  BY <1>1 DEF ServerNext, TargetStops, ConsoleOutput, ServerReadsCtrlC
<1>2. CASE CommandNext
  BY <1>2 DEF CommandNext, CommandSend, CommandReceive, CommandGivesUp, CommandExits,
              ReceiveTimesOut
<1>3. CASE NotifyNext
  BY <1>3 DEF NotifyNext, NotifyTakesSemaphore, NotifyKeepalive, NotifyPosts,
              NotifyExits
<1>4. CASE EngineNext
  BY <1>4 DEF EngineNext, Run, HaltSendsCtrlC, GetContext, FinalRelease
<1>5. CASE MainNext
  <2>1. CASE HaltSetsEvent \/ HaltPolls \/ HaltReceives \/ HaltAsks \/ HaltAskReceives
    BY <2>1 DEF HaltSetsEvent, HaltPolls, HaltReceives, HaltAsks, HaltAskReceives,
                MainReceives, ReceiveTimesOut, NoAnswer, TakeAnswer
  <2>2. CASE RunStopped \/ QueryAllRegisters
    BY <2>2 DEF RunStopped, QueryAllRegisters, NoAnswer, TakeAnswer
  <2>3. CASE OnAsynchronousCommandCompleted \/ ParseResult \/ ParseReceives
    BY <2>3 DEF OnAsynchronousCommandCompleted, ParseResult, CallbackReturns,
                ParseReceives, MainReceives, ReceiveTimesOut
  <2>4. CASE DeleteController \/ Released \/ QueryPc
    BY <2>4 DEF DeleteController, Released, QueryPc, CallbackReturns,
                NoAnswer, TakeAnswer
  <2> QED BY <1>5, <2>1, <2>2, <2>3, <2>4 DEF MainNext
<1>6. CASE UNCHANGED vars
  BY <1>6 DEF vars, moving
<1> QED BY <1>1, <1>2, <1>3, <1>4, <1>5, <1>6 DEF Next

(* The sequences of stop replies are closed under what a link does.        *)
LEMMA OnlyStopsKept ==
  ASSUME NEW s \in Seq(Packets), OnlyStops(s)
  PROVE  /\ \A k \in StopReplies : OnlyStops(Append(s, k))
         /\ s # <<>> => Head(s) \in StopReplies /\ OnlyStops(Tail(s))
         /\ \A n \in Nat : OnlyStops(SubSeq(s, n + 1, Len(s)))
         /\ \A n \in 0 .. Len(s) : OnlyStops(SubSeq(s, 1, n))
<1>1. ASSUME NEW k \in StopReplies PROVE OnlyStops(Append(s, k))
  BY DEF OnlyStops
<1>2. s # <<>> => Head(s) \in StopReplies /\ OnlyStops(Tail(s))
  BY HeadTail DEF OnlyStops
<1>3. ASSUME NEW n \in Nat PROVE OnlyStops(SubSeq(s, n + 1, Len(s)))
  <2>1. \A i \in 1 .. Len(SubSeq(s, n + 1, Len(s))) :
          i + n \in 1 .. Len(s) /\ SubSeq(s, n + 1, Len(s))[i] = s[i + n]
    BY DropFirst
  <2> QED BY <2>1 DEF OnlyStops
<1>4. ASSUME NEW n \in 0 .. Len(s) PROVE OnlyStops(SubSeq(s, 1, n))
  <2>1. /\ Len(SubSeq(s, 1, n)) = n
        /\ \A i \in 1 .. n : i \in 1 .. Len(s) /\ SubSeq(s, 1, n)[i] = s[i]
    BY KeepFirst
  <2> QED BY <2>1 DEF OnlyStops
<1> QED BY <1>1, <1>2, <1>3, <1>4

(* Without breaks, console output and register reads nothing but a stop    *)
(* reply ends a command, and the status turns after the target.            *)
LEMMA StatusNext ==
  ASSUME "GetContext" \notin session.ops, DataOK, HaltFreeInv, StatusInv, [Next]_vars,
         halts' = halts, consoles' = consoles, timeouts' = timeouts
  PROVE  StatusInv'
<1> USE DEF StatusInv, server, command, flags, notify, counters, reported
<1>0. /\ channel \in Seq(Packets) /\ OnlyStops(channel)
      /\ buffered \in Nat /\ buffered \in 0 .. Len(channel) /\ consoles \in Nat
      /\ halts \in Nat /\ timeouts \in Nat /\ session.stops \subseteq StopReplies
      /\ "O" \notin StopReplies /\ "R" \notin StopReplies /\ NoReply \notin StopReplies
  BY LiveServerAssumption DEF LiveServerAssumption, DataOK, StopReplies, NoReply
<1>1. CASE ServerNext
  <2>1. CASE TargetStops
    <3>1. PICK k \in session.stops : channel' = Deliver(k)
      BY <2>1 DEF TargetStops
    <3>2. OnlyStops(channel')
      BY <1>0, <3>1, OnlyStopsKept DEF Deliver
    <3> QED BY <2>1, <3>2 DEF TargetStops
  <2>2. CASE ConsoleOutput
    BY <1>0, <2>2 DEF ConsoleOutput
  <2>3. CASE ServerReadsCtrlC
    BY <2>3 DEF ServerReadsCtrlC, HaltFreeInv, NoBreak
  <2> QED BY <1>1, <2>1, <2>2, <2>3 DEF ServerNext
<1>2. CASE CommandNext
  <2>1. CASE CommandSend
    <3>1. OnlyStops(channel')
      BY <1>0, <2>1, OnlyStopsKept DEF CommandSend, ResetBuffer, Unread
    <3> QED BY <2>1, <3>1 DEF CommandSend
  <2>2. CASE CommandReceive
    <3>1. OnlyStops(channel') /\ cmdResult' \in StopReplies
      BY <1>0, <2>2, OnlyStopsKept DEF CommandReceive, TakePacket
    <3> QED BY <2>2, <3>1 DEF CommandReceive
  <2>3. CASE CommandGivesUp
    BY <2>3 DEF CommandGivesUp
  <2>4. CASE CommandExits
    BY <2>4 DEF CommandExits
  <2> QED BY <1>2, <2>1, <2>2, <2>3, <2>4 DEF CommandNext
<1>3. CASE NotifyNext
  BY <1>3 DEF NotifyNext, NotifyTakesSemaphore, NotifyKeepalive, NotifyPosts, NotifyExits
<1>4. CASE EngineNext
  <2>1. CASE Run
    <3>1. ~IsAsynchronousCommandInProgress
      BY <2>1 DEF Run, IsAsynchronousCommandInProgress, HaltFreeInv, EngineBelief
    <3> QED BY <2>1, <3>1 DEF Run, StartAsynchronousCommand
  <2>2. CASE HaltSendsCtrlC
    BY <1>0, <2>2 DEF HaltSendsCtrlC
  <2>3. CASE GetContext
    BY <2>3 DEF GetContext
  <2>4. CASE FinalRelease
    BY <2>4 DEF FinalRelease
  <2> QED BY <1>4, <2>1, <2>2, <2>3, <2>4 DEF EngineNext
<1>5. CASE MainNext
  <2>1. CASE HaltSetsEvent \/ HaltPolls \/ HaltReceives \/ HaltAsks \/ HaltAskReceives
    BY <2>1 DEF HaltSetsEvent, HaltPolls, HaltReceives, HaltAsks, HaltAskReceives,
                MainReceives, HaltFreeInv, NoBreak
  <2>2. CASE RunStopped \/ QueryAllRegisters \/ ParseReceives
    BY <2>2 DEF RunStopped, QueryAllRegisters, ParseReceives, MainReceives
  <2>3. CASE OnAsynchronousCommandCompleted
    <3>1. stopReplyFlag
      BY <2>3 DEF OnAsynchronousCommandCompleted, HaltFreeInv, OneCallback
    <3> QED BY <2>3, <3>1 DEF OnAsynchronousCommandCompleted
  <2>4. CASE ParseResult
    <3>1. cmdThread = "signaled" /\ cmdResult \in StopReplies /\ target # "running"
      BY <2>4 DEF ParseResult, HaltFreeInv, CallbackInCall, OneCallback, OneStopUnderWay
    <3> QED BY <1>0, <2>4, <3>1 DEF ParseResult, CallbackReturns, PumpState, StopReplies
  <2>5. CASE DeleteController
    <3>1. OnlyStops(channel')
      BY <1>0, <2>5, OnlyStopsKept DEF DeleteController
    <3> QED BY <2>5, <3>1 DEF DeleteController
  <2>6. CASE Released
    BY <2>6 DEF Released
  <2>7. CASE QueryPc
    <3>1. /\ cmdThread = "signaled" /\ cmdResult \in StopReplies
          /\ target = "halted" /\ NoStop(channel)
      BY <2>7 DEF QueryPc, HaltFreeInv, CallbackInCall, OneCallback, OneStopUnderWay, DataOK
    <3>2. channel = <<>>
      BY <1>0, <3>1 DEF NoStop, OnlyStops
    <3>3. Unread = <<>>
      BY <1>0, <3>2 DEF Unread
    <3>4. Answered({"R"}) = {<<"R">>}
      BY <3>1, <3>3 DEF Answered
    <3>5. channel' = <<>> /\ targetIsRunning' = FALSE /\ interruptEvent' = FALSE
      <4>1. ~IsAsynchronousCommandInProgress
        BY <3>1 DEF IsAsynchronousCommandInProgress
      <4> DEFINE answer == <<"R">>
      <4>2. answer # <<>> /\ Head(answer) = "R" /\ Tail(answer) = <<>>
        OBVIOUS
      <4> HIDE DEF answer
      <4>3. ~NoAnswer(answer)
        BY <1>0, <4>2 DEF NoAnswer
      <4>4. TakeAnswer(answer) /\ targetIsRunning' = FALSE
        BY <2>7, <3>4, <4>1, <4>2, <4>3 DEF QueryPc, answer
      <4> QED BY <4>2, <4>4 DEF TakeAnswer
    <3>6. /\ UNCHANGED <<target, cmdThread, cmdResult>>
          /\ main' \in {"idle", "releasing"}
      BY <2>7 DEF QueryPc, CallbackReturns, PumpState
    <3> QED BY <3>1, <3>5, <3>6 DEF OnlyStops
  <2> QED BY <1>5, <2>1, <2>2, <2>3, <2>4, <2>5, <2>6, <2>7 DEF MainNext
<1>6. CASE UNCHANGED vars
  BY <1>6 DEF vars, moving
<1> QED BY <1>1, <1>2, <1>3, <1>4, <1>5, <1>6 DEF Next

(* GetRunStatus never calls a running target halted, for any number of     *)
(* resumes and stops of any form, as long as the engine has neither called *)
(* Halt nor read registers, which end a wait early, the target has written *)
(* nothing to the console and no answer is late: else the callback gives up*)
(* on a result that holds no stop reply, and says the target has halted.   *)
THEOREM StatusTold == Spec => []RunStatusTruthful
<1>1. Init => QuietInv
  BY DEF Init, QuietInv, StatusInv, OnlyStops, HaltFreeInv, CallbackInCall, NoBreak,
         OneStopUnderWay, OneCallback, EngineBelief, OneStop, NoStop, StopReplies, NoReply
<1>2. ASSUME DataOK, QuietInv, [Next]_vars
      PROVE  QuietInv'
  <2> SUFFICES ASSUME Undisturbed' PROVE HaltFreeInv' /\ StatusInv'
    BY DEF QuietInv
  <2>0. session' = session
    BY <1>2 DEF Next, vars
  <2>1. /\ halts = 0 /\ consoles = 0 /\ timeouts = 0
        /\ halts' = halts /\ consoles' = consoles /\ timeouts' = timeouts
    BY <1>2, HaltsCounted, ConsolesCounted, TimeoutsCounted DEF DataOK, Undisturbed
  <2>2. "GetContext" \notin session.ops
    BY <2>0 DEF Undisturbed
  <2>3. HaltFreeInv /\ StatusInv
    BY <1>2, <2>1, <2>2 DEF QuietInv, Undisturbed
  <2> QED BY <1>2, <2>1, <2>2, <2>3, HaltFreeNext, StatusNext
<1>3. QuietInv => RunStatusTruthful
  BY DEF QuietInv, StatusInv, RunStatusTruthful
<1> QED BY <1>1, <1>2, <1>3, TypeCorrect, PTL DEF Spec, TypeOK

-----------------------------------------------------------------------------
(* FinalRelease.  The notification thread is gone before the controller is *)
(* deleted, and nothing the deletion waits for can start again.            *)
ReleaseInv ==
  /\ main \in {"destroying", "released"} => notifyThread = "gone"
  /\ ReleasedLeavesNoThread

(* No action starts a thread once the controller is being deleted.         *)
LEMMA ReleaseNext ==
  ASSUME DataOK, ReleaseInv, [Next]_vars
  PROVE  ReleaseInv'
<1> USE DEF ReleaseInv, ReleasedLeavesNoThread, server, command, flags, notify,
            counters, reported
<1>1. CASE ServerNext
  BY <1>1 DEF ServerNext, TargetStops, ConsoleOutput, ServerReadsCtrlC
<1>2. CASE CommandNext
  BY <1>2 DEF CommandNext, CommandSend, CommandReceive, CommandGivesUp, CommandExits
<1>3. CASE NotifyNext
  BY <1>3 DEF NotifyNext, NotifyTakesSemaphore, NotifyKeepalive, NotifyPosts,
              NotifyExits, CommandCompleted
<1>4. CASE EngineNext
  BY <1>4 DEF EngineNext, MainIdle, Run, HaltSendsCtrlC, GetContext, FinalRelease,
              StartAsynchronousCommand
<1>5. CASE MainNext
  <2>1. CASE HaltSetsEvent \/ HaltPolls \/ HaltReceives \/ HaltAsks \/ HaltAskReceives
    BY <2>1 DEF HaltSetsEvent, HaltPolls, HaltReceives, HaltAsks, HaltAskReceives,
                MainReceives, ContinueWaiting
  <2>2. CASE RunStopped \/ QueryAllRegisters
    BY <2>2 DEF RunStopped, QueryAllRegisters
  <2>3. CASE OnAsynchronousCommandCompleted \/ ParseResult \/ ParseReceives
    BY <2>3 DEF OnAsynchronousCommandCompleted, DispatchingMessages, ParseResult,
                CallbackReturns, PumpState, ContinueWaiting, ParseReceives,
                MainReceives
  <2>4. CASE DeleteController \/ Released
    BY <2>4 DEF DeleteController, NotificationThreadEnded, Released,
                IsAsynchronousCommandInProgress, DataOK
  <2>5. CASE QueryPc
    BY <2>5 DEF QueryPc, CallbackReturns, PumpState
  <2> QED BY <1>5, <2>1, <2>2, <2>3, <2>4, <2>5 DEF MainNext
<1>6. CASE UNCHANGED vars
  BY <1>6 DEF vars, moving
<1> QED BY <1>1, <1>2, <1>3, <1>4, <1>5, <1>6 DEF Next

(* FinalRelease returns only when neither the notification thread nor the  *)
(* command thread is left to use the deleted controller.                   *)
THEOREM ReleaseLeavesNoThread == Spec => []ReleasedLeavesNoThread
<1>1. Init => ReleaseInv
  BY DEF Init, ReleaseInv, ReleasedLeavesNoThread
<1>2. DataOK /\ ReleaseInv /\ [Next]_vars => ReleaseInv'
  BY ReleaseNext
<1> QED BY <1>1, <1>2, TypeCorrect, PTL DEF Spec, TypeOK, ReleaseInv

=============================================================================
