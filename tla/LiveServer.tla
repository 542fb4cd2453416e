----------------------------- MODULE LiveServer -----------------------------
(***************************************************************************)
(* Run control of the EXDI GDB-server COM object: CLiveExdiGdbSrvServer    *)
(* on top of AsynchronousGdbSrvController.  Three threads share the        *)
(* controller:                                                             *)
(*                                                                         *)
(*   main    the COM single-threaded apartment: calls of the debugger      *)
(*           engine and, between them, the completion callback;            *)
(*   command the thread that StartAsynchronousCommand creates to send a    *)
(*           resume command and to wait for the stop reply;                *)
(*   notify  NotificationThreadBody, which waits for the semaphore, then   *)
(*           for the command thread, then posts the completion callback.   *)
(*                                                                         *)
(* The GDB server is one connection in no-ack mode.  A packet is kept by   *)
(* its kind: "T" a TAA stop reply with the pc register, "N" one without,   *)
(* "S" a reply the parser files as SAA, "O" a console packet (or "OK",     *)
(* which the parser takes for one), "R" the registers.                     *)
(***************************************************************************)
EXTENDS Naturals, Sequences

CONSTANTS
  Sessions,     (* What engine and server may do: records of the engine's  *)
                (* calls, ops, and the stop replies of the server, stops.  *)
  MaxResumes,   (* Bound on the resume commands (Run, DoSingleStep).       *)
  MaxConsole,   (* Bound on the console packets the server emits.          *)
  MaxHalts,     (* Bound on the calls of Halt.                             *)
  MaxTimeouts,  (* Bound on receives that time out before a late answer.   *)
  MaxAttempts   (* c_attemptsWaitingOnPendingResponse.                     *)

AllOps == {"Run", "Halt", "GetContext", "FinalRelease"}
StopReplies == {"T", "N", "S"}
Packets == StopReplies \cup {"O", "R"}
NoReply == "none"

ASSUME LiveServerAssumption ==
  /\ Sessions \subseteq [ops : SUBSET AllOps, stops : (SUBSET StopReplies) \ {{}}]
  /\ MaxResumes \in Nat
  /\ MaxConsole \in Nat
  /\ MaxHalts \in Nat
  /\ MaxTimeouts \in Nat
  /\ MaxAttempts \in Nat

VARIABLES
  session,          (* The one of Sessions that this behaviour is.         *)
  target,           (* The debuggee itself: "halted" or "running".         *)
  channel,          (* Packets sent by the server and not yet received.    *)
  buffered,         (* How many of them the link has read off the socket.  *)
  ctrlC,            (* A break character is on its way to the server.      *)
  connected,        (* The socket is open; FALSE after ShutdownGdbSrv.     *)
  interruptEvent,   (* m_interruptEvent, an auto-reset event.              *)
  cmdThread,        (* m_asynchronousCommandThread: "null", "send", "recv",*)
                    (* "exit" (result stored, still alive) or "signaled".  *)
  waitForever,      (* ~m_AsynchronousCmd.isRspNeeded of that thread.      *)
  cmdResult,        (* m_currentAsynchronousCommandResult.                 *)
  stopReplyFlag,    (* m_isAsynchronousCmdStopReplyPacket.                 *)
  targetIsRunning,  (* m_targetIsRunning.                                  *)
  lastPcKnown,      (* m_lastPcAddress # 0.                                *)
  semaphore,        (* Count of m_notificationSemaphore.                   *)
  notifyThread,     (* "sem", "get", "wait", "post" or "gone".             *)
  terminating,      (* m_terminating.                                      *)
  main,             (* Where the main thread is; "idle" in its pump.       *)
  attempts,         (* Loop counter of the two polling loops.              *)
  engine,           (* Run state the engine was last notified of.          *)
  reports,          (* rsHalted notifications since the last resume.       *)
  resumes, consoles, halts, timeouts,  (* Bounded counters of events.      *)
  completions       (* Completion callbacks run so far.                    *)

server == <<target, channel, buffered, ctrlC, connected>>
command == <<cmdThread, waitForever, cmdResult, interruptEvent>>
flags == <<stopReplyFlag, targetIsRunning, lastPcKnown>>
notify == <<semaphore, notifyThread, terminating>>
counters == <<resumes, consoles, halts, timeouts, completions>>
reported == <<engine, reports>>
moving == <<server, command, flags, notify, main, attempts, reported, counters>>
vars == <<session, moving>>

FlagsOK ==
  /\ ctrlC \in BOOLEAN
  /\ connected \in BOOLEAN
  /\ interruptEvent \in BOOLEAN
  /\ waitForever \in BOOLEAN
  /\ stopReplyFlag \in BOOLEAN
  /\ targetIsRunning \in BOOLEAN
  /\ lastPcKnown \in BOOLEAN
  /\ terminating \in BOOLEAN

DataOK ==
  /\ session \in Sessions
  /\ target \in {"halted", "running"}
  /\ channel \in Seq(Packets)
  /\ buffered \in 0 .. Len(channel)
  /\ cmdThread \in {"null", "send", "recv", "exit", "signaled"}
  /\ cmdResult \in Packets \cup {NoReply}
  /\ semaphore \in Nat
  /\ notifyThread \in {"sem", "get", "wait", "post", "gone"}
  /\ main \in {"idle", "setEvent", "haltPoll", "haltRecv", "haltAsk",
               "askRecv", "parse", "parseRecv", "parseWait", "parseQuery",
               "stopRun", "query", "releasing", "destroying", "released"}
  /\ attempts \in 0 .. MaxAttempts
  /\ engine \in {"halted", "running"}
  /\ reports \in Nat
  /\ resumes \in 0 .. MaxResumes
  /\ consoles \in 0 .. MaxConsole
  /\ halts \in 0 .. MaxHalts
  /\ timeouts \in 0 .. MaxTimeouts
  /\ completions \in Nat

(* Every variable has the type its field has in the code.                  *)
TypeOK == FlagsOK /\ DataOK

(* FinalConstruct succeeds only on a halted target, with both threads up.  *)
Init ==
  /\ session \in Sessions
  /\ target = "halted"
  /\ channel = <<>>
  /\ buffered = 0
  /\ ctrlC = FALSE
  /\ connected = TRUE
  /\ interruptEvent = FALSE
  /\ cmdThread = "null"
  /\ waitForever = FALSE
  /\ cmdResult = NoReply
  /\ stopReplyFlag = FALSE
  /\ targetIsRunning = FALSE
  /\ lastPcKnown = FALSE
  /\ semaphore = 0
  /\ notifyThread = "sem"
  /\ terminating = FALSE
  /\ main = "idle"
  /\ attempts = 0
  /\ engine = "halted"
  /\ reports = 0
  /\ resumes = 0 /\ consoles = 0 /\ halts = 0 /\ timeouts = 0
  /\ completions = 0

-----------------------------------------------------------------------------
(* The GDB server and its target.                                          *)

(* What the server sends after the connection is closed goes nowhere.      *)
Deliver(packet) == IF connected THEN Append(channel, packet) ELSE channel

(* The target stops, on a breakpoint or at the end of a step.              *)
TargetStops ==
  /\ target = "running"
  /\ target' = "halted"
  /\ \E k \in session.stops : channel' = Deliver(k)
  /\ UNCHANGED <<buffered, ctrlC, connected, command, flags, notify, main, attempts, reported,
                 counters>>

(* A running target writes to the console, or the server answers "OK".     *)
ConsoleOutput ==
  /\ target = "running"
  /\ consoles < MaxConsole
  /\ consoles' = consoles + 1
  /\ channel' = Deliver("O")
  /\ UNCHANGED <<target, buffered, ctrlC, connected, command, flags, notify, main,
                 attempts, reported, resumes, halts, timeouts, completions>>

(* The server reads the break character; a halted target ignores it.       *)
ServerReadsCtrlC ==
  /\ ctrlC
  /\ ctrlC' = FALSE
  /\ target' = "halted"
  /\ IF target = "running"
     THEN \E k \in session.stops : channel' = Deliver(k)
     ELSE UNCHANGED channel
  /\ UNCHANGED <<buffered, connected, command, flags, notify, main, attempts, reported,
                 counters>>

(* A receive times out: nothing has arrived, on a running target as often  *)
(* as not.  With a break under way the time-out is counted, so that an     *)
(* instance can do without slow links.                                     *)
ReceiveTimesOut ==
  /\ channel = <<>>
  /\ IF ctrlC
     THEN timeouts < MaxTimeouts /\ timeouts' = timeouts + 1
     ELSE UNCHANGED timeouts

(* A receive takes the next packet; a read of the socket may bring others  *)
(* into the local buffer of ReceiveInternal.                               *)
TakePacket ==
  /\ channel # <<>>
  /\ channel' = Tail(channel)
  /\ IF buffered = 0
     THEN buffered' \in 0 .. Len(channel) - 1
     ELSE buffered' = buffered - 1

(* The receive that follows a request drops what the buffer still holds;   *)
(* GetResponseOnProcessor, which only receives, does not.                  *)
Unread == SubSeq(channel, buffered + 1, Len(channel))

(* The request of a resume does so before its wait begins.  A definition   *)
(* named "...Wrong" is a plausible bug in the definition that follows it;  *)
(* no specification uses it.                                               *)
ResetBufferWrong == channel' = Unread /\ UNCHANGED buffered
ResetBuffer == channel' = Unread /\ buffered' = 0

-----------------------------------------------------------------------------
(* AsynchronousGdbSrvController.                                           *)

IsAsynchronousCommandInProgress == cmdThread \in {"send", "recv", "exit"}

(* The caller has checked that no command is in progress.  A waiter on the *)
(* handle that is closed here was released when the old thread ended.      *)
StartAsynchronousCommand(first, forever) ==
  /\ cmdThread' = first
  /\ waitForever' = forever
  /\ cmdResult' = NoReply
  /\ notifyThread' = IF notifyThread = "wait" THEN "post" ELSE notifyThread

(* The command thread sends "vCont;c" or "vCont;s" and the target goes.    *)
CommandSend ==
  /\ cmdThread = "send"
  /\ cmdThread' = "recv"
  /\ target' = "running"
  /\ ResetBuffer
  /\ UNCHANGED <<ctrlC, connected, waitForever, cmdResult, interruptEvent, flags,
                 notify, main, attempts, reported, counters>>

(* A packet arrives.  The event, when set, is consumed by the check that   *)
(* follows the first character, and the packet is read all the same.       *)
CommandReceive ==
  /\ cmdThread = "recv"
  /\ TakePacket
  /\ cmdResult' = Head(channel)
  /\ cmdThread' = "exit"
  /\ interruptEvent' = FALSE
  /\ UNCHANGED <<target, ctrlC, connected, waitForever, flags, notify, main, attempts,
                 reported, counters>>

(* Without a packet: a resume command waits on, unless the event is set,   *)
(* and then ends with an empty result; the receive that Halt posts fails.  *)
CommandGivesUp ==
  /\ cmdThread = "recv"
  /\ \/ /\ waitForever
        /\ interruptEvent
        /\ interruptEvent' = FALSE
        /\ ReceiveTimesOut
     \/ /\ ~waitForever
        /\ UNCHANGED interruptEvent
        /\ ReceiveTimesOut
  /\ cmdThread' = "exit"
  /\ UNCHANGED <<server, waitForever, cmdResult, flags, notify, main,
                 attempts, reported, resumes, consoles, halts, completions>>

CommandExits ==
  /\ cmdThread = "exit"
  /\ cmdThread' = "signaled"
  /\ UNCHANGED <<server, waitForever, cmdResult, interruptEvent, flags,
                 notify, main, attempts, reported, counters>>

-----------------------------------------------------------------------------
(* The main thread: the engine's calls.                                    *)

MainIdle == main = "idle"

(* The interrupt event of the link, set by a break and by StopTargetAtRun. *)
SetInterruptEventWrong == UNCHANGED interruptEvent
SetInterruptEvent == interruptEvent' = TRUE

(* The callback of the resume expects a stop reply packet.                 *)
SetStopReplyPacketWrong == stopReplyFlag' = FALSE
SetStopReplyPacket == stopReplyFlag' = TRUE

(* One count of the semaphore for each resume.                             *)
ReleaseSemaphoreWrong == semaphore' = semaphore + 2
ReleaseSemaphore == semaphore' = semaphore + 1

(* Calls from the notification thread are served between the engine's calls*)
(* and in the wait of FinalRelease, which dispatches messages.             *)
DispatchingMessagesWrong == main = "idle"
DispatchingMessages == main \in {"idle", "releasing"}

(* The engine is told that the target halted; it may not be the first time.*)
NotifyHalted == engine' = "halted" /\ reports' = reports + 1

(* Run, and DoSingleStep past its SetThreadCommand.  A call made while the *)
(* last command thread still lives resets the flag, then throws.           *)
Run ==
  /\ "Run" \in session.ops /\ MainIdle
  /\ engine = "halted"
  /\ IF IsAsynchronousCommandInProgress
     THEN /\ stopReplyFlag' = FALSE
          /\ UNCHANGED <<command, targetIsRunning, semaphore, notifyThread,
                         reported, resumes>>
     ELSE /\ resumes < MaxResumes
          /\ resumes' = resumes + 1
          /\ StartAsynchronousCommand("send", TRUE)
          /\ engine' = "running"
          /\ reports' = 0
          /\ SetStopReplyPacket
          /\ targetIsRunning' = TRUE
          /\ ReleaseSemaphore
          /\ UNCHANGED interruptEvent
  /\ UNCHANGED <<server, lastPcKnown, terminating, main, attempts, consoles,
                 halts, timeouts, completions>>

(* Halt, HandleInterruptTarget: a receive is posted if none is under way,  *)
(* then the break character is sent.                                       *)
HaltSendsCtrlC ==
  /\ "Halt" \in session.ops /\ MainIdle
  /\ engine = "running"
  /\ halts < MaxHalts
  /\ halts' = halts + 1
  /\ IF IsAsynchronousCommandInProgress
     THEN UNCHANGED <<cmdThread, waitForever, cmdResult, notifyThread>>
     ELSE StartAsynchronousCommand("recv", FALSE)
  /\ ctrlC' = TRUE
  /\ main' = "setEvent"
  /\ UNCHANGED <<target, channel, buffered, connected, interruptEvent, flags, semaphore,
                 terminating, attempts, reported, resumes, consoles, timeouts,
                 completions>>

(* SendRspInterruptEx sets the event only once the character is sent.      *)
HaltSetsEvent ==
  /\ main = "setEvent"
  /\ SetInterruptEvent
  /\ main' = "haltPoll"
  /\ attempts' = 0
  /\ UNCHANGED <<server, cmdThread, waitForever, cmdResult, flags, notify,
                 reported, counters>>

(* ContinueWaitingOnStopReplyPacket, called by the main thread: it receives*)
(* on the main thread itself, or throws while the command thread lives.    *)
ContinueWaiting(receiving, thrown) ==
  IF IsAsynchronousCommandInProgress
  THEN main' = thrown /\ UNCHANGED command
  ELSE /\ main' = receiving
       /\ cmdResult' = NoReply
       /\ waitForever' = FALSE
       /\ UNCHANGED <<cmdThread, interruptEvent>>

(* One turn of the loop of HandleInterruptTarget over the result, which    *)
(* the command thread may be writing.                                      *)
HaltPolls ==
  /\ main = "haltPoll"
  /\ \/ /\ cmdResult = NoReply
        /\ IF attempts < MaxAttempts
           THEN attempts' = attempts + 1 /\ UNCHANGED main
           ELSE main' = "haltAsk" /\ UNCHANGED attempts
        /\ UNCHANGED <<command, reported, lastPcKnown>>
     \/ /\ cmdResult = "O"
        /\ ContinueWaiting("haltRecv", "idle")
        /\ attempts' = 0
        /\ UNCHANGED <<reported, lastPcKnown>>
     \/ /\ cmdResult \in StopReplies \cup {"R"}
        /\ NotifyHalted
        /\ lastPcKnown' = (lastPcKnown \/ cmdResult = "T")
        /\ main' = "idle"
        /\ UNCHANGED <<command, attempts>>
  /\ UNCHANGED <<server, stopReplyFlag, targetIsRunning, notify, counters>>

(* The receive that ContinueWaiting runs on the main thread: a packet, or  *)
(* a time-out whose exception the thread body swallows.                    *)
MainReceives(from, to) ==
  /\ main = from
  /\ \/ /\ TakePacket
        /\ cmdResult' = Head(channel)
        /\ interruptEvent' = FALSE
        /\ UNCHANGED timeouts
     \/ /\ ReceiveTimesOut
        /\ UNCHANGED <<cmdResult, channel, buffered, interruptEvent>>
  /\ main' = to
  /\ UNCHANGED <<target, ctrlC, connected, cmdThread, waitForever, flags,
                 notify, attempts, reported, resumes, consoles, halts,
                 completions>>

HaltReceives == MainReceives("haltRecv", "haltPoll")
HaltAskReceives == MainReceives("askRecv", "idle")

(* What the server has sent when the reply to a request is received: it    *)
(* answers only when halted, and behind the packets not read yet.          *)
Answered(kinds) ==
  IF target = "halted" THEN {Append(Unread, k) : k \in kinds} ELSE {Unread}

TakeAnswer(packets) ==
  /\ channel' = Tail(packets)
  /\ buffered' \in 0 .. Len(packets) - 1
  /\ interruptEvent' = FALSE
  /\ UNCHANGED timeouts

(* The receive times out: on a running target, or before a late answer.    *)
NoAnswer(packets) ==
  /\ channel' = packets
  /\ buffered' = 0
  /\ UNCHANGED interruptEvent
  /\ \/ packets = <<>> /\ UNCHANGED timeouts
     \/ /\ Len(packets) = 1 /\ Unread = <<>>
        /\ timeouts < MaxTimeouts
        /\ timeouts' = timeouts + 1

(* ReportReasonTargetHalted asks "?" past the check of the asynchronous    *)
(* controller; the lock of the link is held by a thread in "send", "recv". *)
HaltAsks ==
  /\ main = "haltAsk"
  /\ cmdThread \notin {"send", "recv"}
  /\ \E packets \in Answered(session.stops) :
       \/ /\ NoAnswer(packets)
          /\ main' = "idle"
          /\ UNCHANGED <<cmdResult, waitForever, reported, lastPcKnown>>
       \/ /\ packets # <<>> /\ Head(packets) = "O"
          /\ TakeAnswer(packets)
          /\ IF IsAsynchronousCommandInProgress
             THEN main' = "idle" /\ UNCHANGED <<cmdResult, waitForever>>
             ELSE main' = "askRecv" /\ cmdResult' = NoReply /\ waitForever' = FALSE
          /\ UNCHANGED <<reported, lastPcKnown>>
       \/ /\ packets # <<>> /\ Head(packets) # "O"
          /\ TakeAnswer(packets)
          /\ NotifyHalted
          /\ lastPcKnown' = (lastPcKnown \/ Head(packets) = "T")
          /\ main' = "idle"
          /\ UNCHANGED <<cmdResult, waitForever>>
  /\ UNCHANGED <<target, ctrlC, connected, cmdThread, stopReplyFlag,
                 targetIsRunning, notify, attempts, resumes, consoles, halts,
                 completions>>

(* GetContext: StopTargetAtRun ends the wait of a resume command, not the  *)
(* run of the target, before the registers are queried.                    *)
GetContext ==
  /\ "GetContext" \in session.ops /\ MainIdle
  /\ IF IsAsynchronousCommandInProgress /\ waitForever
     THEN main' = "stopRun" /\ SetInterruptEvent
     ELSE main' = "query" /\ UNCHANGED interruptEvent
  /\ UNCHANGED <<server, cmdThread, waitForever, cmdResult, flags, notify,
                 attempts, reported, counters>>

RunStopped ==
  /\ main = "stopRun"
  /\ cmdThread = "signaled"
  /\ main' = "query"
  /\ UNCHANGED <<server, command, flags, notify, attempts, reported, counters>>

QueryAllRegisters ==
  /\ main = "query"
  /\ main' = "idle"
  /\ \/ /\ IsAsynchronousCommandInProgress
        /\ UNCHANGED <<channel, buffered, interruptEvent, timeouts, lastPcKnown>>
     \/ /\ ~IsAsynchronousCommandInProgress
        /\ \E packets \in Answered({"R"}) :
             \/ NoAnswer(packets) /\ UNCHANGED lastPcKnown
             \/ /\ packets # <<>>
                /\ TakeAnswer(packets)
                /\ lastPcKnown' = (lastPcKnown \/ Head(packets) = "R")
  /\ UNCHANGED <<target, ctrlC, connected, cmdThread, waitForever, cmdResult,
                 stopReplyFlag, targetIsRunning, notify, attempts, reported,
                 resumes, consoles, halts, completions>>

-----------------------------------------------------------------------------
(* The completion callback, OnAsynchronousCommandCompleted, which the main *)
(* thread runs from its message pump.                                      *)

PumpState == IF terminating THEN "releasing" ELSE "idle"

CallbackReturns ==
  /\ main' = PumpState
  /\ notifyThread' = "sem"
  /\ completions' = completions + 1

(* The callback starts.  Without the flag it takes the halt for handled    *)
(* and reports the last known address.                                     *)
OnAsynchronousCommandCompleted ==
  /\ DispatchingMessages
  /\ notifyThread = "post"
  /\ IF stopReplyFlag
     THEN /\ main' = "parse"
          /\ attempts' = 0
          /\ UNCHANGED <<targetIsRunning, reported, notifyThread, completions>>
     ELSE /\ targetIsRunning' = FALSE
          /\ IF lastPcKnown THEN NotifyHalted ELSE UNCHANGED reported
          /\ CallbackReturns
          /\ UNCHANGED attempts
  /\ UNCHANGED <<server, command, stopReplyFlag, lastPcKnown, semaphore,
                 terminating, resumes, consoles, halts, timeouts>>

(* One turn of the loop of ParseAsynchronousCommandResult.  The first turn *)
(* gives up on an empty result; after a console packet the loop polls the  *)
(* result that its own receive left, up to the bound on attempts.          *)
ParseResult ==
  /\ main \in {"parse", "parseWait"}
  /\ \/ /\ cmdResult = NoReply
        /\ IF main = "parseWait" /\ attempts < MaxAttempts
           THEN /\ attempts' = attempts + 1
                /\ UNCHANGED <<main, notifyThread, completions, targetIsRunning>>
           ELSE /\ targetIsRunning' = FALSE
                /\ CallbackReturns
                /\ UNCHANGED attempts
        /\ UNCHANGED <<command, stopReplyFlag, lastPcKnown, reported>>
     \/ /\ cmdResult = "O"
        /\ attempts' = 0
        /\ IF IsAsynchronousCommandInProgress
           THEN CallbackReturns /\ UNCHANGED command
           ELSE /\ ContinueWaiting("parseRecv", "idle")
                /\ UNCHANGED <<notifyThread, completions>>
        /\ UNCHANGED <<flags, reported>>
     \/ /\ cmdResult = "N"
        /\ main' = "parseQuery"
        /\ UNCHANGED <<command, flags, attempts, reported, notifyThread, completions>>
     \/ /\ cmdResult \in {"T", "S", "R"}
        /\ stopReplyFlag' = FALSE
        /\ targetIsRunning' = FALSE
        /\ IF cmdResult = "T"
           THEN lastPcKnown' = TRUE /\ NotifyHalted
           ELSE UNCHANGED <<lastPcKnown, reported>>
        /\ CallbackReturns
        /\ UNCHANGED <<command, attempts>>
  /\ UNCHANGED <<server, semaphore, terminating, resumes, consoles, halts,
                 timeouts>>

ParseReceives == MainReceives("parseRecv", "parseWait")

(* GetCurrentExecutionAddress: a stop reply without the pc has the callback*)
(* read the registers.  What goes wrong with that leaves the callback as an*)
(* exception, so that neither flag is reset and no stop is reported.       *)
QueryPc ==
  /\ main = "parseQuery"
  /\ \/ /\ IsAsynchronousCommandInProgress
        /\ UNCHANGED <<channel, buffered, interruptEvent, timeouts, flags, reported>>
     \/ /\ ~IsAsynchronousCommandInProgress
        /\ \E packets \in Answered({"R"}) :
             \/ NoAnswer(packets) /\ UNCHANGED <<flags, reported>>
             \/ /\ packets # <<>> /\ Head(packets) # "R"
                /\ TakeAnswer(packets)
                /\ UNCHANGED <<flags, reported>>
             \/ /\ packets # <<>> /\ Head(packets) = "R"
                /\ TakeAnswer(packets)
                /\ stopReplyFlag' = FALSE
                /\ targetIsRunning' = FALSE
                /\ lastPcKnown' = TRUE
                /\ NotifyHalted
  /\ CallbackReturns
  /\ UNCHANGED <<target, ctrlC, connected, cmdThread, waitForever, cmdResult, semaphore,
                 terminating, attempts, resumes, consoles, halts>>

-----------------------------------------------------------------------------
(* NotificationThreadBody.                                                 *)

NotifyTakesSemaphore ==
  /\ notifyThread = "sem"
  /\ ~terminating
  /\ semaphore > 0
  /\ semaphore' = semaphore - 1
  /\ notifyThread' = "get"
  /\ UNCHANGED <<server, command, flags, terminating, main, attempts, reported,
                 counters>>

(* PerformKeepaliveChecks is a call into the main thread, so it returns    *)
(* only when that thread pumps; then the command's handle is waited for.   *)
NotifyKeepalive ==
  /\ notifyThread = "get"
  /\ IF terminating
     THEN notifyThread' = "sem"
     ELSE /\ MainIdle
          /\ notifyThread' = "wait"
  /\ UNCHANGED <<server, command, flags, semaphore, terminating, main,
                 attempts, reported, counters>>

(* GetAsynchronousCommandResult waits for the handle of the thread.        *)
CommandCompletedWrong == cmdThread # "null"
CommandCompleted == cmdThread = "signaled"

NotifyPosts ==
  /\ notifyThread = "wait"
  /\ CommandCompleted
  /\ notifyThread' = "post"
  /\ UNCHANGED <<server, command, flags, semaphore, terminating, main,
                 attempts, reported, counters>>

NotifyExits ==
  /\ notifyThread = "sem"
  /\ terminating
  /\ notifyThread' = "gone"
  /\ UNCHANGED <<server, command, flags, semaphore, terminating, main,
                 attempts, reported, counters>>

-----------------------------------------------------------------------------
(* FinalRelease and the destructor of the controller.                      *)

FinalRelease ==
  /\ "FinalRelease" \in session.ops /\ MainIdle
  /\ terminating' = TRUE
  /\ ReleaseSemaphore
  /\ main' = "releasing"
  /\ UNCHANGED <<server, command, flags, notifyThread, attempts, reported,
                 counters>>

(* FinalRelease waits for the handle of the notification thread.           *)
NotificationThreadEndedWrong == terminating
NotificationThreadEnded == notifyThread = "gone"

(* The notification thread is gone: the controller is deleted, which shuts *)
(* the connection down when a command is still in progress.                *)
DeleteController ==
  /\ main = "releasing"
  /\ NotificationThreadEnded
  /\ main' = "destroying"
  /\ IF IsAsynchronousCommandInProgress
     THEN connected' = FALSE /\ channel' = SubSeq(channel, 1, buffered)
     ELSE UNCHANGED <<connected, channel>>
  /\ UNCHANGED <<target, buffered, ctrlC, command, flags, notify, attempts,
                 reported, counters>>

Released ==
  /\ main = "destroying"
  /\ ~IsAsynchronousCommandInProgress
  /\ main' = "released"
  /\ UNCHANGED <<server, command, flags, notify, attempts, reported, counters>>

-----------------------------------------------------------------------------
ServerNext == TargetStops \/ ConsoleOutput \/ ServerReadsCtrlC
CommandNext == CommandSend \/ CommandReceive \/ CommandGivesUp \/ CommandExits
NotifyNext ==
  NotifyTakesSemaphore \/ NotifyKeepalive \/ NotifyPosts \/ NotifyExits
EngineNext == Run \/ HaltSendsCtrlC \/ GetContext \/ FinalRelease
MainNext ==
  \/ HaltSetsEvent \/ HaltPolls \/ HaltReceives \/ HaltAsks \/ HaltAskReceives
  \/ RunStopped \/ QueryAllRegisters
  \/ OnAsynchronousCommandCompleted \/ ParseResult \/ ParseReceives \/ QueryPc
  \/ DeleteController \/ Released

Next ==
  /\ UNCHANGED session
  /\ ServerNext \/ CommandNext \/ NotifyNext \/ EngineNext \/ MainNext

(* Every thread that can take a step is scheduled, and the server answers a*)
(* break.  The engine need not call, nor the target ever stop by itself.   *)
Fairness ==
  /\ WF_moving(CommandNext)
  /\ WF_moving(NotifyNext)
  /\ WF_moving(MainNext)
  /\ WF_moving(ServerReadsCtrlC)

Spec == Init /\ [][Next]_vars
FairSpec == Spec /\ Fairness

-----------------------------------------------------------------------------
(* Safety.                                                                 *)

(* NotifyRunStateChange(rsHalted), from the completion callback or from    *)
(* Halt, tells the truth for as long as the engine acts on it: until the   *)
(* engine resumes, the target it was told is halted is halted.             *)
HaltedWhenReported == engine = "halted" => target = "halted"

(* Nothing has come between a resume and its stop reply: no break, no read *)
(* of the registers, which ends the wait, no console output, which has the *)
(* callback wait on, and no late answer.                                   *)
Undisturbed ==
  /\ "GetContext" \notin session.ops
  /\ halts = 0 /\ consoles = 0 /\ timeouts = 0

(* GetRunStatus, which answers from m_targetIsRunning, never calls a       *)
(* running target halted, whatever form its stop replies have.             *)
RunStatusTruthful == Undisturbed => (target = "running" => targetIsRunning)

(* For as long as the engine has not called Halt, it is told of a halt only*)
(* when there is one, whatever the callback finds in the result: console   *)
(* output, a reply without a pc, or that of a wait a register read ended.  *)
HaltedWithoutBreak == halts = 0 => HaltedWhenReported

(* Between two resumes the engine is told of one stop only, though Halt and*)
(* the completion callback both report it and share no state but a flag:   *)
(* with Halt the callback falls back on the last pc, and reports again.    *)
OneReportWithoutBreak == halts = 0 => reports <= 1

(* Every resume is completed by one callback: the notification semaphore,  *)
(* the thread that consumes it and the callbacks that ran add up.          *)
EveryResumeCompletes ==
  ~terminating =>
    resumes = completions + semaphore + (IF notifyThread = "sem" THEN 0 ELSE 1)

(* The callback finds the stop reply flag clear only when a Halt was       *)
(* handled before, as the fall-back of ParseAsynchronousCommandResult says.*)
FallbackAfterHalt == notifyThread = "post" /\ ~stopReplyFlag => halts > 0

(* What the two paths of a report guarantee until the engine calls Halt.   *)
TruthfulUntilHalt == HaltedWithoutBreak /\ OneReportWithoutBreak /\ FallbackAfterHalt

(* Once the controller is deleted no thread runs that would use it.        *)
ReleasedLeavesNoThread ==
  main = "released" =>
    notifyThread = "gone" /\ cmdThread \in {"null", "signaled"}

-----------------------------------------------------------------------------
(* Liveness.                                                               *)

TargetStopped == target = "halted" /\ cmdThread # "send" /\ engine = "running"
EngineToldOrGone == engine = "halted" \/ terminating

(* A stop of the target reaches the engine, with the pc in the reply or    *)
(* asked for by the callback, unless the answer to that is late.  After an *)
(* SAA reply the callback reports nothing.                                 *)
StopReported ==
  (TargetStopped /\ Undisturbed /\ "S" \notin session.stops)
    ~> (EngineToldOrGone \/ timeouts > 0)

(* Every call of the engine and every callback ends, FinalRelease apart.   *)
Releasing == {"releasing", "destroying", "released"}
MainReturns == main \notin Releasing ~> (main = "idle" \/ main \in Releasing)

(* FinalRelease ends when no command is left in progress: the notification *)
(* thread may be calling into the thread that waits for it.                *)
ReleaseCompletes ==
  (main = "releasing" /\ ~IsAsynchronousCommandInProgress) ~> main = "released"

=============================================================================
