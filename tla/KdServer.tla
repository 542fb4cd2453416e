------------------------------- MODULE KdServer -------------------------------
(***************************************************************************)
(* The EXDI KD sample: a COM server that drives a target through kd.exe,   *)
(* to whose standard input it writes commands and from whose standard      *)
(* output it reads answers up to the next prompt.                          *)
(*                                                                         *)
(* Three threads.  The main thread takes the calls of the debugger engine; *)
(* the command thread executes "g" or "t", whose answer comes when the     *)
(* target stops; the notification thread waits for it and calls the server *)
(* on the main thread, which tells the engine.  kd.exe, the target and the *)
(* engine are external.                                                    *)
(*                                                                         *)
(* Output is a sequence of tokens: what a command printed, known by the    *)
(* command's number, and the two halves of a prompt, of which the second   *)
(* names the processor.  A read returns any part of what there is.         *)
(***************************************************************************)
EXTENDS Integers, FiniteSets, Sequences

CONSTANTS
  Cpus,         (* The processors of the target, numbers from 0.           *)
  Addresses,    (* Where the engine sets breakpoints.                      *)
  MaxCalls,     (* Bound on the calls of the engine,                       *)
  MaxSpurious,  (* on what the target prints that looks like a prompt      *)
  MaxDeaths     (* and on deaths of kd.exe and the engine.                 *)

ASSUME KdAssumption ==
  /\ Cpus \subseteq Nat /\ 0 \in Cpus /\ IsFiniteSet(Cpus) /\ IsFiniteSet(Addresses)
  /\ {MaxCalls, MaxSpurious, MaxDeaths} \subseteq Nat

VARIABLES
  main,         (* The call the main thread is in: [op, arg, todo, phase], *)
                (* with the commands it has still to execute.              *)
  thread,       (* m_asynchronousCommandThread and its command: [at, what].*)
  notifier,     (* "none", "wait", "alive", "aliveOnly", "command",        *)
                (* "callback" or "exited".                                 *)
  server,       (* [process, releasing, terminating, semaphore, wasStep,   *)
                (* running, listener]: the server and its flags.           *)
  link,         (* [open, buffer, lastCpu, cpusKnown, asked, answered]:    *)
                (* the pipes, m_internalBuffer behind its front gap,       *)
                (* m_lastKnownActiveCpu, whether m_cachedProcessorCount is *)
                (* set, the number of commands written and the last answer.*)
  breakpoints,  (* [slots, objects]: m_breakpointSlots, from 1, and the    *)
                (* breakpoint objects that the engine has.                 *)
  kd,           (* [alive, input, output, cpu, armed, resumed].            *)
  target,       (* [running, cpu, step]: where it stopped last, and whether*)
                (* by a step.                                              *)
  engine,       (* [alive, belief, told]: what it believes of the target   *)
                (* and what it was told at the last stop.                  *)
  calls, spurious, deaths

counters == <<calls, spurious, deaths>>
vars == <<main, thread, notifier, server, link, breakpoints, kd, target, engine, counters>>

Up == server.process = "up"

-----------------------------------------------------------------------------
(* BufferedStreamReader::Read with the expression of the prompt.           *)

Newline == [kind |-> "newline", of |-> 0]
KdPrompt(cpu) == [kind |-> "kd>", of |-> cpu]
Text(n) == [kind |-> "text", of |-> n]
Prompt(cpu) == <<Newline, KdPrompt(cpu)>>

(* TryReadBufferedData looks for the first prompt that is there as a whole.*)
EndsOfPrompts(tokens) ==
  {i \in 2 .. Len(tokens) : tokens[i - 1] = Newline /\ tokens[i].kind = "kd>"}
HasAnswer == EndsOfPrompts(link.buffer) # {}
EndOfAnswer == CHOOSE i \in EndsOfPrompts(link.buffer) : \A j \in EndsOfPrompts(link.buffer) : i <= j

(* ReadStdoutUntilDelimiter: what precedes the prompt and its processor;   *)
(* what follows stays.  A definition named "...Wrong" is a plausible bug in*)
(* the definition that follows it; no specification uses it.               *)
TakenWrong ==
  [link EXCEPT !.buffer = SubSeq(@, EndOfAnswer, Len(@)),
               !.lastCpu = link.buffer[EndOfAnswer].of,
               !.answered = [to |-> link.asked, of |-> SubSeq(link.buffer, 1, EndOfAnswer - 2)]]
Taken ==
  [link EXCEPT !.buffer = SubSeq(@, EndOfAnswer + 1, Len(@)),
               !.lastCpu = link.buffer[EndOfAnswer].of,
               !.answered = [to |-> link.asked, of |-> SubSeq(link.buffer, 1, EndOfAnswer - 2)]]

(* ReadFile, while the buffer has no answer.                               *)
ReadFile ==
  /\ ~HasAnswer /\ link.open
  /\ \E n \in 1 .. Len(kd.output) :
       /\ link' = [link EXCEPT !.buffer = @ \o SubSeq(kd.output, 1, n)]
       /\ kd' = [kd EXCEPT !.output = SubSeq(@, n + 1, Len(@))]
ReadFileFails == ~HasAnswer /\ (~link.open \/ (~kd.alive /\ kd.output = <<>>))

(* WriteFile of a command, to pipes that are open at both ends.            *)
CanWrite == link.open /\ kd.alive
Write(what) ==
  /\ CanWrite
  /\ link' = [link EXCEPT !.asked = @ + 1]
  /\ kd' = [kd EXCEPT !.input = Append(@, [number |-> link.asked + 1, what |-> what])]

-----------------------------------------------------------------------------
(* Calls on the main thread execute their commands one by one.             *)

(* An argument is a breakpoint, or a number alone: of a processor, or which*)
(* of the registers.                                                       *)
Breakpoint(address, slot) == [address |-> address, number |-> slot]
Number(n) == Breakpoint("none", n)
Command(name, arg) == [name |-> name, arg |-> arg]
Idle == [op |-> "idle", arg |-> Number(0), todo |-> <<>>, phase |-> "none"]
Call(op, arg, todo) ==
  [op |-> op, arg |-> arg, todo |-> todo, phase |-> IF todo = <<>> THEN "done" ELSE "write"]

IsAsynchronousCommandInProgress == thread.at \in {"write", "read"}

(* AsynchronousKDController::ExecuteCommand.                               *)
MainWrites ==
  /\ Up /\ main.phase = "write" /\ ~IsAsynchronousCommandInProgress
  /\ Write(main.todo[1])
  /\ main' = [main EXCEPT !.phase = "read"]
  /\ UNCHANGED <<thread, notifier, server, breakpoints, target, engine, counters>>

MainReads ==
  /\ Up /\ main.phase = "read" /\ ReadFile
  /\ UNCHANGED <<main, thread, notifier, server, breakpoints, target, engine, counters>>

(* What follows the answer to the last command of a call.                  *)
MainTakes ==
  /\ Up /\ main.phase = "read" /\ HasAnswer
  /\ link' = [Taken EXCEPT !.cpusKnown = @ \/ main.todo[1].name = "cpuid"]
  /\ main' = Call(main.op, main.arg, Tail(main.todo))
  /\ UNCHANGED <<thread, notifier, server, breakpoints, kd, target, engine, counters>>

(* An exception ends a call with an error.  The callback has no handler of *)
(* its own: COM's takes it, and the engine hears nothing.  One that fails  *)
(* FinalConstruct leaves no server.                                        *)
MainThrows ==
  /\ Up
  /\ \/ main.phase = "write" /\ (IsAsynchronousCommandInProgress \/ ~CanWrite)
     \/ main.phase = "read" /\ ReadFileFails
  /\ main' = Idle
  /\ notifier' = IF main.op = "callback" THEN "wait" ELSE notifier
  /\ server' = IF main.op = "construct" THEN [server EXCEPT !.process = "refused"] ELSE server
  /\ UNCHANGED <<thread, link, breakpoints, kd, target, engine, counters>>

(* StartAsynchronousCommand, and what Run and DoSingleStep do behind it.   *)
StartWrong(what) ==
  /\ thread' = [thread EXCEPT !.at = "write", !.what = what]
  /\ server' = [server EXCEPT !.wasStep = (what = "t"), !.running = TRUE]
  /\ engine' = [engine EXCEPT !.belief = "running"]
Start(what) ==
  /\ thread' = [at |-> "write", what |-> what]
  /\ server' = [server EXCEPT !.wasStep = (what = "t"), !.running = TRUE, !.semaphore = @ + 1]
  /\ engine' = [engine EXCEPT !.belief = "running"]

(* The slots of CreateCodeBreakpoint.  One that is added stays free until  *)
(* kd has answered.                                                        *)
FreeSlots == {s \in DOMAIN breakpoints.slots : ~breakpoints.slots[s]}
NewSlot ==
  IF FreeSlots = {} THEN Len(breakpoints.slots) + 1 ELSE CHOOSE s \in FreeSlots : \A t \in FreeSlots : s <= t
WithSlot(slots, slot) == IF slot > Len(slots) THEN Append(slots, FALSE) ELSE slots

(* What GetRunStatus and OnAsynchronousCommandCompleted say of a stop.      *)
Status == [cpu |-> main.arg.number, step |-> server.wasStep]

(* A call returns when its commands are done.                              *)
Return(op) == Up /\ main.phase = "done" /\ main.op = op /\ main' = Idle
StepReturns ==
  /\ Return("step") /\ ~IsAsynchronousCommandInProgress
  /\ Start("t")
  /\ UNCHANGED <<notifier, link, breakpoints, kd, target, counters>>
AddReturns ==
  /\ Return("add")
  /\ breakpoints' = [slots |-> [breakpoints.slots EXCEPT ![main.arg.number] = TRUE],
                     objects |-> breakpoints.objects \cup {main.arg}]
  /\ UNCHANGED <<thread, notifier, server, link, kd, target, engine, counters>>
DeleteReturns ==
  /\ Return("delete")
  /\ breakpoints' = [slots |-> [breakpoints.slots EXCEPT ![main.arg.number] = FALSE],
                     objects |-> breakpoints.objects \ {main.arg}]
  /\ UNCHANGED <<thread, notifier, server, link, kd, target, engine, counters>>
StatusReturns ==
  /\ Return("status")
  /\ engine' = [engine EXCEPT !.told = Status]
  /\ UNCHANGED <<thread, notifier, server, link, breakpoints, kd, target, counters>>
CallbackReturns ==
  /\ Return("callback") /\ notifier' = "wait"
  /\ engine' = [engine EXCEPT !.belief = "halted", !.told = Status]
  /\ UNCHANGED <<thread, server, link, breakpoints, kd, target, counters>>
ConstructReturns ==
  /\ Return("construct") /\ notifier' = "wait"
  /\ UNCHANGED <<thread, server, link, breakpoints, kd, target, engine, counters>>
AnswerReturns ==
  /\ \E op \in {"registers", "memory", "set", "pcr"} : Return(op)
  /\ UNCHANGED <<thread, notifier, server, link, breakpoints, kd, target, engine, counters>>

-----------------------------------------------------------------------------
(* The engine calls when the main thread is free; it resumes a target and  *)
(* asks for its registers and memory while it believes it halted.          *)

Calls ==
  /\ Up /\ engine.alive /\ ~server.releasing /\ main.op = "idle"
  /\ calls < MaxCalls /\ calls' = calls + 1
  /\ UNCHANGED <<link, kd, target, notifier, spurious, deaths>>
Halted == engine.belief = "halted"

Run ==
  /\ Calls /\ Halted /\ ~IsAsynchronousCommandInProgress
  /\ Start("g")
  /\ UNCHANGED <<main, breakpoints>>

(* GetNumberOfProcessors asks kd once.                                     *)
GetProcessorCount == IF link.cpusKnown THEN <<>> ELSE <<Command("cpuid", Number(0))>>

(* StartStepCommand selects the processor before it starts the command.    *)
DoSingleStep(cpu) ==
  /\ Calls /\ Halted
  /\ main' = Call("step", Number(cpu), Append(GetProcessorCount, Command("select", Number(cpu))))
  /\ UNCHANGED <<thread, server, breakpoints, engine>>

Ask(op, commands) ==
  /\ Calls /\ Halted
  /\ main' = Call(op, Number(0), commands)
  /\ UNCHANGED <<thread, server, breakpoints, engine>>
GetContextEx(cpu) == Ask("registers", <<Command("registers", Number(cpu))>>)
ReadVirtualMemory == Ask("memory", <<Command("memory", Number(0))>>)
GetKPCRForProcessor(cpu) == Ask("pcr", Append(GetProcessorCount, Command("pcr", Number(cpu))))

(* SetRegisters, a command for each register.                              *)
SetContextEx == Ask("set", [register \in 1 .. 2 |-> Command("set", Number(register))])

(* GetRunStatus, of which the engine may ask at any time.                  *)
GetRunStatus ==
  /\ Calls
  /\ main' = IF server.running THEN Idle
             ELSE Call("status", Number(link.lastCpu), <<Command("registers", Number(link.lastCpu))>>)
  /\ UNCHANGED <<thread, server, breakpoints, engine>>

AddCodeBreakpoint(address) ==
  /\ Calls /\ Halted
  /\ breakpoints' = [breakpoints EXCEPT !.slots = WithSlot(@, NewSlot)]
  /\ LET new == Breakpoint(address, NewSlot)
     IN main' = Call("add", new, <<Command("bp", new)>>)
  /\ UNCHANGED <<thread, server, engine>>

DelCodeBreakpoint(object) ==
  /\ Calls /\ Halted /\ object \in breakpoints.objects /\ breakpoints.slots[object.number]
  /\ main' = Call("delete", object, <<Command("bc", Number(object.number))>>)
  /\ UNCHANGED <<thread, server, breakpoints, engine>>

NotifyingRunChg ==
  /\ Calls
  /\ server' = [server EXCEPT !.listener = ~@]
  /\ UNCHANGED <<main, thread, breakpoints, engine>>

-----------------------------------------------------------------------------
(* The command thread.  Nothing catches what it throws.                    *)

ThreadWrites ==
  /\ Up /\ thread.at = "write" /\ Write(Command(thread.what, Number(0)))
  /\ thread' = [thread EXCEPT !.at = "read"]
  /\ UNCHANGED <<main, notifier, server, breakpoints, target, engine, counters>>
ThreadReads ==
  /\ Up /\ thread.at = "read" /\ ReadFile
  /\ UNCHANGED <<main, thread, notifier, server, breakpoints, target, engine, counters>>
ThreadTakes ==
  /\ Up /\ thread.at = "read" /\ HasAnswer
  /\ link' = Taken
  /\ thread' = [thread EXCEPT !.at = "ended"]
  /\ UNCHANGED <<main, notifier, server, breakpoints, kd, target, engine, counters>>
ThreadThrows ==
  /\ Up
  /\ \/ thread.at = "write" /\ ~CanWrite
     \/ thread.at = "read" /\ ReadFileFails
  /\ server' = [server EXCEPT !.process = "crashed"]
  /\ UNCHANGED <<main, thread, notifier, link, breakpoints, kd, target, engine, counters>>

(* NotificationThreadBody: it waits for the semaphore or a tenth of a      *)
(* second, has PerformKeepaliveChecks called on the main thread, then      *)
(* waits for the command and has OnAsynchronousCommandCompleted called.    *)
NotifierWakes(taken) ==
  /\ Up /\ notifier = "wait" /\ (taken <=> server.semaphore > 0)
  /\ server' = [server EXCEPT !.semaphore = IF taken THEN @ - 1 ELSE @]
  /\ notifier' = IF server.terminating THEN "exited" ELSE IF taken THEN "alive" ELSE "aliveOnly"
  /\ UNCHANGED <<main, thread, link, breakpoints, kd, target, engine, counters>>

(* The loop goes on without a check when there is nothing it could find.   *)
NotifierWaited ==
  /\ Up /\ notifier = "command" /\ ~IsAsynchronousCommandInProgress
  /\ notifier' = "callback"
  /\ UNCHANGED <<main, thread, server, link, breakpoints, kd, target, engine, counters>>

-----------------------------------------------------------------------------
(* The main thread dispatches calls when it is free, in FinalRelease too.  *)

(* ShutdownKD closes the pipes, and kd exits or is terminated.             *)
ShutdownKD ==
  /\ link' = [link EXCEPT !.open = FALSE]
  /\ kd' = IF link.open THEN [kd EXCEPT !.alive = FALSE] ELSE kd

(* PerformKeepaliveChecks.  When the engine is gone it shuts kd down, and  *)
(* in a process of its own it exits.                                       *)
PerformKeepaliveChecks ==
  /\ Up /\ main.op = "idle" /\ notifier \in {"alive", "aliveOnly"}
  /\ notifier' = IF notifier = "alive" THEN "command" ELSE "wait"
  /\ IF engine.alive THEN UNCHANGED <<server, link, kd>>
     ELSE /\ ShutdownKD
          /\ \E process \in {"up", "exited"} : server' = [server EXCEPT !.process = process]
  /\ UNCHANGED <<main, thread, breakpoints, target, engine, counters>>

(* OnAsynchronousCommandCompleted.                                         *)
OnAsynchronousCommandCompleted ==
  /\ Up /\ main.op = "idle" /\ notifier = "callback"
  /\ IF server.listener
     THEN /\ server' = [server EXCEPT !.running = FALSE]
          /\ main' = Call("callback", Number(link.lastCpu), <<Command("registers", Number(link.lastCpu))>>)
          /\ UNCHANGED notifier
     ELSE notifier' = "wait" /\ UNCHANGED <<server, main>>
  /\ UNCHANGED <<thread, link, breakpoints, kd, target, engine, counters>>

(* FinalRelease: by the engine, or by COM when that is gone.               *)
FinalRelease ==
  /\ Up /\ main.op = "idle" /\ ~server.releasing
  /\ server' = [server EXCEPT !.releasing = TRUE, !.terminating = TRUE, !.semaphore = @ + 1]
  /\ UNCHANGED <<main, thread, notifier, link, breakpoints, kd, target, engine, counters>>

(* It has waited for the notification thread and deletes the controller,   *)
(* whose destructor waits for the command thread.                          *)
DeleteController ==
  /\ Up /\ server.releasing /\ main.op = "idle" /\ notifier = "exited"
  /\ ShutdownKD
  /\ server' = IF IsAsynchronousCommandInProgress THEN server
               ELSE [server EXCEPT !.process = "released"]
  /\ UNCHANGED <<main, thread, notifier, breakpoints, target, engine, counters>>

-----------------------------------------------------------------------------
(* kd.exe executes what it is given and prints a prompt.                   *)

Printed(k, number) == k.output \o <<Text(number)>> \o Prompt(k.cpu)
KdExecutes ==
  /\ kd.alive /\ kd.resumed = 0 /\ kd.input # <<>>
  /\ LET next == kd.input[1]
         name == next.what.name
         arg == next.what.arg
         done == [kd EXCEPT !.input = Tail(@),
                    !.cpu = IF name = "select" THEN arg.number ELSE @,
                    !.armed = IF name \in {"bp", "bc"}
                              THEN {b \in @ : b.number # arg.number}
                                   \cup (IF name = "bp" THEN {arg} ELSE {})
                              ELSE @]
     IN IF name \in {"g", "t"}
        THEN /\ kd' = [done EXCEPT !.resumed = next.number]
             /\ target' = [target EXCEPT !.running = TRUE, !.step = (name = "t")]
        ELSE /\ kd' = [done EXCEPT !.output = Printed(done, next.number)]
             /\ UNCHANGED target
  /\ UNCHANGED <<main, thread, notifier, server, link, breakpoints, engine, counters>>

TargetStops(cpu) ==
  /\ kd.alive /\ kd.resumed # 0
  /\ kd' = [kd EXCEPT !.resumed = 0, !.cpu = cpu, !.output = Printed([kd EXCEPT !.cpu = cpu], kd.resumed)]
  /\ target' = [target EXCEPT !.running = FALSE, !.cpu = cpu]
  /\ UNCHANGED <<main, thread, notifier, server, link, breakpoints, engine, counters>>

(* What a target prints may look like a prompt.                            *)
TargetPrints ==
  /\ spurious < MaxSpurious /\ kd.alive /\ kd.resumed # 0
  /\ kd' = [kd EXCEPT !.output = @ \o Prompt(0)]
  /\ spurious' = spurious + 1
  /\ UNCHANGED <<main, thread, notifier, server, link, breakpoints, target, engine, calls, deaths>>

KdDies ==
  /\ deaths < MaxDeaths /\ kd.alive
  /\ kd' = [kd EXCEPT !.alive = FALSE] /\ deaths' = deaths + 1
  /\ UNCHANGED <<main, thread, notifier, server, link, breakpoints, target, engine, calls, spurious>>
EngineDies ==
  /\ deaths < MaxDeaths /\ engine.alive
  /\ engine' = [engine EXCEPT !.alive = FALSE] /\ deaths' = deaths + 1
  /\ UNCHANGED <<main, thread, notifier, server, link, breakpoints, kd, target, calls, spurious>>

-----------------------------------------------------------------------------
(* FinalConstruct has started kd, waits for its prompt and asks for the    *)
(* kind of machine.                                                        *)
Init ==
  /\ \E cpu \in Cpus :
       /\ kd = [alive |-> TRUE, input |-> <<>>, output |-> <<Text(0)>> \o Prompt(cpu), cpu |-> cpu,
                armed |-> {}, resumed |-> 0]
       /\ target = [running |-> FALSE, cpu |-> cpu, step |-> FALSE]
  /\ main = [Call("construct", Number(0), <<Command("initial", Number(0)), Command("effmach", Number(0))>>)
               EXCEPT !.phase = "read"]
  /\ thread = [at |-> "none", what |-> "none"] /\ notifier = "none"
  /\ server = [process |-> "up", releasing |-> FALSE, terminating |-> FALSE, semaphore |-> 0,
               wasStep |-> FALSE, running |-> FALSE, listener |-> TRUE]
  /\ link = [open |-> TRUE, buffer |-> <<>>, lastCpu |-> 0, cpusKnown |-> FALSE, asked |-> 0,
             answered |-> [to |-> 0, of |-> <<Text(0)>>]]
  /\ breakpoints = [slots |-> <<>>, objects |-> {}]
  /\ engine = [alive |-> TRUE, belief |-> "halted", told |-> [cpu |-> target.cpu, step |-> FALSE]]
  /\ calls = 0 /\ spurious = 0 /\ deaths = 0

Returns ==
  \/ StepReturns \/ AddReturns \/ DeleteReturns \/ StatusReturns
  \/ CallbackReturns \/ ConstructReturns \/ AnswerReturns
MainStep == MainWrites \/ MainReads \/ MainTakes \/ MainThrows \/ Returns
Dispatch == PerformKeepaliveChecks \/ OnAsynchronousCommandCompleted
ThreadStep == ThreadWrites \/ ThreadReads \/ ThreadTakes \/ ThreadThrows
NotifierStep == NotifierWakes(TRUE) \/ NotifierWaited
EngineCalls ==
  \/ Run \/ GetRunStatus \/ NotifyingRunChg \/ ReadVirtualMemory \/ SetContextEx
  \/ \E cpu \in Cpus : DoSingleStep(cpu) \/ GetContextEx(cpu) \/ GetKPCRForProcessor(cpu)
  \/ \E address \in Addresses : AddCodeBreakpoint(address)
  \/ \E object \in breakpoints.objects : DelCodeBreakpoint(object)

Next ==
  \/ MainStep \/ Dispatch \/ ThreadStep \/ NotifierStep \/ NotifierWakes(FALSE)
  \/ FinalRelease \/ DeleteController \/ EngineCalls
  \/ KdExecutes \/ (\E cpu \in Cpus : TargetStops(cpu)) \/ TargetPrints \/ KdDies \/ EngineDies

Spec == Init /\ [][Next]_vars

(* Every thread that can run does in the end, kd works off what it is      *)
(* given, and messages are dispatched.  Nothing makes the target stop.     *)
FairSpec ==
  /\ Spec
  /\ WF_vars(MainStep) /\ WF_vars(Dispatch) /\ WF_vars(ThreadStep) /\ WF_vars(NotifierStep)
  /\ WF_vars(KdExecutes) /\ WF_vars(DeleteController)

-----------------------------------------------------------------------------
(* Properties.                                                             *)

(* Every variable has its type.                                            *)
TypeOK ==
  /\ main.phase \in {"none", "write", "read", "done"} /\ (main.op = "idle" <=> main.phase = "none")
  /\ thread.at \in {"none", "write", "read", "ended"}
  /\ notifier \in {"none", "wait", "alive", "aliveOnly", "command", "callback", "exited"}
  /\ server.process \in {"up", "refused", "crashed", "exited", "released"} /\ server.semaphore \in Nat
  /\ link.lastCpu \in Cpus \cup {0} /\ link.asked \in Nat
  /\ {o.number : o \in breakpoints.objects} \subseteq DOMAIN breakpoints.slots
  /\ engine.belief \in {"halted", "running"}

(* The main thread and the command thread never use the pipes at once, and *)
(* each answer is that of the command it was read for, unless the target   *)
(* prints prompts: even if an answer comes in pieces, and prompts of two   *)
(* answers in one.                                                         *)
OneConversation ==
  /\ ~(main.phase = "read" /\ thread.at = "read")
  /\ spurious = 0 => link.answered.of = <<Text(link.answered.to)>>

(* When the engine was told that the target halted, it is halted, on the   *)
(* processor and for the reason that were told.                            *)
ToldTrue ==
  spurious = 0 /\ engine.belief = "halted" =>
    /\ ~target.running
    /\ engine.told = [cpu |-> target.cpu, step |-> target.step]

(* The breakpoints that the engine has are in slots of their own and are   *)
(* those that kd has, between calls while nothing died.                    *)
BreakpointsHeld ==
  /\ \A o, p \in breakpoints.objects : o.number = p.number => o = p
  /\ spurious = 0 /\ link.open /\ kd.alive /\ main.op \notin {"add", "delete"} /\ deaths = 0 =>
       breakpoints.objects = kd.armed

KdInStep == TypeOK /\ OneConversation /\ ToldTrue /\ BreakpointsHeld

(* A stop is reported in the end, if there is somebody to report it to.    *)
Excused == server.releasing \/ ~engine.alive \/ ~kd.alive \/ ~server.listener \/ spurious > 0
StopReported ==
  engine.belief = "running" /\ thread.at = "read" /\ ~target.running
    ~> engine.belief = "halted" \/ target.running \/ Excused \/ ~Up

(* A server that is released ends, unless its target runs and keeps the    *)
(* notification thread from ending.                                        *)
ReleaseEnds == server.releasing ~> ~Up \/ target.running

KdProgress == StopReported /\ ReleaseEnds
=============================================================================
