--------------------------- MODULE KdServer_proofs ---------------------------
(***************************************************************************)
(* Proofs about the EXDI KD sample, for any processors, addresses and      *)
(* bounds: its types, and that the threads share one conversation with kd. *)
(***************************************************************************)
EXTENDS KdServer, WellFoundedInduction, TLAPS

-----------------------------------------------------------------------------
(* Types.                                                                  *)

Args == [address : Addresses \cup {"none"}, number : Nat]
MainNames ==
  {"initial", "effmach", "cpuid", "select", "registers", "memory", "set", "pcr", "bp", "bc"}
Commands ==
  {c \in [name : MainNames \cup {"g", "t"}, arg : Args] : c.name = "select" => c.arg.number \in Cpus}
MainCommands == {c \in Commands : c.name \in MainNames}
Tokens ==
  {t \in [kind : {"newline", "kd>", "text"}, of : Nat] : t.kind = "kd>" => t.of \in Cpus}
Ops ==
  {"idle", "construct", "callback", "step", "add", "delete", "status", "registers", "memory",
   "set", "pcr"}

MainTypes ==
  /\ main \in [op : Ops, arg : Args, todo : Seq(MainCommands), phase : {"none", "write", "read", "done"}]
  /\ main.op = "idle" <=> main.phase = "none"
  /\ main.phase \in {"write", "read"} => main.todo # <<>>
ThreadTypes ==
  /\ thread \in [at : {"none", "write", "read", "ended"}, what : {"none", "g", "t"}]
  /\ thread.at # "none" => thread.what \in {"g", "t"}
  /\ notifier \in {"none", "wait", "alive", "aliveOnly", "command", "callback", "exited"}
ServerTypes ==
  server \in [process : {"up", "refused", "crashed", "exited", "released"}, releasing : BOOLEAN,
              terminating : BOOLEAN, semaphore : Nat, wasStep : BOOLEAN, running : BOOLEAN,
              listener : BOOLEAN]
LinkTypes ==
  link \in [open : BOOLEAN, buffer : Seq(Tokens), lastCpu : Cpus, cpusKnown : BOOLEAN, asked : Nat,
            answered : [to : Nat, of : Seq(Tokens)]]
KdTypes ==
  kd \in [alive : BOOLEAN, input : Seq([number : Nat \ {0}, what : Commands]), output : Seq(Tokens),
          cpu : Cpus, armed : SUBSET Args, resumed : Nat]
BreakpointTypes ==
  /\ breakpoints \in [slots : Seq(BOOLEAN), objects : SUBSET Args]
  /\ \A o \in breakpoints.objects : o.number \in DOMAIN breakpoints.slots
  /\ main.op = "add" => main.arg.number \in DOMAIN breakpoints.slots
  /\ main.op = "delete" => main.arg.number \in DOMAIN breakpoints.slots
OtherTypes ==
  /\ target \in [running : BOOLEAN, cpu : Cpus, step : BOOLEAN]
  /\ engine \in [alive : BOOLEAN, belief : {"halted", "running"}, told : [cpu : Nat, step : BOOLEAN]]
  /\ calls \in Nat /\ spurious \in Nat /\ deaths \in Nat

Types ==
  /\ MainTypes /\ ThreadTypes /\ ServerTypes /\ LinkTypes /\ KdTypes /\ BreakpointTypes
  /\ OtherTypes

-----------------------------------------------------------------------------
(* Facts about the data.                                                   *)

(* A set of natural numbers has a least element.                           *)
LEMMA Least ==
  ASSUME NEW S \in SUBSET Nat, S # {}
  PROVE  \E x \in S : \A y \in S : x <= y
<1> DEFINE R == {p \in Nat \X Nat : p[1] < p[2]}
<1>1. IsWellFoundedOn(R, Nat)
  BY NatLessThanWellFounded DEF OpToRel
<1>2. PICK x \in S : \A y \in S : <<y, x>> \notin R
  BY <1>1, WFMin
<1>3. ASSUME NEW y \in S PROVE x <= y
  <2>1. ~(y < x)
    BY <1>2
  <2> QED BY <2>1
<1> QED BY <1>3

(* The first of a sequence and the rest, and three sequences in one.       *)
LEMMA HeadTail ==
  ASSUME NEW S, NEW s \in Seq(S), s # <<>>
  PROVE  s[1] \in S /\ Tail(s) \in Seq(S)
OBVIOUS
(* A sequence, an element and a sequence behind each other.                *)
LEMMA Concatenated ==
  ASSUME NEW S, NEW s \in Seq(S), NEW x \in S, NEW t \in Seq(S)
  PROVE  s \o <<x>> \o t \in Seq(S)
OBVIOUS

(* Tokens of a prompt and of an answer.                                    *)
LEMMA PromptTokens ==
  ASSUME NEW cpu \in Cpus, NEW n \in Nat
  PROVE  /\ Prompt(cpu) \in Seq(Tokens) /\ Text(n) \in Tokens
         /\ <<Text(n)>> \o Prompt(cpu) \in Seq(Tokens)
<1>1. cpu \in Nat
  BY KdAssumption
<1>2. Newline \in Tokens /\ KdPrompt(cpu) \in Tokens /\ Text(n) \in Tokens
  BY <1>1 DEF Newline, KdPrompt, Text, Tokens
<1> QED BY <1>2 DEF Prompt

(* An answer that is there ends with a prompt.                             *)
LEMMA AnswerEnds ==
  ASSUME LinkTypes, HasAnswer
  PROVE  /\ EndOfAnswer \in 2 .. Len(link.buffer)
         /\ EndOfAnswer \in EndsOfPrompts(link.buffer)
         /\ link.buffer[EndOfAnswer].of \in Cpus
<1>1. EndsOfPrompts(link.buffer) \in SUBSET Nat
  BY DEF EndsOfPrompts, LinkTypes
<1>2. \E i \in EndsOfPrompts(link.buffer) : \A j \in EndsOfPrompts(link.buffer) : i <= j
  BY <1>1, Least DEF HasAnswer
<1>3. EndOfAnswer \in EndsOfPrompts(link.buffer)
  BY <1>2 DEF EndOfAnswer
<1>4. /\ EndOfAnswer \in 2 .. Len(link.buffer)
      /\ link.buffer[EndOfAnswer].kind = "kd>"
  BY <1>3 DEF EndsOfPrompts
<1>5. link.buffer \in Seq(Tokens)
  BY DEF LinkTypes
<1>6. link.buffer[EndOfAnswer] \in Tokens
  BY <1>4, <1>5
<1> QED BY <1>3, <1>4, <1>6 DEF Tokens

(* Taking an answer keeps the types.                                       *)
LEMMA TakenTypes ==
  ASSUME LinkTypes, HasAnswer
  PROVE  /\ Taken \in [open : BOOLEAN, buffer : Seq(Tokens), lastCpu : Cpus, cpusKnown : BOOLEAN,
                       asked : Nat, answered : [to : Nat, of : Seq(Tokens)]]
         /\ Taken.open = link.open /\ Taken.asked = link.asked
<1> DEFINE e == EndOfAnswer
<1>1. /\ e \in 2 .. Len(link.buffer) /\ link.buffer[e].of \in Cpus
      /\ link.buffer \in Seq(Tokens)
  BY AnswerEnds DEF LinkTypes
<1> HIDE DEF e
<1>2. SubSeq(link.buffer, e + 1, Len(link.buffer)) \in Seq(Tokens)
  BY <1>1
<1>3. SubSeq(link.buffer, 1, e - 2) \in Seq(Tokens)
  BY <1>1
<1>4. Taken = [link EXCEPT !.buffer = SubSeq(link.buffer, e + 1, Len(link.buffer)),
                           !.lastCpu = link.buffer[e].of,
                           !.answered = [to |-> link.asked, of |-> SubSeq(link.buffer, 1, e - 2)]]
  BY DEF Taken, e
<1> QED BY <1>1, <1>2, <1>3, <1>4 DEF LinkTypes

(* Writing a command and reading a part of the output keep them.           *)
LEMMA WriteTypes ==
  ASSUME LinkTypes, KdTypes, NEW what \in Commands, Write(what)
  PROVE  LinkTypes' /\ KdTypes'
<1> DEFINE c == [number |-> link.asked + 1, what |-> what]
<1>1. link.asked + 1 \in Nat \ {0} /\ c \in [number : Nat \ {0}, what : Commands]
  BY DEF LinkTypes
<1>2. kd' = [kd EXCEPT !.input = Append(kd.input, c)] /\ link' = [link EXCEPT !.asked = link.asked + 1]
  BY DEF Write
<1> HIDE DEF c
<1>3. Append(kd.input, c) \in Seq([number : Nat \ {0}, what : Commands])
  BY <1>1 DEF KdTypes
<1> QED BY <1>1, <1>2, <1>3 DEF LinkTypes, KdTypes

(* Starting a resume keeps the types of what it sets.                      *)
LEMMA StartTypes ==
  ASSUME ThreadTypes, ServerTypes, OtherTypes, NEW what \in {"g", "t"}, Start(what), UNCHANGED notifier
  PROVE  /\ ThreadTypes' /\ ServerTypes' /\ engine' = [engine EXCEPT !.belief = "running"]
         /\ engine' \in [alive : BOOLEAN, belief : {"halted", "running"}, told : [cpu : Nat, step : BOOLEAN]]
<1> DEFINE step == (what = "t")
<1>1. step \in BOOLEAN /\ server.semaphore + 1 \in Nat
  BY DEF ServerTypes
<1>2. server' = [server EXCEPT !.wasStep = step, !.running = TRUE, !.semaphore = server.semaphore + 1]
  BY DEF Start
<1> HIDE DEF step
<1>3. ServerTypes'
  BY <1>1, <1>2, Zenon DEF ServerTypes
<1> QED BY <1>3 DEF Start, ThreadTypes, OtherTypes

(* Reading a part of the output keeps them too.                            *)
LEMMA ReadTypes ==
  ASSUME LinkTypes, KdTypes, ReadFile
  PROVE  LinkTypes' /\ KdTypes'
<1>1. PICK n \in 1 .. Len(kd.output) :
        /\ link' = [link EXCEPT !.buffer = link.buffer \o SubSeq(kd.output, 1, n)]
        /\ kd' = [kd EXCEPT !.output = SubSeq(kd.output, n + 1, Len(kd.output))]
  BY DEF ReadFile
<1>2. link.buffer \in Seq(Tokens) /\ kd.output \in Seq(Tokens)
  BY DEF LinkTypes, KdTypes
<1>3. SubSeq(kd.output, 1, n) \in Seq(Tokens) /\ SubSeq(kd.output, n + 1, Len(kd.output)) \in Seq(Tokens)
  BY <1>2
<1>4. link.buffer \o SubSeq(kd.output, 1, n) \in Seq(Tokens)
  BY <1>2, <1>3
<1> QED BY <1>1, <1>3, <1>4 DEF LinkTypes, KdTypes

(* The main thread without a call.                                         *)
LEMMA IdleTypes ==
  /\ Idle \in [op : Ops, arg : Args, todo : Seq(MainCommands), phase : {"none", "write", "read", "done"}]
  /\ Idle.op = "idle" /\ Idle.phase = "none"
BY DEF Idle, Number, Breakpoint, Args, Ops

(* Commands.                                                               *)
LEMMA CommandTypes ==
  ASSUME NEW name \in MainNames, NEW n \in Nat, name = "select" => n \in Cpus
  PROVE  Number(n) \in Args /\ Command(name, Number(n)) \in MainCommands
BY DEF Number, Breakpoint, Args, Command, MainCommands, Commands, MainNames

-----------------------------------------------------------------------------
(* The initial states.                                                     *)
LEMMA TypesInit == Init => Types
<1> SUFFICES ASSUME Init PROVE Types
  OBVIOUS
<1>1. PICK cpu \in Cpus :
        /\ kd = [alive |-> TRUE, input |-> <<>>, output |-> <<Text(0)>> \o Prompt(cpu), cpu |-> cpu,
                 armed |-> {}, resumed |-> 0]
        /\ target = [running |-> FALSE, cpu |-> cpu, step |-> FALSE]
  BY DEF Init
<1>2. cpu \in Nat /\ 0 \in Cpus
  BY KdAssumption
<1>3. KdTypes
  BY <1>1, <1>2, PromptTokens DEF KdTypes
<1>4. MainTypes
  <2>1. Command("initial", Number(0)) \in MainCommands /\ Command("effmach", Number(0)) \in MainCommands
        /\ Number(0) \in Args
    BY CommandTypes, <1>2 DEF MainNames
  <2> DEFINE todo == <<Command("initial", Number(0)), Command("effmach", Number(0))>>
  <2>2. todo \in Seq(MainCommands) /\ todo # <<>>
    BY <2>1
  <2>3. main = [Call("construct", Number(0), todo) EXCEPT !.phase = "read"]
    BY DEF Init
  <2> HIDE DEF todo
  <2> QED BY <2>1, <2>2, <2>3 DEF Call, MainTypes, Ops
<1>5. ThreadTypes /\ ServerTypes
  BY DEF Init, ThreadTypes, ServerTypes
<1>6. LinkTypes
  <2>1. <<Text(0)>> \in Seq(Tokens)
    BY <1>2, PromptTokens
  <2> QED BY <1>2, <2>1 DEF Init, LinkTypes
<1>7. BreakpointTypes
  <2>1. main.op = "construct"
    BY DEF Init, Call
  <2>2. breakpoints = [slots |-> <<>>, objects |-> {}]
    BY DEF Init
  <2> QED BY <2>1, <2>2 DEF BreakpointTypes
<1>8. OtherTypes
  BY <1>1, <1>2 DEF Init, OtherTypes
<1> QED BY <1>3, <1>4, <1>5, <1>6, <1>7, <1>8 DEF Types

(* What happens on the main thread.                                        *)
LEMMA TypesMain ==
  ASSUME Types, MainStep
  PROVE  Types'
<1>0. MainTypes /\ ThreadTypes /\ ServerTypes /\ LinkTypes /\ KdTypes /\ BreakpointTypes /\ OtherTypes
  BY DEF Types
<1> USE DEF counters
<1>1. CASE MainWrites
  <2>1. main.phase = "write" /\ main.todo[1] \in MainCommands /\ main.todo # <<>> /\ main.op # "idle"
    BY <1>0, <1>1 DEF MainWrites, MainTypes
  <2>2. MainTypes'
    BY <1>0, <1>1, <2>1 DEF MainWrites, MainTypes
  <2>3. LinkTypes' /\ KdTypes'
    BY <1>0, <1>1, <2>1, WriteTypes DEF MainWrites, MainCommands
  <2>4. BreakpointTypes'
    BY <1>0, <1>1 DEF MainWrites, MainTypes, BreakpointTypes
  <2> QED BY <1>0, <1>1, <2>2, <2>3, <2>4 DEF MainWrites, Types, ThreadTypes, ServerTypes, OtherTypes
<1>2. CASE MainReads
  <2>1. LinkTypes' /\ KdTypes'
    BY <1>0, <1>2, ReadTypes DEF MainReads
  <2> QED BY <1>0, <1>2, <2>1 DEF MainReads, Types, MainTypes, ThreadTypes, ServerTypes, BreakpointTypes,
     OtherTypes
<1>3. CASE MainTakes
  <2>1. main.phase = "read" /\ main.todo # <<>> /\ main.op \in Ops \ {"idle"} /\ main.arg \in Args
        /\ main.todo \in Seq(MainCommands)
    BY <1>0, <1>3 DEF MainTakes, MainTypes
  <2>2. Tail(main.todo) \in Seq(MainCommands)
    BY <2>1
  <2>3. MainTypes' /\ main'.op = main.op /\ main'.arg = main.arg
    <3> DEFINE c == Call(main.op, main.arg, Tail(main.todo))
    <3>1. /\ c \in [op : Ops, arg : Args, todo : Seq(MainCommands), phase : {"none", "write", "read", "done"}]
          /\ c.op = main.op /\ c.arg = main.arg /\ c.todo = Tail(main.todo)
          /\ c.phase \in {"write", "done"} /\ (c.phase = "write" => c.todo # <<>>)
      BY <2>1, <2>2 DEF Call
    <3>2. main' = c
      BY <1>3 DEF MainTakes
    <3> HIDE DEF c
    <3> QED BY <2>1, <3>1, <3>2 DEF MainTypes
  <2>4. LinkTypes'
    BY <1>0, <1>3, TakenTypes DEF MainTakes, LinkTypes
  <2>5. BreakpointTypes'
    BY <1>0, <1>3, <2>3 DEF MainTakes, BreakpointTypes
  <2> QED BY <1>0, <1>3, <2>3, <2>4, <2>5 DEF MainTakes, Types, ThreadTypes, ServerTypes, KdTypes, OtherTypes
<1>4. CASE MainThrows
  <2>1. MainTypes' /\ BreakpointTypes'
    BY <1>0, <1>4, IdleTypes DEF MainThrows, MainTypes, BreakpointTypes
  <2>2. ThreadTypes' /\ ServerTypes'
    BY <1>0, <1>4 DEF MainThrows, ThreadTypes, ServerTypes
  <2> QED BY <1>0, <1>4, <2>1, <2>2 DEF MainThrows, Types, LinkTypes, KdTypes, OtherTypes
<1>5. CASE Returns
  <2>1. main' = Idle
    BY <1>5 DEF Returns, Return, StepReturns, AddReturns, DeleteReturns, StatusReturns, CallbackReturns,
       ConstructReturns, AnswerReturns
  <2>2. MainTypes'
    BY <2>1, IdleTypes DEF MainTypes
  <2>3. ThreadTypes' /\ ServerTypes'
    <3>1. CASE StepReturns
      BY <1>0, <3>1, StartTypes DEF StepReturns
    <3> QED BY <1>0, <1>5, <3>1 DEF Returns, AddReturns, DeleteReturns, StatusReturns, CallbackReturns,
       ConstructReturns, AnswerReturns, ThreadTypes, ServerTypes
  <2>4. OtherTypes'
    <3>0. main.arg.number \in Nat /\ server.wasStep \in BOOLEAN
      BY <1>0 DEF MainTypes, ServerTypes, Args
    <3>1. Status \in [cpu : Nat, step : BOOLEAN]
      BY <3>0 DEF Status
    <3> QED BY <1>0, <1>5, <3>1 DEF Returns, StepReturns, Start, AddReturns, DeleteReturns, StatusReturns,
       CallbackReturns, ConstructReturns, AnswerReturns, OtherTypes
  <2>5. BreakpointTypes'
    <3>1. CASE AddReturns
      <4>1. main.arg \in Args /\ main.arg.number \in DOMAIN breakpoints.slots
        BY <1>0, <3>1 DEF AddReturns, Return, MainTypes, BreakpointTypes
      <4>2. [breakpoints.slots EXCEPT ![main.arg.number] = TRUE] \in Seq(BOOLEAN)
            /\ DOMAIN [breakpoints.slots EXCEPT ![main.arg.number] = TRUE] = DOMAIN breakpoints.slots
        BY <1>0, <4>1 DEF BreakpointTypes
      <4> QED BY <1>0, <2>1, <3>1, <4>1, <4>2, IdleTypes DEF AddReturns, BreakpointTypes
    <3>2. CASE DeleteReturns
      <4>1. main.arg \in Args /\ main.arg.number \in DOMAIN breakpoints.slots
        BY <1>0, <3>2 DEF DeleteReturns, Return, MainTypes, BreakpointTypes
      <4>2. [breakpoints.slots EXCEPT ![main.arg.number] = FALSE] \in Seq(BOOLEAN)
            /\ DOMAIN [breakpoints.slots EXCEPT ![main.arg.number] = FALSE] = DOMAIN breakpoints.slots
        BY <1>0, <4>1 DEF BreakpointTypes
      <4> QED BY <1>0, <2>1, <3>2, <4>1, <4>2, IdleTypes DEF DeleteReturns, BreakpointTypes
    <3> QED BY <1>0, <1>5, <2>1, <3>1, <3>2, IdleTypes DEF Returns, StepReturns, StatusReturns,
       CallbackReturns, ConstructReturns, AnswerReturns, BreakpointTypes
  <2>6. LinkTypes' /\ KdTypes'
    BY <1>0, <1>5 DEF Returns, StepReturns, AddReturns, DeleteReturns, StatusReturns, CallbackReturns,
       ConstructReturns, AnswerReturns, LinkTypes, KdTypes
  <2> QED BY <2>2, <2>3, <2>4, <2>5, <2>6 DEF Types
<1> QED BY <1>1, <1>2, <1>3, <1>4, <1>5 DEF MainStep

(* What the other threads, kd and the target do.                           *)
LEMMA TypesThreads ==
  ASSUME Types, ThreadStep \/ (\E taken \in BOOLEAN : NotifierWakes(taken)) \/ NotifierWaited
  PROVE  Types'
<1>0. MainTypes /\ ThreadTypes /\ ServerTypes /\ LinkTypes /\ KdTypes /\ BreakpointTypes /\ OtherTypes
  BY DEF Types
<1> USE DEF counters
<1>1. CASE ThreadWrites
  <2>1. Command(thread.what, Number(0)) \in Commands
    BY <1>0, <1>1, KdAssumption DEF ThreadWrites, ThreadTypes, Command, Number, Breakpoint, Commands, Args
  <2>2. LinkTypes' /\ KdTypes'
    BY <1>0, <1>1, <2>1, WriteTypes DEF ThreadWrites
  <2> QED BY <1>0, <1>1, <2>2 DEF ThreadWrites, Types, MainTypes, ThreadTypes, ServerTypes, BreakpointTypes,
     OtherTypes
<1>2. CASE ThreadReads
  <2>1. LinkTypes' /\ KdTypes'
    BY <1>0, <1>2, ReadTypes DEF ThreadReads
  <2> QED BY <1>0, <1>2, <2>1 DEF ThreadReads, Types, MainTypes, ThreadTypes, ServerTypes, BreakpointTypes,
     OtherTypes
<1>3. CASE ThreadTakes
  <2>1. LinkTypes'
    BY <1>0, <1>3, TakenTypes DEF ThreadTakes, LinkTypes
  <2>2. ThreadTypes'
    BY <1>0, <1>3 DEF ThreadTakes, ThreadTypes
  <2>3. UNCHANGED <<main, server, breakpoints, kd, target, engine, calls, spurious, deaths>>
    BY <1>3 DEF ThreadTakes
  <2> QED BY <1>0, <2>1, <2>2, <2>3 DEF Types, MainTypes, ServerTypes, KdTypes, BreakpointTypes, OtherTypes
<1>4. CASE ThreadThrows
  <2>1. ServerTypes'
    BY <1>0, <1>4 DEF ThreadThrows, ServerTypes
  <2>2. UNCHANGED <<main, thread, notifier, link, breakpoints, kd, target, engine, calls, spurious, deaths>>
    BY <1>4 DEF ThreadThrows
  <2> QED BY <1>0, <2>1, <2>2 DEF Types, MainTypes, ThreadTypes, LinkTypes, KdTypes, BreakpointTypes, OtherTypes
<1>5. ASSUME NEW taken \in BOOLEAN, NotifierWakes(taken) PROVE Types'
  <2>1. ServerTypes'
    BY <1>0, <1>5 DEF NotifierWakes, ServerTypes
  <2>2. ThreadTypes'
    BY <1>0, <1>5 DEF NotifierWakes, ThreadTypes
  <2> QED BY <1>0, <1>5, <2>1, <2>2 DEF NotifierWakes, Types, MainTypes, LinkTypes, KdTypes,
     BreakpointTypes, OtherTypes
<1>6. CASE NotifierWaited
  BY <1>0, <1>6 DEF NotifierWaited, Types, MainTypes, ThreadTypes, ServerTypes, LinkTypes, KdTypes,
     BreakpointTypes, OtherTypes
<1> QED BY <1>1, <1>2, <1>3, <1>4, <1>5, <1>6 DEF ThreadStep

(* What the main thread dispatches, and the release.                       *)
LEMMA TypesDispatch ==
  ASSUME Types, Dispatch \/ FinalRelease \/ DeleteController
  PROVE  Types'
<1>0. MainTypes /\ ThreadTypes /\ ServerTypes /\ LinkTypes /\ KdTypes /\ BreakpointTypes /\ OtherTypes
  BY DEF Types
<1> USE DEF counters
<1>1. ASSUME ShutdownKD PROVE LinkTypes' /\ KdTypes'
  BY <1>0, <1>1 DEF ShutdownKD, LinkTypes, KdTypes
<1>2. CASE PerformKeepaliveChecks
  <2>1. LinkTypes' /\ KdTypes'
    BY <1>0, <1>1, <1>2 DEF PerformKeepaliveChecks, LinkTypes, KdTypes
  <2>2. ServerTypes' /\ ThreadTypes'
    BY <1>0, <1>2 DEF PerformKeepaliveChecks, ServerTypes, ThreadTypes
  <2> QED BY <1>0, <1>2, <2>1, <2>2 DEF PerformKeepaliveChecks, Types, MainTypes, BreakpointTypes, OtherTypes
<1>3. CASE OnAsynchronousCommandCompleted
  <2>1. CASE server.listener
    <3> DEFINE todo == <<Command("registers", Number(link.lastCpu))>>
    <3>1. link.lastCpu \in Nat
      BY <1>0, KdAssumption DEF LinkTypes
    <3>2. Number(link.lastCpu) \in Args /\ Command("registers", Number(link.lastCpu)) \in MainCommands
      BY <3>1, CommandTypes DEF MainNames
    <3>3. todo \in Seq(MainCommands) /\ todo # <<>>
      BY <3>2
    <3>4. main' = Call("callback", Number(link.lastCpu), todo)
      BY <1>3, <2>1 DEF OnAsynchronousCommandCompleted
    <3> HIDE DEF todo
    <3>5. MainTypes' /\ main'.op = "callback"
      BY <3>2, <3>3, <3>4 DEF Call, MainTypes, Ops
    <3>6. ServerTypes' /\ ThreadTypes'
      BY ZenonT(60), <1>0, <1>3, <2>1 DEF OnAsynchronousCommandCompleted, ServerTypes,
         ThreadTypes
    <3> QED BY <1>0, <1>3, <2>1, <3>5, <3>6 DEF OnAsynchronousCommandCompleted, Types, LinkTypes, KdTypes,
       BreakpointTypes, OtherTypes
  <2>2. CASE ~server.listener
    BY <1>0, <1>3, <2>2 DEF OnAsynchronousCommandCompleted, Types, MainTypes, ThreadTypes, ServerTypes,
       LinkTypes, KdTypes, BreakpointTypes, OtherTypes
  <2> QED BY <2>1, <2>2
<1>4. CASE FinalRelease
  <2>1. ServerTypes'
    <3>1. server.semaphore + 1 \in Nat
      BY <1>0 DEF ServerTypes
    <3> QED BY <1>0, <1>4, <3>1 DEF FinalRelease, ServerTypes
  <2> QED BY <1>0, <1>4, <2>1 DEF FinalRelease, Types, MainTypes, ThreadTypes, LinkTypes, KdTypes,
     BreakpointTypes, OtherTypes
<1>5. CASE DeleteController
  <2>1. ServerTypes'
    BY <1>0, <1>5 DEF DeleteController, ServerTypes
  <2>2. LinkTypes' /\ KdTypes'
    BY <1>1, <1>5 DEF DeleteController
  <2> QED BY <1>0, <1>5, <2>1, <2>2 DEF DeleteController, Types, MainTypes, ThreadTypes, BreakpointTypes,
     OtherTypes
<1> QED BY <1>2, <1>3, <1>4, <1>5 DEF Dispatch

(* What kd, the target and deaths do.                                      *)
LEMMA TypesKd ==
  ASSUME Types,
         \/ KdExecutes \/ (\E cpu \in Cpus : TargetStops(cpu)) \/ TargetPrints \/ KdDies \/ EngineDies
  PROVE  Types'
<1>0. MainTypes /\ ThreadTypes /\ ServerTypes /\ LinkTypes /\ KdTypes /\ BreakpointTypes /\ OtherTypes
  BY SMTT(60) DEF Types
<1> USE DEF counters
<1>1. CASE KdExecutes
  <2> DEFINE next == kd.input[1]
             arg == next.what.arg
             cpu == IF next.what.name = "select" THEN arg.number ELSE kd.cpu
             armed == IF next.what.name \in {"bp", "bc"}
                      THEN {b \in kd.armed : b.number # arg.number}
                           \cup (IF next.what.name = "bp" THEN {arg} ELSE {})
                      ELSE kd.armed
             done == [kd EXCEPT !.input = Tail(kd.input), !.cpu = cpu, !.armed = armed]
  <2>1. next \in [number : Nat \ {0}, what : Commands] /\ Tail(kd.input) \in Seq([number : Nat \ {0}, what : Commands])
    <3>1. kd.input \in Seq([number : Nat \ {0}, what : Commands]) /\ kd.input # <<>>
      BY <1>0, <1>1 DEF KdTypes, KdExecutes
    <3> QED BY <3>1, HeadTail, Zenon
  <2>2. /\ arg \in Args /\ next.number \in Nat
        /\ next.what.name = "select" => arg.number \in Cpus
    BY <2>1 DEF Commands
  <2>3. cpu \in Cpus /\ armed \in SUBSET Args
    BY SMTT(60), <1>0, <2>2 DEF KdTypes
  <2>4. \/ /\ kd' = [done EXCEPT !.resumed = next.number]
           /\ target' = [target EXCEPT !.running = TRUE, !.step = (next.what.name = "t")]
        \/ /\ kd' = [done EXCEPT !.output = Printed(done, next.number)]
           /\ UNCHANGED target
    BY <1>1 DEF KdExecutes
  <2> HIDE DEF next, arg, cpu, armed
  <2>5. done \in [alive : BOOLEAN, input : Seq([number : Nat \ {0}, what : Commands]), output : Seq(Tokens),
                  cpu : Cpus, armed : SUBSET Args, resumed : Nat]
    BY <1>0, <2>1, <2>3 DEF KdTypes
  <2> HIDE DEF done
  <2>6. Printed(done, next.number) \in Seq(Tokens)
    <3>1. <<Text(next.number)>> \o Prompt(done.cpu) \in Seq(Tokens) /\ Text(next.number) \in Tokens
          /\ Prompt(done.cpu) \in Seq(Tokens) /\ done.output \in Seq(Tokens)
      BY <2>2, <2>5, PromptTokens
    <3> QED BY <3>1 DEF Printed
  <2>7. KdTypes'
    BY <2>2, <2>4, <2>5, <2>6 DEF KdTypes
  <2>8. OtherTypes'
    <3>1. (next.what.name = "t") \in BOOLEAN
      OBVIOUS
    <3> QED BY <1>0, <1>1, <2>4, <3>1, Zenon DEF OtherTypes, KdExecutes
  <2> QED BY SMTT(60), <1>0, <1>1, <2>7, <2>8 DEF KdExecutes, Types, MainTypes,
     ThreadTypes, ServerTypes, LinkTypes,
     BreakpointTypes
<1>2. ASSUME NEW cpu \in Cpus, TargetStops(cpu) PROVE Types'
  <2> DEFINE printed == Printed([kd EXCEPT !.cpu = cpu], kd.resumed)
  <2>1. printed \in Seq(Tokens)
    <3>1. Text(kd.resumed) \in Tokens /\ Prompt(cpu) \in Seq(Tokens) /\ kd.output \in Seq(Tokens)
      BY <1>0, PromptTokens DEF KdTypes
    <3>2. [kd EXCEPT !.cpu = cpu].cpu = cpu /\ [kd EXCEPT !.cpu = cpu].output = kd.output
      BY <1>0 DEF KdTypes
    <3>3. printed = kd.output \o <<Text(kd.resumed)>> \o Prompt(cpu)
      BY <3>2 DEF Printed
    <3> QED BY <3>1, <3>3, Concatenated, Zenon
  <2>2. kd' = [kd EXCEPT !.resumed = 0, !.cpu = cpu, !.output = printed]
    BY <1>2 DEF TargetStops
  <2> HIDE DEF printed
  <2>3. KdTypes'
    BY <1>0, <2>1, <2>2 DEF KdTypes
  <2>4. OtherTypes'
    BY <1>0, <1>2 DEF OtherTypes, TargetStops
  <2>5. UNCHANGED <<main, thread, notifier, server, link, breakpoints>>
    BY <1>2 DEF TargetStops
  <2> QED BY <1>0, <2>3, <2>4, <2>5 DEF Types, MainTypes, ThreadTypes, ServerTypes, LinkTypes,
     BreakpointTypes
<1>3. CASE TargetPrints
  <2>1. Prompt(0) \in Seq(Tokens)
    BY PromptTokens, KdAssumption
  <2>2. KdTypes'
    <3>1. kd.output \o Prompt(0) \in Seq(Tokens)
      BY <1>0, <2>1 DEF KdTypes
    <3> QED BY <1>0, <1>3, <3>1 DEF TargetPrints, KdTypes
  <2>3. OtherTypes'
    BY <1>0, <1>3 DEF TargetPrints, OtherTypes
  <2>4. UNCHANGED <<main, thread, notifier, server, link, breakpoints>>
    BY <1>3 DEF TargetPrints
  <2> QED BY <1>0, <2>2, <2>3, <2>4 DEF Types, MainTypes, ThreadTypes, ServerTypes, LinkTypes,
     BreakpointTypes
<1>4. CASE KdDies
  <2>1. KdTypes' /\ OtherTypes'
    <3>1. deaths + 1 \in Nat
      BY <1>0 DEF OtherTypes
    <3> QED BY <1>0, <1>4, <3>1, Zenon DEF KdDies, KdTypes, OtherTypes
  <2>2. UNCHANGED <<main, thread, notifier, server, link, breakpoints>>
    BY <1>4 DEF KdDies
  <2> QED BY <1>0, <2>1, <2>2 DEF Types, MainTypes, ThreadTypes, ServerTypes, LinkTypes, BreakpointTypes
<1>5. CASE EngineDies
  <2>1. OtherTypes'
    <3>1. deaths + 1 \in Nat
      BY <1>0 DEF OtherTypes
    <3> QED BY <1>0, <1>5, <3>1, Zenon DEF EngineDies, OtherTypes
  <2>2. UNCHANGED <<main, thread, notifier, server, link, breakpoints, kd>>
    BY <1>5 DEF EngineDies
  <2> QED BY <1>0, <2>1, <2>2 DEF Types, MainTypes, ThreadTypes, ServerTypes, LinkTypes, KdTypes,
     BreakpointTypes
<1> QED BY <1>1, <1>2, <1>3, <1>4, <1>5

(* The slot of a new breakpoint.                                           *)
LEMMA FreshSlot ==
  ASSUME BreakpointTypes
  PROVE  /\ WithSlot(breakpoints.slots, NewSlot) \in Seq(BOOLEAN)
         /\ NewSlot \in DOMAIN WithSlot(breakpoints.slots, NewSlot)
         /\ WithSlot(breakpoints.slots, NewSlot)[NewSlot] = FALSE
         /\ \A i \in DOMAIN breakpoints.slots :
              /\ i \in DOMAIN WithSlot(breakpoints.slots, NewSlot)
              /\ WithSlot(breakpoints.slots, NewSlot)[i] = breakpoints.slots[i]
<1> DEFINE slots == breakpoints.slots
<1>0. slots \in Seq(BOOLEAN) /\ Len(slots) \in Nat /\ DOMAIN slots = 1 .. Len(slots)
  BY DEF BreakpointTypes
<1>1. CASE FreeSlots = {}
  <2>1. NewSlot = Len(slots) + 1 /\ WithSlot(slots, NewSlot) = Append(slots, FALSE)
    <3>1. NewSlot = Len(slots) + 1
      BY <1>1 DEF NewSlot
    <3>2. NewSlot > Len(slots)
      BY <1>0, <3>1
    <3> QED BY <3>1, <3>2, Zenon DEF WithSlot
  <2> HIDE DEF slots
  <2>2. /\ Append(slots, FALSE) \in Seq(BOOLEAN)
        /\ DOMAIN Append(slots, FALSE) = 1 .. Len(slots) + 1
        /\ Append(slots, FALSE)[Len(slots) + 1] = FALSE
        /\ \A i \in 1 .. Len(slots) : Append(slots, FALSE)[i] = slots[i]
    BY <1>0
  <2>3. Len(slots) + 1 \in 1 .. Len(slots) + 1 /\ (\A i \in 1 .. Len(slots) : i \in 1 .. Len(slots) + 1)
    BY <1>0
  <2> QED BY <1>0, <2>1, <2>2, <2>3, Zenon DEF slots
<1>2. CASE FreeSlots # {}
  <2>1. FreeSlots \in SUBSET Nat
    BY <1>0 DEF FreeSlots
  <2>2. \E i \in FreeSlots : \A j \in FreeSlots : i <= j
    BY <1>2, <2>1, Least
  <2>3. NewSlot \in FreeSlots
    BY <1>2, <2>2 DEF NewSlot
  <2>4. NewSlot \in DOMAIN slots /\ slots[NewSlot] = FALSE
    BY <1>0, <2>3 DEF FreeSlots
  <2>5. WithSlot(slots, NewSlot) = slots
    <3>1. ~(NewSlot > Len(slots))
      BY <1>0, <2>4
    <3> QED BY <3>1, Zenon DEF WithSlot
  <2> QED BY <1>0, <2>4, <2>5
<1> QED BY <1>1, <1>2

(* The calls of the engine.                                                *)
LEMMA TypesEngine ==
  ASSUME Types, EngineCalls
  PROVE  Types'
<1>0. MainTypes /\ ThreadTypes /\ ServerTypes /\ LinkTypes /\ KdTypes /\ BreakpointTypes /\ OtherTypes
  BY DEF Types
<1>a. link.lastCpu \in Nat /\ calls + 1 \in Nat /\ 0 \in Nat /\ 0 \in Cpus /\ Number(0) \in Args
  <2>1. link.lastCpu \in Cpus
    BY <1>0 DEF LinkTypes
  <2>2. calls + 1 \in Nat
    BY <1>0 DEF OtherTypes
  <2> QED BY <2>1, <2>2, KdAssumption DEF Number, Breakpoint, Args
(* What Calls leaves alone, and the types that depend on nothing else.     *)
<1>b. ASSUME Calls
      PROVE  /\ UNCHANGED <<link, kd, target, notifier, spurious, deaths>>
             /\ LinkTypes' /\ KdTypes'
             /\ UNCHANGED engine => OtherTypes'
             /\ UNCHANGED thread => ThreadTypes'
             /\ UNCHANGED server => ServerTypes'
  BY <1>0, <1>a, <1>b DEF Calls, LinkTypes, KdTypes, OtherTypes, ThreadTypes, ServerTypes
<1>c. GetProcessorCount \in Seq(MainCommands)
  BY <1>a, CommandTypes DEF GetProcessorCount, MainNames
<1>d. ASSUME NEW op \in {"step", "registers", "memory", "set", "pcr"}, NEW arg \in Args,
             NEW todo \in Seq(MainCommands), Calls, main' = Call(op, arg, todo),
             UNCHANGED <<thread, server, breakpoints, engine>>
      PROVE  Types'
  <2>1. MainTypes' /\ main'.op = op
    BY <1>d DEF Call, MainTypes, Ops
  <2>2. BreakpointTypes'
    BY <1>0, <1>d, <2>1 DEF BreakpointTypes
  <2> QED BY <1>b, <1>d, <2>1, <2>2 DEF Types
<1>1. CASE Run
  <2>1. Calls /\ Start("g") /\ UNCHANGED <<main, breakpoints>>
    BY <1>1 DEF Run
  <2>2. ThreadTypes' /\ ServerTypes' /\ BreakpointTypes' /\ MainTypes'
    BY <1>0, <1>b, <2>1, StartTypes DEF MainTypes, BreakpointTypes
  <2>3. OtherTypes'
    BY <1>0, <1>a, <1>b, <2>1, StartTypes DEF Calls, OtherTypes
  <2> QED BY <1>b, <2>1, <2>2, <2>3 DEF Types
<1>2. CASE GetRunStatus
  <2>1. Calls /\ UNCHANGED <<thread, server, breakpoints, engine>>
    BY <1>2 DEF GetRunStatus
  <2>2. MainTypes' /\ BreakpointTypes'
    <3>1. CASE main' = Idle
      BY <1>0, <2>1, <3>1, IdleTypes DEF MainTypes, BreakpointTypes
    <3> DEFINE todo == <<Command("registers", Number(link.lastCpu))>>
    <3>2. CASE main' = Call("status", Number(link.lastCpu), todo)
      <4>1. Number(link.lastCpu) \in Args /\ Command("registers", Number(link.lastCpu)) \in MainCommands
        BY <1>a, CommandTypes DEF MainNames
      <4>2. todo \in Seq(MainCommands) /\ todo # <<>>
        BY <4>1
      <4> HIDE DEF todo
      <4>3. MainTypes' /\ main'.op = "status"
        BY <3>2, <4>1, <4>2 DEF Call, MainTypes, Ops
      <4> QED BY <1>0, <2>1, <4>3 DEF BreakpointTypes
    <3> QED BY <1>2, <3>1, <3>2 DEF GetRunStatus
  <2> QED BY <1>b, <2>1, <2>2 DEF Types
<1>3. CASE NotifyingRunChg
  <2>1. Calls /\ UNCHANGED <<main, thread, breakpoints, engine>>
    BY <1>3 DEF NotifyingRunChg
  <2> DEFINE other == ~server.listener
  <2>2. other \in BOOLEAN /\ server' = [server EXCEPT !.listener = other]
    BY <1>3 DEF NotifyingRunChg
  <2> HIDE DEF other
  <2>3. ServerTypes'
    BY <1>0, <2>2, Zenon DEF ServerTypes
  <2> QED BY <1>0, <1>b, <2>1, <2>3 DEF Types, MainTypes, BreakpointTypes
<1>4. CASE ReadVirtualMemory
  <2>1. <<Command("memory", Number(0))>> \in Seq(MainCommands)
    BY <1>a, CommandTypes DEF MainNames
  <2> QED BY <1>4, <1>a, <1>d, <2>1 DEF ReadVirtualMemory, Ask
<1>5. CASE SetContextEx
  <2>1. [register \in 1 .. 2 |-> Command("set", Number(register))] \in Seq(MainCommands)
    <3>1. \A register \in 1 .. 2 : Command("set", Number(register)) \in MainCommands
      BY CommandTypes DEF MainNames
    <3> QED BY <3>1
  <2> QED BY <1>5, <1>a, <1>d, <2>1 DEF SetContextEx, Ask
<1>6. ASSUME NEW cpu \in Cpus, DoSingleStep(cpu) \/ GetContextEx(cpu) \/ GetKPCRForProcessor(cpu) PROVE Types'
  <2>1. cpu \in Nat
    BY KdAssumption
  <2>2. /\ Number(cpu) \in Args /\ Command("select", Number(cpu)) \in MainCommands
        /\ Command("registers", Number(cpu)) \in MainCommands /\ Command("pcr", Number(cpu)) \in MainCommands
    BY <2>1, CommandTypes DEF MainNames
  <2>3. /\ Append(GetProcessorCount, Command("select", Number(cpu))) \in Seq(MainCommands)
        /\ Append(GetProcessorCount, Command("pcr", Number(cpu))) \in Seq(MainCommands)
        /\ <<Command("registers", Number(cpu))>> \in Seq(MainCommands)
    BY <1>c, <2>2
  <2> QED BY <1>6, <1>a, <1>d, <2>2, <2>3 DEF DoSingleStep, GetContextEx, GetKPCRForProcessor, Ask
<1>7. ASSUME NEW address \in Addresses, AddCodeBreakpoint(address) PROVE Types'
  <2> DEFINE new == Breakpoint(address, NewSlot)
             todo == <<Command("bp", new)>>
             slots == WithSlot(breakpoints.slots, NewSlot)
  <2>1. /\ Calls /\ UNCHANGED <<thread, server, engine>> /\ main' = Call("add", new, todo)
        /\ breakpoints' = [breakpoints EXCEPT !.slots = slots]
    BY <1>7 DEF AddCodeBreakpoint
  <2>2. /\ slots \in Seq(BOOLEAN) /\ NewSlot \in DOMAIN slots
        /\ \A i \in DOMAIN breakpoints.slots : i \in DOMAIN slots
    BY <1>0, FreshSlot
  <2>3. DOMAIN slots \subseteq Nat
    BY <2>2
  <2>4. new \in Args /\ new.number = NewSlot /\ Command("bp", new) \in MainCommands
    BY <2>2, <2>3 DEF Breakpoint, Args, Command, MainCommands, Commands, MainNames
  <2>5. todo \in Seq(MainCommands) /\ todo # <<>>
    BY <2>4
  <2> HIDE DEF new, todo, slots
  <2>6. MainTypes' /\ main'.op = "add" /\ main'.arg = new
    BY <2>1, <2>4, <2>5 DEF Call, MainTypes, Ops
  <2>7. BreakpointTypes'
    BY <1>0, <2>1, <2>2, <2>4, <2>6 DEF BreakpointTypes
  <2> QED BY <1>b, <2>1, <2>6, <2>7 DEF Types
<1>8. ASSUME NEW object \in breakpoints.objects, DelCodeBreakpoint(object) PROVE Types'
  <2> DEFINE todo == <<Command("bc", Number(object.number))>>
  <2>1. /\ Calls /\ UNCHANGED <<thread, server, breakpoints, engine>> /\ main' = Call("delete", object, todo)
        /\ object \in Args /\ object.number \in DOMAIN breakpoints.slots
    BY <1>0, <1>8 DEF DelCodeBreakpoint, BreakpointTypes
  <2>2. object.number \in Nat
    BY <2>1 DEF Args
  <2>3. todo \in Seq(MainCommands) /\ todo # <<>>
    BY <2>2, CommandTypes DEF MainNames
  <2> HIDE DEF todo
  <2>4. MainTypes' /\ main'.op = "delete" /\ main'.arg = object
    BY <2>1, <2>3 DEF Call, MainTypes, Ops
  <2>5. BreakpointTypes'
    BY <1>0, <2>1, <2>4 DEF BreakpointTypes
  <2> QED BY <1>b, <2>1, <2>4, <2>5 DEF Types
<1> QED BY <1>1, <1>2, <1>3, <1>4, <1>5, <1>6, <1>7, <1>8 DEF EngineCalls

(* No step leaves the types.                                               *)
LEMMA TypesNext == Types /\ [Next]_vars => Types'
<1> SUFFICES ASSUME Types, [Next]_vars PROVE Types'
  OBVIOUS
<1>1. CASE Next
  BY <1>1, TypesMain, TypesThreads, TypesDispatch, TypesKd, TypesEngine DEF Next, NotifierStep
<1>2. CASE UNCHANGED vars
  BY <1>2 DEF vars, counters, Types, MainTypes, ThreadTypes, ServerTypes, LinkTypes, KdTypes,
     BreakpointTypes, OtherTypes
<1> QED BY <1>1, <1>2

(* The types hold in every reachable state.                                *)
LEMMA TypesAlways == Spec => []Types
BY TypesInit, TypesNext, PTL DEF Spec

(* Every variable has its type.                                            *)
THEOREM TypeCorrect == Spec => []TypeOK
<1>1. Types => TypeOK
  BY KdAssumption DEF Types, MainTypes, ThreadTypes, ServerTypes, LinkTypes, BreakpointTypes, OtherTypes, TypeOK
<1> QED BY <1>1, TypesAlways, PTL

-----------------------------------------------------------------------------
(* The invariant.                                                          *)

(* The commands that a call has still to execute.                          *)
Work ==
  /\ main.phase = "done" => main.todo = <<>>
  /\ main.op = "add" => main.todo = <<>> \/ main.todo = <<Command("bp", main.arg)>>
  /\ main.op = "delete" => main.todo = <<>> \/ main.todo = <<Command("bc", Number(main.arg.number))>>
  /\ main.op \notin {"add", "delete"} =>
       \A i \in DOMAIN main.todo : main.todo[i].name \notin {"bp", "bc"}
  /\ main.op # "step" => \A i \in DOMAIN main.todo : main.todo[i].name # "select"

(* Who is at work.  A call of the engine finds no resume under way, which  *)
(* is one at most: it is with the command thread, then in the semaphore or *)
(* with the notification thread, until its callback has returned.          *)
Reported == {"alive", "command", "callback"}
Turns ==
  /\ kd.alive => link.open
  /\ target.running <=> kd.resumed # 0
  /\ server.releasing = server.terminating
  /\ server.releasing => main.op \in {"idle", "callback"}
  /\ ~(main.phase = "read" /\ IsAsynchronousCommandInProgress)
  /\ main.op \notin {"idle", "construct", "status", "callback"} => engine.belief = "halted"
  /\ main.op = "callback" => notifier = "callback"
  /\ notifier = "callback" => thread.at = "ended"
  /\ engine.belief = "halted" =>
       /\ ~IsAsynchronousCommandInProgress /\ notifier \notin Reported
       /\ ~server.terminating => server.semaphore = 0
  /\ engine.belief = "running" =>
       /\ thread.at # "none" /\ server.wasStep = (thread.what = "t")
  /\ ~server.terminating =>
       /\ server.semaphore <= 1 /\ (notifier \in Reported => server.semaphore = 0)

(* Where the one command that may be under way is: nowhere, given to kd,   *)
(* with the target, or answered, of which a part has been read.            *)
Answer(n, cpu) == <<Text(n), Newline, KdPrompt(cpu)>>
Silent == link.buffer = <<>> /\ kd.output = <<>>
Nothing == kd.input = <<>> /\ kd.resumed = 0 /\ Silent
Given ==
  /\ Len(kd.input) = 1 /\ kd.input[1].number = link.asked /\ kd.resumed = 0 /\ Silent
  /\ main.phase = "read" => kd.input[1].what = main.todo[1]
  /\ thread.at = "read" => kd.input[1].what.name = thread.what
Resumed ==
  /\ kd.input = <<>> /\ kd.resumed = link.asked /\ kd.resumed # 0 /\ Silent
  /\ main.phase # "read"
  /\ thread.at = "read" => target.step = (thread.what = "t")
Answered ==
  /\ kd.input = <<>> /\ kd.resumed = 0
  /\ \E k \in 0 .. 3 :
       /\ link.buffer = SubSeq(Answer(link.asked, kd.cpu), 1, k)
       /\ kd.output = SubSeq(Answer(link.asked, kd.cpu), k + 1, 3)
  /\ thread.at = "read" => target.step = (thread.what = "t") /\ kd.cpu = target.cpu
Reading == main.phase = "read" \/ thread.at = "read"
Conversation ==
  /\ Nothing \/ Given \/ Resumed \/ Answered
  /\ ~Nothing /\ kd.alive => Reading
  /\ link.answered.of = <<Text(link.answered.to)>>

(* What the server knows of the last stop.                                 *)
Stopped == ~target.running /\ target.step = server.wasStep
Settled == Stopped /\ kd.cpu = target.cpu /\ link.lastCpu = target.cpu
Told ==
  /\ engine.belief = "halted" =>
       /\ Stopped /\ engine.told = [cpu |-> target.cpu, step |-> target.step]
       /\ \/ main.op = "step" \/ ~kd.alive \/ Settled
          \/ main.op = "construct" /\ Len(main.todo) = 2 /\ kd.cpu = target.cpu
  /\ engine.belief = "running" /\ thread.at = "ended" => Settled
  /\ main.op = "callback" => main.arg.number = target.cpu
  /\ main.op = "status" /\ engine.belief = "halted" =>
       main.arg.number = target.cpu \/ (main.phase = "write" /\ ~kd.alive)

(* The slots, the objects and what kd is armed with.                       *)
Objects ==
  /\ \A o \in breakpoints.objects : breakpoints.slots[o.number]
  /\ \A o, p \in breakpoints.objects : o.number = p.number => o = p
  /\ main.op = "add" => ~breakpoints.slots[main.arg.number]
  /\ main.op = "delete" => main.arg \in breakpoints.objects
After ==
  IF main.op = "add" THEN breakpoints.objects \cup {main.arg}
  ELSE IF main.op = "delete" THEN breakpoints.objects \ {main.arg} ELSE breakpoints.objects
Armed ==
  kd.alive =>
    kd.armed = IF main.phase = "done" \/ (main.phase = "read" /\ kd.input = <<>>) THEN After
               ELSE breakpoints.objects

InStep == Work /\ Turns /\ Objects /\ (spurious = 0 => Conversation /\ Told /\ Armed)

-----------------------------------------------------------------------------
(* The commands of a call.                                                 *)

(* A command behind another or alone.                                      *)
LEMMA OneOrTwo ==
  ASSUME NEW S, NEW c \in S, NEW d \in S, NEW s \in {<<>>, <<c>>}
  PROVE  /\ Append(s, d) \in Seq(S)
         /\ \A i \in DOMAIN Append(s, d) : Append(s, d)[i] \in {c, d}
<1>1. CASE s = <<>>
  BY <1>1
<1>2. CASE s = <<c>>
  BY <1>2
<1> QED BY <1>1, <1>2

(* Every step keeps Work: a call runs through the commands it began with.  *)
LEMMA WorkNext == Types /\ Work /\ [Next]_vars => Work'
<1> SUFFICES ASSUME Types, Work, [Next]_vars PROVE Work'
  OBVIOUS
<1>0. MainTypes /\ BreakpointTypes
  BY DEF Types
<1>1. CASE UNCHANGED main
  BY <1>1 DEF Work
<1>2. CASE main' = Idle
  BY <1>2 DEF Idle, Work
<1>3. CASE main' = [main EXCEPT !.phase = "read"]
  <2>1. main'.op = main.op /\ main'.arg = main.arg /\ main'.todo = main.todo /\ main'.phase = "read"
    BY <1>0, <1>3 DEF MainTypes
  <2> QED BY <2>1 DEF Work
<1>4. ASSUME NEW op, NEW arg, NEW todo \in Seq(MainCommands), main' = Call(op, arg, todo)
      PROVE  main'.op = op /\ main'.arg = arg /\ main'.todo = todo /\ (main'.phase = "done" => todo = <<>>)
  BY <1>4 DEF Call
<1>5. CASE MainTakes
  <2>1. main.todo # <<>> /\ main.todo \in Seq(MainCommands)
    BY <1>0, <1>5 DEF MainTakes, MainTypes
  <2>2. Tail(main.todo) \in Seq(MainCommands)
        /\ \A i \in DOMAIN Tail(main.todo) : i + 1 \in DOMAIN main.todo /\ Tail(main.todo)[i] = main.todo[i + 1]
    BY <2>1
  <2>3. main'.op = main.op /\ main'.arg = main.arg /\ main'.todo = Tail(main.todo)
        /\ (main'.phase = "done" => Tail(main.todo) = <<>>)
    BY <1>4, <1>5, <2>2 DEF MainTakes
  <2>4. \A c : Tail(<<c>>) = <<>>
    OBVIOUS
  <2> QED BY <2>1, <2>2, <2>3, <2>4, Zenon DEF Work
(* A call whose commands are not of breakpoints and, but for a step, select*)
(* nothing.                                                                *)
<1>6. ASSUME NEW op, op \notin {"add", "delete"}, NEW arg, NEW todo \in Seq(MainCommands),
             main' = Call(op, arg, todo),
             \A i \in DOMAIN todo : todo[i].name \notin {"bp", "bc"},
             op # "step" => \A i \in DOMAIN todo : todo[i].name # "select"
      PROVE  Work'
  BY <1>4, <1>6 DEF Work
<1>7. CASE EngineCalls
  <2> USE DEF Command
  <2>1. link.lastCpu \in Nat /\ Cpus \subseteq Nat /\ 0 \in Nat /\ 0 \in Cpus
    BY KdAssumption DEF Types, LinkTypes
  <2>2. GetProcessorCount \in {<<>>, <<Command("cpuid", Number(0))>>}
    BY DEF GetProcessorCount
  <2>3. CASE GetRunStatus
    <3> DEFINE todo == <<Command("registers", Number(link.lastCpu))>>
    <3>1. todo \in Seq(MainCommands) /\ (\A i \in DOMAIN todo : todo[i].name = "registers")
      BY <2>1, CommandTypes DEF MainNames
    <3> QED BY <1>2, <1>6, <2>3, <3>1 DEF GetRunStatus
  <2>4. CASE ReadVirtualMemory
    <3> DEFINE todo == <<Command("memory", Number(0))>>
    <3>1. todo \in Seq(MainCommands) /\ (\A i \in DOMAIN todo : todo[i].name = "memory")
      BY <2>1, CommandTypes DEF MainNames
    <3> QED BY <1>6, <2>4, <3>1 DEF ReadVirtualMemory, Ask
  <2>5. CASE SetContextEx
    <3> DEFINE todo == [register \in 1 .. 2 |-> Command("set", Number(register))]
    <3>1. \A register \in 1 .. 2 : Command("set", Number(register)) \in MainCommands
      BY CommandTypes DEF MainNames
    <3>2. todo \in Seq(MainCommands) /\ (\A i \in DOMAIN todo : todo[i].name = "set")
      BY <3>1
    <3> QED BY <1>6, <2>5, <3>2 DEF SetContextEx, Ask
  <2>6. ASSUME NEW cpu \in Cpus, DoSingleStep(cpu) PROVE Work'
    <3> DEFINE todo == Append(GetProcessorCount, Command("select", Number(cpu)))
    <3> DEFINE c == Command("cpuid", Number(0))
               d == Command("select", Number(cpu))
    <3>1. c \in MainCommands /\ d \in MainCommands /\ c.name = "cpuid" /\ d.name = "select"
      BY <2>1, CommandTypes DEF MainNames
    <3>2. GetProcessorCount \in {<<>>, <<c>>} /\ todo = Append(GetProcessorCount, d)
      BY <2>2
    <3> HIDE DEF c, d, todo
    <3>3. todo \in Seq(MainCommands) /\ (\A i \in DOMAIN todo : todo[i] \in {c, d})
      BY <3>1, <3>2, OneOrTwo
    <3>4. \A i \in DOMAIN todo : todo[i].name \in {"cpuid", "select"}
      BY <3>1, <3>3, Zenon
    <3> USE DEF todo, d
    <3> QED BY <1>6, <2>6, <3>3, <3>4 DEF DoSingleStep
  <2>7. ASSUME NEW cpu \in Cpus, GetContextEx(cpu) PROVE Work'
    <3> DEFINE todo == <<Command("registers", Number(cpu))>>
    <3>1. todo \in Seq(MainCommands) /\ (\A i \in DOMAIN todo : todo[i].name = "registers")
      BY <2>1, CommandTypes DEF MainNames
    <3> QED BY <1>6, <2>7, <3>1 DEF GetContextEx, Ask
  <2>8. ASSUME NEW cpu \in Cpus, GetKPCRForProcessor(cpu) PROVE Work'
    <3> DEFINE todo == Append(GetProcessorCount, Command("pcr", Number(cpu)))
    <3> DEFINE c == Command("cpuid", Number(0))
               d == Command("pcr", Number(cpu))
    <3>1. c \in MainCommands /\ d \in MainCommands /\ c.name = "cpuid" /\ d.name = "pcr"
      BY <2>1, CommandTypes DEF MainNames
    <3>2. GetProcessorCount \in {<<>>, <<c>>} /\ todo = Append(GetProcessorCount, d)
      BY <2>2
    <3> HIDE DEF c, d, todo
    <3>3. todo \in Seq(MainCommands) /\ (\A i \in DOMAIN todo : todo[i] \in {c, d})
      BY <3>1, <3>2, OneOrTwo
    <3>4. \A i \in DOMAIN todo : todo[i].name \in {"cpuid", "pcr"}
      BY <3>1, <3>3, Zenon
    <3> USE DEF todo, d
    <3> QED BY <1>6, <2>8, <3>3, <3>4 DEF GetKPCRForProcessor, Ask
  <2>9. ASSUME NEW address \in Addresses, AddCodeBreakpoint(address) PROVE Work'
    BY <2>9 DEF AddCodeBreakpoint, Call, Work
  <2>10. ASSUME NEW object \in breakpoints.objects, DelCodeBreakpoint(object) PROVE Work'
    BY <2>10 DEF DelCodeBreakpoint, Call, Work
  <2>11. CASE Run \/ NotifyingRunChg
    BY <1>1, <2>11 DEF Run, NotifyingRunChg
  <2> QED BY <1>7, <2>3, <2>4, <2>5, <2>6, <2>7, <2>8, <2>9, <2>10, <2>11 DEF EngineCalls
<1>8. CASE OnAsynchronousCommandCompleted
  <2> DEFINE todo == <<Command("registers", Number(link.lastCpu))>>
  <2>1. link.lastCpu \in Nat
    BY KdAssumption DEF Types, LinkTypes
  <2>2. todo \in Seq(MainCommands) /\ (\A i \in DOMAIN todo : todo[i].name = "registers")
    BY <2>1, CommandTypes DEF MainNames, Command
  <2> QED BY ZenonT(60), <1>1, <1>6, <1>8, <2>2 DEF OnAsynchronousCommandCompleted
<1>9. Next => \/ UNCHANGED main \/ main' = Idle \/ main' = [main EXCEPT !.phase = "read"] \/ MainTakes
              \/ EngineCalls \/ OnAsynchronousCommandCompleted
  BY Zenon DEF Next, MainStep, MainWrites, MainReads, MainThrows, Returns, Return, StepReturns, AddReturns,
     DeleteReturns, StatusReturns, CallbackReturns, ConstructReturns, AnswerReturns, Dispatch,
     PerformKeepaliveChecks, ThreadStep, ThreadWrites, ThreadReads, ThreadTakes, ThreadThrows, NotifierStep,
     NotifierWakes, NotifierWaited, FinalRelease, DeleteController, KdExecutes, TargetStops, TargetPrints,
     KdDies, EngineDies, vars, counters
<1> QED BY <1>1, <1>2, <1>3, <1>5, <1>7, <1>8, <1>9 DEF vars

-----------------------------------------------------------------------------
(* Turns.                                                                  *)

(* It holds at the start.                                                  *)
LEMMA TurnsInit == Init => Turns
<1> SUFFICES ASSUME Init PROVE Turns
  OBVIOUS
<1>1. /\ kd.alive /\ kd.resumed = 0 /\ link.open /\ ~target.running /\ main.op = "construct"
      /\ thread.at = "none" /\ notifier = "none" /\ engine.belief = "halted"
      /\ server.releasing = FALSE /\ server.terminating = FALSE /\ server.semaphore = 0
  BY DEF Init, Call
<1>2. (target.running <=> kd.resumed # 0) /\ server.releasing = server.terminating
  BY <1>1
<1>3. notifier \notin Reported /\ ~IsAsynchronousCommandInProgress
  BY <1>1 DEF IsAsynchronousCommandInProgress, Reported
<1>4. server.semaphore <= 1 /\ ~server.terminating /\ ~server.releasing
  BY <1>1
<1> QED BY <1>1, <1>2, <1>3, <1>4 DEF Turns

(* Every step keeps Turns: a resume is with one thread at a time.          *)
LEMMA TurnsNext == Types /\ Work /\ Turns /\ [Next]_vars => Turns'
<1> SUFFICES ASSUME Types, Work, Turns, [Next]_vars PROVE Turns'
  OBVIOUS
<1>0. /\ main \in [op : Ops, arg : Args, todo : Seq(MainCommands), phase : {"none", "write", "read", "done"}]
      /\ main.op = "idle" <=> main.phase = "none"
      /\ ThreadTypes /\ ServerTypes /\ LinkTypes /\ KdTypes /\ OtherTypes
  BY DEF Types, MainTypes
<1> USE DEF IsAsynchronousCommandInProgress, Reported, Ops
<1>i. Idle.op = "idle" /\ Idle.phase = "none"
  BY DEF Idle
<1>c. ASSUME NEW op, NEW arg, NEW todo, main' = Call(op, arg, todo)
      PROVE  main'.op = op /\ main'.phase # "read"
  BY <1>c DEF Call
(* A command is written or an answer read.                                 *)
<1>1. ASSUME NEW what, Write(what)
      PROVE  /\ kd'.alive = kd.alive /\ kd'.resumed = kd.resumed /\ link'.open = link.open
  BY <1>0, <1>1 DEF Write, KdTypes, LinkTypes
<1>2. CASE MainWrites
  <2>1. main'.op = main.op /\ main.phase = "write"
    BY <1>0, <1>2 DEF MainWrites
  <2> QED BY <1>0, <1>1, <1>2, <2>1 DEF MainWrites, Turns
<1>3. ASSUME ReadFile
      PROVE  /\ kd'.alive = kd.alive /\ kd'.resumed = kd.resumed /\ link'.open = link.open
  BY <1>0, <1>3 DEF ReadFile, KdTypes, LinkTypes
<1>4. CASE MainReads \/ ThreadReads
  BY <1>3, <1>4 DEF MainReads, ThreadReads, Turns
<1>5. CASE MainTakes
  <2>1. link'.open = link.open
    BY <1>0, <1>5, TakenTypes DEF MainTakes
  <2>2. main'.op = main.op /\ main'.phase # "read"
    BY <1>5, <1>c DEF MainTakes
  <2> QED BY <1>5, <2>1, <2>2 DEF MainTakes, Turns
<1>6. CASE MainThrows
  <2>1. /\ main'.op = "idle" /\ main'.phase = "none" /\ UNCHANGED <<thread, link, kd, target, engine>>
        /\ server' = [server EXCEPT !.process = server'.process]
        /\ notifier' = IF main.op = "callback" THEN "wait" ELSE notifier
    BY <1>0, <1>6, <1>i DEF MainThrows, ServerTypes
  <2>2. /\ server'.terminating = server.terminating /\ server'.releasing = server.releasing
        /\ server'.semaphore = server.semaphore /\ server'.wasStep = server.wasStep
    BY <1>0, <2>1 DEF ServerTypes
  <2> QED BY <1>0, <2>1, <2>2 DEF Turns
<1>7. CASE StepReturns
  <2>1. /\ main.op = "step" /\ main'.op = "idle" /\ main'.phase = "none" /\ Start("t")
        /\ UNCHANGED <<notifier, link, kd, target>>
    BY <1>7, <1>i DEF StepReturns, Return
  <2> QED BY <1>0, <2>1 DEF Start, Turns, ThreadTypes, ServerTypes, OtherTypes
<1>8. CASE CallbackReturns
  <2>1. /\ main.op = "callback" /\ main'.op = "idle" /\ main'.phase = "none" /\ notifier' = "wait"
        /\ UNCHANGED <<thread, server, link, kd, target>> /\ engine'.belief = "halted"
    BY <1>0, <1>8, <1>i DEF CallbackReturns, Return, OtherTypes
  <2> QED BY <2>1 DEF Turns
<1>9. CASE Returns /\ ~StepReturns /\ ~CallbackReturns
  <2>1. /\ main'.op = "idle" /\ main'.phase = "none" /\ UNCHANGED <<thread, server, link, kd, target>>
        /\ engine'.belief = engine.belief /\ (notifier' = notifier \/ notifier' = "wait")
    BY <1>0, <1>9, <1>i DEF Returns, AddReturns, DeleteReturns, StatusReturns, ConstructReturns, AnswerReturns,
       Return, OtherTypes
  <2> QED BY <2>1 DEF Turns
<1>10. CASE EngineCalls
  <2>1. /\ Calls /\ main.op = "idle" /\ ~server.releasing
        /\ UNCHANGED <<link, kd, target, notifier>>
    BY <1>10 DEF EngineCalls, Calls, Run, GetRunStatus, NotifyingRunChg, ReadVirtualMemory, SetContextEx,
       DoSingleStep, GetContextEx, GetKPCRForProcessor, Ask, AddCodeBreakpoint, DelCodeBreakpoint
  <2>2. CASE Run
    <3>1. Start("g") /\ engine.belief = "halted" /\ UNCHANGED main
      BY <2>2 DEF Run, Halted
    <3> QED BY <1>0, <2>1, <3>1 DEF Start, Turns, ThreadTypes, ServerTypes, OtherTypes
  <2>3. CASE GetRunStatus
    BY <1>i, <1>c, <2>1, <2>3 DEF GetRunStatus, Turns
  <2>4. CASE NotifyingRunChg
    <3>1. /\ server'.terminating = server.terminating /\ server'.releasing = server.releasing
          /\ server'.semaphore = server.semaphore /\ server'.wasStep = server.wasStep
          /\ UNCHANGED <<main, thread, engine>>
      BY <1>0, <2>4 DEF NotifyingRunChg, ServerTypes
    <3> QED BY <2>1, <3>1 DEF Turns
  <2>5. CASE \E op, arg, todo : engine.belief = "halted" /\ main' = Call(op, arg, todo)
                                /\ op # "callback" /\ UNCHANGED <<thread, server, engine>>
    BY <1>c, <2>1, <2>5 DEF Turns
  <2>6. EngineCalls => \/ Run \/ GetRunStatus \/ NotifyingRunChg
                       \/ \E op, arg, todo : engine.belief = "halted" /\ main' = Call(op, arg, todo)
                                              /\ op # "callback" /\ UNCHANGED <<thread, server, engine>>
    BY DEF EngineCalls, ReadVirtualMemory, SetContextEx, DoSingleStep, GetContextEx, GetKPCRForProcessor, Ask,
       AddCodeBreakpoint, DelCodeBreakpoint, Halted
  <2> QED BY <1>10, <2>2, <2>3, <2>4, <2>5, <2>6
<1>11. CASE ThreadWrites
  <2>1. thread.at = "write" /\ thread'.at = "read" /\ thread'.what = thread.what
    BY <1>0, <1>11 DEF ThreadWrites, ThreadTypes
  <2> QED BY <1>1, <1>11, <2>1 DEF ThreadWrites, Turns
<1>12. CASE ThreadTakes
  <2>1. thread.at = "read" /\ thread'.at = "ended" /\ thread'.what = thread.what
    BY <1>0, <1>12 DEF ThreadTakes, ThreadTypes
  <2>2. link'.open = link.open
    BY <1>0, <1>12, TakenTypes DEF ThreadTakes
  <2> QED BY <1>12, <2>1, <2>2 DEF ThreadTakes, Turns
<1>13. CASE ThreadThrows
  <2>1. /\ server'.terminating = server.terminating /\ server'.releasing = server.releasing
        /\ server'.semaphore = server.semaphore /\ server'.wasStep = server.wasStep
    BY <1>0, <1>13 DEF ThreadThrows, ServerTypes
  <2> QED BY <1>13, <2>1 DEF ThreadThrows, Turns
<1>14. ASSUME NEW taken \in BOOLEAN, NotifierWakes(taken) PROVE Turns'
  <2>1. /\ server'.terminating = server.terminating /\ server'.releasing = server.releasing
        /\ server'.wasStep = server.wasStep /\ server.semaphore \in Nat
        /\ server'.semaphore = IF taken THEN server.semaphore - 1 ELSE server.semaphore
    BY <1>0, <1>14 DEF NotifierWakes, ServerTypes
  <2> QED BY <1>14, <2>1 DEF NotifierWakes, Turns
<1>15. CASE NotifierWaited
  BY <1>0, <1>15 DEF NotifierWaited, Turns, ThreadTypes, OtherTypes
<1>16. ASSUME ShutdownKD PROVE ~kd'.alive /\ kd'.resumed = kd.resumed
  BY <1>0, <1>16 DEF ShutdownKD, Turns, KdTypes
<1>17. CASE PerformKeepaliveChecks
  <2>1. /\ kd'.alive => link'.open
        /\ kd'.resumed = kd.resumed
    BY <1>16, <1>17 DEF PerformKeepaliveChecks, Turns
  <2>2. /\ server'.terminating = server.terminating /\ server'.releasing = server.releasing
        /\ server'.semaphore = server.semaphore /\ server'.wasStep = server.wasStep
    BY <1>0, <1>17 DEF PerformKeepaliveChecks, ServerTypes
  <2> QED BY <1>17, <2>1, <2>2 DEF PerformKeepaliveChecks, Turns
<1>18. CASE OnAsynchronousCommandCompleted
  <2>1. \/ main'.op = "callback" /\ main'.phase # "read" /\ UNCHANGED notifier
        \/ UNCHANGED main /\ notifier' = "wait" /\ main.op = "idle"
    BY <1>18, <1>c DEF OnAsynchronousCommandCompleted
  <2>2. /\ server'.terminating = server.terminating /\ server'.releasing = server.releasing
        /\ server'.semaphore = server.semaphore /\ server'.wasStep = server.wasStep
    BY <1>0, <1>18 DEF OnAsynchronousCommandCompleted, ServerTypes
  <2>3. notifier = "callback" /\ UNCHANGED <<thread, link, kd, target, engine>>
    BY <1>18 DEF OnAsynchronousCommandCompleted
  <2> QED BY <2>1, <2>2, <2>3 DEF Turns
<1>19. CASE FinalRelease
  <2>1. server'.terminating /\ server'.releasing /\ server'.wasStep = server.wasStep
    BY <1>0, <1>19 DEF FinalRelease, ServerTypes
  <2> QED BY <1>19, <2>1 DEF FinalRelease, Turns
<1>20. CASE DeleteController
  <2>1. /\ server'.terminating = server.terminating /\ server'.releasing = server.releasing
        /\ server'.semaphore = server.semaphore /\ server'.wasStep = server.wasStep
    BY <1>0, <1>20 DEF DeleteController, ServerTypes
  <2> QED BY <1>16, <1>20, <2>1 DEF DeleteController, Turns
<1>21. CASE KdExecutes
  <2> DEFINE next == kd.input[1]
  <2>1. next.number # 0
    <3>1. next \in [number : Nat \ {0}, what : Commands]
      BY <1>0, <1>21, HeadTail, Zenon DEF KdTypes, KdExecutes
    <3> QED BY <3>1
  <2>2. /\ kd'.alive = kd.alive
        /\ \/ kd'.resumed = next.number /\ target'.running
           \/ kd'.resumed = kd.resumed /\ target'.running = target.running
    BY ZenonT(60), <1>0, <1>21 DEF KdExecutes, KdTypes, OtherTypes
  <2> QED BY <1>21, <2>1, <2>2 DEF KdExecutes, Turns
<1>22. ASSUME NEW cpu \in Cpus, TargetStops(cpu) PROVE Turns'
  <2>1. kd'.resumed = 0 /\ kd'.alive = kd.alive /\ ~target'.running
    BY <1>0, <1>22 DEF TargetStops, KdTypes, OtherTypes
  <2> QED BY <1>22, <2>1 DEF TargetStops, Turns
<1>23. CASE TargetPrints \/ KdDies
  <2>1. kd'.resumed = kd.resumed /\ (kd'.alive => kd.alive)
    BY <1>0, <1>23 DEF TargetPrints, KdDies, KdTypes
  <2> QED BY <1>23, <2>1 DEF TargetPrints, KdDies, Turns
<1>24. CASE EngineDies
  <2>1. engine'.belief = engine.belief
    BY <1>0, <1>24 DEF EngineDies, OtherTypes
  <2> QED BY <1>24, <2>1 DEF EngineDies, Turns
<1>25. CASE UNCHANGED vars
  BY <1>25 DEF vars, counters, Turns
<1> QED BY <1>2, <1>4, <1>5, <1>6, <1>7, <1>8, <1>9, <1>10, <1>11, <1>12, <1>13, <1>14, <1>15, <1>17, <1>18,
  <1>19, <1>20, <1>21, <1>22, <1>23, <1>24, <1>25 DEF Next, MainStep, Dispatch, ThreadStep, NotifierStep

-----------------------------------------------------------------------------
(* The breakpoints that the engine has.                                    *)

(* Every step keeps it.                                                    *)
LEMMA ObjectsNext == Types /\ Objects /\ [Next]_vars => Objects'
<1> SUFFICES ASSUME Types, Objects, [Next]_vars PROVE Objects'
  OBVIOUS
<1>0. MainTypes /\ BreakpointTypes
  BY DEF Types
<1> USE DEF Ops
<1>1. CASE UNCHANGED breakpoints /\ main'.op = main.op /\ main'.arg = main.arg
  BY <1>1 DEF Objects
<1>2. CASE UNCHANGED breakpoints /\ main'.op \notin {"add", "delete"}
  BY <1>2 DEF Objects
<1>3. CASE AddReturns
  <2>1. /\ main.op = "add" /\ main'.op = "idle" /\ main.arg \in Args
        /\ breakpoints' = [slots |-> [breakpoints.slots EXCEPT ![main.arg.number] = TRUE],
                           objects |-> breakpoints.objects \cup {main.arg}]
    BY <1>0, <1>3 DEF AddReturns, Return, Idle, MainTypes
  <2>2. /\ breakpoints.slots \in Seq(BOOLEAN) /\ main.arg.number \in DOMAIN breakpoints.slots
        /\ \A o \in breakpoints.objects : o.number \in DOMAIN breakpoints.slots
    BY <1>0, <2>1 DEF BreakpointTypes
  <2>3. /\ breakpoints'.slots[main.arg.number] = TRUE
        /\ \A i \in DOMAIN breakpoints.slots :
             i # main.arg.number => breakpoints'.slots[i] = breakpoints.slots[i]
    BY <2>1, <2>2
  <2>4. \A o \in breakpoints.objects : o.number # main.arg.number
    BY <2>1 DEF Objects
  <2> QED BY <2>1, <2>2, <2>3, <2>4 DEF Objects
<1>4. CASE DeleteReturns
  <2>1. /\ main.op = "delete" /\ main'.op = "idle" /\ main.arg \in Args
        /\ breakpoints' = [slots |-> [breakpoints.slots EXCEPT ![main.arg.number] = FALSE],
                           objects |-> breakpoints.objects \ {main.arg}]
    BY <1>0, <1>4 DEF DeleteReturns, Return, Idle, MainTypes
  <2>2. /\ breakpoints.slots \in Seq(BOOLEAN) /\ main.arg.number \in DOMAIN breakpoints.slots
        /\ \A o \in breakpoints.objects : o.number \in DOMAIN breakpoints.slots
    BY <1>0, <2>1 DEF BreakpointTypes
  <2>3. \A i \in DOMAIN breakpoints.slots :
             i # main.arg.number => breakpoints'.slots[i] = breakpoints.slots[i]
    BY <2>1, <2>2
  <2>4. \A o \in breakpoints.objects \ {main.arg} : o.number # main.arg.number
    BY <2>1 DEF Objects
  <2> QED BY <2>1, <2>2, <2>3, <2>4 DEF Objects
<1>5. ASSUME NEW address \in Addresses, AddCodeBreakpoint(address) PROVE Objects'
  <2> DEFINE slots == WithSlot(breakpoints.slots, NewSlot)
  <2>1. /\ main'.op = "add" /\ main'.arg.number = NewSlot
        /\ breakpoints'.slots = slots /\ breakpoints'.objects = breakpoints.objects
    BY <1>0, <1>5 DEF AddCodeBreakpoint, Call, Breakpoint, BreakpointTypes
  <2>2. slots[NewSlot] = FALSE /\ (\A i \in DOMAIN breakpoints.slots : slots[i] = breakpoints.slots[i])
    BY <1>0, FreshSlot
  <2>3. \A o \in breakpoints.objects : o.number \in DOMAIN breakpoints.slots
    BY <1>0 DEF BreakpointTypes
  <2> HIDE DEF slots
  <2> QED BY <2>1, <2>2, <2>3 DEF Objects
<1>6. ASSUME NEW object \in breakpoints.objects, DelCodeBreakpoint(object) PROVE Objects'
  BY <1>6 DEF DelCodeBreakpoint, Call, Objects
<1>7. ASSUME NEW op, NEW arg, NEW todo, main' = Call(op, arg, todo)
      PROVE  main'.op = op /\ main'.arg = arg
  BY <1>7 DEF Call
<1>8. CASE EngineCalls
  <2>1. CASE \E op, arg, todo : main' = Call(op, arg, todo) /\ op \notin {"add", "delete"} /\ UNCHANGED breakpoints
    BY <1>2, <1>7, <2>1
  <2>2. CASE main' = Idle /\ UNCHANGED breakpoints
    BY <1>2, <2>2 DEF Idle
  <2>3. CASE UNCHANGED <<main, breakpoints>>
    BY <1>1, <2>3
  <2>4. EngineCalls =>
          \/ UNCHANGED <<main, breakpoints>>
          \/ main' = Idle /\ UNCHANGED breakpoints
          \/ \E op, arg, todo : main' = Call(op, arg, todo) /\ op \notin {"add", "delete"} /\ UNCHANGED breakpoints
          \/ \E address \in Addresses : AddCodeBreakpoint(address)
          \/ \E object \in breakpoints.objects : DelCodeBreakpoint(object)
    <3>1. ReadVirtualMemory \/ SetContextEx =>
            \E op, arg, todo : main' = Call(op, arg, todo) /\ op \notin {"add", "delete"} /\ UNCHANGED breakpoints
      BY DEF ReadVirtualMemory, SetContextEx, Ask
    <3>2. ASSUME NEW cpu \in Cpus, DoSingleStep(cpu) \/ GetContextEx(cpu) \/ GetKPCRForProcessor(cpu)
          PROVE \E op, arg, todo : main' = Call(op, arg, todo) /\ op \notin {"add", "delete"} /\ UNCHANGED breakpoints
      BY <3>2 DEF DoSingleStep, GetContextEx, GetKPCRForProcessor, Ask
    <3>3. GetRunStatus =>
            \/ main' = Idle /\ UNCHANGED breakpoints
            \/ \E op, arg, todo : main' = Call(op, arg, todo) /\ op \notin {"add", "delete"} /\ UNCHANGED breakpoints
      BY DEF GetRunStatus
    <3>4. Run \/ NotifyingRunChg => UNCHANGED <<main, breakpoints>>
      BY DEF Run, NotifyingRunChg
    <3> QED BY <3>1, <3>2, <3>3, <3>4, Zenon DEF EngineCalls
  <2> QED BY <1>5, <1>6, <1>8, <2>1, <2>2, <2>3, <2>4
<1>9. CASE MainWrites \/ MainTakes
  BY <1>0, <1>1, <1>7, <1>9 DEF MainWrites, MainTakes, MainTypes
<1>10. CASE OnAsynchronousCommandCompleted
  BY <1>1, <1>2, <1>7, <1>10 DEF OnAsynchronousCommandCompleted
<1>11. CASE main' = Idle /\ UNCHANGED breakpoints
  BY <1>2, <1>11 DEF Idle
<1>12. CASE UNCHANGED <<main, breakpoints>>
  BY <1>1, <1>12
<1> DEFINE Listed ==
      \/ AddReturns \/ DeleteReturns \/ EngineCalls \/ MainWrites \/ MainTakes
      \/ OnAsynchronousCommandCompleted
      \/ main' = Idle /\ UNCHANGED breakpoints
      \/ UNCHANGED <<main, breakpoints>>
<1>13. Listed
  <2>1. ASSUME MainStep PROVE Listed
    BY <2>1 DEF MainStep, MainReads, MainThrows, Returns, Return, StepReturns, StatusReturns, CallbackReturns,
       ConstructReturns, AnswerReturns
  <2>2. ASSUME Dispatch \/ FinalRelease \/ DeleteController PROVE Listed
    <3>1. PerformKeepaliveChecks \/ FinalRelease \/ DeleteController => UNCHANGED <<main, breakpoints>>
      BY DEF PerformKeepaliveChecks, FinalRelease, DeleteController
    <3> QED BY <2>2, <3>1, Zenon DEF Dispatch
  <2>3. ASSUME ThreadStep \/ NotifierStep \/ NotifierWakes(FALSE) PROVE Listed
    BY <2>3 DEF ThreadStep, ThreadWrites, ThreadReads, ThreadTakes, ThreadThrows, NotifierStep, NotifierWakes,
       NotifierWaited
  <2>4. ASSUME KdExecutes \/ (\E cpu \in Cpus : TargetStops(cpu)) \/ TargetPrints \/ KdDies \/ EngineDies
        PROVE  Listed
    BY <2>4 DEF KdExecutes, TargetStops, TargetPrints, KdDies, EngineDies
  <2>5. ASSUME EngineCalls PROVE Listed
    BY <2>5
  <2>6. ASSUME UNCHANGED vars PROVE Listed
    BY <2>6 DEF vars
  <2> HIDE DEF Listed
  <2> QED BY <2>1, <2>2, <2>3, <2>4, <2>5, <2>6 DEF Next
<1> QED BY <1>3, <1>4, <1>8, <1>9, <1>10, <1>11, <1>12, <1>13

-----------------------------------------------------------------------------
(* The conversation.                                                       *)

(* A prefix and a suffix of three tokens, and a prefix of the suffix.      *)
LEMMA PartsOfThree ==
  ASSUME NEW S, NEW a \in Seq(S), Len(a) = 3, NEW k \in 0 .. 3
  PROVE  /\ Len(SubSeq(a, 1, k)) = k /\ Len(SubSeq(a, k + 1, 3)) = 3 - k
         /\ SubSeq(a, 1, 3) = a /\ SubSeq(a, 1, 0) = <<>> /\ SubSeq(a, 4, 3) = <<>>
         /\ \A n \in 1 .. 3 - k :
              /\ SubSeq(a, 1, k) \o SubSeq(SubSeq(a, k + 1, 3), 1, n) = SubSeq(a, 1, k + n)
              /\ SubSeq(SubSeq(a, k + 1, 3), n + 1, 3 - k) = SubSeq(a, k + n + 1, 3)
OBVIOUS

(* A sequence of one element is its first element.                         *)
LEMMA OfLengthOne ==
  ASSUME NEW S, NEW s \in Seq(S), Len(s) = 1, NEW x \in S, s[1] = x
  PROVE  s = <<x>>
OBVIOUS

(* Without it nothing is left.                                             *)
LEMMA TailOfOne ==
  ASSUME NEW S, NEW s \in Seq(S), Len(s) = 1
  PROVE  Tail(s) = <<>>
<1>1. s[1] \in S
  OBVIOUS
<1>2. s = <<s[1]>>
  BY <1>1, OfLengthOne
<1>3. \A x : Tail(<<x>>) = <<>>
  OBVIOUS
<1> QED BY <1>2, <1>3, Zenon

(* The parts of an answer: what is read and what is left.                  *)
LEMMA AnswerTokens ==
  ASSUME NEW n \in Nat, NEW cpu \in Cpus
  PROVE  /\ Answer(n, cpu) \in Seq(Tokens) /\ Len(Answer(n, cpu)) = 3
         /\ Answer(n, cpu) = <<>> \o <<Text(n)>> \o Prompt(cpu)
<1>1. cpu \in Nat
  BY KdAssumption
<1>2. Newline \in Tokens /\ KdPrompt(cpu) \in Tokens /\ Text(n) \in Tokens
  BY <1>1 DEF Newline, KdPrompt, Text, Tokens
<1> QED BY <1>2 DEF Answer, Prompt

(* The only prompt of an answer is its end.                                *)
LEMMA OnePrompt ==
  ASSUME NEW n \in Nat, NEW cpu \in Cpus
  PROVE  EndsOfPrompts(Answer(n, cpu)) = {3}
BY DEF EndsOfPrompts, Answer, Text, Newline, KdPrompt

(* What an answer that is there says, and what taking it leaves.           *)
LEMMA TakenAnswer ==
  ASSUME Types, Conversation, HasAnswer
  PROVE  /\ Answered /\ kd.output = <<>>
         /\ Taken.buffer = <<>> /\ Taken.lastCpu = kd.cpu /\ Taken.asked = link.asked
         /\ Taken.open = link.open
         /\ Taken.answered = [to |-> link.asked, of |-> <<Text(link.asked)>>]
<1> DEFINE a == Answer(link.asked, kd.cpu)
<1>0. /\ LinkTypes /\ KdTypes /\ link.asked \in Nat /\ kd.cpu \in Cpus
  BY DEF Types, LinkTypes, KdTypes
<1>1. EndsOfPrompts(<<>>) = {}
  BY DEF EndsOfPrompts
<1>2. Answered
  BY <1>1 DEF HasAnswer, Conversation, Nothing, Given, Resumed, Silent
<1>3. PICK k \in 0 .. 3 : link.buffer = SubSeq(a, 1, k) /\ kd.output = SubSeq(a, k + 1, 3)
  BY <1>2 DEF Answered
<1>4. /\ a \in Seq(Tokens) /\ Len(a) = 3
  BY <1>0, AnswerTokens
<1>5. k = 3
  <2>1. Len(link.buffer) = k
    BY <1>3, <1>4, PartsOfThree
  <2>2. PICK i \in 2 .. k : link.buffer[i].kind = "kd>"
    BY <2>1 DEF HasAnswer, EndsOfPrompts
  <2>3. link.buffer[i] = a[i]
    BY <1>3, <1>4, <2>2
  <2>4. i # 2
    BY <2>2, <2>3 DEF Answer, Newline
  <2> QED BY <2>2, <2>4
<1>6. link.buffer = a /\ kd.output = <<>>
  BY <1>3, <1>4, <1>5, PartsOfThree
<1>7. EndOfAnswer = 3
  <2>1. EndsOfPrompts(link.buffer) = {3}
    BY <1>0, <1>6, OnePrompt
  <2> QED BY <2>1 DEF EndOfAnswer
<1>8. /\ a[3].of = kd.cpu /\ SubSeq(a, 4, 3) = <<>> /\ SubSeq(a, 1, 1) = <<Text(link.asked)>>
  <2>1. a[3] = KdPrompt(kd.cpu) /\ a[1] = Text(link.asked)
    BY DEF Answer
  <2>2. SubSeq(a, 1, 1) = <<a[1]>> /\ SubSeq(a, 4, 3) = <<>>
    <3> HIDE DEF a
    <3>1. a \in Seq(Tokens) /\ Len(a) = 3
      BY <1>4
    <3>2. SubSeq(a, 1, 1) \in Seq(Tokens) /\ Len(SubSeq(a, 1, 1)) = 1 /\ SubSeq(a, 1, 1)[1] = a[1]
      BY SMTT(60), <3>1
    <3>3. a[1] \in Tokens
      BY SMTT(60), <3>1
    <3>4. SubSeq(a, 1, 1) = <<a[1]>>
      BY <3>2, <3>3, OfLengthOne
    <3> QED BY <3>1, <3>4, PartsOfThree
  <2> QED BY <2>1, <2>2 DEF KdPrompt
<1> HIDE DEF a
<1>9. Taken = [link EXCEPT !.buffer = <<>>, !.lastCpu = kd.cpu,
                           !.answered = [to |-> link.asked, of |-> <<Text(link.asked)>>]]
  <2>1. Len(link.buffer) = 3 /\ 3 + 1 = 4 /\ 3 - 2 = 1
    BY <1>4, <1>6
  <2>2. /\ SubSeq(link.buffer, EndOfAnswer + 1, Len(link.buffer)) = <<>>
        /\ link.buffer[EndOfAnswer].of = kd.cpu
        /\ SubSeq(link.buffer, 1, EndOfAnswer - 2) = <<Text(link.asked)>>
    BY <1>6, <1>7, <1>8, <2>1
  <2> QED BY <2>2 DEF Taken
<1> QED BY <1>0, <1>2, <1>6, <1>9 DEF LinkTypes

(* At first kd's prompt is there to be read.                               *)
LEMMA ConversationInit == Init => Conversation
<1> SUFFICES ASSUME Init PROVE Conversation
  OBVIOUS
<1>1. PICK cpu \in Cpus :
        kd = [alive |-> TRUE, input |-> <<>>, output |-> <<Text(0)>> \o Prompt(cpu), cpu |-> cpu,
              armed |-> {}, resumed |-> 0]
  BY DEF Init
<1>2. kd.cpu = cpu /\ kd.input = <<>> /\ kd.resumed = 0 /\ kd.output = <<Text(0)>> \o Prompt(cpu)
  BY <1>1
<1>3. /\ link.buffer = <<>> /\ link.asked = 0 /\ link.answered = [to |-> 0, of |-> <<Text(0)>>]
      /\ thread.at = "none" /\ main.phase = "read"
  BY DEF Init, Call
<1>4. Answered
  <2> DEFINE a == Answer(0, cpu)
  <2>1. a \in Seq(Tokens) /\ Len(a) = 3 /\ a = <<Text(0)>> \o Prompt(cpu)
    BY AnswerTokens DEF Answer, Prompt
  <2> HIDE DEF a
  <2>2. SubSeq(a, 1, 0) = <<>> /\ SubSeq(a, 1, 3) = a
    BY <2>1
  <2>3. link.buffer = SubSeq(a, 1, 0) /\ kd.output = SubSeq(a, 0 + 1, 3)
    BY <1>2, <1>3, <2>1, <2>2
  <2> QED BY <1>2, <1>3, <2>3 DEF Answered, a
<1> QED BY <1>3, <1>4 DEF Conversation, Reading

(* Most steps leave the conversation alone.                                *)
Apart ==
  /\ UNCHANGED <<kd.input, kd.output, kd.resumed, kd.cpu, kd.armed, target>>
  /\ UNCHANGED <<link.buffer, link.asked, link.answered, link.lastCpu>>
  /\ kd'.alive => kd.alive
  /\ main'.phase = "read" => UNCHANGED main
  /\ thread'.at = "read" => UNCHANGED thread
  /\ Reading /\ kd'.alive => Reading'

(* A step that stays apart from the pipes keeps the conversation.          *)
LEMMA ApartKept == Conversation /\ Apart => Conversation'
<1> SUFFICES ASSUME Conversation, Apart PROVE Conversation'
  OBVIOUS
<1> USE DEF Apart
<1>1. Nothing <=> Nothing'
  BY DEF Nothing, Silent
<1>2. Given => Given'
  BY DEF Given, Silent
<1>3. Resumed => Resumed'
  BY DEF Resumed, Silent
<1>4. Answered => Answered'
  BY ZenonT(60) DEF Answered
<1> QED BY <1>1, <1>2, <1>3, <1>4 DEF Conversation

(* All steps stay apart but those that write, read or take and kd's own.   *)
LEMMA ApartSteps ==
  ASSUME Types, Turns,
         \/ MainThrows \/ Returns \/ EngineCalls \/ ThreadThrows \/ NotifierStep \/ NotifierWakes(FALSE)
         \/ Dispatch \/ FinalRelease \/ DeleteController \/ KdDies \/ EngineDies \/ UNCHANGED vars
  PROVE  Apart
<1>0. /\ main.phase \in {"none", "write", "read", "done"} /\ (main.op = "idle" <=> main.phase = "none")
      /\ LinkTypes /\ KdTypes /\ ThreadTypes
  BY DEF Types, MainTypes
<1> USE DEF Apart, Reading
<1>i. Idle.phase = "none"
  BY DEF Idle
<1>c. ASSUME NEW op, NEW arg, NEW todo, main' = Call(op, arg, todo)
      PROVE  main'.phase # "read"
  BY <1>c DEF Call
<1>1. CASE MainThrows
  <2>1. main.phase = "read" => ~kd.alive
    BY <1>1 DEF MainThrows, ReadFileFails, Turns
  <2> QED BY <1>1, <1>i, <2>1 DEF MainThrows
<1>2. CASE Returns
  <2>1. main.phase = "done" /\ main' = Idle /\ UNCHANGED <<link, kd, target>>
    BY <1>2 DEF Returns, Return, StepReturns, AddReturns, DeleteReturns, StatusReturns, CallbackReturns,
       ConstructReturns, AnswerReturns
  <2>2. UNCHANGED thread \/ (thread'.at = "write" /\ thread.at # "read")
    BY <1>2 DEF Returns, StepReturns, AddReturns, DeleteReturns, StatusReturns, CallbackReturns,
       ConstructReturns, AnswerReturns, Start, IsAsynchronousCommandInProgress
  <2> QED BY <1>i, <2>1, <2>2
<1>3. CASE EngineCalls
  <2>1. Calls /\ main.phase = "none" /\ UNCHANGED <<link, kd, target>>
    BY <1>0, <1>3 DEF EngineCalls, Calls, Run, GetRunStatus, NotifyingRunChg, ReadVirtualMemory, SetContextEx,
       DoSingleStep, GetContextEx, GetKPCRForProcessor, Ask, AddCodeBreakpoint, DelCodeBreakpoint
  <2>2. CASE Run
    BY <2>1, <2>2 DEF Run, Start, IsAsynchronousCommandInProgress
  <2>3. CASE UNCHANGED <<main, thread>>
    BY <2>1, <2>3
  <2>4. CASE UNCHANGED thread /\ main'.phase # "read"
    BY <2>1, <2>4
  <2>5. ReadVirtualMemory \/ SetContextEx => UNCHANGED thread /\ main'.phase # "read"
    BY <1>c DEF ReadVirtualMemory, SetContextEx, Ask
  <2>6. ASSUME NEW cpu \in Cpus, DoSingleStep(cpu) \/ GetContextEx(cpu) \/ GetKPCRForProcessor(cpu)
        PROVE  UNCHANGED thread /\ main'.phase # "read"
    BY <1>c, <2>6 DEF DoSingleStep, GetContextEx, GetKPCRForProcessor, Ask
  <2>7. ASSUME NEW address \in Addresses, AddCodeBreakpoint(address)
        PROVE  UNCHANGED thread /\ main'.phase # "read"
    BY <1>c, <2>7 DEF AddCodeBreakpoint
  <2>8. ASSUME NEW object \in breakpoints.objects, DelCodeBreakpoint(object)
        PROVE  UNCHANGED thread /\ main'.phase # "read"
    BY <1>c, <2>8 DEF DelCodeBreakpoint
  <2>9. GetRunStatus => UNCHANGED thread /\ main'.phase # "read"
    BY <1>c, <1>i DEF GetRunStatus
  <2>10. NotifyingRunChg => UNCHANGED <<main, thread>>
    BY DEF NotifyingRunChg
  <2> HIDE DEF Apart
  <2> QED BY <1>3, <2>2, <2>3, <2>4, <2>5, <2>6, <2>7, <2>8, <2>9, <2>10 DEF EngineCalls
<1>4. CASE ThreadThrows \/ NotifierStep \/ NotifierWakes(FALSE) \/ FinalRelease \/ EngineDies
  BY <1>4 DEF ThreadThrows, NotifierStep, NotifierWakes, NotifierWaited, FinalRelease, EngineDies
<1>5. ASSUME ShutdownKD
      PROVE  /\ UNCHANGED <<kd.input, kd.output, kd.resumed, kd.cpu, kd.armed>>
             /\ UNCHANGED <<link.buffer, link.asked, link.answered, link.lastCpu>>
             /\ kd'.alive => kd.alive
  BY <1>0, <1>5 DEF ShutdownKD, KdTypes, LinkTypes
<1>6. CASE PerformKeepaliveChecks
  BY <1>5, <1>6 DEF PerformKeepaliveChecks
<1>7. CASE DeleteController
  BY <1>5, <1>7 DEF DeleteController
<1>8. CASE OnAsynchronousCommandCompleted
  <2>1. main.phase # "read" /\ (UNCHANGED main \/ main'.phase # "read")
    BY <1>0, <1>8, <1>c DEF OnAsynchronousCommandCompleted
  <2> QED BY <1>8, <2>1 DEF OnAsynchronousCommandCompleted
<1>9. CASE KdDies
  <2>1. /\ UNCHANGED <<kd.input, kd.output, kd.resumed, kd.cpu, kd.armed>> /\ ~kd'.alive
    BY <1>0, <1>9 DEF KdDies, KdTypes
  <2> QED BY <1>9, <2>1 DEF KdDies
<1>10. CASE UNCHANGED vars
  BY <1>10 DEF vars
<1> QED BY <1>1, <1>2, <1>3, <1>4, <1>6, <1>7, <1>8, <1>9, <1>10 DEF Dispatch

(* The other steps: writing, reading, taking an answer, and those of kd.   *)
LEMMA WrittenGiven ==
  ASSUME Types, Conversation, ~Reading, NEW what \in Commands, Write(what)
  PROVE  /\ Nothing /\ kd.alive /\ kd' = [kd EXCEPT !.input = kd'.input]
         /\ link' = [link EXCEPT !.asked = link.asked + 1]
         /\ Len(kd'.input) = 1 /\ kd'.input[1] = [number |-> link.asked + 1, what |-> what]
<1>1. Nothing /\ kd.alive
  BY DEF Write, CanWrite, Conversation
<1>2. kd.input = <<>> /\ KdTypes /\ LinkTypes
  BY <1>1 DEF Nothing, Types
<1> DEFINE c == [number |-> link.asked + 1, what |-> what]
<1>3. kd' = [kd EXCEPT !.input = Append(kd.input, c)] /\ link' = [link EXCEPT !.asked = link.asked + 1]
  BY DEF Write
<1> HIDE DEF c
<1>4. kd'.input = <<c>>
  BY <1>2, <1>3 DEF KdTypes
<1>5. kd' = [kd EXCEPT !.input = kd'.input]
  BY <1>2, <1>3, <1>4 DEF KdTypes
<1> QED BY SMTT(60), <1>1, <1>3, <1>4, <1>5 DEF c

(* A thread writes a command when nothing is under way.                    *)
LEMMA ConversationWrite ==
  ASSUME Types, Turns, Conversation, MainWrites \/ ThreadWrites
  PROVE  Conversation' /\ Given'
<1> DEFINE what == IF MainWrites THEN main.todo[1] ELSE Command(thread.what, Number(0))
<1>0. MainTypes /\ ThreadTypes /\ KdTypes /\ LinkTypes
  BY DEF Types
<1>1. what \in Commands /\ Write(what) /\ ~Reading
  <2>1. CASE MainWrites
    <3>1. main.todo[1] \in MainCommands
      BY <1>0, <2>1, HeadTail DEF MainWrites, MainTypes
    <3> QED BY <2>1, <3>1 DEF MainWrites, MainCommands, Reading, IsAsynchronousCommandInProgress
  <2>2. CASE ~MainWrites
    <3>1. ThreadWrites
      BY <2>2
    <3>2. Command(thread.what, Number(0)) \in Commands
      BY <1>0, <3>1 DEF ThreadWrites, ThreadTypes, Command, Number, Breakpoint, Commands, Args
    <3> QED BY <2>2, <3>1, <3>2 DEF ThreadWrites, Reading, Turns, IsAsynchronousCommandInProgress
  <2> QED BY <2>1, <2>2
<1>2. /\ Nothing /\ kd.alive /\ kd' = [kd EXCEPT !.input = kd'.input]
      /\ link' = [link EXCEPT !.asked = link.asked + 1]
      /\ Len(kd'.input) = 1 /\ kd'.input[1] = [number |-> link.asked + 1, what |-> what]
  BY <1>1, WrittenGiven
<1> HIDE DEF what
<1>3. /\ link'.asked = link.asked + 1 /\ link'.buffer = link.buffer /\ link'.answered = link.answered
      /\ kd'.output = kd.output /\ kd'.resumed = kd.resumed /\ kd'.alive = kd.alive
  BY <1>0, <1>2 DEF KdTypes, LinkTypes
<1>4. /\ main'.phase = "read" => what = main'.todo[1]
      /\ thread'.at = "read" => what.name = thread'.what
  <2>1. CASE MainWrites
    <3>1. main'.todo = main.todo /\ what = main.todo[1] /\ thread'.at # "read"
      BY <1>0, <2>1 DEF MainWrites, MainTypes, what, IsAsynchronousCommandInProgress
    <3> QED BY <3>1
  <2>2. CASE ~MainWrites
    <3>1. ThreadWrites /\ what = Command(thread.what, Number(0))
      BY <2>2 DEF what
    <3>2. main' = main /\ main.phase # "read" /\ thread'.what = thread.what
      BY <1>0, <3>1 DEF ThreadWrites, ThreadTypes, Turns, IsAsynchronousCommandInProgress
    <3> QED BY <3>1, <3>2 DEF Command
  <2> QED BY <2>1, <2>2
<1>5. Given'
  BY <1>2, <1>3, <1>4 DEF Given, Nothing, Silent
<1>6. Reading'
  BY <1>0 DEF MainWrites, ThreadWrites, Reading, MainTypes, ThreadTypes
<1> QED BY <1>3, <1>5, <1>6 DEF Conversation

(* A thread reads a part of the answer to the command it wrote.            *)
LEMMA ConversationRead ==
  ASSUME Types, Conversation, MainReads \/ ThreadReads
  PROVE  /\ Conversation' /\ UNCHANGED <<kd.input, kd.resumed, kd.cpu, kd.armed, kd.alive>>
         /\ UNCHANGED <<link.lastCpu, main, thread, target>>
<1> DEFINE a == Answer(link.asked, kd.cpu)
<1>0. KdTypes /\ LinkTypes
  BY DEF Types
<1>1. UNCHANGED <<main, thread, target>> /\ ReadFile
  BY DEF MainReads, ThreadReads
<1>2. PICK n \in 1 .. Len(kd.output) :
        /\ link' = [link EXCEPT !.buffer = link.buffer \o SubSeq(kd.output, 1, n)]
        /\ kd' = [kd EXCEPT !.output = SubSeq(kd.output, n + 1, Len(kd.output))]
  BY <1>1 DEF ReadFile
<1>3. /\ UNCHANGED <<kd.input, kd.resumed, kd.cpu, kd.armed, kd.alive>>
      /\ UNCHANGED <<link.lastCpu, link.asked, link.answered>>
      /\ link'.buffer = link.buffer \o SubSeq(kd.output, 1, n)
      /\ kd'.output = SubSeq(kd.output, n + 1, Len(kd.output))
  BY <1>0, <1>2 DEF KdTypes, LinkTypes
<1>4. Answered
  BY <1>2 DEF Conversation, Nothing, Given, Resumed, Silent
<1>5. PICK k \in 0 .. 3 : link.buffer = SubSeq(a, 1, k) /\ kd.output = SubSeq(a, k + 1, 3)
  BY <1>4 DEF Answered
<1>6. a \in Seq(Tokens) /\ Len(a) = 3
  BY <1>0, AnswerTokens DEF KdTypes, LinkTypes
<1> HIDE DEF a
<1>7. Len(kd.output) = 3 - k
  BY <1>5, <1>6, PartsOfThree
<1>8. /\ n \in 1 .. 3 - k /\ k + n \in 0 .. 3
      /\ link'.buffer = SubSeq(a, 1, k) \o SubSeq(SubSeq(a, k + 1, 3), 1, n)
      /\ kd'.output = SubSeq(SubSeq(a, k + 1, 3), n + 1, 3 - k)
  BY SMTT(60), <1>3, <1>5, <1>7
<1>9. link'.buffer = SubSeq(a, 1, k + n) /\ kd'.output = SubSeq(a, k + n + 1, 3)
  BY <1>6, <1>8, PartsOfThree
<1>10. Answered'
  BY ZenonT(60), <1>1, <1>3, <1>4, <1>8, <1>9 DEF Answered, a
<1>11. (kd'.alive /\ ~Nothing') => Reading'
  BY <1>1, <1>3 DEF MainReads, ThreadReads, Reading
<1> QED BY <1>1, <1>3, <1>10, <1>11 DEF Conversation

(* It takes the answer as a whole, and nothing is left behind.             *)
LEMMA ConversationTake ==
  ASSUME Types, Turns, Conversation, MainTakes \/ ThreadTakes
  PROVE  /\ Conversation' /\ Answered /\ UNCHANGED <<kd, target>> /\ link'.lastCpu = kd.cpu
<1>0. LinkTypes
  BY DEF Types
<1>1. HasAnswer /\ UNCHANGED <<kd, target>>
  BY DEF MainTakes, ThreadTakes
<1>2. /\ Answered /\ kd.output = <<>>
      /\ Taken.buffer = <<>> /\ Taken.lastCpu = kd.cpu
      /\ Taken.answered = [to |-> link.asked, of |-> <<Text(link.asked)>>]
  BY <1>1, TakenAnswer
<1>3. Taken \in [open : BOOLEAN, buffer : Seq(Tokens), lastCpu : Cpus, cpusKnown : BOOLEAN,
                 asked : Nat, answered : [to : Nat, of : Seq(Tokens)]]
  BY <1>0, <1>1, TakenTypes
<1>4. link'.buffer = Taken.buffer /\ link'.lastCpu = Taken.lastCpu /\ link'.answered = Taken.answered
  BY <1>3 DEF MainTakes, ThreadTakes
<1>5. Nothing'
  BY <1>1, <1>2, <1>4 DEF Nothing, Silent, Answered
<1> QED BY <1>1, <1>2, <1>4, <1>5 DEF Conversation

(* What kd makes of the command it was given.                              *)
Executed(c) ==
  /\ kd'.cpu = IF c.name = "select" THEN c.arg.number ELSE kd.cpu
  /\ kd'.armed = IF c.name \in {"bp", "bc"}
                 THEN {b \in kd.armed : b.number # c.arg.number} \cup (IF c.name = "bp" THEN {c.arg} ELSE {})
                 ELSE kd.armed
  /\ kd'.alive = kd.alive /\ kd'.input = <<>>

(* kd executes a command: it answers it, or resumes the target.            *)
LEMMA KdExecuted ==
  ASSUME Types, Turns, Conversation, KdExecutes
  PROVE  /\ kd.alive /\ Given /\ UNCHANGED <<main, thread, link, server, engine, breakpoints>>
         /\ \/ /\ main.phase = "read" /\ thread.at # "read" /\ main.todo[1] \in MainCommands
               /\ Executed(main.todo[1]) /\ UNCHANGED target /\ kd'.resumed = 0
               /\ kd'.output = Answer(link.asked, kd'.cpu)
            \/ /\ main.phase # "read" /\ thread.at = "read"
               /\ UNCHANGED <<kd.cpu, kd.armed, kd.alive, kd.output>> /\ kd'.input = <<>>
               /\ kd'.resumed = link.asked /\ link.asked # 0
               /\ target'.running /\ target'.cpu = target.cpu /\ target'.step = (thread.what = "t")
<1> DEFINE next == kd.input[1]
           c == next.what
           cpu == IF c.name = "select" THEN c.arg.number ELSE kd.cpu
           armed == IF c.name \in {"bp", "bc"}
                    THEN {b \in kd.armed : b.number # c.arg.number} \cup (IF c.name = "bp" THEN {c.arg} ELSE {})
                    ELSE kd.armed
           done == [kd EXCEPT !.input = Tail(kd.input), !.cpu = cpu, !.armed = armed]
<1>0. KdTypes /\ LinkTypes /\ ThreadTypes /\ MainTypes /\ OtherTypes
  BY DEF Types
<1>1. kd.alive /\ kd.resumed = 0 /\ kd.input # <<>> /\ UNCHANGED <<main, thread, link, server, engine, breakpoints>>
  BY DEF KdExecutes
<1>2. Given
  BY <1>1 DEF Conversation, Nothing, Resumed, Answered
<1>3. /\ next \in [number : Nat \ {0}, what : Commands] /\ next.number = link.asked
      /\ kd.output = <<>> /\ Tail(kd.input) = <<>>
  <2>1. next \in [number : Nat \ {0}, what : Commands]
    BY <1>0, <1>1, HeadTail, Zenon DEF KdTypes
  <2>2. Tail(kd.input) = <<>>
    BY <1>0, <1>2, TailOfOne DEF Given, KdTypes
  <2> QED BY <1>2, <2>1, <2>2 DEF Given, Silent
<1>4. \/ /\ c.name \in {"g", "t"} /\ kd' = [done EXCEPT !.resumed = next.number]
         /\ target' = [target EXCEPT !.running = TRUE, !.step = (c.name = "t")]
      \/ /\ c.name \notin {"g", "t"} /\ kd' = [done EXCEPT !.output = Printed(done, next.number)]
         /\ UNCHANGED target
  BY DEF KdExecutes
<1>5. cpu \in Cpus /\ c \in Commands
  BY <1>0, <1>3 DEF KdTypes, Commands
<1> HIDE DEF next, cpu, armed
<1>6. /\ done.input = <<>> /\ done.cpu = cpu /\ done.armed = armed /\ done.alive = kd.alive
      /\ done.output = <<>> /\ done.resumed = 0
      /\ DOMAIN done = {"alive", "input", "output", "cpu", "armed", "resumed"}
  BY <1>0, <1>1, <1>3 DEF KdTypes
<1> HIDE DEF done
<1>7. (main.phase = "read" \/ thread.at = "read") /\ ~(main.phase = "read" /\ thread.at = "read")
  BY <1>1, <1>2 DEF Conversation, Nothing, Reading, Turns, IsAsynchronousCommandInProgress
<1>8. CASE main.phase = "read"
  <2>1. c = main.todo[1] /\ main.todo[1] \in MainCommands
    <3>1. main.todo \in Seq(MainCommands) /\ main.todo # <<>>
      BY <1>0, <1>8 DEF MainTypes
    <3> QED BY <1>2, <1>8, <3>1, HeadTail DEF Given, next
  <2>2. c.name \notin {"g", "t"}
    BY <2>1 DEF MainCommands, MainNames
  <2>3. kd' = [done EXCEPT !.output = Printed(done, next.number)] /\ UNCHANGED target
    BY <1>4, <2>2
  <2>4. Printed(done, next.number) = Answer(link.asked, cpu)
    BY <1>0, <1>3, <1>5, <1>6, AnswerTokens DEF Printed, LinkTypes
  <2>5. kd'.output = Answer(link.asked, cpu) /\ kd'.cpu = cpu /\ kd'.input = <<>> /\ kd'.armed = armed
        /\ kd'.alive = kd.alive /\ kd'.resumed = 0
    BY <1>6, <2>3, <2>4
  <2> QED BY ZenonT(60), <1>1, <1>2, <1>7, <1>8, <2>1, <2>3, <2>5 DEF Executed, cpu, armed
<1>9. CASE main.phase # "read"
  <2>1. thread.at = "read" /\ c.name = thread.what
    BY <1>2, <1>7, <1>9 DEF Given, next
  <2>2. c.name \in {"g", "t"}
    BY <1>0, <2>1 DEF ThreadTypes
  <2>3. kd' = [done EXCEPT !.resumed = next.number] /\ target' = [target EXCEPT !.running = TRUE, !.step = (c.name = "t")]
    BY <1>4, <2>2
  <2>4. cpu = kd.cpu /\ armed = kd.armed
    BY <2>2 DEF cpu, armed
  <2>5. kd'.output = kd.output /\ kd'.cpu = kd.cpu /\ kd'.input = <<>> /\ kd'.armed = kd.armed
        /\ kd'.alive = kd.alive /\ kd'.resumed = link.asked
    BY <1>3, <1>6, <2>3, <2>4
  <2>6. target'.running /\ target'.cpu = target.cpu /\ target'.step = (thread.what = "t")
    BY <1>0, <2>1, <2>3 DEF OtherTypes
  <2>7. link.asked # 0
    BY <1>3
  <2> QED BY <1>1, <1>2, <1>9, <2>1, <2>5, <2>6, <2>7
<1> QED BY <1>8, <1>9

(* The target stops, and kd answers the command that resumed it.           *)
LEMMA TargetStopped ==
  ASSUME Types, Turns, Conversation, NEW cpu \in Cpus, TargetStops(cpu)
  PROVE  /\ kd.alive /\ Resumed /\ UNCHANGED <<main, thread, link, server, engine, breakpoints>>
         /\ UNCHANGED <<kd.input, kd.armed, kd.alive>> /\ kd'.resumed = 0
         /\ kd'.cpu = cpu /\ kd'.output = Answer(link.asked, cpu)
         /\ ~target'.running /\ target'.cpu = cpu /\ target'.step = target.step
<1>0. KdTypes /\ LinkTypes /\ OtherTypes
  BY DEF Types
<1>1. kd.alive /\ kd.resumed # 0 /\ UNCHANGED <<main, thread, link, server, engine, breakpoints>>
  BY DEF TargetStops
<1>2. Resumed
  BY <1>1 DEF Conversation, Nothing, Given, Answered
<1>3. [kd EXCEPT !.cpu = cpu].cpu = cpu /\ [kd EXCEPT !.cpu = cpu].output = <<>> /\ kd.resumed = link.asked
  BY <1>0, <1>2 DEF Resumed, Silent, KdTypes
<1>4. Printed([kd EXCEPT !.cpu = cpu], kd.resumed) = Answer(link.asked, cpu)
  BY <1>0, <1>3, AnswerTokens DEF Printed, LinkTypes
<1>5. kd' = [kd EXCEPT !.resumed = 0, !.cpu = cpu, !.output = Answer(link.asked, cpu)]
  BY <1>4 DEF TargetStops
<1>6. target' = [target EXCEPT !.running = FALSE, !.cpu = cpu]
  BY DEF TargetStops
<1> QED BY <1>0, <1>1, <1>2, <1>5, <1>6 DEF KdTypes, OtherTypes

(* An answer of which nothing has been read yet.                           *)
LEMMA AllUnread ==
  ASSUME NEW n \in Nat, NEW cpu \in Cpus
  PROVE  /\ SubSeq(Answer(n, cpu), 1, 0) = <<>>
         /\ SubSeq(Answer(n, cpu), 0 + 1, 3) = Answer(n, cpu)
<1> DEFINE a == Answer(n, cpu)
<1>1. a \in Seq(Tokens) /\ Len(a) = 3
  BY AnswerTokens
<1> HIDE DEF a
<1>2. SubSeq(a, 1, 0) = <<>> /\ SubSeq(a, 1, 3) = a
  BY <1>1, PartsOfThree
<1> QED BY <1>2 DEF a

(* The steps of kd and its target keep the conversation.                   *)
LEMMA ConversationKd ==
  ASSUME Types, Turns, Conversation, KdExecutes \/ (\E cpu \in Cpus : TargetStops(cpu)), Types'
  PROVE  Conversation'
<1>0. link.asked \in Nat /\ kd'.cpu \in Cpus
  BY DEF Types, LinkTypes, KdTypes
<1>a. /\ SubSeq(Answer(link.asked, kd'.cpu), 1, 0) = <<>>
      /\ SubSeq(Answer(link.asked, kd'.cpu), 0 + 1, 3) = Answer(link.asked, kd'.cpu)
  BY <1>0, AllUnread
<1>1. CASE KdExecutes
  <2>1. /\ kd.alive /\ Given /\ UNCHANGED <<main, thread, link>> /\ Silent
        /\ \/ /\ main.phase = "read" /\ thread.at # "read" /\ kd'.input = <<>> /\ kd'.resumed = 0
              /\ kd'.output = Answer(link.asked, kd'.cpu)
           \/ /\ main.phase # "read" /\ thread.at = "read"
              /\ kd'.input = <<>> /\ kd'.output = kd.output /\ kd'.resumed = link.asked /\ link.asked # 0
              /\ target'.step = (thread.what = "t")
    BY <1>1, KdExecuted DEF Executed, Given
  <2>2. Answered' \/ Resumed'
    <3>1. \/ Resumed'
          \/ /\ link'.buffer = SubSeq(Answer(link'.asked, kd'.cpu), 1, 0)
             /\ kd'.output = SubSeq(Answer(link'.asked, kd'.cpu), 0 + 1, 3)
             /\ kd'.input = <<>> /\ kd'.resumed = 0 /\ thread'.at # "read"
      BY <1>a, <2>1 DEF Resumed, Silent
    <3> QED BY <3>1 DEF Answered
  <2>3. Reading'
    BY <2>1 DEF Reading
  <2> QED BY <2>1, <2>2, <2>3 DEF Conversation
<1>2. ASSUME NEW cpu \in Cpus, TargetStops(cpu) PROVE Conversation'
  <2>1. /\ kd.alive /\ Resumed /\ UNCHANGED <<main, thread, link>> /\ Silent
        /\ kd'.input = kd.input /\ kd'.resumed = 0 /\ kd'.cpu = cpu /\ kd'.output = Answer(link.asked, cpu)
        /\ target'.cpu = cpu /\ target'.step = target.step
    BY <1>2, TargetStopped DEF Resumed
  <2>2. Answered'
    <3>1. /\ link'.buffer = SubSeq(Answer(link'.asked, kd'.cpu), 1, 0)
          /\ kd'.output = SubSeq(Answer(link'.asked, kd'.cpu), 0 + 1, 3)
      BY <1>a, <2>1 DEF Silent
    <3>2. kd'.input = <<>> /\ kd'.resumed = 0
      BY <2>1 DEF Resumed
    <3>3. thread'.at = "read" => target'.step = (thread'.what = "t") /\ kd'.cpu = target'.cpu
      BY <2>1 DEF Resumed
    <3> QED BY <3>1, <3>2, <3>3 DEF Answered
  <2>3. Reading'
    BY <2>1 DEF Conversation, Reading, Resumed, Nothing
  <2> QED BY <2>1, <2>2, <2>3 DEF Conversation
<1> QED BY <1>1, <1>2

(* Every step keeps the conversation, unless the target prints prompts.    *)
LEMMA ConversationNext ==
  ASSUME Types, Turns, Conversation, [Next]_vars, ~TargetPrints, Types'
  PROVE  Conversation'
BY ApartSteps, ApartKept, ConversationWrite, ConversationRead, ConversationTake, ConversationKd
   DEF Next, MainStep, ThreadStep

-----------------------------------------------------------------------------
(* What the engine is told.                                                *)

(* At the start nobody has been told.                                      *)
LEMMA ToldInit == Init => Told
<1> SUFFICES ASSUME Init PROVE Told
  OBVIOUS
<1>1. PICK cpu \in Cpus :
        /\ kd = [alive |-> TRUE, input |-> <<>>, output |-> <<Text(0)>> \o Prompt(cpu), cpu |-> cpu,
                 armed |-> {}, resumed |-> 0]
        /\ target = [running |-> FALSE, cpu |-> cpu, step |-> FALSE]
  BY DEF Init
<1>2. main.op = "construct" /\ Len(main.todo) = 2
  BY DEF Init, Call
<1>3. /\ ~target.running /\ target.cpu = cpu /\ target.step = FALSE /\ kd.cpu = cpu
      /\ server.wasStep = FALSE /\ engine.belief = "halted"
      /\ engine.told = [cpu |-> target.cpu, step |-> FALSE]
  BY <1>1 DEF Init
<1> QED BY <1>2, <1>3 DEF Told, Stopped

(* A step that changes nothing of what it is about.                        *)
LEMMA ToldKept ==
  ASSUME Told, UNCHANGED <<target, engine.belief, engine.told, thread.at, kd.cpu, link.lastCpu, server.wasStep, main>>,
         kd'.alive => kd.alive
  PROVE  Told'
<1>1. Settled <=> Settled'
  BY DEF Settled, Stopped
<1>2. Stopped <=> Stopped'
  BY DEF Stopped
<1> QED BY <1>1, <1>2, Zenon DEF Told

(* The steps of the main thread and its callback keep Told.                *)
LEMMA ToldMain ==
  ASSUME Types, Work, Turns, Conversation, Told, MainStep
  PROVE  Told'
<1>0. /\ MainTypes /\ LinkTypes /\ KdTypes /\ OtherTypes /\ ThreadTypes /\ ServerTypes
  BY DEF Types
<1>i. Idle.op = "idle"
  BY DEF Idle
<1>1. CASE MainWrites
  <2>1. /\ main'.op = main.op /\ main'.arg = main.arg /\ main'.todo = main.todo
        /\ UNCHANGED <<target, engine, thread, server>> /\ kd.alive
    BY <1>0, <1>1 DEF MainWrites, MainTypes, Write, CanWrite
  <2>2. kd'.cpu = kd.cpu /\ link'.lastCpu = link.lastCpu
    BY <1>0, <1>1 DEF MainWrites, Write, KdTypes, LinkTypes
  <2>3. (Settled <=> Settled') /\ (Stopped <=> Stopped')
    BY <2>1, <2>2 DEF Settled, Stopped
  <2> QED BY <2>1, <2>2, <2>3, Zenon DEF Told
<1>2. CASE MainReads
  <2>1. /\ UNCHANGED <<kd.cpu, kd.alive, link.lastCpu, main, thread, target>>
    BY <1>2, ConversationRead
  <2>2. UNCHANGED <<engine, server>>
    BY <1>2 DEF MainReads
  <2> QED BY <2>1, <2>2, ToldKept
<1>3. CASE MainTakes
  <2>1. /\ Answered /\ UNCHANGED <<kd, target>> /\ link'.lastCpu = kd.cpu
    BY <1>3, ConversationTake
  <2>2. /\ main'.op = main.op /\ main'.arg = main.arg /\ main.phase = "read" /\ UNCHANGED <<thread, server, engine>>
    BY <1>3 DEF MainTakes, Call
  <2>3. Stopped => Stopped'
    BY <2>1, <2>2 DEF Stopped
  <2>4. Settled => Settled'
    BY <2>1, <2>2 DEF Settled, Stopped
  <2>5. Stopped /\ kd.cpu = target.cpu => Settled'
    BY <2>1, <2>2 DEF Settled, Stopped
  <2> QED BY <2>1, <2>2, <2>3, <2>4, <2>5, Zenon DEF Told
<1>4. CASE MainThrows
  <2>1. /\ main'.op = "idle" /\ UNCHANGED <<thread, link, kd, target, engine>> /\ server'.wasStep = server.wasStep
    BY <1>0, <1>4, <1>i DEF MainThrows, ServerTypes
  <2>2. engine.belief = "halted" => ~kd.alive
    BY <1>4 DEF MainThrows, ReadFileFails, CanWrite, Turns
  <2>3. (Settled <=> Settled') /\ (Stopped <=> Stopped')
    BY <2>1 DEF Settled, Stopped
  <2> QED BY <2>1, <2>2, <2>3 DEF Told
<1>5. CASE Returns
  <2>1. main.phase = "done" /\ main' = Idle /\ main'.op = "idle" /\ UNCHANGED <<link, kd, target>>
    BY <1>5, <1>i DEF Returns, Return, StepReturns, AddReturns, DeleteReturns, StatusReturns, CallbackReturns,
       ConstructReturns, AnswerReturns
  <2>2. Len(main.todo) # 2
    BY <2>1 DEF Work
  <2>3. CASE StepReturns
    <3>1. engine'.belief = "running" /\ thread'.at = "write"
      BY <1>0, <2>3 DEF StepReturns, Start, OtherTypes
    <3> QED BY <2>1, <3>1 DEF Told
  <2>4. CASE StatusReturns
    <3>1. /\ main.op = "status" /\ UNCHANGED <<thread, server>> /\ engine'.belief = engine.belief
          /\ engine'.told = [cpu |-> main.arg.number, step |-> server.wasStep]
      BY <1>0, <2>4 DEF StatusReturns, Return, Status, OtherTypes
    <3>2. (Settled <=> Settled') /\ (Stopped <=> Stopped')
      BY <2>1, <3>1 DEF Settled, Stopped
    <3>3. engine.belief = "halted" => main.arg.number = target.cpu /\ target.step = server.wasStep
      BY <2>1, <3>1 DEF Told, Stopped
    <3> QED BY <2>1, <2>2, <3>1, <3>2, <3>3 DEF Told
  <2>5. CASE CallbackReturns
    <3>1. /\ main.op = "callback" /\ UNCHANGED <<thread, server>> /\ engine'.belief = "halted"
          /\ engine'.told = [cpu |-> main.arg.number, step |-> server.wasStep]
      BY <1>0, <2>5 DEF CallbackReturns, Return, Status, OtherTypes
    <3>2. notifier = "callback" /\ thread.at = "ended" /\ engine.belief = "running"
      BY <1>0, <3>1 DEF Turns, Reported, OtherTypes
    <3>3. Settled /\ main.arg.number = target.cpu
      BY <3>1, <3>2 DEF Told
    <3>4. Settled' /\ Stopped'
      BY <2>1, <3>1, <3>3 DEF Settled, Stopped
    <3>5. engine'.told = [cpu |-> target'.cpu, step |-> target'.step]
      BY <2>1, <3>1, <3>3 DEF Settled, Stopped
    <3> QED BY <2>1, <3>1, <3>4, <3>5 DEF Told
  <2>6. CASE AddReturns \/ DeleteReturns \/ ConstructReturns \/ AnswerReturns
    <3>1. UNCHANGED <<thread, server, engine>> /\ main.op \notin {"step", "callback", "status"}
      BY <2>6 DEF AddReturns, DeleteReturns, ConstructReturns, AnswerReturns, Return
    <3>2. (Settled <=> Settled') /\ (Stopped <=> Stopped')
      BY <2>1, <3>1 DEF Settled, Stopped
    <3> QED BY <2>1, <2>2, <3>1, <3>2 DEF Told
  <2> QED BY <1>5, <2>3, <2>4, <2>5, <2>6 DEF Returns
<1> QED BY <1>1, <1>2, <1>3, <1>4, <1>5 DEF MainStep

(* So do the calls of the engine,                                          *)
LEMMA ToldEngine ==
  ASSUME Types, Turns, Told, EngineCalls
  PROVE  Told'
<1>0. MainTypes /\ OtherTypes /\ ServerTypes /\ ThreadTypes
  BY DEF Types
<1>1. Calls /\ main.op = "idle" /\ UNCHANGED <<link, kd, target>>
  BY DEF EngineCalls, Calls, Run, GetRunStatus, NotifyingRunChg, ReadVirtualMemory, SetContextEx,
     DoSingleStep, GetContextEx, GetKPCRForProcessor, Ask, AddCodeBreakpoint, DelCodeBreakpoint
<1>2. CASE Run
  <2>1. engine'.belief = "running" /\ thread'.at = "write" /\ UNCHANGED main
    BY <1>0, <1>2 DEF Run, Start, OtherTypes
  <2> QED BY <1>1, <2>1 DEF Told
<1>3. CASE NotifyingRunChg
  <2>1. UNCHANGED <<main, thread, engine>> /\ server'.wasStep = server.wasStep
    BY <1>0, <1>3 DEF NotifyingRunChg, ServerTypes
  <2> QED BY <1>1, <2>1, ToldKept
<1>4. ASSUME UNCHANGED <<thread, server, engine>>, main'.op # "callback",
             main'.op = "status" => main'.arg.number = link.lastCpu /\ main'.phase = "write"
      PROVE  Told'
  <2>1. (Settled <=> Settled') /\ (Stopped <=> Stopped')
    BY <1>1, <1>4 DEF Settled, Stopped
  <2>2. engine.belief = "halted" => ~kd.alive \/ Settled
    BY <1>1 DEF Told
  <2>3. Settled => link.lastCpu = target.cpu
    BY DEF Settled
  <2> QED BY <1>1, <1>4, <2>1, <2>2, <2>3, Zenon DEF Told
<1>5. ASSUME NEW op, NEW arg, NEW todo, main' = Call(op, arg, todo)
      PROVE  main'.op = op /\ main'.arg = arg /\ (todo # <<>> => main'.phase = "write")
  BY <1>5 DEF Call
<1>6. CASE GetRunStatus
  <2>1. UNCHANGED <<thread, server, engine>>
    BY <1>6 DEF GetRunStatus
  <2>2. CASE main' = Idle
    BY <1>4, <2>1, <2>2 DEF Idle
  <2>3. CASE main' = Call("status", Number(link.lastCpu), <<Command("registers", Number(link.lastCpu))>>)
    <3>1. main'.op = "status" /\ main'.arg = Number(link.lastCpu) /\ main'.phase = "write"
      BY <1>5, <2>3
    <3>2. Number(link.lastCpu).number = link.lastCpu
      BY DEF Number, Breakpoint
    <3> QED BY <1>4, <2>1, <3>1, <3>2
  <2> QED BY <1>6, <2>2, <2>3 DEF GetRunStatus
<1>7. CASE ReadVirtualMemory \/ SetContextEx
  BY <1>4, <1>5, <1>7 DEF ReadVirtualMemory, SetContextEx, Ask
<1>8. ASSUME NEW cpu \in Cpus, DoSingleStep(cpu) \/ GetContextEx(cpu) \/ GetKPCRForProcessor(cpu) PROVE Told'
  BY <1>4, <1>5, <1>8 DEF DoSingleStep, GetContextEx, GetKPCRForProcessor, Ask
<1>9. ASSUME NEW address \in Addresses, AddCodeBreakpoint(address) PROVE Told'
  BY <1>4, <1>5, <1>9 DEF AddCodeBreakpoint
<1>10. ASSUME NEW object \in breakpoints.objects, DelCodeBreakpoint(object) PROVE Told'
  BY <1>4, <1>5, <1>10 DEF DelCodeBreakpoint
<1> QED BY <1>2, <1>3, <1>6, <1>7, <1>8, <1>9, <1>10 DEF EngineCalls

(* the steps of the other threads, deaths and the release,                 *)
LEMMA ToldOthers ==
  ASSUME Types, Work, Turns, Conversation, Told, Types',
         \/ Dispatch \/ ThreadStep \/ NotifierStep \/ NotifierWakes(FALSE) \/ FinalRelease \/ DeleteController
         \/ KdDies \/ EngineDies \/ UNCHANGED vars
  PROVE  Told'
<1>0. /\ LinkTypes /\ KdTypes /\ OtherTypes /\ ThreadTypes /\ ServerTypes
  BY DEF Types
<1>1. CASE OnAsynchronousCommandCompleted
  <2>1. /\ UNCHANGED <<thread, link, kd, target, engine>> /\ notifier = "callback" /\ main.op = "idle"
        /\ server'.wasStep = server.wasStep
        /\ UNCHANGED main \/ (main'.op = "callback" /\ main'.arg = Number(link.lastCpu))
    BY <1>0, <1>1 DEF OnAsynchronousCommandCompleted, Call, ServerTypes
  <2>2. Settled /\ engine.belief = "running"
    BY <1>0, <2>1 DEF Turns, Reported, Told, OtherTypes
  <2>3. Settled' /\ link.lastCpu = target'.cpu
    BY <2>1, <2>2 DEF Settled, Stopped
  <2>4. Number(link.lastCpu).number = link.lastCpu
    BY DEF Number, Breakpoint
  <2> QED BY <2>1, <2>2, <2>3, <2>4 DEF Told
<1>2. ASSUME ShutdownKD PROVE kd'.cpu = kd.cpu /\ link'.lastCpu = link.lastCpu /\ (kd'.alive => kd.alive)
  BY <1>0, <1>2 DEF ShutdownKD, KdTypes, LinkTypes
<1>3. CASE PerformKeepaliveChecks \/ DeleteController \/ FinalRelease
  <2>1. server'.wasStep = server.wasStep /\ UNCHANGED <<main, target, engine, thread>>
    BY <1>0, <1>3 DEF PerformKeepaliveChecks, DeleteController, FinalRelease, ServerTypes
  <2>2. kd'.cpu = kd.cpu /\ link'.lastCpu = link.lastCpu /\ (kd'.alive => kd.alive)
    BY <1>2, <1>3 DEF PerformKeepaliveChecks, DeleteController, FinalRelease
  <2> QED BY <2>1, <2>2, ToldKept
<1>4. CASE ThreadWrites
  <2>1. /\ UNCHANGED <<main, target, engine, server>> /\ thread'.at = "read"
        /\ kd'.cpu = kd.cpu /\ link'.lastCpu = link.lastCpu /\ kd'.alive = kd.alive
    BY <1>0, <1>4 DEF ThreadWrites, Write, KdTypes, LinkTypes, ThreadTypes
  <2>2. (Settled <=> Settled') /\ (Stopped <=> Stopped')
    BY <2>1 DEF Settled, Stopped
  <2> QED BY <2>1, <2>2, Zenon DEF Told
<1>5. CASE ThreadReads
  <2>1. UNCHANGED <<kd.cpu, kd.alive, link.lastCpu, main, thread, target>>
    BY <1>5, ConversationRead
  <2>2. UNCHANGED <<engine, server>>
    BY <1>5 DEF ThreadReads
  <2> QED BY <2>1, <2>2, ToldKept
<1>6. CASE ThreadTakes
  <2>1. /\ Answered /\ UNCHANGED <<kd, target>> /\ link'.lastCpu = kd.cpu
    BY <1>6, ConversationTake
  <2>2. thread.at = "read" /\ UNCHANGED <<main, server, engine>>
    BY <1>6 DEF ThreadTakes
  <2>3. engine.belief = "running"
    BY <1>0, <2>2 DEF Turns, IsAsynchronousCommandInProgress, OtherTypes
  <2>4. target.step = server.wasStep /\ ~target.running /\ kd.cpu = target.cpu
    BY <2>1, <2>2, <2>3 DEF Answered, Turns
  <2>5. Settled'
    BY <2>1, <2>2, <2>4 DEF Settled, Stopped
  <2> QED BY <2>1, <2>2, <2>3, <2>5 DEF Told
<1>7. CASE ThreadThrows \/ NotifierStep \/ NotifierWakes(FALSE)
  <2>1. server'.wasStep = server.wasStep /\ UNCHANGED <<main, target, engine, thread, kd, link>>
    BY <1>0, <1>7 DEF ThreadThrows, NotifierStep, NotifierWakes, NotifierWaited, ServerTypes
  <2> QED BY <2>1, ToldKept
<1>8. CASE KdDies
  <2>1. kd'.cpu = kd.cpu /\ ~kd'.alive /\ UNCHANGED <<main, target, engine, thread, link, server>>
    BY <1>0, <1>8 DEF KdDies, KdTypes
  <2> QED BY <2>1, ToldKept
<1>9. CASE EngineDies
  <2>1. engine'.belief = engine.belief /\ engine'.told = engine.told
        /\ UNCHANGED <<main, target, thread, link, server, kd>>
    BY <1>0, <1>9 DEF EngineDies, OtherTypes
  <2> QED BY <2>1, ToldKept
<1>10. CASE UNCHANGED vars
  <2>1. UNCHANGED <<main, target, thread, link, server, kd, engine>>
    BY <1>10 DEF vars
  <2> QED BY <2>1, ToldKept
<1> QED BY <1>1, <1>3, <1>4, <1>5, <1>6, <1>7, <1>8, <1>9, <1>10 DEF Dispatch, ThreadStep

(* and the steps of kd and its target.                                     *)
LEMMA ToldKd ==
  ASSUME Types, Work, Turns, Conversation, Told, KdExecutes \/ (\E cpu \in Cpus : TargetStops(cpu))
  PROVE  Told'
<1>0. OtherTypes /\ MainTypes /\ ThreadTypes
  BY DEF Types
<1>r. thread.at = "read" => engine.belief = "running"
  BY <1>0 DEF Turns, IsAsynchronousCommandInProgress, OtherTypes
<1>1. CASE KdExecutes
  <2>1. /\ kd.alive /\ UNCHANGED <<main, thread, link, server, engine>>
        /\ \/ /\ main.phase = "read" /\ thread.at # "read" /\ main.todo # <<>>
              /\ Executed(main.todo[1]) /\ UNCHANGED target
           \/ /\ thread.at = "read" /\ kd'.cpu = kd.cpu
              /\ target'.cpu = target.cpu
    <3>1. main.phase = "read" => main.todo # <<>>
      BY <1>0 DEF MainTypes
    <3> QED BY <1>1, <3>1, KdExecuted
  <2>2. CASE thread.at = "read"
    <3>1. engine.belief = "running" /\ target'.cpu = target.cpu
      BY <1>r, <2>1, <2>2
    <3> QED BY <2>1, <2>2, <3>1 DEF Told
  <2>3. CASE thread.at # "read" /\ main.op # "step"
    <3>1. kd'.cpu = kd.cpu /\ kd'.alive = kd.alive /\ UNCHANGED target
      <4>1. 1 \in DOMAIN main.todo
        BY <1>0, <2>1, <2>3 DEF MainTypes
      <4> QED BY <2>1, <2>3, <4>1 DEF Executed, Work
    <3> QED BY <2>1, <3>1, ToldKept
  <2>4. CASE thread.at # "read" /\ main.op = "step"
    <3>1. UNCHANGED target /\ engine.belief = "halted"
      BY <2>1, <2>4 DEF Turns
    <3>2. Stopped <=> Stopped'
      BY <2>1, <3>1 DEF Stopped
    <3> QED BY <2>1, <2>4, <3>1, <3>2 DEF Told
  <2> QED BY <2>2, <2>3, <2>4
<1>2. ASSUME NEW cpu \in Cpus, TargetStops(cpu) PROVE Told'
  <2>1. kd.alive /\ Resumed /\ UNCHANGED <<main, thread, link, server, engine>>
    BY <1>2, TargetStopped
  <2>2. thread.at = "read"
    BY <2>1 DEF Conversation, Reading, Nothing, Resumed
  <2>3. engine.belief = "running" /\ main.op # "callback"
    BY <1>r, <2>2 DEF Turns
  <2> QED BY <2>1, <2>2, <2>3 DEF Told
<1> QED BY <1>1, <1>2

(* Every step keeps Told, unless the target prints a prompt.               *)
LEMMA ToldNext ==
  ASSUME Types, Work, Turns, Conversation, Told, [Next]_vars, ~TargetPrints, Types'
  PROVE  Told'
BY ToldMain, ToldEngine, ToldOthers, ToldKd DEF Next

-----------------------------------------------------------------------------
(* What kd is armed with.                                                  *)

(* A step that changes neither the call nor the breakpoints.               *)
LEMMA ArmedKept ==
  ASSUME Armed, UNCHANGED <<main, breakpoints, kd.armed, kd.input>>, kd'.alive => kd.alive
  PROVE  Armed'
BY DEF Armed, After

(* Every step keeps Armed, unless the target prints a prompt.              *)
LEMMA ArmedNext ==
  ASSUME Types, Work, Turns, Objects, Conversation, Armed, [Next]_vars, ~TargetPrints
  PROVE  Armed'
<1>0. MainTypes /\ KdTypes /\ LinkTypes
  BY DEF Types
<1>i. Idle.op = "idle" /\ Idle.phase = "none"
  BY DEF Idle
<1>c. ASSUME NEW op, NEW arg, NEW todo, todo # <<>>, main' = Call(op, arg, todo)
      PROVE  main'.phase = "write" /\ main'.op = op
  BY <1>c DEF Call
<1>a. ASSUME Apart PROVE kd'.armed = kd.armed /\ kd'.input = kd.input /\ (kd'.alive => kd.alive)
  BY <1>a DEF Apart
(* Outside a call, and in one that has not written its command.            *)
<1>b. ASSUME kd.alive, kd.armed = breakpoints.objects, kd'.armed = kd.armed, UNCHANGED breakpoints,
             main'.phase \in {"none", "write"}
      PROVE  Armed'
  BY <1>b DEF Armed
<1>1. CASE MainWrites
  <2>1. /\ main.phase = "write" /\ main'.phase = "read" /\ UNCHANGED breakpoints
        /\ kd'.armed = kd.armed /\ kd.alive
    BY <1>0, <1>1 DEF MainWrites, MainTypes, Write, CanWrite, KdTypes
  <2>2. kd'.input # <<>>
    BY <1>1, ConversationWrite DEF Given
  <2> QED BY <2>1, <2>2 DEF Armed
<1>2. CASE MainReads \/ ThreadReads
  <2>1. UNCHANGED <<main, kd.armed, kd.input, kd.alive>>
    BY <1>2, ConversationRead
  <2> QED BY <1>2, <2>1, ArmedKept DEF MainReads, ThreadReads
<1>3. CASE MainTakes
  <2>1. Answered /\ UNCHANGED <<kd, breakpoints>> /\ main.phase = "read"
    BY <1>3, ConversationTake DEF MainTakes
  <2>2. main'.op = main.op /\ main'.arg = main.arg /\ main'.phase \in {"write", "done"}
        /\ (main'.phase = "write" => Tail(main.todo) # <<>>)
    BY <1>3 DEF MainTakes, Call
  <2>3. kd.alive => kd.armed = After
    BY <2>1 DEF Armed, Answered
  <2>4. After' = After
    BY <2>1, <2>2 DEF After
  <2>5. main.op \in {"add", "delete"} => Tail(main.todo) = <<>>
    <3>1. \A c : Tail(<<c>>) = <<>>
      OBVIOUS
    <3>2. main.todo # <<>>
      BY <1>0, <2>1 DEF MainTypes
    <3> QED BY <3>1, <3>2 DEF Work
  <2>6. main'.phase = "write" => After = breakpoints.objects
    BY <2>2, <2>5 DEF After
  <2> QED BY <2>1, <2>2, <2>3, <2>4, <2>6 DEF Armed
<1>4. CASE MainThrows
  <2>1. main'.phase = "none" /\ UNCHANGED <<kd, breakpoints>>
    BY <1>4, <1>i DEF MainThrows
  <2>2. CASE main.phase = "write"
    BY <2>1, <2>2 DEF Armed
  <2>3. CASE main.phase = "read"
    BY <1>4, <2>1, <2>3 DEF MainThrows, ReadFileFails, Turns, Armed
  <2> QED BY <1>4, <2>2, <2>3 DEF MainThrows
<1>5. CASE Returns
  <2>1. main.phase = "done" /\ main'.phase = "none" /\ UNCHANGED kd /\ breakpoints'.objects = After
    <3>1. main.phase = "done" /\ main'.phase = "none" /\ UNCHANGED kd
      BY <1>5, <1>i DEF Returns, Return, StepReturns, AddReturns, DeleteReturns, StatusReturns,
         CallbackReturns, ConstructReturns, AnswerReturns
    <3>2. CASE AddReturns
      <4>1. main.op = "add" /\ After = breakpoints.objects \cup {main.arg}
        BY <3>2 DEF AddReturns, Return, After
      <4>2. breakpoints'.objects = breakpoints.objects \cup {main.arg}
        BY <3>2 DEF AddReturns
      <4> QED BY <3>1, <4>1, <4>2
    <3>3. CASE DeleteReturns
      <4>1. main.op = "delete" /\ After = breakpoints.objects \ {main.arg}
        BY <3>3 DEF DeleteReturns, Return, After
      <4>2. breakpoints'.objects = breakpoints.objects \ {main.arg}
        BY <3>3 DEF DeleteReturns
      <4> QED BY <3>1, <4>1, <4>2
    <3>4. CASE StepReturns \/ StatusReturns \/ CallbackReturns \/ ConstructReturns \/ AnswerReturns
      <4>1. main.op \notin {"add", "delete"}
        BY <3>4 DEF Return, StepReturns, StatusReturns, CallbackReturns, ConstructReturns, AnswerReturns
      <4>2. UNCHANGED breakpoints
        BY <3>4 DEF StepReturns, StatusReturns, CallbackReturns, ConstructReturns, AnswerReturns
      <4>3. After = breakpoints.objects
        BY <4>1 DEF After
      <4> QED BY <3>1, <4>2, <4>3
    <3> QED BY <1>5, <3>1, <3>2, <3>3, <3>4 DEF Returns
  <2> QED BY <2>1 DEF Armed
<1>6. CASE EngineCalls
  <2>1. /\ main.phase = "none" /\ UNCHANGED kd /\ breakpoints'.objects = breakpoints.objects
    <3>1. Calls /\ main.op = "idle" /\ UNCHANGED kd
      BY <1>6 DEF EngineCalls, Calls, Run, GetRunStatus, NotifyingRunChg, ReadVirtualMemory, SetContextEx,
         DoSingleStep, GetContextEx, GetKPCRForProcessor, Ask, AddCodeBreakpoint, DelCodeBreakpoint
    <3>2. breakpoints'.objects = breakpoints.objects
      <4>1. ASSUME NEW address \in Addresses, AddCodeBreakpoint(address)
            PROVE  breakpoints'.objects = breakpoints.objects
        BY <4>1 DEF AddCodeBreakpoint, Types, BreakpointTypes
      <4>2. \/ UNCHANGED breakpoints
            \/ \E address \in Addresses : AddCodeBreakpoint(address)
        BY <1>6 DEF EngineCalls, Run, GetRunStatus, NotifyingRunChg, ReadVirtualMemory, SetContextEx,
           DoSingleStep, GetContextEx, GetKPCRForProcessor, Ask, DelCodeBreakpoint
      <4> QED BY <4>1, <4>2
    <3> QED BY <1>0, <3>1, <3>2 DEF MainTypes
  <2>2. main'.phase \in {"none", "write"} \/ (main'.phase = "done" /\ main'.op \notin {"add", "delete"})
    <3>1. ASSUME NEW op, NEW arg, NEW todo, main' = Call(op, arg, todo), op \notin {"add", "delete"}
          PROVE  main'.phase = "write" \/ (main'.phase = "done" /\ main'.op \notin {"add", "delete"})
      BY <3>1 DEF Call
    <3>2. ASSUME NEW address \in Addresses, AddCodeBreakpoint(address) PROVE main'.phase = "write"
      BY <1>c, <3>2 DEF AddCodeBreakpoint
    <3>3. ASSUME NEW object \in breakpoints.objects, DelCodeBreakpoint(object) PROVE main'.phase = "write"
      BY <1>c, <3>3 DEF DelCodeBreakpoint
    <3>4. CASE GetRunStatus
      BY <1>i, <3>1, <3>4 DEF GetRunStatus
    <3>5. CASE ReadVirtualMemory \/ SetContextEx
      BY <3>1, <3>5 DEF ReadVirtualMemory, SetContextEx, Ask
    <3>6. ASSUME NEW cpu \in Cpus, DoSingleStep(cpu) \/ GetContextEx(cpu) \/ GetKPCRForProcessor(cpu)
          PROVE  main'.phase = "write" \/ (main'.phase = "done" /\ main'.op \notin {"add", "delete"})
      BY <3>1, <3>6 DEF DoSingleStep, GetContextEx, GetKPCRForProcessor, Ask
    <3>7. CASE Run \/ NotifyingRunChg
      BY <2>1, <3>7 DEF Run, NotifyingRunChg
    <3> QED BY <1>6, <3>2, <3>3, <3>4, <3>5, <3>6, <3>7 DEF EngineCalls
  <2> QED BY <2>1, <2>2 DEF Armed, After
<1>7. CASE ThreadWrites
  <2>1. UNCHANGED <<main, breakpoints>> /\ main.phase # "read" /\ kd'.armed = kd.armed /\ kd'.alive = kd.alive
    BY <1>0, <1>7 DEF ThreadWrites, Write, KdTypes, Turns, IsAsynchronousCommandInProgress
  <2> QED BY <2>1 DEF Armed, After
<1>8. CASE ThreadTakes
  <2>1. UNCHANGED <<main, breakpoints, kd>>
    BY <1>8 DEF ThreadTakes
  <2> QED BY <2>1, ArmedKept
<1>9. CASE \/ ThreadThrows \/ NotifierStep \/ NotifierWakes(FALSE) \/ FinalRelease \/ DeleteController
           \/ PerformKeepaliveChecks \/ KdDies \/ EngineDies \/ UNCHANGED vars
  <2>1. Apart
    BY <1>9, ApartSteps DEF Dispatch
  <2>2. UNCHANGED <<main, breakpoints>>
    BY <1>9 DEF ThreadThrows, NotifierStep, NotifierWakes, NotifierWaited, FinalRelease, DeleteController,
       PerformKeepaliveChecks, KdDies, EngineDies, vars
  <2> QED BY <1>a, <2>1, <2>2, ArmedKept
<1>10. CASE OnAsynchronousCommandCompleted
  <2>1. /\ main.phase = "none" /\ UNCHANGED <<kd, breakpoints>>
        /\ main'.phase = "write" \/ main'.phase = "none"
    BY <1>0, <1>10, <1>c DEF OnAsynchronousCommandCompleted, MainTypes
  <2> QED BY <2>1 DEF Armed
<1>11. CASE KdExecutes
  <2>1. /\ kd.alive /\ Given /\ UNCHANGED <<main, breakpoints>>
        /\ \/ /\ main.phase = "read" /\ main.todo # <<>> /\ Executed(main.todo[1])
           \/ /\ main.phase # "read" /\ kd'.armed = kd.armed
    <3>1. main.phase = "read" => main.todo # <<>>
      BY <1>0 DEF MainTypes
    <3> QED BY <1>11, <3>1, KdExecuted
  <2>2. CASE main.phase # "read"
    BY <2>1, <2>2 DEF Armed, After
  <2>3. CASE main.phase = "read"
    <3>1. kd.armed = breakpoints.objects /\ kd'.input = <<>> /\ main.todo # <<>> /\ Executed(main.todo[1])
      <4>1. kd.input # <<>> /\ Len(kd.input) = 1
        BY <2>1 DEF Given
      <4>2. main.phase = "read" /\ main.todo # <<>> /\ Executed(main.todo[1]) /\ kd.alive
        BY <2>1, <2>3
      <4>3. kd.armed = breakpoints.objects
        BY <4>1, <4>2 DEF Armed
      <4>4. kd'.input = <<>>
        BY <4>2 DEF Executed
      <4> QED BY <4>2, <4>3, <4>4
    <3>2. CASE main.op = "add"
      <4>1. main.todo[1] = Command("bp", main.arg)
        BY <3>1, <3>2 DEF Work
      <4>2. kd'.armed = {b \in breakpoints.objects : b.number # main.arg.number} \cup {main.arg}
        BY <3>1, <4>1 DEF Executed, Command
      <4>3. \A b \in breakpoints.objects : b.number # main.arg.number
        BY <3>2 DEF Objects
      <4>4. kd'.armed = After
        BY <3>2, <4>2, <4>3 DEF After
      <4> QED BY <2>1, <2>3, <3>1, <4>4 DEF Armed, After
    <3>3. CASE main.op = "delete"
      <4>1. main.todo[1] = Command("bc", Number(main.arg.number))
        BY <3>1, <3>3 DEF Work
      <4>2. kd'.armed = {b \in breakpoints.objects : b.number # main.arg.number}
        BY <3>1, <4>1 DEF Executed, Command, Number, Breakpoint
      <4>3. \A b \in breakpoints.objects : b.number = main.arg.number <=> b = main.arg
        BY <3>3 DEF Objects
      <4>4. kd'.armed = After
        BY <3>3, <4>2, <4>3 DEF After
      <4> QED BY <2>1, <2>3, <3>1, <4>4 DEF Armed, After
    <3>4. CASE main.op \notin {"add", "delete"}
      <4>1. 1 \in DOMAIN main.todo
        BY <1>0, <3>1 DEF MainTypes
      <4>2. kd'.armed = kd.armed
        BY <3>1, <3>4, <4>1 DEF Work, Executed
      <4> QED BY <2>1, <3>1, <3>4, <4>2 DEF Armed, After
    <3> QED BY <3>2, <3>3, <3>4
  <2> QED BY <2>2, <2>3
<1>12. ASSUME NEW cpu \in Cpus, TargetStops(cpu) PROVE Armed'
  <2>1. UNCHANGED <<main, breakpoints, kd.input, kd.armed, kd.alive>>
    BY <1>12, TargetStopped
  <2> QED BY <2>1, ArmedKept
<1> QED BY <1>1, <1>2, <1>3, <1>4, <1>5, <1>6, <1>7, <1>8, <1>9, <1>10, <1>11, <1>12
  DEF Next, MainStep, ThreadStep, Dispatch

-----------------------------------------------------------------------------
(* The theorems.                                                           *)

(* The invariants hold at the start.                                       *)
LEMMA InStepInit == Init => InStep
<1> SUFFICES ASSUME Init PROVE InStep
  OBVIOUS
<1>1. main.op = "construct" /\ main.phase = "read"
      /\ main.todo = <<Command("initial", Number(0)), Command("effmach", Number(0))>>
  BY DEF Init, Call
<1>2. breakpoints = [slots |-> <<>>, objects |-> {}] /\ kd.armed = {}
  BY DEF Init
<1>3. Work
  BY <1>1 DEF Work, Command
<1>4. Objects /\ Armed
  BY <1>1, <1>2 DEF Objects, Armed, After
<1> QED BY <1>3, <1>4, TurnsInit, ConversationInit, ToldInit DEF InStep

(* The invariant is inductive.                                             *)
LEMMA InStepNext == Types /\ InStep /\ [Next]_vars => InStep'
<1> SUFFICES ASSUME Types, InStep, [Next]_vars PROVE InStep'
  OBVIOUS
<1>1. Types' /\ Work' /\ Turns' /\ Objects'
  BY TypesNext, WorkNext, TurnsNext, ObjectsNext DEF InStep
<1>2. ASSUME spurious' = 0 PROVE spurious = 0 /\ ~TargetPrints
  <2>1. spurious \in Nat
    BY SMTT(60) DEF Types, OtherTypes
  <2>2. spurious' = spurious \/ spurious' = spurious + 1
    BY DEF Next, MainStep, MainWrites, MainReads, MainTakes, MainThrows, Returns, StepReturns, AddReturns,
       DeleteReturns, StatusReturns, CallbackReturns, ConstructReturns, AnswerReturns, Dispatch,
       PerformKeepaliveChecks, OnAsynchronousCommandCompleted, ThreadStep, ThreadWrites, ThreadReads, ThreadTakes,
       ThreadThrows, NotifierStep, NotifierWakes, NotifierWaited, FinalRelease, DeleteController, EngineCalls,
       Calls, Run, GetRunStatus, NotifyingRunChg, ReadVirtualMemory, SetContextEx, DoSingleStep, GetContextEx,
       GetKPCRForProcessor, Ask, AddCodeBreakpoint, DelCodeBreakpoint, KdExecutes, TargetStops, TargetPrints,
       KdDies, EngineDies, vars, counters
  <2> QED BY <1>2, <2>1, <2>2 DEF TargetPrints
<1>3. ASSUME spurious' = 0 PROVE Conversation' /\ Told' /\ Armed'
  BY <1>1, <1>2, <1>3, ConversationNext, ToldNext, ArmedNext DEF InStep
<1> QED BY <1>1, <1>3 DEF InStep

(* It holds in every reachable state.                                      *)
LEMMA InStepAlways == Spec => [](Types /\ InStep)
BY TypesInit, InStepInit, TypesNext, InStepNext, PTL DEF Spec

(* The threads share one conversation with kd: no two use the pipes at once*)
(* and every answer is that of the command it was read for; the engine is  *)
(* told the truth of a stop; and kd has the breakpoints that the engine    *)
(* has.                                                                    *)
THEOREM ThreadsInStep == Spec => []KdInStep
<1>1. Types /\ InStep => OneConversation
  BY DEF InStep, Turns, Conversation, IsAsynchronousCommandInProgress, OneConversation
<1>2. Types /\ InStep => ToldTrue
  BY DEF InStep, Told, Stopped, ToldTrue
<1>3. Types /\ InStep => BreakpointsHeld
  <2> SUFFICES ASSUME InStep PROVE BreakpointsHeld
    OBVIOUS
  <2>1. \A o, p \in breakpoints.objects : o.number = p.number => o = p
    BY DEF InStep, Objects
  <2>2. ASSUME spurious = 0, kd.alive, main.op \notin {"add", "delete"}
        PROVE  breakpoints.objects = kd.armed
    BY <2>2 DEF InStep, Armed, After
  <2> QED BY <2>1, <2>2 DEF BreakpointsHeld
<1> QED BY <1>1, <1>2, <1>3, InStepAlways, TypeCorrect, PTL DEF KdInStep
=============================================================================
