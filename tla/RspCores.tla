------------------------------- MODULE RspCores -------------------------------
(***************************************************************************)
(* The controller with one GDB server, and one RspLink, for each processor *)
(* core (MultiCoreGdbServer): ExecuteCommandOnMultiProcessors resumes all  *)
(* cores and polls them for the first stop reply, DiscardResponse deals    *)
(* with the others, SendRspInterruptEx breaks in from another thread, and  *)
(* ReportReasonTargetHalted asks each core why it halted.  The sessions    *)
(* are without acknowledgments, so a packet goes out whole.                *)
(*                                                                         *)
(* Every receive here resets the static buffer of ReceiveInternal: what    *)
(* recv had read past the packet it wanted is lost (Receive).              *)
(***************************************************************************)
EXTENDS Naturals, Sequences

CONSTANTS
  NumberOfCores,  (* GetNumberOfStreamConnections().                       *)
  MaxResumes,     (* Bound on the resumes (and on the runs of a core).     *)
  MaxOutputs,     (* Bound on the console packets of all cores.            *)
  MaxBreaks,      (* Bound on the interrupts by another thread.            *)
  MaxReasons      (* Bound on the rounds of "?" packets.                   *)

Cores == 0 .. NumberOfCores - 1
NoCore == NumberOfCores

Packet == [kind : {"stop", "output", "reason"}, run : 0 .. MaxResumes, from : Cores]
NoPacket == [kind |-> "none", run |-> 0, from |-> 0]

VARIABLES
  target,        (* What each core does: "halted" or "running".            *)
  inbox,         (* Packets and Ctrl-C characters on their way to a core.  *)
  line,          (* Packets of a core not yet read off its socket.         *)
  outputs,       (* Console packets sent.                                  *)
  pc,            (* "idle", "poll", "discard" or "reason".                 *)
  core,          (* The core a loop has come to.                           *)
  IsPollingChannelMode,
  lastKnownActiveCpu,  (* m_lastKnownActiveCpu.                            *)
  result,        (* The response of the last command.                      *)
  interruptEvent,(* m_interruptEvent.                                      *)
  breaking,      (* The next core the breaking thread interrupts.          *)
  resumes, breaks, reasons,  (* Bounded counters.                          *)
  clean,         (* The last resume found nothing left of earlier ones.    *)
  interrupted    (* Cores sent a Ctrl-C since the last resume.             *)

servers == <<target, inbox, line, outputs>>
client == <<pc, core, IsPollingChannelMode, lastKnownActiveCpu, result>>
history == <<resumes, reasons, clean>>
vars == <<servers, client, interruptEvent, breaking, breaks, interrupted, history>>

(* Every variable has its type.                                            *)
TypeOK ==
  /\ target \in [Cores -> {"halted", "running"}]
  /\ inbox \in [Cores -> Seq({"resume", "break", "?"})]
  /\ line \in [Cores -> Seq(Packet)]
  /\ outputs \in 0 .. MaxOutputs
  /\ pc \in {"idle", "poll", "discard", "reason"}
  /\ core \in IF pc \in {"poll", "discard"} THEN Cores ELSE Cores \cup {NoCore}
  /\ IsPollingChannelMode \in BOOLEAN
  /\ lastKnownActiveCpu \in Cores
  /\ result \in Packet \cup {NoPacket}
  /\ interruptEvent \in BOOLEAN
  /\ breaking \in Cores \cup {NoCore}
  /\ resumes \in 0 .. MaxResumes /\ breaks \in 0 .. MaxBreaks
  /\ reasons \in 0 .. MaxReasons
  /\ clean \in BOOLEAN /\ interrupted \subseteq Cores

Init ==
  /\ target = [c \in Cores |-> "halted"]
  /\ inbox = [c \in Cores |-> <<>>] /\ line = [c \in Cores |-> <<>>]
  /\ outputs = 0 /\ pc = "idle" /\ core = NoCore
  /\ IsPollingChannelMode = FALSE /\ lastKnownActiveCpu = 0
  /\ result = NoPacket /\ interruptEvent = FALSE /\ breaking = NoCore
  /\ resumes = 0 /\ breaks = 0 /\ reasons = 0
  /\ clean = TRUE /\ interrupted = {}

-----------------------------------------------------------------------------
(* The servers.                                                            *)

Says(c, kind) ==
  line' = [line EXCEPT ![c] = Append(@, [kind |-> kind, run |-> resumes, from |-> c])]

(* A halted core takes what comes next; it has no use for a Ctrl-C.        *)
HaltedHandles(c) ==
  /\ target[c] = "halted" /\ inbox[c] # <<>>
  /\ inbox' = [inbox EXCEPT ![c] = Tail(@)]
  /\ \/ /\ Head(inbox[c]) = "resume"
        /\ target' = [target EXCEPT ![c] = "running"]
        /\ UNCHANGED line
     \/ Head(inbox[c]) = "?" /\ Says(c, "reason") /\ UNCHANGED target
     \/ Head(inbox[c]) = "break" /\ UNCHANGED <<target, line>>
  /\ UNCHANGED <<outputs, client, interruptEvent, breaking, breaks, interrupted, history>>

(* A running core watches for a Ctrl-C only.                               *)
RunningBreaks(c) ==
  /\ target[c] = "running"
  /\ \E i \in DOMAIN inbox[c] :
       /\ inbox[c][i] = "break"
       /\ \A j \in 1 .. i - 1 : inbox[c][j] # "break"
       /\ inbox' = [inbox EXCEPT ![c] = SubSeq(@, 1, i - 1) \o SubSeq(@, i + 1, Len(@))]
  /\ target' = [target EXCEPT ![c] = "halted"]
  /\ Says(c, "stop")
  /\ UNCHANGED <<outputs, client, interruptEvent, breaking, breaks, interrupted, history>>

(* A breakpoint, or a console message.                                     *)
RunningReports(c) ==
  /\ target[c] = "running"
  /\ \/ /\ target' = [target EXCEPT ![c] = "halted"]
        /\ Says(c, "stop") /\ UNCHANGED outputs
     \/ /\ outputs < MaxOutputs /\ outputs' = outputs + 1
        /\ Says(c, "output") /\ UNCHANGED target
  /\ UNCHANGED <<inbox, client, interruptEvent, breaking, breaks, interrupted, history>>

-----------------------------------------------------------------------------
(* ReceiveRspPacketEx, with the buffer reset.                              *)

(* The response is the first packet; recv may have read more, now lost.    *)
Receive(c) ==
  /\ line[c] # <<>>
  /\ \E last \in DOMAIN line[c] :
       line' = [line EXCEPT ![c] = SubSeq(@, last + 1, Len(@))]
  /\ interruptEvent' = FALSE

(* Nothing came, and the event of a user interrupt ended the wait.         *)
UserInterrupt(c) == line[c] = <<>> /\ interruptEvent /\ interruptEvent' = FALSE

(* Nothing came before the time-out.                                       *)
Silent(c) == line[c] = <<>> /\ ~interruptEvent

SendInterrupt(c) ==
  /\ inbox' = [inbox EXCEPT ![c] = Append(@, "break")]
  /\ interrupted' = interrupted \cup {c}

-----------------------------------------------------------------------------
(* ExecuteCommandOnMultiProcessors.                                        *)

Quiet == /\ ~interruptEvent /\ breaking = NoCore
         /\ \A c \in Cores : line[c] = <<>> /\ inbox[c] = <<>>

Resume ==
  /\ pc = "idle" /\ resumes < MaxResumes
  /\ inbox' = [c \in Cores |-> Append(inbox[c], "resume")]
  /\ pc' = "poll" /\ core' = lastKnownActiveCpu /\ IsPollingChannelMode' = TRUE
  /\ result' = NoPacket /\ resumes' = resumes + 1
  /\ clean' = (Quiet /\ \A c \in Cores : target[c] = "halted")
  /\ interrupted' = {}
  /\ UNCHANGED <<target, line, outputs, lastKnownActiveCpu, interruptEvent, breaking,
                 breaks, reasons>>

(* A definition named "...Wrong" is a plausible bug in the definition that *)
(* follows it; no specification uses it.                                   *)
NextCoreStuckWrong == core
NextCore == (core + 1) % NumberOfCores

(* The stop replies are waited for without a time-out, so silence only     *)
(* takes the loop to the next core.                                        *)
PollNext ==
  /\ pc = "poll" /\ Silent(core)
  /\ core' = NextCore
  /\ UNCHANGED <<servers, pc, IsPollingChannelMode, lastKnownActiveCpu, result,
                 interruptEvent, breaking, breaks, interrupted, history>>

StartDiscardWrong ==
  pc' = "discard" /\ core' = 0 /\ IsPollingChannelMode' = TRUE /\ UNCHANGED lastKnownActiveCpu
StartDiscard ==
  /\ lastKnownActiveCpu' = core
  /\ pc' = "discard" /\ core' = 0 /\ IsPollingChannelMode' = TRUE

(* The first response, or a user interrupt, ends the polling.              *)
PollEnds ==
  /\ pc = "poll"
  /\ \/ Receive(core) /\ result' = Head(line[core])
     \/ UserInterrupt(core) /\ UNCHANGED <<line, result>>
  /\ StartDiscard
  /\ UNCHANGED <<target, inbox, outputs, breaking, breaks, interrupted, history>>

NextDiscard == core' = core + 1 /\ pc' = IF core' = NoCore THEN "idle" ELSE "discard"

DiscardSkips ==
  /\ pc = "discard" /\ core = lastKnownActiveCpu
  /\ NextDiscard
  /\ UNCHANGED <<servers, IsPollingChannelMode, lastKnownActiveCpu, result, interruptEvent,
                 breaking, breaks, interrupted, history>>

(* One response of another core is dropped, whatever it is.                *)
DiscardDrops ==
  /\ pc = "discard" /\ core # lastKnownActiveCpu
  /\ Receive(core)
  /\ NextDiscard /\ IsPollingChannelMode' = FALSE
  /\ UNCHANGED <<target, inbox, outputs, lastKnownActiveCpu, result, breaking, breaks,
                 interrupted, history>>

(* No response: the core is sent a Ctrl-C.  Once a core has answered, or   *)
(* the user has interrupted, IsPollingChannelMode is FALSE and silence is  *)
(* waited out.                                                             *)
DiscardInterrupts ==
  /\ pc = "discard" /\ core # lastKnownActiveCpu
  /\ \/ /\ Silent(core) /\ IsPollingChannelMode
        /\ UNCHANGED <<IsPollingChannelMode, interruptEvent>>
     \/ UserInterrupt(core) /\ IsPollingChannelMode' = FALSE
  /\ SendInterrupt(core)
  /\ NextDiscard
  /\ UNCHANGED <<target, line, outputs, lastKnownActiveCpu, result, breaking, breaks, history>>

-----------------------------------------------------------------------------
(* SendRspInterruptEx, by the thread of the debugger, while it takes the   *)
(* target to be running: it holds no lock.                                 *)

Break ==
  /\ pc \in {"poll", "discard"} /\ breaking = NoCore /\ breaks < MaxBreaks
  /\ breaking' = 0 /\ breaks' = breaks + 1
  /\ UNCHANGED <<servers, client, interruptEvent, interrupted, history>>

SendRspInterrupt ==
  /\ breaking # NoCore
  /\ SendInterrupt(breaking)
  /\ interruptEvent' = TRUE /\ breaking' = breaking + 1
  /\ UNCHANGED <<target, line, outputs, client, breaks, history>>

-----------------------------------------------------------------------------
(* ReportReasonTargetHalted: a "?" to each core, until one names a thread. *)

AskReason(c) ==
  /\ inbox' = [inbox EXCEPT ![c] = Append(@, "?")]
  /\ pc' = "reason" /\ core' = c

ReportReasonTargetHalted ==
  /\ pc = "idle" /\ reasons < MaxReasons
  /\ AskReason(0)
  /\ reasons' = reasons + 1
  /\ UNCHANGED <<target, line, outputs, IsPollingChannelMode, lastKnownActiveCpu, result,
                 interruptEvent, breaking, breaks, interrupted, resumes, clean>>

(* The packet of a core names its processor or does not; its first packet  *)
(* is taken for the reason, a stop reply of an earlier resume too.         *)
ReasonAnswered ==
  /\ pc = "reason" /\ Receive(core)
  /\ result' = Head(line[core])
  /\ \/ /\ result'.kind # "output"      \* a T packet with a thread
        /\ lastKnownActiveCpu' = core /\ pc' = "idle"
        /\ UNCHANGED <<core, inbox>>
     \/ /\ core + 1 \in Cores           \* an S or an O packet
        /\ AskReason(core + 1) /\ UNCHANGED lastKnownActiveCpu
     \/ /\ core + 1 = NoCore
        /\ pc' = "idle" /\ UNCHANGED <<core, inbox, lastKnownActiveCpu>>
  /\ UNCHANGED <<target, outputs, IsPollingChannelMode, breaking, breaks, interrupted, history>>

(* The time-out of a command: an exception leaves the loop.                *)
ReasonFails ==
  /\ pc = "reason" /\ line[core] = <<>> /\ target[core] = "running"
  /\ pc' = "idle" /\ result' = NoPacket
  /\ UNCHANGED <<servers, core, IsPollingChannelMode, lastKnownActiveCpu, interruptEvent,
                 breaking, breaks, interrupted, history>>

-----------------------------------------------------------------------------
Server(c) == HaltedHandles(c) \/ RunningBreaks(c) \/ RunningReports(c)
Resuming == PollNext \/ PollEnds \/ DiscardSkips \/ DiscardDrops \/ DiscardInterrupts
Next ==
  \/ \E c \in Cores : Server(c)
  \/ Resume \/ Resuming
  \/ Break \/ SendRspInterrupt
  \/ ReportReasonTargetHalted \/ ReasonAnswered \/ ReasonFails

Spec == Init /\ [][Next]_vars

-----------------------------------------------------------------------------
(* Properties.                                                             *)

(* What the packets on their way to a core leave it in: no resume comes    *)
(* while it is halted, or after a Ctrl-C.                                  *)
WillHalt(c) ==
  \/ target[c] = "halted" /\ \A i \in DOMAIN inbox[c] : inbox[c][i] # "resume"
  \/ \E i \in DOMAIN inbox[c] :
       inbox[c][i] = "break" /\ \A j \in i + 1 .. Len(inbox[c]) : inbox[c][j] # "resume"
  \/ breaking <= c

(* When a resume that found nothing left of an earlier one is over, no core*)
(* goes on running: each has stopped or has a Ctrl-C on its way.  Console  *)
(* packets, which the loops take for responses, are excepted.              *)
HaltedTogether ==
  pc = "idle" /\ clean /\ outputs = 0 => \A c \in Cores : WillHalt(c)

(* Its response is the stop of this run, and of the core that is then the  *)
(* active one.                                                             *)
StopOfThisRun ==
  pc = "discard" /\ clean /\ result.kind = "stop" =>
    /\ result.run = resumes /\ result.from = lastKnownActiveCpu
    /\ target[lastKnownActiveCpu] = "halted"

(* Of a resume that is over, both and the types of the variables.          *)
HaltedAsReported == TypeOK /\ HaltedTogether /\ StopOfThisRun

(* A resume leaves a stop reply on a line, to be taken for a later answer, *)
(* only where a Ctrl-C was sent, and at the active core of a resume that   *)
(* the user interrupted; never more than one.                              *)
LeftByInterrupt ==
  [][pc = "discard" /\ pc' = "idle" /\ clean /\ outputs = 0 =>
       \A c \in Cores : line'[c] # <<>> =>
         /\ Len(line'[c]) = 1
         /\ c \in interrupted' \/ (c = lastKnownActiveCpu /\ result = NoPacket)]_vars

(* A resume whose targets have sent something ends.                        *)
ResumeEnds == pc = "poll" /\ (\E c \in Cores : line[c] # <<>>) ~> pc = "idle"
=============================================================================
