----------------------------- MODULE GdbRequests -----------------------------
(***************************************************************************)
(* The configuration of the EXDI GDB server, and the requests of the       *)
(* debugger to the controller, for model checking: those for memory, for   *)
(* the contexts of the cores, those that resume the cores and those about  *)
(* the connections share no variable, so each behaviour is about one of    *)
(* them and the others stay as they start.                                 *)
(***************************************************************************)
EXTENDS GdbMemory, SomeConfigurations

CONSTANTS
  NumberOfThreads, MaxWrites, MaxCoreFaults, Architectures,  (* of GdbCores *)
  NumberOfStreams, MaxEvents,                          (* of RspConnections *)
  NumberOfCores, MaxResumes, MaxOutputs, MaxBreaks, MaxReasons, (* of RspCores *)
  PieceSize, MaxSessions, MaxFailures                  (* of GdbConfiguration *)

ASSUME GdbRequestsAssumption ==
  /\ NumberOfThreads \in Nat \ {0} /\ MaxWrites \in Nat /\ MaxCoreFaults \in Nat
  /\ Architectures \subseteq {"ARM32", "X86", "AMD64", "ARM64"} /\ Architectures # {}
  /\ {NumberOfStreams, NumberOfCores} \subseteq Nat \ {0} /\ MaxEvents \in Nat
  /\ {MaxResumes, MaxOutputs, MaxBreaks, MaxReasons, MaxFailures} \subseteq Nat
  /\ {PieceSize, MaxSessions} \subseteq Nat \ {0}

VARIABLES
  part,  (* "memory", "cores", "connections", "resumes" or "configuration". *)
  arch, m_fEnableSSEContext, regs, selected, m_lastKnownActiveCpu, m_targetProcessorIds,
  m_cachedProcessorCount, m_cachedKPCRStartAddress, op, context, coreOutcome, coreBefore,
  writes, coreFaults,
  sockets, configured, blocking, pending, phase, isConnected, lastError, sent, events,
  target, inbox, line, outputs, pc, core, IsPollingChannelMode, lastKnownActiveCpu,
  response, interruptEvent, breaking, resumes, breaks, reasons, clean, interrupted,
  table, controller, known, reading, doc, transfer, files, sessions, failures

coreVars == <<arch, m_fEnableSSEContext, regs, selected, m_lastKnownActiveCpu,
              m_targetProcessorIds, m_cachedProcessorCount, m_cachedKPCRStartAddress,
              op, context, coreOutcome, coreBefore, writes, coreFaults>>
connectionVars == <<sockets, configured, blocking, pending, phase, isConnected, lastError,
                    sent, events>>
resumeVars == <<target, inbox, line, outputs, pc, core, IsPollingChannelMode,
                lastKnownActiveCpu, response, interruptEvent, breaking, resumes, breaks,
                reasons, clean, interrupted>>
configurationVars == <<table, controller, known, reading, doc, transfer, files, sessions,
                       failures>>

Cores == INSTANCE GdbCores
           WITH outcome <- coreOutcome, before <- coreBefore, faults <- coreFaults,
                MaxFaults <- MaxCoreFaults
Tcp == INSTANCE RspConnections
Resumes == INSTANCE RspCores WITH result <- response
Configuration == INSTANCE GdbConfiguration
                   WITH server <- known, MaxFaults <- MaxFailures,
                        ConfigFiles <- SomeConfigFiles, MapFiles <- SomeMapFiles,
                        TargetFiles <- SomeTargetFiles, RegisterFiles <- SomeRegisterFiles

(* A part that is not looked at starts in one way.                         *)
RequestsInit ==
  /\ part \in {"memory", "cores", "connections", "resumes", "configuration"}
  /\ Init /\ Cores!Init /\ Tcp!Init /\ Resumes!Init /\ Configuration!Init
  /\ part # "memory" => server = (CHOOSE s \in Servers : TRUE) /\ ~throwEnabled
  /\ part # "cores" => arch = (CHOOSE a \in Architectures : TRUE) /\ ~m_fEnableSSEContext
  /\ part # "connections" => \A c \in DOMAIN sockets : sockets[c] = "new"
  /\ part # "configuration" => files = (CHOOSE f \in Configuration!Documents : TRUE)

RequestsNext ==
  /\ UNCHANGED part
  /\ \/ /\ part = "memory" /\ Next
        /\ UNCHANGED <<coreVars, connectionVars, resumeVars, configurationVars>>
     \/ /\ part = "cores" /\ Cores!Next
        /\ UNCHANGED <<vars, connectionVars, resumeVars, configurationVars>>
     \/ /\ part = "connections" /\ Tcp!Next
        /\ UNCHANGED <<vars, coreVars, resumeVars, configurationVars>>
     \/ /\ part = "resumes" /\ Resumes!Next
        /\ UNCHANGED <<vars, coreVars, connectionVars, configurationVars>>
     \/ /\ part = "configuration" /\ Configuration!Next
        /\ UNCHANGED <<vars, coreVars, connectionVars, resumeVars>>

(* The thread of a resume is scheduled.                                    *)
RequestsSpec ==
  /\ RequestsInit
  /\ [][RequestsNext]_<<part, vars, coreVars, connectionVars, resumeVars, configurationVars>>
  /\ WF_resumeVars(part = "resumes" /\ Resumes!Resuming
                     /\ UNCHANGED <<part, vars, coreVars, connectionVars, configurationVars>>)

-----------------------------------------------------------------------------
(* The properties, which the modules of the parts state.                   *)

(* GdbMemory: a read is a prefix of one space, and of the physical one when*)
(* that was asked for; a write stays in its range and is whole; the        *)
(* physical mode a call asked for ends with it.                            *)
MemoryRead == TypeOK /\ ReadPrefix /\ PhysicalRead /\ PAModeEnds
MemoryWritten == WriteWithin /\ WriteDone

(* GdbCores: the table of the threads is whole; the thread selected is the *)
(* one meant; registers of other cores and groups are left alone; a context*)
(* is that of its core; setting it back unchanged changes nothing.         *)
CoresKept ==
  Cores!TypeOK /\ Cores!TableWhole /\ Cores!ActiveThreadSelected /\ Cores!OtherRegistersKept
ContextsOfCpus == Cores!ContextOfCpu /\ Cores!SetBackKeeps

(* RspConnections: commands go to open connections; a loss shuts the       *)
(* session down; a look at a socket leaves it as it was, but after an      *)
(* error.                                                                  *)
ConnectionsWatched ==
  /\ []Tcp!TypeOK
  /\ Tcp!SentOnOpen /\ Tcp!LossShutsDown /\ Tcp!ModeRestored

(* RspCores: after a resume all cores halt and its answer is a stop of this*)
(* run; stops are left on a line only by an interrupt; a resume whose cores*)
(* have sent something ends.                                               *)
HaltedAsReported == part = "resumes" => Resumes!HaltedAsReported
ResumesEnd == Resumes!LeftByInterrupt /\ Resumes!ResumeEnds

(* GdbConfiguration: the settings are those of the target that is meant,   *)
(* the registers those of its architecture, the system registers those of  *)
(* the description, and each access code is that of its register.          *)
ConfiguredAsWritten == part = "configuration" => Configuration!ConfiguredAsWritten
=============================================================================
