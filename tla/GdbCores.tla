------------------------------ MODULE GdbCores ------------------------------
(***************************************************************************)
(* Processor cores as the debugger sees them: the list of the threads of   *)
(* one GDB server (GetProcessorCount and the stop replies), the choice of  *)
(* a thread by an H packet (SetThreadCommand), the KPCR addresses, and the *)
(* contexts that GetContextEx reads and SetContextEx writes, for the four  *)
(* architectures.                                                          *)
(*                                                                         *)
(* An exchange of packets is one step.  The server carries a request out,  *)
(* refuses it, or its answer is lost (the controller throws); what a late  *)
(* answer does is the matter of RspLink.  A register stands for a class of *)
(* registers the code treats alike, and its value is the number of the     *)
(* write it comes from.                                                    *)
(***************************************************************************)
EXTENDS Naturals, Sequences, SequencesExt

CONSTANTS
  NumberOfThreads,  (* Threads, that is processor cores, of the server.     *)
  MaxWrites,        (* Bound on the SetContext calls and runs of the target.*)
  MaxFaults,        (* Bound on answers refused, lost or cut short.         *)
  Architectures     (* Those to look at, of {"ARM32", "X86", "AMD64", "ARM64"}. *)

Cpus == 0 .. NumberOfThreads - 1
Registers == {"int", "pc", "flags", "seg", "fctl", "sys", "npx", "fp", "fpscr", "vec"}
Groups == {"fInteger", "fControl", "fSegment", "fFloatingPoint", "fSystem", "fSSE"}
Values == 0 .. MaxWrites + 1   \* 0 is what memset leaves

VARIABLES
  arch,                 (* The architecture of the target.                 *)
  m_fEnableSSEContext,
  regs,                 (* The registers of each core.                     *)
  selected,             (* The core of the server's last H packet.         *)
  m_lastKnownActiveCpu,
  m_targetProcessorIds, (* Cores in the order of their ids in the table.   *)
  m_cachedProcessorCount,
  m_cachedKPCRStartAddress,
  op,                   (* The call under way: its kind, core and batches. *)
  context,              (* The debugger's context; "of" and "whole" say of  *)
                        (* which core it is and if it holds all registers. *)
  outcome,              (* Of the last call: "none", "S_OK", "failed" or   *)
                        (* "undefined" (an index beyond a table).          *)
  before,               (* The registers when the call began.              *)
  writes, faults        (* Bounded counters.                               *)

table == <<m_targetProcessorIds, m_cachedProcessorCount, m_cachedKPCRStartAddress>>
thread == <<selected, m_lastKnownActiveCpu>>
fixed == <<arch, m_fEnableSSEContext>>
vars == <<fixed, regs, thread, table, op, context, outcome, before, writes, faults>>

NoOp == [kind |-> "none", cpu |-> 0, batches |-> <<>>]
NoContext == [values |-> [r \in Registers |-> 0], groups |-> {}, of |-> 0, whole |-> FALSE]

(* Every variable has its type.                                            *)
TypeOK ==
  /\ arch \in Architectures /\ m_fEnableSSEContext \in BOOLEAN
  /\ regs \in [Cpus -> [Registers -> Values]] /\ before \in [Cpus -> [Registers -> Values]]
  /\ selected \in Cpus /\ m_lastKnownActiveCpu \in Cpus
  /\ m_targetProcessorIds \in Seq(Cpus)
  /\ m_cachedProcessorCount \in 0 .. NumberOfThreads
  /\ m_cachedKPCRStartAddress \in Seq({0, 1})
  /\ op.kind \in {"none", "count", "get", "getMore", "set", "setRegs"} /\ op.cpu \in Cpus
  /\ context.values \in [Registers -> Values] /\ context.groups \subseteq Groups
  /\ outcome \in {"none", "S_OK", "failed", "undefined"}
  /\ writes \in 0 .. MaxWrites /\ faults \in 0 .. MaxFaults

Init ==
  /\ arch \in Architectures /\ m_fEnableSSEContext \in BOOLEAN
  /\ regs = [c \in Cpus |-> [r \in Registers |-> 1]]
  /\ selected = 0 /\ m_lastKnownActiveCpu = 0
  /\ m_targetProcessorIds = <<>> /\ m_cachedProcessorCount = 0
  /\ m_cachedKPCRStartAddress = <<>>
  /\ op = NoOp /\ context = NoContext /\ outcome = "none" /\ before = regs
  /\ writes = 0 /\ faults = 0

-----------------------------------------------------------------------------
(* The contexts of the architectures.                                      *)

(* What the "g" packet lists, in its order.                                *)
GOrder ==
  CASE arch = "ARM32" -> <<"int", "pc", "flags", "vec", "fpscr">>
    [] arch = "X86"   -> <<"int", "pc", "flags", "seg", "fctl", "fp">>
    [] arch = "AMD64" -> <<"int", "pc", "flags", "seg", "fp", "fctl", "sys">>
    [] arch = "ARM64" -> <<"int", "pc", "flags">>

(* What GetContextEx cannot do without: ParseRegisterValue refuses the     *)
(* empty string that stands for a register the reply did not hold.         *)
Required ==
  CASE arch = "ARM32" -> {"int", "pc", "flags"}
    [] arch = "X86"   -> {"int", "pc", "flags", "seg", "fctl"}
    [] arch = "AMD64" -> {"int", "pc", "seg"}
    [] arch = "ARM64" -> {"int", "pc", "flags"}

(* The registers it asks for one by one, after another H packet.           *)
Queried ==
  CASE arch = "X86" -> IF m_fEnableSSEContext THEN <<"npx", "vec">> ELSE <<"npx">>
    [] arch = "AMD64" -> IF m_fEnableSSEContext THEN <<"vec">> ELSE <<>>
    [] OTHER -> <<>>

(* On AMD64 the map of the "g" registers is replaced by that of the SSE    *)
(* registers before mxcsr is looked up in it, so the call never succeeds.  *)
MxcsrFound == ~(arch = "AMD64" /\ m_fEnableSSEContext)

(* The groups GetContextEx declares valid, given what it got.              *)
GroupsOf(got) ==
  CASE arch = "ARM32" -> {"fControl", "fInteger"} \cup
                         (IF {"vec", "fpscr"} \subseteq got THEN {"fFloatingPoint"} ELSE {})
    [] arch = "X86"   -> {"fInteger", "fControl", "fSegment", "fFloatingPoint"} \cup
                         (IF m_fEnableSSEContext THEN {"fSSE"} ELSE {})
    [] arch = "AMD64" -> {"fInteger", "fSegment", "fFloatingPoint"} \cup
                         (IF "sys" \in got THEN {"fSystem"} ELSE {}) \cup
                         (IF m_fEnableSSEContext THEN {"fSSE"} ELSE {})
    [] arch = "ARM64" -> {"fControl", "fInteger"}

If(group, groups, names) == IF group \in groups THEN names ELSE <<>>
Batch(names) == IF names = <<>> THEN <<>> ELSE <<names>>

(* A definition named "...Wrong" is a plausible bug in the definition that  *)
(* follows it; no specification uses it.                                   *)
WrittenWrong(groups) == <<GOrder>>
(* The batches of registers SetContextEx writes, each in the order of the  *)
(* names and after an H packet.  The flags of X86, the Fpscr of ARM32 and  *)
(* the mxcsr of AMD64 are never written.                                   *)
Written(groups) ==
  CASE arch = "ARM32" -> << If("fInteger", groups, <<"flags", "int", "pc">>) >> \o
                         Batch(If("fFloatingPoint", groups, <<"vec">>))
    [] arch = "X86"   -> << If("fFloatingPoint", groups, <<"fctl", "npx">>) \o
                            If("fInteger", groups, <<"int", "pc">>) \o
                            If("fSegment", groups, <<"seg">>) >> \o
                         Batch(If("fFloatingPoint", groups, <<"fp">>)) \o
                         Batch(IF m_fEnableSSEContext
                               THEN If("fSSE", groups, <<"vec">>) ELSE <<>>)
    [] arch = "AMD64" -> << If("fSystem", groups, <<"sys">>) \o
                            If("fSegment", groups, <<"seg">>) \o
                            If("fInteger", groups, <<"flags">>) \o
                            If("fSystem", groups, <<"fctl">>) \o
                            If("fInteger", groups, <<"int", "pc">>) >> \o
                         Batch(If("fFloatingPoint", groups, <<"fp">>)) \o
                         Batch(IF m_fEnableSSEContext THEN <<"vec">> ELSE <<>>)
    [] arch = "ARM64" -> << If("fInteger", groups, <<"int">>) \o
                            If("fControl", groups, <<"flags", "pc">>) >>

-----------------------------------------------------------------------------
(* Faults, and the end of a call.                                          *)

Fault == faults < MaxFaults /\ faults' = faults + 1
NoFault == UNCHANGED faults
End(how) == op' = NoOp /\ outcome' = how

-----------------------------------------------------------------------------
(* SetThreadCommand: an H packet with the id of the table, or the number   *)
(* itself while the table is empty.                                        *)

Beyond(cpu) == m_targetProcessorIds # <<>> /\ cpu >= Len(m_targetProcessorIds)
ThreadOfWrong(cpu) == IF m_targetProcessorIds = <<>> THEN cpu ELSE Head(m_targetProcessorIds)
ThreadOf(cpu) == IF m_targetProcessorIds = <<>> THEN cpu ELSE m_targetProcessorIds[cpu + 1]

(* The number is noted before the packet is sent, and goes back only when  *)
(* the server answers something else than OK.  The packets sent again for  *)
(* a bad reply are one with it: what they leave behind is the same.        *)
ThreadSet(cpu) ==
  /\ ~Beyond(cpu)
  /\ selected' = ThreadOf(cpu) /\ m_lastKnownActiveCpu' = cpu
ThreadRefused(cpu) == ~Beyond(cpu) /\ Fault /\ UNCHANGED thread
ThreadLost(cpu) ==
  /\ ~Beyond(cpu) /\ Fault
  /\ m_lastKnownActiveCpu' = cpu
  /\ selected' \in {selected, ThreadOf(cpu)}

-----------------------------------------------------------------------------
(* ReportReasonTargetHalted: the thread of a stop reply enters an empty    *)
(* table; a thread that is not in the table makes the call fail.           *)
ReportReasonTargetHalted ==
  /\ op = NoOp
  /\ \E c \in Cpus :
       LET ids == IF m_targetProcessorIds = <<>> THEN <<c>> ELSE m_targetProcessorIds
           known == {i \in 1 .. Len(ids) : ids[i] = c}
       IN /\ m_targetProcessorIds' = ids
          /\ IF known = {} THEN outcome' = "failed" /\ UNCHANGED m_lastKnownActiveCpu
             ELSE outcome' = "S_OK" /\ \E i \in known : m_lastKnownActiveCpu' = i - 1
  /\ before' = regs
  /\ UNCHANGED <<fixed, regs, selected, m_cachedProcessorCount, m_cachedKPCRStartAddress,
                 op, context, writes, faults>>

(* GetProcessorCount, up to the answer to qfThreadInfo.  An error and the   *)
(* end of the list count as one core, and leave the table empty.           *)
GetProcessorCount ==
  /\ op = NoOp /\ m_cachedProcessorCount = 0
  /\ before' = regs
  /\ \/ /\ \E n \in 1 .. NumberOfThreads :
             m_targetProcessorIds' = [i \in 1 .. n |-> i - 1]
        /\ op' = [NoOp EXCEPT !.kind = "count"] /\ outcome' = "none"
        /\ NoFault /\ UNCHANGED <<m_cachedProcessorCount, m_cachedKPCRStartAddress>>
     \/ /\ Fault /\ End("S_OK")
        /\ m_targetProcessorIds' = <<>> /\ m_cachedProcessorCount' = 1
        /\ m_cachedKPCRStartAddress' = <<0>>
     \/ Fault /\ End("failed") /\ UNCHANGED table
  /\ UNCHANGED <<fixed, regs, thread, context, writes>>

CountedWrong == [i \in 1 .. Len(m_targetProcessorIds) - 1 |-> 0]
Counted == [i \in 1 .. Len(m_targetProcessorIds) |-> 0]

(* The answers to qsThreadInfo: more threads or the end of the list.  On   *)
(* any other answer the loop would go round for ever, see the hazards.     *)
NextThreads ==
  /\ op.kind = "count"
  /\ \/ /\ Len(m_targetProcessorIds) < NumberOfThreads
        /\ \E n \in Len(m_targetProcessorIds) + 1 .. NumberOfThreads :
             m_targetProcessorIds' = [i \in 1 .. n |-> i - 1]
        /\ NoFault
        /\ UNCHANGED <<op, outcome, m_cachedProcessorCount, m_cachedKPCRStartAddress>>
     \/ /\ Len(m_targetProcessorIds) = NumberOfThreads
        /\ m_cachedProcessorCount' = NumberOfThreads
        /\ m_cachedKPCRStartAddress' = Counted
        /\ End("S_OK") /\ NoFault
        /\ UNCHANGED m_targetProcessorIds
     \/ Fault /\ End("failed") /\ UNCHANGED table
  /\ UNCHANGED <<fixed, regs, thread, context, before, writes>>

(* DBGENG_EXDI_IOCTL_V3_STORE_KPCR_VALUE checks no number; the debugger    *)
(* asks for the number of processors first.                                *)
SetKpcrOffset(cpu) ==
  /\ op = NoOp /\ cpu < m_cachedProcessorCount
  /\ m_cachedKPCRStartAddress' = [m_cachedKPCRStartAddress EXCEPT ![cpu + 1] = 1]
  /\ outcome' = "S_OK" /\ before' = regs
  /\ UNCHANGED <<fixed, regs, thread, m_targetProcessorIds, m_cachedProcessorCount, op,
                 context, writes, faults>>

-----------------------------------------------------------------------------
(* GetContextEx.                                                           *)

(* An index beyond the table of the threads is undefined behaviour.        *)
Undefined ==
  /\ op.kind \in {"get", "getMore", "set"} /\ Beyond(op.cpu)
  /\ End("undefined") /\ context' = NoContext
  /\ UNCHANGED <<fixed, regs, thread, table, before, writes, faults>>

GetContext(cpu) ==
  /\ op = NoOp
  /\ op' = [kind |-> "get", cpu |-> cpu, batches |-> <<>>] /\ outcome' = "none"
  /\ before' = regs /\ context' = NoContext
  /\ UNCHANGED <<fixed, regs, thread, table, writes, faults>>

(* The H packet of a call fails.                                           *)
ThreadFails ==
  /\ op.kind \in {"get", "getMore", "set"}
  /\ ThreadRefused(op.cpu) \/ ThreadLost(op.cpu)
  /\ End("failed")
  /\ context' = IF op.kind = "set" THEN context ELSE NoContext
  /\ UNCHANGED <<fixed, regs, table, before, writes>>

(* H, then "g", of which the reply holds the first n registers; memset has *)
(* made the others 0.                                                      *)
QueryAllRegisters ==
  /\ op.kind = "get" /\ ThreadSet(op.cpu)
  /\ \E n \in 0 .. Len(GOrder) :
       LET got == {GOrder[i] : i \in 1 .. n} IN
       /\ IF n = Len(GOrder) THEN NoFault ELSE Fault
       /\ IF Required \subseteq got
          THEN /\ context' = [values |-> [r \in Registers |->
                                            IF r \in got THEN regs[selected'][r] ELSE 0],
                              groups |-> GroupsOf(got), of |-> selected',
                              whole |-> n = Len(GOrder)]
               /\ IF Queried = <<>> THEN End("S_OK")
                  ELSE op' = [op EXCEPT !.kind = "getMore"] /\ UNCHANGED outcome
          ELSE End("failed") /\ UNCHANGED context
  /\ UNCHANGED <<fixed, regs, table, before, writes>>

(* H, then a "p" for each of some more registers.                          *)
QueryRegisters ==
  /\ op.kind = "getMore" /\ ThreadSet(op.cpu)
  /\ \/ /\ NoFault
        /\ IF MxcsrFound
           THEN /\ context' = [context EXCEPT !.values = [r \in Registers |->
                     IF r \in ToSet(Queried) THEN regs[selected'][r] ELSE @[r]]]
                /\ End("S_OK")
           ELSE End("failed") /\ context' = NoContext
     \/ Fault /\ End("failed") /\ context' = NoContext
  /\ UNCHANGED <<fixed, regs, table, before, writes>>

-----------------------------------------------------------------------------
(* SetContextEx.                                                           *)

(* The debugger sets back a context it was given, as it was or changed, to *)
(* any core.                                                               *)
SetContext(cpu) ==
  /\ op = NoOp /\ context # NoContext /\ writes < MaxWrites
  /\ writes' = writes + 1
  /\ \/ UNCHANGED context
     \/ context' = [context EXCEPT !.values = [r \in Registers |-> writes + 2], !.whole = FALSE]
  /\ op' = [kind |-> "set", cpu |-> cpu, batches |-> Written(context.groups)]
  /\ outcome' = "none" /\ before' = regs
  /\ UNCHANGED <<fixed, regs, thread, table, faults>>

(* The H packet before a batch.                                            *)
SetRegisters ==
  /\ op.kind = "set" /\ ThreadSet(op.cpu) /\ NoFault
  /\ op' = [op EXCEPT !.kind = "setRegs"]
  /\ UNCHANGED <<fixed, regs, table, context, outcome, before, writes>>

(* A "P" for each register of it; when one fails those before stay.        *)
SetRegister ==
  /\ op.kind = "setRegs"
  /\ IF Head(op.batches) = <<>>
     THEN /\ IF Tail(op.batches) = <<>> THEN End("S_OK")
             ELSE op' = [op EXCEPT !.kind = "set", !.batches = Tail(@)] /\ UNCHANGED outcome
          /\ NoFault /\ UNCHANGED regs
     ELSE LET r == Head(Head(op.batches))
              written == [regs EXCEPT ![selected][r] = context.values[r]]
          IN \/ /\ regs' = written /\ NoFault /\ UNCHANGED outcome
                /\ op' = [op EXCEPT !.batches[1] = Tail(@)]
             \/ /\ regs' \in {regs, written}
                /\ Fault /\ End("failed")
  /\ UNCHANGED <<fixed, thread, table, context, before, writes>>

(* The target runs and halts again.                                        *)
TargetRuns ==
  /\ op = NoOp /\ writes < MaxWrites /\ writes' = writes + 1
  /\ regs' = [c \in Cpus |-> [r \in Registers |-> writes + 2]]
  /\ context' = NoContext /\ outcome' = "none" /\ before' = regs'
  /\ UNCHANGED <<fixed, thread, table, op, faults>>

-----------------------------------------------------------------------------
Next ==
  \/ ReportReasonTargetHalted \/ GetProcessorCount \/ NextThreads
  \/ \E cpu \in Cpus : SetKpcrOffset(cpu) \/ GetContext(cpu) \/ SetContext(cpu)
  \/ Undefined \/ ThreadFails \/ QueryAllRegisters \/ QueryRegisters
  \/ SetRegisters \/ SetRegister \/ TargetRuns

Spec == Init /\ [][Next]_vars

-----------------------------------------------------------------------------
(* Properties.                                                             *)

(* The server listed its threads: there are several.                       *)
ThreadsListed == m_cachedProcessorCount > 1

(* Once the cores are counted there is a KPCR address for each; they are   *)
(* all the server has, unless it listed none.  Once the threads are listed *)
(* the table has each of them, in its order, and no index is beyond it.    *)
TableWhole ==
  m_cachedProcessorCount # 0 =>
    /\ m_cachedProcessorCount \in {1, NumberOfThreads}
    /\ Len(m_cachedKPCRStartAddress) = m_cachedProcessorCount
    /\ ThreadsListed => /\ m_targetProcessorIds = [i \in 1 .. NumberOfThreads |-> i - 1]
                        /\ outcome # "undefined"

(* The server has the thread selected that the controller takes to be the  *)
(* active one, while registers are read or written.                        *)
ActiveThreadSelected ==
  op.kind = "setRegs" /\ ThreadsListed =>
    selected = op.cpu /\ selected = m_lastKnownActiveCpu

(* A context just got holds the registers of the core that was asked for,  *)
(* but those the server left out.                                          *)
ContextOfCpu ==
  [][op.kind \in {"get", "getMore"} /\ outcome' = "S_OK" /\ ThreadsListed =>
       \A r \in Registers : context'.values[r] \in {0, regs[op.cpu][r]}]_vars

(* A call changes registers only of the core it names, and those of the    *)
(* coprocessor only when the context declares their group.                 *)
OtherRegistersKept ==
  ThreadsListed /\ op.kind = "setRegs" =>
    \A c \in Cpus, r \in Registers :
      regs[c][r] # before[c][r] =>
        /\ c = op.cpu
        /\ r \in {"fp", "npx", "vec"} => context.groups \cap {"fFloatingPoint", "fSSE"} # {}

(* A context that holds all the registers of a core, set back as it is,    *)
(* leaves each register of that core as it was, however far the call gets: *)
(* nothing is written that was not read.                                   *)
SetBackKeeps ==
  [][op.kind = "setRegs" /\ context.whole /\ context.of = selected =>
       regs'[selected] = before[selected]]_vars
=============================================================================
