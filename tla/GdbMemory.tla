------------------------------ MODULE GdbMemory ------------------------------
(***************************************************************************)
(* Memory and system registers of the target as the EXDI server reads and  *)
(* writes them: the loops of ReadMemory and WriteMemory that cut a request *)
(* into packets, the address space a packet names on each kind of GDB      *)
(* server, and the physical address mode of the servers whose packets name *)
(* no space (SetPhysicalReadMemoryModeEx, HandleConfigPAMemAccessMode).    *)
(*                                                                         *)
(* An exchange of packets is one step: the server answers, refuses or is   *)
(* not heard, and may have carried the request out when it is not heard.   *)
(* A byte stands for the place or the write it comes from.                 *)
(***************************************************************************)
EXTENDS Naturals, Sequences, SequencesExt, FiniteSetsExt

CONSTANTS
  Servers,      (* Of {"trace32", "openocd", "bmc", "qemu", "plain"}.      *)
  MaxAddress,   (* Addresses are 0 .. MaxAddress.                          *)
  MaxBytes,     (* Bound on the length of a request.                       *)
  ReadBytes,    (* (maxPacketLength - packetOverhead) / 2.                 *)
  PacketSize,   (* Of the server; WriteMemory sends as many bytes at once. *)
  MaxCalls,     (* Bound on the calls of the debugger.                     *)
  MaxFaults     (* Bound on the answers that are not what was asked for.   *)

ASSUME GdbMemoryAssumption ==
  /\ Servers \subseteq {"trace32", "openocd", "bmc", "qemu", "plain"}
  /\ MaxBytes \in Nat \ {0} /\ MaxAddress \in Nat /\ MaxCalls \in Nat /\ MaxFaults \in Nat
  /\ ReadBytes \in Nat \ {0} /\ PacketSize \in Nat \ {0}

Addresses == 0 .. MaxAddress
Modes == {"super", "hyper"}
Spaces == Modes \cup {"physical", "special"}
Types == Spaces \cup {"none"}   \* memoryAccessType: at most one of its bits
Initial(s, a) == [by |-> s, at |-> a]
Sent(k, i) == [by |-> "debugger", at |-> k * MaxBytes + i]   \* byte i of call k

VARIABLES
  server, throwEnabled,   (* The kind of the server; the configuration.    *)
  mem,                    (* The bytes of each space.                      *)
  mode,                   (* Exception level the target is halted in.      *)
  serverPA,               (* The server's plain packets mean physical.     *)
  m_lastPSRvalue,         (* Level of the last context read, or "none".    *)
  m_IsForcedPAMemoryMode, m_ConfigPAMemMode,
  call,                   (* The call under way.                           *)
  result,                 (* The bytes read so far.                        *)
  outcome,                (* Of the last call: "none", "S_OK" or "failed". *)
  before,                 (* The memory when the call began.               *)
  paBy,                   (* What last asked for the mode: "none", "read",  *)
                          (* "failed" (a read that failed) or "user".      *)
  unsure,                 (* An answer about the mode was not heard.       *)
  calls, faults           (* Bounded counters.                             *)

config == <<server, throwEnabled>>
pa == <<serverPA, m_IsForcedPAMemoryMode, m_ConfigPAMemMode, paBy, unsure>>
vars == <<config, mem, mode, pa, m_lastPSRvalue, call, result, outcome, before, calls, faults>>

NoCall == [kind |-> "none", type |-> "none", base |-> 0, want |-> 0, address |-> 0,
           size |-> 0, left |-> 0, clean |-> FALSE]

Init ==
  /\ server \in Servers /\ throwEnabled \in BOOLEAN
  /\ mem = [s \in Spaces |-> [a \in Addresses |-> Initial(s, a)]] /\ before = mem
  /\ mode = "super" /\ m_lastPSRvalue = "none"
  /\ serverPA = FALSE /\ m_IsForcedPAMemoryMode = FALSE /\ m_ConfigPAMemMode = FALSE
  /\ paBy = "none" /\ unsure = FALSE
  /\ call = NoCall /\ result = <<>> /\ outcome = "none"
  /\ calls = 0 /\ faults = 0

(* Every variable has its type.                                            *)
TypeOK ==
  /\ server \in Servers /\ throwEnabled \in BOOLEAN
  /\ \A m \in {mem, before}, s \in Spaces, a \in Addresses :
       m[s][a] = Initial(s, a) \/ \E k \in 1 .. MaxCalls, i \in 1 .. MaxBytes : m[s][a] = Sent(k, i)
  /\ mode \in Modes /\ m_lastPSRvalue \in Modes \cup {"none"}
  /\ {serverPA, m_IsForcedPAMemoryMode, m_ConfigPAMemMode, unsure} \subseteq BOOLEAN
  /\ paBy \in {"none", "read", "failed", "user"}
  /\ call.kind \in {"none", "paOn", "read", "paOff", "write"} /\ call.type \in Types
  /\ call.base \in Addresses /\ call.address \in 0 .. MaxAddress + 1
  /\ {call.want, call.size, call.left} \subseteq 0 .. MaxBytes
  /\ Len(result) \in 0 .. MaxBytes /\ outcome \in {"none", "S_OK", "failed"}
  /\ calls \in 0 .. MaxCalls /\ faults \in 0 .. MaxFaults

-----------------------------------------------------------------------------
(* The space a packet reaches.                                             *)

(* GetReadMemoryCmd and GetWriteMemoryCmd: only the packets of Trace32 say *)
(* which space they mean; all others send "m" and "M".                     *)
Space(type) ==
  IF server = "trace32" /\ type # "none" THEN type
  ELSE IF serverPA THEN "physical" ELSE mode

(* GetMemoryPacketType: of the level of the last context read.             *)
VirtualType == m_lastPSRvalue

(* The server is told before and after a physical read.                    *)
ConfiguresPA(type) == type = "physical" /\ server = "qemu"

-----------------------------------------------------------------------------
(* Faults, the begin and the end of a call.                                *)

Fault == faults < MaxFaults /\ faults' = faults + 1
NoFault == UNCHANGED faults

Begin(kind, type, a, n) ==
  /\ call.kind = "none" /\ calls < MaxCalls /\ calls' = calls + 1
  /\ call' = [kind |-> kind, type |-> type, base |-> a, want |-> n, address |-> a,
              size |-> 0, left |-> n, clean |-> kind = "write"]
  /\ result' = <<>> /\ outcome' = "none" /\ before' = mem
  /\ UNCHANGED <<config, mem, mode, pa, m_lastPSRvalue, faults>>

(* The call stays to be looked at until the next one; only its kind goes.  *)
(* It is clean if it is a write, and each of its packets carried out.      *)
End(how) == call' = [call EXCEPT !.kind = "none"] /\ outcome' = how

InRange(a, n) == a + n <= MaxAddress + 1

-----------------------------------------------------------------------------
(* ReadMemory.                                                             *)

(* ReadVirtualMemory, and Ioctl for the supervisor's and the hypervisor's. *)
ReadVirtualMemory(a, n) == Begin("read", VirtualType, a, n)
IoctlReadMemory(type, a, n) == Begin("read", type, a, n)

(* The mode that was forced makes a plain read a physical one.             *)
ReadPhysicalMemory(a, n) ==
  LET type == IF m_IsForcedPAMemoryMode THEN "none" ELSE "physical"
  IN Begin(IF ConfiguresPA(type) /\ ~m_ConfigPAMemMode THEN "paOn" ELSE "read", type, a, n)

Chunk == Min({ReadBytes, call.left})

(* The next packet starts at the address reached.                          *)
Advanced(n) == call.address + n

(* ReadMemory returned: what was read, or an exception.                    *)
ReadReturns(how) ==
  IF how = "S_OK" /\ ConfiguresPA(call.type)
  THEN call' = [call EXCEPT !.kind = "paOff"] /\ UNCHANGED <<outcome, paBy>>
  ELSE /\ End(how)
       /\ paBy' = IF how = "failed" /\ ConfiguresPA(call.type) THEN "failed" ELSE paBy

(* "m" for what is left of a chunk, and its answer.                        *)
ReadPacket ==
  /\ call.kind = "read" /\ call.left > 0
  /\ LET size == IF call.size = 0 THEN Chunk ELSE call.size
         Got(n) == result \o [i \in 1 .. n |-> mem[Space(call.type)][call.address + i - 1]]
         Next_(n, left) == call' = [call EXCEPT !.address = Advanced(n), !.size = left,
                                     !.left = IF left = 0 THEN @ - Chunk ELSE @]
     IN \/ \* All of it, or less.
           \E n \in 1 .. size :
             /\ IF n = size THEN NoFault ELSE Fault
             /\ result' = Got(n) /\ Next_(n, size - n)
             /\ UNCHANGED <<outcome, paBy>>
        \/ \* Nothing after something: on with the next chunk.
           /\ result # <<>> /\ Fault /\ Next_(0, 0)
           /\ UNCHANGED <<result, outcome, paBy>>
        \/ \* An error, or nothing at all: the prefix, or an exception.
           /\ Fault /\ ReadReturns(IF result = <<>> /\ throwEnabled THEN "failed" ELSE "S_OK")
           /\ UNCHANGED result
        \/ \* No answer.
           Fault /\ ReadReturns("failed") /\ UNCHANGED result
  /\ UNCHANGED <<config, mem, mode, serverPA, m_IsForcedPAMemoryMode, m_ConfigPAMemMode, unsure,
                 m_lastPSRvalue, before, calls>>

ReadEnds ==
  /\ call.kind = "read" /\ call.left = 0
  /\ ReadReturns("S_OK")
  /\ UNCHANGED <<config, mem, mode, serverPA, m_IsForcedPAMemoryMode, m_ConfigPAMemMode, unsure,
                 m_lastPSRvalue, result, before, calls, faults>>

-----------------------------------------------------------------------------
(* The physical address mode.                                              *)

(* SetPhysicalReadMemoryModeEx: the request is carried out and answered,   *)
(* refused, or not heard of.                                               *)
ModeSet(on) == NoFault /\ serverPA' = on /\ UNCHANGED unsure
ModeRefused == Fault /\ UNCHANGED <<serverPA, unsure>>
ModeUnheard(on) == Fault /\ serverPA' \in {serverPA, on} /\ unsure' = TRUE

(* HandleConfigPAMemAccessMode(TRUE): not sent when the flag is set.       *)
SetMode ==
  /\ call.kind = "paOn"
  /\ \/ /\ ModeSet(TRUE) /\ m_ConfigPAMemMode' = TRUE /\ paBy' = "read"
        /\ call' = [call EXCEPT !.kind = "read"] /\ UNCHANGED outcome
     \/ ModeRefused /\ End("failed") /\ UNCHANGED <<m_ConfigPAMemMode, paBy>>
     \/ ModeUnheard(TRUE) /\ End("failed") /\ paBy' = "failed" /\ UNCHANGED m_ConfigPAMemMode
  /\ UNCHANGED <<config, mem, mode, m_IsForcedPAMemoryMode, m_lastPSRvalue, result, before, calls>>

(* A definition named "...Wrong" is a plausible bug in the definition that *)
(* follows it; no specification uses it.                                   *)
ClearModeWrong ==
  /\ call.kind = "paOff" /\ ModeSet(FALSE) /\ End("S_OK")
  /\ UNCHANGED <<config, mem, mode, m_IsForcedPAMemoryMode, m_ConfigPAMemMode, paBy, m_lastPSRvalue,
                 result, before, calls>>
ClearMode ==
  /\ call.kind = "paOff"
  /\ \/ ModeSet(FALSE) /\ m_ConfigPAMemMode' = FALSE /\ paBy' = "none" /\ End("S_OK")
     \/ ModeRefused /\ End("failed") /\ paBy' = "failed" /\ UNCHANGED m_ConfigPAMemMode
     \/ ModeUnheard(FALSE) /\ End("failed") /\ paBy' = "failed" /\ UNCHANGED m_ConfigPAMemMode
  /\ UNCHANGED <<config, mem, mode, m_IsForcedPAMemoryMode, m_lastPSRvalue, result, before, calls>>

(* The debugger's command SetPAMemoryMode.  Where the mode goes on and off *)
(* with each read nothing remembers that the user asked for it.            *)
SetPhysicalReadMemoryMode ==
  /\ call.kind = "none" /\ calls < MaxCalls /\ calls' = calls + 1
  /\ server \in {"qemu", "bmc"}
  /\ \/ /\ ModeSet(TRUE) /\ outcome' = "S_OK"
        /\ m_IsForcedPAMemoryMode' = (m_IsForcedPAMemoryMode \/ server = "bmc")
        /\ paBy' = "user"
     \/ ModeRefused /\ outcome' = "failed" /\ UNCHANGED <<m_IsForcedPAMemoryMode, paBy>>
     \/ ModeUnheard(TRUE) /\ outcome' = "failed" /\ paBy' = "user"
        /\ UNCHANGED m_IsForcedPAMemoryMode
  /\ call' = NoCall /\ result' = <<>> /\ before' = mem
  /\ UNCHANGED <<config, mem, mode, m_ConfigPAMemMode, m_lastPSRvalue>>

-----------------------------------------------------------------------------
(* WriteMemory.                                                            *)

WriteVirtualMemory(a, n) == Begin("write", VirtualType, a, n)
(* The mode is not switched for a physical write.                          *)
WritePhysicalMemory(a, n) == Begin("write", "physical", a, n)

Piece == Min({PacketSize, call.left})

(* The first n bytes of a packet written: the pointer into the data moves  *)
(* from packet to packet, the address does not.                            *)
WrittenWrong(n) ==
  [mem EXCEPT ![Space(call.type)] =
    [a \in Addresses |-> IF a \in call.base .. call.base + n - 1
                         THEN Sent(calls, call.want - call.left + a - call.base) ELSE @[a]]]
Written(n) ==
  LET done == call.want - call.left
  IN [mem EXCEPT ![Space(call.type)] =
        [a \in Addresses |-> IF a \in call.base .. call.base + n - 1
                             THEN Sent(calls, done + a - call.base + 1) ELSE @[a]]]

(* On with the next packet, if there is one.                               *)
PacketAccepted(clean) ==
  IF Piece = call.left
  THEN outcome' = "S_OK" /\ call' = [call EXCEPT !.kind = "none", !.clean = clean]
  ELSE UNCHANGED outcome /\ call' = [call EXCEPT !.left = @ - Piece, !.clean = clean]

(* An error ends the loop, and is not reported when the packet was the     *)
(* last one: both calls of the server pass fReportWriteError = false.      *)
WritePacket ==
  /\ call.kind = "write"
  /\ \/ NoFault /\ mem' = Written(Piece) /\ PacketAccepted(call.clean)
     \/ /\ Fault /\ \E n \in 0 .. Piece : mem' = Written(n)
        /\ outcome' = IF Piece = call.left THEN "S_OK" ELSE "failed"
        /\ call' = [call EXCEPT !.kind = "none", !.clean = FALSE]
     \/ \* Empty, of a server that does not know the packet: any answer but
        \* an error is taken for "OK".
        Fault /\ UNCHANGED mem /\ PacketAccepted(FALSE)
     \/ \* No answer.
        Fault /\ mem' \in {mem, Written(Piece)} /\ End("failed")
  /\ UNCHANGED <<config, mode, pa, m_lastPSRvalue, result, before, calls>>

-----------------------------------------------------------------------------
(* System registers.                                                       *)

(* GetSystemRegHandler: a memory packet, a monitor command, or "p".        *)
Handler ==
  CASE server = "trace32" -> "MemoryCustomizedCmd"
    [] server = "openocd" -> "GDBMonitorCmd"
    [] OTHER -> "QueryRegCmd"

WriteHandlers == {"QueryRegCmd", "GDBMonitorCmd"}

(* ReadMsrRegister reads the status register of the processor, and that    *)
(* the system register.                                                    *)
ReadMsrRegister(a) ==
  /\ call.kind = "none" /\ calls < MaxCalls /\ calls' = calls + 1
  /\ \/ NoFault /\ result' = <<mem["special"][a]>> /\ outcome' = "S_OK"
     \/ Fault /\ result' = <<>> /\ outcome' = "failed"
  /\ call' = NoCall /\ before' = mem
  /\ UNCHANGED <<config, mem, mode, pa, m_lastPSRvalue>>

(* No write goes through the packet of Trace32.  What OpenOCD is sent is   *)
(* a read command as a packet, which it does not know, and no error.       *)
WriteMsrRegister(a) ==
  /\ call.kind = "none" /\ calls < MaxCalls /\ calls' = calls + 1
  /\ LET written == [mem EXCEPT !["special"][a] = Sent(calls + 1, 1)] IN
     IF Handler \notin WriteHandlers THEN outcome' = "failed" /\ NoFault /\ UNCHANGED mem
     ELSE \/ /\ NoFault /\ outcome' = "S_OK"
             /\ IF Handler = "QueryRegCmd" THEN mem' = written ELSE UNCHANGED mem
          \/ Fault /\ outcome' = "failed" /\ mem' \in {mem, written}
  /\ call' = [NoCall EXCEPT !.type = "special", !.base = a, !.address = a, !.want = 1,
                            !.clean = (Handler = "QueryRegCmd")]
  /\ result' = <<>> /\ before' = mem
  /\ UNCHANGED <<config, mode, pa, m_lastPSRvalue>>

-----------------------------------------------------------------------------
(* The debugger reads the context of an ARM64 core.                        *)
ReadContext ==
  /\ call.kind = "none" /\ m_lastPSRvalue # mode
  /\ m_lastPSRvalue' = mode
  /\ UNCHANGED <<config, mem, mode, pa, call, result, outcome, before, calls, faults>>

(* The target runs and halts, perhaps in another exception level.          *)
TargetRuns ==
  /\ call.kind = "none" /\ calls < MaxCalls /\ calls' = calls + 1
  /\ mode' \in Modes \ {mode}
  /\ call' = NoCall /\ result' = <<>> /\ outcome' = "none" /\ before' = mem
  /\ UNCHANGED <<config, mem, pa, m_lastPSRvalue, faults>>

Next ==
  \/ \E a \in Addresses, n \in 1 .. MaxBytes :
       /\ InRange(a, n)
       /\ \/ ReadVirtualMemory(a, n) \/ ReadPhysicalMemory(a, n)
          \/ \E type \in Modes : IoctlReadMemory(type, a, n)
          \/ WriteVirtualMemory(a, n) \/ WritePhysicalMemory(a, n)
  \/ ReadPacket \/ ReadEnds \/ SetMode \/ ClearMode \/ SetPhysicalReadMemoryMode
  \/ WritePacket
  \/ \E a \in Addresses : ReadMsrRegister(a) \/ WriteMsrRegister(a)
  \/ ReadContext \/ TargetRuns

Spec == Init /\ [][Next]_vars

-----------------------------------------------------------------------------
(* Properties.                                                             *)

Holds(m, s, a, bytes) == \A i \in 1 .. Len(bytes) : m[s][a + i - 1] = bytes[i]

(* However a read is cut into packets, and whatever of them is cut short,  *)
(* what it has so far is the beginning of the range, all of one space.     *)
ReadPrefix ==
  call.kind \in {"read", "paOff"} =>
    Len(result) <= call.want /\ \E s \in Spaces : Holds(mem, s, call.base, result)

(* A physical read that succeeds, of a server that can do it, gives        *)
(* physical memory, unless an answer about the mode was once not heard.    *)
PhysicalRead ==
  call.type = "physical" /\ call.kind \in {"read", "paOff"}
    /\ server \in {"trace32", "qemu"} /\ ~unsure => Holds(mem, "physical", call.base, result)

(* Between calls the server takes plain packets as physical only when the  *)
(* user wanted that or a physical read failed, never after one that        *)
(* succeeded.                                                              *)
PAModeEnds == call.kind = "none" /\ serverPA => paBy \in {"user", "failed"}

(* A write changes no byte outside of the range it was given, nor one of   *)
(* two spaces.                                                             *)
WriteWithin ==
  \E s \in Spaces : \A t \in Spaces, a \in Addresses :
    mem[t][a] # before[t][a] => t = s /\ a \in call.base .. call.base + call.want - 1

(* A write of one packet that is reported done is all there, unless the    *)
(* server answered something else than "OK": an error or an empty answer   *)
(* to the last packet of a write is reported as a success.                 *)
WriteDone ==
  call.kind = "none" /\ outcome = "S_OK" /\ call.clean /\ call.want <= PacketSize =>
    \E s \in Spaces : Holds(mem, s, call.base, [i \in 1 .. call.want |-> Sent(calls, i)])

(* GdbSrvControllerLib.cpp:1703: "Writes length bytes of memory starting   *)
(* at address XX", here with each packet carried out.                      *)
WriteReported ==
  call.kind = "none" /\ outcome = "S_OK" /\ call.clean =>
    \E s \in Spaces : Holds(mem, s, call.base, [i \in 1 .. call.want |-> Sent(calls, i)])
=============================================================================
