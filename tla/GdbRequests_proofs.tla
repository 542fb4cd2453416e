-------------------------- MODULE GdbRequests_proofs --------------------------
(***************************************************************************)
(* Theorems about the requests to the GDB controller and the resume of all *)
(* cores that hold for every value of the constants: for any number of     *)
(* addresses, of bytes a packet holds, of cores, of calls and of answers   *)
(* that are not what was asked for.                                        *)
(***************************************************************************)
EXTENDS GdbRequests, SequenceTheorems, WellFoundedInduction, TLAPS

-----------------------------------------------------------------------------
(* Memory.  Types: a byte of a memory is the one it began with at its      *)
(* place, or one the debugger sent.                                        *)
SentBytes == {Sent(k, i) : k \in 1 .. MaxCalls, i \in 1 .. MaxBytes}
Bytes == {Initial(s, a) : s \in Spaces, a \in Addresses} \cup SentBytes

Memory(m) ==
  /\ m \in [Spaces -> [Addresses -> Bytes]]
  /\ \A s \in Spaces, a \in Addresses : m[s][a] = Initial(s, a) \/ m[s][a] \in SentBytes

CallRecords ==
  [kind : {"none", "paOn", "read", "paOff", "write"}, type : Types, base : Addresses,
   want : 0 .. MaxBytes, address : 0 .. MaxAddress + 1, size : 0 .. MaxBytes,
   left : 0 .. MaxBytes, clean : BOOLEAN]

DataTypes ==
  /\ Memory(mem) /\ Memory(before)
  /\ mode \in Modes /\ m_lastPSRvalue \in Modes \cup {"none"}
  /\ server \in Servers
  /\ paBy \in {"none", "read", "failed", "user"}
  /\ call \in CallRecords /\ result \in Seq(Bytes)
  /\ outcome \in {"none", "S_OK", "failed"}
  /\ calls \in 0 .. MaxCalls /\ faults \in 0 .. MaxFaults

FlagTypes ==
  /\ throwEnabled \in BOOLEAN /\ serverPA \in BOOLEAN /\ m_IsForcedPAMemoryMode \in BOOLEAN
  /\ m_ConfigPAMemMode \in BOOLEAN /\ unsure \in BOOLEAN

(* A read has come as far as it has read; what is left of it, and of the   *)
(* chunk it is in, fits behind that.                                       *)
Rest == IF call.size = 0 THEN call.left ELSE call.left - Chunk + call.size

ReadInv ==
  /\ call.kind # "none" => InRange(call.base, call.want)
  /\ call.kind = "paOn" =>
       result = <<>> /\ call.address = call.base /\ call.size = 0 /\ call.left = call.want
  /\ call.kind \in {"read", "paOff"} =>
       /\ call.address = call.base + Len(result)
       /\ call.size <= Chunk
       /\ Len(result) + Rest <= call.want
       /\ Holds(mem, Space(call.type), call.base, result)
  /\ Len(result) <= MaxBytes

(* While the flag is set the server of QEMU is in the physical mode, if    *)
(* each answer about it was heard; who has left it so is noted.            *)
ModeInv ==
  /\ server = "qemu" /\ m_ConfigPAMemMode /\ ~unsure => serverPA
  /\ call.kind \in {"paOn", "paOff"} => ConfiguresPA(call.type)
  /\ call.kind \in {"read", "paOff"} /\ ConfiguresPA(call.type) => m_ConfigPAMemMode
  /\ serverPA => \/ paBy \in {"user", "failed"}
                 \/ call.kind \in {"read", "paOff"} /\ ConfiguresPA(call.type)

(* A write has changed its own range of its own space.                     *)
Changed(s) ==
  \A t \in Spaces, a \in Addresses :
    mem[t][a] # before[t][a] => t = s /\ a \in call.base .. call.base + call.want - 1

WriteInv ==
  /\ call.kind \in {"paOn", "read", "paOff"} => mem = before /\ ~call.clean
  /\ call.kind = "write" =>
       /\ Changed(Space(call.type))
       /\ call.left \in 1 .. call.want /\ calls \in 1 .. MaxCalls
       /\ call.want <= PacketSize => call.left = call.want /\ mem = before
  /\ WriteWithin /\ WriteDone

MemoryInv == DataTypes /\ ReadInv /\ ModeInv /\ WriteInv

-----------------------------------------------------------------------------
(* The lesser of two numbers is what a chunk or a piece is.                *)
LEMMA LesserOf ==
  ASSUME NEW m \in Nat, NEW n \in Nat
  PROVE  /\ Min({m, n}) \in {m, n} /\ Min({m, n}) <= m /\ Min({m, n}) <= n
<1> DEFINE least(x) == x \in {m, n} /\ \A y \in {m, n} : x <= y
<1>1. \E x : least(x)
  <2>1. CASE m <= n
    <3>1. least(m)
      BY <2>1
    <3> QED BY <3>1
  <2>2. CASE n <= m
    <3>1. least(n)
      BY <2>2
    <3> QED BY <3>1
  <2> QED BY <2>1, <2>2
<1>2. least(Min({m, n}))
  BY <1>1 DEF Min
<1> QED BY <1>2

(* A packet reaches one of the spaces.                                     *)
LEMMA SpaceReached ==
  ASSUME DataTypes, NEW type \in Types
  PROVE  Space(type) \in Spaces
BY DEF DataTypes, Space, Types, Spaces, Modes

(* The sizes of chunks and pieces.                                         *)
LEMMA ChunkSize ==
  ASSUME call \in CallRecords
  PROVE  /\ call.left \in Nat /\ Chunk \in Nat /\ Chunk <= call.left /\ Piece \in Nat
         /\ Piece <= call.left /\ Piece <= PacketSize
         /\ call.left > 0 => Chunk > 0 /\ Piece > 0
         /\ call.left <= PacketSize => Piece = call.left
<1>1. call.left \in Nat /\ ReadBytes \in Nat \ {0} /\ PacketSize \in Nat \ {0}
  BY GdbMemoryAssumption DEF CallRecords
<1>2. /\ Chunk \in {ReadBytes, call.left} /\ Chunk <= call.left
      /\ Piece \in {PacketSize, call.left} /\ Piece <= PacketSize /\ Piece <= call.left
  BY <1>1, LesserOf DEF Chunk, Piece
<1> QED BY <1>1, <1>2

(* The flags are Boolean, whatever the answers.                            *)
LEMMA MemoryFlags ==
  ASSUME FlagTypes, [Next]_vars
  PROVE  FlagTypes'
<1> USE DEF FlagTypes, config, pa
<1>1. ASSUME NEW kind, NEW type, NEW a, NEW n, Begin(kind, type, a, n) PROVE FlagTypes'
  BY <1>1, Zenon DEF Begin
<1>2. CASE ReadPacket \/ ReadEnds
  BY <1>2, Zenon DEF ReadPacket, ReadEnds
<1>3. CASE SetMode
  BY <1>3, Zenon DEF SetMode, ModeSet, ModeRefused, ModeUnheard
<1>4. CASE ClearMode
  BY <1>4, Zenon DEF ClearMode, ModeSet, ModeRefused, ModeUnheard
<1>5. CASE SetPhysicalReadMemoryMode
  <2>1. (m_IsForcedPAMemoryMode \/ server = "bmc") \in BOOLEAN
    OBVIOUS
  <2> QED BY <1>5, <2>1, Zenon
          DEF SetPhysicalReadMemoryMode, ModeSet, ModeRefused, ModeUnheard
<1>6. CASE WritePacket
  BY <1>6, Zenon DEF WritePacket
<1>7. ASSUME NEW a \in Addresses, ReadMsrRegister(a) \/ WriteMsrRegister(a) PROVE FlagTypes'
  BY <1>7, Zenon DEF ReadMsrRegister, WriteMsrRegister
<1>8. CASE ReadContext \/ TargetRuns
  BY <1>8, Zenon DEF ReadContext, TargetRuns
<1>9. CASE UNCHANGED vars
  BY <1>9, Zenon DEF vars
<1> QED BY <1>1, <1>2, <1>3, <1>4, <1>5, <1>6, <1>7, <1>8, <1>9
        DEF Next, ReadVirtualMemory, ReadPhysicalMemory, IoctlReadMemory, WriteVirtualMemory,
            WritePhysicalMemory

(* A call begins: nothing has been read or written.                        *)
LEMMA CallBegins ==
  ASSUME MemoryInv, NEW kind \in {"paOn", "read", "write"}, NEW type \in Types,
         NEW a \in Addresses, NEW n \in 1 .. MaxBytes, InRange(a, n),
         Begin(kind, type, a, n),
         kind = "paOn" => ConfiguresPA(type),
         kind = "read" /\ ConfiguresPA(type) => m_ConfigPAMemMode
  PROVE  MemoryInv'
<1> USE GdbMemoryAssumption DEF MemoryInv, DataTypes, Begin, config, pa
<1>1. /\ call'.kind = kind /\ call'.type = type /\ call'.base = a /\ call'.want = n
      /\ call'.address = a /\ call'.size = 0 /\ call'.left = n /\ call' \in CallRecords
      /\ kind # "write" => ~call'.clean
  <2> DEFINE isWrite == kind = "write"
  <2>1. isWrite \in BOOLEAN
    OBVIOUS
  <2>2. call' = [kind |-> kind, type |-> type, base |-> a, want |-> n, address |-> a,
                 size |-> 0, left |-> n, clean |-> isWrite]
    OBVIOUS
  <2>3. kind # "write" => ~isWrite
    OBVIOUS
  <2> HIDE DEF isWrite
  <2> QED BY <2>1, <2>2, <2>3 DEF CallRecords, Addresses
<1>2. result' = <<>> /\ Len(result') = 0 /\ result' \in Seq(Bytes)
  OBVIOUS
<1>3. DataTypes'
  BY <1>1, <1>2 DEF Memory
<1>4. ReadInv'
  <2>1. Chunk' \in Nat
    BY <1>1, <1>2, LesserOf DEF Chunk
  <2>2. Rest' = n
    BY <1>1 DEF Rest
  <2>3. Holds(mem, Space(call.type), call.base, result)'
    BY <1>2 DEF Holds
  <2> QED BY <1>1, <1>2, <2>1, <2>2, <2>3 DEF ReadInv, InRange, Addresses
<1>5. ModeInv'
  BY <1>1 DEF ModeInv, ConfiguresPA
<1>6. WriteInv'
  <2>1. mem' = before'
    OBVIOUS
  <2>2. WriteWithin' /\ WriteDone' /\ Changed(Space(call.type))'
    <3>1. "super" \in Spaces
      BY DEF Spaces, Modes
    <3> QED BY <2>1, <3>1 DEF WriteWithin, WriteDone, Changed
  <2> QED BY <1>1, <2>1, <2>2 DEF WriteInv
<1> QED BY <1>3, <1>4, <1>5, <1>6

(* A read that returns, having read what it has.                           *)
LEMMA ReadReturned ==
  ASSUME MemoryInv, call.kind = "read", NEW how \in {"S_OK", "failed"}, ReadReturns(how),
         faults' \in 0 .. MaxFaults,
         UNCHANGED <<config, mem, mode, serverPA, m_IsForcedPAMemoryMode, m_ConfigPAMemMode,
                     unsure, m_lastPSRvalue, result, before, calls>>
  PROVE  MemoryInv'
<1> USE DEF MemoryInv, config, pa
<1>1. CASE how = "S_OK" /\ ConfiguresPA(call.type)
  <2>1. call' = [call EXCEPT !.kind = "paOff"] /\ UNCHANGED <<outcome, paBy>>
    BY <1>1 DEF ReadReturns
  <2>2. /\ call' \in CallRecords /\ call'.kind = "paOff" /\ call'.type = call.type
        /\ call'.base = call.base /\ call'.want = call.want /\ call'.address = call.address
        /\ call'.size = call.size /\ call'.left = call.left /\ call'.clean = call.clean
    BY <2>1 DEF DataTypes, CallRecords
  <2>3. DataTypes'
    BY <2>1, <2>2 DEF DataTypes, Memory
  <2>4. ReadInv'
    <3>1. Chunk' = Chunk /\ Rest' = Rest
      BY <2>2 DEF Chunk, Rest
    <3>2. Holds(mem, Space(call.type), call.base, result)'
      BY <2>2 DEF Holds, Space, ReadInv
    <3> QED BY <2>2, <3>1, <3>2 DEF ReadInv, InRange
  <2>5. ModeInv'
    BY <1>1, <2>1, <2>2 DEF ModeInv, ConfiguresPA
  <2>6. WriteInv'
    BY <2>1, <2>2 DEF WriteInv, WriteWithin, WriteDone
  <2> QED BY <2>3, <2>4, <2>5, <2>6
<1>2. CASE ~(how = "S_OK" /\ ConfiguresPA(call.type))
  <2>1. /\ call' = [call EXCEPT !.kind = "none"] /\ outcome' = how
        /\ paBy' = IF how = "failed" /\ ConfiguresPA(call.type) THEN "failed" ELSE paBy
    BY <1>2 DEF ReadReturns, End
  <2>2. /\ call' \in CallRecords /\ call'.kind = "none" /\ call'.clean = call.clean
        /\ call'.base = call.base /\ call'.want = call.want
    BY <2>1 DEF DataTypes, CallRecords
  <2>3. DataTypes'
    BY <2>1, <2>2 DEF DataTypes, Memory
  <2>4. ReadInv'
    BY <2>2 DEF ReadInv
  <2>5. ModeInv'
    BY <1>2, <2>1, <2>2 DEF ModeInv, ConfiguresPA
  <2>6. WriteInv'
    BY <2>2 DEF WriteInv, WriteWithin, WriteDone
  <2> QED BY <2>3, <2>4, <2>5, <2>6
<1> QED BY <1>1, <1>2

(* A packet's answer lengthens what was read by the bytes that lie next.   *)
LEMMA ReadLengthens ==
  ASSUME DataTypes, ReadInv, call.kind = "read", NEW n \in Nat, n <= Rest,
         NEW s \in Spaces, s = Space(call.type)
  PROVE  LET more == result \o [i \in 1 .. n |-> mem[s][call.address + i - 1]]
         IN /\ more \in Seq(Bytes) /\ Len(more) = Len(result) + n
            /\ Holds(mem, s, call.base, more)
<1> DEFINE got == [i \in 1 .. n |-> mem[s][call.address + i - 1]]
<1>1. /\ call.address = call.base + Len(result) /\ Len(result) \in Nat
      /\ Len(result) + Rest <= call.want /\ call.base + call.want <= MaxAddress + 1
      /\ call.base \in Nat /\ call.want \in Nat /\ Rest \in Int /\ MaxAddress \in Nat
      /\ Holds(mem, s, call.base, result)
  BY ChunkSize, GdbMemoryAssumption
     DEF DataTypes, ReadInv, CallRecords, InRange, Addresses, Rest
<1>2. \A i \in 1 .. n : call.address + i - 1 \in Addresses
  BY <1>1 DEF Addresses
<1>3. got \in Seq(Bytes) /\ Len(got) = n /\ \A i \in 1 .. n : got[i] = mem[s][call.address + i - 1]
  <2>1. \A i \in 1 .. n : mem[s][call.address + i - 1] \in Bytes
    BY <1>2 DEF DataTypes, Memory
  <2> QED BY <2>1
<1> HIDE DEF got
<1>4. /\ result \o got \in Seq(Bytes) /\ Len(result \o got) = Len(result) + n
      /\ \A i \in 1 .. Len(result) + n :
           (result \o got)[i] = IF i <= Len(result) THEN result[i] ELSE got[i - Len(result)]
  BY <1>3, ConcatProperties DEF DataTypes
<1>5. Holds(mem, s, call.base, result \o got)
  <2> SUFFICES ASSUME NEW i \in 1 .. Len(result) + n
               PROVE  mem[s][call.base + i - 1] = (result \o got)[i]
    BY <1>4 DEF Holds
  <2>1. CASE i <= Len(result)
    BY <1>1, <1>4, <2>1 DEF Holds
  <2>2. CASE ~(i <= Len(result))
    <3>1. /\ i - Len(result) \in 1 .. n
          /\ call.address + (i - Len(result)) - 1 = call.base + i - 1
      BY <1>1, <2>2
    <3>2. (result \o got)[i] = got[i - Len(result)]
      BY <1>1, <1>4, <2>2
    <3>3. got[i - Len(result)] = mem[s][call.address + (i - Len(result)) - 1]
      BY <1>3, <3>1
    <3> QED BY <1>1, <3>1, <3>2, <3>3
  <2> QED BY <1>1, <2>1, <2>2
<1> QED BY <1>4, <1>5 DEF got

(* The loop goes on with what is left of the chunk, or with the next one.  *)
GoesOn(n, rest) ==
  /\ call' = [call EXCEPT !.address = Advanced(n), !.size = rest,
                          !.left = IF rest = 0 THEN @ - Chunk ELSE @]
  /\ \/ result' = result \o [i \in 1 .. n |-> mem[Space(call.type)][call.address + i - 1]]
     \/ n = 0 /\ result' = result
  /\ faults' \in 0 .. MaxFaults
  /\ UNCHANGED <<config, mem, mode, serverPA, m_IsForcedPAMemoryMode, m_ConfigPAMemMode,
                 unsure, m_lastPSRvalue, before, calls, outcome, paBy>>

(* A call that goes on is a call still.                                    *)
LEMMA CallGoesOn ==
  ASSUME NEW c \in CallRecords, NEW address \in 0 .. MaxAddress + 1,
         NEW size \in 0 .. MaxBytes, NEW left \in 0 .. MaxBytes
  PROVE  [c EXCEPT !.address = address, !.size = size, !.left = left] \in CallRecords
BY DEF CallRecords

(* Then what was read and what is left of it still fit the range.          *)
LEMMA ReadGoesOn ==
  ASSUME MemoryInv, call.kind = "read", call.left > 0, NEW n \in Nat, NEW rest \in Nat,
         n + rest <= (IF call.size = 0 THEN Chunk ELSE call.size), GoesOn(n, rest)
  PROVE  MemoryInv'
<1>1. call \in CallRecords /\ Len(result) \in Nat /\ result \in Seq(Bytes)
  BY DEF MemoryInv, DataTypes
<1>2. /\ Chunk \in Nat /\ Chunk <= call.left /\ Chunk > 0 /\ call.left \in Nat
      /\ call.size \in Nat /\ call.size <= Chunk /\ Rest \in Nat
      /\ n + rest + (call.left - Chunk) <= Rest /\ n <= Rest
  <2>1. /\ Chunk \in Nat /\ Chunk <= call.left /\ Chunk > 0 /\ call.left \in Nat
        /\ call.size \in Nat /\ call.size <= Chunk
    BY <1>1, ChunkSize DEF MemoryInv, ReadInv, CallRecords
  <2>2. CASE call.size = 0
    <3>1. Rest = call.left
      BY <2>2 DEF Rest
    <3> QED BY <2>1, <2>2, <3>1
  <2>3. CASE call.size # 0
    <3>1. Rest = call.left - Chunk + call.size
      BY <2>3 DEF Rest
    <3> QED BY <2>1, <2>3, <3>1
  <2> QED BY <2>2, <2>3
<1>3. Space(call.type) \in Spaces
  BY <1>1, SpaceReached DEF MemoryInv, CallRecords
<1>4. /\ result' \in Seq(Bytes) /\ Len(result') = Len(result) + n
      /\ Holds(mem, Space(call.type), call.base, result')
  <2>1. CASE n = 0 /\ result' = result
    BY <1>1, <2>1 DEF MemoryInv, ReadInv
  <2>2. CASE result' = result \o [i \in 1 .. n |-> mem[Space(call.type)][call.address + i - 1]]
    BY <1>2, <1>3, <2>2, ReadLengthens DEF MemoryInv
  <2> QED BY <2>1, <2>2 DEF GoesOn
<1>5. /\ call.address = call.base + Len(result) /\ Len(result) + Rest <= call.want
      /\ call.base + call.want <= MaxAddress + 1 /\ call.base \in Nat /\ call.want \in Nat
      /\ call.want <= MaxBytes /\ MaxBytes \in Nat /\ MaxAddress \in Nat
  BY <1>1, GdbMemoryAssumption DEF MemoryInv, ReadInv, CallRecords, InRange, Addresses
<1>6. /\ call.base + Len(result) + n \in 0 .. MaxAddress + 1 /\ rest \in 0 .. MaxBytes
      /\ call.left - Chunk \in 0 .. MaxBytes
      /\ Len(result) + n + (call.left - Chunk) <= call.want
      /\ Len(result) + n + (call.left - Chunk + rest) <= call.want
      /\ Len(result) + n <= MaxBytes
  <2> DEFINE length == Len(result)  all == Rest  chunk == Chunk
             base == call.base  left == call.left  want == call.want
  <2>1. /\ length \in Nat /\ all \in Nat /\ chunk \in Nat /\ base \in Nat /\ left \in Nat
        /\ want \in Nat /\ MaxBytes \in Nat /\ MaxAddress \in Nat
        /\ chunk <= left /\ left <= MaxBytes /\ n + rest + (left - chunk) <= all
        /\ length + all <= want /\ base + want <= MaxAddress + 1 /\ want <= MaxBytes
    BY <1>1, <1>2, <1>5 DEF CallRecords
  <2> HIDE DEF length, all, chunk, base, left, want
  <2>2. /\ base + length + n \in 0 .. MaxAddress + 1 /\ rest \in 0 .. MaxBytes
        /\ left - chunk \in 0 .. MaxBytes
        /\ length + n + (left - chunk) <= want
        /\ length + n + (left - chunk + rest) <= want
        /\ length + n <= MaxBytes
    BY <2>1
  <2> QED BY <2>2 DEF length, all, chunk, base, left, want
<1>7. /\ call'.kind = "read" /\ call'.type = call.type /\ call'.base = call.base
      /\ call'.want = call.want /\ call'.address = call.address + n /\ call'.size = rest
      /\ call'.left = IF rest = 0 THEN call.left - Chunk ELSE call.left
      /\ call'.clean = call.clean
  BY <1>1 DEF GoesOn, CallRecords, Advanced
<1>8. call' \in CallRecords
  <2>1. call'.left \in 0 .. MaxBytes
    BY <1>1, <1>6, <1>7 DEF CallRecords
  <2>2. call' = [call EXCEPT !.address = call'.address, !.size = rest, !.left = call'.left]
    BY <1>1, <1>7 DEF GoesOn, CallRecords
  <2>3. call'.address = call.base + Len(result) + n
    BY <1>5, <1>7
  <2>4. call'.address \in 0 .. MaxAddress + 1 /\ rest \in 0 .. MaxBytes
    BY <1>6, <2>3
  <2> DEFINE address == call'.address
             left == call'.left
  <2>5. call' = [call EXCEPT !.address = address, !.size = rest, !.left = left]
    BY <2>2
  <2>6. address \in 0 .. MaxAddress + 1 /\ rest \in 0 .. MaxBytes /\ left \in 0 .. MaxBytes
    BY <2>1, <2>4
  <2> HIDE DEF address, left
  <2> QED BY <1>1, <2>5, <2>6, CallGoesOn
<1>9. DataTypes'
  BY <1>4, <1>8 DEF MemoryInv, GoesOn, config, DataTypes, Memory
<1>10. ReadInv'
  <2>1. Len(result') + Rest' <= call'.want /\ call'.size <= Chunk'
    <3>1. CASE rest = 0
      <4>1. call'.left \in Nat
        BY <1>5, <1>6, <1>7, <3>1
      <4>2. Chunk' \in Nat
        BY <4>1, LesserOf, GdbMemoryAssumption DEF Chunk
      <4>3. Rest' = call.left - Chunk
        BY <1>7, <3>1 DEF Rest
      <4> QED BY <1>4, <1>6, <1>7, <3>1, <4>2, <4>3
    <3>2. CASE rest # 0
      <4>1. Chunk' = Chunk
        BY <1>7, <3>2 DEF Chunk
      <4>2. Rest' = call.left - Chunk + rest
        BY <1>7, <3>2, <4>1 DEF Rest
      <4>3. rest <= Chunk
        BY <1>2
      <4> QED BY <1>4, <1>6, <1>7, <3>2, <4>1, <4>2, <4>3
    <3> QED BY <3>1, <3>2
  <2>2. Holds(mem, Space(call.type), call.base, result)'
    BY <1>4, <1>7 DEF GoesOn, config, Holds, Space
  <2>3. Len(result') <= MaxBytes /\ call'.address = call'.base + Len(result')
    BY <1>1, <1>4, <1>5, <1>6, <1>7
  <2> QED BY <1>5, <1>7, <2>1, <2>2, <2>3 DEF ReadInv, InRange
<1>11. ModeInv'
  BY <1>7 DEF MemoryInv, GoesOn, config, ModeInv, ConfiguresPA
<1>12. WriteInv'
  <2>1. mem = before /\ ~call.clean /\ call.kind = "read"
    BY DEF MemoryInv, WriteInv
  <2>2. mem' = before' /\ ~call'.clean
    BY <1>7, <2>1 DEF GoesOn
  <2>3. WriteWithin'
    BY <1>3, <2>2 DEF WriteWithin
  <2> QED BY <1>7, <2>2, <2>3 DEF WriteInv, WriteDone
<1> QED BY <1>9, <1>10, <1>11, <1>12 DEF MemoryInv

(* Each answer to a packet of a read.                                      *)
LEMMA PacketRead ==
  ASSUME MemoryInv, ReadPacket
  PROVE  MemoryInv'
<1> DEFINE size == IF call.size = 0 THEN Chunk ELSE call.size
<1>1. /\ call \in CallRecords /\ call.kind = "read" /\ call.left > 0
      /\ faults \in 0 .. MaxFaults /\ MaxFaults \in Nat
      /\ UNCHANGED <<config, mem, mode, serverPA, m_IsForcedPAMemoryMode, m_ConfigPAMemMode,
                     unsure, m_lastPSRvalue, before, calls>>
  BY GdbMemoryAssumption DEF MemoryInv, DataTypes, ReadPacket
<1>2. Fault \/ NoFault => faults' \in 0 .. MaxFaults
  BY <1>1 DEF Fault, NoFault
<1>3. size \in Nat /\ size > 0
  BY <1>1, ChunkSize DEF CallRecords
<1>4. ASSUME NEW n \in 1 .. size, IF n = size THEN NoFault ELSE Fault,
             result' = result \o [i \in 1 .. n |-> mem[Space(call.type)][call.address + i - 1]],
             call' = [call EXCEPT !.address = Advanced(n), !.size = size - n,
                                  !.left = IF size - n = 0 THEN @ - Chunk ELSE @],
             UNCHANGED <<outcome, paBy>>
      PROVE  MemoryInv'
  <2>1. n \in Nat /\ size - n \in Nat /\ n + (size - n) <= size
    BY <1>3
  <2>2. GoesOn(n, size - n)
    BY <1>1, <1>2, <1>4 DEF GoesOn
  <2> HIDE DEF size
  <2>3. n + (size - n) <= (IF call.size = 0 THEN Chunk ELSE call.size)
    BY <2>1 DEF size
  <2> QED BY <1>1, <2>1, <2>2, <2>3, ReadGoesOn
<1>5. ASSUME Fault, call' = [call EXCEPT !.address = Advanced(0), !.size = 0,
                                         !.left = IF 0 = 0 THEN @ - Chunk ELSE @],
             UNCHANGED <<result, outcome, paBy>>
      PROVE  MemoryInv'
  <2>1. GoesOn(0, 0)
    BY <1>1, <1>2, <1>5 DEF GoesOn
  <2> QED BY <1>1, <1>3, <2>1, ReadGoesOn
<1>6. ASSUME NEW how \in {"S_OK", "failed"}, Fault, ReadReturns(how), UNCHANGED result
      PROVE  MemoryInv'
  BY <1>1, <1>2, <1>6, ReadReturned
<1> QED BY <1>4, <1>5, <1>6 DEF ReadPacket

(* The mode of the server is asked for, the read begins or the call fails. *)
LEMMA ModeAsked ==
  ASSUME MemoryInv, FlagTypes, SetMode \/ ClearMode
  PROVE  MemoryInv'
<1>1. /\ call \in CallRecords /\ call.kind \in {"paOn", "paOff"} /\ ConfiguresPA(call.type)
      /\ faults \in 0 .. MaxFaults /\ MaxFaults \in Nat /\ server = "qemu" /\ mem = before
      /\ ~call.clean
      /\ UNCHANGED <<config, mem, mode, m_lastPSRvalue, result, before, calls>>
      /\ InRange(call.base, call.want) /\ Len(result) <= MaxBytes
  BY GdbMemoryAssumption DEF MemoryInv, DataTypes, ModeInv, WriteInv, ReadInv, SetMode, ClearMode,
     ConfiguresPA
<1>2. Fault \/ NoFault => faults' \in 0 .. MaxFaults
  BY <1>1 DEF Fault, NoFault
<1>3. /\ faults' \in 0 .. MaxFaults
      /\ \/ /\ call.kind = "paOn" /\ call' = [call EXCEPT !.kind = "read"]
            /\ m_ConfigPAMemMode' = TRUE /\ UNCHANGED outcome
         \/ call' = [call EXCEPT !.kind = "none"] /\ outcome' \in {"S_OK", "failed"}
      /\ paBy' \in {paBy, "read", "failed", "none"}
  BY <1>2 DEF SetMode, ClearMode, ModeSet, ModeRefused, ModeUnheard, End
<1>4. /\ call' \in CallRecords /\ call'.type = call.type /\ call'.base = call.base
      /\ call'.want = call.want /\ call'.address = call.address /\ call'.size = call.size
      /\ call'.left = call.left /\ call'.clean = call.clean
      /\ \/ call'.kind = "none"
         \/ call'.kind = "read" /\ call.kind = "paOn" /\ m_ConfigPAMemMode' = TRUE
  <2>1. CASE call' = [call EXCEPT !.kind = "none"]
    BY <1>1, <2>1 DEF CallRecords
  <2>2. CASE /\ call.kind = "paOn" /\ call' = [call EXCEPT !.kind = "read"]
             /\ m_ConfigPAMemMode' = TRUE
    BY <1>1, <2>2 DEF CallRecords
  <2> QED BY <1>3, <2>1, <2>2
<1>5. DataTypes'
  BY <1>1, <1>3, <1>4 DEF MemoryInv, DataTypes, config, Memory
<1>6. ReadInv'
  <2>1. CASE call'.kind = "none"
    BY <1>1, <2>1 DEF ReadInv
  <2>2. CASE call'.kind = "read" /\ call.kind = "paOn"
    <3>1. /\ result' = <<>> /\ Len(result') = 0 /\ call'.address = call'.base
          /\ call'.size = 0 /\ call'.left = call'.want
      BY <1>1, <1>4, <2>2 DEF MemoryInv, ReadInv
    <3>2. Rest' = call'.want /\ Chunk' \in Nat
      BY <1>4, <3>1, LesserOf, GdbMemoryAssumption DEF Rest, Chunk, CallRecords
    <3>3. Holds(mem, Space(call.type), call.base, result)'
      BY <3>1 DEF Holds
    <3> QED BY <1>1, <1>4, <2>2, <3>1, <3>2, <3>3, GdbMemoryAssumption
            DEF ReadInv, InRange, CallRecords, Addresses
  <2> QED BY <1>4, <2>1, <2>2
<1>7. ModeInv'
  <2>1. ConfiguresPA(call.type)' /\ server' = server
    BY <1>1, <1>4 DEF ConfiguresPA, config
  <2>2. (m_ConfigPAMemMode' /\ ~unsure' => serverPA')
    <3>1. m_ConfigPAMemMode /\ ~unsure => serverPA
      BY <1>1 DEF MemoryInv, ModeInv
    <3>2. CASE ModeSet(TRUE) /\ m_ConfigPAMemMode' = TRUE
      BY <3>2 DEF ModeSet
    <3>3. CASE ModeSet(FALSE) /\ m_ConfigPAMemMode' = FALSE
      BY <3>3
    <3>4. CASE (ModeRefused \/ ModeUnheard(TRUE) \/ ModeUnheard(FALSE))
               /\ UNCHANGED m_ConfigPAMemMode
      <4>1. unsure' \/ (serverPA' = serverPA /\ unsure' = unsure)
        BY <3>4 DEF ModeRefused, ModeUnheard
      <4> QED BY <3>1, <3>4, <4>1
    <3> QED BY <3>2, <3>3, <3>4, Zenon DEF SetMode, ClearMode
  <2>3. serverPA' => \/ paBy' \in {"user", "failed"} \/ call'.kind \in {"read", "paOff"}
    <3>1. CASE SetMode
      <4>1. call.kind = "paOn"
        BY <3>1 DEF SetMode
      <4>2. serverPA => paBy \in {"user", "failed"}
        BY <4>1 DEF MemoryInv, ModeInv
      <4> QED BY <1>4, <3>1, <4>2 DEF SetMode, ModeRefused, CallRecords
    <3>2. CASE ClearMode
      BY <3>2 DEF ClearMode, ModeSet
    <3> QED BY <3>1, <3>2
  <2>4. call'.kind = "read" => m_ConfigPAMemMode'
    BY <1>4
  <2> QED BY <1>4, <2>1, <2>2, <2>3, <2>4 DEF ModeInv
<1>8. WriteInv'
  <2>1. WriteWithin' /\ WriteDone'
    <3>1. "super" \in Spaces
      BY DEF Spaces, Modes
    <3> QED BY <1>1, <1>4, <3>1 DEF WriteWithin, WriteDone
  <2> QED BY <1>1, <1>4, <2>1 DEF WriteInv
<1> QED BY <1>5, <1>6, <1>7, <1>8 DEF MemoryInv

(* Between two calls nothing is under way; a step that leaves the memory as*)
(* it was at the begin of its call keeps what the calls promise.           *)
LEMMA NothingWritten ==
  ASSUME call'.kind = "none", ~call'.clean, mem' = before', Len(result') <= MaxBytes
  PROVE  ReadInv' /\ WriteInv'
<1>1. "super" \in Spaces
  BY DEF Spaces, Modes
<1> QED BY <1>1 DEF ReadInv, WriteInv, WriteWithin, WriteDone

(* The user asks for the physical mode.                                    *)
LEMMA ModeOfUser ==
  ASSUME MemoryInv, SetPhysicalReadMemoryMode
  PROVE  MemoryInv'
<1>1. /\ call' = NoCall /\ result' = <<>> /\ before' = mem /\ call.kind = "none"
      /\ UNCHANGED <<config, mem, mode, m_ConfigPAMemMode, m_lastPSRvalue>>
  BY DEF SetPhysicalReadMemoryMode
<1>2. /\ faults \in 0 .. MaxFaults /\ calls \in 0 .. MaxCalls /\ MaxFaults \in Nat
      /\ MaxCalls \in Nat /\ MaxBytes \in Nat /\ MaxAddress \in Nat
      /\ server = "qemu" /\ m_ConfigPAMemMode /\ ~unsure => serverPA
      /\ serverPA => paBy \in {"user", "failed"}
  BY <1>1, GdbMemoryAssumption DEF MemoryInv, DataTypes, ModeInv
<1>3. /\ NoCall \in CallRecords /\ NoCall.kind = "none" /\ ~NoCall.clean
      /\ Len(<<>>) = 0 /\ <<>> \in Seq(Bytes)
  BY <1>2 DEF NoCall, CallRecords, Types, Addresses
<1>4. /\ faults' \in 0 .. MaxFaults /\ calls' \in 0 .. MaxCalls
      /\ outcome' \in {"S_OK", "failed"} /\ paBy' \in {paBy, "user"}
  <2>1. Fault \/ NoFault => faults' \in 0 .. MaxFaults
    BY <1>2 DEF Fault, NoFault
  <2>2. calls' \in 0 .. MaxCalls
    BY <1>2 DEF SetPhysicalReadMemoryMode
  <2> QED BY <2>1, <2>2 DEF SetPhysicalReadMemoryMode, ModeSet, ModeRefused, ModeUnheard
<1>5. DataTypes'
  BY <1>1, <1>3, <1>4 DEF MemoryInv, DataTypes, config, Memory
<1>6. ReadInv' /\ WriteInv'
  BY <1>1, <1>2, <1>3, NothingWritten
<1>7. ModeInv'
  <2>1. CASE ModeSet(TRUE) /\ paBy' = "user"
    BY <1>1, <1>3, <2>1 DEF ModeSet, ModeInv, config
  <2>2. CASE ModeRefused /\ paBy' = paBy
    BY <1>1, <1>2, <1>3, <2>2 DEF ModeRefused, ModeInv, config
  <2>3. CASE ModeUnheard(TRUE) /\ paBy' = "user"
    BY <1>1, <1>3, <2>3 DEF ModeUnheard, ModeInv, config
  <2> QED BY <2>1, <2>2, <2>3 DEF SetPhysicalReadMemoryMode
<1> QED BY <1>5, <1>6, <1>7 DEF MemoryInv

(* The bytes of one packet of a write.                                     *)
LEMMA BytesWritten ==
  ASSUME MemoryInv, call.kind = "write", NEW n \in 0 .. Piece
  PROVE  /\ Memory(Written(n))
         /\ mem' = Written(n) /\ UNCHANGED <<before, server, serverPA, mode>>
              /\ call'.base = call.base /\ call'.want = call.want /\ call'.type = call.type
            => Changed(Space(call.type))'
         /\ call.left = call.want /\ n = call.want =>
              Holds(Written(n), Space(call.type), call.base,
                    [i \in 1 .. call.want |-> Sent(calls, i)])
<1> DEFINE s == Space(call.type)
           done == call.want - call.left
           w == Written(n)
<1>1. /\ call \in CallRecords /\ call.left \in 1 .. call.want /\ calls \in 1 .. MaxCalls
      /\ Memory(mem) /\ Changed(s) /\ s \in Spaces
  <2>1. call \in CallRecords /\ call.type \in Types /\ DataTypes
    BY DEF MemoryInv, DataTypes, CallRecords
  <2> QED BY <2>1, SpaceReached DEF MemoryInv, DataTypes, WriteInv
<1>2. /\ call.want \in 0 .. MaxBytes /\ MaxBytes \in Nat /\ call.left \in Nat /\ MaxAddress \in Nat
      /\ n \in Nat /\ n <= call.left /\ call.base \in Nat /\ done \in Nat
      /\ call.base + call.want <= MaxAddress + 1
  BY <1>1, ChunkSize, GdbMemoryAssumption
     DEF CallRecords, MemoryInv, ReadInv, InRange, Addresses
<1>3. \A t \in Spaces, a \in Addresses :
        w[t][a] = IF t = s /\ a \in call.base .. call.base + n - 1
                  THEN Sent(calls, done + a - call.base + 1) ELSE mem[t][a]
  BY <1>1 DEF Written, Memory
<1>4. \A a \in Addresses : a \in call.base .. call.base + n - 1 =>
        /\ done + a - call.base + 1 \in 1 .. MaxBytes
        /\ a \in call.base .. call.base + call.want - 1
  BY <1>1, <1>2 DEF Addresses
<1>5. \A a \in Addresses : a \in call.base .. call.base + n - 1 =>
        Sent(calls, done + a - call.base + 1) \in SentBytes
  BY <1>1, <1>4 DEF SentBytes
<1>6. w = [t \in Spaces |-> IF t = s
             THEN [a \in Addresses |-> IF a \in call.base .. call.base + n - 1
                                       THEN Sent(calls, done + a - call.base + 1) ELSE mem[s][a]]
             ELSE mem[t]]
  BY <1>1 DEF Written, Memory
<1> HIDE DEF w, done, s
<1>7. Memory(w)
  <2>1. \A t \in Spaces, a \in Addresses :
          /\ w[t][a] \in Bytes
          /\ w[t][a] = Initial(t, a) \/ w[t][a] \in SentBytes
    <3>1. SentBytes \subseteq Bytes
      BY DEF Bytes
    <3> QED BY <1>1, <1>3, <1>5, <3>1 DEF Memory
  <2>2. w \in [Spaces -> [Addresses -> Bytes]]
    BY <1>1, <1>3, <1>6, <2>1 DEF Memory
  <2> QED BY <2>1, <2>2 DEF Memory
<1>8. ASSUME mem' = w, UNCHANGED <<before, server, serverPA, mode>>,
             call'.base = call.base, call'.want = call.want, call'.type = call.type
      PROVE  Changed(Space(call.type))'
  <2>1. Space(call.type)' = s
    BY <1>8 DEF Space, s
  <2> QED BY <1>1, <1>3, <1>4, <1>8, <2>1 DEF Changed
<1>9. ASSUME call.left = call.want, n = call.want
      PROVE  Holds(w, s, call.base, [i \in 1 .. call.want |-> Sent(calls, i)])
  <2>1. done = 0
    BY <1>2, <1>9 DEF done
  <2>2. ASSUME NEW i \in 1 .. call.want
        PROVE  w[s][call.base + i - 1] = Sent(calls, i)
    <3>1. /\ call.base + i - 1 \in Addresses
          /\ call.base + i - 1 \in call.base .. call.base + n - 1
          /\ done + (call.base + i - 1) - call.base + 1 = i
      BY <1>2, <1>9, <2>1 DEF Addresses
    <3> QED BY <1>1, <1>3, <3>1
  <2> QED BY <1>2, <2>2 DEF Holds
<1> QED BY <1>7, <1>8, <1>9 DEF w, s

(* Each answer to a packet of a write.                                     *)
LEMMA PacketWritten ==
  ASSUME MemoryInv, WritePacket
  PROVE  MemoryInv'
<1>1. /\ call \in CallRecords /\ call.kind = "write" /\ call.left \in 1 .. call.want
      /\ faults \in 0 .. MaxFaults /\ MaxFaults \in Nat /\ MaxBytes \in Nat
      /\ call.want \in 0 .. MaxBytes /\ calls \in 1 .. MaxCalls
      /\ Memory(mem) /\ Changed(Space(call.type))
      /\ call.want <= PacketSize => call.left = call.want /\ mem = before
      /\ UNCHANGED <<config, mode, pa, m_lastPSRvalue, result, before, calls>>
      /\ InRange(call.base, call.want) /\ Len(result) <= MaxBytes
      /\ Space(call.type) \in Spaces
  <2>1. call \in CallRecords /\ call.type \in Types /\ DataTypes /\ call.kind = "write"
    BY DEF MemoryInv, DataTypes, CallRecords, WritePacket
  <2> QED BY <2>1, SpaceReached, GdbMemoryAssumption
          DEF MemoryInv, DataTypes, WriteInv, ReadInv, WritePacket, CallRecords
<1>2. /\ Piece \in Nat /\ Piece <= call.left /\ Piece > 0 /\ call.left \in Nat
      /\ call.left <= PacketSize => Piece = call.left
  BY <1>1, ChunkSize
<1>3. Fault \/ NoFault => faults' \in 0 .. MaxFaults
  BY <1>1 DEF Fault, NoFault
<1>4. /\ faults' \in 0 .. MaxFaults /\ outcome' \in {outcome, "S_OK", "failed"}
      /\ mem' = mem \/ \E n \in 0 .. Piece : mem' = Written(n)
  BY <1>2, <1>3 DEF WritePacket, PacketAccepted, End
<1>5. /\ call'.kind \in {"write", "none"} /\ call'.type = call.type /\ call'.base = call.base
      /\ call'.want = call.want
      /\ call'.kind = "write" => Piece # call.left /\ call'.left = call.left - Piece
      /\ call'.kind = "none" /\ outcome' = "S_OK" /\ call'.clean =>
           mem' = Written(Piece) /\ Piece = call.left
      /\ call' \in CallRecords
  <2>1. ASSUME NEW whole \in BOOLEAN, PacketAccepted(whole)
        PROVE  /\ call'.kind = IF Piece = call.left THEN "none" ELSE "write"
               /\ call'.type = call.type /\ call'.base = call.base /\ call'.want = call.want
               /\ Piece # call.left => call'.left = call.left - Piece
               /\ call'.clean = whole /\ call' \in CallRecords
    <3>1. CASE Piece = call.left
      BY <1>1, <2>1, <3>1 DEF CallRecords, PacketAccepted
    <3>2. CASE Piece # call.left
      <4>1. call.left - Piece \in 0 .. MaxBytes
        BY <1>1, <1>2
      <4> QED BY <1>1, <2>1, <3>2, <4>1 DEF CallRecords, PacketAccepted
    <3> QED BY <3>1, <3>2
  <2>2. CASE PacketAccepted(call.clean) /\ mem' = Written(Piece)
    <3>1. call.clean \in BOOLEAN
      BY <1>1 DEF CallRecords
    <3> QED BY <2>1, <2>2, <3>1
  <2>3. CASE PacketAccepted(FALSE)
    BY <2>1, <2>3
  <2>4. CASE call' = [call EXCEPT !.kind = "none", !.clean = FALSE]
    BY <1>1, <2>4 DEF CallRecords
  <2>5. CASE End("failed")
    BY <1>1, <2>5 DEF CallRecords, End
  <2> QED BY <2>2, <2>3, <2>4, <2>5 DEF WritePacket
<1>6. Memory(mem') /\ Changed(Space(call.type))'
  <2>1. CASE mem' = mem
    BY <1>1, <1>5, <2>1 DEF Changed, Space, config, pa
  <2>2. CASE \E n \in 0 .. Piece : mem' = Written(n)
    BY <1>1, <1>5, <2>2, BytesWritten DEF config, pa
  <2> QED BY <1>4, <2>1, <2>2
<1>7. DataTypes'
  BY <1>1, <1>4, <1>5, <1>6 DEF MemoryInv, DataTypes, config, pa, Memory
<1>8. ReadInv'
  BY <1>1, <1>5 DEF ReadInv, InRange
<1>9. ModeInv'
  BY <1>1, <1>5 DEF MemoryInv, ModeInv, config, pa
<1>10. WriteInv'
  <2>1. WriteWithin'
    <3>1. Space(call.type)' \in Spaces
      BY <1>1, <1>5 DEF Space, config, pa
    <3> QED BY <1>6, <3>1 DEF Changed, WriteWithin
  <2>2. call'.kind = "write" =>
          /\ call'.left \in 1 .. call'.want
          /\ call'.want <= PacketSize => call'.left = call'.want /\ mem' = before'
    BY <1>1, <1>2, <1>5, GdbMemoryAssumption
  <2>3. WriteDone'
    <3> SUFFICES ASSUME call'.kind = "none", outcome' = "S_OK", call'.clean,
                        call'.want <= PacketSize
                 PROVE  \E s \in Spaces :
                          Holds(mem', s, call.base, [i \in 1 .. call.want |-> Sent(calls, i)])
      BY <1>1, <1>5 DEF WriteDone
    <3>1. mem' = Written(Piece) /\ Piece = call.left /\ call.left = call.want
      BY <1>1, <1>5
    <3>2. Holds(Written(Piece), Space(call.type), call.base,
                [i \in 1 .. call.want |-> Sent(calls, i)])
      BY <1>1, <1>2, <3>1, BytesWritten
    <3> QED BY <1>1, <3>1, <3>2
  <2> QED BY <1>1, <1>5, <1>6, <2>1, <2>2, <2>3 DEF WriteInv
<1> QED BY <1>7, <1>8, <1>9, <1>10 DEF MemoryInv

(* System registers, which are of the memory of their own space.           *)
LEMMA RegisterRead ==
  ASSUME MemoryInv, NEW a \in Addresses, ReadMsrRegister(a)
  PROVE  MemoryInv'
<1>1. /\ call' = NoCall /\ before' = mem /\ call.kind = "none"
      /\ UNCHANGED <<config, mem, mode, pa, m_lastPSRvalue>>
      /\ result' \in {<<>>, <<mem["special"][a]>>} /\ outcome' \in {"S_OK", "failed"}
  BY DEF ReadMsrRegister
<1>2. /\ faults \in 0 .. MaxFaults /\ calls \in 0 .. MaxCalls /\ MaxFaults \in Nat
      /\ MaxCalls \in Nat /\ MaxBytes \in Nat \ {0} /\ MaxAddress \in Nat
  BY GdbMemoryAssumption DEF MemoryInv, DataTypes
<1>3. NoCall \in CallRecords /\ NoCall.kind = "none" /\ ~NoCall.clean
  BY <1>2 DEF NoCall, CallRecords, Types, Addresses
<1>4. faults' \in 0 .. MaxFaults /\ calls' \in 0 .. MaxCalls
  BY <1>2 DEF ReadMsrRegister, Fault, NoFault
<1>5. result' \in Seq(Bytes) /\ Len(result') <= MaxBytes
  <2>1. mem["special"][a] \in Bytes
    BY DEF MemoryInv, DataTypes, Memory, Spaces
  <2> DEFINE byte == mem["special"][a]
  <2>2. byte \in Bytes
    BY <2>1
  <2>3. <<byte>> \in Seq(Bytes) /\ Len(<<byte>>) = 1 /\ <<>> \in Seq(Bytes) /\ Len(<<>>) = 0
    <3> HIDE DEF byte
    <3> QED BY <2>2
  <2>4. CASE result' = <<>>
    BY <1>2, <2>3, <2>4
  <2>5. CASE result' = <<byte>>
    BY <1>2, <2>3, <2>5
  <2> QED BY <1>1, <2>4, <2>5
<1>6. DataTypes'
  <2>1. Memory(mem') /\ Memory(before')
    BY <1>1 DEF MemoryInv, DataTypes
  <2>2. UNCHANGED <<server, throwEnabled, mode, m_lastPSRvalue, paBy>>
    BY <1>1 DEF config, pa
  <2>3. outcome' \in {"none", "S_OK", "failed"}
    BY <1>1
  <2>4. call' \in CallRecords
    BY <1>1, <1>3
  <2> QED BY <1>4, <1>5, <2>1, <2>2, <2>3, <2>4 DEF MemoryInv, DataTypes
<1>7. ReadInv' /\ WriteInv'
  BY <1>1, <1>3, <1>5, NothingWritten
<1>8. ModeInv'
  BY <1>1, <1>3 DEF MemoryInv, ModeInv, config, pa
<1> QED BY <1>6, <1>7, <1>8 DEF MemoryInv

(* A system register is written, or not, and nothing else.                 *)
LEMMA RegisterWritten ==
  ASSUME MemoryInv, NEW a \in Addresses, WriteMsrRegister(a)
  PROVE  MemoryInv'
<1> DEFINE byte == Sent(calls + 1, 1)
           written == [mem EXCEPT !["special"][a] = byte]
<1> DEFINE asked == Handler = "QueryRegCmd"
<1>1. /\ call' = [NoCall EXCEPT !.type = "special", !.base = a, !.address = a, !.want = 1,
                                !.clean = asked]
      /\ asked /\ outcome' = "S_OK" => mem' = written
      /\ before' = mem /\ call.kind = "none" /\ result' = <<>> /\ calls' = calls + 1
      /\ UNCHANGED <<config, mode, pa, m_lastPSRvalue>>
      /\ mem' \in {mem, written} /\ outcome' \in {"S_OK", "failed"}
  BY DEF WriteMsrRegister, WriteHandlers
<1>0. asked \in BOOLEAN
  OBVIOUS
<1> HIDE DEF asked
<1>2. /\ faults \in 0 .. MaxFaults /\ calls \in 0 .. MaxCalls /\ MaxFaults \in Nat
      /\ MaxCalls \in Nat /\ MaxBytes \in Nat \ {0} /\ MaxAddress \in Nat
      /\ calls' \in 1 .. MaxCalls
  BY GdbMemoryAssumption DEF MemoryInv, DataTypes, WriteMsrRegister
<1>3. /\ call' \in CallRecords /\ call'.kind = "none" /\ call'.base = a /\ call'.want = 1
      /\ call'.type = "special" /\ call'.clean = asked
      /\ <<>> \in Seq(Bytes) /\ Len(<<>>) = 0
  <2>1. call' = [kind |-> "none", type |-> "special", base |-> a, want |-> 1, address |-> a,
                 size |-> 0, left |-> 0, clean |-> asked]
    BY <1>1 DEF NoCall
  <2>2. "special" \in Types /\ a \in 0 .. MaxAddress + 1 /\ {0, 1} \subseteq 0 .. MaxBytes
    BY <1>2 DEF Types, Spaces, Addresses
  <2>3. call' \in CallRecords
    BY <1>0, <2>1, <2>2 DEF CallRecords
  <2> QED BY <2>1, <2>3
<1>4. faults' \in 0 .. MaxFaults
  BY <1>2 DEF WriteMsrRegister, Fault, NoFault
<1>5. byte \in SentBytes
  BY <1>1, <1>2 DEF SentBytes
<1> HIDE DEF byte
<1>6. /\ Memory(written) /\ written["special"][a] = byte
      /\ \A t \in Spaces, b \in Addresses :
           written[t][b] # mem[t][b] => t = "special" /\ b = a
  <2>1. Memory(mem) /\ "special" \in Spaces /\ SentBytes \subseteq Bytes
    BY DEF MemoryInv, DataTypes, Spaces, Bytes
  <2>2. \A t \in Spaces, b \in Addresses :
          written[t][b] = IF t = "special" /\ b = a THEN byte ELSE mem[t][b]
    BY <2>1 DEF Memory
  <2>3. written \in [Spaces -> [Addresses -> Bytes]]
    BY <1>5, <2>1 DEF Memory
  <2> QED BY <1>5, <2>1, <2>2, <2>3 DEF Memory
<1> HIDE DEF written
<1>7. DataTypes'
  <2>1. Memory(mem') /\ Memory(before')
    BY <1>1, <1>6 DEF MemoryInv, DataTypes
  <2>2. UNCHANGED <<server, throwEnabled, mode, m_lastPSRvalue, paBy>>
    BY <1>1 DEF config, pa
  <2>3. outcome' \in {"none", "S_OK", "failed"} /\ calls' \in 0 .. MaxCalls
    BY <1>1, <1>2
  <2>4. result' \in Seq(Bytes) /\ Len(result') <= MaxBytes
    BY <1>1, <1>2, <1>3
  <2> QED BY <1>3, <1>4, <2>1, <2>2, <2>3, <2>4 DEF MemoryInv, DataTypes
<1>8. ReadInv'
  BY <1>1, <1>2, <1>3 DEF ReadInv
<1>9. ModeInv'
  BY <1>1, <1>3 DEF MemoryInv, ModeInv, config, pa
<1>10. WriteInv'
  <2>1. "special" \in Spaces
    BY DEF Spaces
  <2>2. WriteWithin'
    BY <1>1, <1>2, <1>3, <1>6, <2>1 DEF WriteWithin, Addresses
  <2>3. WriteDone'
    <3> SUFFICES ASSUME mem' = written
                 PROVE  Holds(mem', "special", a, [i \in 1 .. 1 |-> Sent(calls', i)])
      BY <1>1, <1>3, <2>1 DEF WriteDone
    <3>1. Sent(calls', 1) = byte
      BY <1>1 DEF byte
    <3>2. \A i \in 1 .. 1 : i = 1 /\ a + i - 1 = a
      BY <1>2 DEF Addresses
    <3> QED BY <1>6, <3>1, <3>2 DEF Holds
  <2> QED BY <1>3, <2>2, <2>3 DEF WriteInv
<1> QED BY <1>7, <1>8, <1>9, <1>10 DEF MemoryInv

(* The debugger reads a context; the target runs.                          *)
LEMMA ContextOrRun ==
  ASSUME MemoryInv, ReadContext \/ TargetRuns
  PROVE  MemoryInv'
<1>1. CASE ReadContext
  <2>1. /\ UNCHANGED <<config, mem, mode, pa, call, result, outcome, before, calls, faults>>
        /\ m_lastPSRvalue' \in Modes /\ call.kind = "none"
    BY <1>1 DEF ReadContext, MemoryInv, DataTypes
  <2>2. DataTypes'
    BY <2>1 DEF MemoryInv, DataTypes, config, pa, Memory
  <2>3. ReadInv' /\ ModeInv' /\ WriteInv'
    BY <2>1 DEF MemoryInv, ReadInv, ModeInv, WriteInv, WriteWithin, WriteDone, config, pa
  <2> QED BY <2>2, <2>3 DEF MemoryInv
<1>2. CASE TargetRuns
  <2>1. /\ UNCHANGED <<config, mem, pa, m_lastPSRvalue, faults>> /\ call.kind = "none"
        /\ mode' \in Modes /\ call' = NoCall /\ result' = <<>> /\ outcome' = "none"
        /\ before' = mem
    BY <1>2 DEF TargetRuns
  <2>2. /\ calls' \in 0 .. MaxCalls /\ MaxBytes \in Nat /\ MaxAddress \in Nat
    BY <1>2, GdbMemoryAssumption DEF TargetRuns, MemoryInv, DataTypes
  <2>3. /\ NoCall \in CallRecords /\ NoCall.kind = "none" /\ ~NoCall.clean
        /\ Len(<<>>) = 0 /\ <<>> \in Seq(Bytes)
    BY <2>2 DEF NoCall, CallRecords, Types, Addresses
  <2>4. DataTypes'
    BY <2>1, <2>2, <2>3 DEF MemoryInv, DataTypes, config, pa, Memory
  <2>5. ReadInv' /\ WriteInv'
    BY <2>1, <2>2, <2>3, NothingWritten
  <2>6. ModeInv'
    BY <2>1, <2>3 DEF MemoryInv, ModeInv, config, pa
  <2> QED BY <2>4, <2>5, <2>6 DEF MemoryInv
<1> QED BY <1>1, <1>2

(* Every step of the calls keeps the invariant.                            *)
LEMMA MemoryNext ==
  ASSUME MemoryInv, FlagTypes, [Next]_vars
  PROVE  MemoryInv'
<1>1. ASSUME NEW a \in Addresses, NEW n \in 1 .. MaxBytes, InRange(a, n),
             \/ ReadVirtualMemory(a, n) \/ ReadPhysicalMemory(a, n)
             \/ \E type \in Modes : IoctlReadMemory(type, a, n)
             \/ WriteVirtualMemory(a, n) \/ WritePhysicalMemory(a, n)
      PROVE  MemoryInv'
  <2>1. /\ VirtualType \in Types /\ "physical" \in Types /\ "none" \in Types
        /\ Modes \subseteq Types /\ ~ConfiguresPA(VirtualType) /\ ~ConfiguresPA("none")
        /\ \A type \in Modes : ~ConfiguresPA(type)
    BY DEF MemoryInv, DataTypes, VirtualType, ConfiguresPA, Types, Spaces, Modes
  <2>2. CASE ReadVirtualMemory(a, n)
    BY <1>1, <2>1, <2>2, CallBegins DEF ReadVirtualMemory
  <2>3. CASE ReadPhysicalMemory(a, n)
    <3> DEFINE type == IF m_IsForcedPAMemoryMode THEN "none" ELSE "physical"
               kind == IF ConfiguresPA(type) /\ ~m_ConfigPAMemMode THEN "paOn" ELSE "read"
    <3>1. Begin(kind, type, a, n)
      BY <2>3 DEF ReadPhysicalMemory
    <3>2. /\ type \in Types /\ kind \in {"paOn", "read", "write"}
          /\ kind = "paOn" => ConfiguresPA(type)
          /\ kind = "read" /\ ConfiguresPA(type) => m_ConfigPAMemMode
      BY <2>1
    <3> HIDE DEF type, kind
    <3> QED BY <1>1, <3>1, <3>2, CallBegins
  <2>4. CASE \E type \in Modes : IoctlReadMemory(type, a, n)
    BY <1>1, <2>1, <2>4, CallBegins DEF IoctlReadMemory
  <2>5. CASE WriteVirtualMemory(a, n) \/ WritePhysicalMemory(a, n)
    BY <1>1, <2>1, <2>5, CallBegins DEF WriteVirtualMemory, WritePhysicalMemory
  <2> QED BY <1>1, <2>2, <2>3, <2>4, <2>5
<1>2. CASE ReadEnds
  <2>1. faults' \in 0 .. MaxFaults
    BY <1>2 DEF MemoryInv, DataTypes, ReadEnds
  <2> QED BY <1>2, <2>1, ReadReturned DEF ReadEnds
<1>3. CASE UNCHANGED vars
  <2> USE DEF vars, config, pa
  <2>1. DataTypes'
    BY <1>3 DEF MemoryInv, DataTypes, Memory
  <2>2. ReadInv'
    BY <1>3 DEF MemoryInv, ReadInv, Rest, Chunk, Holds, Space, InRange
  <2>3. ModeInv'
    BY <1>3 DEF MemoryInv, ModeInv, ConfiguresPA
  <2>4. WriteInv'
    <3>1. Changed(Space(call.type))' <=> Changed(Space(call.type))
      BY <1>3 DEF Changed, Space
    <3>2. WriteWithin' <=> WriteWithin
      BY <1>3 DEF WriteWithin
    <3>3. WriteDone' <=> WriteDone
      BY <1>3 DEF WriteDone, Holds, Space
    <3> QED BY <1>3, <3>1, <3>2, <3>3 DEF MemoryInv, WriteInv
  <2> QED BY <2>1, <2>2, <2>3, <2>4 DEF MemoryInv
<1>4. CASE Next
  BY <1>1, <1>2, <1>4, PacketRead, ModeAsked, ModeOfUser, PacketWritten, RegisterRead,
     RegisterWritten, ContextOrRun DEF Next
<1> QED BY <1>3, <1>4

(* The memory of the requests starts whole, with no call under way.        *)
LEMMA MemoryInit ==
  ASSUME Init
  PROVE  MemoryInv /\ FlagTypes
<1>1. /\ call = NoCall /\ result = <<>> /\ Len(<<>>) = 0 /\ <<>> \in Seq(Bytes) /\ mem = before
      /\ mem = [s \in Spaces |-> [a \in Addresses |-> Initial(s, a)]]
      /\ MaxBytes \in Nat /\ MaxAddress \in Nat /\ MaxCalls \in Nat /\ MaxFaults \in Nat
  BY GdbMemoryAssumption DEF Init
<1>2. NoCall \in CallRecords /\ NoCall.kind = "none" /\ ~NoCall.clean
  BY <1>1 DEF NoCall, CallRecords, Types, Addresses
<1>3. Memory(mem)
  <2>1. \A s \in Spaces, a \in Addresses : Initial(s, a) \in Bytes
    BY DEF Bytes
  <2> QED BY <1>1, <2>1 DEF Memory
<1>4. DataTypes
  BY <1>1, <1>2, <1>3 DEF Init, DataTypes, Modes
<1>5. ReadInv /\ WriteInv
  <2>1. "super" \in Spaces
    BY DEF Spaces, Modes
  <2> QED BY <1>1, <1>2, <2>1 DEF ReadInv, WriteInv, WriteWithin, WriteDone
<1>6. ModeInv
  BY <1>1, <1>2 DEF Init, ModeInv
<1>7. FlagTypes
  BY Zenon DEF Init, FlagTypes
<1> QED BY <1>4, <1>5, <1>6, <1>7 DEF MemoryInv

(* The invariant gives what the requests for memory promise.               *)
LEMMA MemoryPromised ==
  ASSUME MemoryInv, FlagTypes
  PROVE  MemoryRead /\ MemoryWritten
<1>1. /\ call \in CallRecords /\ MaxBytes \in Nat /\ MaxAddress \in Nat /\ Len(result) \in Nat
      /\ DataTypes
  BY GdbMemoryAssumption DEF MemoryInv, DataTypes
<1>2. TypeOK
  <2>1. \A m \in {mem, before}, s \in Spaces, a \in Addresses :
          m[s][a] = Initial(s, a)
            \/ \E k \in 1 .. MaxCalls, i \in 1 .. MaxBytes : m[s][a] = Sent(k, i)
    <3>1. \A m \in {mem, before}, s \in Spaces, a \in Addresses :
            m[s][a] = Initial(s, a) \/ m[s][a] \in SentBytes
      BY <1>1 DEF DataTypes, Memory
    <3> QED BY <3>1 DEF SentBytes
  <2>2. {serverPA, m_IsForcedPAMemoryMode, m_ConfigPAMemMode, unsure} \subseteq BOOLEAN
    BY Zenon DEF FlagTypes
  <2>3. /\ {call.want, call.size, call.left} \subseteq 0 .. MaxBytes
        /\ Len(result) \in 0 .. MaxBytes
    BY <1>1 DEF MemoryInv, ReadInv, CallRecords
  <2>4. throwEnabled \in BOOLEAN
    BY Zenon DEF FlagTypes
  <2> QED BY <1>1, <2>1, <2>2, <2>3, <2>4 DEF TypeOK, DataTypes, CallRecords
<1>3. /\ call.type \in Types /\ Space(call.type) \in Spaces
      /\ call.kind \in {"read", "paOff"} => Len(result) <= call.want
  <2>1. call.type \in Types
    BY <1>1 DEF CallRecords
  <2>2. call.kind \in {"read", "paOff"} => Len(result) <= call.want
    <3> SUFFICES ASSUME call.kind \in {"read", "paOff"} PROVE Len(result) <= call.want
      OBVIOUS
    <3>1. Len(result) + Rest <= call.want /\ call.size <= Chunk
      BY DEF MemoryInv, ReadInv
    <3>2. /\ Chunk \in Nat /\ Chunk <= call.left /\ call.left \in Nat /\ call.size \in Nat
          /\ call.want \in Nat
      BY <1>1, ChunkSize DEF CallRecords
    <3>3. Rest \in Nat
      BY <3>2 DEF Rest
    <3> QED BY <1>1, <3>1, <3>2, <3>3
  <2> QED BY <1>1, <2>1, <2>2, SpaceReached
<1>4. ReadPrefix
  BY <1>3 DEF MemoryInv, ReadInv, ReadPrefix
<1>5. PhysicalRead
  <2> SUFFICES ASSUME call.type = "physical", call.kind \in {"read", "paOff"},
                      server \in {"trace32", "qemu"}, ~unsure
               PROVE  Holds(mem, "physical", call.base, result)
    BY DEF PhysicalRead
  <2>1. Space(call.type) = "physical"
    BY DEF MemoryInv, ModeInv, ConfiguresPA, Space
  <2> QED BY <2>1 DEF MemoryInv, ReadInv
<1>6. PAModeEnds
  BY DEF MemoryInv, ModeInv, PAModeEnds
<1> QED BY <1>2, <1>4, <1>5, <1>6 DEF MemoryRead, MemoryWritten, MemoryInv, WriteInv

(* The memory is changed by its own part of the requests only.             *)
LEMMA MemoryPart == RequestsNext => [Next]_vars
BY DEF RequestsNext

(* A read of memory is a prefix of the range that was asked for, all of one*)
(* space, and of the physical one when that was asked for and the server   *)
(* can tell; a successful read leaves no physical mode behind: for any     *)
(* sizes of packets and ranges, and any answers, cut short, refused or     *)
(* lost.                                                                   *)
THEOREM MemoryReads == RequestsSpec => []MemoryRead
<1> DEFINE requests == <<part, vars, coreVars, connectionVars, resumeVars, configurationVars>>
<1>1. RequestsInit => MemoryInv /\ FlagTypes
  BY MemoryInit DEF RequestsInit
<1>2. [RequestsNext]_requests => [Next]_vars
  BY MemoryPart
<1>3. MemoryInv /\ FlagTypes /\ [Next]_vars => MemoryInv' /\ FlagTypes'
  BY MemoryNext, MemoryFlags
<1>4. MemoryInv /\ FlagTypes => MemoryRead
  BY MemoryPromised
<1> QED BY <1>1, <1>2, <1>3, <1>4, PTL DEF RequestsSpec

(* A write changes nothing outside of its range and of one space; one that *)
(* fits a packet, and that the server does not object to, is whole when it *)
(* is reported done: for any sizes of packets and ranges and any answers.  *)
THEOREM MemoryWrites == RequestsSpec => []MemoryWritten
<1> DEFINE requests == <<part, vars, coreVars, connectionVars, resumeVars, configurationVars>>
<1>1. RequestsInit => MemoryInv /\ FlagTypes
  BY MemoryInit DEF RequestsInit
<1>2. [RequestsNext]_requests => [Next]_vars
  BY MemoryPart
<1>3. MemoryInv /\ FlagTypes /\ [Next]_vars => MemoryInv' /\ FlagTypes'
  BY MemoryNext, MemoryFlags
<1>4. MemoryInv /\ FlagTypes => MemoryWritten
  BY MemoryPromised
<1> QED BY <1>1, <1>2, <1>3, <1>4, PTL DEF RequestsSpec

-----------------------------------------------------------------------------
(* Cores.  GdbCores_proofs proves what the cores keep to by themselves; the*)
(* requests take the same steps.                                           *)
CoresProved == INSTANCE GdbCores_proofs
                 WITH outcome <- coreOutcome, before <- coreBefore, faults <- coreFaults,
                      MaxFaults <- MaxCoreFaults

(* The steps of the cores are those the theorems are about.                *)
LEMMA CoresSteps ==
  /\ Cores!Init => CoresProved!Init
  /\ Cores!Next => CoresProved!Next
  /\ UNCHANGED coreVars => UNCHANGED CoresProved!vars
<1> USE DEF Cores!NoOp, Cores!NoContext, Cores!Cpus, Cores!Registers, Cores!fixed, Cores!thread,
            Cores!table, Cores!Fault, Cores!NoFault, Cores!End, Cores!Beyond, Cores!ThreadOf,
            Cores!ThreadSet, Cores!ThreadRefused, Cores!ThreadLost, Cores!ToSet
<1> USE DEF CoresProved!NoOp, CoresProved!NoContext, CoresProved!Cpus, CoresProved!Registers,
            CoresProved!fixed, CoresProved!thread, CoresProved!table, CoresProved!Fault,
            CoresProved!NoFault, CoresProved!End, CoresProved!Beyond, CoresProved!ThreadOf,
            CoresProved!ThreadSet, CoresProved!ThreadRefused, CoresProved!ThreadLost,
            CoresProved!ToSet
<1>1. ASSUME Cores!Init PROVE CoresProved!Init
  BY <1>1, Zenon DEF Cores!Init, CoresProved!Init
<1>2. Cores!ReportReasonTargetHalted => CoresProved!ReportReasonTargetHalted
  BY DEF Cores!ReportReasonTargetHalted, CoresProved!ReportReasonTargetHalted
<1>3. Cores!GetProcessorCount => CoresProved!GetProcessorCount
  BY DEF Cores!GetProcessorCount, CoresProved!GetProcessorCount
<1>4. Cores!NextThreads => CoresProved!NextThreads
  BY DEF Cores!NextThreads, CoresProved!NextThreads, Cores!Counted, CoresProved!Counted
<1>5. \A cpu : Cores!SetKpcrOffset(cpu) => CoresProved!SetKpcrOffset(cpu)
  BY DEF Cores!SetKpcrOffset, CoresProved!SetKpcrOffset
<1>6. \A cpu : Cores!GetContext(cpu) => CoresProved!GetContext(cpu)
  BY DEF Cores!GetContext, CoresProved!GetContext
<1>7. ASSUME NEW cpu, Cores!SetContext(cpu) PROVE CoresProved!SetContext(cpu)
  BY <1>7 DEF Cores!SetContext, CoresProved!SetContext, Cores!Written, CoresProved!Written,
              Cores!If, CoresProved!If, Cores!Batch, CoresProved!Batch
<1>8. Cores!Undefined => CoresProved!Undefined
  BY DEF Cores!Undefined, CoresProved!Undefined
<1>9. Cores!ThreadFails => CoresProved!ThreadFails
  BY DEF Cores!ThreadFails, CoresProved!ThreadFails
<1>10. Cores!QueryAllRegisters => CoresProved!QueryAllRegisters
  BY DEF Cores!QueryAllRegisters, CoresProved!QueryAllRegisters, Cores!GOrder,
         CoresProved!GOrder, Cores!Required, CoresProved!Required, Cores!GroupsOf,
         CoresProved!GroupsOf, Cores!Queried, CoresProved!Queried
<1>11. Cores!QueryRegisters => CoresProved!QueryRegisters
  BY DEF Cores!QueryRegisters, CoresProved!QueryRegisters, Cores!Queried, CoresProved!Queried,
         Cores!MxcsrFound, CoresProved!MxcsrFound
<1>12. Cores!SetRegisters => CoresProved!SetRegisters
  BY DEF Cores!SetRegisters, CoresProved!SetRegisters
<1>13. Cores!SetRegister => CoresProved!SetRegister
  BY DEF Cores!SetRegister, CoresProved!SetRegister
<1>14. Cores!TargetRuns => CoresProved!TargetRuns
  BY DEF Cores!TargetRuns, CoresProved!TargetRuns
<1>15. ASSUME Cores!Next PROVE CoresProved!Next
  BY <1>2, <1>3, <1>4, <1>5, <1>6, <1>7, <1>8, <1>9, <1>10, <1>11, <1>12, <1>13, <1>14, <1>15
  DEF Cores!Next, CoresProved!Next
<1>16. UNCHANGED coreVars => UNCHANGED CoresProved!vars
  BY DEF coreVars, CoresProved!vars
<1> QED BY <1>1, <1>15, <1>16

(* The cores are changed by their own part of the requests only, and the   *)
(* constants of the requests are fit for them.                             *)
LEMMA CoresPart ==
  /\ CoresProved!CoresAssumption
  /\ RequestsSpec => CoresProved!Spec
<1> DEFINE requests == <<part, vars, coreVars, connectionVars, resumeVars, configurationVars>>
<1>1. CoresProved!CoresAssumption
  BY GdbRequestsAssumption DEF GdbRequestsAssumption, CoresProved!CoresAssumption
<1>2. RequestsInit => CoresProved!Init
  BY CoresSteps DEF RequestsInit
<1>3. [RequestsNext]_requests => [CoresProved!Next]_CoresProved!vars
  BY CoresSteps DEF RequestsNext
<1>4. RequestsSpec => CoresProved!Spec
  BY <1>2, <1>3, PTL DEF RequestsSpec, CoresProved!Spec
<1> QED BY <1>1, <1>4

(* The table of the threads is whole once they are counted, the thread that*)
(* is selected is the one that was named, and registers of other cores and *)
(* of other groups are left alone: for any number of threads, of writes and*)
(* of answers refused, lost or cut short.                                  *)
THEOREM CoresOfRequests == RequestsSpec => []CoresKept
<1>1. CoresProved!Spec =>
        [](CoresProved!TypeOK /\ CoresProved!TableWhole /\ CoresProved!ActiveThreadSelected
             /\ CoresProved!OtherRegistersKept)
  BY CoresPart, CoresProved!CoresInStep
<1>2. CoresProved!TypeOK /\ CoresProved!TableWhole /\ CoresProved!ActiveThreadSelected
        /\ CoresProved!OtherRegistersKept
      => CoresKept
  BY DEF CoresKept, Cores!TypeOK, CoresProved!TypeOK, Cores!TableWhole, CoresProved!TableWhole,
         Cores!ActiveThreadSelected, CoresProved!ActiveThreadSelected, Cores!OtherRegistersKept,
         CoresProved!OtherRegistersKept, Cores!ThreadsListed, CoresProved!ThreadsListed,
         Cores!Cpus, CoresProved!Cpus, Cores!Registers, CoresProved!Registers, Cores!Values, CoresProved!Values, Cores!Groups,
         CoresProved!Groups
<1> QED BY <1>1, <1>2, CoresPart, PTL

(* A context that is got holds registers of the core that was named, and   *)
(* one set back as it was read leaves its core as it was, however far the  *)
(* call gets: for any number of threads, of writes and of faults.          *)
THEOREM ContextsOfRequests == RequestsSpec => ContextsOfCpus
<1>1. CoresProved!Spec => CoresProved!ContextOfCpu /\ CoresProved!SetBackKeeps
  BY CoresPart, CoresProved!ContextsInStep
<1>2. UNCHANGED CoresProved!vars => UNCHANGED Cores!vars
  BY DEF Cores!vars, CoresProved!vars, Cores!fixed, CoresProved!fixed, Cores!thread,
         CoresProved!thread, Cores!table, CoresProved!table
<1>3. CoresProved!ContextOfCpu => Cores!ContextOfCpu
  <2>1. [op.kind \in {"get", "getMore"} /\ coreOutcome' = "S_OK" /\ CoresProved!ThreadsListed =>
           \A r \in CoresProved!Registers :
             context'.values[r] \in {0, regs[op.cpu][r]}]_(CoresProved!vars)
        => [op.kind \in {"get", "getMore"} /\ coreOutcome' = "S_OK" /\ Cores!ThreadsListed =>
             \A r \in Cores!Registers :
               context'.values[r] \in {0, regs[op.cpu][r]}]_(Cores!vars)
    BY <1>2 DEF Cores!Registers, CoresProved!Registers, Cores!ThreadsListed,
                CoresProved!ThreadsListed
  <2> QED BY <2>1, PTL DEF Cores!ContextOfCpu, CoresProved!ContextOfCpu
<1>4. CoresProved!SetBackKeeps => Cores!SetBackKeeps
  <2>1. [op.kind = "setRegs" /\ context.whole /\ context.of = selected =>
           regs'[selected] = coreBefore[selected]]_(CoresProved!vars)
        => [op.kind = "setRegs" /\ context.whole /\ context.of = selected =>
             regs'[selected] = coreBefore[selected]]_(Cores!vars)
    BY <1>2
  <2> QED BY <2>1, PTL DEF Cores!SetBackKeeps, CoresProved!SetBackKeeps
<1> QED BY <1>1, <1>3, <1>4, CoresPart, PTL DEF ContextsOfCpus

-----------------------------------------------------------------------------
(* Resumes.                                                                *)

(* What the constants are; the module that instantiates RspCores assumes it*)
RspCoresAssumption ==
  /\ NumberOfCores \in Nat \ {0} /\ MaxResumes \in Nat /\ MaxOutputs \in Nat
  /\ MaxBreaks \in Nat /\ MaxReasons \in Nat

-----------------------------------------------------------------------------
(* The inductive invariant.                                                *)

ResumeTypes ==
  /\ target \in [Resumes!Cores -> {"halted", "running"}]
  /\ inbox \in [Resumes!Cores -> Seq({"resume", "break", "?"})]
  /\ line \in [Resumes!Cores -> Seq(Resumes!Packet)]
  /\ outputs \in 0 .. MaxOutputs
  /\ pc \in {"idle", "poll", "discard", "reason"}
  /\ core \in Resumes!Cores \cup {Resumes!NoCore} /\ (pc # "idle" => core \in Resumes!Cores)
  /\ lastKnownActiveCpu \in Resumes!Cores
  /\ response \in Resumes!Packet \cup {Resumes!NoPacket}
  /\ breaking \in Resumes!Cores \cup {Resumes!NoCore}
  /\ resumes \in 0 .. MaxResumes /\ breaks \in 0 .. MaxBreaks
  /\ reasons \in 0 .. MaxReasons
  /\ interrupted \subseteq Resumes!Cores
ResumeFlags ==
  IsPollingChannelMode \in BOOLEAN /\ interruptEvent \in BOOLEAN /\ clean \in BOOLEAN

(* A core that has stopped and will not be resumed in this run.            *)
Stopped(c) == target[c] = "halted" /\ \A i \in DOMAIN inbox[c] : inbox[c][i] # "resume"

(* The resume comes first, to a core that has said nothing yet.            *)
ResumeFirst(c) ==
  \A i \in DOMAIN inbox[c] :
    inbox[c][i] = "resume" => i = 1 /\ target[c] = "halted" /\ line[c] = <<>>

(* While a resume is under way a core is not asked for a reason, and sends *)
(* console packets and, once, that it has stopped.                         *)
SaysOf(c, p) ==
  \/ p.kind = "stop" /\ p.run = resumes /\ p.from = c /\ target[c] = "halted"
  \/ p.kind = "output" /\ outputs > 0
LineOfRun(c) ==
  /\ \A i \in DOMAIN inbox[c] : inbox[c][i] # "?"
  /\ \A i \in DOMAIN line[c] : SaysOf(c, line[c][i])
  /\ outputs = 0 => Len(line[c]) <= 1

(* The polling goes on until something is received; a user interrupt takes *)
(* a Ctrl-C to each core.                                                  *)
PollInv ==
  /\ response = Resumes!NoPacket
  /\ interruptEvent \/ breaking # Resumes!NoCore => \A c \in Resumes!Cores : Resumes!WillHalt(c)

(* The active core has stopped, or the user has interrupted; the cores     *)
(* before the one the loop has come to have stopped or been interrupted.   *)
Discarded(c) == line[c] = <<>> /\ Stopped(c)
DiscardInv ==
  /\ response.kind = "stop" =>
       /\ response.run = resumes /\ response.from = lastKnownActiveCpu
       /\ Stopped(lastKnownActiveCpu)
  /\ outputs = 0 =>
       /\ Resumes!WillHalt(lastKnownActiveCpu)
       /\ response = Resumes!NoPacket \/ Discarded(lastKnownActiveCpu)
       /\ \A c \in Resumes!Cores : c < core =>
            Resumes!WillHalt(c) /\ (c = lastKnownActiveCpu \/ c \in interrupted \/ Discarded(c))

CleanInv ==
  clean =>
    /\ \A c \in Resumes!Cores : ResumeFirst(c)
    /\ pc \in {"poll", "discard"} => \A c \in Resumes!Cores : LineOfRun(c)
    /\ pc = "poll" => PollInv
    /\ pc = "discard" => DiscardInv
    /\ pc \in {"idle", "reason"} /\ outputs = 0 => \A c \in Resumes!Cores : Resumes!WillHalt(c)
ResumesInv == ResumeTypes /\ CleanInv

-----------------------------------------------------------------------------
(* Lemmas about the numbers of the cores and about sequences.              *)
LEMMA ResumeNumbers ==
  ASSUME RspCoresAssumption
  PROVE  /\ NumberOfCores \in Nat \ {0} /\ Resumes!Cores \subseteq Nat /\ 0 \in Resumes!Cores
         /\ Resumes!NoCore \notin Resumes!Cores /\ Resumes!NoCore \in Nat
         /\ Resumes!NoPacket \notin Resumes!Packet
         /\ \A c \in Resumes!Cores : c < Resumes!NoCore /\ (c + 1 \in Resumes!Cores \/ c + 1 = Resumes!NoCore)
         /\ \A n \in Resumes!Cores \cup {Resumes!NoCore} : n \in Nat /\ n <= Resumes!NoCore
BY DEF RspCoresAssumption, Resumes!Cores, Resumes!NoCore, Resumes!NoPacket, Resumes!Packet

(* The core after the last one is the first.                               *)
LEMMA NextOf ==
  ASSUME RspCoresAssumption, core \in Resumes!Cores
  PROVE  Resumes!NextCore \in Resumes!Cores
<1>1. core \in Nat /\ NumberOfCores \in Nat /\ NumberOfCores > 0
  BY ResumeNumbers
<1>2. (core + 1) % NumberOfCores \in 0 .. NumberOfCores - 1
  BY <1>1
<1> QED BY <1>2 DEF Resumes!NextCore, Resumes!Cores

(* What is left when the first is taken.                                   *)
LEMMA FirstTaken ==
  ASSUME NEW S, NEW s \in Seq(S), s # <<>>
  PROVE  /\ Head(s) = s[1] /\ 1 \in DOMAIN s /\ Head(s) \in S
         /\ Tail(s) \in Seq(S) /\ Len(Tail(s)) = Len(s) - 1
         /\ \A i \in DOMAIN Tail(s) : i + 1 \in DOMAIN s /\ Tail(s)[i] = s[i + 1]
OBVIOUS

(* What is left when one is taken from the middle.                         *)
LEMMA OneTaken ==
  ASSUME NEW S, NEW s \in Seq(S), NEW i \in DOMAIN s
  PROVE  LET t == SubSeq(s, 1, i - 1) \o SubSeq(s, i + 1, Len(s))
         IN t \in Seq(S) /\ \A k \in DOMAIN t : \E j \in DOMAIN s : t[k] = s[j]
<1> DEFINE u == SubSeq(s, 1, i - 1)
           v == SubSeq(s, i + 1, Len(s))
<1>1. i \in Nat /\ i >= 1 /\ i <= Len(s) /\ Len(s) \in Nat /\ DOMAIN s = 1 .. Len(s)
  OBVIOUS
<1>2. /\ u \in Seq(S) /\ Len(u) = i - 1
      /\ \A k \in 1 .. i - 1 : u[k] = s[k]
  BY <1>1
<1>3. /\ v \in Seq(S) /\ Len(v) = Len(s) - i
      /\ \A k \in 1 .. Len(s) - i : v[k] = s[k + i]
  BY <1>1
<1> HIDE DEF u, v
<1>4. /\ u \o v \in Seq(S) /\ DOMAIN (u \o v) = 1 .. Len(u) + Len(v)
      /\ \A k \in 1 .. Len(u) + Len(v) :
           (u \o v)[k] = IF k <= Len(u) THEN u[k] ELSE v[k - Len(u)]
  <2>1. u \in Seq(S) /\ v \in Seq(S)
    BY <1>2, <1>3
  <2>2. u \o v \in Seq(S) /\ Len(u \o v) = Len(u) + Len(v)
    BY <2>1, ConcatProperties
  <2>3. \A k \in 1 .. Len(u) + Len(v) :
          (u \o v)[k] = IF k <= Len(u) THEN u[k] ELSE v[k - Len(u)]
    BY <2>1, ConcatProperties
  <2> QED BY <2>2, <2>3, LenProperties
<1>5. ASSUME NEW k \in DOMAIN (u \o v)
      PROVE  \E j \in DOMAIN s : (u \o v)[k] = s[j]
  <2>1. CASE k <= i - 1
    BY <1>1, <1>2, <1>3, <1>4, <2>1
  <2>2. CASE ~(k <= i - 1)
    <3>1. k - (i - 1) \in 1 .. Len(s) - i
      BY <1>1, <1>2, <1>3, <1>4, <2>2
    <3>2. (u \o v)[k] = s[k - (i - 1) + i]
      BY <1>1, <1>2, <1>3, <1>4, <2>2, <3>1
    <3>3. k - (i - 1) + i \in DOMAIN s
      BY <1>1, <3>1
    <3> QED BY <3>2, <3>3
  <2> QED BY <2>1, <2>2
<1> QED BY <1>4, <1>5 DEF u, v

(* What is left behind the last one that was read.                         *)
LEMMA SomeTaken ==
  ASSUME NEW S, NEW s \in Seq(S), NEW n \in DOMAIN s
  PROVE  LET t == SubSeq(s, n + 1, Len(s))
         IN /\ t \in Seq(S) /\ Len(t) = Len(s) - n
            /\ \A k \in DOMAIN t : k + n \in DOMAIN s /\ t[k] = s[k + n]
            /\ Len(s) <= 1 => t = <<>>
<1> DEFINE t == SubSeq(s, n + 1, Len(s))
<1>1. n \in Nat /\ n >= 1 /\ n <= Len(s) /\ Len(s) \in Nat /\ DOMAIN s = 1 .. Len(s)
  OBVIOUS
<1>2. /\ t \in Seq(S) /\ Len(t) = Len(s) - n
      /\ \A k \in 1 .. Len(s) - n : t[k] = s[k + n]
  BY <1>1
<1> HIDE DEF t
<1>3. \A k \in DOMAIN t : k + n \in DOMAIN s /\ t[k] = s[k + n]
  BY <1>1, <1>2
<1>4. Len(s) <= 1 => t = <<>>
  BY <1>1, <1>2
<1> QED BY <1>2, <1>3, <1>4 DEF t

(* What there is when one is added.                                        *)
LEMMA OneAdded ==
  ASSUME NEW S, NEW s \in Seq(S), NEW x \in S
  PROVE  /\ Append(s, x) \in Seq(S) /\ Len(Append(s, x)) = Len(s) + 1
         /\ Append(s, x)[Len(s) + 1] = x /\ DOMAIN Append(s, x) = 1 .. Len(s) + 1
         /\ DOMAIN s = 1 .. Len(s) /\ Len(s) \in Nat
         /\ \A i \in DOMAIN s : Append(s, x)[i] = s[i]
OBVIOUS

-----------------------------------------------------------------------------
(* What a step of a core changes.                                          *)
ClientSame ==
  UNCHANGED <<pc, core, lastKnownActiveCpu, response, interruptEvent, breaking, breaks,
              interrupted, resumes, reasons, clean>>

(* It is about that core only.                                             *)
LEMMA OtherCores ==
  ASSUME RspCoresAssumption, ResumeTypes, NEW d \in Resumes!Cores, Resumes!Server(d)
  PROVE  /\ UNCHANGED <<Resumes!client, interruptEvent, breaking, breaks, interrupted, Resumes!history>>
         /\ ClientSame
         /\ outputs' \in Nat /\ outputs <= outputs' /\ outputs' \in 0 .. MaxOutputs
         /\ \A c \in Resumes!Cores : c # d =>
              target'[c] = target[c] /\ inbox'[c] = inbox[c] /\ line'[c] = line[c]
<1>1. UNCHANGED <<Resumes!client, interruptEvent, breaking, breaks, interrupted, Resumes!history>>
  BY DEF Resumes!Server, Resumes!HaltedHandles, Resumes!RunningBreaks, Resumes!RunningReports
<1>2. ClientSame
  BY <1>1 DEF ClientSame, Resumes!client, Resumes!history
<1>3. outputs' \in Nat /\ outputs <= outputs' /\ outputs' \in 0 .. MaxOutputs
  BY
  DEF RspCoresAssumption, ResumeTypes, Resumes!Server, Resumes!HaltedHandles,
      Resumes!RunningBreaks, Resumes!RunningReports
<1>4. \A c \in Resumes!Cores : c # d =>
        target'[c] = target[c] /\ inbox'[c] = inbox[c] /\ line'[c] = line[c]
  BY
  DEF ResumeTypes, Resumes!Server, Resumes!HaltedHandles, Resumes!RunningBreaks,
      Resumes!RunningReports, Resumes!Says
<1> QED BY <1>1, <1>2, <1>3, <1>4

(* A packet is added to the line of the core that says it.                 *)
LEMMA PacketSaid ==
  ASSUME RspCoresAssumption, ResumeTypes, NEW d \in Resumes!Cores,
         NEW kind \in {"stop", "output", "reason"}, Resumes!Says(d, kind)
  PROVE  LET p == [kind |-> kind, run |-> resumes, from |-> d]
         IN /\ line' \in [Resumes!Cores -> Seq(Resumes!Packet)] /\ line'[d] = Append(line[d], p)
            /\ Len(line'[d]) = Len(line[d]) + 1 /\ line'[d][Len(line[d]) + 1] = p
            /\ DOMAIN line'[d] = 1 .. Len(line[d]) + 1 /\ DOMAIN line[d] = 1 .. Len(line[d])
            /\ \A i \in DOMAIN line[d] : line'[d][i] = line[d][i]
<1> DEFINE p == [kind |-> kind, run |-> resumes, from |-> d]
<1>1. p \in Resumes!Packet /\ line[d] \in Seq(Resumes!Packet)
  BY DEF Resumes!Packet, ResumeTypes
<1> HIDE DEF p
<1>2. Append(line[d], p) \in Seq(Resumes!Packet)
  BY <1>1
<1>3. line' = [line EXCEPT ![d] = Append(line[d], p)]
  BY DEF Resumes!Says, p
<1>4. line' \in [Resumes!Cores -> Seq(Resumes!Packet)] /\ line'[d] = Append(line[d], p)
  BY <1>2, <1>3 DEF ResumeTypes
<1> QED BY <1>1, <1>4, OneAdded DEF p

(* A halted core takes an order: it goes on, says its reason, or does      *)
(* nothing.                                                                *)
LEMMA OrderTaken ==
  ASSUME RspCoresAssumption, ResumeTypes, NEW d \in Resumes!Cores, Resumes!HaltedHandles(d)
  PROVE  /\ target[d] = "halted" /\ inbox[d] # <<>>
         /\ inbox' \in [Resumes!Cores -> Seq({"resume", "break", "?"})]
         /\ inbox'[d] = Tail(inbox[d])
         /\ target' \in [Resumes!Cores -> {"halted", "running"}]
         /\ line' \in [Resumes!Cores -> Seq(Resumes!Packet)]
         /\ outputs' = outputs
         /\ \/ inbox[d][1] = "resume" /\ target'[d] = "running" /\ line'[d] = line[d]
            \/ inbox[d][1] = "?" /\ target'[d] = "halted"
            \/ inbox[d][1] = "break" /\ target'[d] = "halted" /\ line'[d] = line[d]
<1>1. /\ target[d] = "halted" /\ inbox[d] # <<>> /\ inbox' = [inbox EXCEPT ![d] = Tail(inbox[d])]
      /\ inbox[d] \in Seq({"resume", "break", "?"}) /\ UNCHANGED outputs
  BY DEF ResumeTypes, Resumes!HaltedHandles
<1>2. Tail(inbox[d]) \in Seq({"resume", "break", "?"}) /\ Head(inbox[d]) = inbox[d][1]
  BY <1>1
<1>3. inbox' \in [Resumes!Cores -> Seq({"resume", "break", "?"})] /\ inbox'[d] = Tail(inbox[d])
  BY <1>1, <1>2 DEF ResumeTypes
<1>4. CASE Head(inbox[d]) = "?" /\ Resumes!Says(d, "reason") /\ UNCHANGED target
  BY <1>1, <1>2, <1>3, <1>4, PacketSaid DEF ResumeTypes
<1>5. CASE \/ Head(inbox[d]) = "resume" /\ target' = [target EXCEPT ![d] = "running"] /\ UNCHANGED line
           \/ Head(inbox[d]) = "break" /\ UNCHANGED <<target, line>>
  BY <1>1, <1>2, <1>3, <1>5 DEF ResumeTypes
<1> QED BY <1>4, <1>5 DEF Resumes!HaltedHandles

(* A running core stops, by a Ctrl-C or by itself, or writes to the        *)
(* console; it takes no other order.                                       *)
LEMMA RunEnds ==
  ASSUME RspCoresAssumption, ResumeTypes, NEW d \in Resumes!Cores,
         Resumes!RunningBreaks(d) \/ Resumes!RunningReports(d)
  PROVE  /\ target[d] = "running"
         /\ inbox' \in [Resumes!Cores -> Seq({"resume", "break", "?"})]
         /\ \A k \in DOMAIN inbox'[d] : \E j \in DOMAIN inbox[d] : inbox'[d][k] = inbox[d][j]
         /\ target' \in [Resumes!Cores -> {"halted", "running"}]
         /\ \/ target'[d] = "halted" /\ Resumes!Says(d, "stop") /\ outputs' = outputs
            \/ /\ target'[d] = "running" /\ Resumes!Says(d, "output") /\ outputs' = outputs + 1
               /\ inbox' = inbox
<1>1. CASE Resumes!RunningBreaks(d)
  <2>1. PICK i \in DOMAIN inbox[d] :
          inbox' = [inbox EXCEPT ![d] = SubSeq(@, 1, i - 1) \o SubSeq(@, i + 1, Len(@))]
    BY <1>1 DEF Resumes!RunningBreaks
  <2> DEFINE s == inbox[d]
             t == SubSeq(s, 1, i - 1) \o SubSeq(s, i + 1, Len(s))
  <2>2. s \in Seq({"resume", "break", "?"}) /\ i \in DOMAIN s
    BY DEF ResumeTypes
  <2>3. t \in Seq({"resume", "break", "?"}) /\ \A k \in DOMAIN t : \E j \in DOMAIN s : t[k] = s[j]
    <3> HIDE DEF s
    <3> QED BY <2>2, OneTaken
  <2>4. inbox' = [inbox EXCEPT ![d] = t]
    BY <2>1
  <2> HIDE DEF t
  <2>5. inbox' \in [Resumes!Cores -> Seq({"resume", "break", "?"})] /\ inbox'[d] = t
    BY <2>3, <2>4 DEF ResumeTypes
  <2> QED BY <1>1, <2>3, <2>5 DEF Resumes!RunningBreaks, ResumeTypes
<1>2. CASE Resumes!RunningReports(d)
  BY <1>2 DEF Resumes!RunningReports, ResumeTypes
<1> QED BY <1>1, <1>2

(* A resume is still the first thing on its way.                           *)
LEMMA ServerResumeFirst ==
  ASSUME RspCoresAssumption, ResumeTypes, NEW d \in Resumes!Cores, Resumes!Server(d),
         NEW c \in Resumes!Cores, ResumeFirst(c)
  PROVE  ResumeFirst(c)'
<1>1. CASE c # d
  BY <1>1, OtherCores DEF ResumeFirst
<1>2. CASE c = d /\ Resumes!HaltedHandles(d)
  <2>1. /\ inbox[d] \in Seq({"resume", "break", "?"}) /\ inbox[d] # <<>>
        /\ inbox'[d] = Tail(inbox[d])
    BY <1>2, OrderTaken DEF ResumeTypes
  <2>2. \A i \in DOMAIN inbox'[d] : inbox'[d][i] # "resume"
    <3> SUFFICES ASSUME NEW i \in DOMAIN inbox'[d], inbox'[d][i] = "resume" PROVE FALSE
      OBVIOUS
    <3>1. i + 1 \in DOMAIN inbox[d] /\ inbox[d][i + 1] = "resume" /\ i >= 1 /\ i \in Nat
      BY <2>1, FirstTaken
    <3>2. i + 1 = 1
      BY <1>2, <3>1 DEF ResumeFirst
    <3> QED BY <3>1, <3>2
  <2> QED BY <1>2, <2>2 DEF ResumeFirst
<1>3. CASE c = d /\ (Resumes!RunningBreaks(d) \/ Resumes!RunningReports(d))
  <2>1. \A i \in DOMAIN inbox'[d] : inbox'[d][i] # "resume"
    BY <1>3, RunEnds DEF ResumeFirst
  <2> QED BY <1>3, <2>1 DEF ResumeFirst
<1> QED BY <1>1, <1>2, <1>3 DEF Resumes!Server

(* A core that has stopped stays so.                                       *)
LEMMA ServerStopped ==
  ASSUME RspCoresAssumption, ResumeTypes, NEW d \in Resumes!Cores, Resumes!Server(d),
         NEW c \in Resumes!Cores, Stopped(c)
  PROVE  Stopped(c)'
<1>1. CASE c # d
  BY <1>1, OtherCores DEF Stopped
<1>2. CASE c = d /\ Resumes!HaltedHandles(d)
  <2>1. /\ inbox[d] \in Seq({"resume", "break", "?"}) /\ inbox[d] # <<>>
        /\ inbox'[d] = Tail(inbox[d])
    BY <1>2, OrderTaken DEF ResumeTypes
  <2>2. \A i \in DOMAIN inbox'[d] : inbox'[d][i] # "resume"
    BY <1>2, <2>1, FirstTaken DEF Stopped
  <2>3. target'[d] = "halted"
    BY <1>2, <2>1, OrderTaken, FirstTaken DEF Stopped
  <2> QED BY <1>2, <2>2, <2>3 DEF Stopped
<1>3. CASE c = d /\ (Resumes!RunningBreaks(d) \/ Resumes!RunningReports(d))
  BY <1>3, RunEnds DEF Stopped
<1> QED BY <1>1, <1>2, <1>3 DEF Resumes!Server

(* So does one that will halt, once its resume is behind it.               *)
LEMMA ServerWillHalt ==
  ASSUME RspCoresAssumption, ResumeTypes, NEW d \in Resumes!Cores, Resumes!Server(d),
         NEW c \in Resumes!Cores,
         ResumeFirst(c), Resumes!WillHalt(c)
  PROVE  Resumes!WillHalt(c)'
<1>1. breaking' = breaking
  BY OtherCores
<1>2. CASE c # d
  BY <1>1, <1>2, OtherCores DEF Resumes!WillHalt
<1>3. CASE breaking <= c
  BY <1>1, <1>3 DEF Resumes!WillHalt
<1>4. CASE Stopped(c)
  BY <1>4, ServerStopped DEF Stopped, Resumes!WillHalt
<1>5. CASE c = d /\ ~(breaking <= c) /\ ~Stopped(c)
  <2>1. PICK i \in DOMAIN inbox[d] :
          inbox[d][i] = "break" /\ \A j \in i + 1 .. Len(inbox[d]) : inbox[d][j] # "resume"
    BY <1>5 DEF Resumes!WillHalt, Stopped
  <2>2. inbox[d] \in Seq({"resume", "break", "?"}) /\ i \in Nat /\ i >= 1
    BY DEF ResumeTypes
  <2>3. CASE Resumes!HaltedHandles(d)
    <3>1. /\ inbox'[d] = Tail(inbox[d]) /\ inbox[d] # <<>>
          /\ Len(inbox'[d]) = Len(inbox[d]) - 1 /\ DOMAIN inbox'[d] = 1 .. Len(inbox[d]) - 1
          /\ DOMAIN inbox[d] = 1 .. Len(inbox[d]) /\ Len(inbox[d]) \in Nat
          /\ \A k \in DOMAIN inbox'[d] : inbox'[d][k] = inbox[d][k + 1]
      <4>1. inbox'[d] = Tail(inbox[d]) /\ inbox[d] # <<>>
        BY <2>3, OrderTaken
      <4> DEFINE s == inbox[d]
      <4>2. s \in Seq({"resume", "break", "?"}) /\ s # <<>>
        BY <2>2, <4>1
      <4> HIDE DEF s
      <4>3. /\ Len(Tail(s)) = Len(s) - 1 /\ DOMAIN Tail(s) = 1 .. Len(s) - 1
            /\ DOMAIN s = 1 .. Len(s) /\ Len(s) \in Nat
            /\ \A k \in DOMAIN Tail(s) : Tail(s)[k] = s[k + 1]
        BY <4>2, FirstTaken
      <4> QED BY <4>1, <4>3 DEF s
    <3>2. CASE i = 1
      <4>1. \A k \in DOMAIN inbox'[d] : inbox'[d][k] # "resume"
        <5> SUFFICES ASSUME NEW k \in DOMAIN inbox'[d] PROVE inbox'[d][k] # "resume"
          OBVIOUS
        <5>1. k + 1 \in i + 1 .. Len(inbox[d])
          BY <3>1, <3>2
        <5> QED BY <2>1, <3>1, <5>1
      <4>2. target'[d] = "halted"
        BY <2>1, <2>3, <3>2, OrderTaken
      <4> QED BY <1>5, <4>1, <4>2 DEF Resumes!WillHalt
    <3>3. CASE i # 1
      <4>1. i - 1 \in DOMAIN inbox'[d] /\ inbox'[d][i - 1] = "break"
        BY <2>1, <2>2, <3>1, <3>3
      <4>2. \A j \in i - 1 + 1 .. Len(inbox'[d]) : inbox'[d][j] # "resume"
        <5> SUFFICES ASSUME NEW j \in i - 1 + 1 .. Len(inbox'[d])
                     PROVE  inbox'[d][j] # "resume"
          OBVIOUS
        <5>1. j + 1 \in i + 1 .. Len(inbox[d]) /\ j \in DOMAIN inbox'[d]
          BY <2>2, <3>1
        <5> QED BY <2>1, <3>1, <5>1
      <4> QED BY <1>5, <4>1, <4>2 DEF Resumes!WillHalt
    <3> QED BY <3>2, <3>3
  <2>4. CASE Resumes!RunningBreaks(d) \/ Resumes!RunningReports(d)
    <3>1. \A k \in DOMAIN inbox'[d] : inbox'[d][k] # "resume"
      BY <1>5, <2>4, RunEnds DEF ResumeFirst
    <3>2. CASE target'[d] = "halted"
      BY <1>5, <3>1, <3>2 DEF Resumes!WillHalt
    <3>3. CASE inbox' = inbox
      BY <1>5, <2>1, <3>3 DEF Resumes!WillHalt
    <3> QED BY <2>4, <3>2, <3>3, RunEnds
  <2> QED BY <2>3, <2>4 DEF Resumes!Server
<1> QED BY <1>2, <1>3, <1>4, <1>5

(* What is on a line is of this run.                                       *)
LEMMA ServerLine ==
  ASSUME RspCoresAssumption, ResumeTypes, NEW d \in Resumes!Cores, Resumes!Server(d),
         NEW c \in Resumes!Cores,
         ResumeFirst(c), LineOfRun(c)
  PROVE  LineOfRun(c)'
<1>1. resumes' = resumes /\ outputs \in Nat /\ outputs' \in Nat /\ outputs <= outputs'
  BY OtherCores DEF ClientSame, ResumeTypes
<1>2. \A p : p.kind = "output" /\ outputs > 0 => outputs' > 0
  BY <1>1
<1>3. CASE c # d
  BY <1>1, <1>2, <1>3, OtherCores DEF LineOfRun, SaysOf
<1>4. CASE c = d /\ Resumes!HaltedHandles(d)
  <2>1. /\ inbox[d] \in Seq({"resume", "break", "?"}) /\ inbox[d] # <<>>
        /\ inbox'[d] = Tail(inbox[d]) /\ outputs' = outputs
    BY <1>4, OrderTaken DEF ResumeTypes
  <2>2. inbox[d][1] # "?" /\ \A i \in DOMAIN inbox'[d] : inbox'[d][i] # "?"
    BY <1>4, <2>1, FirstTaken DEF LineOfRun
  <2>3. line'[d] = line[d] /\ (target'[d] = "halted" \/ inbox[d][1] = "resume")
    BY <1>4, <2>2, OrderTaken
  <2>5. inbox[d][1] = "resume" => line[d] = <<>>
    BY <1>4, <2>1, FirstTaken DEF ResumeFirst
  <2>6. \A i \in DOMAIN line'[d] : SaysOf(d, line[d][i])'
    <3>1. CASE inbox[d][1] = "resume"
      BY <2>3, <2>5, <3>1
    <3>2. CASE target'[d] = "halted"
      BY <1>1, <1>4, <2>1, <2>3, <3>2 DEF LineOfRun, SaysOf
    <3> QED BY <2>3, <3>1, <3>2
  <2> QED BY <1>4, <2>1, <2>2, <2>3, <2>6 DEF LineOfRun
<1>5. CASE c = d /\ (Resumes!RunningBreaks(d) \/ Resumes!RunningReports(d))
  <2>1. \A i \in DOMAIN inbox'[d] : inbox'[d][i] # "?"
    BY <1>5, RunEnds DEF LineOfRun
  <2>2. \A i \in DOMAIN line[d] : line[d][i].kind = "output" /\ outputs > 0
    BY <1>5, RunEnds DEF LineOfRun, SaysOf
  <2>3. line[d] \in Seq(Resumes!Packet) /\ (outputs = 0 => line[d] = <<>>)
    BY <1>5, <2>2 DEF ResumeTypes
  <2>4. CASE target'[d] = "halted" /\ Resumes!Says(d, "stop") /\ outputs' = outputs
    <3> DEFINE n == Len(line[d])
               p == [kind |-> "stop", run |-> resumes, from |-> d]
    <3>1. /\ Len(line'[d]) = n + 1 /\ line'[d][n + 1] = p /\ DOMAIN line'[d] = 1 .. n + 1
          /\ DOMAIN line[d] = 1 .. n /\ \A i \in DOMAIN line[d] : line'[d][i] = line[d][i]
      BY <2>4, PacketSaid
    <3>2. n \in Nat /\ (outputs = 0 => n = 0)
      BY <2>3
    <3> HIDE DEF n
    <3>3. \A i \in DOMAIN line'[d] : i \in DOMAIN line[d] \/ i = n + 1
      BY <3>1, <3>2
    <3>4. \A i \in DOMAIN line'[d] : SaysOf(d, line[d][i])'
      BY <1>1, <2>2, <2>4, <3>1, <3>3 DEF SaysOf
    <3>5. outputs' = 0 => Len(line'[d]) <= 1
      BY <2>4, <3>1, <3>2
    <3> QED BY <1>5, <2>1, <3>4, <3>5 DEF LineOfRun
  <2>5. CASE Resumes!Says(d, "output") /\ outputs' = outputs + 1
    <3>1. outputs' > 0
      BY <1>1, <2>5
    <3> DEFINE n == Len(line[d])
               p == [kind |-> "output", run |-> resumes, from |-> d]
    <3>2. /\ line'[d][n + 1] = p /\ DOMAIN line'[d] = 1 .. n + 1
          /\ DOMAIN line[d] = 1 .. n /\ \A i \in DOMAIN line[d] : line'[d][i] = line[d][i]
      BY <2>5, PacketSaid
    <3>3. n \in Nat
      BY <2>3
    <3> HIDE DEF n
    <3>4. \A i \in DOMAIN line'[d] : i \in DOMAIN line[d] \/ i = n + 1
      BY <3>2, <3>3
    <3>5. \A i \in DOMAIN line'[d] : SaysOf(d, line[d][i])'
      BY <1>1, <2>2, <3>1, <3>2, <3>4 DEF SaysOf
    <3> QED BY <1>5, <2>1, <3>1, <3>5 DEF LineOfRun
  <2> QED BY <1>5, <2>4, <2>5, RunEnds
<1> QED BY <1>3, <1>4, <1>5 DEF Resumes!Server

(* A core that has stopped, and was heard, says no more.                   *)
LEMMA ServerDiscarded ==
  ASSUME RspCoresAssumption, ResumeTypes, NEW d \in Resumes!Cores, Resumes!Server(d),
         NEW c \in Resumes!Cores,
         LineOfRun(c), Discarded(c)
  PROVE  Discarded(c)'
<1>1. Stopped(c)'
  BY ServerStopped DEF Discarded
<1>2. line'[c] = <<>>
  <2>1. CASE c # d
    BY <2>1, OtherCores DEF Discarded
  <2>2. CASE c = d
    <3>1. Resumes!HaltedHandles(d) /\ inbox[d] \in Seq({"resume", "break", "?"})
      BY <2>2, RunEnds DEF Resumes!Server, Discarded, Stopped, ResumeTypes
    <3>2. inbox[d][1] # "?"
      BY <2>2, <3>1, OrderTaken, FirstTaken DEF LineOfRun
    <3> QED BY <2>2, <3>1, <3>2, OrderTaken DEF Discarded
  <2> QED BY <2>1, <2>2
<1> QED BY <1>1, <1>2 DEF Discarded

(* A step of a core keeps the invariant.                                   *)
LEMMA ServerStep ==
  ASSUME RspCoresAssumption, ResumesInv, NEW d \in Resumes!Cores, Resumes!Server(d)
  PROVE  ResumesInv'
<1>1. ResumeTypes /\ CleanInv /\ ClientSame /\ (outputs' = 0 => outputs = 0)
  <2>1. outputs \in Nat
    BY DEF ResumesInv, ResumeTypes
  <2> QED BY <2>1, OtherCores DEF ResumesInv
<1>2. ResumeTypes'
  <2>1. /\ target' \in [Resumes!Cores -> {"halted", "running"}]
        /\ inbox' \in [Resumes!Cores -> Seq({"resume", "break", "?"})]
        /\ line' \in [Resumes!Cores -> Seq(Resumes!Packet)]
    BY <1>1, OrderTaken, RunEnds, PacketSaid DEF Resumes!Server
  <2>2. outputs' \in 0 .. MaxOutputs
    BY <1>1, OtherCores
  <2> QED BY <1>1, <2>1, <2>2 DEF ClientSame, ResumeTypes
<1>3. CleanInv'
  <2> SUFFICES ASSUME clean
               PROVE  CleanInv'
    BY <1>1 DEF ClientSame, CleanInv
  <2>1. \A c \in Resumes!Cores : /\ ResumeFirst(c) /\ ResumeFirst(c)'
                                 /\ Stopped(c) => Stopped(c)'
                                 /\ Resumes!WillHalt(c) => Resumes!WillHalt(c)'
                                 /\ LineOfRun(c) => LineOfRun(c)'
                                 /\ LineOfRun(c) /\ Discarded(c) => Discarded(c)'
    BY <1>1, ServerResumeFirst, ServerStopped, ServerWillHalt, ServerLine, ServerDiscarded
    DEF CleanInv
  <2>2. pc = "poll" => PollInv'
    BY <1>1, <2>1 DEF CleanInv, PollInv, ClientSame
  <2>3. pc = "discard" => DiscardInv'
    <3> SUFFICES ASSUME pc = "discard" PROVE DiscardInv'
      OBVIOUS
    <3>1. DiscardInv /\ lastKnownActiveCpu \in Resumes!Cores /\ \A c \in Resumes!Cores : LineOfRun(c)
      BY <1>1 DEF CleanInv, ResumeTypes
    <3>2. Stopped(lastKnownActiveCpu) => Stopped(lastKnownActiveCpu)'
      BY <1>1, <2>1, <3>1 DEF ClientSame, Stopped
    <3>3. Resumes!WillHalt(lastKnownActiveCpu) => Resumes!WillHalt(lastKnownActiveCpu)'
      BY <1>1, <2>1, <3>1 DEF ClientSame, Resumes!WillHalt
    <3>4. Discarded(lastKnownActiveCpu) => Discarded(lastKnownActiveCpu)'
      BY <1>1, <2>1, <3>1 DEF ClientSame, Discarded, Stopped
    <3> QED BY <1>1, <2>1, <3>1, <3>2, <3>3, <3>4 DEF DiscardInv, ClientSame
  <2> QED BY <1>1, <2>1, <2>2, <2>3 DEF CleanInv, ClientSame
<1> QED BY <1>2, <1>3 DEF ResumesInv

-----------------------------------------------------------------------------
(* What the client sends and receives.                                     *)

(* An order that is no resume is sent to a core; something may be read.    *)
LEMMA OrderSent ==
  ASSUME RspCoresAssumption, ResumeTypes, NEW d \in Resumes!Cores, NEW x \in {"break", "?"},
         inbox' = [inbox EXCEPT ![d] = Append(@, x)], UNCHANGED target, NEW c \in Resumes!Cores
  PROVE  /\ inbox' \in [Resumes!Cores -> Seq({"resume", "break", "?"})]
         /\ ResumeFirst(c) /\ (line[c] = <<>> => line'[c] = <<>>) => ResumeFirst(c)'
         /\ Stopped(c) => Stopped(c)'
         /\ Resumes!WillHalt(c) /\ (breaking <= c => breaking' <= c \/ (c = d /\ x = "break"))
              => Resumes!WillHalt(c)'
         /\ x = "break" => Resumes!WillHalt(d)'
         /\ x = "break" /\ LineOfRun(c) => \A i \in DOMAIN inbox'[c] : inbox'[c][i] # "?"
<1> DEFINE s == inbox[d]
           t == Append(s, x)
<1>1. s \in Seq({"resume", "break", "?"}) /\ x \in {"resume", "break", "?"}
  BY DEF ResumeTypes
<1>2. inbox' = [inbox EXCEPT ![d] = t]
  OBVIOUS
<1> HIDE DEF s
<1>3. /\ t \in Seq({"resume", "break", "?"}) /\ Len(t) = Len(s) + 1 /\ t[Len(s) + 1] = x
      /\ DOMAIN t = 1 .. Len(s) + 1 /\ DOMAIN s = 1 .. Len(s) /\ Len(s) \in Nat
      /\ \A i \in DOMAIN s : t[i] = s[i]
  BY <1>1, OneAdded
<1> HIDE DEF t
<1>4. /\ inbox' \in [Resumes!Cores -> Seq({"resume", "break", "?"})] /\ inbox'[d] = t
      /\ inbox[d] = s
      /\ c # d => inbox'[c] = inbox[c]
      /\ \A i \in DOMAIN t : i \in DOMAIN s \/ (i = Len(s) + 1 /\ t[i] = x)
  BY <1>2, <1>3 DEF ResumeTypes, s
<1>5. ResumeFirst(c) /\ (line[c] = <<>> => line'[c] = <<>>) => ResumeFirst(c)'
  BY <1>3, <1>4 DEF ResumeFirst
<1>6. Stopped(c) => Stopped(c)'
  BY <1>3, <1>4 DEF Stopped
<1>7. x = "break" => Resumes!WillHalt(d)'
  BY <1>3, <1>4 DEF Resumes!WillHalt
<1>8. Resumes!WillHalt(c) /\ (breaking <= c => breaking' <= c \/ (c = d /\ x = "break"))
        => Resumes!WillHalt(c)'
  <2> SUFFICES ASSUME Resumes!WillHalt(c), breaking <= c => breaking' <= c \/ (c = d /\ x = "break")
               PROVE  Resumes!WillHalt(c)'
    OBVIOUS
  <2>1. CASE breaking <= c
    BY <1>7, <2>1 DEF Resumes!WillHalt
  <2>2. CASE Stopped(c)
    BY <1>6, <2>2 DEF Stopped, Resumes!WillHalt
  <2>3. CASE c # d /\ ~(breaking <= c)
    BY <1>4, <2>3 DEF Resumes!WillHalt
  <2>4. CASE c = d /\ ~(breaking <= c) /\ ~Stopped(c)
    <3>1. PICK i \in DOMAIN s : s[i] = "break" /\ \A j \in i + 1 .. Len(s) : s[j] # "resume"
      BY <1>4, <2>4 DEF Resumes!WillHalt, Stopped
    <3>2. i \in DOMAIN t /\ t[i] = "break"
      BY <1>3, <3>1
    <3>3. ASSUME NEW j \in i + 1 .. Len(t) PROVE t[j] # "resume"
      <4>1. j \in i + 1 .. Len(s) \/ j = Len(s) + 1
        BY <1>3
      <4>2. j \in i + 1 .. Len(s) => j \in DOMAIN s
        BY <1>3
      <4> QED BY <1>3, <3>1, <4>1, <4>2
    <3> QED BY <1>4, <2>4, <3>2, <3>3 DEF Resumes!WillHalt
  <2> QED BY <2>1, <2>2, <2>3, <2>4
<1>9. x = "break" /\ LineOfRun(c) => \A i \in DOMAIN inbox'[c] : inbox'[c][i] # "?"
  BY <1>3, <1>4 DEF LineOfRun
<1> QED BY <1>4, <1>5, <1>6, <1>7, <1>8, <1>9

(* A receive empties a line that holds one packet.                         *)
LEMMA Heard ==
  ASSUME RspCoresAssumption, ResumeTypes, NEW d \in Resumes!Cores, Resumes!Receive(d),
         NEW c \in Resumes!Cores
  PROVE  /\ line' \in [Resumes!Cores -> Seq(Resumes!Packet)] /\ line[d] # <<>>
         /\ 1 \in DOMAIN line[d]
         /\ Head(line[d]) = line[d][1] /\ Head(line[d]) \in Resumes!Packet
         /\ c # d => line'[c] = line[c]
         /\ line[c] = <<>> => line'[c] = <<>>
         /\ Len(line[c]) <= 1 => Len(line'[c]) <= 1
         /\ Len(line[d]) <= 1 => line'[d] = <<>>
         /\ \A k \in DOMAIN line'[c] : \E i \in DOMAIN line[c] : line'[c][k] = line[c][i]
<1> DEFINE s == line[d]
<1>1. PICK n \in DOMAIN s : line' = [line EXCEPT ![d] = SubSeq(s, n + 1, Len(s))]
  BY DEF Resumes!Receive
<1> DEFINE t == SubSeq(s, n + 1, Len(s))
<1>2. s \in Seq(Resumes!Packet) /\ s # <<>>
  BY DEF ResumeTypes, Resumes!Receive
<1> HIDE DEF s
<1>3. /\ t \in Seq(Resumes!Packet) /\ Len(t) = Len(s) - n
      /\ \A k \in DOMAIN t : k + n \in DOMAIN s /\ t[k] = s[k + n]
      /\ Len(s) <= 1 => t = <<>>
  BY <1>2, SomeTaken
<1>4. Head(s) = s[1] /\ 1 \in DOMAIN s /\ Head(s) \in Resumes!Packet /\ Len(s) \in Nat /\ n \in Nat
  BY <1>2
<1> HIDE DEF t
<1>5. line' \in [Resumes!Cores -> Seq(Resumes!Packet)] /\ line'[d] = t /\ (c # d => line'[c] = line[c])
  BY <1>1, <1>3 DEF ResumeTypes, t
<1>6. line[d] = s
  BY DEF s
<1>7. \A k \in DOMAIN line'[c] : \E i \in DOMAIN line[c] : line'[c][k] = line[c][i]
  BY <1>3, <1>5, <1>6
<1>8. Len(line[c]) <= 1 => Len(line'[c]) <= 1
  BY <1>3, <1>4, <1>5, <1>6
<1> QED BY <1>2, <1>3, <1>4, <1>5, <1>6, <1>7, <1>8

-----------------------------------------------------------------------------
(* Every step of the client keeps the invariant.                           *)

(* All cores are sent a resume; nothing of earlier ones is left if clean.  *)
LEMMA ResumeStep ==
  ASSUME RspCoresAssumption, ResumesInv, Resumes!Resume
  PROVE  ResumesInv'
<1>1. /\ ResumeTypes /\ pc' = "poll" /\ core' = lastKnownActiveCpu /\ response' = Resumes!NoPacket
      /\ inbox' = [c \in Resumes!Cores |-> Append(inbox[c], "resume")]
      /\ resumes < MaxResumes /\ resumes' = resumes + 1 /\ interrupted' = {}
      /\ UNCHANGED <<target, line, outputs, lastKnownActiveCpu, interruptEvent, breaking,
                     breaks, reasons>>
  BY DEF ResumesInv, Resumes!Resume
<1>2. clean' => Resumes!Quiet /\ \A c \in Resumes!Cores : target[c] = "halted"
  BY Zenon DEF Resumes!Resume
<1>3. ResumeTypes'
  <2>1. \A c \in Resumes!Cores : Append(inbox[c], "resume") \in Seq({"resume", "break", "?"})
    BY <1>1 DEF ResumeTypes
  <2>2. resumes' \in 0 .. MaxResumes
    BY <1>1, RspCoresAssumption DEF ResumeTypes, RspCoresAssumption
  <2>3. inbox' \in [Resumes!Cores -> Seq({"resume", "break", "?"})]
    BY <1>1, <2>1
  <2> QED BY <1>1, <2>2, <2>3 DEF ResumeTypes
<1>4. CleanInv'
  <2> SUFFICES ASSUME clean' PROVE CleanInv'
    BY DEF CleanInv
  <2>1. /\ ~interruptEvent' /\ breaking' = Resumes!NoCore
        /\ \A c \in Resumes!Cores : line'[c] = <<>> /\ inbox[c] = <<>> /\ target'[c] = "halted"
    BY <1>1, <1>2 DEF Resumes!Quiet
  <2>2. ASSUME NEW c \in Resumes!Cores PROVE inbox'[c] = <<"resume">>
    <3>1. inbox'[c] = Append(<<>>, "resume")
      BY <1>1, <2>1
    <3> QED BY <3>1
  <2>3. \A c \in Resumes!Cores : ResumeFirst(c)' /\ LineOfRun(c)'
    BY <2>1, <2>2 DEF ResumeFirst, LineOfRun
  <2>4. PollInv'
    BY <1>1, <2>1 DEF PollInv
  <2> QED BY <1>1, <2>3, <2>4 DEF CleanInv
<1> QED BY <1>3, <1>4 DEF ResumesInv

(* Nothing came from this core.                                            *)
LEMMA PollNextStep ==
  ASSUME RspCoresAssumption, ResumesInv, Resumes!PollNext
  PROVE  ResumesInv'
<1>1. /\ ResumeTypes /\ CleanInv /\ pc = "poll" /\ core' = Resumes!NextCore
      /\ core \in Resumes!Cores
      /\ UNCHANGED <<target, inbox, line, outputs, pc, lastKnownActiveCpu, response,
                     interruptEvent, breaking, breaks, interrupted, resumes, reasons, clean>>
  BY DEF ResumesInv, Resumes!PollNext, Resumes!servers, Resumes!history, ResumeTypes
<1>2. ResumeTypes'
  BY <1>1, NextOf DEF ResumeTypes
<1>3. CleanInv'
  BY <1>1 DEF CleanInv, ResumeFirst, LineOfRun, SaysOf, PollInv, Resumes!WillHalt
<1> QED BY <1>2, <1>3 DEF ResumesInv

(* A line that is received is still of this run.                           *)
LEMMA LineHeard ==
  ASSUME RspCoresAssumption, ResumeTypes, NEW d \in Resumes!Cores, Resumes!Receive(d),
         NEW c \in Resumes!Cores, LineOfRun(c),
         UNCHANGED <<target, outputs, resumes>>, \A i \in DOMAIN inbox'[c] : inbox'[c][i] # "?"
  PROVE  LineOfRun(c)'
BY Heard DEF LineOfRun, SaysOf

(* The polling ends with what a core has sent, or an interrupt by the user.*)
LEMMA PollEndsStep ==
  ASSUME RspCoresAssumption, ResumesInv, Resumes!PollEnds
  PROVE  ResumesInv'
<1>1. /\ ResumeTypes /\ CleanInv /\ pc = "poll" /\ core \in Resumes!Cores
      /\ pc' = "discard" /\ core' = 0 /\ lastKnownActiveCpu' = core
      /\ UNCHANGED <<target, inbox, outputs, breaking, breaks, interrupted, resumes, reasons,
                     clean>>
      /\ \/ Resumes!Receive(core) /\ response' = Head(line[core])
         \/ Resumes!UserInterrupt(core) /\ UNCHANGED <<line, response>>
  BY DEF ResumesInv, Resumes!PollEnds, Resumes!StartDiscard, Resumes!history, ResumeTypes
<1>2. ResumeTypes'
  <2>1. /\ line' \in [Resumes!Cores -> Seq(Resumes!Packet)]
        /\ response' \in Resumes!Packet \cup {Resumes!NoPacket}
    <3>1. CASE Resumes!Receive(core) /\ response' = Head(line[core])
      BY <1>1, <3>1, Heard
    <3>2. CASE UNCHANGED <<line, response>>
      BY <1>1, <3>2 DEF ResumeTypes
    <3> QED BY <1>1, <3>1, <3>2
  <2>2. core' \in Resumes!Cores /\ lastKnownActiveCpu' \in Resumes!Cores
    BY <1>1, ResumeNumbers
  <2> QED BY <1>1, <2>1, <2>2 DEF ResumeTypes
<1>3. CleanInv'
  <2> SUFFICES ASSUME clean PROVE CleanInv'
    BY <1>1 DEF CleanInv
  <2>1. /\ \A c \in Resumes!Cores : ResumeFirst(c) /\ LineOfRun(c)
        /\ PollInv
    BY <1>1 DEF CleanInv
  <2>2. \A c \in Resumes!Cores : ResumeFirst(c)' /\ LineOfRun(c)'
    <3>1. CASE Resumes!Receive(core)
      BY <1>1, <2>1, <3>1, Heard, LineHeard DEF ResumeFirst, LineOfRun
    <3>2. CASE UNCHANGED line
      BY <1>1, <2>1, <3>2 DEF ResumeFirst, LineOfRun, SaysOf
    <3> QED BY <1>1, <3>1, <3>2
  <2>3. \A c \in Resumes!Cores : ~(c < core')
    BY <1>1, ResumeNumbers
  <2>4. CASE Resumes!Receive(core) /\ response' = Head(line[core])
    <3> DEFINE d == core
    <3>1. response' = line[d][1] /\ 1 \in DOMAIN line[d] /\ line[d] # <<>> /\ d \in Resumes!Cores
      BY <1>1, <2>4, Heard
    <3>2. SaysOf(d, line[d][1])
      BY <2>1, <3>1 DEF LineOfRun
    <3>3. target[d] = "halted" => Stopped(d)
      BY <2>1, <3>1 DEF ResumeFirst, Stopped
    <3>4. Stopped(d) => target'[d] = "halted" /\ \A i \in DOMAIN inbox'[d] : inbox'[d][i] # "resume"
      BY <1>1 DEF Stopped
    <3>5. response'.kind = "stop" => response'.run = resumes /\ response'.from = d /\ Stopped(d)
      BY <3>1, <3>2, <3>3 DEF SaysOf
    <3>6. outputs = 0 => Stopped(d) /\ line'[d] = <<>>
      BY <1>1, <2>1, <2>4, <3>1, <3>2, <3>3, Heard DEF SaysOf, LineOfRun, ResumeTypes
    <3> HIDE DEF d
    <3>7. lastKnownActiveCpu' = d
      BY <1>1 DEF d
    <3>8. Stopped(d) => Stopped(lastKnownActiveCpu)' /\ Resumes!WillHalt(lastKnownActiveCpu)'
      BY <3>4, <3>7 DEF Stopped, Resumes!WillHalt
    <3>9. DiscardInv'
      BY <1>1, <2>3, <3>5, <3>6, <3>7, <3>8 DEF DiscardInv, Discarded
    <3> QED BY <1>1, <2>2, <3>9 DEF CleanInv
  <2>5. CASE Resumes!UserInterrupt(core) /\ UNCHANGED <<line, response>>
    <3>1. interruptEvent /\ \A c \in Resumes!Cores : Resumes!WillHalt(c)
      BY <2>1, <2>5 DEF Resumes!UserInterrupt, PollInv
    <3>2. \A c \in Resumes!Cores : Resumes!WillHalt(c)'
      BY <1>1, <3>1 DEF Resumes!WillHalt
    <3>3. Resumes!WillHalt(lastKnownActiveCpu)'
      BY <1>1, <3>2 DEF Resumes!WillHalt
    <3>4. response' = Resumes!NoPacket /\ response'.kind # "stop"
      BY <2>1, <2>5 DEF PollInv, Resumes!NoPacket
    <3>5. DiscardInv'
      BY <1>1, <2>3, <3>3, <3>4 DEF DiscardInv
    <3> QED BY <1>1, <2>2, <3>5 DEF CleanInv
  <2> QED BY <1>1, <2>4, <2>5
<1> QED BY <1>2, <1>3 DEF ResumesInv

(* A core dealt with: what it has sent is dropped, or it is sent a Ctrl-C, *)
(* and none of the others is disturbed.                                    *)
CoreDealtWith ==
  /\ \A c \in Resumes!Cores : /\ ResumeFirst(c)' /\ LineOfRun(c)'
                              /\ Stopped(c) => Stopped(c)'
                              /\ Resumes!WillHalt(c) => Resumes!WillHalt(c)'
                              /\ Discarded(c) => Discarded(c)'
  /\ outputs = 0 => \A c \in Resumes!Cores : c = core =>
       Resumes!WillHalt(c)' /\ (c = lastKnownActiveCpu \/ c \in interrupted' \/ Discarded(c)')
  /\ interrupted \subseteq interrupted'

(* Each way to discard deals with the core.                                *)
LEMMA DiscardDealsWith ==
  ASSUME RspCoresAssumption, ResumesInv, clean,
         Resumes!DiscardSkips \/ Resumes!DiscardDrops \/ Resumes!DiscardInterrupts
  PROVE  CoreDealtWith
<1>1. /\ ResumeTypes /\ pc = "discard" /\ core \in Resumes!Cores
      /\ \A c \in Resumes!Cores : ResumeFirst(c) /\ LineOfRun(c)
      /\ DiscardInv
      /\ UNCHANGED <<target, outputs, resumes, breaking, lastKnownActiveCpu>>
  BY
  DEF ResumesInv, ResumeTypes, CleanInv, Resumes!DiscardSkips, Resumes!DiscardDrops,
      Resumes!DiscardInterrupts, Resumes!servers, Resumes!history
<1> DEFINE d == core
<1>2. CASE Resumes!DiscardSkips
  <2>1. UNCHANGED <<inbox, line, interrupted>> /\ d = lastKnownActiveCpu
    BY <1>2 DEF Resumes!DiscardSkips, Resumes!servers
  <2>2. \A c \in Resumes!Cores : /\ ResumeFirst(c)' /\ LineOfRun(c)'
                                 /\ Stopped(c) => Stopped(c)'
                                 /\ Resumes!WillHalt(c) => Resumes!WillHalt(c)'
                                 /\ Discarded(c) => Discarded(c)'
    BY <1>1, <2>1 DEF ResumeFirst, LineOfRun, SaysOf, Stopped, Resumes!WillHalt, Discarded
  <2>3. outputs = 0 => Resumes!WillHalt(lastKnownActiveCpu) /\ lastKnownActiveCpu \in Resumes!Cores
    BY <1>1 DEF DiscardInv, ResumeTypes
  <2>4. outputs = 0 => \A c \in Resumes!Cores : c = d => Resumes!WillHalt(c)
    BY <2>1, <2>3 DEF Resumes!WillHalt
  <2> QED BY <2>1, <2>2, <2>4 DEF CoreDealtWith
<1>3. CASE Resumes!DiscardDrops
  <2>1. UNCHANGED <<inbox, interrupted>> /\ Resumes!Receive(d) /\ d \in Resumes!Cores
    BY <1>1, <1>3 DEF Resumes!DiscardDrops
  <2>2. \A c \in Resumes!Cores : /\ ResumeFirst(c)' /\ LineOfRun(c)'
                                 /\ Stopped(c) => Stopped(c)'
                                 /\ Resumes!WillHalt(c) => Resumes!WillHalt(c)'
                                 /\ Discarded(c) => Discarded(c)'
    <3> SUFFICES ASSUME NEW c \in Resumes!Cores
                 PROVE  /\ ResumeFirst(c)' /\ LineOfRun(c)'
                        /\ Stopped(c) => Stopped(c)'
                        /\ Resumes!WillHalt(c) => Resumes!WillHalt(c)'
                        /\ Discarded(c) => Discarded(c)'
      OBVIOUS
    <3>1. line[c] = <<>> => line'[c] = <<>>
      BY <1>1, <2>1, Heard
    <3>2. LineOfRun(c)'
      BY <1>1, <2>1, LineHeard DEF LineOfRun
    <3> QED BY <1>1, <2>1, <3>1, <3>2 DEF ResumeFirst, Stopped, Resumes!WillHalt, Discarded
  <2>3. ASSUME outputs = 0, NEW c \in Resumes!Cores, c = d
        PROVE  Resumes!WillHalt(c)' /\ Discarded(c)'
    <3>1. line[c] # <<>> /\ 1 \in DOMAIN line[c] /\ (Len(line[c]) <= 1 => line'[c] = <<>>)
      BY <1>1, <2>1, <2>3, Heard
    <3>2. SaysOf(c, line[c][1]) /\ Len(line[c]) <= 1
      BY <1>1, <2>3, <3>1 DEF LineOfRun
    <3>3. Stopped(c)
      BY <1>1, <2>3, <3>1, <3>2 DEF SaysOf, ResumeFirst, Stopped
    <3>4. Stopped(c)'
      BY <2>2, <3>3
    <3> QED BY <3>1, <3>2, <3>4 DEF Discarded, Stopped, Resumes!WillHalt
  <2> QED BY <2>1, <2>2, <2>3 DEF CoreDealtWith
<1>4. CASE Resumes!DiscardInterrupts
  <2>1. /\ UNCHANGED line /\ d \in Resumes!Cores
        /\ inbox' = [inbox EXCEPT ![d] = Append(@, "break")]
        /\ interrupted' = interrupted \cup {d}
    BY <1>1, <1>4 DEF Resumes!DiscardInterrupts, Resumes!SendInterrupt
  <2>2. ASSUME NEW c \in Resumes!Cores
        PROVE  /\ ResumeFirst(c)' /\ LineOfRun(c)'
               /\ Stopped(c) => Stopped(c)'
               /\ Resumes!WillHalt(c) => Resumes!WillHalt(c)'
               /\ Discarded(c) => Discarded(c)'
    <3>1. /\ ResumeFirst(c)'
          /\ (Stopped(c) => Stopped(c)') /\ (Resumes!WillHalt(c) => Resumes!WillHalt(c)')
          /\ \A i \in DOMAIN inbox'[c] : inbox'[c][i] # "?"
      BY <1>1, <2>1, OrderSent
    <3> QED BY <1>1, <2>1, <3>1 DEF LineOfRun, SaysOf, Discarded
  <2>3. ASSUME NEW c \in Resumes!Cores, c = d PROVE Resumes!WillHalt(c)' /\ c \in interrupted'
    BY <1>1, <2>1, <2>3, OrderSent
  <2> QED BY <2>1, <2>2, <2>3 DEF CoreDealtWith
<1> QED BY <1>2, <1>3, <1>4

(* What a step of the discarding leaves alone, and what it keeps typed.    *)
LEMMA DiscardTypes ==
  ASSUME RspCoresAssumption, ResumeTypes,
         Resumes!DiscardSkips \/ Resumes!DiscardDrops \/ Resumes!DiscardInterrupts
  PROVE  /\ ResumeTypes' /\ pc = "discard" /\ core \in Resumes!Cores
         /\ core' = core + 1 /\ pc' = (IF core' = Resumes!NoCore THEN "idle" ELSE "discard")
         /\ UNCHANGED <<target, outputs, lastKnownActiveCpu, response, resumes, clean>>
<1>1. /\ pc = "discard" /\ core \in Resumes!Cores
      /\ core' = core + 1 /\ pc' = (IF core' = Resumes!NoCore THEN "idle" ELSE "discard")
      /\ UNCHANGED <<target, outputs, lastKnownActiveCpu, response, breaking, breaks, resumes,
                     reasons, clean>>
  BY
  DEF ResumeTypes, Resumes!DiscardSkips, Resumes!DiscardDrops, Resumes!DiscardInterrupts,
      Resumes!NextDiscard, Resumes!servers, Resumes!history
<1>2. core' \in Resumes!Cores \cup {Resumes!NoCore} /\ (pc' # "idle" => core' \in Resumes!Cores)
      /\ pc' \in {"idle", "discard"}
  BY <1>1, ResumeNumbers
<1>3. /\ inbox' \in [Resumes!Cores -> Seq({"resume", "break", "?"})]
      /\ line' \in [Resumes!Cores -> Seq(Resumes!Packet)]
      /\ interrupted' \subseteq Resumes!Cores
  <2>1. CASE Resumes!DiscardSkips
    BY <2>1 DEF Resumes!DiscardSkips, Resumes!servers, ResumeTypes
  <2>2. CASE Resumes!DiscardDrops
    BY <1>1, <2>2, Heard DEF Resumes!DiscardDrops, ResumeTypes
  <2>3. CASE Resumes!DiscardInterrupts
    <3>1. /\ UNCHANGED line /\ inbox' = [inbox EXCEPT ![core] = Append(@, "break")]
          /\ interrupted' = interrupted \cup {core}
      BY <2>3 DEF Resumes!DiscardInterrupts, Resumes!SendInterrupt
    <3> QED BY <1>1, <3>1, OrderSent DEF ResumeTypes
  <2> QED BY <2>1, <2>2, <2>3
<1>4. ResumeTypes'
  BY <1>1, <1>2, <1>3 DEF ResumeTypes
<1> QED BY <1>1, <1>4

(* One more core is dealt with; after the last, all of them are.           *)
LEMMA DiscardStep ==
  ASSUME RspCoresAssumption, ResumesInv,
         Resumes!DiscardSkips \/ Resumes!DiscardDrops \/ Resumes!DiscardInterrupts
  PROVE  ResumesInv'
<1>1. /\ ResumeTypes /\ CleanInv /\ ResumeTypes' /\ pc = "discard" /\ core \in Resumes!Cores
      /\ core' = core + 1 /\ pc' = (IF core' = Resumes!NoCore THEN "idle" ELSE "discard")
      /\ UNCHANGED <<target, outputs, lastKnownActiveCpu, response, resumes, clean>>
  BY DiscardTypes DEF ResumesInv
<1>2. CleanInv'
  <2> SUFFICES ASSUME clean PROVE CleanInv'
    BY <1>1 DEF CleanInv
  <2>1. CoreDealtWith /\ DiscardInv /\ lastKnownActiveCpu \in Resumes!Cores
    BY <1>1, DiscardDealsWith DEF CleanInv, ResumeTypes
  <2>2. \A c \in Resumes!Cores : ResumeFirst(c)' /\ LineOfRun(c)'
    BY <2>1 DEF CoreDealtWith
  <2>3. \A c \in Resumes!Cores : c < core' => c < core \/ c = core
    BY <1>1, ResumeNumbers
  <2>4. ASSUME outputs = 0, NEW c \in Resumes!Cores, c < core'
        PROVE  /\ Resumes!WillHalt(c)'
               /\ c = lastKnownActiveCpu \/ c \in interrupted' \/ Discarded(c)'
    <3>1. CASE c < core
      BY <2>1, <2>4, <3>1 DEF CoreDealtWith, DiscardInv
    <3>2. CASE c = core
      BY <2>1, <2>4, <3>2 DEF CoreDealtWith
    <3> QED BY <2>3, <2>4, <3>1, <3>2
  <2>5. CASE core' = Resumes!NoCore
    <3>1. \A c \in Resumes!Cores : c < core'
      BY <2>5, ResumeNumbers
    <3> QED BY <1>1, <2>2, <2>4, <2>5, <3>1 DEF CleanInv
  <2>6. CASE core' # Resumes!NoCore
    <3> DEFINE a == lastKnownActiveCpu
    <3>1. Stopped(a) => Stopped(lastKnownActiveCpu)'
      BY <1>1, <2>1 DEF CoreDealtWith, Stopped
    <3>2. Resumes!WillHalt(a) => Resumes!WillHalt(lastKnownActiveCpu)'
      BY <1>1, <2>1 DEF CoreDealtWith, Resumes!WillHalt
    <3>3. Discarded(a) => Discarded(lastKnownActiveCpu)'
      BY <1>1, <2>1 DEF CoreDealtWith, Discarded, Stopped
    <3>4. DiscardInv'
      BY <1>1, <2>1, <2>4, <3>1, <3>2, <3>3 DEF DiscardInv
    <3> QED BY <1>1, <2>2, <2>6, <3>4 DEF CleanInv
  <2> QED BY <2>5, <2>6
<1> QED BY <1>1, <1>2 DEF ResumesInv

(* Another thread starts to break in: it will come to every core.          *)
LEMMA BreakStep ==
  ASSUME RspCoresAssumption, ResumesInv, Resumes!Break
  PROVE  ResumesInv'
<1>1. /\ ResumeTypes /\ CleanInv /\ pc \in {"poll", "discard"} /\ breaking = Resumes!NoCore
      /\ breaks < MaxBreaks /\ breaking' = 0 /\ breaks' = breaks + 1
      /\ UNCHANGED <<target, inbox, line, outputs, pc, core, lastKnownActiveCpu, response,
                     interruptEvent, interrupted, resumes, reasons, clean>>
  BY DEF ResumesInv, Resumes!Break, Resumes!servers, Resumes!client, Resumes!history
<1>2. ResumeTypes'
  <2>1. breaks' \in 0 .. MaxBreaks /\ breaking' \in Resumes!Cores
    BY <1>1, ResumeNumbers DEF ResumeTypes, RspCoresAssumption
  <2> QED BY <1>1, <2>1 DEF ResumeTypes
<1>3. \A c \in Resumes!Cores : Resumes!WillHalt(c)'
  BY <1>1, ResumeNumbers DEF Resumes!WillHalt
<1>4. lastKnownActiveCpu \in Resumes!Cores
  BY <1>1 DEF ResumeTypes
<1>5. CleanInv'
  <2> SUFFICES ASSUME clean PROVE CleanInv'
    BY <1>1 DEF CleanInv
  <2>1. \A c \in Resumes!Cores : /\ ResumeFirst(c)' /\ (LineOfRun(c) => LineOfRun(c)')
                                 /\ (Stopped(c) => Stopped(c)') /\ (Discarded(c) => Discarded(c)')
    BY <1>1 DEF CleanInv, ResumeFirst, LineOfRun, SaysOf, Stopped, Discarded
  <2>2. pc = "poll" => PollInv'
    BY <1>1, <1>3 DEF CleanInv, PollInv
  <2>3. pc = "discard" => DiscardInv'
    <3>1. Resumes!WillHalt(lastKnownActiveCpu)'
      BY <1>1, <1>3, <1>4 DEF Resumes!WillHalt
    <3>2. /\ Stopped(lastKnownActiveCpu) => Stopped(lastKnownActiveCpu)'
          /\ Discarded(lastKnownActiveCpu) => Discarded(lastKnownActiveCpu)'
      BY <1>1 DEF Stopped, Discarded
    <3> QED BY <1>1, <1>3, <2>1, <3>1, <3>2 DEF CleanInv, DiscardInv
  <2> QED BY <1>1, <2>1, <2>2, <2>3 DEF CleanInv
<1> QED BY <1>2, <1>5 DEF ResumesInv

(* It sends the next core a Ctrl-C.                                        *)
LEMMA SendRspInterruptStep ==
  ASSUME RspCoresAssumption, ResumesInv, Resumes!SendRspInterrupt
  PROVE  ResumesInv'
<1> DEFINE b == breaking
<1>1. /\ ResumeTypes /\ CleanInv /\ b \in Resumes!Cores /\ breaking = b /\ breaking' = b + 1
      /\ inbox' = [inbox EXCEPT ![b] = Append(@, "break")]
      /\ interrupted' = interrupted \cup {b}
      /\ UNCHANGED <<target, line, outputs, pc, core, lastKnownActiveCpu, response, breaks,
                     resumes, reasons, clean>>
  BY
  DEF ResumesInv, Resumes!SendRspInterrupt, Resumes!SendInterrupt, Resumes!client,
      Resumes!history, ResumeTypes
<1>0. b # Resumes!NoCore
  BY <1>1, ResumeNumbers
<1> HIDE DEF b
<1>2. ResumeTypes'
  <2>1. breaking' \in Resumes!Cores \cup {Resumes!NoCore}
    BY <1>1, ResumeNumbers
  <2>2. inbox' \in [Resumes!Cores -> Seq({"resume", "break", "?"})]
    BY <1>1, OrderSent
  <2> QED BY <1>1, <2>1, <2>2 DEF ResumeTypes
<1>3. \A c \in Resumes!Cores : breaking <= c => breaking' <= c \/ c = b
  BY <1>1, ResumeNumbers
<1>4. CleanInv'
  <2> SUFFICES ASSUME clean PROVE CleanInv'
    BY <1>1 DEF CleanInv
  <2>1. ASSUME NEW c \in Resumes!Cores
        PROVE  /\ ResumeFirst(c)' /\ (LineOfRun(c) => LineOfRun(c)')
               /\ (Stopped(c) => Stopped(c)') /\ (Discarded(c) => Discarded(c)')
               /\ (Resumes!WillHalt(c) => Resumes!WillHalt(c)')
    <3>1. /\ ResumeFirst(c)'
          /\ (Stopped(c) => Stopped(c)') /\ (Resumes!WillHalt(c) => Resumes!WillHalt(c)')
          /\ LineOfRun(c) => \A i \in DOMAIN inbox'[c] : inbox'[c][i] # "?"
      BY <1>1, <1>3, OrderSent DEF CleanInv
    <3> QED BY <1>1, <3>1 DEF LineOfRun, SaysOf, Discarded
  <2>2. pc = "poll" => PollInv'
    BY <1>0, <1>1, <2>1 DEF CleanInv, PollInv
  <2>3. pc = "discard" => DiscardInv'
    <3> DEFINE a == lastKnownActiveCpu
    <3>0. a \in Resumes!Cores
      BY <1>1 DEF ResumeTypes
    <3>1. Stopped(a) => Stopped(lastKnownActiveCpu)'
      BY <1>1, <2>1, <3>0 DEF Stopped
    <3>2. Resumes!WillHalt(a) => Resumes!WillHalt(lastKnownActiveCpu)'
      BY <1>1, <2>1, <3>0 DEF Resumes!WillHalt
    <3>3. Discarded(a) => Discarded(lastKnownActiveCpu)'
      BY <1>1, <2>1, <3>0 DEF Discarded, Stopped
    <3> QED BY <1>1, <2>1, <3>1, <3>2, <3>3 DEF CleanInv, DiscardInv
  <2> QED BY <1>1, <2>1, <2>2, <2>3 DEF CleanInv
<1> QED BY <1>2, <1>4 DEF ResumesInv

(* Each core is asked in turn for the reason why it halted.                *)
LEMMA ReportReasonStep ==
  ASSUME RspCoresAssumption, ResumesInv, Resumes!ReportReasonTargetHalted
  PROVE  ResumesInv'
<1>1. /\ ResumeTypes /\ CleanInv /\ pc = "idle" /\ reasons < MaxReasons /\ reasons' = reasons + 1
      /\ inbox' = [inbox EXCEPT ![0] = Append(@, "?")] /\ pc' = "reason" /\ core' = 0
      /\ UNCHANGED <<target, line, outputs, lastKnownActiveCpu, response, breaking, breaks,
                     interrupted, resumes, clean>>
  BY DEF ResumesInv, Resumes!ReportReasonTargetHalted, Resumes!AskReason
<1>2. 0 \in Resumes!Cores
  BY ResumeNumbers
<1>3. ResumeTypes'
  <2>1. reasons' \in 0 .. MaxReasons
    BY <1>1 DEF ResumeTypes, RspCoresAssumption
  <2>2. inbox' \in [Resumes!Cores -> Seq({"resume", "break", "?"})]
    BY <1>1, <1>2, OrderSent
  <2> QED BY <1>1, <1>2, <2>1, <2>2 DEF ResumeTypes
<1>4. \A c \in Resumes!Cores : /\ ResumeFirst(c) => ResumeFirst(c)'
                               /\ Resumes!WillHalt(c) => Resumes!WillHalt(c)'
  BY <1>1, <1>2, OrderSent
<1>5. CleanInv'
  BY <1>1, <1>4 DEF CleanInv
<1> QED BY <1>3, <1>5 DEF ResumesInv

(* The core that is asked answers, and is the last one or is not.          *)
LEMMA ReasonAnsweredStep ==
  ASSUME RspCoresAssumption, ResumesInv, Resumes!ReasonAnswered
  PROVE  ResumesInv'
<1>1. /\ ResumeTypes /\ CleanInv /\ pc = "reason" /\ core \in Resumes!Cores
      /\ Resumes!Receive(core) /\ response' = Head(line[core])
      /\ UNCHANGED <<target, outputs, breaking, breaks, interrupted, resumes, reasons, clean>>
  BY DEF ResumesInv, Resumes!ReasonAnswered, Resumes!history, ResumeTypes
<1>2. /\ line' \in [Resumes!Cores -> Seq(Resumes!Packet)] /\ response' \in Resumes!Packet
      /\ \A c \in Resumes!Cores : line[c] = <<>> => line'[c] = <<>>
  BY <1>1, Heard
<1>3. /\ lastKnownActiveCpu' \in Resumes!Cores /\ pc' \in {"idle", "reason"}
      /\ core' \in Resumes!Cores
      /\ \/ UNCHANGED inbox
         \/ core + 1 \in Resumes!Cores /\ inbox' = [inbox EXCEPT ![core + 1] = Append(@, "?")]
  BY <1>1 DEF Resumes!ReasonAnswered, Resumes!AskReason, ResumeTypes
<1>4. inbox' \in [Resumes!Cores -> Seq({"resume", "break", "?"})]
  <2>1. CASE UNCHANGED inbox
    BY <1>1, <2>1 DEF ResumeTypes
  <2>2. CASE core + 1 \in Resumes!Cores /\ inbox' = [inbox EXCEPT ![core + 1] = Append(@, "?")]
    BY <1>1, <2>2, OrderSent
  <2> QED BY <1>3, <2>1, <2>2
<1>5. ResumeTypes'
  BY <1>1, <1>2, <1>3, <1>4 DEF ResumeTypes
<1>6. \A c \in Resumes!Cores : /\ ResumeFirst(c) => ResumeFirst(c)'
                               /\ Resumes!WillHalt(c) => Resumes!WillHalt(c)'
  <2>1. CASE UNCHANGED inbox
    BY <1>1, <1>2, <2>1 DEF ResumeFirst, Resumes!WillHalt
  <2>2. CASE core + 1 \in Resumes!Cores /\ inbox' = [inbox EXCEPT ![core + 1] = Append(@, "?")]
    BY <1>1, <1>2, <2>2, OrderSent
  <2> QED BY <1>3, <2>1, <2>2
<1>7. CleanInv'
  BY <1>1, <1>3, <1>6 DEF CleanInv
<1> QED BY <1>5, <1>7 DEF ResumesInv

(* A core that runs does not answer.                                       *)
LEMMA ReasonFailsStep ==
  ASSUME RspCoresAssumption, ResumesInv, Resumes!ReasonFails
  PROVE  ResumesInv'
<1>1. /\ ResumeTypes /\ CleanInv /\ pc = "reason" /\ pc' = "idle" /\ response' = Resumes!NoPacket
      /\ UNCHANGED <<target, inbox, line, outputs, core, lastKnownActiveCpu, breaking, breaks,
                     interrupted, resumes, reasons, clean>>
  BY DEF ResumesInv, Resumes!ReasonFails, Resumes!servers, Resumes!history
<1>2. ResumeTypes'
  BY <1>1 DEF ResumeTypes
<1>3. CleanInv'
  BY <1>1 DEF CleanInv, ResumeFirst, Resumes!WillHalt
<1> QED BY <1>2, <1>3 DEF ResumesInv

(* Nothing changes.                                                        *)
LEMMA StutterStep ==
  ASSUME RspCoresAssumption, ResumesInv, UNCHANGED Resumes!vars
  PROVE  ResumesInv'
<1>1. UNCHANGED <<target, inbox, line, outputs, pc, core, lastKnownActiveCpu, response,
                  interruptEvent, breaking, breaks, interrupted, resumes, reasons, clean>>
  BY DEF Resumes!vars, Resumes!servers, Resumes!client, Resumes!history
<1>2. ResumeTypes' /\ ResumeTypes /\ CleanInv
  BY <1>1 DEF ResumesInv, ResumeTypes
<1>3. /\ \A c \in Resumes!Cores : /\ ResumeFirst(c) => ResumeFirst(c)'
                                  /\ LineOfRun(c) => LineOfRun(c)'
                                  /\ Resumes!WillHalt(c) => Resumes!WillHalt(c)'
      /\ PollInv => PollInv'
  BY <1>1 DEF ResumeFirst, LineOfRun, SaysOf, Resumes!WillHalt, PollInv
<1>4. DiscardInv => DiscardInv'
  BY <1>1 DEF DiscardInv, Discarded, Stopped, Resumes!WillHalt
<1>5. CleanInv'
  BY <1>1, <1>2, <1>3, <1>4 DEF CleanInv
<1> QED BY <1>2, <1>5 DEF ResumesInv

(* Every step keeps the invariant, and it holds initially.                 *)
LEMMA ResumesStep ==
  ASSUME RspCoresAssumption, ResumesInv, [Resumes!Next]_Resumes!vars
  PROVE  ResumesInv'
BY ServerStep, ResumeStep, PollNextStep, PollEndsStep, DiscardStep, BreakStep,
   SendRspInterruptStep, ReportReasonStep, ReasonAnsweredStep, ReasonFailsStep, StutterStep
DEF Resumes!Next, Resumes!Resuming

(* The invariant holds at the start.                                       *)
LEMMA ResumesInit ==
  ASSUME RspCoresAssumption, Resumes!Init
  PROVE  ResumesInv /\ ResumeFlags
<1>1. ResumeTypes
  BY ResumeNumbers DEF Resumes!Init, ResumeTypes, RspCoresAssumption
<1>2. CleanInv
  BY DEF Resumes!Init, CleanInv, ResumeFirst, Resumes!WillHalt
<1>3. ResumeFlags
  BY Zenon DEF Resumes!Init, ResumeFlags
<1> QED BY <1>1, <1>2, <1>3 DEF ResumesInv

(* The flags keep their types.                                             *)
LEMMA FlagsStep ==
  ASSUME RspCoresAssumption, ResumesInv, ResumeFlags, [Resumes!Next]_Resumes!vars
  PROVE  ResumeFlags'
<1>1. IsPollingChannelMode' \in BOOLEAN
  <2>1. IsPollingChannelMode' \in {IsPollingChannelMode, TRUE, FALSE}
    BY Zenon
    DEF Resumes!vars, Resumes!client, Resumes!servers, Resumes!history, Resumes!Next,
        Resumes!Server, Resumes!HaltedHandles, Resumes!RunningBreaks,
       Resumes!RunningReports, Resumes!Resume, Resumes!Resuming, Resumes!PollNext,
       Resumes!PollEnds, Resumes!StartDiscard, Resumes!DiscardSkips,
       Resumes!DiscardDrops, Resumes!DiscardInterrupts, Resumes!Break, Resumes!SendRspInterrupt,
       Resumes!ReportReasonTargetHalted,
       Resumes!ReasonAnswered, Resumes!ReasonFails
  <2> QED BY Zenon, <2>1 DEF ResumeFlags
<1>2. interruptEvent' \in BOOLEAN
  <2>1. interruptEvent' \in {interruptEvent, TRUE, FALSE}
    BY Zenon
    DEF Resumes!vars, Resumes!client, Resumes!servers, Resumes!history, Resumes!Next,
        Resumes!Server, Resumes!HaltedHandles, Resumes!RunningBreaks,
       Resumes!RunningReports, Resumes!Resume, Resumes!Resuming, Resumes!PollNext,
       Resumes!PollEnds, Resumes!StartDiscard, Resumes!DiscardSkips,
       Resumes!DiscardDrops, Resumes!DiscardInterrupts, Resumes!Break, Resumes!SendRspInterrupt,
       Resumes!ReportReasonTargetHalted,
       Resumes!ReasonAnswered, Resumes!ReasonFails, Resumes!Receive, Resumes!UserInterrupt
  <2> QED BY Zenon, <2>1 DEF ResumeFlags
<1>3. clean' \in BOOLEAN
  <2>1. \/ UNCHANGED clean
        \/ clean' = (Resumes!Quiet /\ \A c \in Resumes!Cores : target[c] = "halted")
    BY Zenon
    DEF Resumes!vars, Resumes!client, Resumes!servers, Resumes!history, Resumes!Next,
        Resumes!Server, Resumes!HaltedHandles, Resumes!RunningBreaks,
       Resumes!RunningReports, Resumes!Resume, Resumes!Resuming, Resumes!PollNext,
       Resumes!PollEnds, Resumes!StartDiscard, Resumes!DiscardSkips,
       Resumes!DiscardDrops, Resumes!DiscardInterrupts, Resumes!Break, Resumes!SendRspInterrupt,
       Resumes!ReportReasonTargetHalted,
       Resumes!ReasonAnswered, Resumes!ReasonFails
  <2> QED BY Zenon, <2>1 DEF ResumeFlags
<1> QED BY <1>1, <1>2, <1>3 DEF ResumeFlags

(* What the invariant says of a resume that is over.                       *)
LEMMA ResumesPromised ==
  ASSUME RspCoresAssumption, ResumesInv, ResumeFlags
  PROVE  Resumes!TypeOK /\ Resumes!HaltedTogether /\ Resumes!StopOfThisRun
<1>1. Resumes!TypeOK
  BY DEF ResumesInv, ResumeFlags, ResumeTypes, Resumes!TypeOK
<1>2. Resumes!HaltedTogether
  BY DEF ResumesInv, CleanInv, Resumes!HaltedTogether
<1>3. Resumes!StopOfThisRun
  BY DEF ResumesInv, CleanInv, DiscardInv, Stopped, Resumes!StopOfThisRun
<1> QED BY <1>1, <1>2, <1>3

-----------------------------------------------------------------------------
(* When a resume is over all cores are halted or will be, and its answer is*)
(* the stop of this run, of the core that is then the active one.          *)
LEMMA HaltedTogetherInStep ==
  ASSUME RspCoresAssumption
  PROVE  Resumes!Spec => []Resumes!HaltedAsReported
<1> DEFINE I == ResumesInv /\ ResumeFlags
<1>1. Resumes!Init => I
  BY ResumesInit
<1>2. I /\ [Resumes!Next]_Resumes!vars => I'
  BY ResumesStep, FlagsStep
<1>3. I => Resumes!HaltedAsReported
  BY ResumesPromised DEF Resumes!HaltedAsReported
<1> QED BY <1>1, <1>2, <1>3, PTL DEF Resumes!Spec

(* A line that is not empty and holds no more than one packet holds one.   *)
LEMMA OnePacket ==
  ASSUME NEW S, NEW s \in Seq(S), s # <<>>, Len(s) <= 1
  PROVE  Len(s) = 1
<1>1. Len(s) \in Nat /\ Len(s) # 0
  BY EmptySeq
<1> QED BY <1>1

(* A step that ends the discarding leaves what LeftByInterrupt says.       *)
LEMMA LeftOnLines ==
  ASSUME RspCoresAssumption, ResumesInv, [Resumes!Next]_Resumes!vars, pc = "discard", pc' = "idle",
         clean,
         outputs = 0, NEW c \in Resumes!Cores, line'[c] # <<>>
  PROVE  /\ Len(line'[c]) = 1
         /\ c \in interrupted' \/ (c = lastKnownActiveCpu /\ response = Resumes!NoPacket)
<1>1. Resumes!DiscardSkips \/ Resumes!DiscardDrops \/ Resumes!DiscardInterrupts
  BY
  DEF ResumesInv, ResumeTypes, Resumes!Next, Resumes!vars, Resumes!Server, Resumes!HaltedHandles,
      Resumes!RunningBreaks, Resumes!RunningReports,
     Resumes!Resume, Resumes!Resuming, Resumes!PollNext, Resumes!PollEnds, Resumes!StartDiscard,
     Resumes!Break, Resumes!SendRspInterrupt,
     Resumes!ReportReasonTargetHalted, Resumes!AskReason, Resumes!ReasonAnswered,
     Resumes!ReasonFails, Resumes!client, Resumes!servers, Resumes!history
<1>2. /\ ResumeTypes' /\ core \in Resumes!Cores /\ core' = core + 1 /\ core' = Resumes!NoCore
      /\ UNCHANGED <<outputs, lastKnownActiveCpu, response>>
  BY <1>1, DiscardTypes DEF ResumesInv
<1>3. CoreDealtWith /\ DiscardInv
  BY <1>1, DiscardDealsWith DEF ResumesInv, CleanInv
<1>4. Len(line'[c]) <= 1 /\ line'[c] \in Seq(Resumes!Packet)
  BY <1>2, <1>3 DEF CoreDealtWith, LineOfRun, ResumeTypes
<1>5. c < core \/ c = core
  BY <1>2, ResumeNumbers
<1>6. ~Discarded(c)' /\ ~Discarded(c)
  BY <1>3 DEF Discarded, CoreDealtWith
<1>7. c = lastKnownActiveCpu \/ c \in interrupted'
  BY <1>3, <1>5, <1>6 DEF CoreDealtWith, DiscardInv
<1>8. c = lastKnownActiveCpu => response = Resumes!NoPacket
  BY <1>3, <1>6 DEF DiscardInv
<1>9. Len(line'[c]) = 1
  BY <1>4, OnePacket
<1> QED BY <1>7, <1>8, <1>9

(* What a resume leaves to be taken for a later answer was brought about by*)
(* an interrupt, and is one packet of a core.                              *)
LEMMA LeftByInterrupts ==
  ASSUME RspCoresAssumption
  PROVE  Resumes!Spec => Resumes!LeftByInterrupt
<1> DEFINE A == pc = "discard" /\ pc' = "idle" /\ clean /\ outputs = 0 =>
                  \A c \in Resumes!Cores : line'[c] # <<>> =>
                    /\ Len(line'[c]) = 1
                    /\ c \in interrupted' \/ (c = lastKnownActiveCpu /\ response = Resumes!NoPacket)
<1>1. Resumes!Init => ResumesInv
  BY ResumesInit
<1>2. ResumesInv /\ [Resumes!Next]_Resumes!vars => ResumesInv'
  BY ResumesStep
<1>3. ResumesInv /\ [Resumes!Next]_Resumes!vars => [A]_Resumes!vars
  BY LeftOnLines
<1> QED BY <1>1, <1>2, <1>3, PTL DEF Resumes!Spec, Resumes!LeftByInterrupt

(* The cores of a resume are changed by their own part of the requests     *)
(* only.                                                                   *)
LEMMA ResumesPart ==
  /\ RspCoresAssumption
  /\ RequestsSpec => Resumes!Spec
<1> DEFINE requests == <<part, vars, coreVars, connectionVars, resumeVars, configurationVars>>
<1>1. RspCoresAssumption
  BY GdbRequestsAssumption DEF GdbRequestsAssumption, RspCoresAssumption
<1>2. RequestsInit => Resumes!Init
  BY DEF RequestsInit
<1>3. UNCHANGED resumeVars => UNCHANGED Resumes!vars
  BY DEF resumeVars, Resumes!vars, Resumes!servers, Resumes!client, Resumes!history
<1>4. [RequestsNext]_requests => [Resumes!Next]_Resumes!vars
  BY <1>3 DEF RequestsNext
<1>5. RequestsSpec => Resumes!Spec
  BY <1>2, <1>4, PTL DEF RequestsSpec, Resumes!Spec
<1> QED BY <1>1, <1>5

(* After a resume that found nothing left of earlier ones all cores halt,  *)
(* and its answer is the stop of this run and of the active core: for any  *)
(* number of cores, of resumes and of interrupts, and whatever the cores   *)
(* send and when.                                                          *)
THEOREM ResumesOfRequests == RequestsSpec => []HaltedAsReported
<1>1. Resumes!HaltedAsReported => HaltedAsReported
  BY DEF HaltedAsReported
<1> QED BY <1>1, ResumesPart, HaltedTogetherInStep, PTL

(* A stop reply that a resume leaves on a line, to be taken for a later    *)
(* answer, is the only packet there, of a core that was sent a Ctrl-C or   *)
(* the active one of a resume that the user interrupted.                   *)
THEOREM StopsLeftByInterrupts == RequestsSpec => Resumes!LeftByInterrupt
BY ResumesPart, LeftByInterrupts, PTL

-----------------------------------------------------------------------------
(* Connections.                                                            *)

(* There is a stream for at least one core.                                *)
LEMMA StreamNumbers == NumberOfStreams \in Nat \ {0} /\ MaxEvents \in Nat
BY GdbRequestsAssumption DEF GdbRequestsAssumption

(* A set of numbers has a smallest one.                                    *)
LEMMA Smallest ==
  ASSUME NEW T, T \subseteq Nat, T # {}
  PROVE  \E x \in T : \A y \in T : x <= y
<1> DEFINE R == OpToRel(<, Nat)
<1>1. IsWellFoundedOn(R, Nat)
  BY NatLessThanWellFounded
<1>2. \A x, y \in Nat : <<y, x>> \in R <=> y < x
  BY DEF OpToRel
<1> HIDE DEF R
<1>3. PICK x \in T : \A y \in T : ~ (<<y, x>> \in R)
  BY <1>1, WFMin
<1>4. x \in Nat /\ \A y \in T : y \in Nat /\ ~(y < x)
  BY <1>2, <1>3
<1>5. \A y \in T : x <= y
  BY <1>4
<1> QED BY <1>5

(* What holds of 0 and of the number after each it holds of holds up to a  *)
(* limit: S is the set of the numbers it holds of.                         *)
LEMMA UpTo ==
  ASSUME NEW n \in Nat, NEW S, 0 \in S, \A k \in 1 .. n : k - 1 \in S => k \in S
  PROVE  \A k \in 0 .. n : k \in S
<1> DEFINE T == {k \in 0 .. n : k \notin S}
<1>1. SUFFICES ASSUME T # {} PROVE FALSE
  OBVIOUS
<1>2. T \subseteq Nat
  OBVIOUS
<1> HIDE DEF T
<1>3. PICK t \in T : \A u \in T : t <= u
  BY <1>1, <1>2, Smallest
<1>4. t \in 1 .. n /\ t \notin S /\ t - 1 \in 0 .. n /\ ~(t <= t - 1)
  BY <1>3 DEF T
<1>5. t - 1 \in S
  BY <1>3, <1>4 DEF T
<1> QED BY <1>4, <1>5

StepOf(cores, n, was) == IF n - 1 \in cores THEN Tcp!CoreStatus(n - 1, was) ELSE was
FirstStatus ==
  [error |-> "none", last |-> lastError, nonblocking |-> {c \in Tcp!Streams : ~blocking[c]}]
IsStatus(st, cores, n) ==
  /\ st[0] = FirstStatus
  /\ \A k \in 1 .. n : st[k] = StepOf(cores, k, st[k - 1])

(* The status of the cores, one after the other.                           *)
LEMMA StatusOfCores ==
  ASSUME NEW cores
  PROVE  \E st : IsStatus(st, cores, NumberOfStreams)
               /\ Tcp!SessionStatus(cores) = st[NumberOfStreams]
<1> DEFINE N == NumberOfStreams
           S == {n \in 0 .. N : 
                  \E st : st = [k \in 0 .. N |-> st[k]] /\ IsStatus(st, cores, n)}
<1>0. N \in Nat
  BY StreamNumbers
<1>1. 0 \in S
  <2> DEFINE st == [k \in 0 .. N |-> FirstStatus]
  <2>1. st = [k \in 0 .. N |-> st[k]] /\ IsStatus(st, cores, 0)
    BY <1>0 DEF IsStatus
  <2> QED BY <1>0, <2>1
<1>2. ASSUME NEW n \in 1 .. N, n - 1 \in S PROVE n \in S
  <2>1. PICK st : st = [k \in 0 .. N |-> st[k]] /\ IsStatus(st, cores, n - 1)
    BY <1>2
  <2> DEFINE next == [k \in 0 .. N |-> IF k = n THEN StepOf(cores, n, st[n - 1]) ELSE st[k]]
  <2>2. next[0] = st[0] /\ next[n] = StepOf(cores, n, st[n - 1]) /\ next[n - 1] = st[n - 1]
    BY <1>0
  <2>3. ASSUME NEW k \in 1 .. n PROVE next[k] = StepOf(cores, k, next[k - 1])
    <3>1. CASE k = n
      BY <2>2, <3>1
    <3>2. CASE k # n
      <4>1. k \in 1 .. n - 1 /\ k - 1 # n /\ k \in 0 .. N /\ k - 1 \in 0 .. N
        BY <1>0, <3>2
      <4>2. next[k] = st[k] /\ next[k - 1] = st[k - 1]
        BY <3>2, <4>1
      <4> QED BY <2>1, <4>1, <4>2 DEF IsStatus
    <3> QED BY <3>1, <3>2
  <2>4. next = [k \in 0 .. N |-> next[k]]
    OBVIOUS
  <2> HIDE DEF next
  <2>5. IsStatus(next, cores, n)
    BY <2>1, <2>2, <2>3 DEF IsStatus
  <2> QED BY <1>0, <2>4, <2>5
<1> HIDE DEF S
<1>3. N \in S
  BY <1>0, <1>1, <1>2, UpTo
<1>4. PICK st : st = [k \in 0 .. N |-> st[k]] /\ IsStatus(st, cores, N)
  BY <1>3 DEF S
<1> DEFINE Body(f) == [n \in 0 .. N |->
                         IF n = 0 THEN FirstStatus
                         ELSE IF n - 1 \in cores THEN Tcp!CoreStatus(n - 1, f[n - 1])
                         ELSE f[n - 1]]
<1>5. st = Body(st)
  <2>1. ASSUME NEW n \in 0 .. N PROVE st[n] = Body(st)[n]
    <3>1. CASE n = 0
      BY <1>4, <3>1 DEF IsStatus
    <3>2. CASE n # 0
      <4>1. n \in 1 .. N
        BY <1>0, <3>2
      <4>2. st[n] = StepOf(cores, n, st[n - 1])
        BY <1>4, <4>1 DEF IsStatus
      <4> QED BY <3>2, <4>2 DEF StepOf
    <3> QED BY <3>1, <3>2
  <2>2. Body(st) = [n \in 0 .. N |-> Body(st)[n]]
    OBVIOUS
  <2> HIDE DEF Body
  <2> QED BY <1>4, <2>1, <2>2
<1> DEFINE the == CHOOSE f : f = Body(f)
<1>6. the = Body(the)
  <2> HIDE DEF Body
  <2> QED BY <1>5
<1>7. Tcp!SessionStatus(cores) = the[N]
  BY DEF Tcp!SessionStatus, FirstStatus
<1> HIDE DEF the
<1>8. ASSUME NEW k \in 0 .. N
      PROVE  the[k] = IF k = 0 THEN FirstStatus ELSE StepOf(cores, k, the[k - 1])
  <2>1. Body(the)[k] = IF k = 0 THEN FirstStatus ELSE StepOf(cores, k, the[k - 1])
    BY DEF StepOf
  <2> QED BY <1>6, <2>1
<1>9. IsStatus(the, cores, N)
  BY <1>0, <1>8 DEF IsStatus
<1> QED BY <1>7, <1>9

(* What every status keeps: an error leaves a last error, and one is not   *)
(* forgotten; what is made non-blocking was on an error.                   *)
Reported(st) ==
  /\ st.last \in Tcp!Errors \ {"aborted"}
  /\ st.error # "none" => st.last # "none"
  /\ lastError # "none" => st.last # "none"
  /\ \A c \in st.nonblocking : blocking[c] => st.last # "none"

(* A core more.                                                            *)
LEMMA CoreReported ==
  ASSUME NEW c, NEW was, Reported(was)
  PROVE  Reported(Tcp!CoreStatus(c, was))
<1> DEFINE last == CASE sockets[c] = "reset" -> "lost"
                     [] sockets[c] = "closed" -> "notsock"
                     [] OTHER -> was.last
           peeked == Tcp!PeekError(c, was.error, last)
           st == Tcp!CoreStatus(c, was)
<1>1. /\ last \in Tcp!Errors \ {"aborted"} /\ (was.last # "none" => last # "none")
  BY DEF Reported, Tcp!Errors
<1>2. peeked # "none" => last # "none"
  BY <1>1 DEF Tcp!PeekError, Tcp!IsConnectionLost, Reported
<1>3. /\ st.last = last
      /\ st.error = peeked \/ st.error = last
      /\ \/ st.nonblocking = was.nonblocking
         \/ st.nonblocking = Tcp!LeftNonblocking(c, peeked, was.nonblocking)
  BY DEF Tcp!CoreStatus, Tcp!Win32
<1> HIDE DEF last, peeked, st
<1>4. ASSUME NEW d \in st.nonblocking, blocking[d]
      PROVE  st.last # "none"
  <2>1. d \in was.nonblocking \/ peeked = "aborted"
    BY <1>3, <1>4 DEF Tcp!LeftNonblocking
  <2> QED BY <1>1, <1>2, <1>3, <1>4, <2>1 DEF Reported
<1>5. Reported(st)
  BY <1>1, <1>2, <1>3, <1>4 DEF Reported
<1> QED BY <1>5 DEF st

(* All cores, one after the other.                                         *)
LEMMA StatusReported ==
  ASSUME Tcp!TypeOK, NEW cores
  PROVE  Reported(Tcp!SessionStatus(cores))
<1> DEFINE N == NumberOfStreams
<1>1. PICK st : IsStatus(st, cores, N) /\ Tcp!SessionStatus(cores) = st[N]
  BY StatusOfCores
<1> DEFINE S == {n \in 0 .. N : Reported(st[n])}
<1>2. N \in Nat
  BY StreamNumbers
<1>3. Reported(FirstStatus)
  BY DEF Reported, FirstStatus, Tcp!TypeOK
<1>4. 0 \in S
  BY <1>1, <1>2, <1>3 DEF IsStatus
<1>5. ASSUME NEW k \in 1 .. N, k - 1 \in S PROVE k \in S
  <2>1. Reported(st[k - 1]) /\ st[k] = StepOf(cores, k, st[k - 1]) /\ k \in 0 .. N
    BY <1>1, <1>5 DEF IsStatus
  <2> QED BY <2>1, CoreReported DEF StepOf
<1> HIDE DEF S
<1>6. \A k \in 0 .. N : k \in S
  BY <1>2, <1>4, <1>5, UpTo
<1>7. N \in S
  BY <1>2, <1>6
<1> QED BY <1>1, <1>7 DEF S

(* The last core is the last that is looked at.                            *)
LEMMA StatusOfLast ==
  \E was : Tcp!SessionStatus(Tcp!Streams) = Tcp!CoreStatus(NumberOfStreams - 1, was)
<1> DEFINE N == NumberOfStreams
<1>1. PICK st : IsStatus(st, Tcp!Streams, N) /\ Tcp!SessionStatus(Tcp!Streams) = st[N]
  BY StatusOfCores
<1>2. N \in 1 .. N /\ N - 1 \in Tcp!Streams
  BY StreamNumbers DEF Tcp!Streams
<1> QED BY <1>1, <1>2 DEF IsStatus, StepOf

(* The status of one core is its own.                                      *)
LEMMA StatusOfOne ==
  ASSUME NEW c \in Tcp!Streams
  PROVE  Tcp!SessionStatus({c}) = Tcp!CoreStatus(c, FirstStatus)
<1> DEFINE N == NumberOfStreams
           one == Tcp!CoreStatus(c, FirstStatus)
<1>1. PICK st : IsStatus(st, {c}, N) /\ Tcp!SessionStatus({c}) = st[N]
  BY StatusOfCores
<1> HIDE DEF one
<1>2. N \in Nat /\ c \in Nat /\ c < N
  BY StreamNumbers DEF Tcp!Streams
<1> DEFINE S == {n \in 0 .. N : st[n] = IF n <= c THEN FirstStatus ELSE one}
<1>3. 0 \in S
  BY <1>1, <1>2 DEF IsStatus
<1>4. ASSUME NEW k \in 1 .. N, k - 1 \in S PROVE k \in S
  <2>1. st[k - 1] = (IF k - 1 <= c THEN FirstStatus ELSE one)
        /\ st[k] = StepOf({c}, k, st[k - 1])
    BY <1>1, <1>4 DEF IsStatus
  <2>2. CASE k - 1 < c
    <3>1. st[k] = FirstStatus /\ k <= c
      BY <1>2, <2>1, <2>2 DEF StepOf
    <3> QED BY <3>1
  <2>3. CASE k - 1 = c
    <3>1. st[k] = one /\ ~(k <= c)
      BY <1>2, <2>1, <2>3 DEF StepOf, one
    <3> QED BY <3>1
  <2>4. CASE k - 1 > c
    <3>1. st[k] = one /\ ~(k <= c)
      BY <1>2, <2>1, <2>4 DEF StepOf
    <3> QED BY <3>1
  <2> QED BY <1>2, <2>2, <2>3, <2>4
<1> HIDE DEF S
<1>5. \A k \in 0 .. N : k \in S
  BY <1>2, <1>3, <1>4, UpTo
<1>6. N \in S
  BY <1>2, <1>5
<1>7. st[N] = one
  BY <1>2, <1>6 DEF S
<1> QED BY <1>1, <1>7 DEF one

(* A session has a stream for each core.  One that is open has its options *)
(* set; one that is not connected yet has nothing to read and is there     *)
(* since an attempt to connect it failed.                                  *)
SessionInv ==
  phase = "session" =>
    \A c \in Tcp!Streams :
      /\ sockets[c] # "none"
      /\ sockets[c] \in {"connected", "ended", "reset"} => configured[c]
      /\ sockets[c] = "new" => ~pending[c] /\ lastError # "none"

StartInv ==
  phase = "start" => \A c \in Tcp!Streams : sockets[c] \in {"none", "new"} /\ ~pending[c]

ConnInv == Tcp!TypeOK /\ SessionInv /\ StartInv

(* What the sockets of the streams may be.                                 *)
SocketStates == [Tcp!Streams -> {"none", "new", "connected", "ended", "reset", "closed"}]

(* What is left of the streams when a loop closes them.                    *)
LEMMA ClosedOn ==
  ASSUME NEW socks \in SocketStates
  PROVE  /\ Tcp!TcpCloseOn(socks) \in SocketStates
         /\ \A c \in Tcp!Streams : Tcp!TcpCloseOn(socks)[c] \in {socks[c], "closed"}
BY DEF Tcp!TcpCloseOn, SocketStates

(* The server or the network ends a connection.                            *)
LEMMA ServerEndsStep ==
  ASSUME ConnInv, NEW c \in Tcp!Streams, NEW how \in {"ended", "reset"},
         Tcp!ServerEnds(c, how)
  PROVE  ConnInv'
<1>1. /\ phase' = phase /\ phase = "session" /\ sockets[c] = "connected"
      /\ UNCHANGED <<configured, blocking, isConnected, lastError, sent>>
      /\ events' = events + 1 /\ events < MaxEvents
      /\ sockets' = [sockets EXCEPT ![c] = how]
  BY DEF Tcp!ServerEnds, Tcp!Event
<1>2. pending' = [pending EXCEPT ![c] = pending[c] /\ how = "ended"]
  BY DEF Tcp!ServerEnds
<1> DEFINE left == pending[c] /\ how = "ended"
<1>3. left \in BOOLEAN /\ pending' = [pending EXCEPT ![c] = left]
  BY <1>2, Zenon DEF ConnInv, Tcp!TypeOK, SocketStates
<1> HIDE DEF left
<1>4. pending' \in [Tcp!Streams -> BOOLEAN]
      /\ \A d \in Tcp!Streams : d # c => pending'[d] = pending[d]
  BY <1>3 DEF ConnInv, Tcp!TypeOK, SocketStates
<1>5. /\ sockets' \in SocketStates
      /\ sockets'[c] = how /\ \A d \in Tcp!Streams : d # c => sockets'[d] = sockets[d]
  BY <1>1 DEF ConnInv, Tcp!TypeOK, SocketStates
<1>6. Tcp!TypeOK'
  BY <1>1, <1>4, <1>5, StreamNumbers DEF ConnInv, Tcp!TypeOK, SocketStates
<1>7. SessionInv'
  BY <1>1, <1>4, <1>5 DEF ConnInv, SessionInv
<1> QED BY <1>1, <1>6, <1>7 DEF ConnInv, StartInv

(* What is to be read comes and is read.                                   *)
LEMMA DataSteps ==
  ASSUME ConnInv, NEW c \in Tcp!Streams, Tcp!DataArrives(c) \/ Tcp!DataRead(c)
  PROVE  ConnInv'
<1>1. /\ sockets[c] = "connected"
      /\ UNCHANGED <<sockets, configured, blocking, phase, isConnected, lastError, sent>>
      /\ pending' = [pending EXCEPT ![c] = TRUE] \/ pending' = [pending EXCEPT ![c] = FALSE]
      /\ events' \in 0 .. MaxEvents
  BY StreamNumbers
  DEF Tcp!DataArrives, Tcp!DataRead, Tcp!Event, ConnInv, Tcp!TypeOK, SocketStates
<1>2. pending' \in [Tcp!Streams -> BOOLEAN]
      /\ \A d \in Tcp!Streams : d # c => pending'[d] = pending[d]
  BY <1>1 DEF ConnInv, Tcp!TypeOK, SocketStates
<1>3. Tcp!TypeOK'
  BY <1>1, <1>2 DEF ConnInv, Tcp!TypeOK, SocketStates
<1> QED BY <1>1, <1>2, <1>3 DEF ConnInv, SessionInv, StartInv

(* A receive times out.                                                    *)
LEMMA TimeOutStep ==
  ASSUME ConnInv, NEW c \in Tcp!Streams, Tcp!ReceiveTimesOut(c)
  PROVE  ConnInv'
<1>1. /\ UNCHANGED <<Tcp!streams, phase, isConnected, sent>> /\ lastError' = "timeout"
      /\ events' \in 0 .. MaxEvents
  BY StreamNumbers DEF Tcp!ReceiveTimesOut, Tcp!Event, ConnInv, Tcp!TypeOK, SocketStates
<1> QED BY <1>1 DEF ConnInv, Tcp!TypeOK, SocketStates, SessionInv, StartInv, Tcp!streams,
                    Tcp!Errors

(* The session starts, or is refused.                                      *)
LEMMA SetGdbServerConnectionStep ==
  ASSUME ConnInv, Tcp!SetGdbServerConnection
  PROVE  ConnInv'
<1>1. /\ \E cores : Tcp!ConfigRspSession(cores)
      /\ phase' \in {"refused", "session"} /\ UNCHANGED <<blocking, pending, sent, events>>
      /\ \/ sockets' = sockets
         \/ sockets' = [c \in Tcp!Streams |-> "connected"]
         \/ sockets' = Tcp!TcpCloseOn(sockets)
      /\ isConnected' \in BOOLEAN /\ lastError' \in Tcp!Errors \ {"aborted"}
      /\ phase' = "session" =>
           Tcp!ConfigRspSession(Tcp!Streams) /\ sockets' = [c \in Tcp!Streams |-> "connected"]
  BY DEF Tcp!SetGdbServerConnection, ConnInv, Tcp!TypeOK, SocketStates, Tcp!Errors
<1>2. configured' \in [Tcp!Streams -> BOOLEAN]
  <2>1. PICK cores : Tcp!ConfigRspSession(cores)
    BY <1>1
  <2> QED BY <2>1, Zenon DEF Tcp!ConfigRspSession
<1>3. Tcp!TypeOK'
  BY <1>1, <1>2, ClosedOn DEF ConnInv, Tcp!TypeOK, SocketStates
<1>4. Tcp!ConfigRspSession(Tcp!Streams) => \A c \in Tcp!Streams : configured'[c]
  BY Zenon DEF Tcp!ConfigRspSession
<1>5. SessionInv'
  BY <1>1, <1>4 DEF SessionInv
<1> QED BY <1>1, <1>3, <1>5 DEF ConnInv, StartInv

(* What is noted of a look at the connections.                             *)
LEMMA LookedAt ==
  ASSUME Tcp!TypeOK, NEW cores, Tcp!Looked(Tcp!SessionStatus(cores))
  PROVE  /\ lastError' \in Tcp!Errors \ {"aborted"}
         /\ (lastError # "none" => lastError' # "none")
         /\ blocking' \in [Tcp!Streams -> BOOLEAN]
         /\ \A c \in Tcp!Streams : blocking[c] /\ ~blocking'[c] => lastError' # "none"
<1> DEFINE status == Tcp!SessionStatus(cores)
<1>1. Reported(status) /\ Tcp!Looked(status)
  BY StatusReported
<1> HIDE DEF status
<1>2. lastError' = status.last
      /\ blocking' = [c \in Tcp!Streams |-> c \notin status.nonblocking]
  BY <1>1 DEF Tcp!Looked
<1>3. blocking' \in [Tcp!Streams -> BOOLEAN]
  BY <1>2, Zenon
<1>4. \A c \in Tcp!Streams : ~blocking'[c] => c \in status.nonblocking
  BY <1>2, Zenon
<1> QED BY <1>1, <1>2, <1>3, <1>4 DEF Reported

(* A keep-alive check looks at every connection.                           *)
LEMMA PerformKeepaliveChecksStep ==
  ASSUME ConnInv, Tcp!PerformKeepaliveChecks
  PROVE  ConnInv'
<1>1. /\ Tcp!Looked(Tcp!SessionStatus(Tcp!Streams))
      /\ sockets' = Tcp!TcpCloseOn(sockets) \/ sockets' = sockets
      /\ UNCHANGED <<configured, pending, phase, isConnected, sent, events>>
      /\ phase = "session"
  BY DEF Tcp!PerformKeepaliveChecks
<1>2. /\ sockets' \in SocketStates
      /\ \A c \in Tcp!Streams : sockets'[c] \in {sockets[c], "closed"}
  BY <1>1, ClosedOn DEF ConnInv, Tcp!TypeOK, SocketStates
<1>3. /\ lastError' \in Tcp!Errors \ {"aborted"}
      /\ (lastError # "none" => lastError' # "none")
      /\ blocking' \in [Tcp!Streams -> BOOLEAN]
  BY <1>1, LookedAt DEF ConnInv
<1>4. Tcp!TypeOK'
  BY <1>1, <1>2, <1>3 DEF ConnInv, Tcp!TypeOK, SocketStates
<1>5. SessionInv'
  BY <1>1, <1>2, <1>3 DEF ConnInv, SessionInv
<1> QED BY <1>1, <1>4, <1>5 DEF ConnInv, StartInv

(* The status of one core is no error only when its connection is open.    *)
LEMMA NoErrorWhenOpen ==
  ASSUME ConnInv, phase = "session", NEW c \in Tcp!Streams,
         ~Tcp!IsAttachNeeded(Tcp!SessionStatus({c}))
  PROVE  sockets[c] \in {"connected", "ended"} /\ configured[c]
<1>1. Tcp!CoreStatus(c, FirstStatus).error = "none"
  BY StatusOfOne DEF Tcp!IsAttachNeeded
<1> DEFINE last == CASE sockets[c] = "reset" -> "lost"
                     [] sockets[c] = "closed" -> "notsock"
                     [] OTHER -> lastError
           readable == sockets[c] # "closed"
                       /\ (pending[c] \/ sockets[c] \in {"ended", "reset"})
<1>2. (IF readable THEN Tcp!PeekError(c, "none", last) ELSE last) = "none"
  BY <1>1 DEF Tcp!CoreStatus, FirstStatus, Tcp!Win32
<1>3. sockets[c] # "closed" /\ sockets[c] # "reset"
  BY <1>2 DEF Tcp!PeekError, Tcp!IsConnectionLost
<1>4. ASSUME sockets[c] = "new" PROVE FALSE
  <2>1. ~pending[c] /\ lastError # "none"
    BY <1>4 DEF ConnInv, SessionInv
  <2>2. ~readable /\ last = lastError
    BY <1>4, <2>1
  <2> QED BY <1>2, <2>1, <2>2
<1> QED BY <1>3, <1>4 DEF ConnInv, SessionInv, Tcp!TypeOK, SocketStates

(* A monitor command goes out.                                             *)
LEMMA ExecuteMonitorStep ==
  ASSUME ConnInv, NEW c \in Tcp!Streams, Tcp!ExecuteMonitor(c)
  PROVE  /\ ConnInv'
         /\ sent' = c => sockets'[c] \in {"connected", "ended"} /\ configured'[c]
         /\ \A d \in Tcp!Streams : blocking[d] /\ ~blocking'[d] => lastError' # "none"
<1> DEFINE status == Tcp!SessionStatus({c})
<1>1. Reported(status)
  BY StatusReported DEF ConnInv
<1>2. phase = "session" /\ UNCHANGED <<phase, isConnected, events>>
  BY DEF Tcp!ExecuteMonitor
<1>3. CASE ~Tcp!IsAttachNeeded(status) /\ Tcp!Looked(status) /\ sent' = c
           /\ UNCHANGED <<sockets, configured, pending>>
  <2>1. sockets[c] \in {"connected", "ended"} /\ configured[c]
    BY <1>2, <1>3, NoErrorWhenOpen
  <2>2. /\ lastError' \in Tcp!Errors \ {"aborted"}
        /\ (lastError # "none" => lastError' # "none")
        /\ blocking' \in [Tcp!Streams -> BOOLEAN]
        /\ \A d \in Tcp!Streams : blocking[d] /\ ~blocking'[d] => lastError' # "none"
    BY <1>3, LookedAt DEF ConnInv
  <2>3. Tcp!TypeOK'
    BY <1>2, <1>3, <2>2 DEF ConnInv, Tcp!TypeOK, SocketStates
  <2>4. SessionInv'
    BY <1>2, <1>3, <2>2 DEF ConnInv, SessionInv
  <2> QED BY <1>2, <1>3, <2>1, <2>2, <2>3, <2>4 DEF ConnInv, StartInv
<1>4. CASE /\ Tcp!IsAttachNeeded(status) /\ lastError' = status.last
           /\ blocking' = [blocking EXCEPT ![c] = TRUE]
           /\ pending' = [pending EXCEPT ![c] = FALSE]
           /\ (Tcp!Attached(c) /\ sent' = c) \/ (Tcp!AttachFails(c) /\ sent' = Tcp!C_ALLCORES)
  <2>1. /\ status.last \in Tcp!Errors \ {"aborted"} /\ status.last # "none"
    BY <1>1, <1>4 DEF Tcp!IsAttachNeeded, Reported
  <2>2. /\ blocking' \in [Tcp!Streams -> BOOLEAN] /\ pending' \in [Tcp!Streams -> BOOLEAN]
        /\ \A d \in Tcp!Streams : blocking[d] /\ ~blocking'[d] => FALSE
        /\ ~pending'[c] /\ \A d \in Tcp!Streams : d # c => pending'[d] = pending[d]
    BY <1>4 DEF ConnInv, Tcp!TypeOK, SocketStates
  <2>3. /\ sockets' \in SocketStates
        /\ configured' \in [Tcp!Streams -> BOOLEAN]
        /\ \A d \in Tcp!Streams :
             d # c => sockets'[d] \in {sockets[d], "closed"} /\ configured'[d] = configured[d]
        /\ \/ sockets'[c] = "connected" /\ configured'[c] = TRUE /\ sent' = c
           \/ sockets'[c] \in {"new", "closed"} /\ sent' = Tcp!C_ALLCORES
    <3>1. CASE Tcp!Attached(c) /\ sent' = c
      BY <3>1 DEF Tcp!Attached, ConnInv, Tcp!TypeOK, SocketStates
    <3>2. CASE Tcp!AttachFails(c) /\ sent' = Tcp!C_ALLCORES
      <4> DEFINE made == [sockets EXCEPT ![c] = "new"]
      <4>1. /\ made \in SocketStates
            /\ made[c] = "new" /\ \A d \in Tcp!Streams : d # c => made[d] = sockets[d]
        BY DEF ConnInv, Tcp!TypeOK, SocketStates
      <4> HIDE DEF made
      <4>2. /\ Tcp!TcpCloseOn(made) \in SocketStates
            /\ \A d \in Tcp!Streams : Tcp!TcpCloseOn(made)[d] \in {made[d], "closed"}
        BY <4>1, ClosedOn
      <4>3. /\ sockets' = Tcp!TcpCloseOn(made)
            /\ configured' = [configured EXCEPT ![c] = FALSE]
        BY <3>2 DEF Tcp!AttachFails, made
      <4> QED BY <3>2, <4>1, <4>2, <4>3 DEF ConnInv, Tcp!TypeOK, SocketStates
    <3> QED BY <1>4, <3>1, <3>2
  <2>4. sent' \in Tcp!Streams \cup {Tcp!C_ALLCORES} /\ c # Tcp!C_ALLCORES
    BY <1>4, StreamNumbers DEF Tcp!C_ALLCORES, Tcp!Streams
  <2>5. Tcp!TypeOK'
    BY <1>2, <1>4, <2>1, <2>2, <2>3, <2>4 DEF ConnInv, Tcp!TypeOK, SocketStates
  <2>6. SessionInv'
    BY <1>2, <1>4, <2>1, <2>2, <2>3 DEF ConnInv, SessionInv
  <2> QED BY <1>2, <2>2, <2>3, <2>4, <2>5, <2>6 DEF ConnInv, StartInv
<1> QED BY <1>3, <1>4 DEF Tcp!ExecuteMonitor

(* A function of .exdicmd closes connections.                              *)
LEMMA ExecuteExdiFunctionStep ==
  ASSUME ConnInv, NEW cores, Tcp!ExecuteExdiFunction(cores)
  PROVE  ConnInv'
<1>1. PICK closing :
        /\ sockets' = [c \in Tcp!Streams |-> IF c \in closing THEN "closed" ELSE sockets[c]]
        /\ lastError' \in {lastError, "notsock"}
  BY DEF Tcp!ExecuteExdiFunction
<1>2. /\ phase = "session"
      /\ UNCHANGED <<configured, blocking, pending, phase, isConnected, sent>>
      /\ events' \in 0 .. MaxEvents
  BY StreamNumbers DEF Tcp!ExecuteExdiFunction, Tcp!Event, ConnInv, Tcp!TypeOK, SocketStates
<1>3. Tcp!TypeOK'
  BY <1>1, <1>2 DEF ConnInv, Tcp!TypeOK, SocketStates, Tcp!Errors
<1>4. SessionInv'
  BY <1>1, <1>2 DEF ConnInv, SessionInv
<1> QED BY <1>2, <1>3, <1>4 DEF ConnInv, StartInv

(* Every step keeps the invariant.                                         *)
LEMMA ConnNext ==
  ASSUME ConnInv, [Tcp!Next]_Tcp!vars
  PROVE  ConnInv'
<1>1. CASE UNCHANGED Tcp!vars
  BY <1>1 DEF Tcp!vars, Tcp!streams, ConnInv, Tcp!TypeOK, SocketStates, SessionInv, StartInv
<1>2. CASE Tcp!Next
  BY <1>2, SetGdbServerConnectionStep, PerformKeepaliveChecksStep, ServerEndsStep, DataSteps,
     TimeOutStep, ExecuteMonitorStep, ExecuteExdiFunctionStep DEF Tcp!Next
<1> QED BY <1>1, <1>2

(* No connection is made initially.                                        *)
LEMMA ConnStart ==
  ASSUME Tcp!Init
  PROVE  ConnInv
<1>1. /\ configured \in [Tcp!Streams -> BOOLEAN] /\ blocking \in [Tcp!Streams -> BOOLEAN]
      /\ pending \in [Tcp!Streams -> BOOLEAN] /\ isConnected \in BOOLEAN
  BY Zenon DEF Tcp!Init
<1>2. Tcp!TypeOK
  BY <1>1, StreamNumbers DEF Tcp!Init, Tcp!TypeOK, SocketStates, Tcp!Errors
<1>3. \A c \in Tcp!Streams : ~pending[c]
  BY Zenon DEF Tcp!Init
<1>4. sockets \in [Tcp!Streams -> {"none", "new"}] /\ phase = "start"
  BY DEF Tcp!Init
<1> QED BY <1>2, <1>3, <1>4 DEF ConnInv, SessionInv, StartInv

(* What a keep-alive check makes of the loss of the last connection.       *)
LEMMA LossNoticed ==
  ASSUME ConnInv, Tcp!PerformKeepaliveChecks, sockets[NumberOfStreams - 1] = "reset"
  PROVE  \/ sockets'[NumberOfStreams - 1] = "closed"
         \/ \E c \in Tcp!Streams : sockets[c] = "closed"
<1> DEFINE c == NumberOfStreams - 1
<1>1. PICK was : Tcp!SessionStatus(Tcp!Streams) = Tcp!CoreStatus(c, was)
  BY StatusOfLast
<1>2. Tcp!CoreStatus(c, was).error = "aborted"
  BY DEF Tcp!CoreStatus, Tcp!PeekError, Tcp!IsConnectionLost
<1>3. sockets' = Tcp!TcpCloseOn(sockets)
  BY <1>1, <1>2 DEF Tcp!PerformKeepaliveChecks
<1>4. c \in Tcp!Streams /\ \A d \in 0 .. c : d \in Tcp!Streams
  BY StreamNumbers DEF Tcp!Streams
<1> QED BY <1>3, <1>4 DEF Tcp!TcpCloseOn

(* Which steps make a connection non-blocking.                             *)
LEMMA ModeChanged ==
  ASSUME ConnInv, [Tcp!Next]_Tcp!vars, NEW c \in Tcp!Streams, blocking[c], ~blocking'[c]
  PROVE  lastError' # "none"
<1>1. blocking' # blocking
  OBVIOUS
<1>2. Tcp!PerformKeepaliveChecks \/ \E d \in Tcp!Streams : Tcp!ExecuteMonitor(d)
  BY <1>1
  DEF Tcp!Next, Tcp!vars, Tcp!streams, Tcp!SetGdbServerConnection, Tcp!ServerEnds,
      Tcp!DataArrives, Tcp!DataRead,
              Tcp!ReceiveTimesOut, Tcp!ExecuteExdiFunction
<1>3. CASE Tcp!PerformKeepaliveChecks
  BY <1>3, LookedAt DEF Tcp!PerformKeepaliveChecks, ConnInv
<1>4. CASE \E d \in Tcp!Streams : Tcp!ExecuteMonitor(d)
  BY <1>4, ExecuteMonitorStep
<1> QED BY <1>2, <1>3, <1>4

(* The connections are changed by their own part of the requests only.     *)
LEMMA ConnectionsPart ==
  /\ RequestsInit => Tcp!Init
  /\ RequestsNext => [Tcp!Next]_Tcp!vars
  /\ UNCHANGED connectionVars => UNCHANGED Tcp!vars
<1>1. UNCHANGED connectionVars => UNCHANGED Tcp!vars
  BY DEF connectionVars, Tcp!vars, Tcp!streams
<1> QED BY <1>1 DEF RequestsInit, RequestsNext

(* What the invariant says of a step.                                      *)
LEMMA ConnectionsPromised ==
  ASSUME ConnInv, [Tcp!Next]_Tcp!vars
  PROVE  /\ [sent' # Tcp!C_ALLCORES /\ (\E c \in Tcp!Streams : Tcp!ExecuteMonitor(c) /\ c = sent') =>
               /\ sockets'[sent'] \in {"connected", "ended"}
               /\ configured'[sent']]_Tcp!vars
         /\ [Tcp!PerformKeepaliveChecks /\ sockets[NumberOfStreams - 1] = "reset" =>
               sockets'[NumberOfStreams - 1] = "closed"
               \/ \E c \in Tcp!Streams : sockets[c] = "closed"]_Tcp!vars
         /\ [\A c \in Tcp!Streams :
               blocking[c] /\ ~blocking'[c] /\ sockets'[c] = "connected" =>
                 lastError' # "none"]_Tcp!vars
<1>1. ASSUME NEW c \in Tcp!Streams, Tcp!ExecuteMonitor(c), c = sent'
      PROVE  sockets'[sent'] \in {"connected", "ended"} /\ configured'[sent']
  BY <1>1, ExecuteMonitorStep
<1> QED BY <1>1, LossNoticed, ModeChanged

(* A monitor command goes out on a connection that is open and has its     *)
(* time-outs set, or on a new one; a keep-alive check that finds the last  *)
(* connection lost closes all; a look at a connection leaves it blocking   *)
(* unless there was an error: for any number of cores, and whatever is     *)
(* lost, ended, closed or timed out between.                               *)
THEOREM ConnectionsInStep == RequestsSpec => ConnectionsWatched
<1> DEFINE requests == <<part, vars, coreVars, connectionVars, resumeVars, configurationVars>>
<1>1. RequestsInit => ConnInv
  BY ConnStart, ConnectionsPart
<1>2. [RequestsNext]_requests => [Tcp!Next]_Tcp!vars
  BY ConnectionsPart
<1>3. ConnInv /\ [Tcp!Next]_Tcp!vars => ConnInv'
  BY ConnNext
<1>4. RequestsSpec => []ConnInv /\ [][Tcp!Next]_Tcp!vars
  BY <1>1, <1>2, <1>3, PTL DEF RequestsSpec
<1>5. ConnInv => Tcp!TypeOK
  BY DEF ConnInv
<1>6. []ConnInv /\ [][Tcp!Next]_Tcp!vars =>
        Tcp!SentOnOpen /\ Tcp!LossShutsDown /\ Tcp!ModeRestored
  BY ConnectionsPromised, PTL DEF Tcp!SentOnOpen, Tcp!LossShutsDown, Tcp!ModeRestored
<1> QED BY <1>4, <1>5, <1>6, PTL DEF ConnectionsWatched
=============================================================================
