-------------------------- MODULE GdbCores_proofs --------------------------
(***************************************************************************)
(* Proofs about the cores of the target: the table of the threads is whole *)
(* once they are counted, contexts are read from and written to the core   *)
(* that was named, and one set back as it was read changes nothing.        *)
(***************************************************************************)
EXTENDS GdbCores, TLAPS

(* What the constants are; the module that instantiates GdbCores assumes it*)
CoresAssumption ==
  /\ NumberOfThreads \in Nat \ {0} /\ MaxWrites \in Nat /\ MaxFaults \in Nat
  /\ Architectures \subseteq {"ARM32", "X86", "AMD64", "ARM64"}

-----------------------------------------------------------------------------
(* The inductive invariant.                                                *)

(* The registers of the reply to "g", and those asked for after it.        *)
Listed == {GOrder[i] : i \in 1 .. Len(GOrder)}
Asked == ToSet(Queried)
Readable == Listed \cup Asked

(* Those a context with these groups may write: only what can be read, and *)
(* the coprocessor's only with its groups.                                 *)
Coprocessor == {"fp", "npx", "vec"}
Settable(groups) ==
  {r \in Readable : r \in Coprocessor => groups \cap {"fFloatingPoint", "fSSE"} # {}}

Ops == [kind : {"none", "count", "get", "getMore", "set", "setRegs"}, cpu : Cpus,
        batches : Seq(Seq(Registers))]
Contexts == [values : [Registers -> Values], groups : SUBSET Groups, of : Cpus, whole : BOOLEAN]

Types ==
  /\ arch \in Architectures
  /\ regs \in [Cpus -> [Registers -> Values]] /\ before \in [Cpus -> [Registers -> Values]]
  /\ selected \in Cpus /\ m_lastKnownActiveCpu \in Cpus
  /\ op \in Ops /\ context \in Contexts
  /\ outcome \in {"none", "S_OK", "failed", "undefined"}
  /\ writes \in 0 .. MaxWrites /\ faults \in 0 .. MaxFaults
SSEType == m_fEnableSSEContext \in BOOLEAN

(* The table of the threads: whole once they are counted, one thread of a  *)
(* stop reply before, or as far as the count has come.                     *)
TableInv ==
  /\ m_targetProcessorIds \in Seq(Cpus) /\ Len(m_targetProcessorIds) <= NumberOfThreads
  /\ m_cachedKPCRStartAddress \in Seq({0, 1})
  /\ m_cachedProcessorCount \in {0, 1, NumberOfThreads}
  /\ op.kind = "count" =>
       /\ m_cachedProcessorCount = 0
       /\ m_targetProcessorIds = [i \in 1 .. Len(m_targetProcessorIds) |-> i - 1]
  /\ TableWhole

(* Calls that read: nothing is in the context before the reply to "g", and *)
(* then the registers of the thread the server was asked to select.        *)
GetInv ==
  /\ op.kind \in {"get", "getMore"} => outcome = "none"
  /\ op.kind = "get" => context = NoContext
  /\ op.kind = "getMore" =>
       /\ ~Beyond(op.cpu) /\ context.of = ThreadOf(op.cpu)
       /\ \A r \in Registers : context.values[r] \in {0, regs[ThreadOf(op.cpu)][r]}

(* A context that is whole has the registers of its core, until the target *)
(* runs; those asked for come last.                                        *)
WholeInv ==
  context.whole =>
    /\ \A r \in Listed : context.values[r] = regs[context.of][r]
    /\ op.kind \notin {"get", "getMore"} =>
         \A r \in Asked : context.values[r] = regs[context.of][r]

(* Contexts come from GetContextEx, which on AMD64 always declares the     *)
(* floating point registers.                                               *)
GroupsInv ==
  (context # NoContext \/ op.kind = "getMore") /\ arch = "AMD64" =>
    "fFloatingPoint" \in context.groups

(* Calls that write: only to the thread the server was asked to select, and*)
(* only registers that the groups allow.                                   *)
SetInv ==
  /\ op.kind \in {"set", "setRegs"} =>
       /\ op.batches \in Seq(Seq(Settable(context.groups))) /\ op.batches # <<>>
       /\ \A c \in Cpus, r \in Registers :
            regs[c][r] # before[c][r] =>
              /\ ~Beyond(op.cpu) /\ c = ThreadOf(op.cpu)
              /\ r \in Settable(context.groups)
       /\ context.whole => regs[context.of] = before[context.of]
  /\ op.kind = "setRegs" =>
       ~Beyond(op.cpu) /\ selected = ThreadOf(op.cpu) /\ m_lastKnownActiveCpu = op.cpu

CoresInv == Types /\ TableInv /\ GetInv /\ WholeInv /\ GroupsInv /\ SetInv


-----------------------------------------------------------------------------
(* Lemmas about the operators.                                             *)

(* What the constants are.                                                 *)
LEMMA Constants ==
  ASSUME CoresAssumption
  PROVE  /\ NumberOfThreads \in Nat \ {0} /\ MaxWrites \in Nat /\ MaxFaults \in Nat
         /\ Cpus \subseteq Nat /\ 0 \in Cpus /\ \A c \in Cpus : c < NumberOfThreads
         /\ {0, 1} \subseteq Values
         /\ Ops = [kind : {"none", "count", "get", "getMore", "set", "setRegs"}, cpu : Cpus,
                   batches : Seq(Seq(Registers))]
BY DEF CoresAssumption, Cpus, Values, Ops

(* The record of no call, and the context of none.                         *)
LEMMA Nothing ==
  ASSUME CoresAssumption
  PROVE  /\ NoOp \in Ops /\ NoOp.kind = "none" /\ NoContext \in Contexts
         /\ NoContext.whole = FALSE /\ NoContext.groups = {}
<1>1. <<>> \in Seq(Seq(Registers))
  OBVIOUS
<1>2. NoOp \in Ops /\ NoOp.kind = "none"
  BY <1>1, Constants DEF NoOp, Ops
<1>3. /\ [r \in Registers |-> 0] \in [Registers -> Values] /\ {} \in SUBSET Groups
      /\ 0 \in Cpus /\ FALSE \in BOOLEAN
  BY Constants
<1>4. NoContext \in Contexts
  BY <1>3 DEF NoContext, Contexts
<1> QED BY <1>2, <1>4 DEF NoContext

(* A number within the table, or any while it is empty, names a thread; the*)
(* number is that of the thread once the threads are counted.              *)
LEMMA ThreadNamed ==
  ASSUME CoresAssumption, TableInv, NEW cpu \in Cpus
  PROVE  /\ ~Beyond(cpu) => ThreadOf(cpu) \in Cpus
         /\ ThreadsListed => ~Beyond(cpu) /\ ThreadOf(cpu) = cpu
<1>1. /\ NumberOfThreads \in Nat \ {0} /\ cpu \in Nat /\ cpu < NumberOfThreads
      /\ m_targetProcessorIds \in Seq(Cpus)
  BY Constants DEF TableInv
<1>2. ~Beyond(cpu) => ThreadOf(cpu) \in Cpus
  BY <1>1 DEF Beyond, ThreadOf
<1>3. ThreadsListed => ~Beyond(cpu) /\ ThreadOf(cpu) = cpu
  <2> SUFFICES ASSUME ThreadsListed
               PROVE  ~Beyond(cpu) /\ ThreadOf(cpu) = cpu
    OBVIOUS
  <2>1. m_targetProcessorIds = [i \in 1 .. NumberOfThreads |-> i - 1]
    BY <1>1 DEF TableInv, TableWhole, ThreadsListed
  <2>2. Len(m_targetProcessorIds) = NumberOfThreads
    BY <1>1, <2>1
  <2>3. m_targetProcessorIds # <<>> /\ m_targetProcessorIds[cpu + 1] = cpu
    BY <1>1, <2>1, <2>2
  <2> QED BY <1>1, <2>2, <2>3 DEF Beyond, ThreadOf
<1> QED BY <1>2, <1>3

(* What the reply to "g" lists, by the architecture.                       *)
LEMMA RegistersListed ==
  ASSUME CoresAssumption, arch \in Architectures
  PROVE  /\ Listed = CASE arch = "ARM32" -> {"int", "pc", "flags", "vec", "fpscr"}
                       [] arch = "X86"   -> {"int", "pc", "flags", "seg", "fctl", "fp"}
                       [] arch = "AMD64" -> {"int", "pc", "flags", "seg", "fp", "fctl", "sys"}
                       [] arch = "ARM64" -> {"int", "pc", "flags"}
         /\ Listed \subseteq Registers
         /\ Len(GOrder) \in Nat
         /\ \A i \in 1 .. Len(GOrder) : GOrder[i] \in Registers
<1>1. arch \in {"ARM32", "X86", "AMD64", "ARM64"}
  BY DEF CoresAssumption
<1>2. CASE arch = "ARM32"
  BY <1>2 DEF Listed, GOrder, Registers
<1>3. CASE arch = "X86"
  BY <1>3 DEF Listed, GOrder, Registers
<1>4. CASE arch = "AMD64"
  BY <1>4 DEF Listed, GOrder, Registers
<1>5. CASE arch = "ARM64"
  BY <1>5 DEF Listed, GOrder, Registers
<1> QED BY <1>1, <1>2, <1>3, <1>4, <1>5

(* What is asked for one by one: with the SSE registers where they are on. *)
LEMMA RegistersAsked ==
  ASSUME CoresAssumption, arch \in Architectures, SSEType
  PROVE  /\ arch = "X86" => "npx" \in Asked
         /\ arch \in {"X86", "AMD64"} /\ m_fEnableSSEContext => "vec" \in Asked
         /\ Asked \subseteq Registers
         /\ Queried = <<>> => Asked = {}
<1>1. CASE m_fEnableSSEContext
  <2>1. CASE arch = "X86"
    BY <1>1, <2>1 DEF Asked, Queried, Registers, ToSet
  <2>2. CASE arch = "AMD64"
    BY <1>1, <2>2 DEF Asked, Queried, Registers, ToSet
  <2>3. CASE arch \notin {"X86", "AMD64"}
    BY <2>3 DEF Asked, Queried, ToSet
  <2> QED BY <2>1, <2>2, <2>3
<1>2. CASE ~m_fEnableSSEContext
  <2>1. CASE arch = "X86"
    BY <1>2, <2>1 DEF Asked, Queried, Registers, ToSet
  <2>2. CASE arch = "AMD64"
    BY <1>2, <2>2 DEF Asked, Queried, ToSet
  <2>3. CASE arch \notin {"X86", "AMD64"}
    BY <2>3 DEF Asked, Queried, ToSet
  <2> QED BY <1>2, <2>1, <2>2, <2>3
<1> QED BY <1>1, <1>2 DEF SSEType

(* Something and then something else is not nothing.                       *)
LEMMA NotEmpty ==
  ASSUME NEW S, NEW s \in Seq(S), NEW t \in Seq(S), s # <<>>
  PROVE  s \o t # <<>>
OBVIOUS

(* The batches SetContextEx writes hold only registers that can be read and*)
(* that the groups allow; there is at least one.                           *)
LEMMA BatchesWritten ==
  ASSUME CoresAssumption, arch \in Architectures, SSEType, NEW groups,
         arch = "AMD64" => "fFloatingPoint" \in groups
  PROVE  Written(groups) \in Seq(Seq(Settable(groups))) /\ Written(groups) # <<>>
<1> DEFINE R == Settable(groups)
<1> SUFFICES Written(groups) \in Seq(Seq(R)) /\ Written(groups) # <<>>
  OBVIOUS
<1>1. \A names \in Seq(R) : /\ names \in Seq(R) /\ Batch(names) \in Seq(Seq(R))
                            /\ <<names>> \in Seq(Seq(R)) /\ <<names>> # <<>>
  <2> HIDE DEF R
  <2> QED BY DEF Batch
<1>2. <<>> \in Seq(R)
  OBVIOUS
<1>3. arch \in {"ARM32", "X86", "AMD64", "ARM64"}
  BY DEF CoresAssumption
<1>4. \A s, t \in Seq(R) : s \o t \in Seq(R)
  <2> HIDE DEF R
  <2> QED OBVIOUS
<1>5. \A s \in Seq(R), t \in Seq(Seq(R)) : <<s>> \o t \in Seq(Seq(R)) /\ <<s>> \o t # <<>>
  <2> HIDE DEF R
  <2> QED OBVIOUS
<1>6. \A s, t \in Seq(Seq(R)) : s \o t \in Seq(Seq(R))
  <2> HIDE DEF R
  <2> QED OBVIOUS
<1>7. CASE arch = "ARM32"
  <2>1. /\ {"flags", "int", "pc"} \subseteq R
        /\ "fFloatingPoint" \in groups => "vec" \in R
    BY <1>7, RegistersListed DEF Settable, Readable, Coprocessor
  <2>2. /\ If("fInteger", groups, <<"flags", "int", "pc">>) \in Seq(R)
        /\ If("fFloatingPoint", groups, <<"vec">>) \in Seq(R)
    <3> HIDE DEF R
    <3> QED BY <1>2, <2>1 DEF If
  <2>3. Written(groups) = << If("fInteger", groups, <<"flags", "int", "pc">>) >> \o
                         Batch(If("fFloatingPoint", groups, <<"vec">>))
    BY <1>7 DEF Written
  <2> HIDE DEF R
  <2> QED BY <1>1, <1>5, <2>2, <2>3
<1>8. CASE arch = "X86"
  <2> DEFINE s == If("fFloatingPoint", groups, <<"fctl", "npx">>)
             t == If("fInteger", groups, <<"int", "pc">>)
             u == If("fSegment", groups, <<"seg">>)
             v == If("fFloatingPoint", groups, <<"fp">>)
             w == IF m_fEnableSSEContext THEN If("fSSE", groups, <<"vec">>) ELSE <<>>
  <2>1. /\ {"fctl", "int", "pc", "seg"} \subseteq R
        /\ "fFloatingPoint" \in groups => {"npx", "fp"} \subseteq R
        /\ "fSSE" \in groups /\ m_fEnableSSEContext => "vec" \in R
    BY <1>8, RegistersListed, RegistersAsked DEF Settable, Readable, Coprocessor
  <2>2. s \in Seq(R) /\ t \in Seq(R) /\ u \in Seq(R) /\ v \in Seq(R) /\ w \in Seq(R)
    <3> HIDE DEF R
    <3>1. s \in Seq(R) /\ t \in Seq(R) /\ u \in Seq(R) /\ v \in Seq(R)
      BY <1>2, <2>1 DEF If
    <3>2. CASE m_fEnableSSEContext
      BY <1>2, <2>1, <3>1, <3>2 DEF If
    <3>3. CASE ~m_fEnableSSEContext
      BY <1>2, <3>1, <3>3
    <3> QED BY <3>1, <3>2, <3>3
  <2>3. Written(groups) = << s \o t \o u >> \o Batch(v) \o Batch(w)
    BY <1>8 DEF Written
  <2> HIDE DEF R, s, t, u, v, w
  <2>4. s \o t \o u \in Seq(R) /\ Batch(v) \in Seq(Seq(R)) /\ Batch(w) \in Seq(Seq(R))
    BY <1>1, <1>4, <2>2
  <2>5. << s \o t \o u >> \o Batch(v) \in Seq(Seq(R)) /\ << s \o t \o u >> \o Batch(v) # <<>>
    BY <1>5, <2>4
  <2> QED BY <1>6, <2>3, <2>4, <2>5, NotEmpty
<1>9. CASE arch = "AMD64"
  <2> DEFINE s == If("fSystem", groups, <<"sys">>)
             t == If("fSegment", groups, <<"seg">>)
             u == If("fInteger", groups, <<"flags">>)
             v == If("fSystem", groups, <<"fctl">>)
             w == If("fInteger", groups, <<"int", "pc">>)
             x == If("fFloatingPoint", groups, <<"fp">>)
             y == IF m_fEnableSSEContext THEN <<"vec">> ELSE <<>>
  <2>1. /\ {"sys", "seg", "flags", "fctl", "int", "pc"} \subseteq R
        /\ "fFloatingPoint" \in groups => "fp" \in R
        /\ m_fEnableSSEContext => "vec" \in R
    BY <1>9, RegistersListed, RegistersAsked DEF Settable, Readable, Coprocessor
  <2>2. /\ s \in Seq(R) /\ t \in Seq(R) /\ u \in Seq(R) /\ v \in Seq(R) /\ w \in Seq(R)
        /\ x \in Seq(R) /\ y \in Seq(R)
    <3> HIDE DEF R
    <3>1. s \in Seq(R) /\ t \in Seq(R) /\ u \in Seq(R) /\ v \in Seq(R) /\ w \in Seq(R)
      BY <1>2, <2>1 DEF If
    <3>2. x \in Seq(R)
      BY <1>2, <2>1 DEF If
    <3>3. CASE m_fEnableSSEContext
      BY <1>2, <2>1, <3>1, <3>2, <3>3
    <3>4. CASE ~m_fEnableSSEContext
      BY <1>2, <3>1, <3>2, <3>4
    <3> QED BY <3>3, <3>4
  <2>3. Written(groups) = << s \o t \o u \o v \o w >> \o Batch(x) \o Batch(y)
    BY <1>9 DEF Written
  <2> HIDE DEF R, s, t, u, v, w, x, y
  <2>4. s \o t \o u \in Seq(R)
    BY <1>4, <2>2
  <2>5. s \o t \o u \o v \o w \in Seq(R) /\ Batch(x) \in Seq(Seq(R)) /\ Batch(y) \in Seq(Seq(R))
    BY <1>1, <1>4, <2>2, <2>4
  <2>6. /\ << s \o t \o u \o v \o w >> \o Batch(x) \in Seq(Seq(R))
        /\ << s \o t \o u \o v \o w >> \o Batch(x) # <<>>
    BY <1>5, <2>5
  <2> QED BY <1>6, <2>3, <2>5, <2>6, NotEmpty
<1>10. CASE arch = "ARM64"
  <2> DEFINE s == If("fInteger", groups, <<"int">>)
             t == If("fControl", groups, <<"flags", "pc">>)
  <2>1. {"int", "flags", "pc"} \subseteq R
    BY <1>10, RegistersListed DEF Settable, Readable, Coprocessor
  <2>2. s \in Seq(R) /\ t \in Seq(R)
    <3> HIDE DEF R
    <3> QED BY <1>2, <2>1 DEF If
  <2>3. Written(groups) = << s \o t >>
    BY <1>10 DEF Written
  <2> HIDE DEF R, s, t
  <2> QED BY <1>1, <1>4, <2>2, <2>3
<1> QED BY <1>3, <1>7, <1>8, <1>9, <1>10

(* Sequences of sequences over a part are sequences of sequences.          *)
LEMMA SeqOfSeq ==
  ASSUME NEW S, NEW T, S \subseteq T, NEW b \in Seq(Seq(S))
  PROVE  b \in Seq(Seq(T))
<1>1. \A s \in Seq(S) : s \in Seq(T)
  OBVIOUS
<1> QED BY <1>1

(* A batch is written from its first register on, then the next one.       *)
LEMMA BatchesShrink ==
  ASSUME NEW S, NEW b \in Seq(Seq(S)), b # <<>>
  PROVE  /\ Tail(b) \in Seq(Seq(S)) /\ Head(b) \in Seq(S)
         /\ Head(b) # <<>> =>
              /\ Head(Head(b)) \in S
              /\ [b EXCEPT ![1] = Tail(@)] \in Seq(Seq(S))
              /\ [b EXCEPT ![1] = Tail(@)] # <<>>
<1>1. Tail(b) \in Seq(Seq(S)) /\ Head(b) \in Seq(S) /\ Head(b) = b[1] /\ Len(b) >= 1
      /\ 1 \in DOMAIN b
  OBVIOUS
<1>2. ASSUME Head(b) # <<>>
      PROVE  /\ Head(Head(b)) \in S
             /\ [b EXCEPT ![1] = Tail(@)] \in Seq(Seq(S))
             /\ [b EXCEPT ![1] = Tail(@)] # <<>>
  <2> DEFINE h == Head(b)
  <2>1. h \in Seq(S) /\ h # <<>>
    BY <1>1, <1>2
  <2> HIDE DEF h
  <2>2. Head(h) \in S /\ Tail(h) \in Seq(S)
    BY <2>1
  <2> DEFINE t == Tail(h)
             c == [b EXCEPT ![1] = t]
  <2>3. c \in Seq(Seq(S)) /\ Len(c) = Len(b)
    <3> HIDE DEF t
    <3>1. t \in Seq(S)
      BY <2>2 DEF t
    <3> QED BY <1>1, <3>1
  <2>4. c # <<>>
    <3> HIDE DEF c
    <3> QED BY <1>1, <2>3
  <2>5. [b EXCEPT ![1] = Tail(@)] = c
    BY <1>1 DEF h
  <2> QED BY <2>2, <2>3, <2>4, <2>5 DEF h
<1> QED BY <1>1, <1>2

(* The architecture decides what can be read.                              *)
LEMMA SameArchitecture ==
  ASSUME UNCHANGED fixed
  PROVE  Listed' = Listed /\ Asked' = Asked /\ arch' = arch
         /\ m_fEnableSSEContext' = m_fEnableSSEContext
BY DEF fixed, Listed, Asked, GOrder, Queried

-----------------------------------------------------------------------------
(* Every step keeps the invariant.                                         *)

(* While no context is read or written only the context matters.           *)
LEMMA NoneUnderWay ==
  ASSUME CoresAssumption, CoresInv, UNCHANGED <<fixed, regs>>, op'.kind \in {"none", "count"},
         \/ context' = NoContext
         \/ context' = context /\ op.kind \notin {"get", "getMore"}
  PROVE  GetInv' /\ WholeInv' /\ GroupsInv' /\ SetInv'
<1>1. GetInv' /\ SetInv'
  BY DEF GetInv, SetInv
<1>2. GroupsInv'
  BY SameArchitecture DEF CoresInv, GroupsInv
<1>3. WholeInv'
  <2>1. CASE context' = NoContext
    BY <2>1, Nothing DEF WholeInv
  <2>2. CASE context' = context /\ op.kind \notin {"get", "getMore"}
    BY <2>2, SameArchitecture DEF CoresInv, WholeInv
  <2> QED BY <2>1, <2>2
<1> QED BY <1>1, <1>2, <1>3

(* The table stays as it is in calls that read or write contexts.          *)
LEMMA SameTable ==
  ASSUME CoresInv, UNCHANGED table, op'.kind # "count", outcome' \in {outcome, "none", "S_OK", "failed"}
  PROVE  TableInv'
BY DEF CoresInv, TableInv, TableWhole, ThreadsListed, table

(* A stop of the target.                                                   *)
LEMMA StopReported ==
  ASSUME CoresAssumption, CoresInv, ReportReasonTargetHalted
  PROVE  CoresInv'
<1>1. /\ UNCHANGED <<fixed, regs, selected, m_cachedProcessorCount, m_cachedKPCRStartAddress,
                     op, context, writes, faults>>
      /\ before' = regs /\ op = NoOp /\ outcome' \in {"S_OK", "failed"} /\ op.kind = "none"
  BY Nothing DEF ReportReasonTargetHalted
<1>2. PICK c \in Cpus :
        LET ids == IF m_targetProcessorIds = <<>> THEN <<c>> ELSE m_targetProcessorIds
            known == {i \in 1 .. Len(ids) : ids[i] = c}
        IN /\ m_targetProcessorIds' = ids
           /\ m_lastKnownActiveCpu' = m_lastKnownActiveCpu
                \/ \E i \in known : m_lastKnownActiveCpu' = i - 1
  BY DEF ReportReasonTargetHalted
<1>3. /\ m_targetProcessorIds' \in Seq(Cpus) /\ Len(m_targetProcessorIds') <= NumberOfThreads
      /\ m_targetProcessorIds # <<>> => m_targetProcessorIds' = m_targetProcessorIds
  BY <1>2, Constants DEF CoresInv, TableInv
<1>4. m_lastKnownActiveCpu' \in Cpus
  <2>1. CASE m_lastKnownActiveCpu' = m_lastKnownActiveCpu
    BY <2>1 DEF CoresInv, Types
  <2>2. CASE \E i \in 1 .. Len(m_targetProcessorIds') : m_lastKnownActiveCpu' = i - 1
    BY <1>3, <2>2, Constants DEF Cpus
  <2> QED BY <1>2, <2>1, <2>2
<1>5. Types' /\ SSEType' = SSEType
  BY <1>1, <1>4 DEF CoresInv, Types, fixed, SSEType
<1>6. TableInv'
  <2>1. ThreadsListed => m_targetProcessorIds # <<>>
    BY Constants DEF CoresInv, TableInv, TableWhole, ThreadsListed
  <2>2. TableWhole'
    BY <1>1, <1>3, <2>1 DEF CoresInv, TableInv, TableWhole, ThreadsListed
  <2> QED BY <1>1, <1>3, <2>2 DEF CoresInv, TableInv
<1> QED BY <1>1, <1>5, <1>6, NoneUnderWay DEF CoresInv

(* The threads are counted: the first answer, those after it, and the end. *)
LEMMA ThreadsCounted ==
  ASSUME CoresAssumption, CoresInv, GetProcessorCount \/ NextThreads
  PROVE  CoresInv'
<1> DEFINE N == NumberOfThreads
<1>1. /\ UNCHANGED <<fixed, regs, thread, context, writes>> /\ op.kind \in {"none", "count"}
      /\ op' = NoOp \/ op' = op \/ op' = [NoOp EXCEPT !.kind = "count"]
      /\ before' \in {regs, before} /\ outcome' \in {"none", "failed", "S_OK", outcome}
      /\ faults' \in 0 .. MaxFaults
  BY SMTT(60), Nothing, Constants
  DEF GetProcessorCount, NextThreads, End, Fault, NoFault, CoresInv, Types
<1>2. op' \in Ops /\ op'.kind \in {"none", "count"}
  <2>1. [NoOp EXCEPT !.kind = "count"] \in Ops /\ [NoOp EXCEPT !.kind = "count"].kind = "count"
    BY Nothing DEF Ops
  <2> QED BY <1>1, <2>1, Nothing DEF CoresInv, Types
<1>3. Types' /\ SSEType' = SSEType
  BY <1>1, <1>2 DEF CoresInv, Types, fixed, thread, SSEType
<1>4. \A n \in 1 .. N : /\ [i \in 1 .. n |-> i - 1] \in Seq(Cpus)
                        /\ Len([i \in 1 .. n |-> i - 1]) = n
  BY Constants DEF Cpus
<1>5. CASE GetProcessorCount
  <2>1. m_cachedProcessorCount = 0
    BY <1>5 DEF GetProcessorCount
  <2>2. ASSUME NEW n \in 1 .. N, m_targetProcessorIds' = [i \in 1 .. n |-> i - 1],
               UNCHANGED <<m_cachedProcessorCount, m_cachedKPCRStartAddress>>
        PROVE  TableInv'
    <3>1. m_targetProcessorIds' \in Seq(Cpus) /\ Len(m_targetProcessorIds') = n
      BY <1>4, <2>2
    <3>2. n <= N
      BY Constants
    <3>3. m_targetProcessorIds' = [i \in 1 .. Len(m_targetProcessorIds') |-> i - 1]
      BY <2>2, <3>1
    <3>4. TableWhole'
      BY <2>1, <2>2 DEF TableWhole
    <3> QED BY <2>1, <2>2, <3>1, <3>2, <3>3, <3>4 DEF CoresInv, TableInv
  <2>3. ASSUME UNCHANGED table, op' = NoOp
        PROVE  TableInv'
    BY <2>1, <2>3, Nothing DEF CoresInv, TableInv, TableWhole, table
  <2>4. ASSUME m_targetProcessorIds' = <<>>, m_cachedProcessorCount' = 1,
               m_cachedKPCRStartAddress' = << 0 >>, op' = NoOp
        PROVE  TableInv'
    <3>1. /\ m_cachedKPCRStartAddress' \in Seq({0, 1}) /\ Len(m_cachedKPCRStartAddress') = 1
          /\ m_targetProcessorIds' \in Seq(Cpus) /\ Len(m_targetProcessorIds') = 0
      BY <2>4
    <3>2. TableWhole' /\ 0 <= N
      BY <2>4, <3>1, Constants DEF TableWhole, ThreadsListed
    <3> QED BY <2>4, <3>1, <3>2, Nothing DEF TableInv
  <2>5. TableInv'
    BY <1>5, <2>2, <2>3, <2>4 DEF GetProcessorCount, End
  <2> QED BY <1>1, <1>2, <1>3, <2>5, NoneUnderWay DEF CoresInv
<1>6. CASE NextThreads
  <2>1. op.kind = "count" /\ m_cachedProcessorCount = 0
        /\ m_targetProcessorIds = [i \in 1 .. Len(m_targetProcessorIds) |-> i - 1]
        /\ m_targetProcessorIds \in Seq(Cpus) /\ Len(m_targetProcessorIds) \in Nat
    BY <1>6 DEF NextThreads, CoresInv, TableInv
  <2>2. ASSUME NEW n \in Len(m_targetProcessorIds) + 1 .. N,
               m_targetProcessorIds' = [i \in 1 .. n |-> i - 1],
               UNCHANGED <<op, m_cachedProcessorCount, m_cachedKPCRStartAddress>>
        PROVE  TableInv'
    <3>1. n \in 1 .. N /\ n <= N
      BY <2>1, Constants
    <3>2. m_targetProcessorIds' \in Seq(Cpus) /\ Len(m_targetProcessorIds') = n
      BY <1>4, <2>2, <3>1
    <3>3. m_targetProcessorIds' = [i \in 1 .. Len(m_targetProcessorIds') |-> i - 1]
      BY <2>2, <3>2
    <3>4. TableWhole'
      BY <2>1, <2>2 DEF TableWhole
    <3> QED BY <2>1, <2>2, <3>1, <3>2, <3>3, <3>4 DEF CoresInv, TableInv
  <2>3. ASSUME Len(m_targetProcessorIds) = N, m_cachedProcessorCount' = N,
               m_cachedKPCRStartAddress' = Counted, op' = NoOp, outcome' = "S_OK",
               UNCHANGED m_targetProcessorIds
        PROVE  TableInv'
    <3>1. Counted \in Seq({0, 1}) /\ Len(Counted) = N
      BY <2>1, <2>3 DEF Counted
    <3>2. m_targetProcessorIds' = [i \in 1 .. N |-> i - 1]
      BY <2>1, <2>3
    <3>3. Len(m_targetProcessorIds') <= N
      BY <2>3, Constants
    <3>4. TableWhole'
      BY <2>3, <3>1, <3>2 DEF TableWhole
    <3> QED BY <2>1, <2>3, <3>1, <3>3, <3>4, Nothing DEF TableInv
  <2>4. ASSUME UNCHANGED table, op' = NoOp
        PROVE  TableInv'
    BY <2>1, <2>4, Nothing DEF CoresInv, TableInv, TableWhole, table
  <2>5. TableInv'
    BY <1>6, <2>2, <2>3, <2>4 DEF NextThreads, End
  <2> QED BY <1>1, <1>2, <1>3, <2>1, <2>5, NoneUnderWay DEF CoresInv
<1> QED BY <1>5, <1>6

(* The debugger stores a KPCR address.                                     *)
LEMMA KpcrStored ==
  ASSUME CoresAssumption, CoresInv, NEW cpu \in Cpus, SetKpcrOffset(cpu)
  PROVE  CoresInv'
<1>1. /\ UNCHANGED <<fixed, regs, thread, m_targetProcessorIds, m_cachedProcessorCount, op,
                     context, writes, faults>>
      /\ op.kind = "none" /\ outcome' = "S_OK" /\ before' = regs
      /\ m_cachedKPCRStartAddress' = [m_cachedKPCRStartAddress EXCEPT ![cpu + 1] = 1]
  BY Nothing DEF SetKpcrOffset
<1>2. /\ m_cachedKPCRStartAddress' \in Seq({0, 1})
      /\ Len(m_cachedKPCRStartAddress') = Len(m_cachedKPCRStartAddress)
  <2> DEFINE k == m_cachedKPCRStartAddress
             l == [k EXCEPT ![cpu + 1] = 1]
  <2>1. k \in Seq({0, 1})
    BY DEF CoresInv, TableInv
  <2> HIDE DEF k
  <2>2. /\ k \in [1 .. Len(k) -> {0, 1}] /\ Len(k) \in Nat
        /\ \A f \in [1 .. Len(k) -> {0, 1}] : f \in Seq({0, 1}) /\ Len(f) = Len(k)
    BY <2>1
  <2>3. l \in [1 .. Len(k) -> {0, 1}]
    BY <2>2
  <2> QED BY <1>1, <2>2, <2>3 DEF k
<1>3. Types' /\ SSEType' = SSEType
  BY <1>1 DEF CoresInv, Types, fixed, thread, SSEType
<1>4. TableInv'
  BY <1>1, <1>2 DEF CoresInv, TableInv, TableWhole, ThreadsListed
<1> QED BY <1>1, <1>3, <1>4, NoneUnderWay DEF CoresInv

(* The target runs: there is no context any more.                          *)
LEMMA RunOfTarget ==
  ASSUME CoresAssumption, CoresInv, TargetRuns
  PROVE  CoresInv'
<1> DEFINE run == [c \in Cpus |-> [r \in Registers |-> writes + 2]]
<1>1. /\ UNCHANGED <<fixed, thread, table, op, faults>> /\ op.kind = "none"
      /\ regs' = run /\ before' = run /\ context' = NoContext /\ outcome' = "none"
      /\ writes' = writes + 1 /\ writes < MaxWrites
  BY Nothing DEF TargetRuns
<1>2. run \in [Cpus -> [Registers -> Values]] /\ writes' \in 0 .. MaxWrites
  <2>1. writes + 2 \in Values /\ writes' \in 0 .. MaxWrites
    BY <1>1, Constants DEF CoresInv, Types, Values
  <2> QED BY <2>1
<1> HIDE DEF run
<1>3. Types' /\ SSEType' = SSEType
  BY <1>1, <1>2, Nothing DEF CoresInv, Types, fixed, thread, SSEType
<1>4. TableInv'
  BY <1>1, SameTable
<1>5. GetInv' /\ WholeInv' /\ GroupsInv' /\ SetInv'
  BY <1>1, Nothing DEF GetInv, WholeInv, GroupsInv, SetInv
<1> QED BY <1>3, <1>4, <1>5 DEF CoresInv

(* A call begins to read a context.                                        *)
LEMMA GetBegins ==
  ASSUME CoresAssumption, CoresInv, NEW cpu \in Cpus, GetContext(cpu)
  PROVE  CoresInv'
<1>1. /\ UNCHANGED <<fixed, regs, thread, table, writes, faults>> /\ op = NoOp
      /\ op' = [kind |-> "get", cpu |-> cpu, batches |-> <<>>]
      /\ outcome' = "none" /\ before' = regs /\ context' = NoContext
  BY DEF GetContext
<1>2. op' \in Ops /\ op'.kind = "get"
  <2>1. <<>> \in Seq(Seq(Registers))
    OBVIOUS
  <2> QED BY <1>1, <2>1 DEF Ops
<1>3. Types' /\ SSEType' = SSEType
  BY <1>1, <1>2, Nothing DEF CoresInv, Types, fixed, thread, SSEType
<1>4. TableInv'
  BY <1>1, <1>2, SameTable
<1>5. GetInv' /\ WholeInv' /\ GroupsInv' /\ SetInv'
  BY <1>1, <1>2, Nothing DEF GetInv, WholeInv, GroupsInv, SetInv
<1> QED BY <1>3, <1>4, <1>5 DEF CoresInv

(* A call ends early: its number is beyond the table, or the packet that   *)
(* selects the thread fails.                                               *)
LEMMA CallFails ==
  ASSUME CoresAssumption, CoresInv, Undefined \/ ThreadFails
  PROVE  CoresInv'
<1>1. /\ UNCHANGED <<fixed, regs, table, before, writes>> /\ op' = NoOp
      /\ op.kind \in {"get", "getMore", "set"} /\ op.cpu \in Cpus
      /\ context' = NoContext \/ (context' = context /\ op.kind = "set")
      /\ outcome' \in {"failed", "undefined"}
  BY DEF Undefined, ThreadFails, End, CoresInv, Types, Ops
<1>2. selected' \in Cpus /\ m_lastKnownActiveCpu' \in Cpus /\ faults' \in 0 .. MaxFaults
  <2>1. CASE Undefined
    BY <2>1 DEF Undefined, CoresInv, Types, thread
  <2>2. CASE ThreadFails
    <3>1. selected' = selected \/ (~Beyond(op.cpu) /\ selected' = ThreadOf(op.cpu))
      BY <2>2 DEF ThreadFails, ThreadRefused, ThreadLost, thread
    <3>2. m_lastKnownActiveCpu' \in {m_lastKnownActiveCpu, op.cpu} /\ faults' \in 0 .. MaxFaults
      BY <2>2, Constants DEF ThreadFails, ThreadRefused, ThreadLost, thread, Fault, CoresInv, Types
    <3> QED BY <1>1, <3>1, <3>2, ThreadNamed DEF CoresInv, Types
  <2> QED BY <2>1, <2>2
<1>3. Types' /\ SSEType' = SSEType
  BY <1>1, <1>2, Nothing DEF CoresInv, Types, fixed, SSEType
<1>4. TableInv'
  <2>1. CASE Undefined
    <3>1. Beyond(op.cpu)
      BY <2>1 DEF Undefined
    <3>2. ~ThreadsListed
      BY <1>1, <3>1, ThreadNamed DEF CoresInv
    <3> QED BY <1>1, <3>2, Nothing DEF CoresInv, TableInv, TableWhole, ThreadsListed, table
  <2>2. CASE ThreadFails
    BY <1>1, <2>2, SameTable, Nothing DEF ThreadFails, End
  <2> QED BY <2>1, <2>2
<1> QED BY <1>1, <1>3, <1>4, NoneUnderWay, Nothing DEF CoresInv

(* The reply to "g".                                                       *)
LEMMA AllRegistersGot ==
  ASSUME CoresAssumption, CoresInv, SSEType, QueryAllRegisters
  PROVE  CoresInv'
<1>1. /\ UNCHANGED <<fixed, regs, table, before, writes>> /\ op.kind = "get" /\ ~Beyond(op.cpu)
      /\ selected' = ThreadOf(op.cpu) /\ m_lastKnownActiveCpu' = op.cpu
      /\ op \in Ops /\ op.cpu \in Cpus /\ outcome = "none" /\ context = NoContext
  BY DEF QueryAllRegisters, ThreadSet, CoresInv, Types, Ops, GetInv
<1>2. selected' \in Cpus
  BY <1>1, ThreadNamed DEF CoresInv
<1>3. faults' \in 0 .. MaxFaults
  BY Constants DEF QueryAllRegisters, Fault, NoFault, CoresInv, Types
<1>4. PICK n \in 0 .. Len(GOrder) :
        LET got == {GOrder[i] : i \in 1 .. n} IN
        \/ /\ context' = [values |-> [r \in Registers |->
                                        IF r \in got THEN regs[selected'][r] ELSE 0],
                          groups |-> GroupsOf(got), of |-> selected',
                          whole |-> n = Len(GOrder)]
           /\ \/ op' = NoOp /\ outcome' = "S_OK" /\ Queried = <<>>
              \/ op' = [op EXCEPT !.kind = "getMore"] /\ UNCHANGED outcome
        \/ op' = NoOp /\ outcome' = "failed" /\ UNCHANGED context
  BY DEF QueryAllRegisters, End
<1> DEFINE got == {GOrder[i] : i \in 1 .. n}
           values == [r \in Registers |-> IF r \in got THEN regs[selected'][r] ELSE 0]
<1>5. CASE context' = NoContext /\ op' = NoOp /\ outcome' = "failed"
  <2>1. Types' /\ SSEType' = SSEType
    BY <1>1, <1>2, <1>3, <1>5, Nothing DEF CoresInv, Types, fixed, SSEType
  <2>2. TableInv'
    BY <1>1, <1>5, SameTable, Nothing
  <2> QED BY <1>1, <1>5, <2>1, <2>2, NoneUnderWay, Nothing DEF CoresInv
<1>6. CASE /\ context' = [values |-> values, groups |-> GroupsOf(got), of |-> selected',
                          whole |-> n = Len(GOrder)]
           /\ \/ op' = NoOp /\ outcome' = "S_OK" /\ Queried = <<>>
              \/ op' = [op EXCEPT !.kind = "getMore"] /\ UNCHANGED outcome
  <2>1. /\ op' \in Ops /\ op'.cpu \in Cpus /\ op'.kind \in {"none", "getMore"}
        /\ op'.kind = "getMore" => op'.cpu = op.cpu /\ outcome' = "none"
        /\ op'.kind = "none" => Queried = <<>>
        /\ outcome' \in {"none", "S_OK"}
    BY <1>1, <1>6, Nothing DEF Ops
  <2>2. values \in [Registers -> Values]
    <3>1. \A r \in Registers : regs[selected'][r] \in Values /\ 0 \in Values
      BY <1>2, Constants DEF CoresInv, Types
    <3> QED BY <3>1
  <2>3. GroupsOf(got) \in SUBSET Groups /\ (arch = "AMD64" => "fFloatingPoint" \in GroupsOf(got))
    BY DEF CoresAssumption, CoresInv, Types, GroupsOf, Groups
  <2>4. /\ context' \in Contexts /\ context'.values = values /\ context'.of = selected'
        /\ context'.groups = GroupsOf(got) /\ context'.whole = (n = Len(GOrder))
    <3> HIDE DEF values, got
    <3>1. (n = Len(GOrder)) \in BOOLEAN
      OBVIOUS
    <3> QED BY <1>2, <1>6, <2>2, <2>3, <3>1 DEF Contexts
  <2>5. \A r \in Registers : values[r] \in {0, regs[selected'][r]}
    OBVIOUS
  <2>6. n = Len(GOrder) => \A r \in Listed : values[r] = regs[selected'][r]
    BY RegistersListed DEF Listed, CoresInv, Types
  <2> HIDE DEF values, got
  <2>7. Types' /\ SSEType' = SSEType
    BY <1>1, <1>2, <1>3, <2>1, <2>4, Constants DEF CoresInv, Types, fixed, SSEType
  <2>8. TableInv'
    BY <1>1, <2>1, SameTable
  <2>9. GetInv'
    BY <1>1, <2>1, <2>4, <2>5 DEF GetInv, Beyond, ThreadOf, table
  <2>10. WholeInv'
    BY ZenonT(60), <1>1, <2>1, <2>4, <2>6, SameArchitecture, RegistersAsked DEF WholeInv,
       CoresInv, Types
  <2>11. GroupsInv' /\ SetInv'
    BY <1>1, <2>1, <2>3, <2>4, SameArchitecture DEF GroupsInv, SetInv
  <2> QED BY <2>7, <2>8, <2>9, <2>10, <2>11 DEF CoresInv
<1> QED BY <1>1, <1>4, <1>5, <1>6

(* Some more registers of the thread that was asked for.                   *)
LEMMA MoreRegistersGot ==
  ASSUME CoresAssumption, CoresInv, SSEType, QueryRegisters
  PROVE  CoresInv'
<1> DEFINE values == [r \in Registers |->
                        IF r \in Asked THEN regs[selected'][r] ELSE context.values[r]]
<1>1. /\ UNCHANGED <<fixed, regs, table, before, writes>> /\ op.kind = "getMore"
      /\ ~Beyond(op.cpu) /\ selected' = ThreadOf(op.cpu) /\ m_lastKnownActiveCpu' = op.cpu
      /\ op \in Ops /\ op.cpu \in Cpus /\ op' = NoOp /\ context \in Contexts
      /\ outcome' \in {"S_OK", "failed"} /\ context.of = ThreadOf(op.cpu)
      /\ \/ context' = [context EXCEPT !.values = values]
         \/ context' = NoContext
  <2>1. [context EXCEPT !.values = [r \in Registers |->
           IF r \in ToSet(Queried) THEN regs[selected'][r] ELSE @[r]]]
          = [context EXCEPT !.values = values]
    BY DEF Asked, CoresInv, Types, Contexts
  <2>2. /\ UNCHANGED <<fixed, regs, table, before, writes>> /\ op.kind = "getMore"
        /\ ~Beyond(op.cpu) /\ selected' = ThreadOf(op.cpu) /\ m_lastKnownActiveCpu' = op.cpu
        /\ op \in Ops /\ op.cpu \in Cpus /\ op' = NoOp /\ context \in Contexts
        /\ outcome' \in {"S_OK", "failed"} /\ context.of = ThreadOf(op.cpu)
    BY DEF QueryRegisters, ThreadSet, End, CoresInv, Types, Ops, GetInv
  <2>3. \/ context' = [context EXCEPT !.values = values]
        \/ context' = NoContext
    <3> HIDE DEF values
    <3> QED BY <2>1 DEF QueryRegisters
  <2> QED BY <2>2, <2>3
<1>2. selected' \in Cpus
  BY <1>1, ThreadNamed DEF CoresInv
<1>3. faults' \in 0 .. MaxFaults
  BY Constants DEF QueryRegisters, Fault, NoFault, CoresInv, Types
<1>4. values \in [Registers -> Values]
  <2>1. \A r \in Registers : regs[selected'][r] \in Values /\ context.values[r] \in Values
    BY <1>1, <1>2 DEF CoresInv, Types, Contexts
  <2> QED BY <2>1
<1>5. \A r \in Asked : r \in Registers => values[r] = regs[context.of][r]
  BY <1>1
<1>6. context.whole => \A r \in Listed : r \in Registers => values[r] = regs[context.of][r]
  BY <1>1 DEF CoresInv, WholeInv
<1> HIDE DEF values
<1>7. /\ (context' \in Contexts /\ context'.of = context.of) \/ context' = NoContext
      /\ context' # NoContext => /\ context'.values = values /\ context'.whole = context.whole
                                 /\ context'.groups = context.groups
  BY <1>1, <1>4, Nothing DEF Contexts
<1>8. Types' /\ SSEType' = SSEType
  BY <1>1, <1>2, <1>3, <1>7, Nothing DEF CoresInv, Types, fixed, SSEType
<1>9. TableInv'
  BY <1>1, SameTable, Nothing
<1>10. GetInv' /\ SetInv'
  BY <1>1, Nothing DEF GetInv, SetInv
<1>11. WholeInv' /\ GroupsInv'
  <2>1. CASE context' = NoContext
    BY <1>1, <2>1, Nothing DEF WholeInv, GroupsInv
  <2>2. CASE context' # NoContext
    <3>1. GroupsInv'
      BY <1>1, <1>7, <2>2, SameArchitecture DEF CoresInv, GroupsInv
    <3>2. Listed \subseteq Registers /\ Asked \subseteq Registers /\ context'.of = context.of
      BY <1>1, <1>7, <2>2, RegistersListed, RegistersAsked DEF CoresInv, Types
    <3>3. WholeInv'
      BY ZenonT(60), <1>1, <1>5, <1>6, <1>7, <2>2, <3>2, SameArchitecture DEF WholeInv
    <3> QED BY <3>1, <3>3
  <2> QED BY <2>1, <2>2
<1> QED BY <1>8, <1>9, <1>10, <1>11 DEF CoresInv

(* The debugger sets a context back, changed or not.                       *)
LEMMA SetBegins ==
  ASSUME CoresAssumption, CoresInv, SSEType, NEW cpu \in Cpus, SetContext(cpu)
  PROVE  CoresInv'
<1> DEFINE new == [r \in Registers |-> writes + 2]
           batches == Written(context.groups)
<1>1. /\ UNCHANGED <<fixed, regs, thread, table, faults>> /\ op.kind = "none"
      /\ context # NoContext /\ writes < MaxWrites /\ writes' = writes + 1
      /\ op' = [kind |-> "set", cpu |-> cpu, batches |-> batches]
      /\ outcome' = "none" /\ before' = regs
      /\ context' = context \/ context' = [context EXCEPT !.values = new, !.whole = FALSE]
  BY Nothing DEF SetContext
<1>2. batches \in Seq(Seq(Settable(context.groups))) /\ batches # <<>>
  BY <1>1, BatchesWritten DEF CoresInv, Types, GroupsInv
<1>3. batches \in Seq(Seq(Registers))
  <2>1. Settable(context.groups) \subseteq Registers
    BY RegistersListed, RegistersAsked DEF Settable, Readable, CoresInv, Types
  <2> QED BY <1>2, <2>1, SeqOfSeq
<1> HIDE DEF batches
<1>4. op' \in Ops /\ op'.kind = "set" /\ op'.batches = batches /\ op'.cpu = cpu
  BY <1>1, <1>3 DEF Ops
<1>5. /\ context' \in Contexts /\ context'.groups = context.groups /\ context'.of = context.of
      /\ context'.whole => context' = context
  <2>1. new \in [Registers -> Values] /\ context \in Contexts
    <3>1. writes + 2 \in Values
      BY SMTT(60), <1>1, Constants DEF CoresInv, Types, Values
    <3> QED BY <3>1 DEF CoresInv, Types
  <2> HIDE DEF new
  <2> QED BY <1>1, <2>1 DEF Contexts
<1>6. writes' \in 0 .. MaxWrites
  BY <1>1, Constants DEF CoresInv, Types
<1>7. Types' /\ SSEType' = SSEType
  BY <1>1, <1>4, <1>5, <1>6 DEF CoresInv, Types, fixed, thread, SSEType
<1>8. TableInv'
  BY <1>1, <1>4, SameTable
<1>9. GetInv' /\ GroupsInv'
  BY <1>1, <1>4, <1>5, SameArchitecture DEF GetInv, GroupsInv, CoresInv
<1>10. WholeInv'
  BY <1>1, <1>4, <1>5, SameArchitecture DEF WholeInv, CoresInv
<1>11. SetInv'
  <2>1. op'.batches \in Seq(Seq(Settable(context.groups)))' /\ op'.batches # <<>>
    BY <1>2, <1>4, <1>5, SameArchitecture, <1>1 DEF Settable, Readable
  <2> QED BY <1>1, <1>4, <2>1 DEF SetInv
<1> QED BY <1>7, <1>8, <1>9, <1>10, <1>11 DEF CoresInv

(* The thread is selected before a batch.                                  *)
LEMMA BatchBegins ==
  ASSUME CoresAssumption, CoresInv, SetRegisters
  PROVE  CoresInv'
<1>1. /\ UNCHANGED <<fixed, regs, table, context, outcome, before, writes, faults>>
      /\ op.kind = "set" /\ ~Beyond(op.cpu) /\ op \in Ops /\ op.cpu \in Cpus
      /\ selected' = ThreadOf(op.cpu) /\ m_lastKnownActiveCpu' = op.cpu
      /\ op' = [op EXCEPT !.kind = "setRegs"]
  BY DEF SetRegisters, ThreadSet, NoFault, CoresInv, Types, Ops
<1>2. selected' \in Cpus
  BY <1>1, ThreadNamed DEF CoresInv
<1>3. /\ op' \in Ops /\ op'.kind = "setRegs" /\ op'.cpu = op.cpu /\ op'.batches = op.batches
  BY <1>1 DEF Ops
<1>4. Types' /\ SSEType' = SSEType
  BY <1>1, <1>2, <1>3 DEF CoresInv, Types, fixed, SSEType
<1>5. TableInv'
  BY <1>1, <1>3, SameTable
<1>6. GetInv' /\ GroupsInv' /\ WholeInv'
  BY <1>1, <1>3, SameArchitecture DEF CoresInv, GetInv, GroupsInv, WholeInv
<1>7. SetInv'
  <2>1. /\ Beyond(op.cpu)' = Beyond(op.cpu) /\ ThreadOf(op.cpu)' = ThreadOf(op.cpu)
        /\ Settable(context.groups)' = Settable(context.groups)
    BY <1>1, <1>3, SameArchitecture DEF Beyond, ThreadOf, table, Settable, Readable
  <2> QED BY <1>1, <1>3, <2>1 DEF CoresInv, SetInv
<1> QED BY <1>4, <1>5, <1>6, <1>7 DEF CoresInv

(* What a "P" may do to the registers: nothing outside of the thread that  *)
(* is selected, and nothing at all when the context is whole and of it.    *)
LEMMA RegisterSet ==
  ASSUME CoresAssumption, CoresInv, SSEType, SetRegister
  PROVE  /\ regs' \in [Cpus -> [Registers -> Values]]
         /\ context.whole => regs'[context.of] = regs[context.of]
         /\ \A c \in Cpus, r \in Registers :
              regs'[c][r] # regs[c][r] => c = selected /\ r \in Settable(context.groups)
<1> DEFINE r == Head(Head(op.batches))
           written == [regs EXCEPT ![selected][r] = context.values[r]]
<1>1. /\ op.kind = "setRegs" /\ regs \in [Cpus -> [Registers -> Values]] /\ selected \in Cpus
      /\ op.batches \in Seq(Seq(Settable(context.groups))) /\ op.batches # <<>>
      /\ context.values \in [Registers -> Values] /\ context.of \in Cpus
  BY DEF SetRegister, CoresInv, Types, SetInv, Contexts
<1>2. regs' = regs \/ (Head(op.batches) # <<>> /\ regs' = written)
  BY DEF SetRegister
<1>3. CASE regs' = regs
  BY <1>1, <1>3
<1>4. CASE Head(op.batches) # <<>> /\ regs' = written
  <2>1. r \in Settable(context.groups)
    BY <1>1, <1>4, BatchesShrink
  <2>2. r \in Registers /\ (r \in Listed \/ r \in Asked)
    BY <2>1, RegistersListed, RegistersAsked DEF Settable, Readable, CoresInv, Types
  <2>3. context.whole => context.values[r] = regs[context.of][r]
    BY <1>1, <2>2 DEF CoresInv, WholeInv
  <2> HIDE DEF r
  <2>4. context.values[r] \in Values
    BY <1>1, <2>2
  <2>5. written \in [Cpus -> [Registers -> Values]]
    BY <1>1, <2>2, <2>4
  <2>6. \A c \in Cpus, q \in Registers :
          written[c][q] = IF c = selected /\ q = r THEN context.values[r] ELSE regs[c][q]
    BY <1>1, <2>2
  <2> HIDE DEF written
  <2>7. context.whole => written[context.of] = regs[context.of]
    <3> SUFFICES ASSUME context.whole PROVE written[context.of] = regs[context.of]
      OBVIOUS
    <3>1. \A q \in Registers : written[context.of][q] = regs[context.of][q]
      BY <1>1, <2>3, <2>6
    <3>2. /\ written[context.of] \in [Registers -> Values]
          /\ regs[context.of] \in [Registers -> Values]
      BY <1>1, <2>5
    <3> QED BY <3>1, <3>2
  <2> QED BY <1>4, <2>1, <2>5, <2>6, <2>7
<1> QED BY <1>2, <1>3, <1>4

(* A register of a batch is written, or its batch is done.                 *)
LEMMA RegisterOrBatchDone ==
  ASSUME CoresAssumption, CoresInv, SSEType, SetRegister
  PROVE  CoresInv'
<1> DEFINE b == op.batches
           shorter == [b EXCEPT ![1] = Tail(@)]
<1>1. /\ UNCHANGED <<fixed, thread, table, context, before, writes>> /\ op.kind = "setRegs"
      /\ op \in Ops /\ outcome' \in {outcome, "S_OK", "failed"} /\ op.batches # <<>>
      /\ \/ op' = NoOp
         \/ op' = [op EXCEPT !.kind = "set", !.batches = Tail(b)] /\ Tail(b) # <<>>
         \/ op' = [op EXCEPT !.batches = shorter] /\ Head(b) # <<>>
  <2>1. /\ UNCHANGED <<fixed, thread, table, context, before, writes>> /\ op.kind = "setRegs"
        /\ op \in Ops /\ outcome' \in {outcome, "S_OK", "failed"} /\ op.batches # <<>>
    BY DEF SetRegister, End, CoresInv, Types, SetInv
  <2>2. [op EXCEPT !.batches[1] = Tail(@)] = [op EXCEPT !.batches = shorter]
    BY <2>1 DEF Ops
  <2>3. [op EXCEPT !.kind = "set", !.batches = Tail(@)]
          = [op EXCEPT !.kind = "set", !.batches = Tail(b)]
    BY <2>1 DEF Ops
  <2> QED BY <2>1, <2>2, <2>3 DEF SetRegister, End
<1>2. faults' \in 0 .. MaxFaults
  BY Constants DEF SetRegister, Fault, NoFault, CoresInv, Types
<1>3. \A S : b \in Seq(Seq(S)) =>
        /\ Tail(b) \in Seq(Seq(S))
        /\ Head(b) # <<>> => shorter \in Seq(Seq(S)) /\ shorter # <<>>
  BY <1>1, BatchesShrink
<1>4. /\ op' \in Ops /\ op'.kind \in {"none", "set", "setRegs"}
      /\ op'.kind # "none" =>
           /\ op'.cpu = op.cpu /\ op'.batches # <<>>
           /\ op'.batches \in Seq(Seq(Settable(context.groups)))
  <2>1. b \in Seq(Seq(Registers)) /\ b \in Seq(Seq(Settable(context.groups)))
    BY <1>1 DEF Ops, CoresInv, SetInv
  <2>2. CASE op' = NoOp
    BY <2>2, Nothing
  <2>3. CASE op' = [op EXCEPT !.kind = "set", !.batches = Tail(b)] /\ Tail(b) # <<>>
    <3> DEFINE t == Tail(b)
    <3>1. t \in Seq(Seq(Registers)) /\ t \in Seq(Seq(Settable(context.groups))) /\ t # <<>>
      BY <1>3, <2>1, <2>3
    <3> HIDE DEF t
    <3>2. [op EXCEPT !.kind = "set", !.batches = t] \in Ops
      BY <1>1, <3>1 DEF Ops
    <3>3. /\ [op EXCEPT !.kind = "set", !.batches = t].kind = "set"
          /\ [op EXCEPT !.kind = "set", !.batches = t].cpu = op.cpu
          /\ [op EXCEPT !.kind = "set", !.batches = t].batches = t
      BY <1>1 DEF Ops
    <3> QED BY <2>3, <3>1, <3>2, <3>3 DEF t
  <2>4. CASE op' = [op EXCEPT !.batches = shorter] /\ Head(b) # <<>>
    <3>1. /\ shorter \in Seq(Seq(Registers)) /\ shorter \in Seq(Seq(Settable(context.groups)))
          /\ shorter # <<>>
      BY <1>3, <2>1, <2>4
    <3> HIDE DEF shorter
    <3>2. [op EXCEPT !.batches = shorter] \in Ops
      BY <1>1, <3>1 DEF Ops
    <3>3. /\ [op EXCEPT !.batches = shorter].kind = "setRegs"
          /\ [op EXCEPT !.batches = shorter].cpu = op.cpu
          /\ [op EXCEPT !.batches = shorter].batches = shorter
      BY <1>1 DEF Ops
    <3> QED BY <2>4, <3>1, <3>2, <3>3
  <2> QED BY <1>1, <2>2, <2>3, <2>4
<1> HIDE DEF shorter
<1>5. Types' /\ SSEType' = SSEType
  BY <1>1, <1>2, <1>4, RegisterSet DEF CoresInv, Types, fixed, thread, SSEType
<1>6. TableInv'
  BY <1>1, <1>4, SameTable
<1>7. GetInv' /\ GroupsInv'
  BY <1>1, <1>4, SameArchitecture DEF CoresInv, GetInv, GroupsInv
<1>8. WholeInv'
  <2> SUFFICES ASSUME context.whole PROVE WholeInv'
    BY <1>1 DEF WholeInv
  <2>1. regs'[context.of] = regs[context.of]
    BY RegisterSet
  <2> QED BY <1>1, <1>4, <2>1, SameArchitecture DEF CoresInv, WholeInv
<1>9. SetInv'
  <2> SUFFICES ASSUME op'.kind # "none" PROVE SetInv'
    BY DEF SetInv
  <2>1. /\ Beyond(op.cpu)' = Beyond(op.cpu) /\ ThreadOf(op.cpu)' = ThreadOf(op.cpu)
        /\ Settable(context.groups)' = Settable(context.groups)
    BY <1>1, <1>4, SameArchitecture DEF Beyond, ThreadOf, table, Settable, Readable
  <2>2. \A c \in Cpus, r \in Registers :
          regs'[c][r] # before[c][r] =>
            ~Beyond(op.cpu) /\ c = ThreadOf(op.cpu) /\ r \in Settable(context.groups)
    BY <1>1, RegisterSet DEF CoresInv, SetInv
  <2>3. context.whole => regs'[context.of] = before[context.of]
    BY <1>1, RegisterSet DEF CoresInv, SetInv
  <2>4. op'.kind = "setRegs" =>
          ~Beyond(op.cpu) /\ selected = ThreadOf(op.cpu) /\ m_lastKnownActiveCpu = op.cpu
    BY <1>1 DEF CoresInv, SetInv
  <2> QED BY <1>1, <1>4, <2>1, <2>2, <2>3, <2>4 DEF SetInv, thread
<1> QED BY <1>5, <1>6, <1>7, <1>8, <1>9 DEF CoresInv

(* Every step keeps the invariant.                                         *)
LEMMA CoresNext ==
  ASSUME CoresAssumption, CoresInv, SSEType, [Next]_vars
  PROVE  CoresInv' /\ SSEType'
<1>1. SSEType'
  <2>1. UNCHANGED m_fEnableSSEContext
    BY DEF Next, vars, fixed, ReportReasonTargetHalted, GetProcessorCount, NextThreads,
           SetKpcrOffset, GetContext, SetContext, Undefined, ThreadFails, QueryAllRegisters,
           QueryRegisters, SetRegisters, SetRegister, TargetRuns
  <2> QED BY <2>1 DEF SSEType
<1> SUFFICES CoresInv'
  BY <1>1
<1>2. CASE UNCHANGED vars
  <2>1. /\ Beyond(op.cpu)' = Beyond(op.cpu) /\ ThreadOf(op.cpu)' = ThreadOf(op.cpu)
        /\ Settable(context.groups)' = Settable(context.groups)
    BY <1>2, SameArchitecture DEF vars, Beyond, ThreadOf, table, Settable, Readable
  <2>2. UNCHANGED <<fixed, regs, selected, m_lastKnownActiveCpu, table, op, context, outcome,
                    before, writes, faults>>
    BY <1>2 DEF vars, thread
  <2>3. Types'
    BY <2>2 DEF CoresInv, Types, fixed
  <2>4. TableInv'
    BY <2>2 DEF CoresInv, TableInv, TableWhole, ThreadsListed, table
  <2>5. GetInv' /\ WholeInv' /\ GroupsInv'
    BY <2>1, <2>2, SameArchitecture DEF CoresInv, GetInv, WholeInv, GroupsInv
  <2>6. SetInv'
    BY <2>1, <2>2 DEF CoresInv, SetInv
  <2> QED BY <2>3, <2>4, <2>5, <2>6 DEF CoresInv
<1>3. CASE Next
  <2>1. CASE \E cpu \in Cpus : SetKpcrOffset(cpu) \/ GetContext(cpu) \/ SetContext(cpu)
    BY <2>1, KpcrStored, GetBegins, SetBegins
  <2>2. CASE ReportReasonTargetHalted \/ GetProcessorCount \/ NextThreads
    BY <2>2, StopReported, ThreadsCounted
  <2>3. CASE \/ Undefined \/ ThreadFails \/ QueryAllRegisters \/ QueryRegisters
             \/ SetRegisters \/ SetRegister \/ TargetRuns
    BY <2>3, CallFails, AllRegistersGot, MoreRegistersGot, BatchBegins, RegisterOrBatchDone,
       RunOfTarget
  <2> QED BY <1>3, <2>1, <2>2, <2>3 DEF Next
<1> QED BY <1>2, <1>3

(* At first nothing is known of the threads, and no call is under way.     *)
LEMMA CoresInit ==
  ASSUME CoresAssumption, Init
  PROVE  CoresInv /\ SSEType
<1>1. [c \in Cpus |-> [r \in Registers |-> 1]] \in [Cpus -> [Registers -> Values]]
  BY Constants
<1>2. <<>> \in Seq(Cpus) /\ <<>> \in Seq({0, 1}) /\ Len(<<>>) = 0
  OBVIOUS
<1>3. Types
  BY <1>1, Nothing, Constants DEF Init, Types
<1>4. TableInv
  BY <1>2, Nothing, Constants DEF Init, TableInv, TableWhole
<1>5. GetInv /\ WholeInv /\ GroupsInv /\ SetInv
  BY Nothing DEF Init, GetInv, WholeInv, GroupsInv, SetInv
<1>6. SSEType
  BY Zenon DEF Init, SSEType
<1> QED BY <1>3, <1>4, <1>5, <1>6 DEF CoresInv

-----------------------------------------------------------------------------
(* What the invariant promises.                                            *)

(* What is checked follows from the invariant.                             *)
LEMMA CoresPromised ==
  ASSUME CoresAssumption, CoresInv, SSEType
  PROVE  TypeOK /\ TableWhole /\ ActiveThreadSelected /\ OtherRegistersKept
<1>1. TypeOK
  <2>1. m_fEnableSSEContext \in BOOLEAN
    BY Zenon DEF SSEType
  <2> QED BY <2>1, Constants DEF CoresInv, Types, TableInv, Ops, Contexts, TypeOK
<1>2. TableWhole
  BY DEF CoresInv, TableInv
<1>3. op \in Ops /\ op.cpu \in Cpus
  BY DEF CoresInv, Types, Ops
<1>4. ActiveThreadSelected
  BY <1>3, ThreadNamed DEF CoresInv, SetInv, ActiveThreadSelected
<1>5. OtherRegistersKept
  BY <1>3, ThreadNamed DEF CoresInv, SetInv, OtherRegistersKept, Settable, Coprocessor
<1> QED BY <1>1, <1>2, <1>4, <1>5

(* A step that completes a context takes it from the core asked for.       *)
LEMMA ContextTaken ==
  ASSUME CoresAssumption, CoresInv, SSEType, Next,
         op.kind \in {"get", "getMore"}, outcome' = "S_OK", ThreadsListed,
         NEW r \in Registers
  PROVE  context'.values[r] \in {0, regs[op.cpu][r]}
<1>1. op \in Ops /\ op.cpu \in Cpus /\ op # NoOp /\ outcome = "none" /\ context \in Contexts
  BY Nothing DEF CoresInv, Types, Ops, GetInv
<1>2. ThreadOf(op.cpu) = op.cpu
  BY <1>1, ThreadNamed DEF CoresInv
<1>3. QueryAllRegisters \/ QueryRegisters
  BY <1>1 DEF Next, ReportReasonTargetHalted, GetProcessorCount, NextThreads, SetKpcrOffset,
              GetContext, SetContext, Undefined, ThreadFails, SetRegisters, SetRegister,
              TargetRuns, End
<1>4. CASE QueryAllRegisters
  <2>1. selected' = op.cpu
    BY <1>2, <1>4 DEF QueryAllRegisters, ThreadSet
  <2>2. PICK n \in 0 .. Len(GOrder) :
          LET got == {GOrder[i] : i \in 1 .. n} IN
          context' = [values |-> [q \in Registers |->
                                    IF q \in got THEN regs[selected'][q] ELSE 0],
                      groups |-> GroupsOf(got), of |-> selected', whole |-> n = Len(GOrder)]
    BY <1>1, <1>4 DEF QueryAllRegisters, End
  <2> DEFINE got == {GOrder[i] : i \in 1 .. n}
  <2>3. context'.values = [q \in Registers |-> IF q \in got THEN regs[selected'][q] ELSE 0]
    BY <2>2
  <2> HIDE DEF got
  <2> QED BY <2>1, <2>3
<1>5. CASE QueryRegisters
  <2>1. selected' = op.cpu /\ op.kind = "getMore"
    BY <1>2, <1>5 DEF QueryRegisters, ThreadSet
  <2>2. context' = [context EXCEPT !.values = [q \in Registers |->
                      IF q \in ToSet(Queried) THEN regs[selected'][q] ELSE @[q]]]
    BY <1>5 DEF QueryRegisters, End
  <2>3. context'.values[r] \in {regs[selected'][r], context.values[r]}
    BY <1>1, <2>2 DEF Contexts
  <2>4. context.values[r] \in {0, regs[op.cpu][r]}
    BY <1>2, <2>1 DEF CoresInv, GetInv
  <2> QED BY <2>1, <2>3, <2>4
<1> QED BY <1>3, <1>4, <1>5

(* A step of the calls that write leaves the core of a whole context alone.*)
LEMMA WholeSetBack ==
  ASSUME CoresAssumption, CoresInv, SSEType, Next,
         op.kind = "setRegs", context.whole, context.of = selected
  PROVE  regs'[selected] = before[selected]
<1>1. op # NoOp
  BY Nothing
<1>2. SetRegister
  BY <1>1 DEF Next, ReportReasonTargetHalted, GetProcessorCount, NextThreads, SetKpcrOffset,
              GetContext, SetContext, Undefined, ThreadFails, QueryAllRegisters,
              QueryRegisters, SetRegisters, TargetRuns
<1> QED BY <1>2, RegisterSet DEF CoresInv, SetInv

(* The table of the threads is whole once they are counted, registers are  *)
(* written only to the thread that is selected, which is the one that was  *)
(* named, and those of the coprocessor only with their group: for any      *)
(* number of threads, writes and refused or lost answers.                  *)
THEOREM CoresInStep ==
  ASSUME CoresAssumption
  PROVE  Spec => [](TypeOK /\ TableWhole /\ ActiveThreadSelected /\ OtherRegistersKept)
<1>1. Init => CoresInv /\ SSEType
  BY CoresInit
<1>2. CoresInv /\ SSEType /\ [Next]_vars => CoresInv' /\ SSEType'
  BY CoresNext
<1>3. CoresInv /\ SSEType =>
        TypeOK /\ TableWhole /\ ActiveThreadSelected /\ OtherRegistersKept
  BY CoresPromised
<1> QED BY <1>1, <1>2, <1>3, PTL DEF Spec

(* A context that is got is that of the core that was named, and one that  *)
(* is set back as it was read leaves its core as it was, however far the   *)
(* call gets: for any number of threads, writes and refused or lost answers*)
THEOREM ContextsInStep ==
  ASSUME CoresAssumption
  PROVE  Spec => ContextOfCpu /\ SetBackKeeps
<1>1. Init => CoresInv /\ SSEType
  BY CoresInit
<1>2. CoresInv /\ SSEType /\ [Next]_vars => CoresInv' /\ SSEType'
  BY CoresNext
<1>3. CoresInv /\ SSEType /\ [Next]_vars =>
        [op.kind \in {"get", "getMore"} /\ outcome' = "S_OK" /\ ThreadsListed =>
           \A r \in Registers : context'.values[r] \in {0, regs[op.cpu][r]}]_vars
  BY ContextTaken
<1>4. CoresInv /\ SSEType /\ [Next]_vars =>
        [op.kind = "setRegs" /\ context.whole /\ context.of = selected =>
           regs'[selected] = before[selected]]_vars
  BY WholeSetBack
<1> QED BY <1>1, <1>2, <1>3, <1>4, PTL DEF Spec, ContextOfCpu, SetBackKeeps
=============================================================================
