------------------------------ MODULE CodeFlow ------------------------------
(***************************************************************************)
(* The data flow of CodeFlow.js: from an instruction backwards through the *)
(* basic blocks of its function, what influences its source operands.  The *)
(* instructions come one by one from a generator; the generators of one    *)
(* object share the set of blocks it has explored.                         *)
(*                                                                         *)
(* A function is [code, starts, inbound, from]: its instructions at the    *)
(* addresses 1, 2, ..., the addresses its blocks start at, for each block  *)
(* the source instructions of its inbound flows, and the instruction that  *)
(* is asked about.  An operand is [in, out, kind, regs, disp].             *)
(***************************************************************************)
EXTENDS Integers, Sequences, FiniteSetsExt

CONSTANTS Functions, Generators, MaxBegun

VARIABLES func, exploredBlocks, generators, begun

flowVars == <<func, exploredBlocks, generators, begun>>

(* Registers, and how the disassembler (external) answers about them.      *)
GetSubRegisters(reg) == IF reg = "rax" THEN {"al"} ELSE {}
WithSubRegisters(regs) == regs \cup UNION {GetSubRegisters(r) : r \in regs}
UsesRegister(operand, reg) == reg \in WithSubRegisters(operand.regs)
ReferencesSameMemory(o, p) == o.regs = p.regs /\ o.disp = p.disp
ReturnRegister == "rax"
PreservesRegisterValue(reg) == reg \in {"rsp", "rbx"}

Instruction(address) == func.code[address]
Operands(instr) == {instr.operands[i] : i \in DOMAIN instr.operands}
Inputs(instr) == {o \in Operands(instr) : o.in}
Outputs(instr, kind) == {o \in Operands(instr) : o.out /\ o.kind = kind}

BlockOf(address) == Max({s \in func.starts : s <= address})

-----------------------------------------------------------------------------
(* The sets that are live.                                                 *)

HasWriteOfMemory(instr, memoryReferences) ==
  \E o \in Outputs(instr, "mem"), ref \in memoryReferences : ReferencesSameMemory(o, ref)

WritesToRegister(instr, registerReferences) ==
  \/ \E o \in Outputs(instr, "reg"), reg \in registerReferences : UsesRegister(o, reg)
  \/ instr.call /\ WithSubRegisters({ReturnRegister}) \cap registerReferences # {}

(* A definition named "...Wrong" is a plausible bug in the definition that *)
(* follows it; no specification uses it.                                   *)
KilledWrong(instr, registerReferences) == {}
Killed(instr, registerReferences) ==
  IF instr.call
  THEN WithSubRegisters({reg \in registerReferences : ~PreservesRegisterValue(reg)})
  ELSE UNION {WithSubRegisters(o.regs) : o \in Outputs(instr, "reg")}

(* What a call takes in registers, when its target can be found and read.  *)
AddCallInputRegisters(instr) == IF instr.call THEN WithSubRegisters(instr.takes) ELSE {}

(* __reformLifetimes: kill what is written, then make live what is read.   *)
LiveRegisters(instr, registerReferences) ==
  (registerReferences \ Killed(instr, registerReferences))
    \cup UNION {WithSubRegisters(o.regs) : o \in Inputs(instr)}
    \cup AddCallInputRegisters(instr)
(* The memory a memory operand kills is the first that it references.      *)
LiveMemory(instr, memoryReferences) ==
  LET written == IF instr.call THEN {} ELSE Outputs(instr, "mem")
      kept == {ref \in memoryReferences : \A o \in written : ~ReferencesSameMemory(o, ref)}
      read == {o \in Inputs(instr) : o.kind = "mem"}
  IN kept \cup {o \in read : \A ref \in kept : ~ReferencesSameMemory(o, ref)}

-----------------------------------------------------------------------------
(* A generator: a frame for each call of __scanBlockBackwards that it is   *)
(* in, "at" the address it looks at next, or 0 when it is at the flows.    *)

Idle == [state |-> "idle", stack |-> <<>>, yielded |-> <<>>, alone |-> TRUE]
Init ==
  /\ func \in Functions
  /\ exploredBlocks = {} /\ begun = 0
  /\ generators = [k \in Generators |-> Idle]

Running == {k \in Generators : generators[k].state = "running"}
Under == {k \in Generators : generators[k].state \in {"suspended", "running"}}

(* The first call of next: it yields the instruction itself.               *)
Begin(k) ==
  /\ Running = {} /\ begun < MaxBegun /\ begun' = begun + 1
  /\ generators[k].state \in {"idle", "done"}
  /\ exploredBlocks' = {}
  /\ generators' = [j \in Generators |->
       IF j = k
       THEN [state |-> "suspended", stack |-> <<>>, yielded |-> <<func.from>>, alone |-> Under = {}]
       ELSE [generators[j] EXCEPT !.alone = @ /\ j \notin Under]]
  /\ UNCHANGED func

Frame(block, at, registerReferences, memoryReferences) ==
  [block |-> block, at |-> at, regs |-> registerReferences, mem |-> memoryReferences,
   flows |-> func.inbound[block]]
AtFlows(frame) == frame.at < frame.block

(* A later call: it goes on behind the yield.  Behind the first it takes   *)
(* the source operands and scans the block before the instruction.         *)
SourceRegisters == UNION {WithSubRegisters(o.regs) : o \in Inputs(Instruction(func.from))}
SourceMemory == {o \in Inputs(Instruction(func.from)) : o.kind = "mem"}
Resume(k) ==
  /\ Running = {} /\ generators[k].state = "suspended"
  /\ IF generators[k].stack # <<>>
     THEN /\ generators' = [generators EXCEPT ![k].state = "running"]
          /\ UNCHANGED exploredBlocks
     ELSE IF BlockOf(func.from) \in exploredBlocks
     THEN /\ generators' = [generators EXCEPT ![k].state = "done"]
          /\ UNCHANGED exploredBlocks
     ELSE /\ exploredBlocks' = exploredBlocks \cup {BlockOf(func.from)}
          /\ generators' =
               [generators EXCEPT ![k].state = "running",
                  ![k].stack = <<Frame(BlockOf(func.from), func.from - 1, SourceRegisters, SourceMemory)>>]
  /\ UNCHANGED <<func, begun>>

Top(k) == generators[k].stack[Len(generators[k].stack)]
WithTop(k, frame) == [generators[k].stack EXCEPT ![Len(generators[k].stack)] = frame]

(* One instruction: if it writes what is live, it is yielded.              *)
LookAt(k) ==
  LET frame == Top(k)
      instr == Instruction(frame.at)
  IN /\ ~AtFlows(frame)
     /\ IF HasWriteOfMemory(instr, frame.mem) \/ WritesToRegister(instr, frame.regs)
        THEN generators' =
               [generators EXCEPT ![k].state = "suspended", ![k].yielded = Append(@, frame.at),
                  ![k].stack = WithTop(k, [frame EXCEPT !.at = @ - 1,
                                                        !.regs = LiveRegisters(instr, frame.regs),
                                                        !.mem = LiveMemory(instr, frame.mem)])]
        ELSE generators' = [generators EXCEPT ![k].stack = WithTop(k, [frame EXCEPT !.at = @ - 1])]
     /\ UNCHANGED exploredBlocks

(* The next inbound flow: its block is scanned from the source instruction *)
(* on, with the sets as they are, unless it is explored.                   *)
FollowFlow(k) ==
  LET frame == Top(k)
      source == Head(frame.flows)
      rest == WithTop(k, [frame EXCEPT !.flows = Tail(@)])
  IN /\ AtFlows(frame) /\ frame.flows # <<>>
     /\ exploredBlocks' = exploredBlocks \cup {BlockOf(source)}
     /\ generators' =
          [generators EXCEPT ![k].stack =
             IF BlockOf(source) \in exploredBlocks THEN rest
             ELSE Append(rest, Frame(BlockOf(source), source, frame.regs, frame.mem))]

Return(k) ==
  /\ AtFlows(Top(k)) /\ Top(k).flows = <<>>
  /\ generators' =
       [generators EXCEPT ![k].stack = SubSeq(@, 1, Len(@) - 1),
                          ![k].state = IF Len(generators[k].stack) = 1 THEN "done" ELSE "running"]
  /\ UNCHANGED exploredBlocks

ScanBlockBackwards(k) ==
  /\ generators[k].state = "running"
  /\ LookAt(k) \/ FollowFlow(k) \/ Return(k)
  /\ UNCHANGED <<func, begun>>

Next == \E k \in Generators : Begin(k) \/ Resume(k) \/ ScanBlockBackwards(k)

Spec == Init /\ [][Next]_flowVars

-----------------------------------------------------------------------------
(* What influences the instruction: the least set of pairs of an address   *)
(* and a register or memory operand of which a use before that address can *)
(* come to it.  "clobbers" says whether a call makes an end to what it does*)
(* not preserve.                                                           *)

Addresses == DOMAIN func.code
Before(address) ==
  IF address \in func.starts THEN {func.inbound[address][i] : i \in DOMAIN func.inbound[address]}
  ELSE {address - 1}

(* A register as a location is <<its name>>, memory <<registers, offset>>. *)
Places(operands) ==
  {<<r>> : r \in WithSubRegisters(UNION {o.regs : o \in operands})}
    \cup {<<o.regs, o.disp>> : o \in {p \in operands : p.kind = "mem"}}
Reads(instr) == Places(Inputs(instr)) \cup {<<r>> : r \in AddCallInputRegisters(instr)}
Writes(instr) ==
  IF instr.call THEN {<<r>> : r \in WithSubRegisters({ReturnRegister})}
  ELSE {<<r>> : r \in WithSubRegisters(UNION {o.regs : o \in Outputs(instr, "reg")})}
         \cup {<<o.regs, o.disp>> : o \in Outputs(instr, "mem")}
Clobbers(instr, place) == instr.call /\ Len(place) = 1 /\ ~PreservesRegisterValue(place[1])

(* The needs before the instruction at an address, from one need behind it.*)
NeedsFrom(address, place, clobbers) ==
  LET instr == Instruction(address)
  IN IF place \in Writes(instr) THEN {<<address, p>> : p \in Reads(instr)}
     ELSE IF clobbers /\ Clobbers(instr, place) THEN {} ELSE {<<address, place>>}

RECURSIVE ClosureOf(_, _)
ClosureOf(needs, clobbers) ==
  LET all == needs \cup UNION {UNION {NeedsFrom(p, need[2], clobbers) : p \in Before(need[1])} : need \in needs}
  IN IF all = needs THEN needs ELSE ClosureOf(all, clobbers)
Needs(clobbers) ==
  ClosureOf({<<func.from, p>> : p \in Places(Inputs(Instruction(func.from)))}, clobbers)
Influencing(clobbers) ==
  {func.from} \cup UNION {{p \in Before(need[1]) : need[2] \in Writes(Instruction(p))} : need \in Needs(clobbers)}

(* The blocks that lead to the instruction, and whether each of them does  *)
(* so in one way.                                                          *)
RECURSIVE LeadingTo(_)
LeadingTo(blocks) ==
  LET all == blocks \cup UNION {{BlockOf(p) : p \in Before(b)} : b \in blocks}
  IN IF all = blocks THEN blocks ELSE LeadingTo(all)
OneWay ==
  LET blocks == LeadingTo({BlockOf(func.from)})
  IN FoldSet(LAMBDA b, n : n + Len(func.inbound[b]), 0, blocks) = Cardinality(blocks) - 1

(* CodeFlow.js lines 16-18: only an instruction that influences the source *)
(* operands is yielded, none twice, and all are when the blocks before the *)
(* instruction lead to it in one way each.  Where blocks lead to it in more*)
(* ways, a block is scanned for the first way only, and a loop not again   *)
(* for its last part.  A generator that another one of the object is begun *)
(* under has its set of explored blocks taken away.                        *)
FlowTraced ==
  \A k \in Generators :
    LET yielded == generators[k].yielded
    IN generators[k].state = "done" =>
         /\ \A i \in DOMAIN yielded : yielded[i] \in Influencing(FALSE)
         /\ generators[k].alone =>
              /\ \A i, j \in DOMAIN yielded : yielded[i] = yielded[j] => i = j
              /\ OneWay => Influencing(TRUE) \subseteq {yielded[i] : i \in DOMAIN yielded}
=============================================================================
