---------------------------- MODULE RangeBuilder ----------------------------
(***************************************************************************)
(* RangeBuilder: where the parameters of a function live.  From their      *)
(* places in the calling convention the locations are carried along the    *)
(* control flow of the disassembled function, block by block, instruction  *)
(* by instruction and range by range, and then turned into the live ranges *)
(* of each parameter.  Once that is done the function runs, on a machine   *)
(* that knows where each parameter really is.                              *)
(*                                                                         *)
(* Instructions have length 1, so that an address names one, and a stack   *)
(* slot has size 1.  Registers are base registers; sub-registers, scaled   *)
(* and second registers of an operand are left out.                        *)
(***************************************************************************)
EXTENDS Integers, Sequences, FiniteSetsExt

CONSTANTS
  Programs,           (* The functions: see IsFunction.                    *)
  NumOrdinals,        (* parameters passed in registers                    *)
  MaximumTraversalCount,
  Span,               (* Addresses there are.                              *)
  MaxSteps            (* instructions run                                  *)

(* A disassembled function: [code, starts, succ, kinds], its instructions  *)
(* by address, where its blocks start, the flows out of each, and the kinds*)
(* of its parameters, with their typedefs unwound.  It is entered at its   *)
(* first address.                                                          *)
IsFunction(f) ==
  /\ DOMAIN f.code = 1 .. Len(f.code) /\ Len(f.code) \in 1 .. Span - 1
  /\ f.starts \subseteq 1 .. Len(f.code) /\ 1 \in f.starts
  /\ f.succ \in [f.starts -> Seq(f.starts)]
  /\ f.kinds \in Seq({"int", "float", "big"}) /\ f.kinds # <<>>

VARIABLES
  program,
  phase,              (* "traverse", "carry", "walk", "create", "run" or   *)
                      (* "failed".                                         *)
  bbInfo,             (* by start: [count, slots, ranges by parameter]     *)
  bbTrav,             (* The queue of entries [block, source, address].    *)
  entry,              (* The one that is followed.                         *)
  changedRanges,      (* Whether the last range carried was new.           *)
  instr, isReached,   (* The instruction, and whether the ranges reach it. *)
  lastRange,          (* The last one looked at, <<parameter, index>>.     *)
  window,             (* The last instructions processed, newest last.     *)
  at,                 (* CreateLiveRangeSets: parameter, block, address and*)
                      (* the range under way, whose start 0 is "none".     *)
  liveRanges,         (* By parameter, as LiveRangeList has them.          *)
  machine, steps      (* [ip, regs, cells, clobbered] and how far it ran.  *)

travVars == <<bbInfo, bbTrav, entry, changedRanges, instr, isReached, lastRange, window>>
vars == <<program, phase, travVars, at, liveRanges, machine, steps>>

Lists == INSTANCE LiveRangeList WITH AddressSpan <- Span, FunctionBase <- 0

Registers == {"rcx", "rdx", "xmm0", "xmm1", "rbx", "rax", "rsp"}
IsNonVolatile(reg) == reg \in {"rbx", "rsp"}

-----------------------------------------------------------------------------
(* The disassembled function.                                              *)

Params == DOMAIN program.kinds
Code(a) == program.code[a]
CodeEnd == Len(program.code) + 1
Starts == program.starts
EndOf(b) == Min({s \in Starts : s > b} \cup {CodeEnd})
Starting(a) == Max({s \in Starts : s <= a})

(* An operand is [flags, reg, const], as GetOperandInfo makes it.          *)
Operand(flags, reg, const) == [flags |-> flags, reg |-> reg, const |-> const]

(* The first operand with a flag; there is one where it is asked for.      *)
FirstWith(flag, ins) ==
  ins.operands[Min({i \in DOMAIN ins.operands : flag \in ins.operands[i].flags})]
Immediates(ins) == {i \in DOMAIN ins.operands :
                      "imm" \in ins.operands[i].flags /\ ins.operands[i].reg = "none"}

IsReg(o) == "reg" \in o.flags /\ "mem" \notin o.flags

-----------------------------------------------------------------------------
(* Locations.                                                              *)

Register(reg) == [kind |-> "reg", reg |-> reg, off |-> 0]
Relative(reg, off) == [kind |-> "rel", reg |-> reg, off |-> off]

(* GetParameterPlacements: the first parameters are in registers, as a     *)
(* pointer when they are too big, and the others on the stack, above the   *)
(* return address and the home of the registers, where a big one takes two *)
(* slots.                                                                  *)
BigOnes(from, to) == Cardinality({p \in Params : from < p /\ p < to /\ program.kinds[p] = "big"})
Placement(i) ==
  LET reg == IF program.kinds[i] = "float" THEN <<"xmm0", "xmm1">>[i] ELSE <<"rcx", "rdx">>[i] IN
  IF i > NumOrdinals THEN Relative("rsp", i + BigOnes(NumOrdinals, i))
  ELSE IF program.kinds[i] = "big" THEN Relative(reg, 0) ELSE Register(reg)

OperandToLocation(o) ==
  IF "mem" \in o.flags THEN Relative(o.reg, o.const)
  ELSE IF "reg" \in o.flags /\ "imm" \notin o.flags THEN Register(o.reg)
  ELSE Lists!NoLocation

(* CheckForKill: a register that the location uses is written.  Writes to  *)
(* memory kill nothing.                                                    *)
Writes(o, loc) == "out" \in o.flags /\ IsReg(o) /\ o.reg = loc.reg
Kills(ins, loc) ==
  \/ \E i \in DOMAIN ins.operands : Writes(ins.operands[i], loc)
  \/ ins.op \in {"push", "pop"} /\ loc.reg = "rsp"
  \/ ins.op = "call" /\ ~IsNonVolatile(loc.reg)

(* CheckAddAlias: what "mov output, input" makes of a location: a copy, the*)
(* same memory after the register moved, or by way of another register.    *)
Copy(output, input, loc) ==
  OperandToLocation(input) = loc /\ OperandToLocation(output) # Lists!NoLocation
Moves(output, input, loc) ==
  /\ "reg" \in output.flags /\ "mem" \notin input.flags
  /\ input.flags \cap {"reg", "imm"} # {}
  /\ loc.kind = "rel" /\ loc.reg = input.reg
(* A definition named "...Wrong" is a plausible bug in the definition that *)
(* follows it; no specification uses it.                                   *)
CheckAddAliasWrong(output, input, loc) ==
  IF Copy(output, input, loc) THEN <<OperandToLocation(output)>>
  ELSE IF Moves(output, input, loc) THEN <<Relative(output.reg, loc.off + input.const)>>
  ELSE <<>>
CheckAddAlias(output, input, loc) ==
  IF Copy(output, input, loc) THEN <<OperandToLocation(output)>>
  ELSE IF Moves(output, input, loc) THEN <<Relative(output.reg, loc.off - input.const)>>
  ELSE <<>>

(* The stack allocation "mov rax, size; call __chkstk; sub rsp, rax" in the*)
(* last instructions processed.                                            *)
IsStackProbe(ins, a, last) ==
  /\ Len(ins.operands) = 2 /\ IsReg(ins.operands[2])
  /\ Len(last) >= 2 /\ last[Len(last)] = a - 1 /\ last[Len(last) - 1] = a - 2
  /\ Code(a - 2).op = "mov" /\ Immediates(Code(a - 2)) # {}
  /\ FirstWith("out", Code(a - 2)).reg = ins.operands[2].reg
  /\ Code(a - 1).op = "call" /\ Code(a - 1).probe

(* What add and sub add to their register, or no number.  (The constant    *)
(* of the stack allocation is that of the first range that asks for it,    *)
(* kept by address after its scope has ended.)                             *)
Added(ins, a, last) ==
  LET sign == IF ins.op = "add" THEN 1 ELSE -1
      Constant(i) == ins.operands[Min(Immediates(i))].const
  IN IF Immediates(ins) # {} THEN {sign * Constant(ins)}
     ELSE IF ins.op = "sub" /\ FirstWith("out", ins).reg = "rsp" /\ IsStackProbe(ins, a, last)
     THEN {sign * Code(a - 2).operands[Min(Immediates(Code(a - 2)))].const}
     ELSE {}

(* Push and pop are two moves each.  The second one uses a reference into  *)
(* the vector that the first may have made grow: the memory given back     *)
(* still reads as it did, or not.                                          *)
TwoMoves(first, second) ==
  {first \o second} \cup (IF first = <<>> THEN {} ELSE {first})
Sp(flag, const) == Operand({flag, "reg"} \cup (IF const = 0 THEN {} ELSE {"imm"}), "rsp", const)
TopOfStack == Operand({"in", "mem"}, "rsp", 0)

(* What an instruction makes of a location, in every way it can come out.  *)
AliasesOf(ins, a, last, loc) ==
  CASE ins.op = "mov" -> {CheckAddAlias(FirstWith("out", ins), FirstWith("in", ins), loc)}
    [] ins.op = "lea" ->
         {CheckAddAlias(FirstWith("out", ins),
                        [FirstWith("in", ins) EXCEPT !.flags = (@ \ {"mem"}) \cup {"reg", "imm"}], loc)}
    [] ins.op = "push" ->
         TwoMoves(CheckAddAlias(Sp("out", 0), Sp("in", -1), loc),
                  CheckAddAlias(TopOfStack, FirstWith("in", ins), loc))
    [] ins.op = "pop" ->
         TwoMoves(CheckAddAlias(FirstWith("out", ins), TopOfStack, loc),
                  CheckAddAlias(Sp("out", 0), Sp("in", 1), loc))
    [] ins.op \in {"add", "sub"} /\ IsReg(FirstWith("out", ins)) /\ Added(ins, a, last) # {} ->
         LET out == FirstWith("out", ins)
         IN {CheckAddAlias(out, [out EXCEPT !.flags = @ \cup {"imm"},
                                            !.const = Min(Added(ins, a, last))], loc)}
    [] OTHER -> {<<>>}

-----------------------------------------------------------------------------
(* Control flows: CarryoverLiveRanges and TraverseBasicBlock.              *)

LiveRange(start, loc, slot) ==
  [start |-> start, end |-> start, loc |-> loc, slot |-> slot, state |-> "Live"]

Block == bbInfo[entry.block]
RangesOf(info) == UNION {{p} \X DOMAIN info.ranges[p] : p \in Params}
(* The loops over the ranges of a block take parameter by parameter.       *)
Before(r, s) == r[1] < s[1] \/ (r[1] = s[1] /\ r[2] < s[2])
IsFirst(r, rs) == \A s \in rs : ~Before(s, r)
NoneYet == <<1, 0>>

TakeEntry ==
  /\ phase = "traverse" /\ bbTrav # <<>>
  /\ phase' = "carry" /\ entry' = Head(bbTrav) /\ bbTrav' = Tail(bbTrav)
  /\ changedRanges' = FALSE /\ lastRange' = NoneYet
  /\ UNCHANGED <<program, bbInfo, instr, isReached, window, at, liveRanges, machine, steps>>

(* What lives at the flow's instruction, of what is still to be looked at. *)
Flowing ==
  IF entry.source = 0 THEN {}
  ELSE LET from == bbInfo[entry.source] IN
       {r \in RangesOf(from) :
          LET lr == from.ranges[r[1]][r[2]] IN
          /\ Before(lastRange, r) /\ lr.state = "LiveAtEndOfBlock"
          /\ lr.start <= entry.address /\ lr.end > entry.address}

(* A location that already enters the block is counted, and any other is   *)
(* added with a count of its own.                                          *)
Matching(ranges, b, loc) == {i \in DOMAIN ranges : ranges[i].start = b /\ ranges[i].loc = loc}
Carried(info, b, p, loc) ==
  LET same == Matching(info.ranges[p], b, loc) IN
  IF same # {}
  THEN [info EXCEPT !.slots = [s \in DOMAIN @ |->
          @[s] + Cardinality({i \in same : info.ranges[p][i].slot = s})]]
  ELSE [info EXCEPT !.slots = Append(@, 1),
                    !.ranges[p] = Append(@, LiveRange(b, loc, Len(info.slots) + 1))]

CarryoverLiveRange ==
  /\ phase = "carry"
  /\ \E r \in Flowing :
       LET loc == bbInfo[entry.source].ranges[r[1]][r[2]].loc IN
       /\ IsFirst(r, Flowing)
       /\ bbInfo' = [bbInfo EXCEPT ![entry.block] = Carried(@, entry.block, r[1], loc)]
       /\ changedRanges' = (Matching(Block.ranges[r[1]], entry.block, loc) = {})
       /\ lastRange' = r
  /\ UNCHANGED <<program, phase, bbTrav, entry, instr, isReached, window, at, liveRanges,
                 machine, steps>>

(* A block is walked when it is first entered, and when the entry changed  *)
(* what lives at its start; either way the entry is counted.               *)
TraverseBasicBlock ==
  /\ phase = "carry" /\ Flowing = {}
  /\ \/ /\ Block.count >= MaximumTraversalCount
        /\ phase' = "failed"
        /\ UNCHANGED <<bbInfo, instr, isReached>>
     \/ /\ Block.count < MaximumTraversalCount
        /\ bbInfo' = [bbInfo EXCEPT ![entry.block].count = @ + 1]
        /\ IF Block.count = 0 \/ changedRanges
           THEN phase' = "walk" /\ instr' = entry.block /\ isReached' = FALSE
           ELSE phase' = "traverse" /\ UNCHANGED <<instr, isReached>>
  /\ UNCHANGED <<program, bbTrav, entry, changedRanges, lastRange, window, at, liveRanges,
                 machine, steps>>

-----------------------------------------------------------------------------
(* One instruction: UpdateRangesForInstruction.                            *)

WithRanges(Op(_)) ==
  [bbInfo EXCEPT ![entry.block].ranges =
     [p \in DOMAIN @ |-> [i \in DOMAIN @[p] |-> Op(@[p][i])]]]

(* Live ranges reach to the end of the instruction; those it kills end     *)
(* there.                                                                  *)
Reached(lr) ==
  IF lr.state # "Live" THEN lr
  ELSE [lr EXCEPT !.end = @ + 1,
                  !.state = IF Kills(Code(instr), lr.loc) THEN "MarkedForKill" ELSE "Live"]
ReachInstruction ==
  /\ phase = "walk" /\ ~isReached /\ instr < EndOf(entry.block)
  /\ bbInfo' = WithRanges(Reached)
  /\ isReached' = TRUE /\ lastRange' = NoneYet
  /\ UNCHANGED <<program, phase, bbTrav, entry, changedRanges, instr, window, at, liveRanges,
                 machine, steps>>

(* What the instruction copies or moves of a range that it finds alive     *)
(* lives from behind the instruction on.                                   *)
Aliases(r) == AliasesOf(Code(instr), instr, window, Block.ranges[r[1]][r[2]].loc)
Aliased ==
  {r \in RangesOf(Block) :
     LET lr == Block.ranges[r[1]][r[2]] IN
     /\ Before(lastRange, r) /\ lr.state \in {"Live", "MarkedForKill"}
     /\ lr.start <= instr /\ instr < lr.end /\ Aliases(r) # {<<>>}}
AddAliases ==
  /\ phase = "walk" /\ isReached
  /\ \E r \in Aliased :
       /\ IsFirst(r, Aliased)
       /\ \E found \in Aliases(r) :
            LET slot == Block.ranges[r[1]][r[2]].slot
                new == [k \in DOMAIN found |-> LiveRange(instr + 1, found[k], slot)]
            IN bbInfo' = [bbInfo EXCEPT ![entry.block].ranges[r[1]] = @ \o new]
       /\ lastRange' = r
  /\ UNCHANGED <<program, phase, bbTrav, entry, changedRanges, instr, isReached, window, at,
                 liveRanges, machine, steps>>

(* What is killed is dead, and the window moves on.                        *)
Swept(lr) == IF lr.state = "MarkedForKill" THEN [lr EXCEPT !.state = "Dead"] ELSE lr
EndInstruction ==
  /\ phase = "walk" /\ isReached /\ Aliased = {}
  /\ bbInfo' = WithRanges(Swept)
  /\ window' = Append(IF Len(window) < 3 THEN window ELSE Tail(window), instr)
  /\ instr' = instr + 1 /\ isReached' = FALSE
  /\ UNCHANGED <<program, phase, bbTrav, entry, changedRanges, lastRange, at, liveRanges,
                 machine, steps>>

(* Ranges still live at the end of a block stay as they are; every flow out*)
(* of it is to be followed.                                                *)
AtEndOfBlock(lr) == IF lr.state = "Live" THEN [lr EXCEPT !.state = "LiveAtEndOfBlock"] ELSE lr
Outbound(b) ==
  [k \in DOMAIN program.succ[b] |->
     [block |-> program.succ[b][k], source |-> b, address |-> EndOf(b) - 1]]
EndBlock ==
  /\ phase = "walk" /\ ~isReached /\ instr >= EndOf(entry.block)
  /\ bbInfo' = WithRanges(AtEndOfBlock)
  /\ bbTrav' = bbTrav \o Outbound(entry.block)
  /\ phase' = "traverse"
  /\ UNCHANGED <<program, entry, changedRanges, instr, isReached, lastRange, window, at,
                 liveRanges, machine, steps>>

(* The queue is empty.                                                     *)
EndTraversal ==
  /\ phase = "traverse" /\ bbTrav = <<>>
  /\ phase' = "create"
  /\ UNCHANGED <<program, travVars, at, liveRanges, machine, steps>>

-----------------------------------------------------------------------------
(* CreateLiveRangeSets: one range at a time out of those of the blocks.    *)

NoRange == [start |-> 0, end |-> 0, loc |-> Lists!NoLocation]

(* A range counts when every entry into its block brought its location.    *)
IsUsableWrong(info, lr) == lr.end > lr.start
IsUsable(info, lr) == info.slots[lr.slot] = info.count /\ lr.end > lr.start

(* The ranges of the block are looked at by their start; of equal ones the *)
(* first is taken.                                                         *)
Candidates ==
  LET info == bbInfo[at.block]
      ranges == info.ranges[at.param]
      after == {i \in DOMAIN ranges : IsUsable(info, ranges[i]) /\ ranges[i].end > at.instrp}
      first == {i \in after : \A j \in after : ranges[i].start <= ranges[j].start}
  IN IF after = {} THEN {} ELSE {ranges[Min(first)]}

Merges(lr) ==
  /\ at.range.start <= lr.start /\ lr.start <= at.range.end /\ lr.end > at.range.end
  /\ lr.loc = at.range.loc

(* AddParameterRangeToFunction: what AddLiveRange makes of a refused range *)
(* is not looked at.                                                       *)
WithRange ==
  [liveRanges EXCEPT ![at.param] =
     Lists!AddLiveRange(@, [id |-> Len(@) + 1, offset |-> at.range.start - 1,
                            size |-> at.range.end - at.range.start, loc |-> at.range.loc],
                        Len(program.code))]
WithOpenRange == IF at.range.start = 0 THEN liveRanges ELSE WithRange

InBlock == phase = "create" /\ at.instrp < EndOf(at.block)

TakeRange ==
  /\ InBlock
  /\ \E lr \in Candidates :
       \/ /\ at.range.start = 0
          /\ at' = [at EXCEPT !.range = [start |-> Max({lr.start, at.instrp}),
                                         end |-> lr.end, loc |-> lr.loc],
                              !.instrp = lr.end]
          /\ UNCHANGED liveRanges
       \/ /\ at.range.start # 0 /\ Merges(lr)
          /\ at' = [at EXCEPT !.range.end = lr.end, !.instrp = lr.end]
          /\ UNCHANGED liveRanges
       \/ /\ at.range.start # 0 /\ ~Merges(lr)
          /\ liveRanges' = WithRange
          /\ at' = [at EXCEPT !.range = NoRange, !.instrp = Max({lr.start, at.range.end})]
  /\ UNCHANGED <<program, phase, travVars, machine, steps>>

NoneLeft ==
  /\ InBlock /\ Candidates = {}
  /\ liveRanges' = WithOpenRange
  /\ at' = [at EXCEPT !.range = NoRange, !.instrp = EndOf(at.block)]
  /\ UNCHANGED <<program, phase, travVars, machine, steps>>

(* On to the next block, to the next parameter, or to the end.             *)
NextBlock ==
  /\ phase = "create" /\ ~InBlock
  /\ LET later == {s \in Starts : s > at.block} IN
     \/ /\ later # {}
        /\ at' = [at EXCEPT !.block = Min(later)]
        /\ UNCHANGED <<liveRanges, phase>>
     \/ /\ later = {} /\ at.param < Len(program.kinds)
        /\ at' = [param |-> at.param + 1, block |-> Min(Starts), instrp |-> Min(Starts),
                  range |-> NoRange]
        /\ liveRanges' = WithOpenRange
        /\ UNCHANGED phase
     \/ /\ later = {} /\ at.param = Len(program.kinds)
        /\ liveRanges' = WithOpenRange
        /\ phase' = "run"
        /\ at' = [at EXCEPT !.range = NoRange]
  /\ UNCHANGED <<program, travVars, machine, steps>>

-----------------------------------------------------------------------------
(* The machine that runs the function.  A value is that of a parameter, a  *)
(* number, or anything else; a cell of memory may hold a parameter.        *)

Value(kind, n) == [kind |-> kind, n |-> n]
Junk == Value("junk", 0)

Address(m, o) == m.regs[o.reg].n + o.const
Known(m, o) == m.regs[o.reg].kind = "number"
Loaded(m, address) ==
  LET held == {cell \in m.cells : cell[1] = address}
  IN IF held = {} THEN Junk ELSE Value("param", (CHOOSE cell \in held : TRUE)[2])
Read(m, o) ==
  IF "mem" \in o.flags THEN IF Known(m, o) THEN Loaded(m, Address(m, o)) ELSE Junk
  ELSE IF "reg" \in o.flags THEN m.regs[o.reg] ELSE Value("number", o.const)

(* A cell that held a parameter and is written with anything else is noted,*)
(* since the builder takes no notice of it.                                *)
Stored(m, address, value) ==
  LET rest == {cell \in m.cells : cell[1] # address}
      new == IF value.kind = "param" THEN {<<address, value.n>>} ELSE {}
  IN [m EXCEPT !.cells = rest \cup new,
               !.clobbered = @ \/ m.cells \ rest \notin {{}, new}]
Written(m, o, value) ==
  IF "mem" \notin o.flags THEN [m EXCEPT !.regs[o.reg] = value]
  ELSE IF Known(m, o) THEN Stored(m, Address(m, o), value) ELSE m
Shifted(m, reg, n) ==
  [m EXCEPT !.regs[reg] = IF @.kind = "number" THEN Value("number", @.n + n) ELSE Junk]
Top(m) == m.regs["rsp"].n

Pushed(m, value) == Stored(Shifted(m, "rsp", -1), Top(m) - 1, value)

(* A call may change every volatile register; __chkstk changes none.       *)
Called(m, probe) ==
  [Pushed(m, Junk) EXCEPT !.regs =
     [reg \in Registers |->
        IF reg = "rsp" THEN m.regs[reg]
        ELSE IF probe \/ IsNonVolatile(reg) THEN m.regs[reg] ELSE Junk]]

Subtrahend(ins, m) == Read(m, ins.operands[2])
Run(ins, m) ==
  CASE ins.op = "mov" -> Written(m, FirstWith("out", ins), Read(m, FirstWith("in", ins)))
    [] ins.op = "lea" ->
         Written(m, FirstWith("out", ins),
                 IF Known(m, FirstWith("in", ins))
                 THEN Value("number", Address(m, FirstWith("in", ins))) ELSE Junk)
    [] ins.op = "push" -> Pushed(m, Read(m, FirstWith("in", ins)))
    [] ins.op = "pop" -> Shifted(Written(m, FirstWith("out", ins), Loaded(m, Top(m))), "rsp", 1)
    [] ins.op \in {"add", "sub"} ->
         IF Subtrahend(ins, m).kind # "number" THEN Written(m, FirstWith("out", ins), Junk)
         ELSE Shifted(m, FirstWith("out", ins).reg,
                      (IF ins.op = "add" THEN 1 ELSE -1) * Subtrahend(ins, m).n)
    [] ins.op = "call" -> Called(m, ins.probe)
    [] OTHER -> Written(m, FirstWith("out", ins), Junk)

Execute ==
  /\ phase = "run" /\ steps < MaxSteps /\ machine.ip < CodeEnd
  /\ LET a == machine.ip
         b == Starting(a)
         targets == IF a + 1 < EndOf(b) THEN {a + 1}
                    ELSE IF program.succ[b] = <<>> THEN {CodeEnd} ELSE {program.succ[b][k] : k \in DOMAIN program.succ[b]}
     IN \E target \in targets : machine' = [Run(Code(a), machine) EXCEPT !.ip = target]
  /\ steps' = steps + 1
  /\ UNCHANGED <<program, phase, travVars, at, liveRanges>>

-----------------------------------------------------------------------------
(* InitializeParameterLocations.  Blocks that are never entered, for which *)
(* CreateLiveRangeSets would look behind an empty vector, are none that a  *)
(* disassembler finds by following the flows.                              *)
Entered(b) ==
  IF b # Min(Starts) THEN [count |-> 0, slots |-> <<>>, ranges |-> [p \in Params |-> <<>>]]
  ELSE [count |-> 0, slots |-> [p \in Params |-> 1],
        ranges |-> [p \in Params |-> <<LiveRange(b, Placement(p), p)>>]]

(* Where the caller puts the parameters.                                   *)
CallerPlaces ==
  [ip |-> Min(Starts), clobbered |-> FALSE,
   regs |-> [reg \in Registers |->
     LET in == {p \in Params : p <= NumOrdinals /\ Placement(p).reg = reg} IN
     IF reg = "rsp" THEN Value("number", 0)
     ELSE IF in = {} THEN Junk
     ELSE LET p == Min(in) IN
          IF program.kinds[p] = "big" THEN Value("number", 100 * p) ELSE Value("param", p)],
   cells |-> {<<Placement(p).off, p>> : p \in {q \in Params : q > NumOrdinals}}
             \cup {<<100 * p, p>> : p \in {q \in Params : program.kinds[q] = "big"}}]

Start(disassembled) ==
  /\ program = disassembled
  /\ phase = "traverse"
  /\ bbInfo = [b \in Starts |-> Entered(b)]
  /\ bbTrav = <<[block |-> Min(Starts), source |-> 0, address |-> 0]>>
  /\ entry = bbTrav[1] /\ changedRanges = FALSE
  /\ instr = Min(Starts) /\ isReached = FALSE /\ lastRange = NoneYet /\ window = <<>>
  /\ at = [param |-> 1, block |-> Min(Starts), instrp |-> Min(Starts), range |-> NoRange]
  /\ liveRanges = [p \in Params |-> <<>>]
  /\ machine = CallerPlaces /\ steps = 0
Init == \E p \in Programs : Start(p)

Next ==
  \/ TakeEntry \/ CarryoverLiveRange \/ TraverseBasicBlock
  \/ ReachInstruction \/ AddAliases \/ EndInstruction \/ EndBlock \/ EndTraversal
  \/ TakeRange \/ NoneLeft \/ NextBlock \/ Execute

Spec == Init /\ [][Next]_vars

-----------------------------------------------------------------------------
(* Properties.                                                             *)

(* Every variable has its type.                                            *)
Entries == [block : Starts, source : Starts \cup {0}, address : 0 .. CodeEnd]
TypeOK ==
  /\ phase \in {"traverse", "carry", "walk", "create", "run", "failed"}
  /\ DOMAIN bbInfo = Starts
  /\ \A b \in Starts :
       /\ bbInfo[b].count \in 0 .. MaximumTraversalCount /\ bbInfo[b].slots \in Seq(Nat)
       /\ DOMAIN bbInfo[b].ranges = Params
  /\ bbTrav \in Seq(Entries) /\ entry \in Entries
  /\ changedRanges \in BOOLEAN /\ isReached \in BOOLEAN
  /\ instr \in 1 .. CodeEnd /\ lastRange \in Nat \X Nat
  /\ window \in Seq(1 .. CodeEnd) /\ Len(window) <= 3
  /\ at.param \in Params /\ at.block \in Starts /\ at.instrp \in 1 .. CodeEnd
  /\ DOMAIN liveRanges = Params
  /\ machine.ip \in 1 .. CodeEnd /\ steps \in 0 .. MaxSteps

Holds(p, loc) ==
  IF loc.kind = "reg" THEN machine.regs[loc.reg] = Value("param", p)
  ELSE /\ machine.regs[loc.reg].kind = "number"
       /\ <<machine.regs[loc.reg].n + loc.off, p>> \in machine.cells

(* A debugger that stops anywhere in the function finds a parameter where  *)
(* its live ranges say; unless the function wrote over its memory, which   *)
(* the builder does not look at.                                           *)
FoundWhereSaid ==
  phase = "run" /\ ~machine.clobbered /\ machine.ip < CodeEnd =>
    \A p \in Params :
      LET loc == Lists!LocationAt(liveRanges[p], machine.ip - 1)
      IN loc # Lists!NoLocation => Holds(p, loc)

(* No location depends on how its block was entered.                       *)
FlowIndependent ==
  \A b \in Starts : \A s \in DOMAIN bbInfo[b].slots : bbInfo[b].slots[s] = bbInfo[b].count

(* That holds where no block is entered with different locations.          *)
FoundUnlessFlowDependent == FlowIndependent => FoundWhereSaid

(* The ranges of a parameter are those of the blocks that every entry      *)
(* brought, cut and merged: where there is none of them no location is     *)
(* said, and elsewhere that of one of them; the ranges follow each other in*)
(* the function, and none could be merged with the next.  With the types of*)
(* the variables.                                                          *)
Bringing(p, a, b) ==
  {i \in DOMAIN bbInfo[b].ranges[p] :
     LET lr == bbInfo[b].ranges[p][i] IN
     bbInfo[b].slots[lr.slot] = bbInfo[b].count /\ lr.start <= a /\ a < lr.end}
Brought(p, a) == UNION {{bbInfo[b].ranges[p][i].loc : i \in Bringing(p, a, b)} : b \in Starts}
RangesOfBlocks ==
  /\ TypeOK
  /\ phase = "run" => \A p \in Params :
    /\ \A a \in 1 .. Len(program.code) :
         LET loc == Lists!LocationAt(liveRanges[p], a - 1)
         IN IF Brought(p, a) = {} THEN loc = Lists!NoLocation ELSE loc \in Brought(p, a)
    /\ \A i \in 1 .. Len(liveRanges[p]) - 1 :
         LET this == liveRanges[p][i]
             next == liveRanges[p][i + 1]
         IN /\ Lists!RangeEnd(this) <= next.offset
            /\ Lists!RangeEnd(this) = next.offset => this.loc # next.loc
=============================================================================
