--------------------------- MODULE TextDumpParser ---------------------------
(***************************************************************************)
(* The parser of "text dumps" and what its services answer from the parsed *)
(* file: memory, frames and modules.  The file comes line by line, so the  *)
(* behaviours are the parses of all files up to MaxLines lines of Lines.   *)
(*                                                                         *)
(* A line is what a section's parser makes of it: [is |-> "memory"] with   *)
(* an address and bytes, [is |-> "frame"] with a number, a stack pointer   *)
(* and a return address, [is |-> "module"] with its bounds and the rest as *)
(* one value, [is |-> "registers"] with names and values; or "blank",      *)
(* "comment", a "header" of a section, or "other".  "whole" is FALSE for a *)
(* line that breaks off where its section needs more.                      *)
(***************************************************************************)
EXTENDS Integers, SequencesExt

CONSTANTS Lines, MaxLines, MaxAddress

VARIABLES
  reading,         (* "start", "between", a section, or how it ended       *)
  file,            (* The lines read, each with what it was read as        *)
  m_stackFrames, m_memoryRegions, m_moduleInfos, m_registerValues,
  curFrame,        (* Of ParseStackFrames                                  *)
  region           (* Of ParseMemoryRegions: what it collects              *)

lists == <<m_stackFrames, m_memoryRegions, m_moduleInfos, m_registerValues>>
locals == <<curFrame, region>>
parserVars == <<reading, file, lists, locals>>

Sections == {"MEMORY", "STACK", "MODULEINFO", "REGISTERS"}
NoRegion == [first |-> TRUE, start |-> 0, cur |-> 0, data |-> <<>>]

Init ==
  /\ reading = "start" /\ file = <<>>
  /\ m_stackFrames = <<>> /\ m_memoryRegions = <<>>
  /\ m_moduleInfos = <<>> /\ m_registerValues = <<>>
  /\ curFrame = 0 /\ region = NoRegion

-----------------------------------------------------------------------------
(* Initialize.  A byte order mark is compared with plain chars: where they *)
(* are signed no mark is ever seen, and the line that it begins is not the *)
(* header.                                                                 *)
Initialize ==
  /\ reading = "start"
  /\ \E bom \in {"none", "UTF-8", "UTF-16"}, first \in {"signature", "else"} :
       reading' = IF bom = "none" /\ first = "signature" THEN "between" ELSE "refused"
  /\ UNCHANGED <<file, lists, locals>>

(* ReadLine, for a line that is read as part of "reading".                 *)
ReadLine(line) ==
  /\ Len(file) < MaxLines
  /\ file' = Append(file, [line |-> line, in |-> reading])

Fails == reading' = "failed" /\ UNCHANGED <<lists, locals>>
Remains == UNCHANGED reading

(* Parse, between sections: whatever is no header is passed over.          *)
Parse(line) ==
  /\ reading = "between"
  /\ ReadLine(line)
  /\ UNCHANGED lists
  /\ IF line.is = "header"
     THEN reading' = line.of /\ curFrame' = 0 /\ region' = NoRegion
     ELSE UNCHANGED <<reading, locals>>

(* ParseRegisters.  A token without "=" is passed over, and with it the    *)
(* lines of other sections, headers and comments.                          *)
ParseRegisters(line) ==
  /\ reading = "REGISTERS" /\ line.is # "blank"
  /\ ReadLine(line)
  /\ \/ /\ line.is # "registers" /\ Remains /\ UNCHANGED <<lists, locals>>
     \/ /\ line.is = "registers" /\ ~line.whole /\ Fails
     \/ /\ line.is = "registers" /\ line.whole /\ Remains
        /\ m_registerValues' = m_registerValues \o line.values
        /\ UNCHANGED <<m_stackFrames, m_memoryRegions, m_moduleInfos, locals>>

ParseModuleInformation(line) ==
  /\ reading = "MODULEINFO" /\ line.is # "blank"
  /\ ReadLine(line)
  /\ IF line.is = "module" /\ line.whole
     THEN /\ m_moduleInfos' = Append(m_moduleInfos, [start |-> line.start, end |-> line.end,
                                                     rest |-> line.rest])
          /\ Remains
          /\ UNCHANGED <<m_stackFrames, m_memoryRegions, m_registerValues, locals>>
     ELSE Fails

(* The number on the line must be the number of lines before it in this    *)
(* section; the frames of an earlier section stay before these.            *)
NumbersFrame(line) == line.number = curFrame

ParseStackFrames(line) ==
  /\ reading = "STACK" /\ line.is # "blank"
  /\ ReadLine(line)
  /\ IF line.is = "frame" /\ line.whole /\ NumbersFrame(line)
     THEN /\ m_stackFrames' = Append(m_stackFrames, [number |-> line.number, sp |-> line.sp,
                                                     ret |-> line.ret])
          /\ curFrame' = curFrame + 1
          /\ Remains
          /\ UNCHANGED <<m_memoryRegions, m_moduleInfos, m_registerValues, region>>
     ELSE Fails

Pushed == Append(m_memoryRegions, [start |-> region.start, end |-> region.cur, data |-> region.data])
ContinuesRegion(line) == ~region.first /\ line.at = region.cur

(* A definition named "...Wrong" is a plausible bug in the definition that *)
(* follows it; no specification uses it.                                   *)
BeginAnewWrong(line) == [first |-> FALSE, start |-> line.at, cur |-> line.at, data |-> region.data]
BeginAnew(line) == [first |-> FALSE, start |-> line.at, cur |-> line.at, data |-> <<>>]

(* ParseMemoryRegions.  A line that goes on where the last one ended is of *)
(* the same region.                                                        *)
ParseMemoryRegions(line) ==
  /\ reading = "MEMORY" /\ line.is # "blank"
  /\ ReadLine(line)
  /\ IF line.is = "memory" /\ line.whole
     THEN LET r == IF ContinuesRegion(line) THEN region ELSE BeginAnew(line)
          IN /\ region' = [r EXCEPT !.cur = @ + Len(line.bytes), !.data = @ \o line.bytes]
             /\ m_memoryRegions' = IF region.first \/ ContinuesRegion(line)
                                   THEN m_memoryRegions ELSE Pushed
             /\ Remains
             /\ UNCHANGED <<m_stackFrames, m_moduleInfos, m_registerValues, curFrame>>
     ELSE Fails

(* The end of each of the four section parsers, at a blank line or at the  *)
(* end of the file: that of the memory pushes its last region, and a       *)
(* section that leaves its list empty fails.                               *)
Collected ==
  IF reading = "MEMORY" /\ region.start # region.cur THEN Pushed ELSE m_memoryRegions
ListOf(section) ==
  CASE section = "MEMORY" -> Collected
    [] section = "STACK" -> m_stackFrames
    [] section = "MODULEINFO" -> m_moduleInfos
    [] section = "REGISTERS" -> m_registerValues

SectionEnds(next) ==
  /\ reading \in Sections
  /\ reading' = IF ListOf(reading) = <<>> THEN "failed" ELSE next
  /\ m_memoryRegions' = Collected
  /\ UNCHANGED <<m_stackFrames, m_moduleInfos, m_registerValues, locals>>

BlankLine == [is |-> "blank"]
EndOfSection == BlankLine \in Lines /\ ReadLine(BlankLine) /\ SectionEnds("between")

EndOfFile ==
  /\ UNCHANGED file
  /\ \/ SectionEnds("parsed")
     \/ reading = "between" /\ reading' = "parsed" /\ UNCHANGED <<lists, locals>>

Next ==
  \/ Initialize
  \/ \E line \in Lines :
       Parse(line) \/ ParseRegisters(line) \/ ParseModuleInformation(line)
         \/ ParseStackFrames(line) \/ ParseMemoryRegions(line)
  \/ EndOfSection \/ EndOfFile

Spec == Init /\ [][Next]_parserVars

-----------------------------------------------------------------------------
(* What the services answer.                                               *)

(* FindTextDumpMemoryRegion: the index of the first region with address,   *)
(* or 0.                                                                   *)
Holds(r, address) == r.start <= address /\ address < r.end
Holding(address) == {i \in DOMAIN m_memoryRegions : Holds(m_memoryRegions[i], address)}
FindTextDumpMemoryRegion(address) == IF Holding(address) = {} THEN 0 ELSE Min(Holding(address))

(* ReadMemory.  What it takes from one region ends at EndAddress less the  *)
(* offset in the region, so in a region that does not begin at 0 it takes  *)
(* bytes beyond the region's data for a request that goes on.              *)
Beyond == "beyond"
Piece(r, cur, size) ==
  [k \in 1 .. size |-> LET at == cur - r.start + k
                       IN IF at <= Len(r.data) THEN r.data[at] ELSE Beyond]
ChunkToRead(r, cur, remaining) == Min({r.end - (cur - r.start), remaining})

RECURSIVE BytesFrom(_, _)
BytesFrom(cur, remaining) ==
  LET i == FindTextDumpMemoryRegion(cur)
  IN IF remaining = 0 \/ i = 0 THEN <<>>
     ELSE LET size == ChunkToRead(m_memoryRegions[i], cur, remaining)
          IN Piece(m_memoryRegions[i], cur, size) \o BytesFrom(cur + size, remaining - size)

ReadMemory(offset, bufferSize) ==
  LET bytes == BytesFrom(offset, bufferSize)
  IN [hr |-> IF bytes = <<>> THEN "E_FAIL" ELSE IF Len(bytes) = bufferSize THEN "S_OK" ELSE "S_FALSE",
      bytes |-> bytes]

(* FindMemoryRegion: the first region with offset, else the nearest above. *)
NextHigher(offset) == {i \in DOMAIN m_memoryRegions : m_memoryRegions[i].start > offset}
Nearest(offset) ==
  CHOOSE i \in NextHigher(offset) :
    \A j \in NextHigher(offset) :
      \/ m_memoryRegions[i].start < m_memoryRegions[j].start
      \/ m_memoryRegions[i].start = m_memoryRegions[j].start /\ i <= j

FindMemoryRegion(offset) ==
  CASE Holding(offset) # {} -> [hr |-> "S_OK", region |-> Min(Holding(offset))]
    [] Holding(offset) = {} /\ NextHigher(offset) # {} -> [hr |-> "S_FALSE", region |-> Nearest(offset)]
    [] OTHER -> [hr |-> "E_BOUNDS", region |-> 0]

(* PartialPhysicalFrame, for the frame at index i (0 the first): it looks  *)
(* for itself by the number that was on its line.                          *)
Named(name) == {k \in DOMAIN m_registerValues : m_registerValues[k].name = name}
GetInstructionPointer(i) ==
  LET number == m_stackFrames[i + 1].number
  IN CASE number = 0 /\ Named("rip") = {} -> [hr |-> "E_NOT_SET", at |-> 0]
       [] number = 0 /\ Named("rip") # {} ->
            [hr |-> "S_OK", at |-> m_registerValues[Min(Named("rip"))].value]
       [] OTHER -> [hr |-> "S_OK", at |-> m_stackFrames[number].ret]
GetStackPointer(i) == m_stackFrames[m_stackFrames[i + 1].number + 1].sp

(* FindModuleAtAddress and FindModule: the first module with the address,  *)
(* and the first that begins there.                                        *)
ModulesWith(address) == {i \in DOMAIN m_moduleInfos : Holds(m_moduleInfos[i], address)}
FindModuleAtAddress(address) == IF ModulesWith(address) = {} THEN 0 ELSE Min(ModulesWith(address))
FindModule(key) ==
  LET found == {i \in DOMAIN m_moduleInfos : m_moduleInfos[i].start = key}
  IN IF found = {} THEN 0 ELSE Min(found)
(* GetModuleIndexKey, for the module with index i: looked for by its base. *)
GetModuleIndexKey(i) == m_moduleInfos[FindModule(m_moduleInfos[i].start)].rest

-----------------------------------------------------------------------------
(* Properties.                                                             *)

Parsed == reading = "parsed"
Addresses == 0 .. MaxAddress
LinesIn(section) == {k \in DOMAIN file : file[k].in = section /\ file[k].line.is # "blank"}

(* The byte the file writes at an address: that of the first line to do so.*)
Writers(address) ==
  {k \in LinesIn("MEMORY") :
     address \in file[k].line.at .. file[k].line.at + Len(file[k].line.bytes) - 1}
ByteOf(k, address) == file[k].line.bytes[address - file[k].line.at + 1]
Unbroken(offset, size) == \A a \in offset .. offset + size - 1 : Writers(a) # {}

(* MemoryServices.cpp lines 47-51 and FileParser.cpp line 506: a read gives*)
(* bytes the file has at their addresses, up to the first address without  *)
(* one, and where two lines write the address it begins at, that of the    *)
(* first; all, some or none of them are S_OK, S_FALSE or a failure.        *)
ReadAsWritten(offset, size) ==
  LET read == ReadMemory(offset, size)
      n == Len(read.bytes)
  IN /\ Unbroken(offset, n)
     /\ \A k \in 1 .. n : \E w \in Writers(offset + k - 1) : read.bytes[k] = ByteOf(w, offset + k - 1)
     /\ n > 0 => read.bytes[1] = ByteOf(Min(Writers(offset)), offset)
     /\ n = size \/ Writers(offset + n) = {}
     /\ read.hr = (IF n = 0 THEN "E_FAIL" ELSE IF n = size THEN "S_OK" ELSE "S_FALSE")
ReadsAnswered ==
  Parsed => \A offset \in Addresses, size \in 0 .. MaxAddress : ReadAsWritten(offset, size)

(* As far as that is so: of all reads that go over the end of no region but*)
(* one that begins at 0, whether more memory follows there or none.        *)
GoesOver(offset, size, r) == r.start > 0 /\ offset < r.end /\ r.end < offset + size
ReadsAsWritten ==
  Parsed => \A offset \in Addresses, size \in 0 .. MaxAddress :
    (\A i \in DOMAIN m_memoryRegions : ~GoesOver(offset, size, m_memoryRegions[i]))
      => ReadAsWritten(offset, size)

(* MemoryServices.h lines 354-362: who asks for the region at 0 and then at*)
(* the end of each region found comes to all memory of the file, and to    *)
(* none that it does not have.                                             *)
RECURSIVE WalkFrom(_)
WalkFrom(offset) ==
  LET found == FindMemoryRegion(offset)
  IN IF found.hr = "E_BOUNDS" THEN {}
     ELSE LET r == m_memoryRegions[found.region]
          IN (r.start .. r.end - 1) \cup WalkFrom(r.end)
WalkReachesMemory ==
  Parsed => WalkFrom(0) = {a \in Addresses : Writers(a) # {}}

MemoryAsWritten == ReadsAsWritten /\ WalkReachesMemory

(* StackServices.cpp lines 93-97: the instruction pointer of a frame is the*)
(* return address on the line before its own, its stack pointer that of its*)
(* own line; a frame is found by its number, so of the second stack section*)
(* of a file this need not hold.  A module that no other overlaps is found *)
(* by each of its addresses, with the key of its own line.                 *)
StackHeaders == {k \in DOMAIN file : file[k].in = "between" /\ file[k].line = [is |-> "header", of |-> "STACK"]}
FrameLine(i) ==
  CHOOSE k \in LinesIn("STACK") : Cardinality({j \in LinesIn("STACK") : j < k}) = i
FramesAsWritten ==
  Parsed /\ Cardinality(StackHeaders) = 1 =>
    \A i \in 0 .. Len(m_stackFrames) - 1 :
      /\ GetStackPointer(i) = file[FrameLine(i)].line.sp
      /\ i > 0 => GetInstructionPointer(i) = [hr |-> "S_OK", at |-> file[FrameLine(i - 1)].line.ret]
Alone(line) ==
  \A k \in LinesIn("MODULEINFO") :
    file[k].line = line \/ file[k].line.end <= line.start \/ line.end <= file[k].line.start
ModulesAsWritten ==
  Parsed => \A k \in LinesIn("MODULEINFO") :
    LET line == file[k].line
    IN Alone(line) => \A address \in line.start .. line.end - 1 :
         LET i == FindModuleAtAddress(address) IN i # 0 /\ GetModuleIndexKey(i) = line.rest

(* FileParser.cpp lines 253-258: the registers are all those written, on   *)
(* whatever lines and in however many sections, in the order they come in; *)
(* StackServices.cpp lines 98-121: the innermost takes the first "rip"     *)
(* of them for its instruction pointer, and fails without one.             *)
RegisterLines == SelectSeq(file, LAMBDA e : e.in = "REGISTERS" /\ e.line.is = "registers")
WrittenRegisters == FlattenSeq([k \in DOMAIN RegisterLines |-> RegisterLines[k].line.values])
RegistersAsWritten ==
  Parsed =>
    LET rip == SelectInSeq(WrittenRegisters, LAMBDA r : r.name = "rip") IN
    /\ m_registerValues = WrittenRegisters
    /\ m_stackFrames # <<>> =>
         GetInstructionPointer(0) =
           IF rip = 0 THEN [hr |-> "E_NOT_SET", at |-> 0]
           ELSE [hr |-> "S_OK", at |-> WrittenRegisters[rip].value]
DumpAsWritten == MemoryAsWritten /\ FramesAsWritten /\ ModulesAsWritten /\ RegistersAsWritten
=============================================================================
