----------------------------- MODULE Extensions -----------------------------
(***************************************************************************)
(* The extensions of the debugger that know the target from a file: the    *)
(* parser of text dumps ("parse"), the services of a dump ("target"), the  *)
(* script that follows the data flow ("flow") and the one that reads types *)
(* from headers ("types").  They share no variable, so each behaviour is   *)
(* about one of them and the others stay as they start.                    *)
(***************************************************************************)
EXTENDS Naturals, SomeDumps, SomeFlows, SomeHeaders

CONSTANTS
  MaxLines, MaxAddress,             (* of TextDumpParser                   *)
  Enumerators, MaxFaults, MaxChanges,              (* of TextDumpServices  *)
  Generators, MaxBegun,                                    (* of CodeFlow  *)
  PointerSize, Symbols, InstanceAddresses, MaxCalls    (* of HeaderReader  *)

ASSUME ExtensionsAssumption ==
  /\ {MaxLines, MaxAddress, MaxFaults, MaxChanges, MaxBegun, MaxCalls} \subseteq Nat
  /\ PointerSize \in Nat \ {0} /\ InstanceAddresses \subseteq Nat

VARIABLES
  part,
  reading, file, m_stackFrames, m_memoryRegions, m_moduleInfos, m_registerValues, curFrame,
  region,
  g, dump, services, session, vmStack, listeners, m_firstEnumerationComplete, m_pos,
  m_enumerated, given, arch, m_spMachineArch, m_registerMappings, context, ended, brokenOff,
  faults, changes,
  func, exploredBlocks, generators, begun,
  types, redefined, instance, headers, aliases, tables, uniqueId, call, calls

parserVars == <<reading, file, m_stackFrames, m_memoryRegions, m_moduleInfos,
                m_registerValues, curFrame, region>>
servicesVars == <<g, dump, services, session, vmStack, listeners, m_firstEnumerationComplete,
                  m_pos, m_enumerated, given, arch, m_spMachineArch, m_registerMappings,
                  context, ended, brokenOff, faults, changes>>
flowVars == <<func, exploredBlocks, generators, begun>>
readerVars == <<types, redefined, instance, headers, aliases, tables, uniqueId, call, calls>>

NativeSizes == [char |-> 1, short |-> 2, int |-> 4, U |-> 4]
NativeFields == [n \in {"U"} |-> <<"short", "short">>]

Parser == INSTANCE TextDumpParser WITH Lines <- SomeLines
Services == INSTANCE TextDumpServices
              WITH Dumps <- SomeDumps, Architectures <- SomeArchitectures
Flow == INSTANCE CodeFlow WITH Functions <- SomeFlows
Types == INSTANCE HeaderReader
           WITH file <- headers, Files <- SomeFiles, StartingMacros <- SomeMacroSets,
                Addresses <- InstanceAddresses

(* A part that is not looked at starts in one way.                         *)
Init ==
  /\ part \in {"parse", "target", "flow", "types"}
  /\ part # "flow" => func = (CHOOSE f \in SomeFlows : TRUE)
  /\ part # "types" => headers = (CHOOSE f \in SomeFiles : TRUE)
  /\ Parser!Init /\ Services!Init /\ Flow!Init /\ Types!Init

Next ==
  /\ UNCHANGED part
  /\ \/ part = "parse" /\ Parser!Next /\ UNCHANGED <<servicesVars, flowVars, readerVars>>
     \/ part = "target" /\ Services!Next /\ UNCHANGED <<parserVars, flowVars, readerVars>>
     \/ part = "flow" /\ Flow!Next /\ UNCHANGED <<parserVars, servicesVars, readerVars>>
     \/ part = "types" /\ Types!Next /\ UNCHANGED <<parserVars, servicesVars, flowVars>>

Spec == Init /\ [][Next]_<<part, parserVars, servicesVars, flowVars, readerVars>>

-----------------------------------------------------------------------------
(* The properties, which the modules of the parts state.                   *)

(* TextDumpParser: a dump that was parsed says what its lines say, memory, *)
(* modules, frames and registers, and reads of it return that memory, if   *)
(* they go over the end of no region above 0, and in general not.          *)
DumpAsWritten == part = "parse" => Parser!DumpAsWritten
ReadsAnswered == part = "parse" => Parser!ReadsAnswered

(* TextDumpServices: the images are mapped once, after the modules have    *)
(* been enumerated; a context is that of the architecture there is.        *)
TargetAsDumped == part = "target" => Services!TargetAsDumped

(* CodeFlow: what a search that ran alone has found influences the         *)
(* instruction it began with, and all that does so is found.               *)
FlowTraced == part = "flow" => Flow!FlowTraced

(* HeaderReader: types and their dimensions are those the header says in C;*)
(* aliases lead in a circle only by names of structures.                   *)
HeadersAsWritten == part = "types" => Types!HeadersAsWritten /\ Types!AliasesEnd

(* SyntheticTypes: offsets, sizes and alignments are those of C.           *)
LayoutAsC == part = "types" => Types!LayoutAsC
=============================================================================
