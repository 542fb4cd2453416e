----------------------------- MODULE SymbolParts -----------------------------
(***************************************************************************)
(* The parts of SymBuilder whose modules declare no recursive operator, so *)
(* that theorems can be stated about them: the tree of types and its       *)
(* layout, the fields of one class or enum, the variables of a function,   *)
(* the builder of their live ranges and the manager.  They share no        *)
(* variable; each behaviour is about one of them, and the others stay as   *)
(* they start.                                                             *)
(***************************************************************************)
EXTENDS SymbolFields, FiniteSets

CONSTANTS
  Parts,                                    (* The parts to look at.       *)
  Automatic, BasicSizes, Udts, Offsets, Dims, MaxOperations,
                                                         (* of SymbolTypes *)
  Programs, NumOrdinals, MaximumTraversalCount, MaxSteps, (* of RangeBuilder *)
  Types, RangeSizes, Span, Base, FunctionSize,     (* of FunctionVariables *)
  MaxVariables, MaxRanges, MaxCalls,
  Processes, Modules, MaxEvents, MaxRequests, MaxFaults (* of SymbolManager*)

ASSUME SymbolPartsAssumption ==
  /\ Parts \subseteq {"layout", "fields", "indexes", "scopes", "function", "ranges", "import",
                     "manager"}
  /\ BasicSizes \subseteq Nat \ {0} /\ IsFiniteSet(BasicSizes)
  /\ Offsets \subseteq Nat /\ Automatic \notin Nat
  /\ Dims \subseteq Nat /\ {Udts, MaxOperations} \subseteq Nat
  /\ NumOrdinals \in 0 .. 2 /\ MaximumTraversalCount \in Nat \ {0} /\ MaxSteps \in Nat
  /\ {Span, Base, FunctionSize} \subseteq Nat /\ RangeSizes \subseteq 0 .. Span - 1
  /\ Base + FunctionSize < Span
  /\ {MaxVariables, MaxRanges, MaxCalls} \subseteq Nat
  /\ Processes \subseteq Nat \ {0} /\ IsFiniteSet(Modules)
  /\ {MaxEvents, MaxRequests, MaxFaults} \subseteq Nat

VARIABLES
  part,
  symbols, live, waiting, tasks, failed, operations,
  children, variables, returnType, functionType, seen, missed, reading, calls,
  program, phase, bbInfo, bbTrav, entry, changedRanges, instr, isReached, lastRange, window, at,
  liveRanges, machine, steps,
  container, loaded, loads, manager, provider, tracked, created, crashed, events, requests, faults

typeVars == <<symbols, live, waiting, tasks, failed, operations>>
functionVars == <<children, variables, returnType, functionType, seen, missed, reading, calls>>
rangeVars == <<program, phase, bbInfo, bbTrav, entry, changedRanges, instr, isReached, lastRange,
               window, at, liveRanges, machine, steps>>
managerVars == <<container, loaded, loads, manager, provider, tracked, created, crashed, events,
                 requests, faults>>

Layout == INSTANCE SymbolTypes
Function ==
  INSTANCE FunctionVariables
    WITH operations <- calls, MaxOperations <- MaxCalls, Sizes <- RangeSizes
Builder == INSTANCE RangeBuilder
ASSUME SymbolPartsFunctions == Programs # {} /\ \A f \in Programs : Builder!IsFunction(f)
Manager == INSTANCE SymbolManager WITH calls <- requests, MaxCalls <- MaxRequests

(* A part that is not looked at starts in one way.                         *)
PartsInit ==
  /\ part \in Parts
  /\ FieldsInit /\ Layout!Init /\ Function!Init
  /\ part # "function" => returnType = (CHOOSE t \in Types : TRUE)
  /\ IF part = "ranges" THEN Builder!Init
     ELSE Builder!Start(CHOOSE p \in Programs : TRUE)
  /\ IF part = "manager" THEN Manager!Init ELSE Manager!Start([s \in Manager!Services |-> "none"])

PartsNext ==
  /\ UNCHANGED part
  /\ \/ /\ part = "layout" /\ Layout!Next
        /\ UNCHANGED <<fieldVars, functionVars, rangeVars, managerVars>>
     \/ /\ part = "fields" /\ FieldsNext
        /\ UNCHANGED <<typeVars, functionVars, rangeVars, managerVars>>
     \/ /\ part = "function" /\ Function!Next
        /\ UNCHANGED <<typeVars, fieldVars, rangeVars, managerVars>>
     \/ /\ part = "ranges" /\ Builder!Next
        /\ UNCHANGED <<typeVars, fieldVars, functionVars, managerVars>>
     \/ /\ part = "manager" /\ Manager!Next
        /\ UNCHANGED <<typeVars, fieldVars, functionVars, rangeVars>>

PartsSpec ==
  PartsInit /\ [][PartsNext]_<<part, typeVars, fieldVars, functionVars, rangeVars, managerVars>>

-----------------------------------------------------------------------------
(* The properties, which the modules of the parts state.                   *)

(* SymbolTypes: types are laid out from what they hold and data lies where *)
(* its type says; a child is alive in one parent, and whoever uses a type  *)
(* is notified.  SymbolFields: what the layout places is in its unit and   *)
(* apart from the rest, what is laid out stays, and enumerants count on.   *)
LayoutsFollow ==
  /\ part = "layout" => Layout!LayoutsFollow /\ Layout!TreeOwned
  /\ part = "fields" => FieldsLaidOut

(* FunctionVariables: the debugger is told of changes; live ranges are     *)
(* apart, unless one lies inside another, and in general not; a parameter  *)
(* is moved to where it was sent, and an iteration skips nothing but after *)
(* a deletion.                                                             *)
AnswersCurrent == part = "function" => Function!AnswersCurrent
RangesKept == part = "function" => Function!RangesKept
RangesDisjoint == part = "function" => Function!RangesDisjoint
ListsFollow == Function!MovedBefore /\ Function!IterationWhole

(* RangeBuilder: a parameter is where its live ranges say, if no location  *)
(* depends on the control flow, and in general not; the ranges are those of*)
(* the blocks.                                                             *)
FoundUnlessFlowDependent == part = "ranges" => Builder!FoundUnlessFlowDependent
FoundWhereSaid == part = "ranges" => Builder!FoundWhereSaid
RangesOfBlocks == part = "ranges" => Builder!RangesOfBlocks

(* SymbolManager: the manager's tables are those of the services there are,*)
(* and the debugger finds what a script created for a module, if not for   *)
(* one before it; in general it finds symbols of a module that went.       *)
ManagerFollows == part = "manager" => Manager!ManagerFollows
FoundForItself == part = "manager" => Manager!FoundForItself
=============================================================================
