---------------------------- MODULE SymbolScopes ----------------------------
(***************************************************************************)
(* What is asked of a symbol set of SymBuilder while a script changes it:  *)
(* the symbol at an address, the scope of an address or of a stack frame,  *)
(* and the enumerations, by the debugger and by scripts, of symbols, of the*)
(* globals of a kind and of the children of a function.  An enumeration    *)
(* keeps a position; whatever runs between two of its steps can move what  *)
(* the position counts.  The builder runs on one thread.                   *)
(***************************************************************************)
EXTENDS Integers, FiniteSets, SequencesExt

CONSTANTS
  Definitions,  (* What global symbols a script can create: [kind, name,   *)
                (* qualified, offset, size].                               *)
  SearchKinds, SearchNames,   (* The sets of kinds, and the names and      *)
  QualifiedNames,             (* qualified names, that are searched.       *)
  ModuleBase,   (* Where the module is, and                                *)
  Span,         (* 2^64 in the code: the program counter wraps.            *)
  MaxSymbols, MaxChanges                                  (* Bounds.       *)

VARIABLES
  symbols,   (* By id: m_symbols, null where ~alive.                       *)
  globals,   (* m_globalSymbols.                                           *)
  children,  (* By id: m_children, empty but for functions.                *)
  ranges, publics,   (* m_symbolRanges, m_publicAddresses.                 *)
  scope,     (* A Scope or ScopeFrame that is held: [function, pc,         *)
             (* srelOffset, context], function = 0 for none.               *)
  walk,      (* An enumerator or an iterator, one at a time: over what, its*)
             (* position and what it yielded; removed and moved count what *)
             (* the changes since its beginning did to its list.           *)
  leftBehind,(* A range was not removed with its symbol: that of data, and *)
             (* one that begins where another ends.                        *)
  faulted,   (* A null symbol was used.                                    *)
  changes

vars == <<symbols, globals, children, ranges, publics, scope, walk, leftBehind, faulted, changes>>

Ranges == INSTANCE SymbolRangeList
Publics == INSTANCE PublicList

TypeKinds == {"udt", "enum"}
VariableKinds == {"parameter", "local"}
GlobalKinds == TypeKinds \cup {"data", "function", "public"}
Kinds == GlobalKinds \cup VariableKinds
Addresses == UNION {d.offset .. d.offset + d.size : d \in Definitions}

Alive == {id \in DOMAIN symbols : symbols[id].alive}
AliveOf(kind) == {id \in Alive : symbols[id].kind = kind}
NewId == Len(symbols) + 1
End(s) == s.offset + s.size
RangeEndsAt(offset) == \E i \in DOMAIN ranges : ranges[i].end = offset

NoScope == [function |-> 0, pc |-> 0, srelOffset |-> 0, context |-> 0]
NoWalk == [over |-> "nothing", of |-> 0, kinds |-> {}, name |-> "", qualified |-> FALSE,
           pos |-> 0, yielded |-> <<>>, removed |-> 0, moved |-> 0]

Init ==
  /\ symbols = <<>> /\ globals = <<>> /\ children = <<>> /\ ranges = <<>> /\ publics = <<>>
  /\ scope = NoScope /\ walk = NoWalk
  /\ leftBehind = FALSE /\ faulted = FALSE /\ changes = 0

Changes == ~faulted /\ changes < MaxChanges /\ changes' = changes + 1

-----------------------------------------------------------------------------
(* What a script does to the set.                                          *)

Symbol(definition) == definition @@ [parent |-> 0, alive |-> TRUE]
Variable(kind, f) ==
  [kind |-> kind, name |-> "v", qualified |-> "v", offset |-> 0, size |-> 0,
   parent |-> f, alive |-> TRUE]

(* With the parameters that are given with a function.                     *)
CreateGlobal(definition, parameters) ==
  /\ Changes /\ NewId + parameters <= MaxSymbols
  /\ symbols' = symbols \o <<Symbol(definition)>>
                        \o [i \in 1 .. parameters |-> Variable("parameter", NewId)]
  /\ globals' = Append(globals, NewId)
  /\ children' = children \o <<[i \in 1 .. parameters |-> NewId + i]>>
                          \o [i \in 1 .. parameters |-> <<>>]
  /\ UNCHANGED <<scope, walk, leftBehind, faulted>>

(* Types, which have no address.                                           *)
CreateType(definition) ==
  /\ definition.kind \in TypeKinds /\ CreateGlobal(definition, 0)
  /\ UNCHANGED <<ranges, publics>>

AddRange(definition) ==
  /\ ranges' = Ranges!AddSymbol(ranges, definition.offset, End(definition), NewId)
  /\ UNCHANGED publics
(* Data.CreateGlobal.                                                      *)
CreateData(definition) ==
  definition.kind = "data" /\ CreateGlobal(definition, 0) /\ AddRange(definition)

(* PublicsObject::Create.                                                  *)
CreatePublic(definition) ==
  /\ definition.kind = "public" /\ CreateGlobal(definition, 0)
  /\ publics' = Publics!AddSymbol(publics, definition.offset, NewId)
  /\ UNCHANGED ranges

(* FunctionsObject::Create: the parameters follow one by one, and one whose*)
(* type is not known ends the call: the function and those before it stay. *)
CreateFunction(definition, parameters) ==
  definition.kind = "function" /\ CreateGlobal(definition, parameters) /\ AddRange(definition)

(* ParametersObject::Add and LocalVariablesObject::Add.                    *)
AddVariable(f, kind) ==
  /\ Changes /\ f \in AliveOf("function") /\ NewId <= MaxSymbols
  /\ symbols' = Append(symbols, Variable(kind, f))
  /\ children' = Append([children EXCEPT ![f] = Append(@, NewId)], <<>>)
  /\ UNCHANGED <<globals, ranges, publics, scope, walk, leftBehind, faulted>>

(* The list that an enumeration is over.                                   *)
List ==
  CASE walk.over = "symbols" -> [i \in DOMAIN symbols |-> i]
    [] walk.over = "globals" -> globals
    [] walk.over \in {"scope", "children", "variables"} -> children[walk.of]
    [] walk.over = "nothing" -> <<>>

(* What is taken from the list at or before the position.                  *)
Passed(id) == \E i \in DOMAIN List : List[i] = id /\ i <= walk.pos
NoteRemoval(gone) ==
  walk' = IF walk.over = "symbols" THEN walk
          ELSE [walk EXCEPT !.removed = @ + Cardinality({id \in gone : Passed(id)})]

(* The loop of BaseSymbol::Delete goes through the places of m_children    *)
(* while each deletion moves the rest one place to the front: it deletes   *)
(* every other child, and the last, of which a copy stays behind the end.  *)
Reached(list) == {list[i] : i \in {i \in DOMAIN list : i % 2 = 1 \/ i = Len(list)}}

(* A definition named "...Wrong" is a plausible bug in the definition that *)
(* follows it; no specification uses it.                                   *)
UnlinkedWrong(lists, id) == [lists EXCEPT ![id] = <<>>]
(* A child is taken from its parent's list; the list of the symbol itself  *)
(* is cleared.                                                             *)
Unlinked(lists, id) ==
  [i \in DOMAIN lists |-> IF i = id THEN <<>> ELSE Remove(lists[i], id)]

(* The range of data is removed up to its size, where the end is meant.    *)
Delete(id) ==
  LET s == symbols[id]
      gone == {id} \cup Reached(children[id])
  IN
  /\ Changes /\ id \in Alive
  /\ symbols' = [i \in DOMAIN symbols |-> IF i \in gone THEN [symbols[i] EXCEPT !.alive = FALSE]
                                         ELSE symbols[i]]
  /\ children' = Unlinked(children, id)
  /\ globals' = Remove(globals, id)
  /\ ranges' = CASE s.kind = "function" -> Ranges!RemoveSymbol(ranges, s.offset, End(s), id)
                 [] s.kind = "data" -> Ranges!RemoveSymbol(ranges, s.offset, s.size, id)
                 [] OTHER -> ranges
  /\ publics' = IF s.kind = "public" THEN Publics!RemoveSymbol(publics, s.offset, id) ELSE publics
  /\ leftBehind' = \/ leftBehind
                    \/ s.kind = "data"
                    \/ (s.kind = "function" /\ RangeEndsAt(s.offset))
  /\ NoteRemoval({id} \cup ToSet(children[id]))
  /\ UNCHANGED <<scope, faulted>>

(* MoveChildBefore: the place at which the child arrives.                  *)
MoveVariable(id, newIdx) ==
  LET f == symbols[id].parent
      idx == SelectInSeq(children[f], LAMBDA c : c = id)
  IN
  /\ Changes /\ id \in AliveOf("parameter") /\ idx > 0
  /\ newIdx \in 1 .. Len(children[f]) /\ newIdx # idx
  /\ children' = [children EXCEPT ![f] = InsertAt(RemoveAt(@, idx), newIdx, id)]
  /\ walk' = IF walk.over \in {"scope", "children", "variables"} /\ walk.of = f
             THEN [walk EXCEPT !.moved = @ + 1] ELSE walk
  /\ UNCHANGED <<symbols, globals, ranges, publics, scope, leftBehind, faulted>>

-----------------------------------------------------------------------------
(* Questions.                                                              *)

setVars == <<symbols, globals, children, ranges, publics, leftBehind>>

(* FindSymbolByOffset: the first symbol listed at the offset, and where    *)
(* none is, the first of the nearest public ones.                          *)
Candidates(offset) ==
  LET listed == Ranges!FindSymbols(ranges, offset)
  IN IF listed # <<>> THEN listed ELSE Publics!FindNearestSymbols(publics, offset)
FindSymbolByOffset(offset, exactMatchOnly) ==
  IF Candidates(offset) = <<>> THEN 0
  ELSE LET id == Head(Candidates(offset))
       IN IF exactMatchOnly /\ symbols[id].offset # offset THEN 0 ELSE id
AskByOffset(offset) ==
  /\ ~faulted /\ Candidates(offset) # <<>>
  /\ Head(Candidates(offset)) \notin Alive /\ faulted' = TRUE
  /\ UNCHANGED <<setVars, scope, walk, changes>>

FunctionAtWrong(offset) ==
  LET listed == Ranges!FindSymbols(ranges, offset)
  IN IF listed # <<>> /\ symbols[Head(listed)].kind = "function" THEN Head(listed) ELSE 0
(* FindScopeByOffset: the first function that is listed at the offset.     *)
(* The symbols before it are looked at, whether they are there or not.     *)
FunctionAt(offset) ==
  LET listed == Ranges!FindSymbols(ranges, offset)
      i == SelectInSeq(listed, LAMBDA id : id \notin Alive \/ symbols[id].kind = "function")
  IN IF i = 0 THEN 0 ELSE listed[i]
ScopeOf(f, offset, context) ==
  [function |-> f, pc |-> offset, srelOffset |-> offset - symbols[f].offset, context |-> context]
FindScope(offset, context) ==
  LET f == FunctionAt(offset) IN
  /\ ~faulted /\ f # 0 /\ walk = NoWalk /\ scope = NoScope
  /\ IF f \in Alive
     THEN scope' = ScopeOf(f, offset, context) /\ UNCHANGED faulted
     ELSE faulted' = TRUE /\ UNCHANGED scope
  /\ UNCHANGED <<setVars, walk, changes>>
FindScopeByOffset(offset) == FindScope(offset, 0)

(* FindScopeFrame: the program counter is made relative to the module, and *)
(* the frame keeps a copy of the registers.                                *)
FindScopeFrame(pc) == FindScope((pc + Span - ModuleBase) % Span, pc)

(* An enumeration begins.                                                  *)
Begin(over, of, kinds, name, qualified) ==
  /\ ~faulted /\ walk = NoWalk
  /\ walk' = [NoWalk EXCEPT !.over = over, !.of = of, !.kinds = kinds, !.name = name,
                            !.qualified = qualified]
  /\ scope' = IF over = "scope" THEN scope ELSE NoScope
  /\ UNCHANGED <<setVars, faulted, changes>>
(* EnumerateAllSymbols.                                                    *)
BeginAllSymbols == Begin("symbols", 0, Kinds, "", FALSE)
(* EnumerateChildren of the global scope, which has no arguments and no    *)
(* locals.                                                                 *)
BeginGlobalScope ==
  \E kinds \in SearchKinds :
    \/ \E name \in SearchNames : Begin("symbols", 0, kinds, name, FALSE)
    \/ \E name \in QualifiedNames : Begin("symbols", 0, kinds, name, TRUE)
(* EnumerateArguments, EnumerateLocals and EnumerateChildren of a scope.   *)
BeginScope(kinds, name) == scope.function # 0 /\ Begin("scope", scope.function, kinds, name, FALSE)
BeginArguments == BeginScope({"parameter"}, "")
BeginLocals == BeginScope({"local"}, "")
BeginScopeChildren == \E kinds \in SearchKinds, name \in SearchNames : BeginScope(kinds, name)
(* EnumerateChildren of a function.                                        *)
BeginChildEnumerator ==
  \E f \in AliveOf("function"), kinds \in SearchKinds, name \in SearchNames :
    Begin("children", f, kinds, name, FALSE)
(* GetIterator of types, of data, of functions and of publics.             *)
BeginTypesIterator == Begin("globals", 0, TypeKinds, "", FALSE)
BeginDataIterator == Begin("globals", 0, {"data"}, "", FALSE)
BeginFunctionsIterator == Begin("globals", 0, {"function"}, "", FALSE)
BeginPublicsIterator == Begin("globals", 0, {"public"}, "", FALSE)
(* GetIterator of parameters and of local variables.                       *)
BeginParametersIterator ==
  \E f \in AliveOf("function") : Begin("variables", f, {"parameter"}, "", FALSE)
BeginLocalsIterator ==
  \E f \in AliveOf("function") : Begin("variables", f, {"local"}, "", FALSE)

(* SymbolMatchesSearchCriteria.                                            *)
Matches(id) ==
  /\ id \in Alive /\ symbols[id].kind \in walk.kinds
  /\ \/ walk.name = ""
     \/ walk.name = IF walk.qualified THEN symbols[id].qualified ELSE symbols[id].name

NextPositionsWrong == {i \in DOMAIN List : i > walk.pos + 1 /\ Matches(List[i])}
NextPositions == {i \in DOMAIN List : i > walk.pos /\ Matches(List[i])}
(* The next that matches, if there is one.                                 *)
GetNext(overs) ==
  /\ ~faulted /\ walk.over \in overs
  /\ walk' = IF NextPositions = {}
             THEN [walk EXCEPT !.pos = IF @ > Len(List) THEN @ ELSE Len(List)]
             ELSE LET i == CHOOSE i \in NextPositions : \A j \in NextPositions : i <= j
                  IN [walk EXCEPT !.pos = i, !.yielded = Append(@, List[i])]
  /\ UNCHANGED <<setVars, scope, faulted, changes>>
GetNextGlobal == GetNext({"symbols"})
GetNextOfScope == GetNext({"scope"})
GetNextChild == GetNext({"children"})
Iterate == GetNext({"globals", "variables"})

Reset ==
  /\ ~faulted /\ walk.pos > 0 /\ walk.over \in {"symbols", "scope", "children"}
  /\ walk' = [walk EXCEPT !.pos = 0, !.yielded = <<>>, !.removed = 0, !.moved = 0]
  /\ UNCHANGED <<setVars, scope, faulted, changes>>

Next ==
  \/ \E definition \in Definitions :
       \/ CreateType(definition) \/ CreateData(definition) \/ CreatePublic(definition)
       \/ \E parameters \in 0 .. 2 : CreateFunction(definition, parameters)
  \/ \E f \in AliveOf("function"), kind \in VariableKinds : AddVariable(f, kind)
  \/ \E id \in Alive : Delete(id)
  \/ \E id \in AliveOf("parameter"), newIdx \in 1 .. MaxSymbols : MoveVariable(id, newIdx)
  \/ \E offset \in Addresses : AskByOffset(offset) \/ FindScopeByOffset(offset)
  \/ \E pc \in 0 .. Span - 1 : FindScopeFrame(pc)
  \/ BeginAllSymbols \/ BeginGlobalScope \/ BeginChildEnumerator
  \/ BeginArguments \/ BeginLocals \/ BeginScopeChildren
  \/ BeginTypesIterator \/ BeginDataIterator \/ BeginFunctionsIterator \/ BeginPublicsIterator
  \/ BeginParametersIterator \/ BeginLocalsIterator
  \/ GetNextGlobal \/ GetNextOfScope \/ GetNextChild \/ Iterate \/ Reset

Spec == Init /\ [][Next]_vars

-----------------------------------------------------------------------------
(* Properties.                                                             *)

(* Every variable has its type.                                            *)
TypeOK ==
  /\ \A id \in DOMAIN symbols : symbols[id].kind \in Kinds
  /\ Len(children) = Len(symbols) /\ globals \in Seq(DOMAIN symbols)
  /\ scope.function \in DOMAIN symbols \cup {0} /\ walk.pos \in 0 .. MaxSymbols

(* What the enumerations run over are symbols that are there: a list with  *)
(* one that is gone would end an enumeration with an error ("something has *)
(* gone *SERIOUSLY* wrong if we have a child id that no longer happens to  *)
(* be indexed", SymbolBase.cpp), or be used as null by the iterators.  A   *)
(* child that the deletion of its function left alive is in no list.       *)
ListsAlive ==
  /\ ToSet(globals) = {id \in Alive : symbols[id].parent = 0}
  /\ \A f \in DOMAIN children :
       ToSet(children[f]) = IF f \in Alive THEN {id \in Alive : symbols[id].parent = f} ELSE {}

(* An enumeration yields what matches, in its order and once, and misses no*)
(* more symbols before its position than were taken from the list there,   *)
(* or moved, since it began; nothing is yielded again but after a move.    *)
(* One over all symbols, whose position is an id, misses none.             *)
Missed ==
  {i \in DOMAIN List : i <= walk.pos /\ Matches(List[i]) /\ List[i] \notin ToSet(walk.yielded)}
Enumerated ==
  /\ Cardinality(Missed) <= walk.removed + walk.moved
  /\ Len(walk.yielded) - Cardinality(ToSet(walk.yielded)) <= walk.moved
  /\ walk.over = "symbols" => Missed = {} /\ \A i, j \in DOMAIN walk.yielded :
                                  i < j => walk.yielded[i] < walk.yielded[j]

(* Where no range ends, the scope of an address is that of the function    *)
(* created first among those that are there, if there is any; a symbol is  *)
(* found at an address unless nothing is there and no public symbol is     *)
(* below it.  While no range was left behind.                              *)
Covering(kinds, offset) ==
  {id \in Alive : symbols[id].kind \in kinds /\ symbols[id].offset <= offset /\ offset < End(symbols[id])}
First(ids) == IF ids = {} THEN 0 ELSE CHOOSE id \in ids : \A other \in ids : id <= other
Below(offset) == {id \in AliveOf("public") : symbols[id].offset <= offset}
Nearest(offset) ==
  {id \in Below(offset) : \A other \in Below(offset) : symbols[other].offset <= symbols[id].offset}
SymbolsFound ==
  ~leftBehind =>
    /\ ~faulted
    /\ \A offset \in Addresses :
         ~RangeEndsAt(offset) =>
           LET covering == Covering({"function", "data"}, offset) IN
           /\ FunctionAt(offset) = First(Covering({"function"}, offset))
           /\ FindSymbolByOffset(offset, FALSE)
                = First(IF covering # {} THEN covering ELSE Nearest(offset))

(* A scope that is held is of a function that its address lies in, at the  *)
(* distance from its beginning that live ranges count in, and a frame has  *)
(* the registers it was made with; the variables that an enumeration of it *)
(* yields, which are bound to it, are those of its function.               *)
ScopesHeld ==
  /\ scope.function # 0 /\ ~RangeEndsAt(scope.pc) =>
       /\ scope.srelOffset \in 0 .. symbols[scope.function].size - 1
       /\ scope.context # 0 => (scope.context + Span - ModuleBase) % Span = scope.pc
  /\ walk.over = "scope" =>
       \A i \in DOMAIN walk.yielded : symbols[walk.yielded[i]].parent = walk.of

ScopesFound == TypeOK /\ ListsAlive /\ Enumerated /\ SymbolsFound /\ ScopesHeld
=============================================================================
