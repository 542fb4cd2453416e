----------------------------- MODULE SymbolSet ------------------------------
(***************************************************************************)
(* The symbol set of SymBuilder and its indexes: the symbols by id, the    *)
(* global symbols in order, the map of names, the ranges of functions and  *)
(* global data and the addresses of public symbols.  An operation of the   *)
(* data model's objects is one action: the builder runs on one thread.     *)
(* Types, fields, parameters and constant data are left out; ids count     *)
(* the symbols that are modelled.                                          *)
(***************************************************************************)
EXTENDS Naturals, Sequences, SequencesExt

CONSTANTS
  Names,       (* Qualified names.                                         *)
  MaxOffset,   (* Bound on the offset of a symbol in the module.           *)
  Sizes,       (* The sizes of functions and types.                        *)
  MaxSymbols,  (* Bound on the symbols created.                            *)
  MaxMoves     (* Bound on the changes of offset or type of data.          *)

Ranges == INSTANCE SymbolRangeList
Publics == INSTANCE PublicList

VARIABLES
  symbols,  (* m_symbols.  For data, where m_rangeCache has it registered. *)
  globals,  (* m_globalSymbols.                                            *)
  nameMap,  (* m_symbolNameMap; 0 is what InternalGetSymbolIdByName returns*)
            (* for a name that is not in it.                               *)
  ranges,   (* m_symbolRanges.                                             *)
  publics,  (* m_publicAddresses.                                          *)
  moves     (* Changes of offset or type so far.                           *)

vars == <<symbols, globals, nameMap, ranges, publics, moves>>

Places == 0 .. MaxOffset
Addresses == UNION {0 .. MaxOffset + size : size \in Sizes}
Ids == 1 .. MaxSymbols
Symbols == [kind : {"function", "data", "public", "deleted"},
            name : Names, offset : Places, size : Sizes \cup {0}]

Live(id) == id \in DOMAIN symbols /\ symbols[id].kind # "deleted"
LiveOf(kind) == {id \in DOMAIN symbols : symbols[id].kind = kind}
End(s) == s.offset + s.size

(* Every variable has its type.                                            *)
TypeOK ==
  /\ symbols \in Seq(Symbols) /\ Len(symbols) <= MaxSymbols
  /\ globals \in Seq(Ids)
  /\ nameMap \in [Names -> Ids \cup {0}]
  /\ ranges \in Seq([start : Addresses, end : Addresses, symbols : Seq(Ids)])
  /\ publics \in Seq([addr : Places, symbols : Seq(Ids)])
  /\ moves \in 0 .. MaxMoves

Init ==
  /\ symbols = <<>> /\ globals = <<>>
  /\ nameMap = [n \in Names |-> 0]
  /\ ranges = <<>> /\ publics = <<>>
  /\ moves = 0

-----------------------------------------------------------------------------
(* AddNewSymbol: the symbol gets the next id; a name in the map stays with *)
(* the symbol that has it.                                                 *)
NewId == Len(symbols) + 1
AddName(name, id) ==
  IF nameMap[name] = 0 THEN [nameMap EXCEPT ![name] = id] ELSE nameMap
AddNewSymbol(s) ==
  /\ NewId <= MaxSymbols
  /\ symbols' = Append(symbols, s)
  /\ globals' = Append(globals, NewId)
  /\ nameMap' = AddName(s.name, NewId)

(* DeleteExistingSymbol: whoever has the symbol's name loses it.           *)
EraseName(map, id) == [map EXCEPT ![symbols[id].name] = 0]
WithoutSymbol(table, id) == [table EXCEPT ![id].kind = "deleted"]
DeleteExistingSymbol(id) ==
  /\ symbols' = WithoutSymbol(symbols, id)
  /\ globals' = RemoveFirst(globals, id)
  /\ nameMap' = EraseName(nameMap, id)

(* Functions.Create and Data.CreateGlobal.                                 *)
CreateRanged(s) ==
  /\ s.kind \in {"function", "data"} /\ s.size \in Sizes
  /\ AddNewSymbol(s)
  /\ ranges' = Ranges!AddSymbol(ranges, s.offset, End(s), NewId)
  /\ UNCHANGED <<publics, moves>>

(* Publics.Create.                                                         *)
CreatePublic(s) ==
  /\ s.kind = "public" /\ s.size = 0
  /\ AddNewSymbol(s)
  /\ publics' = Publics!AddSymbol(publics, s.offset, NewId)
  /\ UNCHANGED <<ranges, moves>>

DeleteFunction(id) ==
  /\ id \in LiveOf("function")
  /\ ranges' = Ranges!RemoveSymbol(ranges, symbols[id].offset, End(symbols[id]), id)
  /\ DeleteExistingSymbol(id)
  /\ UNCHANGED <<publics, moves>>

(* BaseDataSymbol::Delete passes the size where the end is meant.          *)
DeleteData(id) ==
  /\ id \in LiveOf("data")
  /\ ranges' = Ranges!RemoveSymbol(ranges, symbols[id].offset, symbols[id].size, id)
  /\ DeleteExistingSymbol(id)
  /\ UNCHANGED <<publics, moves>>

DeletePublic(id) ==
  /\ id \in LiveOf("public")
  /\ publics' = Publics!RemoveSymbol(publics, symbols[id].offset, id)
  /\ DeleteExistingSymbol(id)
  /\ UNCHANGED <<ranges, moves>>

(* PublicObject::PromoteToFunction: a function is created with the name and*)
(* the offset of the public symbol, which is then deleted.                 *)
PromoteToFunction(id, size) ==
  LET s == [symbols[id] EXCEPT !.kind = "function", !.size = size]
  IN /\ id \in LiveOf("public") /\ size > 0
     /\ NewId <= MaxSymbols
     /\ symbols' = WithoutSymbol(Append(symbols, s), id)
     /\ globals' = RemoveFirst(Append(globals, NewId), id)
     /\ nameMap' = EraseName(AddName(s.name, NewId), id)
     /\ ranges' = Ranges!AddSymbol(ranges, s.offset, End(s), NewId)
     /\ publics' = Publics!RemoveSymbol(publics, s.offset, id)
     /\ UNCHANGED moves

(* A definition named "...Wrong" is a plausible bug in the definition that *)
(* follows it; no specification uses it.                                   *)
ReregisteredWrong(id, s) == Ranges!AddSymbol(ranges, s.offset, End(s), id)

(* A new offset of global data, or a new type or a new size of its type:   *)
(* NotifyDependentChange registers its range anew.                         *)
Reregistered(id, s) ==
  Ranges!AddSymbol(Ranges!RemoveSymbol(ranges, symbols[id].offset, End(symbols[id]), id),
                   s.offset, End(s), id)
ChangeData(id, offset, size) ==
  LET s == [symbols[id] EXCEPT !.offset = offset, !.size = size]
  IN /\ id \in LiveOf("data") /\ s # symbols[id]
     /\ moves < MaxMoves /\ moves' = moves + 1
     /\ symbols' = [symbols EXCEPT ![id] = s]
     /\ ranges' = Reregistered(id, s)
     /\ UNCHANGED <<globals, nameMap, publics>>

Next ==
  \/ \E s \in Symbols : CreateRanged(s) \/ CreatePublic(s)
  \/ \E id \in DOMAIN symbols :
       \/ DeleteFunction(id) \/ DeleteData(id) \/ DeletePublic(id)
       \/ \E size \in Sizes :
            \/ PromoteToFunction(id, size)
            \/ \E offset \in Places : ChangeData(id, offset, size)

Spec == Init /\ [][Next]_vars

-----------------------------------------------------------------------------
(* The ids listed at an address, which lies in one range at most           *)
(* (RangesSorted), and how often an id is.                                 *)
Covering(address) ==
  {i \in DOMAIN ranges : ranges[i].start <= address /\ address < ranges[i].end}
Listed(address) ==
  IF Covering(address) = {} THEN <<>> ELSE ranges[CHOOSE i \in Covering(address) : TRUE].symbols
Times(id, list) == Len(SelectSeq(list, LAMBDA s : s = id))

HasRange(id) == id \in DOMAIN symbols /\ symbols[id].kind \in {"function", "data"}
Overlaps(id, address) ==
  /\ HasRange(id)
  /\ symbols[id].offset <= address /\ address < End(symbols[id])

ARangeEndsAt(address) == \E i \in DOMAIN ranges : ranges[i].end = address

(* The ranges are sorted and do not overlap, as the binary searches of     *)
(* SymbolRangeList need: every split, insertion and move keeps them so.    *)
RangesSorted ==
  /\ \A i \in DOMAIN ranges : ranges[i].start <= ranges[i].end
  /\ \A i, j \in DOMAIN ranges : i < j => ranges[i].end <= ranges[j].start

(* Where no range ends, FindSymbols returns what is listed at the address, *)
(* and every function and datum that overlaps it is among that.            *)
OverlappingFound ==
  \A address \in Addresses :
    ~ARangeEndsAt(address) =>
      LET found == Ranges!FindSymbols(ranges, address)
      IN /\ found = Listed(address)
         /\ \A id \in DOMAIN symbols :
              Overlaps(id, address) => id \in ToSet(found)

(* An operation changes the listings of the symbol it is about by that     *)
(* symbol's old and new range, and no listing of any other, however the    *)
(* ranges are split; unless it deletes data, or removes a range that begins*)
(* where another ends.                                                     *)
Removed(id) ==
  /\ HasRange(id)
  /\ symbols'[id] # symbols[id]
RemovedWell(id) ==
  /\ ~(symbols[id].kind = "data" /\ symbols'[id].kind = "deleted")
  /\ ~ARangeEndsAt(symbols[id].offset)
OneIf(b) == IF b THEN 1 ELSE 0
ListingsFollow ==
  [][LET changed == {id \in DOMAIN symbols' : id \notin DOMAIN symbols \/ symbols'[id] # symbols[id]}
         others(list) == SelectSeq(list, LAMBDA s : s \notin changed)
     IN \A address \in Addresses :
          /\ others(Listed(address)') = others(Listed(address))
          /\ \A id \in changed :
               (Removed(id) => RemovedWell(id)) =>
                 Times(id, Listed(address))' + OneIf(Overlaps(id, address))
                   = Times(id, Listed(address)) + OneIf(Overlaps(id, address)')]_vars

(* The nearest public symbols of an address are those of the greatest      *)
(* offset up to it that have one, in the order of their creation.          *)
NearestPublic ==
  \A address \in Addresses :
    LET below == {id \in LiveOf("public") : symbols[id].offset <= address}
        nearest == {id \in below :
                      \A other \in below : symbols[other].offset <= symbols[id].offset}
    IN Publics!FindNearestSymbols(publics, address) = SetToSortSeq(nearest, <)

(* The indexes name live symbols only: the list of globals has each once,  *)
(* and a name that is found belongs to a live symbol of that name.         *)
IndexesLive ==
  /\ globals = SetToSortSeq({id \in DOMAIN symbols : Live(id)}, <)
  /\ \A n \in Names : nameMap[n] # 0 =>
       Live(nameMap[n]) /\ symbols[nameMap[n]].name = n

(* The ranges can be searched, and a search finds all there is.            *)
RangesFound == TypeOK /\ RangesSorted /\ OverlappingFound

(* So do the map of names and the list of publics.                         *)
NamesAndPublicsFound == IndexesLive /\ NearestPublic
=============================================================================
