---------------------------- MODULE SymbolBuilder ----------------------------
(***************************************************************************)
(* SymBuilder, for model checking: the parts of SymbolParts, and those     *)
(* whose modules use recursive operators, the indexes of a symbol set, what*)
(* is asked of one and the importer.  Each behaviour is about one part.    *)
(***************************************************************************)
EXTENDS SymbolParts, SomeFunctions, SomeSymbols

CONSTANTS
  Names, MaxOffset, Sizes, MaxSymbols, MaxMoves,           (* of SymbolSet *)
  SearchNames, QualifiedNames, ModuleBase, MaxScopeSymbols, MaxChanges,
                                                        (* of SymbolScopes *)
  MaxQueries, MaxEdits                                  (* of SymbolImport *)

ASSUME SymbolBuilderAssumption ==
  /\ MaxOffset \in Nat /\ Sizes \subseteq Nat
  /\ {MaxSymbols, MaxMoves, MaxQueries, MaxEdits} \subseteq Nat
  /\ {MaxScopeSymbols, MaxChanges} \subseteq Nat /\ ModuleBase \in 0 .. Span - 1

VARIABLES
  setSymbols, globals, nameMap, ranges, publics, moves,
  scopeSymbols, scopeGlobals, scopeChildren, scopeRanges, scopePublics,
  scope, walk, leftBehind, faulted, changes,
  source, set, nameQueries, addressQueries, deleted, queries, edits

partsVars == <<typeVars, fieldVars, functionVars, rangeVars, managerVars>>
setVars == <<setSymbols, globals, nameMap, ranges, publics, moves>>
scopeVars == <<scopeSymbols, scopeGlobals, scopeChildren, scopeRanges, scopePublics,
               scope, walk, leftBehind, faulted, changes>>
importVars == <<source, set, nameQueries, addressQueries, deleted, queries, edits>>

Set == INSTANCE SymbolSet WITH symbols <- setSymbols
Scopes ==
  INSTANCE SymbolScopes
    WITH Definitions <- SomeDefinitions, SearchKinds <- SomeSearchKinds,
         MaxSymbols <- MaxScopeSymbols, symbols <- scopeSymbols, globals <- scopeGlobals,
         children <- scopeChildren, ranges <- scopeRanges, publics <- scopePublics
Import == INSTANCE SymbolImport WITH Sources <- SomeSources

(* A part that is not looked at starts in one way.                         *)
BuilderInit ==
  /\ PartsInit /\ Set!Init /\ Scopes!Init
  /\ IF part = "import" THEN Import!Init ELSE Import!Start(<<>>, <<>>)

BuilderNext ==
  \/ PartsNext /\ UNCHANGED <<setVars, scopeVars, importVars>>
  \/ part = "indexes" /\ Set!Next /\ UNCHANGED <<part, partsVars, scopeVars, importVars>>
  \/ part = "scopes" /\ Scopes!Next /\ UNCHANGED <<part, partsVars, setVars, importVars>>
  \/ part = "import" /\ Import!Next /\ UNCHANGED <<part, partsVars, setVars, scopeVars>>

BuilderSpec == BuilderInit /\ [][BuilderNext]_<<part, partsVars, setVars, scopeVars, importVars>>

-----------------------------------------------------------------------------
(* The properties, which the modules of the parts state.                   *)

(* SymbolSet: the ranges can be searched and a search finds all there is;  *)
(* so do the map of names and the list of publics; an operation changes the*)
(* listings of its own symbol only.  SymbolScopes: the lists hold what is  *)
(* there, an enumeration misses and repeats no more than changes under it  *)
(* explain, and the symbol and the scope of an address are the right ones. *)
IndexesFound ==
  /\ part = "indexes" => Set!RangesFound /\ Set!NamesAndPublicsFound
  /\ part = "scopes" => Scopes!ScopesFound
ListingsFollow == Set!ListingsFollow

(* SymbolImport: a symbol of the source becomes one of the set, the same   *)
(* as it, and a query by name brings all of its name and kind.             *)
Imported ==
  part = "import" => Import!ImportedOnce /\ Import!ImportedWhole /\ Import!Answered
=============================================================================
