----------------------------- MODULE SymbolImport -----------------------------
(***************************************************************************)
(* SymbolImporter_DbgHelp: a symbol set that answers a query by importing, *)
(* from the symbols DbgHelp has, what the query names and everything that  *)
(* refers to.  Each of the source's symbols has an index, and              *)
(* m_importedIndexMap says as which symbol of the set it was imported.     *)
(* Types may refer to each other in a circle.                              *)
(*                                                                         *)
(* A query is one step: the set is used by one thread.  Names are          *)
(* sequences, that of a pointer ends with "*", that of an array with "[]". *)
(* Sizes, offsets of fields and the layout are left out (SymbolTypes), and *)
(* so is where a symbol lies (SymbolSet).                                  *)
(***************************************************************************)
EXTENDS Naturals, FiniteSets, SequencesExt

CONSTANTS
  Sources,      (* Sequences of [tag, name, type, children, at]: the       *)
                (* symbols of a source by index.  type is an index or 0.   *)
  MaxQueries,   (* Bounds on the queries                                   *)
  MaxEdits      (* and on what a script creates and deletes.               *)

VARIABLES
  source,
  set,          (* [symbols, names, indexMap]: m_symbols,                  *)
                (* m_symbolNameMap and m_importedIndexMap.                 *)
  nameQueries,  (* m_nameQueries, each with the kind it was first made of. *)
  addressQueries,
  deleted,      (* A script has deleted a symbol.                          *)
  queries, edits

vars == <<source, set, nameQueries, addressQueries, deleted, queries, edits>>

Indices == DOMAIN source
Tag(i) == source[i].tag

-----------------------------------------------------------------------------
(* The symbol set.                                                         *)

TypeKinds == {"base", "udt", "typedef", "pointer", "array", "enum", "functionType"}
Symbol(from, kind, name, parent, type) ==
  [from |-> from, kind |-> kind, name |-> name, parent |-> parent, type |-> type,
   parts |-> <<>>, alive |-> TRUE]

IsType(s, id) ==
  id \in DOMAIN s.symbols /\ s.symbols[id].alive /\ s.symbols[id].kind \in TypeKinds

(* What a call returns: an HRESULT, an id and the set it leaves.           *)
Succeeded(s, hr, id) == [set |-> s, hr |-> hr, id |-> id]
Failure(s, hr) == [set |-> s, hr |-> hr, id |-> 0]
Failed(result) == result.hr \notin {"S_OK", "S_FALSE"}

(* MakeAndInitialize: a symbol of a type that is none is refused; a child  *)
(* is among those of its parent, anything else has its name in the map,    *)
(* where the first of a name stays.                                        *)
Adopted(symbols, parent, id) ==
  IF parent = 0 THEN symbols ELSE [symbols EXCEPT ![parent].parts = Append(@, id)]
Named(names, symbol, id) ==
  IF symbol.parent # 0 \/ symbol.name \in DOMAIN names \cup {<<>>} THEN names
  ELSE (symbol.name :> id) @@ names
Create(s, symbol) ==
  LET id == Len(s.symbols) + 1 IN
  IF symbol.type # 0 /\ ~IsType(s, symbol.type) THEN Failure(s, "E_INVALIDARG")
  ELSE Succeeded([s EXCEPT !.symbols = Append(Adopted(@, symbol.parent, id), symbol),
                           !.names = Named(@, symbol, id)], "S_OK", id)

(* FindTypeByName without anything created.                                *)
TypesNamed(s, name) == {id \in {s.names[n] : n \in DOMAIN s.names \cap {name}} : IsType(s, id)}
TheId(ids) == CHOOSE id \in ids : TRUE

Suffixed(s, id, suffix) ==
  IF s.symbols[id].name = <<>> THEN <<>> ELSE s.symbols[id].name \o <<suffix>>

-----------------------------------------------------------------------------
(* The import of one symbol.                                               *)

RECURSIVE ImportSymbol(_, _, _)

Mapped(s, i, id) == [s EXCEPT !.indexMap = (i :> id) @@ @]

(* ImportBaseType: a type the set knows by its name is taken.              *)
ImportBaseType(s, i) ==
  LET known == TypesNamed(s, source[i].name) IN
  IF known # {} THEN Succeeded(s, "S_FALSE", TheId(known))
  ELSE Create(s, Symbol(i, "base", source[i].name, 0, 0))

(* ImportBaseClass, ImportMemberData, ImportGlobalData, ImportTypedef: of  *)
(* the type named, once that is imported.                                  *)
ImportOfType(s, i, kind, parent) ==
  LET of == ImportSymbol(s, source[i].type, 0) IN
  IF Failed(of) THEN of ELSE Create(of.set, Symbol(i, kind, source[i].name, parent, of.id))

(* ImportDataSymbol: constants are imported as those of an enum only, and  *)
(* other kinds of data, such as static members, not at all.                *)
ImportConstantData(s, i, parent) ==
  IF parent = 0 \/ s.symbols[parent].kind # "enum" THEN Failure(s, "E_NOTIMPL")
  ELSE Create(s, Symbol(i, "constant", source[i].name, parent, 0))

(* The children of a class or an enum, of the tags of each pass in turn.   *)
(* One that cannot be read ends the import, and so does one that fails     *)
(* with anything but what is tolerated.                                    *)
DataTags == {"member", "constant", "static"}
ImportChildren(s, i, parent, passes, tolerated) ==
  LET order == FlattenSeq([p \in DOMAIN passes |->
                 SelectSeq(source[i].children,
                           LAMBDA c : Tag(c) \in passes[p] \cup {"unreadable"})])
      Child(done, child) ==
        IF Tag(child) = "unreadable" THEN Failure(done.set, "E_FAIL")
        ELSE LET result == ImportSymbol(done.set, child, parent) IN
             IF Failed(result) /\ result.hr \notin tolerated THEN result
             ELSE [done EXCEPT !.set = result.set]
      Done[k \in 0 .. Len(order)] ==
        IF k = 0 THEN Succeeded(s, "S_OK", parent)
        ELSE IF Failed(Done[k - 1]) THEN Done[k - 1] ELSE Child(Done[k - 1], order[k])
  IN Done[Len(order)]

ImportEnum(s, i) ==
  LET made == ImportOfType(s, i, "enum", 0) IN
  IF Failed(made) THEN made ELSE ImportChildren(made.set, i, made.id, <<DataTags>>, {})

(* ImportUDT: a class is in the index map before its children, which may   *)
(* lead back to it.                                                        *)
ImportUDT(s, i) ==
  LET made == Create(s, Symbol(i, "udt", source[i].name, 0, 0)) IN
  ImportChildren(Mapped(made.set, i, made.id), i, made.id,
                 <<{"baseClass"}, DataTags>>, {"E_NOTIMPL"})

(* ImportFunctionType: in the index map first, as a class is; its result   *)
(* and then its parameters.                                                *)
WithReturnType(id, result) ==
  IF Failed(result) THEN result.set ELSE [result.set EXCEPT !.symbols[id].type = result.id]
WithParameters(i, id, result) ==
  LET arguments == SelectSeq(source[i].children, LAMBDA c : Tag(c) = "argument")
      Argument(done, of) == [done EXCEPT !.set = of.set, !.hr = of.hr, !.types = Append(@, of.id)]
      After(done, k) ==
        IF Failed(done) THEN done
        ELSE Argument(done, ImportSymbol(done.set, source[arguments[k]].type, 0))
      Done[k \in 0 .. Len(arguments)] ==
        IF k = 0 THEN [set |-> WithReturnType(id, result), hr |-> result.hr, types |-> <<>>]
        ELSE After(Done[k - 1], k)
  IN Done[Len(arguments)]
FunctionType(id, done) ==
  IF Failed(done) THEN Failure(done.set, done.hr)
  ELSE Succeeded([done.set EXCEPT !.symbols[id].parts = done.types], "S_OK", id)
ImportFunctionType(s, i) ==
  LET made == Create(s, Symbol(i, "functionType", <<>>, 0, 0))
      result == ImportSymbol(Mapped(made.set, i, made.id), source[i].type, 0)
  IN FunctionType(made.id, WithParameters(i, made.id, result))

(* ImportFunction: one without a result that can be read returns void.     *)
ImportFunction(s, i, parent) ==
  LET returns == IF source[i].type = 0 THEN 0 ELSE source[source[i].type].type
      void == TypesNamed(s, <<"void">>)
      result == IF returns # 0 THEN ImportSymbol(s, returns, 0)
                ELSE IF void = {} THEN Failure(s, "E_INVALIDARG")
                ELSE Succeeded(s, "S_OK", TheId(void))
  IN IF Failed(result) THEN result
     ELSE Create(result.set, Symbol(i, "function", source[i].name, parent, result.id))

(* A definition named "...Wrong" is a plausible bug in the definition that *)
(* follows it; no specification uses it.                                   *)
ImportPointerWrong(s, i) ==
  LET to == ImportSymbol(s, source[i].type, 0) IN
  IF Failed(to) THEN to
  ELSE Create(to.set, Symbol(i, "pointer", Suffixed(to.set, to.id, "*"), 0, to.id))

(* ImportPointer: what it points to may have led back to it and imported   *)
(* it.                                                                     *)
ImportPointer(s, i) ==
  LET to == ImportSymbol(s, source[i].type, 0) IN
  IF Failed(to) THEN to
  ELSE IF i \notin DOMAIN to.set.indexMap
  THEN IF IsType(to.set, to.id)
       THEN Create(to.set, Symbol(i, "pointer", Suffixed(to.set, to.id, "*"), 0, to.id))
       ELSE Failure(to.set, "E_INVALIDARG")
  ELSE IF to.set.symbols[to.set.indexMap[i]].kind # "pointer" THEN Failure(to.set, "E_UNEXPECTED")
  ELSE Succeeded(to.set, "S_FALSE", to.set.indexMap[i])

(* ImportArray looks for no such thing.                                    *)
ImportArray(s, i) ==
  LET of == ImportSymbol(s, source[i].type, 0) IN
  IF Failed(of) THEN of
  ELSE IF IsType(of.set, of.id)
  THEN Create(of.set, Symbol(i, "array", Suffixed(of.set, of.id, "[]"), 0, of.id))
  ELSE Failure(of.set, "E_INVALIDARG")

(* ImportTypeSymbol: a class or typedef whose name the set has for a type  *)
(* is that type, unless it is an unnamed one.                              *)
ImportTypeSymbol(s, i) ==
  LET known == TypesNamed(s, source[i].name) IN
  CASE Tag(i) \in {"udt", "typedef"} /\ known # {} -> Succeeded(s, "S_FALSE", TheId(known))
    [] Tag(i) = "udt" /\ known = {} -> ImportUDT(s, i)
    [] Tag(i) = "typedef" /\ known = {} -> ImportOfType(s, i, "typedef", 0)
    [] Tag(i) = "base" -> ImportBaseType(s, i)
    [] Tag(i) = "pointer" -> ImportPointer(s, i)
    [] Tag(i) = "array" -> ImportArray(s, i)
    [] Tag(i) = "enum" -> ImportEnum(s, i)
    [] Tag(i) = "functionType" -> ImportFunctionType(s, i)

(* Data, base classes and publics give their id to the caller only; what   *)
(* the map gets for them is a variable nobody has written.  Nothing looks  *)
(* that id up, so that any value does.                                     *)
Unwritten == 0
WithoutId == {"member", "constant", "static", "data", "baseClass", "public"}

Handled(s, i, parent) ==
  CASE Tag(i) \in TypeKinds -> ImportTypeSymbol(s, i)
    [] Tag(i) = "function" -> ImportFunction(s, i, parent)
    [] Tag(i) = "member" ->
         IF parent = 0 THEN Failure(s, "E_UNEXPECTED") ELSE ImportOfType(s, i, "member", parent)
    [] Tag(i) = "data" -> ImportOfType(s, i, "data", parent)
    [] Tag(i) = "baseClass" ->
         IF parent = 0 THEN Failure(s, "E_UNEXPECTED") ELSE ImportOfType(s, i, "baseClass", parent)
    [] Tag(i) = "constant" -> ImportConstantData(s, i, parent)
    [] Tag(i) = "public" ->
         IF parent # 0 THEN Failure(s, "E_UNEXPECTED")
         ELSE Create(s, Symbol(i, "public", source[i].name, 0, 0))
    [] Tag(i) = "unreadable" -> Failure(s, "E_FAIL")
    [] OTHER -> Failure(s, "E_NOTIMPL")

(* ImportSymbol: what is in the index map is not imported again; one that  *)
(* came to be in it meanwhile as something else is an error.               *)
Registered(i, result) ==
  LET id == IF Tag(i) \in WithoutId THEN Unwritten ELSE result.id IN
  IF Failed(result) THEN result
  ELSE IF i \notin DOMAIN result.set.indexMap
  THEN [result EXCEPT !.set = Mapped(@, i, id), !.id = id]
  ELSE IF result.set.indexMap[i] # id THEN Failure(result.set, "E_UNEXPECTED")
  ELSE result
ImportSymbol(s, i, parent) ==
  IF i \in DOMAIN s.indexMap THEN Succeeded(s, "S_FALSE", s.indexMap[i])
  ELSE Registered(i, Handled(s, i, parent))

-----------------------------------------------------------------------------
(* Queries.                                                                *)

(* TagMatchesSearchCriteria.  Enums match nothing.                         *)
TagMatches(tag, kind) ==
  CASE tag = "function" -> kind \in {"symbol", "function"}
    [] tag \in {"data", "member", "constant", "static"} -> kind \in {"symbol", "data"}
    [] tag = "public" -> kind \in {"symbol", "public"}
    [] tag \in TypeKinds \ {"enum"} -> kind \in {"symbol", "type"}
    [] OTHER -> FALSE

(* LegacySymbolEnumerate; what DbgHelp enumerates by name are functions,   *)
(* data and publics, or classes, typedefs and enums.                       *)
Enumerated(name, tags, kind) ==
  SelectSeq([i \in Indices |-> i],
            LAMBDA i : source[i].name = name /\ Tag(i) \in tags /\ TagMatches(Tag(i), kind))

(* ImportForNameQuery, of a set and the queries made: one by name is made  *)
(* once, whatever kind it asks for.                                        *)
ImportForNameQuery(state, kind, name) ==
  LET others == IF kind = "type" THEN <<>>
                ELSE Enumerated(name, {"function", "data", "public"}, kind)
      types == IF kind \notin {"type", "symbol"} THEN <<>>
               ELSE Enumerated(name, {"udt", "typedef", "enum"}, kind)
      order == others \o types
      Done[k \in 0 .. Len(order)] ==
        IF k = 0 THEN state.set ELSE ImportSymbol(Done[k - 1], order[k], 0).set
  IN IF name \in DOMAIN state.made THEN state
     ELSE [set |-> Done[Len(order)], made |-> (name :> kind) @@ state.made]

(* FindTypeByName: pointers to what can be found, and arrays of it, are    *)
(* created; not pointers to arrays or functions.                           *)
FindTypeByName(state, name) ==
  LET Prefix(k) == SubSeq(name, 1, k)
      Asked[k \in 1 .. Len(name)] ==       (* asked for the name, then for what it is of *)
        IF k = Len(name) THEN ImportForNameQuery(state, "type", name)
        ELSE IF Prefix(k + 1) \in DOMAIN Asked[k + 1].set.names THEN Asked[k + 1]
        ELSE ImportForNameQuery(Asked[k + 1], "type", Prefix(k))
      first == Max({1} \cup {k \in 2 .. Len(name) : Prefix(k) \in DOMAIN Asked[k].set.names})
      known == TypesNamed(Asked[first].set, Prefix(first))
      Of(kind, to, k) == Create(to.set, Symbol(0, kind, Prefix(k), 0, to.id))
      Found[k \in first .. Len(name)] ==
        IF k = first
        THEN Succeeded(Asked[k].set, "S_OK", IF known = {} THEN 0 ELSE TheId(known))
        ELSE LET to == Found[k - 1] IN
             IF to.id = 0 THEN to
             ELSE IF name[k] # "*" THEN Of("array", to, k)
             ELSE IF to.set.symbols[to.id].kind \notin {"array", "functionType"}
             THEN Of("pointer", to, k)
             ELSE [to EXCEPT !.id = 0]
  IN [set |-> Found[Len(name)].set, made |-> Asked[first].made]

Queries == queries < MaxQueries /\ queries' = queries + 1
Current == [set |-> set, made |-> nameQueries]

Leaves(found) == set' = found.set /\ nameQueries' = found.made

AskType(name) ==
  /\ Queries
  /\ Leaves(FindTypeByName(Current, name))
  /\ UNCHANGED <<source, addressQueries, deleted, edits>>

(* FindSymbolByName, and GlobalScope::EnumerateChildren of a kind.         *)
AskName(kind, name) ==
  /\ Queries
  /\ Leaves(ImportForNameQuery(Current, kind, name))
  /\ UNCHANGED <<source, addressQueries, deleted, edits>>

(* FindSymbolByOffset, by way of ImportForOffsetQuery: DbgHelp names one   *)
(* symbol, and a query that found none is not kept.                        *)
AskOffset(at) ==
  /\ Queries /\ at \notin addressQueries
  /\ \E i \in Indices :
       /\ Tag(i) \in {"function", "data", "public"} /\ source[i].at = at
       /\ set' = ImportSymbol(set, i, 0).set
  /\ addressQueries' = addressQueries \cup {at}
  /\ UNCHANGED <<source, nameQueries, deleted, edits>>

-----------------------------------------------------------------------------
(* A script creates a class or deletes a symbol, an imported one too.      *)

Edits == edits < MaxEdits /\ edits' = edits + 1

CreateType(name) ==
  /\ Edits
  /\ set' = Create(set, Symbol(0, "udt", name, 0, 0)).set
  /\ UNCHANGED <<source, nameQueries, addressQueries, deleted, queries>>

(* DeleteExistingSymbol erases the name, whoever has it; the index map     *)
(* keeps the id.                                                           *)
Erased(symbols, id) ==
  [j \in DOMAIN symbols |->
     IF j = id \/ symbols[j].parent = id THEN [symbols[j] EXCEPT !.alive = FALSE] ELSE symbols[j]]
DeleteSymbol(id) ==
  /\ Edits /\ set.symbols[id].alive /\ set.symbols[id].parent = 0
  /\ set' = [set EXCEPT !.symbols = Erased(@, id),
                        !.names = [n \in DOMAIN @ \ {set.symbols[id].name} |-> @[n]]]
  /\ deleted' = TRUE
  /\ UNCHANGED <<source, nameQueries, addressQueries, queries>>

-----------------------------------------------------------------------------
(* A set starts with the basic types of C or without.                      *)
Basics == <<Symbol(0, "base", <<"void">>, 0, 0), Symbol(0, "base", <<"int">>, 0, 0)>>
WithSymbols(symbols) ==
  [symbols |-> symbols, indexMap |-> <<>>,
   names |-> [n \in {symbols[id].name : id \in DOMAIN symbols} |->
                CHOOSE id \in DOMAIN symbols : symbols[id].name = n]]
Start(symbols, from) ==
  /\ source = from /\ set = WithSymbols(symbols)
  /\ nameQueries = <<>> /\ addressQueries = {} /\ deleted = FALSE
  /\ queries = 0 /\ edits = 0
Init == \E symbols \in {<<>>, Basics}, from \in Sources : Start(symbols, from)

NamesAsked ==
  {source[i].name : i \in {j \in Indices :
                              Tag(j) \in {"function", "data", "public", "udt", "typedef", "enum"}}}
Next ==
  \/ \E name \in NamesAsked :
       \/ AskType(name) \/ AskType(name \o <<"*">>) \/ AskType(name \o <<"[]", "*">>)
       \/ \E kind \in {"symbol", "function"} : AskName(kind, name)
       \/ CreateType(name)
  \/ \E i \in Indices : AskOffset(source[i].at)
  \/ \E id \in DOMAIN set.symbols : DeleteSymbol(id)

Spec == Init /\ [][Next]_vars

-----------------------------------------------------------------------------
(* Properties.                                                             *)

(* Every variable has its type.                                            *)
TypeOK ==
  /\ DOMAIN set.indexMap \subseteq Indices
  /\ \A i \in DOMAIN set.indexMap : set.indexMap[i] \in DOMAIN set.symbols \cup {Unwritten}
  /\ \A n \in DOMAIN set.names : set.names[n] \in DOMAIN set.symbols
  /\ \A id \in DOMAIN set.symbols :
       set.symbols[id].type \in DOMAIN set.symbols \cup {0}
  /\ deleted \in BOOLEAN /\ queries \in 0 .. MaxQueries /\ edits \in 0 .. MaxEdits

(* What a symbol of the source refers to, directly and in the end.         *)
Refers(i) == (IF source[i].type = 0 THEN {} ELSE {source[i].type}) \cup ToSet(source[i].children)
RECURSIVE Reach(_)
Reach(from) ==
  LET more == from \cup UNION {Refers(i) : i \in from}
  IN IF more = from THEN from ELSE Reach(more)

(* What an import of it cannot get right: something that cannot be read,   *)
(* and a typedef or array that leads back to itself (an import that starts *)
(* with it makes two symbols of it and fails, though ImportSymbol says of  *)
(* that that it should never happen).                                      *)
Spoiling(i) ==
  \/ Tag(i) = "unreadable"
  \/ Tag(i) \in {"typedef", "array"} /\ i \in Reach(Refers(i))
  \/ Tag(i) = "function" /\ (source[i].type = 0 \/ source[source[i].type].type = 0)
Importable(i) == \A j \in Reach({i}) : ~Spoiling(j)

(* A symbol of the source becomes one symbol of the set, by whatever ways  *)
(* and in whatever queries it is come to.                                  *)
ImportedOnce ==
  /\ TypeOK
  /\ \A i \in Indices :
       \/ Cardinality({id \in DOMAIN set.symbols : set.symbols[id].from = i}) <= 1
       \/ ~Importable(i)

(* What was imported is what the source has: of the type that the index map*)
(* has for its type, with the children the builder supports, base classes  *)
(* first.  A class or typedef may be one of the same name instead.         *)
Supported(i) ==
  LET Of(tags) == SelectSeq(source[i].children, LAMBDA c : Tag(c) \in tags)
  IN IF Tag(i) = "enum" THEN Of({"constant"}) ELSE Of({"baseClass"}) \o Of({"member"})
IsImportOf(id, i) == i \in DOMAIN set.indexMap /\ id = set.indexMap[i]
IsCopy(symbol, i) ==
  /\ source[i].type # 0 /\ Tag(i) # "function" => IsImportOf(symbol.type, source[i].type)
  /\ Tag(i) \in {"udt", "enum"} =>
       LET parts == symbol.parts IN
       /\ [k \in DOMAIN parts |-> set.symbols[parts[k]].from] = Supported(i)
       /\ \A k \in DOMAIN parts :
            LET type == source[Supported(i)[k]].type
            IN type # 0 => IsImportOf(set.symbols[parts[k]].type, type)
  /\ Tag(i) = "functionType" =>
       Len(symbol.parts) = Cardinality({c \in ToSet(source[i].children) : Tag(c) = "argument"})
ImportedWhole ==
  ~deleted => \A i \in DOMAIN set.indexMap :
    Tag(i) \notin WithoutId =>
      LET symbol == set.symbols[set.indexMap[i]] IN
      \/ symbol.from = i /\ IsCopy(symbol, i)
      \/ symbol.from # i /\ symbol.name = source[i].name /\ Tag(i) \in {"base", "udt", "typedef"}
      \/ ~Importable(i)

(* A query by name brings everything of that name and of the kind that was *)
(* asked for first, enums excepted; of other kinds asked for later nothing *)
(* comes.                                                                  *)
Answered ==
  \A name \in DOMAIN nameQueries : \A i \in Indices :
    /\ source[i].name = name
    /\ \/ Tag(i) \in {"udt", "typedef"} /\ nameQueries[name] \in {"type", "symbol"}
       \/ Tag(i) = "function" /\ nameQueries[name] \in {"function", "symbol"}
       \/ Tag(i) \in {"data", "public"} /\ nameQueries[name] = "symbol"
    /\ ~deleted
    => i \in DOMAIN set.indexMap \/ ~Importable(i)
=============================================================================
