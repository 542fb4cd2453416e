---------------------------- MODULE SymbolTypes ----------------------------
(***************************************************************************)
(* The types of SymBuilder: classes with their fields and base classes,    *)
(* arrays, typedefs and the global data of a type.  A change of a symbol   *)
(* is passed on to the symbols that depend on it, each of which recomputes *)
(* its layout and passes the change on.  The calls nest on the stack of    *)
(* one thread; here the stack is state, because dependents are kept in a   *)
(* hash map and are notified in any order.  Bit fields, pointers, enums,   *)
(* function types and constants are left out, and nothing overflows.       *)
(***************************************************************************)
EXTENDS Naturals, Sequences, SequencesExt

CONSTANTS
  Automatic,   (* AutomaticAppendLayout, which is no offset.               *)
  BasicSizes,  (* The sizes of the basic types, not void.                  *)
  Udts,        (* The classes that exist at the start.                     *)
  Offsets,     (* The offsets a caller gives.                              *)
  Dims,        (* The dimensions of arrays.                                *)
  MaxOperations  (* Bound on the operations.                               *)

VARIABLES
  symbols,  (* Every symbol created, by id.                                *)
  live,     (* The ids that InternalGetSymbol still finds.                 *)
  waiting,  (* The stack of NotifyDependentChange: on each level the       *)
            (* symbols that its loop has not notified yet.                 *)
  tasks,    (* What the operation under way does when that has returned.   *)
  failed,   (* Some notification has failed.                               *)
  operations  (* The operations begun.                                     *)

vars == <<symbols, live, waiting, tasks, failed, operations>>

TypeKinds == {"basic", "udt", "array", "typedef"}
Positional == {"base", "field"}

(* A symbol: `type' is the type of a field, base class or datum and what   *)
(* an array or a typedef is made of; `actual' and `size' of a datum say    *)
(* where it is registered.                                                 *)
Blank ==
  [kind |-> "basic", parent |-> 0, type |-> 0, offset |-> 0, actual |-> 0,
   size |-> 0, align |-> 1, dim |-> 1, children |-> <<>>, dependents |-> {}]
Basic(size) == [Blank EXCEPT !.size = size, !.align = size]
Udt == [Blank EXCEPT !.kind = "udt"]

Ids == 1 .. Udts + Cardinality(BasicSizes) + MaxOperations
Symbols ==
  [kind : TypeKinds \cup Positional \cup {"data"},
   parent : Ids \cup {0}, type : Ids \cup {0},
   offset : Nat \cup {Automatic}, actual : Nat \cup {Automatic},
   size : Nat, align : Nat \ {0}, dim : Nat,
   children : Seq(Ids), dependents : SUBSET (Ids \cup {0})]
Task(do, id) == [do |-> do, id |-> id, slots |-> <<>>, next |-> 1]

(* Every variable has its type.                                            *)
TypeOK ==
  /\ symbols \in Seq(Symbols)
  /\ live \subseteq DOMAIN symbols
  /\ waiting \in Seq((SUBSET live) \ {{}})
  /\ \A k \in DOMAIN tasks :
       tasks[k] \in [do : {"depend", "children", "erase"}, id : Ids,
                     slots : Seq(Ids), next : Nat \ {0}]
  /\ failed \in BOOLEAN /\ operations \in 0 .. MaxOperations

Init ==
  /\ symbols = [k \in 1 .. Udts |-> Udt]
               \o SetToSeq({Basic(size) : size \in BasicSizes})
  /\ live = DOMAIN symbols
  /\ waiting = <<>> /\ tasks = <<>>
  /\ failed = FALSE /\ operations = 0

LiveOf(kinds) == {i \in live : symbols[i].kind \in kinds}
Idle == waiting = <<>> /\ tasks = <<>>
NewId == Len(symbols) + 1

(* No notification that begins with i comes to j: some symbols, i among    *)
(* them and j not, notify each other only.                                 *)
Closed(set) == \A k \in set : symbols[k].dependents \cap live \subseteq set
IsApart(i, j) == \E set \in SUBSET (live \ {j}) : i \in set /\ Closed(set)

-----------------------------------------------------------------------------
(* LayoutType: two passes over the children, one for the base classes and  *)
(* one for the fields; it stops at one whose type is gone, with the offsets*)
(* before it already assigned.                                             *)
RoundUp(n, align) == ((n + align - 1) \div align) * align
Larger(a, b) == IF a > b THEN a ELSE b
Zombie(i) == symbols[i].type \notin live

Place(cursor, i) ==
  LET s == symbols[i]
      type == symbols[s.type]
      auto == s.offset = Automatic
      at == IF auto THEN RoundUp(cursor.at, type.align) ELSE s.offset
  IN  IF Zombie(i) THEN [cursor EXCEPT !.stopped = TRUE]
      ELSE [at |-> at + type.size,
            size |-> Larger(cursor.size, at + type.size),
            align |-> Larger(cursor.align, type.align),
            symbols |-> IF auto THEN [cursor.symbols EXCEPT ![i].actual = at]
                                ELSE cursor.symbols,
            stopped |-> FALSE]

(* The child that the k-th turn of the two loops comes to, and whether its *)
(* kind is that of the pass.                                               *)
ChildAt(u, k) ==
  LET children == symbols[u].children
  IN  children[IF k <= Len(children) THEN k ELSE k - Len(children)]
IsOfPass(u, k) ==
  symbols[ChildAt(u, k)].kind = IF k <= Len(symbols[u].children) THEN "base" ELSE "field"

Turns(u) == 2 * Len(symbols[u].children)
Cursors(u) ==
  LET cursor[k \in 0 .. Turns(u)] ==
        IF k = 0
        THEN [at |-> 0, size |-> 0, align |-> 1, symbols |-> symbols, stopped |-> FALSE]
        ELSE IF cursor[k - 1].stopped \/ ~IsOfPass(u, k) THEN cursor[k - 1]
        ELSE Place(cursor[k - 1], ChildAt(u, k))
  IN  cursor
Stops(u) == Cursors(u)[Turns(u)].stopped

LayoutType(u) ==
  LET end == Cursors(u)[Turns(u)]
  IN  IF end.stopped THEN end.symbols
      ELSE [end.symbols EXCEPT ![u].size = RoundUp(end.size, end.align),
                               ![u].align = end.align]

(* What NotifyDependentChange recomputes before it passes the change on,   *)
(* and when it fails instead.                                              *)
OfArray(a) ==
  LET of == symbols[symbols[a].type]
  IN  [symbols EXCEPT ![a].size = of.size * symbols[a].dim, ![a].align = of.align]

(* A definition named "...Wrong" is a plausible bug in the definition that *)
(* follows it; no specification uses it.                                   *)
OfDataWrong(d) == [symbols EXCEPT ![d].actual = symbols[d].offset]
OfData(d) ==
  IF Zombie(d) THEN symbols
  ELSE [symbols EXCEPT ![d].actual = symbols[d].offset,
                       ![d].size = symbols[symbols[d].type].size]

Recomputed(i) ==
  CASE symbols[i].kind = "udt" -> LayoutType(i)
    [] symbols[i].kind = "array" /\ ~Zombie(i) -> OfArray(i)
    [] symbols[i].kind = "data" -> OfData(i)
    [] OTHER -> symbols
Fails(i) ==
  \/ symbols[i].kind = "udt" /\ Stops(i)
  \/ symbols[i].kind = "array" /\ Zombie(i)

(* One symbol of the innermost loop is notified.  A failure returns from   *)
(* every loop, and a new field then does not register for changes.         *)
Level(set) == IF set = {} THEN <<>> ELSE <<set>>
NotifyDependentChange(i) ==
  /\ waiting # <<>> /\ i \in Head(waiting)
  /\ symbols' = Recomputed(i)
  /\ IF Fails(i)
     THEN /\ waiting' = <<>> /\ failed' = TRUE
          /\ tasks' = IF tasks # <<>> /\ Head(tasks).do = "depend" THEN Tail(tasks) ELSE tasks
     ELSE /\ waiting' = Level(symbols[i].dependents \cap live)
                          \o Level(Head(waiting) \ {i}) \o Tail(waiting)
          /\ UNCHANGED <<tasks, failed>>
  /\ UNCHANGED <<live, operations>>

-----------------------------------------------------------------------------
(* The tasks that follow a notification.                                   *)
Returned(do) == waiting = <<>> /\ tasks # <<>> /\ Head(tasks).do = do

(* AddDependentNotify and RemoveDependentNotify, of the type of a symbol.  *)
Registered(table, i, type) == [table EXCEPT ![type].dependents = @ \cup {i}]
Unregistered(table, i) ==
  IF Zombie(i) THEN table
  ELSE [table EXCEPT ![symbols[i].type].dependents = @ \ {i}]

(* The end of BaseInitialize: from the type to the field to its owner.     *)
Depend ==
  /\ Returned("depend")
  /\ LET f == Head(tasks).id
     IN  symbols' = [Registered(symbols, f, symbols[f].type)
                     EXCEPT ![f].dependents = @ \cup {symbols[f].parent}]
  /\ tasks' = Tail(tasks)
  /\ UNCHANGED <<live, waiting, failed, operations>>

(* DeleteExistingSymbol.                                                   *)
Erase ==
  /\ Returned("erase")
  /\ live' = live \ {Head(tasks).id}
  /\ tasks' = Tail(tasks)
  /\ UNCHANGED <<symbols, waiting, failed, operations>>

(* A symbol leaves the dependents of its type and the children of its      *)
(* parent, which is notified, and is then erased.                          *)
Unlinked(i) ==
  IF symbols[i].parent \in live
  THEN [Unregistered(symbols, i) EXCEPT ![symbols[i].parent].children = RemoveFirst(@, i)]
  ELSE Unregistered(symbols, i)
Unlink(i, next) ==
  /\ symbols' = Unlinked(i)
  /\ waiting' = Level({symbols[i].parent} \cap live)
  /\ tasks' = next

(* The loop of BaseSymbol::Delete runs over the storage of m_children, up  *)
(* to its end at the start, while each child that is deleted is erased     *)
(* from it: the later children move down and the last slot keeps its value.*)
Position(children, i) == SelectInSeq(children, LAMBDA c : c = i)
Shifted(slots, children, i) ==
  LET at == Position(children, i)
  IN  [k \in DOMAIN slots |->
         IF at <= k /\ k < Len(children) THEN slots[k + 1] ELSE slots[k]]

DeleteNextChild ==
  /\ Returned("children")
  /\ LET t == Head(tasks)
         child == t.slots[t.next]
         rest == <<[t EXCEPT !.next = @ + 1]>> \o Tail(tasks)
         shifted == <<[t EXCEPT !.next = @ + 1,
                                !.slots = Shifted(@, symbols[t.id].children, child)]>>
                    \o Tail(tasks)
     IN  \/ /\ t.next <= Len(t.slots) /\ child \in live
            /\ Unlink(child, <<Task("erase", child)>> \o shifted)
         \/ /\ t.next <= Len(t.slots) /\ child \notin live
            /\ tasks' = rest
            /\ UNCHANGED <<symbols, waiting>>
         \/ /\ t.next > Len(t.slots)
            /\ symbols' = [symbols EXCEPT ![t.id].children = <<>>]
            /\ tasks' = Tail(tasks)
            /\ UNCHANGED waiting
  /\ UNCHANGED <<live, failed, operations>>

-----------------------------------------------------------------------------
Begin ==
  /\ Idle /\ operations < MaxOperations
  /\ operations' = operations + 1
  /\ UNCHANGED failed

(* Creation.                                                               *)
Create(table) ==
  /\ symbols' = table
  /\ live' = live \cup {NewId}

CreateUdt ==
  /\ Begin
  /\ Create(Append(symbols, Udt))
  /\ UNCHANGED <<waiting, tasks>>

CreateArray(type, dim) ==
  /\ Begin /\ type \in LiveOf(TypeKinds)
  /\ LET array == [Blank EXCEPT !.kind = "array", !.type = type, !.dim = dim,
                                !.size = symbols[type].size * dim,
                                !.align = symbols[type].align]
     IN  Create(Registered(Append(symbols, array), NewId, type))
  /\ UNCHANGED <<waiting, tasks>>

(* A typedef copies the size of its type and does not ask to be notified.  *)
CreateTypedef(type) ==
  /\ Begin /\ type \in LiveOf(TypeKinds)
  /\ Create(Append(symbols, [Blank EXCEPT !.kind = "typedef", !.type = type,
                                          !.size = symbols[type].size,
                                          !.align = symbols[type].align]))
  /\ UNCHANGED <<waiting, tasks>>

CreateGlobal(type, offset) ==
  /\ Begin /\ type \in LiveOf(TypeKinds)
  /\ LET data == [Blank EXCEPT !.kind = "data", !.type = type, !.dependents = {0},
                               !.offset = offset, !.actual = offset,
                               !.size = symbols[type].size]
     IN  Create(Registered(Append(symbols, data), NewId, type))
  /\ UNCHANGED <<waiting, tasks>>

(* Fields.Add and BaseClasses.Add: a class never comes to hold itself,     *)
(* which the caller must see to.                                           *)
AddPositional(kind, owner, type, offset) ==
  /\ Begin
  /\ owner \in LiveOf({"udt"})
  /\ type \in {t \in LiveOf(IF kind = "base" THEN {"udt"} ELSE TypeKinds) : IsApart(owner, t)}
  /\ LET child == [Blank EXCEPT !.kind = kind, !.parent = owner, !.type = type,
                                !.offset = offset, !.actual = offset]
     IN  Create([Append(symbols, child) EXCEPT ![owner].children = Append(@, NewId)])
  /\ waiting' = <<{owner}>>
  /\ tasks' = <<Task("depend", NewId)>>

-----------------------------------------------------------------------------
(* InternalSetSymbolOffset: SetOffset, and SetIsAutomaticLayout, which     *)
(* either turns the automatic layout on or keeps the actual offset.        *)
SettableOffsets(i) ==
  IF symbols[i].kind = "data" THEN Offsets
  ELSE IF symbols[i].offset = Automatic THEN {symbols[i].actual}
  ELSE Offsets \cup {Automatic, symbols[i].actual}

SetSymbolOffset(i, offset) ==
  /\ Begin
  /\ i \in LiveOf(Positional \cup {"data"})
  /\ offset \in SettableOffsets(i) /\ offset # symbols[i].offset
  /\ symbols' = [symbols EXCEPT ![i].offset = offset]
  /\ waiting' = <<{i}>>
  /\ UNCHANGED <<live, tasks>>

SetSymbolTypeId(i, type) ==
  /\ Begin
  /\ i \in LiveOf(Positional \cup {"data"})
  /\ type \in {t \in LiveOf(TypeKinds) : IsApart(i, t)} /\ type # symbols[i].type
  /\ symbols' = [Registered(Unregistered(symbols, i), i, type) EXCEPT ![i].type = type]
  /\ waiting' = <<{i}>>
  /\ UNCHANGED <<live, tasks>>

(* MoveChildBefore, pos counted among the children of the same kind.       *)
NewPosition(children, i, pos) ==
  LET kin == {k \in DOMAIN children : symbols[children[k]].kind = symbols[i].kind}
      reached == {k \in kin : Cardinality({l \in kin : l < k}) = pos}
  IN IF reached = {} THEN Len(children) + 1 ELSE CHOOSE k \in reached : TRUE
MovedBefore(children, i, pos) ==
  LET old == Position(children, i)
      new == NewPosition(children, i, pos)
  IN  InsertAt(RemoveAt(children, old), IF new > old THEN new - 1 ELSE new, i)

MoveToBefore(i, pos) ==
  /\ Begin
  /\ i \in LiveOf(Positional) /\ symbols[i].parent \in live
  /\ LET owner == symbols[i].parent
     IN  /\ pos \in 0 .. Len(symbols[owner].children)
         /\ symbols' = [symbols EXCEPT ![owner].children = MovedBefore(@, i, pos)]
         /\ waiting' = <<{owner}>>
  /\ UNCHANGED <<live, tasks>>

Delete(i) ==
  /\ Begin
  /\ i \in live
  /\ LET loop == [Task("children", i) EXCEPT !.slots = symbols[i].children]
     IN  Unlink(i, (IF symbols[i].children = <<>> THEN <<>> ELSE <<loop>>)
                   \o <<Task("erase", i)>>)
  /\ UNCHANGED live

-----------------------------------------------------------------------------
Step ==
  \/ \E i \in live : NotifyDependentChange(i)
  \/ Depend \/ Erase \/ DeleteNextChild

(* What a caller can name: only between operations is it in control.       *)
Nameable == {i \in live : Idle /\ operations < MaxOperations}

Operation ==
  \/ CreateUdt
  \/ \E type \in Nameable :
       \/ \E dim \in Dims : CreateArray(type, dim)
       \/ CreateTypedef(type)
       \/ \E offset \in Offsets : CreateGlobal(type, offset)
       \/ \E kind \in Positional, owner \in Nameable, offset \in Offsets \cup {Automatic} :
            AddPositional(kind, owner, type, offset)
  \/ \E i \in Nameable :
       \/ \E offset \in Offsets \cup {Automatic, symbols[i].actual} :
            SetSymbolOffset(i, offset)
       \/ \E type \in Nameable : SetSymbolTypeId(i, type)
       \/ \E pos \in 0 .. Len(symbols) : MoveToBefore(i, pos)
       \/ Delete(i)

Next == Operation \/ Step

Spec == Init /\ [][Next]_vars

-----------------------------------------------------------------------------
(* Between operations, and as long as no notification has failed, every    *)
(* array and every class, unless a type it holds is gone, has the layout   *)
(* that its parts now give it: base classes come first, an automatic part  *)
(* lies at the first aligned offset after the part before it, and the size *)
(* is the first aligned end of all parts (LayoutType,                      *)
(* NotifyDependentChange).                                                 *)
Aligns(at, n, align) == at % align = 0 /\ n <= at /\ at < n + align
TypeOf(i) == symbols[symbols[i].type]
Start(i) == IF symbols[i].offset = Automatic THEN symbols[i].actual ELSE symbols[i].offset
Stop(i) == Start(i) + TypeOf(i).size

Owned(u) == ToSet(symbols[u].children)
IsBefore(u, i, j) ==
  IF symbols[i].kind # symbols[j].kind THEN symbols[i].kind = "base"
  ELSE \E k, l \in DOMAIN symbols[u].children :
         k < l /\ symbols[u].children[k] = i /\ symbols[u].children[l] = j
IsRightBefore(u, i, j) ==
  IsBefore(u, i, j) /\ ~\E k \in Owned(u) : IsBefore(u, i, k) /\ IsBefore(u, k, j)

ClassLaidOut(u) ==
  /\ \A i \in Owned(u) : symbols[i].offset = Automatic =>
       \/ (\A j \in Owned(u) : ~IsBefore(u, j, i)) /\ Aligns(Start(i), 0, TypeOf(i).align)
       \/ \E j \in Owned(u) : IsRightBefore(u, j, i) /\ Aligns(Start(i), Stop(j), TypeOf(i).align)
  /\ \A i \in Owned(u) : TypeOf(i).align <= symbols[u].align
  /\ symbols[u].align = 1 \/ \E i \in Owned(u) : symbols[u].align = TypeOf(i).align
  /\ \/ Owned(u) = {} /\ symbols[u].size = 0
     \/ \E i \in Owned(u) :
          (\A j \in Owned(u) : Stop(j) <= Stop(i)) /\ Aligns(symbols[u].size, Stop(i), symbols[u].align)

TypesLaidOut ==
  (Idle /\ ~failed) =>
    /\ \A u \in LiveOf({"udt"}) :
         (\A k \in DOMAIN symbols[u].children : ~Zombie(symbols[u].children[k]))
           => ClassLaidOut(u)
    /\ \A a \in LiveOf({"array"}) :
         ~Zombie(a) => /\ symbols[a].size = symbols[a].dim * symbols[symbols[a].type].size
                       /\ symbols[a].align = symbols[symbols[a].type].align

(* Between operations global data is registered at its offset and with the *)
(* size its type has now, however far below the change was made            *)
(* (BaseDataSymbol::NotifyDependentChange).                                *)
DataFollows ==
  (Idle /\ ~failed) =>
    \A d \in LiveOf({"data"}) :
      ~Zombie(d) => /\ symbols[d].actual = symbols[d].offset
                    /\ symbols[d].size = symbols[symbols[d].type].size

(* Between operations the children of a class are its live fields and base *)
(* classes, each of them once, whatever was added, moved, deleted or failed*)
(* (AddChild, RemoveChild, MoveChildBefore).                               *)
ChildrenOwned ==
  Idle => \A u \in LiveOf({"udt"}) :
            /\ ToSet(symbols[u].children) = {i \in LiveOf(Positional) : symbols[i].parent = u}
            /\ IsInjective(symbols[u].children)

(* Between operations a type notifies exactly the symbols that are made of *)
(* it, but for typedefs, and a field its class: a change of type or a      *)
(* deletion leaves no registration behind and loses none                   *)
(* (AddDependentNotify, RemoveDependentNotify).                            *)
NotifiesUsers ==
  (Idle /\ ~failed) =>
    /\ \A t \in LiveOf(TypeKinds) :
         symbols[t].dependents
           = {i \in LiveOf(Positional \cup {"array", "data"}) : symbols[i].type = t}
    /\ \A i \in LiveOf(Positional) : symbols[i].dependents = {symbols[i].parent}

(* What a type is laid out from and where its data lies follow each other. *)
LayoutsFollow == TypesLaidOut /\ DataFollows

(* The tree and the registrations, with the types of the variables.        *)
TreeOwned == TypeOK /\ ChildrenOwned /\ NotifiesUsers

=============================================================================
