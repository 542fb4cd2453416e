-------------------------- MODULE FunctionVariables --------------------------
(***************************************************************************)
(* A function of SymBuilder with its parameters and locals: the order of   *)
(* its children and the function type made of it, the live ranges of each  *)
(* variable, and what the debugger reads of both and keeps until it is told*)
(* to forget it.  The builder runs on one thread; a script that iterates   *)
(* over the live ranges runs between two of its steps.                     *)
(***************************************************************************)
EXTENDS Integers, FiniteSets, SequencesExt

CONSTANTS
  Types,          (* Types of parameters and of the result.                *)
  Sizes,          (* Sizes of live ranges that a script gives.             *)
  Span,           (* 2^64 in the code.                                     *)
  Base,           (* Where the function begins, and                        *)
  FunctionSize,   (* how long it is.                                       *)
  MaxVariables, MaxRanges, MaxOperations   (* Bounds on what is created and*)
                  (* on the operations.                                    *)

VARIABLES
  children,       (* m_children: ids.                                      *)
  variables,      (* By id: [kind, type, ranges, curId, alive].            *)
  returnType, functionType,   (* m_returnType and what m_functionType is.  *)
  seen,           (* An answer the debugger has kept: the function type or *)
                  (* the location of a variable at an offset.              *)
  missed,         (* Variables whose live ranges all went away without the *)
                  (* debugger being told.                                  *)
  reading,        (* An iteration over live ranges: [of, cur, yielded,     *)
                  (* shifted], of = 0 when there is none.                  *)
  operations

vars == <<children, variables, returnType, functionType, seen, missed, reading, operations>>

Ranges == INSTANCE LiveRangeList WITH AddressSpan <- Span, FunctionBase <- Base

Locations == {[kind |-> "reg", reg |-> r, off |-> 0] : r \in {"rcx", "rbx"}}
RangeOffsets == 0 .. FunctionSize
Alive == {v \in DOMAIN variables : variables[v].alive}

-----------------------------------------------------------------------------
(* GetFunctionType and NotifyDependentChange: whatever changes a child has *)
(* the function look at its parameters again.                              *)
IsParameter(variable) == variable.alive /\ variable.kind = "parameter"
ParameterTypes(kids, vs) ==
  LET types[n \in 0 .. Len(kids)] ==
        IF n = 0 THEN <<>>
        ELSE IF IsParameter(vs[kids[n]]) THEN Append(types[n - 1], vs[kids[n]].type)
        ELSE types[n - 1]
  IN types[Len(kids)]
GetFunctionType(result, kids, vs) == [result |-> result, parameters |-> ParameterTypes(kids, vs)]
NotifyDependentChange == functionType' = GetFunctionType(returnType', children', variables')

(* InvalidateExternalCaches.                                               *)
InvalidateExternalCaches == seen' = {} /\ missed' = {}

Operates == operations < MaxOperations /\ operations' = operations + 1

(* ParametersObject::Add and LocalVariablesObject::Add.                    *)
NewVariable(kind, type) ==
  [kind |-> kind, type |-> type, ranges |-> <<>>, curId |-> 0, alive |-> TRUE]
Add(kind, type) ==
  /\ Operates /\ Len(variables) < MaxVariables
  /\ variables' = Append(variables, NewVariable(kind, type))
  /\ children' = Append(children, Len(variables) + 1)
  /\ UNCHANGED <<returnType, reading>>
  /\ NotifyDependentChange /\ InvalidateExternalCaches

(* InternalSetReturnTypeId.                                                *)
SetReturnType(type) ==
  /\ Operates /\ type # returnType
  /\ returnType' = type
  /\ UNCHANGED <<children, variables, reading>>
  /\ NotifyDependentChange /\ InvalidateExternalCaches

(* InternalSetSymbolTypeId: a parameter notifies its function.             *)
SetType(v, type) ==
  /\ Operates /\ v \in Alive /\ variables[v].type # type
  /\ variables' = [variables EXCEPT ![v].type = type]
  /\ UNCHANGED <<children, returnType, reading>>
  /\ NotifyDependentChange /\ InvalidateExternalCaches

(* GetChildPosition.                                                       *)
ChildPosition(v) == SelectInSeq(children, LAMBDA c : c = v) - 1

(* Delete: an object of the variable that a script holds stays.            *)
Delete(v) ==
  /\ Operates /\ v \in Alive
  /\ variables' = [variables EXCEPT ![v].alive = FALSE]
  /\ children' = RemoveAt(children, ChildPosition(v) + 1)
  /\ UNCHANGED <<returnType, reading>>
  /\ NotifyDependentChange /\ InvalidateExternalCaches

(* MoveBefore: the position given is the one among the parameters; the one *)
(* of an object is taken among all children.                               *)
IndexOfParameter(pos) ==
  LET parameters == {i \in DOMAIN children : variables[children[i]].kind = "parameter"}
      reached == {i \in parameters : Cardinality({j \in parameters : j < i}) = pos}
  IN IF reached = {} THEN Len(children) + 1 ELSE CHOOSE i \in reached : TRUE

(* A definition named "...Wrong" is a plausible bug in the definition that *)
(* follows it; no specification uses it.                                   *)
MovedWrong(v, pos) ==
  InsertAt(Remove(children, v), Min({IndexOfParameter(pos), Len(children)}), v)
Moved(v, pos) ==
  LET idx == ChildPosition(v) + 1
      newIdx == IndexOfParameter(pos)
  IN InsertAt(RemoveAt(children, idx), IF newIdx > idx THEN newIdx - 1 ELSE newIdx, v)
MoveBeforeWrong(v, pos) ==
  /\ Operates /\ v \in Alive /\ variables[v].kind = "parameter"
  /\ children' = Moved(v, pos)
  /\ UNCHANGED <<variables, returnType, functionType, reading>>
  /\ InvalidateExternalCaches
MoveBefore(v, pos) ==
  /\ Operates /\ v \in Alive /\ variables[v].kind = "parameter"
  /\ children' = Moved(v, pos)
  /\ UNCHANGED <<variables, returnType, reading>>
  /\ NotifyDependentChange /\ InvalidateExternalCaches
MoveBeforeParameter(v, other) ==
  /\ other \in Alive /\ variables[other].kind = "parameter"
  /\ MoveBefore(v, ChildPosition(other))

-----------------------------------------------------------------------------
(* Live ranges.                                                            *)

RangeIds(v) == {variables[v].ranges[i].id : i \in DOMAIN variables[v].ranges}
Position(v, id) == SelectInSeq(variables[v].ranges, LAMBDA r : r.id = id)
LiveRange(offset, size, loc, id) == [id |-> id, offset |-> offset, size |-> size, loc |-> loc]

(* LiveRangesObject::Add.                                                  *)
AddLiveRange(v, offset, size, loc) ==
  LET new == LiveRange(offset, size, loc, variables[v].curId + 1) IN
  /\ Operates /\ v \in Alive /\ Len(variables[v].ranges) < MaxRanges
  /\ Ranges!ValidateLiveRange(variables[v].ranges, new, FunctionSize)
  /\ variables' = [variables EXCEPT ![v].curId = new.id, ![v].ranges = Append(@, new)]
  /\ InvalidateExternalCaches
  /\ UNCHANGED <<children, returnType, functionType, reading>>

(* SetOffset, SetSize and SetLocation of a LiveRangeObject, and what is    *)
(* given again is set again.                                               *)
SetLiveRange(v, new) ==
  LET i == Position(v, new.id)
      old == variables[v].ranges[i]
  IN
  /\ Operates /\ v \in Alive
  /\ \/ new = [old EXCEPT !.loc = new.loc]
     \/ /\ new \in {[old EXCEPT !.offset = new.offset], [old EXCEPT !.size = new.size]}
        /\ Ranges!ValidateLiveRange(variables[v].ranges, new, FunctionSize)
  /\ variables' = [variables EXCEPT ![v].ranges[i] = new]
  /\ InvalidateExternalCaches
  /\ UNCHANGED <<children, returnType, functionType, reading>>

(* InternalDeleteLiveRange.  An iteration is at a position of the list.    *)
DeleteLiveRange(v, id) ==
  /\ Operates /\ v \in Alive
  /\ variables' = [variables EXCEPT ![v].ranges = RemoveAt(@, Position(v, id))]
  /\ reading' = IF reading.of = v /\ Position(v, id) <= reading.cur
                THEN [reading EXCEPT !.shifted = TRUE] ELSE reading
  /\ InvalidateExternalCaches
  /\ UNCHANGED <<children, returnType, functionType>>

(* PropagateLiveRangesFromCallingConvention: the live ranges of all        *)
(* parameters go first, and an error can end it there.                     *)
InternalDeleteAllLiveRanges ==
  [v \in DOMAIN variables |->
     IF IsParameter(variables[v]) THEN [variables[v] EXCEPT !.ranges = <<>>]
     ELSE variables[v]]
Found(v, loc) ==
  [variables[v] EXCEPT !.curId = @ + 1, !.ranges = <<LiveRange(0, FunctionSize, loc, variables[v].curId + 1)>>]
Propagate ==
  /\ Operates
  /\ \/ /\ variables' = InternalDeleteAllLiveRanges
        /\ missed' = missed \cup {v \in Alive : variables[v].ranges # variables'[v].ranges}
        /\ UNCHANGED seen
     \/ \E v \in Alive, loc \in Locations :
          /\ variables[v].kind = "parameter"
          /\ variables' = [InternalDeleteAllLiveRanges EXCEPT ![v] = Found(v, loc)]
          /\ InvalidateExternalCaches
  /\ reading' = IF reading.of # 0 THEN [reading EXCEPT !.shifted = TRUE] ELSE reading
  /\ UNCHANGED <<children, returnType, functionType>>

-----------------------------------------------------------------------------
(* LiveRangesObject::GetIterator.                                          *)

NotReading == [of |-> 0, cur |-> 0, yielded |-> {}, shifted |-> FALSE]
BeginReading(v) ==
  /\ Operates /\ reading.of = 0 /\ v \in Alive
  /\ reading' = [NotReading EXCEPT !.of = v]
  /\ UNCHANGED <<children, variables, returnType, functionType, seen, missed>>
Yield ==
  /\ reading.of # 0 /\ reading.cur < Len(variables[reading.of].ranges)
  /\ reading' = [reading EXCEPT !.cur = @ + 1,
                   !.yielded = @ \cup {variables[reading.of].ranges[reading.cur + 1].id}]
  /\ UNCHANGED <<children, variables, returnType, functionType, seen, missed, operations>>
EndReading ==
  /\ reading.of # 0 /\ reading.cur >= Len(variables[reading.of].ranges)
  /\ reading' = NotReading
  /\ UNCHANGED <<children, variables, returnType, functionType, seen, missed, operations>>

-----------------------------------------------------------------------------
(* The debugger asks for the type of the function and, by an id that binds *)
(* a variable to a scope, for its location at an offset (GetSymbolById,    *)
(* GetLocation); it keeps an answer.                                       *)
TypeAnswer == [of |-> 0, at |-> 0, answer |-> functionType]
LocationAnswer(v, at) ==
  [of |-> v, at |-> at, answer |-> Ranges!LocationAt(variables[v].ranges, at)]
Ask ==
  /\ \E new \in {TypeAnswer} \cup {LocationAnswer(v, at) : v \in Alive, at \in 0 .. FunctionSize - 1} :
       seen' = {new}
  /\ UNCHANGED <<children, variables, returnType, functionType, missed, reading, operations>>

Init ==
  /\ children = <<>> /\ variables = <<>>
  /\ returnType \in Types
  /\ functionType = GetFunctionType(returnType, children, variables)
  /\ seen = {} /\ missed = {}
  /\ reading = NotReading /\ operations = 0

Next ==
  \/ \E type \in Types : Add("parameter", type) \/ Add("local", type) \/ SetReturnType(type)
  \/ \E v \in Alive :
       \/ \E type \in Types : SetType(v, type)
       \/ Delete(v)
       \/ \E pos \in 0 .. Len(children) : MoveBefore(v, pos)
       \/ \E other \in Alive : MoveBeforeParameter(v, other)
       \/ \E offset \in RangeOffsets, size \in Sizes, loc \in Locations :
            \/ AddLiveRange(v, offset, size, loc)
            \/ \E id \in RangeIds(v) : SetLiveRange(v, LiveRange(offset, size, loc, id))
       \/ \E id \in RangeIds(v) : DeleteLiveRange(v, id)
       \/ BeginReading(v)
  \/ Propagate \/ Yield \/ EndReading \/ Ask

Spec == Init /\ [][Next]_vars

-----------------------------------------------------------------------------
(* Properties.                                                             *)

(* Every variable has its type.                                            *)
TypeOK ==
  /\ children \in Seq(DOMAIN variables) /\ ToSet(children) = Alive /\ IsInjective(children)
  /\ variables \in Seq([kind : {"parameter", "local"}, type : Types, curId : Nat,
                        ranges : Seq([id : Nat, offset : RangeOffsets, size : Sizes \cup {FunctionSize},
                                      loc : Locations]),
                        alive : BOOLEAN])
  /\ returnType \in Types /\ functionType \in [result : Types, parameters : Seq(Types)]
  /\ missed \subseteq DOMAIN variables
  /\ reading.of \in DOMAIN variables \cup {0} /\ operations \in 0 .. MaxOperations

(* The function has the type that its parameters, in their order, and its  *)
(* result have, and what the debugger keeps is what it would be told now,  *)
(* but for live ranges that a propagation took away.                       *)
AnswersCurrent ==
  /\ functionType = GetFunctionType(returnType, children, variables)
  /\ \A kept \in seen :
       \/ kept.of = 0 /\ kept = TypeAnswer
       \/ kept.of # 0 /\ (kept.of \in missed \/ kept = LocationAnswer(kept.of, kept.at))

Overlap(r, s) ==
  \E at \in 0 .. Span - 1 : Ranges!Within(r, at) /\ Ranges!Within(s, at)

Inside(r, s) ==
  Ranges!RangeStart(s) < Ranges!RangeStart(r) /\ Ranges!RangeEnd(r) <= Ranges!RangeEnd(s)

(* SymbolData.cpp:814: "Ensure that this new live range does *NOT* overlap *)
(* with any existing live range".                                          *)
RangesDisjoint ==
  \A v \in Alive : \A i, j \in DOMAIN variables[v].ranges :
    i # j => ~Overlap(variables[v].ranges[i], variables[v].ranges[j])

(* As far as that is ensured: two live ranges of a variable, neither of    *)
(* which lies inside the other, do not overlap.  An id names one range for *)
(* ever.  Both, with the types of the variables.                           *)
DisjointOutside ==
  \A v \in Alive : \A i, j \in DOMAIN variables[v].ranges :
    LET r == variables[v].ranges[i]
        s == variables[v].ranges[j]
    IN i # j /\ Overlap(r, s) => Inside(r, s) \/ Inside(s, r)
RangesNamed ==
  \A v \in Alive : \A i \in DOMAIN variables[v].ranges :
    LET id == variables[v].ranges[i].id
    IN id <= variables[v].curId /\ Position(v, id) = i
RangesKept == TypeOK /\ DisjointOutside /\ RangesNamed

(* A parameter moved before another one comes right before it, if no local *)
(* comes before that one.                                                  *)
MovedBefore ==
  [][\A v, other \in Alive :
       /\ v # other /\ MoveBeforeParameter(v, other)
       /\ \A i \in 1 .. ChildPosition(other) : variables[children[i]].kind = "parameter"
       => Len(children') = Len(children) /\
          \E i \in 1 .. Len(children') - 1 : children'[i] = v /\ children'[i + 1] = other]_vars

(* An iteration that ends has yielded every live range there still is, if  *)
(* none at or before its position was deleted meanwhile.                   *)
IterationWhole ==
  [][reading.of # 0 /\ reading'.of = 0 /\ ~reading.shifted
       => RangeIds(reading.of) \subseteq reading.yielded]_vars
=============================================================================
