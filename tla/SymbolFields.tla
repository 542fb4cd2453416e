---------------------------- MODULE SymbolFields ----------------------------
(***************************************************************************)
(* The fields of one class or the enumerants of one enum of SymBuilder, in *)
(* detail: fields that are bit fields, offsets and bit positions that are  *)
(* chosen or left to the layout, and values that count on.  Whatever is    *)
(* done to one of them lays out the type again.  SymbolTypes has the tree  *)
(* of types and who notifies whom; here the types of the fields stay.      *)
(***************************************************************************)
EXTENDS Integers, SequencesExt

CONSTANTS
  FieldTypes,  (* Types for fields and enums: [name, kind, size, align].   *)
  FieldOffsets, BitLengths, BitPositions,   (* What a caller gives.        *)
  FieldValues,                              (* Integers: [vt, n].          *)
  MaxFields, MaxFieldCalls                  (* Bounds.                     *)

VARIABLES
  holder,    (* What holds the fields: "none" yet, a "class" or an "enum". *)
  packing,   (* m_enumPacking.                                             *)
  fields,    (* m_children, all of which are fields.                       *)
  typeSize, typeAlignment,
  fieldCalls

fieldVars == <<holder, packing, fields, typeSize, typeAlignment, fieldCalls>>

(* Offsets that are none.  The code has them in 64 bits without a sign,    *)
(* where -1 and what is added to it come to the same.                      *)
ConstantValue == -1
AutomaticAppendLayout == -2
AutomaticIncreaseConstantValue == -3

(* A VARTYPE is [kind, size] too.                                          *)
Bool == [kind |-> "bool", size |-> 2]
OrdinalTypes == [kind : {"signed", "unsigned"}, size : {1, 2, 4, 8}]
Count(vt) ==
  CASE vt.size = 1 -> 256 [] vt.size = 2 -> 65536 [] vt.size = 4 -> 65536 * 65536
    [] vt.size = 8 -> 65536 * 65536 * 65536 * 65536
Low(vt) == IF vt.kind = "signed" THEN -(Count(vt) \div 2) ELSE 0
Wrapped(vt, n) == Low(vt) + ((n - Low(vt)) % Count(vt))
InRange(value) ==
  IF value.vt = Bool THEN value.n \in {-1, 0} ELSE Wrapped(value.vt, value.n) = value.n

(* VARIANT_TRUE is -1.                                                     *)
Increment(value) ==
  [value EXCEPT !.n = IF value.vt = Bool THEN -1 ELSE Wrapped(value.vt, @ + 1)]
Zero(vt) == [vt |-> vt, n |-> 0]

(* Types are laid out in whole bytes; a value is one of its type.          *)
ASSUME FieldsAssumption ==
  /\ FieldTypes \subseteq [name : STRING, kind : STRING, size : Nat, align : Nat \ {0}]
  /\ FieldOffsets \cup BitLengths \cup BitPositions \subseteq Nat
  /\ FieldValues \subseteq [vt : OrdinalTypes, n : Int] /\ \A value \in FieldValues : InRange(value)
  /\ {MaxFields, MaxFieldCalls} \subseteq Nat

NoType == [name |-> "none", kind |-> "other", size |-> 0, align |-> 1]
CanBeBitField(t) == t.kind # "other"
IsBitField(f) == f.length # 0
IsAutomaticLayout(f) == f.offset = AutomaticAppendLayout
IsIncreasingConstant(f) == f.offset = AutomaticIncreaseConstantValue

FieldsInit ==
  /\ holder = "none" /\ packing = Bool /\ fields = <<>>
  /\ typeSize = 0 /\ typeAlignment = 1 /\ fieldCalls = 0

-----------------------------------------------------------------------------
(* LayoutType.  The cursor: how far the class is filled, the bits that are *)
(* used of the unit there, the size and the alignment so far, and whether  *)
(* the field before was a bit field and of which type.                     *)
Aligned(n, align) == ((n + align - 1) \div align) * align
Higher(a, b) == IF a > b THEN a ELSE b
CursorStart ==
  [offset |-> 0, bits |-> 0, size |-> 0, align |-> 1, bit |-> FALSE, type |-> NoType]

(* A definition named "...Wrong" is a plausible bug in the definition that *)
(* follows it; no specification uses it.                                   *)
LeavesWrong(c, f) == c.bit /\ ~IsBitField(f)
(* The unit of the bit field before ends.                                  *)
Leaves(c, f) == c.bit /\ (~IsBitField(f) \/ c.type # f.type)
Left(c, f) ==
  IF Leaves(c, f) THEN [c EXCEPT !.offset = @ + c.type.size, !.bits = 0] ELSE c

(* The bits do not fit into what remains of the unit.                      *)
IsFull(c, f) == IsAutomaticLayout(f) /\ IsBitField(f) /\ c.bits + f.length > 8 * f.type.size
Arrived(c, f) ==
  LET left == Left(c, f)
  IN IF IsFull(left, f) THEN [left EXCEPT !.offset = @ + f.type.size, !.bits = 0] ELSE left

OffsetAt(c, f) ==
  IF IsAutomaticLayout(f) THEN Aligned(Arrived(c, f).offset, f.type.align) ELSE f.offset
PositionAt(c, f) == IF IsAutomaticLayout(f) THEN Arrived(c, f).bits ELSE f.position

(* The cursor behind a field.                                              *)
Behind(c, f) ==
  LET at == OffsetAt(c, f)
      end == at + f.type.size
  IN [offset |-> IF IsBitField(f) THEN at ELSE end,
      bits |-> IF IsBitField(f) THEN PositionAt(c, f) + f.length ELSE Arrived(c, f).bits,
      size |-> IF IsBitField(f) THEN c.size ELSE Higher(c.size, end),
      align |-> Higher(c.align, f.type.align),
      bit |-> IsBitField(f), type |-> f.type]
FieldCursors(fs) ==
  LET cursor[k \in 0 .. Len(fs)] ==
        IF k = 0 THEN CursorStart ELSE Behind(cursor[k - 1], fs[k])
  IN cursor

(* InternalSetComputedSymbolOffset and InternalSetComputedBitFieldPosition.*)
Placed(c, f) ==
  [f EXCEPT !.actualOffset = IF IsAutomaticLayout(f) THEN OffsetAt(c, f) ELSE @,
            !.actualPosition =
               IF IsAutomaticLayout(f) /\ IsBitField(f) /\ f.position = AutomaticAppendLayout
               THEN PositionAt(c, f) ELSE @]
LaidOut(fs) == [k \in 1 .. Len(fs) |-> Placed(FieldCursors(fs)[k - 1], fs[k])]
AlignmentOf(fs) == FieldCursors(fs)[Len(fs)].align
SizeOf(fs) ==
  LET end == FieldCursors(fs)[Len(fs)]
  IN Aligned(IF end.bit THEN Higher(end.size, end.offset + end.type.size) ELSE end.size, end.align)

(* LayoutEnum: an automatic value is the one before and one more, and the  *)
(* first is zero.                                                          *)
EnumValues(pack, fs) ==
  LET value[k \in 0 .. Len(fs)] ==
        IF k = 0 THEN Zero(pack)
        ELSE IF ~IsIncreasingConstant(fs[k]) THEN fs[k].value
        ELSE IF k = 1 THEN value[0] ELSE Increment(value[k - 1])
  IN value
CountedWrong(pack, fs) ==
  LET value[k \in 0 .. Len(fs)] ==
        IF k = 0 THEN Zero(pack)
        ELSE IF IsIncreasingConstant(fs[k]) THEN Increment(value[k - 1]) ELSE fs[k].value
  IN [k \in 1 .. Len(fs) |-> [fs[k] EXCEPT !.value = value[k]]]
Counted(pack, fs) ==
  [k \in 1 .. Len(fs) |-> [fs[k] EXCEPT !.value = EnumValues(pack, fs)[k]]]

-----------------------------------------------------------------------------
(* What a script does.  NotifyDependentChange lays out the type at the end *)
(* of every call.                                                          *)

FieldCall == fieldCalls < MaxFieldCalls /\ fieldCalls' = fieldCalls + 1
Settle(fs) ==
  /\ FieldCall
  /\ fields' = IF holder = "class" THEN LaidOut(fs) ELSE Counted(packing, fs)
  /\ typeSize' = IF holder = "class" THEN SizeOf(fs) ELSE typeSize
  /\ typeAlignment' = IF holder = "class" THEN AlignmentOf(fs) ELSE typeAlignment
  /\ UNCHANGED <<holder, packing>>
Change(k, f) == Settle([fields EXCEPT ![k] = f])

(* TypesObject::CreateEnum: of an ordinal basic type.                      *)
CanBeEnum(t) == t.kind = "bool" \/ [kind |-> t.kind, size |-> t.size] \in OrdinalTypes
CreateEnum(t) ==
  /\ FieldCall /\ holder = "none" /\ CanBeEnum(t)
  /\ holder' = "enum"
  /\ packing' = IF t.kind = "bool" THEN Bool ELSE [kind |-> t.kind, size |-> t.size]
  /\ typeSize' = t.size /\ typeAlignment' = t.align
  /\ UNCHANGED fields
CreateClass == FieldCall /\ holder = "none" /\ holder' = "class"
               /\ UNCHANGED <<packing, fields, typeSize, typeAlignment>>

(* A bit field must make sense; what does not is refused.                  *)
IsBitFieldOf(t, offset, length, position) ==
  /\ CanBeBitField(t) /\ length <= 8 * t.size
  /\ (offset = AutomaticAppendLayout) = (position = AutomaticAppendLayout)
  /\ position # AutomaticAppendLayout => position + length <= 8 * t.size
NewField(t, offset, length, position) ==
  [type |-> t, offset |-> offset, actualOffset |-> offset, length |-> length,
   position |-> position, actualPosition |-> position, value |-> Zero(Bool)]
(* FieldsObject::Add.                                                      *)
AddField(t, offset, length, position) ==
  /\ holder = "class" /\ Len(fields) < MaxFields
  /\ length # 0 => IsBitFieldOf(t, offset, length, position)
  /\ Settle(Append(fields, NewField(t, offset, length, position)))

(* EnumerantsObject::Add: a value is converted to the packing of the enum; *)
(* one that does not fit is refused.  Without one it counts on.            *)
Enumerant(offset, value) ==
  [type |-> NoType, offset |-> offset, actualOffset |-> offset, length |-> 0,
   position |-> AutomaticAppendLayout, actualPosition |-> 0, value |-> value]
Converted(n) == [vt |-> packing, n |-> IF packing = Bool THEN IF n = 0 THEN 0 ELSE -1 ELSE n]
AddValue(n) ==
  /\ holder = "enum" /\ Len(fields) < MaxFields /\ InRange(Converted(n))
  /\ Settle(Append(fields, Enumerant(ConstantValue, Converted(n))))
AddNextValue ==
  /\ holder = "enum" /\ Len(fields) < MaxFields
  /\ Settle(Append(fields, Enumerant(AutomaticIncreaseConstantValue, Zero(Bool))))

(* FieldObject::SetValue: any integer, which is not converted; on an       *)
(* enumerant that counts on the layout overwrites it.                      *)
SetValue(k, value) == holder = "enum" /\ Change(k, [fields[k] EXCEPT !.value = value])

(* InternalSetSymbolOffset: a bit field that is placed by the caller or is *)
(* no longer takes its position along.                                     *)
WithOffset(f, offset) ==
  [f EXCEPT !.offset = offset,
            !.position =
               IF ~IsBitField(f) \/ (offset = AutomaticAppendLayout) = IsAutomaticLayout(f) THEN @
               ELSE IF offset = AutomaticAppendLayout THEN offset ELSE f.actualPosition]
SetSymbolOffset(k, offset) ==
  offset # fields[k].offset /\ Change(k, WithOffset(fields[k], offset))
(* FieldObject::SetIsAutomaticLayout.                                      *)
SetIsAutomaticLayout(k, automatic) ==
  SetSymbolOffset(k,
    CASE holder = "enum" -> IF automatic THEN AutomaticIncreaseConstantValue ELSE ConstantValue
      [] OTHER -> IF automatic THEN AutomaticAppendLayout ELSE fields[k].actualOffset)
(* FieldObject::SetOffset.                                                 *)
SetOffset(k, offset) ==
  holder = "class" /\ ~IsAutomaticLayout(fields[k]) /\ SetSymbolOffset(k, offset)

(* InternalSetBitFieldLength: a position that was given is moved for the   *)
(* bits to fit.  An enumerant has no type.                                 *)
SetBitFieldLength(k, length) ==
  LET f == fields[k]
      last == 8 * f.type.size - length
  IN
  /\ holder = "class" /\ length # f.length
  /\ length # 0 => CanBeBitField(f.type) /\ length <= 8 * f.type.size
  /\ Change(k, [f EXCEPT !.length = length,
                         !.position = IF length = 0 \/ @ = AutomaticAppendLayout \/ @ \in 0 .. last
                                      THEN @ ELSE last])
(* InternalSetBitFieldPosition checks the position, and stores nothing.    *)
SetBitFieldPosition(k, position) ==
  LET f == fields[k] IN
  /\ holder = "class" /\ IsBitField(f) /\ ~IsAutomaticLayout(f) /\ position # f.position
  /\ CanBeBitField(f.type)
  /\ position # AutomaticAppendLayout => position + f.length <= 8 * f.type.size
  /\ Change(k, f)

(* InternalSetSymbolTypeId: whether the bits still fit is not asked.       *)
SetType(k, t) ==
  holder = "class" /\ t # fields[k].type /\ Change(k, [fields[k] EXCEPT !.type = t])

(* MoveToBefore: to the place of another, or behind the last.              *)
MoveToBefore(k, j) ==
  Settle(InsertAt(RemoveAt(fields, k), IF j > k THEN j - 1 ELSE j, fields[k]))
DeleteField(k) == Settle(RemoveAt(fields, k))

FieldsNext ==
  \/ CreateClass \/ AddNextValue
  \/ \E t \in FieldTypes : CreateEnum(t)
  \/ \E t \in FieldTypes, offset \in FieldOffsets \cup {AutomaticAppendLayout},
        length \in BitLengths, position \in BitPositions \cup {AutomaticAppendLayout} :
       AddField(t, offset, length, position)
  \/ \E value \in FieldValues : AddValue(value.n)
  \/ \E k \in DOMAIN fields :
       \/ \E value \in FieldValues : SetValue(k, value)
       \/ \E automatic \in BOOLEAN : SetIsAutomaticLayout(k, automatic)
       \/ \E offset \in FieldOffsets : SetOffset(k, offset)
       \/ \E length \in BitLengths : SetBitFieldLength(k, length)
       \/ \E position \in BitPositions : SetBitFieldPosition(k, position)
       \/ \E t \in FieldTypes : SetType(k, t)
       \/ \E j \in 1 .. Len(fields) + 1 : MoveToBefore(k, j)
       \/ DeleteField(k)

FieldsSpec == FieldsInit /\ [][FieldsNext]_fieldVars

-----------------------------------------------------------------------------
(* Properties.                                                             *)

FieldRecords ==
  [type : FieldTypes \cup {NoType}, offset : Nat \cup {-1, -2, -3},
   actualOffset : Nat \cup {-1, -2, -3}, length : Nat, position : Nat \cup {-1, -2},
   actualPosition : Nat \cup {-1, -2}, value : [vt : OrdinalTypes \cup {Bool}, n : Int]]
(* Every variable has its type.                                            *)
FieldsTypeOK ==
  /\ holder \in {"none", "class", "enum"} /\ packing \in OrdinalTypes \cup {Bool}
  /\ fields \in Seq(FieldRecords) /\ typeSize \in Nat /\ typeAlignment \in Nat \ {0}
  /\ \A k \in DOMAIN fields : InRange(fields[k].value)
  /\ fieldCalls \in 0 .. MaxFieldCalls

(* Where a field is.                                                       *)
Offset(f) == IF IsAutomaticLayout(f) THEN f.actualOffset ELSE f.offset
BitPosition(f) == IF f.position = AutomaticAppendLayout THEN f.actualPosition ELSE f.position
FirstBit(f) == 8 * Offset(f) + (IF IsBitField(f) THEN BitPosition(f) ELSE 0)
EndBit(f) == IF IsBitField(f) THEN FirstBit(f) + f.length ELSE FirstBit(f) + 8 * f.type.size
UnitEnd(f) == Offset(f) + f.type.size

(* The layout chooses a bit field's unit and its place in it, or neither;  *)
(* and it has room in its type.  Neither is asked when the length is set of*)
(* what was no bit field, or the type is changed.                          *)
IsWhole(f) ==
  IsBitField(f) =>
    /\ f.length <= 8 * f.type.size
    /\ IF IsAutomaticLayout(f) THEN f.position = AutomaticAppendLayout
       ELSE f.position \in 0 .. 8 * f.type.size - f.length
IsPlaced(f) == IsAutomaticLayout(f) /\ IsWhole(f)

(* What the layout places is aligned, in its unit and behind what is before*)
(* it, wherever a caller put that.  When it places all, no two overlap and *)
(* the class holds every unit.                                             *)
Apart ==
  /\ \A k \in DOMAIN fields :
       LET f == fields[k] IN
       IsPlaced(f) =>
         /\ Offset(f) % f.type.align = 0 /\ EndBit(f) <= 8 * UnitEnd(f)
         /\ k = 1 \/ IsWhole(fields[k - 1]) => FirstBit(f) >= 8 * Offset(f)
         /\ k > 1 /\ IsWhole(fields[k - 1]) => EndBit(fields[k - 1]) <= FirstBit(f)
  /\ (\A k \in DOMAIN fields : IsPlaced(fields[k])) =>
       /\ \A i, j \in DOMAIN fields : i < j => EndBit(fields[i]) <= FirstBit(fields[j])
       /\ \A k \in DOMAIN fields : UnitEnd(fields[k]) <= typeSize
  /\ typeSize % typeAlignment = 0

(* A field that is taken from the layout stays where it is, and so do all  *)
(* the others; and to lay out again what did not change changes nothing.   *)
Stays ==
  /\ LaidOut(fields) = fields
  /\ \A k \in DOMAIN fields :
       IsPlaced(fields[k]) =>
         LET frozen == [fields EXCEPT ![k] = WithOffset(@, @.actualOffset)] IN
         /\ SizeOf(frozen) = typeSize
         /\ \A i \in DOMAIN fields :
              /\ Offset(LaidOut(frozen)[i]) = Offset(fields[i])
              /\ FirstBit(LaidOut(frozen)[i]) = FirstBit(fields[i])

(* Values count on from the last that was given, in its type and around its*)
(* end, or from zero.                                                      *)
Ahead(value, d) ==
  [value EXCEPT !.n = IF value.vt # Bool THEN Wrapped(value.vt, @ + d)
                      ELSE IF d = 0 THEN @ ELSE -1]
CountsOn(i, j) == \A k \in i .. j : IsIncreasingConstant(fields[k])
CountedOn ==
  /\ \A j \in DOMAIN fields : CountsOn(1, j) => fields[j].value = Ahead(Zero(packing), j - 1)
  /\ \A i, j \in DOMAIN fields :
       i < j /\ ~IsIncreasingConstant(fields[i]) /\ CountsOn(i + 1, j) =>
         fields[j].value = Ahead(fields[i].value, j - i)

FieldsLaidOut ==
  /\ FieldsTypeOK
  /\ holder = "class" => Apart /\ Stays
  /\ holder = "enum" => CountedOn
=============================================================================
