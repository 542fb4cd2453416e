--------------------------- MODULE SyntheticTypes ---------------------------
(***************************************************************************)
(* The synthetic types of SynTypes.js: their sizes and alignments, found   *)
(* when they are first asked for and kept, and where an instance of a type *)
(* has its fields.                                                         *)
(*                                                                         *)
(* A field is [name, of, native, stars, array, bits]: its name, or "" when *)
(* it has none; the type it is of, one of the module's symbols when it is  *)
(* native, with as many stars; how many there are of it, NoArray, or       *)
(* BadArray for a dimension that is no number; and how many bits it has, or*)
(* NoBits.  What the debugger knows of native types is external.           *)
(***************************************************************************)
EXTENDS Integers, SequencesExt, FiniteSetsExt, TLC

CONSTANTS
  PointerSize,
  NativeSizes,   (* The sizes of the types with symbols, and of            *)
  NativeFields   (* structures the types of their fields                   *)

VARIABLES
  types,         (* __syntheticTypes, by their names                       *)
  redefined,     (* The names that were defined again                      *)
  instance       (* The last instance made                                 *)

NoBits == -1
NoArray == -1
BadArray == -2
NoInstance == <<>>
IsBitField(f) == f.bits # NoBits
RoundUp(n, align) == ((n + align - 1) \div align) * align

(* sizeof() of a native type, and __getNativeTypeAlign: arrays have that of*)
(* their elements, structures the widest of their fields.  There is no type*)
(* whose dimension is no number: it aligns to 1, and has no size.          *)
NativeSize(f) ==
  (IF f.stars > 0 THEN PointerSize ELSE NativeSizes[f.of]) * (IF f.array = NoArray THEN 1 ELSE f.array)
RECURSIVE NativeAlign(_)
NativeAlign(name) ==
  IF name \in DOMAIN NativeFields THEN Max({1} \cup {NativeAlign(n) : n \in ToSet(NativeFields[name])})
  ELSE Min({NativeSizes[name], PointerSize})
NativeTypeAlign(f) ==
  IF f.array = BadArray THEN 1 ELSE IF f.stars > 0 THEN PointerSize ELSE NativeAlign(f.of)

(* Results carry the table of types along, with what has been kept in it so*)
(* far: "ok" says that nothing was thrown.  A type that is not defined, or *)
(* one that is reached from itself, by a pointer too, throws.              *)
Throws(ts) == [ok |-> FALSE, ts |-> ts, n |-> 0]
Found(ts, n) == [ok |-> TRUE, ts |-> ts, n |-> n]

(* __getSyntheticTypeAlign, within the types of which it is asked.         *)
RECURSIVE TypeAlign(_, _, _)
FieldAlign(ts, f, within) ==
  IF f.native THEN Found(ts, NativeTypeAlign(f)) ELSE TypeAlign(ts, f.of, within)
Wider(a, b) == [b EXCEPT !.n = Max({a.n, b.n})]
KeepAlign(a, name) ==
  IF a.ok THEN Found([a.ts EXCEPT ![name].align = <<Min({a.n, PointerSize})>>], Min({a.n, PointerSize}))
  ELSE a
TypeAlign(ts, name, within) ==
  IF name \notin DOMAIN ts \/ name \in within THEN Throws(ts)
  ELSE IF ts[name].align # <<>> THEN Found(ts, ts[name].align[1])
  ELSE KeepAlign(FoldLeft(LAMBDA a, f : IF ~a.ok \/ a.n >= PointerSize THEN a
                                        ELSE Wider(a, FieldAlign(a.ts, f, within \cup {name})),
                          Found(ts, 1), ts[name].descriptor), name)

(* __getSyntheticTypeSize: the sizes of the fields without what lies       *)
(* between them, rounded up.  Arrays of a synthetic type and pointers to it*)
(* count as one of it.  Of the bit fields of a unit the first counts.      *)
RECURSIVE TypeSize(_, _, _)
FieldSize(ts, f, within) ==
  IF f.native
  THEN IF f.array = BadArray THEN Throws(ts) ELSE Found(ts, NativeSize(f))
  ELSE TypeSize(ts, f.of, within)

CountedBits(s, f, size) ==
  LET bits == s.curBit + f.bits
  IN IF ~IsBitField(f) THEN [size |-> size, curBit |-> 0, addBit |-> TRUE]
     ELSE [size |-> IF s.addBit THEN size ELSE 0,
           curBit |-> IF bits >= size * 8 THEN 0 ELSE bits, addBit |-> bits >= size * 8]
Counted(s, c, isUnion, field) ==
  [ok |-> field.ok, ts |-> field.ts, curBit |-> c.curBit, addBit |-> c.addBit,
   n |-> IF isUnion THEN Max({s.n, c.size}) ELSE s.n + c.size]
CountField(s, f, isUnion, field) == Counted(s, CountedBits(s, f, field.n), isUnion, field)

(* A definition named "...Wrong" is a plausible bug in the definition that *)
(* follows it; no specification uses it.                                   *)
RoundedWrong(n, align) == n
Rounded(n, align) == RoundUp(n, align)

KeepSize(a, name, sum) ==
  IF a.ok THEN Found([a.ts EXCEPT ![name].size = <<Rounded(sum, a.n)>>], Rounded(sum, a.n)) ELSE a
WithTypeAlign(s, name) == IF s.ok THEN KeepSize(TypeAlign(s.ts, name, {}), name, s.n) ELSE Throws(s.ts)
TypeSize(ts, name, within) ==
  IF name \notin DOMAIN ts \/ name \in within THEN Throws(ts)
  ELSE IF ts[name].size # <<>> THEN Found(ts, ts[name].size[1])
  ELSE WithTypeAlign(
         FoldLeft(LAMBDA s, f : IF ~s.ok THEN s
                                ELSE CountField(s, f, ts[name].isUnion,
                                                FieldSize(s.ts, f, within \cup {name})),
                  [ok |-> TRUE, ts |-> ts, n |-> 0, curBit |-> 0, addBit |-> TRUE],
                  ts[name].descriptor), name)

-----------------------------------------------------------------------------
(* Instances.  The constructor of a class knows its descriptor, and asks   *)
(* for the size by the name.                                               *)

Position(f, at, from) == [at |-> at, from |-> from, bits |-> f.bits]

(* Bit fields share a unit until it is full; only then is it passed.       *)
Unit(c, f, size) ==
  IF ~IsBitField(f) \/ c.unit # 0 THEN [curBit |-> c.curBit, unit |-> c.unit]
  ELSE [curBit |-> 0, unit |-> size]

Advanced(c, f, at, size, isUnion) ==
  LET isFull == c.curBit + f.bits >= c.unit * 8
  IN [c EXCEPT !.at = IF isUnion \/ (IsBitField(f) /\ ~isFull) THEN at ELSE at + size,
               !.curBit = IF ~IsBitField(f) THEN @ ELSE IF isFull THEN 0 ELSE @ + f.bits,
               !.unit = IF IsBitField(f) /\ isFull THEN 0 ELSE @]
InUnit(c, u) == [c EXCEPT !.curBit = u.curBit, !.unit = u.unit]

RECURSIVE Construct(_, _, _, _)
(* The value of a field: an unnamed one gives its fields to the outer one. *)
(* The instance behind a pointer is made as well, wherever it may be.      *)
Named(f, at, from, inner) ==
  [ts |-> inner.ts, fields |-> IF f.name # "" THEN f.name :> Position(f, at, from) ELSE inner.fields]
FieldValue(ts, f, at, from) ==
  IF f.native \/ f.array = 0
  THEN [ts |-> ts, fields |-> f.name :> Position(f, at, from)]
  ELSE Named(f, at, from,
             FoldLeft(LAMBDA r, k : Construct(r.ts, f.of, ts[f.of], at), [ts |-> ts],
                      [k \in 1 .. IF f.array = NoArray THEN 1 ELSE f.array |-> k]))

WithValue(c, value) == [c EXCEPT !.ts = value.ts, !.fields = value.fields @@ @]
PlaceAt(c, f, at, size, isUnion) ==
  Advanced(WithValue(c, FieldValue(c.ts, f, at, c.curBit)), f, at, size, isUnion)
PlaceAligned(c, f, size, align, isUnion) ==
  IF ~align.ok THEN [c EXCEPT !.ok = FALSE, !.ts = align.ts]
  ELSE PlaceAt([InUnit(c, Unit(c, f, size)) EXCEPT !.ts = align.ts], f, RoundUp(c.at, align.n), size, isUnion)
PlaceSized(c, f, size, isUnion) ==
  IF ~size.ok THEN [c EXCEPT !.ok = FALSE, !.ts = size.ts]
  ELSE PlaceAligned(c, f, size.n, IF isUnion THEN Found(size.ts, 1) ELSE FieldAlign(size.ts, f, {}), isUnion)
Place(c, f, isUnion) == PlaceSized(c, f, FieldSize(c.ts, f, {}), isUnion)

PlaceAll(size, definition, addr) ==
  FoldLeft(LAMBDA c, f : IF c.ok THEN Place(c, f, definition.isUnion) ELSE c,
           [ok |-> size.ok, ts |-> size.ts, targetSize |-> size.n, fields |-> <<>>, at |-> addr,
            curBit |-> 0, unit |-> 0],
           definition.descriptor)
Construct(ts, name, definition, addr) == PlaceAll(TypeSize(ts, name, {}), definition, addr)

(* __defineSyntheticType and __defineSyntheticUnion.                       *)
Definition(descriptor, isUnion) ==
  [descriptor |-> descriptor, isUnion |-> isUnion, size |-> <<>>, align |-> <<>>]
Defined(ts, name, definition) == (name :> definition) @@ ts

Made(c, name, definition, addr) ==
  /\ types' = c.ts
  /\ instance' = IF c.ok THEN [of |-> name, definition |-> definition, at |-> addr,
                               size |-> c.targetSize, fields |-> c.fields]
                 ELSE NoInstance
NewInstance(name, definition, addr) == Made(Construct(types, name, definition, addr), name, definition, addr)

-----------------------------------------------------------------------------
(* The layout C gives to a type.                                           *)

RECURSIVE CLayout(_, _), CAlign(_, _), CNativeAlign(_)
CNativeAlign(name) ==
  IF name \in DOMAIN NativeFields THEN Max({CNativeAlign(n) : n \in ToSet(NativeFields[name])})
  ELSE NativeSizes[name]
CFieldAlign(ts, f) ==
  IF f.stars > 0 THEN PointerSize ELSE IF f.native THEN CNativeAlign(f.of) ELSE CAlign(ts, ts[f.of])
CAlign(ts, definition) == Max({1} \cup {CFieldAlign(ts, f) : f \in ToSet(definition.descriptor)})
CSize(ts, definition) == RoundUp(CLayout(ts, definition).end, CAlign(ts, definition))
CFieldSize(ts, f) ==
  (IF f.stars > 0 THEN PointerSize ELSE IF f.native THEN NativeSizes[f.of] ELSE CSize(ts, ts[f.of]))
    * (IF f.array = NoArray THEN 1 ELSE f.array)

(* Bits that are left in a unit go to the next field if it is one of bits  *)
(* of a unit of that size, and they suffice.  "full" says that none were   *)
(* lost, and "sum" is the size without what lies between the fields.       *)
Joins(l, f, size, isUnion) == IsBitField(f) /\ l.left >= f.bits /\ l.unit = size /\ ~isUnion
LaidAt(l, f, size, start, from, inner) ==
  [at |-> start, end |-> Max({l.end, start + size}), unit |-> size,
   sum |-> IF from > 0 THEN l.sum ELSE l.sum + size,
   left |-> IF ~IsBitField(f) THEN 0 ELSE size * 8 - from - f.bits,
   full |-> l.full /\ (from > 0 \/ l.left = 0) /\ f.bits <= size * 8,
   fields |-> (IF f.name # "" THEN f.name :> Position(f, start, from)
               ELSE [n \in DOMAIN inner.fields |-> [inner.fields[n] EXCEPT !.at = @ + start]]) @@ l.fields]
Laid(ts, l, f, size, isUnion) ==
  LET joins == Joins(l, f, size, isUnion)
      inner == IF f.name # "" THEN <<>> ELSE CLayout(ts, ts[f.of])
  IN LaidAt(l, f, size,
            IF joins THEN l.at ELSE RoundUp(IF isUnion THEN 0 ELSE l.end, CFieldAlign(ts, f)),
            IF joins THEN size * 8 - l.left ELSE 0, inner)
CLayout(ts, definition) ==
  FoldLeft(LAMBDA l, f : Laid(ts, l, f, CFieldSize(ts, f), definition.isUnion),
           [at |-> 0, end |-> 0, unit |-> 0, sum |-> 0, left |-> 0, full |-> TRUE, fields |-> <<>>],
           definition.descriptor)

Held(definition) == {f \in ToSet(definition.descriptor) : ~f.native}
RECURSIVE Within(_, _)
Within(ts, names) ==
  LET all == names \cup UNION {{f.of : f \in Held(ts[n])} : n \in names \cap DOMAIN ts}
  IN IF all = names THEN names ELSE Within(ts, all)
Inner(ts, definition) == Within(ts, {f.of : f \in Held(definition)})

(* Types that hold each other as they are, with their units of bits full.  *)
IsPlain(ts, definition) ==
  /\ \A f \in Held(definition) : f.stars = 0 /\ f.array = NoArray
  /\ \E l \in {CLayout(ts, definition)} : l.full /\ (definition.isUnion \/ l.left = 0)
HasNoHole(ts, definition) ==
  definition.isUnion \/ RoundUp(CLayout(ts, definition).sum, CAlign(ts, definition)) = CSize(ts, definition)

(* SynTypes.js lines 15-19: the fields of an instance lie where C has them,*)
(* as long as the types within are plain, have no room between their fields*)
(* and were not defined again; and if the type has none itself, the size is*)
(* C's.  With such room the size is too small, and an array of synthetic   *)
(* types is passed as one.                                                 *)
FieldsAsC(layout, align) ==
  instance.at % align = 0 =>
    instance.fields = [n \in DOMAIN layout.fields |-> [layout.fields[n] EXCEPT !.at = @ + instance.at]]
SizeAsC ==
  HasNoHole(types, instance.definition) => instance.size = CSize(types, instance.definition)
AreAsWritten(names) ==
  /\ names \cap redefined = {} /\ instance.of \notin redefined
  /\ IsPlain(types, instance.definition)
  /\ \A n \in names : IsPlain(types, types[n]) /\ HasNoHole(types, types[n])
LayoutAsC ==
  instance # NoInstance /\ AreAsWritten(Inner(types, instance.definition)) =>
    /\ FieldsAsC(CLayout(types, instance.definition), CAlign(types, instance.definition))
    /\ SizeAsC
=============================================================================
