---------------------------- MODULE SomeSymbols ----------------------------
(***************************************************************************)
(* Symbols for a script to create, to search and to import.                *)
(***************************************************************************)
EXTENDS Integers, Sequences

(* Types for the fields of a class and the enumerants of an enum: some that*)
(* bit fields can be of, which differ in size, sign or only in kind, and a *)
(* class whose size is no power of two.  The values are the last but one of*)
(* a signed byte and the last of one without a sign.                       *)
FieldType(name, kind, size, align) ==
  [name |-> name, kind |-> kind, size |-> size, align |-> align]
SomeFieldTypes ==
  {FieldType("char", "signed", 1, 1), FieldType("wchar_t", "unsigned", 2, 2),
   FieldType("bool", "bool", 1, 1), FieldType("s", "other", 3, 1)}

Value(kind, n) == [vt |-> [kind |-> kind, size |-> 1], n |-> n]
SomeFieldValues == {Value("signed", 126), Value("unsigned", 255)}

(* Global symbols of every kind, some of them at addresses they share, and *)
(* what is then searched.  Class f has the name, but not the qualified     *)
(* name, of function N::f.                                                 *)
Definition(kind, name, qualified, offset, size) ==
  [kind |-> kind, name |-> name, qualified |-> qualified, offset |-> offset, size |-> size]

SomeDefinitions ==
  {Definition("function", "f", "N::f", 1, 2), Definition("function", "g", "g", 0, 3),
   Definition("data", "d", "d", 2, 2), Definition("public", "p", "p", 1, 0),
   Definition("udt", "f", "f", 0, 0)}

SomeSearchKinds ==
  {{"udt", "enum", "data", "function", "public", "parameter", "local"}, {"function"},
   {"parameter"}, {"udt", "enum"}}

(* Symbols of a source to import: classes that refer to each other in      *)
(* circles, through pointers, typedefs, arrays and function types.         *)
Entry(tag, name, type, children, at) ==
  [tag |-> tag, name |-> name, type |-> type, children |-> children, at |-> at]
OfType(tag, type) == Entry(tag, <<>>, type, <<>>, 0)

(* The field of class X has the type at index "field", one of those that   *)
(* lead back to X; the last child of class Y, derived from X, is of tag    *)
(* "odd"; data g has the type at index "global".                           *)
Source(field, odd, global) ==
  <<Entry("udt", <<"X">>, 0, <<2, 13>>, 0),        OfType("member", field),
    OfType("pointer", 1),                          Entry("typedef", <<"T">>, 1, <<>>, 0),
    OfType("pointer", 4),                          OfType("array", 3),
    Entry("functionType", <<>>, 3, <<8>>, 0),      OfType("argument", 1),
    OfType("pointer", 7),                          Entry("udt", <<"Y">>, 0, <<12, 11, 14>>, 0),
    OfType("baseClass", 1),                        OfType("member", 15),
    OfType("static", 0),                           OfType(odd, 0),
    Entry("enum", <<"E">>, 16, <<17>>, 0),         Entry("base", <<"int">>, 0, <<>>, 0),
    OfType("constant", 0),                         Entry("function", <<"f">>, 7, <<>>, 1),
    Entry("data", <<"g">>, global, <<>>, 2),       Entry("public", <<"X">>, 0, <<>>, 3)>>

(* In the last one class Y cannot be read to its end.                      *)
SomeSources ==
  {Source(field, "static", 10) : field \in {3, 5, 6, 9}}
    \cup {Source(9, "static", 4), Source(3, "unreadable", 10)}
=============================================================================
