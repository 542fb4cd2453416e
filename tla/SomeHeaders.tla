---------------------------- MODULE SomeHeaders -----------------------------
(***************************************************************************)
(* Headers for HeaderReader: conditionals within each other and within a   *)
(* definition, macros of macros, expressions, structures in structures,    *)
(* bit fields, aliases, enumerants, and what the parser is not up to.      *)
(***************************************************************************)
EXTENDS Integers, Sequences

LOCAL Num(v) == [is |-> "int", v |-> v, s |-> ""]
LOCAL Op(s) == [is |-> "op", v |-> 0, s |-> s]
LOCAL Name(s) == [is |-> "name", v |-> 0, s |-> s]
LOCAL Is(s) == [is |-> "defined", v |-> 0, s |-> s]
LOCAL Other(is) == [is |-> is, v |-> 0, s |-> ""]
LOCAL Paren(tokens) == <<Other("(")>> \o tokens \o <<Other(")")>>

LOCAL Macro(name, to) == [is |-> "define", name |-> name, to |-> to]
LOCAL Ifdef(name) == [is |-> "ifdef", name |-> name]
LOCAL Ifndef(name) == [is |-> "ifndef", name |-> name]
LOCAL If(condition) == [is |-> "if", condition |-> condition]
LOCAL Endif == [is |-> "endif"]
LOCAL Line(is) == [is |-> is]

LOCAL Struct(name) == [is |-> "open", name |-> name, isUnion |-> FALSE, typedef |-> FALSE]
LOCAL Typedef(name) == [is |-> "open", name |-> name, isUnion |-> FALSE, typedef |-> TRUE]
LOCAL Union(name) == [is |-> "open", name |-> name, isUnion |-> TRUE, typedef |-> FALSE]
LOCAL Type(of, stars) == [of |-> of, stars |-> stars]
LOCAL Decl(name, stars) == [name |-> name, stars |-> stars]
LOCAL Field(of, stars, name, dim, bits) ==
  [is |-> "field", type |-> Type(of, stars), name |-> name, dim |-> dim, bits |-> bits]
LOCAL Of(of, name) == Field(of, 0, name, <<>>, -1)
LOCAL Array(of, name, dim) == Field(of, 0, name, dim, -1)
LOCAL Bits(of, name, bits) == Field(of, 0, name, <<>>, bits)
LOCAL Close(names) == [is |-> "close", names |-> names]
LOCAL End == Close(<<>>)
LOCAL Enum(name, enumerants) ==
  [is |-> "enum", name |-> name, typedef |-> TRUE, names |-> <<Decl("KIND", 0)>>, enumerants |-> enumerants]
LOCAL Enumerant(name, to) == [name |-> name, to |-> to]
LOCAL Alias(type, names) == [is |-> "typedef", tag |-> FALSE, type |-> type, names |-> names]

(* One dimension each, of sums, products, comparisons, signs, parentheses. *)
(* None shifts by a negative number or divides by 0.                       *)
LOCAL Tokens == {"+", "-", "*", "<", "=="}
LOCAL AllTokens == Tokens \cup {"/", "%", "<<", ">>", "<=", ">", ">="}
LOCAL Dimensions ==
  {<<Num(3), Op(p[1]), Num(1), Op(p[2]), Num(2)>> : p \in AllTokens \X AllTokens \ {<<"<<", "-">>, <<">>", "-">>}}
    \cup {<<Num(3), Op(a), Num(1), Op(b), Num(2), Op(c), Num(4)>> : a, b, c \in Tokens}
    \cup {<<Num(2), Op(a)>> \o Paren(<<Num(3), Op(b), Num(1)>>) \o <<Op(c), Num(2)>> : a, b, c \in Tokens}
    \cup {<<Op("-"), Num(1), Op(a), Op("!"), Num(0), Op(b), Num(2)>> : a, b \in Tokens}
    \cup {<<Other("sizeof")>>, <<Num(1), Op("+")>>, <<Num(1), Num(2)>>, <<Name("NONE")>>,
          <<Num(1), Op("!="), Num(2)>>, <<[is |-> "bool", v |-> 1, s |-> "true"]>>}
LOCAL Dimensioned == {<<Struct("D"), Array("char", "d", dim), End>> : dim \in Dimensions}

(* Three lines that end a conditional, in each place of nested ones.       *)
LOCAL Conditions == {Ifdef("A"), Ifndef("A"), If(<<Is("A"), Op("=="), Num(0)>>), If(<<Name("B"), Op("<"), Num(2)>>)}
LOCAL Nested ==
  {<<c, Macro("B", <<Num(3)>>), Struct("S"), Of("int", "a"), d, Macro("C", <<Name("B")>>), Of("char", "b"),
     Endif, Of("char", "c"), End, Endif, Ifdef("C"), Struct("T"), Array("char", "d", <<Name("C"), Op("+"), Num(1)>>),
     End, Endif>> : c, d \in Conditions}
    \cup {<<Struct("S"), c, Of("char", "a"), Line("else"), Of("int", "a"), Endif, Of("int", "b"), End>> : c \in Conditions}

(* Types in types.                                                         *)
LOCAL Point == <<Typedef("POINT"), Of("char", "x"), Of("int", "y"), Close(<<Decl("PT", 0), Decl("PPT", 1)>>)>>
LOCAL Pair == <<Struct("PAIR"), Of("short", "u"), Of("short", "v"), End>>
LOCAL Laid ==
  {Pair \o <<Struct("S"), Of("char", "a"), Of("PAIR", "p"), Of("int", "b"), End>>,
   Pair \o <<Struct("S"), Of("char", "a"), Array("PAIR", "p", <<Num(2)>>), Of("int", "b"), End>>,
   Point \o <<Struct("S"), Of("PT", "p"), Of("PPT", "q"), Of("char", "b"), End>>,
   <<Struct("S"), Of("char", "a"), Union(""), Of("int", "w"), Struct(""), Of("short", "l"), Of("short", "h"),
     End, Close(<<Decl("DUMMYUNIONNAME", 0)>>), Of("char", "z"), End>>,
   <<Struct("S"), Bits("int", "a", 12), Bits("int", "", 20), Of("char", "b"), Bits("short", "c", 16), End>>,
   <<Struct("S"), Bits("int", "a", 12), Of("int", "b"), End, Struct("PAIR"), Of("int", "u"), Of("S", "s"), End>>,
   <<Struct("N"), Of("int", "v"), Field("N", 1, "next", <<>>, -1), End>>,
   <<Struct("S"), Field("PAIR", 1, "p", <<Num(2)>>, -1), Of("U", "native"), End>>,
   <<Struct("S"), Of("char", "a"), Array("U", "natives", <<Num(2)>>), Of("char", "b"), Of("U", "u"), End>>}

(* Aliases, structures that have each other's names, enumerants, and       *)
(* headers that fail or hang.                                              *)
LOCAL Crossed ==
  <<Typedef("L"), Of("char", "x"), Close(<<Decl("M", 0)>>), Typedef("M"), Of("char", "y"), Close(<<Decl("L", 0)>>)>>
LOCAL Aliased ==
  {<<Alias(Type("X", 0), <<Decl("Y", 0)>>), Alias(Type("Y", 0), <<Decl("X", 0), Decl("Z", 1)>>),
     Alias(Type("Z", 0), <<Decl("X", 0)>>), Struct("X"), Of("char", "x"), End>>,
   <<Alias(Type("PAIR", 0), <<Decl("X", 0)>>), Line("other")>> \o Pair,
   Crossed, Crossed \o <<Alias(Type("M", 0), <<Decl("N", 0)>>)>>,
   <<Alias(Type("M", 0), <<Decl("L", 0)>>)>> \o Crossed \o <<Struct("S"), Of("L", "l"), End>>,
   <<Enum("E", <<Enumerant("E0", <<Num(3)>>), Enumerant("E1", <<>>), Enumerant("E2", <<Num(0)>>), Enumerant("E3", <<>>)>>),
     Struct("S"), Array("char", "a", <<Name("E1")>>), Of("KIND", "k"), Of("E", "e"), End>>}
LOCAL Failing ==
  {Pair \o <<Struct("S"), Array("PAIR", "p", <<Num(1), Op("<"), Num(2)>>), End>>,
   <<Struct("S"), Of("char", "a"), End, [is |-> "typedef", tag |-> TRUE]>>, <<Struct("S")>>, <<Endif>>, <<Line("else")>>,
   <<Struct("S"), Line("other"), End>>, <<Struct("S"), Of("int", ""), End>>, <<Struct("S"), Close(<<Decl("s", 0)>>)>>,
   <<If(<<Num(1), Num(2)>>), Endif>>, <<Ifdef("X"), Line("elif"), Of("int", "x"), Endif, Line("other")>>,
   <<[Enum("E", <<Enumerant("E0", <<Op("+")>>)>>) EXCEPT !.typedef = FALSE]>>,
   <<Macro("A", <<Name("A")>>), If(<<Name("A")>>), Endif>>,
   <<Macro("A", <<Name("A")>>), Macro("B", <<Name("A")>>)>>,
   <<Macro("A", <<Name("A")>>), Struct("S"), Array("char", "a", <<Name("A")>>), End>>}

PairsOfHeaders == {[one |-> g, two |-> h] : g, h \in Laid \cup Aliased}
SingleHeaders == {[one |-> h] : h \in Dimensioned \cup Nested \cup Failing}
SomeFiles == SingleHeaders \cup PairsOfHeaders
SomeMacroSets == {<<>>, <<[name |-> "A", to |-> <<Num(1)>>]>>}
=============================================================================
