---------------------------- MODULE HeaderReader ----------------------------
(***************************************************************************)
(* The header parser of SynTypes.js and the calls of the script: headers   *)
(* are read line by line, through the preprocessor and the parser, into    *)
(* the types, the aliases and the table of the header, and instances are   *)
(* made of what has been read.  The types and aliases are the script's, not*)
(* the header's.                                                           *)
(*                                                                         *)
(* A line is a directive, the beginning or the end of a definition, a field*)
(* or a declaration, in the form the tokenizer and the parser take it apart*)
(* into; expressions are sequences of tokens [is, v, s].  Macros stand for *)
(* expressions, or for nothing: only in these, and in the names behind a   *)
(* definition, do lines have the names of macros.                          *)
(***************************************************************************)
EXTENDS SyntheticTypes

CONSTANTS
  Files,           (* The files there may be: functions of paths           *)
  Symbols,         (* The names that the module has symbols for            *)
  StartingMacros,  (* The sets of macros a caller gives                    *)
  Addresses, MaxCalls

VARIABLES
  file,       (* What is on the disk                                       *)
  aliases,    (* __typeAliases                                             *)
  tables,     (* __typeTables                                              *)
  uniqueId,
  call,       (* The call of ReadHeader: its parser, its table             *)
  calls

readerVars == <<types, redefined, instance, file, aliases, tables, uniqueId, call, calls>>

NoCall == [state |-> "none"]

-----------------------------------------------------------------------------
(* Expressions.  The operators and what binds tighter.                     *)

Precedence(op, unary) ==
  CASE unary -> 14
    [] ~unary /\ op \in {"*", "/", "%"} -> 12
    [] ~unary /\ op \in {"+", "-"} -> 11
    [] ~unary /\ op \in {"<<", ">>"} -> 10
    [] ~unary /\ op \in {"<", "<=", ">", ">="} -> 9
    [] ~unary /\ op \in {"==", "!="} -> 8
    [] ~unary /\ op \in {"&&", "||"} -> 3
IsOperator(op, unary) ==
  op \in IF unary THEN {"-", "!"}
         ELSE {"*", "/", "%", "+", "-", "<<", ">>", "<", "<=", ">", ">=", "==", "!=", "&&", "||"}

(* Values are numbers n / d, or booleans, which count as 1 and 0.  No      *)
(* header here divides by 0, or shifts out of 32 bits.                     *)
Number(n) == [n |-> n, d |-> 1, bool |-> FALSE]
Truth(b) == [n |-> IF b THEN 1 ELSE 0, d |-> 1, bool |-> TRUE]
NoNumber == [n |-> 0, d |-> 0, bool |-> FALSE]
Fraction(n, d) ==
  IF d = 0 THEN NoNumber
  ELSE IF d < 0 THEN [n |-> -n, d |-> -d, bool |-> FALSE] ELSE [n |-> n, d |-> d, bool |-> FALSE]
IsTrue(a) == a.n # 0

Abs(n) == IF n < 0 THEN -n ELSE n
Remainder(a, b) == IF a < 0 THEN -(Abs(a) % Abs(b)) ELSE a % Abs(b)
Quotient(a, b) == IF (a < 0) = (b < 0) THEN Abs(a) \div Abs(b) ELSE -(Abs(a) \div Abs(b))
Truncated(a) == IF a.d = 0 THEN 0 ELSE Quotient(a.n, a.d)

(* A quotient is not rounded.  The tokens "&&" and "||" stand for each     *)
(* other's operators, and these give one of their operands.                *)
Binary(op, a, b) ==
  LET l == a.n * b.d
      r == b.n * a.d
      d == a.d * b.d
      power == 2 ^ (Truncated(b) % 32)
  IN CASE op = "*" -> Fraction(a.n * b.n, d)
       [] op = "/" -> IF d = 0 THEN NoNumber ELSE Fraction(l, r)
       [] op = "%" -> IF r = 0 THEN NoNumber ELSE Fraction(Remainder(l, r), d)
       [] op = "+" -> Fraction(l + r, d)
       [] op = "-" -> Fraction(l - r, d)
       [] op = "<<" -> Number(Truncated(a) * power)
       [] op = ">>" -> Number(Truncated(a) \div power)
       [] op = "<" -> Truth(d # 0 /\ l < r)
       [] op = "<=" -> Truth(d # 0 /\ l <= r)
       [] op = ">" -> Truth(d # 0 /\ l > r)
       [] op = ">=" -> Truth(d # 0 /\ l >= r)
       [] op = "==" -> Truth(d # 0 /\ l = r)
       [] op = "&&" -> IF IsTrue(a) THEN a ELSE b
       [] op = "||" -> IF IsTrue(a) THEN b ELSE a
Unary(op, a) == IF op = "-" THEN Fraction(-a.n, a.d) ELSE Truth(~IsTrue(a))

(* __evaluateStack: what is pending, from the right; <<>> when it throws.  *)
(* "!=" is not carried out: it names a variable that does not exist.       *)
RECURSIVE EvaluateStack(_, _)
EvaluateStack(vals, ops) ==
  LET n == Len(vals)
      op == Last(ops)
  IN IF ops = <<>> THEN IF n = 1 THEN vals ELSE <<>>
     ELSE IF n = 0 THEN <<>>
     ELSE IF op.unary THEN EvaluateStack(Append(Front(vals), Unary(op.s, vals[n])), Front(ops))
     ELSE IF n = 1 \/ op.s = "!=" THEN <<>>
     ELSE EvaluateStack(Append(SubSeq(vals, 1, n - 2), Binary(op.s, vals[n - 1], vals[n])), Front(ops))

(* __evaluateUntil, and macroConditionEval when there are macros: from the *)
(* token at i, to a token that has no place there.  The size that sizeof() *)
(* comes to is not pushed.  An operator that does not bind tighter than the*)
(* last one has all that is pending evaluated.                             *)
Begun(i) == [i |-> i, vals |-> <<>>, ops |-> <<>>, last |-> 0, operand |-> TRUE, state |-> "open"]
Value(e, v, n) == [e EXCEPT !.vals = Append(@, v), !.i = @ + n, !.operand = FALSE]
Stop(e) == [e EXCEPT !.state = "stopped"]
Throw(e) == [e EXCEPT !.state = "thrown"]

Pending(e, precedence) ==
  IF precedence <= e.last THEN [vals |-> EvaluateStack(e.vals, e.ops), ops |-> <<>>]
  ELSE [vals |-> e.vals, ops |-> e.ops]

Operator(e, op) ==
  LET precedence == Precedence(op, e.operand)
      p == Pending(e, precedence)
  IN IF p.vals = <<>> /\ precedence <= e.last THEN Throw(e)
     ELSE [e EXCEPT !.vals = p.vals, !.ops = Append(p.ops, [s |-> op, unary |-> e.operand]),
                    !.last = precedence, !.i = @ + 1, !.operand = TRUE]

RECURSIVE EvaluateFrom(_, _, _, _)
Step(e, tokens, known, isCondition) ==
  LET t == tokens[e.i]
  IN CASE t.is \in {"int", "sizeof", "("} /\ ~e.operand -> Throw(e)
       [] t.is = "int" /\ e.operand -> Value(e, Number(t.v), 1)
       [] t.is = "bool" -> Value(e, Truth(t.v = 1), 1)
       [] t.is = "sizeof" /\ e.operand -> IF isCondition THEN Stop(e) ELSE [e EXCEPT !.i = @ + 1, !.operand = FALSE]
       [] t.is = "(" /\ e.operand ->
            LET r == EvaluateFrom(Begun(e.i + 1), tokens, known, isCondition)
            IN IF r.vals = <<>> \/ r.i > Len(tokens) \/ tokens[r.i].is # ")" THEN Throw(e)
               ELSE [e EXCEPT !.vals = Append(@, r.vals[1]), !.i = r.i + 1, !.operand = FALSE]
       [] t.is = "defined" ->
            IF ~isCondition THEN Stop(e) ELSE IF ~e.operand THEN Throw(e)
            ELSE Value(e, Truth(t.s \in DOMAIN known /\ known[t.s] # <<>>), 1)
       [] t.is = "name" /\ isCondition -> Value(e, Number(0), 1)
       [] t.is = "name" /\ ~isCondition ->
            IF ~e.operand THEN Throw(e) ELSE IF t.s \in DOMAIN known THEN Value(e, known[t.s], 1) ELSE Stop(e)
       [] t.is = "op" /\ IsOperator(t.s, e.operand) -> Operator(e, t.s)
       [] OTHER -> Stop(e)
EvaluateFrom(e, tokens, known, isCondition) ==
  IF e.state = "thrown" THEN [e EXCEPT !.vals = <<>>]
  ELSE IF e.state = "stopped" \/ e.i > Len(tokens) \/ tokens[e.i].is = ")"
  THEN [e EXCEPT !.vals = EvaluateStack(e.vals, e.ops)]
  ELSE EvaluateFrom(Step(e, tokens, known, isCondition), tokens, known, isCondition)

(* What stops the evaluation of a constant is to be what follows it.       *)
Condition(tokens, macros) == EvaluateFrom(Begun(1), tokens, macros, TRUE).vals
Constant(tokens, enumerants) ==
  LET e == EvaluateFrom(Begun(1), tokens, enumerants, FALSE)
  IN IF e.i <= Len(tokens) THEN <<>> ELSE e.vals

-----------------------------------------------------------------------------
(* Macros: a sequence of [name, to], in the order they were first defined. *)

NameToken(name) == [is |-> "name", v |-> 0, s |-> name]
Uses(tokens, name) == \E i \in DOMAIN tokens : tokens[i].is = "name" /\ tokens[i].s = name
Replaced(tokens, macro) ==
  FlattenSeq([i \in DOMAIN tokens |-> IF tokens[i].is = "name" /\ tokens[i].s = macro.name
                                      THEN macro.to ELSE <<tokens[i]>>])

(* performMacroSubstitution: each macro in its turn, as long as it occurs, *)
(* so that one which is defined by itself is replaced without end.  What is*)
(* in defined() is left alone.                                             *)
Substitution(tokens, macros) ==
  FoldLeft(LAMBDA r, m : IF ~r.ends \/ ~Uses(r.tokens, m.name) THEN r
                         ELSE IF Uses(m.to, m.name) THEN [r EXCEPT !.ends = FALSE]
                         ELSE [r EXCEPT !.tokens = Replaced(@, m)],
           [ends |-> TRUE, tokens |-> tokens], macros)

IsMacro(macros, name) == \E i \in DOMAIN macros : macros[i].name = name
ByName(macros) ==
  [n \in {macros[i].name : i \in DOMAIN macros} |->
     (CHOOSE m \in ToSet(macros) : m.name = n).to]

(* defineMacro.                                                            *)
WithMacro(macros, macro) ==
  IF IsMacro(macros, macro.name)
  THEN [i \in DOMAIN macros |-> IF macros[i].name = macro.name THEN macro ELSE macros[i]]
  ELSE Append(macros, macro)

PredefinedMacros == <<[name |-> "DUMMYUNIONNAME", to |-> <<>>]>>
WithStartingMacros(given) ==
  FoldLeft(WithMacro, PredefinedMacros, given)

-----------------------------------------------------------------------------
(* ReadHeader, and the line the parser is at.                              *)

Init ==
  /\ file \in Files
  /\ types = <<>> /\ redefined = {} /\ instance = NoInstance
  /\ aliases = <<>> /\ tables = <<>> /\ uniqueId = 0
  /\ call = NoCall /\ calls = 0

(* The script runs on one thread: a call that hangs is the last.           *)
Between == call.state \notin {"reading", "hung"} /\ calls < MaxCalls

(* A table of that path is returned, whatever macros are given this time.  *)
ReadHeader ==
  /\ Between /\ calls' = calls + 1
  /\ \E path \in DOMAIN file, given \in StartingMacros :
       call' = IF \E i \in DOMAIN tables : tables[i].path = path THEN [state |-> "returned"]
               ELSE [state |-> "reading", path |-> path, given |-> given, at |-> 1,
                     macros |-> WithStartingMacros(given), conditionals |-> <<>>,
                     open |-> <<>>, enumerants |-> <<>>, own |-> <<>>]
  /\ UNCHANGED <<types, redefined, instance, file, aliases, tables, uniqueId>>

Lines == file[call.path]
Reading == call.state = "reading"
IsLine(is) == Reading /\ call.at <= Len(Lines) /\ Lines[call.at].is = is
Line == Lines[call.at]
InScope == \A i \in DOMAIN call.conditionals : i = Len(call.conditionals) => call.conditionals[i]

Kept == UNCHANGED <<file, tables, calls, instance>>
KeptTypes == UNCHANGED <<types, redefined, aliases, uniqueId>>
OnWith(c) == call' = [c EXCEPT !.at = @ + 1]
(* An exception is passed on when the file has been closed; what was       *)
(* defined stays.                                                          *)
HeaderFails(why) == call' = [state |-> why] /\ Kept /\ KeptTypes

Push(v) == OnWith([call EXCEPT !.conditionals = Append(@, v)]) /\ Kept /\ KeptTypes

Define ==
  /\ IsLine("define")
  /\ LET s == Substitution(Line.to, call.macros)
     IN IF ~InScope THEN OnWith(call) /\ Kept /\ KeptTypes
        ELSE IF ~s.ends THEN HeaderFails("hung")
        ELSE /\ OnWith([call EXCEPT !.macros = WithMacro(@, [name |-> Line.name, to |-> s.tokens])])
             /\ Kept /\ KeptTypes

Ifdef == IsLine("ifdef") /\ Push(InScope /\ IsMacro(call.macros, Line.name))
Ifndef == IsLine("ifndef") /\ Push(InScope /\ ~IsMacro(call.macros, Line.name))

If ==
  /\ IsLine("if")
  /\ LET s == Substitution(Line.condition, call.macros)
         v == Condition(s.tokens, ByName(call.macros))
     IN IF ~InScope THEN Push(FALSE)
        ELSE IF ~s.ends THEN HeaderFails("hung")
        ELSE IF v = <<>> THEN HeaderFails("failed")
        ELSE Push(IsTrue(v[1]))

Endif ==
  /\ IsLine("endif")
  /\ IF call.conditionals = <<>> THEN HeaderFails("failed")
     ELSE OnWith([call EXCEPT !.conditionals = Front(@)]) /\ Kept /\ KeptTypes

(* Behind a condition that does not hold no "#else" is heeded.             *)
Else ==
  /\ IsLine("else")
  /\ IF InScope /\ call.conditionals = <<>> THEN HeaderFails("failed")
     ELSE /\ OnWith([call EXCEPT !.conditionals = IF InScope THEN Append(Front(@), FALSE) ELSE @])
          /\ Kept /\ KeptTypes

(* Lines out of scope, and other directives.                               *)
Passed ==
  /\ \/ IsLine("elif")
     \/ Reading /\ ~InScope /\ \E is \in {"open", "field", "close", "enum", "typedef", "other"} : IsLine(is)
  /\ OnWith(call) /\ Kept /\ KeptTypes

-----------------------------------------------------------------------------
(* The parser.                                                             *)

Taken(is) == IsLine(is) /\ InScope
InDefinition == Reading /\ call.open # <<>>

(* __resolveTypeName: an alias is a name, or one with stars, where it ends.*)
(* Aliases that lead to each other in a circle are followed without end.   *)
Endless == [of |-> "endless", stars |-> 0]
RECURSIVE Resolved(_, _, _)
Resolved(type, as, passed) ==
  IF type.stars > 0 \/ type.of \notin DOMAIN as THEN type
  ELSE IF type.of \in passed THEN Endless
  ELSE Resolved(as[type.of], as, passed \cup {type.of})
ResolveTypeName(type, as) == Resolved(type, as, {})

CompilerTypes == {"char", "short", "int"}
(* readTypeName, for a name with stars.                                    *)
ReadTypeName(type) ==
  LET r == ResolveTypeName([of |-> type.of, stars |-> 0], aliases)
  IN IF type.of \in CompilerTypes THEN type
     ELSE IF r = Endless THEN Endless ELSE [of |-> r.of, stars |-> r.stars + type.stars]
IsSynthetic(name) == name.of \notin CompilerTypes \cup Symbols

UniqueName(prefix) == "__UNNAMED_" \o prefix \o "_" \o ToString(uniqueId)

(* readContents.                                                           *)
Open ==
  /\ Taken("open")
  /\ LET name == IF Line.name = "" THEN UniqueName("TYPE") ELSE Line.name
     IN OnWith([call EXCEPT !.open = Append(@, [name |-> name, isUnion |-> Line.isUnion,
                                                typedef |-> Line.typedef, fields |-> <<>>,
                                                line |-> call.at])])
  /\ uniqueId' = IF Line.name = "" THEN uniqueId + 1 ELSE uniqueId
  /\ UNCHANGED <<types, redefined, aliases>> /\ Kept

WithField(c, field) == [c EXCEPT !.open[Len(c.open)].fields = Append(@, field)]

(* addField and __preprocessTypeDescriptor: with both, stars stay part of  *)
(* the name of a synthetic type, which is then that of no type.            *)
FieldOf(name, type, array, bits) ==
  [name |-> name, native |-> ~IsSynthetic(type), array |-> array, bits |-> bits, line |-> call.at,
   of |-> IF IsSynthetic(type) /\ array # NoArray /\ type.stars > 0 THEN type.of \o "*" ELSE type.of,
   stars |-> type.stars]

(* A dimension becomes the text of the type: "-1", "true" and "1.5" are of *)
(* no type that there is.                                                  *)
ArrayOf(value) ==
  IF value.bool \/ value.d = 0 \/ value.n < 0 THEN BadArray
  ELSE IF value.n % value.d # 0 THEN BadArray ELSE value.n \div value.d

AddField ==
  /\ Taken("field") /\ InDefinition
  /\ LET s == Substitution(Line.dim, call.macros)
         dim == IF Line.dim = <<>> THEN <<>> ELSE Constant(s.tokens, call.enumerants)
         name == IF Line.name = "" THEN UniqueName("FIELD") ELSE Line.name
         type == ReadTypeName(Line.type)
         array == IF Line.dim = <<>> THEN NoArray ELSE ArrayOf(dim[1])
     IN IF type = Endless \/ ~s.ends THEN HeaderFails("hung")
        ELSE IF dim = <<>> /\ (Line.dim # <<>> \/ (Line.name = "" /\ Line.bits = NoBits))
        THEN HeaderFails("failed")
        ELSE /\ OnWith(WithField(call, FieldOf(name, type, array, Line.bits)))
             /\ uniqueId' = IF Line.name = "" THEN uniqueId + 1 ELSE uniqueId
             /\ UNCHANGED <<types, redefined, aliases>> /\ Kept

(* The names behind a definition, without those of empty macros.           *)
Declarators ==
  SelectSeq(Line.names, LAMBDA d : ~IsMacro(call.macros, d.name))

(* typedef: a name for itself is not entered.                              *)
WithAliases(as, type, names) ==
  FoldLeft(LAMBDA a, d : LET target == [of |-> type.of, stars |-> type.stars + d.stars]
                         IN IF target = [of |-> d.name, stars |-> 0] THEN a ELSE (d.name :> target) @@ a,
           as, names)

(* The end of a structure or union: its type is defined, and then it is the*)
(* type of a field, one with names, or one of its own.  A synthetic type   *)
(* with a dimension that is no number throws.                              *)
IsDefinable(fields) == \A f \in ToSet(fields) : f.native \/ f.array # BadArray
DefineOpen ==
  LET top == Last(call.open)
  IN /\ IsDefinable(top.fields)
     /\ types' = Defined(types, top.name, Definition(top.fields, top.isUnion))
     /\ redefined' = IF top.name \in DOMAIN types THEN redefined \cup {top.name} ELSE redefined

AfterClose ==
  LET top == Last(call.open)
  IN [call EXCEPT !.open = Front(@),
        !.own = Append(@, [name |-> top.name, line |-> top.line,
                           definition |-> Definition(top.fields, top.isUnion)])]

CloseFails ==
  /\ Taken("close") /\ InDefinition
  /\ ~IsDefinable(Last(call.open).fields) /\ HeaderFails("failed")

(* A definition named "...Wrong" is a plausible bug in the definition that *)
(* follows it; no specification uses it.                                   *)
CloseWrong ==
  /\ Taken("close") /\ InDefinition
  /\ DefineOpen /\ UNCHANGED uniqueId /\ Kept
  /\ OnWith(AfterClose) /\ UNCHANGED aliases
Close ==
  /\ Taken("close") /\ InDefinition
  /\ DefineOpen /\ UNCHANGED uniqueId /\ Kept
  /\ LET top == Last(call.open)
         names == Declarators
         type == [of |-> top.name, stars |-> 0]
         field == FieldOf(IF names = <<>> THEN "" ELSE names[1].name, type, NoArray, NoBits)
     IN CASE Len(call.open) > 1 /\ Len(names) <= 1 ->
               OnWith(WithField(AfterClose, field)) /\ UNCHANGED aliases
          [] Len(call.open) = 1 /\ top.typedef ->
               OnWith(AfterClose) /\ aliases' = WithAliases(aliases, type, names)
          [] Len(call.open) = 1 /\ ~top.typedef /\ names = <<>> ->
               OnWith(AfterClose) /\ UNCHANGED aliases
          [] OTHER -> call' = [state |-> "failed"] /\ UNCHANGED aliases

(* readEnumerant: what follows 0 is 0 again.                               *)
NextEnumerant(values) ==
  IF values = <<>> THEN Number(0)
  ELSE IF ~IsTrue(Last(values)) THEN Number(0) ELSE Binary("+", Last(values), Number(1))
EnumerantValues(enumerants, known) ==
  FoldLeft(LAMBDA r, e :
             LET s == Substitution(e.to, call.macros)
                 v == IF e.to = <<>> THEN <<NextEnumerant(r.values)>>
                      ELSE IF ~s.ends THEN <<>> ELSE Constant(s.tokens, r.known)
             IN IF ~r.ok \/ v = <<>> THEN [r EXCEPT !.ok = FALSE]
                ELSE [ok |-> TRUE, values |-> Append(r.values, v[1]), known |-> (e.name :> v[1]) @@ r.known],
           [ok |-> TRUE, values |-> <<>>, known |-> known], enumerants)

(* readEnum: the name is an alias of the int.                              *)
ReadEnum ==
  /\ Taken("enum") /\ ~InDefinition
  /\ LET r == EnumerantValues(Line.enumerants, call.enumerants)
         int == [of |-> "int", stars |-> 0]
     IN IF ~r.ok \/ (~Line.typedef /\ Line.names # <<>>) THEN HeaderFails("failed")
        ELSE /\ OnWith([call EXCEPT !.enumerants = r.known])
             /\ aliases' = WithAliases((Line.name :> int) @@ aliases, [of |-> Line.name, stars |-> 0],
                                       Line.names)
             /\ UNCHANGED <<types, redefined, uniqueId>> /\ Kept

(* "typedef struct FOO FOO;" is taken for a definition.                    *)
ReadTypedef ==
  /\ Taken("typedef") /\ ~InDefinition
  /\ IF Line.tag THEN HeaderFails("failed")
     ELSE IF ReadTypeName(Line.type) = Endless THEN HeaderFails("hung")
     ELSE /\ OnWith(call)
          /\ aliases' = WithAliases(aliases, ReadTypeName(Line.type), Line.names)
          /\ UNCHANGED <<types, redefined, uniqueId>> /\ Kept

(* What else there is outside of definitions is passed over; within one,   *)
(* nothing but fields and definitions has a place.                         *)
OtherLine ==
  /\ \/ /\ ~InDefinition /\ \E is \in {"field", "close", "other"} : Taken(is)
        /\ OnWith(call) /\ Kept /\ KeptTypes
     \/ InDefinition /\ (\E is \in {"enum", "typedef", "other"} : Taken(is)) /\ HeaderFails("failed")

(* The end of the file: a table is kept of a header that was read.         *)
EndOfFile ==
  /\ Reading /\ call.at > Len(Lines)
  /\ IF InDefinition THEN HeaderFails("failed")
     ELSE /\ tables' = Append(tables, [path |-> call.path, given |-> call.given, types |-> call.own])
          /\ call' = [state |-> "read"]
          /\ UNCHANGED <<file, calls, instance>> /\ KeptTypes

-----------------------------------------------------------------------------
(* CreateInstance takes one alias; Make is the constructor of a table.     *)

Instances == UNCHANGED <<file, aliases, tables, uniqueId, call, redefined>> /\ calls' = calls + 1
CreateInstance ==
  /\ Between /\ Instances
  /\ \E name \in DOMAIN types \cup DOMAIN aliases, addr \in Addresses :
       LET type == IF name \in DOMAIN aliases THEN aliases[name] ELSE [of |-> name, stars |-> 0]
       IN /\ type.stars = 0 /\ type.of \in DOMAIN types
          /\ NewInstance(type.of, types[type.of], addr)
Make ==
  /\ Between /\ Instances
  /\ \E i \in DOMAIN tables : \E j \in DOMAIN tables[i].types, addr \in Addresses :
       NewInstance(tables[i].types[j].name, tables[i].types[j].definition, addr)

Next ==
  \/ ReadHeader \/ Define \/ Ifdef \/ Ifndef \/ If \/ Endif \/ Else \/ Passed
  \/ Open \/ AddField \/ Close \/ CloseFails \/ ReadEnum \/ ReadTypedef \/ OtherLine \/ EndOfFile
  \/ CreateInstance \/ Make

Spec == Init /\ [][Next]_readerVars

-----------------------------------------------------------------------------
(* What a header says in C.                                                *)

Operators(tokens) ==
  {i \in DOMAIN tokens : tokens[i].is = "op"}
IsUnary(tokens, i) == i = 1 \/ tokens[i - 1].is \in {"op", "("}
Inside(tokens, i) ==
  {j \in 1 .. i - 1 : /\ tokens[j].is = "("
                      /\ \A k \in j .. i - 1 :
                           Cardinality({m \in j .. k : tokens[m].is = "("})
                             > Cardinality({m \in j .. k : tokens[m].is = ")"})}
Outermost(tokens) == {i \in Operators(tokens) : Inside(tokens, i) = {} /\ ~IsUnary(tokens, i)}

CBinary(op, a, b) ==
  LET truth(t) == IF t THEN 1 ELSE 0
  IN CASE op = "*" -> a * b
       [] op = "%" -> Remainder(a, b)
       [] op = "+" -> a + b
       [] op = "-" -> a - b
       [] op = "<<" -> a * 2 ^ b
       [] op = ">>" -> a \div 2 ^ b
       [] op = "<" -> truth(a < b)
       [] op = "<=" -> truth(a <= b)
       [] op = ">" -> truth(a > b)
       [] op = ">=" -> truth(a >= b)
       [] op = "==" -> truth(a = b)
CUnary(op, a) == IF op = "-" THEN -a ELSE IF a = 0 THEN 1 ELSE 0
LastInC(tokens) ==
  LET of(i) == Precedence(tokens[i].s, FALSE)
  IN CHOOSE i \in Outermost(tokens) :
       \A j \in Outermost(tokens) : of(i) < of(j) \/ (of(i) = of(j) /\ j <= i)

RECURSIVE CValue(_), IsTruth(_)
CValue(tokens) ==
  LET last == LastInC(tokens)
      n == Len(tokens)
  IN IF Outermost(tokens) # {}
     THEN CBinary(tokens[last].s, CValue(SubSeq(tokens, 1, last - 1)), CValue(SubSeq(tokens, last + 1, n)))
     ELSE IF tokens[1].is = "op" THEN CUnary(tokens[1].s, CValue(Tail(tokens)))
     ELSE IF tokens[1].is = "(" THEN CValue(SubSeq(tokens, 2, n - 1))
     ELSE tokens[1].v
(* Whether it is the value of a comparison, a "!" or a "true".             *)
IsTruth(tokens) ==
  IF Outermost(tokens) # {} THEN tokens[LastInC(tokens)].s \in {"<", "<=", ">", ">=", "=="}
  ELSE IF tokens[1].is = "op" THEN tokens[1].s = "!"
  ELSE IF tokens[1].is = "(" THEN IsTruth(SubSeq(tokens, 2, Len(tokens) - 1))
  ELSE tokens[1].is = "bool"

(* No operator but the last, within its parentheses, binds tighter than one*)
(* before it; and there are no others than these.                          *)
IsSimple(tokens) ==
  LET ops == Operators(tokens)
      of(i) == Precedence(tokens[i].s, IsUnary(tokens, i))
  IN /\ \A i, j, k \in ops : i < j /\ j < k /\ Inside(tokens, i) = Inside(tokens, j)
                               /\ Inside(tokens, j) = Inside(tokens, k) => of(i) >= of(j)
     /\ \A i \in ops : tokens[i].s \in {"+", "-", "*", "%", "<<", ">>", "<", "<=", ">", ">=", "==", "!"}
     /\ \A i \in DOMAIN tokens : tokens[i].is # "sizeof"

(* The conditionals a line is in, and what C makes of them.                *)
Conditionals == {"if", "ifdef", "ifndef"}
Around(h, i) ==
  {j \in 1 .. i - 1 : /\ h[j].is \in Conditionals
                      /\ \A k \in j .. i - 1 :
                           Cardinality({m \in j .. k : h[m].is \in Conditionals})
                             > Cardinality({m \in j .. k : h[m].is = "endif"})}
Given(t) == ToSet(PredefinedMacros) \cup ToSet(t.given)
RECURSIVE IsTakenInC(_, _, _), Expanded(_, _, _, _)
MacrosAt(h, t, i) ==
  Given(t) \cup {[name |-> h[j].name, to |-> h[j].to] :
                   j \in {k \in 1 .. i - 1 : h[k].is = "define" /\ IsTakenInC(h, t, k)}}
Expanded(h, t, i, tokens) ==
  LET used == {m \in MacrosAt(h, t, i) : Uses(tokens, m.name)}
  IN IF used = {} THEN tokens
     ELSE Expanded(h, t, i, FoldSet(LAMBDA m, r : Replaced(r, m), tokens, used))
IsTakenInC(h, t, i) ==
  \A j \in Around(h, i) :
    LET names == {m.name : m \in MacrosAt(h, t, j)}
    IN CASE h[j].is = "ifdef" -> h[j].name \in names
         [] h[j].is = "ifndef" -> h[j].name \notin names
         [] h[j].is = "if" ->
              CValue([k \in DOMAIN Expanded(h, t, j, h[j].condition) |->
                        LET token == Expanded(h, t, j, h[j].condition)[k]
                        IN IF token.is = "defined"
                           THEN [token EXCEPT !.v = IF token.s \in names THEN 1 ELSE 0] ELSE token]) # 0

(* The definition a line is in: it begins at ...                           *)
OwnerInC(h, t, i) ==
  LET opens(j, k) == Cardinality({m \in j .. k : h[m].is = "open" /\ IsTakenInC(h, t, m)})
      closes(j, k) == Cardinality({m \in j .. k : h[m].is = "close" /\ IsTakenInC(h, t, m)})
  IN Max({j \in 1 .. i - 1 : /\ h[j].is = "open" /\ IsTakenInC(h, t, j)
                             /\ \A k \in j .. i - 1 : opens(j, k) > closes(j, k)} \cup {0})

(* What the reader is not up to, as it does not claim to be: it heeds no   *)
(* "#else" behind a condition that fails and no "#elif", and keeps a macro *)
(* as it was when it was defined; what else is in IsSimple.                *)
IsWithinLimits(h, t) ==
  /\ \A i \in DOMAIN h : h[i].is \notin {"else", "elif"}
  /\ \A i, j \in DOMAIN h : h[i].is = "define" /\ h[j].is = "define" /\ h[i].name = h[j].name => i = j
  /\ \A i \in DOMAIN h : h[i].is = "define" => \A m \in Given(t) : h[i].name # m.name
  /\ \A i \in DOMAIN h : h[i].is = "if" =>
       /\ IsSimple(Expanded(h, t, i, h[i].condition))
       /\ \A k \in DOMAIN h[i].condition :
            h[i].condition[k].is = "defined" =>
              \A m \in MacrosAt(h, t, i) : m.name = h[i].condition[k].s => m.to # <<>>

(* SynTypes.js lines 2959-2963: the table of a header has the types of the *)
(* definitions that C takes of it, each with its fields, and in the order  *)
(* they are written in; a field has the dimension written, the names of    *)
(* enumerants aside.  What C makes of a truth value, "/", "&&" or "||" is  *)
(* not promised: "[1 < 2]" becomes "[true]", and quotients are not rounded.*)
TakenLines(h, t, is) == {i \in DOMAIN h : h[i].is = is /\ IsTakenInC(h, t, i)}
FieldLines(definition) ==
  [k \in DOMAIN definition.descriptor |-> definition.descriptor[k].line]
TableAsWritten(t) ==
  LET h == file[t.path]
      fields(open) == {i \in TakenLines(h, t, "field") : OwnerInC(h, t, i) = open}
      embedded(open) == {i \in TakenLines(h, t, "close") : OwnerInC(h, t, OwnerInC(h, t, i)) = open}
  IN IsWithinLimits(h, t) =>
       /\ {x.line : x \in ToSet(t.types)} = TakenLines(h, t, "open")
       /\ \A x \in ToSet(t.types) :
            LET d == x.definition.descriptor IN
            /\ FieldLines(x.definition) = SetToSortSeq(fields(x.line) \cup embedded(x.line), <)
            /\ \A k \in DOMAIN d :
                 LET dim == Expanded(h, t, d[k].line, h[d[k].line].dim)
                 IN h[d[k].line].is = "field" /\ IsSimple(dim) /\ dim # <<>> /\ ~IsTruth(dim)
                      /\ (\A i \in DOMAIN dim : dim[i].is # "name") /\ CValue(dim) >= 0
                      => d[k].array = CValue(dim)
HeadersAsWritten == \A i \in DOMAIN tables : TableAsWritten(tables[i])

(* SynTypes.js lines 2274-2299: the search of a type through its aliases   *)
(* ends: none leads back to itself, unless the name of a structure that was*)
(* defined is among them, which a typedef of it takes as it is (lines      *)
(* 2852-2857 and 2904-2907): "typedef struct A {..} B;" and "typedef struct*)
(* B {..} A;".  A header hangs for such aliases only, or for a macro that  *)
(* is defined by itself.  Each path has one table.                         *)
RECURSIVE Leads(_, _)
Leads(name, n) ==
  IF n = 0 \/ name \notin DOMAIN aliases \/ aliases[name].stars > 0 THEN {}
  ELSE {aliases[name].of} \cup Leads(aliases[name].of, n - 1)
Circle(name) == LET all == Leads(name, Cardinality(DOMAIN aliases)) IN IF name \in all THEN all ELSE {}
AliasesEnd ==
  /\ \A name \in DOMAIN aliases : Circle(name) # {} => Circle(name) \cap DOMAIN types # {}
  /\ call.state = "hung" =>
       \/ \E name \in DOMAIN aliases : Circle(name) # {}
       \/ \E path \in DOMAIN file : \E i \in DOMAIN file[path] :
            file[path][i].is = "define" /\ Uses(file[path][i].to, file[path][i].name)
  /\ \A i, j \in DOMAIN tables : tables[i].path = tables[j].path => i = j
=============================================================================
