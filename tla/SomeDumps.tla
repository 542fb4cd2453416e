------------------------------ MODULE SomeDumps -----------------------------
(***************************************************************************)
(* Lines of text dumps for TextDumpParser, and parsed dumps and register   *)
(* names for TextDumpServices: memory that goes on, leaves a hole or comes *)
(* twice, frames out of order, modules that overlap, names that one        *)
(* architecture has and another does not.                                  *)
(***************************************************************************)
EXTENDS Naturals, Sequences

LOCAL Header(section) == [is |-> "header", of |-> section]
LOCAL MemoryLine(at, bytes) == [is |-> "memory", at |-> at, bytes |-> bytes, whole |-> TRUE]
LOCAL Frame(number, ret) ==
  [is |-> "frame", number |-> number, sp |-> 10 + ret, ret |-> ret, whole |-> TRUE]
LOCAL ModuleLine(start, end) ==
  [is |-> "module", start |-> start, end |-> end, rest |-> <<start, end>>, whole |-> TRUE]
LOCAL Registers(values) == [is |-> "registers", values |-> values, whole |-> TRUE]

SomeLines ==
  {Header(s) : s \in {"MEMORY", "STACK", "MODULEINFO", "REGISTERS"}}
    \cup {[is |-> "blank"], [is |-> "comment"], [is |-> "memory", whole |-> FALSE]}
    \cup {MemoryLine(0, <<"a", "b">>), MemoryLine(2, <<"c">>), MemoryLine(1, <<"d", "e">>)}
    \cup {Frame(0, 1), Frame(0, 2), Frame(1, 2)}
    \cup {ModuleLine(0, 2), ModuleLine(1, 3)}
    \cup {Registers(<<[name |-> "ax", value |-> 2], [name |-> "rip", value |-> 3]>>),
          Registers(<<[name |-> "rip", value |-> 4]>>), [is |-> "registers", whole |-> FALSE]}

LOCAL Name(of) == [of |-> of, lower |-> TRUE]
LOCAL Capital(of) == [of |-> of, lower |-> FALSE]

SomeArchitectures ==
  [a \in {"AMD64", "ARM64"} |->
     IF a = "AMD64"
     THEN <<[name |-> Name("rip"), id |-> 1], [name |-> Capital("ax"), id |-> 2]>>
     ELSE <<[name |-> Name("ax"), id |-> 1], [name |-> Name("r0"), id |-> 4]>>]

LOCAL SomeRegisters ==
  <<[name |-> Name("rip"), value |-> 1], [name |-> Capital("ax"), value |-> 2],
    [name |-> Name("ax"), value |-> 3], [name |-> Name("rip"), value |-> 4]>>

SomeDumps ==
  {[sections |-> {"MODULEINFO"}, modules |-> 2, frames |-> 0, registers |-> <<>>],
   [sections |-> {"MEMORY", "STACK", "REGISTERS"}, modules |-> 0, frames |-> 2,
    registers |-> SomeRegisters],
   [sections |-> {"MODULEINFO", "REGISTERS"}, modules |-> 1, frames |-> 0,
    registers |-> SomeRegisters],
   [sections |-> {"STACK"}, modules |-> 0, frames |-> 1, registers |-> <<>>]}
=============================================================================
