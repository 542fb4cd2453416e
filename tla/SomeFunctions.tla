---------------------------- MODULE SomeFunctions ----------------------------
(***************************************************************************)
(* Functions to build live ranges for: every straight line of three        *)
(* instructions, every way through two branches that join again, and every *)
(* loop, of the instructions below; and of two with parameters in floating-*)
(* point registers and behind a big one on the stack.                      *)
(***************************************************************************)
EXTENDS Integers, Sequences

Op(flags, reg, const) == [flags |-> flags, reg |-> reg, const |-> const]
Ins(op, operands) == [op |-> op, operands |-> operands, probe |-> FALSE]
RegIn(reg) == Op({"in", "reg"}, reg, 0)
RegOut(reg) == Op({"out", "reg"}, reg, 0)
RegBoth(reg) == Op({"in", "out", "reg"}, reg, 0)
MemIn(reg, const) == Op({"in", "mem", "imm"}, reg, const)
MemOut(reg, const) == Op({"out", "mem", "imm"}, reg, const)
Number(const) == Op({"in", "imm"}, "none", const)

Mov(output, input) == Ins("mov", <<output, input>>)
Call(probe) == [op |-> "call", operands |-> <<Number(0)>>, probe |-> probe]
Nothing == Ins("other", <<RegBoth("rax")>>)

Copies == {Mov(RegOut("rbx"), RegIn("rcx")), Mov(RegOut("rdx"), RegIn("rcx")),
           Mov(RegOut("rcx"), RegIn("rbx")), Mov(MemOut("rsp", 1), RegIn("rcx")),
           Mov(RegOut("rcx"), MemIn("rsp", 2))}
Moves == {Ins("push", <<RegIn("rcx")>>), Ins("pop", <<RegOut("rbx")>>),
          Ins("sub", <<RegBoth("rsp"), Number(2)>>), Ins("add", <<RegBoth("rsp"), Number(1)>>),
          Ins("lea", <<RegOut("rax"), MemIn("rsp", 1)>>)}
Probe == {Mov(RegOut("rax"), Number(2)), Call(TRUE), Ins("sub", <<RegBoth("rsp"), RegIn("rax")>>)}
Others == {Call(FALSE), Ins("other", <<RegBoth("rcx")>>)}

KindsOfParameters == {<<"int", "int">>, <<"big">>}

Straight(n, instructions, kinds) ==
  {[code |-> c, starts |-> {1}, succ |-> [b \in {1} |-> <<>>], kinds |-> k] :
     c \in [1 .. n -> instructions], k \in kinds}

Floats == Moves \cup Others \cup {Nothing, Ins("other", <<RegBoth("xmm0")>>)}

(* A block for each instruction: 1 goes to 2 and 3, which go to 4, and     *)
(* there is a block 5 that does nothing to a parameter.                    *)
Few == Others \cup {Nothing, Mov(RegOut("rbx"), RegIn("rcx")), Mov(RegOut("rcx"), RegIn("rbx")),
                    Ins("push", <<RegIn("rcx")>>)}
Diamonds ==
  {[code |-> c \o <<Nothing>>, starts |-> 1 .. 5, kinds |-> k,
    succ |-> <<<<2, 3>>, <<4>>, <<4>>, <<5>>, <<>>>>] :
     c \in [1 .. 4 -> Few], k \in KindsOfParameters}

(* 1 goes to 2, and 2 back to itself or on to 3.                           *)
Loops ==
  {[code |-> c, starts |-> 1 .. 3, succ |-> <<<<2>>, <<2, 3>>, <<>>>>, kinds |-> k] :
     c \in [1 .. 3 -> Few], k \in KindsOfParameters}

SomePrograms ==
  Straight(3, Copies \cup Moves \cup Probe \cup Others, KindsOfParameters)
    \cup Straight(2, Floats, {<<"float", "int">>, <<"big", "big", "int">>}) \cup Diamonds \cup Loops
=============================================================================
