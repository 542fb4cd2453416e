----------------------------- MODULE SomeFlows ------------------------------
(***************************************************************************)
(* Functions to trace the data flow in: straight lines, a branch that joins*)
(* again, a block that is skipped, and a loop, of the instructions below.  *)
(***************************************************************************)
EXTENDS Integers, Sequences

LOCAL Op(in, out, kind, regs, disp) ==
  [in |-> in, out |-> out, kind |-> kind, regs |-> regs, disp |-> disp]
LOCAL In(reg) == Op(TRUE, FALSE, "reg", {reg}, 0)
LOCAL Out(reg) == Op(FALSE, TRUE, "reg", {reg}, 0)
LOCAL Both(reg) == Op(TRUE, TRUE, "reg", {reg}, 0)
LOCAL Load(disp) == Op(TRUE, FALSE, "mem", {"rsp"}, disp)
LOCAL Store(disp) == Op(FALSE, TRUE, "mem", {"rsp"}, disp)
LOCAL Ins(operands) == [operands |-> operands, call |-> FALSE, takes |-> {}]
LOCAL Call(takes) == [operands |-> <<Op(TRUE, FALSE, "imm", {}, 0)>>, call |-> TRUE, takes |-> takes]

LOCAL Moves == {Ins(<<Out("rax"), In("rbx")>>), Ins(<<Out("rbx"), In("rcx")>>), Ins(<<Out("al"), In("rcx")>>)}
LOCAL Memory == {Ins(<<Store(1), In("rax")>>), Ins(<<Out("rcx"), Load(1)>>)}
LOCAL Others == {Ins(<<Both("rbx"), In("rax")>>), Ins(<<In("rax"), In("rcx")>>), Call({}), Call({"rcx"})}

LOCAL Func(code, starts, inbound, from) ==
  [code |-> code, starts |-> starts, inbound |-> inbound, from |-> from]
LOCAL Questions == {Ins(<<Store(2), In("rbx")>>), Ins(<<Out("rbx"), Load(1)>>)}

Straight(n) ==
  {Func(Append(c, q), {1}, [b \in {1} |-> <<>>], n + 1) :
     c \in [1 .. n -> Moves \cup Memory \cup Others], q \in Questions}

(* 1 leads to 2 and 3, which lead to 4; 2 is skipped or not; 2 is a loop   *)
(* that begins with the question; and 3 is reached from 2 alone.           *)
Shapes ==
  {<<<<>>, <<1>>, <<1>>, <<2, 3>>>>, <<<<>>, <<1>>, <<1, 2>>, <<3>>>>, <<<<>>, <<1, 4>>, <<2>>, <<3>>>>,
   <<<<>>, <<1>>, <<1>>, <<2>>>>}
Graphs(instructions) ==
  {Func(<<c[1], c[2], c[3], q>>, 1 .. 4, s, 4) :
     c \in [1 .. 3 -> instructions], q \in Questions, s \in Shapes}
    \cup {Func(<<c[1], q, c[2], c[3]>>, 1 .. 4, <<<<>>, <<1, 4>>, <<2>>, <<3>>>>, 2) :
            c \in [1 .. 3 -> instructions], q \in Questions}
SomeFlows == Straight(3) \cup Graphs(Moves \cup Memory \cup {Call({"rcx"})})
=============================================================================
