------------------------------- MODULE MCBvrt -------------------------------
(***************************************************************************)
(* A warp of two lanes and the kernels CMP; x; y; EXIT over the lists below.  *)
(* S1 is the lane number, S2 an argument and S3 a result. A kernel has two   *)
(* entries: past the CMP the predicate P0 is off in both lanes, after it P0  *)
(* is on in lane 0 only. The BR is a branch to itself.                       *)
(***************************************************************************)
EXTENDS Bvrt

In(op, pred, dst, src1, src2, imm) ==
  [op |-> op, pred |-> pred, dst |-> dst, src1 |-> src1, src2 |-> src2, imm |-> imm,
   flags |-> "EQ"]

\* Word arithmetic; the transcendental functions are not told apart.
MCAlu(op, a, b, d) ==
  CASE op \in {"ADD", "ADDi", "IADD", "VADD"} -> (a + b) % Mod
    [] op \in {"SUB", "ISUB"} -> (a - b) % Mod
    [] op \in {"MUL", "IMUL", "VMUL"} -> (a * b) % Mod
    [] op \in {"MAD", "IMAD", "VMAD"} -> (a * b + d) % Mod
    [] op \in {"DIV", "IDIV"} -> IF b = 0 THEN Mod - 1 ELSE a \div b
    [] OTHER -> a

Control ==
  {In("CALL", 0, 0, 0, 0, 0), In("CALL", 1, 0, 0, 0, 1), In("RET", 0, 0, 0, 0, 0),
   In("RET", 1, 0, 0, 0, 0), In("BR", 0, 0, 0, 0, -1), In("BR_COND", 1, 0, 0, 0, 1)}
Memory ==
  {In("ATOMIC_ADD", 0, 3, 0, 2, 1), In("ATOMIC_ADD", 0, 3, 1, 1, 2), In("STORE", 0, 1, 1, 0, 0),
   In("LOAD", 1, 3, 2, 0, 0), In("LOADV", 0, 1, 0, 0, 0), In("STOREV", 0, 0, 1, 0, 0)}
Other ==
  {In("IADD", 1, 3, 1, 2, 0), In("SEL", 1, 3, 1, 2, 0),
   In("VBROADCAST", 0, 0, 1, 0, 0), In("VREDUCE", 0, 0, 0, 0, 0), In("CLOCK", 0, 0, 0, 0, 0),
   In("RAND", 0, 3, 0, 0, 0), In("TRAP", 0, 0, 0, 0, 0), In("BAR", 0, 0, 0, 0, 0)}

Kernel(x, y) ==
  [pc \in 0 .. 3 |-> CASE pc = 0 -> In("CMP", 0, 0, 1, 0, 0)
                       [] pc = 1 -> x
                       [] pc = 2 -> y
                       [] pc = 3 -> In("EXIT", 0, 0, 0, 0, 0)]
MCImages == {[code |-> Kernel(x, y), entries |-> {0, 1}] :
               x \in Control \cup Memory \cup Other, y \in Control \cup Memory}

MCArgs == {<<2>>}
MCContents == [a \in Addresses |-> a % Mod]
=============================================================================
