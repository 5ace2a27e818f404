------------------------------- MODULE BvIsa --------------------------------
(***************************************************************************)
(* The meaning of one BradVector instruction for a warp, as execute_insn    *)
(* (bradvector/bvrt.c) gives it: one program counter for all lanes, every   *)
(* lane with its own scalar, vector and predicate registers and its own     *)
(* return stack, lanes served in ascending order, and a trap that leaves    *)
(* the work of the lanes before the trapping one in place.                  *)
(*                                                                         *)
(* Arithmetic is the constant Alu. Memory is a function from word addresses; *)
(* an address register and the immediate added to it are taken as            *)
(* non-negative and word aligned.                                            *)
(***************************************************************************)
EXTENDS Integers, FiniteSetsExt, SequencesExt

CONSTANTS
  NumLanes,        \* BV_WARP_SIZE
  NumScalars,      \* BV_SCALAR_REGS
  NumPreds,        \* BV_PRED_REGS
  NumVectors,      \* BV_VEC_REGS
  VecLanes,        \* BV_VEC_LANES
  MaxRet,          \* BVRT_MAX_RET
  MemWords,        \* words of device memory
  Mod,             \* registers and words hold 0 .. Mod - 1
  Alu(_, _, _, _)  \* Alu(op, a, b, d): result of op on src1, src2 and the old dst

ASSUME IsaConstants ==
  /\ {NumLanes, NumScalars, NumPreds, NumVectors, VecLanes, MaxRet, MemWords, Mod}
       \subseteq Nat \ {0}
  /\ NumScalars % VecLanes = 0

Lanes == 0 .. NumLanes - 1
Values == 0 .. Mod - 1
Scalars == 0 .. NumScalars - 1
Vectors == 0 .. NumVectors - 1
Elements == 0 .. VecLanes - 1
Addresses == 0 .. MemWords - 1

\* The scalar operations that differ only in the function they compute.
AluOps ==
  {"ADD", "ADDi", "SUB", "MUL", "MAD", "DIV", "SQRT", "RSQRT", "RCP", "SIN", "COS", "EXP2",
   "LOG2", "MIN", "MAX", "ABS", "NEG", "IADD", "ISUB", "IMUL", "IDIV", "IMAD", "POPC", "CLZ",
   "BFIND", "SHL", "SHR", "AND", "OR", "XOR", "NOT"}

VectorAluOps == {"VADD", "VMUL", "VMAD"}

\* A result is a register's worth of bits.
ASSUME AluClosed ==
  \A op \in AluOps \cup VectorAluOps, a, b, d \in Values : Alu(op, a, b, d) \in Values

MemoryOps == {"LOAD", "LOADV", "STORE", "STOREV", "ATOMIC_ADD"}

\* The instructions that have a meaning: no register number is checked by the
\* device, so it is for the compiler that the registers named exist.
OperandsExist(in) ==
  /\ in.pred \in 0 .. NumPreds /\ in.imm \in Int
  /\ {in.src1, in.src2} \subseteq
       IF in.op \in VectorAluOps \cup {"VDOT"} THEN Vectors ELSE Scalars
  /\ in.dst \in
       CASE in.op \in VectorAluOps \cup {"VDOT", "VBROADCAST", "VREDUCE", "LOADV", "STOREV"} -> Vectors
         [] in.op = "CMP" -> 0 .. NumPreds - 1
         [] OTHER -> Scalars
  /\ in.op = "ADDi" => \A a, d \in Values : Alu("ADDi", a, in.imm, d) \in Values
  /\ in.op \in MemoryOps => in.imm >= 0

\* What an instruction leaves: the warp, the memory, and whether it trapped.
Outcome(w, m, trap) == [warp |-> w, mem |-> m, trap |-> trap]
Done(w, m) == Outcome([w EXCEPT !.pc = @ + 1, !.cycles = @ + 1], m, FALSE)
Trap(w, m) == Outcome(w, m, TRUE)

PredOk(w, l, in) == in.pred = 0 \/ w.p[l][in.pred - 1] # 0
Executing(w, in) == {l \in w.active : PredOk(w, l, in)}

\* Faulty variant: S0 is written like any other register.
WriteScalarAny(w, lanes, reg, val) ==
  [w EXCEPT !.s = [l \in Lanes |->
     IF l \in lanes THEN [@[l] EXCEPT ![reg] = val[l]] ELSE @[l]]]

\* wr_s for a set of lanes: writes to S0 are discarded.
WriteScalar(w, lanes, reg, val) ==
  IF reg = 0 THEN w
  ELSE [w EXCEPT !.s = [l \in Lanes |->
          IF l \in lanes THEN [@[l] EXCEPT ![reg] = val[l]] ELSE @[l]]]

WriteVector(w, lanes, reg, val) ==
  [w EXCEPT !.v = [l \in Lanes |->
     IF l \in lanes THEN [@[l] EXCEPT ![reg] = val[l]] ELSE @[l]]]

-----------------------------------------------------------------------------
(* Arithmetic, comparison and the special registers.                        *)

ScalarAlu(w, m, in) ==
  LET operand(l) == IF in.op = "ADDi" THEN in.imm ELSE w.s[l][in.src2]
      val == [l \in Lanes |-> Alu(in.op, w.s[l][in.src1], operand(l), w.s[l][in.dst])]
  IN Done(WriteScalar(w, Executing(w, in), in.dst, val), m)

Select(w, m, in) ==
  LET holds(l) == in.pred # 0 /\ PredOk(w, l, in)
      val == [l \in Lanes |-> w.s[l][IF holds(l) THEN in.src1 ELSE in.src2]]
  IN Done(WriteScalar(w, Executing(w, in), in.dst, val), m)

Holds(cc, a, b) ==
  CASE cc = "EQ" -> a = b
    [] cc = "NE" -> a # b
    [] cc = "LT" -> a < b
    [] cc = "GT" -> a > b
    [] cc = "LE" -> a <= b
    [] OTHER -> a >= b

Compare(w, m, in) ==
  Done([w EXCEPT !.p = [l \in Lanes |->
          IF l \in Executing(w, in)
          THEN [@[l] EXCEPT ![in.dst] =
                  IF Holds(in.flags, w.s[l][in.src1], w.s[l][in.src2]) THEN 1 ELSE 0]
          ELSE @[l]]], m)

\* RAND takes its value from outside: random[l] for lane l.
Special(w, m, in, random) ==
  LET val == CASE in.op = "LANE_ID" -> [l \in Lanes |-> l % Mod]
               [] in.op = "WARP_SZ" -> [l \in Lanes |-> NumLanes % Mod]
               [] in.op = "CLOCK" -> [l \in Lanes |-> w.cycles % Mod]
               [] in.op = "RAND" -> random
  IN Done(WriteScalar(w, Executing(w, in), in.dst, val), m)

-----------------------------------------------------------------------------
(* Vectors.                                                                  *)

VectorAlu(w, m, in) ==
  LET val == [l \in Lanes |-> [i \in Elements |->
               Alu(in.op, w.v[l][in.src1][i], w.v[l][in.src2][i], w.v[l][in.dst][i])]]
  IN Done(WriteVector(w, Executing(w, in), in.dst, val), m)

SumOver(f(_, _)) == FoldFunctionOnSet(f, 0, [i \in Elements |-> i], Elements)

Dot(w, m, in) ==
  LET dot(l) == SumOver(LAMBDA i, acc : Alu("MAD", w.v[l][in.src1][i], w.v[l][in.src2][i], acc))
      val == [l \in Lanes |-> [i \in Elements |-> IF i = 0 THEN dot(l) ELSE 0]]
  IN Done(WriteVector(w, Executing(w, in), in.dst, val), m)

Broadcast(w, m, in) ==
  LET val == [l \in Lanes |-> [i \in Elements |-> w.s[l][in.src1]]]
  IN Done(WriteVector(w, Executing(w, in), in.dst, val), m)

\* The register reduced is dst, and the maximum leaves out its first element.
Reduce(w, m, in) ==
  LET el(l, i) == w.v[l][in.dst][i]
      reduced(l) ==
        CASE in.flags = "RED_MAX" -> Max({0} \cup {el(l, i) : i \in Elements \ {0}})
          [] in.flags = "RED_MIN" -> Min({el(l, i) : i \in Elements})
          [] OTHER -> SumOver(LAMBDA i, acc : Alu("ADD", acc, el(l, i), 0))
      val == [l \in Lanes |-> [w.v[l][in.dst] EXCEPT ![0] = reduced(l)]]
  IN Done(WriteVector(w, Executing(w, in), in.dst, val), m)

-----------------------------------------------------------------------------
(* Memory. Lanes are served in order until one is out of bounds.            *)

Addr(w, l, in) == w.s[l][in.src1] + in.imm
Faulting(w, in, words) == {l \in Executing(w, in) : Addr(w, l, in) + words > MemWords}
Served(w, in, words) == {l \in Executing(w, in) : \A f \in Faulting(w, in, words) : l < f}
Settle(faulting, w, m) == IF faulting = {} THEN Done(w, m) ELSE Trap(w, m)

Load(w, m, in) ==
  LET served == Served(w, in, 1)
      val == [l \in served |-> m[Addr(w, l, in)]]
  IN Settle(Faulting(w, in, 1), WriteScalar(w, served, in.dst, val), m)

\* The words go to the scalar registers dst * VecLanes on, S0 excepted; the
\* register number is a byte and wraps.
LoadVector(w, m, in) ==
  LET served == Served(w, in, VecLanes)
      target(r) == r # 0 /\ r \div VecLanes = in.dst % (NumScalars \div VecLanes)
      loaded == [w EXCEPT !.s = [l \in Lanes |-> [r \in Scalars |->
                  IF l \in served /\ target(r) THEN m[Addr(w, l, in) + (r % VecLanes)]
                  ELSE w.s[l][r]]]]
  IN Settle(Faulting(w, in, VecLanes), loaded, m)

\* The highest lane that stores to a word prevails.
Stored(w, m, in, words, el(_, _)) ==
  [a \in Addresses |->
     LET writers == {l \in Served(w, in, words) : a - Addr(w, l, in) \in 0 .. words - 1}
     IN IF writers = {} THEN m[a] ELSE el(Max(writers), a - Addr(w, Max(writers), in))]

Store(w, m, in) ==
  Settle(Faulting(w, in, 1), w, Stored(w, m, in, 1, LAMBDA l, i : w.s[l][in.dst]))

StoreVector(w, m, in) ==
  Settle(Faulting(w, in, VecLanes), w,
         Stored(w, m, in, VecLanes, LAMBDA l, i : w.v[l][in.dst][i]))

\* What the served lanes in the set have added to word a, on top of m.
Added(w, m, in, a, lanes) ==
  LET adding == {l \in lanes : Addr(w, l, in) = a}
  IN (m[a] + SumFunctionOnSet([l \in Lanes |-> w.s[l][in.src2]], adding)) % Mod

\* Faulty variant: every lane reads the word before any lane has added.
AtomicAddUnserialised(w, m, in) ==
  LET served == Served(w, in, 1)
      old == [l \in served |-> m[Addr(w, l, in)]]
      sum == [a \in Addresses |-> Added(w, m, in, a, served)]
  IN Settle(Faulting(w, in, 1), WriteScalar(w, served, in.dst, old), sum)

AtomicAdd(w, m, in) ==
  LET served == Served(w, in, 1)
      old == [l \in served |-> Added(w, m, in, Addr(w, l, in), {k \in served : k < l})]
      sum == [a \in Addresses |-> Added(w, m, in, a, served)]
  IN Settle(Faulting(w, in, 1), WriteScalar(w, served, in.dst, old), sum)

-----------------------------------------------------------------------------
(* Control. The branches move the one program counter of the warp.           *)

Jump(w, m, in) == Outcome([w EXCEPT !.pc = @ + 1 + in.imm], m, FALSE)

\* BR and BR_COND: the whole warp goes if any executing lane takes the branch.
Branch(w, m, in) == IF Executing(w, in) # {} THEN Jump(w, m, in) ELSE Done(w, m)

\* Faulty variant: only the lowest executing lane saves its return address.
CallFirstLane(w, m, in) ==
  LET calling == Executing(w, in)
      full == {l \in calling : Len(w.ret[l]) >= MaxRet}
      pushed == [w EXCEPT !.ret = [l \in Lanes |->
                   IF \A k \in calling : l <= k THEN Append(@[l], w.pc + 1) ELSE @[l]]]
  IN IF full # {} THEN Trap(w, m) ELSE Jump(pushed, m, in)

\* CALL pushes for the executing lanes in turn and then jumps, even with none.
Call(w, m, in) ==
  LET calling == Executing(w, in)
      full == {l \in calling : Len(w.ret[l]) >= MaxRet}
      saving == {l \in calling : \A f \in full : l < f}
      pushed == [w EXCEPT !.ret = [l \in Lanes |->
                   IF l \in saving THEN Append(@[l], w.pc + 1) ELSE @[l]]]
  IN IF full # {} THEN Trap(pushed, m) ELSE Jump(pushed, m, in)

\* RET pops for every active lane in turn, whatever its predicate: the program
\* counter ends as the last lane's, and has moved even when a later lane traps.
Return(w, m) ==
  LET empty == {l \in w.active : w.ret[l] = <<>>}
      popping == {l \in w.active : \A e \in empty : l < e}
      popped == [w EXCEPT
                   !.ret = [l \in Lanes |-> IF l \in popping THEN Front(@[l]) ELSE @[l]],
                   !.pc = IF popping = {} THEN @ ELSE Last(w.ret[Max(popping)])]
  IN Outcome(popped, m, empty # {})

Exit(w, m) == Done([w EXCEPT !.active = {}], m)

-----------------------------------------------------------------------------
\* Every other opcode, TRAP included, traps and changes nothing.
Execute(w, m, in, random) ==
  CASE in.op \in AluOps -> ScalarAlu(w, m, in)
    [] in.op = "SEL" -> Select(w, m, in)
    [] in.op = "CMP" -> Compare(w, m, in)
    [] in.op \in {"LANE_ID", "WARP_SZ", "CLOCK", "RAND"} -> Special(w, m, in, random)
    [] in.op \in VectorAluOps -> VectorAlu(w, m, in)
    [] in.op = "VDOT" -> Dot(w, m, in)
    [] in.op = "VBROADCAST" -> Broadcast(w, m, in)
    [] in.op = "VREDUCE" -> Reduce(w, m, in)
    [] in.op = "LOAD" -> Load(w, m, in)
    [] in.op = "LOADV" -> LoadVector(w, m, in)
    [] in.op = "STORE" -> Store(w, m, in)
    [] in.op = "STOREV" -> StoreVector(w, m, in)
    [] in.op = "ATOMIC_ADD" -> AtomicAdd(w, m, in)
    [] in.op \in {"BR", "BR_COND"} -> Branch(w, m, in)
    [] in.op = "CALL" -> Call(w, m, in)
    [] in.op = "RET" -> Return(w, m)
    [] in.op \in {"BAR", "BAR_CLUSTER"} -> Done(w, m)
    [] in.op = "EXIT" -> Exit(w, m)
    [] OTHER -> Trap(w, m)
=============================================================================
