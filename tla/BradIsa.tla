------------------------------ MODULE BradIsa ------------------------------
(***************************************************************************)
(* What one BradISA instruction does to a core's registers, to memory and to *)
(* the program counter, as execute (emu/brad_core_emu.c) gives it, whatever  *)
(* pipeline carries the instruction.                                        *)
(*                                                                         *)
(* Registers and addresses are numbers of bytes below Mod; memory holds a    *)
(* number at each aligned address, which Decode reads as an instruction.     *)
(***************************************************************************)
EXTENDS Integers

CONSTANTS
  NumRegs,      \* BRAD_NUM_REGS
  NumRegsLite,  \* BRAD_NUM_REGS_LITE
  Sp, Lr,       \* BRAD_REG_SP, BRAD_REG_LR
  MemSize,      \* BRAD_MEM_SIZE
  Mod,          \* registers and words hold 0 .. Mod - 1
  Decode,       \* Decode[w]: the instruction word w encodes
  Alu(_, _, _)  \* Alu(op, a, b): alu_exec

Values == 0 .. Mod - 1
Regs == 0 .. NumRegs - 1
Models == {"PHOENIX", "FALCON", "KESTREL", "FALCON_LITE"}
AluOps == {"ADD", "SUB", "MUL", "AND", "OR", "XOR", "SHL", "SHR"}
Ops == AluOps \cup {"ADDI", "LDW", "STW", "BZ", "BNZ", "JMP", "CALL", "RET"}
Insns == [op : Ops, rd : Regs, rs1 : Regs, rs2 : Regs, imm : Int]

ASSUME BradIsaConstants ==
  /\ {NumRegs, NumRegsLite, MemSize, Mod} \subseteq Nat \ {0}
  /\ NumRegsLite <= NumRegs
  /\ {Sp, Lr} \subseteq Regs
  /\ MemSize + 4 < Mod /\ MemSize % 4 = 0 /\ Mod % 4 = 0
  /\ Decode \in [Values -> Insns]
  /\ \A op \in AluOps, a, b \in Values : Alu(op, a, b) \in Values

Aligned == {a \in 0 .. MemSize - 1 : a % 4 = 0}
Memories == [Aligned -> Values]

\* The bounds test of fetch, LDW and STW, whose 32-bit sum wraps.
Refused(a) == (a + 4) % Mod > MemSize

\* Accesses the test lets through that are not to an aligned word. The last word of the
\* address space passes by wrapping and reads past the buffer: such a program has no meaning.
Outside(a) == ~ Refused(a) /\ a \notin Aligned

NumRegsOf(model) == IF model = "FALCON_LITE" THEN NumRegsLite ELSE NumRegs

Reg(model, regs, r) == IF r < NumRegsOf(model) THEN regs[r] ELSE 0

Written(model, regs, r, v) ==
  IF r < NumRegsOf(model) THEN [regs EXCEPT ![r] = v] ELSE regs

\* brad_core_write_reg: the host cannot write R0, though instructions can.
HostWritten(model, regs, r, v) == IF r = 0 THEN regs ELSE Written(model, regs, r, v)

\* brad_core_emu_init: every register is zero but the stack pointer.
ResetRegs(sp) == [[r \in Regs |-> 0] EXCEPT ![Sp] = sp, ![Lr] = 0]

\* Faulty variant: a sum that does not wrap.
UnwrappedSum(a, b) == a + b

\* Addition of unsigned 32-bit numbers.
Sum32(a, b) == (a + b) % Mod

\* LDW, STW: the address an access uses.
Target(model, regs, in) == Sum32(Reg(model, regs, in.rs1), in.imm)

Undefined(model, regs, in) ==
  in.op \in {"LDW", "STW"} /\ Outside(Target(model, regs, in))

(***************************************************************************)
(* What an instruction leaves. pc is meaningful if the branch is taken.      *)
(***************************************************************************)
Falls(regs, m) == [regs |-> regs, mem |-> m, taken |-> FALSE, pc |-> 0]
Jumps(regs, m, pc) == [regs |-> regs, mem |-> m, taken |-> TRUE, pc |-> pc]

\* MUL on a Falcon-Lite core clears the register, without the test on its number.
AluResult(model, regs, in) ==
  IF in.op = "MUL" /\ model = "FALCON_LITE" THEN [regs EXCEPT ![in.rd] = 0]
  ELSE Written(model, regs, in.rd,
               Alu(in.op, Reg(model, regs, in.rs1), Reg(model, regs, in.rs2)))

\* A refused load or store leaves no trace: every caller ignores -EFAULT.
Loaded(model, regs, m, in) ==
  LET a == Target(model, regs, in)
  IN IF Refused(a) THEN regs ELSE Written(model, regs, in.rd, m[a])

Stored(model, regs, m, in) ==
  LET a == Target(model, regs, in)
  IN IF Refused(a) THEN m ELSE [m EXCEPT ![a] = Reg(model, regs, in.rs2)]

Relative(pc, in) == Sum32(pc + 4, in.imm)

Execute(model, regs, m, pc, in) ==
  LET base == Reg(model, regs, in.rs1) IN
  CASE in.op \in AluOps -> Falls(AluResult(model, regs, in), m)
    [] in.op = "ADDI" -> Falls(Written(model, regs, in.rd, Sum32(base, in.imm)), m)
    [] in.op = "LDW" -> Falls(Loaded(model, regs, m, in), m)
    [] in.op = "STW" -> Falls(regs, Stored(model, regs, m, in))
    [] in.op = "BZ" -> IF base = 0 THEN Jumps(regs, m, Relative(pc, in)) ELSE Falls(regs, m)
    [] in.op = "BNZ" -> IF base # 0 THEN Jumps(regs, m, Relative(pc, in)) ELSE Falls(regs, m)
    [] in.op = "JMP" -> Jumps(regs, m, Relative(pc, in))
    [] in.op = "CALL" -> Jumps([regs EXCEPT ![Lr] = pc + 4], m, Relative(pc, in))
    [] in.op = "RET" -> Jumps(regs, m, base)
=============================================================================
