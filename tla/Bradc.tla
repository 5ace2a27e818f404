------------------------------- MODULE Bradc --------------------------------
(***************************************************************************)
(* The BradVector assembler (bradvector/bradc.c) and the library calls that  *)
(* use its output (bradvector/bradlib.c, bvbc.c): one pass over the lines of *)
(* a source collects labels, a second emits instructions, then the image is  *)
(* written to a container, read back, and launched by kernel name.           *)
(*                                                                         *)
(* A source is a sequence of lines already cut into tokens; blank lines,     *)
(* comments and what follows the last operand used are left out. Operands    *)
(* are [cls, val] with cls "S", "V", "P", "num" or "name". Each step is one  *)
(* line of one pass.                                                         *)
(***************************************************************************)
EXTENDS Bvbc

CONSTANTS
  Sources,     \* the programs a host may compile
  MaxSymbols,  \* BRADC_MAX_SYMBOLS
  NumPreds,    \* BV_PRED_REGS
  ImmHalf,     \* 128: an 8-bit immediate is in -ImmHalf .. ImmHalf - 1
  NoPred,      \* an instruction line without @P#
  Nothing      \* no container, no session

VARIABLES
  source,    \* the program being compiled
  phase,     \* "labels", "emit", "ok" or "refused"
  line,      \* the next line of the current pass
  inKernel,  \* a.in_kernel
  kpc,       \* a.kpc: instructions of the current kernel so far
  syms,      \* a.syms, a sequence of [name, addr]
  image,     \* the image under construction
  file,      \* the packed container, or Nothing
  session    \* what bradlib_create and bradlib_launch set up, or Nothing

bradcVars == <<source, phase, line, inKernel, kpc, syms, image, file, session>>

-----------------------------------------------------------------------------
(* One instruction line.                                                    *)

ZeroOperand == {"RET", "EXIT", "BAR", "TRAP"}
Branches == {"BR", "BR_COND", "CALL"}
Specials == {"LANE_ID", "WARP_SZ", "CLOCK"}
SingleSource ==
  {"ABS", "NEG", "NOT", "POPC", "CLZ", "SQRT", "RSQRT", "RCP", "SIN", "COS", "EXP2", "LOG2"}
Loads == {"LOAD", "LOADV"}
Stores == {"STORE", "STOREV"}
VectorOps == {"VADD", "VMUL", "VDOT", "VMAD", "VBROADCAST", "VREDUCE"}
TwoSource ==
  VectorOps \cup {"ADD", "SUB", "MUL", "MAD", "DIV", "MIN", "MAX", "SEL", "IADD", "ISUB",
                  "IMUL", "IDIV", "IMAD", "SHL", "SHR", "AND", "OR", "XOR"}
\* The mnemonics of optab.
Known == ZeroOperand \cup Branches \cup Specials \cup SingleSource \cup Loads \cup Stores
           \cup TwoSource \cup {"CMP", "MOV", "ADDi"}

\* The cast of an immediate to int8_t.
Int8(n) == ((n + ImmHalf) % (2 * ImmHalf)) - ImmHalf

NoOperand == [cls |-> "none", val |-> 0]
Operand(l, n) == IF n \in DOMAIN l.args THEN l.args[n] ELSE NoOperand
\* parse_operand: a number or a register, never a name or the end of the line.
IsOperand(o) == o.cls \in {"S", "V", "P", "num"}
\* The class parse_operand gives a number is that of no register.
IsReg(o, cls) == o.cls = cls

Insn(op, pred, dst, src1, src2, imm) ==
  [op |-> op, pred |-> pred, dst |-> dst, src1 |-> src1, src2 |-> src2, imm |-> imm]

\* parse_pred: the field is 0 without a predicate, one more than its number with one.
PredOf(l) == IF l.pred = NoPred THEN 0 ELSE l.pred + 1
PredFits(l) == l.pred = NoPred \/ l.pred < NumPreds

Found(name) == {i \in DOMAIN syms : syms[i].name = name}
AddrOf(name) == syms[Min(Found(name))].addr

\* Faulty variant: relative to the branch itself.
DistanceFromSelf(name) == AddrOf(name) - kpc
\* How far a label is from the instruction after the next one emitted.
Distance(name) == AddrOf(name) - (kpc + 1)

\* b_branch accepts its operand: a label within reach, or a number.
CanBranch(o) ==
  \/ o.cls = "num"
  \/ o.cls = "name" /\ Found(o.val) # {} /\ Distance(o.val) \in -ImmHalf .. ImmHalf - 1
BranchOffset(o) == IF o.cls = "num" THEN Int8(o.val) ELSE Distance(o.val)

DestinationClass(op) == IF op = "CMP" THEN "P" ELSE IF op = "LOADV" THEN "V" ELSE "S"

\* The base is the first operand of a store and the second of a load; the value
\* of a load must be scalar, even where its destination had to be a vector.
MemoryForm(l) ==
  LET store == l.op \in Stores
      base == Operand(l, IF store THEN 1 ELSE 2)
      value == Operand(l, IF store THEN 2 ELSE 1)
  IN /\ IsReg(base, "S")
     /\ IsReg(value, IF l.op = "STOREV" THEN "V" ELSE "S")
     /\ Operand(l, 3).cls = "num"

SecondSourceClass(op) == IF op \in VectorOps \ {"VBROADCAST"} THEN "V" ELSE "S"

\* The line passes every test of the second pass before b_emit.
Accepted(l) ==
  LET d == Operand(l, 1)
      a1 == Operand(l, 2)
      a2 == Operand(l, 3)
  IN /\ PredFits(l)
     /\ l.op \in Known
     /\ \/ l.op \in ZeroOperand
        \/ l.op \in Branches /\ CanBranch(d)
        \/ l.op \in Specials /\ IsReg(d, "S")
        \/ /\ l.op \notin ZeroOperand \cup Branches \cup Specials
           /\ IsReg(d, DestinationClass(l.op))
           /\ IsOperand(a1)
           /\ \/ l.op = "CMP" /\ a2.cls \in {"num", "S"}
              \/ l.op \in Loads \cup Stores /\ MemoryForm(l)
              \/ l.op \in SingleSource \cup {"MOV"}
              \/ l.op = "ADDi" /\ a2.cls = "num"
              \/ l.op \in TwoSource /\ IsReg(a2, SecondSourceClass(l.op))

\* What an accepted line is encoded as. A number where a register is expected is
\* taken for a register number, and the number compared with by CMP is dropped.
Encoded(l) ==
  LET d == Operand(l, 1).val
      a1 == Operand(l, 2).val
      a2 == Operand(l, 3)
      p == PredOf(l)
  IN CASE l.op \in ZeroOperand -> Insn(l.op, p, 0, 0, 0, 0)
       [] l.op \in Branches -> Insn(l.op, p, 0, 0, 0, BranchOffset(Operand(l, 1)))
       [] l.op \in Specials -> Insn(l.op, p, d, 0, 0, 0)
       [] l.op = "CMP" -> Insn(l.op, p, d, a1, IF a2.cls = "S" THEN a2.val ELSE 0, 0)
       [] l.op \in Loads -> Insn(l.op, p, d, a1, 0, Int8(a2.val))
       [] l.op \in Stores -> Insn(l.op, p, a1, d, 0, Int8(a2.val))
       [] l.op = "MOV" -> Insn("ADDi", p, d, a1, 0, 0)
       [] l.op = "ADDi" -> Insn(l.op, p, d, a1, 0, Int8(a2.val))
       [] l.op \in SingleSource -> Insn(l.op, p, d, a1, 0, 0)
       [] l.op \in TwoSource -> Insn(l.op, p, d, a1, a2.val, 0)

-----------------------------------------------------------------------------
(* The two passes.                                                          *)

AtLine(p, kind) ==
  phase = p /\ line <= Len(source) /\ source[line].kind = kind
Advance == line' = line + 1
KeepOutput == UNCHANGED <<image, file, session>>
Refuse ==
  /\ phase' = "refused"
  /\ UNCHANGED <<source, line, inKernel, kpc, syms, image, file, session>>

Init ==
  /\ source \in Sources
  /\ phase = "labels" /\ line = 1 /\ inKernel = FALSE /\ kpc = 0 /\ syms = <<>>
  /\ image = NoImage /\ file = Nothing /\ session = Nothing

CollectDirective ==
  /\ AtLine("labels", "kernel") \/ AtLine("labels", "end")
  /\ inKernel' = (source[line].kind = "kernel")
  /\ kpc' = 0
  /\ Advance
  /\ UNCHANGED <<source, phase, syms>> /\ KeepOutput

\* A label of a kernel is kept if its name is new and the table has room.
CollectLabel ==
  /\ AtLine("labels", "label")
  /\ LET name == source[line].name
     IN syms' = IF inKernel /\ Found(name) = {} /\ Len(syms) < MaxSymbols
                THEN Append(syms, [name |-> name, addr |-> kpc]) ELSE syms
  /\ Advance
  /\ UNCHANGED <<source, phase, inKernel, kpc>> /\ KeepOutput

CollectInsn ==
  /\ AtLine("labels", "insn")
  /\ kpc' = IF inKernel THEN kpc + 1 ELSE kpc
  /\ Advance
  /\ UNCHANGED <<source, phase, inKernel, syms>> /\ KeepOutput

StartEmit ==
  /\ phase = "labels" /\ line > Len(source)
  /\ phase' = "emit" /\ line' = 1 /\ inKernel' = FALSE /\ kpc' = 0
  /\ image' = NoImage
  /\ UNCHANGED <<source, syms, file, session>>

BeginKernel ==
  /\ AtLine("emit", "kernel")
  /\ IF ~inKernel /\ CanAddKernel(image, source[line].name)
     THEN /\ image' = AddKernel(image, source[line].name, Len(image.insns), 0)
          /\ inKernel' = TRUE /\ kpc' = 0
          /\ Advance
          /\ UNCHANGED <<source, phase, syms, file, session>>
     ELSE Refuse

EndKernel ==
  /\ AtLine("emit", "end")
  /\ IF inKernel
     THEN /\ inKernel' = FALSE /\ kpc' = 0
          /\ Advance
          /\ UNCHANGED <<source, phase, syms>> /\ KeepOutput
     ELSE Refuse

SkipLabel ==
  /\ AtLine("emit", "label")
  /\ Advance
  /\ UNCHANGED <<source, phase, inKernel, kpc, syms>> /\ KeepOutput

EmitInsn ==
  /\ AtLine("emit", "insn")
  /\ LET l == source[line]
     IN IF Accepted(l) /\ inKernel /\ CanAddInsn(image)
        THEN /\ image' = AddInsn(image, Encoded(l))
             /\ kpc' = kpc + 1
             /\ Advance
             /\ UNCHANGED <<source, phase, inKernel, syms, file, session>>
        ELSE Refuse

Finish ==
  /\ phase = "emit" /\ line > Len(source)
  /\ IF inKernel THEN Refuse
     ELSE /\ phase' = "ok"
          /\ UNCHANGED <<source, line, inKernel, kpc, syms>> /\ KeepOutput

-----------------------------------------------------------------------------
(* What a host does with a compiled program.                                *)

\* bradlib_pack.
Save ==
  /\ phase = "ok" /\ file = Nothing
  /\ file' = Pack(image)
  /\ UNCHANGED <<source, phase, line, inKernel, kpc, syms, image, session>>

\* bradlib_create on the program in memory, or bvrt_load of an unpacked file
\* of which len bytes are left.
Create ==
  /\ phase = "ok" /\ session = Nothing
  /\ session' = [img |-> image, kernel |-> 0, pc |-> 0, from |-> "memory"]
  /\ UNCHANGED <<source, phase, line, inKernel, kpc, syms, image, file>>

Open(len) ==
  /\ session = Nothing /\ file # Nothing /\ Readable(file, len)
  /\ session' = [img |-> Unpack(file), kernel |-> 0, pc |-> 0,
                 from |-> IF len = ContainerSize(file) THEN "file" ELSE "cut"]
  /\ UNCHANGED <<source, phase, line, inKernel, kpc, syms, image, file>>

\* bradlib_launch: a name that is not found changes nothing.
Launch(name) ==
  /\ session # Nothing
  /\ LET k == FindKernel(session.img, name)
     IN k # 0 /\ session' = [session EXCEPT !.kernel = k, !.pc = session.img.kernels[k].entry]
  /\ UNCHANGED <<source, phase, line, inKernel, kpc, syms, image, file>>

\* bradlib_destroy.
Destroy ==
  /\ session # Nothing /\ session' = Nothing
  /\ UNCHANGED <<source, phase, line, inKernel, kpc, syms, image, file>>

Names == {image.kernels[k].name : k \in DOMAIN image.kernels}

Next ==
  \/ CollectDirective \/ CollectLabel \/ CollectInsn \/ StartEmit
  \/ BeginKernel \/ EndKernel \/ SkipLabel \/ EmitInsn \/ Finish
  \/ Save \/ Create \/ Destroy
  \/ file # Nothing /\ \E len \in {ContainerSize(file) - 1, ContainerSize(file)} : Open(len)
  \/ \E name \in Names : Launch(name)

Spec == Init /\ [][Next]_bradcVars

-----------------------------------------------------------------------------
(* Correctness.                                                             *)

\* Every variable holds a value of its type (bradvector/bradc.c).
TypeOK ==
  /\ phase \in {"labels", "emit", "ok", "refused"}
  /\ line \in 1 .. Len(source) + 1 /\ kpc \in 0 .. Len(source) /\ inKernel \in BOOLEAN
  /\ Len(syms) <= MaxSymbols /\ Len(image.insns) <= MaxInsns
  /\ Len(image.kernels) <= MaxKernels /\ Len(image.pool) <= PoolSize

LinesOf(kind) == {i \in DOMAIN source : source[i].kind = kind}
\* The index in the instruction stream of the first instruction at or after line i.
IndexOf(i) == Cardinality({j \in LinesOf("insn") : j < i})
\* The directive line i stands under, 0 before the first.
Under(i) == Max({0} \cup {j \in LinesOf("kernel") \cup LinesOf("end") : j < i})
Defines(j, name) == source[j].name = name /\ Under(j) \in LinesOf("kernel")

\* How far line i is into its kernel, in instructions.
Place(i) == IndexOf(i) - IndexOf(Under(i))

\* A branch or call to a name is accepted only if some kernel defines it, and the offset
\* the runtime adds to the next instruction takes it as far into its own kernel as the
\* first label of that name is into the kernel that defines it: both passes of
\* bradc_assemble count the same instructions. That is the instruction after the label
\* if its own kernel is the first to define it; names are not local to a kernel, and a
\* label that an earlier kernel also defines, or only another one, is taken for a place
\* of the branch's own kernel.
BranchesReachLabels ==
  phase = "ok" =>
    \A i \in LinesOf("insn") :
      source[i].op \in Branches /\ Operand(source[i], 1).cls = "name" =>
        LET defined == {j \in LinesOf("label") : Defines(j, source[i].args[1].val)}
        IN /\ defined # {}
           /\ Place(i) + 1 + image.insns[IndexOf(i) + 1].imm = Place(Min(defined))

\* A session has exactly the instructions and kernels that were compiled, and launching
\* a kernel by name starts it at the first instruction after the first .kernel line
\* with that name, whether the image came from memory or from a container
\* (bvbc_pack, bvbc_unpack); a container that was cut short is never opened.
LaunchStartsNamedKernel ==
  session # Nothing =>
    /\ session.from # "cut"
    /\ session.img.insns = image.insns /\ session.img.kernels = image.kernels
    /\ session.kernel # 0 =>
         LET name == image.kernels[session.kernel].name
         IN session.pc = IndexOf(Min({i \in LinesOf("kernel") : source[i].name = name}))
=============================================================================
