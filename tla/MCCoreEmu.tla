---------------------------- MODULE MCCoreEmu -----------------------------
(***************************************************************************)
(* Two cores, three programs of five words and one of data at address 20,   *)
(* and the four pipelines at their real depths. A word from the top of       *)
(* 0 .. Mod - 1 encodes the instruction Listed gives it; lower ones are data  *)
(* and encode ADD R0, R0, R0, as small words do.                            *)
(***************************************************************************)
EXTENDS CoreEmu

In(op, rd, rs1, rs2, imm) == [op |-> op, rd |-> rd, rs1 |-> rs1, rs2 |-> rs2, imm |-> imm]

\* R3 is the stack pointer, R4 the link register.
Listed ==
  <<In("CALL", 0, 0, 0, 8), In("STW", 0, 2, 1, 20), In("BZ", 0, 0, 0, 8), In("ADDI", 1, 1, 0, 4),
    In("RET", 0, 4, 0, 0), In("LDW", 1, 2, 0, 20), In("BZ", 0, 1, 0, 8), In("ADDI", 1, 1, 0, -4),
    In("BNZ", 0, 1, 0, -20), In("STW", 0, 2, 1, 12), In("MUL", 1, 1, 2, 0),
    In("JMP", 0, 0, 0, -20), In("ADD", 0, 1, 2, 0), In("RET", 0, 0, 0, 0),
    In("ADDI", 1, 1, 0, 5), In("ADDI", 2, 2, 0, 3),
    In("JMP", 0, 0, 0, -4)>>

Word(i) == Mod - i
MCDecode ==
  [w \in Values |-> IF Mod - w \in DOMAIN Listed THEN Listed[Mod - w] ELSE In("ADD", 0, 0, 0, 0)]
MCAlu(op, a, b) ==
  CASE op = "ADD" -> (a + b) % Mod [] op = "SUB" -> (a - b) % Mod [] op = "MUL" -> (a * b) % Mod
    [] OTHER -> a

At(addr, is) == [addr |-> addr, words |-> [i \in DOMAIN is |-> Word(is[i])]]
Memory(is, data) == [a \in Aligned |-> IF a \div 4 < Len(is) THEN Word(is[a \div 4 + 1]) ELSE data]

\* A subroutine and a store; the branch leaves for the data word, after which memory ends.
Subroutine == Memory(<<1, 2, 3, 4, 5>>, 0)
\* A loop whose branch is fetched last, so that the pipeline has begun to drain.
CountDown == Memory(<<6, 7, 8, 2, 9>>, 8)
\* A loop that overwrites its fourth word with the data word.
Rewriting == Memory(<<6, 10, 11, 4, 12>>, Word(8))
MCContents == {Subroutine, CountDown, Rewriting}
\* Loaded while cores run: a branch to itself at address 4.
MCImages == {At(4, <<17, 4>>)}

\* test_simple_program of tests/test_core_emu.c.
TestContents == {Memory(<<15, 16, 13, 14>>, 0)}

MCDepth == [m \in Models |-> CASE m = "PHOENIX" -> 10 [] m = "FALCON" -> 5
                               [] m = "KESTREL" -> 8 [] m = "FALCON_LITE" -> 3]
MCExecStage == [m \in Models |-> CASE m = "PHOENIX" -> 6 [] m = "FALCON" -> 3
                                   [] m = "KESTREL" -> 4 [] m = "FALCON_LITE" -> 1]
MCSocs == {[c \in Cores |-> IF c = 0 THEN "PHOENIX" ELSE "FALCON"],
           [c \in Cores |-> IF c = 0 THEN "KESTREL" ELSE "FALCON_LITE"]}
MCStarts == {[model |-> "FALCON", pc |-> 8, sp |-> 4]}
TestSocs == {[c \in Cores |-> "PHOENIX"]}
=============================================================================
