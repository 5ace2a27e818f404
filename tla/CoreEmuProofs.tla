--------------------------- MODULE CoreEmuProofs ---------------------------
(***************************************************************************)
(* Proofs about the core emulator, for any pipeline shapes, programs,        *)
(* memory size and choice of host calls.                                    *)
(***************************************************************************)
EXTENDS CoreEmu, TLAPS

(***************************************************************************)
(* Instructions.                                                           *)
(***************************************************************************)
LEMMA Sum32Type == ASSUME NEW a \in Int, NEW b \in Int PROVE Sum32(a, b) \in Values
  BY BradIsaConstants DEF Sum32, Values

LEMMA NotRefused == ASSUME NEW a \in Values, ~ Refused(a), ~ Outside(a) PROVE a \in Aligned
  BY DEF Outside

LEMMA AlignedType ==
  ASSUME NEW a \in Aligned
  PROVE  a \in Values /\ a + 4 \in Values /\ a + 4 <= MemSize
  BY BradIsaConstants DEF Aligned, Values

LEMMA RegType ==
  ASSUME NEW model, NEW regs \in [Regs -> Values], NEW r \in Regs
  PROVE  Reg(model, regs, r) \in Values
  BY BradIsaConstants DEF Reg, Regs, Values

LEMMA WrittenType ==
  ASSUME NEW model, NEW regs \in [Regs -> Values], NEW r \in Regs, NEW v \in Values
  PROVE  Written(model, regs, r, v) \in [Regs -> Values]
  BY DEF Written

\* What an instruction leaves has the right types, if it reads no word outside the aligned ones.
LEMMA ExecuteType ==
  ASSUME NEW model, NEW regs \in [Regs -> Values], NEW m \in Memories, NEW pc \in Aligned,
         NEW in \in Insns, ~ Undefined(model, regs, in)
  PROVE  LET r == Execute(model, regs, m, pc, in)
         IN r \in [regs : [Regs -> Values], mem : Memories, taken : BOOLEAN, pc : Values]
<1> DEFINE r == Execute(model, regs, m, pc, in)
           R == [regs : [Regs -> Values], mem : Memories, taken : BOOLEAN, pc : Values]
           base == Reg(model, regs, in.rs1)
<1> SUFFICES r \in R
  OBVIOUS
<1>1. in.rd \in Regs /\ in.rs1 \in Regs /\ in.rs2 \in Regs /\ in.imm \in Int /\ in.op \in Ops
  BY DEF Insns
<1>2. base \in Values /\ Reg(model, regs, in.rs2) \in Values
  BY <1>1, RegType
<1>3. 0 \in Values /\ Values \subseteq Int
  BY BradIsaConstants DEF Values
<1>4. \A f \in [Regs -> Values], g \in Memories : Falls(f, g) \in R
  BY <1>3 DEF Falls
<1>5. \A f \in [Regs -> Values], g \in Memories, p \in Values : Jumps(f, g, p) \in R
  BY DEF Jumps
<1>6. Relative(pc, in) \in Values
  BY <1>1, AlignedType, <1>3, Sum32Type DEF Relative
<1> HIDE DEF R
<1>7. CASE in.op \in AluOps
  <2>1. Alu(in.op, base, Reg(model, regs, in.rs2)) \in Values
    BY <1>2, <1>7, BradIsaConstants
  <2>2. AluResult(model, regs, in) \in [Regs -> Values]
    BY <2>1, <1>1, <1>3, WrittenType DEF AluResult
  <2>3. r = Falls(AluResult(model, regs, in), m)
    BY <1>7 DEF Execute, AluOps
  <2>4. QED
    BY <2>2, <2>3, <1>4
<1>8. CASE in.op = "ADDI"
  <2>1. Written(model, regs, in.rd, Sum32(base, in.imm)) \in [Regs -> Values]
    BY <1>1, <1>2, <1>3, Sum32Type, WrittenType
  <2>2. r = Falls(Written(model, regs, in.rd, Sum32(base, in.imm)), m)
    BY <1>8 DEF Execute, AluOps
  <2>3. QED
    BY <2>1, <2>2, <1>4
<1>9. CASE in.op \in {"LDW", "STW"}
  <2> DEFINE a == Target(model, regs, in)
  <2>1. a \in Values
    BY <1>1, <1>2, <1>3, Sum32Type DEF Target
  <2>2. ~ Refused(a) => a \in Aligned
    BY <2>1, <1>9, NotRefused DEF Undefined
  <2>3. Loaded(model, regs, m, in) \in [Regs -> Values]
    <3>1. ~ Refused(a) => m[a] \in Values
      BY <2>2 DEF Memories
    <3>2. QED
      BY <3>1, <1>1, WrittenType DEF Loaded
  <2>4. Stored(model, regs, m, in) \in Memories
    BY <1>2 DEF Stored, Memories
  <2>5. r = IF in.op = "LDW" THEN Falls(Loaded(model, regs, m, in), m)
            ELSE Falls(regs, Stored(model, regs, m, in))
    BY <1>9 DEF Execute, AluOps
  <2>6. QED
    BY <2>3, <2>4, <2>5, <1>4
<1>10. CASE in.op \in {"BZ", "BNZ", "JMP", "RET"}
  <2>1. r \in {Jumps(regs, m, Relative(pc, in)), Falls(regs, m), Jumps(regs, m, base)}
    BY <1>10 DEF Execute, AluOps
  <2>2. QED
    BY <2>1, <1>2, <1>4, <1>5, <1>6
<1>11. CASE in.op = "CALL"
  <2>1. [regs EXCEPT ![Lr] = pc + 4] \in [Regs -> Values]
    BY AlignedType
  <2>2. r = Jumps([regs EXCEPT ![Lr] = pc + 4], m, Relative(pc, in))
    BY <1>11 DEF Execute, AluOps
  <2>3. QED
    BY <2>1, <2>2, <1>5, <1>6
<1>12. \/ in.op \in AluOps \/ in.op = "ADDI" \/ in.op \in {"LDW", "STW"}
       \/ in.op \in {"BZ", "BNZ", "JMP", "RET"} \/ in.op = "CALL"
  BY <1>1 DEF Ops
<1>13. QED
  BY <1>7, <1>8, <1>9, <1>10, <1>11, <1>12

(***************************************************************************)
(* Steps of one core.                                                      *)
(***************************************************************************)

\* What keeps the order of the pending instructions from step to step: what is in the pipeline
\* came from memory, draining begins at the end of memory, and one instruction is the oldest.
Sound(k) ==
  /\ \A s \in Stages(k) : k.stage[s].valid => k.stage[s].pc \in Aligned
  /\ InOrder(k)
  /\ k.drain => Refused(k.pc)
  /\ Pending(k) # {} => \E s \in Pending(k) : \A t \in Pending(k) : s >= t

LEMMA Shape ==
  ASSUME NEW md \in Models
  PROVE  Depth[md] \in Nat /\ ExecStage[md] \in 1 .. Depth[md] - 1
  BY CoreEmuConstants

LEMMA BubbleSlot == Bubble \in Slots /\ Bubble.valid = FALSE /\ Bubble.pc = 0
  BY BradIsaConstants DEF Bubble, Slots, Values

LEMMA CoreFields ==
  ASSUME NEW md \in Models, NEW k \in CoreState(md)
  PROVE  /\ k.model = md /\ k.regs \in [Regs -> Values] /\ k.pc \in Values
         /\ k.running \in BOOLEAN /\ k.drain \in BOOLEAN
         /\ k.stage \in [0 .. Depth[md] - 1 -> Slots]
  BY DEF CoreState

LEMMA WithStage ==
  ASSUME NEW md \in Models, NEW k \in CoreState(md), NEW st \in [0 .. Depth[md] - 1 -> Slots]
  PROVE  LET b == [k EXCEPT !.stage = st]
         IN /\ b \in CoreState(md)
            /\ b.regs = k.regs /\ b.pc = k.pc /\ b.stage = st
            /\ b.running = k.running /\ b.drain = k.drain
  BY DEF CoreState

LEMMA AdvancedFields ==
  ASSUME NEW md \in Models, NEW k \in CoreState(md)
  PROVE  LET b == Advanced(k)
         IN /\ b \in CoreState(md)
            /\ b.regs = k.regs /\ b.pc = k.pc
            /\ b.running = k.running /\ b.drain = k.drain
            /\ \A s \in 0 .. Depth[md] - 1 :
                 b.stage[s] = IF s = 0 THEN Bubble ELSE k.stage[s - 1]
<1> DEFINE st == [s \in 0 .. Depth[md] - 1 |-> IF s = 0 THEN Bubble ELSE k.stage[s - 1]]
<1>1. st \in [0 .. Depth[md] - 1 -> Slots]
  BY Shape, CoreFields, BubbleSlot
<1>2. Advanced(k) = [k EXCEPT !.stage = st]
  BY CoreFields DEF Advanced, Stages, CoreState
<1> HIDE DEF st
<1>3. \A s \in 0 .. Depth[md] - 1 : st[s] = IF s = 0 THEN Bubble ELSE k.stage[s - 1]
  BY DEF st
<1>4. QED
  BY <1>1, <1>2, <1>3, WithStage

LEMMA RetiredFields ==
  ASSUME NEW md \in Models, NEW k \in CoreState(md)
  PROVE  LET b == Retired(k)
         IN /\ b \in CoreState(md)
            /\ b.regs = k.regs /\ b.pc = k.pc
            /\ b.running = k.running /\ b.drain = k.drain
            /\ \A s \in 0 .. Depth[md] - 1 :
                 s # ExecStage[md] => b.stage[s] = k.stage[s]
            /\ b.stage[ExecStage[md]] \in {Bubble, k.stage[ExecStage[md]]}
<1> DEFINE st == [k.stage EXCEPT ![ExecStage[md]] = Bubble]
<1>1. st \in [0 .. Depth[md] - 1 -> Slots]
  BY CoreFields, BubbleSlot
<1>2. Retired(k) = IF md \in {"FALCON", "FALCON_LITE"} THEN [k EXCEPT !.stage = st] ELSE k
  BY CoreFields DEF Retired, CoreState
<1>3. /\ \A s \in 0 .. Depth[md] - 1 : s # ExecStage[md] => st[s] = k.stage[s]
      /\ st[ExecStage[md]] = Bubble
  BY Shape, CoreFields
<1> HIDE DEF st
<1>4. QED
  BY <1>1, <1>2, <1>3, WithStage

LEMMA FetchedFields ==
  ASSUME NEW md \in Models, NEW k \in CoreState(md), NEW m \in Memories,
         k.drain \/ ~ Outside(k.pc)
  PROVE  LET b == Fetched(k, m)
         IN /\ b \in CoreState(md)
            /\ b.regs = k.regs /\ b.running = k.running
            /\ b.drain <=> k.drain \/ Refused(k.pc)
            /\ b.pc = IF b.drain THEN k.pc ELSE k.pc + 4
            /\ b.stage[0] = IF b.drain THEN k.stage[0]
                            ELSE [valid |-> TRUE, pc |-> k.pc, word |-> m[k.pc]]
            /\ \A s \in 1 .. Depth[md] - 1 : b.stage[s] = k.stage[s]
<1>1. k.pc \in Values
  BY DEF CoreState
<1>2. CASE k.drain \/ Refused(k.pc)
  BY <1>2 DEF Fetched, CoreState
<1>3. CASE ~ k.drain /\ ~ Refused(k.pc)
  <2>1. k.pc \in Aligned /\ k.pc + 4 \in Values
    BY <1>1, <1>3, NotRefused, AlignedType
  <2>2. [valid |-> TRUE, pc |-> k.pc, word |-> m[k.pc]] \in Slots
    BY <1>1, <2>1 DEF Slots, Memories
  <2> DEFINE slot == [valid |-> TRUE, pc |-> k.pc, word |-> m[k.pc]]
             st == [k.stage EXCEPT ![0] = slot]
             b == [k EXCEPT !.stage = st]
  <2>3. /\ st \in [0 .. Depth[md] - 1 -> Slots] /\ st[0] = slot
        /\ \A s \in 1 .. Depth[md] - 1 : st[s] = k.stage[s]
    BY <2>2, Shape, CoreFields
  <2>4. Fetched(k, m) = [b EXCEPT !.pc = k.pc + 4]
    BY <1>3, CoreFields DEF Fetched, CoreState
  <2> HIDE DEF st
  <2>5. b \in CoreState(md) /\ b.regs = k.regs /\ b.stage = st
        /\ b.running = k.running /\ b.drain = k.drain
    BY <2>3, WithStage
  <2> HIDE DEF b
  <2>6. LET c == [b EXCEPT !.pc = k.pc + 4]
        IN c \in CoreState(md) /\ c.regs = b.regs /\ c.stage = b.stage /\ c.pc = k.pc + 4
           /\ c.running = b.running /\ c.drain = b.drain
    BY <2>1, <2>5 DEF CoreState
  <2>7. QED
    BY <1>3, <2>3, <2>4, <2>5, <2>6
<1>4. QED
  BY <1>2, <1>3

LEMMA HaltedFields ==
  ASSUME NEW md \in Models, NEW k \in CoreState(md)
  PROVE  LET b == Halted(k)
         IN /\ b \in CoreState(md)
            /\ b.regs = k.regs /\ b.pc = k.pc /\ b.drain = k.drain /\ b.stage = k.stage
            /\ k.running => b.running \/ (k.drain /\ Pending(k) = {})
            /\ b.running => k.running
<1>1. CASE Halted(k) = k
  BY <1>1, CoreFields
<1>2. CASE /\ Halted(k) = [k EXCEPT !.running = FALSE]
           /\ k.drain /\ \A s \in Stages(k) : ~ k.stage[s].valid
  <2>1. Pending(k) = {}
    BY <1>2, Shape, CoreFields DEF Pending, Stages
  <2>2. [k EXCEPT !.running = FALSE] \in CoreState(md)
    BY DEF CoreState
  <2>3. QED
    BY <1>2, <2>1, <2>2 DEF CoreState
<1>3. QED
  BY <1>1, <1>2 DEF Halted

\* Core n is core k after a step that takes no branch and leaves registers f and memory m: the
\* instructions moved up by one stage, and the next word was fetched unless the core drains.
MovedUp(md, k, m, f, n) ==
  /\ n \in CoreState(md)
  /\ n.regs = f
  /\ k.running => n.running \/ (n.drain /\ Pending(n) = {})
  /\ n.running => k.running
  /\ n.drain <=> k.drain \/ Refused(k.pc)
  /\ n.pc = IF n.drain THEN k.pc ELSE k.pc + 4
  /\ n.stage[0] = IF n.drain THEN Bubble
                  ELSE [valid |-> TRUE, pc |-> k.pc, word |-> m[k.pc]]
  /\ \A s \in 1 .. Depth[md] - 1 : s # ExecStage[md] => n.stage[s] = k.stage[s - 1]
  /\ n.stage[ExecStage[md]] \in {Bubble, k.stage[ExecStage[md] - 1]}

LEMMA UntakenStep ==
  ASSUME NEW md \in Models, NEW k \in CoreState(md), NEW m \in Memories, NEW f \in [Regs -> Values],
         k.drain \/ ~ Outside(k.pc)
  PROVE  MovedUp(md, k, m, f, Halted(Fetched(Retired([Advanced(k) EXCEPT !.regs = f]), m)))
<1> DEFINE a == Advanced(k)
           r == [a EXCEPT !.regs = f]
           t == Retired(r)
           q == Fetched(t, m)
           b == Halted(q)
<1> SUFFICES MovedUp(md, k, m, f, b)
  OBVIOUS
<1>1. /\ a \in CoreState(md) /\ a.pc = k.pc /\ a.running = k.running /\ a.drain = k.drain
      /\ \A s \in 0 .. Depth[md] - 1 : a.stage[s] = IF s = 0 THEN Bubble ELSE k.stage[s - 1]
  BY AdvancedFields
<1> HIDE DEF a
<1>2. /\ r \in CoreState(md) /\ r.regs = f /\ r.pc = a.pc /\ r.running = a.running
      /\ r.drain = a.drain /\ r.stage = a.stage
  BY <1>1 DEF CoreState
<1> HIDE DEF r
<1>3. /\ t \in CoreState(md) /\ t.regs = r.regs /\ t.pc = r.pc /\ t.running = r.running
      /\ t.drain = r.drain
      /\ \A s \in 0 .. Depth[md] - 1 : s # ExecStage[md] => t.stage[s] = r.stage[s]
      /\ t.stage[ExecStage[md]] \in {Bubble, r.stage[ExecStage[md]]}
  BY <1>2, RetiredFields
<1> HIDE DEF t
<1>4. t.drain \/ ~ Outside(t.pc)
  BY <1>1, <1>2, <1>3
<1>5. /\ q \in CoreState(md) /\ q.regs = t.regs /\ q.running = t.running
      /\ q.drain <=> t.drain \/ Refused(t.pc)
      /\ q.pc = IF q.drain THEN t.pc ELSE t.pc + 4
      /\ q.stage[0] = IF q.drain THEN t.stage[0]
                      ELSE [valid |-> TRUE, pc |-> t.pc, word |-> m[t.pc]]
      /\ \A s \in 1 .. Depth[md] - 1 : q.stage[s] = t.stage[s]
  BY <1>3, <1>4, FetchedFields
<1> HIDE DEF q
<1>6. /\ b \in CoreState(md) /\ b.regs = q.regs /\ b.pc = q.pc /\ b.drain = q.drain
      /\ b.stage = q.stage
      /\ q.running => b.running \/ (q.drain /\ Pending(q) = {})
      /\ b.running => q.running
  BY <1>5, HaltedFields
<1>7. Pending(b) = Pending(q)
  BY <1>5, <1>6, CoreFields DEF Pending
<1> HIDE DEF b
<1>8. /\ b.regs = f
      /\ b.drain <=> k.drain \/ Refused(k.pc)
      /\ b.pc = IF b.drain THEN k.pc ELSE k.pc + 4
      /\ k.running => b.running \/ (b.drain /\ Pending(b) = {})
      /\ b.running => k.running
  BY <1>1, <1>2, <1>3, <1>5, <1>6, <1>7
<1>9. 0 \in 0 .. Depth[md] - 1 /\ 0 # ExecStage[md] /\ ExecStage[md] \in 1 .. Depth[md] - 1
  BY Shape
<1>10. b.stage[0] = IF b.drain THEN Bubble
                   ELSE [valid |-> TRUE, pc |-> k.pc, word |-> m[k.pc]]
  BY <1>1, <1>2, <1>3, <1>5, <1>6, <1>9
<1>11. \A s \in 1 .. Depth[md] - 1 : b.stage[s] = t.stage[s] /\ r.stage[s] = k.stage[s - 1]
  BY <1>1, <1>2, <1>5, <1>6, Shape
<1>12. \A s \in 1 .. Depth[md] - 1 : s # ExecStage[md] => b.stage[s] = k.stage[s - 1]
  <2>1. SUFFICES ASSUME NEW s \in 1 .. Depth[md] - 1, s # ExecStage[md]
                 PROVE  b.stage[s] = k.stage[s - 1]
    OBVIOUS
  <2>2. t.stage[s] = r.stage[s]
    BY <2>1, <1>3, Shape
  <2>3. QED
    BY <2>2, <1>11
<1>13. b.stage[ExecStage[md]] \in {Bubble, k.stage[ExecStage[md] - 1]}
  BY <1>3, <1>9, <1>11
<1>14. QED
  BY <1>6, <1>8, <1>10, <1>12, <1>13 DEF MovedUp

LEMMA MovedPending ==
  ASSUME NEW md \in Models, NEW k \in CoreState(md), NEW m, NEW f, NEW n, MovedUp(md, k, m, f, n)
  PROVE  /\ Pending(n) \subseteq 0 .. ExecStage[md] - 1
         /\ Pending(k) \subseteq 0 .. ExecStage[md] - 1
         /\ 0 \in Pending(n) <=> ~ n.drain
         /\ \A s \in 1 .. ExecStage[md] - 1 :
              /\ s \in Pending(n) <=> s - 1 \in Pending(k)
              /\ n.stage[s] = k.stage[s - 1]
<1>1. k.model = md /\ n.model = md /\ n.drain \in BOOLEAN
  BY CoreFields DEF MovedUp
<1>2. ExecStage[md] \in Nat /\ Depth[md] \in Nat /\ 0 < ExecStage[md] /\ ExecStage[md] < Depth[md]
  BY Shape
<1>3. \A s \in 1 .. ExecStage[md] - 1 : n.stage[s] = k.stage[s - 1]
  BY <1>2 DEF MovedUp
<1>4. n.stage[0].valid <=> ~ n.drain
  BY <1>1, BubbleSlot DEF MovedUp
<1>5. 0 \in 0 .. ExecStage[md] - 1
  BY <1>2
<1>6. \A s \in 1 .. ExecStage[md] - 1 : s - 1 \in 0 .. ExecStage[md] - 1 /\ s \in 0 .. ExecStage[md] - 1
  BY <1>2
<1>7. QED
  BY <1>1, <1>3, <1>4, <1>5, <1>6 DEF Pending

\* A step that takes no branch keeps a core sound.
LEMMA MovedSound ==
  ASSUME NEW md \in Models, NEW k \in CoreState(md), NEW m, NEW f, NEW n, MovedUp(md, k, m, f, n),
         Sound(k), k.drain \/ ~ Outside(k.pc)
  PROVE  Sound(n)
<1> DEFINE E == ExecStage[md]
<1>1. k.model = md /\ n.model = md /\ n \in CoreState(md) /\ n.drain \in BOOLEAN /\ k.drain \in BOOLEAN
      /\ k.pc \in Values
  BY CoreFields DEF MovedUp
<1>2. E \in Nat /\ Depth[md] \in Nat /\ 0 < E /\ E < Depth[md]
  BY Shape
<1>3. /\ n.drain <=> k.drain \/ Refused(k.pc)
      /\ n.pc = IF n.drain THEN k.pc ELSE k.pc + 4
  BY DEF MovedUp
<1>4. k.drain => Refused(k.pc)
  BY DEF Sound
<1>5. ~ n.drain => n.stage[0].pc = k.pc /\ k.pc \in Aligned
  BY <1>1, <1>3, NotRefused DEF MovedUp
<1>6. \A s \in Stages(n) : n.stage[s].valid => n.stage[s].pc \in Aligned
  <2>1. SUFFICES ASSUME NEW s \in 0 .. Depth[md] - 1, n.stage[s].valid
                 PROVE  n.stage[s].pc \in Aligned
    BY <1>1 DEF Stages
  <2>2. CASE s = 0
    BY <2>1, <2>2, <1>1, <1>5, BubbleSlot DEF MovedUp
  <2>3. CASE s # 0
    <3>1. s - 1 \in Stages(k) /\ s \in 1 .. Depth[md] - 1
      BY <1>1, <1>2, <2>3 DEF Stages
    <3>2. n.stage[s] = k.stage[s - 1]
      BY <2>1, <3>1, BubbleSlot DEF MovedUp
    <3>3. QED
      BY <2>1, <3>1, <3>2 DEF Sound
  <2>4. QED
    BY <2>2, <2>3
<1>7. InOrder(n)
  <2>1. SUFFICES ASSUME NEW s \in Pending(n)
                 PROVE  IF s - 1 \in Pending(n) THEN n.stage[s - 1].pc = n.stage[s].pc + 4
                        ELSE /\ n.pc = n.stage[s].pc + 4
                             /\ \A t \in Pending(n) : t >= s
                             /\ s > 0 => n.drain
    BY DEF InOrder
  <2>2. /\ s \in 0 .. E - 1
        /\ Pending(n) \subseteq 0 .. E - 1 /\ Pending(k) \subseteq 0 .. E - 1
        /\ 0 \in Pending(n) <=> ~ n.drain
        /\ \A t \in 1 .. E - 1 : /\ t \in Pending(n) <=> t - 1 \in Pending(k)
                                /\ n.stage[t] = k.stage[t - 1]
    BY MovedPending
  <2>3. CASE s = 0
    BY <2>2, <2>3, <1>3, <1>5
  <2>4. CASE s > 0
    <3>1. s - 1 \in Pending(k) /\ n.stage[s] = k.stage[s - 1]
      BY <2>2, <2>4
    <3>2. IF s - 2 \in Pending(k) THEN k.stage[s - 2].pc = k.stage[s - 1].pc + 4
          ELSE /\ k.pc = k.stage[s - 1].pc + 4
               /\ \A t \in Pending(k) : t >= s - 1
               /\ s - 1 > 0 => k.drain
      <4>1. (s - 1) - 1 = s - 2
        BY <2>2
      <4>2. QED
        BY <3>1, <4>1 DEF Sound, InOrder
    <3>3. CASE s = 1
      <4>1. s - 2 \notin Pending(k)
        BY <2>2, <3>3
      <4>2. CASE n.drain
        BY <2>2, <3>1, <3>2, <3>3, <4>1, <4>2, <1>3
      <4>3. CASE ~ n.drain
        BY <2>2, <3>1, <3>2, <3>3, <4>1, <4>3, <1>5
      <4>4. QED
        BY <4>2, <4>3, <1>1
    <3>4. CASE s > 1
      <4>1. /\ s - 1 \in Pending(n) <=> s - 2 \in Pending(k)
            /\ n.stage[s - 1] = k.stage[s - 2]
        <5>1. s - 1 \in 1 .. E - 1 /\ (s - 1) - 1 = s - 2
          BY <2>2, <3>4
        <5>2. QED
          BY <2>2, <5>1
      <4>2. CASE s - 2 \in Pending(k)
        BY <3>1, <3>2, <4>1, <4>2
      <4>3. CASE s - 2 \notin Pending(k)
        <5>1. k.drain /\ n.drain /\ n.pc = k.pc
          BY <1>3, <2>2, <3>2, <3>4, <4>3
        <5>2. ASSUME NEW t \in Pending(n) PROVE t >= s
          <6>1. t \in 1 .. E - 1 /\ t - 1 \in Pending(k)
            BY <2>2, <5>1
          <6>2. QED
            BY <2>2, <3>2, <4>3, <6>1
        <5>3. QED
          BY <3>1, <3>2, <4>1, <4>3, <5>1, <5>2
      <4>4. QED
        BY <4>2, <4>3
    <3>5. QED
      BY <2>2, <2>4, <3>3, <3>4
  <2>5. QED
    BY <2>2, <2>3, <2>4
<1>8. n.drain => Refused(n.pc)
  BY <1>3, <1>4
<1>9. Pending(n) # {} => \E s \in Pending(n) : \A t \in Pending(n) : s >= t
  <2>1. SUFFICES ASSUME Pending(n) # {} PROVE \E s \in Pending(n) : \A t \in Pending(n) : s >= t
    OBVIOUS
  <2>2. /\ Pending(n) \subseteq 0 .. E - 1 /\ Pending(k) \subseteq 0 .. E - 1
        /\ \A t \in 1 .. E - 1 : t \in Pending(n) <=> t - 1 \in Pending(k)
    BY MovedPending
  <2>3. CASE \A t \in Pending(n) : t = 0
    BY <2>1, <2>2, <2>3
  <2>4. CASE \E t \in Pending(n) : t # 0
    <3>1. PICK t \in Pending(n) : t # 0
      BY <2>4
    <3>2. t \in 1 .. E - 1 /\ t - 1 \in Pending(k)
      BY <2>2, <3>1
    <3>3. PICK o \in Pending(k) : \A u \in Pending(k) : o >= u
      BY <3>2 DEF Sound
    <3>4. CASE o < E - 1
      <4>1. o + 1 \in 1 .. E - 1 /\ (o + 1) - 1 = o
        BY <2>2, <3>4, <1>2
      <4>2. o + 1 \in Pending(n)
        BY <2>2, <3>3, <4>1
      <4>3. ASSUME NEW u \in Pending(n) PROVE o + 1 >= u
        BY <2>2, <3>3, <4>1, <1>2
      <4>4. QED
        BY <4>2, <4>3
    <3>5. CASE o = E - 1
      <4>1. o - 1 \in Pending(k)
        BY <2>2, <3>2, <3>3, <3>5, <1>2 DEF Sound, InOrder
      <4>2. E - 1 \in Pending(n)
        BY <2>2, <3>5, <4>1, <1>2
      <4>3. QED
        BY <2>2, <4>2, <1>2
    <3>6. QED
      BY <2>2, <3>3, <3>4, <3>5, <1>2
  <2>5. QED
    BY <2>3, <2>4
<1>10. QED
  BY <1>6, <1>7, <1>8, <1>9 DEF Sound

LEMMA OldestPc ==
  ASSUME NEW md \in Models, NEW k \in CoreState(md), NEW s \in Pending(k),
         \A t \in Pending(k) : s >= t
  PROVE  ArchPc(k) = k.stage[s].pc
<1>1. Pending(k) \subseteq Int
  BY CoreFields, Shape DEF Pending
<1>2. Max(Pending(k)) = s
  BY <1>1 DEF Max
<1>3. QED
  BY <1>2 DEF ArchPc

\* An untaken step leaves a core at the same place of its program, or past the instruction
\* that was at the stage before execution.
LEMMA MovedPc ==
  ASSUME NEW md \in Models, NEW k \in CoreState(md), NEW m, NEW f, NEW n, MovedUp(md, k, m, f, n),
         Sound(k), Sound(n)
  PROVE  LET s == ExecStage[md] - 1
         IN ArchPc(n) = IF s \in Pending(k) THEN ArchPc(k) + 4 ELSE ArchPc(k)
<1> DEFINE E == ExecStage[md]
<1>1. k.model = md /\ n.model = md /\ n \in CoreState(md) /\ n.drain \in BOOLEAN
  BY CoreFields DEF MovedUp
<1>2. E \in Nat /\ 0 < E
  BY Shape
<1>3. /\ Pending(n) \subseteq 0 .. E - 1 /\ Pending(k) \subseteq 0 .. E - 1
      /\ 0 \in Pending(n) <=> ~ n.drain
      /\ \A t \in 1 .. E - 1 : /\ t \in Pending(n) <=> t - 1 \in Pending(k)
                              /\ n.stage[t] = k.stage[t - 1]
  BY MovedPending
<1>4. ASSUME \A t \in 1 .. E - 1 : t \notin Pending(n)
      PROVE  ArchPc(n) = k.pc
  <2>1. CASE n.drain
    <3>1. Pending(n) = {}
      BY <1>2, <1>3, <1>4, <2>1
    <3>2. QED
      BY <3>1, <2>1 DEF ArchPc, MovedUp
  <2>2. CASE ~ n.drain
    <3>1. 0 \in Pending(n) /\ \A t \in Pending(n) : 0 >= t
      BY <1>2, <1>3, <1>4, <2>2
    <3>2. ArchPc(n) = n.stage[0].pc
      BY <1>1, <3>1, OldestPc
    <3>3. QED
      BY <3>2, <2>2 DEF MovedUp
  <2>3. QED
    BY <2>1, <2>2, <1>1
<1>5. CASE E - 1 \in Pending(k)
  <2>1. ArchPc(k) = k.stage[E - 1].pc
    BY <1>2, <1>3, <1>5, OldestPc
  <2>2. CASE E - 2 \in Pending(k)
    <3>1. E - 1 \in 1 .. E - 1 /\ (E - 1) - 1 = E - 2
      BY <1>2, <1>3, <2>2
    <3>2. E - 1 \in Pending(n) /\ n.stage[E - 1] = k.stage[E - 2]
      BY <1>3, <2>2, <3>1
    <3>3. ArchPc(n) = k.stage[E - 2].pc
      BY <1>1, <1>2, <1>3, <3>2, OldestPc
    <3>4. k.stage[E - 2].pc = k.stage[E - 1].pc + 4
      BY <1>5, <2>2, <3>1 DEF Sound, InOrder
    <3>5. QED
      BY <1>5, <2>1, <3>3, <3>4
  <2>3. CASE E - 2 \notin Pending(k)
    <3>1. /\ k.pc = k.stage[E - 1].pc + 4
          /\ \A t \in Pending(k) : t >= E - 1
      <4>1. (E - 1) - 1 = E - 2
        BY <1>2
      <4>2. QED
        BY <1>5, <2>3, <4>1 DEF Sound, InOrder
    <3>2. \A t \in 1 .. E - 1 : t \notin Pending(n)
      BY <1>2, <1>3, <3>1
    <3>3. QED
      BY <1>4, <1>5, <2>1, <3>1, <3>2
  <2>4. QED
    BY <2>2, <2>3
<1>6. CASE E - 1 \notin Pending(k)
  <2>1. CASE Pending(k) = {}
    <3>1. \A t \in 1 .. E - 1 : t \notin Pending(n)
      BY <1>3, <2>1
    <3>2. QED
      BY <1>4, <1>6, <2>1, <3>1 DEF ArchPc
  <2>2. CASE Pending(k) # {}
    <3>1. PICK o \in Pending(k) : \A t \in Pending(k) : o >= t
      BY <2>2 DEF Sound
    <3>2. o + 1 \in 1 .. E - 1 /\ (o + 1) - 1 = o
      BY <1>2, <1>3, <1>6, <3>1
    <3>3. /\ o + 1 \in Pending(n) /\ n.stage[o + 1] = k.stage[o]
          /\ \A t \in Pending(n) : o + 1 >= t
      BY <1>2, <1>3, <3>1, <3>2
    <3>4. ArchPc(n) = n.stage[o + 1].pc /\ ArchPc(k) = k.stage[o].pc
      BY <1>1, <3>1, <3>3, OldestPc
    <3>5. QED
      BY <1>6, <3>3, <3>4
  <2>3. QED
    BY <2>1, <2>2
<1>7. QED
  BY <1>5, <1>6

\* What the abstract machine sees of a step of core k on memory m to core n and memory l: nothing,
\* the stop of a core that has left memory, or the instruction at the core's place in its program.
Seen(md, k, m, n, l) ==
  \/ /\ l = m /\ n.regs = k.regs /\ ArchPc(n) = ArchPc(k)
     /\ n.running \/ Refused(ArchPc(k))
  \/ LET e == Execute(md, k.regs, m, ArchPc(k), Decode[m[ArchPc(k)]])
         next == IF e.taken THEN e.pc ELSE ArchPc(k) + 4
     IN /\ ArchPc(k) \in Aligned
        /\ l = e.mem /\ n.regs = e.regs /\ ArchPc(n) = next
        /\ n.running \/ (~ e.taken /\ Refused(next))

LEMMA FlushedFields ==
  ASSUME NEW md \in Models, NEW k \in CoreState(md), NEW pc \in Values, k.running
  PROVE  LET n == Flushed(k, pc)
         IN /\ n \in CoreState(md) /\ n.running /\ n.regs = k.regs
            /\ Sound(n) /\ ArchPc(n) = pc
<1> DEFINE st == Empty(md)
           b == [k EXCEPT !.stage = st]
           n == [b EXCEPT !.pc = pc, !.drain = FALSE]
<1>1. /\ st \in [0 .. Depth[md] - 1 -> Slots]
      /\ \A s \in 0 .. Depth[md] - 1 : st[s] = Bubble
  BY BubbleSlot DEF Empty
<1>2. Flushed(k, pc) = n
  BY CoreFields DEF Flushed, CoreState
<1> HIDE DEF st
<1>3. b \in CoreState(md) /\ b.regs = k.regs /\ b.stage = st /\ b.running
  BY <1>1, WithStage, CoreFields
<1> HIDE DEF b
<1>4. /\ n \in CoreState(md) /\ n.running /\ n.regs = k.regs
      /\ n.pc = pc /\ n.drain = FALSE /\ n.stage = st
  BY <1>3 DEF CoreState
<1> HIDE DEF n
<1>5. \A s \in 0 .. Depth[md] - 1 : n.stage[s].valid = FALSE
  BY <1>1, <1>4, BubbleSlot
<1>6. n.model = md
  BY <1>4, CoreFields
<1>7. Pending(n) = {}
  <2>1. \A s \in 0 .. ExecStage[md] - 1 : s \in 0 .. Depth[md] - 1
    BY Shape
  <2>2. QED
    BY <1>5, <1>6, <2>1 DEF Pending
<1>8. Sound(n) /\ ArchPc(n) = pc
  BY <1>4, <1>5, <1>6, <1>7 DEF Sound, InOrder, ArchPc, Stages
<1>9. QED
  BY <1>2, <1>4, <1>8

LEMMA CycleStep ==
  ASSUME NEW md \in Models, NEW k \in CoreState(md), NEW m \in Memories,
         Sound(k), k.running, Defined(k)
  PROVE  LET r == Cycle(k, m)
         IN /\ r.core \in CoreState(md) /\ Sound(r.core)
            /\ r.mem \in Memories
            /\ FreshIn(k, m) => Seen(md, k, m, r.core, r.mem)
<1> DEFINE a == Advanced(k)
           e == Issue(a, m)
           x == k.stage[ExecStage[md] - 1]
           b == [a EXCEPT !.regs = e.regs]
           r == Cycle(k, m)
<1>1. /\ a \in CoreState(md) /\ a.regs = k.regs /\ a.model = md /\ a.running = k.running
      /\ Issued(a) = x
  <2>1. a \in CoreState(md) /\ a.regs = k.regs /\ a.running = k.running
    BY AdvancedFields
  <2>2. a.model = md /\ ExecStage[md] \in 0 .. Depth[md] - 1 /\ ExecStage[md] # 0
    BY <2>1, Shape, CoreFields
  <2>3. a.stage[ExecStage[md]] = x
    BY <2>2, AdvancedFields
  <2>4. QED
    BY <2>1, <2>2, <2>3 DEF Issued
<1>2. k.model = md /\ k.regs \in [Regs -> Values]
  BY CoreFields
<1>3. x.valid <=> ExecStage[md] - 1 \in Pending(k)
  BY <1>2, Shape DEF Pending
<1>4. x.valid => x \in Slots /\ x.pc \in Aligned
  <2>1. ExecStage[md] - 1 \in 0 .. Depth[md] - 1
    BY Shape
  <2>2. QED
    BY <1>2, <2>1, CoreFields DEF Sound, Stages
<1>5. e = IF x.valid THEN Execute(md, k.regs, m, x.pc, Decode[x.word]) ELSE Falls(k.regs, m)
  BY <1>1 DEF Issue
<1>6. r = IF e.taken
           THEN [core |-> Flushed(b, e.pc), mem |-> e.mem, counted |-> FALSE]
           ELSE [core |-> Halted(Fetched(Retired(b), e.mem)), mem |-> e.mem, counted |-> TRUE]
  BY DEF Cycle
<1> HIDE DEF e
<1>7. /\ k.drain \/ ~ Outside(k.pc)
      /\ x.valid => ~ Undefined(md, k.regs, Decode[x.word])
  BY <1>1, <1>2 DEF Defined
<1>8. e.regs \in [Regs -> Values] /\ e.mem \in Memories /\ e.pc \in Values
  <2>1. CASE x.valid
    <3>1. Decode[x.word] \in Insns
      BY <1>4, <2>1, BradIsaConstants DEF Slots
    <3>2. QED
      BY <1>2, <1>4, <1>5, <1>7, <2>1, <3>1, ExecuteType
  <2>2. CASE ~ x.valid
    BY <1>2, <1>5, <2>2, BradIsaConstants DEF Falls, Values
  <2>3. QED
    BY <2>1, <2>2
<1>9. FreshIn(k, m) /\ x.valid =>
        /\ ArchPc(k) = x.pc
        /\ e = Execute(md, k.regs, m, ArchPc(k), Decode[m[ArchPc(k)]])
  <2>1. SUFFICES ASSUME FreshIn(k, m), x.valid
                 PROVE  ArchPc(k) = x.pc /\ x.word = m[x.pc]
    BY <1>5
  <2>2. \A t \in Pending(k) : ExecStage[md] - 1 >= t
    BY <1>2, Shape DEF Pending
  <2>3. QED
    BY <1>3, <2>1, <2>2, OldestPc DEF FreshIn
<1>10. /\ b \in CoreState(md) /\ b.running /\ b.regs = e.regs
  BY <1>1, <1>8 DEF CoreState
<1>11. CASE e.taken
  <2>1. r.core = Flushed(b, e.pc) /\ r.mem = e.mem
    BY <1>6, <1>11
  <2>2. x.valid
    BY <1>5, <1>11 DEF Falls
  <2> HIDE DEF b, r
  <2>3. /\ r.core \in CoreState(md) /\ r.core.running /\ r.core.regs = e.regs
        /\ Sound(r.core) /\ ArchPc(r.core) = e.pc
    BY <1>8, <1>10, <2>1, FlushedFields
  <2>4. FreshIn(k, m) => Seen(md, k, m, r.core, r.mem)
    BY <1>4, <1>9, <1>11, <2>1, <2>2, <2>3 DEF Seen
  <2>5. QED
    BY <1>8, <2>1, <2>3, <2>4 DEF r
<1>12. CASE ~ e.taken
  <2> DEFINE n == Halted(Fetched(Retired(b), e.mem))
  <2>1. r.core = n /\ r.mem = e.mem
    BY <1>6, <1>12
  <2>2. MovedUp(md, k, e.mem, e.regs, n)
    BY <1>7, <1>8, UntakenStep
  <2> HIDE DEF n
  <2>3. Sound(n)
    BY <1>7, <2>2, MovedSound
  <2>4. ArchPc(n) = IF x.valid THEN ArchPc(k) + 4 ELSE ArchPc(k)
    BY <1>3, <2>2, <2>3, MovedPc
  <2>5. n.running \/ Refused(ArchPc(n))
    <3>1. n.running \/ (n.drain /\ Pending(n) = {})
      BY <2>2 DEF MovedUp
    <3>2. QED
      BY <2>3, <3>1 DEF Sound, ArchPc
  <2>6. n \in CoreState(md) /\ n.regs = e.regs
    BY <2>2 DEF MovedUp
  <2>7. ASSUME FreshIn(k, m) PROVE Seen(md, k, m, n, e.mem)
    <3>1. CASE x.valid
      BY <1>4, <1>9, <1>12, <2>4, <2>5, <2>6, <2>7, <3>1 DEF Seen
    <3>2. CASE ~ x.valid
      <4>1. e.regs = k.regs /\ e.mem = m
        BY <1>5, <3>2 DEF Falls
      <4>2. QED
        BY <2>4, <2>5, <2>6, <3>2, <4>1 DEF Seen
    <3>3. QED
      BY <3>1, <3>2
  <2> HIDE DEF r
  <2>8. QED
    BY <1>8, <2>1, <2>3, <2>6, <2>7 DEF r
<1>13. QED
  BY <1>11, <1>12

(***************************************************************************)
(* The emulator.                                                           *)
(***************************************************************************)

\* Cores of the right type whose pipelines are sound, and memory of the right type.
CoresSound ==
  /\ core = [c \in Cores |-> core[c]]
  /\ \A c \in Cores : (\E md \in Models : core[c] \in CoreState(md)) /\ Sound(core[c])
  /\ mem \in Memories

\* The inductive invariant.
IInv == TypeOK /\ CoresSound

LEMMA ResetRegsType == ASSUME NEW v \in Values PROVE ResetRegs(v) \in [Regs -> Values]
  BY BradIsaConstants DEF ResetRegs, Values

LEMMA BootedSound ==
  ASSUME NEW st \in [model : Models, pc : Values, sp : Values]
  PROVE  LET k == Booted(st)
         IN /\ k \in CoreState(st.model) /\ Sound(k)
            /\ k.model = st.model /\ k.regs = ResetRegs(st.sp) /\ k.running = TRUE
            /\ ArchPc(k) = st.pc
<1> DEFINE k == Booted(st)
           e == Empty(st.model)
<1>1. e \in [0 .. Depth[st.model] - 1 -> Slots] /\ \A s \in 0 .. Depth[st.model] - 1 : e[s] = Bubble
  BY BubbleSlot DEF Empty
<1>2. /\ k.model = st.model /\ k.regs = ResetRegs(st.sp) /\ k.running = TRUE
      /\ k.pc = st.pc /\ k.drain = FALSE /\ k.stage = e
  BY DEF Booted
<1>3. k \in CoreState(st.model)
  BY <1>1, ResetRegsType DEF Booted, CoreState
<1> HIDE DEF k, e
<1>4. \A s \in 0 .. Depth[st.model] - 1 : k.stage[s].valid = FALSE
  BY <1>1, <1>2, BubbleSlot
<1>5. Pending(k) = {}
  <2>1. \A s \in 0 .. ExecStage[st.model] - 1 : s \in 0 .. Depth[st.model] - 1
    BY Shape
  <2>2. QED
    BY <1>2, <1>4, <2>1 DEF Pending
<1>6. Sound(k) /\ ArchPc(k) = st.pc
  BY <1>2, <1>4, <1>5 DEF Sound, InOrder, ArchPc, Stages
<1>7. QED
  BY <1>2, <1>3, <1>6 DEF k

LEMMA InitIInv == Init => IInv
<1> SUFFICES ASSUME Init PROVE IInv
  OBVIOUS
<1>1. PICK soc \in Socs :
        core = [c \in Cores |-> Booted([model |-> soc[c], pc |-> 0, sp |-> 0])]
  BY DEF Init
<1>2. mem \in Memories
  BY CoreEmuConstants DEF Init
<1>3. ASSUME NEW c \in Cores
      PROVE  (\E md \in Models : core[c] \in CoreState(md)) /\ Sound(core[c])
  <2> DEFINE st == [model |-> soc[c], pc |-> 0, sp |-> 0]
  <2>1. st \in [model : Models, pc : Values, sp : Values]
    BY CoreEmuConstants, BradIsaConstants DEF Values
  <2>2. core[c] = Booted(st)
    BY <1>1
  <2>3. QED
    BY <2>1, <2>2, BootedSound
<1>4. core = [c \in Cores |-> core[c]]
  BY <1>1
<1>5. /\ call \in [op : {"idle", "run", "all"}, core : 0 .. NumCores, left : Nat, any : BOOLEAN]
      /\ call.op = "run" => call.core \in Cores
      /\ calls \in 0 .. MaxCalls
  BY CoreEmuConstants DEF Init, Idle
<1>6. QED
  BY <1>2, <1>3, <1>4, <1>5 DEF IInv, TypeOK, CoresSound

\* A step of core c.
LEMMA SteppedSound ==
  ASSUME CoresSound, NEW c \in Cores, NEW r \in Outcomes(c), Stepped(c, r)
  PROVE  CoresSound'
<1>1. core[c].running /\ Defined(core[c]) /\ r = Cycle(core[c], mem)
  BY DEF Outcomes
<1>2. PICK md \in Models : core[c] \in CoreState(md)
  BY DEF CoresSound
<1>3. Sound(core[c]) /\ mem \in Memories
  BY DEF CoresSound
<1>4. /\ core' = [core EXCEPT ![c] = r.core] /\ mem' = r.mem
  BY DEF Stepped
<1>5. core'[c] = r.core /\ \A d \in Cores \ {c} : core'[d] = core[d]
  BY <1>4 DEF CoresSound
<1>6. core' = [d \in Cores |-> core'[d]]
  BY <1>4 DEF CoresSound
<1>7. r.core \in CoreState(md) /\ Sound(r.core) /\ r.mem \in Memories
  BY <1>1, <1>2, <1>3, CycleStep
<1>8. \A d \in Cores : (\E m \in Models : core'[d] \in CoreState(m)) /\ Sound(core'[d])
  BY <1>5, <1>7 DEF CoresSound
<1>9. QED
  BY <1>4, <1>6, <1>7, <1>8 DEF CoresSound, Sound, InOrder, Pending, Stages

LEMMA HostWrittenType ==
  ASSUME NEW model, NEW regs \in [Regs -> Values], NEW r \in Regs, NEW v \in Values
  PROVE  HostWritten(model, regs, r, v) \in [Regs -> Values]
  BY WrittenType DEF HostWritten

\* A register written by the host changes nothing of the pipeline.
LEMMA WriteRegSound ==
  ASSUME CoresSound, NEW c \in Cores, NEW f \in [Regs -> Values],
         core' = [core EXCEPT ![c].regs = f], mem' = mem
  PROVE  /\ CoresSound'
         /\ core'[c].regs = f /\ core'[c].model = core[c].model
         /\ core'[c].running = core[c].running /\ ArchPc(core'[c]) = ArchPc(core[c])
         /\ \A d \in Cores \ {c} : core'[d] = core[d]
<1> DEFINE n == [core[c] EXCEPT !.regs = f]
<1>1. PICK md \in Models : core[c] \in CoreState(md)
  BY DEF CoresSound
<1>2. /\ n \in CoreState(md) /\ n.regs = f /\ n.model = core[c].model /\ n.pc = core[c].pc
      /\ n.running = core[c].running /\ n.drain = core[c].drain /\ n.stage = core[c].stage
  BY <1>1 DEF CoreState
<1>3. core'[c] = n /\ \A d \in Cores \ {c} : core'[d] = core[d]
  BY DEF CoresSound
<1>4. core' = [d \in Cores |-> core'[d]]
  BY DEF CoresSound
<1> HIDE DEF n
<1>5. Pending(n) = Pending(core[c]) /\ Stages(n) = Stages(core[c])
  BY <1>2 DEF Pending, Stages
<1>6. Sound(n) /\ ArchPc(n) = ArchPc(core[c])
  BY <1>2, <1>5 DEF CoresSound, Sound, InOrder, ArchPc
<1>7. \A d \in Cores : (\E m \in Models : core'[d] \in CoreState(m)) /\ Sound(core'[d])
  BY <1>2, <1>3, <1>6 DEF CoresSound
<1>8. CoresSound'
  BY <1>4, <1>7 DEF CoresSound, Sound, InOrder, Pending, Stages
<1>9. QED
  BY <1>2, <1>3, <1>6, <1>8

LEMMA LoadedType ==
  ASSUME CoresSound, NEW i \in Images, Load(i)
  PROVE  mem' \in Memories
<1>1. ASSUME NEW a \in Aligned, a \in i.addr .. i.addr + 4 * Len(i.words) - 1
      PROVE  i.words[(a - i.addr) \div 4 + 1] \in Values
  <2>1. i.addr \in Nat /\ a \in Nat /\ i.words \in Seq(Values) /\ Len(i.words) \in Nat
    BY CoreEmuConstants DEF Aligned
  <2>2. (a - i.addr) \div 4 + 1 \in 1 .. Len(i.words)
    BY <1>1, <2>1
  <2>3. QED
    BY <2>1, <2>2
<1>2. QED
  BY <1>1 DEF Load, CoresSound, Memories

\* What a run of all cores leaves of its record.
LEMMA CallUpdate ==
  ASSUME NEW x \in [op : {"idle", "run", "all"}, core : 0 .. NumCores, left : Nat, any : BOOLEAN],
         x.op = "all", NEW c \in 0 .. NumCores, NEW l \in Nat, NEW b \in BOOLEAN,
         NEW y, \/ y = [x EXCEPT !.core = c]
                \/ y = [x EXCEPT !.core = c, !.any = b]
                \/ y = [x EXCEPT !.core = c, !.left = l, !.any = b]
  PROVE  /\ y.op = "all"
         /\ y \in [op : {"idle", "run", "all"}, core : 0 .. NumCores, left : Nat, any : BOOLEAN]
  OBVIOUS

LEMMA StepIInv == IInv /\ [Next]_vars => IInv'
<1> SUFFICES ASSUME IInv, [Next]_vars PROVE IInv'
  OBVIOUS
<1> DEFINE Calls == [op : {"idle", "run", "all"}, core : 0 .. NumCores, left : Nat, any : BOOLEAN]
           CallOK(x) == x \in Calls /\ (x.op = "run" => x.core \in Cores)
<1>1. CoresSound /\ CallOK(call) /\ calls \in 0 .. MaxCalls
  BY DEF IInv, TypeOK
<1>2. SUFFICES CoresSound' /\ CallOK(call') /\ calls' \in 0 .. MaxCalls
  BY DEF IInv, TypeOK, CoresSound
<1>3. CallOK(Idle)
  BY CoreEmuConstants DEF Idle
<1>4. Calling => calls' \in 0 .. MaxCalls
  BY <1>1, CoreEmuConstants DEF Calling
<1>5. ASSUME core' = core, mem' = mem PROVE CoresSound'
  BY <1>1, <1>5 DEF CoresSound, Sound, InOrder, Pending, Stages
<1>6. CASE \E c \in Cores : Step(c)
  BY <1>1, <1>4, <1>6, SteppedSound DEF Step
<1>7. ASSUME NEW c \in Cores, NEW st \in Starts, Restart(c, st)
      PROVE  CoresSound' /\ CallOK(call') /\ calls' \in 0 .. MaxCalls
  <2>1. st \in [model : Models, pc : Values, sp : Values]
    BY CoreEmuConstants
  <2>2. Booted(st) \in CoreState(st.model) /\ Sound(Booted(st)) /\ st.model \in Models
    BY <2>1, BootedSound
  <2>3. core' = [d \in Cores |-> core'[d]] /\ mem' = mem /\ call' = call
    BY <1>1, <1>7 DEF Restart, CoresSound
  <2>4. \A d \in Cores : core'[d] = IF d = c THEN Booted(st) ELSE core[d]
    BY <1>1, <1>7 DEF Restart, CoresSound
  <2>5. \A d \in Cores : (\E m \in Models : core'[d] \in CoreState(m)) /\ Sound(core'[d])
    BY <1>1, <2>2, <2>4 DEF CoresSound
  <2>6. CoresSound'
    BY <1>1, <2>3, <2>5 DEF CoresSound, Sound, InOrder, Pending, Stages
  <2>7. QED
    BY <1>1, <1>4, <1>7, <2>3, <2>6 DEF Restart
<1>8. ASSUME NEW c \in Cores, NEW r \in HostRegs, NEW v \in HostValues, WriteReg(c, r, v)
      PROVE  CoresSound' /\ CallOK(call') /\ calls' \in 0 .. MaxCalls
  <2> DEFINE f == HostWritten(core[c].model, core[c].regs, r, v)
  <2>1. f \in [Regs -> Values]
    <3>1. core[c].regs \in [Regs -> Values] /\ r \in Regs /\ v \in Values
      BY <1>1, CoreFields, CoreEmuConstants DEF CoresSound
    <3>2. QED
      BY <3>1, HostWrittenType
  <2>2. core' = [core EXCEPT ![c].regs = f] /\ mem' = mem /\ call' = call /\ Calling
    BY <1>8 DEF WriteReg
  <2> HIDE DEF f
  <2>3. CoresSound'
    BY <1>1, <2>1, <2>2, WriteRegSound
  <2>4. QED
    BY <1>1, <1>4, <2>2, <2>3
<1>9. ASSUME NEW i \in Images, Load(i)
      PROVE  CoresSound' /\ CallOK(call') /\ calls' \in 0 .. MaxCalls
  <2>2. mem' \in Memories
    BY <1>1, <1>9, LoadedType
  <2>3. core' = core /\ call' = call /\ Calling
    BY <1>9 DEF Load
  <2>4. CoresSound'
    BY <1>1, <2>2, <2>3 DEF CoresSound, Sound, InOrder, Pending, Stages
  <2>5. QED
    BY <1>1, <1>4, <2>3, <2>4
<1>10. ASSUME NEW c \in Cores, NEW max \in Budgets, Run(c, max)
       PROVE  CoresSound' /\ CallOK(call') /\ calls' \in 0 .. MaxCalls
  BY <1>1, <1>4, <1>5, <1>10, CoreEmuConstants DEF Run, Cores
<1>11. ASSUME NEW max \in Budgets, RunAll(max)
       PROVE  CoresSound' /\ CallOK(call') /\ calls' \in 0 .. MaxCalls
  BY <1>1, <1>4, <1>5, <1>11, CoreEmuConstants DEF RunAll
<1>12. CASE RunStep
  <2>1. call.core \in Cores /\ calls' = calls
    BY <1>1, <1>12 DEF RunStep
  <2>2. PICK r \in Outcomes(call.core) :
          LET spent == IF r.counted THEN 1 ELSE 0
          IN /\ Stepped(call.core, r)
             /\ call' = IF call.left <= spent THEN Idle ELSE [call EXCEPT !.left = @ - spent]
    BY <1>12 DEF RunStep
  <2>3. CoresSound'
    BY <1>1, <2>1, <2>2, SteppedSound
  <2>4. CallOK(call')
    BY <1>1, <1>3, <2>1, <2>2
  <2>5. QED
    BY <1>1, <2>1, <2>3, <2>4
<1>13. CASE RunReturn
  BY <1>1, <1>3, <1>5, <1>13 DEF RunReturn
<1>14. CASE AllStep
  <2>1. call.core \in Cores /\ calls' = calls
    <3>1. call.core < NumCores /\ calls' = calls
      BY <1>14 DEF AllStep
    <3>2. call.core \in 0 .. NumCores /\ NumCores \in Nat
      BY <1>1, CoreEmuConstants
    <3>3. QED
      BY <3>1, <3>2 DEF Cores
  <2>2. CoresSound'
    BY <1>1, <1>5, <1>14, <2>1, SteppedSound DEF AllStep
  <2>3. CallOK(call')
    <3>1. call.op = "all" /\ call.core + 1 \in 0 .. NumCores
      BY <1>14, <2>1, CoreEmuConstants DEF AllStep, Cores
    <3>2. \/ call' = [call EXCEPT !.core = call.core + 1, !.any = TRUE]
          \/ call' = [call EXCEPT !.core = call.core + 1]
      BY <1>14 DEF AllStep
    <3>3. CASE call' = [call EXCEPT !.core = call.core + 1, !.any = TRUE]
      BY <1>1, <3>1, <3>3, CallUpdate
    <3>4. CASE call' = [call EXCEPT !.core = call.core + 1]
      BY <1>1, <3>1, <3>4, CallUpdate
    <3>5. QED
      BY <3>2, <3>3, <3>4
  <2>4. QED
    BY <1>1, <2>1, <2>2, <2>3
<1>15. CASE AllRound
  <2>1. CoresSound' /\ calls' = calls
    BY <1>5, <1>15 DEF AllRound
  <2>2. CASE call.any /\ call.left > 1
    <3>1. call' = [call EXCEPT !.core = 0, !.left = call.left - 1, !.any = FALSE]
      BY <1>15, <2>2 DEF AllRound
    <3>2. call.op = "all" /\ 0 \in 0 .. NumCores /\ call.left \in Nat /\ call.left - 1 \in Nat
      BY <1>1, <1>15, <2>2, CoreEmuConstants DEF AllRound
    <3>3. CallOK(call')
      BY <1>1, <3>1, <3>2, CallUpdate
    <3>4. QED
      BY <1>1, <2>1, <3>3
  <2>3. CASE ~ (call.any /\ call.left > 1)
    <3>1. call' = Idle
      BY <1>15, <2>3 DEF AllRound
    <3>2. QED
      BY <1>1, <1>3, <2>1, <3>1
  <2>4. QED
    BY <2>2, <2>3
<1>16. CASE UNCHANGED vars
  BY <1>1, <1>5, <1>16 DEF vars
<1>17. QED
  BY <1>6, <1>7, <1>8, <1>9, <1>10, <1>11, <1>12, <1>13, <1>14, <1>15, <1>16 DEF Next, Progress

LEMMA Invariance == Spec => []IInv
  BY InitIInv, StepIInv, PTL DEF Spec

\* Registers, program counters and words keep their width and pipelines their depth, whatever the
\* program and whichever way the host runs the cores (execute, run_*_pipeline).
THEOREM TypeCorrect == Spec => []TypeOK
<1>1. IInv => TypeOK
  BY DEF IInv
<1>2. QED
  BY Invariance, <1>1, PTL

\* The instructions in flight are always a gapless stretch of the program that ends just before
\* the next fetch (advance_pipeline, pipeline_flush, run_*_pipeline).
THEOREM OrderKept == Spec => []PendingInOrder
<1>1. IInv => PendingInOrder
  BY DEF IInv, CoresSound, Sound, PendingInOrder
<1>2. QED
  BY Invariance, <1>1, PTL

(***************************************************************************)
(* The emulator implements CoreArch.                                       *)
(***************************************************************************)
LEMMA ArchOfPrimed ==
  ArchOf' = [c \in Cores |-> [model |-> core'[c].model, regs |-> core'[c].regs,
                           pc |-> ArchPc(core'[c]), running |-> core'[c].running]]
  BY DEF ArchOf, ArchPc, Pending

\* A step of one core changes the abstract state of that core alone.
LEMMA ArchOfOne ==
  ASSUME NEW c \in Cores, \A d \in Cores \ {c} : core'[d] = core[d]
  PROVE  /\ ArchOf[c] = [model |-> core[c].model, regs |-> core[c].regs,
                       pc |-> ArchPc(core[c]), running |-> core[c].running]
         /\ ArchOf' = [ArchOf EXCEPT ![c] =
                         [model |-> core'[c].model, regs |-> core'[c].regs,
                          pc |-> ArchPc(core'[c]), running |-> core'[c].running]]
<1>1. \A d \in Cores : ArchOf[d] = [model |-> core[d].model, regs |-> core[d].regs,
                                   pc |-> ArchPc(core[d]), running |-> core[d].running]
  BY DEF ArchOf
<1>2. ArchOf = [d \in Cores |-> ArchOf[d]]
  BY DEF ArchOf
<1>3. QED
  BY <1>1, <1>2, ArchOfPrimed

\* The instances of the operators of BradIsa in Arch are those operators.
LEMMA ArchSame ==
  /\ Arch!Aligned = Aligned /\ Arch!Memories = Memories
  /\ \A a : Arch!Refused(a) = Refused(a)
  /\ \A sp : Arch!ResetRegs(sp) = ResetRegs(sp)
  /\ \A model, regs, r, v : Arch!HostWritten(model, regs, r, v) = HostWritten(model, regs, r, v)
  /\ \A model, regs, m, pc : \A in \in Insns :
       Arch!Execute(model, regs, m, pc, in) = Execute(model, regs, m, pc, in)
<1>1. Arch!Aligned = Aligned /\ Arch!Memories = Memories /\ Arch!Values = Values
  BY DEF Arch!Aligned, Aligned, Arch!Memories, Memories, Arch!Values, Values
<1>2. \A a : Arch!Refused(a) = Refused(a)
  BY DEF Arch!Refused, Refused
<1>3. \A sp : Arch!ResetRegs(sp) = ResetRegs(sp)
  BY DEF Arch!ResetRegs, ResetRegs, Arch!Regs, Regs
<1>4. /\ \A model, regs, r : Arch!Reg(model, regs, r) = Reg(model, regs, r)
      /\ \A model, regs, r, v : Arch!Written(model, regs, r, v) = Written(model, regs, r, v)
  BY DEF Arch!Reg, Reg, Arch!Written, Written, Arch!NumRegsOf, NumRegsOf
<1>5. \A model, regs, r, v : Arch!HostWritten(model, regs, r, v) = HostWritten(model, regs, r, v)
  BY <1>4 DEF Arch!HostWritten, HostWritten
<1>6. \A a, b : Arch!Sum32(a, b) = Sum32(a, b)
  BY DEF Arch!Sum32, Sum32
<1>7. \A model, regs, in : Arch!Target(model, regs, in) = Target(model, regs, in)
  BY <1>4, <1>6 DEF Arch!Target, Target
<1>8. \A pc, in : Arch!Relative(pc, in) = Relative(pc, in)
  BY <1>6 DEF Arch!Relative, Relative
<1>9. \A model, regs, in : Arch!AluResult(model, regs, in) = AluResult(model, regs, in)
  BY <1>4 DEF Arch!AluResult, AluResult
<1>10. /\ \A model, regs, m, in : Arch!Loaded(model, regs, m, in) = Loaded(model, regs, m, in)
       /\ \A model, regs, m, in : Arch!Stored(model, regs, m, in) = Stored(model, regs, m, in)
  <2>1. ASSUME NEW model, NEW regs, NEW m, NEW in
        PROVE  /\ Arch!Loaded(model, regs, m, in) = Loaded(model, regs, m, in)
               /\ Arch!Stored(model, regs, m, in) = Stored(model, regs, m, in)
    <3> DEFINE a == Target(model, regs, in)
    <3>1. /\ Arch!Target(model, regs, in) = a /\ (Arch!Refused(a) <=> Refused(a))
          /\ Arch!Written(model, regs, in.rd, m[a]) = Written(model, regs, in.rd, m[a])
          /\ Arch!Reg(model, regs, in.rs2) = Reg(model, regs, in.rs2)
      BY <1>2, <1>4, <1>7
    <3> HIDE DEF a
    <3>2. /\ Arch!Loaded(model, regs, m, in) = IF Arch!Refused(a) THEN regs ELSE Arch!Written(model, regs, in.rd, m[a])
          /\ Arch!Stored(model, regs, m, in) = IF Arch!Refused(a) THEN m ELSE [m EXCEPT ![a] = Arch!Reg(model, regs, in.rs2)]
      BY <3>1 DEF Arch!Loaded, Arch!Stored
    <3>3. /\ Loaded(model, regs, m, in) = IF Refused(a) THEN regs ELSE Written(model, regs, in.rd, m[a])
          /\ Stored(model, regs, m, in) = IF Refused(a) THEN m ELSE [m EXCEPT ![a] = Reg(model, regs, in.rs2)]
      BY DEF Loaded, Stored, a
    <3>4. QED
      BY <3>1, <3>2, <3>3
  <2>2. QED
    BY <2>1
<1>11. \A regs, m, pc : Arch!Falls(regs, m) = Falls(regs, m) /\ Arch!Jumps(regs, m, pc) = Jumps(regs, m, pc)
  BY DEF Arch!Falls, Falls, Arch!Jumps, Jumps
<1>12. ASSUME NEW model, NEW regs, NEW m, NEW pc, NEW in \in Insns
       PROVE  Arch!Execute(model, regs, m, pc, in) = Execute(model, regs, m, pc, in)
  <2>1. Arch!AluOps = AluOps /\ in.op \in Ops
    BY DEF Arch!AluOps, AluOps, Insns
  <2> DEFINE base == Reg(model, regs, in.rs1)
             sum == Sum32(base, in.imm)
             to == Relative(pc, in)
  <2>2. /\ Arch!Reg(model, regs, in.rs1) = base /\ Arch!Sum32(base, in.imm) = sum
        /\ Arch!Relative(pc, in) = to
        /\ Arch!AluResult(model, regs, in) = AluResult(model, regs, in)
        /\ Arch!Written(model, regs, in.rd, sum) = Written(model, regs, in.rd, sum)
        /\ Arch!Loaded(model, regs, m, in) = Loaded(model, regs, m, in)
        /\ Arch!Stored(model, regs, m, in) = Stored(model, regs, m, in)
    BY <1>4, <1>6, <1>8, <1>9, <1>10
  <2> HIDE DEF base, sum, to
  <2>3. /\ \A f, g : Arch!Falls(f, g) = Falls(f, g)
        /\ \A f, g, p : Arch!Jumps(f, g, p) = Jumps(f, g, p)
    BY <1>11
  <2>4. CASE in.op \in AluOps
    BY <2>1, <2>2, <2>3, <2>4 DEF Arch!Execute, Execute, AluOps
  <2>5. CASE in.op = "ADDI"
    BY <2>1, <2>2, <2>3, <2>5 DEF Arch!Execute, Execute, AluOps, base, sum
  <2>6. CASE in.op \in {"LDW", "STW"}
    BY <2>1, <2>2, <2>3, <2>6 DEF Arch!Execute, Execute, AluOps
  <2>7. CASE in.op \in {"BZ", "BNZ"}
    BY <2>1, <2>2, <2>3, <2>7 DEF Arch!Execute, Execute, AluOps, base, to
  <2>8. CASE in.op \in {"JMP", "CALL", "RET"}
    BY <2>1, <2>2, <2>3, <2>8 DEF Arch!Execute, Execute, AluOps, base, to
  <2>9. QED
    BY <2>1, <2>4, <2>5, <2>6, <2>7, <2>8 DEF Ops
<1>13. QED
  BY <1>1, <1>2, <1>3, <1>5, <1>12

LEMMA StoppedRecord ==
  ASSUME NEW md, NEW f, NEW p, NEW a, NEW b, NEW r,
         r = [model |-> md, regs |-> f, pc |-> p, running |-> a]
  PROVE  [r EXCEPT !.running = b] = [model |-> md, regs |-> f, pc |-> p, running |-> b]
  OBVIOUS

LEMMA RegsRecord ==
  ASSUME NEW md, NEW f, NEW p, NEW a, NEW g, NEW r,
         r = [model |-> md, regs |-> f, pc |-> p, running |-> a]
  PROVE  [r EXCEPT !.regs = g] = [model |-> md, regs |-> g, pc |-> p, running |-> a]
  OBVIOUS

\* The abstract step that a step of core c is.
LEMMA SeenStep ==
  ASSUME NEW c \in Cores, NEW md \in Models,
         core[c] \in CoreState(md), core'[c] \in CoreState(md), core[c].running, mem \in Memories,
         \A d \in Cores \ {c} : core'[d] = core[d],
         Seen(md, core[c], mem, core'[c], mem')
  PROVE  UNCHANGED <<ArchOf, mem>> \/ Arch!Perform(c) \/ Arch!Stop(c)
<1> DEFINE k == core[c]
           n == core'[c]
           At(x, pc) == [model |-> x.model, regs |-> x.regs, pc |-> pc, running |-> x.running]
           pc == ArchPc(k)
<1>1. ArchOf[c] = At(k, pc) /\ ArchOf' = [ArchOf EXCEPT ![c] = At(n, ArchPc(n))]
  BY ArchOfOne
<1>2. k.model = md /\ n.model = md /\ n.running \in BOOLEAN /\ k.running = TRUE
  BY CoreFields
<1>3. ArchOf = [d \in Cores |-> ArchOf[d]]
  BY DEF ArchOf
<1>4. Seen(md, k, mem, n, mem')
  OBVIOUS
<1>5. ArchOf[c].model = md /\ ArchOf[c].regs = k.regs /\ ArchOf[c].pc = pc /\ ArchOf[c].running
  BY <1>1, <1>2
<1> HIDE DEF k, n, pc
<1>6. CASE mem' = mem /\ n.regs = k.regs /\ ArchPc(n) = pc /\ (n.running \/ Refused(pc))
  <2>1. CASE n.running
    <3>1. At(n, ArchPc(n)) = ArchOf[c]
      BY <1>1, <1>2, <1>6, <2>1
    <3>2. QED
      BY <1>1, <1>3, <1>6, <3>1
  <2>2. CASE ~ n.running
    <3>1. n.running = FALSE
      BY <1>2, <2>2
    <3>2. [ArchOf[c] EXCEPT !.running = n.running] = At(n, ArchPc(n))
      BY <1>1, <1>2, <1>6, StoppedRecord
    <3>3. ArchOf' = [ArchOf EXCEPT ![c].running = n.running]
      BY <1>1, <3>2
    <3>4. ArchOf' = [ArchOf EXCEPT ![c].running = FALSE]
      BY <3>1, <3>3
    <3>5. Arch!Stop(c)
      BY <1>5, <1>6, <2>2, <3>4, ArchSame DEF Arch!Stop
    <3>6. QED
      BY <3>5
  <2>3. QED
    BY <2>1, <2>2
<1> DEFINE e == Execute(md, k.regs, mem, pc, Decode[mem[pc]])
           next == IF e.taken THEN e.pc ELSE pc + 4
<1>7. CASE /\ pc \in Aligned /\ mem' = e.mem /\ n.regs = e.regs /\ ArchPc(n) = next
           /\ n.running \/ (~ e.taken /\ Refused(next))
  <2> HIDE DEF e, next
  <2>1. At(n, ArchPc(n)) = [model |-> md, regs |-> e.regs, pc |-> next, running |-> n.running]
    BY <1>2, <1>7
  <2>2. ArchOf' = [ArchOf EXCEPT ![c] = [model |-> ArchOf[c].model, regs |-> e.regs,
                                        pc |-> next, running |-> n.running]]
    BY <1>1, <1>5, <2>1
  <2>3. Arch!Perform(c)
    <3>0. Decode[mem[pc]] \in Insns
      BY <1>7, BradIsaConstants DEF Memories
    <3>1. /\ e = Arch!Execute(ArchOf[c].model, ArchOf[c].regs, mem, ArchOf[c].pc,
                              Decode[mem[ArchOf[c].pc]])
          /\ next = IF e.taken THEN e.pc ELSE ArchOf[c].pc + 4
      BY <1>5, <3>0, ArchSame DEF e, next
    <3>2. ArchOf[c].pc \in Arch!Aligned /\ (n.running \/ (~ e.taken /\ Arch!Refused(next)))
      BY <1>5, <1>7, ArchSame
    <3>3. QED
      BY <1>2, <1>5, <1>7, <2>2, <3>1, <3>2 DEF Arch!Perform
  <2>4. QED
    BY <2>3
<1>8. QED
  BY <1>4, <1>6, <1>7 DEF Seen, pc

LEMMA SteppedArch ==
  ASSUME CoresSound, Fresh, NEW c \in Cores, NEW r \in Outcomes(c), Stepped(c, r)
  PROVE  UNCHANGED <<ArchOf, mem>> \/ Arch!Next
<1>1. core[c].running /\ Defined(core[c]) /\ r = Cycle(core[c], mem)
  BY DEF Outcomes
<1>2. PICK md \in Models : core[c] \in CoreState(md)
  BY DEF CoresSound
<1>3. Sound(core[c]) /\ mem \in Memories /\ FreshIn(core[c], mem)
  BY DEF CoresSound, Fresh
<1>4. core'[c] = r.core /\ mem' = r.mem /\ \A d \in Cores \ {c} : core'[d] = core[d]
  BY DEF Stepped, CoresSound
<1>5. r.core \in CoreState(md) /\ Seen(md, core[c], mem, r.core, r.mem)
  BY <1>1, <1>2, <1>3, CycleStep
<1>6. UNCHANGED <<ArchOf, mem>> \/ Arch!Perform(c) \/ Arch!Stop(c)
  BY <1>1, <1>2, <1>3, <1>4, <1>5, SeenStep
<1>7. QED
  BY <1>6 DEF Arch!Next

\* Every step of the emulator is a step of the sequential cores, or none.
LEMMA StepArch ==
  ASSUME IInv, Fresh, Next
  PROVE  UNCHANGED <<ArchOf, mem>> \/ Arch!Next
<1> CoresSound
  BY DEF IInv
<1>1. ASSUME UNCHANGED core, UNCHANGED mem PROVE UNCHANGED <<ArchOf, mem>>
  BY <1>1, ArchOfPrimed DEF ArchOf
<1>2. CASE \E c \in Cores : Step(c)
  BY <1>2, SteppedArch DEF Step
<1>3. ASSUME NEW c \in Cores, NEW st \in Starts, Restart(c, st) PROVE Arch!Next
  <2>1. st \in [model : Models, pc : Values, sp : Values]
    BY CoreEmuConstants
  <2>2. core'[c] = Booted(st) /\ (\A d \in Cores \ {c} : core'[d] = core[d]) /\ mem' = mem
    BY <1>3 DEF Restart, CoresSound
  <2> DEFINE k == Booted(st)
  <2>3. /\ k.model = st.model /\ k.regs = ResetRegs(st.sp) /\ k.running = TRUE
        /\ ArchPc(k) = st.pc
    BY <2>1, BootedSound
  <2> HIDE DEF k
  <2>4. ArchOf' = [ArchOf EXCEPT ![c] = [model |-> k.model, regs |-> k.regs,
                                        pc |-> ArchPc(k), running |-> k.running]]
    BY <2>2, ArchOfOne DEF k
  <2>5. Arch!Reset(st) = [model |-> k.model, regs |-> k.regs, pc |-> ArchPc(k), running |-> k.running]
    BY <2>3, ArchSame DEF Arch!Reset
  <2>6. Arch!Restart(c, st)
    BY <2>2, <2>4, <2>5 DEF Arch!Restart
  <2>7. QED
    BY <2>6 DEF Arch!Next
<1>4. ASSUME NEW c \in Cores, NEW r \in HostRegs, NEW v \in HostValues, WriteReg(c, r, v)
      PROVE  Arch!Next
  <2> DEFINE k == core[c]
             n == core'[c]
             f == HostWritten(k.model, k.regs, r, v)
  <2>1. f \in [Regs -> Values]
    <3>1. k.regs \in [Regs -> Values] /\ r \in Regs /\ v \in Values
      BY CoreFields, CoreEmuConstants DEF CoresSound
    <3>2. QED
      BY <3>1, HostWrittenType
  <2>2. core' = [core EXCEPT ![c].regs = f] /\ mem' = mem
    BY <1>4 DEF WriteReg
  <2> HIDE DEF f
  <2>3. /\ n.regs = f /\ n.model = k.model /\ n.running = k.running /\ ArchPc(n) = ArchPc(k)
        /\ \A d \in Cores \ {c} : core'[d] = core[d]
    BY <2>1, <2>2, WriteRegSound
  <2>4. /\ ArchOf[c] = [model |-> k.model, regs |-> k.regs, pc |-> ArchPc(k), running |-> k.running]
        /\ ArchOf' = [ArchOf EXCEPT ![c] = [model |-> n.model, regs |-> n.regs,
                                           pc |-> ArchPc(n), running |-> n.running]]
    BY <2>3, ArchOfOne
  <2> HIDE DEF k, n
  <2>5. ArchOf[c].model = k.model /\ ArchOf[c].regs = k.regs
    BY <2>4
  <2>6. [ArchOf[c] EXCEPT !.regs = f]
          = [model |-> n.model, regs |-> n.regs, pc |-> ArchPc(n), running |-> n.running]
    <3>1. [ArchOf[c] EXCEPT !.regs = f]
            = [model |-> k.model, regs |-> f, pc |-> ArchPc(k), running |-> k.running]
      BY <2>4, RegsRecord
    <3>2. QED
      BY <2>3, <3>1
  <2>7. f = Arch!HostWritten(ArchOf[c].model, ArchOf[c].regs, r, v)
    BY <2>5, ArchSame DEF f
  <2>8. Arch!WriteReg(c, r, v)
    BY <2>2, <2>4, <2>6, <2>7 DEF Arch!WriteReg
  <2>9. QED
    BY <2>8 DEF Arch!Next
<1>5. ASSUME NEW i \in Images, Load(i) PROVE Arch!Next
  <2>1. core' = core /\ mem' \in Memories
    BY <1>5, LoadedType DEF Load
  <2>2. ArchOf' = ArchOf
    BY <2>1, ArchOfPrimed DEF ArchOf
  <2>3. QED
    BY <2>1, <2>2, ArchSame DEF Arch!Next, Arch!Load
<1>6. CASE \E c \in Cores, max \in Budgets : Run(c, max)
  BY <1>1, <1>6 DEF Run
<1>7. CASE \E max \in Budgets : RunAll(max)
  BY <1>1, <1>7 DEF RunAll
<1>8. CASE RunStep
  <2>1. call.core \in Cores
    BY <1>8 DEF RunStep, IInv, TypeOK
  <2>2. PICK r \in Outcomes(call.core) : Stepped(call.core, r)
    BY <1>8 DEF RunStep
  <2>3. QED
    BY <2>1, <2>2, SteppedArch
<1>9. CASE RunReturn
  BY <1>1, <1>9 DEF RunReturn
<1>10. CASE AllStep
  <2>1. call.core \in Cores
    <3>1. call.core < NumCores
      BY <1>10 DEF AllStep
    <3>2. call.core \in 0 .. NumCores /\ NumCores \in Nat
      BY CoreEmuConstants DEF IInv, TypeOK
    <3>3. QED
      BY <3>1, <3>2 DEF Cores
  <2>2. CASE UNCHANGED <<core, mem>>
    BY <1>1, <2>2
  <2>3. CASE \E r \in Outcomes(call.core) : Stepped(call.core, r)
    BY <2>1, <2>3, SteppedArch
  <2>4. QED
    BY <1>10, <2>2, <2>3 DEF AllStep
<1>11. CASE AllRound
  BY <1>1, <1>11 DEF AllRound
<1>12. QED
  BY <1>2, <1>3, <1>4, <1>5, <1>6, <1>7, <1>8, <1>9, <1>10, <1>11 DEF Next, Progress

\* A core behind a pipeline of any depth executes its program like a core without one, as long
\* as what is pending is what memory holds, whichever way the host runs it, restarts it or loads
\* memory (execute, run_*_pipeline, brad_core_emu_run, brad_core_emu_run_all).
THEOREM ProgramExecuted == Spec => StepsExecuteProgram
<1>1. IInv /\ [Next]_vars => [Fresh => UNCHANGED <<ArchOf, mem>> \/ Arch!Next]_vars
  BY StepArch
<1>2. QED
  BY Invariance, <1>1, PTL DEF Spec, StepsExecuteProgram
=============================================================================
