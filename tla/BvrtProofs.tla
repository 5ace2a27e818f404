----------------------------- MODULE BvrtProofs ------------------------------
(***************************************************************************)
(* Proofs about a BVRT device, for any instructions, images, arithmetic and   *)
(* numbers of lanes: the tools that step the device are transparent, the      *)
(* return stacks of the lanes agree, what the device holds keeps its type,    *)
(* and the lanes of an atomic addition are serialised.                        *)
(***************************************************************************)
EXTENDS Bvrt, Sums, SequenceTheorems

-----------------------------------------------------------------------------
(* What FoldLeft computes, when the operator does not look at the elements:   *)
(* the iterates of one function.                                             *)

\* The instruction at the program counter of the state, as ToolsTransparent has it.
Instruction(im, state) ==
  Execute(state.warp, state.mem, im.code[state.warp.pc], [l \in Lanes |-> 0])

Replayed(im, from, k) == FoldLeft(LAMBDA state, i : Instruction(im, state), from, [i \in 1 .. k |-> i])

\* h[j] is the state after j instructions.
History(im, from, k, h) ==
  /\ h = [j \in 0 .. k |-> h[j]] /\ h[0] = from
  /\ \A j \in 0 .. k - 1 : h[j + 1] = Instruction(im, h[j])

\* The recursive function inside FoldLeft.
Folding(im, from, D) ==
  CHOOSE g : g = [S \in SUBSET D |-> IF S = {} THEN from ELSE Instruction(im, g[S \ {Max(S)}])]

FoldsOver(im, from, k, F) ==
  \A S \in SUBSET (1 .. k) : F[S] = IF S = {} THEN from ELSE Instruction(im, F[S \ {Max(S)}])

LEMMA ExtremesIn ==
  ASSUME NEW k \in Int, NEW S \in SUBSET (0 .. k), S # {}
  PROVE  Max(S) \in S /\ (\A x \in S : x <= Max(S)) /\ Min(S) \in S
<1> DEFINE B == {k - x : x \in S}
<1>1. B \in SUBSET Nat /\ B # {}
  <2>1. \A x \in S : k - x \in Nat
    OBVIOUS
  <2> QED BY <2>1
<1>2. PICK m \in B : \A j \in B : m <= j
  <2> HIDE DEF B
  <2> QED BY <1>1, LeastNat
<1>3. PICK x \in S : m = k - x
  OBVIOUS
<1>4. \A y \in S : k - y \in B /\ k - x <= k - y
  BY <1>2, <1>3
<1>5. \A y \in S : y <= x
  BY <1>4
<1>6. Max(S) \in S /\ \A y \in S : y <= Max(S)
  BY <1>5 DEF Max
<1>7. S \in SUBSET Nat
  OBVIOUS
<1>8. PICK n \in S : \A y \in S : n <= y
  BY <1>7, LeastNat
<1>9. Min(S) \in S
  BY <1>8 DEF Min
<1>10. QED
  BY <1>6, <1>9

LEMMA FoldLeftIs ==
  ASSUME NEW im, NEW from, NEW seq
  PROVE  FoldLeft(LAMBDA state, i : Instruction(im, state), from, seq) =
           Folding(im, from, DOMAIN seq)[DOMAIN seq]
  BY DEF FoldLeft, MapThenFoldSet, Folding

LEMMA HistoryExists ==
  ASSUME NEW im, NEW from, NEW k \in Nat
  PROVE  \E h : History(im, from, k, h)
<1> DEFINE B == {j \in Nat : ~ \E h : History(im, from, j, h)}
<1>1. SUFFICES B = {}
  OBVIOUS
<1>2. SUFFICES ASSUME B # {} PROVE FALSE
  OBVIOUS
<1>3. PICK m \in B : \A j \in B : m <= j
  <2> HIDE DEF B
  <2>1. B \in SUBSET Nat
    BY DEF B
  <2> QED BY <1>2, <2>1, LeastNat
<1>4. CASE m = 0
  <2> DEFINE h == [j \in 0 .. 0 |-> from]
  <2>1. History(im, from, 0, h)
    BY DEF History
  <2> QED BY <1>3, <1>4, <2>1
<1>5. CASE m # 0
  <2>1. m - 1 \in Nat /\ m - 1 \notin B
    BY <1>3, <1>5
  <2>2. PICK g : History(im, from, m - 1, g)
    BY <2>1
  <2> DEFINE h == [j \in 0 .. m |-> IF j = m THEN Instruction(im, g[m - 1]) ELSE g[j]]
  <2>3. h[0] = from
    BY <1>5, <2>1, <2>2 DEF History
  <2>4. ASSUME NEW j \in 0 .. m - 1 PROVE h[j + 1] = Instruction(im, h[j])
    <3>1. CASE j = m - 1
      BY <2>1, <3>1
    <3>2. CASE j # m - 1
      <4>1. j \in 0 .. (m - 1) - 1 /\ j + 1 \in 0 .. m /\ j + 1 # m /\ j # m /\ j \in 0 .. m
        BY <2>1, <3>2
      <4>2. g[j + 1] = Instruction(im, g[j])
        BY <2>2, <4>1 DEF History
      <4> QED BY <4>1, <4>2
    <3> QED BY <3>1, <3>2
  <2>5. History(im, from, m, h)
    BY <2>3, <2>4 DEF History
  <2> QED BY <1>3, <2>5
<1>6. QED
  BY <1>4, <1>5

LEMMA MaxOfNats ==
  ASSUME NEW k \in Nat, NEW S \in SUBSET (1 .. k), S # {}
  PROVE  Max(S) \in S /\ \A x \in S : x <= Max(S)
<1>1. S \in SUBSET (0 .. k) /\ k \in Int
  OBVIOUS
<1>2. QED
  BY <1>1, ExtremesIn

LEMMA FoldingStep ==
  ASSUME NEW im, NEW from, NEW k \in Nat
  PROVE  FoldsOver(im, from, k, Folding(im, from, 1 .. k))
<1> DEFINE D == 1 .. k
<1>1. PICK h : History(im, from, k, h)
  BY HistoryExists
<1> DEFINE g == [S \in SUBSET D |-> h[Cardinality(S)]]
<1>2. ASSUME NEW S \in SUBSET D
      PROVE  g[S] = IF S = {} THEN from ELSE Instruction(im, g[S \ {Max(S)}])
  <2>1. CASE S = {}
    BY <1>1, <2>1, FS_EmptySet DEF History
  <2>2. CASE S # {}
    <3>1. IsFiniteSet(D) /\ Cardinality(D) = k
      BY FS_Interval
    <3>2. IsFiniteSet(S) /\ Cardinality(S) \in Nat /\ Cardinality(S) <= k
      BY <3>1, FS_Subset, FS_CardinalityType
    <3>3. Max(S) \in S
      BY <2>2, MaxOfNats
    <3>4. Cardinality(S \ {Max(S)}) = Cardinality(S) - 1 /\ Cardinality(S) # 0
      BY <3>2, <3>3, FS_RemoveElement, FS_EmptySet
    <3>5. PICK c \in 0 .. k - 1 : Cardinality(S) = c + 1 /\ Cardinality(S \ {Max(S)}) = c
      <4>1. Cardinality(S) - 1 \in 0 .. k - 1 /\ Cardinality(S) = (Cardinality(S) - 1) + 1
        BY <3>2, <3>4
      <4> QED BY <3>4, <4>1
    <3>6. h[c + 1] = Instruction(im, h[c])
      BY <1>1, <3>5 DEF History
    <3>7. S \ {Max(S)} \in SUBSET D
      OBVIOUS
    <3>8. g[S] = h[c + 1] /\ g[S \ {Max(S)}] = h[c]
      BY <3>5, <3>7
    <3> QED BY <2>2, <3>6, <3>8, Zenon
  <2> QED BY <2>1, <2>2
<1>3. g = [S \in SUBSET D |-> IF S = {} THEN from ELSE Instruction(im, g[S \ {Max(S)}])]
  <2>1. g = [S \in SUBSET D |-> g[S]]
    OBVIOUS
  <2> HIDE DEF g
  <2> QED BY <1>2, <2>1
<1> HIDE DEF g, D
<1>4. Folding(im, from, D) =
        [S \in SUBSET D |->
           IF S = {} THEN from ELSE Instruction(im, Folding(im, from, D)[S \ {Max(S)}])]
  BY <1>3, Zenon DEF Folding
<1> DEFINE F == Folding(im, from, D)
<1>5. F = [S \in SUBSET D |-> IF S = {} THEN from ELSE Instruction(im, F[S \ {Max(S)}])]
  BY <1>4
<1> HIDE DEF F
<1>6. \A S \in SUBSET D : F[S] = IF S = {} THEN from ELSE Instruction(im, F[S \ {Max(S)}])
  BY <1>5
<1>7. QED
  BY <1>6, Zenon DEF FoldsOver, F, D

\* The fold reaches the state after as many instructions as the list is long.
LEMMA FoldingPrefix ==
  ASSUME NEW im, NEW from, NEW k \in Nat, NEW h, History(im, from, k, h), NEW j \in 0 .. k
  PROVE  Folding(im, from, 1 .. k)[1 .. j] = h[j]
<1> DEFINE F == Folding(im, from, 1 .. k)
           B == {i \in 0 .. k : F[1 .. i] # h[i]}
<1>1. SUFFICES ASSUME B # {} PROVE FALSE
  OBVIOUS
<1>2. PICK m \in B : \A i \in B : m <= i
  <2>1. B \in SUBSET Nat
    OBVIOUS
  <2> HIDE DEF B
  <2> QED BY <1>1, <2>1, LeastNat
<1>3. FoldsOver(im, from, k, F)
  BY FoldingStep
<1> HIDE DEF F
<1>4. CASE m = 0
  <2>1. 1 .. m = {} /\ 1 .. m \in SUBSET (1 .. k)
    BY <1>4
  <2>2. F[1 .. m] = from
    BY <1>3, <2>1 DEF FoldsOver
  <2> QED BY <1>2, <1>4, <2>2 DEF History
<1>5. CASE m # 0
  <2>1. m \in 1 .. k /\ m - 1 \in 0 .. k - 1 /\ m - 1 \in 0 .. k /\ m - 1 \notin B /\ (m - 1) + 1 = m
    BY <1>2, <1>5
  <2>2. F[1 .. m - 1] = h[m - 1]
    BY <2>1
  <2>3. 1 .. m \in SUBSET (1 .. k) /\ 1 .. m # {} /\ m \in 1 .. m
    <3>1. m \in 1 .. m /\ \A i \in 1 .. m : i \in 1 .. k
      BY <2>1
    <3> QED BY <3>1
  <2>4. Max(1 .. m) = m
    <3>1. Max(1 .. m) \in 1 .. m /\ m <= Max(1 .. m)
      BY <2>3, MaxOfNats
    <3> QED BY <2>1, <3>1
  <2>5. (1 .. m) \ {m} = 1 .. m - 1
    BY <2>1
  <2>6. F[1 .. m] = Instruction(im, F[1 .. m - 1])
    <3>1. F[1 .. m] = Instruction(im, F[(1 .. m) \ {Max(1 .. m)}])
      BY <1>3, <2>3 DEF FoldsOver
    <3> QED BY <2>4, <2>5, <3>1, Zenon
  <2>7. h[m] = Instruction(im, h[m - 1])
    <3>1. h[(m - 1) + 1] = Instruction(im, h[m - 1])
      BY <2>1 DEF History
    <3> QED BY <2>1, <3>1
  <2> QED BY <1>2, <2>2, <2>6, <2>7
<1>6. QED
  BY <1>4, <1>5

\* One more instruction is one more step of the replay.
LEMMA ReplayedIs ==
  ASSUME NEW im, NEW from, NEW k \in Nat, NEW h, History(im, from, k, h)
  PROVE  Replayed(im, from, k) = h[k]
<1> DEFINE seq == [i \in 1 .. k |-> i]
<1>1. DOMAIN seq = 1 .. k
  OBVIOUS
<1> HIDE DEF seq
<1>2. FoldLeft(LAMBDA state, i : Instruction(im, state), from, seq) =
        Folding(im, from, DOMAIN seq)[DOMAIN seq]
  BY FoldLeftIs
<1>3. Replayed(im, from, k) = Folding(im, from, 1 .. k)[1 .. k]
  BY <1>1, <1>2, Zenon DEF Replayed, seq
<1>4. Folding(im, from, 1 .. k)[1 .. k] = h[k]
  BY FoldingPrefix
<1>5. QED
  BY <1>3, <1>4

LEMMA ReplayedSteps ==
  ASSUME NEW im, NEW from
  PROVE  /\ Replayed(im, from, 0) = from
         /\ \A k \in Nat : Replayed(im, from, k + 1) = Instruction(im, Replayed(im, from, k))
<1>1. Replayed(im, from, 0) = from
  <2>1. PICK h : History(im, from, 0, h)
    BY HistoryExists
  <2>2. Replayed(im, from, 0) = h[0]
    BY <2>1, ReplayedIs
  <2> QED BY <2>1, <2>2 DEF History
<1>2. ASSUME NEW k \in Nat
      PROVE  Replayed(im, from, k + 1) = Instruction(im, Replayed(im, from, k))
  <2>1. PICK h : History(im, from, k + 1, h)
    BY HistoryExists
  <2> DEFINE g == [j \in 0 .. k |-> h[j]]
  <2>2. History(im, from, k, g)
    <3>1. h[0] = from /\ \A j \in 0 .. (k + 1) - 1 : h[j + 1] = Instruction(im, h[j])
      BY <2>1 DEF History
    <3>2. \A j \in 0 .. k - 1 : j \in 0 .. (k + 1) - 1 /\ j + 1 \in 0 .. k /\ j \in 0 .. k
      OBVIOUS
    <3>3. \A j \in 0 .. k - 1 : g[j + 1] = Instruction(im, g[j])
      BY <3>1, <3>2
    <3> QED BY <3>1, <3>3 DEF History
  <2>3. g[k] = h[k] /\ h[k + 1] = Instruction(im, h[k])
    <3>1. k \in 0 .. (k + 1) - 1 /\ k \in 0 .. k
      OBVIOUS
    <3> QED BY <2>1, <3>1 DEF History
  <2> HIDE DEF g
  <2>4. Replayed(im, from, k + 1) = h[k + 1]
    BY <2>1, ReplayedIs
  <2>5. Replayed(im, from, k) = g[k]
    BY <2>2, ReplayedIs
  <2> QED BY <2>3, <2>4, <2>5
<1>3. QED
  BY <1>1, <1>2

-----------------------------------------------------------------------------
(* The tools are transparent.                                                 *)

Position == [warp |-> warp, mem |-> mem]

\* No instruction has been executed since the launch but the insns that are counted.
ReplayInv ==
  /\ insns \in Nat
  /\ Deterministic =>
       /\ warp = Replayed(image, launched, insns).warp
       /\ mem = Replayed(image, launched, insns).mem

LEMMA DeviceStepReplays ==
  ASSUME ReplayInv, NEW out \in Outcomes, DeviceStep(out), UNCHANGED <<image, launched>>
  PROVE  ReplayInv'
<1>1. warp' = out.warp /\ mem' = out.mem /\ insns' = Counted
  BY DEF DeviceStep
<1>2. Deterministic' <=> Deterministic
  BY DEF Deterministic
<1>3. CASE ~InRange
  <2>1. out = Trap(warp, mem) /\ insns' = insns
    BY <1>1, <1>3 DEF Outcomes, Counted, ReplayInv
  <2>2. warp' = warp /\ mem' = mem
    BY <1>1, <2>1 DEF Trap, Outcome
  <2> QED BY <1>2, <2>1, <2>2 DEF ReplayInv
<1>4. CASE InRange
  <2>1. insns' = insns + 1 /\ insns' \in Nat
    BY <1>1, <1>4 DEF Counted, ReplayInv
  <2>2. ASSUME Deterministic
        PROVE  /\ warp' = Replayed(image, launched, insns + 1).warp
               /\ mem' = Replayed(image, launched, insns + 1).mem
    <3>1. Fetched.op # "RAND"
      BY <1>4, <2>2 DEF Deterministic, Fetched, InRange
    <3>2. out = Execute(warp, mem, image.code[warp.pc], [l \in Lanes |-> 0])
      BY <1>4, <3>1 DEF Outcomes, Fetched
    <3> DEFINE state == Replayed(image, launched, insns)
    <3>3. warp = state.warp /\ mem = state.mem
      BY <2>2 DEF ReplayInv
    <3>4. Replayed(image, launched, insns + 1) = Instruction(image, state)
      BY ReplayedSteps DEF ReplayInv
    <3> HIDE DEF state
    <3>5. Instruction(image, state) = out
      BY <3>2, <3>3, Zenon DEF Instruction
    <3> QED BY <1>1, <3>4, <3>5
  <2> QED BY <1>2, <2>1, <2>2 DEF ReplayInv
<1>5. QED
  BY <1>3, <1>4

LEMMA ReplayInvImplies == ReplayInv => ToolsTransparent
<1> SUFFICES ASSUME ReplayInv, Deterministic
             PROVE  /\ warp = Replayed(image, launched, insns).warp
                    /\ mem = Replayed(image, launched, insns).mem
  BY Zenon DEF ToolsTransparent, Replayed, Instruction, FoldLeft, MapThenFoldSet
<1>1. QED
  BY DEF ReplayInv

LEMMA ReplayInit == Init => ReplayInv
<1> SUFFICES ASSUME Init PROVE ReplayInv
  OBVIOUS
<1>1. Replayed(image, launched, 0) = launched
  BY ReplayedSteps
<1>2. warp = launched.warp /\ mem = launched.mem /\ insns = 0
  BY DEF Init
<1>3. QED
  BY <1>1, <1>2 DEF ReplayInv

LEMMA ReplayStep == ReplayInv /\ [Next]_vars => ReplayInv'
<1> SUFFICES ASSUME ReplayInv, [Next]_vars PROVE ReplayInv'
  OBVIOUS
<1>1. ASSUME UNCHANGED <<image, warp, mem, insns, launched>> PROVE ReplayInv'
  BY <1>1 DEF ReplayInv, Deterministic
<1>2. CASE \E entry \in image.entries, args \in Args : Launch(entry, args)
  <2>1. /\ warp' = launched'.warp /\ mem' = launched'.mem /\ insns' = 0
    BY <1>2 DEF Launch
  <2>2. Replayed(image', launched', 0) = launched'
    BY ReplayedSteps
  <2> QED BY <2>1, <2>2 DEF ReplayInv
<1>3. CASE \E out \in Outcomes : GdbStep(out) \/ TraceOnce(out)
  BY <1>3, DeviceStepReplays DEF GdbStep, TraceOnce
<1>4. CASE \E out \in Outcomes : RunStep(out) \/ ContinueStep(out) \/ TraceStep(out)
  BY <1>4, DeviceStepReplays DEF RunStep, ContinueStep, TraceStep
<1>5. CASE \/ \E pc \in DOMAIN image.code, enabled \in BOOLEAN : SetBreak(pc, enabled)
           \/ \E budget \in Budgets : Enter("run", budget) \/ Enter("trace", budget)
           \/ Enter("continue", 0) \/ RunReturn \/ ContinueReturn \/ TraceReturn \/ UNCHANGED vars
  <2>1. UNCHANGED <<image, warp, mem, insns, launched>>
    BY <1>5 DEF SetBreak, Enter, RunReturn, ContinueReturn, TraceReturn, Returns, vars
  <2> QED BY <1>1, <2>1
<1>6. QED
  BY <1>2, <1>3, <1>4, <1>5 DEF Next, ToolStep

(* However bvrt_run, the debugger and the profiler take turns, are interrupted   *)
(* by breakpoints and budgets and resume after traps, the device is where the   *)
(* kernel's own instructions would have taken it: bvrt_step is the only thing   *)
(* any of them does to it, and each counts its instructions in dev->insns.      *)
THEOREM Transparent == Spec => []ToolsTransparent
  BY ReplayInit, ReplayStep, ReplayInvImplies, PTL DEF Spec

-----------------------------------------------------------------------------
(* What an instruction does to the return stacks and the active lanes.        *)

Fields == {"pc", "active", "cycles", "s", "v", "p", "ret"}

Shape(w) == DOMAIN w = Fields /\ w.active \subseteq Lanes

\* All but control instructions leave the return stacks and the active lanes alone.
Keeps(w, w2) == Shape(w2) /\ w2.active = w.active /\ w2.ret = w.ret

LEMMA DoneKeeps ==
  ASSUME NEW w, Shape(w), NEW m
  PROVE  Keeps(w, Done(w, m).warp) /\ Keeps(w, Trap(w, m).warp)
  BY DEF Keeps, Shape, Fields, Done, Trap, Outcome

LEMMA KeepsTwice ==
  ASSUME NEW w, NEW w1, NEW w2, Keeps(w, w1), Keeps(w1, w2)
  PROVE  Keeps(w, w2)
  BY DEF Keeps, Shape, Fields

LEMMA WritesKeep ==
  ASSUME NEW w, Shape(w), NEW lanes, NEW reg, NEW val
  PROVE  Keeps(w, WriteScalar(w, lanes, reg, val)) /\ Keeps(w, WriteVector(w, lanes, reg, val))
  BY DEF Keeps, Shape, Fields, WriteScalar, WriteVector

LEMMA SettleKeeps ==
  ASSUME NEW w, NEW w2, Keeps(w, w2), NEW m, NEW faulting
  PROVE  Keeps(w, Settle(faulting, w2, m).warp)
  BY DoneKeeps, KeepsTwice DEF Settle, Keeps

LEMMA ArithmeticKeeps ==
  ASSUME NEW w, Shape(w), NEW m, NEW in, NEW random
  PROVE  /\ Keeps(w, ScalarAlu(w, m, in).warp) /\ Keeps(w, Select(w, m, in).warp)
         /\ Keeps(w, Compare(w, m, in).warp) /\ Keeps(w, Special(w, m, in, random).warp)
<1>1. ASSUME NEW lanes, NEW reg, NEW val
      PROVE  Keeps(w, Done(WriteScalar(w, lanes, reg, val), m).warp)
  BY WritesKeep, DoneKeeps, KeepsTwice DEF Keeps
<1>2. Keeps(w, ScalarAlu(w, m, in).warp)
  BY <1>1 DEF ScalarAlu
<1>3. Keeps(w, Select(w, m, in).warp)
  BY <1>1 DEF Select
<1>4. Keeps(w, Special(w, m, in, random).warp)
  BY <1>1 DEF Special
<1>5. Keeps(w, Compare(w, m, in).warp)
  <2>1. ASSUME NEW p PROVE Keeps(w, Done([w EXCEPT !.p = p], m).warp)
    <3>1. Keeps(w, [w EXCEPT !.p = p])
      BY DEF Keeps, Shape, Fields
    <3> QED BY <3>1, DoneKeeps, KeepsTwice DEF Keeps
  <2> QED BY <2>1 DEF Compare
<1>6. QED
  BY <1>2, <1>3, <1>4, <1>5

LEMMA VectorsKeep ==
  ASSUME NEW w, Shape(w), NEW m, NEW in
  PROVE  /\ Keeps(w, VectorAlu(w, m, in).warp) /\ Keeps(w, Dot(w, m, in).warp)
         /\ Keeps(w, Broadcast(w, m, in).warp) /\ Keeps(w, Reduce(w, m, in).warp)
<1>1. ASSUME NEW lanes, NEW reg, NEW val
      PROVE  Keeps(w, Done(WriteVector(w, lanes, reg, val), m).warp)
  BY WritesKeep, DoneKeeps, KeepsTwice DEF Keeps
<1>2. Keeps(w, VectorAlu(w, m, in).warp)
  BY <1>1 DEF VectorAlu
<1>3. Keeps(w, Dot(w, m, in).warp)
  BY <1>1 DEF Dot, SumOver, FoldFunctionOnSet, MapThenFoldSet
<1>4. Keeps(w, Broadcast(w, m, in).warp)
  BY <1>1 DEF Broadcast
<1>5. Keeps(w, Reduce(w, m, in).warp)
  BY <1>1 DEF Reduce, SumOver, FoldFunctionOnSet, MapThenFoldSet
<1>6. QED
  BY <1>2, <1>3, <1>4, <1>5

LEMMA MemoryKeeps ==
  ASSUME NEW w, Shape(w), NEW m, NEW in
  PROVE  /\ Keeps(w, Load(w, m, in).warp) /\ Keeps(w, LoadVector(w, m, in).warp)
         /\ Keeps(w, Store(w, m, in).warp) /\ Keeps(w, StoreVector(w, m, in).warp)
         /\ Keeps(w, AtomicAdd(w, m, in).warp)
<1>1. ASSUME NEW lanes, NEW reg, NEW val, NEW faulting, NEW m2
      PROVE  Keeps(w, Settle(faulting, WriteScalar(w, lanes, reg, val), m2).warp)
  BY WritesKeep, SettleKeeps
<1>2. Keeps(w, Load(w, m, in).warp) /\ Keeps(w, AtomicAdd(w, m, in).warp)
  BY <1>1 DEF Load, AtomicAdd
<1>3. Keeps(w, LoadVector(w, m, in).warp)
  <2>1. ASSUME NEW s2, NEW faulting
        PROVE  Keeps(w, Settle(faulting, [w EXCEPT !.s = s2], m).warp)
    <3>1. Keeps(w, [w EXCEPT !.s = s2])
      BY DEF Keeps, Shape, Fields
    <3> QED BY <3>1, SettleKeeps
  <2> QED BY <2>1 DEF LoadVector
<1>4. Keeps(w, Store(w, m, in).warp) /\ Keeps(w, StoreVector(w, m, in).warp)
  <2>1. Keeps(w, w)
    BY DEF Keeps, Shape, Fields
  <2>2. \A faulting, m2 : Keeps(w, Settle(faulting, w, m2).warp)
    BY <2>1, SettleKeeps
  <2> QED BY <2>2 DEF Store, StoreVector, Stored
<1>5. QED
  BY <1>2, <1>3, <1>4

LEMMA ExecuteCases ==
  ASSUME NEW w, Shape(w), NEW m, NEW in, NEW random
  PROVE  \/ Keeps(w, Execute(w, m, in, random).warp)
         \/ in.op = "CALL" /\ Execute(w, m, in, random) = Call(w, m, in)
         \/ in.op = "RET" /\ Execute(w, m, in, random) = Return(w, m)
         \/ in.op = "EXIT" /\ Execute(w, m, in, random) = Exit(w, m)
<1>1. Keeps(w, Jump(w, m, in).warp) /\ Keeps(w, Branch(w, m, in).warp)
  BY DoneKeeps DEF Branch, Jump, Outcome, Keeps, Shape, Fields
<1>2. QED
  BY <1>1, ArithmeticKeeps, VectorsKeep, MemoryKeeps, DoneKeeps DEF Execute, AluOps, VectorAluOps

-----------------------------------------------------------------------------
(* The return stacks agree.                                                   *)

Agree(w) == \A k, l \in w.active : w.ret[k] = w.ret[l]

\* An unpredicated CALL pushes in every active lane, or finds every stack full.
LEMMA CallAgrees ==
  ASSUME NEW w, Shape(w), NEW m, NEW in
  PROVE  /\ Shape(Call(w, m, in).warp)
         /\ in.pred = 0 /\ Agree(w) => Agree(Call(w, m, in).warp)
<1> DEFINE calling == Executing(w, in)
           full == {l \in calling : Len(w.ret[l]) >= MaxRet}
           saving == {l \in calling : \A f \in full : l < f}
           pushed == [w EXCEPT !.ret = [l \in Lanes |->
                        IF l \in saving THEN Append(@[l], w.pc + 1) ELSE @[l]]]
<1>1. Call(w, m, in) = IF full # {} THEN Trap(pushed, m) ELSE Jump(pushed, m, in)
  BY DEF Call
<1>2. /\ Shape(pushed) /\ pushed.active = w.active
      /\ pushed.ret = [l \in Lanes |-> IF l \in saving THEN Append(w.ret[l], w.pc + 1) ELSE w.ret[l]]
  <2> HIDE DEF saving
  <2> QED BY DEF Shape, Fields
<1>3. ASSUME in.pred = 0, Agree(w) PROVE Agree(pushed)
  <2>1. calling = w.active
    BY <1>3 DEF Executing, PredOk
  <2>2. \A k, l \in w.active : k \in full <=> l \in full
    <3>1. \A l \in w.active : l \in full <=> Len(w.ret[l]) >= MaxRet
      BY <2>1
    <3> QED BY <1>3, <3>1 DEF Agree
  <2>3. \A k, l \in w.active : k \in saving <=> l \in saving
    <3>1. full = {} \/ full = w.active
      BY <2>1, <2>2
    <3>2. \A l \in w.active : l \in Nat
      BY DEF Shape, Lanes
    <3>3. full = {} => saving = w.active
      BY <2>1
    <3>4. full = w.active => saving = {}
      BY <2>1, <3>2
    <3> QED BY <3>1, <3>3, <3>4
  <2> HIDE DEF calling, full, saving, pushed
  <2>4. ASSUME NEW k \in w.active, NEW l \in w.active PROVE pushed.ret[k] = pushed.ret[l]
    <3>1. w.ret[k] = w.ret[l] /\ k \in Lanes /\ l \in Lanes
      BY <1>3 DEF Agree, Shape
    <3> QED BY <1>2, <2>3, <3>1
  <2> QED BY <1>2, <2>4 DEF Agree
<1> HIDE DEF calling, full, saving, pushed
<1>4. /\ Trap(pushed, m).warp = pushed
      /\ Shape(Jump(pushed, m, in).warp)
      /\ Jump(pushed, m, in).warp.active = pushed.active
      /\ Jump(pushed, m, in).warp.ret = pushed.ret
  BY <1>2 DEF Trap, Jump, Outcome, Shape, Fields
<1>5. Call(w, m, in).warp = pushed \/ Call(w, m, in).warp = Jump(pushed, m, in).warp
  BY <1>1, <1>4
<1>6. Agree(pushed) => Agree(Jump(pushed, m, in).warp)
  BY <1>4 DEF Agree
<1>7. QED
  BY <1>2, <1>3, <1>4, <1>5, <1>6

\* A RET pops in every active lane, whatever its predicate, or finds every stack empty.
LEMMA ReturnAgrees ==
  ASSUME NEW w, Shape(w), NEW m
  PROVE  Shape(Return(w, m).warp) /\ (Agree(w) => Agree(Return(w, m).warp))
<1> DEFINE empty == {l \in w.active : w.ret[l] = <<>>}
           popping == {l \in w.active : \A e \in empty : l < e}
           pc == IF popping = {} THEN w.pc ELSE Last(w.ret[Max(popping)])
           popped == Return(w, m).warp
<1>1. popped = [w EXCEPT
                  !.ret = [l \in Lanes |-> IF l \in popping THEN Front(@[l]) ELSE @[l]],
                  !.pc = IF popping = {} THEN @ ELSE Last(w.ret[Max(popping)])]
  BY DEF Return, Outcome
<1>2. /\ Shape(popped) /\ popped.active = w.active
      /\ popped.ret = [l \in Lanes |-> IF l \in popping THEN Front(w.ret[l]) ELSE w.ret[l]]
  <2> HIDE DEF popping, popped
  <2> QED BY <1>1 DEF Shape, Fields
<1>3. ASSUME Agree(w) PROVE Agree(popped)
  <2>1. \A k, l \in w.active : k \in empty <=> l \in empty
    BY <1>3 DEF Agree
  <2>2. \A k, l \in w.active : k \in popping <=> l \in popping
    <3>1. empty = {} \/ empty = w.active
      BY <2>1
    <3>2. \A l \in w.active : l \in Nat
      BY DEF Shape, Lanes
    <3>3. empty = {} => popping = w.active
      OBVIOUS
    <3>4. empty = w.active => popping = {}
      BY <3>2
    <3> QED BY <3>1, <3>3, <3>4
  <2> HIDE DEF empty, popping, popped
  <2>3. ASSUME NEW k \in w.active, NEW l \in w.active PROVE popped.ret[k] = popped.ret[l]
    <3>1. w.ret[k] = w.ret[l] /\ k \in Lanes /\ l \in Lanes
      BY <1>3 DEF Agree, Shape
    <3> QED BY <1>2, <2>2, <3>1
  <2> QED BY <1>2, <2>3 DEF Agree
<1>4. QED
  BY <1>2, <1>3

LEMMA ExecuteAgrees ==
  ASSUME NEW w, Shape(w), NEW m, NEW in, NEW random
  PROVE  /\ Shape(Execute(w, m, in, random).warp)
         /\ (in.op = "CALL" => in.pred = 0) /\ Agree(w) => Agree(Execute(w, m, in, random).warp)
<1>1. CASE Keeps(w, Execute(w, m, in, random).warp)
  BY <1>1 DEF Keeps, Agree
<1>2. CASE in.op = "CALL" /\ Execute(w, m, in, random) = Call(w, m, in)
  BY <1>2, CallAgrees
<1>3. CASE in.op = "RET" /\ Execute(w, m, in, random) = Return(w, m)
  BY <1>3, ReturnAgrees
<1>4. CASE in.op = "EXIT" /\ Execute(w, m, in, random) = Exit(w, m)
  <2>1. Shape(Exit(w, m).warp) /\ Exit(w, m).warp.active = {}
    BY DEF Exit, Done, Outcome, Shape, Fields
  <2> QED BY <1>4, <2>1 DEF Agree
<1>5. QED
  BY <1>1, <1>2, <1>3, <1>4, ExecuteCases

StacksInv == Shape(warp) /\ (Unpredicated("CALL") => Agree(warp))

LEMMA DeviceStepAgrees ==
  ASSUME StacksInv, NEW out \in Outcomes, DeviceStep(out), UNCHANGED image
  PROVE  StacksInv'
<1>1. warp' = out.warp /\ (Unpredicated("CALL")' <=> Unpredicated("CALL"))
  BY DEF DeviceStep, Unpredicated
<1>2. CASE ~InRange
  <2>1. out.warp = warp
    BY <1>2 DEF Outcomes, Trap, Outcome
  <2> QED BY <1>1, <2>1 DEF StacksInv
<1>3. CASE InRange
  <2>1. PICK random : out = Execute(warp, mem, Fetched, random)
    BY <1>3 DEF Outcomes
  <2>2. Unpredicated("CALL") => (Fetched.op = "CALL" => Fetched.pred = 0)
    BY <1>3 DEF Unpredicated, Fetched, InRange
  <2> QED BY <1>1, <2>1, <2>2, ExecuteAgrees DEF StacksInv
<1>4. QED
  BY <1>2, <1>3

LEMMA StacksInit == Init => StacksInv
  BY DEF Init, StacksInv, Shape, Fields, ClearedWarp, Agree

LEMMA LaunchAgrees ==
  ASSUME NEW entry, NEW args
  PROVE  Shape(LaunchedWarp(entry, args)) /\ Agree(LaunchedWarp(entry, args))
<1>1. /\ Shape(ClearedWarp) /\ ClearedWarp.ret = [l \in Lanes |-> <<>>]
  BY DEF ClearedWarp, Shape, Fields
<1>2. \A s2 : LET w == [ClearedWarp EXCEPT !.pc = entry, !.active = Lanes, !.s = s2] IN
        Shape(w) /\ w.ret = ClearedWarp.ret /\ w.active = Lanes
  BY <1>1 DEF Shape, Fields
<1>3. Shape(LaunchedWarp(entry, args)) /\ LaunchedWarp(entry, args).ret = ClearedWarp.ret
      /\ LaunchedWarp(entry, args).active = Lanes
  BY <1>2 DEF LaunchedWarp
<1>4. QED
  BY <1>1, <1>3 DEF Agree

LEMMA StacksStep == StacksInv /\ [Next]_vars => StacksInv'
<1> SUFFICES ASSUME StacksInv, [Next]_vars PROVE StacksInv'
  OBVIOUS
<1>1. CASE \E entry \in image.entries, args \in Args : Launch(entry, args)
  BY <1>1, LaunchAgrees DEF Launch, StacksInv
<1>2. CASE \E out \in Outcomes : GdbStep(out) \/ TraceOnce(out)
  BY <1>2, DeviceStepAgrees DEF GdbStep, TraceOnce
<1>3. CASE \E out \in Outcomes : RunStep(out) \/ ContinueStep(out) \/ TraceStep(out)
  BY <1>3, DeviceStepAgrees DEF RunStep, ContinueStep, TraceStep
<1>4. CASE \/ \E pc \in DOMAIN image.code, enabled \in BOOLEAN : SetBreak(pc, enabled)
           \/ \E budget \in Budgets : Enter("run", budget) \/ Enter("trace", budget)
           \/ Enter("continue", 0) \/ RunReturn \/ ContinueReturn \/ TraceReturn \/ UNCHANGED vars
  <2>1. UNCHANGED <<image, warp>>
    BY <1>4 DEF SetBreak, Enter, RunReturn, ContinueReturn, TraceReturn, Returns, vars
  <2> QED BY <2>1 DEF StacksInv, Unpredicated
<1>5. QED
  BY <1>1, <1>2, <1>3, <1>4 DEF Next, ToolStep

(* bvrt.c:449: as long as no CALL is predicated, the return stacks of the active *)
(* lanes are equal through overflows, underflows and predicated returns, so the *)
(* lanes agree where the one program counter of the warp returns to.            *)
THEOREM ReturnsAgree == Spec => []StacksAgree
<1>1. StacksInv => StacksAgree
  BY DEF StacksInv, StacksAgree, Agree
<1>2. QED
  BY <1>1, StacksInit, StacksStep, PTL DEF Spec

-----------------------------------------------------------------------------
(* Accumulating over the elements of a vector, as VDOT and VREDUCE do, stays  *)
(* in the values: step[i][a] is what element i makes of the accumulator a.    *)

\* The recursive function inside FoldFunctionOnSet goes from value to value.
Accumulates(step, g) ==
  \A T \in SUBSET Elements :
    /\ T = {} => g[T] = 0
    /\ T # {} => LET c == CHOOSE x \in T : TRUE
                 IN g[T \ {c}] \in Values => g[T] = step[c][g[T \ {c}]]

LEMMA ConstantsTyped ==
  /\ {NumLanes, NumScalars, NumPreds, NumVectors, VecLanes, MaxRet, MemWords, Mod} \subseteq Nat \ {0}
  /\ IsFiniteSet(Elements) /\ IsFiniteSet(Lanes) /\ 0 \in Values /\ 0 \in Elements
  /\ \A n \in Int : n % Mod \in Values
  /\ \A n \in Int : n % VecLanes \in Elements
<1>1. {NumLanes, NumScalars, NumPreds, NumVectors, VecLanes, MaxRet, MemWords, Mod} \subseteq Nat \ {0}
  BY IsaConstants
<1>2. IsFiniteSet(Elements) /\ IsFiniteSet(Lanes)
  <2>1. 0 \in Int /\ VecLanes - 1 \in Int /\ NumLanes - 1 \in Int
    BY <1>1
  <2> QED BY <2>1, FS_Interval DEF Elements, Lanes
<1>3. QED
  BY <1>1, <1>2 DEF Values, Elements

LEMMA AccumulatesTyped ==
  ASSUME NEW step \in [Elements -> [Values -> Values]], NEW g, Accumulates(step, g)
  PROVE  \A T \in SUBSET Elements : g[T] \in Values
<1> DEFINE B == {T \in SUBSET Elements : g[T] \notin Values}
<1>1. SUFFICES ASSUME B # {} PROVE FALSE
  OBVIOUS
<1>2. PICK T \in B : \A U \in SUBSET Elements : Cardinality(U) < Cardinality(T) => U \notin B
  <2>1. B \in SUBSET SUBSET Elements
    OBVIOUS
  <2> HIDE DEF B
  <2> QED BY <1>1, <2>1, LeastSet, ConstantsTyped
<1>3. T \in SUBSET Elements /\ g[T] \notin Values /\ T # {}
  BY <1>2, ConstantsTyped DEF Accumulates
<1> DEFINE c == CHOOSE x \in T : TRUE
<1>4. c \in T
  BY <1>3
<1>5. g[T \ {c}] \in Values => g[T] = step[c][g[T \ {c}]]
  BY <1>3 DEF Accumulates
<1> HIDE DEF c
<1>6. T \ {c} \in SUBSET Elements /\ Cardinality(T \ {c}) < Cardinality(T)
  <2>1. /\ T \ {c} \in SUBSET Elements /\ Cardinality(T \ {c}) = Cardinality(T) - 1
        /\ Cardinality(T) \in Nat \ {0}
    <3>1. IsFiniteSet(Elements)
      BY ConstantsTyped
    <3> QED BY <1>3, <1>4, <3>1, ChosenOne
  <2> QED BY <2>1
<1>7. g[T \ {c}] \in Values
  BY <1>2, <1>6
<1>8. QED
  BY <1>3, <1>4, <1>5, <1>7

LEMMA AccumulatorExists ==
  ASSUME NEW step \in [Elements -> [Values -> Values]]
  PROVE  \E g \in [SUBSET Elements -> Values] : Accumulates(step, g)
<1> DEFINE c(T) == CHOOSE x \in T : TRUE
           Up(g, T) == g[T] = IF T = {} THEN 0 ELSE step[c(T)][g[T \ {c(T)}]]
           Good(n) == \E g \in [SUBSET Elements -> Values] :
                        \A T \in SUBSET Elements : Cardinality(T) <= n => Up(g, T)
           B == {n \in Nat : ~Good(n)}
<1>1. ASSUME NEW T \in SUBSET Elements PROVE IsFiniteSet(T) /\ Cardinality(T) \in Nat
  BY FS_Subset, FS_CardinalityType, ConstantsTyped
<1>2. B = {}
  <2> SUFFICES ASSUME B # {} PROVE FALSE
    OBVIOUS
  <2>1. PICK m \in B : \A j \in B : m <= j
    <3>1. B \in SUBSET Nat
      OBVIOUS
    <3> HIDE DEF B
    <3> QED BY <3>1, LeastNat
  <2>2. CASE m = 0
    <3> DEFINE g == [T \in SUBSET Elements |-> 0]
    <3>1. ASSUME NEW T \in SUBSET Elements, Cardinality(T) <= 0 PROVE Up(g, T)
      <4>1. T = {}
        BY <1>1, <3>1, FS_EmptySet
      <4> QED BY <4>1
    <3>2. g \in [SUBSET Elements -> Values]
      BY ConstantsTyped
    <3> HIDE DEF g, Up
    <3> QED BY <2>1, <2>2, <3>1, <3>2
  <2>3. CASE m # 0
    <3>1. m - 1 \in Nat /\ Good(m - 1)
      <4> HIDE DEF Good
      <4>1. m - 1 \in Nat /\ ~(m <= m - 1)
        BY <2>1, <2>3
      <4> QED BY <2>1, <4>1
    <3>2. PICK h \in [SUBSET Elements -> Values] :
            \A T \in SUBSET Elements : Cardinality(T) <= m - 1 => Up(h, T)
      BY <3>1
    <3> DEFINE g == [T \in SUBSET Elements |-> IF Cardinality(T) <= m - 1 \/ T = {} THEN h[T]
                                               ELSE step[c(T)][h[T \ {c(T)}]]]
    <3>3. ASSUME NEW T \in SUBSET Elements, T # {}
          PROVE  /\ c(T) \in T /\ T \ {c(T)} \in SUBSET Elements
                 /\ Cardinality(T \ {c(T)}) = Cardinality(T) - 1
      <4>1. c(T) \in T
        BY <3>3
      <4> HIDE DEF c
      <4> QED BY <3>3, <4>1, ChosenOne, ConstantsTyped
    <3>4. ASSUME NEW T \in SUBSET Elements, Cardinality(T) <= m PROVE Up(g, T)
      <4>1. CASE T = {}
        <5>1. Cardinality(T) <= m - 1
          BY <3>1, <4>1, FS_EmptySet
        <5>2. g[T] = h[T] /\ Up(h, T)
          BY <3>2, <5>1
        <5> QED BY <4>1, <5>2
      <4>2. CASE T # {}
        <5>1. Cardinality(T \ {c(T)}) <= m - 1
          BY <1>1, <2>1, <3>3, <3>4, <4>2
        <5>2. g[T \ {c(T)}] = h[T \ {c(T)}] /\ T \ {c(T)} \in SUBSET Elements
          <6>1. T \ {c(T)} \in SUBSET Elements
            BY <3>3, <4>2
          <6> HIDE DEF c
          <6> QED BY <5>1, <6>1
        <5>3. CASE Cardinality(T) <= m - 1
          <6>1. g[T] = h[T] /\ Up(h, T)
            BY <3>2, <5>3
          <6> HIDE DEF c, g
          <6> QED BY <4>2, <5>2, <6>1
        <5>4. CASE ~(Cardinality(T) <= m - 1)
          <6>1. g[T] = step[c(T)][h[T \ {c(T)}]]
            BY <4>2, <5>4
          <6> HIDE DEF c, g
          <6> QED BY <4>2, <5>2, <6>1
        <5> QED BY <5>3, <5>4
      <4> QED BY <4>1, <4>2
    <3>5. g \in [SUBSET Elements -> Values]
      <4>1. ASSUME NEW T \in SUBSET Elements PROVE g[T] \in Values
        <5>1. CASE Cardinality(T) <= m - 1 \/ T = {}
          <6>1. g[T] = h[T]
            BY <5>1
          <6> QED BY <6>1, <3>2
        <5>2. CASE ~(Cardinality(T) <= m - 1 \/ T = {})
          <6>1. g[T] = step[c(T)][h[T \ {c(T)}]]
            BY <5>2
          <6>2. c(T) \in Elements /\ T \ {c(T)} \in SUBSET Elements
            BY <3>3, <5>2
          <6> HIDE DEF c, g
          <6> QED BY <3>2, <6>1, <6>2
        <5> QED BY <5>1, <5>2
      <4>2. g = [T \in SUBSET Elements |-> g[T]]
        OBVIOUS
      <4> HIDE DEF g
      <4> QED BY <4>1, <4>2
    <3> HIDE DEF g, Up
    <3>6. Good(m)
      BY <3>4, <3>5
    <3> QED BY <2>1, <3>6
  <2> QED BY <2>2, <2>3
<1>3. PICK n \in Nat : n = Cardinality(Elements)
  BY FS_CardinalityType, ConstantsTyped
<1>4. Good(n)
  <2> HIDE DEF Good
  <2> QED BY <1>2
<1>5. PICK g \in [SUBSET Elements -> Values] :
        \A T \in SUBSET Elements : Cardinality(T) <= n => Up(g, T)
  BY <1>4
<1>6. \A T \in SUBSET Elements : Cardinality(T) <= n
  BY <1>3, FS_Subset, ConstantsTyped
<1>7. Accumulates(step, g)
  BY <1>5, <1>6 DEF Accumulates
<1>8. QED
  BY <1>5, <1>7

\* The sums that VDOT and VREDUCE compute.
DotSum(x, y) == SumOver(LAMBDA i, acc : Alu("MAD", x[i], y[i], acc))
VectorSum(x) == SumOver(LAMBDA i, acc : Alu("ADD", acc, x[i], 0))

LEMMA DotTyped ==
  ASSUME NEW x \in [Elements -> Values], NEW y \in [Elements -> Values]
  PROVE  DotSum(x, y) \in Values
<1> DEFINE id == [i \in Elements |-> i]
           c(T) == CHOOSE e \in T : TRUE
           F(g) == [T \in SUBSET Elements |-> IF T = {} THEN 0
                     ELSE Alu("MAD", x[id[c(T)]], y[id[c(T)]], g[T \ {c(T)}])]
           G == CHOOSE g : g = F(g)
           step == [i \in Elements |-> [a \in Values |-> Alu("MAD", x[i], y[i], a)]]
<1>1. DotSum(x, y) = G[Elements]
  BY DEF DotSum, SumOver, FoldFunctionOnSet, MapThenFoldSet
<1>2. step \in [Elements -> [Values -> Values]]
  BY AluClosed DEF AluOps
<1>3. ASSUME NEW T \in SUBSET Elements, T # {} PROVE c(T) \in Elements
  BY <1>3
<1>4. PICK g \in [SUBSET Elements -> Values] : Accumulates(step, g)
  <2> HIDE DEF step
  <2> QED BY <1>2, AccumulatorExists
<1>5. g = F(g)
  <2>1. ASSUME NEW T \in SUBSET Elements
        PROVE  g[T] = IF T = {} THEN 0 ELSE Alu("MAD", x[id[c(T)]], y[id[c(T)]], g[T \ {c(T)}])
    <3>1. CASE T = {}
      BY <1>4, <3>1 DEF Accumulates
    <3>2. CASE T # {}
      <4>1. T \ {c(T)} \in SUBSET Elements
        OBVIOUS
      <4>2. g[T \ {c(T)}] \in Values
        BY <4>1
      <4>3. g[T] = step[c(T)][g[T \ {c(T)}]]
        BY <1>4, <3>2, <4>2 DEF Accumulates
      <4>4. c(T) \in Elements /\ id[c(T)] = c(T)
        BY <1>3, <3>2
      <4> HIDE DEF c, id
      <4>5. g[T] = Alu("MAD", x[c(T)], y[c(T)], g[T \ {c(T)}])
        BY <4>2, <4>3, <4>4
      <4> QED BY <3>2, <4>4, <4>5
    <3> QED BY <3>1, <3>2
  <2> HIDE DEF id, c
  <2> QED BY <2>1
<1>6. G = F(G)
  <2> HIDE DEF F
  <2> QED BY <1>5
<1> HIDE DEF G
<1>7. Accumulates(step, G)
  <2>1. ASSUME NEW T \in SUBSET Elements
        PROVE  /\ T = {} => G[T] = 0
               /\ T # {} /\ G[T \ {c(T)}] \in Values => G[T] = step[c(T)][G[T \ {c(T)}]]
    <3>1. G[T] = IF T = {} THEN 0 ELSE Alu("MAD", x[id[c(T)]], y[id[c(T)]], G[T \ {c(T)}])
      <4> HIDE DEF c, id
      <4> QED BY <1>6
    <3>2. T # {} => c(T) \in Elements /\ id[c(T)] = c(T)
      BY <1>3
    <3> HIDE DEF c, id
    <3> QED BY <3>1, <3>2
  <2> HIDE DEF step
  <2> QED BY <2>1 DEF Accumulates
<1>8. G[Elements] \in Values
  <2> HIDE DEF step
  <2> QED BY <1>2, <1>7, AccumulatesTyped
<1>9. QED
  BY <1>1, <1>8

LEMMA SumTyped ==
  ASSUME NEW x \in [Elements -> Values]
  PROVE  VectorSum(x) \in Values
<1> DEFINE id == [i \in Elements |-> i]
           c(T) == CHOOSE e \in T : TRUE
           F(g) == [T \in SUBSET Elements |-> IF T = {} THEN 0
                     ELSE Alu("ADD", g[T \ {c(T)}], x[id[c(T)]], 0)]
           G == CHOOSE g : g = F(g)
           step == [i \in Elements |-> [a \in Values |-> Alu("ADD", a, x[i], 0)]]
<1>1. VectorSum(x) = G[Elements]
  BY DEF VectorSum, SumOver, FoldFunctionOnSet, MapThenFoldSet
<1>2. step \in [Elements -> [Values -> Values]]
  BY AluClosed, ConstantsTyped DEF AluOps
<1>3. ASSUME NEW T \in SUBSET Elements, T # {} PROVE c(T) \in Elements
  BY <1>3
<1>4. PICK g \in [SUBSET Elements -> Values] : Accumulates(step, g)
  <2> HIDE DEF step
  <2> QED BY <1>2, AccumulatorExists
<1>5. g = F(g)
  <2>1. ASSUME NEW T \in SUBSET Elements
        PROVE  g[T] = IF T = {} THEN 0 ELSE Alu("ADD", g[T \ {c(T)}], x[id[c(T)]], 0)
    <3>1. CASE T = {}
      BY <1>4, <3>1 DEF Accumulates
    <3>2. CASE T # {}
      <4>1. T \ {c(T)} \in SUBSET Elements
        OBVIOUS
      <4>2. g[T \ {c(T)}] \in Values
        BY <4>1
      <4>3. g[T] = step[c(T)][g[T \ {c(T)}]]
        BY <1>4, <3>2, <4>2 DEF Accumulates
      <4>4. c(T) \in Elements /\ id[c(T)] = c(T)
        BY <1>3, <3>2
      <4> HIDE DEF c, id
      <4>5. g[T] = Alu("ADD", g[T \ {c(T)}], x[c(T)], 0)
        BY <4>2, <4>3, <4>4
      <4> QED BY <3>2, <4>4, <4>5
    <3> QED BY <3>1, <3>2
  <2> HIDE DEF id, c
  <2> QED BY <2>1
<1>6. G = F(G)
  <2> HIDE DEF F
  <2> QED BY <1>5
<1> HIDE DEF G
<1>7. Accumulates(step, G)
  <2>1. ASSUME NEW T \in SUBSET Elements
        PROVE  /\ T = {} => G[T] = 0
               /\ T # {} /\ G[T \ {c(T)}] \in Values => G[T] = step[c(T)][G[T \ {c(T)}]]
    <3>1. G[T] = IF T = {} THEN 0 ELSE Alu("ADD", G[T \ {c(T)}], x[id[c(T)]], 0)
      <4> HIDE DEF c, id
      <4> QED BY <1>6
    <3>2. T # {} => c(T) \in Elements /\ id[c(T)] = c(T)
      BY <1>3
    <3> HIDE DEF c, id
    <3> QED BY <3>1, <3>2
  <2> HIDE DEF step
  <2> QED BY <2>1 DEF Accumulates
<1>8. G[Elements] \in Values
  <2> HIDE DEF step
  <2> QED BY <1>2, <1>7, AccumulatesTyped
<1>9. QED
  BY <1>1, <1>8

-----------------------------------------------------------------------------
(* The types of the warp and of memory: every instruction whose operands       *)
(* exist preserves them.                                                      *)

Memory == [Addresses -> Values]

\* The part of TypeOK that is about the warp.
WarpOK(w) == w \in WarpType /\ \A l \in Lanes : w.s[l][0] = 0 /\ Len(w.ret[l]) <= MaxRet

OutcomeOK(out) == WarpOK(out.warp) /\ out.mem \in Memory

LEMMA FieldsTyped ==
  ASSUME NEW w, WarpOK(w)
  PROVE  /\ \A s2 \in [Lanes -> [Scalars -> Values]] :
              (\A l \in Lanes : s2[l][0] = 0) => WarpOK([w EXCEPT !.s = s2])
         /\ \A v2 \in [Lanes -> [Vectors -> [Elements -> Values]]] : WarpOK([w EXCEPT !.v = v2])
         /\ \A p2 \in [Lanes -> [0 .. NumPreds - 1 -> {0, 1}]] : WarpOK([w EXCEPT !.p = p2])
  BY DEF WarpOK, WarpType

LEMMA EndsTyped ==
  ASSUME NEW w, WarpOK(w), NEW m \in Memory
  PROVE  /\ OutcomeOK(Done(w, m)) /\ OutcomeOK(Trap(w, m))
         /\ \A faulting : OutcomeOK(Settle(faulting, w, m))
<1>1. OutcomeOK(Done(w, m))
  <2> DEFINE w2 == [w EXCEPT !.pc = @ + 1, !.cycles = @ + 1]
  <2>1. w.pc + 1 \in Int /\ w.cycles + 1 \in Nat
    BY DEF WarpOK, WarpType
  <2>2. WarpOK(w2)
    BY <2>1 DEF WarpOK, WarpType
  <2>3. Done(w, m).warp = w2 /\ Done(w, m).mem = m
    BY DEF Done, Outcome
  <2> QED BY <2>2, <2>3 DEF OutcomeOK
<1>2. OutcomeOK(Trap(w, m))
  BY DEF Trap, Outcome, OutcomeOK
<1>3. QED
  BY <1>1, <1>2 DEF Settle

LEMMA WriteScalarTyped ==
  ASSUME NEW w, WarpOK(w), NEW lanes, NEW reg, NEW val, \A l \in Lanes \cap lanes : val[l] \in Values
  PROVE  WarpOK(WriteScalar(w, lanes, reg, val))
<1>1. CASE reg = 0
  BY <1>1 DEF WriteScalar
<1>2. CASE reg # 0
  <2> DEFINE s2 == [l \in Lanes |-> IF l \in lanes THEN [w.s[l] EXCEPT ![reg] = val[l]] ELSE w.s[l]]
  <2>1. WriteScalar(w, lanes, reg, val) = [w EXCEPT !.s = s2]
    BY <1>2 DEF WriteScalar
  <2>2. \A l \in Lanes : w.s[l] \in [Scalars -> Values] /\ w.s[l][0] = 0
    BY DEF WarpOK, WarpType
  <2>3. ASSUME NEW l \in Lanes PROVE s2[l] \in [Scalars -> Values] /\ s2[l][0] = 0
    <3>1. 0 \in Scalars
      BY ConstantsTyped DEF Scalars
    <3> QED BY <1>2, <2>2, <3>1
  <2>4. s2 \in [Lanes -> [Scalars -> Values]]
    BY <2>3
  <2> HIDE DEF s2
  <2> QED BY <2>1, <2>3, <2>4, FieldsTyped
<1>3. QED
  BY <1>1, <1>2

LEMMA WriteVectorTyped ==
  ASSUME NEW w, WarpOK(w), NEW lanes, NEW reg, NEW val, \A l \in Lanes : val[l] \in [Elements -> Values]
  PROVE  WarpOK(WriteVector(w, lanes, reg, val))
<1> DEFINE v2 == [l \in Lanes |-> IF l \in lanes THEN [w.v[l] EXCEPT ![reg] = val[l]] ELSE w.v[l]]
<1>1. WriteVector(w, lanes, reg, val) = [w EXCEPT !.v = v2]
  BY DEF WriteVector
<1>2. \A l \in Lanes : w.v[l] \in [Vectors -> [Elements -> Values]]
  BY DEF WarpOK, WarpType
<1>3. v2 \in [Lanes -> [Vectors -> [Elements -> Values]]]
  BY <1>2
<1> HIDE DEF v2
<1>4. QED
  BY <1>1, <1>3, FieldsTyped

LEMMA RegistersTyped ==
  ASSUME NEW w, WarpOK(w), NEW l \in Lanes
  PROVE  /\ \A r \in Scalars : w.s[l][r] \in Values /\ w.s[l][r] \in Nat
         /\ \A r \in Vectors : w.v[l][r] \in [Elements -> Values]
         /\ \A r \in Vectors, i \in Elements : w.v[l][r][i] \in Values
         /\ w.ret[l] \in Seq(Int) /\ Len(w.ret[l]) \in 0 .. MaxRet /\ w.s[l][0] = 0
<1>1. Values \subseteq Nat
  BY ConstantsTyped DEF Values
<1>2. MaxRet \in Nat
  BY ConstantsTyped
<1>3. w.ret[l] \in Seq(Int) /\ Len(w.ret[l]) <= MaxRet /\ w.s[l][0] = 0
  BY DEF WarpOK, WarpType
<1>4. Len(w.ret[l]) \in 0 .. MaxRet
  BY <1>2, <1>3, LenProperties
<1>5. w.s[l] \in [Scalars -> Values] /\ w.v[l] \in [Vectors -> [Elements -> Values]]
  BY DEF WarpOK, WarpType
<1>6. QED
  BY <1>1, <1>3, <1>4, <1>5

LEMMA ScalarAluTyped ==
  ASSUME NEW w, WarpOK(w), NEW m \in Memory, NEW in, in.op \in AluOps, OperandsExist(in)
  PROVE  OutcomeOK(ScalarAlu(w, m, in))
<1> DEFINE operand(l) == IF in.op = "ADDi" THEN in.imm ELSE w.s[l][in.src2]
           val == [l \in Lanes |-> Alu(in.op, w.s[l][in.src1], operand(l), w.s[l][in.dst])]
<1>1. {in.src1, in.src2, in.dst} \subseteq Scalars
  BY DEF OperandsExist, AluOps, VectorAluOps
<1>2. ASSUME NEW l \in Lanes PROVE val[l] \in Values
  <2>1. w.s[l][in.src1] \in Values /\ w.s[l][in.src2] \in Values /\ w.s[l][in.dst] \in Values
    BY <1>1, RegistersTyped
  <2> DEFINE a == w.s[l][in.src1]
             b == w.s[l][in.src2]
             d == w.s[l][in.dst]
  <2> HIDE DEF a, b, d
  <2>2. a \in Values /\ b \in Values /\ d \in Values
    BY <2>1 DEF a, b, d
  <2>3. Alu(in.op, a, IF in.op = "ADDi" THEN in.imm ELSE b, d) \in Values
    <3>1. CASE in.op = "ADDi"
      BY <2>2, <3>1 DEF OperandsExist
    <3>2. CASE in.op # "ADDi"
      BY <2>2, <3>2, AluClosed
    <3> QED BY <3>1, <3>2
  <2> QED BY <2>3 DEF a, b, d
<1> HIDE DEF val
<1>3. WarpOK(WriteScalar(w, Executing(w, in), in.dst, val))
  BY <1>2, WriteScalarTyped
<1>4. ScalarAlu(w, m, in) = Done(WriteScalar(w, Executing(w, in), in.dst, val), m)
  BY DEF ScalarAlu, val
<1>5. QED
  BY <1>3, <1>4, EndsTyped

LEMMA SelectTyped ==
  ASSUME NEW w, WarpOK(w), NEW m \in Memory, NEW in, in.op = "SEL", OperandsExist(in)
  PROVE  OutcomeOK(Select(w, m, in))
<1> DEFINE holds(l) == in.pred # 0 /\ PredOk(w, l, in)
           val == [l \in Lanes |-> w.s[l][IF holds(l) THEN in.src1 ELSE in.src2]]
<1>1. {in.src1, in.src2} \subseteq Scalars
  BY DEF OperandsExist, AluOps, VectorAluOps
<1>2. ASSUME NEW l \in Lanes PROVE val[l] \in Values
  BY <1>1, RegistersTyped
<1> HIDE DEF val
<1>3. WarpOK(WriteScalar(w, Executing(w, in), in.dst, val))
  BY <1>2, WriteScalarTyped
<1>4. Select(w, m, in) = Done(WriteScalar(w, Executing(w, in), in.dst, val), m)
  BY DEF Select, val
<1>5. QED
  BY <1>3, <1>4, EndsTyped

LEMMA CompareTyped ==
  ASSUME NEW w, WarpOK(w), NEW m \in Memory, NEW in
  PROVE  OutcomeOK(Compare(w, m, in))
<1> DEFINE p2 == [l \in Lanes |->
          IF l \in Executing(w, in)
          THEN [w.p[l] EXCEPT ![in.dst] =
                  IF Holds(in.flags, w.s[l][in.src1], w.s[l][in.src2]) THEN 1 ELSE 0]
          ELSE w.p[l]]
<1>1. \A l \in Lanes : w.p[l] \in [0 .. NumPreds - 1 -> {0, 1}]
  BY DEF WarpOK, WarpType
<1>2. p2 \in [Lanes -> [0 .. NumPreds - 1 -> {0, 1}]]
  BY <1>1
<1>3. Compare(w, m, in) = Done([w EXCEPT !.p = p2], m)
  BY DEF Compare
<1> HIDE DEF p2
<1>4. QED
  BY <1>2, <1>3, FieldsTyped, EndsTyped

LEMMA SpecialTyped ==
  ASSUME NEW w, WarpOK(w), NEW m \in Memory, NEW in, NEW random \in [Lanes -> Values],
         in.op \in {"LANE_ID", "WARP_SZ", "CLOCK", "RAND"}
  PROVE  OutcomeOK(Special(w, m, in, random))
<1> DEFINE val == CASE in.op = "LANE_ID" -> [l \in Lanes |-> l % Mod]
                    [] in.op = "WARP_SZ" -> [l \in Lanes |-> NumLanes % Mod]
                    [] in.op = "CLOCK" -> [l \in Lanes |-> w.cycles % Mod]
                    [] in.op = "RAND" -> random
<1>1. NumLanes \in Int /\ w.cycles \in Int /\ \A l \in Lanes : l \in Int
  BY ConstantsTyped DEF WarpOK, WarpType, Lanes
<1>2. ASSUME NEW l \in Lanes PROVE val[l] \in Values
  BY <1>1, ConstantsTyped
<1> HIDE DEF val
<1>3. WarpOK(WriteScalar(w, Executing(w, in), in.dst, val))
  BY <1>2, WriteScalarTyped
<1>4. Special(w, m, in, random) = Done(WriteScalar(w, Executing(w, in), in.dst, val), m)
  BY DEF Special, val
<1>5. QED
  BY <1>3, <1>4, EndsTyped

LEMMA VectorAluTyped ==
  ASSUME NEW w, WarpOK(w), NEW m \in Memory, NEW in, in.op \in VectorAluOps, OperandsExist(in)
  PROVE  OutcomeOK(VectorAlu(w, m, in))
<1> DEFINE val == [l \in Lanes |-> [i \in Elements |->
               Alu(in.op, w.v[l][in.src1][i], w.v[l][in.src2][i], w.v[l][in.dst][i])]]
<1>1. {in.src1, in.src2, in.dst} \subseteq Vectors
  BY DEF OperandsExist, VectorAluOps
<1>2. ASSUME NEW l \in Lanes PROVE val[l] \in [Elements -> Values]
  <2>1. ASSUME NEW i \in Elements
        PROVE  Alu(in.op, w.v[l][in.src1][i], w.v[l][in.src2][i], w.v[l][in.dst][i]) \in Values
    <3>1. /\ w.v[l][in.src1][i] \in Values /\ w.v[l][in.src2][i] \in Values
          /\ w.v[l][in.dst][i] \in Values
      BY <1>1, RegistersTyped
    <3> QED BY <3>1, AluClosed
  <2> QED BY <2>1
<1> HIDE DEF val
<1>3. WarpOK(WriteVector(w, Executing(w, in), in.dst, val))
  BY <1>2, WriteVectorTyped
<1>4. VectorAlu(w, m, in) = Done(WriteVector(w, Executing(w, in), in.dst, val), m)
  BY DEF VectorAlu, val
<1>5. QED
  BY <1>3, <1>4, EndsTyped

LEMMA DotOutcomeTyped ==
  ASSUME NEW w, WarpOK(w), NEW m \in Memory, NEW in, in.op = "VDOT", OperandsExist(in)
  PROVE  OutcomeOK(Dot(w, m, in))
<1> DEFINE val == [l \in Lanes |-> [i \in Elements |->
                    IF i = 0 THEN DotSum(w.v[l][in.src1], w.v[l][in.src2]) ELSE 0]]
<1>1. {in.src1, in.src2} \subseteq Vectors
  BY DEF OperandsExist
<1>2. ASSUME NEW l \in Lanes PROVE val[l] \in [Elements -> Values]
  <2>1. w.v[l][in.src1] \in [Elements -> Values] /\ w.v[l][in.src2] \in [Elements -> Values]
    BY <1>1, RegistersTyped
  <2>2. DotSum(w.v[l][in.src1], w.v[l][in.src2]) \in Values
    BY <2>1, DotTyped
  <2> QED BY <2>2, ConstantsTyped
<1>3. Dot(w, m, in) = Done(WriteVector(w, Executing(w, in), in.dst, val), m)
  BY Zenon DEF Dot, DotSum, SumOver
<1> HIDE DEF val
<1>4. WarpOK(WriteVector(w, Executing(w, in), in.dst, val))
  BY <1>2, WriteVectorTyped
<1>5. QED
  BY <1>3, <1>4, EndsTyped

LEMMA BroadcastTyped ==
  ASSUME NEW w, WarpOK(w), NEW m \in Memory, NEW in, in.op = "VBROADCAST", OperandsExist(in)
  PROVE  OutcomeOK(Broadcast(w, m, in))
<1> DEFINE val == [l \in Lanes |-> [i \in Elements |-> w.s[l][in.src1]]]
<1>1. in.src1 \in Scalars
  BY DEF OperandsExist, VectorAluOps
<1>2. ASSUME NEW l \in Lanes PROVE val[l] \in [Elements -> Values]
  BY <1>1, RegistersTyped
<1>3. Broadcast(w, m, in) = Done(WriteVector(w, Executing(w, in), in.dst, val), m)
  BY DEF Broadcast
<1> HIDE DEF val
<1>4. WarpOK(WriteVector(w, Executing(w, in), in.dst, val))
  BY <1>2, WriteVectorTyped
<1>5. QED
  BY <1>3, <1>4, EndsTyped

LEMMA ReduceTyped ==
  ASSUME NEW w, WarpOK(w), NEW m \in Memory, NEW in, in.op = "VREDUCE", OperandsExist(in)
  PROVE  OutcomeOK(Reduce(w, m, in))
<1> DEFINE reduced(l) ==
             CASE in.flags = "RED_MAX" -> Max({0} \cup {w.v[l][in.dst][i] : i \in Elements \ {0}})
               [] in.flags = "RED_MIN" -> Min({w.v[l][in.dst][i] : i \in Elements})
               [] OTHER -> VectorSum(w.v[l][in.dst])
           val == [l \in Lanes |-> [w.v[l][in.dst] EXCEPT ![0] = reduced(l)]]
<1>1. in.dst \in Vectors
  BY DEF OperandsExist, VectorAluOps
<1>2. ASSUME NEW l \in Lanes PROVE val[l] \in [Elements -> Values]
  <2>1. w.v[l][in.dst] \in [Elements -> Values]
    BY <1>1, RegistersTyped
  <2> DEFINE x == w.v[l][in.dst]
  <2> HIDE DEF x
  <2>2. x \in [Elements -> Values]
    BY <2>1 DEF x
  <2>3. Max({0} \cup {x[i] : i \in Elements \ {0}}) \in Values
    <3> DEFINE S == {0} \cup {x[i] : i \in Elements \ {0}}
    <3>1. S \in SUBSET (0 .. Mod - 1) /\ S # {} /\ Mod - 1 \in Int
      BY <2>2, ConstantsTyped DEF Values
    <3> HIDE DEF S
    <3>2. Max(S) \in S
      BY <3>1, ExtremesIn
    <3> QED BY <3>1, <3>2 DEF S, Values
  <2>4. Min({x[i] : i \in Elements}) \in Values
    <3> DEFINE S == {x[i] : i \in Elements}
    <3>1. S \in SUBSET (0 .. Mod - 1) /\ S # {} /\ Mod - 1 \in Int
      BY <2>2, ConstantsTyped DEF Values
    <3> HIDE DEF S
    <3>2. Min(S) \in S
      BY <3>1, ExtremesIn
    <3> QED BY <3>1, <3>2 DEF S, Values
  <2>5. VectorSum(x) \in Values
    BY <2>2, SumTyped
  <2>6. reduced(l) \in Values
    BY <2>3, <2>4, <2>5 DEF x
  <2> HIDE DEF reduced
  <2> QED BY <2>1, <2>6
<1>3. Reduce(w, m, in) = Done(WriteVector(w, Executing(w, in), in.dst, val), m)
  BY Zenon DEF Reduce, VectorSum, SumOver
<1> HIDE DEF val
<1>4. WarpOK(WriteVector(w, Executing(w, in), in.dst, val))
  BY <1>2, WriteVectorTyped
<1>5. QED
  BY <1>3, <1>4, EndsTyped

-----------------------------------------------------------------------------
\* A lane that is served accesses memory that exists.
LEMMA ServedInBounds ==
  ASSUME NEW w, WarpOK(w), NEW in, in.op \in MemoryOps, OperandsExist(in),
         NEW words \in Nat, NEW l \in Served(w, in, words)
  PROVE  /\ l \in Lanes /\ l \in Executing(w, in)
         /\ Addr(w, l, in) \in Nat /\ Addr(w, l, in) + words <= MemWords
<1>1. l \in Executing(w, in) /\ l \in Lanes
  BY DEF Served, Executing, WarpOK, WarpType
<1>2. l \notin Faulting(w, in, words)
  BY <1>1 DEF Served, Lanes
<1>3. in.src1 \in Scalars /\ in.imm \in Nat
  BY DEF OperandsExist, VectorAluOps, MemoryOps
<1>4. Addr(w, l, in) \in Nat
  BY <1>1, <1>3, RegistersTyped DEF Addr
<1>5. ~(Addr(w, l, in) + words > MemWords)
  BY <1>1, <1>2 DEF Faulting
<1>6. MemWords \in Nat
  BY ConstantsTyped
<1>7. QED
  BY <1>1, <1>4, <1>5, <1>6

LEMMA LoadTyped ==
  ASSUME NEW w, WarpOK(w), NEW m \in Memory, NEW in, in.op = "LOAD", OperandsExist(in)
  PROVE  OutcomeOK(Load(w, m, in))
<1> DEFINE served == Served(w, in, 1)
           val == [l \in served |-> m[Addr(w, l, in)]]
<1>1. ASSUME NEW l \in Lanes \cap served PROVE val[l] \in Values
  <2>1. Addr(w, l, in) \in Nat /\ Addr(w, l, in) + 1 <= MemWords
    BY ServedInBounds DEF MemoryOps
  <2>2. Addr(w, l, in) \in Addresses
    BY <2>1, ConstantsTyped DEF Addresses
  <2> QED BY <2>2 DEF Memory
<1>2. Load(w, m, in) = Settle(Faulting(w, in, 1), WriteScalar(w, served, in.dst, val), m)
  BY DEF Load
<1> HIDE DEF served, val
<1>3. WarpOK(WriteScalar(w, served, in.dst, val))
  BY <1>1, WriteScalarTyped
<1>4. QED
  BY <1>2, <1>3, EndsTyped

LEMMA LoadVectorTyped ==
  ASSUME NEW w, WarpOK(w), NEW m \in Memory, NEW in, in.op = "LOADV", OperandsExist(in)
  PROVE  OutcomeOK(LoadVector(w, m, in))
<1> DEFINE served == Served(w, in, VecLanes)
           target(r) == r # 0 /\ r \div VecLanes = in.dst % (NumScalars \div VecLanes)
           s2 == [l \in Lanes |-> [r \in Scalars |->
                   IF l \in served /\ target(r) THEN m[Addr(w, l, in) + (r % VecLanes)]
                   ELSE w.s[l][r]]]
<1>1. ASSUME NEW l \in Lanes, l \in served, NEW r \in Scalars
      PROVE  m[Addr(w, l, in) + (r % VecLanes)] \in Values
  <2>1. /\ VecLanes \in Nat \ {0} /\ MemWords \in Nat
        /\ r % VecLanes \in 0 .. VecLanes - 1
    BY ConstantsTyped DEF Scalars, Elements
  <2>2. Addr(w, l, in) \in Nat /\ Addr(w, l, in) + VecLanes <= MemWords
    BY <1>1, <2>1, ServedInBounds DEF MemoryOps
  <2> DEFINE a == Addr(w, l, in)
             k == r % VecLanes
  <2> HIDE DEF a, k
  <2>3. a + k \in 0 .. MemWords - 1
    BY <2>1, <2>2 DEF a, k
  <2>4. m[a + k] \in Values
    BY <2>3 DEF Memory, Addresses
  <2> QED BY <2>4 DEF a, k
<1>2. ASSUME NEW l \in Lanes PROVE s2[l] \in [Scalars -> Values] /\ s2[l][0] = 0
  <2>1. ASSUME NEW r \in Scalars PROVE s2[l][r] \in Values
    <3>1. w.s[l][r] \in Values
      BY RegistersTyped
    <3> HIDE DEF target, served
    <3> QED BY <1>1, <3>1
  <2>2. s2[l][0] = w.s[l][0] /\ 0 \in Scalars
    BY ConstantsTyped DEF Scalars
  <2>3. s2[l] = [r \in Scalars |-> s2[l][r]]
    OBVIOUS
  <2> HIDE DEF s2
  <2> QED BY <2>1, <2>2, <2>3, RegistersTyped
<1>3. s2 \in [Lanes -> [Scalars -> Values]]
  <2>1. s2 = [l \in Lanes |-> s2[l]]
    OBVIOUS
  <2> HIDE DEF s2
  <2> QED BY <1>2, <2>1
<1>4. LoadVector(w, m, in) = Settle(Faulting(w, in, VecLanes), [w EXCEPT !.s = s2], m)
  BY DEF LoadVector
<1> HIDE DEF s2
<1>5. WarpOK([w EXCEPT !.s = s2])
  BY <1>2, <1>3, FieldsTyped
<1>6. QED
  BY <1>4, <1>5, EndsTyped

\* The words that a STORE and a STOREV leave, for whatever the lanes store.
LEMMA StoreTyped ==
  ASSUME NEW w, WarpOK(w), NEW m \in Memory, NEW in, in.op = "STORE", OperandsExist(in)
  PROVE  OutcomeOK(Store(w, m, in))
<1> DEFINE writers(a) == {l \in Served(w, in, 1) : a - Addr(w, l, in) \in 0 .. 1 - 1}
           m2 == [a \in Addresses |-> IF writers(a) = {} THEN m[a] ELSE w.s[Max(writers(a))][in.dst]]
<1>1. in.dst \in Scalars
  BY DEF OperandsExist, VectorAluOps
<1>2. ASSUME NEW a \in Addresses, writers(a) # {} PROVE Max(writers(a)) \in Lanes
  <2>1. writers(a) \in SUBSET (0 .. NumLanes - 1) /\ NumLanes - 1 \in Int
    BY ServedInBounds, ConstantsTyped DEF Lanes, MemoryOps
  <2> HIDE DEF writers
  <2> QED BY <1>2, <2>1, ExtremesIn DEF Lanes
<1>3. m2 \in Memory
  <2>1. ASSUME NEW a \in Addresses PROVE m2[a] \in Values
    <3> HIDE DEF writers
    <3> QED BY <1>1, <1>2, RegistersTyped DEF Memory
  <2> HIDE DEF writers
  <2> QED BY <2>1 DEF Memory
<1>4. Store(w, m, in) = Settle(Faulting(w, in, 1), w, m2)
  BY Zenon DEF Store, Stored
<1> HIDE DEF m2
<1>5. QED
  BY <1>3, <1>4, EndsTyped

LEMMA StoreVectorTyped ==
  ASSUME NEW w, WarpOK(w), NEW m \in Memory, NEW in, in.op = "STOREV", OperandsExist(in)
  PROVE  OutcomeOK(StoreVector(w, m, in))
<1> DEFINE writers(a) == {l \in Served(w, in, VecLanes) : a - Addr(w, l, in) \in 0 .. VecLanes - 1}
           m2 == [a \in Addresses |-> IF writers(a) = {} THEN m[a]
                   ELSE w.v[Max(writers(a))][in.dst][a - Addr(w, Max(writers(a)), in)]]
<1>1. in.dst \in Vectors
  BY DEF OperandsExist, VectorAluOps
<1>2. ASSUME NEW a \in Addresses, writers(a) # {}
      PROVE  /\ Max(writers(a)) \in Lanes
             /\ a - Addr(w, Max(writers(a)), in) \in Elements
  <2>1. writers(a) \in SUBSET (0 .. NumLanes - 1) /\ NumLanes - 1 \in Int
    <3>1. VecLanes \in Nat /\ NumLanes - 1 \in Int
      BY ConstantsTyped
    <3>2. \A l \in Served(w, in, VecLanes) : l \in Lanes
      BY <3>1, ServedInBounds DEF MemoryOps
    <3> QED BY <3>1, <3>2 DEF Lanes
  <2>2. Max(writers(a)) \in writers(a)
    <3> HIDE DEF writers
    <3> QED BY <1>2, <2>1, ExtremesIn
  <2>3. \A l \in writers(a) : a - Addr(w, l, in) \in Elements
    BY DEF Elements
  <2> HIDE DEF writers
  <2> QED BY <2>1, <2>2, <2>3 DEF Lanes
<1>3. m2 \in Memory
  <2>1. ASSUME NEW a \in Addresses PROVE m2[a] \in Values
    <3> HIDE DEF writers
    <3> QED BY <1>1, <1>2, RegistersTyped DEF Memory
  <2> HIDE DEF writers
  <2> QED BY <2>1 DEF Memory
<1>4. StoreVector(w, m, in) = Settle(Faulting(w, in, VecLanes), w, m2)
  BY Zenon DEF StoreVector, Stored
<1> HIDE DEF m2
<1>5. QED
  BY <1>3, <1>4, EndsTyped

\* What lanes add to a word is an integer, in whatever order.
LEMMA AddedTyped ==
  ASSUME NEW w, WarpOK(w), NEW m \in Memory, NEW in, in.op = "ATOMIC_ADD", OperandsExist(in),
         NEW a \in Addresses, NEW lanes \in SUBSET Lanes
  PROVE  Added(w, m, in, a, lanes) \in Values
<1> DEFINE f == [l \in Lanes |-> w.s[l][in.src2]]
           adding == {l \in lanes : Addr(w, l, in) = a}
<1>1. in.src2 \in Scalars
  BY DEF OperandsExist, VectorAluOps
<1>2. \A l \in adding : f[l] \in Int
  BY <1>1, RegistersTyped
<1>3. IsFiniteSet(adding)
  BY FS_Subset, ConstantsTyped
<1>4. SumFunctionOnSet(f, adding) \in Int
  <2> HIDE DEF f, adding
  <2> QED BY <1>2, <1>3, SumType
<1>5. m[a] \in Int
  BY ConstantsTyped DEF Memory, Values
<1>6. Added(w, m, in, a, lanes) = (m[a] + SumFunctionOnSet(f, adding)) % Mod
  BY DEF Added
<1> HIDE DEF f, adding
<1>7. m[a] + SumFunctionOnSet(f, adding) \in Int
  BY <1>4, <1>5
<1>8. QED
  BY <1>6, <1>7, ConstantsTyped

LEMMA AtomicAddTyped ==
  ASSUME NEW w, WarpOK(w), NEW m \in Memory, NEW in, in.op = "ATOMIC_ADD", OperandsExist(in)
  PROVE  OutcomeOK(AtomicAdd(w, m, in))
<1> DEFINE served == Served(w, in, 1)
           old == [l \in served |-> Added(w, m, in, Addr(w, l, in), {k \in served : k < l})]
           sum == [a \in Addresses |-> Added(w, m, in, a, served)]
<1>1. served \in SUBSET Lanes
  BY ServedInBounds DEF MemoryOps
<1>2. ASSUME NEW l \in Lanes \cap served PROVE old[l] \in Values
  <2>1. Addr(w, l, in) \in Nat /\ Addr(w, l, in) + 1 <= MemWords
    BY ServedInBounds DEF MemoryOps
  <2>2. Addr(w, l, in) \in Addresses
    BY <2>1, ConstantsTyped DEF Addresses
  <2>3. {k \in served : k < l} \in SUBSET Lanes
    BY <1>1
  <2>4. old[l] = Added(w, m, in, Addr(w, l, in), {k \in served : k < l})
    OBVIOUS
  <2> HIDE DEF served, old
  <2> QED BY <2>2, <2>3, <2>4, AddedTyped
<1>3. sum \in Memory
  <2> HIDE DEF served
  <2> QED BY <1>1, AddedTyped DEF Memory
<1>4. AtomicAdd(w, m, in) = Settle(Faulting(w, in, 1), WriteScalar(w, served, in.dst, old), sum)
  BY DEF AtomicAdd
<1> HIDE DEF served, old, sum
<1>5. WarpOK(WriteScalar(w, served, in.dst, old))
  BY <1>2, WriteScalarTyped
<1>6. QED
  BY <1>3, <1>4, <1>5, EndsTyped

-----------------------------------------------------------------------------
LEMMA JumpTyped ==
  ASSUME NEW w, WarpOK(w), NEW m \in Memory, NEW in, in.imm \in Int
  PROVE  OutcomeOK(Jump(w, m, in)) /\ OutcomeOK(Branch(w, m, in))
<1> DEFINE w2 == [w EXCEPT !.pc = @ + 1 + in.imm]
<1>1. w.pc + 1 + in.imm \in Int
  BY DEF WarpOK, WarpType
<1>2. WarpOK(w2)
  BY <1>1 DEF WarpOK, WarpType
<1>3. Jump(w, m, in).warp = w2 /\ Jump(w, m, in).mem = m
  BY DEF Jump, Outcome
<1>4. OutcomeOK(Jump(w, m, in))
  BY <1>2, <1>3 DEF OutcomeOK
<1>5. QED
  BY <1>4, EndsTyped DEF Branch

LEMMA StacksTyped ==
  ASSUME NEW w, WarpOK(w), NEW ret, NEW pc \in Int,
         \A l \in Lanes : ret[l] \in Seq(Int) /\ Len(ret[l]) <= MaxRet, DOMAIN ret = Lanes,
         ret = [l \in Lanes |-> ret[l]]
  PROVE  WarpOK([w EXCEPT !.ret = ret]) /\ WarpOK([w EXCEPT !.ret = ret, !.pc = pc])
<1>1. ret \in [Lanes -> Seq(Int)]
  OBVIOUS
<1>2. QED
  BY <1>1 DEF WarpOK, WarpType

LEMMA CallTyped ==
  ASSUME NEW w, WarpOK(w), NEW m \in Memory, NEW in, in.imm \in Int
  PROVE  OutcomeOK(Call(w, m, in))
<1> DEFINE calling == Executing(w, in)
           full == {l \in calling : Len(w.ret[l]) >= MaxRet}
           saving == {l \in calling : \A f \in full : l < f}
           ret == [l \in Lanes |-> IF l \in saving THEN Append(w.ret[l], w.pc + 1) ELSE w.ret[l]]
           pushed == [w EXCEPT !.ret = ret]
<1>1. w.pc + 1 \in Int /\ w.pc \in Int /\ MaxRet \in Nat
  BY ConstantsTyped DEF WarpOK, WarpType
<1>2. ASSUME NEW l \in Lanes PROVE ret[l] \in Seq(Int) /\ Len(ret[l]) <= MaxRet
  <2>1. w.ret[l] \in Seq(Int) /\ Len(w.ret[l]) \in 0 .. MaxRet
    BY RegistersTyped
  <2>2. CASE l \in saving
    <3>1. l \notin full
      BY <2>2 DEF Lanes
    <3>2. ~(Len(w.ret[l]) >= MaxRet)
      BY <2>2, <3>1
    <3>3. ret[l] = Append(w.ret[l], w.pc + 1)
      BY <2>2
    <3>4. ret[l] \in Seq(Int) /\ Len(ret[l]) = Len(w.ret[l]) + 1
      BY <1>1, <2>1, <3>3, AppendProperties
    <3> QED BY <1>1, <2>1, <3>2, <3>4
  <2>3. CASE l \notin saving
    BY <2>1, <2>3
  <2> QED BY <2>2, <2>3
<1>3. Call(w, m, in) = IF full # {} THEN Trap(pushed, m) ELSE Jump(pushed, m, in)
  BY DEF Call
<1>4. WarpOK(pushed)
  <2>1. ret = [l \in Lanes |-> ret[l]] /\ DOMAIN ret = Lanes
    OBVIOUS
  <2> HIDE DEF ret
  <2> QED BY <1>1, <1>2, <2>1, StacksTyped
<1> HIDE DEF pushed, full
<1>5. QED
  BY <1>3, <1>4, EndsTyped, JumpTyped

LEMMA ReturnTyped ==
  ASSUME NEW w, WarpOK(w), NEW m \in Memory
  PROVE  OutcomeOK(Return(w, m))
<1> DEFINE empty == {l \in w.active : w.ret[l] = <<>>}
           popping == {l \in w.active : \A e \in empty : l < e}
           ret == [l \in Lanes |-> IF l \in popping THEN Front(w.ret[l]) ELSE w.ret[l]]
           pc == IF popping = {} THEN w.pc ELSE Last(w.ret[Max(popping)])
<1>1. w.active \subseteq Lanes /\ w.pc \in Int
  BY DEF WarpOK, WarpType
<1>2. ASSUME NEW l \in popping
      PROVE  /\ l \in Lanes /\ w.ret[l] \in Seq(Int) /\ w.ret[l] # <<>>
             /\ Len(w.ret[l]) \in 1 .. MaxRet
  <2>1. l \in Lanes /\ l \in w.active
    BY <1>1
  <2>2. l \notin empty
    BY <2>1 DEF Lanes
  <2>3. w.ret[l] \in Seq(Int) /\ Len(w.ret[l]) \in 0 .. MaxRet /\ w.ret[l] # <<>>
    BY <2>1, <2>2, RegistersTyped
  <2>4. Len(w.ret[l]) # 0
    BY <2>3, EmptySeq
  <2>5. MaxRet \in Nat
    BY ConstantsTyped
  <2> QED BY <2>1, <2>3, <2>4, <2>5
<1>3. ASSUME NEW l \in Lanes PROVE ret[l] \in Seq(Int) /\ Len(ret[l]) <= MaxRet
  <2>1. w.ret[l] \in Seq(Int) /\ Len(w.ret[l]) \in 0 .. MaxRet /\ MaxRet \in Nat
    BY RegistersTyped, ConstantsTyped
  <2>2. CASE l \in popping
    <3> DEFINE s == w.ret[l]
    <3>1. s \in Seq(Int) /\ Len(s) \in 1 .. MaxRet
      BY <1>2, <2>2
    <3>2. ret[l] = SubSeq(s, 1, Len(s) - 1)
      BY <2>2 DEF Front
    <3> HIDE DEF s
    <3> DEFINE k == Len(s) - 1
    <3>3. SubSeq(s, 1, k) \in Seq(Int) /\ Len(SubSeq(s, 1, k)) = k
      <4>1. k \in Nat /\ 1 .. k \subseteq 1 .. Len(s)
        BY <2>1, <3>1
      <4>2. \A i \in 1 .. k : s[i] \in Int
        BY <3>1, <4>1, ElementOfSeq
      <4> HIDE DEF k
      <4>3. /\ SubSeq(s, 1, k) \in Seq(Int)
            /\ Len(SubSeq(s, 1, k)) = IF 1 <= k THEN k - 1 + 1 ELSE 0
        BY <4>1, <4>2, SubSeqProperties
      <4>4. (IF 1 <= k THEN k - 1 + 1 ELSE 0) = k
        BY <4>1
      <4> QED BY <4>3, <4>4
    <3> HIDE DEF ret
    <3> QED BY <2>1, <3>1, <3>2, <3>3
  <2>3. CASE l \notin popping
    BY <2>1, <2>3
  <2> QED BY <2>2, <2>3
<1>4. pc \in Int
  <2>1. CASE popping = {}
    BY <1>1, <2>1
  <2>2. CASE popping # {}
    <3>1. popping \in SUBSET (0 .. NumLanes - 1) /\ NumLanes - 1 \in Int
      BY <1>1, ConstantsTyped DEF Lanes
    <3>2. Max(popping) \in popping
      <4> HIDE DEF popping
      <4> QED BY <2>2, <3>1, ExtremesIn
    <3> DEFINE s == w.ret[Max(popping)]
    <3>3. s \in Seq(Int) /\ Len(s) \in 1 .. MaxRet
      <4> HIDE DEF popping
      <4> QED BY <1>2, <3>2
    <3>4. pc = s[Len(s)]
      BY <2>2 DEF Last
    <3> HIDE DEF s, pc
    <3>5. Len(s) \in 1 .. Len(s)
      BY <3>3, ConstantsTyped
    <3> QED BY <3>3, <3>4, <3>5, ElementOfSeq
  <2> QED BY <2>1, <2>2
<1>5. WarpOK([w EXCEPT !.ret = ret, !.pc = pc])
  <2>1. ret = [l \in Lanes |-> ret[l]] /\ DOMAIN ret = Lanes
    OBVIOUS
  <2> HIDE DEF ret, pc
  <2> QED BY <1>3, <1>4, <2>1, StacksTyped
<1>6. Return(w, m).warp = [w EXCEPT !.ret = ret, !.pc = pc] /\ Return(w, m).mem = m
  BY DEF Return, Outcome
<1> HIDE DEF ret, pc
<1>7. QED
  BY <1>5, <1>6 DEF OutcomeOK

LEMMA ExitTyped ==
  ASSUME NEW w, WarpOK(w), NEW m \in Memory
  PROVE  OutcomeOK(Exit(w, m))
<1>1. WarpOK([w EXCEPT !.active = {}])
  BY DEF WarpOK, WarpType
<1>2. QED
  BY <1>1, EndsTyped DEF Exit

\* Whatever the opcode.
LEMMA ExecuteTyped ==
  ASSUME NEW w, WarpOK(w), NEW m \in Memory, NEW in, OperandsExist(in),
         NEW random \in [Lanes -> Values]
  PROVE  OutcomeOK(Execute(w, m, in, random))
<1>1. in.imm \in Int
  BY DEF OperandsExist
<1>2. OutcomeOK(Jump(w, m, in)) /\ OutcomeOK(Branch(w, m, in)) /\ OutcomeOK(Call(w, m, in))
  BY <1>1, JumpTyped, CallTyped
<1>3. OutcomeOK(Done(w, m)) /\ OutcomeOK(Trap(w, m)) /\ OutcomeOK(Exit(w, m)) /\ OutcomeOK(Return(w, m))
  BY EndsTyped, ExitTyped, ReturnTyped
<1>4. /\ in.op \in AluOps => OutcomeOK(ScalarAlu(w, m, in))
      /\ in.op = "SEL" => OutcomeOK(Select(w, m, in))
      /\ in.op = "CMP" => OutcomeOK(Compare(w, m, in))
      /\ in.op \in {"LANE_ID", "WARP_SZ", "CLOCK", "RAND"} => OutcomeOK(Special(w, m, in, random))
  BY ScalarAluTyped, SelectTyped, CompareTyped, SpecialTyped
<1>5. /\ in.op \in VectorAluOps => OutcomeOK(VectorAlu(w, m, in))
      /\ in.op = "VDOT" => OutcomeOK(Dot(w, m, in))
      /\ in.op = "VBROADCAST" => OutcomeOK(Broadcast(w, m, in))
      /\ in.op = "VREDUCE" => OutcomeOK(Reduce(w, m, in))
  BY VectorAluTyped, DotOutcomeTyped, BroadcastTyped, ReduceTyped
<1>6. /\ in.op = "LOAD" => OutcomeOK(Load(w, m, in))
      /\ in.op = "LOADV" => OutcomeOK(LoadVector(w, m, in))
      /\ in.op = "STORE" => OutcomeOK(Store(w, m, in))
      /\ in.op = "STOREV" => OutcomeOK(StoreVector(w, m, in))
      /\ in.op = "ATOMIC_ADD" => OutcomeOK(AtomicAdd(w, m, in))
  BY LoadTyped, LoadVectorTyped, StoreTyped, StoreVectorTyped, AtomicAddTyped
<1>7. QED
  BY <1>2, <1>3, <1>4, <1>5, <1>6 DEF Execute

-----------------------------------------------------------------------------
(* Types of the device and of its tools.                                      *)

\* The types, and that what the tools keep has the shape it was given.
TypesInv ==
  /\ TypeOK /\ image \in Images
  /\ gdb = [breaks |-> gdb.breaks, hits |-> gdb.hits, steps |-> gdb.steps]
  /\ tl.events \in Seq(Int)

LEMMA ClearedTyped == WarpOK(ClearedWarp)
<1>1. /\ 0 \in Values /\ \A l \in Lanes : <<>> \in Seq(Int) /\ Len(<<>>) <= MaxRet
      /\ 0 \in Scalars
  BY ConstantsTyped DEF Scalars
<1>2. QED
  BY <1>1 DEF WarpOK, WarpType, ClearedWarp

LEMMA LaunchedTyped ==
  ASSUME NEW entry \in Nat, NEW args \in Args
  PROVE  WarpOK(LaunchedWarp(entry, args))
<1> DEFINE arg == [r \in Scalars |->
             IF r - ArgBase + 1 \in DOMAIN args /\ r - ArgBase + 1 <= NumArgs
             THEN args[r - ArgBase + 1] ELSE 0]
           s2 == [l \in Lanes |-> [arg EXCEPT ![1] = l % Mod]]
           w2 == [ClearedWarp EXCEPT !.pc = entry, !.active = Lanes]
<1>1. WarpOK(w2)
  <2> DEFINE w == ClearedWarp
  <2>1. WarpOK(w) /\ entry \in Int
    BY ClearedTyped
  <2>2. w2 = [w EXCEPT !.pc = entry, !.active = Lanes]
    OBVIOUS
  <2> HIDE DEF w, w2
  <2> QED BY <2>1, <2>2 DEF WarpOK, WarpType
<1>2. LaunchedWarp(entry, args) = [w2 EXCEPT !.s = s2]
  BY DEF LaunchedWarp, ClearedWarp
<1>3. arg \in [Scalars -> Values] /\ arg[0] = 0
  <2>1. ArgBase \in Nat \ {0} /\ DOMAIN args \subseteq Nat \ {0} /\ \A n \in DOMAIN args : args[n] \in Values
    BY BvrtConstants
  <2>2. 0 \in Scalars /\ 0 \in Values
    BY ConstantsTyped DEF Scalars
  <2>3. 0 - ArgBase + 1 \notin DOMAIN args
    BY <2>1
  <2> QED BY <2>1, <2>2, <2>3
<1>4. \A l \in Lanes : l % Mod \in Values
  BY ConstantsTyped DEF Lanes
<1> HIDE DEF arg
<1>5. s2 \in [Lanes -> [Scalars -> Values]] /\ \A l \in Lanes : s2[l][0] = 0
  <2>1. ASSUME NEW x \in Values
        PROVE  [arg EXCEPT ![1] = x] \in [Scalars -> Values] /\ [arg EXCEPT ![1] = x][0] = 0
    <3> DEFINE b == [arg EXCEPT ![1] = x]
    <3>1. 0 \in Scalars
      BY ConstantsTyped DEF Scalars
    <3>2. b = [r \in Scalars |-> IF r = 1 THEN x ELSE arg[r]]
      BY <1>3
    <3> HIDE DEF b
    <3>3. b \in [Scalars -> Values] /\ b[0] = 0
      BY <1>3, <3>1, <3>2
    <3> QED BY <3>3 DEF b
  <2> QED BY <1>4, <2>1
<1> HIDE DEF w2, s2
<1>6. QED
  BY <1>1, <1>2, <1>5, FieldsTyped

LEMMA OutcomesTyped ==
  ASSUME TypesInv, NEW out \in Outcomes
  PROVE  OutcomeOK(out)
<1>1. WarpOK(warp) /\ mem \in Memory
  BY DEF TypesInv, TypeOK, WarpOK, Memory
<1>2. CASE ~InRange
  BY <1>1, <1>2, EndsTyped DEF Outcomes
<1>3. CASE InRange
  <2>1. OperandsExist(Fetched)
    BY <1>3, BvrtConstants DEF TypesInv, InRange, Fetched
  <2>2. PICK random \in [Lanes -> Values] : out = Execute(warp, mem, Fetched, random)
    <3>1. [l \in Lanes |-> 0] \in [Lanes -> Values]
      BY ConstantsTyped
    <3> QED BY <1>3, <3>1, Zenon DEF Outcomes
  <2> QED BY <1>1, <2>1, <2>2, ExecuteTyped
<1>4. QED
  BY <1>2, <1>3

LEMMA TypesInit == Init => TypesInv
<1> SUFFICES ASSUME Init PROVE TypesInv
  OBVIOUS
<1>1. WarpOK(warp)
  BY ClearedTyped DEF Init
<1>2. MaxEvents \in Nat /\ Contents \in [Addresses -> Values]
  BY BvrtConstants
<1>3. /\ call \in [tool : {"none", "run", "continue", "trace"}, budget : Budgets \cup {0}]
      /\ tl.insns \in Nat /\ tl.traps \in 0 .. tl.insns /\ Len(tl.events) <= MaxEvents
      /\ gdb.breaks \subseteq DOMAIN image.code /\ gdb.hits \in Nat /\ gdb.steps \in Nat
  BY <1>2 DEF Init, NoCall
<1>4. gdb = [breaks |-> gdb.breaks, hits |-> gdb.hits, steps |-> gdb.steps] /\ tl.events \in Seq(Int)
  BY DEF Init
<1>5. QED
  BY <1>1, <1>2, <1>3, <1>4 DEF Init, TypesInv, TypeOK, WarpOK

\* The parts of the types that are about the tools.
CallOK == call \in [tool : {"none", "run", "continue", "trace"}, budget : Budgets \cup {0}]
StatusOK == status \in {"OK", "TRAP", "TIMEOUT", "HALT"}
GdbOK ==
  /\ gdb = [breaks |-> gdb.breaks, hits |-> gdb.hits, steps |-> gdb.steps]
  /\ gdb.breaks \subseteq DOMAIN image.code /\ gdb.hits \in Nat /\ gdb.steps \in Nat
TlOK ==
  /\ tl.insns \in Nat /\ tl.traps \in 0 .. tl.insns
  /\ tl.events \in Seq(Int) /\ Len(tl.events) <= MaxEvents
DeviceOK == WarpOK(warp) /\ mem \in Memory /\ insns \in Nat /\ image \in Images

LEMMA TypesAre == TypesInv <=> DeviceOK /\ CallOK /\ StatusOK /\ GdbOK /\ TlOK
  BY DEF TypesInv, TypeOK, WarpOK, Memory, DeviceOK, CallOK, StatusOK, GdbOK, TlOK

LEMMA DeviceStepTyped ==
  ASSUME TypesInv, NEW out \in Outcomes, DeviceStep(out), UNCHANGED image
  PROVE  DeviceOK'
<1>1. WarpOK(warp') /\ mem' \in Memory
  BY OutcomesTyped DEF DeviceStep, OutcomeOK
<1>2. insns' \in Nat
  BY TypesAre DEF DeviceStep, Counted, DeviceOK
<1>3. image' \in Images
  BY TypesAre DEF DeviceOK
<1>4. QED
  BY <1>1, <1>2, <1>3 DEF DeviceOK, WarpOK

LEMMA GoesOnTyped ==
  ASSUME CallOK, StatusOK, NEW out, GoesOn(out)
  PROVE  CallOK' /\ StatusOK'
  BY DEF CallOK, StatusOK, GoesOn, NoCall

LEMMA GdbSteppedTyped ==
  ASSUME GdbOK, NEW out, gdb' = GdbStepped(out), UNCHANGED image
  PROVE  GdbOK'
<1>1. gdb.steps + 1 \in Nat
  BY DEF GdbOK
<1>2. CASE out.trap
  BY <1>2 DEF GdbOK, GdbStepped
<1>3. CASE ~out.trap
  <2>1. gdb' = [breaks |-> gdb.breaks, hits |-> gdb.hits, steps |-> gdb.steps + 1]
    BY <1>3 DEF GdbOK, GdbStepped
  <2> QED BY <1>1, <2>1 DEF GdbOK
<1>4. QED
  BY <1>2, <1>3

LEMMA RetiredTyped ==
  ASSUME DeviceOK, TlOK, NEW out, tl' = Retired(out)
  PROVE  TlOK'
<1>1. warp.pc \in Int /\ MaxEvents \in Nat
  BY BvrtConstants DEF DeviceOK, WarpOK, WarpType
<1>2. /\ tl'.insns = tl.insns + 1
      /\ tl'.traps = tl.traps + (IF out.trap THEN 1 ELSE 0)
      /\ tl'.events = IF Len(tl.events) < MaxEvents THEN Append(tl.events, warp.pc) ELSE tl.events
  BY DEF Retired
<1>3. tl'.insns \in Nat /\ tl'.traps \in 0 .. tl'.insns
  BY <1>2 DEF TlOK
<1>4. tl'.events \in Seq(Int) /\ Len(tl'.events) <= MaxEvents
  <2>1. tl.events \in Seq(Int) /\ Len(tl.events) \in Nat /\ Len(tl.events) <= MaxEvents
    BY LenProperties DEF TlOK
  <2>2. /\ Append(tl.events, warp.pc) \in Seq(Int)
        /\ Len(Append(tl.events, warp.pc)) = Len(tl.events) + 1
    BY <1>1, <2>1, AppendProperties
  <2> QED BY <1>1, <1>2, <2>1, <2>2
<1>5. QED
  BY <1>3, <1>4 DEF TlOK

LEMMA TypesStep == TypesInv /\ [Next]_vars => TypesInv'
<1> SUFFICES ASSUME TypesInv, [Next]_vars PROVE TypesInv'
  OBVIOUS
<1>1. DeviceOK /\ CallOK /\ StatusOK /\ GdbOK /\ TlOK
  BY TypesAre
<1>2. DeviceOK' /\ CallOK' /\ StatusOK' /\ GdbOK' /\ TlOK' => TypesInv'
  BY TypesAre, PTL
<1>3. /\ UNCHANGED <<image, warp, mem, insns>> => DeviceOK'
      /\ UNCHANGED call => CallOK'
      /\ UNCHANGED status => StatusOK'
      /\ UNCHANGED <<image, gdb>> => GdbOK'
      /\ UNCHANGED tl => TlOK'
  BY <1>1 DEF DeviceOK, WarpOK, CallOK, StatusOK, GdbOK, TlOK
<1>4. ASSUME NEW entry \in image.entries, NEW args \in Args, Launch(entry, args)
      PROVE  TypesInv'
  <2>1. UNCHANGED <<image, mem, call, status, gdb, tl>>
    BY <1>4 DEF Launch
  <2>2. entry \in Nat
    BY <1>1, BvrtConstants DEF DeviceOK
  <2>3. WarpOK(warp')
    BY <1>4, <2>2, LaunchedTyped DEF Launch
  <2>4. DeviceOK'
    BY <1>1, <1>4, <2>1, <2>3 DEF DeviceOK, Launch, WarpOK
  <2> QED BY <1>2, <1>3, <2>1, <2>4
<1>5. ASSUME NEW pc \in DOMAIN image.code, NEW enabled \in BOOLEAN, SetBreak(pc, enabled)
      PROVE  TypesInv'
  <2>1. /\ UNCHANGED <<image, warp, mem, insns, call, status, tl>>
        /\ gdb' = [gdb EXCEPT !.breaks = IF enabled THEN gdb.breaks \cup {pc} ELSE gdb.breaks \ {pc}]
    BY <1>5 DEF SetBreak
  <2>2. GdbOK'
    <3>1. gdb' = [breaks |-> IF enabled THEN gdb.breaks \cup {pc} ELSE gdb.breaks \ {pc},
                  hits |-> gdb.hits, steps |-> gdb.steps]
      BY <1>1, <2>1 DEF GdbOK
    <3> QED BY <1>1, <2>1, <3>1 DEF GdbOK
  <2> QED BY <1>2, <1>3, <2>1, <2>2
<1>6. ASSUME NEW tool \in {"run", "trace", "continue"}, NEW budget \in Budgets \cup {0},
             Enter(tool, budget)
      PROVE  TypesInv'
  <2>1. UNCHANGED <<image, warp, mem, insns, status, gdb, tl>> /\ CallOK'
    BY <1>6 DEF Enter, CallOK
  <2> QED BY <1>2, <1>3, <2>1
<1>7. ASSUME NEW out \in Outcomes, GdbStep(out) \/ TraceOnce(out)
      PROVE  TypesInv'
  <2>1. DeviceStep(out) /\ UNCHANGED <<image, call>> /\ status' \in {"TRAP", "OK"}
    BY <1>7 DEF GdbStep, TraceOnce
  <2>2. GdbOK' /\ TlOK'
    <3>1. CASE GdbStep(out)
      BY <1>1, <1>3, <3>1, GdbSteppedTyped DEF GdbStep
    <3>2. CASE TraceOnce(out)
      BY <1>1, <1>3, <3>2, RetiredTyped DEF TraceOnce
    <3> QED BY <1>7, <3>1, <3>2
  <2>3. StatusOK'
    BY <2>1 DEF StatusOK
  <2> QED BY <1>2, <1>3, <2>1, <2>2, <2>3, DeviceStepTyped
<1>8. ASSUME NEW out \in Outcomes, RunStep(out) \/ ContinueStep(out) \/ TraceStep(out)
      PROVE  TypesInv'
  <2>1. DeviceStep(out) /\ GoesOn(out) /\ UNCHANGED image
    BY <1>8 DEF RunStep, ContinueStep, TraceStep
  <2>2. GdbOK' /\ TlOK'
    <3>1. CASE RunStep(out)
      BY <1>3, <3>1 DEF RunStep
    <3>2. CASE ContinueStep(out)
      BY <1>1, <1>3, <3>2, GdbSteppedTyped DEF ContinueStep
    <3>3. CASE TraceStep(out)
      BY <1>1, <1>3, <3>3, RetiredTyped DEF TraceStep
    <3> QED BY <1>8, <3>1, <3>2, <3>3
  <2> QED BY <1>1, <1>2, <2>1, <2>2, DeviceStepTyped, GoesOnTyped
<1>9. CASE RunReturn \/ ContinueReturn \/ TraceReturn
  <2>1. /\ UNCHANGED <<image, warp, mem, insns, tl>> /\ call' = NoCall
        /\ status' \in {"OK", "TIMEOUT", "HALT"}
    BY <1>9 DEF RunReturn, ContinueReturn, TraceReturn, Returns
  <2>2. CallOK' /\ StatusOK'
    BY <2>1 DEF CallOK, StatusOK, NoCall
  <2>3. GdbOK'
    <3>1. CASE UNCHANGED gdb
      BY <1>3, <2>1, <3>1
    <3>2. CASE gdb' = [gdb EXCEPT !.hits = @ + 1]
      <4>1. gdb' = [breaks |-> gdb.breaks, hits |-> gdb.hits + 1, steps |-> gdb.steps]
        BY <1>1, <3>2 DEF GdbOK
      <4>2. gdb.hits + 1 \in Nat
        BY <1>1 DEF GdbOK
      <4> QED BY <1>1, <2>1, <4>1, <4>2 DEF GdbOK
    <3> QED BY <1>9, <3>1, <3>2 DEF RunReturn, ContinueReturn, TraceReturn
  <2> QED BY <1>2, <1>3, <2>1, <2>2, <2>3
<1>10. CASE UNCHANGED vars
  BY <1>2, <1>3, <1>10 DEF vars
<1>11. QED
  BY <1>4, <1>5, <1>6, <1>7, <1>8, <1>9, <1>10 DEF Next, ToolStep

(* Every register and word stays a word, S0 reads as zero, no return stack       *)
(* outgrows BVRT_MAX_RET and the trace does not outgrow its buffer, whatever     *)
(* instructions of a well-formed kernel are run by whatever tool.               *)
THEOREM TypeCorrect == Spec => []TypeOK
<1>1. Init => TypesInv
  BY TypesInit
<1>2. TypesInv /\ [Next]_vars => TypesInv'
  BY TypesStep
<1>3. TypesInv => TypeOK
  BY DEF TypesInv
<1>4. QED
  BY <1>1, <1>2, <1>3, PTL DEF Spec

-----------------------------------------------------------------------------
(* The lanes of an ATOMIC_ADD, in ascending order.                            *)

Ascending(f, S) ==
  /\ f \in [1 .. Cardinality(S) -> S]
  /\ \A i, j \in 1 .. Cardinality(S) : i < j => f[i] < f[j]
  /\ \A x \in S : \E i \in 1 .. Cardinality(S) : f[i] = x

LEMMA AscendingExists ==
  ASSUME NEW k \in Int, NEW S \in SUBSET (0 .. k)
  PROVE  \E f : Ascending(f, S)
<1> DEFINE D == 0 .. k
           B == {T \in SUBSET D : ~ \E f : Ascending(f, T)}
<1>1. IsFiniteSet(D)
  BY FS_Interval
<1>2. SUFFICES ASSUME B # {} PROVE FALSE
  OBVIOUS
<1>3. PICK T \in B : \A U \in SUBSET D : Cardinality(U) < Cardinality(T) => U \notin B
  <2>1. B \in SUBSET SUBSET D
    OBVIOUS
  <2> HIDE DEF B, D
  <2> QED BY <1>1, <1>2, <2>1, LeastSet
<1>4. T \in SUBSET D /\ IsFiniteSet(T)
  BY <1>1, <1>3, FS_Subset
<1>5. CASE T = {}
  <2> DEFINE f == [i \in 1 .. 0 |-> i]
  <2>1. Cardinality(T) = 0
    BY <1>5, FS_EmptySet
  <2>2. f \in [1 .. 0 -> T] /\ ~ \E i \in 1 .. 0 : TRUE
    OBVIOUS
  <2> HIDE DEF f
  <2>3. Ascending(f, T)
    BY <1>5, <2>1, <2>2 DEF Ascending
  <2> QED BY <1>3, <2>3
<1>6. CASE T # {}
  <2> DEFINE x == Max(T)
             U == T \ {x}
             n == Cardinality(T)
  <2>1. x \in T /\ \A y \in T : y <= x
    BY <1>4, <1>6, ExtremesIn
  <2> HIDE DEF x
  <2>2. U \in SUBSET D /\ Cardinality(U) = n - 1 /\ n \in Nat \ {0}
    <3> HIDE DEF D
    <3> QED BY <1>1, <1>4, <1>6, <2>1, ChosenOne
  <2>3. PICK g : Ascending(g, U)
    BY <1>3, <2>2
  <2>4. /\ g \in [1 .. n - 1 -> U]
        /\ \A i, j \in 1 .. n - 1 : i < j => g[i] < g[j]
        /\ \A y \in U : \E i \in 1 .. n - 1 : g[i] = y
    BY <2>2, <2>3 DEF Ascending
  <2> DEFINE f == [i \in 1 .. n |-> IF i = n THEN x ELSE g[i]]
  <2>5. U \subseteq T /\ \A y \in T : y \in Int
    BY <1>4
  <2>6. \A y \in U : y < x
    BY <2>1, <2>5
  <2> HIDE DEF n, U
  <2>7. \A i \in 1 .. n : i # n => i \in 1 .. n - 1
    BY <2>2
  <2>8. f \in [1 .. n -> T]
    BY <2>1, <2>2, <2>4, <2>5, <2>7
  <2>9. ASSUME NEW i \in 1 .. n, NEW j \in 1 .. n, i < j PROVE f[i] < f[j]
    <3>1. i # n /\ i \in 1 .. n - 1
      BY <2>2, <2>9
    <3>2. f[i] = g[i] /\ g[i] \in U
      BY <2>4, <3>1
    <3>3. CASE j = n
      BY <2>6, <3>2, <3>3
    <3>4. CASE j # n
      BY <2>4, <2>7, <2>9, <3>1, <3>2, <3>4
    <3> QED BY <3>3, <3>4
  <2>10. ASSUME NEW y \in T PROVE \E i \in 1 .. n : f[i] = y
    <3>1. CASE y = x
      <4>1. n \in 1 .. n /\ f[n] = x
        BY <2>2
      <4> QED BY <3>1, <4>1
    <3>2. CASE y # x
      <4>1. PICK i \in 1 .. n - 1 : g[i] = y
        BY <2>4, <3>2 DEF U
      <4>2. i \in 1 .. n /\ i # n
        BY <2>2
      <4> QED BY <4>1, <4>2
    <3> QED BY <3>1, <3>2
  <2>11. Ascending(f, T)
    <3> HIDE DEF f
    <3> QED BY <2>8, <2>9, <2>10 DEF Ascending, n
  <2> QED BY <1>3, <2>11
<1>7. QED
  BY <1>5, <1>6

\* Adding for the first n lanes of the order is adding for the set they make.
LEMMA AddsFirst ==
  ASSUME TypesInv, Fetched.op = "ATOMIC_ADD", OperandsExist(Fetched),
         NEW E \in SUBSET Lanes, NEW order, Ascending(order, E),
         NEW n \in 0 .. Cardinality(E), NEW a \in Addresses
  PROVE  Adds(order, n)[a] = Added(warp, mem, Fetched, a, {order[i] : i \in 1 .. n})
<1> DEFINE f == [i \in DOMAIN order |-> warp.s[order[i]][Fetched.src2]]
           g == [l \in Lanes |-> warp.s[l][Fetched.src2]]
           S == {i \in 1 .. n : Addr(warp, order[i], Fetched) = a}
           lanes == {order[i] : i \in 1 .. n}
           adding == {l \in lanes : Addr(warp, l, Fetched) = a}
<1>1. /\ Adds(order, n)[a] = (mem[a] + SumFunctionOnSet(f, S)) % Mod
      /\ Added(warp, mem, Fetched, a, lanes) = (mem[a] + SumFunctionOnSet(g, adding)) % Mod
  BY DEF Adds, Added
<1>2. adding = {order[i] : i \in S}
  OBVIOUS
<1>3. IsFiniteSet(E) /\ Cardinality(E) \in Nat
  BY FS_Subset, FS_CardinalityType, ConstantsTyped
<1>4. \A i \in S : i \in 1 .. Cardinality(E) /\ i \in DOMAIN order /\ order[i] \in Lanes
  BY <1>3 DEF Ascending
<1>5. IsFiniteSet(S)
  <2>1. IsFiniteSet(1 .. n)
    BY <1>3, FS_Interval
  <2> QED BY <2>1, FS_Subset
<1>6. \A i \in S : f[i] = g[order[i]] /\ f[i] \in Int
  <2>1. Fetched.src2 \in Scalars
    BY DEF OperandsExist, VectorAluOps
  <2>2. WarpOK(warp)
    BY TypesAre DEF DeviceOK
  <2>3. \A l \in Lanes : warp.s[l][Fetched.src2] \in Int
    BY <2>1, <2>2, RegistersTyped
  <2> HIDE DEF S
  <2> QED BY <1>4, <2>3
<1>7. \A i, j \in S : order[i] = order[j] => i = j
  <2>1. \A i, j \in 1 .. Cardinality(E) : i < j => order[i] < order[j]
    BY DEF Ascending
  <2>2. \A i \in S : i \in Int /\ i \in 1 .. Cardinality(E) /\ order[i] \in Int
    <3>1. \A l \in Lanes : l \in Int
      BY DEF Lanes
    <3> QED BY <1>4, <3>1
  <2> HIDE DEF S
  <2> QED BY <2>1, <2>2
<1> HIDE DEF f, g, S, adding
<1>8. SumFunctionOnSet(f, S) = SumFunctionOnSet(g, adding)
  BY <1>2, <1>5, <1>6, <1>7, SumRename
<1>9. QED
  BY <1>1, <1>8

LEMMA StepSerialises == TypesInv /\ [Next]_vars => [LanesSerialised]_vars
<1> SUFFICES ASSUME TypesInv, Next, Stepped, Fetched.op = "ATOMIC_ADD", Fetched.dst # 0,
                    Faulting(warp, Fetched, 1) = {}
             PROVE  \E order \in Orders(Executing(warp, Fetched)) :
                      /\ mem' = Adds(order, Len(order))
                      /\ \A i \in DOMAIN order :
                           warp'.s[order[i]][Fetched.dst] =
                             Adds(order, i - 1)[Addr(warp, order[i], Fetched)]
  BY DEF LanesSerialised
<1>1. insns \in Nat /\ WarpOK(warp) /\ mem \in Memory /\ image \in Images
  BY TypesAre DEF DeviceOK
<1>2. insns' # insns /\ insns' # 0
  BY <1>1 DEF Stepped
<1>3. PICK out \in Outcomes : DeviceStep(out)
  BY <1>2 DEF Next, ToolStep, Launch, SetBreak, Enter, RunReturn, ContinueReturn, TraceReturn,
              Returns, GdbStep, TraceOnce, RunStep, ContinueStep, TraceStep
<1>4. InRange
  BY <1>1, <1>2, <1>3 DEF DeviceStep, Counted
<1>5. OperandsExist(Fetched)
  BY <1>1, <1>4, BvrtConstants DEF InRange, Fetched
<1> DEFINE E == Executing(warp, Fetched)
           old == [l \in E |-> Added(warp, mem, Fetched, Addr(warp, l, Fetched), {k \in E : k < l})]
           sum == [a \in Addresses |-> Added(warp, mem, Fetched, a, E)]
<1>6. warp'.s = WriteScalar(warp, E, Fetched.dst, old).s /\ mem' = sum
  <2>1. out = Execute(warp, mem, Fetched, [l \in Lanes |-> 0])
    BY <1>3, <1>4 DEF Outcomes
  <2>2. out = AtomicAdd(warp, mem, Fetched)
    BY <2>1 DEF Execute, AluOps, VectorAluOps
  <2>3. Served(warp, Fetched, 1) = E
    BY DEF Served
  <2>4. out = Done(WriteScalar(warp, E, Fetched.dst, old), sum)
    BY <2>2, <2>3 DEF AtomicAdd, Settle
  <2> DEFINE w2 == WriteScalar(warp, E, Fetched.dst, old)
  <2> HIDE DEF w2, sum
  <2>5. out.warp.s = w2.s /\ out.mem = sum
    <3>1. DOMAIN w2 = DOMAIN warp /\ {"pc", "cycles", "s"} \subseteq DOMAIN warp
      BY <1>1 DEF w2, WriteScalar, WarpOK, WarpType
    <3> QED BY <2>4, <3>1 DEF w2, Done, Outcome
  <2> QED BY <1>3, <2>5 DEF DeviceStep, w2
<1>7. E \in SUBSET Lanes /\ E \in SUBSET (0 .. NumLanes - 1) /\ NumLanes - 1 \in Int
  BY <1>1, ConstantsTyped DEF Executing, WarpOK, WarpType, Lanes
<1> HIDE DEF E
<1>8. PICK order : Ascending(order, E)
  BY <1>7, AscendingExists
<1> DEFINE n == Cardinality(E)
<1>9. n \in Nat
  BY <1>7, FS_Subset, FS_CardinalityType, ConstantsTyped
<1>10. /\ order \in [1 .. n -> E]
       /\ \A i, j \in 1 .. n : i < j => order[i] < order[j]
       /\ \A l \in E : \E i \in 1 .. n : order[i] = l
  BY <1>8 DEF Ascending
<1>11. \A i \in 1 .. n : order[i] \in E /\ order[i] \in Lanes /\ order[i] \in Int
  <2>1. \A l \in E : l \in Lanes /\ l \in Int
    BY <1>7 DEF Lanes
  <2> QED BY <1>10, <2>1
<1> HIDE DEF n
<1>12. \A i, j \in 1 .. n : order[i] = order[j] => i = j
  <2>1. \A i, j \in 1 .. n : i < j \/ j < i \/ i = j
    BY <1>9
  <2> QED BY <1>10, <1>11, <2>1
<1>13. order \in Orders(E) /\ DOMAIN order = 1 .. n /\ Len(order) = n
  <2>1. DOMAIN order = 1 .. n /\ order \in Seq(E)
    BY <1>9, <1>10, IsASeq
  <2>2. Len(order) = n
    BY <1>9, <2>1, LenProperties
  <2> QED BY <1>10, <1>12, <2>1, <2>2 DEF Orders, n
<1>14. ASSUME NEW k \in 0 .. n, NEW a \in Addresses
       PROVE  Adds(order, k)[a] = Added(warp, mem, Fetched, a, {order[j] : j \in 1 .. k})
  <2>1. k \in 0 .. Cardinality(E)
    BY DEF n
  <2>2. /\ TypesInv /\ Fetched.op = "ATOMIC_ADD" /\ OperandsExist(Fetched)
        /\ E \in SUBSET Lanes /\ Ascending(order, E)
    BY <1>5, <1>7, <1>8
  <2> QED BY <2>1, <2>2, AddsFirst
<1>15. mem' = Adds(order, Len(order))
  <2>1. {order[j] : j \in 1 .. n} = E
    BY <1>10
  <2>2. n \in 0 .. n
    BY <1>9
  <2>3. \A a \in Addresses : Adds(order, n)[a] = Added(warp, mem, Fetched, a, E)
    BY <1>14, <2>1, <2>2
  <2>4. Adds(order, n) = [a \in Addresses |-> Adds(order, n)[a]]
    BY DEF Adds
  <2>5. Adds(order, n) = sum
    BY <2>3, <2>4
  <2> QED BY <1>6, <1>13, <2>5
<1>16. ASSUME NEW i \in 1 .. n
       PROVE  warp'.s[order[i]][Fetched.dst] = Adds(order, i - 1)[Addr(warp, order[i], Fetched)]
  <2> DEFINE l == order[i]
             a == Addr(warp, l, Fetched)
  <2>1. l \in E /\ l \in Lanes
    BY <1>11
  <2>2. {order[j] : j \in 1 .. i - 1} = {k \in E : k < l}
    <3>1. ASSUME NEW j \in 1 .. i - 1 PROVE order[j] \in E /\ order[j] < l
      <4>1. j \in 1 .. n /\ j < i
        BY <1>9
      <4> QED BY <1>10, <1>11, <4>1
    <3>2. ASSUME NEW k \in E, k < l PROVE \E j \in 1 .. i - 1 : order[j] = k
      <4>1. PICK j \in 1 .. n : order[j] = k
        BY <1>10
      <4>2. l \in Int /\ k \in Int
        BY <1>11, <4>1
      <4>3. ~(i < j) /\ j # i
        BY <1>10, <3>2, <4>1, <4>2
      <4>4. j \in 1 .. i - 1
        BY <1>9, <4>3
      <4> QED BY <4>1, <4>4
    <3> HIDE DEF l
    <3> QED BY <3>1, <3>2
  <2>3. a \in Addresses
    <3>1. l \in Served(warp, Fetched, 1)
      BY <2>1 DEF Served, E
    <3>2. a \in Nat /\ a + 1 <= MemWords
      <4> HIDE DEF l
      <4> QED BY <1>1, <1>5, <3>1, ServedInBounds DEF MemoryOps
    <3> HIDE DEF a
    <3> QED BY <3>2, ConstantsTyped DEF Addresses
  <2>4. i - 1 \in 0 .. n
    BY <1>9
  <2>5. Adds(order, i - 1)[a] = Added(warp, mem, Fetched, a, {order[j] : j \in 1 .. i - 1})
    <3> HIDE DEF a
    <3> QED BY <1>14, <2>3, <2>4
  <2>6. old[l] = Added(warp, mem, Fetched, a, {k \in E : k < l})
    BY <2>1
  <2>7. warp'.s[l][Fetched.dst] = old[l]
    <3>1. Fetched.dst \in Scalars
      BY <1>5 DEF OperandsExist, VectorAluOps
    <3>2. warp.s[l] \in [Scalars -> Values] /\ "s" \in DOMAIN warp
      BY <1>1, <2>1 DEF WarpOK, WarpType
    <3> HIDE DEF old, l
    <3>3. warp'.s[l] = [warp.s[l] EXCEPT ![Fetched.dst] = old[l]]
      BY <1>6, <2>1, <3>2 DEF WriteScalar
    <3> QED BY <3>1, <3>2, <3>3
  <2> HIDE DEF old
  <2> QED BY <2>2, <2>5, <2>6, <2>7
<1> HIDE DEF old, sum
<1>17. QED
  BY <1>13, <1>15, <1>16 DEF E

(* ATOMIC_ADD is atomic: for every number of lanes, every aliasing of their      *)
(* addresses and every predicate mask there is an order (the lanes' own) in      *)
(* which each lane's dst holds the word as the lanes before it left it.          *)
THEOREM AddsSerialise == Spec => AtomicAddsSerialise
<1>1. Init => TypesInv
  BY TypesInit
<1>2. TypesInv /\ [Next]_vars => TypesInv'
  BY TypesStep
<1>3. TypesInv /\ [Next]_vars => [LanesSerialised]_vars
  BY StepSerialises
<1>4. QED
  BY <1>1, <1>2, <1>3, PTL DEF Spec, AtomicAddsSerialise
=============================================================================
