-------------------------------- MODULE Bvrt --------------------------------
(***************************************************************************)
(* A BVRT device (bradvector/bvrt.c) and the three tools that step it: the  *)
(* host's bvrt_run, the debugger bradgdb and the profiler bradtimeline.     *)
(* They are called one after the other and share the device's instruction   *)
(* count. A host call that loops is an action for its entry and one for     *)
(* each iteration.                                                           *)
(***************************************************************************)
EXTENDS BvIsa

CONSTANTS
  Images,    \* what bvrt_load may load: [code, entries]
  ArgBase,   \* BV_S_ARG_BASE
  NumArgs,   \* BV_S_NUM_ARGS
  Args,      \* the argument lists passed to bvrt_launch
  Contents,  \* device memory before the first launch
  Budgets,   \* the max_insns passed to bvrt_run and bvtl_run
  MaxEvents, \* BVTL_MAX_EVENTS
  MaxCalls,  \* model bound: host calls in a behaviour
  MaxInsns   \* model bound: instructions after which bradgdb_continue is not pursued

ASSUME BvrtConstants ==
  /\ {ArgBase, NumArgs, MaxEvents, MaxCalls, MaxInsns} \subseteq Nat /\ Budgets \subseteq Nat
  /\ Contents \in [Addresses -> Values]
  /\ \A im \in Images : im.entries \subseteq Nat
  /\ \A im \in Images : \A pc \in DOMAIN im.code : OperandsExist(im.code[pc])
  \* Arguments go to registers above S0, which holds zero.
  /\ ArgBase > 0
  /\ \A args \in Args : DOMAIN args \subseteq Nat \ {0} /\ \A n \in DOMAIN args : args[n] \in Values

VARIABLES
  image,     \* the image in the device; its code is numbered from 0
  warp,      \* dev->warp
  mem,       \* dev->mem
  insns,     \* dev->insns: instructions since the launch
  call,      \* the host call in progress
  status,    \* what the last host call that stepped the device returned
  gdb,       \* bradgdb: breakpoints enabled, times hit, steps since attach
  tl,        \* bradtimeline: insns, traps and the recorded events
  calls,     \* host calls made
  launched   \* history: the warp and the memory that the last launch left

vars == <<image, warp, mem, insns, call, status, gdb, tl, calls, launched>>

NoCall == [tool |-> "none", budget |-> 0]

ClearedWarp ==
  [pc |-> 0, active |-> {}, cycles |-> 0,
   s |-> [l \in Lanes |-> [r \in Scalars |-> 0]],
   v |-> [l \in Lanes |-> [r \in Vectors |-> [i \in Elements |-> 0]]],
   p |-> [l \in Lanes |-> [r \in 0 .. NumPreds - 1 |-> 0]],
   ret |-> [l \in Lanes |-> <<>>]]

\* S1 is written after the arguments.
LaunchedWarp(entry, args) ==
  LET arg == [r \in Scalars |->
        LET n == r - ArgBase + 1 IN
        IF n \in DOMAIN args /\ n <= NumArgs THEN args[n] ELSE 0]
  IN [ClearedWarp EXCEPT
        !.pc = entry, !.active = Lanes,
        !.s = [l \in Lanes |-> [arg EXCEPT ![1] = l % Mod]]]

Init ==
  /\ image \in Images
  /\ warp = ClearedWarp
  /\ mem = Contents
  /\ insns = 0
  /\ call = NoCall
  /\ status = "OK"
  /\ gdb = [breaks |-> {}, hits |-> 0, steps |-> 0]
  /\ tl = [insns |-> 0, traps |-> 0, events |-> <<>>]
  /\ calls = 0
  /\ launched = [warp |-> ClearedWarp, mem |-> Contents]

-----------------------------------------------------------------------------
(* bvrt_step.                                                               *)

Halted == warp.active = {}
InRange == warp.pc \in DOMAIN image.code
Fetched == image.code[warp.pc]

\* A program counter outside the code traps, before an instruction is counted.
Outcomes ==
  IF ~InRange THEN {Trap(warp, mem)}
  ELSE IF Fetched.op = "RAND"
       THEN {Execute(warp, mem, Fetched, random) : random \in [Lanes -> Values]}
       ELSE {Execute(warp, mem, Fetched, [l \in Lanes |-> 0])}

\* Faulty variant: the count is kept on the path that falls through.
CountedIfSequential == insns + (IF InRange /\ Fetched.op \notin {"BR", "CALL"} THEN 1 ELSE 0)

Counted == insns + (IF InRange THEN 1 ELSE 0)

DeviceStep(out) ==
  /\ ~Halted
  /\ out \in Outcomes
  /\ warp' = out.warp
  /\ mem' = out.mem
  /\ insns' = Counted

\* The call goes on after an instruction and returns after a trap.
GoesOn(out) ==
  IF out.trap THEN call' = NoCall /\ status' = "TRAP" ELSE UNCHANGED <<call, status>>

Returns(st) == call' = NoCall /\ status' = st /\ UNCHANGED <<warp, mem, insns>>

-----------------------------------------------------------------------------
(* Host calls.                                                               *)

HostCall == call = NoCall /\ calls < MaxCalls /\ calls' = calls + 1

\* bvrt_launch of a kernel of the image; any other name changes nothing.
Launch(entry, args) ==
  /\ HostCall
  /\ warp' = LaunchedWarp(entry, args)
  /\ insns' = 0
  /\ launched' = [warp |-> LaunchedWarp(entry, args), mem |-> mem]
  /\ UNCHANGED <<image, mem, call, status, gdb, tl>>

\* bradgdb_add_break and bradgdb_enable_break.
SetBreak(pc, enabled) ==
  /\ HostCall
  /\ gdb' = [gdb EXCEPT !.breaks = IF enabled THEN @ \cup {pc} ELSE @ \ {pc}]
  /\ UNCHANGED <<image, warp, mem, insns, call, status, tl, launched>>

Enter(tool, budget) ==
  /\ HostCall
  /\ call' = [tool |-> tool, budget |-> budget]
  /\ UNCHANGED <<image, warp, mem, insns, status, gdb, tl, launched>>

\* The budget of bvrt_run counts from the launch, not from the call.
RunStep(out) ==
  /\ call.tool = "run" /\ insns < call.budget
  /\ DeviceStep(out) /\ GoesOn(out)
  /\ UNCHANGED <<image, gdb, tl, calls, launched>>

RunReturn ==
  /\ call.tool = "run" /\ (Halted \/ insns >= call.budget)
  /\ Returns(IF Halted THEN "HALT" ELSE "TIMEOUT")
  /\ UNCHANGED <<image, gdb, tl, calls, launched>>

Parked == warp.pc \in gdb.breaks

GdbStepped(out) == IF out.trap THEN gdb ELSE [gdb EXCEPT !.steps = @ + 1]

\* A warp parked on a breakpoint stays there: only bradgdb_step takes it past.
ContinueStep(out) ==
  /\ call.tool = "continue" /\ ~Parked /\ insns < MaxInsns
  /\ DeviceStep(out) /\ GoesOn(out)
  /\ gdb' = GdbStepped(out)
  /\ UNCHANGED <<image, tl, calls, launched>>

ContinueReturn ==
  /\ call.tool = "continue" /\ (Halted \/ Parked)
  /\ Returns(IF Halted THEN "HALT" ELSE "OK")
  /\ gdb' = IF Halted THEN gdb ELSE [gdb EXCEPT !.hits = @ + 1]
  /\ UNCHANGED <<image, tl, calls, launched>>

GdbStep(out) ==
  /\ HostCall
  /\ DeviceStep(out)
  /\ status' = IF out.trap THEN "TRAP" ELSE "OK"
  /\ gdb' = GdbStepped(out)
  /\ UNCHANGED <<image, call, tl, launched>>

\* bvtl_retire: a trap counts as retired, and the trace stops growing when full.
Retired(out) ==
  [insns |-> tl.insns + 1,
   traps |-> tl.traps + (IF out.trap THEN 1 ELSE 0),
   events |-> IF Len(tl.events) < MaxEvents THEN Append(tl.events, warp.pc) ELSE tl.events]

TraceStep(out) ==
  /\ call.tool = "trace" /\ tl.insns < call.budget
  /\ DeviceStep(out) /\ GoesOn(out)
  /\ tl' = Retired(out)
  /\ UNCHANGED <<image, gdb, calls, launched>>

\* bvtl_step.
TraceOnce(out) ==
  /\ HostCall
  /\ DeviceStep(out)
  /\ status' = IF out.trap THEN "TRAP" ELSE "OK"
  /\ tl' = Retired(out)
  /\ UNCHANGED <<image, call, gdb, launched>>

\* The profiler's budget is tested before the warp is.
TraceReturn ==
  /\ call.tool = "trace" /\ (Halted \/ tl.insns >= call.budget)
  /\ Returns(IF tl.insns >= call.budget THEN "TIMEOUT" ELSE "HALT")
  /\ UNCHANGED <<image, gdb, tl, calls, launched>>

-----------------------------------------------------------------------------
ToolStep ==
  \/ RunReturn \/ ContinueReturn \/ TraceReturn
  \/ \E out \in Outcomes : RunStep(out) \/ ContinueStep(out) \/ TraceStep(out)

Next ==
  \/ \E entry \in image.entries, args \in Args : Launch(entry, args)
  \/ \E pc \in DOMAIN image.code, enabled \in BOOLEAN : SetBreak(pc, enabled)
  \/ \E budget \in Budgets : Enter("run", budget) \/ Enter("trace", budget)
  \/ Enter("continue", 0)
  \/ \E out \in Outcomes : GdbStep(out) \/ TraceOnce(out)
  \/ ToolStep

Spec == Init /\ [][Next]_vars

\* A host call that has been entered is executed.
FairSpec == Spec /\ WF_vars(ToolStep)

-----------------------------------------------------------------------------
(* Properties.                                                              *)

WarpType ==
  [pc : Int, active : SUBSET Lanes, cycles : Nat,
   s : [Lanes -> [Scalars -> Values]],
   v : [Lanes -> [Vectors -> [Elements -> Values]]],
   p : [Lanes -> [0 .. NumPreds - 1 -> {0, 1}]],
   ret : [Lanes -> Seq(Int)]]

\* S0 reads as zero and no return stack is deeper than BVRT_MAX_RET.
TypeOK ==
  /\ warp \in WarpType
  /\ \A l \in Lanes : warp.s[l][0] = 0 /\ Len(warp.ret[l]) <= MaxRet
  /\ mem \in [Addresses -> Values]
  /\ insns \in Nat
  /\ call \in [tool : {"none", "run", "continue", "trace"}, budget : Budgets \cup {0}]
  /\ status \in {"OK", "TRAP", "TIMEOUT", "HALT"}
  /\ gdb.breaks \subseteq DOMAIN image.code /\ gdb.hits \in Nat /\ gdb.steps \in Nat
  /\ tl.insns \in Nat /\ tl.traps \in 0 .. tl.insns /\ Len(tl.events) <= MaxEvents

Stepped == insns' = insns + 1
Unpredicated(op) == \A pc \in DOMAIN image.code :
                      image.code[pc].op = op => image.code[pc].pred = 0

(* The warp has one program counter but every lane its own return stack. As   *)
(* long as no CALL is predicated the stacks of the lanes stay equal, through   *)
(* overflows, underflows and predicated returns, so the lanes agree where to   *)
(* return to.                                                                 *)
StacksAgree ==
  Unpredicated("CALL") => \A k, l \in warp.active : warp.ret[k] = warp.ret[l]

Orders(S) == {f \in [1 .. Cardinality(S) -> S] : \A i, j \in DOMAIN f : f[i] = f[j] => i = j}

\* The memory after the first n lanes of the order have added.
Adds(order, n) ==
  [a \in Addresses |->
     (mem[a] + SumFunctionOnSet([i \in DOMAIN order |-> warp.s[order[i]][Fetched.src2]],
                                {i \in 1 .. n : Addr(warp, order[i], Fetched) = a})) % Mod]

LanesSerialised ==
  Stepped /\ Fetched.op = "ATOMIC_ADD" /\ Fetched.dst # 0 =>
    \/ Faulting(warp, Fetched, 1) # {}
    \/ \E order \in Orders(Executing(warp, Fetched)) :
         /\ mem' = Adds(order, Len(order))
         /\ \A i \in DOMAIN order :
              warp'.s[order[i]][Fetched.dst] = Adds(order, i - 1)[Addr(warp, order[i], Fetched)]

(* The lanes of an ATOMIC_ADD are serialised: there is an order in which each  *)
(* lane reads the word as the lanes before it left it, and the memory ends as  *)
(* the last lane left it.                                                      *)
AtomicAddsSerialise == [][LanesSerialised]_vars

Deterministic == \A pc \in DOMAIN image.code : image.code[pc].op # "RAND"

(* The tools are transparent: a kernel that is run, single-stepped, continued  *)
(* between breakpoints and profiled in turn, and resumed after traps, is in    *)
(* the state it would have reached by its instructions alone.                  *)
ToolsTransparent ==
  LET instruction(state) ==
        Execute(state.warp, state.mem, image.code[state.warp.pc], [l \in Lanes |-> 0])
      replayed == FoldLeft(LAMBDA state, i : instruction(state), launched, [i \in 1 .. insns |-> i])
  IN Deterministic => warp = replayed.warp /\ mem = replayed.mem

(* docs/03-instruction-encoding.md:46 "Every instruction carries a PRED field. *)
(* When a predicate is active, the instruction executes only for lanes/threads *)
(* where the predicate condition holds": one whose predicate holds in no lane  *)
(* does no more than pass to the next.                                         *)
PredicatedOffDoesNothing ==
  [][Stepped /\ Executing(warp, Fetched) = {} =>
       /\ warp' = [warp EXCEPT !.pc = @ + 1, !.cycles = warp'.cycles]
       /\ UNCHANGED mem]_vars

(* bvrt.c:386 "load 64 bytes into vector reg": after a LOADV that does not      *)
(* trap, the vector register dst of each executing lane holds the memory words. *)
LoadsReachVector ==
  [][Stepped /\ Fetched.op = "LOADV" /\ Faulting(warp, Fetched, VecLanes) = {} =>
       \A l \in Executing(warp, Fetched), i \in Elements :
         warp'.v[l][Fetched.dst][i] = mem[Addr(warp, l, Fetched) + i]]_vars

(* bvrt_run and bvtl_run return whatever the kernel does: every instruction     *)
(* they execute, a branch to itself included, uses up some of the budget.       *)
RunsReturn == \A tool \in {"run", "trace"} : call.tool = tool ~> call = NoCall
=============================================================================
