------------------------------ MODULE CoreEmu ------------------------------
(***************************************************************************)
(* The multi-core emulator (emu/brad_core_emu.c): every core moves its       *)
(* instructions through a pipeline of its model's depth, executes them at    *)
(* one stage, and fetches one word per cycle from memory all cores share.    *)
(* The host that owns the emulator starts cores, loads words, writes         *)
(* registers and runs one core or all of them for a number of cycles; a      *)
(* stepped core belongs to it alone, so a host call is interrupted by nothing. *)
(*                                                                         *)
(* Statistics, energy and the control registers are left out, and with the   *)
(* status register compressed mode. Programs use aligned addresses.          *)
(***************************************************************************)
EXTENDS BradIsa, Sequences, FiniteSetsExt

CONSTANTS
  NumCores,
  Socs,        \* Socs: soc[c] is the model brad_soc_emu_init_ex gives core c
  Contents,    \* memory at the start: zeros, or what was loaded before any core ran
  Depth,       \* Depth[m], ExecStage[m]: the shape of model m's pipeline
  ExecStage,
  Starts,      \* the models, entry points and stack pointers cores are started with
  HostRegs,    \* registers the host writes, and the values it writes
  HostValues,
  Images,      \* [addr, words]: what the host loads later
  Budgets,     \* the cycles a run may take
  MaxCalls     \* bound: calls the host makes

Cores == 0 .. NumCores - 1

ASSUME CoreEmuConstants ==
  /\ NumCores \in Nat \ {0} /\ MaxCalls \in Nat /\ Budgets \subseteq Nat
  /\ Socs \subseteq [Cores -> Models] /\ Contents \subseteq Memories
  /\ Depth \in [Models -> Nat] /\ ExecStage \in [Models -> Nat \ {0}]
  /\ \A m \in Models : ExecStage[m] < Depth[m]
  /\ Starts \subseteq [model : Models, pc : Values, sp : Values]
  /\ HostRegs \subseteq Regs /\ HostValues \subseteq Values
  /\ \A i \in Images : i.addr \in Aligned /\ i.words \in Seq(Values)

VARIABLES
  core,   \* core[c]: the state of core c
  mem,
  call,   \* the host call in progress
  calls   \* host calls made

vars == <<core, mem, call, calls>>

Bubble == [valid |-> FALSE, pc |-> 0, word |-> 0]
Slots == [valid : BOOLEAN, pc : Values, word : Values]
Stages(k) == 0 .. Depth[k.model] - 1
Empty(model) == [s \in 0 .. Depth[model] - 1 |-> Bubble]

Idle == [op |-> "idle", core |-> 0, left |-> 0, any |-> FALSE]

(***************************************************************************)
(* One step of a core.                                                     *)
(***************************************************************************)
Advanced(k) ==
  [k EXCEPT !.stage = [s \in Stages(k) |-> IF s = 0 THEN Bubble ELSE @[s - 1]]]

\* The instruction at the execution stage, or none.
Issued(k) == k.stage[ExecStage[k.model]]

Issue(k, m) ==
  IF Issued(k).valid
  THEN Execute(k.model, k.regs, m, Issued(k).pc, Decode[Issued(k).word])
  ELSE Falls(k.regs, m)

\* Falcon cores drop the instruction once executed; the others carry it to the last stage.
Retired(k) ==
  IF k.model \in {"FALCON", "FALCON_LITE"}
  THEN [k EXCEPT !.stage[ExecStage[k.model]] = Bubble] ELSE k

\* Faulty variant: the youngest instruction survives the flush.
FlushedButOne(k, pc) ==
  [k EXCEPT !.stage = [Empty(k.model) EXCEPT ![1] = k.stage[1]], !.pc = pc, !.drain = FALSE]

\* A taken branch empties the pipeline and ends the step before it counts as a cycle.
Flushed(k, pc) == [k EXCEPT !.stage = Empty(k.model), !.pc = pc, !.drain = FALSE]

Fetched(k, m) ==
  IF k.drain THEN k
  ELSE IF Refused(k.pc) THEN [k EXCEPT !.drain = TRUE]
  ELSE [k EXCEPT !.stage[0] = [valid |-> TRUE, pc |-> k.pc, word |-> m[k.pc]],
                 !.pc = k.pc + 4]

\* Faulty variant: the core stops as soon as there is nothing left to fetch.
HaltedUndrained(k) == IF k.drain THEN [k EXCEPT !.running = FALSE] ELSE k

Halted(k) ==
  IF k.drain /\ \A s \in Stages(k) : ~ k.stage[s].valid
  THEN [k EXCEPT !.running = FALSE] ELSE k

\* Faulty variant: only cycles that execute an instruction count.
CycleExecuting(k, m) ==
  LET a == Advanced(k)
      r == Issue(a, m)
      b == [a EXCEPT !.regs = r.regs]
  IN IF r.taken
     THEN [core |-> Flushed(b, r.pc), mem |-> r.mem, counted |-> FALSE]
     ELSE [core |-> Halted(Fetched(Retired(b), r.mem)), mem |-> r.mem, counted |-> Issued(a).valid]

\* run_*_pipeline: the core and the memory after a step, and whether it counted as a cycle.
Cycle(k, m) ==
  LET a == Advanced(k)
      r == Issue(a, m)
      b == [a EXCEPT !.regs = r.regs]
  IN IF r.taken
     THEN [core |-> Flushed(b, r.pc), mem |-> r.mem, counted |-> FALSE]
     ELSE [core |-> Halted(Fetched(Retired(b), r.mem)), mem |-> r.mem, counted |-> TRUE]

\* The step has a meaning: it reads no word outside the aligned ones.
Defined(k) ==
  LET a == Advanced(k) IN
  /\ k.drain \/ ~ Outside(k.pc)
  /\ Issued(a).valid => ~ Undefined(k.model, k.regs, Decode[Issued(a).word])

Stepped(c, r) ==
  /\ core' = [core EXCEPT ![c] = r.core]
  /\ mem' = r.mem

\* The outcome of stepping core c, if it runs.
Outcomes(c) == IF core[c].running /\ Defined(core[c]) THEN {Cycle(core[c], mem)} ELSE {}

(***************************************************************************)
(* Host calls.                                                             *)
(***************************************************************************)
Booted(st) ==
  [model |-> st.model, regs |-> ResetRegs(st.sp), pc |-> st.pc, running |-> TRUE,
   drain |-> FALSE, stage |-> Empty(st.model)]

Calling ==
  /\ call = Idle
  /\ calls < MaxCalls
  /\ calls' = calls + 1

\* brad_core_emu_step on a core that runs; it does nothing on the others.
Step(c) ==
  /\ Calling
  /\ \E r \in Outcomes(c) : Stepped(c, r)
  /\ UNCHANGED call

\* brad_core_emu_init: whatever the core held is forgotten.
Restart(c, st) ==
  /\ Calling
  /\ core' = [core EXCEPT ![c] = Booted(st)]
  /\ UNCHANGED <<mem, call>>

WriteReg(c, r, v) ==
  /\ Calling
  /\ core' = [core EXCEPT ![c].regs = HostWritten(core[c].model, @, r, v)]
  /\ UNCHANGED <<mem, call>>

\* brad_core_emu_load copies the words at once, whatever the cores have fetched.
Load(i) ==
  /\ Calling
  /\ i.addr + 4 * Len(i.words) <= MemSize
  /\ mem' = [a \in Aligned |->
               IF a \in i.addr .. i.addr + 4 * Len(i.words) - 1
               THEN i.words[(a - i.addr) \div 4 + 1] ELSE mem[a]]
  /\ UNCHANGED <<core, call>>

\* brad_core_emu_run: the budget is looked at after a step, so a run takes at least one.
Run(c, max) ==
  /\ Calling
  /\ call' = [op |-> "run", core |-> c, left |-> max, any |-> TRUE]
  /\ UNCHANGED <<core, mem>>

RunStep ==
  /\ call.op = "run"
  /\ \E r \in Outcomes(call.core) :
       LET spent == IF r.counted THEN 1 ELSE 0
       IN /\ Stepped(call.core, r)
          /\ call' = IF call.left <= spent THEN Idle ELSE [call EXCEPT !.left = @ - spent]
  /\ UNCHANGED calls

RunReturn ==
  /\ call.op = "run"
  /\ ~ core[call.core].running
  /\ call' = Idle
  /\ UNCHANGED <<core, mem, calls>>

\* brad_core_emu_run_all steps every running core once a round; the budget counts rounds.
RunAll(max) ==
  /\ Calling
  /\ max > 0
  /\ call' = [op |-> "all", core |-> 0, left |-> max, any |-> FALSE]
  /\ UNCHANGED <<core, mem>>

AllStep ==
  /\ call.op = "all" /\ call.core < NumCores
  /\ \/ /\ \E r \in Outcomes(call.core) : Stepped(call.core, r)
        /\ call' = [call EXCEPT !.core = @ + 1, !.any = TRUE]
     \/ /\ ~ core[call.core].running
        /\ call' = [call EXCEPT !.core = @ + 1]
        /\ UNCHANGED <<core, mem>>
  /\ UNCHANGED calls

AllRound ==
  /\ call.op = "all" /\ call.core = NumCores
  /\ call' = IF call.any /\ call.left > 1
             THEN [call EXCEPT !.core = 0, !.left = @ - 1, !.any = FALSE] ELSE Idle
  /\ UNCHANGED <<core, mem, calls>>

\* brad_soc_emu_init_ex: every core at address 0.
Init ==
  /\ \E soc \in Socs : core = [c \in Cores |-> Booted([model |-> soc[c], pc |-> 0, sp |-> 0])]
  /\ mem \in Contents
  /\ call = Idle
  /\ calls = 0

Progress == RunStep \/ RunReturn \/ AllStep \/ AllRound

Next ==
  \/ \E c \in Cores : Step(c)
  \/ \E c \in Cores, st \in Starts : Restart(c, st)
  \/ \E c \in Cores, r \in HostRegs, v \in HostValues : WriteReg(c, r, v)
  \/ \E i \in Images : Load(i)
  \/ \E c \in Cores, max \in Budgets : Run(c, max)
  \/ \E max \in Budgets : RunAll(max)
  \/ Progress

Spec == Init /\ [][Next]_vars

\* A run is a loop of the calling thread: it goes on until it returns.
FairSpec == Spec /\ WF_vars(Progress)

(***************************************************************************)
(* Properties.                                                             *)
(***************************************************************************)

\* The states of a core of model m, whose pipeline has Depth[m] stages.
CoreState(m) ==
  [model : {m}, regs : [Regs -> Values], pc : Values, running : BOOLEAN, drain : BOOLEAN,
   stage : [0 .. Depth[m] - 1 -> Slots]]

\* Registers, program counters and words keep their width, pipelines their depth, and a call in
\* progress has budget left (execute, run_*_pipeline, brad_core_emu_run).
TypeOK ==
  /\ core = [c \in Cores |-> core[c]]
  /\ \A c \in Cores : \E m \in Models : core[c] \in CoreState(m)
  /\ mem \in Memories
  /\ call \in [op : {"idle", "run", "all"}, core : 0 .. NumCores, left : Nat, any : BOOLEAN]
  /\ call.op = "run" => call.core \in Cores
  /\ calls \in 0 .. MaxCalls

\* The stages whose instruction was fetched and is not executed yet; higher ones are older.
Pending(k) == {s \in 0 .. ExecStage[k.model] - 1 : k.stage[s].valid}

\* Where a core is in its program: its oldest pending instruction, or the next one to fetch.
ArchPc(k) == IF Pending(k) = {} THEN k.pc ELSE k.stage[Max(Pending(k))].pc

InOrder(k) ==
  \A s \in Pending(k) :
    IF s - 1 \in Pending(k) THEN k.stage[s - 1].pc = k.stage[s].pc + 4
    ELSE /\ k.pc = k.stage[s].pc + 4
         /\ \A t \in Pending(k) : t >= s
         /\ s > 0 => k.drain

\* The pending instructions are a stretch of the program that ends just before the next fetch,
\* with no gap among them and none before them unless the core is draining: flushes, drains and
\* refills never lose or repeat one (advance_pipeline, pipeline_flush, run_*_pipeline).
PendingInOrder == \A c \in Cores : InOrder(core[c])

\* What is pending is still what memory holds.
FreshIn(k, m) == \A s \in Pending(k) : k.stage[s].word = m[k.stage[s].pc]
Fresh == \A c \in Cores : FreshIn(core[c], mem)

ArchOf == [c \in Cores |-> [model |-> core[c].model, regs |-> core[c].regs,
                          pc |-> ArchPc(core[c]), running |-> core[c].running]]

Arch == INSTANCE CoreArch WITH arch <- ArchOf

\* Whatever the pipeline and however the host runs the cores, a step executes the instruction at
\* the core's place in its program, once, or moves the pipeline only; a core stops when its
\* program has left memory and all of it is executed. This holds at every step but those with
\* a pending word that was overwritten since it was fetched (run_*_pipeline, execute).
StepsExecuteProgram ==
  [][Fresh => UNCHANGED <<ArchOf, mem>> \/ Arch!Next]_vars

\* Every run returns, though a taken branch counts no cycle: the refill after it counts
\* (brad_core_emu_run, brad_core_emu_run_all).
RunsReturn == call # Idle ~> call = Idle

\* tests/test_core_emu.c:45: a core that was run from address 0 through a program ended by RET
\* for 100 cycles is not running any more.
RunStopsCore ==
  [][call.op = "run" /\ call' = Idle => ~ core'[call.core].running]_vars
=============================================================================
