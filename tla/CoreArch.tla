----------------------------- MODULE CoreArch ------------------------------
(***************************************************************************)
(* What the emulated cores promise: each executes the instruction at its     *)
(* program counter, one at a time, on memory all of them share. A core stops *)
(* when its program counter leaves memory, and only then.                    *)
(***************************************************************************)
EXTENDS BradIsa

CONSTANTS
  Cores,
  Starts,      \* [model, pc, sp]: what cores are started with
  HostRegs,    \* registers the host writes, and the values it writes
  HostValues

VARIABLES
  arch,  \* arch[c]: model, registers, program counter and whether core c runs
  mem

ArchState == [model : Models, regs : [Regs -> Values], pc : Values, running : BOOLEAN]

\* A core as brad_core_emu_init leaves it.
Reset(st) ==
  [model |-> st.model, regs |-> ResetRegs(st.sp), pc |-> st.pc, running |-> TRUE]

\* One instruction, and the stop that may come with it when it was the last.
Perform(c) ==
  LET k == arch[c]
      r == Execute(k.model, k.regs, mem, k.pc, Decode[mem[k.pc]])
      next == IF r.taken THEN r.pc ELSE k.pc + 4
  IN /\ k.running
     /\ k.pc \in Aligned
     /\ \E runs \in BOOLEAN :
          /\ runs \/ (~ r.taken /\ Refused(next))
          /\ arch' = [arch EXCEPT ![c] = [model |-> k.model, regs |-> r.regs,
                                          pc |-> next, running |-> runs]]
     /\ mem' = r.mem

Stop(c) ==
  /\ arch[c].running
  /\ Refused(arch[c].pc)
  /\ arch' = [arch EXCEPT ![c].running = FALSE]
  /\ UNCHANGED mem

Restart(c, st) ==
  /\ arch' = [arch EXCEPT ![c] = Reset(st)]
  /\ UNCHANGED mem

WriteReg(c, r, v) ==
  /\ arch' = [arch EXCEPT ![c].regs = HostWritten(arch[c].model, @, r, v)]
  /\ UNCHANGED mem

Load ==
  /\ mem' \in Memories
  /\ UNCHANGED arch

Next ==
  \/ \E c \in Cores : Perform(c) \/ Stop(c)
  \/ \E c \in Cores, st \in Starts : Restart(c, st)
  \/ \E c \in Cores, r \in HostRegs, v \in HostValues : WriteReg(c, r, v)
  \/ Load
=============================================================================
