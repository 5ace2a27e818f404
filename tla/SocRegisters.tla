---------------------------- MODULE SocRegisters -----------------------------
(***************************************************************************)
(* The registers of the SoC drivers that calls change by reading a word,     *)
(* replacing a field and writing it back: gpio.c, timer.c, and the PMU and   *)
(* CRU of bradxonc.c. The main program makes such a call in two steps, and   *)
(* an interrupt handler that runs between them makes calls of its own, each  *)
(* to its end. Nothing masks interrupts.                                    *)
(*                                                                         *)
(* A word is the set of its bits that are 1. last, disturbed and lost are    *)
(* history, for each register: what the last call for a domain asked for;    *)
(* the domains whose field a later call for another domain overlapped; the   *)
(* domains last asked for by an interrupt inside a call of the main program, *)
(* which that call undoes when it writes its word back.                     *)
(***************************************************************************)
EXTENDS Integers

CONSTANTS
  Registers,  \* the registers in play
  Domains,    \* Domains[r]: the pins, timers, or clock and power domains asked for
  WordBits    \* the bits of a register: 32

VARIABLES regs, job, last, disturbed, lost

registerVars == <<regs, job, last, disturbed, lost>>

\* Where the field of a domain is: its stride and its width. Timer compare
\* interrupts start at bit 4; the dividers are 8 bits wide, 4 bits apart.
Stride(r) == CASE r = "cru_clk_div" -> 4 [] r = "cru_clk_sel" -> 3 [] OTHER -> 1
Width(r) == CASE r = "cru_clk_div" -> 8 [] r = "cru_clk_sel" -> 3 [] OTHER -> 1
Offset(r) == IF r = "timer_ctrl" THEN 4 ELSE 0
Low(r, d) == Offset(r) + Stride(r) * d

Field(r, d) == (Low(r, d) .. Low(r, d) + Width(r) - 1) \cap (0 .. WordBits - 1)

\* Faulty variant: the field is not cleared first.
UpdatedOnlySet(word, r, d, value) == word \cup ({Low(r, d) + b : b \in value} \cap Field(r, d))
Updated(word, r, d, value) ==
  (word \ Field(r, d)) \cup ({Low(r, d) + b : b \in value} \cap Field(r, d))

ReadBack(r, d) == {i - Low(r, d) : i \in regs[r] \cap Field(r, d)}

\* What a call writes for a value: a divider of 0 is raised to 1.
Asked(r, value) == IF r = "cru_clk_div" /\ value = {} THEN {0} ELSE value
Values(r) == {{}, 0 .. Width(r) - 1}

\* The registers that gpio_init zeroes.
Zeroed == {"gpio_dir", "gpio_pull", "gpio_irq_en"} \cap Registers

\* The register that timer_init sets to 1: its compare interrupts are off.
Restarted == {"timer_ctrl"} \cap Registers

Idle == [reg |-> "none"]

Init ==
  /\ regs = [r \in Registers |-> {}] /\ job = Idle
  /\ last = [r \in Registers |-> [d \in Domains[r] |-> {}]]
  /\ disturbed = [r \in Registers |-> {}]
  /\ lost = [r \in Registers |-> {}]

\* The history of a call that has ended.
Ended(r, d, value) ==
  /\ last' = [last EXCEPT ![r][d] = value]
  /\ disturbed' = [disturbed EXCEPT ![r] =
       (@ \ {d}) \cup {e \in Domains[r] \ {d} : Field(r, e) \cap Field(r, d) # {}}]

Read(r, d, value) ==
  /\ job = Idle
  /\ job' = [reg |-> r, domain |-> d, value |-> Asked(r, value), word |-> regs[r]]
  /\ UNCHANGED <<regs, last, disturbed, lost>>

WriteBack ==
  /\ job # Idle /\ job' = Idle
  /\ regs' = [regs EXCEPT ![job.reg] = Updated(job.word, job.reg, job.domain, job.value)]
  /\ Ended(job.reg, job.domain, job.value)
  /\ lost' = [lost EXCEPT ![job.reg] = @ \ {job.domain}]

Interrupt(r, d, value) ==
  /\ regs' = [regs EXCEPT ![r] = Updated(@, r, d, Asked(r, value))]
  /\ Ended(r, d, Asked(r, value))
  /\ lost' = [lost EXCEPT ![r] = IF job.reg = r THEN @ \cup {d} ELSE @ \ {d}]
  /\ UNCHANGED job

\* An init function sets registers to a word in which every field is clear.
Reset(registers, word) ==
  /\ job = Idle
  /\ regs' = [r \in Registers |-> IF r \in registers THEN word ELSE regs[r]]
  /\ last' = [r \in Registers |-> IF r \in registers THEN [d \in Domains[r] |-> {}] ELSE last[r]]
  /\ disturbed' = [r \in Registers |-> IF r \in registers THEN {} ELSE disturbed[r]]
  /\ lost' = [r \in Registers |-> IF r \in registers THEN {} ELSE lost[r]]
  /\ UNCHANGED job

InitGpio == Reset(Zeroed, {})

InitTimer == Reset(Restarted, {0})

Next ==
  \/ WriteBack \/ InitGpio \/ InitTimer
  \/ \E r \in Registers : \E d \in Domains[r], value \in Values(r) :
       Read(r, d, value) \/ Interrupt(r, d, value)

Spec == Init /\ [][Next]_registerVars

-----------------------------------------------------------------------------
(* Correctness.                                                             *)

\* Registers are words (bradxonc.c, gpio.c, timer.c).
TypeOK == /\ \A r \in Registers : regs[r] \subseteq 0 .. WordBits - 1
          /\ \A r \in Registers : lost[r] \subseteq Domains[r]

\* A field reads back what the last call for its domain asked for, whatever calls for
\* other domains and other registers, from the main program and from interrupts, came
\* in between; gpio_init and timer_init ask for every field of their registers to be
\* clear. An interrupt inside a call of the main program costs the domain the interrupt
\* asked for, and no other. Exempt are those domains (the update is lost: nothing masks
\* interrupts) and the domains whose field a later call for another domain overlapped,
\* as the dividers of neighbouring clock domains do (gpio.c, timer.c, pmu_gate_clock,
\* cru_set_clk_divider).
FieldsHold ==
  \A r \in Registers : \A d \in Domains[r] \ (disturbed[r] \cup lost[r]) :
    ReadBack(r, d) = last[r][d]
=============================================================================
