------------------------------ MODULE SocTimer -------------------------------
(***************************************************************************)
(* The 64-bit counters of the SoC that drivers read half by half while they  *)
(* count: timer_get_cycles, which checks for a carry, and timer_delay_us on  *)
(* top of it (drivers/timer.c); pmu_read_energy (drivers/bradxonc.c) and     *)
(* gfx_read_perf_counter (drivers/bradgfx.c), which do not. The counter may  *)
(* advance between any two reads, whatever the control register says.       *)
(***************************************************************************)
EXTENDS Integers

CONSTANTS
  Half,         \* 2^32: one more than the low half can hold
  Frequencies,  \* what the frequency register may say
  DefaultHz,    \* the frequency assumed when it says 0
  Mhz,          \* 10^6
  Delays,       \* the microseconds asked of timer_delay_us
  MaxNow        \* model bound: where the counter stops

VARIABLES
  now,    \* the counter
  freq,   \* tmr_freq_hz: 0 before timer_init
  ctrl,   \* timer_ctrl, as timer_init leaves it; its interrupt bits are in SocRegisters
  call,   \* the read under way: who asked, its next step and what it has read
  delay,  \* the delay under way, or NoDelay
  short   \* history: some delay ended before its ticks had passed

timerVars == <<now, freq, ctrl, call, delay, short>>

NoCall == [who |-> "nobody", step |-> "done", lo |-> 0, hi |-> 0, start |-> 0]
NoDelay == [ticks |-> 0, target |-> -1, begun |-> -1]

Init ==
  /\ now = Half - 1 /\ freq = 0 /\ ctrl = 0
  /\ call = NoCall /\ delay = NoDelay /\ short = FALSE

Tick == now < MaxNow /\ now' = now + 1 /\ UNCHANGED <<freq, ctrl, call, delay, short>>

\* timer_init.
InitTimer ==
  /\ call.step = "done" /\ delay = NoDelay
  /\ \E hz \in Frequencies : freq' = IF hz = 0 THEN DefaultHz ELSE hz
  /\ ctrl' = 1
  /\ UNCHANGED <<now, call, delay, short>>

LowNow == now % Half
HighNow == now \div Half

Begin(who) ==
  /\ call.step = "done"
  /\ who = "delay" <=> delay # NoDelay
  /\ call' = [who |-> who, step |-> "high", lo |-> LowNow, hi |-> 0, start |-> now]
  /\ UNCHANGED <<now, freq, ctrl, delay, short>>

ReadHigh ==
  /\ call.step = "high"
  /\ call' = [call EXCEPT !.hi = HighNow, !.step = IF call.who = "energy" THEN "ready" ELSE "check"]
  /\ UNCHANGED <<now, freq, ctrl, delay, short>>

\* Faulty variant: the low half that was read is not compared with the new one.
CarriedNever == FALSE
Carried == call.lo > LowNow

Check ==
  /\ call.step = "check"
  /\ call' = [call EXCEPT !.step = IF Carried THEN "high again" ELSE "ready"]
  /\ UNCHANGED <<now, freq, ctrl, delay, short>>

ReadHighAgain ==
  /\ call.step = "high again"
  /\ call' = [call EXCEPT !.hi = HighNow, !.step = "low again"]
  /\ UNCHANGED <<now, freq, ctrl, delay, short>>

ReadLowAgain ==
  /\ call.step = "low again"
  /\ call' = [call EXCEPT !.lo = LowNow, !.step = "ready"]
  /\ UNCHANGED <<now, freq, ctrl, delay, short>>

Result == call.hi * Half + call.lo

\* The call returns. To a delay the first result gives the target, the others end it.
Return ==
  /\ call.step = "ready" /\ call' = NoCall
  /\ CASE call.who = "delay" /\ delay.target < 0 ->
            /\ delay' = [delay EXCEPT !.target = Result + delay.ticks] /\ UNCHANGED short
       [] call.who = "delay" /\ delay.target >= 0 /\ Result >= delay.target ->
            /\ short' = (short \/ now - delay.begun < delay.ticks)
            /\ delay' = NoDelay
       [] OTHER -> UNCHANGED <<delay, short>>
  /\ UNCHANGED <<now, freq, ctrl>>

\* timer_delay_us: whole megahertz count, so none below 1 MHz or before timer_init.
Delay(us) ==
  /\ call.step = "done" /\ delay = NoDelay
  /\ delay' = [ticks |-> us * (freq \div Mhz), target |-> -1, begun |-> now]
  /\ UNCHANGED <<now, freq, ctrl, call, short>>

Next ==
  \/ Tick \/ InitTimer \/ ReadHigh \/ Check \/ ReadHighAgain \/ ReadLowAgain \/ Return
  \/ \E who \in {"cycles", "energy", "delay"} : Begin(who)
  \/ \E us \in Delays : Delay(us)

Spec == Init /\ [][Next]_timerVars

-----------------------------------------------------------------------------
(* Correctness.                                                             *)

\* The halves that were read fit their registers (drivers/timer.c).
TypeOK == call.lo \in 0 .. Half - 1 /\ call.hi \in 0 .. MaxNow \div Half

\* timer_get_cycles returns a value the counter had during the call, wherever carries
\* fall between its reads and however often the low half goes round; the reads that do
\* not check for a carry do so if there was none; and so no delay ends before the ticks
\* it computed have passed (timer_get_cycles, timer_delay_us, pmu_read_energy).
CyclesNotTorn ==
  /\ call.step = "ready" /\ (call.who = "energy" => call.start \div Half = HighNow) =>
       Result \in call.start .. now
  /\ ~short
=============================================================================
