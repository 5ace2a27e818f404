-------------------------------- MODULE Gfx ---------------------------------
(***************************************************************************)
(* The BradGFX driver (drivers/bradgfx.c) with its device and its interrupt  *)
(* handler: attaching, the command ring, buffers and shaders, power.         *)
(*                                                                         *)
(* The handler runs on the core that submits commands, so only the device    *)
(* moves between its register accesses, each of which is a step. Everything  *)
(* the device does is external, taken from the registers the driver uses:    *)
(* it reads commands up to the doorbell, advances its head and raises        *)
(* CMD_DONE in one step, and a 1 written to an interrupt bit clears it.      *)
(* Commands are not told apart: the driver writes none to the ring.          *)
(***************************************************************************)
EXTENDS Integers, Sequences, FiniteSetsExt

CONSTANTS
  RingSize,   \* drv->cmdq.size
  Polls,      \* the polls of GFX_STATUS gfx_driver_init makes
  MaxSlots,   \* MAX_BUFFERS
  FullSpeed   \* model bound: the frequency set by software, in steps

VARIABLES
  gpu,      \* the device: ready, head, doorbell, its interrupt bits, frequency, ctrl
  drv,      \* struct gfx_driver: attach, head, tail, slots; left: polls left;
            \* readyLeft: history, the polls left when the device became ready
  irq       \* the handler: where it is, and the interrupt bits it read

gfxVars == <<gpu, drv, irq>>

Ring == 0 .. RingSize - 1
Succ(i) == (i + 1) % RingSize
Never == Polls + 1
Handler(at, bits) == [at |-> at, bits |-> bits]
Asleep == Handler("none", {})

Init ==
  /\ gpu = [ready |-> FALSE, head |-> 0, doorbell |-> 0, bits |-> {}, freq |-> FullSpeed,
            power |-> "idle", sense |-> FALSE]
  /\ drv = [attach |-> "off", left |-> Polls, readyLeft |-> Never, head |-> 0, tail |-> 0,
            slots |-> <<>>]
  /\ irq = Asleep

Attached == drv.attach = "on"
\* Software outside the handler runs only while the handler does not.
Running == irq.at = "none"
Submitting == Attached /\ Running

-----------------------------------------------------------------------------
(* The device.                                                              *)

BecomeReady ==
  /\ ~gpu.ready
  /\ gpu' = [gpu EXCEPT !.ready = TRUE]
  /\ drv' = [drv EXCEPT !.readyLeft = drv.left]
  /\ UNCHANGED irq

Complete ==
  /\ gpu.ready /\ gpu.head # gpu.doorbell
  /\ gpu' = [gpu EXCEPT !.head = Succ(@), !.bits = @ \cup {"done"}]
  /\ UNCHANGED <<drv, irq>>

Overheat ==
  /\ Attached /\ gpu.ready /\ "throttle" \notin gpu.bits
  /\ gpu' = [gpu EXCEPT !.bits = @ \cup {"throttle"}]
  /\ UNCHANGED <<drv, irq>>

-----------------------------------------------------------------------------
(* Attaching.                                                               *)

\* gfx_driver_init up to its loop; known is that the revision read is a valid one.
Probe(known) ==
  /\ drv.attach \in {"off", "timeout"}
  /\ gpu' = IF known THEN [gpu EXCEPT !.power = "balanced"] ELSE gpu
  /\ drv' = IF known
            THEN [drv EXCEPT !.attach = "polling", !.left = Polls, !.slots = <<>>,
                             !.readyLeft = IF gpu.ready THEN Polls ELSE Never]
            ELSE [drv EXCEPT !.slots = <<>>]
  /\ UNCHANGED irq

\* Faulty variant: the last poll but one counts as the last.
TimedOutEarly(left) == left <= 1
\* The test after the loop: zero is the count after a hit on the last poll.
TimedOut(left) == left = 0

\* One turn of the loop. Out of polls, the count wraps around, is not zero, and the
\* driver goes on as if the device were ready.
Poll ==
  /\ drv.attach = "polling"
  /\ drv' =
       IF drv.left = 0 THEN [drv EXCEPT !.attach = "on", !.head = 0, !.tail = 0]
       ELSE IF ~gpu.ready THEN [drv EXCEPT !.left = @ - 1]
       ELSE IF TimedOut(drv.left - 1) THEN [drv EXCEPT !.left = @ - 1, !.attach = "timeout"]
       ELSE [drv EXCEPT !.left = @ - 1, !.attach = "on", !.head = 0, !.tail = 0]
  /\ UNCHANGED <<gpu, irq>>

-----------------------------------------------------------------------------
(* The command ring.                                                        *)

Full == Succ(drv.tail) = drv.head

\* Faulty variant: a full ring is not refused.
RoomAlways == TRUE
Room == ~Full

\* gfx_submit_draw, _dispatch, _copy and _barrier: gfx_enqueue_cmd.
Submit ==
  /\ Submitting /\ Room
  /\ drv' = [drv EXCEPT !.tail = Succ(@)]
  /\ UNCHANGED <<gpu, irq>>

\* gfx_kick.
Kick ==
  /\ Submitting
  /\ gpu' = [gpu EXCEPT !.doorbell = drv.tail]
  /\ UNCHANGED <<drv, irq>>

\* gfx_irq_handler: the status is read, ...
Interrupted ==
  /\ Attached /\ irq.at = "none" /\ gpu.bits # {}
  /\ irq' = Handler("serve", gpu.bits)
  /\ UNCHANGED <<gpu, drv>>

\* Faulty variant: the handler serves one cause, the throttling one first.
HeadAfterElse == IF "throttle" \in irq.bits THEN drv.head ELSE gpu.head
HeadAfter == gpu.head

\* ... the head and the frequency are brought up to date, ...
Serve ==
  /\ irq.at = "serve"
  /\ drv' = [drv EXCEPT !.head = IF "done" \in irq.bits THEN HeadAfter ELSE @]
  /\ gpu' = [gpu EXCEPT !.freq = IF "throttle" \in irq.bits THEN (@ * 9) \div 10 ELSE @]
  /\ irq' = [irq EXCEPT !.at = "clear"]

\* ... and what was read is cleared, with any completion since.
Clear ==
  /\ irq.at = "clear"
  /\ gpu' = [gpu EXCEPT !.bits = @ \ irq.bits]
  /\ irq' = Asleep
  /\ UNCHANGED drv

-----------------------------------------------------------------------------
(* Buffers, shaders and registers.                                          *)

\* gfx_alloc_buffer takes a new slot each time and none that was freed.
AllocBuffer ==
  /\ Submitting /\ Len(drv.slots) < MaxSlots
  /\ drv' = [drv EXCEPT !.slots = Append(@, "buffer")]
  /\ UNCHANGED <<gpu, irq>>

FreeBuffer(i) ==
  /\ Submitting /\ drv.slots[i] = "buffer"
  /\ drv' = [drv EXCEPT !.slots[i] = "free"]
  /\ UNCHANGED <<gpu, irq>>

\* gfx_create_shader takes a freed buffer; its warp count then stands where the
\* reference count stood, so the slot is never free again.
CreateShader ==
  /\ Submitting
  /\ LET freed == {i \in DOMAIN drv.slots : drv.slots[i] = "free"}
     IN freed # {} /\ drv' = [drv EXCEPT !.slots[Min(freed)] = "shader"]
  /\ UNCHANGED <<gpu, irq>>

DestroyShader(i) ==
  /\ Submitting /\ drv.slots[i] = "shader"
  /\ drv' = [drv EXCEPT !.slots[i] = "destroyed"]
  /\ UNCHANGED <<gpu, irq>>

\* gfx_set_power_state, gfx_set_freq, gfx_set_bradsense.
SetPower(p) == Submitting /\ gpu' = [gpu EXCEPT !.power = p] /\ UNCHANGED <<drv, irq>>
SetFreq == Submitting /\ gpu' = [gpu EXCEPT !.freq = FullSpeed] /\ UNCHANGED <<drv, irq>>
SetBradsense(on) == Submitting /\ gpu' = [gpu EXCEPT !.sense = on] /\ UNCHANGED <<drv, irq>>

\* A step of gfx_irq_handler.
Handle == Interrupted \/ Serve \/ Clear

Next ==
  \/ BecomeReady \/ Complete \/ Overheat
  \/ \E known \in BOOLEAN : Probe(known)
  \/ Poll \/ Submit \/ Kick \/ Interrupted \/ Serve \/ Clear
  \/ AllocBuffer \/ CreateShader \/ SetFreq \/ SetPower("idle")
  \/ \E i \in DOMAIN drv.slots : FreeBuffer(i) \/ DestroyShader(i)
  \/ \E on \in BOOLEAN : SetBradsense(on)

\* The device goes on with what it was told to do, and its interrupts are served.
Fairness ==
  WF_gfxVars(BecomeReady) /\ WF_gfxVars(Complete) /\ WF_gfxVars(Handle)

Spec == Init /\ [][Next]_gfxVars /\ Fairness

-----------------------------------------------------------------------------
(* Correctness.                                                             *)

\* Indices stay in the ring, polls and slots in their bounds (drivers/bradgfx.c).
TypeOK ==
  /\ {gpu.head, gpu.doorbell, drv.head, drv.tail} \subseteq Ring
  /\ drv.attach \in {"off", "polling", "timeout", "on"} /\ drv.left \in 0 .. Polls
  /\ gpu.freq \in 0 .. FullSpeed /\ Len(drv.slots) <= MaxSlots

\* How far j is ahead of i in the ring.
Ahead(i, j) == (j - i) % RingSize

\* The driver never reuses the place of a command the device has not completed: going
\* round the ring from the driver's head come the device's head, the doorbell and the
\* tail, in that order, however late or lost the interrupts are (gfx_enqueue_cmd,
\* gfx_irq_handler).
RingKeepsPending ==
  Attached => /\ Ahead(drv.head, gpu.head) <= Ahead(drv.head, gpu.doorbell)
              /\ Ahead(drv.head, gpu.doorbell) <= Ahead(drv.head, drv.tail)

\* A ring that is full and whose commands were all kicked has room again, although
\* gfx_irq_handler clears the completions that came in after it read the head.
FullRingDrains == (Attached /\ Full /\ gpu.doorbell = drv.tail) ~> (Attached => Room)

\* gfx_driver_init reports a timeout for exactly one device: one that became ready
\* between the last two polls, so that the last poll found it. One that is ready earlier
\* attaches; so does one that no poll finds ready, as the count of polls has wrapped
\* around when it is tested.
OnlyLastPollTimesOut ==
  /\ drv.attach = "timeout" => drv.readyLeft = 1
  /\ Attached => drv.readyLeft # 1
=============================================================================
