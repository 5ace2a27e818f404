-------------------------------- MODULE Eroe --------------------------------
(***************************************************************************)
(* The power and thermal governor (drivers/eroe.c): budgets per unit from a  *)
(* profile and the workloads programs declare, a power cap, and a thermal    *)
(* model with fan curves.                                                   *)
(*                                                                         *)
(* eroe is the static struct eroe_state. Load factors are quarters of one,   *)
(* which float holds exactly; weights and fan factors are percentages, and   *)
(* every truncation to unsigned is an integer division. The float products   *)
(* of the thermal model round, so a temperature of the code may be one       *)
(* degree below the one here. eroe_set_custom_profile stores any unsigned    *)
(* values as budgets, percentages or not.                                   *)
(***************************************************************************)
EXTENDS Integers, FiniteSetsExt

CONSTANTS
  WorkloadNames,  \* the names programs declare workloads under
  Stored,         \* Stored[n]: what is left of name n in the 32 bytes of a slot
  MaxWorkloads,   \* EROE_MAX_WORKLOADS
  Loads,          \* the load factors declared, in quarters
  LoadUnits,      \* the units the workloads load
  Profiles,       \* the profiles selected
  Budgets,        \* the budgets of custom profiles
  UIntWrap,       \* 2^32: one more than an unsigned can hold
  Caps,           \* the power caps set, in watts
  Fans            \* the fan curves set

VARIABLE eroe

Units == {"cpu", "gpu", "npu", "mem"}
Ambient == 25
ThermalScale == 120
DefaultTdp == 65

Budget(cpu, gpu, npu, mem) == [cpu |-> cpu, gpu |-> gpu, npu |-> npu, mem |-> mem]

\* default_budgets.
Preset(p) ==
  CASE p = "compute" -> Budget(80, 10, 10, 60)
    [] p = "gaming"  -> Budget(30, 70, 20, 90)
    [] p = "ai_inf"  -> Budget(10, 10, 80, 70)
    [] p = "video"   -> Budget(10, 30, 0, 40)
    [] p = "idle"    -> Budget(5, 0, 0, 10)
    [] p = "battery" -> Budget(30, 20, 20, 30)
    [] p = "custom"  -> Budget(25, 25, 25, 50)

FanPct == [silent |-> 15, balanced |-> 30, performance |-> 50, aggressive |-> 70]
FanRpm == [silent |-> 800, balanced |-> 2000, performance |-> 3500, aggressive |-> 5000]
\* How much a unit at full load heats the junction, in percent, and how many points
\* of budget it adds at full load.
HeatWeight == [cpu |-> 100, gpu |-> 85, npu |-> 95, mem |-> 35]
BlendScale == [cpu |-> 50, gpu |-> 50, npu |-> 50, mem |-> 15]

Slot(name, unit, load) == [name |-> name, unit |-> unit, load |-> load]
FreeSlot == Slot("", "cpu", 0)
Slots == 1 .. MaxWorkloads
NoWorkloads == [i \in Slots |-> FreeSlot]

\* A workload is active as long as its load factor is above zero.
ActiveSlots(slots) == {i \in Slots : slots[i].load > 0}
Capped == eroe.cap \in 1 .. DefaultTdp - 1

Init ==
  eroe = [ready |-> FALSE, profile |-> "compute", base |-> Budget(0, 0, 0, 0),
          eff |-> Budget(0, 0, 0, 0), slots |-> NoWorkloads, count |-> 0,
          fan |-> "silent", rpm |-> 0, junction |-> 0, hotspot |-> 0, board |-> 0,
          cap |-> 0, limit |-> 0]

\* eroe_init, at any time.
Start ==
  eroe' = [ready |-> TRUE, profile |-> "idle", base |-> Preset("idle"),
           eff |-> Preset("idle"), slots |-> NoWorkloads, count |-> 0,
           fan |-> "balanced", rpm |-> FanRpm.balanced, junction |-> Ambient + 10,
           hotspot |-> Ambient + 15, board |-> Ambient + 5, cap |-> 0, limit |-> 95]

\* eroe_set_profile and eroe_set_custom_profile drop every workload.
Select(profile, budget) ==
  /\ eroe.ready
  /\ eroe' = [eroe EXCEPT !.profile = profile, !.base = budget, !.eff = budget,
                          !.slots = NoWorkloads, !.count = 0]

\* The slot of an active workload of that name, else the first inactive one.
SlotFor(name) ==
  LET same == {i \in ActiveSlots(eroe.slots) : eroe.slots[i].name = name}
      idle == Slots \ ActiveSlots(eroe.slots)
  IN IF same # {} THEN Min(same) ELSE Min(idle)

HasSlot(name) ==
  \E i \in Slots : eroe.slots[i].load = 0 \/ eroe.slots[i].name = name

\* Faulty variant: the workloads are counted before the new one is in.
RecountedEarly(slots) == Cardinality(ActiveSlots(eroe.slots))
Recounted(slots) == Cardinality(ActiveSlots(slots))

\* eroe_declare_workload. Setting a load of zero does not count again.
Declare(name, unit, load) ==
  /\ eroe.ready /\ HasSlot(name)
  /\ LET slots == [eroe.slots EXCEPT ![SlotFor(name)] = Slot(Stored[name], unit, load)]
     IN eroe' = [eroe EXCEPT !.slots = slots,
                             !.count = IF load > 0 THEN Recounted(slots) ELSE @]

SetFan(fan) ==
  eroe.ready /\ eroe' = [eroe EXCEPT !.fan = fan, !.rpm = FanRpm[fan]]

SetCap(watts) == eroe.ready /\ eroe' = [eroe EXCEPT !.cap = watts]

SetLimit(celsius) ==
  eroe.ready /\ celsius \in 60 .. 115 /\ eroe' = [eroe EXCEPT !.limit = celsius]

LoadSum(u) ==
  MapThenSumSet(LAMBDA i : IF eroe.slots[i].unit = u THEN eroe.slots[i].load ELSE 0, Slots)
LoadCount(u) == Cardinality({i \in ActiveSlots(eroe.slots) : eroe.slots[i].unit = u})
AtMost(n, most) == IF n > most THEN most ELSE n

\* The cast to int of an unsigned.
AsInt(n) == IF n < UIntWrap \div 2 THEN n ELSE n - UIntWrap

\* Half of the average load is added to a unit's share.
Demanded(u) ==
  AsInt(eroe.base[u]) + (IF LoadCount(u) = 0 THEN 0
                         ELSE (LoadSum(u) * BlendScale[u]) \div (4 * LoadCount(u)))

\* The share clamped to a percentage. A sum beyond the range of int is undefined: if
\* it wraps it is clamped to 0, if the compiler takes it to be positive to 100.
Ends == [Units -> {0, 100}]
Blended(u, overflow) ==
  IF Demanded(u) >= UIntWrap \div 2 THEN overflow[u]
  ELSE IF Demanded(u) < 0 THEN 0 ELSE AtMost(Demanded(u), 100)

\* rebalance_budget: the cap scales all shares; without declared workloads the profile
\* is used as it is, uncapped and unclamped.
Balanced(overflow) ==
  IF eroe.count = 0 THEN eroe.base
  ELSE [u \in Units |-> IF Capped THEN (Blended(u, overflow) * eroe.cap) \div DefaultTdp
                        ELSE Blended(u, overflow)]

\* eroe_get_budget, initialised or not.
GetBudget == \E overflow \in Ends : eroe' = [eroe EXCEPT !.eff = Balanced(overflow)]

\* thermal_update. The cap takes degrees off the junction, even below ambient.
Heat == AtMost(MapThenSumSet(LAMBDA u : LoadSum(u) * HeatWeight[u], Units), 400)
Delta == (ThermalScale * Heat * (100 - FanPct[eroe.fan])) \div (400 * 100)
Junction ==
  LET off == IF Capped THEN (DefaultTdp - eroe.cap) \div 2 ELSE 0
  IN IF Ambient + Delta > off THEN Ambient + Delta - off ELSE Ambient

\* eroe_get_thermal.
GetThermal ==
  eroe' = [eroe EXCEPT !.junction = Junction, !.hotspot = Junction + 5,
                       !.board = Ambient + Delta \div 4]

\* eroe_get_workloads into room for n: the first n active ones.
Listed(n) ==
  {i \in ActiveSlots(eroe.slots) : Cardinality({j \in ActiveSlots(eroe.slots) : j < i}) < n}

Next ==
  \/ Start \/ GetBudget \/ GetThermal
  \/ \E p \in Profiles : Select(p, Preset(p))
  \/ \E budget \in Budgets : Select("custom", budget)
  \/ \E n \in WorkloadNames, u \in LoadUnits, load \in Loads : Declare(n, u, load)
  \/ \E fan \in Fans : SetFan(fan)
  \/ \E watts \in Caps : SetCap(watts)
  \/ SetLimit(60)

Spec == Init /\ [][Next]_eroe

-----------------------------------------------------------------------------
(* Correctness.                                                             *)

\* Counts and temperatures stay in their ranges, and the budgets in force are those of
\* the profile, which only a custom one may set above 100, or percentages
\* (drivers/eroe.c).
TypeOK ==
  /\ eroe.profile # "custom" => \A u \in Units : eroe.base[u] \in 0 .. 100
  /\ eroe.eff # eroe.base => \A u \in Units : eroe.eff[u] \in 0 .. 100
  /\ eroe.count \in 0 .. MaxWorkloads /\ Listed(MaxWorkloads) = ActiveSlots(eroe.slots)
  /\ eroe.junction \in 0 .. Ambient + ThermalScale /\ eroe.fan \in DOMAIN FanRpm

\* While any workload is active, what a call of eroe_get_budget would return leaves each
\* unit at most the part of its full budget that the power cap in force is of the
\* default power, whatever the profile: rebalance_budget decides by num_workloads,
\* which eroe_declare_workload counts again only when a load is above zero.
CapHoldsUnderLoad ==
  ActiveSlots(eroe.slots) # {} /\ Capped =>
    \A overflow \in Ends, u \in Units : Balanced(overflow)[u] * DefaultTdp <= 100 * eroe.cap
=============================================================================
