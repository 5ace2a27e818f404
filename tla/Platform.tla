------------------------------ MODULE Platform -------------------------------
(***************************************************************************)
(* The SoC drivers side by side, each with its own parameters. The drivers   *)
(* share no state, so a behaviour exercises one of them, chosen at the       *)
(* start; the others stay as they were initialised. The fabric's nodes and   *)
(* queue are those of FabricQueue itself.                                    *)
(***************************************************************************)
EXTENDS FabricQueue

CONSTANTS
  \* Eroe
  WorkloadNames, Stored, MaxWorkloads, Loads, LoadUnits, Profiles, Budgets, UIntWrap, Caps,
  Fans,
  \* Atlas
  MvramBytes, MvramBase, MaxContexts, AtlasSizes, AtlasWrap,
  \* CoreDriver
  BootSkus, CoreIds, Freqs, Volts, ClusterSizes,
  \* Gfx
  RingSize, Polls, MaxSlots, FullSpeed,
  \* SpmpMaps
  MapRanges, MaxMaps, MapWrap,
  \* Drive, with Spmp
  Clients, DriveClient, NoHandle, PoolConfigs, Requests, BlockAlign, MinBlock, MaxBlocks,
  MaxPools, AddrBase, PoolStride, MaxAllocs, Lbas, SectorCounts, SectorSize, Page, Sectors,
  CacheLines, IntMax, DriveWrap,
  \* SocRegisters
  Registers, Domains, WordBits,
  \* SocTimer
  Half, Frequencies, DefaultHz, Mhz, Delays, MaxNow,
  \* Atlas and SpmpMaps: model bound of their statistics
  MaxCount

ASSUME GraphicsConstants ==
  {RingSize, Polls} \subseteq Nat \ {0} /\ {MaxSlots, FullSpeed} \subseteq Nat

ASSUME TimerConstants ==
  /\ {Half, Mhz} \subseteq Nat \ {0} /\ DefaultHz \in Nat
  /\ Frequencies \cup Delays \subseteq Nat
  /\ MaxNow \in Nat /\ Half - 1 <= MaxNow

VARIABLES
  unit,  \* which component runs in this behaviour
  eroe,
  atlas, handles,
  soc,
  gpu, drv, irq,
  mapper,
  drive, loaded, pools, handle, stats,
  regs, job, last, disturbed, lost,
  now, freq, ctrl, call, delay, short

Power == INSTANCE Eroe
Memory == INSTANCE Atlas WITH AllocSizes <- AtlasSizes, Wrap <- AtlasWrap
Cores == INSTANCE CoreDriver
Graphics == INSTANCE Gfx
Maps == INSTANCE SpmpMaps WITH Wrap <- MapWrap
Storage == INSTANCE Drive WITH Counts <- SectorCounts, Wrap <- DriveWrap
Words == INSTANCE SocRegisters
Timer == INSTANCE SocTimer

ASSUME StorageConstants == CacheLines \in Nat

\* Loads are not negative, what is selected is one of the code's choices, and custom
\* budgets are any unsigned values.
ASSUME PowerConstants ==
  /\ MaxWorkloads \in Nat /\ Loads \cup Caps \subseteq Nat
  /\ UIntWrap \in Nat /\ \A b \in Budgets, u \in Power!Units : b[u] \in 0 .. UIntWrap - 1
  /\ LoadUnits \subseteq Power!Units /\ Fans \subseteq DOMAIN Power!FanRpm
  /\ Profiles \subseteq {"compute", "gaming", "ai_inf", "video", "idle", "battery", "custom"}

\* The MVRAM and what is asked for lie in the address space.
ASSUME MemoryConstants ==
  /\ AtlasWrap \in Nat /\ MvramBase \in Nat /\ MaxContexts \in Nat /\ MaxCount \in Nat
  /\ \A tier \in DOMAIN MvramBytes :
       /\ MvramBytes[tier] \in Nat /\ MvramBase + MvramBytes[tier] < AtlasWrap
       /\ \A size \in AtlasSizes :
            size \in Nat /\ MvramBase + MvramBytes[tier] + size < AtlasWrap

\* The SKUs that are booted fit the array, and a cluster has eight indices.
ASSUME CoreConstants ==
  /\ BootSkus \subseteq DOMAIN Cores!SkuTable \ {"W816"}
  /\ \A id \in CoreIds : id[1] \in Cores!Clusters /\ id[2] \in 0 .. 2 * Cores!RowCells - 1
  /\ \A size \in ClusterSizes : size[1] \in Nat /\ size[2] \in Nat

\* Mappings lie in the address space.
ASSUME MapConstants ==
  /\ MapWrap \in Nat /\ MaxMaps \in Nat
  /\ \A r \in MapRanges : r[1] \in Nat /\ r[2] \in Nat \ {0} /\ r[1] + r[2] <= MapWrap

\* Every field in play lies within its word.
ASSUME RegisterConstants ==
  /\ WordBits \in Nat \ {0}
  /\ \A r \in Registers : \A d \in Domains[r] :
       d \in Nat /\ Words!Low(r, d) + Words!Width(r) <= WordBits

powerVars == <<eroe>>
memoryVars == <<atlas, handles>>
coresVars == <<soc>>
graphicsVars == <<gpu, drv, irq>>
mapsVars == <<mapper>>
storageVars == <<drive, loaded, pools, handle, stats>>
registersVars == <<regs, job, last, disturbed, lost>>
timerVars == <<now, freq, ctrl, call, delay, short>>

PlatformInit ==
  /\ unit \in {"queue", "power", "memory", "cores", "graphics", "maps", "storage",
               "registers", "timer"}
  /\ Init /\ Power!Init /\ Memory!Init /\ Cores!Init /\ Graphics!Init
  /\ Maps!Init /\ Storage!Init /\ Words!Init /\ Timer!Init

\* Every driver but the one that runs.
OthersStay ==
  /\ UNCHANGED unit
  /\ unit # "queue" => UNCHANGED queueVars
  /\ unit # "power" => UNCHANGED powerVars
  /\ unit # "memory" => UNCHANGED memoryVars
  /\ unit # "cores" => UNCHANGED coresVars
  /\ unit # "graphics" => UNCHANGED graphicsVars
  /\ unit # "maps" => UNCHANGED mapsVars
  /\ unit # "storage" => UNCHANGED storageVars
  /\ unit # "registers" => UNCHANGED registersVars
  /\ unit # "timer" => UNCHANGED timerVars

PlatformNext ==
  \/ unit = "queue" /\ Next /\ OthersStay
  \/ unit = "power" /\ Power!Next /\ OthersStay
  \/ unit = "memory" /\ Memory!Next /\ OthersStay
  \/ unit = "cores" /\ Cores!Next /\ OthersStay
  \/ unit = "graphics" /\ Graphics!Next /\ OthersStay
  \/ unit = "maps" /\ Maps!Next /\ OthersStay
  \/ unit = "storage" /\ Storage!Next /\ OthersStay
  \/ unit = "registers" /\ Words!Next /\ OthersStay
  \/ unit = "timer" /\ Timer!Next /\ OthersStay

platformVars == <<unit, queueVars, powerVars, memoryVars, coresVars, graphicsVars, mapsVars,
                  storageVars, registersVars, timerVars>>

\* The graphics device goes on with its work and its interrupts are served.
Fairness ==
  /\ WF_graphicsVars(unit = "graphics" /\ Graphics!BecomeReady)
  /\ WF_graphicsVars(unit = "graphics" /\ Graphics!Complete)
  /\ WF_graphicsVars(unit = "graphics" /\ Graphics!Handle)

PlatformSpec == PlatformInit /\ [][PlatformNext]_platformVars /\ Fairness

-----------------------------------------------------------------------------
\* The state of every driver is of its type (drivers/).
DriversTyped ==
  /\ TypeOK /\ Power!TypeOK /\ Memory!TypeOK /\ Cores!TypeOK /\ Graphics!TypeOK
  /\ Maps!TypeOK /\ Storage!TypeOK /\ Words!TypeOK /\ Timer!TypeOK

\* While a workload is active and a cap applies, a call of eroe_get_budget would leave
\* each unit at most the part of its full budget that the cap is of the default power,
\* whatever custom budgets were set (eroe_declare_workload, eroe_set_custom_profile).
CapHoldsUnderLoad == Power!CapHoldsUnderLoad

\* A core that runs is initialised and has a frequency and a voltage; once a cluster was
\* configured to other counts, the latter only if it is one of the cores of the SKU
\* (brad_core_start, brad_core_init).
RunningCoresHaveOperatingPoint == Cores!RunningCoresHaveOperatingPoint

\* The command ring never overwrites a command the device has not completed
\* (gfx_enqueue_cmd, gfx_irq_handler).
RingKeepsPending == Graphics!RingKeepsPending

\* A full ring that was kicked has room again (gfx_kick, gfx_irq_handler).
FullRingDrains == Graphics!FullRingDrains

\* Attaching times out for exactly the devices that became ready between the last two
\* polls (gfx_driver_init).
OnlyLastPollTimesOut == Graphics!OnlyLastPollTimesOut

\* A mapping is undone by an unmap of its own range and touches no other, up to those
\* that end at the top of the address space (spmp_map, spmp_unmap).
UnmapUndoesMap == Maps!UnmapUndoesMap

\* Memory taken is accounted for: MVRAM that callers of the Atlas hold never overlaps and
\* contexts are charged for no more than was handed out, and a direct load that fails
\* leaves nothing in its pool (hc_mvram_alloc, hc_auc_create_context, drivers/braddrive.c).
MemoryAccounted == Memory!AtlasAccounts /\ Storage!LoadsAccountForPool

\* A register field holds what was last asked for it, except fields that an interrupt
\* inside another call on their register asked for, and dividers that a later call for a
\* neighbour overlapped (gpio.c, timer.c, bradxonc.c).
FieldsHold == Words!FieldsHold

\* timer_get_cycles returns a value the counter had during the call and no delay is
\* short; the reads that do not check for a carry return one if there was none
\* (timer_delay_us, pmu_read_energy).
CyclesNotTorn == Timer!CyclesNotTorn
=============================================================================
