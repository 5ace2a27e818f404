# BradVector in TLA+

Specifications of the reference software of the BradVector stack, the TLC runs
that check them on small instances, and TLAPS proofs of the most important
results for every value of the constants. Paths below are relative to
`src/toolchain/` unless they start with `src/`.

    tlc -workers 2 -config MCSpmp.cfg MCSpmp      # model-check one run
    tlapm FabricProofs.tla                         # check one proof module

## The system

BradVector is a C library of device models (memory pool, interconnect, storage,
power, cores), a bytecode virtual machine with its compiler and tools, numeric
and collective libraries above both, emulators of the CPU cores, and Verilog and
VHDL sources. Almost all of it is sequential code over file-level `static`
state. The exceptions are what the models concentrate on: fabric calls made by
concurrent threads, tools that take turns at one virtual machine, collectives
that must hold together over many transfers, drivers whose device and interrupt
handler move on while they run, a threaded server, and long sequences of legal
calls.

| Component | Source | State | Operations | What is hard, and what makes it correct |
|---|---|---|---|---|
| SPMP allocator | `drivers/spmp.c` | pools with a block table each, statistics | create, destroy, alloc, free, encrypt, decrypt | long call sequences; splits and merges over one table that never shrinks; errors half way. Live blocks are disjoint, bytes are neither lost nor counted twice |
| SPMP map table | `drivers/spmp.c:258` | map entries, counters | map, unmap, prefetch, stats | slots are not reused; overlap rather than equality decides |
| Fabric DMA and atomics | `drivers/fabric.c:213` | bound memory, `dma_lock`, counters | dma, add, cas, exch | threads; a lock that covers some accesses only; a cas made of two exchanges. Calls appear atomic |
| Fabric topology and messages | `drivers/fabric.c:61` | nodes, channels, one byte queue | register, bind, open, close, send, recv, queries | one queue for all channels, ranges at the top of the address space |
| BVRT | `bradvector/bvrt.c` | one warp of lanes, memory, image | load, launch, step, run | SIMT control flow, traps in mid-instruction, budgets |
| BradGDB, BradTimeline | `bradvector/bradgdb.c`, `bradtimeline.c` | breakpoints, counts, a bounded trace | step, continue, run | share the device with `bvrt_run`; must not change what a kernel computes |
| BVComm | `bvlibs/src/bvcomm.c` | a world: a window per rank over the fabric | init, destroy, all-reduce, broadcast, all-gather | many transfers through one inbox per rank; answers of transfers not read |
| BVML, BVN | `bvlibs/src/` | a device and embedded kernels | GEMM, dot, softmax... | launch protocol over BVRT, floating point |
| BradBasic compiler, container, library | `bradvector/bradc.c`, `bvbc.c`, `bradlib.c` | source text, image | compile, pack, unpack, launch | two passes that must count alike; names kept as offsets |
| Assembler | `asm/bradasm.c` | source text, labels | assemble | two passes that must agree |
| BradDrive | `drivers/braddrive.c` | queue, statistics, recent accesses | read, write, trim, flush, direct load, predict | direct load allocates, transfers, and must release on failure |
| HyperCore Atlas | `drivers/hypercore_atlas.c` | bump-allocated memory, contexts, link | alloc, free, create, destroy, freeze | nothing is ever given back; contexts outlive their allocations and the reverse |
| EROE | `drivers/eroe.c` | profile, workloads, caps, estimates | set workload, profile, cap, queries | a count that is refreshed on some paths only |
| BradCore driver | `drivers/bradcore.c` | clusters, an array of cores | boot, init, start, set, configure | rows of the array are shorter than the indices calls accept |
| Core emulator | `emu/brad_core_emu.c` | cores with pipelines, shared memory | init, load, step, run, run all | instructions in flight when a branch is taken or a fetch faults |
| Cache emulator | `emu/brad_cache_emu.c` | sets of lines | read, write, flush | what a read returns after evictions nothing writes back |
| BradGFX driver | `drivers/bradgfx.c` | command ring, buffers | init, submit, poll, interrupt | ring head moved by the interrupt handler; polling timeouts |
| Peripherals, PMU, CRU | `drivers/timer.c`, `gpio.c`, `bradxonc.c`, `wdt.c`, `uart.c` | registers | single accesses, read-modify-write | a 64-bit counter read in halves; updates under interrupts |
| Links, NPU | `drivers/bradlink.c`, `bradnpu.c` | registers | train, submit | polling |
| Image and compression | `drivers/bradsense.c`, `bradcompress.c` | buffers | pure transformations | arithmetic only |
| BMS server | `bms/reference_server.py` | wallet, files, notifications | HTTP handlers, a thread per request | check then act without a lock |
| Front ends, SDK | `braddev/`, `wasm/`, `tifa/` | - | input and output | - |
| RTL | `rtl/`, `src/rtl/` | - | - | hardware timing, not modelled |

How they interact: BVComm and BradDrive move data by `fabric_dma`; BradDrive
allocates its buffers by `spmp_alloc`; BradGDB and BradTimeline call
`bvrt_step` of the device `bvrt_run` also drives; BVML and BVN launch kernels on
BVRT; `bradc` produces the images that `bvrt_load` takes. All calls are direct
but two: the BradGFX interrupt handler, and the listener that
`hc_tifa_infer_async` calls before it returns. Nothing is persistent.

## Modules

| Module | Models | Kind |
|---|---|---|
| `Spmp` | `drivers/spmp.c`, allocator and encryption | component |
| `SpmpProofs` | one block table, and the invariants of `Spmp` | proofs |
| `FabricMemory` | what DMA and atomics promise, one step per call | abstract specification |
| `Fabric` | `drivers/fabric.c:213-328`, one step per access to shared state | component, refines `FabricMemory` |
| `FabricProofs` | invariants and refinement of `Fabric` | proofs |
| `BvIsa` | one instruction of a warp (`execute_insn`) | operators |
| `Bvrt` | the device and its three tools | component, uses `BvIsa` |
| `BvrtProofs` | invariants of `Bvrt` | proofs |
| `Collectives` | what the collectives promise, one step per call | abstract specification |
| `BvComm` | `bvlibs/src/bvcomm.c`, one step per transfer or local pass | component, refines `Collectives` |
| `BvCommProofs` | invariants and refinement of `BvComm` | proofs |
| `BradIsa` | one BradISA instruction (`execute`) | operators |
| `CoreArch` | cores that execute their program one instruction at a time | abstract specification |
| `CoreEmu` | `emu/brad_core_emu.c`, one step per pipeline step or host call | component, uses `BradIsa`, refines `CoreArch` |
| `CoreEmuProofs` | invariants and refinement of `CoreEmu` | proofs |
| `FabricQueue` | nodes, channels and the byte queue of `drivers/fabric.c` | component |
| `SpmpMaps` | the address map of `drivers/spmp.c` | component |
| `Drive` | `drivers/braddrive.c` over the allocator | component, composes `Spmp` |
| `Atlas` | `drivers/hypercore_atlas.c` | component |
| `Eroe` | `drivers/eroe.c` | component |
| `CoreDriver` | `drivers/bradcore.c` | component |
| `Gfx` | `drivers/bradgfx.c`, with the device and its interrupts | component |
| `SocRegisters` | read-modify-write registers of `gpio.c`, `timer.c`, `bradxonc.c` | component |
| `SocTimer` | 64-bit counters read in halves | component |
| `Bvbc` | the container of `bradvector/bvbc.c` | operators |
| `Bradc` | `bradvector/bradc.c` and the calls of `bradlib.c` around it | component, uses `Bvbc` |
| `LineCache` | what the emulated caches amount to | abstract specification |
| `CacheEmu` | `emu/brad_cache_emu.c` | component, refines `LineCache` |
| `Bms` | `bms/reference_server.py`, one step per access to a shared field | component |
| `Platform` | the drivers side by side, with their parameters and what is assumed of them; extends `FabricQueue` | composition |
| `PlatformProofs` | invariants of each driver of `Platform` | proofs |
| `Host` | `Bradc`, `CacheEmu` and `Bms` side by side, with their parameters and assumptions | composition |
| `HostProofs` | invariants of the three programs of `Host`, and the refinement of `LineCache` | proofs |
| `Sums` | least elements and sums over finite sets, used by the other proofs | proofs |
| `MC*` | small instances, one per system above; `MCPlatform` extends `Platform` and `MCHost` extends `Host` | TLC |

An operator commented *Faulty variant* is never part of a specification: it is
a plausible mistake in the definition that follows it, kept to show which
property would notice.

### Spmp

`pools[i]` is the pool with id `i - 1`, with its `blocks` table as a sequence.
`handle[c]` is the `struct spmp_allocation` a client holds, so that freeing and
using it can be related to the table. Each public function past its argument
checks is one action; the code is sequential and its clients call it in turn.
A block merged away stays in the table as a tombstone, marked in use and empty,
as `pool_coalesce` leaves it. The nested loops of `pool_coalesce` are functions
of the two slots they stand at, and not RECURSIVE operators, so that proofs can
go along them. `Alloc` has the code's late failure: when the
table fills between the two holes the leading hole is already written, and the
action keeps it.

### Fabric and FabricMemory

A thread's `pc` names its next access to shared state: the test-and-set, each
word of the copy (upwards or downwards as `memmove` chooses), the load and the
store of the counter, the unlocking store; one access for an add or an
exchange; two for a compare-and-swap that fails. `FabricMemory` has one step per
call. The refinement mapping shows memory as it was when the lock was taken
until the transfer ends, and a word being rolled back as it was before the swap.

The two nodes of the channel are constants, each with the window of addresses it
was registered with and the memory it was bound to, which may be less. As in the
code, `region_valid` holds a transfer to the window and `fabric_translate` looks
at its first byte alone, so a transfer may go on behind the binding; the model
copies there too. It assumes that host memory is there as far as the window goes
and is plain memory, not the fabric's own state.

The refinement needs a discipline the code does not enforce and no document
states, `Disciplined`: words moved by transfers are not the target of atomics,
and a word one thread compares and swaps is not updated by another. The run
`fabric_cas` shows what happens without it.

### BvIsa and Bvrt

`Execute(w, m, in, random)` is the warp, the memory and the trap an instruction
leaves. Arithmetic is the constant `Alu`; control, predication, lane order,
traps half way through the lanes and the register files are kept. `Bvrt` adds
launch, `bvrt_run`, breakpoints, `bradgdb_step`, `bradgdb_continue`, and the
profiler. A call that loops is entered by one action and continued by one step
per iteration, and no other host call is made meanwhile, since all are
synchronous calls on one thread. `launched` remembers the warp and memory of the
last launch.

### BvComm and Collectives

A world is a window of words per rank: the user buffer, then the inbox. Each
iteration of each `for r` loop is a step. Transfers are `fabric_dma` as it is
used here, a `memmove` or nothing when a region leaves its window, and their
answers are ignored as in the code. `Collectives` performs a collective in one
step; nothing is assumed of addition except what `IsSum` accepts, so the checks
see a term that is missing, counted twice, or added in a different order in two
ranks.

### BradIsa, CoreEmu and CoreArch

`BradIsa!Execute` is what an instruction leaves of registers and memory and
where it jumps; `Decode` and the arithmetic of `alu_exec` are constants. In
`CoreEmu` a core is a record with its registers, its program counter and a
function from stages to slots. One step (`Cycle`) advances the slots, executes
the one at the execution stage, flushes if it jumps, and otherwise fetches and
looks whether the core has drained: the four `run_*_pipeline` functions, which
differ in depth and in whether the executed slot is emptied at once. The host
steps, runs, restarts and loads; a run is entered by one action and continued by
one step of a core at a time, with the cycle budget as the code counts it: a
taken branch returns before the counter, and `brad_core_emu_run_all` counts
rounds and not cycles.

`CoreArch` has no pipeline. The refinement mapping places a core at its oldest
instruction not executed yet, or at the next fetch if there is none. It holds at
every step taken while each pending word is still what memory holds (`Fresh`):
the emulator does not watch stores, and a program that overwrites an instruction
already fetched, or a host that loads over it, has the old one executed. The
model takes those steps too; the property claims nothing of them.

Where code and comments part ways without a run: `src/docs/04-registers.md:116`
calls R0 a zero register, but only `brad_core_write_reg` spares it;
`CALL` writes the link register of a Falcon-Lite core although `RET` cannot read
it, so its subroutines return to address 0; compressed mode, which is left out,
drops the second half of every word though `include/brad/bradisa.h:106` says the counter
advances by two.

### FabricQueue and SpmpMaps

`FabricQueue` has what `Fabric` takes as given: how nodes are registered, memory is
bound to them, the channels, and one ring of bytes all channels share. `sent`
remembers the bytes sent and not received. `fabric_send` also copies a message
to the base of its destination. A channel that was closed is a zeroed struct,
which nothing checks: no send fits it and every receive goes on. Registration
compares ends of ranges and nothing else: a node whose limit is below its base is
accepted and owns no address, and one that ends at the top of the address space
has the end 0, in `fabric_translate` as well.

`SpmpMaps` is the part of `spmp.c` that shares no state with the allocator. Both
modules compute ends of ranges as the code does, in words that wrap, so a range
that ends at the top of the address space meets nothing; their properties except
exactly those ranges, and the nodes whose limit is first. `NodesOwnAddresses` says
of a transfer that passes both checks that it starts in its node's window and ends
in it; only when `addr + len` wraps around is the end not looked at, and then
only nodes that end at the top of the address space refuse.

### Drive

`Drive` instantiates `Spmp` over the same pools and handles. A direct load is two
steps, the allocation and the outcome of the transfer; other clients allocate,
free and destroy pools in between. `fabric_dma` answers the length as an `int`,
so one that does not fit is negative and the block is freed as for an error. On
success nobody keeps the `struct spmp_allocation`: `loaded` remembers what
those loads took, since no call can give it back. Pool id 0, the first a program
gets, is refused by direct loads.

### Atlas, Eroe and CoreDriver

`Atlas` keeps `hc_state`, and in `handles` what callers were given. Sizes near
2^64, for which the end of an allocation wraps, are not asked for.

`Eroe` has load factors in quarters, so that all the arithmetic is in integers
and rounds as the casts do. `num_workloads` is a field of its own, since it is
refreshed on some paths only: stopping the last workload leaves it, and budgets
then stay capped although the profile alone would not be. A custom profile stores
any unsigned values (`Budgets`, below `UIntWrap`): without workloads they are
handed out as they are, so `TypeOK` claims percentages only of the other profiles
and of budgets that were computed. With workloads they are cast to `int`, where
large ones are negative (`AsInt`) and are clamped to 0; a sum that overflows is
undefined, and the model takes either end (`Ends`). `CapHoldsUnderLoad` is a
statement about every state: what `eroe_get_budget` would return now. It bounds each
unit and not their sum, as `rebalance_budget` scales each share.

`CoreDriver` numbers cores through the whole array, because the upper half of a
cluster's indices are the cells of the next row. `SkuTablesAgree`, a statement
about the tables of the code, is an assumption of `MCPlatform` that TLC
evaluates. The SKU W816 is not booted: its last cluster lies past the array. The
field `moved` of `soc` remembers that a cluster was configured to other counts. After
that `brad_core_init` may initialise a core that `brad_soc_init` gave no frequency:
`RunningCoresHaveOperatingPoint` still claims that a running core is initialised,
and claims the frequency and voltage for the cores of the SKU (`Dealt`).

### Gfx

The device completes commands up to its doorbell and raises interrupts; the
handler reads the status, serves it and clears it in three steps while no other
software runs. A completion between the last two is cleared unseen, and the head
the driver knows is then late but the ring drains, because it is the head
register that is read. Attaching polls: the count is zero after an answer to the
last poll, so that answer is taken for a timeout, and wraps without one, so the
driver goes on with a device that is not ready. `OnlyLastPollTimesOut` says exactly
that: attaching times out for the devices that became ready between the last two
polls, and for no other. `readyLeft` remembers how many polls were left.

### SocRegisters and SocTimer

A register is the set of its one bits. The main program's update is a read and a
write; an interrupt's update happens between any two steps. `gpio_init` and
`timer_init` set whole registers (`Reset`), and with them every field: the control
word 1 that `timer_init` writes turns the compare interrupts off. `FieldsHold` is
stated outside two cases the code does not exclude, remembered for each domain:
`lost`, what an interrupt asked for inside an update of the same register, and
`disturbed`, the 8-bit divider fields of neighbouring clock domains, 4 bits apart,
which overlap. An interrupt inside an update costs its own domain and no other.

`SocTimer` lets the counter advance between any two reads. The reads of
`pmu_read_energy` and `gfx_read_perf_counter` do not check for a carry, and
`CyclesNotTorn` speaks of them only when none falls between.

### Bradc and Bvbc

A source is a sequence of lines already cut into tokens, as far as the passes
read them. Each pass is one step per line. Any line that fails a test of the
second pass refuses the program. What the assembler accepts beyond its comments
is kept: numbers where registers are expected, and the number of a CMP, which is
dropped. Names are one table for all kernels, with addresses counted from the start
of the kernel that defined them first, and a branch is the difference to its own
place in its own kernel. `BranchesReachLabels` says so for every branch: it reaches its
label when its own kernel is the first to define the name, and otherwise the same
place of its own kernel. The container keeps names in a pool of characters; `Open` reads it back
whole or one byte short.

### CacheEmu and LineCache

The replacement count of a line is never raised, so the first way of a set is
always the victim and a cache remembers one line per set, the last one touched:
that is `LineCache`, and `CacheEmu` is shown to implement it for its first-level
caches. The lower levels are never asked, since the first always answers, and
nothing connects a cache to memory.

### Bms

A thread per request, nothing locked; an augmented assignment is a read and a
write. `mixed` remembers which services had two requests at once. `RequestsAddUp`
promises the ledger only when transfers were served one at a time, and otherwise
that the wallet is never below what the ledger explains.

## Runs

| Run | Checks | Bounds | Shows |
|---|---|---|---|
| `spmp_pool` | `TypeOK`, `LiveDisjoint`, `TilesUntilFull`, `FullyCoalesced`, `HandlesMatchLiveBlocks`, `FreeForgetsEncryption`, `RefusedOnlyWhenNoRoom` | 3 clients, 2 pools of 21 bytes, tables of 5 slots, 5 allocations, one request over-aligned | the allocator is correct until the table is full, and safe after |
| `spmp_reuse` | `FreedPoolIsReusable` (violated) | as above, tables of 6 slots, 6 allocations | tombstones use up the table for good |
| `fabric_threads` | `TypeOK`, `LockExclusive`, `TransfersAccounted`, `AtomicCallsSpec`, `CallsReturn` | 3 threads, 2 calls each, a window of 6 words with 5 bound, overlapping transfers both ways and behind the binding | disciplined calls are atomic and return |
| `fabric_cas` | `MismatchedCasLeavesValue` (violated) | 3 threads, 1 call each, 1 word | a failed compare-and-swap can undo an addition |
| `bvrt_tools` | `TypeOK`, `StacksAgree`, `ToolsTransparent`, `AtomicAddsSerialise`, `RunsReturn` | 2 lanes, kernels `CMP; x; y; EXIT` for 20 x 12 pairs, 3 host calls, 6 instructions | tools do not change what kernels compute |
| `bvrt_pred` | `PredicatedOffDoesNothing` (violated) | same | predication does not cover CALL, RET and EXIT |
| `bvrt_loadv` | `LoadsReachVector` (violated) | same | LOADV does not load a vector register |
| `bvcomm_collectives` | `TypeOK`, `OwnersHoldSums`, `CollectivesSpec` | 0 to 5 ranks asked for (4 allowed), 5-word buffers, inboxes of 0 to 2 words, 2 collectives | each collective does what its name says |
| `core_emu` | `TypeOK`, `PendingInOrder`, `StepsExecuteProgram`, `RunsReturn` | 2 cores, the 4 pipelines at their real depths, 6 words of memory, 3 programs, budgets 0 and 12, 3 host calls, 32 values | pipelines execute the program, and runs return |
| `platform` | `DriversTyped`, `BytesInOrder`, `NodesOwnAddresses`, `RunningCoresHaveOperatingPoint`, `RingKeepsPending`, `OnlyLastPollTimesOut`, `UnmapUndoesMap`, `MemoryAccounted`, `FieldsHold`, `CyclesNotTorn`, `CapHoldsUnderLoad`, `FullRingDrains` | one driver at a time; see below | each driver keeps what it promises its callers |
| `host` | `TypeOK`, `LaunchRunsNamedKernel`, `RequestsAddUp`, `KeepsLastLineOfSet` | one program at a time; see below | programs are assembled, stored and launched as written; caches and the server do what is left of their promise |
| `core_emu_test` | `RunStopsCore` (violated) | the program, core and budget of `tests/test_core_emu.c` | RET does not end a program |

Why the bounds are enough. Spmp: three live blocks give every arrangement of a
free block between, before and after live ones, and a table of five slots fills
both between and after the two holes. Fabric: three threads are the fewest in
which two contend for the lock while a third uses atomics, and two calls make a
second acquisition follow a release. BVRT: two lanes already disagree on a
predicate, a fault or an order, and a return stack of two overflows within the
six instructions. BVComm: four ranks with up to five words give empty, equal and
uneven chunks, and the ring passes each inbox three times. Core emulator: six
words hold a loop, a subroutine or a program that rewrites itself with its data,
and are fewer than the deepest pipeline, so cores drain, flush while draining and
refill; twelve cycles fill that pipeline and execute a whole pass. `CHECK_DEADLOCK` is
off in every run: each system stops when its bound on calls is reached, an
assembler when its source is refused, a driver when its caller has nothing to ask.

The drivers of `Platform`, and the programs of `Host`, share no state, so a
product of them would show nothing more: the variable `unit` picks one at the
start, and the others stay at their initial state. Their instances in
`MCPlatform` and `MCHost`:

| Unit | Instance | Why it is enough |
|---|---|---|
| power | 2 slots, 2 names, 1 unit, loads 0 and 1/2, caps 0 and 13 W, a preset and a custom budget, unsigned values below 512 | the table fills, and any order of starting and stopping leaves the count stale; shares above 100, negative as int, and overflowing |
| memory | 4 bytes of MVRAM, 2 contexts, sizes 2 and 3 | memory runs out, contexts are replaced while their memory is held |
| cores | SKUs P1E4 and P6E4, a core of the second row by both names, and one of the first; a refused and an accepted frequency and voltage; clusters configured to 4 and 4 | one cluster, and two whose rows overlap; a cell no SKU dealt out, running after a configuration |
| graphics | a ring of 3, 2 polls, 1 buffer | the ring wraps and fills; every outcome of the poll |
| queue | 2 channels, a ring of 3, messages of 1 and 2, packets of at most 2, 2 nodes, 4 ranges in 4 addresses | the ring wraps at every phase; ranges lie inside another, end at the top, and have their limit first |
| maps | 4 slots, 4 ranges in 8 addresses | partly overlapping unmaps; the table fills |
| storage | 1 client and a load, 2 pools of 16, 3 allocations, lengths 3 and 9 with integers up to 7 | the transfer fails, is negative, or loses its pool |
| registers | a pin, a timer compare, two dividers side by side | fields of one register, and registers that an init function resets; overlapping dividers, which the property exempts, are left to the theorem |
| timer | low half of 4 values, 9 ticks | two carries during one read and during a delay |
| assembler | all programs of two kernels with bodies of at most 2 of 5 lines, all texts of at most 5 lines; immediates -2 to 1 | labels before, behind, out of reach, repeated and missing; every table fills |
| caches | 1 core, 3 lines, 3 sets of 2 ways, 5 accesses | sets that are unused, shared and evicted |
| server | 2 threads, 4 requests, amount 2, fee 1, wallet 6 | money runs out at the second transfer |

The bounds are `MaxAllocs` (Spmp, Drive), `MaxCalls` (Fabric, Bvrt, BvComm, CoreEmu),
`MaxRequests` (Bms), `MaxAccesses` (CacheEmu), `MaxNow` (SocTimer), `MaxCount` (statistics of
Atlas and SpmpMaps, which stop there) and `MaxInsns` (Bvrt: `bradgdb_continue` has no budget, and past this count it is
not pursued). They appear only in guards.

Fairness. `Fabric!FairSpec` has `WF_vars(Access(t))` for each thread: the
operating system runs every thread. The spinlock is not fair, so `CallsReturn`
relies on the finite number of calls in the model, and says so.
`Bvrt!FairSpec` has `WF_vars(ToolStep)`: a host call that was entered is
executed. It makes no host call happen. `CoreEmu!FairSpec` has
`WF_vars(Progress)` for the same reason: a run is a loop of the calling thread.
`Gfx!Fairness` is weak fairness of the device, which becomes ready and completes
what it was told by the doorbell, and of the handler: an enabled interrupt is
taken and the handler returns. Callers owe nothing: `FullRingDrains` speaks of a
ring whose commands were kicked.

Findings: the five violated runs. `spmp_reuse`, `fabric_cas` and `core_emu_test`
are faults of the code by its own tests' words (the asserts of the last are
compiled out in a release build); `bvrt_pred` and `bvrt_loadv` are
disagreements between the code and the documented instruction set.

## Proofs

For every set of threads, memory size, word size, initial contents and choice of
calls allowed by `FabricConstants` and `BoundContents`:

* `TypeCorrect`, `MutualExclusion`, `NoLostAccounting` (`FabricProofs`): the
  invariants `TypeOK`, `LockExclusive` and `TransfersAccounted` of `Fabric`.
  None is inductive alone. `IInv` joins them with `Serving`, which ties a
  thread's place in the code to the call it serves: without it a copy could
  index outside memory, and the length that is accounted could be any value. That
  copies stay in host memory follows from the windows; what part of a window is
  bound plays no role in it, as in the code.
* `AtomicCalls` (`FabricProofs`): a `Disciplined` choice of calls implements
  `FabricMemory`. The invariant is `RInv`: `IInv`, `CopyProgress` (which words a
  transfer in progress has written, and that everything else in its region is
  untouched, so a later read is of a word not yet overwritten whichever way
  `memmove` goes) and `Mismatched` (only a mismatch is rolled back). Each step
  then maps to one call or to a stutter.

For every number of cores, pipeline depths, memory size, word size, decoding,
arithmetic, programs, images and budgets allowed by `BradIsaConstants` and
`CoreEmuConstants`:

* `TypeCorrect`, `OrderKept`, `ProgramExecuted` (`CoreEmuProofs`): the properties
  `TypeOK`, `PendingInOrder` and `StepsExecuteProgram` of `CoreEmu`. The
  invariant `IInv` adds to the types and the order, for each core, that what is
  in the pipeline was fetched from memory, that a draining core's next fetch is
  refused, and that the pending instructions have an oldest one (`Sound`).
  Without the second a core could stop in the middle of its program; without the
  third the refinement mapping is not defined. The argument goes over one step of
  one core (`CycleStep`): an advance moves every pending instruction one stage
  up, and the oldest is executed when it reaches the execution stage (`MovedPc`);
  a taken branch leaves none and continues at its target (`FlushedFields`); a
  refused fetch leaves the order as it was. `StepArch` adds the host calls.

For every set of clients that is finite, pool configurations, requests, block
units, table and pool limits allowed by `SpmpConstants` (tables of more than two
slots, pools that fit between two bases):

* `TypeCorrect`, `AllocationsApart`, `BlocksTile`, `OnePassCoalesces`,
  `HandlesMatch`, `EncryptionForgotten`, `RefusalsJustified` (`SpmpProofs`): all
  seven properties of the run `spmp_pool`. The invariant is `Inv`: `PoolsInv` (each
  table satisfies `TableInv`), `HandlesInv` and `StatsInv`. `TableInv` states
  tiling and coalescing only while the table is `Growable`; a full one keeps
  disjointness alone, because the late failure of `spmp_alloc` loses bytes.
  `HandlesInv` relates handles and live blocks both ways and says that two
  handles of a pool differ in their address: without it `spmp_free` could match
  the block of another handle. `StatsInv` counts the handles, which bounds the
  allocations of a behaviour.
* The hard part comes first in the module, about one table and no state. That one pass of
  `pool_coalesce` is enough is the lemma of the two nested loops: at most one free
  block touches others when it starts (`OneHole`, the slot just released), and
  at each pair of slots either nothing was merged yet and no touching pair is
  behind the loops, or at most one touching pair is left and it is still ahead
  (`Pending`). The loops are followed by induction over the slots that remain,
  written out for the two indices. That a refusal means no room is `FreeRun`: a
  run of bytes no live block covers lies in one free block when the table is
  coalesced, so a block that fits the request would have been found.

For every choice of limits, sizes, calls, inputs and addition allowed by
`BvCommConstants`, and every `IsSum` that obeys `SumLaws`:

* `TypeCorrect`, `OwnersSum`, `CollectivesImplemented` (`BvCommProofs`): all three
  properties of the run `bvcomm_collectives`, among them that `BvComm` implements
  `Collectives`. `SumLaws`, a hypothesis of the theorems, says that a term is its
  own sum and that adding the term of one more rank to a sum, `Plus(f[k], x)` as in
  the code, gives a sum. It says nothing of commutativity, association or
  rounding, so f32 addition satisfies it with `IsSum` as "the terms were added one
  after the other in some order"; `MCSumLaws` evaluates it for the
  expressions of the run on small sets.
* The invariant is `Inv`, `TypesInv` and `LoopInv`. For the ring, `LoopInv` counts
  how far a chunk has come: in round `s` a rank at distance `d` (`Dist`) from the
  start of a chunk holds the sum of the ranks up to it when `d <= s`, and its own
  input otherwise (`ReduceSums`), and the inboxes filled in this round hold the
  sum that arrives next (`InboxSums`). Without the inboxes a chunk could be
  overwritten before it is added; `After` names the ranks whose inbox is full.
  `GatherSums` and `InboxOwned` say the same of the all-gather half, where a chunk
  is compared with what its owner holds. `Told`, `Snapped` and `Placed` do it for
  the broadcast and the all-gather.
* The chunks follow each other without gap, cover the region of the call, and fit
  the inbox (`ChunksApart`, `ChunksCover`, `ChunkBounds`), which `max_chunk_bytes`
  and the check in the call are for; so `fabric_dma` never refuses a transfer
  (`MoveFacts`) and its unread answers do no harm. In the refinement a step inside
  a collective is a stutter and its last one is `Collectives!Serve`
  (`AllReduceServes`, `BroadcastServes`, `AllGatherServes`).

For every number of lanes, registers, vector elements and words, every choice of
images, arguments, budgets and arithmetic allowed by `IsaConstants`, `AluClosed`
and `BvrtConstants`, and every bound on calls and instructions:

* `Transparent`, `ReturnsAgree`, `TypeCorrect`, `AddsSerialise` (`BvrtProofs`): all
  safety properties of the run `bvrt_tools`. `BvrtConstants` asks that
  the operands of an image exist (`OperandsExist`): `bvrt.c` checks no register
  number, so other images have no meaning. `AluClosed` says that a result is a
  register's worth of bits, whatever the operation computes.
* `ToolsTransparent` follows from `ReplayInv`: warp and memory are what `insns`
  instructions make of `launched`. What has to be shown is what `FoldLeft`
  computes: its recursive function exists (`HistoryExists`, `FoldingStep`) and one
  more instruction is one more step (`ReplayedSteps`).
* `StacksAgree` follows from `StacksInv`: an unpredicated CALL finds the return
  stacks of all active lanes full or of none (`CallAgrees`), a RET finds all empty
  or none (`ReturnAgrees`), and every other instruction leaves stacks and active
  lanes alone (`ExecuteCases`).
* `TypeOK` follows from `TypesInv`, one lemma for each kind of instruction
  (`ExecuteTyped`). The vector sums are folds whose accumulator must stay a word
  (`AccumulatesTyped`, `AccumulatorExists`); a served lane is in bounds
  (`ServedInBounds`), so no word is made up.
* `AtomicAddsSerialise`: the order is the lanes' own. The module adds up sets of
  lanes, the property sequences of them; that both are the same number is
  `SumRename`, which needs that a sum over a set does not depend on the element
  taken first (`SumRemove`); both are in `Sums`, by a smallest counterexample in
  place of an induction.

For the drivers of `Platform`, one invariant each, preserved by every step of its
driver and trivially by the steps of the others. The queue, for every set of
channels, ranges, messages, ring size, packet size and word size allowed by
`FabricQueueConstants`:

* `QueueTyped`, `QueueInOrder`, `AddressesOwned` (`PlatformProofs`): the types of
  `FabricQueue` and its properties `BytesInOrder` and `NodesOwnAddresses`. The
  invariant `Inv` is `TypesInv`, `RingHolds` and `NodesHold`. `RingHolds` says that
  the ring, read from its head, holds the bytes sent and not received
  (`Holding`), and that its tail is as many places further (`Spans`): without the
  second a send could write over bytes that wait. Both are facts about remainders,
  proved from multiples of the ring size (`ModUnique`). `NodesHold` says that two
  nodes have no address in common unless one ends at the top of the address
  space (`Apart`), and that a node holds what was sent to its base. That a
  transfer ends in its node's window is arithmetic from what `region_valid` compares.

The others, for every value of their parameters allowed by the assumption named:

* `RingNeverOverruns` and `TimesOutAtLastPoll` (`GraphicsConstants`: any ring size and
  number of polls): `RingKeepsPending` and `OnlyLastPollTimesOut`. `RingSound` keeps
  the four positions of the ring in the order head known to the driver, head of the
  device, doorbell, tail (`InOrder`), and says that nothing has moved before the
  driver is attached. Without the doorbell in the chain the device could pass the
  tail; the known head may be late, as an interrupt may be lost, and that is on the
  safe side. `AttachSound` says that a device that is ready is found by the next poll, so the
  polls left when it became ready decide how attaching ends.
* `CyclesWhole` (`TimerConstants`: any width of the low half, any frequencies,
  delays and clock; `MaxNow` only lets the clock pass one low half):
  `CyclesNotTorn`. `ReadSound` states, for each step of a read, how the halves read
  so far relate to the counter at the start of the call and now: when the second
  read of the high half differs, the low half read after it belongs to a round later
  than the start. `DelaySound` follows a delay from its first read to its target.
* `FieldsReadBack` (`RegisterConstants`: every field in play lies within its word):
  `FieldsHold`. `JobSound` says that the word a call in progress has read agrees
  with the register in every field but those of `lost` and `disturbed` (`Kept`), so
  that writing it back costs no other domain.
* `UnmapsUndoMaps` (`MapConstants`: mappings are not empty and lie in the address
  space): `UnmapUndoesMap`. `EntriesApart` has active entries that do not end at the
  top disjoint, and `EntriesCounted` makes the difference of the two counters the
  number of active entries, so what `spmp_unmap` clears is exactly what it counts.
* `CoresArePowered` (`CoreConstants`: the SKUs booted fit the core array, an index is
  within a cluster): `RunningCoresHaveOperatingPoint`. `RunsPowered` goes over the cells
  of the array rather than the cores, because cores of two clusters share cells;
  `CountsKept` has each cluster with the numbers its SKU gives it until one is
  configured, and the cells of `Dealt` keep an operating point whatever happens.
* `CapObeyed` (`PowerConstants`: loads and caps are not negative, custom budgets are
  any unsigned values): `CapHoldsUnderLoad`. The count that `rebalance_budget` looks at
  is not the number of active workloads and no invariant makes it so. What holds is
  `WorkloadsCounted`: it is not zero while one is active, so it is never stale in the
  dangerous direction.
* `AtlasAccounted` (`MemoryConstants`: MVRAM and a request beyond it do not wrap the
  address space): `AtlasAccounts`, the first half of `MemoryAccounted`. `HandlesApart`
  keeps allocations below the next free byte, `ChargesCovered` the sum of what
  contexts are charged below what was handed out; a context that is destroyed gives
  its charge up while its bytes stay taken, hence an inequality.
* `DriversAreTyped`: `DriversTyped`, from all the invariants above (`DriversInv`) and
  the fields they leave out.

For the programs of `Host` (`HostProofs`):

* `KernelsLaunched` (`AssemblerConstants`: limits and sizes are counts, a source is a
  list of lines, a kernel's name is a text without terminator):
  `LaunchRunsNamedKernel`, for every set of sources and all limits. The invariant
  `AsmInv` follows both passes. `InSync` says that they agree on where they are: the
  counter is the number of instruction lines since the directive of the kernel
  (`PlaceOf`), in the first pass as in the second. This is what two passes that must
  count alike come to. `SymsHold` makes each symbol the first label of its name, at
  the place of its line; `ImageHolds` makes the k-th instruction and the k-th kernel
  those of the k-th lines of their kind (`Rank`, `RankTaken`), with branches set from
  the symbols: what `BranchesReachLabels` says of a branch is the symbol's address less
  the branch's own. `ImageSound` lays the names one after the other in the pool, each with
  its terminator, so that reading at the offset that was written gives the name back
  (`NameRead`) and unpacking gives the image back (`Unpacked`); an offset is a sum of
  lengths (`NameOffSum`), a cut file fails the size test. `FileHolds` and
  `SessionHolds` carry this to the launch.
* `CachesKeepPromise` (`CacheConstants`: a cache has a set and a way, lines are
  naturals): `KeepsLastLineOfSet`, that the emulated first-level caches implement
  `LineCache` whatever their associativity. `CachesInv` says that only the first way
  of a set is ever taken; the counters it bounds bound the accesses.
* `TransfersAddUp` (`ServerConstants`: cents are whole numbers, handler threads are
  finitely many): `RequestsAddUp`. `NothingLost` holds for any overlap: the wallet,
  and any value of it a thread still means to store, is at least what was there less
  what was debited. `PaysAlone` and `NotifiesAlone` hold while no two requests of
  that service overlapped: one thread is busy, and its place in the handler says what
  it has read and whether the ledger is one entry behind. `NumbersAsked` bounds the
  numbers handed out by the requests begun.
* `HostIsTyped`: the type invariant `TypeOK` of `Host`, from the three above.

Only model-checked:

* liveness: `CallsReturn`, both properties `RunsReturn`, and `FullRingDrains`. The
  prover reasons neither about fairness nor about ENABLED;
* `LoadsAccountForPool`, the second half of `MemoryAccounted`: it needs of the
  allocator inside `Drive` what `SpmpProofs` shows of `Spmp` itself, and a theorem of
  an instantiated module cannot be cited;
* what the five violated runs are about.

## What is not modelled

* `Spmp`: statistics queries; handles copied by a client; pools larger than the
  4 GiB between pool bases; wrap-around of sizes.
* `Fabric`: refused calls (they change nothing), the counters updated outside
  the lock, and what lies behind bound memory other than plain memory. `FabricQueue`: the totals and the bandwidth and latency queries; and
  `fabric_init` under a live BVComm world, whose transfers would then all be
  refused.
* `Bvrt`: instruction decoding, loading an image while a warp is live, negative
  or unaligned addresses, floating point as such.
* `BvComm`: size arithmetic that wraps, allocation failure, more than one world.
* `CoreEmu`: unaligned addresses and programs that read past memory by a wrapped
  address (their meaning depends on what lies there), compressed mode, control
  registers, statistics and energy, disassembly, failure of `malloc`.
* `Drive`: the command queue, which is written and never read, totals, trim.
* `Atlas`: pinning and render submission, which change nothing, and the queries.
* `CoreDriver`: the SKU W816, and calls that change no state.
* `Gfx`: the wait for idle, performance counters, dump and self test.
* `Bradc`: the lexer, constant data, disassembly. `CacheEmu`: latencies.
* `SocRegisters`: UART, watchdog and interrupt controller, each a single access.
* The components marked `not_modelled` in `PROJECT.json`, each with its reason:
  the assembler repeats the shape of `Bradc`; BVML and BVN are floating point
  around `bvrt_launch`; the image and compression code is arithmetic on buffers;
  links and the NPU write registers and poll; front ends and RTL are outside.

## Plan

1. Proofs: `LoadsAccountForPool`. The lemmas of `SpmpProofs` about one block table
   would have to move to a module over a table's parameters, so that they speak of
   the pools of `Drive` as well as of those of `Spmp`; the invariant would treat
   `loaded` as handles nobody can free.
2. Models, if any more: compressed fetch in `CoreEmu`; launch protocols of BVML
   and BVN over `Bvrt`; copied allocation structs in `Spmp`.
