-------------------------------- MODULE Spmp --------------------------------
(***************************************************************************)
(* The Super Power Memory Pool allocator (drivers/spmp.c): first-fit        *)
(* allocation over a per-pool block table, block splitting, coalescing on   *)
(* free, and the per-block encryption flag.                                 *)
(*                                                                         *)
(* A block table only ever grows: a block merged away by pool_coalesce      *)
(* leaves a tombstone slot (in_use, size 0, address 0) that nothing reuses. *)
(* Table slots are numbered from 1 here and from 0 in the code.             *)
(***************************************************************************)
EXTENDS Integers, SequencesExt

CONSTANTS
  Clients,      \* owners of a struct spmp_allocation
  PoolConfigs,  \* the pool configurations a client may ask for: [size, encrypt]
  Requests,     \* the <<size, alignment>> pairs passed to spmp_alloc
  BlockAlign,   \* SPMP_BLOCK_ALIGN
  MinBlock,     \* SPMP_MIN_BLOCK
  MaxBlocks,    \* SPMP_MAX_BLOCKS
  MaxPools,     \* SPMP_MAX_POOLS
  AddrBase,     \* SPMP_ADDR_BASE
  PoolStride,   \* distance between the bases of two pools (4 GiB in the code)
  MaxAllocs,    \* model bound: successful spmp_alloc calls in a behaviour
  NoHandle      \* a zeroed struct spmp_allocation

\* A struct spmp_allocation that names a block.
Allocations == [addr : Nat, size : Nat, pool_id : 1 .. MaxPools, encrypted : BOOLEAN]

ASSUME SpmpConstants ==
  /\ {BlockAlign, MinBlock, MaxBlocks, MaxPools, AddrBase, PoolStride} \subseteq Nat \ {0}
  /\ MaxBlocks > 2 /\ MaxAllocs \in Nat
  /\ Requests \subseteq (Nat \ {0}) \X Nat
  /\ \A cfg \in PoolConfigs : cfg.size \in 1 .. PoolStride /\ cfg.encrypt \in BOOLEAN
  /\ IsFiniteSet(Clients) /\ NoHandle \notin Allocations

VARIABLES
  pools,   \* pools[i]: the pool with id i - 1
  handle,  \* handle[c]: the struct spmp_allocation client c holds
  stats    \* the allocs and frees counters of spmp_state

vars == <<pools, handle, stats>>

Block(addr, size, in_use, encrypted) ==
  [addr |-> addr, size |-> size, in_use |-> in_use, encrypted |-> encrypted]

Hole(addr, size) == Block(addr, size, FALSE, FALSE)
Tombstone == Block(0, 0, TRUE, FALSE)

End(b) == b.addr + b.size
Bytes(b) == b.addr .. End(b) - 1
PoolBase(id) == AddrBase + (id - 1) * PoolStride
IsActive(id) == id \in DOMAIN pools /\ pools[id].active
RoundUp(n, align) == ((n + align - 1) \div align) * align
Needed(size) == Max({RoundUp(size, BlockAlign), MinBlock})

AlignedStart(b, alignment) == RoundUp(b.addr, Max({alignment, BlockAlign}))

-----------------------------------------------------------------------------
(* The block table.                                                         *)

\* Faulty variant: live blocks are not skipped.
FitsLive(b, needed, alignment) ==
  End(b) - AlignedStart(b, alignment) >= needed

\* Faulty variant: the bytes skipped to reach the alignment are not deducted.
FitsUnpadded(b, needed, alignment) ==
  /\ ~b.in_use
  /\ b.size >= needed

\* Faulty variant: an exact fit is refused.
FitsStrictly(b, needed, alignment) ==
  /\ ~b.in_use
  /\ End(b) - AlignedStart(b, alignment) > needed

Fits(b, needed, alignment) ==
  /\ ~b.in_use
  /\ End(b) - AlignedStart(b, alignment) >= needed

\* The lowest-numbered slot that fits, or 0: table order, not address order.
BlockNextFree(blocks, needed, alignment) ==
  SelectInSeq(blocks, LAMBDA b : Fits(b, needed, alignment))

\* Faulty variant: the padding before an aligned allocation is dropped.
NoLeadingHole(b, start) == <<>>

LeadingHole(b, start) ==
  IF start > b.addr THEN <<Hole(b.addr, start - b.addr)>> ELSE <<>>

TrailingHole(b, alloc_end) ==
  IF End(b) > alloc_end THEN <<Hole(alloc_end, End(b) - alloc_end)>> ELSE <<>>

Adjacent(a, b) == ~a.in_use /\ ~b.in_use /\ End(a) = b.addr

\* The lower block grows by the higher one, whose slot is left as a tombstone.
Absorbed(blocks, lower, higher) ==
  [blocks EXCEPT ![lower].size = @ + blocks[higher].size, ![higher] = Tombstone]

\* One iteration of the inner loop.
MergePair(blocks, i, j) ==
  CASE i # j /\ Adjacent(blocks[i], blocks[j]) -> Absorbed(blocks, i, j)
    [] i # j /\ Adjacent(blocks[j], blocks[i]) -> Absorbed(blocks, j, i)
    [] OTHER -> blocks

\* Faulty variant: each block looks only at the slots after it.
CoalesceForward(blocks) ==
  FoldLeftDomain(LAMBDA bs, i :
    FoldLeftDomain(LAMBDA cs, j : IF i < j THEN MergePair(cs, i, j) ELSE cs, bs, bs),
    blocks, blocks)

\* The inner loop of pool_coalesce for slot i, and the outer one.
MergeSlot(blocks, i) ==
  LET after[j \in 0 .. Len(blocks)] ==
        IF j = 0 THEN blocks ELSE MergePair(after[j - 1], i, j)
  IN after[Len(blocks)]

PoolCoalesce(blocks) ==
  LET after[i \in 0 .. Len(blocks)] ==
        IF i = 0 THEN blocks ELSE MergeSlot(after[i - 1], i)
  IN after[Len(blocks)]

\* Faulty variant: the flag of the owner survives the free.
ReleasedStillEncrypted(p, i) == [p.blocks EXCEPT ![i].in_use = FALSE]

Released(p, i) == [p.blocks EXCEPT ![i].in_use = FALSE, ![i].encrypted = FALSE]

\* Faulty variant: the size is read back after the merge has changed the slot.
UsedReadAfterMerge(p, i) == p.used - PoolCoalesce(Released(p, i))[i].size

UsedAfterFree(p, i) == p.used - p.blocks[i].size

SlotOf(h, blocks) ==
  SelectInSeq(blocks, LAMBDA b : b.in_use /\ b.addr = h.addr /\ b.size = h.size)

\* The struct c holds names an allocation of a pool that still exists.
Holds(c) == handle[c] # NoHandle /\ IsActive(handle[c].pool_id)

-----------------------------------------------------------------------------
(* Operations.                                                              *)

Init ==
  /\ pools = <<>>
  /\ handle = [c \in Clients |-> NoHandle]
  /\ stats = [allocs |-> 0, frees |-> 0]

PoolCreate(cfg) ==
  /\ Len(pools) < MaxPools
  /\ pools' = Append(pools,
       [size |-> cfg.size, encrypt |-> cfg.encrypt, active |-> TRUE, used |-> 0,
        blocks |-> <<Block(PoolBase(Len(pools) + 1), cfg.size, FALSE, cfg.encrypt)>>])
  /\ UNCHANGED <<handle, stats>>

PoolDestroy(id) ==
  /\ IsActive(id)
  /\ pools' = [pools EXCEPT ![id].active = FALSE, ![id].blocks = <<>>, ![id].used = 0]
  /\ UNCHANGED <<handle, stats>>

\* spmp_alloc past its argument checks, with a free slot and a block that fits.
\* When the table fills between the leading and the trailing hole the call
\* fails with -ENOSPC and leaves the leading hole it has already written.
Alloc(c, id, size, alignment) ==
  /\ IsActive(id) /\ ~Holds(c) /\ stats.allocs < MaxAllocs
  /\ Len(pools[id].blocks) < MaxBlocks
  /\ LET p == pools[id]
         needed == Needed(size)
         i == BlockNextFree(p.blocks, needed, alignment)
     IN /\ i # 0
        /\ LET b == p.blocks[i]
               start == AlignedStart(b, alignment)
               split == p.blocks \o LeadingHole(b, start)
               table == split \o TrailingHole(b, start + needed)
           IN IF Len(table) > MaxBlocks
              THEN /\ pools' = [pools EXCEPT ![id].blocks = split]
                   /\ UNCHANGED <<handle, stats>>
              ELSE /\ pools' = [pools EXCEPT
                        ![id].blocks = [table EXCEPT
                            ![i] = Block(start, needed, TRUE, b.encrypted)],
                        ![id].used = @ + needed]
                   /\ handle' = [handle EXCEPT ![c] =
                        [addr |-> start, size |-> needed, pool_id |-> id,
                         encrypted |-> p.encrypt]]
                   /\ stats' = [stats EXCEPT !.allocs = @ + 1]

\* A zeroed handle is refused with -EINVAL, as is one whose pool is destroyed.
Free(c) ==
  LET h == handle[c] IN
  /\ Holds(c)
  /\ LET p == pools[h.pool_id]
         i == SlotOf(h, p.blocks)
     IN /\ i # 0
        /\ pools' = [pools EXCEPT ![h.pool_id].blocks = PoolCoalesce(Released(p, i)),
                                  ![h.pool_id].used = UsedAfterFree(p, i)]
        /\ handle' = [handle EXCEPT ![c] = NoHandle]
        /\ stats' = [stats EXCEPT !.frees = @ + 1]

BlocksContaining(id, addr) ==
  {i \in DOMAIN pools[id].blocks :
     LET b == pools[id].blocks[i] IN b.in_use /\ addr \in b.addr .. End(b) - 1}

\* spmp_encrypt and spmp_decrypt flag the first live block around the address,
\* pools in id order; an address in no live block is -ENOENT.
SetEncryption(addr, on) ==
  LET hits == {id \in DOMAIN pools : BlocksContaining(id, addr) # {}}
      hit == Min(hits)
  IN
  /\ hits # {}
  /\ pools' = [pools EXCEPT ![hit].blocks[Min(BlocksContaining(hit, addr))].encrypted = on]
  /\ UNCHANGED <<handle, stats>>

EncryptDecrypt ==
  \E c \in Clients, on \in BOOLEAN :
    handle[c] # NoHandle /\ SetEncryption(handle[c].addr, on)

Next ==
  \/ \E cfg \in PoolConfigs : PoolCreate(cfg)
  \/ \E id \in 1 .. MaxPools : PoolDestroy(id)
  \/ \E c \in Clients, id \in 1 .. MaxPools, r \in Requests : Alloc(c, id, r[1], r[2])
  \/ \E c \in Clients : Free(c)
  \/ EncryptDecrypt

Spec == Init /\ [][Next]_vars

-----------------------------------------------------------------------------
(* Properties.                                                              *)

BlockRecord == [addr : Nat, size : Nat, in_use : BOOLEAN, encrypted : BOOLEAN]

TypeOK ==
  /\ \A id \in DOMAIN pools :
       /\ pools[id].size \in Nat /\ pools[id].used \in Nat
       /\ pools[id].active \in BOOLEAN /\ pools[id].encrypt \in BOOLEAN
       /\ pools[id].blocks \in Seq(BlockRecord) /\ Len(pools[id].blocks) <= MaxBlocks
  /\ Len(pools) <= MaxPools
  /\ handle \in [Clients -> {NoHandle} \cup Allocations]
  /\ stats \in [allocs : 0 .. MaxAllocs, frees : 0 .. MaxAllocs]

Solid(blocks) == {i \in DOMAIN blocks : blocks[i].size > 0}
Live(blocks) == {i \in Solid(blocks) : blocks[i].in_use}
Growable(blocks) == Len(blocks) < MaxBlocks
Disjoint(a, b) == End(a) <= b.addr \/ End(b) <= a.addr
BytesOf(blocks, slots) == UNION {Bytes(blocks[i]) : i \in slots}

(* spmp_alloc never hands out bytes that another live allocation owns, that   *)
(* the table also calls free, or that lie outside the pool, whatever the      *)
(* sequence of splits, merges and failed calls before it.                     *)
LiveDisjoint ==
  \A id \in DOMAIN pools :
    LET blocks == pools[id].blocks IN
    \A i \in Live(blocks) :
      /\ PoolBase(id) <= blocks[i].addr /\ End(blocks[i]) <= PoolBase(id) + pools[id].size
      /\ \A j \in Solid(blocks) \ {i} : Disjoint(blocks[i], blocks[j])

(* Until the table is full, the blocks tile the pool: no byte is lost by a    *)
(* split or a merge and none is counted twice. (The -ENOSPC path between the  *)
(* two holes breaks this, but only once no allocation can follow.)            *)
TilesUntilFull ==
  \A id \in DOMAIN pools :
    LET blocks == pools[id].blocks IN
    IsActive(id) /\ Growable(blocks) =>
      /\ BytesOf(blocks, Solid(blocks)) = PoolBase(id) .. PoolBase(id) + pools[id].size - 1
      /\ \A i, j \in Solid(blocks) : i # j => Disjoint(blocks[i], blocks[j])

(* One pass of pool_coalesce after each free is enough, in whatever slots the *)
(* neighbours lie: no two free blocks of a growable pool touch.               *)
FullyCoalesced ==
  \A id \in DOMAIN pools :
    LET blocks == pools[id].blocks IN
    Growable(blocks) => \A i, j \in Solid(blocks) : ~Adjacent(blocks[i], blocks[j])

(* Clients, table and the used counter spmp_query_stats reports agree: every  *)
(* struct spmp_allocation a client may still free is one live block, no two   *)
(* share a block, no live block is orphan, and used counts their bytes.       *)
HandlesMatchLiveBlocks ==
  \A id \in DOMAIN pools :
    LET blocks == pools[id].blocks
        held == {c \in Clients : Holds(c) /\ handle[c].pool_id = id}
        slot(c) == SlotOf(handle[c], blocks)
    IN /\ pools[id].used = Cardinality(BytesOf(blocks, Live(blocks)))
       /\ IsActive(id) => /\ {slot(c) : c \in held} = Live(blocks)
                          /\ \A c, d \in held : c # d => slot(c) # slot(d)

(* No owner's BradSec-RAM state outlives its free: of the free blocks only    *)
(* the one seeded by spmp_pool_create may be flagged encrypted.               *)
FreeForgetsEncryption ==
  \A id \in DOMAIN pools :
    LET blocks == pools[id].blocks IN
    \A i \in Solid(blocks) \ Live(blocks) :
      blocks[i].encrypted => Len(blocks) = 1 /\ pools[id].encrypt

(* -ENOMEM means the pool has no room: until the table is full, a request is  *)
(* refused only if no aligned run of bytes free of live blocks could hold it. *)
RefusedOnlyWhenNoRoom ==
  \A id \in DOMAIN pools, r \in Requests :
    LET blocks == pools[id].blocks IN
    IsActive(id) /\ BlockNextFree(blocks, Needed(r[1]), r[2]) = 0 /\ Growable(blocks) =>
      \A a \in PoolBase(id) .. PoolBase(id) + pools[id].size - Needed(r[1]) :
        a % Max({r[2], BlockAlign}) = 0 =>
          \E i \in Live(blocks) : ~Disjoint(Hole(a, Needed(r[1])), blocks[i])

(* test_spmp.c:37 "Free + reuse works.": a pool whose every block was freed   *)
(* serves again what a new pool of its size would serve.                      *)
FreedPoolIsReusable ==
  \A id \in DOMAIN pools, r \in Requests :
    LET fresh == Block(PoolBase(id), pools[id].size, FALSE, FALSE)
        blocks == pools[id].blocks IN
    IsActive(id) /\ pools[id].used = 0 /\ Fits(fresh, Needed(r[1]), r[2]) =>
      Growable(blocks) /\ BlockNextFree(blocks, Needed(r[1]), r[2]) # 0
=============================================================================
