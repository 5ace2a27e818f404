------------------------------- MODULE Drive ---------------------------------
(***************************************************************************)
(* The BradDrive driver (drivers/braddrive.c) on the allocator of module     *)
(* Spmp. brad_drive_direct_load allocates a block of a pool, moves sectors   *)
(* into it over the fabric and frees it again if the transfer fails, while   *)
(* other clients allocate, free and destroy pools: every call of SPMP is one *)
(* step. On success the caller gets the address and nobody keeps the struct. *)
(*                                                                         *)
(* drive is the part of drive_state that later calls read; loaded is history:*)
(* the allocations whose address a direct load returned. The command queue,  *)
(* which is only written, and the byte and command totals are left out.     *)
(***************************************************************************)
EXTENDS Integers, FiniteSetsExt, SequencesExt

CONSTANTS
  Clients, PoolConfigs, Requests, BlockAlign, MinBlock, MaxBlocks, MaxPools,
  AddrBase, PoolStride, MaxAllocs, NoHandle,   \* of module Spmp
  DriveClient,  \* the struct spmp_allocation in the frame of a direct load
  Lbas, Counts, \* the sectors asked for
  SectorSize,   \* BRAD_DRIVE_SECTOR_SIZE
  Page,         \* the alignment of a direct load
  Sectors,      \* the capacity of the tier in sectors
  CacheLines,   \* BRAD_DRIVE_CACHE_LINES
  IntMax,       \* 2^31 - 1
  Wrap          \* 2^64

VARIABLES drive, loaded, pools, handle, stats

driveVars == <<drive, loaded, pools, handle, stats>>

Pool == INSTANCE Spmp

poolVars == <<pools, handle, stats>>

Fresh(ready) == [ready |-> ready, recent |-> <<>>, dirty |-> FALSE]

Init == drive = Fresh(FALSE) /\ loaded = {} /\ Pool!Init

\* brad_drive_init.
Start == drive' = Fresh(TRUE) /\ UNCHANGED <<loaded, poolVars>>

Bytes(count) == (count * SectorSize) % Wrap

\* is_valid_lba: the sum is a word.
ValidLba(lba, count) == count > 0 /\ (lba + count) % Wrap <= Sectors

Read(lba, count) ==
  /\ drive.ready /\ ValidLba(lba, count)
  /\ drive' = [drive EXCEPT !.recent = IF Len(@) < CacheLines THEN Append(@, lba) ELSE @]
  /\ UNCHANGED <<loaded, poolVars>>

Write(lba, count) ==
  /\ drive.ready /\ ValidLba(lba, count)
  /\ drive' = [drive EXCEPT !.dirty = TRUE]
  /\ UNCHANGED <<loaded, poolVars>>

Flush == drive.ready /\ drive' = [drive EXCEPT !.dirty = FALSE] /\ UNCHANGED <<loaded, poolVars>>

\* brad_drive_neuro_predict, for room predictions.
Predicted(lba, room) ==
  LET seen == SubSeq(drive.recent, 1, Min({room, Len(drive.recent)}))
  IN IF seen = <<>> /\ room > 0 THEN <<(lba + 1) % Wrap>>
     ELSE [i \in DOMAIN seen |-> (seen[i] + 1) % Wrap]

\* The first half of a direct load. Id 0, the first pool created, is refused.
Load(count, id) ==
  /\ drive.ready /\ id # 1 /\ Bytes(count) > 0
  /\ Pool!Alloc(DriveClient, id, Bytes(count), Page)
  /\ UNCHANGED <<drive, loaded>>

\* What fabric_dma answers: any error, or the length as an int.
Negative(len) == len % (2 * (IntMax + 1)) > IntMax

Loaded(count) ==
  /\ Pool!Holds(DriveClient) /\ ~Negative(Bytes(count))
  /\ Pool!Needed(Bytes(count)) = handle[DriveClient].size
  /\ loaded' = loaded \cup {handle[DriveClient]}
  /\ handle' = [handle EXCEPT ![DriveClient] = NoHandle]
  /\ UNCHANGED <<drive, pools, stats>>

\* Faulty variant: the block is not freed.
LoadFailedLeaking ==
  /\ Pool!Holds(DriveClient) /\ handle' = [handle EXCEPT ![DriveClient] = NoHandle]
  /\ UNCHANGED <<drive, loaded, pools, stats>>

LoadFailed == Pool!Free(DriveClient) /\ UNCHANGED <<drive, loaded>>

\* The pool was destroyed during the transfer: the result of spmp_free is ignored.
LoadLost ==
  /\ handle[DriveClient] # NoHandle /\ ~Pool!Holds(DriveClient)
  /\ handle' = [handle EXCEPT ![DriveClient] = NoHandle]
  /\ \E done \in BOOLEAN :
       loaded' = IF done THEN loaded \cup {handle[DriveClient]} ELSE loaded
  /\ UNCHANGED <<drive, pools, stats>>

Others ==
  /\ \/ \E cfg \in PoolConfigs : Pool!PoolCreate(cfg)
     \/ \E id \in 1 .. MaxPools : Pool!PoolDestroy(id)
     \/ \E c \in Clients \ {DriveClient} :
          \/ \E id \in 1 .. MaxPools, r \in Requests : Pool!Alloc(c, id, r[1], r[2])
          \/ Pool!Free(c)
  /\ UNCHANGED <<drive, loaded>>

Next ==
  \/ Start \/ Flush \/ LoadFailed \/ LoadLost \/ Others
  \/ \E lba \in Lbas, count \in Counts : Read(lba, count) \/ Write(lba, count)
  \/ \E count \in Counts : Loaded(count) \/ \E id \in 1 .. MaxPools : Load(count, id)

Spec == Init /\ [][Next]_driveVars

-----------------------------------------------------------------------------
(* Correctness.                                                             *)

\* The driver's state is of its types, and a prediction fits the caller's array
\* (drivers/braddrive.c).
TypeOK ==
  /\ drive.dirty \in BOOLEAN /\ Len(drive.recent) <= CacheLines
  /\ \A lba \in Lbas, room \in 0 .. 2 : Len(Predicted(lba, room)) <= room

Owned(id) ==
  {h \in loaded \cup {handle[c] : c \in {d \in Clients : Pool!Holds(d)}} : h.pool_id = id}

\* A pool that direct loads share with other clients holds exactly what its clients
\* hold, the loads that succeeded and the one in flight, and its used counter says
\* so: a load whose transfer fails leaves nothing behind, whatever was allocated and
\* freed around it during the transfer (brad_drive_direct_load).
LoadsAccountForPool ==
  \A id \in DOMAIN pools : Pool!IsActive(id) =>
    /\ {<<pools[id].blocks[i].addr, pools[id].blocks[i].size>> : i \in Pool!Live(pools[id].blocks)}
         = {<<h.addr, h.size>> : h \in Owned(id)}
    /\ pools[id].used = MapThenSumSet(LAMBDA h : h.size, Owned(id))
=============================================================================
