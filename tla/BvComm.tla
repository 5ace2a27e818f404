------------------------------- MODULE BvComm --------------------------------
(***************************************************************************)
(* The collectives of BVComm (bvlibs/src/bvcomm.c) over fabric_dma. Each     *)
(* rank owns a window: the user buffer, then the inbox in which its left     *)
(* neighbour in the ring leaves a chunk. One step per transfer and per local *)
(* pass over an inbox. The answers of fabric_dma are ignored, as in the code, *)
(* and a transfer that leaves its window is refused without a trace.         *)
(*                                                                         *)
(* Lengths are in f32 words. Addition is the constant Plus: nothing is       *)
(* assumed of it, floating point being neither exact nor associative.        *)
(***************************************************************************)
EXTENDS Integers, FiniteSetsExt

CONSTANTS
  MaxRanks,     \* BVCOMM_MAX_RANKS
  Sizes,        \* the [ranks, buf, scratch] passed to bvcomm_init
  Calls,        \* the collectives that may be called
  Zero,         \* a word of calloc'ed memory
  Input(_, _),  \* Input(r, i): what the host puts in word i of rank r
  Plus(_, _),   \* f32 addition
  IsSum(_, _),  \* IsSum(x, f): x is a sum of the f[r], in some order
  MaxCalls      \* model bound: collectives called

ASSUME BvCommConstants ==
  /\ MaxRanks \in Nat /\ MaxCalls \in Nat
  /\ Sizes \subseteq [ranks : Int, buf : Nat, scratch : Nat]
  /\ \A c \in Calls :
       /\ c.op \in {"allreduce", "broadcast", "allgather"}
       /\ c.off \in Nat /\ c.count \in Nat
       /\ c.op = "broadcast" => c.root \in Int
       /\ c.op = "allgather" => c.out \in Nat

VARIABLES
  world,   \* the sizes of the world, NoWorld when there is none
  mem,     \* mem[r]: the window of rank r
  call,    \* the collective in progress
  stage,   \* the loop it is in
  s, r,    \* the counters of the loop
  status,  \* what the last collective returned
  made,    \* collectives called
  begun,   \* history: the windows when the collective in progress was called
  served   \* history: collectives that returned 0 with something to do

vars == <<world, mem, call, stage, s, r, status, made, begun, served>>

NoWorld == [ranks |-> 0, buf |-> 0, scratch |-> 0]
NoCall == [op |-> "none", off |-> 0, count |-> 0]

n == world.ranks
Ranks == 0 .. n - 1
Window == world.buf + world.scratch
Inbox == world.buf

Init ==
  /\ world = NoWorld
  /\ mem = <<>>
  /\ call = NoCall
  /\ stage = "idle"
  /\ s = 0 /\ r = 0
  /\ status = 0
  /\ made = 0
  /\ begun = <<>>
  /\ served = 0

-----------------------------------------------------------------------------
(* bvcomm_init, bvcomm_destroy, and the host filling the user buffers. The    *)
(* fabric holds one world per process.                                        *)

Create(size) ==
  /\ stage = "idle" /\ world = NoWorld
  /\ size.ranks \in 1 .. MaxRanks /\ size.buf > 0
  /\ world' = size
  /\ mem' = [k \in 0 .. size.ranks - 1 |-> [i \in 0 .. size.buf + size.scratch - 1 |-> Zero]]
  /\ UNCHANGED <<call, stage, s, r, status, made, begun, served>>

Destroy ==
  /\ stage = "idle" /\ world # NoWorld
  /\ world' = NoWorld /\ mem' = <<>>
  /\ UNCHANGED <<call, stage, s, r, status, made, begun, served>>

Fill ==
  /\ stage = "idle" /\ world # NoWorld
  /\ mem' = [k \in Ranks |-> [i \in DOMAIN mem[k] |->
               IF i < world.buf THEN Input(k, i) ELSE mem[k][i]]]
  /\ UNCHANGED <<world, call, stage, s, r, status, made, begun, served>>

-----------------------------------------------------------------------------
(* The operators of the collectives.                                          *)

\* fabric_dma: a memmove between two windows, or nothing.
Moved(from, a, to, b, len) ==
  IF len = 0 \/ a + len > Window \/ b + len > Window THEN mem
  ELSE [mem EXCEPT ![to] = [i \in DOMAIN @ |->
          IF i \in b .. b + len - 1 THEN mem[from][a + (i - b)] ELSE @[i]]]

\* chunk_offsets: the first count % n chunks are one word longer.
ChunkStart(i) == i * (call.count \div n) + Min({i, call.count % n})
Chunk(i) == [at |-> call.off + ChunkStart(i), len |-> ChunkStart(i + 1) - ChunkStart(i)]

\* max_chunk_bytes, in words.
MaxChunk(count) == (count + n - 1) \div n

\* Rank k sends a chunk to the inbox of the next rank.
SentOn(k, chunk) == Moved(k, chunk.at, (k + 1) % n, Inbox, chunk.len)

\* Rank k takes a chunk from its inbox, combining each word with its own.
TakenIn(k, chunk, combine(_, _)) ==
  [mem EXCEPT ![k] = [i \in DOMAIN @ |->
     IF i \in chunk.at .. chunk.at + chunk.len - 1
     THEN combine(@[i], mem[k][Inbox + (i - chunk.at)]) ELSE @[i]]]

-----------------------------------------------------------------------------
(* A call: its checks, and the loop it enters when there is something to do.  *)

Fits(first, len) == first + len <= world.buf

Refused(c) ==
  CASE c.op = "broadcast" /\ c.root \notin Ranks -> -1
    [] c.count = 0 -> 0
    [] ~Fits(c.off, c.count) -> -2
    [] c.op = "allgather" /\ (~Fits(c.out, n * c.count) \/ c.count > world.scratch) -> -2
    [] c.op = "allreduce" /\ n > 1 /\ MaxChunk(c.count) > world.scratch -> -2
    [] OTHER -> 0

\* A ring of one rank has nothing to reduce.
Enters(c) == Refused(c) = 0 /\ c.count > 0 /\ ~(c.op = "allreduce" /\ n = 1)

FirstStage(c) ==
  CASE c.op = "allreduce" -> "reduce_send"
    [] c.op = "broadcast" -> "broadcast"
    [] c.op = "allgather" -> "snapshot"

Begin(c) ==
  /\ stage = "idle" /\ world # NoWorld
  /\ made < MaxCalls /\ made' = made + 1
  /\ IF Enters(c)
     THEN /\ call' = c /\ stage' = FirstStage(c)
          /\ begun' = mem
          /\ UNCHANGED <<status, served>>
     ELSE /\ status' = Refused(c)
          /\ UNCHANGED <<call, stage, begun, served>>
  /\ UNCHANGED <<world, mem, s, r>>

Return ==
  /\ stage' = "idle" /\ call' = NoCall /\ begun' = <<>>
  /\ s' = 0 /\ r' = 0 /\ status' = 0 /\ served' = served + 1
  /\ UNCHANGED <<world, made>>

GoTo(next_stage, next_s, next_r) ==
  /\ stage' = next_stage /\ s' = next_s /\ r' = next_r
  /\ UNCHANGED <<world, call, status, made, begun, served>>

\* Faulty variant: the pass over the ranks ends one too late.
LastRankLate == r = n

LastRank == r = n - 1

\* One iteration of "for r" in the given stage, and where it goes at its end.
ForRanks(st, moved, next) ==
  /\ stage = st
  /\ mem' = moved
  /\ IF LastRank THEN next ELSE GoTo(st, s, r + 1)

-----------------------------------------------------------------------------
(* bvcomm_allreduce_sum_f32.                                                  *)

ReduceSend ==
  ForRanks("reduce_send", SentOn(r, Chunk((r - s + n) % n)), GoTo("reduce_add", s, 0))

\* Faulty variant: the reduction stops one round early.
AfterReduceEarly ==
  IF s + 1 >= n - 2 THEN GoTo("gather_send", 0, 0) ELSE GoTo("reduce_send", s + 1, 0)

AfterReduce ==
  IF s = n - 2 THEN GoTo("gather_send", 0, 0) ELSE GoTo("reduce_send", s + 1, 0)

ReduceAdd ==
  ForRanks("reduce_add", TakenIn(r, Chunk((r - s - 1 + n) % n), Plus), AfterReduce)

GatherSend ==
  ForRanks("gather_send", SentOn(r, Chunk((r - s + 1 + n) % n)), GoTo("gather_copy", s, 0))

GatherCopy ==
  ForRanks("gather_copy", TakenIn(r, Chunk((r - s + n) % n), LAMBDA own, received : received),
           IF s = n - 2 THEN Return ELSE GoTo("gather_send", s + 1, 0))

-----------------------------------------------------------------------------
(* bvcomm_broadcast_f32 and bvcomm_allgather_f32.                             *)

BroadcastTo ==
  ForRanks("broadcast",
           IF r = call.root THEN mem ELSE Moved(call.root, call.off, r, call.off, call.count),
           Return)

Snapshot ==
  ForRanks("snapshot", Moved(r, call.off, r, Inbox, call.count), GoTo("place", 0, 0))

\* Faulty variant: the inputs are read where they lie.
PlaceFromInputs ==
  ForRanks("place", Moved(s, call.off, r, call.out + s * call.count, call.count),
           IF s = n - 1 THEN Return ELSE GoTo("place", s + 1, 0))

\* s is the source and r the destination, which may be the same rank.
Place ==
  ForRanks("place", Moved(s, Inbox, r, call.out + s * call.count, call.count),
           IF s = n - 1 THEN Return ELSE GoTo("place", s + 1, 0))

-----------------------------------------------------------------------------
CollectiveStep ==
  \/ ReduceSend \/ ReduceAdd \/ GatherSend \/ GatherCopy
  \/ BroadcastTo \/ Snapshot \/ Place

Next ==
  \/ \E size \in Sizes : Create(size)
  \/ Destroy \/ Fill
  \/ \E c \in Calls : Begin(c)
  \/ CollectiveStep

Spec == Init /\ [][Next]_vars

-----------------------------------------------------------------------------
(* Properties.                                                               *)

Stages == {"idle", "reduce_send", "reduce_add", "gather_send", "gather_copy",
           "broadcast", "snapshot", "place"}

(* The world has the sizes bvcomm_init accepts, the windows have its sizes,   *)
(* and the loop counters of a collective name ranks.                          *)
TypeOK ==
  /\ world \in Sizes \cup {NoWorld} /\ n \in 0 .. MaxRanks
  /\ DOMAIN mem = Ranks /\ \A k \in Ranks : DOMAIN mem[k] = 0 .. Window - 1
  /\ call \in Calls \cup {NoCall}
  /\ stage \in Stages /\ (stage = "idle" <=> call = NoCall)
  /\ s \in Nat /\ r \in Nat
  /\ stage # "idle" => s \in Ranks /\ r \in Ranks
  /\ status \in {0, -1, -2}
  /\ made \in 0 .. MaxCalls /\ served \in 0 .. made

(* bvcomm.c:134 "Reduce-scatter: after this, rank r owns the full sum for      *)
(* chunk (r + 1) mod n": when the all-gather starts, every input of every      *)
(* rank has reached the owner of its chunk exactly once.                       *)
OwnersHoldSums ==
  stage = "gather_send" /\ s = 0 /\ r = 0 =>
    \A k \in Ranks :
      LET owned == Chunk((k + 1) % n) IN
      \A i \in owned.at .. owned.at + owned.len - 1 :
        IsSum(mem[k][i], [q \in Ranks |-> begun[q][i]])

\* The user buffers, as they stood when the collective in progress was called.
Users(m) == [k \in DOMAIN m |-> [i \in 0 .. world.buf - 1 |-> m[k][i]]]

Promise == INSTANCE Collectives WITH
  user <- Users(IF stage = "idle" THEN mem ELSE begun)

(* What a collective does, whole: the transfers through one inbox per rank     *)
(* amount to one step of Collectives when the call returns 0. No inbox is      *)
(* overwritten before it is taken in, no chunk is counted twice or missed,     *)
(* overlapping regions of an all-gather do not disturb each other, and the     *)
(* transfers whose answers are ignored are never refused.                      *)
CollectivesSpec == Promise!Spec
=============================================================================
