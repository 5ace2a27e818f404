------------------------------- MODULE Fabric -------------------------------
(***************************************************************************)
(* Threads calling fabric_dma, fabric_atomic_add, fabric_atomic_cas and     *)
(* fabric_atomic_exch (drivers/fabric.c) on one struct fabric_channel. A    *)
(* step is one access to shared state: a transfer holds the dma_lock        *)
(* spinlock while it copies word by word and accounts its length; atomics   *)
(* take no lock; a compare-and-swap is an exchange, followed on a mismatch  *)
(* by a second one.                                                         *)
(*                                                                         *)
(* The two nodes are registered and bound before the threads start. A node  *)
(* may be bound to less memory than its window of addresses: a transfer is  *)
(* checked against the window, and only its first byte against the binding, *)
(* so it may go on into the host memory behind the binding. That memory is  *)
(* assumed to be there as far as the window goes, and to be data: not the   *)
(* state of the fabric itself.                                              *)
(*                                                                         *)
(* Calls holds calls that pass the argument checks: a refused call returns  *)
(* an error and changes nothing. Addresses are counted in words; those that *)
(* wrap are in FabricQueue.                                                 *)
(***************************************************************************)
EXTENDS Integers

CONSTANTS
  Threads,   \* the threads sharing the fabric
  NumWords,  \* host memory, in 64-bit words
  SrcNode,   \* src_node of the channel, see NodeType
  DstNode,   \* dst_node of the channel
  Mod,       \* a word holds 0 .. Mod - 1
  Contents,  \* what the host memory holds before the threads start
  Calls,     \* Calls[t]: the calls thread t may make
  MaxCalls   \* model bound: calls per thread

Words == 0 .. NumWords - 1
Values == 0 .. Mod - 1

\* start: the host word its memory begins at; window: the words its addresses
\* cover; bound: the words given to fabric_bind_memory, 0 when it was not called.
NodeType(n) ==
  /\ n.start \in Nat /\ n.window \in Nat /\ n.bound \in 0 .. n.window
  /\ n.start + n.window <= NumWords

\* The whole range lies in the window of the node.
region_valid(n, w, len) == n.start <= w /\ w + len <= n.start + n.window

\* The one address has bound memory behind it.
fabric_translate(n, w) == n.start <= w /\ w < n.start + n.bound

\* [op, src, dst, len, bound], src and dst as host words; bound: both translate.
DmaCall(c) ==
  /\ c.op = "dma"
  /\ c.src \in Words /\ c.dst \in Words /\ c.len \in Nat \ {0}
  /\ region_valid(SrcNode, c.src, c.len) /\ region_valid(DstNode, c.dst, c.len)
  /\ c.bound = (fabric_translate(SrcNode, c.src) /\ fabric_translate(DstNode, c.dst))

\* [op, at, val] and, for a cas, expected. One on no bound memory is refused.
AtomicCall(c) ==
  /\ c.op \in {"add", "exch", "cas"}
  /\ c.at \in Words /\ fabric_translate(DstNode, c.at)
  /\ c.val \in Values

ASSUME FabricConstants ==
  /\ NumWords \in Nat /\ Mod \in Nat \ {0} /\ MaxCalls \in Nat
  /\ NodeType(SrcNode) /\ NodeType(DstNode)
  /\ \A t \in Threads : Calls[t] # {}
  /\ \A t \in Threads : \A c \in Calls[t] : DmaCall(c) \/ AtomicCall(c)

ASSUME BoundContents == Contents \in [Words -> Values]

VARIABLES
  mem,        \* the host memory
  dma_lock,   \* fabric_state.dma_lock
  bytes_tx,   \* the channel's transmit counter
  pc, call,   \* per thread: the next access, and the call being served
  copied,     \* per thread: words memmove has moved
  old,        \* per thread: the value last loaded or exchanged
  prev,       \* per thread: *prev
  made,       \* per thread: calls begun
  at_lock     \* history: memory and bytes_tx when dma_lock was taken

vars == <<mem, dma_lock, bytes_tx, pc, call, copied, old, prev, made, at_lock>>

\* Faulty variant: the sum is kept wider than the word.
Unwrapped(n) == n

\* uint64_t arithmetic.
Wrap(n) == n % Mod

Set(f, x, v) == [f EXCEPT ![x] = v]
GoTo(t, from, to) == pc[t] = from /\ pc' = Set(pc, t, to)

NoTransfer == [mem |-> Contents, bytes |-> 0]

Init ==
  /\ mem = Contents
  /\ dma_lock = FALSE
  /\ bytes_tx = 0
  /\ pc = [t \in Threads |-> "idle"]
  /\ call = [t \in Threads |-> CHOOSE c \in Calls[t] : TRUE]
  /\ copied = [t \in Threads |-> 0]
  /\ old = [t \in Threads |-> 0]
  /\ prev = [t \in Threads |-> 0]
  /\ made = [t \in Threads |-> 0]
  /\ at_lock = NoTransfer

Begin(t, c) ==
  /\ made[t] < MaxCalls
  /\ GoTo(t, "idle", IF c.op = "dma" THEN "spin" ELSE "atomic")
  /\ call' = Set(call, t, c)
  /\ made' = Set(made, t, made[t] + 1)
  /\ UNCHANGED <<mem, dma_lock, bytes_tx, copied, old, prev, at_lock>>

-----------------------------------------------------------------------------
(* fabric_dma.                                                              *)

\* Faulty variant: a plain load and store instead of the test-and-set.
AcquireUntested(t) ==
  /\ GoTo(t, "spin", IF call[t].bound THEN "copy" ELSE "load")
  /\ dma_lock' = TRUE
  /\ copied' = Set(copied, t, 0)
  /\ at_lock' = [mem |-> mem, bytes |-> bytes_tx]
  /\ UNCHANGED <<mem, bytes_tx, call, old, prev, made>>

\* __atomic_test_and_set; when either address does not translate nothing is copied.
Acquire(t) ==
  /\ GoTo(t, "spin", IF call[t].bound THEN "copy" ELSE "load")
  /\ ~dma_lock
  /\ dma_lock' = TRUE
  /\ copied' = Set(copied, t, 0)
  /\ at_lock' = [mem |-> mem, bytes |-> bytes_tx]
  /\ UNCHANGED <<mem, bytes_tx, call, old, prev, made>>

\* Faulty variant: memcpy, which always copies upwards.
UpwardIndex(c, k) == k

\* memmove copies downwards when the destination lies above the source.
WordIndex(c, k) == IF c.dst <= c.src THEN k ELSE c.len - 1 - k

CopyWord(t) ==
  LET c == call[t]
      i == WordIndex(c, copied[t])
  IN /\ GoTo(t, "copy", IF copied[t] + 1 = c.len THEN "load" ELSE "copy")
     /\ mem' = Set(mem, c.dst + i, mem[c.src + i])
     /\ copied' = Set(copied, t, copied[t] + 1)
     /\ UNCHANGED <<dma_lock, bytes_tx, call, old, prev, made, at_lock>>

\* Faulty variant: the lock covers the copy but not the accounting.
LoadBytesUnlocked(t) ==
  /\ GoTo(t, "load", "store")
  /\ old' = Set(old, t, bytes_tx)
  /\ dma_lock' = FALSE
  /\ UNCHANGED <<mem, bytes_tx, call, copied, prev, made, at_lock>>

LoadBytes(t) ==
  /\ GoTo(t, "load", "store")
  /\ old' = Set(old, t, bytes_tx)
  /\ UNCHANGED <<mem, dma_lock, bytes_tx, call, copied, prev, made, at_lock>>

StoreBytes(t) ==
  /\ GoTo(t, "store", "unlock")
  /\ bytes_tx' = old[t] + call[t].len
  /\ UNCHANGED <<mem, dma_lock, call, copied, old, prev, made, at_lock>>

\* Faulty variant: a transfer that moved nothing returns with the lock held.
UnlockAfterCopy(t) ==
  /\ GoTo(t, "unlock", "idle")
  /\ dma_lock' = ~call[t].bound
  /\ at_lock' = NoTransfer
  /\ UNCHANGED <<mem, bytes_tx, call, copied, old, prev, made>>

Unlock(t) ==
  /\ GoTo(t, "unlock", "idle")
  /\ dma_lock' = FALSE
  /\ at_lock' = NoTransfer
  /\ UNCHANGED <<mem, bytes_tx, call, copied, old, prev, made>>

-----------------------------------------------------------------------------
(* The atomics. *prev is written with the access that ends the call.         *)

FetchAdd(t) ==
  LET c == call[t] IN
  /\ c.op = "add" /\ GoTo(t, "atomic", "idle")
  /\ mem' = Set(mem, c.at, Wrap(mem[c.at] + c.val))
  /\ UNCHANGED <<dma_lock, bytes_tx, call, copied, old, prev, made, at_lock>>

Exchange(t) ==
  LET c == call[t] IN
  /\ c.op = "exch" /\ GoTo(t, "atomic", "idle")
  /\ mem' = Set(mem, c.at, c.val)
  /\ prev' = Set(prev, t, mem[c.at])
  /\ UNCHANGED <<dma_lock, bytes_tx, call, copied, old, made, at_lock>>

\* The desired value is stored before the comparison is made.
CasExchange(t) ==
  LET c == call[t]
      found == mem[c.at]
      match == found = c.expected
  IN /\ c.op = "cas" /\ GoTo(t, "atomic", IF match THEN "idle" ELSE "rollback")
     /\ mem' = Set(mem, c.at, c.val)
     /\ old' = Set(old, t, found)
     /\ prev' = IF match THEN Set(prev, t, found) ELSE prev
     /\ UNCHANGED <<dma_lock, bytes_tx, call, copied, made, at_lock>>

\* Faulty variant: the mismatch is reported but the word is not put back.
CasReport(t) ==
  /\ GoTo(t, "rollback", "idle")
  /\ prev' = Set(prev, t, old[t])
  /\ UNCHANGED <<mem, dma_lock, bytes_tx, call, copied, old, made, at_lock>>

CasRollBack(t) ==
  /\ GoTo(t, "rollback", "idle")
  /\ mem' = Set(mem, call[t].at, old[t])
  /\ prev' = Set(prev, t, old[t])
  /\ UNCHANGED <<dma_lock, bytes_tx, call, copied, old, made, at_lock>>

-----------------------------------------------------------------------------
Access(t) ==
  \/ Acquire(t) \/ CopyWord(t) \/ LoadBytes(t) \/ StoreBytes(t) \/ Unlock(t)
  \/ FetchAdd(t) \/ Exchange(t) \/ CasExchange(t) \/ CasRollBack(t)

Next == \E t \in Threads : Access(t) \/ \E c \in Calls[t] : Begin(t, c)

Spec == Init /\ [][Next]_vars

\* A call that has been made is run: the operating system schedules its thread.
FairSpec == Spec /\ \A t \in Threads : WF_vars(Access(t))

-----------------------------------------------------------------------------
(* Properties.                                                              *)

Locations == {"idle", "spin", "copy", "load", "store", "unlock", "atomic", "rollback"}
Transferring == {"copy", "load", "store", "unlock"}
Holder(t) == pc[t] \in Transferring

TypeOK ==
  /\ mem \in [Words -> Values]
  /\ dma_lock \in BOOLEAN
  /\ bytes_tx \in Nat
  /\ pc \in [Threads -> Locations]
  /\ call \in [Threads -> UNION {Calls[t] : t \in Threads}]
  /\ \A t \in Threads : call[t] \in Calls[t]
  /\ copied \in [Threads -> Nat]
  /\ old \in [Threads -> Nat]
  /\ prev \in [Threads -> Values]
  /\ made \in [Threads -> 0 .. MaxCalls]
  /\ at_lock \in [mem : [Words -> Values], bytes : Nat]

\* What a thread is doing agrees with the call it serves.
Serving ==
  \A t \in Threads :
    /\ pc[t] \in {"spin"} \cup Transferring => DmaCall(call[t])
    /\ pc[t] = "copy" => call[t].bound /\ copied[t] < call[t].len
    /\ pc[t] \in {"atomic", "rollback"} => AtomicCall(call[t])
    /\ pc[t] = "rollback" => call[t].op = "cas" /\ old[t] \in Values

(* The spinlock admits one transfer at a time, and is held exactly while one *)
(* is between its test-and-set and its store of 0.                           *)
LockExclusive ==
  /\ \A t, u \in Threads : Holder(t) /\ Holder(u) => t = u
  /\ dma_lock <=> \E t \in Threads : Holder(t)

(* The transfers of fabric_dma are serialised by the lock: when a thread      *)
(* releases it, bytes_tx has grown since it took the lock by its own length,  *)
(* so no concurrent += is lost.                                               *)
TransfersAccounted ==
  \A t \in Threads :
    /\ pc[t] \in {"copy", "load", "store"} => bytes_tx = at_lock.bytes
    /\ pc[t] = "store" => old[t] = at_lock.bytes
    /\ pc[t] = "unlock" => bytes_tx = at_lock.bytes + call[t].len

\* The words a transfer reads or writes.
Region(c) == (c.src .. c.src + c.len - 1) \cup (c.dst .. c.dst + c.len - 1)

\* A word one thread may cas is touched by no other, and a word that transfers
\* touch is touched by no atomic: what the code needs, and does not enforce.
Disciplined(calls) ==
  \A t, u \in Threads : \A c \in calls[t], d \in calls[u] :
    /\ c.op = "dma" /\ d.op # "dma" => d.at \notin Region(c)
    /\ c.op = "cas" /\ d.op # "dma" /\ d.at = c.at => t = u

\* The words a transfer has written: from the bottom up, or from the top down.
Written(t) ==
  LET c == call[t]
  IN IF pc[t] # "copy" THEN IF c.bound THEN c.dst .. c.dst + c.len - 1 ELSE {}
     ELSE IF c.dst <= c.src THEN c.dst .. c.dst + copied[t] - 1
     ELSE c.dst + c.len - copied[t] .. c.dst + c.len - 1

\* During a transfer its written words are those of the source when the lock was
\* taken, and the rest of its region is as it was then.
CopyProgress ==
  \A t \in Threads : Holder(t) =>
    \A w \in Region(call[t]) :
      mem[w] = IF w \in Written(t) THEN at_lock.mem[call[t].src + (w - call[t].dst)]
               ELSE at_lock.mem[w]

InTransfer(w) ==
  \E t \in Threads : Holder(t) /\ w \in call[t].dst .. call[t].dst + call[t].len - 1
RollingBack(t, w) == pc[t] = "rollback" /\ call[t].at = w

SettledAt(w) ==
  IF InTransfer(w) THEN at_lock.mem[w]
  ELSE IF \E t \in Threads : RollingBack(t, w)
       THEN old[CHOOSE t \in Threads : RollingBack(t, w)]
       ELSE mem[w]

settled == [w \in Words |-> SettledAt(w)]
settled_bytes == IF dma_lock THEN at_lock.bytes ELSE bytes_tx

Abstract == INSTANCE FabricMemory WITH
  memory <- settled,
  bytes <- settled_bytes,
  answer <- prev

(* Under the sharing discipline, concurrent calls behave as if each was one   *)
(* step of FabricMemory: a transfer when its lock is released, an atomic at   *)
(* its access, a mismatched compare-and-swap when it has rolled back.         *)
AtomicCallsSpec == Abstract!Spec

(* No call hangs: a thread spinning for the lock gets it and returns, as long *)
(* as each thread makes finitely many calls.                                  *)
CallsReturn == \A t \in Threads : pc[t] # "idle" ~> pc[t] = "idle"
=============================================================================
