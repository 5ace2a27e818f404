---------------------------- MODULE FabricProofs ----------------------------
(***************************************************************************)
(* Proofs about concurrent fabric calls, for any set of threads, memory     *)
(* size and choice of calls: their invariants, and that calls which keep to *)
(* the sharing discipline implement the atomic calls of FabricMemory.       *)
(***************************************************************************)
EXTENDS Fabric, TLAPS

IInv == TypeOK /\ Serving /\ LockExclusive /\ TransfersAccounted

\* region_valid holds a transfer to the host memory behind the two windows.
LEMMA TransferInWindows ==
  ASSUME NEW c, DmaCall(c)
  PROVE  /\ c.src \in Nat /\ c.dst \in Nat /\ c.len \in Nat \ {0} /\ c.bound \in BOOLEAN
         /\ c.src + c.len <= NumWords /\ c.dst + c.len <= NumWords
<1>1. /\ c.src \in Nat /\ c.dst \in Nat /\ c.len \in Nat \ {0}
      /\ c.src + c.len <= NumWords /\ c.dst + c.len <= NumWords
  BY FabricConstants DEF DmaCall, Words, NodeType, region_valid
<1>2. c.bound \in BOOLEAN
  BY DEF DmaCall
<1>3. QED
  BY <1>1, <1>2

LEMMA WordIndexInRange ==
  ASSUME NEW c, DmaCall(c), NEW k \in Nat, k < c.len
  PROVE  /\ WordIndex(c, k) \in 0 .. c.len - 1
         /\ c.src + WordIndex(c, k) \in Words
         /\ c.dst + WordIndex(c, k) \in Words
  BY FabricConstants, TransferInWindows DEF WordIndex, Words

LEMMA InitIInv == Init => IInv
<1> SUFFICES ASSUME Init PROVE IInv
  OBVIOUS
<1>1. \A t \in Threads : (CHOOSE c \in Calls[t] : TRUE) \in Calls[t]
  BY FabricConstants
<1>2. 0 \in Values
  BY FabricConstants DEF Values
<1>3. at_lock \in [mem : [Words -> Values], bytes : Nat]
  BY BoundContents DEF Init, NoTransfer
<1>4. call \in [Threads -> UNION {Calls[t] : t \in Threads}]
  BY <1>1 DEF Init
<1>5. TypeOK
  <2>1. mem \in [Words -> Values] /\ prev \in [Threads -> Values]
    BY <1>2, BoundContents DEF Init
  <2>2. made \in [Threads -> 0 .. MaxCalls] /\ pc \in [Threads -> Locations]
    BY FabricConstants DEF Init, Locations
  <2>3. \A t \in Threads : call[t] \in Calls[t]
    BY <1>1 DEF Init
  <2>4. QED
    BY <1>3, <1>4, <2>1, <2>2, <2>3 DEF Init, TypeOK
<1>6. QED
  BY <1>5 DEF Init, IInv, Serving, LockExclusive, TransfersAccounted, Holder, Transferring

LEMMA StepIInv == IInv /\ [Next]_vars => IInv'
<1> SUFFICES ASSUME IInv, [Next]_vars PROVE IInv'
  OBVIOUS
<1> USE FabricConstants
<1>1. ASSUME NEW t \in Threads, NEW c \in Calls[t], Begin(t, c) PROVE IInv'
  <2>1. TypeOK'
    BY <1>1 DEF IInv, TypeOK, Begin, GoTo, Set, Locations
  <2>2. Serving'
    BY <1>1 DEF IInv, TypeOK, Serving, Begin, GoTo, Set, DmaCall, AtomicCall, Transferring
  <2>3. LockExclusive'
    BY <1>1 DEF IInv, TypeOK, LockExclusive, Begin, GoTo, Set, Holder, Transferring
  <2>4. TransfersAccounted'
    BY <1>1 DEF IInv, TypeOK, TransfersAccounted, Begin, GoTo, Set
  <2>5. QED
    BY <2>1, <2>2, <2>3, <2>4 DEF IInv
<1>2. ASSUME NEW t \in Threads, Acquire(t) PROVE IInv'
  <2>1. TypeOK'
    BY <1>2 DEF IInv, TypeOK, Acquire, GoTo, Set, Locations
  <2>2. Serving'
    BY <1>2 DEF IInv, TypeOK, Serving, Acquire, GoTo, Set, DmaCall, Transferring
  <2>3. LockExclusive'
    BY <1>2 DEF IInv, TypeOK, LockExclusive, Acquire, GoTo, Set, Holder, Transferring
  <2>4. TransfersAccounted'
    BY <1>2 DEF IInv, TypeOK, LockExclusive, TransfersAccounted, Acquire, GoTo, Set,
                Holder, Transferring
  <2>5. QED
    BY <2>1, <2>2, <2>3, <2>4 DEF IInv
<1>3. ASSUME NEW t \in Threads, CopyWord(t) PROVE IInv'
  <2>1. DmaCall(call[t]) /\ copied[t] \in Nat /\ copied[t] < call[t].len
    BY <1>3 DEF IInv, TypeOK, Serving, CopyWord, GoTo, Transferring
  <2> DEFINE i == WordIndex(call[t], copied[t])
  <2>2. call[t].src + i \in Words /\ call[t].dst + i \in Words
    BY <2>1, WordIndexInRange
  <2>3. TypeOK'
    <3>1. mem' \in [Words -> Values]
      BY <1>3, <2>2 DEF IInv, TypeOK, CopyWord, Set
    <3>2. QED
      BY <1>3, <2>1, <3>1 DEF IInv, TypeOK, CopyWord, GoTo, Set, Locations
  <2>4. Serving'
    <3> SUFFICES ASSUME NEW u \in Threads
                 PROVE  /\ pc'[u] \in {"spin"} \cup Transferring => DmaCall(call[u])
                        /\ pc'[u] = "copy" => call[u].bound /\ copied'[u] < call[u].len
                        /\ pc'[u] \in {"atomic", "rollback"} => AtomicCall(call[u])
                        /\ pc'[u] = "rollback" => call[u].op = "cas" /\ old[u] \in Values
      BY <1>3 DEF Serving, CopyWord, DmaCall, AtomicCall
    <3>1. CASE u = t
      <4>1. call[t].len \in Nat /\ call[t].bound
        BY <1>3, <2>1 DEF IInv, Serving, CopyWord, GoTo, DmaCall
      <4>2. pc'[t] \in {"load", "copy"}
        BY <1>3 DEF IInv, TypeOK, CopyWord, GoTo, Set
      <4>3. pc'[t] = "copy" => copied'[t] < call[t].len
        <5>1. copied'[t] = copied[t] + 1
          BY <1>3 DEF IInv, TypeOK, CopyWord, Set
        <5>2. copied[t] + 1 = call[t].len => pc'[t] = "load"
          BY <1>3 DEF IInv, TypeOK, CopyWord, GoTo, Set
        <5>3. QED
          BY <2>1, <4>1, <5>1, <5>2
      <4>4. QED
        BY <2>1, <3>1, <4>1, <4>2, <4>3 DEF Transferring
    <3>2. CASE u # t
      BY <1>3, <3>2 DEF IInv, TypeOK, Serving, CopyWord, GoTo, Set
    <3>3. QED
      BY <3>1, <3>2
  <2>5. LockExclusive'
    BY <1>3 DEF IInv, TypeOK, LockExclusive, CopyWord, GoTo, Set, Holder, Transferring
  <2>6. TransfersAccounted'
    BY <1>3 DEF IInv, TypeOK, TransfersAccounted, CopyWord, GoTo, Set
  <2>7. QED
    BY <2>3, <2>4, <2>5, <2>6 DEF IInv
<1>4. ASSUME NEW t \in Threads, LoadBytes(t) PROVE IInv'
  <2>1. TypeOK'
    BY <1>4 DEF IInv, TypeOK, LoadBytes, GoTo, Set, Locations
  <2>2. Serving'
    BY <1>4 DEF IInv, TypeOK, Serving, LoadBytes, GoTo, Set, Transferring
  <2>3. LockExclusive'
    BY <1>4 DEF IInv, TypeOK, LockExclusive, LoadBytes, GoTo, Set, Holder, Transferring
  <2>4. TransfersAccounted'
    BY <1>4 DEF IInv, TypeOK, TransfersAccounted, LoadBytes, GoTo, Set
  <2>5. QED
    BY <2>1, <2>2, <2>3, <2>4 DEF IInv
<1>5. ASSUME NEW t \in Threads, StoreBytes(t) PROVE IInv'
  <2>1. DmaCall(call[t])
    BY <1>5 DEF IInv, Serving, StoreBytes, GoTo, Transferring
  <2>2. TypeOK'
    BY <1>5, <2>1 DEF IInv, TypeOK, StoreBytes, GoTo, Set, Locations, DmaCall
  <2>3. Serving'
    BY <1>5 DEF IInv, TypeOK, Serving, StoreBytes, GoTo, Set, Transferring
  <2>4. LockExclusive'
    BY <1>5 DEF IInv, TypeOK, LockExclusive, StoreBytes, GoTo, Set, Holder, Transferring
  <2>5. TransfersAccounted'
    BY <1>5 DEF IInv, TypeOK, LockExclusive, TransfersAccounted, StoreBytes, GoTo, Set,
                Holder, Transferring
  <2>6. QED
    BY <2>2, <2>3, <2>4, <2>5 DEF IInv
<1>6. ASSUME NEW t \in Threads, Unlock(t) PROVE IInv'
  <2>1. TypeOK'
    <3>1. NoTransfer \in [mem : [Words -> Values], bytes : Nat]
      BY BoundContents DEF NoTransfer
    <3>2. QED
      BY <1>6, <3>1 DEF IInv, TypeOK, Unlock, GoTo, Set, Locations
  <2>2. Serving'
    BY <1>6 DEF IInv, TypeOK, Serving, Unlock, GoTo, Set, Transferring
  <2>3. LockExclusive'
    BY <1>6 DEF IInv, TypeOK, LockExclusive, Unlock, GoTo, Set, Holder, Transferring
  <2>4. TransfersAccounted'
    BY <1>6 DEF IInv, TypeOK, LockExclusive, TransfersAccounted, Unlock, GoTo, Set,
                Holder, Transferring
  <2>5. QED
    BY <2>1, <2>2, <2>3, <2>4 DEF IInv
<1>7. ASSUME NEW t \in Threads, FetchAdd(t) \/ Exchange(t) \/ CasExchange(t) \/ CasRollBack(t)
      PROVE IInv'
  <2>1. AtomicCall(call[t])
    BY <1>7 DEF IInv, Serving, FetchAdd, Exchange, CasExchange, CasRollBack, GoTo
  <2>2. TypeOK'
    <3>1. CASE FetchAdd(t)
      BY <2>1, <3>1 DEF IInv, TypeOK, FetchAdd, GoTo, Set, Locations, AtomicCall, Values, Wrap
    <3>2. CASE Exchange(t)
      BY <2>1, <3>2 DEF IInv, TypeOK, Exchange, GoTo, Set, Locations, AtomicCall
    <3>3. CASE CasExchange(t)
      BY <2>1, <3>3 DEF IInv, TypeOK, CasExchange, GoTo, Set, Locations, AtomicCall, Values
    <3>4. CASE CasRollBack(t)
      BY <2>1, <3>4 DEF IInv, TypeOK, Serving, CasRollBack, GoTo, Set, Locations, AtomicCall
    <3>5. QED
      BY <1>7, <3>1, <3>2, <3>3, <3>4
  <2>3. Serving'
    BY <1>7, <2>1 DEF IInv, TypeOK, Serving, FetchAdd, Exchange, CasExchange, CasRollBack,
                      GoTo, Set, AtomicCall, Transferring
  <2>4. LockExclusive'
    <3>1. dma_lock' = dma_lock /\ pc' \in [Threads -> Locations]
      BY <1>7, <2>2 DEF TypeOK, FetchAdd, Exchange, CasExchange, CasRollBack
    <3>2. ~Holder(t) /\ ~Holder(t)' /\ \A u \in Threads \ {t} : pc'[u] = pc[u]
      BY <1>7 DEF IInv, TypeOK, FetchAdd, Exchange, CasExchange, CasRollBack, GoTo, Set, Holder,
                  Transferring
    <3>3. \A u \in Threads : Holder(u)' <=> Holder(u)
      BY <3>2 DEF Holder
    <3>4. QED
      BY <3>1, <3>3, Zenon DEF IInv, LockExclusive
  <2>5. TransfersAccounted'
    BY <1>7 DEF IInv, TypeOK, TransfersAccounted, FetchAdd, Exchange, CasExchange,
                CasRollBack, GoTo, Set
  <2>6. QED
    BY <2>2, <2>3, <2>4, <2>5 DEF IInv
<1>8. CASE UNCHANGED vars
  BY <1>8 DEF IInv, TypeOK, Serving, LockExclusive, TransfersAccounted, Holder, vars
<1>9. QED
  BY <1>1, <1>2, <1>3, <1>4, <1>5, <1>6, <1>7, <1>8 DEF Next, Access

LEMMA Invariance == Spec => []IInv
  BY InitIInv, StepIInv, PTL DEF Spec

(* Every state of concurrent DMA and atomic calls is well typed: words keep   *)
(* their width, and region_valid holds each copy to the host memory behind    *)
(* the windows of the two nodes. It does not hold it to what is bound of it.  *)
THEOREM TypeCorrect == Spec => []TypeOK
<1>1. IInv => TypeOK
  BY DEF IInv
<1>2. QED
  BY <1>1, Invariance, PTL

(* The dma_lock spinlock of fabric_dma is a mutual exclusion lock.            *)
THEOREM MutualExclusion == Spec => []LockExclusive
<1>1. IInv => LockExclusive
  BY DEF IInv
<1>2. QED
  BY <1>1, Invariance, PTL

(* No transfer's share of bytes_tx is lost to a concurrent one.               *)
THEOREM NoLostAccounting == Spec => []TransfersAccounted
<1>1. IInv => TransfersAccounted
  BY DEF IInv
<1>2. QED
  BY <1>1, Invariance, PTL

-----------------------------------------------------------------------------
(* Refinement: the atomic calls of FabricMemory.                            *)

\* Only a mismatch is rolled back.
Mismatched == \A t \in Threads : pc[t] = "rollback" => old[t] # call[t].expected

RInv == IInv /\ CopyProgress /\ Mismatched

LEMMA InitRInv == Init => RInv
  BY InitIInv DEF Init, RInv, CopyProgress, Mismatched, Holder, Transferring

\* CopyWord extends the written words by the one it writes, and reads a word
\* that it has not yet written.
LEMMA WrittenGrows ==
  ASSUME IInv, NEW t \in Threads, CopyWord(t),
         NEW i, i = WordIndex(call[t], copied[t])
  PROVE  /\ Written(t)' = Written(t) \cup {call[t].dst + i}
         /\ call[t].src + i \notin Written(t)
         /\ call[t].dst + i \notin Written(t)
<1> DEFINE c == call[t]
           k == copied[t]
<1>1. /\ c.src \in Int /\ c.dst \in Int /\ c.len \in Nat /\ c.bound
      /\ k \in Nat /\ k < c.len
      /\ pc[t] = "copy"
  <2>1. pc[t] = "copy"
    BY DEF CopyWord, GoTo
  <2>2. DmaCall(c) /\ c.bound /\ k < c.len
    BY <2>1 DEF IInv, Serving, Transferring
  <2>3. k \in Nat
    BY DEF IInv, TypeOK
  <2>4. QED
    BY <2>1, <2>2, <2>3, FabricConstants DEF DmaCall, Words
<1>2. /\ call' = call /\ copied'[t] = k + 1
      /\ pc'[t] = IF k + 1 = c.len THEN "load" ELSE "copy"
  BY DEF IInv, TypeOK, CopyWord, GoTo, Set
<1>3. CASE c.dst <= c.src
  <2>1. i = k
    BY <1>3 DEF WordIndex
  <2>2. Written(t) = c.dst .. c.dst + k - 1
    BY <1>1, <1>3 DEF Written
  <2>3. Written(t)' = c.dst .. c.dst + k
    BY <1>1, <1>2, <1>3 DEF Written
  <2>4. Written(t)' = Written(t) \cup {c.dst + i}
    BY <1>1, <2>1, <2>2, <2>3
  <2>5. c.src + i \notin Written(t) /\ c.dst + i \notin Written(t)
    BY <1>1, <1>3, <2>1, <2>2
  <2>6. QED
    BY <2>4, <2>5
<1>4. CASE ~(c.dst <= c.src)
  <2> DEFINE at == c.dst + c.len - 1 - k
             top == c.dst + c.len - 1
  <2>1. i = c.len - 1 - k
    BY <1>4 DEF WordIndex
  <2>2. Written(t) = at + 1 .. top
    <3>1. Written(t) = c.dst + c.len - k .. top
      BY <1>1, <1>4 DEF Written
    <3>2. c.dst + c.len - k = at + 1
      BY <1>1
    <3>3. QED
      BY <3>1, <3>2
  <2>3. Written(t)' = at .. top
    <3>1. k + 1 = c.len => c.dst = at
      BY <1>1
    <3>2. c.dst + c.len - (k + 1) = at
      BY <1>1
    <3>3. QED
      BY <1>1, <1>2, <1>4, <3>1, <3>2 DEF Written
  <2>4. at \in Int /\ top \in Int /\ at <= top /\ c.dst + i = at /\ c.src + i < at
    BY <1>1, <1>4, <2>1
  <2>5. c.src + i \in Int
    BY <1>1, <2>1
  <2> HIDE DEF at, top
  <2>6. Written(t)' = Written(t) \cup {c.dst + i}
    BY <2>2, <2>3, <2>4
  <2>7. c.src + i \notin Written(t) /\ c.dst + i \notin Written(t)
    BY <2>2, <2>4, <2>5
  <2>8. QED
    BY <2>6, <2>7
<1>5. QED
  BY <1>3, <1>4

\* What the discipline says of two threads with a call in progress.
LEMMA DisciplineOfCalls ==
  ASSUME IInv, Disciplined(Calls), NEW t \in Threads, NEW u \in Threads
  PROVE  /\ call[t].op = "dma" /\ AtomicCall(call[u]) => call[u].at \notin Region(call[t])
         /\ call[t].op = "cas" /\ AtomicCall(call[u]) /\ call[u].at = call[t].at => t = u
  BY DEF IInv, TypeOK, Disciplined, AtomicCall

LEMMA StepCopyProgress ==
  ASSUME RInv, Disciplined(Calls), [Next]_vars
  PROVE  CopyProgress'
<1> USE DEF RInv
<1>1. ASSUME NEW t \in Threads, NEW c \in Calls[t], Begin(t, c) PROVE CopyProgress'
  BY <1>1 DEF IInv, TypeOK, Begin, GoTo, Set, CopyProgress, Holder, Transferring, Written, Region
<1>2. ASSUME NEW t \in Threads, Acquire(t) PROVE CopyProgress'
  <2>1. \A u \in Threads : Holder(u)' => u = t
    BY <1>2 DEF IInv, TypeOK, LockExclusive, Acquire, GoTo, Set, Holder, Transferring
  <2>2. DmaCall(call[t]) /\ call' = call
    BY <1>2 DEF IInv, Serving, Acquire, GoTo
  <2>3. Written(t)' = {}
    <3>1. call[t].dst \in Int /\ call[t].len \in Int
      BY <2>2, FabricConstants DEF DmaCall, Words
    <3>2. copied'[t] = 0 /\ pc'[t] = IF call[t].bound THEN "copy" ELSE "load"
      BY <1>2 DEF IInv, TypeOK, Acquire, GoTo, Set
    <3>3. QED
      BY <2>2, <3>1, <3>2 DEF Written
  <2>4. mem' = mem /\ at_lock'.mem = mem
    BY <1>2 DEF Acquire
  <2>5. QED
    BY <2>1, <2>3, <2>4 DEF CopyProgress
<1>3. ASSUME NEW t \in Threads, CopyWord(t) PROVE CopyProgress'
  <2> DEFINE c == call[t]
  <2>0. PICK i : i = WordIndex(c, copied[t])
    OBVIOUS
  <2>1. \A u \in Threads : Holder(u)' => u = t
    BY <1>3 DEF IInv, TypeOK, LockExclusive, CopyWord, GoTo, Set, Holder, Transferring
  <2>2. /\ Written(t)' = Written(t) \cup {c.dst + i}
        /\ c.src + i \notin Written(t)
    BY <1>3, <2>0, WrittenGrows
  <2>3. Holder(t)
    BY <1>3 DEF CopyWord, GoTo, Holder, Transferring
  <2>4. DmaCall(c) /\ copied[t] \in Nat /\ copied[t] < c.len
    BY <1>3 DEF IInv, TypeOK, Serving, CopyWord, GoTo, Transferring
  <2>5. /\ i \in 0 .. c.len - 1 /\ c.src \in Int /\ c.dst \in Int /\ c.len \in Nat
        /\ c.src + i \in Words /\ c.dst + i \in Words
    BY <2>0, <2>4, WordIndexInRange, FabricConstants DEF DmaCall, Words
  <2>6. mem' = [mem EXCEPT ![c.dst + i] = mem[c.src + i]] /\ at_lock' = at_lock /\ call' = call
    BY <1>3, <2>0 DEF CopyWord, Set
  <2>7. mem \in [Words -> Values]
    BY DEF IInv, TypeOK
  <2>8. c.src + i \in Region(c)
    BY <2>5 DEF Region
  <2>9. mem[c.src + i] = at_lock.mem[c.src + i]
    BY <2>2, <2>3, <2>8 DEF CopyProgress
  <2>10. mem'[c.dst + i] = at_lock'.mem[c.src + i]
    BY <2>5, <2>6, <2>7, <2>9
  <2>11. \A w \in Words \ {c.dst + i} : mem'[w] = mem[w]
    BY <2>6, <2>7
  <2>12. Region(c) \subseteq Words
    BY <2>4, FabricConstants, TransferInWindows DEF Region, Words
  <2>13. \A w \in Region(c) :
          mem'[w] = IF w \in Written(t)' THEN at_lock'.mem[c.src + (w - c.dst)] ELSE at_lock'.mem[w]
    <3> SUFFICES ASSUME NEW w \in Region(c)
                 PROVE  mem'[w] = IF w \in Written(t)' THEN at_lock'.mem[c.src + (w - c.dst)]
                                  ELSE at_lock'.mem[w]
      OBVIOUS
    <3>1. CASE w = c.dst + i
      <4>1. w \in Written(t)'
        BY <2>2, <3>1
      <4>2. mem'[w] = at_lock'.mem[c.src + (w - c.dst)]
        <5>1. w - c.dst = i
          BY <2>5, <3>1
        <5>2. mem'[w] = at_lock'.mem[c.src + i]
          BY <2>10, <3>1
        <5>3. QED
          BY <5>1, <5>2
      <4>3. QED
        BY <4>1, <4>2
    <3>2. CASE w # c.dst + i
      <4>1. mem'[w] = mem[w]
        BY <2>11, <2>12, <3>2
      <4>2. w \in Written(t)' <=> w \in Written(t)
        BY <2>2, <3>2
      <4>3. mem[w] = IF w \in Written(t) THEN at_lock.mem[c.src + (w - c.dst)] ELSE at_lock.mem[w]
        BY <2>3 DEF CopyProgress
      <4>4. QED
        BY <2>6, <4>1, <4>2, <4>3
    <3>3. QED
      BY <3>1, <3>2
  <2>14. QED
    BY <2>1, <2>6, <2>13 DEF CopyProgress
<1>4. ASSUME NEW t \in Threads, LoadBytes(t) \/ StoreBytes(t) PROVE CopyProgress'
  <2>1. mem' = mem /\ at_lock' = at_lock /\ call' = call /\ copied' = copied
    BY <1>4 DEF LoadBytes, StoreBytes
  <2>2. \A u \in Threads : Holder(u)' => Holder(u) /\ (pc'[u] = "copy" <=> pc[u] = "copy")
    <3>1. pc[t] \in {"load", "store"} /\ pc'[t] \in {"store", "unlock"}
      BY <1>4 DEF IInv, TypeOK, LoadBytes, StoreBytes, GoTo, Set
    <3>2. \A u \in Threads \ {t} : pc'[u] = pc[u]
      BY <1>4 DEF IInv, TypeOK, LoadBytes, StoreBytes, GoTo, Set
    <3>3. QED
      BY <3>1, <3>2 DEF Holder, Transferring
  <2>3. \A u \in Threads : Holder(u)' => Written(u)' = Written(u)
    BY <2>1, <2>2 DEF Written
  <2>4. QED
    BY <2>1, <2>2, <2>3 DEF CopyProgress
<1>5. ASSUME NEW t \in Threads, Unlock(t) PROVE CopyProgress'
  BY <1>5 DEF IInv, TypeOK, LockExclusive, Unlock, GoTo, Set, CopyProgress, Holder, Transferring
<1>6. ASSUME NEW t \in Threads, FetchAdd(t) \/ Exchange(t) \/ CasExchange(t) \/ CasRollBack(t)
      PROVE  CopyProgress'
  <2>1. AtomicCall(call[t]) /\ ~Holder(t)
    BY <1>6 DEF IInv, Serving, FetchAdd, Exchange, CasExchange, CasRollBack, GoTo, Holder,
                Transferring
  <2>2. /\ at_lock' = at_lock /\ call' = call /\ copied' = copied
        /\ \A u \in Threads \ {t} : pc'[u] = pc[u]
        /\ ~Holder(t)'
    BY <1>6 DEF IInv, TypeOK, FetchAdd, Exchange, CasExchange, CasRollBack, GoTo, Set, Holder,
                Transferring
  <2>3. \A w \in Words \ {call[t].at} : mem'[w] = mem[w]
    BY <1>6 DEF IInv, TypeOK, FetchAdd, Exchange, CasExchange, CasRollBack, Set
  <2>4. SUFFICES ASSUME NEW u \in Threads, Holder(u)', NEW w \in Region(call[u])
                 PROVE  mem'[w] = IF w \in Written(u)'
                                  THEN at_lock.mem[call[u].src + (w - call[u].dst)]
                                  ELSE at_lock.mem[w]
    BY <2>2 DEF CopyProgress
  <2>5. Holder(u) /\ Written(u)' = Written(u)
    BY <2>2, <2>4 DEF Holder, Written
  <2>6. DmaCall(call[u])
    BY <2>5 DEF IInv, Serving, Holder
  <2>7. call[t].at \notin Region(call[u])
    BY <2>1, <2>6, DisciplineOfCalls DEF DmaCall
  <2>8. Region(call[u]) \subseteq Words
    BY <2>6, FabricConstants, TransferInWindows DEF Region, Words
  <2>9. mem'[w] = mem[w]
    BY <2>3, <2>7, <2>8
  <2>10. QED
    BY <2>5, <2>9 DEF CopyProgress
<1>7. CASE UNCHANGED vars
  BY <1>7 DEF vars, CopyProgress, Holder, Written
<1>8. QED
  BY <1>1, <1>2, <1>3, <1>4, <1>5, <1>6, <1>7 DEF Next, Access

LEMMA StepMismatched ==
  ASSUME RInv, [Next]_vars
  PROVE  Mismatched'
  BY DEF RInv, IInv, TypeOK, Mismatched, Next, Access, Begin, Acquire, CopyWord, LoadBytes,
         StoreBytes, Unlock, FetchAdd, Exchange, CasExchange, CasRollBack, GoTo, Set, vars

LEMMA StepRInv == RInv /\ Disciplined(Calls) /\ [Next]_vars => RInv'
  BY StepIInv, StepCopyProgress, StepMismatched DEF RInv

-----------------------------------------------------------------------------
(* The refinement mapping.                                                  *)

\* What SettledAt(w) is, without the CHOOSE: at most one thread rolls w back.
SettledCases ==
  \A w \in Words :
    /\ InTransfer(w) => SettledAt(w) = at_lock.mem[w]
    /\ ~InTransfer(w) => \A t \in Threads : RollingBack(t, w) => SettledAt(w) = old[t]
    /\ ~InTransfer(w) /\ (\A t \in Threads : ~RollingBack(t, w)) => SettledAt(w) = mem[w]

LEMMA SettledByCases == IInv /\ Disciplined(Calls) => SettledCases
<1> SUFFICES ASSUME IInv, Disciplined(Calls), NEW w \in Words
             PROVE  /\ InTransfer(w) => SettledAt(w) = at_lock.mem[w]
                    /\ ~InTransfer(w) =>
                         \A t \in Threads : RollingBack(t, w) => SettledAt(w) = old[t]
                    /\ ~InTransfer(w) /\ (\A t \in Threads : ~RollingBack(t, w)) =>
                         SettledAt(w) = mem[w]
  BY DEF SettledCases
<1>1. \A t, u \in Threads : RollingBack(t, w) /\ RollingBack(u, w) => t = u
  BY DisciplineOfCalls DEF RollingBack, IInv, Serving
<1>2. ASSUME NEW t \in Threads, RollingBack(t, w)
      PROVE  (CHOOSE u \in Threads : RollingBack(u, w)) = t
  BY <1>1, <1>2
<1>3. QED
  BY <1>2 DEF SettledAt

LEMMA SettledByCasesNext == IInv' /\ Disciplined(Calls) => SettledCases'
<1>1. IInv' /\ Disciplined(Calls)' => SettledCases'
  BY SettledByCases, PTL
<1>2. Disciplined(Calls) => Disciplined(Calls)'
  BY DEF Disciplined, Region
<1>3. QED
  BY <1>1, <1>2

\* The words of a transfer are touched by no rollback and by no other transfer.
LEMMA TransferAlone ==
  ASSUME IInv, Disciplined(Calls), NEW t \in Threads, DmaCall(call[t]), NEW w \in Region(call[t])
  PROVE  \A u \in Threads : ~RollingBack(u, w)
  BY DisciplineOfCalls DEF RollingBack, IInv, Serving, DmaCall

\* The word of an atomic lies in no transfer and no other thread rolls it back.
LEMMA AtomicAlone ==
  ASSUME IInv, Disciplined(Calls), NEW t \in Threads, AtomicCall(call[t])
  PROVE  /\ ~InTransfer(call[t].at)
         /\ \A u \in Threads \ {t} : ~RollingBack(u, call[t].at)
<1>1. ASSUME NEW u \in Threads, Holder(u),
             call[t].at \in call[u].dst .. call[u].dst + call[u].len - 1
      PROVE  FALSE
  <2>1. DmaCall(call[u])
    BY <1>1 DEF IInv, Serving, Holder
  <2>2. call[t].at \in Region(call[u])
    BY <1>1 DEF Region
  <2>3. QED
    BY <2>1, <2>2, DisciplineOfCalls DEF DmaCall
<1>2. ASSUME NEW u \in Threads \ {t}, RollingBack(u, call[t].at) PROVE FALSE
  BY <1>2, DisciplineOfCalls DEF RollingBack, IInv, Serving
<1>3. QED
  BY <1>1, <1>2 DEF InTransfer

\* A step that changes no settled word, byte count or answer is a stutter.
LEMMA QuietStep ==
  ASSUME \A w \in Words : SettledAt(w)' = SettledAt(w),
         settled_bytes' = settled_bytes, prev' = prev
  PROVE  UNCHANGED <<settled, settled_bytes, prev>>
  BY DEF settled

LEMMA BeginIsQuiet ==
  ASSUME RInv, RInv', Disciplined(Calls), NEW t \in Threads, NEW c \in Calls[t], Begin(t, c)
  PROVE  UNCHANGED <<settled, settled_bytes, prev>>
<1>1. /\ mem' = mem /\ old' = old /\ at_lock' = at_lock /\ prev' = prev
      /\ bytes_tx' = bytes_tx /\ dma_lock' = dma_lock
  BY DEF Begin
<1>2. \A u \in Threads : Holder(u)' = Holder(u) /\ (Holder(u) => call'[u] = call[u])
  BY DEF RInv, IInv, TypeOK, Begin, GoTo, Set, Holder, Transferring
<1>3. \A w \in Words : InTransfer(w)' = InTransfer(w)
  BY <1>2 DEF InTransfer
<1>4. \A w \in Words, u \in Threads : RollingBack(u, w)' = RollingBack(u, w)
  BY DEF RInv, IInv, TypeOK, Begin, GoTo, Set, RollingBack
<1>5. \A w \in Words : SettledAt(w)' = SettledAt(w)
  BY <1>1, <1>3, <1>4, SettledByCases, SettledByCasesNext DEF SettledCases, RInv
<1>6. QED
  BY <1>1, <1>5, QuietStep DEF settled_bytes

LEMMA AcquireIsQuiet ==
  ASSUME RInv, RInv', Disciplined(Calls), NEW t \in Threads, Acquire(t)
  PROVE  UNCHANGED <<settled, settled_bytes, prev>>
<1>1. /\ mem' = mem /\ old' = old /\ prev' = prev /\ call' = call /\ bytes_tx' = bytes_tx
      /\ at_lock'.mem = mem /\ at_lock'.bytes = bytes_tx /\ ~dma_lock /\ dma_lock'
  BY DEF Acquire
<1>2. DmaCall(call[t])
  BY DEF RInv, IInv, Serving, Acquire, GoTo
<1>3. \A w \in Words : ~InTransfer(w)
  BY <1>1 DEF RInv, IInv, LockExclusive, InTransfer
<1>4. \A u \in Threads : Holder(u)' => u = t
  BY DEF RInv, IInv, TypeOK, LockExclusive, Acquire, GoTo, Set, Holder, Transferring
<1>5. \A w \in Words : InTransfer(w)' => w \in Region(call[t])
  BY <1>1, <1>4 DEF InTransfer, Region
<1>6. \A w \in Words, u \in Threads : RollingBack(u, w)' = RollingBack(u, w)
  BY <1>1 DEF RInv, IInv, TypeOK, Acquire, GoTo, Set, RollingBack
<1>7. ASSUME NEW w \in Words PROVE SettledAt(w)' = SettledAt(w)
  <2>1. CASE InTransfer(w)'
    <3>1. \A u \in Threads : ~RollingBack(u, w)
      BY <1>2, <1>5, <2>1, TransferAlone DEF RInv
    <3>2. SettledAt(w) = mem[w]
      BY <1>3, <3>1, SettledByCases DEF SettledCases, RInv
    <3>3. SettledAt(w)' = at_lock'.mem[w]
      BY <2>1, SettledByCasesNext DEF SettledCases, RInv
    <3>4. QED
      BY <1>1, <3>2, <3>3
  <2>2. CASE ~InTransfer(w)'
    BY <1>1, <1>3, <1>6, <2>2, SettledByCases, SettledByCasesNext DEF SettledCases, RInv
  <2>3. QED
    BY <2>1, <2>2
<1>8. QED
  BY <1>1, <1>7, QuietStep DEF settled_bytes

LEMMA TransferStepIsQuiet ==
  ASSUME RInv, RInv', Disciplined(Calls), NEW t \in Threads,
         CopyWord(t) \/ LoadBytes(t) \/ StoreBytes(t)
  PROVE  UNCHANGED <<settled, settled_bytes, prev>>
<1>1. /\ call' = call /\ prev' = prev /\ at_lock' = at_lock /\ dma_lock' = dma_lock
  BY DEF CopyWord, LoadBytes, StoreBytes
<1>2. Holder(t) /\ DmaCall(call[t]) /\ dma_lock
  BY DEF RInv, IInv, Serving, LockExclusive, CopyWord, LoadBytes, StoreBytes, GoTo, Holder,
         Transferring
<1>3. \A u \in Threads : Holder(u)' = Holder(u)
  <2>1. Holder(t)' /\ \A u \in Threads \ {t} : pc'[u] = pc[u]
    BY DEF RInv, IInv, TypeOK, CopyWord, LoadBytes, StoreBytes, GoTo, Set, Holder, Transferring
  <2>2. QED
    BY <1>2, <2>1 DEF Holder
<1>4. \A w \in Words : InTransfer(w)' = InTransfer(w)
  BY <1>1, <1>3 DEF InTransfer
<1>5. \A w \in Words, u \in Threads :
        /\ RollingBack(u, w)' = RollingBack(u, w)
        /\ RollingBack(u, w) => old'[u] = old[u]
  BY <1>1 DEF RInv, IInv, TypeOK, CopyWord, LoadBytes, StoreBytes, GoTo, Set, RollingBack
<1>6. \A w \in Words : ~InTransfer(w) => mem'[w] = mem[w]
  <2>1. CASE CopyWord(t)
    <3>1. PICK i : i = WordIndex(call[t], copied[t])
      OBVIOUS
    <3>2. copied[t] \in Nat /\ copied[t] < call[t].len
      BY <2>1 DEF RInv, IInv, TypeOK, Serving, CopyWord, GoTo
    <3>3. i \in 0 .. call[t].len - 1 /\ call[t].dst + i \in Words
      BY <1>2, <3>1, <3>2, WordIndexInRange
    <3>4. call[t].dst \in Int /\ call[t].len \in Int
      BY <1>2, FabricConstants DEF DmaCall, Words
    <3>5. call[t].dst + i \in call[t].dst .. call[t].dst + call[t].len - 1
      BY <3>3, <3>4
    <3>6. InTransfer(call[t].dst + i)
      BY <1>2, <3>5 DEF InTransfer
    <3>7. mem' = [mem EXCEPT ![call[t].dst + i] = mem[call[t].src + i]]
      BY <2>1, <3>1 DEF CopyWord, Set
    <3>8. QED
      BY <3>6, <3>7 DEF RInv, IInv, TypeOK
  <2>2. CASE LoadBytes(t) \/ StoreBytes(t)
    BY <2>2 DEF LoadBytes, StoreBytes
  <2>3. QED
    BY <2>1, <2>2
<1>7. ASSUME NEW w \in Words PROVE SettledAt(w)' = SettledAt(w)
  <2>1. CASE InTransfer(w)
    BY <1>1, <1>4, <2>1, SettledByCases, SettledByCasesNext DEF SettledCases, RInv
  <2>2. CASE ~InTransfer(w)
    BY <1>4, <1>5, <1>6, <2>2, SettledByCases, SettledByCasesNext DEF SettledCases, RInv
  <2>3. QED
    BY <2>1, <2>2
<1>8. QED
  BY <1>1, <1>2, <1>7, QuietStep DEF settled_bytes

\* The words of a transfer that holds the lock are settled as they were when it
\* took the lock.
LEMMA TransferSettled ==
  ASSUME RInv, Disciplined(Calls), NEW t \in Threads, pc[t] = "unlock", NEW w \in Region(call[t])
  PROVE  /\ w \in Words
         /\ SettledAt(w) = at_lock.mem[w]
<1>1. Holder(t) /\ DmaCall(call[t])
  BY DEF RInv, IInv, Serving, Holder, Transferring
<1>2. w \in Words
  BY <1>1, FabricConstants, TransferInWindows DEF Region, Words
<1>3. CASE InTransfer(w)
  BY <1>2, <1>3, SettledByCases DEF SettledCases, RInv
<1>4. CASE ~InTransfer(w)
  <2>1. SettledAt(w) = mem[w]
    BY <1>1, <1>2, <1>4, TransferAlone, SettledByCases DEF SettledCases, RInv
  <2>2. w \notin Written(t)
    BY <1>1, <1>4 DEF InTransfer, Written
  <2>3. QED
    BY <1>1, <1>2, <2>1, <2>2 DEF RInv, CopyProgress
<1>5. QED
  BY <1>2, <1>3, <1>4

LEMMA UnlockIsDma ==
  ASSUME RInv, RInv', Disciplined(Calls), NEW t \in Threads, Unlock(t)
  PROVE  Abstract!Dma(call[t])
<1> DEFINE c == call[t]
           range == c.dst .. c.dst + c.len - 1
<1>1. /\ pc[t] = "unlock" /\ mem' = mem /\ old' = old /\ call' = call /\ prev' = prev
      /\ bytes_tx' = bytes_tx /\ ~dma_lock'
  BY DEF Unlock, GoTo
<1>2. Holder(t) /\ DmaCall(c) /\ dma_lock
  BY <1>1 DEF RInv, IInv, Serving, LockExclusive, Holder, Transferring
<1>3. c.src \in Int /\ c.dst \in Int /\ c.len \in Nat /\ c.bound \in BOOLEAN
  BY <1>2, FabricConstants DEF DmaCall, Words
<1>4. \A w \in Words : ~InTransfer(w)'
  BY <1>1 DEF RInv, IInv, LockExclusive, InTransfer
<1>5. \A w \in Words, u \in Threads : RollingBack(u, w)' = RollingBack(u, w)
  BY <1>1 DEF RInv, IInv, TypeOK, Unlock, GoTo, Set, RollingBack
<1>6. ASSUME NEW w \in Words
      PROVE  SettledAt(w)' = IF c.bound /\ w \in range THEN SettledAt(c.src + (w - c.dst))
                             ELSE SettledAt(w)
  <2>1. CASE w \in range
    <3>1. w \in Region(c)
      BY <2>1 DEF Region
    <3>2. \A u \in Threads : ~RollingBack(u, w)'
      BY <1>2, <1>5, <3>1, TransferAlone DEF RInv
    <3>3. SettledAt(w)' = mem[w]
      BY <1>1, <1>4, <3>2, SettledByCasesNext DEF SettledCases, RInv
    <3>4. mem[w] = IF c.bound THEN at_lock.mem[c.src + (w - c.dst)] ELSE at_lock.mem[w]
      <4>1. mem[w] = IF w \in Written(t) THEN at_lock.mem[c.src + (w - c.dst)] ELSE at_lock.mem[w]
        BY <1>2, <3>1 DEF RInv, CopyProgress
      <4>2. w \in Written(t) <=> c.bound
        BY <1>1, <1>3, <2>1 DEF Written
      <4>3. QED
        BY <4>1, <4>2
    <3>5. c.src + (w - c.dst) \in Region(c)
      BY <1>3, <2>1 DEF Region
    <3>6. /\ SettledAt(w) = at_lock.mem[w]
          /\ SettledAt(c.src + (w - c.dst)) = at_lock.mem[c.src + (w - c.dst)]
      BY <1>1, <3>1, <3>5, TransferSettled
    <3>7. QED
      BY <2>1, <3>3, <3>4, <3>6
  <2>2. CASE w \notin range
    <3>1. ~InTransfer(w)
      <4>1. \A u \in Threads : Holder(u) => u = t
        BY <1>2 DEF RInv, IInv, LockExclusive
      <4>2. QED
        BY <2>2, <4>1 DEF InTransfer
    <3>2. SettledAt(w)' = SettledAt(w)
      BY <1>1, <1>4, <1>5, <3>1, SettledByCases, SettledByCasesNext DEF SettledCases, RInv
    <3>3. QED
      BY <2>2, <3>2
  <2>3. QED
    BY <2>1, <2>2
<1>7. settled' = IF c.bound THEN Abstract!Moved(settled, c) ELSE settled
  <2>1. \A w \in range : c.src + (w - c.dst) \in Words
    BY <1>2, <1>3, FabricConstants, TransferInWindows DEF Words
  <2>2. CASE c.bound
    <3>1. \A w \in Words : SettledAt(w)' = IF w \in range THEN settled[c.src + (w - c.dst)]
                                           ELSE settled[w]
      BY <1>6, <2>1, <2>2 DEF settled
    <3>2. QED
      BY <2>2, <3>1 DEF settled, Abstract!Moved
  <2>3. CASE ~c.bound
    BY <1>6, <2>3 DEF settled
  <2>4. QED
    BY <1>3, <2>2, <2>3
<1>8. settled_bytes' = settled_bytes + c.len
  BY <1>1, <1>2 DEF RInv, IInv, TransfersAccounted, settled_bytes
<1>9. QED
  BY <1>1, <1>7, <1>8 DEF Abstract!Dma

\* An atomic leaves every settled word but its own, and the byte count, alone.
LEMMA AtomicFrame ==
  ASSUME RInv, RInv', Disciplined(Calls), NEW t \in Threads,
         FetchAdd(t) \/ Exchange(t) \/ CasExchange(t) \/ CasRollBack(t)
  PROVE  /\ AtomicCall(call[t]) /\ call' = call
         /\ settled_bytes' = settled_bytes
         /\ ~InTransfer(call[t].at) /\ ~InTransfer(call[t].at)'
         /\ \A u \in Threads \ {t} : ~RollingBack(u, call[t].at) /\ ~RollingBack(u, call[t].at)'
         /\ \A w \in Words \ {call[t].at} : SettledAt(w)' = SettledAt(w)
<1>1. AtomicCall(call[t]) /\ ~Holder(t)
  BY DEF RInv, IInv, Serving, FetchAdd, Exchange, CasExchange, CasRollBack, GoTo, Holder,
         Transferring
<1>2. /\ call' = call /\ at_lock' = at_lock /\ dma_lock' = dma_lock /\ bytes_tx' = bytes_tx
      /\ \A u \in Threads \ {t} : pc'[u] = pc[u]
      /\ \A u \in Threads \ {t} : old'[u] = old[u]
      /\ ~Holder(t)'
  BY DEF RInv, IInv, TypeOK, FetchAdd, Exchange, CasExchange, CasRollBack, GoTo, Set, Holder,
         Transferring
<1>3. \A w \in Words : InTransfer(w)' = InTransfer(w)
  BY <1>1, <1>2 DEF InTransfer, Holder
<1>4. \A w \in Words, u \in Threads \ {t} : RollingBack(u, w)' <=> RollingBack(u, w)
  BY <1>2 DEF RollingBack
<1>5. ASSUME NEW w \in Words \ {call[t].at} PROVE SettledAt(w)' = SettledAt(w)
  <2>1. mem'[w] = mem[w]
    BY DEF RInv, IInv, TypeOK, FetchAdd, Exchange, CasExchange, CasRollBack, Set
  <2>2. ~RollingBack(t, w) /\ ~RollingBack(t, w)'
    BY <1>2 DEF RollingBack
  <2>3. \A u \in Threads : /\ RollingBack(u, w)' <=> RollingBack(u, w)
                           /\ RollingBack(u, w) => old'[u] = old[u]
    BY <1>2, <1>4, <2>2
  <2>4. QED
    BY <1>2, <1>3, <2>1, <2>3, SettledByCases, SettledByCasesNext DEF SettledCases, RInv
<1>6. call[t].at \in Words
  BY <1>1 DEF AtomicCall
<1>7. QED
  BY <1>1, <1>2, <1>3, <1>4, <1>5, <1>6, AtomicAlone DEF RInv, settled_bytes

\* What the settled word of an atomic is before and after its access.
LEMMA AtomicWord ==
  ASSUME RInv, RInv', Disciplined(Calls), NEW t \in Threads,
         FetchAdd(t) \/ Exchange(t) \/ CasExchange(t) \/ CasRollBack(t)
  PROVE  /\ settled[call[t].at] = IF pc[t] = "rollback" THEN old[t] ELSE mem[call[t].at]
         /\ SettledAt(call[t].at)' = IF pc'[t] = "rollback" THEN old'[t] ELSE mem'[call[t].at]
<1> DEFINE w == call[t].at
<1>1. w \in Words /\ call' = call
  BY AtomicFrame DEF AtomicCall
<1>2. ~InTransfer(w) /\ ~InTransfer(w)'
  BY AtomicFrame
<1>3. \A u \in Threads \ {t} : ~RollingBack(u, w) /\ ~RollingBack(u, w)'
  BY AtomicFrame
<1>4. SettledAt(w) = IF pc[t] = "rollback" THEN old[t] ELSE mem[w]
  BY <1>1, <1>2, <1>3, SettledByCases DEF SettledCases, RollingBack, RInv
<1>5. SettledAt(w)' = IF pc'[t] = "rollback" THEN old'[t] ELSE mem'[w]
  <2>1. RollingBack(t, w)' <=> pc'[t] = "rollback"
    BY <1>1 DEF RollingBack
  <2>2. QED
    BY <1>1, <1>2, <1>3, <2>1, SettledByCasesNext DEF SettledCases, RInv
<1>6. QED
  BY <1>1, <1>4, <1>5 DEF settled

\* The new settled memory of an atomic whose own word ends as v.
LEMMA AtomicUpdates ==
  ASSUME RInv, RInv', Disciplined(Calls), NEW t \in Threads,
         FetchAdd(t) \/ Exchange(t) \/ CasExchange(t) \/ CasRollBack(t),
         NEW v, SettledAt(call[t].at)' = v
  PROVE  settled' = [settled EXCEPT ![call[t].at] = v]
  BY AtomicFrame DEF settled, AtomicCall

LEMMA AtomicKeeps ==
  ASSUME RInv, RInv', Disciplined(Calls), NEW t \in Threads,
         FetchAdd(t) \/ Exchange(t) \/ CasExchange(t) \/ CasRollBack(t),
         SettledAt(call[t].at)' = settled[call[t].at]
  PROVE  settled' = settled
<1>1. \A w \in Words : SettledAt(w)' = SettledAt(w)
  BY AtomicFrame DEF settled
<1>2. QED
  BY <1>1 DEF settled

LEMMA AtomicStep ==
  ASSUME RInv, RInv', Disciplined(Calls), NEW t \in Threads,
         FetchAdd(t) \/ Exchange(t) \/ CasExchange(t) \/ CasRollBack(t)
  PROVE  \/ Abstract!Perform(t, call[t])
         \/ UNCHANGED <<settled, settled_bytes, prev>>
<1> DEFINE c == call[t]
<1>1. c.at \in Words /\ settled_bytes' = settled_bytes
  BY AtomicFrame DEF AtomicCall
<1>2. CASE FetchAdd(t)
  <2>1. /\ c.op = "add" /\ prev' = prev /\ pc[t] = "atomic" /\ pc'[t] = "idle"
        /\ mem'[c.at] = (mem[c.at] + c.val) % Mod
    BY <1>1, <1>2 DEF RInv, IInv, TypeOK, FetchAdd, GoTo, Set, Wrap
  <2>2. settled' = [settled EXCEPT ![c.at] = (settled[c.at] + c.val) % Mod]
    BY <1>2, <2>1, AtomicWord, AtomicUpdates
  <2>3. QED
    BY <1>1, <2>1, <2>2 DEF Abstract!Perform, Abstract!FetchAdd, Abstract!Update
<1>3. CASE Exchange(t)
  <2>1. /\ c.op = "exch" /\ prev' = [prev EXCEPT ![t] = mem[c.at]]
        /\ pc[t] = "atomic" /\ pc'[t] = "idle" /\ mem'[c.at] = c.val
    BY <1>1, <1>3 DEF RInv, IInv, TypeOK, Exchange, GoTo, Set
  <2>2. settled[c.at] = mem[c.at] /\ settled' = [settled EXCEPT ![c.at] = c.val]
    BY <1>3, <2>1, AtomicWord, AtomicUpdates
  <2>3. QED
    BY <1>1, <2>1, <2>2 DEF Abstract!Perform, Abstract!Exchange, Abstract!Update
<1>4. CASE CasExchange(t)
  <2>1. /\ c.op = "cas" /\ pc[t] = "atomic" /\ mem'[c.at] = c.val /\ old'[t] = mem[c.at]
        /\ pc'[t] = IF mem[c.at] = c.expected THEN "idle" ELSE "rollback"
        /\ prev' = IF mem[c.at] = c.expected THEN [prev EXCEPT ![t] = mem[c.at]] ELSE prev
    BY <1>1, <1>4 DEF RInv, IInv, TypeOK, CasExchange, GoTo, Set
  <2>2. settled[c.at] = mem[c.at]
    BY <1>4, <2>1, AtomicWord
  <2>3. CASE mem[c.at] = c.expected
    <3>1. settled' = [settled EXCEPT ![c.at] = c.val]
      BY <1>4, <2>1, <2>3, AtomicWord, AtomicUpdates
    <3>2. QED
      BY <1>1, <2>1, <2>2, <2>3, <3>1 DEF Abstract!Perform, Abstract!CompareAndSwap, Abstract!Update
  <2>4. CASE mem[c.at] # c.expected
    <3>1. SettledAt(c.at)' = settled[c.at]
      BY <1>4, <2>1, <2>2, <2>4, AtomicWord
    <3>2. settled' = settled
      BY <1>4, <3>1, AtomicKeeps
    <3>3. QED
      BY <1>1, <2>1, <2>4, <3>2
  <2>5. QED
    BY <2>3, <2>4
<1>5. CASE CasRollBack(t)
  <2>1. /\ c.op = "cas" /\ pc[t] = "rollback" /\ pc'[t] = "idle" /\ mem'[c.at] = old[t]
        /\ prev' = [prev EXCEPT ![t] = old[t]] /\ old[t] # c.expected
    BY <1>1, <1>5 DEF RInv, IInv, TypeOK, Serving, Mismatched, CasRollBack, GoTo, Set
  <2>2. settled[c.at] = old[t] /\ SettledAt(c.at)' = old[t]
    BY <1>5, <2>1, AtomicWord
  <2>3. settled' = settled
    BY <1>5, <2>2, AtomicKeeps
  <2>4. QED
    BY <1>1, <2>1, <2>2, <2>3 DEF Abstract!Perform, Abstract!CompareAndSwap, Abstract!Update
<1>6. QED
  BY <1>2, <1>3, <1>4, <1>5

LEMMA InitRefines == Init => Abstract!Init
<1> SUFFICES ASSUME Init PROVE Abstract!Init
  OBVIOUS
<1>1. \A w \in Words : SettledAt(w) = Contents[w]
  BY DEF Init, SettledAt, InTransfer, RollingBack, Holder, Transferring
<1>2. QED
  BY <1>1, BoundContents DEF Init, Abstract!Init, settled, settled_bytes

LEMMA StepRefines ==
  RInv /\ RInv' /\ Disciplined(Calls) /\ [Next]_vars =>
    [Abstract!Next]_<<settled, settled_bytes, prev>>
<1> SUFFICES ASSUME RInv, RInv', Disciplined(Calls), [Next]_vars
             PROVE  Abstract!Next \/ UNCHANGED <<settled, settled_bytes, prev>>
  OBVIOUS
<1>1. ASSUME NEW t \in Threads, Abstract!Perform(t, call[t]) PROVE Abstract!Next
  BY <1>1 DEF RInv, IInv, TypeOK, Abstract!Next
<1>2. ASSUME NEW t \in Threads, Unlock(t) PROVE Abstract!Next
  <2>1. call[t].op = "dma"
    BY <1>2 DEF RInv, IInv, Serving, Unlock, GoTo, DmaCall, Transferring
  <2>2. Abstract!Dma(call[t])
    BY <1>2, UnlockIsDma
  <2>3. QED
    BY <1>1, <2>1, <2>2 DEF Abstract!Perform
<1>3. CASE UNCHANGED vars
  BY <1>3 DEF vars, settled, settled_bytes, SettledAt, InTransfer, RollingBack, Holder
<1>4. QED
  BY <1>1, <1>2, <1>3, AtomicStep, BeginIsQuiet, AcquireIsQuiet, TransferStepIsQuiet DEF Next, Access

(* When threads keep to the discipline, concurrent fabric_dma and            *)
(* fabric_atomic_* calls are the atomic calls of FabricMemory.                *)
THEOREM AtomicCalls == Disciplined(Calls) => (Spec => AtomicCallsSpec)
<1>1. Disciplined(Calls) /\ Init => RInv /\ Abstract!Init
  BY InitRInv, InitRefines
<1>2. RInv /\ Disciplined(Calls) /\ [Next]_vars =>
        RInv' /\ [Abstract!Next]_<<settled, settled_bytes, prev>>
  BY StepRInv, StepRefines
<1>3. Disciplined(Calls) => [](Disciplined(Calls))
  <2>1. Disciplined(Calls) => Disciplined(Calls)'
    BY DEF Disciplined, Region
  <2>2. QED
    BY <2>1, PTL
<1>4. QED
  BY <1>1, <1>2, <1>3, PTL DEF Spec, AtomicCallsSpec, Abstract!Spec
=============================================================================
