---------------------------- MODULE BvCommProofs -----------------------------
(***************************************************************************)
(* Proofs about the collectives, for any number of ranks, buffers, inboxes,   *)
(* calls and any addition: what the owners of chunks hold between the two     *)
(* halves of the all-reduce, and that each collective implements its step of  *)
(* Collectives.                                                             *)
(*                                                                         *)
(* The lemmas take the world w, the collective col, the windows m and their   *)
(* values b at the call as parameters.                                      *)
(***************************************************************************)
EXTENDS BvComm, Sums, SequenceTheorems

\* All that is needed of sums: a term is its own sum, and adding the term of one more
\* rank to a sum gives a sum. Nothing says that Plus commutes or associates.
SumLaws ==
  /\ \A k \in Nat : \A f : IsSum(f[k], [q \in {k} |-> f[q]])
  /\ \A S \in SUBSET Nat : \A k \in Nat \ S : \A x, f :
       IsSum(x, [q \in S |-> f[q]]) => IsSum(Plus(f[k], x), [q \in S \cup {k} |-> f[q]])

-----------------------------------------------------------------------------
(* Arithmetic.                                                              *)

\* A number that is a multiple plus a small one has that one as its remainder.
LEMMA DivUnique ==
  ASSUME NEW a \in Int, NEW k \in Nat \ {0}, NEW q \in Int, NEW d \in 0 .. k - 1, a = q * k + d
  PROVE  a % k = d /\ a \div k = q
  OBVIOUS

LEMMA DivSplit ==
  ASSUME NEW a \in Nat, NEW k \in Nat \ {0}
  PROVE  \E q \in Nat, d \in 0 .. k - 1 : q = a \div k /\ d = a % k /\ a = q * k + d /\ q <= a
<1>1. a % k \in 0 .. k - 1 /\ a \div k \in Int
  OBVIOUS
<1>2. a = k * (a \div k) + (a % k)
  OBVIOUS
<1> PICK q \in Int, d \in 0 .. k - 1 : q = a \div k /\ d = a % k /\ a = k * q + d
  BY <1>1, <1>2
<1>3. q >= 0
  OBVIOUS
<1>4. q <= a
  BY <1>3
<1>5. QED
  BY <1>3, <1>4

\* Division, rounded down and up.
LEMMA DivUp ==
  ASSUME NEW a \in Nat, NEW k \in Nat \ {0}
  PROVE  \E q \in Nat, d \in 0 .. k - 1 :
           /\ q = a \div k /\ d = a % k /\ a = q * k + d
           /\ (a + k - 1) \div k = q + (IF d = 0 THEN 0 ELSE 1)
<1>1. PICK q \in Nat, d \in 0 .. k - 1 : q = a \div k /\ d = a % k /\ a = q * k + d /\ q <= a
  BY DivSplit
<1>2. PICK t \in Nat : t = q * k /\ (q + 1) * k = t + k
  OBVIOUS
<1>3. CASE d = 0
  <2>1. a + k - 1 = q * k + (k - 1) /\ k - 1 \in 0 .. k - 1 /\ a + k - 1 \in Int
    BY <1>1, <1>2, <1>3
  <2>2. (a + k - 1) \div k = q
    BY <2>1, DivUnique
  <2> QED BY <1>1, <1>3, <2>2
<1>4. CASE d # 0
  <2>1. /\ a + k - 1 = (q + 1) * k + (d - 1) /\ d - 1 \in 0 .. k - 1
        /\ q + 1 \in Int /\ a + k - 1 \in Int
    BY <1>1, <1>2, <1>4
  <2>2. (a + k - 1) \div k = q + 1
    BY <2>1, DivUnique
  <2> QED BY <1>1, <1>4, <2>2
<1>5. QED
  BY <1>3, <1>4

LEMMA TimesMonotone ==
  ASSUME NEW a \in Nat, NEW p \in Nat, NEW q \in Nat, p <= q
  PROVE  p * a <= q * a
  OBVIOUS

LEMMA MinOfTwo ==
  ASSUME NEW a \in Int, NEW c \in Int
  PROVE  Min({a, c}) = IF a <= c THEN a ELSE c
<1>1. \A x \in {a, c} : (\A y \in {a, c} : x <= y) => x = IF a <= c THEN a ELSE c
  OBVIOUS
<1>2. \E x \in {a, c} : \A y \in {a, c} : x <= y
  OBVIOUS
<1>3. QED
  BY <1>1, <1>2 DEF Min

-----------------------------------------------------------------------------
(* Chunks: what chunk_offsets and max_chunk_bytes compute.                    *)

\* What bvcomm_allreduce_sum_f32 has checked when it enters its loops.
ReduceFits(w, col) ==
  /\ w.ranks \in Nat /\ w.ranks >= 2 /\ w.buf \in Nat /\ w.scratch \in Nat
  /\ col.off \in Nat /\ col.count \in Nat \ {0} /\ col.off + col.count <= w.buf
  /\ (col.count + w.ranks - 1) \div w.ranks <= w.scratch

RanksOf(w) == 0 .. w.ranks - 1
UserWords(w) == 0 .. w.buf - 1
WindowWords(w) == 0 .. w.buf + w.scratch - 1

\* The first word of chunk k, its length, its words.
At(w, col, k) == col.off + (k * (col.count \div w.ranks) + Min({k, col.count % w.ranks}))
Length(w, col, k) == At(w, col, k + 1) - At(w, col, k)
ChunkWords(w, col, k) == At(w, col, k) .. At(w, col, k + 1) - 1

LEMMA AtSplit ==
  ASSUME NEW w, NEW col, ReduceFits(w, col)
  PROVE  \E q \in Nat, e \in 0 .. w.ranks - 1 :
           /\ col.count = q * w.ranks + e
           /\ q + (IF e = 0 THEN 0 ELSE 1) <= w.scratch
           /\ \A k \in 0 .. w.ranks :
                At(w, col, k) = col.off + k * q + (IF k <= e THEN k ELSE e)
<1> PICK N \in Nat \ {0} : N = w.ranks /\ N >= 2
  BY DEF ReduceFits
<1> PICK C \in Nat, O \in Nat : C = col.count /\ O = col.off
  BY DEF ReduceFits
<1>1. PICK q \in Nat, e \in 0 .. N - 1 :
        /\ q = C \div N /\ e = C % N /\ C = q * N + e
        /\ (C + N - 1) \div N = q + (IF e = 0 THEN 0 ELSE 1)
  BY DivUp
<1>2. q + (IF e = 0 THEN 0 ELSE 1) <= w.scratch
  BY <1>1 DEF ReduceFits
<1>3. ASSUME NEW k \in 0 .. N
      PROVE  At(w, col, k) = O + k * q + (IF k <= e THEN k ELSE e)
  <2>1. Min({k, e}) = IF k <= e THEN k ELSE e
    BY MinOfTwo
  <2>2. k * q \in Nat
    OBVIOUS
  <2>3. At(w, col, k) = O + (k * q + Min({k, e}))
    BY <1>1 DEF At
  <2> QED BY <2>1, <2>2, <2>3
<1>4. QED
  BY <1>1, <1>2, <1>3

\* Chunks are in the region, follow each other, and fit the inbox.
LEMMA ChunkBounds ==
  ASSUME NEW w, NEW col, ReduceFits(w, col), NEW k \in RanksOf(w)
  PROVE  /\ At(w, col, k) \in Nat /\ At(w, col, k + 1) \in Nat
         /\ col.off <= At(w, col, k) /\ At(w, col, k) <= At(w, col, k + 1)
         /\ At(w, col, k + 1) <= col.off + col.count
         /\ At(w, col, k + 1) - At(w, col, k) <= w.scratch
<1> PICK N \in Nat \ {0} : N = w.ranks /\ N >= 2
  BY DEF ReduceFits
<1>1. PICK q \in Nat, e \in 0 .. N - 1 :
        /\ col.count = q * N + e
        /\ q + (IF e = 0 THEN 0 ELSE 1) <= w.scratch
        /\ \A j \in 0 .. N : At(w, col, j) = col.off + j * q + (IF j <= e THEN j ELSE e)
  BY AtSplit
<1>2. k \in 0 .. N /\ k + 1 \in 0 .. N /\ k \in Nat
  BY DEF RanksOf
<1>3. PICK p \in Nat : p = k * q
  BY <1>2
<1>4. (k + 1) * q = p + q /\ p + q <= N * q /\ N * q = q * N
  <2>1. (k + 1) * q <= N * q
    BY <1>2, TimesMonotone
  <2> QED BY <1>2, <1>3, <2>1
<1>5. PICK t \in Nat : t = N * q
  OBVIOUS
<1>6. /\ At(w, col, k) = col.off + p + (IF k <= e THEN k ELSE e)
      /\ At(w, col, k + 1) = col.off + (p + q) + (IF k + 1 <= e THEN k + 1 ELSE e)
  BY <1>1, <1>2, <1>3, <1>4
<1>7. col.off \in Nat /\ col.count = t + e /\ p + q <= t /\ w.scratch \in Nat
  BY <1>1, <1>4, <1>5 DEF ReduceFits
<1>8. QED
  BY <1>1, <1>2, <1>6, <1>7

\* Chunks further on begin after the end of a chunk.
LEMMA ChunksOrdered ==
  ASSUME NEW w, NEW col, ReduceFits(w, col), NEW k \in RanksOf(w), NEW l \in RanksOf(w), k < l
  PROVE  At(w, col, k + 1) <= At(w, col, l)
<1> PICK N \in Nat \ {0} : N = w.ranks /\ N >= 2
  BY DEF ReduceFits
<1>1. PICK q \in Nat, e \in 0 .. N - 1 :
        /\ col.count = q * N + e
        /\ q + (IF e = 0 THEN 0 ELSE 1) <= w.scratch
        /\ \A j \in 0 .. N : At(w, col, j) = col.off + j * q + (IF j <= e THEN j ELSE e)
  BY AtSplit
<1>2. k + 1 \in 0 .. N /\ l \in 0 .. N /\ k + 1 \in Nat /\ l \in Nat /\ k + 1 <= l
  BY DEF RanksOf
<1>3. (k + 1) * q <= l * q
  BY <1>2, TimesMonotone
<1>4. PICK x \in Nat, y \in Nat : x = (k + 1) * q /\ y = l * q
  BY <1>2
<1>5. At(w, col, k + 1) = col.off + x + (IF k + 1 <= e THEN k + 1 ELSE e)
  BY <1>1, <1>2, <1>4
<1>6. At(w, col, l) = col.off + y + (IF l <= e THEN l ELSE e)
  BY <1>1, <1>2, <1>4
<1>7. col.off \in Nat
  BY DEF ReduceFits
<1>8. QED
  BY <1>2, <1>3, <1>4, <1>5, <1>6, <1>7

LEMMA ChunksApart ==
  ASSUME NEW w, NEW col, ReduceFits(w, col), NEW k \in RanksOf(w), NEW l \in RanksOf(w),
         NEW i \in ChunkWords(w, col, k), i \in ChunkWords(w, col, l)
  PROVE  k = l
<1>1. k \in Int /\ l \in Int
  BY DEF RanksOf, ReduceFits
<1>2. ASSUME k < l PROVE FALSE
  BY <1>2, ChunkBounds, ChunksOrdered DEF ChunkWords
<1>3. ASSUME l < k PROVE FALSE
  BY <1>3, ChunkBounds, ChunksOrdered DEF ChunkWords
<1>4. QED
  BY <1>1, <1>2, <1>3

\* Every word of the region is in a chunk.
LEMMA ChunksCover ==
  ASSUME NEW w, NEW col, ReduceFits(w, col), NEW i \in col.off .. col.off + col.count - 1
  PROVE  \E k \in RanksOf(w) : i \in ChunkWords(w, col, k)
<1> PICK N \in Nat \ {0} : N = w.ranks /\ N >= 2
  BY DEF ReduceFits
<1>1. PICK q \in Nat, e \in 0 .. N - 1 :
        /\ col.count = q * N + e
        /\ q + (IF e = 0 THEN 0 ELSE 1) <= w.scratch
        /\ \A j \in 0 .. N : At(w, col, j) = col.off + j * q + (IF j <= e THEN j ELSE e)
  BY AtSplit
<1>2. At(w, col, 0) = col.off /\ At(w, col, N) = col.off + col.count
  <2>1. 0 * q = 0 /\ N * q = q * N /\ q * N \in Nat
    OBVIOUS
  <2>2. At(w, col, 0) = col.off + 0 * q + 0 /\ At(w, col, N) = col.off + N * q + e
    BY <1>1
  <2> QED BY <1>1, <2>1, <2>2 DEF ReduceFits
<1> DEFINE B == {j \in 0 .. N : i < At(w, col, j)}
<1>3. PICK m \in B : \A j \in B : m <= j
  <2>1. N \in B /\ B \in SUBSET Nat
    BY <1>2 DEF ReduceFits
  <2> HIDE DEF B
  <2> QED BY <2>1, LeastNat
<1>4. m \in Nat /\ m # 0 /\ m <= N /\ i < At(w, col, m)
  BY <1>2, <1>3 DEF ReduceFits
<1>5. m - 1 \in RanksOf(w) /\ m - 1 \notin B /\ (m - 1) + 1 = m
  BY <1>3, <1>4 DEF RanksOf
<1>6. At(w, col, m - 1) \in Nat /\ At(w, col, m) \in Nat
  BY <1>5, ChunkBounds
<1>7. At(w, col, m - 1) <= i
  BY <1>5, <1>6 DEF RanksOf, ReduceFits
<1>8. i \in ChunkWords(w, col, m - 1)
  BY <1>4, <1>5, <1>6, <1>7 DEF ChunkWords, ReduceFits
<1>9. QED
  BY <1>5, <1>8

-----------------------------------------------------------------------------
(* The ring of ranks.                                                        *)

\* How many transfers a chunk makes from the rank of its number to rank k.
Dist(w, k, c) == IF k >= c THEN k - c ELSE k - c + w.ranks

NextRank(w, k) == IF k = w.ranks - 1 THEN 0 ELSE k + 1

LEMMA RingRemainder ==
  ASSUME NEW a \in Nat, NEW k \in Nat \ {0}, a <= 2 * k
  PROVE  a % k = IF a < k THEN a ELSE IF a < 2 * k THEN a - k ELSE 0
<1>1. CASE a < k
  <2>1. a = 0 * k + a /\ a \in 0 .. k - 1
    BY <1>1
  <2> QED BY <1>1, <2>1, DivUnique
<1>2. CASE ~(a < k) /\ a < 2 * k
  <2>1. a = 1 * k + (a - k) /\ a - k \in 0 .. k - 1
    BY <1>2
  <2> QED BY <1>2, <2>1, DivUnique
<1>3. CASE a = 2 * k
  <2>1. a = 2 * k + 0 /\ 0 \in 0 .. k - 1
    BY <1>3
  <2> QED BY <1>3, <2>1, DivUnique
<1>4. QED
  BY <1>1, <1>2, <1>3

\* The chunk that has made t transfers when it is at rank k.
LEMMA ChunkAtRank ==
  ASSUME NEW w, w.ranks \in Nat \ {0}, NEW k \in RanksOf(w), NEW t \in RanksOf(w)
  PROVE  /\ (k - t + w.ranks) % w.ranks \in RanksOf(w)
         /\ Dist(w, k, (k - t + w.ranks) % w.ranks) = t
<1> PICK N \in Nat \ {0} : N = w.ranks
  OBVIOUS
<1>1. k \in 0 .. N - 1 /\ t \in 0 .. N - 1
  BY DEF RanksOf
<1>2. PICK a \in Nat : a = k - t + N /\ a <= 2 * N
  BY <1>1
<1>3. a % N = IF a < N THEN a ELSE IF a < 2 * N THEN a - N ELSE 0
  BY <1>2, RingRemainder
<1>4. QED
  BY <1>1, <1>2, <1>3 DEF RanksOf, Dist

\* What the all-gather sends in round t: first the chunk a rank owns, then the one
\* it received last.
LEMMA ChunkGathered ==
  ASSUME NEW w, w.ranks \in Nat \ {0}, NEW k \in RanksOf(w), NEW t \in RanksOf(w)
  PROVE  /\ (k - t + 1 + w.ranks) % w.ranks \in RanksOf(w)
         /\ Dist(w, k, (k - t + 1 + w.ranks) % w.ranks) = IF t = 0 THEN w.ranks - 1 ELSE t - 1
<1> PICK N \in Nat \ {0} : N = w.ranks
  OBVIOUS
<1>1. k \in 0 .. N - 1 /\ t \in 0 .. N - 1
  BY DEF RanksOf
<1>2. PICK a \in Nat : a = k - t + 1 + N /\ a <= 2 * N
  BY <1>1
<1>3. a % N = IF a < N THEN a ELSE IF a < 2 * N THEN a - N ELSE 0
  BY <1>2, RingRemainder
<1>4. QED
  BY <1>1, <1>2, <1>3 DEF RanksOf, Dist

LEMMA NextRankIs ==
  ASSUME NEW w, w.ranks \in Nat \ {0}, NEW k \in RanksOf(w)
  PROVE  (k + 1) % w.ranks = NextRank(w, k) /\ NextRank(w, k) \in RanksOf(w)
<1> PICK N \in Nat \ {0} : N = w.ranks
  OBVIOUS
<1>1. PICK a \in Nat : k \in 0 .. N - 1 /\ a = k + 1 /\ a <= N
  BY DEF RanksOf
<1>2. a % N = IF a < N THEN a ELSE IF a < 2 * N THEN a - N ELSE 0
  BY <1>1, RingRemainder
<1>3. QED
  BY <1>1, <1>2 DEF RanksOf, NextRank

LEMMA DistFacts ==
  ASSUME NEW w, w.ranks \in Nat \ {0}, NEW k \in RanksOf(w), NEW c \in RanksOf(w)
  PROVE  /\ Dist(w, k, c) \in RanksOf(w) /\ Dist(w, k, c) \in Nat
         /\ Dist(w, k, c) <= w.ranks - 1
         /\ Dist(w, NextRank(w, k), c) =
              IF Dist(w, k, c) = w.ranks - 1 THEN 0 ELSE Dist(w, k, c) + 1
         /\ \A l \in RanksOf(w) : Dist(w, l, c) = Dist(w, k, c) => l = k
         /\ \A l \in RanksOf(w) : NextRank(w, l) = NextRank(w, k) => l = k
         /\ \A d \in RanksOf(w) : Dist(w, k, d) = Dist(w, k, c) => d = c
  BY DEF RanksOf, Dist, NextRank

\* Each chunk has been through t transfers at one rank.
LEMMA RankAtDist ==
  ASSUME NEW w, w.ranks \in Nat \ {0}, NEW c \in RanksOf(w), NEW t \in RanksOf(w)
  PROVE  \E k \in RanksOf(w) : Dist(w, k, c) = t
<1>1. CASE c + t < w.ranks
  <2>1. c + t \in RanksOf(w) /\ Dist(w, c + t, c) = t
    BY <1>1 DEF RanksOf, Dist
  <2> QED BY <2>1
<1>2. CASE ~(c + t < w.ranks)
  <2>1. c + t - w.ranks \in RanksOf(w) /\ Dist(w, c + t - w.ranks, c) = t
    BY <1>2 DEF RanksOf, Dist
  <2> QED BY <2>1
<1>3. QED
  BY <1>1, <1>2

-----------------------------------------------------------------------------
(* Windows, and what a transfer and a local pass leave of them.               *)

Windows(w, m) ==
  DOMAIN m = RanksOf(w) /\ \A k \in RanksOf(w) : DOMAIN m[k] = WindowWords(w)

\* Every word but len of rank k from a on is the same in m and in m2.
OnlyIn(w, m, m2, k, a, len) ==
  /\ Windows(w, m2)
  /\ \A q \in RanksOf(w), i \in WindowWords(w) :
       (q = k => i \notin a .. a + len - 1) => m2[q][i] = m[q][i]

\* A transfer of len words from place a of one rank to place b of another.
MovedTo(w, m, m2, from, a, to, b, len) ==
  /\ OnlyIn(w, m, m2, to, b, len)
  /\ \A j \in 0 .. len - 1 : m2[to][b + j] = m[from][a + j]

WorldSizes(w) == w.ranks \in Nat /\ w.buf \in Nat /\ w.scratch \in Nat

LEMMA PlaceInside ==
  ASSUME NEW w, WorldSizes(w), NEW a \in Nat, NEW len \in Nat, a + len <= w.buf,
         NEW j \in 0 .. len - 1
  PROVE  a + j \in WindowWords(w) /\ a + j \in a .. a + len - 1 /\ (a + j) - a = j
  BY DEF WindowWords, WorldSizes

\* A transfer between two windows is carried out.
LEMMA MoveFacts ==
  ASSUME WorldSizes(world), Windows(world, mem),
         NEW from \in RanksOf(world), NEW to \in RanksOf(world),
         NEW a \in Nat, NEW b \in Nat, NEW len \in Nat,
         a + len <= world.buf + world.scratch, b + len <= world.buf + world.scratch,
         NEW m2, m2 = Moved(from, a, to, b, len)
  PROVE  MovedTo(world, mem, m2, from, a, to, b, len)
<1>1. CASE len = 0
  <2>1. m2 = mem /\ 0 .. len - 1 = {}
    BY <1>1 DEF Moved
  <2> QED BY <2>1 DEF MovedTo, OnlyIn
<1>2. CASE len # 0
  <2>1. m2 = [mem EXCEPT ![to] = [i \in DOMAIN @ |->
                IF i \in b .. b + len - 1 THEN mem[from][a + (i - b)] ELSE @[i]]]
    BY <1>2 DEF Moved, Window, WorldSizes
  <2>2. /\ DOMAIN m2 = RanksOf(world) /\ to \in DOMAIN mem
        /\ m2[to] = [i \in WindowWords(world) |->
             IF i \in b .. b + len - 1 THEN mem[from][a + (i - b)] ELSE mem[to][i]]
        /\ \A q \in RanksOf(world) \ {to} : m2[q] = mem[q]
    BY <2>1 DEF Windows
  <2>3. Windows(world, m2)
    BY <2>2 DEF Windows
  <2>4. \A q \in RanksOf(world), i \in WindowWords(world) :
          (q = to => i \notin b .. b + len - 1) => m2[q][i] = mem[q][i]
    BY <2>2
  <2>5. ASSUME NEW j \in 0 .. len - 1 PROVE m2[to][b + j] = mem[from][a + j]
    <3>1. b + j \in WindowWords(world) /\ b + j \in b .. b + len - 1 /\ a + ((b + j) - b) = a + j
      BY DEF WindowWords, WorldSizes
    <3> QED BY <2>2, <3>1
  <2> QED BY <2>3, <2>4, <2>5 DEF MovedTo, OnlyIn
<1>3. QED
  BY <1>1, <1>2

\* A pass over the inbox of rank k, adding or copying.
LEMMA AddFacts ==
  ASSUME WorldSizes(world), Windows(world, mem), NEW k \in RanksOf(world), NEW chunk,
         chunk.at \in Nat, chunk.len \in Nat, chunk.at + chunk.len <= world.buf,
         NEW m2, m2 = TakenIn(k, chunk, Plus)
  PROVE  /\ OnlyIn(world, mem, m2, k, chunk.at, chunk.len)
         /\ \A j \in 0 .. chunk.len - 1 : m2[k][chunk.at + j] =
              Plus(mem[k][chunk.at + j], mem[k][world.buf + j])
<1>1. m2 = [mem EXCEPT ![k] = [i \in DOMAIN @ |->
              IF i \in chunk.at .. chunk.at + chunk.len - 1
              THEN Plus(@[i], mem[k][world.buf + (i - chunk.at)]) ELSE @[i]]]
  BY DEF TakenIn, Inbox
<1>2. /\ DOMAIN m2 = RanksOf(world) /\ k \in DOMAIN mem
      /\ m2[k] = [i \in WindowWords(world) |->
           IF i \in chunk.at .. chunk.at + chunk.len - 1
           THEN Plus(mem[k][i], mem[k][world.buf + (i - chunk.at)]) ELSE mem[k][i]]
      /\ \A q \in RanksOf(world) \ {k} : m2[q] = mem[q]
  BY <1>1 DEF Windows
<1>3. OnlyIn(world, mem, m2, k, chunk.at, chunk.len)
  BY <1>2 DEF OnlyIn, Windows
<1>4. ASSUME NEW j \in 0 .. chunk.len - 1
      PROVE  m2[k][chunk.at + j] = Plus(mem[k][chunk.at + j], mem[k][world.buf + j])
  <2>1. /\ chunk.at + j \in WindowWords(world)
        /\ chunk.at + j \in chunk.at .. chunk.at + chunk.len - 1
        /\ (chunk.at + j) - chunk.at = j
    BY PlaceInside
  <2> QED BY <1>2, <2>1
<1>5. QED
  BY <1>3, <1>4

\* The pass is written out: a LAMBDA is beyond the provers.
LEMMA CopyFacts ==
  ASSUME WorldSizes(world), Windows(world, mem), NEW k \in RanksOf(world), NEW chunk,
         chunk.at \in Nat, chunk.len \in Nat, chunk.at + chunk.len <= world.buf,
         NEW m2, m2 = [mem EXCEPT ![k] = [i \in DOMAIN @ |->
                       IF i \in chunk.at .. chunk.at + chunk.len - 1
                       THEN mem[k][world.buf + (i - chunk.at)] ELSE @[i]]]
  PROVE  /\ OnlyIn(world, mem, m2, k, chunk.at, chunk.len)
         /\ \A j \in 0 .. chunk.len - 1 : m2[k][chunk.at + j] = mem[k][world.buf + j]
<1>1. /\ DOMAIN m2 = RanksOf(world) /\ k \in DOMAIN mem
      /\ m2[k] = [i \in WindowWords(world) |->
           IF i \in chunk.at .. chunk.at + chunk.len - 1
           THEN mem[k][world.buf + (i - chunk.at)] ELSE mem[k][i]]
      /\ \A q \in RanksOf(world) \ {k} : m2[q] = mem[q]
  BY DEF Windows
<1>2. OnlyIn(world, mem, m2, k, chunk.at, chunk.len)
  BY <1>1 DEF OnlyIn, Windows
<1>3. ASSUME NEW j \in 0 .. chunk.len - 1
      PROVE  m2[k][chunk.at + j] = mem[k][world.buf + j]
  <2>1. /\ chunk.at + j \in WindowWords(world)
        /\ chunk.at + j \in chunk.at .. chunk.at + chunk.len - 1
        /\ (chunk.at + j) - chunk.at = j
    BY PlaceInside
  <2> QED BY <1>1, <2>1
<1>4. QED
  BY <1>2, <1>3

-----------------------------------------------------------------------------
(* Sums over the ranks a chunk has been through.                              *)

Contributors(w, c, t) == {q \in RanksOf(w) : Dist(w, q, c) <= t}

\* x is a sum of what the first t + 1 ranks on the way of chunk c put in word i.
Sums(w, b, c, t, x, i) == IsSum(x, [q \in Contributors(w, c, t) |-> b[q][i]])

LEMMA SumsFirst ==
  ASSUME SumLaws, NEW w, w.ranks \in Nat \ {0}, NEW k \in RanksOf(w), NEW c \in RanksOf(w),
         Dist(w, k, c) = 0, NEW b, NEW i
  PROVE  Sums(w, b, c, 0, b[k][i], i)
<1>1. Contributors(w, c, 0) = {k}
  <2>1. \A q \in RanksOf(w) : Dist(w, q, c) \in Nat /\ (Dist(w, q, c) = 0 => q = k)
    BY DistFacts
  <2> QED BY <2>1 DEF Contributors
<1> DEFINE f == [q \in {k} |-> b[q][i]]
<1>2. f[k] = b[k][i] /\ k \in Nat
  BY DEF RanksOf
<1>3. [q \in {k} |-> f[q]] = [q \in Contributors(w, c, 0) |-> b[q][i]]
  BY <1>1
<1> HIDE DEF f
<1>4. IsSum(f[k], [q \in {k} |-> f[q]])
  BY <1>2 DEF SumLaws
<1>5. QED
  BY <1>2, <1>3, <1>4 DEF Sums

LEMMA SumsNext ==
  ASSUME SumLaws, NEW w, w.ranks \in Nat \ {0}, NEW k \in RanksOf(w), NEW c \in RanksOf(w),
         NEW t \in Nat, Dist(w, k, c) = t + 1, NEW b, NEW i, NEW x, Sums(w, b, c, t, x, i)
  PROVE  Sums(w, b, c, t + 1, Plus(b[k][i], x), i)
<1> DEFINE S == Contributors(w, c, t)
           f == [q \in RanksOf(w) |-> b[q][i]]
<1>1. Contributors(w, c, t + 1) = S \cup {k} /\ k \in Nat \ S /\ S \in SUBSET Nat
  <2>1. \A q \in RanksOf(w) : Dist(w, q, c) \in Nat /\ (Dist(w, q, c) = t + 1 => q = k)
    BY DistFacts
  <2> QED BY <2>1 DEF Contributors, RanksOf
<1>2. [q \in S |-> f[q]] = [q \in S |-> b[q][i]]
  BY DEF Contributors
<1>3. [q \in S \cup {k} |-> f[q]] = [q \in Contributors(w, c, t + 1) |-> b[q][i]]
  BY <1>1 DEF Contributors
<1>4. f[k] = b[k][i]
  OBVIOUS
<1> HIDE DEF S, f
<1>5. IsSum(x, [q \in S |-> f[q]])
  BY <1>2 DEF Sums, S
<1>6. IsSum(Plus(f[k], x), [q \in S \cup {k} |-> f[q]])
  BY <1>1, <1>5 DEF SumLaws
<1>7. QED
  BY <1>3, <1>4, <1>6 DEF Sums

LEMMA SumsAll ==
  ASSUME NEW w, w.ranks \in Nat \ {0}, NEW c \in RanksOf(w), NEW b, NEW i, NEW x,
         Sums(w, b, c, w.ranks - 1, x, i)
  PROVE  IsSum(x, [q \in RanksOf(w) |-> b[q][i]])
<1>1. Contributors(w, c, w.ranks - 1) = RanksOf(w)
  BY DistFacts DEF Contributors
<1>2. QED
  BY <1>1 DEF Sums

-----------------------------------------------------------------------------
(* The reduce-scatter.                                                       *)

\* Words outside the region of the call are as they were.
Frame(w, col, m, b) ==
  \A k \in RanksOf(w), i \in UserWords(w) :
    i \notin col.off .. col.off + col.count - 1 => m[k][i] = b[k][i]

\* In round t of the reduction, with the ranks in done served: a chunk that has come
\* as far as rank k holds the sum up to there, any other chunk what the host put in.
ReduceSums(w, col, m, b, t, done) ==
  \A k, c \in RanksOf(w) : \A i \in ChunkWords(w, col, c) :
    IF Dist(w, k, c) <= (IF k \in done THEN t + 1 ELSE t)
    THEN Sums(w, b, c, Dist(w, k, c), m[k][i], i)
    ELSE m[k][i] = b[k][i]

\* The ranks in full have the next chunk in their inbox, summed up to the one before.
InboxSums(w, col, m, b, t, full) ==
  \A k \in full, c \in RanksOf(w) : Dist(w, k, c) = t + 1 =>
    \A j \in 0 .. Length(w, col, c) - 1 :
      Sums(w, b, c, t, m[k][w.buf + j], At(w, col, c) + j)

\* The words of a chunk, counted from its first, are words of the user buffer.
LEMMA ChunkPlaces ==
  ASSUME NEW w, NEW col, ReduceFits(w, col), NEW c \in RanksOf(w)
  PROVE  /\ At(w, col, c) \in Nat /\ Length(w, col, c) \in Nat
         /\ At(w, col, c) + Length(w, col, c) <= w.buf /\ Length(w, col, c) <= w.scratch
         /\ At(w, col, c) .. At(w, col, c) + Length(w, col, c) - 1 = ChunkWords(w, col, c)
         /\ \A j \in 0 .. Length(w, col, c) - 1 :
              /\ At(w, col, c) + j \in ChunkWords(w, col, c)
              /\ w.buf + j \in WindowWords(w) /\ w.buf + j \notin UserWords(w)
         /\ \A i \in ChunkWords(w, col, c) :
              /\ i \in UserWords(w) /\ i \in WindowWords(w)
              /\ i \in col.off .. col.off + col.count - 1
              /\ \E j \in 0 .. Length(w, col, c) - 1 : i = At(w, col, c) + j
<1>1. PICK a \in Nat, len \in Nat :
        /\ a = At(w, col, c) /\ len = Length(w, col, c) /\ a + len = At(w, col, c + 1)
        /\ col.off <= a /\ a + len <= col.off + col.count /\ len <= w.scratch
  <2>1. PICK x \in Nat, y \in Nat :
          /\ x = At(w, col, c) /\ y = At(w, col, c + 1)
          /\ col.off <= x /\ x <= y /\ y <= col.off + col.count /\ y - x <= w.scratch
    BY ChunkBounds
  <2>2. y - x \in Nat /\ Length(w, col, c) = y - x /\ x + (y - x) = y
    BY <2>1 DEF Length
  <2> QED BY <2>1, <2>2
<1>2. /\ w.buf \in Nat /\ w.scratch \in Nat /\ col.off \in Nat /\ col.count \in Nat
      /\ col.off + col.count <= w.buf
  BY DEF ReduceFits
<1>3. ChunkWords(w, col, c) = a .. a + len - 1
  BY <1>1 DEF ChunkWords
<1>4. \A j \in 0 .. len - 1 :
        a + j \in a .. a + len - 1 /\ w.buf + j \in WindowWords(w) /\ w.buf + j \notin UserWords(w)
  BY <1>1, <1>2 DEF WindowWords, UserWords
<1>5. ASSUME NEW i \in a .. a + len - 1
      PROVE  /\ i \in UserWords(w) /\ i \in WindowWords(w)
             /\ i \in col.off .. col.off + col.count - 1
             /\ \E j \in 0 .. len - 1 : i = a + j
  <2>1. i - a \in 0 .. len - 1 /\ i = a + (i - a)
    OBVIOUS
  <2>2. /\ i \in UserWords(w) /\ i \in WindowWords(w)
        /\ i \in col.off .. col.off + col.count - 1
    BY <1>1, <1>2 DEF UserWords, WindowWords
  <2> QED BY <2>1, <2>2
<1>6. a + len <= w.buf
  BY <1>1, <1>2
<1>7. QED
  BY <1>1, <1>3, <1>4, <1>5, <1>6

\* A transfer to an inbox leaves the user buffers alone ...
LEMMA SentLeavesUsers ==
  ASSUME NEW w, NEW col, ReduceFits(w, col), NEW m, NEW m2, NEW k \in RanksOf(w), NEW len \in Nat,
         OnlyIn(w, m, m2, k, w.buf, len)
  PROVE  \A q \in RanksOf(w), i \in UserWords(w) : m2[q][i] = m[q][i]
<1>1. \A i \in UserWords(w) : i \in WindowWords(w) /\ i \notin w.buf .. w.buf + len - 1
  BY DEF UserWords, WindowWords, ReduceFits
<1>2. QED
  BY <1>1 DEF OnlyIn

\* ... and a pass over a chunk changes no other chunk, no inbox, no other rank.
LEMMA TakenLeaves ==
  ASSUME NEW w, NEW col, ReduceFits(w, col), NEW m, NEW m2, NEW k \in RanksOf(w),
         NEW c \in RanksOf(w), OnlyIn(w, m, m2, k, At(w, col, c), Length(w, col, c))
  PROVE  /\ \A q \in RanksOf(w) \ {k}, i \in WindowWords(w) : m2[q][i] = m[q][i]
         /\ \A d \in RanksOf(w) \ {c} : \A i \in ChunkWords(w, col, d) : m2[k][i] = m[k][i]
         /\ \A d \in RanksOf(w) : \A j \in 0 .. Length(w, col, d) - 1 :
              m2[k][w.buf + j] = m[k][w.buf + j]
         /\ \A b : Frame(w, col, m, b) => Frame(w, col, m2, b)
<1>1. /\ \A q \in RanksOf(w), i \in WindowWords(w) :
           (q = k => i \notin ChunkWords(w, col, c)) => m2[q][i] = m[q][i]
  BY ChunkPlaces DEF OnlyIn
<1>2. \A q \in RanksOf(w) \ {k}, i \in WindowWords(w) : m2[q][i] = m[q][i]
  BY <1>1
<1>3. ASSUME NEW d \in RanksOf(w) \ {c}, NEW i \in ChunkWords(w, col, d)
      PROVE  m2[k][i] = m[k][i]
  <2>1. i \notin ChunkWords(w, col, c)
    BY ChunksApart
  <2>2. i \in WindowWords(w)
    BY ChunkPlaces
  <2> QED BY <1>1, <2>1, <2>2
<1>4. ASSUME NEW d \in RanksOf(w), NEW j \in 0 .. Length(w, col, d) - 1
      PROVE  m2[k][w.buf + j] = m[k][w.buf + j]
  <2>1. w.buf + j \in WindowWords(w) /\ w.buf + j \notin UserWords(w)
    BY ChunkPlaces
  <2>2. w.buf + j \notin ChunkWords(w, col, c)
    BY <2>1, ChunkPlaces
  <2> QED BY <1>1, <2>1, <2>2
<1>5. ASSUME NEW b, Frame(w, col, m, b) PROVE Frame(w, col, m2, b)
  <2>1. ASSUME NEW q \in RanksOf(w), NEW i \in UserWords(w),
               i \notin col.off .. col.off + col.count - 1
        PROVE  m2[q][i] = b[q][i]
    <3>1. i \in WindowWords(w)
      BY DEF UserWords, WindowWords, ReduceFits
    <3>2. i \notin ChunkWords(w, col, c)
      BY <2>1, ChunkPlaces
    <3> QED BY <1>1, <1>5, <2>1, <3>1, <3>2 DEF Frame
  <2> QED BY <2>1 DEF Frame
<1>6. QED
  BY <1>2, <1>3, <1>4, <1>5

LEMMA ReduceStarts ==
  ASSUME SumLaws, NEW w, NEW col, ReduceFits(w, col), NEW b
  PROVE  Frame(w, col, b, b) /\ ReduceSums(w, col, b, b, 0, {}) /\ InboxSums(w, col, b, b, 0, {})
<1>1. ASSUME NEW k \in RanksOf(w), NEW c \in RanksOf(w), NEW i, Dist(w, k, c) <= 0
      PROVE  Sums(w, b, c, Dist(w, k, c), b[k][i], i)
  <2>1. Dist(w, k, c) = 0
    BY <1>1, DistFacts DEF ReduceFits
  <2> QED BY <2>1, SumsFirst DEF ReduceFits
<1>2. QED
  BY <1>1 DEF Frame, ReduceSums, InboxSums

LEMMA ReduceSendStep ==
  ASSUME NEW w, NEW col, ReduceFits(w, col), NEW m, NEW m2, NEW b, NEW t \in 0 .. w.ranks - 2,
         NEW full \in SUBSET RanksOf(w), NEW k \in RanksOf(w), NEW c \in RanksOf(w),
         Frame(w, col, m, b), ReduceSums(w, col, m, b, t, {}), InboxSums(w, col, m, b, t, full),
         Dist(w, k, c) = t,
         MovedTo(w, m, m2, k, At(w, col, c), NextRank(w, k), w.buf, Length(w, col, c))
  PROVE  /\ Frame(w, col, m2, b) /\ ReduceSums(w, col, m2, b, t, {})
         /\ InboxSums(w, col, m2, b, t, full \cup {NextRank(w, k)})
<1> DEFINE next == NextRank(w, k)
<1>1. next \in RanksOf(w) /\ w.ranks \in Nat \ {0}
  BY NextRankIs DEF ReduceFits
<1>2. Dist(w, next, c) = t + 1
  <2>1. Dist(w, next, c) = IF Dist(w, k, c) = w.ranks - 1 THEN 0 ELSE Dist(w, k, c) + 1
    BY <1>1, DistFacts
  <2> QED BY <1>1, <2>1
<1>3. Length(w, col, c) \in Nat
  BY ChunkPlaces
<1> HIDE DEF next
<1>4. OnlyIn(w, m, m2, next, w.buf, Length(w, col, c))
  BY DEF MovedTo, next
<1>5. \A q \in RanksOf(w), i \in UserWords(w) : m2[q][i] = m[q][i]
  BY <1>1, <1>3, <1>4, SentLeavesUsers
<1>6. Frame(w, col, m2, b)
  BY <1>5 DEF Frame
<1>7. ReduceSums(w, col, m2, b, t, {})
  <2>1. \A q, d \in RanksOf(w) : \A i \in ChunkWords(w, col, d) : m2[q][i] = m[q][i]
    BY <1>5, ChunkPlaces
  <2> QED BY <2>1 DEF ReduceSums
<1>8. ASSUME NEW q \in full \cup {next}, NEW d \in RanksOf(w), Dist(w, q, d) = t + 1,
             NEW j \in 0 .. Length(w, col, d) - 1
      PROVE  Sums(w, b, d, t, m2[q][w.buf + j], At(w, col, d) + j)
  <2>1. CASE q = next
    <3>1. d = c
      BY <1>1, <1>2, <1>8, <2>1, DistFacts
    <3>2. m2[q][w.buf + j] = m[k][At(w, col, c) + j]
      BY <2>1, <3>1 DEF MovedTo, next
    <3>3. At(w, col, c) + j \in ChunkWords(w, col, c)
      BY <3>1, ChunkPlaces
    <3>4. Sums(w, b, c, t, m[k][At(w, col, c) + j], At(w, col, c) + j)
      BY <3>3 DEF ReduceSums
    <3> QED BY <3>1, <3>2, <3>4
  <2>2. CASE q # next
    <3>1. q \in full /\ q \in RanksOf(w)
      BY <2>2
    <3>2. w.buf + j \in WindowWords(w)
      BY ChunkPlaces
    <3>3. m2[q][w.buf + j] = m[q][w.buf + j]
      BY <1>4, <2>2, <3>1, <3>2 DEF OnlyIn
    <3> QED BY <1>8, <3>1, <3>3 DEF InboxSums
  <2> QED BY <2>1, <2>2
<1>9. QED
  BY <1>6, <1>7, <1>8 DEF InboxSums, next

LEMMA ReduceAddStep ==
  ASSUME SumLaws, NEW w, NEW col, ReduceFits(w, col), NEW m, NEW m2, NEW b,
         NEW t \in 0 .. w.ranks - 2, NEW done \in SUBSET RanksOf(w), NEW full \in SUBSET RanksOf(w),
         NEW k \in full, k \notin done, NEW c \in RanksOf(w),
         ReduceSums(w, col, m, b, t, done), InboxSums(w, col, m, b, t, full),
         Dist(w, k, c) = t + 1, OnlyIn(w, m, m2, k, At(w, col, c), Length(w, col, c)),
         \A j \in 0 .. Length(w, col, c) - 1 :
           m2[k][At(w, col, c) + j] = Plus(m[k][At(w, col, c) + j], m[k][w.buf + j])
  PROVE  /\ ReduceSums(w, col, m2, b, t, done \cup {k})
         /\ InboxSums(w, col, m2, b, t, full)
<1>1. w.ranks \in Nat \ {0} /\ t \in Nat /\ k \in RanksOf(w)
  BY DEF ReduceFits
<1>2. /\ \A q \in RanksOf(w) \ {k}, i \in WindowWords(w) : m2[q][i] = m[q][i]
      /\ \A d \in RanksOf(w) \ {c} : \A i \in ChunkWords(w, col, d) : m2[k][i] = m[k][i]
      /\ \A d \in RanksOf(w) : \A j \in 0 .. Length(w, col, d) - 1 :
              m2[k][w.buf + j] = m[k][w.buf + j]
  BY <1>1, TakenLeaves
<1>3. ASSUME NEW q \in RanksOf(w), NEW d \in RanksOf(w), NEW i \in ChunkWords(w, col, d)
      PROVE  IF Dist(w, q, d) <= (IF q \in done \cup {k} THEN t + 1 ELSE t)
             THEN Sums(w, b, d, Dist(w, q, d), m2[q][i], i)
             ELSE m2[q][i] = b[q][i]
  <2>1. IF Dist(w, q, d) <= (IF q \in done THEN t + 1 ELSE t)
        THEN Sums(w, b, d, Dist(w, q, d), m[q][i], i)
        ELSE m[q][i] = b[q][i]
    BY DEF ReduceSums
  <2>2. CASE q # k
    <3>1. m2[q][i] = m[q][i]
      BY <1>2, <2>2, ChunkPlaces
    <3> QED BY <2>1, <2>2, <3>1
  <2>3. CASE q = k /\ d # c
    <3>1. m2[q][i] = m[q][i]
      BY <1>2, <2>3
    <3>2. Dist(w, q, d) # t + 1 /\ Dist(w, q, d) \in Nat
      BY <1>1, <2>3, DistFacts
    <3>3. Dist(w, q, d) <= t + 1 <=> Dist(w, q, d) <= t
      BY <1>1, <3>2
    <3> QED BY <2>1, <2>3, <3>1, <3>3
  <2>4. CASE q = k /\ d = c
    <3>1. m[q][i] = b[q][i]
      <4>1. ~(t + 1 <= t)
        BY <1>1
      <4> QED BY <2>1, <2>4, <4>1
    <3>2. PICK j \in 0 .. Length(w, col, c) - 1 : i = At(w, col, c) + j
      BY <2>4, ChunkPlaces
    <3>3. Sums(w, b, c, t, m[k][w.buf + j], i)
      BY <3>2 DEF InboxSums
    <3>4. m2[k][i] = Plus(b[k][i], m[k][w.buf + j])
      BY <2>4, <3>1, <3>2
    <3>5. Sums(w, b, c, t + 1, m2[k][i], i)
      BY <1>1, <3>3, <3>4, SumsNext
    <3>6. t + 1 <= t + 1
      BY <1>1
    <3> QED BY <2>4, <3>5, <3>6
  <2> QED BY <2>2, <2>3, <2>4
<1>4. InboxSums(w, col, m2, b, t, full)
  <2>1. ASSUME NEW q \in full, NEW d \in RanksOf(w), NEW j \in 0 .. Length(w, col, d) - 1
        PROVE  m2[q][w.buf + j] = m[q][w.buf + j]
    <3>1. w.buf + j \in WindowWords(w)
      BY ChunkPlaces
    <3> QED BY <1>2, <3>1
  <2> QED BY <2>1 DEF InboxSums
<1>5. QED
  BY <1>3, <1>4 DEF ReduceSums

\* When all ranks were served, the next round begins with empty inboxes.
LEMMA ReduceRoundEnds ==
  ASSUME NEW w, NEW col, NEW m, NEW b, NEW t, ReduceSums(w, col, m, b, t, RanksOf(w))
  PROVE  ReduceSums(w, col, m, b, t + 1, {}) /\ InboxSums(w, col, m, b, t + 1, {})
  BY DEF ReduceSums, InboxSums

-----------------------------------------------------------------------------
(* The all-gather of the all-reduce.                                          *)

\* In round t, with the ranks in done served: the owner of a chunk holds its sum, and
\* the ranks the chunk has come to since hold the same.
GatherSums(w, col, m, b, t, done) ==
  \A k, c \in RanksOf(w) : \A i \in ChunkWords(w, col, c) :
    /\ Dist(w, k, c) = w.ranks - 1 => Sums(w, b, c, w.ranks - 1, m[k][i], i)
    /\ Dist(w, k, c) < (IF k \in done THEN t + 1 ELSE t) =>
         \A l \in RanksOf(w) : Dist(w, l, c) = w.ranks - 1 => m[k][i] = m[l][i]

\* The ranks in full have the next chunk in their inbox, as its owner holds it.
InboxOwned(w, col, m, t, full) ==
  \A k \in full, c, l \in RanksOf(w) : Dist(w, k, c) = t /\ Dist(w, l, c) = w.ranks - 1 =>
    \A j \in 0 .. Length(w, col, c) - 1 : m[k][w.buf + j] = m[l][At(w, col, c) + j]

LEMMA GatherStarts ==
  ASSUME NEW w, NEW col, ReduceFits(w, col), NEW m, NEW b, NEW t, t = w.ranks - 2,
         ReduceSums(w, col, m, b, t, RanksOf(w))
  PROVE  GatherSums(w, col, m, b, 0, {}) /\ InboxOwned(w, col, m, 0, {})
<1>1. ASSUME NEW k \in RanksOf(w), NEW c \in RanksOf(w), NEW i \in ChunkWords(w, col, c)
      PROVE  /\ Dist(w, k, c) = w.ranks - 1 => Sums(w, b, c, w.ranks - 1, m[k][i], i)
             /\ ~(Dist(w, k, c) < 0)
  <2>1. Dist(w, k, c) \in Nat
    BY DistFacts DEF ReduceFits
  <2>2. t + 1 = w.ranks - 1 /\ w.ranks - 1 <= t + 1
    BY DEF ReduceFits
  <2>3. Dist(w, k, c) = w.ranks - 1 => Sums(w, b, c, w.ranks - 1, m[k][i], i)
    BY <2>2 DEF ReduceSums
  <2> QED BY <2>1, <2>3
<1>2. QED
  BY <1>1 DEF GatherSums, InboxOwned

LEMMA GatherSendStep ==
  ASSUME NEW w, NEW col, ReduceFits(w, col), NEW m, NEW m2, NEW b, NEW t \in 0 .. w.ranks - 2,
         NEW full \in SUBSET RanksOf(w), NEW k \in RanksOf(w), NEW c \in RanksOf(w),
         Frame(w, col, m, b), GatherSums(w, col, m, b, t, {}), InboxOwned(w, col, m, t, full),
         Dist(w, k, c) = (IF t = 0 THEN w.ranks - 1 ELSE t - 1),
         MovedTo(w, m, m2, k, At(w, col, c), NextRank(w, k), w.buf, Length(w, col, c))
  PROVE  /\ Frame(w, col, m2, b) /\ GatherSums(w, col, m2, b, t, {})
         /\ InboxOwned(w, col, m2, t, full \cup {NextRank(w, k)})
<1> DEFINE next == NextRank(w, k)
<1>1. next \in RanksOf(w) /\ w.ranks \in Nat \ {0} /\ w.ranks >= 2
  BY NextRankIs DEF ReduceFits
<1>2. Dist(w, next, c) = t
  <2>1. Dist(w, next, c) = IF Dist(w, k, c) = w.ranks - 1 THEN 0 ELSE Dist(w, k, c) + 1
    BY <1>1, DistFacts
  <2> QED BY <1>1, <2>1
<1>3. Length(w, col, c) \in Nat
  BY ChunkPlaces
<1> HIDE DEF next
<1>4. OnlyIn(w, m, m2, next, w.buf, Length(w, col, c))
  BY DEF MovedTo, next
<1>5. \A q \in RanksOf(w), i \in UserWords(w) : m2[q][i] = m[q][i]
  BY <1>1, <1>3, <1>4, SentLeavesUsers
<1>6. Frame(w, col, m2, b)
  BY <1>5 DEF Frame
<1>7. \A q, d \in RanksOf(w) : \A i \in ChunkWords(w, col, d) : m2[q][i] = m[q][i]
  BY <1>5, ChunkPlaces
<1>8. GatherSums(w, col, m2, b, t, {})
  BY <1>7 DEF GatherSums
<1>9. ASSUME NEW q \in full \cup {next}, NEW d \in RanksOf(w), NEW l \in RanksOf(w),
             Dist(w, q, d) = t, Dist(w, l, d) = w.ranks - 1,
             NEW j \in 0 .. Length(w, col, d) - 1
      PROVE  m2[q][w.buf + j] = m2[l][At(w, col, d) + j]
  <2>1. At(w, col, d) + j \in ChunkWords(w, col, d) /\ w.buf + j \in WindowWords(w)
    BY ChunkPlaces
  <2>2. m2[l][At(w, col, d) + j] = m[l][At(w, col, d) + j]
    BY <1>7, <2>1
  <2>3. CASE q = next
    <3>1. d = c
      BY <1>1, <1>2, <1>9, <2>3, DistFacts
    <3>2. m2[q][w.buf + j] = m[k][At(w, col, c) + j]
      BY <2>3, <3>1 DEF MovedTo, next
    <3>3. m[k][At(w, col, c) + j] = m[l][At(w, col, c) + j]
      <4>1. CASE t = 0
        BY <1>1, <1>9, <3>1, <4>1, DistFacts
      <4>2. CASE t # 0
        <5>1. Dist(w, k, c) < t
          BY <1>1, <4>2
        <5> QED BY <1>9, <2>1, <3>1, <5>1 DEF GatherSums
      <4> QED BY <4>1, <4>2
    <3> QED BY <2>2, <3>1, <3>2, <3>3
  <2>4. CASE q # next
    <3>1. q \in full /\ q \in RanksOf(w)
      BY <2>4
    <3>2. m2[q][w.buf + j] = m[q][w.buf + j]
      BY <1>4, <2>1, <2>4, <3>1 DEF OnlyIn
    <3>3. m[q][w.buf + j] = m[l][At(w, col, d) + j]
      BY <1>9, <3>1 DEF InboxOwned
    <3> QED BY <2>2, <3>2, <3>3
  <2> QED BY <2>3, <2>4
<1>10. QED
  BY <1>6, <1>8, <1>9 DEF InboxOwned, next

LEMMA GatherCopyStep ==
  ASSUME NEW w, NEW col, ReduceFits(w, col), NEW m, NEW m2, NEW b, NEW t \in 0 .. w.ranks - 2,
         NEW done \in SUBSET RanksOf(w), NEW full \in SUBSET RanksOf(w),
         NEW k \in full, NEW c \in RanksOf(w),
         GatherSums(w, col, m, b, t, done), InboxOwned(w, col, m, t, full),
         Dist(w, k, c) = t, OnlyIn(w, m, m2, k, At(w, col, c), Length(w, col, c)),
         \A j \in 0 .. Length(w, col, c) - 1 : m2[k][At(w, col, c) + j] = m[k][w.buf + j]
  PROVE  /\ GatherSums(w, col, m2, b, t, done \cup {k})
         /\ InboxOwned(w, col, m2, t, full)
<1>1. w.ranks \in Nat \ {0} /\ t \in Nat /\ k \in RanksOf(w) /\ t # w.ranks - 1
  BY DEF ReduceFits
<1>2. /\ \A q \in RanksOf(w) \ {k}, i \in WindowWords(w) : m2[q][i] = m[q][i]
      /\ \A d \in RanksOf(w) \ {c} : \A i \in ChunkWords(w, col, d) : m2[k][i] = m[k][i]
      /\ \A d \in RanksOf(w) : \A j \in 0 .. Length(w, col, d) - 1 :
              m2[k][w.buf + j] = m[k][w.buf + j]
  BY <1>1, TakenLeaves
\* No owner's chunk is written.
<1>3. ASSUME NEW l \in RanksOf(w), NEW d \in RanksOf(w), Dist(w, l, d) = w.ranks - 1,
             NEW i \in ChunkWords(w, col, d)
      PROVE  m2[l][i] = m[l][i]
  <2>1. l # k \/ d # c
    BY <1>1, <1>3
  <2> QED BY <1>2, <2>1, ChunkPlaces
<1>4. ASSUME NEW q \in RanksOf(w), NEW d \in RanksOf(w), NEW i \in ChunkWords(w, col, d)
      PROVE  /\ Dist(w, q, d) = w.ranks - 1 => Sums(w, b, d, w.ranks - 1, m2[q][i], i)
             /\ Dist(w, q, d) < (IF q \in done \cup {k} THEN t + 1 ELSE t) =>
                  \A l \in RanksOf(w) : Dist(w, l, d) = w.ranks - 1 => m2[q][i] = m2[l][i]
  <2>1. /\ Dist(w, q, d) = w.ranks - 1 => Sums(w, b, d, w.ranks - 1, m[q][i], i)
        /\ Dist(w, q, d) < (IF q \in done THEN t + 1 ELSE t) =>
             \A l \in RanksOf(w) : Dist(w, l, d) = w.ranks - 1 => m[q][i] = m[l][i]
    BY DEF GatherSums
  <2>2. Dist(w, q, d) = w.ranks - 1 => Sums(w, b, d, w.ranks - 1, m2[q][i], i)
    BY <1>3, <2>1
  <2>3. ASSUME Dist(w, q, d) < (IF q \in done \cup {k} THEN t + 1 ELSE t),
               NEW l \in RanksOf(w), Dist(w, l, d) = w.ranks - 1
        PROVE  m2[q][i] = m2[l][i]
    <3>1. m2[l][i] = m[l][i]
      BY <1>3, <2>3
    <3>2. CASE q # k
      <4>1. m2[q][i] = m[q][i]
        BY <1>2, <3>2, ChunkPlaces
      <4> QED BY <2>1, <2>3, <3>1, <3>2, <4>1
    <3>3. CASE q = k /\ d # c
      <4>1. m2[q][i] = m[q][i]
        BY <1>2, <3>3
      <4>2. Dist(w, q, d) # t /\ Dist(w, q, d) \in Nat
        BY <1>1, <3>3, DistFacts
      <4>3. Dist(w, q, d) < t
        BY <1>1, <2>3, <4>2
      <4>4. Dist(w, q, d) < (IF q \in done THEN t + 1 ELSE t)
        BY <1>1, <4>2, <4>3
      <4> QED BY <2>1, <2>3, <3>1, <4>1, <4>4
    <3>4. CASE q = k /\ d = c
      <4>1. PICK j \in 0 .. Length(w, col, c) - 1 : i = At(w, col, c) + j
        BY <3>4, ChunkPlaces
      <4>2. m2[k][i] = m[k][w.buf + j]
        BY <4>1
      <4>3. m[k][w.buf + j] = m[l][i]
        BY <2>3, <3>4, <4>1 DEF InboxOwned
      <4> QED BY <3>1, <3>4, <4>2, <4>3
    <3> QED BY <3>2, <3>3, <3>4
  <2> QED BY <2>2, <2>3
<1>5. ASSUME NEW q \in full, NEW d \in RanksOf(w), NEW l \in RanksOf(w),
             Dist(w, q, d) = t, Dist(w, l, d) = w.ranks - 1,
             NEW j \in 0 .. Length(w, col, d) - 1
      PROVE  m2[q][w.buf + j] = m2[l][At(w, col, d) + j]
  <2>1. At(w, col, d) + j \in ChunkWords(w, col, d) /\ w.buf + j \in WindowWords(w)
    BY ChunkPlaces
  <2>2. m2[l][At(w, col, d) + j] = m[l][At(w, col, d) + j]
    BY <1>3, <1>5, <2>1
  <2>3. m2[q][w.buf + j] = m[q][w.buf + j]
    BY <1>2, <2>1
  <2> QED BY <1>5, <2>2, <2>3 DEF InboxOwned
<1>6. QED
  BY <1>4, <1>5 DEF GatherSums, InboxOwned

LEMMA GatherRoundEnds ==
  ASSUME NEW w, NEW col, NEW m, NEW b, NEW t, GatherSums(w, col, m, b, t, RanksOf(w))
  PROVE  GatherSums(w, col, m, b, t + 1, {}) /\ InboxOwned(w, col, m, t + 1, {})
  BY DEF GatherSums, InboxOwned

\* In the end every rank holds the same sum of what all ranks put in.
LEMMA GatherEnds ==
  ASSUME NEW w, NEW col, ReduceFits(w, col), NEW m, NEW b, NEW t, t = w.ranks - 2,
         GatherSums(w, col, m, b, t, RanksOf(w)), NEW i \in col.off .. col.off + col.count - 1
  PROVE  \A k \in RanksOf(w) :
           /\ IsSum(m[k][i], [q \in RanksOf(w) |-> b[q][i]])
           /\ \A q \in RanksOf(w) : m[q][i] = m[k][i]
<1>1. w.ranks \in Nat \ {0} /\ w.ranks - 1 \in RanksOf(w) /\ t + 1 = w.ranks - 1
  <2>1. PICK N \in Nat : N = w.ranks /\ N >= 2
    BY DEF ReduceFits
  <2>2. N - 1 \in 0 .. N - 1 /\ (N - 2) + 1 = N - 1 /\ N \in Nat \ {0}
    BY <2>1
  <2> QED BY <2>1, <2>2 DEF RanksOf
<1>2. PICK c \in RanksOf(w) : i \in ChunkWords(w, col, c)
  BY ChunksCover
<1>3. PICK l \in RanksOf(w) : Dist(w, l, c) = w.ranks - 1
  BY <1>1, RankAtDist
<1>4. IsSum(m[l][i], [q \in RanksOf(w) |-> b[q][i]])
  <2>1. Sums(w, b, c, w.ranks - 1, m[l][i], i)
    BY <1>2, <1>3 DEF GatherSums
  <2> QED BY <1>1, <2>1, SumsAll
<1>5. ASSUME NEW k \in RanksOf(w) PROVE m[k][i] = m[l][i]
  <2>1. CASE Dist(w, k, c) = w.ranks - 1
    BY <1>1, <1>3, <2>1, DistFacts
  <2>2. CASE Dist(w, k, c) # w.ranks - 1
    <3>1. Dist(w, k, c) < t + 1
      <4>1. Dist(w, k, c) \in Nat /\ Dist(w, k, c) <= w.ranks - 1
        BY <1>1, DistFacts
      <4> QED BY <1>1, <2>2, <4>1
    <3> QED BY <1>2, <1>3, <3>1 DEF GatherSums
  <2> QED BY <2>1, <2>2
<1>6. QED
  BY <1>4, <1>5

-----------------------------------------------------------------------------
(* The broadcast.                                                            *)

BroadcastFits(w, col) ==
  /\ w.buf \in Nat /\ w.scratch \in Nat /\ w.ranks \in Nat \ {0}
  /\ col.off \in Nat /\ col.count \in Nat \ {0} /\ col.off + col.count <= w.buf
  /\ col.root \in RanksOf(w)

Region(col) == col.off .. col.off + col.count - 1

\* The ranks below upto have what the root holds.
Told(w, col, m, b, upto) ==
  \A k \in RanksOf(w), i \in UserWords(w) :
    m[k][i] = IF k < upto /\ i \in Region(col) THEN b[col.root][i] ELSE b[k][i]

LEMMA TellStep ==
  ASSUME NEW w, NEW col, BroadcastFits(w, col), NEW m, NEW m2, NEW b, NEW k \in RanksOf(w),
         Told(w, col, m, b, k),
         k = col.root => m2 = m,
         k # col.root => MovedTo(w, m, m2, col.root, col.off, k, col.off, col.count)
  PROVE  Told(w, col, m2, b, k + 1)
<1>1. k \in Nat /\ \A q \in RanksOf(w) : q < k + 1 <=> q < k \/ q = k
  BY DEF RanksOf, BroadcastFits
<1>2. CASE k = col.root
  BY <1>1, <1>2 DEF Told
<1>3. CASE k # col.root
  <2>1. ASSUME NEW q \in RanksOf(w), NEW i \in UserWords(w)
        PROVE  m2[q][i] = IF q < k + 1 /\ i \in Region(col) THEN b[col.root][i] ELSE b[q][i]
    <3>1. i \in WindowWords(w)
      BY DEF UserWords, WindowWords, BroadcastFits
    <3>2. CASE q = k /\ i \in Region(col)
      <4>1. PICK j \in 0 .. col.count - 1 : i = col.off + j
        <5>1. i - col.off \in 0 .. col.count - 1 /\ i = col.off + (i - col.off)
          BY <3>2 DEF Region, BroadcastFits
        <5> QED BY <5>1
      <4>2. m2[k][i] = m[col.root][i]
        BY <1>3, <4>1 DEF MovedTo
      <4>3. m[col.root][i] = b[col.root][i]
        BY DEF Told, BroadcastFits
      <4> QED BY <1>1, <3>2, <4>2, <4>3
    <3>3. CASE ~(q = k /\ i \in Region(col))
      <4>1. m2[q][i] = m[q][i]
        BY <1>3, <3>1, <3>3 DEF MovedTo, OnlyIn, Region
      <4> QED BY <1>1, <3>3, <4>1 DEF Told
    <3> QED BY <3>2, <3>3
  <2> QED BY <2>1 DEF Told
<1>4. QED
  BY <1>2, <1>3

-----------------------------------------------------------------------------
(* The all-gather.                                                           *)

GatherFits(w, col) ==
  /\ w.buf \in Nat /\ w.scratch \in Nat /\ w.ranks \in Nat \ {0}
  /\ col.off \in Nat /\ col.count \in Nat \ {0} /\ col.off + col.count <= w.buf
  /\ col.out \in Nat /\ col.out + w.ranks * col.count <= w.buf /\ col.count <= w.scratch

Offsets(col) == 0 .. col.count - 1

\* Where the inputs of rank q go.
Slot(col, q) == col.out + q * col.count

LEMMA SlotBounds ==
  ASSUME NEW w, NEW col, GatherFits(w, col), NEW q \in RanksOf(w)
  PROVE  Slot(col, q) \in Nat /\ Slot(col, q) + col.count <= w.buf
<1> PICK N \in Nat \ {0}, C \in Nat \ {0}, O \in Nat, B \in Nat :
      /\ N = w.ranks /\ C = col.count /\ O = col.out /\ B = w.buf /\ O + N * C <= B
  BY DEF GatherFits
<1>1. q \in Nat /\ q + 1 \in Nat /\ q + 1 <= N
  BY DEF RanksOf
<1>2. (q + 1) * C <= N * C
  BY <1>1, TimesMonotone
<1>3. PICK p \in Nat : p = q * C /\ (q + 1) * C = p + C
  BY <1>1
<1>4. PICK t \in Nat : t = N * C
  OBVIOUS
<1>5. QED
  BY <1>2, <1>3, <1>4 DEF Slot

LEMMA SlotPlace ==
  ASSUME NEW w, NEW col, GatherFits(w, col), NEW q \in RanksOf(w), NEW j \in Offsets(col)
  PROVE  /\ ((Slot(col, q) + j) - col.out) \div col.count = q
         /\ ((Slot(col, q) + j) - col.out) % col.count = j
<1> PICK C \in Nat \ {0}, O \in Nat : C = col.count /\ O = col.out
  BY DEF GatherFits
<1>1. q \in Int /\ j \in 0 .. C - 1
  BY DEF RanksOf, GatherFits, Offsets
<1>2. PICK p \in Int : p = q * C
  BY <1>1
<1>3. (Slot(col, q) + j) - col.out = p + j /\ p + j \in Int
  BY <1>1, <1>2 DEF Slot
<1>4. (p + j) % C = j /\ (p + j) \div C = q
  BY <1>1, <1>2, <1>3, DivUnique
<1>5. QED
  BY <1>3, <1>4

\* No two inputs go to the same place.
LEMMA SlotsApart ==
  ASSUME NEW w, NEW col, GatherFits(w, col), NEW q \in RanksOf(w), NEW j \in Offsets(col),
         NEW p \in RanksOf(w), NEW h \in Offsets(col), Slot(col, q) + j = Slot(col, p) + h
  PROVE  p = q /\ h = j
<1>1. /\ ((Slot(col, q) + j) - col.out) \div col.count = q
      /\ ((Slot(col, q) + j) - col.out) % col.count = j
  BY SlotPlace
<1>2. /\ ((Slot(col, p) + h) - col.out) \div col.count = p
      /\ ((Slot(col, p) + h) - col.out) % col.count = h
  BY SlotPlace
<1>3. (Slot(col, q) + j) - col.out = (Slot(col, p) + h) - col.out
  OBVIOUS
<1> DEFINE place == (Slot(col, q) + j) - col.out
<1>4. place \div col.count = q /\ place \div col.count = p
  BY <1>1, <1>2, <1>3, Zenon
<1>5. place % col.count = j /\ place % col.count = h
  BY <1>1, <1>2, <1>3, Zenon
<1> HIDE DEF place
<1>6. QED
  BY <1>4, <1>5, Zenon

\* The ranks below upto have their inputs in their inboxes.
Snapped(w, col, m, b, upto) ==
  /\ \A k \in RanksOf(w), i \in UserWords(w) : m[k][i] = b[k][i]
  /\ \A k \in RanksOf(w), j \in Offsets(col) : k < upto => m[k][w.buf + j] = b[k][col.off + j]

\* The inputs of rank q have reached rank k.
Reached(q, k, from, upto) == q < from \/ (q = from /\ k < upto)

Placed(w, col, m, b, from, upto) ==
  /\ \A k \in RanksOf(w), j \in Offsets(col) : m[k][w.buf + j] = b[k][col.off + j]
  /\ \A k, q \in RanksOf(w), j \in Offsets(col) :
       Reached(q, k, from, upto) => m[k][Slot(col, q) + j] = b[q][col.off + j]
  /\ \A k \in RanksOf(w), i \in UserWords(w) :
       (\A q \in RanksOf(w), j \in Offsets(col) :
          i = Slot(col, q) + j => ~Reached(q, k, from, upto)) => m[k][i] = b[k][i]

LEMMA SnapStep ==
  ASSUME NEW w, NEW col, GatherFits(w, col), NEW m, NEW m2, NEW b, NEW k \in RanksOf(w),
         Snapped(w, col, m, b, k), MovedTo(w, m, m2, k, col.off, k, w.buf, col.count)
  PROVE  Snapped(w, col, m2, b, k + 1)
<1>1. k \in Nat /\ \A q \in RanksOf(w) : q < k + 1 <=> q < k \/ q = k
  BY DEF RanksOf, GatherFits
<1>2. \A i \in UserWords(w) : i \in WindowWords(w) /\ i \notin w.buf .. w.buf + col.count - 1
  BY DEF UserWords, WindowWords, GatherFits
<1>3. \A q \in RanksOf(w), i \in UserWords(w) : m2[q][i] = b[q][i]
  BY <1>2 DEF MovedTo, OnlyIn, Snapped
<1>4. ASSUME NEW q \in RanksOf(w), NEW j \in Offsets(col), q < k + 1
      PROVE  m2[q][w.buf + j] = b[q][col.off + j]
  <2>1. w.buf + j \in WindowWords(w) /\ col.off + j \in UserWords(w)
    BY DEF WindowWords, UserWords, Offsets, GatherFits
  <2>2. CASE q = k
    <3>1. m2[q][w.buf + j] = m[k][col.off + j]
      BY <2>2 DEF MovedTo, Offsets
    <3> QED BY <2>1, <2>2, <3>1 DEF Snapped
  <2>3. CASE q # k
    <3>1. m2[q][w.buf + j] = m[q][w.buf + j]
      BY <2>1, <2>3 DEF MovedTo, OnlyIn
    <3> QED BY <1>1, <1>4, <2>3, <3>1 DEF Snapped
  <2> QED BY <2>2, <2>3
<1>5. QED
  BY <1>3, <1>4 DEF Snapped

LEMMA SnapEnds ==
  ASSUME NEW w, NEW col, GatherFits(w, col), NEW m, NEW b, Snapped(w, col, m, b, w.ranks)
  PROVE  Placed(w, col, m, b, 0, 0)
<1>1. \A k \in RanksOf(w) : k < w.ranks /\ ~(k < 0)
  BY DEF RanksOf, GatherFits
<1>2. \A q, k \in RanksOf(w) : ~Reached(q, k, 0, 0)
  BY <1>1 DEF Reached
<1>3. QED
  BY <1>1, <1>2 DEF Snapped, Placed

LEMMA PlaceStep ==
  ASSUME NEW w, NEW col, GatherFits(w, col), NEW m, NEW m2, NEW b,
         NEW from \in RanksOf(w), NEW k \in RanksOf(w), Placed(w, col, m, b, from, k),
         MovedTo(w, m, m2, from, w.buf, k, Slot(col, from), col.count)
  PROVE  Placed(w, col, m2, b, from, k + 1)
<1>1. \A p, q \in RanksOf(w) :
        Reached(q, p, from, k + 1) <=> Reached(q, p, from, k) \/ (q = from /\ p = k)
  BY DEF RanksOf, GatherFits, Reached
<1>2. Slot(col, from) \in Nat /\ Slot(col, from) + col.count <= w.buf
  BY SlotBounds
<1>3. /\ col.count \in Nat /\ w.buf \in Nat /\ w.scratch \in Nat /\ col.count <= w.scratch
  BY DEF GatherFits
<1>4. \A j \in Offsets(col) :
        /\ w.buf + j \in WindowWords(w)
        /\ w.buf + j \notin Slot(col, from) .. Slot(col, from) + col.count - 1
  BY <1>2, <1>3 DEF Offsets, WindowWords
<1>5. \A p \in RanksOf(w), j \in Offsets(col) : m2[p][w.buf + j] = b[p][col.off + j]
  BY <1>4 DEF MovedTo, OnlyIn, Placed
<1>6. ASSUME NEW p \in RanksOf(w), NEW q \in RanksOf(w), NEW j \in Offsets(col),
             Reached(q, p, from, k + 1)
      PROVE  m2[p][Slot(col, q) + j] = b[q][col.off + j]
  <2>1. Slot(col, q) + j \in WindowWords(w)
    <3>1. Slot(col, q) \in Nat /\ Slot(col, q) + col.count <= w.buf
      BY SlotBounds
    <3> QED BY <1>3, <3>1 DEF Offsets, WindowWords
  <2>2. CASE q = from /\ p = k
    BY <2>2 DEF MovedTo, Offsets, Placed
  <2>3. CASE ~(q = from /\ p = k)
    <3>1. Reached(q, p, from, k)
      BY <1>1, <1>6, <2>3
    <3>2. p = k => Slot(col, q) + j \notin Slot(col, from) .. Slot(col, from) + col.count - 1
      <4>1. ASSUME p = k, Slot(col, q) + j \in Slot(col, from) .. Slot(col, from) + col.count - 1
            PROVE  FALSE
        <5>1. PICK h \in Offsets(col) : Slot(col, q) + j = Slot(col, from) + h
          <6>1. PICK x \in Nat, y \in Nat : x = Slot(col, q) + j /\ y = Slot(col, from)
            BY <1>2, <2>1 DEF WindowWords, WorldSizes
          <6>2. x - y \in 0 .. col.count - 1 /\ x = y + (x - y)
            BY <1>3, <4>1, <6>1
          <6> QED BY <6>1, <6>2 DEF Offsets
        <5>2. q = from
          BY <5>1, SlotsApart
        <5> QED BY <2>3, <4>1, <5>2
      <4> QED BY <4>1
    <3>3. m2[p][Slot(col, q) + j] = m[p][Slot(col, q) + j]
      BY <2>1, <3>2 DEF MovedTo, OnlyIn
    <3> QED BY <3>1, <3>3 DEF Placed
  <2> QED BY <2>2, <2>3
<1>7. ASSUME NEW p \in RanksOf(w), NEW i \in UserWords(w),
             \A q \in RanksOf(w), j \in Offsets(col) :
               i = Slot(col, q) + j => ~Reached(q, p, from, k + 1)
      PROVE  m2[p][i] = b[p][i]
  <2>1. i \in WindowWords(w) /\ i \in Nat
    BY <1>3 DEF UserWords, WindowWords
  <2>2. p = k => i \notin Slot(col, from) .. Slot(col, from) + col.count - 1
    <3>1. ASSUME p = k, i \in Slot(col, from) .. Slot(col, from) + col.count - 1
          PROVE  FALSE
      <4>1. i - Slot(col, from) \in Offsets(col) /\ i = Slot(col, from) + (i - Slot(col, from))
        BY <1>2, <1>3, <2>1, <3>1 DEF Offsets
      <4>2. ~Reached(from, p, from, k + 1)
        BY <1>7, <4>1
      <4> QED BY <1>1, <3>1, <4>2
    <3> QED BY <3>1
  <2>3. m2[p][i] = m[p][i]
    BY <2>1, <2>2 DEF MovedTo, OnlyIn
  <2>4. \A q \in RanksOf(w), j \in Offsets(col) : i = Slot(col, q) + j => ~Reached(q, p, from, k)
    BY <1>1, <1>7
  <2> QED BY <2>3, <2>4 DEF Placed
<1>8. QED
  BY <1>5, <1>6, <1>7 DEF Placed

LEMMA PlaceRoundEnds ==
  ASSUME NEW w, NEW col, GatherFits(w, col), NEW m, NEW b, NEW from \in RanksOf(w),
         Placed(w, col, m, b, from, w.ranks)
  PROVE  Placed(w, col, m, b, from + 1, 0)
<1>1. \A q, k \in RanksOf(w) : Reached(q, k, from, w.ranks) <=> Reached(q, k, from + 1, 0)
  BY DEF RanksOf, GatherFits, Reached
<1>2. QED
  BY <1>1 DEF Placed

\* In the end the input of every rank is in its slot, and the rest as it was.
LEMMA PlaceEnds ==
  ASSUME NEW w, NEW col, GatherFits(w, col), NEW m, NEW b, Placed(w, col, m, b, w.ranks, 0),
         NEW k \in RanksOf(w), NEW i \in UserWords(w)
  PROVE  m[k][i] =
           IF \E q \in RanksOf(w), j \in Offsets(col) : i = Slot(col, q) + j
           THEN b[(i - col.out) \div col.count][col.off + ((i - col.out) % col.count)]
           ELSE b[k][i]
<1>1. \A q \in RanksOf(w) : Reached(q, k, w.ranks, 0)
  BY DEF RanksOf, GatherFits, Reached
<1>2. ASSUME NEW q \in RanksOf(w), NEW j \in Offsets(col), i = Slot(col, q) + j
      PROVE  m[k][i] = b[(i - col.out) \div col.count][col.off + ((i - col.out) % col.count)]
  <2>1. /\ ((Slot(col, q) + j) - col.out) \div col.count = q
        /\ ((Slot(col, q) + j) - col.out) % col.count = j
    BY SlotPlace
  <2>2. (i - col.out) \div col.count = q /\ (i - col.out) % col.count = j
    BY <1>2, <2>1, Zenon
  <2> QED BY <1>1, <1>2, <2>2 DEF Placed
<1>3. QED
  BY <1>1, <1>2 DEF Placed

-----------------------------------------------------------------------------
(* The invariant.                                                            *)

ReduceStages == {"reduce_send", "reduce_add", "gather_send", "gather_copy"}

\* The ranks after the first k.
After(w, k) == {NextRank(w, q) : q \in 0 .. k - 1}

TypesInv ==
  /\ world \in Sizes \cup {NoWorld} /\ n \in 0 .. MaxRanks /\ WorldSizes(world)
  /\ world # NoWorld => n >= 1
  /\ Windows(world, mem)
  /\ stage \in Stages
  /\ stage = "idle" => call = NoCall /\ s = 0 /\ r = 0
  /\ stage # "idle" => /\ call \in Calls /\ s \in Ranks /\ r \in Ranks
                       /\ Windows(world, begun) /\ served < made
  /\ status \in {0, -1, -2} /\ made \in 0 .. MaxCalls /\ served \in 0 .. made

\* What the loop in progress has done so far.
LoopInv ==
  /\ stage \in ReduceStages =>
       /\ call.op = "allreduce" /\ ReduceFits(world, call) /\ s \in 0 .. n - 2
       /\ Frame(world, call, mem, begun)
  /\ stage = "reduce_send" =>
       /\ ReduceSums(world, call, mem, begun, s, {})
       /\ InboxSums(world, call, mem, begun, s, After(world, r))
  /\ stage = "reduce_add" =>
       /\ ReduceSums(world, call, mem, begun, s, 0 .. r - 1)
       /\ InboxSums(world, call, mem, begun, s, r .. n - 1)
  /\ stage = "gather_send" =>
       /\ GatherSums(world, call, mem, begun, s, {})
       /\ InboxOwned(world, call, mem, s, After(world, r))
  /\ stage = "gather_copy" =>
       /\ GatherSums(world, call, mem, begun, s, 0 .. r - 1)
       /\ InboxOwned(world, call, mem, s, r .. n - 1)
  /\ stage = "broadcast" =>
       /\ call.op = "broadcast" /\ BroadcastFits(world, call)
       /\ Told(world, call, mem, begun, r)
  /\ stage = "snapshot" =>
       /\ call.op = "allgather" /\ GatherFits(world, call) /\ s = 0
       /\ Snapped(world, call, mem, begun, r)
  /\ stage = "place" =>
       /\ call.op = "allgather" /\ GatherFits(world, call)
       /\ Placed(world, call, mem, begun, s, r)

Inv == TypesInv /\ LoopInv

\* A call that enters the loops of the all-reduce fits the buffers, as checked.
LEMMA WorldFacts ==
  ASSUME TypesInv
  PROVE  /\ world.ranks \in Nat /\ world.buf \in Nat /\ world.scratch \in Nat
         /\ n = world.ranks /\ Ranks = RanksOf(world) /\ WorldSizes(world)
         /\ Inbox = world.buf /\ Window = world.buf + world.scratch
         /\ stage # "idle" => world.ranks \in Nat \ {0} /\ n # 0
  BY DEF TypesInv, WorldSizes, n, Ranks, RanksOf, Inbox, Window

LEMMA ChunkIs ==
  ASSUME TypesInv, ReduceFits(world, call), NEW c \in RanksOf(world)
  PROVE  Chunk(c).at = At(world, call, c) /\ Chunk(c).len = Length(world, call, c)
<1>1. ASSUME NEW k \in Nat PROVE call.off + ChunkStart(k) = At(world, call, k)
  BY DEF At, ChunkStart, n
<1>2. c \in Nat /\ c + 1 \in Nat
  BY DEF RanksOf, ReduceFits
<1>3. Chunk(c).at = At(world, call, c)
  BY <1>1, <1>2 DEF Chunk
<1>4. ChunkStart(c) \in Int /\ ChunkStart(c + 1) \in Int
  <2>1. /\ world.ranks \in Nat \ {0} /\ call.count \in Nat
    BY DEF ReduceFits
  <2>2. call.count \div world.ranks \in Int /\ call.count % world.ranks \in Int
    BY <2>1
  <2>3. Min({c, call.count % world.ranks}) \in Int /\ Min({c + 1, call.count % world.ranks}) \in Int
    BY <1>2, <2>2, MinOfTwo
  <2>4. /\ c * (call.count \div world.ranks) \in Int /\ (c + 1) * (call.count \div world.ranks) \in Int
    BY <1>2, <2>2
  <2> QED BY <2>3, <2>4 DEF ChunkStart, n
<1>5. call.off \in Int
  BY DEF ReduceFits
<1>6. Length(world, call, c) = ChunkStart(c + 1) - ChunkStart(c)
  <2>1. Length(world, call, c) = (call.off + ChunkStart(c + 1)) - (call.off + ChunkStart(c))
    BY <1>1, <1>2 DEF Length
  <2> QED BY <1>4, <1>5, <2>1
<1>7. QED
  BY <1>3, <1>6 DEF Chunk

\* The step of a loop that goes on ...
LEMMA GoToTypes ==
  ASSUME TypesInv, stage # "idle", NEW st \in Stages \ {"idle"},
         NEW a \in RanksOf(world), NEW c \in RanksOf(world), GoTo(st, a, c),
         Windows(world, mem')
  PROVE  TypesInv' /\ stage' = st /\ s' = a /\ r' = c
<1>1. UNCHANGED <<world, call, begun, served, made, status>> /\ stage' = st /\ s' = a /\ r' = c
  BY DEF GoTo
<1>2. n' = n /\ Ranks' = Ranks /\ Ranks = RanksOf(world)
  BY <1>1, WorldFacts DEF n, Ranks
<1>3. WorldSizes(world)' /\ Windows(world, mem)' /\ Windows(world, begun)'
  BY <1>1 DEF TypesInv, WorldSizes, Windows, RanksOf, WindowWords
<1>4. QED
  BY <1>1, <1>2, <1>3 DEF TypesInv

\* ... and of a call that returns.
LEMMA ReturnTypes ==
  ASSUME TypesInv, stage # "idle", Return, Windows(world, mem')
  PROVE  Inv'
<1>1. /\ UNCHANGED <<world, made>> /\ stage' = "idle" /\ call' = NoCall /\ s' = 0 /\ r' = 0
      /\ status' = 0 /\ served' = served + 1
  BY DEF Return
<1>2. n' = n
  BY <1>1 DEF n
<1>3. WorldSizes(world)' /\ Windows(world, mem)'
  BY <1>1 DEF TypesInv, WorldSizes, Windows, RanksOf, WindowWords
<1>4. served' \in 0 .. made'
  BY <1>1, BvCommConstants DEF TypesInv
<1>5. TypesInv'
  BY <1>1, <1>2, <1>3, <1>4 DEF TypesInv, Stages
<1>6. LoopInv'
  BY <1>1 DEF LoopInv, ReduceStages
<1>7. QED
  BY <1>5, <1>6 DEF Inv

LEMMA AfterFacts ==
  ASSUME NEW w, w.ranks \in Nat \ {0}
  PROVE  /\ After(w, 0) = {} /\ After(w, w.ranks) = RanksOf(w)
         /\ \A k \in RanksOf(w) : /\ After(w, k + 1) = After(w, k) \cup {NextRank(w, k)}
                                  /\ After(w, k) \in SUBSET RanksOf(w)
<1> PICK N \in Nat \ {0} : N = w.ranks
  OBVIOUS
<1>1. \A q \in RanksOf(w) : NextRank(w, q) \in RanksOf(w)
  BY NextRankIs
<1>2. ASSUME NEW k \in RanksOf(w) PROVE \E q \in RanksOf(w) : k = NextRank(w, q)
  <2>1. CASE k = 0
    <3>1. N - 1 \in RanksOf(w) /\ NextRank(w, N - 1) = 0
      BY DEF RanksOf, NextRank
    <3> QED BY <2>1, <3>1
  <2>2. CASE k # 0
    <3>1. k - 1 \in RanksOf(w) /\ NextRank(w, k - 1) = k
      BY <2>2 DEF RanksOf, NextRank
    <3> QED BY <3>1
  <2> QED BY <2>1, <2>2
<1>3. ASSUME NEW k \in RanksOf(w)
      PROVE  0 .. (k + 1) - 1 = (0 .. k - 1) \cup {k} /\ 0 .. k - 1 \in SUBSET RanksOf(w)
  BY DEF RanksOf
<1>4. 0 .. 0 - 1 = {}
  OBVIOUS
<1>5. QED
  BY <1>1, <1>2, <1>3, <1>4 DEF After, RanksOf

-----------------------------------------------------------------------------
(* One lemma per loop body.                                                   *)

LEMMA LastOrNext ==
  ASSUME TypesInv, stage # "idle"
  PROVE  /\ r \in RanksOf(world) /\ s \in RanksOf(world)
         /\ LastRank => r + 1 = world.ranks
         /\ ~LastRank => r + 1 \in RanksOf(world)
         /\ 0 \in RanksOf(world)
         /\ 0 .. (r + 1) - 1 = (0 .. r - 1) \cup {r}
  BY WorldFacts DEF TypesInv, LastRank, RanksOf

LEMMA SendMoves ==
  ASSUME TypesInv, stage # "idle", ReduceFits(world, call), NEW c \in RanksOf(world),
         mem' = SentOn(r, Chunk(c))
  PROVE  /\ MovedTo(world, mem, mem', r, At(world, call, c), NextRank(world, r), world.buf,
                    Length(world, call, c))
         /\ Windows(world, mem')
<1>1. PICK a \in Nat, len \in Nat :
        /\ a = At(world, call, c) /\ len = Length(world, call, c)
        /\ a + len <= world.buf /\ len <= world.scratch
  BY ChunkPlaces
<1>2. /\ r \in RanksOf(world) /\ NextRank(world, r) \in RanksOf(world)
      /\ (r + 1) % n = NextRank(world, r)
  BY WorldFacts, LastOrNext, NextRankIs
<1>3. mem' = Moved(r, a, NextRank(world, r), world.buf, len)
  BY <1>1, <1>2, ChunkIs, WorldFacts DEF SentOn
<1>4. /\ world.buf \in Nat /\ world.scratch \in Nat
      /\ a + len <= world.buf + world.scratch /\ world.buf + len <= world.buf + world.scratch
  BY <1>1, WorldFacts
<1>5. MovedTo(world, mem, mem', r, a, NextRank(world, r), world.buf, len)
  BY <1>2, <1>3, <1>4, WorldFacts, MoveFacts DEF TypesInv
<1>6. QED
  BY <1>1, <1>5 DEF MovedTo, OnlyIn

LEMMA ReduceSendKeeps ==
  ASSUME Inv, ReduceSend PROVE Inv'
<1> DEFINE c == (r - s + n) % n
<1>1. /\ stage = "reduce_send" /\ mem' = SentOn(r, Chunk(c))
      /\ IF LastRank THEN GoTo("reduce_add", s, 0) ELSE GoTo("reduce_send", s, r + 1)
  BY DEF ReduceSend, ForRanks
<1>2. TypesInv /\ stage # "idle" /\ ReduceFits(world, call) /\ s \in 0 .. world.ranks - 2
  BY <1>1, WorldFacts DEF Inv, LoopInv, ReduceStages
<1>3. c \in RanksOf(world) /\ Dist(world, r, c) = s
  BY <1>2, WorldFacts, LastOrNext, ChunkAtRank
<1> HIDE DEF c
<1>4. /\ MovedTo(world, mem, mem', r, At(world, call, c), NextRank(world, r), world.buf,
                 Length(world, call, c))
      /\ Windows(world, mem')
  BY <1>1, <1>2, <1>3, SendMoves
<1>5. After(world, r) \in SUBSET RanksOf(world) /\ r \in RanksOf(world)
  BY <1>2, WorldFacts, LastOrNext, AfterFacts
<1>6. /\ Frame(world, call, mem, begun) /\ ReduceSums(world, call, mem, begun, s, {})
      /\ InboxSums(world, call, mem, begun, s, After(world, r))
  BY <1>1 DEF Inv, LoopInv, ReduceStages
<1>7. /\ Frame(world, call, mem', begun) /\ ReduceSums(world, call, mem', begun, s, {})
      /\ InboxSums(world, call, mem', begun, s, After(world, r) \cup {NextRank(world, r)})
  BY <1>2, <1>3, <1>4, <1>5, <1>6, ReduceSendStep
<1>8. InboxSums(world, call, mem', begun, s, After(world, r + 1))
  BY <1>2, <1>5, <1>7, WorldFacts, AfterFacts
<1>9. UNCHANGED <<world, call, begun>> /\ n' = n
  BY <1>1 DEF GoTo, n
<1>10. call.op = "allreduce" /\ s \in 0 .. n - 2
  BY <1>1 DEF Inv, LoopInv, ReduceStages
<1>11. CASE LastRank
  <2>1. TypesInv' /\ stage' = "reduce_add" /\ s' = s /\ r' = 0
    BY <1>1, <1>2, <1>4, <1>11, GoToTypes, LastOrNext DEF Stages
  <2>2. After(world, r + 1) = 0 .. n - 1 /\ 0 .. 0 - 1 = {}
    BY <1>2, <1>11, WorldFacts, LastOrNext, AfterFacts DEF RanksOf
  <2>3. LoopInv'
    BY <1>2, <1>7, <1>8, <1>9, <1>10, <2>1, <2>2 DEF LoopInv, ReduceStages
  <2> QED BY <2>1, <2>3 DEF Inv
<1>12. CASE ~LastRank
  <2>1. TypesInv' /\ stage' = "reduce_send" /\ s' = s /\ r' = r + 1
    BY <1>1, <1>2, <1>4, <1>12, GoToTypes, LastOrNext DEF Stages
  <2>2. LoopInv'
    BY <1>2, <1>7, <1>8, <1>9, <1>10, <2>1 DEF LoopInv, ReduceStages
  <2> QED BY <2>1, <2>2 DEF Inv
<1>13. QED
  BY <1>11, <1>12

LEMMA ReduceAddKeeps ==
  ASSUME SumLaws, Inv, ReduceAdd PROVE Inv'
<1> DEFINE c == (r - s - 1 + n) % n
<1>1. /\ stage = "reduce_add" /\ mem' = TakenIn(r, Chunk(c), Plus)
      /\ IF LastRank THEN AfterReduce ELSE GoTo("reduce_add", s, r + 1)
  BY DEF ReduceAdd, ForRanks
<1>2. TypesInv /\ stage # "idle" /\ ReduceFits(world, call) /\ s \in 0 .. world.ranks - 2
  BY <1>1, WorldFacts DEF Inv, LoopInv, ReduceStages
<1>3. c \in RanksOf(world) /\ Dist(world, r, c) = s + 1
  <2>1. s + 1 \in RanksOf(world) /\ r - s - 1 + n = r - (s + 1) + world.ranks
    BY <1>2, WorldFacts, LastOrNext DEF RanksOf
  <2> QED BY <1>2, <2>1, WorldFacts, LastOrNext, ChunkAtRank
<1> HIDE DEF c
<1>4. /\ OnlyIn(world, mem, mem', r, At(world, call, c), Length(world, call, c))
      /\ \A j \in 0 .. Length(world, call, c) - 1 : mem'[r][At(world, call, c) + j] =
           Plus(mem[r][At(world, call, c) + j], mem[r][world.buf + j])
  <2> DEFINE chunk == Chunk(c)
  <2>1. /\ chunk.at = At(world, call, c) /\ chunk.len = Length(world, call, c)
        /\ chunk.at \in Nat /\ chunk.len \in Nat /\ chunk.at + chunk.len <= world.buf
    BY <1>2, <1>3, ChunkIs, ChunkPlaces
  <2>2. mem' = TakenIn(r, chunk, Plus)
    BY <1>1
  <2> HIDE DEF chunk
  <2>3. WorldSizes(world) /\ Windows(world, mem) /\ r \in RanksOf(world)
    BY <1>2, LastOrNext DEF TypesInv
  <2>4. /\ OnlyIn(world, mem, mem', r, chunk.at, chunk.len)
        /\ \A j \in 0 .. chunk.len - 1 : mem'[r][chunk.at + j] =
             Plus(mem[r][chunk.at + j], mem[r][world.buf + j])
    BY <2>1, <2>2, <2>3, AddFacts
  <2> QED BY <2>1, <2>4
<1>5. /\ 0 .. r - 1 \in SUBSET RanksOf(world) /\ r .. n - 1 \in SUBSET RanksOf(world)
      /\ r \in r .. n - 1 /\ r \notin 0 .. r - 1 /\ (r + 1) .. n - 1 \subseteq r .. n - 1
  BY <1>2, WorldFacts, LastOrNext DEF RanksOf
<1>6. /\ Frame(world, call, mem, begun) /\ ReduceSums(world, call, mem, begun, s, 0 .. r - 1)
      /\ InboxSums(world, call, mem, begun, s, r .. n - 1)
  BY <1>1 DEF Inv, LoopInv, ReduceStages
<1>7. /\ ReduceSums(world, call, mem', begun, s, (0 .. r - 1) \cup {r})
      /\ InboxSums(world, call, mem', begun, s, r .. n - 1)
  <2> DEFINE done == 0 .. r - 1
             full == r .. n - 1
  <2>1. done \in SUBSET RanksOf(world) /\ full \in SUBSET RanksOf(world) /\ r \in full /\ r \notin done
    BY <1>5
  <2>2. ReduceSums(world, call, mem, begun, s, done) /\ InboxSums(world, call, mem, begun, s, full)
    BY <1>6
  <2> HIDE DEF done, full
  <2>3. ReduceSums(world, call, mem', begun, s, done \cup {r}) /\ InboxSums(world, call, mem', begun, s, full)
    BY <1>2, <1>3, <1>4, <2>1, <2>2, ReduceAddStep
  <2> QED BY <2>3 DEF done, full
<1>8. Frame(world, call, mem', begun) /\ Windows(world, mem')
  <2>1. Frame(world, call, mem', begun)
    BY <1>2, <1>3, <1>4, <1>5, <1>6, TakenLeaves
  <2> QED BY <1>4, <2>1 DEF OnlyIn
<1>9. /\ ReduceSums(world, call, mem', begun, s, 0 .. (r + 1) - 1)
      /\ InboxSums(world, call, mem', begun, s, (r + 1) .. n - 1)
  BY <1>2, <1>5, <1>7, LastOrNext DEF InboxSums
<1>10. UNCHANGED <<world, call, begun>> /\ n' = n
  BY <1>1 DEF AfterReduce, GoTo, n
<1>11. call.op = "allreduce"
  BY <1>1 DEF Inv, LoopInv, ReduceStages
<1>12. CASE ~LastRank
  <2>1. TypesInv' /\ stage' = "reduce_add" /\ s' = s /\ r' = r + 1
    BY <1>1, <1>2, <1>8, <1>12, GoToTypes, LastOrNext DEF Stages
  <2>2. LoopInv'
    BY <1>2, <1>8, <1>9, <1>10, <1>11, <2>1, WorldFacts DEF LoopInv, ReduceStages
  <2> QED BY <2>1, <2>2 DEF Inv
<1>13. CASE LastRank
  <2>1. ReduceSums(world, call, mem', begun, s, RanksOf(world))
    BY <1>2, <1>9, <1>13, LastOrNext DEF RanksOf
  <2>2. CASE s = n - 2
    <3>1. GatherSums(world, call, mem', begun, 0, {}) /\ InboxOwned(world, call, mem', 0, {})
      BY <1>2, <2>1, <2>2, WorldFacts, GatherStarts
    <3>2. TypesInv' /\ stage' = "gather_send" /\ s' = 0 /\ r' = 0
      <4>1. GoTo("gather_send", 0, 0)
        BY <1>1, <1>13, <2>2 DEF AfterReduce
      <4> QED BY <1>2, <1>8, <4>1, GoToTypes, LastOrNext DEF Stages
    <3>3. 0 \in 0 .. n - 2
      BY <1>2, WorldFacts
    <3>4. After(world, 0) = {}
      BY <1>2, WorldFacts, AfterFacts
    <3>5. LoopInv'
      BY <1>2, <1>8, <1>10, <1>11, <3>1, <3>2, <3>3, <3>4 DEF LoopInv, ReduceStages
    <3> QED BY <3>2, <3>5 DEF Inv
  <2>3. CASE s # n - 2
    <3>1. /\ ReduceSums(world, call, mem', begun, s + 1, {})
          /\ InboxSums(world, call, mem', begun, s + 1, {})
      BY <2>1, ReduceRoundEnds
    <3>2. s + 1 \in 0 .. n - 2 /\ s + 1 \in RanksOf(world)
      BY <1>2, <2>3, WorldFacts DEF RanksOf
    <3>3. TypesInv' /\ stage' = "reduce_send" /\ s' = s + 1 /\ r' = 0
      <4>1. GoTo("reduce_send", s + 1, 0)
        BY <1>1, <1>13, <2>3 DEF AfterReduce
      <4> QED BY <1>2, <1>8, <3>2, <4>1, GoToTypes, LastOrNext DEF Stages
    <3>4. After(world, 0) = {}
      BY <1>2, WorldFacts, AfterFacts
    <3>5. LoopInv'
      BY <1>2, <1>8, <1>10, <1>11, <3>1, <3>2, <3>3, <3>4 DEF LoopInv, ReduceStages
    <3> QED BY <3>3, <3>5 DEF Inv
  <2> QED BY <2>2, <2>3
<1>14. QED
  BY <1>12, <1>13

LEMMA GatherSendKeeps ==
  ASSUME Inv, GatherSend PROVE Inv'
<1> DEFINE c == (r - s + 1 + n) % n
<1>1. /\ stage = "gather_send" /\ mem' = SentOn(r, Chunk(c))
      /\ IF LastRank THEN GoTo("gather_copy", s, 0) ELSE GoTo("gather_send", s, r + 1)
  BY DEF GatherSend, ForRanks
<1>2. TypesInv /\ stage # "idle" /\ ReduceFits(world, call) /\ s \in 0 .. world.ranks - 2
  BY <1>1, WorldFacts DEF Inv, LoopInv, ReduceStages
<1>3. c \in RanksOf(world) /\ Dist(world, r, c) = IF s = 0 THEN world.ranks - 1 ELSE s - 1
  <2>1. r \in RanksOf(world) /\ s \in RanksOf(world) /\ world.ranks \in Nat \ {0}
    BY <1>2, WorldFacts, LastOrNext
  <2>2. /\ (r - s + 1 + world.ranks) % world.ranks \in RanksOf(world)
        /\ Dist(world, r, (r - s + 1 + world.ranks) % world.ranks) =
             IF s = 0 THEN world.ranks - 1 ELSE s - 1
    BY <2>1, ChunkGathered
  <2> QED BY <2>2 DEF n
<1> HIDE DEF c
<1>4. /\ MovedTo(world, mem, mem', r, At(world, call, c), NextRank(world, r), world.buf,
                 Length(world, call, c))
      /\ Windows(world, mem')
  BY <1>1, <1>2, <1>3, SendMoves
<1>5. After(world, r) \in SUBSET RanksOf(world) /\ r \in RanksOf(world)
  BY <1>2, WorldFacts, LastOrNext, AfterFacts
<1>6. /\ Frame(world, call, mem, begun) /\ GatherSums(world, call, mem, begun, s, {})
      /\ InboxOwned(world, call, mem, s, After(world, r))
  BY <1>1 DEF Inv, LoopInv, ReduceStages
<1>7. /\ Frame(world, call, mem', begun) /\ GatherSums(world, call, mem', begun, s, {})
      /\ InboxOwned(world, call, mem', s, After(world, r) \cup {NextRank(world, r)})
  BY <1>2, <1>3, <1>4, <1>5, <1>6, GatherSendStep
<1>8. InboxOwned(world, call, mem', s, After(world, r + 1))
  BY <1>2, <1>5, <1>7, WorldFacts, AfterFacts
<1>9. UNCHANGED <<world, call, begun>> /\ n' = n
  BY <1>1 DEF GoTo, n
<1>10. call.op = "allreduce" /\ s \in 0 .. n - 2
  BY <1>1 DEF Inv, LoopInv, ReduceStages
<1>11. CASE LastRank
  <2>1. TypesInv' /\ stage' = "gather_copy" /\ s' = s /\ r' = 0
    BY <1>1, <1>2, <1>4, <1>11, GoToTypes, LastOrNext DEF Stages
  <2>2. After(world, r + 1) = 0 .. n - 1 /\ 0 .. 0 - 1 = {}
    BY <1>2, <1>11, WorldFacts, LastOrNext, AfterFacts DEF RanksOf
  <2>3. LoopInv'
    BY <1>2, <1>7, <1>8, <1>9, <1>10, <2>1, <2>2 DEF LoopInv, ReduceStages
  <2> QED BY <2>1, <2>3 DEF Inv
<1>12. CASE ~LastRank
  <2>1. TypesInv' /\ stage' = "gather_send" /\ s' = s /\ r' = r + 1
    BY <1>1, <1>2, <1>4, <1>12, GoToTypes, LastOrNext DEF Stages
  <2>2. LoopInv'
    BY <1>2, <1>7, <1>8, <1>9, <1>10, <2>1 DEF LoopInv, ReduceStages
  <2> QED BY <2>1, <2>2 DEF Inv
<1>13. QED
  BY <1>11, <1>12

\* What a pass of the all-gather leaves, whether it is the last one or not.
LEMMA GatherCopyLeaves ==
  ASSUME Inv, GatherCopy
  PROVE  /\ TypesInv /\ stage # "idle" /\ ReduceFits(world, call) /\ s \in 0 .. world.ranks - 2
         /\ call.op = "allreduce" /\ Windows(world, mem') /\ Frame(world, call, mem', begun)
         /\ GatherSums(world, call, mem', begun, s, 0 .. (r + 1) - 1)
         /\ InboxOwned(world, call, mem', s, (r + 1) .. n - 1)
<1> DEFINE c == (r - s + n) % n
<1>1. /\ stage = "gather_copy"
      /\ mem' = [mem EXCEPT ![r] = [i \in DOMAIN @ |->
                   IF i \in Chunk(c).at .. Chunk(c).at + Chunk(c).len - 1
                   THEN mem[r][world.buf + (i - Chunk(c).at)] ELSE @[i]]]
  BY DEF GatherCopy, ForRanks, TakenIn, Inbox
<1>2. TypesInv /\ stage # "idle" /\ ReduceFits(world, call) /\ s \in 0 .. world.ranks - 2
  BY <1>1, WorldFacts DEF Inv, LoopInv, ReduceStages
<1>3. c \in RanksOf(world) /\ Dist(world, r, c) = s
  BY <1>2, WorldFacts, LastOrNext, ChunkAtRank
<1> HIDE DEF c
<1>4. /\ OnlyIn(world, mem, mem', r, At(world, call, c), Length(world, call, c))
      /\ \A j \in 0 .. Length(world, call, c) - 1 :
           mem'[r][At(world, call, c) + j] = mem[r][world.buf + j]
  <2> DEFINE chunk == Chunk(c)
  <2>1. /\ chunk.at = At(world, call, c) /\ chunk.len = Length(world, call, c)
        /\ chunk.at \in Nat /\ chunk.len \in Nat /\ chunk.at + chunk.len <= world.buf
    BY <1>2, <1>3, ChunkIs, ChunkPlaces
  <2>2. mem' = [mem EXCEPT ![r] = [i \in DOMAIN @ |->
                  IF i \in chunk.at .. chunk.at + chunk.len - 1
                  THEN mem[r][world.buf + (i - chunk.at)] ELSE @[i]]]
    BY <1>1
  <2> HIDE DEF chunk
  <2>3. WorldSizes(world) /\ Windows(world, mem) /\ r \in RanksOf(world)
    BY <1>2, LastOrNext DEF TypesInv
  <2>4. /\ OnlyIn(world, mem, mem', r, chunk.at, chunk.len)
        /\ \A j \in 0 .. chunk.len - 1 : mem'[r][chunk.at + j] = mem[r][world.buf + j]
    BY <2>1, <2>2, <2>3, CopyFacts
  <2> QED BY <2>1, <2>4
<1>5. /\ 0 .. r - 1 \in SUBSET RanksOf(world) /\ r .. n - 1 \in SUBSET RanksOf(world)
      /\ r \in r .. n - 1 /\ r \notin 0 .. r - 1 /\ (r + 1) .. n - 1 \subseteq r .. n - 1
  BY <1>2, WorldFacts, LastOrNext DEF RanksOf
<1>6. /\ Frame(world, call, mem, begun) /\ GatherSums(world, call, mem, begun, s, 0 .. r - 1)
      /\ InboxOwned(world, call, mem, s, r .. n - 1) /\ call.op = "allreduce"
  BY <1>1 DEF Inv, LoopInv, ReduceStages
<1>7. /\ GatherSums(world, call, mem', begun, s, (0 .. r - 1) \cup {r})
      /\ InboxOwned(world, call, mem', s, r .. n - 1)
  <2> DEFINE done == 0 .. r - 1
             full == r .. n - 1
  <2>1. done \in SUBSET RanksOf(world) /\ full \in SUBSET RanksOf(world) /\ r \in full /\ r \notin done
    BY <1>5
  <2>2. GatherSums(world, call, mem, begun, s, done) /\ InboxOwned(world, call, mem, s, full)
    BY <1>6
  <2> HIDE DEF done, full
  <2>3. GatherSums(world, call, mem', begun, s, done \cup {r}) /\ InboxOwned(world, call, mem', s, full)
    BY <1>2, <1>3, <1>4, <2>1, <2>2, GatherCopyStep
  <2> QED BY <2>3 DEF done, full
<1>8. Frame(world, call, mem', begun) /\ Windows(world, mem')
  <2>1. Frame(world, call, mem', begun)
    BY <1>2, <1>3, <1>4, <1>5, <1>6, TakenLeaves
  <2> QED BY <1>4, <2>1 DEF OnlyIn
<1>9. /\ GatherSums(world, call, mem', begun, s, 0 .. (r + 1) - 1)
      /\ InboxOwned(world, call, mem', s, (r + 1) .. n - 1)
  BY <1>2, <1>5, <1>7, LastOrNext DEF InboxOwned
<1>10. QED
  BY <1>2, <1>6, <1>8, <1>9

LEMMA GatherCopyKeeps ==
  ASSUME Inv, GatherCopy PROVE Inv'
<1>1. /\ TypesInv /\ stage # "idle" /\ ReduceFits(world, call) /\ s \in 0 .. world.ranks - 2
      /\ call.op = "allreduce" /\ Windows(world, mem') /\ Frame(world, call, mem', begun)
      /\ GatherSums(world, call, mem', begun, s, 0 .. (r + 1) - 1)
      /\ InboxOwned(world, call, mem', s, (r + 1) .. n - 1)
  BY GatherCopyLeaves
<1>2. IF LastRank THEN IF s = n - 2 THEN Return ELSE GoTo("gather_send", s + 1, 0)
      ELSE GoTo("gather_copy", s, r + 1)
  BY DEF GatherCopy, ForRanks
<1>3. CASE ~LastRank
  <2>1. GoTo("gather_copy", s, r + 1)
    BY <1>2, <1>3
  <2>2. TypesInv' /\ stage' = "gather_copy" /\ s' = s /\ r' = r + 1
    BY <1>1, <1>3, <2>1, GoToTypes, LastOrNext DEF Stages
  <2>3. UNCHANGED <<world, call, begun>> /\ n' = n
    BY <2>1 DEF GoTo, n
  <2>4. LoopInv'
    BY <1>1, <2>2, <2>3, WorldFacts DEF LoopInv, ReduceStages
  <2> QED BY <2>2, <2>4 DEF Inv
<1>4. CASE LastRank /\ s = n - 2
  BY <1>1, <1>2, <1>4, ReturnTypes
<1>5. CASE LastRank /\ s # n - 2
  <2>1. GoTo("gather_send", s + 1, 0)
    BY <1>2, <1>5
  <2>2. GatherSums(world, call, mem', begun, s, RanksOf(world))
    BY <1>1, <1>5, LastOrNext DEF RanksOf
  <2>3. /\ GatherSums(world, call, mem', begun, s + 1, {})
        /\ InboxOwned(world, call, mem', s + 1, {})
    BY <2>2, GatherRoundEnds
  <2>4. s + 1 \in 0 .. n - 2 /\ s + 1 \in RanksOf(world)
    BY <1>1, <1>5, WorldFacts DEF RanksOf
  <2>5. TypesInv' /\ stage' = "gather_send" /\ s' = s + 1 /\ r' = 0
    BY <1>1, <2>1, <2>4, GoToTypes, LastOrNext DEF Stages
  <2>6. After(world, 0) = {}
    BY <1>1, WorldFacts, AfterFacts
  <2>7. UNCHANGED <<world, call, begun>> /\ n' = n
    BY <2>1 DEF GoTo, n
  <2>8. LoopInv'
    BY <1>1, <2>3, <2>4, <2>5, <2>6, <2>7 DEF LoopInv, ReduceStages
  <2> QED BY <2>5, <2>8 DEF Inv
<1>6. QED
  BY <1>3, <1>4, <1>5

LEMMA BroadcastLeaves ==
  ASSUME Inv, BroadcastTo
  PROVE  /\ TypesInv /\ stage = "broadcast" /\ BroadcastFits(world, call) /\ call.op = "broadcast"
         /\ Windows(world, mem') /\ Told(world, call, mem', begun, r + 1)
<1>1. /\ stage = "broadcast"
      /\ mem' = IF r = call.root THEN mem ELSE Moved(call.root, call.off, r, call.off, call.count)
  BY DEF BroadcastTo, ForRanks
<1>2. /\ TypesInv /\ stage # "idle" /\ BroadcastFits(world, call) /\ call.op = "broadcast"
      /\ Told(world, call, mem, begun, r)
  BY <1>1 DEF Inv, LoopInv
<1>3. r \in RanksOf(world) /\ WorldSizes(world) /\ Windows(world, mem)
  BY <1>2, LastOrNext DEF TypesInv
<1>4. /\ call.root \in RanksOf(world) /\ call.off \in Nat /\ call.count \in Nat
      /\ call.off + call.count <= world.buf + world.scratch
  BY <1>2 DEF BroadcastFits
<1>5. r # call.root => MovedTo(world, mem, mem', call.root, call.off, r, call.off, call.count)
  BY <1>1, <1>3, <1>4, MoveFacts
<1>6. r = call.root => mem' = mem
  BY <1>1
<1>7. Windows(world, mem')
  BY <1>3, <1>5, <1>6 DEF MovedTo, OnlyIn
<1>8. Told(world, call, mem', begun, r + 1)
  BY <1>2, <1>3, <1>5, <1>6, TellStep
<1>9. QED
  BY <1>1, <1>2, <1>7, <1>8

LEMMA BroadcastKeeps ==
  ASSUME Inv, BroadcastTo PROVE Inv'
<1>1. /\ TypesInv /\ stage = "broadcast" /\ BroadcastFits(world, call) /\ call.op = "broadcast"
      /\ Windows(world, mem') /\ Told(world, call, mem', begun, r + 1)
  BY BroadcastLeaves
<1>2. CASE LastRank
  <2>1. Return
    BY <1>2 DEF BroadcastTo, ForRanks
  <2> QED BY <1>1, <2>1, ReturnTypes
<1>3. CASE ~LastRank
  <2>1. GoTo("broadcast", s, r + 1)
    BY <1>3 DEF BroadcastTo, ForRanks
  <2>2. TypesInv' /\ stage' = "broadcast" /\ r' = r + 1
    BY <1>1, <1>3, <2>1, GoToTypes, LastOrNext DEF Stages
  <2>3. LoopInv'
    BY <1>1, <2>1, <2>2 DEF LoopInv, ReduceStages, GoTo
  <2> QED BY <2>2, <2>3 DEF Inv
<1>4. QED
  BY <1>2, <1>3

LEMMA SnapshotKeeps ==
  ASSUME Inv, Snapshot PROVE Inv'
<1>1. /\ stage = "snapshot" /\ mem' = Moved(r, call.off, r, Inbox, call.count)
      /\ IF LastRank THEN GoTo("place", 0, 0) ELSE GoTo("snapshot", s, r + 1)
  BY DEF Snapshot, ForRanks
<1>2. /\ TypesInv /\ stage # "idle" /\ GatherFits(world, call) /\ call.op = "allgather" /\ s = 0
      /\ Snapped(world, call, mem, begun, r)
  BY <1>1 DEF Inv, LoopInv
<1>3. r \in RanksOf(world) /\ WorldSizes(world) /\ Windows(world, mem) /\ Inbox = world.buf
  BY <1>2, LastOrNext, WorldFacts DEF TypesInv
<1>4. /\ call.off \in Nat /\ call.count \in Nat /\ world.buf \in Nat
      /\ call.off + call.count <= world.buf + world.scratch
      /\ world.buf + call.count <= world.buf + world.scratch
  BY <1>2 DEF GatherFits
<1>5. MovedTo(world, mem, mem', r, call.off, r, world.buf, call.count)
  BY <1>1, <1>3, <1>4, MoveFacts
<1>6. Windows(world, mem') /\ Snapped(world, call, mem', begun, r + 1)
  BY <1>2, <1>3, <1>5, SnapStep DEF MovedTo, OnlyIn
<1>7. CASE LastRank
  <2>1. Placed(world, call, mem', begun, 0, 0)
    BY <1>2, <1>6, <1>7, LastOrNext, SnapEnds
  <2>2. GoTo("place", 0, 0)
    BY <1>1, <1>7
  <2>3. TypesInv' /\ stage' = "place" /\ s' = 0 /\ r' = 0
    BY <1>2, <1>6, <2>2, GoToTypes, LastOrNext DEF Stages
  <2>4. LoopInv'
    BY <1>2, <2>1, <2>2, <2>3 DEF LoopInv, ReduceStages, GoTo
  <2> QED BY <2>3, <2>4 DEF Inv
<1>8. CASE ~LastRank
  <2>1. GoTo("snapshot", s, r + 1)
    BY <1>1, <1>8
  <2>2. TypesInv' /\ stage' = "snapshot" /\ s' = s /\ r' = r + 1
    BY <1>2, <1>6, <1>8, <2>1, GoToTypes, LastOrNext DEF Stages
  <2>3. LoopInv'
    BY <1>2, <1>6, <2>1, <2>2 DEF LoopInv, ReduceStages, GoTo
  <2> QED BY <2>2, <2>3 DEF Inv
<1>9. QED
  BY <1>7, <1>8

LEMMA PlaceLeaves ==
  ASSUME Inv, Place
  PROVE  /\ TypesInv /\ stage = "place" /\ GatherFits(world, call) /\ call.op = "allgather"
         /\ Windows(world, mem') /\ Placed(world, call, mem', begun, s, r + 1)
<1>1. /\ stage = "place"
      /\ mem' = Moved(s, Inbox, r, call.out + s * call.count, call.count)
  BY DEF Place, ForRanks
<1>2. /\ TypesInv /\ stage # "idle" /\ GatherFits(world, call) /\ call.op = "allgather"
      /\ Placed(world, call, mem, begun, s, r)
  BY <1>1 DEF Inv, LoopInv
<1>3. /\ r \in RanksOf(world) /\ s \in RanksOf(world) /\ WorldSizes(world)
      /\ Windows(world, mem) /\ Inbox = world.buf
  BY <1>2, LastOrNext, WorldFacts DEF TypesInv
<1>4. PICK b \in Nat : b = Slot(call, s) /\ b + call.count <= world.buf
  BY <1>2, <1>3, SlotBounds
<1>5. /\ call.count \in Nat /\ world.buf \in Nat
      /\ b + call.count <= world.buf + world.scratch
      /\ world.buf + call.count <= world.buf + world.scratch
  BY <1>2, <1>4 DEF GatherFits
<1>6. mem' = Moved(s, world.buf, r, b, call.count)
  BY <1>1, <1>3, <1>4 DEF Slot
<1>7. MovedTo(world, mem, mem', s, world.buf, r, b, call.count)
  BY <1>3, <1>5, <1>6, MoveFacts
<1>8. Windows(world, mem') /\ Placed(world, call, mem', begun, s, r + 1)
  BY <1>2, <1>3, <1>4, <1>7, PlaceStep DEF MovedTo, OnlyIn
<1>9. QED
  BY <1>1, <1>2, <1>8

LEMMA PlaceKeeps ==
  ASSUME Inv, Place PROVE Inv'
<1>1. /\ TypesInv /\ stage = "place" /\ GatherFits(world, call) /\ call.op = "allgather"
      /\ Windows(world, mem') /\ Placed(world, call, mem', begun, s, r + 1)
  BY PlaceLeaves
<1>2. CASE LastRank /\ s = n - 1
  <2>1. Return
    BY <1>2 DEF Place, ForRanks
  <2> QED BY <1>1, <2>1, ReturnTypes
<1>3. CASE LastRank /\ s # n - 1
  <2>1. GoTo("place", s + 1, 0)
    BY <1>3 DEF Place, ForRanks
  <2>2. s \in RanksOf(world) /\ s + 1 \in RanksOf(world)
    BY <1>1, <1>3, LastOrNext, WorldFacts DEF RanksOf
  <2>3. Placed(world, call, mem', begun, s + 1, 0)
    BY <1>1, <1>3, <2>2, LastOrNext, PlaceRoundEnds
  <2>4. TypesInv' /\ stage' = "place" /\ s' = s + 1 /\ r' = 0
    BY <1>1, <2>1, <2>2, GoToTypes, LastOrNext DEF Stages
  <2>5. LoopInv'
    BY <1>1, <2>1, <2>3, <2>4 DEF LoopInv, ReduceStages, GoTo
  <2> QED BY <2>4, <2>5 DEF Inv
<1>4. CASE ~LastRank
  <2>1. GoTo("place", s, r + 1)
    BY <1>4 DEF Place, ForRanks
  <2>2. TypesInv' /\ stage' = "place" /\ s' = s /\ r' = r + 1
    BY <1>1, <1>4, <2>1, GoToTypes, LastOrNext DEF Stages
  <2>3. LoopInv'
    BY <1>1, <2>1, <2>2 DEF LoopInv, ReduceStages, GoTo
  <2> QED BY <2>2, <2>3 DEF Inv
<1>5. QED
  BY <1>2, <1>3, <1>4

-----------------------------------------------------------------------------
(* Calls and the host.                                                        *)

\* A call that is let into its loops stays inside the windows.
LEMMA EntersFits ==
  ASSUME TypesInv, world # NoWorld, NEW c \in Calls, Enters(c)
  PROVE  /\ c.op = "allreduce" => ReduceFits(world, c)
         /\ c.op = "broadcast" => BroadcastFits(world, c)
         /\ c.op = "allgather" => GatherFits(world, c)
<1>1. /\ world.ranks \in Nat \ {0} /\ world.buf \in Nat /\ world.scratch \in Nat
      /\ n = world.ranks /\ Ranks = RanksOf(world)
  BY WorldFacts DEF TypesInv
<1>2. c.off \in Nat /\ c.count \in Nat \ {0} /\ (c.op = "allgather" => c.out \in Nat)
  BY BvCommConstants DEF Enters
<1>3. /\ c.op = "broadcast" => c.root \in Ranks
      /\ Fits(c.off, c.count)
      /\ c.op = "allgather" => Fits(c.out, n * c.count) /\ ~(c.count > world.scratch)
      /\ c.op = "allreduce" /\ n > 1 => ~(MaxChunk(c.count) > world.scratch)
  BY <1>2 DEF Enters, Refused
<1>4. ASSUME c.op = "allreduce" PROVE ReduceFits(world, c)
  <2>1. n > 1 /\ world.ranks >= 2
    BY <1>1, <1>4 DEF Enters
  <2>2. (c.count + world.ranks - 1) \div world.ranks \in Int
    BY <1>1, <1>2
  <2>3. (c.count + world.ranks - 1) \div world.ranks <= world.scratch
    BY <1>1, <1>3, <1>4, <2>1, <2>2 DEF MaxChunk
  <2> QED BY <1>1, <1>2, <1>3, <2>1, <2>3 DEF ReduceFits, Fits
<1>5. ASSUME c.op = "broadcast" PROVE BroadcastFits(world, c)
  BY <1>1, <1>2, <1>3, <1>5 DEF BroadcastFits, Fits
<1>6. ASSUME c.op = "allgather" PROVE GatherFits(world, c)
  BY <1>1, <1>2, <1>3, <1>6 DEF GatherFits, Fits
<1>7. QED
  BY <1>4, <1>5, <1>6

LEMMA BeginKeeps ==
  ASSUME SumLaws, Inv, NEW c \in Calls, Begin(c) PROVE Inv'
<1>1. /\ TypesInv /\ stage = "idle" /\ world # NoWorld /\ made < MaxCalls /\ made' = made + 1
      /\ UNCHANGED <<world, mem, s, r>> /\ s = 0 /\ r = 0
  BY DEF Begin, Inv, TypesInv
<1>2. n' = n /\ Ranks' = Ranks
  BY <1>1 DEF n, Ranks
<1>3. /\ WorldSizes(world)' /\ Windows(world, mem)' /\ made' \in 0 .. MaxCalls
      /\ served \in 0 .. made' /\ served < made'
  BY <1>1, BvCommConstants DEF TypesInv, WorldSizes, Windows, RanksOf, WindowWords
<1>4. CASE Enters(c)
  <2>1. call' = c /\ stage' = FirstStage(c) /\ begun' = mem /\ UNCHANGED <<status, served>>
    BY <1>4 DEF Begin
  <2>2. c.op \in {"allreduce", "broadcast", "allgather"}
    BY BvCommConstants
  <2>3. stage' \in {"reduce_send", "broadcast", "snapshot"}
    BY <2>1, <2>2 DEF FirstStage
  <2>4. world.ranks \in Nat \ {0} /\ 0 \in RanksOf(world) /\ 0 \in Ranks
    BY <1>1, WorldFacts DEF TypesInv, RanksOf
  <2>5. Windows(world, begun)'
    BY <1>1, <2>1 DEF TypesInv, Windows, RanksOf, WindowWords
  <2>6. TypesInv'
    BY <1>1, <1>2, <1>3, <2>1, <2>3, <2>4, <2>5 DEF TypesInv, Stages
  <2>7. CASE c.op = "allreduce"
    <3>1. ReduceFits(world, c) /\ stage' = "reduce_send" /\ 0 \in 0 .. n - 2
      BY <1>1, <1>4, <2>1, <2>7, EntersFits, WorldFacts DEF FirstStage, ReduceFits
    <3>2. /\ Frame(world, c, mem, mem) /\ ReduceSums(world, c, mem, mem, 0, {})
          /\ InboxSums(world, c, mem, mem, 0, {}) /\ After(world, 0) = {}
      BY <2>4, <3>1, ReduceStarts, AfterFacts
    <3>3. LoopInv'
      BY <1>1, <1>2, <2>1, <2>7, <3>1, <3>2 DEF LoopInv, ReduceStages
    <3> QED BY <2>6, <3>3 DEF Inv
  <2>8. CASE c.op = "broadcast"
    <3>1. BroadcastFits(world, c) /\ stage' = "broadcast"
      BY <1>1, <1>4, <2>1, <2>8, EntersFits DEF FirstStage
    <3>2. Told(world, c, mem, mem, 0)
      BY <3>1 DEF Told, RanksOf, BroadcastFits
    <3>3. LoopInv'
      BY <1>1, <1>2, <2>1, <2>8, <3>1, <3>2 DEF LoopInv, ReduceStages
    <3> QED BY <2>6, <3>3 DEF Inv
  <2>9. CASE c.op = "allgather"
    <3>1. GatherFits(world, c) /\ stage' = "snapshot"
      BY <1>1, <1>4, <2>1, <2>9, EntersFits DEF FirstStage
    <3>2. Snapped(world, c, mem, mem, 0)
      BY <3>1 DEF Snapped, RanksOf, GatherFits
    <3>3. LoopInv'
      BY <1>1, <1>2, <2>1, <2>9, <3>1, <3>2 DEF LoopInv, ReduceStages
    <3> QED BY <2>6, <3>3 DEF Inv
  <2> QED BY <2>2, <2>7, <2>8, <2>9
<1>5. CASE ~Enters(c)
  <2>1. status' = Refused(c) /\ UNCHANGED <<call, stage, begun, served>>
    BY <1>5 DEF Begin
  <2>2. Refused(c) \in {0, -1, -2}
    BY DEF Refused
  <2>3. TypesInv'
    BY <1>1, <1>2, <1>3, <2>1, <2>2 DEF TypesInv
  <2>4. LoopInv'
    BY <1>1, <2>1 DEF LoopInv, ReduceStages
  <2> QED BY <2>3, <2>4 DEF Inv
<1>6. QED
  BY <1>4, <1>5

LEMMA HostKeeps ==
  ASSUME Inv, (\E size \in Sizes : Create(size)) \/ Destroy \/ Fill PROVE Inv'
<1>1. TypesInv /\ stage = "idle" /\ UNCHANGED <<call, stage, s, r, status, made, begun, served>>
  BY DEF Inv, Create, Destroy, Fill
<1>2. LoopInv'
  BY <1>1 DEF LoopInv, ReduceStages
<1>3. CASE \E size \in Sizes : Create(size)
  <2>1. PICK size \in Sizes : Create(size)
    BY <1>3
  <2>2. size \in [ranks : Int, buf : Nat, scratch : Nat] /\ size.ranks \in 1 .. MaxRanks
    BY <2>1, BvCommConstants DEF Create
  <2>3. /\ world' = size
        /\ mem' = [k \in 0 .. size.ranks - 1 |-> [i \in 0 .. size.buf + size.scratch - 1 |-> Zero]]
    BY <2>1 DEF Create
  <2>4. Windows(size, mem') /\ WorldSizes(size)
    BY <2>2, <2>3 DEF Windows, WorldSizes, RanksOf, WindowWords
  <2>5. Windows(world, mem)' /\ WorldSizes(world)'
    BY <2>3, <2>4 DEF Windows, WorldSizes, RanksOf, WindowWords
  <2>6. n' = size.ranks /\ MaxRanks \in Nat
    BY <2>3, BvCommConstants DEF n
  <2>7. n' \in 0 .. MaxRanks /\ n' >= 1
    BY <2>2, <2>6
  <2>8. TypesInv'
    BY <1>1, <2>3, <2>5, <2>7 DEF TypesInv
  <2> QED BY <1>2, <2>8 DEF Inv
<1>4. CASE Destroy
  <2>1. world' = NoWorld /\ mem' = <<>>
    BY <1>4 DEF Destroy
  <2>2. /\ WorldSizes(world)' /\ RanksOf(world)' = {} /\ n' = 0
    BY <2>1 DEF WorldSizes, RanksOf, NoWorld, n
  <2>3. Windows(world, mem)'
    BY <2>1, <2>2 DEF Windows
  <2>4. TypesInv'
    BY <1>1, <2>1, <2>2, <2>3, BvCommConstants DEF TypesInv
  <2> QED BY <1>2, <2>4 DEF Inv
<1>5. CASE Fill
  <2>1. /\ world' = world
        /\ mem' = [k \in Ranks |-> [i \in DOMAIN mem[k] |->
                     IF i < world.buf THEN Input(k, i) ELSE mem[k][i]]]
    BY <1>5 DEF Fill
  <2>2. WorldSizes(world)' /\ n' = n
    BY <1>1, <2>1 DEF TypesInv, WorldSizes, n
  <2>3. Windows(world, mem')
    BY <1>1, <2>1, WorldFacts DEF TypesInv, Windows
  <2>4. Windows(world, mem)'
    BY <2>1, <2>3 DEF Windows, RanksOf, WindowWords
  <2>5. TypesInv'
    BY <1>1, <2>1, <2>2, <2>4 DEF TypesInv
  <2> QED BY <1>2, <2>5 DEF Inv
<1>6. QED
  BY <1>3, <1>4, <1>5

LEMMA InitInv == Init => Inv
<1> SUFFICES ASSUME Init PROVE Inv
  OBVIOUS
<1>1. world = NoWorld /\ mem = <<>> /\ stage = "idle"
  BY DEF Init
<1>2. WorldSizes(world) /\ RanksOf(world) = {} /\ n = 0
  BY <1>1 DEF WorldSizes, RanksOf, NoWorld, n
<1>3. Windows(world, mem)
  BY <1>1, <1>2 DEF Windows
<1>4. TypesInv
  BY <1>1, <1>2, <1>3, BvCommConstants DEF Init, TypesInv, Stages
<1>5. LoopInv
  BY <1>1 DEF LoopInv, ReduceStages
<1>6. QED
  BY <1>4, <1>5 DEF Inv

LEMMA StepInv == SumLaws /\ Inv /\ [Next]_vars => Inv'
<1> SUFFICES ASSUME SumLaws, Inv, [Next]_vars PROVE Inv'
  OBVIOUS
<1>1. CASE UNCHANGED vars
  <2>1. n' = n /\ Ranks' = Ranks
    BY <1>1 DEF vars, n, Ranks
  <2>2. TypesInv'
    BY <1>1, <2>1 DEF Inv, TypesInv, vars, WorldSizes, Windows, RanksOf, WindowWords
  <2>3. LoopInv'
    BY <1>1, <2>1 DEF Inv, LoopInv, vars
  <2> QED BY <2>2, <2>3 DEF Inv
<1>2. CASE Next
  BY <1>2, HostKeeps, BeginKeeps, ReduceSendKeeps, ReduceAddKeeps, GatherSendKeeps,
     GatherCopyKeeps, BroadcastKeeps, SnapshotKeeps, PlaceKeeps DEF Next, CollectiveStep
<1>3. QED
  BY <1>1, <1>2

(* Loop counters, sizes and the progress of every loop, for any addition that   *)
(* satisfies the laws.                                                         *)
THEOREM Invariance == SumLaws => (Spec => []Inv)
<1>1. SumLaws => [](SumLaws)
  <2>1. SumLaws => SumLaws'
    BY DEF SumLaws
  <2> QED BY <2>1, PTL
<1>2. QED
  BY <1>1, InitInv, StepInv, PTL DEF Spec

-----------------------------------------------------------------------------
(* What follows from the invariant.                                           *)

(* The world keeps the sizes bvcomm_init accepted, every window keeps its size  *)
(* through all transfers, and loop counters name ranks.                        *)
THEOREM TypeCorrect == SumLaws => (Spec => []TypeOK)
<1>1. Inv => TypeOK
  <2> SUFFICES ASSUME Inv PROVE TypeOK
    OBVIOUS
  <2>1. TypesInv /\ Windows(world, mem) /\ Ranks = RanksOf(world)
    BY WorldFacts DEF Inv, TypesInv
  <2>2. DOMAIN mem = Ranks /\ \A k \in Ranks : DOMAIN mem[k] = 0 .. Window - 1
    BY <2>1, WorldFacts DEF Windows, WindowWords
  <2>3. call \in Calls => call # NoCall
    BY BvCommConstants DEF NoCall
  <2>4. call \in Calls \cup {NoCall} /\ (stage = "idle" <=> call = NoCall)
    BY <2>1, <2>3 DEF TypesInv
  <2>5. s \in Nat /\ r \in Nat
    BY <2>1, WorldFacts DEF TypesInv, RanksOf
  <2> QED BY <2>1, <2>2, <2>4, <2>5 DEF TypesInv, TypeOK
<1>2. QED
  BY <1>1, Invariance, PTL

(* bvcomm.c:134: between the reduce-scatter and the all-gather, rank r holds in  *)
(* chunk (r + 1) mod n a sum of the inputs of all ranks, each added once.       *)
THEOREM OwnersSum == SumLaws => (Spec => []OwnersHoldSums)
<1>1. Inv => OwnersHoldSums
  <2> SUFFICES ASSUME Inv, stage = "gather_send", s = 0, r = 0, NEW k \in Ranks,
                      NEW i \in Chunk((k + 1) % n).at ..
                                  Chunk((k + 1) % n).at + Chunk((k + 1) % n).len - 1
               PROVE  IsSum(mem[k][i], [q \in Ranks |-> begun[q][i]])
    BY DEF OwnersHoldSums
  <2>1. /\ TypesInv /\ ReduceFits(world, call) /\ GatherSums(world, call, mem, begun, 0, {})
    BY DEF Inv, LoopInv, ReduceStages
  <2>2. /\ k \in RanksOf(world) /\ Ranks = RanksOf(world) /\ n = world.ranks
        /\ world.ranks \in Nat \ {0}
    BY <2>1, WorldFacts
  <2> DEFINE c == NextRank(world, k)
  <2>3. c = (k + 1) % n /\ c \in RanksOf(world)
    BY <2>2, NextRankIs
  <2>4. Dist(world, k, c) = world.ranks - 1
    BY <2>2 DEF Dist, NextRank, RanksOf
  <2> HIDE DEF c
  <2>5. /\ Chunk(c).at = At(world, call, c) /\ Chunk(c).len = Length(world, call, c)
        /\ At(world, call, c) \in Nat /\ At(world, call, c + 1) \in Nat
    BY <2>1, <2>3, ChunkIs, ChunkBounds
  <2>6. i \in ChunkWords(world, call, c)
    BY <2>3, <2>5 DEF ChunkWords, Length
  <2>7. Sums(world, begun, c, world.ranks - 1, mem[k][i], i)
    BY <2>1, <2>2, <2>3, <2>4, <2>6 DEF GatherSums
  <2>8. IsSum(mem[k][i], [q \in RanksOf(world) |-> begun[q][i]])
    BY <2>2, <2>3, <2>7, SumsAll
  <2> QED BY <2>2, <2>8, Zenon
<1>2. QED
  BY <1>1, Invariance, PTL

-----------------------------------------------------------------------------
(* The refinement of Collectives.                                             *)

\* What Collectives sees: the user buffers when the call in progress began.
SeenUsers == Users(IF stage = "idle" THEN mem ELSE begun)

UsersOf(w, m) == [k \in RanksOf(w) |-> [i \in UserWords(w) |-> m[k][i]]]

LEMMA UsersOfFacts ==
  ASSUME NEW w, NEW m
  PROVE  /\ DOMAIN UsersOf(w, m) = RanksOf(w)
         /\ \A k \in RanksOf(w) : /\ DOMAIN UsersOf(w, m)[k] = UserWords(w)
                                  /\ \A i \in UserWords(w) : UsersOf(w, m)[k][i] = m[k][i]
  BY DEF UsersOf

LEMMA SeenUsersAre ==
  TypesInv => SeenUsers = UsersOf(world, IF stage = "idle" THEN mem ELSE begun)
<1> SUFFICES ASSUME TypesInv PROVE SeenUsers = UsersOf(world, IF stage = "idle" THEN mem ELSE begun)
  OBVIOUS
<1> DEFINE m == IF stage = "idle" THEN mem ELSE begun
<1>1. DOMAIN m = RanksOf(world)
  BY DEF TypesInv, Windows
<1> HIDE DEF m
<1>2. Users(m) = UsersOf(world, m)
  BY <1>1 DEF Users, UsersOf, UserWords
<1>3. QED
  BY <1>2 DEF SeenUsers, m

LEMMA SeenUsersNext ==
  TypesInv' => SeenUsers' = UsersOf(world', IF stage' = "idle" THEN mem' ELSE begun')
<1>1. TypesInv' => (SeenUsers = UsersOf(world, IF stage = "idle" THEN mem ELSE begun))'
  BY SeenUsersAre, PTL
<1>2. QED
  BY <1>1

\* A step inside a collective changes nothing that Collectives sees.
LEMMA GoToIsQuiet ==
  ASSUME Inv, Inv', stage # "idle", NEW st \in Stages \ {"idle"}, NEW a, NEW c, GoTo(st, a, c)
  PROVE  UNCHANGED <<SeenUsers, served>>
<1>1. UNCHANGED <<world, begun, served>> /\ stage' = st /\ st # "idle"
  BY DEF GoTo
<1>2. SeenUsers = UsersOf(world, begun)
  BY SeenUsersAre DEF Inv
<1>3. SeenUsers' = UsersOf(world, begun)
  BY <1>1, SeenUsersNext DEF Inv
<1>4. QED
  BY <1>1, <1>2, <1>3

LEMMA ReturnShows ==
  ASSUME Inv, Inv', stage # "idle", Return
  PROVE  /\ SeenUsers = UsersOf(world, begun) /\ SeenUsers' = UsersOf(world, mem')
         /\ served' = served + 1
<1>1. world' = world /\ stage' = "idle" /\ served' = served + 1
  BY DEF Return
<1>2. SeenUsers = UsersOf(world, begun)
  BY SeenUsersAre DEF Inv
<1>3. SeenUsers' = UsersOf(world, mem')
  BY <1>1, SeenUsersNext DEF Inv
<1>4. QED
  BY <1>1, <1>2, <1>3

\* The all-reduce returns with the same sum of all inputs in every rank.
LEMMA AllReduceServes ==
  ASSUME Inv, Inv', GatherCopy, Return
  PROVE  Promise!Serve(call)
<1>1. /\ TypesInv /\ stage # "idle" /\ ReduceFits(world, call) /\ s \in 0 .. world.ranks - 2
      /\ call.op = "allreduce" /\ Windows(world, mem') /\ Frame(world, call, mem', begun)
      /\ GatherSums(world, call, mem', begun, s, 0 .. (r + 1) - 1)
  BY GatherCopyLeaves
<1>2. LastRank /\ s = n - 2
  <2>1. stage' = "idle"
    BY DEF Return
  <2>2. stage' # "idle" \/ (LastRank /\ s = n - 2)
    BY DEF GatherCopy, ForRanks, GoTo
  <2> QED BY <2>1, <2>2
<1>3. world.ranks \in Nat \ {0} /\ s = world.ranks - 2 /\ 0 .. (r + 1) - 1 = RanksOf(world)
      /\ 0 \in RanksOf(world)
  <2>1. r + 1 = world.ranks /\ 0 \in RanksOf(world)
    BY <1>1, <1>2, LastOrNext
  <2> QED BY <1>1, <1>2, <2>1, WorldFacts DEF RanksOf
<1>4. \A i \in Region(call), k \in RanksOf(world) :
        /\ IsSum(mem'[k][i], [q \in RanksOf(world) |-> begun[q][i]])
        /\ \A q \in RanksOf(world) : mem'[q][i] = mem'[k][i]
  <2>1. GatherSums(world, call, mem', begun, s, RanksOf(world))
    BY <1>1, <1>3
  <2>2. ASSUME NEW i \in call.off .. call.off + call.count - 1
        PROVE  \A k \in RanksOf(world) :
                 /\ IsSum(mem'[k][i], [q \in RanksOf(world) |-> begun[q][i]])
                 /\ \A q \in RanksOf(world) : mem'[q][i] = mem'[k][i]
    BY <1>1, <1>3, <2>1, GatherEnds
  <2> QED BY <2>2 DEF Region
<1>5. \A i \in UserWords(world) \ Region(call), k \in RanksOf(world) : mem'[k][i] = begun[k][i]
  BY <1>1 DEF Frame, Region
<1>6. /\ SeenUsers = UsersOf(world, begun) /\ SeenUsers' = UsersOf(world, mem')
      /\ served' = served + 1
  BY <1>1, ReturnShows
<1>7. /\ DOMAIN SeenUsers = RanksOf(world) /\ DOMAIN SeenUsers' = RanksOf(world)
      /\ \A k \in RanksOf(world) :
           /\ DOMAIN SeenUsers[k] = UserWords(world) /\ DOMAIN SeenUsers'[k] = UserWords(world)
           /\ \A i \in UserWords(world) : /\ SeenUsers[k][i] = begun[k][i]
                                          /\ SeenUsers'[k][i] = mem'[k][i]
  BY <1>6, UsersOfFacts
<1>8. Region(call) \subseteq DOMAIN SeenUsers[0] /\ Region(call) \subseteq UserWords(world)
  <2>1. Region(call) \subseteq UserWords(world)
    <3>1. call.off \in Nat /\ call.count \in Nat /\ world.buf \in Nat
          /\ call.off + call.count <= world.buf
      BY <1>1 DEF ReduceFits
    <3> QED BY <3>1 DEF Region, UserWords
  <2> QED BY <1>3, <1>7, <2>1
<1>9. ASSUME NEW k \in DOMAIN SeenUsers
      PROVE  /\ DOMAIN SeenUsers'[k] = DOMAIN SeenUsers[k]
             /\ \A i \in DOMAIN SeenUsers[k] :
                  IF i \in Region(call)
                  THEN /\ IsSum(SeenUsers'[k][i], [q \in DOMAIN SeenUsers |-> SeenUsers[q][i]])
                       /\ \A q \in DOMAIN SeenUsers : SeenUsers'[q][i] = SeenUsers'[k][i]
                  ELSE SeenUsers'[k][i] = SeenUsers[k][i]
  <2>1. ASSUME NEW i \in UserWords(world), i \in Region(call)
        PROVE  /\ IsSum(SeenUsers'[k][i], [q \in DOMAIN SeenUsers |-> SeenUsers[q][i]])
               /\ \A q \in DOMAIN SeenUsers : SeenUsers'[q][i] = SeenUsers'[k][i]
    <3>1. [q \in DOMAIN SeenUsers |-> SeenUsers[q][i]] = [q \in RanksOf(world) |-> begun[q][i]]
      BY <1>7, <2>1
    <3>2. SeenUsers'[k][i] = mem'[k][i] /\ k \in RanksOf(world)
      BY <1>7, <2>1
    <3>3. IsSum(mem'[k][i], [q \in RanksOf(world) |-> begun[q][i]])
      BY <1>4, <2>1, <3>2
    <3>4. IsSum(SeenUsers'[k][i], [q \in DOMAIN SeenUsers |-> SeenUsers[q][i]])
      BY <3>1, <3>2, <3>3, Zenon
    <3>5. \A q \in DOMAIN SeenUsers : SeenUsers'[q][i] = SeenUsers'[k][i]
      <4>1. ASSUME NEW q \in RanksOf(world) PROVE SeenUsers'[q][i] = SeenUsers'[k][i]
        <5>1. SeenUsers'[q][i] = mem'[q][i] /\ mem'[q][i] = mem'[k][i]
          BY <1>4, <1>7, <2>1, <3>2
        <5> QED BY <3>2, <5>1
      <4> QED BY <1>7, <4>1
    <3> QED BY <3>4, <3>5
  <2>2. ASSUME NEW i \in UserWords(world), i \notin Region(call)
        PROVE  SeenUsers'[k][i] = SeenUsers[k][i]
    BY <1>5, <1>7, <2>2
  <2>3. DOMAIN SeenUsers[k] = UserWords(world) /\ DOMAIN SeenUsers'[k] = UserWords(world)
    BY <1>7
  <2> QED BY <2>1, <2>2, <2>3, Zenon
<1>10. Promise!AllReduce(call)
  BY <1>7, <1>8, <1>9, Zenon
  DEF Promise!AllReduce, Promise!Becomes, Promise!Ranks, Promise!Words, SeenUsers, Region
<1>11. Promise!Serve(call)
  BY <1>1, <1>3, <1>6, <1>7, <1>10, Zenon DEF Promise!Serve, Promise!Ranks, SeenUsers
<1>12. QED
  BY <1>11

\* The broadcast returns with the root's words in every rank.
LEMMA BroadcastServes ==
  ASSUME Inv, Inv', BroadcastTo, Return
  PROVE  Promise!Serve(call)
<1>1. /\ TypesInv /\ stage = "broadcast" /\ BroadcastFits(world, call) /\ call.op = "broadcast"
      /\ Windows(world, mem') /\ Told(world, call, mem', begun, r + 1)
  BY BroadcastLeaves
<1>2. LastRank
  <2>1. stage' = "idle"
    BY DEF Return
  <2>2. stage' = "broadcast" \/ LastRank
    BY DEF BroadcastTo, ForRanks, GoTo
  <2> QED BY <2>1, <2>2
<1>3. r + 1 = world.ranks /\ 0 \in RanksOf(world) /\ call.root \in RanksOf(world)
  BY <1>1, <1>2, LastOrNext DEF BroadcastFits
<1>4. \A k \in RanksOf(world) : k < world.ranks
  BY <1>1 DEF RanksOf, BroadcastFits
<1>5. \A k \in RanksOf(world), i \in UserWords(world) :
        mem'[k][i] = IF i \in Region(call) THEN begun[call.root][i] ELSE begun[k][i]
  BY <1>1, <1>3, <1>4 DEF Told
<1>6. /\ SeenUsers = UsersOf(world, begun) /\ SeenUsers' = UsersOf(world, mem')
      /\ served' = served + 1
  BY <1>1, ReturnShows
<1>7. /\ DOMAIN SeenUsers = RanksOf(world) /\ DOMAIN SeenUsers' = RanksOf(world)
      /\ \A k \in RanksOf(world) :
           /\ DOMAIN SeenUsers[k] = UserWords(world) /\ DOMAIN SeenUsers'[k] = UserWords(world)
           /\ \A i \in UserWords(world) : /\ SeenUsers[k][i] = begun[k][i]
                                          /\ SeenUsers'[k][i] = mem'[k][i]
  BY <1>6, UsersOfFacts
<1>8. Region(call) \subseteq DOMAIN SeenUsers[0]
  <2>1. Region(call) \subseteq UserWords(world)
    BY <1>1 DEF Region, UserWords, BroadcastFits
  <2> QED BY <1>3, <1>7, <2>1
<1>9. ASSUME NEW k \in DOMAIN SeenUsers
      PROVE  /\ DOMAIN SeenUsers'[k] = DOMAIN SeenUsers[k]
             /\ \A i \in DOMAIN SeenUsers[k] :
                  IF i \in Region(call) THEN SeenUsers'[k][i] = SeenUsers[call.root][i]
                  ELSE SeenUsers'[k][i] = SeenUsers[k][i]
  BY <1>3, <1>5, <1>7
<1>10. Promise!Broadcast(call)
  BY <1>3, <1>7, <1>8, <1>9, Zenon
  DEF Promise!Broadcast, Promise!Becomes, Promise!Ranks, Promise!Words, SeenUsers, Region
<1>11. QED
  BY <1>1, <1>3, <1>6, <1>7, <1>10, Zenon DEF Promise!Serve, Promise!Ranks, SeenUsers

\* The all-gather returns with every rank's inputs in their slots of every rank.
LEMMA AllGatherServes ==
  ASSUME Inv, Inv', Place, Return
  PROVE  Promise!Serve(call)
<1>1. /\ TypesInv /\ stage = "place" /\ GatherFits(world, call) /\ call.op = "allgather"
      /\ Windows(world, mem') /\ Placed(world, call, mem', begun, s, r + 1)
  BY PlaceLeaves
<1>2. LastRank /\ s = n - 1
  <2>1. stage' = "idle"
    BY DEF Return
  <2>2. stage' = "place" \/ (LastRank /\ s = n - 1)
    BY DEF Place, ForRanks, GoTo
  <2> QED BY <2>1, <2>2
<1>3. /\ r + 1 = world.ranks /\ s + 1 = world.ranks /\ 0 \in RanksOf(world)
      /\ s \in RanksOf(world)
  BY <1>1, <1>2, LastOrNext, WorldFacts
<1>4. Placed(world, call, mem', begun, world.ranks, 0)
  BY <1>1, <1>3, PlaceRoundEnds
<1> DEFINE slots == {call.out + q * call.count + j : q \in DOMAIN SeenUsers, j \in 0 .. call.count - 1}
           From(i) == (i - call.out) \div call.count
           Offset(i) == call.off + ((i - call.out) % call.count)
<1>5. ASSUME NEW q \in RanksOf(world), NEW j \in Offsets(call)
      PROVE  /\ Slot(call, q) + j \in UserWords(world) /\ From(Slot(call, q) + j) = q
             /\ Offset(Slot(call, q) + j) = call.off + j /\ call.off + j \in UserWords(world)
  <2>1. Slot(call, q) \in Nat /\ Slot(call, q) + call.count <= world.buf
    BY <1>1, SlotBounds
  <2>2. Slot(call, q) + j \in UserWords(world) /\ call.off + j \in UserWords(world)
    BY <1>1, <2>1 DEF GatherFits, Offsets, UserWords
  <2>3. /\ ((Slot(call, q) + j) - call.out) \div call.count = q
        /\ ((Slot(call, q) + j) - call.out) % call.count = j
    BY <1>1, SlotPlace
  <2> QED BY <2>2, <2>3, Zenon
<1>6. /\ SeenUsers = UsersOf(world, begun) /\ SeenUsers' = UsersOf(world, mem')
      /\ served' = served + 1
  BY <1>1, ReturnShows
<1>7. /\ DOMAIN SeenUsers = RanksOf(world) /\ DOMAIN SeenUsers' = RanksOf(world)
      /\ \A k \in RanksOf(world) :
           /\ DOMAIN SeenUsers[k] = UserWords(world) /\ DOMAIN SeenUsers'[k] = UserWords(world)
           /\ \A i \in UserWords(world) : /\ SeenUsers[k][i] = begun[k][i]
                                          /\ SeenUsers'[k][i] = mem'[k][i]
  BY <1>6, UsersOfFacts
<1>8. \A i : i \in slots <=> \E q \in RanksOf(world), j \in Offsets(call) : i = Slot(call, q) + j
  BY <1>7 DEF Slot, Offsets
<1>9. slots \cup (call.off .. call.off + call.count - 1) \subseteq DOMAIN SeenUsers[0]
  <2>1. call.off .. call.off + call.count - 1 \subseteq UserWords(world)
    BY <1>1 DEF UserWords, GatherFits
  <2>2. slots \subseteq UserWords(world)
    <3> HIDE DEF slots
    <3> QED BY <1>5, <1>8
  <2> QED BY <1>3, <1>7, <2>1, <2>2
<1>10. ASSUME NEW k \in DOMAIN SeenUsers
      PROVE  /\ DOMAIN SeenUsers'[k] = DOMAIN SeenUsers[k]
             /\ \A i \in DOMAIN SeenUsers[k] :
                  IF i \in slots THEN SeenUsers'[k][i] = SeenUsers[From(i)][Offset(i)]
                  ELSE SeenUsers'[k][i] = SeenUsers[k][i]
  <2>1. k \in RanksOf(world) /\ DOMAIN SeenUsers[k] = UserWords(world)
        /\ DOMAIN SeenUsers'[k] = UserWords(world)
    BY <1>7
  <2>2. ASSUME NEW i \in UserWords(world)
        PROVE  mem'[k][i] = IF \E q \in RanksOf(world), j \in Offsets(call) : i = Slot(call, q) + j
                            THEN begun[From(i)][Offset(i)] ELSE begun[k][i]
    BY <1>1, <1>4, <2>1, PlaceEnds
  <2>3. ASSUME NEW i \in UserWords(world), i \in slots
        PROVE  SeenUsers'[k][i] = SeenUsers[From(i)][Offset(i)]
    <3> HIDE DEF slots
    <3>1. PICK q \in RanksOf(world), j \in Offsets(call) : i = Slot(call, q) + j
      BY <1>8, <2>3
    <3>2. From(i) \in RanksOf(world) /\ Offset(i) \in UserWords(world)
      <4>1. /\ From(Slot(call, q) + j) = q /\ Offset(Slot(call, q) + j) = call.off + j
            /\ call.off + j \in UserWords(world)
        BY <1>5
      <4> QED BY <3>1, <4>1, Zenon
    <3> HIDE DEF From, Offset
    <3>3. mem'[k][i] = begun[From(i)][Offset(i)]
      BY <2>2, <3>1
    <3>4. SeenUsers[From(i)][Offset(i)] = begun[From(i)][Offset(i)] /\ SeenUsers'[k][i] = mem'[k][i]
      BY <1>7, <2>1, <3>2
    <3> QED BY <3>3, <3>4
  <2>4. ASSUME NEW i \in UserWords(world), i \notin slots
        PROVE  SeenUsers'[k][i] = SeenUsers[k][i]
    <3> HIDE DEF slots, From, Offset
    <3>1. mem'[k][i] = begun[k][i]
      BY <1>8, <2>2, <2>4
    <3> QED BY <1>7, <2>1, <3>1
  <2> HIDE DEF slots, From, Offset
  <2> QED BY <2>1, <2>3, <2>4
<1>11. Promise!AllGather(call)
  <2>1. DOMAIN SeenUsers' = DOMAIN SeenUsers
    BY <1>7
  <2> QED BY <1>9, <1>10, <2>1, SMT
      DEF Promise!AllGather, Promise!Becomes, Promise!Ranks, Promise!Words, SeenUsers
<1>12. QED
  BY <1>1, <1>3, <1>6, <1>7, <1>11, Zenon DEF Promise!Serve, Promise!Ranks, SeenUsers

\* A call that is let into its loops, or refused, has not moved anything yet.
LEMMA BeginIsQuiet ==
  ASSUME Inv, Inv', NEW c \in Calls, Begin(c)
  PROVE  UNCHANGED <<SeenUsers, served>>
<1>1. stage = "idle" /\ UNCHANGED <<world, mem, served>>
  BY DEF Begin
<1>2. SeenUsers = UsersOf(world, mem)
  BY <1>1, SeenUsersAre DEF Inv
<1>3. IF stage' = "idle" THEN TRUE ELSE begun' = mem
  BY <1>1 DEF Begin
<1>4. SeenUsers' = UsersOf(world, mem)
  BY <1>1, <1>3, SeenUsersNext DEF Inv
<1>5. QED
  BY <1>1, <1>2, <1>4

LEMMA NoWorldIsEmpty ==
  ASSUME NEW m
  PROVE  UsersOf(NoWorld, m) = <<>>
<1>1. RanksOf(NoWorld) = {}
  BY DEF RanksOf, NoWorld
<1>2. QED
  BY <1>1 DEF UsersOf

\* Between calls the world is made, filled and destroyed.
LEMMA HostShows ==
  ASSUME Inv, Inv', (\E size \in Sizes : Create(size)) \/ Destroy \/ Fill
  PROVE  Promise!Host
<1>1. stage = "idle" /\ UNCHANGED <<stage, served>>
  BY DEF Create, Destroy, Fill
<1>2. SeenUsers = UsersOf(world, mem) /\ SeenUsers' = UsersOf(world', mem')
  BY <1>1, SeenUsersAre, SeenUsersNext DEF Inv
<1>3. CASE \E size \in Sizes : Create(size)
  <2>1. PICK size \in Sizes :
          /\ size \in [ranks : Int, buf : Nat, scratch : Nat]
          /\ world' = size
          /\ mem' = [k \in 0 .. size.ranks - 1 |-> [i \in 0 .. size.buf + size.scratch - 1 |-> Zero]]
    BY <1>3, BvCommConstants DEF Create
  <2>2. SeenUsers' = [k \in RanksOf(size) |-> [i \in UserWords(size) |-> Zero]]
    <3>1. \A k \in RanksOf(size), i \in UserWords(size) : mem'[k][i] = Zero
      BY <2>1 DEF RanksOf, UserWords
    <3> QED BY <1>2, <2>1, <3>1 DEF UsersOf
  <2>3. SeenUsers' = [k \in DOMAIN SeenUsers' |-> [i \in DOMAIN SeenUsers'[k] |-> Zero]]
    BY <2>2
  <2> QED BY <1>1, <2>3, Zenon DEF Promise!Host, SeenUsers
<1>4. CASE Destroy
  <2>1. SeenUsers' = <<>>
    BY <1>2, <1>4, NoWorldIsEmpty DEF Destroy
  <2> QED BY <1>1, <2>1, Zenon DEF Promise!Host, SeenUsers
<1>5. CASE Fill
  <2>1. /\ world' = world /\ Windows(world, mem) /\ Ranks = RanksOf(world) /\ WorldSizes(world)
        /\ mem' = [k \in Ranks |-> [i \in DOMAIN mem[k] |->
                     IF i < world.buf THEN Input(k, i) ELSE mem[k][i]]]
    BY <1>5, WorldFacts DEF Fill, Inv, TypesInv
  <2>2. ASSUME NEW k \in RanksOf(world), NEW i \in UserWords(world)
        PROVE  mem'[k][i] = Input(k, i)
    <3>1. i \in DOMAIN mem[k] /\ i < world.buf
      BY <2>1 DEF Windows, UserWords, WindowWords, WorldSizes
    <3> QED BY <2>1, <3>1
  <2>3. SeenUsers' = [k \in RanksOf(world) |-> [i \in UserWords(world) |-> Input(k, i)]]
    BY <1>2, <2>1, <2>2 DEF UsersOf
  <2>4. /\ DOMAIN SeenUsers = RanksOf(world)
        /\ \A k \in RanksOf(world) : DOMAIN SeenUsers[k] = UserWords(world)
    BY <1>2, UsersOfFacts
  <2>5. SeenUsers' = [k \in DOMAIN SeenUsers |-> [i \in DOMAIN SeenUsers[k] |-> Input(k, i)]]
    BY <2>3, <2>4
  <2> QED BY <1>1, <2>5, Zenon DEF Promise!Host, Promise!Ranks, Promise!Words, SeenUsers
<1>6. QED
  BY <1>3, <1>4, <1>5

\* Each step inside a collective is seen as nothing, and its last one as the collective.
LEMMA CollectiveStepShows ==
  ASSUME Inv, Inv', CollectiveStep
  PROVE  UNCHANGED <<SeenUsers, served>> \/ (call \in Calls /\ Promise!Serve(call))
<1>1. stage # "idle" /\ (stage # "idle" => call \in Calls)
  BY DEF CollectiveStep, ReduceSend, ReduceAdd, GatherSend, GatherCopy, BroadcastTo, Snapshot,
         Place, ForRanks, Inv, TypesInv
<1>2. (\E st \in Stages \ {"idle"} : \E a, c : GoTo(st, a, c)) \/ (GatherCopy /\ Return)
      \/ (BroadcastTo /\ Return) \/ (Place /\ Return)
  BY DEF CollectiveStep, ReduceSend, ReduceAdd, GatherSend, GatherCopy, BroadcastTo, Snapshot,
         Place, ForRanks, AfterReduce, Stages
<1>3. QED
  BY <1>1, <1>2, GoToIsQuiet, AllReduceServes, BroadcastServes, AllGatherServes

LEMMA InitRefines == Init => Promise!Init
<1> SUFFICES ASSUME Init PROVE Promise!Init
  OBVIOUS
<1>1. SeenUsers = UsersOf(NoWorld, mem)
  BY InitInv, SeenUsersAre DEF Inv, Init
<1>2. SeenUsers = <<>> /\ served = 0
  BY <1>1, NoWorldIsEmpty DEF Init
<1>3. QED
  BY <1>2, Zenon DEF Promise!Init, SeenUsers

LEMMA StepRefines ==
  Inv /\ Inv' /\ [Next]_vars =>
    [Promise!Next]_<<Users(IF stage = "idle" THEN mem ELSE begun), served>>
<1> SUFFICES ASSUME Inv, Inv', [Next]_vars
             PROVE  Promise!Next \/ UNCHANGED <<SeenUsers, served>>
  BY DEF SeenUsers
<1>1. CASE UNCHANGED vars
  <2>1. UNCHANGED <<world, mem, begun, stage, served>>
    BY <1>1 DEF vars
  <2>2. SeenUsers' = SeenUsers
    BY <2>1, SeenUsersAre, SeenUsersNext DEF Inv
  <2> QED BY <2>1, <2>2
<1>2. CASE Next
  <2>1. CASE (\E size \in Sizes : Create(size)) \/ Destroy \/ Fill
    BY <2>1, HostShows DEF Promise!Next
  <2>2. CASE \E c \in Calls : Begin(c)
    BY <2>2, BeginIsQuiet
  <2>3. CASE CollectiveStep
    BY <2>3, CollectiveStepShows DEF Promise!Next
  <2> QED BY <1>2, <2>1, <2>2, <2>3 DEF Next
<1>3. QED
  BY <1>1, <1>2

(* bvcomm.h: each collective that returns 0 is one step of Collectives. The      *)
(* reduction is a sum of the inputs of all ranks, the same in every rank to the  *)
(* last bit; no inbox is overwritten before it is taken in; overlapping input    *)
(* and output of an all-gather do not disturb each other; and the transfers     *)
(* whose answers the code ignores are all carried out.                          *)
THEOREM CollectivesImplemented == SumLaws => (Spec => CollectivesSpec)
<1>1. SumLaws => [](SumLaws)
  <2>1. SumLaws => SumLaws'
    BY DEF SumLaws
  <2> QED BY <2>1, PTL
<1>2. QED
  BY <1>1, InitInv, StepInv, InitRefines, StepRefines, PTL DEF Spec, CollectivesSpec, Promise!Spec
=============================================================================
