----------------------------- MODULE SpmpProofs -----------------------------
(***************************************************************************)
(* Proofs about the pool allocator, for any clients, pool configurations,   *)
(* requests, block and table sizes: what the operators of Spmp compute on    *)
(* one block table and that each way spmp.c rewrites a table preserves       *)
(* TableInv, then the inductive invariant Inv, and the properties of Spmp    *)
(* from it.                                                                 *)
(*                                                                         *)
(* The hard part is pool_coalesce: one pass over all pairs of slots leaves  *)
(* no two free blocks that touch (CoalescedApart), provided none touched    *)
(* before the block was released.                                           *)
(***************************************************************************)
EXTENDS Spmp, Sums, SequenceTheorems

-----------------------------------------------------------------------------
(* Numbers.                                                                 *)

\* The Min of the community modules, on sets of naturals.
LEMMA MinIsLeast ==
  ASSUME NEW S \in SUBSET Nat, S # {}
  PROVE  Min(S) \in S /\ \A k \in S : Min(S) <= k
  BY LeastNat DEF Min

\* block_next_free answers 0 exactly when no slot fits, else a slot that does.
LEMMA NextFree ==
  ASSUME NEW blocks \in Seq(BlockRecord), NEW needed, NEW alignment
  PROVE  LET i == BlockNextFree(blocks, needed, alignment)
         IN /\ i = 0 <=> \A k \in DOMAIN blocks : ~Fits(blocks[k], needed, alignment)
            /\ i # 0 => i \in DOMAIN blocks /\ Fits(blocks[i], needed, alignment)
<1> DEFINE I == {k \in 1 .. Len(blocks) : Fits(blocks[k], needed, alignment)}
<1>1. BlockNextFree(blocks, needed, alignment) = IF I # {} THEN Min(I) ELSE 0
  BY DEF BlockNextFree, SelectInSeq
<1>2. I \in SUBSET Nat /\ 0 \notin I
  OBVIOUS
<1>3. I # {} => Min(I) \in I
  <2> HIDE DEF I
  <2> QED BY <1>2, MinIsLeast
<1>4. DOMAIN blocks = 1 .. Len(blocks)
  OBVIOUS
<1>5. QED
  BY <1>1, <1>2, <1>3, <1>4

\* RoundUp is the least multiple of a that is not below n.
LEMMA RoundUpFacts ==
  ASSUME NEW n \in Nat, NEW a \in Nat \ {0}
  PROVE  /\ RoundUp(n, a) \in Nat /\ n <= RoundUp(n, a) /\ RoundUp(n, a) < n + a
         /\ \A m \in Nat : m % a = 0 /\ n <= m => RoundUp(n, a) <= m
<1> DEFINE x == n + a - 1
           q == x \div a
<1>1. x \in Nat /\ a > 0
  OBVIOUS
<1>2. q \in Nat /\ q * a <= x /\ x < q * a + a
  <2> HIDE DEF x
  <2> QED BY <1>1
<1>3. RoundUp(n, a) = q * a
  BY DEF RoundUp
<1>4. q * a \in Nat
  BY <1>2
<1>5. ASSUME NEW m \in Nat, m % a = 0, n <= m PROVE q * a <= m
  <2>1. PICK d \in Nat : m = d * a
    BY <1>5
  <2>2. q * a < d * a + a
    BY <1>2, <1>5, <2>1
  <2>3. q <= d
    BY <1>1, <1>2, <2>2
  <2>4. q * a <= d * a
    BY <1>1, <1>2, <2>3
  <2> QED BY <2>1, <2>4
<1>6. QED
  BY <1>2, <1>3, <1>4, <1>5

\* Induction over an interval, for a set rather than a predicate.
LEMMA IntervalInduction ==
  ASSUME NEW n \in Nat, NEW G \in SUBSET (0 .. n), 0 \in G,
         \A k \in 1 .. n : k - 1 \in G => k \in G
  PROVE  G = 0 .. n
<1> SUFFICES ASSUME (0 .. n) \ G # {} PROVE FALSE
  OBVIOUS
<1> DEFINE B == (0 .. n) \ G
<1>1. PICK m \in B : \A k \in B : m <= k
  <2>1. B \in SUBSET Nat /\ B # {}
    OBVIOUS
  <2> HIDE DEF B
  <2> QED BY <2>1, LeastNat
<1>2. m \in 1 .. n /\ m - 1 \in 0 .. n /\ m - 1 \notin B
  BY <1>1
<1>3. QED
  BY <1>1, <1>2

\* A loop of n steps, each a function on S, has a run: the recursive functions
\* of Spmp are defined.
LEMMA Iterates ==
  ASSUME NEW S, NEW first \in S, NEW n \in Nat, NEW step \in [1 .. n -> [S -> S]]
  PROVE  \E f \in [0 .. n -> S] :
           f[0] = first /\ \A j \in 1 .. n : f[j] = step[j][f[j - 1]]
<1> DEFINE Good(k) == \E f \in [0 .. k -> S] :
              f[0] = first /\ \A j \in 1 .. k : f[j] = step[j][f[j - 1]]
           G == {k \in 0 .. n : Good(k)}
<1>1. Good(0)
  <2> DEFINE f == [k \in 0 .. 0 |-> first]
  <2>1. f \in [0 .. 0 -> S] /\ f[0] = first /\ 1 .. 0 = {}
    OBVIOUS
  <2> HIDE DEF f
  <2> QED BY <2>1
<1>2. ASSUME NEW k \in 1 .. n, Good(k - 1) PROVE Good(k)
  <2>1. PICK f \in [0 .. k - 1 -> S] :
          f[0] = first /\ \A j \in 1 .. k - 1 : f[j] = step[j][f[j - 1]]
    BY <1>2
  <2> DEFINE g == [j \in 0 .. k |-> IF j = k THEN step[k][f[k - 1]] ELSE f[j]]
  <2>2. g \in [0 .. k -> S]
    BY <2>1
  <2>3. g[0] = first 
    BY <2>1
  <2>4. ASSUME NEW j \in 1 .. k PROVE g[j] = step[j][g[j - 1]]
    BY <2>1
  <2> HIDE DEF g
  <2>5. QED
    BY <2>2, <2>3, <2>4
<1>3. G = 0 .. n
  <2> HIDE DEF Good
  <2>1. G \in SUBSET (0 .. n) /\ 0 \in G /\ \A k \in 1 .. n : k - 1 \in G => k \in G
    BY <1>1, <1>2
  <2> HIDE DEF G
  <2> QED BY <2>1, IntervalInduction
<1>4. QED
  BY <1>3

-----------------------------------------------------------------------------
(* Blocks and tables.                                                       *)

Tables == Seq(BlockRecord)

LEMMA BlockFields ==
  ASSUME NEW b \in BlockRecord
  PROVE  /\ b.addr \in Nat /\ b.size \in Nat /\ b.in_use \in BOOLEAN /\ b.encrypted \in BOOLEAN
         /\ b = Block(b.addr, b.size, b.in_use, b.encrypted)
  BY DEF BlockRecord, Block

LEMMA BlockType ==
  ASSUME NEW addr \in Nat, NEW size \in Nat, NEW in_use \in BOOLEAN, NEW encrypted \in BOOLEAN
  PROVE  LET b == Block(addr, size, in_use, encrypted)
         IN /\ b \in BlockRecord
            /\ b.addr = addr /\ b.size = size /\ b.in_use = in_use /\ b.encrypted = encrypted
  BY DEF BlockRecord, Block

LEMMA TableSlots ==
  ASSUME NEW bs \in Tables
  PROVE  /\ Len(bs) \in Nat /\ DOMAIN bs = 1 .. Len(bs)
         /\ \A k \in DOMAIN bs :
              /\ bs[k] \in BlockRecord
              /\ bs[k].addr \in Nat /\ bs[k].size \in Nat
              /\ bs[k].in_use \in BOOLEAN /\ bs[k].encrypted \in BOOLEAN
<1>1. Len(bs) \in Nat /\ DOMAIN bs = 1 .. Len(bs) /\ \A k \in DOMAIN bs : bs[k] \in BlockRecord
  BY DEF Tables
<1>2. QED
  BY <1>1, BlockFields

\* A tombstone is in use, so every slot not in use holds a free block.
FreeSlots(bs) == {k \in DOMAIN bs : ~bs[k].in_use}
NoEmptyFree(bs) == \A k \in FreeSlots(bs) : bs[k].size > 0
FreeBytes(bs) == BytesOf(bs, FreeSlots(bs))
FreesApart(bs) == \A k, l \in FreeSlots(bs) : k # l => Disjoint(bs[k], bs[l])

-----------------------------------------------------------------------------
(* pool_coalesce.                                                           *)

\* What merging free blocks leaves alone.
Preserves(bs, cs) ==
  /\ cs \in Tables /\ Len(cs) = Len(bs) /\ NoEmptyFree(cs)
  /\ Live(cs) = Live(bs) /\ \A k \in Live(bs) : cs[k] = bs[k]
  /\ FreeBytes(cs) = FreeBytes(bs)
  /\ \A k \in FreeSlots(cs) : k \in FreeSlots(bs) /\ cs[k].encrypted = bs[k].encrypted
  /\ FreesApart(bs) => FreesApart(cs)

\* One merge: the lower block, the tombstone, the other slots.
LEMMA AbsorbedShape ==
  ASSUME NEW bs \in Tables, NEW lo \in DOMAIN bs, NEW hi \in DOMAIN bs, lo # hi,
         Adjacent(bs[lo], bs[hi])
  PROVE  LET cs == Absorbed(bs, lo, hi)
         IN /\ cs \in Tables /\ Len(cs) = Len(bs) /\ DOMAIN cs = DOMAIN bs
            /\ cs[lo] = [bs[lo] EXCEPT !.size = bs[lo].size + bs[hi].size]
            /\ cs[hi] = Tombstone
            /\ \A k \in DOMAIN bs \ {lo, hi} : cs[k] = bs[k]
<1>1. bs[lo] \in BlockRecord /\ bs[hi] \in BlockRecord /\ Tombstone \in BlockRecord
  BY TableSlots, BlockType DEF Tombstone
<1>2. [bs[lo] EXCEPT !.size = bs[lo].size + bs[hi].size] \in BlockRecord
  BY <1>1 DEF BlockRecord
<1>3. Absorbed(bs, lo, hi) = [k \in DOMAIN bs |->
        IF k = hi THEN Tombstone
        ELSE IF k = lo THEN [bs[lo] EXCEPT !.size = bs[lo].size + bs[hi].size] ELSE bs[k]]
  BY DEF Tables, Absorbed
<1>4. DOMAIN bs = 1 .. Len(bs) /\ Len(bs) \in Nat /\ \A k \in DOMAIN bs : bs[k] \in BlockRecord
  BY TableSlots
<1>5. QED
  BY <1>1, <1>2, <1>3, <1>4 DEF Tables

\* The merged block has the bytes of the two it came from.
LEMMA AbsorbedPreserves ==
  ASSUME NEW bs \in Tables, NoEmptyFree(bs),
         NEW lo \in DOMAIN bs, NEW hi \in DOMAIN bs, lo # hi, Adjacent(bs[lo], bs[hi])
  PROVE  Preserves(bs, Absorbed(bs, lo, hi))
<1> PICK cs : cs = Absorbed(bs, lo, hi)
  OBVIOUS
<1>1. /\ cs \in Tables /\ Len(cs) = Len(bs) /\ DOMAIN cs = DOMAIN bs
      /\ cs[lo] = [bs[lo] EXCEPT !.size = bs[lo].size + bs[hi].size]
      /\ cs[hi] = Tombstone
      /\ \A k \in DOMAIN bs \ {lo, hi} : cs[k] = bs[k]
  BY AbsorbedShape
<1>2. \A k \in DOMAIN bs : /\ bs[k].addr \in Nat /\ bs[k].size \in Nat
                           /\ bs[k].in_use \in BOOLEAN
  BY TableSlots
<1>3. /\ ~bs[lo].in_use /\ ~bs[hi].in_use /\ bs[lo].addr + bs[lo].size = bs[hi].addr
      /\ bs[lo].size > 0 /\ bs[hi].size > 0
  BY DEF Adjacent, End, NoEmptyFree, FreeSlots
<1>4. /\ cs[lo].addr = bs[lo].addr /\ cs[lo].size = bs[lo].size + bs[hi].size
      /\ ~cs[lo].in_use /\ cs[lo].encrypted = bs[lo].encrypted
      /\ cs[hi].size = 0 /\ cs[hi].in_use
  <2>1. bs[lo] = Block(bs[lo].addr, bs[lo].size, bs[lo].in_use, bs[lo].encrypted)
    BY TableSlots, BlockFields
  <2> QED BY <1>1, <1>3, <2>1 DEF Tombstone, Block
<1>5. /\ FreeSlots(cs) = FreeSlots(bs) \ {hi} /\ lo \in FreeSlots(cs)
      /\ FreeSlots(cs) \subseteq DOMAIN bs
  BY <1>1, <1>3, <1>4 DEF FreeSlots
<1>6. ASSUME NEW k \in FreeSlots(cs) PROVE cs[k].size > 0
  <2>1. CASE k = lo
    BY <1>2, <1>3, <1>4, <2>1
  <2>2. CASE k # lo
    <3>1. cs[k] = bs[k] /\ k \in FreeSlots(bs)
      BY <1>1, <1>5, <2>2
    <3> QED BY <3>1 DEF NoEmptyFree
  <2> QED BY <2>1, <2>2
<1>7. Live(cs) = Live(bs) /\ \A k \in Live(bs) : cs[k] = bs[k]
  <2>1. ASSUME NEW k \in DOMAIN bs PROVE k \in Live(cs) <=> k \in Live(bs)
    <3>1. CASE k \in {lo, hi}
      <4>1. k \notin Live(bs)
        BY <1>3, <3>1 DEF Live
      <4>2. k \notin Live(cs)
        BY <1>4, <3>1 DEF Live, Solid
      <4> QED BY <4>1, <4>2
    <3>2. CASE k \notin {lo, hi}
      BY <1>1, <3>2 DEF Live, Solid
    <3> QED BY <3>1, <3>2
  <2>2. \A k \in Live(bs) : k \in DOMAIN bs /\ k # lo /\ k # hi
    BY <1>3 DEF Live, Solid
  <2> QED BY <1>1, <2>1, <2>2 DEF Live, Solid
<1>8. FreeBytes(cs) = FreeBytes(bs)
  <2>1. Bytes(cs[lo]) = Bytes(bs[lo]) \cup Bytes(bs[hi])
    BY <1>2, <1>3, <1>4 DEF Bytes, End
  <2>2. \A k \in FreeSlots(cs) \ {lo} : Bytes(cs[k]) = Bytes(bs[k])
    BY <1>1, <1>5 DEF FreeSlots
  <2>3. lo \in FreeSlots(bs) /\ hi \in FreeSlots(bs)
    BY <1>3 DEF FreeSlots
  <2> QED BY <1>5, <2>1, <2>2, <2>3 DEF FreeBytes, BytesOf
<1>9. \A k \in FreeSlots(cs) : k \in FreeSlots(bs) /\ cs[k].encrypted = bs[k].encrypted
  BY <1>1, <1>4, <1>5 DEF FreeSlots
<1>10. ASSUME FreesApart(bs), NEW k \in FreeSlots(cs), NEW l \in FreeSlots(cs), k # l
       PROVE  Disjoint(cs[k], cs[l])
  <2>1. /\ k \in FreeSlots(bs) /\ l \in FreeSlots(bs) /\ k \in DOMAIN bs /\ l \in DOMAIN bs
        /\ lo \in FreeSlots(bs) /\ hi \in FreeSlots(bs) /\ k # hi /\ l # hi
    BY <1>3, <1>5, <1>10 DEF FreeSlots
  <2>2. CASE k # lo /\ l # lo
    BY <1>1, <1>10, <2>1, <2>2 DEF FreesApart
  <2>3. ASSUME NEW m \in FreeSlots(bs), m # lo, m # hi
        PROVE  /\ bs[m].addr + bs[m].size <= bs[lo].addr \/ bs[hi].addr + bs[hi].size <= bs[m].addr
               /\ cs[m] = bs[m]
    <3>1. m \in DOMAIN bs /\ bs[m].size > 0
      BY DEF FreeSlots, NoEmptyFree
    <3>2. Disjoint(bs[m], bs[lo]) /\ Disjoint(bs[m], bs[hi])
      BY <1>10, <2>1, <2>3 DEF FreesApart
    <3> QED BY <1>1, <1>2, <1>3, <2>3, <3>1, <3>2 DEF Disjoint, End
  <2>4. QED
    BY <1>2, <1>3, <1>4, <1>10, <2>1, <2>2, <2>3 DEF Disjoint, End
<1>11. QED
  BY <1>1, <1>6, <1>7, <1>8, <1>9, <1>10 DEF Preserves, FreesApart, NoEmptyFree

LEMMA PreservesSelf ==
  ASSUME NEW bs \in Tables, NoEmptyFree(bs)
  PROVE  Preserves(bs, bs)
  BY DEF Preserves

LEMMA PreservesChain ==
  ASSUME NEW bs, NEW cs, NEW ds, Preserves(bs, cs), Preserves(cs, ds)
  PROVE  Preserves(bs, ds)
  BY DEF Preserves

\* So does one iteration of the inner loop.
LEMMA MergePairPreserves ==
  ASSUME NEW bs \in Tables, NoEmptyFree(bs), NEW i \in DOMAIN bs, NEW j \in DOMAIN bs
  PROVE  Preserves(bs, MergePair(bs, i, j))
<1>1. CASE i # j /\ Adjacent(bs[i], bs[j])
  BY <1>1, AbsorbedPreserves DEF MergePair
<1>2. CASE ~(i # j /\ Adjacent(bs[i], bs[j])) /\ i # j /\ Adjacent(bs[j], bs[i])
  BY <1>2, AbsorbedPreserves DEF MergePair
<1>3. CASE ~(i # j /\ Adjacent(bs[i], bs[j])) /\ ~(i # j /\ Adjacent(bs[j], bs[i]))
  BY <1>3, PreservesSelf DEF MergePair
<1>4. QED
  BY <1>1, <1>2, <1>3

Kept(bs) == {cs \in Tables : Preserves(bs, cs)}

LEMMA KeptSelf ==
  ASSUME NEW bs \in Tables, NoEmptyFree(bs)
  PROVE  bs \in Kept(bs)
  BY PreservesSelf DEF Kept

LEMMA KeptTables ==
  ASSUME NEW bs \in Tables, NEW cs \in Kept(bs)
  PROVE  cs \in Tables /\ NoEmptyFree(cs) /\ DOMAIN cs = 1 .. Len(bs) /\ Len(cs) = Len(bs)
  BY TableSlots DEF Kept, Preserves

LEMMA KeptChain ==
  ASSUME NEW bs \in Tables, NEW cs \in Kept(bs), NEW ds \in Kept(cs)
  PROVE  ds \in Kept(bs)
  BY PreservesChain DEF Kept

LEMMA MergePairKept ==
  ASSUME NEW bs \in Tables, NEW cs \in Kept(bs), NEW i \in 1 .. Len(bs), NEW j \in 1 .. Len(bs)
  PROVE  MergePair(cs, i, j) \in Kept(bs)
<1>1. MergePair(cs, i, j) \in Kept(cs)
  BY KeptTables, MergePairPreserves DEF Kept, Preserves
<1>2. QED
  BY <1>1, KeptChain, KeptTables

\* The inner loop, as the sequence of tables it goes through.
LEMMA MergeSlotUnfolds ==
  ASSUME NEW blocks \in Tables, NoEmptyFree(blocks), NEW i \in 1 .. Len(blocks)
  PROVE  \E f \in [0 .. Len(blocks) -> Kept(blocks)] :
           /\ f[0] = blocks
           /\ \A j \in 1 .. Len(blocks) : f[j] = MergePair(f[j - 1], i, j)
           /\ MergeSlot(blocks, i) = f[Len(blocks)]
<1>1. PICK n \in Nat : n = Len(blocks)
  BY TableSlots
<1>2. PICK step \in [1 .. n -> [Kept(blocks) -> Kept(blocks)]] :
        \A j \in 1 .. n, bs \in Kept(blocks) : step[j][bs] = MergePair(bs, i, j)
  <2> DEFINE s == [j \in 1 .. n |-> [bs \in Kept(blocks) |-> MergePair(bs, i, j)]]
  <2>1. s \in [1 .. n -> [Kept(blocks) -> Kept(blocks)]]
    BY <1>1, MergePairKept
  <2> QED BY <2>1
<1>3. blocks \in Kept(blocks)
  BY KeptSelf
<1>4. PICK f \in [0 .. n -> Kept(blocks)] :
         f[0] = blocks /\ \A j \in 1 .. n : f[j] = step[j][f[j - 1]]
  <2> PICK S : S = Kept(blocks)
    OBVIOUS
  <2>1. blocks \in S /\ step \in [1 .. n -> [S -> S]]
    BY <1>3
  <2>2. \E f \in [0 .. n -> S] : f[0] = blocks /\ \A j \in 1 .. n : f[j] = step[j][f[j - 1]]
    BY <2>1, Iterates
  <2> QED BY <2>2
<1> DEFINE Eqn(g) == g = [j \in 0 .. n |-> IF j = 0 THEN blocks ELSE MergePair(g[j - 1], i, j)]
<1>5. Eqn(f)
  BY <1>2, <1>4
<1>6. PICK g : MergeSlot(blocks, i) = g[n] /\ Eqn(g)
  <2> DEFINE after == CHOOSE g : Eqn(g)
  <2>1. MergeSlot(blocks, i) = after[n]
    BY <1>1 DEF MergeSlot
  <2>2. Eqn(after)
    BY <1>5
  <2> QED BY <2>1, <2>2
<1>7. g[0] = blocks /\ \A j \in 1 .. n : g[j] = MergePair(g[j - 1], i, j)
  BY <1>6
<1>8. g \in [0 .. n -> Kept(blocks)]
  <2> DEFINE G == {j \in 0 .. n : g[j] \in Kept(blocks)}
  <2>1. g = [j \in 0 .. n |-> g[j]]
    BY <1>6
  <2>2. G \in SUBSET (0 .. n) /\ 0 \in G /\ \A k \in 1 .. n : k - 1 \in G => k \in G
    BY <1>1, <1>3, <1>7, MergePairKept
  <2>3. G = 0 .. n
    <3> HIDE DEF G
    <3> QED BY <2>2, IntervalInduction
  <2> QED BY <2>1, <2>3
<1>9. QED
  BY <1>1, <1>6, <1>7, <1>8

\* Hence the inner loop preserves the table.
LEMMA MergeSlotKept ==
  ASSUME NEW bs \in Tables, NEW cs \in Kept(bs), NEW i \in 1 .. Len(bs)
  PROVE  MergeSlot(cs, i) \in Kept(bs)
<1>1. MergeSlot(cs, i) \in Kept(cs)
  BY KeptTables, MergeSlotUnfolds, TableSlots
<1>2. QED
  BY <1>1, KeptChain, KeptTables

\* The outer loop, likewise.
LEMMA CoalesceUnfolds ==
  ASSUME NEW blocks \in Tables, NoEmptyFree(blocks)
  PROVE  \E f \in [0 .. Len(blocks) -> Kept(blocks)] :
           /\ f[0] = blocks
           /\ \A i \in 1 .. Len(blocks) : f[i] = MergeSlot(f[i - 1], i)
           /\ PoolCoalesce(blocks) = f[Len(blocks)]
<1>1. PICK n \in Nat : n = Len(blocks)
  BY TableSlots
<1>2. PICK step \in [1 .. n -> [Kept(blocks) -> Kept(blocks)]] :
        \A j \in 1 .. n, bs \in Kept(blocks) : step[j][bs] = MergeSlot(bs, j)
  <2> DEFINE s == [j \in 1 .. n |-> [bs \in Kept(blocks) |-> MergeSlot(bs, j)]]
  <2>1. s \in [1 .. n -> [Kept(blocks) -> Kept(blocks)]]
    BY <1>1, MergeSlotKept
  <2> QED BY <2>1
<1>3. blocks \in Kept(blocks)
  BY KeptSelf
<1>4. PICK f \in [0 .. n -> Kept(blocks)] :
         f[0] = blocks /\ \A j \in 1 .. n : f[j] = step[j][f[j - 1]]
  <2> PICK S : S = Kept(blocks)
    OBVIOUS
  <2>1. blocks \in S /\ step \in [1 .. n -> [S -> S]]
    BY <1>3
  <2>2. \E f \in [0 .. n -> S] : f[0] = blocks /\ \A j \in 1 .. n : f[j] = step[j][f[j - 1]]
    BY <2>1, Iterates
  <2> QED BY <2>2
<1> DEFINE Eqn(g) == g = [j \in 0 .. n |-> IF j = 0 THEN blocks ELSE MergeSlot(g[j - 1], j)]
<1>5. Eqn(f)
  BY <1>2, <1>4
<1>6. PICK g : PoolCoalesce(blocks) = g[n] /\ Eqn(g)
  <2> DEFINE after == CHOOSE g : Eqn(g)
  <2>1. PoolCoalesce(blocks) = after[n]
    BY <1>1 DEF PoolCoalesce
  <2>2. Eqn(after)
    BY <1>5
  <2> QED BY <2>1, <2>2
<1>7. g[0] = blocks /\ \A j \in 1 .. n : g[j] = MergeSlot(g[j - 1], j)
  BY <1>6
<1>8. g \in [0 .. n -> Kept(blocks)]
  <2> DEFINE G == {j \in 0 .. n : g[j] \in Kept(blocks)}
  <2>1. g = [j \in 0 .. n |-> g[j]]
    BY <1>6
  <2>2. G \in SUBSET (0 .. n) /\ 0 \in G /\ \A k \in 1 .. n : k - 1 \in G => k \in G
    BY <1>1, <1>3, <1>7, MergeSlotKept
  <2>3. G = 0 .. n
    <3> HIDE DEF G
    <3> QED BY <2>2, IntervalInduction
  <2> QED BY <2>1, <2>3
<1>9. QED
  BY <1>1, <1>6, <1>7, <1>8

\* The loops visit the pair <<a, b>> after the pair <<i, j>>.
Unseen(a, b, i, j) == a > i \/ (a = i /\ b > j)

\* Where a pass stands after the pair <<i, j>>: either nothing was merged and
\* every touching pair is still ahead in both orders, or something was merged
\* and the one touching pair that may be left is still ahead in some order.
Pending(bs, start, i, j) ==
  \/ /\ bs = start
     /\ \A a, b \in DOMAIN bs : Adjacent(bs[a], bs[b]) => Unseen(a, b, i, j) /\ Unseen(b, a, i, j)
  \/ \A a, b \in DOMAIN bs : Adjacent(bs[a], bs[b]) =>
       /\ Unseen(a, b, i, j) \/ Unseen(b, a, i, j)
       /\ \A c, d \in DOMAIN bs : Adjacent(bs[c], bs[d]) => a = c /\ b = d

\* Only slot r, which was just released, may touch other free blocks.
OneHole(bs, r) ==
  /\ bs \in Tables /\ NoEmptyFree(bs) /\ FreesApart(bs)
  /\ \A a, b \in DOMAIN bs : Adjacent(bs[a], bs[b]) => a = r \/ b = r

\* A merge makes no two blocks touch that had not touched a merged one.
LEMMA AbsorbedAdjacent ==
  ASSUME NEW bs \in Tables, NoEmptyFree(bs),
         NEW lo \in DOMAIN bs, NEW hi \in DOMAIN bs, lo # hi, Adjacent(bs[lo], bs[hi]),
         NEW a \in DOMAIN bs, NEW b \in DOMAIN bs,
         Adjacent(Absorbed(bs, lo, hi)[a], Absorbed(bs, lo, hi)[b])
  PROVE  /\ a # hi /\ b # hi
         /\ \/ a # lo /\ b # lo /\ Adjacent(bs[a], bs[b])
            \/ a # lo /\ b = lo /\ Adjacent(bs[a], bs[lo])
            \/ a = lo /\ b # lo /\ Adjacent(bs[hi], bs[b])
<1> PICK cs : cs = Absorbed(bs, lo, hi)
  OBVIOUS
<1>1. /\ cs[lo] = [bs[lo] EXCEPT !.size = bs[lo].size + bs[hi].size]
      /\ cs[hi] = Tombstone
      /\ \A k \in DOMAIN bs \ {lo, hi} : cs[k] = bs[k]
  BY AbsorbedShape
<1>2. bs[lo] = Block(bs[lo].addr, bs[lo].size, bs[lo].in_use, bs[lo].encrypted)
  BY TableSlots, BlockFields
<1>3. /\ cs[lo].addr = bs[lo].addr /\ cs[lo].size = bs[lo].size + bs[hi].size
      /\ cs[hi].in_use
  BY <1>1, <1>2 DEF Tombstone, Block
<1>4. /\ bs[lo].addr \in Nat /\ bs[lo].size \in Nat /\ bs[hi].addr \in Nat /\ bs[hi].size \in Nat
      /\ ~bs[lo].in_use /\ ~bs[hi].in_use /\ bs[lo].addr + bs[lo].size = bs[hi].addr
      /\ bs[lo].size > 0
  BY TableSlots DEF Adjacent, End, NoEmptyFree, FreeSlots
<1>5. ~cs[a].in_use /\ ~cs[b].in_use /\ cs[a].addr + cs[a].size = cs[b].addr
  BY DEF Adjacent, End
<1>6. a # hi /\ b # hi
  BY <1>3, <1>5
<1>7. CASE a # lo /\ b # lo
  BY <1>1, <1>5, <1>6, <1>7 DEF Adjacent, End
<1>8. CASE a # lo /\ b = lo
  BY <1>1, <1>3, <1>4, <1>5, <1>6, <1>8 DEF Adjacent, End
<1>9. CASE a = lo /\ b # lo
  <2>1. cs[b] = bs[b]
    BY <1>1, <1>6, <1>9
  <2>2. bs[hi].addr + bs[hi].size = bs[b].addr
    BY <1>3, <1>4, <1>5, <1>9, <2>1
  <2>3. ~bs[b].in_use
    BY <1>5, <2>1
  <2> QED BY <1>4, <1>6, <1>9, <2>2, <2>3 DEF Adjacent, End
<1>10. CASE a = lo /\ b = lo
  BY <1>3, <1>4, <1>5, <1>10
<1>11. QED
  BY <1>6, <1>7, <1>8, <1>9, <1>10

\* A block touches at most one free block on each side.
LEMMA OneNeighbour ==
  ASSUME NEW bs \in Tables, NoEmptyFree(bs), FreesApart(bs),
         NEW a \in DOMAIN bs, NEW b \in DOMAIN bs, NEW c \in DOMAIN bs
  PROVE  /\ Adjacent(bs[a], bs[b]) => a # b
         /\ Adjacent(bs[a], bs[c]) /\ Adjacent(bs[b], bs[c]) => a = b
         /\ Adjacent(bs[c], bs[a]) /\ Adjacent(bs[c], bs[b]) => a = b
<1>1. \A k \in {a, b, c} : bs[k].addr \in Nat /\ bs[k].size \in Nat
  BY TableSlots
<1>2. \A k \in {a, b, c} : ~bs[k].in_use => bs[k].size > 0
  BY DEF NoEmptyFree, FreeSlots
<1>3. ~bs[a].in_use /\ ~bs[b].in_use /\ a # b => Disjoint(bs[a], bs[b])
  BY DEF FreesApart, FreeSlots
<1>4. QED
  BY <1>1, <1>2, <1>3 DEF Adjacent, Disjoint, End

\* One iteration of the inner loop advances Pending by one pair.
LEMMA PendingStep ==
  ASSUME NEW start, NEW r, OneHole(start, r),
         NEW bs \in Kept(start), NEW i \in 1 .. Len(start), NEW j \in 1 .. Len(start),
         Pending(bs, start, i, j - 1)
  PROVE  Pending(MergePair(bs, i, j), start, i, j)
<1>1. /\ start \in Tables /\ NoEmptyFree(start) /\ FreesApart(start)
      /\ bs \in Tables /\ NoEmptyFree(bs) /\ DOMAIN bs = 1 .. Len(start)
      /\ DOMAIN start = 1 .. Len(start) /\ Len(start) \in Nat /\ FreesApart(bs)
  BY KeptTables, TableSlots DEF OneHole, Kept, Preserves
<1>2. CASE ~Adjacent(bs[i], bs[j]) /\ ~Adjacent(bs[j], bs[i])
  <2>1. MergePair(bs, i, j) = bs
    BY <1>2 DEF MergePair
  <2>2. ASSUME NEW a \in DOMAIN bs, NEW b \in DOMAIN bs, Adjacent(bs[a], bs[b])
        PROVE  /\ Unseen(a, b, i, j - 1) => Unseen(a, b, i, j)
               /\ Unseen(b, a, i, j - 1) => Unseen(b, a, i, j)
    <3>1. ~(a = i /\ b = j) /\ ~(a = j /\ b = i)
      BY <1>2, <2>2
    <3> QED BY <1>1, <3>1 DEF Unseen
  <2> QED BY <2>1, <2>2 DEF Pending
<1>3. ASSUME NEW lo \in {i, j}, NEW hi \in {i, j}, lo # hi, Adjacent(bs[lo], bs[hi])
      PROVE  Pending(Absorbed(bs, lo, hi), start, i, j)
  <2> PICK cs : cs = Absorbed(bs, lo, hi)
    OBVIOUS
  <2>1. DOMAIN cs = DOMAIN bs
    <3>1. lo \in DOMAIN bs /\ hi \in DOMAIN bs
      BY <1>1
    <3> QED BY <1>1, <1>3, <3>1, AbsorbedShape
  <2>2. ASSUME NEW a \in DOMAIN bs, NEW b \in DOMAIN bs, Adjacent(cs[a], cs[b])
        PROVE  /\ a # hi /\ b # hi
               /\ \/ a # lo /\ b # lo /\ Adjacent(bs[a], bs[b])
                  \/ a # lo /\ b = lo /\ Adjacent(bs[a], bs[lo])
                  \/ a = lo /\ b # lo /\ Adjacent(bs[hi], bs[b])
    BY <1>1, <1>3, <2>2, AbsorbedAdjacent
  <2>3. CASE /\ bs = start
             /\ \A a, b \in DOMAIN bs : Adjacent(bs[a], bs[b]) =>
                  Unseen(a, b, i, j - 1) /\ Unseen(b, a, i, j - 1)
    <3>1. lo = r \/ hi = r
      BY <1>1, <1>3, <2>3 DEF OneHole
    <3>2. CASE lo = r
      <4>1. ASSUME NEW a \in DOMAIN bs, NEW b \in DOMAIN bs, Adjacent(cs[a], cs[b])
            PROVE  b = lo /\ a # lo /\ a # hi /\ Adjacent(bs[a], bs[lo])
        BY <1>1, <1>3, <2>2, <2>3, <3>2, <4>1 DEF OneHole
      <4>2. ASSUME NEW a \in DOMAIN bs, NEW b \in DOMAIN bs, Adjacent(cs[a], cs[b])
            PROVE  Unseen(a, b, i, j)
        <5>1. b = lo /\ a # lo /\ a # hi /\ Unseen(a, lo, i, j - 1)
          BY <1>1, <1>3, <2>3, <4>1, <4>2
        <5> QED BY <1>1, <1>3, <5>1 DEF Unseen
      <4>3. ASSUME NEW a \in DOMAIN bs, NEW b \in DOMAIN bs, Adjacent(cs[a], cs[b]),
                   NEW c \in DOMAIN bs, NEW d \in DOMAIN bs, Adjacent(cs[c], cs[d])
            PROVE  a = c /\ b = d
        <5>1. b = lo /\ d = lo /\ Adjacent(bs[a], bs[lo]) /\ Adjacent(bs[c], bs[lo])
          BY <4>1, <4>3
        <5> QED BY <1>1, <1>3, <5>1, OneNeighbour
      <4> QED BY <2>1, <4>2, <4>3 DEF Pending
    <3>3. CASE hi = r
      <4>1. ASSUME NEW a \in DOMAIN bs, NEW b \in DOMAIN bs, Adjacent(cs[a], cs[b])
            PROVE  a = lo /\ b # lo /\ b # hi /\ Adjacent(bs[hi], bs[b])
        BY <1>1, <1>3, <2>2, <2>3, <3>3, <4>1 DEF OneHole
      <4>2. ASSUME NEW a \in DOMAIN bs, NEW b \in DOMAIN bs, Adjacent(cs[a], cs[b])
            PROVE  Unseen(b, a, i, j)
        <5>1. a = lo /\ b # lo /\ b # hi /\ Unseen(hi, b, i, j - 1) /\ Unseen(b, hi, i, j - 1)
          BY <1>1, <1>3, <2>3, <4>1, <4>2
        <5> QED BY <1>1, <1>3, <5>1 DEF Unseen
      <4>3. ASSUME NEW a \in DOMAIN bs, NEW b \in DOMAIN bs, Adjacent(cs[a], cs[b]),
                   NEW c \in DOMAIN bs, NEW d \in DOMAIN bs, Adjacent(cs[c], cs[d])
            PROVE  a = c /\ b = d
        <5>1. a = lo /\ c = lo /\ Adjacent(bs[hi], bs[b]) /\ Adjacent(bs[hi], bs[d])
          BY <4>1, <4>3
        <5> QED BY <1>1, <1>3, <5>1, OneNeighbour
      <4> QED BY <2>1, <4>2, <4>3 DEF Pending
    <3> QED BY <3>1, <3>2, <3>3
  <2>4. CASE \A a, b, c, d \in DOMAIN bs :
               Adjacent(bs[a], bs[b]) /\ Adjacent(bs[c], bs[d]) => a = c /\ b = d
    <3>1. ASSUME NEW a \in DOMAIN bs, NEW b \in DOMAIN bs, Adjacent(cs[a], cs[b]) PROVE FALSE
      BY <1>1, <1>3, <2>2, <2>4, <3>1
    <3> QED BY <2>1, <3>1 DEF Pending
  <2> QED BY <2>3, <2>4 DEF Pending
<1>4. i # j \/ ~Adjacent(bs[i], bs[j])
  BY <1>1, OneNeighbour
<1>5. QED
  BY <1>2, <1>3, <1>4 DEF MergePair

\* The inner loop for slot i advances it by one slot.
LEMMA SlotPending ==
  ASSUME NEW start, NEW r, OneHole(start, r),
         NEW bs \in Kept(start), NEW i \in 1 .. Len(start),
         Pending(bs, start, i - 1, Len(start))
  PROVE  Pending(MergeSlot(bs, i), start, i, Len(start))
<1>1. /\ start \in Tables /\ bs \in Tables /\ NoEmptyFree(bs) /\ Len(bs) = Len(start)
      /\ DOMAIN bs = 1 .. Len(start)
  BY KeptTables DEF OneHole
<1>2. PICK n \in Nat : n = Len(start)
  BY <1>1, TableSlots
<1>3. PICK f \in [0 .. n -> Kept(bs)] :
        /\ f[0] = bs /\ \A j \in 1 .. n : f[j] = MergePair(f[j - 1], i, j)
        /\ MergeSlot(bs, i) = f[n]
  BY <1>2, <1>1, MergeSlotUnfolds
<1>4. \A j \in 0 .. n : f[j] \in Kept(start)
  BY <1>1, <1>3, KeptChain
<1>5. Pending(bs, start, i, 0)
  <2>1. \A a, b \in DOMAIN bs : Unseen(a, b, i - 1, n) => Unseen(a, b, i, 0)
    BY <1>2, <1>1 DEF Unseen
  <2> QED BY <1>2, <2>1 DEF Pending
<1> DEFINE G == {j \in 0 .. n : Pending(f[j], start, i, j)}
<1>6. G \in SUBSET (0 .. n) /\ 0 \in G
  BY <1>3, <1>5
<1>7. ASSUME NEW j \in 1 .. n, j - 1 \in G PROVE j \in G
  <2>1. Pending(f[j - 1], start, i, j - 1) /\ f[j - 1] \in Kept(start)
    BY <1>4, <1>7
  <2>2. Pending(MergePair(f[j - 1], i, j), start, i, j)
    BY <1>2, <2>1, PendingStep
  <2> QED BY <1>3, <2>2
<1>8. G = 0 .. n
  <2> HIDE DEF G
  <2> QED BY <1>6, <1>7, IntervalInduction
<1>9. QED
  BY <1>2, <1>3, <1>8

\* One pass is enough.
LEMMA CoalescedApart ==
  ASSUME NEW start, NEW r, OneHole(start, r)
  PROVE  LET cs == PoolCoalesce(start)
         IN \A a, b \in DOMAIN cs : ~Adjacent(cs[a], cs[b])
<1>1. start \in Tables /\ NoEmptyFree(start) /\ DOMAIN start = 1 .. Len(start)
  BY TableSlots DEF OneHole
<1>2. PICK n \in Nat : n = Len(start)
  BY <1>1, TableSlots
<1>3. PICK f \in [0 .. n -> Kept(start)] :
        /\ f[0] = start /\ \A i \in 1 .. n : f[i] = MergeSlot(f[i - 1], i)
        /\ PoolCoalesce(start) = f[n]
  BY <1>2, <1>1, CoalesceUnfolds
<1>4. Pending(start, start, 0, n)
  BY <1>2, <1>1 DEF Pending, Unseen
<1> DEFINE G == {i \in 0 .. n : Pending(f[i], start, i, n)}
<1>5. G \in SUBSET (0 .. n) /\ 0 \in G
  BY <1>3, <1>4
<1>6. ASSUME NEW i \in 1 .. n, i - 1 \in G PROVE i \in G
  <2>1. Pending(f[i - 1], start, i - 1, n) /\ f[i - 1] \in Kept(start)
    BY <1>3, <1>6
  <2>2. Pending(MergeSlot(f[i - 1], i), start, i, n)
    BY <1>2, <2>1, SlotPending
  <2> QED BY <1>3, <2>2
<1>7. G = 0 .. n
  <2> HIDE DEF G
  <2> QED BY <1>5, <1>6, IntervalInduction
<1>8. Pending(f[n], start, n, n) /\ f[n] \in Kept(start)
  BY <1>3, <1>7
<1>9. \A a, b \in DOMAIN f[n] : ~Unseen(a, b, n, n)
  BY <1>2, <1>1, <1>8, KeptTables DEF Unseen
<1>10. QED
  BY <1>3, <1>8, <1>9 DEF Pending

-----------------------------------------------------------------------------
(* The invariant of a table.                                                *)

LiveBytes(bs) == BytesOf(bs, Live(bs))
NoneTouch(bs) == \A a, b \in DOMAIN bs : ~Adjacent(bs[a], bs[b])
Range0(base, size) == base .. base + size - 1

\* Blocks never overlap a live one and lie in the pool; while the table can
\* grow, the free ones are apart, do not touch, and with the live ones cover
\* the pool; only the first block of a new pool may be free and flagged.
TableInv(bs, base, size, encrypt) ==
  /\ bs \in Tables /\ Len(bs) <= MaxBlocks /\ NoEmptyFree(bs)
  /\ \A k, l \in Live(bs) : k # l => Disjoint(bs[k], bs[l])
  /\ LiveBytes(bs) \cap FreeBytes(bs) = {}
  /\ LiveBytes(bs) \cup FreeBytes(bs) \subseteq Range0(base, size)
  /\ \A k \in FreeSlots(bs) : bs[k].encrypted => Len(bs) = 1 /\ encrypt
  /\ Growable(bs) =>
       /\ FreesApart(bs) /\ NoneTouch(bs)
       /\ Range0(base, size) \subseteq LiveBytes(bs) \cup FreeBytes(bs)

\* Blocks are disjoint when their bytes are.
LEMMA ApartDisjoint ==
  ASSUME NEW a, NEW b, a.addr \in Nat, a.size \in Nat, b.addr \in Nat, b.size \in Nat,
         a.size > 0, b.size > 0
  PROVE  Disjoint(a, b) <=> Bytes(a) \cap Bytes(b) = {}
<1>1. CASE Disjoint(a, b)
  BY <1>1 DEF Disjoint, Bytes, End
<1>2. CASE ~Disjoint(a, b)
  <2>1. a.addr \in Bytes(b) \/ b.addr \in Bytes(a)
    BY <1>2 DEF Disjoint, Bytes, End
  <2>2. a.addr \in Bytes(a) /\ b.addr \in Bytes(b)
    BY DEF Bytes, End
  <2> QED BY <1>2, <2>1, <2>2
<1>3. QED
  BY <1>1, <1>2

\* A block is live or free.
LEMMA SlotKinds ==
  ASSUME NEW bs \in Tables, NoEmptyFree(bs)
  PROVE  /\ Solid(bs) = Live(bs) \cup FreeSlots(bs) /\ Live(bs) \cap FreeSlots(bs) = {}
         /\ Solid(bs) \ Live(bs) = FreeSlots(bs)
         /\ Solid(bs) \subseteq DOMAIN bs
         /\ BytesOf(bs, Solid(bs)) = LiveBytes(bs) \cup FreeBytes(bs)
<1>1. \A k \in DOMAIN bs : bs[k].in_use \in BOOLEAN
  BY TableSlots
<1>2. Solid(bs) = Live(bs) \cup FreeSlots(bs)
  BY <1>1 DEF Solid, Live, FreeSlots, NoEmptyFree
<1>3. Live(bs) \cap FreeSlots(bs) = {}
  BY DEF Live, FreeSlots
<1>4. BytesOf(bs, Solid(bs)) = LiveBytes(bs) \cup FreeBytes(bs)
  BY <1>2 DEF LiveBytes, FreeBytes, BytesOf
<1>5. QED
  BY <1>2, <1>3, <1>4 DEF Solid

\* One block, all free.
LEMMA NewTable ==
  ASSUME NEW base \in Nat, NEW size \in Nat \ {0}, NEW encrypt \in BOOLEAN
  PROVE  /\ TableInv(<<Block(base, size, FALSE, encrypt)>>, base, size, encrypt)
         /\ Live(<<Block(base, size, FALSE, encrypt)>>) = {}
<1> DEFINE b == Block(base, size, FALSE, encrypt)
<1> PICK bs : bs = <<b>>
  OBVIOUS
<1>1. b \in BlockRecord /\ b.addr = base /\ b.size = size /\ b.in_use = FALSE /\ b.encrypted = encrypt
  BY DEF Block, BlockRecord
<1>2. bs \in Tables /\ Len(bs) = 1 /\ DOMAIN bs = {1} /\ bs[1] = b
  <2> HIDE DEF b
  <2> QED BY <1>1 DEF Tables
<1>3. FreeSlots(bs) = {1} /\ Live(bs) = {} /\ NoEmptyFree(bs)
  <2> HIDE DEF b
  <2> QED BY <1>1, <1>2 DEF FreeSlots, Live, Solid, NoEmptyFree
<1>4. FreeBytes(bs) = Range0(base, size) /\ LiveBytes(bs) = {}
  <2>1. Bytes(bs[1]) = Range0(base, size)
    <3> HIDE DEF b
    <3> QED BY <1>1, <1>2 DEF Bytes, End, Range0
  <2> QED BY <1>3, <2>1 DEF FreeBytes, LiveBytes, BytesOf
<1>5. NoneTouch(bs) /\ FreesApart(bs)
  <2> HIDE DEF b
  <2>1. ~Adjacent(bs[1], bs[1])
    BY <1>1, <1>2 DEF Adjacent, End
  <2> QED BY <1>2, <1>3, <2>1 DEF NoneTouch, FreesApart
<1>6. TableInv(bs, base, size, encrypt)
  <2>1. \A k \in FreeSlots(bs) : bs[k].encrypted => Len(bs) = 1 /\ encrypt
    BY <1>1, <1>2, <1>3
  <2>2. Len(bs) <= MaxBlocks
    BY <1>2, SpmpConstants
  <2> HIDE DEF b
  <2> QED BY <1>2, <1>3, <1>4, <1>5, <2>1, <2>2 DEF TableInv
<1>7. QED
  BY <1>3, <1>6

-----------------------------------------------------------------------------
(* spmp_free.                                                               *)

LEMMA SetInUse ==
  ASSUME NEW a, NEW s, NEW u, NEW e, NEW v
  PROVE  [Block(a, s, u, e) EXCEPT !.in_use = v] = Block(a, s, v, e)
  BY DEF Block

LEMMA SetEncrypted ==
  ASSUME NEW a, NEW s, NEW u, NEW e, NEW v
  PROVE  [Block(a, s, u, e) EXCEPT !.encrypted = v] = Block(a, s, u, v)
  BY DEF Block

LEMMA ReleasedBlock ==
  ASSUME NEW b \in BlockRecord
  PROVE  [[b EXCEPT !.in_use = FALSE] EXCEPT !.encrypted = FALSE]
           = Block(b.addr, b.size, FALSE, FALSE)
<1>1. PICK a, s, u, e : a = b.addr /\ s = b.size /\ u = b.in_use /\ e = b.encrypted
  OBVIOUS
<1>2. b = Block(a, s, u, e)
  BY <1>1, BlockFields
<1>3. PICK v : v = FALSE
  OBVIOUS
<1>4. [Block(a, s, u, e) EXCEPT !.in_use = v] = Block(a, s, v, e)
  BY SetInUse
<1>5. [Block(a, s, v, e) EXCEPT !.encrypted = v] = Block(a, s, v, v)
  BY SetEncrypted
<1>6. [[b EXCEPT !.in_use = v] EXCEPT !.encrypted = v] = Block(a, s, v, v)
  BY <1>2, <1>4, <1>5
<1>7. QED
  BY <1>1, <1>3, <1>6

LEMMA ReplacedSlot ==
  ASSUME NEW bs \in Tables, NEW i \in DOMAIN bs, NEW b \in BlockRecord
  PROVE  /\ [bs EXCEPT ![i] = b] \in Tables
         /\ Len([bs EXCEPT ![i] = b]) = Len(bs) /\ DOMAIN [bs EXCEPT ![i] = b] = DOMAIN bs
         /\ [bs EXCEPT ![i] = b][i] = b
         /\ \A k \in DOMAIN bs \ {i} : [bs EXCEPT ![i] = b][k] = bs[k]
<1>1. i \in 1 .. Len(bs)
  BY TableSlots
<1>2. QED
  BY <1>1, ExceptSeq DEF Tables

\* Releasing slot i changes that slot only.
LEMMA ReleasedShape ==
  ASSUME NEW p, p.blocks \in Tables, NEW i \in Live(p.blocks)
  PROVE  /\ Released(p, i) \in Tables /\ Len(Released(p, i)) = Len(p.blocks)
         /\ DOMAIN Released(p, i) = DOMAIN p.blocks
         /\ Released(p, i)[i] = Block(p.blocks[i].addr, p.blocks[i].size, FALSE, FALSE)
         /\ \A k \in DOMAIN p.blocks \ {i} : Released(p, i)[k] = p.blocks[k]
<1> PICK bs \in Tables : bs = p.blocks
  OBVIOUS
<1>1. i \in DOMAIN bs
  BY DEF Live, Solid
<1>2. PICK b \in BlockRecord : b = Block(bs[i].addr, bs[i].size, FALSE, FALSE)
  BY <1>1, TableSlots, BlockType
<1>3. [[bs[i] EXCEPT !.in_use = FALSE] EXCEPT !.encrypted = FALSE] = b
  BY <1>1, <1>2, TableSlots, ReleasedBlock
<1>4. Released(p, i)
        = [bs EXCEPT ![i] = [[bs[i] EXCEPT !.in_use = FALSE] EXCEPT !.encrypted = FALSE]]
  <2>1. DOMAIN bs = 1 .. Len(bs)
    BY TableSlots
  <2> QED BY <1>1, <2>1 DEF Released, Tables
<1>5. Released(p, i) = [bs EXCEPT ![i] = b]
  BY <1>3, <1>4
<1>6. /\ [bs EXCEPT ![i] = b] \in Tables
      /\ Len([bs EXCEPT ![i] = b]) = Len(bs) /\ DOMAIN [bs EXCEPT ![i] = b] = DOMAIN bs
      /\ [bs EXCEPT ![i] = b][i] = b
      /\ \A k \in DOMAIN bs \ {i} : [bs EXCEPT ![i] = b][k] = bs[k]
  BY <1>1, ReplacedSlot
<1>7. QED
  BY <1>2, <1>5, <1>6

\* spmp_free: release, then coalesce.
LEMMA FreeTable ==
  ASSUME NEW p, NEW bs, NEW base \in Nat, NEW size \in Nat, NEW encrypt \in BOOLEAN,
         TableInv(bs, base, size, encrypt), p.blocks = bs, NEW i \in Live(bs)
  PROVE  LET cs == PoolCoalesce(Released(p, i))
         IN /\ TableInv(cs, base, size, encrypt)
            /\ Live(cs) = Live(bs) \ {i}
            /\ \A k \in Live(cs) : cs[k] = bs[k]
            /\ LiveBytes(bs) = LiveBytes(cs) \cup Bytes(bs[i])
            /\ LiveBytes(cs) \cap Bytes(bs[i]) = {}
<1> PICK rs : rs = Released(p, i)
  OBVIOUS
<1>1. bs \in Tables /\ NoEmptyFree(bs)
  BY DEF TableInv
<1>2. /\ bs \in Tables /\ NoEmptyFree(bs)
      /\ rs \in Tables /\ Len(rs) = Len(bs) /\ DOMAIN rs = DOMAIN bs
      /\ rs[i] = Block(bs[i].addr, bs[i].size, FALSE, FALSE)
      /\ \A k \in DOMAIN bs \ {i} : rs[k] = bs[k]
  <2>1. p.blocks \in Tables /\ i \in Live(p.blocks)
    BY <1>1
  <2> QED BY <1>1, <2>1, ReleasedShape
<1>3. i \in DOMAIN bs /\ bs[i].size > 0 /\ bs[i].in_use
  BY DEF Live, Solid
<1>4. /\ rs[i].in_use = FALSE /\ rs[i].encrypted = FALSE
      /\ rs[i].addr = bs[i].addr /\ rs[i].size = bs[i].size
  BY <1>2 DEF Block
<1>5. \A k \in DOMAIN bs : /\ bs[k].addr \in Nat /\ bs[k].size \in Nat
                           /\ rs[k].addr = bs[k].addr /\ rs[k].size = bs[k].size
  BY <1>2, <1>4, TableSlots
<1>6. FreeSlots(rs) = FreeSlots(bs) \cup {i}
  BY <1>2, <1>3, <1>4 DEF FreeSlots
<1>7. Live(rs) = Live(bs) \ {i} /\ \A k \in Live(rs) : rs[k] = bs[k]
  <2>1. \A k \in DOMAIN bs : k # i => (k \in Live(rs) <=> k \in Live(bs))
    BY <1>2 DEF Live, Solid
  <2>2. i \notin Live(rs)
    BY <1>4 DEF Live
  <2>3. Live(rs) \subseteq DOMAIN bs /\ Live(bs) \subseteq DOMAIN bs
    BY <1>2 DEF Live, Solid
  <2> QED BY <1>2, <2>1, <2>2, <2>3
<1>8. NoEmptyFree(rs)
  BY <1>2, <1>3, <1>5, <1>6 DEF NoEmptyFree, FreeSlots
<1>9. \A k \in DOMAIN bs : Bytes(rs[k]) = Bytes(bs[k]) /\ End(rs[k]) = End(bs[k])
  BY <1>5 DEF Bytes, End
<1>10. FreeBytes(rs) = FreeBytes(bs) \cup Bytes(bs[i])
  <2>1. FreeSlots(bs) \subseteq DOMAIN bs
    BY DEF FreeSlots
  <2> QED BY <1>3, <1>6, <1>9, <2>1 DEF FreeBytes, BytesOf
<1>11. LiveBytes(bs) = LiveBytes(rs) \cup Bytes(bs[i]) /\ LiveBytes(rs) \cap Bytes(bs[i]) = {}
  <2>1. ASSUME NEW k \in Live(rs) PROVE Bytes(bs[k]) \cap Bytes(bs[i]) = {}
    <3>1. k \in Live(bs) /\ k # i /\ k \in DOMAIN bs /\ bs[k].size > 0
      BY <1>7 DEF Live, Solid
    <3>2. Disjoint(bs[k], bs[i])
      BY <3>1 DEF TableInv
    <3> QED BY <1>3, <1>5, <3>1, <3>2, ApartDisjoint
  <2> QED BY <1>7, <2>1 DEF LiveBytes, BytesOf
<1>12. FreesApart(bs) => FreesApart(rs)
  <2>1. ASSUME NEW k \in FreeSlots(bs) PROVE Disjoint(bs[k], bs[i]) /\ Disjoint(bs[i], bs[k])
    <3>1. k \in DOMAIN bs /\ bs[k].size > 0
      BY <1>2 DEF NoEmptyFree, FreeSlots
    <3>2. Bytes(bs[k]) \cap Bytes(bs[i]) = {}
      BY <1>11 DEF TableInv, FreeBytes, BytesOf
    <3> QED BY <1>3, <1>5, <3>1, <3>2, ApartDisjoint
  <2>2. \A k, l \in DOMAIN bs : Disjoint(rs[k], rs[l]) <=> Disjoint(bs[k], bs[l])
    BY <1>5, <1>9 DEF Disjoint
  <2>3. FreeSlots(bs) \subseteq DOMAIN bs
    BY DEF FreeSlots
  <2> QED BY <1>3, <1>6, <2>1, <2>2, <2>3 DEF FreesApart
<1>13. Growable(bs) => OneHole(rs, i)
  <2>1. ASSUME NoneTouch(bs), NEW a \in DOMAIN rs, NEW b \in DOMAIN rs, a # i, b # i
        PROVE  ~Adjacent(rs[a], rs[b])
    BY <1>2, <2>1 DEF NoneTouch
  <2> QED BY <1>2, <1>8, <1>12, <2>1 DEF OneHole, TableInv
<1> PICK cs : cs = PoolCoalesce(rs)
  OBVIOUS
<1>14. Preserves(rs, cs)
  <2>1. PICK f \in [0 .. Len(rs) -> Kept(rs)] : PoolCoalesce(rs) = f[Len(rs)]
    BY <1>2, <1>8, CoalesceUnfolds
  <2>2. Len(rs) \in 0 .. Len(rs)
    BY <1>2, TableSlots
  <2> QED BY <2>1, <2>2 DEF Kept
<1>15. Growable(bs) => NoneTouch(cs)
  BY <1>13, CoalescedApart DEF NoneTouch
<1>16. /\ cs \in Tables /\ Len(cs) = Len(bs) /\ NoEmptyFree(cs)
       /\ Live(cs) = Live(rs) /\ \A k \in Live(cs) : cs[k] = rs[k]
       /\ FreeBytes(cs) = FreeBytes(rs)
       /\ \A k \in FreeSlots(cs) : k \in FreeSlots(rs) /\ cs[k].encrypted = rs[k].encrypted
       /\ FreesApart(rs) => FreesApart(cs)
  BY <1>2, <1>14 DEF Preserves
<1>17. LiveBytes(cs) = LiveBytes(rs)
  BY <1>16 DEF LiveBytes, BytesOf
<1>18. \A k, l \in Live(cs) : k # l => Disjoint(cs[k], cs[l])
  BY <1>7, <1>16 DEF TableInv
<1>19. \A k \in FreeSlots(cs) : cs[k].encrypted => Len(cs) = 1 /\ encrypt
  <2>1. ASSUME NEW k \in FreeSlots(rs), rs[k].encrypted PROVE k \in FreeSlots(bs) /\ bs[k].encrypted
    <3>1. k # i
      BY <1>4, <2>1
    <3> QED BY <1>2, <1>6, <2>1, <3>1 DEF FreeSlots
  <2> QED BY <1>16, <2>1 DEF TableInv
<1>20. QED
  <2>1. LiveBytes(cs) \cup FreeBytes(cs) = LiveBytes(bs) \cup FreeBytes(bs)
    BY <1>10, <1>11, <1>16, <1>17
  <2>2. LiveBytes(cs) \cap FreeBytes(cs) = {}
    BY <1>10, <1>11, <1>16, <1>17 DEF TableInv
  <2>3. Growable(cs) <=> Growable(bs)
    BY <1>16 DEF Growable
  <2>4. TableInv(cs, base, size, encrypt)
    BY <1>12, <1>15, <1>16, <1>18, <1>19, <2>1, <2>2, <2>3 DEF TableInv
  <2> QED BY <1>7, <1>11, <1>16, <1>17, <2>4

-----------------------------------------------------------------------------
(* spmp_alloc.                                                              *)

LEMMA Extended ==
  ASSUME NEW bs \in Tables, NEW b \in BlockRecord
  PROVE  /\ bs \o <<b>> \in Tables /\ Len(bs \o <<b>>) = Len(bs) + 1
         /\ (bs \o <<b>>)[Len(bs) + 1] = b
         /\ \A k \in 1 .. Len(bs) : (bs \o <<b>>)[k] = bs[k]
<1>1. bs \o <<b>> = Append(bs, b)
  BY AppendIsConcat DEF Tables
<1>2. QED
  BY <1>1, AppendProperties DEF Tables

LEMMA Unextended ==
  ASSUME NEW bs \in Tables
  PROVE  bs \o << >> = bs
  BY ConcatEmptySeq DEF Tables

LEMMA OneMore ==
  ASSUME NEW bs \in Tables, NEW b \in BlockRecord, NEW L \in {<< >>, <<b>>}
  PROVE  /\ bs \o L \in Tables
         /\ \A k \in 1 .. Len(bs) : (bs \o L)[k] = bs[k]
         /\ L = << >> => Len(bs \o L) = Len(bs)
         /\ L = <<b>> => Len(bs \o L) = Len(bs) + 1 /\ (bs \o L)[Len(bs) + 1] = b
<1>1. << >> # <<b>>
  OBVIOUS
<1>2. CASE L = << >>
  <2>1. bs \o L = bs
    BY <1>2, Unextended
  <2> QED BY <1>1, <1>2, <2>1
<1>3. CASE L = <<b>>
  BY <1>1, <1>3, Extended
<1>4. QED
  BY <1>2, <1>3

Optional(L, b) == L \in {<< >>, <<b>>}

\* The tables spmp_alloc writes: bs, then the hole before the allocation, if
\* there is one, then the hole after it, if there is one.
Grown(bs, split, table, L, lead, T, trail) ==
  /\ split \in Tables /\ table \in Tables
  /\ DOMAIN table = 1 .. Len(table) /\ Len(split) \in Nat /\ Len(table) \in Nat
  /\ \A k \in 1 .. Len(bs) : split[k] = bs[k] /\ table[k] = bs[k]
  /\ L = << >> => Len(split) = Len(bs)
  /\ L = <<lead>> => /\ Len(split) = Len(bs) + 1
                     /\ split[Len(bs) + 1] = lead /\ table[Len(bs) + 1] = lead
  /\ T = << >> => Len(table) = Len(split)
  /\ T = <<trail>> => Len(table) = Len(split) + 1 /\ table[Len(table)] = trail

\* A table with its optional holes appended.
LEMMA SplitShape ==
  ASSUME NEW bs \in Tables,
         NEW lead \in BlockRecord, NEW L, Optional(L, lead),
         NEW trail \in BlockRecord, NEW T, Optional(T, trail)
  PROVE  Grown(bs, bs \o L, (bs \o L) \o T, L, lead, T, trail)
<1>1. PICK split : split = bs \o L
  OBVIOUS
<1>2. PICK table : table = split \o T
  OBVIOUS
<1>3. PICK n \in Nat : n = Len(bs)
  BY TableSlots
<1>4. L \in {<< >>, <<lead>>} /\ T \in {<< >>, <<trail>>}
  BY DEF Optional
<1>5. /\ split \in Tables
      /\ \A k \in 1 .. n : split[k] = bs[k]
      /\ L = << >> => Len(split) = n
      /\ L = <<lead>> => Len(split) = n + 1 /\ split[n + 1] = lead
  <2>1. /\ bs \o L \in Tables
        /\ \A k \in 1 .. Len(bs) : (bs \o L)[k] = bs[k]
        /\ L = << >> => Len(bs \o L) = Len(bs)
        /\ L = <<lead>> => /\ Len(bs \o L) = Len(bs) + 1
                           /\ (bs \o L)[Len(bs) + 1] = lead
    BY <1>4, OneMore, Zenon
  <2> QED BY <1>1, <1>3, <2>1
<1>6. PICK s \in Nat : s = Len(split)
  BY <1>5, TableSlots
<1>7. /\ table \in Tables
      /\ \A k \in 1 .. s : table[k] = split[k]
      /\ T = << >> => Len(table) = s
      /\ T = <<trail>> => Len(table) = s + 1 /\ table[s + 1] = trail
  <2>1. /\ split \o T \in Tables
        /\ \A k \in 1 .. Len(split) : (split \o T)[k] = split[k]
        /\ T = << >> => Len(split \o T) = Len(split)
        /\ T = <<trail>> => /\ Len(split \o T) = Len(split) + 1
                            /\ (split \o T)[Len(split) + 1] = trail
    BY <1>5, <1>4, OneMore, Zenon
  <2> QED BY <1>6, <1>2, <2>1
<1>8. \A k \in 1 .. n : table[k] = bs[k]
  <2>1. n <= s
    BY <1>5, <1>6, <1>4
  <2> QED BY <1>5, <1>7, <2>1
<1>9. L = <<lead>> => table[n + 1] = lead
  <2>1. SUFFICES ASSUME L = <<lead>> PROVE table[n + 1] = lead
    OBVIOUS
  <2>2. n + 1 \in 1 .. s /\ split[n + 1] = lead
    BY <1>5, <1>6, <2>1
  <2> QED BY <1>7, <2>2
<1>10. DOMAIN table = 1 .. Len(table) /\ Len(table) \in Nat
  BY <1>7, TableSlots
<1>11. QED
  BY <1>5, <1>6, <1>7, <1>8, <1>9, <1>10, <1>1, <1>2, <1>3 DEF Grown

\* The holes before and after an allocation.
NewSlots(bs, cs) == DOMAIN cs \ DOMAIN bs
LeadAt(b, hole, start) == hole.addr = b.addr /\ hole.addr + hole.size = start
TrailAt(b, hole, alloc_end) == hole.addr = alloc_end /\ hole.addr + hole.size = b.addr + b.size

\* cs is bs after the allocation start .. alloc_end - 1 was carved out of slot i.
Carved(bs, cs, i, start, alloc_end) ==
  /\ cs \in Tables /\ DOMAIN bs \subseteq DOMAIN cs
  /\ \A k \in DOMAIN bs \ {i} : cs[k] = bs[k]
  /\ cs[i].addr = start /\ cs[i].size = alloc_end - start /\ cs[i].in_use
  /\ \A k \in NewSlots(bs, cs) :
       /\ ~cs[k].in_use /\ ~cs[k].encrypted /\ cs[k].size > 0
       /\ LeadAt(bs[i], cs[k], start) \/ TrailAt(bs[i], cs[k], alloc_end)
  /\ \A k, l \in NewSlots(bs, cs) : k # l =>
       /\ ~(LeadAt(bs[i], cs[k], start) /\ LeadAt(bs[i], cs[l], start))
       /\ ~(TrailAt(bs[i], cs[k], alloc_end) /\ TrailAt(bs[i], cs[l], alloc_end))
  /\ start > bs[i].addr => \E k \in NewSlots(bs, cs) : LeadAt(bs[i], cs[k], start)
  /\ End(bs[i]) > alloc_end => \E k \in NewSlots(bs, cs) : TrailAt(bs[i], cs[k], alloc_end)

\* The bytes start .. alloc_end - 1 lie in the free block of slot i.
CarveOK(bs, i, start, alloc_end) ==
  /\ i \in FreeSlots(bs) /\ start \in Nat /\ alloc_end \in Nat
  /\ bs[i].addr <= start /\ start < alloc_end /\ alloc_end <= bs[i].addr + bs[i].size

LEMMA InBytesOf ==
  ASSUME NEW bs, NEW S, NEW x
  PROVE  x \in BytesOf(bs, S) <=> \E k \in S : x \in Bytes(bs[k])
  BY DEF BytesOf

\* The allocation is the one new live block.
LEMMA CarvedLive ==
  ASSUME NEW bs \in Tables, NoEmptyFree(bs), NEW i, NEW start, NEW alloc_end,
         CarveOK(bs, i, start, alloc_end),
         NEW cs, Carved(bs, cs, i, start, alloc_end)
  PROVE  /\ Live(cs) = Live(bs) \cup {i} /\ i \notin Live(bs)
         /\ \A k \in Live(bs) : cs[k] = bs[k]
         /\ FreeSlots(cs) = (FreeSlots(bs) \ {i}) \cup NewSlots(bs, cs)
         /\ NoEmptyFree(cs)
<1>1. i \in DOMAIN bs /\ ~bs[i].in_use /\ DOMAIN bs \subseteq DOMAIN cs
  BY DEF CarveOK, FreeSlots, Carved
<1>2. cs[i].in_use /\ cs[i].size > 0
  BY DEF Carved, CarveOK
<1>3. \A k \in DOMAIN bs \ {i} : cs[k] = bs[k]
  BY DEF Carved
<1>4. \A k \in NewSlots(bs, cs) : ~cs[k].in_use /\ cs[k].size > 0
  BY DEF Carved
<1>5. ASSUME NEW k \in DOMAIN cs PROVE k \in Live(cs) <=> k \in Live(bs) \cup {i}
  <2>1. CASE k = i
    BY <1>1, <1>2, <2>1 DEF Live, Solid
  <2>2. CASE k \in DOMAIN bs \ {i}
    BY <1>1, <1>3, <2>2 DEF Live, Solid
  <2>3. CASE k \in NewSlots(bs, cs)
    BY <1>1, <1>4, <2>3 DEF Live, Solid, NewSlots
  <2> QED BY <1>1, <2>1, <2>2, <2>3 DEF NewSlots
<1>6. Live(cs) \subseteq DOMAIN cs /\ Live(bs) \subseteq DOMAIN bs
  BY DEF Live, Solid
<1>7. i \notin Live(bs)
  BY <1>1 DEF Live
<1>8. Live(cs) = Live(bs) \cup {i} /\ \A k \in Live(bs) : cs[k] = bs[k]
  BY <1>1, <1>3, <1>5, <1>6, <1>7
<1>9. FreeSlots(cs) = (FreeSlots(bs) \ {i}) \cup NewSlots(bs, cs)
  BY <1>1, <1>2, <1>3, <1>4 DEF FreeSlots, NewSlots
<1>10. NoEmptyFree(cs)
  <2>1. \A k \in FreeSlots(bs) : k \in DOMAIN bs /\ bs[k].size > 0
    BY DEF NoEmptyFree, FreeSlots
  <2> QED BY <1>3, <1>4, <1>9, <2>1 DEF NoEmptyFree
<1>11. QED
  BY <1>7, <1>8, <1>9, <1>10

\* Its bytes were free, and the rest of the block still is.
LEMMA CarvedBytes ==
  ASSUME NEW bs \in Tables, NoEmptyFree(bs), FreesApart(bs), NEW i, NEW start, NEW alloc_end,
         CarveOK(bs, i, start, alloc_end),
         NEW cs, Carved(bs, cs, i, start, alloc_end)
  PROVE  /\ LiveBytes(cs) = LiveBytes(bs) \cup Bytes(cs[i])
         /\ FreeBytes(cs) = FreeBytes(bs) \ Bytes(cs[i])
         /\ Bytes(cs[i]) \subseteq FreeBytes(bs)
<1> PICK b \in BlockRecord : b = bs[i]
  BY TableSlots DEF CarveOK, FreeSlots
<1>1. /\ i \in DOMAIN bs /\ i \in FreeSlots(bs) /\ b.addr \in Nat /\ b.size \in Nat
      /\ start \in Nat /\ alloc_end \in Nat
      /\ b.addr <= start /\ start < alloc_end /\ alloc_end <= b.addr + b.size
  BY BlockFields DEF CarveOK, FreeSlots
<1>2. /\ Live(cs) = Live(bs) \cup {i} /\ i \notin Live(bs)
      /\ \A k \in Live(bs) : cs[k] = bs[k]
      /\ FreeSlots(cs) = (FreeSlots(bs) \ {i}) \cup NewSlots(bs, cs)
  BY CarvedLive
<1>3. LiveBytes(cs) = LiveBytes(bs) \cup Bytes(cs[i])
  BY <1>2 DEF LiveBytes, BytesOf
<1>4. Bytes(cs[i]) = start .. alloc_end - 1
  BY <1>1 DEF Carved, Bytes, End
<1>5. Bytes(bs[i]) = b.addr .. b.addr + b.size - 1
  BY <1>1 DEF Bytes, End
<1>6. Bytes(cs[i]) \subseteq FreeBytes(bs)
  BY <1>1, <1>4, <1>5 DEF FreeBytes, BytesOf
<1>7. \A k \in FreeSlots(bs) \ {i} : cs[k] = bs[k]
  BY DEF Carved, FreeSlots
<1>8. ASSUME NEW k \in FreeSlots(bs) \ {i} PROVE Bytes(bs[k]) \cap Bytes(bs[i]) = {}
  <2>1. k \in DOMAIN bs /\ bs[k].size > 0 /\ bs[i].size > 0 /\ Disjoint(bs[k], bs[i])
    BY <1>1 DEF FreesApart, FreeSlots, NoEmptyFree
  <2> QED BY <1>1, <2>1, TableSlots, ApartDisjoint
<1>9. ASSUME NEW x PROVE x \in BytesOf(cs, NewSlots(bs, cs)) <=> x \in Bytes(bs[i]) \ Bytes(cs[i])
  <2>1. ASSUME x \in Bytes(bs[i]) \ Bytes(cs[i])
        PROVE  \E k \in NewSlots(bs, cs) : x \in Bytes(cs[k])
    <3>1. x \in Nat /\ b.addr <= x /\ x < b.addr + b.size /\ (x < start \/ alloc_end <= x)
      BY <1>1, <1>4, <1>5, <2>1
    <3>2. CASE x < start
      <4>1. PICK k \in NewSlots(bs, cs) : LeadAt(b, cs[k], start)
        BY <1>1, <3>1, <3>2 DEF Carved
      <4> QED BY <1>1, <3>1, <3>2, <4>1 DEF LeadAt, Bytes, End
    <3>3. CASE alloc_end <= x
      <4>1. PICK k \in NewSlots(bs, cs) : TrailAt(b, cs[k], alloc_end)
        BY <1>1, <3>1, <3>3 DEF Carved, End
      <4> QED BY <1>1, <3>1, <3>3, <4>1 DEF TrailAt, Bytes, End
    <3> QED BY <3>1, <3>2, <3>3
  <2>2. ASSUME NEW k \in NewSlots(bs, cs), x \in Bytes(cs[k])
        PROVE  x \in Bytes(bs[i]) \ Bytes(cs[i])
    <3>1. /\ LeadAt(b, cs[k], start) \/ TrailAt(b, cs[k], alloc_end)
          /\ cs[k].addr \in Nat /\ cs[k].size \in Nat
      BY TableSlots DEF Carved, NewSlots
    <3>2. x \in Int /\ cs[k].addr <= x /\ x < cs[k].addr + cs[k].size
      BY <2>2, <3>1 DEF Bytes, End
    <3>3. CASE LeadAt(b, cs[k], start)
      BY <1>1, <1>4, <1>5, <3>1, <3>2, <3>3 DEF LeadAt
    <3>4. CASE TrailAt(b, cs[k], alloc_end)
      BY <1>1, <1>4, <1>5, <3>1, <3>2, <3>4 DEF TrailAt
    <3> QED BY <3>1, <3>3, <3>4
  <2> QED BY <2>1, <2>2, InBytesOf
<1>10. Bytes(cs[i]) \subseteq Bytes(bs[i])
  BY <1>1, <1>4, <1>5
<1>11. FreeBytes(cs) = FreeBytes(bs) \ Bytes(cs[i])
  <2>1. ASSUME NEW x
        PROVE  x \in FreeBytes(cs) <=> \/ \E k \in FreeSlots(bs) \ {i} : x \in Bytes(bs[k])
                                      \/ x \in BytesOf(cs, NewSlots(bs, cs))
    BY <1>2, <1>7, InBytesOf DEF FreeBytes
  <2>2. ASSUME NEW x
        PROVE  x \in FreeBytes(bs) <=> \/ \E k \in FreeSlots(bs) \ {i} : x \in Bytes(bs[k])
                                      \/ x \in Bytes(bs[i])
    BY <1>1, InBytesOf DEF FreeBytes
  <2>3. ASSUME NEW x PROVE x \in FreeBytes(cs) <=> x \in FreeBytes(bs) \ Bytes(cs[i])
    BY <1>8, <1>9, <1>10, <2>1, <2>2
  <2> QED BY <2>3
<1>12. QED
  BY <1>3, <1>6, <1>11

\* The holes are apart from every free block and touch none.
LEMMA CarvedApart ==
  ASSUME NEW bs \in Tables, NoEmptyFree(bs), FreesApart(bs), NoneTouch(bs),
         NEW i, NEW start, NEW alloc_end, CarveOK(bs, i, start, alloc_end),
         NEW cs, Carved(bs, cs, i, start, alloc_end)
  PROVE  FreesApart(cs) /\ NoneTouch(cs)
<1> PICK b \in BlockRecord : b = bs[i]
  BY TableSlots DEF CarveOK, FreeSlots
<1>1. /\ i \in DOMAIN bs /\ i \in FreeSlots(bs) /\ ~b.in_use /\ b.addr \in Nat /\ b.size \in Nat
      /\ start \in Nat /\ alloc_end \in Nat /\ b.size > 0
      /\ b.addr <= start /\ start < alloc_end /\ alloc_end <= b.addr + b.size
  BY BlockFields DEF CarveOK, FreeSlots
<1>2. FreeSlots(cs) = (FreeSlots(bs) \ {i}) \cup NewSlots(bs, cs) /\ cs \in Tables
  BY CarvedLive DEF Carved
<1>3. ASSUME NEW k \in FreeSlots(bs) \ {i}
      PROVE  /\ k \in DOMAIN bs /\ k \in DOMAIN cs /\ cs[k] = bs[k]
             /\ cs[k].addr \in Nat /\ cs[k].size \in Nat /\ cs[k].size > 0
             /\ cs[k].addr + cs[k].size < b.addr \/ b.addr + b.size < cs[k].addr
  <2>1. k \in DOMAIN bs /\ k \in DOMAIN cs /\ cs[k] = bs[k] /\ bs[k].size > 0 /\ ~bs[k].in_use
    BY DEF Carved, FreeSlots, NoEmptyFree
  <2>2. bs[k].addr \in Nat /\ bs[k].size \in Nat
    BY <2>1, TableSlots
  <2>3. Disjoint(bs[k], b)
    BY <1>1 DEF FreesApart
  <2>4. ~Adjacent(bs[k], b) /\ ~Adjacent(b, bs[k])
    BY <1>1, <2>1 DEF NoneTouch
  <2> QED BY <1>1, <2>1, <2>2, <2>3, <2>4 DEF Disjoint, Adjacent, End
<1>4. ASSUME NEW k \in NewSlots(bs, cs)
      PROVE  /\ k \in DOMAIN cs /\ cs[k].addr \in Nat /\ cs[k].size \in Nat /\ cs[k].size > 0
             /\ \/ cs[k].addr = b.addr /\ cs[k].addr + cs[k].size = start
                \/ cs[k].addr = alloc_end /\ cs[k].addr + cs[k].size = b.addr + b.size
  <2>1. /\ cs[k].size > 0 /\ k \in DOMAIN cs
        /\ LeadAt(b, cs[k], start) \/ TrailAt(b, cs[k], alloc_end)
    BY DEF Carved, NewSlots
  <2> QED BY <1>2, <2>1, TableSlots DEF LeadAt, TrailAt
<1>5. ASSUME NEW k \in NewSlots(bs, cs), NEW l \in NewSlots(bs, cs), k # l
      PROVE  /\ cs[k].addr = b.addr /\ cs[k].addr + cs[k].size = start =>
                  cs[l].addr = alloc_end /\ cs[l].addr + cs[l].size = b.addr + b.size
             /\ cs[k].addr = alloc_end /\ cs[k].addr + cs[k].size = b.addr + b.size =>
                  cs[l].addr = b.addr /\ cs[l].addr + cs[l].size = start
  BY <1>4, <1>5 DEF Carved, LeadAt, TrailAt
<1>6. ASSUME NEW k \in FreeSlots(cs), NEW l \in FreeSlots(cs), k # l
      PROVE  /\ cs[k].addr + cs[k].size <= cs[l].addr \/ cs[l].addr + cs[l].size <= cs[k].addr
             /\ cs[k].addr + cs[k].size # cs[l].addr
  <2>1. CASE k \in FreeSlots(bs) \ {i} /\ l \in FreeSlots(bs) \ {i}
    <3>1. Disjoint(bs[k], bs[l]) /\ ~Adjacent(bs[k], bs[l])
      BY <1>6, <2>1 DEF FreesApart, NoneTouch, FreeSlots
    <3>2. ~bs[k].in_use /\ ~bs[l].in_use
      BY <2>1 DEF FreeSlots
    <3> QED BY <1>3, <2>1, <3>1, <3>2 DEF Disjoint, Adjacent, End
  <2>2. CASE k \in FreeSlots(bs) \ {i} /\ l \in NewSlots(bs, cs)
    <3>1. cs[k].addr + cs[k].size < b.addr \/ b.addr + b.size < cs[k].addr
      BY <1>3, <2>2
    <3>2. b.addr <= cs[l].addr /\ cs[l].addr + cs[l].size <= b.addr + b.size
      BY <1>1, <1>4, <2>2
    <3> QED BY <1>1, <1>3, <1>4, <2>2, <3>1, <3>2
  <2>3. CASE k \in NewSlots(bs, cs) /\ l \in FreeSlots(bs) \ {i}
    <3>1. cs[l].addr + cs[l].size < b.addr \/ b.addr + b.size < cs[l].addr
      BY <1>3, <2>3
    <3>2. b.addr <= cs[k].addr /\ cs[k].addr + cs[k].size <= b.addr + b.size
      BY <1>1, <1>4, <2>3
    <3> QED BY <1>1, <1>3, <1>4, <2>3, <3>1, <3>2
  <2>4. CASE k \in NewSlots(bs, cs) /\ l \in NewSlots(bs, cs)
    BY <1>1, <1>4, <1>5, <1>6, <2>4
  <2> QED BY <1>2, <2>1, <2>2, <2>3, <2>4
<1>7. FreesApart(cs)
  BY <1>6 DEF FreesApart, Disjoint, End
<1>8. NoneTouch(cs)
  <2>1. ASSUME NEW k \in DOMAIN cs, NEW l \in DOMAIN cs, Adjacent(cs[k], cs[l]) PROVE FALSE
    <3>1. k \in FreeSlots(cs) /\ l \in FreeSlots(cs) /\ cs[k].addr + cs[k].size = cs[l].addr
      BY <2>1 DEF Adjacent, FreeSlots, End
    <3>2. cs[k].size > 0 /\ cs[k].addr \in Nat /\ cs[k].size \in Nat
      BY <1>2, <1>3, <1>4, <3>1
    <3> QED BY <1>6, <3>1, <3>2
  <2> QED BY <2>1 DEF NoneTouch
<1>9. QED
  BY <1>7, <1>8

LEMMA MaxOfTwo ==
  ASSUME NEW m \in Nat, NEW n \in Nat
  PROVE  Max({m, n}) \in {m, n} /\ m <= Max({m, n}) /\ n <= Max({m, n})
<1>1. \E x \in {m, n} : \A y \in {m, n} : x >= y
  OBVIOUS
<1>2. QED
  BY <1>1 DEF Max

LEMMA NeededPositive ==
  ASSUME NEW size \in Nat
  PROVE  Needed(size) \in Nat \ {0}
<1>1. BlockAlign \in Nat \ {0} /\ MinBlock \in Nat \ {0}
  BY SpmpConstants
<1>2. PICK r \in Nat : r = RoundUp(size, BlockAlign)
  BY <1>1, RoundUpFacts
<1>3. QED
  BY <1>1, <1>2, MaxOfTwo DEF Needed

\* The aligned start is the least aligned address in the block.
LEMMA StartAligned ==
  ASSUME NEW b \in BlockRecord, NEW alignment \in Nat
  PROVE  /\ AlignedStart(b, alignment) \in Nat /\ b.addr <= AlignedStart(b, alignment)
         /\ \A m \in Nat : m % Max({alignment, BlockAlign}) = 0 /\ b.addr <= m
                             => AlignedStart(b, alignment) <= m
<1>1. BlockAlign \in Nat \ {0} /\ b.addr \in Nat
  BY SpmpConstants, BlockFields
<1>2. PICK a \in Nat \ {0} : a = Max({alignment, BlockAlign})
  BY <1>1, MaxOfTwo
<1>3. QED
  BY <1>1, <1>2, RoundUpFacts DEF AlignedStart

\* What spmp_alloc writes: the holes on either side of the block, then the block.
Written(bs, i, start, alloc_end, split, table, cs) ==
  /\ split = bs \o LeadingHole(bs[i], start)
  /\ table = split \o TrailingHole(bs[i], alloc_end)
  /\ cs = [table EXCEPT ![i] = Block(start, alloc_end - start, TRUE, bs[i].encrypted)]

\* What spmp_alloc writes carves the allocation out of slot i.
LEMMA TableWritten ==
  ASSUME NEW bs \in Tables, NEW i, NEW start, NEW alloc_end, CarveOK(bs, i, start, alloc_end),
         NEW split, NEW table, NEW cs, Written(bs, i, start, alloc_end, split, table, cs)
  PROVE  /\ table \in Tables /\ Len(cs) = Len(table)
         /\ Carved(bs, cs, i, start, alloc_end)
<1> PICK b \in BlockRecord : b = bs[i]
  BY TableSlots DEF CarveOK, FreeSlots
<1>1. /\ i \in DOMAIN bs /\ start \in Nat /\ alloc_end \in Nat /\ start < alloc_end
      /\ b.encrypted \in BOOLEAN
  BY BlockFields DEF CarveOK, FreeSlots
<1>2. PICK lo \in Nat, hi \in Nat : /\ lo = b.addr /\ hi = b.addr + b.size
                                   /\ lo <= start /\ alloc_end <= hi
  BY BlockFields DEF CarveOK
<1>3. PICK n \in Nat : n = Len(bs) /\ DOMAIN bs = 1 .. n
  BY TableSlots
<1>4. PICK lead \in BlockRecord, trail \in BlockRecord :
        lead = Hole(lo, start - lo) /\ trail = Hole(alloc_end, hi - alloc_end)
  <2>1. start - lo \in Nat /\ hi - alloc_end \in Nat
    BY <1>1, <1>2
  <2> QED BY <1>1, <2>1, BlockType DEF Hole
<1>5. PICK L \in {<< >>, <<lead>>} :
         L = LeadingHole(b, start) /\ (L = << >> => start = lo) /\ (L = <<lead>> => start > lo)
  <2>1. << >> # <<lead>>
    OBVIOUS
  <2> QED BY <1>1, <1>2, <1>4, <2>1 DEF LeadingHole
<1>6. PICK T \in {<< >>, <<trail>>} :
         /\ T = TrailingHole(b, alloc_end)
         /\ T = << >> => alloc_end = hi
         /\ T = <<trail>> => alloc_end < hi
  <2>1. << >> # <<trail>>
    OBVIOUS
  <2> QED BY <1>1, <1>2, <1>4, <2>1 DEF TrailingHole, End
<1>7. split = bs \o L
  BY <1>5 DEF Written
<1>8. table = split \o T
  BY <1>6 DEF Written
<1>9. /\ split \in Tables /\ table \in Tables
      /\ DOMAIN table = 1 .. Len(table) /\ Len(split) \in Nat /\ Len(table) \in Nat
      /\ \A k \in 1 .. n : split[k] = bs[k] /\ table[k] = bs[k]
      /\ L = << >> => Len(split) = n
      /\ L = <<lead>> => Len(split) = n + 1 /\ table[n + 1] = lead
      /\ T = << >> => Len(table) = Len(split)
      /\ T = <<trail>> => Len(table) = Len(split) + 1 /\ table[Len(table)] = trail
  <2>1. Grown(bs, bs \o L, (bs \o L) \o T, L, lead, T, trail)
    BY <1>4, <1>5, <1>6, SplitShape DEF Optional
  <2>2. Grown(bs, split, table, L, lead, T, trail)
    BY <1>7, <1>8, <2>1
  <2> QED BY <1>3, <2>2 DEF Grown
<1>10. PICK s \in Nat, m \in Nat : s = Len(split) /\ m = Len(table) /\ DOMAIN table = 1 .. m
  BY <1>9
<1>11. /\ (start = lo /\ s = n) \/ (start > lo /\ s = n + 1 /\ table[n + 1] = lead)
       /\ (alloc_end = hi /\ m = s) \/ (alloc_end < hi /\ m = s + 1 /\ table[m] = trail)
  BY <1>9, <1>5, <1>6, <1>10
<1>12. DOMAIN table = 1 .. m /\ i \in 1 .. n /\ n <= m /\ m <= n + 2
  BY <1>1, <1>3, <1>11, <1>10
<1>13. PICK a \in BlockRecord : a = Block(start, alloc_end - start, TRUE, b.encrypted)
  <2>1. alloc_end - start \in Nat
    BY <1>1
  <2> QED BY <1>1, <2>1, BlockType
<1>14. a.addr = start /\ a.size = alloc_end - start /\ a.in_use
  BY <1>13 DEF Block
<1>15. cs = [table EXCEPT ![i] = a]
  BY <1>13 DEF Written
<1>16. i \in DOMAIN table
  BY <1>12
<1>17. /\ cs \in Tables /\ DOMAIN cs = 1 .. m /\ cs[i] = a /\ Len(cs) = Len(table)
       /\ \A k \in (1 .. m) \ {i} : cs[k] = table[k]
  BY <1>9, <1>12, <1>15, <1>16, ReplacedSlot
<1>18. DOMAIN bs \subseteq DOMAIN cs /\ \A k \in DOMAIN bs \ {i} : cs[k] = bs[k]
  <2>1. \A k \in 1 .. n : table[k] = bs[k]
    BY <1>9
  <2> QED BY <1>3, <1>12, <1>17, <2>1
<1>19. NewSlots(bs, cs) = n + 1 .. m
  BY <1>3, <1>12, <1>17 DEF NewSlots
<1>20. ASSUME start > lo
       PROVE  /\ n + 1 \in NewSlots(bs, cs) /\ LeadAt(b, cs[n + 1], start)
              /\ ~cs[n + 1].in_use /\ ~cs[n + 1].encrypted /\ cs[n + 1].size > 0
  <2>1. n + 1 \in NewSlots(bs, cs) /\ n + 1 \in (1 .. m) \ {i}
    BY <1>1, <1>12, <1>19, <1>20, <1>11
  <2>2. cs[n + 1] = lead
    <3>1. table[n + 1] = lead
      BY <1>1, <1>20, <1>11
    <3> QED BY <1>17, <2>1, <3>1
  <2>3. /\ cs[n + 1].addr = lo /\ cs[n + 1].size = start - lo
        /\ ~cs[n + 1].in_use /\ ~cs[n + 1].encrypted
    BY <1>4, <2>2 DEF Hole, Block
  <2> QED BY <1>1, <1>2, <1>20, <2>1, <2>3 DEF LeadAt
<1>21. ASSUME alloc_end < hi
       PROVE  /\ m \in NewSlots(bs, cs) /\ TrailAt(b, cs[m], alloc_end)
              /\ ~cs[m].in_use /\ ~cs[m].encrypted /\ cs[m].size > 0
  <2>1. m \in NewSlots(bs, cs) /\ m \in (1 .. m) \ {i}
    BY <1>1, <1>12, <1>19, <1>21, <1>11
  <2>2. cs[m] = trail
    <3>1. table[m] = trail
      BY <1>1, <1>21, <1>11
    <3> QED BY <1>17, <2>1, <3>1
  <2>3. /\ cs[m].addr = alloc_end /\ cs[m].size = hi - alloc_end
        /\ ~cs[m].in_use /\ ~cs[m].encrypted
    BY <1>4, <2>2 DEF Hole, Block
  <2> QED BY <1>1, <1>2, <1>21, <2>1, <2>3 DEF TrailAt
<1>22. ASSUME NEW k \in NewSlots(bs, cs)
       PROVE  (k = n + 1 /\ start > lo) \/ (k = m /\ alloc_end < hi)
  BY <1>1, <1>19, <1>11
<1>23. ASSUME NEW k \in NewSlots(bs, cs), NEW l \in NewSlots(bs, cs), k # l
       PROVE  /\ (k = n + 1 /\ l = m) \/ (k = m /\ l = n + 1)
              /\ start > lo /\ alloc_end < hi
  BY <1>1, <1>19, <1>23, <1>11
<1>24. ASSUME NEW k, LeadAt(b, cs[k], start), TrailAt(b, cs[k], alloc_end) PROVE FALSE
  <2>1. lo = alloc_end
    BY <1>2, <1>24 DEF LeadAt, TrailAt
  <2> QED BY <1>1, <1>2, <2>1
<1>25. Carved(bs, cs, i, start, alloc_end)
  <2>1. \A k, l \in NewSlots(bs, cs) : k # l =>
          /\ ~(LeadAt(b, cs[k], start) /\ LeadAt(b, cs[l], start))
          /\ ~(TrailAt(b, cs[k], alloc_end) /\ TrailAt(b, cs[l], alloc_end))
    BY <1>20, <1>21, <1>23, <1>24
  <2>2. \A k \in NewSlots(bs, cs) :
          /\ ~cs[k].in_use /\ ~cs[k].encrypted /\ cs[k].size > 0
          /\ LeadAt(b, cs[k], start) \/ TrailAt(b, cs[k], alloc_end)
    BY <1>20, <1>21, <1>22
  <2>3. /\ start > b.addr => \E k \in NewSlots(bs, cs) : LeadAt(b, cs[k], start)
        /\ End(b) > alloc_end => \E k \in NewSlots(bs, cs) : TrailAt(b, cs[k], alloc_end)
    BY <1>1, <1>2, <1>20, <1>21 DEF End
  <2> QED BY <1>14, <1>17, <1>18, <2>1, <2>2, <2>3 DEF Carved
<1>26. QED
  BY <1>9, <1>17, <1>25

\* spmp_alloc succeeds.
LEMMA CarvedInv ==
  ASSUME NEW bs, NEW base \in Nat, NEW size \in Nat, NEW encrypt \in BOOLEAN,
         TableInv(bs, base, size, encrypt), Growable(bs),
         NEW i, NEW start, NEW alloc_end, CarveOK(bs, i, start, alloc_end),
         NEW cs, Carved(bs, cs, i, start, alloc_end), Len(cs) <= MaxBlocks
  PROVE  /\ TableInv(cs, base, size, encrypt)
         /\ Live(cs) = Live(bs) \cup {i} /\ i \notin Live(bs)
         /\ \A k \in Live(bs) : cs[k] = bs[k]
         /\ LiveBytes(cs) = LiveBytes(bs) \cup Bytes(cs[i])
         /\ Bytes(cs[i]) \cap LiveBytes(bs) = {}
<1>1. /\ bs \in Tables /\ NoEmptyFree(bs) /\ FreesApart(bs) /\ NoneTouch(bs)
      /\ LiveBytes(bs) \cap FreeBytes(bs) = {}
      /\ Range0(base, size) = LiveBytes(bs) \cup FreeBytes(bs)
  BY DEF TableInv
<1>2. /\ Live(cs) = Live(bs) \cup {i} /\ i \notin Live(bs)
      /\ \A k \in Live(bs) : cs[k] = bs[k]
      /\ FreeSlots(cs) = (FreeSlots(bs) \ {i}) \cup NewSlots(bs, cs)
      /\ NoEmptyFree(cs) /\ cs \in Tables
  BY <1>1, CarvedLive DEF Carved
<1>3. /\ LiveBytes(cs) = LiveBytes(bs) \cup Bytes(cs[i])
      /\ FreeBytes(cs) = FreeBytes(bs) \ Bytes(cs[i])
      /\ Bytes(cs[i]) \subseteq FreeBytes(bs)
  BY <1>1, CarvedBytes
<1>4. FreesApart(cs) /\ NoneTouch(cs)
  BY <1>1, CarvedApart
<1>5. Bytes(cs[i]) \cap LiveBytes(bs) = {}
  BY <1>1, <1>3
<1>6. ASSUME NEW k \in Live(bs) PROVE Disjoint(cs[k], cs[i]) /\ Disjoint(cs[i], cs[k])
  <2>1. /\ k \in DOMAIN cs /\ i \in DOMAIN cs
        /\ cs[k].size > 0 /\ cs[i].size > 0
    BY <1>2 DEF Live, Solid
  <2>2. cs[k] = bs[k] /\ Bytes(bs[k]) \subseteq LiveBytes(bs)
    BY <1>2, InBytesOf DEF LiveBytes
  <2>3. Bytes(cs[k]) \cap Bytes(cs[i]) = {}
    BY <1>5, <2>2
  <2> QED BY <1>2, <2>1, <2>3, TableSlots, ApartDisjoint
<1>7. \A k, l \in Live(cs) : k # l => Disjoint(cs[k], cs[l])
  <2>1. \A k, l \in Live(bs) : k # l => Disjoint(cs[k], cs[l])
    BY <1>2 DEF TableInv
  <2> QED BY <1>2, <1>6, <2>1
<1>8. ASSUME NEW k \in FreeSlots(cs), cs[k].encrypted PROVE FALSE
  <2>1. k \in FreeSlots(bs) /\ k # i /\ bs[k].encrypted
    BY <1>2, <1>8 DEF Carved, FreeSlots
  <2>2. Len(bs) = 1
    BY <2>1 DEF TableInv
  <2>3. k = 1 /\ i = 1
    BY <1>1, <2>1, <2>2, TableSlots DEF FreeSlots, CarveOK
  <2> QED BY <2>1, <2>3
<1>9. TableInv(cs, base, size, encrypt)
  <2>1. LiveBytes(cs) \cap FreeBytes(cs) = {}
    BY <1>1, <1>3
  <2>2. LiveBytes(cs) \cup FreeBytes(cs) = Range0(base, size)
    BY <1>1, <1>3
  <2> QED BY <1>2, <1>4, <1>7, <1>8, <2>1, <2>2 DEF TableInv
<1>10. QED
  BY <1>2, <1>3, <1>5, <1>9

\* spmp_alloc fails between the two holes: the table is full from then on.
FullBetweenHoles(bs, i, start, alloc_end, split) ==
  /\ Growable(bs) /\ CarveOK(bs, i, start, alloc_end)
  /\ split = bs \o LeadingHole(bs[i], start)
  /\ Len(split \o TrailingHole(bs[i], alloc_end)) > MaxBlocks

\* The failed call breaks nothing that the invariant says of a full table.
LEMMA SplitInv ==
  ASSUME NEW bs, NEW base \in Nat, NEW size \in Nat, NEW encrypt \in BOOLEAN,
         TableInv(bs, base, size, encrypt),
         NEW i, NEW start, NEW alloc_end, NEW split,
         FullBetweenHoles(bs, i, start, alloc_end, split)
  PROVE  /\ TableInv(split, base, size, encrypt)
         /\ Live(split) = Live(bs) /\ \A k \in Live(bs) : split[k] = bs[k]
         /\ LiveBytes(split) = LiveBytes(bs)
<1> PICK b \in BlockRecord : b = bs[i]
  BY TableSlots DEF FullBetweenHoles, CarveOK, FreeSlots, TableInv
<1>1. /\ i \in DOMAIN bs /\ i \in FreeSlots(bs) /\ ~b.in_use
      /\ start \in Nat /\ alloc_end \in Nat /\ start < alloc_end /\ bs \in Tables
  BY DEF FullBetweenHoles, CarveOK, FreeSlots, TableInv
<1>2. PICK lo \in Nat, hi \in Nat : /\ lo = b.addr /\ hi = b.addr + b.size
                                   /\ lo <= start /\ alloc_end <= hi
  BY <1>1, BlockFields DEF FullBetweenHoles, CarveOK
<1>3. PICK n \in Nat : n = Len(bs) /\ DOMAIN bs = 1 .. n /\ n < MaxBlocks /\ MaxBlocks \in Nat
                       /\ MaxBlocks > 2
  BY <1>1, TableSlots, SpmpConstants DEF FullBetweenHoles, Growable
<1>4. PICK lead \in BlockRecord, trail \in BlockRecord :
        lead = Hole(lo, start - lo) /\ trail = Hole(alloc_end, hi - alloc_end)
  <2>1. start - lo \in Nat /\ hi - alloc_end \in Nat
    BY <1>1, <1>2
  <2> QED BY <1>1, <2>1, BlockType DEF Hole
<1>5. PICK L \in {<< >>, <<lead>>} :
         L = LeadingHole(b, start) /\ (L = << >> => start = lo) /\ (L = <<lead>> => start > lo)
  <2>1. << >> # <<lead>>
    OBVIOUS
  <2> QED BY <1>1, <1>2, <1>4, <2>1 DEF LeadingHole
<1>6. PICK T \in {<< >>, <<trail>>} : T = TrailingHole(b, alloc_end)
  BY <1>1, <1>2, <1>4 DEF TrailingHole, End
<1>7. /\ split \in Tables /\ Len(split) \in Nat
      /\ \A k \in 1 .. n : split[k] = bs[k]
      /\ L = << >> => Len(split) = n
      /\ L = <<lead>> => Len(split) = n + 1 /\ split[n + 1] = lead
      /\ T = << >> => Len(split \o T) = Len(split)
      /\ T = <<trail>> => Len(split \o T) = Len(split) + 1
  <2>1. Grown(bs, bs \o L, (bs \o L) \o T, L, lead, T, trail)
    BY <1>1, <1>4, <1>5, <1>6, SplitShape DEF Optional
  <2>2. Grown(bs, split, split \o T, L, lead, T, trail)
    BY <1>5, <2>1 DEF FullBetweenHoles
  <2> QED BY <1>3, <2>2 DEF Grown
<1>8. L = <<lead>> /\ Len(split) = n + 1 /\ n + 1 = MaxBlocks /\ split[n + 1] = lead /\ start > lo
  <2>1. Len(split \o T) > MaxBlocks
    BY <1>6 DEF FullBetweenHoles
  <2> QED BY <1>3, <1>5, <1>6, <1>7, <2>1
<1>9. DOMAIN split = 1 .. n + 1 /\ \A k \in DOMAIN bs : split[k] = bs[k]
  BY <1>3, <1>7, <1>8, TableSlots
<1>10. /\ lead.addr = lo /\ lead.size = start - lo /\ ~lead.in_use /\ ~lead.encrypted
  BY <1>4 DEF Hole, Block
<1>11. FreeSlots(split) = FreeSlots(bs) \cup {n + 1}
  BY <1>3, <1>8, <1>9, <1>10 DEF FreeSlots
<1>12. Live(split) = Live(bs) /\ \A k \in Live(bs) : split[k] = bs[k]
  <2>1. n + 1 \notin Live(split)
    BY <1>8, <1>10 DEF Live
  <2> QED BY <1>3, <1>9, <2>1 DEF Live, Solid
<1>13. FreeBytes(split) = FreeBytes(bs)
  <2>1. Bytes(split[n + 1]) \subseteq Bytes(bs[i])
    BY <1>1, <1>2, <1>8, <1>10 DEF Bytes, End
  <2>2. \A k \in FreeSlots(bs) : split[k] = bs[k]
    BY <1>9 DEF FreeSlots
  <2>3. ASSUME NEW x \in FreeBytes(split) PROVE x \in FreeBytes(bs)
    <3>1. PICK k \in FreeSlots(split) : x \in Bytes(split[k])
      BY InBytesOf DEF FreeBytes
    <3>2. CASE k = n + 1
      BY <1>1, <2>1, <3>1, <3>2, InBytesOf DEF FreeBytes
    <3>3. CASE k \in FreeSlots(bs)
      BY <2>2, <3>1, <3>3, InBytesOf DEF FreeBytes
    <3> QED BY <1>11, <3>2, <3>3
  <2>4. ASSUME NEW x \in FreeBytes(bs) PROVE x \in FreeBytes(split)
    <3>1. PICK k \in FreeSlots(bs) : x \in Bytes(bs[k])
      BY InBytesOf DEF FreeBytes
    <3> QED BY <1>11, <2>2, <3>1, InBytesOf DEF FreeBytes
  <2> QED BY <2>3, <2>4
<1>14. LiveBytes(split) = LiveBytes(bs)
  BY <1>12 DEF LiveBytes, BytesOf
<1>15. NoEmptyFree(split)
  <2>1. lead.size > 0
    BY <1>1, <1>2, <1>8, <1>10
  <2>2. \A k \in FreeSlots(bs) : split[k] = bs[k] /\ bs[k].size > 0
    BY <1>9 DEF FreeSlots, TableInv, NoEmptyFree
  <2> QED BY <1>8, <1>11, <2>1, <2>2 DEF NoEmptyFree
<1>16. ASSUME NEW k \in FreeSlots(split), split[k].encrypted PROVE FALSE
  <2>1. k \in FreeSlots(bs) /\ split[k] = bs[k]
    BY <1>8, <1>9, <1>10, <1>11, <1>16 DEF FreeSlots
  <2>2. Len(bs) = 1
    BY <1>16, <2>1 DEF TableInv
  <2> QED BY <1>3, <1>8, <2>2
<1>17. ~Growable(split) /\ Len(split) <= MaxBlocks
  BY <1>3, <1>8 DEF Growable
<1>18. \A k, l \in Live(split) : k # l => Disjoint(split[k], split[l])
  BY <1>12 DEF TableInv
<1>19. TableInv(split, base, size, encrypt)
  BY <1>7, <1>13, <1>14, <1>15, <1>16, <1>17, <1>18 DEF TableInv
<1>20. QED
  BY <1>12, <1>14, <1>19

\* spmp_encrypt, spmp_decrypt: only the flag of a live block changes.
LEMMA FlaggedInv ==
  ASSUME NEW bs, NEW base \in Nat, NEW size \in Nat, NEW encrypt \in BOOLEAN,
         TableInv(bs, base, size, encrypt), NEW i \in Live(bs), NEW on \in BOOLEAN,
         NEW cs, cs = [bs EXCEPT ![i].encrypted = on]
  PROVE  /\ TableInv(cs, base, size, encrypt)
         /\ Live(cs) = Live(bs) /\ LiveBytes(cs) = LiveBytes(bs)
         /\ \A k \in Live(bs) : cs[k].addr = bs[k].addr /\ cs[k].size = bs[k].size
<1>1. bs \in Tables /\ i \in DOMAIN bs /\ bs[i].in_use /\ bs[i].size > 0
  BY DEF TableInv, Live, Solid
<1>2. PICK b \in BlockRecord : b = [bs[i] EXCEPT !.encrypted = on]
  BY <1>1, TableSlots DEF BlockRecord
<1>3. b.addr = bs[i].addr /\ b.size = bs[i].size /\ b.in_use
  <2>1. bs[i] \in BlockRecord
    BY <1>1, TableSlots
  <2> QED BY <1>1, <1>2, <2>1 DEF BlockRecord
<1>4. cs = [bs EXCEPT ![i] = b]
  BY <1>2
<1>5. /\ cs \in Tables /\ Len(cs) = Len(bs) /\ DOMAIN cs = DOMAIN bs
      /\ cs[i] = b /\ \A k \in DOMAIN bs \ {i} : cs[k] = bs[k]
  <2>1. i \in DOMAIN bs /\ b \in BlockRecord
    BY <1>1, <1>2
  <2>2. /\ [bs EXCEPT ![i] = b] \in Tables
        /\ Len([bs EXCEPT ![i] = b]) = Len(bs) /\ DOMAIN [bs EXCEPT ![i] = b] = DOMAIN bs
        /\ [bs EXCEPT ![i] = b][i] = b
        /\ \A k \in DOMAIN bs \ {i} : [bs EXCEPT ![i] = b][k] = bs[k]
    BY <1>1, <2>1, ReplacedSlot
  <2> QED BY <1>4, <2>2
<1>6. \A k \in DOMAIN bs : /\ cs[k].addr = bs[k].addr /\ cs[k].size = bs[k].size
                           /\ Bytes(cs[k]) = Bytes(bs[k])
  BY <1>3, <1>5 DEF Bytes, End
<1>7. /\ FreeSlots(cs) = FreeSlots(bs) /\ \A k \in FreeSlots(bs) : cs[k] = bs[k]
  BY <1>1, <1>3, <1>5 DEF FreeSlots
<1>8. Live(cs) = Live(bs)
  <2>1. \A k \in DOMAIN bs : k \in Live(cs) <=> k \in Live(bs)
    BY <1>1, <1>3, <1>5 DEF Live, Solid
  <2> QED BY <1>5, <2>1 DEF Live, Solid
<1>9. LiveBytes(cs) = LiveBytes(bs) /\ FreeBytes(cs) = FreeBytes(bs)
  <2>1. Live(bs) \subseteq DOMAIN bs
    BY DEF Live, Solid
  <2>2. LiveBytes(cs) = LiveBytes(bs)
    <3>1. \A k \in Live(bs) : Bytes(cs[k]) = Bytes(bs[k])
      BY <1>6, <2>1
    <3> QED BY <1>8, <3>1 DEF LiveBytes, BytesOf
  <2>3. FreeBytes(cs) = FreeBytes(bs)
    BY <1>7 DEF FreeBytes, BytesOf
  <2> QED BY <2>2, <2>3
<1>10. \A k, l \in Live(cs) : k # l => Disjoint(cs[k], cs[l])
  <2>1. \A k \in Live(bs) : k \in DOMAIN bs
    BY DEF Live, Solid
  <2>2. \A k, l \in Live(bs) : k # l => Disjoint(bs[k], bs[l])
    BY DEF TableInv
  <2> QED BY <1>6, <1>8, <2>1, <2>2 DEF Disjoint, End
<1>11. Growable(bs) => FreesApart(cs) /\ NoneTouch(cs)
  <2>1. FreesApart(bs) => FreesApart(cs)
    BY <1>7 DEF FreesApart
  <2>2. \A k \in DOMAIN bs : cs[k].in_use = bs[k].in_use \/ (cs[k].in_use /\ bs[k].in_use)
    BY <1>1, <1>3, <1>5
  <2>3. NoneTouch(bs) => NoneTouch(cs)
    BY <1>1, <1>3, <1>5 DEF NoneTouch, Adjacent, End
  <2> QED BY <2>1, <2>3 DEF TableInv
<1>12. NoEmptyFree(cs)
  BY <1>7 DEF NoEmptyFree, TableInv
<1>13. TableInv(cs, base, size, encrypt)
  BY <1>5, <1>7, <1>9, <1>10, <1>11, <1>12 DEF TableInv, Growable
<1>14. QED
  BY <1>5, <1>6, <1>8, <1>9, <1>13 DEF Live, Solid

\* spmp_free looks its block up by address and size.
LEMMA SlotFound ==
  ASSUME NEW blocks \in Tables, NEW h
  PROVE  LET i == SlotOf(h, blocks)
             matches(k) == blocks[k].in_use /\ blocks[k].addr = h.addr /\ blocks[k].size = h.size
         IN /\ i = 0 <=> \A k \in DOMAIN blocks : ~matches(k)
            /\ i # 0 => i \in DOMAIN blocks /\ matches(i)
<1> DEFINE matches(k) == blocks[k].in_use /\ blocks[k].addr = h.addr /\ blocks[k].size = h.size
           I == {k \in 1 .. Len(blocks) : matches(k)}
<1>1. SlotOf(h, blocks) = IF I # {} THEN Min(I) ELSE 0
  BY DEF SlotOf, SelectInSeq
<1>2. I \in SUBSET Nat /\ 0 \notin I
  OBVIOUS
<1>3. I # {} => Min(I) \in I
  <2> HIDE DEF I
  <2> QED BY <1>2, MinIsLeast
<1>4. DOMAIN blocks = 1 .. Len(blocks)
  BY TableSlots
<1>5. QED
  BY <1>1, <1>2, <1>3, <1>4

-----------------------------------------------------------------------------
(* What the invariant says of a table.                                      *)

\* A live block lies in the pool, apart from every other block.
LEMMA LiveApart ==
  ASSUME NEW bs, NEW base \in Nat, NEW size \in Nat, NEW encrypt,
         TableInv(bs, base, size, encrypt), NEW i \in Live(bs)
  PROVE  /\ base <= bs[i].addr /\ End(bs[i]) <= base + size
         /\ \A j \in Solid(bs) \ {i} : Disjoint(bs[i], bs[j])
<1>1. bs \in Tables /\ NoEmptyFree(bs) /\ LiveBytes(bs) \subseteq Range0(base, size)
  BY DEF TableInv
<1>2. i \in DOMAIN bs /\ bs[i].addr \in Nat /\ bs[i].size \in Nat /\ bs[i].size > 0
  BY <1>1, TableSlots DEF Live, Solid
<1>3. Bytes(bs[i]) \subseteq Range0(base, size)
  BY <1>1, InBytesOf DEF LiveBytes
<1>4. bs[i].addr \in Bytes(bs[i]) /\ End(bs[i]) - 1 \in Bytes(bs[i])
  BY <1>2 DEF Bytes, End
<1>5. base <= bs[i].addr /\ End(bs[i]) <= base + size
  <2>1. bs[i].addr \in Range0(base, size) /\ End(bs[i]) - 1 \in Range0(base, size)
    BY <1>3, <1>4
  <2> QED BY <1>2, <2>1 DEF Range0, End
<1>6. ASSUME NEW j \in Solid(bs) \ {i} PROVE Disjoint(bs[i], bs[j])
  <2>1. j \in Live(bs) \/ j \in FreeSlots(bs)
    BY <1>1, SlotKinds
  <2>2. CASE j \in Live(bs)
    BY <2>2 DEF TableInv
  <2>3. CASE j \in FreeSlots(bs)
    <3>1. /\ j \in DOMAIN bs /\ bs[j].addr \in Nat /\ bs[j].size \in Nat /\ bs[j].size > 0
      BY <1>1, <2>3, TableSlots DEF FreeSlots, NoEmptyFree
    <3>2. Bytes(bs[i]) \subseteq LiveBytes(bs) /\ Bytes(bs[j]) \subseteq FreeBytes(bs)
      BY <2>3, InBytesOf DEF LiveBytes, FreeBytes
    <3>3. Bytes(bs[i]) \cap Bytes(bs[j]) = {}
      BY <3>2 DEF TableInv
    <3> QED BY <1>2, <3>1, <3>3, ApartDisjoint
  <2> QED BY <2>1, <2>2, <2>3
<1>7. QED
  BY <1>5, <1>6

\* The blocks of a table that can grow tile the pool.
LEMMA SolidTiles ==
  ASSUME NEW bs, NEW base \in Nat, NEW size \in Nat, NEW encrypt,
         TableInv(bs, base, size, encrypt), Growable(bs)
  PROVE  /\ BytesOf(bs, Solid(bs)) = Range0(base, size)
         /\ \A i, j \in Solid(bs) : i # j => Disjoint(bs[i], bs[j])
<1>1. bs \in Tables /\ NoEmptyFree(bs) /\ FreesApart(bs)
  BY DEF TableInv
<1>2. BytesOf(bs, Solid(bs)) = Range0(base, size)
  <2>1. BytesOf(bs, Solid(bs)) = LiveBytes(bs) \cup FreeBytes(bs)
    BY <1>1, SlotKinds
  <2> QED BY <2>1 DEF TableInv
<1>3. ASSUME NEW i \in Solid(bs), NEW j \in Solid(bs), i # j PROVE Disjoint(bs[i], bs[j])
  <2>1. Solid(bs) = Live(bs) \cup FreeSlots(bs)
    BY <1>1, SlotKinds
  <2>2. CASE i \in Live(bs)
    BY <1>3, <2>2, LiveApart
  <2>3. CASE j \in Live(bs)
    <3>1. Disjoint(bs[j], bs[i])
      BY <1>3, <2>3, LiveApart
    <3> QED BY <3>1 DEF Disjoint
  <2>4. CASE i \in FreeSlots(bs) /\ j \in FreeSlots(bs)
    BY <1>1, <1>3, <2>4 DEF FreesApart
  <2> QED BY <2>1, <2>2, <2>3, <2>4
<1>4. QED
  BY <1>2, <1>3

\* A run of free bytes lies in one free block: free blocks are apart and do not touch.
LEMMA FreeRun ==
  ASSUME NEW bs, NEW base \in Nat, NEW size \in Nat, NEW encrypt,
         TableInv(bs, base, size, encrypt), Growable(bs),
         NEW a \in Nat, NEW n \in Nat \ {0}, a .. a + n - 1 \subseteq FreeBytes(bs)
  PROVE  \E k \in FreeSlots(bs) : bs[k].addr <= a /\ a + n <= End(bs[k])
<1>1. bs \in Tables /\ FreesApart(bs) /\ NoneTouch(bs)
  BY DEF TableInv
<1>2. PICK k \in FreeSlots(bs) : a \in Bytes(bs[k])
  <2>1. a \in FreeBytes(bs)
    OBVIOUS
  <2> QED BY <2>1, InBytesOf DEF FreeBytes
<1>3. \A l \in FreeSlots(bs) : /\ l \in DOMAIN bs /\ ~bs[l].in_use
                               /\ bs[l].addr \in Nat /\ bs[l].size \in Nat
  BY <1>1, TableSlots DEF FreeSlots
<1> DEFINE G == {x \in 0 .. n - 1 : a + x \in Bytes(bs[k])}
<1>4. G \in SUBSET (0 .. n - 1) /\ 0 \in G
  BY <1>2
<1>5. ASSUME NEW x \in 1 .. n - 1, x - 1 \in G PROVE x \in G
  <2>1. PICK y \in Nat : y = a + x /\ y \in a .. a + n - 1 /\ y - 1 \in Bytes(bs[k])
    BY <1>5
  <2>2. PICK l \in FreeSlots(bs) : y \in Bytes(bs[l])
    BY <2>1, InBytesOf DEF FreeBytes
  <2>3. CASE l = k
    BY <2>1, <2>2, <2>3
  <2>4. CASE l # k
    <3>1. Disjoint(bs[k], bs[l]) /\ ~Adjacent(bs[k], bs[l])
      BY <1>1, <1>3, <2>4 DEF FreesApart, NoneTouch
    <3>2. End(bs[k]) # bs[l].addr
      BY <1>3, <3>1 DEF Adjacent
    <3>3. y \in Bytes(bs[k])
      BY <1>3, <2>1, <2>2, <3>1, <3>2 DEF Disjoint, End, Bytes
    <3> QED BY <2>1, <3>3
  <2> QED BY <2>3, <2>4
<1>6. G = 0 .. n - 1
  <2>1. n - 1 \in Nat
    OBVIOUS
  <2> HIDE DEF G
  <2> QED BY <1>4, <1>5, <2>1, IntervalInduction
<1>7. a + (n - 1) \in Bytes(bs[k])
  <2>1. n - 1 \in G
    BY <1>6
  <2> QED BY <2>1
<1>8. QED
  BY <1>2, <1>3, <1>7 DEF Bytes, End

\* When nothing fits, every aligned run meets a live block.
LEMMA RunRefused ==
  ASSUME NEW bs, NEW base \in Nat, NEW size \in Nat, NEW encrypt,
         TableInv(bs, base, size, encrypt), Growable(bs),
         NEW needed \in Nat \ {0}, NEW alignment \in Nat,
         BlockNextFree(bs, needed, alignment) = 0,
         NEW a \in base .. base + size - needed, a % Max({alignment, BlockAlign}) = 0
  PROVE  \E i \in Live(bs) : ~Disjoint(Hole(a, needed), bs[i])
<1> SUFFICES ASSUME \A i \in Live(bs) : Disjoint(Hole(a, needed), bs[i]) PROVE FALSE
  OBVIOUS
<1>1. bs \in Tables /\ NoEmptyFree(bs) /\ Range0(base, size) \subseteq LiveBytes(bs) \cup FreeBytes(bs)
  BY DEF TableInv
<1>2. a \in Nat /\ Hole(a, needed).addr = a /\ Hole(a, needed).size = needed
  BY DEF Hole, Block
<1>3. ASSUME NEW x \in a .. a + needed - 1 PROVE x \in FreeBytes(bs)
  <2>1. x \in Range0(base, size) /\ x \in Bytes(Hole(a, needed))
    BY <1>2 DEF Range0, Bytes, End
  <2>2. ASSUME x \in LiveBytes(bs) PROVE FALSE
    <3>1. PICK i \in Live(bs) : x \in Bytes(bs[i])
      BY <2>2, InBytesOf DEF LiveBytes
    <3>2. bs[i].addr \in Nat /\ bs[i].size \in Nat /\ bs[i].size > 0
      BY <1>1, TableSlots DEF Live, Solid
    <3>3. Bytes(Hole(a, needed)) \cap Bytes(bs[i]) = {}
      BY <1>2, <3>2, ApartDisjoint
    <3> QED BY <2>1, <3>1, <3>3
  <2> QED BY <1>1, <2>1, <2>2
<1>4. PICK k \in FreeSlots(bs) : bs[k].addr <= a /\ a + needed <= End(bs[k])
  <2>1. a .. a + needed - 1 \subseteq FreeBytes(bs)
    BY <1>3
  <2> QED BY <1>2, <2>1, FreeRun
<1>5. /\ k \in DOMAIN bs /\ ~bs[k].in_use /\ bs[k] \in BlockRecord
      /\ bs[k].addr \in Nat /\ bs[k].size \in Nat
  BY <1>1, TableSlots DEF FreeSlots
<1>6. AlignedStart(bs[k], alignment) \in Nat /\ AlignedStart(bs[k], alignment) <= a
  BY <1>2, <1>4, <1>5, StartAligned
<1>7. Fits(bs[k], needed, alignment)
  BY <1>2, <1>4, <1>5, <1>6 DEF Fits, End
<1>8. QED
  BY <1>1, <1>5, <1>7, NextFree DEF Tables


-----------------------------------------------------------------------------
(* The pools.                                                               *)

PoolRecord == [size : 1 .. PoolStride, encrypt : BOOLEAN, active : BOOLEAN, used : Nat,
               blocks : Tables]
\* The handle h is the one spmp_alloc filled in for block b.
Names(h, b) == b.addr = h.addr /\ b.size = h.size
\* A destroyed pool has no table; the used counter is the bytes of live blocks.
PoolInv(id, p) ==
  IF p.active THEN /\ TableInv(p.blocks, PoolBase(id), p.size, p.encrypt)
                   /\ p.used = Cardinality(LiveBytes(p.blocks))
              ELSE p.blocks = << >> /\ p.used = 0

PoolsInv ==
  /\ pools \in Seq(PoolRecord) /\ Len(pools) <= MaxPools
  /\ \A id \in DOMAIN pools : PoolInv(id, pools[id])

HoldsIn(c, id) == Holds(c) /\ handle[c].pool_id = id

\* Handles and live blocks of active pools are in one-to-one correspondence.
\* Two handles of a pool have different addresses even while blocks of different
\* sizes come and go, which is why spmp_free finds the right slot.
HandlesInv ==
  /\ handle \in [Clients -> {NoHandle} \cup Allocations]
  /\ \A c \in Clients : handle[c] # NoHandle => handle[c].pool_id \in DOMAIN pools
  /\ \A c \in Clients, id \in DOMAIN pools : HoldsIn(c, id) =>
       \E k \in Live(pools[id].blocks) : Names(handle[c], pools[id].blocks[k])
  /\ \A id \in DOMAIN pools : \A k \in Live(pools[id].blocks) :
       \E c \in Clients : HoldsIn(c, id) /\ Names(handle[c], pools[id].blocks[k])
  /\ \A c, d \in Clients, id \in DOMAIN pools :
       HoldsIn(c, id) /\ HoldsIn(d, id) /\ c # d => handle[c].addr # handle[d].addr

Owning == {c \in Clients : handle[c] # NoHandle}
\* Each handle held is an allocation not yet freed.
StatsInv ==
  /\ stats \in [allocs : 0 .. MaxAllocs, frees : Nat]
  /\ stats.frees + Cardinality(Owning) <= stats.allocs

Inv == PoolsInv /\ HandlesInv /\ StatsInv

-----------------------------------------------------------------------------
(* Pools.                                                                   *)

LEMMA BaseNat ==
  ASSUME NEW id \in Nat \ {0}
  PROVE  PoolBase(id) \in Nat
<1>1. PICK m \in Nat : m = id - 1
  OBVIOUS
<1>2. AddrBase \in Nat /\ PoolStride \in Nat
  BY SpmpConstants
<1>3. m * PoolStride \in Nat
  BY <1>2
<1>4. QED
  BY <1>1, <1>2, <1>3 DEF PoolBase

LEMMA PoolTypes ==
  ASSUME PoolsInv
  PROVE  /\ Len(pools) \in Nat /\ DOMAIN pools = 1 .. Len(pools)
         /\ \A id \in DOMAIN pools :
              /\ id \in Nat \ {0} /\ PoolBase(id) \in Nat
              /\ pools[id] \in PoolRecord
              /\ pools[id].size \in Nat \ {0} /\ pools[id].encrypt \in BOOLEAN
              /\ pools[id].active \in BOOLEAN /\ pools[id].used \in Nat
              /\ pools[id].blocks \in Tables
<1>1. Len(pools) \in Nat /\ DOMAIN pools = 1 .. Len(pools)
      /\ \A id \in DOMAIN pools : pools[id] \in PoolRecord
  BY DEF PoolsInv
<1>2. \A id \in DOMAIN pools : id \in Nat \ {0}
  BY <1>1
<1>3. PoolStride \in Nat
  BY SpmpConstants
<1>4. \A p \in PoolRecord :
        /\ p.size \in Nat \ {0} /\ p.encrypt \in BOOLEAN /\ p.active \in BOOLEAN
        /\ p.used \in Nat /\ p.blocks \in Tables
  BY <1>3 DEF PoolRecord
<1>5. QED
  BY <1>1, <1>2, <1>4, BaseNat

Rewritten(q, p, bs, n) ==
  /\ q = [[p EXCEPT !.blocks = bs] EXCEPT !.used = n]
  /\ q.blocks = bs /\ q.used = n /\ q.size = p.size
  /\ q.active = p.active /\ q.encrypt = p.encrypt

\* Replacing the record of one pool.
LEMMA PoolChange ==
  ASSUME NEW p \in PoolRecord, NEW bs \in Tables, NEW n \in Nat
  PROVE  \E q \in PoolRecord : Rewritten(q, p, bs, n)
<1> DEFINE q == [[p EXCEPT !.blocks = bs] EXCEPT !.used = n]
<1>1. q \in PoolRecord /\ Rewritten(q, p, bs, n)
  BY DEF PoolRecord, Rewritten
<1> QED BY <1>1

LEMMA PoolClosed ==
  ASSUME NEW p \in PoolRecord, << >> \in Tables
  PROVE  LET q == [[[p EXCEPT !.active = FALSE] EXCEPT !.blocks = << >>] EXCEPT !.used = 0]
         IN q \in PoolRecord /\ q.blocks = << >> /\ q.used = 0 /\ ~q.active
  BY DEF PoolRecord

LEMMA ChangedPool ==
  ASSUME PoolsInv, NEW id \in DOMAIN pools, NEW q \in PoolRecord, PoolInv(id, q),
         pools' = [pools EXCEPT ![id] = q]
  PROVE  /\ PoolsInv' /\ DOMAIN pools' = DOMAIN pools
         /\ pools'[id] = q /\ \A j \in DOMAIN pools \ {id} : pools'[j] = pools[j]
<1>1. /\ Len(pools) \in Nat /\ DOMAIN pools = 1 .. Len(pools) /\ pools \in Seq(PoolRecord)
      /\ Len(pools) <= MaxPools
  BY DEF PoolsInv
<1>2. /\ pools' \in Seq(PoolRecord) /\ Len(pools') = Len(pools) /\ DOMAIN pools' = DOMAIN pools
      /\ pools'[id] = q /\ \A j \in DOMAIN pools \ {id} : pools'[j] = pools[j]
  BY <1>1, ExceptSeq
<1>3. \A j \in DOMAIN pools' : PoolInv(j, pools'[j])
  BY <1>2 DEF PoolsInv
<1>4. QED
  BY <1>1, <1>2, <1>3 DEF PoolsInv

\* The used counter is finite, and grows and shrinks by whole blocks.
LEMMA LiveSize ==
  ASSUME NEW bs, NEW base \in Nat, NEW size \in Nat, NEW encrypt \in BOOLEAN,
         TableInv(bs, base, size, encrypt)
  PROVE  IsFiniteSet(LiveBytes(bs)) /\ Cardinality(LiveBytes(bs)) \in Nat
<1>1. IsFiniteSet(Range0(base, size))
  <2>1. base \in Int /\ base + size - 1 \in Int
    OBVIOUS
  <2> QED BY <2>1, FS_Interval DEF Range0
<1>2. LiveBytes(bs) \in SUBSET Range0(base, size)
  BY DEF TableInv
<1>3. QED
  BY <1>1, <1>2, FS_Subset, FS_CardinalityType

LEMMA BlockSize ==
  ASSUME NEW b, b.addr \in Nat, b.size \in Nat
  PROVE  IsFiniteSet(Bytes(b)) /\ Cardinality(Bytes(b)) = b.size
<1>1. PICK n \in Nat : n = b.size
  OBVIOUS
<1>2. PICK lo \in Int, hi \in Int : lo = b.addr /\ hi = b.addr + b.size - 1 /\ hi = lo + n - 1
  BY <1>1
<1>3. Bytes(b) = lo .. hi
  BY <1>2 DEF Bytes, End
<1>4. IsFiniteSet(lo .. hi) /\ Cardinality(lo .. hi) = IF lo > hi THEN 0 ELSE hi - lo + 1
  BY <1>2, FS_Interval
<1>5. (IF lo > hi THEN 0 ELSE hi - lo + 1) = n
  BY <1>2
<1>6. QED
  BY <1>1, <1>3, <1>4, <1>5

LEMMA DisjointUnion ==
  ASSUME NEW S, NEW T, IsFiniteSet(S), IsFiniteSet(T), S \cap T = {}
  PROVE  Cardinality(S \cup T) = Cardinality(S) + Cardinality(T)
<1>1. Cardinality(S) \in Nat /\ Cardinality(T) \in Nat /\ Cardinality(S \cap T) = 0
  BY FS_CardinalityType, FS_EmptySet
<1>2. Cardinality(S \cup T) = Cardinality(S) + Cardinality(T) - Cardinality(S \cap T)
  BY FS_Union
<1>3. QED
  BY <1>1, <1>2

-----------------------------------------------------------------------------
(* Handles.                                                                 *)

\* No step but an allocation or a free changes which blocks the handles name.
LEMMA SameHandles ==
  ASSUME HandlesInv, handle' = handle, DOMAIN pools \subseteq DOMAIN pools',
         \A id \in DOMAIN pools :
           /\ pools'[id].active <=> pools[id].active
           /\ Live(pools'[id].blocks) = Live(pools[id].blocks)
           /\ \A k \in Live(pools[id].blocks) :
                /\ pools'[id].blocks[k].addr = pools[id].blocks[k].addr
                /\ pools'[id].blocks[k].size = pools[id].blocks[k].size,
         \A id \in DOMAIN pools' \ DOMAIN pools : Live(pools'[id].blocks) = {}
  PROVE  HandlesInv'
<1>1. ASSUME NEW c \in Clients PROVE Holds(c)' <=> Holds(c)
  <2>1. handle[c] # NoHandle => handle[c].pool_id \in DOMAIN pools
    BY DEF HandlesInv
  <2> QED BY <2>1 DEF Holds, IsActive
<1>2. ASSUME NEW c \in Clients, NEW id PROVE HoldsIn(c, id)' <=> HoldsIn(c, id)
  BY <1>1 DEF HoldsIn
<1>3. ASSUME NEW c \in Clients, NEW id, HoldsIn(c, id) PROVE id \in DOMAIN pools
  BY <1>3 DEF HoldsIn, Holds, IsActive
<1>4. ASSUME NEW c \in Clients, NEW id \in DOMAIN pools', HoldsIn(c, id)'
      PROVE  \E k \in Live(pools'[id].blocks) : Names(handle'[c], pools'[id].blocks[k])
  <2>1. HoldsIn(c, id) /\ id \in DOMAIN pools
    BY <1>2, <1>3, <1>4
  <2>2. PICK k \in Live(pools[id].blocks) : Names(handle[c], pools[id].blocks[k])
    BY <2>1 DEF HandlesInv
  <2> QED BY <2>1, <2>2 DEF Names
<1>5. ASSUME NEW id \in DOMAIN pools', NEW k \in Live(pools'[id].blocks)
      PROVE  \E c \in Clients : HoldsIn(c, id)' /\ Names(handle'[c], pools'[id].blocks[k])
  <2>1. id \in DOMAIN pools /\ k \in Live(pools[id].blocks)
    BY <1>5
  <2>2. PICK c \in Clients : HoldsIn(c, id) /\ Names(handle[c], pools[id].blocks[k])
    BY <2>1 DEF HandlesInv
  <2> QED BY <1>2, <2>1, <2>2 DEF Names
<1>6. ASSUME NEW c \in Clients, NEW d \in Clients, NEW id \in DOMAIN pools',
             HoldsIn(c, id)', HoldsIn(d, id)', c # d
      PROVE  handle'[c].addr # handle'[d].addr
  BY <1>2, <1>3, <1>6 DEF HandlesInv
<1>7. /\ handle' \in [Clients -> {NoHandle} \cup Allocations]
      /\ \A c \in Clients : handle'[c] # NoHandle => handle'[c].pool_id \in DOMAIN pools'
  BY DEF HandlesInv
<1>8. QED
  BY <1>4, <1>5, <1>6, <1>7 DEF HandlesInv

LEMMA SameStats ==
  ASSUME StatsInv, handle' = handle, stats' = stats
  PROVE  StatsInv'
  BY DEF StatsInv, Owning

-----------------------------------------------------------------------------
(* The initial state and the steps.                                         *)

LEMMA InitInv == Init => Inv
<1> SUFFICES ASSUME Init PROVE Inv
  OBVIOUS
<1>1. pools = << >> /\ DOMAIN pools = {} /\ Len(pools) = 0
  BY DEF Init
<1>2. PoolsInv
  <2>1. << >> \in Seq(PoolRecord)
    OBVIOUS
  <2>2. MaxPools \in Nat
    BY SpmpConstants
  <2> QED BY <1>1, <2>1, <2>2 DEF PoolsInv
<1>3. \A c \in Clients : handle[c] = NoHandle
  BY DEF Init
<1>4. HandlesInv
  <2>1. handle \in [Clients -> {NoHandle} \cup Allocations]
    BY DEF Init
  <2> QED BY <1>1, <1>3, <2>1 DEF HandlesInv, HoldsIn, Holds
<1>5. StatsInv
  <2>1. Owning = {}
    BY <1>3 DEF Owning
  <2>2. Cardinality(Owning) = 0
    BY <2>1, FS_EmptySet
  <2>3. stats = [allocs |-> 0, frees |-> 0] /\ MaxAllocs \in Nat
    BY SpmpConstants DEF Init
  <2> QED BY <2>2, <2>3 DEF StatsInv
<1>6. QED
  BY <1>2, <1>4, <1>5 DEF Inv

\* spmp_pool_create.
LEMMA CreateInv ==
  ASSUME Inv, NEW cfg \in PoolConfigs, PoolCreate(cfg)
  PROVE  Inv'
<1>1. cfg.size \in 1 .. PoolStride /\ cfg.size \in Nat \ {0} /\ cfg.encrypt \in BOOLEAN
  BY SpmpConstants
<1>2. PICK id \in Nat \ {0} : id = Len(pools) + 1 /\ Len(pools) = id - 1 /\ id <= MaxPools
                              /\ DOMAIN pools = 1 .. id - 1 /\ pools \in Seq(PoolRecord)
  <2>1. Len(pools) \in Nat /\ DOMAIN pools = 1 .. Len(pools) /\ pools \in Seq(PoolRecord)
    BY PoolTypes DEF Inv, PoolsInv
  <2>2. Len(pools) + 1 \in Nat \ {0} /\ Len(pools) + 1 <= MaxPools
    BY <2>1, SpmpConstants DEF PoolCreate
  <2> QED BY <2>1, <2>2
<1>3. PICK bs : bs = <<Block(PoolBase(id), cfg.size, FALSE, cfg.encrypt)>>
  OBVIOUS
<1>4. TableInv(bs, PoolBase(id), cfg.size, cfg.encrypt) /\ Live(bs) = {}
  BY <1>1, <1>2, <1>3, BaseNat, NewTable
<1>5. PICK p : p = [size |-> cfg.size, encrypt |-> cfg.encrypt, active |-> TRUE, used |-> 0,
                    blocks |-> bs]
  OBVIOUS
<1>6. p \in PoolRecord
  BY <1>1, <1>4, <1>5 DEF PoolRecord, TableInv
<1>7. PoolInv(id, p)
  <2>1. LiveBytes(bs) = {}
    BY <1>4 DEF LiveBytes, BytesOf
  <2>2. Cardinality(LiveBytes(bs)) = 0
    BY <2>1, FS_EmptySet
  <2> QED BY <1>4, <1>5, <2>2 DEF PoolInv
<1>8. pools' = Append(pools, p) /\ handle' = handle /\ stats' = stats
  BY <1>2, <1>3, <1>5 DEF PoolCreate
<1>9. /\ pools' \in Seq(PoolRecord) /\ Len(pools') = id /\ DOMAIN pools' = 1 .. id
      /\ pools'[id] = p /\ \A j \in 1 .. id - 1 : pools'[j] = pools[j]
  BY <1>2, <1>6, <1>8, AppendProperties
<1>10. PoolsInv'
  <2>1. \A j \in DOMAIN pools' : PoolInv(j, pools'[j])
    BY <1>2, <1>7, <1>9 DEF Inv, PoolsInv
  <2> QED BY <1>2, <1>9, <2>1 DEF PoolsInv
<1>11. HandlesInv'
  <2>1. DOMAIN pools \subseteq DOMAIN pools' /\ \A j \in DOMAIN pools : pools'[j] = pools[j]
    BY <1>2, <1>9
  <2>2. \A j \in DOMAIN pools' \ DOMAIN pools : Live(pools'[j].blocks) = {}
    <3>1. DOMAIN pools' \ DOMAIN pools = {id}
      BY <1>2, <1>9
    <3> QED BY <1>4, <1>5, <1>9, <3>1
  <2> QED BY <1>8, <2>1, <2>2, SameHandles DEF Inv
<1>12. QED
  BY <1>8, <1>10, <1>11, SameStats DEF Inv

\* spmp_pool_destroy: the handles of the pool no longer hold anything.
LEMMA DestroyInv ==
  ASSUME Inv, NEW id \in 1 .. MaxPools, PoolDestroy(id)
  PROVE  Inv'
<1>1. id \in DOMAIN pools /\ pools[id].active /\ pools[id] \in PoolRecord
  BY PoolTypes DEF PoolDestroy, IsActive, Inv
<1>2. handle' = handle /\ stats' = stats
  BY DEF PoolDestroy
<1>3. << >> \in Tables
  BY DEF Tables
<1>4. PICK q \in PoolRecord :
        /\ q = [[[pools[id] EXCEPT !.active = FALSE] EXCEPT !.blocks = << >>] EXCEPT !.used = 0]
        /\ q.blocks = << >> /\ q.used = 0 /\ ~q.active
  BY <1>1, <1>3, PoolClosed
<1>5. pools' = [pools EXCEPT ![id] = q]
  BY <1>1, <1>4 DEF PoolDestroy
<1>6. PoolInv(id, q)
  BY <1>4 DEF PoolInv
<1>7. /\ PoolsInv' /\ DOMAIN pools' = DOMAIN pools
      /\ pools'[id] = q /\ \A j \in DOMAIN pools \ {id} : pools'[j] = pools[j]
  BY <1>1, <1>5, <1>6, ChangedPool DEF Inv
<1>8. ASSUME NEW c \in Clients, NEW j PROVE HoldsIn(c, j)' <=> HoldsIn(c, j) /\ j # id
  BY <1>2, <1>4, <1>7 DEF HoldsIn, Holds, IsActive
<1>9. Live(pools'[id].blocks) = {}
  BY <1>4, <1>7 DEF Live, Solid
<1>10. HandlesInv'
  <2>1. ASSUME NEW c \in Clients, NEW j \in DOMAIN pools, HoldsIn(c, j)'
        PROVE  \E k \in Live(pools'[j].blocks) : Names(handle'[c], pools'[j].blocks[k])
    BY <1>2, <1>7, <1>8, <2>1 DEF Inv, HandlesInv
  <2>2. ASSUME NEW j \in DOMAIN pools, NEW k \in Live(pools'[j].blocks)
        PROVE  \E c \in Clients : HoldsIn(c, j)' /\ Names(handle'[c], pools'[j].blocks[k])
    <3>1. j # id /\ pools'[j] = pools[j]
      BY <1>7, <1>9
    <3> QED BY <1>2, <1>8, <3>1 DEF Inv, HandlesInv
  <2>3. ASSUME NEW c \in Clients, NEW d \in Clients, NEW j \in DOMAIN pools,
               HoldsIn(c, j)', HoldsIn(d, j)', c # d
        PROVE  handle'[c].addr # handle'[d].addr
    BY <1>2, <1>8, <2>3 DEF Inv, HandlesInv
  <2>4. /\ handle' \in [Clients -> {NoHandle} \cup Allocations]
        /\ \A c \in Clients : handle'[c] # NoHandle => handle'[c].pool_id \in DOMAIN pools'
    BY <1>2, <1>7 DEF Inv, HandlesInv
  <2> QED BY <1>7, <2>1, <2>2, <2>3, <2>4 DEF HandlesInv
<1>11. QED
  BY <1>2, <1>7, <1>10, SameStats DEF Inv

\* What spmp_alloc works on: the slot it chose, and the bytes it will take.
\* The slot and the aligned start spmp_alloc picks for the request r.
Chosen(id, r, bs, needed, i, start) ==
  /\ bs = pools[id].blocks /\ Len(bs) < MaxBlocks /\ needed = Needed(r[1])
  /\ i = BlockNextFree(bs, needed, r[2]) /\ i # 0 /\ start = AlignedStart(bs[i], r[2])

LEMMA AllocChoice ==
  ASSUME Inv, NEW id \in DOMAIN pools, pools[id].active, NEW r \in Requests,
         NEW bs, NEW needed, NEW i, NEW start, Chosen(id, r, bs, needed, i, start)
  PROVE  /\ needed \in Nat \ {0} /\ start \in Nat
         /\ TableInv(bs, PoolBase(id), pools[id].size, pools[id].encrypt) /\ Growable(bs)
         /\ CarveOK(bs, i, start, start + needed)
<1> USE DEF Chosen
<1>1. r[1] \in Nat /\ r[2] \in Nat
  BY SpmpConstants
<1>2. TableInv(bs, PoolBase(id), pools[id].size, pools[id].encrypt) /\ Growable(bs) /\ bs \in Tables
  BY PoolTypes DEF Inv, PoolsInv, PoolInv, Growable
<1>3. needed \in Nat \ {0}
  BY <1>1, NeededPositive
<1>4. i \in DOMAIN bs /\ Fits(bs[i], needed, r[2])
  BY <1>2, NextFree DEF Tables
<1>5. bs[i] \in BlockRecord /\ bs[i].addr \in Nat /\ bs[i].size \in Nat
  BY <1>2, <1>4, TableSlots
<1>6. start \in Nat /\ bs[i].addr <= start
  BY <1>1, <1>5, StartAligned
<1>7. ~bs[i].in_use /\ bs[i].addr + bs[i].size - start >= needed
  BY <1>4, <1>5, <1>6 DEF Fits, End
<1>8. start < start + needed /\ start + needed <= bs[i].addr + bs[i].size /\ start + needed \in Nat
  BY <1>3, <1>5, <1>6, <1>7
<1>9. CarveOK(bs, i, start, start + needed)
  BY <1>4, <1>6, <1>7, <1>8 DEF CarveOK, FreeSlots
<1>10. QED
  BY <1>2, <1>3, <1>6, <1>9

\* A step that replaces the table of one pool, and the counter with it.
NewTableOf(id, bs) ==
  pools' = [pools EXCEPT ![id] = [[pools[id] EXCEPT !.blocks = bs]
                                    EXCEPT !.used = Cardinality(LiveBytes(bs))]]

LEMMA TableStep ==
  ASSUME Inv, NEW id \in DOMAIN pools, pools[id].active,
         NEW bs, TableInv(bs, PoolBase(id), pools[id].size, pools[id].encrypt),
         NewTableOf(id, bs)
  PROVE  /\ PoolsInv' /\ DOMAIN pools' = DOMAIN pools
         /\ pools'[id].blocks = bs /\ (pools'[id].active <=> pools[id].active)
         /\ \A j \in DOMAIN pools \ {id} : pools'[j] = pools[j]
<1>1. /\ PoolBase(id) \in Nat /\ pools[id].size \in Nat /\ pools[id].encrypt \in BOOLEAN
      /\ pools[id] \in PoolRecord /\ PoolsInv
  BY PoolTypes DEF Inv
<1>2. PICK n : n = Cardinality(LiveBytes(bs))
  OBVIOUS
<1>3. n \in Nat /\ bs \in Tables
  BY <1>2, <1>1, LiveSize DEF TableInv
<1>4. PICK q \in PoolRecord : Rewritten(q, pools[id], bs, n)
  BY <1>1, <1>3, PoolChange
<1>5. PoolInv(id, q)
  BY <1>2, <1>4 DEF PoolInv, Rewritten
<1>6. pools' = [pools EXCEPT ![id] = q]
  BY <1>2, <1>4 DEF NewTableOf, Rewritten
<1>7. QED
  BY <1>1, <1>4, <1>5, <1>6, ChangedPool DEF Rewritten

SameLive(bs, cs) ==
  /\ Live(cs) = Live(bs) /\ LiveBytes(cs) = LiveBytes(bs)
  /\ \A k \in Live(bs) : cs[k].addr = bs[k].addr /\ cs[k].size = bs[k].size

\* A step that rewrites one table and keeps its live blocks where they are.
LEMMA SameLiveInv ==
  ASSUME Inv, NEW id \in DOMAIN pools, pools[id].active,
         NEW cs, TableInv(cs, PoolBase(id), pools[id].size, pools[id].encrypt),
         SameLive(pools[id].blocks, cs),
         pools' = [pools EXCEPT ![id].blocks = cs], handle' = handle, stats' = stats
  PROVE  Inv'
<1>1. /\ pools[id] \in PoolRecord /\ pools[id].used = Cardinality(LiveBytes(cs))
      /\ LiveBytes(cs) = LiveBytes(pools[id].blocks)
  BY PoolTypes DEF Inv, PoolsInv, PoolInv, SameLive
<1>2. [pools[id] EXCEPT !.blocks = cs]
        = [[pools[id] EXCEPT !.blocks = cs] EXCEPT !.used = pools[id].used]
  BY <1>1 DEF PoolRecord
<1>3. NewTableOf(id, cs)
  BY <1>1, <1>2 DEF NewTableOf
<1>4. /\ PoolsInv' /\ DOMAIN pools' = DOMAIN pools
      /\ pools'[id].blocks = cs /\ (pools'[id].active <=> pools[id].active)
      /\ \A j \in DOMAIN pools \ {id} : pools'[j] = pools[j]
  BY <1>3, TableStep
<1>5. HandlesInv'
  <2>1. \A j \in DOMAIN pools :
          /\ pools'[j].active <=> pools[j].active
          /\ Live(pools'[j].blocks) = Live(pools[j].blocks)
          /\ \A k \in Live(pools[j].blocks) :
               /\ pools'[j].blocks[k].addr = pools[j].blocks[k].addr
               /\ pools'[j].blocks[k].size = pools[j].blocks[k].size
    <3> TAKE j \in DOMAIN pools
    <3>1. CASE j = id
      BY <1>4, <3>1 DEF SameLive
    <3>2. CASE j # id
      BY <1>4, <3>2
    <3> QED BY <3>1, <3>2
  <2> QED BY <1>4, <2>1, SameHandles DEF Inv
<1>6. QED
  BY <1>4, <1>5, SameStats DEF Inv

\* spmp_alloc returns -ENOSPC after writing the leading hole.
LEMMA AllocFailedInv ==
  ASSUME Inv, NEW id \in DOMAIN pools, pools[id].active,
         NEW i, NEW start, NEW alloc_end, NEW split,
         FullBetweenHoles(pools[id].blocks, i, start, alloc_end, split),
         pools' = [pools EXCEPT ![id].blocks = split], handle' = handle, stats' = stats
  PROVE  Inv'
<1> PICK bs : bs = pools[id].blocks
  OBVIOUS
<1>1. /\ PoolBase(id) \in Nat /\ pools[id].size \in Nat /\ pools[id].encrypt \in BOOLEAN
      /\ TableInv(bs, PoolBase(id), pools[id].size, pools[id].encrypt)
  BY PoolTypes DEF Inv, PoolsInv, PoolInv
<1>2. /\ TableInv(split, PoolBase(id), pools[id].size, pools[id].encrypt)
      /\ SameLive(bs, split)
  BY <1>1, SplitInv DEF SameLive
<1>3. QED
  BY <1>2, SameLiveInv

\* Finitely many clients hold finitely many allocations.
LEMMA StatsFinite ==
  ASSUME StatsInv
  PROVE  /\ IsFiniteSet(Owning) /\ Cardinality(Owning) \in Nat
         /\ stats.allocs \in Nat /\ stats.allocs <= MaxAllocs /\ stats.frees \in Nat
         /\ MaxAllocs \in Nat /\ stats = [allocs |-> stats.allocs, frees |-> stats.frees]
<1>1. Owning \in SUBSET Clients /\ IsFiniteSet(Clients) /\ MaxAllocs \in Nat
  BY SpmpConstants DEF Owning
<1>2. IsFiniteSet(Owning) /\ Cardinality(Owning) \in Nat
  BY <1>1, FS_Subset, FS_CardinalityType
<1>3. QED
  BY <1>1, <1>2 DEF StatsInv

\* The allocation that c gets from slot i of the table bs of pool id.
Allocated(bs, cs, i, start, needed) ==
  /\ Growable(bs) /\ CarveOK(bs, i, start, start + needed) /\ needed \in Nat
  /\ Carved(bs, cs, i, start, start + needed) /\ Len(cs) <= MaxBlocks

\* Slot i of pool id becomes a live block of its own, and nothing else changes.
OneMoreLive(id, i) ==
  LET bs == pools[id].blocks
      cs == pools'[id].blocks
  IN /\ DOMAIN pools' = DOMAIN pools /\ (pools'[id].active <=> pools[id].active)
     /\ \A j \in DOMAIN pools \ {id} : pools'[j] = pools[j]
     /\ Live(cs) = Live(bs) \cup {i} /\ i \notin Live(bs)
     /\ \A k \in Live(bs) : cs[k] = bs[k] /\ cs[k].addr # cs[i].addr

\* The new handle names the new block, and nobody else does.
LEMMA AllocatedHandles ==
  ASSUME Inv, NEW id \in DOMAIN pools, pools[id].active, NEW c \in Clients, ~Holds(c),
         NEW i, NEW h \in Allocations, OneMoreLive(id, i),
         Names(h, pools'[id].blocks[i]), h.pool_id = id, handle' = [handle EXCEPT ![c] = h]
  PROVE  HandlesInv'
<1>1. /\ pools'[id].active /\ DOMAIN pools' = DOMAIN pools
      /\ \A j \in DOMAIN pools \ {id} : pools'[j] = pools[j]
      /\ Live(pools'[id].blocks) = Live(pools[id].blocks) \cup {i}
      /\ i \notin Live(pools[id].blocks)
      /\ \A k \in Live(pools[id].blocks) :
           /\ pools'[id].blocks[k] = pools[id].blocks[k]
           /\ pools'[id].blocks[k].addr # pools'[id].blocks[i].addr
  BY DEF OneMoreLive
<1>2. /\ handle \in [Clients -> {NoHandle} \cup Allocations]
      /\ \A d \in Clients : handle[d] # NoHandle => handle[d].pool_id \in DOMAIN pools
  BY DEF Inv, HandlesInv
<1>3. h # NoHandle
  BY SpmpConstants
<1>4. /\ handle' \in [Clients -> {NoHandle} \cup Allocations]
      /\ handle'[c] = h /\ \A d \in Clients \ {c} : handle'[d] = handle[d]
  BY <1>2
<1>5. \A j \in DOMAIN pools : pools'[j].active <=> pools[j].active
  BY <1>1
<1>6. ASSUME NEW d \in Clients \ {c}, NEW j PROVE HoldsIn(d, j)' <=> HoldsIn(d, j)
  BY <1>1, <1>2, <1>4, <1>5 DEF HoldsIn, Holds, IsActive
<1>7. ASSUME NEW j PROVE /\ HoldsIn(c, j)' <=> j = id
                         /\ ~HoldsIn(c, j)
  BY <1>1, <1>3, <1>4 DEF HoldsIn, Holds, IsActive
<1>8. ASSUME NEW d \in Clients \ {c}, NEW j \in DOMAIN pools, HoldsIn(d, j)
      PROVE  \E k \in Live(pools[j].blocks) :
               k \in Live(pools'[j].blocks) /\ Names(handle'[d], pools'[j].blocks[k])
  <2>1. PICK k \in Live(pools[j].blocks) : Names(handle[d], pools[j].blocks[k])
    BY <1>8 DEF Inv, HandlesInv
  <2>2. k \in Live(pools'[j].blocks) /\ pools'[j].blocks[k] = pools[j].blocks[k]
    BY <1>1, <2>1
  <2> QED BY <1>4, <2>1, <2>2
<1>9. ASSUME NEW d \in Clients, NEW j \in DOMAIN pools, HoldsIn(d, j)'
      PROVE  \E k \in Live(pools'[j].blocks) : Names(handle'[d], pools'[j].blocks[k])
  <2>1. CASE d = c
    BY <1>1, <1>4, <1>7, <1>9, <2>1
  <2>2. CASE d # c
    BY <1>6, <1>8, <1>9, <2>2
  <2> QED BY <2>1, <2>2
<1>10. ASSUME NEW j \in DOMAIN pools, NEW k \in Live(pools'[j].blocks)
      PROVE  \E d \in Clients : HoldsIn(d, j)' /\ Names(handle'[d], pools'[j].blocks[k])
  <2>1. CASE j = id /\ k = i
    BY <1>1, <1>4, <1>7, <2>1
  <2>2. CASE ~(j = id /\ k = i)
    <3>1. k \in Live(pools[j].blocks) /\ pools'[j].blocks[k] = pools[j].blocks[k]
      BY <1>1, <2>2
    <3>2. PICK d \in Clients : HoldsIn(d, j) /\ Names(handle[d], pools[j].blocks[k])
      BY <3>1 DEF Inv, HandlesInv
    <3>3. d # c
      BY <1>7, <3>2
    <3> QED BY <1>4, <1>6, <3>1, <3>2, <3>3
  <2> QED BY <2>1, <2>2
<1>11. ASSUME NEW d \in Clients \ {c}, HoldsIn(d, id) PROVE handle'[d].addr # h.addr
  <2>1. PICK k \in Live(pools[id].blocks) :
          k \in Live(pools'[id].blocks) /\ Names(handle'[d], pools'[id].blocks[k])
    BY <1>8, <1>11
  <2> QED BY <1>1, <2>1 DEF Names
<1>12. ASSUME NEW d \in Clients, NEW e \in Clients, NEW j \in DOMAIN pools,
              HoldsIn(d, j)', HoldsIn(e, j)', d # e
       PROVE  handle'[d].addr # handle'[e].addr
  <2>1. CASE d # c /\ e # c
    BY <1>4, <1>6, <1>12, <2>1 DEF Inv, HandlesInv
  <2>2. CASE d = c
    BY <1>4, <1>6, <1>7, <1>11, <1>12, <2>2
  <2>3. CASE e = c
    BY <1>4, <1>6, <1>7, <1>11, <1>12, <2>3
  <2> QED BY <2>1, <2>2, <2>3
<1>13. \A d \in Clients : handle'[d] # NoHandle => handle'[d].pool_id \in DOMAIN pools'
  BY <1>1, <1>2, <1>4
<1>14. QED
  BY <1>1, <1>4, <1>9, <1>10, <1>12, <1>13 DEF HandlesInv

LEMMA AllocatedStats ==
  ASSUME Inv, NEW c \in Clients, NEW h \in Allocations, stats.allocs < MaxAllocs,
         handle' = [handle EXCEPT ![c] = h], stats' = [stats EXCEPT !.allocs = @ + 1]
  PROVE  StatsInv'
<1>1. h # NoHandle /\ handle \in [Clients -> {NoHandle} \cup Allocations]
  BY SpmpConstants DEF Inv, HandlesInv
<1>2. Owning' = Owning \cup {c}
  BY <1>1 DEF Owning
<1>3. /\ IsFiniteSet(Owning) /\ Cardinality(Owning) \in Nat
      /\ stats.allocs \in Nat /\ stats.frees \in Nat /\ MaxAllocs \in Nat
      /\ stats = [allocs |-> stats.allocs, frees |-> stats.frees]
      /\ stats.frees + Cardinality(Owning) <= stats.allocs
  BY StatsFinite DEF Inv, StatsInv
<1>4. Cardinality(Owning') <= Cardinality(Owning) + 1 /\ Cardinality(Owning') \in Nat
  <2>1. PICK S : S = Owning
    OBVIOUS
  <2>2. /\ IsFiniteSet(S \cup {c}) /\ Cardinality(S) \in Nat
        /\ Cardinality(S \cup {c}) = IF c \in S THEN Cardinality(S) ELSE Cardinality(S) + 1
    BY <1>3, <2>1, FS_AddElement
  <2> QED BY <1>2, <2>1, <2>2
<1>5. stats' = [allocs |-> stats.allocs + 1, frees |-> stats.frees]
  BY <1>3
<1>6. QED
  BY <1>3, <1>4, <1>5 DEF StatsInv

\* The client c receives the handle h.
Handed(h, c, id, cs, start, needed) ==
  /\ h = [addr |-> start, size |-> needed, pool_id |-> id, encrypted |-> pools[id].encrypt]
  /\ pools' = [pools EXCEPT ![id].blocks = cs, ![id].used = @ + needed]
  /\ handle' = [handle EXCEPT ![c] = h] /\ stats' = [stats EXCEPT !.allocs = @ + 1]

\* spmp_alloc succeeds.
LEMMA AllocDoneInv ==
  ASSUME Inv, NEW id \in DOMAIN pools, pools[id].active, id \in 1 .. MaxPools,
         NEW c \in Clients, ~Holds(c), stats.allocs < MaxAllocs,
         NEW cs, NEW i, NEW start, NEW needed, Allocated(pools[id].blocks, cs, i, start, needed),
         NEW h, Handed(h, c, id, cs, start, needed)
  PROVE  Inv'
<1> USE DEF Handed
<1> PICK bs : bs = pools[id].blocks
  OBVIOUS
<1>1. /\ PoolBase(id) \in Nat /\ pools[id].size \in Nat /\ pools[id].encrypt \in BOOLEAN
      /\ pools[id] \in PoolRecord /\ pools[id].used \in Nat
      /\ TableInv(bs, PoolBase(id), pools[id].size, pools[id].encrypt)
      /\ pools[id].used = Cardinality(LiveBytes(bs))
  BY PoolTypes DEF Inv, PoolsInv, PoolInv
<1>2. /\ Growable(bs) /\ CarveOK(bs, i, start, start + needed) /\ needed \in Nat
      /\ Carved(bs, cs, i, start, start + needed) /\ Len(cs) <= MaxBlocks
  BY DEF Allocated
<1>3. /\ TableInv(cs, PoolBase(id), pools[id].size, pools[id].encrypt)
      /\ Live(cs) = Live(bs) \cup {i} /\ i \notin Live(bs)
      /\ \A k \in Live(bs) : cs[k] = bs[k]
      /\ LiveBytes(cs) = LiveBytes(bs) \cup Bytes(cs[i])
      /\ Bytes(cs[i]) \cap LiveBytes(bs) = {}
  BY <1>1, <1>2, CarvedInv
<1>4. start \in Nat /\ cs[i].addr = start /\ cs[i].size = needed
  BY <1>2 DEF Carved, CarveOK
<1>5. Cardinality(LiveBytes(cs)) = pools[id].used + needed
  <2>1. IsFiniteSet(Bytes(cs[i])) /\ Cardinality(Bytes(cs[i])) = needed
    BY <1>2, <1>4, BlockSize
  <2>2. IsFiniteSet(LiveBytes(bs))
    BY <1>1, LiveSize
  <2> QED BY <1>1, <1>3, <2>1, <2>2, DisjointUnion
<1>6. NewTableOf(id, cs)
  BY <1>5 DEF NewTableOf
<1>7. /\ PoolsInv' /\ DOMAIN pools' = DOMAIN pools
      /\ pools'[id].blocks = cs /\ (pools'[id].active <=> pools[id].active)
      /\ \A j \in DOMAIN pools \ {id} : pools'[j] = pools[j]
  BY <1>3, <1>6, TableStep
<1>8. h \in Allocations
  BY <1>1, <1>2, <1>4 DEF Allocations
<1>9. Names(h, cs[i]) /\ h.pool_id = id
  BY <1>4 DEF Names
<1>10. ASSUME NEW k \in Live(bs) PROVE cs[k].addr # cs[i].addr
  <2>1. /\ k \in Live(cs) /\ i \in Live(cs) /\ k # i
        /\ k \in DOMAIN cs /\ i \in DOMAIN cs /\ cs \in Tables
    BY <1>3 DEF Live, Solid, TableInv
  <2>2. Disjoint(cs[k], cs[i]) /\ cs[k].size > 0 /\ cs[i].size > 0
    BY <1>3, <2>1 DEF TableInv, Live, Solid
  <2> QED BY <2>1, <2>2, TableSlots DEF Disjoint, End
<1>11. OneMoreLive(id, i)
  BY <1>3, <1>7, <1>10 DEF OneMoreLive
<1>12. HandlesInv'
  BY <1>7, <1>8, <1>9, <1>11, AllocatedHandles
<1>13. StatsInv'
  BY <1>8, AllocatedStats
<1>14. QED
  BY <1>7, <1>12, <1>13 DEF Inv

\* spmp_alloc, both ways.
LEMMA AllocInv ==
  ASSUME Inv, NEW c \in Clients, NEW id \in 1 .. MaxPools, NEW r \in Requests,
         Alloc(c, id, r[1], r[2])
  PROVE  Inv'
<1>1. PICK bs, needed : bs = pools[id].blocks /\ needed = Needed(r[1])
  OBVIOUS
<1>2. PICK i : i = BlockNextFree(bs, needed, r[2])
  OBVIOUS
<1>3. PICK start : start = AlignedStart(bs[i], r[2])
  OBVIOUS
<1>4. PICK split : split = bs \o LeadingHole(bs[i], start)
  OBVIOUS
<1>5. PICK table : table = split \o TrailingHole(bs[i], start + needed)
  OBVIOUS
<1>6. PICK cs : cs = [table EXCEPT ![i] = Block(start, needed, TRUE, bs[i].encrypted)]
  OBVIOUS
<1>7. PICK h : h = [addr |-> start, size |-> needed, pool_id |-> id,
                    encrypted |-> pools[id].encrypt]
  OBVIOUS
<1>8. /\ id \in DOMAIN pools /\ pools[id].active /\ ~Holds(c) /\ stats.allocs < MaxAllocs
      /\ Chosen(id, r, bs, needed, i, start)
  BY <1>1, <1>2, <1>3 DEF Alloc, IsActive, Chosen
<1>9. /\ needed \in Nat \ {0} /\ start \in Nat
      /\ TableInv(bs, PoolBase(id), pools[id].size, pools[id].encrypt) /\ Growable(bs)
      /\ CarveOK(bs, i, start, start + needed)
  BY <1>8, AllocChoice
<1>10. Written(bs, i, start, start + needed, split, table, cs)
  <2>1. PICK alloc_end : alloc_end = start + needed
    OBVIOUS
  <2>2. alloc_end - start = needed
    BY <1>9, <2>1
  <2>3. Written(bs, i, start, alloc_end, split, table, cs)
    BY <1>4, <1>5, <1>6, <2>1, <2>2 DEF Written
  <2> QED BY <2>1, <2>3
<1>11. /\ table \in Tables /\ Len(cs) = Len(table)
       /\ Carved(bs, cs, i, start, start + needed)
  <2>1. bs \in Tables
    BY <1>9 DEF TableInv
  <2> QED BY <1>9, <1>10, <2>1, TableWritten
<1>12. \/ /\ Len(table) > MaxBlocks
          /\ pools' = [pools EXCEPT ![id].blocks = split] /\ handle' = handle /\ stats' = stats
       \/ ~(Len(table) > MaxBlocks) /\ Handed(h, c, id, cs, start, needed)
  BY <1>1, <1>2, <1>3, <1>4, <1>5, <1>6, <1>7 DEF Alloc, Handed
<1>13. CASE /\ Len(table) > MaxBlocks
            /\ pools' = [pools EXCEPT ![id].blocks = split] /\ handle' = handle /\ stats' = stats
  <2>1. FullBetweenHoles(pools[id].blocks, i, start, start + needed, split)
    BY <1>8, <1>9, <1>10, <1>13 DEF FullBetweenHoles, Written, Chosen
  <2> QED BY <1>8, <1>13, <2>1, AllocFailedInv
<1>14. CASE ~(Len(table) > MaxBlocks) /\ Handed(h, c, id, cs, start, needed)
  <2>1. Len(table) \in Nat /\ MaxBlocks \in Nat
    BY <1>11, TableSlots, SpmpConstants
  <2>2. Len(cs) <= MaxBlocks
    BY <1>11, <1>14, <2>1
  <2>3. Allocated(pools[id].blocks, cs, i, start, needed)
    BY <1>8, <1>9, <1>11, <2>2 DEF Allocated, Chosen
  <2> QED BY <1>8, <1>14, <2>3, AllocDoneInv
<1>15. QED
  BY <1>12, <1>13, <1>14

\* Slot i of pool id stops being a live block, and no other does.
OneLessLive(id, i) ==
  LET bs == pools[id].blocks
      cs == pools'[id].blocks
  IN /\ DOMAIN pools' = DOMAIN pools /\ (pools'[id].active <=> pools[id].active)
     /\ \A j \in DOMAIN pools \ {id} : pools'[j] = pools[j]
     /\ Live(cs) = Live(bs) \ {i} /\ i \in Live(bs)
     /\ \A k \in Live(bs) \ {i} : cs[k] = bs[k] /\ bs[k].addr # bs[i].addr

LEMMA FreedHandles ==
  ASSUME Inv, NEW c \in Clients, NEW id \in DOMAIN pools, HoldsIn(c, id), NEW i,
         OneLessLive(id, i), Names(handle[c], pools[id].blocks[i]),
         handle' = [handle EXCEPT ![c] = NoHandle]
  PROVE  HandlesInv'
<1>1. /\ handle \in [Clients -> {NoHandle} \cup Allocations]
      /\ \A d \in Clients : handle[d] # NoHandle => handle[d].pool_id \in DOMAIN pools
  BY DEF Inv, HandlesInv
<1>2. /\ DOMAIN pools' = DOMAIN pools /\ (pools'[id].active <=> pools[id].active)
      /\ \A j \in DOMAIN pools \ {id} : pools'[j] = pools[j]
      /\ Live(pools'[id].blocks) = Live(pools[id].blocks) \ {i}
      /\ \A k \in Live(pools[id].blocks) \ {i} :
           /\ pools'[id].blocks[k] = pools[id].blocks[k]
           /\ pools[id].blocks[k].addr # pools[id].blocks[i].addr
  BY DEF OneLessLive
<1>3. /\ handle' \in [Clients -> {NoHandle} \cup Allocations]
      /\ handle'[c] = NoHandle /\ \A d \in Clients \ {c} : handle'[d] = handle[d]
  BY <1>1
<1>4. \A j \in DOMAIN pools : pools'[j].active <=> pools[j].active
  BY <1>2
<1>5. ASSUME NEW d \in Clients \ {c}, NEW j PROVE HoldsIn(d, j)' <=> HoldsIn(d, j)
  BY <1>1, <1>2, <1>3, <1>4 DEF HoldsIn, Holds, IsActive
<1>6. ASSUME NEW j PROVE ~HoldsIn(c, j)'
  BY <1>3 DEF HoldsIn, Holds
<1>7. ASSUME NEW d \in Clients, NEW j \in DOMAIN pools, HoldsIn(d, j)'
      PROVE  \E k \in Live(pools'[j].blocks) : Names(handle'[d], pools'[j].blocks[k])
  <2>1. d # c /\ HoldsIn(d, j)
    BY <1>5, <1>6, <1>7
  <2>2. PICK k \in Live(pools[j].blocks) : Names(handle[d], pools[j].blocks[k])
    BY <2>1 DEF Inv, HandlesInv
  <2>3. CASE j = id
    <3>1. handle[d].addr # handle[c].addr
      BY <2>1, <2>3 DEF Inv, HandlesInv
    <3>2. k # i
      BY <2>2, <2>3, <3>1 DEF Names
    <3> QED BY <1>2, <1>3, <2>1, <2>2, <2>3, <3>2
  <2>4. CASE j # id
    BY <1>2, <1>3, <2>1, <2>2, <2>4
  <2> QED BY <2>3, <2>4
<1>8. ASSUME NEW j \in DOMAIN pools, NEW k \in Live(pools'[j].blocks)
      PROVE  \E d \in Clients : HoldsIn(d, j)' /\ Names(handle'[d], pools'[j].blocks[k])
  <2>1. k \in Live(pools[j].blocks) /\ pools'[j].blocks[k] = pools[j].blocks[k]
    BY <1>2
  <2>2. PICK d \in Clients : HoldsIn(d, j) /\ Names(handle[d], pools[j].blocks[k])
    BY <2>1 DEF Inv, HandlesInv
  <2>3. d # c
    <3>1. SUFFICES ASSUME d = c PROVE FALSE
      OBVIOUS
    <3>2. j = id
      BY <2>2, <3>1 DEF HoldsIn
    <3>3. pools[id].blocks[k].addr # pools[id].blocks[i].addr
      BY <1>2, <3>2
    <3> QED BY <2>2, <3>1, <3>2, <3>3 DEF Names
  <2> QED BY <1>3, <1>5, <2>1, <2>2, <2>3
<1>9. ASSUME NEW d \in Clients, NEW e \in Clients, NEW j \in DOMAIN pools,
             HoldsIn(d, j)', HoldsIn(e, j)', d # e
      PROVE  handle'[d].addr # handle'[e].addr
  BY <1>3, <1>5, <1>6, <1>9 DEF Inv, HandlesInv
<1>10. \A d \in Clients : handle'[d] # NoHandle => handle'[d].pool_id \in DOMAIN pools'
  BY <1>1, <1>2, <1>3
<1>11. QED
  BY <1>2, <1>3, <1>7, <1>8, <1>9, <1>10 DEF HandlesInv

LEMMA FreedStats ==
  ASSUME Inv, NEW c \in Clients, handle[c] # NoHandle,
         handle' = [handle EXCEPT ![c] = NoHandle], stats' = [stats EXCEPT !.frees = @ + 1]
  PROVE  StatsInv'
<1>1. handle \in [Clients -> {NoHandle} \cup Allocations]
  BY DEF Inv, HandlesInv
<1>2. Owning' = Owning \ {c} /\ c \in Owning
  BY <1>1 DEF Owning
<1>3. /\ IsFiniteSet(Owning) /\ Cardinality(Owning) \in Nat
      /\ stats.allocs \in Nat /\ stats.allocs <= MaxAllocs /\ stats.frees \in Nat
      /\ MaxAllocs \in Nat
      /\ stats = [allocs |-> stats.allocs, frees |-> stats.frees]
      /\ stats.frees + Cardinality(Owning) <= stats.allocs
  BY StatsFinite DEF Inv, StatsInv
<1>4. Cardinality(Owning') = Cardinality(Owning) - 1
  <2>1. PICK S : S = Owning
    OBVIOUS
  <2>2. Cardinality(S \ {c}) = IF c \in S THEN Cardinality(S) - 1 ELSE Cardinality(S)
    BY <1>3, <2>1, FS_RemoveElement
  <2> QED BY <1>2, <2>1, <2>2
<1>5. stats' = [allocs |-> stats.allocs, frees |-> stats.frees + 1]
  BY <1>3
<1>6. QED
  BY <1>3, <1>4, <1>5 DEF StatsInv

\* spmp_free finds the block its handle names.
LEMMA SlotOfHandle ==
  ASSUME Inv, NEW c \in Clients, NEW id \in DOMAIN pools, HoldsIn(c, id)
  PROVE  /\ SlotOf(handle[c], pools[id].blocks) \in Live(pools[id].blocks)
         /\ Names(handle[c], pools[id].blocks[SlotOf(handle[c], pools[id].blocks)])
<1> PICK bs : bs = pools[id].blocks
  OBVIOUS
<1> PICK h : h = handle[c]
  OBVIOUS
<1>1. bs \in Tables
  BY PoolTypes DEF Inv
<1>2. PICK k \in Live(bs) : Names(h, bs[k])
  BY DEF Inv, HandlesInv
<1>3. k \in DOMAIN bs /\ bs[k].in_use /\ h.size > 0
  BY <1>2 DEF Live, Solid, Names
<1>4. PICK i : i = SlotOf(h, bs)
  OBVIOUS
<1>5. i \in DOMAIN bs /\ bs[i].in_use /\ bs[i].addr = h.addr /\ bs[i].size = h.size
  BY <1>1, <1>2, <1>3, <1>4, SlotFound DEF Names
<1>6. i \in Live(bs)
  BY <1>3, <1>5 DEF Live, Solid
<1>7. QED
  BY <1>4, <1>5, <1>6 DEF Names

\* No two live blocks have one address.
LEMMA LiveAddresses ==
  ASSUME NEW bs, NEW base, NEW size, NEW encrypt, TableInv(bs, base, size, encrypt),
         NEW k \in Live(bs), NEW l \in Live(bs), k # l
  PROVE  bs[k].addr # bs[l].addr
<1>1. /\ k \in DOMAIN bs /\ l \in DOMAIN bs /\ bs \in Tables
      /\ Disjoint(bs[k], bs[l]) /\ bs[k].size > 0 /\ bs[l].size > 0
  BY DEF TableInv, Live, Solid
<1>2. QED
  BY <1>1, TableSlots DEF Disjoint, End

\* spmp_free.
LEMMA FreeInv ==
  ASSUME Inv, NEW c \in Clients, Free(c)
  PROVE  Inv'
<1>1. PICK id \in DOMAIN pools : id = handle[c].pool_id /\ pools[id].active /\ HoldsIn(c, id)
                                 /\ handle[c] # NoHandle
  BY DEF Free, Holds, IsActive, HoldsIn
<1> PICK p : p = pools[id]
  OBVIOUS
<1> PICK bs : bs = p.blocks
  OBVIOUS
<1> PICK i : i = SlotOf(handle[c], bs)
  OBVIOUS
<1> PICK cs : cs = PoolCoalesce(Released(p, i))
  OBVIOUS
<1>2. /\ pools' = [pools EXCEPT ![id].blocks = cs, ![id].used = UsedAfterFree(p, i)]
      /\ handle' = [handle EXCEPT ![c] = NoHandle]
      /\ stats' = [stats EXCEPT !.frees = @ + 1]
  BY <1>1 DEF Free
<1>3. i \in Live(bs) /\ Names(handle[c], bs[i])
  BY <1>1, SlotOfHandle
<1>4. /\ PoolBase(id) \in Nat /\ p.size \in Nat /\ p.encrypt \in BOOLEAN /\ p \in PoolRecord
      /\ TableInv(bs, PoolBase(id), p.size, p.encrypt) /\ bs \in Tables
      /\ p.used = Cardinality(LiveBytes(bs)) /\ p.used \in Nat
  BY <1>1, PoolTypes DEF Inv, PoolsInv, PoolInv
<1>5. /\ TableInv(cs, PoolBase(id), p.size, p.encrypt)
      /\ Live(cs) = Live(bs) \ {i}
      /\ \A k \in Live(cs) : cs[k] = bs[k]
      /\ LiveBytes(bs) = LiveBytes(cs) \cup Bytes(bs[i])
      /\ LiveBytes(cs) \cap Bytes(bs[i]) = {}
  BY <1>3, <1>4, FreeTable
<1>6. UsedAfterFree(p, i) = Cardinality(LiveBytes(cs))
  <2>1. i \in DOMAIN bs /\ bs[i].addr \in Nat /\ bs[i].size \in Nat
    BY <1>3, <1>4, TableSlots DEF Live, Solid
  <2>2. IsFiniteSet(Bytes(bs[i])) /\ Cardinality(Bytes(bs[i])) = bs[i].size
    BY <2>1, BlockSize
  <2>3. IsFiniteSet(LiveBytes(cs)) /\ Cardinality(LiveBytes(cs)) \in Nat
    BY <1>4, <1>5, LiveSize
  <2>4. p.used = Cardinality(LiveBytes(cs)) + bs[i].size
    BY <1>4, <1>5, <2>2, <2>3, DisjointUnion
  <2> QED BY <2>1, <2>3, <2>4 DEF UsedAfterFree
<1>7. NewTableOf(id, cs)
  BY <1>2, <1>6 DEF NewTableOf
<1>8. /\ PoolsInv' /\ DOMAIN pools' = DOMAIN pools
      /\ pools'[id].blocks = cs /\ (pools'[id].active <=> pools[id].active)
      /\ \A j \in DOMAIN pools \ {id} : pools'[j] = pools[j]
  BY <1>1, <1>5, <1>7, TableStep
<1>9. OneLessLive(id, i)
  <2>1. \A k \in Live(bs) \ {i} : bs[k].addr # bs[i].addr
    BY <1>3, <1>4, LiveAddresses
  <2> QED BY <1>3, <1>5, <1>8, <2>1 DEF OneLessLive
<1>10. HandlesInv'
  BY <1>1, <1>2, <1>3, <1>9, FreedHandles
<1>11. StatsInv'
  BY <1>1, <1>2, FreedStats
<1>12. QED
  BY <1>8, <1>10, <1>11 DEF Inv

\* spmp_encrypt and spmp_decrypt.
LEMMA EncryptInv ==
  ASSUME Inv, NEW addr, NEW on \in BOOLEAN, SetEncryption(addr, on)
  PROVE  Inv'
<1> DEFINE hits == {id \in DOMAIN pools : BlocksContaining(id, addr) # {}}
<1>1. PICK id \in DOMAIN pools : id = Min(hits) /\ BlocksContaining(id, addr) # {}
  <2>1. hits \in SUBSET Nat /\ hits # {}
    BY PoolTypes DEF Inv, SetEncryption
  <2>2. Min(hits) \in hits
    <3> HIDE DEF hits
    <3> QED BY <2>1, MinIsLeast
  <2> QED BY <2>2
<1> PICK p : p = pools[id]
  OBVIOUS
<1> PICK bs : bs = p.blocks
  OBVIOUS
<1>2. p \in PoolRecord /\ bs \in Tables /\ DOMAIN bs = 1 .. Len(bs) /\ p.active \in BOOLEAN
  BY PoolTypes, TableSlots DEF Inv
<1>3. PICK i : i = Min(BlocksContaining(id, addr)) /\ i \in BlocksContaining(id, addr)
  <2>1. BlocksContaining(id, addr) \in SUBSET Nat
    BY <1>2 DEF BlocksContaining
  <2> QED BY <1>1, <2>1, MinIsLeast
<1>4. i \in DOMAIN bs /\ bs[i].in_use /\ addr \in bs[i].addr .. End(bs[i]) - 1
  BY <1>3 DEF BlocksContaining
<1>5. i \in Live(bs)
  <2>1. bs[i].addr \in Nat /\ bs[i].size \in Nat
    BY <1>2, <1>4, TableSlots
  <2> QED BY <1>4, <2>1 DEF Live, Solid, End
<1>6. p.active
  <2>1. ~p.active => bs = << >>
    BY DEF Inv, PoolsInv, PoolInv
  <2> QED BY <1>4, <2>1
<1>7. /\ PoolBase(id) \in Nat /\ p.size \in Nat /\ p.encrypt \in BOOLEAN
      /\ TableInv(bs, PoolBase(id), p.size, p.encrypt)
  BY <1>6, PoolTypes DEF Inv, PoolsInv, PoolInv
<1>8. PICK cs : cs = [bs EXCEPT ![i].encrypted = on]
  OBVIOUS
<1>9. TableInv(cs, PoolBase(id), p.size, p.encrypt) /\ SameLive(bs, cs)
  BY <1>5, <1>7, <1>8, FlaggedInv DEF SameLive
<1>10. pools' = [pools EXCEPT ![id].blocks = cs] /\ handle' = handle /\ stats' = stats
  BY <1>1, <1>3, <1>8 DEF SetEncryption
<1>11. QED
  BY <1>6, <1>9, <1>10, SameLiveInv

\* The invariant is inductive.
LEMMA NextInv == Inv /\ [Next]_vars => Inv'
<1> SUFFICES ASSUME Inv, [Next]_vars PROVE Inv'
  OBVIOUS
<1>1. CASE \E cfg \in PoolConfigs : PoolCreate(cfg)
  BY <1>1, CreateInv
<1>2. CASE \E id \in 1 .. MaxPools : PoolDestroy(id)
  BY <1>2, DestroyInv
<1>3. CASE \E c \in Clients, id \in 1 .. MaxPools, r \in Requests : Alloc(c, id, r[1], r[2])
  BY <1>3, AllocInv
<1>4. CASE \E c \in Clients : Free(c)
  BY <1>4, FreeInv
<1>5. CASE EncryptDecrypt
  BY <1>5, EncryptInv DEF EncryptDecrypt
<1>6. CASE UNCHANGED vars
  <2>1. pools' = pools /\ handle' = handle /\ stats' = stats
    BY <1>6 DEF vars
  <2>2. \A c, id : HoldsIn(c, id)' <=> HoldsIn(c, id)
    BY <2>1 DEF HoldsIn, Holds, IsActive
  <2>3. PoolsInv'
    BY <2>1 DEF Inv, PoolsInv
  <2>4. HandlesInv'
    BY <2>1, <2>2 DEF Inv, HandlesInv
  <2>5. StatsInv'
    BY <2>1 DEF Inv, StatsInv, Owning
  <2> QED BY <2>3, <2>4, <2>5 DEF Inv
<1>7. QED
  BY <1>1, <1>2, <1>3, <1>4, <1>5, <1>6 DEF Next

\* The inductive invariant, from Spec.
THEOREM Invariance == Spec => []Inv
<1>1. Init => Inv
  BY InitInv
<1>2. Inv /\ [Next]_vars => Inv'
  BY NextInv
<1>3. QED
  BY <1>1, <1>2, PTL DEF Spec

-----------------------------------------------------------------------------
(* What the invariant implies.                                              *)

\* The table of a pool that exists, and of one that was destroyed.
LEMMA PoolTables ==
  ASSUME Inv, NEW id \in DOMAIN pools
  PROVE  /\ PoolBase(id) \in Nat /\ pools[id].size \in Nat /\ pools[id].encrypt \in BOOLEAN
         /\ \/ /\ pools[id].active
               /\ TableInv(pools[id].blocks, PoolBase(id), pools[id].size, pools[id].encrypt)
               /\ pools[id].used = Cardinality(LiveBytes(pools[id].blocks))
            \/ ~pools[id].active /\ pools[id].blocks = << >> /\ pools[id].used = 0
  BY PoolTypes DEF Inv, PoolsInv, PoolInv

LEMMA NoSlots == Solid(<< >>) = {} /\ Live(<< >>) = {} /\ LiveBytes(<< >>) = {}
  BY DEF Solid, Live, LiveBytes, BytesOf

LEMMA TypesHold == Inv => TypeOK
<1> SUFFICES ASSUME Inv PROVE TypeOK
  OBVIOUS
<1>1. /\ Len(pools) <= MaxPools /\ handle \in [Clients -> {NoHandle} \cup Allocations]
  BY DEF Inv, PoolsInv, HandlesInv
<1>2. stats \in [allocs : 0 .. MaxAllocs, frees : 0 .. MaxAllocs]
  <2>1. /\ Cardinality(Owning) \in Nat /\ stats.allocs \in Nat /\ stats.allocs <= MaxAllocs
        /\ stats.frees \in Nat /\ MaxAllocs \in Nat
        /\ stats = [allocs |-> stats.allocs, frees |-> stats.frees]
        /\ stats.frees + Cardinality(Owning) <= stats.allocs
    BY StatsFinite DEF Inv, StatsInv
  <2>2. stats.allocs \in 0 .. MaxAllocs /\ stats.frees \in 0 .. MaxAllocs
    BY <2>1
  <2> QED BY <2>1, <2>2
<1>3. ASSUME NEW id \in DOMAIN pools
      PROVE  /\ pools[id].size \in Nat /\ pools[id].used \in Nat
             /\ pools[id].active \in BOOLEAN /\ pools[id].encrypt \in BOOLEAN
             /\ pools[id].blocks \in Seq(BlockRecord) /\ Len(pools[id].blocks) <= MaxBlocks
  <2>1. /\ pools[id].size \in Nat /\ pools[id].used \in Nat
        /\ pools[id].active \in BOOLEAN /\ pools[id].encrypt \in BOOLEAN
        /\ pools[id].blocks \in Seq(BlockRecord)
    BY PoolTypes DEF Inv, Tables
  <2>2. \/ TableInv(pools[id].blocks, PoolBase(id), pools[id].size, pools[id].encrypt)
        \/ pools[id].blocks = << >>
    BY PoolTables
  <2>3. Len(pools[id].blocks) <= MaxBlocks
    <3>1. Len(<< >>) = 0 /\ MaxBlocks \in Nat
      BY SpmpConstants
    <3> QED BY <2>2, <3>1 DEF TableInv
  <2> QED BY <2>1, <2>3
<1>4. QED
  BY <1>1, <1>2, <1>3 DEF TypeOK

LEMMA DisjointHolds == Inv => LiveDisjoint
<1> SUFFICES ASSUME Inv, NEW id \in DOMAIN pools, NEW i \in Live(pools[id].blocks)
             PROVE  /\ PoolBase(id) <= pools[id].blocks[i].addr
                    /\ End(pools[id].blocks[i]) <= PoolBase(id) + pools[id].size
                    /\ \A j \in Solid(pools[id].blocks) \ {i} :
                         Disjoint(pools[id].blocks[i], pools[id].blocks[j])
  BY DEF LiveDisjoint
<1> PICK bs : bs = pools[id].blocks
  OBVIOUS
<1>1. /\ PoolBase(id) \in Nat /\ pools[id].size \in Nat /\ pools[id].encrypt \in BOOLEAN
      /\ TableInv(bs, PoolBase(id), pools[id].size, pools[id].encrypt)
  BY PoolTables, NoSlots
<1>2. QED
  BY <1>1, LiveApart

LEMMA TilesHold == Inv => TilesUntilFull
<1> SUFFICES ASSUME Inv, NEW id \in DOMAIN pools, IsActive(id), Growable(pools[id].blocks)
             PROVE  /\ BytesOf(pools[id].blocks, Solid(pools[id].blocks))
                         = PoolBase(id) .. PoolBase(id) + pools[id].size - 1
                    /\ \A i, j \in Solid(pools[id].blocks) :
                         i # j => Disjoint(pools[id].blocks[i], pools[id].blocks[j])
  BY DEF TilesUntilFull
<1>1. /\ PoolBase(id) \in Nat /\ pools[id].size \in Nat /\ pools[id].encrypt \in BOOLEAN
      /\ TableInv(pools[id].blocks, PoolBase(id), pools[id].size, pools[id].encrypt)
  BY PoolTables DEF IsActive
<1>2. QED
  BY <1>1, SolidTiles DEF Range0

LEMMA CoalescedHolds == Inv => FullyCoalesced
<1> SUFFICES ASSUME Inv, NEW id \in DOMAIN pools, Growable(pools[id].blocks),
                    NEW i \in Solid(pools[id].blocks), NEW j \in Solid(pools[id].blocks)
             PROVE  ~Adjacent(pools[id].blocks[i], pools[id].blocks[j])
  BY DEF FullyCoalesced
<1>1. TableInv(pools[id].blocks, PoolBase(id), pools[id].size, pools[id].encrypt)
  BY PoolTables, NoSlots
<1>2. QED
  BY <1>1 DEF TableInv, NoneTouch, Solid

LEMMA ForgetsHold == Inv => FreeForgetsEncryption
<1> SUFFICES ASSUME Inv, NEW id \in DOMAIN pools,
                    NEW i \in Solid(pools[id].blocks) \ Live(pools[id].blocks),
                    pools[id].blocks[i].encrypted
             PROVE  Len(pools[id].blocks) = 1 /\ pools[id].encrypt
  BY DEF FreeForgetsEncryption
<1>1. TableInv(pools[id].blocks, PoolBase(id), pools[id].size, pools[id].encrypt)
  BY PoolTables, NoSlots
<1>2. i \in FreeSlots(pools[id].blocks)
  BY <1>1, SlotKinds DEF TableInv
<1>3. QED
  BY <1>1, <1>2 DEF TableInv

LEMMA HandlesHold == Inv => HandlesMatchLiveBlocks
<1> SUFFICES ASSUME Inv, NEW id \in DOMAIN pools
             PROVE  LET blocks == pools[id].blocks
                        held == {c \in Clients : Holds(c) /\ handle[c].pool_id = id}
                        slot(c) == SlotOf(handle[c], blocks)
                    IN /\ pools[id].used = Cardinality(BytesOf(blocks, Live(blocks)))
                       /\ IsActive(id) => /\ {slot(c) : c \in held} = Live(blocks)
                                          /\ \A c, d \in held : c # d => slot(c) # slot(d)
  BY DEF HandlesMatchLiveBlocks
<1> PICK bs : bs = pools[id].blocks
  OBVIOUS
<1> DEFINE slot(c) == SlotOf(handle[c], bs)
           held == {c \in Clients : HoldsIn(c, id)}
<1>1. pools[id].used = Cardinality(BytesOf(bs, Live(bs)))
  BY PoolTables, NoSlots, FS_EmptySet DEF LiveBytes
<1>2. ASSUME NEW c \in held PROVE slot(c) \in Live(bs) /\ Names(handle[c], bs[slot(c)])
  BY SlotOfHandle
<1>3. ASSUME NEW c \in held, NEW d \in held, c # d PROVE slot(c) # slot(d)
  <2>1. handle[c].addr # handle[d].addr
    BY <1>3 DEF Inv, HandlesInv
  <2> QED BY <1>2, <2>1 DEF Names
<1>4. ASSUME NEW k \in Live(bs), IsActive(id) PROVE \E c \in held : slot(c) = k
  <2>1. PICK c \in held : Names(handle[c], bs[k])
    BY DEF Inv, HandlesInv
  <2>2. TableInv(bs, PoolBase(id), pools[id].size, pools[id].encrypt)
    BY <1>4, PoolTables DEF IsActive
  <2>3. slot(c) \in Live(bs) /\ bs[slot(c)].addr = bs[k].addr
    BY <1>2, <2>1 DEF Names
  <2>4. slot(c) = k
    <3> HIDE DEF slot
    <3> QED BY <2>2, <2>3, LiveAddresses
  <2> QED BY <2>1, <2>4
<1>5. IsActive(id) => {slot(c) : c \in held} = Live(bs)
  <2> HIDE DEF slot, held
  <2> QED BY <1>2, <1>4
<1>6. QED
  BY <1>1, <1>3, <1>5 DEF HoldsIn

LEMMA RefusesHold == Inv => RefusedOnlyWhenNoRoom
<1> SUFFICES ASSUME Inv, NEW id \in DOMAIN pools, NEW r \in Requests, IsActive(id),
                    BlockNextFree(pools[id].blocks, Needed(r[1]), r[2]) = 0,
                    Growable(pools[id].blocks),
                    NEW a \in PoolBase(id) .. PoolBase(id) + pools[id].size - Needed(r[1]),
                    a % Max({r[2], BlockAlign}) = 0
             PROVE  \E i \in Live(pools[id].blocks) :
                      ~Disjoint(Hole(a, Needed(r[1])), pools[id].blocks[i])
  BY DEF RefusedOnlyWhenNoRoom
<1>1. /\ PoolBase(id) \in Nat /\ pools[id].size \in Nat /\ pools[id].encrypt \in BOOLEAN
      /\ TableInv(pools[id].blocks, PoolBase(id), pools[id].size, pools[id].encrypt)
  BY PoolTables DEF IsActive
<1>2. r[1] \in Nat /\ r[2] \in Nat
  BY SpmpConstants
<1>3. Needed(r[1]) \in Nat \ {0}
  BY <1>2, NeededPositive
<1>4. QED
  BY <1>1, <1>2, <1>3, RunRefused

-----------------------------------------------------------------------------
(* The properties of Spmp, for every value of its constants.                *)

\* The structures spmp.c keeps stay well formed: no table outgrows
\* SPMP_MAX_BLOCKS, and spmp_free never counts more frees than allocations.
THEOREM TypeCorrect == Spec => []TypeOK
  BY Invariance, TypesHold, PTL

\* spmp_alloc hands out bytes of the pool that no other block of the table covers.
THEOREM AllocationsApart == Spec => []LiveDisjoint
  BY Invariance, DisjointHolds, PTL

\* Splits and merges lose no byte and count none twice while the table can grow.
THEOREM BlocksTile == Spec => []TilesUntilFull
  BY Invariance, TilesHold, PTL

\* One pass of pool_coalesce leaves no two free blocks that touch, whatever
\* the number of slots and their order.
THEOREM OnePassCoalesces == Spec => []FullyCoalesced
  BY Invariance, CoalescedHolds, PTL

\* Every struct spmp_allocation that may still be freed is one live block of the
\* table, each live block has one, and the used counter is their bytes.
THEOREM HandlesMatch == Spec => []HandlesMatchLiveBlocks
  BY Invariance, HandlesHold, PTL

\* spmp_free clears the encryption flag, and no merge brings it back.
THEOREM EncryptionForgotten == Spec => []FreeForgetsEncryption
  BY Invariance, ForgetsHold, PTL

\* spmp_alloc answers -ENOMEM only when no aligned run of bytes could serve the
\* request, as long as the table can grow.
THEOREM RefusalsJustified == Spec => []RefusedOnlyWhenNoRoom
  BY Invariance, RefusesHold, PTL
=============================================================================
