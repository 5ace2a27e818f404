----------------------------- MODULE HostProofs ------------------------------
(* What the assembler, the emulated caches and the reference server promise,  *)
(* for every value of the constants: launching a kernel by name runs it as it *)
(* was written, the caches implement LineCache, and transfers served one at a *)
(* time add up.  An inductive invariant for each, one lemma per step of the   *)
(* program, and the theorems.                                                *)
EXTENDS Host, Sums, SequenceTheorems

-----------------------------------------------------------------------------
(* The caches.                                                              *)

CoreCaches == CacheEmulator!L1I \cup CacheEmulator!L1D
AllCaches == CacheEmulator!Caches
U == CacheEmulator!UsedSets
SetIds == 0 .. Sets - 1
WayIds == 1 .. Ways

LEMMA CacheNumbers ==
  /\ Sets \in Nat \ {0} /\ Ways \in Nat \ {0} /\ MaxAccesses \in Nat /\ Zero \in Values
  /\ \A l \in Lines : l \in Nat
  /\ IsFiniteSet(Cores)
  BY CacheConstants

LEMMA FirstWay == 1 \in WayIds /\ \A w \in WayIds : w \in Nat /\ 1 <= w
  BY CacheNumbers DEF WayIds

LEMMA CacheNames ==
  /\ CoreCaches \subseteq AllCaches
  /\ \A core \in Cores : <<"l1i", core>> \in CoreCaches /\ <<"l1d", core>> \in CoreCaches
  BY DEF CoreCaches, AllCaches, CacheEmulator!Caches, CacheEmulator!L1I, CacheEmulator!L1D

LEMMA CachesFinite == IsFiniteSet(AllCaches)
<1>1. IsFiniteSet({"l1i"}) /\ IsFiniteSet({"l1d"}) /\ IsFiniteSet({"shared"}) /\ IsFiniteSet({"l2"})
      /\ IsFiniteSet({"l3"})
  BY FS_Singleton
<1>2. IsFiniteSet({"l2"} \cup {"l3"})
  BY <1>1, FS_Union
<1>3. {"l2", "l3"} = {"l2"} \cup {"l3"}
  OBVIOUS
<1>4. /\ IsFiniteSet({"l1i"} \X Cores) /\ IsFiniteSet({"l1d"} \X Cores)
      /\ IsFiniteSet({"l2", "l3"} \X {"shared"})
  BY <1>1, <1>2, <1>3, CacheNumbers, FS_Product
<1>5. QED
  BY <1>4, FS_Union
     DEF AllCaches, CacheEmulator!Caches, CacheEmulator!L1I, CacheEmulator!L1D, CacheEmulator!Lower

\* The sets that addresses select.
LEMMA GreatestOfSet ==
  ASSUME NEW S \in SUBSET Int, S # {}, NEW b \in Nat, \A x \in S : x <= b
  PROVE  CacheEmulator!Max(S) \in S /\ \A x \in S : CacheEmulator!Max(S) >= x
<1> DEFINE D == {n \in Nat : \E x \in S : n = b - x}
<1>1. PICK x \in S : x \in Int /\ x <= b
  OBVIOUS
<1>2. b - x \in D
  BY <1>1
<1>3. PICK m \in D : \A n \in D : m <= n
  BY <1>2, LeastNat
<1>4. PICK y \in S : m = b - y /\ y \in Int
  BY <1>3
<1>5. \A z \in S : y >= z
  <2> SUFFICES ASSUME NEW z \in S PROVE y >= z
    OBVIOUS
  <2>1. z \in Int /\ z <= b
    OBVIOUS
  <2>2. b - z \in D
    BY <2>1
  <2>3. m <= b - z
    BY <1>3, <2>2
  <2> HIDE DEF D
  <2> QED BY <1>4, <2>1, <2>3
<1>6. QED
  BY <1>5 DEF CacheEmulator!Max

LEMMA UsedSetsAre == U \in Nat \ {0} /\ U <= Sets
<1> DEFINE Powers == {2 ^ k : k \in 0 .. Sets}
           S == {n \in Powers : n <= Sets}
<1>1. \A k \in 0 .. Sets : 2 ^ k \in Int
  <2>1. \A k \in Nat : 2 ^ k \in Int
    OBVIOUS
  <2>2. \A k \in 0 .. Sets : k \in Nat
    BY CacheNumbers
  <2> QED BY <2>1, <2>2
<1>2. Powers \subseteq Int
  BY <1>1
<1>3. 1 \in S
  <2>1. 2 ^ 0 = 1
    OBVIOUS
  <2>2. 0 \in 0 .. Sets /\ 1 <= Sets
    BY CacheNumbers
  <2> QED BY <2>1, <2>2
<1>4. S \in SUBSET Int /\ S # {} /\ \A n \in S : n <= Sets
  BY <1>2, <1>3
<1>5. U = CacheEmulator!Max(S)
  BY DEF U, CacheEmulator!UsedSets
<1> HIDE DEF S
<1>6. U \in S
  BY <1>4, <1>5, CacheNumbers, GreatestOfSet
<1>7. U >= 1
  <2> DEFINE T == {n \in S : n >= 1}
  <2>1. \A x \in S : U >= x
    <3>1. \A x \in S : CacheEmulator!Max(S) >= x
      BY <1>4, CacheNumbers, GreatestOfSet
    <3> QED BY <1>5, <3>1
  <2> QED BY <1>3, <2>1
<1>8. U \in Int /\ U <= Sets
  BY <1>4, <1>6
<1>9. QED
  BY <1>7, <1>8

\* The line of an address, in the set and with the tag of it.
LEMMA LineOfAddress ==
  ASSUME NEW l \in Lines
  PROVE  /\ l \in Nat
         /\ CacheEmulator!SetOf(l) \in 0 .. U - 1 /\ CacheEmulator!SetOf(l) \in SetIds
         /\ CacheEmulator!TagOf(l) \in Nat
         /\ \A tag \in Nat :
              tag * U + CacheEmulator!SetOf(l) = l <=> tag = CacheEmulator!TagOf(l)
<1>1. l \in Nat /\ U \in Nat \ {0} /\ U <= Sets /\ Sets \in Nat
  BY CacheNumbers, UsedSetsAre
<1>2. CacheEmulator!SetOf(l) = l % U /\ CacheEmulator!TagOf(l) = l \div U
  BY DEF CacheEmulator!SetOf, CacheEmulator!TagOf, U
<1>3. \A a \in Nat, u \in Nat \ {0} : a \div u \in Nat /\ a % u \in 0 .. u - 1
  BY Z3
<1>4. \A a \in Nat, u \in Nat \ {0} : a = (a \div u) * u + (a % u)
  BY Z3
<1>5. \A a, b, s \in Nat, u \in Nat \ {0} : a * u + s = b * u + s => a = b
  OBVIOUS
<1>6. \A u, n \in Nat : u <= n => \A s \in 0 .. u - 1 : s \in 0 .. n - 1 /\ s \in Nat
  OBVIOUS
<1>7. l % U \in 0 .. U - 1 /\ l % U \in SetIds /\ l % U \in Nat /\ l \div U \in Nat
  BY <1>1, <1>3, <1>6 DEF SetIds
<1>8. l = (l \div U) * U + (l % U)
  BY <1>1, <1>4
<1>9. ASSUME NEW tag \in Nat PROVE tag * U + (l % U) = l <=> tag = l \div U
  BY <1>1, <1>5, <1>7, <1>8
<1>10. QED
  BY <1>1, <1>2, <1>7, <1>9

Slots == [valid : BOOLEAN, dirty : BOOLEAN, lru : {0}, tag : Nat, data : Values]
SlotMaps == [SetIds -> [WayIds -> Slots]]

\* Nothing ever raises an lru count, so that only the first way of a set is ever taken.
FirstOnly(slots) == \A s \in SetIds : \A w \in WayIds : w # 1 => ~slots[s][w].valid
Sound(k) ==
  /\ k = [slots |-> k.slots, hits |-> k.hits, misses |-> k.misses]
  /\ k.slots \in SlotMaps /\ k.hits \in Nat /\ k.misses \in Nat
  /\ FirstOnly(k.slots)

\* What set s of a sound cache remembers.
Kept(slot, s) ==
  IF slot.valid THEN [line |-> slot.tag * U + s, val |-> slot.data] ELSE CacheEmulator!NoLine

LEMMA LeastOf ==
  ASSUME NEW S, 1 \in S, \A x \in S : x \in Nat /\ 1 <= x PROVE CacheEmulator!Min(S) = 1
<1>1. \E x \in S : \A y \in S : x <= y
  OBVIOUS
<1>2. CacheEmulator!Min(S) \in S /\ \A y \in S : CacheEmulator!Min(S) <= y
  BY <1>1 DEF CacheEmulator!Min
<1>3. QED
  BY <1>2

LEMMA KeptIs ==
  ASSUME NEW c, Sound(cache[c]), NEW s \in SetIds
  PROVE  CacheEmulator!Remembered(c, s) = Kept(cache[c].slots[s][1], s)
<1> DEFINE live == {w \in WayIds : cache[c].slots[s][w].valid}
           slot == cache[c].slots[s][1]
<1>1. \A w \in live : w = 1
  BY DEF Sound, FirstOnly
<1>2. slot.valid => live = {1} /\ CacheEmulator!Min(live) = 1
  <2> SUFFICES ASSUME slot.valid PROVE live = {1} /\ CacheEmulator!Min(live) = 1
    OBVIOUS
  <2>1. live = {1}
    BY <1>1, FirstWay
  <2> QED BY <2>1, LeastOf
<1>3. ~slot.valid => live = {}
  BY <1>1
<1>4. CacheEmulator!Remembered(c, s) =
        IF live = {} THEN CacheEmulator!NoLine ELSE
          [line |-> cache[c].slots[s][CacheEmulator!Min(live)].tag * U + s,
           val |-> cache[c].slots[s][CacheEmulator!Min(live)].data]
  BY DEF CacheEmulator!Remembered, U, WayIds
<1> HIDE DEF live
<1>5. QED
  BY <1>2, <1>3, <1>4 DEF Kept

\* What find_line finds in a sound cache, and leaves.
Hit(k, l) ==
  LET slot == k.slots[CacheEmulator!SetOf(l)][1] IN slot.valid /\ slot.tag = CacheEmulator!TagOf(l)

LEMMA MatchesFirst ==
  ASSUME NEW c, Sound(cache[c]), NEW l \in Lines
  PROVE  /\ CacheEmulator!Matches(c, l) # {} <=> Hit(cache[c], l)
         /\ Hit(cache[c], l) => CacheEmulator!Min(CacheEmulator!Matches(c, l)) = 1
<1> DEFINE s == CacheEmulator!SetOf(l)
           M == CacheEmulator!Matches(c, l)
<1>1. s \in SetIds
  BY LineOfAddress
<1>2. M = {w \in WayIds : cache[c].slots[s][w].valid
                            /\ cache[c].slots[s][w].tag = CacheEmulator!TagOf(l)}
  BY DEF CacheEmulator!Matches, WayIds
<1> HIDE DEF M
<1>3. \A w \in M : w = 1
  BY <1>1, <1>2 DEF Sound, FirstOnly
<1>4. 1 \in M <=> Hit(cache[c], l)
  BY <1>2, FirstWay DEF Hit
<1>5. 1 \in M => M = {1}
  BY <1>3
<1>6. M # {} <=> 1 \in M
  BY <1>3
<1>7. Hit(cache[c], l) => CacheEmulator!Min(M) = 1
  BY <1>3, <1>4, LeastOf
<1>8. QED
  BY <1>4, <1>6, <1>7 DEF M

LEMMA VictimFirst ==
  ASSUME NEW c, Sound(cache[c]), NEW l \in Lines PROVE CacheEmulator!Victim(c, l) = 1
<1> DEFINE s == CacheEmulator!SetOf(l)
           V == {w \in WayIds : \A v \in WayIds :
                   cache[c].slots[s][w].lru >= cache[c].slots[s][v].lru}
<1>1. s \in SetIds
  BY LineOfAddress
<1>2. \A w \in WayIds : cache[c].slots[s][w].lru = 0
  <2>1. \A w \in WayIds : cache[c].slots[s][w] \in Slots
    BY <1>1 DEF Sound, SlotMaps
  <2>2. \A x \in Slots : x.lru = 0
    BY DEF Slots
  <2> QED BY <2>1, <2>2
<1>3. CacheEmulator!Victim(c, l) = CacheEmulator!Min(V)
  BY DEF CacheEmulator!Victim, WayIds
<1>4. V = WayIds
  BY <1>2
<1> HIDE DEF V
<1>5. QED
  BY <1>3, <1>4, FirstWay, LeastOf

\* The accesses that caches have counted.
Accesses(cs) == [c \in AllCaches |-> cs[c].hits + cs[c].misses]
Total(cs) == SumFunctionOnSet(Accesses(cs), AllCaches)

LEMMA CountedIs == CacheEmulator!Counted = Total(cache)
<1> DEFINE D == AllCaches
           f == Accesses(cache)
           F(g) == [T \in SUBSET D |->
             IF T = {} THEN 0
             ELSE (cache[CHOOSE x \in T : TRUE].hits + cache[CHOOSE x \in T : TRUE].misses)
                    + g[T \ {CHOOSE x \in T : TRUE}]]
           G == CHOOSE g : g = F(g)
<1>1. CacheEmulator!Counted = G[D]
  BY DEF CacheEmulator!Counted, CacheEmulator!MapThenSumSet, CacheEmulator!MapThenFoldSet, AllCaches
<1>2. IsFiniteSet(D)
  BY CachesFinite
<1>3. PICK g : g = [T \in SUBSET D |-> g[T]] /\ SumsUp(f, D, g)
  BY <1>2, SummingExists
<1>4. ASSUME NEW T \in SUBSET D, T # {}
      PROVE  f[CHOOSE x \in T : TRUE] =
               cache[CHOOSE x \in T : TRUE].hits + cache[CHOOSE x \in T : TRUE].misses
  <2>1. (CHOOSE x \in T : TRUE) \in D
    <3> HIDE DEF D
    <3> QED BY <1>4
  <2> QED BY <2>1 DEF Accesses
<1> HIDE DEF D, f
<1>5. g = F(g)
  <2>1. ASSUME NEW T \in SUBSET D
        PROVE  g[T] = IF T = {} THEN 0
                      ELSE (cache[CHOOSE x \in T : TRUE].hits + cache[CHOOSE x \in T : TRUE].misses)
                             + g[T \ {CHOOSE x \in T : TRUE}]
    BY <1>3, <1>4 DEF SumsUp
  <2> QED BY <1>3, <2>1
<1>6. G = F(G)
  BY <1>5
<1> HIDE DEF G
<1>7. SumsUp(f, D, G)
  <2>1. ASSUME NEW T \in SUBSET D
        PROVE  G[T] = IF T = {} THEN 0
                      ELSE (cache[CHOOSE x \in T : TRUE].hits + cache[CHOOSE x \in T : TRUE].misses)
                             + G[T \ {CHOOSE x \in T : TRUE}]
    BY <1>6
  <2> QED BY <1>4, <2>1 DEF SumsUp
<1>8. G[D] = SumFunctionOnSet(f, D)
  BY <1>2, <1>7, SummingSubset
<1>9. QED
  BY <1>1, <1>8 DEF D, f, Total

CachesInv ==
  /\ cache = [c \in AllCaches |-> cache[c]]
  /\ \A c \in AllCaches : Sound(cache[c])
  /\ answer \in Values
  /\ Total(cache) \in Nat /\ Total(cache) <= MaxAccesses

\* A slot of the first way is replaced.
Put(slots, s, slot) == [slots EXCEPT ![s][1] = slot]

LEMMA PutSound ==
  ASSUME NEW k, Sound(k), NEW s \in SetIds, NEW slot \in Slots,
         NEW m, m = [slots |-> m.slots, hits |-> m.hits, misses |-> m.misses],
         m.slots = Put(k.slots, s, slot), m.hits \in Nat, m.misses \in Nat
  PROVE  /\ Sound(m) /\ m.slots[s][1] = slot
         /\ \A r \in SetIds : r # s => m.slots[r][1] = k.slots[r][1]
<1>1. k.slots \in SlotMaps /\ FirstOnly(k.slots)
  BY DEF Sound
<1>2. m.slots \in SlotMaps
  BY <1>1, FirstWay DEF SlotMaps, Put
<1>3. m.slots[s][1] = slot /\ \A r \in SetIds : r # s => m.slots[r] = k.slots[r]
  BY <1>1, FirstWay DEF SlotMaps, Put
<1>4. \A r \in SetIds : \A w \in WayIds : w # 1 => m.slots[r][w] = k.slots[r][w]
  BY <1>1, FirstWay DEF SlotMaps, Put
<1>5. FirstOnly(m.slots)
  BY <1>1, <1>4 DEF FirstOnly
<1>6. QED
  BY <1>2, <1>3, <1>5 DEF Sound

\* What a miss puts in the slot it takes, and what a hit leaves there.
Taken(k, l, write) ==
  LET old == k.slots[CacheEmulator!SetOf(l)][1]
  IN IF Hit(k, l)
     THEN [valid |-> TRUE, dirty |-> old.dirty, lru |-> 0, tag |-> old.tag, data |-> old.data]
     ELSE [valid |-> TRUE, dirty |-> write, lru |-> 0, tag |-> CacheEmulator!TagOf(l), data |-> Zero]

LEMMA TakenIs ==
  ASSUME NEW k, Sound(k), NEW l \in Lines, NEW write \in BOOLEAN
  PROVE  LET slot == Taken(k, l, write)
             old == k.slots[CacheEmulator!SetOf(l)][1]
         IN /\ slot \in Slots /\ old \in Slots
            /\ slot.valid /\ slot.tag = CacheEmulator!TagOf(l)
            /\ slot.data = (IF Hit(k, l) THEN old.data ELSE Zero)
<1> DEFINE slot == Taken(k, l, write)
           old == k.slots[CacheEmulator!SetOf(l)][1]
           tag == CacheEmulator!TagOf(l)
<1>1. old \in Slots
  BY LineOfAddress, FirstWay DEF Sound, SlotMaps
<1>2. tag \in Nat
  BY LineOfAddress
<1>3. Hit(k, l) => old.valid /\ old.tag = tag
  BY DEF Hit
<1>4. slot = IF Hit(k, l)
     THEN [valid |-> TRUE, dirty |-> old.dirty, lru |-> 0, tag |-> old.tag, data |-> old.data]
     ELSE [valid |-> TRUE, dirty |-> write, lru |-> 0, tag |-> tag, data |-> Zero]
  BY DEF Taken
<1> HIDE DEF slot, old, tag
<1>5. slot \in Slots /\ slot.valid /\ slot.tag = tag
      /\ slot.data = (IF Hit(k, l) THEN old.data ELSE Zero)
  <2>1. old.dirty \in BOOLEAN /\ old.tag \in Nat /\ old.data \in Values
    BY <1>1 DEF Slots
  <2>2. Zero \in Values
    BY CacheNumbers
  <2>3. CASE Hit(k, l)
    BY <1>3, <1>4, <2>1, <2>3 DEF Slots
  <2>4. CASE ~Hit(k, l)
    BY <1>2, <1>4, <2>2, <2>4 DEF Slots
  <2> QED BY <2>3, <2>4
<1>6. QED
  BY <1>1, <1>5 DEF slot, old, tag

LEMMA HitMoved ==
  ASSUME NEW a, NEW b, NEW d, NEW k, k = [slots |-> a, hits |-> b, misses |-> d], NEW s,
         NEW m, m = [k EXCEPT !.slots[s][1].lru = 0, !.hits = k.hits + 1]
  PROVE  /\ m = [slots |-> m.slots, hits |-> m.hits, misses |-> m.misses]
         /\ m.slots = [a EXCEPT ![s][1].lru = 0] /\ m.hits = b + 1 /\ m.misses = d
  OBVIOUS

LEMMA MissMoved ==
  ASSUME NEW a, NEW b, NEW d, NEW k, k = [slots |-> a, hits |-> b, misses |-> d], NEW s, NEW slot,
         NEW m, m = [k EXCEPT !.misses = k.misses + 1, !.slots[s][1] = slot]
  PROVE  /\ m = [slots |-> m.slots, hits |-> m.hits, misses |-> m.misses]
         /\ m.slots = [a EXCEPT ![s][1] = slot] /\ m.hits = b /\ m.misses = d + 1
  OBVIOUS

LEMMA SlotMoved ==
  ASSUME NEW x, NEW a, NEW b, NEW d, NEW e, NEW f,
         x = [valid |-> a, dirty |-> b, lru |-> d, tag |-> e, data |-> f],
         NEW y, y = [x EXCEPT !.lru = 0]
  PROVE  y = [valid |-> a, dirty |-> b, lru |-> 0, tag |-> e, data |-> f]
  OBVIOUS

LEMMA FoundLineIs ==
  ASSUME NEW c, Sound(cache[c]), NEW l \in Lines, NEW write \in BOOLEAN
  PROVE  LET found == CacheEmulator!FoundLine(c, l, write)
             k == cache[c]
             m == found.state
         IN /\ found.way = 1
            /\ m = [slots |-> m.slots, hits |-> m.hits, misses |-> m.misses]
            /\ m.slots = Put(k.slots, CacheEmulator!SetOf(l), Taken(k, l, write))
            /\ m.hits \in Nat /\ m.misses \in Nat
            /\ m.hits + m.misses = k.hits + k.misses + 1
<1> DEFINE found == CacheEmulator!FoundLine(c, l, write)
           k == cache[c]
           m == found.state
           s == CacheEmulator!SetOf(l)
           old == k.slots[s][1]
           slot == Taken(k, l, write)
           onHit == [k EXCEPT !.slots[s][1].lru = 0, !.hits = k.hits + 1]
           fresh == [valid |-> TRUE, dirty |-> write, lru |-> 0, tag |-> CacheEmulator!TagOf(l),
                     data |-> Zero]
           onMiss == [k EXCEPT !.misses = k.misses + 1, !.slots[s][1] = fresh]
<1>1. /\ found.way = (IF CacheEmulator!Matches(c, l) # {} THEN CacheEmulator!Min(CacheEmulator!Matches(c, l))
                      ELSE CacheEmulator!Victim(c, l))
  BY DEF CacheEmulator!FoundLine
<1>2. found.way = 1
  BY <1>1, MatchesFirst, VictimFirst
<1>3. CacheEmulator!Matches(c, l) # {} <=> Hit(k, l)
  BY MatchesFirst
<1>4. m = IF CacheEmulator!Matches(c, l) # {} THEN onHit ELSE onMiss
  <2>1. (IF CacheEmulator!Matches(c, l) # {} THEN CacheEmulator!Min(CacheEmulator!Matches(c, l))
         ELSE CacheEmulator!Victim(c, l)) = 1
    BY <1>1, <1>2
  <2>2. \A w : w = 1 =>
          (IF CacheEmulator!Matches(c, l) # {}
           THEN [cache[c] EXCEPT !.slots[s][w].lru = 0, !.hits = @ + 1]
           ELSE [cache[c] EXCEPT !.misses = @ + 1, !.slots[s][w] =
                   CacheEmulator!Slot(TRUE, write, 0, CacheEmulator!TagOf(l), Zero)])
          = (IF CacheEmulator!Matches(c, l) # {} THEN onHit ELSE onMiss)
    BY DEF CacheEmulator!Slot
  <2> QED BY <2>1, <2>2 DEF CacheEmulator!FoundLine
<1>5. /\ k = [slots |-> k.slots, hits |-> k.hits, misses |-> k.misses]
      /\ k.hits \in Nat /\ k.misses \in Nat
  BY DEF Sound
<1>6. ASSUME Hit(k, l)
      PROVE  /\ m = [slots |-> m.slots, hits |-> m.hits, misses |-> m.misses]
             /\ m.slots = Put(k.slots, s, slot) /\ m.hits = k.hits + 1 /\ m.misses = k.misses
  <2>1. m = onHit
    BY <1>3, <1>4, <1>6
  <2>2. onHit = [k EXCEPT !.slots[s][1].lru = 0, !.hits = k.hits + 1]
    OBVIOUS
  <2>3. slot = [old EXCEPT !.lru = 0]
    <3>1. old \in Slots
      BY LineOfAddress, FirstWay DEF Sound, SlotMaps
    <3>2. old = [valid |-> old.valid, dirty |-> old.dirty, lru |-> old.lru, tag |-> old.tag,
                 data |-> old.data] /\ old.valid \in BOOLEAN
      <4> HIDE DEF old
      <4> QED BY <3>1 DEF Slots
    <3>3. old.valid
      BY <1>6 DEF Hit
    <3>4. slot = [valid |-> TRUE, dirty |-> old.dirty, lru |-> 0, tag |-> old.tag, data |-> old.data]
      BY <1>6 DEF Taken
    <3> DEFINE y == [old EXCEPT !.lru = 0]
    <3>5. y = [old EXCEPT !.lru = 0]
      OBVIOUS
    <3> HIDE DEF y, old, slot
    <3>6. y = [valid |-> old.valid, dirty |-> old.dirty, lru |-> 0, tag |-> old.tag, data |-> old.data]
      BY <3>2, <3>5, SlotMoved
    <3>7. old.valid = TRUE
      BY <3>2, <3>3
    <3> QED BY <3>4, <3>5, <3>6, <3>7
  <2> HIDE DEF m, onHit, k
  <2>4. /\ m = [slots |-> m.slots, hits |-> m.hits, misses |-> m.misses]
        /\ m.slots = [k.slots EXCEPT ![s][1].lru = 0] /\ m.hits = k.hits + 1 /\ m.misses = k.misses
    BY <1>5, <2>1, <2>2, HitMoved
  <2>5. [k.slots EXCEPT ![s][1].lru = 0] = Put(k.slots, s, [k.slots[s][1] EXCEPT !.lru = 0])
    BY DEF Put
  <2>6. [k.slots EXCEPT ![s][1].lru = 0] = Put(k.slots, s, slot)
    BY <2>3, <2>5
  <2> QED BY <2>4, <2>6
<1>7. ASSUME ~Hit(k, l)
      PROVE  /\ m = [slots |-> m.slots, hits |-> m.hits, misses |-> m.misses]
             /\ m.slots = Put(k.slots, s, slot) /\ m.hits = k.hits /\ m.misses = k.misses + 1
  <2>1. m = onMiss /\ onMiss = [k EXCEPT !.misses = k.misses + 1, !.slots[s][1] = fresh]
    BY <1>3, <1>4, <1>7
  <2>2. slot = fresh
    BY <1>7 DEF Taken
  <2> HIDE DEF m, onMiss, k, fresh, slot
  <2>3. /\ m = [slots |-> m.slots, hits |-> m.hits, misses |-> m.misses]
        /\ m.slots = [k.slots EXCEPT ![s][1] = fresh] /\ m.hits = k.hits /\ m.misses = k.misses + 1
    BY <1>5, <2>1, MissMoved
  <2> QED BY <2>2, <2>3 DEF Put
<1> HIDE DEF m, k, slot, s
<1>8. /\ m.hits \in Nat /\ m.misses \in Nat /\ m.hits + m.misses = k.hits + k.misses + 1
  <2>1. CASE Hit(k, l)
    BY <1>5, <1>6, <2>1
  <2>2. CASE ~Hit(k, l)
    BY <1>5, <1>7, <2>2
  <2> QED BY <2>1, <2>2
<1>9. QED
  BY <1>2, <1>6, <1>7, <1>8 DEF m, k, s, slot

UsedIds == 0 .. U - 1
H == [c \in CoreCaches |-> [s \in UsedIds |-> CacheEmulator!Remembered(c, s)]]
KeptIn(k) == [s \in UsedIds |-> Kept(k.slots[s][1], s)]

LEMMA UsedIdsAre == \A s \in UsedIds : s \in SetIds /\ s \in Nat
<1>1. U \in Nat /\ U <= Sets /\ Sets \in Nat
  BY UsedSetsAre, CacheNumbers
<1>2. \A u, n \in Nat : u <= n => \A s \in 0 .. u - 1 : s \in 0 .. n - 1 /\ s \in Nat
  OBVIOUS
<1>3. QED
  BY <1>1, <1>2 DEF UsedIds, SetIds

LEMMA HeldIs ==
  ASSUME CachesInv PROVE H = [c \in CoreCaches |-> KeptIn(cache[c])]
<1>1. ASSUME NEW c \in CoreCaches, NEW s \in UsedIds
      PROVE  CacheEmulator!Remembered(c, s) = Kept(cache[c].slots[s][1], s)
  BY CacheNames, UsedIdsAre, KeptIs DEF CachesInv
<1>2. QED
  BY <1>1 DEF H, KeptIn

LEMMA HeldNext ==
  ASSUME CachesInv' PROVE H' = [c \in CoreCaches |-> KeptIn(cache'[c])]
<1>1. ASSUME NEW c \in CoreCaches, NEW s \in UsedIds
      PROVE  CacheEmulator!Remembered(c, s)' = Kept(cache'[c].slots[s][1], s)
  <2>1. Sound(cache'[c])
    BY CacheNames DEF CachesInv, Sound, FirstOnly, SlotMaps, Slots, SetIds, WayIds
  <2> DEFINE live == {w \in WayIds : cache'[c].slots[s][w].valid}
             slot == cache'[c].slots[s][1]
  <2>2. \A w \in live : w = 1
    BY <2>1, UsedIdsAre DEF Sound, FirstOnly
  <2>3. slot.valid => live = {1} /\ CacheEmulator!Min(live) = 1
    <3> SUFFICES ASSUME slot.valid PROVE live = {1} /\ CacheEmulator!Min(live) = 1
      OBVIOUS
    <3>1. live = {1}
      BY <2>2, FirstWay
    <3> QED BY <3>1, LeastOf
  <2>4. ~slot.valid => live = {}
    BY <2>2
  <2>5. CacheEmulator!Remembered(c, s)' =
          IF live = {} THEN CacheEmulator!NoLine ELSE
            [line |-> cache'[c].slots[s][CacheEmulator!Min(live)].tag * U + s,
             val |-> cache'[c].slots[s][CacheEmulator!Min(live)].data]
    BY DEF CacheEmulator!Remembered, CacheEmulator!NoLine, CacheEmulator!Min,
           CacheEmulator!UsedSets, CacheEmulator!Max, U, WayIds
  <2> HIDE DEF live
  <2> QED BY <2>3, <2>4, <2>5 DEF Kept
<1>2. H' = [c \in CoreCaches |-> [s \in UsedIds |-> CacheEmulator!Remembered(c, s)']]
  BY DEF H, CoreCaches, CacheEmulator!L1I, CacheEmulator!L1D, UsedIds, U, CacheEmulator!UsedSets,
         CacheEmulator!Max
<1>3. QED
  BY <1>1, <1>2 DEF KeptIn

LEMMA AccessesNat ==
  ASSUME NEW cs, \A c \in AllCaches : Sound(cs[c])
  PROVE  /\ \A c \in AllCaches : Accesses(cs)[c] \in Nat
         /\ \A c \in AllCaches : Accesses(cs)[c] = cs[c].hits + cs[c].misses
<1>1. \A c \in AllCaches : Accesses(cs)[c] = cs[c].hits + cs[c].misses
  BY DEF Accesses
<1>2. \A c \in AllCaches : cs[c].hits \in Nat /\ cs[c].misses \in Nat
  BY DEF Sound
<1>3. \A n, m \in Nat : n + m \in Nat
  OBVIOUS
<1>4. QED
  BY <1>1, <1>2, <1>3

\* A step that changes one cache.
LEMMA CacheMoved ==
  ASSUME CachesInv, NEW c \in CoreCaches, NEW m, Sound(m), cache' = [cache EXCEPT ![c] = m],
         answer' \in Values,
         \/ m.hits + m.misses = cache[c].hits + cache[c].misses
         \/ m.hits + m.misses = cache[c].hits + cache[c].misses + 1 /\ Total(cache) < MaxAccesses
  PROVE  /\ CachesInv'
         /\ H = [d \in CoreCaches |-> KeptIn(cache[d])]
         /\ H' = [H EXCEPT ![c] = KeptIn(m)]
<1> DEFINE k == cache[c]
           f == Accesses(cache)
           g == Accesses(cache')
<1>1. /\ c \in AllCaches /\ cache' = [d \in AllCaches |-> cache'[d]]
      /\ cache'[c] = m /\ \A d \in AllCaches : d # c => cache'[d] = cache[d]
  BY CacheNames DEF CachesInv
<1>2. \A d \in AllCaches : Sound(cache'[d])
  BY <1>1 DEF CachesInv
<1>3. /\ \A d \in AllCaches : f[d] \in Nat /\ g[d] \in Nat
      /\ f[c] = k.hits + k.misses /\ g[c] = m.hits + m.misses
  <2>1. /\ \A d \in AllCaches : f[d] \in Nat
        /\ \A d \in AllCaches : f[d] = cache[d].hits + cache[d].misses
    BY AccessesNat DEF CachesInv
  <2>2. /\ \A d \in AllCaches : g[d] \in Nat
        /\ \A d \in AllCaches : g[d] = cache'[d].hits + cache'[d].misses
    BY <1>2, AccessesNat
  <2> QED BY <1>1, <2>1, <2>2
<1>4. \A d \in AllCaches \ {c} : f[d] = g[d]
  BY <1>1 DEF Accesses
<1> HIDE DEF f, g
<1>5. SumFunctionOnSet(g, AllCaches) = SumFunctionOnSet(f, AllCaches) - f[c] + g[c]
  <2>1. \A d \in AllCaches : f[d] \in Int /\ g[d] \in Int
    BY <1>3
  <2> QED BY <1>1, <1>4, <2>1, CachesFinite, SumChange
<1>6. Total(cache') \in Nat /\ Total(cache') <= MaxAccesses
  <2>1. Total(cache) \in Nat /\ Total(cache) <= MaxAccesses /\ MaxAccesses \in Nat
    BY CacheNumbers DEF CachesInv
  <2>2. Total(cache') = Total(cache) - f[c] + g[c] /\ f[c] \in Nat /\ g[c] \in Nat
    BY <1>1, <1>3, <1>5 DEF Total, f, g
  <2>3. g[c] = f[c] \/ (g[c] = f[c] + 1 /\ Total(cache) < MaxAccesses)
    BY <1>3
  <2> HIDE DEF k
  <2> QED BY <2>1, <2>2, <2>3
<1>7. CachesInv'
  <2>1. Total(cache)' = Total(cache')
    BY DEF Total, Accesses, AllCaches, CacheEmulator!Caches, CacheEmulator!L1I, CacheEmulator!L1D,
           CacheEmulator!Lower
  <2>2. \A d \in AllCaches : Sound(cache[d])'
    BY <1>2 DEF Sound, FirstOnly, SlotMaps, Slots, SetIds, WayIds
  <2>3. AllCaches' = AllCaches
    BY DEF AllCaches, CacheEmulator!Caches, CacheEmulator!L1I, CacheEmulator!L1D, CacheEmulator!Lower
  <2> QED BY <1>1, <1>6, <2>1, <2>2, <2>3 DEF CachesInv
<1>8. H = [d \in CoreCaches |-> KeptIn(cache[d])]
  BY HeldIs
<1>9. H' = [d \in CoreCaches |-> KeptIn(cache'[d])]
  BY <1>7, HeldNext
<1>10. \A d \in CoreCaches : KeptIn(cache'[d]) = IF d = c THEN KeptIn(m) ELSE KeptIn(cache[d])
  BY <1>1, CacheNames
<1>11. QED
  BY <1>7, <1>8, <1>9, <1>10

\* A line in the first slot of its set is found where its tag is there.
LEMMA ValueIs ==
  ASSUME CachesInv, NEW c \in CoreCaches, NEW l \in Lines
  PROVE  CacheEmulator!Promise!Value(c, l) =
           IF Hit(cache[c], l) THEN cache[c].slots[CacheEmulator!SetOf(l)][1].data ELSE Zero
<1> DEFINE s == CacheEmulator!SetOf(l)
           old == cache[c].slots[s][1]
<1>1. CacheEmulator!Promise!Value(c, l) =
        IF H[c][s] # CacheEmulator!NoLine /\ H[c][s].line = l THEN H[c][s].val ELSE Zero
  BY DEF CacheEmulator!Promise!Value, H, CoreCaches, UsedIds, U
<1>2. s \in UsedIds /\ s \in SetIds /\ l \in Nat
  BY LineOfAddress DEF UsedIds
<1>3. H[c][s] = Kept(old, s)
  BY <1>2, HeldIs DEF KeptIn
<1>4. old \in Slots
  BY <1>2, CacheNames, FirstWay DEF CachesInv, Sound, SlotMaps
<1>5. old.tag \in Nat
  BY <1>4 DEF Slots
<1>6. old.tag * U + s = l <=> old.tag = CacheEmulator!TagOf(l)
  BY <1>5, LineOfAddress
<1>7. Hit(cache[c], l) <=> old.valid /\ old.tag = CacheEmulator!TagOf(l)
  BY DEF Hit
<1> HIDE DEF old, s
<1>8. Kept(old, s) = IF old.valid THEN [line |-> old.tag * U + s, val |-> old.data]
                     ELSE [line |-> -1, val |-> Zero]
  BY DEF Kept, CacheEmulator!NoLine
<1>9. CASE old.valid
  <2> DEFINE r == [line |-> old.tag * U + s, val |-> old.data]
  <2>1. r.line = old.tag * U + s /\ r.val = old.data /\ H[c][s] = r
    BY <1>3, <1>8, <1>9
  <2>2. CacheEmulator!NoLine.line = -1
    BY DEF CacheEmulator!NoLine
  <2> HIDE DEF r
  <2>3. r.line = l => r # CacheEmulator!NoLine
    BY <1>2, <2>2
  <2>4. Hit(cache[c], l) <=> r.line = l
    BY <1>6, <1>7, <1>9, <2>1
  <2>5. CacheEmulator!Promise!Value(c, l) = IF r.line = l THEN old.data ELSE Zero
    BY <1>1, <2>1, <2>3
  <2>6. old.data = cache[c].slots[s][1].data
    BY DEF old
  <2> QED BY <2>4, <2>5, <2>6 DEF s
<1>10. CASE ~old.valid
  <2>1. H[c][s] = CacheEmulator!NoLine
    BY <1>3, <1>10 DEF Kept
  <2> QED BY <1>1, <1>7, <1>10, <2>1
<1>11. QED
  BY <1>9, <1>10 DEF old, s

LEMMA PromiseRead ==
  ASSUME NEW c, NEW l
  PROVE  CacheEmulator!Promise!Read(c, l) <=>
           /\ H' = [H EXCEPT ![c][CacheEmulator!SetOf(l)] =
                      [line |-> l, val |-> CacheEmulator!Promise!Value(c, l)]]
           /\ answer' = CacheEmulator!Promise!Value(c, l)
  BY DEF CacheEmulator!Promise!Read, CacheEmulator!Promise!Held, H, CoreCaches, UsedIds, U,
         CacheEmulator!SetOf

LEMMA PromiseWrite ==
  ASSUME NEW c, NEW l, NEW v
  PROVE  CacheEmulator!Promise!Write(c, l, v) <=>
           /\ H' = [H EXCEPT ![c][CacheEmulator!SetOf(l)] = [line |-> l, val |-> v]]
           /\ answer' = answer
  BY DEF CacheEmulator!Promise!Write, CacheEmulator!Promise!Held, H, CoreCaches, UsedIds, U,
         CacheEmulator!SetOf

LEMMA PromiseForget ==
  ASSUME NEW c, NEW S
  PROVE  CacheEmulator!Promise!Forget(c, S) <=>
           /\ H' = [H EXCEPT ![c] = [s \in UsedIds |-> IF s \in S THEN CacheEmulator!NoLine ELSE H[c][s]]]
           /\ answer' = answer
  BY DEF CacheEmulator!Promise!Forget, H, CoreCaches, UsedIds, U

LEMMA PromiseNext ==
  CacheEmulator!Promise!Next <=>
    \E c \in CoreCaches :
      \/ \E l \in Lines : CacheEmulator!Promise!Read(c, l)
      \/ \E l \in Lines, v \in Values : CacheEmulator!Promise!Write(c, l, v)
      \/ \E S \in SUBSET UsedIds : CacheEmulator!Promise!Forget(c, S)
  BY DEF CacheEmulator!Promise!Next, CoreCaches, UsedIds, U

\* A slot put in place of the one of an address is the line the set remembers.
LEMMA PutKept ==
  ASSUME CachesInv, NEW c \in CoreCaches, NEW l \in Lines, NEW slot \in Slots,
         NEW m, Sound(m), m.slots = Put(cache[c].slots, CacheEmulator!SetOf(l), slot)
  PROVE  KeptIn(m) = [KeptIn(cache[c]) EXCEPT ![CacheEmulator!SetOf(l)] =
                        Kept(slot, CacheEmulator!SetOf(l))]
<1> DEFINE s == CacheEmulator!SetOf(l)
           k == cache[c]
<1>1. s \in UsedIds /\ s \in SetIds
  BY LineOfAddress DEF UsedIds
<1>2. k.slots \in SlotMaps
  BY CacheNames DEF CachesInv, Sound
<1>3. m.slots[s][1] = slot /\ \A r \in SetIds : r # s => m.slots[r][1] = k.slots[r][1]
  BY <1>1, <1>2, FirstWay DEF SlotMaps, Put
<1>4. \A r \in UsedIds : Kept(m.slots[r][1], r) =
                           IF r = s THEN Kept(slot, s) ELSE Kept(k.slots[r][1], r)
  BY <1>3, UsedIdsAre
<1>5. QED
  BY <1>1, <1>4 DEF KeptIn

LEMMA LineKept ==
  ASSUME NEW l \in Lines, NEW slot \in Slots, slot.valid, slot.tag = CacheEmulator!TagOf(l)
  PROVE  Kept(slot, CacheEmulator!SetOf(l)) = [line |-> l, val |-> slot.data]
<1>1. CacheEmulator!TagOf(l) \in Nat
  BY LineOfAddress
<1>2. CacheEmulator!TagOf(l) * U + CacheEmulator!SetOf(l) = l
  BY <1>1, LineOfAddress
<1>3. QED
  BY <1>2 DEF Kept

\* An access, and the slot it takes.
LEMMA AccessIs ==
  ASSUME CachesInv, NEW c \in CoreCaches, NEW l \in Lines, NEW write \in BOOLEAN
  PROVE  LET found == CacheEmulator!FoundLine(c, l, write)
             m == found.state
             s == CacheEmulator!SetOf(l)
             slot == Taken(cache[c], l, write)
         IN /\ found.way = 1 /\ Sound(m) /\ m.slots[s][1] = slot
            /\ m.slots = Put(cache[c].slots, s, slot)
            /\ m.hits + m.misses = cache[c].hits + cache[c].misses + 1
            /\ slot \in Slots /\ slot.valid /\ slot.tag = CacheEmulator!TagOf(l)
            /\ slot.data = CacheEmulator!Promise!Value(c, l)
<1>1. Sound(cache[c])
  BY CacheNames DEF CachesInv
<1>2. CacheEmulator!SetOf(l) \in SetIds
  BY LineOfAddress
<1> DEFINE m == CacheEmulator!FoundLine(c, l, write).state
           slot == Taken(cache[c], l, write)
           s == CacheEmulator!SetOf(l)
<1>3. /\ CacheEmulator!FoundLine(c, l, write).way = 1
      /\ m = [slots |-> m.slots, hits |-> m.hits, misses |-> m.misses]
      /\ m.slots = Put(cache[c].slots, s, slot)
      /\ m.hits \in Nat /\ m.misses \in Nat
      /\ m.hits + m.misses = cache[c].hits + cache[c].misses + 1
  BY <1>1, FoundLineIs
<1>4. /\ slot \in Slots /\ slot.valid /\ slot.tag = CacheEmulator!TagOf(l)
      /\ slot.data = IF Hit(cache[c], l) THEN cache[c].slots[s][1].data ELSE Zero
  BY <1>1, TakenIs
<1>5. slot.data = CacheEmulator!Promise!Value(c, l)
  BY <1>4, ValueIs
<1> HIDE DEF m, slot, s
<1>6. Sound(m) /\ m.slots[s][1] = slot
  BY <1>1, <1>2, <1>3, <1>4, PutSound DEF s
<1>7. QED
  BY <1>3, <1>4, <1>5, <1>6 DEF m, slot, s

Step == CachesInv' /\ (CacheEmulator!Promise!Next \/ (H' = H /\ answer' = answer))

LEMMA ReadStep ==
  ASSUME CachesInv, NEW core \in Cores, NEW kind \in {"l1i", "l1d"}, NEW l \in Lines,
         CacheEmulator!Read(core, kind, l)
  PROVE  Step
<1>1. PICK c \in CoreCaches : c = <<kind, core>>
  BY CacheNames
<1> DEFINE found == CacheEmulator!FoundLine(c, l, FALSE)
           m == found.state
           s == CacheEmulator!SetOf(l)
           slot == Taken(cache[c], l, FALSE)
           value == CacheEmulator!Promise!Value(c, l)
<1>2. /\ Total(cache) < MaxAccesses /\ cache' = [cache EXCEPT ![c] = m]
      /\ answer' = m.slots[s][found.way].data
  BY <1>1, CountedIs DEF CacheEmulator!Read
<1>3. /\ found.way = 1 /\ Sound(m) /\ m.slots[s][1] = slot
      /\ m.slots = Put(cache[c].slots, s, slot)
      /\ m.hits + m.misses = cache[c].hits + cache[c].misses + 1
      /\ slot \in Slots /\ slot.valid /\ slot.tag = CacheEmulator!TagOf(l)
      /\ slot.data = value
  BY AccessIs
<1>4. answer' = value /\ answer' \in Values
  <2>1. \A x \in Slots : x.data \in Values
    BY DEF Slots
  <2> QED BY <1>2, <1>3, <2>1
<1>5. KeptIn(m) = [KeptIn(cache[c]) EXCEPT ![s] = [line |-> l, val |-> value]]
  <2>1. Kept(slot, s) = [line |-> l, val |-> value]
    BY <1>3, LineKept
  <2>2. /\ Sound(m) /\ slot \in Slots
        /\ m.slots = Put(cache[c].slots, CacheEmulator!SetOf(l), slot)
    BY <1>3
  <2> HIDE DEF m, slot, found
  <2>3. KeptIn(m) = [KeptIn(cache[c]) EXCEPT ![CacheEmulator!SetOf(l)] =
                        Kept(slot, CacheEmulator!SetOf(l))]
    BY <2>2, PutKept
  <2> QED BY <2>1, <2>3
<1> HIDE DEF m, s, slot, value, found
<1>6. /\ CachesInv'
      /\ H = [d \in CoreCaches |-> KeptIn(cache[d])]
      /\ H' = [H EXCEPT ![c] = KeptIn(m)]
  BY <1>2, <1>3, <1>4, CacheMoved
<1>7. H' = [H EXCEPT ![c][s] = [line |-> l, val |-> value]]
  BY <1>5, <1>6
<1>8. CacheEmulator!Promise!Read(c, l)
  BY <1>4, <1>7, PromiseRead DEF s, value
<1>9. QED
  BY <1>6, <1>8, PromiseNext DEF Step

LEMMA DataMoved ==
  ASSUME NEW a, NEW b, NEW d, NEW k, k = [slots |-> a, hits |-> b, misses |-> d], NEW s, NEW v,
         NEW m, m = [k EXCEPT !.slots[s][1].data = v, !.slots[s][1].dirty = TRUE]
  PROVE  /\ m = [slots |-> m.slots, hits |-> m.hits, misses |-> m.misses]
         /\ m.slots = [a EXCEPT ![s][1].data = v, ![s][1].dirty = TRUE]
         /\ m.hits = b /\ m.misses = d
  OBVIOUS

LEMMA WrittenSlot ==
  ASSUME NEW x \in Slots, NEW v \in Values, NEW y, y = [x EXCEPT !.data = v, !.dirty = TRUE]
  PROVE  y \in Slots /\ y.valid = x.valid /\ y.tag = x.tag /\ y.data = v
<1>1. x = [valid |-> x.valid, dirty |-> x.dirty, lru |-> x.lru, tag |-> x.tag, data |-> x.data]
      /\ x.valid \in BOOLEAN /\ x.lru \in {0} /\ x.tag \in Nat
  BY DEF Slots
<1>2. y = [valid |-> x.valid, dirty |-> TRUE, lru |-> x.lru, tag |-> x.tag, data |-> v]
  BY <1>1
<1>3. QED
  BY <1>1, <1>2 DEF Slots

WithData(slot, v) == [slot EXCEPT !.data = v, !.dirty = TRUE]
PutData(slots, s, v) == [slots EXCEPT ![s][1].data = v, ![s][1].dirty = TRUE]

\* Two writes of fields of a slot that was just put are one put of the slot with both.
LEMMA PutTwice ==
  ASSUME NEW a \in SlotMaps, NEW s \in SetIds, NEW x \in Slots, NEW v \in Values,
         NEW y, y = WithData(x, v)
  PROVE  PutData(Put(a, s, x), s, v) = Put(a, s, y)
<1> DEFINE b == Put(a, s, x)
           z == [b EXCEPT ![s][1].data = v]
           e == [b EXCEPT ![s][1].data = v, ![s][1].dirty = TRUE]
<1>1. b \in SlotMaps /\ b[s][1] = x /\ b = [a EXCEPT ![s] = [a[s] EXCEPT ![1] = x]]
  BY FirstWay DEF SlotMaps, Put
<1>2. z = [b EXCEPT ![s] = [b[s] EXCEPT ![1] = [x EXCEPT !.data = v]]]
  BY <1>1
<1>3. z[s][1] = [x EXCEPT !.data = v]
  BY <1>1, <1>2, FirstWay DEF SlotMaps
<1>4. e = [z EXCEPT ![s][1].dirty = TRUE]
  OBVIOUS
<1>5. e = [z EXCEPT ![s] = [z[s] EXCEPT ![1] = [z[s][1] EXCEPT !.dirty = TRUE]]]
  BY <1>4
<1>6. [z[s][1] EXCEPT !.dirty = TRUE] = y
  BY <1>3 DEF WithData
<1> HIDE DEF z, e
<1>7. e = [z EXCEPT ![s] = [z[s] EXCEPT ![1] = y]]
  BY <1>5, <1>6
<1> HIDE DEF b
<1>8. e = [a EXCEPT ![s] = [a[s] EXCEPT ![1] = y]]
  <2>1. b[s] = [a[s] EXCEPT ![1] = x]
    BY <1>1 DEF SlotMaps
  <2>2. z[s] = [b[s] EXCEPT ![1] = [x EXCEPT !.data = v]]
    BY <1>1, <1>2 DEF SlotMaps
  <2>3. [z[s] EXCEPT ![1] = y] = [a[s] EXCEPT ![1] = y]
    BY <2>1, <2>2, FirstWay DEF SlotMaps
  <2> QED BY <1>1, <1>2, <1>7, <2>3 DEF SlotMaps
<1>9. QED
  BY <1>8 DEF e, b, Put, PutData

LEMMA WriteStep ==
  ASSUME CachesInv, NEW core \in Cores, NEW l \in Lines, NEW v \in Values,
         CacheEmulator!Write(core, l, v)
  PROVE  Step
<1>1. PICK c \in CoreCaches : c = <<"l1d", core>>
  BY CacheNames
<1> DEFINE found == CacheEmulator!FoundLine(c, l, TRUE)
           n == found.state
           s == CacheEmulator!SetOf(l)
           slot == Taken(cache[c], l, TRUE)
           m == [n EXCEPT !.slots[s][1].data = v, !.slots[s][1].dirty = TRUE]
           written == [slot EXCEPT !.data = v, !.dirty = TRUE]
<1>2. /\ found.way = 1 /\ Sound(n) /\ n.slots[s][1] = slot
      /\ n.slots = Put(cache[c].slots, s, slot)
      /\ n.hits + n.misses = cache[c].hits + cache[c].misses + 1
      /\ slot \in Slots /\ slot.valid /\ slot.tag = CacheEmulator!TagOf(l)
  BY AccessIs
<1>3. /\ Total(cache) < MaxAccesses /\ cache' = [cache EXCEPT ![c] = m] /\ answer' = answer
  <2>1. /\ Total(cache) < MaxAccesses /\ answer' = answer
        /\ cache' = [cache EXCEPT ![c] =
             [n EXCEPT !.slots[s][found.way].data = v, !.slots[s][found.way].dirty = TRUE]]
    BY <1>1, CountedIs DEF CacheEmulator!Write
  <2>2. \A w : w = 1 => [n EXCEPT !.slots[s][w].data = v, !.slots[s][w].dirty = TRUE] = m
    OBVIOUS
  <2>3. found.way = 1
    BY <1>2
  <2> HIDE DEF m, n, found
  <2>4. [n EXCEPT !.slots[s][found.way].data = v, !.slots[s][found.way].dirty = TRUE] = m
    BY <2>2, <2>3
  <2> QED BY <2>1, <2>4
<1>4. m = [n EXCEPT !.slots[s][1].data = v, !.slots[s][1].dirty = TRUE]
      /\ written = [slot EXCEPT !.data = v, !.dirty = TRUE]
  OBVIOUS
<1>5. s \in SetIds /\ s = CacheEmulator!SetOf(l) /\ cache[c].slots \in SlotMaps
  BY LineOfAddress, CacheNames DEF CachesInv, Sound
<1>6. answer' \in Values
  BY <1>3 DEF CachesInv
<1> HIDE DEF m, n, s, slot, found, written
<1>7. written \in Slots /\ written.valid = slot.valid /\ written.tag = slot.tag /\ written.data = v
  BY <1>2, <1>4, WrittenSlot
<1>8. /\ m = [slots |-> m.slots, hits |-> m.hits, misses |-> m.misses]
      /\ m.slots = [n.slots EXCEPT ![s][1].data = v, ![s][1].dirty = TRUE]
      /\ m.hits = n.hits /\ m.misses = n.misses
  <2>1. n = [slots |-> n.slots, hits |-> n.hits, misses |-> n.misses]
    BY <1>2 DEF Sound
  <2> QED BY <1>4, <2>1, DataMoved
<1>9. m.slots = Put(cache[c].slots, s, written)
  <2>1. slot \in Slots /\ n.slots = Put(cache[c].slots, s, slot)
    BY <1>2
  <2>2. written = WithData(slot, v) /\ m.slots = PutData(n.slots, s, v)
    BY <1>4, <1>8 DEF WithData, PutData
  <2>3. PutData(Put(cache[c].slots, s, slot), s, v) = Put(cache[c].slots, s, written)
    BY <1>5, <2>1, <2>2, PutTwice
  <2> QED BY <2>1, <2>2, <2>3
<1>10. m.hits \in Nat /\ m.misses \in Nat
  BY <1>2, <1>8 DEF Sound
<1>11. Sound(m)
  <2>1. Sound(cache[c])
    BY CacheNames DEF CachesInv
  <2> QED BY <1>5, <1>7, <1>8, <1>9, <1>10, <2>1, PutSound
<1>12. KeptIn(m) = [KeptIn(cache[c]) EXCEPT ![s] = [line |-> l, val |-> v]]
  <2>1. Kept(written, s) = [line |-> l, val |-> v]
    BY <1>2, <1>5, <1>7, LineKept
  <2> QED BY <1>5, <1>7, <1>9, <1>11, <2>1, PutKept
<1>13. /\ CachesInv'
       /\ H = [d \in CoreCaches |-> KeptIn(cache[d])]
       /\ H' = [H EXCEPT ![c] = KeptIn(m)]
  <2>1. m.hits + m.misses = cache[c].hits + cache[c].misses + 1
    BY <1>2, <1>8
  <2> QED BY <1>3, <1>11, <1>6, <2>1, CacheMoved
<1>14. H' = [H EXCEPT ![c][s] = [line |-> l, val |-> v]]
  BY <1>12, <1>13
<1>15. CacheEmulator!Promise!Write(c, l, v)
  BY <1>3, <1>5, <1>14, PromiseWrite
<1>16. QED
  BY <1>13, <1>15, PromiseNext DEF Step

LEMMA FlushStep ==
  ASSUME CachesInv, NEW c \in CoreCaches, CacheEmulator!Flush(c) PROVE Step
<1> DEFINE k == cache[c]
           clear(slot) == [slot EXCEPT !.valid = FALSE, !.dirty = FALSE, !.lru = 0]
           slots == [s \in DOMAIN k.slots |-> [w \in WayIds |-> clear(k.slots[s][w])]]
           m == [slots |-> slots, hits |-> k.hits, misses |-> k.misses]
<1>1. Sound(k) /\ c \in AllCaches
  BY CacheNames DEF CachesInv
<1>2. /\ k = [slots |-> k.slots, hits |-> k.hits, misses |-> k.misses]
      /\ k.slots \in SlotMaps /\ k.hits \in Nat /\ k.misses \in Nat
  BY <1>1 DEF Sound
<1>3. cache' = [cache EXCEPT ![c] = [k EXCEPT !.slots = slots]] /\ answer' = answer
  BY DEF CacheEmulator!Flush, WayIds
<1>4. [k EXCEPT !.slots = slots] = m
  <2> DEFINE n == [k EXCEPT !.slots = slots]
  <2>1. n = [k EXCEPT !.slots = slots] /\ m = [slots |-> slots, hits |-> k.hits, misses |-> k.misses]
    OBVIOUS
  <2> HIDE DEF n, m, slots, k
  <2> QED BY <1>2, <2>1
<1>5. \A x \in Slots : clear(x) \in Slots /\ ~clear(x).valid
  <2> SUFFICES ASSUME NEW x \in Slots PROVE clear(x) \in Slots /\ ~clear(x).valid
    OBVIOUS
  <2> DEFINE y == [x EXCEPT !.valid = FALSE, !.dirty = FALSE, !.lru = 0]
  <2>1. x = [valid |-> x.valid, dirty |-> x.dirty, lru |-> x.lru, tag |-> x.tag, data |-> x.data]
        /\ x.tag \in Nat /\ x.data \in Values
    BY DEF Slots
  <2>2. y = [x EXCEPT !.valid = FALSE, !.dirty = FALSE, !.lru = 0]
    OBVIOUS
  <2> SUFFICES y \in Slots /\ ~y.valid
    OBVIOUS
  <2> HIDE DEF y
  <2>3. y = [valid |-> FALSE, dirty |-> FALSE, lru |-> 0, tag |-> x.tag, data |-> x.data]
    BY <2>1, <2>2
  <2> QED BY <2>1, <2>3 DEF Slots
<1> HIDE DEF clear
<1>6. slots \in SlotMaps /\ \A s \in SetIds, w \in WayIds : ~slots[s][w].valid
  <2>1. \A s \in SetIds, w \in WayIds : k.slots[s][w] \in Slots
    BY <1>2 DEF SlotMaps
  <2>2. DOMAIN k.slots = SetIds
    BY <1>2 DEF SlotMaps
  <2> HIDE DEF k
  <2> QED BY <1>5, <2>1, <2>2 DEF SlotMaps
<1> HIDE DEF slots
<1>7. m.slots = slots /\ m.hits = k.hits /\ m.misses = k.misses
      /\ m = [slots |-> m.slots, hits |-> m.hits, misses |-> m.misses]
  OBVIOUS
<1>8. answer' \in Values
  BY <1>3 DEF CachesInv
<1>9. cache' = [cache EXCEPT ![c] = m]
  BY <1>3, <1>4
<1> HIDE DEF m, k
<1>10. Sound(m)
  BY <1>2, <1>6, <1>7 DEF Sound, FirstOnly
<1>11. /\ CachesInv'
      /\ H = [d \in CoreCaches |-> KeptIn(cache[d])]
      /\ H' = [H EXCEPT ![c] = KeptIn(m)]
  BY <1>7, <1>10, <1>8, <1>9, CacheMoved DEF k
<1>12. KeptIn(m) = [s \in UsedIds |-> IF s \in UsedIds THEN CacheEmulator!NoLine ELSE H[c][s]]
  BY <1>6, <1>7, FirstWay, UsedIdsAre DEF KeptIn, Kept
<1>13. CacheEmulator!Promise!Forget(c, UsedIds)
  BY <1>3, <1>11, <1>12, PromiseForget
<1>14. UsedIds \in SUBSET UsedIds
  OBVIOUS
<1>15. QED
  BY <1>11, <1>13, <1>14, PromiseNext DEF Step

LEMMA SlotsMoved ==
  ASSUME NEW a, NEW b, NEW d, NEW k, k = [slots |-> a, hits |-> b, misses |-> d], NEW s, NEW slot,
         NEW m, m = [k EXCEPT !.slots[s][1] = slot]
  PROVE  /\ m = [slots |-> m.slots, hits |-> m.hits, misses |-> m.misses]
         /\ m.slots = [a EXCEPT ![s][1] = slot] /\ m.hits = b /\ m.misses = d
  OBVIOUS

LEMMA FlushAddrStep ==
  ASSUME CachesInv, NEW c \in CoreCaches, NEW l \in Lines, CacheEmulator!FlushAddr(c, l) PROVE Step
<1> DEFINE k == cache[c]
           s == CacheEmulator!SetOf(l)
           old == k.slots[s][1]
           slot == [old EXCEPT !.valid = FALSE, !.dirty = FALSE]
           m == [k EXCEPT !.slots[s][1] = slot]
<1>1. Sound(k) /\ c \in AllCaches /\ s \in SetIds /\ s \in UsedIds
  BY CacheNames, LineOfAddress DEF CachesInv, UsedIds
<1>2. /\ k = [slots |-> k.slots, hits |-> k.hits, misses |-> k.misses]
      /\ k.slots \in SlotMaps /\ k.hits \in Nat /\ k.misses \in Nat /\ old \in Slots
  BY <1>1, FirstWay DEF Sound, SlotMaps
<1>3. answer' = answer /\ CacheEmulator!Matches(c, l) # {}
      /\ cache' = [cache EXCEPT ![c].slots[s][CacheEmulator!Min(CacheEmulator!Matches(c, l))] =
                     [@ EXCEPT !.valid = FALSE, !.dirty = FALSE]]
  BY DEF CacheEmulator!FlushAddr
<1>4. CacheEmulator!Min(CacheEmulator!Matches(c, l)) = 1
  BY <1>1, <1>3, MatchesFirst
<1>5. cache' = [cache EXCEPT ![c] = m]
  <2>1. \A w : w = 1 =>
          [cache EXCEPT ![c].slots[s][w] = [@ EXCEPT !.valid = FALSE, !.dirty = FALSE]]
            = [cache EXCEPT ![c] = m]
    OBVIOUS
  <2> QED BY <1>3, <1>4, <2>1
<1>6. slot \in Slots /\ ~slot.valid
  <2>1. slot = [old EXCEPT !.valid = FALSE, !.dirty = FALSE]
    OBVIOUS
  <2>2. old = [valid |-> old.valid, dirty |-> old.dirty, lru |-> old.lru, tag |-> old.tag,
               data |-> old.data]
        /\ old.lru \in {0} /\ old.tag \in Nat /\ old.data \in Values
    <3> HIDE DEF old
    <3> QED BY <1>2 DEF Slots
  <2> HIDE DEF slot, old
  <2>3. slot = [valid |-> FALSE, dirty |-> FALSE, lru |-> old.lru, tag |-> old.tag, data |-> old.data]
    BY <2>1, <2>2
  <2> QED BY <2>2, <2>3 DEF Slots
<1>7. /\ m = [slots |-> m.slots, hits |-> m.hits, misses |-> m.misses]
      /\ m.slots = Put(k.slots, s, slot) /\ m.hits = k.hits /\ m.misses = k.misses
  <2>1. m = [k EXCEPT !.slots[s][1] = slot]
    OBVIOUS
  <2> HIDE DEF m, k, slot
  <2>2. /\ m = [slots |-> m.slots, hits |-> m.hits, misses |-> m.misses]
        /\ m.slots = [k.slots EXCEPT ![s][1] = slot] /\ m.hits = k.hits /\ m.misses = k.misses
    BY <1>2, <2>1, SlotsMoved
  <2> QED BY <2>2 DEF Put
<1>8. answer' \in Values
  BY <1>3 DEF CachesInv
<1> HIDE DEF m, k, slot, old, s
<1>9. Sound(m)
  BY <1>1, <1>2, <1>6, <1>7, PutSound
<1>10. /\ CachesInv'
      /\ H = [d \in CoreCaches |-> KeptIn(cache[d])]
      /\ H' = [H EXCEPT ![c] = KeptIn(m)]
  BY <1>5, <1>7, <1>9, <1>8, CacheMoved DEF k
<1>11. KeptIn(m) = [KeptIn(k) EXCEPT ![s] = Kept(slot, s)]
  BY <1>6, <1>7, <1>9, PutKept DEF k, s
<1>12. KeptIn(m) = [r \in UsedIds |-> IF r \in {s} THEN CacheEmulator!NoLine ELSE H[c][r]]
  <2>1. Kept(slot, s) = CacheEmulator!NoLine
    BY <1>6 DEF Kept
  <2>2. H[c] = KeptIn(k)
    BY <1>10 DEF k
  <2>3. KeptIn(k) = [r \in UsedIds |-> KeptIn(k)[r]]
    BY DEF KeptIn
  <2> QED BY <1>11, <2>1, <2>2, <2>3
<1>13. CacheEmulator!Promise!Forget(c, {s})
  BY <1>3, <1>10, <1>12, PromiseForget
<1>14. {s} \in SUBSET UsedIds
  BY <1>1
<1>15. QED
  BY <1>10, <1>13, <1>14, PromiseNext DEF Step

LEMMA CachesStart == ASSUME CacheEmulator!Init PROVE CachesInv /\ CacheEmulator!Promise!Init
<1> DEFINE cleared == [valid |-> FALSE, dirty |-> FALSE, lru |-> 0, tag |-> 0, data |-> Zero]
           slots == [s \in SetIds |-> [w \in WayIds |-> cleared]]
           k == [slots |-> slots, hits |-> 0, misses |-> 0]
<1>1. cache = [c \in AllCaches |-> k] /\ answer = Zero
  BY DEF CacheEmulator!Init, CacheEmulator!Empty, CacheEmulator!Cleared, CacheEmulator!Slot,
         AllCaches, SetIds, WayIds
<1>2. cleared \in Slots /\ ~cleared.valid
  BY CacheNumbers DEF Slots
<1>3. slots \in SlotMaps /\ FirstOnly(slots)
  BY <1>2 DEF SlotMaps, FirstOnly
<1>4. Sound(k) /\ k.slots = slots /\ k.hits = 0 /\ k.misses = 0
  BY <1>3 DEF Sound
<1> HIDE DEF k, slots, cleared
<1>5. \A c \in AllCaches : cache[c] = k
  BY <1>1
<1>6. Total(cache) = 0
  <2>1. \A c \in AllCaches : Accesses(cache)[c] = 0
    <3>1. k.hits + k.misses = 0
      BY <1>4
    <3> QED BY <1>5, <3>1 DEF Accesses
  <2> QED BY <2>1, CachesFinite, SumZero DEF Total
<1>7. CachesInv
  <2>1. Total(cache) \in Nat /\ Total(cache) <= MaxAccesses /\ answer \in Values
    BY <1>1, <1>6, CacheNumbers
  <2> QED BY <1>1, <1>4, <1>5, <2>1 DEF CachesInv
<1>8. H = [c \in CoreCaches |-> [s \in UsedIds |-> CacheEmulator!NoLine]]
  <2>1. \A s \in UsedIds : Kept(k.slots[s][1], s) = CacheEmulator!NoLine
    BY <1>2, <1>4, FirstWay, UsedIdsAre DEF Kept, slots
  <2>2. KeptIn(k) = [s \in UsedIds |-> CacheEmulator!NoLine]
    BY <2>1 DEF KeptIn
  <2> QED BY <1>5, <1>7, <2>2, CacheNames, HeldIs
<1>9. CacheEmulator!Promise!Init
  BY <1>1, <1>8 DEF CacheEmulator!Promise!Init, H, CoreCaches, UsedIds, U
<1>10. QED
  BY <1>7, <1>9

LEMMA CachesStep == ASSUME CachesInv, CacheEmulator!Next PROVE Step
<1>1. CASE \E core \in Cores, kind \in {"l1i", "l1d"}, l \in Lines : CacheEmulator!Read(core, kind, l)
  BY <1>1, ReadStep
<1>2. CASE \E core \in Cores, l \in Lines, v \in Values \ {Zero} : CacheEmulator!Write(core, l, v)
  BY <1>2, WriteStep
<1>3. CASE \E c \in CoreCaches : CacheEmulator!Flush(c)
  BY <1>3, FlushStep
<1>4. CASE \E c \in CoreCaches, l \in Lines : CacheEmulator!FlushAddr(c, l)
  BY <1>4, FlushAddrStep
<1>5. QED
  BY <1>1, <1>2, <1>3, <1>4 DEF CacheEmulator!Next, CoreCaches

LEMMA CachesStay == ASSUME CachesInv, UNCHANGED cachesVars PROVE Step
<1>1. cache' = cache /\ answer' = answer
  BY DEF cachesVars
<1>2. CachesInv'
  BY <1>1 DEF CachesInv, Sound, FirstOnly, SlotMaps, Slots, SetIds, WayIds, Total, Accesses, AllCaches,
     CacheEmulator!Caches, CacheEmulator!L1I, CacheEmulator!L1D, CacheEmulator!Lower
<1>3. H' = H
  BY <1>1, <1>2, HeldIs, HeldNext
<1>4. QED
  BY <1>1, <1>2, <1>3 DEF Step

LEMMA CachesKeep == ASSUME CachesInv, [Next]_vars PROVE Step
<1>1. UNCHANGED cachesVars \/ CacheEmulator!Next
  BY DEF Next, vars
<1>2. QED
  BY <1>1, CachesStep, CachesStay

LEMMA CachesInvariance == Spec => []CachesInv
<1>1. Init => CachesInv
  BY CachesStart DEF Init
<1>2. CachesInv /\ [Next]_vars => CachesInv'
  BY CachesKeep DEF Step
<1>3. QED
  BY <1>1, <1>2, PTL DEF Spec

LEMMA CachesTyped == CachesInv => CacheEmulator!TypeOK
<1> SUFFICES ASSUME CachesInv, NEW c \in AllCaches
             PROVE  /\ {cache[c].hits, cache[c].misses} \subseteq 0 .. MaxAccesses
                    /\ \A s \in SetIds, w \in WayIds : cache[c].slots[s][w] \in Slots
  BY DEF CacheEmulator!TypeOK, CachesInv, AllCaches, SetIds, WayIds, Slots
<1>1. Sound(cache[c])
  BY DEF CachesInv
<1>2. \A s \in SetIds, w \in WayIds : cache[c].slots[s][w] \in Slots
  BY <1>1 DEF Sound, SlotMaps
<1>3. Accesses(cache)[c] <= Total(cache)
  BY AccessesNat, CachesFinite, SumAtLeast DEF CachesInv, Total
<1>4. /\ cache[c].hits \in Nat /\ cache[c].misses \in Nat
      /\ Accesses(cache)[c] = cache[c].hits + cache[c].misses
      /\ Total(cache) \in Nat /\ Total(cache) <= MaxAccesses /\ MaxAccesses \in Nat
  BY <1>1, CacheNumbers DEF CachesInv, Sound, Accesses
<1>5. cache[c].hits <= MaxAccesses /\ cache[c].misses <= MaxAccesses
  BY <1>3, <1>4
<1>6. \A n, m \in Nat : n <= m => n \in 0 .. m
  OBVIOUS
<1>7. QED
  BY <1>2, <1>4, <1>5, <1>6

\* Whatever its ways, a cache of the emulator does what LineCache promises: it keeps the
\* line touched last in each set, with the value written to it since it was found, and
\* forgets it, written or not, when another line of the set is touched
\* (emu/brad_cache_emu.c, find_line, brad_hierarchy_read, brad_hierarchy_write).
THEOREM CachesKeepPromise == Spec => KeepsLastLineOfSet
<1>1. Init => CacheEmulator!Promise!Init
  BY CachesStart DEF Init
<1>2. CachesInv /\ [Next]_vars =>
        [CacheEmulator!Promise!Next]_CacheEmulator!Promise!vars
  <2> SUFFICES ASSUME CachesInv, [Next]_vars
               PROVE  [CacheEmulator!Promise!Next]_CacheEmulator!Promise!vars
    OBVIOUS
  <2>1. CacheEmulator!Promise!Next \/ (H' = H /\ answer' = answer)
    BY CachesKeep DEF Step
  <2> QED BY <2>1 DEF CacheEmulator!Promise!vars, H, CoreCaches, UsedIds, U
<1>3. QED
  BY <1>1, <1>2, CachesInvariance, PTL
     DEF Spec, KeepsLastLineOfSet, CacheEmulator!KeepsLastLineOfSet, CacheEmulator!Promise!Spec

-----------------------------------------------------------------------------
(* The BMS server.                                                          *)

\* The steps of a transfer before it has its number, after its amount was taken from
\* the wallet, and after it has its number.
Owing == {"check", "load wallet", "store wallet", "load seq", "store seq"}
Stored == {"load seq", "store seq", "read id", "read balance", "append"}
Numbered == {"read id", "read balance", "append"}
Steps == {"idle"} \cup Server!Pay \cup Server!Notify

LEMMA StepNames ==
  /\ "idle" \in Steps /\ "idle" \notin Server!Pay \cup Server!Notify \cup Owing \cup Stored \cup Numbered
  /\ \A x \in Server!Notify :
       x \in Steps /\ x \notin Server!Pay \cup Owing \cup Stored \cup Numbered
  /\ \A x \in Server!Pay : x \in Steps /\ x \notin Server!Notify
  /\ Owing \cup Stored \cup Numbered \subseteq Server!Pay
  /\ "append notification" \in Server!Notify
  /\ "check" \in Owing \ (Stored \cup Numbered)
  /\ "load wallet" \in Owing \ (Stored \cup Numbered)
  /\ "store wallet" \in Owing \ (Stored \cup Numbered)
  /\ "load seq" \in (Owing \cap Stored) \ Numbered
  /\ "store seq" \in (Owing \cap Stored) \ Numbered
  /\ "read id" \in (Stored \cap Numbered) \ Owing
  /\ "read balance" \in (Stored \cap Numbered) \ Owing
  /\ "append" \in (Stored \cap Numbered) \ Owing
  /\ "show" \in Server!Pay \ (Owing \cup Stored \cup Numbered)
  /\ Server!Pay \ {"show"} = Owing \cup Stored
  BY DEF Owing, Stored, Numbered, Steps, Server!Pay, Server!Notify

Entries == [id : Nat, amount : Nat, fee : Nat, balance : Int]
Locals == [at : Steps, amount : Nat, read : Int, id : Nat]

\* What a ledger says was paid, and what threads have taken from the wallet and not
\* written to the ledger yet.
Costs(ledger) == [i \in DOMAIN ledger |-> ledger[i].amount + ledger[i].fee]
PaidOut(ledger) == SumFunctionOnSet(Costs(ledger), DOMAIN ledger)
Paid(x) == IF x.at \in Stored THEN x.amount + Fee ELSE 0
PaidBy(locals) == [t \in Threads |-> Paid(locals[t])]
InFlight(locals) == SumFunctionOnSet(PaidBy(locals), Threads)
Spent == PaidOut(state.transactions) + InFlight(serving)

LEMMA ServerNumbers ==
  /\ StartCents \in Nat /\ Fee \in Nat /\ MaxRequests \in Nat
  /\ \A amount \in Amounts : amount \in Nat
  /\ IsFiniteSet(Threads)
  BY ServerConstants

LEMMA SettledIs == Server!Settled = PaidOut(state.transactions)
  BY DEF Server!Settled, Server!SumFunction, Server!SumFunctionOnSet, Server!FoldFunctionOnSet,
     Server!MapThenFoldSet, PaidOut, Costs, SumFunctionOnSet, FoldFunctionOnSet, MapThenFoldSet

LEMMA PaidNat == ASSUME NEW x \in Locals PROVE Paid(x) \in Nat
  BY ServerNumbers DEF Paid, Locals

LEMMA InFlightNat == ASSUME NEW s \in [Threads -> Locals] PROVE InFlight(s) \in Nat
<1>1. \A t \in Threads : PaidBy(s)[t] \in Nat
  BY PaidNat DEF PaidBy
<1>2. QED
  BY <1>1, ServerNumbers, SumNat DEF InFlight

LEMMA PaidOutNat == ASSUME NEW ledger \in Seq(Entries) PROVE PaidOut(ledger) \in Nat
<1>1. DOMAIN ledger = 1 .. Len(ledger) /\ Len(ledger) \in Nat /\ IsFiniteSet(DOMAIN ledger)
  BY FS_Interval
<1>2. \A i \in DOMAIN ledger : Costs(ledger)[i] \in Nat
  <2>1. \A i \in DOMAIN ledger : ledger[i] \in Entries
    BY <1>1
  <2> QED BY <2>1 DEF Costs, Entries
<1>3. QED
  BY <1>1, <1>2, SumNat DEF PaidOut

LEMMA InFlightMoved ==
  ASSUME NEW s \in [Threads -> Locals], NEW t \in Threads, NEW y \in Locals
  PROVE  InFlight([s EXCEPT ![t] = y]) = InFlight(s) - Paid(s[t]) + Paid(y)
<1> DEFINE r == [s EXCEPT ![t] = y]
           f == PaidBy(s)
           g == PaidBy(r)
<1>1. r \in [Threads -> Locals] /\ r[t] = y /\ \A u \in Threads \ {t} : r[u] = s[u]
  OBVIOUS
<1>2. \A u \in Threads : f[u] \in Int /\ g[u] \in Int
  BY <1>1, PaidNat DEF PaidBy
<1>3. \A u \in Threads \ {t} : f[u] = g[u]
  BY <1>1 DEF PaidBy
<1>4. f[t] = Paid(s[t]) /\ g[t] = Paid(y)
  BY <1>1 DEF PaidBy
<1> HIDE DEF f, g, r
<1>5. SumFunctionOnSet(g, Threads) = SumFunctionOnSet(f, Threads) - f[t] + g[t]
  BY <1>2, <1>3, ServerNumbers, SumChange
<1>6. QED
  BY <1>4, <1>5 DEF InFlight, f, g, r

LEMMA PaidOutAppended ==
  ASSUME NEW ledger \in Seq(Entries), NEW e \in Entries
  PROVE  PaidOut(Append(ledger, e)) = PaidOut(ledger) + e.amount + e.fee
<1> DEFINE n == Len(ledger)
           more == Append(ledger, e)
           f == Costs(ledger)
           g == Costs(more)
<1>1. /\ n \in Nat /\ DOMAIN ledger = 1 .. n /\ more \in Seq(Entries) /\ DOMAIN more = 1 .. n + 1
      /\ more[n + 1] = e /\ \A i \in 1 .. n : more[i] = ledger[i]
  OBVIOUS
<1>2. \A i \in 1 .. n + 1 : more[i] \in Entries
  BY <1>1
<1>3. \A i \in 1 .. n + 1 : g[i] \in Int
  <2>1. \A i \in 1 .. n + 1 : g[i] = more[i].amount + more[i].fee
    BY <1>1 DEF Costs
  <2>2. \A x \in Entries : x.amount + x.fee \in Int
    BY DEF Entries
  <2> QED BY <1>2, <2>1, <2>2
<1>4. \A i \in 1 .. n : f[i] = g[i] /\ f[i] \in Int
  <2>1. \A i \in 1 .. n : f[i] = g[i]
    BY <1>1 DEF Costs
  <2> QED BY <1>3, <2>1
<1>5. g[n + 1] = e.amount + e.fee
  BY <1>1 DEF Costs
<1> DEFINE D == 1 .. n
           E == 1 .. n + 1
<1>6. E \ {n + 1} = D /\ n + 1 \in E /\ n \in Int
  BY <1>1
<1>7. IsFiniteSet(D) /\ IsFiniteSet(E)
  BY <1>1, FS_Interval
<1>8. (\A i \in E : g[i] \in Int) /\ (\A i \in D : g[i] \in Int /\ g[i] = f[i])
  BY <1>3, <1>4
<1> HIDE DEF f, g, n, more, D, E
<1>9. SumFunctionOnSet(g, E) = g[n + 1] + SumFunctionOnSet(g, D)
  BY <1>6, <1>7, <1>8, SumRemove
<1>10. SumFunctionOnSet(g, D) = SumFunctionOnSet(f, D)
  BY <1>7, <1>8, SumEqual
<1>11. PaidOut(ledger) = SumFunctionOnSet(f, D) /\ PaidOut(more) = SumFunctionOnSet(g, E)
  BY <1>1 DEF PaidOut, f, g, D, E
<1>12. PaidOut(ledger) \in Int /\ e.amount \in Int /\ e.fee \in Int
  BY PaidOutNat DEF Entries
<1>13. QED
  BY <1>5, <1>11, <1>12, <1>9, <1>10 DEF more

LEMMA NothingPaid == PaidOut(<<>>) = 0
<1>1. DOMAIN <<>> = {}
  OBVIOUS
<1>2. QED
  BY <1>1, FS_EmptySet, SumStep DEF PaidOut

\* The records of the server and of its threads.
ServerTyped ==
  /\ state = [wallet |-> state.wallet, transactions |-> state.transactions, files |-> state.files,
              notifications |-> state.notifications, seq |-> state.seq]
  /\ state.wallet \in Int /\ state.seq \in Nat
  /\ state.transactions \in Seq(Entries) /\ state.notifications \in Seq(Nat)
  /\ serving \in [Threads -> Locals]
  /\ begun \in 0 .. MaxRequests

\* Every number handed out was asked for by a request begun: a thread that has none yet
\* still has its own to come.
Unnumbered(locals) == {t \in Threads : locals[t].at \in Owing}
Bound == begun - Cardinality(Unnumbered(serving))
NumbersAsked ==
  /\ state.seq <= Bound
  /\ \A t \in Threads : serving[t].at = "store seq" =>
       serving[t].read \in Nat /\ serving[t].read <= Bound

\* No money vanishes, however requests overlap.
NothingLost ==
  /\ state.wallet >= StartCents - Spent
  /\ \A t \in Threads : serving[t].at = "store wallet" => serving[t].read >= StartCents - Spent

\* The balance after the last entry of a ledger, and a ledger whose entries follow on
\* each other.
LastBalance(ledger) == IF ledger = <<>> THEN StartCents ELSE ledger[Len(ledger)].balance
LedgerSound(ledger) ==
  /\ \A i \in DOMAIN ledger :
       /\ ledger[i].id = i
       /\ ledger[i].balance = (IF i = 1 THEN StartCents ELSE ledger[i - 1].balance)
                                - ledger[i].amount - ledger[i].fee
  /\ LastBalance(ledger) = StartCents - PaidOut(ledger)

\* What the one thread that serves a transfer has read still holds.
Serves(x, s) ==
  /\ x.at = "load wallet" => s.wallet >= x.amount + Fee
  /\ x.at = "store wallet" => x.read = s.wallet /\ s.wallet >= x.amount + Fee
  /\ x.at = "store seq" => x.read = s.seq
  /\ x.at = "read balance" \/ x.at = "append" => x.id = s.seq
  /\ x.at = "append" \/ x.at = "show" => x.read = s.wallet
  /\ s.seq = Len(s.transactions) + (IF x.at \in Numbered THEN 1 ELSE 0)

PaysAlone ==
  "pay" \notin mixed =>
    /\ \A t, u \in Server!Busy(Server!Pay) : t = u
    /\ state.wallet >= 0 /\ state.wallet = StartCents - Spent
    /\ LedgerSound(state.transactions)
    /\ \A t \in Server!Busy(Server!Pay) : Serves(serving[t], state)
    /\ Server!Busy(Server!Pay) = {} => state.seq = Len(state.transactions)

NotifiesAlone ==
  "notify" \notin mixed =>
    /\ \A t, u \in Server!Busy(Server!Notify) : t = u
    /\ \A i \in DOMAIN state.notifications : state.notifications[i] = i
    /\ \A t \in Server!Busy(Server!Notify) : serving[t].id = Len(state.notifications) + 1

ServerInv == ServerTyped /\ NumbersAsked /\ NothingLost /\ PaysAlone /\ NotifiesAlone

\* What a step of one thread changes in the counts.
Asks(x) == IF x.at \in Owing THEN 1 ELSE 0

LEMMA ServerMoved ==
  ASSUME ServerTyped, NEW t \in Threads, NEW y \in Locals, serving' = [serving EXCEPT ![t] = y]
  PROVE  /\ serving[t] \in Locals /\ serving' \in [Threads -> Locals]
         /\ serving'[t] = y /\ \A u \in Threads \ {t} : serving'[u] = serving[u]
         /\ InFlight(serving') = InFlight(serving) - Paid(serving[t]) + Paid(y)
         /\ Cardinality(Unnumbered(serving')) =
              Cardinality(Unnumbered(serving)) - Asks(serving[t]) + Asks(y)
         /\ \A P : /\ t \in Server!Busy(P)' <=> y.at \in P
                  /\ \A u \in Threads \ {t} : u \in Server!Busy(P)' <=> u \in Server!Busy(P)
<1>1. /\ serving \in [Threads -> Locals] /\ serving[t] \in Locals /\ serving' \in [Threads -> Locals]
      /\ serving'[t] = y /\ \A u \in Threads \ {t} : serving'[u] = serving[u]
  BY DEF ServerTyped
<1>2. InFlight(serving') = InFlight(serving) - Paid(serving[t]) + Paid(y)
  BY <1>1, InFlightMoved
<1>3. \A P : /\ t \in Server!Busy(P)' <=> y.at \in P
            /\ \A u \in Threads \ {t} : u \in Server!Busy(P)' <=> u \in Server!Busy(P)
  BY <1>1 DEF Server!Busy
<1>4. Cardinality(Unnumbered(serving')) = Cardinality(Unnumbered(serving)) - Asks(serving[t]) + Asks(y)
  <2> DEFINE A == Unnumbered(serving)
             B == Unnumbered(serving')
  <2>1. IsFiniteSet(A) /\ IsFiniteSet(B) /\ Cardinality(A) \in Nat
    BY ServerNumbers, FS_Subset, FS_CardinalityType DEF Unnumbered
  <2>2. \A u \in Threads : u # t => (u \in A <=> u \in B)
    BY <1>1 DEF Unnumbered
  <2>3. (t \in A <=> serving[t].at \in Owing) /\ (t \in B <=> y.at \in Owing)
    BY <1>1 DEF Unnumbered
  <2>4. A \subseteq Threads /\ B \subseteq Threads
    BY DEF Unnumbered
  <2> HIDE DEF A, B
  <2>5. CASE t \in A /\ t \in B
    <3>1. A = B
      BY <2>2, <2>4, <2>5
    <3> QED BY <2>1, <2>3, <2>5, <3>1 DEF Asks, A, B
  <2>6. CASE t \notin A /\ t \notin B
    <3>1. A = B
      BY <2>2, <2>4, <2>6
    <3> QED BY <2>1, <2>3, <2>6, <3>1 DEF Asks, A, B
  <2>7. CASE t \in A /\ t \notin B
    <3>1. B = A \ {t}
      BY <2>2, <2>4, <2>7
    <3>2. Cardinality(B) = Cardinality(A) - 1
      BY <2>1, <2>7, <3>1, FS_RemoveElement
    <3> QED BY <2>1, <2>3, <2>7, <3>2 DEF Asks, A, B
  <2>8. CASE t \notin A /\ t \in B
    <3>1. B = A \cup {t}
      BY <2>2, <2>4, <2>8
    <3>2. Cardinality(B) = Cardinality(A) + 1
      BY <2>1, <2>8, <3>1, FS_AddElement
    <3> QED BY <2>1, <2>3, <2>8, <3>2 DEF Asks, A, B
  <2> QED BY <2>5, <2>6, <2>7, <2>8
<1>5. QED
  BY <1>1, <1>2, <1>3, <1>4

\* The numbers the sums and counts are.
LEMMA ServerCounts ==
  ASSUME ServerTyped
  PROVE  /\ PaidOut(state.transactions) \in Nat /\ InFlight(serving) \in Nat /\ Spent \in Nat
         /\ Cardinality(Unnumbered(serving)) \in Nat /\ begun \in Nat /\ Bound \in Int
         /\ \A t \in Threads : Paid(serving[t]) \in Nat /\ Asks(serving[t]) \in {0, 1}
<1>1. serving \in [Threads -> Locals] /\ state.transactions \in Seq(Entries) /\ begun \in 0 .. MaxRequests
  BY DEF ServerTyped
<1>2. PaidOut(state.transactions) \in Nat /\ InFlight(serving) \in Nat
  BY <1>1, PaidOutNat, InFlightNat
<1>3. Cardinality(Unnumbered(serving)) \in Nat
  BY ServerNumbers, FS_Subset, FS_CardinalityType DEF Unnumbered
<1>4. \A t \in Threads : Paid(serving[t]) \in Nat
  BY <1>1, PaidNat
<1>5. begun \in Nat
  BY <1>1, ServerNumbers
<1>6. \A t \in Threads : Asks(serving[t]) \in {0, 1}
  BY DEF Asks
<1>7. Spent \in Nat
  BY <1>2 DEF Spent
<1>8. QED
  BY <1>2, <1>3, <1>4, <1>5, <1>6, <1>7 DEF Bound

\* Arithmetic.
LEMMA Within == \A n \in Nat : \A m \in 0 .. n : m \in Nat
  OBVIOUS
LEMMA NatIsInt == \A n \in Nat : n \in Int
  OBVIOUS
LEMMA NotMore == \A w \in Int : \A a, f \in Nat : ~(a + f > w) => w >= a + f
  OBVIOUS
LEMMA AtMostMore == \A n \in Nat : \A b, c \in Int : n <= b /\ c >= b => n <= c
  OBVIOUS
LEMMA AtLeastLess ==
  \A m, s, a, b \in Int : m >= s - a /\ b >= a => m >= s - b
  OBVIOUS

LEMMA BoundMoved ==
  ASSUME ServerTyped, begun' \in Nat, NEW c \in Int, NEW e \in Int,
         Cardinality(Unnumbered(serving')) = Cardinality(Unnumbered(serving)) - c + e
  PROVE  Bound' = Bound + (begun' - begun) + c - e
<1>1. Bound' = begun' - Cardinality(Unnumbered(serving'))
  BY DEF Bound, Unnumbered, Owing
<1>2. Bound = begun - Cardinality(Unnumbered(serving))
  BY DEF Bound
<1>3. Cardinality(Unnumbered(serving)) \in Nat /\ begun \in Nat
  BY ServerCounts
<1>4. QED
  BY <1>1, <1>2, <1>3

\* A step of a thread that serves a transfer or shows the wallet, or of one that begins to.
PayStep(t, x, y, w, ledger, q, spent, bound) ==
  /\ x = serving[t] /\ serving' = [serving EXCEPT ![t] = y]
  /\ state' = [wallet |-> w, transactions |-> ledger, files |-> state.files,
               notifications |-> state.notifications, seq |-> q]
  /\ x.at \notin Server!Notify /\ y.at \notin Server!Notify
  /\ begun' \in 0 .. MaxRequests /\ mixed \subseteq mixed'
  /\ "notify" \in mixed' => "notify" \in mixed
  /\ bound = Bound + (begun' - begun) + Asks(x) - Asks(y) /\ bound >= Bound /\ q <= bound
  /\ y.at = "store seq" => y.read \in Nat /\ y.read <= bound
  /\ spent = PaidOut(ledger) + InFlight(serving) - Paid(x) + Paid(y)
  /\ spent >= Spent /\ w >= StartCents - spent
  /\ y.at = "store wallet" => y.read >= StartCents - spent
  /\ "pay" \notin mixed' =>
       /\ \A u \in Server!Busy(Server!Pay) : u = t
       /\ w >= 0 /\ w = StartCents - spent /\ LedgerSound(ledger)
       /\ y.at \in Server!Pay => Serves(y, state')
       /\ y.at \notin Server!Pay => q = Len(ledger)

LEMMA PayStepHolds ==
  ASSUME ServerInv, NEW t \in Threads, NEW x, NEW y \in Locals, NEW w \in Int,
         NEW ledger \in Seq(Entries), NEW q \in Nat, NEW spent \in Int, NEW bound \in Int,
         PayStep(t, x, y, w, ledger, q, spent, bound)
  PROVE  ServerInv'
<1>1. /\ x \in Locals /\ serving' \in [Threads -> Locals]
      /\ serving'[t] = y /\ \A u \in Threads \ {t} : serving'[u] = serving[u]
      /\ InFlight(serving') = InFlight(serving) - Paid(x) + Paid(y)
      /\ Cardinality(Unnumbered(serving')) = Cardinality(Unnumbered(serving)) - Asks(x) + Asks(y)
  BY ServerMoved DEF ServerInv, PayStep
<1>2. /\ t \in Server!Busy(Server!Pay)' <=> y.at \in Server!Pay
      /\ \A u \in Threads \ {t} : u \in Server!Busy(Server!Pay)' <=> u \in Server!Busy(Server!Pay)
      /\ Server!Busy(Server!Pay)' \subseteq Threads
  BY <1>1 DEF Server!Busy, Server!Pay
<1>3. \A u \in Server!Busy(Server!Notify)' : u \in Server!Busy(Server!Notify) /\ serving'[u] = serving[u]
  BY <1>1 DEF Server!Busy, Server!Notify, PayStep
<1>4. /\ state'.wallet = w /\ state'.transactions = ledger /\ state'.seq = q
      /\ state'.notifications = state.notifications
      /\ state' = [wallet |-> state'.wallet, transactions |-> state'.transactions, files |-> state'.files,
              notifications |-> state'.notifications, seq |-> state'.seq]
  BY DEF PayStep
<1>5. ServerTyped'
  BY <1>1, <1>4 DEF ServerInv, ServerTyped, PayStep
<1>6. /\ PaidOut(ledger) \in Nat /\ Paid(x) \in Nat /\ Paid(y) \in Nat /\ InFlight(serving) \in Nat
      /\ Spent \in Nat /\ Bound \in Int /\ begun \in Nat /\ begun' \in Nat
      /\ Cardinality(Unnumbered(serving)) \in Nat /\ Asks(x) \in Int /\ Asks(y) \in Int
  <2>1. Paid(y) \in Nat /\ PaidOut(ledger) \in Nat
    BY PaidNat, PaidOutNat
  <2>2. Asks(x) \in Int /\ Asks(y) \in Int
    BY DEF Asks
  <2>3. begun' \in Nat
    <3>1. MaxRequests \in Nat
      BY ServerNumbers
    <3>2. begun' \in 0 .. MaxRequests
      BY DEF PayStep
    <3> QED BY <3>1, <3>2, Within
  <2>4. ServerTyped
    BY DEF ServerInv
  <2> QED BY <2>1, <2>2, <2>3, <2>4, ServerCounts DEF PayStep
<1>7. Spent' = spent
  <2>1. Spent' = PaidOut(state'.transactions) + InFlight(serving')
    BY DEF Spent, PaidOut, InFlight, Costs, PaidBy, Paid, Stored
  <2>2. PaidOut(state'.transactions) = PaidOut(ledger)
    BY <1>4
  <2>3. Spent' = PaidOut(ledger) + (InFlight(serving) - Paid(x) + Paid(y))
    BY <1>1, <2>1, <2>2
  <2>4. PaidOut(ledger) + (InFlight(serving) - Paid(x) + Paid(y))
          = PaidOut(ledger) + InFlight(serving) - Paid(x) + Paid(y)
    BY <1>6
  <2>5. spent = PaidOut(ledger) + InFlight(serving) - Paid(x) + Paid(y)
    BY DEF PayStep
  <2> QED BY <2>3, <2>4, <2>5
<1>8. Bound' = bound /\ bound >= Bound
  <2>1. ServerTyped
    BY DEF ServerInv
  <2>2. Bound' = Bound + (begun' - begun) + Asks(x) - Asks(y)
    BY <1>1, <1>6, <2>1, BoundMoved
  <2>3. bound = Bound + (begun' - begun) + Asks(x) - Asks(y) /\ bound >= Bound
    BY DEF PayStep
  <2> QED BY <2>2, <2>3
<1>9. NumbersAsked'
  <2> SUFFICES ASSUME NEW u \in Threads, serving'[u].at = "store seq"
               PROVE  serving'[u].read \in Nat /\ serving'[u].read <= bound
    BY <1>4, <1>8 DEF NumbersAsked, PayStep
  <2>1. CASE u = t
    BY <1>1, <2>1 DEF PayStep
  <2>2. CASE u # t
    <3>1. serving'[u] = serving[u]
      BY <1>1, <2>2
    <3>2. serving[u].read \in Nat /\ serving[u].read <= Bound
      BY <3>1 DEF ServerInv, NumbersAsked
    <3> QED BY <1>6, <1>8, <3>1, <3>2, AtMostMore
  <2> QED BY <2>1, <2>2
<1>10. NothingLost'
  <2> SUFFICES ASSUME NEW u \in Threads, serving'[u].at = "store wallet"
               PROVE  serving'[u].read >= StartCents - spent
    BY <1>4, <1>7 DEF NothingLost, PayStep
  <2>1. CASE u = t
    BY <1>1, <2>1 DEF PayStep
  <2>2. CASE u # t
    <3>1. serving'[u] = serving[u]
      BY <1>1, <2>2
    <3>2. serving[u].read >= StartCents - Spent
      BY <3>1 DEF ServerInv, NothingLost
    <3>3. serving[u].read \in Int
      BY DEF ServerInv, ServerTyped, Locals
    <3>4. StartCents \in Int
      BY ServerNumbers, NatIsInt
    <3>5. Spent \in Int
      BY <1>6, NatIsInt
    <3>6. spent >= Spent
      BY DEF PayStep
    <3>7. serving[u].read >= StartCents - spent
      BY <3>2, <3>3, <3>4, <3>5, <3>6, AtLeastLess
    <3> QED BY <3>1, <3>7
  <2> QED BY <2>1, <2>2
<1>11. PaysAlone'
  <2> SUFFICES ASSUME "pay" \notin mixed'
               PROVE  /\ \A u, v \in Server!Busy(Server!Pay)' : u = v
                      /\ w >= 0 /\ w = StartCents - spent /\ LedgerSound(ledger)
                      /\ \A u \in Server!Busy(Server!Pay)' : Serves(serving'[u], state')
                      /\ Server!Busy(Server!Pay)' = {} => q = Len(ledger)
    <3>1. PaysAlone' = ("pay" \notin mixed' =>
            /\ \A u, v \in Server!Busy(Server!Pay)' : u = v
            /\ state'.wallet >= 0 /\ state'.wallet = StartCents - Spent'
            /\ LedgerSound(state'.transactions)
            /\ \A u \in Server!Busy(Server!Pay)' : Serves(serving'[u], state')
            /\ Server!Busy(Server!Pay)' = {} => state'.seq = Len(state'.transactions))
      BY DEF PaysAlone, LedgerSound, LastBalance, Serves, PaidOut, Costs, Numbered
    <3> QED BY <1>4, <1>7, <3>1
  <2>1. \A u \in Server!Busy(Server!Pay)' : u = t /\ y.at \in Server!Pay
    BY <1>2 DEF PayStep
  <2>2. Server!Busy(Server!Pay)' = {} => y.at \notin Server!Pay
    BY <1>2 DEF PayStep
  <2> QED BY <1>1, <2>1, <2>2 DEF PayStep
<1>12. NotifiesAlone'
  <2> SUFFICES ASSUME "notify" \notin mixed'
               PROVE  /\ \A u, v \in Server!Busy(Server!Notify)' : u = v
                      /\ \A i \in DOMAIN state.notifications : state.notifications[i] = i
                      /\ \A u \in Server!Busy(Server!Notify)' :
                           serving'[u].id = Len(state.notifications) + 1
    BY <1>4 DEF NotifiesAlone
  <2>1. "notify" \notin mixed
    BY DEF PayStep
  <2> QED BY <1>3, <2>1 DEF ServerInv, NotifiesAlone
<1>13. QED
  BY <1>5, <1>9, <1>10, <1>11, <1>12 DEF ServerInv

\* What is known where a thread takes a step.
LEMMA ThreadKnows ==
  ASSUME ServerInv, NEW t \in Threads
  PROVE  /\ ServerTyped /\ serving[t] \in Locals
         /\ state.wallet \in Int /\ state.seq \in Nat /\ state.transactions \in Seq(Entries)
         /\ Spent \in Int /\ Bound \in Int /\ state.seq <= Bound
         /\ state.wallet >= StartCents - Spent
         /\ begun \in 0 .. MaxRequests
         /\ ("pay" \notin mixed /\ serving[t].at \in Server!Pay) =>
              /\ \A u \in Server!Busy(Server!Pay) : u = t
              /\ state.wallet >= 0 /\ state.wallet = StartCents - Spent
              /\ LedgerSound(state.transactions)
              /\ Serves(serving[t], state)
<1>1. ServerTyped /\ NumbersAsked /\ NothingLost /\ PaysAlone
  BY DEF ServerInv
<1>2. /\ serving[t] \in Locals /\ state.wallet \in Int /\ state.seq \in Nat
      /\ state.transactions \in Seq(Entries) /\ begun \in 0 .. MaxRequests
  BY <1>1 DEF ServerTyped
<1>3. Spent \in Int /\ Bound \in Int
  BY <1>1, ServerCounts, NatIsInt
<1>4. state.seq <= Bound /\ state.wallet >= StartCents - Spent
  BY <1>1 DEF NumbersAsked, NothingLost
<1>5. ASSUME "pay" \notin mixed, serving[t].at \in Server!Pay
      PROVE  /\ \A u \in Server!Busy(Server!Pay) : u = t
             /\ state.wallet >= 0 /\ state.wallet = StartCents - Spent
             /\ LedgerSound(state.transactions)
             /\ Serves(serving[t], state)
  <2>1. t \in Server!Busy(Server!Pay)
    BY <1>5 DEF Server!Busy
  <2> QED BY <1>1, <1>5, <2>1 DEF PaysAlone
<1>6. QED
  BY <1>1, <1>2, <1>3, <1>4, <1>5

\* A step of a request about payments that changes no field of the server.
PayRead(t, x, y) ==
  /\ x = serving[t] /\ serving' = [serving EXCEPT ![t] = y]
  /\ state' = state /\ begun' = begun /\ mixed' = mixed
  /\ x.at \in Server!Pay /\ y.at \notin Server!Notify
  /\ Paid(y) = Paid(x) /\ Asks(y) <= Asks(x)
  /\ y.at = "store seq" => y.read = state.seq
  /\ y.at = "store wallet" => y.read = state.wallet
  /\ state.wallet >= 0 /\ Serves(x, state) =>
       IF y.at \in Server!Pay THEN Serves(y, state) ELSE state.seq = Len(state.transactions)

LEMMA PayReadHolds ==
  ASSUME ServerInv, NEW t \in Threads, NEW x, NEW y \in Locals, PayRead(t, x, y)
  PROVE  ServerInv'
<1> DEFINE w == state.wallet
           ledger == state.transactions
           q == state.seq
           bound == Bound + Asks(x) - Asks(y)
           spent == Spent
<1>1. /\ ServerTyped /\ w \in Int /\ q \in Nat /\ ledger \in Seq(Entries)
      /\ Spent \in Int /\ Bound \in Int /\ q <= Bound
      /\ w >= StartCents - spent
      /\ begun \in 0 .. MaxRequests
  BY ThreadKnows
<1>2. x.at \notin Server!Notify /\ x = serving[t]
  BY StepNames DEF PayRead
<1>3. Asks(x) \in Int /\ Asks(y) \in Int /\ Asks(y) <= Asks(x)
  <2>1. Asks(x) \in Int /\ Asks(y) \in Int
    BY DEF Asks
  <2> QED BY <2>1 DEF PayRead
<1>4. bound \in Int /\ bound >= Bound /\ bound = Bound + 0 + Asks(x) - Asks(y) /\ q <= bound
  BY <1>1, <1>3
<1>5. /\ state' = [wallet |-> w, transactions |-> ledger, files |-> state.files,
                   notifications |-> state.notifications, seq |-> q]
      /\ begun' = begun /\ mixed' = mixed
  BY <1>1 DEF PayRead, ServerTyped
<1>6. begun' - begun = 0
  <2>1. begun \in Nat
    BY <1>1, ServerCounts
  <2> QED BY <1>5, <2>1
<1>7. spent = PaidOut(ledger) + InFlight(serving) - Paid(x) + Paid(y)
  <2>1. PaidOut(ledger) \in Nat /\ InFlight(serving) \in Nat /\ Paid(x) \in Nat
    BY <1>1, <1>2, ServerCounts
  <2>2. Paid(y) = Paid(x)
    BY DEF PayRead
  <2>3. PaidOut(ledger) + InFlight(serving) = PaidOut(ledger) + InFlight(serving) - Paid(x) + Paid(x)
    BY <2>1
  <2> QED BY <2>2, <2>3 DEF Spent
<1>8. y.at = "store seq" => y.read \in Nat /\ y.read <= bound
  BY <1>1, <1>4 DEF PayRead
<1>9. y.at = "store wallet" => y.read >= StartCents - spent
  BY <1>1 DEF PayRead
<1>10. "pay" \notin mixed' =>
       /\ \A u \in Server!Busy(Server!Pay) : u = t
       /\ w >= 0 /\ w = StartCents - spent /\ LedgerSound(ledger)
       /\ y.at \in Server!Pay => Serves(y, state')
       /\ y.at \notin Server!Pay => q = Len(ledger)
  <2>1. serving[t].at \in Server!Pay /\ mixed' = mixed /\ state' = state
    BY DEF PayRead
  <2>2. ASSUME "pay" \notin mixed
        PROVE  /\ \A u \in Server!Busy(Server!Pay) : u = t
               /\ w >= 0 /\ w = StartCents - spent /\ LedgerSound(ledger) /\ Serves(x, state)
    BY <1>2, <2>1, <2>2, ThreadKnows
  <2>3. w >= 0 /\ Serves(x, state) =>
          IF y.at \in Server!Pay THEN Serves(y, state) ELSE q = Len(ledger)
    BY DEF PayRead
  <2> QED BY <2>1, <2>2, <2>3
<1>11. spent >= Spent
  BY <1>1
<1>12. /\ y.at \notin Server!Notify /\ serving' = [serving EXCEPT ![t] = y]
  BY DEF PayRead
<1> HIDE DEF w, ledger, q, spent, bound
<1>13. PayStep(t, x, y, w, ledger, q, spent, bound)
  <2>1. bound = Bound + (begun' - begun) + Asks(x) - Asks(y)
    BY <1>4, <1>6
  <2> QED BY <1>1, <1>2, <1>4, <1>5, <1>7, <1>8, <1>9, <1>10, <1>11, <1>12, <2>1 DEF PayStep
<1>14. spent \in Int
  BY <1>1 DEF spent
<1>15. QED
  BY <1>1, <1>4, <1>13, <1>14, PayStepHolds

LEMMA LocalsMoved ==
  ASSUME NEW a, NEW b, NEW c, NEW d, NEW at, NEW read, NEW id,
         NEW x, x = [at |-> a, amount |-> b, read |-> c, id |-> d],
         NEW u, u = [x EXCEPT !.at = at],
         NEW v, v = [x EXCEPT !.at = at, !.read = read],
         NEW w, w = [x EXCEPT !.at = at, !.id = id]
  PROVE  /\ u = [at |-> at, amount |-> b, read |-> c, id |-> d]
         /\ v = [at |-> at, amount |-> b, read |-> read, id |-> d]
         /\ w = [at |-> at, amount |-> b, read |-> c, id |-> id]
  OBVIOUS

LEMMA LocalsAre ==
  ASSUME NEW x \in Locals
  PROVE  /\ x.at \in Steps /\ x.amount \in Nat /\ x.read \in Int /\ x.id \in Nat
         /\ \A at :
              [x EXCEPT !.at = at] = [at |-> at, amount |-> x.amount, read |-> x.read, id |-> x.id]
         /\ \A at, read : [x EXCEPT !.at = at, !.read = read] =
                             [at |-> at, amount |-> x.amount, read |-> read, id |-> x.id]
         /\ \A at, id : [x EXCEPT !.at = at, !.id = id] =
                           [at |-> at, amount |-> x.amount, read |-> x.read, id |-> id]
<1>1. x = [at |-> x.at, amount |-> x.amount, read |-> x.read, id |-> x.id]
  BY DEF Locals
<1>2. x.at \in Steps /\ x.amount \in Nat /\ x.read \in Int /\ x.id \in Nat
  BY DEF Locals
<1>3. ASSUME NEW at, NEW read, NEW id
      PROVE  /\ [x EXCEPT !.at = at] = [at |-> at, amount |-> x.amount, read |-> x.read, id |-> x.id]
             /\ [x EXCEPT !.at = at, !.read = read] =
                  [at |-> at, amount |-> x.amount, read |-> read, id |-> x.id]
             /\ [x EXCEPT !.at = at, !.id = id] =
                  [at |-> at, amount |-> x.amount, read |-> x.read, id |-> id]
  <2> DEFINE u == [x EXCEPT !.at = at]
             v == [x EXCEPT !.at = at, !.read = read]
             w == [x EXCEPT !.at = at, !.id = id]
  <2>1. u = [x EXCEPT !.at = at] /\ v = [x EXCEPT !.at = at, !.read = read]
        /\ w = [x EXCEPT !.at = at, !.id = id]
    OBVIOUS
  <2> HIDE DEF u, v, w
  <2>2. /\ u = [at |-> at, amount |-> x.amount, read |-> x.read, id |-> x.id]
        /\ v = [at |-> at, amount |-> x.amount, read |-> read, id |-> x.id]
        /\ w = [at |-> at, amount |-> x.amount, read |-> x.read, id |-> id]
    BY <1>1, <2>1, LocalsMoved
  <2> QED BY <2>1, <2>2
<1>4. QED
  BY <1>2, <1>3

LEMMA LocalsRead ==
  ASSUME NEW x \in Locals, NEW at, NEW read, NEW y, y = [x EXCEPT !.at = at, !.read = read]
  PROVE  y = [at |-> at, amount |-> x.amount, read |-> read, id |-> x.id]
<1>1. x = [at |-> x.at, amount |-> x.amount, read |-> x.read, id |-> x.id]
  BY DEF Locals
<1>2. QED
  BY <1>1

LEMMA PaidAsks ==
  ASSUME NEW x, NEW y
  PROVE  /\ (x.at \in Owing \/ y.at \notin Owing) => Asks(y) <= Asks(x)
         /\ (x.at \in Stored <=> y.at \in Stored) /\ y.amount = x.amount => Paid(y) = Paid(x)
         /\ x.at \notin Stored /\ y.at \notin Stored => Paid(y) = Paid(x)
<1>1. (x.at \in Owing \/ y.at \notin Owing) => Asks(y) <= Asks(x)
  <2>1. CASE x.at \in Owing
    BY <2>1 DEF Asks
  <2>2. CASE x.at \notin Owing /\ y.at \notin Owing
    BY <2>2 DEF Asks
  <2> QED BY <2>1, <2>2
<1>2. QED
  BY <1>1 DEF Paid

LEMMA IdleIs ==
  /\ Server!Idle \in Locals /\ Server!Idle.at = "idle" /\ Paid(Server!Idle) = 0
  /\ Asks(Server!Idle) = 0
<1>1. Server!Idle \in Locals /\ Server!Idle.at = "idle"
  <2>1. Server!Idle = [at |-> "idle", amount |-> 0, read |-> 0, id |-> 0]
    BY DEF Server!Idle
  <2>2. "idle" \in Steps
    BY StepNames
  <2>3. \A at \in Steps : \A amount, id \in Nat : \A read \in Int :
          [at |-> at, amount |-> amount, read |-> read, id |-> id] \in Locals
    BY DEF Locals
  <2>4. 0 \in Nat /\ 0 \in Int
    OBVIOUS
  <2> QED BY <2>1, <2>2, <2>3, <2>4
<1>2. QED
  BY <1>1, StepNames DEF Paid, Asks

LEMMA CheckHolds == ASSUME ServerInv, NEW t \in Threads, Server!Check(t) PROVE ServerInv'
<1> DEFINE x == serving[t]
           up == [x EXCEPT !.at = "load wallet"]
           y == IF Server!Cost(x.amount) > state.wallet THEN Server!Idle ELSE up
<1>1. x \in Locals /\ x.at = "check"
  BY ThreadKnows DEF Server!Check, Server!Local
<1>2. up = [at |-> "load wallet", amount |-> x.amount, read |-> x.read, id |-> x.id] /\ x.amount \in Nat
  BY <1>1, LocalsAre
<1>3. up \in Locals /\ up.at = "load wallet" /\ up.amount = x.amount
  BY <1>1, <1>2, LocalsAre, StepNames DEF Locals
<1>4. y \in Locals /\ (y = Server!Idle \/ y = up)
  BY <1>3, IdleIs
<1>5. Paid(x) = 0 /\ Paid(y) = 0 /\ Asks(x) = 1 /\ Asks(y) \in {0, 1}
  BY <1>1, <1>3, <1>4, IdleIs, StepNames DEF Paid, Asks
<1>6. /\ state' = state /\ begun' = begun /\ mixed' = mixed /\ serving' = [serving EXCEPT ![t] = y]
  BY DEF Server!Check, Server!Goes, Server!Local
<1>7. /\ x.at \in Server!Pay /\ y.at \notin Server!Notify
      /\ y.at # "store seq" /\ y.at # "store wallet"
  BY <1>1, <1>3, <1>4, IdleIs, StepNames
<1>8. state.wallet >= 0 /\ Serves(x, state) =>
       IF y.at \in Server!Pay THEN Serves(y, state) ELSE state.seq = Len(state.transactions)
  <2> SUFFICES ASSUME Serves(x, state)
               PROVE  IF y.at \in Server!Pay THEN Serves(y, state)
                      ELSE state.seq = Len(state.transactions)
    OBVIOUS
  <2>1. state.seq = Len(state.transactions)
    <3>1. Len(state.transactions) \in Nat
      BY ThreadKnows
    <3>2. state.seq = Len(state.transactions) + 0
      BY <1>1, StepNames DEF Serves
    <3> QED BY <3>1, <3>2
  <2>2. CASE y = Server!Idle
    BY <2>1, <2>2, IdleIs, StepNames
  <2>3. CASE ~(Server!Cost(x.amount) > state.wallet)
    <3>1. y = up /\ state.wallet \in Int /\ Fee \in Nat
      BY <2>3, ThreadKnows, ServerNumbers
    <3>2. state.wallet >= x.amount + Fee
      <4>1. ~(x.amount + Fee > state.wallet) /\ x.amount \in Nat
        BY <1>2, <2>3 DEF Server!Cost
      <4> QED BY <3>1, <4>1, NotMore
    <3>3. state.seq = Len(state.transactions) + 0
      BY <1>1, StepNames DEF Serves
    <3> QED BY <1>3, <2>1, <3>1, <3>2, <3>3, StepNames DEF Serves
  <2> QED BY <2>2, <2>3
<1> HIDE DEF x, y, up
<1>9. PayRead(t, x, y)
  <2>1. x = serving[t]
    BY DEF x
  <2>2. Asks(y) <= Asks(x)
    BY <1>5
  <2> QED BY <1>5, <1>6, <1>7, <1>8, <2>1, <2>2 DEF PayRead
<1>10. QED
  BY <1>4, <1>9, PayReadHolds

LEMMA LoadWalletHolds == ASSUME ServerInv, NEW t \in Threads, Server!LoadWallet(t) PROVE ServerInv'
<1> DEFINE x == serving[t]
           y == [x EXCEPT !.at = "store wallet", !.read = state.wallet]
<1>1. x \in Locals /\ x.at = "load wallet" /\ state.wallet \in Int
  BY ThreadKnows DEF Server!LoadWallet, Server!Reads, Server!Local
<1>2. y = [x EXCEPT !.at = "store wallet", !.read = state.wallet]
  OBVIOUS
<1>3. /\ y = [at |-> "store wallet", amount |-> x.amount, read |-> state.wallet, id |-> x.id]
      /\ x.amount \in Nat /\ x.id \in Nat
  <2> HIDE DEF x, y
  <2>1. x.amount \in Nat /\ x.id \in Nat
    BY <1>1, LocalsAre
  <2> QED BY <1>1, <1>2, <2>1, LocalsRead
<1>4. y \in Locals /\ y.at = "store wallet" /\ y.amount = x.amount /\ y.read = state.wallet
  BY <1>1, <1>3, StepNames DEF Locals
<1>5. /\ state' = state /\ begun' = begun /\ mixed' = mixed /\ serving' = [serving EXCEPT ![t] = y]
  BY DEF Server!LoadWallet, Server!Reads, Server!Goes, Server!Local
<1>6. Serves(x, state) => Serves(y, state)
  BY <1>1, <1>4, StepNames DEF Serves
<1> HIDE DEF y
<1>7. Paid(y) = Paid(x) /\ Asks(y) <= Asks(x)
  BY <1>1, <1>4, StepNames, PaidAsks
<1>8. PayRead(t, x, y)
  BY <1>1, <1>4, <1>5, <1>6, <1>7, StepNames DEF PayRead
<1>9. QED
  BY <1>4, <1>8, PayReadHolds

LEMMA LoadSeqHolds == ASSUME ServerInv, NEW t \in Threads, Server!LoadSeq(t) PROVE ServerInv'
<1> DEFINE x == serving[t]
           y == [x EXCEPT !.at = "store seq", !.read = state.seq]
<1>1. x \in Locals /\ x.at = "load seq" /\ state.seq \in Int
  BY ThreadKnows, NatIsInt DEF Server!LoadSeq, Server!Reads, Server!Local
<1>2. y = [x EXCEPT !.at = "store seq", !.read = state.seq]
  OBVIOUS
<1>3. /\ y = [at |-> "store seq", amount |-> x.amount, read |-> state.seq, id |-> x.id]
      /\ x.amount \in Nat /\ x.id \in Nat
  <2> HIDE DEF x, y
  <2>1. x.amount \in Nat /\ x.id \in Nat
    BY <1>1, LocalsAre
  <2> QED BY <1>1, <1>2, <2>1, LocalsRead
<1>4. y \in Locals /\ y.at = "store seq" /\ y.amount = x.amount /\ y.read = state.seq
  BY <1>1, <1>3, StepNames DEF Locals
<1>5. /\ state' = state /\ begun' = begun /\ mixed' = mixed /\ serving' = [serving EXCEPT ![t] = y]
  BY DEF Server!LoadSeq, Server!Reads, Server!Goes, Server!Local
<1>6. Serves(x, state) => Serves(y, state)
  BY <1>1, <1>4, StepNames DEF Serves
<1> HIDE DEF y
<1>7. Paid(y) = Paid(x) /\ Asks(y) <= Asks(x)
  BY <1>1, <1>4, StepNames, PaidAsks
<1>8. PayRead(t, x, y)
  BY <1>1, <1>4, <1>5, <1>6, <1>7, StepNames DEF PayRead
<1>9. QED
  BY <1>4, <1>8, PayReadHolds

LEMMA ReadIdHolds == ASSUME ServerInv, NEW t \in Threads, Server!ReadId(t) PROVE ServerInv'
<1> DEFINE x == serving[t]
           y == [x EXCEPT !.at = "read balance", !.id = state.seq]
<1>1. x \in Locals /\ x.at = "read id" /\ state.seq \in Nat
  BY ThreadKnows DEF Server!ReadId, Server!Local
<1>2. /\ y = [at |-> "read balance", amount |-> x.amount, read |-> x.read, id |-> state.seq]
      /\ x.amount \in Nat /\ x.read \in Int
  BY <1>1, LocalsAre
<1>3. y \in Locals /\ y.at = "read balance" /\ y.amount = x.amount /\ y.id = state.seq
  BY <1>1, <1>2, StepNames DEF Locals
<1>4. /\ state' = state /\ begun' = begun /\ mixed' = mixed /\ serving' = [serving EXCEPT ![t] = y]
  BY DEF Server!ReadId, Server!Goes, Server!Local
<1>5. Serves(x, state) => Serves(y, state)
  BY <1>1, <1>3, StepNames DEF Serves
<1> HIDE DEF y
<1>6. Paid(y) = Paid(x) /\ Asks(y) <= Asks(x)
  BY <1>1, <1>3, StepNames, PaidAsks
<1>7. PayRead(t, x, y)
  BY <1>1, <1>3, <1>4, <1>5, <1>6, StepNames DEF PayRead
<1>8. QED
  BY <1>3, <1>7, PayReadHolds

LEMMA ReadBalanceHolds == ASSUME ServerInv, NEW t \in Threads, Server!ReadBalance(t) PROVE ServerInv'
<1> DEFINE x == serving[t]
           y == [x EXCEPT !.at = "append", !.read = state.wallet]
<1>1. x \in Locals /\ x.at = "read balance" /\ state.wallet \in Int
  BY ThreadKnows DEF Server!ReadBalance, Server!Reads, Server!Local
<1>2. y = [x EXCEPT !.at = "append", !.read = state.wallet]
  OBVIOUS
<1>3. /\ y = [at |-> "append", amount |-> x.amount, read |-> state.wallet, id |-> x.id]
      /\ x.amount \in Nat /\ x.id \in Nat
  <2> HIDE DEF x, y
  <2>1. x.amount \in Nat /\ x.id \in Nat
    BY <1>1, LocalsAre
  <2> QED BY <1>1, <1>2, <2>1, LocalsRead
<1>4. y \in Locals /\ y.at = "append" /\ y.amount = x.amount /\ y.read = state.wallet /\ y.id = x.id
  BY <1>1, <1>3, StepNames DEF Locals
<1>5. /\ state' = state /\ begun' = begun /\ mixed' = mixed /\ serving' = [serving EXCEPT ![t] = y]
  BY DEF Server!ReadBalance, Server!Reads, Server!Goes, Server!Local
<1>6. Serves(x, state) => Serves(y, state)
  BY <1>1, <1>4, StepNames DEF Serves
<1> HIDE DEF y
<1>7. Paid(y) = Paid(x) /\ Asks(y) <= Asks(x)
  BY <1>1, <1>4, StepNames, PaidAsks
<1>8. PayRead(t, x, y)
  BY <1>1, <1>4, <1>5, <1>6, <1>7, StepNames DEF PayRead
<1>9. QED
  BY <1>4, <1>8, PayReadHolds

LEMMA ShowHolds == ASSUME ServerInv, NEW t \in Threads, Server!Show(t) PROVE ServerInv'
<1> DEFINE x == serving[t]
           y == Server!Idle
<1>1. x \in Locals /\ x.at = "show"
  BY ThreadKnows DEF Server!Show, Server!Local
<1>2. y \in Locals /\ y.at = "idle"
  BY IdleIs
<1>3. /\ state' = state /\ begun' = begun /\ mixed' = mixed /\ serving' = [serving EXCEPT ![t] = y]
  BY DEF Server!Show, Server!Goes, Server!Local
<1>4. Serves(x, state) => state.seq = Len(state.transactions)
  <2>1. Len(state.transactions) \in Nat
    BY ThreadKnows
  <2>2. Serves(x, state) => state.seq = Len(state.transactions) + 0
    BY <1>1, StepNames DEF Serves
  <2> QED BY <2>1, <2>2
<1> HIDE DEF y
<1>5. Paid(y) = Paid(x) /\ Asks(y) <= Asks(x)
  <2>1. x.at \notin Stored /\ y.at \notin Stored /\ y.at \notin Owing
    BY <1>1, <1>2, StepNames
  <2> QED BY <2>1, PaidAsks
<1>6. PayRead(t, x, y)
  BY <1>1, <1>2, <1>3, <1>4, <1>5, StepNames DEF PayRead
<1>7. QED
  BY <1>2, <1>6, PayReadHolds

LEMMA StoreWalletHolds == ASSUME ServerInv, NEW t \in Threads, Server!StoreWallet(t) PROVE ServerInv'
<1> DEFINE x == serving[t]
           y == [x EXCEPT !.at = "load seq"]
           cost == x.amount + Fee
           w == x.read - cost
           ledger == state.transactions
           q == state.seq
           bound == Bound
           spent == Spent + cost
<1>1. x \in Locals /\ x.at = "store wallet"
  BY ThreadKnows DEF Server!StoreWallet, Server!Local
<1>2. /\ y = [at |-> "load seq", amount |-> x.amount, read |-> x.read, id |-> x.id]
      /\ x.amount \in Nat /\ x.id \in Nat /\ x.read \in Int
  BY <1>1, LocalsAre
<1>3. y \in Locals /\ y.at = "load seq" /\ y.amount = x.amount
  BY <1>1, <1>2, StepNames DEF Locals
<1>4. /\ ServerTyped /\ q \in Nat /\ ledger \in Seq(Entries)
      /\ Spent \in Int /\ Bound \in Int /\ q <= Bound
      /\ begun \in 0 .. MaxRequests
  BY ThreadKnows
<1>5. /\ state' = [wallet |-> w, transactions |-> ledger, files |-> state.files,
                   notifications |-> state.notifications, seq |-> q]
      /\ begun' = begun /\ mixed' = mixed /\ serving' = [serving EXCEPT ![t] = y]
  <2>1. /\ state' = [state EXCEPT !.wallet = w] /\ begun' = begun /\ mixed' = mixed
        /\ serving' = [serving EXCEPT ![t] = y]
    BY DEF Server!StoreWallet, Server!Goes, Server!Local, Server!Cost
  <2>2. state = [wallet |-> state.wallet, transactions |-> ledger, files |-> state.files,
                 notifications |-> state.notifications, seq |-> q]
    BY <1>4 DEF ServerTyped
  <2> HIDE DEF w, y, ledger, q
  <2> QED BY <2>1, <2>2
<1>6. begun' - begun = 0
  <2>1. begun \in Nat
    BY <1>4, ServerCounts
  <2>2. begun' = begun
    BY <1>5
  <2> HIDE DEF x, y, w, q, ledger, bound, spent
  <2> QED BY <2>1, <2>2
<1>7. Asks(x) = 1 /\ Asks(y) = 1 /\ Paid(x) = 0 /\ Paid(y) = cost
  BY <1>1, <1>3, StepNames DEF Asks, Paid
<1>8. x.read >= StartCents - Spent
  BY <1>1 DEF ServerInv, NothingLost
<1>9. x.amount \in Nat /\ x.read \in Int
  BY <1>2
<1>10. StartCents \in Nat /\ Fee \in Nat /\ cost \in Nat
  <2> HIDE DEF x
  <2>1. StartCents \in Nat /\ Fee \in Nat
    BY ServerNumbers
  <2> QED BY <1>9, <2>1
<1>11. w \in Int /\ spent \in Int /\ spent >= Spent /\ w >= StartCents - spent
  <2> HIDE DEF x, cost, q, ledger
  <2>1. Spent \in Int
    BY <1>4
  <2> QED BY <1>9, <1>8, <1>10, <2>1
<1>12. spent = PaidOut(ledger) + InFlight(serving) - Paid(x) + Paid(y)
  <2>1. PaidOut(ledger) \in Nat /\ InFlight(serving) \in Nat
    BY <1>4, ServerCounts
  <2>2. Spent = PaidOut(ledger) + InFlight(serving)
    BY DEF Spent
  <2>3. PaidOut(ledger) + InFlight(serving) + cost = PaidOut(ledger) + InFlight(serving) - 0 + cost
    BY <1>10, <2>1
  <2> QED BY <1>7, <2>2, <2>3
<1>13. bound = Bound + (begun' - begun) + Asks(x) - Asks(y)
  <2>1. Bound = Bound + 0 + 1 - 1
    BY <1>4
  <2> QED BY <1>6, <1>7, <2>1
<1>14. "pay" \notin mixed' =>
       /\ \A u \in Server!Busy(Server!Pay) : u = t
       /\ w >= 0 /\ w = StartCents - spent /\ LedgerSound(ledger)
       /\ y.at \in Server!Pay => Serves(y, state')
       /\ y.at \notin Server!Pay => q = Len(ledger)
  <2> SUFFICES ASSUME "pay" \notin mixed
               PROVE  /\ \A u \in Server!Busy(Server!Pay) : u = t
                      /\ w >= 0 /\ w = StartCents - spent /\ LedgerSound(ledger)
                      /\ Serves(y, state')
    BY <1>3, <1>5, StepNames
  <2>1. /\ \A u \in Server!Busy(Server!Pay) : u = t
        /\ state.wallet = StartCents - Spent
        /\ LedgerSound(ledger) /\ Serves(x, state)
    BY <1>1, StepNames, ThreadKnows
  <2>2. x.read = state.wallet /\ state.wallet >= cost /\ q = Len(ledger) + 0
    BY <1>1, <2>1, StepNames DEF Serves
  <2>3. w = StartCents - spent
    <3> HIDE DEF x, cost, q, ledger
    <3>1. Spent \in Int
      BY <1>4
    <3> QED BY <1>9, <1>10, <2>1, <2>2, <3>1
  <2>4. w >= 0
    <3> HIDE DEF x, cost, q, ledger
    <3> QED BY <1>9, <1>10, <2>2
  <2>5. Serves(y, state')
    <3>1. state'.seq = q /\ state'.transactions = ledger
      BY <1>5
    <3> HIDE DEF y, q, ledger
    <3> QED BY <1>3, <2>2, <3>1, StepNames DEF Serves
  <2> QED BY <2>1, <2>3, <2>4, <2>5
<1>15. /\ x = serving[t] /\ x.at \notin Server!Notify /\ y.at \notin Server!Notify
       /\ y.at # "store seq" /\ y.at # "store wallet"
  BY <1>1, <1>3, StepNames
<1>16. bound \in Int /\ bound >= Bound /\ q <= bound
  BY <1>4
<1> HIDE DEF x, y, cost, w, ledger, q, bound, spent
<1>17. PayStep(t, x, y, w, ledger, q, spent, bound)
  BY <1>4, <1>5, <1>11, <1>12, <1>13, <1>14, <1>15, <1>16 DEF PayStep
<1>18. QED
  BY <1>3, <1>4, <1>11, <1>16, <1>17, PayStepHolds

LEMMA StoreSeqHolds == ASSUME ServerInv, NEW t \in Threads, Server!StoreSeq(t) PROVE ServerInv'
<1> DEFINE x == serving[t]
           y == [x EXCEPT !.at = "read id"]
           w == state.wallet
           ledger == state.transactions
           q == x.read + 1
           bound == Bound + 1
           spent == Spent
<1>1. x \in Locals /\ x.at = "store seq"
  BY ThreadKnows DEF Server!StoreSeq, Server!Local
<1>2. /\ y = [at |-> "read id", amount |-> x.amount, read |-> x.read, id |-> x.id]
      /\ x.amount \in Nat /\ x.id \in Nat /\ x.read \in Int
  BY <1>1, LocalsAre
<1>3. y \in Locals /\ y.at = "read id" /\ y.amount = x.amount
  BY <1>1, <1>2, StepNames DEF Locals
<1>4. /\ ServerTyped /\ w \in Int /\ ledger \in Seq(Entries)
      /\ Spent \in Int /\ Bound \in Int /\ w >= StartCents - spent
      /\ begun \in 0 .. MaxRequests
  BY ThreadKnows
<1>5. /\ state' = [wallet |-> w, transactions |-> ledger, files |-> state.files,
                   notifications |-> state.notifications, seq |-> q]
      /\ begun' = begun /\ mixed' = mixed /\ serving' = [serving EXCEPT ![t] = y]
  <2>1. /\ state' = [state EXCEPT !.seq = q] /\ begun' = begun /\ mixed' = mixed
        /\ serving' = [serving EXCEPT ![t] = y]
    BY DEF Server!StoreSeq, Server!Goes, Server!Local
  <2>2. state = [wallet |-> w, transactions |-> ledger, files |-> state.files,
                 notifications |-> state.notifications, seq |-> state.seq]
    BY <1>4 DEF ServerTyped
  <2> HIDE DEF w, y, ledger, q
  <2> QED BY <2>1, <2>2
<1>6. begun' - begun = 0
  <2>1. begun \in Nat
    BY <1>4, ServerCounts
  <2>2. begun' = begun
    BY <1>5
  <2> HIDE DEF x, y, w, q, ledger, bound, spent
  <2> QED BY <2>1, <2>2
<1>7. Asks(x) = 1 /\ Asks(y) = 0 /\ Paid(y) = Paid(x)
  <2>1. Paid(y) = Paid(x)
    <3>1. x.at \in Stored <=> y.at \in Stored
      BY <1>1, <1>3, StepNames
    <3> HIDE DEF x, y
    <3> QED BY <1>3, <3>1, PaidAsks
  <2> QED BY <1>1, <1>3, <2>1, StepNames DEF Asks
<1>8. x.read \in Nat /\ x.read <= Bound
  BY <1>1 DEF ServerInv, NumbersAsked
<1>9. q \in Nat /\ bound \in Int /\ bound >= Bound /\ q <= bound
  BY <1>4, <1>8
<1>10. spent = PaidOut(ledger) + InFlight(serving) - Paid(x) + Paid(y)
  <2>1. PaidOut(ledger) \in Nat /\ InFlight(serving) \in Nat /\ Paid(x) \in Nat
    BY <1>4, ServerCounts
  <2>2. Spent = PaidOut(ledger) + InFlight(serving)
    BY DEF Spent
  <2>3. PaidOut(ledger) + InFlight(serving) = PaidOut(ledger) + InFlight(serving) - Paid(x) + Paid(x)
    BY <2>1
  <2> QED BY <1>7, <2>2, <2>3
<1>11. bound = Bound + (begun' - begun) + Asks(x) - Asks(y)
  <2>1. Bound + 1 = Bound + 0 + 1 - 0
    BY <1>4
  <2> QED BY <1>6, <1>7, <2>1
<1>12. "pay" \notin mixed' =>
       /\ \A u \in Server!Busy(Server!Pay) : u = t
       /\ w >= 0 /\ w = StartCents - spent /\ LedgerSound(ledger)
       /\ y.at \in Server!Pay => Serves(y, state')
       /\ y.at \notin Server!Pay => q = Len(ledger)
  <2> SUFFICES ASSUME "pay" \notin mixed
               PROVE  /\ \A u \in Server!Busy(Server!Pay) : u = t
                      /\ w >= 0 /\ w = StartCents - spent /\ LedgerSound(ledger)
                      /\ Serves(y, state')
    BY <1>3, <1>5, StepNames
  <2>1. /\ \A u \in Server!Busy(Server!Pay) : u = t
        /\ w >= 0 /\ w = StartCents - Spent
        /\ LedgerSound(ledger) /\ Serves(x, state)
    BY <1>1, StepNames, ThreadKnows
  <2>2. x.read = state.seq /\ state.seq = Len(ledger) + 0
    BY <1>1, <2>1, StepNames DEF Serves
  <2>3. q = Len(ledger) + 1
    <3>1. Len(ledger) \in Nat
      BY <1>4
    <3> QED BY <2>2, <3>1
  <2>4. Serves(y, state')
    <3>1. state'.seq = q /\ state'.transactions = ledger
      BY <1>5
    <3> HIDE DEF y, q, ledger
    <3> QED BY <1>3, <2>3, <3>1, StepNames DEF Serves
  <2> QED BY <2>1, <2>4
<1>13. /\ x = serving[t] /\ x.at \notin Server!Notify /\ y.at \notin Server!Notify
       /\ y.at # "store seq" /\ y.at # "store wallet"
  BY <1>1, <1>3, StepNames
<1>14. spent >= Spent
  BY <1>4
<1> HIDE DEF x, y, w, ledger, q, bound, spent
<1>15. PayStep(t, x, y, w, ledger, q, spent, bound)
  BY <1>4, <1>5, <1>9, <1>10, <1>11, <1>12, <1>13, <1>14 DEF PayStep
<1>16. spent \in Int
  BY <1>4 DEF spent
<1>17. QED
  BY <1>3, <1>4, <1>9, <1>15, <1>16, PayStepHolds

LEMMA NoneInFlight ==
  ASSUME ServerTyped, Server!Busy(Server!Pay \ {"show"}) = {}
  PROVE  InFlight(serving) = 0
<1>1. \A u \in Threads : PaidBy(serving)[u] = 0
  <2> SUFFICES ASSUME NEW u \in Threads PROVE Paid(serving[u]) = 0
    BY DEF PaidBy
  <2>1. serving[u].at \notin Server!Pay \ {"show"}
    BY DEF Server!Busy
  <2> QED BY <2>1, StepNames DEF Paid
<1>2. QED
  BY <1>1, ServerNumbers, SumZero DEF InFlight

LEMMA OneInFlight ==
  ASSUME ServerTyped, NEW t \in Threads, \A u \in Server!Busy(Server!Pay) : u = t
  PROVE  InFlight(serving) = Paid(serving[t])
<1> DEFINE f == PaidBy(serving)
<1>1. \A u \in Threads \ {t} : f[u] = 0
  <2> SUFFICES ASSUME NEW u \in Threads \ {t} PROVE Paid(serving[u]) = 0
    BY DEF PaidBy
  <2>1. serving[u].at \notin Server!Pay
    BY DEF Server!Busy
  <2> QED BY <2>1, StepNames DEF Paid
<1>2. f[t] = Paid(serving[t]) /\ \A u \in Threads : f[u] \in Nat
  <2>1. \A u \in Threads : f[u] = Paid(serving[u])
    BY DEF PaidBy
  <2> QED BY <2>1, ServerCounts
<1>3. \A u \in Threads : f[u] \in Int
  BY <1>2, NatIsInt
<1>4. SumFunctionOnSet(f, Threads \ {t}) = 0
  <2>1. IsFiniteSet(Threads \ {t})
    BY ServerNumbers, FS_Subset
  <2> QED BY <1>1, <2>1, SumZero
<1>5. SumFunctionOnSet(f, Threads) = f[t] + SumFunctionOnSet(f, Threads \ {t})
  BY <1>3, ServerNumbers, SumRemove
<1> HIDE DEF f
<1>6. f[t] + 0 = f[t]
  BY <1>2
<1>7. QED
  BY <1>2, <1>4, <1>5, <1>6 DEF InFlight, f

LEMMA LedgerAppended ==
  ASSUME NEW ledger \in Seq(Entries), NEW e \in Entries, LedgerSound(ledger),
         e.id = Len(ledger) + 1, e.balance = StartCents - PaidOut(ledger) - e.amount - e.fee
  PROVE  LedgerSound(Append(ledger, e))
<1> DEFINE n == Len(ledger)
           more == Append(ledger, e)
<1>1. /\ n \in Nat /\ DOMAIN ledger = 1 .. n /\ DOMAIN more = 1 .. n + 1 /\ Len(more) = n + 1
      /\ more[n + 1] = e /\ (\A i \in 1 .. n : more[i] = ledger[i]) /\ more # <<>>
  OBVIOUS
<1>2. PaidOut(more) = PaidOut(ledger) + e.amount + e.fee
  BY PaidOutAppended
<1>3. /\ PaidOut(ledger) \in Int /\ e.amount \in Int /\ e.fee \in Int /\ StartCents \in Int
  <2>1. e.amount \in Nat /\ e.fee \in Nat
    BY DEF Entries
  <2> QED BY <2>1, PaidOutNat, ServerNumbers, NatIsInt
<1>4. LastBalance(more) = e.balance
  BY <1>1 DEF LastBalance
<1>5. LastBalance(more) = StartCents - PaidOut(more)
  <2> HIDE DEF more
  <2> QED BY <1>2, <1>3, <1>4
<1>6. LastBalance(ledger) = StartCents - PaidOut(ledger)
  BY DEF LedgerSound
<1>7. ASSUME NEW i \in DOMAIN more
      PROVE  /\ more[i].id = i
             /\ more[i].balance = (IF i = 1 THEN StartCents ELSE more[i - 1].balance)
                                    - more[i].amount - more[i].fee
  <2> HIDE DEF more, n
  <2>1. CASE i = n + 1
    <3>1. more[i] = e
      BY <1>1, <2>1
    <3>2. CASE n = 0
      <4>1. LastBalance(ledger) = StartCents /\ i = 1
        BY <1>1, <2>1, <3>2 DEF LastBalance, n
      <4> QED BY <1>6, <2>1, <3>1, <4>1 DEF n
    <3>3. CASE n # 0
      <4>1. i # 1 /\ i - 1 = n /\ n \in 1 .. n
        BY <1>1, <2>1, <3>3
      <4>2. more[i - 1].balance = LastBalance(ledger)
        <5>1. ledger # <<>>
          BY <1>1, <3>3 DEF n
        <5>2. more[i - 1] = ledger[n]
          BY <1>1, <4>1
        <5> QED BY <5>1, <5>2 DEF LastBalance, n
      <4> QED BY <1>6, <2>1, <3>1, <4>1, <4>2 DEF n
    <3> QED BY <3>2, <3>3
  <2>2. CASE i # n + 1
    <3>1. i \in 1 .. n /\ i \in DOMAIN ledger
      BY <1>1, <2>2
    <3>2. more[i] = ledger[i] /\ (i # 1 => more[i - 1] = ledger[i - 1])
      <4>1. i # 1 => i - 1 \in 1 .. n
        BY <1>1, <3>1
      <4> QED BY <1>1, <3>1, <4>1
    <3>3. /\ ledger[i].id = i
          /\ ledger[i].balance = (IF i = 1 THEN StartCents ELSE ledger[i - 1].balance)
                                   - ledger[i].amount - ledger[i].fee
      BY <3>1 DEF LedgerSound
    <3> QED BY <3>2, <3>3
  <2> QED BY <2>1, <2>2
<1>8. QED
  BY <1>5, <1>7 DEF LedgerSound

LEMMA AppendTransactionHolds ==
  ASSUME ServerInv, NEW t \in Threads, Server!AppendTransaction(t) PROVE ServerInv'
<1> DEFINE x == serving[t]
           y == Server!Idle
           e == [id |-> x.id, amount |-> x.amount, fee |-> Fee, balance |-> x.read]
           w == state.wallet
           ledger == state.transactions
           more == Append(ledger, e)
           q == state.seq
           bound == Bound
           spent == Spent
<1>1. x \in Locals /\ x.at = "append"
  BY ThreadKnows DEF Server!AppendTransaction, Server!Local
<1>2. /\ x.amount \in Nat /\ x.id \in Nat /\ x.read \in Int
  BY <1>1, LocalsAre
<1>3. y \in Locals /\ y.at = "idle"
  BY IdleIs
<1>4. /\ ServerTyped /\ w \in Int /\ ledger \in Seq(Entries) /\ q \in Nat
      /\ Spent \in Int /\ Bound \in Int /\ w >= StartCents - spent /\ q <= Bound
      /\ begun \in 0 .. MaxRequests
  BY ThreadKnows
<1>5. StartCents \in Nat /\ Fee \in Nat
  BY ServerNumbers
<1>6. /\ state' = [wallet |-> w, transactions |-> more, files |-> state.files,
                   notifications |-> state.notifications, seq |-> q]
      /\ begun' = begun /\ mixed' = mixed /\ serving' = [serving EXCEPT ![t] = y]
  <2>1. /\ state' = [state EXCEPT !.transactions = more] /\ begun' = begun /\ mixed' = mixed
        /\ serving' = [serving EXCEPT ![t] = y]
    BY DEF Server!AppendTransaction, Server!Goes, Server!Local
  <2>2. state = [wallet |-> w, transactions |-> ledger, files |-> state.files,
                 notifications |-> state.notifications, seq |-> q]
    BY <1>4 DEF ServerTyped
  <2> HIDE DEF w, y, ledger, q, e, more
  <2> QED BY <2>1, <2>2
<1>7. begun' - begun = 0
  <2>1. begun \in Nat
    BY <1>4, ServerCounts
  <2>2. begun' = begun
    BY <1>6
  <2> HIDE DEF x, y, w, q, ledger, more, bound, spent
  <2> QED BY <2>1, <2>2
<1>8. Asks(x) = 0 /\ Asks(y) = 0 /\ Paid(x) = x.amount + Fee /\ Paid(y) = 0
  <2>1. x.at \in Stored /\ x.at \notin Owing
    BY <1>1, StepNames
  <2> QED BY <2>1, IdleIs DEF Paid, Asks
<1>9. e \in Entries /\ e.amount = x.amount /\ e.fee = Fee /\ e.id = x.id /\ e.balance = x.read
  <2> HIDE DEF x
  <2> QED BY <1>2, <1>5 DEF Entries
<1> HIDE DEF e
<1>10. more \in Seq(Entries)
  BY <1>4, <1>9
<1>11. spent = PaidOut(more) + InFlight(serving) - Paid(x) + Paid(y)
  <2>1. PaidOut(ledger) \in Nat /\ InFlight(serving) \in Nat
    BY <1>4, ServerCounts
  <2>2. Spent = PaidOut(ledger) + InFlight(serving)
    BY DEF Spent
  <2>3. PaidOut(more) = PaidOut(ledger) + x.amount + Fee
    BY <1>4, <1>9, PaidOutAppended
  <2> HIDE DEF x, y, w, q, ledger, more, bound
  <2>4. PaidOut(ledger) + InFlight(serving) =
          PaidOut(ledger) + x.amount + Fee + InFlight(serving) - (x.amount + Fee) + 0
    BY <1>2, <1>5, <2>1
  <2> QED BY <1>8, <2>2, <2>3, <2>4
<1>12. bound = Bound + (begun' - begun) + Asks(x) - Asks(y)
  <2>1. Bound = Bound + 0 + 0 - 0
    BY <1>4
  <2> QED BY <1>7, <1>8, <2>1
<1>13. "pay" \notin mixed' =>
       /\ \A u \in Server!Busy(Server!Pay) : u = t
       /\ w >= 0 /\ w = StartCents - spent /\ LedgerSound(more)
       /\ y.at \in Server!Pay => Serves(y, state')
       /\ y.at \notin Server!Pay => q = Len(more)
  <2> SUFFICES ASSUME "pay" \notin mixed
               PROVE  /\ \A u \in Server!Busy(Server!Pay) : u = t
                      /\ w >= 0 /\ w = StartCents - spent /\ LedgerSound(more)
                      /\ q = Len(more)
    BY <1>3, <1>6, StepNames
  <2>1. /\ \A u \in Server!Busy(Server!Pay) : u = t
        /\ w >= 0 /\ w = StartCents - Spent
        /\ LedgerSound(ledger) /\ Serves(x, state)
    BY <1>1, StepNames, ThreadKnows
  <2>2. x.read = w /\ x.id = q /\ q = Len(ledger) + 1
    BY <1>1, <2>1, StepNames DEF Serves
  <2>3. q = Len(more)
    <3> HIDE DEF e, w, q, x
    <3> QED BY <1>4, <2>2
  <2>4. InFlight(serving) = x.amount + Fee
    BY <1>4, <1>8, <2>1, OneInFlight
  <2>5. x.read = StartCents - PaidOut(ledger) - x.amount - Fee
    <3>1. PaidOut(ledger) \in Nat
      BY <1>4, ServerCounts
    <3>2. Spent = PaidOut(ledger) + InFlight(serving)
      BY DEF Spent
    <3>3. w = StartCents - (PaidOut(ledger) + (x.amount + Fee))
      BY <2>1, <2>4, <3>2
    <3> HIDE DEF x, w, q, ledger, more, y
    <3> QED BY <1>2, <1>5, <2>2, <3>1, <3>3
  <2>6. LedgerSound(more)
    BY <1>4, <1>9, <2>1, <2>2, <2>5, LedgerAppended
  <2> QED BY <2>1, <2>3, <2>6
<1>14. /\ x = serving[t] /\ x.at \notin Server!Notify /\ y.at \notin Server!Notify
       /\ y.at # "store seq" /\ y.at # "store wallet"
  BY <1>1, <1>3, StepNames
<1>15. spent >= Spent /\ bound \in Int /\ bound >= Bound /\ q <= bound
  BY <1>4
<1> HIDE DEF x, y, w, ledger, more, q, bound, spent
<1>16. PayStep(t, x, y, w, more, q, spent, bound)
  BY <1>4, <1>6, <1>11, <1>12, <1>13, <1>14, <1>15 DEF PayStep
<1>17. spent \in Int
  BY <1>4 DEF spent
<1>18. QED
  BY <1>3, <1>4, <1>10, <1>15, <1>16, <1>17, PayStepHolds

\* What a request finds when it begins.
LEMMA BeginKnows ==
  ASSUME ServerInv, NEW t \in Threads, NEW steps, NEW service, Server!Begin(t, steps, service)
  PROVE  /\ serving[t] = Server!Idle /\ begun \in Nat /\ begun' = begun + 1
         /\ begun' \in 0 .. MaxRequests
         /\ mixed \subseteq mixed'
         /\ \A s : s # service /\ s \in mixed' => s \in mixed
         /\ service \notin mixed' => service \notin mixed /\ Server!Busy(steps) = {}
<1>1. begun \in Nat /\ begun \in 0 .. MaxRequests /\ MaxRequests \in Nat
  BY ThreadKnows, ServerCounts, ServerNumbers
<1>2. serving[t] = Server!Idle /\ begun < MaxRequests /\ begun' = begun + 1
  BY DEF Server!Begin
<1>3. mixed' = IF Server!Busy(steps) # {} THEN mixed \cup {service} ELSE mixed
  BY DEF Server!Begin
<1>4. /\ mixed \subseteq mixed'
      /\ \A s : s # service /\ s \in mixed' => s \in mixed
      /\ service \notin mixed' => service \notin mixed /\ Server!Busy(steps) = {}
  BY <1>3
<1>5. begun' \in 0 .. MaxRequests
  BY <1>1, <1>2
<1>6. QED
  BY <1>1, <1>2, <1>4, <1>5

PayBegun(t, y) ==
  /\ Server!Begin(t, Server!Pay, "pay")
  /\ state' = state /\ serving' = [serving EXCEPT ![t] = y]
  /\ y.at = "check" \/ (y.at = "show" /\ y.read = state.wallet)

LEMMA PayBeginHolds ==
  ASSUME ServerInv, NEW t \in Threads, NEW y \in Locals, PayBegun(t, y)
  PROVE  ServerInv'
<1> DEFINE x == Server!Idle
           w == state.wallet
           ledger == state.transactions
           q == state.seq
           bound == Bound + 1 - Asks(y)
           spent == Spent
<1>1. /\ ServerTyped /\ w \in Int /\ q \in Nat /\ ledger \in Seq(Entries)
      /\ Spent \in Int /\ Bound \in Int /\ q <= Bound
      /\ w >= StartCents - spent
  BY ThreadKnows
<1>2. /\ x = serving[t] /\ begun \in Nat /\ begun' = begun + 1 /\ begun' \in 0 .. MaxRequests
      /\ mixed \subseteq mixed' /\ ("notify" \in mixed' => "notify" \in mixed)
      /\ "pay" \notin mixed' => "pay" \notin mixed /\ Server!Busy(Server!Pay) = {}
  <2>1. Server!Begin(t, Server!Pay, "pay")
    BY DEF PayBegun
  <2> QED BY <2>1, BeginKnows
<1>3. x.at = "idle" /\ Paid(x) = 0 /\ Asks(x) = 0
  BY IdleIs
<1>4. y.at \in Server!Pay /\ y.at \notin Stored \cup Numbered
      /\ y.at # "store seq" /\ y.at # "store wallet"
      /\ y.at # "load wallet" /\ y.at # "read balance" /\ y.at # "append"
  BY StepNames DEF PayBegun
<1>5. Paid(y) = 0
  BY <1>4 DEF Paid
<1>6. Asks(y) = 0 \/ Asks(y) = 1
  BY DEF Asks
<1>7. bound \in Int /\ bound >= Bound /\ bound = Bound + 1 + 0 - Asks(y) /\ q <= bound
  BY <1>1, <1>6
<1>8. /\ state' = [wallet |-> w, transactions |-> ledger, files |-> state.files,
                   notifications |-> state.notifications, seq |-> q]
      /\ serving' = [serving EXCEPT ![t] = y]
  BY <1>1 DEF PayBegun, ServerTyped
<1>9. begun' - begun = 1
  <2>1. begun \in Nat /\ begun' = begun + 1
    BY <1>2
  <2> QED BY <2>1
<1>10. spent = PaidOut(ledger) + InFlight(serving) - Paid(x) + Paid(y)
  <2>1. PaidOut(ledger) \in Nat /\ InFlight(serving) \in Nat
    BY <1>1, ServerCounts
  <2>2. Spent = PaidOut(ledger) + InFlight(serving)
    BY DEF Spent
  <2>3. PaidOut(ledger) + InFlight(serving) = PaidOut(ledger) + InFlight(serving) - 0 + 0
    BY <2>1
  <2> QED BY <1>3, <1>5, <2>2, <2>3
<1>11. bound = Bound + (begun' - begun) + Asks(x) - Asks(y)
  BY <1>3, <1>7, <1>9
<1>12. "pay" \notin mixed' =>
       /\ \A u \in Server!Busy(Server!Pay) : u = t
       /\ w >= 0 /\ w = StartCents - spent /\ LedgerSound(ledger)
       /\ y.at \in Server!Pay => Serves(y, state')
       /\ y.at \notin Server!Pay => q = Len(ledger)
  <2> SUFFICES ASSUME "pay" \notin mixed, Server!Busy(Server!Pay) = {}
               PROVE  /\ w >= 0 /\ w = StartCents - spent /\ LedgerSound(ledger)
                      /\ Serves(y, state)
    <3>1. state' = state
      BY DEF PayBegun
    <3> QED BY <1>2, <1>4, <3>1
  <2>1. w >= 0 /\ w = StartCents - Spent /\ LedgerSound(ledger) /\ q = Len(ledger)
    BY DEF ServerInv, PaysAlone
  <2>2. q = Len(ledger) + 0
    <3>1. Len(ledger) \in Nat
      BY <1>1
    <3> QED BY <2>1, <3>1
  <2>3. y.at = "show" => y.read = w
    BY DEF PayBegun
  <2>4. Serves(y, state)
    BY <1>4, <2>2, <2>3 DEF Serves
  <2> QED BY <2>1, <2>4
<1>13. x.at \notin Server!Notify /\ y.at \notin Server!Notify
  BY <1>3, <1>4, StepNames
<1>14. spent >= Spent /\ spent \in Int
  BY <1>1
<1> HIDE DEF x, w, ledger, q, bound, spent
<1>15. PayStep(t, x, y, w, ledger, q, spent, bound)
  BY <1>1, <1>2, <1>4, <1>7, <1>8, <1>10, <1>11, <1>12, <1>13, <1>14 DEF PayStep
<1>16. QED
  BY <1>1, <1>7, <1>14, <1>15, PayStepHolds

LEMMA IdleMoved ==
  ASSUME NEW at, NEW n, NEW x, x = [at |-> "idle", amount |-> 0, read |-> 0, id |-> 0],
         NEW u, u = [x EXCEPT !.at = at, !.amount = n],
         NEW v, v = [x EXCEPT !.at = at, !.read = n],
         NEW w, w = [x EXCEPT !.at = at, !.id = n]
  PROVE  /\ u = [at |-> at, amount |-> n, read |-> 0, id |-> 0]
         /\ v = [at |-> at, amount |-> 0, read |-> n, id |-> 0]
         /\ w = [at |-> at, amount |-> 0, read |-> 0, id |-> n]
  OBVIOUS

\* A thread that begins starts from the locals of an idle one.
LEMMA IdleBegins ==
  /\ \A at \in Steps : \A n \in Nat :
       LET y == [Server!Idle EXCEPT !.at = at, !.amount = n] IN y \in Locals /\ y.at = at
  /\ \A at \in Steps : \A n \in Int :
       LET y == [Server!Idle EXCEPT !.at = at, !.read = n]
       IN y \in Locals /\ y.at = at /\ y.read = n
  /\ \A at \in Steps : \A n \in Nat :
       LET y == [Server!Idle EXCEPT !.at = at, !.id = n]
       IN y \in Locals /\ y.at = at /\ y.id = n
<1>1. \A at \in Steps : \A a, id \in Nat : \A read \in Int :
          LET y == [at |-> at, amount |-> a, read |-> read, id |-> id]
          IN y \in Locals /\ y.at = at /\ y.read = read /\ y.id = id
  BY DEF Locals
<1>2. 0 \in Nat /\ 0 \in Int
  OBVIOUS
<1>3. ASSUME NEW at, NEW n
      PROVE  /\ [Server!Idle EXCEPT !.at = at, !.amount = n] =
                  [at |-> at, amount |-> n, read |-> 0, id |-> 0]
             /\ [Server!Idle EXCEPT !.at = at, !.read = n] =
                  [at |-> at, amount |-> 0, read |-> n, id |-> 0]
             /\ [Server!Idle EXCEPT !.at = at, !.id = n] =
                  [at |-> at, amount |-> 0, read |-> 0, id |-> n]
  <2> DEFINE x == Server!Idle
             u == [x EXCEPT !.at = at, !.amount = n]
             v == [x EXCEPT !.at = at, !.read = n]
             w == [x EXCEPT !.at = at, !.id = n]
  <2>1. x = [at |-> "idle", amount |-> 0, read |-> 0, id |-> 0]
    BY DEF Server!Idle
  <2>2. /\ u = [x EXCEPT !.at = at, !.amount = n]
        /\ v = [x EXCEPT !.at = at, !.read = n]
        /\ w = [x EXCEPT !.at = at, !.id = n]
    OBVIOUS
  <2> HIDE DEF x, u, v, w
  <2>3. /\ u = [at |-> at, amount |-> n, read |-> 0, id |-> 0]
        /\ v = [at |-> at, amount |-> 0, read |-> n, id |-> 0]
        /\ w = [at |-> at, amount |-> 0, read |-> 0, id |-> n]
    BY <2>1, <2>2, IdleMoved
  <2> QED BY <2>3 DEF x, u, v, w
<1>4. ASSUME NEW at \in Steps, NEW n \in Nat
      PROVE  LET y == [Server!Idle EXCEPT !.at = at, !.amount = n] IN y \in Locals /\ y.at = at
  <2> DEFINE y == [Server!Idle EXCEPT !.at = at, !.amount = n]
  <2>1. y = [at |-> at, amount |-> n, read |-> 0, id |-> 0]
    BY <1>3
  <2> SUFFICES y \in Locals /\ y.at = at
    OBVIOUS
  <2> HIDE DEF y
  <2> QED BY <1>1, <1>2, <2>1
<1>5. ASSUME NEW at \in Steps, NEW n \in Int
      PROVE  LET y == [Server!Idle EXCEPT !.at = at, !.read = n]
             IN y \in Locals /\ y.at = at /\ y.read = n
  <2> DEFINE y == [Server!Idle EXCEPT !.at = at, !.read = n]
  <2>1. y = [at |-> at, amount |-> 0, read |-> n, id |-> 0]
    BY <1>3
  <2> SUFFICES y \in Locals /\ y.at = at /\ y.read = n
    OBVIOUS
  <2> HIDE DEF y
  <2> QED BY <1>1, <1>2, <2>1
<1>6. ASSUME NEW at \in Steps, NEW n \in Nat
      PROVE  LET y == [Server!Idle EXCEPT !.at = at, !.id = n]
             IN y \in Locals /\ y.at = at /\ y.id = n
  <2> DEFINE y == [Server!Idle EXCEPT !.at = at, !.id = n]
  <2>1. y = [at |-> at, amount |-> 0, read |-> 0, id |-> n]
    BY <1>3
  <2> SUFFICES y \in Locals /\ y.at = at /\ y.id = n
    OBVIOUS
  <2> HIDE DEF y
  <2> QED BY <1>1, <1>2, <2>1
<1>7. QED
  BY <1>4, <1>5, <1>6

LEMMA TransferHolds ==
  ASSUME ServerInv, NEW t \in Threads, NEW amount \in Amounts, Server!Transfer(t, amount)
  PROVE  ServerInv'
<1> DEFINE y == [Server!Idle EXCEPT !.at = "check", !.amount = amount]
<1>1. amount \in Nat /\ "check" \in Steps
  BY ServerNumbers, StepNames
<1>2. y \in Locals /\ y.at = "check"
  BY <1>1, IdleBegins
<1>3. PayBegun(t, y)
  BY <1>2 DEF PayBegun, Server!Transfer, Server!Goes
<1> HIDE DEF y
<1>4. QED
  BY <1>2, <1>3, PayBeginHolds

LEMMA GetWalletHolds ==
  ASSUME ServerInv, NEW t \in Threads, Server!GetWallet(t) PROVE ServerInv'
<1> DEFINE y == [Server!Idle EXCEPT !.at = "show", !.read = state.wallet]
<1>1. state.wallet \in Int /\ "show" \in Steps
  BY ThreadKnows, StepNames
<1>2. y \in Locals /\ y.at = "show" /\ y.read = state.wallet
  BY <1>1, IdleBegins
<1>3. PayBegun(t, y)
  BY <1>2 DEF PayBegun, Server!GetWallet, Server!Goes
<1> HIDE DEF y
<1>4. QED
  BY <1>2, <1>3, PayBeginHolds

\* A step of a request that is not about payments.
NotifyStep(t, x, y, files, notes) ==
  /\ x = serving[t] /\ serving' = [serving EXCEPT ![t] = y]
  /\ state' = [wallet |-> state.wallet, transactions |-> state.transactions, files |-> files,
               notifications |-> notes, seq |-> state.seq]
  /\ x.at \notin Server!Pay /\ y.at \notin Server!Pay
  /\ begun' \in 0 .. MaxRequests /\ begun' >= begun
  /\ mixed \subseteq mixed' /\ ("pay" \in mixed' => "pay" \in mixed)

LEMMA PayUntouched ==
  ASSUME ServerInv, NEW t \in Threads, NEW x, NEW y \in Locals, NEW files, NEW notes \in Seq(Nat),
         NotifyStep(t, x, y, files, notes)
  PROVE  ServerTyped' /\ NumbersAsked' /\ NothingLost' /\ PaysAlone'
<1>1. /\ x \in Locals /\ serving' \in [Threads -> Locals]
      /\ serving'[t] = y /\ \A u \in Threads \ {t} : serving'[u] = serving[u]
      /\ InFlight(serving') = InFlight(serving) - Paid(x) + Paid(y)
      /\ Cardinality(Unnumbered(serving')) = Cardinality(Unnumbered(serving)) - Asks(x) + Asks(y)
  BY ServerMoved DEF ServerInv, NotifyStep
<1>2. /\ state'.wallet = state.wallet /\ state'.transactions = state.transactions
      /\ state'.seq = state.seq /\ state'.notifications = notes
      /\ state' = [wallet |-> state'.wallet, transactions |-> state'.transactions,
                   files |-> state'.files, notifications |-> state'.notifications,
                   seq |-> state'.seq]
  BY DEF NotifyStep
<1>3. ServerTyped'
  BY <1>1, <1>2 DEF ServerInv, ServerTyped, NotifyStep
<1>4. /\ Paid(x) = 0 /\ Paid(y) = 0 /\ Asks(x) = 0 /\ Asks(y) = 0
  <2>1. x.at \notin Stored \cup Owing /\ y.at \notin Stored \cup Owing
    BY StepNames DEF NotifyStep
  <2> QED BY <2>1 DEF Paid, Asks
<1>5. /\ InFlight(serving) \in Nat /\ Cardinality(Unnumbered(serving)) \in Nat
      /\ begun \in Nat /\ begun' \in Nat /\ begun' >= begun /\ Bound \in Int
  <2>1. ServerTyped
    BY DEF ServerInv
  <2>2. MaxRequests \in Nat /\ begun' \in 0 .. MaxRequests /\ begun' >= begun
    BY ServerNumbers DEF NotifyStep
  <2>3. begun' \in Nat
    BY <2>2, Within
  <2> QED BY <2>1, <2>2, <2>3, ServerCounts
<1>6. Spent' = Spent
  <2>1. Spent' = PaidOut(state'.transactions) + InFlight(serving')
    BY DEF Spent, PaidOut, InFlight, Costs, PaidBy, Paid, Stored
  <2>2. InFlight(serving') = InFlight(serving) - 0 + 0
    BY <1>1, <1>4
  <2>3. InFlight(serving') = InFlight(serving)
    BY <1>5, <2>2
  <2> QED BY <1>2, <2>1, <2>3 DEF Spent
<1>7. Bound' >= Bound /\ Bound' \in Int
  <2>1. Bound' = begun' - Cardinality(Unnumbered(serving'))
    BY DEF Bound, Unnumbered, Owing
  <2>2. Cardinality(Unnumbered(serving')) = Cardinality(Unnumbered(serving)) - 0 + 0
    BY <1>1, <1>4
  <2>3. Bound = begun - Cardinality(Unnumbered(serving))
    BY DEF Bound
  <2> QED BY <1>5, <2>1, <2>2, <2>3
<1>8. y.at # "store seq" /\ y.at # "store wallet"
  BY StepNames DEF NotifyStep
<1>9. NumbersAsked'
  <2>1. state.seq \in Nat /\ state.seq <= Bound
    BY ThreadKnows
  <2>2. state.seq <= Bound'
    BY <1>5, <1>7, <2>1, AtMostMore
  <2>3. ASSUME NEW u \in Threads, serving'[u].at = "store seq"
        PROVE  serving'[u].read \in Nat /\ serving'[u].read <= Bound'
    <3>1. u # t /\ serving'[u] = serving[u]
      BY <1>1, <1>8, <2>3
    <3>2. serving[u].read \in Nat /\ serving[u].read <= Bound
      BY <2>3, <3>1 DEF ServerInv, NumbersAsked
    <3>3. serving[u].read <= Bound'
      BY <1>5, <1>7, <3>2, AtMostMore
    <3> QED BY <3>1, <3>2, <3>3
  <2> QED BY <1>2, <2>2, <2>3 DEF NumbersAsked
<1>10. NothingLost'
  <2>1. state.wallet >= StartCents - Spent
    BY ThreadKnows
  <2>2. ASSUME NEW u \in Threads, serving'[u].at = "store wallet"
        PROVE  serving'[u].read >= StartCents - Spent
    <3>1. u # t /\ serving'[u] = serving[u]
      BY <1>1, <1>8, <2>2
    <3> QED BY <2>2, <3>1 DEF ServerInv, NothingLost
  <2> QED BY <1>2, <1>6, <2>1, <2>2 DEF NothingLost
<1>11. /\ Server!Busy(Server!Pay)' = Server!Busy(Server!Pay)
       /\ \A u \in Server!Busy(Server!Pay) : serving'[u] = serving[u]
  <2>1. \A u \in Threads : serving'[u].at \in Server!Pay <=> serving[u].at \in Server!Pay
    BY <1>1 DEF NotifyStep
  <2>2. Server!Busy(Server!Pay)' = {u \in Threads : serving'[u].at \in Server!Pay}
    BY DEF Server!Busy, Server!Pay
  <2>3. \A u \in Server!Busy(Server!Pay) : u # t /\ u \in Threads
    BY DEF Server!Busy, NotifyStep
  <2> QED BY <1>1, <2>1, <2>2, <2>3 DEF Server!Busy
<1>12. PaysAlone'
  <2>1. PaysAlone' = ("pay" \notin mixed' =>
          /\ \A u, v \in Server!Busy(Server!Pay)' : u = v
          /\ state'.wallet >= 0 /\ state'.wallet = StartCents - Spent'
          /\ LedgerSound(state'.transactions)
          /\ \A u \in Server!Busy(Server!Pay)' : Serves(serving'[u], state')
          /\ Server!Busy(Server!Pay)' = {} => state'.seq = Len(state'.transactions))
    BY DEF PaysAlone, LedgerSound, LastBalance, Serves, PaidOut, Costs, Numbered
  <2>2. "pay" \notin mixed' => "pay" \notin mixed
    BY DEF NotifyStep
  <2>3. \A z : Serves(z, state) => Serves(z, state')
    BY <1>2 DEF Serves
  <2>4. PaysAlone
    BY DEF ServerInv
  <2> QED BY <1>2, <1>6, <1>11, <2>1, <2>2, <2>3, <2>4 DEF PaysAlone
<1>13. QED
  BY <1>3, <1>9, <1>10, <1>12

LEMMA SendHolds == ASSUME ServerInv, NEW t \in Threads, Server!Send(t) PROVE ServerInv'
<1> DEFINE x == Server!Idle
           n == Len(state.notifications) + 1
           y == [Server!Idle EXCEPT !.at = "append notification", !.id = n]
           notes == state.notifications
<1>1. ServerTyped /\ notes \in Seq(Nat)
  BY DEF ServerInv, ServerTyped
<1>2. /\ x = serving[t] /\ begun \in Nat /\ begun' = begun + 1 /\ begun' \in 0 .. MaxRequests
      /\ mixed \subseteq mixed' /\ ("pay" \in mixed' => "pay" \in mixed)
      /\ "notify" \notin mixed' => "notify" \notin mixed /\ Server!Busy(Server!Notify) = {}
  <2>1. Server!Begin(t, Server!Notify, "notify")
    BY DEF Server!Send
  <2> QED BY <2>1, BeginKnows
<1>3. y \in Locals /\ y.at = "append notification" /\ y.id = n
  <2>1. n \in Nat
    BY <1>1
  <2>2. "append notification" \in Steps
    BY StepNames
  <2> HIDE DEF n
  <2> QED BY <2>1, <2>2, IdleBegins
<1>4. x.at = "idle"
  BY IdleIs
<1>5. x.at \notin Server!Pay /\ y.at \notin Server!Pay
  BY <1>3, <1>4, StepNames
<1>6. begun' >= begun
  <2>1. begun \in Nat /\ begun' = begun + 1
    BY <1>2
  <2> QED BY <2>1
<1>7. /\ state' = [wallet |-> state.wallet, transactions |-> state.transactions, files |-> state.files,
                   notifications |-> notes, seq |-> state.seq]
      /\ serving' = [serving EXCEPT ![t] = y] /\ state' = state
  BY <1>1 DEF Server!Send, Server!Goes, ServerTyped
<1> HIDE DEF x, y, n, notes
<1>8. NotifyStep(t, x, y, state.files, notes)
  BY <1>2, <1>5, <1>6, <1>7 DEF NotifyStep
<1>9. ServerTyped' /\ NumbersAsked' /\ NothingLost' /\ PaysAlone'
  BY <1>1, <1>3, <1>8, PayUntouched
<1>10. NotifiesAlone'
  <2> SUFFICES ASSUME "notify" \notin mixed'
               PROVE  /\ \A u, v \in Server!Busy(Server!Notify)' : u = v
                      /\ \A i \in DOMAIN state.notifications : state.notifications[i] = i
                      /\ \A u \in Server!Busy(Server!Notify)' :
                           serving'[u].id = Len(state.notifications) + 1
    BY <1>7 DEF NotifiesAlone
  <2>1. "notify" \notin mixed /\ Server!Busy(Server!Notify) = {}
    BY <1>2
  <2>2. \A u \in Server!Busy(Server!Notify)' : u = t
    <3> SUFFICES ASSUME NEW u \in Threads, serving'[u].at \in Server!Notify, u # t PROVE FALSE
      BY DEF Server!Busy, Server!Notify
    <3>1. serving'[u] = serving[u]
      BY <1>1, <1>7 DEF ServerTyped
    <3> QED BY <2>1, <3>1 DEF Server!Busy
  <2>3. serving'[t] = y
    BY <1>1, <1>7 DEF ServerTyped
  <2>4. \A i \in DOMAIN state.notifications : state.notifications[i] = i
    BY <2>1 DEF ServerInv, NotifiesAlone
  <2>5. \A u \in Server!Busy(Server!Notify)' : serving'[u].id = n
    BY <1>3, <2>2, <2>3
  <2> QED BY <2>2, <2>4, <2>5 DEF n
<1>11. QED
  BY <1>9, <1>10 DEF ServerInv

LEMMA NumberedOn ==
  ASSUME NEW s \in Seq(Nat), \A i \in DOMAIN s : s[i] = i, NEW n \in Nat, n = Len(s) + 1
  PROVE  \A i \in DOMAIN Append(s, n) : Append(s, n)[i] = i
  OBVIOUS

LEMMA AppendNotificationHolds ==
  ASSUME ServerInv, NEW t \in Threads, Server!AppendNotification(t) PROVE ServerInv'
<1> DEFINE x == serving[t]
           y == Server!Idle
           old == state.notifications
           notes == Append(old, x.id)
<1>1. ServerTyped /\ old \in Seq(Nat)
  BY DEF ServerInv, ServerTyped
<1>2. x \in Locals /\ x.at = "append notification" /\ x.id \in Nat
  <2>1. x \in Locals /\ x.at = "append notification"
    BY ThreadKnows DEF Server!AppendNotification, Server!Local
  <2> QED BY <2>1, LocalsAre
<1>3. y \in Locals /\ y.at = "idle"
  BY IdleIs
<1>4. x.at \in Server!Notify /\ x.at \notin Server!Pay /\ y.at \notin Server!Pay /\ y.at \notin Server!Notify
  <2>1. x.at \in Server!Notify
    BY <1>2, StepNames
  <2> QED BY <1>3, <2>1, StepNames
<1>5. /\ begun' = begun /\ mixed' = mixed /\ serving' = [serving EXCEPT ![t] = y]
      /\ state' = [state EXCEPT !.notifications = notes]
  BY DEF Server!AppendNotification, Server!Goes, Server!Local
<1>6. state' = [wallet |-> state.wallet, transactions |-> state.transactions, files |-> state.files,
                notifications |-> notes, seq |-> state.seq]
  <2>1. state = [wallet |-> state.wallet, transactions |-> state.transactions, files |-> state.files,
                 notifications |-> state.notifications, seq |-> state.seq]
    BY <1>1 DEF ServerTyped
  <2> HIDE DEF notes
  <2> QED BY <1>5, <2>1
<1>7. notes \in Seq(Nat)
  <2>1. old \in Seq(Nat) /\ x.id \in Nat
    BY <1>1, <1>2
  <2> HIDE DEF old, x
  <2> QED BY <2>1
<1>8. begun' \in 0 .. MaxRequests /\ begun' >= begun
  <2>1. begun \in Nat /\ begun \in 0 .. MaxRequests
    BY ThreadKnows, ServerCounts
  <2>2. begun >= begun
    BY <2>1
  <2> QED BY <1>5, <2>1, <2>2
<1> HIDE DEF x, y, notes, old
<1>9. NotifyStep(t, x, y, state.files, notes)
  BY <1>4, <1>5, <1>6, <1>8 DEF NotifyStep, x
<1>10. ServerTyped' /\ NumbersAsked' /\ NothingLost' /\ PaysAlone'
  BY <1>3, <1>7, <1>9, PayUntouched
<1>11. NotifiesAlone'
  <2> SUFFICES ASSUME "notify" \notin mixed
               PROVE  /\ Server!Busy(Server!Notify)' = {}
                      /\ \A i \in DOMAIN notes : notes[i] = i
    <3>1. state'.notifications = notes
      BY <1>6
    <3> QED BY <1>5, <3>1 DEF NotifiesAlone
  <2>1. t \in Server!Busy(Server!Notify)
    BY <1>4 DEF Server!Busy, x
  <2>2. /\ \A u \in Server!Busy(Server!Notify) : u = t
        /\ \A i \in DOMAIN old : old[i] = i
        /\ x.id = Len(old) + 1
    BY <2>1 DEF ServerInv, NotifiesAlone, x, old
  <2>3. Server!Busy(Server!Notify)' = {}
    <3> SUFFICES ASSUME NEW u \in Threads, serving'[u].at \in Server!Notify PROVE FALSE
      BY DEF Server!Busy, Server!Notify
    <3>1. u = t
      <4> SUFFICES ASSUME u # t PROVE FALSE
        OBVIOUS
      <4>1. serving'[u] = serving[u]
        BY <1>1, <1>5 DEF ServerTyped
      <4> QED BY <2>2, <4>1 DEF Server!Busy
    <3>2. serving'[t] = y
      BY <1>1, <1>5 DEF ServerTyped
    <3> QED BY <1>4, <3>1, <3>2
  <2>4. \A i \in DOMAIN notes : notes[i] = i
    BY <1>1, <1>2, <2>2, NumberedOn DEF notes
  <2> QED BY <2>3, <2>4
<1>12. QED
  BY <1>10, <1>11 DEF ServerInv

LEMMA PostFileHolds ==
  ASSUME ServerInv, NEW t \in Threads, NEW oid, Server!PostFile(t, oid) PROVE ServerInv'
<1> DEFINE x == Server!Idle
           notes == state.notifications
           files == state.files \cup {oid}
<1>1. ServerTyped /\ notes \in Seq(Nat) /\ serving \in [Threads -> Locals]
  BY DEF ServerInv, ServerTyped
<1>2. /\ x = serving[t] /\ begun \in Nat /\ begun' = begun + 1 /\ begun' \in 0 .. MaxRequests
      /\ mixed \subseteq mixed' /\ ("pay" \in mixed' => "pay" \in mixed)
      /\ "notify" \notin mixed' => "notify" \notin mixed
  <2>1. Server!Begin(t, {}, "cloud")
    BY DEF Server!PostFile
  <2>2. "pay" # "cloud"
    OBVIOUS
  <2> QED BY <2>1, <2>2, BeginKnows
<1>3. x \in Locals /\ x.at = "idle"
  BY IdleIs
<1>4. x.at \notin Server!Pay
  BY <1>3, StepNames
<1>5. begun' >= begun
  <2>1. begun \in Nat /\ begun' = begun + 1
    BY <1>2
  <2> QED BY <2>1
<1>6. serving' = serving /\ serving' = [serving EXCEPT ![t] = x]
  BY <1>1, <1>2 DEF Server!PostFile
<1>7. state' = [wallet |-> state.wallet, transactions |-> state.transactions, files |-> files,
                notifications |-> notes, seq |-> state.seq]
  <2>1. state' = [state EXCEPT !.files = files]
    BY DEF Server!PostFile
  <2>2. state = [wallet |-> state.wallet, transactions |-> state.transactions, files |-> state.files,
                 notifications |-> state.notifications, seq |-> state.seq]
    BY <1>1 DEF ServerTyped
  <2> HIDE DEF files
  <2> QED BY <2>1, <2>2
<1> HIDE DEF x, notes, files
<1>8. NotifyStep(t, x, x, files, notes)
  BY <1>2, <1>4, <1>5, <1>6, <1>7 DEF NotifyStep
<1>9. ServerTyped' /\ NumbersAsked' /\ NothingLost' /\ PaysAlone'
  BY <1>1, <1>3, <1>8, PayUntouched
<1>10. NotifiesAlone'
  <2>1. state'.notifications = state.notifications
    BY <1>7 DEF notes
  <2>2. Server!Busy(Server!Notify)' = Server!Busy(Server!Notify)
    BY <1>6 DEF Server!Busy, Server!Notify
  <2> QED BY <1>2, <1>6, <2>1, <2>2 DEF ServerInv, NotifiesAlone
<1>11. QED
  BY <1>9, <1>10 DEF ServerInv

LEMMA ServerStarts == ASSUME Server!Init PROVE ServerInv
<1>1. /\ state.wallet = StartCents /\ state.transactions = <<>> /\ state.notifications = <<>>
      /\ state.seq = 0 /\ begun = 0 /\ mixed = {}
      /\ \A t \in Threads : serving[t] = Server!Idle
      /\ state = [wallet |-> state.wallet, transactions |-> state.transactions, files |-> state.files,
                  notifications |-> state.notifications, seq |-> state.seq]
  BY DEF Server!Init
<1>2. StartCents \in Nat /\ MaxRequests \in Nat
  BY ServerNumbers
<1>3. Server!Idle \in Locals /\ Server!Idle.at = "idle"
  BY IdleIs
<1>4. serving \in [Threads -> Locals]
  BY <1>3 DEF Server!Init
<1>5. ServerTyped
  <2>1. state.transactions \in Seq(Entries) /\ state.notifications \in Seq(Nat)
    BY <1>1
  <2>2. state.wallet \in Int /\ state.seq \in Nat /\ begun \in 0 .. MaxRequests
    BY <1>1, <1>2
  <2> QED BY <1>1, <1>4, <2>1, <2>2 DEF ServerTyped
<1>6. /\ Server!Busy(Server!Pay) = {} /\ Server!Busy(Server!Notify) = {}
      /\ Server!Busy(Server!Pay \ {"show"}) = {} /\ Unnumbered(serving) = {}
      /\ \A t \in Threads : serving[t].at # "store seq" /\ serving[t].at # "store wallet"
  <2>1. \A t \in Threads : serving[t].at \notin Server!Pay \cup Server!Notify
    BY <1>1, <1>3, StepNames
  <2> QED BY <2>1, StepNames DEF Server!Busy, Unnumbered
<1>7. Spent = 0
  <2>1. InFlight(serving) = 0
    BY <1>5, <1>6, NoneInFlight
  <2>2. PaidOut(state.transactions) = 0
    BY <1>1, NothingPaid
  <2> QED BY <2>1, <2>2 DEF Spent
<1>8. Bound = 0
  <2>1. Cardinality(Unnumbered(serving)) = 0
    BY <1>6, FS_EmptySet
  <2> QED BY <1>1, <2>1 DEF Bound
<1>9. NumbersAsked
  <2>1. state.seq <= Bound
    BY <1>1, <1>8
  <2> QED BY <1>6, <2>1 DEF NumbersAsked
<1>10. state.wallet = StartCents - Spent
  BY <1>1, <1>2, <1>7
<1>11. NothingLost
  <2>1. state.wallet >= StartCents - Spent
    BY <1>1, <1>2, <1>7
  <2> QED BY <1>6, <2>1 DEF NothingLost
<1>12. PaysAlone
  <2>1. state.wallet >= 0 /\ state.seq = Len(state.transactions) /\ DOMAIN state.transactions = {}
    BY <1>1, <1>2
  <2>2. LedgerSound(state.transactions)
    <3>1. LastBalance(state.transactions) = StartCents
      BY <1>1 DEF LastBalance
    <3>2. PaidOut(state.transactions) = 0
      BY <1>1, NothingPaid
    <3>3. StartCents = StartCents - 0
      BY <1>2
    <3> QED BY <2>1, <3>1, <3>2, <3>3 DEF LedgerSound
  <2> QED BY <1>6, <1>10, <2>1, <2>2 DEF PaysAlone
<1>13. NotifiesAlone
  <2>1. DOMAIN state.notifications = {}
    BY <1>1
  <2> QED BY <1>6, <2>1 DEF NotifiesAlone
<1>14. QED
  BY <1>5, <1>9, <1>11, <1>12, <1>13 DEF ServerInv

LEMMA ServerStays == ASSUME ServerInv, UNCHANGED serverVars PROVE ServerInv'
  BY DEF serverVars, ServerInv, ServerTyped, NumbersAsked, NothingLost, PaysAlone, NotifiesAlone,
     Bound, Unnumbered, Owing, Spent, PaidOut, Costs, InFlight, PaidBy, Paid, Stored, LedgerSound,
     LastBalance, Serves, Numbered, Server!Busy, Server!Pay, Server!Notify

LEMMA ServerSteps == ASSUME ServerInv, Server!Next PROVE ServerInv'
<1>1. PICK t \in Threads :
        \/ \E amount \in Amounts : Server!Transfer(t, amount)
        \/ Server!Check(t) \/ Server!LoadWallet(t) \/ Server!StoreWallet(t) \/ Server!LoadSeq(t)
        \/ Server!StoreSeq(t) \/ Server!ReadId(t) \/ Server!ReadBalance(t)
        \/ Server!AppendTransaction(t) \/ Server!GetWallet(t) \/ Server!Show(t) \/ Server!Send(t)
        \/ Server!AppendNotification(t)
        \/ \E oid \in ObjectIds : Server!PostFile(t, oid)
  BY DEF Server!Next
<1>2. CASE \E amount \in Amounts : Server!Transfer(t, amount)
  BY <1>2, TransferHolds
<1>3. CASE Server!Check(t)
  BY <1>3, CheckHolds
<1>4. CASE Server!LoadWallet(t)
  BY <1>4, LoadWalletHolds
<1>5. CASE Server!StoreWallet(t)
  BY <1>5, StoreWalletHolds
<1>6. CASE Server!LoadSeq(t)
  BY <1>6, LoadSeqHolds
<1>7. CASE Server!StoreSeq(t)
  BY <1>7, StoreSeqHolds
<1>8. CASE Server!ReadId(t)
  BY <1>8, ReadIdHolds
<1>9. CASE Server!ReadBalance(t)
  BY <1>9, ReadBalanceHolds
<1>10. CASE Server!AppendTransaction(t)
  BY <1>10, AppendTransactionHolds
<1>11. CASE Server!GetWallet(t)
  BY <1>11, GetWalletHolds
<1>12. CASE Server!Show(t)
  BY <1>12, ShowHolds
<1>13. CASE Server!Send(t)
  BY <1>13, SendHolds
<1>14. CASE Server!AppendNotification(t)
  BY <1>14, AppendNotificationHolds
<1>15. CASE \E oid \in ObjectIds : Server!PostFile(t, oid)
  BY <1>15, PostFileHolds
<1>16. QED
  BY <1>1, <1>2, <1>3, <1>4, <1>5, <1>6, <1>7, <1>8, <1>9, <1>10, <1>11, <1>12, <1>13, <1>14, <1>15

LEMMA ServerKeeps == ASSUME ServerInv, [Next]_vars PROVE ServerInv'
<1>1. UNCHANGED serverVars \/ Server!Next
  BY DEF Next, vars
<1>2. QED
  BY <1>1, ServerStays, ServerSteps

LEMMA ServerInvariance == Spec => []ServerInv
<1>1. Init => ServerInv
  BY ServerStarts DEF Init
<1>2. ServerInv /\ [Next]_vars => ServerInv'
  BY ServerKeeps
<1>3. QED
  BY <1>1, <1>2, PTL DEF Spec

LEMMA ServerTypes == ServerInv => Server!TypeOK
<1> SUFFICES ASSUME ServerInv PROVE Server!TypeOK
  OBVIOUS
<1>1. ServerTyped
  BY DEF ServerInv
<1>2. \A t \in Threads : serving[t].at \in {"idle"} \cup Server!Pay \cup Server!Notify
  BY <1>1 DEF ServerTyped, Locals, Steps
<1>3. begun \in 0 .. MaxRequests
  BY <1>1 DEF ServerTyped
<1>4. state.seq \in 0 .. begun
  <2>1. state.seq \in Nat /\ state.seq <= Bound
    BY <1>1 DEF ServerInv, ServerTyped, NumbersAsked
  <2>2. begun \in Nat /\ Cardinality(Unnumbered(serving)) \in Nat
    BY <1>1, ServerCounts
  <2> QED BY <2>1, <2>2 DEF Bound
<1>5. QED
  BY <1>2, <1>3, <1>4 DEF Server!TypeOK

LEMMA ServerAddsUp == ServerInv => Server!RequestsAddUp
<1> SUFFICES ASSUME ServerInv PROVE Server!RequestsAddUp
  OBVIOUS
<1>1. ServerTyped /\ NothingLost /\ PaysAlone /\ NotifiesAlone
  BY DEF ServerInv
<1>2. InFlight(serving) = 0 => Spent = Server!Settled
  <2>1. PaidOut(state.transactions) \in Nat
    BY <1>1, ServerCounts
  <2>2. PaidOut(state.transactions) + 0 = PaidOut(state.transactions)
    BY <2>1
  <2> QED BY <2>2, SettledIs DEF Spent
<1>3. Server!Busy(Server!Pay \ {"show"}) = {} => state.wallet >= StartCents - Server!Settled
  BY <1>1, <1>2, NoneInFlight DEF NothingLost
<1>4. ASSUME "pay" \notin mixed
      PROVE  /\ state.wallet >= 0
             /\ LedgerSound(state.transactions)
             /\ \A t \in Server!Busy({"show"}) : serving[t].read = StartCents - Server!Settled
             /\ Server!Busy(Server!Pay) = {} => state.wallet = StartCents - Server!Settled
  <2>1. /\ \A t, u \in Server!Busy(Server!Pay) : t = u
        /\ state.wallet >= 0 /\ state.wallet = StartCents - Spent
        /\ LedgerSound(state.transactions)
        /\ \A t \in Server!Busy(Server!Pay) : Serves(serving[t], state)
    BY <1>1, <1>4 DEF PaysAlone
  <2>2. Server!Busy(Server!Pay) = {} => state.wallet = StartCents - Server!Settled
    <3>1. Server!Busy(Server!Pay) = {} => Server!Busy(Server!Pay \ {"show"}) = {}
      BY DEF Server!Busy
    <3> QED BY <1>1, <1>2, <2>1, <3>1, NoneInFlight
  <2>3. ASSUME NEW t \in Server!Busy({"show"})
        PROVE  serving[t].read = StartCents - Server!Settled
    <3>1. t \in Threads /\ serving[t].at = "show"
      BY <2>3 DEF Server!Busy
    <3>2. t \in Server!Busy(Server!Pay)
      BY <3>1, StepNames DEF Server!Busy
    <3>3. serving[t].read = state.wallet
      BY <2>1, <3>1, <3>2 DEF Serves
    <3>4. Paid(serving[t]) = 0
      BY <3>1, StepNames DEF Paid
    <3>5. InFlight(serving) = 0
      BY <1>1, <2>1, <3>1, <3>2, <3>4, OneInFlight
    <3> QED BY <1>2, <2>1, <3>3, <3>5
  <2> QED BY <2>1, <2>2, <2>3
<1>5. "notify" \notin mixed => \A i \in DOMAIN state.notifications : state.notifications[i] = i
  BY <1>1 DEF NotifiesAlone
<1>6. QED
  BY <1>3, <1>4, <1>5 DEF Server!RequestsAddUp, LedgerSound

\* However requests overlap, no money vanishes, and served one at a time they add up: the
\* ledger, the balances it states and shows and the numbers given out agree with the wallet
\* (bms/reference_server.py, do_POST and do_GET).
THEOREM TransfersAddUp == Spec => []RequestsAddUp
<1>1. ServerInv => RequestsAddUp
  BY ServerAddsUp DEF RequestsAddUp
<1>2. QED
  BY <1>1, ServerInvariance, PTL

-----------------------------------------------------------------------------
(* The assembler.                                                           *)

KernelLines == Assembler!LinesOf("kernel")
EndLines == Assembler!LinesOf("end")
LabelLines == Assembler!LinesOf("label")
InsnLines == Assembler!LinesOf("insn")

\* How many of some lines stand before line i.
Before(S, i) == {j \in S : j < i}
Rank(S, i) == Cardinality(Before(S, i))
Counted(i) == Rank(InsnLines, i)

\* Where line i stands: in a kernel, as many instructions after its directive.
InKernel(i) == Assembler!Under(i) \in KernelLines
PlaceOf(i) == Counted(i) - Counted(Assembler!Under(i))

IsSeq(s) == \E S : s \in Seq(S)

TextTyped ==
  /\ source \in Sources /\ phase \in {"labels", "emit", "ok", "refused"}
  /\ line \in 1 .. Len(source) + 1
  /\ phase = "ok" => line = Len(source) + 1

\* Both passes know where they stand.
InSync ==
  /\ inKernel \in BOOLEAN /\ (inKernel <=> InKernel(line))
  /\ kpc = IF inKernel THEN PlaceOf(line) ELSE 0

\* j is the first label of a kernel with the name.
FirstOf(j, name) ==
  /\ j \in LabelLines /\ Assembler!Defines(j, name)
  /\ \A i \in LabelLines : Assembler!Defines(i, name) => j <= i

\* The symbols are first labels; until the table is full, every label passed has one.
SymsHold ==
  /\ IsSeq(syms) /\ Len(syms) <= MaxSymbols
  /\ \A k \in DOMAIN syms : \E j : FirstOf(j, syms[k].name) /\ syms[k].addr = PlaceOf(j)
  /\ phase = "labels" /\ Len(syms) < MaxSymbols =>
       \A j \in LabelLines : j < line /\ InKernel(j) =>
         \E k \in DOMAIN syms : syms[k].name = source[j].name

\* A name that fits the pool and holds no terminator.
IsName(name) ==
  /\ IsSeq(name) /\ Len(name) \in 1 .. MaxName - 1
  /\ \A n \in 1 .. Len(name) : name[n] # NUL

\* The pool holds a name from an offset on, with its terminator.
HeldAt(pool, off, name) ==
  /\ off \in Nat /\ off + Len(name) + 1 <= Len(pool)
  /\ \A n \in 1 .. Len(name) : pool[off + n] = name[n]
  /\ pool[off + Len(name) + 1] = NUL

\* An image, and where its names lie: one after the other.
ImageSound(img) ==
  /\ img = [kernels |-> img.kernels, pool |-> img.pool, insns |-> img.insns]
  /\ IsSeq(img.kernels) /\ IsSeq(img.pool) /\ IsSeq(img.insns)
  /\ Len(img.insns) <= MaxInsns /\ Len(img.kernels) <= MaxKernels /\ Len(img.pool) <= PoolSize
  /\ \A k \in DOMAIN img.kernels :
       /\ img.kernels[k] = Assembler!Kernel(img.kernels[k].name, img.kernels[k].entry, 0)
       /\ img.kernels[k].entry \in Nat /\ IsName(img.kernels[k].name)
       /\ HeldAt(img.pool, Assembler!NameOff(img, k), img.kernels[k].name)
  /\ Len(img.pool) = Assembler!NameOff(img, Len(img.kernels) + 1)

ToLabel(i) ==
  source[i].op \in Assembler!Branches /\ Assembler!Operand(source[i], 1).cls = "name"

\* The branch of line i was encoded from the symbol it names.
BranchSet(i) ==
  LET name == source[i].args[1].val
  IN /\ Assembler!Found(name) # {}
     /\ image.insns[Counted(i) + 1].imm = Assembler!AddrOf(name) - (PlaceOf(i) + 1)

\* The second pass has emitted the lines before the one it stands at.
ImageHolds ==
  phase \in {"emit", "ok"} =>
    /\ Len(image.insns) = Counted(line)
    /\ \A i \in InsnLines : i < line /\ ToLabel(i) => BranchSet(i)
    /\ Len(image.kernels) = Rank(KernelLines, line)
    /\ \A i \in KernelLines : i < line =>
         image.kernels[Rank(KernelLines, i) + 1] =
           Assembler!Kernel(source[i].name, Counted(i), 0)

FileHolds == file # Nothing => phase = "ok" /\ file = Assembler!Pack(image)

\* A session has what was compiled, and launches the first kernel of a name.
SessionHolds ==
  session # Nothing =>
    /\ phase = "ok" /\ session.from # "cut"
    /\ session = [img |-> session.img, kernel |-> session.kernel, pc |-> session.pc,
                  from |-> session.from]
    /\ session.img.insns = image.insns /\ session.img.kernels = image.kernels
    /\ session.kernel # 0 =>
         /\ session.kernel \in DOMAIN image.kernels
         /\ session.pc = image.kernels[session.kernel].entry
         /\ \A k \in DOMAIN image.kernels :
              image.kernels[k].name = image.kernels[session.kernel].name => session.kernel <= k

AsmInv ==
  /\ TextTyped /\ InSync /\ SymsHold /\ ImageSound(image) /\ ImageHolds
  /\ FileHolds /\ SessionHolds

LEMMA AssemblerNumbers ==
  /\ HeaderSize \in Nat /\ EntrySize \in Nat /\ MaxKernels \in Nat /\ MaxInsns \in Nat
  /\ PoolSize \in Nat /\ MaxSymbols \in Nat /\ InsnSize \in Nat \ {0} /\ MaxName \in Nat \ {0}
  BY AssemblerConstants

LEMMA AsmLeast ==
  ASSUME NEW S \in SUBSET Nat, S # {}
  PROVE  Assembler!Min(S) \in S /\ \A k \in S : Assembler!Min(S) <= k
  BY LeastNat DEF Assembler!Min

LEMMA AsmLeastIs ==
  ASSUME NEW S \in SUBSET Nat, NEW m \in S, \A k \in S : m <= k
  PROVE  Assembler!Min(S) = m
<1>1. Assembler!Min(S) \in S /\ \A k \in S : Assembler!Min(S) <= k
  BY AsmLeast
<1>2. Assembler!Min(S) <= m /\ m <= Assembler!Min(S) /\ m \in Nat /\ Assembler!Min(S) \in Nat
  BY <1>1
<1>3. QED
  BY <1>2

LEMMA AsmGreatestIs ==
  ASSUME NEW S \in SUBSET Nat, NEW m \in S, \A k \in S : k <= m
  PROVE  Assembler!Max(S) = m
<1>1. Assembler!Max(S) \in S /\ \A k \in S : Assembler!Max(S) >= k
  BY DEF Assembler!Max
<1>2. Assembler!Max(S) <= m /\ m <= Assembler!Max(S) /\ m \in Nat /\ Assembler!Max(S) \in Nat
  BY <1>1
<1>3. QED
  BY <1>2

-----------------------------------------------------------------------------
(* Counting lines.                                                          *)

LEMMA BeforeFinite ==
  ASSUME NEW n \in Nat, NEW S \in SUBSET (1 .. n), NEW i \in Nat
  PROVE  IsFiniteSet(Before(S, i)) /\ Rank(S, i) \in Nat
<1>1. IsFiniteSet(1 .. n)
  BY FS_Interval
<1>2. Before(S, i) \subseteq 1 .. n
  BY DEF Before
<1>3. QED
  BY <1>1, <1>2, FS_Subset, FS_CardinalityType DEF Rank

LEMMA RankStart == ASSUME NEW n \in Nat, NEW S \in SUBSET (1 .. n) PROVE Rank(S, 1) = 0
<1>1. \A j \in Before(S, 1) : j \in 1 .. n /\ j < 1
  BY DEF Before
<1>2. Before(S, 1) = {}
  BY <1>1
<1>3. QED
  BY <1>2, FS_EmptySet DEF Rank

LEMMA LinesBefore ==
  ASSUME NEW n \in Nat, NEW S \in SUBSET (1 .. n), NEW i \in Nat, NEW j
  PROVE  j \in Before(S, i) <=> j \in S /\ j \in 1 .. n /\ j < i
<1>1. j \in S => j \in 1 .. n
  OBVIOUS
<1>2. QED
  BY <1>1 DEF Before

LEMMA RankStep ==
  ASSUME NEW n \in Nat, NEW S \in SUBSET (1 .. n), NEW i \in Nat
  PROVE  /\ i \in S => Rank(S, i + 1) = Rank(S, i) + 1
         /\ i \notin S => Rank(S, i + 1) = Rank(S, i)
<1>1. CASE i \in S
  <2>1. Before(S, i + 1) = Before(S, i) \cup {i} /\ i \notin Before(S, i)
    <3>1. \A j : j \in Before(S, i + 1) <=> j \in Before(S, i) \/ j = i
      BY <1>1, LinesBefore
    <3>2. i \notin Before(S, i)
      BY LinesBefore
    <3> QED BY <3>1, <3>2
  <2>2. IsFiniteSet(Before(S, i))
    BY BeforeFinite
  <2>3. Cardinality(Before(S, i) \cup {i}) = Cardinality(Before(S, i)) + 1
    BY <2>1, <2>2, FS_AddElement
  <2> QED BY <1>1, <2>1, <2>3 DEF Rank
<1>2. CASE i \notin S
  <2>1. Before(S, i + 1) = Before(S, i)
    <3>1. \A j : j \in Before(S, i + 1) <=> j \in Before(S, i)
      BY <1>2, LinesBefore
    <3> QED BY <3>1
  <2> QED BY <1>2, <2>1 DEF Rank
<1>3. QED
  BY <1>1, <1>2

LEMMA RankGrows ==
  ASSUME NEW n \in Nat, NEW S \in SUBSET (1 .. n), NEW i \in Nat, NEW j \in Nat, i <= j
  PROVE  /\ Rank(S, i) <= Rank(S, j) /\ (i \in S /\ i < j => Rank(S, i) < Rank(S, j))
<1>1. Before(S, i) \subseteq Before(S, j)
  <2>1. \A k : k \in Before(S, i) => k \in Before(S, j)
    BY LinesBefore
  <2> QED BY <2>1
<1>2. IsFiniteSet(Before(S, j)) /\ Rank(S, i) \in Nat /\ Rank(S, j) \in Nat
  BY BeforeFinite
<1>3. Rank(S, i) <= Rank(S, j)
  BY <1>1, <1>2, FS_Subset DEF Rank
<1>4. ASSUME i \in S, i < j PROVE Rank(S, i) < Rank(S, j)
  <2>1. Before(S, i) \cup {i} \subseteq Before(S, j) /\ i \notin Before(S, i)
    <3>1. i \in Before(S, j) /\ i \notin Before(S, i)
      BY <1>4, LinesBefore
    <3> QED BY <1>1, <3>1
  <2>2. IsFiniteSet(Before(S, i))
    BY BeforeFinite
  <2>3. Cardinality(Before(S, i) \cup {i}) = Cardinality(Before(S, i)) + 1
    BY <2>1, <2>2, FS_AddElement
  <2>4. Cardinality(Before(S, i) \cup {i}) <= Cardinality(Before(S, j))
    BY <1>2, <2>1, FS_Subset
  <2> QED BY <1>2, <2>3, <2>4 DEF Rank
<1>5. QED
  BY <1>3, <1>4

LEMMA RankBounded ==
  ASSUME NEW n \in Nat, NEW S \in SUBSET (1 .. n), NEW i \in 1 .. n + 1
  PROVE  Rank(S, i) <= i - 1
<1>1. Before(S, i) \subseteq 1 .. i - 1
  <2>1. \A j : j \in Before(S, i) => j \in 1 .. i - 1
    BY LinesBefore
  <2> QED BY <2>1
<1>2. IsFiniteSet(1 .. i - 1) /\ Cardinality(1 .. i - 1) = i - 1
  <2>1. i - 1 \in Nat
    OBVIOUS
  <2> QED BY <2>1, FS_Interval
<1>3. QED
  BY <1>1, <1>2, FS_Subset DEF Rank

\* Every rank below the last is the rank of a line.
LEMMA RankTaken ==
  ASSUME NEW n \in Nat, NEW S \in SUBSET (1 .. n), NEW i \in 1 .. n + 1, NEW k \in 0 .. Rank(S, i) - 1
  PROVE  \E j \in S : j < i /\ Rank(S, j) = k
<1> DEFINE B == {m \in 1 .. n + 1 : k < Rank(S, m)}
<1>1. i \in Nat /\ k \in Nat /\ Rank(S, i) \in Nat /\ k < Rank(S, i)
  <2>1. i \in Nat
    OBVIOUS
  <2>2. Rank(S, i) \in Nat
    BY <2>1, BeforeFinite
  <2> QED BY <2>1, <2>2
<1>2. i \in B /\ B \in SUBSET Nat
  BY <1>1
<1>3. PICK m \in B : \A x \in B : m <= x
  <2> HIDE DEF B
  <2> QED BY <1>2, LeastNat
<1>4. m \in 1 .. n + 1 /\ k < Rank(S, m) /\ m <= i
  BY <1>2, <1>3
<1>5. m # 1
  <2>1. Rank(S, 1) = 0
    BY RankStart
  <2> QED BY <1>1, <1>4, <2>1
<1>6. PICK j \in 1 .. n : m = j + 1
  <2>1. m - 1 \in 1 .. n /\ m = (m - 1) + 1
    BY <1>4, <1>5
  <2> QED BY <2>1
<1>7. j \in Nat /\ Rank(S, j) \in Nat /\ ~(k < Rank(S, j))
  <2>1. j \notin B
    BY <1>3, <1>6
  <2>2. j \in 1 .. n + 1 /\ j \in Nat
    OBVIOUS
  <2> QED BY <2>1, <2>2, BeforeFinite
<1>8. j \in S /\ Rank(S, m) = Rank(S, j) + 1
  BY <1>4, <1>6, <1>7, RankStep
<1>9. QED
  BY <1>1, <1>4, <1>6, <1>7, <1>8

-----------------------------------------------------------------------------
(* Where a line stands.                                                     *)

LEMMA TextIs ==
  ASSUME source \in Sources
  PROVE  /\ Len(source) \in Nat /\ DOMAIN source = 1 .. Len(source)
         /\ KernelLines \in SUBSET (1 .. Len(source)) /\ EndLines \in SUBSET (1 .. Len(source))
         /\ LabelLines \in SUBSET (1 .. Len(source)) /\ InsnLines \in SUBSET (1 .. Len(source))
<1>1. PICK S : source \in Seq(S)
  BY AssemblerConstants
<1>2. Len(source) \in Nat /\ DOMAIN source = 1 .. Len(source)
  BY <1>1
<1>3. QED
  BY <1>2 DEF KernelLines, EndLines, LabelLines, InsnLines, Assembler!LinesOf

\* Only the lines of a kind have it.
LEMMA KindOf ==
  ASSUME source \in Sources, NEW i \in 1 .. Len(source)
  PROVE  /\ i \in KernelLines <=> source[i].kind = "kernel"
         /\ i \in EndLines <=> source[i].kind = "end"
         /\ i \in LabelLines <=> source[i].kind = "label"
         /\ i \in InsnLines <=> source[i].kind = "insn"
<1>1. i \in DOMAIN source
  BY TextIs
<1>2. QED
  BY <1>1 DEF KernelLines, EndLines, LabelLines, InsnLines, Assembler!LinesOf

Directives == KernelLines \cup EndLines

LEMMA UnderStart == ASSUME source \in Sources PROVE Assembler!Under(1) = 0
<1> DEFINE S == {0} \cup {j \in Directives : j < 1}
<1>1. \A j \in S : j = 0
  <2>1. \A j \in Directives : j \in 1 .. Len(source)
    BY TextIs DEF Directives
  <2> QED BY <2>1, TextIs
<1>2. S \in SUBSET Nat /\ 0 \in S /\ \A k \in S : k <= 0
  <2>1. 0 \in S
    OBVIOUS
  <2> HIDE DEF S
  <2>2. \A j \in S : j \in Nat /\ j <= 0
    BY <1>1
  <2> QED BY <2>1, <2>2
<1>3. Assembler!Under(1) = Assembler!Max(S)
  BY DEF Assembler!Under, Directives, KernelLines, EndLines
<1> HIDE DEF S
<1>4. QED
  BY <1>2, <1>3, AsmGreatestIs

LEMMA UnderIs ==
  ASSUME source \in Sources, NEW i \in 1 .. Len(source) + 1, NEW m,
         m \in {0} \cup Directives, m < i, \A j \in Directives : j < i => j <= m
  PROVE  Assembler!Under(i) = m
<1> DEFINE S == {0} \cup {j \in Directives : j < i}
<1>1. \A j \in Directives : j \in 1 .. Len(source)
  BY TextIs DEF Directives
<1>2. S \in SUBSET Nat
  <2>1. \A j \in S : j \in Nat
    BY <1>1, TextIs
  <2> QED BY <2>1
<1>3. m \in S /\ m \in Nat
  BY <1>2
<1>4. \A k \in S : k <= m
  BY <1>3
<1>5. Assembler!Under(i) = Assembler!Max(S)
  BY DEF Assembler!Under, Directives, KernelLines, EndLines
<1> HIDE DEF S
<1>6. QED
  BY <1>2, <1>3, <1>4, <1>5, AsmGreatestIs

\* The directive a line stands under is an earlier one.
LEMMA UnderExists ==
  ASSUME source \in Sources, NEW i \in 1 .. Len(source) + 1
  PROVE  /\ Assembler!Under(i) \in {0} \cup Directives
         /\ Assembler!Under(i) \in Nat /\ Assembler!Under(i) < i
         /\ \A j \in Directives : j < i => j <= Assembler!Under(i)
<1> DEFINE D == {j \in Directives : j < i}
           B == {i - j : j \in {0} \cup D}
<1>1. \A j \in D : j \in 1 .. Len(source) /\ j < i
  BY TextIs DEF Directives
<1>2. i \in Nat /\ \A j \in {0} \cup D : j \in Nat /\ j < i /\ i - j \in Nat
  BY <1>1, TextIs
<1>3. PICK b \in B : \A x \in B : b <= x
  <2>1. B \in SUBSET Nat /\ i - 0 \in B
    BY <1>2
  <2> HIDE DEF B
  <2> QED BY <2>1, LeastNat
<1>4. PICK m \in {0} \cup D : b = i - m
  BY <1>3
<1>5. \A j \in D : j <= m
  <2> SUFFICES ASSUME NEW j \in D PROVE j <= m
    OBVIOUS
  <2>1. i - j \in B
    OBVIOUS
  <2>2. i - m <= i - j
    BY <1>3, <1>4, <2>1
  <2>3. i \in Nat /\ j \in Nat /\ m \in Nat
    BY <1>2
  <2> QED BY <2>2, <2>3
<1>6. m \in {0} \cup Directives /\ m < i /\ m \in Nat
  BY <1>2, <1>4
<1>7. Assembler!Under(i) = m
  BY <1>5, <1>6, UnderIs
<1>8. QED
  BY <1>5, <1>6, <1>7

LEMMA UnderStep ==
  ASSUME source \in Sources, NEW i \in 1 .. Len(source)
  PROVE  /\ i \in Directives => Assembler!Under(i + 1) = i
         /\ i \notin Directives => Assembler!Under(i + 1) = Assembler!Under(i)
<1>1. Len(source) \in Nat /\ i \in 1 .. Len(source) + 1 /\ i + 1 \in 1 .. Len(source) + 1
  BY TextIs
<1>2. \A j \in Directives : j \in 1 .. Len(source)
  BY TextIs DEF Directives
<1>3. ASSUME i \in Directives PROVE Assembler!Under(i + 1) = i
  <2>1. i < i + 1 /\ \A j \in Directives : j < i + 1 => j <= i
    BY <1>1, <1>2
  <2> QED BY <1>1, <1>3, <2>1, UnderIs
<1>4. ASSUME i \notin Directives PROVE Assembler!Under(i + 1) = Assembler!Under(i)
  <2> DEFINE m == Assembler!Under(i)
  <2>1. m \in {0} \cup Directives /\ m \in Nat /\ m < i /\ \A j \in Directives : j < i => j <= m
    BY <1>1, UnderExists
  <2> HIDE DEF m
  <2>2. m < i + 1
    BY <2>1
  <2>3. ASSUME NEW j \in Directives, j < i + 1 PROVE j <= m
    <3>1. j # i
      BY <1>4
    <3>2. j < i
      BY <1>2, <2>3, <3>1
    <3> QED BY <2>1, <3>2
  <2>4. Assembler!Under(i + 1) = m
    BY <1>1, <2>1, <2>2, <2>3, UnderIs
  <2> QED BY <2>4 DEF m
<1>5. QED
  BY <1>3, <1>4

LEMMA IndexIs ==
  ASSUME NEW i PROVE Assembler!IndexOf(i) = Counted(i)
  BY DEF Assembler!IndexOf, Counted, Rank, Before, InsnLines, Assembler!Cardinality, Cardinality

\* Instructions are counted one by one, and their place in the kernel with them.
LEMMA CountedFacts ==
  ASSUME source \in Sources
  PROVE  /\ \A i \in 1 .. Len(source) + 1 : Counted(i) \in 0 .. i - 1
         /\ Counted(0) = 0 /\ Counted(1) = 0
         /\ \A i, j \in 0 .. Len(source) + 1 : i <= j => Counted(i) <= Counted(j)
         /\ \A i, j \in 0 .. Len(source) + 1 : i < j /\ i \in InsnLines => Counted(i) < Counted(j)
<1>1. Len(source) \in Nat /\ InsnLines \in SUBSET (1 .. Len(source))
  BY TextIs
<1>2. ASSUME NEW i \in 1 .. Len(source) + 1 PROVE Counted(i) \in 0 .. i - 1
  <2>1. i \in Nat
    OBVIOUS
  <2>2. Rank(InsnLines, i) \in Nat
    BY <1>1, <2>1, BeforeFinite
  <2>3. Rank(InsnLines, i) <= i - 1
    BY <1>1, RankBounded
  <2> QED BY <2>1, <2>2, <2>3 DEF Counted
<1>3. Counted(1) = 0
  BY <1>1, RankStart DEF Counted
<1>4. ASSUME NEW i \in 0 .. Len(source) + 1, NEW j \in 0 .. Len(source) + 1, i <= j
      PROVE  Counted(i) <= Counted(j) /\ (i < j /\ i \in InsnLines => Counted(i) < Counted(j))
  <2>1. i \in Nat /\ j \in Nat
    OBVIOUS
  <2> QED BY <1>1, <1>4, <2>1, RankGrows DEF Counted
<1>5. Counted(0) = 0
  <2>1. Before(InsnLines, 0) = {}
    <3>1. \A j \in Before(InsnLines, 0) : j \in 1 .. Len(source) /\ j < 0
      BY <1>1, LinesBefore
    <3> QED BY <3>1
  <2> QED BY <2>1, FS_EmptySet DEF Counted, Rank
<1>6. ASSUME NEW i \in 0 .. Len(source) + 1, NEW j \in 0 .. Len(source) + 1, i < j, i \in InsnLines
      PROVE  Counted(i) < Counted(j)
  <2>1. i <= j
    BY <1>6
  <2> QED BY <1>4, <1>6, <2>1
<1>7. QED
  BY <1>2, <1>3, <1>4, <1>5, <1>6

LEMMA CountedStep ==
  ASSUME source \in Sources, NEW i \in 1 .. Len(source)
  PROVE  Counted(i + 1) = Counted(i) + (IF i \in InsnLines THEN 1 ELSE 0)
<1>1. Len(source) \in Nat /\ InsnLines \in SUBSET (1 .. Len(source)) /\ i \in Nat
  BY TextIs
<1>2. Counted(i) \in Nat
  BY <1>1, BeforeFinite DEF Counted
<1>3. /\ i \in InsnLines => Rank(InsnLines, i + 1) = Rank(InsnLines, i) + 1
      /\ i \notin InsnLines => Rank(InsnLines, i + 1) = Rank(InsnLines, i)
  BY <1>1, RankStep
<1>4. QED
  BY <1>2, <1>3 DEF Counted

LEMMA PlaceBounds ==
  ASSUME source \in Sources, NEW i \in 1 .. Len(source) + 1
  PROVE  PlaceOf(i) \in 0 .. Counted(i) /\ PlaceOf(i) \in 0 .. Len(source)
<1>1. Assembler!Under(i) \in Nat /\ Assembler!Under(i) < i /\ Len(source) \in Nat /\ i \in Nat
  BY TextIs, UnderExists
<1>2. PICK u \in 0 .. Len(source) + 1 : u = Assembler!Under(i) /\ u <= i
  BY <1>1
<1>3. Counted(u) <= Counted(i) /\ Counted(i) \in 0 .. i - 1 /\ 0 <= Counted(u) /\ Counted(u) \in Int
  <2>1. Counted(i) \in 0 .. i - 1 /\ i \in 0 .. Len(source) + 1
    BY <1>1, CountedFacts
  <2>2. Counted(u) <= Counted(i)
    BY <1>2, <2>1, CountedFacts
  <2>3. Counted(u) \in Nat
    <3>1. CASE u = 0
      BY <3>1, CountedFacts
    <3>2. CASE u # 0
      <4>1. u \in 1 .. Len(source) + 1
        BY <1>1, <3>2
      <4>2. Counted(u) \in 0 .. u - 1
        BY <4>1, CountedFacts
      <4> QED BY <4>2
    <3> QED BY <3>1, <3>2
  <2> QED BY <2>1, <2>2, <2>3
<1>4. PlaceOf(i) = Counted(i) - Counted(u)
  BY <1>2 DEF PlaceOf
<1>5. QED
  BY <1>1, <1>3, <1>4

LEMMA PlaceStep ==
  ASSUME source \in Sources, NEW i \in 1 .. Len(source)
  PROVE  /\ i \in Directives => PlaceOf(i + 1) = 0 /\ (InKernel(i + 1) <=> i \in KernelLines)
         /\ i \notin Directives =>
              /\ PlaceOf(i + 1) = PlaceOf(i) + (IF i \in InsnLines THEN 1 ELSE 0)
              /\ InKernel(i + 1) <=> InKernel(i)
<1>1. Counted(i + 1) = Counted(i) + (IF i \in InsnLines THEN 1 ELSE 0) /\ Counted(i) \in Int
  <2>1. i \in 1 .. Len(source) + 1
    BY TextIs
  <2>2. Counted(i) \in 0 .. i - 1
    BY <2>1, CountedFacts
  <2> QED BY <2>2, CountedStep
<1>2. ASSUME i \in Directives
      PROVE  PlaceOf(i + 1) = 0 /\ (InKernel(i + 1) <=> i \in KernelLines)
  <2>1. Assembler!Under(i + 1) = i
    BY <1>2, UnderStep
  <2>2. i \notin InsnLines
    BY <1>2, KindOf DEF Directives
  <2> QED BY <1>1, <2>1, <2>2 DEF PlaceOf, InKernel
<1>3. ASSUME i \notin Directives
      PROVE  /\ PlaceOf(i + 1) = PlaceOf(i) + (IF i \in InsnLines THEN 1 ELSE 0)
             /\ InKernel(i + 1) <=> InKernel(i)
  <2>1. Assembler!Under(i + 1) = Assembler!Under(i)
    BY <1>3, UnderStep
  <2>2. PlaceOf(i + 1) = Counted(i + 1) - Counted(Assembler!Under(i))
    BY <2>1 DEF PlaceOf
  <2>3. PlaceOf(i) \in 0 .. Counted(i)
    BY PlaceBounds, TextIs
  <2>4. PlaceOf(i) = Counted(i) - Counted(Assembler!Under(i))
    BY DEF PlaceOf
  <2>5. Counted(Assembler!Under(i)) \in Int
    <3>1. i \in 1 .. Len(source) + 1
      BY TextIs
    <3>2. Assembler!Under(i) \in Nat /\ Assembler!Under(i) < i
      BY <3>1, UnderExists
    <3>3. CASE Assembler!Under(i) = 0
      BY <3>3, CountedFacts
    <3>4. CASE Assembler!Under(i) # 0
      <4>1. Assembler!Under(i) \in 1 .. Len(source) + 1
        BY <3>1, <3>2, <3>4, TextIs
      <4>2. Counted(Assembler!Under(i)) \in 0 .. Assembler!Under(i) - 1
        BY <4>1, CountedFacts
      <4> QED BY <4>2
    <3> QED BY <3>3, <3>4
  <2>6. PlaceOf(i + 1) = PlaceOf(i) + (IF i \in InsnLines THEN 1 ELSE 0)
    BY <1>1, <2>2, <2>4, <2>5
  <2> QED BY <2>1, <2>6 DEF InKernel
<1>4. QED
  BY <1>2, <1>3

-----------------------------------------------------------------------------
(* Sequences of anything, and the bytes that names take.                    *)

LEMMA SeqFacts ==
  ASSUME NEW s, IsSeq(s)
  PROVE  /\ Len(s) \in Nat /\ DOMAIN s = 1 .. Len(s)
         /\ s = [i \in 1 .. Len(s) |-> s[i]]
<1>1. PICK S : s \in Seq(S)
  BY DEF IsSeq
<1>2. QED
  BY <1>1

LEMMA SeqWider == ASSUME NEW S, NEW T, S \subseteq T, NEW s \in Seq(S) PROVE s \in Seq(T)
<1>1. s = [i \in 1 .. Len(s) |-> s[i]] /\ Len(s) \in Nat /\ \A i \in 1 .. Len(s) : s[i] \in T
  OBVIOUS
<1>2. s \in [1 .. Len(s) -> T]
  BY <1>1
<1>3. QED
  BY <1>1, <1>2

LEMMA SeqAppend ==
  ASSUME NEW s, IsSeq(s), NEW e, NEW t, t = Append(s, e)
  PROVE  /\ IsSeq(t) /\ Len(t) = Len(s) + 1 /\ DOMAIN t = 1 .. Len(s) + 1
         /\ t[Len(s) + 1] = e /\ \A i \in 1 .. Len(s) : t[i] = s[i]
<1>1. PICK S : s \in Seq(S)
  BY DEF IsSeq
<1>2. s \in Seq(S \cup {e}) /\ e \in S \cup {e}
  BY <1>1, SeqWider
<1>3. t \in Seq(S \cup {e}) /\ Len(t) = Len(s) + 1
      /\ t[Len(s) + 1] = e /\ \A i \in 1 .. Len(s) : t[i] = s[i]
  BY <1>2, AppendProperties
<1>4. DOMAIN t = 1 .. Len(s) + 1
  BY <1>3
<1>5. QED
  BY <1>3, <1>4 DEF IsSeq

LEMMA AppendIsSeq ==
  ASSUME NEW s, IsSeq(s), NEW e
  PROVE  IsSeq(Append(s, e))
<1> PICK t : t = Append(s, e)
  OBVIOUS
<1>1. IsSeq(t)
  BY SeqAppend
<1>2. QED
  BY <1>1

LEMMA SeqConcat ==
  ASSUME NEW s, IsSeq(s), NEW r, IsSeq(r), NEW t, t = s \o r
  PROVE  /\ IsSeq(t) /\ Len(t) = Len(s) + Len(r)
         /\ \A i \in 1 .. Len(s) : t[i] = s[i]
         /\ \A i \in 1 .. Len(r) : t[Len(s) + i] = r[i]
<1>1. PICK S : s \in Seq(S)
  BY DEF IsSeq
<1>2. PICK R : r \in Seq(R)
  BY DEF IsSeq
<1> DEFINE T == S \cup R
<1>3. s \in Seq(T) /\ r \in Seq(T)
  BY <1>1, <1>2, SeqWider
<1> HIDE DEF T
<1>4. t \in Seq(T) /\ Len(t) = Len(s) + Len(r)
  BY <1>3
<1>5. \A i \in 1 .. Len(s) : t[i] = s[i]
  BY <1>3
<1>6. ASSUME NEW i \in 1 .. Len(r) PROVE t[Len(s) + i] = r[i]
  <2>1. Len(s) \in Nat /\ Len(r) \in Nat
    BY <1>3
  <2>2. Len(s) + i \in 1 .. Len(s) + Len(r) /\ ~(Len(s) + i <= Len(s))
    BY <2>1
  <2>3. t[Len(s) + i] = r[(Len(s) + i) - Len(s)]
    BY <1>3, <2>1, <2>2
  <2>4. (Len(s) + i) - Len(s) = i
    BY <2>1
  <2> QED BY <2>3, <2>4
<1>7. QED
  BY <1>4, <1>5, <1>6 DEF IsSeq

LEMMA SeqOne == ASSUME NEW e PROVE IsSeq(<<e>>) /\ Len(<<e>>) = 1 /\ <<e>>[1] = e
<1>1. <<e>> \in Seq({e})
  OBVIOUS
<1>2. QED
  BY <1>1 DEF IsSeq

LEMMA SeqNone == IsSeq(<<>>) /\ Len(<<>>) = 0
<1>1. <<>> \in Seq({})
  OBVIOUS
<1>2. QED
  BY <1>1 DEF IsSeq

\* The recursive function inside NameBytes.
BytesFold(names, D) ==
  CHOOSE g : g = [S \in SUBSET D |->
    IF S = {} THEN 0
    ELSE g[S \ {Assembler!Max(S)}] + Len(names[Assembler!Max(S)]) + 1]

LEMMA NameBytesFold ==
  ASSUME NEW names
  PROVE  Assembler!NameBytes(names) = BytesFold(names, DOMAIN names)[DOMAIN names]
  BY DEF Assembler!NameBytes, Assembler!FoldLeft, Assembler!MapThenFoldSet, BytesFold

LEMMA AsmMaxIn ==
  ASSUME NEW n \in Nat, NEW S \in SUBSET (1 .. n), S # {}
  PROVE  Assembler!Max(S) \in S
<1> DEFINE B == {n - x : x \in S}
<1>1. \A x \in S : x \in 1 .. n
  OBVIOUS
<1>2. B \in SUBSET Nat /\ B # {}
  <2>1. \A x \in S : n - x \in Nat
    BY <1>1
  <2> QED BY <2>1
<1>3. PICK b \in B : \A y \in B : b <= y
  <2> HIDE DEF B
  <2> QED BY <1>2, LeastNat
<1>4. PICK m \in S : b = n - m
  OBVIOUS
<1>5. \A y \in S : y <= m
  <2> SUFFICES ASSUME NEW y \in S PROVE y <= m
    OBVIOUS
  <2>1. n - y \in B
    OBVIOUS
  <2>2. n - m <= n - y
    BY <1>3, <1>4, <2>1
  <2> QED BY <1>1, <2>2
<1>6. S \in SUBSET Nat
  BY <1>1
<1>7. QED
  BY <1>5, <1>6, AsmGreatestIs

\* NameBytes adds up what each name takes.
LEMMA NameBytesSum ==
  ASSUME NEW names, NEW n \in Nat, DOMAIN names = 1 .. n, \A i \in 1 .. n : Len(names[i]) \in Nat,
         NEW h, \A i \in 1 .. n : h[i] = Len(names[i]) + 1
  PROVE  Assembler!NameBytes(names) = SumFunctionOnSet(h, 1 .. n)
<1> DEFINE D == 1 .. n
           G == [S \in SUBSET D |-> SumFunctionOnSet(h, S)]
           F == BytesFold(names, D)
<1>1. IsFiniteSet(D) /\ \A S \in SUBSET D : IsFiniteSet(S)
  <2>1. IsFiniteSet(D)
    BY FS_Interval
  <2> HIDE DEF D
  <2> QED BY <2>1, FS_Subset
<1>2. ASSUME NEW S \in SUBSET D
      PROVE  G[S] = IF S = {} THEN 0
                    ELSE G[S \ {Assembler!Max(S)}] + Len(names[Assembler!Max(S)]) + 1
  <2>1. CASE S = {}
    <3>1. SumFunctionOnSet(h, S) = 0
      BY <1>1, <2>1, SumStep
    <3> QED BY <2>1, <3>1
  <2>2. CASE S # {}
    <3>1. PICK m \in S : m = Assembler!Max(S)
      BY <2>2, AsmMaxIn
    <3>2. \A i \in S : h[i] \in Int
      OBVIOUS
    <3>3. SumFunctionOnSet(h, S) = h[m] + SumFunctionOnSet(h, S \ {m})
      <4>1. IsFiniteSet(S)
        BY <1>1
      <4> HIDE DEF D
      <4> QED BY <3>2, <4>1, SumRemove
    <3>4. SumFunctionOnSet(h, S \ {m}) \in Int
      <4>1. IsFiniteSet(S \ {m}) /\ \A i \in S \ {m} : h[i] \in Int
        BY <1>1, <3>2
      <4> QED BY <4>1, SumType
    <3>5. h[m] = Len(names[m]) + 1 /\ Len(names[m]) \in Nat
      OBVIOUS
    <3>6. G[S] = SumFunctionOnSet(h, S) /\ G[S \ {m}] = SumFunctionOnSet(h, S \ {m})
      OBVIOUS
    <3> HIDE DEF G
    <3>7. G[S] = G[S \ {m}] + Len(names[m]) + 1
      BY <3>3, <3>4, <3>5, <3>6
    <3> QED BY <2>2, <3>1, <3>7
  <2> QED BY <2>1, <2>2
<1>3. G = [S \in SUBSET D |->
             IF S = {} THEN 0
             ELSE G[S \ {Assembler!Max(S)}] + Len(names[Assembler!Max(S)]) + 1]
  <2>1. G = [S \in SUBSET D |-> G[S]]
    OBVIOUS
  <2> HIDE DEF G
  <2> QED BY <1>2, <2>1
<1> HIDE DEF G, D
<1>4. BytesFold(names, D) = [S \in SUBSET D |->
             IF S = {} THEN 0
             ELSE BytesFold(names, D)[S \ {Assembler!Max(S)}] + Len(names[Assembler!Max(S)]) + 1]
  BY <1>3, Zenon DEF BytesFold
<1>5. \A S \in SUBSET D :
        F[S] = IF S = {} THEN 0 ELSE F[S \ {Assembler!Max(S)}] + Len(names[Assembler!Max(S)]) + 1
  BY <1>4
<1> HIDE DEF F
<1> DEFINE B == {S \in SUBSET D : F[S] # G[S]}
<1>6. B = {}
  <2> SUFFICES ASSUME B # {} PROVE FALSE
    OBVIOUS
  <2>1. PICK T \in B : \A V \in SUBSET D : Cardinality(V) < Cardinality(T) => V \notin B
    <3>1. B \in SUBSET SUBSET D
      OBVIOUS
    <3> HIDE DEF B
    <3> QED BY <1>1, <3>1, LeastSet DEF D
  <2>2. T \in SUBSET D /\ F[T] # G[T]
    OBVIOUS
  <2>3. T # {}
    BY <1>2, <1>5, <2>2
  <2>4. PICK m \in T : m = Assembler!Max(T)
    BY <2>2, <2>3, AsmMaxIn DEF D
  <2>5. IsFiniteSet(T) /\ T \ {m} \in SUBSET D
    BY <1>1, <2>2 DEF D
  <2>6. Cardinality(T \ {m}) < Cardinality(T)
    <3>1. Cardinality(T \ {m}) = Cardinality(T) - 1 /\ Cardinality(T) \in Nat
      BY <2>5, FS_RemoveElement, FS_CardinalityType
    <3> QED BY <3>1
  <2>7. F[T \ {m}] = G[T \ {m}]
    BY <2>1, <2>5, <2>6
  <2>8. F[T] = F[T \ {m}] + Len(names[m]) + 1 /\ G[T] = G[T \ {m}] + Len(names[m]) + 1
    BY <1>2, <1>5, <2>2, <2>3, <2>4
  <2> QED BY <2>2, <2>7, <2>8
<1>7. F[D] = G[D]
  BY <1>6
<1>8. QED
  BY <1>7, NameBytesFold DEF F, G, D

\* The offsets of names add up.
LEMMA NameOffSum ==
  ASSUME NEW img, IsSeq(img.kernels), \A k \in DOMAIN img.kernels : Len(img.kernels[k].name) \in Nat,
         NEW h, \A i \in 1 .. Len(img.kernels) : h[i] = Len(img.kernels[i].name) + 1,
         NEW k \in 1 .. Len(img.kernels) + 1
  PROVE  Assembler!NameOff(img, k) = SumFunctionOnSet(h, 1 .. k - 1)
<1> DEFINE names == [i \in 1 .. k - 1 |-> img.kernels[i].name]
<1>1. Len(img.kernels) \in Nat /\ DOMAIN img.kernels = 1 .. Len(img.kernels)
  BY SeqFacts
<1>2. k - 1 \in Nat /\ \A i \in 1 .. k - 1 : i \in 1 .. Len(img.kernels)
  BY <1>1
<1>3. DOMAIN names = 1 .. k - 1 /\ \A i \in 1 .. k - 1 : names[i] = img.kernels[i].name
  OBVIOUS
<1> HIDE DEF names
<1>4. \A i \in 1 .. k - 1 : Len(names[i]) \in Nat /\ h[i] = Len(names[i]) + 1
  BY <1>1, <1>2, <1>3
<1>5. Assembler!NameBytes(names) = SumFunctionOnSet(h, 1 .. k - 1)
  BY <1>2, <1>3, <1>4, NameBytesSum
<1>6. QED
  BY <1>5 DEF Assembler!NameOff, names

LEMMA SumLast ==
  ASSUME NEW h, NEW k \in Nat, k # 0, \A i \in 1 .. k : h[i] \in Int
  PROVE  SumFunctionOnSet(h, 1 .. k) = h[k] + SumFunctionOnSet(h, 1 .. k - 1)
<1>1. PICK D : D = 1 .. k
  OBVIOUS
<1>2. D \ {k} = 1 .. k - 1 /\ k \in D /\ \A i \in D : h[i] \in Int
  BY <1>1
<1>3. IsFiniteSet(D)
  BY <1>1, FS_Interval
<1>4. \A i \in D : h[i] \in Int
  BY <1>2
<1>5. SumFunctionOnSet(h, D) = h[k] + SumFunctionOnSet(h, D \ {k})
  BY <1>2, <1>3, <1>4, SumRemove
<1>6. QED
  BY <1>1, <1>2, <1>5

LEMMA NameOffFacts ==
  ASSUME NEW img, IsSeq(img.kernels), \A k \in DOMAIN img.kernels : Len(img.kernels[k].name) \in Nat
  PROVE  /\ \A k \in 1 .. Len(img.kernels) + 1 : Assembler!NameOff(img, k) \in Nat
         /\ \A k \in 1 .. Len(img.kernels) :
              Assembler!NameOff(img, k + 1) = Assembler!NameOff(img, k) + Len(img.kernels[k].name) + 1
<1> DEFINE N == Len(img.kernels)
<1>1. N \in Nat /\ DOMAIN img.kernels = 1 .. N
  BY SeqFacts
<1> PICK h : h = [i \in 1 .. N |-> Len(img.kernels[i].name) + 1]
  OBVIOUS
<1>2. \A i \in 1 .. N : h[i] = Len(img.kernels[i].name) + 1 /\ h[i] \in Nat
  BY <1>1
<1>3. ASSUME NEW k \in 1 .. N + 1 PROVE Assembler!NameOff(img, k) = SumFunctionOnSet(h, 1 .. k - 1)
  BY <1>2, NameOffSum
<1>4. ASSUME NEW k \in 1 .. N + 1 PROVE Assembler!NameOff(img, k) \in Nat
  <2> DEFINE D == 1 .. k - 1
  <2>1. IsFiniteSet(D) /\ \A i \in D : h[i] \in Nat
    <3>1. \A i \in D : i \in 1 .. N
      BY <1>1
    <3>2. IsFiniteSet(D)
      BY <1>1, FS_Interval
    <3> QED BY <1>2, <3>1, <3>2
  <2> HIDE DEF D
  <2>2. SumFunctionOnSet(h, D) \in Nat
    BY <2>1, SumNat
  <2> QED BY <1>3, <2>2 DEF D
<1>5. ASSUME NEW k \in 1 .. N
      PROVE  Assembler!NameOff(img, k + 1) = Assembler!NameOff(img, k) + Len(img.kernels[k].name) + 1
  <2>1. k \in 1 .. N + 1 /\ k + 1 \in 1 .. N + 1 /\ (k + 1) - 1 = k /\ k \in Nat /\ k # 0
    BY <1>1
  <2>2. \A i \in 1 .. k : h[i] \in Int
    <3>1. \A i \in 1 .. k : i \in 1 .. N
      BY <1>1
    <3> QED BY <1>2, <3>1
  <2>3. SumFunctionOnSet(h, 1 .. k) = h[k] + SumFunctionOnSet(h, 1 .. k - 1)
    BY <2>1, <2>2, SumLast
  <2>4. Assembler!NameOff(img, k) = SumFunctionOnSet(h, 1 .. k - 1)
        /\ Assembler!NameOff(img, k + 1) = SumFunctionOnSet(h, 1 .. k)
    <3>1. Assembler!NameOff(img, k + 1) = SumFunctionOnSet(h, 1 .. (k + 1) - 1)
      BY <1>3, <2>1
    <3> QED BY <1>3, <2>1, <3>1
  <2>5. Assembler!NameOff(img, k + 1) = h[k] + Assembler!NameOff(img, k)
    BY <2>3, <2>4
  <2>6. Assembler!NameOff(img, k) \in Nat /\ h[k] = Len(img.kernels[k].name) + 1 /\ h[k] \in Nat
        /\ Len(img.kernels[k].name) \in Nat
    BY <1>1, <1>2, <1>4, <2>1
  <2> QED BY <2>5, <2>6
<1>6. QED
  BY <1>4, <1>5

LEMMA NameOffFirst == ASSUME NEW img PROVE Assembler!NameOff(img, 1) = 0
<1> DEFINE names == [i \in 1 .. 1 - 1 |-> img.kernels[i].name]
           h == [i \in 1 .. 0 |-> 1]
<1>1. DOMAIN names = 1 .. 0 /\ 0 \in Nat /\ \A i \in 1 .. 0 : Len(names[i]) \in Nat /\ h[i] = Len(names[i]) + 1
  OBVIOUS
<1> HIDE DEF names, h
<1>2. Assembler!NameBytes(names) = SumFunctionOnSet(h, 1 .. 0)
  BY <1>1, NameBytesSum
<1>3. 1 .. 0 = {} /\ IsFiniteSet({})
  BY FS_EmptySet
<1>4. SumFunctionOnSet(h, {}) = 0
  BY <1>3, SumStep
<1>5. QED
  BY <1>2, <1>3, <1>4 DEF Assembler!NameOff, names

\* An offset depends on the names before it.
LEMMA NameOffSame ==
  ASSUME NEW img, NEW jmg, NEW k \in Nat,
         \A i \in 1 .. k - 1 : img.kernels[i].name = jmg.kernels[i].name
  PROVE  Assembler!NameOff(img, k) = Assembler!NameOff(jmg, k)
<1>1. [i \in 1 .. k - 1 |-> img.kernels[i].name] = [i \in 1 .. k - 1 |-> jmg.kernels[i].name]
  OBVIOUS
<1>2. QED
  BY <1>1 DEF Assembler!NameOff

\* A name that is appended is held after everything else.
LEMMA NameAppended ==
  ASSUME NEW pool, IsSeq(pool), NEW name, IsName(name), NEW p, p = pool \o name,
         NEW r, r = <<NUL>>, NEW all, all = p \o r
  PROVE  /\ IsSeq(all) /\ Len(all) = Len(pool) + Len(name) + 1
         /\ \A off : off = Len(pool) => HeldAt(all, off, name)
         /\ \A off, other : Len(other) \in Nat /\ HeldAt(pool, off, other) => HeldAt(all, off, other)
<1>1. IsSeq(name)
  BY DEF IsName
<1>2. Len(name) \in Nat /\ \A n \in 1 .. Len(name) : name[n] # NUL
  BY <1>1, SeqFacts DEF IsName
<1>3. /\ IsSeq(p) /\ Len(p) = Len(pool) + Len(name)
      /\ \A i \in 1 .. Len(pool) : p[i] = pool[i]
      /\ \A i \in 1 .. Len(name) : p[Len(pool) + i] = name[i]
  <2>1. IsSeq(p) /\ Len(p) = Len(pool) + Len(name)
    BY <1>1, SeqConcat
  <2>2. \A i \in 1 .. Len(pool) : p[i] = pool[i]
    BY <1>1, SeqConcat
  <2>3. \A i \in 1 .. Len(name) : p[Len(pool) + i] = name[i]
    BY <1>1, SeqConcat
  <2> QED BY <2>1, <2>2, <2>3
<1>4. IsSeq(r) /\ Len(r) = 1 /\ r[1] = NUL
  BY SeqOne
<1>5. /\ IsSeq(all) /\ Len(all) = Len(p) + 1
      /\ \A i \in 1 .. Len(p) : all[i] = p[i]
      /\ all[Len(p) + 1] = NUL
  <2>1. IsSeq(p)
    BY <1>3
  <2>2. IsSeq(r)
    BY <1>4
  <2>3. IsSeq(all) /\ Len(all) = Len(p) + Len(r)
    BY <2>1, <2>2, SeqConcat
  <2>4. \A i \in 1 .. Len(p) : all[i] = p[i]
    BY <2>1, <2>2, SeqConcat
  <2>5. \A i \in 1 .. Len(r) : all[Len(p) + i] = r[i]
    BY <2>1, <2>2, SeqConcat
  <2> QED BY <1>4, <2>3, <2>4, <2>5
<1>6. Len(pool) \in Nat /\ Len(p) \in Nat
  BY <1>3, SeqFacts
<1>7. HeldAt(all, Len(pool), name)
  <2>1. \A n \in 1 .. Len(name) : Len(pool) + n \in 1 .. Len(p)
    BY <1>2, <1>3, <1>6
  <2>2. \A n \in 1 .. Len(name) : all[Len(pool) + n] = name[n]
    BY <1>3, <1>5, <2>1
  <2>3. all[Len(pool) + Len(name) + 1] = NUL
    BY <1>3, <1>5
  <2>4. Len(pool) + Len(name) + 1 <= Len(all)
    BY <1>2, <1>3, <1>5, <1>6
  <2> QED BY <1>6, <2>2, <2>3, <2>4 DEF HeldAt
<1>8. ASSUME NEW off, NEW other, Len(other) \in Nat, HeldAt(pool, off, other)
      PROVE  HeldAt(all, off, other)
  <2>1. off \in Nat /\ off + Len(other) + 1 <= Len(pool)
        /\ (\A n \in 1 .. Len(other) : pool[off + n] = other[n])
        /\ pool[off + Len(other) + 1] = NUL
    BY <1>8 DEF HeldAt
  <2>2. \A i \in 1 .. Len(pool) : all[i] = pool[i]
    <3>1. \A i \in 1 .. Len(pool) : i \in 1 .. Len(p)
      BY <1>2, <1>3, <1>6
    <3> QED BY <1>3, <1>5, <3>1
  <2>3. \A n \in 1 .. Len(other) : off + n \in 1 .. Len(pool)
    BY <1>6, <1>8, <2>1
  <2>4. off + Len(other) + 1 \in 1 .. Len(pool)
    BY <1>6, <1>8, <2>1
  <2>5. off + Len(other) + 1 <= Len(all)
    BY <1>2, <1>3, <1>5, <1>6, <1>8, <2>1
  <2> QED BY <2>1, <2>2, <2>3, <2>4, <2>5 DEF HeldAt
<1>9. Len(all) = Len(pool) + Len(name) + 1
  BY <1>3, <1>5
<1>10. QED
  BY <1>5, <1>7, <1>8, <1>9

LEMMA NameHeld ==
  ASSUME NEW pool, IsSeq(pool), NEW name, IsName(name), NEW p, p = pool \o name,
         NEW r, r = <<NUL>>, NEW all, all = p \o r, NEW n, n = Len(pool)
  PROVE  HeldAt(all, n, name)
  BY NameAppended

\* What bvbc_unpack reads at the offset of a name is the name.
LEMMA NameRead ==
  ASSUME NEW c, IsSeq(c.region), c.nconst = Len(c.region), NEW name, IsName(name),
         NEW off, HeldAt(c.region, off, name)
  PROVE  Assembler!NameAt(c, off) = name
<1> DEFINE pool == c.region
           len == Len(name)
           ends == {n \in 0 .. MaxName - 1 :
                      \/ n = MaxName - 1
                      \/ off + n >= c.nconst
                      \/ c.region[off + n + 1] = NUL}
<1>1. /\ len \in 1 .. MaxName - 1 /\ MaxName \in Nat /\ IsSeq(name) /\ len \in Nat
      /\ \A n \in 1 .. len : name[n] # NUL
  BY AssemblerNumbers DEF IsName
<1>2. /\ off \in Nat /\ off + len + 1 <= Len(pool) /\ pool[off + len + 1] = NUL
      /\ \A n \in 1 .. len : pool[off + n] = name[n]
  BY DEF HeldAt
<1>3. Len(pool) \in Nat
  BY SeqFacts
<1>4. len \in ends
  BY <1>1, <1>2
<1>5. ASSUME NEW n \in ends PROVE len <= n
  <2> SUFFICES ASSUME n < len PROVE FALSE
    BY <1>1
  <2>1. n \in 0 .. MaxName - 1 /\ n # MaxName - 1 /\ ~(off + n >= c.nconst) /\ n + 1 \in 1 .. len
    BY <1>1, <1>2, <1>3
  <2>2. pool[off + (n + 1)] = name[n + 1] /\ name[n + 1] # NUL
    BY <1>1, <1>2, <2>1
  <2>3. off + n + 1 = off + (n + 1)
    BY <1>2, <2>1
  <2> QED BY <2>1, <2>2, <2>3
<1>6. Assembler!Min(ends) = len
  <2>1. ends \in SUBSET Nat
    BY <1>1
  <2> HIDE DEF ends
  <2> QED BY <1>4, <1>5, <2>1, AsmLeastIs
<1>7. Assembler!NameAt(c, off) = SubSeq(c.region, off + 1, off + len)
  BY <1>6 DEF Assembler!NameAt
<1> HIDE DEF pool, len, ends
<1>8. PICK S : c.region \in Seq(S)
  BY DEF IsSeq
<1> DEFINE t == SubSeq(c.region, off + 1, off + len)
<1>9. /\ t \in Seq(S) /\ Len(t) = (off + len) - (off + 1) + 1
      /\ \A i \in 1 .. (off + len) - (off + 1) + 1 : t[i] = c.region[(off + 1) + i - 1]
  <2>1. off + 1 \in 1 .. Len(c.region) + 1 /\ off + len \in (off + 1) - 1 .. Len(c.region)
    BY <1>1, <1>2, <1>3 DEF pool
  <2> QED BY <1>8, <2>1, SubSeqProperties
<1>10. (off + len) - (off + 1) + 1 = len /\ \A i \in 1 .. len : (off + 1) + i - 1 = off + i
  BY <1>1, <1>2
<1>11. Len(t) = len /\ \A i \in 1 .. len : t[i] = name[i]
  BY <1>2, <1>9, <1>10 DEF pool
<1>12. t = [i \in 1 .. len |-> t[i]] /\ name = [i \in 1 .. len |-> name[i]]
  <2>1. IsSeq(t)
    BY <1>9 DEF IsSeq
  <2> HIDE DEF t
  <2> QED BY <1>1, <1>11, <2>1, SeqFacts DEF len
<1> HIDE DEF t
<1>13. t = name
  BY <1>11, <1>12
<1>14. QED
  BY <1>7, <1>13 DEF t

-----------------------------------------------------------------------------
(* Images and containers.                                                   *)

LEMMA NoImageSound == ImageSound(Assembler!NoImage)
<1> DEFINE img == Assembler!NoImage
<1>1. img.kernels = <<>> /\ img.pool = <<>> /\ img.insns = <<>>
      /\ img = [kernels |-> img.kernels, pool |-> img.pool, insns |-> img.insns]
  BY DEF Assembler!NoImage
<1>2. Assembler!NameOff(img, 1) = 0
  BY NameOffFirst
<1>3. IsSeq(<<>>) /\ Len(<<>>) = 0 /\ 0 + 1 = 1
  BY SeqNone
<1>4. DOMAIN img.kernels = {}
  BY <1>1
<1> HIDE DEF img
<1>5. 0 <= MaxInsns /\ 0 <= MaxKernels /\ 0 <= PoolSize
  BY AssemblerNumbers
<1>6. QED
  BY <1>1, <1>2, <1>3, <1>4, <1>5 DEF ImageSound, img

LEMMA KernelFields ==
  ASSUME NEW name, NEW entry, NEW n, NEW k, k = Assembler!Kernel(name, entry, n)
  PROVE  k.name = name /\ k.entry = entry /\ k.nargs = n
  BY DEF Assembler!Kernel

LEMMA SoundLengths ==
  ASSUME NEW img, ImageSound(img)
  PROVE  /\ Len(img.kernels) \in Nat /\ Len(img.pool) \in Nat /\ Len(img.insns) \in Nat
         /\ DOMAIN img.kernels = 1 .. Len(img.kernels) /\ DOMAIN img.insns = 1 .. Len(img.insns)
         /\ IsSeq(img.kernels) /\ IsSeq(img.pool) /\ IsSeq(img.insns)
         /\ \A k \in DOMAIN img.kernels :
              Len(img.kernels[k].name) \in Nat /\ IsName(img.kernels[k].name)
<1>1. IsSeq(img.kernels) /\ IsSeq(img.pool) /\ IsSeq(img.insns)
  BY DEF ImageSound
<1>2. ASSUME NEW k \in DOMAIN img.kernels
      PROVE  Len(img.kernels[k].name) \in Nat /\ IsName(img.kernels[k].name)
  <2>1. IsName(img.kernels[k].name)
    BY DEF ImageSound
  <2> QED BY <2>1 DEF IsName
<1>3. QED
  BY <1>1, <1>2, SeqFacts

\* AddKernel keeps an image sound: its name is held where the pool ended.
LEMMA KernelAdded ==
  ASSUME NEW img, ImageSound(img), NEW name, IsName(name), Assembler!CanAddKernel(img, name),
         NEW entry \in Nat, NEW jmg, jmg = Assembler!AddKernel(img, name, entry, 0)
  PROVE  /\ ImageSound(jmg) /\ jmg.insns = img.insns
         /\ Len(jmg.kernels) = Len(img.kernels) + 1
         /\ jmg.kernels[Len(img.kernels) + 1] = Assembler!Kernel(name, entry, 0)
         /\ \A k \in 1 .. Len(img.kernels) : jmg.kernels[k] = img.kernels[k]
<1> DEFINE N == Len(img.kernels)
<1> PICK new : new = Assembler!Kernel(name, entry, 0)
  OBVIOUS
<1> PICK p : p = img.pool \o name
  OBVIOUS
<1> PICK r : r = <<NUL>>
  OBVIOUS
<1>1. /\ jmg = [kernels |-> jmg.kernels, pool |-> jmg.pool, insns |-> jmg.insns]
      /\ jmg.kernels = Append(img.kernels, new) /\ jmg.pool = p \o r /\ jmg.insns = img.insns
  <2>1. img = [kernels |-> img.kernels, pool |-> img.pool, insns |-> img.insns]
    BY DEF ImageSound
  <2> PICK a, b, c : a = img.kernels /\ b = img.pool /\ c = img.insns
    OBVIOUS
  <2>2. img = [kernels |-> a, pool |-> b, insns |-> c]
    BY <2>1
  <2>3. jmg = [kernels |-> Append(a, new), pool |-> p \o r, insns |-> c]
    BY <2>2 DEF Assembler!AddKernel
  <2> QED BY <2>3
<1>2. N \in Nat /\ DOMAIN img.kernels = 1 .. N /\ IsSeq(img.kernels) /\ IsSeq(img.pool)
      /\ Len(img.pool) \in Nat /\ IsSeq(img.insns)
  BY SoundLengths
<1>3. IsSeq(name) /\ Len(name) \in Nat
  <2>1. IsSeq(name)
    BY DEF IsName
  <2> QED BY <2>1, SeqFacts
<1>4. IsSeq(jmg.kernels) /\ Len(jmg.kernels) = N + 1
  BY <1>1, <1>2, SeqAppend
<1>5. DOMAIN jmg.kernels = 1 .. N + 1 /\ jmg.kernels[N + 1] = new
  BY <1>1, <1>2, SeqAppend
<1>6. \A k \in 1 .. N : jmg.kernels[k] = img.kernels[k]
  BY <1>1, <1>2, SeqAppend
<1> PICK old, all : old = img.pool /\ all = jmg.pool
  OBVIOUS
<1>7. IsSeq(old)
  BY <1>2
<1>8. p = old \o name
  OBVIOUS
<1>9. all = p \o r
  BY <1>1
<1>10. IsSeq(all) /\ Len(all) = Len(old) + Len(name) + 1
  <2>1. IsSeq(all)
    BY <1>7, <1>8, <1>9, NameAppended
  <2>2. Len(all) = Len(old) + Len(name) + 1
    BY <1>7, <1>8, <1>9, NameAppended
  <2> QED BY <2>1, <2>2
<1> PICK n : n = Len(old)
  OBVIOUS
<1>11. HeldAt(all, n, name)
  BY <1>7, <1>8, <1>9, NameHeld
<1>12. \A off, other : Len(other) \in Nat /\ HeldAt(old, off, other) => HeldAt(all, off, other)
  BY <1>7, <1>8, <1>9, NameAppended
<1>13. IsSeq(jmg.pool) /\ Len(jmg.pool) = Len(img.pool) + Len(name) + 1
  BY <1>10
<1>14. HeldAt(jmg.pool, Len(img.pool), name)
  BY <1>11
<1>15. \A off, other : Len(other) \in Nat /\ HeldAt(img.pool, off, other) => HeldAt(jmg.pool, off, other)
  BY <1>12
<1>16. new.name = name /\ new.entry = entry /\ new.nargs = 0
  BY KernelFields
<1>17. \A k \in 1 .. N + 1 : Assembler!NameOff(jmg, k) = Assembler!NameOff(img, k)
  <2> TAKE k \in 1 .. N + 1
  <2>1. k \in Nat /\ \A i \in 1 .. k - 1 : i \in 1 .. N
    BY <1>2
  <2>2. \A i \in 1 .. k - 1 : jmg.kernels[i].name = img.kernels[i].name
    BY <1>6, <2>1
  <2> QED BY <2>1, <2>2, NameOffSame
<1>18. Len(img.pool) = Assembler!NameOff(img, N + 1)
  BY DEF ImageSound
<1>19. ASSUME NEW k \in DOMAIN jmg.kernels
       PROVE  /\ jmg.kernels[k] = Assembler!Kernel(jmg.kernels[k].name, jmg.kernels[k].entry, 0)
              /\ jmg.kernels[k].entry \in Nat /\ IsName(jmg.kernels[k].name)
              /\ HeldAt(jmg.pool, Assembler!NameOff(jmg, k), jmg.kernels[k].name)
  <2>1. CASE k = N + 1
    <3>1. k \in 1 .. N + 1
      BY <1>2, <2>1
    <3>2. Assembler!NameOff(jmg, k) = Len(img.pool)
      BY <1>17, <1>18, <2>1, <3>1
    <3> QED BY <1>5, <1>14, <1>16, <2>1, <3>2
  <2>2. CASE k # N + 1
    <3>1. k \in 1 .. N /\ k \in 1 .. N + 1
      BY <1>2, <1>5, <2>2
    <3>2. /\ img.kernels[k] = Assembler!Kernel(img.kernels[k].name, img.kernels[k].entry, 0)
          /\ img.kernels[k].entry \in Nat /\ IsName(img.kernels[k].name)
          /\ HeldAt(img.pool, Assembler!NameOff(img, k), img.kernels[k].name)
      BY <1>2, <3>1 DEF ImageSound
    <3>3. Len(img.kernels[k].name) \in Nat
      BY <1>2, <3>1, SoundLengths
    <3>4. HeldAt(jmg.pool, Assembler!NameOff(img, k), img.kernels[k].name)
      BY <1>15, <3>2, <3>3
    <3> QED BY <1>6, <1>17, <3>1, <3>2, <3>4
  <2> QED BY <2>1, <2>2
<1>20. Len(jmg.pool) = Assembler!NameOff(jmg, Len(jmg.kernels) + 1)
  <2>1. IsSeq(jmg.kernels)
    BY <1>4
  <2>2. \A k \in DOMAIN jmg.kernels : Len(jmg.kernels[k].name) \in Nat
    <3> TAKE k \in DOMAIN jmg.kernels
    <3>1. IsName(jmg.kernels[k].name)
      BY <1>19
    <3> QED BY <3>1 DEF IsName
  <2>3. \A k \in 1 .. Len(jmg.kernels) :
          Assembler!NameOff(jmg, k + 1) = Assembler!NameOff(jmg, k) + Len(jmg.kernels[k].name) + 1
    BY <2>1, <2>2, NameOffFacts
  <2>4. N + 1 \in 1 .. Len(jmg.kernels) /\ N + 1 \in 1 .. N + 1
    BY <1>2, <1>4
  <2>5. Assembler!NameOff(jmg, (N + 1) + 1) = Assembler!NameOff(jmg, N + 1) + Len(jmg.kernels[N + 1].name) + 1
    BY <2>3, <2>4
  <2>6. Assembler!NameOff(jmg, N + 1) = Len(img.pool)
    BY <1>17, <1>18, <2>4
  <2> QED BY <1>4, <1>5, <1>13, <1>16, <2>5, <2>6
<1>21. Len(jmg.insns) <= MaxInsns /\ Len(jmg.kernels) <= MaxKernels /\ Len(jmg.pool) <= PoolSize
  <2>1. Len(img.insns) <= MaxInsns
    BY DEF ImageSound
  <2>2. N < MaxKernels /\ Len(img.pool) + Len(name) + 1 <= PoolSize
    BY DEF Assembler!CanAddKernel
  <2>3. Len(jmg.insns) <= MaxInsns
    BY <1>1, <2>1
  <2>4. Len(jmg.kernels) <= MaxKernels
    BY <1>2, <1>4, <2>2, AssemblerNumbers
  <2>5. Len(jmg.pool) <= PoolSize
    BY <1>13, <2>2
  <2> QED BY <2>3, <2>4, <2>5
<1>22. IsSeq(jmg.insns)
  BY <1>1, <1>2
<1>23. ImageSound(jmg)
  BY <1>1, <1>4, <1>13, <1>19, <1>20, <1>21, <1>22 DEF ImageSound
<1>24. QED
  BY <1>1, <1>4, <1>5, <1>6, <1>23

LEMMA InsnAdded ==
  ASSUME NEW img, ImageSound(img), Assembler!CanAddInsn(img),
         NEW insn, NEW jmg, jmg = Assembler!AddInsn(img, insn)
  PROVE  /\ ImageSound(jmg) /\ jmg.kernels = img.kernels
         /\ Len(jmg.insns) = Len(img.insns) + 1 /\ jmg.insns[Len(img.insns) + 1] = insn
         /\ \A k \in 1 .. Len(img.insns) : jmg.insns[k] = img.insns[k]
<1>1. /\ jmg = [kernels |-> jmg.kernels, pool |-> jmg.pool, insns |-> jmg.insns]
      /\ jmg.kernels = img.kernels /\ jmg.pool = img.pool /\ jmg.insns = Append(img.insns, insn)
  <2>1. img = [kernels |-> img.kernels, pool |-> img.pool, insns |-> img.insns]
    BY DEF ImageSound
  <2> PICK a, b, c : a = img.kernels /\ b = img.pool /\ c = img.insns
    OBVIOUS
  <2>2. img = [kernels |-> a, pool |-> b, insns |-> c]
    BY <2>1
  <2>3. jmg = [kernels |-> a, pool |-> b, insns |-> Append(c, insn)]
    BY <2>2 DEF Assembler!AddInsn
  <2> QED BY <2>3
<1>2. IsSeq(img.insns) /\ Len(img.insns) \in Nat /\ Len(img.insns) < MaxInsns
  BY SoundLengths DEF Assembler!CanAddInsn
<1> PICK old, all : old = img.insns /\ all = jmg.insns
  OBVIOUS
<1>3. IsSeq(old)
  BY <1>2
<1>4. all = Append(old, insn)
  BY <1>1
<1>5. IsSeq(jmg.insns)
  <2>1. IsSeq(all)
    BY <1>3, <1>4, SeqAppend
  <2> QED BY <2>1
<1>6. Len(jmg.insns) = Len(img.insns) + 1
  <2>1. Len(all) = Len(old) + 1
    BY <1>3, <1>4, SeqAppend
  <2> QED BY <2>1
<1>7. IsSeq(jmg.insns) /\ Len(jmg.insns) = Len(img.insns) + 1
  BY <1>5, <1>6
<1>8. jmg.insns[Len(img.insns) + 1] = insn
  BY <1>1, <1>2, SeqAppend
<1>9. \A k \in 1 .. Len(img.insns) : jmg.insns[k] = img.insns[k]
  BY <1>1, <1>2, SeqAppend
<1>10. Len(jmg.insns) <= MaxInsns
  BY <1>2, <1>7, AssemblerNumbers
<1>11. \A k : Assembler!NameOff(jmg, k) = Assembler!NameOff(img, k)
  BY <1>1 DEF Assembler!NameOff
<1>12. ImageSound(jmg)
  BY <1>1, <1>7, <1>10, <1>11 DEF ImageSound
<1>13. QED
  BY <1>1, <1>7, <1>8, <1>9, <1>12

LEMMA TimesThenDivide ==
  ASSUME NEW e \in Nat, NEW n \in Nat \ {0}
  PROVE  (e * n) \div n = e
  BY SMT

\* What bvbc_unpack makes of a packed image.
LEMMA Unpacked ==
  ASSUME NEW img, ImageSound(img), NEW c, c = Assembler!Pack(img), NEW u, u = Assembler!Unpack(c)
  PROVE  u.kernels = img.kernels /\ u.insns = img.insns
<1> DEFINE N == Len(img.kernels)
<1>1. /\ c.nkern = N /\ c.nconst = Len(img.pool) /\ c.region = img.pool /\ c.insns = img.insns
      /\ c.table = [k \in DOMAIN img.kernels |->
           [name_off |-> Assembler!NameOff(img, k), entry_off |-> img.kernels[k].entry * InsnSize,
            nargs |-> img.kernels[k].nargs]]
  BY DEF Assembler!Pack
<1>2. N \in Nat /\ DOMAIN img.kernels = 1 .. N /\ IsSeq(img.kernels) /\ IsSeq(img.pool)
  BY SoundLengths
<1>3. ASSUME NEW k \in 1 .. N
      PROVE  Assembler!Kernel(Assembler!NameAt(c, c.table[k].name_off),
                              c.table[k].entry_off \div InsnSize, c.table[k].nargs) = img.kernels[k]
  <2>1. c.table[k].name_off = Assembler!NameOff(img, k)
        /\ c.table[k].entry_off = img.kernels[k].entry * InsnSize
        /\ c.table[k].nargs = img.kernels[k].nargs
    BY <1>1, <1>2
  <2>2. /\ img.kernels[k] = Assembler!Kernel(img.kernels[k].name, img.kernels[k].entry, 0)
        /\ img.kernels[k].entry \in Nat /\ IsName(img.kernels[k].name)
        /\ HeldAt(img.pool, Assembler!NameOff(img, k), img.kernels[k].name)
    BY <1>2 DEF ImageSound
  <2>3. Assembler!NameAt(c, Assembler!NameOff(img, k)) = img.kernels[k].name
    <3>1. IsSeq(c.region) /\ c.nconst = Len(c.region)
      BY <1>1, <1>2
    <3>2. HeldAt(c.region, Assembler!NameOff(img, k), img.kernels[k].name)
      BY <1>1, <2>2
    <3> QED BY <2>2, <3>1, <3>2, NameRead
  <2>4. (img.kernels[k].entry * InsnSize) \div InsnSize = img.kernels[k].entry
    BY <2>2, AssemblerNumbers, TimesThenDivide
  <2>5. img.kernels[k].nargs = 0
    BY <2>2, KernelFields
  <2> QED BY <2>1, <2>2, <2>3, <2>4, <2>5
<1>4. u.kernels = [k \in 1 .. N |-> img.kernels[k]] /\ u.insns = img.insns
  <2>1. u.kernels = [k \in 1 .. N |->
          Assembler!Kernel(Assembler!NameAt(c, c.table[k].name_off),
                           c.table[k].entry_off \div InsnSize, c.table[k].nargs)]
    BY <1>1 DEF Assembler!Unpack
  <2>2. u.insns = img.insns
    BY <1>1 DEF Assembler!Unpack
  <2> QED BY <1>3, <2>1, <2>2
<1>5. img.kernels = [k \in 1 .. N |-> img.kernels[k]]
  BY <1>2, SeqFacts
<1>6. QED
  BY <1>4, <1>5

\* A container that was cut short is not read.
LEMMA CutUnreadable ==
  ASSUME NEW img, ImageSound(img), NEW c, c = Assembler!Pack(img)
  PROVE  /\ Assembler!ContainerSize(c) \in Nat
         /\ ~Assembler!Readable(c, Assembler!ContainerSize(c) - 1)
<1>1. c.nkern \in Nat /\ c.nconst \in Nat /\ c.ninsn \in Nat
  BY SoundLengths DEF Assembler!Pack
<1>2. EntrySize * c.nkern \in Nat /\ InsnSize * c.ninsn \in Nat
  BY <1>1, AssemblerNumbers
<1>3. Assembler!ContainerSize(c) \in Nat
  BY <1>1, <1>2, AssemblerNumbers DEF Assembler!ContainerSize
<1>4. ~(Assembler!ContainerSize(c) - 1 >= Assembler!ContainerSize(c))
  BY <1>3
<1>5. QED
  BY <1>3, <1>4 DEF Assembler!Readable

-----------------------------------------------------------------------------
(* What a step that keeps the source, the symbols or the output keeps.       *)

LEMMA LinesKept ==
  ASSUME source' = source
  PROVE  /\ KernelLines' = KernelLines /\ EndLines' = EndLines /\ LabelLines' = LabelLines
         /\ InsnLines' = InsnLines
         /\ \A i : Assembler!Under(i)' = Assembler!Under(i)
         /\ \A i : Counted(i)' = Counted(i)
  BY DEF KernelLines, EndLines, LabelLines, InsnLines, Assembler!LinesOf, Assembler!Under,
         Counted, Rank, Before

LEMMA PlacesKept ==
  ASSUME source' = source
  PROVE  /\ \A i : PlaceOf(i)' = PlaceOf(i)
         /\ \A i : InKernel(i)' <=> InKernel(i)
         /\ \A i : ToLabel(i)' <=> ToLabel(i)
         /\ \A j, name : FirstOf(j, name)' <=> FirstOf(j, name)
<1>1. \A i : PlaceOf(i)' = PlaceOf(i)
  BY LinesKept DEF PlaceOf
<1>2. \A i : InKernel(i)' <=> InKernel(i)
  BY LinesKept DEF InKernel
<1>3. \A i : ToLabel(i)' <=> ToLabel(i)
  BY DEF ToLabel
<1>4. ASSUME NEW j, NEW name PROVE FirstOf(j, name)' <=> FirstOf(j, name)
  <2>1. \A i : Assembler!Defines(i, name)' <=> Assembler!Defines(i, name)
    BY LinesKept DEF Assembler!Defines, KernelLines
  <2> QED BY <2>1, LinesKept DEF FirstOf
<1>5. QED
  BY <1>1, <1>2, <1>3, <1>4

\* The line a step of a pass is at.
LEMMA Here ==
  ASSUME AsmInv, NEW p, NEW kind, Assembler!AtLine(p, kind)
  PROVE  /\ source \in Sources /\ Len(source) \in Nat /\ phase = p
         /\ line \in 1 .. Len(source) /\ line + 1 \in 1 .. Len(source) + 1
         /\ line \in 1 .. Len(source) + 1 /\ source[line].kind = kind
<1>1. source \in Sources /\ line \in 1 .. Len(source) + 1
  BY DEF AsmInv, TextTyped
<1>2. Len(source) \in Nat
  BY <1>1, TextIs
<1>3. phase = p /\ line <= Len(source) /\ source[line].kind = kind
  BY DEF Assembler!AtLine
<1>4. QED
  BY <1>1, <1>2, <1>3

\* There is no container and no session before the assembler is done.
LEMMA OutputKept ==
  ASSUME AsmInv, phase # "ok", file' = file, session' = session
  PROVE  FileHolds' /\ SessionHolds'
<1>1. file = Nothing /\ session = Nothing
  BY DEF AsmInv, FileHolds, SessionHolds
<1>2. QED
  BY <1>1 DEF FileHolds, SessionHolds

LEMMA SymsBuilt ==
  ASSUME IsSeq(syms'), Len(syms') <= MaxSymbols,
         \A k \in DOMAIN syms' : \E j : FirstOf(j, syms[k].name)' /\ syms[k].addr' = PlaceOf(j)',
         phase' = "labels" /\ Len(syms') < MaxSymbols =>
           \A j \in LabelLines' : j < line' /\ InKernel(j)' =>
             \E k \in DOMAIN syms' : syms[k].name' = source[j].name'
  PROVE  SymsHold'
  BY DEF SymsHold

LEMMA SymsKept ==
  ASSUME AsmInv, source' = source, syms' = syms, phase' # "labels"
  PROVE  SymsHold'
<1>1. /\ IsSeq(syms) /\ Len(syms) <= MaxSymbols
      /\ \A k \in DOMAIN syms : \E j : FirstOf(j, syms[k].name) /\ syms[k].addr = PlaceOf(j)
  BY DEF AsmInv, SymsHold
<1>2. \A k \in DOMAIN syms : \E j : FirstOf(j, syms[k].name)' /\ syms[k].addr = PlaceOf(j)'
  BY <1>1, PlacesKept
<1>3. IsSeq(syms') /\ Len(syms') <= MaxSymbols
      /\ \A k \in DOMAIN syms' : \E j : FirstOf(j, syms[k].name)' /\ syms[k].addr' = PlaceOf(j)'
  BY <1>1, <1>2
<1>4. QED
  BY <1>3 DEF SymsHold

\* A line of the first pass that is not a label leaves the symbols alone.
LEMMA SymsPassed ==
  ASSUME AsmInv, phase = "labels", source' = source, syms' = syms, phase' = phase,
         line \in 1 .. Len(source), line \notin LabelLines, line' = line + 1
  PROVE  SymsHold'
<1>1. /\ IsSeq(syms) /\ Len(syms) <= MaxSymbols
      /\ \A k \in DOMAIN syms : \E j : FirstOf(j, syms[k].name) /\ syms[k].addr = PlaceOf(j)
      /\ Len(syms) < MaxSymbols =>
           \A j \in LabelLines : j < line /\ InKernel(j) =>
             \E k \in DOMAIN syms : syms[k].name = source[j].name
  BY DEF AsmInv, SymsHold
<1>2. \A k \in DOMAIN syms : \E j : FirstOf(j, syms[k].name)' /\ syms[k].addr = PlaceOf(j)'
  BY <1>1, PlacesKept
<1>3. ASSUME Len(syms) < MaxSymbols, NEW j \in LabelLines, j < line + 1, InKernel(j)
      PROVE  \E k \in DOMAIN syms : syms[k].name = source[j].name
  <2>1. j \in 1 .. Len(source) /\ Len(source) \in Nat
    BY TextIs DEF AsmInv, TextTyped
  <2>2. j < line
    BY <1>3, <2>1
  <2> QED BY <1>1, <1>3, <2>2
<1>4. LabelLines' = LabelLines /\ \A j : InKernel(j)' <=> InKernel(j)
  BY LinesKept, PlacesKept
<1>5. /\ IsSeq(syms') /\ Len(syms') <= MaxSymbols
      /\ \A k \in DOMAIN syms' : \E j : FirstOf(j, syms[k].name)' /\ syms[k].addr' = PlaceOf(j)'
  BY <1>1, <1>2
<1>6. phase' = "labels" /\ Len(syms') < MaxSymbols =>
        \A j \in LabelLines' : j < line' /\ InKernel(j)' =>
             \E k \in DOMAIN syms' : syms[k].name' = source[j].name'
  BY <1>3, <1>4
<1>7. QED
  BY <1>5, <1>6 DEF SymsHold

\* The image while a pass has not begun to fill it, or is refused.
LEMMA NoImageYet ==
  ASSUME phase' \notin {"emit", "ok"}
  PROVE  ImageHolds'
  BY DEF ImageHolds

-----------------------------------------------------------------------------
(* The first pass.                                                          *)

LEMMA DirectiveCollected ==
  ASSUME AsmInv, Assembler!CollectDirective
  PROVE  AsmInv'
<1>1. /\ source' = source /\ phase' = phase /\ syms' = syms /\ image' = image
      /\ file' = file /\ session' = session /\ line' = line + 1 /\ kpc' = 0
      /\ inKernel' = (source[line].kind = "kernel")
  BY DEF Assembler!CollectDirective, Assembler!Advance, Assembler!KeepOutput
<1>2. /\ source \in Sources /\ Len(source) \in Nat /\ phase = "labels"
      /\ line \in 1 .. Len(source) /\ line + 1 \in 1 .. Len(source) + 1
      /\ source[line].kind \in {"kernel", "end"}
  <2>1. CASE Assembler!AtLine("labels", "kernel")
    BY <2>1, Here
  <2>2. CASE Assembler!AtLine("labels", "end")
    BY <2>2, Here
  <2> QED BY <2>1, <2>2 DEF Assembler!CollectDirective
<1>3. line \in Directives /\ line \notin LabelLines /\ (line \in KernelLines <=> source[line].kind = "kernel")
  BY <1>2, KindOf DEF Directives
<1>4. TextTyped'
  BY <1>1, <1>2 DEF TextTyped
<1>5. InSync'
  <2>1. PlaceOf(line + 1) = 0 /\ (InKernel(line + 1) <=> line \in KernelLines)
    BY <1>2, <1>3, PlaceStep
  <2>2. (InKernel(line)' <=> line \in KernelLines) /\ PlaceOf(line)' = 0
    BY <1>1, <2>1, PlacesKept
  <2> QED BY <1>1, <1>3, <2>2 DEF InSync
<1>6. SymsHold'
  BY <1>1, <1>2, <1>3, SymsPassed
<1>7. ImageSound(image)'
  BY <1>1 DEF AsmInv
<1>8. ImageHolds' /\ FileHolds' /\ SessionHolds'
  BY <1>1, <1>2, NoImageYet, OutputKept
<1>9. QED
  BY <1>4, <1>5, <1>6, <1>7, <1>8 DEF AsmInv

LEMMA InsnCollected ==
  ASSUME AsmInv, Assembler!CollectInsn
  PROVE  AsmInv'
<1>1. /\ source' = source /\ phase' = phase /\ syms' = syms /\ image' = image
      /\ file' = file /\ session' = session /\ line' = line + 1 /\ inKernel' = inKernel
      /\ kpc' = IF inKernel THEN kpc + 1 ELSE kpc
  BY DEF Assembler!CollectInsn, Assembler!Advance, Assembler!KeepOutput
<1>2. /\ source \in Sources /\ Len(source) \in Nat /\ phase = "labels"
      /\ line \in 1 .. Len(source) /\ line + 1 \in 1 .. Len(source) + 1
      /\ source[line].kind = "insn"
  BY Here DEF Assembler!CollectInsn
<1>3. line \notin Directives /\ line \notin LabelLines /\ line \in InsnLines
  BY <1>2, KindOf DEF Directives
<1>4. TextTyped'
  BY <1>1, <1>2 DEF TextTyped
<1>5. InSync'
  <2>1. PlaceOf(line + 1) = PlaceOf(line) + 1 /\ (InKernel(line + 1) <=> InKernel(line))
    BY <1>2, <1>3, PlaceStep
  <2>2. (InKernel(line)' <=> InKernel(line)) /\ PlaceOf(line)' = PlaceOf(line) + 1
    BY <1>1, <2>1, PlacesKept
  <2>3. inKernel \in BOOLEAN /\ (inKernel <=> InKernel(line))
        /\ kpc = IF inKernel THEN PlaceOf(line) ELSE 0
    BY DEF AsmInv, InSync
  <2> QED BY <1>1, <2>2, <2>3 DEF InSync
<1>6. SymsHold'
  BY <1>1, <1>2, <1>3, SymsPassed
<1>7. ImageSound(image)'
  BY <1>1 DEF AsmInv
<1>8. ImageHolds' /\ FileHolds' /\ SessionHolds'
  BY <1>1, <1>2, NoImageYet, OutputKept
<1>9. QED
  BY <1>4, <1>5, <1>6, <1>7, <1>8 DEF AsmInv

LEMMA LabelCollected ==
  ASSUME AsmInv, Assembler!CollectLabel
  PROVE  AsmInv'
<1> DEFINE name == source[line].name
           kept == inKernel /\ Assembler!Found(name) = {} /\ Len(syms) < MaxSymbols
<1>1. /\ source' = source /\ phase' = phase /\ image' = image
      /\ file' = file /\ session' = session /\ line' = line + 1 /\ inKernel' = inKernel
      /\ kpc' = kpc
      /\ syms' = IF kept THEN Append(syms, [name |-> name, addr |-> kpc]) ELSE syms
  BY DEF Assembler!CollectLabel, Assembler!Advance, Assembler!KeepOutput
<1>2. /\ source \in Sources /\ Len(source) \in Nat /\ phase = "labels"
      /\ line \in 1 .. Len(source) /\ line + 1 \in 1 .. Len(source) + 1
      /\ line \in 1 .. Len(source) + 1 /\ source[line].kind = "label"
  BY Here DEF Assembler!CollectLabel
<1>3. line \notin Directives /\ line \in LabelLines /\ line \notin InsnLines
  BY <1>2, KindOf DEF Directives
<1>4. TextTyped'
  BY <1>1, <1>2 DEF TextTyped
<1>5. inKernel \in BOOLEAN /\ (inKernel <=> InKernel(line))
      /\ kpc = IF inKernel THEN PlaceOf(line) ELSE 0
  BY DEF AsmInv, InSync
<1>6. InSync'
  <2>1. PlaceOf(line + 1) = PlaceOf(line) + 0 /\ (InKernel(line + 1) <=> InKernel(line))
    BY <1>2, <1>3, PlaceStep
  <2>2. PlaceOf(line) \in Int
    BY <1>2, PlaceBounds
  <2>3. (InKernel(line)' <=> InKernel(line)) /\ PlaceOf(line)' = PlaceOf(line)
    BY <1>1, <2>1, <2>2, PlacesKept
  <2> QED BY <1>1, <1>5, <2>3 DEF InSync
<1>7. /\ IsSeq(syms) /\ Len(syms) <= MaxSymbols
      /\ \A k \in DOMAIN syms : \E j : FirstOf(j, syms[k].name) /\ syms[k].addr = PlaceOf(j)
      /\ Len(syms) < MaxSymbols =>
           \A j \in LabelLines : j < line /\ InKernel(j) =>
             \E k \in DOMAIN syms : syms[k].name = source[j].name
  BY <1>2 DEF AsmInv, SymsHold
<1>8. Len(syms) \in Nat /\ DOMAIN syms = 1 .. Len(syms) /\ MaxSymbols \in Nat
  BY <1>7, SeqFacts, AssemblerNumbers
<1>9. LabelLines' = LabelLines /\ \A j : InKernel(j)' <=> InKernel(j)
  BY <1>1, LinesKept, PlacesKept
<1>10. \A j \in LabelLines : j \in 1 .. Len(source)
  BY <1>2, TextIs
<1>11. ASSUME kept PROVE SymsHold'
  <2> PICK new : new = [name |-> name, addr |-> kpc]
    OBVIOUS
  <2> PICK all : all = syms'
    OBVIOUS
  <2>1. new.name = name /\ new.addr = kpc /\ all = Append(syms, new)
    BY <1>1, <1>11
  <2>2. IsSeq(syms)
    BY <1>7
  <2>3. all = Append(syms, new)
    BY <2>1
  <2>4. IsSeq(all)
    BY <2>2, <2>3, AppendIsSeq
  <2>5. Len(all) = Len(syms) + 1
    BY <2>2, <2>3, SeqAppend
  <2>6. DOMAIN all = 1 .. Len(syms) + 1
    BY <2>2, <2>3, SeqAppend
  <2>7. all[Len(syms) + 1] = new
    BY <2>2, <2>3, SeqAppend
  <2>8. \A k \in 1 .. Len(syms) : all[k] = syms[k]
    BY <2>2, <2>3, SeqAppend
  <2>9. FirstOf(line, name)
    <3>1. Assembler!Defines(line, name)
      BY <1>5, <1>11 DEF Assembler!Defines, InKernel, KernelLines
    <3>2. ASSUME NEW i \in LabelLines, Assembler!Defines(i, name) PROVE line <= i
      <4> SUFFICES ASSUME i < line PROVE FALSE
        BY <1>2, <1>10
      <4>1. source[i].name = name /\ InKernel(i)
        BY <3>2 DEF Assembler!Defines, InKernel, KernelLines
      <4>2. PICK k \in DOMAIN syms : syms[k].name = source[i].name
        BY <1>7, <1>11, <4>1
      <4>3. k \in Assembler!Found(name)
        BY <4>1, <4>2 DEF Assembler!Found
      <4> QED BY <1>11, <4>3
    <3> QED BY <1>3, <3>1, <3>2 DEF FirstOf
  <2>10. ASSUME NEW k \in DOMAIN all
         PROVE  \E j : FirstOf(j, all[k].name)' /\ all[k].addr = PlaceOf(j)'
    <3>1. CASE k = Len(syms) + 1
      <4>1. FirstOf(line, all[k].name) /\ all[k].addr = PlaceOf(line)
        BY <1>5, <1>11, <2>1, <2>7, <2>9, <3>1
      <4> PICK j : j = line
        OBVIOUS
      <4>2. FirstOf(j, all[k].name) /\ all[k].addr = PlaceOf(j)
        BY <4>1
      <4> QED BY <1>1, <4>2, PlacesKept
    <3>2. CASE k # Len(syms) + 1
      <4>1. k \in DOMAIN syms /\ all[k] = syms[k]
        BY <1>8, <2>6, <2>8, <3>2
      <4>2. PICK j : FirstOf(j, syms[k].name) /\ syms[k].addr = PlaceOf(j)
        BY <1>7, <4>1
      <4> QED BY <1>1, <4>1, <4>2, PlacesKept
    <3> QED BY <3>1, <3>2
  <2>11. ASSUME NEW j \in LabelLines, j < line + 1, InKernel(j)
         PROVE  \E k \in DOMAIN all : all[k].name = source[j].name
    <3>1. CASE j = line
      <4>1. Len(syms) + 1 \in DOMAIN all
        BY <1>8, <2>6
      <4> QED BY <2>1, <2>7, <3>1, <4>1
    <3>2. CASE j # line
      <4>1. j < line
        BY <1>2, <1>10, <2>11, <3>2
      <4>2. PICK k \in DOMAIN syms : syms[k].name = source[j].name
        BY <1>7, <1>11, <2>11, <4>1
      <4>3. k \in DOMAIN all /\ all[k] = syms[k]
        BY <1>8, <2>6, <2>8
      <4> QED BY <4>2, <4>3
    <3> QED BY <3>1, <3>2
  <2>12. Len(all) <= MaxSymbols
    BY <1>8, <1>11, <2>5
  <2> HIDE DEF kept
  <2>13. /\ IsSeq(syms') /\ Len(syms') <= MaxSymbols
         /\ \A k \in DOMAIN syms' : \E j : FirstOf(j, syms[k].name)' /\ syms[k].addr' = PlaceOf(j)'
    BY <2>4, <2>10, <2>12
  <2>14. phase' = "labels" /\ Len(syms') < MaxSymbols =>
           \A j \in LabelLines' : j < line' /\ InKernel(j)' =>
             \E k \in DOMAIN syms' : syms[k].name' = source[j].name'
    BY <1>1, <1>9, <2>11
  <2> QED BY <2>13, <2>14, SymsBuilt
<1>12. ASSUME ~kept PROVE SymsHold'
  <2>1. syms' = syms
    BY <1>1, <1>12
  <2>2. ASSUME Len(syms) < MaxSymbols, NEW j \in LabelLines, j < line + 1, InKernel(j)
        PROVE  \E k \in DOMAIN syms : syms[k].name = source[j].name
    <3>1. CASE j = line
      <4>1. Assembler!Found(name) # {}
        BY <1>5, <1>12, <2>2, <3>1
      <4> QED BY <3>1, <4>1 DEF Assembler!Found
    <3>2. CASE j # line
      <4>1. j < line
        BY <1>2, <1>10, <2>2, <3>2
      <4> QED BY <1>7, <2>2, <4>1
    <3> QED BY <3>1, <3>2
  <2> HIDE DEF kept
  <2>3. \A k \in DOMAIN syms : \E j : FirstOf(j, syms[k].name)' /\ syms[k].addr = PlaceOf(j)'
    BY <1>1, <1>7, PlacesKept
  <2>4. /\ IsSeq(syms') /\ Len(syms') <= MaxSymbols
        /\ \A k \in DOMAIN syms' : \E j : FirstOf(j, syms[k].name)' /\ syms[k].addr' = PlaceOf(j)'
    BY <1>7, <2>1, <2>3
  <2>5. phase' = "labels" /\ Len(syms') < MaxSymbols =>
          \A j \in LabelLines' : j < line' /\ InKernel(j)' =>
            \E k \in DOMAIN syms' : syms[k].name' = source[j].name'
    BY <1>1, <1>9, <2>1, <2>2
  <2> QED BY <2>4, <2>5, SymsBuilt
<1>13. ImageSound(image)'
  BY <1>1 DEF AsmInv
<1>14. ImageHolds' /\ FileHolds' /\ SessionHolds'
  BY <1>1, <1>2, NoImageYet, OutputKept
<1>15. QED
  BY <1>4, <1>6, <1>11, <1>12, <1>13, <1>14 DEF AsmInv

-----------------------------------------------------------------------------
(* The second pass.                                                         *)

LEMMA ImageBuilt ==
  ASSUME Len(image'.insns) = Counted(line)',
         \A i \in InsnLines' : i < line' /\ ToLabel(i)' => BranchSet(i)',
         Len(image'.kernels) = Rank(KernelLines', line'),
         \A i \in KernelLines' : i < line' =>
           image'.kernels[Rank(KernelLines', i) + 1] =
             Assembler!Kernel(source'[i].name, Counted(i)', 0)
  PROVE  ImageHolds'
  BY DEF ImageHolds, Rank, Before

LEMMA SymbolsKept ==
  ASSUME syms' = syms
  PROVE  /\ \A name : Assembler!Found(name)' = Assembler!Found(name)
         /\ \A name : Assembler!AddrOf(name)' = Assembler!AddrOf(name)
  BY DEF Assembler!Found, Assembler!AddrOf

LEMMA BranchKept ==
  ASSUME source' = source, syms' = syms, NEW i, BranchSet(i),
         image'.insns[Counted(i) + 1] = image.insns[Counted(i) + 1]
  PROVE  BranchSet(i)'
<1>1. Counted(i)' = Counted(i) /\ PlaceOf(i)' = PlaceOf(i)
  BY LinesKept, PlacesKept
<1>2. /\ Assembler!Found(source[i].args[1].val)' = Assembler!Found(source[i].args[1].val)
      /\ Assembler!AddrOf(source[i].args[1].val)' = Assembler!AddrOf(source[i].args[1].val)
  BY SymbolsKept
<1>3. QED
  BY <1>1, <1>2 DEF BranchSet

\* What the image holds at the line the pass is at.
LEMMA Emitted ==
  ASSUME AsmInv, phase \in {"emit", "ok"}
  PROVE  /\ source \in Sources /\ Len(source) \in Nat /\ line \in 1 .. Len(source) + 1
         /\ Len(image.insns) = Counted(line) /\ Counted(line) \in Nat
         /\ Len(image.kernels) = Rank(KernelLines, line) /\ Rank(KernelLines, line) \in Nat
         /\ \A i \in InsnLines : i < line => i \in 1 .. Len(source) /\ Counted(i) + 1 \in 1 .. Counted(line)
         /\ \A i \in InsnLines : i < line /\ ToLabel(i) => BranchSet(i)
         /\ \A i \in KernelLines : i < line =>
              /\ i \in 1 .. Len(source) /\ Rank(KernelLines, i) + 1 \in 1 .. Rank(KernelLines, line)
              /\ image.kernels[Rank(KernelLines, i) + 1] = Assembler!Kernel(source[i].name, Counted(i), 0)
<1>1. /\ source \in Sources /\ line \in 1 .. Len(source) + 1
      /\ Len(image.insns) = Counted(line)
      /\ \A i \in InsnLines : i < line /\ ToLabel(i) => BranchSet(i)
      /\ Len(image.kernels) = Rank(KernelLines, line)
      /\ \A i \in KernelLines : i < line =>
           image.kernels[Rank(KernelLines, i) + 1] = Assembler!Kernel(source[i].name, Counted(i), 0)
  BY DEF AsmInv, TextTyped, ImageHolds
<1>2. Len(source) \in Nat /\ InsnLines \in SUBSET (1 .. Len(source)) /\ KernelLines \in SUBSET (1 .. Len(source))
  BY <1>1, TextIs
<1>3. ASSUME NEW S \in SUBSET (1 .. Len(source)), NEW i \in S, i < line
      PROVE  i \in 1 .. Len(source) /\ Rank(S, i) + 1 \in 1 .. Rank(S, line)
  <2>1. i \in Nat /\ line \in Nat /\ i \in 1 .. Len(source) /\ i <= line
    BY <1>1, <1>2, <1>3
  <2>2. Rank(S, i) \in Nat
    BY <1>2, <2>1, BeforeFinite
  <2>3. Rank(S, line) \in Nat
    BY <1>1, <1>2, <2>1, BeforeFinite
  <2>4. Rank(S, i) < Rank(S, line)
    BY <1>2, <1>3, <2>1, RankGrows
  <2> QED BY <2>1, <2>2, <2>3, <2>4
<1>4. Counted(line) \in Nat /\ Rank(KernelLines, line) \in Nat
  <2>1. line \in Nat
    BY <1>1, <1>2
  <2> QED BY <1>2, <2>1, BeforeFinite DEF Counted
<1>5. \A i \in InsnLines : i < line => i \in 1 .. Len(source) /\ Counted(i) + 1 \in 1 .. Counted(line)
  BY <1>2, <1>3 DEF Counted
<1>6. \A i \in KernelLines : i < line =>
        i \in 1 .. Len(source) /\ Rank(KernelLines, i) + 1 \in 1 .. Rank(KernelLines, line)
  BY <1>2, <1>3
<1>7. QED
  BY <1>1, <1>2, <1>4, <1>5, <1>6

LEMMA Refused ==
  ASSUME AsmInv, phase # "ok", Assembler!Refuse
  PROVE  AsmInv'
<1>1. /\ phase' = "refused" /\ source' = source /\ line' = line /\ inKernel' = inKernel
      /\ kpc' = kpc /\ syms' = syms /\ image' = image /\ file' = file /\ session' = session
  BY DEF Assembler!Refuse
<1>2. TextTyped'
  BY <1>1 DEF AsmInv, TextTyped
<1>3. InSync'
  <2>1. (InKernel(line)' <=> InKernel(line)) /\ PlaceOf(line)' = PlaceOf(line)
    BY <1>1, PlacesKept
  <2> QED BY <1>1, <2>1 DEF AsmInv, InSync
<1>4. SymsHold'
  BY <1>1, SymsKept
<1>5. ImageSound(image)'
  BY <1>1 DEF AsmInv
<1>6. ImageHolds' /\ FileHolds' /\ SessionHolds'
  BY <1>1, NoImageYet, OutputKept
<1>7. QED
  BY <1>2, <1>3, <1>4, <1>5, <1>6 DEF AsmInv

LEMMA EmitStarted ==
  ASSUME AsmInv, Assembler!StartEmit
  PROVE  AsmInv'
<1>1. /\ phase = "labels" /\ phase' = "emit" /\ line' = 1 /\ inKernel' = FALSE /\ kpc' = 0
      /\ image' = Assembler!NoImage /\ source' = source /\ syms' = syms /\ file' = file
      /\ session' = session
  BY DEF Assembler!StartEmit
<1>2. source \in Sources /\ Len(source) \in Nat /\ 1 \in 1 .. Len(source) + 1
  BY TextIs DEF AsmInv, TextTyped
<1>3. TextTyped'
  BY <1>1, <1>2 DEF TextTyped
<1>4. KernelLines \in SUBSET (1 .. Len(source)) /\ InsnLines \in SUBSET (1 .. Len(source))
      /\ \A i \in KernelLines \cup InsnLines : i \in 1 .. Len(source)
  BY <1>2, TextIs
<1>5. InSync'
  <2>1. Assembler!Under(1) = 0
    BY <1>2, UnderStart
  <2>2. ~InKernel(1)
    BY <1>4, <2>1 DEF InKernel
  <2>3. InKernel(line)' <=> InKernel(1)
    BY <1>1, PlacesKept
  <2> QED BY <1>1, <2>2, <2>3 DEF InSync
<1>6. SymsHold'
  BY <1>1, SymsKept
<1>7. ImageSound(image)'
  BY <1>1, NoImageSound
<1>8. ImageHolds'
  <2>1. Counted(line)' = 0 /\ Rank(KernelLines', line') = 0
    <3>1. Counted(1) = 0 /\ Rank(KernelLines, 1) = 0
      BY <1>2, <1>4, CountedFacts, RankStart
    <3>2. KernelLines' = KernelLines /\ Counted(line)' = Counted(1)
      BY <1>1, LinesKept
    <3> QED BY <1>1, <3>1, <3>2
  <2>2. Len(image'.insns) = 0 /\ Len(image'.kernels) = 0
    BY <1>1, SeqNone DEF Assembler!NoImage
  <2>3. InsnLines' = InsnLines /\ KernelLines' = KernelLines
    BY <1>1, LinesKept
  <2>4. \A i \in KernelLines \cup InsnLines : ~(i < 1)
    BY <1>2, <1>4
  <2>5. \A i \in InsnLines' : ~(i < line')
    BY <1>1, <2>3, <2>4
  <2>6. \A i \in KernelLines' : ~(i < line')
    BY <1>1, <2>3, <2>4
  <2> QED BY <2>1, <2>2, <2>5, <2>6, ImageBuilt
<1>9. FileHolds' /\ SessionHolds'
  BY <1>1, OutputKept
<1>10. QED
  BY <1>3, <1>5, <1>6, <1>7, <1>8, <1>9 DEF AsmInv

\* A line that adds nothing to the image.
LEMMA LineSkipped ==
  ASSUME AsmInv, phase = "emit", phase' = phase, source' = source, syms' = syms, image' = image,
         line \in 1 .. Len(source), line' = line + 1,
         line \notin KernelLines, line \notin InsnLines
  PROVE  ImageHolds'
<1>1. /\ source \in Sources /\ Len(source) \in Nat
      /\ Len(image.insns) = Counted(line) /\ Counted(line) \in Nat
      /\ Len(image.kernels) = Rank(KernelLines, line) /\ Rank(KernelLines, line) \in Nat
      /\ \A i \in InsnLines : i < line => i \in 1 .. Len(source)
      /\ \A i \in InsnLines : i < line /\ ToLabel(i) => BranchSet(i)
      /\ \A i \in KernelLines : i < line =>
           image.kernels[Rank(KernelLines, i) + 1] = Assembler!Kernel(source[i].name, Counted(i), 0)
  BY Emitted
<1>2. KernelLines \in SUBSET (1 .. Len(source)) /\ line \in Nat
      /\ \A i \in KernelLines \cup InsnLines : i \in 1 .. Len(source)
  BY <1>1, TextIs
<1>3. Counted(line + 1) = Counted(line)
  BY <1>1, CountedStep
<1>4. Rank(KernelLines, line + 1) = Rank(KernelLines, line)
  BY <1>1, <1>2, RankStep
<1>5. InsnLines' = InsnLines /\ KernelLines' = KernelLines
      /\ (\A i : Counted(i)' = Counted(i)) /\ (\A i : ToLabel(i)' <=> ToLabel(i))
  BY LinesKept, PlacesKept
<1>6. \A i \in KernelLines \cup InsnLines : i < line + 1 => i < line
  BY <1>1, <1>2
<1>7. Len(image'.insns) = Counted(line)' /\ Len(image'.kernels) = Rank(KernelLines', line')
  BY <1>1, <1>3, <1>4, <1>5
<1>8. \A i \in InsnLines' : i < line' /\ ToLabel(i)' => BranchSet(i)'
  <2> SUFFICES ASSUME NEW i \in InsnLines, i < line, ToLabel(i) PROVE BranchSet(i)'
    BY <1>5, <1>6
  <2>1. BranchSet(i)
    BY <1>1
  <2> QED BY <2>1, BranchKept
<1>9. \A i \in KernelLines' : i < line' =>
        image'.kernels[Rank(KernelLines', i) + 1] = Assembler!Kernel(source'[i].name, Counted(i)', 0)
  BY <1>1, <1>5, <1>6
<1>10. QED
  BY <1>7, <1>8, <1>9, ImageBuilt

LEMMA KernelEnded ==
  ASSUME AsmInv, Assembler!EndKernel
  PROVE  AsmInv'
<1>1. /\ source \in Sources /\ Len(source) \in Nat /\ phase = "emit"
      /\ line \in 1 .. Len(source) /\ line + 1 \in 1 .. Len(source) + 1
      /\ source[line].kind = "end"
  BY Here DEF Assembler!EndKernel
<1>2. CASE inKernel
  <2>1. /\ source' = source /\ phase' = phase /\ syms' = syms /\ image' = image
        /\ file' = file /\ session' = session /\ line' = line + 1 /\ kpc' = 0 /\ inKernel' = FALSE
    BY <1>2 DEF Assembler!EndKernel, Assembler!Advance, Assembler!KeepOutput
  <2>2. line \in Directives /\ line \notin KernelLines /\ line \notin InsnLines
    BY <1>1, KindOf DEF Directives
  <2>3. TextTyped'
    BY <1>1, <2>1 DEF TextTyped
  <2>4. InSync'
    <3>1. ~InKernel(line + 1)
      BY <1>1, <2>2, PlaceStep
    <3>2. InKernel(line)' <=> InKernel(line + 1)
      BY <2>1, PlacesKept
    <3> QED BY <2>1, <3>1, <3>2 DEF InSync
  <2>5. SymsHold'
    BY <1>1, <2>1, SymsKept
  <2>6. ImageSound(image)'
    BY <2>1 DEF AsmInv
  <2>7. ImageHolds'
    BY <1>1, <2>1, <2>2, LineSkipped
  <2>8. FileHolds' /\ SessionHolds'
    BY <1>1, <2>1, OutputKept
  <2> QED BY <2>3, <2>4, <2>5, <2>6, <2>7, <2>8 DEF AsmInv
<1>3. CASE ~inKernel
  BY <1>1, <1>3, Refused DEF Assembler!EndKernel
<1>4. QED
  BY <1>2, <1>3

LEMMA LabelSkipped ==
  ASSUME AsmInv, Assembler!SkipLabel
  PROVE  AsmInv'
<1>1. /\ source \in Sources /\ Len(source) \in Nat /\ phase = "emit"
      /\ line \in 1 .. Len(source) /\ line + 1 \in 1 .. Len(source) + 1
      /\ line \in 1 .. Len(source) + 1 /\ source[line].kind = "label"
  BY Here DEF Assembler!SkipLabel
<1>2. /\ source' = source /\ phase' = phase /\ syms' = syms /\ image' = image
      /\ file' = file /\ session' = session /\ line' = line + 1 /\ kpc' = kpc /\ inKernel' = inKernel
  BY DEF Assembler!SkipLabel, Assembler!Advance, Assembler!KeepOutput
<1>3. line \notin Directives /\ line \notin KernelLines /\ line \notin InsnLines
  BY <1>1, KindOf DEF Directives
<1>4. TextTyped'
  BY <1>1, <1>2 DEF TextTyped
<1>5. InSync'
  <2>1. PlaceOf(line + 1) = PlaceOf(line) + 0 /\ (InKernel(line + 1) <=> InKernel(line))
    BY <1>1, <1>3, PlaceStep
  <2>2. PlaceOf(line) \in Int
    BY <1>1, PlaceBounds
  <2>3. (InKernel(line)' <=> InKernel(line)) /\ PlaceOf(line)' = PlaceOf(line)
    BY <1>2, <2>1, <2>2, PlacesKept
  <2>4. inKernel \in BOOLEAN /\ (inKernel <=> InKernel(line))
        /\ kpc = IF inKernel THEN PlaceOf(line) ELSE 0
    BY DEF AsmInv, InSync
  <2> QED BY <1>2, <2>3, <2>4 DEF InSync
<1>6. SymsHold'
  BY <1>1, <1>2, SymsKept
<1>7. ImageSound(image)'
  BY <1>2 DEF AsmInv
<1>8. ImageHolds'
  BY <1>1, <1>2, <1>3, LineSkipped
<1>9. FileHolds' /\ SessionHolds'
  BY <1>1, <1>2, OutputKept
<1>10. QED
  BY <1>4, <1>5, <1>6, <1>7, <1>8, <1>9 DEF AsmInv

LEMMA Finished ==
  ASSUME AsmInv, Assembler!Finish
  PROVE  AsmInv'
<1>1. phase = "emit" /\ line > Len(source)
  BY DEF Assembler!Finish
<1>2. CASE inKernel
  BY <1>1, <1>2, Refused DEF Assembler!Finish
<1>3. CASE ~inKernel
  <2>1. /\ phase' = "ok" /\ source' = source /\ line' = line /\ inKernel' = inKernel
        /\ kpc' = kpc /\ syms' = syms /\ image' = image /\ file' = file /\ session' = session
    BY <1>3 DEF Assembler!Finish, Assembler!KeepOutput
  <2>2. source \in Sources /\ line \in 1 .. Len(source) + 1 /\ Len(source) \in Nat
    BY <1>1, Emitted
  <2>3. TextTyped'
    BY <1>1, <2>1, <2>2 DEF TextTyped
  <2>4. InSync'
    <3>1. (InKernel(line)' <=> InKernel(line)) /\ PlaceOf(line)' = PlaceOf(line)
      BY <2>1, PlacesKept
    <3> QED BY <2>1, <3>1 DEF AsmInv, InSync
  <2>5. SymsHold'
    BY <2>1, SymsKept
  <2>6. ImageSound(image)'
    BY <2>1 DEF AsmInv
  <2>7. ImageHolds'
    <3>1. /\ Len(image.insns) = Counted(line)
          /\ Len(image.kernels) = Rank(KernelLines, line)
          /\ \A i \in InsnLines : i < line /\ ToLabel(i) => BranchSet(i)
          /\ \A i \in KernelLines : i < line =>
               image.kernels[Rank(KernelLines, i) + 1] = Assembler!Kernel(source[i].name, Counted(i), 0)
      BY <1>1, Emitted
    <3>2. InsnLines' = InsnLines /\ KernelLines' = KernelLines
          /\ (\A i : Counted(i)' = Counted(i)) /\ (\A i : ToLabel(i)' <=> ToLabel(i))
      BY <2>1, LinesKept, PlacesKept
    <3>3. \A i \in InsnLines' : i < line' /\ ToLabel(i)' => BranchSet(i)'
      <4> SUFFICES ASSUME NEW i \in InsnLines, i < line, ToLabel(i) PROVE BranchSet(i)'
        BY <2>1, <3>2
      <4>1. BranchSet(i)
        BY <3>1
      <4>2. image'.insns[Counted(i) + 1] = image.insns[Counted(i) + 1]
        BY <2>1
      <4> QED BY <2>1, <4>1, <4>2, BranchKept
    <3>4. Len(image'.insns) = Counted(line)'
      BY <2>1, <3>1, <3>2
    <3>5. Len(image'.kernels) = Rank(KernelLines', line')
      BY <2>1, <3>1, <3>2
    <3>6. \A i \in KernelLines' : i < line' =>
            image'.kernels[Rank(KernelLines', i) + 1] = Assembler!Kernel(source'[i].name, Counted(i)', 0)
      BY <2>1, <3>1, <3>2
    <3> QED BY <3>3, <3>4, <3>5, <3>6, ImageBuilt
  <2>8. FileHolds' /\ SessionHolds'
    BY <1>1, <2>1, OutputKept
  <2> QED BY <2>3, <2>4, <2>5, <2>6, <2>7, <2>8 DEF AsmInv
<1>4. QED
  BY <1>2, <1>3

LEMMA KernelBegun ==
  ASSUME AsmInv, Assembler!BeginKernel
  PROVE  AsmInv'
<1>1. /\ source \in Sources /\ Len(source) \in Nat /\ phase = "emit"
      /\ line \in 1 .. Len(source) /\ line + 1 \in 1 .. Len(source) + 1
      /\ source[line].kind = "kernel"
  BY Here DEF Assembler!BeginKernel
<1> DEFINE name == source[line].name
<1>2. CASE ~inKernel /\ Assembler!CanAddKernel(image, name)
  <2>1. /\ image' = Assembler!AddKernel(image, name, Len(image.insns), 0)
        /\ source' = source /\ phase' = phase /\ syms' = syms
        /\ file' = file /\ session' = session /\ line' = line + 1 /\ kpc' = 0 /\ inKernel' = TRUE
    BY <1>2 DEF Assembler!BeginKernel, Assembler!Advance
  <2>2. line \in Directives /\ line \in KernelLines /\ line \notin InsnLines
    BY <1>1, KindOf DEF Directives
  <2>3. TextTyped'
    BY <1>1, <2>1 DEF TextTyped
  <2>4. InSync'
    <3>1. InKernel(line + 1) /\ PlaceOf(line + 1) = 0
      BY <1>1, <2>2, PlaceStep
    <3>2. InKernel(line)' /\ PlaceOf(line)' = 0
      BY <2>1, <3>1, PlacesKept
    <3> QED BY <2>1, <3>2 DEF InSync
  <2>5. SymsHold'
    BY <1>1, <2>1, SymsKept
  <2>6. FileHolds' /\ SessionHolds'
    BY <1>1, <2>1, OutputKept
  <2>7. IsName(name)
    <3> PICK S : S = {name[n] : n \in DOMAIN name}
      OBVIOUS
    <3>1. name \in Seq(S \ {NUL})
      <4>1. line \in DOMAIN source
        BY <1>1, TextIs
      <4>2. source[line].name \in Seq({source[line].name[n] : n \in DOMAIN source[line].name} \ {NUL})
        BY <1>1, <4>1, AssemblerConstants
      <4> QED BY <4>2
    <3>2. Len(name) \in 1 .. MaxName - 1
      BY <1>2 DEF Assembler!CanAddKernel
    <3>3. \A n \in 1 .. Len(name) : name[n] # NUL
      BY <3>1
    <3>4. IsSeq(name)
      BY <3>1 DEF IsSeq
    <3> QED BY <3>2, <3>3, <3>4 DEF IsName
  <2>8. /\ Len(image.insns) = Counted(line) /\ Counted(line) \in Nat
        /\ Len(image.kernels) = Rank(KernelLines, line) /\ Rank(KernelLines, line) \in Nat
        /\ \A i \in InsnLines : i < line /\ ToLabel(i) => BranchSet(i)
        /\ \A i \in KernelLines : i < line =>
              /\ Rank(KernelLines, i) + 1 \in 1 .. Rank(KernelLines, line)
              /\ image.kernels[Rank(KernelLines, i) + 1] = Assembler!Kernel(source[i].name, Counted(i), 0)
    BY <1>1, Emitted
  <2>9. ImageSound(image)
    BY DEF AsmInv
  <2> HIDE DEF name
  <2> PICK img, jmg, entry : img = image /\ jmg = image' /\ entry = Len(image.insns)
    OBVIOUS
  <2>10. entry \in Nat /\ ImageSound(img) /\ Assembler!CanAddKernel(img, name)
         /\ jmg = Assembler!AddKernel(img, name, entry, 0)
    BY <1>2, <2>1, <2>8, <2>9
  <2>11. /\ ImageSound(jmg) /\ jmg.insns = img.insns
         /\ Len(jmg.kernels) = Len(img.kernels) + 1
         /\ jmg.kernels[Len(img.kernels) + 1] = Assembler!Kernel(name, entry, 0)
         /\ \A k \in 1 .. Len(img.kernels) : jmg.kernels[k] = img.kernels[k]
    BY <2>7, <2>10, KernelAdded
  <2>12. ImageSound(image)'
    BY <2>11
  <2>13. KernelLines \in SUBSET (1 .. Len(source)) /\ line \in Nat
         /\ \A i \in KernelLines \cup InsnLines : i \in 1 .. Len(source)
    BY <1>1, TextIs
  <2>14. Counted(line + 1) = Counted(line)
    BY <1>1, <2>2, <2>8, CountedStep
  <2>15. Rank(KernelLines, line + 1) = Rank(KernelLines, line) + 1
    BY <1>1, <2>2, <2>13, RankStep
  <2>16. InsnLines' = InsnLines /\ KernelLines' = KernelLines
         /\ (\A i : Counted(i)' = Counted(i)) /\ (\A i : ToLabel(i)' <=> ToLabel(i))
    BY <2>1, LinesKept, PlacesKept
  <2>17. \A i \in KernelLines \cup InsnLines : i < line + 1 => i < line \/ i = line
    BY <1>1, <2>13
  <2>18. Len(image'.insns) = Counted(line)'
    BY <2>1, <2>8, <2>11, <2>14, <2>16
  <2>19. Len(image'.kernels) = Rank(KernelLines', line')
    BY <2>1, <2>8, <2>11, <2>15, <2>16
  <2>20. \A i \in InsnLines' : i < line' /\ ToLabel(i)' => BranchSet(i)'
    <3> SUFFICES ASSUME NEW i \in InsnLines, i < line, ToLabel(i) PROVE BranchSet(i)'
      BY <2>1, <2>2, <2>16, <2>17
    <3>1. BranchSet(i)
      BY <2>8
    <3>2. image'.insns[Counted(i) + 1] = image.insns[Counted(i) + 1]
      BY <2>11
    <3> QED BY <2>1, <3>1, <3>2, BranchKept
  <2>21. ASSUME NEW i \in KernelLines, i < line + 1
         PROVE  jmg.kernels[Rank(KernelLines, i) + 1] = Assembler!Kernel(source[i].name, Counted(i), 0)
    <3>1. CASE i = line
      BY <2>8, <2>11, <3>1 DEF name
    <3>2. CASE i # line
      <4>1. i < line
        BY <2>17, <2>21, <3>2
      <4>2. Rank(KernelLines, i) + 1 \in 1 .. Len(img.kernels)
        BY <2>8, <4>1
      <4> QED BY <2>8, <2>11, <4>1, <4>2
    <3> QED BY <3>1, <3>2
  <2>22. \A i \in KernelLines' : i < line' =>
           image'.kernels[Rank(KernelLines', i) + 1] = Assembler!Kernel(source'[i].name, Counted(i)', 0)
    BY <2>1, <2>16, <2>21
  <2>23. ImageHolds'
    BY <2>18, <2>19, <2>20, <2>22, ImageBuilt
  <2> QED BY <2>3, <2>4, <2>5, <2>6, <2>12, <2>23 DEF AsmInv
<1>3. CASE ~(~inKernel /\ Assembler!CanAddKernel(image, name))
  BY <1>1, <1>3, Refused DEF Assembler!BeginKernel
<1>4. QED
  BY <1>2, <1>3

\* An accepted branch is encoded as the distance of a symbol.
LEMMA BranchEncoded ==
  ASSUME NEW l, l.op \in Assembler!Branches, Assembler!Operand(l, 1).cls = "name", Assembler!Accepted(l)
  PROVE  LET name == l.args[1].val
         IN Assembler!Found(name) # {} /\ Assembler!Encoded(l).imm = Assembler!AddrOf(name) - (kpc + 1)
<1>1. Assembler!Operand(l, 1) = l.args[1]
  BY DEF Assembler!Operand, Assembler!NoOperand
<1>2. l.op \notin Assembler!ZeroOperand /\ l.op \notin Assembler!Specials
  BY DEF Assembler!Branches, Assembler!ZeroOperand, Assembler!Specials
<1>3. Assembler!CanBranch(Assembler!Operand(l, 1))
  BY <1>2 DEF Assembler!Accepted
<1>4. Assembler!Found(l.args[1].val) # {}
  BY <1>1, <1>3 DEF Assembler!CanBranch
<1>5. Assembler!Encoded(l) = Assembler!Insn(l.op, Assembler!PredOf(l), 0, 0, 0,
                                            Assembler!BranchOffset(Assembler!Operand(l, 1)))
  <2> PICK op : op = l.op
    OBVIOUS
  <2>1. /\ op \in Assembler!Branches /\ op \notin Assembler!ZeroOperand
        /\ op \notin Assembler!Specials /\ op \notin Assembler!Loads /\ op \notin Assembler!Stores
        /\ op # "CMP" /\ op # "MOV" /\ op # "ADDi"
    BY <1>2 DEF Assembler!Branches, Assembler!Loads, Assembler!Stores
  <2>2. op \notin Assembler!SingleSource
    BY DEF Assembler!Branches, Assembler!SingleSource
  <2>3. op \notin Assembler!TwoSource
    BY DEF Assembler!Branches, Assembler!TwoSource, Assembler!VectorOps
  <2> QED BY <2>1, <2>2, <2>3 DEF Assembler!Encoded
<1>6. Assembler!Encoded(l).imm = Assembler!BranchOffset(Assembler!Operand(l, 1))
  BY <1>5 DEF Assembler!Insn
<1>7. Assembler!BranchOffset(Assembler!Operand(l, 1)) = Assembler!Distance(l.args[1].val)
  BY <1>1 DEF Assembler!BranchOffset
<1>8. QED
  BY <1>4, <1>6, <1>7 DEF Assembler!Distance

LEMMA BranchIs ==
  ASSUME source' = source, syms' = syms, NEW i, Assembler!Found(source[i].args[1].val) # {},
         image'.insns[Counted(i) + 1].imm
           = Assembler!AddrOf(source[i].args[1].val) - (PlaceOf(i) + 1)
  PROVE  BranchSet(i)'
<1>1. Counted(i)' = Counted(i) /\ PlaceOf(i)' = PlaceOf(i)
  BY LinesKept, PlacesKept
<1>2. /\ Assembler!Found(source[i].args[1].val)' = Assembler!Found(source[i].args[1].val)
      /\ Assembler!AddrOf(source[i].args[1].val)' = Assembler!AddrOf(source[i].args[1].val)
  BY SymbolsKept
<1>3. QED
  BY <1>1, <1>2 DEF BranchSet

LEMMA InsnEmitted ==
  ASSUME AsmInv, Assembler!EmitInsn
  PROVE  AsmInv'
<1>1. /\ source \in Sources /\ Len(source) \in Nat /\ phase = "emit"
      /\ line \in 1 .. Len(source) /\ line + 1 \in 1 .. Len(source) + 1
      /\ line \in 1 .. Len(source) + 1 /\ source[line].kind = "insn"
  BY Here DEF Assembler!EmitInsn
<1> DEFINE l == source[line]
           insn == Assembler!Encoded(l)
<1>2. CASE Assembler!Accepted(l) /\ inKernel /\ Assembler!CanAddInsn(image)
  <2>1. /\ image' = Assembler!AddInsn(image, insn)
        /\ source' = source /\ phase' = phase /\ syms' = syms
        /\ file' = file /\ session' = session /\ line' = line + 1 /\ kpc' = kpc + 1
        /\ inKernel' = inKernel
    BY <1>2 DEF Assembler!EmitInsn, Assembler!Advance
  <2>2. line \notin Directives /\ line \notin KernelLines /\ line \in InsnLines
    BY <1>1, KindOf DEF Directives
  <2>3. TextTyped'
    BY <1>1, <2>1 DEF TextTyped
  <2>4. inKernel /\ InKernel(line) /\ kpc = PlaceOf(line)
    BY <1>2 DEF AsmInv, InSync
  <2>5. InSync'
    <3>1. InKernel(line + 1) /\ PlaceOf(line + 1) = PlaceOf(line) + 1
      BY <1>1, <2>2, <2>4, PlaceStep
    <3>2. InKernel(line)' /\ PlaceOf(line)' = PlaceOf(line) + 1
      BY <2>1, <3>1, PlacesKept
    <3>3. inKernel' = TRUE
      BY <2>1, <2>4 DEF AsmInv, InSync
    <3> QED BY <2>1, <2>4, <3>2, <3>3 DEF InSync
  <2>6. SymsHold'
    BY <1>1, <2>1, SymsKept
  <2>7. FileHolds' /\ SessionHolds'
    BY <1>1, <2>1, OutputKept
  <2>8. /\ Len(image.insns) = Counted(line) /\ Counted(line) \in Nat
        /\ Len(image.kernels) = Rank(KernelLines, line) /\ Rank(KernelLines, line) \in Nat
        /\ \A i \in InsnLines : i < line => Counted(i) + 1 \in 1 .. Counted(line)
        /\ \A i \in InsnLines : i < line /\ ToLabel(i) => BranchSet(i)
        /\ \A i \in KernelLines : i < line =>
              image.kernels[Rank(KernelLines, i) + 1] = Assembler!Kernel(source[i].name, Counted(i), 0)
    BY <1>1, Emitted
  <2>9. ASSUME ToLabel(line)
        PROVE  /\ Assembler!Found(l.args[1].val) # {}
               /\ insn.imm = Assembler!AddrOf(l.args[1].val) - (PlaceOf(line) + 1)
    BY <1>2, <2>4, <2>9, BranchEncoded DEF ToLabel
  <2>10. ImageSound(image)
    BY DEF AsmInv
  <2> HIDE DEF insn
  <2> PICK img, jmg : img = image /\ jmg = image'
    OBVIOUS
  <2>11. ImageSound(img) /\ Assembler!CanAddInsn(img) /\ jmg = Assembler!AddInsn(img, insn)
    BY <1>2, <2>1, <2>10
  <2>12. /\ ImageSound(jmg) /\ jmg.kernels = img.kernels
         /\ Len(jmg.insns) = Len(img.insns) + 1 /\ jmg.insns[Len(img.insns) + 1] = insn
         /\ \A k \in 1 .. Len(img.insns) : jmg.insns[k] = img.insns[k]
    BY <2>11, InsnAdded
  <2>13. ImageSound(image)'
    BY <2>12
  <2>14. KernelLines \in SUBSET (1 .. Len(source)) /\ line \in Nat
         /\ \A i \in KernelLines \cup InsnLines : i \in 1 .. Len(source)
    BY <1>1, TextIs
  <2>15. Counted(line + 1) = Counted(line) + 1
    BY <1>1, <2>2, CountedStep
  <2>16. Rank(KernelLines, line + 1) = Rank(KernelLines, line)
    BY <1>1, <2>2, <2>14, RankStep
  <2>17. InsnLines' = InsnLines /\ KernelLines' = KernelLines
         /\ (\A i : Counted(i)' = Counted(i)) /\ (\A i : ToLabel(i)' <=> ToLabel(i))
    BY <2>1, LinesKept, PlacesKept
  <2>18. \A i \in KernelLines \cup InsnLines : i < line + 1 => i < line \/ i = line
    BY <1>1, <2>14
  <2>19. Len(image'.insns) = Counted(line)'
    BY <2>1, <2>8, <2>12, <2>15, <2>17
  <2>20. Len(image'.kernels) = Rank(KernelLines', line')
    BY <2>1, <2>8, <2>12, <2>16, <2>17
  <2>21. \A i \in InsnLines' : i < line' /\ ToLabel(i)' => BranchSet(i)'
    <3> SUFFICES ASSUME NEW i \in InsnLines, i < line + 1, ToLabel(i) PROVE BranchSet(i)'
      BY <2>1, <2>17
    <3>1. CASE i < line
      <4>1. BranchSet(i)
        BY <2>8, <3>1
      <4>2. image'.insns[Counted(i) + 1] = image.insns[Counted(i) + 1]
        <5>1. Counted(i) + 1 \in 1 .. Len(img.insns)
          BY <2>8, <3>1
        <5> QED BY <2>12, <5>1
      <4> QED BY <2>1, <4>1, <4>2, BranchKept
    <3>2. CASE i = line
      <4>1. image'.insns[Counted(i) + 1] = insn
        BY <2>8, <2>12, <3>2
      <4>2. /\ Assembler!Found(source[i].args[1].val) # {}
            /\ insn.imm = Assembler!AddrOf(source[i].args[1].val) - (PlaceOf(i) + 1)
        BY <2>9, <3>2
      <4> QED BY <2>1, <4>1, <4>2, BranchIs
    <3> QED BY <2>18, <3>1, <3>2
  <2>22. \A i \in KernelLines' : i < line' =>
           image'.kernels[Rank(KernelLines', i) + 1] = Assembler!Kernel(source'[i].name, Counted(i)', 0)
    BY <2>1, <2>2, <2>8, <2>12, <2>17, <2>18
  <2>23. ImageHolds'
    BY <2>19, <2>20, <2>21, <2>22, ImageBuilt
  <2> QED BY <2>3, <2>5, <2>6, <2>7, <2>13, <2>23 DEF AsmInv
<1>3. CASE ~(Assembler!Accepted(l) /\ inKernel /\ Assembler!CanAddInsn(image))
  BY <1>1, <1>3, Refused DEF Assembler!EmitInsn
<1>4. QED
  BY <1>2, <1>3

-----------------------------------------------------------------------------
(* Containers, sessions and launches.                                       *)

LEMMA AsmStarts == ASSUME Assembler!Init PROVE AsmInv
<1>1. /\ source \in Sources /\ phase = "labels" /\ line = 1 /\ inKernel = FALSE /\ kpc = 0
      /\ syms = <<>> /\ image = Assembler!NoImage /\ file = Nothing /\ session = Nothing
  BY DEF Assembler!Init
<1>2. Len(source) \in Nat /\ 1 \in 1 .. Len(source) + 1
  BY <1>1, TextIs
<1>3. TextTyped
  BY <1>1, <1>2 DEF TextTyped
<1>4. InSync
  <2>1. Assembler!Under(1) = 0
    BY <1>1, UnderStart
  <2>2. \A i \in KernelLines : i \in 1 .. Len(source)
    BY <1>1, TextIs
  <2>3. ~InKernel(line)
    BY <1>1, <1>2, <2>1, <2>2 DEF InKernel
  <2> QED BY <1>1, <2>3 DEF InSync
<1>5. SymsHold
  <2>1. IsSeq(syms) /\ Len(syms) <= MaxSymbols /\ DOMAIN syms = {}
    BY <1>1, SeqNone, AssemblerNumbers
  <2>2. \A j \in LabelLines : j \in 1 .. Len(source)
    BY <1>1, TextIs
  <2>3. \A j \in LabelLines : ~(j < line)
    BY <1>1, <1>2, <2>2
  <2> QED BY <2>1, <2>3 DEF SymsHold
<1>6. ImageSound(image)
  BY <1>1, NoImageSound
<1>7. ImageHolds /\ FileHolds /\ SessionHolds
  BY <1>1 DEF ImageHolds, FileHolds, SessionHolds
<1>8. QED
  BY <1>3, <1>4, <1>5, <1>6, <1>7 DEF AsmInv

\* A step after the assembler is done keeps what it did.
LEMMA TextKept ==
  ASSUME AsmInv, source' = source, phase' = phase, line' = line, inKernel' = inKernel,
         kpc' = kpc, syms' = syms, image' = image
  PROVE  TextTyped' /\ InSync' /\ SymsHold' /\ ImageSound(image)' /\ ImageHolds'
<1>1. TextTyped'
  BY DEF AsmInv, TextTyped
<1>2. InSync'
  <2>1. (InKernel(line)' <=> InKernel(line)) /\ PlaceOf(line)' = PlaceOf(line)
    BY PlacesKept
  <2> QED BY <2>1 DEF AsmInv, InSync
<1>3. SymsHold'
  <2>1. /\ IsSeq(syms) /\ Len(syms) <= MaxSymbols
        /\ \A k \in DOMAIN syms : \E j : FirstOf(j, syms[k].name) /\ syms[k].addr = PlaceOf(j)
        /\ phase = "labels" /\ Len(syms) < MaxSymbols =>
             \A j \in LabelLines : j < line /\ InKernel(j) =>
               \E k \in DOMAIN syms : syms[k].name = source[j].name
    BY DEF AsmInv, SymsHold
  <2>2. \A k \in DOMAIN syms : \E j : FirstOf(j, syms[k].name)' /\ syms[k].addr = PlaceOf(j)'
    BY <2>1, PlacesKept
  <2>3. LabelLines' = LabelLines /\ \A j : InKernel(j)' <=> InKernel(j)
    BY LinesKept, PlacesKept
  <2>4. /\ IsSeq(syms') /\ Len(syms') <= MaxSymbols
        /\ \A k \in DOMAIN syms' : \E j : FirstOf(j, syms[k].name)' /\ syms[k].addr' = PlaceOf(j)'
    BY <2>1, <2>2
  <2>5. phase' = "labels" /\ Len(syms') < MaxSymbols =>
          \A j \in LabelLines' : j < line' /\ InKernel(j)' =>
            \E k \in DOMAIN syms' : syms[k].name' = source[j].name'
    BY <2>1, <2>3
  <2> QED BY <2>4, <2>5, SymsBuilt
<1>4. ImageSound(image)'
  BY DEF AsmInv
<1>5. ImageHolds'
  <2>1. CASE phase \notin {"emit", "ok"}
    BY <2>1, NoImageYet
  <2>2. CASE phase \in {"emit", "ok"}
    <3>1. /\ Len(image.insns) = Counted(line)
          /\ Len(image.kernels) = Rank(KernelLines, line)
          /\ \A i \in InsnLines : i < line /\ ToLabel(i) => BranchSet(i)
          /\ \A i \in KernelLines : i < line =>
               image.kernels[Rank(KernelLines, i) + 1] = Assembler!Kernel(source[i].name, Counted(i), 0)
      BY <2>2, Emitted
    <3>2. InsnLines' = InsnLines /\ KernelLines' = KernelLines
          /\ (\A i : Counted(i)' = Counted(i)) /\ (\A i : ToLabel(i)' <=> ToLabel(i))
      BY LinesKept, PlacesKept
    <3>3. \A i \in InsnLines' : i < line' /\ ToLabel(i)' => BranchSet(i)'
      <4> SUFFICES ASSUME NEW i \in InsnLines, i < line, ToLabel(i) PROVE BranchSet(i)'
        BY <3>2
      <4>1. BranchSet(i)
        BY <3>1
      <4> QED BY <4>1, BranchKept
    <3>4. Len(image'.insns) = Counted(line)'
      BY <3>1, <3>2
    <3>5. Len(image'.kernels) = Rank(KernelLines', line')
      BY <3>1, <3>2
    <3>6. \A i \in KernelLines' : i < line' =>
            image'.kernels[Rank(KernelLines', i) + 1] = Assembler!Kernel(source'[i].name, Counted(i)', 0)
      BY <3>1, <3>2
    <3> QED BY <3>3, <3>4, <3>5, <3>6, ImageBuilt
  <2> QED BY <2>1, <2>2
<1>6. QED
  BY <1>1, <1>2, <1>3, <1>4, <1>5

LEMMA FileKept ==
  ASSUME AsmInv, phase' = phase, image' = image, file' = file
  PROVE  FileHolds'
  BY DEF AsmInv, FileHolds, Assembler!Pack, Assembler!NameOff

LEMMA SessionKept ==
  ASSUME AsmInv, phase' = phase, image' = image, session' = session
  PROVE  SessionHolds'
  BY DEF AsmInv, SessionHolds

LEMMA Stuttered ==
  ASSUME AsmInv, UNCHANGED assemblerVars
  PROVE  AsmInv'
<1>1. /\ source' = source /\ phase' = phase /\ line' = line /\ inKernel' = inKernel
      /\ kpc' = kpc /\ syms' = syms /\ image' = image /\ file' = file /\ session' = session
  BY DEF assemblerVars
<1>2. TextTyped' /\ InSync' /\ SymsHold' /\ ImageSound(image)' /\ ImageHolds'
  BY <1>1, TextKept
<1>3. FileHolds' /\ SessionHolds'
  BY <1>1, FileKept, SessionKept
<1>4. QED
  BY <1>2, <1>3 DEF AsmInv

LEMMA Saved ==
  ASSUME AsmInv, Assembler!Save
  PROVE  AsmInv'
<1>1. /\ phase = "ok" /\ file' = Assembler!Pack(image)
      /\ source' = source /\ phase' = phase /\ line' = line /\ inKernel' = inKernel
      /\ kpc' = kpc /\ syms' = syms /\ image' = image /\ session' = session
  BY DEF Assembler!Save
<1>2. TextTyped' /\ InSync' /\ SymsHold' /\ ImageSound(image)' /\ ImageHolds'
  BY <1>1, TextKept
<1>3. FileHolds'
  BY <1>1 DEF FileHolds, Assembler!Pack, Assembler!NameOff
<1>4. SessionHolds'
  BY <1>1, SessionKept
<1>5. QED
  BY <1>2, <1>3, <1>4 DEF AsmInv

LEMMA Created ==
  ASSUME AsmInv, Assembler!Create
  PROVE  AsmInv'
<1>1. /\ phase = "ok" /\ session' = [img |-> image, kernel |-> 0, pc |-> 0, from |-> "memory"]
      /\ source' = source /\ phase' = phase /\ line' = line /\ inKernel' = inKernel
      /\ kpc' = kpc /\ syms' = syms /\ image' = image /\ file' = file
  BY DEF Assembler!Create
<1>2. TextTyped' /\ InSync' /\ SymsHold' /\ ImageSound(image)' /\ ImageHolds'
  BY <1>1, TextKept
<1>3. FileHolds'
  BY <1>1, FileKept
<1>4. SessionHolds'
  BY <1>1 DEF SessionHolds
<1>5. QED
  BY <1>2, <1>3, <1>4 DEF AsmInv

LEMMA Destroyed ==
  ASSUME AsmInv, Assembler!Destroy
  PROVE  AsmInv'
<1>1. /\ session' = Nothing
      /\ source' = source /\ phase' = phase /\ line' = line /\ inKernel' = inKernel
      /\ kpc' = kpc /\ syms' = syms /\ image' = image /\ file' = file
  BY DEF Assembler!Destroy
<1>2. TextTyped' /\ InSync' /\ SymsHold' /\ ImageSound(image)' /\ ImageHolds'
  BY <1>1, TextKept
<1>3. FileHolds'
  BY <1>1, FileKept
<1>4. SessionHolds'
  BY <1>1 DEF SessionHolds
<1>5. QED
  BY <1>2, <1>3, <1>4 DEF AsmInv

LEMMA Opened ==
  ASSUME AsmInv, file # Nothing,
         NEW len \in {Assembler!ContainerSize(file) - 1, Assembler!ContainerSize(file)},
         Assembler!Open(len)
  PROVE  AsmInv'
<1>1. /\ Assembler!Readable(file, len)
      /\ session' = [img |-> Assembler!Unpack(file), kernel |-> 0, pc |-> 0,
                     from |-> IF len = Assembler!ContainerSize(file) THEN "file" ELSE "cut"]
      /\ source' = source /\ phase' = phase /\ line' = line /\ inKernel' = inKernel
      /\ kpc' = kpc /\ syms' = syms /\ image' = image /\ file' = file
  BY DEF Assembler!Open
<1>2. TextTyped' /\ InSync' /\ SymsHold' /\ ImageSound(image)' /\ ImageHolds'
  BY <1>1, TextKept
<1>3. FileHolds'
  BY <1>1, FileKept
<1>4. phase = "ok" /\ file = Assembler!Pack(image) /\ ImageSound(image)
  BY DEF AsmInv, FileHolds
<1> PICK img, c, u : img = image /\ c = file /\ u = Assembler!Unpack(c)
  OBVIOUS
<1>5. ImageSound(img) /\ c = Assembler!Pack(img)
  BY <1>4
<1>6. u.kernels = img.kernels /\ u.insns = img.insns
  BY <1>5, Unpacked
<1>7. ~Assembler!Readable(c, Assembler!ContainerSize(c) - 1)
  BY <1>5, CutUnreadable
<1>8. len = Assembler!ContainerSize(c)
  BY <1>1, <1>7
<1>9. session' = [img |-> u, kernel |-> 0, pc |-> 0, from |-> "file"]
  BY <1>1, <1>8
<1>10. SessionHolds'
  BY <1>1, <1>4, <1>6, <1>9 DEF SessionHolds
<1>11. QED
  BY <1>2, <1>3, <1>10 DEF AsmInv

LEMMA Launched ==
  ASSUME AsmInv, NEW name, Assembler!Launch(name)
  PROVE  AsmInv'
<1> DEFINE found == {i \in DOMAIN session.img.kernels : session.img.kernels[i].name = name}
<1> PICK k : k = Assembler!FindKernel(session.img, name)
  OBVIOUS
<1>1. /\ session # Nothing /\ k # 0
      /\ session' = [session EXCEPT !.kernel = k, !.pc = session.img.kernels[k].entry]
      /\ source' = source /\ phase' = phase /\ line' = line /\ inKernel' = inKernel
      /\ kpc' = kpc /\ syms' = syms /\ image' = image /\ file' = file
  BY DEF Assembler!Launch
<1>2. TextTyped' /\ InSync' /\ SymsHold' /\ ImageSound(image)' /\ ImageHolds'
  BY <1>1, TextKept
<1>3. FileHolds'
  BY <1>1, FileKept
<1>4. /\ phase = "ok" /\ session.from # "cut"
      /\ session = [img |-> session.img, kernel |-> session.kernel, pc |-> session.pc,
                    from |-> session.from]
      /\ session.img.insns = image.insns /\ session.img.kernels = image.kernels
  BY <1>1 DEF AsmInv, SessionHolds
<1> PICK a, b, c, d, e : /\ a = session.img /\ b = session.kernel /\ c = session.pc
                         /\ d = session.from /\ e = session.img.kernels[k].entry
  OBVIOUS
<1>5. session = [img |-> a, kernel |-> b, pc |-> c, from |-> d]
  BY <1>4
<1>6. session' = [img |-> a, kernel |-> k, pc |-> e, from |-> d]
  BY <1>1, <1>5
<1>7. /\ k \in DOMAIN image.kernels /\ image.kernels[k].name = name
      /\ \A i \in DOMAIN image.kernels : image.kernels[i].name = name => k <= i
  <2>1. k = IF found = {} THEN 0 ELSE Assembler!Min(found)
    BY DEF Assembler!FindKernel
  <2>2. found # {} /\ k = Assembler!Min(found)
    BY <1>1, <2>1
  <2>3. found \in SUBSET Nat
    <3>1. ImageSound(image)
      BY DEF AsmInv
    <3>2. DOMAIN image.kernels = 1 .. Len(image.kernels) /\ Len(image.kernels) \in Nat
      BY <3>1, SoundLengths
    <3>3. \A i \in found : i \in 1 .. Len(image.kernels)
      BY <1>4, <3>2
    <3> HIDE DEF found
    <3>4. \A i \in found : i \in Nat
      BY <3>2, <3>3
    <3> QED BY <3>4
  <2>4. k \in found /\ \A i \in found : k <= i
    <3> HIDE DEF found
    <3> QED BY <2>2, <2>3, AsmLeast
  <2> QED BY <1>4, <2>4
<1>8. SessionHolds'
  <2>1. /\ session'.from = d /\ session'.img = a /\ session'.kernel = k /\ session'.pc = e
        /\ session' = [img |-> session'.img, kernel |-> session'.kernel, pc |-> session'.pc,
                       from |-> session'.from]
    BY <1>6
  <2>2. e = image.kernels[k].entry
    BY <1>4
  <2>3. phase' = "ok" /\ session'.from # "cut" /\ session'.img.insns = image'.insns
        /\ session'.img.kernels = image'.kernels
    BY <1>1, <1>4, <2>1
  <2>4. /\ session'.kernel \in DOMAIN image'.kernels
        /\ session'.pc = image'.kernels[session'.kernel].entry
        /\ \A i \in DOMAIN image'.kernels :
             image'.kernels[i].name = image'.kernels[session'.kernel].name => session'.kernel <= i
    BY <1>1, <1>7, <2>1, <2>2
  <2> QED BY <2>1, <2>3, <2>4 DEF SessionHolds
<1>9. QED
  BY <1>2, <1>3, <1>8 DEF AsmInv

LEMMA AsmSteps ==
  ASSUME AsmInv, [Next]_vars
  PROVE  AsmInv'
<1>1. CASE UNCHANGED assemblerVars
  BY <1>1, Stuttered
<1>2. CASE Assembler!Next
  <2>1. CASE Assembler!CollectDirective
    BY <2>1, DirectiveCollected
  <2>2. CASE Assembler!CollectLabel
    BY <2>2, LabelCollected
  <2>3. CASE Assembler!CollectInsn
    BY <2>3, InsnCollected
  <2>4. CASE Assembler!StartEmit
    BY <2>4, EmitStarted
  <2>5. CASE Assembler!BeginKernel
    BY <2>5, KernelBegun
  <2>6. CASE Assembler!EndKernel
    BY <2>6, KernelEnded
  <2>7. CASE Assembler!SkipLabel
    BY <2>7, LabelSkipped
  <2>8. CASE Assembler!EmitInsn
    BY <2>8, InsnEmitted
  <2>9. CASE Assembler!Finish
    BY <2>9, Finished
  <2>10. CASE Assembler!Save
    BY <2>10, Saved
  <2>11. CASE Assembler!Create
    BY <2>11, Created
  <2>12. CASE Assembler!Destroy
    BY <2>12, Destroyed
  <2>13. ASSUME file # Nothing,
                NEW len \in {Assembler!ContainerSize(file) - 1, Assembler!ContainerSize(file)},
                Assembler!Open(len)
         PROVE  AsmInv'
    BY <2>13, Opened
  <2>14. ASSUME NEW name \in Assembler!Names, Assembler!Launch(name) PROVE AsmInv'
    BY <2>14, Launched
  <2> QED
    BY <1>2, <2>1, <2>2, <2>3, <2>4, <2>5, <2>6, <2>7, <2>8, <2>9, <2>10, <2>11, <2>12, <2>13, <2>14
    DEF Assembler!Next
<1>3. QED
  BY <1>1, <1>2 DEF Next, vars

LEMMA AsmAlways == Spec => []AsmInv
<1>1. Init => AsmInv
  BY AsmStarts DEF Init
<1>2. AsmInv /\ [Next]_vars => AsmInv'
  BY AsmSteps
<1>3. QED
  BY <1>1, <1>2, PTL DEF Spec

-----------------------------------------------------------------------------
(* What is launched by name.                                                *)

LEMMA AsmTypes == AsmInv => Assembler!TypeOK
<1> SUFFICES ASSUME AsmInv PROVE Assembler!TypeOK
  OBVIOUS
<1>1. /\ source \in Sources /\ phase \in {"labels", "emit", "ok", "refused"}
      /\ line \in 1 .. Len(source) + 1
  BY DEF AsmInv, TextTyped
<1>2. PlaceOf(line) \in 0 .. Len(source) /\ Len(source) \in Nat
  BY <1>1, TextIs, PlaceBounds
<1>3. kpc \in 0 .. Len(source) /\ inKernel \in BOOLEAN
  BY <1>2 DEF AsmInv, InSync
<1>4. Len(syms) <= MaxSymbols
  BY DEF AsmInv, SymsHold
<1>5. Len(image.insns) <= MaxInsns /\ Len(image.kernels) <= MaxKernels /\ Len(image.pool) <= PoolSize
  BY DEF AsmInv, ImageSound
<1>6. QED
  BY <1>1, <1>3, <1>4, <1>5 DEF Assembler!TypeOK

\* The address of a symbol is the place of the first label with its name.
LEMMA SymbolIs ==
  ASSUME AsmInv, NEW name, Assembler!Found(name) # {}
  PROVE  \E j : FirstOf(j, name) /\ Assembler!AddrOf(name) = PlaceOf(j)
<1>1. /\ IsSeq(syms)
      /\ \A k \in DOMAIN syms : \E j : FirstOf(j, syms[k].name) /\ syms[k].addr = PlaceOf(j)
  BY DEF AsmInv, SymsHold
<1>2. DOMAIN syms = 1 .. Len(syms) /\ Len(syms) \in Nat
  BY <1>1, SeqFacts
<1> PICK found : found = Assembler!Found(name)
  OBVIOUS
<1>3. \A k \in found : k \in DOMAIN syms /\ syms[k].name = name
  BY DEF Assembler!Found
<1>4. found \in SUBSET Nat
  BY <1>2, <1>3
<1>5. Assembler!Min(found) \in found
  BY <1>4, AsmLeast
<1>6. PICK j : FirstOf(j, syms[Assembler!Min(found)].name) /\ syms[Assembler!Min(found)].addr = PlaceOf(j)
  BY <1>1, <1>3, <1>5
<1>7. QED
  BY <1>3, <1>5, <1>6 DEF Assembler!AddrOf

LEMMA BranchesArrive == AsmInv => Assembler!BranchesReachLabels
<1> SUFFICES ASSUME AsmInv, phase = "ok", NEW i \in InsnLines, ToLabel(i),
                    NEW name, name = source[i].args[1].val,
                    NEW all, all = {j \in LabelLines : Assembler!Defines(j, name)}
             PROVE  /\ all # {}
                    /\ Assembler!Place(i) + 1 + image.insns[Assembler!IndexOf(i) + 1].imm
                         = Assembler!Place(Assembler!Min(all))
  BY DEF Assembler!BranchesReachLabels, InsnLines, LabelLines, ToLabel
<1>1. /\ source \in Sources /\ Len(source) \in Nat /\ line = Len(source) + 1
      /\ \A l \in InsnLines : l < line => l \in 1 .. Len(source)
      /\ \A l \in InsnLines : l < line /\ ToLabel(l) => BranchSet(l)
  BY Emitted DEF AsmInv, TextTyped
<1>2. LabelLines \in SUBSET (1 .. Len(source)) /\ InsnLines \in SUBSET (1 .. Len(source))
      /\ \A j \in LabelLines \cup InsnLines : j \in 1 .. Len(source)
  BY <1>1, TextIs
<1>3. i < line /\ i \in 1 .. Len(source) + 1
  BY <1>1, <1>2
<1>4. Assembler!Found(name) # {} /\ image.insns[Counted(i) + 1].imm = Assembler!AddrOf(name) - (PlaceOf(i) + 1)
  BY <1>1, <1>3 DEF BranchSet
<1>5. PICK j : FirstOf(j, name) /\ Assembler!AddrOf(name) = PlaceOf(j)
  BY <1>4, SymbolIs
<1>6. j \in all /\ \A l \in all : j <= l
  BY <1>5 DEF FirstOf
<1>7. all \in SUBSET Nat
  <2>1. \A l \in all : l \in Nat
    BY <1>2
  <2> QED BY <2>1
<1>8. Assembler!Min(all) = j
  BY <1>6, <1>7, AsmLeastIs
<1>9. PlaceOf(j) \in Int /\ PlaceOf(i) \in Int
  <2>1. j \in 1 .. Len(source) + 1
    BY <1>1, <1>2, <1>6
  <2>2. PlaceOf(i) \in 0 .. Len(source) /\ PlaceOf(j) \in 0 .. Len(source)
    BY <1>1, <1>3, <2>1, PlaceBounds
  <2> QED BY <2>2
<1>10. PlaceOf(i) + 1 + (PlaceOf(j) - (PlaceOf(i) + 1)) = PlaceOf(j)
  BY <1>9
<1>11. \A l : Assembler!Place(l) = PlaceOf(l) /\ Assembler!IndexOf(l) = Counted(l)
  BY IndexIs DEF Assembler!Place, PlaceOf
<1>12. QED
  BY <1>4, <1>5, <1>6, <1>8, <1>10, <1>11

LEMMA LaunchesStart == AsmInv => Assembler!LaunchStartsNamedKernel
<1> SUFFICES ASSUME AsmInv, session # Nothing
             PROVE  /\ session.from # "cut"
                    /\ session.img.insns = image.insns /\ session.img.kernels = image.kernels
                    /\ session.kernel # 0 =>
                         session.pc = Assembler!IndexOf(Assembler!Min(
                           {i \in KernelLines : source[i].name = image.kernels[session.kernel].name}))
  BY DEF Assembler!LaunchStartsNamedKernel, KernelLines
<1>1. /\ phase = "ok" /\ session.from # "cut"
      /\ session.img.insns = image.insns /\ session.img.kernels = image.kernels
      /\ session.kernel # 0 =>
         /\ session.kernel \in DOMAIN image.kernels
         /\ session.pc = image.kernels[session.kernel].entry
         /\ \A k \in DOMAIN image.kernels :
              image.kernels[k].name = image.kernels[session.kernel].name => session.kernel <= k
  BY DEF AsmInv, SessionHolds
<1>2. ASSUME session.kernel # 0, NEW name, name = image.kernels[session.kernel].name
      PROVE  session.pc = Assembler!IndexOf(Assembler!Min({i \in KernelLines : source[i].name = name}))
  <2>1. /\ source \in Sources /\ Len(source) \in Nat /\ line = Len(source) + 1
        /\ Len(image.kernels) = Rank(KernelLines, line) /\ Rank(KernelLines, line) \in Nat
        /\ \A i \in KernelLines : i < line =>
              /\ Rank(KernelLines, i) + 1 \in 1 .. Rank(KernelLines, line)
              /\ image.kernels[Rank(KernelLines, i) + 1] = Assembler!Kernel(source[i].name, Counted(i), 0)
    BY <1>1, Emitted DEF AsmInv, TextTyped
  <2>2. KernelLines \in SUBSET (1 .. Len(source)) /\ \A i \in KernelLines : i \in 1 .. Len(source) /\ i < line
    <3>1. KernelLines \in SUBSET (1 .. Len(source))
      BY <2>1, TextIs
    <3> QED BY <2>1, <3>1
  <2>3. DOMAIN image.kernels = 1 .. Rank(KernelLines, line)
    <3>1. ImageSound(image)
      BY DEF AsmInv
    <3>2. DOMAIN image.kernels = 1 .. Len(image.kernels)
      BY <3>1, SoundLengths
    <3> QED BY <2>1, <3>2
  <2> PICK k : k = session.kernel
    OBVIOUS
  <2>4. k \in 1 .. Rank(KernelLines, line)
    BY <1>1, <1>2, <2>3
  <2>5. PICK m \in KernelLines : m < line /\ Rank(KernelLines, m) = k - 1
    <3>1. k - 1 \in 0 .. Rank(KernelLines, line) - 1 /\ line \in 1 .. Len(source) + 1
      BY <2>1, <2>4
    <3> QED BY <2>1, <2>2, <3>1, RankTaken
  <2>6. image.kernels[k] = Assembler!Kernel(source[m].name, Counted(m), 0)
    <3>1. Rank(KernelLines, m) + 1 = k
      BY <2>1, <2>4, <2>5
    <3> QED BY <2>1, <2>5, <3>1
  <2>7. source[m].name = name /\ image.kernels[k].entry = Counted(m)
    BY <1>2, <2>6, KernelFields
  <2> DEFINE S == {i \in KernelLines : source[i].name = name}
  <2>8. ASSUME NEW i \in S PROVE m <= i
    <3> SUFFICES ASSUME i < m PROVE FALSE
      BY <2>2
    <3>1. i \in KernelLines /\ i < line /\ i \in Nat /\ m \in Nat
      BY <2>2
    <3>2. image.kernels[Rank(KernelLines, i) + 1] = Assembler!Kernel(source[i].name, Counted(i), 0)
          /\ Rank(KernelLines, i) + 1 \in 1 .. Rank(KernelLines, line)
      BY <2>1, <3>1
    <3>3. image.kernels[Rank(KernelLines, i) + 1].name = name
      BY <3>2, KernelFields
    <3>4. k <= Rank(KernelLines, i) + 1
      BY <1>1, <1>2, <2>3, <3>2, <3>3
    <3>5. Rank(KernelLines, i) < Rank(KernelLines, m)
      <4>1. i <= m
        BY <3>1
      <4> QED BY <2>1, <2>2, <3>1, <4>1, RankGrows
    <3>6. Rank(KernelLines, i) \in Nat
      BY <2>1, <2>2, <3>1, BeforeFinite
    <3> QED BY <2>1, <2>4, <2>5, <3>4, <3>5, <3>6
  <2>9. m \in S
    BY <2>7
  <2>10. S \in SUBSET Nat
    <3>1. \A i \in S : i \in 1 .. Len(source)
      BY <2>2
    <3> HIDE DEF S
    <3>2. \A i \in S : i \in Nat
      BY <2>1, <3>1
    <3> QED BY <3>2
  <2>11. Assembler!Min(S) = m
    <3> HIDE DEF S
    <3> QED BY <2>8, <2>9, <2>10, AsmLeastIs
  <2>12. Assembler!IndexOf(m) = Counted(m)
    BY IndexIs
  <2> QED BY <1>1, <1>2, <2>7, <2>11, <2>12
<1>3. QED
  BY <1>1, <1>2

\* In every behaviour, with any programs, limits and container layout, the branches of
\* an accepted program go as far into their kernels as the first label of the name is
\* into its own, which is that label unless another kernel is the first to define it;
\* launching a kernel by name starts it at its first instruction, from memory or from a
\* container that was packed and read back; a container cut short is not opened
\* (bradc_assemble, bradlib_launch, bvbc_pack, bvbc_unpack).
THEOREM KernelsLaunched == Spec => []LaunchRunsNamedKernel
<1>1. AsmInv => LaunchRunsNamedKernel
  BY BranchesArrive, LaunchesStart DEF LaunchRunsNamedKernel
<1>2. QED
  BY <1>1, AsmAlways, PTL

-----------------------------------------------------------------------------
(* All of them.                                                             *)

\* In every behaviour the state of the assembler, the caches and the server is of its
\* type: tables, pools, images and counters stay within their limits (bradc_assemble,
\* bvbc_add_kernel, find_line, do_POST).
THEOREM HostIsTyped == Spec => []TypeOK
<1>1. AsmInv /\ CachesInv /\ ServerInv => TypeOK
  BY AsmTypes, CachesTyped, ServerTypes DEF TypeOK
<1>2. QED
  BY <1>1, AsmAlways, CachesInvariance, ServerInvariance, PTL
==============================================================================
