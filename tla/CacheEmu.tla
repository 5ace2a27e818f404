------------------------------ MODULE CacheEmu -------------------------------
(***************************************************************************)
(* The cache emulator (emu/brad_cache_emu.c): a hierarchy of set-associative *)
(* caches, an instruction and a data cache per core, an L2 per cluster and   *)
(* an L3, filled by misses and never connected to memory.                    *)
(*                                                                         *)
(* An address is a line number: the offset in a line selects nothing, since  *)
(* every access copies from or to the first byte of the line. A line's       *)
(* contents are one value. Counters stop at MaxAccesses, a model bound.      *)
(***************************************************************************)
EXTENDS Integers, FiniteSetsExt

CONSTANTS
  Cores,        \* the cores, each with an L1I and an L1D
  Lines,        \* the lines of memory cores access
  Values,       \* what a line may hold
  Zero,         \* the contents of a cleared line
  Sets,         \* cache->sets
  Ways,         \* cache->ways
  MaxAccesses   \* model bound: accesses counted in a behaviour

VARIABLES
  cache,   \* cache[c]: the lines, hits and misses of cache c
  answer   \* the value the last read returned, Zero at first

cacheVars == <<cache, answer>>

L1I == {"l1i"} \X Cores
L1D == {"l1d"} \X Cores
Lower == {"l2", "l3"} \X {"shared"}
Caches == L1I \cup L1D \cup Lower

\* The sets an address can select: as many as the highest power of two in Sets.
UsedSets == Max({n \in {2 ^ k : k \in 0 .. Sets} : n <= Sets})
SetOf(l) == l % UsedSets
TagOf(l) == l \div UsedSets

Slot(valid, dirty, lru, tag, data) ==
  [valid |-> valid, dirty |-> dirty, lru |-> lru, tag |-> tag, data |-> data]
Cleared == Slot(FALSE, FALSE, 0, 0, Zero)

\* brad_cache_init.
Empty ==
  [slots |-> [s \in 0 .. Sets - 1 |-> [w \in 1 .. Ways |-> Cleared]], hits |-> 0, misses |-> 0]

Matches(c, l) == {w \in 1 .. Ways : LET slot == cache[c].slots[SetOf(l)][w]
                                    IN slot.valid /\ slot.tag = TagOf(l)}

\* The victim of a miss: the first of the slots with the highest lru count.
Victim(c, l) ==
  LET lru(w) == cache[c].slots[SetOf(l)][w].lru
  IN Min({w \in 1 .. Ways : \A v \in 1 .. Ways : lru(w) >= lru(v)})

\* Faulty variant: a miss keeps the data of the line it replaces.
FoundStale(c, l, write) ==
  LET hit == Matches(c, l) # {}
      w == IF hit THEN Min(Matches(c, l)) ELSE Victim(c, l)
  IN [way |-> w,
      state |-> IF hit
                THEN [cache[c] EXCEPT !.slots[SetOf(l)][w].lru = 0, !.hits = @ + 1]
                ELSE [cache[c] EXCEPT !.misses = @ + 1, !.slots[SetOf(l)][w] =
                        Slot(TRUE, write, 0, TagOf(l), @.data)]]

\* find_line: the way that serves an access, and the cache after it. A miss clears
\* its victim, dirty or not, and takes it.
FoundLine(c, l, write) ==
  LET hit == Matches(c, l) # {}
      w == IF hit THEN Min(Matches(c, l)) ELSE Victim(c, l)
  IN [way |-> w,
      state |-> IF hit
                THEN [cache[c] EXCEPT !.slots[SetOf(l)][w].lru = 0, !.hits = @ + 1]
                ELSE [cache[c] EXCEPT !.misses = @ + 1, !.slots[SetOf(l)][w] =
                        Slot(TRUE, write, 0, TagOf(l), Zero)]]

Counted == MapThenSumSet(LAMBDA c : cache[c].hits + cache[c].misses, Caches)

Init ==
  /\ cache = [c \in Caches |-> Empty]
  /\ answer = Zero

\* brad_hierarchy_read: the first level always answers, so the others are not asked.
Read(core, kind, l) ==
  /\ Counted < MaxAccesses
  /\ LET c == <<kind, core>>
         found == FoundLine(c, l, FALSE)
     IN /\ cache' = [cache EXCEPT ![c] = found.state]
        /\ answer' = found.state.slots[SetOf(l)][found.way].data

\* brad_hierarchy_write: to the data cache only.
Write(core, l, v) ==
  /\ Counted < MaxAccesses
  /\ LET c == <<"l1d", core>>
         found == FoundLine(c, l, TRUE)
     IN cache' = [cache EXCEPT ![c] =
          [found.state EXCEPT !.slots[SetOf(l)][found.way].data = v,
                              !.slots[SetOf(l)][found.way].dirty = TRUE]]
  /\ UNCHANGED answer

\* brad_cache_flush: lines lose their valid, dirty and lru marks, and keep tag and data.
Flush(c) ==
  /\ cache' = [cache EXCEPT ![c].slots =
       [s \in DOMAIN @ |-> [w \in 1 .. Ways |->
          [@[s][w] EXCEPT !.valid = FALSE, !.dirty = FALSE, !.lru = 0]]]]
  /\ UNCHANGED answer

\* brad_cache_flush_addr: the first slot that holds the line.
FlushAddr(c, l) ==
  /\ Matches(c, l) # {}
  /\ LET w == Min(Matches(c, l))
     IN cache' = [cache EXCEPT ![c].slots[SetOf(l)][w] =
                    [@ EXCEPT !.valid = FALSE, !.dirty = FALSE]]
  /\ UNCHANGED answer

Next ==
  \/ \E core \in Cores, kind \in {"l1i", "l1d"}, l \in Lines : Read(core, kind, l)
  \/ \E core \in Cores, l \in Lines, v \in Values \ {Zero} : Write(core, l, v)
  \/ \E c \in L1I \cup L1D : Flush(c)
  \/ \E c \in L1I \cup L1D, l \in Lines : FlushAddr(c, l)

Spec == Init /\ [][Next]_cacheVars

-----------------------------------------------------------------------------
(* Correctness.                                                             *)

\* Every line, counter and answer holds a value of its type (emu/brad_cache_emu.c).
TypeOK ==
  /\ answer \in Values
  /\ \A c \in Caches :
       /\ {cache[c].hits, cache[c].misses} \subseteq 0 .. MaxAccesses
       /\ \A s \in 0 .. Sets - 1, w \in 1 .. Ways :
            cache[c].slots[s][w] \in [valid : BOOLEAN, dirty : BOOLEAN, lru : {0},
                                      tag : Nat, data : Values]

NoLine == [line |-> -1, val |-> Zero]

\* What set s of cache c remembers, whatever its ways.
Remembered(c, s) ==
  LET live == {w \in 1 .. Ways : cache[c].slots[s][w].valid}
      slot(w) == cache[c].slots[s][w]
  IN IF live = {} THEN NoLine ELSE
       [line |-> slot(Min(live)).tag * UsedSets + s, val |-> slot(Min(live)).data]

Promise == INSTANCE LineCache WITH
  Caches <- L1I \cup L1D, SetIds <- 0 .. UsedSets - 1, Absent <- NoLine,
  held <- [c \in L1I \cup L1D |-> [s \in 0 .. UsedSets - 1 |-> Remembered(c, s)]]

\* Whatever its associativity, a cache of the emulator keeps one line per set, the
\* last one touched, and returns what was last written to it: find_line never
\* raises an lru count, so it always replaces the first way, and a dirty line it
\* replaces is lost.
KeepsLastLineOfSet == Promise!Spec
=============================================================================
