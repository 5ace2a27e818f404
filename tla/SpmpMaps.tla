------------------------------ MODULE SpmpMaps -------------------------------
(***************************************************************************)
(* The unified address map of SPMP (drivers/spmp.c): ranges of addresses     *)
(* that spmp_map enters in a table, spmp_unmap deactivates and spmp_prefetch *)
(* looks up. It shares no state with the allocator of module Spmp.          *)
(*                                                                         *)
(* mapper.maps is the used part of spmp_state.maps; its length is num_maps.  *)
(* A slot is never used twice. Addresses are words below Wrap.              *)
(***************************************************************************)
EXTENDS Integers, SequencesExt

CONSTANTS
  MapRanges,  \* the <<addr, size>> that callers map, unmap and prefetch
  MaxMaps,    \* SPMP_MAX_MAPS
  Wrap,       \* 2^64: one more than the highest address
  MaxCount    \* model bound: what a prefetch counter reaches

VARIABLE mapper

mapperVars == mapper

Fresh(ready) ==
  [ready |-> ready, maps |-> <<>>, mapped |-> 0, unmapped |-> 0, hits |-> 0, misses |-> 0]

Init == mapper = Fresh(FALSE)

\* spmp_init.
Start == mapper' = Fresh(TRUE)

\* The end of a range as the code computes it: 0 for one that ends at the top.
EndOf(addr, size) == (addr + size) % Wrap

\* Faulty variant: only a range that starts inside the mapping meets it.
MeetsStart(m, addr, size) == m.active /\ m.addr <= addr /\ addr < EndOf(m.addr, m.size)
Meets(m, addr, size) ==
  m.active /\ addr < EndOf(m.addr, m.size) /\ m.addr < EndOf(addr, size)

\* map_find: the first active mapping that meets the range, or 0.
Find(addr, size) == SelectInSeq(mapper.maps, LAMBDA m : Meets(m, addr, size))

Map(addr, size) ==
  /\ mapper.ready /\ Find(addr, size) = 0 /\ Len(mapper.maps) < MaxMaps
  /\ mapper' = [mapper EXCEPT
       !.maps = Append(@, [addr |-> addr, size |-> size, node |-> Len(@), active |-> TRUE]),
       !.mapped = @ + 1]

\* spmp_unmap takes any range that meets the mapping.
Unmap(addr, size) ==
  /\ mapper.ready /\ Find(addr, size) # 0
  /\ mapper' = [mapper EXCEPT !.maps[Find(addr, size)].active = FALSE, !.unmapped = @ + 1]

Count(n) == IF n < MaxCount THEN n + 1 ELSE n

Prefetch(addr, size) ==
  /\ mapper.ready
  /\ mapper' = IF Find(addr, size) # 0 THEN [mapper EXCEPT !.hits = Count(@)]
               ELSE [mapper EXCEPT !.misses = Count(@)]

Next ==
  \/ Start
  \/ \E r \in MapRanges : Map(r[1], r[2]) \/ Unmap(r[1], r[2]) \/ Prefetch(r[1], r[2])

Spec == Init /\ [][Next]_mapperVars

-----------------------------------------------------------------------------
(* Correctness.                                                             *)

\* The table and the counters are of their types (drivers/spmp.c).
TypeOK ==
  /\ Len(mapper.maps) <= MaxMaps /\ mapper.mapped = Len(mapper.maps)
  /\ \A i \in DOMAIN mapper.maps : mapper.maps[i].node = i - 1
  /\ {mapper.hits, mapper.misses} \subseteq 0 .. MaxCount

Active == {i \in DOMAIN mapper.maps : mapper.maps[i].active}
AtTop(m) == m.addr + m.size = Wrap

\* However ranges that only overlap were mapped and unmapped before: a mapping is
\* undone by an unmap of its own range and that unmap touches no other mapping, no
\* active mappings overlap, and all that were made are active or unmapped. The one
\* exception is a range that ends at the top of the address space: its end is zero,
\* so it meets nothing (spmp_map, spmp_unmap).
UnmapUndoesMap ==
  /\ \A i \in Active : LET m == mapper.maps[i] IN
       /\ Find(m.addr, m.size) = IF AtTop(m) THEN 0 ELSE i
       /\ \A j \in Active \ {i} : LET n == mapper.maps[j] IN
            ~AtTop(m) /\ ~AtTop(n) => m.addr + m.size <= n.addr \/ n.addr + n.size <= m.addr
  /\ mapper.mapped - mapper.unmapped = Cardinality(Active)
=============================================================================
