------------------------------- MODULE Atlas --------------------------------
(***************************************************************************)
(* The HyperCore Atlas driver (drivers/hypercore_atlas.c): MVRAM handed out  *)
(* by moving a pointer, GPU contexts that are charged for it, power and wake *)
(* bookkeeping, the TIFA listener and the tether.                           *)
(*                                                                         *)
(* atlas is the static struct hc_state. handles are the struct               *)
(* hc_mvram_alloc that callers got since hc_init and have not freed.        *)
(* Addresses and byte counts are words below Wrap; call counters stop at     *)
(* MaxCount, a model bound.                                                 *)
(***************************************************************************)
EXTENDS Integers, FiniteSetsExt

CONSTANTS
  MvramBytes,   \* MvramBytes[t]: the MVRAM of tier t, in hc_sku_configs
  MvramBase,    \* the base address given to hc_init
  MaxContexts,  \* HC_MAX_CONTEXTS
  AllocSizes,   \* the sizes asked for
  Wrap,         \* 2^64: one more than the highest address
  MaxCount      \* model bound: what a call counter reaches

VARIABLES atlas, handles

atlasVars == <<atlas, handles>>

Contexts == 0 .. MaxContexts - 1
Context(active, frozen, used) == [active |-> active, frozen |-> frozen, used |-> used]
NoContext == Context(FALSE, FALSE, 0)
Untethered == [tethered |-> FALSE, mbps |-> 0, latency |-> 0]

Fresh(tier, ready) ==
  [ready |-> ready, tier |-> tier, base |-> MvramBase, next |-> MvramBase, total |-> 0,
   contexts |-> [c \in Contexts |-> NoContext], num |-> 0, pstate |-> "balanced",
   switches |-> 0, gates |-> 0, wakes |-> 0, listener |-> FALSE, link |-> Untethered]

Init == /\ \E tier \in DOMAIN MvramBytes : atlas = Fresh(tier, FALSE)
        /\ handles = {}

\* hc_init: everything handed out before is forgotten.
Start(tier) == atlas' = Fresh(tier, TRUE) /\ handles' = {}

Count(n) == IF n < MaxCount THEN n + 1 ELSE n

\* Faulty variant: the pointer stays where it is.
NextAfterNothing(size) == atlas.next
NextAfter(size) == (atlas.next + size) % Wrap

\* hc_mvram_alloc: a context is charged if it is active and is not context 0.
Alloc(size, c) ==
  /\ atlas.ready /\ size > 0
  /\ (atlas.next + size) % Wrap <= atlas.base + MvramBytes[atlas.tier]
  /\ atlas' = [atlas EXCEPT !.next = NextAfter(size), !.total = (@ + size) % Wrap,
       !.contexts[c].used = IF c > 0 /\ atlas.contexts[c].active THEN (@ + size) % Wrap ELSE @]
  /\ handles' = handles \cup {[addr |-> atlas.next, size |-> size, context |-> c]}

\* hc_mvram_free clears the caller's struct and gives nothing back.
Free(h) == atlas.ready /\ handles' = handles \ {h} /\ UNCHANGED atlas

Inactive == {c \in Contexts : ~atlas.contexts[c].active}

Opened == Context(TRUE, FALSE, 0)

\* hc_auc_create_context takes the first inactive one.
CreateContext ==
  /\ atlas.ready /\ Inactive # {}
  /\ atlas' = [atlas EXCEPT !.contexts[Min(Inactive)] = Opened, !.num = @ + 1]
  /\ UNCHANGED handles

DestroyContext(c) ==
  /\ atlas.ready /\ atlas.contexts[c].active
  /\ atlas' = [atlas EXCEPT !.contexts[c] = NoContext, !.num = @ - 1]
  /\ UNCHANGED handles

\* hc_auc_freeze_context for one context, hc_auc_freeze_all for all active ones.
Freeze(C) ==
  /\ atlas.ready
  /\ atlas' = [atlas EXCEPT !.contexts = [c \in Contexts |->
                 IF c \in C THEN [@[c] EXCEPT !.frozen = TRUE] ELSE @[c]]]
  /\ UNCHANGED handles

SwitchContext(c) ==
  /\ atlas.ready /\ atlas.contexts[c].active
  /\ atlas' = [atlas EXCEPT !.switches = Count(@)]
  /\ UNCHANGED handles

SetPower(p) == atlas.ready /\ atlas' = [atlas EXCEPT !.pstate = p] /\ UNCHANGED handles
PowerGate == atlas.ready /\ atlas' = [atlas EXCEPT !.gates = Count(@)] /\ UNCHANGED handles
\* hc_sentinel_configure forgets the wake events counted so far.
ConfigureSentinel == atlas.ready /\ atlas' = [atlas EXCEPT !.wakes = 0] /\ UNCHANGED handles
SetListener == atlas.ready /\ atlas' = [atlas EXCEPT !.listener = TRUE] /\ UNCHANGED handles

\* hc_tifa_infer_async calls the listener before it returns.
Infer ==
  /\ atlas.ready
  /\ atlas' = [atlas EXCEPT !.wakes = IF atlas.listener THEN Count(@) ELSE @]
  /\ UNCHANGED handles

Tether(on) ==
  /\ atlas.ready
  /\ atlas' = [atlas EXCEPT !.link =
       IF on THEN [tethered |-> TRUE, mbps |-> 60000, latency |-> 100] ELSE Untethered]
  /\ UNCHANGED handles

\* hc_query_stats counts the active contexts itself.
ActiveContexts == Contexts \ Inactive

Next ==
  \/ \E tier \in DOMAIN MvramBytes : Start(tier)
  \/ \E size \in AllocSizes, c \in Contexts : Alloc(size, c)
  \/ \E h \in handles : Free(h)
  \/ CreateContext
  \/ \E c \in Contexts : DestroyContext(c) \/ SwitchContext(c)
  \/ \E c \in ActiveContexts : Freeze({c})
  \/ Freeze(ActiveContexts)
  \/ SetPower("turbo") \/ PowerGate \/ ConfigureSentinel \/ SetListener \/ Infer
  \/ \E on \in BOOLEAN : Tether(on)

Spec == Init /\ [][Next]_atlasVars

-----------------------------------------------------------------------------
(* Correctness.                                                             *)

\* The fields of hc_state stay in their ranges (drivers/hypercore_atlas.c).
TypeOK ==
  /\ atlas.next \in 0 .. Wrap - 1 /\ atlas.total \in 0 .. Wrap - 1
  /\ atlas.num = Cardinality(ActiveContexts)
  /\ {atlas.switches, atlas.gates, atlas.wakes} \subseteq 0 .. MaxCount

\* Allocations that callers hold never overlap and lie in the MVRAM of the tier,
\* and the contexts together are charged no more than was handed out since the
\* driver was initialised, through frees that give nothing back, contexts that are
\* destroyed with their allocations still held and contexts created in their place
\* (hc_mvram_alloc, hc_auc_create_context).
AtlasAccounts ==
  /\ \A h \in handles :
       /\ atlas.base <= h.addr /\ h.addr + h.size <= atlas.next
       /\ \A k \in handles \ {h} : h.addr + h.size <= k.addr \/ k.addr + k.size <= h.addr
  /\ atlas.next <= atlas.base + MvramBytes[atlas.tier]
  /\ MapThenSumSet(LAMBDA c : atlas.contexts[c].used, Contexts) <= atlas.next - atlas.base
=============================================================================
