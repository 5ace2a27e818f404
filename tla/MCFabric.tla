------------------------------ MODULE MCFabric ------------------------------
(***************************************************************************)
(* Three threads on a channel from a node to itself. LoopNode has six words *)
(* and is bound to the first five. DiscCalls obeys the sharing discipline:  *)
(* word 0 is shared by an add and an exchange, one thread has word 1 for    *)
(* its cas, and words 2 to 5 belong to the transfers, whose regions overlap *)
(* upwards and downwards. One transfer reads word 5, behind the binding,    *)
(* one writes it, and one that starts there is not copied. In SharedCas,    *)
(* on one word, a thread adds to the word two others compare and swap.      *)
(***************************************************************************)
EXTENDS Fabric, TLC

CONSTANTS t1, t2, t3

MCThreads == {t1, t2, t3}
LoopNode == [start |-> 0, window |-> 6, bound |-> 5]
OneWord == [start |-> 0, window |-> 1, bound |-> 1]

Dma(src, dst, len) ==
  [op |-> "dma", src |-> src, dst |-> dst, len |-> len,
   bound |-> fabric_translate(SrcNode, src) /\ fabric_translate(DstNode, dst)]
Atomic(op, at, val) == [op |-> op, at |-> at, val |-> val]
Cas(at, expected, val) == [op |-> "cas", at |-> at, val |-> val, expected |-> expected]

\* Distinct contents, so that a word moved to the wrong place shows.
MCContents == [w \in Words |-> IF w \in 3 .. 5 THEN w - 2 ELSE 0]

DiscCalls ==
  t1 :> {Dma(4, 3, 2), Dma(3, 4, 2), Atomic("add", 0, 1)} @@
  t2 :> {Dma(3, 2, 2), Dma(5, 2, 1), Atomic("exch", 0, 2)} @@
  t3 :> {Cas(1, 0, 3), Cas(1, 1, 2)}

ASSUME DiscCallsDisciplined == Disciplined(DiscCalls)

\* Adds of one against a cas that expects a value the word never has.
SharedCas ==
  t1 :> {Atomic("add", 0, 1)} @@ t2 :> {Cas(0, 3, 2)} @@ t3 :> {Cas(0, 3, 1)}

(* test_fabric.c:78 "Mismatched CAS leaves the value alone and reports 1.":   *)
(* when no call is in progress and every cas has reported a mismatch, the     *)
(* word holds the number of additions of one that were made to it.            *)
MismatchedCasLeavesValue ==
  (\A t \in Threads : pc[t] = "idle" /\ prev[t] # 3) => mem[0] = made[t1]
=============================================================================
