------------------------------- MODULE MCSpmp -------------------------------
(***************************************************************************)
(* A small instance of the allocator. Bytes are scaled: an alignment unit   *)
(* of 2 and a smallest block of 4 stand for SPMP_BLOCK_ALIGN 16 and          *)
(* SPMP_MIN_BLOCK 64, and a pool of 21 bytes leaves an odd tail no request   *)
(* can use. A table of 5 or 6 slots fills as the table of 512 does: one      *)
(* request needs an alignment above the unit, so a call may split a block in *)
(* three and run out of slots between the two holes.                         *)
(***************************************************************************)
EXTENDS Spmp

CONSTANTS c1, c2, c3

MCClients == {c1, c2, c3}
MCPoolConfigs == {[size |-> 21, encrypt |-> TRUE]}
MCRequests == {<<1, 1>>, <<5, 1>>, <<4, 8>>}
MCSymmetry == Permutations(MCClients)
=============================================================================
