----------------------------- MODULE MCPlatform -----------------------------
(***************************************************************************)
(* Small instances of the SoC drivers, each just large enough for the cases  *)
(* its properties are about: a ring that wraps and fills, a word that wraps, *)
(* a table whose slots run out, a counter that carries.                      *)
(*                                                                         *)
(* The queue is a ring of 3 bytes that messages of 1 and 2 bytes go round at *)
(* every phase, through 2 channels, and there are 4 ranges of 4 addresses,   *)
(* one of which lies inside another, one ends at the top of the address      *)
(* space and one has its limit first.                                       *)
(***************************************************************************)
EXTENDS Platform

CONSTANTS ch1, ch2, byte1, byte2, c1, direct

MCChannels == {ch1, ch2}
MCByteValues == {byte1, byte2, Unwritten}
MCRanges == {<<0, 1>>, <<1, 1>>, <<3, 3>>, <<3, 0>>}
MCMessages == {<<byte1>>, <<byte2, byte1>>}
MCWants == {1, 3}

MCWorkloadNames == {"ai", "render"}
MCStored == [ai |-> "ai", render |-> "rend"]
MCLoads == {0, 2}
MCLoadUnits == {"cpu"}
MCProfiles == {"gaming"}
\* With UIntWrap = 512: shares above 100, one negative as int, one that overflows under load.
MCBudgets == {[cpu |-> 250, gpu |-> 300, npu |-> 150, mem |-> 20]}
MCCaps == {0, 13}
MCFans == {"aggressive"}

MCMvramBytes == <<4>>
MCAtlasSizes == {2, 3}

MCBootSkus == {"P1E4", "P6E4"}
\* The cell of <<0, 5>> is that of <<1, 1>>, and of <<0, 1>> as a Falcon core after 4 others.
MCCoreIds == {<<0, 1>>, <<0, 5>>, <<1, 1>>}
\* One of each is refused; the other is what a Phoenix core of a P6E4 boots with.
MCFreqs == {99, 3600}
MCVolts == {499, 950}
MCClusterSizes == {<<4, 4>>}

MCMapRanges == {<<1, 2>>, <<2, 2>>, <<1, 1>>, <<3, 5>>}

MCClients == {c1, direct}
MCPoolConfigs == {[size |-> 16, encrypt |-> FALSE]}
MCRequests == {<<1, 1>>, <<5, 1>>}
MCLbas == {0, 15}
MCSectorCounts == {1, 3}

MCRegisters == {"gpio_dir", "timer_ctrl", "cru_clk_div"}
\* The two dividers lie side by side: bits 0 to 7 and 8 to 15.
MCDomains == [gpio_dir |-> {0}, timer_ctrl |-> {0}, cru_clk_div |-> {0, 2}]

MCFrequencies == {0, 1}
MCDelays == {1, 2}

\* The SKU, naming and frequency tables agree (drivers/bradcore.c).
ASSUME SkuTables == Cores!SkuTablesAgree
=============================================================================
