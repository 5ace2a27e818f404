----------------------------- MODULE CoreDriver -----------------------------
(***************************************************************************)
(* The BradCore driver (drivers/bradcore.c): clusters of Phoenix and Falcon  *)
(* cores laid out from a table of SKUs, per-core calls, and reconfiguration  *)
(* of clusters.                                                             *)
(*                                                                         *)
(* soc is the static struct bc_state. A row of its core array has RowCells   *)
(* cores, yet every call lets a cluster index twice as many: the upper half  *)
(* of a cluster's indices are the cells of the next row, so cells are        *)
(* numbered through the whole array. W816, whose last cluster runs past the  *)
(* end of the array, is left out of the SKUs that are booted.                *)
(***************************************************************************)
EXTENDS Integers, Sequences, FiniteSetsExt

CONSTANTS
  BootSkus,     \* the SKUs that brad_soc_init is called for
  CoreIds,      \* the <<cluster, core>> pairs the per-core calls name
  Freqs,        \* the frequencies asked for
  Volts,        \* the voltages asked for
  ClusterSizes  \* the <<phoenix, falcon>> counts clusters are configured to

VARIABLE soc

RowCells == 4       \* BRAD_CORE_PHX_PER_CLUSTER and BRAD_CORE_FAL_PER_CLUSTER
MaxClusters == 4    \* BRAD_CORE_MAX_CLUSTERS

Sku(p, f, platform, fmax, ffalcon, code) ==
  [phoenix |-> p, falcon |-> f, platform |-> platform, fmax |-> fmax, ffalcon |-> ffalcon,
   code |-> code]

\* sku_configs and sku_namings.
SkuTable ==
  [P1E4 |-> Sku(1, 4, 0, 2400, 1800, 141), P2E4 |-> Sku(2, 4, 1, 2800, 1900, 242),
   P4E4 |-> Sku(4, 4, 2, 3200, 2000, 443), P6E4 |-> Sku(6, 4, 3, 3600, 2000, 644),
   P4E8 |-> Sku(4, 8, 4, 3800, 2200, 485), P8E4 |-> Sku(8, 4, 5, 4000, 2200, 846),
   P8E8 |-> Sku(8, 8, 6, 4200, 2400, 887), G60 |-> Sku(6, 0, 6, 5000, 0, 960),
   G80 |-> Sku(8, 0, 6, 5200, 0, 980), W88 |-> Sku(8, 8, 6, 4000, 2600, 188),
   W816 |-> Sku(8, 16, 6, 3800, 2600, 816)]

Clusters == 0 .. MaxClusters - 1
Cells == 0 .. RowCells * MaxClusters - 1
Cell(c, i) == RowCells * c + i

Core(type, freq, volt, p, init, run) ==
  [type |-> type, freq |-> freq, volt |-> volt, p |-> p, init |-> init, run |-> run]
Blank == Core("phoenix", 0, 0, "turbo", FALSE, FALSE)
Cluster(np, nf, l2, ways, init) == [np |-> np, nf |-> nf, l2 |-> l2, ways |-> ways, init |-> init]
NoCluster == Cluster(0, 0, 0, 0, FALSE)

AtMostRow(n) == IF n > RowCells THEN RowCells ELSE n
\* Faulty variant: every cluster is dealt from the full counts.
ShareOfAll(total, c) == AtMostRow(total)
\* How many of total cores of a type cluster c gets, after the clusters before it.
Share(total, c) == IF total > RowCells * c THEN AtMostRow(total - RowCells * c) ELSE 0

Active(sku) ==
  {c \in Clusters : Share(SkuTable[sku].phoenix, c) + Share(SkuTable[sku].falcon, c) > 0}

\* The cells brad_soc_init writes for cluster c, in its order: Phoenix cores, Falcon
\* cores, then the rest of its eight indices, marked uninitialised.
Written(cells, sku, c) ==
  LET cfg == SkuTable[sku]
      np == Share(cfg.phoenix, c)
      nf == Share(cfg.falcon, c)
      At(k) == k - RowCells * c
  IN [k \in Cells |->
        CASE At(k) \in 0 .. np - 1 -> Core("phoenix", cfg.fmax, 950, "balanced", TRUE, FALSE)
          [] At(k) \in np .. np + nf - 1 ->
               Core("falcon", cfg.ffalcon, 700, "efficient", TRUE, FALSE)
          [] At(k) \in np + nf .. 2 * RowCells - 1 -> [cells[k] EXCEPT !.init = FALSE]
          [] OTHER -> cells[k]]

\* The cells after the first n clusters are written.
Laid(sku) ==
  LET after[n \in 0 .. MaxClusters] ==
        IF n = 0 THEN [k \in Cells |-> Blank]
        ELSE IF n - 1 \in Active(sku) THEN Written(after[n - 1], sku, n - 1) ELSE after[n - 1]
  IN after[MaxClusters]

\* moved is history: a cluster was configured to other counts since the boot.
Booted(sku) ==
  [ready |-> TRUE, sku |-> sku, cells |-> Laid(sku), moved |-> FALSE,
   clusters |-> [c \in Clusters |->
     IF c \in Active(sku)
     THEN Cluster(Share(SkuTable[sku].phoenix, c), Share(SkuTable[sku].falcon, c), 512, 255, TRUE)
     ELSE NoCluster]]

Init ==
  soc = [ready |-> FALSE, sku |-> "P1E4", cells |-> [k \in Cells |-> Blank], moved |-> FALSE,
         clusters |-> [c \in Clusters |-> NoCluster]]

\* brad_soc_init leaves the same state behind whatever was there before.
AfterBoot == [sku \in DOMAIN SkuTable |-> Booted(sku)]
Boot(sku) == soc' = AfterBoot[sku]

Addressed(c) == soc.ready /\ c \in Active(soc.sku)

\* brad_core_init: Falcon cores come after however many Phoenix cores there are now.
CoreInit(type, c, i) ==
  /\ Addressed(c)
  /\ i < (IF type = "phoenix" THEN soc.clusters[c].np ELSE soc.clusters[c].nf)
  /\ LET k == Cell(c, IF type = "falcon" THEN i + soc.clusters[c].np ELSE i)
     IN soc' = [soc EXCEPT !.cells[k] = [@ EXCEPT !.init = TRUE, !.run = FALSE,
                  !.p = IF type = "phoenix" THEN "balanced" ELSE "efficient"]]

\* Faulty variant: a core that was never initialised is started.
StartableAlways(k) == TRUE
Startable(k) == soc.cells[k].init

\* brad_core_start and brad_core_halt.
SetRunning(c, i, run) ==
  /\ Addressed(c) /\ Startable(Cell(c, i))
  /\ soc' = [soc EXCEPT !.cells[Cell(c, i)].run = run]

SetFreq(c, i, mhz) ==
  /\ Addressed(c) /\ mhz \in 100 .. 5000
  /\ soc' = [soc EXCEPT !.cells[Cell(c, i)].freq = mhz]

SetVolt(c, i, mv) ==
  /\ Addressed(c) /\ mv \in 500 .. 1500
  /\ soc' = [soc EXCEPT !.cells[Cell(c, i)].volt = mv]

SetPower(c, i, p) == Addressed(c) /\ soc' = [soc EXCEPT !.cells[Cell(c, i)].p = p]

\* brad_cluster_init, brad_cluster_set_l2_way, brad_cluster_configure: no core moves.
ClusterInit(c) ==
  /\ soc.ready
  /\ soc' = [soc EXCEPT !.clusters[c].init = TRUE, !.clusters[c].ways = 255]
SetL2Way(c, ways) == Addressed(c) /\ soc' = [soc EXCEPT !.clusters[c].ways = ways]
Configure(c, np, nf, l2) ==
  /\ soc.ready /\ np <= RowCells /\ nf <= RowCells
  /\ soc' = [soc EXCEPT !.clusters[c] = Cluster(np, nf, l2, @.ways, TRUE), !.moved = TRUE]

\* brad_core_query_info: the cores the active clusters count.
Total(state, sku) ==
  [phoenix |-> MapThenSumSet(LAMBDA c : state.clusters[c].np, Active(sku)),
   falcon |-> MapThenSumSet(LAMBDA c : state.clusters[c].nf, Active(sku))]

\* brad_core_query_freq_table: what the first entries of the table are.
FreqTable(sku) ==
  LET f == SkuTable[sku].fmax
      all == <<f, (f * 85 + 50) \div 100, (f * 70 + 50) \div 100, (f * 50 + 50) \div 100>>
  IN IF SkuTable[sku].falcon > 0 THEN all \o <<SkuTable[sku].ffalcon>> ELSE all

\* brad_core_decode_sku of a three-digit code.
Decodes(code) ==
  LET f == (code \div 10) % 10
  IN code \in 100 .. 899 /\ f \in 4 .. 8 /\ (code % 10) \in 1 .. 7
Decoded(code) ==
  [phoenix |-> code \div 100, falcon |-> (code \div 10) % 10, platform |-> (code % 10) - 1]

Next ==
  \/ \E sku \in BootSkus : Boot(sku)
  \/ \E id \in CoreIds :
       \/ \E type \in {"phoenix", "falcon"} : CoreInit(type, id[1], id[2])
       \/ \E run \in BOOLEAN : SetRunning(id[1], id[2], run)
       \/ \E mhz \in Freqs : SetFreq(id[1], id[2], mhz)
       \/ \E mv \in Volts : SetVolt(id[1], id[2], mv)
       \/ SetPower(id[1], id[2], "off")
  \/ \E c \in {id[1] : id \in CoreIds} :
       \/ ClusterInit(c) \/ SetL2Way(c, 15)
       \/ \E size \in ClusterSizes : Configure(c, size[1], size[2], 1024)

Spec == Init /\ [][Next]_soc

-----------------------------------------------------------------------------
(* Correctness.                                                             *)

\* Every field of bc_state is in its range (drivers/bradcore.c).
TypeOK ==
  /\ \A k \in Cells : soc.cells[k].freq \in 0 .. 5200 /\ soc.cells[k].volt \in 0 .. 1500
  /\ \A c \in Clusters : {soc.clusters[c].np, soc.clusters[c].nf} \subseteq 0 .. RowCells

\* The cells whose cores brad_soc_init gave an operating point.
Dealt ==
  {k \in Cells : \E c \in Active(soc.sku) :
     k - RowCells * c \in 0 .. Share(SkuTable[soc.sku].phoenix, c)
                                 + Share(SkuTable[soc.sku].falcon, c) - 1}

\* Every core that runs is an initialised one with a frequency of 100 to 5200 MHz and
\* a voltage of 500 to 1500 mV, although the upper cores of a cluster are the cores
\* of the next one (brad_core_start, bradcore.c). Once a cluster has been configured to
\* other counts, brad_core_init also initialises cores that brad_soc_init gave no
\* operating point: from then on the frequency and voltage are claimed for the cores of
\* the SKU alone.
RunningCoresHaveOperatingPoint ==
  \A k \in Cells : soc.cells[k].run =>
    /\ soc.cells[k].init
    /\ ~soc.moved \/ k \in Dealt => soc.cells[k].freq >= 100 /\ soc.cells[k].volt >= 500

\* brad_soc_init deals out exactly the cores of the SKU to its clusters, for every
\* SKU; a code in the naming table that decodes gives the counts and platform of the
\* SKU that carries it, and no entry of a frequency table is out of range.
SkuTablesAgree ==
  \A sku \in DOMAIN SkuTable :
    LET cfg == SkuTable[sku]
    IN /\ Total(Booted(sku), sku) = [phoenix |-> cfg.phoenix, falcon |-> cfg.falcon]
       /\ Decodes(cfg.code) => Decoded(cfg.code) =
            [phoenix |-> cfg.phoenix, falcon |-> cfg.falcon, platform |-> cfg.platform]
       /\ \A i \in DOMAIN FreqTable(sku) : FreqTable(sku)[i] \in 100 .. 5200
=============================================================================
