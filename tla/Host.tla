-------------------------------- MODULE Host ---------------------------------
(***************************************************************************)
(* The programs that run on a host side by side: the assembler with its      *)
(* container and library, the cache emulator, and the BMS server, each with  *)
(* its own parameters. They share no state, so a behaviour exercises one of  *)
(* them, chosen at the start; the others stay as they were initialised, the  *)
(* assembler with an empty source.                                          *)
(***************************************************************************)
EXTENDS Integers, FiniteSets, Sequences

CONSTANTS
  \* Bradc, with Bvbc
  Sources, NUL, HeaderSize, EntrySize, InsnSize, MaxKernels, MaxInsns, MaxName, PoolSize,
  MaxSymbols, NumPreds, ImmHalf, NoPred, Nothing,
  \* CacheEmu
  Cores, Lines, Values, Zero, Sets, Ways, MaxAccesses,
  \* Bms
  Threads, Amounts, StartCents, Fee, ObjectIds, MaxRequests

VARIABLES
  unit,  \* which component runs in this behaviour
  source, phase, line, inKernel, kpc, syms, image, file, session,
  cache, answer,
  state, serving, begun, mixed

Assembler == INSTANCE Bradc
CacheEmulator == INSTANCE CacheEmu
Server == INSTANCE Bms

\* Limits and sizes are counts, an instruction takes up space, a source is a list of
\* lines, and the name of a kernel a text without its terminator.
ASSUME AssemblerConstants ==
  /\ {HeaderSize, EntrySize, MaxKernels, MaxInsns, PoolSize, MaxSymbols} \subseteq Nat
  /\ {InsnSize, MaxName} \subseteq Nat \ {0}
  /\ \A s \in Sources :
       /\ s \in Seq({s[i] : i \in DOMAIN s})
       /\ \A i \in DOMAIN s : s[i].kind = "kernel" =>
            s[i].name \in Seq({s[i].name[n] : n \in DOMAIN s[i].name} \ {NUL})

\* Money is counted in whole cents, and the handler threads are finitely many.
ASSUME ServerConstants ==
  /\ {StartCents, Fee, MaxRequests} \cup Amounts \subseteq Nat
  /\ IsFiniteSet(Threads)

\* A cache has a set and a way, and lines are numbered from zero.
ASSUME CacheConstants ==
  /\ {Sets, Ways} \subseteq Nat \ {0} /\ MaxAccesses \in Nat
  /\ Lines \subseteq Nat /\ Zero \in Values /\ IsFiniteSet(Cores)

assemblerVars == <<source, phase, line, inKernel, kpc, syms, image, file, session>>
cachesVars == <<cache, answer>>
serverVars == <<state, serving, begun, mixed>>
vars == <<unit, assemblerVars, cachesVars, serverVars>>

Init ==
  /\ unit \in {"assembler", "caches", "server"}
  /\ Assembler!Init /\ CacheEmulator!Init /\ Server!Init
  /\ unit = "assembler" \/ source = <<>>

Next ==
  \/ unit = "assembler" /\ Assembler!Next /\ UNCHANGED <<unit, cachesVars, serverVars>>
  \/ unit = "caches" /\ CacheEmulator!Next /\ UNCHANGED <<unit, assemblerVars, serverVars>>
  \/ unit = "server" /\ Server!Next /\ UNCHANGED <<unit, assemblerVars, cachesVars>>

Spec == Init /\ [][Next]_vars

-----------------------------------------------------------------------------
\* The state of every program is of its type (bradvector/bradc.c, emu/brad_cache_emu.c,
\* bms/reference_server.py).
TypeOK == Assembler!TypeOK /\ CacheEmulator!TypeOK /\ Server!TypeOK

\* A launch by name starts the kernel of that name, from memory or from a container, and
\* its branches go as far into it as the first label of the name they give is into the
\* kernel that defines it: to that label, unless another kernel defines it first
\* (bradc_assemble, bradlib_launch, bvbc_pack, bvbc_unpack).
LaunchRunsNamedKernel ==
  Assembler!BranchesReachLabels /\ Assembler!LaunchStartsNamedKernel

\* The emulated caches do what LineCache promises (find_line).
KeepsLastLineOfSet == CacheEmulator!KeepsLastLineOfSet

\* Requests served one at a time add up; of requests that overlap all that is said is
\* that the wallet is never less than the ledger explains (do_POST, do_GET).
RequestsAddUp == Server!RequestsAddUp
=============================================================================
