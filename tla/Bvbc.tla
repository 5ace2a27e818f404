-------------------------------- MODULE Bvbc --------------------------------
(***************************************************************************)
(* The bytecode container (bradvector/bvbc.c): the image an assembler fills, *)
(* the regions bvbc_pack lays it out in, and the image bvbc_unpack finds.    *)
(*                                                                         *)
(* A name is a sequence of characters and the pool holds names with their    *)
(* terminators, so an offset into it means what it means in a file. Words    *)
(* and instructions are whole values: their byte order is left out. Images   *)
(* carry no constant data, as bradc_assemble leaves them.                    *)
(***************************************************************************)
EXTENDS Integers, FiniteSetsExt, SequencesExt

CONSTANTS
  NUL,         \* the terminator of a name
  HeaderSize,  \* BVBC_HEADER_SIZE
  EntrySize,   \* size of a kernel table entry
  InsnSize,    \* BV_INSN_SIZE
  MaxKernels,  \* BVBC_MAX_KERNELS
  MaxInsns,    \* BVBC_MAX_INSN
  MaxName,     \* BVBC_MAX_NAME
  PoolSize     \* size of the string pool

NoImage == [kernels |-> <<>>, pool |-> <<>>, insns |-> <<>>]
Kernel(name, entry, nargs) == [name |-> name, entry |-> entry, nargs |-> nargs]

\* bvbc_add_kernel succeeds.
CanAddKernel(img, name) ==
  /\ Len(img.kernels) < MaxKernels
  /\ Len(name) \in 1 .. MaxName - 1
  /\ Len(img.pool) + Len(name) + 1 <= PoolSize

AddKernel(img, name, entry, nargs) ==
  [img EXCEPT !.kernels = Append(@, Kernel(name, entry, nargs)),
              !.pool = @ \o name \o <<NUL>>]

\* Faulty variant: one instruction too many.
CanAddInsnAndOne(img) == Len(img.insns) <= MaxInsns
CanAddInsn(img) == Len(img.insns) < MaxInsns
AddInsn(img, insn) == [img EXCEPT !.insns = Append(@, insn)]

\* bvbc_find_kernel: 0 when no kernel has the name.
FindKernel(img, name) ==
  LET found == {i \in DOMAIN img.kernels : img.kernels[i].name = name}
  IN IF found = {} THEN 0 ELSE Min(found)

\* The bytes some names take in a pool.
NameBytes(names) == FoldLeft(LAMBDA n, name : n + Len(name) + 1, 0, names)

\* kernel_name_off: where the name of kernel k starts in the const region.
NameOff(img, k) == NameBytes([i \in 1 .. k - 1 |-> img.kernels[i].name])

\* bvbc_serialize_size of the image a container was packed from.
ContainerSize(c) ==
  HeaderSize + EntrySize * c.nkern + c.nconst + InsnSize * c.ninsn

\* bvbc_pack.
Pack(img) ==
  [nkern |-> Len(img.kernels), nconst |-> Len(img.pool), ninsn |-> Len(img.insns),
   table |-> [k \in DOMAIN img.kernels |->
     [name_off |-> NameOff(img, k), entry_off |-> img.kernels[k].entry * InsnSize,
      nargs |-> img.kernels[k].nargs]],
   region |-> img.pool, insns |-> img.insns]

\* The name that starts at an offset of the const region: up to a terminator,
\* the end of the region, or the longest name.
NameAt(c, off) ==
  LET ends == {n \in 0 .. MaxName - 1 :
                 \/ n = MaxName - 1
                 \/ off + n >= c.nconst
                 \/ c.region[off + n + 1] = NUL}
  IN SubSeq(c.region, off + 1, off + Min(ends))

\* bvbc_unpack accepts the first len bytes of a container.
Readable(c, len) ==
  /\ len >= HeaderSize
  /\ c.nkern <= MaxKernels /\ c.ninsn <= MaxInsns
  /\ len >= ContainerSize(c)
  /\ \A k \in 1 .. c.nkern : /\ c.table[k].name_off < c.nconst
                             /\ c.table[k].entry_off % InsnSize = 0
  /\ NameBytes([k \in 1 .. c.nkern |-> NameAt(c, c.table[k].name_off)]) <= c.nconst

\* bvbc_unpack: the pool of an image that was read is empty.
Unpack(c) ==
  [kernels |-> [k \in 1 .. c.nkern |->
     Kernel(NameAt(c, c.table[k].name_off), c.table[k].entry_off \div InsnSize,
            c.table[k].nargs)],
   pool |-> <<>>, insns |-> c.insns]
=============================================================================
