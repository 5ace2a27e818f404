------------------------------ MODULE MCHost --------------------------------
(***************************************************************************)
(* Small instances of the programs that run on a host.                      *)
(*                                                                         *)
(* The sources are all programs of two kernels whose bodies have at most two *)
(* of the lines below, so labels repeat, lie before and after the branches   *)
(* to them and out of their reach (an 8-bit immediate is scaled to -2 .. 1), *)
(* and all texts of at most five lines, most of which are refused. Three     *)
(* lines of memory share the two sets a cache of three sets uses, two ways   *)
(* each; two threads serve at most four requests at once or in turn.         *)
(***************************************************************************)
EXTENDS Host, SequencesExt

CONSTANTS a, b

Kernel(name) == [kind |-> "kernel", name |-> <<name>>]
End == [kind |-> "end"]
Label(name) == [kind |-> "label", name |-> name]
Insn(op, pred, args) == [kind |-> "insn", op |-> op, pred |-> pred, args |-> args]
Name(name) == <<[cls |-> "name", val |-> name]>>
Scalars(m, n) == <<[cls |-> "S", val |-> m], [cls |-> "S", val |-> n]>>

BodyLines ==
  {Label(a), Label(b), Insn("BR", NoPred, Name(a)), Insn("BR_COND", 1, Name(b)),
   Insn("MOV", NoPred, Scalars(1, 2))}
AnyLines ==
  {Kernel("k"), End, Label(a), Insn("CALL", NoPred, Name(a)),
   Insn("ADDi", 2, Scalars(1, 2) \o <<[cls |-> "num", val |-> 3]>>)}

MCSources ==
  BoundedSeq(AnyLines, 5) \cup
  {<<Kernel("k")>> \o first \o <<End, Kernel("g")>> \o second \o <<End>> :
     first \in BoundedSeq(BodyLines, 2), second \in BoundedSeq(BodyLines, 2)}

MCCores == {0}
MCLines == {0, 1, 2}
MCValues == {0, 1}

MCThreads == {"t1", "t2"}
MCAmounts == {2}
MCObjectIds == {"o1"}
=============================================================================
