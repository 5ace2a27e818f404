------------------------------ MODULE MCBvComm -------------------------------
(***************************************************************************)
(* Worlds of one to four ranks, with five-word buffers and inboxes of up to   *)
(* two words. A word is the expression that computed it, in prefix notation: *)
(* 0 is the addition and a positive number names one input of one rank, so   *)
(* that sums with other terms, or added in another order, are not equal.      *)
(***************************************************************************)
EXTENDS BvComm, SequencesExt

MCInput(k, i) == <<10 * (k + 1) + i>>
MCPlus(a, b) == <<0>> \o a \o b
MCZero == <<1>>

Term(x, t) == Cardinality({i \in DOMAIN x : x[i] = t})
Terms(f) == UNION {Range(f[k]) : k \in DOMAIN f} \ {0}

\* x adds up the expressions f[k], each once.
MCIsSum(x, f) ==
  /\ Range(x) \ {0} = Terms(f)
  /\ \A t \in Terms(f) :
       Term(x, t) = SumFunction([k \in DOMAIN f |-> Term(f[k], t)])

(* What BvCommProofs asks of sums (SumLaws) holds of these expressions: a word  *)
(* adds up itself, and adding the word of one more rank to a sum gives a sum.  *)
ASSUME MCSumLaws ==
  LET words == {MCZero, MCInput(0, 1), MCPlus(MCZero, MCInput(1, 0))}
      sums == words \cup {MCPlus(a, b) : a, b \in words} IN
  \A f \in [0 .. 2 -> words], k \in 0 .. 2 :
    /\ IsSum(f[k], [q \in {k} |-> f[q]])
    /\ \A S \in SUBSET (0 .. 2 \ {k}), x \in sums :
         IsSum(x, [q \in S |-> f[q]]) => IsSum(Plus(f[k], x), [q \in S \cup {k} |-> f[q]])

MCSizes == {[ranks |-> k, buf |-> 5, scratch |-> sc] : k \in 0 .. 5, sc \in 0 .. 2}

MCCalls ==
  {[op |-> "allreduce", off |-> o, count |-> c] : o \in 0 .. 1, c \in {0, 1, 3, 4, 5}} \cup
  {[op |-> "broadcast", off |-> o, count |-> 2, root |-> k] : o \in {1, 4}, k \in -1 .. 2} \cup
  {[op |-> "allgather", off |-> o, count |-> c, out |-> p] :
     o \in 0 .. 2, c \in 1 .. 2, p \in 0 .. 1}
=============================================================================
