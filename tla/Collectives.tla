----------------------------- MODULE Collectives -----------------------------
(***************************************************************************)
(* What BVComm promises (bvlibs/include/bvcomm.h): each collective that      *)
(* returns 0 takes the user buffers of all ranks, in one step, to what its   *)
(* name says, and leaves the words outside its result region alone.          *)
(***************************************************************************)
EXTENDS Integers

CONSTANTS
  Calls,         \* the collectives that may be called
  Zero,          \* a word of a fresh buffer
  Input(_, _),   \* Input(r, i): what the host puts in word i of rank r
  IsSum(_, _)    \* IsSum(x, f): x is a sum of the f[r], in some order

VARIABLES
  user,     \* user[r]: the user buffer of rank r
  served    \* collectives that have returned 0

Ranks == DOMAIN user
Words(r) == DOMAIN user[r]

Init == user = <<>> /\ served = 0

\* bvcomm_init, bvcomm_destroy, and the host writing through bvcomm_buf.
Host ==
  /\ \/ user' = <<>>
     \/ user' = [r \in DOMAIN user' |-> [i \in DOMAIN user'[r] |-> Zero]]
     \/ user' = [r \in Ranks |-> [i \in Words(r) |-> Input(r, i)]]
  /\ UNCHANGED served

\* Word i of every rank becomes what the predicate says, if it is in the region.
Becomes(region, result(_, _)) ==
  /\ DOMAIN user' = Ranks
  /\ \A r \in Ranks :
       /\ DOMAIN user'[r] = Words(r)
       /\ \A i \in Words(r) :
            IF i \in region THEN result(i, user'[r][i]) ELSE user'[r][i] = user[r][i]

\* The sum is the same in every rank, to the last bit.
AllReduce(c) ==
  LET region == c.off .. c.off + c.count - 1 IN
  /\ region \subseteq Words(0)
  /\ Becomes(region, LAMBDA i, x : /\ IsSum(x, [r \in Ranks |-> user[r][i]])
                                   /\ \A r \in Ranks : user'[r][i] = x)

Broadcast(c) ==
  LET region == c.off .. c.off + c.count - 1 IN
  /\ c.root \in Ranks /\ region \subseteq Words(0)
  /\ Becomes(region, LAMBDA i, x : x = user[c.root][i])

\* Rank r's inputs are placed at out + r * count.
AllGather(c) ==
  LET region == {c.out + r * c.count + j : r \in Ranks, j \in 0 .. c.count - 1} IN
  /\ region \cup (c.off .. c.off + c.count - 1) \subseteq Words(0)
  /\ Becomes(region, LAMBDA i, x :
       x = user[(i - c.out) \div c.count][c.off + ((i - c.out) % c.count)])

Serve(c) ==
  /\ Ranks # {}
  /\ \/ c.op = "allreduce" /\ AllReduce(c)
     \/ c.op = "broadcast" /\ Broadcast(c)
     \/ c.op = "allgather" /\ AllGather(c)
  /\ served' = served + 1

Next == Host \/ \E c \in Calls : Serve(c)

Spec == Init /\ [][Next]_<<user, served>>
=============================================================================
