--------------------------- MODULE PlatformProofs ---------------------------
(* What the drivers of the platform and the fabric's queue promise, for     *)
(* every value of the constants.  A section per component: its inductive     *)
(* invariant, one lemma per call, and the theorems.  The components share no *)
(* state, so a step of one leaves the invariants of the others alone         *)
(* (OthersStay).                                                            *)
EXTENDS Platform, Sums

-----------------------------------------------------------------------------
(* Remainders.                                                              *)

\* A remainder differs from the number by a multiple ...
LEMMA ModSplit ==
  ASSUME NEW a \in Int, NEW n \in Nat \ {0}
  PROVE  \E m \in 0 .. n - 1, q \in Int : m = a % n /\ m \in Int /\ m = a + q * n
<1>1. a % n \in 0 .. n - 1 /\ a \div n \in Int
  OBVIOUS
<1>2. a = n * (a \div n) + (a % n)
  OBVIOUS
<1> PICK m \in 0 .. n - 1, d \in Int : m = a % n /\ a = n * d + m
  BY <1>1, <1>2
<1>3. -d \in Int /\ m \in Int /\ m = a + (-d) * n
  OBVIOUS
<1>4. QED
  BY <1>3

\* A number that is a multiple plus a small one has that one as its remainder.
LEMMA ModUnique ==
  ASSUME NEW a \in Int, NEW n \in Nat \ {0}, NEW q \in Int, NEW r \in 0 .. n - 1, a = q * n + r
  PROVE  a % n = r
  OBVIOUS

\* ... and numbers that differ by a multiple have the same remainder.
LEMMA ModEqual ==
  ASSUME NEW a \in Int, NEW b \in Int, NEW n \in Nat \ {0}, NEW q \in Int, a = b + q * n
  PROVE  a % n = b % n
<1>1. PICK m \in 0 .. n - 1, p \in Int : m = b % n /\ m \in Int /\ m = b + p * n
  BY ModSplit
<1>2. PICK d \in Int : a = d * n + m
  <2>1. q - p \in Int /\ a = (q - p) * n + m
    BY <1>1
  <2> QED BY <2>1
<1>3. a % n = m
  BY <1>2, ModUnique
<1>4. QED
  BY <1>1, <1>3

\* What is below the word is its own remainder; the word itself has none.
LEMMA ModSmall ==
  ASSUME NEW n \in Nat \ {0}, NEW a \in 0 .. n - 1 PROVE a % n = a /\ n % n = 0
<1>1. a = 0 * n + a /\ n = 1 * n + 0
  OBVIOUS
<1>2. QED
  BY <1>1, ModUnique

-----------------------------------------------------------------------------
(* The ring.                                                                *)

Index == 0 .. Capacity - 1

\* The places of the ring that used bytes from head take end before tail.
Spans(head, tail, used) == (tail - head - used) % Capacity = 0

\* The ring has places.
LEMMA CapacityPositive == Capacity \in Nat \ {0}
  BY FabricQueueConstants

\* Tail is past the bytes waiting, a number of times round the ring.
LEMMA SpansMultiple ==
  ASSUME NEW head \in Int, NEW tail \in Int, NEW used \in Int
  PROVE  Spans(head, tail, used) <=> \E q \in Int : tail = head + used + q * Capacity
<1>1. PICK e \in Int : e = tail - head - used
  OBVIOUS
<1>2. PICK m \in 0 .. Capacity - 1, p \in Int : m = e % Capacity /\ m \in Int /\ m = e + p * Capacity
  BY CapacityPositive, ModSplit
<1>3. ASSUME m = 0 PROVE \E q \in Int : tail = head + used + q * Capacity
  <2>1. -p \in Int /\ tail = head + used + (-p) * Capacity
    BY <1>1, <1>2, <1>3, CapacityPositive
  <2> QED BY <2>1
<1>4. ASSUME NEW q \in Int, tail = head + used + q * Capacity PROVE e % Capacity = 0
  <2>1. e = q * Capacity + 0 /\ 0 \in 0 .. Capacity - 1
    BY <1>1, <1>4, CapacityPositive
  <2> QED BY <2>1, CapacityPositive, ModUnique
<1>5. QED
  BY <1>1, <1>2, <1>3, <1>4 DEF Spans

\* Seen from the tail, the bytes waiting come last and those to be written first.
LEMMA PlaceFromTail ==
  ASSUME NEW head \in Index, NEW tail \in Index, NEW used \in Nat, Spans(head, tail, used),
         used < Capacity, NEW k \in 1 .. Capacity
  PROVE  \E place \in Index :
           /\ place = (head + k - 1) % Capacity
           /\ (place - tail) % Capacity =
                IF k <= used THEN k - 1 - used + Capacity ELSE k - 1 - used
<1>1. PICK q \in Int : tail = head + used + q * Capacity
  BY SpansMultiple DEF Index
<1>2. PICK place \in 0 .. Capacity - 1, p \in Int :
        /\ place = (head + k - 1) % Capacity /\ place \in Int
        /\ place = (head + k - 1) + (p * Capacity)
  <2>1. head + k - 1 \in Int
    BY DEF Index
  <2> QED BY <2>1, CapacityPositive, ModSplit
<1>3. CASE k <= used
  <2>1. place - tail = (p - q - 1) * Capacity + (k - 1 - used + Capacity)
    BY <1>1, <1>2, CapacityPositive DEF Index
  <2>2. p - q - 1 \in Int /\ place - tail \in Int /\ k - 1 - used + Capacity \in 0 .. Capacity - 1
    BY <1>2, <1>3, CapacityPositive DEF Index
  <2>3. (place - tail) % Capacity = k - 1 - used + Capacity
    BY <2>1, <2>2, CapacityPositive, ModUnique
  <2> QED BY <1>2, <1>3, <2>3 DEF Index
<1>4. CASE ~(k <= used)
  <2>1. place - tail = (p - q) * Capacity + (k - 1 - used)
    BY <1>1, <1>2, CapacityPositive DEF Index
  <2>2. p - q \in Int /\ place - tail \in Int /\ k - 1 - used \in 0 .. Capacity - 1
    BY <1>2, <1>4, CapacityPositive DEF Index
  <2>3. (place - tail) % Capacity = k - 1 - used
    BY <2>1, <2>2, CapacityPositive, ModUnique
  <2> QED BY <1>2, <1>4, <2>3 DEF Index
<1>5. QED
  BY <1>3, <1>4

\* From head on, the ring holds these bytes.
Holding(data, head, bytes) ==
  \A k \in 1 .. Len(bytes) : data[(head + k - 1) % Capacity] = bytes[k]

\* fabric_send writes behind the bytes that wait, and they stay as they are.
LEMMA RingWrittenHolds ==
  ASSUME NEW data \in [Index -> ByteValues], NEW head \in Index, NEW tail \in Index,
         NEW bytes \in Seq(ByteValues), NEW message \in Seq(ByteValues), message # << >>,
         Len(bytes) + Len(message) <= Capacity,
         Spans(head, tail, Len(bytes)), Holding(data, head, bytes)
  PROVE  /\ Written(data, tail, message) \in [Index -> ByteValues]
         /\ Holding(Written(data, tail, message), head, bytes \o message)
         /\ (tail + Len(message)) % Capacity \in Index
         /\ Spans(head, (tail + Len(message)) % Capacity, Len(bytes) + Len(message))
<1>1. PICK u \in Nat, n \in Nat \ {0} : u = Len(bytes) /\ n = Len(message) /\ u + n <= Capacity
  OBVIOUS
<1>2. Written(data, tail, message) \in [Index -> ByteValues]
  <2>1. ASSUME NEW i \in Index, (i - tail) % Capacity < Len(message)
        PROVE  message[((i - tail) % Capacity) + 1] \in ByteValues
    <3>1. i - tail \in Int
      BY DEF Index
    <3>2. PICK m \in Nat : m = (i - tail) % Capacity
      BY <3>1, CapacityPositive, ModSplit
    <3> QED BY <2>1, <3>2
  <2> QED BY <2>1 DEF Written, Index
<1>3. ASSUME NEW k \in 1 .. u + n
      PROVE  Written(data, tail, message)[(head + k - 1) % Capacity] = (bytes \o message)[k]
  <2>1. u < Capacity /\ k \in 1 .. Capacity /\ Spans(head, tail, u)
    BY <1>1, CapacityPositive
  <2>2. PICK place \in Index :
          /\ place = (head + k - 1) % Capacity
          /\ (place - tail) % Capacity = IF k <= u THEN k - 1 - u + Capacity ELSE k - 1 - u
    BY <2>1, PlaceFromTail
  <2>3. Written(data, tail, message)[place] =
          LET j == (place - tail) % Capacity
          IN  IF j < n THEN message[j + 1] ELSE data[place]
    BY <1>1 DEF Written, Index
  <2>4. CASE k <= u
    <3>1. Written(data, tail, message)[place] = data[place]
      BY <1>1, <2>2, <2>3, <2>4, CapacityPositive
    <3>2. data[place] = bytes[k]
      BY <1>1, <2>2, <2>4 DEF Holding
    <3> QED BY <1>1, <2>2, <2>4, <3>1, <3>2
  <2>5. CASE ~(k <= u)
    <3>1. Written(data, tail, message)[place] = message[k - u]
      <4>1. k - 1 - u < n /\ k - 1 - u + 1 = k - u
        BY <1>1, <2>5
      <4> QED BY <2>2, <2>3, <2>5, <4>1
    <3> QED BY <1>1, <2>2, <2>5, <3>1
  <2> QED BY <2>4, <2>5
<1>4. Holding(Written(data, tail, message), head, bytes \o message)
  BY <1>1, <1>3 DEF Holding
<1>5. PICK q \in Int : tail = head + u + q * Capacity
  BY <1>1, SpansMultiple DEF Index
<1>6. PICK m \in 0 .. Capacity - 1, p \in Int :
        m = (tail + n) % Capacity /\ m \in Int /\ m = tail + n + p * Capacity
  <2>1. tail + n \in Int
    BY <1>1 DEF Index
  <2> QED BY <2>1, CapacityPositive, ModSplit
<1>7. Spans(head, m, u + n)
  <2>1. q + p \in Int /\ m = head + (u + n) + (q + p) * Capacity
    BY <1>1, <1>5, <1>6, CapacityPositive DEF Index
  <2>2. head \in Int /\ u + n \in Int
    BY <1>1 DEF Index
  <2> QED BY <1>6, <2>1, <2>2, SpansMultiple
<1>8. QED
  BY <1>1, <1>2, <1>4, <1>6, <1>7 DEF Index

\* Taking n of the u bytes that wait leaves the others, in their order.
Taken(data, head, tail, bytes, u, n) ==
  \E next \in Index, rest \in Seq(ByteValues), left \in Nat :
    /\ next = (head + n) % Capacity /\ rest = SubSeq(bytes, n + 1, u)
    /\ left = u - n /\ Len(rest) = left
    /\ Holding(data, next, rest) /\ Spans(next, tail, left)

\* fabric_recv takes bytes from the front.
LEMMA TakenHolds ==
  ASSUME NEW data, NEW head \in Index, NEW tail \in Index,
         NEW bytes \in Seq(ByteValues), NEW u \in Nat, u = Len(bytes),
         Spans(head, tail, u), Holding(data, head, bytes), NEW n \in 0 .. u
  PROVE  Taken(data, head, tail, bytes, u, n)
<1>1. n <= u /\ n \in Nat
  OBVIOUS
<1>2. PICK rest : rest = SubSeq(bytes, n + 1, u)
  OBVIOUS
<1>3. rest \in Seq(ByteValues) /\ Len(rest) = u - n /\ \A k \in 1 .. u - n : rest[k] = bytes[n + k]
  <2>1. rest \in Seq(ByteValues) /\ Len(rest) = u - n
    BY <1>1, <1>2
  <2>2. ASSUME NEW k \in 1 .. u - n PROVE rest[k] = bytes[n + k]
    BY <1>1, <1>2
  <2> QED BY <2>1, <2>2
<1>4. PICK m \in 0 .. Capacity - 1, p \in Int :
        m = (head + n) % Capacity /\ m \in Int /\ m = head + n + p * Capacity
  <2>1. head + n \in Int
    BY <1>1 DEF Index
  <2> QED BY <2>1, CapacityPositive, ModSplit
<1>5. ASSUME NEW k \in 1 .. u - n
      PROVE  data[(m + k - 1) % Capacity] = rest[k]
  <2>1. n + k \in 1 .. Len(bytes)
    BY <1>1
  <2>2. PICK a \in Int, b \in Int : a = m + k - 1 /\ b = head + (n + k) - 1
    BY <1>1, <1>4 DEF Index
  <2>3. a = b + p * Capacity
    BY <1>1, <1>4, <2>2, CapacityPositive DEF Index
  <2>4. a % Capacity = b % Capacity
    BY <2>3, CapacityPositive, ModEqual
  <2>5. data[(head + (n + k) - 1) % Capacity] = bytes[n + k]
    BY <2>1 DEF Holding
  <2> QED BY <1>3, <2>2, <2>4, <2>5
<1>6. PICK q \in Int : tail = head + u + q * Capacity
  BY <1>1, SpansMultiple DEF Index
<1>7. Spans(m, tail, u - n)
  <2>1. PICK r \in Int : r = q - p
    OBVIOUS
  <2>2. PICK x \in Int, y \in Int :
          x = q * Capacity /\ y = p * Capacity /\ r * Capacity = x - y
    BY <2>1, CapacityPositive
  <2>3. tail = m + (u - n) + r * Capacity
    <3>1. m = head + n + y /\ tail = head + u + x /\ head \in Int /\ tail \in Int
      BY <1>4, <1>6, <2>2, CapacityPositive DEF Index
    <3>2. tail = m + (u - n) + (x - y)
      BY <1>1, <1>4, <3>1
    <3> QED BY <2>2, <3>2
  <2>4. m \in Int /\ tail \in Int /\ u - n \in Int
    BY <1>1, <1>4 DEF Index
  <2> QED BY <2>3, <2>4, SpansMultiple
<1>8. u - n \in Nat /\ m \in Index /\ Holding(data, m, rest)
  BY <1>1, <1>3, <1>5 DEF Holding, Index
<1>9. QED
  BY <1>2, <1>3, <1>4, <1>7, <1>8 DEF Taken

-----------------------------------------------------------------------------
(* The inductive invariant.                                                 *)

NodeType == [base : 0 .. Wrap - 1, limit : 0 .. Wrap - 1, mem : Nat, held : Seq(ByteValues)]
FabType ==
  [ready : BOOLEAN, nodes : Seq(NodeType), head : Index, tail : Index, used : 0 .. Capacity,
   data : [Index -> ByteValues]]
ChanType == [dst : Nat, mtu : {0, Mtu}]

\* What was sent to a node is within its memory, and that within its addresses, if they
\* are in order.
NodeSound(n) ==
  Len(n.held) <= n.mem /\ (n.base <= n.limit => n.mem <= n.limit - n.base + 1)

\* Nodes that overlap do so because the end of one of them is at the top.
Apart(m, n) == m.base <= n.limit /\ n.base <= m.limit => TopNode(m) \/ TopNode(n)

NodesHold(nodes) ==
  /\ Len(nodes) <= MaxNodes
  /\ \A i \in DOMAIN nodes : NodeSound(nodes[i])
  /\ \A i, j \in DOMAIN nodes : i < j => Apart(nodes[i], nodes[j])

RingHolds(f, bytes) ==
  /\ Len(bytes) = f.used
  /\ Spans(f.head, f.tail, f.used)
  /\ Holding(f.data, f.head, bytes)

TypesInv == fab \in FabType /\ chans \in [Channels -> ChanType] /\ sent \in Seq(ByteValues)

Inv == TypesInv /\ NodesHold(fab.nodes) /\ RingHolds(fab, sent)

-----------------------------------------------------------------------------
(* Nodes.                                                                   *)

\* The sizes the driver is built with.
LEMMA Sizes ==
  /\ MaxNodes \in Nat \ {0} /\ Capacity \in Nat \ {0} /\ Mtu \in Nat \ {0} /\ Wrap \in Nat \ {0}
  /\ Mtu <= Capacity
  BY FabricQueueConstants

\* limit + 1 is zero for a node that ends at the top, and past its addresses otherwise.
LEMMA PastLimitBounds ==
  ASSUME NEW n \in NodeType
  PROVE  PastLimit(n) = IF TopNode(n) THEN 0 ELSE n.limit + 1
<1>1. PICK l \in 0 .. Wrap - 1 : l = n.limit
  BY DEF NodeType
<1>2. CASE l = Wrap - 1
  BY <1>1, <1>2, Sizes, ModSmall DEF PastLimit, TopNode
<1>3. CASE l # Wrap - 1
  <2>1. l + 1 \in 0 .. Wrap - 1
    BY <1>3, Sizes
  <2>2. (l + 1) % Wrap = l + 1
    BY <2>1, Sizes, ModSmall
  <2> QED BY <1>1, <1>3, <2>2 DEF PastLimit, TopNode
<1>4. QED
  BY <1>2, <1>3

\* What fabric_register_node lets through is apart, for the word the end wraps in.
LEMMA ApartUnlessOverlaps ==
  ASSUME NEW m \in NodeType, NEW n \in NodeType, ~Overlaps(m, n)
  PROVE  Apart(m, n) /\ Apart(n, m)
<1>1. CASE TopNode(m) \/ TopNode(n)
  BY <1>1 DEF Apart
<1>2. CASE ~TopNode(m) /\ ~TopNode(n)
  <2>1. PastLimit(m) = m.limit + 1 /\ PastLimit(n) = n.limit + 1
    BY <1>2, PastLimitBounds
  <2>2. {m.base, m.limit, n.base, n.limit} \subseteq Int
    BY DEF NodeType
  <2> QED BY <2>1, <2>2 DEF Overlaps, Apart
<1>3. QED
  BY <1>1, <1>2

\* fabric_register_node adds a node behind the others.
LEMMA NodeRegistered ==
  ASSUME NEW nodes \in Seq(NodeType), NodesHold(nodes), Len(nodes) < MaxNodes,
         NEW n \in NodeType, NodeSound(n), \A i \in DOMAIN nodes : ~Overlaps(n, nodes[i])
  PROVE  Append(nodes, n) \in Seq(NodeType) /\ NodesHold(Append(nodes, n))
<1>1. PICK next : next = Append(nodes, n)
  OBVIOUS
<1>2. PICK s \in Nat : s = Len(nodes) /\ DOMAIN nodes = 1 .. s
  OBVIOUS
<1>3. /\ next \in Seq(NodeType) /\ Len(next) = s + 1 /\ DOMAIN next = 1 .. s + 1
      /\ next[s + 1] = n /\ \A i \in 1 .. s : next[i] = nodes[i]
  BY <1>1, <1>2
<1>4. \A i \in 1 .. s : nodes[i] \in NodeType
  BY <1>2
<1>5. \A i \in DOMAIN next : NodeSound(next[i])
  BY <1>2, <1>3 DEF NodesHold
<1>6. ASSUME NEW i \in 1 .. s + 1, NEW j \in 1 .. s + 1, i < j
      PROVE  Apart(next[i], next[j])
  <2>1. CASE j \in 1 .. s
    BY <1>2, <1>3, <1>6, <2>1 DEF NodesHold
  <2>2. CASE j = s + 1
    <3>1. i \in 1 .. s
      BY <1>2, <1>6, <2>2
    <3>2. Apart(nodes[i], n)
      BY <1>2, <1>4, <3>1, ApartUnlessOverlaps
    <3> QED BY <1>3, <2>2, <3>1, <3>2
  <2> QED BY <1>2, <2>1, <2>2
<1>7. Len(next) <= MaxNodes
  BY <1>2, <1>3, Sizes
<1>8. QED
  BY <1>1, <1>3, <1>5, <1>6, <1>7 DEF NodesHold

\* Nodes whose ranges stay and whose memory is sound still hold.
LEMMA NodesRewritten ==
  ASSUME NEW nodes, NEW next, NodesHold(nodes), Len(next) = Len(nodes),
         DOMAIN next = DOMAIN nodes,
         \A i \in DOMAIN nodes :
           /\ next[i].base = nodes[i].base /\ next[i].limit = nodes[i].limit
           /\ NodeSound(next[i])
  PROVE  NodesHold(next)
<1>1. ASSUME NEW i \in DOMAIN next, NEW j \in DOMAIN next, i < j
      PROVE  Apart(next[i], next[j])
  BY <1>1 DEF NodesHold, Apart, TopNode
<1>2. QED
  BY <1>1 DEF NodesHold

\* fabric_bind_memory leaves memory within the addresses: the word the count wraps in
\* only makes it smaller.
LEMMA NodeBound ==
  ASSUME NEW n \in NodeType, NEW len \in Nat,
         len <= (n.limit - n.base + 1) % Wrap
  PROVE  NodeSound([n EXCEPT !.mem = len, !.held = << >>])
<1>1. ASSUME n.base <= n.limit PROVE len <= n.limit - n.base + 1
  <2>1. PICK size \in Nat : size = n.limit - n.base + 1 /\ size <= Wrap
    BY <1>1, Sizes DEF NodeType
  <2>2. size % Wrap <= size /\ size % Wrap \in Int
    <3>1. CASE size = Wrap
      BY <3>1, <2>1, Sizes, ModSmall
    <3>2. CASE size # Wrap
      <4>1. size \in 0 .. Wrap - 1
        BY <2>1, <3>2, Sizes
      <4> QED BY <4>1, Sizes, ModSmall
    <3> QED BY <3>1, <3>2
  <2> QED BY <2>1, <2>2
<1>2. QED
  BY <1>1 DEF NodeSound, NodeType

\* A send that stores at its destination stays within the memory there.
LEMMA DeliveredSound ==
  ASSUME NEW n \in NodeType, NodeSound(n), NEW message \in Seq(ByteValues)
  PROVE  /\ Delivered(n, message) \in NodeType /\ NodeSound(Delivered(n, message))
         /\ Delivered(n, message).base = n.base /\ Delivered(n, message).limit = n.limit
<1>1. CASE Delivered(n, message) = n
  BY <1>1
<1>2. CASE n.mem >= Len(message) /\ Delivered(n, message) = [n EXCEPT !.held = message]
  BY <1>2 DEF NodeType, NodeSound
<1>3. QED
  BY <1>1, <1>2 DEF Delivered

-----------------------------------------------------------------------------
(* Every step keeps the invariant.                                          *)

\* A fabric nobody used yet.
LEMMA FabricStartsSound ==
  ASSUME NEW ready \in BOOLEAN
  PROVE  /\ Fresh(ready) \in FabType /\ << >> \in Seq(ByteValues)
         /\ NodesHold(Fresh(ready).nodes) /\ RingHolds(Fresh(ready), << >>)
<1>1. Fresh(ready).data \in [Index -> ByteValues]
  BY FabricQueueConstants DEF Fresh, Index
<1>2. 0 \in Index /\ 0 \in 0 .. Capacity
  BY Sizes DEF Index
<1>3. Fresh(ready) \in FabType
  BY <1>1, <1>2 DEF Fresh, FabType
<1>4. NodesHold(<< >>)
  BY Sizes DEF NodesHold
<1>5. Spans(0, 0, 0)
  <2>1. 0 = 0 + 0 + 0 * Capacity
    BY Sizes
  <2> QED BY <2>1, SpansMultiple
<1>6. Holding(Fresh(ready).data, 0, << >>)
  BY DEF Holding
<1>7. QED
  BY <1>3, <1>4, <1>5, <1>6 DEF Fresh, RingHolds

\* fabric_init.
LEMMA QueueStartHolds == ASSUME Inv, Start PROVE Inv'
<1>1. fab' = Fresh(TRUE) /\ sent' = << >> /\ chans' = chans
  BY DEF Start
<1>2. QED
  BY <1>1, FabricStartsSound DEF Inv, TypesInv

\* fabric_register_node.
LEMMA RegisterHolds ==
  ASSUME Inv, NEW r \in Ranges, Register(r) PROVE Inv'
<1>1. PICK n : n = Node(r, 0)
  OBVIOUS
<1>2. n \in NodeType /\ NodeSound(n)
  <2>1. r[1] \in 0 .. Wrap - 1 /\ r[2] \in 0 .. Wrap - 1
    BY FabricQueueConstants
  <2>2. r[1] <= r[2] => 0 <= r[2] - r[1] + 1
    BY <2>1, Sizes
  <2>3. n = [base |-> r[1], limit |-> r[2], mem |-> 0, held |-> << >>]
    BY <1>1 DEF Node
  <2> QED BY <2>1, <2>2, <2>3 DEF NodeType, NodeSound
<1>3. fab.nodes \in Seq(NodeType) /\ NodesHold(fab.nodes) /\ Len(fab.nodes) < MaxNodes
  BY DEF Inv, TypesInv, FabType, Register
<1>4. \A i \in DOMAIN fab.nodes : ~Overlaps(n, fab.nodes[i])
  BY <1>1 DEF Register
<1>5. PICK nodes \in Seq(NodeType) : nodes = Append(fab.nodes, n) /\ NodesHold(nodes)
  BY <1>2, <1>3, <1>4, NodeRegistered
<1>6. fab' = [fab EXCEPT !.nodes = nodes] /\ chans' = chans /\ sent' = sent
  BY <1>1, <1>5 DEF Register
<1>7. QED
  BY <1>5, <1>6 DEF Inv, TypesInv, FabType, RingHolds

\* fabric_bind_memory.
LEMMA BindHolds ==
  ASSUME Inv, NEW i \in DOMAIN fab.nodes, NEW len \in 1 .. Wrap - 1, Bind(i, len) PROVE Inv'
<1>1. PICK nodes : nodes = fab.nodes /\ nodes \in Seq(NodeType) /\ NodesHold(nodes)
  BY DEF Inv, TypesInv, FabType
<1>2. PICK n : n = [nodes[i] EXCEPT !.mem = len, !.held = << >>]
  OBVIOUS
<1>3. nodes[i] \in NodeType /\ len \in Nat
  BY <1>1, Sizes
<1>4. n \in NodeType /\ n.base = nodes[i].base /\ n.limit = nodes[i].limit
  <2>1. PICK m \in NodeType : m = nodes[i]
    BY <1>3
  <2>2. n = [base |-> m.base, limit |-> m.limit, mem |-> len, held |-> << >>]
    BY <1>2, <2>1 DEF NodeType
  <2> QED BY <1>3, <2>1, <2>2 DEF NodeType
<1>5. NodeSound(n)
  <2>1. len <= (nodes[i].limit - nodes[i].base + 1) % Wrap
    BY <1>1 DEF Bind
  <2> QED BY <1>2, <1>3, <2>1, NodeBound
<1>6. PICK next : next = [nodes EXCEPT ![i] = n]
  OBVIOUS
<1>7. next \in Seq(NodeType) /\ Len(next) = Len(nodes) /\ DOMAIN next = DOMAIN nodes
  BY <1>1, <1>4, <1>6
<1>8. NodesHold(next)
  <2>1. ASSUME NEW j \in DOMAIN nodes
        PROVE  /\ next[j].base = nodes[j].base /\ next[j].limit = nodes[j].limit
               /\ NodeSound(next[j])
    BY <1>1, <1>4, <1>5, <1>6 DEF NodesHold
  <2> QED BY <1>1, <1>7, <2>1, NodesRewritten
<1>9. fab' = [fab EXCEPT !.nodes = next] /\ chans' = chans /\ sent' = sent
  BY <1>1, <1>2, <1>6, <1>3 DEF Bind, Inv, TypesInv, FabType, NodeType
<1>10. QED
  BY <1>7, <1>8, <1>9 DEF Inv, TypesInv, FabType, RingHolds

\* fabric_channel_open.
LEMMA OpenHolds ==
  ASSUME Inv, NEW c \in Channels, NEW i \in DOMAIN fab.nodes, Open(c, i) PROVE Inv'
<1>1. i \in Nat
  BY DEF Inv, TypesInv, FabType
<1>2. [dst |-> i, mtu |-> Mtu] \in ChanType
  BY <1>1 DEF ChanType
<1>3. QED
  BY <1>2 DEF Inv, TypesInv, Open

\* fabric_channel_close.
LEMMA CloseHolds ==
  ASSUME Inv, NEW c \in Channels, Close(c) PROVE Inv'
<1>1. Closed \in ChanType
  BY DEF Closed, ChanType
<1>2. QED
  BY <1>1 DEF Inv, TypesInv, Close

\* fabric_send.
LEMMA SendHolds ==
  ASSUME Inv, NEW c \in Channels, NEW message \in Messages, Send(c, message) PROVE Inv'
<1>1. message \in Seq(ByteValues) /\ message # << >> /\ sent \in Seq(ByteValues)
  BY FabricQueueConstants DEF Send, Inv, TypesInv
<1>2. PICK u \in Nat, n \in Nat :
        u = fab.used /\ u = Len(sent) /\ n = Len(message) /\ u <= Capacity
  BY <1>1, Sizes DEF Inv, TypesInv, FabType, RingHolds
<1>3. u + n <= Capacity
  <2>1. n <= Mtu
    <3>1. chans[c].mtu \in {0, Mtu} /\ n <= chans[c].mtu
      BY <1>2 DEF Send, Inv, TypesInv, ChanType
    <3> QED BY <3>1, <1>2, Sizes
  <2> QED BY <1>2, <2>1, Sizes DEF Send, Fits
<1>4. PICK data, tail :
        data = Written(fab.data, fab.tail, message) /\ tail = (fab.tail + n) % Capacity
  OBVIOUS
<1>5. /\ data \in [Index -> ByteValues] /\ tail \in Index
      /\ Holding(data, fab.head, sent \o message) /\ Spans(fab.head, tail, u + n)
  <2>1. fab.data \in [Index -> ByteValues] /\ fab.head \in Index /\ fab.tail \in Index
    BY DEF Inv, TypesInv, FabType
  <2>2. Len(sent) + Len(message) <= Capacity
    BY <1>2, <1>3
  <2>3. Spans(fab.head, fab.tail, Len(sent)) /\ Holding(fab.data, fab.head, sent)
    BY DEF Inv, RingHolds
  <2> QED BY <1>1, <1>2, <1>4, <2>1, <2>2, <2>3, RingWrittenHolds
<1>6. PICK nodes : nodes = fab.nodes /\ nodes \in Seq(NodeType) /\ NodesHold(nodes)
  BY DEF Inv, TypesInv, FabType
<1>7. PICK next :
        next = [i \in DOMAIN nodes |->
                  IF i = chans[c].dst THEN Delivered(nodes[i], message) ELSE nodes[i]]
  OBVIOUS
<1>8. ASSUME NEW i \in DOMAIN nodes
      PROVE  /\ next[i] \in NodeType /\ NodeSound(next[i])
             /\ next[i].base = nodes[i].base /\ next[i].limit = nodes[i].limit
  <2>1. nodes[i] \in NodeType /\ NodeSound(nodes[i])
    BY <1>6 DEF NodesHold
  <2>2. next[i] = Delivered(nodes[i], message) \/ next[i] = nodes[i]
    BY <1>7
  <2> QED BY <1>1, <2>1, <2>2, DeliveredSound
<1>9. next \in Seq(NodeType) /\ Len(next) = Len(nodes) /\ DOMAIN next = DOMAIN nodes
  <2>1. DOMAIN next = 1 .. Len(nodes) /\ Len(nodes) \in Nat /\ DOMAIN next = DOMAIN nodes
    BY <1>6, <1>7
  <2>2. \A i \in 1 .. Len(nodes) : next[i] \in NodeType
    BY <1>8, <2>1
  <2>3. next = [i \in 1 .. Len(nodes) |-> next[i]]
    BY <1>7, <2>1
  <2> QED BY <2>1, <2>2, <2>3
<1>10. NodesHold(next)
  BY <1>6, <1>8, <1>9, NodesRewritten
<1>11. fab' = [fab EXCEPT !.data = data, !.tail = tail, !.used = u + n, !.nodes = next]
  BY <1>2, <1>4, <1>6, <1>7 DEF Send, Inv, TypesInv, FabType
<1>12. /\ sent' = sent \o message /\ chans' = chans
       /\ sent' \in Seq(ByteValues) /\ Len(sent') = u + n
  BY <1>1, <1>2 DEF Send
<1>13. u + n \in 0 .. Capacity
  BY <1>2, <1>3, Sizes
<1>14. fab' \in FabType
  BY <1>5, <1>9, <1>11, <1>13 DEF Inv, TypesInv, FabType
<1>15. RingHolds(fab', sent')
  BY <1>5, <1>11, <1>12 DEF RingHolds, Inv, TypesInv, FabType
<1>16. NodesHold(fab'.nodes)
  BY <1>10, <1>11 DEF Inv, TypesInv, FabType
<1>17. QED
  BY <1>12, <1>14, <1>15, <1>16 DEF Inv, TypesInv

\* fabric_recv.
LEMMA RecvHolds ==
  ASSUME Inv, NEW c \in Channels, NEW want \in Wants, Recv(c, want) PROVE Inv'
<1>1. PICK u \in Nat : u = fab.used /\ u = Len(sent) /\ u <= Capacity
  BY Sizes DEF Inv, TypesInv, FabType, RingHolds
<1>2. PICK n \in 0 .. u : n = Given(want)
  BY <1>1, FabricQueueConstants DEF Given
<1>3. PICK data \in [Index -> ByteValues], old \in Index, tail \in Index, bytes \in Seq(ByteValues) :
        /\ data = fab.data /\ old = fab.head /\ tail = fab.tail /\ bytes = sent
        /\ u = Len(bytes) /\ Spans(old, tail, u) /\ Holding(data, old, bytes)
  BY <1>1 DEF Inv, TypesInv, FabType, RingHolds
<1>4. PICK head \in Index, rest \in Seq(ByteValues), left \in Nat :
        /\ head = (old + n) % Capacity /\ rest = SubSeq(bytes, n + 1, u)
        /\ left = u - n /\ Len(rest) = left
        /\ Holding(data, head, rest) /\ Spans(head, tail, left)
  <2>1. Taken(data, old, tail, bytes, u, n)
    BY <1>3, TakenHolds
  <2> QED BY <2>1 DEF Taken
<1>5. fab' = [fab EXCEPT !.head = head, !.used = left]
  BY <1>1, <1>2, <1>3, <1>4 DEF Recv, Inv, TypesInv, FabType
<1>6. sent' = rest /\ chans' = chans
  BY <1>1, <1>2, <1>3, <1>4 DEF Recv
<1>7. left \in 0 .. Capacity
  BY <1>1, <1>4, Sizes
<1>8. fab' \in FabType
  BY <1>4, <1>5, <1>7 DEF Inv, TypesInv, FabType
<1>9. RingHolds(fab', sent')
  BY <1>3, <1>4, <1>5, <1>6 DEF RingHolds, Inv, TypesInv, FabType
<1>10. fab'.nodes = fab.nodes
  BY <1>5 DEF Inv, TypesInv, FabType
<1>11. QED
  BY <1>4, <1>6, <1>8, <1>9, <1>10 DEF Inv, TypesInv

-----------------------------------------------------------------------------
(* Results.                                                                 *)

\* Every reachable state of drivers/fabric.c satisfies the invariant.
THEOREM Invariance == Spec => []Inv
<1>1. Init => Inv
  <2>1. Closed \in ChanType
    BY DEF Closed, ChanType
  <2> QED BY <2>1, FabricStartsSound DEF Init, Inv, TypesInv
<1>2. Inv /\ [Next]_queueVars => Inv'
  <2> SUFFICES ASSUME Inv, [Next]_queueVars PROVE Inv'
    OBVIOUS
  <2>1. CASE Start
    BY <2>1, QueueStartHolds
  <2>2. ASSUME NEW r \in Ranges, Register(r) PROVE Inv'
    BY <2>2, RegisterHolds
  <2>3. ASSUME NEW i \in DOMAIN fab.nodes, NEW len \in 1 .. Wrap - 1, Bind(i, len) PROVE Inv'
    BY <2>3, BindHolds
  <2>4. ASSUME NEW c \in Channels, NEW i \in DOMAIN fab.nodes, Open(c, i) PROVE Inv'
    BY <2>4, OpenHolds
  <2>5. ASSUME NEW c \in Channels, Close(c) PROVE Inv'
    BY <2>5, CloseHolds
  <2>6. ASSUME NEW c \in Channels, NEW m \in Messages, Send(c, m) PROVE Inv'
    BY <2>6, SendHolds
  <2>7. ASSUME NEW c \in Channels, NEW want \in Wants, Recv(c, want) PROVE Inv'
    BY <2>7, RecvHolds
  <2>8. CASE UNCHANGED queueVars
    BY <2>8 DEF queueVars, Inv, TypesInv, RingHolds
  <2>9. QED
    BY <2>1, <2>2, <2>3, <2>4, <2>5, <2>6, <2>7, <2>8 DEF Next
<1>3. QED
  BY <1>1, <1>2, PTL DEF Spec

\* What the queue does in a behaviour of the platform is a behaviour of the queue.
LEMMA QueueRuns == PlatformSpec => Spec
<1>1. PlatformInit => Init
  BY DEF PlatformInit
<1>2. [PlatformNext]_platformVars => [Next]_queueVars
  BY DEF PlatformNext, OthersStay, platformVars
<1>3. QED
  BY <1>1, <1>2, PTL DEF PlatformSpec, Spec

\* Indices, counts and nodes keep their types, and no node holds more than its memory
\* (fabric_send, fabric_recv, fabric_bind_memory).
THEOREM QueueTyped == PlatformSpec => []TypeOK
<1>1. Inv => TypeOK
  BY DEF Inv, TypesInv, FabType, NodesHold, NodeSound, Index, TypeOK
<1>2. QED
  BY <1>1, Invariance, QueueRuns, PTL

\* The ring hands out exactly the bytes sent and not received yet, in the order of the
\* sends, for every capacity, message and split into receives (fabric_send, fabric_recv).
THEOREM QueueInOrder == PlatformSpec => []BytesInOrder
<1>1. ASSUME Inv PROVE BytesInOrder
  <2>1. sent \in Seq(ByteValues) /\ Len(sent) = fab.used
    BY <1>1 DEF Inv, TypesInv, RingHolds
  <2>2. sent = [k \in 1 .. fab.used |-> sent[k]]
    BY <2>1
  <2>3. \A k \in 1 .. fab.used : fab.data[(fab.head + k - 1) % Capacity] = sent[k]
    BY <1>1, <2>1 DEF Inv, RingHolds, Holding
  <2>4. (fab.tail - fab.head - fab.used) % Capacity = 0
    BY <1>1 DEF Inv, RingHolds, Spans
  <2> QED BY <2>2, <2>3, <2>4 DEF BytesInOrder, Waiting
<1>2. QED
  BY <1>1, Invariance, QueueRuns, PTL

\* Nodes that fabric_register_node let in overlap no other but for those that end at the
\* top of the address space, and a transfer that passes the checks lies in its own node
\* unless its end wraps around (fabric_register_node, region_valid, fabric_translate).
THEOREM AddressesOwned == PlatformSpec => []NodesOwnAddresses
<1>1. ASSUME Inv PROVE NodesOwnAddresses
  <2>1. ASSUME NEW i \in DOMAIN fab.nodes, NEW addr \in 0 .. Wrap - 1,
               fab.nodes[i].base <= fab.nodes[i].limit, Translates(fab.nodes[i], addr)
        PROVE  addr \in fab.nodes[i].base .. fab.nodes[i].limit
    <3>1. PICK n \in NodeType : n = fab.nodes[i] /\ NodeSound(n)
      BY <1>1 DEF Inv, TypesInv, FabType, NodesHold
    <3>2. PICK end \in Nat : end = n.base + n.mem /\ end <= n.limit + 1 /\ end <= Wrap
      <4>1. n.base \in 0 .. Wrap - 1 /\ n.limit \in 0 .. Wrap - 1 /\ n.mem \in Nat
        BY DEF NodeType
      <4>2. n.mem <= n.limit - n.base + 1
        BY <2>1, <3>1 DEF NodeSound
      <4> QED BY <4>1, <4>2, Sizes
    <3>3. addr >= n.base /\ addr < end % Wrap
      BY <2>1, <3>1, <3>2 DEF Translates
    <3>4. end % Wrap <= end /\ end % Wrap \in Int
      <4>1. CASE end = Wrap
        BY <4>1, Sizes, ModSmall
      <4>2. CASE end # Wrap
        <5>1. end \in 0 .. Wrap - 1
          BY <3>2, <4>2, Sizes
        <5> QED BY <5>1, Sizes, ModSmall
      <4> QED BY <4>1, <4>2
    <3> QED BY <3>1, <3>2, <3>3, <3>4 DEF NodeType
  <2>2. \A i, j \in DOMAIN fab.nodes : i < j => Apart(fab.nodes[i], fab.nodes[j])
    BY <1>1 DEF Inv, NodesHold
  <2>3. ASSUME NEW i \in DOMAIN fab.nodes, NEW addr \in 0 .. Wrap - 1, NEW len \in 1 .. Wrap - 1,
               RegionValid(fab.nodes[i], addr, len), addr + len < Wrap \/ TopNode(fab.nodes[i])
        PROVE  addr + len - 1 <= fab.nodes[i].limit
    <3>1. PICK n \in NodeType : n = fab.nodes[i]
      BY <1>1 DEF Inv, TypesInv, FabType
    <3>2. PICK limit \in 0 .. Wrap - 1 : limit = n.limit
      BY DEF NodeType
    <3>3. (addr + len) % Wrap <= IF TopNode(n) THEN 0 ELSE limit + 1
      BY <2>3, <3>1, <3>2, PastLimitBounds DEF RegionValid
    <3>4. PICK end \in Nat : end = addr + len /\ end > 0
      BY Sizes
    <3>5. CASE end < Wrap
      <4>1. end % Wrap = end
        BY <3>4, <3>5, Sizes, ModSmall
      <4>2. end <= limit + 1
        BY <3>3, <3>4, <4>1
      <4> QED BY <3>1, <3>2, <3>4, <4>2
    <3>6. CASE end >= Wrap
      <4>1. TopNode(n)
        BY <2>3, <3>1, <3>4, <3>6, Sizes
      <4>2. limit = Wrap - 1
        BY <3>2, <4>1 DEF TopNode
      <4>3. end % Wrap <= 0
        BY <3>3, <3>4, <4>1
      <4>4. PICK over \in 0 .. Wrap - 1 : over = end - Wrap
        BY <3>4, <3>6, Sizes
      <4>5. end % Wrap = over
        <5>1. end = 1 * Wrap + over
          BY <3>4, <4>4, Sizes
        <5> QED BY <3>4, <4>4, <5>1, Sizes, ModUnique
      <4>6. over <= 0
        BY <4>3, <4>5
      <4>7. over = 0
        BY <4>4, <4>6
      <4> QED BY <3>1, <3>2, <3>4, <4>2, <4>4, <4>7, Sizes
    <3> QED BY <3>4, <3>5, <3>6, Sizes
  <2> QED BY <2>1, <2>2, <2>3 DEF NodesOwnAddresses, Apart
<1>2. QED
  BY <1>1, Invariance, QueueRuns, PTL

-----------------------------------------------------------------------------
(* Division.                                                                *)

\* A quotient and a remainder.
LEMMA Divided ==
  ASSUME NEW a \in Nat, NEW n \in Nat \ {0}
  PROVE  \E q \in Nat, r \in 0 .. n - 1 : q = a \div n /\ r = a % n /\ a = q * n + r
<1>1. a % n \in 0 .. n - 1 /\ a \div n \in Int
  OBVIOUS
<1>2. a = n * (a \div n) + (a % n)
  OBVIOUS
<1> PICK q \in Int, r \in 0 .. n - 1 : q = a \div n /\ r = a % n /\ a = n * q + r
  BY <1>1, <1>2
<1>3. q \in Nat
  OBVIOUS
<1>4. a = q * n + r
  OBVIOUS
<1>5. QED
  BY <1>3, <1>4

\* Quotients keep the order, and a later number with a smaller remainder has a larger one.
LEMMA DividedOrder ==
  ASSUME NEW a \in Nat, NEW c \in Nat, NEW n \in Nat \ {0}, a <= c
  PROVE  /\ a \div n <= c \div n
         /\ c % n < a % n => a \div n < c \div n
<1>1. PICK q \in Nat, r \in 0 .. n - 1 : q = a \div n /\ r = a % n /\ a = q * n + r
  BY Divided
<1>2. PICK p \in Nat, s \in 0 .. n - 1 : p = c \div n /\ s = c % n /\ c = p * n + s
  BY Divided
<1>3. ASSUME p < q PROVE FALSE
  <2>1. PICK d \in Nat \ {0} : q = p + d
    <3>1. q - p \in Nat \ {0} /\ q = p + (q - p)
      BY <1>3
    <3> QED BY <3>1
  <2>2. (p + d) * n = p * n + d * n /\ d * n >= n /\ p * n \in Nat /\ d * n \in Nat
    OBVIOUS
  <2> QED BY <1>1, <1>2, <2>1, <2>2
<1>4. ASSUME s < r PROVE p # q
  <2>1. q * n \in Nat
    OBVIOUS
  <2> QED BY <1>1, <1>2, <1>4, <2>1
<1>5. QED
  BY <1>1, <1>2, <1>3, <1>4

\* A number made of the quotient of one number and the remainder of another.
LEMMA Spliced ==
  ASSUME NEW a \in Nat, NEW n \in Nat \ {0}, NEW h \in Nat, NEW l \in 0 .. n - 1
  PROVE  /\ h <= a \div n /\ l <= a % n => h * n + l <= a
         /\ a \div n <= h /\ a % n <= l => a <= h * n + l
         /\ a \div n < h => a <= h * n + l
<1>1. PICK q \in Nat, r \in 0 .. n - 1 : q = a \div n /\ r = a % n /\ a = q * n + r
  BY Divided
<1>2. \A x, y \in Nat : x <= y => x * n <= y * n /\ x * n \in Nat /\ y * n \in Nat
  OBVIOUS
<1>3. \A x, y \in Nat : x < y => x * n + n <= y * n
  <2> TAKE x, y \in Nat
  <2> HAVE x < y
  <2>1. (x + 1) * n = x * n + n /\ x + 1 \in Nat /\ x + 1 <= y
    OBVIOUS
  <2> QED BY <1>2, <2>1
<1>4. q * n \in Nat /\ h * n \in Nat
  OBVIOUS
<1>5. QED
  BY <1>1, <1>2, <1>3, <1>4

-----------------------------------------------------------------------------
(* Counters read in halves.                                                 *)

\* The halves of a count, and the count they make.
Round(n) == n \div Half
Phase(n) == n % Half
Joined(h, l) == h * Half + l

LEMMA Halves ==
  /\ Half \in Nat \ {0}
  /\ \A n \in Nat : Round(n) \in Nat /\ Phase(n) \in 0 .. Half - 1 /\ Joined(Round(n), Phase(n)) = n
  /\ \A h \in Nat, l \in 0 .. Half - 1 : Joined(h, l) \in Nat
<1>1. Half \in Nat \ {0}
  BY TimerConstants
<1>2. ASSUME NEW n \in Nat
      PROVE  Round(n) \in Nat /\ Phase(n) \in 0 .. Half - 1 /\ Joined(Round(n), Phase(n)) = n
  BY <1>1, Divided DEF Round, Phase, Joined
<1>3. ASSUME NEW h \in Nat, NEW l \in 0 .. Half - 1 PROVE Joined(h, l) \in Nat
  BY <1>1 DEF Joined
<1>4. QED
  BY <1>1, <1>2, <1>3

LEMMA HalvesOrder ==
  /\ \A m, n \in Nat : m <= n => Round(m) <= Round(n) /\ (Phase(n) < Phase(m) => Round(m) < Round(n))
  /\ \A n, h \in Nat, l \in 0 .. Half - 1 :
       /\ h <= Round(n) /\ l <= Phase(n) => Joined(h, l) <= n
       /\ Round(n) <= h /\ Phase(n) <= l => n <= Joined(h, l)
       /\ Round(n) < h => n <= Joined(h, l)
<1>1. Half \in Nat \ {0}
  BY TimerConstants
<1>2. ASSUME NEW m \in Nat, NEW n \in Nat, m <= n
      PROVE  Round(m) <= Round(n) /\ (Phase(n) < Phase(m) => Round(m) < Round(n))
  BY <1>1, <1>2, DividedOrder DEF Round, Phase
<1>3. ASSUME NEW n \in Nat, NEW h \in Nat, NEW l \in 0 .. Half - 1
      PROVE  /\ h <= Round(n) /\ l <= Phase(n) => Joined(h, l) <= n
             /\ Round(n) <= h /\ Phase(n) <= l => n <= Joined(h, l)
             /\ Round(n) < h => n <= Joined(h, l)
  BY <1>1, Spliced DEF Round, Phase, Joined
<1>4. QED
  BY <1>2, <1>3

\* A read's record.
IsCall(c) ==
  /\ c = [who |-> c.who, step |-> c.step, lo |-> c.lo, hi |-> c.hi, start |-> c.start]
  /\ c.lo \in 0 .. Half - 1 /\ c.hi \in Nat /\ c.start \in Nat
DelayRecords == [ticks : Nat, target : Int, begun : Int]

CallTyped == IsCall(call) /\ call.start <= now /\ call.hi <= Round(now)
DelayTyped == delay \in DelayRecords /\ delay.begun <= now
ClockTyped == now \in 0 .. MaxNow /\ freq \in Nat /\ short \in BOOLEAN

\* What a read under way has read so far; after a carry the high half is of a later
\* round than the start.
ReadSound ==
  /\ call.step \in {"check", "high again", "low again"} => call.who # "energy"
  /\ call.step \in {"high", "check"} => call.lo = Phase(call.start)
  /\ call.step = "check" => Round(call.start) <= call.hi
  /\ call.step = "high again" => Round(call.start) < Round(now)
  /\ call.step = "low again" => Round(call.start) < call.hi
  /\ call.step = "ready" /\ call.who = "energy" =>
       call.lo = Phase(call.start) /\ Round(call.start) <= call.hi
  /\ call.step = "ready" /\ call.who # "energy" =>
       Joined(call.hi, call.lo) \in call.start .. now

\* A delay began before the read that serves it, and its target is late enough.
DelaySound ==
  /\ ~short
  /\ call.step # "done" /\ call.who = "delay" =>
       delay # Timer!NoDelay /\ delay.begun <= call.start
  /\ delay # Timer!NoDelay => 0 <= delay.begun
  /\ delay.target >= 0 => delay.begun + delay.ticks <= delay.target

TimerInv == ClockTyped /\ CallTyped /\ DelayTyped /\ ReadSound /\ DelaySound

LEMMA ClockFacts ==
  ASSUME TimerInv
  PROVE  /\ now \in Nat /\ MaxNow \in Nat /\ IsCall(call) /\ call.start \in Nat
         /\ call.hi \in Nat /\ call.lo \in 0 .. Half - 1
         /\ call.start <= now /\ call.hi <= Round(now)
         /\ Round(now) \in Nat /\ Phase(now) \in 0 .. Half - 1
         /\ Round(call.start) \in Nat /\ Phase(call.start) \in 0 .. Half - 1
         /\ Round(call.start) <= Round(now)
         /\ Joined(call.hi, call.lo) \in Nat
<1>1. now \in Nat /\ MaxNow \in Nat
  BY TimerConstants DEF TimerInv, ClockTyped
<1>2. /\ IsCall(call) /\ call.start \in Nat /\ call.hi \in Nat /\ call.lo \in 0 .. Half - 1
      /\ call.start <= now /\ call.hi <= Round(now)
  BY DEF TimerInv, CallTyped, IsCall
<1>3. QED
  BY <1>1, <1>2, Halves, HalvesOrder

LEMMA CallMade ==
  ASSUME NEW w, NEW s, NEW l \in 0 .. Half - 1, NEW h \in Nat, NEW b \in Nat, NEW d,
         d = [who |-> w, step |-> s, lo |-> l, hi |-> h, start |-> b]
  PROVE  IsCall(d) /\ d.who = w /\ d.step = s /\ d.lo = l /\ d.hi = h /\ d.start = b
  BY DEF IsCall

LEMMA CallMoved ==
  ASSUME NEW c, IsCall(c), NEW s, NEW d, d = [c EXCEPT !.step = s]
  PROVE  IsCall(d) /\ d.who = c.who /\ d.start = c.start /\ d.step = s /\ d.lo = c.lo /\ d.hi = c.hi
  BY DEF IsCall

LEMMA NoDelayMade == Timer!NoDelay \in DelayRecords /\ Timer!NoDelay.begun = -1 /\ Timer!NoDelay.target = -1
  BY DEF Timer!NoDelay, DelayRecords

LEMMA NoCallMade ==
  /\ IsCall(Timer!NoCall) /\ Timer!NoCall.start = 0 /\ Timer!NoCall.hi = 0
  /\ Timer!NoCall.step = "done"
<1>1. 0 \in 0 .. Half - 1
  BY Halves
<1>2. QED
  BY <1>1, CallMade DEF Timer!NoCall

\* What is left to show of a step of a read that is not its last.
LEMMA ReadGoesOn ==
  ASSUME TimerInv, call.step # "done", IsCall(call'), call'.start = call.start,
         call'.who = call.who, call'.hi <= Round(now), ReadSound',
         UNCHANGED <<now, freq, delay, short>>
  PROVE  TimerInv'
<1>1. ClockTyped' /\ CallTyped' /\ DelayTyped'
  BY DEF TimerInv, ClockTyped, CallTyped, DelayTyped
<1>2. DelaySound'
  BY DEF TimerInv, DelaySound
<1>3. QED
  BY <1>1, <1>2 DEF TimerInv

LEMMA TimerInit == Timer!Init => TimerInv
<1> SUFFICES ASSUME Timer!Init PROVE TimerInv
  OBVIOUS
<1>1. now \in 0 .. MaxNow /\ now \in Nat /\ freq \in Nat /\ short = FALSE
  BY TimerConstants DEF Timer!Init
<1>2. call = Timer!NoCall /\ delay = Timer!NoDelay
  BY DEF Timer!Init
<1>3. CallTyped
  BY <1>1, <1>2, NoCallMade, Halves DEF CallTyped
<1>4. DelayTyped
  BY <1>1, <1>2, NoDelayMade DEF DelayTyped
<1>5. ReadSound
  BY <1>2, NoCallMade DEF ReadSound
<1>6. DelaySound
  BY <1>1, <1>2, NoCallMade, NoDelayMade DEF DelaySound
<1>7. QED
  BY <1>1, <1>3, <1>4, <1>5, <1>6 DEF TimerInv, ClockTyped

LEMMA TickHolds == ASSUME TimerInv, Timer!Tick PROVE TimerInv'
<1>1. /\ now' = now + 1 /\ now' \in 0 .. MaxNow /\ now' \in Nat /\ now <= now'
      /\ UNCHANGED <<freq, call, delay, short>>
  BY ClockFacts DEF Timer!Tick
<1>2. Round(now) <= Round(now') /\ Round(now') \in Nat
  BY <1>1, ClockFacts, Halves, HalvesOrder
<1>3. CallTyped'
  BY <1>1, <1>2, ClockFacts DEF CallTyped
<1>4. DelayTyped'
  BY <1>1, ClockFacts DEF TimerInv, DelayTyped, DelayRecords
<1>5. ReadSound'
  <2>1. Joined(call.hi, call.lo) \in call.start .. now => Joined(call.hi, call.lo) \in call.start .. now'
    BY <1>1, ClockFacts
  <2>2. Round(call.start) < Round(now) => Round(call.start) < Round(now')
    BY <1>2, ClockFacts
  <2> QED BY <1>1, <2>1, <2>2 DEF TimerInv, ReadSound
<1>6. DelaySound'
  BY <1>1 DEF TimerInv, DelaySound
<1>7. QED
  BY <1>1, <1>3, <1>4, <1>5, <1>6 DEF TimerInv, ClockTyped

LEMMA InitTimerHolds == ASSUME TimerInv, Timer!InitTimer PROVE TimerInv'
<1>1. freq' \in Nat /\ UNCHANGED <<now, call, delay, short>>
  BY TimerConstants DEF Timer!InitTimer
<1>2. QED
  BY <1>1 DEF TimerInv, ClockTyped, CallTyped, DelayTyped, ReadSound, DelaySound

LEMMA BeginHolds ==
  ASSUME TimerInv, NEW who \in {"cycles", "energy", "delay"}, Timer!Begin(who)
  PROVE  TimerInv'
<1>1. /\ call' = [who |-> who, step |-> "high", lo |-> Phase(now), hi |-> 0, start |-> now]
      /\ UNCHANGED <<now, freq, delay, short>> /\ (who = "delay" => delay # Timer!NoDelay)
  BY DEF Timer!Begin, Timer!LowNow, Phase
<1>2. /\ IsCall(call') /\ call'.start = now /\ call'.who = who /\ call'.hi = 0
      /\ call'.lo = Phase(now) /\ call'.step = "high"
  BY <1>1, CallMade, ClockFacts
<1>3. CallTyped'
  BY <1>1, <1>2, ClockFacts DEF CallTyped
<1>4. ReadSound'
  BY <1>1, <1>2 DEF ReadSound
<1>5. DelaySound' /\ DelayTyped'
  BY <1>1, <1>2 DEF TimerInv, DelaySound, DelayTyped
<1>6. QED
  BY <1>1, <1>3, <1>4, <1>5 DEF TimerInv, ClockTyped

LEMMA ReadHighHolds == ASSUME TimerInv, Timer!ReadHigh PROVE TimerInv'
<1> DEFINE next == IF call.who = "energy" THEN "ready" ELSE "check"
<1>1. /\ call.step = "high" /\ UNCHANGED <<now, freq, delay, short>>
      /\ call' = [call EXCEPT !.hi = Round(now), !.step = next]
  BY DEF Timer!ReadHigh, Timer!HighNow, Round
<1>2. /\ IsCall(call') /\ call'.who = call.who /\ call'.start = call.start
      /\ call'.step = next /\ call'.lo = call.lo /\ call'.hi = Round(now)
  <2> HIDE DEF next
  <2>1. IsCall(call) /\ Round(now) \in Nat
    BY ClockFacts
  <2> QED BY <1>1, <2>1 DEF IsCall
<1>3. call.lo = Phase(call.start) /\ Round(call.start) <= Round(now)
  BY <1>1, ClockFacts DEF TimerInv, ReadSound
<1>4. ReadSound'
  BY <1>1, <1>2, <1>3 DEF ReadSound
<1>5. QED
  BY <1>1, <1>2, <1>4, ClockFacts, ReadGoesOn

LEMMA CheckHolds == ASSUME TimerInv, Timer!Check PROVE TimerInv'
<1> DEFINE next == IF call.lo > Phase(now) THEN "high again" ELSE "ready"
<1>1. /\ call.step = "check" /\ UNCHANGED <<now, freq, delay, short>>
      /\ call' = [call EXCEPT !.step = next]
  BY DEF Timer!Check, Timer!Carried, Timer!LowNow, Phase
<1>2. /\ IsCall(call') /\ call'.who = call.who /\ call'.start = call.start
      /\ call'.step = next /\ call'.lo = call.lo /\ call'.hi = call.hi
  <2> HIDE DEF next
  <2> QED BY <1>1, CallMoved, ClockFacts
<1>3. call.lo = Phase(call.start) /\ Round(call.start) <= call.hi /\ call.who # "energy"
  BY <1>1 DEF TimerInv, ReadSound
<1>4. ReadSound'
  <2>1. CASE call.lo > Phase(now)
    <3>1. Round(call.start) < Round(now)
      BY <1>3, <2>1, ClockFacts, HalvesOrder
    <3>2. next = "high again"
      BY <2>1
    <3> QED BY <1>1, <1>2, <1>3, <3>1, <3>2 DEF ReadSound
  <2>2. CASE ~(call.lo > Phase(now))
    <3>1. call.lo <= Phase(now) /\ Phase(call.start) <= call.lo
      BY <1>3, <2>2, ClockFacts
    <3>2. Joined(call.hi, call.lo) <= now
      BY <3>1, ClockFacts, HalvesOrder
    <3>3. call.start <= Joined(call.hi, call.lo)
      BY <1>3, <3>1, ClockFacts, HalvesOrder
    <3>4. Joined(call.hi, call.lo) \in call.start .. now
      BY <3>2, <3>3, ClockFacts
    <3>5. next = "ready"
      BY <2>2
    <3> QED BY <1>1, <1>2, <1>3, <3>4, <3>5 DEF ReadSound
  <2> QED BY <2>1, <2>2
<1>5. QED
  BY <1>1, <1>2, <1>4, ClockFacts, ReadGoesOn

LEMMA ReadHighAgainHolds == ASSUME TimerInv, Timer!ReadHighAgain PROVE TimerInv'
<1>1. /\ call.step = "high again" /\ UNCHANGED <<now, freq, delay, short>>
      /\ call' = [call EXCEPT !.hi = Round(now), !.step = "low again"]
  BY DEF Timer!ReadHighAgain, Timer!HighNow, Round
<1>2. /\ IsCall(call') /\ call'.who = call.who /\ call'.start = call.start
      /\ call'.step = "low again" /\ call'.lo = call.lo /\ call'.hi = Round(now)
  <2>1. IsCall(call) /\ Round(now) \in Nat
    BY ClockFacts
  <2> QED BY <1>1, <2>1 DEF IsCall
<1>3. Round(call.start) < Round(now) /\ call.who # "energy"
  BY <1>1 DEF TimerInv, ReadSound
<1>4. ReadSound'
  BY <1>1, <1>2, <1>3 DEF ReadSound
<1>5. call'.hi <= Round(now)
  <2>1. Round(now) <= Round(now)
    BY ClockFacts
  <2> QED BY <1>2, <2>1, Zenon
<1>6. QED
  BY <1>1, <1>2, <1>4, <1>5, ReadGoesOn

LEMMA ReadLowAgainHolds == ASSUME TimerInv, Timer!ReadLowAgain PROVE TimerInv'
<1>1. /\ call.step = "low again" /\ UNCHANGED <<now, freq, delay, short>>
      /\ call' = [call EXCEPT !.lo = Phase(now), !.step = "ready"]
  BY DEF Timer!ReadLowAgain, Timer!LowNow, Phase
<1>2. /\ IsCall(call') /\ call'.who = call.who /\ call'.start = call.start
      /\ call'.step = "ready" /\ call'.lo = Phase(now) /\ call'.hi = call.hi
  <2>1. IsCall(call) /\ Phase(now) \in 0 .. Half - 1
    BY ClockFacts
  <2> QED BY <1>1, <2>1 DEF IsCall
<1>3. Round(call.start) < call.hi /\ call.who # "energy"
  BY <1>1 DEF TimerInv, ReadSound
<1>4. /\ Joined(call.hi, Phase(now)) <= now /\ call.start <= Joined(call.hi, Phase(now))
      /\ Joined(call.hi, Phase(now)) \in Nat
  <2>1. call.hi \in Nat /\ Phase(now) \in 0 .. Half - 1 /\ Phase(now) <= Phase(now)
    BY ClockFacts
  <2>2. Joined(call.hi, Phase(now)) \in Nat
    BY <2>1, Halves
  <2>3. Joined(call.hi, Phase(now)) <= now
    BY <2>1, ClockFacts, HalvesOrder
  <2>4. call.start <= Joined(call.hi, Phase(now))
    BY <1>3, <2>1, ClockFacts, HalvesOrder
  <2> QED BY <2>2, <2>3, <2>4
<1>5. Joined(call.hi, Phase(now)) \in call.start .. now
  BY <1>4, ClockFacts
<1>6. ReadSound'
  BY <1>1, <1>2, <1>3, <1>5 DEF ReadSound
<1>7. QED
  BY <1>1, <1>2, <1>6, ClockFacts, ReadGoesOn

\* A read that is ready has a value the counter had, or an energy read has one if no
\* carry came in between.
LEMMA ReadReady ==
  ASSUME TimerInv, call.step = "ready", call.who = "energy" => Round(call.start) = Round(now)
  PROVE  Joined(call.hi, call.lo) \in call.start .. now
<1>1. CASE call.who = "energy"
  <2>1. call.lo = Phase(call.start) /\ Round(call.start) <= call.hi /\ call.hi <= Round(now)
    BY <1>1, ClockFacts DEF TimerInv, ReadSound
  <2>2. call.hi = Round(call.start)
    BY <1>1, <2>1, ClockFacts
  <2>3. Joined(call.hi, call.lo) = call.start
    BY <2>1, <2>2, ClockFacts, Halves
  <2> QED BY <2>3, ClockFacts
<1>2. CASE call.who # "energy"
  BY <1>2 DEF TimerInv, ReadSound
<1>3. QED
  BY <1>1, <1>2

LEMMA ReturnHolds == ASSUME TimerInv, Timer!Return PROVE TimerInv'
<1>1. Timer!Result = Joined(call.hi, call.lo)
  BY DEF Timer!Result, Joined
<1>2. call.step = "ready" /\ call' = Timer!NoCall /\ UNCHANGED <<now, freq>>
  BY DEF Timer!Return
<1>3. ClockTyped' <=> short' \in BOOLEAN
  BY <1>2 DEF TimerInv, ClockTyped
<1>4. CallTyped' /\ ReadSound'
  BY <1>2, NoCallMade, ClockFacts DEF CallTyped, ReadSound
<1>5. CASE UNCHANGED <<delay, short>>
  BY <1>2, <1>3, <1>4, <1>5, NoCallMade DEF TimerInv, DelayTyped, DelaySound, ClockTyped
<1>6. CASE call.who = "delay" /\ ~UNCHANGED <<delay, short>>
  <2> DEFINE end == Joined(call.hi, call.lo)
  <2>1. delay # Timer!NoDelay /\ delay.begun <= call.start /\ 0 <= delay.begun
    BY <1>2, <1>6 DEF TimerInv, DelaySound
  <2>2. end \in call.start .. now /\ end \in Nat
    BY <1>2, <1>6, ReadReady, ClockFacts
  <2>3. /\ delay \in DelayRecords /\ delay.begun <= now /\ short = FALSE
        /\ delay.begun \in Int /\ delay.ticks \in Nat /\ delay.target \in Int
    BY DEF TimerInv, ClockTyped, DelayTyped, DelaySound, DelayRecords
  <2> HIDE DEF end
  <2>4. CASE delay.target < 0
    <3>1. delay' = [delay EXCEPT !.target = end + delay.ticks] /\ short' = short
      <4>1. call.who = "delay" /\ delay.target < 0
        BY <1>6, <2>4
      <4>2. ~(delay.target >= 0)
        BY <2>3, <2>4
      <4>3. delay' = [delay EXCEPT !.target = Timer!Result + delay.ticks] /\ UNCHANGED short
        BY <4>1, <4>2, Zenon DEF Timer!Return
      <4> QED BY <1>1, <4>3 DEF end
    <3>2. end + delay.ticks \in Int
      BY <2>2, <2>3
    <3>3. /\ delay'.target = end + delay.ticks /\ delay'.ticks = delay.ticks
          /\ delay'.begun = delay.begun /\ delay' \in DelayRecords
      BY <2>3, <3>1, <3>2 DEF DelayRecords
    <3>4. delay.begun + delay.ticks <= end + delay.ticks
      BY <2>1, <2>2, <2>3, ClockFacts
    <3>5. DelaySound' /\ DelayTyped'
      BY <1>2, <2>1, <2>3, <3>1, <3>3, <3>4, NoCallMade DEF DelaySound, DelayTyped
    <3> QED BY <1>3, <1>4, <2>3, <3>1, <3>5 DEF TimerInv
  <2>5. CASE delay.target >= 0
    <3>1. /\ end >= delay.target /\ delay' = Timer!NoDelay
          /\ short' = (short \/ now - delay.begun < delay.ticks)
      BY <1>1, <1>6, <2>3, <2>5 DEF Timer!Return, end
    <3>2. delay.begun + delay.ticks <= delay.target
      BY <2>5 DEF TimerInv, DelaySound
    <3>3. ~(now - delay.begun < delay.ticks)
      BY <2>2, <2>3, <3>1, <3>2, ClockFacts
    <3>4. short' = FALSE
      BY <2>3, <3>1, <3>3
    <3>5. -1 <= now
      BY ClockFacts
    <3>6. DelaySound' /\ DelayTyped'
      BY <1>2, <3>1, <3>4, <3>5, NoCallMade, NoDelayMade DEF DelaySound, DelayTyped
    <3> QED BY <1>3, <1>4, <3>4, <3>6 DEF TimerInv
  <2> QED BY <2>3, <2>4, <2>5
<1>7. call.who = "delay" \/ UNCHANGED <<delay, short>>
  BY DEF Timer!Return
<1>8. QED
  BY <1>5, <1>6, <1>7

LEMMA DelayHolds == ASSUME TimerInv, NEW us \in Delays, Timer!Delay(us) PROVE TimerInv'
<1> DEFINE ticks == us * (freq \div Mhz)
<1>1. /\ call.step = "done" /\ UNCHANGED <<now, freq, call, short>>
      /\ delay' = [ticks |-> ticks, target |-> -1, begun |-> now]
  BY DEF Timer!Delay
<1>2. ticks \in Nat
  <2>1. freq \in Nat
    BY DEF TimerInv, ClockTyped
  <2>2. freq \div Mhz \in Nat
    BY <2>1, TimerConstants, Divided
  <2>3. us \in Nat
    BY TimerConstants
  <2> QED BY <2>2, <2>3
<1> HIDE DEF ticks
<1>3. delay' \in DelayRecords /\ delay'.target = -1 /\ delay'.begun = now
  BY <1>1, <1>2, ClockFacts DEF DelayRecords
<1>4. DelayTyped'
  BY <1>1, <1>3, ClockFacts DEF DelayTyped
<1>5. DelaySound'
  BY <1>1, <1>3, ClockFacts DEF TimerInv, DelaySound
<1>6. QED
  BY <1>1, <1>4, <1>5 DEF TimerInv, ClockTyped, CallTyped, ReadSound

LEMMA TimerStep == TimerInv /\ [PlatformNext]_platformVars => TimerInv'
<1> SUFFICES ASSUME TimerInv, [PlatformNext]_platformVars PROVE TimerInv'
  OBVIOUS
<1>1. CASE UNCHANGED timerVars
  BY <1>1 DEF timerVars, TimerInv, ClockTyped, CallTyped, DelayTyped, ReadSound, DelaySound
<1>2. CASE Timer!Next
  BY <1>2, TickHolds, InitTimerHolds, BeginHolds, ReadHighHolds, CheckHolds, ReadHighAgainHolds,
     ReadLowAgainHolds, ReturnHolds, DelayHolds DEF Timer!Next
<1>3. UNCHANGED timerVars \/ Timer!Next
  BY DEF PlatformNext, OthersStay, platformVars
<1>4. QED
  BY <1>1, <1>2, <1>3

(* timer_get_cycles, timer_delay_us, pmu_read_energy: what is read half by half was *)
(* the value of the counter at some time of the call, and no delay is short.      *)
THEOREM CyclesWhole == PlatformSpec => []CyclesNotTorn
<1>1. TimerInv => CyclesNotTorn
  <2> SUFFICES ASSUME TimerInv PROVE CyclesNotTorn
    OBVIOUS
  <2>1. Timer!Result = Joined(call.hi, call.lo)
    BY DEF Timer!Result, Joined
  <2>2. Timer!HighNow = Round(now) /\ call.start \div Half = Round(call.start)
    BY DEF Timer!HighNow, Round
  <2>3. ~short
    BY DEF TimerInv, DelaySound
  <2> QED BY <2>1, <2>2, <2>3, ReadReady DEF CyclesNotTorn, Timer!CyclesNotTorn
<1>2. PlatformInit => TimerInv
  BY TimerInit DEF PlatformInit
<1>3. QED
  BY <1>1, <1>2, TimerStep, PTL DEF PlatformSpec

-----------------------------------------------------------------------------
(* Register fields.                                                         *)

\* The field of a domain in a word, and what a call may write to it.
Reads(word, r, d) == {i - Words!Low(r, d) : i \in word \cap Words!Field(r, d)}
FitsField(r, d, value) == \A b \in value : b \in Int /\ Words!Low(r, d) + b \in Words!Field(r, d)

LEMMA WidthIsPositive ==
  ASSUME NEW r PROVE Words!Width(r) \in Nat \ {0}
  BY DEF Words!Width

LEMMA LowIsNat ==
  ASSUME NEW r, NEW d \in Nat PROVE Words!Low(r, d) \in Nat
<1>1. Words!Stride(r) \in Nat
  BY DEF Words!Stride
<1>2. Words!Offset(r) \in Nat
  BY DEF Words!Offset
<1>3. Words!Stride(r) * d \in Nat
  BY <1>1
<1>4. QED
  BY <1>2, <1>3 DEF Words!Low

\* What is asked for fits the field.
LEMMA AskedFits ==
  ASSUME NEW r \in Registers, NEW d \in Domains[r], NEW value \in Words!Values(r)
  PROVE  FitsField(r, d, Words!Asked(r, value))
<1>1. /\ d \in Nat /\ WordBits \in Nat /\ Words!Low(r, d) + Words!Width(r) <= WordBits
      /\ Words!Low(r, d) \in Nat /\ Words!Width(r) \in Nat \ {0}
  BY RegisterConstants, LowIsNat, WidthIsPositive
<1>2. value \subseteq 0 .. Words!Width(r) - 1
  BY DEF Words!Values
<1>3. 0 \in 0 .. Words!Width(r) - 1
  BY <1>1
<1>4. Words!Asked(r, value) \subseteq 0 .. Words!Width(r) - 1
  BY <1>2, <1>3, Zenon DEF Words!Asked
<1>5. ASSUME NEW b \in 0 .. Words!Width(r) - 1
      PROVE  b \in Int /\ Words!Low(r, d) + b \in Words!Field(r, d)
  BY <1>1 DEF Words!Field
<1>6. QED
  BY <1>4, <1>5 DEF FitsField

\* A field that is written reads back what was written, and another keeps its bits.
LEMMA UpdatedReads ==
  ASSUME NEW word, NEW r, NEW d \in Nat, NEW value, FitsField(r, d, value)
  PROVE  Reads(Words!Updated(word, r, d, value), r, d) = value
<1> DEFINE low == Words!Low(r, d)
           new == {low + b : b \in value} \cap Words!Field(r, d)
<1>1. low \in Int
  BY LowIsNat
<1>2. \A b \in value : b \in Int /\ low + b \in Words!Field(r, d) /\ (low + b) - low = b
  BY <1>1 DEF FitsField
<1>3. Words!Updated(word, r, d, value) = (word \ Words!Field(r, d)) \cup new
  BY DEF Words!Updated
<1>4. Words!Updated(word, r, d, value) \cap Words!Field(r, d) = {low + b : b \in value}
  <2> HIDE DEF low
  <2> QED BY <1>2, <1>3, Zenon
<1>5. Reads(Words!Updated(word, r, d, value), r, d) = {i - low : i \in {low + b : b \in value}}
  BY <1>4 DEF Reads
<1> HIDE DEF low
<1>6. QED
  BY <1>2, <1>5

LEMMA UpdatedKeeps ==
  ASSUME NEW word, NEW r, NEW d, NEW e, NEW value, Words!Field(r, e) \cap Words!Field(r, d) = {}
  PROVE  Reads(Words!Updated(word, r, d, value), r, e) = Reads(word, r, e)
<1>1. Words!Updated(word, r, d, value) \cap Words!Field(r, e) = word \cap Words!Field(r, e)
  BY Zenon DEF Words!Updated
<1>2. QED
  BY <1>1, Zenon DEF Reads

\* The registers and their history.
WordsTyped ==
  /\ regs = [r \in Registers |-> regs[r]]
  /\ last = [r \in Registers |-> [d \in Domains[r] |-> last[r][d]]]
  /\ disturbed = [r \in Registers |-> disturbed[r]]
  /\ lost = [r \in Registers |-> lost[r]]

\* The domains of a register whose fields are claimed to hold, and what the field of a
\* domain is in a word.
Kept(r) == Domains[r] \ (disturbed[r] \cup lost[r])
Part(word, r, d) == word \cap Words!Field(r, d)

\* A call under way names a register and a domain in play, has a value that fits, and
\* the word it read has the register's fields, but for the domains of interrupts since.
JobSound ==
  job # Words!Idle =>
    /\ job.reg \in Registers /\ job.domain \in Domains[job.reg]
    /\ FitsField(job.reg, job.domain, job.value)
    /\ \A e \in Kept(job.reg) : Part(job.word, job.reg, e) = Part(regs[job.reg], job.reg, e)

FieldsKept == \A r \in Registers : \A d \in Kept(r) : Reads(regs[r], r, d) = last[r][d]

WordsInv == WordsTyped /\ JobSound /\ FieldsKept

LEMMA PartReads ==
  ASSUME NEW v, NEW w, NEW r, NEW e, Part(v, r, e) = Part(w, r, e)
  PROVE  Reads(v, r, e) = Reads(w, r, e)
  BY Zenon DEF Part, Reads

LEMMA WordsInit == Words!Init => WordsInv
<1> SUFFICES ASSUME Words!Init PROVE WordsInv
  OBVIOUS
<1>1. WordsTyped
  BY DEF Words!Init, WordsTyped
<1>2. JobSound
  BY DEF Words!Init, JobSound
<1>3. FieldsKept
  <2>1. \A r, d : Reads({}, r, d) = {}
    BY DEF Reads
  <2> QED BY <2>1 DEF Words!Init, FieldsKept, Kept
<1>4. QED
  BY <1>1, <1>2, <1>3 DEF WordsInv

\* A call that ends with its value written to the word as it stands, but for the
\* domains of interrupts inside it.
LEMMA WrittenHolds ==
  ASSUME WordsInv, NEW r \in Registers, NEW d \in Domains[r], NEW value, NEW word,
         FitsField(r, d, value),
         regs' = [regs EXCEPT ![r] = Words!Updated(word, r, d, value)],
         Words!Ended(r, d, value),
         \A e \in Kept(r) : Part(word, r, e) = Part(regs[r], r, e),
         lost' = [lost EXCEPT ![r] = lost'[r]], lost[r] \subseteq lost'[r] \cup {d}
  PROVE  WordsTyped' /\ FieldsKept'
<1> DEFINE fresh == (disturbed[r] \ {d})
                      \cup {e \in Domains[r] \ {d} : Words!Field(r, e) \cap Words!Field(r, d) # {}}
<1>1. /\ last' = [last EXCEPT ![r][d] = value]
      /\ disturbed' = [disturbed EXCEPT ![r] = fresh]
  BY DEF Words!Ended
<1>2. WordsTyped'
  <2>1. lost' = [q \in Registers |-> lost'[q]]
    BY DEF WordsInv, WordsTyped
  <2> QED BY <1>1, <2>1 DEF WordsInv, WordsTyped
<1>3. \A q \in Registers \ {r} : /\ regs'[q] = regs[q] /\ last'[q] = last[q]
                                 /\ disturbed'[q] = disturbed[q] /\ lost'[q] = lost[q]
  BY <1>1 DEF WordsInv, WordsTyped
<1>4. regs'[r] = Words!Updated(word, r, d, value) /\ disturbed'[r] = fresh
  BY <1>1 DEF WordsInv, WordsTyped
<1>5. last'[r][d] = value /\ \A e \in Domains[r] \ {d} : last'[r][e] = last[r][e]
  BY <1>1 DEF WordsInv, WordsTyped
<1>6. ASSUME NEW q \in Registers, NEW e \in Domains[q] \ (disturbed'[q] \cup lost'[q])
      PROVE  Reads(regs'[q], q, e) = last'[q][e]
  <2>1. CASE q # r
    <3>1. e \in Kept(q)
      BY <1>3, <1>6, <2>1 DEF Kept
    <3> QED BY <1>3, <2>1, <3>1 DEF WordsInv, FieldsKept
  <2>2. CASE q = r /\ e = d
    <3>1. d \in Nat
      BY RegisterConstants
    <3> QED BY <1>4, <1>5, <2>2, <3>1, UpdatedReads
  <2>3. CASE q = r /\ e # d
    <3>1. e \notin disturbed[r] /\ Words!Field(r, e) \cap Words!Field(r, d) = {}
      BY <1>4, <1>6, <2>3
    <3>2. e \notin lost[r]
      BY <1>6, <2>3
    <3>3. e \in Kept(r)
      BY <1>6, <2>3, <3>1, <3>2 DEF Kept
    <3>4. Reads(word, r, e) = Reads(regs[r], r, e)
      BY <3>3, PartReads
    <3>5. Reads(regs[r], r, e) = last[r][e]
      BY <3>3 DEF WordsInv, FieldsKept
    <3>6. Reads(regs'[r], r, e) = Reads(word, r, e)
      BY <1>4, <3>1, UpdatedKeeps
    <3> QED BY <1>5, <1>6, <2>3, <3>4, <3>5, <3>6
  <2> QED BY <2>1, <2>2, <2>3
<1>7. FieldsKept'
  BY <1>6 DEF FieldsKept, Kept
<1>8. QED
  BY <1>2, <1>7

LEMMA ReadHolds ==
  ASSUME WordsInv, NEW r \in Registers, NEW d \in Domains[r], NEW value \in Words!Values(r),
         Words!Read(r, d, value)
  PROVE  WordsInv'
<1>1. /\ job' = [reg |-> r, domain |-> d, value |-> Words!Asked(r, value), word |-> regs[r]]
      /\ UNCHANGED <<regs, last, disturbed, lost>>
  BY DEF Words!Read
<1>2. FitsField(r, d, Words!Asked(r, value))
  BY AskedFits
<1>3. JobSound'
  <2>1. job'.reg = r /\ job'.domain = d /\ job'.value = Words!Asked(r, value) /\ job'.word = regs[r]
    BY <1>1
  <2> QED BY <1>1, <1>2, <2>1 DEF JobSound
<1>4. QED
  BY <1>1, <1>3 DEF WordsInv, WordsTyped, FieldsKept, Kept

LEMMA WriteBackHolds == ASSUME WordsInv, Words!WriteBack PROVE WordsInv'
<1>1. /\ job # Words!Idle /\ job' = Words!Idle
      /\ regs' = [regs EXCEPT ![job.reg] = Words!Updated(job.word, job.reg, job.domain, job.value)]
      /\ Words!Ended(job.reg, job.domain, job.value)
      /\ lost' = [lost EXCEPT ![job.reg] = lost[job.reg] \ {job.domain}]
  BY DEF Words!WriteBack
<1>2. /\ job.reg \in Registers /\ job.domain \in Domains[job.reg]
      /\ FitsField(job.reg, job.domain, job.value)
      /\ \A e \in Kept(job.reg) : Part(job.word, job.reg, e) = Part(regs[job.reg], job.reg, e)
  BY <1>1 DEF WordsInv, JobSound
<1>3. lost'[job.reg] = lost[job.reg] \ {job.domain}
  BY <1>1, <1>2 DEF WordsInv, WordsTyped
<1>4. WordsTyped' /\ FieldsKept'
  BY <1>1, <1>2, <1>3, WrittenHolds
<1>5. QED
  BY <1>1, <1>4 DEF WordsInv, JobSound

LEMMA InterruptHolds ==
  ASSUME WordsInv, NEW r \in Registers, NEW d \in Domains[r], NEW value \in Words!Values(r),
         Words!Interrupt(r, d, value)
  PROVE  WordsInv'
<1> DEFINE word == Words!Updated(regs[r], r, d, Words!Asked(r, value))
           gone == IF job.reg = r THEN lost[r] \cup {d} ELSE lost[r] \ {d}
<1>1. /\ regs' = [regs EXCEPT ![r] = word]
      /\ Words!Ended(r, d, Words!Asked(r, value)) /\ UNCHANGED job
      /\ lost' = [lost EXCEPT ![r] = gone]
  BY Zenon DEF Words!Interrupt
<1>2. lost'[r] = gone /\ lost[r] \subseteq gone \cup {d} /\ (job.reg = r => d \in gone)
  BY <1>1 DEF WordsInv, WordsTyped
<1>3. FitsField(r, d, Words!Asked(r, value))
  BY AskedFits
<1>4. WordsTyped' /\ FieldsKept'
  BY <1>1, <1>2, <1>3, WrittenHolds
<1>5. ASSUME job # Words!Idle
      PROVE  \A e \in Domains[job.reg] \ (disturbed'[job.reg] \cup lost'[job.reg]) :
               Part(job.word, job.reg, e) = Part(regs'[job.reg], job.reg, e)
  <2>1. CASE job.reg # r
    <3>1. /\ regs'[job.reg] = regs[job.reg] /\ lost'[job.reg] = lost[job.reg]
          /\ disturbed'[job.reg] = disturbed[job.reg]
      BY <1>1, <1>5, <2>1 DEF WordsInv, WordsTyped, JobSound, Words!Ended
    <3> QED BY <1>5, <3>1 DEF WordsInv, JobSound, Kept
  <2>2. CASE job.reg = r
    <3> SUFFICES ASSUME NEW e \in Domains[r] \ (disturbed'[r] \cup lost'[r])
                 PROVE  Part(job.word, r, e) = Part(regs'[r], r, e)
      BY <2>2
    <3>1. e # d /\ e \notin lost[r]
      BY <1>2, <2>2
    <3>2. e \notin disturbed[r] /\ Words!Field(r, e) \cap Words!Field(r, d) = {}
      <4>1. disturbed'[r] = (disturbed[r] \ {d})
                \cup {f \in Domains[r] \ {d} : Words!Field(r, f) \cap Words!Field(r, d) # {}}
        BY <1>1 DEF WordsInv, WordsTyped, Words!Ended
      <4> QED BY <3>1, <4>1
    <3>3. Part(job.word, r, e) = Part(regs[r], r, e)
      BY <1>5, <2>2, <3>1, <3>2 DEF WordsInv, JobSound, Kept
    <3>4. regs'[r] = word
      BY <1>1 DEF WordsInv, WordsTyped
    <3>5. Part(word, r, e) = Part(regs[r], r, e)
      BY <3>2, Zenon DEF Words!Updated, Part
    <3> QED BY <3>3, <3>4, <3>5
  <2> QED BY <2>1, <2>2
<1>6. JobSound'
  BY <1>1, <1>5 DEF WordsInv, JobSound, Kept
<1>7. QED
  BY <1>4, <1>6 DEF WordsInv

\* An init function whose word has every field of its registers clear.
LEMMA ResetHolds ==
  ASSUME WordsInv, NEW registers \in SUBSET Registers, NEW word, Words!Reset(registers, word),
         \A r \in registers : \A d \in Domains[r] : word \cap Words!Field(r, d) = {}
  PROVE  WordsInv'
<1>1. /\ job = Words!Idle /\ UNCHANGED job
      /\ regs' = [r \in Registers |-> IF r \in registers THEN word ELSE regs[r]]
      /\ last' = [r \in Registers |->
                    IF r \in registers THEN [d \in Domains[r] |-> {}] ELSE last[r]]
      /\ disturbed' = [r \in Registers |-> IF r \in registers THEN {} ELSE disturbed[r]]
      /\ lost' = [r \in Registers |-> IF r \in registers THEN {} ELSE lost[r]]
  BY DEF Words!Reset
<1>2. WordsTyped'
  BY <1>1 DEF WordsInv, WordsTyped
<1>3. ASSUME NEW r \in Registers, NEW d \in Domains[r] \ (disturbed'[r] \cup lost'[r])
      PROVE  Reads(regs'[r], r, d) = last'[r][d]
  <2>1. CASE r \in registers
    <3>1. regs'[r] = word /\ last'[r][d] = {}
      BY <1>1, <1>3, <2>1
    <3>2. word \cap Words!Field(r, d) = {}
      BY <1>3, <2>1
    <3> QED BY <3>1, <3>2 DEF Reads
  <2>2. CASE r \notin registers
    <3>1. /\ regs'[r] = regs[r] /\ last'[r] = last[r] /\ disturbed'[r] = disturbed[r]
          /\ lost'[r] = lost[r]
      BY <1>1, <2>2
    <3> QED BY <1>3, <3>1 DEF WordsInv, FieldsKept, Kept
  <2> QED BY <2>1, <2>2
<1>4. FieldsKept'
  BY <1>3 DEF FieldsKept, Kept
<1>5. QED
  BY <1>1, <1>2, <1>4 DEF WordsInv, JobSound

LEMMA InitsHold == ASSUME WordsInv, Words!InitGpio \/ Words!InitTimer PROVE WordsInv'
<1>1. CASE Words!InitGpio
  <2>1. Words!Zeroed \subseteq Registers
    BY DEF Words!Zeroed
  <2> QED BY <1>1, <2>1, ResetHolds DEF Words!InitGpio
<1>2. CASE Words!InitTimer
  <2>1. Words!Restarted \subseteq Registers /\ \A r \in Words!Restarted : r = "timer_ctrl"
    BY DEF Words!Restarted
  <2>2. ASSUME NEW r \in Words!Restarted, NEW d \in Domains[r]
        PROVE  {0} \cap Words!Field(r, d) = {}
    <3>1. r = "timer_ctrl" /\ d \in Nat
      BY <2>1, RegisterConstants
    <3>2. Words!Low(r, d) = 4 + d
      BY <3>1 DEF Words!Low, Words!Offset, Words!Stride
    <3>3. Words!Width(r) \in Nat \ {0}
      BY WidthIsPositive
    <3>4. 0 \notin Words!Low(r, d) .. Words!Low(r, d) + Words!Width(r) - 1
      BY <3>1, <3>2, <3>3
    <3> QED BY <3>4 DEF Words!Field
  <2> QED BY <1>2, <2>1, <2>2, ResetHolds DEF Words!InitTimer
<1>3. QED
  BY <1>1, <1>2

LEMMA WordsStep == WordsInv /\ [PlatformNext]_platformVars => WordsInv'
<1> SUFFICES ASSUME WordsInv, [PlatformNext]_platformVars PROVE WordsInv'
  OBVIOUS
<1>1. CASE UNCHANGED registersVars
  BY <1>1 DEF registersVars, WordsInv, WordsTyped, JobSound, FieldsKept, Kept
<1>2. CASE Words!Next
  <2>1. ASSUME NEW r \in Registers, NEW d \in Domains[r], NEW value \in Words!Values(r),
               Words!Read(r, d, value) \/ Words!Interrupt(r, d, value)
        PROVE  WordsInv'
    BY <2>1, ReadHolds, InterruptHolds
  <2> QED BY <1>2, <2>1, WriteBackHolds, InitsHold DEF Words!Next
<1>3. UNCHANGED registersVars \/ Words!Next
  BY DEF PlatformNext, OthersStay, platformVars
<1>4. QED
  BY <1>1, <1>2, <1>3

(* gpio.c, timer.c, bradxonc.c: a field reads back what was last asked for it, unless *)
(* an interrupt inside another call asked for it or a later call overlapped it.      *)
THEOREM FieldsReadBack == PlatformSpec => []FieldsHold
<1>1. WordsInv => FieldsHold
  BY DEF WordsInv, FieldsKept, Kept, FieldsHold, Words!FieldsHold, Words!ReadBack, Reads
<1>2. PlatformInit => WordsInv
  BY WordsInit DEF PlatformInit
<1>3. QED
  BY <1>1, <1>2, WordsStep, PTL DEF PlatformSpec

-----------------------------------------------------------------------------
(* The address map of SPMP.                                                 *)

\* A range of the address space, and an entry of the table.
InSpace(addr, size) == addr \in Nat /\ size \in Nat \ {0} /\ addr + size <= MapWrap
MapRecord == [addr : Nat, size : Nat, node : Nat, active : BOOLEAN]
MapTables == Seq(MapRecord)

LEMMA MapEnd ==
  ASSUME NEW addr, NEW size, InSpace(addr, size)
  PROVE  Maps!EndOf(addr, size) = IF addr + size = MapWrap THEN 0 ELSE addr + size
<1>1. MapWrap \in Nat /\ MapWrap > 0
  BY MapConstants DEF InSpace
<1>2. \A n, w \in Nat : n < w => n % w = n
  OBVIOUS
<1>3. \A w \in Nat : w > 0 => w % w = 0
  OBVIOUS
<1>4. addr + size \in Nat /\ addr + size <= MapWrap
  BY DEF InSpace
<1>5. QED
  BY <1>1, <1>2, <1>3, <1>4 DEF Maps!EndOf

\* map_find answers 0 exactly when no entry meets the range, else one that does.
LEMMA MapFind ==
  ASSUME mapper.maps \in Seq(MapRecord), NEW addr, NEW size
  PROVE  LET i == Maps!Find(addr, size)
         IN /\ i = 0 <=> \A k \in DOMAIN mapper.maps : ~Maps!Meets(mapper.maps[k], addr, size)
            /\ i # 0 => i \in DOMAIN mapper.maps /\ Maps!Meets(mapper.maps[i], addr, size)
<1> DEFINE I == {k \in 1 .. Len(mapper.maps) : Maps!Meets(mapper.maps[k], addr, size)}
<1>1. Maps!Find(addr, size) = IF I # {} THEN Maps!Min(I) ELSE 0
  BY DEF Maps!Find, Maps!SelectInSeq
<1>2. I \in SUBSET Nat /\ 0 \notin I
  OBVIOUS
<1>3. I # {} => Maps!Min(I) \in I
  <2> HIDE DEF I
  <2> QED BY <1>2, LeastNat DEF Maps!Min
<1>4. DOMAIN mapper.maps = 1 .. Len(mapper.maps)
  OBVIOUS
<1>5. QED
  BY <1>1, <1>2, <1>3, <1>4

\* Ranges that do not overlap.
Beside(m, n) == m.addr + m.size <= n.addr \/ n.addr + n.size <= m.addr

MapperTyped ==
  mapper \in [ready : BOOLEAN, maps : MapTables, mapped : Nat, unmapped : Nat,
              hits : Nat, misses : Nat]
EntriesInSpace == \A i \in DOMAIN mapper.maps : InSpace(mapper.maps[i].addr, mapper.maps[i].size)
EntriesApart ==
  \A i, j \in Maps!Active :
    i # j /\ ~Maps!AtTop(mapper.maps[i]) /\ ~Maps!AtTop(mapper.maps[j]) =>
      Beside(mapper.maps[i], mapper.maps[j])
EntriesCounted ==
  IsFiniteSet(Maps!Active) /\ mapper.mapped - mapper.unmapped = Cardinality(Maps!Active)

MapsInv == MapperTyped /\ EntriesInSpace /\ EntriesApart /\ EntriesCounted

\* Only entries and ranges that do not end at the top meet, and they do if they overlap.
LEMMA MapMeets ==
  ASSUME NEW m \in MapRecord, InSpace(m.addr, m.size), NEW addr, NEW size, InSpace(addr, size)
  PROVE  Maps!Meets(m, addr, size) <=>
           /\ m.active /\ ~Maps!AtTop(m) /\ addr + size # MapWrap
           /\ addr < m.addr + m.size /\ m.addr < addr + size
<1>1. MapWrap \in Nat /\ m.addr \in Nat /\ m.size \in Nat /\ addr \in Nat /\ size \in Nat
  BY MapConstants DEF InSpace
<1>2. Maps!EndOf(m.addr, m.size) = IF m.addr + m.size = MapWrap THEN 0 ELSE m.addr + m.size
  BY MapEnd
<1>3. Maps!EndOf(addr, size) = IF addr + size = MapWrap THEN 0 ELSE addr + size
  BY MapEnd
<1>4. QED
  BY <1>1, <1>2, <1>3 DEF Maps!Meets, Maps!AtTop

LEMMA MapperChanged ==
  ASSUME MapperTyped, NEW table \in MapTables, NEW a \in Nat, NEW b \in Nat,
         mapper' = [mapper EXCEPT !.maps = table, !.mapped = a, !.unmapped = b]
  PROVE  MapperTyped' /\ mapper'.maps = table /\ mapper'.mapped = a /\ mapper'.unmapped = b
  BY DEF MapperTyped

LEMMA MapsFresh == mapper \in {Maps!Fresh(TRUE), Maps!Fresh(FALSE)} => MapsInv
<1> SUFFICES ASSUME mapper \in {Maps!Fresh(TRUE), Maps!Fresh(FALSE)} PROVE MapsInv
  OBVIOUS
<1>1. PICK b \in BOOLEAN : mapper = Maps!Fresh(b)
  OBVIOUS
<1>2. <<>> \in MapTables
  BY DEF MapTables
<1>3. MapperTyped /\ mapper.maps = <<>> /\ mapper.mapped = 0 /\ mapper.unmapped = 0
  BY <1>1, <1>2 DEF MapperTyped, Maps!Fresh
<1>4. DOMAIN mapper.maps = {} /\ Maps!Active = {}
  BY <1>3 DEF Maps!Active
<1>5. EntriesInSpace /\ EntriesApart
  BY <1>4 DEF EntriesInSpace, EntriesApart
<1>6. EntriesCounted
  BY <1>3, <1>4, FS_EmptySet DEF EntriesCounted
<1>7. QED
  BY <1>3, <1>5, <1>6 DEF MapsInv

LEMMA MapsStarted == ASSUME Maps!Start PROVE MapsInv'
<1>1. (mapper \in {Maps!Fresh(TRUE), Maps!Fresh(FALSE)})'
  BY DEF Maps!Start
<1>2. (mapper \in {Maps!Fresh(TRUE), Maps!Fresh(FALSE)})' => MapsInv'
  BY MapsFresh, PTL
<1>3. QED
  BY <1>1, <1>2

LEMMA MapHolds ==
  ASSUME MapsInv, NEW r \in MapRanges, Maps!Map(r[1], r[2])
  PROVE  MapsInv'
<1> DEFINE addr == r[1]
           size == r[2]
           n == Len(mapper.maps)
           m == [addr |-> addr, size |-> size, node |-> n, active |-> TRUE]
<1>1. InSpace(addr, size) /\ addr \in Nat /\ size \in Nat
  BY MapConstants DEF InSpace
<1>2. /\ Maps!Find(addr, size) = 0
      /\ mapper' = [mapper EXCEPT !.maps = Append(mapper.maps, m), !.mapped = mapper.mapped + 1]
  BY Zenon DEF Maps!Map
<1>3. mapper.maps \in Seq(MapRecord) /\ n \in Nat /\ mapper.mapped \in Nat /\ mapper.unmapped \in Nat
  BY DEF MapsInv, MapperTyped, MapTables
<1>4. m \in MapRecord /\ m.addr = addr /\ m.size = size /\ m.active
  BY <1>1, <1>3 DEF MapRecord
<1> HIDE DEF m, n, addr, size
<1>5. Append(mapper.maps, m) \in Seq(MapRecord)
  BY <1>3, <1>4
<1>6. /\ MapperTyped' /\ mapper'.maps = Append(mapper.maps, m)
      /\ mapper'.mapped = mapper.mapped + 1 /\ mapper'.unmapped = mapper.unmapped
  <2> DEFINE table == Append(mapper.maps, m)
  <2>1. table \in MapTables
    BY <1>5 DEF MapTables
  <2>2. mapper' = [mapper EXCEPT !.maps = table, !.mapped = mapper.mapped + 1,
                                 !.unmapped = mapper.unmapped]
    <3> HIDE DEF table
    <3> QED BY <1>2 DEF MapsInv, MapperTyped, table
  <2>3. mapper.mapped + 1 \in Nat
    BY <1>3
  <2> HIDE DEF table
  <2> QED BY <1>3, <2>1, <2>2, <2>3, MapperChanged DEF MapsInv, table
<1>7. /\ DOMAIN mapper.maps = 1 .. n /\ DOMAIN mapper'.maps = 1 .. n + 1
      /\ mapper'.maps[n + 1] = m
      /\ \A i \in 1 .. n : mapper'.maps[i] = mapper.maps[i] /\ mapper.maps[i] \in MapRecord
  BY <1>3, <1>4, <1>6 DEF n
<1>8. EntriesInSpace'
  BY <1>1, <1>3, <1>4, <1>7 DEF MapsInv, EntriesInSpace
<1>9. Maps!Active' = Maps!Active \cup {n + 1} /\ n + 1 \notin Maps!Active
  BY <1>3, <1>4, <1>7 DEF Maps!Active
<1>10. EntriesCounted'
  <2>1. IsFiniteSet(Maps!Active) /\ Cardinality(Maps!Active) \in Nat
    BY FS_CardinalityType DEF MapsInv, EntriesCounted
  <2>2. IsFiniteSet(Maps!Active') /\ Cardinality(Maps!Active') = Cardinality(Maps!Active) + 1
    BY <1>9, <2>1, FS_AddElement
  <2> QED BY <1>3, <1>6, <2>1, <2>2 DEF MapsInv, EntriesCounted
<1>11. ASSUME NEW i \in Maps!Active, ~Maps!AtTop(mapper.maps[i]), ~Maps!AtTop(m)
       PROVE  Beside(mapper.maps[i], m)
  <2>1. i \in DOMAIN mapper.maps /\ mapper.maps[i].active /\ mapper.maps[i] \in MapRecord
    BY <1>7 DEF Maps!Active
  <2>2. InSpace(mapper.maps[i].addr, mapper.maps[i].size)
    BY <2>1 DEF MapsInv, EntriesInSpace
  <2>3. ~Maps!Meets(mapper.maps[i], addr, size)
    BY <1>2, <1>3, <2>1, MapFind
  <2>4. addr + size # MapWrap
    BY <1>4, <1>11 DEF Maps!AtTop
  <2>5. ~(addr < mapper.maps[i].addr + mapper.maps[i].size /\ mapper.maps[i].addr < addr + size)
    BY <1>1, <1>11, <2>1, <2>2, <2>3, <2>4, MapMeets
  <2>6. mapper.maps[i].addr \in Nat /\ mapper.maps[i].size \in Nat
    BY <2>2 DEF InSpace
  <2> QED BY <1>1, <1>4, <2>5, <2>6 DEF Beside
<1>12. EntriesApart'
  <2> SUFFICES ASSUME NEW i \in Maps!Active', NEW j \in Maps!Active', i # j,
                      ~Maps!AtTop(mapper'.maps[i]), ~Maps!AtTop(mapper'.maps[j])
               PROVE  Beside(mapper'.maps[i], mapper'.maps[j])
    BY DEF EntriesApart, Maps!AtTop
  <2>1. \A k \in Maps!Active : k \in 1 .. n
    BY <1>7 DEF Maps!Active
  <2>2. CASE i \in Maps!Active /\ j \in Maps!Active
    BY <1>7, <2>1, <2>2 DEF MapsInv, EntriesApart
  <2>3. CASE i \in Maps!Active /\ j = n + 1
    BY <1>7, <1>11, <2>1, <2>3
  <2>4. CASE i = n + 1 /\ j \in Maps!Active
    <3>1. Beside(mapper.maps[j], m)
      BY <1>7, <1>11, <2>1, <2>4
    <3> QED BY <1>7, <2>1, <2>4, <3>1 DEF Beside
  <2> QED BY <1>9, <2>2, <2>3, <2>4
<1>13. QED
  BY <1>6, <1>8, <1>10, <1>12 DEF MapsInv

LEMMA UnmapHolds ==
  ASSUME MapsInv, NEW r \in MapRanges, Maps!Unmap(r[1], r[2])
  PROVE  MapsInv'
<1> DEFINE k == Maps!Find(r[1], r[2])
<1>1. /\ k # 0
      /\ mapper' = [mapper EXCEPT !.maps[k].active = FALSE, !.unmapped = mapper.unmapped + 1]
  BY Zenon DEF Maps!Unmap
<1>2. mapper.maps \in Seq(MapRecord) /\ mapper.mapped \in Nat /\ mapper.unmapped \in Nat
  BY DEF MapsInv, MapperTyped, MapTables
<1>3. k \in DOMAIN mapper.maps /\ mapper.maps[k].active
  BY <1>1, <1>2, MapFind DEF Maps!Meets
<1> HIDE DEF k
<1>4. [mapper.maps EXCEPT ![k].active = FALSE] \in Seq(MapRecord)
  <2>1. mapper.maps[k] \in MapRecord
    BY <1>2, <1>3
  <2>2. [mapper.maps[k] EXCEPT !.active = FALSE] \in MapRecord
    BY <2>1 DEF MapRecord
  <2> QED BY <1>2, <1>3, <2>2
<1>5. /\ MapperTyped' /\ mapper'.maps = [mapper.maps EXCEPT ![k].active = FALSE]
      /\ mapper'.mapped = mapper.mapped /\ mapper'.unmapped = mapper.unmapped + 1
  <2> DEFINE table == [mapper.maps EXCEPT ![k].active = FALSE]
  <2>1. table \in MapTables
    BY <1>4 DEF MapTables
  <2>2. mapper' = [mapper EXCEPT !.maps = table, !.unmapped = mapper.unmapped + 1]
    BY <1>1 DEF MapsInv, MapperTyped
  <2> HIDE DEF table
  <2>3. mapper' = [mapper EXCEPT !.maps = table, !.mapped = mapper.mapped,
                                 !.unmapped = mapper.unmapped + 1]
    BY <2>2 DEF MapsInv, MapperTyped
  <2>4. mapper.unmapped + 1 \in Nat
    BY <1>2
  <2> QED BY <1>2, <2>1, <2>3, <2>4, MapperChanged DEF MapsInv, table
<1>6. /\ DOMAIN mapper'.maps = DOMAIN mapper.maps
      /\ \A i \in DOMAIN mapper.maps :
           /\ mapper'.maps[i].addr = mapper.maps[i].addr /\ mapper'.maps[i].size = mapper.maps[i].size
           /\ i # k => mapper'.maps[i] = mapper.maps[i]
      /\ ~mapper'.maps[k].active
  <2>1. \A i \in DOMAIN mapper.maps : mapper.maps[i] \in MapRecord
    BY <1>2
  <2> QED BY <1>3, <1>5, <2>1 DEF MapRecord
<1>7. EntriesInSpace'
  BY <1>6 DEF MapsInv, EntriesInSpace
<1>8. Maps!Active' = Maps!Active \ {k} /\ k \in Maps!Active
  BY <1>3, <1>6 DEF Maps!Active
<1>9. EntriesCounted'
  <2>1. IsFiniteSet(Maps!Active) /\ Cardinality(Maps!Active) \in Nat
    BY FS_CardinalityType DEF MapsInv, EntriesCounted
  <2>2. IsFiniteSet(Maps!Active') /\ Cardinality(Maps!Active') = Cardinality(Maps!Active) - 1
    BY <1>8, <2>1, FS_RemoveElement
  <2> QED BY <1>2, <1>5, <2>1, <2>2 DEF MapsInv, EntriesCounted
<1>10. EntriesApart'
  <2> SUFFICES ASSUME NEW i \in Maps!Active', NEW j \in Maps!Active', i # j,
                      ~Maps!AtTop(mapper'.maps[i]), ~Maps!AtTop(mapper'.maps[j])
               PROVE  Beside(mapper'.maps[i], mapper'.maps[j])
    BY DEF EntriesApart, Maps!AtTop
  <2>1. /\ i \in Maps!Active /\ j \in Maps!Active
        /\ mapper'.maps[i] = mapper.maps[i] /\ mapper'.maps[j] = mapper.maps[j]
    BY <1>6, <1>8 DEF Maps!Active
  <2> QED BY <2>1 DEF MapsInv, EntriesApart
<1>11. QED
  BY <1>5, <1>7, <1>9, <1>10 DEF MapsInv

LEMMA PrefetchHolds ==
  ASSUME MapsInv, NEW addr, NEW size, Maps!Prefetch(addr, size)
  PROVE  MapsInv'
<1>1. \A n \in Nat : Maps!Count(n) \in Nat
  BY DEF Maps!Count
<1>2. \/ mapper' = [mapper EXCEPT !.hits = Maps!Count(mapper.hits)]
      \/ mapper' = [mapper EXCEPT !.misses = Maps!Count(mapper.misses)]
  BY Zenon DEF Maps!Prefetch
<1>3. /\ MapperTyped' /\ mapper'.maps = mapper.maps /\ mapper'.mapped = mapper.mapped
      /\ mapper'.unmapped = mapper.unmapped
  BY <1>1, <1>2 DEF MapsInv, MapperTyped
<1>4. Maps!Active' = Maps!Active
  BY <1>3 DEF Maps!Active
<1>5. QED
  BY <1>3, <1>4 DEF MapsInv, EntriesInSpace, EntriesApart, EntriesCounted, Maps!AtTop

LEMMA MapsStep == MapsInv /\ [PlatformNext]_platformVars => MapsInv'
<1> SUFFICES ASSUME MapsInv, [PlatformNext]_platformVars PROVE MapsInv'
  OBVIOUS
<1>1. CASE UNCHANGED mapsVars
  <2>1. mapper' = mapper
    BY <1>1 DEF mapsVars
  <2>2. Maps!Active' = Maps!Active
    BY <2>1 DEF Maps!Active
  <2> QED BY <2>1, <2>2 DEF MapsInv, MapperTyped, EntriesInSpace, EntriesApart, EntriesCounted, Maps!AtTop
<1>2. CASE Maps!Next
  BY <1>2, MapsStarted, MapHolds, UnmapHolds, PrefetchHolds DEF Maps!Next
<1>3. UNCHANGED mapsVars \/ Maps!Next
  BY DEF PlatformNext, OthersStay, platformVars
<1>4. QED
  BY <1>1, <1>2, <1>3

(* spmp_map, spmp_unmap: a mapping is undone by an unmap of its own range, and no *)
(* active mappings overlap, but for those that end at the top.                   *)
THEOREM UnmapsUndoMaps == PlatformSpec => []UnmapUndoesMap
<1>1. MapsInv => UnmapUndoesMap
  <2> SUFFICES ASSUME MapsInv PROVE UnmapUndoesMap
    OBVIOUS
  <2> SUFFICES ASSUME NEW i \in Maps!Active
               PROVE  LET m == mapper.maps[i] IN
                      /\ Maps!Find(m.addr, m.size) = IF Maps!AtTop(m) THEN 0 ELSE i
                      /\ \A j \in Maps!Active \ {i} : LET n == mapper.maps[j] IN
                           ~Maps!AtTop(m) /\ ~Maps!AtTop(n) =>
                             m.addr + m.size <= n.addr \/ n.addr + n.size <= m.addr
    <3>1. mapper.mapped - mapper.unmapped = Cardinality(Maps!Active)
      BY DEF MapsInv, EntriesCounted
    <3>2. Maps!Cardinality(Maps!Active) = Cardinality(Maps!Active)
      BY Zenon DEF Cardinality, Maps!Cardinality
    <3> QED BY <3>1, <3>2 DEF UnmapUndoesMap, Maps!UnmapUndoesMap
  <2> DEFINE m == mapper.maps[i]
             k == Maps!Find(m.addr, m.size)
  <2>1. /\ mapper.maps \in Seq(MapRecord)
        /\ \A j \in DOMAIN mapper.maps :
             mapper.maps[j] \in MapRecord /\ InSpace(mapper.maps[j].addr, mapper.maps[j].size)
    BY DEF MapsInv, MapperTyped, EntriesInSpace, MapTables
  <2>2. i \in DOMAIN mapper.maps /\ m.active
    BY DEF Maps!Active
  <2>3. /\ k = 0 <=> \A j \in DOMAIN mapper.maps : ~Maps!Meets(mapper.maps[j], m.addr, m.size)
        /\ k # 0 => k \in DOMAIN mapper.maps /\ Maps!Meets(mapper.maps[k], m.addr, m.size)
    BY <2>1, MapFind
  <2> HIDE DEF k
  <2>4. ASSUME NEW j \in DOMAIN mapper.maps
        PROVE  Maps!Meets(mapper.maps[j], m.addr, m.size) <=>
                 /\ mapper.maps[j].active /\ ~Maps!AtTop(mapper.maps[j]) /\ ~Maps!AtTop(m)
                 /\ m.addr < mapper.maps[j].addr + mapper.maps[j].size
                 /\ mapper.maps[j].addr < m.addr + m.size
    <3>1. m.addr + m.size # MapWrap <=> ~Maps!AtTop(m)
      BY DEF Maps!AtTop
    <3> HIDE DEF m
    <3> QED BY <2>1, <2>2, <3>1, MapMeets DEF m
  <2>5. CASE Maps!AtTop(m)
    <3>1. k = 0
      BY <2>3, <2>4, <2>5
    <3> QED BY <2>5, <3>1 DEF k
  <2>6. CASE ~Maps!AtTop(m)
    <3>1. m.addr \in Nat /\ m.size \in Nat \ {0}
      BY <2>1, <2>2 DEF InSpace
    <3>2. Maps!Meets(m, m.addr, m.size)
      BY <2>2, <2>4, <2>6, <3>1
    <3>3. k # 0 /\ k \in Maps!Active /\ ~Maps!AtTop(mapper.maps[k])
      BY <2>2, <2>3, <2>4, <3>2 DEF Maps!Active
    <3>4. mapper.maps[k].addr \in Nat /\ mapper.maps[k].size \in Nat \ {0}
      BY <2>1, <2>3, <3>3 DEF InSpace
    <3>5. ~Beside(m, mapper.maps[k])
      BY <2>3, <2>4, <3>1, <3>3, <3>4 DEF Beside
    <3>6. k = i
      BY <2>6, <3>3, <3>5 DEF MapsInv, EntriesApart
    <3>7. \A j \in Maps!Active \ {i} : ~Maps!AtTop(mapper.maps[j]) => Beside(m, mapper.maps[j])
      BY <2>6 DEF MapsInv, EntriesApart
    <3> QED BY <2>6, <3>6, <3>7 DEF k, Beside
  <2> QED BY <2>5, <2>6
<1>2. PlatformInit => MapsInv
  BY MapsFresh DEF PlatformInit, Maps!Init
<1>3. QED
  BY <1>1, <1>2, MapsStep, PTL DEF PlatformSpec

-----------------------------------------------------------------------------
LEMMA Wrapped ==
  ASSUME NEW n \in Nat \ {0}, NEW a \in Int
  PROVE  /\ a \in 0 .. n - 1 => a % n = a
         /\ a + n \in 0 .. n - 1 => a % n = a + n
         /\ a = n => a % n = 0
<1>1. a = 0 * n + a /\ a = (-1) * n + (a + n) /\ (a = n => a = 1 * n + 0) /\ 0 \in 0 .. n - 1
  OBVIOUS
<1>2. ASSUME a \in 0 .. n - 1 PROVE a % n = a
  BY <1>1, <1>2, ModUnique
<1>3. ASSUME a + n \in 0 .. n - 1 PROVE a % n = a + n
  BY <1>1, <1>3, ModUnique
<1>4. ASSUME a = n PROVE a % n = 0
  BY <1>1, <1>4, ModUnique
<1>5. QED
  BY <1>2, <1>3, <1>4

-----------------------------------------------------------------------------
(* The graphics driver.                                                     *)

Places == 0 .. RingSize - 1
Ahead(i, j) == Graphics!Ahead(i, j)
Succ(i) == Graphics!Succ(i)

LEMMA RingNumbers ==
  ASSUME NEW i \in Places, NEW j \in Places
  PROVE  /\ Ahead(i, j) = IF j >= i THEN j - i ELSE j - i + RingSize
         /\ Succ(i) = IF i = RingSize - 1 THEN 0 ELSE i + 1
<1>1. RingSize \in Nat \ {0} /\ i \in Int /\ j \in Int
  BY GraphicsConstants DEF Places
<1>2. Ahead(i, j) = (j - i) % RingSize
  BY DEF Ahead, Graphics!Ahead
<1>3. ASSUME j >= i PROVE Ahead(i, j) = j - i
  <2>1. j - i \in 0 .. RingSize - 1 /\ j - i \in Int
    BY <1>1, <1>3 DEF Places
  <2>2. (j - i) % RingSize = j - i
    BY <1>1, <2>1, Wrapped
  <2> QED BY <1>2, <2>2
<1>4. ASSUME ~(j >= i) PROVE Ahead(i, j) = j - i + RingSize
  <2>1. j - i + RingSize \in 0 .. RingSize - 1 /\ j - i \in Int
    BY <1>1, <1>4 DEF Places
  <2>2. (j - i) % RingSize = j - i + RingSize
    BY <1>1, <2>1, Wrapped
  <2> QED BY <1>2, <2>2
<1>5. CASE i = RingSize - 1
  <2>1. i + 1 \in Int /\ i + 1 = RingSize
    BY <1>1, <1>5
  <2> QED BY <1>1, <1>3, <1>4, <1>5, <2>1, Wrapped DEF Succ, Graphics!Succ
<1>6. CASE i # RingSize - 1
  <2>1. i + 1 \in Int /\ i + 1 \in 0 .. RingSize - 1
    BY <1>1, <1>6 DEF Places
  <2> QED BY <1>1, <1>3, <1>4, <1>6, <2>1, Wrapped DEF Succ, Graphics!Succ
<1>7. QED
  BY <1>5, <1>6

\* From i round the ring come j, k and l, in this order.
InOrder(i, j, k, l) == Ahead(i, j) <= Ahead(i, k) /\ Ahead(i, k) <= Ahead(i, l)

LEMMA RingOrder ==
  /\ Places \subseteq Nat /\ 0 \in Places
  /\ \A i \in Places : Succ(i) \in Places
  /\ InOrder(0, 0, 0, 0)
  /\ \A i, j, k, l \in Places : InOrder(i, j, k, l) =>
       /\ InOrder(j, j, k, l)
       /\ j # k => InOrder(i, Succ(j), k, l)
       /\ InOrder(i, j, l, l)
       /\ Succ(l) # i => InOrder(i, j, k, Succ(l))
<1>1. RingSize \in Nat \ {0}
  BY GraphicsConstants
<1>2. Places \subseteq Nat /\ 0 \in Places
  BY <1>1 DEF Places
<1>3. ASSUME NEW i \in Places PROVE Succ(i) \in Places
  BY <1>1, RingNumbers DEF Places
<1>4. InOrder(0, 0, 0, 0)
  BY <1>2 , RingNumbers DEF InOrder
<1>5. ASSUME NEW i \in Places, NEW j \in Places, NEW k \in Places, NEW l \in Places,
             InOrder(i, j, k, l)
      PROVE  /\ InOrder(j, j, k, l)
             /\ j # k => InOrder(i, Succ(j), k, l)
             /\ InOrder(i, j, l, l)
             /\ Succ(l) # i => InOrder(i, j, k, Succ(l))
  <2>1. Succ(j) \in Places /\ Succ(l) \in Places
    BY <1>3
  <2>2. i \in 0 .. RingSize - 1 /\ j \in 0 .. RingSize - 1 /\ k \in 0 .. RingSize - 1 /\ l \in 0 .. RingSize - 1
    BY DEF Places
  <2>3. /\ Ahead(i, j) = IF j >= i THEN j - i ELSE j - i + RingSize
        /\ Ahead(i, k) = IF k >= i THEN k - i ELSE k - i + RingSize
        /\ Ahead(i, l) = IF l >= i THEN l - i ELSE l - i + RingSize
        /\ Ahead(j, j) = 0
        /\ Ahead(j, k) = IF k >= j THEN k - j ELSE k - j + RingSize
        /\ Ahead(j, l) = IF l >= j THEN l - j ELSE l - j + RingSize
        /\ Ahead(i, Succ(j)) = IF Succ(j) >= i THEN Succ(j) - i ELSE Succ(j) - i + RingSize
        /\ Ahead(i, Succ(l)) = IF Succ(l) >= i THEN Succ(l) - i ELSE Succ(l) - i + RingSize
        /\ Succ(j) = IF j = RingSize - 1 THEN 0 ELSE j + 1
        /\ Succ(l) = IF l = RingSize - 1 THEN 0 ELSE l + 1
    <3>1. Ahead(j, j) = 0
      BY <2>2, RingNumbers
    <3> QED BY <2>1, <3>1, RingNumbers
  <2>4. Ahead(i, j) <= Ahead(i, k) /\ Ahead(i, k) <= Ahead(i, l)
    BY <1>5 DEF InOrder
  <2>5. InOrder(j, j, k, l)
    BY <1>1, <2>2, <2>3, <2>4 DEF InOrder
  <2>6. j # k => InOrder(i, Succ(j), k, l)
    BY <1>1, <2>2, <2>3, <2>4 DEF InOrder
  <2>7. InOrder(i, j, l, l)
    BY <1>1, <2>2, <2>3, <2>4 DEF InOrder
  <2>8. Succ(l) # i => InOrder(i, j, k, Succ(l))
    BY <1>1, <2>2, <2>3, <2>4 DEF InOrder
  <2> QED BY <2>5, <2>6, <2>7, <2>8
<1>6. QED
  BY <1>2, <1>3, <1>4, <1>5

Left == 0 .. Polls

LEMMA LeftFacts ==
  /\ Left \subseteq Nat /\ Polls \in Left
  /\ \A n \in Left : n # 0 => n - 1 \in Left
  BY GraphicsConstants DEF Left

\* The records of the device, the driver and the handler.
GraphicsTyped ==
  /\ gpu = [ready |-> gpu.ready, head |-> gpu.head, doorbell |-> gpu.doorbell, bits |-> gpu.bits,
            freq |-> gpu.freq, power |-> gpu.power, sense |-> gpu.sense]
  /\ drv = [attach |-> drv.attach, left |-> drv.left, readyLeft |-> drv.readyLeft,
            head |-> drv.head, tail |-> drv.tail, slots |-> drv.slots]
  /\ irq = [at |-> irq.at, bits |-> irq.bits]
  /\ gpu.head \in Places /\ gpu.doorbell \in Places /\ drv.head \in Places /\ drv.tail \in Places
  /\ drv.left \in Left

\* The ring is in order once the driver is attached; before, nothing has moved.
RingSound ==
  IF drv.attach = "on" THEN InOrder(drv.head, gpu.head, gpu.doorbell, drv.tail)
  ELSE gpu.head = 0 /\ gpu.doorbell = 0 /\ irq.at = "none"

\* A device that is ready is found by the next poll; the driver attaches to one that is
\* not ready when no poll is left.
AttachSound ==
  /\ drv.attach = "polling" /\ gpu.ready => drv.readyLeft = drv.left
  /\ drv.attach = "timeout" => gpu.ready /\ drv.readyLeft = 1
  /\ drv.attach = "on" => drv.readyLeft # 1
  /\ drv.attach = "polling" /\ ~gpu.ready => drv.readyLeft = Graphics!Never
  /\ drv.attach = "on" /\ ~gpu.ready => drv.left = 0

GraphicsInv == GraphicsTyped /\ RingSound /\ AttachSound

LEMMA NeverIsNotLast == Graphics!Never # 1
  BY GraphicsConstants DEF Graphics!Never

LEMMA GraphicsInit == Graphics!Init => GraphicsInv
<1> SUFFICES ASSUME Graphics!Init PROVE GraphicsInv
  OBVIOUS
<1>1. GraphicsTyped
  BY RingOrder, LeftFacts DEF Graphics!Init, GraphicsTyped, Graphics!Asleep, Graphics!Handler
<1>2. RingSound
  BY DEF Graphics!Init, RingSound, Graphics!Asleep, Graphics!Handler
<1>3. AttachSound
  BY DEF Graphics!Init, AttachSound
<1>4. QED
  BY <1>1, <1>2, <1>3 DEF GraphicsInv

LEMMA BecomeReadyHolds == ASSUME GraphicsInv, Graphics!BecomeReady PROVE GraphicsInv'
<1>1. /\ ~gpu.ready /\ gpu' = [gpu EXCEPT !.ready = TRUE]
      /\ drv' = [drv EXCEPT !.readyLeft = drv.left] /\ irq' = irq
  BY DEF Graphics!BecomeReady
<1>2. GraphicsTyped'
  BY <1>1 DEF GraphicsInv, GraphicsTyped
<1>3. /\ gpu'.head = gpu.head /\ gpu'.doorbell = gpu.doorbell /\ drv'.head = drv.head
      /\ drv'.tail = drv.tail /\ drv'.attach = drv.attach /\ gpu'.ready
      /\ drv'.left = drv.left /\ drv'.readyLeft = drv.left
  BY <1>1 DEF GraphicsInv, GraphicsTyped
<1>4. QED
  BY <1>1, <1>2, <1>3 DEF GraphicsInv, RingSound, AttachSound

LEMMA CompleteHolds == ASSUME GraphicsInv, Graphics!Complete PROVE GraphicsInv'
<1>1. /\ gpu.head # gpu.doorbell /\ drv' = drv /\ irq' = irq
      /\ gpu' = [gpu EXCEPT !.head = Succ(gpu.head), !.bits = gpu.bits \cup {"done"}]
  BY DEF Graphics!Complete, Succ
<1>2. gpu.head \in Places /\ gpu.doorbell \in Places /\ drv.head \in Places /\ drv.tail \in Places
  BY DEF GraphicsInv, GraphicsTyped
<1>3. GraphicsTyped'
  BY <1>1, <1>2, RingOrder DEF GraphicsInv, GraphicsTyped
<1>4. gpu'.head = Succ(gpu.head) /\ gpu'.doorbell = gpu.doorbell /\ gpu'.ready = gpu.ready
  BY <1>1 DEF GraphicsInv, GraphicsTyped
<1>5. drv.attach = "on" /\ InOrder(drv.head, Succ(gpu.head), gpu.doorbell, drv.tail)
  BY <1>1, <1>2, RingOrder DEF GraphicsInv, RingSound
<1>6. QED
  BY <1>1, <1>3, <1>4, <1>5 DEF GraphicsInv, RingSound, AttachSound

LEMMA OverheatHolds == ASSUME GraphicsInv, Graphics!Overheat PROVE GraphicsInv'
<1>1. gpu' = [gpu EXCEPT !.bits = gpu.bits \cup {"throttle"}] /\ drv' = drv /\ irq' = irq
  BY DEF Graphics!Overheat
<1>2. QED
  BY <1>1 DEF GraphicsInv, GraphicsTyped, RingSound, AttachSound

LEMMA ProbeHolds ==
  ASSUME GraphicsInv, NEW known \in BOOLEAN, Graphics!Probe(known)
  PROVE  GraphicsInv'
<1>1. (drv.attach = "off" \/ drv.attach = "timeout") /\ irq' = irq
  BY DEF Graphics!Probe
<1>2. CASE known
  <2>1. /\ gpu' = [gpu EXCEPT !.power = "balanced"]
        /\ drv' = [drv EXCEPT !.attach = "polling", !.left = Polls, !.slots = <<>>,
                              !.readyLeft = IF gpu.ready THEN Polls ELSE Graphics!Never]
    BY <1>2 DEF Graphics!Probe
  <2>2. GraphicsTyped'
    BY <1>1, <2>1, LeftFacts DEF GraphicsInv, GraphicsTyped
  <2>3. /\ gpu'.head = gpu.head /\ gpu'.doorbell = gpu.doorbell /\ gpu'.ready = gpu.ready
        /\ drv'.attach = "polling" /\ drv'.left = Polls
        /\ (gpu.ready => drv'.readyLeft = Polls) /\ (~gpu.ready => drv'.readyLeft = Graphics!Never)
    BY <2>1 DEF GraphicsInv, GraphicsTyped
  <2> QED BY <1>1, <2>2, <2>3 DEF GraphicsInv, RingSound, AttachSound
<1>3. CASE ~known
  <2>1. gpu' = gpu /\ drv' = [drv EXCEPT !.slots = <<>>]
    BY <1>3 DEF Graphics!Probe
  <2> QED BY <1>1, <2>1 DEF GraphicsInv, GraphicsTyped, RingSound, AttachSound
<1>4. QED
  BY <1>2, <1>3

LEMMA PollHolds == ASSUME GraphicsInv, Graphics!Poll PROVE GraphicsInv'
<1>1. drv.attach = "polling" /\ gpu' = gpu /\ irq' = irq
  BY DEF Graphics!Poll
<1>2. /\ drv.left \in Left /\ drv.left \in Nat /\ (drv.left # 0 => drv.left - 1 \in Left)
      /\ 0 \in Places /\ InOrder(0, 0, 0, 0)
      /\ gpu.head = 0 /\ gpu.doorbell = 0 /\ (gpu.ready => drv.readyLeft = drv.left)
  BY <1>1, LeftFacts, RingOrder DEF GraphicsInv, GraphicsTyped, RingSound, AttachSound
<1>3. CASE /\ drv.attach = "polling"
           /\ \/ /\ drv.left = 0
                 /\ drv' = [drv EXCEPT !.attach = "on", !.head = 0, !.tail = 0]
              \/ /\ drv.left # 0 /\ gpu.ready /\ drv.left - 1 # 0
                 /\ drv' = [drv EXCEPT !.left = drv.left - 1, !.attach = "on", !.head = 0, !.tail = 0]
  <2>1. GraphicsTyped'
    BY <1>1, <1>2, <1>3 DEF GraphicsInv, GraphicsTyped
  <2>2. drv'.attach = "on" /\ drv'.head = 0 /\ drv'.tail = 0 /\ drv'.readyLeft = drv.readyLeft
    BY <1>3 DEF GraphicsInv, GraphicsTyped
  <2>3. drv.left = 0 => drv'.left = 0
    BY <1>3 DEF GraphicsInv, GraphicsTyped
  <2>4. drv.readyLeft # 1
    <3>1. CASE gpu.ready
      BY <1>2, <1>3, <3>1
    <3>2. CASE ~gpu.ready
      BY <1>1, <3>2, NeverIsNotLast DEF GraphicsInv, AttachSound
    <3> QED BY <3>1, <3>2
  <2>5. ~gpu.ready => drv'.left = 0
    BY <1>3, <2>3
  <2> QED BY <1>1, <1>2, <2>1, <2>2, <2>4, <2>5 DEF GraphicsInv, RingSound, AttachSound
<1>4. CASE drv.left # 0 /\ ~gpu.ready /\ drv' = [drv EXCEPT !.left = drv.left - 1]
  <2>1. GraphicsTyped'
    BY <1>1, <1>2, <1>4 DEF GraphicsInv, GraphicsTyped
  <2>2. drv'.attach = "polling" /\ drv'.readyLeft = drv.readyLeft
    BY <1>1, <1>4 DEF GraphicsInv, GraphicsTyped
  <2> QED BY <1>1, <1>4, <2>1, <2>2 DEF GraphicsInv, RingSound, AttachSound
<1>5. CASE /\ gpu.ready /\ drv.left - 1 = 0
           /\ drv' = [drv EXCEPT !.left = drv.left - 1, !.attach = "timeout"]
  <2>1. GraphicsTyped'
    BY <1>1, <1>2, <1>5 DEF GraphicsInv, GraphicsTyped
  <2>2. drv'.attach = "timeout" /\ drv'.readyLeft = drv.left /\ drv.left = 1
    BY <1>2, <1>5 DEF GraphicsInv, GraphicsTyped
  <2> QED BY <1>1, <1>5, <2>1, <2>2 DEF GraphicsInv, RingSound, AttachSound
<1>6. \/ drv.left = 0 /\ drv' = [drv EXCEPT !.attach = "on", !.head = 0, !.tail = 0]
      \/ /\ drv.left # 0 /\ gpu.ready /\ drv.left - 1 # 0
         /\ drv' = [drv EXCEPT !.left = drv.left - 1, !.attach = "on", !.head = 0, !.tail = 0]
      \/ drv.left # 0 /\ ~gpu.ready /\ drv' = [drv EXCEPT !.left = drv.left - 1]
      \/ /\ gpu.ready /\ drv.left - 1 = 0
         /\ drv' = [drv EXCEPT !.left = drv.left - 1, !.attach = "timeout"]
  BY Zenon DEF Graphics!Poll, Graphics!TimedOut
<1>7. QED
  BY <1>1, <1>3, <1>4, <1>5, <1>6

LEMMA SubmitHolds == ASSUME GraphicsInv, Graphics!Submit PROVE GraphicsInv'
<1>1. /\ drv.attach = "on" /\ Succ(drv.tail) # drv.head /\ gpu' = gpu /\ irq' = irq
      /\ drv' = [drv EXCEPT !.tail = Succ(drv.tail)]
  BY DEF Graphics!Submit, Graphics!Submitting, Graphics!Attached, Graphics!Room, Graphics!Full, Succ
<1>2. gpu.head \in Places /\ gpu.doorbell \in Places /\ drv.head \in Places /\ drv.tail \in Places
  BY DEF GraphicsInv, GraphicsTyped
<1>3. GraphicsTyped'
  BY <1>1, <1>2, RingOrder DEF GraphicsInv, GraphicsTyped
<1>4. drv'.attach = "on" /\ drv'.head = drv.head /\ drv'.tail = Succ(drv.tail)
  BY <1>1 DEF GraphicsInv, GraphicsTyped
<1>5. InOrder(drv.head, gpu.head, gpu.doorbell, Succ(drv.tail))
  BY <1>1, <1>2, RingOrder DEF GraphicsInv, RingSound
<1>6. QED
  BY <1>1, <1>3, <1>4, <1>5 DEF GraphicsInv, RingSound, AttachSound

LEMMA KickHolds == ASSUME GraphicsInv, Graphics!Kick PROVE GraphicsInv'
<1>1. /\ drv.attach = "on" /\ drv' = drv /\ irq' = irq /\ gpu' = [gpu EXCEPT !.doorbell = drv.tail]
  BY DEF Graphics!Kick, Graphics!Submitting, Graphics!Attached
<1>2. gpu.head \in Places /\ gpu.doorbell \in Places /\ drv.head \in Places /\ drv.tail \in Places
  BY DEF GraphicsInv, GraphicsTyped
<1>3. GraphicsTyped'
  BY <1>1, <1>2 DEF GraphicsInv, GraphicsTyped
<1>4. gpu'.head = gpu.head /\ gpu'.doorbell = drv.tail
  BY <1>1 DEF GraphicsInv, GraphicsTyped
<1>5. InOrder(drv.head, gpu.head, drv.tail, drv.tail)
  BY <1>1, <1>2, RingOrder DEF GraphicsInv, RingSound
<1>6. QED
  BY <1>1, <1>3, <1>4, <1>5 DEF GraphicsInv, RingSound, AttachSound

LEMMA InterruptedHolds == ASSUME GraphicsInv, Graphics!Interrupted PROVE GraphicsInv'
<1>1. drv.attach = "on" /\ gpu' = gpu /\ drv' = drv /\ irq' = [at |-> "serve", bits |-> gpu.bits]
  BY DEF Graphics!Interrupted, Graphics!Attached, Graphics!Handler
<1>2. QED
  BY <1>1 DEF GraphicsInv, GraphicsTyped, RingSound, AttachSound

LEMMA ServeHolds == ASSUME GraphicsInv, Graphics!Serve PROVE GraphicsInv'
<1> DEFINE head == IF "done" \in irq.bits THEN gpu.head ELSE drv.head
           slower == IF "throttle" \in irq.bits THEN (gpu.freq * 9) \div 10 ELSE gpu.freq
<1>1. irq.at = "serve" /\ drv' = [drv EXCEPT !.head = head] /\ gpu' = [gpu EXCEPT !.freq = slower]
      /\ irq' = [irq EXCEPT !.at = "clear"]
  BY DEF Graphics!Serve, Graphics!HeadAfter
<1>2. gpu.head \in Places /\ gpu.doorbell \in Places /\ drv.head \in Places /\ drv.tail \in Places
  BY DEF GraphicsInv, GraphicsTyped
<1>3. head \in Places
  BY <1>2
<1>4. drv.attach = "on" /\ InOrder(drv.head, gpu.head, gpu.doorbell, drv.tail)
  BY <1>1 DEF GraphicsInv, RingSound
<1>5. InOrder(head, gpu.head, gpu.doorbell, drv.tail)
  BY <1>2, <1>4, RingOrder
<1> HIDE DEF head, slower
<1>6. GraphicsTyped'
  BY <1>1, <1>2, <1>3 DEF GraphicsInv, GraphicsTyped
<1>7. /\ drv'.attach = "on" /\ drv'.head = head /\ drv'.tail = drv.tail
      /\ gpu'.head = gpu.head /\ gpu'.doorbell = gpu.doorbell /\ gpu'.ready = gpu.ready
      /\ drv'.left = drv.left /\ drv'.readyLeft = drv.readyLeft
  BY <1>1, <1>4 DEF GraphicsInv, GraphicsTyped
<1>8. AttachSound'
  BY <1>4, <1>7 DEF GraphicsInv, AttachSound
<1>9. RingSound'
  BY <1>1, <1>5, <1>7 DEF GraphicsInv, RingSound
<1>10. QED
  BY <1>6, <1>8, <1>9 DEF GraphicsInv

LEMMA ClearHolds == ASSUME GraphicsInv, Graphics!Clear PROVE GraphicsInv'
<1>1. /\ irq.at = "clear" /\ gpu' = [gpu EXCEPT !.bits = gpu.bits \ irq.bits] /\ drv' = drv
      /\ irq' = [at |-> "none", bits |-> {}]
  BY DEF Graphics!Clear, Graphics!Asleep, Graphics!Handler
<1>2. drv.attach = "on"
  BY <1>1 DEF GraphicsInv, RingSound
<1>3. GraphicsTyped'
  BY <1>1 DEF GraphicsInv, GraphicsTyped
<1>4. gpu'.head = gpu.head /\ gpu'.doorbell = gpu.doorbell
  BY <1>1 DEF GraphicsInv, GraphicsTyped
<1>5. QED
  BY <1>1, <1>2, <1>3, <1>4 DEF GraphicsInv, RingSound, AttachSound

\* Buffers and shaders.
LEMMA SlotsHold ==
  ASSUME GraphicsInv, NEW slots, drv' = [drv EXCEPT !.slots = slots], gpu' = gpu, irq' = irq
  PROVE  GraphicsInv'
  BY DEF GraphicsInv, GraphicsTyped, RingSound, AttachSound

\* Power, frequency and sensors.
LEMMA ControlHolds ==
  ASSUME GraphicsInv, NEW x, drv' = drv, irq' = irq,
         \/ gpu' = [gpu EXCEPT !.power = x]
         \/ gpu' = [gpu EXCEPT !.freq = x]
         \/ gpu' = [gpu EXCEPT !.sense = x]
  PROVE  GraphicsInv'
  BY DEF GraphicsInv, GraphicsTyped, RingSound, AttachSound

LEMMA ServiceHolds ==
  ASSUME GraphicsInv,
         \/ Graphics!AllocBuffer \/ Graphics!CreateShader \/ Graphics!SetFreq
         \/ Graphics!SetPower("idle") \/ (\E on \in BOOLEAN : Graphics!SetBradsense(on))
         \/ \E i \in DOMAIN drv.slots : Graphics!FreeBuffer(i) \/ Graphics!DestroyShader(i)
  PROVE  GraphicsInv'
<1>1. CASE Graphics!AllocBuffer
  BY <1>1, SlotsHold DEF Graphics!AllocBuffer
<1>2. CASE Graphics!CreateShader
  <2>1. PICK k : drv' = [drv EXCEPT !.slots[k] = "shader"]
    BY <1>2, Zenon DEF Graphics!CreateShader
  <2>2. drv' = [drv EXCEPT !.slots = [drv.slots EXCEPT ![k] = "shader"]] /\ gpu' = gpu /\ irq' = irq
    BY <1>2, <2>1 DEF Graphics!CreateShader
  <2> QED BY <2>2, SlotsHold
<1>3. CASE Graphics!SetFreq
  BY <1>3, ControlHolds DEF Graphics!SetFreq
<1>4. CASE Graphics!SetPower("idle")
  BY <1>4, ControlHolds DEF Graphics!SetPower
<1>5. CASE \E on \in BOOLEAN : Graphics!SetBradsense(on)
  BY <1>5, ControlHolds DEF Graphics!SetBradsense
<1>6. CASE \E i \in DOMAIN drv.slots : Graphics!FreeBuffer(i) \/ Graphics!DestroyShader(i)
  <2>1. PICK i, x : drv' = [drv EXCEPT !.slots[i] = x] /\ gpu' = gpu /\ irq' = irq
    BY <1>6, Zenon DEF Graphics!FreeBuffer, Graphics!DestroyShader
  <2>2. drv' = [drv EXCEPT !.slots = [drv.slots EXCEPT ![i] = x]]
    BY <2>1
  <2> QED BY <2>1, <2>2, SlotsHold
<1>7. QED
  BY <1>1, <1>2, <1>3, <1>4, <1>5, <1>6

LEMMA GraphicsStep == GraphicsInv /\ [PlatformNext]_platformVars => GraphicsInv'
<1> SUFFICES ASSUME GraphicsInv, [PlatformNext]_platformVars PROVE GraphicsInv'
  OBVIOUS
<1>1. CASE UNCHANGED graphicsVars
  BY <1>1 DEF graphicsVars, GraphicsInv, GraphicsTyped, RingSound, AttachSound
<1>2. CASE Graphics!Next
  BY <1>2, BecomeReadyHolds, CompleteHolds, OverheatHolds, ProbeHolds, PollHolds, SubmitHolds,
     KickHolds, InterruptedHolds, ServeHolds, ClearHolds, ServiceHolds, Zenon DEF Graphics!Next
<1>3. UNCHANGED graphicsVars \/ Graphics!Next
  BY DEF PlatformNext, OthersStay, platformVars
<1>4. QED
  BY <1>1, <1>2, <1>3

THEOREM GraphicsInvariance == PlatformSpec => []GraphicsInv
<1>1. PlatformInit => GraphicsInv
  BY GraphicsInit DEF PlatformInit
<1>2. QED
  BY <1>1, GraphicsStep, PTL DEF PlatformSpec

(* gfx_enqueue_cmd, gfx_irq_handler: the ring never reuses the place of a command *)
(* the device has not completed.                                                 *)
THEOREM RingNeverOverruns == PlatformSpec => []RingKeepsPending
<1>1. GraphicsInv => RingKeepsPending
  BY DEF GraphicsInv, RingSound, InOrder, Ahead, RingKeepsPending, Graphics!RingKeepsPending,
     Graphics!Attached
<1>2. QED
  BY <1>1, GraphicsInvariance, PTL

(* gfx_driver_init: a timeout is reported of exactly the devices that became ready *)
(* between the last two polls; the driver attaches to earlier and later ones.     *)
THEOREM TimesOutAtLastPoll == PlatformSpec => []OnlyLastPollTimesOut
<1>1. GraphicsInv => OnlyLastPollTimesOut
  BY DEF GraphicsInv, AttachSound, OnlyLastPollTimesOut, Graphics!OnlyLastPollTimesOut,
         Graphics!Attached
<1>2. QED
  BY <1>1, GraphicsInvariance, PTL

-----------------------------------------------------------------------------
(* The core driver.                                                         *)

LEMMA CoreNumbers ==
  /\ Cores!RowCells = 4 /\ Cores!MaxClusters = 4 /\ Cores!Clusters = 0 .. 3
  /\ Cores!Cells = 0 .. 15 /\ \A c, i : Cores!Cell(c, i) = 4 * c + i
  BY DEF Cores!RowCells, Cores!MaxClusters, Cores!Clusters, Cores!Cells, Cores!Cell

Config(sku) == Cores!SkuTable[sku]

\* The frequencies and voltages of a core, and the frequencies a SKU gives one.
CoreFreqs == 0 .. 5200
CoreVolts == 0 .. 1500
Rated == 100 .. 5200

\* What the table says of a SKU that is booted.
SkuSound(cfg) ==
  /\ cfg.phoenix \in 0 .. 8 /\ cfg.falcon \in 0 .. 8
  /\ cfg.fmax \in Rated /\ cfg.ffalcon \in CoreFreqs
  /\ cfg.falcon > 0 => cfg.ffalcon >= 100

LEMMA Ratings ==
  /\ Rated \subseteq CoreFreqs /\ \A f \in Rated : f >= 100
  /\ 950 \in CoreVolts /\ 950 >= 500 /\ 700 \in CoreVolts /\ 700 >= 500
<1>1. \A f \in Rated : f \in CoreFreqs
  <2> SUFFICES ASSUME NEW f \in Rated PROVE f \in CoreFreqs
    OBVIOUS
  <2>1. f \in 100 .. 5200
    BY DEF Rated
  <2>2. f \in 0 .. 5200
    BY <2>1
  <2> QED BY <2>2 DEF CoreFreqs
<1>2. \A f \in Rated : f >= 100
  BY DEF Rated
<1>3. 950 \in CoreVolts /\ 700 \in CoreVolts
  BY DEF CoreVolts
<1>4. 950 >= 500 /\ 700 >= 500
  OBVIOUS
<1>5. QED
  BY <1>1, <1>2, <1>3, <1>4

LEMMA SkusSound == \A sku \in BootSkus : SkuSound(Config(sku))
<1> SUFFICES ASSUME NEW sku \in BootSkus PROVE SkuSound(Config(sku))
  OBVIOUS
<1>1. sku \in {"P1E4", "P2E4", "P4E4", "P6E4", "P4E8", "P8E4", "P8E8", "G60", "G80", "W88"}
  BY CoreConstants DEF Cores!SkuTable
<1>2. SkuSound(Config("P1E4"))
  <2>1. Config("P1E4") = Cores!Sku(1, 4, 0, 2400, 1800, 141)
    BY DEF Config, Cores!SkuTable
  <2> QED BY <2>1 DEF SkuSound, Cores!Sku, Rated, CoreFreqs
<1>3. SkuSound(Config("P2E4"))
  <2>1. Config("P2E4") = Cores!Sku(2, 4, 1, 2800, 1900, 242)
    BY DEF Config, Cores!SkuTable
  <2> QED BY <2>1 DEF SkuSound, Cores!Sku, Rated, CoreFreqs
<1>4. SkuSound(Config("P4E4"))
  <2>1. Config("P4E4") = Cores!Sku(4, 4, 2, 3200, 2000, 443)
    BY DEF Config, Cores!SkuTable
  <2> QED BY <2>1 DEF SkuSound, Cores!Sku, Rated, CoreFreqs
<1>5. SkuSound(Config("P6E4"))
  <2>1. Config("P6E4") = Cores!Sku(6, 4, 3, 3600, 2000, 644)
    BY DEF Config, Cores!SkuTable
  <2> QED BY <2>1 DEF SkuSound, Cores!Sku, Rated, CoreFreqs
<1>6. SkuSound(Config("P4E8"))
  <2>1. Config("P4E8") = Cores!Sku(4, 8, 4, 3800, 2200, 485)
    BY DEF Config, Cores!SkuTable
  <2> QED BY <2>1 DEF SkuSound, Cores!Sku, Rated, CoreFreqs
<1>7. SkuSound(Config("P8E4"))
  <2>1. Config("P8E4") = Cores!Sku(8, 4, 5, 4000, 2200, 846)
    BY DEF Config, Cores!SkuTable
  <2> QED BY <2>1 DEF SkuSound, Cores!Sku, Rated, CoreFreqs
<1>8. SkuSound(Config("P8E8"))
  <2>1. Config("P8E8") = Cores!Sku(8, 8, 6, 4200, 2400, 887)
    BY DEF Config, Cores!SkuTable
  <2> QED BY <2>1 DEF SkuSound, Cores!Sku, Rated, CoreFreqs
<1>9. SkuSound(Config("G60"))
  <2>1. Config("G60") = Cores!Sku(6, 0, 6, 5000, 0, 960)
    BY DEF Config, Cores!SkuTable
  <2> QED BY <2>1 DEF SkuSound, Cores!Sku, Rated, CoreFreqs
<1>10. SkuSound(Config("G80"))
  <2>1. Config("G80") = Cores!Sku(8, 0, 6, 5200, 0, 980)
    BY DEF Config, Cores!SkuTable
  <2> QED BY <2>1 DEF SkuSound, Cores!Sku, Rated, CoreFreqs
<1>11. SkuSound(Config("W88"))
  <2>1. Config("W88") = Cores!Sku(8, 8, 6, 4000, 2600, 188)
    BY DEF Config, Cores!SkuTable
  <2> QED BY <2>1 DEF SkuSound, Cores!Sku, Rated, CoreFreqs
<1>12. QED
  BY <1>1, <1>2, <1>3, <1>4, <1>5, <1>6, <1>7, <1>8, <1>9, <1>10, <1>11, Zenon

\* The shares of a cluster: only the first two have any.
Phoenixes(sku, c) == Cores!Share(Config(sku).phoenix, c)
Falcons(sku, c) == Cores!Share(Config(sku).falcon, c)

LEMMA ShareBounds ==
  ASSUME NEW n \in 0 .. 8, NEW c \in 0 .. 3
  PROVE  Cores!Share(n, c) \in 0 .. 4 /\ (n = 0 => Cores!Share(n, c) = 0)
         /\ (c >= 2 => Cores!Share(n, c) = 0)
  BY CoreNumbers DEF Cores!Share, Cores!AtMostRow

LEMMA Shares ==
  ASSUME NEW sku \in BootSkus, NEW c \in 0 .. 3
  PROVE  /\ Phoenixes(sku, c) \in 0 .. 4 /\ Falcons(sku, c) \in 0 .. 4
         /\ Falcons(sku, c) > 0 => Config(sku).ffalcon >= 100
         /\ c \in Cores!Active(sku) <=> Phoenixes(sku, c) + Falcons(sku, c) > 0
         /\ c \in Cores!Active(sku) => c \in 0 .. 1
<1>1. SkuSound(Config(sku))
  BY SkusSound
<1>2. /\ Phoenixes(sku, c) \in 0 .. 4 /\ Falcons(sku, c) \in 0 .. 4
      /\ (c >= 2 => Phoenixes(sku, c) = 0 /\ Falcons(sku, c) = 0)
      /\ Config(sku).falcon = 0 => Falcons(sku, c) = 0
  BY <1>1, ShareBounds DEF SkuSound, Phoenixes, Falcons
<1>3. c \in Cores!Active(sku) <=> Phoenixes(sku, c) + Falcons(sku, c) > 0
  BY CoreNumbers DEF Cores!Active, Phoenixes, Falcons, Config
<1>4. Falcons(sku, c) > 0 => Config(sku).ffalcon >= 100
  <2>1. Config(sku).falcon \in 0 .. 8
        /\ (Config(sku).falcon > 0 => Config(sku).ffalcon >= 100)
    BY <1>1 DEF SkuSound
  <2> QED BY <1>2, <2>1
<1>5. QED
  BY <1>2, <1>3, <1>4

LEMMA ActiveClusters ==
  ASSUME NEW sku \in BootSkus PROVE Cores!Active(sku) \subseteq 0 .. 1
<1>1. Cores!Active(sku) \subseteq 0 .. 3
  BY CoreNumbers DEF Cores!Active
<1>2. QED
  BY <1>1, Shares

\* A core, and one with an operating point.
IsCore(x) ==
  /\ x = [type |-> x.type, freq |-> x.freq, volt |-> x.volt, p |-> x.p, init |-> x.init,
          run |-> x.run]
  /\ x.freq \in CoreFreqs /\ x.volt \in CoreVolts
Powered(x) == x.freq >= 100 /\ x.volt >= 500
\* A cluster's record.
IsCluster(x) ==
  /\ x = [np |-> x.np, nf |-> x.nf, l2 |-> x.l2, ways |-> x.ways, init |-> x.init]
  /\ x.np \in 0 .. 4 /\ x.nf \in 0 .. 4

IsCells(cells) ==
  cells = [k \in 0 .. 15 |-> cells[k]] /\ \A k \in 0 .. 15 : IsCore(cells[k])
\* Every core that is initialised, or was dealt to one of the first n clusters, has an
\* operating point.
InitPowered(cells) == \A k \in 0 .. 15 : cells[k].init => Powered(cells[k])
DealtPowered(cells, sku, n) ==
  \A c \in 0 .. 1, j \in 0 .. 7 :
    c < n /\ j < Phoenixes(sku, c) + Falcons(sku, c) => Powered(cells[4 * c + j])
Still(cells) == \A k \in 0 .. 15 : ~cells[k].run

\* brad_soc_init writes one cluster.
Dealt(cells, sku, c) == IF c \in Cores!Active(sku) THEN Cores!Written(cells, sku, c) ELSE cells
Sound(cells, sku, n) ==
  IsCells(cells) /\ InitPowered(cells) /\ DealtPowered(cells, sku, n) /\ Still(cells)

LEMMA CoreInitSet ==
  ASSUME NEW x, IsCore(x), NEW b, NEW y, y = [x EXCEPT !.init = b]
  PROVE  IsCore(y) /\ y.init = b /\ y.run = x.run /\ (Powered(x) => Powered(y))
  BY DEF IsCore, Powered

LEMMA DealtSound ==
  ASSUME NEW sku \in BootSkus, NEW n \in 0 .. 3, NEW cells, Sound(cells, sku, n)
  PROVE  Sound(Dealt(cells, sku, n), sku, n + 1)
<1> DEFINE np == Phoenixes(sku, n)
           nf == Falcons(sku, n)
           cfg == Config(sku)
           big == Cores!Core("phoenix", cfg.fmax, 950, "balanced", TRUE, FALSE)
           small == Cores!Core("falcon", cfg.ffalcon, 700, "efficient", TRUE, FALSE)
           new == Cores!Written(cells, sku, n)
<1>1. np \in 0 .. 4 /\ nf \in 0 .. 4
  BY Shares
<1>2. CASE n \notin Cores!Active(sku)
  <2>1. np + nf = 0
    BY <1>1, <1>2, Shares
  <2>2. Dealt(cells, sku, n) = cells
    BY <1>2 DEF Dealt
  <2>3. DealtPowered(cells, sku, n + 1)
    <3> SUFFICES ASSUME NEW c \in 0 .. 1, NEW j \in 0 .. 7, c < n + 1,
                        j < Phoenixes(sku, c) + Falcons(sku, c)
                 PROVE  Powered(cells[4 * c + j])
      BY DEF DealtPowered
    <3>1. c # n
      BY <2>1
    <3>2. c < n
      BY <3>1
    <3> QED BY <3>2 DEF Sound, DealtPowered
  <2> QED BY <2>2, <2>3 DEF Sound
<1>3. CASE n \in Cores!Active(sku)
  <2>1. n \in 0 .. 1
    BY <1>3, Shares
  <2>2. new = [k \in 0 .. 15 |->
                 CASE k - 4 * n \in 0 .. np - 1 -> big
                   [] k - 4 * n \in np .. np + nf - 1 -> small
                   [] k - 4 * n \in np + nf .. 2 * 4 - 1 -> [cells[k] EXCEPT !.init = FALSE]
                   [] OTHER -> cells[k]]
    BY CoreNumbers DEF Cores!Written, Phoenixes, Falcons, Config
  <2>3. IsCore(big) /\ big.init /\ ~big.run /\ Powered(big)
    <3>1. cfg.fmax \in CoreFreqs /\ cfg.fmax >= 100 /\ 950 \in CoreVolts /\ 950 >= 500
      <4>1. SkuSound(cfg)
        BY SkusSound
      <4> HIDE DEF cfg, np, nf, big, small, new
      <4> QED BY <4>1, Ratings DEF SkuSound
    <3> HIDE DEF cfg
    <3> QED BY <3>1 DEF IsCore, Powered, Cores!Core
  <2>4. IsCore(small) /\ small.init /\ ~small.run /\ (nf > 0 => Powered(small))
    <3>1. /\ cfg.ffalcon \in CoreFreqs /\ (nf > 0 => cfg.ffalcon >= 100)
          /\ 700 \in CoreVolts /\ 700 >= 500
      <4>1. SkuSound(cfg) /\ (nf > 0 => cfg.ffalcon >= 100)
        BY SkusSound, Shares
      <4> HIDE DEF cfg, nf
      <4> QED BY <4>1, Ratings DEF SkuSound
    <3> HIDE DEF cfg, nf
    <3> QED BY <3>1 DEF IsCore, Powered, Cores!Core
  <2> HIDE DEF np, nf, big, small, new
  <2>5. ASSUME NEW k \in 0 .. 15
        PROVE  \/ k - 4 * n \in 0 .. np - 1 /\ new[k] = big
               \/ k - 4 * n \in np .. np + nf - 1 /\ new[k] = small
               \/ k - 4 * n \in np + nf .. 7 /\ new[k] = [cells[k] EXCEPT !.init = FALSE]
               \/ k - 4 * n \notin 0 .. 7 /\ new[k] = cells[k]
    BY <1>1, <2>2
  <2>6. ASSUME NEW k \in 0 .. 15
        PROVE  /\ IsCore(new[k]) /\ ~new[k].run /\ (new[k].init => Powered(new[k]))
               /\ Powered(cells[k]) => Powered(new[k])
               /\ k - 4 * n \in 0 .. np + nf - 1 => Powered(new[k])
    <3>1. IsCore(cells[k]) /\ ~cells[k].run /\ (cells[k].init => Powered(cells[k]))
      BY DEF Sound, IsCells, InitPowered, Still
    <3>2. CASE k - 4 * n \in 0 .. np - 1 /\ new[k] = big
      BY <2>3, <3>2
    <3>3. CASE k - 4 * n \in np .. np + nf - 1 /\ new[k] = small
      <4>1. nf > 0
        BY <1>1, <3>3
      <4> QED BY <2>4, <3>3, <4>1
    <3>4. CASE k - 4 * n \in np + nf .. 7 /\ new[k] = [cells[k] EXCEPT !.init = FALSE]
      <4>1. IsCore(new[k]) /\ ~new[k].init /\ ~new[k].run /\ (Powered(cells[k]) => Powered(new[k]))
        BY <3>1, <3>4, CoreInitSet
      <4>2. k - 4 * n \notin 0 .. np + nf - 1
        BY <1>1, <3>4
      <4> QED BY <4>1, <4>2
    <3>5. CASE k - 4 * n \notin 0 .. 7 /\ new[k] = cells[k]
      <4>1. k - 4 * n \notin 0 .. np + nf - 1
        BY <1>1, <3>5
      <4> QED BY <3>1, <3>5, <4>1
    <3> QED BY <2>5, <3>2, <3>3, <3>4, <3>5
  <2>7. IsCells(new) /\ InitPowered(new) /\ Still(new)
    <3>1. new = [k \in 0 .. 15 |-> new[k]]
      BY <2>2
    <3> QED BY <2>6, <3>1 DEF IsCells, InitPowered, Still
  <2>8. DealtPowered(new, sku, n + 1)
    <3> SUFFICES ASSUME NEW c \in 0 .. 1, NEW j \in 0 .. 7, c < n + 1,
                        j < Phoenixes(sku, c) + Falcons(sku, c)
                 PROVE  Powered(new[4 * c + j])
      BY DEF DealtPowered
    <3>1. 4 * c + j \in 0 .. 15
      OBVIOUS
    <3>2. CASE c < n
      BY <2>6, <3>1, <3>2 DEF Sound, DealtPowered
    <3>3. CASE c = n
      <4>1. (4 * c + j) - 4 * n \in 0 .. np + nf - 1
        BY <1>1, <3>3 DEF np, nf
      <4> QED BY <2>6, <3>1, <4>1
    <3> QED BY <3>2, <3>3
  <2> QED BY <1>3, <2>7, <2>8 DEF Sound, Dealt, new
<1>4. QED
  BY <1>2, <1>3

\* The cells after a boot: every cluster dealt in turn.
Blanks == [k \in Cores!Cells |-> Cores!Blank]

LEMMA LaidUnrolled ==
  ASSUME NEW sku
  PROVE  Cores!Laid(sku) = Dealt(Dealt(Dealt(Dealt(Blanks, sku, 0), sku, 1), sku, 2), sku, 3)
<1> DEFINE Step(x, n) == Dealt(x, sku, n)
           Follows(f) == f = [n \in 0 .. 4 |-> IF n = 0 THEN Blanks ELSE Step(f[n - 1], n - 1)]
           s1 == Step(Blanks, 0)
           s2 == Step(s1, 1)
           s3 == Step(s2, 2)
           s4 == Step(s3, 3)
           w == [n \in 0 .. 4 |-> IF n = 0 THEN Blanks ELSE IF n = 1 THEN s1 ELSE IF n = 2 THEN s2
                                  ELSE IF n = 3 THEN s3 ELSE s4]
<1>1. Cores!Laid(sku) = (CHOOSE f : Follows(f))[4]
  BY Zenon, CoreNumbers DEF Cores!Laid, Dealt, Blanks
<1> HIDE DEF Step
<1>2. Follows(w)
  <2> DEFINE v == [n \in 0 .. 4 |-> IF n = 0 THEN Blanks ELSE Step(w[n - 1], n - 1)]
  <2>1. w[0] = Blanks /\ w[1] = s1 /\ w[2] = s2 /\ w[3] = s3 /\ w[4] = s4
    <3> HIDE DEF s1, s2, s3, s4
    <3> QED OBVIOUS
  <2>2. v[0] = Blanks /\ v[1] = s1 /\ v[2] = s2 /\ v[3] = s3 /\ v[4] = s4
    OBVIOUS
  <2>3. \A n \in 0 .. 4 : n = 0 \/ n = 1 \/ n = 2 \/ n = 3 \/ n = 4
    OBVIOUS
  <2> QED BY <2>1, <2>2, <2>3
<1>3. PICK f : Follows(f) /\ f = (CHOOSE g : Follows(g))
  BY <1>2
<1>4. f[0] = Blanks /\ f[1] = Step(f[0], 0) /\ f[2] = Step(f[1], 1) /\ f[3] = Step(f[2], 2)
      /\ f[4] = Step(f[3], 3)
  BY <1>3
<1>5. Cores!Laid(sku) = Step(Step(Step(Step(Blanks, 0), 1), 2), 3)
  <2> HIDE DEF Follows
  <2> QED BY <1>1, <1>3, <1>4
<1>6. QED
  BY <1>5 DEF Step

LEMMA LaidSound ==
  ASSUME NEW sku \in BootSkus PROVE Sound(Cores!Laid(sku), sku, 4)
<1>1. Sound(Blanks, sku, 0)
  <2>1. Blanks = [k \in 0 .. 15 |-> Cores!Blank]
    BY CoreNumbers DEF Blanks
  <2>2. IsCore(Cores!Blank) /\ ~Cores!Blank.init /\ ~Cores!Blank.run
    BY DEF IsCore, Cores!Blank, Cores!Core, CoreFreqs, CoreVolts
  <2>3. \A k \in 0 .. 15 : Blanks[k] = Cores!Blank
    BY <2>1
  <2>4. Blanks = [k \in 0 .. 15 |-> Blanks[k]]
    BY <2>1
  <2>5. DealtPowered(Blanks, sku, 0)
    BY DEF DealtPowered
  <2> QED BY <2>2, <2>3, <2>4, <2>5 DEF Sound, IsCells, InitPowered, Still
<1>2. \A cells : Sound(cells, sku, 0) => Sound(Dealt(cells, sku, 0), sku, 1)
  BY DealtSound
<1>3. \A cells : Sound(cells, sku, 1) => Sound(Dealt(cells, sku, 1), sku, 2)
  BY DealtSound
<1>4. \A cells : Sound(cells, sku, 2) => Sound(Dealt(cells, sku, 2), sku, 3)
  BY DealtSound
<1>5. \A cells : Sound(cells, sku, 3) => Sound(Dealt(cells, sku, 3), sku, 4)
  BY DealtSound
<1>6. QED
  BY <1>1, <1>2, <1>3, <1>4, <1>5, LaidUnrolled

-----------------------------------------------------------------------------
(* The state of the core driver.                                            *)

SocTyped ==
  /\ soc = [ready |-> soc.ready, sku |-> soc.sku, cells |-> soc.cells, moved |-> soc.moved,
            clusters |-> soc.clusters]
  /\ IsCells(soc.cells)
  /\ soc.clusters = [c \in 0 .. 3 |-> soc.clusters[c]] /\ \A c \in 0 .. 3 : IsCluster(soc.clusters[c])
  /\ soc.ready => soc.sku \in BootSkus

\* The cores of the SKU keep an operating point; until a cluster is configured its
\* counts are those of the SKU, so that they are the cores brad_core_init initialises.
CountsKept ==
  soc.ready =>
    /\ DealtPowered(soc.cells, soc.sku, 4)
    /\ ~soc.moved => \A c \in 0 .. 1 : c \in Cores!Active(soc.sku) =>
         soc.clusters[c].np = Phoenixes(soc.sku, c) /\ soc.clusters[c].nf = Falcons(soc.sku, c)
RunsPowered ==
  /\ ~soc.moved => InitPowered(soc.cells)
  /\ \A k \in 0 .. 15 : soc.cells[k].run => soc.cells[k].init /\ soc.ready

CoresInv == SocTyped /\ CountsKept /\ RunsPowered

LEMMA NoClusterMade == IsCluster(Cores!NoCluster)
  BY DEF IsCluster, Cores!NoCluster, Cores!Cluster

LEMMA CoresInit == Cores!Init => CoresInv
<1> SUFFICES ASSUME Cores!Init PROVE CoresInv
  OBVIOUS
<1> DEFINE clusters == [c \in Cores!Clusters |-> Cores!NoCluster]
<1>1. soc = [ready |-> FALSE, sku |-> "P1E4", cells |-> Blanks, moved |-> FALSE,
             clusters |-> clusters]
  BY DEF Cores!Init, Blanks
<1>2. clusters = [c \in 0 .. 3 |-> Cores!NoCluster] /\ Blanks = [k \in 0 .. 15 |-> Cores!Blank]
  BY CoreNumbers DEF Blanks
<1>3. IsCluster(Cores!NoCluster)
  BY NoClusterMade
<1>4. IsCore(Cores!Blank) /\ ~Cores!Blank.init /\ ~Cores!Blank.run
  BY DEF IsCore, Cores!Blank, Cores!Core, CoreFreqs, CoreVolts
<1> HIDE DEF clusters
<1>5. ~soc.ready /\ ~soc.moved /\ soc.cells = Blanks /\ soc.clusters = clusters
  BY <1>1
<1>6. IsCells(Blanks) /\ \A k \in 0 .. 15 : ~Blanks[k].init /\ ~Blanks[k].run
  <2>1. \A k \in 0 .. 15 : Blanks[k] = Cores!Blank
    BY <1>2
  <2>2. Blanks = [k \in 0 .. 15 |-> Blanks[k]]
    BY <1>2
  <2> QED BY <1>4, <2>1, <2>2 DEF IsCells
<1>7. SocTyped
  <2>1. clusters = [c \in 0 .. 3 |-> clusters[c]] /\ \A c \in 0 .. 3 : IsCluster(clusters[c])
    BY <1>2, <1>3
  <2> QED BY <1>1, <1>5, <1>6, <2>1 DEF SocTyped
<1>8. QED
  BY <1>5, <1>6, <1>7 DEF CoresInv, CountsKept, RunsPowered, InitPowered

LEMMA BootHolds == ASSUME CoresInv, NEW sku \in BootSkus, Cores!Boot(sku) PROVE CoresInv'
<1> DEFINE clusters == [c \in 0 .. 3 |->
             IF c \in Cores!Active(sku)
             THEN Cores!Cluster(Phoenixes(sku, c), Falcons(sku, c), 512, 255, TRUE)
             ELSE Cores!NoCluster]
<1>1. soc' = [ready |-> TRUE, sku |-> sku, cells |-> Cores!Laid(sku), moved |-> FALSE,
              clusters |-> clusters]
  <2>1. soc' = Cores!Booted(sku)
    BY CoreConstants DEF Cores!Boot, Cores!AfterBoot
  <2> QED BY <2>1, CoreNumbers DEF Cores!Booted, Phoenixes, Falcons, Config
<1>2. ASSUME NEW c \in 0 .. 3
      PROVE  /\ IsCluster(clusters[c])
             /\ c \in Cores!Active(sku) =>
                  clusters[c].np = Phoenixes(sku, c) /\ clusters[c].nf = Falcons(sku, c)
  <2>1. IsCluster(Cores!NoCluster)
    BY NoClusterMade
  <2>2. Phoenixes(sku, c) \in 0 .. 4 /\ Falcons(sku, c) \in 0 .. 4
    BY Shares
  <2> QED BY <2>1, <2>2 DEF IsCluster, Cores!Cluster
<1>3. clusters = [c \in 0 .. 3 |-> clusters[c]]
  OBVIOUS
<1> HIDE DEF clusters
<1>4. /\ soc'.ready /\ ~soc'.moved /\ soc'.sku = sku /\ soc'.cells = Cores!Laid(sku)
      /\ soc'.clusters = clusters
  BY <1>1
<1>5. Sound(Cores!Laid(sku), sku, 4)
  BY LaidSound
<1>6. SocTyped'
  BY <1>1, <1>2, <1>3, <1>4, <1>5 DEF SocTyped, Sound
<1>7. CountsKept'
  BY <1>2, <1>4, <1>5 DEF CountsKept, Sound
<1>8. RunsPowered'
  BY <1>4, <1>5 DEF RunsPowered, Sound, Still
<1>9. QED
  BY <1>6, <1>7, <1>8 DEF CoresInv

\* A call that changes one core.
LEMMA CellHolds ==
  ASSUME CoresInv, NEW k \in 0 .. 15, NEW x, IsCore(x),
         soc' = [soc EXCEPT !.cells[k] = x], soc.ready,
         Powered(soc.cells[k]) => Powered(x),
         ~soc.moved /\ x.init => Powered(x), x.run => x.init
  PROVE  CoresInv'
<1> DEFINE cells == [soc.cells EXCEPT ![k] = x]
<1>1. soc' = [soc EXCEPT !.cells = cells]
  OBVIOUS
<1>2. /\ cells = [j \in 0 .. 15 |-> cells[j]] /\ cells[k] = x
      /\ \A j \in 0 .. 15 : j # k => cells[j] = soc.cells[j]
  BY DEF CoresInv, SocTyped, IsCells
<1> HIDE DEF cells
<1>3. /\ soc'.ready = soc.ready /\ soc'.sku = soc.sku /\ soc'.moved = soc.moved
      /\ soc'.clusters = soc.clusters /\ soc'.cells = cells
      /\ soc' = [ready |-> soc'.ready, sku |-> soc'.sku, cells |-> soc'.cells,
                 moved |-> soc'.moved, clusters |-> soc'.clusters]
  BY <1>1 DEF CoresInv, SocTyped
<1>4. SocTyped'
  BY <1>3, <1>2 DEF CoresInv, SocTyped, IsCells
<1>5. CountsKept'
  <2> SUFFICES DealtPowered(cells, soc.sku, 4)
    BY <1>3 DEF CoresInv, CountsKept
  <2> SUFFICES ASSUME NEW c \in 0 .. 1, NEW j \in 0 .. 7, c < 4,
                      j < Phoenixes(soc.sku, c) + Falcons(soc.sku, c)
               PROVE  Powered(cells[4 * c + j])
    BY DEF DealtPowered
  <2>1. Powered(soc.cells[4 * c + j])
    BY DEF CoresInv, CountsKept, DealtPowered
  <2>2. 4 * c + j \in 0 .. 15
    OBVIOUS
  <2> QED BY <1>2, <2>1, <2>2
<1>6. RunsPowered'
  BY <1>3, <1>2 DEF CoresInv, RunsPowered, InitPowered
<1>7. QED
  BY <1>4, <1>5, <1>6 DEF CoresInv

\* The cell of an index of a cluster that is in use.
LEMMA Addressing ==
  ASSUME CoresInv, NEW c, Cores!Addressed(c)
  PROVE  /\ soc.ready /\ soc.sku \in BootSkus /\ c \in 0 .. 1 /\ c \in Cores!Active(soc.sku)
         /\ \A i \in 0 .. 7 : Cores!Cell(c, i) = 4 * c + i /\ 4 * c + i \in 0 .. 15
         /\ \A k \in 0 .. 15 : IsCore(soc.cells[k])
<1>1. soc.ready /\ soc.sku \in BootSkus /\ c \in Cores!Active(soc.sku)
  BY DEF CoresInv, SocTyped, Cores!Addressed
<1>2. c \in 0 .. 1
  BY <1>1, ActiveClusters
<1>3. QED
  BY <1>1, <1>2, CoreNumbers DEF CoresInv, SocTyped, IsCells

LEMMA CoreIdRanges ==
  ASSUME NEW id \in CoreIds PROVE id[1] \in 0 .. 3 /\ id[2] \in 0 .. 7
<1>1. id[2] \in 0 .. 2 * 4 - 1 /\ id[1] \in 0 .. 3
  BY CoreConstants, CoreNumbers
<1>2. QED
  BY <1>1

\* Changes of one core that keep it one.
LEMMA CoreRewritten ==
  ASSUME NEW x, IsCore(x), NEW y, NEW b,
         \/ y = [x EXCEPT !.run = b] \/ y = [x EXCEPT !.p = b]
         \/ (\E p : y = [x EXCEPT !.init = TRUE, !.run = FALSE, !.p = p])
  PROVE  IsCore(y) /\ y.freq = x.freq /\ y.volt = x.volt
<1>1. CASE y = [x EXCEPT !.run = b]
  BY <1>1 DEF IsCore
<1>2. CASE y = [x EXCEPT !.p = b]
  BY <1>2 DEF IsCore
<1>3. CASE \E p : y = [x EXCEPT !.init = TRUE, !.run = FALSE, !.p = p]
  <2> PICK p : y = [x EXCEPT !.init = TRUE, !.run = FALSE, !.p = p]
    BY <1>3
  <2> QED BY DEF IsCore
<1>4. QED
  BY <1>1, <1>2, <1>3

LEMMA CoreInitHolds ==
  ASSUME CoresInv, NEW type \in {"phoenix", "falcon"}, NEW c, NEW i \in 0 .. 7,
         Cores!CoreInit(type, c, i)
  PROVE  CoresInv'
<1> DEFINE j == IF type = "falcon" THEN i + soc.clusters[c].np ELSE i
           k == Cores!Cell(c, j)
           p == IF type = "phoenix" THEN "balanced" ELSE "efficient"
           x == [soc.cells[k] EXCEPT !.init = TRUE, !.run = FALSE, !.p = p]
<1>1. /\ Cores!Addressed(c)
      /\ i < (IF type = "phoenix" THEN soc.clusters[c].np ELSE soc.clusters[c].nf)
      /\ soc' = [soc EXCEPT !.cells[k] = x]
  BY Zenon DEF Cores!CoreInit
<1>2. /\ soc.ready /\ soc.sku \in BootSkus /\ c \in 0 .. 1 /\ c \in Cores!Active(soc.sku)
      /\ \A n \in 0 .. 7 : Cores!Cell(c, n) = 4 * c + n /\ 4 * c + n \in 0 .. 15
      /\ \A n \in 0 .. 15 : IsCore(soc.cells[n])
  BY <1>1, Addressing
<1>3. soc.clusters[c].np \in 0 .. 4 /\ soc.clusters[c].nf \in 0 .. 4
  <2>1. c \in 0 .. 3
    BY <1>2
  <2> QED BY <2>1 DEF CoresInv, SocTyped, IsCluster
<1>4. j \in 0 .. 7 /\ j < soc.clusters[c].np + soc.clusters[c].nf
  <2>1. CASE type = "phoenix"
    BY <1>1, <1>3, <2>1
  <2>2. CASE type = "falcon"
    BY <1>1, <1>3, <2>2
  <2> QED BY <2>1, <2>2
<1> HIDE DEF j
<1>5. k = 4 * c + j /\ k \in 0 .. 15
  BY <1>2, <1>4
<1> HIDE DEF k
<1>6. IsCore(soc.cells[k])
  BY <1>2, <1>5
<1>7. IsCore(x) /\ x.freq = soc.cells[k].freq /\ x.volt = soc.cells[k].volt
  <2> HIDE DEF p
  <2> QED BY <1>6, CoreRewritten
<1>8. x.init = TRUE /\ x.run = FALSE
  <2> HIDE DEF p
  <2> QED BY <1>6 DEF IsCore
<1> HIDE DEF x
<1>9. Powered(soc.cells[k]) => Powered(x)
  BY <1>7 DEF Powered
<1>10. ~soc.moved => Powered(soc.cells[k])
  <2> SUFFICES ASSUME ~soc.moved PROVE Powered(soc.cells[4 * c + j])
    BY <1>5
  <2>1. /\ DealtPowered(soc.cells, soc.sku, 4)
        /\ soc.clusters[c].np = Phoenixes(soc.sku, c) /\ soc.clusters[c].nf = Falcons(soc.sku, c)
    BY <1>2 DEF CoresInv, CountsKept
  <2>2. c < 4
    BY <1>2
  <2> QED BY <1>2, <1>4, <2>1, <2>2 DEF DealtPowered
<1>11. QED
  BY <1>1, <1>2, <1>5, <1>7, <1>8, <1>9, <1>10, CellHolds

LEMMA SetRunningHolds ==
  ASSUME CoresInv, NEW c, NEW i \in 0 .. 7, NEW run \in BOOLEAN, Cores!SetRunning(c, i, run)
  PROVE  CoresInv'
<1> DEFINE k == Cores!Cell(c, i)
           x == [soc.cells[k] EXCEPT !.run = run]
<1>1. Cores!Addressed(c) /\ soc.cells[k].init /\ soc' = [soc EXCEPT !.cells[k].run = run]
  BY Zenon DEF Cores!SetRunning, Cores!Startable
<1>2. k \in 0 .. 15 /\ IsCore(soc.cells[k]) /\ soc.ready
  BY <1>1, Addressing
<1> HIDE DEF k
<1>3. soc' = [soc EXCEPT !.cells[k] = x]
  BY <1>1
<1>4. IsCore(x) /\ x.freq = soc.cells[k].freq /\ x.volt = soc.cells[k].volt
  BY <1>2, CoreRewritten
<1>5. x.init = soc.cells[k].init
  BY <1>2 DEF IsCore
<1> HIDE DEF x
<1>6. Powered(soc.cells[k]) => Powered(x)
  BY <1>4 DEF Powered
<1>7. ~soc.moved => Powered(soc.cells[k])
  BY <1>1, <1>2 DEF CoresInv, RunsPowered, InitPowered
<1>8. QED
  BY <1>1, <1>2, <1>3, <1>4, <1>5, <1>6, <1>7, CellHolds

LEMMA SetPowerHolds ==
  ASSUME CoresInv, NEW c, NEW i \in 0 .. 7, NEW p, Cores!SetPower(c, i, p)
  PROVE  CoresInv'
<1> DEFINE k == Cores!Cell(c, i)
           x == [soc.cells[k] EXCEPT !.p = p]
<1>1. Cores!Addressed(c) /\ soc' = [soc EXCEPT !.cells[k].p = p]
  BY Zenon DEF Cores!SetPower
<1>2. k \in 0 .. 15 /\ IsCore(soc.cells[k]) /\ soc.ready
  BY <1>1, Addressing
<1> HIDE DEF k
<1>3. soc' = [soc EXCEPT !.cells[k] = x]
  BY <1>1
<1>4. IsCore(x) /\ x.freq = soc.cells[k].freq /\ x.volt = soc.cells[k].volt
  BY <1>2, CoreRewritten
<1>5. x.init = soc.cells[k].init /\ x.run = soc.cells[k].run
  BY <1>2 DEF IsCore
<1> HIDE DEF x
<1>6. Powered(soc.cells[k]) => Powered(x)
  BY <1>4 DEF Powered
<1>7. /\ ~soc.moved /\ soc.cells[k].init => Powered(soc.cells[k])
      /\ soc.cells[k].run => soc.cells[k].init
  BY <1>2 DEF CoresInv, RunsPowered, InitPowered
<1>8. QED
  BY <1>2, <1>3, <1>4, <1>5, <1>6, <1>7, CellHolds

\* A new frequency or voltage within the range asked for.
LEMMA PointHolds ==
  ASSUME CoresInv, NEW k \in 0 .. 15, NEW x, IsCore(x), IsCore(soc.cells[k]),
         soc' = [soc EXCEPT !.cells[k] = x], soc.ready,
         x.init = soc.cells[k].init, x.run = soc.cells[k].run,
         \/ x.freq >= 100 /\ x.volt = soc.cells[k].volt
         \/ x.volt >= 500 /\ x.freq = soc.cells[k].freq
  PROVE  CoresInv'
<1>1. Powered(soc.cells[k]) => Powered(x)
  BY DEF Powered
<1>2. /\ ~soc.moved /\ soc.cells[k].init => Powered(soc.cells[k])
      /\ soc.cells[k].run => soc.cells[k].init
  BY DEF CoresInv, RunsPowered, InitPowered
<1>3. QED
  BY <1>1, <1>2, CellHolds

AskedFreqs == 100 .. 5000
AskedVolts == 500 .. 1500

LEMMA Points ==
  /\ \A f \in AskedFreqs : f \in CoreFreqs /\ f >= 100
  /\ \A v \in AskedVolts : v \in CoreVolts /\ v >= 500
<1>1. ASSUME NEW f \in AskedFreqs PROVE f \in CoreFreqs /\ f >= 100
  <2>1. f \in 100 .. 5000
    BY DEF AskedFreqs
  <2>2. f \in 0 .. 5200
    BY <2>1
  <2>3. f >= 100
    BY <2>1
  <2> QED BY <2>2, <2>3 DEF CoreFreqs
<1>2. ASSUME NEW v \in AskedVolts PROVE v \in CoreVolts /\ v >= 500
  <2>1. v \in 500 .. 1500
    BY DEF AskedVolts
  <2>2. v \in 0 .. 1500
    BY <2>1
  <2>3. v >= 500
    BY <2>1
  <2> QED BY <2>2, <2>3 DEF CoreVolts
<1>3. QED
  BY <1>1, <1>2

LEMMA SetFreqHolds ==
  ASSUME CoresInv, NEW c, NEW i \in 0 .. 7, NEW mhz, Cores!SetFreq(c, i, mhz)
  PROVE  CoresInv'
<1> DEFINE k == Cores!Cell(c, i)
           x == [soc.cells[k] EXCEPT !.freq = mhz]
<1>1. Cores!Addressed(c) /\ mhz \in AskedFreqs /\ soc' = [soc EXCEPT !.cells[k].freq = mhz]
  <2>1. Cores!Addressed(c) /\ mhz \in 100 .. 5000
    BY DEF Cores!SetFreq
  <2>2. soc' = [soc EXCEPT !.cells[k].freq = mhz]
    BY DEF Cores!SetFreq
  <2> QED BY <2>1, <2>2 DEF AskedFreqs
<1>2. k \in 0 .. 15 /\ IsCore(soc.cells[k]) /\ soc.ready
  BY <1>1, Addressing
<1> HIDE DEF k
<1>3. soc' = [soc EXCEPT !.cells[k] = x]
  BY <1>1
<1>4. mhz \in CoreFreqs /\ mhz >= 100
  BY <1>1, Points
<1>5. /\ IsCore(x) /\ x.freq = mhz /\ x.volt = soc.cells[k].volt
      /\ x.init = soc.cells[k].init /\ x.run = soc.cells[k].run
  BY <1>2, <1>4 DEF IsCore
<1> HIDE DEF x
<1>6. QED
  BY <1>2, <1>3, <1>4, <1>5, PointHolds

LEMMA SetVoltHolds ==
  ASSUME CoresInv, NEW c, NEW i \in 0 .. 7, NEW mv, Cores!SetVolt(c, i, mv)
  PROVE  CoresInv'
<1> DEFINE k == Cores!Cell(c, i)
           x == [soc.cells[k] EXCEPT !.volt = mv]
<1>1. Cores!Addressed(c) /\ mv \in AskedVolts /\ soc' = [soc EXCEPT !.cells[k].volt = mv]
  <2>1. Cores!Addressed(c) /\ mv \in 500 .. 1500
    BY DEF Cores!SetVolt
  <2>2. soc' = [soc EXCEPT !.cells[k].volt = mv]
    BY DEF Cores!SetVolt
  <2> QED BY <2>1, <2>2 DEF AskedVolts
<1>2. k \in 0 .. 15 /\ IsCore(soc.cells[k]) /\ soc.ready
  BY <1>1, Addressing
<1> HIDE DEF k
<1>3. soc' = [soc EXCEPT !.cells[k] = x]
  BY <1>1
<1>4. mv \in CoreVolts /\ mv >= 500
  BY <1>1, Points
<1>5. /\ IsCore(x) /\ x.volt = mv /\ x.freq = soc.cells[k].freq
      /\ x.init = soc.cells[k].init /\ x.run = soc.cells[k].run
  BY <1>2, <1>4 DEF IsCore
<1> HIDE DEF x
<1>6. QED
  BY <1>2, <1>3, <1>4, <1>5, PointHolds

\* A call that changes one cluster's record, but not its counts unless it says so.
LEMMA ClusterHolds ==
  ASSUME CoresInv, NEW c \in 0 .. 3, NEW x, IsCluster(x), NEW moved,
         soc' = [soc EXCEPT !.clusters[c] = x, !.moved = moved],
         \/ moved = TRUE
         \/ moved = soc.moved /\ x.np = soc.clusters[c].np /\ x.nf = soc.clusters[c].nf
  PROVE  CoresInv'
<1> DEFINE clusters == [soc.clusters EXCEPT ![c] = x]
<1>1. /\ clusters = [d \in 0 .. 3 |-> clusters[d]] /\ clusters[c] = x
      /\ \A d \in 0 .. 3 : d # c => clusters[d] = soc.clusters[d]
  BY DEF CoresInv, SocTyped
<1>2. soc' = [soc EXCEPT !.clusters = clusters, !.moved = moved]
  OBVIOUS
<1> HIDE DEF clusters
<1>3. /\ soc'.ready = soc.ready /\ soc'.sku = soc.sku /\ soc'.moved = moved
      /\ soc'.clusters = clusters /\ soc'.cells = soc.cells
      /\ soc' = [ready |-> soc'.ready, sku |-> soc'.sku, cells |-> soc'.cells,
                 moved |-> soc'.moved, clusters |-> soc'.clusters]
  BY <1>2 DEF CoresInv, SocTyped
<1>4. SocTyped'
  BY <1>1, <1>3 DEF CoresInv, SocTyped
<1>5. CountsKept'
  <2>1. CASE moved = TRUE
    BY <1>3, <2>1 DEF CoresInv, CountsKept
  <2>2. CASE moved = soc.moved /\ x.np = soc.clusters[c].np /\ x.nf = soc.clusters[c].nf
    <3>1. \A d \in 0 .. 3 : clusters[d].np = soc.clusters[d].np /\ clusters[d].nf = soc.clusters[d].nf
      BY <1>1, <2>2
    <3>2. \A d \in 0 .. 1 : d \in 0 .. 3
      OBVIOUS
    <3> QED BY <1>3, <2>2, <3>1, <3>2 DEF CoresInv, CountsKept
  <2> QED BY <2>1, <2>2
<1>6. RunsPowered'
  BY <1>3 DEF CoresInv, RunsPowered
<1>7. QED
  BY <1>4, <1>5, <1>6 DEF CoresInv

LEMMA ClusterSet ==
  ASSUME NEW x, IsCluster(x), NEW b, NEW y, y = [x EXCEPT !.init = b] \/ y = [x EXCEPT !.ways = b]
  PROVE  IsCluster(y) /\ y.np = x.np /\ y.nf = x.nf
<1>1. CASE y = [x EXCEPT !.init = b]
  BY <1>1 DEF IsCluster
<1>2. CASE y = [x EXCEPT !.ways = b]
  BY <1>2 DEF IsCluster
<1>3. QED
  BY <1>1, <1>2

LEMMA ClusterCallsHold ==
  ASSUME CoresInv, NEW c \in 0 .. 3,
         \/ Cores!ClusterInit(c) \/ Cores!SetL2Way(c, 15)
         \/ \E size \in ClusterSizes : Cores!Configure(c, size[1], size[2], 1024)
  PROVE  CoresInv'
<1> DEFINE x == soc.clusters[c]
<1>1. IsCluster(x)
  BY DEF CoresInv, SocTyped
<1>2. CASE Cores!ClusterInit(c)
  <2> DEFINE y == [x EXCEPT !.init = TRUE, !.ways = 255]
  <2>1. soc' = [soc EXCEPT !.clusters[c].init = TRUE, !.clusters[c].ways = 255]
    BY <1>2 DEF Cores!ClusterInit
  <2>2. IsCluster(y) /\ y.np = x.np /\ y.nf = x.nf
    <3> DEFINE z == [x EXCEPT !.init = TRUE]
    <3>1. IsCluster(z) /\ z.np = x.np /\ z.nf = x.nf
      BY <1>1, ClusterSet
    <3>2. y = [z EXCEPT !.ways = 255]
      OBVIOUS
    <3> HIDE DEF x, z, y
    <3> QED BY <3>1, <3>2, ClusterSet
  <2>3. soc' = [soc EXCEPT !.clusters = [soc.clusters EXCEPT ![c] = y]]
    <3>1. [[soc.clusters EXCEPT ![c].init = TRUE] EXCEPT ![c].ways = 255]
            = [soc.clusters EXCEPT ![c] = y]
      BY DEF CoresInv, SocTyped
    <3>2. soc' = [soc EXCEPT !.clusters =
                    [[soc.clusters EXCEPT ![c].init = TRUE] EXCEPT ![c].ways = 255]]
      BY <2>1 DEF CoresInv, SocTyped
    <3> QED BY <3>1, <3>2
  <2> HIDE DEF y
  <2>4. soc' = [soc EXCEPT !.clusters[c] = y, !.moved = soc.moved]
    BY <2>3 DEF CoresInv, SocTyped
  <2> QED BY <2>2, <2>4, ClusterHolds
<1>3. CASE Cores!SetL2Way(c, 15)
  <2> DEFINE y == [x EXCEPT !.ways = 15]
  <2>1. soc' = [soc EXCEPT !.clusters[c].ways = 15]
    BY <1>3 DEF Cores!SetL2Way
  <2>2. soc' = [soc EXCEPT !.clusters[c] = y, !.moved = soc.moved]
    BY <2>1 DEF CoresInv, SocTyped
  <2>3. IsCluster(y) /\ y.np = x.np /\ y.nf = x.nf
    <3> HIDE DEF x
    <3> QED BY <1>1 DEF IsCluster
  <2> HIDE DEF y
  <2> QED BY <2>2, <2>3, ClusterHolds
<1>4. CASE \E size \in ClusterSizes : Cores!Configure(c, size[1], size[2], 1024)
  <2> PICK size \in ClusterSizes : Cores!Configure(c, size[1], size[2], 1024)
    BY <1>4
  <2> DEFINE y == Cores!Cluster(size[1], size[2], 1024, x.ways, TRUE)
  <2>1. size[1] <= 4 /\ size[2] <= 4 /\ soc' = [soc EXCEPT !.clusters[c] = y, !.moved = TRUE]
    BY CoreNumbers DEF Cores!Configure
  <2>2. size[1] \in 0 .. 4 /\ size[2] \in 0 .. 4
    BY <2>1, CoreConstants
  <2>3. IsCluster(y)
    BY <2>2 DEF IsCluster, Cores!Cluster
  <2> HIDE DEF y
  <2> QED BY <2>1, <2>3, ClusterHolds
<1>5. QED
  BY <1>2, <1>3, <1>4

LEMMA CoresStep == CoresInv /\ [PlatformNext]_platformVars => CoresInv'
<1> SUFFICES ASSUME CoresInv, [PlatformNext]_platformVars PROVE CoresInv'
  OBVIOUS
<1>1. CASE UNCHANGED coresVars
  <2>1. soc' = soc
    BY <1>1 DEF coresVars
  <2> QED BY <2>1 DEF CoresInv, SocTyped, CountsKept, RunsPowered
<1>2. ASSUME Cores!Next PROVE CoresInv'
  <2>1. ASSUME NEW sku \in BootSkus, Cores!Boot(sku) PROVE CoresInv'
    BY <2>1, BootHolds
  <2>2. ASSUME NEW id \in CoreIds,
               \/ \E type \in {"phoenix", "falcon"} : Cores!CoreInit(type, id[1], id[2])
               \/ \E run \in BOOLEAN : Cores!SetRunning(id[1], id[2], run)
               \/ \E mhz \in Freqs : Cores!SetFreq(id[1], id[2], mhz)
               \/ \E mv \in Volts : Cores!SetVolt(id[1], id[2], mv)
               \/ Cores!SetPower(id[1], id[2], "off")
        PROVE  CoresInv'
    <3>1. id[2] \in 0 .. 7
      BY CoreIdRanges
    <3> QED BY <2>2, <3>1, CoreInitHolds, SetRunningHolds, SetFreqHolds, SetVoltHolds, SetPowerHolds
  <2>3. ASSUME NEW c \in {id[1] : id \in CoreIds},
               \/ Cores!ClusterInit(c) \/ Cores!SetL2Way(c, 15)
               \/ \E size \in ClusterSizes : Cores!Configure(c, size[1], size[2], 1024)
        PROVE  CoresInv'
    <3>1. c \in 0 .. 3
      BY CoreIdRanges
    <3> QED BY <2>3, <3>1, ClusterCallsHold
  <2> QED BY <1>2, <2>1, <2>2, <2>3, Zenon DEF Cores!Next
<1>3. UNCHANGED coresVars \/ Cores!Next
  BY DEF PlatformNext, OthersStay, platformVars
<1>4. QED
  BY <1>1, <1>2, <1>3

(* brad_soc_init, brad_core_init, brad_core_start: a core that runs is an initialised *)
(* one; it has a frequency and a voltage if no cluster was configured to other counts *)
(* since the boot, and after that if it is a core of the SKU.                       *)
THEOREM CoresArePowered == PlatformSpec => []RunningCoresHaveOperatingPoint
<1>1. CoresInv => RunningCoresHaveOperatingPoint
  <2> SUFFICES ASSUME CoresInv, NEW k \in 0 .. 15, soc.cells[k].run
               PROVE  /\ soc.cells[k].init
                      /\ ~soc.moved \/ k \in Cores!Dealt => Powered(soc.cells[k])
    BY CoreNumbers DEF RunningCoresHaveOperatingPoint, Cores!RunningCoresHaveOperatingPoint, Powered
  <2>1. soc.cells[k].init /\ soc.ready /\ soc.sku \in BootSkus
    BY DEF CoresInv, RunsPowered, SocTyped
  <2>2. ASSUME ~soc.moved PROVE Powered(soc.cells[k])
    BY <2>1, <2>2 DEF CoresInv, RunsPowered, InitPowered
  <2>3. ASSUME k \in Cores!Dealt PROVE Powered(soc.cells[k])
    <3>1. PICK c \in Cores!Active(soc.sku) :
            k - 4 * c \in 0 .. Phoenixes(soc.sku, c) + Falcons(soc.sku, c) - 1
      BY <2>3, CoreNumbers DEF Cores!Dealt, Phoenixes, Falcons, Config
    <3>2. c \in 0 .. 1
      BY <2>1, ActiveClusters
    <3>3. Phoenixes(soc.sku, c) \in 0 .. 4 /\ Falcons(soc.sku, c) \in 0 .. 4
      BY <2>1, <3>2, Shares
    <3> DEFINE j == k - 4 * c
    <3>4. j \in 0 .. 7 /\ j < Phoenixes(soc.sku, c) + Falcons(soc.sku, c) /\ c < 4 /\ k = 4 * c + j
      BY <3>1, <3>2, <3>3
    <3> HIDE DEF j
    <3>5. Powered(soc.cells[4 * c + j])
      BY <2>1, <3>2, <3>4 DEF CoresInv, CountsKept, DealtPowered
    <3> QED BY <3>4, <3>5
  <2> QED BY <2>1, <2>2, <2>3
<1>2. PlatformInit => CoresInv
  BY CoresInit DEF PlatformInit
<1>3. QED
  BY <1>1, <1>2, CoresStep, PTL DEF PlatformSpec

-----------------------------------------------------------------------------
(* The power governor.                                                      *)

LEMMA WorkloadSlots ==
  /\ Power!Slots = 1 .. MaxWorkloads /\ MaxWorkloads \in Nat
  /\ IsFiniteSet(Power!Slots) /\ Cardinality(Power!Slots) = MaxWorkloads
<1>1. Power!Slots = 1 .. MaxWorkloads /\ MaxWorkloads \in Nat
  BY PowerConstants DEF Power!Slots
<1>2. QED
  BY <1>1, FS_Interval

Load(i, u) == IF eroe.slots[i].unit = u THEN eroe.slots[i].load ELSE 0
LoadOn(u) == [i \in Power!Slots |-> Load(i, u)]

LEMMA LoadSummed ==
  ASSUME NEW u
  PROVE  Power!LoadSum(u) = SumFunctionOnSet(LoadOn(u), Power!Slots)
<1> DEFINE D == Power!Slots
           f == LoadOn(u)
           F(g) == [T \in SUBSET D |->
             IF T = {} THEN 0
             ELSE Load(CHOOSE x \in T : TRUE, u) + g[T \ {CHOOSE x \in T : TRUE}]]
           G == CHOOSE g : g = F(g)
<1>1. Power!LoadSum(u) = G[D]
  BY DEF Power!LoadSum, Power!MapThenSumSet, Power!MapThenFoldSet, Load
<1>2. IsFiniteSet(D)
  BY WorkloadSlots
<1>3. PICK g : g = [T \in SUBSET D |-> g[T]] /\ SumsUp(f, D, g)
  BY <1>2, SummingExists
<1>4. ASSUME NEW T \in SUBSET D, T # {}
      PROVE  f[CHOOSE x \in T : TRUE] = Load(CHOOSE x \in T : TRUE, u)
  <2>1. (CHOOSE x \in T : TRUE) \in D
    BY <1>4
  <2> QED BY <2>1 DEF LoadOn
<1>5. g = F(g)
  <2> HIDE DEF f, D
  <2>1. ASSUME NEW T \in SUBSET D
        PROVE  g[T] = IF T = {} THEN 0
                      ELSE Load(CHOOSE x \in T : TRUE, u) + g[T \ {CHOOSE x \in T : TRUE}]
    BY <1>3, <1>4 DEF SumsUp
  <2> QED BY <1>3, <2>1
<1>6. G = F(G)
  BY <1>5
<1> HIDE DEF G
<1>7. SumsUp(f, D, G)
  <2> HIDE DEF f, D
  <2>1. ASSUME NEW T \in SUBSET D
        PROVE  G[T] = IF T = {} THEN 0
                      ELSE Load(CHOOSE x \in T : TRUE, u) + G[T \ {CHOOSE x \in T : TRUE}]
    BY <1>6
  <2> QED BY <1>4, <2>1 DEF SumsUp
<1>8. QED
  BY <1>1, <1>2, <1>7, SummingSubset

IsBudget(b) == \A u \in Power!Units : b[u] \in 0 .. 100

\* Only a custom profile holds more than percentages, and only as it is.
BudgetsTyped(profile, base, eff) ==
  /\ \A u \in Power!Units : base[u] \in Nat
  /\ profile # "custom" => IsBudget(base)
  /\ eff # base => IsBudget(eff)
IsSlot(x) ==
  x = [name |-> x.name, unit |-> x.unit, load |-> x.load] /\ x.unit \in Power!Units /\ x.load \in Nat
Degrees == 0 .. 145

GovernorTyped ==
  /\ eroe = [ready |-> eroe.ready, profile |-> eroe.profile, base |-> eroe.base,
             eff |-> eroe.eff, slots |-> eroe.slots, count |-> eroe.count, fan |-> eroe.fan,
             rpm |-> eroe.rpm, junction |-> eroe.junction, hotspot |-> eroe.hotspot,
             board |-> eroe.board, cap |-> eroe.cap, limit |-> eroe.limit]
  /\ BudgetsTyped(eroe.profile, eroe.base, eroe.eff)
  /\ eroe.slots = [i \in Power!Slots |-> eroe.slots[i]] /\ \A i \in Power!Slots : IsSlot(eroe.slots[i])
  /\ eroe.count \in 0 .. MaxWorkloads /\ eroe.cap \in Nat
  /\ eroe.fan \in DOMAIN Power!FanRpm /\ eroe.junction \in Degrees

\* Active workloads are counted, though a load of zero does not count again.
WorkloadsCounted == Power!ActiveSlots(eroe.slots) # {} => eroe.count > 0

PowerInv == GovernorTyped /\ WorkloadsCounted

LEMMA LoadSumNat ==
  ASSUME GovernorTyped, NEW u
  PROVE  Power!LoadSum(u) \in Nat
<1>1. ASSUME NEW i \in Power!Slots PROVE LoadOn(u)[i] \in Nat
  <2>1. IsSlot(eroe.slots[i])
    BY DEF GovernorTyped
  <2>2. LoadOn(u)[i] = IF eroe.slots[i].unit = u THEN eroe.slots[i].load ELSE 0
    BY DEF LoadOn, Load
  <2> QED BY <2>1, <2>2 DEF IsSlot
<1>2. QED
  BY <1>1, LoadSummed, WorkloadSlots, SumNat

LEMMA UnitsFinite ==
  /\ IsFiniteSet(Power!Units)
  /\ \A u \in Power!Units : Power!HeatWeight[u] \in Nat /\ Power!BlendScale[u] \in Nat
<1>1. IsFiniteSet({"cpu", "gpu", "npu", "mem"})
  <2>1. IsFiniteSet({"cpu"}) /\ IsFiniteSet({"gpu"}) /\ IsFiniteSet({"npu"}) /\ IsFiniteSet({"mem"})
    BY FS_Singleton
  <2>2. IsFiniteSet(({"cpu"} \cup {"gpu"}) \cup ({"npu"} \cup {"mem"}))
    BY <2>1, FS_Union
  <2>3. ({"cpu"} \cup {"gpu"}) \cup ({"npu"} \cup {"mem"}) = {"cpu", "gpu", "npu", "mem"}
    OBVIOUS
  <2> QED BY <2>2, <2>3
<1>2. ASSUME NEW u \in Power!Units
      PROVE  Power!HeatWeight[u] \in Nat /\ Power!BlendScale[u] \in Nat
  BY DEF Power!Units, Power!HeatWeight, Power!BlendScale
<1>3. QED
  BY <1>1, <1>2 DEF Power!Units

\* What the units at work add to the heat.
Warmth(u) == Power!LoadSum(u) * Power!HeatWeight[u]
Warmths == [u \in Power!Units |-> Warmth(u)]
AllHeat == Power!MapThenSumSet(LAMBDA u : Warmth(u), Power!Units)

LEMMA HeatSummed ==
  AllHeat = SumFunctionOnSet(Warmths, Power!Units)
<1> DEFINE D == Power!Units
           f == Warmths
           F(g) == [T \in SUBSET D |->
             IF T = {} THEN 0
             ELSE Warmth(CHOOSE x \in T : TRUE) + g[T \ {CHOOSE x \in T : TRUE}]]
           G == CHOOSE g : g = F(g)
<1>1. AllHeat = G[D]
  BY DEF AllHeat, Power!MapThenSumSet, Power!MapThenFoldSet
<1>2. IsFiniteSet(D)
  BY UnitsFinite
<1>3. PICK g : g = [T \in SUBSET D |-> g[T]] /\ SumsUp(f, D, g)
  BY <1>2, SummingExists
<1>4. ASSUME NEW T \in SUBSET D, T # {}
      PROVE  f[CHOOSE x \in T : TRUE] = Warmth(CHOOSE x \in T : TRUE)
  <2>1. (CHOOSE x \in T : TRUE) \in D
    <3> HIDE DEF D
    <3> QED BY <1>4
  <2> QED BY <2>1 DEF Warmths
<1> HIDE DEF D, f
<1>5. g = F(g)
  <2>1. ASSUME NEW T \in SUBSET D
        PROVE  g[T] = IF T = {} THEN 0
                      ELSE Warmth(CHOOSE x \in T : TRUE) + g[T \ {CHOOSE x \in T : TRUE}]
    BY <1>3, <1>4 DEF SumsUp
  <2> QED BY <1>3, <2>1
<1>6. G = F(G)
  BY <1>5
<1> HIDE DEF G
<1>7. SumsUp(f, D, G)
  <2>1. ASSUME NEW T \in SUBSET D
        PROVE  G[T] = IF T = {} THEN 0
                      ELSE Warmth(CHOOSE x \in T : TRUE) + G[T \ {CHOOSE x \in T : TRUE}]
    BY <1>6
  <2> QED BY <1>4, <2>1 DEF SumsUp
<1>8. G[D] = SumFunctionOnSet(f, D)
  BY <1>2, <1>7, SummingSubset
<1>9. QED
  BY <1>1, <1>8 DEF D, f

LEMMA HeatBound ==
  ASSUME GovernorTyped
  PROVE  Power!Heat \in 0 .. 400
<1>1. ASSUME NEW u \in Power!Units PROVE Warmths[u] \in Nat
  <2>1. Power!LoadSum(u) \in Nat /\ Power!HeatWeight[u] \in Nat
    BY LoadSumNat, UnitsFinite
  <2>2. Power!LoadSum(u) * Power!HeatWeight[u] \in Nat
    BY <2>1
  <2> QED BY <2>2 DEF Warmths, Warmth
<1>2. AllHeat \in Nat
  BY <1>1, HeatSummed, UnitsFinite, SumNat
<1>3. Power!Heat = Power!AtMost(AllHeat, 400)
  BY DEF Power!Heat, AllHeat, Warmth
<1>4. QED
  BY <1>2, <1>3 DEF Power!AtMost

LEMMA QuotientBound ==
  ASSUME NEW a \in Nat, NEW n \in Nat \ {0}
  PROVE  a \div n \in Nat /\ n * (a \div n) <= a
<1>1. a \div n \in Int /\ a % n \in 0 .. n - 1 /\ a = n * (a \div n) + (a % n)
  OBVIOUS
<1> PICK q \in Int, r \in 0 .. n - 1 : q = a \div n /\ a = n * q + r
  BY <1>1
<1>2. q \in Nat
  OBVIOUS
<1>3. n * q <= a
  OBVIOUS
<1>4. QED
  BY <1>2, <1>3

LEMMA ProductBound ==
  ASSUME NEW h \in Nat, NEW k \in Nat, NEW m \in Nat, h <= m, NEW n \in Nat, k <= n
  PROVE  h * k \in Nat /\ h * k <= m * n
<1>1. h * k \in Nat /\ h * k <= m * k
  BY SMT
<1>2. m * k <= m * n
  BY SMT
<1>3. QED
  BY <1>1, <1>2, SMT

LEMMA FanFacts ==
  \A fan \in DOMAIN Power!FanRpm : 100 - Power!FanPct[fan] \in {30, 50, 70, 85}
BY DEF Power!FanRpm, Power!FanPct

LEMMA JunctionBound ==
  ASSUME GovernorTyped
  PROVE  Power!Junction \in Degrees
<1> DEFINE h == Power!Heat
           k == 100 - Power!FanPct[eroe.fan]
<1>1. h \in 0 .. 400
  BY HeatBound
<1>2. k \in {30, 50, 70, 85}
  BY FanFacts DEF GovernorTyped
<1>3. Power!Delta = (Power!ThermalScale * h * k) \div (400 * 100)
  BY DEF Power!Delta
<1>4. h * k \in Nat /\ h * k <= 400 * 100
  <2> HIDE DEF h, k
  <2>1. h \in Nat /\ k \in Nat /\ h <= 400 /\ k <= 100
    BY <1>1, <1>2
  <2>2. 400 \in Nat /\ 100 \in Nat
    OBVIOUS
  <2> QED BY <2>1, <2>2, ProductBound
<1>5. Power!Delta \in 0 .. 120
  <2> DEFINE a == Power!ThermalScale * h * k
             n == 400 * 100
             q == a \div n
  <2>1. a \in Nat /\ a <= 120 * n /\ n \in Nat \ {0}
    <3>1. Power!ThermalScale = 120
      BY DEF Power!ThermalScale
    <3>2. n \in Nat \ {0}
      BY SMT
    <3>3. h \in Nat /\ k \in Nat /\ h * k \in Nat /\ h * k <= n
      BY <1>1, <1>2, <1>4
    <3> HIDE DEF h, k, n
    <3>4. a = 120 * (h * k)
      BY <3>1, <3>3, SMT
    <3> HIDE DEF a
    <3> QED BY <3>2, <3>3, <3>4, SMT
  <2>2. Power!Delta = q
    BY <1>3
  <2> HIDE DEF a, n
  <2>3. q \in Nat /\ n * q <= a
    BY <2>1, QuotientBound
  <2> HIDE DEF q
  <2>4. n * q <= n * 120
    BY <2>1, <2>3, SMT
  <2>5. q <= 120
    BY <2>1, <2>3, <2>4, SMT
  <2> QED BY <2>2, <2>3, <2>5
<1> DEFINE d == Power!Delta
           off == IF Power!Capped THEN (Power!DefaultTdp - eroe.cap) \div 2 ELSE 0
<1>6. off \in Nat
  <2>1. CASE Power!Capped
    <3>1. 65 - eroe.cap \in Nat
      BY <2>1 DEF Power!Capped, Power!DefaultTdp, GovernorTyped
    <3>2. (65 - eroe.cap) \div 2 \in Nat
      BY <3>1, QuotientBound
    <3> QED BY <2>1, <3>2 DEF Power!DefaultTdp
  <2>2. CASE ~Power!Capped
    BY <2>2
  <2> QED BY <2>1, <2>2
<1>7. Power!Junction = IF 25 + d > off THEN 25 + d - off ELSE 25
  BY DEF Power!Junction, Power!Ambient
<1>8. d \in 0 .. 120
  BY <1>5
<1> HIDE DEF d, off
<1>9. QED
  BY <1>6, <1>7, <1>8 DEF Degrees

LEMMA CountsActive ==
  ASSUME NEW slots
  PROVE  /\ Power!ActiveSlots(slots) \subseteq Power!Slots
         /\ IsFiniteSet(Power!ActiveSlots(slots))
         /\ Power!Recounted(slots) \in 0 .. MaxWorkloads
         /\ Power!ActiveSlots(slots) # {} => Power!Recounted(slots) > 0
<1>1. Power!ActiveSlots(slots) \subseteq Power!Slots
  BY DEF Power!ActiveSlots
<1> DEFINE A == Power!ActiveSlots(slots)
<1> HIDE DEF A
<1>2. IsFiniteSet(A) /\ Cardinality(A) \in Nat /\ Cardinality(A) <= MaxWorkloads
  BY <1>1, WorkloadSlots, FS_Subset, FS_CardinalityType DEF A
<1>3. A # {} => Cardinality(A) > 0
  BY <1>2, FS_EmptySet
<1>4. Power!Recounted(slots) = Cardinality(A)
  BY DEF Power!Recounted, A, Power!Cardinality, Cardinality
<1>5. QED
  BY <1>1, <1>2, <1>3, <1>4, WorkloadSlots DEF A

LEMMA DemandIsInt ==
  ASSUME GovernorTyped, NEW u \in Power!Units
  PROVE  Power!Demanded(u) \in Int
<1> DEFINE n == Power!LoadCount(u)
           w == Power!LoadSum(u)
           b == Power!BlendScale[u]
           added == IF n = 0 THEN 0 ELSE (w * b) \div (4 * n)
<1>1. n \in Nat
  <2> DEFINE S == {i \in Power!ActiveSlots(eroe.slots) : eroe.slots[i].unit = u}
  <2>1. S \subseteq Power!ActiveSlots(eroe.slots)
    OBVIOUS
  <2>2. n = Cardinality(S)
    BY DEF Power!LoadCount, Power!Cardinality, Cardinality
  <2> HIDE DEF S
  <2>3. Cardinality(S) \in Nat
    BY <2>1, CountsActive, FS_Subset, FS_CardinalityType
  <2> QED BY <2>2, <2>3
<1>2. w \in Nat /\ b \in Nat
  BY LoadSumNat, UnitsFinite
<1>3. Power!Demanded(u) = Power!AsInt(eroe.base[u]) + added
  BY DEF Power!Demanded
<1>4. Power!AsInt(eroe.base[u]) \in Int
  <2>1. eroe.base[u] \in Nat /\ UIntWrap \in Nat
    BY PowerConstants DEF GovernorTyped, BudgetsTyped
  <2> QED BY <2>1 DEF Power!AsInt
<1> HIDE DEF n, w, b
<1>5. added \in Nat
  <2>1. CASE n = 0
    BY <2>1
  <2>2. CASE n # 0
    <3>1. w * b \in Nat /\ 4 * n \in Nat \ {0}
      BY <1>1, <1>2, <2>2
    <3>2. (w * b) \div (4 * n) \in Nat
      BY <3>1, QuotientBound
    <3> QED BY <2>2, <3>2
  <2> QED BY <2>1, <2>2
<1> HIDE DEF added
<1>6. QED
  BY <1>3, <1>4, <1>5

LEMMA BlendedBound ==
  ASSUME GovernorTyped, NEW u \in Power!Units, NEW overflow \in Power!Ends
  PROVE  Power!Blended(u, overflow) \in 0 .. 100
<1>1. Power!Demanded(u) \in Int
  BY DemandIsInt
<1>2. overflow[u] \in 0 .. 100
  <2>1. overflow[u] \in {0, 100}
    BY DEF Power!Ends
  <2> QED BY <2>1
<1>3. QED
  BY <1>1, <1>2 DEF Power!Blended, Power!AtMost

LEMMA BalancedBound ==
  ASSUME GovernorTyped, NEW overflow \in Power!Ends
  PROVE  /\ Power!Balanced(overflow) # eroe.base => IsBudget(Power!Balanced(overflow))
         /\ eroe.count > 0 /\ Power!Capped =>
              \A u \in Power!Units :
                Power!Balanced(overflow)[u] * Power!DefaultTdp <= 100 * eroe.cap
<1> DEFINE Share(u) == Power!Blended(u, overflow)
<1>1. ASSUME NEW u \in Power!Units, Power!Capped
      PROVE  /\ (Share(u) * eroe.cap) \div Power!DefaultTdp \in 0 .. 100
             /\ ((Share(u) * eroe.cap) \div Power!DefaultTdp) * Power!DefaultTdp
                  <= 100 * eroe.cap
  <2> DEFINE b == Share(u)
             q == (b * eroe.cap) \div 65
  <2>1. b \in 0 .. 100 /\ eroe.cap \in 1 .. 64 /\ Power!DefaultTdp = 65
    BY <1>1, BlendedBound DEF Power!Capped, Power!DefaultTdp
  <2> HIDE DEF b
  <2>2. b * eroe.cap \in Nat /\ b * eroe.cap <= 100 * eroe.cap
    BY <2>1
  <2>3. q \in Nat /\ 65 * q <= b * eroe.cap
    BY <2>2, QuotientBound
  <2>4. 65 * q <= 100 * eroe.cap
    BY <2>1, <2>2, <2>3
  <2> HIDE DEF q
  <2>5. q \in 0 .. 100 /\ q * 65 <= 100 * eroe.cap
    BY <2>1, <2>3, <2>4
  <2> QED BY <2>1, <2>5 DEF q, b
<1>2. CASE eroe.count = 0
  BY <1>2 DEF Power!Balanced
<1>3. CASE eroe.count # 0
  <2>1. ASSUME NEW u \in Power!Units
        PROVE  Power!Balanced(overflow)[u] = IF Power!Capped
                 THEN (Share(u) * eroe.cap) \div Power!DefaultTdp ELSE Share(u)
    BY <1>3 DEF Power!Balanced
  <2>2. ASSUME NEW u \in Power!Units PROVE Power!Balanced(overflow)[u] \in 0 .. 100
    BY <1>1, <2>1, BlendedBound
  <2>3. ASSUME NEW u \in Power!Units, Power!Capped
        PROVE  Power!Balanced(overflow)[u] * Power!DefaultTdp <= 100 * eroe.cap
    BY <1>1, <2>1, <2>3
  <2> QED BY <2>2, <2>3 DEF IsBudget
<1>4. QED
  BY <1>2, <1>3

LEMMA PresetsSound ==
  /\ \A p \in Profiles : IsBudget(Power!Preset(p))
  /\ IsBudget(Power!Preset("idle")) /\ IsBudget(Power!Budget(0, 0, 0, 0))
<1>1. ASSUME NEW c \in 0 .. 100, NEW g \in 0 .. 100, NEW n \in 0 .. 100, NEW m \in 0 .. 100
      PROVE  IsBudget(Power!Budget(c, g, n, m))
  <2> DEFINE P == 0 .. 100
  <2>1. c \in P /\ g \in P /\ n \in P /\ m \in P
    OBVIOUS
  <2> HIDE DEF P
  <2>2. \A u \in {"cpu", "gpu", "npu", "mem"} : Power!Budget(c, g, n, m)[u] \in P
    BY <2>1 DEF Power!Budget
  <2> QED BY <2>2 DEF IsBudget, P, Power!Units
<1>2. ASSUME NEW p \in {"compute", "gaming", "ai_inf", "video", "idle", "battery", "custom"}
      PROVE  \E c, g, n, m \in 0 .. 100 : Power!Preset(p) = Power!Budget(c, g, n, m)
  <2> DEFINE P == 0 .. 100
             B(c, g, n, m) == Power!Budget(c, g, n, m)
  <2>1. /\ 80 \in P /\ 10 \in P /\ 60 \in P /\ 30 \in P /\ 70 \in P /\ 20 \in P /\ 90 \in P
        /\ 0 \in P /\ 40 \in P /\ 5 \in P /\ 25 \in P /\ 50 \in P
    OBVIOUS
  <2> HIDE DEF P
  <2>2. /\ p = "compute" => Power!Preset(p) = B(80, 10, 10, 60)
        /\ p = "gaming" => Power!Preset(p) = B(30, 70, 20, 90)
        /\ p = "ai_inf" => Power!Preset(p) = B(10, 10, 80, 70)
        /\ p = "video" => Power!Preset(p) = B(10, 30, 0, 40)
        /\ p = "idle" => Power!Preset(p) = B(5, 0, 0, 10)
        /\ p = "battery" => Power!Preset(p) = B(30, 20, 20, 30)
        /\ p = "custom" => Power!Preset(p) = B(25, 25, 25, 50)
    BY DEF Power!Preset
  <2> HIDE DEF B
  <2>3. \E c, g, n, m \in P : Power!Preset(p) = B(c, g, n, m)
    BY <2>1, <2>2
  <2> QED BY <2>3 DEF P, B
<1>3. ASSUME NEW p \in {"compute", "gaming", "ai_inf", "video", "idle", "battery", "custom"}
      PROVE  IsBudget(Power!Preset(p))
  <2>1. PICK c, g, n, m \in 0 .. 100 : Power!Preset(p) = Power!Budget(c, g, n, m)
    BY <1>2, <1>3
  <2>2. IsBudget(Power!Budget(c, g, n, m))
    BY <1>1
  <2> QED BY <2>1, <2>2
<1>4. 0 \in 0 .. 100
  OBVIOUS
<1>5. IsBudget(Power!Budget(0, 0, 0, 0))
  BY <1>1, <1>4
<1>6. QED
  BY <1>3, <1>5, PowerConstants

\* A profile is put into force as it is.
LEMMA BudgetTaken ==
  ASSUME NEW profile, NEW b, \/ IsBudget(b)
                             \/ profile = "custom" /\ b \in Budgets
  PROVE  BudgetsTyped(profile, b, b)
<1>1. \A u \in Power!Units : b[u] \in Nat
  <2>1. CASE IsBudget(b)
    BY <2>1 DEF IsBudget
  <2>2. CASE b \in Budgets
    <3>1. \A u \in Power!Units : b[u] \in 0 .. UIntWrap - 1
      BY <2>2, PowerConstants
    <3> QED BY <3>1
  <2> QED BY <2>1, <2>2
<1>2. QED
  BY <1>1 DEF BudgetsTyped

LEMMA NoWorkloadsHold ==
  /\ Power!NoWorkloads = [i \in Power!Slots |-> Power!NoWorkloads[i]]
  /\ \A i \in Power!Slots : IsSlot(Power!NoWorkloads[i])
  /\ Power!ActiveSlots(Power!NoWorkloads) = {}
<1>1. \A i \in Power!Slots : Power!NoWorkloads[i] = [name |-> "", unit |-> "cpu", load |-> 0]
  BY DEF Power!NoWorkloads, Power!FreeSlot, Power!Slot
<1>2. ASSUME NEW i \in Power!Slots PROVE IsSlot(Power!NoWorkloads[i]) /\ ~(Power!NoWorkloads[i].load > 0)
  <2> DEFINE x == Power!NoWorkloads[i]
  <2>1. x = [name |-> "", unit |-> "cpu", load |-> 0]
    BY <1>1
  <2> HIDE DEF x
  <2>2. "cpu" \in Power!Units
    BY DEF Power!Units
  <2>3. x.unit = "cpu" /\ x.load = 0 /\ x.name = ""
    BY <2>1
  <2>4. x = [name |-> x.name, unit |-> x.unit, load |-> x.load]
    BY <2>1, <2>3
  <2>5. x.load \in Nat /\ ~(x.load > 0)
    <3>1. x.load = 0
      BY <2>3
    <3>2. ASSUME NEW y, y = 0 PROVE y \in Nat /\ ~(y > 0)
      BY <3>2
    <3> QED BY <3>1, <3>2
  <2>6. IsSlot(x)
    BY <2>2, <2>3, <2>4, <2>5 DEF IsSlot
  <2> QED BY <2>5, <2>6 DEF x
<1>3. Power!NoWorkloads = [i \in Power!Slots |-> Power!NoWorkloads[i]]
  BY DEF Power!NoWorkloads
<1>4. QED
  BY <1>2, <1>3 DEF Power!ActiveSlots

LEMMA FanNames ==
  {"silent", "balanced", "performance", "aggressive"} = DOMAIN Power!FanRpm
BY DEF Power!FanRpm

LEMMA PowerInit ==
  ASSUME Power!Init PROVE PowerInv
<1>1. GovernorTyped
  <2>1. eroe.base = Power!Budget(0, 0, 0, 0) /\ eroe.eff = Power!Budget(0, 0, 0, 0)
    BY DEF Power!Init
  <2>2. BudgetsTyped(eroe.profile, eroe.base, eroe.eff)
    BY <2>1, PresetsSound, BudgetTaken
  <2>3. eroe.slots = Power!NoWorkloads
    BY DEF Power!Init
  <2>4. eroe.slots = [i \in Power!Slots |-> eroe.slots[i]] /\ \A i \in Power!Slots : IsSlot(eroe.slots[i])
    BY <2>3, NoWorkloadsHold
  <2>5. eroe.count \in 0 .. MaxWorkloads /\ eroe.cap \in Nat /\ eroe.junction \in Degrees
    BY WorkloadSlots DEF Power!Init, Degrees
  <2>6. eroe.fan \in DOMAIN Power!FanRpm
    BY FanNames DEF Power!Init
  <2>7. eroe = [ready |-> eroe.ready, profile |-> eroe.profile, base |-> eroe.base,
             eff |-> eroe.eff, slots |-> eroe.slots, count |-> eroe.count, fan |-> eroe.fan,
             rpm |-> eroe.rpm, junction |-> eroe.junction, hotspot |-> eroe.hotspot,
             board |-> eroe.board, cap |-> eroe.cap, limit |-> eroe.limit]
    BY DEF Power!Init
  <2> QED BY <2>2, <2>4, <2>5, <2>6, <2>7 DEF GovernorTyped
<1>2. WorkloadsCounted
  BY NoWorkloadsHold DEF Power!Init, WorkloadsCounted
<1>3. QED
  BY <1>1, <1>2 DEF PowerInv

LEMMA StartHolds ==
  ASSUME PowerInv, Power!Start PROVE PowerInv'
<1>1. /\ eroe'.base = Power!Preset("idle") /\ eroe'.eff = Power!Preset("idle")
      /\ eroe'.slots = Power!NoWorkloads /\ eroe'.count = 0 /\ eroe'.cap = 0
      /\ eroe'.fan = "balanced" /\ eroe'.junction = 35
  BY DEF Power!Start, Power!Ambient
<1>2. (eroe = [ready |-> eroe.ready, profile |-> eroe.profile, base |-> eroe.base,
             eff |-> eroe.eff, slots |-> eroe.slots, count |-> eroe.count, fan |-> eroe.fan,
             rpm |-> eroe.rpm, junction |-> eroe.junction, hotspot |-> eroe.hotspot,
             board |-> eroe.board, cap |-> eroe.cap, limit |-> eroe.limit])'
  BY DEF Power!Start
<1>3. BudgetsTyped(eroe'.profile, eroe'.base, eroe'.eff)
  BY <1>1, PresetsSound, BudgetTaken
<1>4. /\ eroe'.slots = [i \in Power!Slots |-> eroe'.slots[i]]
      /\ \A i \in Power!Slots : IsSlot(eroe'.slots[i])
  BY <1>1, NoWorkloadsHold
<1>5. eroe'.count \in 0 .. MaxWorkloads /\ eroe'.cap \in Nat /\ eroe'.junction \in Degrees
  BY <1>1, WorkloadSlots DEF Degrees
<1>6. eroe'.fan \in DOMAIN Power!FanRpm
  BY <1>1, FanNames
<1>7. GovernorTyped'
  BY <1>2, <1>3, <1>4, <1>5, <1>6 DEF GovernorTyped
<1>8. WorkloadsCounted'
  BY <1>1, NoWorkloadsHold DEF WorkloadsCounted
<1>9. QED
  BY <1>7, <1>8 DEF PowerInv

\* A call that changes at most these fields of the governor.
LEMMA GovernorMoved ==
  ASSUME PowerInv, NEW ready, NEW profile, NEW base, NEW eff, NEW slots, NEW count, NEW fan, NEW rpm,
         NEW junction, NEW hotspot, NEW board, NEW cap, NEW limit,
         eroe' = [ready |-> ready, profile |-> profile, base |-> base,
             eff |-> eff, slots |-> slots, count |-> count, fan |-> fan,
             rpm |-> rpm, junction |-> junction, hotspot |-> hotspot,
             board |-> board, cap |-> cap, limit |-> limit],
         BudgetsTyped(profile, base, eff),
         slots = [i \in Power!Slots |-> slots[i]], \A i \in Power!Slots : IsSlot(slots[i]),
         count \in 0 .. MaxWorkloads, cap \in Nat, fan \in DOMAIN Power!FanRpm, junction \in Degrees,
         Power!ActiveSlots(slots) # {} => count > 0
  PROVE  PowerInv'
<1>1. /\ eroe'.profile = profile /\ eroe'.base = base /\ eroe'.eff = eff /\ eroe'.slots = slots /\ eroe'.count = count
      /\ eroe'.fan = fan /\ eroe'.junction = junction /\ eroe'.cap = cap
  OBVIOUS
<1>2. (eroe = [ready |-> eroe.ready, profile |-> eroe.profile, base |-> eroe.base,
             eff |-> eroe.eff, slots |-> eroe.slots, count |-> eroe.count, fan |-> eroe.fan,
             rpm |-> eroe.rpm, junction |-> eroe.junction, hotspot |-> eroe.hotspot,
             board |-> eroe.board, cap |-> eroe.cap, limit |-> eroe.limit])'
  OBVIOUS
<1>3. GovernorTyped'
  BY <1>1, <1>2 DEF GovernorTyped
<1>4. WorkloadsCounted'
  BY <1>1 DEF WorkloadsCounted
<1>5. QED
  BY <1>3, <1>4 DEF PowerInv

Governor == [ready |-> eroe.ready, profile |-> eroe.profile, base |-> eroe.base,
             eff |-> eroe.eff, slots |-> eroe.slots, count |-> eroe.count, fan |-> eroe.fan,
             rpm |-> eroe.rpm, junction |-> eroe.junction, hotspot |-> eroe.hotspot,
             board |-> eroe.board, cap |-> eroe.cap, limit |-> eroe.limit]

LEMMA GovernorFields ==
  ASSUME PowerInv
  PROVE  /\ eroe = Governor
         /\ BudgetsTyped(eroe.profile, eroe.base, eroe.eff)
         /\ eroe.slots = [i \in Power!Slots |-> eroe.slots[i]]
         /\ \A i \in Power!Slots : IsSlot(eroe.slots[i])
         /\ eroe.count \in 0 .. MaxWorkloads /\ eroe.cap \in Nat /\ eroe.fan \in DOMAIN Power!FanRpm
         /\ eroe.junction \in Degrees
         /\ Power!ActiveSlots(eroe.slots) # {} => eroe.count > 0
  BY DEF PowerInv, GovernorTyped, WorkloadsCounted, Governor

LEMMA SelectHolds ==
  ASSUME PowerInv, NEW profile, NEW budget, Power!Select(profile, budget),
         BudgetsTyped(profile, budget, budget)
  PROVE  PowerInv'
<1>1. eroe' = [ready |-> eroe.ready, profile |-> profile, base |-> budget,
             eff |-> budget, slots |-> Power!NoWorkloads, count |-> 0, fan |-> eroe.fan,
             rpm |-> eroe.rpm, junction |-> eroe.junction, hotspot |-> eroe.hotspot,
             board |-> eroe.board, cap |-> eroe.cap, limit |-> eroe.limit]
  BY GovernorFields DEF Power!Select, Governor
<1>2. 0 \in 0 .. MaxWorkloads
  BY WorkloadSlots
<1>3. QED
  BY <1>1, <1>2, GovernorFields, NoWorkloadsHold, GovernorMoved

LEMMA DeclareHolds ==
  ASSUME PowerInv, NEW n \in WorkloadNames, NEW u \in LoadUnits, NEW load \in Loads,
         Power!Declare(n, u, load)
  PROVE  PowerInv'
<1> DEFINE k == Power!SlotFor(n)
           new == Power!Slot(Stored[n], u, load)
           slots == [eroe.slots EXCEPT ![k] = new]
           count == IF load > 0 THEN Power!Recounted(slots) ELSE eroe.count
<1>1. IsSlot(new) /\ new.load = load /\ load \in Nat
  <2>1. u \in Power!Units /\ load \in Nat
    BY PowerConstants
  <2> QED BY <2>1 DEF IsSlot, Power!Slot
<1>2. eroe' = [eroe EXCEPT !.slots = slots, !.count = count]
  BY DEF Power!Declare
<1> HIDE DEF new, k
<1>3. /\ slots = [i \in Power!Slots |-> slots[i]] /\ \A i \in Power!Slots : IsSlot(slots[i])
      /\ \A i \in Power!Slots : slots[i] = new \/ slots[i] = eroe.slots[i]
  <2>1. eroe.slots = [i \in Power!Slots |-> eroe.slots[i]] /\ \A i \in Power!Slots : IsSlot(eroe.slots[i])
    BY GovernorFields
  <2>2. \A i \in Power!Slots : slots[i] = new \/ slots[i] = eroe.slots[i]
    BY <2>1
  <2>3. slots = [i \in Power!Slots |-> slots[i]]
    BY <2>1
  <2> QED BY <1>1, <2>1, <2>2, <2>3
<1> HIDE DEF slots
<1>4. count \in 0 .. MaxWorkloads /\ (Power!ActiveSlots(slots) # {} => count > 0)
  <2>1. CASE load > 0
    BY <2>1, CountsActive
  <2>2. CASE ~(load > 0)
    <3>1. Power!ActiveSlots(slots) \subseteq Power!ActiveSlots(eroe.slots)
      BY <1>1, <1>3, <2>2 DEF Power!ActiveSlots
    <3> QED BY <2>2, <3>1, GovernorFields
  <2> QED BY <2>1, <2>2
<1> HIDE DEF count
<1>5. eroe' = [ready |-> eroe.ready, profile |-> eroe.profile, base |-> eroe.base,
             eff |-> eroe.eff, slots |-> slots, count |-> count, fan |-> eroe.fan,
             rpm |-> eroe.rpm, junction |-> eroe.junction, hotspot |-> eroe.hotspot,
             board |-> eroe.board, cap |-> eroe.cap, limit |-> eroe.limit]
  BY <1>2, GovernorFields DEF Governor
<1>6. QED
  BY <1>3, <1>4, <1>5, GovernorFields, GovernorMoved

LEMMA SettingsHold ==
  ASSUME PowerInv,
         \/ \E fan \in Fans : Power!SetFan(fan)
         \/ \E watts \in Caps : Power!SetCap(watts)
         \/ \E celsius : Power!SetLimit(celsius)
  PROVE  PowerInv'
<1>1. ASSUME NEW fan \in Fans, Power!SetFan(fan) PROVE PowerInv'
  <2>1. eroe' = [ready |-> eroe.ready, profile |-> eroe.profile, base |-> eroe.base,
             eff |-> eroe.eff, slots |-> eroe.slots, count |-> eroe.count, fan |-> fan,
             rpm |-> Power!FanRpm[fan], junction |-> eroe.junction, hotspot |-> eroe.hotspot,
             board |-> eroe.board, cap |-> eroe.cap, limit |-> eroe.limit]
    BY <1>1, GovernorFields DEF Power!SetFan, Governor
  <2>2. fan \in DOMAIN Power!FanRpm
    BY PowerConstants
  <2> QED BY <2>1, <2>2, GovernorFields, GovernorMoved
<1>2. ASSUME NEW watts \in Caps, Power!SetCap(watts) PROVE PowerInv'
  <2>1. eroe' = [ready |-> eroe.ready, profile |-> eroe.profile, base |-> eroe.base,
             eff |-> eroe.eff, slots |-> eroe.slots, count |-> eroe.count, fan |-> eroe.fan,
             rpm |-> eroe.rpm, junction |-> eroe.junction, hotspot |-> eroe.hotspot,
             board |-> eroe.board, cap |-> watts, limit |-> eroe.limit]
    BY <1>2, GovernorFields DEF Power!SetCap, Governor
  <2>2. watts \in Nat
    BY PowerConstants
  <2> QED BY <2>1, <2>2, GovernorFields, GovernorMoved
<1>3. ASSUME NEW celsius, Power!SetLimit(celsius) PROVE PowerInv'
  <2>1. eroe' = [ready |-> eroe.ready, profile |-> eroe.profile, base |-> eroe.base,
             eff |-> eroe.eff, slots |-> eroe.slots, count |-> eroe.count, fan |-> eroe.fan,
             rpm |-> eroe.rpm, junction |-> eroe.junction, hotspot |-> eroe.hotspot,
             board |-> eroe.board, cap |-> eroe.cap, limit |-> celsius]
    BY <1>3, GovernorFields DEF Power!SetLimit, Governor
  <2> QED BY <2>1, GovernorFields, GovernorMoved
<1>4. QED
  BY <1>1, <1>2, <1>3

LEMMA GovernHolds ==
  ASSUME PowerInv, Power!GetBudget \/ Power!GetThermal
  PROVE  PowerInv'
<1>1. GovernorTyped
  BY DEF PowerInv
<1>2. CASE Power!GetBudget
  <2>1. PICK overflow \in Power!Ends : eroe' = [eroe EXCEPT !.eff = Power!Balanced(overflow)]
    BY <1>2 DEF Power!GetBudget
  <2> DEFINE eff == Power!Balanced(overflow)
  <2>2. eff # eroe.base => IsBudget(eff)
    BY <1>1, BalancedBound
  <2> HIDE DEF eff
  <2>3. eroe' = [ready |-> eroe.ready, profile |-> eroe.profile, base |-> eroe.base,
             eff |-> eff, slots |-> eroe.slots, count |-> eroe.count, fan |-> eroe.fan,
             rpm |-> eroe.rpm, junction |-> eroe.junction, hotspot |-> eroe.hotspot,
             board |-> eroe.board, cap |-> eroe.cap, limit |-> eroe.limit]
    BY <2>1, GovernorFields DEF eff, Governor
  <2>4. BudgetsTyped(eroe.profile, eroe.base, eff)
    BY <2>2, GovernorFields DEF BudgetsTyped
  <2> QED BY <2>3, <2>4, GovernorFields, GovernorMoved
<1>3. CASE Power!GetThermal
  <2>1. eroe' = [ready |-> eroe.ready, profile |-> eroe.profile, base |-> eroe.base,
             eff |-> eroe.eff, slots |-> eroe.slots, count |-> eroe.count, fan |-> eroe.fan,
             rpm |-> eroe.rpm, junction |-> Power!Junction, hotspot |-> Power!Junction + 5,
             board |-> Power!Ambient + Power!Delta \div 4, cap |-> eroe.cap, limit |-> eroe.limit]
    BY <1>3, GovernorFields DEF Power!GetThermal, Governor
  <2>2. Power!Junction \in Degrees
    BY <1>1, JunctionBound
  <2> QED BY <2>1, <2>2, GovernorFields, GovernorMoved
<1>4. QED
  BY <1>2, <1>3

LEMMA PowerStep ==
  ASSUME PowerInv, [PlatformNext]_platformVars
  PROVE  PowerInv'
<1>1. CASE eroe' = eroe
  BY <1>1 DEF PowerInv, GovernorTyped, WorkloadsCounted
<1>2. CASE Power!Next
  <2>1. ASSUME NEW p \in Profiles, Power!Select(p, Power!Preset(p)) PROVE PowerInv'
    <3> DEFINE budget == Power!Preset(p)
    <3>1. IsBudget(budget) /\ Power!Select(p, budget)
      BY <2>1, PresetsSound
    <3> HIDE DEF budget
    <3>2. BudgetsTyped(p, budget, budget)
      BY <3>1, BudgetTaken
    <3>3. QED
      BY <3>1, <3>2, SelectHolds
  <2>2. ASSUME NEW budget \in Budgets, Power!Select("custom", budget) PROVE PowerInv'
    BY <2>2, BudgetTaken, SelectHolds
  <2>3. ASSUME NEW n \in WorkloadNames, NEW u \in LoadUnits, NEW load \in Loads,
               Power!Declare(n, u, load)
        PROVE  PowerInv'
    BY <2>3, DeclareHolds
  <2>4. ASSUME \/ \E fan \in Fans : Power!SetFan(fan)
               \/ \E watts \in Caps : Power!SetCap(watts)
               \/ Power!SetLimit(60)
        PROVE  PowerInv'
    BY <2>4, SettingsHold
  <2>5. ASSUME Power!Start \/ Power!GetBudget \/ Power!GetThermal PROVE PowerInv'
    BY <2>5, StartHolds, GovernHolds
  <2>6. QED
    BY <1>2, <2>1, <2>2, <2>3, <2>4, <2>5 DEF Power!Next
<1>3. QED
  BY <1>1, <1>2 DEF PlatformNext, OthersStay, platformVars, powerVars

(* Whatever profiles, percentages or not, are selected and whatever is declared,  *)
(* dropped and set in whatever order, the budget that eroe_get_budget would hand  *)
(* out while a workload is active obeys the cap in force: rebalance_budget looks  *)
(* at num_workloads, which eroe_declare_workload counts again only for a load     *)
(* above zero, so it may be stale but is never zero too early.                    *)
THEOREM CapObeyed == PlatformSpec => []CapHoldsUnderLoad
<1>1. PlatformInit => PowerInv
  BY PowerInit DEF PlatformInit
<1>2. PowerInv /\ [PlatformNext]_platformVars => PowerInv'
  BY PowerStep
<1>3. PowerInv => CapHoldsUnderLoad
  <2> SUFFICES ASSUME PowerInv, Power!ActiveSlots(eroe.slots) # {}, Power!Capped,
                      NEW overflow \in Power!Ends, NEW u \in Power!Units
               PROVE  Power!Balanced(overflow)[u] * Power!DefaultTdp <= 100 * eroe.cap
    BY DEF CapHoldsUnderLoad, Power!CapHoldsUnderLoad
  <2>1. eroe.count > 0 /\ GovernorTyped
    BY GovernorFields DEF PowerInv
  <2> QED BY <2>1, BalancedBound
<1>4. QED
  BY <1>1, <1>2, <1>3, PTL DEF PlatformSpec

LEMMA PowerTypesHold == PowerInv => Power!TypeOK
<1> SUFFICES ASSUME PowerInv PROVE Power!TypeOK
  OBVIOUS
<1>1. /\ eroe.profile # "custom" => \A u \in Power!Units : eroe.base[u] \in 0 .. 100
      /\ eroe.eff # eroe.base => \A u \in Power!Units : eroe.eff[u] \in 0 .. 100
  BY GovernorFields DEF BudgetsTyped, IsBudget
<1>2. Power!Listed(MaxWorkloads) = Power!ActiveSlots(eroe.slots)
  <2> DEFINE A == Power!ActiveSlots(eroe.slots)
             Below(i) == {j \in A : j < i}
  <2>1. ASSUME NEW i \in A PROVE Cardinality(Below(i)) < MaxWorkloads
    <3>1. A \subseteq 1 .. MaxWorkloads /\ MaxWorkloads \in Nat
      BY CountsActive, WorkloadSlots
    <3>2. i \in 1 .. MaxWorkloads
      BY <2>1, <3>1
    <3>3. Below(i) \subseteq 1 .. i - 1
      BY <3>1, <3>2
    <3>4. IsFiniteSet(1 .. i - 1) /\ Cardinality(1 .. i - 1) = i - 1
      BY <3>2, FS_Interval
    <3> HIDE DEF Below
    <3>5. Cardinality(Below(i)) <= i - 1 /\ Cardinality(Below(i)) \in Nat
      BY <3>3, <3>4, FS_Subset, FS_CardinalityType
    <3> DEFINE n == Cardinality(Below(i))
    <3> HIDE DEF n
    <3>6. n < MaxWorkloads
      BY <3>1, <3>2, <3>5 DEF n
    <3> QED BY <3>6 DEF n
  <2>2. Power!Listed(MaxWorkloads) = {i \in A : Cardinality(Below(i)) < MaxWorkloads}
    BY DEF Power!Listed, Power!Cardinality, Cardinality
  <2> HIDE DEF A, Below
  <2>3. Power!Listed(MaxWorkloads) = A
    BY <2>1, <2>2
  <2> QED BY <2>3 DEF A
<1>3. eroe.junction \in 0 .. Power!Ambient + Power!ThermalScale
  BY GovernorFields DEF Degrees, Power!Ambient, Power!ThermalScale
<1>4. QED
  BY <1>1, <1>2, <1>3, GovernorFields DEF Power!TypeOK

-----------------------------------------------------------------------------
(* The Atlas memory.                                                        *)

LEMMA ContextSet ==
  /\ MaxContexts \in Nat /\ Memory!Contexts = 0 .. MaxContexts - 1 /\ IsFiniteSet(Memory!Contexts)
<1>1. MaxContexts \in Nat /\ Memory!Contexts = 0 .. MaxContexts - 1
  BY MemoryConstants DEF Memory!Contexts
<1>2. QED
  BY <1>1, FS_Interval

UsedBy(k) == [c \in Memory!Contexts |-> k[c].used]
Charged(k) == SumFunctionOnSet(UsedBy(k), Memory!Contexts)

LEMMA ChargesSummed ==
  ASSUME NEW k
  PROVE  Memory!MapThenSumSet(LAMBDA c : k[c].used, Memory!Contexts) = Charged(k)
<1> DEFINE D == Memory!Contexts
           f == UsedBy(k)
           F(g) == [T \in SUBSET D |->
             IF T = {} THEN 0
             ELSE k[CHOOSE x \in T : TRUE].used + g[T \ {CHOOSE x \in T : TRUE}]]
           G == CHOOSE g : g = F(g)
<1>1. Memory!MapThenSumSet(LAMBDA c : k[c].used, Memory!Contexts) = G[D]
  BY DEF Memory!MapThenSumSet, Memory!MapThenFoldSet
<1>2. IsFiniteSet(D)
  BY ContextSet
<1>3. PICK g : g = [T \in SUBSET D |-> g[T]] /\ SumsUp(f, D, g)
  BY <1>2, SummingExists
<1>4. ASSUME NEW T \in SUBSET D, T # {}
      PROVE  f[CHOOSE x \in T : TRUE] = k[CHOOSE x \in T : TRUE].used
  <2>1. (CHOOSE x \in T : TRUE) \in D
    <3> HIDE DEF D
    <3> QED BY <1>4
  <2> QED BY <2>1 DEF UsedBy
<1> HIDE DEF D, f
<1>5. g = F(g)
  <2>1. ASSUME NEW T \in SUBSET D
        PROVE  g[T] = IF T = {} THEN 0
                      ELSE k[CHOOSE x \in T : TRUE].used + g[T \ {CHOOSE x \in T : TRUE}]
    BY <1>3, <1>4 DEF SumsUp
  <2> QED BY <1>3, <2>1
<1>6. G = F(G)
  BY <1>5
<1> HIDE DEF G
<1>7. SumsUp(f, D, G)
  <2>1. ASSUME NEW T \in SUBSET D
        PROVE  G[T] = IF T = {} THEN 0
                      ELSE k[CHOOSE x \in T : TRUE].used + G[T \ {CHOOSE x \in T : TRUE}]
    BY <1>6
  <2> QED BY <1>4, <2>1 DEF SumsUp
<1>8. G[D] = SumFunctionOnSet(f, D)
  BY <1>2, <1>7, SummingSubset
<1>9. QED
  BY <1>1, <1>8 DEF D, f, Charged

IsContext(x) == x = [active |-> x.active, frozen |-> x.frozen, used |-> x.used]
                  /\ x.active \in BOOLEAN /\ x.used \in Nat
AreContexts(k) ==
  k = [c \in Memory!Contexts |-> k[c]] /\ \A c \in Memory!Contexts : IsContext(k[c])
OpenOnes(k) == {c \in Memory!Contexts : k[c].active}
Calls == 0 .. MaxCount
Room == MvramBytes[atlas.tier]

DriverTyped ==
  /\ atlas = [ready |-> atlas.ready, tier |-> atlas.tier, base |-> atlas.base,
              next |-> atlas.next, total |-> atlas.total, contexts |-> atlas.contexts,
              num |-> atlas.num, pstate |-> atlas.pstate, switches |-> atlas.switches,
              gates |-> atlas.gates, wakes |-> atlas.wakes, listener |-> atlas.listener,
              link |-> atlas.link]
  /\ atlas.tier \in DOMAIN MvramBytes /\ atlas.base = MvramBase
  /\ atlas.next \in Nat /\ MvramBase <= atlas.next /\ atlas.next <= MvramBase + Room
  /\ atlas.total \in 0 .. AtlasWrap - 1
  /\ AreContexts(atlas.contexts)
  /\ atlas.switches \in Calls /\ atlas.gates \in Calls /\ atlas.wakes \in Calls

ContextsCounted == atlas.num = Cardinality(OpenOnes(atlas.contexts))

HandlesApart ==
  /\ \A h \in handles :
       /\ h.addr \in Nat /\ h.size \in Nat \ {0}
       /\ MvramBase <= h.addr /\ h.addr + h.size <= atlas.next
  /\ \A h, k \in handles : h # k => h.addr + h.size <= k.addr \/ k.addr + k.size <= h.addr

ChargesCovered == Charged(atlas.contexts) <= atlas.next - MvramBase

MemoryInv == DriverTyped /\ ContextsCounted /\ HandlesApart /\ ChargesCovered

LEMMA ChargedNat ==
  ASSUME NEW k, AreContexts(k)
  PROVE  /\ Charged(k) \in Nat
         /\ \A c \in Memory!Contexts : k[c].used \in Nat /\ k[c].used <= Charged(k)
<1>1. \A c \in Memory!Contexts : UsedBy(k)[c] = k[c].used /\ k[c].used \in Nat
  BY DEF AreContexts, IsContext, UsedBy
<1>2. Charged(k) \in Nat
  BY <1>1, ContextSet, SumNat DEF Charged
<1>3. ASSUME NEW c \in Memory!Contexts PROVE UsedBy(k)[c] <= Charged(k)
  BY <1>1, ContextSet, SumAtLeast DEF Charged
<1>4. QED
  BY <1>1, <1>2, <1>3

\* A context that is charged otherwise changes the charges by as much.
LEMMA Recharged ==
  ASSUME NEW k, AreContexts(k), NEW c \in Memory!Contexts, NEW x, IsContext(x),
         NEW m, m = [k EXCEPT ![c] = x]
  PROVE  AreContexts(m) /\ Charged(m) = Charged(k) - k[c].used + x.used
<1>1. AreContexts(m) /\ m[c] = x /\ \A d \in Memory!Contexts \ {c} : m[d] = k[d]
  BY DEF AreContexts
<1>2. \A d \in Memory!Contexts : UsedBy(k)[d] = k[d].used /\ UsedBy(m)[d] = m[d].used
  BY DEF UsedBy
<1>3. \A d \in Memory!Contexts : UsedBy(k)[d] \in Int /\ UsedBy(m)[d] \in Int
  <2>1. \A d \in Memory!Contexts : k[d].used \in Int
    BY DEF AreContexts, IsContext
  <2>2. \A d \in Memory!Contexts : m[d].used \in Int
    BY <1>1 DEF AreContexts, IsContext
  <2> QED BY <1>2, <2>1, <2>2
<1>4. ASSUME NEW d \in Memory!Contexts \ {c} PROVE UsedBy(k)[d] = UsedBy(m)[d]
  <2>1. d \in Memory!Contexts /\ m[d] = k[d]
    BY <1>1
  <2>2. UsedBy(k)[d] = k[d].used /\ UsedBy(m)[d] = m[d].used
    BY <1>2, <2>1
  <2> QED BY <2>1, <2>2
<1>5. Charged(m) = Charged(k) - UsedBy(k)[c] + UsedBy(m)[c]
  <2> DEFINE f == UsedBy(k)
             g == UsedBy(m)
             S == Memory!Contexts
  <2>1. /\ IsFiniteSet(S) /\ (\A y \in S : f[y] \in Int /\ g[y] \in Int)
        /\ \A y \in S \ {c} : f[y] = g[y]
    BY <1>3, <1>4, ContextSet
  <2>2. c \in S
    OBVIOUS
  <2> HIDE DEF f, g, S
  <2>3. SumFunctionOnSet(g, S) = SumFunctionOnSet(f, S) - f[c] + g[c]
    BY <2>1, <2>2, SumChange
  <2> QED BY <2>3 DEF f, g, S, Charged
<1>6. QED
  BY <1>1, <1>2, <1>5

\* The same charges, whatever is frozen.
LEMMA SameCharges ==
  ASSUME NEW k, NEW m, AreContexts(k), AreContexts(m),
         \A c \in Memory!Contexts : m[c].used = k[c].used /\ m[c].active = k[c].active
  PROVE  Charged(m) = Charged(k) /\ OpenOnes(m) = OpenOnes(k)
<1>1. \A c \in Memory!Contexts : UsedBy(k)[c] \in Int /\ UsedBy(k)[c] = UsedBy(m)[c]
  BY DEF AreContexts, IsContext, UsedBy
<1>2. Charged(m) = Charged(k)
  BY <1>1, ContextSet, SumEqual DEF Charged
<1>3. QED
  BY <1>2 DEF OpenOnes

LEMMA OpenedOne ==
  ASSUME NEW k, AreContexts(k), NEW c \in Memory!Contexts, NEW x, IsContext(x),
         NEW m, m = [k EXCEPT ![c] = x], x.active # k[c].active
  PROVE  Cardinality(OpenOnes(m)) = IF x.active THEN Cardinality(OpenOnes(k)) + 1
                                    ELSE Cardinality(OpenOnes(k)) - 1
<1>1. m[c] = x /\ (\A d \in Memory!Contexts \ {c} : m[d] = k[d])
      /\ x.active \in BOOLEAN /\ k[c].active \in BOOLEAN
  BY DEF AreContexts, IsContext
<1>2. IsFiniteSet(OpenOnes(k)) /\ Cardinality(OpenOnes(k)) \in Nat
  BY ContextSet, FS_Subset, FS_CardinalityType DEF OpenOnes
<1>3. CASE x.active
  <2>1. OpenOnes(m) = OpenOnes(k) \cup {c} /\ c \notin OpenOnes(k)
    BY <1>1, <1>3 DEF OpenOnes
  <2> QED BY <1>2, <1>3, <2>1, FS_AddElement
<1>4. CASE ~x.active
  <2>1. OpenOnes(m) = OpenOnes(k) \ {c} /\ c \in OpenOnes(k)
    BY <1>1, <1>4 DEF OpenOnes
  <2> QED BY <1>2, <1>4, <2>1, FS_RemoveElement
<1>5. QED
  BY <1>3, <1>4

Driver == [ready |-> atlas.ready, tier |-> atlas.tier, base |-> atlas.base,
              next |-> atlas.next, total |-> atlas.total, contexts |-> atlas.contexts,
              num |-> atlas.num, pstate |-> atlas.pstate, switches |-> atlas.switches,
              gates |-> atlas.gates, wakes |-> atlas.wakes, listener |-> atlas.listener,
              link |-> atlas.link]

LEMMA DriverFields ==
  ASSUME MemoryInv
  PROVE  /\ atlas = Driver
         /\ atlas.tier \in DOMAIN MvramBytes /\ atlas.base = MvramBase
         /\ MvramBytes[atlas.tier] \in Nat /\ MvramBase \in Nat
         /\ atlas.next \in Nat /\ MvramBase <= atlas.next
         /\ atlas.next <= MvramBase + MvramBytes[atlas.tier]
         /\ atlas.total \in 0 .. AtlasWrap - 1 /\ AreContexts(atlas.contexts)
         /\ atlas.switches \in Calls /\ atlas.gates \in Calls /\ atlas.wakes \in Calls
         /\ atlas.num = Cardinality(OpenOnes(atlas.contexts))
         /\ Charged(atlas.contexts) <= atlas.next - MvramBase
<1>1. atlas.tier \in DOMAIN MvramBytes
  BY DEF MemoryInv, DriverTyped
<1>2. MvramBytes[atlas.tier] \in Nat /\ MvramBase \in Nat
  BY <1>1, MemoryConstants
<1>3. QED
  BY <1>1, <1>2 DEF MemoryInv, DriverTyped, ContextsCounted, ChargesCovered, Driver, Room

LEMMA DriverMoved ==
  ASSUME NEW ready, NEW tier, NEW next, NEW total, NEW contexts, NEW num, NEW pstate, NEW switches,
         NEW gates, NEW wakes, NEW listener, NEW link,
         atlas' = [ready |-> ready, tier |-> tier, base |-> MvramBase,
              next |-> next, total |-> total, contexts |-> contexts,
              num |-> num, pstate |-> pstate, switches |-> switches,
              gates |-> gates, wakes |-> wakes, listener |-> listener,
              link |-> link],
         tier \in DOMAIN MvramBytes, next \in Nat, MvramBase <= next,
         next <= MvramBase + MvramBytes[tier], total \in 0 .. AtlasWrap - 1,
         AreContexts(contexts), switches \in Calls, gates \in Calls, wakes \in Calls,
         num = Cardinality(OpenOnes(contexts)), Charged(contexts) <= next - MvramBase,
         HandlesApart'
  PROVE  MemoryInv'
<1>1. /\ atlas'.tier = tier /\ atlas'.base = MvramBase /\ atlas'.next = next
      /\ atlas'.total = total /\ atlas'.contexts = contexts /\ atlas'.num = num
      /\ atlas'.switches = switches /\ atlas'.gates = gates /\ atlas'.wakes = wakes
  OBVIOUS
<1>2. (atlas = [ready |-> atlas.ready, tier |-> atlas.tier, base |-> atlas.base,
              next |-> atlas.next, total |-> atlas.total, contexts |-> atlas.contexts,
              num |-> atlas.num, pstate |-> atlas.pstate, switches |-> atlas.switches,
              gates |-> atlas.gates, wakes |-> atlas.wakes, listener |-> atlas.listener,
              link |-> atlas.link])'
  OBVIOUS
<1>3. DriverTyped'
  BY <1>1, <1>2 DEF DriverTyped, Room
<1>4. ContextsCounted' /\ ChargesCovered'
  BY <1>1 DEF ContextsCounted, ChargesCovered
<1>5. QED
  BY <1>3, <1>4 DEF MemoryInv

\* What callers hold stays apart when nothing is handed out.
LEMMA HandlesKept ==
  ASSUME MemoryInv, handles' \subseteq handles, atlas'.next = atlas.next
  PROVE  HandlesApart'
  BY DEF MemoryInv, HandlesApart

LEMMA NoContexts ==
  /\ IsContext(Memory!NoContext) /\ Memory!NoContext.used = 0 /\ ~Memory!NoContext.active
  /\ IsContext(Memory!Opened) /\ Memory!Opened.used = 0 /\ Memory!Opened.active
BY DEF Memory!NoContext, Memory!Opened, Memory!Context, IsContext

NoneOpen == [c \in Memory!Contexts |-> Memory!NoContext]

LEMMA FreshContexts ==
  AreContexts(NoneOpen) /\ Cardinality(OpenOnes(NoneOpen)) = 0 /\ Charged(NoneOpen) = 0
<1> DEFINE k == NoneOpen
<1>1. AreContexts(k) /\ \A c \in Memory!Contexts : k[c].used = 0 /\ ~k[c].active
  BY NoContexts DEF AreContexts, NoneOpen
<1>2. OpenOnes(k) = {}
  BY <1>1 DEF OpenOnes
<1>3. Cardinality(OpenOnes(k)) = 0
  BY <1>2, FS_EmptySet
<1>4. Charged(k) = 0
  <2> DEFINE f == UsedBy(k)
             S == Memory!Contexts
  <2>1. \A c \in S : f[c] = 0
    BY <1>1 DEF UsedBy
  <2>2. IsFiniteSet(S)
    BY ContextSet
  <2> HIDE DEF f, S
  <2>3. SumFunctionOnSet(f, S) = 0
    BY <2>1, <2>2, SumZero
  <2> QED BY <2>3 DEF Charged, f, S
<1>5. QED
  BY <1>1, <1>3, <1>4

LEMMA FreshHolds ==
  ASSUME NEW tier \in DOMAIN MvramBytes, NEW ready, atlas' = Memory!Fresh(tier, ready), handles' = {}
  PROVE  MemoryInv'
<1> DEFINE k == NoneOpen
           link == Memory!Untethered
<1>1. AreContexts(k) /\ Cardinality(OpenOnes(k)) = 0 /\ Charged(k) = 0
  BY FreshContexts
<1>2. k = [c \in Memory!Contexts |-> Memory!NoContext]
  BY DEF NoneOpen
<1> HIDE DEF link, k
<1>3. atlas' = [ready |-> ready, tier |-> tier, base |-> MvramBase,
              next |-> MvramBase, total |-> 0, contexts |-> k,
              num |-> 0, pstate |-> "balanced", switches |-> 0,
              gates |-> 0, wakes |-> 0, listener |-> FALSE,
              link |-> link]
  BY <1>2 DEF Memory!Fresh, link
<1>4. /\ MvramBytes[tier] \in Nat /\ MvramBase \in Nat /\ 0 \in Calls
      /\ 0 \in 0 .. AtlasWrap - 1
  BY MemoryConstants DEF Calls
<1>5. HandlesApart'
  BY DEF HandlesApart
<1>6. /\ MvramBase <= MvramBase /\ MvramBase <= MvramBase + MvramBytes[tier]
      /\ Charged(k) <= MvramBase - MvramBase
  BY <1>1, <1>4
<1>7. QED
  BY <1>1, <1>3, <1>4, <1>5, <1>6, DriverMoved

LEMMA MemoryInit ==
  ASSUME Memory!Init PROVE MemoryInv
<1> DEFINE k == NoneOpen
<1>1. PICK tier \in DOMAIN MvramBytes : atlas = Memory!Fresh(tier, FALSE)
  BY DEF Memory!Init
<1>2. handles = {}
  BY DEF Memory!Init
<1>3. AreContexts(k) /\ Cardinality(OpenOnes(k)) = 0 /\ Charged(k) = 0
  BY FreshContexts
<1>4. k = [c \in Memory!Contexts |-> Memory!NoContext]
  BY DEF NoneOpen
<1> HIDE DEF k
<1>5. /\ MvramBytes[tier] \in Nat /\ MvramBase \in Nat /\ 0 \in Calls
      /\ 0 \in 0 .. AtlasWrap - 1
  BY MemoryConstants DEF Calls
<1>6. /\ atlas.tier = tier /\ atlas.base = MvramBase /\ atlas.next = MvramBase
      /\ atlas.total = 0 /\ atlas.contexts = k /\ atlas.num = 0 /\ atlas.switches = 0
      /\ atlas.gates = 0 /\ atlas.wakes = 0
  BY <1>1, <1>4 DEF Memory!Fresh
<1>7. atlas = Driver
  BY <1>1 DEF Memory!Fresh, Driver
<1>8. DriverTyped
  <2>1. MvramBase <= MvramBase + MvramBytes[tier]
    BY <1>5
  <2> QED BY <1>3, <1>5, <1>6, <1>7, <2>1 DEF DriverTyped, Room, Driver
<1>9. ContextsCounted /\ ChargesCovered
  <2>1. MvramBase - MvramBase = 0
    BY <1>5
  <2> QED BY <1>3, <1>6, <2>1 DEF ContextsCounted, ChargesCovered
<1>10. QED
  BY <1>2, <1>8, <1>9 DEF MemoryInv, HandlesApart

\* Sums below the wrap are not reduced.
LEMMA Unwrapped ==
  ASSUME NEW n \in Nat, NEW a \in Nat, a < n
  PROVE  a % n = a
  OBVIOUS

LEMMA AllocHolds ==
  ASSUME MemoryInv, NEW size \in AtlasSizes, NEW c \in Memory!Contexts, Memory!Alloc(size, c)
  PROVE  MemoryInv'
<1> DEFINE k == atlas.contexts
           used == IF c > 0 /\ k[c].active THEN (k[c].used + size) % AtlasWrap ELSE k[c].used
           x == [active |-> k[c].active, frozen |-> k[c].frozen, used |-> used]
           m == [k EXCEPT ![c] = x]
           next == atlas.next + size
           h == [addr |-> atlas.next, size |-> size, context |-> c]
<1>1. /\ size \in Nat \ {0} /\ MvramBase + MvramBytes[atlas.tier] + size < AtlasWrap
      /\ AtlasWrap \in Nat
  <2>1. size > 0
    BY DEF Memory!Alloc
  <2>2. /\ size \in Nat /\ MvramBase + MvramBytes[atlas.tier] + size < AtlasWrap
        /\ AtlasWrap \in Nat
    BY DriverFields, MemoryConstants
  <2> QED BY <2>1, <2>2
<1>2. next \in Nat /\ next < AtlasWrap
  BY <1>1, DriverFields
<1>3. (atlas.next + size) % AtlasWrap = next
  BY <1>1, <1>2, Unwrapped
<1>4. next <= MvramBase + MvramBytes[atlas.tier] /\ MvramBase <= next
  <2>1. (atlas.next + size) % AtlasWrap <= atlas.base + MvramBytes[atlas.tier]
    BY DEF Memory!Alloc
  <2> HIDE DEF next
  <2>2. next <= MvramBase + MvramBytes[atlas.tier]
    BY <1>3, <2>1, DriverFields
  <2>3. MvramBase <= next
    BY <1>1, DriverFields DEF next
  <2> QED BY <2>2, <2>3
<1>5. /\ k[c].used \in Nat /\ k[c].used <= Charged(k) /\ Charged(k) \in Nat
      /\ Charged(k) <= atlas.next - MvramBase
      /\ k[c] = [active |-> k[c].active, frozen |-> k[c].frozen, used |-> k[c].used]
      /\ k[c].active \in BOOLEAN
  BY DriverFields, ChargedNat DEF AreContexts, IsContext
<1>6. used \in Nat /\ used <= k[c].used + size
  <2> DEFINE u == k[c].used
             sum == u + size
  <2>1. u \in Nat /\ u <= atlas.next - MvramBase
    <3> DEFINE q == Charged(k)
    <3>1. u \in Nat /\ q \in Nat /\ u <= q /\ q <= atlas.next - MvramBase
      BY <1>5
    <3>2. atlas.next - MvramBase \in Int
      BY DriverFields
    <3> HIDE DEF u, q
    <3> QED BY <3>1, <3>2
  <2> HIDE DEF u
  <2>2. sum \in Nat /\ sum < AtlasWrap
    BY <1>1, <2>1, DriverFields
  <2>3. sum % AtlasWrap = sum
    BY <1>1, <2>2, Unwrapped
  <2>4. used = IF c > 0 /\ k[c].active THEN sum % AtlasWrap ELSE u
    BY DEF u
  <2> HIDE DEF used, sum
  <2>5. used = sum \/ used = u
    BY <2>3, <2>4
  <2>6. used \in Nat /\ used <= sum
    BY <1>1, <2>1, <2>2, <2>5 DEF sum
  <2> QED BY <2>6 DEF sum, u
<1> HIDE DEF used
<1>7. IsContext(x) /\ x.used = used /\ x.active = k[c].active
  BY <1>5, <1>6 DEF IsContext
<1>8. atlas' = [ready |-> atlas.ready, tier |-> atlas.tier, base |-> MvramBase,
              next |-> next, total |-> (atlas.total + size) % AtlasWrap, contexts |-> m,
              num |-> atlas.num, pstate |-> atlas.pstate, switches |-> atlas.switches,
              gates |-> atlas.gates, wakes |-> atlas.wakes, listener |-> atlas.listener,
              link |-> atlas.link]
  <2>1. [k EXCEPT ![c].used = used] = m
    BY <1>5
  <2>2. atlas' = [atlas EXCEPT !.next = (atlas.next + size) % AtlasWrap,
                               !.total = (@ + size) % AtlasWrap,
                               !.contexts = [k EXCEPT ![c].used = used]]
    BY DEF Memory!Alloc, Memory!NextAfter, used
  <2>3. atlas' = [atlas EXCEPT !.next = next, !.total = (@ + size) % AtlasWrap, !.contexts = m]
    BY <1>3, <2>1, <2>2
  <2> HIDE DEF next, m
  <2> QED BY <2>3, DriverFields DEF Driver
<1> HIDE DEF x
<1>9. AreContexts(m) /\ Charged(m) = Charged(k) - k[c].used + x.used
  <2> HIDE DEF k, m
  <2>1. AreContexts(k) /\ m = [k EXCEPT ![c] = x]
    BY DriverFields DEF k, m
  <2> QED BY <1>7, <2>1, Recharged
<1>10. OpenOnes(m) = OpenOnes(k)
  <2>1. \A d \in Memory!Contexts : m[d].active = k[d].active
    BY <1>7, DriverFields DEF AreContexts
  <2> QED BY <2>1 DEF OpenOnes
<1>11. Charged(m) <= next - MvramBase
  <2> DEFINE q == Charged(k)
             u == k[c].used
  <2>1. q \in Nat /\ u \in Nat /\ q <= atlas.next - MvramBase /\ used <= u + size /\ used \in Nat
    BY <1>5, <1>6
  <2>2. Charged(m) = q - u + used
    BY <1>7, <1>9
  <2> HIDE DEF q, u
  <2>3. q - u + used <= next - MvramBase
    BY <1>1, <2>1, DriverFields
  <2> QED BY <2>2, <2>3
<1>12. HandlesApart'
  <2>1. handles' = handles \cup {h} /\ atlas'.next = next
    <3>1. handles' = handles \cup {h}
      BY DEF Memory!Alloc
    <3>2. atlas'.next = next
      BY <1>8
    <3> QED BY <3>1, <3>2
  <2>2. h.addr = atlas.next /\ h.size = size /\ h.addr + h.size = next
    OBVIOUS
  <2> HIDE DEF h, next
  <2>3. \A g \in handles : /\ g.addr \in Nat /\ g.size \in Nat \ {0} /\ MvramBase <= g.addr
                           /\ g.addr + g.size <= atlas.next
    BY DEF MemoryInv, HandlesApart
  <2>4. \A g, l \in handles : g # l => g.addr + g.size <= l.addr \/ l.addr + l.size <= g.addr
    BY DEF MemoryInv, HandlesApart
  <2>5. atlas.next \in Nat /\ atlas.next <= next /\ next \in Nat /\ MvramBase <= atlas.next
        /\ MvramBase \in Nat
    BY <1>1, <1>2, DriverFields DEF next
  <2>6. ASSUME NEW g \in handles'
        PROVE  /\ g.addr \in Nat /\ g.size \in Nat \ {0} /\ MvramBase <= g.addr
               /\ g.addr + g.size <= next
    <3>1. CASE g \in handles
      <4>1. /\ g.addr \in Nat /\ g.size \in Nat \ {0} /\ MvramBase <= g.addr
            /\ g.addr + g.size <= atlas.next
        BY <2>3, <3>1
      <4> DEFINE a == g.addr
                 b == g.size
      <4> HIDE DEF a, b
      <4>2. a + b <= next
        BY <2>5, <4>1 DEF a, b
      <4> QED BY <4>1, <4>2 DEF a, b
    <3>2. CASE g = h
      BY <1>1, <2>2, <2>5, <3>2
    <3> QED BY <2>1, <3>1, <3>2
  <2>7. ASSUME NEW g \in handles', NEW l \in handles', g # l
        PROVE  g.addr + g.size <= l.addr \/ l.addr + l.size <= g.addr
    BY <2>1, <2>2, <2>3, <2>4, <2>7
  <2> QED BY <2>1, <2>6, <2>7 DEF HandlesApart
<1>13. (atlas.total + size) % AtlasWrap \in 0 .. AtlasWrap - 1
  BY <1>1, DriverFields
<1> DEFINE total == (atlas.total + size) % AtlasWrap
<1> HIDE DEF total, m, next, k
<1>14. atlas' = [ready |-> atlas.ready, tier |-> atlas.tier, base |-> MvramBase,
              next |-> next, total |-> total, contexts |-> m,
              num |-> atlas.num, pstate |-> atlas.pstate, switches |-> atlas.switches,
              gates |-> atlas.gates, wakes |-> atlas.wakes, listener |-> atlas.listener,
              link |-> atlas.link]
  BY <1>8 DEF total
<1>15. atlas.num = Cardinality(OpenOnes(m)) /\ total \in 0 .. AtlasWrap - 1
  BY <1>10, <1>13, DriverFields DEF total, k
<1>16. QED
  BY <1>2, <1>4, <1>9, <1>11, <1>12, <1>14, <1>15, DriverFields, DriverMoved

LEMMA FreeKeepsApart ==
  ASSUME MemoryInv, NEW h, Memory!Free(h) PROVE MemoryInv'
<1>1. atlas' = atlas /\ handles' \subseteq handles
  BY DEF Memory!Free
<1>2. HandlesApart'
  BY <1>1, HandlesKept
<1>3. QED
  BY <1>1, <1>2 DEF MemoryInv, DriverTyped, ContextsCounted, ChargesCovered, Room

LEMMA LeastInactive ==
  ASSUME Memory!Inactive # {}
  PROVE  Memory!Min(Memory!Inactive) \in Memory!Inactive
<1> DEFINE S == Memory!Inactive
<1>1. S \in SUBSET Nat /\ S # {}
  BY ContextSet DEF Memory!Inactive
<1> HIDE DEF S
<1>2. PICK m \in S : \A k \in S : m <= k
  BY <1>1, LeastNat
<1>3. Memory!Min(S) = CHOOSE x \in S : \A y \in S : x <= y
  BY DEF Memory!Min
<1>4. Memory!Min(S) \in S
  BY <1>2, <1>3
<1>5. QED
  BY <1>4 DEF S

LEMMA CreateContextHolds ==
  ASSUME MemoryInv, Memory!CreateContext PROVE MemoryInv'
<1> DEFINE k == atlas.contexts
           c == Memory!Min(Memory!Inactive)
           x == Memory!Opened
           m == [k EXCEPT ![c] = x]
<1>1. c \in Memory!Contexts /\ ~k[c].active
  <2>1. c \in Memory!Inactive
    BY LeastInactive DEF Memory!CreateContext
  <2> HIDE DEF c
  <2> QED BY <2>1 DEF Memory!Inactive
<1>2. atlas' = [atlas EXCEPT !.contexts = m, !.num = @ + 1] /\ handles' = handles
  BY DEF Memory!CreateContext
<1> HIDE DEF c, x
<1>3. IsContext(x) /\ x.used = 0 /\ x.active
  BY NoContexts DEF x
<1>4. AreContexts(k) /\ k[c].active \in BOOLEAN
  BY <1>1, DriverFields DEF AreContexts, IsContext
<1> HIDE DEF k
<1>5. AreContexts(m) /\ Charged(m) = Charged(k) - k[c].used + 0
  <2>1. AreContexts(m) /\ Charged(m) = Charged(k) - k[c].used + x.used
    BY <1>1, <1>3, <1>4, Recharged
  <2> QED BY <1>3, <2>1
<1>6. Cardinality(OpenOnes(m)) = Cardinality(OpenOnes(k)) + 1
  BY <1>1, <1>3, <1>4, OpenedOne
<1>7. Charged(m) <= atlas.next - MvramBase
  <2> DEFINE q == Charged(k)
             u == k[c].used
  <2>1. q \in Nat /\ u \in Nat
    BY <1>1, <1>4, ChargedNat
  <2>2. q <= atlas.next - MvramBase /\ atlas.next - MvramBase \in Int
    BY DriverFields DEF k
  <2>3. Charged(m) = q - u + 0
    BY <1>5
  <2> HIDE DEF q, u
  <2> QED BY <2>1, <2>2, <2>3
<1> HIDE DEF m
<1>8. atlas' = [ready |-> atlas.ready, tier |-> atlas.tier, base |-> MvramBase,
              next |-> atlas.next, total |-> atlas.total, contexts |-> m,
              num |-> atlas.num + 1, pstate |-> atlas.pstate, switches |-> atlas.switches,
              gates |-> atlas.gates, wakes |-> atlas.wakes, listener |-> atlas.listener,
              link |-> atlas.link]
  BY <1>2, DriverFields DEF Driver
<1>9. HandlesApart'
  <2>1. atlas'.next = atlas.next
    BY <1>8
  <2> QED BY <1>2, <2>1, HandlesKept
<1>10. atlas.num + 1 = Cardinality(OpenOnes(m))
  BY <1>6, DriverFields DEF k
<1>11. QED
  BY <1>5, <1>7, <1>8, <1>9, <1>10, DriverFields, DriverMoved

LEMMA DestroyContextHolds ==
  ASSUME MemoryInv, NEW c \in Memory!Contexts, Memory!DestroyContext(c) PROVE MemoryInv'
<1> DEFINE k == atlas.contexts
           x == Memory!NoContext
           m == [k EXCEPT ![c] = x]
<1>1. k[c].active
  BY DEF Memory!DestroyContext
<1>2. atlas' = [atlas EXCEPT !.contexts = m, !.num = @ - 1] /\ handles' = handles
  BY DEF Memory!DestroyContext
<1> HIDE DEF x
<1>3. IsContext(x) /\ x.used = 0 /\ ~x.active
  BY NoContexts DEF x
<1>4. AreContexts(k) /\ k[c].active \in BOOLEAN /\ x.active \in BOOLEAN
  BY <1>3, DriverFields DEF AreContexts, IsContext
<1> HIDE DEF k
<1>5. AreContexts(m) /\ Charged(m) = Charged(k) - k[c].used + 0
  <2>1. AreContexts(m) /\ Charged(m) = Charged(k) - k[c].used + x.used
    BY <1>3, <1>4, Recharged
  <2> QED BY <1>3, <2>1
<1>6. Cardinality(OpenOnes(m)) = Cardinality(OpenOnes(k)) - 1
  BY <1>1, <1>3, <1>4, OpenedOne
<1>7. Charged(m) <= atlas.next - MvramBase
  <2> DEFINE q == Charged(k)
             u == k[c].used
  <2>1. q \in Nat /\ u \in Nat
    BY <1>4, ChargedNat
  <2>2. q <= atlas.next - MvramBase /\ atlas.next - MvramBase \in Int
    BY DriverFields DEF k
  <2>3. Charged(m) = q - u + 0
    BY <1>5
  <2> HIDE DEF q, u
  <2> QED BY <2>1, <2>2, <2>3
<1> HIDE DEF m
<1>8. atlas' = [ready |-> atlas.ready, tier |-> atlas.tier, base |-> MvramBase,
              next |-> atlas.next, total |-> atlas.total, contexts |-> m,
              num |-> atlas.num - 1, pstate |-> atlas.pstate, switches |-> atlas.switches,
              gates |-> atlas.gates, wakes |-> atlas.wakes, listener |-> atlas.listener,
              link |-> atlas.link]
  BY <1>2, DriverFields DEF Driver
<1>9. HandlesApart'
  <2>1. atlas'.next = atlas.next
    BY <1>8
  <2> QED BY <1>2, <2>1, HandlesKept
<1>10. atlas.num - 1 = Cardinality(OpenOnes(m))
  BY <1>6, DriverFields DEF k
<1>11. QED
  BY <1>5, <1>7, <1>8, <1>9, <1>10, DriverFields, DriverMoved

LEMMA FreezeHolds ==
  ASSUME MemoryInv, NEW C, Memory!Freeze(C) PROVE MemoryInv'
<1> DEFINE k == atlas.contexts
           m == [c \in Memory!Contexts |-> IF c \in C THEN [k[c] EXCEPT !.frozen = TRUE] ELSE k[c]]
<1>1. atlas' = [atlas EXCEPT !.contexts = m] /\ handles' = handles
  BY DEF Memory!Freeze
<1>2. AreContexts(k)
  BY DriverFields
<1> HIDE DEF k
<1>3. ASSUME NEW c \in Memory!Contexts
      PROVE  IsContext(m[c]) /\ m[c].used = k[c].used /\ m[c].active = k[c].active
  <2>1. k[c] = [active |-> k[c].active, frozen |-> k[c].frozen, used |-> k[c].used]
        /\ k[c].active \in BOOLEAN /\ k[c].used \in Nat
    BY <1>2 DEF AreContexts, IsContext
  <2>2. m[c] = k[c] \/ m[c] = [active |-> k[c].active, frozen |-> TRUE, used |-> k[c].used]
    BY <2>1
  <2> QED BY <2>1, <2>2 DEF IsContext
<1>4. m = [c \in Memory!Contexts |-> m[c]]
  OBVIOUS
<1> HIDE DEF m
<1>5. AreContexts(m)
  BY <1>3, <1>4 DEF AreContexts
<1>6. Charged(m) = Charged(k) /\ OpenOnes(m) = OpenOnes(k)
  BY <1>2, <1>3, <1>5, SameCharges
<1>7. atlas' = [ready |-> atlas.ready, tier |-> atlas.tier, base |-> MvramBase,
              next |-> atlas.next, total |-> atlas.total, contexts |-> m,
              num |-> atlas.num, pstate |-> atlas.pstate, switches |-> atlas.switches,
              gates |-> atlas.gates, wakes |-> atlas.wakes, listener |-> atlas.listener,
              link |-> atlas.link]
  BY <1>1, DriverFields DEF Driver
<1>8. HandlesApart'
  <2>1. atlas'.next = atlas.next
    BY <1>7
  <2> QED BY <1>1, <2>1, HandlesKept
<1>9. Charged(m) <= atlas.next - MvramBase /\ atlas.num = Cardinality(OpenOnes(m))
  BY <1>6, DriverFields DEF k
<1>10. QED
  BY <1>5, <1>7, <1>8, <1>9, DriverFields, DriverMoved

LEMMA CountInCalls ==
  ASSUME NEW n \in Calls PROVE Memory!Count(n) \in Calls
<1>1. MaxCount \in Nat
  BY MemoryConstants
<1>2. QED
  BY <1>1 DEF Memory!Count, Calls

\* The calls that touch neither the MVRAM nor the contexts.
LEMMA ControlMoved ==
  ASSUME MemoryInv, NEW pstate, NEW switches \in Calls, NEW gates \in Calls, NEW wakes \in Calls,
         NEW listener, NEW link, handles' = handles,
         atlas' = [ready |-> atlas.ready, tier |-> atlas.tier, base |-> atlas.base,
              next |-> atlas.next, total |-> atlas.total, contexts |-> atlas.contexts,
              num |-> atlas.num, pstate |-> pstate, switches |-> switches,
              gates |-> gates, wakes |-> wakes, listener |-> listener,
              link |-> link]
  PROVE  MemoryInv'
<1>1. atlas' = [ready |-> atlas.ready, tier |-> atlas.tier, base |-> MvramBase,
              next |-> atlas.next, total |-> atlas.total, contexts |-> atlas.contexts,
              num |-> atlas.num, pstate |-> pstate, switches |-> switches,
              gates |-> gates, wakes |-> wakes, listener |-> listener,
              link |-> link]
  BY DriverFields
<1>2. HandlesApart'
  <2>1. atlas'.next = atlas.next
    BY <1>1
  <2> QED BY <2>1, HandlesKept
<1>3. QED
  BY <1>1, <1>2, DriverFields, DriverMoved

LEMMA ControlsHold ==
  ASSUME MemoryInv,
         \/ \E c \in Memory!Contexts : Memory!SwitchContext(c)
         \/ \E p : Memory!SetPower(p)
         \/ Memory!PowerGate \/ Memory!ConfigureSentinel \/ Memory!SetListener \/ Memory!Infer
         \/ \E on : Memory!Tether(on)
  PROVE  MemoryInv'
<1>1. atlas = Driver
  BY DriverFields
<1>2. /\ atlas.switches \in Calls /\ atlas.gates \in Calls /\ atlas.wakes \in Calls /\ 0 \in Calls
      /\ Memory!Count(atlas.switches) \in Calls /\ Memory!Count(atlas.gates) \in Calls
      /\ Memory!Count(atlas.wakes) \in Calls
  <2>1. 0 \in Calls
    BY MemoryConstants DEF Calls
  <2>2. atlas.switches \in Calls /\ atlas.gates \in Calls /\ atlas.wakes \in Calls
    BY DriverFields
  <2> QED BY <2>1, <2>2, CountInCalls
<1>3. ASSUME NEW c \in Memory!Contexts, Memory!SwitchContext(c) PROVE MemoryInv'
  <2>1. atlas' = [ready |-> atlas.ready, tier |-> atlas.tier, base |-> atlas.base,
              next |-> atlas.next, total |-> atlas.total, contexts |-> atlas.contexts,
              num |-> atlas.num, pstate |-> atlas.pstate, switches |-> Memory!Count(atlas.switches),
              gates |-> atlas.gates, wakes |-> atlas.wakes, listener |-> atlas.listener,
              link |-> atlas.link] /\ handles' = handles
    BY <1>1, <1>3 DEF Memory!SwitchContext, Driver
  <2> QED BY <1>1, <1>2, <2>1, ControlMoved
<1>4. ASSUME NEW p, Memory!SetPower(p) PROVE MemoryInv'
  <2>1. atlas' = [ready |-> atlas.ready, tier |-> atlas.tier, base |-> atlas.base,
              next |-> atlas.next, total |-> atlas.total, contexts |-> atlas.contexts,
              num |-> atlas.num, pstate |-> p, switches |-> atlas.switches,
              gates |-> atlas.gates, wakes |-> atlas.wakes, listener |-> atlas.listener,
              link |-> atlas.link] /\ handles' = handles
    BY <1>1, <1>4 DEF Memory!SetPower, Driver
  <2> QED BY <1>1, <1>2, <2>1, ControlMoved
<1>5. CASE Memory!PowerGate
  <2>1. atlas' = [ready |-> atlas.ready, tier |-> atlas.tier, base |-> atlas.base,
              next |-> atlas.next, total |-> atlas.total, contexts |-> atlas.contexts,
              num |-> atlas.num, pstate |-> atlas.pstate, switches |-> atlas.switches,
              gates |-> Memory!Count(atlas.gates), wakes |-> atlas.wakes, listener |-> atlas.listener,
              link |-> atlas.link] /\ handles' = handles
    BY <1>1, <1>5 DEF Memory!PowerGate, Driver
  <2> QED BY <1>1, <1>2, <2>1, ControlMoved
<1>6. CASE Memory!ConfigureSentinel
  <2>1. atlas' = [ready |-> atlas.ready, tier |-> atlas.tier, base |-> atlas.base,
              next |-> atlas.next, total |-> atlas.total, contexts |-> atlas.contexts,
              num |-> atlas.num, pstate |-> atlas.pstate, switches |-> atlas.switches,
              gates |-> atlas.gates, wakes |-> 0, listener |-> atlas.listener,
              link |-> atlas.link] /\ handles' = handles
    BY <1>1, <1>6 DEF Memory!ConfigureSentinel, Driver
  <2> QED BY <1>1, <1>2, <2>1, ControlMoved
<1>7. CASE Memory!SetListener
  <2>1. atlas' = [ready |-> atlas.ready, tier |-> atlas.tier, base |-> atlas.base,
              next |-> atlas.next, total |-> atlas.total, contexts |-> atlas.contexts,
              num |-> atlas.num, pstate |-> atlas.pstate, switches |-> atlas.switches,
              gates |-> atlas.gates, wakes |-> atlas.wakes, listener |-> TRUE,
              link |-> atlas.link] /\ handles' = handles
    BY <1>1, <1>7 DEF Memory!SetListener, Driver
  <2> QED BY <1>1, <1>2, <2>1, ControlMoved
<1>8. CASE Memory!Infer
  <2> DEFINE w == IF atlas.listener THEN Memory!Count(atlas.wakes) ELSE atlas.wakes
  <2>1. atlas' = [atlas EXCEPT !.wakes = w] /\ handles' = handles
    BY <1>8 DEF Memory!Infer
  <2>2. w \in Calls
    BY <1>2
  <2> HIDE DEF w
  <2>3. atlas' = [ready |-> atlas.ready, tier |-> atlas.tier, base |-> atlas.base,
              next |-> atlas.next, total |-> atlas.total, contexts |-> atlas.contexts,
              num |-> atlas.num, pstate |-> atlas.pstate, switches |-> atlas.switches,
              gates |-> atlas.gates, wakes |-> w, listener |-> atlas.listener,
              link |-> atlas.link]
    BY <1>1, <2>1 DEF Driver
  <2> QED BY <1>2, <2>1, <2>2, <2>3, ControlMoved
<1>9. ASSUME NEW on, Memory!Tether(on) PROVE MemoryInv'
  <2> DEFINE l == IF on THEN [tethered |-> TRUE, mbps |-> 60000, latency |-> 100]
                  ELSE Memory!Untethered
  <2>1. atlas' = [atlas EXCEPT !.link = l] /\ handles' = handles
    BY <1>9 DEF Memory!Tether
  <2> HIDE DEF l
  <2>2. atlas' = [ready |-> atlas.ready, tier |-> atlas.tier, base |-> atlas.base,
              next |-> atlas.next, total |-> atlas.total, contexts |-> atlas.contexts,
              num |-> atlas.num, pstate |-> atlas.pstate, switches |-> atlas.switches,
              gates |-> atlas.gates, wakes |-> atlas.wakes, listener |-> atlas.listener,
              link |-> l]
    BY <1>1, <2>1 DEF Driver
  <2> QED BY <1>2, <2>1, <2>2, ControlMoved
<1>10. QED
  BY <1>3, <1>4, <1>5, <1>6, <1>7, <1>8, <1>9

LEMMA MemoryStep ==
  ASSUME MemoryInv, [PlatformNext]_platformVars
  PROVE  MemoryInv'
<1>1. CASE UNCHANGED memoryVars
  BY <1>1 DEF memoryVars, MemoryInv, DriverTyped, Room, ContextsCounted, HandlesApart, ChargesCovered
<1>2. CASE Memory!Next
  <2>1. ASSUME NEW tier \in DOMAIN MvramBytes, Memory!Start(tier) PROVE MemoryInv'
    BY <2>1, FreshHolds DEF Memory!Start
  <2>2. ASSUME NEW size \in AtlasSizes, NEW c \in Memory!Contexts, Memory!Alloc(size, c) PROVE MemoryInv'
    BY <2>2, AllocHolds
  <2>3. ASSUME NEW c \in Memory!Contexts, Memory!DestroyContext(c) PROVE MemoryInv'
    BY <2>3, DestroyContextHolds
  <2> QED
    BY <1>2, <2>1, <2>2, <2>3, FreeKeepsApart, CreateContextHolds, FreezeHolds, ControlsHold
       DEF Memory!Next
<1>3. QED
  BY <1>1, <1>2 DEF PlatformNext, OthersStay, platformVars

LEMMA MemoryHolds == MemoryInv => Memory!AtlasAccounts /\ Memory!TypeOK
<1> SUFFICES ASSUME MemoryInv PROVE Memory!AtlasAccounts /\ Memory!TypeOK
  OBVIOUS
<1>1. Memory!AtlasAccounts
  <2>1. \A h \in handles :
       /\ atlas.base <= h.addr /\ h.addr + h.size <= atlas.next
       /\ \A k \in handles \ {h} : h.addr + h.size <= k.addr \/ k.addr + k.size <= h.addr
    BY DriverFields DEF MemoryInv, HandlesApart
  <2>2. Memory!MapThenSumSet(LAMBDA c : atlas.contexts[c].used, Memory!Contexts)
          <= atlas.next - atlas.base
    <3>1. Memory!MapThenSumSet(LAMBDA c : atlas.contexts[c].used, Memory!Contexts)
            = Charged(atlas.contexts)
      BY ChargesSummed
    <3> QED BY <3>1, DriverFields
  <2>3. atlas.next <= atlas.base + MvramBytes[atlas.tier]
    BY DriverFields
  <2> QED BY <2>1, <2>2, <2>3 DEF Memory!AtlasAccounts
<1>2. Memory!TypeOK
  <2>1. Memory!ActiveContexts = OpenOnes(atlas.contexts)
    BY DEF Memory!ActiveContexts, Memory!Inactive, OpenOnes
  <2>2. Memory!Cardinality(Memory!ActiveContexts) = Cardinality(OpenOnes(atlas.contexts))
    BY <2>1, Zenon DEF Memory!Cardinality, Cardinality
  <2>3. atlas.next \in 0 .. AtlasWrap - 1
    <3>1. MvramBase + MvramBytes[atlas.tier] < AtlasWrap /\ AtlasWrap \in Nat
      BY DriverFields, MemoryConstants
    <3> QED BY <3>1, DriverFields
  <2>4. {atlas.switches, atlas.gates, atlas.wakes} \subseteq 0 .. MaxCount
    BY DriverFields DEF Calls
  <2> QED BY <2>2, <2>3, <2>4, DriverFields DEF Memory!TypeOK
<1>3. QED
  BY <1>1, <1>2

LEMMA MemoryInvariance == PlatformSpec => []MemoryInv
<1>1. PlatformInit => MemoryInv
  BY MemoryInit DEF PlatformInit
<1>2. MemoryInv /\ [PlatformNext]_platformVars => MemoryInv'
  BY MemoryStep
<1>3. QED
  BY <1>1, <1>2, PTL DEF PlatformSpec

(* hc_mvram_alloc hands out disjoint ranges of the tier's MVRAM, contexts are charged *)
(* for no more than was handed out (hc_auc_create_context).                          *)
THEOREM AtlasAccounted == PlatformSpec => []Memory!AtlasAccounts
<1>1. MemoryInv => Memory!AtlasAccounts
  BY MemoryHolds
<1>2. QED
  BY <1>1, MemoryInvariance, PTL

-----------------------------------------------------------------------------
(* The types of every driver.  Those that an invariant above implies are read *)
(* off it; the others are preserved by each step from states that satisfy it. *)

Bits == 0 .. WordBits - 1
\* Words, the one a call under way read too, have the bits of a word.
WordsSized ==
  /\ \A r \in Registers : regs[r] \subseteq Bits
  /\ \A r \in Registers : lost[r] \subseteq Domains[r]
  /\ job # Words!Idle => job.word \subseteq Bits

LEMMA UpdatedSized ==
  ASSUME NEW word \in SUBSET Bits, NEW r, NEW d, NEW value
  PROVE  Words!Updated(word, r, d, value) \subseteq Bits
<1>1. Words!Field(r, d) \subseteq Bits
  BY Zenon DEF Words!Field, Bits
<1>2. QED
  BY <1>1, Zenon DEF Words!Updated

LEMMA WordsSizedStep ==
  ASSUME WordsInv, WordsSized, [PlatformNext]_platformVars
  PROVE  WordsSized'
<1>1. CASE UNCHANGED registersVars
  BY <1>1 DEF registersVars, WordsSized
<1>2. ASSUME NEW r \in Registers, NEW d \in Domains[r], NEW value, Words!Read(r, d, value)
      PROVE  WordsSized'
  <2>1. /\ job' = [reg |-> r, domain |-> d, value |-> Words!Asked(r, value), word |-> regs[r]]
        /\ UNCHANGED <<regs, lost>>
    BY <1>2 DEF Words!Read
  <2>2. job'.word = regs[r]
    BY <2>1
  <2> QED BY <2>1, <2>2 DEF WordsSized
<1>3. ASSUME NEW r \in Registers, NEW d \in Domains[r], NEW value, Words!Interrupt(r, d, value)
      PROVE  WordsSized'
  <2> DEFINE word == Words!Updated(regs[r], r, d, Words!Asked(r, value))
           gone == IF job.reg = r THEN lost[r] \cup {d} ELSE lost[r] \ {d}
  <2>1. regs' = [regs EXCEPT ![r] = word] /\ UNCHANGED job /\ lost' = [lost EXCEPT ![r] = gone]
    BY <1>3, Zenon DEF Words!Interrupt
  <2>2. word \subseteq Bits
    BY UpdatedSized DEF WordsSized
  <2>3. gone \subseteq Domains[r]
    BY <1>3 DEF WordsSized
  <2> HIDE DEF word, gone
  <2> QED BY <2>1, <2>2, <2>3 DEF WordsSized, WordsInv, WordsTyped
<1>4. CASE Words!WriteBack
  <2> DEFINE word == Words!Updated(job.word, job.reg, job.domain, job.value)
  <2>1. /\ job # Words!Idle /\ job' = Words!Idle
        /\ lost' = [lost EXCEPT ![job.reg] = lost[job.reg] \ {job.domain}]
        /\ regs' = [regs EXCEPT ![job.reg] = word]
    BY <1>4 DEF Words!WriteBack
  <2>2. word \subseteq Bits
    BY <2>1, UpdatedSized DEF WordsSized
  <2> HIDE DEF word
  <2> QED BY <2>1, <2>2 DEF WordsSized, WordsInv, WordsTyped
<1>5. ASSUME NEW registers, NEW word \in SUBSET Bits, Words!Reset(registers, word)
      PROVE  WordsSized'
  BY <1>5 DEF Words!Reset, WordsSized
<1>6. UNCHANGED registersVars \/ Words!Next
  BY DEF PlatformNext, OthersStay, platformVars
<1>7. Words!InitGpio \/ Words!InitTimer => WordsSized'
  <2>1. {} \in SUBSET Bits /\ {0} \in SUBSET Bits
    BY RegisterConstants DEF Bits
  <2> QED BY <1>5, <2>1 DEF Words!InitGpio, Words!InitTimer
<1>8. QED
  BY <1>1, <1>2, <1>3, <1>4, <1>6, <1>7 DEF Words!Next

Speeds == 0 .. FullSpeed
SlotStates == {"buffer", "free", "shader", "destroyed"}
SlotLists == {s \in Seq(SlotStates) : Len(s) <= MaxSlots}
Attachments == {"off", "polling", "timeout", "on"}
\* The frequency, the slots and how far the driver is attached.
GraphicsSized == gpu.freq \in Speeds /\ drv.slots \in SlotLists /\ drv.attach \in Attachments

LEMMA SlotsChanged ==
  ASSUME NEW s \in SlotLists, NEW x \in SlotStates
  PROVE  /\ Len(s) < MaxSlots => Append(s, x) \in SlotLists
         /\ \A k : [s EXCEPT ![k] = x] \in SlotLists
<1>1. MaxSlots \in Nat /\ s \in Seq(SlotStates) /\ Len(s) <= MaxSlots
  BY GraphicsConstants DEF SlotLists
<1>2. ASSUME Len(s) < MaxSlots PROVE Append(s, x) \in SlotLists
  <2>1. Append(s, x) \in Seq(SlotStates) /\ Len(Append(s, x)) = Len(s) + 1
    BY <1>1
  <2> QED BY <1>1, <1>2, <2>1 DEF SlotLists
<1>3. ASSUME NEW k PROVE [s EXCEPT ![k] = x] \in SlotLists
  <2>1. [s EXCEPT ![k] = x] \in Seq(SlotStates) /\ Len([s EXCEPT ![k] = x]) = Len(s)
    <3>1. s = [i \in 1 .. Len(s) |-> s[i]]
      BY <1>1
    <3>2. CASE k \in 1 .. Len(s)
      BY <1>1, <3>2
    <3>3. CASE k \notin 1 .. Len(s)
      <4>1. [s EXCEPT ![k] = x] = s
        BY <3>1, <3>3, Zenon
      <4> QED BY <1>1, <4>1
    <3> QED BY <3>2, <3>3
  <2> QED BY <1>1, <2>1 DEF SlotLists
<1>4. QED
  BY <1>2, <1>3

LEMMA SlotNames ==
  /\ "buffer" \in SlotStates /\ "free" \in SlotStates /\ "shader" \in SlotStates
  /\ "destroyed" \in SlotStates
  BY DEF SlotStates

LEMMA SizedFacts ==
  /\ FullSpeed \in Speeds /\ \A n \in Speeds : (n * 9) \div 10 \in Speeds
  /\ <<>> \in SlotLists
  /\ "off" \in Attachments /\ "polling" \in Attachments /\ "timeout" \in Attachments
  /\ "on" \in Attachments
<1>1. FullSpeed \in Nat /\ MaxSlots \in Nat
  BY GraphicsConstants
<1>2. FullSpeed \in Speeds /\ \A n \in Speeds : (n * 9) \div 10 \in Speeds
  BY <1>1 DEF Speeds
<1>3. <<>> \in SlotLists
  BY <1>1 DEF SlotLists
<1>4. "off" \in Attachments /\ "polling" \in Attachments /\ "timeout" \in Attachments
      /\ "on" \in Attachments
  BY DEF Attachments
<1>5. QED
  BY <1>2, <1>3, <1>4

LEMMA GraphicsSizedStep ==
  ASSUME GraphicsInv, GraphicsSized, [PlatformNext]_platformVars
  PROVE  GraphicsSized'
<1> USE SizedFacts
<1>1. GraphicsTyped
  BY DEF GraphicsInv
<1>2. CASE UNCHANGED graphicsVars
  BY <1>2 DEF graphicsVars, GraphicsSized
<1>3. CASE Graphics!BecomeReady \/ Graphics!Complete \/ Graphics!Overheat \/ Graphics!Kick
           \/ Graphics!Submit \/ Graphics!Clear \/ Graphics!Interrupted
  BY <1>3, <1>1 DEF Graphics!BecomeReady, Graphics!Complete, Graphics!Overheat, Graphics!Kick,
     Graphics!Submit, Graphics!Clear, Graphics!Interrupted, GraphicsSized, GraphicsTyped
<1>4. CASE \E known \in BOOLEAN : Graphics!Probe(known)
  BY <1>4, <1>1 DEF Graphics!Probe, GraphicsSized, GraphicsTyped
<1>5. CASE Graphics!Poll
  BY <1>5, <1>1 DEF Graphics!Poll, GraphicsSized, GraphicsTyped
<1>6. CASE Graphics!Serve
  BY <1>6, <1>1 DEF Graphics!Serve, GraphicsSized, GraphicsTyped
<1>7. CASE Graphics!AllocBuffer
  <2>1. drv' = [drv EXCEPT !.slots = Append(drv.slots, "buffer")] /\ Len(drv.slots) < MaxSlots
        /\ gpu' = gpu
    BY <1>7 DEF Graphics!AllocBuffer
  <2>2. Append(drv.slots, "buffer") \in SlotLists
    BY <2>1, SlotsChanged, SlotNames DEF GraphicsSized
  <2> QED BY <1>1, <2>1, <2>2 DEF GraphicsSized, GraphicsTyped
<1>8. CASE Graphics!CreateShader
  <2> DEFINE freed == {i \in DOMAIN drv.slots : drv.slots[i] = "free"}
  <2>1. /\ freed # {} /\ gpu' = gpu
        /\ drv' = [drv EXCEPT !.slots = [drv.slots EXCEPT ![Graphics!Min(freed)] = "shader"]]
    BY <1>8 DEF Graphics!CreateShader
  <2>2. [drv.slots EXCEPT ![Graphics!Min(freed)] = "shader"] \in SlotLists
    BY SlotsChanged, SlotNames DEF GraphicsSized
  <2> HIDE DEF freed
  <2> QED BY <1>1, <2>1, <2>2 DEF GraphicsSized, GraphicsTyped
<1>9. ASSUME NEW i \in DOMAIN drv.slots, Graphics!FreeBuffer(i) \/ Graphics!DestroyShader(i)
      PROVE  GraphicsSized'
  <2>1. PICK x \in SlotStates : drv' = [drv EXCEPT !.slots[i] = x] /\ gpu' = gpu
    BY <1>9, SlotNames, Zenon DEF Graphics!FreeBuffer, Graphics!DestroyShader
  <2>2. drv' = [drv EXCEPT !.slots = [drv.slots EXCEPT ![i] = x]]
    BY <2>1
  <2>3. [drv.slots EXCEPT ![i] = x] \in SlotLists
    BY SlotsChanged DEF GraphicsSized
  <2> QED BY <1>1, <2>1, <2>2, <2>3 DEF GraphicsSized, GraphicsTyped
<1>10. CASE Graphics!SetFreq \/ Graphics!SetPower("idle") \/ \E on \in BOOLEAN : Graphics!SetBradsense(on)
  BY <1>10, <1>1 DEF Graphics!SetFreq, Graphics!SetPower, Graphics!SetBradsense, GraphicsSized, GraphicsTyped
<1>11. UNCHANGED graphicsVars \/ Graphics!Next
  BY DEF PlatformNext, OthersStay, platformVars
<1>12. QED
  BY <1>2, <1>3, <1>4, <1>5, <1>6, <1>7, <1>8, <1>9, <1>10, <1>11 DEF Graphics!Next

Recents == {s \in Seq(Lbas) : Len(s) <= CacheLines}
\* The part of the drive's state that later calls read.
DriveTyped ==
  /\ drive = [ready |-> drive.ready, recent |-> drive.recent, dirty |-> drive.dirty]
  /\ drive.recent \in Recents /\ drive.dirty \in BOOLEAN

LEMMA RecentsFacts ==
  /\ <<>> \in Recents
  /\ \A s \in Recents, lba \in Lbas : Len(s) < CacheLines => Append(s, lba) \in Recents
<1>1. CacheLines \in Nat
  BY StorageConstants
<1>2. <<>> \in Recents
  BY <1>1 DEF Recents
<1>3. ASSUME NEW s \in Recents, NEW lba \in Lbas, Len(s) < CacheLines
      PROVE  Append(s, lba) \in Recents
  <2>1. s \in Seq(Lbas)
    BY DEF Recents
  <2>2. Append(s, lba) \in Seq(Lbas) /\ Len(Append(s, lba)) = Len(s) + 1 /\ Len(s) \in Nat
    BY <2>1
  <2> QED BY <1>1, <1>3, <2>2 DEF Recents
<1>4. QED
  BY <1>2, <1>3

LEMMA DriveStarts == (\E ready : drive = Storage!Fresh(ready)) => DriveTyped
  BY RecentsFacts DEF Storage!Fresh, DriveTyped

LEMMA DriveStep == ASSUME DriveTyped, [PlatformNext]_platformVars PROVE DriveTyped'
<1>1. CASE drive' = drive
  BY <1>1 DEF DriveTyped
<1>2. CASE Storage!Start
  <2>1. (\E ready : drive = Storage!Fresh(ready))'
    BY <1>2 DEF Storage!Start
  <2>2. (\E ready : drive = Storage!Fresh(ready))' => DriveTyped'
    BY DriveStarts, PTL
  <2> QED BY <2>1, <2>2
<1>3. ASSUME NEW lba \in Lbas, NEW count, Storage!Read(lba, count) PROVE DriveTyped'
  <2>1. PICK s \in Recents : drive' = [drive EXCEPT !.recent = s]
    <3>1. drive' = [drive EXCEPT !.recent = IF Len(drive.recent) < CacheLines
                                            THEN Append(drive.recent, lba) ELSE drive.recent]
      BY <1>3 DEF Storage!Read
    <3> QED BY <3>1, RecentsFacts DEF DriveTyped
  <2> QED BY <2>1 DEF DriveTyped
<1>4. ASSUME NEW lba, NEW count, Storage!Write(lba, count) PROVE DriveTyped'
  BY <1>4 DEF Storage!Write, DriveTyped
<1>5. CASE Storage!Flush
  BY <1>5 DEF Storage!Flush, DriveTyped
<1>6. CASE Storage!LoadFailed \/ Storage!LoadLost \/ Storage!Others
  BY <1>1, <1>6 DEF Storage!LoadFailed, Storage!LoadLost, Storage!Others
<1>7. ASSUME NEW count, Storage!Loaded(count) \/ \E id \in 1 .. MaxPools : Storage!Load(count, id)
      PROVE  DriveTyped'
  BY <1>1, <1>7 DEF Storage!Loaded, Storage!Load
<1>8. UNCHANGED storageVars \/ Storage!Next
  BY DEF PlatformNext, OthersStay, platformVars
<1>9. CASE UNCHANGED storageVars
  BY <1>1, <1>9 DEF storageVars
<1>10. CASE Storage!Next
  BY <1>2, <1>3, <1>4, <1>5, <1>6, <1>7, <1>10, Zenon DEF Storage!Next
<1>11. QED
  BY <1>8, <1>9, <1>10

LEMMA Smaller ==
  ASSUME NEW m \in Nat, NEW n \in Nat
  PROVE  Storage!Min({m, n}) \in Nat /\ Storage!Min({m, n}) <= m /\ Storage!Min({m, n}) <= n
<1>1. \E x \in {m, n} : \A y \in {m, n} : x <= y
  OBVIOUS
<1>2. Storage!Min({m, n}) \in {m, n} /\ \A y \in {m, n} : Storage!Min({m, n}) <= y
  BY <1>1, Zenon DEF Storage!Min
<1>3. QED
  BY <1>2

LEMMA DriveTypesHold == DriveTyped => Storage!TypeOK
<1> SUFFICES ASSUME DriveTyped, NEW lba \in Lbas, NEW room \in 0 .. 2
             PROVE  Len(Storage!Predicted(lba, room)) <= room
  BY DEF DriveTyped, Recents, Storage!TypeOK
<1> DEFINE m == Storage!Min({room, Len(drive.recent)})
           seen == SubSeq(drive.recent, 1, m)
<1>1. drive.recent \in Seq(Lbas) /\ Len(drive.recent) \in Nat /\ room \in Nat
  BY DEF DriveTyped, Recents
<1>2. m \in Nat /\ m <= room /\ m <= Len(drive.recent)
  BY <1>1, Smaller
<1> HIDE DEF m
<1>3. seen \in Seq(Lbas) /\ Len(seen) = m
  BY <1>1, <1>2
<1> HIDE DEF seen
<1>4. CASE seen = <<>> /\ room > 0
  <2>1. Storage!Predicted(lba, room) = <<(lba + 1) % DriveWrap>>
    BY <1>4 DEF Storage!Predicted, m, seen
  <2> QED BY <1>1, <1>4, <2>1
<1>5. CASE ~(seen = <<>> /\ room > 0)
  <2> DEFINE p == [i \in DOMAIN seen |-> (seen[i] + 1) % DriveWrap]
  <2>1. Storage!Predicted(lba, room) = p
    BY <1>5 DEF Storage!Predicted, m, seen
  <2>2. DOMAIN p = 1 .. m
    BY <1>2, <1>3
  <2>3. Len(p) = m
    BY <1>2, <2>2
  <2> QED BY <1>2, <2>1, <2>3
<1>6. QED
  BY <1>4, <1>5

Hits == 0 .. MaxCount
\* The table and the counters of the address map.
TableSized(x) ==
  /\ Len(x.maps) <= MaxMaps /\ x.mapped = Len(x.maps)
  /\ \A i \in DOMAIN x.maps : x.maps[i].node = i - 1
  /\ x.hits \in Hits /\ x.misses \in Hits

LEMMA MapsSizedStep ==
  ASSUME MapsInv, TableSized(mapper), [PlatformNext]_platformVars
  PROVE  TableSized(mapper')
<1>1. MapperTyped /\ mapper.maps \in Seq(MapRecord) /\ MaxMaps \in Nat
  BY MapConstants DEF MapsInv, MapperTyped, MapTables
<1>2. 0 \in Hits /\ \A n \in Hits : Maps!Count(n) \in Hits
  BY MemoryConstants DEF Maps!Count, Hits
<1>3. CASE UNCHANGED mapsVars
  BY <1>3 DEF mapsVars
<1>4. CASE Maps!Start
  BY <1>1, <1>2, <1>4 DEF Maps!Start, Maps!Fresh, TableSized
<1>5. ASSUME NEW addr, NEW size, Maps!Map(addr, size) PROVE TableSized(mapper')
  <2> DEFINE n == Len(mapper.maps)
             m == [addr |-> addr, size |-> size, node |-> n, active |-> TRUE]
             table == Append(mapper.maps, m)
  <2>1. /\ n < MaxMaps /\ mapper' = [mapper EXCEPT !.maps = table, !.mapped = mapper.mapped + 1]
    BY <1>5, Zenon DEF Maps!Map
  <2>2. m.node = n /\ n \in Nat /\ DOMAIN mapper.maps = 1 .. n
    BY <1>1
  <2> HIDE DEF m
  <2>3. /\ Len(table) = n + 1 /\ DOMAIN table = 1 .. n + 1 /\ table[n + 1] = m
        /\ \A i \in 1 .. n : table[i] = mapper.maps[i]
    BY <1>1
  <2>4. \A i \in DOMAIN table : table[i].node = i - 1
    <3>1. \A i \in 1 .. n : mapper.maps[i].node = i - 1
      BY <2>2 DEF TableSized
    <3> HIDE DEF n, table
    <3>2. \A i \in 1 .. n : table[i].node = i - 1
      BY <2>3, <3>1
    <3>3. table[n + 1].node = (n + 1) - 1
      BY <2>2, <2>3
    <3>4. ASSUME NEW i \in 1 .. n + 1, i \notin 1 .. n PROVE i = n + 1
      BY <2>2, <3>4
    <3> QED BY <2>3, <3>2, <3>3, <3>4
  <2> HIDE DEF n, table
  <2>5. /\ mapper'.maps = table /\ mapper'.mapped = mapper.mapped + 1
        /\ mapper'.hits = mapper.hits /\ mapper'.misses = mapper.misses
    BY <1>1, <2>1 DEF MapperTyped
  <2>6. mapper.mapped = n
    BY DEF TableSized, n
  <2> QED BY <1>1, <2>1, <2>2, <2>3, <2>4, <2>5, <2>6 DEF TableSized
<1>6. ASSUME NEW addr, NEW size, Maps!Unmap(addr, size) PROVE TableSized(mapper')
  <2> DEFINE k == Maps!Find(addr, size)
             table == [mapper.maps EXCEPT ![k].active = FALSE]
  <2>1. /\ k # 0
        /\ mapper' = [mapper EXCEPT !.maps[k].active = FALSE, !.unmapped = mapper.unmapped + 1]
    BY <1>6, Zenon DEF Maps!Unmap
  <2>2. k \in DOMAIN mapper.maps
    BY <1>1, <2>1, MapFind
  <2> HIDE DEF k
  <2>3. Len(table) = Len(mapper.maps) /\ DOMAIN table = DOMAIN mapper.maps
    BY <1>1, <2>2
  <2>4. \A i \in DOMAIN table : table[i].node = mapper.maps[i].node
    <3>1. \A i \in DOMAIN mapper.maps : mapper.maps[i] \in MapRecord
      BY <1>1
    <3> QED BY <1>1, <2>2, <2>3, <3>1 DEF MapRecord
  <2> HIDE DEF table
  <2>5. /\ mapper'.maps = table /\ mapper'.mapped = mapper.mapped
        /\ mapper'.hits = mapper.hits /\ mapper'.misses = mapper.misses
    BY <1>1, <2>1 DEF MapperTyped, table
  <2> QED BY <2>3, <2>4, <2>5 DEF TableSized
<1>7. ASSUME NEW addr, NEW size, Maps!Prefetch(addr, size) PROVE TableSized(mapper')
  <2>1. \/ mapper' = [mapper EXCEPT !.hits = Maps!Count(mapper.hits)]
        \/ mapper' = [mapper EXCEPT !.misses = Maps!Count(mapper.misses)]
    BY <1>7, Zenon DEF Maps!Prefetch
  <2>2. mapper.hits \in Hits /\ mapper.misses \in Hits
    BY DEF TableSized
  <2>3. /\ mapper'.maps = mapper.maps /\ mapper'.mapped = mapper.mapped
        /\ mapper'.hits \in Hits /\ mapper'.misses \in Hits
    BY <1>1, <1>2, <2>1, <2>2 DEF MapperTyped
  <2> QED BY <2>3 DEF TableSized
<1>8. UNCHANGED mapsVars \/ Maps!Next
  BY DEF PlatformNext, OthersStay, platformVars
<1>9. CASE Maps!Next
  BY <1>4, <1>5, <1>6, <1>7, <1>9, Zenon DEF Maps!Next
<1>10. QED
  BY <1>3, <1>8, <1>9

LEMMA TimerTypesHold == TimerInv => Timer!TypeOK
<1> SUFFICES ASSUME TimerInv PROVE Timer!TypeOK
  OBVIOUS
<1>1. now <= MaxNow /\ MaxNow \in Nat
  BY TimerConstants DEF TimerInv, ClockTyped
<1>2. Round(now) <= Round(MaxNow) /\ Round(MaxNow) \in Nat /\ Round(now) \in Nat
  BY <1>1, ClockFacts, HalvesOrder, Halves
<1>3. call.lo \in 0 .. Half - 1 /\ call.hi \in 0 .. Round(MaxNow)
  BY <1>2, ClockFacts
<1>4. QED
  BY <1>3 DEF Timer!TypeOK, Round

LEMMA CoresTypes ==
  Cores!TypeOK <=>
    /\ \A k \in Cores!Cells : soc.cells[k].freq \in CoreFreqs /\ soc.cells[k].volt \in CoreVolts
    /\ \A c \in Cores!Clusters :
         {soc.clusters[c].np, soc.clusters[c].nf} \subseteq 0 .. Cores!RowCells
  BY SMT DEF Cores!TypeOK, CoreFreqs, CoreVolts

LEMMA CoresTypesHold == CoresInv => Cores!TypeOK
<1> SUFFICES ASSUME CoresInv PROVE Cores!TypeOK
  OBVIOUS
<1>1. Cores!Cells = 0 .. 15 /\ Cores!Clusters = 0 .. 3 /\ Cores!RowCells = 4
  BY CoreNumbers
<1>2. \A k \in 0 .. 15 : soc.cells[k].freq \in CoreFreqs /\ soc.cells[k].volt \in CoreVolts
  BY DEF CoresInv, SocTyped, IsCells, IsCore
<1>3. \A c \in 0 .. 3 : soc.clusters[c].np \in 0 .. 4 /\ soc.clusters[c].nf \in 0 .. 4
  BY DEF CoresInv, SocTyped, IsCluster
<1>4. \A c \in 0 .. 3 : {soc.clusters[c].np, soc.clusters[c].nf} \subseteq 0 .. 4
  BY <1>3
<1>5. \A c \in Cores!Clusters : {soc.clusters[c].np, soc.clusters[c].nf} \subseteq 0 .. Cores!RowCells
  BY <1>1, <1>4
<1>6. \A k \in Cores!Cells : soc.cells[k].freq \in CoreFreqs /\ soc.cells[k].volt \in CoreVolts
  BY <1>1, <1>2
<1>7. QED
  BY <1>5, <1>6, CoresTypes

\* What keeps every driver typed.
DriversInv ==
  /\ WordsInv /\ WordsSized /\ GraphicsInv /\ GraphicsSized /\ DriveTyped
  /\ MapsInv /\ TableSized(mapper) /\ TimerInv /\ CoresInv /\ PowerInv /\ MemoryInv

LEMMA AllTypesInit == PlatformInit => DriversInv
<1> SUFFICES ASSUME PlatformInit PROVE DriversInv
  OBVIOUS
<1>1. WordsSized
  BY DEF PlatformInit, Words!Init, WordsSized
<1>2. GraphicsSized
  BY SizedFacts DEF PlatformInit, Graphics!Init, GraphicsSized
<1>3. DriveTyped
  BY DriveStarts DEF PlatformInit, Storage!Init
<1>4. TableSized(mapper)
  <2>1. 0 \in Hits /\ MaxMaps \in Nat
    BY MemoryConstants, MapConstants DEF Hits
  <2> QED BY <2>1 DEF PlatformInit, Maps!Init, Maps!Fresh, TableSized
<1>5. MapsInv
  BY MapsFresh DEF PlatformInit, Maps!Init
<1>6. QED
  BY <1>1, <1>2, <1>3, <1>4, <1>5, WordsInit, GraphicsInit, TimerInit, CoresInit, PowerInit,
     MemoryInit DEF PlatformInit, DriversInv

(* The state of every driver stays of its type: each driver's invariant and, where *)
(* that does not bound a field, the bound itself is preserved by every call.       *)
THEOREM DriversAreTyped == PlatformSpec => []DriversTyped
<1>1. DriversInv /\ [PlatformNext]_platformVars => DriversInv'
  BY WordsStep, WordsSizedStep, GraphicsStep, GraphicsSizedStep, DriveStep, MapsStep,
     MapsSizedStep, TimerStep, CoresStep, PowerStep, MemoryStep DEF DriversInv
<1>2. PlatformSpec => []TypeOK
  BY QueueTyped
<1>3. DriversInv => /\ Power!TypeOK /\ Memory!TypeOK /\ Cores!TypeOK /\ Storage!TypeOK /\ Timer!TypeOK
  BY PowerTypesHold, MemoryHolds, CoresTypesHold, DriveTypesHold, TimerTypesHold DEF DriversInv
<1>4. DriversInv => Words!TypeOK
  BY DEF DriversInv, WordsSized, Words!TypeOK, Bits
<1>5. DriversInv => Maps!TypeOK
  <2> SUFFICES ASSUME TableSized(mapper) PROVE Maps!TypeOK
    BY DEF DriversInv
  <2>1. {mapper.hits, mapper.misses} \subseteq 0 .. MaxCount
    BY DEF TableSized, Hits
  <2> QED BY <2>1 DEF TableSized, Maps!TypeOK
<1>6. DriversInv => Graphics!TypeOK
  <2> SUFFICES ASSUME GraphicsInv, GraphicsSized PROVE Graphics!TypeOK
    BY DEF DriversInv
  <2>1. {gpu.head, gpu.doorbell, drv.head, drv.tail} \subseteq Graphics!Ring
    BY DEF GraphicsInv, GraphicsTyped, Graphics!Ring, Places
  <2>2. drv.left \in 0 .. Polls
    BY DEF GraphicsInv, GraphicsTyped, Left
  <2>3. Len(drv.slots) <= MaxSlots
    BY DEF GraphicsSized, SlotLists
  <2> QED BY <2>1, <2>2, <2>3 DEF GraphicsSized, Graphics!TypeOK, Speeds, Attachments
<1>7. PlatformSpec => []DriversInv
  BY <1>1, AllTypesInit, PTL DEF PlatformSpec
<1>8. TypeOK /\ DriversInv => DriversTyped
  BY <1>3, <1>4, <1>5, <1>6 DEF DriversTyped
<1>9. QED
  BY <1>2, <1>7, <1>8, PTL
=============================================================================
