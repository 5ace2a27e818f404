---------------------------- MODULE FabricQueue -----------------------------
(***************************************************************************)
(* The topology and the message queue of the BradFusion fabric               *)
(* (drivers/fabric.c): nodes with address ranges and memory behind them,     *)
(* channels, and the one ring of bytes every channel sends to and receives   *)
(* from.                                                                    *)
(*                                                                         *)
(* fab is the part of struct fabric_state these calls use; chans are the     *)
(* struct fabric_channel that callers keep, which fabric_init does not       *)
(* touch; sent is history: the bytes sent since fabric_init and not received *)
(* yet. Addresses are words below Wrap. Byte and latency totals are left     *)
(* out.                                                                     *)
(***************************************************************************)
EXTENDS Integers, SequencesExt

CONSTANTS
  Channels,   \* the channel structs callers keep
  Ranges,     \* the <<address_base, address_limit>> of the nodes registered
  ByteValues, \* the values of a byte
  Messages,   \* what is sent: sequences of bytes
  Wants,      \* how many bytes a receiver asks for
  MaxNodes,   \* FABRIC_MAX_NODES
  Capacity,   \* the size of fabric_queue.data
  Mtu,        \* FABRIC_PACKET_MAX_SIZE
  Wrap,       \* 2^64: one more than the highest address
  Unwritten   \* a byte nobody wrote

ASSUME FabricQueueConstants ==
  /\ {MaxNodes, Capacity, Mtu, Wrap} \subseteq Nat \ {0} /\ Mtu <= Capacity
  /\ \A r \in Ranges : {r[1], r[2]} \subseteq 0 .. Wrap - 1
  /\ Messages \subseteq Seq(ByteValues) /\ Wants \subseteq Nat /\ Unwritten \in ByteValues

VARIABLES fab, chans, sent

queueVars == <<fab, chans, sent>>

Node(range, mem) == [base |-> range[1], limit |-> range[2], mem |-> mem, held |-> <<>>]
Closed == [dst |-> 1, mtu |-> 0]
Fresh(ready) ==
  [ready |-> ready, nodes |-> <<>>, head |-> 0, tail |-> 0, used |-> 0,
   data |-> [i \in 0 .. Capacity - 1 |-> Unwritten]]

Init ==
  /\ fab = Fresh(FALSE)
  /\ chans = [c \in Channels |-> Closed]
  /\ sent = <<>>

\* fabric_init: nodes and messages are gone, channels stay.
Start == fab' = Fresh(TRUE) /\ sent' = <<>> /\ UNCHANGED chans

\* The end of a range, as the code computes it: 0 for one that ends at the top.
PastLimit(n) == (n.limit + 1) % Wrap

\* Faulty variant: only a range that starts inside the other overlaps it.
OverlapsStart(m, n) == m.base < PastLimit(n) /\ n.base <= m.base
Overlaps(m, n) == m.base < PastLimit(n) /\ n.base < PastLimit(m)

Register(range) ==
  /\ fab.ready /\ Len(fab.nodes) < MaxNodes
  /\ \A i \in DOMAIN fab.nodes : ~Overlaps(Node(range, 0), fab.nodes[i])
  /\ fab' = [fab EXCEPT !.nodes = Append(@, Node(range, 0))]
  /\ UNCHANGED <<chans, sent>>

\* fabric_bind_memory: no more than the node's addresses, counted in a word.
Bind(i, len) ==
  /\ fab.ready /\ len > 0
  /\ len <= (fab.nodes[i].limit - fab.nodes[i].base + 1) % Wrap
  /\ fab' = [fab EXCEPT !.nodes[i].mem = len, !.nodes[i].held = <<>>]
  /\ UNCHANGED <<chans, sent>>

\* region_valid and fabric_translate: does a transfer of len bytes at addr of node n
\* pass the check, and is there memory behind its first byte?
RegionValid(n, addr, len) == addr >= n.base /\ (addr + len) % Wrap <= PastLimit(n)
Translates(n, addr) == n.mem > 0 /\ addr >= n.base /\ addr < (n.base + n.mem) % Wrap

\* The source of a channel only adds to a latency total.
Open(c, dst) ==
  /\ fab.ready
  /\ chans' = [chans EXCEPT ![c] = [dst |-> dst, mtu |-> Mtu]]
  /\ UNCHANGED <<fab, sent>>

\* fabric_channel_close zeroes the struct: nothing fits its mtu, all may be received.
Close(c) == chans' = [chans EXCEPT ![c] = Closed] /\ UNCHANGED <<fab, sent>>

Written(data, at, message) ==
  [i \in 0 .. Capacity - 1 |->
     LET k == (i - at) % Capacity IN IF k < Len(message) THEN message[k + 1] ELSE data[i]]

\* What fabric_send leaves at the base of its destination's memory, if that address
\* translates and the message fits there.
Delivered(n, message) ==
  IF Translates(n, n.base) /\ n.mem >= Len(message) THEN [n EXCEPT !.held = message] ELSE n

\* Faulty variant: the check for room is off by one.
FitsAndOne(message) == fab.used + Len(message) <= Capacity + 1
\* An empty queue takes any message of at most the mtu.
Fits(message) == fab.used = 0 \/ fab.used + Len(message) <= Capacity

Send(c, message) ==
  /\ fab.ready /\ message # <<>> /\ Len(message) <= chans[c].mtu /\ Fits(message)
  /\ fab' = [fab EXCEPT
       !.data = Written(@, fab.tail, message), !.tail = (@ + Len(message)) % Capacity,
       !.used = @ + Len(message),
       !.nodes = [i \in DOMAIN @ |-> IF i = chans[c].dst THEN Delivered(@[i], message) ELSE @[i]]]
  /\ sent' = sent \o message
  /\ UNCHANGED chans

\* The next n bytes of the ring.
Waiting(n) == [k \in 1 .. n |-> fab.data[(fab.head + k - 1) % Capacity]]

\* Faulty variant: the receiver is given as many bytes as it wants.
GivenAll(want) == want
Given(want) == IF want < fab.used THEN want ELSE fab.used

Recv(c, want) ==
  /\ fab.ready
  /\ fab' = [fab EXCEPT !.head = (@ + Given(want)) % Capacity, !.used = @ - Given(want)]
  /\ sent' = SubSeq(sent, Given(want) + 1, Len(sent))
  /\ UNCHANGED chans

Next ==
  \/ Start
  \/ \E r \in Ranges : Register(r)
  \/ \E i \in DOMAIN fab.nodes, len \in 1 .. Wrap - 1 : Bind(i, len)
  \/ \E c \in Channels, i \in DOMAIN fab.nodes : Open(c, i)
  \/ \E c \in Channels :
       \/ Close(c)
       \/ \E m \in Messages : Send(c, m)
       \/ \E want \in Wants : Recv(c, want)

Spec == Init /\ [][Next]_queueVars

-----------------------------------------------------------------------------
(* Correctness.                                                             *)

\* Indices, counts and nodes are of their types (drivers/fabric.c).
TypeOK ==
  /\ {fab.head, fab.tail} \subseteq 0 .. Capacity - 1 /\ fab.used \in 0 .. Capacity
  /\ Len(fab.nodes) <= MaxNodes
  /\ \A i \in DOMAIN fab.nodes : Len(fab.nodes[i].held) <= fab.nodes[i].mem

\* Across all channels, receivers get exactly the bytes that were sent, each once and
\* in the order of the sends, however sends and partial receives go round the ring
\* (fabric_send, fabric_recv).
BytesInOrder ==
  /\ Waiting(fab.used) = sent
  /\ (fab.tail - fab.head - fab.used) % Capacity = 0

TopNode(n) == n.limit = Wrap - 1

\* Nodes own their addresses: two of them overlap only if one ends at the top of the
\* address space, where limit + 1 is zero, and a transfer that passes region_valid
\* and reaches memory starts in its own node and ends in it, unless its end wraps
\* around: addr + len then is a small number, which only a node that ends at the top
\* refuses. Not claimed of a node registered with its limit below its base, which
\* nothing refuses (fabric_register_node, region_valid).
NodesOwnAddresses ==
  LET nodes == fab.nodes
  IN /\ \A i, j \in DOMAIN nodes :
          i < j /\ nodes[i].base <= nodes[j].limit /\ nodes[j].base <= nodes[i].limit =>
            TopNode(nodes[i]) \/ TopNode(nodes[j])
     /\ \A i \in DOMAIN nodes, addr \in 0 .. Wrap - 1, len \in 1 .. Wrap - 1 :
          /\ nodes[i].base <= nodes[i].limit
          /\ RegionValid(nodes[i], addr, len) /\ Translates(nodes[i], addr)
          => /\ addr \in nodes[i].base .. nodes[i].limit
             /\ addr + len < Wrap \/ TopNode(nodes[i]) => addr + len - 1 <= nodes[i].limit
=============================================================================
