---------------------------- MODULE FabricMemory ----------------------------
(***************************************************************************)
(* What the BradFusion fabric promises to the agents that share an         *)
(* address space: a DMA transfer moves its words and is accounted in one    *)
(* step, and an atomic reads and updates its word in one step.              *)
(***************************************************************************)
EXTENDS Integers

CONSTANTS Threads, Words, Mod, Contents, Calls

VARIABLES
  memory,     \* the host memory that transfers reach
  bytes,      \* transfer bytes accounted to the channel
  answer      \* answer[t]: what thread t's last cas or exch stored in *prev

Update(f, x, v) == [f EXCEPT ![x] = v]

\* memmove: the source is read as it was before any word is written.
Moved(m, c) ==
  [w \in Words |-> IF w \in c.dst .. c.dst + c.len - 1 THEN m[c.src + (w - c.dst)] ELSE m[w]]

Init ==
  /\ memory = Contents
  /\ bytes = 0
  /\ answer = [t \in Threads |-> 0]

Dma(c) ==
  /\ memory' = IF c.bound THEN Moved(memory, c) ELSE memory
  /\ bytes' = bytes + c.len
  /\ UNCHANGED answer

FetchAdd(c) ==
  /\ memory' = Update(memory, c.at, (memory[c.at] + c.val) % Mod)
  /\ UNCHANGED <<bytes, answer>>

Exchange(t, c) ==
  /\ memory' = Update(memory, c.at, c.val)
  /\ answer' = Update(answer, t, memory[c.at])
  /\ UNCHANGED bytes

CompareAndSwap(t, c) ==
  /\ memory' = IF memory[c.at] = c.expected THEN Update(memory, c.at, c.val) ELSE memory
  /\ answer' = Update(answer, t, memory[c.at])
  /\ UNCHANGED bytes

Perform(t, c) ==
  \/ c.op = "dma" /\ Dma(c)
  \/ c.op = "add" /\ FetchAdd(c)
  \/ c.op = "exch" /\ Exchange(t, c)
  \/ c.op = "cas" /\ CompareAndSwap(t, c)

Next == \E t \in Threads : \E c \in Calls[t] : Perform(t, c)

Spec == Init /\ [][Next]_<<memory, bytes, answer>>
=============================================================================
