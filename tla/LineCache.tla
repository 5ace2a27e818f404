------------------------------ MODULE LineCache ------------------------------
(***************************************************************************)
(* What the caches of the cache emulator promise the cores that use them:    *)
(* each cache remembers, for each of its sets, the line touched last and the *)
(* value written to it since it was touched first. Touching another line of  *)
(* the set forgets both, and a line just found reads as zero.                *)
(***************************************************************************)
EXTENDS Integers

CONSTANTS
  Caches,    \* the caches that cores access
  SetIds,    \* the sets of a cache
  Lines,     \* the lines of memory
  Values,    \* what a line may hold
  Zero,      \* the contents of a line no one has written
  Absent,    \* a set that holds no line
  SetOf(_)   \* the set a line belongs to

VARIABLES
  held,    \* held[c][s]: the line set s of cache c remembers, with its value
  answer   \* what the last read returned

vars == <<held, answer>>

Held(line, val) == [line |-> line, val |-> val]

Init ==
  /\ held = [c \in Caches |-> [s \in SetIds |-> Absent]]
  /\ answer = Zero

Value(c, l) ==
  IF held[c][SetOf(l)] # Absent /\ held[c][SetOf(l)].line = l
  THEN held[c][SetOf(l)].val ELSE Zero

Read(c, l) ==
  /\ held' = [held EXCEPT ![c][SetOf(l)] = Held(l, Value(c, l))]
  /\ answer' = Value(c, l)

Write(c, l, v) ==
  /\ held' = [held EXCEPT ![c][SetOf(l)] = Held(l, v)]
  /\ UNCHANGED answer

Forget(c, S) ==
  /\ held' = [held EXCEPT ![c] = [s \in SetIds |-> IF s \in S THEN Absent ELSE @[s]]]
  /\ UNCHANGED answer

Next ==
  \E c \in Caches :
    \/ \E l \in Lines : Read(c, l)
    \/ \E l \in Lines, v \in Values : Write(c, l, v)
    \/ \E S \in SUBSET SetIds : Forget(c, S)

Spec == Init /\ [][Next]_vars
=============================================================================
