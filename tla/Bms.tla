-------------------------------- MODULE Bms ----------------------------------
(***************************************************************************)
(* The BMS reference server (bms/reference_server.py): the requests that     *)
(* change the state of the one BradID, each served by a thread of its own    *)
(* with nothing locked. A step is one read or one write of a field of STATE; *)
(* an augmented assignment is two.                                          *)
(*                                                                         *)
(* state is the class State; serving is what each thread is doing; begun     *)
(* counts requests. mixed is history: the services of which two requests     *)
(* were ever served at the same time. Requests that are refused for their    *)
(* token or their body change nothing and are left out, as is all a reply    *)
(* says but the balances and ids read for it.                               *)
(***************************************************************************)
EXTENDS Integers, FiniteSetsExt, SequencesExt

CONSTANTS
  Threads,      \* the handler threads alive at one time
  Amounts,      \* the amounts transferred
  StartCents,   \* what the wallet holds at first
  Fee,          \* TRANSFER_FEE_CENTS
  ObjectIds,    \* the ids uuid4 gives: a new one for each file
  MaxRequests   \* model bound: requests in a behaviour

VARIABLES state, serving, begun, mixed

bmsVars == <<state, serving, begun, mixed>>

\* A thread's locals: its next step and the values it has read.
Idle == [at |-> "idle", amount |-> 0, read |-> 0, id |-> 0]

Init ==
  /\ state = [wallet |-> StartCents, transactions |-> <<>>, files |-> {},
              notifications |-> <<>>, seq |-> 0]
  /\ serving = [t \in Threads |-> Idle]
  /\ begun = 0 /\ mixed = {}

Pay == {"check", "load wallet", "store wallet", "load seq", "store seq", "read id",
        "read balance", "append", "show"}
Notify == {"append notification"}

Busy(steps) == {t \in Threads : serving[t].at \in steps}

Begin(t, steps, service) ==
  /\ serving[t] = Idle /\ begun < MaxRequests
  /\ begun' = begun + 1
  /\ mixed' = IF Busy(steps) # {} THEN mixed \cup {service} ELSE mixed

Goes(t, locals) == serving' = [serving EXCEPT ![t] = locals]
Local(t) == serving[t]

\* POST /pay/transfer with a body that names a receiver and an amount.
Transfer(t, amount) ==
  /\ Begin(t, Pay, "pay")
  /\ Goes(t, [Idle EXCEPT !.at = "check", !.amount = amount])
  /\ UNCHANGED state

\* Faulty variant: the fee is forgotten.
CostOfAmount(amount) == amount
Cost(amount) == amount + Fee

\* An insufficient balance is answered with 402.
Check(t) ==
  /\ Local(t).at = "check"
  /\ Goes(t, IF Cost(Local(t).amount) > state.wallet THEN Idle
             ELSE [Local(t) EXCEPT !.at = "load wallet"])
  /\ UNCHANGED <<state, begun, mixed>>

\* A read of a field into the frame of the thread, and the step that follows it.
Reads(t, from, value, to) ==
  /\ Local(t).at = from
  /\ Goes(t, [Local(t) EXCEPT !.at = to, !.read = value])
  /\ UNCHANGED <<state, begun, mixed>>

LoadWallet(t) == Reads(t, "load wallet", state.wallet, "store wallet")
LoadSeq(t) == Reads(t, "load seq", state.seq, "store seq")

StoreWallet(t) ==
  /\ Local(t).at = "store wallet"
  /\ state' = [state EXCEPT !.wallet = Local(t).read - Cost(Local(t).amount)]
  /\ Goes(t, [Local(t) EXCEPT !.at = "load seq"])
  /\ UNCHANGED <<begun, mixed>>

StoreSeq(t) ==
  /\ Local(t).at = "store seq"
  /\ state' = [state EXCEPT !.seq = Local(t).read + 1]
  /\ Goes(t, [Local(t) EXCEPT !.at = "read id"])
  /\ UNCHANGED <<begun, mixed>>

ReadId(t) ==
  /\ Local(t).at = "read id"
  /\ Goes(t, [Local(t) EXCEPT !.at = "read balance", !.id = state.seq])
  /\ UNCHANGED <<state, begun, mixed>>

ReadBalance(t) == Reads(t, "read balance", state.wallet, "append")

AppendTransaction(t) ==
  /\ Local(t).at = "append"
  /\ state' = [state EXCEPT !.transactions = Append(@,
       [id |-> Local(t).id, amount |-> Local(t).amount, fee |-> Fee, balance |-> Local(t).read])]
  /\ Goes(t, Idle)
  /\ UNCHANGED <<begun, mixed>>

\* GET /pay/wallet reads the balance and then the last transactions.
GetWallet(t) ==
  /\ Begin(t, Pay, "pay")
  /\ Goes(t, [Idle EXCEPT !.at = "show", !.read = state.wallet])
  /\ UNCHANGED state

Show(t) ==
  /\ Local(t).at = "show" /\ Goes(t, Idle)
  /\ UNCHANGED <<state, begun, mixed>>

\* POST /cloud/files: the id is new, and the insertion is one step.
PostFile(t, oid) ==
  /\ Begin(t, {}, "cloud") /\ oid \notin state.files
  /\ state' = [state EXCEPT !.files = @ \cup {oid}]
  /\ UNCHANGED serving

\* POST /notify/send numbers the notification before it appends it.
Send(t) ==
  /\ Begin(t, Notify, "notify")
  /\ Goes(t, [Idle EXCEPT !.at = "append notification", !.id = Len(state.notifications) + 1])
  /\ UNCHANGED state

AppendNotification(t) ==
  /\ Local(t).at = "append notification"
  /\ state' = [state EXCEPT !.notifications = Append(@, Local(t).id)]
  /\ Goes(t, Idle)
  /\ UNCHANGED <<begun, mixed>>

Next ==
  \E t \in Threads :
    \/ \E amount \in Amounts : Transfer(t, amount)
    \/ Check(t) \/ LoadWallet(t) \/ StoreWallet(t) \/ LoadSeq(t) \/ StoreSeq(t) \/ ReadId(t)
    \/ ReadBalance(t)
    \/ AppendTransaction(t) \/ GetWallet(t) \/ Show(t) \/ Send(t) \/ AppendNotification(t)
    \/ \E oid \in ObjectIds : PostFile(t, oid)

Spec == Init /\ [][Next]_bmsVars

-----------------------------------------------------------------------------
(* Correctness.                                                             *)

\* Threads are between two steps of a request or idle (bms/reference_server.py).
TypeOK ==
  /\ \A t \in Threads : serving[t].at \in {"idle"} \cup Pay \cup Notify
  /\ begun \in 0 .. MaxRequests /\ state.seq \in 0 .. begun

Settled == SumFunction([i \in DOMAIN state.transactions |->
             state.transactions[i].amount + state.transactions[i].fee])

\* Served one at a time, transfers add up: the wallet is what it started with less what
\* the ledger says was paid, it is never overdrawn, transactions and notifications are
\* numbered in order, each ledger entry states the balance it left, and a balance that
\* is shown is the one of the last entry. When requests of one service overlap, all that
\* is left is that no money vanishes: the wallet is never less than the ledger explains
\* (do_POST, do_GET).
RequestsAddUp ==
  /\ Busy(Pay \ {"show"}) = {} => state.wallet >= StartCents - Settled
  /\ "pay" \notin mixed =>
       LET ledger == state.transactions IN
       /\ state.wallet >= 0
       /\ \A i \in DOMAIN ledger :
            /\ ledger[i].id = i
            /\ ledger[i].balance = (IF i = 1 THEN StartCents ELSE ledger[i - 1].balance)
                                     - ledger[i].amount - ledger[i].fee
       /\ \A t \in Busy({"show"}) : serving[t].read = StartCents - Settled
       /\ Busy(Pay) = {} => state.wallet = StartCents - Settled
  /\ "notify" \notin mixed => \A i \in DOMAIN state.notifications : state.notifications[i] = i
=============================================================================
