----------------------------- MODULE Settlement -----------------------------
(***************************************************************************)
(* What the payment code promises about money, with every mechanism left   *)
(* out: no channel, no callbacks, no status columns.  An order is funded   *)
(* from one source, once, and only while it is still open; the wallet part *)
(* of a payment is put on hold and then either captured by the order or    *)
(* released to the wallet, never both.  Payment.tla implements it.         *)
(***************************************************************************)
EXTENDS Integers

CONSTANTS
    Orders,        \* orders of the customer
    Intents,       \* payment intents (ExternalPayment rows)
    Wallet,        \* the source "paid straight from the balance"
    Price,         \* Price[o]: what the order costs, in cents
    StartBalance   \* the wallet before the first step

VARIABLES
    wallet,        \* spendable balance
    hold,          \* hold[i]: wallet money set aside for intent i
    sources,       \* sources[o]: what funded order o
    closed         \* orders withdrawn before they were funded

vars == <<wallet, hold, sources, closed>>

Init ==
    /\ wallet = StartBalance
    /\ hold = [i \in Intents |-> 0]
    /\ sources = [o \in Orders |-> {}]
    /\ closed = {}

Open(o) == sources[o] = {} /\ o \notin closed

Fund(o, src) ==
    /\ Open(o)
    /\ sources' = [sources EXCEPT ![o] = {src}]
    /\ UNCHANGED closed

\* Money enters the wallet.
Deposit ==
    /\ wallet' \in Nat /\ wallet' >= wallet
    /\ UNCHANGED <<hold, sources, closed>>

\* Part of a payment is set aside.
Hold(i) ==
    /\ hold[i] = 0
    /\ \E n \in 0..wallet :
          /\ wallet' = wallet - n
          /\ hold' = [hold EXCEPT ![i] = n]
    /\ UNCHANGED <<sources, closed>>

\* The payment failed: what was set aside returns, in full and once.
Release(i) ==
    /\ wallet' = wallet + hold[i]
    /\ hold' = [hold EXCEPT ![i] = 0]
    /\ UNCHANGED <<sources, closed>>

\* The payment arrived: what was set aside is spent on the order.
Capture(i, o) ==
    /\ Fund(o, i)
    /\ hold' = [hold EXCEPT ![i] = 0]
    /\ UNCHANGED wallet

\* An order paid in full from the wallet, with or without an intent.
Spend(o, src) ==
    /\ Fund(o, src)
    /\ Price[o] <= wallet
    /\ wallet' = wallet - Price[o]
    /\ UNCHANGED hold

Close(o) ==
    /\ Open(o)
    /\ closed' = closed \cup {o}
    /\ UNCHANGED <<wallet, hold, sources>>

Next ==
    \/ Deposit
    \/ \E i \in Intents : Hold(i) \/ Release(i)
    \/ \E o \in Orders : Close(o)
    \/ \E o \in Orders, i \in Intents : Capture(i, o)
    \/ \E o \in Orders, src \in Intents \cup {Wallet} : Spend(o, src)

Spec == Init /\ [][Next]_vars
=============================================================================
