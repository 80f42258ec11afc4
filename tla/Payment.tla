------------------------------ MODULE Payment ------------------------------
(***************************************************************************)
(* Payment intents (service/payment.go, payment_target.go), the orders and *)
(* order invoices they settle (service/order.go) and the wallet that pays  *)
(* part of them (service/wallet.go), for one customer: every query of that *)
(* code is restricted to one user_id.                                      *)
(*                                                                         *)
(* A database transaction is one action.  What lies between transactions   *)
(* is a step of its own: the CreatePayment call to the channel plugin, its *)
(* compensation, and the read of the intent with which FinalizeCallback    *)
(* and Query begin.  The status `processing` exists only inside the        *)
(* finalize transaction and is never visible.  Orders are created and      *)
(* provisioned elsewhere (not modelled here); service renewal is           *)
(* Lifecycle.tla's subject.                                                *)
(***************************************************************************)
EXTENDS Integers, FiniteSets, Functions

CONSTANTS
    Orders, Intents,
    Threads,       \* request handlers serving callbacks and status queries
    NoOrder,       \* target of a recharge
    Wallet,        \* see Settlement
    Price,         \* order.TotalCents, fixed when the order is created
    StartBalance,
    TopUps,        \* amounts a customer may recharge
    Misreports,    \* by how much a callback's amount may exceed the request
    WalletCap      \* bound on the balance that recharges may build up

ASSUME PriceAssumption == Price \in [Orders -> Nat]
ASSUME BalanceAssumption == StartBalance \in Nat
ASSUME AmountAssumption == TopUps \subseteq Nat \ {0} /\ Misreports \subseteq Nat
ASSUME RowAssumption == IsFiniteSet(Orders) /\ IsFiniteSet(Intents)
ASSUME NameAssumption == NoOrder \notin Orders /\ Wallet \notin Intents

VARIABLES
    wallet,        \* users.balance_cents
    debits,        \* orders that Pay or SettleInvoice took from the balance
    recharged,     \* sum of the TxRecharge rows that no intent explains
    order,         \* orders.status
    invoice,       \* status of the order's invoice
    status,        \* external_payments.status
    purpose,       \* external_payments.purpose
    target,        \* the order an intent pays, directly or by its invoice
    amount,        \* amount_cents: what the channel is asked for
    held,          \* balance_cents: what the wallet paid in advance
    receipt,       \* paid_amount_cents
    creator,       \* where the Create call of an intent stands
    charge,        \* the charge at the channel (outside the program)
    thread,        \* requests being handled
    acked          \* intents with a callback answered "success" (history)

moneyVars == <<wallet, debits, recharged>>
orderVars == <<order, invoice>>
rowVars == <<purpose, target, amount, held>>
flowVars == <<creator, charge, thread, acked>>
vars == <<wallet, debits, recharged, order, invoice, status, purpose, target,
          amount, held, receipt, creator, charge, thread, acked>>

Purposes == {"order", "invoice", "recharge"}
Statuses == {"none", "pending", "paid", "failed", "late"}

Free == [kind |-> "free"]
Jobs == [kind: {"callback", "query"}, intent: Intents, seen: Statuses, paid: Nat]

TypeOK ==
    /\ wallet \in Nat /\ recharged \in Nat
    /\ debits \subseteq Orders
    /\ order \in [Orders -> {"pending", "paid", "cancelled"}]
    /\ invoice \in [Orders -> {"unpaid", "paid", "cancelled"}]
    /\ status \in [Intents -> Statuses]
    /\ purpose \in [Intents -> Purposes]
    /\ target \in [Intents -> Orders \cup {NoOrder}]
    /\ amount \in [Intents -> Nat]
    /\ held \in [Intents -> Nat]
    /\ receipt \in [Intents -> Nat]
    /\ creator \in [Intents -> {"none", "calling", "compensating", "returned"}]
    /\ charge \in [Intents -> {"none", "open", "paid"}]
    /\ thread \in [Threads -> Jobs \cup {Free}]
    /\ acked \subseteq Intents

\* Orders exist and wait for payment.
Init ==
    /\ wallet = StartBalance /\ debits = {} /\ recharged = 0
    /\ order = [o \in Orders |-> "pending"]
    /\ invoice = [o \in Orders |-> "unpaid"]
    /\ status = [i \in Intents |-> "none"]
    /\ purpose = [i \in Intents |-> "recharge"]
    /\ target = [i \in Intents |-> NoOrder]
    /\ amount = [i \in Intents |-> 0]
    /\ held = [i \in Intents |-> 0]
    /\ receipt = [i \in Intents |-> 0]
    /\ creator = [i \in Intents |-> "none"]
    /\ charge = [i \in Intents |-> "none"]
    /\ thread = [t \in Threads |-> Free]
    /\ acked = {}

-----------------------------------------------------------------------------
(* Orders and the wallet.                                                  *)

\* Live intents on the canonical target: an order and its invoice alias.
Live(o) == {i \in Intents : status[i] = "pending" /\ target[i] = o}

\* Mutant: payInTx trusts the status it read up front.
PayableOnceRead(o) == order[o] # "cancelled"

\* payInTx accepts the order: both compare-and-swaps will find their row.
Payable(o) == order[o] = "pending" /\ invoice[o] = "unpaid"

MarkPaid(o) ==
    /\ Payable(o)
    /\ order' = [order EXCEPT ![o] = "paid"]
    /\ invoice' = [invoice EXCEPT ![o] = "paid"]

\* Mutant: the deduction forgets its `balance_cents >= ?` condition.
DebitUnchecked(n) == wallet' = wallet - n

Debit(n) == n <= wallet /\ wallet' = wallet - n
Credit(n) == wallet' = wallet + n

\* OrderService.Pay, or PaymentService.SettleInvoice on the order's invoice.
PayFromWallet(o) ==
    /\ Live(o) = {}
    /\ Debit(Price[o])
    /\ MarkPaid(o)
    /\ debits' = debits \cup {o}
    /\ UNCHANGED <<recharged, status, receipt, rowVars, flowVars>>

\* OrderService.Cancel looks at the order only, never at its intents.
CancelOrder(o) ==
    /\ order[o] = "pending"
    /\ order' = [order EXCEPT ![o] = "cancelled"]
    /\ invoice' = IF invoice[o] = "unpaid"
                  THEN [invoice EXCEPT ![o] = "cancelled"] ELSE invoice
    /\ UNCHANGED <<moneyVars, status, receipt, rowVars, flowVars>>

\* WalletService.Recharge, or the first CreditExternal of an external id.
Recharge(n) ==
    /\ wallet + n <= WalletCap
    /\ Credit(n)
    /\ recharged' = recharged + n
    /\ UNCHANGED <<debits, orderVars, status, receipt, rowVars, flowVars>>

-----------------------------------------------------------------------------
(* PaymentService.Create: the reservation transaction, then the channel.   *)

Insert(i, p, o, ask, b) ==
    /\ status[i] = "none"
    /\ purpose' = [purpose EXCEPT ![i] = p]
    /\ target' = [target EXCEPT ![i] = o]
    /\ amount' = [amount EXCEPT ![i] = ask]
    /\ held' = [held EXCEPT ![i] = b]

\* Mutant: an order and its invoice are taken for different targets.
MayReserveByAlias(p, o) ==
    /\ Price[o] > 0
    /\ Payable(o)
    /\ {i \in Live(o) : purpose[i] = p} = {}

\* loadPaymentTarget, payableAmount and rejectPaymentIntentTx accept.
MayReserve(p, o) ==
    /\ Price[o] > 0
    /\ order[o] = "pending"
    /\ p = "invoice" => invoice[o] = "unpaid"
    /\ Live(o) = {}

\* The channel collects at least one cent; b is deducted now.
Reserve(i, p, o, b) ==
    /\ MayReserve(p, o)
    /\ b < Price[o]
    /\ Debit(b)
    /\ Insert(i, p, o, Price[o] - b, b)
    /\ status' = [status EXCEPT ![i] = "pending"]
    /\ creator' = [creator EXCEPT ![i] = "calling"]
    /\ UNCHANGED <<debits, recharged, orderVars, receipt, charge, thread, acked>>

\* The balance covers everything: settled in the same transaction.
ReserveAndSettle(i, p, o) ==
    /\ MayReserve(p, o)
    /\ Debit(Price[o])
    /\ Insert(i, p, o, 0, Price[o])
    /\ MarkPaid(o)
    /\ status' = [status EXCEPT ![i] = "paid"]
    /\ creator' = [creator EXCEPT ![i] = "returned"]
    /\ UNCHANGED <<debits, recharged, receipt, charge, thread, acked>>

RequestRecharge(i, n) ==
    /\ Insert(i, "recharge", NoOrder, n, 0)
    /\ status' = [status EXCEPT ![i] = "pending"]
    /\ creator' = [creator EXCEPT ![i] = "calling"]
    /\ UNCHANGED <<moneyVars, orderVars, receipt, charge, thread, acked>>

\* The plugin registers the charge, perhaps after Create gave up on it.
OpenCharge(i) ==
    /\ creator[i] # "none" /\ amount[i] > 0
    /\ charge[i] = "none"
    /\ charge' = [charge EXCEPT ![i] = "open"]
    /\ UNCHANGED <<moneyVars, orderVars, status, receipt, rowVars, creator, thread, acked>>

CreateReturns(i) ==
    /\ creator[i] = "calling" /\ charge[i] # "none"
    /\ creator' = [creator EXCEPT ![i] = "returned"]
    /\ UNCHANGED <<moneyVars, orderVars, status, receipt, rowVars, charge, thread, acked>>

\* CreatePayment errs: refused, timed out, or done with the reply lost.
CreateFails(i) ==
    /\ creator[i] = "calling"
    /\ creator' = [creator EXCEPT ![i] = "compensating"]
    /\ UNCHANGED <<moneyVars, orderVars, status, receipt, rowVars, charge, thread, acked>>

\* Mutant: the deduction of a failed intent is kept.
VoidWithoutRefund(i) ==
    /\ status[i] = "pending"
    /\ status' = [status EXCEPT ![i] = "failed"]
    /\ UNCHANGED <<moneyVars, orderVars, receipt, rowVars, charge, thread, acked>>

\* pending -> failed, claimed before the deduction returns to the wallet.
Void(i) ==
    /\ status[i] = "pending"
    /\ status' = [status EXCEPT ![i] = "failed"]
    /\ Credit(held[i])
    /\ UNCHANGED <<debits, recharged, orderVars, receipt, rowVars, charge, thread, acked>>

\* Mutant: the deduction is returned whoever claimed the intent.
CompensateUnclaimed(i) ==
    /\ creator[i] = "compensating"
    /\ creator' = [creator EXCEPT ![i] = "returned"]
    /\ status' = IF status[i] = "pending" THEN [status EXCEPT ![i] = "failed"] ELSE status
    /\ Credit(held[i])
    /\ UNCHANGED <<debits, recharged, orderVars, receipt, rowVars, charge, thread, acked>>

\* compensateCreateFailure; it backs off when the claim is lost.
Compensate(i) ==
    /\ creator[i] = "compensating"
    /\ creator' = [creator EXCEPT ![i] = "returned"]
    /\ IF status[i] = "pending" THEN Void(i)
       ELSE UNCHANGED <<moneyVars, orderVars, status, receipt, rowVars, charge, thread, acked>>

\* PaymentService.Cancel, by the customer.
CancelIntent(i) == Void(i) /\ UNCHANGED creator

-----------------------------------------------------------------------------
(* The channel, its callbacks and the status query.                        *)

CustomerPays(i) ==
    /\ charge[i] = "open"
    /\ charge' = [charge EXCEPT ![i] = "paid"]
    /\ UNCHANGED <<moneyVars, orderVars, status, receipt, rowVars, creator, thread, acked>>

\* FinalizeCallback reads the row.  Callbacks repeat, in any number.
CallbackArrives(t, i, extra) ==
    /\ charge[i] = "paid"
    /\ thread[t] = Free
    /\ thread' = [thread EXCEPT ![t] =
          [kind |-> "callback", intent |-> i, seen |-> status[i],
           paid |-> amount[i] + extra]]
    /\ UNCHANGED <<moneyVars, orderVars, status, receipt, rowVars, creator, charge, acked>>

\* Query reads a pending row and the channel answers PAID, amount equal.
QueryAnswered(t, i) ==
    /\ charge[i] = "paid" /\ status[i] = "pending"
    /\ thread[t] = Free
    /\ thread' = [thread EXCEPT ![t] =
          [kind |-> "query", intent |-> i, seen |-> "pending", paid |-> amount[i]]]
    /\ UNCHANGED <<moneyVars, orderVars, status, receipt, rowVars, creator, charge, acked>>

Busy(t) == thread[t] # Free
Done(t) == thread' = [thread EXCEPT ![t] = Free]
Answer(t) ==
    acked' = IF thread[t].kind = "callback"
             THEN acked \cup {thread[t].intent} ELSE acked

\* Mutant: the reported amount is not compared with the requested one.
CanSettleAnyAmount(t) ==
    LET i == thread[t].intent IN
    /\ thread[t].seen = "pending" /\ status[i] = "pending"
    /\ purpose[i] # "recharge" => Payable(target[i])

\* The finalize transaction finds everything as it should be.
CanSettle(t) ==
    LET i == thread[t].intent IN
    /\ thread[t].seen = "pending" /\ status[i] = "pending"
    /\ thread[t].paid = amount[i]
    /\ purpose[i] # "recharge" => Payable(target[i])

SettleOrder(t) ==
    LET i == thread[t].intent IN
    /\ Busy(t) /\ CanSettle(t) /\ purpose[i] # "recharge"
    /\ MarkPaid(target[i])
    /\ status' = [status EXCEPT ![i] = "paid"]
    /\ receipt' = [receipt EXCEPT ![i] = thread[t].paid]
    /\ Done(t) /\ Answer(t)
    /\ UNCHANGED <<moneyVars, rowVars, creator, charge>>

SettleRecharge(t) ==
    LET i == thread[t].intent IN
    /\ Busy(t) /\ CanSettle(t) /\ purpose[i] = "recharge"
    /\ Credit(amount[i])
    /\ status' = [status EXCEPT ![i] = "paid"]
    /\ receipt' = [receipt EXCEPT ![i] = thread[t].paid]
    /\ Done(t) /\ Answer(t)
    /\ UNCHANGED <<debits, recharged, orderVars, rowVars, creator, charge>>

\* Mutant: a late receipt is acknowledged and forgotten.
DropLate(t) ==
    /\ Busy(t) /\ thread[t].seen \in {"failed", "late"}
    /\ Done(t) /\ Answer(t)
    /\ UNCHANGED <<moneyVars, orderVars, status, receipt, rowVars, creator, charge>>

\* Mutant: every late callback writes its receipt.
RecordLateAgain(t) ==
    LET i == thread[t].intent IN
    /\ Busy(t) /\ thread[t].seen \in {"failed", "late"}
    /\ status' = [status EXCEPT ![i] = "late"]
    /\ receipt' = [receipt EXCEPT ![i] = thread[t].paid]
    /\ Done(t) /\ Answer(t)
    /\ UNCHANGED <<moneyVars, orderVars, rowVars, creator, charge>>

\* A receipt for a row already given up: the first one is kept as `late`.
RecordLate(t) ==
    LET i == thread[t].intent IN
    /\ Busy(t) /\ thread[t].seen \in {"failed", "late"} /\ thread[t].paid > 0
    /\ IF status[i] = "failed"
       THEN /\ status' = [status EXCEPT ![i] = "late"]
            /\ receipt' = [receipt EXCEPT ![i] = thread[t].paid]
       ELSE UNCHANGED <<status, receipt>>
    /\ Done(t) /\ Answer(t)
    /\ UNCHANGED <<moneyVars, orderVars, rowVars, creator, charge>>

\* Already settled: finalize accepts the same amount again.
Repeated(t) ==
    LET i == thread[t].intent IN
    \/ thread[t].seen = "paid"
    \/ /\ thread[t].seen = "pending" /\ status[i] = "paid"
       /\ receipt[i] \in {0, thread[t].paid}

AcknowledgeRepeat(t) ==
    /\ Busy(t) /\ Repeated(t)
    /\ Done(t) /\ Answer(t)
    /\ UNCHANGED <<moneyVars, orderVars, status, receipt, rowVars, creator, charge>>

\* finalize rolls back and the channel (or the customer) sees an error.
Refuse(t) ==
    /\ Busy(t) /\ thread[t].seen = "pending"
    /\ ~CanSettle(t) /\ ~Repeated(t)
    /\ Done(t)
    /\ UNCHANGED <<moneyVars, orderVars, status, receipt, rowVars, creator, charge, acked>>

\* The process dies: calls in flight are forgotten, committed rows are not.
Crash ==
    /\ creator' = [i \in Intents |->
          IF creator[i] = "none" THEN "none" ELSE "returned"]
    /\ thread' = [t \in Threads |-> Free]
    /\ UNCHANGED <<moneyVars, orderVars, status, receipt, rowVars, charge, acked>>

-----------------------------------------------------------------------------
OrderStep(o) == PayFromWallet(o) \/ CancelOrder(o)

CreateStep(i) ==
    \/ \E p \in {"order", "invoice"}, o \in Orders :
          \/ ReserveAndSettle(i, p, o)
          \/ \E b \in 0..Price[o] : Reserve(i, p, o, b)
    \/ \E n \in TopUps : RequestRecharge(i, n)
    \/ CreateReturns(i) \/ CreateFails(i) \/ Compensate(i)

ChannelStep(i) == OpenCharge(i) \/ CustomerPays(i)

Finish(t) ==
    \/ SettleOrder(t) \/ SettleRecharge(t) \/ RecordLate(t)
    \/ AcknowledgeRepeat(t) \/ Refuse(t)

Next ==
    \/ \E o \in Orders : OrderStep(o)
    \/ \E n \in TopUps : Recharge(n)
    \/ \E i \in Intents : CreateStep(i) \/ ChannelStep(i) \/ CancelIntent(i)
    \/ \E t \in Threads, i \in Intents :
          \/ \E extra \in Misreports : CallbackArrives(t, i, extra)
          \/ QueryAnswered(t, i)
    \/ \E t \in Threads : Finish(t)
    \/ Crash

Spec == Init /\ [][Next]_vars

\* The channel redelivers a callback until it is answered with success, and
\* crashes do not interrupt the handling of one intent for ever.  The pool of
\* threads is a bound of the model, so a thread being free now and then must
\* be enough: strong fairness.
FinishFor(i) == \E t \in Threads : thread[t] # Free /\ thread[t].intent = i /\ Finish(t)

Fairness ==
    \A i \in Intents :
       /\ SF_vars(i \notin acked /\ \E t \in Threads : CallbackArrives(t, i, 0))
       /\ SF_vars(FinishFor(i))

FairSpec == Spec /\ Fairness

-----------------------------------------------------------------------------
(* Safety.                                                                 *)

\* Paid intents of an order, whether they name it or its invoice.
Funders(o) == {i \in Intents : status[i] = "paid" /\ target[i] = o}

\* At most one intent is open on an order, counting the intents that reach it
\* through its invoice (rejectPaymentIntentTx and the active_target_key index).
OneLiveIntent ==
    \A o \in Orders : \A i, j \in Live(o) : i = j

\* An order is paid exactly when one source paid for it: one intent, or the
\* balance.  Two cashiers, a callback and a status query may all race for it.
FundedOnce ==
    \A o \in Orders :
       /\ order[o] = "paid" <=> Funders(o) # {} \/ o \in debits
       /\ \A i, j \in Funders(o) : i = j
       /\ o \in debits => Funders(o) = {}

\* What the channel collected and what the wallet advanced add up to the total
\* of the order they settled: no callback settles an order for less.
PaidInFull ==
    \A i \in Intents :
       status[i] = "paid" /\ target[i] # NoOrder =>
          receipt[i] + held[i] = Price[target[i]]

\* A callback answered with success left a record: the payment is settled, or
\* its money is filed as `late` for reconciliation.  It is never just dropped.
AckedIsRecorded ==
    \A i \in acked : status[i] \in {"paid", "late"}

\* The first durable receipt wins: neither a repeated callback nor anything
\* else rewrites a recorded receipt or leaves `late` and `paid`.
RecordsArePermanent ==
    [][\A i \in Intents : status[i] \in {"paid", "late"} =>
          status'[i] = status[i] /\ receipt'[i] = receipt[i]]_vars

\* What each intent holds of the wallet, and what its channel put into it.
Advanced == [i \in Intents |-> IF status[i] \in {"pending", "paid"} THEN held[i] ELSE 0]
ToppedUp == [i \in Intents |-> IF status[i] = "paid" /\ purpose[i] = "recharge" THEN amount[i] ELSE 0]

\* The wallet is what the customer started with and recharged, less what the
\* orders took and what open intents hold: a deduction is never lost and never
\* returned twice, whatever the race between cancel, compensation and callback
\* (adjustBalance and every caller of it in payment.go and order.go).
BalanceSheet ==
    wallet + SumFunctionOnSet(Price, debits) + SumFunctionOnSet(Advanced, Intents)
       = StartBalance + recharged + SumFunctionOnSet(ToppedUp, Intents)

\* Order and invoice change hands together: no state shows one without the other.
OrderMatchesInvoice ==
    \A o \in Orders :
       /\ order[o] = "pending" <=> invoice[o] = "unpaid"
       /\ order[o] = "paid" <=> invoice[o] = "paid"

\* What the five invariants above need to be inductive: how the columns of a row
\* hang together, and how much of what a thread has read can still be true.
RowsConsistent ==
    \A i \in Intents :
       /\ target[i] = NoOrder <=> purpose[i] = "recharge"
       /\ target[i] # NoOrder => amount[i] + held[i] = Price[target[i]]
       /\ target[i] = NoOrder => held[i] = 0
       /\ status[i] = "none" => creator[i] = "none" /\ target[i] = NoOrder
       /\ creator[i] = "none" => charge[i] = "none"
       /\ status[i] \in {"none", "pending"} => receipt[i] = 0

ReadsConsistent ==
    \A t \in Threads : thread[t] # Free =>
       LET now == status[thread[t].intent] IN
       /\ now # "none" /\ thread[t].seen # "none"
       /\ thread[t].seen = "paid" => now = "paid"
       /\ thread[t].seen = "failed" => now \in {"failed", "late"}
       /\ thread[t].seen = "late" => now = "late"

IInv ==
    /\ TypeOK
    /\ OneLiveIntent /\ FundedOnce /\ PaidInFull
    /\ AckedIsRecorded /\ OrderMatchesInvoice
    /\ RowsConsistent /\ ReadsConsistent

-----------------------------------------------------------------------------
(* Liveness.                                                               *)

\* A payment the channel collected ends up settled or filed as late: that of an intent
\* the customer or a failed Create gave up is filed whatever became of its order
\* (payment.go:657-683).  The exception is an intent that is pending while its order is
\* closed, which every callback leaves as it is.
ReceiptResolved ==
    \A i \in Intents :
       charge[i] = "paid" ~> \/ status[i] \in {"paid", "late"}
                             \/ status[i] = "pending" /\ purpose[i] # "recharge" /\ ~Payable(target[i])

\* payment.go:658-663 wants every verified receipt of a payment recorded, since
\* an error would make the channel retry for ever.
ReceiptRecorded ==
    \A i \in Intents : charge[i] = "paid" ~> status[i] \in {"paid", "late"}

-----------------------------------------------------------------------------
(* The abstract specification.                                             *)

SourcesOf(o) ==
    IF order[o] # "paid" THEN {}
    ELSE IF Funders(o) = {} THEN {Wallet} ELSE Funders(o)

Promise == INSTANCE Settlement WITH
    hold    <- [i \in Intents |-> IF status[i] = "pending" THEN held[i] ELSE 0],
    sources <- [o \in Orders |-> SourcesOf(o)],
    closed  <- {o \in Orders : order[o] = "cancelled"}

Implements == Promise!Spec
=============================================================================
