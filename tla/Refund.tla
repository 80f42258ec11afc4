------------------------------- MODULE Refund -------------------------------
(***************************************************************************)
(* Refund requests (service/refund.go) on paid orders: filing, review, and *)
(* the execution that pays back through the channel and into the wallet.   *)
(*                                                                         *)
(* Every statement outside a transaction is a step of its own: Create is a *)
(* sequence of unlocked reads and an insert, execute claims the request,   *)
(* claims the payment, calls the channel, and settles in one transaction.  *)
(* What the settling transaction does to the order's services is           *)
(* Lifecycle's subject; the commission it reverses is left out.            *)
(***************************************************************************)
EXTENDS Integers, FiniteSets

CONSTANTS
    Orders,        \* paid orders of the customer
    Requests,      \* RefundRequest rows
    ByIntent,      \* orders paid by an intent of purpose "order"
    Channel,       \* Channel[o]: cents the channel collected for that intent
    Held,          \* Held[o]: cents taken from the wallet
    Faults         \* faults a run admits: a subset of {"crash", "rollback"}

ASSUME OrderAssumption == ByIntent \subseteq Orders
ASSUME CentsAssumption ==
    /\ Channel \in [Orders -> Nat] /\ Held \in [Orders -> Nat]
    /\ \A o \in Orders : Channel[o] + Held[o] > 0
    /\ \A o \in Orders \ ByIntent : Channel[o] = 0
ASSUME FaultAssumption == Faults \subseteq {"crash", "rollback"}

VARIABLES
    order,         \* orders.status
    payment,       \* external_payments.status of the order's intent
    request,       \* refund_requests.status
    of,            \* order_id
    via,           \* payment_id # 0: the request names the order's intent
    filing,        \* how far RefundService.Create got
    caller,        \* a handler is about to call execute
    step,          \* how far execute got
    repaid,        \* payouts the channel made for the order (outside)
    credited,      \* cents refunds put into the wallet, by order
    crashed        \* the process died at some time

rowVars == <<of, via, crashed>>
moneyVars == <<order, payment, repaid, credited>>
vars == <<order, payment, request, of, via, filing, caller, step, repaid, credited,
          crashed>>

Statuses == {"none", "pending", "approved", "rejected", "canceled",
             "processing", "failed", "refunded"}
InProgress == {"pending", "approved", "processing"}
Executable == {"pending", "approved", "failed"}

TypeOK ==
    /\ order \in [Orders -> {"paid", "refunded"}]
    /\ payment \in [Orders -> {"paid", "refunding", "refunded"}]
    /\ request \in [Requests -> Statuses]
    /\ of \in [Requests -> Orders]
    /\ via \in [Requests -> BOOLEAN]
    /\ filing \in [Requests -> {"none", "resolved", "found", "checked", "done"}]
    /\ caller \in [Requests -> BOOLEAN]
    /\ step \in [Requests -> {"idle", "claimed", "calling", "settling",
                              "releasing", "failing", "uncertain"}]
    /\ repaid \in [Orders -> Nat]
    /\ credited \in [Orders -> Nat]
    /\ crashed \in BOOLEAN

Init ==
    /\ order = [o \in Orders |-> "paid"]
    /\ payment = [o \in Orders |-> "paid"]
    /\ request = [r \in Requests |-> "none"]
    /\ of \in [Requests -> Orders]
    /\ via = [r \in Requests |-> FALSE]
    /\ filing = [r \in Requests |-> "none"]
    /\ caller = [r \in Requests |-> FALSE]
    /\ step = [r \in Requests |-> "idle"]
    /\ repaid = [o \in Orders |-> 0]
    /\ credited = [o \in Orders |-> 0]
    /\ crashed = FALSE

Total(o) == Channel[o] + Held[o]
Move(r, s) == step' = [step EXCEPT ![r] = s]
Become(r, s) == request' = [request EXCEPT ![r] = s]

ThroughChannel(r) == via[r] /\ Channel[of[r]] > 0

\* Mutant: the wallet gets the whole total whatever the channel returns.
BalancePartTotal(r) == Total(of[r])

\* What goes back to the wallet: the deduction, or all of it without an intent.
BalancePart(r) == IF via[r] THEN Held[of[r]] ELSE Total(of[r])

-----------------------------------------------------------------------------
(* RefundService.Create: reads without a lock, then the insert.            *)

ResolveOrder(r) ==
    /\ filing[r] = "none" /\ order[of[r]] = "paid"
    /\ filing' = [filing EXCEPT ![r] = "resolved"]
    /\ UNCHANGED <<moneyVars, request, rowVars, caller, step>>

\* An intent is found only while it is `paid`; otherwise the order is taken
\* for one that the wallet paid.
FindPayment(r) ==
    /\ filing[r] = "resolved"
    /\ via' = [via EXCEPT ![r] = of[r] \in ByIntent /\ payment[of[r]] = "paid"]
    /\ filing' = [filing EXCEPT ![r] = "found"]
    /\ UNCHANGED <<moneyVars, request, of, crashed, caller, step>>

\* Requests on the same intent if there is one, on the same order if not.
Duplicates(r) ==
    {q \in Requests : /\ request[q] \in InProgress /\ of[q] = of[r]
                      /\ via[r] => via[q]}

CheckDuplicates(r) ==
    /\ filing[r] = "found" /\ Duplicates(r) = {}
    /\ filing' = [filing EXCEPT ![r] = "checked"]
    /\ UNCHANGED <<moneyVars, request, rowVars, caller, step>>

\* evaluatePolicy: configuration and age decide whether execute follows.
File(r) ==
    /\ filing[r] = "checked"
    /\ filing' = [filing EXCEPT ![r] = "done"]
    /\ Become(r, "pending")
    /\ \E auto \in BOOLEAN : caller' = [caller EXCEPT ![r] = auto]
    /\ UNCHANGED <<moneyVars, rowVars, step>>

-----------------------------------------------------------------------------
(* Cancel, Review and RetryFailed.                                         *)

Cancel(r) ==
    /\ request[r] = "pending"
    /\ Become(r, "canceled")
    /\ UNCHANGED <<moneyVars, rowVars, filing, caller, step>>

Review(r) ==
    /\ request[r] = "pending"
    /\ \/ Become(r, "rejected") /\ UNCHANGED caller
       \/ Become(r, "approved") /\ caller' = [caller EXCEPT ![r] = TRUE]
    /\ UNCHANGED <<moneyVars, rowVars, filing, step>>

RetryFailed(r) ==
    /\ request[r] = "failed" /\ ~caller[r]
    /\ caller' = [caller EXCEPT ![r] = TRUE]
    /\ UNCHANGED <<moneyVars, request, rowVars, filing, step>>

-----------------------------------------------------------------------------
(* RefundService.execute.                                                  *)

\* Mutant: the claim forgets the statuses it may start from.
ClaimAnyRequest(r) ==
    /\ caller[r]
    /\ caller' = [caller EXCEPT ![r] = FALSE]
    /\ Become(r, "processing") /\ Move(r, "claimed")
    /\ UNCHANGED <<moneyVars, rowVars, filing>>

\* The request-level claim; a caller that loses it returns.
ClaimRequest(r) ==
    /\ caller[r]
    /\ caller' = [caller EXCEPT ![r] = FALSE]
    /\ IF request[r] \in Executable
       THEN Become(r, "processing") /\ Move(r, "claimed")
       ELSE UNCHANGED <<request, step>>
    /\ UNCHANGED <<moneyVars, rowVars, filing>>

\* Mutant: the loser of the payment claim stays in `processing`.
ClaimPaymentAndStay(r) ==
    /\ step[r] = "claimed" /\ ThroughChannel(r)
    /\ IF payment[of[r]] = "paid"
       THEN payment' = [payment EXCEPT ![of[r]] = "refunding"] /\ Move(r, "calling")
       ELSE UNCHANGED payment /\ Move(r, "idle")
    /\ UNCHANGED <<order, repaid, credited, request, rowVars, filing, caller>>

\* paid -> refunding before money leaves; the loser's request becomes `failed`.
ClaimPayment(r) ==
    /\ step[r] = "claimed" /\ ThroughChannel(r)
    /\ IF payment[of[r]] = "paid"
       THEN /\ payment' = [payment EXCEPT ![of[r]] = "refunding"]
            /\ Move(r, "calling") /\ UNCHANGED request
       ELSE /\ Move(r, "idle") /\ Become(r, "failed") /\ UNCHANGED payment
    /\ UNCHANGED <<order, repaid, credited, rowVars, filing, caller>>

SkipChannel(r) ==
    /\ step[r] = "claimed" /\ ~ThroughChannel(r)
    /\ Move(r, "settling")
    /\ UNCHANGED <<moneyVars, request, rowVars, filing, caller>>

ChannelPays(o) == repaid' = [repaid EXCEPT ![o] = @ + 1]

ChannelAccepts(r) ==
    /\ step[r] = "calling"
    /\ ChannelPays(of[r]) /\ Move(r, "settling")
    /\ UNCHANGED <<order, payment, credited, request, rowVars, filing, caller>>

\* Refused, or the plugin does not implement refunds.
ChannelRefuses(r) ==
    /\ step[r] = "calling"
    /\ Move(r, "releasing")
    /\ UNCHANGED <<moneyVars, request, rowVars, filing, caller>>

\* Mutant: an error of the call is taken for a refusal.
ReplyLostIsRefusal(r) ==
    /\ step[r] = "calling"
    /\ ChannelPays(of[r]) \/ UNCHANGED repaid
    /\ Move(r, "releasing")
    /\ UNCHANGED <<order, payment, credited, request, rowVars, filing, caller>>

\* No reply: the payout may have happened.  Both claims are kept.
ReplyLost(r) ==
    /\ step[r] = "calling"
    /\ ChannelPays(of[r]) \/ UNCHANGED repaid
    /\ Move(r, "uncertain")
    /\ UNCHANGED <<order, payment, credited, request, rowVars, filing, caller>>

\* Mutant: the payment is released into a status it must not have.
ReleaseAsFailed(r) ==
    /\ step[r] = "releasing"
    /\ payment' = [payment EXCEPT ![of[r]] = "failed"]
    /\ Move(r, "failing")
    /\ UNCHANGED <<order, repaid, credited, request, rowVars, filing, caller>>

ReleasePayment(r) ==
    /\ step[r] = "releasing"
    /\ payment' = [payment EXCEPT ![of[r]] = "paid"]
    /\ Move(r, "failing")
    /\ UNCHANGED <<order, repaid, credited, request, rowVars, filing, caller>>

\* Mutant: the order is not claimed, only overwritten.
SettleAnyOrder(r) ==
    /\ step[r] = "settling"
    /\ order' = [order EXCEPT ![of[r]] = "refunded"]
    /\ credited' = [credited EXCEPT ![of[r]] = @ + BalancePart(r)]
    /\ payment' = IF ThroughChannel(r)
                  THEN [payment EXCEPT ![of[r]] = "refunded"] ELSE payment
    /\ Become(r, "refunded") /\ Move(r, "idle")
    /\ UNCHANGED <<repaid, rowVars, filing, caller>>

\* One transaction: request, wallet, order (which must still be paid), payment.
Settle(r) ==
    /\ step[r] = "settling" /\ order[of[r]] = "paid"
    /\ order' = [order EXCEPT ![of[r]] = "refunded"]
    /\ credited' = [credited EXCEPT ![of[r]] = @ + BalancePart(r)]
    /\ payment' = IF ThroughChannel(r)
                  THEN [payment EXCEPT ![of[r]] = "refunded"] ELSE payment
    /\ Become(r, "refunded") /\ Move(r, "idle")
    /\ UNCHANGED <<repaid, rowVars, filing, caller>>

\* The transaction rolls back: another request has closed the order, or the
\* database failed.  The payment claim is not released.
SettleFails(r) ==
    /\ step[r] = "settling"
    /\ order[of[r]] # "paid" \/ "rollback" \in Faults
    /\ Move(r, "failing")
    /\ UNCHANGED <<moneyVars, request, rowVars, filing, caller>>

ReportFailure(r) ==
    /\ step[r] = "failing"
    /\ Become(r, "failed") /\ Move(r, "idle")
    /\ UNCHANGED <<moneyVars, rowVars, filing, caller>>

\* The process dies: handlers are gone, rows stay.
Crash ==
    /\ "crash" \in Faults /\ crashed' = TRUE
    /\ caller' = [r \in Requests |-> FALSE]
    /\ step' = [r \in Requests |-> "idle"]
    /\ filing' = [r \in Requests |->
          IF filing[r] = "done" THEN "done" ELSE "none"]
    /\ UNCHANGED <<moneyVars, request, of, via>>

-----------------------------------------------------------------------------
Filing(r) == ResolveOrder(r) \/ FindPayment(r) \/ CheckDuplicates(r) \/ File(r)

Staff(r) == Cancel(r) \/ Review(r) \/ RetryFailed(r)

\* The steps the program takes by itself once execute runs.
Execute(r) ==
    \/ ClaimRequest(r) \/ ClaimPayment(r) \/ SkipChannel(r)
    \/ ReleasePayment(r) \/ Settle(r) \/ SettleFails(r) \/ ReportFailure(r)

ChannelReply(r) == ChannelAccepts(r) \/ ChannelRefuses(r) \/ ReplyLost(r)

Next ==
    \/ \E r \in Requests : Filing(r) \/ Staff(r) \/ Execute(r) \/ ChannelReply(r)
    \/ Crash

Spec == Init /\ [][Next]_vars

\* A handler runs on, and a call to the channel ends: with a reply or an error.
FairSpec ==
    /\ Spec
    /\ \A r \in Requests : WF_vars(Execute(r)) /\ WF_vars(ChannelReply(r))

-----------------------------------------------------------------------------
(* Properties.                                                             *)

\* The channel pays a payment back at most once, whatever requests, retries,
\* refusals and lost replies there are (the claim paid -> refunding in execute).
ChannelPaysOnce == \A o \in Orders : repaid[o] <= 1

\* The wallet is credited by at most one request, and never more than the
\* order's total.
WalletCreditedOnce ==
    \A o \in Orders :
       /\ credited[o] <= Total(o)
       /\ \A q, r \in Requests :
             request[q] = "refunded" /\ request[r] = "refunded"
                /\ of[q] = o /\ of[r] = o => q = r

\* An order is refunded exactly when one of its requests is, and all that was
\* paid for it has then gone back the way it came.
RefundedTogether ==
    \A o \in Orders :
       LET Settled == {r \in Requests : of[r] = o /\ request[r] = "refunded"} IN
       /\ order[o] = "refunded" <=> Settled # {}
       /\ \A r \in Settled :
             /\ credited[o] + (IF via[r] THEN Channel[o] ELSE 0) = Total(o)
             /\ via[r] /\ Channel[o] > 0 => repaid[o] = 1

\* A refunded order is never refunded again and no final verdict on a request
\* is taken back.
VerdictsStand ==
    [][/\ \A o \in Orders : order[o] = "refunded" => order'[o] = "refunded"
       /\ \A r \in Requests : request[r] \in {"rejected", "canceled", "refunded"}
                                 => request'[r] = request[r]]_vars

\* What the invariants above need to be inductive.  Rows and handlers belong
\* together, at most one handler drives the channel for an order and only under
\* the payment's claim, and nothing has been repaid while the payment is `paid`.
Drives(r) ==
    \/ step[r] \in {"calling", "releasing"}
    \/ step[r] = "settling" /\ ThroughChannel(r)

HandlersConsistent ==
    \A r \in Requests :
       /\ filing[r] = "done" <=> request[r] # "none"
       /\ caller[r] => request[r] # "none"
       /\ step[r] # "idle" => request[r] = "processing"

DriversHoldClaim ==
    \A r \in Requests : Drives(r) =>
       /\ ThroughChannel(r) /\ payment[of[r]] = "refunding"
       /\ repaid[of[r]] = IF step[r] = "settling" THEN 1 ELSE 0

OneDriver ==
    \A q, r \in Requests : Drives(q) /\ Drives(r) /\ of[q] = of[r] => q = r

NothingSpentYet ==
    \A o \in Orders :
       /\ payment[o] = "paid" => repaid[o] = 0
       /\ order[o] = "paid" => credited[o] = 0

PayoutsConsistent == DriversHoldClaim /\ OneDriver /\ NothingSpentYet

IInv ==
    /\ TypeOK
    /\ ChannelPaysOnce /\ WalletCreditedOnce /\ RefundedTogether
    /\ HandlersConsistent /\ PayoutsConsistent

\* Losing the race for the payment must not wedge a request (refund.go:503): what
\* execute began comes to a verdict, unless the channel's answer is lost, the process
\* dies, or the database fails a single statement (refund.go:499-501, 532-536), which
\* leaves the rows as a death at that statement does.
NoWedge ==
    \A r \in Requests :
       step[r] = "claimed"
          ~> request[r] # "processing" \/ step[r] = "uncertain" \/ crashed

\* refund.go:32-33: the wallet part is booked so that the customer never gets
\* the money twice, through the channel and into the balance.
NotRepaidTwice ==
    \A o \in Orders : repaid[o] * Channel[o] + credited[o] <= Total(o)
=============================================================================
