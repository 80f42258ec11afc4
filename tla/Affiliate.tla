------------------------------ MODULE Affiliate ------------------------------
(***************************************************************************)
(* The referral programme (service/affiliate.go, affiliate_withdrawal.go): *)
(* one affiliate, the customer he refers, the commission on each of the    *)
(* customer's orders, its reversal by refunds, and withdrawals into his    *)
(* wallet.                                                                 *)
(*                                                                         *)
(* Every operation is one transaction: what several of them could see in   *)
(* common is decided by a conditional update or by the lock on the         *)
(* commission.                                                             *)
(***************************************************************************)
EXTENDS Integers, FiniteSets, Functions

CONSTANTS
    Sales,         \* orders of the referred customer
    Total,         \* Total[o]: cents paid for order o
    Rates,         \* rate_bps the administrator sets
    Claims,        \* withdrawal requests
    MinClaim       \* min_withdrawal_cents

ASSUME AffiliateAssumption ==
    /\ Total \in [Sales -> Nat] /\ Rates \subseteq 0..10000 /\ 500 \in Rates
    /\ MinClaim \in Nat \ {0} /\ IsFiniteSet(Sales) /\ IsFiniteSet(Claims)

VARIABLES
    scheme,        \* the settings: open or not, and the rate
    referral,      \* the affiliate has joined; the customer came by his code
    sale,          \* the order: paid or not, and cents of completed refunds
    commission,    \* the AffiliateCommission of each order
    account,       \* the Affiliate row
    claim,         \* the AffiliateWithdrawal rows
    payout         \* cents moved to the affiliate's wallet

affiliateVars == <<scheme, referral, sale, commission, account, claim, payout>>

AffiliateTypeOK ==
    /\ scheme \in [open : BOOLEAN, rate : Rates]
    /\ referral \in [joined : BOOLEAN, attached : BOOLEAN]
    /\ sale \in [Sales -> [paid : BOOLEAN, refunded : Nat]]
    /\ commission \in [Sales -> [amount : Nat, reversed : Nat]]
    /\ account \in [balance : Int, reserved : Nat, earned : Int]
    /\ claim \in [Claims -> [status : {"none", "pending", "approved", "rejected"}, cents : Nat]]
    /\ payout \in Nat

AffiliateInit ==
    /\ scheme = [open |-> FALSE, rate |-> 500]
    /\ referral = [joined |-> FALSE, attached |-> FALSE]
    /\ sale = [o \in Sales |-> [paid |-> FALSE, refunded |-> 0]]
    /\ commission = [o \in Sales |-> [amount |-> 0, reversed |-> 0]]
    /\ account = [balance |-> 0, reserved |-> 0, earned |-> 0]
    /\ claim = [w \in Claims |-> [status |-> "none", cents |-> 0]]
    /\ payout = 0

\* UpdateSettings.
SetScheme(open, rate) ==
    /\ scheme' = [open |-> open, rate |-> rate]
    /\ UNCHANGED <<referral, sale, commission, account, claim, payout>>

\* Join: a second call keeps the row.
JoinScheme ==
    /\ scheme.open /\ referral' = [referral EXCEPT !.joined = TRUE]
    /\ UNCHANGED <<scheme, sale, commission, account, claim, payout>>

\* attachAffiliateReferralTx: when the customer registers, before any order.
RegisterReferred ==
    /\ scheme.open /\ referral.joined /\ \A o \in Sales : ~sale[o].paid
    /\ referral' = [referral EXCEPT !.attached = TRUE]
    /\ UNCHANGED <<scheme, sale, commission, account, claim, payout>>

\* mulDivCents.
Share(amount, part, whole) == (amount * part) \div whole

Earns(o) == IF scheme.open /\ referral.attached THEN Share(Total[o], scheme.rate, 10000) ELSE 0

\* accrueAffiliateTx, in the transaction that marks the order paid.
SalePaid(o) ==
    /\ ~sale[o].paid
    /\ sale' = [sale EXCEPT ![o].paid = TRUE]
    /\ commission' = [commission EXCEPT ![o].amount = Earns(o)]
    /\ account' = [account EXCEPT !.balance = @ + Earns(o), !.earned = @ + Earns(o)]
    /\ UNCHANGED <<scheme, referral, claim, payout>>

\* Mutant: each refund reverses its own share, rounded by itself.
ReversalRounded(o, refund) == Share(commission[o].amount, refund, Total[o])

\* The reversal is what all completed refunds take, less what was taken before.
Reversal(o, refund) ==
    LET target == Share(commission[o].amount, sale[o].refunded + refund, Total[o])
    IN IF target > commission[o].reversed THEN target - commission[o].reversed ELSE 0

\* reverseAffiliateTx, in the transaction that completes the refund: the balance
\* may become a debt.
SaleRefunded(o, refund) ==
    /\ sale[o].paid /\ sale[o].refunded + refund <= Total[o]
    /\ sale' = [sale EXCEPT ![o].refunded = @ + refund]
    /\ commission' = [commission EXCEPT ![o].reversed = @ + Reversal(o, refund)]
    /\ account' = [account EXCEPT !.balance = @ - Reversal(o, refund),
                                  !.earned = @ - Reversal(o, refund)]
    /\ UNCHANGED <<scheme, referral, claim, payout>>

\* Withdraw: the update finds the balance or the request is refused.
Withdraw(w, cents) ==
    /\ claim[w].status = "none" /\ scheme.open /\ referral.joined
    /\ cents >= MinClaim /\ account.balance >= cents
    /\ claim' = [claim EXCEPT ![w] = [status |-> "pending", cents |-> cents]]
    /\ account' = [account EXCEPT !.balance = @ - cents, !.reserved = @ + cents]
    /\ UNCHANGED <<scheme, referral, sale, commission, payout>>

\* Mutant: a debt does not stand in the way of a payout.
PayableInDebt(w) == claim[w].status = "pending" /\ account.reserved >= claim[w].cents

Payable(w) == /\ claim[w].status = "pending" /\ account.reserved >= claim[w].cents
              /\ account.balance >= 0

\* Review, "approve": the reservation moves to the wallet.
ApproveClaim(w) ==
    /\ Payable(w)
    /\ claim' = [claim EXCEPT ![w].status = "approved"]
    /\ account' = [account EXCEPT !.reserved = @ - claim[w].cents]
    /\ payout' = payout + claim[w].cents
    /\ UNCHANGED <<scheme, referral, sale, commission>>

\* Review, "reject": it returns to the balance.
RejectClaim(w) ==
    /\ claim[w].status = "pending" /\ account.reserved >= claim[w].cents
    /\ claim' = [claim EXCEPT ![w].status = "rejected"]
    /\ account' = [account EXCEPT !.reserved = @ - claim[w].cents,
                                  !.balance = @ + claim[w].cents]
    /\ UNCHANGED <<scheme, referral, sale, commission, payout>>

AffiliateNext ==
    \/ \E open \in BOOLEAN, rate \in Rates : SetScheme(open, rate)
    \/ JoinScheme \/ RegisterReferred
    \/ \E o \in Sales : SalePaid(o) \/ \E refund \in 1..Total[o] : SaleRefunded(o, refund)
    \/ \E w \in Claims :
          \/ ApproveClaim(w) \/ RejectClaim(w)
          \/ \E cents \in MinClaim..account.balance : Withdraw(w, cents)

AffiliateSpec == AffiliateInit /\ [][AffiliateNext]_affiliateVars

-----------------------------------------------------------------------------
CommissionKept == [o \in Sales |-> commission[o].amount - commission[o].reversed]
ClaimAsked == [w \in Claims |-> IF claim[w].status = "pending" THEN claim[w].cents ELSE 0]

\* The account is the sum of its ledger: what is free, reserved and paid out is
\* what was earned, what was earned is the commissions less their reversals, and
\* what is reserved is what the open requests ask for.
AccountBooked ==
    /\ account.balance + account.reserved + payout = account.earned
    /\ account.earned = SumFunctionOnSet(CommissionKept, Sales)
    /\ account.reserved = SumFunctionOnSet(ClaimAsked, Claims)

\* However an order is refunded, in parts and in any order, the commission keeps
\* the share of what was not refunded, to the cent (cumulative reversal).
ReversedInProportion ==
    \A o \in Sales : sale[o].paid /\ Total[o] > 0 =>
        commission[o].reversed = Share(commission[o].amount, sale[o].refunded, Total[o])

\* No commission is paid out that a refund has taken back, although the refund may
\* come between the request and its review ("Refund debt blocks payout").
PayoutsEarned ==
    payout' > payout => payout' + account'.reserved <= account'.earned
=============================================================================
