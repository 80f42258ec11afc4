------------------------------- MODULE TrafficPack -----------------------------
(***************************************************************************)
(* Traffic packages of one service (service/billing.go: CreateTraffic-     *)
(* Invoice, settleTrafficInvoiceTx, ReconcileTrafficUpstream;              *)
(* service/payment.go: settleInvoiceTx, SettleInvoice).                    *)
(*                                                                         *)
(* An invoice is a package if its lines say so; it is inserted before its  *)
(* line is.  Its payment is one transaction under the lock of the payer.   *)
(* The upstream is told the total, read when the call is made, in a call   *)
(* that nothing orders.                                                    *)
(***************************************************************************)
EXTENDS Integers, FiniteSets, Functions

CONSTANTS
    PackInvoices,   \* invoices that requests may create
    PackRequests,   \* requests that create one
    Notices,        \* calls to the upstream
    Sizes,          \* gigabytes one may ask for
    PackPrices,     \* prices of a step
    PackSteps,      \* gigabytes of a step
    MaxPriceEdits   \* bound on changes of the price

ASSUME TrafficPackAssumption ==
    /\ Sizes \subseteq Nat \ {0} /\ PackPrices \subseteq Nat \ {0} /\ PackSteps \subseteq Nat \ {0}
    /\ MaxPriceEdits \in Nat /\ "none" \notin PackInvoices
    /\ IsFiniteSet(PackInvoices) /\ IsFiniteSet(PackRequests)

VARIABLES
    pack,           \* the invoices
    asking,         \* each request and what it read
    packPrice,      \* the price in force: cents a step, and the step
    priceEdits,     \* changes of the price
    extraGB,        \* the service's traffic_extra_gb
    periods,        \* periods the service was extended by
    notice,         \* each call and the total it carries
    toldGB          \* the total the upstream has

packVars == <<pack, asking, packPrice, priceEdits, extraGB, periods, notice, toldGB>>

NoPack == [status |-> "none", line |-> FALSE, gb |-> 0, cents |-> 0, paidAs |-> "none"]
NotAsking == [at |-> "idle", gb |-> 0, cents |-> 0, inv |-> "none"]

TrafficPackTypeOK ==
    /\ pack \in [PackInvoices -> [status : {"none", "unpaid", "paid"}, line : BOOLEAN, gb : Nat,
                                  cents : Nat, paidAs : {"none", "package", "renewal"}]]
    /\ asking \in [PackRequests -> [at : {"idle", "priced", "checked", "inserted"}, gb : Nat,
                                    cents : Nat, inv : PackInvoices \cup {"none"}]]
    /\ packPrice \in [cents : PackPrices, step : PackSteps] /\ priceEdits \in 0..MaxPriceEdits
    /\ extraGB \in Nat /\ periods \in Nat /\ toldGB \in Nat
    /\ notice \in [Notices -> Nat]

TrafficPackInit ==
    /\ pack = [i \in PackInvoices |-> NoPack] /\ asking = [r \in PackRequests |-> NotAsking]
    /\ packPrice \in [cents : PackPrices, step : PackSteps] /\ priceEdits = 0
    /\ extraGB = 0 /\ periods = 0 /\ toldGB = 0 /\ notice = [n \in Notices |-> 0]

IsTrafficInvoice(inv) == inv.line
UnpaidPackages == {i \in PackInvoices : pack[i].status = "unpaid" /\ IsTrafficInvoice(pack[i])}

\* trafficUnitPrice: whole steps only.
Aligned(gb) == gb % packPrice.step = 0
DueCents(gb) == (gb \div packPrice.step) * packPrice.cents

StopsAsking(r) == asking' = [asking EXCEPT ![r] = NotAsking]

-----------------------------------------------------------------------------
PricePack(r, gb) ==
    /\ asking[r].at = "idle" /\ Aligned(gb)
    /\ asking' = [asking EXCEPT ![r] = [at |-> "priced", gb |-> gb, cents |-> DueCents(gb), inv |-> "none"]]
    /\ UNCHANGED <<pack, packPrice, priceEdits, extraGB, periods, notice, toldGB>>

\* Mutant: an invoice that is already there is no obstacle.
NeverRefused == TRUE
NoneUnpaid == UnpaidPackages = {}

CheckUnpaid(r) ==
    /\ asking[r].at = "priced"
    /\ IF NoneUnpaid THEN asking' = [asking EXCEPT ![r].at = "checked"] ELSE StopsAsking(r)
    /\ UNCHANGED <<pack, packPrice, priceEdits, extraGB, periods, notice, toldGB>>

InsertInvoice(r, i) ==
    /\ asking[r].at = "checked" /\ pack[i].status = "none"
    /\ pack' = [pack EXCEPT ![i] = [NoPack EXCEPT !.status = "unpaid", !.gb = asking[r].gb,
                                                  !.cents = asking[r].cents]]
    /\ asking' = [asking EXCEPT ![r].at = "inserted", ![r].inv = i]
    /\ UNCHANGED <<packPrice, priceEdits, extraGB, periods, notice, toldGB>>

InsertLine(r) ==
    /\ asking[r].at = "inserted"
    /\ pack' = [pack EXCEPT ![asking[r].inv].line = TRUE]
    /\ StopsAsking(r)
    /\ UNCHANGED <<packPrice, priceEdits, extraGB, periods, notice, toldGB>>

\* The process dies, or a statement fails: what was written before stays.
PackDies(r) ==
    /\ asking[r].at \in {"checked", "inserted"}
    /\ StopsAsking(r)
    /\ UNCHANGED <<pack, packPrice, priceEdits, extraGB, periods, notice, toldGB>>

EditPrice(cents, step) ==
    /\ priceEdits < MaxPriceEdits
    /\ packPrice' = [cents |-> cents, step |-> step] /\ priceEdits' = priceEdits + 1
    /\ UNCHANGED <<pack, asking, extraGB, periods, notice, toldGB>>

-----------------------------------------------------------------------------
\* The price is looked at again.
\* Mutant: the step alone is.
StepInForce(inv) == Aligned(inv.gb)
InForce(inv) == Aligned(inv.gb) /\ inv.cents = DueCents(inv.gb)

\* settleInvoiceTx: a package is told from a renewal by its line.
SettlePackage(i) ==
    /\ pack[i].status = "unpaid" /\ IsTrafficInvoice(pack[i]) /\ InForce(pack[i])
    /\ pack' = [pack EXCEPT ![i].status = "paid", ![i].paidAs = "package"]
    /\ extraGB' = extraGB + pack[i].gb
    /\ UNCHANGED <<asking, packPrice, priceEdits, periods, notice, toldGB>>

\* An invoice of a service that has no line is settled as a renewal.
SettleAsRenewal(i) ==
    /\ pack[i].status = "unpaid" /\ ~IsTrafficInvoice(pack[i])
    /\ pack' = [pack EXCEPT ![i].status = "paid", ![i].paidAs = "renewal"]
    /\ periods' = periods + 1
    /\ UNCHANGED <<asking, packPrice, priceEdits, extraGB, notice, toldGB>>

\* ReconcileTrafficUpstream reads the total and calls; it is never repeated.
CallUpstream(n) ==
    /\ notice[n] = 0 /\ \E i \in PackInvoices : pack[i].paidAs = "package"
    /\ notice' = [notice EXCEPT ![n] = extraGB]
    /\ UNCHANGED <<pack, asking, packPrice, priceEdits, extraGB, periods, toldGB>>

\* A call that fails leaves a note for the staff.
CallEnds(n, heard) ==
    /\ notice[n] # 0
    /\ toldGB' = IF heard THEN notice[n] ELSE toldGB
    /\ notice' = [notice EXCEPT ![n] = 0]
    /\ UNCHANGED <<pack, asking, packPrice, priceEdits, extraGB, periods>>

TrafficPackNext ==
    \/ \E r \in PackRequests, gb \in Sizes : PricePack(r, gb)
    \/ \E r \in PackRequests : CheckUnpaid(r)
    \/ \E r \in PackRequests, i \in PackInvoices : InsertInvoice(r, i)
    \/ \E r \in PackRequests : InsertLine(r)
    \/ \E r \in PackRequests : PackDies(r)
    \/ \E c \in PackPrices, s \in PackSteps : EditPrice(c, s)
    \/ \E i \in PackInvoices : SettlePackage(i)
    \/ \E i \in PackInvoices : SettleAsRenewal(i)
    \/ \E n \in Notices : CallUpstream(n)
    \/ \E n \in Notices, heard \in BOOLEAN : CallEnds(n, heard)

TrafficPackSpec == TrafficPackInit /\ [][TrafficPackNext]_packVars

-----------------------------------------------------------------------------
PaidGB == [i \in PackInvoices |-> IF pack[i].paidAs = "package" THEN pack[i].gb ELSE 0]
PaidAs(as) == {i \in PackInvoices : pack[i].paidAs = as}

(***************************************************************************)
(* The quota is what the paid packages bought, the upstream is never told  *)
(* more, and no more packages wait for payment than requests passed the    *)
(* check at once (billing.go:874 promises one; the check and the insertion *)
(* are apart).  A service is extended only by an invoice whose line was    *)
(* missing when it was paid (payment.go:411 takes it for a renewal).       *)
(***************************************************************************)
PacksBooked ==
    /\ extraGB = SumFunctionOnSet(PaidGB, PackInvoices)
    /\ toldGB <= extraGB /\ \A n \in Notices : notice[n] <= extraGB
    /\ periods = Cardinality(PaidAs("renewal"))
    /\ Cardinality(UnpaidPackages)
         + Cardinality({r \in PackRequests : asking[r].at \in {"checked", "inserted"}})
       <= Cardinality(PackRequests)

(***************************************************************************)
(* A package is settled at the price and the step in force, not at those   *)
(* of its creation (billing.go:966-985).                                   *)
(***************************************************************************)
PaidAtPriceInForce ==
    \A i \in PackInvoices : pack[i].status = "unpaid" /\ pack'[i].paidAs = "package"
        => pack[i].cents * packPrice.step = pack[i].gb * packPrice.cents
=============================================================================
