--------------------------- MODULE ServiceChange ---------------------------
(***************************************************************************)
(* Upgrades and downgrades of one service (service/service_change.go): the *)
(* quote, the reservation that takes the money and claims the service, the *)
(* RESIZE call, and the verdict that books what came of it. Renewals       *)
(* (service/billing.go, payment_target.go) buy time for the same service   *)
(* meanwhile.                                                              *)
(*                                                                         *)
(* A statement, a transaction or a call is a step, but for the transaction *)
(* of the reservation: it takes no lock before it reads the fence, which   *)
(* is a step of its own where the database lets others commit meanwhile.   *)
(* Time stands still: `expires` counts the billing cycles left, and        *)
(* proration charges the difference in price once for each. A handler is   *)
(* taken to need less than the lease of two hours, so only a dead          *)
(* handler's claim is taken over.                                          *)
(***************************************************************************)
EXTENDS Integers, FiniteSets, Functions

CONSTANTS
    Specs,         \* resources a service can have
    Product,       \* Product[s]: the product that offers them
    Price,         \* Price[s]: cents per billing cycle
    Changes,       \* ServiceChange rows, by idempotency key
    Workers,       \* request handlers
    NoChange,
    StartSpec, StartExpires, StartBalance,
    MaxExpires,    \* bound on renewals
    Serial,        \* one connection (SQLite): no transaction overlaps another
    Faulty         \* the database may fail and the process may die

ASSUME RowAssumption == IsFiniteSet(Changes)
ASSUME SpecAssumption == /\ StartSpec \in Specs /\ Price \in [Specs -> Nat \ {0}]
                         /\ NoChange \notin Changes
ASSUME StartAssumption == /\ StartExpires \in Nat \ {0} /\ MaxExpires \in Nat
                          /\ StartBalance \in Nat /\ {Serial, Faulty} \subseteq BOOLEAN

VARIABLES
    service,       \* the services row
    change,        \* the service_changes rows
    balance,       \* users.balance_cents
    renewals,      \* cents taken for renewals, by where they came from (history)
    offers,        \* unpaid renewal invoice and live renewal intent, by price
    machine,       \* the machine (outside)
    sent,          \* resizes the upstream may still carry out (outside)
    done,          \* resizes it has carried out, by operation id (outside)
    worker,        \* what each handler is about to do, and what it has read
    broken         \* the process died or the database failed (history)

outside == <<machine, sent, done>>
money == <<balance, renewals>>
changeVars == <<service, change, balance, renewals, offers, machine, sent, done,
                worker, broken>>

Offers == {"invoice", "intent"}
Statuses == {"none", "reserved", "applying", "uncertain", "applied", "failed"}
Undecided == {"reserved", "applying", "uncertain"}
Steps == {"idle", "look", "quote", "reserve", "fenced", "claim", "observe", "resize",
          "check", "applied", "rejected", "uncertain"}

Unfiled == [status |-> "none", from |-> StartSpec, to |-> StartSpec, price |-> 0,
            charge |-> 0, credit |-> 0]
Idle == [at |-> "idle", change |-> NoChange, first |-> FALSE, active |-> TRUE,
         expires |-> 0, product |-> Product[StartSpec], quoted |-> Unfiled]

Rows == [status : Statuses, from : Specs, to : Specs, price : Nat,
         charge : Nat, credit : Nat]

Handlers == [at : Steps, change : Changes \cup {NoChange}, first : BOOLEAN,
             active : BOOLEAN, expires : Nat, product : {Product[s] : s \in Specs},
             quoted : Rows]

ChangeTypeOK ==
    /\ service \in [spec : Specs, price : Nat, expires : Nat, active : BOOLEAN,
                    pending : Changes \cup {NoChange}]
    /\ change \in [Changes -> Rows]
    /\ balance \in Nat /\ renewals \in [{"wallet", "channel"} -> Nat]
    /\ offers \in [Offers -> Nat]
    /\ machine \in [spec : Specs, stopped : BOOLEAN]
    /\ sent \subseteq Changes /\ done \subseteq Changes
    /\ worker \in [Workers -> Handlers]
    /\ broken \in BOOLEAN

ChangeInit ==
    /\ service = [spec |-> StartSpec, price |-> Price[StartSpec],
                  expires |-> StartExpires, active |-> TRUE, pending |-> NoChange]
    /\ change = [c \in Changes |-> Unfiled]
    /\ balance = StartBalance /\ renewals = [from \in {"wallet", "channel"} |-> 0]
    /\ offers = [k \in Offers |-> 0]
    /\ machine = [spec |-> StartSpec, stopped |-> TRUE]
    /\ sent = {} /\ done = {}
    /\ worker = [w \in Workers |-> Idle]
    /\ broken = FALSE

Becomes(w, handler) == worker' = [worker EXCEPT ![w] = handler]
Ends(w) == Becomes(w, Idle)
Goes(w, from, to) == /\ worker[w].at = from
                     /\ Becomes(w, [worker[w] EXCEPT !.at = to])
Subject(w) == change[worker[w].change]
Row(c, status) == change' = [change EXCEPT ![c] = [change[c] EXCEPT !.status = status]]

-----------------------------------------------------------------------------
(* ServiceChangeService.Change, up to the reservation.                     *)

\* Mutant: only unpaid invoices are looked for, not live intents.
FencedByInvoice == offers["invoice"] # 0

\* fenceChangeOnBilling: a renewal at the present price is still open.
Fenced == \E k \in Offers : offers[k] # 0

\* The request names the key and the target; a known key is answered at once.
Begin(w, c, to) ==
    /\ worker[w] = Idle /\ change[c].status = "none" /\ ~Fenced
    /\ Becomes(w, [Idle EXCEPT !.at = "look", !.change = c, !.active = service.active,
                               !.expires = service.expires, !.product = Product[service.spec],
                               !.quoted = [Unfiled EXCEPT !.to = to]])
    /\ UNCHANGED <<service, change, money, offers, outside, broken>>

\* The machine must be off; its resources are what a retry compares with.
Look(w) ==
    /\ worker[w].at = "look" /\ machine.stopped
    /\ Becomes(w, [worker[w] EXCEPT !.at = "quote",
                      !.quoted = [worker[w].quoted EXCEPT !.from = machine.spec]])
    /\ UNCHANGED <<service, change, money, offers, outside, broken>>

Positive(n) == IF n > 0 THEN n ELSE 0

\* Mutant: the difference is charged for one cycle only.
ProratedOnce(difference) == Positive(difference)

\* quote: the difference in price, for every cycle paid in advance.
Prorated(difference) == Positive(difference) * service.expires

\* Preview reads the row again and prices the change from it.
Quote(w) ==
    LET quoted == worker[w].quoted  price == Price[quoted.to] IN
    /\ worker[w].at = "quote" /\ service.active
    /\ Becomes(w, [worker[w] EXCEPT !.at = "reserve",
                      !.quoted = [quoted EXCEPT !.price = price,
                                    !.charge = Prorated(price - service.price),
                                    !.credit = Prorated(service.price - price)]])
    /\ UNCHANGED <<service, change, money, offers, outside, broken>>

\* The transaction begins: a renewal offered since the request came is seen.
FenceAgain(w) ==
    /\ ~Fenced /\ Goes(w, "reserve", "fenced")
    /\ UNCHANGED <<service, change, money, offers, outside, broken>>

\* Mutant: the balance is trusted to be what it was.
MayReserveUnfunded(w) ==
    /\ (Serial => ~Fenced) /\ change[worker[w].change].status = "none"
    /\ service.pending = NoChange
    /\ service.active = worker[w].active /\ service.expires = worker[w].expires
    /\ Product[service.spec] = worker[w].product

\* Mutant: the claim does not ask for change_pending_id IS NULL.
MayReserveOver(w) ==
    LET quoted == worker[w].quoted IN
    /\ (Serial => ~Fenced) /\ change[worker[w].change].status = "none"
    /\ service.active = worker[w].active /\ service.expires = worker[w].expires
    /\ Product[service.spec] = worker[w].product
    /\ quoted.charge <= balance

\* The rest of it succeeds: unique key, claim, deduction.
MayReserveChange(w) ==
    LET quoted == worker[w].quoted IN
    /\ (Serial => ~Fenced) /\ change[worker[w].change].status = "none"
    /\ service.pending = NoChange
    /\ service.active = worker[w].active /\ service.expires = worker[w].expires
    /\ Product[service.spec] = worker[w].product
    /\ quoted.charge <= balance

ReserveChange(w) ==
    LET c == worker[w].change  quoted == worker[w].quoted IN
    /\ worker[w].at = "fenced" /\ MayReserveChange(w)
    /\ change' = [change EXCEPT ![c] = [quoted EXCEPT !.status = "reserved"]]
    /\ service' = [service EXCEPT !.pending = c]
    /\ balance' = balance - quoted.charge
    /\ Becomes(w, [Idle EXCEPT !.at = "claim", !.change = c])
    /\ UNCHANGED <<renewals, offers, outside, broken>>

\* Any error before the reservation, or a client that goes away.
Abandon(w) ==
    /\ worker[w].at \in {"look", "quote", "reserve", "fenced", "claim"}
    /\ Ends(w)
    /\ UNCHANGED <<service, change, money, offers, outside, broken>>

-----------------------------------------------------------------------------
(* ServiceChangeService.Retry: claim, observe, resize, observe, decide.    *)

Applying == {"observe", "resize", "check", "applied", "rejected", "uncertain"}
Holds(w, c) == worker[w].change = c /\ worker[w].at \in Applying
Held(c) == \E w \in Workers : Holds(w, c)

\* Mutant: a decided change is taken up again.
ClaimableAlways(c) == change[c].status # "none" /\ ~Held(c)

Claimable(c) ==
    /\ service.pending = c
    /\ \/ change[c].status \in {"reserved", "uncertain"}
       \/ change[c].status = "applying" /\ ~Held(c)

\* By the handler that reserved, or by a request to retry.
ClaimChange(w, c) ==
    /\ worker[w] = Idle \/ (worker[w].at = "claim" /\ worker[w].change = c)
    /\ Claimable(c)
    /\ Becomes(w, [Idle EXCEPT !.at = "observe", !.change = c,
                               !.first = (change[c].status = "reserved")])
    /\ Row(c, "applying")
    /\ UNCHANGED <<service, money, offers, outside, broken>>

\* Mutant: a machine found running releases the reservation at any attempt.
VerdictOfSightAnyTime(w) ==
    CASE machine.spec = Subject(w).to -> "applied"
      [] machine.spec # Subject(w).to /\ machine.spec # Subject(w).from -> "uncertain"
      [] OTHER -> IF machine.stopped THEN "resize" ELSE "rejected"

\* "Always observe before retrying": a resize whose reply was lost is seen.
VerdictOfSight(w) ==
    CASE machine.spec = Subject(w).to -> "applied"
      [] machine.spec # Subject(w).to /\ machine.spec # Subject(w).from -> "uncertain"
      [] OTHER -> IF machine.stopped THEN "resize"
                  ELSE IF worker[w].first THEN "rejected" ELSE "uncertain"

Observe(w) ==
    /\ Goes(w, "observe", VerdictOfSight(w)) \/ Goes(w, "observe", "uncertain")
    /\ UNCHANGED <<service, change, money, offers, outside, broken>>

CarryOut(c) ==
    /\ machine' = IF c \in done THEN machine ELSE [machine EXCEPT !.spec = change[c].to]
    /\ done' = done \cup {c} /\ sent' = sent \ {c}

\* RESIZE is done and says so; the reply is checked against the machine.
ResizeDone(w) ==
    /\ Goes(w, "resize", "check")
    /\ CarryOut(worker[w].change)
    /\ UNCHANGED <<service, change, money, offers, broken>>

\* The upstream takes the order and answers at once, or does not answer, or
\* never took it: any error but the two below leaves the outcome open.
ResizeOpen(w) ==
    /\ Goes(w, "resize", "check") \/ Goes(w, "resize", "uncertain")
    /\ sent' = sent \cup ({worker[w].change} \ done)
    /\ UNCHANGED <<service, change, money, offers, machine, done, broken>>

\* Mutant: any error is taken for a refusal.
ErrorIsRefusal(w) == Goes(w, "resize", "rejected")

\* InvalidArgument or Unimplemented: refused before anything was changed. The
\* upstream does not refuse an operation it has accepted.
Refusal(w) == /\ worker[w].change \notin sent \cup done
              /\ Goes(w, "resize", "rejected")

ResizeRefused(w) ==
    /\ Refusal(w)
    /\ UNCHANGED <<service, change, money, offers, outside, broken>>

Check(w) ==
    /\ worker[w].at = "check"
    /\ \/ machine.spec = Subject(w).to /\ Goes(w, "check", "applied")
       \/ Goes(w, "check", "uncertain")
    /\ UNCHANGED <<service, change, money, offers, outside, broken>>

\* The final transaction finds its claim.
MayDecide(w) == /\ Subject(w).status = "applying"
                /\ service.pending = worker[w].change

ChangeApplied(w) ==
    LET row == Subject(w) IN
    /\ worker[w].at = "applied" /\ MayDecide(w) /\ Ends(w)
    /\ Row(worker[w].change, "applied")
    /\ service' = [service EXCEPT !.pending = NoChange, !.spec = row.to,
                                  !.price = row.price]
    /\ balance' = balance + row.credit
    /\ UNCHANGED <<renewals, offers, outside, broken>>

\* Mutant: the reservation is not returned.
KeepReservation(row) == 0

Returned(row) == row.charge

ChangeRejected(w) ==
    LET row == Subject(w) IN
    /\ worker[w].at = "rejected" /\ MayDecide(w) /\ Ends(w)
    /\ Row(worker[w].change, "failed")
    /\ service' = [service EXCEPT !.pending = NoChange]
    /\ balance' = balance + Returned(row)
    /\ UNCHANGED <<renewals, offers, outside, broken>>

\* Mutant: the handler gives up without leaving the row to a retry.
DecisionFailsUnsaid(w) ==
    /\ worker[w].at \in {"applied", "rejected"} /\ Ends(w)
    /\ ~MayDecide(w) \/ Faulty
    /\ UNCHANGED <<service, change, money, offers, outside, broken>>

\* The transaction fails.
DecisionFails(w) ==
    /\ Goes(w, "applied", "uncertain") \/ Goes(w, "rejected", "uncertain")
    /\ ~MayDecide(w) \/ Faulty
    /\ UNCHANGED <<service, change, money, offers, outside, broken>>

\* The row waits for somebody to retry it.
Uncertain(w) ==
    /\ worker[w].at = "uncertain" /\ Ends(w)
    /\ IF Subject(w).status = "applying" THEN Row(worker[w].change, "uncertain")
                                         ELSE UNCHANGED change
    /\ UNCHANGED <<service, money, offers, outside, broken>>

-----------------------------------------------------------------------------
(* Renewals, the machine, and what goes wrong.                             *)

\* loadRenewableService and applyRenewalTx: no change is open.
BuyTime(from, cents) ==
    /\ service.pending = NoChange /\ service.expires < MaxExpires
    /\ service' = [service EXCEPT !.expires = @ + 1]
    /\ renewals' = [renewals EXCEPT ![from] = @ + cents]

\* Not while an intent is live (rejectPaymentIntentTx).
BuyFromWallet(cents) ==
    /\ offers["intent"] = 0 /\ BuyTime("wallet", cents)
    /\ cents <= balance /\ balance' = balance - cents
    /\ UNCHANGED <<change, outside, worker, broken>>

\* BillingService.Renew.
RenewNow == BuyFromWallet(service.price) /\ UNCHANGED offers

\* CreateRenewalInvoice, or CreatePayment of purpose "renewal".
OfferRenewal(k) ==
    /\ service.pending = NoChange /\ offers[k] = 0
    /\ k = "intent" => service.active
    /\ offers' = [offers EXCEPT ![k] = service.price]
    /\ UNCHANGED <<service, change, money, outside, worker, broken>>

\* SettleInvoice pays what the invoice says.
InvoicePaid ==
    /\ offers["invoice"] # 0
    /\ BuyFromWallet(offers["invoice"])
    /\ offers' = [offers EXCEPT !["invoice"] = 0]

\* The channel has collected what the intent asked for.
IntentPaid ==
    /\ offers["intent"] # 0 /\ BuyTime("channel", offers["intent"])
    /\ offers' = [offers EXCEPT !["intent"] = 0]
    /\ UNCHANGED <<change, balance, outside, worker, broken>>

\* The customer cancels it.
OfferDropped(k) ==
    /\ offers[k] # 0 /\ offers' = [offers EXCEPT ![k] = 0]
    /\ UNCHANGED <<service, change, money, outside, worker, broken>>

\* The customer turns the machine on and off. The patrol stops the service for
\* its traffic and lets it run again: renewals are taken all the same.
Power ==
    /\ machine' = [machine EXCEPT !.stopped = ~@]
    /\ UNCHANGED <<service, change, money, offers, sent, done, worker, broken>>

SwitchService ==
    /\ service' = [service EXCEPT !.active = ~@]
    /\ UNCHANGED <<change, money, offers, outside, worker, broken>>

\* An order the upstream took is carried out later, once per operation id.
Land(c) ==
    /\ c \in sent /\ CarryOut(c)
    /\ UNCHANGED <<service, change, money, offers, worker, broken>>

\* The process dies, or the last write of a handler fails.
Dies(w) ==
    /\ Faulty /\ worker[w] # Idle
    /\ Ends(w) /\ broken' = TRUE
    /\ UNCHANGED <<service, change, money, offers, outside>>

-----------------------------------------------------------------------------
Submit(w, c) == \/ \E to \in Specs : Begin(w, c, to)
                \/ ClaimChange(w, c)

Reply(w) == Observe(w) \/ ResizeDone(w) \/ ResizeOpen(w) \/ ResizeRefused(w) \/ Check(w)
Decide(w) == ChangeApplied(w) \/ ChangeRejected(w) \/ DecisionFails(w) \/ Uncertain(w)

Handle(w) == Look(w) \/ Quote(w) \/ FenceAgain(w) \/ ReserveChange(w) \/ Abandon(w)

ChangeNext ==
    \/ \E w \in Workers : Handle(w) \/ Reply(w) \/ Decide(w) \/ Dies(w)
                          \/ \E c \in Changes : Submit(w, c)
    \/ \E k \in Offers : OfferRenewal(k) \/ OfferDropped(k)
    \/ \E c \in Changes : Land(c)
    \/ RenewNow \/ InvoicePaid \/ IntentPaid \/ Power \/ SwitchService

ChangeSpec == ChangeInit /\ [][ChangeNext]_changeVars

-----------------------------------------------------------------------------
(* Properties.                                                             *)

\* The service is claimed by a change exactly as long as that change is open,
\* so at most one is: no second reservation slips in between the unlocked
\* checks and the transaction (change_pending_id in Change and finishChange).
OneOpenChange ==
    \A c \in Changes : change[c].status \in Undecided <=> service.pending = c

\* What each change has of the customer's money: an open one its charge, one that
\* was carried out what it costs or, less the credit, brings.
Taken == [c \in Changes |->
    IF change[c].status \in Undecided THEN change[c].charge
    ELSE IF change[c].status = "applied" THEN change[c].charge - change[c].credit ELSE 0]

\* The wallet is what the customer started with, less renewals and what changes
\* have taken: an open change holds its charge, one that is turned down gives
\* it back, one that is carried out keeps it or pays the credit, once, whoever
\* retries and whatever fails on the way (adjustBalance in Change, finishChange).
ChangesBooked == balance = StartBalance - renewals["wallet"] - SumFunctionOnSet(Taken, Changes)

\* A change that was turned down, and whose money went back, is not carried
\* out: neither by a lost reply nor by an order still under way (Retry).
FailedIsUndone == \A c \in Changes : change[c].status = "failed" => c \notin sent \cup done

\* With no change open, the machine has the resources the service is sold
\* with (observation before and after RESIZE, the verdicts of Retry).
MachineMatches == service.pending = NoChange => machine.spec = service.spec

\* Time is bought at the price in force and under no open change: no invoice or
\* intent from before a change is settled during or after it (fenceChangeOnBilling,
\* loadRenewableService).
NoOldPrice ==
    [][service'.expires > service.expires =>
          /\ service.pending = NoChange
          /\ \E from \in DOMAIN renewals :
                renewals' = [renewals EXCEPT ![from] = @ + service.price]]_changeVars

\* A verdict is final, and the terms of a change never move once it is filed.
DecisionsStand ==
    [][\A c \in Changes :
          /\ change[c].status \in {"applied", "failed"} => change'[c] = change[c]
          /\ change[c].status # "none" =>
                [change'[c] EXCEPT !.status = "none"] = [change[c] EXCEPT !.status = "none"]
      ]_changeVars

\* A change is not left "applying", where nobody may touch it for two hours,
\* by any handler that still runs: every way out of Retry decides it or opens it
\* to a retry (uncertain, finishChange).
ApplyingIsHeld ==
    \A c \in Changes : change[c].status = "applying" => Held(c) \/ broken

-----------------------------------------------------------------------------
(* What makes them inductive.                                              *)

\* A handler holds a claim alone, and only while the change is being applied.
ClaimsAreExclusive ==
    \A v, w \in Workers, c \in Changes :
        /\ Holds(w, c) => change[c].status = "applying"
        /\ Holds(v, c) /\ Holds(w, c) => v = w

\* Nothing was sent for a change nobody has taken up, nor for one that a
\* handler is about to turn down or sees for the first time.
NothingSent ==
    /\ \A c \in Changes : change[c].status \in {"none", "reserved", "failed"} => c \notin sent \cup done
    /\ \A w \in Workers :
          /\ worker[w].at = "rejected" => worker[w].change \notin sent \cup done
          /\ worker[w].at = "observe" /\ worker[w].first => worker[w].change \notin sent \cup done

\* Only the open change moves the machine, from what was sold to its target.
OneMoves ==
    /\ sent \cap done = {}
    /\ \A c \in Changes :
          /\ c \in sent => service.pending = c
          /\ service.pending = c =>
                /\ c \in sent \cup done => service.spec # change[c].to
                /\ machine.spec = IF c \in done THEN change[c].to ELSE service.spec
    /\ \A w \in Workers :
          /\ worker[w].at = "resize" => service.spec # change[worker[w].change].to
          /\ worker[w].at = "applied" => machine.spec = change[worker[w].change].to

\* Whoever has filed or claimed a change knows which.
WorkersKnow == \A w \in Workers : worker[w].at # "idle" => worker[w].change \in Changes

\* A renewal that may still be paid is one at the price in force.
OffersCurrent ==
    \A k \in Offers : offers[k] # 0 => offers[k] = service.price /\ service.pending = NoChange
=============================================================================
