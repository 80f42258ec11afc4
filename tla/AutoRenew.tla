------------------------------ MODULE AutoRenew ------------------------------
(***************************************************************************)
(* Automatic renewal of one service (service/renewal_scheduler.go,         *)
(* renewal_reconcile.go, auto_renew.go) beside renewals by its owner       *)
(* (service/billing.go).                                                   *)
(*                                                                         *)
(* The patrol charges for the next period in one transaction that files a  *)
(* RenewalEvent under the expiry it renews, and delivers filed events to   *)
(* the upstream afterwards, claiming each for the time of a call. The      *)
(* owner's renewal commits first and calls the upstream next, without an   *)
(* operation id, and takes over the date the upstream answers. Statements, *)
(* transactions and calls are steps. An event is listed, and claimed by    *)
(* the state and time it was listed with: here it is read when claimed.    *)
(* Prices are 1; the service is bound to an upstream.                      *)
(***************************************************************************)
EXTENDS Integers

CONSTANTS
    Sweepers,      \* patrols, one in each process on the database
    Owners,        \* the owner's requests
    Cycle, Window, \* billing cycle and auto_renew_window_hours, in ticks
    Due,           \* expires_at at the beginning
    Offered,       \* which of Bills may stand in the way
    MaxDate, MaxToday, MaxFunds, MaxTrouble    \* bounds

Bills == {"invoice", "intent", "change"}

ASSUME RenewalAssumption ==
    /\ Cycle \in Nat \ {0} /\ Window \in Nat /\ MaxDate \in Nat /\ MaxToday \in Nat /\ Due \in 0..MaxDate
    /\ MaxFunds \in Nat \ {0} /\ MaxTrouble \in Nat
    /\ Sweepers \cap Owners = {} /\ Offered \subseteq Bills

VARIABLES
    today,         \* time.Now(), in ticks
    rented,        \* the services row
    funds,         \* users.balance_cents, in periods
    event,         \* upstream_state of the `paid` RenewalEvent of each expiry
    leased,        \* `sending` events updated less than three minutes ago
    charged,       \* periods taken for each expiry by the patrol (history)
    reported,      \* expiries with a `failed` event: its owner has been told
    bills,         \* an unpaid renewal invoice, a live intent, a pending change
    provider,      \* the upstream: its due date and the operations it knows
    agent,         \* what each process is about to do
    trouble        \* failed calls and deaths so far

ledger == <<event, leased, charged, reported>>
world == <<today, bills, provider, trouble>>
renewalVars == <<today, rented, funds, event, leased, charged, reported, bills,
                 provider, agent, trouble>>

Expiries == 0..MaxDate
EventStates == {"none", "pending", "sending", "done", "failed"}
Workers == Sweepers \cup Owners
AgentSteps == {"idle", "charge", "events", "call", "ok", "error", "resume", "answer"}
Resting == [at |-> "idle", date |-> 0, expired |-> FALSE]

RenewalTypeOK ==
    /\ today \in 0..MaxToday /\ funds \in 0..MaxFunds
    /\ rented \in [status : {"active", "expired", "stopped"}, expires : Expiries, auto : BOOLEAN]
    /\ event \in [Expiries -> EventStates] /\ leased \subseteq Expiries
    /\ charged \in [Expiries -> Nat] /\ reported \subseteq Expiries
    /\ bills \subseteq Offered
    /\ provider \in [due : Nat, done : SUBSET Expiries]
    /\ agent \in [Workers -> [at : AgentSteps, date : Nat,
                             expired : BOOLEAN]]
    /\ trouble \in 0..MaxTrouble

RenewalInit ==
    /\ today = 0 /\ funds = MaxFunds /\ bills = {} /\ leased = {} /\ reported = {}
    /\ rented = [status |-> "active", expires |-> Due, auto |-> TRUE]
    /\ event = [e \in Expiries |-> "none"] /\ charged = [e \in Expiries |-> 0]
    /\ provider = [due |-> Due, done |-> {}]
    /\ agent = [a \in Workers |-> Resting]
    /\ trouble = 0

Delivering == [Resting EXCEPT !.at = "events"]
Does(a, next) == agent' = [agent EXCEPT ![a] = next]
Moves(a, from, to) == agent[a].at = from /\ Does(a, [agent[a] EXCEPT !.at = to])

-----------------------------------------------------------------------------
(* applyRenewalTx and the charge of one candidate.                         *)

Later(a, b) == IF a > b THEN a ELSE b

\* The period starts at the old expiry, or now where that has passed; a service
\* with an upstream stays stopped until the upstream lets it run.
Extend == /\ Later(today, rented.expires) + Cycle <= MaxDate
          /\ rented' = [rented EXCEPT !.expires = Later(today, rented.expires) + Cycle]

\* loadRenewableService: running, or stopped by the patrol; no change pending.
Renewable == rented.status \in {"active", "expired"} /\ "change" \notin bills

\* The list: flagged, not closed, due within the window.
Round(s) ==
    /\ agent[s].at = "idle"
    /\ Does(s, IF rented.auto /\ rented.expires <= today + Window
               THEN [Resting EXCEPT !.at = "charge", !.date = rented.expires]
               ELSE Delivering)
    /\ UNCHANGED <<rented, funds, ledger, world>>

\* Mutant: the unique key does not stop a second charge.
UnclaimedEver(s) == agent[s].date = rented.expires

\* The expiry is still the one listed, and its key is free.
Unclaimed(s) == agent[s].date = rented.expires /\ event[agent[s].date] = "none"

Chargeable(s) == Renewable /\ rented.auto /\ bills = {} /\ Unclaimed(s)

\* The transaction: event, deduction, new expiry, paid invoice.
ChargePeriod(s) ==
    LET e == agent[s].date IN
    /\ agent[s].at = "charge" /\ Does(s, Delivering) /\ Chargeable(s) /\ funds > 0
    /\ Extend /\ funds' = funds - 1
    /\ event' = [event EXCEPT ![e] = "pending"]
    /\ charged' = [charged EXCEPT ![e] = @ + 1]
    /\ UNCHANGED <<leased, reported, world>>

\* Nothing to do, or no money: the owner is told once for each expiry.
PassOver(s) ==
    LET e == agent[s].date IN
    /\ agent[s].at = "charge" /\ Does(s, Delivering) /\ ~(Chargeable(s) /\ funds > 0)
    /\ reported' = IF Chargeable(s) THEN reported \cup {e} ELSE reported
    /\ UNCHANGED <<rented, funds, event, leased, charged, world>>

-----------------------------------------------------------------------------
(* retryAutoRenewUpstream.                                                 *)

\* Mutant: an event left `sending` is never taken over.
DeliverableUnlessSending(e) == event[e] \in {"pending", "failed"}

Deliverable(e) == event[e] \in {"pending", "failed"} \/ (event[e] = "sending" /\ e \notin leased)

\* The events are taken in their order; `date` is where the round has got to.
Ahead(s) == {e \in Expiries : e >= agent[s].date /\ Deliverable(e)}

\* The claim, and the service read after it.
ClaimEvent(s) ==
    /\ agent[s].at = "events"
    /\ \E e \in Ahead(s) :
          /\ \A f \in Ahead(s) : e <= f
          /\ Does(s, [at |-> "call", date |-> e,
                      expired |-> rented.status = "expired"])
          /\ event' = [event EXCEPT ![e] = "sending"] /\ leased' = leased \cup {e}
    /\ UNCHANGED <<rented, funds, charged, reported, world>>

EndRound(s) ==
    /\ agent[s].at = "events" /\ Ahead(s) = {} /\ Does(s, Resting)
    /\ UNCHANGED <<rented, funds, ledger, world>>

\* RENEW under the event's key: the provider carries an operation out once.
CarriedOut(e) == IF e \in provider.done THEN provider
                 ELSE [due |-> provider.due + Cycle, done |-> provider.done \cup {e}]

Fails == trouble < MaxTrouble /\ trouble' = trouble + 1

RenewDone(s) ==
    /\ s \in Sweepers /\ Moves(s, "call", "ok")
    /\ provider' = CarriedOut(agent[s].date)
    /\ UNCHANGED <<today, rented, funds, ledger, bills, trouble>>

\* Refused, or carried out and the answer lost.
RenewFails(s) ==
    /\ s \in Sweepers /\ Moves(s, "call", "error") /\ Fails
    /\ provider' \in {provider, CarriedOut(agent[s].date)}
    /\ UNCHANGED <<today, rented, funds, ledger, bills>>

\* Mutant: whatever the call said, the event is closed.
OutcomeDone(s) == "done"

Outcome(s) == IF agent[s].at = "ok" THEN "done" ELSE "failed"

\* The verdict is written where the event is still `sending`, by whomever made it
\* so; a service found stopped for its expiry is resumed.
WriteOutcome(s) ==
    LET e == agent[s].date  well == agent[s].at = "ok" IN
    /\ s \in Sweepers /\ agent[s].at \in {"ok", "error"}
    /\ event' = IF event[e] = "sending" THEN [event EXCEPT ![e] = Outcome(s)] ELSE event
    /\ leased' = IF event[e] = "sending" THEN leased \ {e} ELSE leased
    /\ Does(s, [Delivering EXCEPT !.at = IF well /\ agent[s].expired THEN "resume" ELSE "events",
                                  !.date = e + 1])
    /\ UNCHANGED <<rented, funds, charged, reported, world>>

\* resumeSuspended: UNSUSPEND, then the row if it is stopped for the same reason.
Resume(a) ==
    /\ agent[a].at = "resume"
    /\ Does(a, IF a \in Sweepers THEN [agent[a] EXCEPT !.at = "events", !.expired = FALSE] ELSE Resting)
    /\ rented' \in {rented, IF rented.status = "expired"
                            THEN [rented EXCEPT !.status = "active"] ELSE rented}
    /\ UNCHANGED <<funds, ledger, world>>

-----------------------------------------------------------------------------
(* The owner.                                                              *)

\* Renew, settleRenewalInvoiceTx, RenewExternal: no live intent stands in the
\* way of the first, and the others consume what they pay.
Renew(b, how) ==
    /\ agent[b].at = "idle" /\ Renewable /\ Extend
    /\ CASE how = "wallet" -> funds > 0 /\ "intent" \notin bills
         [] how = "invoice" -> funds > 0 /\ "invoice" \in bills
         [] how = "intent" -> "intent" \in bills
    /\ funds' = IF how = "intent" THEN funds ELSE funds - 1
    /\ bills' = bills \ {how}
    /\ Does(b, [Resting EXCEPT !.at = "call"])
    /\ UNCHANGED <<today, ledger, provider, trouble>>

\* renewUpstream: every call is another period; the answer may name a date.
RenewAnswered(b) ==
    /\ b \in Owners /\ agent[b].at = "call"
    /\ provider' = [provider EXCEPT !.due = @ + Cycle]
    /\ \E step \in {"answer", "resume"} :
          Does(b, [Resting EXCEPT !.at = step,
                            !.date = IF step = "answer" THEN provider.due + Cycle ELSE 0])
    /\ UNCHANGED <<today, rented, funds, ledger, bills, trouble>>

RenewUnanswered(b) ==
    /\ b \in Owners /\ Moves(b, "call", "error") /\ Fails
    /\ provider' \in {provider, [provider EXCEPT !.due = @ + Cycle]}
    /\ UNCHANGED <<today, rented, funds, ledger, bills>>

\* reconcileUpstreamRenewal: the upstream's date overrides the row's.
TakeDate(b) ==
    /\ agent[b].at = "answer" /\ agent[b].date <= MaxDate
    /\ Does(b, [Resting EXCEPT !.at = "resume"])
    /\ rented' = [rented EXCEPT !.expires = agent[b].date]
    /\ UNCHANGED <<funds, ledger, world>>

\* A failure closes the service (`failed`), whatever it has become.
MarkFailed(b) ==
    /\ b \in Owners /\ Moves(b, "error", "idle")
    /\ rented' = [rented EXCEPT !.status = "stopped"]
    /\ UNCHANGED <<funds, ledger, world>>

\* SetAutoRenew.
SetAutoRenew ==
    /\ rented.status \in {"active", "expired"} \/ rented.auto
    /\ rented' = [rented EXCEPT !.auto = ~@]
    /\ UNCHANGED <<funds, ledger, agent, world>>

\* Invoices, intents and changes are opened and closed elsewhere.
Bill(k) ==
    /\ k \in bills \/ Renewable
    /\ bills' = IF k \in bills THEN bills \ {k} ELSE bills \cup {k}
    /\ UNCHANGED <<today, rented, funds, ledger, provider, agent, trouble>>

TopUp ==
    /\ funds = 0 /\ funds' = 1
    /\ UNCHANGED <<rented, ledger, agent, world>>

-----------------------------------------------------------------------------
Tick ==
    /\ today < MaxToday /\ today' = today + 1
    /\ UNCHANGED <<rented, funds, ledger, bills, provider, agent, trouble>>

\* enforceExpiry; the administrator reopens a failed service.
Expire ==
    /\ rented.status = "active" /\ rented.expires <= today
    /\ rented' = [rented EXCEPT !.status = "expired"]
    /\ UNCHANGED <<funds, ledger, agent, world>>

Reopen ==
    /\ rented.status = "stopped" /\ rented' = [rented EXCEPT !.status = "active"]
    /\ UNCHANGED <<funds, ledger, agent, world>>

\* Three minutes have passed, whether or not the claimant is still at work.
LeaseEnds(e) ==
    /\ e \in leased /\ leased' = leased \ {e}
    /\ UNCHANGED <<rented, funds, event, charged, reported, agent, world>>

ProcessDies(a) ==
    /\ agent[a].at # "idle" /\ Does(a, Resting) /\ Fails
    /\ UNCHANGED <<today, rented, funds, ledger, bills, provider>>

Sweep(s) ==
    \/ Round(s) \/ ChargePeriod(s) \/ PassOver(s) \/ ClaimEvent(s)
    \/ EndRound(s) \/ RenewDone(s) \/ RenewFails(s) \/ WriteOutcome(s)
    \/ Resume(s)

Buy(b) ==
    \/ \E how \in {"wallet", "invoice", "intent"} : Renew(b, how)
    \/ RenewAnswered(b) \/ RenewUnanswered(b) \/ TakeDate(b) \/ MarkFailed(b) \/ Resume(b)

RenewalNext ==
    \/ \E s \in Sweepers : Sweep(s)
    \/ \E b \in Owners : Buy(b)
    \/ \E a \in Workers : ProcessDies(a)
    \/ \E k \in Offered : Bill(k)
    \/ \E e \in Expiries : LeaseEnds(e)
    \/ SetAutoRenew \/ TopUp \/ Tick \/ Expire \/ Reopen

RenewalSpec == RenewalInit /\ [][RenewalNext]_renewalVars

-----------------------------------------------------------------------------
(* Properties.                                                             *)

\* The patrol takes the price of a period once for each expiry date, however
\* many patrols run and although the owner's renewals may set the date back to
\* one already renewed (unique key of RenewalEvent).
OncePerExpiry == \A e \in Expiries : charged[e] = IF event[e] = "none" THEN 0 ELSE 1

\* An event that is closed has been carried out by the upstream: neither an
\* answer that was lost nor a claim taken over closes it (retryAutoRenewUpstream).
DoneIsDelivered == \A e \in Expiries : event[e] = "done" => e \in provider.done

\* A period the patrol has charged for is delivered in the end, through refusals,
\* lost answers and deaths in the middle of a call.
ChargedIsDelivered == \A e \in Expiries : event[e] # "none" ~> event[e] = "done"
=============================================================================
