# A verification project for levis

levis sells and runs rented machines. It is one Go process over one SQL
database: customers order, pay through payment-channel plugins or from a
wallet, get services provisioned by upstream plugins, renew them, change them
and are refunded; a patrol goroutine suspends and purges what is no longer paid
for. This directory holds TLA+ models of the program, TLC configurations that
check them, and TLAPS proofs of what matters most in them. The parts where money
and machines can come apart are modelled first and in most detail.

All source paths below are relative to `src/internal/`, and those without a
directory to `src/internal/service/`.

## 1. Inventory

State lives in database rows. A `db.Transaction` is atomic and rows are guarded
by conditional updates (`UPDATE ... WHERE status = ?`, then `RowsAffected`);
between two statements outside a transaction, and around every plugin call,
anything may happen. Rows are rarely locked before they are read, so what
several transactions may overlap depends on the driver: SQLite has one
connection, MySQL and Postgres have many. In memory are only the login limiter,
the captchas, the codes by mail, the hot map of revoked sessions, the plugin
instances and the queue of mails; nothing of it survives a restart.

| Component | State | Operations | What makes it correct | Module |
|---|---|---|---|---|
| Payments (`payment.go`, `payment_target.go`) | `external_payments` (status, target, amount, wallet part, receipt, `active_target_key`) | Create, compensation, Cancel, Query, FinalizeCallback, SettleInvoice | one live intent per target; a target funded once and in full; the wallet part captured or returned, never both; every receipt on record | `Payment`, `Settlement` |
| Payment methods, callbacks (`admin.go`, `handler/payment.go`) | `payment_methods` | CRUD, the lookups of PaymentNotify | a genuine callback is verified whatever is edited meanwhile | `Gateway` |
| Wallet (`wallet.go`) | `users.balance_cents`, `wallet_transactions` | adjustBalance, Recharge, CreditExternal | never negative; each deduction is spent or returned | `Payment`, `Refund`, `Accounts` |
| Orders and checkout (`order.go`, `cart.go`, `provision.go`) | `orders`, carts, stock, prices | cart, Create, Pay, Cancel | priced as configured; limits hold; what is released was taken | `Checkout`, `Pricing`, `Payment` |
| Provisioning (`order.go`, `admin.go`) | `services` (status, host) | provision, retry, binding, deletion | no host without an owner | `Provision`, `Estate` |
| Coupons (`coupon.go`) | `used_count`, redemptions | redeem, release, edits | the count is the redemptions; the limit holds | `Checkout`, `Pricing` |
| Affiliates (`affiliate*.go`) | commissions, account, withdrawals | accrue, reverse, withdraw, review | the account is the sum of its ledger; no payout of a reversed commission | `Affiliate` |
| Refunds (`refund.go`) | `refund_requests`, `external_payments.status` | Create, Cancel, Review, RetryFailed, execute | the channel pays at most once, the wallet is credited at most once, no request is stuck | `Refund` |
| Lifecycle patrol (`lifecycle.go`, `refund_reconcile.go`, `traffic.go`) | `services` (status, `suspend_reason`, `expires_at`, `suspended_at`, quota, usage, `resume_pending`, `refund_suspend_pending`) | a round: revoke refunded, recover markers, enforce traffic, enforce expiry, purge, retry resumes | nothing paid for is stopped or purged; nothing unpaid for keeps running; no marker stays | `Lifecycle` |
| Automatic renewal (`auto_renew.go`, `renewal_*.go`) | `renewal_events` | charge under a key, RENEW under a lease | one charge per period, delivered in the end | `AutoRenew` |
| Billing (`billing.go`) | service invoices, `expires_at`, `traffic_extra_gb` | renew, upstream reconciliation, traffic packages | a renewal is charged once and extends the time once; the quota is what was paid | `Lifecycle`, `AutoRenew`, `TrafficPack`, `ServiceChange` |
| Service change (`service_change.go`) | `service_changes`, `services.change_pending_id` | Preview, Change, Retry, finishChange | one open change; charged as applied; the machine is what is sold; no renewal at the old price | `ServiceChange` |
| Administration (`admin.go`) | everything, by id | status, opening, binding, deletion of services; accounts; products | an administrator's decision stands; one administrator remains; no machine is lost | `Lifecycle`, `Provision`, `Estate`, `Accounts`, `Checkout` |
| Shop (`admin.go`, `catalog.go`, `article.go`) | categories, products, articles | CRUD over several statements | everything is shown; what is named is there | `Catalog`, `Articles` |
| Plugin manager (`plugin/`, `pluginkey.go`) | instances, supervisor, keys | Enable, Disable, Reconfigure, Reload, supervise, revoke | one supervisor; a process that escaped cannot call back | `Plugins` |
| Logins (`handler/auth.go`, `loginlimit/`, `captcha/`) | maps under a mutex | Check, RecordFailure, sweep; issue, verify | a lock holds; one answer per challenge | `LoginGuard` |
| Sessions (`auth/`, `middleware/`) | table of revoked tokens, a hot map per process | login, logout, change of password, sweeps | a sign-out lasts, on every replica | `Sessions` |
| Codes by mail, mailer (`email.go`, `mailer/`) | codes and tickets in memory, settings row by row | send, verify, dial | guesses are bounded; never in the clear where TLS was asked for | `MailCodes`, `Smtp` |
| Notices, end of the process (`notify/`, `main.go`) | a bounded queue with one worker, deferred calls | enqueue, send, Close, shutdown | the queue stops before the plugins it needs | `Notify` |
| API keys (`apikey.go`) | `api_keys` | create, revoke, use | their number is bounded | `ApiKeys` |
| Identity (`kyc.go`), tickets (`ticket.go`), storage | rows, and files on the disk | submit, certify, review; open, reply, close | a file a row names is there; one number, one account | `Kyc`, `Tickets` |
| Agent programme (`agent_program.go`) | tiers, applications, bindings | apply, review, rebuild | a tier that was reviewed | `AgentProgram` |
| Installation (`install.go`, `config/`, `runtime/`) | config.json, the database, the activated runtime | install, start | what is configured has its administrator | `Install` |
| Settings, HTTP routing, storage of bytes | key-values, files | one statement each | see "Not modelled" | — |

How they meet:

* A payment settles its target in its own transaction: an order (`payInTx`), an
  order's invoice, a renewal (`renewInTx`), a traffic package. Plugin calls come
  before or after, never inside.
* A refund reads the order and its payment, moves the payment through
  `refunding`, calls the channel, and suspends the order's services in the
  settling transaction. The patrol carries the suspension to the upstream.
* The patrol, the renewals, the top-ups, the administrator and the refund write
  one `services` row. They know of each other only by `status` and
  `suspend_reason`.
* Automatic renewal runs inside the patrol's round and shares `expires_at` with
  the owner's renewals; a change of service fences both off.
* Every call to an upstream, a payment channel or the mail goes through the plugin
  host, whose processes call back under a key the host issues and revokes.

The hard behaviours are the interleavings of requests around plugin calls,
answers that are lost, callbacks that repeat or come late, retries, the
process dying between two statements, and reads that are stale when used. They
are listed line by line under `hazards` in PROJECT.json.

## 2. Modules

| Module | Models | Abstract specification |
|---|---|---|
| `Settlement` | what the payment code promises: fund an order once, hold, capture or release the wallet part | — |
| `Payment` | intents, orders, order invoices, wallet, the channel and its callbacks | implements `Settlement` (`Implements`) |
| `Refund` | refund requests on paid orders, the channel's payouts, the wallet's credits | — |
| `Lifecycle` | one service row, its machine, the patrol, renewals, top-ups, the administrator, a refund | — |
| `ServiceChange` | upgrades and downgrades of one service, its machine, the upstream's orders, renewals bought or offered meanwhile | — |
| `AutoRenew` | one service, the patrols of several processes, the owner's renewals, the upstream's deliveries | — |
| `Affiliate`, `Checkout` (with `Pricing`), `Provision`, `Estate`, `TrafficPack`, `Plugins`, `LoginGuard`, `Sessions`, `MailCodes` (with `Smtp`), `Kyc`, `Tickets`, `Accounts`, `ApiKeys`, `Install`, `AgentProgram`, `Gateway`, `Catalog`, `Articles`, `Notify` | one component each, see the table above | — |
| `MCPayment`, `MCRefund`, `MCLifecycle`, `MCServiceChange` | instances for TLC | |
| `MCPlatform` | `AutoRenew` and the nineteen components side by side: `part` names the one that moves | |
| `MCLiveness` | `Payment` and `AutoRenew` side by side under fairness: `focus` names the one that moves | |
| `Sums` | lemmas on sums of natural numbers over finite sets | |
| `PaymentProofs`, `RefundProofs`, `LifecycleProofs`, `ChangeProofs`, `HeldProofs`, `AccessProofs`, `BooksProofs` | theorems | |

### Payment

Each transaction of the code is one action, each plugin call lies between two:
`Reserve` is the transaction of `Create`, followed by `CreateReturns` or
`CreateFails` and then `Compensate`. `creator[i]` says how far the Create of
intent `i` got. `CallbackArrives` and `QueryAnswered` are the unlocked reads at
the head of FinalizeCallback and Query (`thread[t]` holds what they saw);
`SettleOrder`, `SettleRecharge`, `RecordLate`, `AcknowledgeRepeat` and `Refuse`
are the ways the handler ends. `charge` is the channel's side. `CancelOrder` is
OrderService.Cancel, which looks at no intent. `Crash` forgets all handlers.

Abstracted: the row's identity is the intent; `active_target_key` is `Live(o)`,
a set over both aliases of a target; provisioning after the commit is left out,
for it does not touch these rows; amounts are cents in `Nat`, which the int64
columns exceed by far.

`Settlement` is the contract: `Fund` happens to an open order only, a `Hold`
ends in `Capture` or `Release`. The mapping reads `hold` off the pending
intents, `sources` off paid orders, `closed` off cancelled orders.

### Refund

`Create` is three unlocked reads and an insert (`ResolveOrder`, `FindPayment`,
`CheckDuplicates`, `File`). `execute` is a chain of statements (`step[r]`):
`ClaimRequest`, `ClaimPayment` or `SkipChannel`, the channel's answer
(`ChannelAccepts`, `ChannelRefuses`, `ReplyLost`), `ReleasePayment`, `Settle` or
`SettleFails`, `ReportFailure`. `repaid` counts what the channel paid out,
`credited` what the wallet received. `Channel` and `Held` are the parts of a
payment, for any amounts.

### Lifecycle

One service with an upstream. `at[p]` is the next statement or call of process
`p`, `seen[p]` the columns it read and relies on. The patrol is the cycle
`revoke, revoked, recover, traffic, sample, overQuota, markTraffic, expiry,
claimExpired, stopExpired, markExpired, terminable, claimTerminate, terminate,
recheck, markTerminated, resumes`; each customer or administrator request is a
chain of its own. `Call` is ManageHost: obeyed, refused, or obeyed with the
answer lost. `MayAnswer` makes a purged machine refuse everything but another
TERMINATE. `Tick` is the clock.

One assumption on time: no tick falls between the commit of a renewal and the
end of its reconciliation (`Tick` requires it). A tick stands for hours or days
(the billing cycle, the 72 hours of grace); the RENEW call ends within two
minutes. Every other call may be overtaken by any number of ticks.

Left out of this module: automatic renewal and a pending service
change (modules of their own), and services without an upstream, whose calls are skipped.

### ServiceChange

`worker[w]` is one request: where it is, the change it names, and what it has
read. `Begin`, `Look`, `Quote`, `FenceAgain`, `ReserveChange` are Change up to
its reservation: the service is read, the machine observed, the price taken
from a second read (Preview), the fence looked at again, and then the key, the
claim (`change_pending_id`) and the deduction written together. `ClaimChange`,
`Observe`, the three RESIZE answers (`ResizeDone`, `ResizeOpen`,
`ResizeRefused`), `Check` and the verdicts are Retry and finishChange; the
handler that reserved and a later request to retry run the same steps. `sent`
holds orders whose answer was lost and which the upstream may still carry out
(`Land`), `done` those it has carried out; the operation id makes a repeat
harmless. `offers` is what the fence asks about: an unpaid renewal invoice and
a live renewal intent. `Serial` says whether transactions may overlap: the
reservation takes no lock before it reads the fence, so with several
connections `FenceAgain` and `ReserveChange` are apart in fact, with one
(SQLite) `MayReserveChange` looks at the fence as it stands.

Time stands still here: `expires` counts cycles, and proration charges the
difference once for each. Three assumptions: a living handler needs less than
the lease of two hours; an upstream that answers InvalidArgument or
Unimplemented has not accepted the operation, now or before; nobody but a
change resizes the machine.

### The parts of the platform

Each is a module of its own with one specification; `MCPlatform` composes them.
They share no state with one another, so in a behaviour only one moves (`part`)
and the state graphs add up. In all of them a request is a process that goes
through the code's statements, transactions and calls one step at a time; a
variable marked `history` is not in the code and only records what a property
speaks of.

* `AutoRenew`: `Charge` takes the price and files the event in one transaction
  under the key of service and expiry; events are claimed for a lease, delivered
  under an operation id, and closed on an answer. The owner's renewals have no
  operation id and write the upstream's date without a condition.
* `Affiliate`: a reversal recomputes the share of the cumulative refund; a
  withdrawal reserves, and its review fails while the balance is in debt.
* `Pricing`: the code's formulas for options, tiers and coupons, in the smallest
  units sold so that rounding is exact. `Checkout` uses them: an order reads in
  one step and commits in another, everything else is a conditional update.
* `Provision`, `Estate`: the read of the row, the call and the write of a service's
  provisioning, binding and deletion. `accident` and `stray` name the events the
  code itself lets cost a machine.
* `TrafficPack`: an invoice and its line are two insertions; what an invoice is, is
  told by its lines. `Notices` are the calls that tell the upstream the total.
* `Plugins`: loops (supervisors), processes and keys of one plugin; every critical
  section of the instance's mutex, database statement and call is a step. A
  process may die, a health check fail, a file change at any moment.
* `LoginGuard`: both failure records with their locks, the mutex from `Enter` to
  `Leave`, and the sweep without it: it judges a record in one step and deletes it in
  the next, for the account and then for the source. `Sessions`: the revocation table,
  the hot map of each replica with its expiry, the order of lookups in the
  middleware.
* `MailCodes`: a section under the mutex, the mail, and the section after it.
  `Smtp`: which connection follows from which setting and which server.
* `Kyc`, `Tickets`: the disk is written before the transaction that names the file
  commits; what is replaced or rejected is removed afterwards. A review reads its
  record, counts the other approved ones and writes in three steps, because nothing
  keeps other transactions of MySQL and Postgres out from between; a review that reads
  and counts in one step stands for a driver that reads from one snapshot.
* `Accounts`, `ApiKeys`, `AgentProgram`, `Install`: counts and writes that are apart;
  in `Install` also the process's death between any two.
* `Gateway`: the four lookups of one callback (route, intent, list, empty) against
  edits of the methods. `Catalog`, `Articles`: rows that name rows without a foreign
  key, checked in one statement and written in another.
* `Notify`: two notifiers with their queues, workers and closed channels, the
  requests in flight, and main's deferred calls. `hasty` records that main went on
  while requests might still run (the ten seconds were over, or the listener
  failed).


## 3. Runs

The passing runs fire every action. Bounds are in the .cfg.

| Run | Instance | Shows |
|---|---|---|
| `payment_safety` | one order of 2 cents, two intents, two handlers, starting balance 1, recharges of 1 when it is spent, callbacks one cent over | `OneLiveIntent`, `FundedOnce`, `PaidInFull`, `AckedIsRecorded`, `BalanceSheet`, permanence of records, refinement of `Settlement` |
| `payment_liveness` | one order of 1 cent, two intents, one handler; one service, one patrol, one failure or death | `ReceiptResolved` under redelivery, and `ChargedIsDelivered`: a period charged by automatic renewal is delivered or refunded in the end |
| `payment_receipts` | the payment side of the same | violated: `ReceiptRecorded` (finding) |
| `refund_safety` | an order with channel 2 + wallet 1, an order with wallet 1, three requests, crashes, rolled-back transactions | `ChannelPaysOnce`, `WalletCreditedOnce`, `RefundedTogether`, `VerdictsStand`, `NoWedge` |
| `refund_twice` | one order, three requests, no faults | violated: `NotRepaidTwice` (finding) |
| `lifecycle_safety` | a renewing customer and a pausing administrator, a refund, one fault, clock to 4, expiry to 5 | `TerminatedIsGone`, `NeverPurgedEarly`, `PaidTimeNotSuspended`, `RevokedStaysShut`, `ManualPauseKept` |
| `lifecycle_liveness` | a customer who renews, settles a renewal invoice and tops up, a refund, one fault, one crash, clock to 3 | `PaidServiceResumes`, `MarkersClear`, `RevokedUpstream`, and `ActiveRuns` |
| `lifecycle_revived` | one administrator | violated: `TerminatedIsFinal` (finding) |
| `lifecycle_topup` | one top-up | violated: `TopUpResumes` (finding) |
| `change_safety` | two changes between two products, two handlers that may die, expiry 1 to 2, balance 2, one connection; changes and handlers symmetric | `OneOpenChange`, `FailedIsUndone`, `MachineMatches`, `ApplyingIsHeld`, `ChangesBooked`, `NoOldPrice`, `DecisionsStand` |
| `change_fence` | one change, one handler, no faults, transactions may overlap | violated: `NoOldPrice` (finding) |
| `platform` | twenty parts, one moving in each behaviour | `BooksAgree`, `NothingOrphaned`, `AccessHolds`, `FilesHeld`, `StepsEarned` |

Every passing run but the two of liveness also checks its type invariant.

The five properties of `platform` are conjunctions, one conjunct for each part
that has one of that kind:

* `BooksAgree`: what is booked is what its rows add up to (affiliate, renewals,
  coupons, balances, traffic quotas, guesses of a code by mail), and rows that are
  named are there (catalog, articles).
* `NothingOrphaned`: one supervisor per plugin and a process that escaped it
  cannot call back; every machine is held by a row unless the code lets it go
  knowingly; the queue of notices is done before the plugins stop.
* `AccessHolds`: sign-outs, captchas, encryption of mail, keys, the last
  administrator, agents' tiers, installation, callbacks of a gateway.
* `FilesHeld`: the files rows name, one number for one account, the side a ticket
  waits for.
* `StepsEarned` (an action property): a payout is of a balance that was earned, a
  coupon is used within its limit, a traffic package is paid at the price in force, a
  lock is not shortened.

PROJECT.json names one mutant per property. For the conjunctions the modules
hold one more for every conjunct (their comments begin with `Mutant:`); each
was put in the place of its definition and found by TLC in the part it belongs to.

Why the bounds are enough to be interesting: two intents are needed for a
second cashier on the same order and three requests for the double refund (the
holder, the misled one, and one more that is turned down); two handlers let a
callback and a query overlap; a price of 2 allows wallet and channel to share.
For the lifecycle, period and grace are one tick; a clock to 4 lets a service
expire (1), be suspended, outlive its grace period, and be purged with ticks to
spare, and leaves room for two renewals on the way. One fault and one crash each
show every single-fault recovery; two faults in a row are covered for safety by
the proofs, which put no bound on them.

Two changes and two handlers are what a race for the claim needs, a retry
beside its first attempt, and an upgrade followed by the downgrade back; a
balance of 2 affords an upgrade and a renewal but not two of each. The symmetry
is sound: no property of that run is about liveness and the instance names no
change or handler elsewhere.

In `platform` every race is between two: two requests of each kind that may meet,
two orders for one coupon, two withdrawals for one balance, two replicas, two
gateways. Provisioning has three requests, for the customer's attempt, the
administrator's, and a later one on the row they left. Limits are 1 (keys,
failures, attempts at a code, stock) so that the second comer crosses them;
`QueueSize` is 1 with three notices, so one is dropped and one waits;
`CategoryDepth` is 2 with two categories, enough for a cycle. Clocks have one
to three ticks: windows and lifetimes are one tick, so there is a before, an
after, and a time when what was swept is missed. Amounts are such that a
share is rounded (rates of 5 % and 75 % of totals 4 and 3).

Deadlock checking is off: customers may stop asking, intents and requests are
finite, and clocks are bounded.

### Fairness

* `Payment`: gateways redeliver a callback until it is acknowledged, so
  `CallbackArrives` for an unacknowledged intent, and the handling of it, are
  strongly fair. (Weak would not do: the pool of handlers is a bound of the
  model and crashes may interrupt them.) Nobody is forced to pay.
* `Refund`: a handler runs on, and a call ends with an answer or an error
  (every plugin call has a deadline): weak fairness of both, per request.
* `Lifecycle`: the patrol's ticker fires for ever and its calls have a deadline;
  a request that began runs on. Weak fairness of `PatrolStep` and `JobStep`.
  Faults are finitely many, so an upstream that is asked for ever obeys. Time
  need not pass and customers need not act.
* `AutoRenew` (in `MCLiveness`): the patrol of a process sweeps again after a
  restart, and the three minutes of a lease pass: weak fairness of `Sweep(s)` and
  `LeaseEnds(e)`. Failures and deaths are at most `MaxTrouble`.

The parts of `platform` are checked for safety only; their specifications state no
fairness.

## 4. Proofs

For every value of the constants, from the assumptions named in the modules
(amounts are natural numbers, sets of names disjoint):

| Module | Theorem | States |
|---|---|---|
| `PaymentProofs` | `TypeCorrect`, `OneIntentLives`, `OrdersFundedOnce`, `OrdersPaidInFull`, `ReceiptsRecorded`, `ReceiptsPermanent`, `SheetBalances` | `TypeOK`, `OneLiveIntent`, `FundedOnce`, `PaidInFull`, `AckedIsRecorded`, `RecordsArePermanent`, `BalanceSheet` |
| | `Implementation` | `Spec => Promise!Spec`: every step maps to a step of `Settlement` or a stutter |
| `RefundProofs` | `RefundTypeCorrect`, `ChannelNeverPaysTwice`, `WalletNeverCreditedTwice`, `RefundsAreWhole`, `NoVerdictWithdrawn` | `TypeOK`, `ChannelPaysOnce`, `WalletCreditedOnce`, `RefundedTogether`, `VerdictsStand` |
| `LifecycleProofs` | `LifecycleTypeCorrect`, `NoneWrittenOffEarly`, `PaidTimeIsKept`, `PauseIsKept`, `NoEarlyPurge`, `RevokedIsFinal` | the lifecycle's safety and action properties |
| | `OvertakenIsUndone` | `ActiveRuns`, assuming `OneResumes` |
| `ChangeProofs` | `ChangeTypeCorrect`, `OneChangeAtATime`, `VerdictsAreFinal`, `ClaimsAreNotLost`, `FailedNeverHappens`, `SoldIsDelivered`, `WalletAddsUp` | `ChangeTypeOK`, `OneOpenChange`, `DecisionsStand`, `ApplyingIsHeld`, `FailedIsUndone`, `MachineMatches`, `ChangesBooked` |
| | `PriceInForce` | `NoOldPrice`, assuming `Serial` |
| `HeldProofs` | `KycHolds`, `TicketsHold` | `PhotosHeld` and `OneAccountPerNumber` of `KycSpec`; `AttachmentsHeld` and `WaitsForTheOther` of `TicketsSpec` |
| | `FilesAreHeld`, `NothingIsOrphaned` | `FilesHeld` and `NothingOrphaned` of the whole platform |
| `AccessProofs` | `AccessIsHeld` | `AccessHolds` of the whole platform |
| | `BalancesAreBooked` | `BalanceBooked` of `AccountsSpec`, a part of `BooksAgree` |
| `BooksProofs` | `StepsAreEarned`, `BooksAreAgreed`, `PlatformTypeCorrect` | `StepsEarned`, `BooksAgree` and `PlatformTypeOK` of the whole platform |
| | `RenewalsAreBooked` | `OncePerExpiry` and `DoneIsDelivered` of `RenewalSpec`, parts of `BooksAgree` |

The inductive invariants:

* `Payment!IInv` adds two things to the properties. `RowsConsistent` ties the
  columns of an intent to each other (asked and held amounts add up to the
  price; no receipt before settlement). `ReadsConsistent` says how far a
  handler's reading may be out of date: what it saw as `failed` can only have
  become `late`, what it saw as `paid` still is. Without it `RecordLate` could
  overwrite a settled payment.
* `Refund!IInv`: the handler that drives the channel holds the payment in
  `refunding`, there is one such handler per order, and nothing has been repaid
  while the payment is `paid`. That is what makes "at most once" inductive.
* `Lifecycle!IInv`: whoever resumes a service read a reason that can be paid
  away (`ResumersKnow`), what the patrol is about to suspend had expired when
  listed (`ExpiryRead`), and a machine whose end is about to be written is gone
  (`GoneWhenWritten`). `TimeInv` adds the readings of the purge: the suspension
  read is older than the grace period, a claimed row is the one read, and a
  renewal that committed is not used up before its reconciliation ends. It needs
  the timing assumption above, and only `NoEarlyPurge` rests on it.
* `ChangeProofs!Inv`: `Claims` says a handler past its claim holds it alone and
  on the open change. `NothingSent` adds that a handler about to turn a change
  down, or seeing it for the first time, has no order behind it; `OneMoves` that
  only the open change has orders under way, that it differs from what was sold,
  and that the machine is at its target exactly if the order was carried out.
  Together they make the observation before a retry conclusive: a machine at
  the target means nothing is still under way. `PriceInForce` rests on `Claims`
  and on `OffersCurrent` (a renewal that can still be paid is at the price in
  force), which needs the fence to hold up to the claim: hence `Serial`, and
  without it the run `change_fence`.
* `KycInv` adds to the photos and the numbers what a filing remembers: photos it has
  stored and not yet saved belong to it alone (`StoredAlone`), those it replaces
  are of no other account and, once the new ones are saved, of none (`OldIsOwn`),
  and a certification under way was read as one (`FilingsKnow`). Without these a
  removal after the commit could take photos a row still names. `CountStands` says that
  what a review has counted still holds when it writes: no step approves the number
  for another account meanwhile but the two `OneAccountPerNumber` excepts, which the
  histories `overtaken` and `skewed` record. `TicketsInv` needs
  one such conjunct (`FilesApart`): no file belongs to two tickets or replies.
* `LedgerAdds`, `LimitsRead`, `PacksRead` (`BooksProofs`), `LocksRead` (`AccessProofs`) say what the
  step rests on: that balance, reserve and payouts add up to what was earned, and
  that a transaction's test is of the row as it stands; for the sweep, that the lock it
  saw in a record it found old was over by then.
* `RenewalInv` (`BooksProofs`): the upstream has carried out what a patrol is about to
  close as done (`AnswersKnown`), so a lost answer or a claim taken over closes nothing.
* `BookedInv` (`AccessProofs`): beside the accounts' own invariant, a balance is its
  ledger; every deed moves both by the same amount.
* `ProvisionInv`: no machine has two owners, outside an `accident`. `EstateInv`:
  `NamesOrdered` says a machine a row or an errand names was once ordered, so that a new
  one has no home yet, and `ErrandsStand` where an errand is: only an opening holds
  machines without a row, what is about to be deleted was terminated.
* `PluginsInv`: `HostStands` says the host asks for nothing while a request does, and that all
  loops and processes are off before it closes or while the plugin is unknown;
  `KeysEnd` that a key of an instance that is not enabled is in force only
  while the request that stops it is on its way.
* `NotifyInv`: main closes a queue only after the requests that might fill it
  (`RequestsWaitedFor`), and stops the plugins only after the worker
  (`WorkerWaitedFor`), unless it was `hasty`.

* `AccessProofs`. Sessions (`SessionsInv`, `VisitHonest`): a session that was signed
  out is in the table or has expired, which sweeps and restarts of a replica keep,
  and a request under it that got past the lookup came after its expiry. Captchas
  (`ImagesFresh`): what can be answered has not been. Mail (`MailInv`): what went out was
  encrypted as its setting demands, whatever server answered. Accounts (`Spares`): a deed
  spares its own operator, so who commits one remains, unless he lost his rights before
  it was committed (`outlived`). Keys (`KeysInv`):
  active keys and creations that have counted are bounded together, by the library's
  facts on cardinality. Agents (`AgentInv`): a request in review knows the application
  it read (`DeskKnows`), and two on one application are `rivals`. Installation
  (`InstallsStand`): what is about to be saved or served is populated, and only crossed
  installations overlap. Gateway (`LookupsHonest`): a lookup that was passed over was not the
  charge's own, so a genuine callback is taken at the latest by the last one.

* `Sums`: what `SumFunctionOnSet` of the community modules returns. Its definition is
  recursive, over CHOOSE, and the provers have no induction; the lemmas take a smallest
  counterexample instead: the subsets for which a fact fails are a set, strict inclusion
  of finite sets is well founded, so one of them has no smaller one (`SmallestSet`). From
  `SumPick`, the recursion, follow `SumOne` (any element may be taken out first),
  `SumChange` (one summand moves), `SumLeq`, `SumZero`, `SumNatural`. On them rest
  `SheetBalances` (wallet, holds and revenue against what was topped up and advanced),
  `WalletAddsUp` (the wallet is what the customer started with less his renewals and
  what the changes took or hold) and the ledgers of `BooksAgree`.
* `BooksAgree` has one invariant per part (`BooksProofs`). `CommissionsBooked`: the ledger is
  the sum of the commissions less the withdrawals, sale by sale (`SaleBooked`).
  `UsesCounted`: the coupon's counter is the number of orders that hold it, and who is
  being placed does not hold it yet. `PacksCounted`: packages sold and told, and as many
  unpaid ones as there are requests past the check at most. `GuessesPaid`
  (`AccessProofs`): from any minute on, the guesses compared with a code are paid for by the codes sent since, five each, and one
  code more; the number sent is bounded by the hourly limit. `ShopInv`: while no two
  edits of the tree overlapped, what a clerk checked still holds when he writes, and so the
  tree has no cycle and no dangling parent; `NoTrap` states the first of these without
  following chains. `TermsInv`: the same for the agreements and the articles they name.
* `Smooth` (`LifecycleProofs`), for `OvertakenIsUndone`: in a run without faults and
  crashes the machine follows the row except at named steps of the patrol and of the one
  request that resumes, each of which knows what the row and the machine are. The
  hypothesis `OneResumes` (one request at most renews or tops up, no administrator
  pauses) is not for convenience: without it `ActiveRuns` is false, see "A resume that
  answers an older suspension" below. The run `lifecycle_liveness` is an instance of it.

* `TypesInv` (`BooksProofs`), for `PlatformTypeOK`. Where a part's own invariant does not
  already hold its type, what is missing is small but not nothing. `Checkout`: a total is
  a number only if a discount is at most the subtotal it is taken from, which is at most
  the whole (`DiscountFits`, `SubtotalFits`, on `SumPart`: a sum over a subset of
  the lines), and a price is one only if what `validateProduct` demands of a row holds.
  `AutoRenew`: a patrol that charges or calls has read a date (`DatesKnown`).
  `Install`: who is past `BeginInstall` knows its database (`InstallTyped`). `Estate`: the
  units still to be opened never exceed those asked for (`EstateRest`). `TrafficPack`: the
  quota counts the packages paid, so it is a number as they are finitely many.

Model-checked only: the liveness properties (fairness and ENABLED are beyond
this prover), and `ActiveRuns` where more than one request may resume. The assumption on
the bounds of an instance (`MaxLoops`, `MaxTrouble` and the like) is only that they are
numbers (`MaxFunds` a positive one): the theorems hold for all of them.

## 5. Disagreements between the code and what it says

Five have a run each (`findings`): a receipt nobody records, a refund paid
twice, a purged service revived, a package bought in vain, and a renewal paid at
the old price after an upgrade whose fence was passed. Others are read
off the code and the models and described here. A property that would be violated
by one of them is stated with that case excepted, and the exception is
named in the property's comment.

Payments, refunds and services:

* **A refund that cannot be retried.** `refund.go:29-30` promises that a failed
  request can be retried. If the channel pays and the settling transaction
  fails, the request becomes `failed` while the payment stays `refunding`
  (594-597 releases nothing), so every retry loses the payment claim. Money is
  safe (`ChannelPaysOnce`), the request is stuck.
* **Entitlement that survives a refund.** `refund.go:562-563` says a completed
  refund ends every entitlement; 569-580 touches active services only. One that
  is suspended for traffic or expiry comes back with a renewal or a top-up.
* **A revocation lost.** If a renewal's RENEW fails after a refund suspended the
  service, `billing.go:171-172` sets the status to `failed`; the revocation list
  looks for `suspended` only, and the machine is not stopped. `RevokedUpstream`
  is stated with that exception.
* **A resume that began before a refund.** `resumeSuspended` (465-515) has no
  counter-move when its conditional write finds the row changed, so a slow
  UNSUSPEND may start a machine after the revocation's SUSPEND was acknowledged.
  `RevokedUpstream` is stated for rounds after such a resume.
* **A request that fails at the database.** The exits of `execute` at
  `refund.go:499-501` and `532-536` leave the request `processing` when the database
  itself fails; the model has the failures of transactions and of the channel, not these,
  and `NoWedge` does not speak of them.
* **A crash between renewal and resume** leaves a paid service suspended with
  `resume_pending` unset. `PaidServiceResumes` counts the crashes and asks nothing
  across one.
* **A renewal settled as an invoice.** `lifecycle.go:17-18` and 448 promise that a
  service suspended for expiry resumes once its renewal is settled. `SettleInvoice`
  (`payment.go:436-492`) extends the service and asks the upstream to renew (487-490),
  and that is all: it resumes nothing, sets no `resume_pending`, and a RENEW that
  succeeds clears the error by which the retry of an earlier resume finds its service.
  The paid service stays down until the customer renews again or the staff step in.
  The same invoice paid through a channel does resume it (`payment.go:343-368`).
  `lifecycle_liveness` has both; `PaidServiceResumes` ends where a settlement begins.
* **A package paid from the balance** resumes nothing either (`payment.go:478-485`),
  while the same package paid through a channel does. `ResumeOwed` in
  `PaidServiceResumes` names who is owed a resume.
* **A lost SUSPEND answer** releases the claim; a renewal before the next round
  then leaves an active service on a stopped machine. `ActiveRuns` is stated for
  runs without faults.
* **A resume that answers an older suspension.** The conditional write of
  `resumeSuspended` (`lifecycle.go:501`) compares status and reason with what it read, not
  which suspension it read. Of two renewals that resume the same suspension the slower may
  get its UNSUSPEND in before, and its write in after, the patrol suspends the service
  anew for the same reason: the row becomes active, the machine stays stopped. An
  administrator's pause and unpause may cross in the same way. `OvertakenIsUndone` excludes both.
* **Two changes to the same product** that are quoted before either is applied
  are both charged: the claim compares the product, which the first change does
  not move, so the second pays a difference that no longer exists (390-403).
* **An uncertain change waits for its customer.** Nothing in the process retries
  it, and until then no renewal and no other change is possible.

* **A renewal that goes backwards.** After an automatic renewal whose RENEW
  failed, a renewal by hand asks the upstream for one period from the upstream's
  own date and writes the answer to `expires_at` without a condition
  (`billing.go:172-180`): the date goes back by the period still to be delivered.
* **A traffic invoice settled as a renewal.** The invoice is inserted before its
  line; an invoice without a line is told apart by nothing and settles as a
  renewal, which the comment at `payment.go:411` means to prevent. "At most one"
  unpaid package (`billing.go:874`) is not held by concurrent creations, and of two
  notices under way the later to arrive may tell the upstream the smaller total.
* **A callback after a change of key.** Query, refund and callback all use the
  method's present configuration: after a change of key an older payment can be
  neither queried nor refunded nor called back. A key that is moved from one row
  to another between the lookups of one callback refuses a genuine callback;
  gateways repeat it.

Orders, machines, agents:

* **Stock below zero.** Stock is decremented where it is not negative
  (`order.go:665-668`), so orders paid side by side make it -1, which means
  unlimited (`model/model.go:333`). The per-user limit of a coupon and the test for
  a new customer are not atomic where transactions overlap (`coupon.go:351`).
  DeleteProduct does not look at orders that are still to be paid.
* **Machines left at the upstream.** When the second unit of an opening fails,
  the transaction rolls back and the first machine stays. DeleteUser terminates
  nothing by itself; a new binding leaves the machine of the old one.
* **Tiers rebuilt, bindings lost.** Rebuilding the tiers gives them new ids
  and is not one transaction; a review writes its status and its binding apart; saving a
  discount with a zero id meets the unique index.
* **Accounts.** Two administrators who demote each other at once leave none,
  though `admin.go:370` says one must remain. DeleteUser leaves external
  payments, the affiliate's account and redemptions behind.

Access:

* **Limiter.** `sweepLocked` is called without the lock its comment requires
  (`loginlimit.go:199`, `:204`). A lock set between its test of a record (207, 212) and
  its delete (208, 213) is forgotten, which `LockStands` excepts; the runtime may also
  notice the unguarded map and end the process, which is a restart to the model;
  the cap of 24 hours on a lock is met by concurrent failures only; at the cap on
  records the code does not do what `loginlimit.go:136-137` says, and the map of
  addresses has no bound.
* **Sessions.** A request in flight is served with the session of a password that
  has just been changed; a user who is promoted keeps a token of the longer
  lifetime; a login by mailed code does not look at the status again.
* **API keys.** Expired keys count as active, and concurrent creations exceed the
  bound by as many as they are.
* **Codes.** The hourly limit counts the mail about to be sent, so one
  fewer is sent; the late failure of a first mail deletes the newer code; a code is
  used up even if the registration fails; settings of the mailer are saved row by row.
* **Identity.** Two reviews of one number that overlap on MySQL or Postgres both count
  no other approved account and both approve (`kyc.go:541-561`, no lock, no unique
  index), though the comment at 540 counts on catching overlaps there. On SQLite's one
  connection they cannot. `OneAccountPerNumber` is stated up to that (`skewed`). StartExternal overwrites a record that waits for review and leaves
  its photos on the disk; a verdict is written to whatever record has that id by then;
  certified records share the empty number, so the second approval is refused;
  two submissions on a rejected record may overwrite an approval.
* **Tickets.** A reply may land on a ticket that was closed meanwhile; whether a reply is
  the staff's goes by the user, not by the route, so an administrator's own ticket
  starts as answered.
* **Installation.** A crash between the transaction and the saving of the
  configuration makes a second installation into that database refused; crossed
  installations may leave a runtime and a file that disagree.

Plugins, shop, notices:

* **Plugins.** Enabling a plugin that runs revokes the key of its process;
  Disable's wait may wait on the loop of a concurrent Enable; a reload that marks a
  running plugin as skipped forgets its process (`plugin/instance.go:267`).
* **Categories.** Two overlapping moves, or a move and a deletion, make a cycle or a
  dangling parent in spite of `validateParent`, and Tree leaves that part out
  silently; the limit of depth is not tested for what is below a moved category;
  Tree's comment speaks of two levels.
* **Articles.** Delete counts `agreement_article_id` only and not
  `agreement_article_ids`, though `article.go:177` says that an article in use as
  an agreement is refused; a product may name a draft that buyers have to accept and cannot read;
  GetPublishedByIDs's comment promises the order of its input and the code sorts.
* **Notices.** The patrol's notifier is not waited for (`main.go:124-127`), so its last
  mails may meet plugins that have stopped; a first notice after Close, possible
  only once Shutdown's ten seconds are over or the listener failed, starts a
  worker nobody waits for.

## 6. Plan

Done: the core (payments, refunds, lifecycle, service changes) and every part
that keeps state of its own; a theorem for every safety and action property of the
passing runs. What is left, in order of what is at stake:

1. `OvertakenIsUndone` for several requests, with the resumes that answer an older
   suspension excepted one by one instead of by `OneResumes`.
2. Liveness of the parts, where the code promises any: a queue is emptied, a
   plugin that died is started again.

### Not modelled

* **Requests that go straight to the upstream**: power, console and its relay,
  NAT rules, host features, security groups. They change no row, and what they do
  to a machine is the upstream's.
* **Settings**: keys with values, each written by one statement and validated by
  itself. Those that meet another part are inputs of that part.
* **The HTTP layer**: decoding, routing, rendering, site icon. Each request is a process of
  a model; a handler that has an order of its own is modelled with its service.
* **Read models**: lists, searches, statistics. Queries without effect.
* **The plugin protocol**: forwarding of calls, the handshake's bytes, unpacking of
  archives. A call is modelled by its answers: done, refused, lost.
* **Drawing and eviction of captchas, the caps of the limiter's maps**: data no
  property here tells apart.
* **Generated code** (`pkg/plugin/proto`).
