------------------------------- MODULE MCPlatform ------------------------------
(***************************************************************************)
(* The parts of the platform that share no state with the payment core or  *)
(* with one another, checked side by side: a behaviour chooses one part at *)
(* its start and only that part moves, so that the state graphs add up and *)
(* are not multiplied.                                                     *)
(***************************************************************************)
EXTENDS Affiliate, AutoRenew, Plugins, Checkout, Provision, LoginGuard, Sessions, Kyc, Tickets,
        MailCodes, Accounts, ApiKeys, Install, Estate, TrafficPack, AgentProgram,
        Gateway, Catalog, Articles, Notify

VARIABLE part       \* the part that moves

Parts == {"affiliate", "renewal", "plugins", "checkout", "provision", "guard", "sessions", "kyc",
          "tickets", "mail", "accounts", "keys", "install", "estate", "traffic", "agents", "gateway",
          "catalog", "articles", "notices"}

platformVars == <<part, affiliateVars, renewalVars, pluginVars, checkoutVars, provisionVars,
                  guardVars, sessionVars, kycVars, ticketVars, mailVars, accountsVars, apiKeysVars,
                  installVars, estateVars, packVars, agentVars, gatewayVars, catalogVars,
                  articleVars, notifyVars>>

\* Of the part that moves.
PlatformTypeOK ==
    /\ part \in Parts
    /\ part = "affiliate" => AffiliateTypeOK
    /\ part = "renewal" => RenewalTypeOK
    /\ part = "plugins" => PluginsTypeOK
    /\ part = "checkout" => CheckoutTypeOK
    /\ part = "provision" => ProvisionTypeOK
    /\ part = "guard" => LoginGuardTypeOK
    /\ part = "sessions" => SessionsTypeOK
    /\ part = "kyc" => KycTypeOK
    /\ part = "tickets" => TicketsTypeOK
    /\ part = "mail" => MailCodesTypeOK
    /\ part = "accounts" => AccountsTypeOK
    /\ part = "keys" => ApiKeysTypeOK
    /\ part = "install" => InstallTypeOK
    /\ part = "estate" => EstateTypeOK
    /\ part = "traffic" => TrafficPackTypeOK
    /\ part = "agents" => AgentTypeOK
    /\ part = "gateway" => GatewayTypeOK
    /\ part = "catalog" => CatalogTypeOK
    /\ part = "articles" => ArticlesTypeOK
    /\ part = "notices" => NotifyTypeOK

\* A part that does not move starts in one way only.
PlatformInit ==
    /\ part \in Parts
    /\ AffiliateInit /\ RenewalInit /\ PluginsInit /\ CheckoutInit /\ ProvisionInit /\ LoginGuardInit
    /\ SessionsInit /\ KycInit /\ TicketsInit /\ MailCodesInit /\ AccountsInit /\ ApiKeysInit
    /\ InstallInit /\ EstateInit /\ TrafficPackInit /\ AgentInit
    /\ GatewayInit /\ CatalogInit /\ ArticlesInit /\ NotifyInit
    /\ part # "install" => populated = {}
    /\ part # "traffic" => packPrice = [cents |-> 1, step |-> 1]
    /\ part # "agents" => ~manual /\ \A u \in Partners : partner[u].balance = 0
    /\ part # "gateway" => \A d \in Charges : due[d].at = "new"

\* Every part but the one that moves stands still.
Still ==
    /\ UNCHANGED part
    /\ IF part = "affiliate" THEN TRUE ELSE UNCHANGED affiliateVars
    /\ IF part = "renewal" THEN TRUE ELSE UNCHANGED renewalVars
    /\ IF part = "plugins" THEN TRUE ELSE UNCHANGED pluginVars
    /\ IF part = "checkout" THEN TRUE ELSE UNCHANGED checkoutVars
    /\ IF part = "provision" THEN TRUE ELSE UNCHANGED provisionVars
    /\ IF part = "guard" THEN TRUE ELSE UNCHANGED guardVars
    /\ IF part = "sessions" THEN TRUE ELSE UNCHANGED sessionVars
    /\ IF part = "kyc" THEN TRUE ELSE UNCHANGED kycVars
    /\ IF part = "tickets" THEN TRUE ELSE UNCHANGED ticketVars
    /\ IF part = "mail" THEN TRUE ELSE UNCHANGED mailVars
    /\ IF part = "accounts" THEN TRUE ELSE UNCHANGED accountsVars
    /\ IF part = "keys" THEN TRUE ELSE UNCHANGED apiKeysVars
    /\ IF part = "install" THEN TRUE ELSE UNCHANGED installVars
    /\ IF part = "estate" THEN TRUE ELSE UNCHANGED estateVars
    /\ IF part = "traffic" THEN TRUE ELSE UNCHANGED packVars
    /\ IF part = "agents" THEN TRUE ELSE UNCHANGED agentVars
    /\ IF part = "gateway" THEN TRUE ELSE UNCHANGED gatewayVars
    /\ IF part = "catalog" THEN TRUE ELSE UNCHANGED catalogVars
    /\ IF part = "articles" THEN TRUE ELSE UNCHANGED articleVars
    /\ IF part = "notices" THEN TRUE ELSE UNCHANGED notifyVars

PlatformNext ==
    \/ part = "affiliate" /\ Still /\ AffiliateNext
    \/ part = "renewal" /\ Still /\ RenewalNext
    \/ part = "plugins" /\ Still /\ PluginsNext
    \/ part = "checkout" /\ Still /\ CheckoutNext
    \/ part = "provision" /\ Still /\ ProvisionNext
    \/ part = "guard" /\ Still /\ LoginGuardNext
    \/ part = "sessions" /\ Still /\ SessionsNext
    \/ part = "kyc" /\ Still /\ KycNext
    \/ part = "tickets" /\ Still /\ TicketsNext
    \/ part = "mail" /\ Still /\ MailCodesNext
    \/ part = "accounts" /\ Still /\ AccountsNext
    \/ part = "keys" /\ Still /\ ApiKeysNext
    \/ part = "install" /\ Still /\ InstallNext
    \/ part = "estate" /\ Still /\ EstateNext
    \/ part = "traffic" /\ Still /\ TrafficPackNext
    \/ part = "agents" /\ Still /\ AgentNext
    \/ part = "gateway" /\ Still /\ GatewayNext
    \/ part = "catalog" /\ Still /\ CatalogNext
    \/ part = "articles" /\ Still /\ ArticlesNext
    \/ part = "notices" /\ Still /\ NotifyNext

PlatformSpec == PlatformInit /\ [][PlatformNext]_platformVars

-----------------------------------------------------------------------------
\* Money and counts agree with the rows they are the sum of: the affiliate's
\* account with its commissions, reversals and payouts (affiliate.go), a coupon's
\* use count with the orders that hold it (coupon.go), a balance with its wallet
\* transactions (wallet.go), a traffic quota with the packages paid (billing.go), the
\* automatic renewals charged with the events filed, and those closed with what the
\* upstream carried out (renewal_scheduler.go, renewal_reconcile.go), the rows of the
\* shop with those they name (catalog.go, article.go), the guesses of a code by mail with
\* the codes that were sent (email.go).
BooksAgree ==
    /\ part = "affiliate" => AccountBooked /\ ReversedInProportion
    /\ part = "renewal" => OncePerExpiry /\ DoneIsDelivered
    /\ part = "checkout" => RedemptionsCounted
    /\ part = "accounts" => BalanceBooked
    /\ part = "traffic" => PacksBooked
    /\ part = "catalog" => ShopComplete
    /\ part = "articles" => TermsStand
    /\ part = "mail" => GuessesBounded

\* What a step takes is there to be taken: no payout of a commission that a refund
\* took back, no use of a coupon past its limit, no traffic package at a price no
\* longer in force, no lock of a login shortened by a late failure or by a sweep
\* that saw it when it judged the record.
StepsEarned ==
    [][/\ part = "affiliate" => PayoutsEarned
       /\ part = "checkout" => WithinLimit
       /\ part = "traffic" => PaidAtPriceInForce
       /\ part = "guard" => LockStands]_platformVars

\* Nothing that costs money, answers for a plugin or needs one is left alone: one
\* supervisor starts a plugin's processes, a process that escaped it cannot call
\* back (plugin/instance.go), a machine at the upstream is held by a row or was let
\* go in a way the code accepts (order.go, admin.go), and the mail of a request that
\* was waited for is out before the plugins stop (notify.go, main.go).
NothingOrphaned ==
    /\ part = "plugins" => OneSupervisor /\ EscapedIsMute
    /\ part = "provision" => HostsHeld
    /\ part = "estate" => NoMachineLost
    /\ part = "notices" => QueueBeforeHost

\* Who gets in: a sign-out lasts (auth), a captcha is tried once, no
\* mail is sent in the clear where TLS was asked for (email.go), keys are bounded
\* (apikey.go), an administrator remains (admin.go), an agent's tier
\* was reviewed (agent_program.go), what is installed has its administrator (install.go), a
\* gateway's callback is let in while its key is kept (handler/payment.go).
AccessHolds ==
    /\ part = "sessions" => LogoutLasts
    /\ part = "guard" => OneTryPerImage
    /\ part = "mail" => NeverSilentlyClear
    /\ part = "keys" => KeysBounded
    /\ part = "accounts" => AdminRemains
    /\ part = "agents" => BindingsReviewed
    /\ part = "install" => ConfiguredIsPopulated
    /\ part = "gateway" => GenuineIsTaken

\* A file a row names is on the disk (kyc.go, ticket.go), one identity number is
\* approved for one account but for the overlaps OneAccountPerNumber excepts, and a ticket
\* waits for the side that did not speak last.
FilesHeld ==
    /\ part = "kyc" => PhotosHeld /\ OneAccountPerNumber
    /\ part = "tickets" => AttachmentsHeld /\ WaitsForTheOther

-----------------------------------------------------------------------------
\* The instance.
Costs == [a |-> 4, b |-> 3]

Unit(min, max, step, price) == [min |-> min, max |-> max, step |-> step, price |-> price]
Shelf == [plan |-> [price |-> 10, agreement |-> FALSE, driver |-> FALSE,
                    spec |-> [cpu |-> Unit(0, 0, 0, 0)], choices |-> {<<>>}],
          vm |-> [price |-> 10, agreement |-> TRUE, driver |-> TRUE,
                  spec |-> [cpu |-> Unit(1, 3, 2, 3)], choices |-> {[cpu |-> 2], [cpu |-> 3]}]]
HalfOff == [type |-> "percent", percent |-> 50, amount |-> 0, cap |-> 6, least |-> 10]
PlanOnly == {"plan"}

Ask(role, status, balance) == [role |-> role, status |-> status, balance |-> balance]
FewEdits == {Ask("user", "keep", -1), Ask("admin", "active", -1), Ask("keep", "disabled", -1),
             Ask("keep", "keep", 1), Ask("user", "keep", 0)}
=============================================================================
