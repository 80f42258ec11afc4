-------------------------------- MODULE Gateway --------------------------------
(***************************************************************************)
(* Payment methods and the gateways' callbacks (service/admin.go,          *)
(* service/payment.go, handler/payment.go): the administrator edits the    *)
(* methods while payments made through them are under way, and a callback  *)
(* must be verified with the configuration its payment was made with.      *)
(*                                                                         *)
(* A method's configuration is the key it holds; a plugin verifies a       *)
(* callback where the key is the one the gateway signed with.  What a      *)
(* verified callback does to the payment is in Payment.                    *)
(***************************************************************************)
CONSTANTS
    Methods,       \* rows of payment_methods
    Gateways,      \* the payment plugins
    MerchantKeys,  \* keys a configuration may hold
    Charges        \* external payments

ASSUME GatewayAssumption == Gateways # {}

VARIABLES
    method,        \* the rows
    due,           \* external payments: their plugin, their method, the key they were made with
    callback       \* where the callback of each payment is

gatewayVars == <<method, due, callback>>

EmptyConfig == "empty config"
NoMethod == "no method"
AllKeys == MerchantKeys \cup {EmptyConfig}

\* `own` and `listed` are history: whether the payment's own method, and which enabled
\* methods of its plugin, have held its key ever since the callback came in.
GatewayTypeOK ==
    /\ method \in [Methods -> [life : {"new", "kept", "gone"}, gateway : Gateways,
                               key : AllKeys, enabled : BOOLEAN]]
    /\ due \in [Charges -> [at : {"new", "open", "settled"}, gateway : Gateways,
                         method : Methods \cup {NoMethod}, key : AllKeys]]
    /\ callback \in [Charges -> [at : {"none", "route", "intent", "list", "empty", "refused"},
                              routed : BOOLEAN, named : BOOLEAN,
                              own : BOOLEAN, listed : SUBSET Methods]]

NoCallback == [at |-> "none", routed |-> FALSE, named |-> FALSE, own |-> FALSE, listed |-> {}]
SomeGateway == CHOOSE g \in Gateways : TRUE
MethodRow(life) == [life |-> life, gateway |-> SomeGateway, key |-> EmptyConfig, enabled |-> FALSE]

\* Payments from before a payment recorded its method are open at the start.
GatewayInit ==
    /\ method = [m \in Methods |-> MethodRow("new")]
    /\ due \in [Charges -> [at : {"new"}, gateway : {SomeGateway}, method : {NoMethod}, key : {EmptyConfig}]
                        \cup [at : {"open"}, gateway : {SomeGateway}, method : {NoMethod}, key : AllKeys]]
    /\ callback = [d \in Charges |-> NoCallback]

\* Of a payment: a row with its key, such a row under its plugin, and one of those the
\* plugin's list of enabled methods holds.
HoldsKey(rows, d, m) == m # NoMethod /\ rows[m].life = "kept" /\ rows[m].key = due[d].key
Fits(rows, d, m) == HoldsKey(rows, d, m) /\ rows[m].gateway = due[d].gateway
Listed(rows, d) == {m \in Methods : Fits(rows, d, m) /\ rows[m].enabled}

\* An edit of the methods; the history follows it.
SaveMethod(m, row) ==
    LET rows == [method EXCEPT ![m] = row] IN
    /\ method' = rows
    /\ callback' = [d \in Charges |-> [callback[d] EXCEPT
           !.own = @ /\ Fits(rows, d, due[d].method), !.listed = @ \cap Listed(rows, d)]]
    /\ UNCHANGED due

CreatePaymentMethod(m, gateway, key, enabled) ==
    /\ method[m].life = "new"
    /\ SaveMethod(m, [life |-> "kept", gateway |-> gateway, key |-> key, enabled |-> enabled])

\* One statement writes the fields the request names.
UpdatePaymentMethod(m, gateway, key, enabled) ==
    /\ method[m].life = "kept"
    /\ SaveMethod(m, [method[m] EXCEPT !.gateway = gateway, !.key = key, !.enabled = enabled])

\* Payments made through it are not looked at.
DeletePaymentMethod(m) ==
    /\ method[m].life = "kept"
    /\ SaveMethod(m, MethodRow("gone"))

\* PaymentService.Create, as far as the method goes: the row is read once, and the
\* gateway is called with what was read.
OpenDue(d, m) ==
    /\ due[d].at = "new" /\ method[m].life = "kept" /\ method[m].enabled
    /\ due' = [due EXCEPT ![d] = [at |-> "open", gateway |-> method[m].gateway, method |-> m,
                                  key |-> method[m].key]]
    /\ UNCHANGED <<method, callback>>

\* Query: the configuration is the one of the payment's method as it is now, empty
\* where the row is gone; of a payment without one, any enabled method's of the plugin.
QueryKeys(d) ==
    LET m == due[d].method
        enabled == {r \in Methods : method[r].life = "kept" /\ method[r].enabled
                                    /\ method[r].gateway = due[d].gateway}
    IN IF m # NoMethod THEN {IF method[m].life = "kept" THEN method[m].key ELSE EmptyConfig}
       ELSE IF enabled = {} THEN {EmptyConfig} ELSE {method[r].key : r \in enabled}

QueryDue(d) ==
    /\ due[d].at = "open" /\ due[d].key \in QueryKeys(d)
    /\ due' = [due EXCEPT ![d].at = "settled"]
    /\ UNCHANGED <<method, callback>>

\* The customer has paid and the gateway calls, again if it was refused.  The route
\* names the method where the notify URL did; the parameters name the payment where
\* the gateway calls its field out_trade_no.
Arrive(d, routed, named) ==
    /\ due[d].at = "open" /\ callback[d].at \in {"none", "refused"}
    /\ routed => due[d].method # NoMethod
    /\ callback' = [callback EXCEPT ![d] =
           [at |-> "route", routed |-> routed, named |-> named,
            own |-> (routed \/ named) /\ Fits(method, d, due[d].method), listed |-> Listed(method, d)]]
    /\ UNCHANGED <<method, due>>

\* PaymentNotify: one source of the configuration after the other, until one verifies.
Settles(d) ==
    /\ due' = [due EXCEPT ![d].at = "settled"]
    /\ callback' = [callback EXCEPT ![d] = NoCallback]

Try(d, at, verifies, otherwise) ==
    /\ callback[d].at = at
    /\ IF verifies THEN Settles(d)
       ELSE UNCHANGED due /\ callback' = [callback EXCEPT ![d].at = otherwise]
    /\ UNCHANGED method

\* The method the route names, disabled or not, under the plugin the route names.
TryRoute(d) == Try(d, "route", callback[d].routed /\ Fits(method, d, due[d].method), "intent")

\* The payment's method, whatever its plugin is by now.
TryIntent(d) == Try(d, "intent", callback[d].named /\ HoldsKey(method, d, due[d].method), "list")

\* Mutant: only one enabled method is tried.
VerifiedByOne(d) == \A m \in Methods : (method[m].life = "kept" /\ method[m].enabled) => m \in Listed(method, d)

VerifiedByList(d) == Listed(method, d) # {}

\* The enabled methods of the plugin, read at once.
TryList(d) == Try(d, "list", VerifiedByList(d), "empty")

\* The empty configuration, of plugins that are configured as a whole.
TryEmpty(d) == Try(d, "empty", due[d].key = EmptyConfig, "refused")

GatewayNext ==
    \/ \E m \in Methods, g \in Gateways, k \in AllKeys, e \in BOOLEAN :
          CreatePaymentMethod(m, g, k, e) \/ UpdatePaymentMethod(m, g, k, e)
    \/ \E m \in Methods : DeletePaymentMethod(m)
    \/ \E d \in Charges :
          \/ \E m \in Methods : OpenDue(d, m)
          \/ QueryDue(d)
          \/ \E routed, named \in BOOLEAN : Arrive(d, routed, named)
          \/ TryRoute(d) \/ TryIntent(d) \/ TryList(d) \/ TryEmpty(d)

GatewaySpec == GatewayInit /\ [][GatewayNext]_gatewayVars

-----------------------------------------------------------------------------
\* A genuine callback is refused only where, since it came in, neither the payment's
\* own method nor any enabled method of its plugin held its key throughout: no edit of
\* another method, and no disabling of its own, makes a customer's payment unverifiable.
GenuineIsTaken ==
    \A d \in Charges : callback[d].at = "refused" =>
        ~callback[d].own /\ callback[d].listed = {} /\ due[d].key # EmptyConfig
=============================================================================
