------------------------------ MODULE Checkout ------------------------------
(***************************************************************************)
(* From the cart to the paid order (service/cart.go, order.go, coupon.go,  *)
(* and the administrator's edits of products and coupons in admin.go): the *)
(* carts, orders placed from a cart or directly, with or without the one   *)
(* coupon, payment and cancellation, and the stock.                        *)
(*                                                                         *)
(* Placing an order is one transaction whose reads do not lock, so it has  *)
(* a step that reads and a step that commits; payments, cancellations,     *)
(* edits and other orders may come between.  The other operations decide   *)
(* by a conditional update and are one step.  How money reaches an order   *)
(* is Payment's subject; here an order is paid or not.                     *)
(***************************************************************************)
EXTENDS Pricing, FiniteSets

CONSTANTS
    Buyers, Orders,
    Goods,         \* products
    Configured,    \* those of them with an interface: bought with options, never from a cart
    Offer,         \* Offer[p]: base price, spec, and whether an agreement is attached
    Terms,         \* the coupon's terms (CouponTerms)
    ForGoods,      \* the products the coupon is for; {}: all
    Limits,        \* max_uses and max_uses_per_user the administrator may set; 0: no limit
    Stocks,        \* stock the administrator may set; negative: unlimited
    MaxCartQuantity,
    Permilles,     \* discounts a buyer's tier may give
    MaxEdits       \* bound on the administrator's edits

ASSUME CheckoutAssumption ==
    /\ Configured \subseteq Goods /\ ForGoods \subseteq Goods
    /\ IsFiniteSet(Orders) /\ IsFiniteSet(Goods)
    /\ \A p \in Goods : Offer[p].price \in Nat
    \* validateProduct: what has an interface has a driver and a price for every step.
    /\ \A p \in Configured : /\ Offer[p].driver
                            /\ Offer[p].spec \in [DOMAIN Offer[p].spec -> SpecRange]
                            /\ IsFiniteSet(DOMAIN Offer[p].spec)
    /\ Terms \in CouponTerms /\ Permilles \subseteq 0..1000
    /\ Limits \subseteq Nat /\ Stocks \subseteq Int /\ 0 \in Limits
    /\ MaxCartQuantity \in Nat \ {0} /\ MaxEdits \in Nat

VARIABLES
    goods,         \* the Product rows
    coupon,        \* the Coupon row
    cart,          \* quantity of each product in each buyer's cart
    order,         \* the Order rows
    redeemed,      \* orders with a CouponRedemption row
    placing,       \* what the transaction that places an order has read
    edits          \* edits left to the administrator

checkoutVars == <<goods, coupon, cart, order, redeemed, placing, edits>>

Basket == [Goods -> 0..MaxCartQuantity]
NoBasket == [p \in Goods |-> 0]
Placing == [buyer : Buyers, lines : Basket, total : Nat, coded : BOOLEAN, max : Nat, fromCart : BOOLEAN]
Idle == [buyer |-> "none"]

CheckoutTypeOK ==
    /\ goods \in [Goods -> [status : {"active", "hidden", "deleted"}, stock : Int]]
    /\ coupon \in [status : {"active", "disabled", "deleted"}, used : Nat, max : Limits,
                   perUser : Limits, newOnly : BOOLEAN]
    /\ cart \in [Buyers -> Basket]
    /\ order \in [Orders -> [status : {"none", "pending", "paid", "cancelled"},
                             buyer : Buyers \cup {"none"}, lines : Basket, total : Nat]]
    /\ redeemed \subseteq Orders
    /\ placing \in [Orders -> Placing \cup {Idle}]
    /\ edits \in 0..MaxEdits

CheckoutInit ==
    /\ goods = [p \in Goods |-> [status |-> "active", stock |-> 1]]
    /\ coupon = [status |-> "active", used |-> 0, max |-> 0, perUser |-> 0, newOnly |-> FALSE]
    /\ cart = [u \in Buyers |-> NoBasket]
    /\ order = [o \in Orders |-> [status |-> "none", buyer |-> "none", lines |-> NoBasket, total |-> 0]]
    /\ redeemed = {}
    /\ placing = [o \in Orders |-> Idle]
    /\ edits = MaxEdits

-----------------------------------------------------------------------------
\* Add: the same product again adds up, to the limit.
AddToCart(u, p, n) ==
    /\ goods[p].status = "active" /\ p \notin Configured
    /\ cart' = [cart EXCEPT ![u][p] = IF @ + n > MaxCartQuantity THEN MaxCartQuantity ELSE @ + n]
    /\ UNCHANGED <<goods, coupon, order, redeemed, placing, edits>>

\* UpdateQuantity (n > 0) and Remove (n = 0) of an entry, on sale or not.
SetQuantity(u, p, n) ==
    /\ cart[u][p] > 0
    /\ cart' = [cart EXCEPT ![u][p] = n]
    /\ UNCHANGED <<goods, coupon, order, redeemed, placing, edits>>

\* buildOrderItems refuses a line that is off sale, short of stock or misconfigured.
LineSells(p, n, choice, image) ==
    /\ goods[p].status = "active" /\ (goods[p].stock >= 0 => goods[p].stock >= n)
    /\ p \in Configured => OptionsValid(Offer[p].driver, Offer[p].spec, choice, image)

\* buildOrderItems: the price of one, from the rows alone.
UnitPrice(p, choice, permille) ==
    TierPrice(Offer[p].price + (IF p \in Configured
                                THEN OptionPrice(Offer[p].spec, PurchaserOptions(Offer[p].spec, choice))
                                ELSE 0), permille)

UsedBy(u) == Cardinality({o \in redeemed : order[o].buyer = u})

\* checkCouponUsable; Preview asks the same without using the coupon.
CouponUsable(u) ==
    /\ coupon.status = "active"
    /\ coupon.max > 0 => coupon.used < coupon.max
    /\ coupon.perUser > 0 => UsedBy(u) < coupon.perUser
    /\ coupon.newOnly => ~\E o \in Orders : order[o].buyer = u /\ order[o].status = "paid"

\* applyCoupon and Preview: the goods it is for, and the least it asks.
CouponFits(subtotal) == subtotal > 0 /\ (Terms.least > 0 => subtotal >= Terms.least)

\* The reads of create: prices, stock, agreement and coupon, in one snapshot.
ReadOrder(o, u, lines, choice, image, permille, coded, agree, fromCart) ==
    LET wanted == {p \in Goods : lines[p] > 0}
        unit == [p \in Goods |-> IF p \in wanted THEN UnitPrice(p, choice, permille) ELSE 0]
        whole == EligibleSubtotal({}, lines, unit)
        eligible == EligibleSubtotal(ForGoods, lines, unit)
    IN /\ order[o].status = "none" /\ placing[o] = Idle
       /\ wanted # {} /\ \A p \in wanted : LineSells(p, lines[p], choice, image)
       /\ agree \/ \A p \in wanted : ~Offer[p].agreement
       /\ coded => CouponUsable(u) /\ CouponFits(eligible)
       /\ placing' = [placing EXCEPT ![o] =
              [buyer |-> u, lines |-> lines, coded |-> coded, max |-> coupon.max, fromCart |-> fromCart,
               total |-> whole - IF coded THEN CouponDiscount(Terms, eligible) ELSE 0]]
       /\ UNCHANGED <<goods, coupon, cart, order, redeemed, edits>>

\* createFromCart: the cart as it is, without options.
OrderCart(o, u) ==
    \E permille \in Permilles, coded, agree \in BOOLEAN :
        ReadOrder(o, u, cart[u], <<>>, FALSE, permille, coded, agree, TRUE)

\* createDirect: one line and its options, beside the cart.
OrderDirect(o, u, p) ==
    \E n \in 1..MaxCartQuantity, permille \in Permilles, coded, agree, image \in BOOLEAN :
        \E choice \in Offer[p].choices :
            ReadOrder(o, u, [NoBasket EXCEPT ![p] = n], choice, image, permille, coded, agree, FALSE)

\* Mutant: the use is counted without the condition.
UseUnchecked(o) ==
    /\ coupon' = [coupon EXCEPT !.used = @ + 1]
    /\ redeemed' = redeemed \cup {o}

\* applyCoupon: the limit that was read is asked of the count that is there now.
\* A coupon deleted meanwhile refuses where it had a limit (no row is updated).
UseCoupon(o) ==
    /\ placing[o].max > 0 => coupon.status # "deleted" /\ coupon.used < placing[o].max
    /\ coupon' = IF coupon.status = "deleted" THEN coupon ELSE [coupon EXCEPT !.used = @ + 1]
    /\ redeemed' = redeemed \cup {o}

\* create's writes: order, invoice, use of the coupon; a cart that was ordered is cleared.
PlaceOrder(o) ==
    LET read == placing[o]
    IN /\ read # Idle
       /\ order' = [order EXCEPT ![o] = [status |-> "pending", buyer |-> read.buyer,
                                         lines |-> read.lines, total |-> read.total]]
       /\ IF read.coded THEN UseCoupon(o) ELSE UNCHANGED <<coupon, redeemed>>
       /\ cart' = IF read.fromCart THEN [cart EXCEPT ![read.buyer] = NoBasket] ELSE cart
       /\ placing' = [placing EXCEPT ![o] = Idle]
       /\ UNCHANGED <<goods, edits>>

\* The transaction fails and rolls back, as it does when the coupon has run out.
AbandonOrder(o) ==
    /\ placing[o] # Idle
    /\ placing' = [placing EXCEPT ![o] = Idle]
    /\ UNCHANGED <<goods, coupon, cart, order, redeemed, edits>>

\* payInTx: every product must still exist; stock that is limited is reduced, by
\* whatever the order takes.
PayOrder(o) ==
    /\ order[o].status = "pending"
    /\ \A p \in Goods : order[o].lines[p] > 0 => goods[p].status # "deleted"
    /\ order' = [order EXCEPT ![o].status = "paid"]
    /\ goods' = [p \in Goods |-> IF goods[p].stock >= 0
                                 THEN [goods[p] EXCEPT !.stock = @ - order[o].lines[p]] ELSE goods[p]]
    /\ UNCHANGED <<coupon, cart, redeemed, placing, edits>>

\* Mutant: a cancelled order keeps its redemption.
NothingReleased(o) == UNCHANGED <<coupon, redeemed>>

\* releaseCoupon: the use is given back, but never below zero.
ReleaseCoupon(o) ==
    /\ redeemed' = redeemed \ {o}
    /\ coupon' = IF o \in redeemed /\ coupon.status # "deleted" /\ coupon.used > 0
                 THEN [coupon EXCEPT !.used = @ - 1] ELSE coupon

\* Cancel.
CancelOrder(o) ==
    /\ order[o].status = "pending"
    /\ order' = [order EXCEPT ![o].status = "cancelled"]
    /\ ReleaseCoupon(o)
    /\ UNCHANGED <<goods, cart, placing, edits>>

-----------------------------------------------------------------------------
\* UpdateProduct writes the whole form, the stock it showed included.
EditProduct(p, status, stock) ==
    /\ edits > 0 /\ goods[p].status # "deleted"
    /\ goods' = [goods EXCEPT ![p] = [status |-> status, stock |-> stock]]
    /\ edits' = edits - 1
    /\ UNCHANGED <<coupon, cart, order, redeemed, placing>>

\* DeleteProduct: refused once a service exists; carts lose it, orders do not.
DeleteProduct(p) ==
    /\ edits > 0 /\ goods[p].status # "deleted"
    /\ ~\E o \in Orders : order[o].status = "paid" /\ order[o].lines[p] > 0
    /\ goods' = [goods EXCEPT ![p].status = "deleted"]
    /\ cart' = [u \in Buyers |-> [cart[u] EXCEPT ![p] = 0]]
    /\ edits' = edits - 1
    /\ UNCHANGED <<coupon, order, redeemed, placing>>

\* Update of the coupon: everything but the code and the count.
EditCoupon(status, max, perUser, newOnly) ==
    /\ edits > 0 /\ coupon.status # "deleted"
    /\ coupon' = [coupon EXCEPT !.status = status, !.max = max, !.perUser = perUser, !.newOnly = newOnly]
    /\ edits' = edits - 1
    /\ UNCHANGED <<goods, cart, order, redeemed, placing>>

\* Delete: the redemptions stay.
DeleteCoupon ==
    /\ edits > 0 /\ coupon.status # "deleted"
    /\ coupon' = [coupon EXCEPT !.status = "deleted"]
    /\ edits' = edits - 1
    /\ UNCHANGED <<goods, cart, order, redeemed, placing>>

CheckoutNext ==
    \/ \E u \in Buyers, p \in Goods :
          \/ \E n \in 1..MaxCartQuantity : AddToCart(u, p, n)
          \/ \E n \in 0..MaxCartQuantity : SetQuantity(u, p, n)
          \/ \E o \in Orders : OrderDirect(o, u, p)
    \/ \E o \in Orders :
          \/ \E u \in Buyers : OrderCart(o, u)
          \/ PlaceOrder(o) \/ AbandonOrder(o) \/ PayOrder(o) \/ CancelOrder(o)
    \/ \E p \in Goods :
          \/ \E status \in {"active", "hidden"}, stock \in Stocks : EditProduct(p, status, stock)
          \/ DeleteProduct(p)
    \/ \E status \in {"active", "disabled"}, max, perUser \in Limits, newOnly \in BOOLEAN :
          EditCoupon(status, max, perUser, newOnly)
    \/ DeleteCoupon

CheckoutSpec == CheckoutInit /\ [][CheckoutNext]_checkoutVars

-----------------------------------------------------------------------------
\* The coupon's count is what it says: one for each order that used it and was not
\* cancelled, whatever orders, cancellations and edits were under way together.
RedemptionsCounted ==
    /\ \A o \in redeemed : order[o].status \in {"pending", "paid"}
    /\ coupon.status # "deleted" => coupon.used = Cardinality(redeemed)

\* A use never goes past the limit its order was placed under ("only one of the
\* concurrent orders wins").
WithinLimit ==
    \A o \in redeemed' \ redeemed : placing[o].max > 0 => coupon'.used <= placing[o].max
=============================================================================
