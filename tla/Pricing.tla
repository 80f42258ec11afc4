------------------------------- MODULE Pricing -------------------------------
(***************************************************************************)
(* What an order costs (service/order.go, coupon.go, provision.go): the    *)
(* price of a configured product, the discount of an agent's tier, and the *)
(* discount of a coupon.  Money is in cents; a specification (cores,       *)
(* memory, ...) is in the smallest unit the product is sold in, so that    *)
(* the code's rounding of float steps is exact here.                       *)
(***************************************************************************)
EXTENDS Integers, Functions

\* SpecRange: the interval, the step and the price of a step.
SpecRange == [min : Nat, max : Nat, step : Int, price : Nat]

\* A row saved without a step counts as one of step 1.
StepOf(range) == IF range.step <= 0 THEN 1 ELSE range.step

\* validateProvisionOptions, for the keys of spec and the chosen image; a choice
\* maps the keys the buyer gave.  No driver: nothing to choose.
OptionsValid(driver, spec, choice, image) ==
    driver =>
        /\ image
        /\ DOMAIN spec \subseteq DOMAIN choice
        /\ \A k \in DOMAIN spec :
              /\ choice[k] \in spec[k].min..spec[k].max
              /\ (choice[k] - spec[k].min) % StepOf(spec[k]) = 0

\* specValue and defaultProvisionOptions: the lower end, or the upper one if it is 0.
SpecDefault(range) == IF range.min > 0 THEN range.min ELSE range.max

\* purchaserProvisionOptions: the keys a buyer may choose, the product's own for the rest.
PurchaserOptions(spec, choice) ==
    [k \in DOMAIN spec |-> IF k \in DOMAIN choice THEN choice[k] ELSE SpecDefault(spec[k])]

\* provisionOptionPrice: what the choice costs above the base specification.
OptionPrice(spec, choice) ==
    SumFunction([k \in DOMAIN spec |->
                    ((choice[k] - spec[k].min) \div StepOf(spec[k])) * spec[k].price])

\* The tier's price: 0 and 1000 per mille stand for no discount.
TierPrice(price, permille) ==
    IF permille > 0 /\ permille < 1000 THEN (price * permille) \div 1000 ELSE price

\* couponEligibleSubtotal: the lines the coupon is for; no products named, all.
EligibleSubtotal(products, qty, unit) ==
    SumFunctionOnSet([p \in DOMAIN qty |-> unit[p] * qty[p]],
                     IF products = {} THEN DOMAIN qty ELSE products \cap DOMAIN qty)

\* couponDiscountCents: per cent with its cap, or a fixed amount; never above the subtotal.
CouponDiscount(coupon, subtotal) ==
    LET percent == (subtotal * coupon.percent) \div 100
        capped == IF coupon.cap > 0 /\ percent > coupon.cap THEN coupon.cap ELSE percent
        wanted == IF coupon.type = "percent" THEN capped ELSE coupon.amount
    IN IF subtotal <= 0 THEN 0 ELSE IF wanted > subtotal THEN subtotal ELSE wanted

\* validateCoupon, the figures of it.
CouponTerms ==
    [type : {"percent"}, percent : 1..99, amount : Nat, cap : Nat, least : Nat]
        \cup [type : {"fixed"}, percent : Nat, amount : Nat \ {0}, cap : Nat, least : Nat]
=============================================================================
