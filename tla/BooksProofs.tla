------------------------------- MODULE BooksProofs -----------------------------
(***************************************************************************)
(* Money and counts, for any orders, coupons, invoices, mails and          *)
(* attempts: what the ledgers add up to (BooksAgree, MCPlatform.tla), and  *)
(* that what a step takes is there to be taken (StepsEarned).  Each part   *)
(* has its own inductive invariant; the sums change by one term a step     *)
(* (Sums.tla), which is all that the parts ask of them.  Last, the types   *)
(* of the whole (PlatformTypeOK), from the invariants of the parts here,   *)
(* in AccessProofs and in HeldProofs.                                      *)
(***************************************************************************)
EXTENDS AccessProofs, HeldProofs, Sums

-----------------------------------------------------------------------------
(* The affiliate's account.                                                *)

\* What is free, reserved and paid out is what was earned.
LedgerAdds ==
    /\ account \in [balance : Int, reserved : Int, earned : Int] /\ payout \in Int
    /\ account.balance + account.reserved + payout = account.earned
    /\ scheme \in [open : BOOLEAN, rate : Rates]
    /\ sale \in [Sales -> [paid : BOOLEAN, refunded : Nat]]
    /\ commission \in [Sales -> [amount : Int, reversed : Int]]
    /\ claim \in [Claims -> [status : {"none", "pending", "approved", "rejected"}, cents : Int]]

LEMMA LedgerStart == AffiliateInit => LedgerAdds
BY AffiliateAssumption DEF AffiliateInit, LedgerAdds

\* The integer part of a share is an integer.
LEMMA Shares ==
  ASSUME NEW a \in Int, NEW b \in Int, NEW c \in Nat \ {0}
  PROVE  Share(a, b, c) \in Int
<1> DEFINE p == a * b
<1>1. p \in Int  OBVIOUS
<1>2. p \div c \in Int
  <2> HIDE DEF p
  <2> QED  BY <1>1
<1>3. QED  BY <1>2 DEF Share

\* The account with `free` more to dispose of, `kept` more reserved and `won` more earned.
LEMMA AccountMoves ==
  ASSUME LedgerAdds, NEW free \in Int, NEW kept \in Int, NEW won \in Int, NEW out \in Int,
         account' = [balance |-> account.balance + free, reserved |-> account.reserved + kept,
                     earned |-> account.earned + won],
         payout' = payout + out, free + kept + out = won
  PROVE  /\ account' \in [balance : Int, reserved : Int, earned : Int] /\ payout' \in Int
         /\ account'.balance + account'.reserved + payout' = account'.earned
<1> DEFINE b == account.balance
           r == account.reserved
           e == account.earned
<1>1. b \in Int /\ r \in Int /\ e \in Int /\ payout \in Int /\ b + r + payout = e
  BY DEF LedgerAdds
<1>2. account'.balance = b + free /\ account'.reserved = r + kept /\ account'.earned = e + won
  OBVIOUS
<1>3. b + free \in Int /\ r + kept \in Int /\ e + won \in Int /\ payout' \in Int
      /\ (b + free) + (r + kept) + payout' = e + won
  <2> HIDE DEF b, r, e
  <2> QED  BY <1>1
<1>4. account' = [balance |-> b + free, reserved |-> r + kept, earned |-> e + won]  OBVIOUS
<1>5. account' \in [balance : Int, reserved : Int, earned : Int]
  <2> HIDE DEF b, r, e
  <2> QED  BY <1>3, <1>4
<1>6. QED  BY <1>2, <1>3, <1>5

LEMMA LedgerStep == LedgerAdds /\ [AffiliateNext]_affiliateVars => LedgerAdds'
<1> SUFFICES ASSUME LedgerAdds, [AffiliateNext]_affiliateVars PROVE LedgerAdds'  OBVIOUS
<1>0. /\ account \in [balance : Int, reserved : Int, earned : Int] /\ payout \in Int
      /\ scheme \in [open : BOOLEAN, rate : Rates]
      /\ sale \in [Sales -> [paid : BOOLEAN, refunded : Nat]]
      /\ commission \in [Sales -> [amount : Int, reversed : Int]]
      /\ claim \in [Claims -> [status : {"none", "pending", "approved", "rejected"}, cents : Int]]
  BY DEF LedgerAdds
<1>9. (\A o \in Sales : Total[o] \in Nat) /\ Rates \subseteq Int  BY AffiliateAssumption
<1>1. CASE UNCHANGED affiliateVars  BY <1>1 DEF affiliateVars, LedgerAdds
<1>2. ASSUME NEW open \in BOOLEAN, NEW rate \in Rates, SetScheme(open, rate) PROVE LedgerAdds'
  BY <1>2 DEF SetScheme, LedgerAdds
<1>3. CASE JoinScheme \/ RegisterReferred  BY <1>3 DEF JoinScheme, RegisterReferred, LedgerAdds
<1>4. ASSUME NEW o \in Sales, SalePaid(o) PROVE LedgerAdds'
  <2> DEFINE cents == Earns(o)
  <2>1. cents \in Int
    <3> DEFINE whole == 10000
    <3>1. whole \in Nat \ {0}  OBVIOUS
    <3>2. scheme.rate \in Int  BY <1>0, <1>9
    <3>3. Total[o] \in Int  BY <1>9
    <3>4. Share(Total[o], scheme.rate, whole) \in Int
      <4> HIDE DEF whole
      <4> QED  BY <3>1, <3>2, <3>3, Shares
    <3>5. QED  BY <3>4 DEF Earns
  <2>2. /\ sale' = [sale EXCEPT ![o].paid = TRUE]
        /\ commission' = [commission EXCEPT ![o].amount = cents]
        /\ account' = [account EXCEPT !.balance = @ + cents, !.earned = @ + cents]
        /\ UNCHANGED <<scheme, claim, payout>>
    BY <1>4 DEF SalePaid
  <2> HIDE DEF cents
  <2>3. account' = [balance |-> account.balance + cents, reserved |-> account.reserved + 0,
                    earned |-> account.earned + cents] /\ payout' = payout + 0
    <3>1. account.reserved \in Int /\ payout \in Int  BY <1>0
    <3>2. account.reserved + 0 = account.reserved /\ payout + 0 = payout  BY <3>1
    <3>3. account' = [balance |-> account.balance + cents, reserved |-> account.reserved,
                      earned |-> account.earned + cents]
      BY <1>0, <2>2
    <3>4. QED  BY <2>2, <3>2, <3>3
  <2>4. account' \in [balance : Int, reserved : Int, earned : Int] /\ payout' \in Int
        /\ account'.balance + account'.reserved + payout' = account'.earned
    BY <2>1, <2>3, AccountMoves
  <2>5. sale' \in [Sales -> [paid : BOOLEAN, refunded : Nat]]
        /\ commission' \in [Sales -> [amount : Int, reversed : Int]]
    BY <1>0, <2>1, <2>2
  <2>6. QED  BY <1>0, <2>2, <2>4, <2>5 DEF LedgerAdds
<1>5. ASSUME NEW o \in Sales, NEW refund \in 1..Total[o], SaleRefunded(o, refund) PROVE LedgerAdds'
  <2> DEFINE back == Reversal(o, refund)
  <2>0. Total[o] \in Nat \ {0} /\ refund \in Nat
    <3>1. Total[o] \in Nat  BY <1>9
    <3>2. QED  BY <3>1
  <2>1. back \in Int
    <3>1. sale[o].refunded + refund \in Int /\ commission[o].amount \in Int
          /\ commission[o].reversed \in Int
      BY <1>0, <2>0
    <3>2. Share(commission[o].amount, sale[o].refunded + refund, Total[o]) \in Int
      BY <2>0, <3>1, Shares
    <3>3. QED  BY <3>1, <3>2 DEF Reversal
  <2>2. /\ sale' = [sale EXCEPT ![o].refunded = @ + refund]
        /\ commission' = [commission EXCEPT ![o].reversed = @ + back]
        /\ account' = [account EXCEPT !.balance = @ - back, !.earned = @ - back]
        /\ UNCHANGED <<scheme, claim, payout>>
    BY <1>5 DEF SaleRefunded
  <2> HIDE DEF back
  <2>3. account' = [balance |-> account.balance + (-back), reserved |-> account.reserved + 0,
                    earned |-> account.earned + (-back)] /\ payout' = payout + 0
    <3>1. /\ account.balance \in Int /\ account.reserved \in Int /\ account.earned \in Int
          /\ payout \in Int
      BY <1>0
    <3>2. /\ account.balance - back = account.balance + (-back)
          /\ account.earned - back = account.earned + (-back)
          /\ account.reserved + 0 = account.reserved /\ payout + 0 = payout
      BY <2>1, <3>1
    <3>3. account' = [balance |-> account.balance - back, reserved |-> account.reserved,
                      earned |-> account.earned - back]
      BY <1>0, <2>2
    <3>4. QED  BY <2>2, <3>2, <3>3
  <2>4. -back \in Int /\ (-back) + 0 + 0 = -back  BY <2>1
  <2>5. account' \in [balance : Int, reserved : Int, earned : Int] /\ payout' \in Int
        /\ account'.balance + account'.reserved + payout' = account'.earned
    BY <2>3, <2>4, AccountMoves
  <2>6. sale' \in [Sales -> [paid : BOOLEAN, refunded : Nat]]
    BY <1>0, <2>0, <2>2
  <2>7. commission' \in [Sales -> [amount : Int, reversed : Int]]
    BY <1>0, <2>1, <2>2
  <2>8. QED  BY <1>0, <2>2, <2>5, <2>6, <2>7 DEF LedgerAdds
<1>6. ASSUME NEW w \in Claims, ApproveClaim(w) \/ RejectClaim(w) PROVE LedgerAdds'
  <2> DEFINE cents == claim[w].cents
  <2>1. cents \in Int /\ -cents \in Int
    <3>1. cents \in Int  BY <1>0
    <3> HIDE DEF cents
    <3>2. QED  BY <3>1
  <2>2. claim' \in [Claims -> [status : {"none", "pending", "approved", "rejected"}, cents : Int]]
    <3>1. \E s \in {"approved", "rejected"} : claim' = [claim EXCEPT ![w].status = s]
      BY <1>6 DEF ApproveClaim, RejectClaim
    <3>2. QED  BY <1>0, <3>1
  <2>3. \/ /\ account' = [account EXCEPT !.reserved = @ - cents] /\ payout' = payout + cents
        \/ /\ account' = [account EXCEPT !.reserved = @ - cents, !.balance = @ + cents]
           /\ payout' = payout
    BY <1>6 DEF ApproveClaim, RejectClaim
  <2>4. UNCHANGED <<scheme, sale, commission>>  BY <1>6 DEF ApproveClaim, RejectClaim
  <2> HIDE DEF cents
  <2>5. \E free, out \in Int :
           /\ account' = [balance |-> account.balance + free, reserved |-> account.reserved + (-cents),
                          earned |-> account.earned + 0]
           /\ payout' = payout + out /\ free + (-cents) + out = 0
    <3>0. /\ account.balance \in Int /\ account.reserved \in Int /\ account.earned \in Int
          /\ payout \in Int
      BY <1>0
    <3>4. /\ account.reserved - cents = account.reserved + (-cents)
          /\ account.balance + 0 = account.balance /\ account.earned + 0 = account.earned
          /\ payout + 0 = payout /\ 0 + (-cents) + cents = 0 /\ cents + (-cents) + 0 = 0
      BY <2>1, <3>0
    <3>1. CASE account' = [account EXCEPT !.reserved = @ - cents] /\ payout' = payout + cents
      <4>1. account' = [balance |-> account.balance, reserved |-> account.reserved - cents,
                        earned |-> account.earned]
        BY <1>0, <3>1
      <4>2. account' = [balance |-> account.balance + 0, reserved |-> account.reserved + (-cents),
                        earned |-> account.earned + 0]
        BY <3>4, <4>1
      <4>3. 0 \in Int  OBVIOUS
      <4>4. QED  BY <2>1, <3>1, <3>4, <4>2, <4>3
    <3>2. CASE /\ account' = [account EXCEPT !.reserved = @ - cents, !.balance = @ + cents]
               /\ payout' = payout
      <4>1. account' = [balance |-> account.balance + cents, reserved |-> account.reserved - cents,
                        earned |-> account.earned]
        BY <1>0, <3>2
      <4>2. account' = [balance |-> account.balance + cents, reserved |-> account.reserved + (-cents),
                        earned |-> account.earned + 0]
        BY <3>4, <4>1
      <4>3. 0 \in Int  OBVIOUS
      <4>4. QED  BY <2>1, <3>2, <3>4, <4>2, <4>3
    <3>3. QED  BY <2>3, <3>1, <3>2
  <2>6. account' \in [balance : Int, reserved : Int, earned : Int] /\ payout' \in Int
        /\ account'.balance + account'.reserved + payout' = account'.earned
    <3>1. 0 \in Int  OBVIOUS
    <3>2. QED  BY <2>1, <2>5, <3>1, AccountMoves
  <2>7. QED  BY <1>0, <2>2, <2>4, <2>6 DEF LedgerAdds
<1>7. ASSUME NEW w \in Claims, NEW cents \in MinClaim..account.balance, Withdraw(w, cents) PROVE LedgerAdds'
  <2>1. cents \in Int /\ -cents \in Int  BY <1>0, AffiliateAssumption
  <2>2. /\ claim' = [claim EXCEPT ![w] = [status |-> "pending", cents |-> cents]]
        /\ account' = [account EXCEPT !.balance = @ - cents, !.reserved = @ + cents]
        /\ UNCHANGED <<scheme, sale, commission, payout>>
    BY <1>7 DEF Withdraw
  <2>3. claim' \in [Claims -> [status : {"none", "pending", "approved", "rejected"}, cents : Int]]
    BY <1>0, <2>1, <2>2
  <2>4. account' = [balance |-> account.balance + (-cents), reserved |-> account.reserved + cents,
                    earned |-> account.earned + 0] /\ payout' = payout + 0
    <3>1. account.balance \in Int /\ account.earned \in Int /\ payout \in Int  BY <1>0
    <3>2. /\ account.balance - cents = account.balance + (-cents)
          /\ account.earned + 0 = account.earned /\ payout + 0 = payout
      BY <2>1, <3>1
    <3>3. account' = [balance |-> account.balance - cents, reserved |-> account.reserved + cents,
                      earned |-> account.earned]
      BY <1>0, <2>2
    <3>4. QED  BY <2>2, <3>2, <3>3
  <2>5. (-cents) + cents + 0 = 0  BY <2>1
  <2>6. account' \in [balance : Int, reserved : Int, earned : Int] /\ payout' \in Int
        /\ account'.balance + account'.reserved + payout' = account'.earned
    BY <2>1, <2>4, <2>5, AccountMoves
  <2>7. QED  BY <1>0, <2>2, <2>3, <2>6 DEF LedgerAdds
<1>8. QED  BY <1>1, <1>2, <1>3, <1>4, <1>5, <1>6, <1>7 DEF AffiliateNext

LEMMA PayoutsAreEarned ==
  LedgerAdds /\ [AffiliateNext]_affiliateVars => PayoutsEarned
<1> SUFFICES ASSUME LedgerAdds, [AffiliateNext]_affiliateVars, payout' > payout
             PROVE  payout' + account'.reserved <= account'.earned
  BY DEF PayoutsEarned
<1>1. payout \in Int /\ account \in [balance : Int, reserved : Int, earned : Int]
      /\ account.balance + account.reserved + payout = account.earned
  BY DEF LedgerAdds
<1>2. payout' # payout  BY <1>1
<1>3. PICK w \in Claims : ApproveClaim(w)
  BY <1>2 DEF AffiliateNext, affiliateVars, SetScheme, JoinScheme, RegisterReferred, SalePaid,
              SaleRefunded, RejectClaim, Withdraw
<1>4. claim[w].cents \in Int  BY DEF LedgerAdds
<1>5. QED  BY <1>1, <1>3, <1>4 DEF ApproveClaim, Payable

\* A share is a natural number and grows with the part.
LEMMA ShareGrows ==
  ASSUME NEW a \in Nat, NEW p \in Nat, NEW q \in Nat, p <= q, NEW c \in Nat \ {0}
  PROVE  Share(a, p, c) \in Nat /\ Share(a, q, c) \in Nat /\ Share(a, p, c) <= Share(a, q, c)
<1> DEFINE x == a * p
           y == a * q
           d == q - p
<1>1. d \in Nat /\ q = p + d  OBVIOUS
<1>2. a * d \in Nat /\ a * (p + d) = a * p + a * d
  <2> HIDE DEF d
  <2> QED  BY <1>1
<1>3. x \in Nat /\ y \in Nat /\ x <= y
  <2> DEFINE e == a * d
  <2>1. x \in Nat /\ y \in Nat  OBVIOUS
  <2>2. y = x + e /\ e \in Nat  BY <1>1, <1>2
  <2> HIDE DEF x, y, e
  <2>3. QED  BY <2>1, <2>2
<1>4. x \div c \in Nat /\ y \div c \in Nat /\ x \div c <= y \div c
  <2> DEFINE u == x \div c
             v == y \div c
             r == x % c
             s == y % c
  <2> HIDE DEF x, y
  <2>1. /\ u \in Int /\ v \in Int /\ r \in 0..(c-1) /\ s \in 0..(c-1)
        /\ x = c * u + r /\ y = c * v + s
    BY <1>3
  <2> HIDE DEF u, v, r, s
  <2>2. u >= 0 /\ v >= 0
    BY <1>3, <2>1
  <2>3. u <= v
    <3>1. SUFFICES ASSUME v + 1 <= u PROVE FALSE  BY <2>1
    <3>2. c * (v + 1) <= c * u
      <4> DEFINE k == u - (v + 1)
      <4>1. k \in Nat /\ u = (v + 1) + k  BY <2>1, <3>1
      <4> HIDE DEF k
      <4>2. c * ((v + 1) + k) = c * (v + 1) + c * k /\ c * k >= 0
            /\ c * (v + 1) \in Int /\ c * k \in Int
        BY <2>1, <4>1
      <4>3. QED  BY <4>1, <4>2
    <3>3. c * (v + 1) = c * v + c  BY <2>1
    <3>4. c * v \in Int /\ c * u \in Int  BY <2>1
    <3>5. QED  BY <1>3, <2>1, <3>2, <3>3, <3>4
  <2>4. QED  BY <2>1, <2>2, <2>3 DEF u, v
<1>5. QED  BY <1>4 DEF Share

\* The ledger behind the account, order by order and request by request.
SaleBooked(o) ==
    /\ commission[o].amount \in Nat /\ commission[o].reversed \in Nat
    /\ ~sale[o].paid => sale[o].refunded = 0 /\ commission[o].amount = 0 /\ commission[o].reversed = 0
    /\ sale[o].refunded <= Total[o]
    /\ Total[o] > 0 =>
          commission[o].reversed = Share(commission[o].amount, sale[o].refunded, Total[o])

CommissionsBooked ==
    /\ LedgerAdds /\ payout \in Nat
    /\ referral \in [joined : BOOLEAN, attached : BOOLEAN]
    /\ \A o \in Sales : SaleBooked(o)
    /\ \A w \in Claims : claim[w].cents \in Nat
    /\ account.earned = SumFunctionOnSet(CommissionKept, Sales)
    /\ account.reserved = SumFunctionOnSet(ClaimAsked, Claims)

LEMMA CommissionsStart == AffiliateInit => CommissionsBooked
<1> SUFFICES ASSUME AffiliateInit PROVE CommissionsBooked  OBVIOUS
<1>1. (\A o \in Sales : CommissionKept[o] = 0) /\ (\A w \in Claims : ClaimAsked[w] = 0)
  BY DEF AffiliateInit, CommissionKept, ClaimAsked
<1>2. SumFunctionOnSet(CommissionKept, Sales) = 0 /\ SumFunctionOnSet(ClaimAsked, Claims) = 0
  BY <1>1, AffiliateAssumption, SumZero
<1>3. ASSUME NEW o \in Sales PROVE SaleBooked(o)
  <2>1. sale[o] = [paid |-> FALSE, refunded |-> 0] /\ commission[o] = [amount |-> 0, reversed |-> 0]
    BY DEF AffiliateInit
  <2>2. Total[o] \in Nat  BY AffiliateAssumption
  <2>3. ASSUME Total[o] > 0 PROVE Share(0, 0, Total[o]) = 0
    <3>1. 0 * 0 = 0  OBVIOUS
    <3>2. 0 \div Total[o] = 0  BY <2>2, <2>3
    <3>3. QED  BY <3>1, <3>2 DEF Share
  <2>4. QED  BY <2>1, <2>2, <2>3 DEF SaleBooked
<1>4. QED  BY <1>2, <1>3, LedgerStart DEF AffiliateInit, CommissionsBooked

\* Its terms are numbers.
LEMMA CommissionTerms ==
  ASSUME CommissionsBooked
  PROVE  /\ \A o \in Sales : CommissionKept[o] \in Int
         /\ \A w \in Claims : ClaimAsked[w] \in Nat
         /\ account.earned \in Int /\ account.reserved \in Nat
<1>1. \A o \in Sales : CommissionKept[o] \in Int
  <2> TAKE o \in Sales
  <2> DEFINE x == commission[o].amount
             y == commission[o].reversed
  <2>1. x \in Int /\ y \in Int  BY DEF CommissionsBooked, LedgerAdds
  <2>2. x - y \in Int
    <3> HIDE DEF x, y
    <3> QED  BY <2>1
  <2>3. QED  BY <2>2 DEF CommissionKept
<1>2. \A w \in Claims : ClaimAsked[w] \in Nat  BY DEF CommissionsBooked, ClaimAsked
<1>3. account.reserved \in Nat
  BY <1>2, AffiliateAssumption, SumNatural DEF CommissionsBooked
<1>4. QED  BY <1>1, <1>2, <1>3 DEF CommissionsBooked, LedgerAdds

\* One order's row moves, and what was earned with it.
LEMMA OneSaleMoves ==
  ASSUME CommissionsBooked, LedgerAdds', UNCHANGED <<payout, claim, referral>>, NEW o \in Sales,
         \A p \in Sales \ {o} : sale'[p] = sale[p] /\ commission'[p] = commission[p],
         SaleBooked(o)', account'.reserved = account.reserved,
         account'.earned + CommissionKept[o] = account.earned + CommissionKept'[o]
  PROVE  CommissionsBooked'
<1> DEFINE s == account.earned
           s2 == account'.earned
           p == CommissionKept[o]
           q == CommissionKept'[o]
<1>1. \A x \in Sales : CommissionKept[x] \in Int  BY CommissionTerms
<1>2. \A x \in Sales \ {o} : CommissionKept'[x] = CommissionKept[x]  BY DEF CommissionKept
<1>3. q \in Int
  <2> DEFINE x == commission'[o].amount
             y == commission'[o].reversed
  <2>1. x \in Int /\ y \in Int  BY DEF LedgerAdds
  <2>2. x - y \in Int
    <3> HIDE DEF x, y
    <3> QED  BY <2>1
  <2>3. QED  BY <2>2 DEF CommissionKept
<1>4. SumFunctionOnSet(CommissionKept', Sales) = s + (q - p)
  <2> DEFINE f == CommissionKept
             g == CommissionKept'
  <2>1. \A x \in Sales : f[x] \in Int /\ g[x] \in Int /\ (x # o => f[x] = g[x])
    BY <1>1, <1>2, <1>3
  <2>2. IsFiniteSet(Sales) /\ s = SumFunctionOnSet(f, Sales)
    BY AffiliateAssumption DEF CommissionsBooked
  <2> HIDE DEF f, g
  <2>3. SumFunctionOnSet(g, Sales) = SumFunctionOnSet(f, Sales) + (g[o] - f[o])
    BY <2>1, <2>2, SumChange
  <2>4. QED  BY <2>2, <2>3 DEF f, g
<1>5. s2 = s + (q - p)
  <2>1. s \in Int /\ s2 \in Int /\ p \in Int /\ s2 + p = s + q
    BY <1>1 DEF LedgerAdds, CommissionsBooked
  <2> HIDE DEF s, s2, p, q
  <2>2. QED  BY <1>3, <2>1
<1>6. ClaimAsked' = ClaimAsked  BY DEF ClaimAsked
<1>7. \A x \in Sales : SaleBooked(x)'  BY DEF CommissionsBooked, SaleBooked
<1>8. QED  BY <1>4, <1>5, <1>6, <1>7 DEF CommissionsBooked

\* One request's row moves, and what is reserved with it.
LEMMA OneClaimMoves ==
  ASSUME CommissionsBooked, LedgerAdds', UNCHANGED <<sale, commission, referral>>, NEW w \in Claims,
         \A v \in Claims \ {w} : claim'[v] = claim[v],
         claim'[w].cents \in Nat, payout' \in Nat, account'.earned = account.earned,
         account'.reserved + ClaimAsked[w] = account.reserved + ClaimAsked'[w]
  PROVE  CommissionsBooked'
<1> DEFINE s == account.reserved
           s2 == account'.reserved
           p == ClaimAsked[w]
           q == ClaimAsked'[w]
<1>1. \A x \in Claims : ClaimAsked[x] \in Int  BY CommissionTerms
<1>2. \A x \in Claims \ {w} : ClaimAsked'[x] = ClaimAsked[x]  BY DEF ClaimAsked
<1>3. q \in Int  BY DEF ClaimAsked
<1>4. SumFunctionOnSet(ClaimAsked', Claims) = s + (q - p)
  <2> DEFINE f == ClaimAsked
             g == ClaimAsked'
  <2>1. \A x \in Claims : f[x] \in Int /\ g[x] \in Int /\ (x # w => f[x] = g[x])
    BY <1>1, <1>2, <1>3
  <2>2. IsFiniteSet(Claims) /\ s = SumFunctionOnSet(f, Claims)
    BY AffiliateAssumption DEF CommissionsBooked
  <2> HIDE DEF f, g
  <2>3. SumFunctionOnSet(g, Claims) = SumFunctionOnSet(f, Claims) + (g[w] - f[w])
    BY <2>1, <2>2, SumChange
  <2>4. QED  BY <2>2, <2>3 DEF f, g
<1>5. s2 = s + (q - p)
  <2>1. s \in Int /\ s2 \in Int /\ p \in Int /\ s2 + p = s + q
    BY <1>1 DEF LedgerAdds, CommissionsBooked
  <2> HIDE DEF s, s2, p, q
  <2>2. QED  BY <1>3, <2>1
<1>6. CommissionKept' = CommissionKept  BY DEF CommissionKept
<1>7. (\A x \in Sales : SaleBooked(x)') /\ (\A x \in Claims : claim'[x].cents \in Nat)
  BY DEF CommissionsBooked, SaleBooked
<1>8. QED  BY <1>4, <1>5, <1>6, <1>7 DEF CommissionsBooked

\* What an order earns.
LEMMA EarnsNatural == ASSUME CommissionsBooked, NEW o \in Sales PROVE Earns(o) \in Nat
<1> DEFINE whole == 10000
<1>r. \A r \in Rates : r \in Nat  BY AffiliateAssumption
<1>s. Total[o] \in Nat  BY AffiliateAssumption
<1>w. whole \in Nat \ {0}  OBVIOUS
<1> HIDE DEF whole
<1>t. scheme.rate \in Rates  BY DEF CommissionsBooked, LedgerAdds
<1>1. scheme.rate \in Nat /\ Total[o] \in Nat /\ whole \in Nat \ {0}
  BY <1>r, <1>s, <1>w, <1>t, Zenon
<1>2. Share(Total[o], scheme.rate, whole) \in Nat
  <2>1. scheme.rate <= scheme.rate  BY <1>1
  <2>2. QED  BY <1>1, <2>1, ShareGrows
<1>3. QED  BY <1>2 DEF Earns, whole

\* Nothing is taken back where nothing was refunded.
LEMMA NoShare == ASSUME NEW a \in Nat, NEW c \in Nat \ {0} PROVE Share(a, 0, c) = 0
<1>1. a * 0 = 0  OBVIOUS
<1>2. 0 \div c = 0  OBVIOUS
<1>3. QED  BY <1>1, <1>2 DEF Share

\* The reversal of a refund brings the commission to its share.
LEMMA ReversalReaches ==
  ASSUME CommissionsBooked, NEW o \in Sales, NEW refund \in 1..Total[o],
         sale[o].refunded + refund <= Total[o]
  PROVE  /\ Reversal(o, refund) \in Int
         /\ commission[o].reversed + Reversal(o, refund)
              = Share(commission[o].amount, sale[o].refunded + refund, Total[o])
         /\ commission[o].reversed + Reversal(o, refund) \in Nat
<1> DEFINE a == commission[o].amount
           b == commission[o].reversed
           r == sale[o].refunded
           t == Total[o]
           now == Share(a, r, t)
           target == Share(a, r + refund, t)
<1>1. a \in Nat /\ b \in Nat /\ r \in Nat /\ t \in Nat
  <2>1. a \in Nat /\ b \in Nat  BY DEF CommissionsBooked, SaleBooked
  <2>2. r \in Nat  BY DEF CommissionsBooked, LedgerAdds
  <2>3. t \in Nat  BY AffiliateAssumption
  <2>4. QED  BY <2>1, <2>2, <2>3
<1>2. t \in Nat \ {0} /\ t > 0 /\ refund \in Nat /\ r + refund \in Nat /\ r <= r + refund
  <2>1. refund \in 1..t  OBVIOUS
  <2> HIDE DEF t, r
  <2>2. QED  BY <1>1, <2>1
<1>3. b = now  BY <1>2 DEF CommissionsBooked, SaleBooked
<1>4. now \in Nat /\ target \in Nat /\ now <= target
  <2> HIDE DEF a, r, t
  <2> QED  BY <1>1, <1>2, ShareGrows
<1>5. Reversal(o, refund) = IF target > b THEN target - b ELSE 0  BY DEF Reversal
<1> HIDE DEF a, b, r, t, now, target
<1>6. Reversal(o, refund) \in Int /\ b + Reversal(o, refund) = target /\ target \in Nat
  BY <1>1, <1>3, <1>4, <1>5
<1>7. QED  BY <1>6 DEF a, b, r, t, target

LEMMA CommissionsStep == CommissionsBooked /\ [AffiliateNext]_affiliateVars => CommissionsBooked'
<1> SUFFICES ASSUME CommissionsBooked, [AffiliateNext]_affiliateVars PROVE CommissionsBooked'
  OBVIOUS
<1>0. LedgerAdds'  BY LedgerStep DEF CommissionsBooked
<1>t. /\ account \in [balance : Int, reserved : Int, earned : Int] /\ payout \in Int
      /\ sale \in [Sales -> [paid : BOOLEAN, refunded : Nat]]
      /\ commission \in [Sales -> [amount : Int, reversed : Int]]
      /\ claim \in [Claims -> [status : {"none", "pending", "approved", "rejected"}, cents : Int]]
  BY DEF LedgerAdds, CommissionsBooked
<1>u. payout \in Nat /\ \A w \in Claims : claim[w].cents \in Nat  BY DEF CommissionsBooked
<1>1. ASSUME UNCHANGED <<sale, commission, account, claim, payout>>,
             referral' \in [joined : BOOLEAN, attached : BOOLEAN]
      PROVE  CommissionsBooked'
  <2>1. CommissionKept' = CommissionKept /\ ClaimAsked' = ClaimAsked
    BY <1>1 DEF CommissionKept, ClaimAsked
  <2>2. \A o \in Sales : SaleBooked(o)'  BY <1>1 DEF CommissionsBooked, SaleBooked
  <2>3. QED  BY <1>0, <1>1, <2>1, <2>2 DEF CommissionsBooked
<1>2. CASE UNCHANGED affiliateVars
  BY <1>1, <1>2 DEF affiliateVars, CommissionsBooked
<1>3. ASSUME NEW open \in BOOLEAN, NEW rate \in Rates, SetScheme(open, rate)
      PROVE  CommissionsBooked'
  BY <1>1, <1>3 DEF SetScheme, CommissionsBooked
<1>4. CASE JoinScheme \/ RegisterReferred
  BY <1>1, <1>4 DEF JoinScheme, RegisterReferred, CommissionsBooked
<1>5. ASSUME NEW o \in Sales, SalePaid(o) PROVE CommissionsBooked'
  <2> DEFINE cents == Earns(o)
  <2>1. cents \in Nat  BY EarnsNatural
  <2>2. /\ ~sale[o].paid
        /\ sale' = [sale EXCEPT ![o].paid = TRUE]
        /\ commission' = [commission EXCEPT ![o].amount = cents]
        /\ account' = [account EXCEPT !.balance = @ + cents, !.earned = @ + cents]
        /\ UNCHANGED <<referral, claim, payout>>
    BY <1>5 DEF SalePaid
  <2> HIDE DEF cents
  <2>3. /\ sale[o].refunded = 0 /\ commission[o].amount = 0 /\ commission[o].reversed = 0
    BY <2>2 DEF CommissionsBooked, SaleBooked
  <2>4. /\ \A p \in Sales \ {o} : sale'[p] = sale[p] /\ commission'[p] = commission[p]
        /\ sale'[o].paid /\ sale'[o].refunded = 0
        /\ commission'[o].amount = cents /\ commission'[o].reversed = 0
        /\ account'.reserved = account.reserved /\ account'.earned = account.earned + cents
    BY <1>t, <2>2, <2>3
  <2>5. SaleBooked(o)'
    <3>1. Total[o] \in Nat  BY AffiliateAssumption
    <3>2. Total[o] > 0 => Share(cents, 0, Total[o]) = 0  BY <2>1, <3>1, NoShare
    <3>3. 0 <= Total[o]  BY <3>1
    <3>4. QED  BY <2>1, <2>4, <3>2, <3>3 DEF SaleBooked
  <2>6. account'.earned + CommissionKept[o] = account.earned + CommissionKept'[o]
    <3>1. CommissionKept[o] = commission[o].amount - commission[o].reversed
          /\ CommissionKept'[o] = commission'[o].amount - commission'[o].reversed
      BY DEF CommissionKept
    <3>2. CommissionKept[o] = 0  BY <2>3, <3>1
    <3>3. CommissionKept'[o] = cents  BY <2>1, <2>4, <3>1
    <3>4. account.earned \in Int  BY <1>t
    <3>5. QED  BY <2>1, <2>4, <3>2, <3>3, <3>4
  <2>7. QED  BY <1>0, <2>2, <2>4, <2>5, <2>6, OneSaleMoves
<1>6. ASSUME NEW o \in Sales, NEW refund \in 1..Total[o], SaleRefunded(o, refund)
      PROVE  CommissionsBooked'
  <2> DEFINE back == Reversal(o, refund)
             target == Share(commission[o].amount, sale[o].refunded + refund, Total[o])
  <2>1. /\ sale[o].paid /\ sale[o].refunded + refund <= Total[o]
        /\ sale' = [sale EXCEPT ![o].refunded = @ + refund]
        /\ commission' = [commission EXCEPT ![o].reversed = @ + back]
        /\ account' = [account EXCEPT !.balance = @ - back, !.earned = @ - back]
        /\ UNCHANGED <<referral, claim, payout>>
    BY <1>6 DEF SaleRefunded
  <2>2. back \in Int /\ commission[o].reversed + back = target /\ target \in Nat
    BY <2>1, ReversalReaches
  <2> HIDE DEF back
  <2>3. /\ \A p \in Sales \ {o} : sale'[p] = sale[p] /\ commission'[p] = commission[p]
        /\ sale'[o].paid /\ sale'[o].refunded = sale[o].refunded + refund
        /\ commission'[o].amount = commission[o].amount
        /\ commission'[o].reversed = commission[o].reversed + back
        /\ account'.reserved = account.reserved /\ account'.earned = account.earned - back
    BY <1>t, <2>1
  <2>4. SaleBooked(o)'
    <3>1. commission[o].amount \in Nat  BY DEF CommissionsBooked, SaleBooked
    <3>2. commission'[o].reversed = Share(commission'[o].amount, sale'[o].refunded, Total[o])
      BY <2>2, <2>3
    <3>3. commission'[o].reversed \in Nat  BY <2>2, <2>3
    <3>4. QED  BY <2>1, <2>3, <3>1, <3>2, <3>3 DEF SaleBooked
  <2>5. account'.earned + CommissionKept[o] = account.earned + CommissionKept'[o]
    <3> DEFINE a == commission[o].amount
               b == commission[o].reversed
               e == account.earned
    <3>1. CommissionKept[o] = a - b /\ CommissionKept'[o] = commission'[o].amount - commission'[o].reversed
      BY DEF CommissionKept
    <3>2. CommissionKept'[o] = a - (b + back)  BY <2>3, <3>1
    <3>3. a \in Int /\ b \in Int /\ e \in Int /\ account'.earned = e - back  BY <1>t, <2>3
    <3> HIDE DEF a, b, e
    <3>4. (e - back) + (a - b) = e + (a - (b + back))  BY <2>2, <3>3
    <3>5. QED  BY <3>1, <3>2, <3>3, <3>4 DEF e
  <2>6. QED  BY <1>0, <2>1, <2>3, <2>4, <2>5, OneSaleMoves
<1>7. ASSUME NEW w \in Claims, ApproveClaim(w) \/ RejectClaim(w) PROVE CommissionsBooked'
  <2> DEFINE cents == claim[w].cents
  <2>1. cents \in Nat /\ claim[w].status = "pending"
    BY <1>7 DEF CommissionsBooked, ApproveClaim, RejectClaim, Payable
  <2>2. PICK s \in {"approved", "rejected"} : claim' = [claim EXCEPT ![w].status = s]
    BY <1>7 DEF ApproveClaim, RejectClaim
  <2>3. /\ UNCHANGED <<sale, commission, referral>>
        /\ payout' = payout + cents \/ payout' = payout
        /\ \/ account' = [account EXCEPT !.reserved = @ - cents]
           \/ account' = [account EXCEPT !.reserved = @ - cents, !.balance = @ + cents]
    BY <1>7 DEF ApproveClaim, RejectClaim
  <2>4. /\ \A v \in Claims \ {w} : claim'[v] = claim[v]
        /\ claim'[w].status # "pending" /\ claim'[w].cents = cents
    BY <1>t, <2>2
  <2>5. account'.earned = account.earned /\ account'.reserved = account.reserved - cents
    BY <1>t, <2>3
  <2>6. payout' \in Nat  BY <1>u, <2>1, <2>3
  <2>7. ClaimAsked[w] = cents /\ ClaimAsked'[w] = 0  BY <2>1, <2>4 DEF ClaimAsked
  <2> HIDE DEF cents
  <2>8. account'.reserved + ClaimAsked[w] = account.reserved + ClaimAsked'[w]
    <3>1. account.reserved \in Int  BY <1>t
    <3>2. QED  BY <2>1, <2>5, <2>7, <3>1
  <2>9. QED  BY <1>0, <2>1, <2>3, <2>4, <2>5, <2>6, <2>8, OneClaimMoves
<1>8. ASSUME NEW w \in Claims, NEW cents \in MinClaim..account.balance, Withdraw(w, cents)
      PROVE  CommissionsBooked'
  <2>1. cents \in Nat  BY <1>t, AffiliateAssumption
  <2>2. /\ claim[w].status = "none"
        /\ claim' = [claim EXCEPT ![w] = [status |-> "pending", cents |-> cents]]
        /\ account' = [account EXCEPT !.balance = @ - cents, !.reserved = @ + cents]
        /\ UNCHANGED <<sale, commission, referral, payout>>
    BY <1>8 DEF Withdraw
  <2>3. /\ \A v \in Claims \ {w} : claim'[v] = claim[v]
        /\ claim'[w].status = "pending" /\ claim'[w].cents = cents
    BY <1>t, <2>2
  <2>4. account'.earned = account.earned /\ account'.reserved = account.reserved + cents
    BY <1>t, <2>2
  <2>5. ClaimAsked[w] = 0 /\ ClaimAsked'[w] = cents  BY <2>2, <2>3 DEF ClaimAsked
  <2>6. account'.reserved + ClaimAsked[w] = account.reserved + ClaimAsked'[w]
    <3>1. account.reserved \in Int  BY <1>t
    <3>2. QED  BY <2>1, <2>4, <2>5, <3>1
  <2>7. payout' \in Nat  BY <1>u, <2>2
  <2>8. QED  BY <1>0, <2>1, <2>2, <2>3, <2>4, <2>6, <2>7, OneClaimMoves
<1>9. QED  BY <1>2, <1>3, <1>4, <1>5, <1>6, <1>7, <1>8 DEF AffiliateNext

LEMMA CommissionsAreBooked == CommissionsBooked => AccountBooked /\ ReversedInProportion
BY DEF CommissionsBooked, LedgerAdds, SaleBooked, AccountBooked, ReversedInProportion

\* The types of the affiliate's rows.
LEMMA AffiliateTyped == CommissionsBooked => AffiliateTypeOK
<1> SUFFICES ASSUME CommissionsBooked PROVE AffiliateTypeOK  OBVIOUS
<1>1. account.reserved \in Nat  BY CommissionTerms
<1>2. account \in [balance : Int, reserved : Nat, earned : Int]
  BY <1>1 DEF CommissionsBooked, LedgerAdds
<1>3. commission \in [Sales -> [amount : Nat, reversed : Nat]]
  <2>1. commission \in [Sales -> [amount : Int, reversed : Int]]  BY DEF CommissionsBooked, LedgerAdds
  <2>2. \A o \in Sales : commission[o].amount \in Nat /\ commission[o].reversed \in Nat
    BY DEF CommissionsBooked, SaleBooked
  <2>3. QED  BY <2>1, <2>2
<1>4. claim \in [Claims -> [status : {"none", "pending", "approved", "rejected"}, cents : Nat]]
  BY DEF CommissionsBooked, LedgerAdds
<1>5. QED  BY <1>2, <1>3, <1>4 DEF CommissionsBooked, LedgerAdds, AffiliateTypeOK

-----------------------------------------------------------------------------
(* The uses of the coupon.                                                 *)

CouponRow == [status : {"active", "disabled", "deleted"}, used : Nat, max : Limits,
              perUser : Limits, newOnly : BOOLEAN]

\* The limit an order has read is a number.
LimitsRead ==
    /\ coupon \in CouponRow
    /\ placing = [o \in Orders |-> placing[o]]
    /\ \A o \in Orders : placing[o] # Idle => placing[o].max \in Nat

LEMMA LimitsStart == CheckoutInit => LimitsRead
BY CheckoutAssumption DEF CheckoutInit, LimitsRead, CouponRow

\* One use more.
LEMMA Used ==
  ASSUME LimitsRead, NEW o \in Orders, UseCoupon(o)
  PROVE  /\ coupon' \in CouponRow
         /\ coupon' = coupon \/ coupon'.used = coupon.used + 1
         /\ redeemed' = redeemed \cup {o}
<1>1. coupon \in CouponRow  BY DEF LimitsRead
<1>2. coupon' = coupon \/ coupon' = [coupon EXCEPT !.used = @ + 1]  BY DEF UseCoupon
<1>3. coupon.used \in Nat /\ coupon.used + 1 \in Nat
  <2>1. coupon.used \in Nat  BY <1>1 DEF CouponRow
  <2>2. QED  BY <2>1
<1>4. redeemed' = redeemed \cup {o}  BY DEF UseCoupon
<1>5. CASE coupon' = coupon  BY <1>1, <1>4, <1>5
<1>6. CASE coupon' = [coupon EXCEPT !.used = @ + 1]
  <2>1. coupon' \in CouponRow  BY <1>1, <1>3, <1>6 DEF CouponRow
  <2>2. coupon'.used = coupon.used + 1  BY <1>1, <1>6 DEF CouponRow
  <2>3. QED  BY <1>4, <2>1, <2>2
<1>7. QED  BY <1>2, <1>5, <1>6

LEMMA LimitsStep == LimitsRead /\ [CheckoutNext]_checkoutVars => LimitsRead'
<1> SUFFICES ASSUME LimitsRead, [CheckoutNext]_checkoutVars PROVE LimitsRead'  OBVIOUS
<1>0. coupon \in CouponRow /\ coupon.max \in Nat  BY CheckoutAssumption DEF LimitsRead, CouponRow
<1>1. CASE UNCHANGED <<coupon, placing>>  BY <1>1 DEF LimitsRead
<1>2. ASSUME NEW o \in Orders, NEW u, NEW lines, NEW choice, NEW picture, NEW permille,
             NEW coded, NEW agree, NEW fromCart,
             ReadOrder(o, u, lines, choice, picture, permille, coded, agree, fromCart)
      PROVE  LimitsRead'
  <2>1. \E total : placing' = [placing EXCEPT ![o] =
            [buyer |-> u, lines |-> lines, coded |-> coded, max |-> coupon.max,
             fromCart |-> fromCart, total |-> total]]
        /\ UNCHANGED coupon
    BY <1>2 DEF ReadOrder
  <2>2. \E read : placing' = [placing EXCEPT ![o] = read] /\ read.max \in Nat
    <3>1. PICK total : placing' = [placing EXCEPT ![o] =
              [buyer |-> u, lines |-> lines, coded |-> coded, max |-> coupon.max,
               fromCart |-> fromCart, total |-> total]]
      BY <2>1
    <3> DEFINE read == [buyer |-> u, lines |-> lines, coded |-> coded, max |-> coupon.max,
                        fromCart |-> fromCart, total |-> total]
    <3>2. read.max = coupon.max  OBVIOUS
    <3>3. placing' = [placing EXCEPT ![o] = read]  BY <3>1
    <3> HIDE DEF read
    <3>4. QED  BY <1>0, <3>2, <3>3
  <2>3. QED  BY <2>1, <2>2 DEF LimitsRead
<1>3. ASSUME NEW o \in Orders, NEW u \in Buyers, OrderCart(o, u) PROVE LimitsRead'
  BY <1>2, <1>3 DEF OrderCart
<1>4. ASSUME NEW o \in Orders, NEW u \in Buyers, NEW p \in Goods, OrderDirect(o, u, p) PROVE LimitsRead'
  BY <1>2, <1>4 DEF OrderDirect
<1>5. ASSUME NEW o \in Orders, PlaceOrder(o) \/ AbandonOrder(o) PROVE LimitsRead'
  <2>1. placing' = [placing EXCEPT ![o] = Idle]  BY <1>5 DEF PlaceOrder, AbandonOrder
  <2>2. coupon' \in CouponRow  BY <1>0, <1>5, Used DEF PlaceOrder, AbandonOrder
  <2>3. QED  BY <2>1, <2>2 DEF LimitsRead
<1>6. ASSUME NEW o \in Orders, CancelOrder(o) PROVE LimitsRead'
  <2>1. UNCHANGED placing  BY <1>6 DEF CancelOrder
  <2>2. coupon' = coupon \/ (coupon.used > 0 /\ coupon' = [coupon EXCEPT !.used = @ - 1])
    BY <1>6 DEF CancelOrder, ReleaseCoupon
  <2>3. coupon.used > 0 => coupon.used - 1 \in Nat
    <3>1. coupon.used \in Nat  BY <1>0 DEF CouponRow
    <3>2. QED  BY <3>1
  <2>4. coupon' \in CouponRow  BY <1>0, <2>2, <2>3 DEF CouponRow
  <2>5. QED  BY <2>1, <2>4 DEF LimitsRead
<1>7. ASSUME NEW status \in {"active", "disabled"}, NEW max \in Limits, NEW perUser \in Limits,
             NEW newOnly \in BOOLEAN, EditCoupon(status, max, perUser, newOnly)
      PROVE  LimitsRead'
  <2>1. UNCHANGED placing  BY <1>7 DEF EditCoupon
  <2>2. coupon' \in CouponRow  BY <1>0, <1>7 DEF EditCoupon, CouponRow
  <2>3. QED  BY <2>1, <2>2 DEF LimitsRead
<1>8. CASE DeleteCoupon
  <2>1. UNCHANGED placing  BY <1>8 DEF DeleteCoupon
  <2>2. coupon' \in CouponRow  BY <1>0, <1>8 DEF DeleteCoupon, CouponRow
  <2>3. QED  BY <2>1, <2>2 DEF LimitsRead
<1>9. ASSUME NEW u \in Buyers, NEW p \in Goods, NEW n, AddToCart(u, p, n) \/ SetQuantity(u, p, n)
      PROVE  LimitsRead'
  BY <1>1, <1>9 DEF AddToCart, SetQuantity
<1>10. ASSUME NEW p \in Goods, NEW status, NEW stock, EditProduct(p, status, stock) \/ DeleteProduct(p)
       PROVE  LimitsRead'
  BY <1>1, <1>10 DEF EditProduct, DeleteProduct
<1>11. ASSUME NEW o \in Orders, PayOrder(o) PROVE LimitsRead'
  BY <1>1, <1>11 DEF PayOrder
<1>12. CASE UNCHANGED checkoutVars  BY <1>1, <1>12 DEF checkoutVars
<1>13. QED  BY <1>3, <1>4, <1>5, <1>6, <1>7, <1>8, <1>9, <1>10, <1>11, <1>12 DEF CheckoutNext

LEMMA UsesAreWithinLimit ==
  LimitsRead /\ [CheckoutNext]_checkoutVars => WithinLimit
<1> SUFFICES ASSUME LimitsRead, [CheckoutNext]_checkoutVars,
                    NEW o \in redeemed' \ redeemed, placing[o].max > 0
             PROVE  coupon'.used <= placing[o].max
  BY DEF WithinLimit
<1>1. PICK q \in Orders : PlaceOrder(q)
  <2> SUFFICES ASSUME \A q \in Orders : ~PlaceOrder(q) PROVE redeemed' \subseteq redeemed
    OBVIOUS
  <2>1. ASSUME NEW p \in Orders, NEW u, NEW lines, NEW choice, NEW picture, NEW permille,
               NEW coded, NEW agree, NEW fromCart,
               ReadOrder(p, u, lines, choice, picture, permille, coded, agree, fromCart)
        PROVE  UNCHANGED redeemed
    BY <2>1 DEF ReadOrder
  <2>2. ASSUME NEW p \in Orders, NEW u \in Buyers, OrderCart(p, u) PROVE UNCHANGED redeemed
    BY <2>1, <2>2 DEF OrderCart
  <2>3. ASSUME NEW p \in Orders, NEW u \in Buyers, NEW g \in Goods, OrderDirect(p, u, g)
        PROVE  UNCHANGED redeemed
    BY <2>1, <2>3 DEF OrderDirect
  <2>4. ASSUME NEW p \in Orders, AbandonOrder(p) \/ PayOrder(p) \/ CancelOrder(p)
        PROVE  redeemed' \subseteq redeemed
    BY <2>4 DEF AbandonOrder, PayOrder, CancelOrder, ReleaseCoupon
  <2>5. ASSUME NEW u, NEW g, NEW n, AddToCart(u, g, n) \/ SetQuantity(u, g, n)
        PROVE  UNCHANGED redeemed
    BY <2>5 DEF AddToCart, SetQuantity
  <2>6. ASSUME NEW g, NEW status, NEW stock, EditProduct(g, status, stock) \/ DeleteProduct(g)
        PROVE  UNCHANGED redeemed
    BY <2>6 DEF EditProduct, DeleteProduct
  <2>7. ASSUME NEW status, NEW max, NEW perUser, NEW newOnly,
               EditCoupon(status, max, perUser, newOnly) \/ DeleteCoupon
        PROVE  UNCHANGED redeemed
    BY <2>7 DEF EditCoupon, DeleteCoupon
  <2>8. CASE UNCHANGED checkoutVars  BY <2>8 DEF checkoutVars
  <2>9. QED  BY <2>2, <2>3, <2>4, <2>5, <2>6, <2>7, <2>8 DEF CheckoutNext
<1>2. placing[q] # Idle /\ UseCoupon(q)  BY <1>1 DEF PlaceOrder
<1>3. o = q  BY <1>2 DEF UseCoupon
<1>4. placing[o].max \in Nat /\ coupon \in CouponRow  BY <1>2, <1>3 DEF LimitsRead
<1>5. coupon.used \in Nat /\ coupon.used < placing[o].max
      /\ coupon' = [coupon EXCEPT !.used = @ + 1]
  BY <1>2, <1>3, <1>4 DEF UseCoupon, CouponRow
<1>6. coupon'.used = coupon.used + 1  BY <1>4, <1>5 DEF CouponRow
<1>7. QED  BY <1>4, <1>5, <1>6

-----------------------------------------------------------------------------
(* The orders that hold the coupon.                                        *)

\* Who holds the coupon has been placed, and what is being placed does not hold it yet.
UsesCounted ==
    /\ LimitsRead
    /\ order = [o \in Orders |-> [status |-> order[o].status, buyer |-> order[o].buyer,
                                  lines |-> order[o].lines, total |-> order[o].total]]
    /\ redeemed \subseteq Orders
    /\ \A o \in redeemed : order[o].status \in {"pending", "paid"}
    /\ \A o \in Orders : placing[o] # Idle => order[o].status = "none"
    /\ coupon.status # "deleted" => coupon.used = Cardinality(redeemed)

LEMMA UsesStart == CheckoutInit => UsesCounted
<1> SUFFICES ASSUME CheckoutInit PROVE UsesCounted  OBVIOUS
<1>1. LimitsRead  BY LimitsStart
<1>2. order = [o \in Orders |-> [status |-> order[o].status, buyer |-> order[o].buyer,
                                  lines |-> order[o].lines, total |-> order[o].total]]
  BY DEF CheckoutInit
<1>3. Cardinality(redeemed) = 0  BY FS_EmptySet DEF CheckoutInit
<1>4. QED  BY <1>1, <1>2, <1>3 DEF CheckoutInit, UsesCounted

\* The orders keep the columns of their rows.
LEMMA OrderMoves ==
  ASSUME UsesCounted, NEW o \in Orders, NEW s,
         order' = [order EXCEPT ![o].status = s]
  PROVE  /\ order' = [p \in Orders |-> [status |-> order'[p].status, buyer |-> order'[p].buyer,
                                        lines |-> order'[p].lines, total |-> order'[p].total]]
         /\ order'[o].status = s
         /\ \A p \in Orders : p # o => order'[p] = order[p]
<1> DEFINE entry == [status |-> s, buyer |-> order[o].buyer, lines |-> order[o].lines,
                     total |-> order[o].total]
<1>1. order = [p \in Orders |-> [status |-> order[p].status, buyer |-> order[p].buyer,
                                  lines |-> order[p].lines, total |-> order[p].total]]
  BY DEF UsesCounted
<1>2. order[o] = [status |-> order[o].status, buyer |-> order[o].buyer,
                  lines |-> order[o].lines, total |-> order[o].total]
  BY <1>1
<1>3. [order[o] EXCEPT !.status = s] = entry  BY <1>2
<1>4. order' = [order EXCEPT ![o] = entry]  BY <1>3
<1>5. order' = [p \in Orders |-> IF p = o THEN entry ELSE order[p]]  BY <1>1, <1>4
<1>6. order'[o] = entry /\ \A p \in Orders : p # o => order'[p] = order[p]  BY <1>5
<1>7. \A p \in Orders : order'[p] = [status |-> order'[p].status, buyer |-> order'[p].buyer,
                                     lines |-> order'[p].lines, total |-> order'[p].total]
  BY <1>1, <1>6
<1>8. order' = [p \in Orders |-> order'[p]]  BY <1>5
<1>9. QED  BY <1>6, <1>7, <1>8

LEMMA UsesStep == UsesCounted /\ [CheckoutNext]_checkoutVars => UsesCounted'
<1> SUFFICES ASSUME UsesCounted, [CheckoutNext]_checkoutVars PROVE UsesCounted'  OBVIOUS
<1>0. LimitsRead'  BY LimitsStep DEF UsesCounted
<1>f. /\ coupon \in CouponRow /\ placing = [o \in Orders |-> placing[o]]
      /\ redeemed \subseteq Orders /\ IsFiniteSet(redeemed) /\ Cardinality(redeemed) \in Nat
  <2>1. coupon \in CouponRow /\ placing = [o \in Orders |-> placing[o]] /\ redeemed \subseteq Orders
    BY DEF UsesCounted, LimitsRead
  <2>2. IsFiniteSet(redeemed)  BY <2>1, CheckoutAssumption, FS_Subset
  <2>3. QED  BY <2>1, <2>2, FS_CardinalityType
<1>1. CASE UNCHANGED <<coupon, placing, order, redeemed>>  BY <1>0, <1>1 DEF UsesCounted
<1>2. ASSUME NEW o \in Orders, NEW u, NEW lines, NEW choice, NEW picture, NEW permille,
             NEW coded, NEW agree, NEW fromCart,
             ReadOrder(o, u, lines, choice, picture, permille, coded, agree, fromCart)
      PROVE  UsesCounted'
  <2>1. order[o].status = "none" /\ UNCHANGED <<coupon, order, redeemed>>
    BY <1>2 DEF ReadOrder
  <2>2. \A p \in Orders : p # o => placing'[p] = placing[p]
    <3>1. \E r : placing' = [placing EXCEPT ![o] = r]  BY <1>2 DEF ReadOrder
    <3>2. QED  BY <1>f, <3>1
  <2>3. QED  BY <1>0, <2>1, <2>2 DEF UsesCounted
<1>3. ASSUME NEW o \in Orders, NEW u \in Buyers, OrderCart(o, u) PROVE UsesCounted'
  BY <1>2, <1>3 DEF OrderCart
<1>4. ASSUME NEW o \in Orders, NEW u \in Buyers, NEW p \in Goods, OrderDirect(o, u, p)
      PROVE  UsesCounted'
  BY <1>2, <1>4 DEF OrderDirect
<1>5. ASSUME NEW o \in Orders, PlaceOrder(o) PROVE UsesCounted'
  <2> DEFINE entry == [status |-> "pending", buyer |-> placing[o].buyer,
                       lines |-> placing[o].lines, total |-> placing[o].total]
  <2>1. /\ placing[o] # Idle /\ order' = [order EXCEPT ![o] = entry]
        /\ placing' = [placing EXCEPT ![o] = Idle]
        /\ UseCoupon(o) \/ UNCHANGED <<coupon, redeemed>>
    BY <1>5 DEF PlaceOrder
  <2>2. order = [p \in Orders |-> [status |-> order[p].status, buyer |-> order[p].buyer,
                                    lines |-> order[p].lines, total |-> order[p].total]]
    BY DEF UsesCounted
  <2>3. entry = [status |-> entry.status, buyer |-> entry.buyer, lines |-> entry.lines,
                 total |-> entry.total]
        /\ entry.status = "pending"
    OBVIOUS
  <2> HIDE DEF entry
  <2>4. /\ order' = [p \in Orders |-> order'[p]] /\ order'[o] = entry
        /\ \A p \in Orders : p # o => order'[p] = order[p]
    BY <2>1, <2>2
  <2>5. \A p \in Orders : order'[p] = [status |-> order'[p].status, buyer |-> order'[p].buyer,
                                       lines |-> order'[p].lines, total |-> order'[p].total]
    BY <2>2, <2>3, <2>4
  <2>6. placing'[o] = Idle /\ \A p \in Orders : p # o => placing'[p] = placing[p]
    BY <1>f, <2>1
  <2>7. o \notin redeemed
    <3>1. order[o].status = "none"  BY <2>1 DEF UsesCounted
    <3>2. QED  BY <3>1 DEF UsesCounted
  <2>8. \A p \in Orders : placing'[p] # Idle => order'[p].status = "none"
    BY <2>4, <2>6 DEF UsesCounted
  <2>9. redeemed' \subseteq Orders /\ \A p \in redeemed' : order'[p].status \in {"pending", "paid"}
    <3>1. redeemed' \subseteq redeemed \cup {o}  BY <2>1 DEF UseCoupon
    <3>2. QED  BY <2>3, <2>4, <3>1 DEF UsesCounted
  <2>10. coupon'.status # "deleted" => coupon'.used = Cardinality(redeemed')
    <3>1. CASE UNCHANGED <<coupon, redeemed>>  BY <3>1 DEF UsesCounted
    <3>2. CASE UseCoupon(o) /\ coupon.status = "deleted"
      BY <3>2 DEF UseCoupon
    <3>3. CASE UseCoupon(o) /\ coupon.status # "deleted"
      <4>1. redeemed' = redeemed \cup {o} /\ coupon' = [coupon EXCEPT !.used = @ + 1]
        BY <3>3 DEF UseCoupon
      <4>2. Cardinality(redeemed') = Cardinality(redeemed) + 1
        BY <1>f, <2>7, <4>1, FS_AddElement
      <4>3. coupon'.used = coupon.used + 1  BY <1>f, <4>1 DEF CouponRow
      <4>4. QED  BY <3>3, <4>2, <4>3 DEF UsesCounted
    <3>4. QED  BY <2>1, <3>1, <3>2, <3>3
  <2>11. QED  BY <1>0, <2>4, <2>5, <2>8, <2>9, <2>10 DEF UsesCounted
<1>6. ASSUME NEW o \in Orders, AbandonOrder(o) PROVE UsesCounted'
  <2>1. placing' = [placing EXCEPT ![o] = Idle] /\ UNCHANGED <<coupon, order, redeemed>>
    BY <1>6 DEF AbandonOrder
  <2>2. \A p \in Orders : placing'[p] # Idle => placing[p] # Idle  BY <1>f, <2>1
  <2>3. QED  BY <1>0, <2>1, <2>2 DEF UsesCounted
<1>7. ASSUME NEW o \in Orders, PayOrder(o) PROVE UsesCounted'
  <2>1. /\ order[o].status = "pending" /\ order' = [order EXCEPT ![o].status = "paid"]
        /\ UNCHANGED <<coupon, redeemed, placing>>
    BY <1>7 DEF PayOrder
  <2>2. /\ order' = [p \in Orders |-> [status |-> order'[p].status, buyer |-> order'[p].buyer,
                                       lines |-> order'[p].lines, total |-> order'[p].total]]
        /\ order'[o].status = "paid" /\ \A p \in Orders : p # o => order'[p] = order[p]
    BY <2>1, OrderMoves
  <2>3. /\ \A p \in redeemed' : order'[p].status \in {"pending", "paid"}
        /\ \A p \in Orders : placing'[p] # Idle => order'[p].status = "none"
    BY <1>f, <2>1, <2>2 DEF UsesCounted
  <2>4. QED  BY <1>0, <2>1, <2>2, <2>3 DEF UsesCounted
<1>8. ASSUME NEW o \in Orders, CancelOrder(o) PROVE UsesCounted'
  <2>1. /\ order[o].status = "pending" /\ order' = [order EXCEPT ![o].status = "cancelled"]
        /\ redeemed' = redeemed \ {o} /\ UNCHANGED placing
        /\ coupon' = IF o \in redeemed /\ coupon.status # "deleted" /\ coupon.used > 0
                     THEN [coupon EXCEPT !.used = @ - 1] ELSE coupon
    BY <1>8 DEF CancelOrder, ReleaseCoupon
  <2>2. /\ order' = [p \in Orders |-> [status |-> order'[p].status, buyer |-> order'[p].buyer,
                                       lines |-> order'[p].lines, total |-> order'[p].total]]
        /\ order'[o].status = "cancelled" /\ \A p \in Orders : p # o => order'[p] = order[p]
    BY <2>1, OrderMoves
  <2>3. /\ \A p \in redeemed' : order'[p].status \in {"pending", "paid"}
        /\ \A p \in Orders : placing'[p] # Idle => order'[p].status = "none"
    BY <1>f, <2>1, <2>2 DEF UsesCounted
  <2>4. coupon'.status # "deleted" => coupon'.used = Cardinality(redeemed')
    <3>1. CASE o \notin redeemed
      <4>1. redeemed' = redeemed /\ coupon' = coupon  BY <2>1, <3>1
      <4>2. QED  BY <4>1 DEF UsesCounted
    <3>2. CASE coupon.status = "deleted"  BY <2>1, <3>2
    <3>3. CASE o \in redeemed /\ coupon.status # "deleted"
      <4>1. coupon.used = Cardinality(redeemed)  BY <3>3 DEF UsesCounted
      <4>2. Cardinality(redeemed') = Cardinality(redeemed) - 1
        BY <1>f, <2>1, <3>3, FS_RemoveElement
      <4>3. Cardinality(redeemed) # 0  BY <1>f, <3>3, FS_EmptySet
      <4>4. coupon.used > 0  BY <1>f, <4>1, <4>3
      <4>5. coupon' = [coupon EXCEPT !.used = @ - 1]  BY <2>1, <3>3, <4>4
      <4>6. coupon'.used = coupon.used - 1  BY <1>f, <4>5 DEF CouponRow
      <4>7. QED  BY <4>1, <4>2, <4>6
    <3>4. QED  BY <3>1, <3>2, <3>3
  <2>5. redeemed' \subseteq Orders  BY <1>f, <2>1
  <2>6. QED  BY <1>0, <2>2, <2>3, <2>4, <2>5 DEF UsesCounted
<1>9. ASSUME UNCHANGED <<order, redeemed, placing>>,
             coupon'.used = coupon.used, coupon.status # "deleted" \/ coupon'.status = "deleted"
      PROVE  UsesCounted'
  BY <1>0, <1>9 DEF UsesCounted
<1>10. ASSUME NEW status \in {"active", "disabled"}, NEW max \in Limits, NEW perUser \in Limits,
              NEW newOnly \in BOOLEAN, EditCoupon(status, max, perUser, newOnly)
       PROVE  UsesCounted'
  <2>1. UNCHANGED <<order, redeemed, placing>> /\ coupon.status # "deleted"  BY <1>10 DEF EditCoupon
  <2>2. coupon'.used = coupon.used  BY <1>f, <1>10 DEF EditCoupon, CouponRow
  <2>3. QED  BY <1>9, <2>1, <2>2
<1>11. CASE DeleteCoupon
  <2>1. UNCHANGED <<order, redeemed, placing>> /\ coupon.status # "deleted"
    BY <1>11 DEF DeleteCoupon
  <2>2. coupon'.used = coupon.used  BY <1>f, <1>11 DEF DeleteCoupon, CouponRow
  <2>3. QED  BY <1>9, <2>1, <2>2
<1>12. ASSUME NEW u \in Buyers, NEW p \in Goods, NEW n, AddToCart(u, p, n) \/ SetQuantity(u, p, n)
       PROVE  UsesCounted'
  BY <1>1, <1>12 DEF AddToCart, SetQuantity
<1>13. ASSUME NEW p \in Goods, NEW status, NEW stock, EditProduct(p, status, stock) \/ DeleteProduct(p)
       PROVE  UsesCounted'
  BY <1>1, <1>13 DEF EditProduct, DeleteProduct
<1>14. CASE UNCHANGED checkoutVars  BY <1>1, <1>14 DEF checkoutVars
<1>15. QED
  BY <1>3, <1>4, <1>5, <1>6, <1>7, <1>8, <1>10, <1>11, <1>12, <1>13, <1>14 DEF CheckoutNext

LEMMA UsesAreCounted == UsesCounted => RedemptionsCounted
BY DEF UsesCounted, RedemptionsCounted

-----------------------------------------------------------------------------
(* The price of a traffic package.                                         *)

PackRow == [status : {"none", "unpaid", "paid"}, line : BOOLEAN, gb : Nat, cents : Nat,
            paidAs : {"none", "package", "renewal"}]
PackAsk == [at : {"idle", "priced", "checked", "inserted"}, gb : Nat, cents : Nat,
            inv : PackInvoices \cup {"none"}]

\* An invoice that is not paid was paid as nothing.
PacksRead ==
    /\ pack \in [PackInvoices -> PackRow] /\ asking \in [PackRequests -> PackAsk]
    /\ packPrice \in [cents : PackPrices, step : PackSteps]
    /\ \A i \in PackInvoices : pack[i].status # "paid" => pack[i].paidAs = "none"

LEMMA PacksStart == TrafficPackInit => PacksRead
BY DEF TrafficPackInit, PacksRead, NoPack, NotAsking, PackRow, PackAsk

\* What a package costs is a natural number.
LEMMA Dues == ASSUME NEW gb \in Nat, PacksRead PROVE DueCents(gb) \in Nat
<1> DEFINE steps == gb \div packPrice.step
           cents == packPrice.cents
<1>0. packPrice.step \in PackSteps /\ cents \in PackPrices  BY DEF PacksRead
<1>1. packPrice.step \in Nat \ {0} /\ cents \in Nat /\ packPrice.step > 0
  <2> HIDE DEF cents
  <2>1. packPrice.step \in Nat \ {0} /\ cents \in Nat \ {0}  BY <1>0, TrafficPackAssumption, Zenon
  <2>2. QED  BY <2>1
<1>2. steps \in Nat  BY <1>1
<1> HIDE DEF steps, cents
<1>3. steps * cents \in Nat  BY <1>1, <1>2
<1>4. QED  BY <1>3 DEF DueCents, steps, cents

LEMMA PacksStep == PacksRead /\ [TrafficPackNext]_packVars => PacksRead'
<1> SUFFICES ASSUME PacksRead, [TrafficPackNext]_packVars PROVE PacksRead'  OBVIOUS
<1>1. CASE UNCHANGED <<pack, asking, packPrice>>  BY <1>1 DEF PacksRead
<1>2. ASSUME NEW r \in PackRequests, NEW gb \in Sizes, PricePack(r, gb) PROVE PacksRead'
  <2>1. gb \in Nat  BY TrafficPackAssumption
  <2>2. DueCents(gb) \in Nat  BY <2>1, Dues
  <2>3. QED  BY <1>2, <2>1, <2>2 DEF PricePack, PacksRead, PackAsk
<1>3. ASSUME NEW r \in PackRequests, CheckUnpaid(r) \/ PackDies(r) PROVE PacksRead'
  <2>1. \/ asking' = [asking EXCEPT ![r].at = "checked"]
        \/ asking' = [asking EXCEPT ![r] = NotAsking]
    BY <1>3 DEF CheckUnpaid, PackDies, StopsAsking
  <2>2. UNCHANGED <<pack, packPrice>>  BY <1>3 DEF CheckUnpaid, PackDies
  <2>3. asking' \in [PackRequests -> PackAsk]  BY <2>1 DEF PacksRead, PackAsk, NotAsking
  <2>4. QED  BY <2>2, <2>3 DEF PacksRead
<1>4. ASSUME NEW r \in PackRequests, NEW i \in PackInvoices, InsertInvoice(r, i) PROVE PacksRead'
  <2> DEFINE gb == asking[r].gb
             cents == asking[r].cents
             new == [NoPack EXCEPT !.status = "unpaid", !.gb = gb, !.cents = cents]
  <2>1. pack' = [pack EXCEPT ![i] = new]  BY <1>4 DEF InsertInvoice
  <2>2. asking' = [asking EXCEPT ![r].at = "inserted", ![r].inv = i] /\ UNCHANGED packPrice
    BY <1>4 DEF InsertInvoice
  <2>3. gb \in Nat /\ cents \in Nat  BY DEF PacksRead, PackAsk
  <2> HIDE DEF gb, cents
  <2>4. new \in PackRow /\ new.paidAs = "none"  BY <2>3 DEF NoPack, PackRow
  <2>5. asking' \in [PackRequests -> PackAsk]
    <3>1. asking' = [asking EXCEPT ![r] = [asking[r] EXCEPT !.at = "inserted", !.inv = i]]
      BY <2>2 DEF PacksRead
    <3>2. [asking[r] EXCEPT !.at = "inserted", !.inv = i] \in PackAsk  BY DEF PacksRead, PackAsk
    <3>3. QED  BY <3>1, <3>2 DEF PacksRead
  <2> HIDE DEF new
  <2>6. QED  BY <2>1, <2>2, <2>4, <2>5 DEF PacksRead
<1>5. ASSUME NEW r \in PackRequests, InsertLine(r) PROVE PacksRead'
  <2> DEFINE j == asking[r].inv
  <2>1. pack' = [pack EXCEPT ![j].line = TRUE]
        /\ asking' = [asking EXCEPT ![r] = NotAsking] /\ UNCHANGED packPrice
    BY <1>5 DEF InsertLine, StopsAsking
  <2> HIDE DEF j
  <2>2. asking' \in [PackRequests -> PackAsk]  BY <2>1 DEF PacksRead, PackAsk, NotAsking
  <2>3. pack' \in [PackInvoices -> PackRow]  BY <2>1 DEF PacksRead, PackRow
  <2>4. \A i \in PackInvoices : pack'[i].status = pack[i].status /\ pack'[i].paidAs = pack[i].paidAs
    BY <2>1 DEF PacksRead, PackRow
  <2>5. QED  BY <2>1, <2>2, <2>3, <2>4 DEF PacksRead
<1>6. ASSUME NEW c \in PackPrices, NEW s \in PackSteps, EditPrice(c, s) PROVE PacksRead'
  BY <1>6 DEF EditPrice, PacksRead
<1>7. ASSUME NEW i \in PackInvoices, SettlePackage(i) \/ SettleAsRenewal(i) PROVE PacksRead'
  <2>1. \E as \in {"package", "renewal"} :
            pack' = [pack EXCEPT ![i].status = "paid", ![i].paidAs = as]
        /\ UNCHANGED <<asking, packPrice>>
    BY <1>7 DEF SettlePackage, SettleAsRenewal
  <2>2. PICK as \in {"package", "renewal"} :
            pack' = [pack EXCEPT ![i] = [pack[i] EXCEPT !.status = "paid", !.paidAs = as]]
    BY <2>1 DEF PacksRead
  <2>3. /\ [pack[i] EXCEPT !.status = "paid", !.paidAs = as] \in PackRow
        /\ [pack[i] EXCEPT !.status = "paid", !.paidAs = as].status = "paid"
    BY DEF PacksRead, PackRow
  <2>4. QED  BY <2>1, <2>2, <2>3 DEF PacksRead
<1>8. ASSUME NEW n \in Notices, CallUpstream(n) \/ \E heard \in BOOLEAN : CallEnds(n, heard)
      PROVE  PacksRead'
  BY <1>1, <1>8 DEF CallUpstream, CallEnds
<1>9. CASE UNCHANGED packVars  BY <1>1, <1>9 DEF packVars
<1>10. QED  BY <1>2, <1>3, <1>4, <1>5, <1>6, <1>7, <1>8, <1>9 DEF TrafficPackNext

LEMMA PacksArePaidAtPrice ==
  PacksRead /\ [TrafficPackNext]_packVars => PaidAtPriceInForce
<1> SUFFICES ASSUME PacksRead, [TrafficPackNext]_packVars, NEW i \in PackInvoices,
                    pack[i].status = "unpaid", pack'[i].paidAs = "package"
             PROVE  pack[i].cents * packPrice.step = pack[i].gb * packPrice.cents
  BY DEF PaidAtPriceInForce
<1>0. pack[i].paidAs = "none"  BY DEF PacksRead
<1>1. CASE SettlePackage(i)
  <2>1. pack[i].gb % packPrice.step = 0
        /\ pack[i].cents = (pack[i].gb \div packPrice.step) * packPrice.cents
    BY <1>1 DEF SettlePackage, InForce, Aligned, DueCents
  <2>2. pack[i].gb \in Nat /\ packPrice.step \in Nat \ {0} /\ packPrice.cents \in Nat
    <3>1. packPrice.step \in PackSteps /\ packPrice.cents \in PackPrices  BY DEF PacksRead
    <3>2. pack[i].gb \in Nat  BY DEF PacksRead, PackRow
    <3>3. packPrice.step \in Nat \ {0} /\ packPrice.cents \in Nat \ {0}
      BY <3>1, TrafficPackAssumption, Zenon
    <3>4. QED  BY <3>2, <3>3
  <2> DEFINE gb == pack[i].gb
             s == packPrice.step
             c == packPrice.cents
             d == pack[i].cents
  <2>3. gb \in Nat /\ s \in Nat \ {0} /\ c \in Nat /\ gb % s = 0 /\ d = (gb \div s) * c
    BY <2>1, <2>2
  <2> HIDE DEF gb, s, c, d
  <2> DEFINE q == gb \div s
  <2>4. q \in Int /\ gb = q * s  BY <2>3, SMT
  <2>5. d = q * c  BY <2>3
  <2> HIDE DEF q
  <2>6. (q * c) * s = (q * s) * c  BY <2>3, <2>4, SMT
  <2>7. d * s = gb * c  BY <2>4, <2>5, <2>6
  <2>8. QED  BY <2>7 DEF d, s, gb, c
<1>2. CASE ~SettlePackage(i)
  <2>1. pack'[i].paidAs = "none" \/ pack'[i].paidAs = "renewal"
    <3>1. ASSUME NEW r \in PackRequests,
                 \/ \E gb \in Sizes : PricePack(r, gb)
                 \/ CheckUnpaid(r) \/ PackDies(r)
          PROVE  pack' = pack
      BY <3>1 DEF PricePack, CheckUnpaid, PackDies
    <3>2. ASSUME NEW r \in PackRequests, NEW j \in PackInvoices, InsertInvoice(r, j)
          PROVE  pack'[i] = pack[i]
      BY <3>2 DEF InsertInvoice, PacksRead
    <3>3. ASSUME NEW r \in PackRequests, InsertLine(r) PROVE pack'[i].paidAs = pack[i].paidAs
      <4>1. pack' = [pack EXCEPT ![asking[r].inv].line = TRUE]  BY <3>3 DEF InsertLine
      <4>2. QED  BY <4>1 DEF PacksRead, PackRow
    <3>4. ASSUME NEW c \in PackPrices, NEW s \in PackSteps, EditPrice(c, s) PROVE pack' = pack
      BY <3>4 DEF EditPrice
    <3>5. ASSUME NEW j \in PackInvoices, SettlePackage(j) PROVE pack'[i] = pack[i]
      <4>1. j # i  BY <1>2, <3>5
      <4>2. pack' = [pack EXCEPT ![j].status = "paid", ![j].paidAs = "package"]
        BY <3>5 DEF SettlePackage
      <4>3. QED  BY <4>1, <4>2 DEF PacksRead, PackRow
    <3>6. ASSUME NEW j \in PackInvoices, SettleAsRenewal(j)
          PROVE  pack'[i].paidAs = "renewal" \/ pack'[i] = pack[i]
      <4>1. pack' = [pack EXCEPT ![j].status = "paid", ![j].paidAs = "renewal"]
        BY <3>6 DEF SettleAsRenewal
      <4>2. QED  BY <4>1 DEF PacksRead, PackRow
    <3>7. ASSUME NEW n \in Notices, CallUpstream(n) \/ \E heard \in BOOLEAN : CallEnds(n, heard)
          PROVE  pack' = pack
      BY <3>7 DEF CallUpstream, CallEnds
    <3>8. CASE UNCHANGED packVars  BY <1>0, <3>8 DEF packVars
    <3>9. QED  BY <1>0, <3>1, <3>2, <3>3, <3>4, <3>5, <3>6, <3>7, <3>8 DEF TrafficPackNext
  <2>2. QED  BY <2>1
<1>3. QED  BY <1>1, <1>2

-----------------------------------------------------------------------------
(* The packages paid and those that wait for payment.                      *)

\* Requests that have passed the check and not written their line.
Passed == {r \in PackRequests : asking[r].at \in {"checked", "inserted"}}

PacksCounted ==
    /\ PacksRead
    /\ extraGB \in Nat /\ toldGB \in Nat /\ notice \in [Notices -> Nat]
    /\ toldGB <= extraGB /\ \A n \in Notices : notice[n] <= extraGB
    /\ extraGB = SumFunctionOnSet(PaidGB, PackInvoices)
    /\ periods = Cardinality(PaidAs("renewal"))
    /\ Cardinality(UnpaidPackages) + Cardinality(Passed) <= Cardinality(PackRequests)

\* The sets that are counted are finite.
LEMMA PackSets ==
  /\ IsFiniteSet(UnpaidPackages) /\ Cardinality(UnpaidPackages) \in Nat
  /\ IsFiniteSet(UnpaidPackages') /\ Cardinality(UnpaidPackages') \in Nat
  /\ IsFiniteSet(Passed) /\ Cardinality(Passed) \in Nat
  /\ IsFiniteSet(Passed') /\ Cardinality(Passed') \in Nat
  /\ IsFiniteSet(PaidAs("renewal")) /\ Cardinality(PaidAs("renewal")) \in Nat
  /\ IsFiniteSet(PackRequests) /\ Cardinality(PackRequests) \in Nat
<1>1. /\ UnpaidPackages \subseteq PackInvoices /\ UnpaidPackages' \subseteq PackInvoices
      /\ Passed \subseteq PackRequests /\ Passed' \subseteq PackRequests
      /\ PaidAs("renewal") \subseteq PackInvoices
  BY DEF UnpaidPackages, Passed, PaidAs
<1>2. IsFiniteSet(PackInvoices) /\ IsFiniteSet(PackRequests)  BY TrafficPackAssumption
<1>3. /\ IsFiniteSet(UnpaidPackages) /\ IsFiniteSet(UnpaidPackages')
      /\ IsFiniteSet(Passed) /\ IsFiniteSet(Passed') /\ IsFiniteSet(PaidAs("renewal"))
  BY <1>1, <1>2, FS_Subset
<1>4. QED  BY <1>2, <1>3, FS_CardinalityType

LEMMA CountsStart == TrafficPackInit => PacksCounted
<1> SUFFICES ASSUME TrafficPackInit PROVE PacksCounted  OBVIOUS
<1>1. \A i \in PackInvoices : pack[i] = NoPack  BY DEF TrafficPackInit
<1>2. \A r \in PackRequests : asking[r] = NotAsking  BY DEF TrafficPackInit
<1>3. UnpaidPackages = {} /\ PaidAs("renewal") = {}
  BY <1>1 DEF UnpaidPackages, PaidAs, NoPack
<1>4. Passed = {}  BY <1>2 DEF Passed, NotAsking
<1>5. \A i \in PackInvoices : PaidGB[i] = 0  BY <1>1 DEF PaidGB, NoPack
<1>6. SumFunctionOnSet(PaidGB, PackInvoices) = 0  BY <1>5, TrafficPackAssumption, SumZero
<1>7. Cardinality({}) = 0  BY FS_EmptySet
<1>8. Cardinality(PackRequests) \in Nat  BY PackSets
<1>9. Cardinality(UnpaidPackages) + Cardinality(Passed) <= Cardinality(PackRequests)
  BY <1>3, <1>4, <1>7, <1>8
<1>10. QED  BY <1>3, <1>6, <1>7, <1>9, PacksStart DEF TrafficPackInit, PacksCounted

\* Fewer wait and fewer are about to.
LEMMA FewerWait ==
  ASSUME PacksCounted, UnpaidPackages' \subseteq UnpaidPackages, Passed' \subseteq Passed
  PROVE  Cardinality(UnpaidPackages') + Cardinality(Passed') <= Cardinality(PackRequests)
<1> DEFINE a == Cardinality(UnpaidPackages)
           b == Cardinality(Passed)
           c == Cardinality(UnpaidPackages')
           d == Cardinality(Passed')
           n == Cardinality(PackRequests)
<1>1. a \in Nat /\ b \in Nat /\ c \in Nat /\ d \in Nat /\ n \in Nat  BY PackSets
<1>2. c <= a /\ d <= b  BY PackSets, FS_Subset
<1>3. a + b <= n  BY DEF PacksCounted
<1> HIDE DEF a, b, c, d, n
<1>4. c + d <= n  BY <1>1, <1>2, <1>3
<1>5. QED  BY <1>4 DEF c, d, n

\* Nothing is paid.
LEMMA NothingPaid ==
  ASSUME PacksCounted,
         \A i \in PackInvoices : /\ pack'[i].paidAs = pack[i].paidAs
                                 /\ pack[i].paidAs = "package" => pack'[i].gb = pack[i].gb
  PROVE  PaidGB' = PaidGB /\ PaidAs("renewal")' = PaidAs("renewal")
BY DEF PaidGB, PaidAs

LEMMA PacksCountedStep == PacksCounted /\ [TrafficPackNext]_packVars => PacksCounted'
<1> SUFFICES ASSUME PacksCounted, [TrafficPackNext]_packVars PROVE PacksCounted'  OBVIOUS
<1>0. PacksRead'  BY PacksStep DEF PacksCounted
<1>t. /\ pack \in [PackInvoices -> PackRow] /\ asking \in [PackRequests -> PackAsk]
      /\ extraGB \in Nat /\ toldGB \in Nat /\ notice \in [Notices -> Nat]
      /\ \A i \in PackInvoices : pack[i].status # "paid" => pack[i].paidAs = "none"
  BY DEF PacksCounted, PacksRead
<1>1. ASSUME UNCHANGED <<extraGB, toldGB, notice, periods>>,
             \A i \in PackInvoices : /\ pack'[i].paidAs = pack[i].paidAs
                                     /\ pack[i].paidAs = "package" => pack'[i].gb = pack[i].gb,
             Cardinality(UnpaidPackages') + Cardinality(Passed') <= Cardinality(PackRequests)
      PROVE  PacksCounted'
  BY <1>0, <1>1, NothingPaid DEF PacksCounted
<1>2. ASSUME UNCHANGED <<pack, extraGB, toldGB, notice, periods>>, Passed' \subseteq Passed
      PROVE  PacksCounted'
  <2>1. UnpaidPackages' = UnpaidPackages  BY <1>2 DEF UnpaidPackages
  <2>2. QED  BY <1>1, <1>2, <2>1, FewerWait
<1>3. CASE UNCHANGED packVars
  <2>1. Passed' = Passed  BY <1>3 DEF Passed, packVars
  <2>2. QED  BY <1>2, <1>3, <2>1 DEF packVars
<1>4. ASSUME NEW r \in PackRequests, NEW gb \in Sizes, PricePack(r, gb) PROVE PacksCounted'
  <2>1. \E cents : asking' = [asking EXCEPT ![r] =
            [at |-> "priced", gb |-> gb, cents |-> cents, inv |-> "none"]]
    BY <1>4 DEF PricePack
  <2>2. Passed' \subseteq Passed  BY <1>t, <2>1 DEF Passed
  <2>3. UNCHANGED <<pack, extraGB, toldGB, notice, periods>>  BY <1>4 DEF PricePack
  <2>4. QED  BY <1>2, <2>2, <2>3
<1>5. ASSUME NEW r \in PackRequests, CheckUnpaid(r) PROVE PacksCounted'
  <2>1. UNCHANGED <<pack, extraGB, toldGB, notice, periods>>  BY <1>5 DEF CheckUnpaid
  <2>2. CASE UnpaidPackages = {}
    <3>1. UnpaidPackages' = {}  BY <2>1, <2>2 DEF UnpaidPackages
    <3>2. Passed' \subseteq PackRequests  BY DEF Passed
    <3>3. Cardinality(Passed') <= Cardinality(PackRequests)  BY <3>2, PackSets, FS_Subset
    <3>4. Cardinality(UnpaidPackages') = 0  BY <3>1, FS_EmptySet
    <3>5. Cardinality(UnpaidPackages') + Cardinality(Passed') <= Cardinality(PackRequests)
      BY <3>3, <3>4, PackSets
    <3>6. QED  BY <1>1, <2>1, <3>5
  <2>3. CASE UnpaidPackages # {}
    <3>1. asking' = [asking EXCEPT ![r] = NotAsking]
      BY <1>5, <2>3 DEF CheckUnpaid, NoneUnpaid, StopsAsking
    <3>2. Passed' \subseteq Passed  BY <1>t, <3>1 DEF Passed, NotAsking
    <3>3. QED  BY <1>2, <2>1, <3>2
  <2>4. QED  BY <2>2, <2>3
<1>6. ASSUME NEW r \in PackRequests, NEW i \in PackInvoices, InsertInvoice(r, i) PROVE PacksCounted'
  <2> DEFINE new == [NoPack EXCEPT !.status = "unpaid", !.gb = asking[r].gb, !.cents = asking[r].cents]
  <2>1. /\ asking[r].at = "checked" /\ pack[i].status = "none"
        /\ pack' = [pack EXCEPT ![i] = new]
        /\ asking' = [asking EXCEPT ![r].at = "inserted", ![r].inv = i]
        /\ UNCHANGED <<extraGB, toldGB, notice, periods>>
    BY <1>6 DEF InsertInvoice
  <2>2. new.paidAs = "none" /\ new.line = FALSE  BY DEF NoPack
  <2> HIDE DEF new
  <2>3. pack'[i] = new /\ \A j \in PackInvoices : j # i => pack'[j] = pack[j]  BY <1>t, <2>1
  <2>4. UnpaidPackages' \subseteq UnpaidPackages
    BY <2>2, <2>3 DEF UnpaidPackages, IsTrafficInvoice
  <2>5. Passed' \subseteq Passed
    <3>1. \A s \in PackRequests : s # r => asking'[s] = asking[s]  BY <1>t, <2>1
    <3>2. QED  BY <2>1, <3>1 DEF Passed
  <2>6. pack[i].paidAs = "none"  BY <1>t, <2>1
  <2>7. QED  BY <1>1, <2>1, <2>2, <2>3, <2>4, <2>5, <2>6, FewerWait
<1>7. ASSUME NEW r \in PackRequests, InsertLine(r) PROVE PacksCounted'
  <2> DEFINE i == asking[r].inv
  <2>1. /\ asking[r].at = "inserted"
        /\ pack' = [pack EXCEPT ![i].line = TRUE]
        /\ asking' = [asking EXCEPT ![r] = NotAsking]
        /\ UNCHANGED <<extraGB, toldGB, notice, periods>>
    BY <1>7 DEF InsertLine, StopsAsking
  <2> HIDE DEF i
  <2>2. \A j \in PackInvoices : /\ pack'[j].paidAs = pack[j].paidAs /\ pack'[j].gb = pack[j].gb
                                /\ pack'[j].status = pack[j].status
                                /\ j # i => pack'[j].line = pack[j].line
    BY <1>t, <2>1 DEF PackRow
  <2>3. UnpaidPackages' \subseteq UnpaidPackages \cup {i}
    BY <2>2 DEF UnpaidPackages, IsTrafficInvoice
  <2>4. Passed' = Passed \ {r} /\ r \in Passed
    <3>1. r \in Passed  BY <2>1 DEF Passed
    <3>2. asking'[r].at = "idle" /\ \A s \in PackRequests : s # r => asking'[s] = asking[s]
      BY <1>t, <2>1 DEF NotAsking
    <3>3. QED  BY <3>1, <3>2 DEF Passed
  <2>5. Cardinality(UnpaidPackages') + Cardinality(Passed') <= Cardinality(PackRequests)
    <3> DEFINE a == Cardinality(UnpaidPackages)
               b == Cardinality(Passed)
               c == Cardinality(UnpaidPackages')
               d == Cardinality(Passed')
               n == Cardinality(PackRequests)
    <3>1. a \in Nat /\ b \in Nat /\ c \in Nat /\ d \in Nat /\ n \in Nat  BY PackSets
    <3>2. a + b <= n  BY DEF PacksCounted
    <3>3. d = b - 1
      BY <2>4, PackSets, FS_RemoveElement
    <3>4. c <= a + 1
      <4>1. IsFiniteSet(UnpaidPackages \cup {i})
            /\ Cardinality(UnpaidPackages \cup {i}) \in {a, a + 1}
        <5>1. CASE i \in UnpaidPackages
          <6>1. UnpaidPackages \cup {i} = UnpaidPackages  BY <5>1
          <6>2. QED  BY <6>1, PackSets
        <5>2. CASE i \notin UnpaidPackages  BY <5>2, PackSets, FS_AddElement
        <5>3. QED  BY <5>1, <5>2
      <4>2. c <= Cardinality(UnpaidPackages \cup {i})  BY <2>3, <4>1, FS_Subset
      <4> DEFINE e == Cardinality(UnpaidPackages \cup {i})
      <4>3. e \in {a, a + 1} /\ c <= e  BY <4>1, <4>2
      <4> HIDE DEF a, b, c, d, e, n
      <4>4. QED  BY <3>1, <4>3
    <3> HIDE DEF a, b, c, d, n
    <3>5. c + d <= n  BY <3>1, <3>2, <3>3, <3>4
    <3>6. QED  BY <3>5 DEF c, d, n
  <2>6. QED  BY <1>1, <2>1, <2>2, <2>5
<1>8. ASSUME NEW r \in PackRequests, PackDies(r) PROVE PacksCounted'
  <2>1. asking' = [asking EXCEPT ![r] = NotAsking]
        /\ UNCHANGED <<pack, extraGB, toldGB, notice, periods>>
    BY <1>8 DEF PackDies, StopsAsking
  <2>2. Passed' \subseteq Passed  BY <1>t, <2>1 DEF Passed, NotAsking
  <2>3. QED  BY <1>2, <2>1, <2>2
<1>9. ASSUME NEW c \in PackPrices, NEW s \in PackSteps, EditPrice(c, s) PROVE PacksCounted'
  <2>1. UNCHANGED <<pack, asking, extraGB, toldGB, notice, periods>>  BY <1>9 DEF EditPrice
  <2>2. Passed' = Passed  BY <2>1 DEF Passed
  <2>3. QED  BY <1>2, <2>1, <2>2
<1>10. ASSUME NEW i \in PackInvoices, SettlePackage(i) \/ SettleAsRenewal(i) PROVE PacksCounted'
  <2>1. PICK as \in {"package", "renewal"} :
          /\ pack' = [pack EXCEPT ![i].status = "paid", ![i].paidAs = as]
          /\ as = "package" => extraGB' = extraGB + pack[i].gb /\ periods' = periods
          /\ as = "renewal" => extraGB' = extraGB /\ periods' = periods + 1
    BY <1>10 DEF SettlePackage, SettleAsRenewal
  <2>2. pack[i].status = "unpaid" /\ UNCHANGED <<asking, notice, toldGB>>
    BY <1>10 DEF SettlePackage, SettleAsRenewal
  <2>3. /\ pack'[i].status = "paid" /\ pack'[i].paidAs = as /\ pack'[i].gb = pack[i].gb
        /\ \A j \in PackInvoices : j # i => pack'[j] = pack[j]
    <3>1. pack' = [pack EXCEPT ![i] = [pack[i] EXCEPT !.status = "paid", !.paidAs = as]]
      BY <1>t, <2>1
    <3>2. pack'[i] = [pack[i] EXCEPT !.status = "paid", !.paidAs = as]  BY <1>t, <3>1
    <3>3. QED  BY <1>t, <3>1, <3>2 DEF PackRow
  <2>4. pack[i].paidAs = "none" /\ pack[i].gb \in Nat  BY <1>t, <2>2 DEF PackRow
  <2>5. Cardinality(UnpaidPackages') + Cardinality(Passed') <= Cardinality(PackRequests)
    <3>1. UnpaidPackages' \subseteq UnpaidPackages  BY <2>3 DEF UnpaidPackages, IsTrafficInvoice
    <3>2. Passed' = Passed  BY <2>2 DEF Passed
    <3>3. QED  BY <3>1, <3>2, FewerWait
  <2>6. extraGB' \in Nat /\ extraGB' >= extraGB
    <3> DEFINE gb == pack[i].gb
    <3>1. gb \in Nat /\ (extraGB' = extraGB + gb \/ extraGB' = extraGB)  BY <2>1, <2>4
    <3> HIDE DEF gb
    <3>2. QED  BY <1>t, <3>1
  <2>7. extraGB' = SumFunctionOnSet(PaidGB', PackInvoices)
    <3> DEFINE f == PaidGB
               g == PaidGB'
    <3>1. f[i] = 0 /\ g[i] = IF as = "package" THEN pack[i].gb ELSE 0
      BY <2>3, <2>4 DEF PaidGB
    <3>2. \A j \in PackInvoices : f[j] \in Nat /\ g[j] \in Nat /\ (j # i => f[j] = g[j])
      BY <1>t, <2>3, <2>4, <3>1 DEF PaidGB, PackRow
    <3>3. IsFiniteSet(PackInvoices)  BY TrafficPackAssumption
    <3> HIDE DEF f, g
    <3>4. SumFunctionOnSet(g, PackInvoices) = SumFunctionOnSet(f, PackInvoices) + (g[i] - f[i])
      BY <3>2, <3>3, SumChange
    <3>5. extraGB = SumFunctionOnSet(f, PackInvoices)  BY DEF PacksCounted, f
    <3> DEFINE gb == pack[i].gb
               more == g[i]
    <3>6. gb \in Nat /\ extraGB \in Nat /\ more = (IF as = "package" THEN gb ELSE 0)
          /\ extraGB' = (IF as = "package" THEN extraGB + gb ELSE extraGB)
      BY <1>t, <2>1, <2>4, <3>1
    <3>7. SumFunctionOnSet(g, PackInvoices) = extraGB + (more - 0)  BY <3>1, <3>4, <3>5
    <3> HIDE DEF gb, more
    <3>8. extraGB' = extraGB + (more - 0)  BY <3>6
    <3>9. QED  BY <3>7, <3>8 DEF g
  <2>8. periods' = Cardinality(PaidAs("renewal")')
    <3>1. CASE as = "package"
      <4>1. PaidAs("renewal")' = PaidAs("renewal")  BY <2>3, <2>4, <3>1 DEF PaidAs
      <4>2. QED  BY <2>1, <3>1, <4>1 DEF PacksCounted
    <3>2. CASE as = "renewal"
      <4>1. PaidAs("renewal")' = PaidAs("renewal") \cup {i} /\ i \notin PaidAs("renewal")
        BY <2>3, <2>4, <3>2 DEF PaidAs
      <4>2. Cardinality(PaidAs("renewal")') = Cardinality(PaidAs("renewal")) + 1
        BY <4>1, PackSets, FS_AddElement
      <4>3. QED  BY <2>1, <3>2, <4>2 DEF PacksCounted
    <3>3. QED  BY <3>1, <3>2
  <2>9. toldGB' <= extraGB' /\ \A n \in Notices : notice'[n] <= extraGB'
    <3>1. toldGB <= extraGB /\ \A n \in Notices : notice[n] <= extraGB /\ notice[n] \in Nat
      BY <1>t DEF PacksCounted
    <3>2. QED  BY <1>t, <2>2, <2>6, <3>1
  <2>10. QED  BY <1>0, <1>t, <2>2, <2>5, <2>6, <2>7, <2>8, <2>9 DEF PacksCounted
<1>11. ASSUME NEW n \in Notices, CallUpstream(n) \/ \E heard \in BOOLEAN : CallEnds(n, heard)
       PROVE  PacksCounted'
  <2>1. UNCHANGED <<pack, asking, extraGB, periods>>  BY <1>11 DEF CallUpstream, CallEnds
  <2>2. /\ toldGB' = toldGB \/ toldGB' = notice[n]
        /\ \E x \in {0, extraGB} : notice' = [notice EXCEPT ![n] = x]
    BY <1>11 DEF CallUpstream, CallEnds
  <2>3. toldGB' \in Nat /\ toldGB' <= extraGB  BY <1>t, <2>2 DEF PacksCounted
  <2>4. notice' \in [Notices -> Nat] /\ \A m \in Notices : notice'[m] <= extraGB
    BY <1>t, <2>2 DEF PacksCounted
  <2>5. PaidGB' = PaidGB /\ PaidAs("renewal")' = PaidAs("renewal")
        /\ UnpaidPackages' = UnpaidPackages /\ Passed' = Passed
    BY <2>1 DEF PaidGB, PaidAs, UnpaidPackages, Passed
  <2>6. QED  BY <1>0, <2>1, <2>3, <2>4, <2>5 DEF PacksCounted
<1>12. QED
  BY <1>3, <1>4, <1>5, <1>6, <1>7, <1>8, <1>9, <1>10, <1>11 DEF TrafficPackNext

LEMMA PacksAreBooked == PacksCounted => PacksBooked
BY DEF PacksCounted, PacksBooked, Passed

-----------------------------------------------------------------------------
(* Automatic renewal.                                                      *)

RentedRows == [status : {"active", "expired", "stopped"}, expires : Int, auto : BOOLEAN]
AgentRecords == [at : AgentSteps, date : Int, expired : BOOLEAN]

\* The upstream has carried out what a patrol is about to close.
AnswersKnown == \A s \in Sweepers : agent[s].at = "ok" => agent[s].date \in provider.done

RenewalInv ==
    /\ today \in Int /\ rented \in RentedRows
    /\ event \in [Expiries -> EventStates] /\ charged \in [Expiries -> Int]
    /\ provider \in [due : Int, done : SUBSET Int]
    /\ agent \in [Workers -> AgentRecords]
    /\ AnswersKnown /\ OncePerExpiry /\ DoneIsDelivered

LEMMA RenewalStart == RenewalInit => RenewalInv
<1> SUFFICES ASSUME RenewalInit PROVE RenewalInv  OBVIOUS
<1>1. /\ today \in Int /\ rented \in RentedRows
      /\ event \in [Expiries -> EventStates] /\ charged \in [Expiries -> Int]
      /\ provider \in [due : Int, done : SUBSET Int]
  BY RenewalAssumption DEF RenewalInit, RentedRows, EventStates
<1>2. agent \in [Workers -> AgentRecords] /\ AnswersKnown
  BY DEF RenewalInit, AgentRecords, AgentSteps, Resting, AnswersKnown, Workers
<1>3. OncePerExpiry /\ DoneIsDelivered  BY DEF RenewalInit, OncePerExpiry, DoneIsDelivered
<1>4. QED  BY <1>1, <1>2, <1>3 DEF RenewalInv

\* A step that moves one process, not to a good answer, and no event.
LEMMA AgentMoves ==
  ASSUME RenewalInv, NEW a \in Workers, NEW w \in AgentRecords, w.at # "ok", Does(a, w),
         today' \in Int, rented' \in RentedRows, UNCHANGED <<event, charged>>,
         provider' \in [due : Int, done : SUBSET Int], provider.done \subseteq provider'.done
  PROVE  RenewalInv'
<1>1. agent' \in [Workers -> AgentRecords]  BY DEF RenewalInv, Does
<1>2. AnswersKnown'  BY DEF RenewalInv, Does, AnswersKnown, Workers
<1>3. OncePerExpiry' /\ DoneIsDelivered'  BY DEF RenewalInv, OncePerExpiry, DoneIsDelivered
<1>4. QED  BY <1>1, <1>2, <1>3 DEF RenewalInv

\* A step that moves no process and no event.
LEMMA AgentsStand ==
  ASSUME RenewalInv, UNCHANGED <<event, charged, provider, agent>>,
         today' \in Int, rented' \in RentedRows
  PROVE  RenewalInv'
BY DEF RenewalInv, AnswersKnown, OncePerExpiry, DoneIsDelivered

LEMMA RestingIsAgent == Resting \in AgentRecords /\ Resting.at = "idle" /\ Resting.date = 0
BY DEF Resting, AgentRecords, AgentSteps

LEMMA DeliveringIsAgent == Delivering \in AgentRecords /\ Delivering.at = "events"
BY RestingIsAgent DEF Delivering, AgentRecords, AgentSteps

LEMMA CarriedOutGrows ==
  ASSUME provider \in [due : Int, done : SUBSET Int], NEW e \in Int
  PROVE  /\ CarriedOut(e) \in [due : Int, done : SUBSET Int]
         /\ provider.done \subseteq CarriedOut(e).done /\ e \in CarriedOut(e).done
BY RenewalAssumption DEF CarriedOut

LEMMA ExtendKeeps == ASSUME RenewalInv, Extend PROVE rented' \in RentedRows
<1>1. PICK date \in Int : rented' = [rented EXCEPT !.expires = date]
  <2>1. Later(today, rented.expires) + Cycle \in Int
    BY RenewalAssumption DEF RenewalInv, RentedRows, Later
  <2>2. QED  BY <2>1 DEF Extend
<1>2. QED  BY <1>1 DEF RenewalInv, RentedRows

LEMMA RenewalStep == RenewalInv /\ [RenewalNext]_renewalVars => RenewalInv'
<1> SUFFICES ASSUME RenewalInv, [RenewalNext]_renewalVars PROVE RenewalInv'  OBVIOUS
<1> USE DEF ledger, world
<1>1. /\ today \in Int /\ rented \in RentedRows
      /\ event \in [Expiries -> EventStates] /\ charged \in [Expiries -> Int]
      /\ provider \in [due : Int, done : SUBSET Int] /\ agent \in [Workers -> AgentRecords]
      /\ \A a \in Workers : agent[a].date \in Int /\ agent[a].at \in AgentSteps
  BY DEF RenewalInv, AgentRecords
<1>2. (\A s \in Sweepers : s \in Workers) /\ (\A b \in Owners : b \in Workers)  BY DEF Workers
<1>3. ASSUME NEW s \in Sweepers, Round(s) PROVE RenewalInv'
  <2>1. [Resting EXCEPT !.at = "charge", !.date = rented.expires] \in AgentRecords
    <3>1. rented.expires \in Int  BY <1>1 DEF RentedRows
    <3>2. QED  BY <3>1, RestingIsAgent DEF AgentRecords, AgentSteps
  <2>2. PICK w \in AgentRecords : w.at # "ok" /\ Does(s, w)
    <3>1. [Resting EXCEPT !.at = "charge", !.date = rented.expires].at = "charge"
      BY RestingIsAgent DEF AgentRecords
    <3>2. QED  BY <1>3, <2>1, <3>1, DeliveringIsAgent DEF Round
  <2>3. QED  BY <1>1, <1>2, <1>3, <2>2, AgentMoves DEF Round
<1>4. ASSUME NEW s \in Sweepers, ChargePeriod(s) PROVE RenewalInv'
  <2> DEFINE e == agent[s].date
  <2>1. /\ event[e] = "none" /\ Extend /\ Does(s, Delivering)
        /\ event' = [event EXCEPT ![e] = "pending"]
        /\ charged' = [charged EXCEPT ![e] = @ + 1]
        /\ UNCHANGED <<today, provider>>
    BY <1>4 DEF ChargePeriod, Chargeable, Unclaimed
  <2> HIDE DEF e
  <2>2. rented' \in RentedRows  BY <2>1, ExtendKeeps
  <2>3. event' \in [Expiries -> EventStates] /\ charged' \in [Expiries -> Int]
    <3>1. event' \in [Expiries -> EventStates]  BY <1>1, <2>1 DEF EventStates
    <3>2. \A f \in Expiries : charged[f] + 1 \in Int  BY <1>1
    <3>3. QED  BY <1>1, <2>1, <3>1, <3>2
  <2>4. ASSUME NEW f \in Expiries
        PROVE  /\ charged'[f] = IF event'[f] = "none" THEN 0 ELSE 1
               /\ event'[f] = "done" => f \in provider'.done
    <3>1. /\ charged[f] = IF event[f] = "none" THEN 0 ELSE 1
          /\ event[f] = "done" => f \in provider.done
      BY DEF RenewalInv, OncePerExpiry, DoneIsDelivered
    <3>2. CASE f = e
      <4>1. event'[f] = "pending" /\ charged'[f] = charged[f] + 1  BY <1>1, <2>1, <3>2
      <4>2. QED  BY <2>1, <3>1, <3>2, <4>1
    <3>3. CASE f # e  BY <1>1, <2>1, <3>1, <3>3
    <3>4. QED  BY <3>2, <3>3
  <2>5. agent' \in [Workers -> AgentRecords] /\ AnswersKnown'
    BY <1>1, <1>2, <2>1, DeliveringIsAgent DEF RenewalInv, AnswersKnown, Does
  <2>6. QED  BY <1>1, <2>1, <2>2, <2>3, <2>4, <2>5 DEF RenewalInv, OncePerExpiry, DoneIsDelivered
<1>5. ASSUME NEW s \in Sweepers, PassOver(s) PROVE RenewalInv'
  BY <1>1, <1>2, <1>5, DeliveringIsAgent, AgentMoves DEF PassOver
<1>6. ASSUME NEW s \in Sweepers, ClaimEvent(s) PROVE RenewalInv'
  <2>1. PICK e \in Expiries : /\ Deliverable(e)
                              /\ Does(s, [at |-> "call", date |-> e, expired |-> rented.status = "expired"])
                              /\ event' = [event EXCEPT ![e] = "sending"]
    BY <1>6 DEF ClaimEvent, Ahead
  <2>2. UNCHANGED <<today, rented, charged, provider>>  BY <1>6 DEF ClaimEvent
  <2>3. [at |-> "call", date |-> e, expired |-> rented.status = "expired"] \in AgentRecords
    BY DEF AgentRecords, AgentSteps, Expiries
  <2>4. agent' \in [Workers -> AgentRecords] /\ AnswersKnown'
    BY <1>1, <1>2, <2>1, <2>2, <2>3 DEF RenewalInv, AnswersKnown, Does
  <2>5. event[e] # "none" /\ event' \in [Expiries -> EventStates]
    BY <1>1, <2>1 DEF Deliverable, EventStates
  <2>6. OncePerExpiry' /\ DoneIsDelivered'
    BY <1>1, <2>1, <2>2, <2>5 DEF RenewalInv, OncePerExpiry, DoneIsDelivered
  <2>7. QED  BY <1>1, <2>2, <2>4, <2>5, <2>6 DEF RenewalInv
<1>7. ASSUME NEW s \in Sweepers, EndRound(s) PROVE RenewalInv'
  BY <1>1, <1>2, <1>7, RestingIsAgent, AgentMoves DEF EndRound
<1>8. ASSUME NEW s \in Sweepers, RenewDone(s) PROVE RenewalInv'
  <2> DEFINE w == [agent[s] EXCEPT !.at = "ok"]
  <2>1. w \in AgentRecords /\ w.date = agent[s].date  BY <1>1, <1>2 DEF AgentRecords, AgentSteps
  <2>2. /\ agent' = [agent EXCEPT ![s] = w] /\ provider' = CarriedOut(agent[s].date)
        /\ UNCHANGED <<today, rented, event, charged>>
    BY <1>8 DEF RenewDone, Moves, Does
  <2> HIDE DEF w
  <2>3. /\ provider' \in [due : Int, done : SUBSET Int]
        /\ provider.done \subseteq provider'.done /\ agent[s].date \in provider'.done
    BY <1>1, <1>2, <2>2, CarriedOutGrows
  <2>4. agent' \in [Workers -> AgentRecords] /\ AnswersKnown'
    BY <1>1, <1>2, <2>1, <2>2, <2>3 DEF RenewalInv, AnswersKnown
  <2>5. OncePerExpiry' /\ DoneIsDelivered'
    BY <2>2, <2>3 DEF RenewalInv, OncePerExpiry, DoneIsDelivered
  <2>6. QED  BY <1>1, <2>2, <2>3, <2>4, <2>5 DEF RenewalInv
<1>9. ASSUME NEW a \in Workers, NEW from, NEW to \in AgentSteps \ {"ok"}, Moves(a, from, to),
             today' \in Int, rented' \in RentedRows, UNCHANGED <<event, charged>>,
             provider' \in [due : Int, done : SUBSET Int], provider.done \subseteq provider'.done
      PROVE  RenewalInv'
  <2> DEFINE w == [agent[a] EXCEPT !.at = to]
  <2>1. w \in AgentRecords /\ w.at = to  BY <1>1 DEF AgentRecords
  <2>2. Does(a, w)  BY <1>9 DEF Moves
  <2> HIDE DEF w
  <2>3. QED  BY <1>9, <2>1, <2>2, AgentMoves
<1>10. ASSUME NEW s \in Sweepers, RenewFails(s) PROVE RenewalInv'
  <2>1. /\ provider' \in [due : Int, done : SUBSET Int] /\ provider.done \subseteq provider'.done
    BY <1>1, <1>2, <1>10, CarriedOutGrows DEF RenewFails
  <2>2. QED  BY <1>1, <1>2, <1>9, <1>10, <2>1 DEF RenewFails, AgentSteps
<1>11. ASSUME NEW s \in Sweepers, WriteOutcome(s) PROVE RenewalInv'
  <2> DEFINE e == agent[s].date
  <2>1. PICK at \in {"resume", "events"} : Does(s, [Delivering EXCEPT !.at = at, !.date = e + 1])
    BY <1>11 DEF WriteOutcome
  <2>2. /\ event' = IF event[e] = "sending" THEN [event EXCEPT ![e] = Outcome(s)] ELSE event
        /\ agent[s].at \in {"ok", "error"} /\ UNCHANGED <<today, rented, charged, provider>>
    BY <1>11 DEF WriteOutcome
  <2>3. e \in Int /\ (Outcome(s) = "done" => e \in provider.done) /\ Outcome(s) \in {"done", "failed"}
    BY <1>1, <1>2, <2>2 DEF Outcome, RenewalInv, AnswersKnown
  <2>4. PICK w \in AgentRecords : w.at # "ok" /\ Does(s, w)
    <3>1. PICK date \in Int : date = e + 1  BY <2>3
    <3> DEFINE w == [Delivering EXCEPT !.at = at, !.date = date]
    <3>2. w \in AgentRecords /\ w.at = at  BY DeliveringIsAgent DEF AgentRecords, AgentSteps
    <3>3. Does(s, w)  BY <2>1, <3>1
    <3> HIDE DEF w
    <3>4. QED  BY <3>2, <3>3
  <2> HIDE DEF e
  <2>5. agent' \in [Workers -> AgentRecords] /\ AnswersKnown'
    BY <1>1, <1>2, <2>2, <2>4 DEF RenewalInv, AnswersKnown, Does
  <2>6. event' \in [Expiries -> EventStates]  BY <1>1, <2>2, <2>3 DEF EventStates
  <2>7. OncePerExpiry' /\ DoneIsDelivered'
    BY <1>1, <2>2, <2>3 DEF RenewalInv, OncePerExpiry, DoneIsDelivered
  <2>8. QED  BY <1>1, <2>2, <2>5, <2>6, <2>7 DEF RenewalInv
<1>12. ASSUME NEW a \in Workers, Resume(a) PROVE RenewalInv'
  <2>1. rented' \in RentedRows
    <3>1. [rented EXCEPT !.status = "active"] \in RentedRows  BY <1>1 DEF RentedRows
    <3>2. QED  BY <1>1, <1>12, <3>1 DEF Resume
  <2>2. PICK w \in AgentRecords : w.at # "ok" /\ Does(a, w)
    <3> DEFINE w == [agent[a] EXCEPT !.at = "events", !.expired = FALSE]
    <3>1. w \in AgentRecords /\ w.at = "events"  BY <1>1 DEF AgentRecords, AgentSteps
    <3>2. Does(a, w) \/ Does(a, Resting)  BY <1>12 DEF Resume
    <3> HIDE DEF w
    <3>3. QED  BY <3>1, <3>2, RestingIsAgent
  <2>3. QED  BY <1>1, <1>12, <2>1, <2>2, AgentMoves DEF Resume
<1>13. ASSUME NEW b \in Owners, NEW how \in {"wallet", "invoice", "intent"}, Renew(b, how)
       PROVE  RenewalInv'
  <2>1. [Resting EXCEPT !.at = "call"] \in AgentRecords /\ [Resting EXCEPT !.at = "call"].at = "call"
    BY RestingIsAgent DEF AgentRecords, AgentSteps
  <2>2. rented' \in RentedRows  BY <1>13, ExtendKeeps DEF Renew
  <2>3. QED  BY <1>1, <1>2, <1>13, <2>1, <2>2, AgentMoves DEF Renew
<1>14. ASSUME NEW b \in Owners, RenewAnswered(b) PROVE RenewalInv'
  <2>1. PICK until \in Int : until = provider.due + Cycle  BY <1>1, RenewalAssumption
  <2>2. provider' = [provider EXCEPT !.due = until]  BY <1>14, <2>1 DEF RenewAnswered
  <2>3. provider' \in [due : Int, done : SUBSET Int] /\ provider'.done = provider.done
    BY <1>1, <2>2
  <2>4. PICK w \in AgentRecords : w.at # "ok" /\ Does(b, w)
    <3>1. PICK step \in {"answer", "resume"} :
              Does(b, [Resting EXCEPT !.at = step, !.date = IF step = "answer" THEN until ELSE 0])
      BY <1>14, <2>1 DEF RenewAnswered
    <3>2. PICK date \in Int : date = IF step = "answer" THEN until ELSE 0  OBVIOUS
    <3> DEFINE w == [Resting EXCEPT !.at = step, !.date = date]
    <3>3. w \in AgentRecords /\ w.at = step  BY RestingIsAgent DEF AgentRecords, AgentSteps
    <3>4. Does(b, w)  BY <3>1, <3>2
    <3> HIDE DEF w
    <3>5. QED  BY <3>3, <3>4
  <2>5. QED  BY <1>1, <1>2, <1>14, <2>3, <2>4, AgentMoves DEF RenewAnswered
<1>15. ASSUME NEW b \in Owners, RenewUnanswered(b) PROVE RenewalInv'
  <2>1. provider' \in [due : Int, done : SUBSET Int] /\ provider'.done = provider.done
    <3>1. PICK until \in Int : until = provider.due + Cycle  BY <1>1, RenewalAssumption
    <3>2. provider' \in {provider, [provider EXCEPT !.due = until]}
      BY <1>15, <3>1 DEF RenewUnanswered
    <3>3. QED  BY <1>1, <3>2
  <2>2. QED  BY <1>1, <1>2, <1>9, <1>15, <2>1 DEF RenewUnanswered, AgentSteps
<1>16. ASSUME NEW b \in Owners, TakeDate(b) PROVE RenewalInv'
  <2>1. [Resting EXCEPT !.at = "resume"] \in AgentRecords
        /\ [Resting EXCEPT !.at = "resume"].at = "resume"
    BY RestingIsAgent DEF AgentRecords, AgentSteps
  <2>2. rented' \in RentedRows  BY <1>1, <1>2, <1>16 DEF TakeDate, RentedRows
  <2>3. QED  BY <1>1, <1>2, <1>16, <2>1, <2>2, AgentMoves DEF TakeDate
<1>17. ASSUME NEW b \in Owners, MarkFailed(b) PROVE RenewalInv'
  <2>1. rented' \in RentedRows  BY <1>1, <1>17 DEF MarkFailed, RentedRows
  <2>2. QED  BY <1>1, <1>2, <1>9, <1>17, <2>1 DEF MarkFailed, AgentSteps
<1>18. ASSUME NEW a \in Workers, ProcessDies(a) PROVE RenewalInv'
  BY <1>1, <1>18, RestingIsAgent, AgentMoves DEF ProcessDies
<1>19. ASSUME SetAutoRenew \/ Expire \/ Reopen PROVE RenewalInv'
  <2>1. rented' \in RentedRows  BY <1>1, <1>19 DEF SetAutoRenew, Expire, Reopen, RentedRows
  <2>2. QED  BY <1>1, <1>19, <2>1, AgentsStand DEF SetAutoRenew, Expire, Reopen
<1>20. ASSUME \/ \E k \in Offered : Bill(k)
              \/ \E e \in Expiries : LeaseEnds(e)
              \/ TopUp \/ Tick \/ UNCHANGED renewalVars
       PROVE  RenewalInv'
  BY <1>1, <1>20, AgentsStand DEF Bill, LeaseEnds, TopUp, Tick, renewalVars
<1>21. QED
  BY <1>2, <1>3, <1>4, <1>5, <1>6, <1>7, <1>8, <1>10, <1>11, <1>12, <1>13, <1>14, <1>15, <1>16,
     <1>17, <1>18, <1>19, <1>20
  DEF RenewalNext, Sweep, Buy

\* However many patrols run and although the owner's renewals may set the date back, the
\* patrol takes the price of a period once for each expiry, and closes an event only after
\* the upstream has carried it out (renewal_scheduler.go, renewal_reconcile.go).
THEOREM RenewalsAreBooked == RenewalSpec => [](OncePerExpiry /\ DoneIsDelivered)
<1>1. RenewalInv => OncePerExpiry /\ DoneIsDelivered  BY DEF RenewalInv
<1>2. QED  BY <1>1, RenewalStart, RenewalStep, PTL DEF RenewalSpec

-----------------------------------------------------------------------------
(* The shop window.                                                        *)

ShopJob == [at : {"idle", "walk", "place", "children", "wares", "drop", "shelf", "put"},
            self : Shelves \cup {New}, to : Shelves \cup {Front},
            cursor : Shelves \cup {Front}, depth : 0..CategoryDepth, ware : Wares \cup {Nothing}]

\* Whatever overlaps: a category is not moved under itself, nor under one without a row.
ShopRead ==
    /\ CatalogTypeOK
    /\ \A s \in Shelves : above[s] # s
    /\ \A c \in Clerks :
          /\ job[c].at \in {"shelf", "put"} => job[c].to \in Shelves
          /\ job[c].at \in {"walk", "place"} => job[c].self # job[c].to
          /\ job[c].at = "walk" => /\ job[c].to \in Shelves
                                   /\ job[c].cursor = job[c].to \/ above[job[c].to] # Unused
          /\ job[c].at = "place" => job[c].to = Front \/ above[job[c].to] # Unused

ClerksAtWork == {c \in Clerks : job[c] # NoJob}

\* The categories the walk has passed lead from the new parent to where it is, and the
\* category that moves is not among them.
WalkedBy(c, path) ==
    /\ path \subseteq There /\ job[c].self \notin path
    /\ job[c].to \in path \/ job[c].cursor = job[c].to
    /\ \A s \in path : above[s] \in path \cup {job[c].cursor}
    /\ job[c].at = "place" => job[c].cursor = Front

\* No set of categories is cut off from the front.
NoTrap ==
    \A around \in SUBSET There : around # {} =>
        \E r \in around : above[r] = Front \/ above[r] \in There \ around

\* What the one request under way has seen still holds.
StillTrue(c) ==
    /\ job[c].at \in {"walk", "place"} =>
          job[c].self \in There \cup {New} /\ \E path \in SUBSET There : WalkedBy(c, path)
    /\ job[c].at \in {"children", "wares", "drop"} => job[c].self \in There
    /\ job[c].at \in {"wares", "drop"} => \A s \in Shelves : above[s] # job[c].self
    /\ job[c].at = "drop" => \A w \in Wares : ware[w] # job[c].self
    /\ job[c].at = "put" => job[c].to \in There

InOrder ==
    /\ \A c, d \in ClerksAtWork : c = d
    /\ NoTrap
    /\ \A w \in Wares : ware[w] \in There \cup {Unused, Removed}
    /\ \A c \in Clerks : StillTrue(c)

ShopInv == ShopRead /\ (~overlapped => InOrder)

LEMMA NoJobFits == NoJob \in ShopJob /\ NoJob.at = "idle"
BY CatalogAssumption DEF NoJob, ShopJob

LEMMA IdleIsFresh == ASSUME NEW c \in Clerks, job[c].at \in {"idle", "shelf"} PROVE StillTrue(c)
BY DEF StillTrue

LEMMA ShopStart == CatalogInit => ShopInv
<1> SUFFICES ASSUME CatalogInit PROVE ShopInv  OBVIOUS
<1>1. \A c \in Clerks : job[c] = NoJob  BY DEF CatalogInit
<1>2. CatalogTypeOK
  <2>1. job \in [Clerks -> ShopJob]  BY NoJobFits DEF CatalogInit
  <2>2. QED  BY <2>1 DEF CatalogInit, CatalogTypeOK, ShopJob
<1>3. There = {} /\ \A s \in Shelves : above[s] # s
  BY CatalogAssumption DEF CatalogInit, There
<1>4. InOrder
  <2>1. \A c \in Clerks : StillTrue(c)  BY <1>1, NoJobFits, IdleIsFresh
  <2>2. \A w \in Wares : ware[w] = Unused  BY DEF CatalogInit
  <2>3. QED  BY <1>1, <1>3, <2>1, <2>2 DEF InOrder, ClerksAtWork, NoTrap
<1>5. QED  BY <1>1, <1>2, <1>3, <1>4, NoJobFits DEF ShopInv, ShopRead

\* A request begins, or moves on: the shop stands.
LEMMA JobMoves ==
  ASSUME ShopRead, UNCHANGED <<above, ware>>, overlapped' \in BOOLEAN,
         NEW c \in Clerks, NEW new \in ShopJob, job' = [job EXCEPT ![c] = new],
         new.at \in {"shelf", "put"} => new.to \in Shelves,
         new.at \in {"walk", "place"} => new.self # new.to,
         new.at = "walk" => new.to \in Shelves /\ (new.cursor = new.to \/ above[new.to] # Unused),
         new.at = "place" => new.to = Front \/ above[new.to] # Unused
  PROVE  ShopRead' /\ job'[c] = new /\ \A d \in Clerks : d # c => job'[d] = job[d]
<1>1. job \in [Clerks -> ShopJob]  BY DEF ShopRead, CatalogTypeOK, ShopJob
<1>2. job' \in [Clerks -> ShopJob] /\ job'[c] = new /\ \A d \in Clerks : d # c => job'[d] = job[d]
  BY <1>1
<1>3. CatalogTypeOK'  BY <1>2 DEF ShopRead, CatalogTypeOK, ShopJob
<1>4. QED  BY <1>2, <1>3 DEF ShopRead

\* What was seen of rows that stand.
LEMMA FreshStays ==
  ASSUME UNCHANGED <<above, ware>>, NEW d \in Clerks, job'[d] = job[d], StillTrue(d)
  PROVE  StillTrue(d)'
<1>1. There' = There  BY DEF There
<1>2. QED  BY <1>1 DEF StillTrue, WalkedBy

\* The same for the quiet part: only c is under way.
LEMMA QuietMoves ==
  ASSUME InOrder, UNCHANGED <<above, ware>>, NEW c \in Clerks,
         \A d \in Clerks : d # c => job'[d] = job[d] /\ job[d] = NoJob,
         StillTrue(c)'
  PROVE  InOrder'
<1>1. There' = There  BY DEF There
<1>2. NoTrap'  BY <1>1 DEF InOrder, NoTrap
<1>3. \A d \in Clerks : StillTrue(d)'
  <2> SUFFICES ASSUME NEW d \in Clerks, d # c PROVE StillTrue(d)'  OBVIOUS
  <2>1. QED  BY FreshStays DEF InOrder
<1>4. \A x, y \in ClerksAtWork' : x = y  BY DEF ClerksAtWork
<1>5. QED  BY <1>1, <1>2, <1>3, <1>4 DEF InOrder

\* A request begins.
LEMMA JobBegins ==
  ASSUME ShopInv, NEW c \in Clerks, NEW new \in ShopJob, BeginsEdit(c, new),
         new.at \in {"shelf", "put"} => new.to \in Shelves,
         new.at \in {"walk", "place"} => new.self # new.to,
         new.at = "walk" => new.to \in Shelves /\ (new.cursor = new.to \/ above[new.to] # Unused),
         new.at = "place" => new.to = Front \/ above[new.to] # Unused,
         ASSUME InOrder, job'[c] = new PROVE StillTrue(c)'
  PROVE  ShopInv'
<1>1. /\ job[c] = NoJob /\ job' = [job EXCEPT ![c] = new] /\ UNCHANGED <<above, ware>>
      /\ overlapped' = (overlapped \/ \E other \in Clerks : job[other] # NoJob)
  BY DEF BeginsEdit
<1>2. overlapped' \in BOOLEAN  BY <1>1 DEF ShopInv, ShopRead, CatalogTypeOK
<1>3. ShopRead' /\ job'[c] = new /\ \A d \in Clerks : d # c => job'[d] = job[d]
  BY <1>1, <1>2, JobMoves DEF ShopInv
<1>4. ASSUME ~overlapped' PROVE InOrder'
  <2>1. InOrder /\ \A d \in Clerks : job[d] = NoJob  BY <1>1, <1>4 DEF ShopInv
  <2>2. StillTrue(c)'  BY <1>3, <2>1
  <2>3. QED  BY <1>1, <1>3, <2>1, <2>2, QuietMoves
<1>5. QED  BY <1>3, <1>4 DEF ShopInv

\* A request that is under way moves on.
LEMMA JobGoesOn ==
  ASSUME ShopInv, NEW c \in Clerks, NEW new \in ShopJob, UNCHANGED <<above, ware, overlapped>>,
         job' = [job EXCEPT ![c] = new], job[c].at # "idle",
         new.at \in {"shelf", "put"} => new.to \in Shelves,
         new.at \in {"walk", "place"} => new.self # new.to,
         new.at = "walk" => new.to \in Shelves /\ (new.cursor = new.to \/ above[new.to] # Unused),
         new.at = "place" => new.to = Front \/ above[new.to] # Unused,
         ASSUME InOrder, job'[c] = new PROVE StillTrue(c)'
  PROVE  ShopInv'
<1>1. overlapped' \in BOOLEAN  BY DEF ShopInv, ShopRead, CatalogTypeOK
<1>2. ShopRead' /\ job'[c] = new /\ \A d \in Clerks : d # c => job'[d] = job[d]
  BY <1>1, JobMoves DEF ShopInv
<1>3. ASSUME ~overlapped' PROVE InOrder'
  <2>1. InOrder  BY <1>3 DEF ShopInv
  <2>2. c \in ClerksAtWork  BY NoJobFits DEF ClerksAtWork
  <2>3. \A d \in Clerks : d # c => job[d] = NoJob  BY <2>1, <2>2 DEF InOrder, ClerksAtWork
  <2>4. StillTrue(c)'  BY <1>2, <2>1
  <2>5. QED  BY <1>2, <2>1, <2>3, <2>4, QuietMoves
<1>4. QED  BY <1>2, <1>3 DEF ShopInv

\* A request writes and ends.
LEMMA WriteEnds ==
  ASSUME ShopInv, NEW c \in Clerks, job[c].at # "idle", Finishes(c),
         above' \in [Shelves -> Shelves \cup {Front, Unused, Removed}],
         ware' \in [Wares -> Shelves \cup {Unused, Removed}],
         \A s \in Shelves : above'[s] # s /\ (above[s] # Unused => above'[s] # Unused),
         ASSUME InOrder PROVE NoTrap' /\ \A w \in Wares : ware'[w] \in There' \cup {Unused, Removed}
  PROVE  ShopInv'
<1>1. job' = [job EXCEPT ![c] = NoJob] /\ UNCHANGED overlapped  BY DEF Finishes
<1>2. job \in [Clerks -> ShopJob]  BY DEF ShopInv, ShopRead, CatalogTypeOK, ShopJob
<1>3. job' \in [Clerks -> ShopJob] /\ job'[c] = NoJob /\ \A d \in Clerks : d # c => job'[d] = job[d]
  BY <1>1, <1>2, NoJobFits
<1>4. ShopRead'
  <2>1. CatalogTypeOK'  BY <1>1, <1>3 DEF ShopInv, ShopRead, CatalogTypeOK, ShopJob
  <2>2. ASSUME NEW d \in Clerks, job'[d].at \in {"walk", "place"}
        PROVE  /\ job'[d].self # job'[d].to
               /\ job'[d].at = "walk" =>
                     /\ job'[d].to \in Shelves
                     /\ job'[d].cursor = job'[d].to \/ above'[job'[d].to] # Unused
               /\ job'[d].at = "place" => job'[d].to = Front \/ above'[job'[d].to] # Unused
    <3>1. job'[d] = job[d]  BY <1>3, <2>2, NoJobFits
    <3>2. job[d].to \in Shelves \cup {Front}  BY <1>2 DEF ShopJob
    <3>3. job[d].to = Front \/ (above[job[d].to] # Unused => above'[job[d].to] # Unused)
      BY <3>2
    <3>4. Front \notin Shelves  BY CatalogAssumption
    <3>5. /\ job[d].at \in {"walk", "place"} => job[d].self # job[d].to
          /\ job[d].at = "walk" => /\ job[d].to \in Shelves
                                   /\ job[d].cursor = job[d].to \/ above[job[d].to] # Unused
          /\ job[d].at = "place" => job[d].to = Front \/ above[job[d].to] # Unused
      BY DEF ShopInv, ShopRead
    <3>6. job[d].at = "walk" => job[d].to # Front  BY <3>4, <3>5
    <3>7. QED  BY <2>2, <3>1, <3>3, <3>5, <3>6
  <2>3. ASSUME NEW d \in Clerks, job'[d].at \in {"shelf", "put"} PROVE job'[d].to \in Shelves
    BY <1>3, <2>3, NoJobFits DEF ShopInv, ShopRead
  <2>4. \A s \in Shelves : above'[s] # s  OBVIOUS
  <2>5. QED  BY <2>1, <2>2, <2>3, <2>4 DEF ShopRead
<1>5. ASSUME ~overlapped' PROVE InOrder'
  <2>1. InOrder  BY <1>1, <1>5 DEF ShopInv
  <2>2. c \in ClerksAtWork  BY NoJobFits DEF ClerksAtWork
  <2>3. \A d \in Clerks : job'[d] = NoJob  BY <1>3, <2>1, <2>2 DEF InOrder, ClerksAtWork
  <2>4. ClerksAtWork' = {}  BY <2>3 DEF ClerksAtWork
  <2>5. \A d \in Clerks : StillTrue(d)'  BY <2>3, NoJobFits DEF StillTrue
  <2>6. QED  BY <2>1, <2>4, <2>5 DEF InOrder
<1>6. QED  BY <1>4, <1>5 DEF ShopInv

\* A request passes a check or ends.
LEMMA CheckPasses ==
  ASSUME ShopInv, NEW c \in Clerks, NEW allowed, NEW to \in {"wares", "drop", "put"},
         job[c].at # "idle", to = "put" => job[c].to \in Shelves, GoesTo(c, allowed, to),
         ASSUME InOrder, allowed, job'[c] = [job[c] EXCEPT !.at = to] PROVE StillTrue(c)'
  PROVE  ShopInv'
<1> DEFINE new == IF allowed THEN [job[c] EXCEPT !.at = to] ELSE NoJob
<1>1. job' = [job EXCEPT ![c] = new] /\ UNCHANGED <<above, ware, overlapped>>
  BY DEF GoesTo, ShopInv, ShopRead, CatalogTypeOK
<1>2. job[c] \in ShopJob  BY DEF ShopInv, ShopRead, CatalogTypeOK, ShopJob
<1>3. new \in ShopJob /\ new.at \in {"idle", to} /\ (new.at = "put" => new.to \in Shelves)
  BY <1>2, NoJobFits DEF ShopJob
<1>4. ASSUME InOrder, job'[c] = new PROVE StillTrue(c)'
  <2>1. CASE allowed  BY <1>4, <2>1
  <2>2. CASE ~allowed  BY <1>4, <2>2, NoJobFits DEF StillTrue
  <2>3. QED  BY <2>1, <2>2
<1> HIDE DEF new
<1>5. QED  BY <1>1, <1>3, <1>4, JobGoesOn

LEMMA PlacingKeeps ==
  ASSUME ShopInv, NEW c \in Clerks, NEW self \in Shelves \cup {New}, NEW to \in Shelves \cup {Front},
         PlaceCategory(c, self, to)
  PROVE  ShopInv'
<1> DEFINE new == [NoJob EXCEPT !.at = IF to = Front THEN "place" ELSE "walk",
                                !.self = self, !.to = to, !.cursor = to]
<1>1. self \in There \cup {New} /\ self # to /\ BeginsEdit(c, new)  BY DEF PlaceCategory
<1>2. /\ new \in ShopJob /\ new.self = self /\ new.to = to /\ new.cursor = to
      /\ new.at = IF to = Front THEN "place" ELSE "walk"
  BY NoJobFits DEF ShopJob
<1> HIDE DEF new
<1>3. ASSUME InOrder, job'[c] = new PROVE StillTrue(c)'
  <2>1. There' = There  BY <1>1 DEF BeginsEdit, There
  <2>2. WalkedBy(c, {})'  BY <1>2, <1>3 DEF WalkedBy
  <2>3. QED  BY <1>1, <1>2, <1>3, <2>1, <2>2 DEF StillTrue
<1>4. QED  BY <1>1, <1>2, <1>3, JobBegins

LEMMA WalkingKeeps ==
  ASSUME ShopInv, NEW c \in Clerks, WalkUp(c)
  PROVE  ShopInv'
<1> DEFINE old == job[c]
           node == old.cursor
           arrives == [old EXCEPT !.at = "place", !.cursor = Front, !.depth = 0]
           climbs == [old EXCEPT !.cursor = above[node], !.depth = old.depth + 1]
           new == IF node \notin There \/ old.depth = CategoryDepth \/ ~NotBelow(c, node) THEN NoJob
                  ELSE IF above[node] = Front THEN arrives ELSE climbs
<1>1. job' = [job EXCEPT ![c] = new] /\ UNCHANGED <<above, ware, overlapped>> /\ old.at = "walk"
  <2>1. /\ old.at = "walk" /\ UNCHANGED <<above, ware, overlapped>>
        /\ job' = [job EXCEPT ![c] =
             IF node \notin There \/ old.depth = CategoryDepth \/ ~NotBelow(c, node) THEN NoJob
             ELSE IF above[node] = Front THEN arrives ELSE climbs]
    BY DEF WalkUp
  <2> HIDE DEF arrives, climbs
  <2>2. QED  BY <2>1
<1>2. old \in ShopJob /\ above \in [Shelves -> Shelves \cup {Front, Unused, Removed}]
  BY DEF ShopInv, ShopRead, CatalogTypeOK, ShopJob
<1>3. CASE new = NoJob
  <2>1. ASSUME job'[c] = NoJob PROVE StillTrue(c)'  BY <2>1, NoJobFits DEF StillTrue
  <2>2. QED  BY <1>1, <1>3, <2>1, NoJobFits, JobGoesOn
<1>4. CASE node \in There /\ old.depth # CategoryDepth /\ NotBelow(c, node)
  <2>0. /\ node \in Shelves /\ above[node] \in Shelves \cup {Front} /\ above[node] # Unused
        /\ node # old.self
    BY <1>2, <1>4, CatalogAssumption DEF There, NotBelow
  <2>1. old.self # old.to /\ old.to \in Shelves /\ (node = old.to \/ above[old.to] # Unused)
    BY <1>1 DEF ShopInv, ShopRead
  <2>2. above[old.to] # Unused
    <3>1. CASE node = old.to
      <4> HIDE DEF old, node
      <4> QED  BY <2>0, <3>1
    <3>2. QED  BY <2>1, <3>1
  <2>3. /\ new \in ShopJob /\ new.self = old.self /\ new.to = old.to /\ new.at \in {"walk", "place"}
        /\ new.cursor = above[node] /\ (new.at = "place" => new.cursor = Front)
    <3>1. old.depth + 1 \in 0..CategoryDepth /\ 0 \in 0..CategoryDepth
      <4> DEFINE n == old.depth
      <4>1. n \in 0..CategoryDepth /\ n # CategoryDepth  BY <1>2, <1>4 DEF ShopJob
      <4> HIDE DEF n
      <4>2. n + 1 \in 0..CategoryDepth /\ 0 \in 0..CategoryDepth  BY <4>1, CatalogAssumption
      <4>3. QED  BY <4>2 DEF n
    <3>2. new = IF above[node] = Front
                THEN [old EXCEPT !.at = "place", !.cursor = Front, !.depth = 0]
                ELSE [old EXCEPT !.cursor = above[node], !.depth = old.depth + 1]
      <4> HIDE DEF arrives, climbs
      <4>1. new = IF above[node] = Front THEN arrives ELSE climbs  BY <1>4
      <4>2. QED  BY <4>1 DEF arrives, climbs
    <3> HIDE DEF new
    <3>3. QED  BY <1>1, <1>2, <2>0, <3>1, <3>2 DEF ShopJob
  <2> HIDE DEF new
  <2>4. ASSUME InOrder, job'[c] = new PROVE StillTrue(c)'
    <3>1. StillTrue(c)  BY <2>4 DEF InOrder
    <3>2. PICK path \in SUBSET There : WalkedBy(c, path)  BY <1>1, <3>1 DEF StillTrue
    <3>3. There' = There  BY <1>1 DEF There
    <3>4. PICK further \in SUBSET There : further = path \cup {node}  BY <1>4
    <3>5. /\ old.self \notin path /\ (old.to \in path \/ node = old.to)
          /\ \A s \in path : above[s] \in path \cup {node}
      BY <3>2 DEF WalkedBy
    <3>6. /\ old.self \notin further /\ old.to \in further
          /\ \A s \in further : above[s] \in further \cup {above[node]}
      BY <2>0, <3>4, <3>5
    <3>7. /\ job'[c].self = old.self /\ job'[c].to = old.to /\ job'[c].cursor = above[node]
          /\ (job'[c].at = "place" => job'[c].cursor = Front) /\ above' = above
      BY <1>1, <2>3, <2>4
    <3>8. WalkedBy(c, further)'
      <4> HIDE DEF old, node
      <4> QED  BY <3>3, <3>4, <3>6, <3>7 DEF WalkedBy
    <3>9. old.self \in There \cup {New}  BY <1>1, <3>1 DEF StillTrue
    <3>10. job'[c].at \in {"walk", "place"}  BY <2>3, <2>4
    <3>11. job'[c].self \in There' \cup {New} /\ \E p \in SUBSET There' : WalkedBy(c, p)'
      BY <3>3, <3>4, <3>7, <3>8, <3>9
    <3>12. QED  BY <3>10, <3>11 DEF StillTrue
  <2>5. QED  BY <1>1, <2>1, <2>2, <2>3, <2>4, JobGoesOn
<1>5. QED  BY <1>3, <1>4

\* A new category, whatever is above it.
LEMMA NewIsReached ==
  ASSUME NoTrap, NEW s \in Shelves, above[s] = Unused, NEW to \in There \cup {Front},
         above \in [Shelves -> Shelves \cup {Front, Unused, Removed}],
         above' = [above EXCEPT ![s] = to]
  PROVE  There' = There \cup {s} /\ NoTrap'
<1>1. s \notin There /\ to # s /\ to \notin {Unused, Removed}
  BY CatalogAssumption DEF There, Front, Unused, Removed
<1>2. There' = There \cup {s}  BY <1>1 DEF There
<1>3. ASSUME NEW around \in SUBSET There', around # {}
      PROVE  \E r \in around : above'[r] = Front \/ above'[r] \in There' \ around
  <2>1. CASE around = {s}  BY <1>1, <1>2, <2>1
  <2>2. CASE around # {s}
    <3>1. around \ {s} \in SUBSET There /\ around \ {s} # {}  BY <1>2, <1>3, <2>2
    <3>2. PICK r \in around \ {s} : above[r] = Front \/ above[r] \in There \ (around \ {s})
      BY <3>1 DEF NoTrap
    <3>3. above'[r] = above[r]  BY <3>1, <3>2 DEF There
    <3>4. QED  BY <1>1, <1>2, <3>2, <3>3
  <2>3. QED  BY <2>1, <2>2
<1>4. QED  BY <1>2, <1>3 DEF NoTrap

\* A category that moves to where the walk has come from the front.
LEMMA MovedIsReached ==
  ASSUME NoTrap, NEW s \in There, NEW to \in There \cup {Front}, NEW path \in SUBSET There,
         s \notin path, to \in path \cup {Front}, \A r \in path : above[r] \in path \cup {Front},
         above \in [Shelves -> Shelves \cup {Front, Unused, Removed}],
         above' = [above EXCEPT ![s] = to]
  PROVE  There' = There /\ NoTrap'
<1>0. /\ Front \notin Shelves /\ Unused \notin Shelves /\ Removed \notin Shelves
      /\ Front \notin {Unused, Removed} /\ There \subseteq Shelves
  BY CatalogAssumption DEF There, Front, Unused, Removed
<1>1. There' = There
  <2>1. to \notin {Unused, Removed}  BY <1>0 DEF There
  <2>2. \A r \in Shelves : above'[r] = IF r = s THEN to ELSE above[r]  BY <1>0
  <2>3. above[s] \notin {Unused, Removed}  BY DEF There
  <2>4. QED  BY <2>1, <2>2, <2>3 DEF There
<1>2. ASSUME NEW around \in SUBSET There, around # {},
             \A r \in around : above'[r] # Front /\ above'[r] \notin There \ around
      PROVE  FALSE
  <2>1. \A r \in around \ {s} : above'[r] = above[r]  BY <1>0
  <2>2. s \in around  BY <1>2, <2>1 DEF NoTrap
  <2>3. above'[s] = to  BY <1>0
  <2>4. to \in around \cap path  BY <1>2, <2>2, <2>3
  <2>5. PICK r \in around \cap path : above[r] = Front \/ above[r] \in There \ (around \cap path)
    BY <2>4 DEF NoTrap
  <2>6. above'[r] = above[r]  BY <2>1, <2>5
  <2>7. above[r] \in path \cup {Front}  BY <2>5
  <2>8. QED  BY <1>2, <2>5, <2>6, <2>7
<1>3. QED  BY <1>1, <1>2 DEF NoTrap

\* A category without children that goes.
LEMMA GoneIsNotMissed ==
  ASSUME NoTrap, NEW s \in There, \A r \in Shelves : above[r] # s,
         above \in [Shelves -> Shelves \cup {Front, Unused, Removed}],
         above' = [above EXCEPT ![s] = Removed]
  PROVE  There' = There \ {s} /\ NoTrap'
<1>1. There \subseteq Shelves  BY DEF There
<1>2. There' = There \ {s}  BY <1>1 DEF There
<1>3. ASSUME NEW around \in SUBSET There', around # {}
      PROVE  \E r \in around : above'[r] = Front \/ above'[r] \in There' \ around
  <2>1. around \in SUBSET There  BY <1>2
  <2>2. PICK r \in around : above[r] = Front \/ above[r] \in There \ around
    BY <1>3, <2>1 DEF NoTrap
  <2>3. above'[r] = above[r] /\ above[r] # s  BY <1>1, <1>2, <2>2
  <2>4. QED  BY <1>2, <2>2, <2>3
<1>4. QED  BY <1>2, <1>3 DEF NoTrap

LEMMA WritingPlaceKeeps ==
  ASSUME ShopInv, NEW c \in Clerks, WritePlace(c)
  PROVE  ShopInv'
<1> DEFINE self == job[c].self
           to == job[c].to
<1>1. /\ job[c].at = "place" /\ Finishes(c) /\ UNCHANGED ware
      /\ self = New => /\ \E s \in Shelves : above[s] = Unused
                       /\ above' = [above EXCEPT ![NextShelf] = to]
      /\ self # New => above' = [above EXCEPT ![self] = IF @ = Removed THEN @ ELSE to]
  BY DEF WritePlace
<1>2. /\ above \in [Shelves -> Shelves \cup {Front, Unused, Removed}]
      /\ ware \in [Wares -> Shelves \cup {Unused, Removed}]
      /\ self \in Shelves \cup {New} /\ to \in Shelves \cup {Front}
      /\ self # to /\ (to = Front \/ above[to] # Unused)
      /\ \A s \in Shelves : above[s] # s
  <2>1. job[c] \in ShopJob  BY DEF ShopInv, ShopRead, CatalogTypeOK, ShopJob
  <2>2. self \in Shelves \cup {New} /\ to \in Shelves \cup {Front}  BY <2>1 DEF ShopJob
  <2>3. self # to /\ (to = Front \/ above[to] # Unused)  BY <1>1 DEF ShopInv, ShopRead
  <2>4. QED  BY <2>2, <2>3 DEF ShopInv, ShopRead, CatalogTypeOK
<1>3. InOrder => StillTrue(c)  BY DEF InOrder
<1>4. ASSUME InOrder
      PROVE  /\ self \in There \cup {New}
             /\ \E path \in SUBSET There :
                   /\ self \notin path /\ to \in path \cup {Front}
                   /\ \A r \in path : above[r] \in path \cup {Front}
  <2>1. PICK path \in SUBSET There : WalkedBy(c, path)  BY <1>1, <1>3, <1>4 DEF StillTrue
  <2>2. self \in There \cup {New}  BY <1>1, <1>3, <1>4 DEF StillTrue
  <2>3. /\ self \notin path /\ to \in path \cup {Front}
        /\ \A r \in path : above[r] \in path \cup {Front}
    BY <1>1, <2>1 DEF WalkedBy
  <2>4. QED  BY <2>2, <2>3
<1>5. Front \notin Shelves /\ New \notin Shelves /\ Unused \notin Shelves /\ Removed \notin Shelves
      /\ Front # Unused /\ Removed # Unused
  BY CatalogAssumption DEF Front, Unused, Removed
<1> HIDE DEF self, to
<1>6. CASE self = New
  <2> DEFINE s == NextShelf
  <2>1. s \in Shelves /\ above[s] = Unused /\ above' = [above EXCEPT ![s] = to]
    BY <1>1, <1>6 DEF NextShelf
  <2> HIDE DEF s
  <2>2. to # s  BY <1>2, <1>5, <2>1
  <2>3. /\ above' \in [Shelves -> Shelves \cup {Front, Unused, Removed}]
        /\ \A r \in Shelves : above'[r] # r /\ (above[r] # Unused => above'[r] # Unused)
    BY <1>2, <2>1, <2>2
  <2>4. ASSUME InOrder PROVE NoTrap' /\ \A w \in Wares : ware'[w] \in There' \cup {Unused, Removed}
    <3>1. to \in There \cup {Front}  BY <1>4, <2>4
    <3>2. There' = There \cup {s} /\ NoTrap'
      BY <1>2, <2>1, <2>4, <3>1, NewIsReached DEF InOrder
    <3>3. QED  BY <1>1, <2>4, <3>2 DEF InOrder
  <2>5. QED  BY <1>1, <1>2, <2>3, <2>4, WriteEnds
<1>7. CASE self # New
  <2>1. self \in Shelves /\ above' = [above EXCEPT ![self] = IF above[self] = Removed THEN Removed ELSE to]
    BY <1>1, <1>2, <1>7
  <2>2. /\ above' \in [Shelves -> Shelves \cup {Front, Unused, Removed}]
        /\ \A r \in Shelves : above'[r] # r /\ (above[r] # Unused => above'[r] # Unused)
    <3>1. to # Unused /\ to # self  BY <1>2, <1>5
    <3>2. QED  BY <1>2, <1>5, <2>1, <3>1
  <2>3. ASSUME InOrder PROVE NoTrap' /\ \A w \in Wares : ware'[w] \in There' \cup {Unused, Removed}
    <3>1. self \in There  BY <1>4, <1>7, <2>3
    <3>2. above' = [above EXCEPT ![self] = to]  BY <2>1, <3>1 DEF There
    <3>3. PICK path \in SUBSET There :
              /\ self \notin path /\ to \in path \cup {Front}
              /\ \A r \in path : above[r] \in path \cup {Front}
      BY <1>4, <2>3
    <3>4. to \in There \cup {Front}  BY <3>3
    <3>5. NoTrap  BY <2>3 DEF InOrder
    <3>6. There' = There /\ NoTrap'  BY <1>2, <3>1, <3>2, <3>3, <3>4, <3>5, MovedIsReached
    <3>7. QED  BY <1>1, <2>3, <3>6 DEF InOrder
  <2>4. QED  BY <1>1, <1>2, <2>2, <2>3, WriteEnds
<1>8. QED  BY <1>6, <1>7

LEMMA ShopStep == ShopInv /\ [CatalogNext]_catalogVars => ShopInv'
<1> SUFFICES ASSUME ShopInv, [CatalogNext]_catalogVars PROVE ShopInv'  OBVIOUS
<1>t. /\ above \in [Shelves -> Shelves \cup {Front, Unused, Removed}]
      /\ ware \in [Wares -> Shelves \cup {Unused, Removed}]
      /\ \A c \in Clerks : job[c] \in ShopJob
      /\ \A s \in Shelves : above[s] # s
  BY DEF ShopInv, ShopRead, CatalogTypeOK, ShopJob
<1>n. Unused \notin Shelves /\ Removed \notin Shelves /\ New \notin Shelves /\ Removed # Unused
  BY CatalogAssumption DEF Unused, Removed
<1>q. ~overlapped => InOrder  BY DEF ShopInv
<1>1. ASSUME NEW c \in Clerks, NEW s \in Shelves, DropCategory(c, s) PROVE ShopInv'
  <2> DEFINE new == [NoJob EXCEPT !.at = "children", !.self = s]
  <2>1. s \in There /\ BeginsEdit(c, new)  BY <1>1 DEF DropCategory
  <2>2. new \in ShopJob /\ new.at = "children" /\ new.self = s  BY NoJobFits DEF ShopJob
  <2> HIDE DEF new
  <2>3. ASSUME InOrder, job'[c] = new PROVE StillTrue(c)'
    <3>1. There' = There  BY <2>1 DEF BeginsEdit, There
    <3>2. QED  BY <2>1, <2>2, <2>3, <3>1 DEF StillTrue
  <2>4. QED  BY <2>1, <2>2, <2>3, JobBegins
<1>2. ASSUME NEW c \in Clerks, NEW w \in Wares, NEW to \in Shelves, PutProduct(c, w, to)
      PROVE  ShopInv'
  <2> DEFINE new == [NoJob EXCEPT !.at = "shelf", !.to = to, !.ware = w]
  <2>1. BeginsEdit(c, new)  BY <1>2 DEF PutProduct
  <2>2. new \in ShopJob /\ new.at = "shelf" /\ new.to = to  BY NoJobFits DEF ShopJob
  <2> HIDE DEF new
  <2>3. ASSUME InOrder, job'[c] = new PROVE StillTrue(c)'  BY <2>2, <2>3 DEF StillTrue
  <2>4. QED  BY <2>1, <2>2, <2>3, JobBegins
<1>3. ASSUME NEW c \in Clerks, CountChildren(c) PROVE ShopInv'
  <2> DEFINE none == \A s \in Shelves : above[s] # job[c].self
  <2>1. job[c].at = "children" /\ GoesTo(c, none, "wares")  BY <1>3 DEF CountChildren
  <2>2. ASSUME InOrder, none, job'[c] = [job[c] EXCEPT !.at = "wares"] PROVE StillTrue(c)'
    <3>1. job[c].self \in There  BY <2>1, <2>2 DEF InOrder, StillTrue
    <3>2. There' = There /\ above' = above  BY <2>1 DEF GoesTo, There
    <3>3. job'[c].at = "wares" /\ job'[c].self = job[c].self  BY <1>t, <2>2 DEF ShopJob
    <3>4. QED  BY <2>2, <3>1, <3>2, <3>3 DEF StillTrue
  <2> HIDE DEF none
  <2>3. QED  BY <2>1, <2>2, CheckPasses
<1>4. ASSUME NEW c \in Clerks, CountWares(c) PROVE ShopInv'
  <2> DEFINE none == \A w \in Wares : ware[w] # job[c].self
  <2>1. job[c].at = "wares" /\ GoesTo(c, none, "drop")  BY <1>4 DEF CountWares
  <2>2. ASSUME InOrder, none, job'[c] = [job[c] EXCEPT !.at = "drop"] PROVE StillTrue(c)'
    <3>1. job[c].self \in There /\ \A s \in Shelves : above[s] # job[c].self
      BY <2>1, <2>2 DEF InOrder, StillTrue
    <3>2. There' = There /\ above' = above /\ ware' = ware  BY <2>1 DEF GoesTo, There
    <3>3. job'[c].at = "drop" /\ job'[c].self = job[c].self  BY <1>t, <2>2 DEF ShopJob
    <3>4. QED  BY <2>2, <3>1, <3>2, <3>3 DEF StillTrue
  <2> HIDE DEF none
  <2>3. QED  BY <2>1, <2>2, CheckPasses
<1>5. ASSUME NEW c \in Clerks, CheckShelf(c) PROVE ShopInv'
  <2> DEFINE stands == job[c].to \in There
  <2>1. job[c].at = "shelf" /\ job[c].to \in Shelves /\ GoesTo(c, stands, "put")
    BY <1>5 DEF CheckShelf, ShopInv, ShopRead
  <2>2. ASSUME InOrder, stands, job'[c] = [job[c] EXCEPT !.at = "put"] PROVE StillTrue(c)'
    <3>1. There' = There  BY <2>1 DEF GoesTo, There
    <3>2. job'[c].at = "put" /\ job'[c].to = job[c].to  BY <1>t, <2>2 DEF ShopJob
    <3>3. QED  BY <2>2, <3>1, <3>2 DEF StillTrue
  <2> HIDE DEF stands
  <2>3. QED  BY <2>1, <2>2, CheckPasses
<1>6. ASSUME NEW c \in Clerks, DeleteCategory(c) PROVE ShopInv'
  <2> DEFINE self == job[c].self
  <2>1. /\ job[c].at = "drop" /\ Finishes(c) /\ UNCHANGED ware
        /\ above' = [above EXCEPT ![self] = Removed]
    BY <1>6 DEF DeleteCategory
  <2>2. InOrder => /\ self \in There /\ \A s \in Shelves : above[s] # self
                 /\ \A w \in Wares : ware[w] # self
    BY <2>1 DEF InOrder, StillTrue
  <2> HIDE DEF self
  <2>3. /\ above' \in [Shelves -> Shelves \cup {Front, Unused, Removed}]
        /\ \A s \in Shelves : above'[s] # s /\ (above[s] # Unused => above'[s] # Unused)
    BY <1>t, <1>n, <2>1
  <2>4. ASSUME InOrder PROVE NoTrap' /\ \A w \in Wares : ware'[w] \in There' \cup {Unused, Removed}
    <3>1. There' = There \ {self} /\ NoTrap'
      BY <1>t, <2>1, <2>2, <2>4, GoneIsNotMissed DEF InOrder
    <3>2. QED  BY <2>1, <2>2, <2>4, <3>1 DEF InOrder
  <2>5. QED  BY <1>t, <2>1, <2>3, <2>4, WriteEnds
<1>7. ASSUME NEW c \in Clerks, WriteProduct(c) PROVE ShopInv'
  <2> DEFINE to == job[c].to
             w == job[c].ware
  <2>1. /\ job[c].at = "put" /\ Finishes(c) /\ UNCHANGED above
        /\ ware' = [ware EXCEPT ![w] = IF @ = Removed THEN @ ELSE to]
    BY <1>7 DEF WriteProduct
  <2>2. InOrder => to \in There  BY <2>1 DEF InOrder, StillTrue
  <2>3. to \in Shelves /\ w \in Wares \cup {Nothing}
    BY <1>t, <2>1 DEF ShopJob, ShopInv, ShopRead
  <2> HIDE DEF to, w
  <2>4. /\ ware' \in [Wares -> Shelves \cup {Unused, Removed}]
        /\ \A v \in Wares : ware'[v] \in {ware[v], to}
    BY <1>t, <2>1, <2>3
  <2>5. There' = There  BY <2>1 DEF There
  <2>6. ASSUME InOrder PROVE NoTrap' /\ \A v \in Wares : ware'[v] \in There' \cup {Unused, Removed}
    <3>1. NoTrap'  BY <2>1, <2>5, <2>6 DEF InOrder, NoTrap
    <3>2. QED  BY <2>2, <2>4, <2>5, <2>6, <3>1 DEF InOrder
  <2>7. QED  BY <1>t, <2>1, <2>4, <2>6, WriteEnds
<1>8. ASSUME NEW w \in Wares, DeleteWare(w) PROVE ShopInv'
  <2>1. /\ ware' = [ware EXCEPT ![w] = Removed] /\ UNCHANGED <<above, job, overlapped>>
    BY <1>8 DEF DeleteWare
  <2>2. ware' \in [Wares -> Shelves \cup {Unused, Removed}]
        /\ \A v \in Wares : ware'[v] = ware[v] \/ ware'[v] = Removed
    BY <1>t, <2>1
  <2>3. ShopRead'  BY <2>1, <2>2 DEF ShopInv, ShopRead, CatalogTypeOK
  <2>4. There' = There  BY <2>1 DEF There
  <2>5. ASSUME InOrder PROVE InOrder'
    <3>1. ASSUME NEW c \in Clerks PROVE StillTrue(c)'
      <4>1. StillTrue(c)  BY <2>5 DEF InOrder
      <4>2. job[c].at = "drop" => \A v \in Wares : ware'[v] # job[c].self
        <5>1. job[c].self # Removed  BY <1>t, <1>n, CatalogAssumption DEF ShopJob, New, Removed
        <5>2. QED  BY <2>2, <4>1, <5>1 DEF StillTrue
      <4>3. QED  BY <2>1, <2>4, <4>1, <4>2 DEF StillTrue, WalkedBy
    <3>2. NoTrap'  BY <2>1, <2>4, <2>5 DEF InOrder, NoTrap
    <3>3. \A v \in Wares : ware'[v] \in There' \cup {Unused, Removed}
      BY <2>2, <2>4, <2>5 DEF InOrder
    <3>4. ClerksAtWork' = ClerksAtWork  BY <2>1 DEF ClerksAtWork
    <3>5. QED  BY <2>5, <3>1, <3>2, <3>3, <3>4 DEF InOrder
  <2>6. QED  BY <2>1, <2>3, <2>5 DEF ShopInv
<1>9. CASE UNCHANGED catalogVars
  <2>1. UNCHANGED <<above, ware, job, overlapped>>  BY <1>9 DEF catalogVars
  <2>2. ShopRead'  BY <2>1 DEF ShopInv, ShopRead, CatalogTypeOK
  <2>3. There' = There /\ ClerksAtWork' = ClerksAtWork  BY <2>1 DEF There, ClerksAtWork
  <2>4. InOrder => InOrder'
    BY <2>1, <2>3 DEF InOrder, NoTrap, StillTrue, WalkedBy
  <2>5. QED  BY <2>1, <2>2, <2>4 DEF ShopInv
<1>10. QED
  BY <1>1, <1>2, <1>3, <1>4, <1>5, <1>6, <1>7, <1>8, <1>9, PlacingKeeps, WalkingKeeps,
     WritingPlaceKeeps DEF CatalogNext

LEMMA ShopIsComplete == ShopInv => ShopComplete
<1> SUFFICES ASSUME ShopInv PROVE ShopComplete  OBVIOUS
<1>1. ASSUME InOrder PROVE Shown = There  BY <1>1 DEF InOrder, NoTrap, Shown
<1>2. QED  BY <1>1 DEF ShopInv, ShopRead, InOrder, ShopComplete

-----------------------------------------------------------------------------
(* Articles and the products that name them.                               *)

Revision == [at : {"resting", "slug", "save", "count", "drop", "one", "several", "put"},
             text : Texts \cup {NoText}, slug : Slugs \cup {NotWritten},
             deal : Deals \cup {"no deal"}, one : Texts \cup {NoText}, several : SUBSET Texts]

\* Whatever overlaps: the unique index, and a slug where one is to be written.
TextsRead ==
    /\ ArticlesTypeOK
    /\ \A a, b \in Stored : a # b => text[a] # text[b]
    /\ \A c \in Scribes : errandOf[c].at \in {"slug", "save"} => errandOf[c].slug \in Slugs

Writing == {c \in Scribes : errandOf[c] # NoRevision}

\* What the one request under way has seen still holds.
Seen(c) ==
    /\ errandOf[c].at \in {"several", "put"} => errandOf[c].one \in Stored \cup {NoText}
    /\ errandOf[c].at = "drop" => \A d \in Deals : deal[d].one # errandOf[c].text

Calm ==
    /\ \A c, d \in Writing : c = d
    /\ \A d \in Deals : deal[d].one \in Stored \cup {NoText}
    /\ \A c \in Scribes : Seen(c)

TermsInv == TextsRead /\ (~entangled => Calm)

LEMMA RestingFits == NoRevision \in Revision /\ NoRevision.at = "resting"
BY DEF NoRevision, Revision

LEMMA TermsStart == ArticlesInit => TermsInv
<1> SUFFICES ASSUME ArticlesInit PROVE TermsInv  OBVIOUS
<1>1. \A c \in Scribes : errandOf[c] = NoRevision  BY DEF ArticlesInit
<1>2. ArticlesTypeOK
  <2>1. errandOf \in [Scribes -> Revision]  BY RestingFits DEF ArticlesInit
  <2>2. QED  BY <2>1 DEF ArticlesInit, ArticlesTypeOK, Revision
<1>3. Stored = {}  BY ArticlesAssumption DEF ArticlesInit, Stored
<1>4. Calm
  <2>1. \A c \in Scribes : Seen(c)  BY <1>1, RestingFits DEF Seen
  <2>2. \A d \in Deals : deal[d].one = NoText  BY DEF ArticlesInit
  <2>3. QED  BY <1>1, <2>1, <2>2 DEF Calm, Writing
<1>5. QED  BY <1>1, <1>2, <1>3, <1>4, RestingFits DEF TermsInv, TextsRead

\* A request begins or moves on.
LEMMA ErrandMoves ==
  ASSUME TermsInv, UNCHANGED <<text, deal>>, entangled' \in BOOLEAN,
         NEW c \in Scribes, NEW new \in Revision, errandOf' = [errandOf EXCEPT ![c] = new],
         new.at \in {"slug", "save"} => new.slug \in Slugs,
         ~entangled' => ~entangled /\ \A d \in Scribes : d # c => errandOf[d] = NoRevision,
         ASSUME Calm, errandOf'[c] = new PROVE Seen(c)'
  PROVE  TermsInv'
<1>1. errandOf \in [Scribes -> Revision]  BY DEF TermsInv, TextsRead, ArticlesTypeOK, Revision
<1>2. /\ errandOf' \in [Scribes -> Revision] /\ errandOf'[c] = new
      /\ \A d \in Scribes : d # c => errandOf'[d] = errandOf[d]
  BY <1>1
<1>3. Stored' = Stored  BY DEF Stored
<1>4. TextsRead'
  <2>1. ArticlesTypeOK'  BY <1>2 DEF TermsInv, TextsRead, ArticlesTypeOK, Revision
  <2>2. QED  BY <1>2, <1>3, <2>1 DEF TermsInv, TextsRead
<1>5. ASSUME ~entangled' PROVE Calm'
  <2>1. Calm /\ \A d \in Scribes : d # c => errandOf'[d] = NoRevision
    BY <1>2, <1>5 DEF TermsInv
  <2>2. Seen(c)'  BY <1>2, <2>1
  <2>3. \A d \in Scribes : Seen(d)'  BY <2>1, <2>2, RestingFits DEF Seen
  <2>4. \A x, y \in Writing' : x = y  BY <2>1 DEF Writing
  <2>5. QED  BY <1>3, <2>1, <2>3, <2>4 DEF Calm
<1>6. QED  BY <1>4, <1>5 DEF TermsInv

LEMMA ErrandBegins ==
  ASSUME TermsInv, NEW c \in Scribes, NEW new \in Revision, Sets(c, new),
         new.at \in {"slug", "count", "one"}, new.at = "slug" => new.slug \in Slugs
  PROVE  TermsInv'
<1>1. /\ errandOf' = [errandOf EXCEPT ![c] = new] /\ UNCHANGED <<text, deal>>
      /\ entangled' = (entangled \/ \E other \in Scribes : errandOf[other] # NoRevision)
  BY DEF Sets
<1>2. entangled' \in BOOLEAN  BY <1>1 DEF TermsInv, TextsRead, ArticlesTypeOK
<1>3. ~entangled' => ~entangled /\ \A d \in Scribes : d # c => errandOf[d] = NoRevision
  BY <1>1
<1>4. ASSUME Calm, errandOf'[c] = new PROVE Seen(c)'  BY <1>4 DEF Seen
<1>5. QED  BY <1>1, <1>2, <1>3, <1>4, ErrandMoves

\* A check passes or ends the request.
LEMMA ErrandPasses ==
  ASSUME TermsInv, NEW c \in Scribes, NEW allowed, NEW to \in {"save", "drop", "several", "put"},
         errandOf[c].at # "resting", to = "save" => errandOf[c].slug \in Slugs,
         Passes(c, allowed, to),
         ASSUME Calm, allowed, errandOf'[c] = [errandOf[c] EXCEPT !.at = to] PROVE Seen(c)'
  PROVE  TermsInv'
<1> DEFINE new == IF allowed THEN [errandOf[c] EXCEPT !.at = to] ELSE NoRevision
<1>1. errandOf' = [errandOf EXCEPT ![c] = new] /\ UNCHANGED <<text, deal, entangled>>
  BY DEF Passes
<1>2. errandOf[c] \in Revision  BY DEF TermsInv, TextsRead, ArticlesTypeOK, Revision
<1>3. /\ new \in Revision /\ (new.at \in {"slug", "save"} => new.slug \in Slugs)
  BY <1>2, RestingFits DEF Revision
<1>4. ASSUME Calm, errandOf'[c] = new PROVE Seen(c)'
  <2>1. CASE allowed  BY <1>4, <2>1
  <2>2. CASE ~allowed  BY <1>4, <2>2, RestingFits DEF Seen
  <2>3. QED  BY <2>1, <2>2
<1>5. entangled' \in BOOLEAN  BY <1>1 DEF TermsInv, TextsRead, ArticlesTypeOK
<1>6. ~entangled' => ~entangled /\ \A d \in Scribes : d # c => errandOf[d] = NoRevision
  <2> SUFFICES ASSUME ~entangled' PROVE ~entangled /\ \A d \in Scribes : d # c => errandOf[d] = NoRevision
    OBVIOUS
  <2>1. ~entangled /\ Calm  BY <1>1 DEF TermsInv
  <2>2. c \in Writing  BY RestingFits DEF Writing
  <2>3. QED  BY <2>1, <2>2 DEF Calm, Writing
<1> HIDE DEF new
<1>7. QED  BY <1>1, <1>3, <1>4, <1>5, <1>6, ErrandMoves

\* A request writes and ends.
LEMMA ErrandEnds ==
  ASSUME TermsInv, NEW c \in Scribes, errandOf[c].at # "resting", Rests(c),
         text' \in [Texts -> Slugs \cup {NotWritten, Erased}],
         deal' \in [Deals -> [one : Texts \cup {NoText}, several : SUBSET Texts]],
         \A a, b \in Stored' : a # b => text'[a] # text'[b],
         ASSUME Calm PROVE \A d \in Deals : deal'[d].one \in Stored' \cup {NoText}
  PROVE  TermsInv'
<1>1. errandOf' = [errandOf EXCEPT ![c] = NoRevision] /\ UNCHANGED entangled  BY DEF Rests
<1>2. errandOf \in [Scribes -> Revision]  BY DEF TermsInv, TextsRead, ArticlesTypeOK, Revision
<1>3. /\ errandOf' \in [Scribes -> Revision] /\ errandOf'[c] = NoRevision
      /\ \A d \in Scribes : d # c => errandOf'[d] = errandOf[d]
  BY <1>1, <1>2, RestingFits
<1>4. TextsRead'
  <2>1. ArticlesTypeOK'  BY <1>1, <1>3 DEF TermsInv, TextsRead, ArticlesTypeOK, Revision
  <2>2. \A d \in Scribes : errandOf'[d].at \in {"slug", "save"} => errandOf'[d].slug \in Slugs
    BY <1>3, RestingFits DEF TermsInv, TextsRead
  <2>3. QED  BY <2>1, <2>2 DEF TextsRead
<1>5. ASSUME ~entangled' PROVE Calm'
  <2>1. Calm  BY <1>1, <1>5 DEF TermsInv
  <2>2. c \in Writing  BY RestingFits DEF Writing
  <2>3. \A d \in Scribes : errandOf'[d] = NoRevision  BY <1>3, <2>1, <2>2 DEF Calm, Writing
  <2>4. Writing' = {}  BY <2>3 DEF Writing
  <2>5. \A d \in Scribes : Seen(d)'  BY <2>3, RestingFits DEF Seen
  <2>6. QED  BY <2>1, <2>4, <2>5 DEF Calm
<1>6. QED  BY <1>4, <1>5 DEF TermsInv

\* The unique index lets one article more, or one again, through.
LEMMA TextIsWritten ==
  ASSUME TermsInv, NEW c \in Scribes, WriteText(c) PROVE TermsInv'
<1> DEFINE slug == errandOf[c].slug
           self == errandOf[c].text
<1>1. /\ errandOf[c].at = "save" /\ Rests(c) /\ UNCHANGED deal
      /\ \/ UNCHANGED text
         \/ /\ ~SlugTaken(slug, self) /\ (self = NoText \/ self \in Stored)
            /\ \E a \in Texts : /\ a = self \/ (self = NoText /\ text[a] = NotWritten)
                                /\ text' = [text EXCEPT ![a] = slug]
  BY DEF WriteText
<1>2. /\ text \in [Texts -> Slugs \cup {NotWritten, Erased}]
      /\ deal \in [Deals -> [one : Texts \cup {NoText}, several : SUBSET Texts]]
      /\ \A a, b \in Stored : a # b => text[a] # text[b]
      /\ slug \in Slugs
  BY <1>1 DEF TermsInv, TextsRead, ArticlesTypeOK
<1>3. CASE UNCHANGED text
  <2>1. Stored' = Stored  BY <1>3 DEF Stored
  <2>2. ASSUME Calm PROVE \A d \in Deals : deal'[d].one \in Stored' \cup {NoText}
    BY <1>1, <2>1, <2>2 DEF Calm
  <2>3. \A a, b \in Stored' : a # b => text'[a] # text'[b]  BY <1>2, <1>3, <2>1
  <2>4. QED  BY <1>1, <1>2, <1>3, <2>2, <2>3, ErrandEnds
<1>4. ASSUME NEW a \in Texts, ~SlugTaken(slug, self), a = self \/ (self = NoText /\ text[a] = NotWritten),
             text' = [text EXCEPT ![a] = slug]
      PROVE  TermsInv'
  <2> HIDE DEF slug, self
  <2>1. text' \in [Texts -> Slugs \cup {NotWritten, Erased}] /\ text'[a] = slug
        /\ \A b \in Texts : b # a => text'[b] = text[b]
    BY <1>2, <1>4
  <2>2. Stored' = Stored \cup {a}  BY <1>2, <2>1 DEF Stored
  <2>3. \A b \in Stored : b # a => text[b] # slug
    <3>1. NoText \notin Stored  BY ArticlesAssumption DEF Stored
    <3>2. \A b \in Stored : b # self => text[b] # slug  BY <1>4 DEF SlugTaken
    <3>3. QED  BY <1>4, <3>1, <3>2
  <2>4. \A x, y \in Stored' : x # y => text'[x] # text'[y]
    <3>1. Stored \subseteq Texts  BY DEF Stored
    <3>2. QED  BY <1>2, <2>1, <2>2, <2>3, <3>1
  <2>5. ASSUME Calm PROVE \A d \in Deals : deal'[d].one \in Stored' \cup {NoText}
    BY <1>1, <2>2, <2>5 DEF Calm
  <2>6. QED  BY <1>1, <1>2, <2>1, <2>4, <2>5, ErrandEnds
<1>5. QED  BY <1>1, <1>3, <1>4

LEMMA TermsStep == TermsInv /\ [ArticlesNext]_articleVars => TermsInv'
<1> SUFFICES ASSUME TermsInv, [ArticlesNext]_articleVars PROVE TermsInv'  OBVIOUS
<1>t. /\ text \in [Texts -> Slugs \cup {NotWritten, Erased}]
      /\ deal \in [Deals -> [one : Texts \cup {NoText}, several : SUBSET Texts]]
      /\ \A c \in Scribes : errandOf[c] \in Revision
      /\ \A a, b \in Stored : a # b => text[a] # text[b]
  BY DEF TermsInv, TextsRead, ArticlesTypeOK, Revision
<1>1. ASSUME NEW c \in Scribes, NEW a \in Texts \cup {NoText}, NEW slug \in Slugs, SaveText(c, a, slug)
      PROVE  TermsInv'
  <2> DEFINE new == [NoRevision EXCEPT !.at = "slug", !.text = a, !.slug = slug]
  <2>1. Sets(c, new)  BY <1>1 DEF SaveText
  <2>2. new \in Revision /\ new.at = "slug" /\ new.slug \in Slugs  BY RestingFits DEF Revision
  <2> HIDE DEF new
  <2>3. QED  BY <2>1, <2>2, ErrandBegins
<1>2. ASSUME NEW c \in Scribes, NEW a \in Texts, DropText(c, a) PROVE TermsInv'
  <2> DEFINE new == [NoRevision EXCEPT !.at = "count", !.text = a]
  <2>1. Sets(c, new)  BY <1>2 DEF DropText
  <2>2. new \in Revision /\ new.at = "count"  BY RestingFits DEF Revision
  <2> HIDE DEF new
  <2>3. QED  BY <2>1, <2>2, ErrandBegins
<1>3. ASSUME NEW c \in Scribes, NEW d \in Deals, NEW one \in Texts \cup {NoText},
             NEW several \in SUBSET Texts, PutTerms(c, d, one, several)
      PROVE  TermsInv'
  <2> DEFINE new == [NoRevision EXCEPT !.at = "one", !.deal = d, !.one = one, !.several = several]
  <2>1. Sets(c, new)  BY <1>3 DEF PutTerms
  <2>2. new \in Revision /\ new.at = "one"  BY RestingFits DEF Revision
  <2> HIDE DEF new
  <2>3. QED  BY <2>1, <2>2, ErrandBegins
<1>4. ASSUME NEW c \in Scribes, CheckSlug(c) PROVE TermsInv'
  <2> DEFINE free == ~SlugTaken(errandOf[c].slug, errandOf[c].text)
  <2>1. errandOf[c].at = "slug" /\ errandOf[c].slug \in Slugs /\ Passes(c, free, "save")
    BY <1>4 DEF CheckSlug, TermsInv, TextsRead
  <2>2. ASSUME Calm, free, errandOf'[c] = [errandOf[c] EXCEPT !.at = "save"] PROVE Seen(c)'
    <3>1. errandOf'[c].at = "save"  BY <1>t, <2>2 DEF Revision
    <3>2. QED  BY <3>1 DEF Seen
  <2> HIDE DEF free
  <2>3. QED  BY <2>1, <2>2, ErrandPasses
<1>5. ASSUME NEW c \in Scribes, CountDeals(c) PROVE TermsInv'
  <2> DEFINE none == ~\E d \in Deals : Counted(d, errandOf[c].text)
  <2>1. errandOf[c].at = "count" /\ Passes(c, none, "drop")  BY <1>5 DEF CountDeals
  <2>n. none => \A d \in Deals : deal[d].one # errandOf[c].text  BY DEF Counted
  <2> HIDE DEF none
  <2>2. ASSUME Calm, none, errandOf'[c] = [errandOf[c] EXCEPT !.at = "drop"] PROVE Seen(c)'
    <3>u. deal' = deal  BY <2>1 DEF Passes
    <3>v. errandOf'[c].at = "drop" /\ errandOf'[c].text = errandOf[c].text
      BY <1>t, <2>2 DEF Revision
    <3>1. errandOf'[c].at = "drop" /\ errandOf'[c].text = errandOf[c].text /\ deal' = deal
      BY <3>u, <3>v
    <3>2. \A d \in Deals : deal[d].one # errandOf[c].text  BY <2>2, <2>n
    <3>3. QED  BY <3>1, <3>2 DEF Seen
  <2>3. QED  BY <2>1, <2>2, ErrandPasses
<1>6. ASSUME NEW c \in Scribes, CheckOne(c) PROVE TermsInv'
  <2> DEFINE stands == errandOf[c].one \in Stored \cup {NoText}
  <2>1. errandOf[c].at = "one" /\ Passes(c, stands, "several")  BY <1>6 DEF CheckOne
  <2>2. ASSUME Calm, stands, errandOf'[c] = [errandOf[c] EXCEPT !.at = "several"] PROVE Seen(c)'
    <3>1. errandOf'[c].at = "several" /\ errandOf'[c].one = errandOf[c].one
      BY <1>t, <2>2 DEF Revision
    <3>2. Stored' = Stored  BY <2>1 DEF Passes, Stored
    <3>3. QED  BY <2>2, <3>1, <3>2 DEF Seen
  <2> HIDE DEF stands
  <2>3. QED  BY <2>1, <2>2, ErrandPasses
<1>7. ASSUME NEW c \in Scribes, CheckSeveral(c) PROVE TermsInv'
  <2> DEFINE stand == errandOf[c].several \subseteq Stored
  <2>1. errandOf[c].at = "several" /\ Passes(c, stand, "put")  BY <1>7 DEF CheckSeveral
  <2>2. ASSUME Calm, stand, errandOf'[c] = [errandOf[c] EXCEPT !.at = "put"] PROVE Seen(c)'
    <3>1. errandOf'[c].at = "put" /\ errandOf'[c].one = errandOf[c].one
      BY <1>t, <2>2 DEF Revision
    <3>2. Stored' = Stored  BY <2>1 DEF Passes, Stored
    <3>3. errandOf[c].one \in Stored \cup {NoText}  BY <2>1, <2>2 DEF Calm, Seen
    <3>4. QED  BY <3>1, <3>2, <3>3 DEF Seen
  <2> HIDE DEF stand
  <2>3. QED  BY <2>1, <2>2, ErrandPasses
<1>8. ASSUME NEW c \in Scribes, DeleteText(c) PROVE TermsInv'
  <2> DEFINE a == errandOf[c].text
  <2>1. /\ errandOf[c].at = "drop" /\ Rests(c) /\ UNCHANGED deal
        /\ text' = [text EXCEPT ![a] = Erased]
    BY <1>8 DEF DeleteText
  <2>2. Calm => \A d \in Deals : deal[d].one # a  BY <2>1 DEF Calm, Seen
  <2> HIDE DEF a
  <2>3. /\ text' \in [Texts -> Slugs \cup {NotWritten, Erased}]
        /\ \A b \in Texts : b # a => text'[b] = text[b]
    BY <1>t, <2>1
  <2>4. Stored' = Stored \ {a}
    <3>1. a \in Texts => text'[a] \notin Slugs  BY <1>t, <2>1, ArticlesAssumption
    <3>2. QED  BY <2>3, <3>1 DEF Stored
  <2>5. \A x, y \in Stored' : x # y => text'[x] # text'[y]
    <3>1. Stored \subseteq Texts  BY DEF Stored
    <3>2. QED  BY <1>t, <2>3, <2>4, <3>1
  <2>6. ASSUME Calm PROVE \A d \in Deals : deal'[d].one \in Stored' \cup {NoText}
    BY <2>1, <2>2, <2>4, <2>6 DEF Calm
  <2>7. QED  BY <1>t, <2>1, <2>3, <2>5, <2>6, ErrandEnds
<1>9. ASSUME NEW c \in Scribes, WriteTerms(c) PROVE TermsInv'
  <2> DEFINE one == errandOf[c].one
             entry == [one |-> one, several |-> errandOf[c].several]
  <2>1. /\ errandOf[c].at = "put" /\ Rests(c) /\ UNCHANGED text
        /\ deal' = [deal EXCEPT ![errandOf[c].deal] = entry]
    BY <1>9 DEF WriteTerms
  <2>2. entry \in [one : Texts \cup {NoText}, several : SUBSET Texts] /\ entry.one = one
    BY <1>t DEF Revision
  <2>3. Calm => one \in Stored \cup {NoText}  BY <2>1 DEF Calm, Seen
  <2> HIDE DEF one, entry
  <2>4. /\ deal' \in [Deals -> [one : Texts \cup {NoText}, several : SUBSET Texts]]
        /\ \A d \in Deals : deal'[d] = deal[d] \/ deal'[d] = entry
    BY <1>t, <2>1, <2>2
  <2>5. Stored' = Stored  BY <2>1 DEF Stored
  <2>6. ASSUME Calm PROVE \A d \in Deals : deal'[d].one \in Stored' \cup {NoText}
    BY <2>2, <2>3, <2>4, <2>5, <2>6 DEF Calm
  <2>7. \A x, y \in Stored' : x # y => text'[x] # text'[y]  BY <1>t, <2>1, <2>5
  <2>8. QED  BY <1>t, <2>1, <2>4, <2>6, <2>7, ErrandEnds
<1>10. CASE UNCHANGED articleVars
  <2>1. UNCHANGED <<text, deal, errandOf, entangled>>  BY <1>10 DEF articleVars
  <2>2. Stored' = Stored /\ Writing' = Writing  BY <2>1 DEF Stored, Writing
  <2>3. TextsRead'  BY <2>1, <2>2 DEF TermsInv, TextsRead, ArticlesTypeOK
  <2>4. Calm => Calm'  BY <2>1, <2>2 DEF Calm, Seen
  <2>5. QED  BY <2>1, <2>3, <2>4 DEF TermsInv
<1>11. QED
  BY <1>1, <1>2, <1>3, <1>4, <1>5, <1>6, <1>7, <1>8, <1>9, <1>10, TextIsWritten DEF ArticlesNext

LEMMA TermsAreStanding == TermsInv => TermsStand
BY DEF TermsInv, TextsRead, Calm, TermsStand

-----------------------------------------------------------------------------
(* The theorems.                                                           *)

\* For every instance: no commission is paid out that a refund took back
\* (affiliate_withdrawal.go), no coupon used past the limit its order was placed
\* under (coupon.go), no traffic package paid at a price that is not in force
\* (billing.go), and no lock of a login shortened by a failure, or by a sweep that saw
\* it when it judged the record (loginlimit.go).
THEOREM StepsAreEarned == PlatformSpec => StepsEarned
<1> DEFINE Inv == /\ part = "affiliate" => LedgerAdds
                  /\ part = "checkout" => LimitsRead
                  /\ part = "traffic" => PacksRead
                  /\ part = "guard" => LocksRead
           Earned == /\ part = "affiliate" => PayoutsEarned
                     /\ part = "checkout" => WithinLimit
                     /\ part = "traffic" => PaidAtPriceInForce
                     /\ part = "guard" => LockStands
<1>1. PlatformInit => Inv
  BY LedgerStart, LimitsStart, PacksStart, LocksStart DEF PlatformInit
<1>2. Inv /\ [PlatformNext]_platformVars => Inv' /\ Earned
  <2> SUFFICES ASSUME Inv, [PlatformNext]_platformVars PROVE Inv' /\ Earned  OBVIOUS
  <2>1. UNCHANGED part  BY DEF PlatformNext, Still, platformVars
  <2>2. ASSUME part = "affiliate" PROVE LedgerAdds' /\ PayoutsEarned
    <3>1. [AffiliateNext]_affiliateVars  BY <2>2 DEF PlatformNext, platformVars
    <3>2. QED  BY <2>2, <3>1, LedgerStep, PayoutsAreEarned
  <2>3. ASSUME part = "checkout" PROVE LimitsRead' /\ WithinLimit
    <3>1. [CheckoutNext]_checkoutVars  BY <2>3 DEF PlatformNext, platformVars
    <3>2. QED  BY <2>3, <3>1, LimitsStep, UsesAreWithinLimit
  <2>4. ASSUME part = "traffic" PROVE PacksRead' /\ PaidAtPriceInForce
    <3>1. [TrafficPackNext]_packVars  BY <2>4 DEF PlatformNext, platformVars
    <3>2. QED  BY <2>4, <3>1, PacksStep, PacksArePaidAtPrice
  <2>5. ASSUME part = "guard" PROVE LocksRead' /\ LockStands
    <3>1. [LoginGuardNext]_guardVars  BY <2>5 DEF PlatformNext, platformVars
    <3>2. QED  BY <2>5, <3>1, LocksStep, LocksAreKept
  <2>6. QED  BY <2>1, <2>2, <2>3, <2>4, <2>5
<1>3. Inv /\ [PlatformNext]_platformVars => [Earned]_platformVars  BY <1>2
<1>4. QED  BY <1>1, <1>2, <1>3, PTL DEF PlatformSpec, StepsEarned

\* For every instance: the affiliate's account is the sum of his commissions, reversals
\* and payouts, and each commission is taken back in proportion to the refunds of its
\* order (affiliate.go); a renewal is charged once and closed when the upstream carried it
\* out (renewal_scheduler.go); a coupon's uses are the orders that hold it (coupon.go); a
\* balance is the sum of its wallet transactions (wallet.go); a traffic quota is the
\* packages paid (billing.go); a row of the shop stands on the rows it names (catalog.go,
\* article.go); and the guesses compared in an hour stay within what the mails of it pay
\* for (email.go).
THEOREM BooksAreAgreed == PlatformSpec => []BooksAgree
<1> DEFINE Inv == /\ part = "affiliate" => CommissionsBooked
                  /\ part = "renewal" => RenewalInv
                  /\ part = "checkout" => UsesCounted
                  /\ part = "accounts" => BookedInv
                  /\ part = "traffic" => PacksCounted
                  /\ part = "catalog" => ShopInv
                  /\ part = "articles" => TermsInv
                  /\ part = "mail" => GuessesPaid
<1>1. PlatformInit => Inv
  BY CommissionsStart, RenewalStart, UsesStart, BookedStart, CountsStart, ShopStart, TermsStart,
     GuessesStart
  DEF PlatformInit
<1>2. Inv /\ [PlatformNext]_platformVars => Inv'
  <2> SUFFICES ASSUME Inv, [PlatformNext]_platformVars PROVE Inv'  OBVIOUS
  <2>1. UNCHANGED part  BY DEF PlatformNext, Still, platformVars
  <2>2. ASSUME part = "affiliate" PROVE CommissionsBooked'
    <3>1. [AffiliateNext]_affiliateVars  BY <2>2 DEF PlatformNext, platformVars
    <3>2. QED  BY <2>2, <3>1, CommissionsStep
  <2>3. ASSUME part = "renewal" PROVE RenewalInv'
    <3>1. [RenewalNext]_renewalVars  BY <2>3 DEF PlatformNext, platformVars
    <3>2. QED  BY <2>3, <3>1, RenewalStep
  <2>4. ASSUME part = "checkout" PROVE UsesCounted'
    <3>1. [CheckoutNext]_checkoutVars  BY <2>4 DEF PlatformNext, platformVars
    <3>2. QED  BY <2>4, <3>1, UsesStep
  <2>5. ASSUME part = "accounts" PROVE BookedInv'
    <3>1. [AccountsNext]_accountsVars  BY <2>5 DEF PlatformNext, platformVars
    <3>2. QED  BY <2>5, <3>1, BookedStep
  <2>6. ASSUME part = "traffic" PROVE PacksCounted'
    <3>1. [TrafficPackNext]_packVars  BY <2>6 DEF PlatformNext, platformVars
    <3>2. QED  BY <2>6, <3>1, PacksCountedStep
  <2>7. ASSUME part = "catalog" PROVE ShopInv'
    <3>1. [CatalogNext]_catalogVars  BY <2>7 DEF PlatformNext, platformVars
    <3>2. QED  BY <2>7, <3>1, ShopStep
  <2>8. ASSUME part = "articles" PROVE TermsInv'
    <3>1. [ArticlesNext]_articleVars  BY <2>8 DEF PlatformNext, platformVars
    <3>2. QED  BY <2>8, <3>1, TermsStep
  <2>9. ASSUME part = "mail" PROVE GuessesPaid'
    <3>1. [MailCodesNext]_mailVars  BY <2>9 DEF PlatformNext, platformVars
    <3>2. QED  BY <2>9, <3>1, GuessesStep
  <2>10. QED  BY <2>1, <2>2, <2>3, <2>4, <2>5, <2>6, <2>7, <2>8, <2>9
<1>3. Inv => BooksAgree
  <2>1. part = "renewal" /\ RenewalInv => OncePerExpiry /\ DoneIsDelivered  BY DEF RenewalInv
  <2>2. part = "accounts" /\ BookedInv => BalanceBooked  BY DEF BookedInv
  <2>3. part = "mail" /\ GuessesPaid => GuessesBounded  BY DEF GuessesPaid
  <2>4. QED
    BY <2>1, <2>2, <2>3, CommissionsAreBooked, UsesAreCounted, PacksAreBooked, ShopIsComplete,
       TermsAreStanding
    DEF BooksAgree
<1>4. QED  BY <1>1, <1>2, <1>3, PTL DEF PlatformSpec

-----------------------------------------------------------------------------
(* The types of the platform's parts.                                      *)

LEMMA DivNatural == ASSUME NEW a \in Nat, NEW b \in Nat, b > 0 PROVE a \div b \in Nat
OBVIOUS

LEMMA TimesNatural == ASSUME NEW a \in Nat, NEW b \in Nat PROVE a * b \in Nat
OBVIOUS

-----------------------------------------------------------------------------
(* What an order costs.                                                    *)

\* A validated choice is at or above the lower end of each range, so no option is
\* priced below the base (provisionOptionPrice).
LEMMA OptionNatural ==
  ASSUME NEW spec, spec \in [DOMAIN spec -> SpecRange], IsFiniteSet(DOMAIN spec),
         NEW choice, NEW os, OptionsValid(TRUE, spec, choice, os)
  PROVE  OptionPrice(spec, PurchaserOptions(spec, choice)) \in Nat
<1> DEFINE taken == PurchaserOptions(spec, choice)
           cost == [k \in DOMAIN spec |-> ((taken[k] - spec[k].min) \div StepOf(spec[k])) * spec[k].price]
<1>1. ASSUME NEW k \in DOMAIN spec PROVE cost[k] \in Nat
  <2>1. spec[k] \in SpecRange  OBVIOUS
  <2>2. spec[k].min \in Nat /\ spec[k].max \in Nat /\ spec[k].step \in Int /\ spec[k].price \in Nat
    BY <2>1 DEF SpecRange
  <2>3. StepOf(spec[k]) \in Nat /\ StepOf(spec[k]) > 0  BY <2>2 DEF StepOf
  <2>4. taken[k] = choice[k]  BY DEF OptionsValid, PurchaserOptions
  <2>5. taken[k] - spec[k].min \in Nat  BY <2>2, <2>4 DEF OptionsValid
  <2>6. cost[k] = ((taken[k] - spec[k].min) \div StepOf(spec[k])) * spec[k].price  OBVIOUS
  <2> HIDE DEF taken, cost
  <2>7. (taken[k] - spec[k].min) \div StepOf(spec[k]) \in Nat  BY <2>3, <2>5, DivNatural
  <2>8. QED  BY <2>2, <2>6, <2>7, TimesNatural
<1>2. DOMAIN cost = DOMAIN spec  OBVIOUS
<1>3. OptionPrice(spec, taken) = SumFunctionOnSet(cost, DOMAIN cost)  BY DEF OptionPrice, SumFunction
<1> HIDE DEF cost
<1>4. QED  BY <1>1, <1>2, <1>3, SumNatural

\* What a line costs.
LEMMA UnitNatural ==
  ASSUME NEW p \in Goods, NEW n, NEW choice, NEW os, NEW permille \in Permilles,
         LineSells(p, n, choice, os)
  PROVE  UnitPrice(p, choice, permille) \in Nat
<1> DEFINE option == IF p \in Configured
                     THEN OptionPrice(Offer[p].spec, PurchaserOptions(Offer[p].spec, choice)) ELSE 0
           base == Offer[p].price + option
<1>1. option \in Nat
  BY OptionNatural, CheckoutAssumption DEF LineSells, OptionsValid
<1>2. base \in Nat  BY <1>1, CheckoutAssumption
<1>3. permille \in Nat  BY CheckoutAssumption
<1> HIDE DEF base
<1>4. (base * permille) \div 1000 \in Nat  BY <1>2, <1>3, TimesNatural, DivNatural
<1>5. TierPrice(base, permille) \in Nat  BY <1>2, <1>4 DEF TierPrice
<1>6. UnitPrice(p, choice, permille) = TierPrice(base, permille)  BY DEF UnitPrice, base
<1>7. QED  BY <1>5, <1>6

\* The subtotal a coupon is for is part of the whole.
LEMMA SubtotalFits ==
  ASSUME NEW products, products \subseteq Goods, NEW qty \in [Goods -> Nat], NEW unit \in [Goods -> Nat]
  PROVE  /\ EligibleSubtotal(products, qty, unit) \in Nat
         /\ EligibleSubtotal({}, qty, unit) \in Nat
         /\ EligibleSubtotal(products, qty, unit) <= EligibleSubtotal({}, qty, unit)
<1> DEFINE cost == [p \in Goods |-> unit[p] * qty[p]]
           those == IF products = {} THEN Goods ELSE products \cap Goods
<1>1. \A p \in Goods : cost[p] \in Nat  BY TimesNatural
<1>2. those \subseteq Goods /\ IsFiniteSet(Goods) /\ IsFiniteSet(those)
  BY CheckoutAssumption, FS_Subset
<1>3. /\ EligibleSubtotal(products, qty, unit) = SumFunctionOnSet(cost, those)
      /\ EligibleSubtotal({}, qty, unit) = SumFunctionOnSet(cost, Goods)
  BY DEF EligibleSubtotal
<1> HIDE DEF cost, those
<1>4. SumFunctionOnSet(cost, those) \in Nat  BY <1>1, <1>2, SumNatural
<1>5. SumFunctionOnSet(cost, Goods) \in Nat  BY <1>1, <1>2, SumNatural
<1>6. SumFunctionOnSet(cost, those) <= SumFunctionOnSet(cost, Goods)  BY <1>1, <1>2, SumPart
<1>7. QED  BY <1>3, <1>4, <1>5, <1>6

\* A coupon takes off no more than what it is for (couponDiscountCents).
LEMMA DiscountFits ==
  ASSUME NEW c \in CouponTerms, NEW s \in Nat
  PROVE  CouponDiscount(c, s) \in Nat /\ CouponDiscount(c, s) <= s
<1> DEFINE percent == (s * c.percent) \div 100
           capped == IF c.cap > 0 /\ percent > c.cap THEN c.cap ELSE percent
           wanted == IF c.type = "percent" THEN capped ELSE c.amount
<1>1. c.percent \in Nat /\ c.cap \in Nat /\ c.amount \in Nat  BY DEF CouponTerms
<1>2. percent \in Nat  BY <1>1, TimesNatural, DivNatural
<1>3. CouponDiscount(c, s) = IF s <= 0 THEN 0 ELSE IF wanted > s THEN s ELSE wanted
  BY DEF CouponDiscount
<1> HIDE DEF percent
<1>4. wanted \in Nat  BY <1>1, <1>2
<1> HIDE DEF wanted
<1>5. QED  BY <1>3, <1>4

\* One row of the orders, one of the placings.
OrderRow == [status : {"none", "pending", "paid", "cancelled"}, buyer : Buyers \cup {"none"},
             lines : Basket, total : Nat]

LEMMA ReadTyped ==
  ASSUME CheckoutTypeOK, NEW o \in Orders, NEW u \in Buyers, NEW lines \in Basket, NEW choice,
         NEW os, NEW permille \in Permilles, NEW coded \in BOOLEAN, NEW agree,
         NEW fromCart \in BOOLEAN, ReadOrder(o, u, lines, choice, os, permille, coded, agree, fromCart)
  PROVE  CheckoutTypeOK'
<1> DEFINE wanted == {p \in Goods : lines[p] > 0}
           unit == [p \in Goods |-> IF p \in wanted THEN UnitPrice(p, choice, permille) ELSE 0]
           whole == EligibleSubtotal({}, lines, unit)
           eligible == EligibleSubtotal(ForGoods, lines, unit)
           taken == IF coded THEN CouponDiscount(Terms, eligible) ELSE 0
           it == [buyer |-> u, lines |-> lines, coded |-> coded, max |-> coupon.max,
                   fromCart |-> fromCart, total |-> whole - taken]
<1>1. unit \in [Goods -> Nat]
  <2>1. \A p \in wanted : LineSells(p, lines[p], choice, os)  BY DEF ReadOrder
  <2>2. \A p \in Goods : unit[p] \in Nat  BY <2>1, UnitNatural
  <2>3. QED  BY <2>2
<1>2. lines \in [Goods -> Nat]  BY CheckoutAssumption DEF Basket
<1>3. placing' = [placing EXCEPT ![o] = it]
      /\ UNCHANGED <<goods, coupon, cart, order, redeemed, edits>>
  BY DEF ReadOrder
<1> HIDE DEF unit
<1>4. whole \in Nat /\ eligible \in Nat /\ eligible <= whole
  BY <1>1, <1>2, SubtotalFits, CheckoutAssumption
<1> HIDE DEF whole, eligible
<1>5. taken \in Nat /\ taken <= eligible
  BY <1>4, DiscountFits, CheckoutAssumption
<1> HIDE DEF taken
<1>6. whole - taken \in Nat  BY <1>4, <1>5
<1>7. coupon.max \in Nat  BY CheckoutAssumption DEF CheckoutTypeOK
<1>8. it \in Placing  BY <1>6, <1>7 DEF Placing
<1> HIDE DEF it
<1>9. placing' \in [Orders -> Placing \cup {Idle}]  BY <1>3, <1>8 DEF CheckoutTypeOK
<1>10. QED  BY <1>3, <1>9 DEF CheckoutTypeOK

LEMMA CheckoutTyped == CheckoutInit => CheckoutTypeOK
<1> SUFFICES ASSUME CheckoutInit PROVE CheckoutTypeOK  OBVIOUS
<1>1. NoBasket \in Basket  BY CheckoutAssumption DEF NoBasket, Basket
<1>2. QED  BY <1>1, CheckoutAssumption DEF CheckoutInit, CheckoutTypeOK

LEMMA CheckoutTypes == CheckoutTypeOK /\ [CheckoutNext]_checkoutVars => CheckoutTypeOK'
<1> SUFFICES ASSUME CheckoutTypeOK, [CheckoutNext]_checkoutVars PROVE CheckoutTypeOK'
  OBVIOUS
<1>b. NoBasket \in Basket  BY CheckoutAssumption DEF NoBasket, Basket
<1>t. /\ order \in [Orders -> OrderRow] /\ placing \in [Orders -> Placing \cup {Idle}]
      /\ coupon.used \in Nat
  BY DEF CheckoutTypeOK, OrderRow
<1>1. CASE UNCHANGED checkoutVars  BY <1>1 DEF CheckoutTypeOK, checkoutVars
<1>2. ASSUME NEW u \in Buyers, NEW p \in Goods, NEW n \in 1..MaxCartQuantity, AddToCart(u, p, n)
      PROVE  CheckoutTypeOK'
  <2> DEFINE m == IF cart[u][p] + n > MaxCartQuantity THEN MaxCartQuantity ELSE cart[u][p] + n
             b == [cart[u] EXCEPT ![p] = m]
  <2>1. cart[u] \in Basket  BY DEF CheckoutTypeOK
  <2>2. m \in 0..MaxCartQuantity  BY <2>1, CheckoutAssumption DEF Basket
  <2>3. cart' = [cart EXCEPT ![u] = b]  BY <1>2 DEF AddToCart
  <2> HIDE DEF m
  <2>4. b \in Basket  BY <2>1, <2>2 DEF Basket
  <2> HIDE DEF b
  <2>5. cart' \in [Buyers -> Basket]  BY <2>3, <2>4 DEF CheckoutTypeOK
  <2>6. QED  BY <1>2, <2>5 DEF AddToCart, CheckoutTypeOK
<1>3. ASSUME NEW u \in Buyers, NEW p \in Goods, NEW n \in 0..MaxCartQuantity, SetQuantity(u, p, n)
      PROVE  CheckoutTypeOK'
  <2> DEFINE b == [cart[u] EXCEPT ![p] = n]
  <2>1. cart[u] \in Basket  BY DEF CheckoutTypeOK
  <2>3. cart' = [cart EXCEPT ![u] = b]  BY <1>3 DEF SetQuantity
  <2>4. b \in Basket  BY <2>1 DEF Basket
  <2> HIDE DEF b
  <2>5. cart' \in [Buyers -> Basket]  BY <2>3, <2>4 DEF CheckoutTypeOK
  <2>6. QED  BY <1>3, <2>5 DEF SetQuantity, CheckoutTypeOK
<1>4. ASSUME NEW u \in Buyers, NEW p \in Goods, NEW o \in Orders, OrderDirect(o, u, p)
      PROVE  CheckoutTypeOK'
  <2>1. PICK n \in 1..MaxCartQuantity, permille \in Permilles, coded, agree, os \in BOOLEAN :
           \E choice \in Offer[p].choices :
              ReadOrder(o, u, [NoBasket EXCEPT ![p] = n], choice, os, permille, coded, agree, FALSE)
    BY <1>4 DEF OrderDirect
  <2>2. PICK choice \in Offer[p].choices :
              ReadOrder(o, u, [NoBasket EXCEPT ![p] = n], choice, os, permille, coded, agree, FALSE)
    BY <2>1
  <2>3. [NoBasket EXCEPT ![p] = n] \in Basket  BY <1>b, CheckoutAssumption DEF Basket
  <2>4. QED  BY <2>2, <2>3, ReadTyped
<1>5. ASSUME NEW o \in Orders, NEW u \in Buyers, OrderCart(o, u) PROVE CheckoutTypeOK'
  <2>1. PICK permille \in Permilles, coded, agree \in BOOLEAN :
              ReadOrder(o, u, cart[u], <<>>, FALSE, permille, coded, agree, TRUE)
    BY <1>5 DEF OrderCart
  <2>2. cart[u] \in Basket  BY DEF CheckoutTypeOK
  <2>3. QED  BY <2>1, <2>2, ReadTyped
<1>6. ASSUME NEW o \in Orders, PlaceOrder(o) PROVE CheckoutTypeOK'
  <2> DEFINE read == placing[o]
             it == [status |-> "pending", buyer |-> read.buyer, lines |-> read.lines, total |-> read.total]
  <2>1. read \in Placing  BY <1>6, <1>t DEF PlaceOrder
  <2>2. it \in OrderRow  BY <2>1 DEF Placing, OrderRow
  <2>3. /\ order' = [order EXCEPT ![o] = it] /\ placing' = [placing EXCEPT ![o] = Idle]
        /\ UNCHANGED <<goods, edits>>
    BY <1>6 DEF PlaceOrder
  <2> HIDE DEF it
  <2>4. order' \in [Orders -> OrderRow]  BY <2>2, <2>3, <1>t
  <2>5. placing' \in [Orders -> Placing \cup {Idle}]  BY <2>3, <1>t
  <2>6. cart' \in [Buyers -> Basket]
    <3>1. cart' = cart \/ cart' = [cart EXCEPT ![read.buyer] = NoBasket]  BY <1>6 DEF PlaceOrder
    <3>2. QED  BY <3>1, <1>b DEF CheckoutTypeOK
  <2>7. (coupon' = coupon /\ redeemed' = redeemed) \/ UseCoupon(o)
    BY <1>6 DEF PlaceOrder
  <2>8. redeemed' \subseteq Orders  BY <2>7 DEF UseCoupon, CheckoutTypeOK
  <2>9. coupon' = coupon \/ coupon' = [coupon EXCEPT !.used = coupon.used + 1]
    BY <2>7 DEF UseCoupon
  <2>10. coupon' \in [status : {"active", "disabled", "deleted"}, used : Nat, max : Limits,
                      perUser : Limits, newOnly : BOOLEAN]
    BY <2>9, <1>t DEF CheckoutTypeOK
  <2>11. QED  BY <2>3, <2>4, <2>5, <2>6, <2>8, <2>10 DEF CheckoutTypeOK, OrderRow
<1>7. ASSUME NEW o \in Orders, AbandonOrder(o) PROVE CheckoutTypeOK'
  <2>1. placing' \in [Orders -> Placing \cup {Idle}]  BY <1>7, <1>t DEF AbandonOrder
  <2>2. QED  BY <1>7, <2>1 DEF AbandonOrder, CheckoutTypeOK
<1>8. ASSUME NEW o \in Orders, NEW status \in {"paid", "cancelled"},
             order' = [order EXCEPT ![o].status = status]
      PROVE  order' \in [Orders -> OrderRow]
  <2> DEFINE it == [order[o] EXCEPT !.status = status]
  <2>1. order[o] \in OrderRow  BY <1>t
  <2>2. it \in OrderRow  BY <2>1 DEF OrderRow
  <2>3. order' = [order EXCEPT ![o] = it]  BY <1>8
  <2> HIDE DEF it
  <2>4. QED  BY <2>2, <2>3, <1>t
<1>9. ASSUME NEW o \in Orders, PayOrder(o) PROVE CheckoutTypeOK'
  <2>1. order' \in [Orders -> OrderRow]  BY <1>8, <1>9 DEF PayOrder
  <2>2. ASSUME NEW p \in Goods
        PROVE  goods'[p] \in [status : {"active", "hidden", "deleted"}, stock : Int]
    <3>1. order[o].lines \in Basket  BY <1>t DEF OrderRow
    <3>2. order[o].lines[p] \in Int  BY <3>1, CheckoutAssumption DEF Basket
    <3>3. goods[p] \in [status : {"active", "hidden", "deleted"}, stock : Int]  BY DEF CheckoutTypeOK
    <3>4. goods[p].stock - order[o].lines[p] \in Int  BY <3>2, <3>3
    <3>5. goods'[p] = goods[p] \/ goods'[p] = [goods[p] EXCEPT !.stock = goods[p].stock - order[o].lines[p]]
      BY <1>9 DEF PayOrder
    <3>6. QED  BY <3>3, <3>4, <3>5
  <2>3. goods' = [p \in Goods |-> goods'[p]]  BY <1>9 DEF PayOrder
  <2>4. goods' \in [Goods -> [status : {"active", "hidden", "deleted"}, stock : Int]]
    BY <2>2, <2>3
  <2>5. QED  BY <1>9, <2>1, <2>4 DEF PayOrder, CheckoutTypeOK, OrderRow
<1>10. ASSUME NEW o \in Orders, CancelOrder(o) PROVE CheckoutTypeOK'
  <2>1. order' \in [Orders -> OrderRow]  BY <1>8, <1>10 DEF CancelOrder
  <2>2. \/ coupon' = coupon
        \/ coupon.used > 0 /\ coupon' = [coupon EXCEPT !.used = coupon.used - 1]
    <3>1. ReleaseCoupon(o)  BY <1>10 DEF CancelOrder
    <3>2. CASE o \in redeemed /\ coupon.status # "deleted" /\ coupon.used > 0
      BY <3>1, <3>2 DEF ReleaseCoupon
    <3>3. CASE ~(o \in redeemed /\ coupon.status # "deleted" /\ coupon.used > 0)
      BY <3>1, <3>3, <1>t DEF ReleaseCoupon
    <3>4. QED  BY <3>2, <3>3
  <2>3. redeemed' \subseteq Orders  BY <1>10 DEF CancelOrder, ReleaseCoupon, CheckoutTypeOK
  <2>4. coupon' \in [status : {"active", "disabled", "deleted"}, used : Nat, max : Limits,
                     perUser : Limits, newOnly : BOOLEAN]
    BY <2>2, <1>t DEF CheckoutTypeOK
  <2>5. QED  BY <1>10, <2>1, <2>3, <2>4 DEF CancelOrder, CheckoutTypeOK, OrderRow
<1>11. ASSUME NEW p \in Goods, NEW status \in {"active", "hidden"}, NEW stock \in Stocks,
              EditProduct(p, status, stock)
       PROVE  CheckoutTypeOK'
  BY <1>11, CheckoutAssumption DEF EditProduct, CheckoutTypeOK
<1>12. ASSUME NEW p \in Goods, DeleteProduct(p) PROVE CheckoutTypeOK'
  <2> DEFINE it == [goods[p] EXCEPT !.status = "deleted"]
  <2>1. it \in [status : {"active", "hidden", "deleted"}, stock : Int]  BY DEF CheckoutTypeOK
  <2>2. goods' = [goods EXCEPT ![p] = it]  BY <1>12 DEF DeleteProduct
  <2> HIDE DEF it
  <2>3. goods' \in [Goods -> [status : {"active", "hidden", "deleted"}, stock : Int]]
    BY <2>1, <2>2 DEF CheckoutTypeOK
  <2>4. cart' \in [Buyers -> Basket]
    <3>1. \A u \in Buyers : [cart[u] EXCEPT ![p] = 0] \in Basket
      BY CheckoutAssumption DEF CheckoutTypeOK, Basket
    <3>2. cart' = [u \in Buyers |-> [cart[u] EXCEPT ![p] = 0]]  BY <1>12 DEF DeleteProduct
    <3>3. QED  BY <3>1, <3>2
  <2>5. edits' \in 0..MaxEdits  BY <1>12, CheckoutAssumption DEF DeleteProduct, CheckoutTypeOK
  <2>6. QED  BY <1>12, <2>3, <2>4, <2>5 DEF DeleteProduct, CheckoutTypeOK
<1>13. ASSUME NEW status \in {"active", "disabled"}, NEW max \in Limits, NEW perUser \in Limits,
              NEW newOnly \in BOOLEAN, EditCoupon(status, max, perUser, newOnly)
       PROVE  CheckoutTypeOK'
  <2>1. coupon' \in [status : {"active", "disabled", "deleted"}, used : Nat, max : Limits,
                     perUser : Limits, newOnly : BOOLEAN]
    BY <1>13, <1>t DEF EditCoupon, CheckoutTypeOK
  <2>2. edits' \in 0..MaxEdits  BY <1>13, CheckoutAssumption DEF EditCoupon, CheckoutTypeOK
  <2>3. QED  BY <1>13, <2>1, <2>2 DEF EditCoupon, CheckoutTypeOK
<1>14. CASE DeleteCoupon  BY <1>14, CheckoutAssumption DEF DeleteCoupon, CheckoutTypeOK
<1>15. QED
  BY <1>1, <1>2, <1>3, <1>4, <1>5, <1>6, <1>7, <1>9, <1>10, <1>11, <1>12, <1>13, <1>14
  DEF CheckoutNext

-----------------------------------------------------------------------------
(* The types of the whole.                                                 *)

\* The changes of the price of a package are bounded.
EditsFit == priceEdits \in 0..MaxPriceEdits

LEMMA EditsFitStep == EditsFit /\ [TrafficPackNext]_packVars => EditsFit'
<1> SUFFICES ASSUME EditsFit, [TrafficPackNext]_packVars PROVE EditsFit'  OBVIOUS
<1>1. CASE UNCHANGED priceEdits  BY <1>1 DEF EditsFit
<1>2. ASSUME NEW c \in PackPrices, NEW s \in PackSteps, EditPrice(c, s) PROVE EditsFit'
  BY <1>2, TrafficPackAssumption DEF EditPrice, EditsFit
<1>3. QED
  BY <1>1, <1>2
  DEF TrafficPackNext, PricePack, CheckUnpaid, InsertInvoice, InsertLine, PackDies, SettlePackage,
      SettleAsRenewal, CallUpstream, CallEnds, packVars

LEMMA PackTypes == PacksCounted /\ EditsFit => TrafficPackTypeOK
<1> SUFFICES ASSUME PacksCounted, EditsFit PROVE TrafficPackTypeOK  OBVIOUS
<1>1. PaidAs("renewal") \subseteq PackInvoices  BY DEF PaidAs
<1>2. Cardinality(PaidAs("renewal")) \in Nat
  BY <1>1, TrafficPackAssumption, FS_Subset, FS_CardinalityType
<1>3. QED
  BY <1>2 DEF PacksCounted, PacksRead, PackRow, PackAsk, EditsFit, TrafficPackTypeOK

\* The parts whose type is not in an invariant of their own start as they should.
LEMMA PartsStartTyped ==
  /\ ProvisionInit => ProvisionTypeOK
  /\ LoginGuardInit => LoginGuardTypeOK
  /\ SessionsInit => SessionsTypeOK
  /\ MailCodesInit => MailCodesTypeOK
  /\ ApiKeysInit => ApiKeysTypeOK
  /\ InstallInit => InstallTyped
<1>1. ProvisionInit => ProvisionTypeOK
  <2> SUFFICES ASSUME ProvisionInit PROVE ProvisionTypeOK  OBVIOUS
  <2>1. adminEdits \in 0..MaxHostEdits  BY ProvisionAssumption DEF ProvisionInit
  <2>2. call \in [Requests -> [at : {"idle", "called", "made", "done"}, host : Hosts \cup {NoHost}]]
    BY DEF ProvisionInit, Unstarted
  <2>3. svc \in [status : Status, host : Hosts \cup {NoHost}]  BY DEF ProvisionInit, Status
  <2>4. QED  BY <2>1, <2>2, <2>3 DEF ProvisionInit, ProvisionTypeOK
<1>2. LoginGuardInit => LoginGuardTypeOK
  <2> SUFFICES ASSUME LoginGuardInit PROVE LoginGuardTypeOK  OBVIOUS
  <2>1. 0 \in 0..MaxClock  BY LoginGuardAssumption
  <2>2. sourceRec.failures = {} /\ sourceRec.lockedUntil = 0  BY DEF LoginGuardInit, NoSource
  <2>3. accountRec \in [failures : Nat, lockedUntil : Nat, lastFailure : 0..MaxClock]
    BY <2>1 DEF LoginGuardInit, NoRecord
  <2>4. image \in [Images -> [live : BOOLEAN, expires : Nat]] /\ tried \in [Images -> Nat]
    BY DEF LoginGuardInit
  <2>5. sourceRec.failures \subseteq Attempts \X (0..MaxClock)  BY <2>2
  <2>6. attempt \in [Attempts -> {"start", "check", "captcha", "password", "fail", "success", "done"}]
    BY DEF LoginGuardInit
  <2>7. /\ captchaOn \in BOOLEAN
        /\ sweeping \in [at : {"idle", "account", "sources", "source"}, now : 0..MaxClock,
                         old : BOOLEAN, lock : Nat]
    BY <2>1 DEF LoginGuardInit, NotSweeping
  <2>8. clock \in 0..MaxClock /\ holder \in Attempts \cup {Free} /\ sourceRec.lockedUntil \in Nat
    BY <2>1, <2>2 DEF LoginGuardInit
  <2>9. QED  BY <2>3, <2>4, <2>5, <2>6, <2>7, <2>8 DEF LoginGuardTypeOK
<1>3. SessionsInit => SessionsTypeOK
  <2>1. 0 \in 0..MaxSecond /\ 0 \in 0..MaxPassword /\ 1 \in 1..MaxPassword  BY SessionsAssumption
  <2>2. QED  BY <2>1 DEF SessionsInit, SessionsTypeOK, Unsigned, NoVisit
<1>4. MailCodesInit => MailCodesTypeOK
  <2>1. 0 \in 0..MaxMinute /\ -1 \in -1..MaxMinute /\ 0 \in 0..MaxCodes /\ 0 \in 0..CodeMaxAttempts
    BY MailCodesAssumption
  <2>2. QED
    BY <2>1
    DEF MailCodesInit, MailCodesTypeOK, NoCode, AllIdle, NotMailing, Encryptions, NoGuesses
<1>5. ApiKeysInit => ApiKeysTypeOK
  <2>1. 0 \in 0..MaxDay /\ Never \in Never..MaxDay + 1  BY ApiKeysAssumption DEF Never
  <2>2. QED  BY <2>1 DEF ApiKeysInit, ApiKeysTypeOK, NoKey, NoCall
<1>6. InstallInit => InstallTyped
  <2> SUFFICES ASSUME InstallInit PROVE InstallTyped  OBVIOUS
  <2>1. 0 \in 0..MaxDeaths  BY InstallAssumption
  <2>2. installing \in [Installs -> [at : {"idle", "count", "populate", "save", "activate"},
                                     into : Databases \cup {Nowhere}]]
    BY DEF InstallInit, NoInstall
  <2>3. \A r \in Installs : installing[r].at = "idle"  BY DEF InstallInit, NoInstall
  <2>4. InstallTypeOK  BY <2>1, <2>2 DEF InstallInit, InstallTypeOK
  <2>5. QED  BY <2>3, <2>4 DEF InstallTyped
<1>7. QED  BY <1>1, <1>2, <1>3, <1>4, <1>5, <1>6

\* What each part keeps, its type within it.
TypesInv ==
    /\ part \in Parts
    /\ part = "affiliate" => CommissionsBooked
    /\ part = "renewal" => RenewalTyped
    /\ part = "plugins" => PluginsTypeOK
    /\ part = "checkout" => CheckoutTypeOK
    /\ part = "provision" => ProvisionTypeOK
    /\ part = "guard" => LoginGuardTypeOK
    /\ part = "sessions" => SessionsInv /\ SessionsTypeOK
    /\ part = "kyc" => KycInv
    /\ part = "tickets" => TicketsInv
    /\ part = "mail" => MailCodesTypeOK
    /\ part = "accounts" => BookedInv
    /\ part = "keys" => ApiKeysTypeOK
    /\ part = "install" => InstallTyped
    /\ part = "estate" => EstateInv /\ EstateRest
    /\ part = "traffic" => PacksCounted /\ EditsFit
    /\ part = "agents" => AgentInv
    /\ part = "gateway" => GatewayInv
    /\ part = "catalog" => ShopInv
    /\ part = "articles" => TermsInv
    /\ part = "notices" => NotifyInv

\* Every row, every request and every counter of the part that moves stays what it is
\* declared to be: no subtotal a coupon takes off goes below zero, no request holds a row
\* or a date that is not there.
THEOREM PlatformTypeCorrect == PlatformSpec => []PlatformTypeOK
<1>1. PlatformInit => TypesInv
  <2> SUFFICES ASSUME PlatformInit PROVE TypesInv  OBVIOUS
  <2>1. EditsFit  BY TrafficPackAssumption DEF PlatformInit, TrafficPackInit, EditsFit
  <2>2. QED
    BY <2>1, PartsStartTyped, CommissionsStart, RenewalTypedStart, PluginsTypedStart, CheckoutTyped,
       SessionsStart, KycStart, TicketsStart, BookedStart, EstateStart, EstateRestStart, CountsStart,
       AgentStart, GatewayStart, ShopStart, TermsStart, NotifyStart
    DEF PlatformInit, TypesInv
<1>2. TypesInv /\ [PlatformNext]_platformVars => TypesInv'
  <2> SUFFICES ASSUME TypesInv, [PlatformNext]_platformVars PROVE TypesInv'  OBVIOUS
  <2> USE DEF TypesInv
  <2>1. UNCHANGED part  BY DEF PlatformNext, Still, platformVars
  <2>2. ASSUME part = "affiliate" PROVE CommissionsBooked'
    <3>1. [AffiliateNext]_affiliateVars  BY <2>2 DEF PlatformNext, platformVars
    <3>2. QED  BY <2>2, <3>1, CommissionsStep
  <2>3. ASSUME part = "renewal" PROVE RenewalTyped'
    <3>1. [RenewalNext]_renewalVars  BY <2>3 DEF PlatformNext, platformVars
    <3>2. QED  BY <2>3, <3>1, RenewalTypes
  <2>4. ASSUME part = "plugins" PROVE PluginsTypeOK'
    <3>1. [PluginsNext]_pluginVars  BY <2>4 DEF PlatformNext, platformVars
    <3>2. QED  BY <2>4, <3>1, PluginsTypes
  <2>5. ASSUME part = "checkout" PROVE CheckoutTypeOK'
    <3>1. [CheckoutNext]_checkoutVars  BY <2>5 DEF PlatformNext, platformVars
    <3>2. QED  BY <2>5, <3>1, CheckoutTypes
  <2>6. ASSUME part = "provision" PROVE ProvisionTypeOK'
    <3>1. [ProvisionNext]_provisionVars  BY <2>6 DEF PlatformNext, platformVars
    <3>2. QED  BY <2>6, <3>1, ProvisionTypes
  <2>7. ASSUME part = "guard" PROVE LoginGuardTypeOK'
    <3>1. [LoginGuardNext]_guardVars  BY <2>7 DEF PlatformNext, platformVars
    <3>2. QED  BY <2>7, <3>1, GuardTypes
  <2>8. ASSUME part = "sessions" PROVE (SessionsInv /\ SessionsTypeOK)'
    <3>1. [SessionsNext]_sessionVars  BY <2>8 DEF PlatformNext, platformVars
    <3>2. QED  BY <2>8, <3>1, SessionsStep, SessionsTypes
  <2>9. ASSUME part = "kyc" PROVE KycInv'
    <3>1. [KycNext]_kycVars  BY <2>9 DEF PlatformNext, platformVars
    <3>2. QED  BY <2>9, <3>1, KycStep
  <2>10. ASSUME part = "tickets" PROVE TicketsInv'
    <3>1. [TicketsNext]_ticketVars  BY <2>10 DEF PlatformNext, platformVars
    <3>2. QED  BY <2>10, <3>1, TicketsStep
  <2>11. ASSUME part = "mail" PROVE MailCodesTypeOK'
    <3>1. [MailCodesNext]_mailVars  BY <2>11 DEF PlatformNext, platformVars
    <3>2. QED  BY <2>11, <3>1, MailTypes
  <2>12. ASSUME part = "accounts" PROVE BookedInv'
    <3>1. [AccountsNext]_accountsVars  BY <2>12 DEF PlatformNext, platformVars
    <3>2. QED  BY <2>12, <3>1, BookedStep
  <2>13. ASSUME part = "keys" PROVE ApiKeysTypeOK'
    <3>1. [ApiKeysNext]_apiKeysVars  BY <2>13 DEF PlatformNext, platformVars
    <3>2. QED  BY <2>13, <3>1, ApiKeysTypes
  <2>14. ASSUME part = "install" PROVE InstallTyped'
    <3>1. [InstallNext]_installVars  BY <2>14 DEF PlatformNext, platformVars
    <3>2. QED  BY <2>14, <3>1, InstallTypes
  <2>15. ASSUME part = "estate" PROVE (EstateInv /\ EstateRest)'
    <3>1. [EstateNext]_estateVars  BY <2>15 DEF PlatformNext, platformVars
    <3>2. QED  BY <2>15, <3>1, EstateStep, EstateRestKept
  <2>16. ASSUME part = "traffic" PROVE (PacksCounted /\ EditsFit)'
    <3>1. [TrafficPackNext]_packVars  BY <2>16 DEF PlatformNext, platformVars
    <3>2. QED  BY <2>16, <3>1, PacksCountedStep, EditsFitStep
  <2>17. ASSUME part = "agents" PROVE AgentInv'
    <3>1. [AgentNext]_agentVars  BY <2>17 DEF PlatformNext, platformVars
    <3>2. QED  BY <2>17, <3>1, AgentStep
  <2>18. ASSUME part = "gateway" PROVE GatewayInv'
    <3>1. [GatewayNext]_gatewayVars  BY <2>18 DEF PlatformNext, platformVars
    <3>2. QED  BY <2>18, <3>1, GatewayStep
  <2>19. ASSUME part = "catalog" PROVE ShopInv'
    <3>1. [CatalogNext]_catalogVars  BY <2>19 DEF PlatformNext, platformVars
    <3>2. QED  BY <2>19, <3>1, ShopStep
  <2>20. ASSUME part = "articles" PROVE TermsInv'
    <3>1. [ArticlesNext]_articleVars  BY <2>20 DEF PlatformNext, platformVars
    <3>2. QED  BY <2>20, <3>1, TermsStep
  <2>21. ASSUME part = "notices" PROVE NotifyInv'
    <3>1. [NotifyNext]_notifyVars  BY <2>21 DEF PlatformNext, platformVars
    <3>2. QED  BY <2>21, <3>1, NotifyStep
  <2>22. QED
    BY <2>1, <2>2, <2>3, <2>4, <2>5, <2>6, <2>7, <2>8, <2>9, <2>10, <2>11, <2>12, <2>13, <2>14,
       <2>15, <2>16, <2>17, <2>18, <2>19, <2>20, <2>21
<1>3. TypesInv => PlatformTypeOK
  <2>1. RenewalTyped => RenewalTypeOK  BY DEF RenewalTyped
  <2>2. KycInv => KycTypeOK  BY DEF KycInv
  <2>3. TicketsInv => TicketsTypeOK  BY DEF TicketsInv
  <2>4. BookedInv => AccountsTypeOK
    BY DEF BookedInv, AccountsInv, AccountsTypeOK, Deeds
  <2>5. InstallTyped => InstallTypeOK  BY DEF InstallTyped
  <2>6. EstateInv /\ EstateRest => EstateTypeOK  BY EstateTypeIs DEF EstateInv
  <2>7. AgentInv => AgentTypeOK  BY DEF AgentInv
  <2>8. GatewayInv => GatewayTypeOK  BY DEF GatewayInv
  <2>9. ShopInv => CatalogTypeOK  BY DEF ShopInv, ShopRead
  <2>10. TermsInv => ArticlesTypeOK  BY DEF TermsInv, TextsRead
  <2>11. NotifyInv => NotifyTypeOK  BY DEF NotifyInv
  <2>12. QED
    BY <2>1, <2>2, <2>3, <2>4, <2>5, <2>6, <2>7, <2>8, <2>9, <2>10, <2>11, AffiliateTyped, PackTypes
    DEF PlatformTypeOK, TypesInv
<1>4. QED  BY <1>1, <1>2, <1>3, PTL DEF PlatformSpec
=============================================================================
