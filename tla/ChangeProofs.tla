---------------------------- MODULE ChangeProofs ----------------------------
(***************************************************************************)
(* Proofs about ServiceChange.tla, for any products, prices, changes and   *)
(* handlers, whether or not transactions overlap but for the last one.     *)
(***************************************************************************)
EXTENDS ServiceChange, Sums, TLAPS

USE SpecAssumption, StartAssumption DEF outside, money, Becomes, Applying

Claims == ChangeTypeOK /\ WorkersKnow /\ OneOpenChange /\ ClaimsAreExclusive

LEMMA ProratedNat == ASSUME NEW d \in Int, service.expires \in Nat  PROVE Prorated(d) \in Nat
<1>1. Positive(d) \in Nat  BY DEF Positive
<1>2. \A a, b \in Nat : a * b \in Nat  OBVIOUS
<1>3. QED  BY <1>1, <1>2 DEF Prorated

LEMMA Unclaimed == Idle \in Handlers /\ Unfiled \in Rows
<1>1. Unfiled \in Rows  BY DEF Unfiled, Rows, Statuses
<1>2. QED  BY <1>1 DEF Idle, Handlers, Steps

LEMMA ClaimsInit == ChangeInit => Claims
<1> SUFFICES ASSUME ChangeInit PROVE Claims  OBVIOUS
<1>1. \A w \in Workers : worker[w] = Idle  BY DEF ChangeInit
<1>2. \A c \in Changes : change[c] = Unfiled  BY DEF ChangeInit
<1>3. ChangeTypeOK
  BY Unclaimed DEF ChangeInit, ChangeTypeOK, Offers
<1>4. WorkersKnow /\ ClaimsAreExclusive
  BY <1>1 DEF WorkersKnow, ClaimsAreExclusive, Holds, Idle
<1>5. OneOpenChange
  BY <1>2 DEF OneOpenChange, ChangeInit, Unfiled, Undecided
<1>6. QED  BY <1>3, <1>4, <1>5 DEF Claims

\* A handler that moves without taking up a change leaves the claims alone.
LEMMA Moves ==
  ASSUME Claims, NEW w \in Workers, NEW x \in Handlers,
         worker' = [worker EXCEPT ![w] = x], UNCHANGED <<service, change, money, offers>>,
         x.at # "idle" => x.change \in Changes,
         \A c \in Changes : Holds(w, c)' => Holds(w, c),
         ChangeTypeOK => machine' \in [spec : Specs, stopped : BOOLEAN]
                         /\ sent' \subseteq Changes /\ done' \subseteq Changes /\ broken' \in BOOLEAN
  PROVE  Claims'
<1>1. ChangeTypeOK'  BY DEF Claims, ChangeTypeOK
<1>2. /\ worker \in [Workers -> Handlers] /\ worker'[w] = x
      /\ \A v \in Workers \ {w} : worker'[v] = worker[v]
  BY DEF Claims, ChangeTypeOK
<1>3. WorkersKnow'  BY <1>2 DEF Claims, WorkersKnow
<1>4. OneOpenChange'  BY DEF Claims, OneOpenChange
<1>5. \A v \in Workers, c \in Changes : Holds(v, c)' => Holds(v, c)
  BY <1>2 DEF Holds
<1>6. ClaimsAreExclusive'  BY <1>5 DEF Claims, ClaimsAreExclusive
<1>7. QED  BY <1>1, <1>3, <1>4, <1>6 DEF Claims

\* Goes(w, from, to) is such a move unless it starts to hold something.
LEMMA Going ==
  ASSUME Claims, NEW w \in Workers, NEW from \in Steps, NEW to \in Steps, Goes(w, from, to),
         from # "idle",
         to \in {"quote", "fenced"} \/ from \in {"observe", "resize", "check", "applied", "rejected"},
         UNCHANGED <<service, change, money, offers>>,
         machine' \in [spec : Specs, stopped : BOOLEAN],
         sent' \subseteq Changes, done' \subseteq Changes, broken' \in BOOLEAN
  PROVE  Claims'
<1> DEFINE x == [worker[w] EXCEPT !.at = to]
<1>1. worker[w] \in Handlers /\ worker[w].at = from
  BY DEF Claims, ChangeTypeOK, Goes
<1>2. x \in Handlers /\ x.at = to /\ x.change = worker[w].change
  BY <1>1 DEF Handlers
<1>3. worker' = [worker EXCEPT ![w] = x]
  BY DEF Goes
<1>4. worker[w].change \in Changes
  BY <1>1 DEF Claims, WorkersKnow
<1>5. worker'[w] = x
  BY <1>3 DEF Claims, ChangeTypeOK
<1>6. \A c \in Changes : Holds(w, c)' => Holds(w, c)
  BY <1>1, <1>2, <1>5 DEF Holds
<1> HIDE DEF x
<1>7. QED  BY <1>2, <1>3, <1>4, <1>6, Moves

LEMMA Ending ==
  ASSUME Claims, NEW w \in Workers, Ends(w), UNCHANGED <<service, change, money, offers, outside>>,
         broken' \in BOOLEAN
  PROVE  Claims'
<1>1. worker'[w] = Idle
  BY DEF Ends, Claims, ChangeTypeOK
<1>2. \A c \in Changes : Holds(w, c)' => Holds(w, c)
  BY <1>1 DEF Holds, Idle
<1>3. worker' = [worker EXCEPT ![w] = Idle] /\ Idle.at = "idle"
  BY DEF Ends, Idle
<1>4. QED  BY <1>2, <1>3, Unclaimed, Moves DEF Claims, ChangeTypeOK

LEMMA HandlingKeeps ==
  ASSUME Claims, NEW w \in Workers, Look(w) \/ Quote(w) \/ FenceAgain(w) \/ Abandon(w)
  PROVE  Claims'
<1>1. worker[w] \in Handlers /\ (worker[w].at # "idle" => worker[w].change \in Changes)
  BY DEF Claims, ChangeTypeOK, WorkersKnow
<1>2. CASE Look(w)
  <2> DEFINE x == [worker[w] EXCEPT !.at = "quote",
                    !.quoted = [worker[w].quoted EXCEPT !.from = machine.spec]]
  <2>1. worker' = [worker EXCEPT ![w] = x]
    BY <1>2 DEF Look, Claims, ChangeTypeOK
  <2>2. machine.spec \in Specs
    BY DEF Claims, ChangeTypeOK
  <2>3. x \in Handlers /\ x.at = "quote" /\ x.change = worker[w].change
    BY <1>1, <2>2 DEF Handlers, Rows, Steps
  <2>4. worker'[w] = x
    BY <2>1 DEF Claims, ChangeTypeOK
  <2>5. \A c \in Changes : Holds(w, c)' => Holds(w, c)
    BY <2>3, <2>4 DEF Holds
  <2>6. x.change \in Changes
    BY <1>1, <1>2, <2>3 DEF Look
  <2> HIDE DEF x
  <2>7. QED  BY <1>2, <2>1, <2>3, <2>5, <2>6, Moves DEF Look, Claims, ChangeTypeOK
<1>3. CASE Quote(w)
  <2> DEFINE to == worker[w].quoted.to
             y == [worker[w].quoted EXCEPT !.price = Price[to],
                     !.charge = Prorated(Price[to] - service.price),
                     !.credit = Prorated(service.price - Price[to])]
             x == [worker[w] EXCEPT !.at = "reserve", !.quoted = y]
  <2>1. worker' = [worker EXCEPT ![w] = x]
    BY <1>3 DEF Quote, Claims, ChangeTypeOK
  <2>2. to \in Specs /\ Price[to] \in Nat /\ service.price \in Nat /\ service.expires \in Nat
    BY <1>1 DEF Handlers, Rows, Claims, ChangeTypeOK
  <2>3. Prorated(Price[to] - service.price) \in Nat /\ Prorated(service.price - Price[to]) \in Nat
    BY <2>2, ProratedNat
  <2>4. x \in Handlers /\ x.at = "reserve" /\ x.change = worker[w].change
    BY <1>1, <2>2, <2>3 DEF Handlers, Rows, Steps
  <2>5. worker'[w] = x
    BY <2>1 DEF Claims, ChangeTypeOK
  <2>6. \A c \in Changes : Holds(w, c)' => Holds(w, c)
    BY <2>4, <2>5 DEF Holds
  <2>7. x.change \in Changes
    BY <1>1, <1>3, <2>4 DEF Quote
  <2> HIDE DEF x
  <2>8. QED  BY <1>3, <2>1, <2>4, <2>6, <2>7, Moves DEF Quote, Claims, ChangeTypeOK
<1>4. CASE FenceAgain(w)
  BY <1>4, Going DEF FenceAgain, Steps, Claims, ChangeTypeOK
<1>5. CASE Abandon(w)
  BY <1>5, Ending DEF Abandon, Claims, ChangeTypeOK
<1>6. QED  BY <1>2, <1>3, <1>4, <1>5

LEMMA BeginKeeps ==
  ASSUME Claims, NEW w \in Workers, NEW c \in Changes, NEW to \in Specs, Begin(w, c, to)
  PROVE  Claims'
<1> DEFINE x == [Idle EXCEPT !.at = "look", !.change = c, !.active = service.active,
                   !.expires = service.expires, !.product = Product[service.spec],
                   !.quoted = [Unfiled EXCEPT !.to = to]]
<1>1. worker' = [worker EXCEPT ![w] = x]
  BY DEF Begin
<1>2. [Unfiled EXCEPT !.to = to] \in Rows
  BY Unclaimed DEF Rows
<1>3. service.active \in BOOLEAN /\ service.expires \in Nat /\ service.spec \in Specs
  BY DEF Claims, ChangeTypeOK
<1>4. x \in Handlers /\ x.at = "look" /\ x.change = c
  BY <1>2, <1>3, Unclaimed DEF Handlers, Steps
<1>5. worker'[w] = x
  BY <1>1 DEF Claims, ChangeTypeOK
<1>6. \A d \in Changes : Holds(w, d)' => Holds(w, d)
  BY <1>4, <1>5 DEF Holds
<1> HIDE DEF x
<1>7. QED  BY <1>1, <1>4, <1>6, Moves DEF Begin, Claims, ChangeTypeOK

LEMMA CarryingOut ==
  ASSUME Claims, NEW c \in Changes, CarryOut(c)
  PROVE  /\ machine' \in [spec : Specs, stopped : BOOLEAN]
         /\ sent' \subseteq Changes /\ done' \subseteq Changes
<1>1. change[c].to \in Specs
  BY DEF Claims, ChangeTypeOK, Rows
<1>2. QED  BY <1>1 DEF CarryOut, Claims, ChangeTypeOK

LEMMA ReplyKeeps ==
  ASSUME Claims, NEW w \in Workers, Reply(w) \/ DecisionFails(w) \/ Dies(w)
  PROVE  Claims'
<1> USE DEF Steps
<1>1. CASE Observe(w)
  <2>1. VerdictOfSight(w) \in {"applied", "uncertain", "resize", "rejected"}
    BY DEF VerdictOfSight
  <2>2. QED  BY <1>1, <2>1, Going DEF Observe, Claims, ChangeTypeOK
<1>2. CASE ResizeDone(w)
  <2>1. worker[w].change \in Changes
    BY <1>2 DEF ResizeDone, Goes, Claims, WorkersKnow
  <2>2. QED  BY <1>2, <2>1, CarryingOut, Going DEF ResizeDone, Claims, ChangeTypeOK
<1>3. CASE ResizeOpen(w)
  <2>1. worker[w].change \in Changes
    BY <1>3 DEF ResizeOpen, Goes, Claims, WorkersKnow
  <2>2. QED  BY <1>3, <2>1, Going DEF ResizeOpen, Claims, ChangeTypeOK
<1>4. CASE ResizeRefused(w)
  BY <1>4, Going DEF ResizeRefused, Refusal, Claims, ChangeTypeOK
<1>5. CASE Check(w)
  BY <1>5, Going DEF Check, Claims, ChangeTypeOK
<1>6. CASE DecisionFails(w)
  BY <1>6, Going DEF DecisionFails, Claims, ChangeTypeOK
<1>7. CASE Dies(w)
  BY <1>7, Ending DEF Dies
<1>8. QED  BY <1>1, <1>2, <1>3, <1>4, <1>5, <1>6, <1>7 DEF Reply

LEMMA ReserveKeeps ==
  ASSUME Claims, NEW w \in Workers, ReserveChange(w)
  PROVE  Claims'
<1> DEFINE c == worker[w].change
           filed == [worker[w].quoted EXCEPT !.status = "reserved"]
           x == [Idle EXCEPT !.at = "claim", !.change = c]
<1>1. worker[w] \in Handlers /\ c \in Changes /\ service.pending = NoChange
  BY DEF ReserveChange, MayReserveChange, Claims, ChangeTypeOK, WorkersKnow
<1>2. filed \in Rows /\ filed.status = "reserved" /\ worker[w].quoted.charge \in Nat
  BY <1>1 DEF Handlers, Rows, Statuses
<1>3. x \in Handlers /\ x.at = "claim" /\ x.change = c
  BY <1>1, Unclaimed DEF Handlers, Steps
<1>4. change' = [change EXCEPT ![c] = filed] /\ worker' = [worker EXCEPT ![w] = x]
  BY DEF ReserveChange
<1>5. /\ change'[c] = filed /\ worker'[w] = x
      /\ \A d \in Changes \ {c} : change'[d] = change[d]
      /\ \A v \in Workers \ {w} : worker'[v] = worker[v]
  BY <1>1, <1>4 DEF Claims, ChangeTypeOK
<1>6. service' = [service EXCEPT !.pending = c] /\ service'.pending = c
  BY DEF ReserveChange, Claims, ChangeTypeOK
<1> HIDE DEF filed, x
<1>7. ChangeTypeOK'
  <2>1. balance' \in Nat
    BY <1>2 DEF ReserveChange, MayReserveChange, Claims, ChangeTypeOK
  <2>2. service' \in [spec : Specs, price : Nat, expires : Nat, active : BOOLEAN,
                      pending : Changes \cup {NoChange}]
    BY <1>1, <1>6 DEF Claims, ChangeTypeOK
  <2>3. QED  BY <1>1, <1>2, <1>3, <1>4, <2>1, <2>2 DEF ReserveChange, Claims, ChangeTypeOK
<1>8. WorkersKnow'
  BY <1>1, <1>3, <1>5 DEF Claims, WorkersKnow
<1>9. OneOpenChange'
  BY <1>1, <1>2, <1>5, <1>6 DEF Claims, OneOpenChange, Undecided
<1>10. ClaimsAreExclusive'
  <2>1. \A v \in Workers, d \in Changes : Holds(v, d)' => Holds(v, d)
    BY <1>3, <1>5 DEF Holds
  <2>2. change[c].status = "none"
    BY DEF ReserveChange, MayReserveChange
  <2>3. \A v \in Workers, d \in Changes : Holds(v, d)' => change'[d] = change[d]
    BY <1>5, <2>1, <2>2 DEF Claims, ClaimsAreExclusive
  <2>4. QED  BY <2>1, <2>3 DEF Claims, ClaimsAreExclusive
<1>11. QED  BY <1>7, <1>8, <1>9, <1>10 DEF Claims

\* A change that keeps its place among the open or the decided ones, and whose
\* holders are accounted for, keeps the claims.
LEMMA RowMoves ==
  ASSUME Claims, NEW c \in Changes, NEW status \in Statuses, Row(c, status)
  PROVE  /\ change' \in [Changes -> Rows]
         /\ change'[c] = [change[c] EXCEPT !.status = status] /\ change'[c].status = status
         /\ \A d \in Changes \ {c} : change'[d] = change[d]
<1>1. change \in [Changes -> Rows] /\ change[c] \in Rows
  BY DEF Claims, ChangeTypeOK
<1>2. [change[c] EXCEPT !.status = status] \in Rows
  BY <1>1 DEF Rows
<1>3. [change[c] EXCEPT !.status = status].status = status
  BY <1>1 DEF Rows
<1>4. QED  BY <1>1, <1>2, <1>3 DEF Row

LEMMA ClaimKeeps ==
  ASSUME Claims, NEW w \in Workers, NEW c \in Changes, ClaimChange(w, c)
  PROVE  Claims'
<1> DEFINE x == [Idle EXCEPT !.at = "observe", !.change = c,
                             !.first = (change[c].status = "reserved")]
<1>1. x \in Handlers /\ x.at = "observe" /\ x.change = c
  BY Unclaimed DEF Handlers, Steps
<1>2. worker' = [worker EXCEPT ![w] = x] /\ Row(c, "applying") /\ service.pending = c
  BY DEF ClaimChange, Claimable
<1> HIDE DEF x
<1>3. /\ worker'[w] = x
      /\ \A v \in Workers \ {w} : worker'[v] = worker[v]
  BY <1>2 DEF Claims, ChangeTypeOK
<1>4. /\ change' \in [Changes -> Rows] /\ change'[c].status = "applying"
      /\ \A d \in Changes \ {c} : change'[d] = change[d]
  BY <1>2, RowMoves DEF Statuses
<1>5. ChangeTypeOK'
  BY <1>1, <1>2, <1>4 DEF ClaimChange, Claims, ChangeTypeOK
<1>6. WorkersKnow'
  BY <1>1, <1>3 DEF Claims, WorkersKnow
<1>7. OneOpenChange'
  BY <1>2, <1>4 DEF Claims, OneOpenChange, Undecided, ClaimChange
<1>8. ~Held(c)
  BY DEF ClaimChange, Claimable, Held, Claims, ClaimsAreExclusive
<1>9. ClaimsAreExclusive'
  <2>1. \A v \in Workers \ {w}, d \in Changes : Holds(v, d)' => Holds(v, d)
    BY <1>3 DEF Holds
  <2>2. \A d \in Changes : Holds(w, d)' => d = c
    BY <1>1, <1>3 DEF Holds
  <2>3. \A v \in Workers : ~Holds(v, c)
    BY <1>8 DEF Held
  <2>4. QED  BY <1>4, <2>1, <2>2, <2>3 DEF Claims, ClaimsAreExclusive
<1>10. QED  BY <1>5, <1>6, <1>7, <1>9 DEF Claims

\* The verdict on the open change ends its claim.
LEMMA VerdictKeeps ==
  ASSUME Claims, NEW w \in Workers, ChangeApplied(w) \/ ChangeRejected(w)
  PROVE  Claims'
<1>0. PICK c \in Changes : worker[w].change = c
  BY DEF ChangeApplied, ChangeRejected, Claims, WorkersKnow
<1>1. /\ service.pending = c /\ change[c].status = "applying" /\ change[c] \in Rows
      /\ Holds(w, c)
  BY <1>0 DEF ChangeApplied, ChangeRejected, MayDecide, Subject, Claims, ChangeTypeOK, WorkersKnow, Holds
<1>2. PICK status \in {"applied", "failed"} : Row(c, status)
  BY <1>0 DEF ChangeApplied, ChangeRejected
<1>3. /\ change' \in [Changes -> Rows] /\ change'[c].status \in {"applied", "failed"}
      /\ \A d \in Changes \ {c} : change'[d] = change[d]
  BY <1>1, <1>2, RowMoves DEF Statuses
<1>4. /\ service' \in [spec : Specs, price : Nat, expires : Nat, active : BOOLEAN,
                       pending : Changes \cup {NoChange}]
      /\ service'.pending = NoChange
  <2>1. change[c].to \in Specs /\ change[c].price \in Nat
    BY <1>1 DEF Rows
  <2>2. CASE service' = [service EXCEPT !.pending = NoChange, !.spec = change[c].to,
                                        !.price = change[c].price]
    BY <2>1, <2>2 DEF Claims, ChangeTypeOK
  <2>3. CASE service' = [service EXCEPT !.pending = NoChange]
    BY <2>3 DEF Claims, ChangeTypeOK
  <2>4. QED  BY <1>0, <2>2, <2>3 DEF ChangeApplied, ChangeRejected, Subject
<1>5. balance' \in Nat
  BY <1>0, <1>1 DEF ChangeApplied, ChangeRejected, Returned, Subject, Rows, Claims, ChangeTypeOK
<1>6. worker' = [worker EXCEPT ![w] = Idle]
  BY DEF ChangeApplied, ChangeRejected, Ends
<1>7. worker'[w] = Idle /\ \A v \in Workers \ {w} : worker'[v] = worker[v]
  BY <1>6 DEF Claims, ChangeTypeOK
<1>8. ChangeTypeOK'
  BY <1>3, <1>4, <1>5, <1>6, Unclaimed DEF ChangeApplied, ChangeRejected, Claims, ChangeTypeOK
<1>9. WorkersKnow'
  BY <1>7 DEF Claims, WorkersKnow, Idle
<1>10. OneOpenChange'
  BY <1>1, <1>3, <1>4 DEF Claims, OneOpenChange, Undecided
<1>11. ClaimsAreExclusive'
  <2>1. \A v \in Workers, d \in Changes : Holds(v, d)' => Holds(v, d) /\ v # w
    BY <1>7 DEF Holds, Idle
  <2>2. \A v \in Workers : Holds(v, c)' => FALSE
    BY <1>1, <2>1 DEF Claims, ClaimsAreExclusive
  <2>3. QED  BY <1>1, <1>3, <2>1, <2>2 DEF Claims, ClaimsAreExclusive
<1>12. QED  BY <1>8, <1>9, <1>10, <1>11 DEF Claims

LEMMA UncertainKeeps ==
  ASSUME Claims, NEW w \in Workers, Uncertain(w)
  PROVE  Claims' /\ Row(worker[w].change, "uncertain") /\ Holds(w, worker[w].change)
<1>0. PICK c \in Changes : worker[w].change = c
  BY DEF Uncertain, Claims, WorkersKnow
<1>1. Holds(w, c) /\ change[c].status = "applying" /\ service.pending = c
  BY <1>0 DEF Uncertain, Claims, WorkersKnow, Holds, ClaimsAreExclusive, OneOpenChange, Undecided
<1>2. Row(c, "uncertain")
  BY <1>0, <1>1 DEF Uncertain, Subject
<1>3. /\ change' \in [Changes -> Rows] /\ change'[c].status = "uncertain"
      /\ \A d \in Changes \ {c} : change'[d] = change[d]
  BY <1>1, <1>2, RowMoves DEF Statuses
<1>4. worker' = [worker EXCEPT ![w] = Idle]
  BY DEF Uncertain, Ends
<1>5. worker'[w] = Idle /\ \A v \in Workers \ {w} : worker'[v] = worker[v]
  BY <1>4 DEF Claims, ChangeTypeOK
<1>6. ChangeTypeOK'
  BY <1>3, <1>4, Unclaimed DEF Uncertain, Claims, ChangeTypeOK
<1>7. WorkersKnow'
  BY <1>5 DEF Claims, WorkersKnow, Idle
<1>8. OneOpenChange'
  BY <1>1, <1>3 DEF Claims, OneOpenChange, Undecided, Uncertain
<1>9. ClaimsAreExclusive'
  <2>1. \A v \in Workers, d \in Changes : Holds(v, d)' => Holds(v, d) /\ v # w
    BY <1>5 DEF Holds, Idle
  <2>2. \A v \in Workers : Holds(v, c)' => FALSE
    BY <1>1, <2>1 DEF Claims, ClaimsAreExclusive
  <2>3. QED  BY <1>1, <1>3, <2>1, <2>2 DEF Claims, ClaimsAreExclusive
<1>10. QED  BY <1>0, <1>1, <1>2, <1>6, <1>7, <1>8, <1>9 DEF Claims

\* What happens around the changes: renewals, the power switch, suspensions,
\* late orders.
Around ==
    \/ \E k \in Offers : OfferRenewal(k) \/ OfferDropped(k)
    \/ \E c \in Changes : Land(c)
    \/ RenewNow \/ InvoicePaid \/ IntentPaid \/ Power \/ SwitchService

LEMMA AroundKeeps ==
  ASSUME Claims, Around
  PROVE  Claims' /\ UNCHANGED <<change, worker, broken>> /\ service'.pending = service.pending
         /\ service'.spec = service.spec
<1> USE DEF Claims
<1>1. UNCHANGED <<change, worker, broken>>
  BY DEF Around, OfferRenewal, OfferDropped, Land, RenewNow, InvoicePaid, IntentPaid,
         BuyFromWallet, Power, SwitchService
<1>2. /\ service' \in [spec : Specs, price : Nat, expires : Nat, active : BOOLEAN,
                       pending : Changes \cup {NoChange}]
      /\ service'.pending = service.pending /\ service'.spec = service.spec
  <2>1. CASE UNCHANGED service
    BY <2>1 DEF ChangeTypeOK
  <2>2. CASE service' = [service EXCEPT !.expires = service.expires + 1]
    BY <2>2 DEF ChangeTypeOK
  <2>3. CASE service' = [service EXCEPT !.active = ~service.active]
    BY <2>3 DEF ChangeTypeOK
  <2>4. QED
    BY <2>1, <2>2, <2>3 DEF Around, OfferRenewal, OfferDropped, Land, RenewNow, InvoicePaid,
       IntentPaid, BuyFromWallet, BuyTime, Power, SwitchService
<1>3. balance' \in Nat /\ renewals' \in [{"wallet", "channel"} -> Nat] /\ offers' \in [Offers -> Nat]
  BY DEF Around, OfferRenewal, OfferDropped, Land, RenewNow, InvoicePaid, IntentPaid,
         BuyFromWallet, BuyTime, Power, SwitchService, ChangeTypeOK, Offers
<1>4. machine' \in [spec : Specs, stopped : BOOLEAN] /\ sent' \subseteq Changes /\ done' \subseteq Changes
  <2>1. CASE \E c \in Changes : Land(c)
    BY <2>1, CarryingOut DEF Land
  <2>2. CASE ~ \E c \in Changes : Land(c)
    BY <2>2 DEF Around, OfferRenewal, OfferDropped, RenewNow, InvoicePaid, IntentPaid,
         BuyFromWallet, BuyTime, Power, SwitchService, ChangeTypeOK
  <2>3. QED  BY <2>1, <2>2
<1>5. ChangeTypeOK'
  BY <1>1, <1>2, <1>3, <1>4 DEF ChangeTypeOK
<1>6. WorkersKnow' /\ OneOpenChange' /\ ClaimsAreExclusive'
  BY <1>1, <1>2 DEF WorkersKnow, OneOpenChange, ClaimsAreExclusive, Holds
<1>7. QED  BY <1>1, <1>2, <1>5, <1>6

LEMMA ClaimsStep == ASSUME Claims, [ChangeNext]_changeVars PROVE Claims'
<1>1. CASE UNCHANGED changeVars
  BY <1>1 DEF changeVars, Claims, ChangeTypeOK, WorkersKnow, OneOpenChange, ClaimsAreExclusive, Holds
<1>2. ASSUME NEW w \in Workers, NEW c \in Changes, Submit(w, c) PROVE Claims'
  BY <1>2, BeginKeeps, ClaimKeeps DEF Submit
<1>3. ASSUME NEW w \in Workers, Handle(w) \/ Reply(w) \/ Decide(w) \/ Dies(w) PROVE Claims'
  BY <1>3, HandlingKeeps, ReserveKeeps, ReplyKeeps, VerdictKeeps, UncertainKeeps DEF Handle, Decide
<1>4. CASE Around
  BY <1>4, AroundKeeps
<1>5. QED  BY <1>1, <1>2, <1>3, <1>4 DEF ChangeNext, Around

LEMMA ClaimsHold == ChangeSpec => []Claims
BY ClaimsInit, ClaimsStep, PTL DEF ChangeSpec

\* Every row, the wallet and every handler keep their types; the wallet is never
\* negative, although charges are quoted before they are taken (Change).
THEOREM ChangeTypeCorrect == ChangeSpec => []ChangeTypeOK
<1>1. Claims => ChangeTypeOK  BY DEF Claims
<1>2. QED  BY <1>1, ClaimsHold, PTL

\* The service is claimed by exactly the change that is open (change_pending_id).
THEOREM OneChangeAtATime == ChangeSpec => []OneOpenChange
<1>1. Claims => OneOpenChange  BY DEF Claims
<1>2. QED  BY <1>1, ClaimsHold, PTL

-----------------------------------------------------------------------------
(* The books.                                                              *)

LEMMA TakenIsNumber ==
  ASSUME ChangeTypeOK
  PROVE  (\A c \in Changes : Taken[c] \in Int) /\ SumFunctionOnSet(Taken, Changes) \in Int
<1>1. \A c \in Changes : Taken[c] \in Int
  <2> TAKE c \in Changes
  <2>1. change[c].charge \in Int /\ change[c].credit \in Int  BY DEF ChangeTypeOK, Rows
  <2> DEFINE x == change[c].charge
             y == change[c].credit
  <2>2. x - y \in Int
    <3> HIDE DEF x, y
    <3> QED  BY <2>1 DEF x, y
  <2>3. QED  BY <2>1, <2>2 DEF Taken
<1>2. QED  BY <1>1, RowAssumption, SumOne

\* One change takes more or less, and the wallet has as much less or more.
LEMMA OneChangeBooked ==
  ASSUME ChangeTypeOK, ChangeTypeOK', ChangesBooked, NEW c \in Changes, UNCHANGED renewals,
         \A d \in Changes \ {c} : change'[d] = change[d],
         balance' + Taken'[c] = balance + Taken[c]
  PROVE  ChangesBooked'
<1> DEFINE s == SumFunctionOnSet(Taken, Changes)
           r == renewals["wallet"]
           p == Taken[c]
           q == Taken'[c]
<1>1. s \in Int /\ \A d \in Changes : Taken[d] \in Int  BY TakenIsNumber
<1>2. \A d \in Changes : Taken'[d] \in Int
  <2> TAKE d \in Changes
  <2> DEFINE x == change'[d].charge
             y == change'[d].credit
  <2>1. x \in Int /\ y \in Int  BY DEF ChangeTypeOK, Rows
  <2>2. x - y \in Int
    <3> HIDE DEF x, y
    <3> QED  BY <2>1
  <2>3. QED  BY <2>1, <2>2 DEF Taken
<1>3. \A d \in Changes : d # c => Taken[d] = Taken'[d]  BY DEF Taken
<1>4. SumFunctionOnSet(Taken', Changes) = s + (q - p)
  BY <1>1, <1>2, <1>3, RowAssumption, SumChange
<1>5. p \in Int /\ q \in Int /\ r \in Int /\ balance \in Int /\ balance' \in Int
      /\ StartBalance \in Int
  BY <1>1, <1>2 DEF ChangeTypeOK
<1>6. balance = StartBalance - r - s  BY DEF ChangesBooked
<1>7. balance' = StartBalance - r - (s + (q - p))
  <2>1. balance' + q = balance + p  OBVIOUS
  <2>2. s \in Int  BY <1>1
  <2> HIDE DEF s, r, p, q
  <2>3. balance' = (StartBalance - r - s) + p - q  BY <1>5, <1>6, <2>1
  <2>4. QED  BY <1>5, <2>2, <2>3
<1>8. QED  BY <1>4, <1>7 DEF ChangesBooked

\* A change that is filed is charged what was quoted.
LEMMA ReservationBooked ==
  ASSUME Claims, Claims', ChangesBooked, NEW w \in Workers, ReserveChange(w)
  PROVE  ChangesBooked'
<1> DEFINE c == worker[w].change
           charge == worker[w].quoted.charge
<1>1. worker[w] \in Handlers /\ c \in Changes /\ change[c].status = "none" /\ UNCHANGED renewals
  BY DEF ReserveChange, MayReserveChange, Claims, ChangeTypeOK, WorkersKnow
<1>2. charge \in Nat /\ balance \in Nat /\ balance' = balance - charge
  BY <1>1 DEF Handlers, Rows, Claims, ChangeTypeOK, ReserveChange
<1>3. change' = [change EXCEPT ![c] = [worker[w].quoted EXCEPT !.status = "reserved"]]
  BY DEF ReserveChange
<1>4. change'[c].status = "reserved" /\ change'[c].charge = charge
      /\ \A d \in Changes \ {c} : change'[d] = change[d]
  BY <1>1, <1>3 DEF Claims, ChangeTypeOK, Handlers, Rows
<1>5. Taken[c] = 0 /\ Taken'[c] = charge  BY <1>1, <1>4 DEF Taken, Undecided
<1> HIDE DEF charge
<1>6. balance' + Taken'[c] = balance + Taken[c]  BY <1>2, <1>5
<1>7. QED  BY <1>1, <1>4, <1>6, OneChangeBooked DEF Claims

\* Moving on does not change what an open change has taken.
LEMMA ProgressBooked ==
  ASSUME Claims, Claims', ChangesBooked, NEW c \in Changes, NEW status \in {"applying", "uncertain"},
         change[c].status \in Undecided, Row(c, status), UNCHANGED <<balance, renewals>>
  PROVE  ChangesBooked'
<1>1. change[c] \in Rows /\ change' = [change EXCEPT ![c] = [change[c] EXCEPT !.status = status]]
  BY DEF Claims, ChangeTypeOK, Row
<1>2. /\ change'[c].status = status /\ change'[c].charge = change[c].charge
      /\ \A d \in Changes \ {c} : change'[d] = change[d]
  BY <1>1 DEF Claims, ChangeTypeOK, Rows
<1>3. Taken'[c] = Taken[c]  BY <1>2 DEF Taken, Undecided
<1>4. QED  BY <1>2, <1>3, OneChangeBooked DEF Claims

\* A verdict pays the credit, or gives the charge back.
LEMMA VerdictBooked ==
  ASSUME Claims, Claims', ChangesBooked, NEW w \in Workers, ChangeApplied(w) \/ ChangeRejected(w)
  PROVE  ChangesBooked'
<1>0. PICK c \in Changes : worker[w].change = c
  BY DEF ChangeApplied, ChangeRejected, Claims, WorkersKnow
<1>1. change[c].status = "applying" /\ change[c] \in Rows /\ UNCHANGED renewals
  BY <1>0 DEF ChangeApplied, ChangeRejected, MayDecide, Subject, Claims, ChangeTypeOK
<1> DEFINE charge == change[c].charge
           credit == change[c].credit
<1>2. charge \in Nat /\ credit \in Nat /\ balance \in Nat /\ Taken[c] = charge
  BY <1>1 DEF Rows, Claims, ChangeTypeOK, Taken, Undecided
<1>3. CASE ChangeApplied(w)
  <2>1. change' = [change EXCEPT ![c] = [change[c] EXCEPT !.status = "applied"]]
    BY <1>0, <1>3 DEF ChangeApplied, Row
  <2>2. /\ change'[c].status = "applied" /\ change'[c].charge = charge /\ change'[c].credit = credit
        /\ \A d \in Changes \ {c} : change'[d] = change[d]
    BY <1>1, <2>1 DEF Claims, ChangeTypeOK, Rows
  <2>3. Taken'[c] = charge - credit  BY <2>2 DEF Taken, Undecided
  <2>4. balance' = balance + credit  BY <1>0, <1>3 DEF ChangeApplied, Subject
  <2> HIDE DEF charge, credit
  <2>5. balance' + Taken'[c] = balance + Taken[c]  BY <1>2, <2>3, <2>4
  <2>6. QED  BY <1>1, <2>2, <2>5, OneChangeBooked DEF Claims
<1>4. CASE ChangeRejected(w)
  <2>1. change' = [change EXCEPT ![c] = [change[c] EXCEPT !.status = "failed"]]
    BY <1>0, <1>4 DEF ChangeRejected, Row
  <2>2. change'[c].status = "failed" /\ \A d \in Changes \ {c} : change'[d] = change[d]
    BY <1>1, <2>1 DEF Claims, ChangeTypeOK, Rows
  <2>3. Taken'[c] = 0  BY <2>2 DEF Taken, Undecided
  <2>4. balance' = balance + charge  BY <1>0, <1>4 DEF ChangeRejected, Subject, Returned
  <2> HIDE DEF charge, credit
  <2>5. balance' + Taken'[c] = balance + Taken[c]  BY <1>2, <2>3, <2>4
  <2>6. QED  BY <1>1, <2>2, <2>5, OneChangeBooked DEF Claims
<1>5. QED  BY <1>3, <1>4

\* Steps that touch neither the rows nor the wallet.
LEMMA RestBooked ==
  ASSUME ChangesBooked, UNCHANGED <<change, balance>>, renewals'["wallet"] = renewals["wallet"]
  PROVE  ChangesBooked'
BY DEF ChangesBooked, Taken

\* A renewal from the wallet is booked as one.
LEMMA RenewalBooked ==
  ASSUME Claims, ChangesBooked, NEW cents \in Nat, BuyFromWallet(cents)
  PROVE  ChangesBooked'
<1> DEFINE s == SumFunctionOnSet(Taken, Changes)
           r == renewals["wallet"]
<1>1. s \in Int /\ r \in Int /\ balance \in Int /\ StartBalance \in Int
  BY TakenIsNumber DEF Claims, ChangeTypeOK
<1>2. balance = StartBalance - r - s  BY DEF ChangesBooked
<1>3. balance' = balance - cents /\ renewals'["wallet"] = r + cents /\ UNCHANGED change
  BY DEF BuyFromWallet, BuyTime, Claims, ChangeTypeOK
<1>4. Taken' = Taken  BY <1>3 DEF Taken
<1>5. balance - cents = StartBalance - (r + cents) - s
  <2> HIDE DEF s, r
  <2> QED  BY <1>1, <1>2
<1>6. QED  BY <1>3, <1>4, <1>5 DEF ChangesBooked

LEMMA BooksStep == Claims /\ Claims' /\ ChangesBooked /\ [ChangeNext]_changeVars => ChangesBooked'
<1> SUFFICES ASSUME Claims, Claims', ChangesBooked, [ChangeNext]_changeVars PROVE ChangesBooked'
  OBVIOUS
<1>1. CASE UNCHANGED changeVars  BY <1>1, RestBooked DEF changeVars
<1>2. ASSUME NEW w \in Workers, NEW c \in Changes, Submit(w, c) PROVE ChangesBooked'
  <2>1. ASSUME NEW to \in Specs, Begin(w, c, to) PROVE ChangesBooked'
    BY <2>1, RestBooked DEF Begin
  <2>2. CASE ClaimChange(w, c)
    <3>1. change[c].status \in Undecided /\ Row(c, "applying") /\ UNCHANGED <<balance, renewals>>
      BY <2>2 DEF ClaimChange, Claimable, Undecided
    <3>2. QED  BY <3>1, ProgressBooked
  <2>3. QED  BY <1>2, <2>1, <2>2 DEF Submit
<1>3. ASSUME NEW w \in Workers, Handle(w) PROVE ChangesBooked'
  BY <1>3, RestBooked, ReservationBooked DEF Handle, Look, Quote, FenceAgain, Abandon
<1>4. ASSUME NEW w \in Workers, Reply(w) \/ Dies(w) \/ DecisionFails(w) PROVE ChangesBooked'
  BY <1>4, RestBooked
     DEF Reply, Dies, DecisionFails, Observe, ResizeDone, ResizeOpen, ResizeRefused, Check
<1>5. ASSUME NEW w \in Workers, Decide(w) PROVE ChangesBooked'
  <2>1. CASE Uncertain(w)
    <3> DEFINE c == worker[w].change
    <3>1. Row(c, "uncertain") /\ Holds(w, c) /\ c \in Changes
      BY <2>1, UncertainKeeps DEF Uncertain, Claims, WorkersKnow
    <3>2. change[c].status \in Undecided
      BY <3>1 DEF Claims, ClaimsAreExclusive, Undecided
    <3>3. UNCHANGED <<balance, renewals>>  BY <2>1 DEF Uncertain
    <3> HIDE DEF c
    <3>4. QED  BY <3>1, <3>2, <3>3, ProgressBooked
  <2>2. QED  BY <1>4, <1>5, <2>1, VerdictBooked DEF Decide
<1>6. CASE Around
  <2>1. CASE RenewNow
    <3>1. service.price \in Nat  BY DEF Claims, ChangeTypeOK
    <3>2. QED  BY <2>1, <3>1, RenewalBooked DEF RenewNow
  <2>2. CASE InvoicePaid
    <3>1. offers["invoice"] \in Nat  BY DEF Claims, ChangeTypeOK, Offers
    <3>2. QED  BY <2>2, <3>1, RenewalBooked DEF InvoicePaid
  <2>3. CASE IntentPaid
    <3>1. renewals'["wallet"] = renewals["wallet"]
      BY <2>3 DEF IntentPaid, BuyTime, Claims, ChangeTypeOK
    <3>2. QED  BY <2>3, <3>1, RestBooked DEF IntentPaid
  <2>4. CASE ~(RenewNow \/ InvoicePaid \/ IntentPaid)
    BY <1>6, <2>4, RestBooked DEF Around, OfferRenewal, OfferDropped, Land, Power, SwitchService
  <2>5. QED  BY <2>1, <2>2, <2>3, <2>4
<1>7. QED  BY <1>1, <1>2, <1>3, <1>4, <1>5, <1>6 DEF ChangeNext, Around

\* Whoever retries and whatever is lost, the wallet is what the customer started with,
\* less his renewals and what the changes took for good or hold (adjustBalance).
THEOREM WalletAddsUp == ChangeSpec => []ChangesBooked
<1>1. ChangeInit => ChangesBooked
  <2> SUFFICES ASSUME ChangeInit PROVE ChangesBooked  OBVIOUS
  <2>1. \A c \in Changes : Taken[c] = 0  BY DEF ChangeInit, Taken, Unfiled, Undecided
  <2>2. SumFunctionOnSet(Taken, Changes) = 0  BY <2>1, RowAssumption, SumZero
  <2>3. balance = StartBalance /\ renewals["wallet"] = 0  BY DEF ChangeInit
  <2>4. QED  BY <2>2, <2>3 DEF ChangesBooked
<1>2. QED  BY <1>1, BooksStep, ClaimsHold, PTL DEF ChangeSpec

-----------------------------------------------------------------------------
(* Verdicts.                                                               *)

Kept(c) ==
    /\ change[c].status \in {"applied", "failed"} => change'[c] = change[c]
    /\ change[c].status # "none" =>
          [change'[c] EXCEPT !.status = "none"] = [change[c] EXCEPT !.status = "none"]

\* Moving the status of an open change touches nothing else.
LEMMA OpenRowKept ==
  ASSUME Claims, NEW c \in Changes, change[c].status \in Undecided,
         NEW status \in Statuses, Row(c, status), NEW d \in Changes
  PROVE  Kept(d)
<1>1. change[c] \in Rows /\ change'[c] = [change[c] EXCEPT !.status = status]
      /\ (d # c => change'[d] = change[d])
  BY RowMoves DEF Claims, ChangeTypeOK
<1>2. CASE d = c
  BY <1>1, <1>2 DEF Kept, Rows, Undecided
<1>3. CASE d # c
  BY <1>1, <1>3 DEF Kept
<1>4. QED  BY <1>2, <1>3

LEMMA EveryRowKept ==
  ASSUME Claims, [ChangeNext]_changeVars, NEW d \in Changes
  PROVE  Kept(d)
<1>1. CASE UNCHANGED change
  BY <1>1 DEF Kept
<1>2. ASSUME NEW w \in Workers, ReserveChange(w) PROVE Kept(d)
  BY <1>2 DEF ReserveChange, MayReserveChange, Kept, Claims, ChangeTypeOK
<1>3. ASSUME NEW w \in Workers, NEW c \in Changes, ClaimChange(w, c) PROVE Kept(d)
  BY <1>3, OpenRowKept DEF ClaimChange, Claimable, Claims, OneOpenChange, Statuses
<1>4. ASSUME NEW w \in Workers, ChangeApplied(w) \/ ChangeRejected(w) PROVE Kept(d)
  BY <1>4, OpenRowKept DEF ChangeApplied, ChangeRejected, MayDecide, Subject, Undecided, Statuses,
                           Claims, WorkersKnow
<1>5. ASSUME NEW w \in Workers, Uncertain(w) PROVE Kept(d)
  <2>1. worker[w].change \in Changes /\ change[worker[w].change].status = "applying"
    BY <1>5 DEF Uncertain, Claims, WorkersKnow, ClaimsAreExclusive, Holds
  <2>2. QED  BY <1>5, <2>1, UncertainKeeps, OpenRowKept DEF Undecided, Statuses
<1>6. QED
  BY <1>1, <1>2, <1>3, <1>4, <1>5, AroundKeeps
     DEF ChangeNext, Around, changeVars, Submit, Begin, Handle, Look, Quote, FenceAgain, Abandon,
         Reply, Observe, ResizeDone, ResizeOpen, ResizeRefused, Check, Decide, DecisionFails, Dies

\* A verdict is final and the terms of a change are fixed when it is filed,
\* whoever retries it (Retry, finishChange).
THEOREM VerdictsAreFinal == ChangeSpec => DecisionsStand
<1>1. Claims /\ [ChangeNext]_changeVars => [\A c \in Changes : Kept(c)]_changeVars
  BY EveryRowKept
<1>2. QED  BY <1>1, ClaimsHold, PTL DEF ChangeSpec, DecisionsStand, Kept

-----------------------------------------------------------------------------
(* Handlers.                                                               *)

LEMMA HandedOn ==
  ASSUME Claims, ApplyingIsHeld, NEW w \in Workers, NEW x, worker' = [worker EXCEPT ![w] = x],
         UNCHANGED broken, NEW c \in Changes, change[c].status = "applying",
         Holds(w, c) => x.change = c /\ x.at \in Applying
  PROVE  Held(c)' \/ broken'
<1>1. CASE broken  BY <1>1
<1>2. CASE ~broken
  <2>1. PICK v \in Workers : Holds(v, c)
    BY <1>2 DEF ApplyingIsHeld, Held
  <2>2. worker'[w] = x /\ (v # w => worker'[v] = worker[v])
    BY DEF Claims, ChangeTypeOK
  <2>3. Holds(v, c)'
    BY <2>1, <2>2 DEF Holds
  <2>4. QED  BY <2>3 DEF Held
<1>3. QED  BY <1>1, <1>2

\* A change that is being applied stays in the hands of its handler, unless
\* that one dies.
LEMMA HeldStep ==
  ASSUME Claims, ApplyingIsHeld, [ChangeNext]_changeVars
  PROVE  ApplyingIsHeld'
<1> SUFFICES ASSUME NEW c \in Changes, change'[c].status = "applying"
             PROVE  Held(c)' \/ broken'
  BY DEF ApplyingIsHeld
<1>1. CASE UNCHANGED <<change, worker, broken>>
  BY <1>1 DEF ApplyingIsHeld, Held, Holds
<1>2. ASSUME NEW w \in Workers, NEW from \in Steps, NEW to \in Steps, Goes(w, from, to),
             UNCHANGED <<change, broken>>,
             (to \in {"quote", "fenced"} /\ from \in {"look", "reserve"}) \/ to \in Applying
      PROVE  Held(c)' \/ broken'
  <2> DEFINE x == [worker[w] EXCEPT !.at = to]
  <2>1. x.at = to /\ x.change = worker[w].change
    BY DEF Claims, ChangeTypeOK, Handlers
  <2>2. worker' = [worker EXCEPT ![w] = x] /\ worker[w].at = from
    BY <1>2 DEF Goes
  <2>3. Holds(w, c) => x.change = c /\ x.at \in Applying
    BY <1>2, <2>1, <2>2 DEF Holds
  <2>4. change[c].status = "applying"
    BY <1>2
  <2> HIDE DEF x
  <2>5. QED  BY <1>2, <2>2, <2>3, <2>4, HandedOn
<1>3. ASSUME NEW w \in Workers, Look(w) \/ Quote(w) \/ FenceAgain(w) \/ Abandon(w)
      PROVE  Held(c)' \/ broken'
  <2>1. worker[w].at \notin Applying /\ UNCHANGED <<change, broken>>
    BY <1>3 DEF Look, Quote, FenceAgain, Abandon, Goes
  <2>2. PICK x : worker' = [worker EXCEPT ![w] = x]
    BY <1>3 DEF Look, Quote, FenceAgain, Abandon, Goes, Ends
  <2>3. QED  BY <2>1, <2>2, HandedOn DEF Holds
<1>4. ASSUME NEW w \in Workers, NEW d \in Changes, NEW to \in Specs, Begin(w, d, to)
      PROVE  Held(c)' \/ broken'
  <2>1. worker[w].at \notin Applying /\ UNCHANGED <<change, broken>>
    BY <1>4 DEF Begin, Idle
  <2>2. PICK x : worker' = [worker EXCEPT ![w] = x]
    BY <1>4 DEF Begin
  <2>3. QED  BY <2>1, <2>2, HandedOn DEF Holds
<1>5. ASSUME NEW w \in Workers, ReserveChange(w) PROVE Held(c)' \/ broken'
  <2>1. PICK x : worker' = [worker EXCEPT ![w] = x]
    BY <1>5 DEF ReserveChange
  <2>2. ~Holds(w, c) /\ UNCHANGED broken
    BY <1>5 DEF ReserveChange, Holds
  <2>3. change[c].status = "applying"
    <3>1. worker[w].quoted \in Rows /\ change \in [Changes -> Rows]
      BY DEF Claims, ChangeTypeOK, Handlers
    <3>2. [worker[w].quoted EXCEPT !.status = "reserved"].status = "reserved"
      BY <3>1 DEF Rows
    <3>3. QED  BY <1>5, <3>1, <3>2 DEF ReserveChange
  <2>4. QED  BY <2>1, <2>2, <2>3, HandedOn
<1>6. ASSUME NEW w \in Workers, NEW d \in Changes, ClaimChange(w, d)
      PROVE  Held(c)' \/ broken'
  <2> DEFINE x == [Idle EXCEPT !.at = "observe", !.change = d,
                               !.first = (change[d].status = "reserved")]
  <2>1. x.at = "observe" /\ x.change = d /\ worker' = [worker EXCEPT ![w] = x]
    BY <1>6, Unclaimed DEF ClaimChange, Handlers
  <2> HIDE DEF x
  <2>2. CASE d = c
    <3>1. worker'[w] = x  BY <2>1 DEF Claims, ChangeTypeOK
    <3>2. Holds(w, c)'  BY <2>1, <2>2, <3>1 DEF Holds
    <3>3. QED  BY <3>2 DEF Held
  <2>3. CASE d # c
    <3>1. change[c].status = "applying" /\ UNCHANGED broken
      BY <1>6, <2>3, RowMoves DEF ClaimChange, Statuses
    <3>2. ~Holds(w, c)
      BY <1>6, <2>3 DEF ClaimChange, Holds, Idle
    <3>3. QED  BY <2>1, <3>1, <3>2, HandedOn
  <2>4. QED  BY <2>2, <2>3
<1>7. ASSUME NEW w \in Workers, Reply(w) \/ DecisionFails(w) PROVE Held(c)' \/ broken'
  <2>1. UNCHANGED <<change, broken>>
    BY <1>7 DEF Reply, Observe, ResizeDone, ResizeOpen, ResizeRefused, Check, DecisionFails
  <2>2. PICK from \in Steps, to \in Applying : Goes(w, from, to)
    BY <1>7 DEF Reply, Observe, VerdictOfSight, ResizeDone, ResizeOpen, ResizeRefused, Refusal,
                Check, DecisionFails, Steps
  <2>3. QED  BY <1>2, <2>1, <2>2 DEF Steps
<1>8. ASSUME NEW w \in Workers, ChangeApplied(w) \/ ChangeRejected(w) \/ Uncertain(w)
      PROVE  Held(c)' \/ broken'
  <2>1. PICK d \in Changes : worker[w].change = d
    BY <1>8 DEF ChangeApplied, ChangeRejected, Uncertain, Claims, WorkersKnow
  <2>2. PICK status \in {"applied", "failed", "uncertain"} : Row(d, status)
    BY <1>8, <2>1, UncertainKeeps DEF ChangeApplied, ChangeRejected
  <2>3. c # d /\ change[c].status = "applying"
    BY <2>2, RowMoves DEF Statuses
  <2>4. ~Holds(w, c) /\ worker' = [worker EXCEPT ![w] = Idle] /\ UNCHANGED broken
    BY <1>8, <2>1, <2>3 DEF ChangeApplied, ChangeRejected, Uncertain, Ends, Holds
  <2>5. QED  BY <2>3, <2>4, HandedOn
<1>9. ASSUME NEW w \in Workers, Dies(w) PROVE Held(c)' \/ broken'
  BY <1>9 DEF Dies
<1>10. QED
  BY <1>1, <1>3, <1>4, <1>5, <1>6, <1>7, <1>8, <1>9, AroundKeeps
     DEF ChangeNext, Around, changeVars, Submit, Handle, Decide

\* No handler that lives leaves a change to itself for the two hours of the
\* lease (uncertain, finishChange).
THEOREM ClaimsAreNotLost == ChangeSpec => []ApplyingIsHeld
<1>1. ChangeInit => ApplyingIsHeld
  BY DEF ChangeInit, ApplyingIsHeld, Unfiled
<1>2. QED  BY <1>1, HeldStep, ClaimsHold, PTL DEF ChangeSpec

-----------------------------------------------------------------------------
(* The machine.                                                            *)

Effects == NothingSent /\ OneMoves /\ MachineMatches
Inv == Claims /\ Effects

\* Who holds a claim holds it on the open change, and alone.
LEMMA HoldsOpen ==
  ASSUME Claims, NEW w \in Workers, worker[w].at \in Applying
  PROVE  /\ worker[w].change \in Changes /\ service.pending = worker[w].change
         /\ change[worker[w].change].status = "applying"
         /\ \A v \in Workers : worker[v].at \in Applying => v = w
<1>1. /\ \A v \in Workers : worker[v].at \in Applying =>
            worker[v].change \in Changes /\ Holds(v, worker[v].change)
      /\ \A v \in Workers, c \in Changes : Holds(v, c) => service.pending = c
  BY DEF Claims, WorkersKnow, Holds, ClaimsAreExclusive, OneOpenChange, Undecided
<1>2. QED  BY <1>1 DEF Claims, ClaimsAreExclusive, Holds

\* A row that changes its status keeps its target.
LEMMA RowTerms ==
  ASSUME Claims, NEW c \in Changes, NEW status \in Statuses, Row(c, status)
  PROVE  /\ change'[c].status = status /\ \A d \in Changes \ {c} : change'[d] = change[d]
         /\ \A d \in Changes : change'[d].to = change[d].to
<1>1. \A r \in Rows : [r EXCEPT !.status = status].to = r.to
  BY DEF Rows
<1>2. change[c] \in Rows
  BY DEF Claims, ChangeTypeOK
<1>3. change'[c].to = change[c].to
  BY <1>1, <1>2, RowMoves
<1>4. QED  BY <1>3, RowMoves

\* A handler that moves, and no order: its new step must be in its right.
LEMMA QuietMove ==
  ASSUME Inv, NEW w \in Workers, NEW x \in Handlers, worker' = [worker EXCEPT ![w] = x],
         UNCHANGED <<service, change, machine, sent, done>>,
         x.at = "rejected" \/ (x.at = "observe" /\ x.first) => x.change \notin sent \cup done,
         x.at = "resize" => service.spec # change[x.change].to,
         x.at = "applied" => machine.spec = change[x.change].to
  PROVE  Effects'
<1>1. worker'[w] = x /\ \A v \in Workers \ {w} : worker'[v] = worker[v]
  BY DEF Inv, Claims, ChangeTypeOK
<1>2. NothingSent'  BY <1>1 DEF Inv, Effects, NothingSent
<1>3. OneMoves'  BY <1>1 DEF Inv, Effects, OneMoves
<1>4. MachineMatches'  BY DEF Inv, Effects, MachineMatches
<1>5. QED  BY <1>2, <1>3, <1>4 DEF Effects

LEMMA QuietGoing ==
  ASSUME Inv, NEW w \in Workers, NEW from \in Steps, NEW to \in Steps, Goes(w, from, to),
         to # "observe", UNCHANGED <<service, change, machine, sent, done>>,
         to = "rejected" => worker[w].change \notin sent \cup done,
         to = "resize" => service.spec # change[worker[w].change].to,
         to = "applied" => machine.spec = change[worker[w].change].to
  PROVE  Effects'
<1> DEFINE x == [worker[w] EXCEPT !.at = to]
<1>1. x \in Handlers /\ x.at = to /\ x.change = worker[w].change
  BY DEF Inv, Claims, ChangeTypeOK, Handlers
<1>2. worker' = [worker EXCEPT ![w] = x]
  BY DEF Goes
<1> HIDE DEF x
<1>3. QED  BY <1>1, <1>2, QuietMove

LEMMA QuietEnd ==
  ASSUME Inv, NEW w \in Workers, Ends(w), UNCHANGED <<service, change, machine, sent, done>>
  PROVE  Effects'
<1>1. Idle.at = "idle"  BY DEF Idle
<1>2. QED  BY <1>1, Unclaimed, QuietMove DEF Ends

\* An order of the open change is carried out.
LEMMA OrderLands ==
  ASSUME Inv, NEW c \in Changes, service.pending = c, change[c].status \notin {"none", "reserved", "failed"},
         service.spec # change[c].to, CarryOut(c), UNCHANGED <<service, change>>,
         \A v \in Workers : worker'[v].change = c =>
             worker'[v].at # "rejected" /\ ~(worker'[v].at = "observe" /\ worker'[v].first),
         \A v \in Workers : worker'[v].at \in {"observe", "rejected", "resize", "applied"} => worker'[v] = worker[v]
  PROVE  Effects'
<1>1. machine.spec = IF c \in done THEN change[c].to ELSE service.spec
  BY DEF Inv, Effects, OneMoves
<1>2. machine'.spec = change[c].to
  BY <1>1 DEF CarryOut, Inv, Claims, ChangeTypeOK
<1>3. done' = done \cup {c} /\ sent' = sent \ {c}
  BY DEF CarryOut
<1>4. \A v \in Workers : worker[v].at = "applied" => change[worker[v].change].to = change[c].to
  BY HoldsOpen DEF Inv
<1>5. NothingSent'  BY <1>3 DEF Inv, Effects, NothingSent
<1>6. OneMoves'  BY <1>2, <1>3, <1>4 DEF Inv, Effects, OneMoves
<1>7. MachineMatches'
  <2>1. c # NoChange  BY SpecAssumption
  <2>2. QED  BY <2>1 DEF MachineMatches
<1>8. QED  BY <1>5, <1>6, <1>7 DEF Effects

LEMMA FilingEffects ==
  ASSUME Inv, NEW w \in Workers,
         Look(w) \/ Quote(w) \/ FenceAgain(w) \/ Abandon(w) \/ Dies(w)
         \/ \E c \in Changes, to \in Specs : Begin(w, c, to)
  PROVE  Effects'
<1>1. UNCHANGED <<service, change, machine, sent, done>>
  BY DEF Look, Quote, FenceAgain, Abandon, Dies, Begin
<1>2. CASE Abandon(w) \/ Dies(w)
  BY <1>1, <1>2, QuietEnd DEF Abandon, Dies
<1>3. CASE FenceAgain(w)
  BY <1>1, <1>3, QuietGoing DEF FenceAgain, Steps
<1>4. CASE Look(w) \/ Quote(w) \/ \E c \in Changes, to \in Specs : Begin(w, c, to)
  <2>1. Claims'
    BY <1>4, HandlingKeeps, BeginKeeps DEF Inv
  <2>2. PICK x : worker' = [worker EXCEPT ![w] = x]
    BY <1>4 DEF Look, Quote, Begin
  <2>3. worker'[w] = x /\ x \in Handlers
    BY <2>1, <2>2 DEF Inv, Claims, ChangeTypeOK
  <2>4. x.at \in {"look", "quote", "reserve"}
    <3>0. worker[w] \in Handlers
      BY DEF Inv, Claims, ChangeTypeOK
    <3>1. \A h \in Handlers, to \in Steps : \A q : [h EXCEPT !.at = to, !.quoted = q].at = to
      BY DEF Handlers
    <3>2. CASE Look(w)
      <4>1. PICK q : worker' = [worker EXCEPT ![w] = [worker[w] EXCEPT !.at = "quote", !.quoted = q]]
        BY <3>2 DEF Look
      <4>2. [worker[w] EXCEPT !.at = "quote", !.quoted = q].at = "quote"
        BY <3>0, <3>1 DEF Steps
      <4>3. worker'[w] = [worker[w] EXCEPT !.at = "quote", !.quoted = q]
        BY <4>1 DEF Inv, Claims, ChangeTypeOK
      <4>4. QED  BY <2>3, <4>2, <4>3
    <3>3. CASE Quote(w)
      <4>1. PICK q : worker' = [worker EXCEPT ![w] = [worker[w] EXCEPT !.at = "reserve", !.quoted = q]]
        BY <3>3 DEF Quote
      <4>2. [worker[w] EXCEPT !.at = "reserve", !.quoted = q].at = "reserve"
        BY <3>0, <3>1 DEF Steps
      <4>3. worker'[w] = [worker[w] EXCEPT !.at = "reserve", !.quoted = q]
        BY <4>1 DEF Inv, Claims, ChangeTypeOK
      <4>4. QED  BY <2>3, <4>2, <4>3
    <3>4. CASE \E c \in Changes, to \in Specs : Begin(w, c, to)
      <4>0. PICK c \in Changes, to \in Specs : Begin(w, c, to)
        BY <3>4
      <4> DEFINE h == [Idle EXCEPT !.at = "look", !.change = c, !.active = service.active,
                         !.expires = service.expires, !.product = Product[service.spec],
                         !.quoted = [Unfiled EXCEPT !.to = to]]
      <4>1. worker' = [worker EXCEPT ![w] = h] /\ h.at = "look"
        BY <4>0, Unclaimed DEF Begin, Handlers
      <4>2. worker'[w] = h
        BY <4>1 DEF Inv, Claims, ChangeTypeOK
      <4>3. QED  BY <2>3, <4>1, <4>2
    <3>5. QED  BY <1>4, <3>2, <3>3, <3>4
  <2>5. QED  BY <1>1, <2>2, <2>3, <2>4, QuietMove
<1>5. QED  BY <1>2, <1>3, <1>4

LEMMA ReserveEffects ==
  ASSUME Inv, NEW w \in Workers, ReserveChange(w)
  PROVE  Effects'
<1>0. PICK c \in Changes : worker[w].change = c
  BY DEF ReserveChange, Inv, Claims, WorkersKnow
<1>1. /\ service.pending = NoChange /\ change[c].status = "none" /\ c # NoChange
      /\ UNCHANGED <<machine, sent, done>>
  BY <1>0, SpecAssumption DEF ReserveChange, MayReserveChange
<1>2. /\ service'.pending = c /\ service'.spec = service.spec
      /\ \A d \in Changes \ {c} : change'[d] = change[d]
  BY <1>0 DEF ReserveChange, Inv, Claims, ChangeTypeOK
<1>3. /\ worker'[w].at = "claim" /\ worker'[w].change = c
      /\ \A v \in Workers \ {w} : worker'[v] = worker[v]
  BY <1>0, Unclaimed DEF ReserveChange, Inv, Claims, ChangeTypeOK, Handlers
<1>4. c \notin sent \cup done /\ machine.spec = service.spec /\ sent = {}
  BY <1>1 DEF Inv, Claims, ChangeTypeOK, Effects, NothingSent, OneMoves, MachineMatches
<1>5. \A v \in Workers : worker[v].at \notin Applying
  BY <1>1, HoldsOpen DEF Inv
<1>6. NothingSent'
  BY <1>1, <1>2, <1>3, <1>4, <1>5 DEF Inv, Effects, NothingSent
<1>7. OneMoves'
  BY <1>1, <1>2, <1>3, <1>4, <1>5 DEF Inv, Effects, OneMoves
<1>8. MachineMatches'
  BY <1>1, <1>2 DEF MachineMatches
<1>9. QED  BY <1>6, <1>7, <1>8 DEF Effects

LEMMA ClaimEffects ==
  ASSUME Inv, NEW w \in Workers, NEW c \in Changes, ClaimChange(w, c)
  PROVE  Effects'
<1> DEFINE x == [Idle EXCEPT !.at = "observe", !.change = c,
                             !.first = (change[c].status = "reserved")]
<1>1. /\ x.at = "observe" /\ x.change = c /\ (x.first => change[c].status = "reserved")
      /\ worker' = [worker EXCEPT ![w] = x]
  BY Unclaimed DEF ClaimChange, Handlers
<1> HIDE DEF x
<1>2. worker'[w] = x /\ \A v \in Workers \ {w} : worker'[v] = worker[v]
  BY <1>1 DEF Inv, Claims, ChangeTypeOK
<1>3. service.pending = c /\ UNCHANGED <<service, machine, sent, done>>
  BY DEF ClaimChange, Claimable
<1>4. /\ change'[c].status = "applying" /\ \A d \in Changes \ {c} : change'[d] = change[d]
      /\ \A d \in Changes : change'[d].to = change[d].to
  BY RowTerms DEF ClaimChange, Inv, Statuses
<1>5. \A v \in Workers : worker[v].at # "idle" => worker[v].change \in Changes
  BY DEF Inv, Claims, WorkersKnow
<1>6. NothingSent'
  BY <1>1, <1>2, <1>3, <1>4 DEF Inv, Effects, NothingSent
<1>7. OneMoves'
  BY <1>1, <1>2, <1>3, <1>4, <1>5 DEF Inv, Effects, OneMoves
<1>8. MachineMatches'
  BY <1>3, SpecAssumption DEF MachineMatches
<1>9. QED  BY <1>6, <1>7, <1>8 DEF Effects

LEMMA ReplyEffects ==
  ASSUME Inv, NEW w \in Workers, Reply(w) \/ DecisionFails(w)
  PROVE  Effects'
<1>0. worker[w].at \in Applying /\ worker[w] \in Handlers
  BY DEF Reply, Observe, ResizeDone, ResizeOpen, ResizeRefused, Refusal, Check, DecisionFails, Goes,
         Inv, Claims, ChangeTypeOK
<1>1. PICK c \in Changes : worker[w].change = c
  BY <1>0, HoldsOpen DEF Inv
<1>2. /\ service.pending = c /\ change[c].status = "applying"
      /\ \A v \in Workers : worker[v].at \in Applying => v = w
  BY <1>0, <1>1, HoldsOpen DEF Inv
<1>3. machine.spec = (IF c \in done THEN change[c].to ELSE service.spec)
      /\ (c \in sent \cup done => service.spec # change[c].to)
  BY <1>2 DEF Inv, Effects, OneMoves
<1>4. CASE Observe(w)
  <2>1. CASE Goes(w, "observe", "uncertain")
    BY <1>4, <2>1, QuietGoing DEF Observe, Steps
  <2>2. CASE Goes(w, "observe", VerdictOfSight(w))
    <3>1. CASE VerdictOfSight(w) = "applied" /\ machine.spec = change[c].to
      BY <1>1, <1>4, <2>2, <3>1, QuietGoing DEF Observe, Steps
    <3>2. CASE VerdictOfSight(w) = "uncertain"
      BY <1>4, <2>2, <3>2, QuietGoing DEF Observe, Steps
    <3>3. CASE VerdictOfSight(w) = "resize" /\ machine.spec # change[c].to
      BY <1>1, <1>3, <1>4, <2>2, <3>3, QuietGoing DEF Observe, Steps
    <3>4. CASE VerdictOfSight(w) = "rejected" /\ worker[w].first
      <4>1. c \notin sent \cup done
        BY <1>1, <2>2, <3>4 DEF Goes, Inv, Effects, NothingSent
      <4>2. QED  BY <1>1, <1>4, <2>2, <3>4, <4>1, QuietGoing DEF Observe, Steps
    <3>5. QED  BY <1>1, <3>1, <3>2, <3>3, <3>4 DEF VerdictOfSight, Subject
  <2>3. QED  BY <1>4, <2>1, <2>2 DEF Observe
<1>5. CASE ResizeRefused(w)
  BY <1>5, QuietGoing DEF ResizeRefused, Refusal, Steps
<1>6. CASE Check(w)
  BY <1>6, QuietGoing DEF Check, Subject, Steps
<1>7. CASE DecisionFails(w)
  BY <1>7, QuietGoing DEF DecisionFails, Steps
<1> DEFINE moved(to) == [worker[w] EXCEPT !.at = to]
<1>8. \A to \in Steps : moved(to).at = to /\ moved(to).change = c
  BY <1>0, <1>1 DEF Handlers
<1> HIDE DEF moved
<1>9. CASE ResizeDone(w)
  <2>1. /\ worker'[w].at = "check" /\ worker[w].at = "resize"
        /\ \A v \in Workers \ {w} : worker'[v] = worker[v]
    BY <1>8, <1>9 DEF ResizeDone, Goes, Inv, Claims, ChangeTypeOK, moved, Steps
  <2>2. service.spec # change[c].to
    BY <1>1, <2>1 DEF Inv, Effects, OneMoves
  <2>3. CarryOut(c) /\ UNCHANGED <<service, change>>
    BY <1>1, <1>9 DEF ResizeDone
  <2>4. QED  BY <1>2, <2>1, <2>2, <2>3, OrderLands
<1>10. CASE ResizeOpen(w)
  <2>1. /\ worker'[w].at \in {"check", "uncertain"} /\ worker[w].at = "resize"
        /\ \A v \in Workers \ {w} : worker'[v] = worker[v]
    BY <1>8, <1>10 DEF ResizeOpen, Goes, Inv, Claims, ChangeTypeOK, moved, Steps
  <2>2. service.spec # change[c].to
    BY <1>1, <2>1 DEF Inv, Effects, OneMoves
  <2>3. sent' = sent \cup ({c} \ done) /\ UNCHANGED <<service, change, machine, done>>
    BY <1>1, <1>10 DEF ResizeOpen
  <2>4. NothingSent'
    BY <1>2, <2>1, <2>3 DEF Inv, Effects, NothingSent
  <2>5. OneMoves'
    BY <1>2, <1>3, <2>1, <2>2, <2>3 DEF Inv, Effects, OneMoves
  <2>6. MachineMatches'
    BY <2>3 DEF Inv, Effects, MachineMatches
  <2>7. QED  BY <2>4, <2>5, <2>6 DEF Effects
<1>11. QED  BY <1>4, <1>5, <1>6, <1>7, <1>9, <1>10 DEF Reply

\* The verdict on the open change: what was sold is what the machine has.
LEMMA VerdictEffects ==
  ASSUME Inv, NEW w \in Workers, ChangeApplied(w) \/ ChangeRejected(w)
  PROVE  Effects'
<1>0. worker[w].at \in {"applied", "rejected"}
  BY DEF ChangeApplied, ChangeRejected
<1>1. PICK c \in Changes : worker[w].change = c
  BY <1>0, HoldsOpen DEF Inv
<1>2. /\ service.pending = c /\ change[c].status = "applying"
      /\ \A v \in Workers : worker[v].at \in Applying => v = w
  BY <1>0, <1>1, HoldsOpen DEF Inv
<1>3. /\ machine.spec = (IF c \in done THEN change[c].to ELSE service.spec)
      /\ c \in sent \cup done => service.spec # change[c].to
      /\ sent \subseteq {c} /\ sent \cap done = {}
  BY <1>2 DEF Inv, Claims, ChangeTypeOK, Effects, OneMoves
<1>4. worker'[w].at = "idle" /\ \A v \in Workers \ {w} : worker'[v] = worker[v]
  BY DEF ChangeApplied, ChangeRejected, Ends, Idle, Inv, Claims, ChangeTypeOK
<1>5. UNCHANGED <<machine, sent, done>>
  BY DEF ChangeApplied, ChangeRejected
<1>6. \A v \in Workers : worker'[v].at \notin Applying
  BY <1>2, <1>4
<1>7. CASE ChangeApplied(w)
  <2>1. /\ change'[c].status = "applied" /\ \A d \in Changes \ {c} : change'[d] = change[d]
        /\ \A d \in Changes : change'[d].to = change[d].to
    BY <1>1, <1>7, RowTerms DEF ChangeApplied, Inv, Statuses
  <2>2. service'.pending = NoChange /\ service'.spec = change[c].to
    BY <1>1, <1>7 DEF ChangeApplied, Subject, Inv, Claims, ChangeTypeOK
  <2>3. machine.spec = change[c].to
    BY <1>1, <1>7 DEF ChangeApplied, Inv, Effects, OneMoves
  <2>4. sent = {}
    BY <1>3, <2>3
  <2>5. NothingSent'
    BY <1>5, <1>6, <2>1 DEF Inv, Effects, NothingSent
  <2>6. OneMoves'
    BY <1>5, <1>6, <2>2, <2>4 DEF OneMoves
  <2>7. MachineMatches'
    BY <1>5, <2>2, <2>3 DEF MachineMatches
  <2>8. QED  BY <2>5, <2>6, <2>7 DEF Effects
<1>8. CASE ChangeRejected(w)
  <2>1. /\ change'[c].status = "failed" /\ \A d \in Changes \ {c} : change'[d] = change[d]
        /\ \A d \in Changes : change'[d].to = change[d].to
    BY <1>1, <1>8, RowTerms DEF ChangeRejected, Inv, Statuses
  <2>2. service'.pending = NoChange /\ service'.spec = service.spec
    BY <1>8 DEF ChangeRejected, Inv, Claims, ChangeTypeOK
  <2>3. c \notin sent \cup done
    BY <1>1, <1>8 DEF ChangeRejected, Inv, Effects, NothingSent
  <2>4. sent = {} /\ machine.spec = service.spec
    BY <1>3, <2>3
  <2>5. NothingSent'
    BY <1>5, <1>6, <2>1, <2>3 DEF Inv, Effects, NothingSent
  <2>6. OneMoves'
    BY <1>5, <1>6, <2>2, <2>4 DEF OneMoves
  <2>7. MachineMatches'
    BY <1>5, <2>2, <2>4 DEF MachineMatches
  <2>8. QED  BY <2>5, <2>6, <2>7 DEF Effects
<1>9. QED  BY <1>7, <1>8

LEMMA UncertainEffects ==
  ASSUME Inv, NEW w \in Workers, Uncertain(w)
  PROVE  Effects'
<1>1. PICK c \in Changes : worker[w].change = c
  BY DEF Uncertain, Inv, Claims, WorkersKnow
<1>2. Row(c, "uncertain") /\ Holds(w, c)
  BY <1>1, UncertainKeeps DEF Inv
<1>3. /\ change'[c].status = "uncertain" /\ \A d \in Changes \ {c} : change'[d] = change[d]
      /\ \A d \in Changes : change'[d].to = change[d].to
  BY <1>2, RowTerms DEF Inv, Statuses
<1>4. worker'[w].at = "idle" /\ \A v \in Workers \ {w} : worker'[v] = worker[v]
  BY DEF Uncertain, Ends, Idle, Inv, Claims, ChangeTypeOK
<1>5. UNCHANGED <<service, machine, sent, done>>
  BY DEF Uncertain
<1>6. \A v \in Workers : worker[v].at # "idle" => worker[v].change \in Changes
  BY DEF Inv, Claims, WorkersKnow
<1>7. NothingSent'
  BY <1>3, <1>4, <1>5 DEF Inv, Effects, NothingSent
<1>8. OneMoves'
  BY <1>3, <1>4, <1>5, <1>6 DEF Inv, Effects, OneMoves
<1>9. MachineMatches'
  BY <1>5 DEF Inv, Effects, MachineMatches
<1>10. QED  BY <1>7, <1>8, <1>9 DEF Effects

LEMMA AroundEffects ==
  ASSUME Inv, Around
  PROVE  Effects'
<1>1. UNCHANGED <<change, worker>> /\ service'.pending = service.pending
      /\ service'.spec = service.spec
  BY AroundKeeps DEF Inv
<1>2. ASSUME NEW c \in Changes, Land(c) PROVE Effects'
  <2>1. c \in sent /\ CarryOut(c) /\ UNCHANGED service
    BY <1>2 DEF Land
  <2>2. service.pending = c /\ service.spec # change[c].to
    BY <2>1 DEF Inv, Effects, OneMoves
  <2>3. change[c].status \notin {"none", "reserved", "failed"}
    BY <2>1 DEF Inv, Effects, NothingSent
  <2>4. \A v \in Workers : worker[v].change = c =>
            worker[v].at # "rejected" /\ ~(worker[v].at = "observe" /\ worker[v].first)
    BY <2>1 DEF Inv, Effects, NothingSent
  <2>5. QED  BY <1>1, <2>1, <2>2, <2>3, <2>4, OrderLands
<1>3. CASE ~ \E c \in Changes : Land(c)
  <2>1. UNCHANGED <<sent, done>> /\ machine'.spec = machine.spec
    BY <1>3 DEF Around, OfferRenewal, OfferDropped, RenewNow, InvoicePaid, IntentPaid,
         BuyFromWallet, BuyTime, Power, SwitchService, Inv, Claims, ChangeTypeOK
  <2>2. NothingSent'  BY <1>1, <2>1 DEF Inv, Effects, NothingSent
  <2>3. OneMoves'  BY <1>1, <2>1 DEF Inv, Effects, OneMoves
  <2>4. MachineMatches'  BY <1>1, <2>1 DEF Inv, Effects, MachineMatches
  <2>5. QED  BY <2>2, <2>3, <2>4 DEF Effects
<1>4. QED  BY <1>2, <1>3

LEMMA InvStep == ASSUME Inv, [ChangeNext]_changeVars PROVE Inv'
<1>1. Claims'
  BY ClaimsStep DEF Inv
<1>2. CASE UNCHANGED changeVars
  <2>1. Effects'
    BY <1>2 DEF changeVars, Inv, Effects, NothingSent, OneMoves, MachineMatches
  <2>2. QED  BY <1>1, <2>1 DEF Inv
<1>3. ASSUME NEW w \in Workers, NEW c \in Changes, Submit(w, c) PROVE Effects'
  BY <1>3, FilingEffects, ClaimEffects DEF Submit
<1>4. ASSUME NEW w \in Workers, Handle(w) \/ Reply(w) \/ Decide(w) \/ Dies(w) PROVE Effects'
  BY <1>4, FilingEffects, ReserveEffects, ReplyEffects, VerdictEffects, UncertainEffects
     DEF Handle, Decide
<1>5. ASSUME Around PROVE Effects'
  BY <1>5, AroundEffects
<1>6. CASE ChangeNext
  <2>1. Effects'  BY <1>3, <1>4, <1>5, <1>6 DEF ChangeNext, Around
  <2>2. QED  BY <1>1, <2>1 DEF Inv
<1>7. QED  BY <1>2, <1>6

LEMMA InvHolds == ChangeSpec => []Inv
<1>1. ChangeInit => Inv
  <2> SUFFICES ASSUME ChangeInit PROVE Inv  OBVIOUS
  <2>1. \A w \in Workers : worker[w] = Idle /\ Idle.at = "idle"
    BY DEF ChangeInit, Idle
  <2>2. sent = {} /\ done = {} /\ service.pending = NoChange /\ service.spec = machine.spec
    BY DEF ChangeInit
  <2>3. NothingSent  BY <2>1, <2>2 DEF NothingSent
  <2>4. OneMoves  BY <2>1, <2>2 DEF OneMoves
  <2>5. MachineMatches  BY <2>2 DEF MachineMatches
  <2>6. QED  BY <2>3, <2>4, <2>5, ClaimsInit DEF Inv, Effects
<1>2. QED  BY <1>1, InvStep, PTL DEF ChangeSpec

\* A change that is turned down and paid back never reaches the machine, by any
\* retry or late order (Retry, reject).
THEOREM FailedNeverHappens == ChangeSpec => []FailedIsUndone
<1>1. Inv => FailedIsUndone  BY DEF Inv, Effects, NothingSent, FailedIsUndone
<1>2. QED  BY <1>1, InvHolds, PTL

\* With no change open the machine is what the service row says (Retry).
THEOREM SoldIsDelivered == ChangeSpec => []MachineMatches
<1>1. Inv => MachineMatches  BY DEF Inv, Effects
<1>2. QED  BY <1>1, InvHolds, PTL

-----------------------------------------------------------------------------
(* Renewals, when no transaction overlaps another (one connection).        *)

LEMMA OffersStep ==
  ASSUME Serial, Claims, OffersCurrent, [ChangeNext]_changeVars
  PROVE  OffersCurrent'
<1>1. CASE UNCHANGED <<service, offers>>
  BY <1>1 DEF OffersCurrent
<1>2. ASSUME NEW w \in Workers, ReserveChange(w) PROVE OffersCurrent'
  BY <1>2 DEF ReserveChange, MayReserveChange, Fenced, OffersCurrent
<1>3. ASSUME NEW w \in Workers, ChangeApplied(w) \/ ChangeRejected(w) PROVE OffersCurrent'
  <2>1. service.pending \in Changes /\ UNCHANGED offers
    BY <1>3 DEF ChangeApplied, ChangeRejected, MayDecide, Claims, WorkersKnow
  <2>2. QED  BY <2>1 DEF OffersCurrent
<1>4. ASSUME NEW k \in Offers, OfferRenewal(k) \/ OfferDropped(k) PROVE OffersCurrent'
  BY <1>4 DEF OfferRenewal, OfferDropped, OffersCurrent, Claims, ChangeTypeOK
<1>5. CASE RenewNow \/ InvoicePaid \/ IntentPaid \/ SwitchService
  <2>1. service'.price = service.price /\ service'.pending = service.pending
    BY <1>5 DEF RenewNow, InvoicePaid, IntentPaid, BuyFromWallet, BuyTime, SwitchService,
                Claims, ChangeTypeOK
  <2>2. \A k \in Offers : offers'[k] # 0 => offers'[k] = offers[k]
    BY <1>5 DEF RenewNow, InvoicePaid, IntentPaid, SwitchService, Claims, ChangeTypeOK, Offers
  <2>3. QED  BY <2>1, <2>2 DEF OffersCurrent
<1>6. QED
  BY <1>1, <1>2, <1>3, <1>4, <1>5
     DEF ChangeNext, changeVars, Submit, Begin, ClaimChange, Handle, Look, Quote, FenceAgain, Abandon,
         Reply, Observe, ResizeDone, ResizeOpen, ResizeRefused, Check, Decide, DecisionFails,
         Uncertain, Dies, Land, Power

InForce ==
    service'.expires > service.expires =>
        /\ service.pending = NoChange
        /\ \E from \in DOMAIN renewals :
              renewals' = [renewals EXCEPT ![from] = renewals[from] + service.price]

LEMMA TimeIsBought ==
  ASSUME Claims, OffersCurrent, [ChangeNext]_changeVars
  PROVE  InForce
<1> SUFFICES ASSUME service'.expires > service.expires PROVE InForce  BY DEF InForce
<1>1. RenewNow \/ InvoicePaid \/ IntentPaid
  <2>1. service.expires \in Nat /\ service'.expires # service.expires
    BY DEF Claims, ChangeTypeOK
  <2>2. \A w \in Workers : ~ReserveChange(w) /\ ~ChangeApplied(w) /\ ~ChangeRejected(w)
    BY <2>1 DEF ReserveChange, ChangeApplied, ChangeRejected, Claims, ChangeTypeOK
  <2>3. ~SwitchService
    BY <2>1 DEF SwitchService, Claims, ChangeTypeOK
  <2>4. service' # service
    BY <2>1
  <2>5. QED
    BY <2>2, <2>3, <2>4
       DEF ChangeNext, changeVars, Submit, Begin, ClaimChange, Handle, Look, Quote, FenceAgain,
           Abandon, Reply, Observe, ResizeDone, ResizeOpen, ResizeRefused, Check, Decide,
           DecisionFails, Uncertain, Dies, OfferRenewal, OfferDropped, Land, Power
<1>2. PICK from \in {"wallet", "channel"}, cents \in Nat : BuyTime(from, cents) /\ cents = service.price
  BY <1>1 DEF RenewNow, InvoicePaid, IntentPaid, BuyFromWallet, OffersCurrent, Offers,
              Claims, ChangeTypeOK
<1>3. QED  BY <1>2 DEF BuyTime, InForce, Claims, ChangeTypeOK

\* One connection keeps every renewal at the price in force, and out of an open
\* change (fenceChangeOnBilling, loadRenewableService).
THEOREM PriceInForce == Serial /\ ChangeSpec => NoOldPrice
<1> SUFFICES ASSUME Serial PROVE ChangeSpec => NoOldPrice  OBVIOUS
<1>1. ChangeInit => OffersCurrent
  BY DEF ChangeInit, OffersCurrent
<1>2. Claims /\ OffersCurrent /\ [ChangeNext]_changeVars => OffersCurrent'
  BY OffersStep
<1>3. Claims /\ OffersCurrent /\ [ChangeNext]_changeVars => [InForce]_changeVars
  BY TimeIsBought
<1>4. QED  BY <1>1, <1>2, <1>3, ClaimsHold, PTL DEF ChangeSpec, NoOldPrice, InForce
=============================================================================
