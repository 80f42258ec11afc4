---------------------------- MODULE RefundProofs ----------------------------
(***************************************************************************)
(* Proofs about Refund.tla, for any orders, amounts, number of requests    *)
(* and either fault.                                                       *)
(***************************************************************************)
EXTENDS Refund, TLAPS

USE OrderAssumption, CentsAssumption
    DEF Statuses, InProgress, Executable, rowVars, moneyVars,
        Move, Become, Total, ThroughChannel, BalancePart,
        DriversHoldClaim, OneDriver, NothingSpentYet

MoneyRight == ChannelPaysOnce /\ WalletCreditedOnce /\ RefundedTogether

\* A step that moves no money and refunds no request keeps the books.
LEMMA BooksKept ==
  ASSUME IInv, UNCHANGED <<order, repaid, credited, of>>,
         \A r \in Requests : request'[r] = "refunded" <=> request[r] = "refunded",
         \A r \in Requests : request[r] = "refunded" => via'[r] = via[r]
  PROVE  MoneyRight'
<1>1. ChannelPaysOnce'
  BY DEF IInv, ChannelPaysOnce
<1>2. WalletCreditedOnce'
  BY DEF IInv, TypeOK, WalletCreditedOnce
<1>3. RefundedTogether'
  BY DEF IInv, TypeOK, RefundedTogether
<1>4. QED  BY <1>1, <1>2, <1>3 DEF MoneyRight

\* A step that starts no driver and moves no money keeps the claims.
LEMMA ClaimsKept ==
  ASSUME IInv, UNCHANGED moneyVars, UNCHANGED of,
         \A r \in Requests : Drives(r)' =>
            Drives(r) /\ via'[r] = via[r] /\ (step'[r] = "settling" <=> step[r] = "settling")
  PROVE  PayoutsConsistent'
BY DEF IInv, TypeOK, PayoutsConsistent

\* Filing touches one row that has no handler and no verdict yet.
LEMMA FilingKeeps ==
  ASSUME IInv, NEW r \in Requests, Filing(r)
  PROVE  IInv'
<1>1. CASE ResolveOrder(r)
  <2>1. TypeOK' /\ HandlersConsistent'
    BY <1>1 DEF ResolveOrder, IInv, TypeOK, HandlersConsistent
  <2>2. MoneyRight'
    BY <1>1, BooksKept DEF ResolveOrder, IInv, TypeOK, HandlersConsistent
  <2>3. PayoutsConsistent'
    BY <1>1, ClaimsKept DEF ResolveOrder, IInv, TypeOK, HandlersConsistent, Drives
  <2>4. QED  BY <2>1, <2>2, <2>3 DEF IInv, MoneyRight
<1>2. CASE FindPayment(r)
  <2>1. TypeOK' /\ HandlersConsistent'
    BY <1>2 DEF FindPayment, IInv, TypeOK, HandlersConsistent
  <2>2. MoneyRight'
    BY <1>2, BooksKept DEF FindPayment, IInv, TypeOK, HandlersConsistent
  <2>3. PayoutsConsistent'
    BY <1>2, ClaimsKept DEF FindPayment, IInv, TypeOK, HandlersConsistent, Drives
  <2>4. QED  BY <2>1, <2>2, <2>3 DEF IInv, MoneyRight
<1>3. CASE CheckDuplicates(r)
  <2>1. TypeOK' /\ HandlersConsistent'
    BY <1>3 DEF CheckDuplicates, IInv, TypeOK, HandlersConsistent
  <2>2. MoneyRight'
    BY <1>3, BooksKept DEF CheckDuplicates, IInv, TypeOK, HandlersConsistent
  <2>3. PayoutsConsistent'
    BY <1>3, ClaimsKept DEF CheckDuplicates, IInv, TypeOK, HandlersConsistent, Drives
  <2>4. QED  BY <2>1, <2>2, <2>3 DEF IInv, MoneyRight
<1>4. CASE File(r)
  <2>1. TypeOK' /\ HandlersConsistent'
    BY <1>4 DEF File, IInv, TypeOK, HandlersConsistent
  <2>2. MoneyRight'
    BY <1>4, BooksKept DEF File, IInv, TypeOK, HandlersConsistent
  <2>3. PayoutsConsistent'
    BY <1>4, ClaimsKept DEF File, IInv, TypeOK, HandlersConsistent, Drives
  <2>4. QED  BY <2>1, <2>2, <2>3 DEF IInv, MoneyRight
<1>5. QED  BY <1>1, <1>2, <1>3, <1>4
             DEF Filing

\* Staff and customers move requests that no handler executes.
LEMMA StaffKeeps ==
  ASSUME IInv, NEW r \in Requests, Staff(r)
  PROVE  IInv'
<1>1. CASE Cancel(r)
  <2>1. TypeOK' /\ HandlersConsistent'
    BY <1>1 DEF Cancel, IInv, TypeOK, HandlersConsistent
  <2>2. MoneyRight'
    BY <1>1, BooksKept DEF Cancel, IInv, TypeOK, HandlersConsistent
  <2>3. PayoutsConsistent'
    BY <1>1, ClaimsKept DEF Cancel, IInv, TypeOK, HandlersConsistent, Drives
  <2>4. QED  BY <2>1, <2>2, <2>3 DEF IInv, MoneyRight
<1>2. CASE Review(r)
  <2>1. /\ request[r] = "pending" /\ UNCHANGED <<moneyVars, rowVars, filing, step>>
        /\ request' = [request EXCEPT ![r] = "rejected"] \/ request' = [request EXCEPT ![r] = "approved"]
        /\ UNCHANGED caller \/ caller' = [caller EXCEPT ![r] = TRUE]
    BY <1>2 DEF Review
  <2>2. TypeOK' /\ HandlersConsistent'
    <3>1. step[r] = "idle" /\ filing[r] = "done"
      BY <2>1 DEF IInv, TypeOK, HandlersConsistent
    <3>2. request' \in [Requests -> Statuses] /\ caller' \in [Requests -> BOOLEAN]
      BY <2>1 DEF IInv, TypeOK
    <3>3. TypeOK'
      BY <2>1, <3>2 DEF IInv, TypeOK
    <3>4. \A q \in Requests : request'[q] # "none" <=> request[q] # "none"
      BY <2>1 DEF IInv, TypeOK
    <3>5. \A q \in Requests : caller'[q] => request'[q] # "none"
      BY <2>1, <3>4 DEF IInv, TypeOK, HandlersConsistent
    <3>6. \A q \in Requests : step'[q] # "idle" => request'[q] = "processing"
      BY <2>1, <3>1 DEF IInv, TypeOK, HandlersConsistent
    <3>7. QED  BY <2>1, <3>3, <3>4, <3>5, <3>6 DEF IInv, HandlersConsistent
  <2>3. MoneyRight'
    BY <2>1, BooksKept DEF IInv, TypeOK
  <2>4. PayoutsConsistent'
    BY <2>1, ClaimsKept DEF Drives
  <2>5. QED  BY <2>2, <2>3, <2>4 DEF IInv, MoneyRight
<1>3. CASE RetryFailed(r)
  <2>1. TypeOK' /\ HandlersConsistent'
    BY <1>3 DEF RetryFailed, IInv, TypeOK, HandlersConsistent
  <2>2. MoneyRight'
    BY <1>3, BooksKept DEF RetryFailed, IInv, TypeOK, HandlersConsistent
  <2>3. PayoutsConsistent'
    BY <1>3, ClaimsKept DEF RetryFailed, IInv, TypeOK, HandlersConsistent, Drives
  <2>4. QED  BY <2>1, <2>2, <2>3 DEF IInv, MoneyRight
<1>4. QED  BY <1>1, <1>2, <1>3
             DEF Staff

\* The claim of the payment admits one driver; only a driver moves money.
LEMMA ExecuteKeeps ==
  ASSUME IInv, NEW r \in Requests, Execute(r) \/ ChannelReply(r)
  PROVE  IInv'
<1>1. CASE ClaimRequest(r)
  <2>1. TypeOK' /\ HandlersConsistent'
    BY <1>1 DEF ClaimRequest, IInv, TypeOK, HandlersConsistent
  <2>2. MoneyRight'
    BY <1>1, BooksKept DEF ClaimRequest, IInv, TypeOK, HandlersConsistent
  <2>3. PayoutsConsistent'
    BY <1>1, ClaimsKept DEF ClaimRequest, IInv, TypeOK, HandlersConsistent, Drives
  <2>4. QED  BY <2>1, <2>2, <2>3 DEF IInv, MoneyRight
<1>2. CASE ClaimPayment(r)
  <2>1. TypeOK' /\ HandlersConsistent'
    BY <1>2 DEF ClaimPayment, IInv, TypeOK, HandlersConsistent
  <2>2. MoneyRight'
    BY <1>2, BooksKept DEF ClaimPayment, IInv, TypeOK, HandlersConsistent
  <2>3. CASE payment[of[r]] = "paid"
    <3>1. /\ payment' = [payment EXCEPT ![of[r]] = "refunding"]
          /\ step' = [step EXCEPT ![r] = "calling"]
          /\ UNCHANGED <<order, repaid, credited, of, via>> /\ ThroughChannel(r)
      BY <1>2, <2>3 DEF ClaimPayment
    <3>2. \A q \in Requests : Drives(q) => of[q] # of[r]
      BY <2>3 DEF IInv, TypeOK, PayoutsConsistent
    <3>3. \A q \in Requests : Drives(q)' => q = r \/ (Drives(q) /\ step'[q] = step[q])
      BY <3>1 DEF Drives, IInv, TypeOK
    <3>4. repaid[of[r]] = 0
      BY <2>3 DEF IInv, TypeOK, PayoutsConsistent
    <3>5. DriversHoldClaim'
      BY <3>1, <3>3, <3>4 DEF PayoutsConsistent, DriversHoldClaim, IInv, TypeOK
    <3>6. OneDriver'
      BY <3>1, <3>2, <3>3 DEF PayoutsConsistent, OneDriver, IInv, TypeOK
    <3>7. NothingSpentYet'
      BY <3>1 DEF PayoutsConsistent, NothingSpentYet, IInv, TypeOK
    <3>8. PayoutsConsistent'
      BY <3>5, <3>6, <3>7 DEF PayoutsConsistent
    <3>9. QED  BY <2>1, <2>2, <3>8 DEF IInv, MoneyRight
  <2>4. CASE payment[of[r]] # "paid"
    <3>1. UNCHANGED moneyVars /\ UNCHANGED <<of, via>> /\ step' = [step EXCEPT ![r] = "idle"]
      BY <1>2, <2>4 DEF ClaimPayment
    <3>2. \A q \in Requests : Drives(q)' => Drives(q) /\ step'[q] = step[q]
      BY <3>1 DEF Drives, IInv, TypeOK
    <3>3. PayoutsConsistent'
      BY <3>1, <3>2, ClaimsKept
    <3>4. QED  BY <2>1, <2>2, <3>3 DEF IInv, MoneyRight
  <2>5. QED  BY <2>1, <2>2, <2>3, <2>4 DEF IInv, MoneyRight
<1>3. CASE SkipChannel(r)
  <2>1. TypeOK' /\ HandlersConsistent'
    BY <1>3 DEF SkipChannel, IInv, TypeOK, HandlersConsistent
  <2>2. MoneyRight'
    BY <1>3, BooksKept DEF SkipChannel, IInv, TypeOK, HandlersConsistent
  <2>3. PayoutsConsistent'
    BY <1>3, ClaimsKept DEF SkipChannel, IInv, TypeOK, HandlersConsistent, Drives
  <2>4. QED  BY <2>1, <2>2, <2>3 DEF IInv, MoneyRight
<1>4. CASE ChannelAccepts(r)
  <2>1. TypeOK' /\ HandlersConsistent'
    BY <1>4 DEF ChannelAccepts, ChannelPays, IInv, TypeOK, HandlersConsistent
  <2>2. Drives(r) /\ repaid[of[r]] = 0 /\ payment[of[r]] = "refunding"
    BY <1>4 DEF ChannelAccepts, Drives, IInv, PayoutsConsistent
  <2>3. \A q \in Requests : of[q] = of[r] /\ request[q] = "refunded" =>
           ~(via[q] /\ Channel[of[q]] > 0)
    BY <2>2 DEF IInv, TypeOK, RefundedTogether, WalletCreditedOnce
  <2>4. MoneyRight'
    <3>1. CASE UNCHANGED repaid
      BY <1>4, <3>1, BooksKept DEF ChannelAccepts
    <3>2. CASE ChannelPays(of[r])
      BY <1>4, <2>2, <2>3, <3>2 DEF ChannelAccepts, ChannelPays, IInv, TypeOK, MoneyRight,
          ChannelPaysOnce, WalletCreditedOnce, RefundedTogether
    <3>3. QED  BY <1>4, <3>1, <3>2 DEF ChannelAccepts
  <2>5. PayoutsConsistent'
    BY <1>4, <2>2 DEF ChannelAccepts, ChannelPays, IInv, TypeOK, PayoutsConsistent, Drives
  <2>6. QED  BY <2>1, <2>4, <2>5 DEF IInv, MoneyRight
<1>5. CASE ChannelRefuses(r)
  <2>1. TypeOK' /\ HandlersConsistent'
    BY <1>5 DEF ChannelRefuses, IInv, TypeOK, HandlersConsistent
  <2>2. MoneyRight'
    BY <1>5, BooksKept DEF ChannelRefuses, IInv, TypeOK, HandlersConsistent
  <2>3. PayoutsConsistent'
    BY <1>5, ClaimsKept DEF ChannelRefuses, IInv, TypeOK, HandlersConsistent, Drives
  <2>4. QED  BY <2>1, <2>2, <2>3 DEF IInv, MoneyRight
<1>6. CASE ReplyLost(r)
  <2>1. TypeOK' /\ HandlersConsistent'
    BY <1>6 DEF ReplyLost, ChannelPays, IInv, TypeOK, HandlersConsistent
  <2>2. Drives(r) /\ repaid[of[r]] = 0 /\ payment[of[r]] = "refunding"
    BY <1>6 DEF ReplyLost, Drives, IInv, PayoutsConsistent
  <2>3. \A q \in Requests : of[q] = of[r] /\ request[q] = "refunded" =>
           ~(via[q] /\ Channel[of[q]] > 0)
    BY <2>2 DEF IInv, TypeOK, RefundedTogether, WalletCreditedOnce
  <2>4. MoneyRight'
    <3>1. CASE UNCHANGED repaid
      BY <1>6, <3>1, BooksKept DEF ReplyLost
    <3>2. CASE ChannelPays(of[r])
      BY <1>6, <2>2, <2>3, <3>2 DEF ReplyLost, ChannelPays, IInv, TypeOK, MoneyRight,
          ChannelPaysOnce, WalletCreditedOnce, RefundedTogether
    <3>3. QED  BY <1>6, <3>1, <3>2 DEF ReplyLost
  <2>5. PayoutsConsistent'
    BY <1>6, <2>2 DEF ReplyLost, ChannelPays, IInv, TypeOK, PayoutsConsistent, Drives
  <2>6. QED  BY <2>1, <2>4, <2>5 DEF IInv, MoneyRight
<1>7. CASE ReleasePayment(r)
  <2>1. TypeOK' /\ HandlersConsistent'
    BY <1>7 DEF ReleasePayment, IInv, TypeOK, HandlersConsistent
  <2>2. MoneyRight'
    BY <1>7, BooksKept DEF ReleasePayment
  <2>3. PayoutsConsistent'
    BY <1>7 DEF ReleasePayment, IInv, TypeOK, PayoutsConsistent, Drives
  <2>4. QED  BY <2>1, <2>2, <2>3 DEF IInv, MoneyRight
<1>8. CASE Settle(r)
  <2> DEFINE o == of[r]
  <2>1. TypeOK' /\ HandlersConsistent'
    BY <1>8 DEF Settle, IInv, TypeOK, HandlersConsistent
  <2>2. /\ credited[o] = 0 /\ request[r] = "processing"
        /\ \A q \in Requests : of[q] = o => request[q] # "refunded"
    BY <1>8 DEF Settle, IInv, TypeOK, HandlersConsistent, PayoutsConsistent, RefundedTogether
  <2>3. via[r] /\ Channel[o] > 0 => repaid[o] = 1
    BY <1>8 DEF Settle, IInv, PayoutsConsistent, Drives
  <2>4. MoneyRight'
    <3>1. ChannelPaysOnce'
      BY <1>8 DEF Settle, IInv, ChannelPaysOnce
    <3>2. WalletCreditedOnce'
      BY <1>8, <2>2 DEF Settle, IInv, TypeOK, WalletCreditedOnce
    <3>3. RefundedTogether'
      BY <1>8, <2>2, <2>3 DEF Settle, IInv, TypeOK, RefundedTogether
    <3>4. QED  BY <3>1, <3>2, <3>3 DEF MoneyRight
  <2>5. PayoutsConsistent'
    BY <1>8 DEF Settle, IInv, TypeOK, PayoutsConsistent, Drives
  <2>6. QED  BY <2>1, <2>4, <2>5 DEF IInv, MoneyRight
<1>9. CASE SettleFails(r)
  <2>1. TypeOK' /\ HandlersConsistent'
    BY <1>9 DEF SettleFails, IInv, TypeOK, HandlersConsistent
  <2>2. MoneyRight'
    BY <1>9, BooksKept DEF SettleFails, IInv, TypeOK, HandlersConsistent
  <2>3. PayoutsConsistent'
    BY <1>9, ClaimsKept DEF SettleFails, IInv, TypeOK, HandlersConsistent, Drives
  <2>4. QED  BY <2>1, <2>2, <2>3 DEF IInv, MoneyRight
<1>10. CASE ReportFailure(r)
  <2>1. TypeOK' /\ HandlersConsistent'
    BY <1>10 DEF ReportFailure, IInv, TypeOK, HandlersConsistent
  <2>2. MoneyRight'
    BY <1>10, BooksKept DEF ReportFailure, IInv, TypeOK, HandlersConsistent
  <2>3. PayoutsConsistent'
    BY <1>10, ClaimsKept DEF ReportFailure, IInv, TypeOK, HandlersConsistent, Drives
  <2>4. QED  BY <2>1, <2>2, <2>3 DEF IInv, MoneyRight
<1>11. QED  BY <1>1, <1>2, <1>3, <1>4, <1>5, <1>6, <1>7, <1>8, <1>9, <1>10
             DEF Execute, ChannelReply

\* After a crash nobody drives anything.
LEMMA CrashKeeps ==
  ASSUME IInv, Crash
  PROVE  IInv'
<1>1. TypeOK' /\ HandlersConsistent'
  BY DEF Crash, IInv, TypeOK, HandlersConsistent
<1>2. MoneyRight'
  BY BooksKept DEF Crash
<1>3. PayoutsConsistent'
  BY ClaimsKept DEF Crash, Drives
<1>4. QED  BY <1>1, <1>2, <1>3 DEF IInv, MoneyRight

LEMMA InvariantHolds == Spec => []IInv
<1>1. ASSUME Init  PROVE IInv
  <2>1. TypeOK
    BY <1>1 DEF Init, TypeOK
  <2>2. ChannelPaysOnce /\ WalletCreditedOnce /\ RefundedTogether
    BY <1>1, <2>1 DEF Init, TypeOK, ChannelPaysOnce, WalletCreditedOnce, RefundedTogether
  <2>3. HandlersConsistent /\ PayoutsConsistent
    BY <1>1, <2>1 DEF Init, TypeOK, HandlersConsistent, PayoutsConsistent, Drives
  <2>4. QED  BY <2>1, <2>2, <2>3 DEF IInv
<1>2. ASSUME IInv, UNCHANGED vars
      PROVE  IInv'
  <2>1. TypeOK' /\ HandlersConsistent'
    BY <1>2 DEF vars, IInv, TypeOK, HandlersConsistent
  <2>2. MoneyRight' /\ PayoutsConsistent'
    BY <1>2, BooksKept, ClaimsKept DEF vars, Drives
  <2>3. QED  BY <2>1, <2>2 DEF IInv, MoneyRight
<1>3. IInv /\ [Next]_vars => IInv'
  BY <1>2, FilingKeeps, StaffKeeps, ExecuteKeeps, CrashKeeps DEF Next
<1>4. QED  BY <1>1, <1>3, PTL DEF Spec

\* Every status stays within the values its column may have.
THEOREM RefundTypeCorrect == Spec => []TypeOK
BY InvariantHolds, PTL DEF IInv

\* However many requests are filed and retried, and however many replies are
\* lost, the channel pays an order back at most once.
THEOREM ChannelNeverPaysTwice == Spec => []ChannelPaysOnce
BY InvariantHolds, PTL DEF IInv

\* The wallet is credited at most once for an order, by the one request that
\* takes the order from paid to refunded.
THEOREM WalletNeverCreditedTwice == Spec => []WalletCreditedOnce
BY InvariantHolds, PTL DEF IInv

\* An order is refunded with its request, and all that was paid for it has then gone
\* back the way it came.
THEOREM RefundsAreWhole == Spec => []RefundedTogether
BY InvariantHolds, PTL DEF IInv

Final == {"rejected", "canceled", "refunded"}

\* What VerdictsStand says of one step.
Stands ==
    /\ \A o \in Orders : order[o] = "refunded" => order'[o] = "refunded"
    /\ \A r \in Requests : request[r] \in Final => request'[r] = request[r]

\* A step that moves at most one request, from a status with no verdict.
LEMMA OneMoves ==
  ASSUME TypeOK, NEW r \in Requests, NEW s, request[r] \notin Final,
         request' = [request EXCEPT ![r] = s], UNCHANGED order
  PROVE  Stands
BY DEF TypeOK, Stands

\* Neither a refunded order nor a final verdict is ever taken back.
THEOREM NoVerdictWithdrawn == Spec => VerdictsStand
<1>1. ASSUME IInv, [Next]_vars
      PROVE  Stands
  <2> USE <1>1 DEF IInv
  <2>1. CASE UNCHANGED <<order, request>>
    BY <2>1 DEF Stands
  <2>2. ASSUME NEW r \in Requests, Filing(r)
        PROVE  Stands
    BY <2>1, <2>2, OneMoves DEF Filing, ResolveOrder, FindPayment, CheckDuplicates, File,
        HandlersConsistent, Final
  <2>3. ASSUME NEW r \in Requests, Staff(r)
        PROVE  Stands
    BY <2>1, <2>3, OneMoves DEF Staff, Cancel, Review, RetryFailed, Final
  <2>4. ASSUME NEW r \in Requests, ChannelReply(r)
        PROVE  Stands
    BY <2>1, <2>4 DEF ChannelReply, ChannelAccepts, ChannelRefuses, ReplyLost
  <2>5. ASSUME NEW r \in Requests, Execute(r)
        PROVE  Stands
    <3>1. CASE ClaimRequest(r)
      BY <2>1, <3>1, OneMoves DEF ClaimRequest, Final
    <3>2. CASE ClaimPayment(r)
      BY <2>1, <3>2, OneMoves DEF ClaimPayment, HandlersConsistent, Final
    <3>3. CASE SkipChannel(r) \/ ReleasePayment(r) \/ SettleFails(r)
      BY <2>1, <3>3 DEF SkipChannel, ReleasePayment, SettleFails
    <3>4. CASE Settle(r)
      BY <3>4 DEF Settle, HandlersConsistent, TypeOK, Stands, Final
    <3>5. CASE ReportFailure(r)
      BY <3>5, OneMoves DEF ReportFailure, HandlersConsistent, Final
    <3>6. QED  BY <2>5, <3>1, <3>2, <3>3, <3>4, <3>5 DEF Execute
  <2>6. CASE Crash \/ UNCHANGED vars
    BY <2>1, <2>6 DEF Crash, vars
  <2>7. QED  BY <2>2, <2>3, <2>4, <2>5, <2>6 DEF Next
<1>2. [Next]_vars /\ IInv => [Stands]_vars
  BY <1>1
<1>3. QED  BY <1>2, InvariantHolds, PTL DEF Spec, VerdictsStand, Stands, Final
=============================================================================
