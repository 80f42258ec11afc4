--------------------------- MODULE PaymentProofs ---------------------------
(***************************************************************************)
(* Proofs about Payment.tla, for any orders, prices, intents and number of *)
(* request threads.                                                        *)
(***************************************************************************)
EXTENDS Payment, Sums, TLAPS

USE PriceAssumption, BalanceAssumption, AmountAssumption, NameAssumption
    DEF Statuses, Purposes, Jobs, Free, moneyVars, orderVars, rowVars, flowVars,
        Debit, Credit, Payable, MarkPaid, Live, Funders, Insert, MayReserve, Void,
        Busy, Done, Answer, CanSettle, Repeated

\* Types: the one fact to see is that a deduction leaves the wallet in Nat,
\* because Debit checks it first, and that a row is filled from typed inputs.
LEMMA TypesKept ==
  ASSUME IInv, [Next]_vars
  PROVE  TypeOK'
<1> USE DEF IInv, TypeOK
<1>1. ASSUME NEW o \in Orders, OrderStep(o)
      PROVE  TypeOK'
  BY <1>1 DEF OrderStep, PayFromWallet, CancelOrder
<1>2. ASSUME NEW n \in TopUps, Recharge(n)
      PROVE  TypeOK'
  <2>1. n \in Nat
    BY <1>2
  <2>2. wallet' \in Nat /\ recharged' \in Nat
    BY <1>2, <2>1 DEF Recharge
  <2>3. QED  BY <1>2, <2>2 DEF Recharge
<1>3. ASSUME NEW i \in Intents, CreateStep(i)
      PROVE  TypeOK'
  <2>1. ASSUME NEW p \in {"order", "invoice"}, NEW o \in Orders, ReserveAndSettle(i, p, o)
        PROVE  TypeOK'
    BY <2>1 DEF ReserveAndSettle
  <2>2. ASSUME NEW p \in {"order", "invoice"}, NEW o \in Orders, NEW b \in 0..Price[o],
             Reserve(i, p, o, b)
        PROVE  TypeOK'
    BY <2>2 DEF Reserve
  <2>3. ASSUME NEW n \in TopUps, RequestRecharge(i, n)
        PROVE  TypeOK'
    BY <2>3 DEF RequestRecharge
  <2>4. CASE CreateReturns(i) \/ CreateFails(i)
    BY <2>4 DEF CreateReturns, CreateFails
  <2>5. CASE Compensate(i)
    BY <2>5 DEF Compensate
  <2>6. QED  BY <1>3, <2>1, <2>2, <2>3, <2>4, <2>5 DEF CreateStep
<1>4. ASSUME NEW i \in Intents, ChannelStep(i)
      PROVE  TypeOK'
  BY <1>4 DEF ChannelStep, OpenCharge, CustomerPays
<1>5. ASSUME NEW i \in Intents, CancelIntent(i)
      PROVE  TypeOK'
  BY <1>5 DEF CancelIntent
<1>6. ASSUME NEW t \in Threads, NEW i \in Intents, NEW x \in Misreports, CallbackArrives(t, i, x)
      PROVE  TypeOK'
  BY <1>6 DEF CallbackArrives
<1>7. ASSUME NEW t \in Threads, NEW i \in Intents, QueryAnswered(t, i)
      PROVE  TypeOK'
  BY <1>7 DEF QueryAnswered
<1>8. ASSUME NEW t \in Threads, Finish(t)
      PROVE  TypeOK'
  <2>1. CASE SettleOrder(t)
    BY <2>1 DEF SettleOrder
  <2>2. CASE SettleRecharge(t)
    BY <2>2 DEF SettleRecharge
  <2>3. CASE RecordLate(t)
    BY <2>3 DEF RecordLate
  <2>4. CASE AcknowledgeRepeat(t)
    BY <2>4 DEF AcknowledgeRepeat
  <2>5. CASE Refuse(t)
    BY <2>5 DEF Refuse
  <2>6. QED  BY <1>8, <2>1, <2>2, <2>3, <2>4, <2>5 DEF Finish
<1>9. CASE Crash
  BY <1>9 DEF Crash
<1>10. CASE UNCHANGED vars
  BY <1>10 DEF vars
<1>11. QED  BY <1>1, <1>2, <1>3, <1>4, <1>5, <1>6, <1>7, <1>8, <1>9, <1>10 DEF Next

\* Rows keep their columns consistent, and what a thread has read stays a
\* possible past of the row: a status moves forward only.
LEMMA RowsKept ==
  ASSUME IInv, [Next]_vars
  PROVE  (RowsConsistent /\ ReadsConsistent)'
<1> USE DEF IInv, TypeOK, RowsConsistent, ReadsConsistent
<1>1. ASSUME NEW o \in Orders, OrderStep(o)
      PROVE  (RowsConsistent /\ ReadsConsistent)'
  BY <1>1 DEF OrderStep, PayFromWallet, CancelOrder
<1>2. ASSUME NEW n \in TopUps, Recharge(n)
      PROVE  (RowsConsistent /\ ReadsConsistent)'
  BY <1>2 DEF Recharge
<1>3. ASSUME NEW i \in Intents, CreateStep(i)
      PROVE  (RowsConsistent /\ ReadsConsistent)'
  <2>1. ASSUME NEW p \in {"order", "invoice"}, NEW o \in Orders, ReserveAndSettle(i, p, o)
        PROVE  (RowsConsistent /\ ReadsConsistent)'
    BY <2>1 DEF ReserveAndSettle
  <2>2. ASSUME NEW p \in {"order", "invoice"}, NEW o \in Orders, NEW b \in 0..Price[o],
             Reserve(i, p, o, b)
        PROVE  (RowsConsistent /\ ReadsConsistent)'
    BY <2>2 DEF Reserve
  <2>3. ASSUME NEW n \in TopUps, RequestRecharge(i, n)
        PROVE  (RowsConsistent /\ ReadsConsistent)'
    BY <2>3 DEF RequestRecharge
  <2>4. CASE CreateReturns(i) \/ CreateFails(i)
    BY <2>4 DEF CreateReturns, CreateFails
  <2>5. CASE Compensate(i)
    BY <2>5 DEF Compensate
  <2>6. QED  BY <1>3, <2>1, <2>2, <2>3, <2>4, <2>5 DEF CreateStep
<1>4. ASSUME NEW i \in Intents, ChannelStep(i)
      PROVE  (RowsConsistent /\ ReadsConsistent)'
  BY <1>4 DEF ChannelStep, OpenCharge, CustomerPays
<1>5. ASSUME NEW i \in Intents, CancelIntent(i)
      PROVE  (RowsConsistent /\ ReadsConsistent)'
  BY <1>5 DEF CancelIntent
<1>6. ASSUME NEW t \in Threads, NEW i \in Intents, NEW x \in Misreports, CallbackArrives(t, i, x)
      PROVE  (RowsConsistent /\ ReadsConsistent)'
  BY <1>6 DEF CallbackArrives
<1>7. ASSUME NEW t \in Threads, NEW i \in Intents, QueryAnswered(t, i)
      PROVE  (RowsConsistent /\ ReadsConsistent)'
  BY <1>7 DEF QueryAnswered
<1>8. ASSUME NEW t \in Threads, Finish(t)
      PROVE  (RowsConsistent /\ ReadsConsistent)'
  <2>1. CASE SettleOrder(t)
    BY <2>1 DEF SettleOrder
  <2>2. CASE SettleRecharge(t)
    BY <2>2 DEF SettleRecharge
  <2>3. CASE RecordLate(t)
    BY <2>3 DEF RecordLate
  <2>4. CASE AcknowledgeRepeat(t)
    BY <2>4 DEF AcknowledgeRepeat
  <2>5. CASE Refuse(t)
    BY <2>5 DEF Refuse
  <2>6. QED  BY <1>8, <2>1, <2>2, <2>3, <2>4, <2>5 DEF Finish
<1>9. CASE Crash
  BY <1>9 DEF Crash
<1>10. CASE UNCHANGED vars
  BY <1>10 DEF vars
<1>11. QED  BY <1>1, <1>2, <1>3, <1>4, <1>5, <1>6, <1>7, <1>8, <1>9, <1>10 DEF Next

\* Orders: MarkPaid needs an unpaid order and an unpaid invoice, so by
\* FundedOnce nothing has funded the order before; MayReserve finds no live
\* intent before it adds one.
LEMMA OrdersKept ==
  ASSUME IInv, [Next]_vars
  PROVE  (OneLiveIntent /\ FundedOnce /\ PaidInFull /\ OrderMatchesInvoice)'
<1> USE DEF IInv, TypeOK, OneLiveIntent, FundedOnce, PaidInFull, OrderMatchesInvoice, RowsConsistent
<1>1. ASSUME NEW o \in Orders, OrderStep(o)
      PROVE  (OneLiveIntent /\ FundedOnce /\ PaidInFull /\ OrderMatchesInvoice)'
  BY <1>1 DEF OrderStep, PayFromWallet, CancelOrder
<1>2. ASSUME NEW n \in TopUps, Recharge(n)
      PROVE  (OneLiveIntent /\ FundedOnce /\ PaidInFull /\ OrderMatchesInvoice)'
  BY <1>2 DEF Recharge
<1>3. ASSUME NEW i \in Intents, CreateStep(i)
      PROVE  (OneLiveIntent /\ FundedOnce /\ PaidInFull /\ OrderMatchesInvoice)'
  <2>1. ASSUME NEW p \in {"order", "invoice"}, NEW o \in Orders, ReserveAndSettle(i, p, o)
        PROVE  (OneLiveIntent /\ FundedOnce /\ PaidInFull /\ OrderMatchesInvoice)'
    BY <2>1 DEF ReserveAndSettle
  <2>2. ASSUME NEW p \in {"order", "invoice"}, NEW o \in Orders, NEW b \in 0..Price[o],
             Reserve(i, p, o, b)
        PROVE  (OneLiveIntent /\ FundedOnce /\ PaidInFull /\ OrderMatchesInvoice)'
    BY <2>2 DEF Reserve
  <2>3. ASSUME NEW n \in TopUps, RequestRecharge(i, n)
        PROVE  (OneLiveIntent /\ FundedOnce /\ PaidInFull /\ OrderMatchesInvoice)'
    BY <2>3 DEF RequestRecharge
  <2>4. CASE CreateReturns(i) \/ CreateFails(i)
    BY <2>4 DEF CreateReturns, CreateFails
  <2>5. CASE Compensate(i)
    BY <2>5 DEF Compensate
  <2>6. QED  BY <1>3, <2>1, <2>2, <2>3, <2>4, <2>5 DEF CreateStep
<1>4. ASSUME NEW i \in Intents, ChannelStep(i)
      PROVE  (OneLiveIntent /\ FundedOnce /\ PaidInFull /\ OrderMatchesInvoice)'
  BY <1>4 DEF ChannelStep, OpenCharge, CustomerPays
<1>5. ASSUME NEW i \in Intents, CancelIntent(i)
      PROVE  (OneLiveIntent /\ FundedOnce /\ PaidInFull /\ OrderMatchesInvoice)'
  BY <1>5 DEF CancelIntent
<1>6. ASSUME NEW t \in Threads, NEW i \in Intents, NEW x \in Misreports, CallbackArrives(t, i, x)
      PROVE  (OneLiveIntent /\ FundedOnce /\ PaidInFull /\ OrderMatchesInvoice)'
  BY <1>6 DEF CallbackArrives
<1>7. ASSUME NEW t \in Threads, NEW i \in Intents, QueryAnswered(t, i)
      PROVE  (OneLiveIntent /\ FundedOnce /\ PaidInFull /\ OrderMatchesInvoice)'
  BY <1>7 DEF QueryAnswered
<1>8. ASSUME NEW t \in Threads, Finish(t)
      PROVE  (OneLiveIntent /\ FundedOnce /\ PaidInFull /\ OrderMatchesInvoice)'
  <2>1. CASE SettleOrder(t)
    BY <2>1 DEF SettleOrder
  <2>2. CASE SettleRecharge(t)
    BY <2>2 DEF SettleRecharge
  <2>3. CASE RecordLate(t)
    <3>1. thread[t].intent \in Intents
      BY <2>3 DEF RecordLate
    <3>2. \A k \in Intents :
             /\ status'[k] = "paid" <=> status[k] = "paid"
             /\ status'[k] = "pending" <=> status[k] = "pending"
             /\ status[k] = "paid" => receipt'[k] = receipt[k]
      BY <2>3, <3>1 DEF RecordLate
    <3>3. UNCHANGED <<debits, order, invoice, purpose, target, amount, held>>
      BY <2>3 DEF RecordLate
    <3>4. \A o \in Orders : Funders(o)' = Funders(o) /\ Live(o)' = Live(o)
      BY <3>2, <3>3
    <3>5. OneLiveIntent' /\ OrderMatchesInvoice'
      BY <3>3, <3>4
    <3>6. FundedOnce'
      BY <3>3, <3>4
    <3>7. PaidInFull'
      BY <3>2, <3>3
    <3>8. QED  BY <3>5, <3>6, <3>7
  <2>4. CASE AcknowledgeRepeat(t)
    BY <2>4 DEF AcknowledgeRepeat
  <2>5. CASE Refuse(t)
    BY <2>5 DEF Refuse
  <2>6. QED  BY <1>8, <2>1, <2>2, <2>3, <2>4, <2>5 DEF Finish
<1>9. CASE Crash
  BY <1>9 DEF Crash
<1>10. CASE UNCHANGED vars
  BY <1>10 DEF vars
<1>11. QED  BY <1>1, <1>2, <1>3, <1>4, <1>5, <1>6, <1>7, <1>8, <1>9, <1>10 DEF Next

\* Acknowledgements: a callback is answered with success only by the steps
\* that leave the row paid or late, and no step leaves those two statuses.
LEMMA AckedKept ==
  ASSUME IInv, [Next]_vars
  PROVE  AckedIsRecorded'
<1> USE DEF IInv, TypeOK, AckedIsRecorded, ReadsConsistent
<1>1. ASSUME NEW o \in Orders, OrderStep(o)
      PROVE  AckedIsRecorded'
  BY <1>1 DEF OrderStep, PayFromWallet, CancelOrder
<1>2. ASSUME NEW n \in TopUps, Recharge(n)
      PROVE  AckedIsRecorded'
  BY <1>2 DEF Recharge
<1>3. ASSUME NEW i \in Intents, CreateStep(i)
      PROVE  AckedIsRecorded'
  <2>1. ASSUME NEW p \in {"order", "invoice"}, NEW o \in Orders, ReserveAndSettle(i, p, o)
        PROVE  AckedIsRecorded'
    BY <2>1 DEF ReserveAndSettle
  <2>2. ASSUME NEW p \in {"order", "invoice"}, NEW o \in Orders, NEW b \in 0..Price[o],
             Reserve(i, p, o, b)
        PROVE  AckedIsRecorded'
    BY <2>2 DEF Reserve
  <2>3. ASSUME NEW n \in TopUps, RequestRecharge(i, n)
        PROVE  AckedIsRecorded'
    BY <2>3 DEF RequestRecharge
  <2>4. CASE CreateReturns(i) \/ CreateFails(i)
    BY <2>4 DEF CreateReturns, CreateFails
  <2>5. CASE Compensate(i)
    BY <2>5 DEF Compensate
  <2>6. QED  BY <1>3, <2>1, <2>2, <2>3, <2>4, <2>5 DEF CreateStep
<1>4. ASSUME NEW i \in Intents, ChannelStep(i)
      PROVE  AckedIsRecorded'
  BY <1>4 DEF ChannelStep, OpenCharge, CustomerPays
<1>5. ASSUME NEW i \in Intents, CancelIntent(i)
      PROVE  AckedIsRecorded'
  BY <1>5 DEF CancelIntent
<1>6. ASSUME NEW t \in Threads, NEW i \in Intents, NEW x \in Misreports, CallbackArrives(t, i, x)
      PROVE  AckedIsRecorded'
  BY <1>6 DEF CallbackArrives
<1>7. ASSUME NEW t \in Threads, NEW i \in Intents, QueryAnswered(t, i)
      PROVE  AckedIsRecorded'
  BY <1>7 DEF QueryAnswered
<1>8. ASSUME NEW t \in Threads, Finish(t)
      PROVE  AckedIsRecorded'
  <2>1. CASE SettleOrder(t)
    BY <2>1 DEF SettleOrder
  <2>2. CASE SettleRecharge(t)
    BY <2>2 DEF SettleRecharge
  <2>3. CASE RecordLate(t)
    BY <2>3 DEF RecordLate
  <2>4. CASE AcknowledgeRepeat(t)
    BY <2>4 DEF AcknowledgeRepeat
  <2>5. CASE Refuse(t)
    BY <2>5 DEF Refuse
  <2>6. QED  BY <1>8, <2>1, <2>2, <2>3, <2>4, <2>5 DEF Finish
<1>9. CASE Crash
  BY <1>9 DEF Crash
<1>10. CASE UNCHANGED vars
  BY <1>10 DEF vars
<1>11. QED  BY <1>1, <1>2, <1>3, <1>4, <1>5, <1>6, <1>7, <1>8, <1>9, <1>10 DEF Next

-----------------------------------------------------------------------------
(* The inductive invariant.                                                *)

LEMMA InvariantHolds == Spec => []IInv
<1>1. Init => IInv
  BY DEF Init, IInv, TypeOK, OneLiveIntent, FundedOnce, PaidInFull, AckedIsRecorded,
         OrderMatchesInvoice, RowsConsistent, ReadsConsistent
<1>2. IInv /\ [Next]_vars => IInv'
  BY TypesKept, RowsKept, OrdersKept, AckedKept DEF IInv
<1>3. QED  BY <1>1, <1>2, PTL DEF Spec

\* Every variable stays within its type; in particular no race takes the wallet
\* below zero (the condition in adjustBalance's UPDATE).
THEOREM TypeCorrect == Spec => []TypeOK
BY InvariantHolds, PTL DEF IInv

\* Whatever the number of cashiers, no two intents are open on one order, whether
\* they name it or its invoice (rejectPaymentIntentTx).
THEOREM OneIntentLives == Spec => []OneLiveIntent
BY InvariantHolds, PTL DEF IInv

\* Whatever the number of cashiers, callbacks and retries, an order is paid by
\* one source only, and by no other once it is paid.
THEOREM OrdersFundedOnce == Spec => []FundedOnce
BY InvariantHolds, PTL DEF IInv

\* No order is settled by a channel payment of another amount than its price.
THEOREM OrdersPaidInFull == Spec => []PaidInFull
BY InvariantHolds, PTL DEF IInv

\* No acknowledged receipt is lost.
THEOREM ReceiptsRecorded == Spec => []AckedIsRecorded
BY InvariantHolds, PTL DEF IInv

-----------------------------------------------------------------------------
(* The balance sheet.                                                      *)

\* Its terms are numbers.
LEMMA TermsAreNumbers ==
  ASSUME TypeOK
  PROVE  /\ Advanced \in [Intents -> Nat] /\ ToppedUp \in [Intents -> Nat]
         /\ SumFunctionOnSet(Advanced, Intents) \in Int
         /\ SumFunctionOnSet(ToppedUp, Intents) \in Int
         /\ SumFunctionOnSet(Price, debits) \in Int /\ IsFiniteSet(debits)
<1>1. Advanced \in [Intents -> Nat] /\ ToppedUp \in [Intents -> Nat]
  BY DEF TypeOK, Advanced, ToppedUp
<1>2. IsFiniteSet(debits)  BY RowAssumption, FS_Subset DEF TypeOK
<1>3. \A o \in debits : Price[o] \in Int  BY DEF TypeOK
<1>4. (\A i \in Intents : Advanced[i] \in Int) /\ (\A i \in Intents : ToppedUp[i] \in Int)
  BY <1>1
<1>5. QED  BY <1>1, <1>2, <1>3, <1>4, RowAssumption, SumOne

\* One intent's terms change, and the wallet with them.
LEMMA RowMoves ==
  ASSUME TypeOK, TypeOK', BalanceSheet, NEW i \in Intents, UNCHANGED <<debits, recharged>>,
         \A j \in Intents \ {i} : Advanced'[j] = Advanced[j] /\ ToppedUp'[j] = ToppedUp[j],
         wallet' + Advanced'[i] + ToppedUp[i] = wallet + Advanced[i] + ToppedUp'[i]
  PROVE  BalanceSheet'
<1> DEFINE a == SumFunctionOnSet(Advanced, Intents)
           t == SumFunctionOnSet(ToppedUp, Intents)
           s == SumFunctionOnSet(Price, debits)
           p == Advanced[i]
           q == Advanced'[i]
           u == ToppedUp[i]
           v == ToppedUp'[i]
<1>1. /\ Advanced \in [Intents -> Nat] /\ ToppedUp \in [Intents -> Nat]
      /\ a \in Int /\ t \in Int /\ s \in Int
  BY TermsAreNumbers
<1>2. Advanced' \in [Intents -> Nat] /\ ToppedUp' \in [Intents -> Nat]
  BY DEF TypeOK, Advanced, ToppedUp
<1>3. SumFunctionOnSet(Advanced', Intents) = a + (q - p)
  BY <1>1, <1>2, RowAssumption, SumChange
<1>4. SumFunctionOnSet(ToppedUp', Intents) = t + (v - u)
  BY <1>1, <1>2, RowAssumption, SumChange
<1>5. p \in Int /\ q \in Int /\ u \in Int /\ v \in Int  BY <1>1, <1>2
<1>6. /\ wallet \in Int /\ wallet' \in Int /\ recharged \in Int /\ StartBalance \in Int
      /\ wallet + s + a = StartBalance + recharged + t
  BY DEF TypeOK, BalanceSheet
<1>7. wallet' + s + (a + (q - p)) = StartBalance + recharged + (t + (v - u))
  <2>1. wallet' + q + u = wallet + p + v  OBVIOUS
  <2> HIDE DEF a, t, s, p, q, u, v
  <2>2. QED  BY <1>1, <1>5, <1>6, <2>1
<1>8. BalanceSheet' <=> wallet' + s + SumFunctionOnSet(Advanced', Intents)
                          = StartBalance + recharged + SumFunctionOnSet(ToppedUp', Intents)
  BY DEF BalanceSheet
<1>9. QED  BY <1>3, <1>4, <1>7, <1>8

\* Neither the wallet nor any intent's terms change.
LEMMA NoMoneyMoves ==
  ASSUME BalanceSheet, UNCHANGED <<wallet, debits, recharged>>,
         Advanced' = Advanced, ToppedUp' = ToppedUp
  PROVE  BalanceSheet'
BY DEF BalanceSheet

\* The balance pays an order that nothing has paid.
LEMMA WalletPays ==
  ASSUME IInv, BalanceSheet, NEW o \in Orders, PayFromWallet(o)
  PROVE  BalanceSheet'
<1> DEFINE a == SumFunctionOnSet(Advanced, Intents)
           t == SumFunctionOnSet(ToppedUp, Intents)
           s == SumFunctionOnSet(Price, debits)
<1>1. o \notin debits  BY DEF PayFromWallet, IInv, FundedOnce
<1>2. IsFiniteSet(debits) /\ \A x \in debits \cup {o} : Price[x] \in Int
  BY TermsAreNumbers DEF IInv, TypeOK
<1>3. SumFunctionOnSet(Price, debits \cup {o}) = Price[o] + s  BY <1>1, <1>2, SumAdd
<1>4. Advanced' = Advanced /\ ToppedUp' = ToppedUp  BY DEF PayFromWallet, Advanced, ToppedUp
<1>5. a \in Int /\ t \in Int /\ s \in Int  BY TermsAreNumbers DEF IInv
<1>6. wallet + s + a = StartBalance + recharged + t  BY DEF BalanceSheet
<1>7. wallet' = wallet - Price[o] /\ debits' = debits \cup {o} /\ recharged' = recharged
  BY DEF PayFromWallet
<1>8. wallet \in Int /\ Price[o] \in Int /\ recharged \in Int  BY DEF IInv, TypeOK
<1>9. (wallet - Price[o]) + (Price[o] + s) + a = StartBalance + recharged + t
  <2> HIDE DEF a, t, s
  <2> DEFINE p == Price[o]
  <2>1. p \in Int  BY <1>8
  <2> HIDE DEF p
  <2>2. (wallet - p) + (p + s) + a = wallet + s + a  BY <1>5, <1>8, <2>1
  <2>3. QED  BY <1>6, <2>2 DEF p
<1>10. QED  BY <1>3, <1>4, <1>7, <1>9 DEF BalanceSheet

LEMMA WalletRecharged ==
  ASSUME TypeOK, BalanceSheet, NEW n \in TopUps, Recharge(n)
  PROVE  BalanceSheet'
<1> DEFINE a == SumFunctionOnSet(Advanced, Intents)
           t == SumFunctionOnSet(ToppedUp, Intents)
           s == SumFunctionOnSet(Price, debits)
<1>1. Advanced' = Advanced /\ ToppedUp' = ToppedUp  BY DEF Recharge, Advanced, ToppedUp
<1>2. a \in Int /\ t \in Int /\ s \in Int  BY TermsAreNumbers
<1>3. wallet + s + a = StartBalance + recharged + t  BY DEF BalanceSheet
<1>4. wallet' = wallet + n /\ recharged' = recharged + n /\ debits' = debits  BY DEF Recharge
<1>5. wallet \in Int /\ n \in Int /\ recharged \in Int  BY DEF TypeOK
<1>6. (wallet + n) + s + a = StartBalance + (recharged + n) + t
  <2> HIDE DEF a, t, s
  <2> QED  BY <1>2, <1>3, <1>5
<1>7. QED  BY <1>1, <1>4, <1>6 DEF BalanceSheet

LEMMA SheetKept == IInv /\ BalanceSheet /\ [Next]_vars => BalanceSheet'
<1> SUFFICES ASSUME IInv, BalanceSheet, [Next]_vars PROVE BalanceSheet'  OBVIOUS
<1>0. TypeOK /\ TypeOK' /\ RowsConsistent
  BY TypesKept DEF IInv
<1>1. ASSUME UNCHANGED <<wallet, debits, recharged, status, held, purpose, amount>>
      PROVE  BalanceSheet'
  BY <1>1, NoMoneyMoves DEF Advanced, ToppedUp
<1>2. ASSUME NEW o \in Orders, OrderStep(o) PROVE BalanceSheet'
  BY <1>1, <1>2, WalletPays DEF OrderStep, CancelOrder
<1>3. ASSUME NEW n \in TopUps, Recharge(n) PROVE BalanceSheet'
  BY <1>0, <1>3, WalletRecharged
<1>4. ASSUME NEW i \in Intents, Void(i) PROVE BalanceSheet'
  <2>1. \A j \in Intents \ {i} : Advanced'[j] = Advanced[j] /\ ToppedUp'[j] = ToppedUp[j]
    BY <1>0, <1>4 DEF TypeOK, Advanced, ToppedUp
  <2>2. Advanced[i] = held[i] /\ Advanced'[i] = 0 /\ ToppedUp[i] = 0 /\ ToppedUp'[i] = 0
    BY <1>0, <1>4 DEF TypeOK, Advanced, ToppedUp
  <2>3. wallet' = wallet + held[i] /\ UNCHANGED <<debits, recharged>>  BY <1>4
  <2>4. wallet' + Advanced'[i] + ToppedUp[i] = wallet + Advanced[i] + ToppedUp'[i]
    <3>1. wallet \in Int /\ held[i] \in Int  BY <1>0 DEF TypeOK
    <3>2. QED  BY <2>2, <2>3, <3>1
  <2>5. QED  BY <1>0, <2>1, <2>3, <2>4, RowMoves
<1>5. ASSUME NEW i \in Intents, NEW p \in {"order", "invoice"}, NEW o \in Orders,
             ReserveAndSettle(i, p, o)
      PROVE  BalanceSheet'
  <2>1. \A j \in Intents \ {i} : Advanced'[j] = Advanced[j] /\ ToppedUp'[j] = ToppedUp[j]
    BY <1>0, <1>5 DEF TypeOK, Advanced, ToppedUp, ReserveAndSettle
  <2>2. Advanced[i] = 0 /\ Advanced'[i] = Price[o] /\ ToppedUp[i] = 0 /\ ToppedUp'[i] = 0
    BY <1>0, <1>5 DEF TypeOK, Advanced, ToppedUp, ReserveAndSettle
  <2>3. wallet' = wallet - Price[o] /\ UNCHANGED <<debits, recharged>>
    BY <1>5 DEF ReserveAndSettle
  <2>4. wallet' + Advanced'[i] + ToppedUp[i] = wallet + Advanced[i] + ToppedUp'[i]
    <3>1. wallet \in Int /\ Price[o] \in Int  BY <1>0 DEF TypeOK
    <3>2. QED  BY <2>2, <2>3, <3>1
  <2>5. QED  BY <1>0, <2>1, <2>3, <2>4, RowMoves
<1>6. ASSUME NEW i \in Intents, NEW p \in {"order", "invoice"}, NEW o \in Orders,
             NEW b \in 0..Price[o], Reserve(i, p, o, b)
      PROVE  BalanceSheet'
  <2>1. \A j \in Intents \ {i} : Advanced'[j] = Advanced[j] /\ ToppedUp'[j] = ToppedUp[j]
    BY <1>0, <1>6 DEF TypeOK, Advanced, ToppedUp, Reserve
  <2>2. Advanced[i] = 0 /\ Advanced'[i] = b /\ ToppedUp[i] = 0 /\ ToppedUp'[i] = 0
    BY <1>0, <1>6 DEF TypeOK, Advanced, ToppedUp, Reserve
  <2>3. wallet' = wallet - b /\ UNCHANGED <<debits, recharged>>
    BY <1>6 DEF Reserve
  <2>4. wallet' + Advanced'[i] + ToppedUp[i] = wallet + Advanced[i] + ToppedUp'[i]
    <3>1. wallet \in Int /\ b \in Int  BY <1>0 DEF TypeOK
    <3>2. QED  BY <2>2, <2>3, <3>1
  <2>5. QED  BY <1>0, <2>1, <2>3, <2>4, RowMoves
<1>7. ASSUME NEW i \in Intents, NEW n \in TopUps, RequestRecharge(i, n) PROVE BalanceSheet'
  <2>1. Advanced' = Advanced /\ ToppedUp' = ToppedUp
    BY <1>0, <1>7 DEF TypeOK, Advanced, ToppedUp, RequestRecharge
  <2>2. UNCHANGED <<wallet, debits, recharged>>  BY <1>7 DEF RequestRecharge
  <2>3. QED  BY <2>1, <2>2, NoMoneyMoves
<1>8. ASSUME NEW i \in Intents, CreateStep(i) PROVE BalanceSheet'
  <2>1. CASE CreateReturns(i) \/ CreateFails(i)
    BY <1>1, <2>1 DEF CreateReturns, CreateFails
  <2>2. CASE Compensate(i)  BY <1>1, <1>4, <2>2 DEF Compensate
  <2>3. QED  BY <1>5, <1>6, <1>7, <1>8, <2>1, <2>2 DEF CreateStep
<1>9. ASSUME NEW i \in Intents, ChannelStep(i) PROVE BalanceSheet'
  BY <1>1, <1>9 DEF ChannelStep, OpenCharge, CustomerPays
<1>10. ASSUME NEW i \in Intents, CancelIntent(i) PROVE BalanceSheet'
  BY <1>4, <1>10 DEF CancelIntent
<1>11. ASSUME NEW t \in Threads, NEW i \in Intents, NEW x,
              CallbackArrives(t, i, x) \/ QueryAnswered(t, i)
       PROVE  BalanceSheet'
  BY <1>1, <1>11 DEF CallbackArrives, QueryAnswered
<1>12. ASSUME NEW t \in Threads, Finish(t) PROVE BalanceSheet'
  <2> DEFINE i == thread[t].intent
  <2>1. CASE SettleOrder(t)
    <3>1. Advanced' = Advanced /\ ToppedUp' = ToppedUp
      BY <1>0, <2>1 DEF TypeOK, Advanced, ToppedUp, SettleOrder
    <3>2. UNCHANGED <<wallet, debits, recharged>>  BY <2>1 DEF SettleOrder
    <3>3. QED  BY <3>1, <3>2, NoMoneyMoves
  <2>2. CASE SettleRecharge(t)
    <3>0. i \in Intents  BY <1>0, <2>2 DEF TypeOK, SettleRecharge
    <3>1. \A j \in Intents \ {i} : Advanced'[j] = Advanced[j] /\ ToppedUp'[j] = ToppedUp[j]
      BY <1>0, <2>2 DEF TypeOK, Advanced, ToppedUp, SettleRecharge
    <3>2. Advanced'[i] = Advanced[i] /\ ToppedUp[i] = 0 /\ ToppedUp'[i] = amount[i]
      BY <1>0, <2>2, <3>0 DEF TypeOK, Advanced, ToppedUp, SettleRecharge
    <3>3. wallet' = wallet + amount[i] /\ UNCHANGED <<debits, recharged>>
      BY <2>2 DEF SettleRecharge
    <3>4. wallet' + Advanced'[i] + ToppedUp[i] = wallet + Advanced[i] + ToppedUp'[i]
      <4>1. wallet \in Int /\ amount[i] \in Int /\ Advanced[i] \in Int
        BY <1>0, <3>0, TermsAreNumbers DEF TypeOK
      <4>2. QED  BY <3>2, <3>3, <4>1
    <3>5. QED  BY <1>0, <3>0, <3>1, <3>3, <3>4, RowMoves
  <2>3. CASE RecordLate(t)
    <3>1. Advanced' = Advanced /\ ToppedUp' = ToppedUp
      BY <1>0, <2>3 DEF TypeOK, Advanced, ToppedUp, RecordLate
    <3>2. UNCHANGED <<wallet, debits, recharged>>  BY <2>3 DEF RecordLate
    <3>3. QED  BY <3>1, <3>2, NoMoneyMoves
  <2>4. CASE AcknowledgeRepeat(t) \/ Refuse(t)
    BY <1>1, <2>4 DEF AcknowledgeRepeat, Refuse
  <2>5. QED  BY <1>12, <2>1, <2>2, <2>3, <2>4 DEF Finish
<1>13. CASE Crash \/ UNCHANGED vars  BY <1>1, <1>13 DEF Crash, vars
<1>14. QED
  BY <1>2, <1>3, <1>8, <1>9, <1>10, <1>11, <1>12, <1>13 DEF Next

\* Whatever the cashiers, callbacks, compensations and crashes, the wallet is what came
\* into it less what the orders took and the open intents hold (adjustBalance and its
\* callers).
THEOREM SheetBalances == Spec => []BalanceSheet
<1>1. Init => BalanceSheet
  <2> SUFFICES ASSUME Init PROVE BalanceSheet  OBVIOUS
  <2>1. \A i \in Intents : Advanced[i] = 0 /\ ToppedUp[i] = 0
    BY DEF Init, Advanced, ToppedUp
  <2>2. SumFunctionOnSet(Advanced, Intents) = 0 /\ SumFunctionOnSet(ToppedUp, Intents) = 0
    BY <2>1, RowAssumption, SumZero
  <2>3. SumFunctionOnSet(Price, debits) = 0  BY SumEmpty DEF Init
  <2>4. wallet = StartBalance /\ recharged = 0  BY DEF Init
  <2>5. QED  BY <2>2, <2>3, <2>4 DEF BalanceSheet
<1>2. QED  BY <1>1, SheetKept, InvariantHolds, PTL DEF Spec

-----------------------------------------------------------------------------
(* What steps keep.                                                        *)

\* What RecordsArePermanent says of one step.
Kept == \A i \in Intents : status[i] \in {"paid", "late"} =>
           status'[i] = status[i] /\ receipt'[i] = receipt[i]

\* A step that moves one row, and not out of `paid` or `late`, keeps records.
LEMMA OneRowMoves ==
  ASSUME TypeOK, NEW i \in Intents, status[i] \notin {"paid", "late"},
         \A k \in Intents \ {i} : status'[k] = status[k] /\ receipt'[k] = receipt[k]
  PROVE  Kept
BY DEF Kept

\* A step that leaves both columns alone keeps records.
LEMMA NoRowMoves ==
  ASSUME UNCHANGED <<status, receipt>>
  PROVE  Kept
BY DEF Kept

\* A recorded receipt stays as it is: no later callback rewrites it.
THEOREM ReceiptsPermanent == Spec => RecordsArePermanent
<1>1. ASSUME IInv, [Next]_vars
      PROVE  Kept
  <2> USE <1>1 DEF IInv, TypeOK
  <2>1. ASSUME NEW o \in Orders, OrderStep(o)
        PROVE  Kept
    BY <2>1, NoRowMoves DEF OrderStep, PayFromWallet, CancelOrder
  <2>2. ASSUME NEW n \in TopUps, Recharge(n)
        PROVE  Kept
    BY <2>2, NoRowMoves DEF Recharge
  <2>3. ASSUME NEW i \in Intents, CreateStep(i) \/ CancelIntent(i)
        PROVE  Kept
    <3>1. CASE \/ UNCHANGED <<status, receipt>>
               \/ /\ status[i] \in {"none", "pending"} /\ UNCHANGED receipt
                  /\ \E s \in Statuses : status' = [status EXCEPT ![i] = s]
      BY <3>1, OneRowMoves, NoRowMoves
    <3>2. ASSUME NEW p \in {"order", "invoice"}, NEW o \in Orders, ReserveAndSettle(i, p, o)
          PROVE  Kept
      BY <3>1, <3>2 DEF ReserveAndSettle
    <3>3. ASSUME NEW p \in {"order", "invoice"}, NEW o \in Orders, NEW b \in 0..Price[o],
                 Reserve(i, p, o, b)
          PROVE  Kept
      BY <3>1, <3>3 DEF Reserve
    <3>4. ASSUME NEW n \in TopUps, RequestRecharge(i, n)
          PROVE  Kept
      BY <3>1, <3>4 DEF RequestRecharge
    <3>5. CASE CreateReturns(i) \/ CreateFails(i)
      BY <3>1, <3>5 DEF CreateReturns, CreateFails
    <3>6. CASE Compensate(i) \/ CancelIntent(i)
      BY <3>1, <3>6 DEF Compensate, CancelIntent
    <3>7. QED  BY <2>3, <3>2, <3>3, <3>4, <3>5, <3>6 DEF CreateStep
  <2>4. ASSUME NEW i \in Intents, ChannelStep(i)
        PROVE  Kept
    BY <2>4, NoRowMoves DEF ChannelStep, OpenCharge, CustomerPays
  <2>5. ASSUME NEW t \in Threads, NEW i \in Intents,
               QueryAnswered(t, i) \/ \E x \in Misreports : CallbackArrives(t, i, x)
        PROVE  Kept
    BY <2>5, NoRowMoves DEF QueryAnswered, CallbackArrives
  <2>6. ASSUME NEW t \in Threads, Finish(t)
        PROVE  Kept
    <3>1. CASE SettleOrder(t) \/ SettleRecharge(t)
      <4> DEFINE i == thread[t].intent
      <4>1. i \in Intents /\ status[i] = "pending"
        BY <3>1 DEF SettleOrder, SettleRecharge
      <4>2. \A k \in Intents \ {i} : status'[k] = status[k] /\ receipt'[k] = receipt[k]
        BY <3>1 DEF SettleOrder, SettleRecharge
      <4> HIDE DEF i
      <4>3. QED  BY <4>1, <4>2, OneRowMoves
    <3>2. CASE RecordLate(t)
      <4> DEFINE i == thread[t].intent
      <4>1. i \in Intents
        BY <3>2 DEF RecordLate
      <4>2. \A k \in Intents \ {i} : status'[k] = status[k] /\ receipt'[k] = receipt[k]
        BY <3>2 DEF RecordLate
      <4>3. status[i] = "failed" \/ UNCHANGED <<status, receipt>>
        BY <3>2 DEF RecordLate
      <4> HIDE DEF i
      <4>4. QED  BY <4>1, <4>2, <4>3, OneRowMoves, NoRowMoves
    <3>3. CASE AcknowledgeRepeat(t) \/ Refuse(t)
      BY <3>3, NoRowMoves DEF AcknowledgeRepeat, Refuse
    <3>4. QED  BY <2>6, <3>1, <3>2, <3>3 DEF Finish
  <2>7. CASE Crash \/ UNCHANGED vars
    BY <2>7, NoRowMoves DEF Crash, vars
  <2>8. QED  BY <1>1, <2>1, <2>2, <2>3, <2>4, <2>5, <2>6, <2>7 DEF Next
<1>2. [Next]_vars /\ IInv => [Kept]_vars
  BY <1>1
<1>3. QED  BY <1>2, InvariantHolds, PTL DEF Spec, RecordsArePermanent, Kept

-----------------------------------------------------------------------------
(* Payment implements Settlement.                                          *)

HIDE DEF Funders

\* The two state functions of the refinement mapping that need a name.
HoldBar == [i \in Intents |-> IF status[i] = "pending" THEN held[i] ELSE 0]
SourcesBar == [o \in Orders |-> SourcesOf(o)]
ClosedBar == {o \in Orders : order[o] = "cancelled"}

\* A step that marks no order paid or cancelled and changes no paid intent is
\* invisible in the sources and in the closed orders.
LEMMA OrdersUntouched ==
  ASSUME IInv, UNCHANGED order,
         \A o \in Orders : Funders(o)' = Funders(o)
  PROVE  UNCHANGED <<SourcesBar, ClosedBar>>
BY DEF SourcesBar, SourcesOf, ClosedBar

\* An order that gets paid had no source before, and has src as its source now.
LEMMA OrderFunded ==
  ASSUME IInv, NEW o \in Orders, MarkPaid(o), NEW src,
         SourcesOf(o)' = {src},
         \A q \in Orders \ {o} : Funders(q)' = Funders(q)
  PROVE  Promise!Fund(o, src)
<1> USE DEF IInv, TypeOK
<1>1. SourcesOf(o) = {} /\ order[o] # "cancelled"
  BY DEF SourcesOf
<1>2. \A q \in Orders \ {o} : SourcesOf(q)' = SourcesOf(q)
  BY DEF SourcesOf
<1>3. SourcesBar' = [SourcesBar EXCEPT ![o] = {src}]
  BY <1>2 DEF SourcesBar
<1>4. UNCHANGED ClosedBar
  BY DEF ClosedBar
<1>5. QED  BY <1>1, <1>3, <1>4 DEF Promise!Fund, Promise!Open, SourcesBar, ClosedBar

\* Void returns exactly what the intent held.
LEMMA VoidReleases ==
  ASSUME IInv, NEW i \in Intents, Void(i)
  PROVE  Promise!Release(i)
<1> USE DEF IInv, TypeOK
<1>1. HoldBar' = [HoldBar EXCEPT ![i] = 0] /\ HoldBar[i] = held[i]
  BY DEF HoldBar
<1>2. \A o \in Orders : Funders(o)' = Funders(o)
  BY DEF Funders
<1>3. UNCHANGED <<SourcesBar, ClosedBar>>
  BY <1>2, OrdersUntouched
<1>4. QED  BY <1>1, <1>3 DEF Promise!Release, HoldBar, SourcesBar, ClosedBar

\* Every step of Payment is a step of Settlement or leaves its variables alone.
LEMMA StepImplements ==
  ASSUME IInv, [Next]_vars
  PROVE  [Promise!Next]_(Promise!vars)
<1> USE DEF IInv, TypeOK
<1> DEFINE Bar == <<wallet, HoldBar, SourcesBar, ClosedBar>>
           Goal == Promise!Next \/ UNCHANGED Bar
<1>1. ASSUME NEW o \in Orders, PayFromWallet(o)
      PROVE  Promise!Spend(o, Wallet)
  <2>1. MarkPaid(o) /\ UNCHANGED <<status, target, held>>
    BY <1>1 DEF PayFromWallet
  <2>2. \A q \in Orders : Funders(q)' = Funders(q)
    BY <2>1 DEF Funders
  <2>3. Funders(o) = {}
    BY <2>1 DEF FundedOnce
  <2>4. SourcesOf(o)' = {Wallet}
    BY <2>1, <2>2, <2>3 DEF SourcesOf
  <2>5. Promise!Fund(o, Wallet)
    BY <2>1, <2>2, <2>4, OrderFunded
  <2>6. UNCHANGED HoldBar
    BY <2>1 DEF HoldBar
  <2>7. QED  BY <1>1, <2>5, <2>6 DEF Promise!Spend, PayFromWallet, HoldBar
<1>2. ASSUME NEW o \in Orders, CancelOrder(o)
      PROVE  Promise!Close(o)
  <2>1. /\ order[o] = "pending" /\ order' = [order EXCEPT ![o] = "cancelled"]
        /\ UNCHANGED <<wallet, status, target, held>>
    BY <1>2 DEF CancelOrder
  <2>2. \A q \in Orders : Funders(q)' = Funders(q)
    BY <2>1 DEF Funders
  <2>3. \A q \in Orders : SourcesOf(q)' = SourcesOf(q)
    BY <2>1, <2>2 DEF SourcesOf
  <2>4. SourcesOf(o) = {} /\ order[o] # "cancelled"
    BY <2>1 DEF SourcesOf
  <2>5. ClosedBar' = ClosedBar \cup {o}
    BY <2>1 DEF ClosedBar
  <2>6. QED  BY <2>1, <2>3, <2>4, <2>5 DEF Promise!Close, Promise!Open, ClosedBar
<1>3. ASSUME NEW i \in Intents, NEW p \in {"order", "invoice"}, NEW o \in Orders,
             ReserveAndSettle(i, p, o)
      PROVE  Promise!Spend(o, i)
  <2>1. /\ MarkPaid(o) /\ status[i] = "none"
        /\ status' = [status EXCEPT ![i] = "paid"]
        /\ target' = [target EXCEPT ![i] = o]
        /\ held' = [held EXCEPT ![i] = Price[o]]
        /\ Price[o] <= wallet /\ wallet' = wallet - Price[o]
    BY <1>3 DEF ReserveAndSettle
  <2>2. \A q \in Orders \ {o} : Funders(q)' = Funders(q)
    BY <2>1 DEF Funders
  <2>3. Funders(o) = {} /\ Funders(o)' = Funders(o) \cup {i}
    BY <2>1 DEF Funders, FundedOnce
  <2>4. SourcesOf(o)' = {i}
    BY <2>1, <2>3 DEF SourcesOf
  <2>5. Promise!Fund(o, i)
    BY <2>1, <2>2, <2>4, OrderFunded
  <2>6. UNCHANGED HoldBar
    BY <2>1 DEF HoldBar
  <2>7. QED  BY <2>1, <2>5, <2>6 DEF Promise!Spend, HoldBar
<1>4. ASSUME NEW i \in Intents, NEW p \in {"order", "invoice"}, NEW o \in Orders,
             NEW b \in 0..Price[o], Reserve(i, p, o, b)
      PROVE  Promise!Hold(i)
  <2>1. /\ status[i] = "none" /\ status' = [status EXCEPT ![i] = "pending"]
        /\ target' = [target EXCEPT ![i] = o]
        /\ held' = [held EXCEPT ![i] = b]
        /\ b <= wallet /\ wallet' = wallet - b
        /\ UNCHANGED order
    BY <1>4 DEF Reserve
  <2>2. \A q \in Orders : Funders(q)' = Funders(q)
    BY <2>1 DEF Funders
  <2>3. UNCHANGED <<SourcesBar, ClosedBar>>
    BY <2>1, <2>2, OrdersUntouched
  <2>4. HoldBar[i] = 0 /\ HoldBar' = [HoldBar EXCEPT ![i] = b]
    BY <2>1 DEF HoldBar
  <2>5. b \in 0..wallet
    BY <2>1
  <2>6. QED  BY <2>1, <2>3, <2>4, <2>5 DEF Promise!Hold, HoldBar, SourcesBar, ClosedBar
<1>5. ASSUME NEW t \in Threads, SettleOrder(t)
      PROVE  \E i \in Intents, o \in Orders : Promise!Capture(i, o)
  <2>1. thread[t].intent \in Intents /\ target[thread[t].intent] \in Orders
    BY <1>5 DEF SettleOrder, RowsConsistent
  <2>2. PICK i \in Intents, o \in Orders : i = thread[t].intent /\ o = target[i]
    BY <2>1
  <2>3. /\ MarkPaid(o) /\ status[i] = "pending"
        /\ status' = [status EXCEPT ![i] = "paid"]
        /\ UNCHANGED <<wallet, target, held>>
    BY <1>5, <2>2 DEF SettleOrder
  <2>4. \A q \in Orders \ {o} : Funders(q)' = Funders(q)
    BY <2>2, <2>3 DEF Funders
  <2>5. Funders(o) = {}
    BY <2>3 DEF FundedOnce
  <2>6. Funders(o)' = {i}
    BY <2>2, <2>3, <2>5 DEF Funders
  <2>7. SourcesOf(o)' = {i}
    BY <2>3, <2>6 DEF SourcesOf
  <2>8. Promise!Fund(o, i)
    BY <2>3, <2>4, <2>7, OrderFunded
  <2>9. HoldBar' = [HoldBar EXCEPT ![i] = 0]
    BY <2>3 DEF HoldBar
  <2>10. Promise!Capture(i, o)
    BY <2>3, <2>8, <2>9 DEF Promise!Capture, HoldBar
  <2>11. QED  BY <2>10
<1>6. ASSUME NEW n \in TopUps, Recharge(n)
      PROVE  Promise!Deposit
  <2>1. wallet' = wallet + n /\ n \in Nat /\ UNCHANGED <<order, status, target, held>>
    BY <1>6 DEF Recharge
  <2>2. UNCHANGED <<HoldBar, SourcesBar, ClosedBar>>
    BY <2>1 DEF HoldBar, SourcesBar, SourcesOf, ClosedBar, Funders
  <2>3. wallet' \in Nat /\ wallet' >= wallet
    BY <2>1
  <2>4. QED  BY <2>2, <2>3 DEF Promise!Deposit, HoldBar, SourcesBar, ClosedBar
<1>7. ASSUME NEW t \in Threads, SettleRecharge(t)
      PROVE  Promise!Deposit
  <2> DEFINE i == thread[t].intent
  <2>1. i \in Intents /\ target[i] = NoOrder /\ held[i] = 0
    BY <1>7 DEF SettleRecharge, RowsConsistent
  <2>2. /\ status[i] = "pending" /\ status' = [status EXCEPT ![i] = "paid"]
        /\ wallet' = wallet + amount[i]
        /\ UNCHANGED <<order, target, held>>
    BY <1>7 DEF SettleRecharge
  <2> HIDE DEF i
  <2>3. \A q \in Orders : Funders(q)' = Funders(q)
    BY <2>1, <2>2 DEF Funders
  <2>4. UNCHANGED <<SourcesBar, ClosedBar>>
    BY <2>2, <2>3, OrdersUntouched
  <2>5. UNCHANGED HoldBar
    BY <2>1, <2>2 DEF HoldBar
  <2>6. wallet' \in Nat /\ wallet' >= wallet
    BY <2>1, <2>2
  <2>7. QED  BY <2>4, <2>5, <2>6 DEF Promise!Deposit, HoldBar, SourcesBar, ClosedBar
<1>8. ASSUME NEW i \in Intents, NEW n \in TopUps, RequestRecharge(i, n)
      PROVE  UNCHANGED Bar
  <2>1. /\ status[i] = "none" /\ status' = [status EXCEPT ![i] = "pending"]
        /\ target' = [target EXCEPT ![i] = NoOrder]
        /\ held' = [held EXCEPT ![i] = 0]
        /\ UNCHANGED <<wallet, order>>
    BY <1>8 DEF RequestRecharge
  <2>2. \A q \in Orders : Funders(q)' = Funders(q)
    BY <2>1 DEF Funders
  <2>3. UNCHANGED <<SourcesBar, ClosedBar>>
    BY <2>1, <2>2, OrdersUntouched
  <2>4. UNCHANGED HoldBar
    BY <2>1 DEF HoldBar
  <2>5. QED  BY <2>1, <2>3, <2>4
<1>9. ASSUME NEW t \in Threads, RecordLate(t)
      PROVE  UNCHANGED Bar
  <2> DEFINE i == thread[t].intent
  <2>1. /\ i \in Intents /\ UNCHANGED <<wallet, order, target, held>>
        /\ \/ status[i] = "failed" /\ status' = [status EXCEPT ![i] = "late"]
           \/ UNCHANGED status
    BY <1>9 DEF RecordLate
  <2> HIDE DEF i
  <2>2. \A q \in Orders : Funders(q)' = Funders(q)
    BY <2>1 DEF Funders
  <2>3. UNCHANGED <<SourcesBar, ClosedBar>>
    BY <2>1, <2>2, OrdersUntouched
  <2>4. UNCHANGED HoldBar
    BY <2>1 DEF HoldBar
  <2>5. QED  BY <2>1, <2>3, <2>4
<1>10. ASSUME NEW i \in Intents, Compensate(i) \/ CancelIntent(i)
       PROVE  Goal
  <2>1. CASE Void(i)
    BY <2>1, VoidReleases DEF Promise!Next
  <2>2. CASE UNCHANGED <<moneyVars, orderVars, status, rowVars>>
    BY <2>2 DEF HoldBar, SourcesBar, SourcesOf, ClosedBar, Funders
  <2>3. QED  BY <1>10, <2>1, <2>2 DEF Compensate, CancelIntent
<1>11. ASSUME UNCHANGED <<wallet, order, status, target, held>>
       PROVE  UNCHANGED Bar
  BY <1>11 DEF HoldBar, SourcesBar, SourcesOf, ClosedBar, Funders
<1>12. Goal
  <2>1. ASSUME NEW o \in Orders, OrderStep(o)
        PROVE  Goal
    BY <2>1, <1>1, <1>2 DEF OrderStep, Promise!Next
  <2>2. ASSUME NEW i \in Intents, CreateStep(i)
        PROVE  Goal
    <3>1. CASE CreateReturns(i) \/ CreateFails(i)
      BY <3>1, <1>11 DEF CreateReturns, CreateFails
    <3>2. QED  BY <2>2, <3>1, <1>3, <1>4, <1>8, <1>10 DEF CreateStep, Promise!Next
  <2>3. ASSUME NEW t \in Threads, Finish(t)
        PROVE  Goal
    <3>1. CASE AcknowledgeRepeat(t) \/ Refuse(t)
      BY <3>1, <1>11 DEF AcknowledgeRepeat, Refuse
    <3>2. CASE SettleOrder(t)
      BY <3>2, <1>5 DEF Promise!Next
    <3>3. QED  BY <2>3, <3>1, <3>2, <1>7, <1>9 DEF Finish, Promise!Next
  <2>4. CASE \E i \in Intents : ChannelStep(i)
    BY <2>4, <1>11 DEF ChannelStep, OpenCharge, CustomerPays
  <2>5. CASE \E t \in Threads, i \in Intents :
                \/ \E x \in Misreports : CallbackArrives(t, i, x)
                \/ QueryAnswered(t, i)
    BY <2>5, <1>11 DEF CallbackArrives, QueryAnswered
  <2>6. CASE Crash \/ UNCHANGED vars
    BY <2>6, <1>11 DEF Crash, vars
  <2>7. CASE \E n \in TopUps : Recharge(n)
    BY <2>7, <1>6 DEF Promise!Next
  <2>8. QED  BY <2>1, <2>2, <2>3, <2>4, <2>5, <2>6, <2>7, <1>10 DEF Next
<1>13. QED  BY <1>12 DEF Promise!vars, HoldBar, SourcesBar, ClosedBar

\* The payment code keeps Settlement's promise: an order is funded once, from
\* one source, while it is open; what an intent holds is captured or returned.
THEOREM Implementation == Spec => Implements
<1>1. Init => Promise!Init
  BY DEF Init, Promise!Init, SourcesOf
<1>2. IInv /\ [Next]_vars => [Promise!Next]_(Promise!vars)
  BY StepImplements
<1>3. QED  BY <1>1, <1>2, InvariantHolds, PTL DEF Spec, Promise!Spec, Implements
=============================================================================
