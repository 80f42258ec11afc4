----------------------------- MODULE MCPayment -----------------------------
(* Small instances of Payment for TLC.                                     *)
EXTENDS Payment, TLC

CONSTANTS o1, o2, i1, i2, i3, t1, t2

TwoOrders == {o1, o2}
OneOrder == {o1}
ThreeIntents == {i1, i2, i3}
TwoIntents == {i1, i2}
OneThread == {t1}
TwoThreads == {t1, t2}

FlatPrice == [o \in Orders |-> 2]
UnitPrice == [o \in Orders |-> 1]
OneCentMore == {0, 1}

IntentSymmetry == Permutations(Intents)
FullSymmetry == Permutations(Intents) \cup Permutations(Orders) \cup Permutations(Threads)
=============================================================================
