------------------------------ MODULE MCRefund ------------------------------
(* Small instances of Refund for TLC.                                      *)
EXTENDS Refund, TLC

CONSTANTS o1, o2, r1, r2, r3

OneOrder == {o1}
TwoOrders == {o1, o2}
TwoRequests == {r1, r2}
ThreeRequests == {r1, r2, r3}

ChannelOf == [o \in Orders |-> IF o = o1 THEN 2 ELSE 0]
HeldOf == [o \in Orders |-> 1]
NoFaults == {}

RequestSymmetry == Permutations(Requests)
=============================================================================
