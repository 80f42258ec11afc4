---------------------------- MODULE MCLifecycle ----------------------------
(* Small instances of Lifecycle for TLC.                                   *)
EXTENDS Lifecycle

CONSTANTS j1, j2

OneJob == {j1}
TwoJobs == {j1, j2}

\* A customer and an administrator, or a customer alone.
Both == [j \in Jobs |-> IF j = j1 THEN {"renew", "settle"} ELSE {"pause", "unpause"}]
Customer == [j \in Jobs |-> {"renew", "settle", "topup", "topupBalance"}]
Traffic == [j \in Jobs |-> {"topup"}]
Administrator == [j \in Jobs |-> {"unpause"}]

\* Bound: the administrator does not lift the suspension of a refunded service.
\* Whatever he lifts or pauses before the refund is explored.
RefundNotLifted ==
    refunded => \A j \in Jobs : at[j] \notin {"unpausing", "unpauseAgain", "unpauseWrite"}
=============================================================================
