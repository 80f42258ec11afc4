------------------------------ MODULE MCLiveness ------------------------------
(***************************************************************************)
(* Two protocols that share no state, payments and automatic renewal, and  *)
(* what each must bring about.  A behaviour chooses one of them at its     *)
(* start and only that one moves.                                          *)
(***************************************************************************)
EXTENDS MCPayment, AutoRenew

VARIABLE focus      \* the protocol that moves

livenessVars == <<focus, vars, renewalVars>>

LivenessInit == focus \in {"payment", "renewal"} /\ Init /\ RenewalInit

LivenessNext ==
    \/ focus = "payment" /\ UNCHANGED <<focus, renewalVars>> /\ Next
    \/ focus = "renewal" /\ UNCHANGED <<focus, vars>> /\ RenewalNext

\* Payment's own fairness.  The patrol of each process runs on a ticker, again after
\* a restart, and three minutes pass; how often calls fail and processes die is
\* bounded by MaxTrouble.  Where payments move no lease is ever taken.
RenewalFairness ==
    /\ \A s \in Sweepers : WF_renewalVars(focus = "renewal" /\ Sweep(s))
    /\ \A e \in Expiries : WF_renewalVars(LeaseEnds(e))

LivenessSpec == LivenessInit /\ [][LivenessNext]_livenessVars /\ Fairness /\ RenewalFairness
=============================================================================
