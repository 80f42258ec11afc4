------------------------------ MODULE AgentProgram -----------------------------
(***************************************************************************)
(* The agent programme (service/agent_program.go, handler/admin.go         *)
(* UpdateAgentProgram): tiers with a threshold on the balance, and         *)
(* applications that a review binds to a tier.                             *)
(*                                                                         *)
(* Nothing here is a transaction: an application counts and inserts, a     *)
(* review reads, saves the application and then the account, and saving    *)
(* the programme deletes every tier and makes new ones, each with a new    *)
(* id.  A process may die after any of these steps.                        *)
(***************************************************************************)
EXTENDS Integers, FiniteSets

CONSTANTS
    Partners,       \* accounts
    Tiers,          \* ids of tiers, those in use and those to come
    Applications,   \* rows of applications
    Desks,          \* requests in flight
    Thresholds      \* balances that tiers may ask for, and accounts may have

ASSUME AgentProgramAssumption ==
    /\ Thresholds \subseteq Nat /\ Thresholds # {}
    /\ "none" \notin Partners \cup Tiers \cup Applications
    /\ IsFiniteSet(Applications) /\ IsFiniteSet(Desks)

VARIABLES
    manual,         \* the mode: staff review, or by the balance
    tier,           \* the rows of the tiers
    partner,        \* each account's balance and agent_tier_id
    application,    \* the rows of the applications
    desk,           \* each request and what it has read
    rivals          \* history: applications that two reviews read as pending

agentVars == <<manual, tier, partner, application, desk, rivals>>

NoTier == [life |-> "none", min |-> 0]
NoApplication == [who |-> "none", tier |-> "none", status |-> "none"]
FreeDesk == [at |-> "idle", who |-> "none", what |-> "none", tier |-> "none", approve |-> FALSE]

AgentTypeOK ==
    /\ manual \in BOOLEAN /\ rivals \subseteq Applications
    /\ tier \in [Tiers -> [life : {"none", "here", "gone"}, min : Nat]]
    /\ partner \in [Partners -> [balance : Thresholds, bound : Tiers \cup {"none"}]]
    /\ application \in [Applications -> [who : Partners \cup {"none"}, tier : Tiers \cup {"none"},
                                         status : {"none", "pending", "approved", "rejected"}]]
    /\ desk \in [Desks -> [at : {"idle", "counted", "reviewed", "saved", "rebuilding"},
                           who : Partners \cup {"none"}, what : Applications \cup {"none"},
                           tier : Tiers \cup {"none"}, approve : BOOLEAN]]

AgentInit ==
    /\ manual \in BOOLEAN /\ rivals = {}
    /\ tier = [t \in Tiers |-> NoTier]
    /\ partner \in [Partners -> [balance : Thresholds, bound : {"none"}]]
    /\ application = [a \in Applications |-> NoApplication]
    /\ desk = [d \in Desks |-> FreeDesk]

Open == {t \in Tiers : tier[t].life = "here"}
Clears(d) == desk' = [desk EXCEPT ![d] = FreeDesk]

-----------------------------------------------------------------------------
\* UpdateAgentProgram: the old tiers go, the new ones come one by one.
DropTiers(d) ==
    /\ desk[d].at = "idle"
    /\ tier' = [t \in Tiers |-> IF t \in Open THEN [NoTier EXCEPT !.life = "gone"] ELSE tier[t]]
    /\ desk' = [desk EXCEPT ![d].at = "rebuilding"]
    /\ UNCHANGED <<manual, partner, application, rivals>>

MakeTier(d, t, min) ==
    /\ desk[d].at = "rebuilding" /\ tier[t].life = "none"
    /\ tier' = [tier EXCEPT ![t] = [life |-> "here", min |-> min]]
    /\ UNCHANGED <<manual, partner, application, desk, rivals>>

SetMode(m) ==
    /\ manual' = m
    /\ UNCHANGED <<tier, partner, application, desk, rivals>>

\* TierForUser: a binding to a tier that is gone counts for nothing.
TierForBalance(balance) ==
    LET reached == {t \in Open : balance >= tier[t].min} IN
    {t \in reached : \A w \in reached : tier[w].min <= tier[t].min}
TierForUser(u) ==
    IF partner[u].bound \in Open THEN {partner[u].bound}
    ELSE IF manual THEN {} ELSE TierForBalance(partner[u].balance)

-----------------------------------------------------------------------------
\* Apply: the tier, the balance where the staff reviews, and no other application.
Pending(u) == {a \in Applications : application[a].who = u /\ application[a].status = "pending"}

BeginApply(d, u, t) ==
    /\ desk[d].at = "idle" /\ t \in Open
    /\ manual => partner[u].balance >= tier[t].min
    /\ Pending(u) = {}
    /\ desk' = [desk EXCEPT ![d] = [FreeDesk EXCEPT !.at = "counted", !.who = u, !.tier = t]]
    /\ UNCHANGED <<manual, tier, partner, application, rivals>>

InsertApplication(d, a) ==
    /\ desk[d].at = "counted" /\ application[a] = NoApplication
    /\ application' = [application EXCEPT ![a] =
           [who |-> desk[d].who, tier |-> desk[d].tier, status |-> "pending"]]
    /\ Clears(d)
    /\ UNCHANGED <<manual, tier, partner, rivals>>

-----------------------------------------------------------------------------
\* Mutant: an application that was dealt with is dealt with again.
ReviewableEver(a) == application[a] # NoApplication
Reviewable(a) == application[a].status = "pending"

BeginReview(d, a, approve) ==
    /\ desk[d].at = "idle" /\ Reviewable(a)
    /\ desk' = [desk EXCEPT ![d] = [at |-> "reviewed", who |-> application[a].who, what |-> a,
                                    tier |-> application[a].tier, approve |-> approve]]
    /\ rivals' = IF \E e \in Desks : desk[e].at \in {"reviewed", "saved"} /\ desk[e].what = a
                 THEN rivals \cup {a} ELSE rivals
    /\ UNCHANGED <<manual, tier, partner, application>>

\* The whole row is saved, whatever another review wrote.
SaveReview(d) ==
    /\ desk[d].at = "reviewed"
    /\ application' = [application EXCEPT ![desk[d].what].status =
           IF desk[d].approve THEN "approved" ELSE "rejected"]
    /\ IF desk[d].approve THEN desk' = [desk EXCEPT ![d].at = "saved"] ELSE Clears(d)
    /\ UNCHANGED <<manual, tier, partner, rivals>>

BindTier(d) ==
    /\ desk[d].at = "saved"
    /\ partner' = [partner EXCEPT ![desk[d].who].bound = desk[d].tier]
    /\ Clears(d)
    /\ UNCHANGED <<manual, tier, application, rivals>>

\* The request ends, or the process dies, after any step.
DeskEnds(d) ==
    /\ desk[d].at # "idle"
    /\ Clears(d)
    /\ UNCHANGED <<manual, tier, partner, application, rivals>>

BalanceMoves(u, balance) ==
    /\ partner' = [partner EXCEPT ![u].balance = balance]
    /\ UNCHANGED <<manual, tier, application, desk, rivals>>

AgentNext ==
    \/ \E d \in Desks : DropTiers(d)
    \/ \E d \in Desks, t \in Tiers, min \in Thresholds : MakeTier(d, t, min)
    \/ \E m \in BOOLEAN : SetMode(m)
    \/ \E d \in Desks, u \in Partners, t \in Tiers : BeginApply(d, u, t)
    \/ \E d \in Desks, a \in Applications : InsertApplication(d, a)
    \/ \E d \in Desks, a \in Applications, approve \in BOOLEAN : BeginReview(d, a, approve)
    \/ \E d \in Desks : SaveReview(d)
    \/ \E d \in Desks : BindTier(d)
    \/ \E d \in Desks : DeskEnds(d)
    \/ \E u \in Partners, balance \in Thresholds : BalanceMoves(u, balance)

AgentSpec == AgentInit /\ [][AgentNext]_agentVars

-----------------------------------------------------------------------------
(***************************************************************************)
(* An account is bound to a tier only by an application for that tier      *)
(* which ended approved, unless two reviews read it as pending at once:    *)
(* the status and the binding are two writes (agent_program.go:429-446).   *)
(* The tier that prices its orders is that one, or under the automatic     *)
(* mode one its balance reaches.  No more applications of an account wait  *)
(* than requests counted at once.                                          *)
(***************************************************************************)
Reviewed(u, t) ==
    \E a \in Applications : /\ application[a].who = u /\ application[a].tier = t
                            /\ application[a].status = "approved" \/ a \in rivals

BindingsReviewed ==
    \A u \in Partners :
        /\ partner[u].bound = "none" \/ Reviewed(u, partner[u].bound)
        /\ \A t \in TierForUser(u) :
               Reviewed(u, t) \/ (~manual /\ partner[u].balance >= tier[t].min)
        /\ Cardinality(Pending(u)) + Cardinality({d \in Desks : desk[d].at = "counted" /\ desk[d].who = u})
             <= Cardinality(Desks)
=============================================================================
