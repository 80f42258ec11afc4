----------------------------- MODULE Lifecycle -----------------------------
(***************************************************************************)
(* One rented service with a machine behind it: the patrol that suspends,  *)
(* purges and resumes it (service/lifecycle.go, refund_reconcile.go) and   *)
(* the requests that pay for it, pause it or refund it meanwhile.          *)
(*                                                                         *)
(* A round of the patrol is a fixed sequence of database statements and    *)
(* calls to the upstream; every statement and every call is a step, so a   *)
(* request may commit between any two. `seen` is what a process read and   *)
(* still relies on. The service's auto_renew is off and no product change  *)
(* is pending.                                                             *)
(***************************************************************************)
EXTENDS Integers, FiniteSets

CONSTANTS
    Patrol,        \* the lifecycle goroutine
    Jobs,          \* requests that run at the same time as the patrol
    Kinds,         \* Kinds[j]: what request j may do, of AllKinds
    Refunds,       \* the order may be refunded
    Period, Grace, \* billing cycle and expiryGrace, in ticks
    MaxClock, MaxExpiry, MaxUsed, MaxQuota,   \* bounds
    MaxFaults,     \* bound on refused and lost calls
    MaxCrashes

AllKinds == {"renew", "settle", "topup", "topupBalance", "pause", "unpause"}
Procs == Jobs \cup {Patrol}
Never == -1

ASSUME ProcessAssumption == Patrol \notin Jobs
ASSUME ChoiceAssumption == Kinds \in [Jobs -> SUBSET AllKinds] /\ Refunds \in BOOLEAN
ASSUME BoundAssumption ==
    /\ Period \in Nat \ {0} /\ Grace \in Nat \ {0} /\ MaxQuota \in Nat \ {0}
    /\ MaxClock \in Nat /\ MaxUsed \in Nat
    /\ MaxFaults \in Nat /\ MaxCrashes \in Nat
    /\ MaxExpiry \in Nat /\ MaxExpiry >= Period

VARIABLES
    clock,         \* time.Now()
    row,           \* the services row
    upstream,      \* the machine (outside)
    due,           \* the upstream's own due date (outside)
    at,            \* the next step of each process
    seen,          \* the columns a process read and will use
    refunded,      \* the order behind the service is refunded
    faults,        \* calls refused or left unanswered so far
    crashes

vars == <<clock, row, upstream, due, at, seen, refunded, faults, crashes>>
outside == <<upstream, due, faults>>
steady == <<clock, refunded, crashes>>

Reasons == {"", "traffic", "expired", "refund", "enforcing", "terminating"}
Moments == Never..MaxClock
Dates == 0..MaxExpiry
Rows == [status : {"active", "suspended", "failed", "terminated"},
         reason : Reasons, expires : Dates, suspendedAt : Moments,
         resume : BOOLEAN, error : BOOLEAN, refundDue : BOOLEAN,
         quota : 1..MaxQuota, used : 0..MaxUsed]
Sights == [reason : Reasons, expires : Dates, suspendedAt : Moments,
           quota : 0..MaxQuota, used : 0..MaxUsed, now : 0..MaxClock]
Nothing == [reason |-> "", expires |-> 0, suspendedAt |-> Never,
            quota |-> 0, used |-> 0, now |-> 0]
Steps == {"idle", "revoke", "revoked", "recover", "traffic", "sample", "overQuota",
          "markTraffic", "undoTraffic", "expiry", "claimExpired", "stopExpired",
          "releaseExpired", "markExpired", "undoExpired", "terminations",
          "claimTerminate", "terminate", "recheck", "releaseTerminate",
          "markTerminated", "resumes", "unsuspend", "resumed", "resumeError",
          "renewing", "renewed", "renewFailed", "settling", "settled",
          "settleFailed", "reread", "rereadTraffic", "notify", "pausing",
          "pauseAgain", "unpausing", "unpauseAgain", "pauseWrite", "unpauseWrite"}

TypeOK ==
    /\ clock \in 0..MaxClock /\ row \in Rows /\ refunded \in BOOLEAN
    /\ upstream \in {"running", "stopped", "purged"} /\ due \in Dates
    /\ at \in [Procs -> Steps] /\ seen \in [Procs -> Sights]
    /\ faults \in 0..MaxFaults /\ crashes \in 0..MaxCrashes

Init ==
    /\ clock = 0 /\ faults = 0 /\ crashes = 0 /\ refunded = FALSE
    /\ row = [status |-> "active", reason |-> "", expires |-> Period,
              suspendedAt |-> Never, resume |-> FALSE, error |-> FALSE,
              refundDue |-> FALSE, quota |-> 1, used |-> 0]
    /\ upstream = "running" /\ due = Period
    /\ at = [p \in Procs |-> "idle"]
    /\ seen = [p \in Procs |-> Nothing]

Later(a, b) == IF a > b THEN a ELSE b
Suspended(reason) == row.status = "suspended" /\ row.reason = reason
OverQuota(used, quota) == used >= quota

Step(p, from, to) == at[p] = from /\ at' = [at EXCEPT ![p] = to]
Fork(p, from, test, yes, no) == Step(p, from, IF test THEN yes ELSE no)
Recall(p, sight) == seen' = [seen EXCEPT ![p] = sight]
Forget(p) == Recall(p, Nothing)
\* UPDATE ... WHERE: the row changes only if the condition holds of it.
Update(condition, changed) == row' = IF condition THEN changed ELSE row

Fault == faults < MaxFaults /\ faults' = faults + 1

\* ManageHost: a purged machine takes no orders but another TERMINATE; any
\* call may be refused, or its answer lost after the order was carried out.
Answers == {"ok", "refused", "lost"}
MayAnswer(action, answer) ==
    \/ answer # "ok" /\ Fault
    \/ /\ answer = IF upstream = "purged" /\ action # "purged" THEN "refused" ELSE "ok"
       /\ UNCHANGED faults

Call(action, answer) ==
    /\ MayAnswer(action, answer)
    /\ upstream' = IF answer = "refused" \/ upstream = "purged" THEN upstream ELSE action
    /\ UNCHANGED due

-----------------------------------------------------------------------------
(* retryRefundSuspensions and recoverStaleClaimMarkers.                    *)

RevocationDue == Suspended("refund") /\ row.refundDue

BeginRound ==
    /\ Fork(Patrol, "idle", RevocationDue, "revoke", "recover")
    /\ UNCHANGED <<row, outside, seen, steady>>

\* Mutant: a refused SUSPEND is taken for done.
RevokeOnce(answer) ==
    /\ Step(Patrol, "revoke", "revoked")
    /\ Call("stopped", answer)
    /\ UNCHANGED <<row, seen, steady>>

\* The provider's refusal keeps the flag and records the error.
Revoke(answer) ==
    /\ Fork(Patrol, "revoke", answer = "ok", "revoked", "recover")
    /\ Call("stopped", answer)
    /\ Update(answer # "ok" /\ RevocationDue, [row EXCEPT !.error = TRUE])
    /\ UNCHANGED <<seen, steady>>

Revoked ==
    /\ Step(Patrol, "revoked", "recover")
    /\ Update(RevocationDue, [row EXCEPT !.refundDue = FALSE, !.error = FALSE])
    /\ UNCHANGED <<outside, seen, steady>>

\* Mutant: the sweep resets only the termination marker.
RecoverTerminating ==
    /\ Step(Patrol, "recover", "traffic")
    /\ Update(row.reason = "terminating", [row EXCEPT !.reason = "expired"])
    /\ UNCHANGED <<outside, seen, steady>>

Recover ==
    /\ Step(Patrol, "recover", "traffic")
    /\ row' = [row EXCEPT !.reason = CASE @ = "enforcing" -> ""
                                       [] @ = "terminating" -> "expired"
                                       [] OTHER -> @]
    /\ UNCHANGED <<outside, seen, steady>>

-----------------------------------------------------------------------------
(* enforceTraffic: list, sample, SUSPEND, write.                           *)

ListTraffic ==
    /\ Fork(Patrol, "traffic", row.status = "active", "sample", "expiry")
    /\ Recall(Patrol, IF row.status = "active"
                      THEN [Nothing EXCEPT !.quota = row.quota, !.used = row.used]
                      ELSE Nothing)
    /\ UNCHANGED <<row, outside, steady>>

\* The counters read since the last round are added to traffic_used_bytes.
Sample ==
    \E used \in seen[Patrol].used..MaxUsed :
        /\ Fork(Patrol, "sample", OverQuota(used, seen[Patrol].quota),
                "overQuota", "expiry")
        /\ row' = [row EXCEPT !.used = used]
        /\ Forget(Patrol)
        /\ UNCHANGED <<outside, steady>>

NoMetrics ==
    /\ Fault /\ Step(Patrol, "sample", "expiry")
    /\ Forget(Patrol)
    /\ UNCHANGED <<row, upstream, due, steady>>

StopTraffic(answer) ==
    /\ Fork(Patrol, "overQuota", answer = "ok", "markTraffic", "expiry")
    /\ Call("stopped", answer)
    /\ UNCHANGED <<row, seen, steady>>

\* markSuspended(traffic): on the status and the reason alone.
MarkTraffic ==
    LET mine == row.status = "active" /\ row.reason = "" IN
    /\ Fork(Patrol, "markTraffic", mine, "expiry", "undoTraffic")
    /\ Update(mine, [row EXCEPT !.status = "suspended", !.reason = "traffic",
                                !.suspendedAt = clock])
    /\ UNCHANGED <<outside, seen, steady>>

UndoTraffic(answer) ==
    /\ Step(Patrol, "undoTraffic", "expiry")
    /\ Call("running", answer)
    /\ UNCHANGED <<row, seen, steady>>

-----------------------------------------------------------------------------
(* enforceExpiry, first half: claim the expiry read, SUSPEND, write.       *)

ListExpired ==
    LET expired == row.status = "active" /\ row.expires < clock IN
    /\ Fork(Patrol, "expiry", expired, "claimExpired", "terminations")
    /\ Recall(Patrol, [Nothing EXCEPT !.now = clock,
                          !.expires = IF expired THEN row.expires ELSE 0])
    /\ UNCHANGED <<row, outside, steady>>

ClaimExpired ==
    LET mine == /\ row.status = "active" /\ row.reason = ""
                /\ row.expires = seen[Patrol].expires IN
    /\ Fork(Patrol, "claimExpired", mine, "stopExpired", "terminations")
    /\ Update(mine, [row EXCEPT !.reason = "enforcing"])
    /\ UNCHANGED <<outside, seen, steady>>

StopExpired(answer) ==
    /\ Fork(Patrol, "stopExpired", answer = "ok", "markExpired", "releaseExpired")
    /\ Call("stopped", answer)
    /\ UNCHANGED <<row, seen, steady>>

ReleaseExpired ==
    /\ Step(Patrol, "releaseExpired", "terminations")
    /\ Update(row.reason = "enforcing", [row EXCEPT !.reason = ""])
    /\ UNCHANGED <<outside, seen, steady>>

\* markSuspended(expired): on the claim and the expiry it was taken for. What
\* this round suspended it does not terminate.
ExpiryClaimHolds == /\ row.status = "active" /\ row.reason = "enforcing"
                    /\ row.expires = seen[Patrol].expires

MarkExpiredIf(mine) ==
    /\ Fork(Patrol, "markExpired", mine, "resumes", "undoExpired")
    /\ Update(mine, [row EXCEPT !.status = "suspended", !.reason = "expired",
                                !.suspendedAt = seen[Patrol].now])
    /\ IF mine THEN Forget(Patrol) ELSE UNCHANGED seen
    /\ UNCHANGED <<outside, steady>>

\* Mutant: the write checks the status alone, as the traffic write does.
MarkExpiredByStatus == MarkExpiredIf(row.status = "active")

\* Mutant: an overtaken suspension is not rolled back at the upstream.
MarkExpiredNoUndo ==
    /\ Step(Patrol, "markExpired", IF ExpiryClaimHolds THEN "resumes" ELSE "terminations")
    /\ Update(ExpiryClaimHolds, [row EXCEPT !.status = "suspended", !.reason = "expired",
                                            !.suspendedAt = seen[Patrol].now])
    /\ UNCHANGED <<outside, seen, steady>>

MarkExpired == MarkExpiredIf(ExpiryClaimHolds)

UndoExpired(answer) ==
    /\ Step(Patrol, "undoExpired", "terminations")
    /\ Call("running", answer)
    /\ UNCHANGED <<row, seen, steady>>

-----------------------------------------------------------------------------
(* enforceExpiry, second half: claim the suspension read, TERMINATE, write.*)

Terminable == /\ Suspended("expired") /\ row.suspendedAt # Never
              /\ row.suspendedAt < seen[Patrol].now - Grace
              /\ row.expires < seen[Patrol].now

\* lifecycle_terminate_enabled is read for every candidate and may be off.
ListTerminable ==
    \/ /\ Terminable /\ Step(Patrol, "terminations", "claimTerminate")
       /\ Recall(Patrol, [Nothing EXCEPT !.expires = row.expires,
                                         !.suspendedAt = row.suspendedAt])
       /\ UNCHANGED <<row, outside, steady>>
    \/ /\ Step(Patrol, "terminations", "resumes")
       /\ Forget(Patrol)
       /\ UNCHANGED <<row, outside, steady>>

ClaimTerminateIf(mine, claimed) ==
    /\ Fork(Patrol, "claimTerminate", mine, "terminate", "resumes")
    /\ Update(mine, claimed)
    /\ Forget(Patrol)
    /\ UNCHANGED <<outside, steady>>

\* Mutant: the claim checks status and reason, and no snapshot.
ClaimTerminateByStatus ==
    ClaimTerminateIf(Suspended("expired"), [row EXCEPT !.reason = "terminating"])

\* Mutant: the marker goes into the status column.
ClaimInStatus ==
    ClaimTerminateIf(Suspended("expired"), [row EXCEPT !.status = "terminating"])

ClaimTerminate ==
    ClaimTerminateIf(/\ seen[Patrol].expires < clock /\ Suspended("expired")
                     /\ row.suspendedAt = seen[Patrol].suspendedAt
                     /\ row.expires = seen[Patrol].expires,
                     [row EXCEPT !.reason = "terminating"])

\* Mutant: whatever the upstream answers, the service is written off.
TerminateAnyway(answer) ==
    /\ Step(Patrol, "terminate", "recheck")
    /\ Call("purged", answer)
    /\ UNCHANGED <<row, seen, steady>>

Terminate(answer) ==
    /\ Fork(Patrol, "terminate", answer = "ok", "recheck", "releaseTerminate")
    /\ Call("purged", answer)
    /\ UNCHANGED <<row, seen, steady>>

Recheck ==
    /\ Fork(Patrol, "recheck", Suspended("terminating"),
            "markTerminated", "releaseTerminate")
    /\ UNCHANGED <<row, outside, seen, steady>>

ReleaseTerminate ==
    /\ Step(Patrol, "releaseTerminate", "resumes")
    /\ Update(row.reason = "terminating", [row EXCEPT !.reason = "expired"])
    /\ UNCHANGED <<outside, seen, steady>>

MarkTerminated ==
    /\ Step(Patrol, "markTerminated", "resumes")
    /\ Update(Suspended("expired") \/ Suspended("terminating"),
              [row EXCEPT !.status = "terminated", !.reason = "",
                          !.suspendedAt = Never])
    /\ UNCHANGED <<outside, seen, steady>>

-----------------------------------------------------------------------------
(* retryPendingResumes, and resumeSuspended for the patrol and for jobs.   *)

Resumable == /\ row.status = "suspended" /\ row.resume /\ row.error
             /\ \/ row.reason = "traffic" /\ ~OverQuota(row.used, row.quota)
                \/ row.reason = "expired" /\ row.expires > clock

ListResumes ==
    /\ Fork(Patrol, "resumes", Resumable, "unsuspend", "idle")
    /\ Recall(Patrol, IF Resumable THEN [Nothing EXCEPT !.reason = row.reason]
                                   ELSE Nothing)
    /\ UNCHANGED <<row, outside, steady>>

\* A topup goes on to tell the upstream its new total.
AfterResume(p) == IF seen[p].quota > 0 THEN "notify" ELSE "idle"

Unsuspend(p, answer) ==
    /\ Fork(p, "unsuspend", answer = "ok", "resumed", "resumeError")
    /\ Call("running", answer)
    /\ UNCHANGED <<row, seen, steady>>

\* Mutant: the failed resume is recorded, but not for the patrol to retry.
ResumeErrorLogged(p) ==
    /\ Step(p, "resumeError", AfterResume(p))
    /\ row' = [row EXCEPT !.error = TRUE]
    /\ Forget(p)
    /\ UNCHANGED <<outside, steady>>

ResumeError(p) ==
    /\ Step(p, "resumeError", AfterResume(p))
    /\ row' = [row EXCEPT !.error = TRUE, !.resume = TRUE]
    /\ Forget(p)
    /\ UNCHANGED <<outside, steady>>

ResumedIf(p, mine) ==
    /\ Step(p, "resumed", AfterResume(p))
    /\ Update(mine,
              [row EXCEPT !.status = "active", !.reason = "", !.suspendedAt = Never,
                          !.resume = FALSE, !.error = FALSE])
    /\ Forget(p)
    /\ UNCHANGED <<outside, steady>>

\* Mutant: any suspended service becomes active again.
ResumedByStatus(p) == ResumedIf(p, row.status = "suspended")

Resumed(p) == ResumedIf(p, Suspended(seen[p].reason))

-----------------------------------------------------------------------------
(* Renewals: "renew" is BillingService.renew or the callback of an external*)
(* payment, which resume the service; "settle" is SettleInvoice, which     *)
(* pays the invoice from the balance and does not.                         *)

Renewable == row.status = "active" \/ Suspended("traffic") \/ Suspended("expired")
NextExpiry(from) == Later(from, clock) + Period

\* applyRenewalTx: a suspended service stays suspended until its upstream
\* has been renewed.
Renewal(j, kind, next) ==
    /\ kind \in Kinds[j] /\ Renewable /\ NextExpiry(row.expires) <= MaxExpiry
    /\ Step(j, "idle", next)
    /\ row' = [row EXCEPT !.expires = NextExpiry(@), !.error = FALSE,
                          !.reason = IF row.status = "active" THEN "" ELSE @]
    /\ UNCHANGED <<outside, seen, steady>>

Renew(j) == Renewal(j, "renew", "renewing")
SettleRenewal(j) == Renewal(j, "settle", "settling")

\* The upstream's RENEW, and the due date its answer carries, if any.
RenewCall(j, from, good, bad) ==
    \E answer \in Answers, told \in BOOLEAN :
        /\ MayAnswer("renew", answer)
        /\ Fork(j, from, answer = "ok", good, bad)
        /\ due' = IF answer = "refused" \/ upstream = "purged" THEN due
                  ELSE NextExpiry(due)
        /\ due' <= MaxExpiry
        /\ Recall(j, [Nothing EXCEPT !.expires =
                         IF answer = "ok" /\ told THEN due' ELSE 0])
        /\ UNCHANGED <<row, upstream, steady>>

RenewUpstream(j) == \/ RenewCall(j, "renewing", "renewed", "renewFailed")
                    \/ RenewCall(j, "settling", "settled", "settleFailed")

\* reconcileUpstreamRenewal writes by id alone, whatever the row became.
Reconciled(j) ==
    /\ Step(j, "renewed", "reread") \/ Step(j, "settled", "idle")
    /\ row' = [row EXCEPT !.error = FALSE,
                          !.expires = IF seen[j].expires # 0 THEN seen[j].expires ELSE @]
    /\ Forget(j)
    /\ UNCHANGED <<outside, steady>>

ReconcileFails(j) ==
    /\ Step(j, "renewFailed", "reread") \/ Step(j, "settleFailed", "idle")
    /\ row' = [row EXCEPT !.status = "failed", !.error = TRUE]
    /\ Forget(j)
    /\ UNCHANGED <<outside, steady>>

-----------------------------------------------------------------------------
(* Traffic packages: paid through a channel ("topup", which resumes) or    *)
(* from the balance ("topupBalance", which does not). The invoice was made *)
(* while the service was active; settling it asks for no status.           *)

TopUp(j) ==
    \E kind \in Kinds[j] \cap {"topup", "topupBalance"} :
        /\ row.quota < MaxQuota
        /\ Step(j, "idle", IF kind = "topup" THEN "rereadTraffic" ELSE "notify")
        /\ row' = [row EXCEPT !.quota = @ + 1]
        /\ UNCHANGED <<outside, seen, steady>>

\* The row is read again after the commit; only these reasons are resumed.
Reread(j, from, reasons, else, quota) ==
    LET due_ == row.status = "suspended" /\ row.reason \in reasons IN
    /\ Fork(j, from, due_, "unsuspend", else)
    /\ Recall(j, IF due_ THEN [Nothing EXCEPT !.reason = row.reason, !.quota = quota]
                 ELSE Nothing)
    /\ UNCHANGED <<row, outside, steady>>

RereadService(j) == \/ Reread(j, "reread", {"traffic", "expired"}, "idle", 0)
                    \/ Reread(j, "rereadTraffic", {"traffic"}, "notify", 1)

\* ReconcileTrafficUpstream: a failure only leaves provision_error.
Notify(j) ==
    /\ Step(j, "notify", "idle")
    /\ \E answer \in Answers :
          /\ MayAnswer("notify", answer)
          /\ Update(answer # "ok", [row EXCEPT !.error = TRUE])
    /\ UNCHANGED <<upstream, due, seen, steady>>

-----------------------------------------------------------------------------
(* AdminService.SetServiceStatus, and the refund's final transaction.      *)

SetStatus(j, kind, status, call, again) ==
    /\ kind \in Kinds[j]
    /\ Fork(j, "idle", row.status = status, again, call)
    /\ UNCHANGED <<row, outside, seen, steady>>

SetServiceStatus(j) ==
    \/ SetStatus(j, "pause", "suspended", "pausing", "pauseAgain")
    \/ SetStatus(j, "unpause", "active", "unpausing", "unpauseAgain")

\* The same status again only clears the reason: the administrator takes over.
TakeOver(j) ==
    /\ Step(j, "pauseAgain", "idle") \/ Step(j, "unpauseAgain", "idle")
    /\ row' = [row EXCEPT !.reason = ""]
    /\ UNCHANGED <<outside, seen, steady>>

SetUpstream(j) ==
    \E answer \in Answers :
        /\ \/ /\ Fork(j, "pausing", answer = "ok", "pauseWrite", "idle")
              /\ Call("stopped", answer)
           \/ /\ Fork(j, "unpausing", answer = "ok", "unpauseWrite", "idle")
              /\ Call("running", answer)
        /\ UNCHANGED <<row, seen, steady>>

WriteStatus(j) ==
    /\ \/ /\ Step(j, "pauseWrite", "idle")
          /\ row' = [row EXCEPT !.status = "suspended", !.reason = ""]
       \/ /\ Step(j, "unpauseWrite", "idle")
          /\ row' = [row EXCEPT !.status = "active", !.reason = ""]
    /\ UNCHANGED <<outside, seen, steady>>

\* A completed refund suspends the service if it is active at that moment.
Refund ==
    /\ Refunds /\ ~refunded /\ refunded' = TRUE
    /\ Update(row.status = "active",
              [row EXCEPT !.status = "suspended", !.reason = "refund",
                          !.suspendedAt = clock, !.resume = FALSE, !.refundDue = TRUE])
    /\ UNCHANGED <<outside, at, seen, clock, crashes>>

-----------------------------------------------------------------------------
\* A tick is hours or days, a RENEW call ends within two minutes: no time
\* passes between a renewal's commit and the end of its reconciliation.
Reconciling == {"renewing", "renewed", "renewFailed",
                "settling", "settled", "settleFailed"}

Tick == /\ clock < MaxClock /\ clock' = clock + 1
        /\ \A j \in Jobs : at[j] \notin Reconciling
        /\ UNCHANGED <<row, outside, at, seen, refunded, crashes>>

\* The process dies; what it had committed, and the machine, remain.
Crash == /\ crashes < MaxCrashes /\ crashes' = crashes + 1
         /\ at' = [p \in Procs |-> "idle"] /\ seen' = [p \in Procs |-> Nothing]
         /\ UNCHANGED <<row, outside, clock, refunded>>

PatrolCall(answer) ==
    \/ Revoke(answer) \/ StopTraffic(answer) \/ UndoTraffic(answer)
    \/ StopExpired(answer) \/ UndoExpired(answer) \/ Terminate(answer)
    \/ Unsuspend(Patrol, answer)

PatrolStep ==
    \/ BeginRound \/ Revoked \/ Recover
    \/ ListTraffic \/ Sample \/ NoMetrics \/ MarkTraffic
    \/ ListExpired \/ ClaimExpired \/ ReleaseExpired \/ MarkExpired
    \/ ListTerminable \/ ClaimTerminate \/ Recheck \/ ReleaseTerminate
    \/ MarkTerminated \/ ListResumes \/ ResumeError(Patrol) \/ Resumed(Patrol)
    \/ \E answer \in Answers : PatrolCall(answer)

JobStep(j) ==
    \/ RenewUpstream(j) \/ Reconciled(j) \/ ReconcileFails(j)
    \/ RereadService(j) \/ Notify(j) \/ ResumeError(j) \/ Resumed(j)
    \/ TakeOver(j) \/ SetUpstream(j) \/ WriteStatus(j)
    \/ \E answer \in Answers : Unsuspend(j, answer)

Request(j) == Renew(j) \/ SettleRenewal(j) \/ TopUp(j) \/ SetServiceStatus(j)

Next == \/ PatrolStep \/ Refund \/ Tick \/ Crash
        \/ \E j \in Jobs : Request(j) \/ JobStep(j)

Spec == Init /\ [][Next]_vars

\* Rounds go on and a request that began runs to its end. The upstream's
\* faults are finitely many, so one that is called again and again obeys.
FairSpec == Spec /\ WF_vars(PatrolStep) /\ \A j \in Jobs : WF_vars(JobStep(j))

-----------------------------------------------------------------------------
(* What must hold.                                                         *)

\* A service is `terminated` in the books only when its machine is gone: a
\* failed or unanswered TERMINATE is released and tried again.
TerminatedIsGone == row.status = "terminated" => upstream = "purged"

Purges == upstream # "purged" /\ upstream' = "purged"

\* TERMINATE, which cannot be undone, reaches the upstream only for a service
\* whose paid time is over and which has been down for longer than the grace
\* period: no renewal or refund that commits between the list, the claim and
\* the call is overtaken (claimTerminateSnapshot). Only an administrator, who
\* writes by id, can take a service out of the claim before the call.
NeverPurgedEarly ==
    [][Purges /\ Suspended("terminating")
          => /\ row.expires < clock /\ row.suspendedAt # Never
             /\ row.suspendedAt + Grace < clock]_vars

\* A service is written down as suspended for expiry only while the time paid
\* for is over, whatever the patrol had read before it called the upstream
\* (claimExpiredSnapshot, markSuspended).
PaidTimeNotSuspended ==
    [][(Suspended("expired"))' /\ row.status = "active" => row.expires < clock]_vars

\* A service an administrator paused carries no reason, and the patrol leaves
\* it alone: no list, claim or resume that began before the pause overrides it
\* (SetServiceStatus, the suspend_reason of every conditional write).
ManualPauseKept ==
    [][Suspended("") /\ PatrolStep => (Suspended(""))']_vars

\* A service whose order was refunded is never reopened but by an
\* administrator, by no resume or renewal that some request or round had begun
\* before (RefundSuspendPending, resumeSuspended).
RevokedStaysShut ==
    [][Suspended("refund") /\ row'.status = "active" => \E j \in Jobs : WriteStatus(j)]_vars

\* A claim marker in suspend_reason never stays: a round that dies between its
\* claim and its write leaves one, and a later round clears it before it lists
\* (recoverStaleClaimMarkers).
MarkersClear == row.reason \in {"enforcing", "terminating"}
                    ~> row.reason \notin {"enforcing", "terminating"}

\* "the lifecycle patrol reconciles the upstream side": rounds go on until the
\* machine of a refunded service is down, as long as the row shows it as
\* suspended and no resume that began before the refund comes after the SUSPEND
\* (retryRefundSuspensions).
Resuming == \E p \in Procs : at[p] \in {"unsuspend", "resumed"}
RevokedUpstream == row.refundDue /\ ~Resuming /\ at[Patrol] # "revoked"
                       ~> upstream # "running" \/ row.status # "suspended"

\* A service that is paid for does not stay down: who renewed it, or bought traffic
\* through a channel, resumes it, and a resume that fails is retried until the machine
\* is back or the time is over (resumeSuspended, retryPendingResumes).  The exceptions:
\* the process dies on the way; a package paid from the balance resumes nothing
\* (payment.go:478-485), nor does one the patrol overtook (TopUpResumes); and a renewal
\* settled as an invoice (487-490) resumes nothing either and clears the error that the
\* retry of an earlier resume needs, against lifecycle.go:17-18 and 448.
PaidButDown == \/ Suspended("expired") /\ row.expires > clock
               \/ Suspended("traffic") /\ ~OverQuota(row.used, row.quota)
ResumeOwed == \/ row.resume /\ row.error
              \/ \E j \in Jobs : at[j] \in {"renewing", "renewed", "reread"}
              \/ \E j \in Jobs : at[j] = "rereadTraffic" /\ row.reason = "traffic"
InvoiceSettling == \E j \in Jobs : at[j] \in {"settling", "settled", "settleFailed"}
PaidServiceResumes ==
    \A n \in 0..MaxCrashes :
       PaidButDown /\ ResumeOwed /\ crashes = n
          ~> ~PaidButDown \/ InvoiceSettling \/ crashes > n

\* Suspensions that a payment overtook are rolled back at the upstream: when
\* no process is under way and every call was answered, an active service runs
\* (enforceTraffic, enforceExpiry).
ActiveRuns == /\ faults = 0 /\ crashes = 0 /\ row.status = "active"
              /\ \A p \in Procs : at[p] = "idle"
              => upstream = "running"

\* "resumes by itself after a top-up", "the local books prevail"
\* (enforceTraffic): the comments promise it and the code does not keep it, if
\* the top-up commits between the patrol's list and its write.
TopUpResumes == Suspended("traffic") /\ ~OverQuota(row.used, row.quota)
                    ~> ~Suspended("traffic")

\* "a terminated service is not revived here" (SetServiceStatus): the comment
\* promises it too.
TerminatedIsFinal == [][row.status = "terminated" => row'.status = "terminated"]_vars

-----------------------------------------------------------------------------
(* The inductive invariant.                                                *)

\* Whoever resumes the service read a reason that can be paid away.
ResumersKnow == \A p \in Procs :
    at[p] \in {"unsuspend", "resumed"} => seen[p].reason \in {"traffic", "expired"}

\* What the patrol wants to suspend had expired when it was listed.
ExpiryRead == at[Patrol] \in {"claimExpired", "stopExpired", "markExpired"}
                  => seen[Patrol].expires < clock

GoneWhenWritten == at[Patrol] \in {"recheck", "markTerminated"} => upstream = "purged"

IInv == TypeOK /\ ResumersKnow /\ ExpiryRead /\ GoneWhenWritten /\ TerminatedIsGone

GraceOver(since) == since # Never /\ since + Grace < clock

\* The suspension the patrol read is older than the grace period, and the one
\* it claimed is the one it read.
TerminateRead == /\ seen[Patrol].now <= clock
                 /\ at[Patrol] = "claimTerminate" => GraceOver(seen[Patrol].suspendedAt)
TerminateClaimed == at[Patrol] = "terminate" /\ Suspended("terminating")
                       => row.expires < clock /\ GraceOver(row.suspendedAt)

\* A renewal that committed is not yet used up, nor is what its answer says.
RenewalsPaid == \A j \in Jobs :
    IF at[j] \in Reconciling
    THEN row.expires >= clock /\ (seen[j].expires # 0 => seen[j].expires >= clock)
    ELSE seen[j].expires = 0

TimeInv == IInv /\ TerminateRead /\ TerminateClaimed /\ RenewalsPaid

=============================================================================
