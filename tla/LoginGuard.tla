----------------------------- MODULE LoginGuard -----------------------------
(***************************************************************************)
(* A login as far as the password (handler/auth.go, loginlimit, captcha,   *)
(* service/captcha.go, service/user.go): the limiter's failure counts by   *)
(* account and by source, the one-time captcha, and several attempts under *)
(* way at once.                                                            *)
(*                                                                         *)
(* One account, one entry (the two entries count apart) and one source.    *)
(* The limiter's operations hold its mutex from their Enter to their Leave *)
(* step.  The sweep takes no mutex: it judges the account's record, then   *)
(* deletes it, and the source's record after that, with the others' steps  *)
(* between.  That the cap on records is reached, where a failure sweeps    *)
(* too, is left out.  Time is in units of the base lock, 15 minutes.       *)
(***************************************************************************)
EXTENDS Integers, FiniteSets

CONSTANTS
    Attempts,      \* requests to log in
    Images,        \* captcha challenges issued
    AccountFailLimit, IpFailLimit,
    AccountWindow, IpWindow, IpLock, MaxLock, RecordTTL,
    CaptchaTTL,
    MaxClock       \* bound on time

ASSUME LoginGuardAssumption ==
    /\ {AccountFailLimit, IpFailLimit, MaxLock, IpLock, CaptchaTTL} \subseteq Nat \ {0}
    /\ {AccountWindow, IpWindow, RecordTTL, MaxClock} \subseteq Nat

VARIABLES
    clock,
    captchaOn,     \* login_enabled; the administrators' entry always asks
    accountRec,    \* accountRecord: failures, lockedUntil, lastFailure
    sourceRec,     \* sourceRecord: the failures' times, lockedUntil
    image,         \* the captcha entries
    attempt,       \* where each request is
    holder,        \* who holds the limiter's mutex
    sweeping,      \* where sweepLocked is, and what it has judged
    tried          \* history: answers compared with each challenge

guardVars == <<clock, captchaOn, accountRec, sourceRec, image, attempt, holder, sweeping, tried>>

Free == "free"
NoRecord == [failures |-> 0, lockedUntil |-> 0, lastFailure |-> 0]
NoSource == [failures |-> {}, lockedUntil |-> 0]

\* `old` is the outcome of the test of a record and `lock` the lock it saw there.
NotSweeping == [at |-> "idle", now |-> 0, old |-> FALSE, lock |-> 0]

LoginGuardTypeOK ==
    /\ clock \in 0..MaxClock /\ captchaOn \in BOOLEAN
    /\ accountRec \in [failures : Nat, lockedUntil : Nat, lastFailure : 0..MaxClock]
    /\ sourceRec.failures \subseteq Attempts \X (0..MaxClock) /\ sourceRec.lockedUntil \in Nat
    /\ image \in [Images -> [live : BOOLEAN, expires : Nat]]
    /\ attempt \in [Attempts -> {"start", "check", "captcha", "password", "fail", "success", "done"}]
    /\ holder \in Attempts \cup {Free}
    /\ sweeping \in [at : {"idle", "account", "sources", "source"}, now : 0..MaxClock,
                     old : BOOLEAN, lock : Nat]
    /\ tried \in [Images -> Nat]

LoginGuardInit ==
    /\ clock = 0 /\ captchaOn = TRUE
    /\ accountRec = NoRecord /\ sourceRec = NoSource
    /\ image = [i \in Images |-> [live |-> FALSE, expires |-> 0]]
    /\ attempt = [r \in Attempts |-> "start"]
    /\ holder = Free /\ sweeping = NotSweeping
    /\ tried = [i \in Images |-> 0]

Goto(r, at) == attempt' = [attempt EXCEPT ![r] = at]

\* The limiter's mutex.
Enter(r, from, at) ==
    /\ attempt[r] = from /\ holder = Free
    /\ holder' = r /\ Goto(r, at)

Locked == accountRec.lockedUntil > clock \/ sourceRec.lockedUntil > clock

\* allowLogin and Check.
EnterCheck(r) ==
    /\ Enter(r, "start", "check")
    /\ UNCHANGED <<clock, captchaOn, accountRec, sourceRec, image, sweeping, tried>>

LeaveCheck(r) ==
    /\ attempt[r] = "check" /\ holder = r /\ holder' = Free
    /\ Goto(r, IF Locked THEN "done" ELSE "captcha")
    /\ UNCHANGED <<clock, captchaOn, accountRec, sourceRec, image, sweeping, tried>>

\* Issue, under an id of its own (`expires` is zero before it).  The oldest entries
\* beyond maxEntries go first, which this model's few never reach.
IssueCaptcha(i) ==
    /\ image[i].expires = 0
    /\ image' = [image EXCEPT ![i] = [live |-> TRUE, expires |-> clock + CaptchaTTL]]
    /\ UNCHANGED <<clock, captchaOn, accountRec, sourceRec, attempt, holder, sweeping, tried>>

\* evictLocked, in the next Issue.
EvictCaptcha(i) ==
    /\ image[i].live /\ clock > image[i].expires
    /\ image' = [image EXCEPT ![i].live = FALSE]
    /\ UNCHANGED <<clock, captchaOn, accountRec, sourceRec, attempt, holder, sweeping, tried>>

\* Mutant: a wrong answer leaves the challenge in place.
SpentIfRight(i, right) == image' = [image EXCEPT ![i].live = ~right]

\* Store.Verify deletes the entry whatever the answer.
Spent(i, right) == image' = [image EXCEPT ![i].live = FALSE]

\* CaptchaService.Verify: not asked where the scene is off; the entry is used up by
\* any answer.  A failure here is no failed login.
VerifyCaptcha(r) ==
    /\ attempt[r] = "captcha"
    /\ \/ ~captchaOn /\ Goto(r, "password") /\ UNCHANGED <<image, tried>>
       \/ captchaOn /\ Goto(r, "done") /\ UNCHANGED <<image, tried>>
       \/ \E i \in Images, right \in BOOLEAN :
             /\ captchaOn /\ image[i].live /\ Spent(i, right)
             /\ tried' = [tried EXCEPT ![i] = @ + 1]
             /\ Goto(r, IF right /\ clock <= image[i].expires THEN "password" ELSE "done")
    /\ UNCHANGED <<clock, captchaOn, accountRec, sourceRec, holder, sweeping>>

\* users.Login: the account may be unknown, disabled or of the other entry, all of
\* which count as failures, or the password right.
CheckPassword(r) ==
    /\ attempt[r] = "password"
    /\ Goto(r, "fail") \/ Goto(r, "success")
    /\ UNCHANGED <<clock, captchaOn, accountRec, sourceRec, image, holder, sweeping, tried>>

Longer(a, b) == IF a > b THEN a ELSE b

\* Mutant: a failure while locked sets the lock anew.
LockAnew(rec, count, lock) == clock + lock

\* A lock is only ever extended.
LockExtended(rec, count, lock) == Longer(rec.lockedUntil, clock + lock)

\* recordAccountFailure: the count starts again after the window; the lock doubles.
FailedAccount ==
    LET count == (IF clock - accountRec.lastFailure > AccountWindow THEN 0 ELSE accountRec.failures) + 1
        doubled == 2 ^ (count - AccountFailLimit)
        lock == IF doubled > MaxLock THEN MaxLock ELSE doubled
    IN [failures |-> count, lastFailure |-> clock,
        lockedUntil |-> IF count >= AccountFailLimit THEN LockExtended(accountRec, count, lock)
                        ELSE accountRec.lockedUntil]

\* recordSourceFailure: a sliding window.
FailedSource(r) ==
    LET recent == {f \in sourceRec.failures : clock - f[2] <= IpWindow} \cup {<<r, clock>>}
    IN [failures |-> recent,
        lockedUntil |-> IF Cardinality(recent) >= IpFailLimit
                        THEN Longer(sourceRec.lockedUntil, clock + IpLock) ELSE sourceRec.lockedUntil]

\* RecordFailure.
EnterFailure(r) ==
    /\ attempt[r] = "fail" /\ holder = Free /\ holder' = r
    /\ UNCHANGED <<clock, captchaOn, accountRec, sourceRec, image, attempt, sweeping, tried>>

LeaveFailure(r) ==
    /\ attempt[r] = "fail" /\ holder = r /\ holder' = Free /\ Goto(r, "done")
    /\ accountRec' = FailedAccount /\ sourceRec' = FailedSource(r)
    /\ UNCHANGED <<clock, captchaOn, image, sweeping, tried>>

\* RecordSuccess: the account's record goes, lock and all; the source's stays.
RecordSuccess(r) ==
    /\ attempt[r] = "success" /\ holder = Free /\ Goto(r, "done")
    /\ accountRec' = NoRecord
    /\ UNCHANGED <<clock, captchaOn, sourceRec, image, holder, sweeping, tried>>

\* Old and not locked; a record that is not there is not judged.
OldAccount(now) ==
    /\ accountRec # NoRecord
    /\ now - accountRec.lastFailure > RecordTTL /\ now > accountRec.lockedUntil

OldSource(now) ==
    /\ sourceRec # NoSource
    /\ \A f \in sourceRec.failures : now - f[2] > IpWindow
    /\ now > sourceRec.lockedUntil

\* sweepLoop reads the clock and calls sweepLocked, without the mutex, which judges
\* the account's record ...
StartSweep ==
    /\ sweeping.at = "idle"
    /\ sweeping' = [at |-> "account", now |-> clock, old |-> OldAccount(clock),
                    lock |-> accountRec.lockedUntil]
    /\ UNCHANGED <<clock, captchaOn, accountRec, sourceRec, image, attempt, holder, tried>>

\* ... deletes it as judged, whatever it has become, ...
SweepAccount ==
    /\ sweeping.at = "account"
    /\ sweeping' = [at |-> "sources", now |-> sweeping.now, old |-> FALSE, lock |-> 0]
    /\ accountRec' = IF sweeping.old THEN NoRecord ELSE accountRec
    /\ UNCHANGED <<clock, captchaOn, sourceRec, image, attempt, holder, tried>>

\* ... and does the same to the source's.
JudgeSource ==
    /\ sweeping.at = "sources"
    /\ sweeping' = [at |-> "source", now |-> sweeping.now, old |-> OldSource(sweeping.now),
                    lock |-> sourceRec.lockedUntil]
    /\ UNCHANGED <<clock, captchaOn, accountRec, sourceRec, image, attempt, holder, tried>>

FinishSweep ==
    /\ sweeping.at = "source" /\ sweeping' = NotSweeping
    /\ sourceRec' = IF sweeping.old THEN NoSource ELSE sourceRec
    /\ UNCHANGED <<clock, captchaOn, accountRec, image, attempt, holder, tried>>

\* SaveCaptcha.
SwitchCaptcha ==
    /\ captchaOn' = ~captchaOn
    /\ UNCHANGED <<clock, accountRec, sourceRec, image, attempt, holder, sweeping, tried>>

\* Time passes, and a restart forgets the counts, the challenges and the requests; the
\* runtime ends the process too where it notices the sweep's unguarded use of a map.
ClockTicks ==
    /\ clock < MaxClock /\ clock' = clock + 1
    /\ UNCHANGED <<captchaOn, accountRec, sourceRec, image, attempt, holder, sweeping, tried>>

GuardRestarts ==
    /\ accountRec' = NoRecord /\ sourceRec' = NoSource
    /\ image' = [i \in Images |-> [image[i] EXCEPT !.live = FALSE]]
    /\ attempt' = [r \in Attempts |-> IF attempt[r] = "start" THEN "start" ELSE "done"]
    /\ holder' = Free /\ sweeping' = NotSweeping
    /\ UNCHANGED <<clock, captchaOn, tried>>

LoginGuardNext ==
    \/ \E r \in Attempts :
          \/ EnterCheck(r) \/ LeaveCheck(r) \/ VerifyCaptcha(r) \/ CheckPassword(r)
          \/ EnterFailure(r) \/ LeaveFailure(r) \/ RecordSuccess(r)
    \/ \E i \in Images : IssueCaptcha(i) \/ EvictCaptcha(i)
    \/ StartSweep \/ SweepAccount \/ JudgeSource \/ FinishSweep
    \/ SwitchCaptcha \/ ClockTicks \/ GuardRestarts

LoginGuardSpec == LoginGuardInit /\ [][LoginGuardNext]_guardVars

-----------------------------------------------------------------------------
\* Whatever requests race for one challenge, its answer is compared once.
OneTryPerImage == \A i \in Images : tried[i] <= 1

\* The sweep is about to delete a record whose lock was set after the record was judged.
LockedSinceJudged(at, lockedUntil) == sweeping.at = at /\ sweeping.lock # lockedUntil

\* No failure, however many attempts were let in before the lock, shortens it, and no
\* sweep forgets a lock it saw: a lock ends with time, with the right password (the
\* account's), or with the process.  The exception is a lock set between the sweep's
\* test of the record (loginlimit.go:207, 212) and its delete (208, 213), which the sweep,
\* without the mutex, does forget.
LockStands ==
    /\ accountRec'.lockedUntil < accountRec.lockedUntil =>
          \/ clock > accountRec.lockedUntil
          \/ \E r \in Attempts : attempt[r] = "success" /\ attempt'[r] = "done"
          \/ SweepAccount /\ LockedSinceJudged("account", accountRec.lockedUntil)
          \/ GuardRestarts
    /\ sourceRec'.lockedUntil < sourceRec.lockedUntil =>
          \/ clock > sourceRec.lockedUntil
          \/ FinishSweep /\ LockedSinceJudged("source", sourceRec.lockedUntil)
          \/ GuardRestarts
=============================================================================
