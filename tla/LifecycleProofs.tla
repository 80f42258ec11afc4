-------------------------- MODULE LifecycleProofs --------------------------
(***************************************************************************)
(* Proofs about Lifecycle.tla, for any number of requests, any kinds of    *)
(* them, any faults and crashes, and any length of period and grace.       *)
(***************************************************************************)
EXTENDS Lifecycle, TLAPS

USE ProcessAssumption, BoundAssumption
    DEF steady, outside, Procs, Fork, Reread, SetStatus, Suspended

\* What IInv says beyond the types.
Reads == ResumersKnow /\ ExpiryRead /\ GoneWhenWritten /\ TerminatedIsGone

\* What a step, and what a process remembers, leave well typed.
LEMMA Moves ==
  ASSUME TypeOK, NEW p, NEW from, NEW to \in Steps, Step(p, from, to)
  PROVE  at' \in [Procs -> Steps]
BY DEF TypeOK, Step

\* A well-typed sight can be remembered.
LEMMA Recalls ==
  ASSUME TypeOK, NEW p, NEW sight \in Sights, Recall(p, sight)
  PROVE  seen' \in [Procs -> Sights]
BY DEF TypeOK, Recall

\* The times of the clock are moments.
LEMMA MomentsKnown == Never \in Moments /\ 0..MaxClock \subseteq Moments
BY DEF Moments, Never

\* Remembering nothing is well typed.
LEMMA NothingTyped == Nothing \in Sights
BY MomentsKnown DEF Nothing, Sights, Reasons, Dates

\* The first steps of a round: refund revocations and stale markers.
LEMMA RevocationKeeps ==
  ASSUME IInv, NEW answer \in Answers,
         BeginRound \/ Revoke(answer) \/ Revoked \/ Recover
  PROVE  IInv'
<1>0. TypeOK /\ Reads
  BY DEF IInv, Reads
<1>1. CASE BeginRound
  <2>1. at' \in [Procs -> Steps]
    BY <1>0, <1>1, Moves DEF BeginRound, Steps
  <2>2. TypeOK'
    BY <1>0, <1>1, <2>1 DEF BeginRound, TypeOK
  <2>3. Reads'
    BY <1>0, <1>1, <2>2 DEF BeginRound, Forget, Recall, Step, TypeOK, Rows, Reads,
        ResumersKnow, ExpiryRead, GoneWhenWritten, TerminatedIsGone
  <2>4. QED  BY <2>2, <2>3 DEF IInv, Reads
<1>2. CASE Revoke(answer)
  <2>1. at' \in [Procs -> Steps]
    BY <1>0, <1>2, Moves DEF Revoke, Call, MayAnswer, Fault, Steps
  <2>2. row' \in Rows
    BY <1>0, <1>2 DEF Revoke, Call, MayAnswer, Fault, Update, TypeOK, Rows, Reasons
  <2>3. TypeOK'
    BY <1>0, <1>2, <2>1, <2>2 DEF Revoke, Call, MayAnswer, Fault, TypeOK
  <2>4. Reads'
    BY <1>0, <1>2, <2>3 DEF Revoke, Call, MayAnswer, Fault, Forget, Recall, Step,
        TypeOK, Rows, Reads, ResumersKnow, ExpiryRead, GoneWhenWritten,
        TerminatedIsGone, Update
  <2>5. QED  BY <2>3, <2>4 DEF IInv, Reads
<1>3. CASE Revoked
  <2>1. at' \in [Procs -> Steps]
    BY <1>0, <1>3, Moves DEF Revoked, Steps
  <2>2. row' \in Rows
    BY <1>0, <1>3 DEF Revoked, Update, TypeOK, Rows, Reasons
  <2>3. TypeOK'
    BY <1>0, <1>3, <2>1, <2>2 DEF Revoked, TypeOK
  <2>4. Reads'
    BY <1>0, <1>3, <2>3 DEF Revoked, Forget, Recall, Step, TypeOK, Rows, Reads,
        ResumersKnow, ExpiryRead, GoneWhenWritten, TerminatedIsGone, Update
  <2>5. QED  BY <2>3, <2>4 DEF IInv, Reads
<1>4. CASE Recover
  <2>1. at' \in [Procs -> Steps]
    BY <1>0, <1>4, Moves DEF Recover, Steps
  <2>2. row' \in Rows
    BY <1>0, <1>4 DEF Recover, Update, TypeOK, Rows, Reasons
  <2>3. TypeOK'
    BY <1>0, <1>4, <2>1, <2>2 DEF Recover, TypeOK
  <2>4. Reads'
    BY <1>0, <1>4, <2>3 DEF Recover, Forget, Recall, Step, TypeOK, Rows, Reads,
        ResumersKnow, ExpiryRead, GoneWhenWritten, TerminatedIsGone
  <2>5. QED  BY <2>3, <2>4 DEF IInv, Reads
<1>5. QED  BY <1>1, <1>2, <1>3, <1>4

\* enforceTraffic.
LEMMA TrafficKeeps ==
  ASSUME IInv, NEW answer \in Answers,
         \/ ListTraffic \/ Sample \/ NoMetrics
         \/ StopTraffic(answer) \/ MarkTraffic \/ UndoTraffic(answer)
  PROVE  IInv'
<1>0. TypeOK /\ Reads
  BY DEF IInv, Reads
<1>1. CASE ListTraffic
  <2>1. at' \in [Procs -> Steps]
    BY <1>0, <1>1, Moves DEF ListTraffic, Steps
  <2>2. seen' \in [Procs -> Sights]
    <3>1. row.quota \in 0..MaxQuota /\ row.used \in 0..MaxUsed
      BY <1>0 DEF TypeOK, Rows
    <3>2. [Nothing EXCEPT !.quota = row.quota, !.used = row.used] \in Sights
      BY <3>1, NothingTyped DEF Sights
    <3>3. QED  BY <1>0, <1>1, <3>2, Recalls, NothingTyped DEF ListTraffic
  <2>3. TypeOK'
    BY <1>0, <1>1, <2>1, <2>2 DEF ListTraffic, TypeOK
  <2>4. Reads'
    BY <1>0, <1>1, <2>3 DEF ListTraffic, Forget, Recall, Step, TypeOK, Rows, Reads,
        ResumersKnow, ExpiryRead, GoneWhenWritten, TerminatedIsGone
  <2>5. QED  BY <2>3, <2>4 DEF IInv, Reads
<1>2. CASE Sample
  <2>1. at' \in [Procs -> Steps]
    BY <1>0, <1>2, Moves DEF Sample, Steps
  <2>2. seen' \in [Procs -> Sights]
    BY <1>0, <1>2, Recalls, NothingTyped DEF Sample, Steps, Forget
  <2>3. row' \in Rows
    <3>1. PICK u \in seen[Patrol].used..MaxUsed : row' = [row EXCEPT !.used = u]
      BY <1>0, <1>2 DEF Sample
    <3>2. u \in 0..MaxUsed
      BY <1>0 DEF TypeOK, Sights
    <3>3. QED  BY <1>0, <3>1, <3>2 DEF TypeOK, Rows
  <2>4. TypeOK'
    BY <1>0, <1>2, <2>1, <2>2, <2>3 DEF Sample, TypeOK
  <2>5. Reads'
    BY <1>0, <1>2, <2>4 DEF Sample, Forget, Recall, Step, TypeOK, Rows, Reads,
        ResumersKnow, ExpiryRead, GoneWhenWritten, TerminatedIsGone
  <2>6. QED  BY <2>4, <2>5 DEF IInv, Reads
<1>3. CASE NoMetrics
  <2>1. at' \in [Procs -> Steps]
    BY <1>0, <1>3, Moves DEF NoMetrics, Fault, Steps
  <2>2. seen' \in [Procs -> Sights]
    BY <1>0, <1>3, Recalls, NothingTyped DEF NoMetrics, Fault, Steps, Forget
  <2>3. TypeOK'
    BY <1>0, <1>3, <2>1, <2>2 DEF NoMetrics, Fault, TypeOK
  <2>4. Reads'
    BY <1>0, <1>3, <2>3 DEF NoMetrics, Fault, Forget, Recall, Step, TypeOK, Rows,
        Reads, ResumersKnow, ExpiryRead, GoneWhenWritten, TerminatedIsGone
  <2>5. QED  BY <2>3, <2>4 DEF IInv, Reads
<1>4. CASE StopTraffic(answer)
  <2>1. at' \in [Procs -> Steps]
    BY <1>0, <1>4, Moves DEF StopTraffic, Call, MayAnswer, Fault, Steps
  <2>2. TypeOK'
    BY <1>0, <1>4, <2>1 DEF StopTraffic, Call, MayAnswer, Fault, TypeOK
  <2>3. Reads'
    BY <1>0, <1>4, <2>2 DEF StopTraffic, Call, MayAnswer, Fault, Forget, Recall,
        Step, TypeOK, Rows, Reads, ResumersKnow, ExpiryRead, GoneWhenWritten,
        TerminatedIsGone
  <2>4. QED  BY <2>2, <2>3 DEF IInv, Reads
<1>5. CASE MarkTraffic
  <2>1. at' \in [Procs -> Steps]
    BY <1>0, <1>5, Moves DEF MarkTraffic, Steps
  <2>2. row' \in Rows
    BY <1>0, <1>5, MomentsKnown DEF MarkTraffic, Update, TypeOK, Rows, Reasons
  <2>3. TypeOK'
    BY <1>0, <1>5, <2>1, <2>2 DEF MarkTraffic, TypeOK
  <2>4. Reads'
    BY <1>0, <1>5, <2>3 DEF MarkTraffic, Forget, Recall, Step, TypeOK, Rows, Reads,
        ResumersKnow, ExpiryRead, GoneWhenWritten, TerminatedIsGone, Update
  <2>5. QED  BY <2>3, <2>4 DEF IInv, Reads
<1>6. CASE UndoTraffic(answer)
  <2>1. at' \in [Procs -> Steps]
    BY <1>0, <1>6, Moves DEF UndoTraffic, Call, MayAnswer, Fault, Steps
  <2>2. TypeOK'
    BY <1>0, <1>6, <2>1 DEF UndoTraffic, Call, MayAnswer, Fault, TypeOK
  <2>3. Reads'
    BY <1>0, <1>6, <2>2 DEF UndoTraffic, Call, MayAnswer, Fault, Forget, Recall,
        Step, TypeOK, Rows, Reads, ResumersKnow, ExpiryRead, GoneWhenWritten,
        TerminatedIsGone
  <2>4. QED  BY <2>2, <2>3 DEF IInv, Reads
<1>7. QED  BY <1>1, <1>2, <1>3, <1>4, <1>5, <1>6

\* The first half of enforceExpiry.
LEMMA ExpiryKeeps ==
  ASSUME IInv, NEW answer \in Answers,
         \/ ListExpired \/ ClaimExpired \/ StopExpired(answer)
         \/ ReleaseExpired \/ MarkExpired \/ UndoExpired(answer)
  PROVE  IInv'
<1>0. TypeOK /\ Reads
  BY DEF IInv, Reads
<1>1. CASE ListExpired
  <2>1. at' \in [Procs -> Steps]
    BY <1>0, <1>1, Moves DEF ListExpired, Steps
  <2>2. seen' \in [Procs -> Sights]
    <3>1. /\ clock \in 0..MaxClock /\ row.expires \in Dates /\ 0 \in Dates
      BY <1>0 DEF TypeOK, Rows, Dates
    <3>2. \A x \in Dates : [Nothing EXCEPT !.now = clock, !.expires = x] \in Sights
      BY <3>1, NothingTyped DEF Sights
    <3>3. QED  BY <1>0, <1>1, <3>1, <3>2, Recalls DEF ListExpired
  <2>3. TypeOK'
    BY <1>0, <1>1, <2>1, <2>2 DEF ListExpired, TypeOK
  <2>4. Reads'
    BY <1>0, <1>1, <2>3 DEF ListExpired, Forget, Recall, Step, TypeOK, Rows, Reads,
        ResumersKnow, ExpiryRead, GoneWhenWritten, TerminatedIsGone, Nothing
  <2>5. QED  BY <2>3, <2>4 DEF IInv, Reads
<1>2. CASE ClaimExpired
  <2>1. at' \in [Procs -> Steps]
    BY <1>0, <1>2, Moves DEF ClaimExpired, Steps
  <2>2. row' \in Rows
    BY <1>0, <1>2 DEF ClaimExpired, Update, TypeOK, Rows, Reasons
  <2>3. TypeOK'
    BY <1>0, <1>2, <2>1, <2>2 DEF ClaimExpired, TypeOK
  <2>4. Reads'
    BY <1>0, <1>2, <2>3 DEF ClaimExpired, Forget, Recall, Step, TypeOK, Rows, Reads,
        ResumersKnow, ExpiryRead, GoneWhenWritten, TerminatedIsGone, Update
  <2>5. QED  BY <2>3, <2>4 DEF IInv, Reads
<1>3. CASE StopExpired(answer)
  <2>1. at' \in [Procs -> Steps]
    BY <1>0, <1>3, Moves DEF StopExpired, Call, MayAnswer, Fault, Steps
  <2>2. TypeOK'
    BY <1>0, <1>3, <2>1 DEF StopExpired, Call, MayAnswer, Fault, TypeOK
  <2>3. Reads'
    BY <1>0, <1>3, <2>2 DEF StopExpired, Call, MayAnswer, Fault, Forget, Recall,
        Step, TypeOK, Rows, Reads, ResumersKnow, ExpiryRead, GoneWhenWritten,
        TerminatedIsGone
  <2>4. QED  BY <2>2, <2>3 DEF IInv, Reads
<1>4. CASE ReleaseExpired
  <2>1. at' \in [Procs -> Steps]
    BY <1>0, <1>4, Moves DEF ReleaseExpired, Steps
  <2>2. row' \in Rows
    BY <1>0, <1>4 DEF ReleaseExpired, Update, TypeOK, Rows, Reasons
  <2>3. TypeOK'
    BY <1>0, <1>4, <2>1, <2>2 DEF ReleaseExpired, TypeOK
  <2>4. Reads'
    BY <1>0, <1>4, <2>3 DEF ReleaseExpired, Forget, Recall, Step, TypeOK, Rows,
        Reads, ResumersKnow, ExpiryRead, GoneWhenWritten, TerminatedIsGone, Update
  <2>5. QED  BY <2>3, <2>4 DEF IInv, Reads
<1>5. CASE MarkExpired
  <2>1. at' \in [Procs -> Steps]
    BY <1>0, <1>5, Moves DEF MarkExpired, MarkExpiredIf, Steps
  <2>2. seen' \in [Procs -> Sights]
    BY <1>0, <1>5, Recalls, NothingTyped DEF MarkExpired, MarkExpiredIf, Forget,
        TypeOK
  <2>3. row' \in Rows
    <3>1. seen[Patrol].now \in Moments
      BY <1>0, MomentsKnown DEF TypeOK, Sights
    <3>2. QED  BY <1>0, <1>5, <3>1 DEF MarkExpired, MarkExpiredIf, Update, TypeOK,
        Rows, Reasons
  <2>4. TypeOK'
    BY <1>0, <1>5, <2>1, <2>2, <2>3 DEF MarkExpired, MarkExpiredIf, TypeOK
  <2>5. Reads'
    BY <1>0, <1>5, <2>4 DEF MarkExpired, MarkExpiredIf, Forget, Recall, Step,
        TypeOK, Rows, Reads, ResumersKnow, ExpiryRead, GoneWhenWritten,
        TerminatedIsGone, Update
  <2>6. QED  BY <2>4, <2>5 DEF IInv, Reads
<1>6. CASE UndoExpired(answer)
  <2>1. at' \in [Procs -> Steps]
    BY <1>0, <1>6, Moves DEF UndoExpired, Call, MayAnswer, Fault, Steps
  <2>2. TypeOK'
    BY <1>0, <1>6, <2>1 DEF UndoExpired, Call, MayAnswer, Fault, TypeOK
  <2>3. Reads'
    BY <1>0, <1>6, <2>2 DEF UndoExpired, Call, MayAnswer, Fault, Forget, Recall,
        Step, TypeOK, Rows, Reads, ResumersKnow, ExpiryRead, GoneWhenWritten,
        TerminatedIsGone
  <2>4. QED  BY <2>2, <2>3 DEF IInv, Reads
<1>7. QED  BY <1>1, <1>2, <1>3, <1>4, <1>5, <1>6

\* The second half of enforceExpiry.
LEMMA TerminationKeeps ==
  ASSUME IInv, NEW answer \in Answers,
         \/ ListTerminable \/ ClaimTerminate \/ Terminate(answer)
         \/ Recheck \/ ReleaseTerminate \/ MarkTerminated
  PROVE  IInv'
<1>0. TypeOK /\ Reads
  BY DEF IInv, Reads
<1>1. CASE ListTerminable
  <2>1. at' \in [Procs -> Steps]
    BY <1>0, <1>1, Moves DEF ListTerminable, Steps
  <2>2. seen' \in [Procs -> Sights]
    <3>1. PICK x \in Dates, m \in Moments :
            Recall(Patrol, [Nothing EXCEPT !.expires = x, !.suspendedAt = m]) \/ Forget(Patrol)
      BY <1>0, <1>1 DEF ListTerminable, TypeOK, Rows, Forget
    <3>2. [Nothing EXCEPT !.expires = x, !.suspendedAt = m] \in Sights
      BY NothingTyped DEF Sights
    <3>3. QED  BY <1>0, <3>1, <3>2, Recalls, NothingTyped DEF Forget
  <2>3. TypeOK'
    BY <1>0, <1>1, <2>1, <2>2 DEF ListTerminable, TypeOK
  <2>4. Reads'
    BY <1>0, <1>1, <2>3 DEF ListTerminable, Forget, Recall, Step, TypeOK, Rows,
        Reads, ResumersKnow, ExpiryRead, GoneWhenWritten, TerminatedIsGone
  <2>5. QED  BY <2>3, <2>4 DEF IInv, Reads
<1>2. CASE ClaimTerminate
  <2>1. at' \in [Procs -> Steps]
    BY <1>0, <1>2, Moves DEF ClaimTerminate, ClaimTerminateIf, Steps
  <2>2. seen' \in [Procs -> Sights]
    BY <1>0, <1>2, Recalls, NothingTyped DEF ClaimTerminate, ClaimTerminateIf,
        Steps, Forget
  <2>3. row' \in Rows
    BY <1>0, <1>2 DEF ClaimTerminate, ClaimTerminateIf, Update, TypeOK, Rows, Reasons
  <2>4. TypeOK'
    BY <1>0, <1>2, <2>1, <2>2, <2>3 DEF ClaimTerminate, ClaimTerminateIf, TypeOK
  <2>5. Reads'
    BY <1>0, <1>2, <2>4 DEF ClaimTerminate, ClaimTerminateIf, Forget, Recall, Step,
        TypeOK, Rows, Reads, ResumersKnow, ExpiryRead, GoneWhenWritten,
        TerminatedIsGone, Update
  <2>6. QED  BY <2>4, <2>5 DEF IInv, Reads
<1>3. CASE Terminate(answer)
  <2>1. at' \in [Procs -> Steps]
    BY <1>0, <1>3, Moves DEF Terminate, Call, MayAnswer, Fault, Steps
  <2>2. TypeOK'
    BY <1>0, <1>3, <2>1 DEF Terminate, Call, MayAnswer, Fault, TypeOK
  <2>3. Reads'
    BY <1>0, <1>3, <2>2 DEF Terminate, Call, MayAnswer, Fault, Forget, Recall, Step,
        TypeOK, Rows, Reads, ResumersKnow, ExpiryRead, GoneWhenWritten,
        TerminatedIsGone
  <2>4. QED  BY <2>2, <2>3 DEF IInv, Reads
<1>4. CASE Recheck
  <2>1. at' \in [Procs -> Steps]
    BY <1>0, <1>4, Moves DEF Recheck, Steps
  <2>2. TypeOK'
    BY <1>0, <1>4, <2>1 DEF Recheck, TypeOK
  <2>3. Reads'
    BY <1>0, <1>4, <2>2 DEF Recheck, Forget, Recall, Step, TypeOK, Rows, Reads,
        ResumersKnow, ExpiryRead, GoneWhenWritten, TerminatedIsGone
  <2>4. QED  BY <2>2, <2>3 DEF IInv, Reads
<1>5. CASE ReleaseTerminate
  <2>1. at' \in [Procs -> Steps]
    BY <1>0, <1>5, Moves DEF ReleaseTerminate, Steps
  <2>2. row' \in Rows
    BY <1>0, <1>5 DEF ReleaseTerminate, Update, TypeOK, Rows, Reasons
  <2>3. TypeOK'
    BY <1>0, <1>5, <2>1, <2>2 DEF ReleaseTerminate, TypeOK
  <2>4. Reads'
    BY <1>0, <1>5, <2>3 DEF ReleaseTerminate, Forget, Recall, Step, TypeOK, Rows,
        Reads, ResumersKnow, ExpiryRead, GoneWhenWritten, TerminatedIsGone, Update
  <2>5. QED  BY <2>3, <2>4 DEF IInv, Reads
<1>6. CASE MarkTerminated
  <2>1. at' \in [Procs -> Steps]
    BY <1>0, <1>6, Moves DEF MarkTerminated, Steps
  <2>2. row' \in Rows
    BY <1>0, <1>6, MomentsKnown DEF MarkTerminated, Update, TypeOK, Rows, Reasons
  <2>3. TypeOK'
    BY <1>0, <1>6, <2>1, <2>2 DEF MarkTerminated, TypeOK
  <2>4. Reads'
    BY <1>0, <1>6, <2>3 DEF MarkTerminated, Forget, Recall, Step, TypeOK, Rows,
        Reads, ResumersKnow, ExpiryRead, GoneWhenWritten, TerminatedIsGone, Update
  <2>5. QED  BY <2>3, <2>4 DEF IInv, Reads
<1>7. QED  BY <1>1, <1>2, <1>3, <1>4, <1>5, <1>6

\* Resumes, by the patrol and by requests.
LEMMA ResumeKeeps ==
  ASSUME IInv, NEW answer \in Answers, NEW p \in Procs,
         ListResumes \/ Unsuspend(p, answer) \/ ResumeError(p) \/ Resumed(p)
  PROVE  IInv'
<1>0. TypeOK /\ Reads
  BY DEF IInv, Reads
<1>1. CASE ListResumes
  <2>1. at' \in [Procs -> Steps]
    BY <1>0, <1>1, Moves DEF ListResumes, Steps
  <2>2. seen' \in [Procs -> Sights]
    <3>1. PICK r \in Reasons :
            Recall(Patrol, [Nothing EXCEPT !.reason = r]) \/ Forget(Patrol)
      BY <1>0, <1>1 DEF ListResumes, TypeOK, Rows, Forget
    <3>2. [Nothing EXCEPT !.reason = r] \in Sights
      BY NothingTyped DEF Sights
    <3>3. QED  BY <1>0, <3>1, <3>2, Recalls, NothingTyped DEF Forget
  <2>3. TypeOK'
    BY <1>0, <1>1, <2>1, <2>2 DEF ListResumes, TypeOK
  <2>4. Reads'
    BY <1>0, <1>1, <2>3 DEF ListResumes, Forget, Recall, Step, TypeOK, Rows, Reads,
        ResumersKnow, ExpiryRead, GoneWhenWritten, TerminatedIsGone, Resumable,
        Nothing
  <2>5. QED  BY <2>3, <2>4 DEF IInv, Reads
<1>2. CASE Unsuspend(p, answer)
  <2>1. at' \in [Procs -> Steps]
    BY <1>0, <1>2, Moves DEF Unsuspend, Call, MayAnswer, Fault, Steps
  <2>2. TypeOK'
    BY <1>0, <1>2, <2>1 DEF Unsuspend, Call, MayAnswer, Fault, TypeOK
  <2>3. Reads'
    BY <1>0, <1>2, <2>2 DEF Unsuspend, Call, MayAnswer, Fault, Forget, Recall, Step,
        TypeOK, Rows, Reads, ResumersKnow, ExpiryRead, GoneWhenWritten,
        TerminatedIsGone
  <2>4. QED  BY <2>2, <2>3 DEF IInv, Reads
<1>3. CASE ResumeError(p)
  <2>1. at' \in [Procs -> Steps]
    BY <1>0, <1>3, Moves DEF ResumeError, AfterResume, Steps
  <2>2. seen' \in [Procs -> Sights]
    BY <1>0, <1>3, Recalls, NothingTyped DEF ResumeError, AfterResume, Steps, Forget
  <2>3. row' \in Rows
    BY <1>0, <1>3 DEF ResumeError, AfterResume, Update, TypeOK, Rows, Reasons
  <2>4. TypeOK'
    BY <1>0, <1>3, <2>1, <2>2, <2>3 DEF ResumeError, AfterResume, TypeOK
  <2>5. Reads'
    BY <1>0, <1>3, <2>4 DEF ResumeError, AfterResume, Forget, Recall, Step, TypeOK,
        Rows, Reads, ResumersKnow, ExpiryRead, GoneWhenWritten, TerminatedIsGone
  <2>6. QED  BY <2>4, <2>5 DEF IInv, Reads
<1>4. CASE Resumed(p)
  <2>1. at' \in [Procs -> Steps]
    BY <1>0, <1>4, Moves DEF Resumed, ResumedIf, AfterResume, Steps
  <2>2. seen' \in [Procs -> Sights]
    BY <1>0, <1>4, Recalls, NothingTyped DEF Resumed, ResumedIf, AfterResume, Steps,
        Forget
  <2>3. row' \in Rows
    BY <1>0, <1>4, MomentsKnown DEF Resumed, ResumedIf, AfterResume, Update, TypeOK,
        Rows, Reasons
  <2>4. TypeOK'
    BY <1>0, <1>4, <2>1, <2>2, <2>3 DEF Resumed, ResumedIf, AfterResume, TypeOK
  <2>5. Reads'
    BY <1>0, <1>4, <2>4 DEF Resumed, ResumedIf, AfterResume, Forget, Recall, Step,
        TypeOK, Rows, Reads, ResumersKnow, ExpiryRead, GoneWhenWritten,
        TerminatedIsGone, Update
  <2>6. QED  BY <2>4, <2>5 DEF IInv, Reads
<1>5. QED  BY <1>1, <1>2, <1>3, <1>4

\* Renewals, up to the upstream's answer.
LEMMA RenewalKeeps ==
  ASSUME IInv, NEW j \in Jobs,
         Renew(j) \/ SettleRenewal(j) \/ Reconciled(j) \/ ReconcileFails(j)
  PROVE  IInv'
<1>0. TypeOK /\ Reads
  BY DEF IInv, Reads
<1>1. CASE Renew(j)
  <2>1. at' \in [Procs -> Steps]
    BY <1>0, <1>1, Moves DEF Renew, Renewal, Steps
  <2>2. row' \in Rows
    <3>1. NextExpiry(row.expires) \in Dates
      BY <1>0, <1>1 DEF Renew, Renewal, NextExpiry, Later, TypeOK, Rows, Dates
    <3>2. QED  BY <1>0, <1>1, <3>1 DEF Renew, Renewal, TypeOK, Rows, Reasons
  <2>3. TypeOK'
    BY <1>0, <1>1, <2>1, <2>2 DEF Renew, Renewal, TypeOK
  <2>4. Reads'
    BY <1>0, <1>1, <2>3 DEF Renew, Renewal, Forget, Recall, Step, TypeOK, Rows,
        Reads, ResumersKnow, ExpiryRead, GoneWhenWritten, TerminatedIsGone
  <2>5. QED  BY <2>3, <2>4 DEF IInv, Reads
<1>2. CASE SettleRenewal(j)
  <2>1. at' \in [Procs -> Steps]
    BY <1>0, <1>2, Moves DEF SettleRenewal, Renewal, Steps
  <2>2. row' \in Rows
    <3>1. NextExpiry(row.expires) \in Dates
      BY <1>0, <1>2 DEF SettleRenewal, Renewal, NextExpiry, Later, TypeOK, Rows, Dates
    <3>2. QED  BY <1>0, <1>2, <3>1 DEF SettleRenewal, Renewal, TypeOK, Rows, Reasons
  <2>3. TypeOK'
    BY <1>0, <1>2, <2>1, <2>2 DEF SettleRenewal, Renewal, TypeOK
  <2>4. Reads'
    BY <1>0, <1>2, <2>3 DEF SettleRenewal, Renewal, Forget, Recall, Step, TypeOK,
        Rows, Reads, ResumersKnow, ExpiryRead, GoneWhenWritten, TerminatedIsGone
  <2>5. QED  BY <2>3, <2>4 DEF IInv, Reads
<1>3. CASE Reconciled(j)
  <2>1. at' \in [Procs -> Steps]
    BY <1>0, <1>3, Moves DEF Reconciled, Steps
  <2>2. seen' \in [Procs -> Sights]
    BY <1>0, <1>3, Recalls, NothingTyped DEF Reconciled, Steps, Forget
  <2>3. row' \in Rows
    <3>1. seen[j].expires \in Dates
      BY <1>0 DEF TypeOK, Sights
    <3>2. QED  BY <1>0, <1>3, <3>1 DEF Reconciled, TypeOK, Rows
  <2>4. TypeOK'
    BY <1>0, <1>3, <2>1, <2>2, <2>3 DEF Reconciled, TypeOK
  <2>5. Reads'
    BY <1>0, <1>3, <2>4 DEF Reconciled, Forget, Recall, Step, TypeOK, Rows, Reads,
        ResumersKnow, ExpiryRead, GoneWhenWritten, TerminatedIsGone
  <2>6. QED  BY <2>4, <2>5 DEF IInv, Reads
<1>4. CASE ReconcileFails(j)
  <2>1. at' \in [Procs -> Steps]
    BY <1>0, <1>4, Moves DEF ReconcileFails, Steps
  <2>2. seen' \in [Procs -> Sights]
    BY <1>0, <1>4, Recalls, NothingTyped DEF ReconcileFails, Steps, Forget
  <2>3. row' \in Rows
    BY <1>0, <1>4 DEF ReconcileFails, Update, TypeOK, Rows, Reasons
  <2>4. TypeOK'
    BY <1>0, <1>4, <2>1, <2>2, <2>3 DEF ReconcileFails, TypeOK
  <2>5. Reads'
    BY <1>0, <1>4, <2>4 DEF ReconcileFails, Forget, Recall, Step, TypeOK, Rows,
        Reads, ResumersKnow, ExpiryRead, GoneWhenWritten, TerminatedIsGone
  <2>6. QED  BY <2>4, <2>5 DEF IInv, Reads
<1>5. QED  BY <1>1, <1>2, <1>3, <1>4

\* The upstream's RENEW.
LEMMA RenewCallKeeps ==
  ASSUME IInv, NEW j \in Jobs, NEW from, NEW good \in {"renewed", "settled"},
         NEW bad \in {"renewFailed", "settleFailed"}, RenewCall(j, from, good, bad)
  PROVE  IInv'
<1>1. at' \in [Procs -> Steps]
  <2>1. good \in Steps /\ bad \in Steps
    BY DEF Steps
  <2>2. PICK answer \in Answers : Step(j, from, IF answer = "ok" THEN good ELSE bad)
    BY DEF RenewCall
  <2>3. (IF answer = "ok" THEN good ELSE bad) \in Steps
    BY <2>1
  <2>4. QED  BY <2>2, <2>3, Moves DEF IInv
<1>2. due' \in Dates
  BY DEF IInv, TypeOK, RenewCall, NextExpiry, Later, Dates
<1>3. seen' \in [Procs -> Sights]
  <2>1. PICK x \in Dates : Recall(j, [Nothing EXCEPT !.expires = x])
    BY <1>2 DEF RenewCall, Dates
  <2>2. [Nothing EXCEPT !.expires = x] \in Sights
    BY NothingTyped DEF Sights
  <2>3. QED  BY <2>1, <2>2, Recalls DEF IInv
<1>4. TypeOK'
  BY <1>1, <1>2, <1>3 DEF IInv, TypeOK, RenewCall, MayAnswer, Fault
<1>5. Reads'
  BY <1>4 DEF IInv, TypeOK, Reads, RenewCall, Recall, Step, ResumersKnow,
              ExpiryRead, GoneWhenWritten, TerminatedIsGone
<1>6. QED  BY <1>4, <1>5 DEF IInv, Reads

\* The reading of the row after a commit.
LEMMA RereadKeeps ==
  ASSUME IInv, NEW j \in Jobs, NEW from, NEW reasons \in SUBSET {"traffic", "expired"},
         NEW else \in {"idle", "notify"}, NEW quota \in {0, 1},
         Reread(j, from, reasons, else, quota)
  PROVE  IInv'
<1>1. at' \in [Procs -> Steps]
  BY Moves DEF IInv, Steps
<1>2. seen' \in [Procs -> Sights]
  <2>1. row.reason \in Reasons /\ quota \in 0..MaxQuota
    BY DEF IInv, TypeOK, Rows
  <2>2. [Nothing EXCEPT !.reason = row.reason, !.quota = quota] \in Sights
    BY <2>1, NothingTyped DEF Sights
  <2>3. QED  BY <2>2, Recalls, NothingTyped DEF IInv
<1>3. TypeOK'
  BY <1>1, <1>2 DEF IInv, TypeOK
<1>4. ResumersKnow'
  BY <1>3 DEF IInv, TypeOK, Recall, Step, ResumersKnow, Nothing
<1>5. (ExpiryRead /\ GoneWhenWritten /\ TerminatedIsGone)'
  BY <1>3 DEF IInv, TypeOK, Recall, Step, ExpiryRead, GoneWhenWritten,
      TerminatedIsGone
<1>6. QED  BY <1>3, <1>4, <1>5 DEF IInv

\* Traffic packages.
LEMMA TopUpKeeps ==
  ASSUME IInv, NEW j \in Jobs,
         TopUp(j) \/ Notify(j)
  PROVE  IInv'
<1>0. TypeOK /\ Reads
  BY DEF IInv, Reads
<1>1. CASE TopUp(j)
  <2>1. at' \in [Procs -> Steps]
    BY <1>0, <1>1, Moves DEF TopUp, Steps
  <2>2. row' \in Rows
    <3>1. row.quota + 1 \in 1..MaxQuota
      BY <1>0, <1>1 DEF TopUp, TypeOK, Rows
    <3>2. QED  BY <1>0, <1>1, <3>1 DEF TopUp, TypeOK, Rows
  <2>3. TypeOK'
    BY <1>0, <1>1, <2>1, <2>2 DEF TopUp, TypeOK
  <2>4. Reads'
    BY <1>0, <1>1, <2>3 DEF TopUp, Forget, Recall, Step, TypeOK, Rows, Reads,
        ResumersKnow, ExpiryRead, GoneWhenWritten, TerminatedIsGone
  <2>5. QED  BY <2>3, <2>4 DEF IInv, Reads
<1>2. CASE Notify(j)
  <2>1. at' \in [Procs -> Steps]
    BY <1>0, <1>2, Moves DEF Notify, MayAnswer, Fault, Steps
  <2>2. row' \in Rows
    BY <1>0, <1>2 DEF Notify, MayAnswer, Fault, Update, TypeOK, Rows, Reasons
  <2>3. TypeOK'
    BY <1>0, <1>2, <2>1, <2>2 DEF Notify, MayAnswer, Fault, TypeOK
  <2>4. Reads'
    BY <1>0, <1>2, <2>3 DEF Notify, MayAnswer, Fault, Forget, Recall, Step, TypeOK,
        Rows, Reads, ResumersKnow, ExpiryRead, GoneWhenWritten, TerminatedIsGone,
        Update
  <2>5. QED  BY <2>3, <2>4 DEF IInv, Reads
<1>3. QED  BY <1>1, <1>2

\* SetServiceStatus.
LEMMA AdminKeeps ==
  ASSUME IInv, NEW j \in Jobs,
         SetServiceStatus(j) \/ TakeOver(j) \/ SetUpstream(j) \/ WriteStatus(j)
  PROVE  IInv'
<1>0. TypeOK /\ Reads
  BY DEF IInv, Reads
<1>1. CASE SetServiceStatus(j)
  <2>1. at' \in [Procs -> Steps]
    BY <1>0, <1>1, Moves DEF SetServiceStatus, Steps
  <2>2. TypeOK'
    BY <1>0, <1>1, <2>1 DEF SetServiceStatus, TypeOK
  <2>3. Reads'
    BY <1>0, <1>1, <2>2 DEF SetServiceStatus, Forget, Recall, Step, TypeOK, Rows,
        Reads, ResumersKnow, ExpiryRead, GoneWhenWritten, TerminatedIsGone
  <2>4. QED  BY <2>2, <2>3 DEF IInv, Reads
<1>2. CASE TakeOver(j)
  <2>1. at' \in [Procs -> Steps]
    BY <1>0, <1>2, Moves DEF TakeOver, Steps
  <2>2. row' \in Rows
    BY <1>0, <1>2 DEF TakeOver, Update, TypeOK, Rows, Reasons
  <2>3. TypeOK'
    BY <1>0, <1>2, <2>1, <2>2 DEF TakeOver, TypeOK
  <2>4. Reads'
    BY <1>0, <1>2, <2>3 DEF TakeOver, Forget, Recall, Step, TypeOK, Rows, Reads,
        ResumersKnow, ExpiryRead, GoneWhenWritten, TerminatedIsGone
  <2>5. QED  BY <2>3, <2>4 DEF IInv, Reads
<1>3. CASE SetUpstream(j)
  <2>1. at' \in [Procs -> Steps]
    BY <1>0, <1>3, Moves DEF SetUpstream, Call, MayAnswer, Fault, Steps
  <2>2. TypeOK'
    BY <1>0, <1>3, <2>1 DEF SetUpstream, Call, MayAnswer, Fault, TypeOK
  <2>3. Reads'
    BY <1>0, <1>3, <2>2 DEF SetUpstream, Call, MayAnswer, Fault, Forget, Recall,
        Step, TypeOK, Rows, Reads, ResumersKnow, ExpiryRead, GoneWhenWritten,
        TerminatedIsGone
  <2>4. QED  BY <2>2, <2>3 DEF IInv, Reads
<1>4. CASE WriteStatus(j)
  <2>1. at' \in [Procs -> Steps]
    BY <1>0, <1>4, Moves DEF WriteStatus, Steps
  <2>2. row' \in Rows
    BY <1>0, <1>4 DEF WriteStatus, Update, TypeOK, Rows, Reasons
  <2>3. TypeOK'
    BY <1>0, <1>4, <2>1, <2>2 DEF WriteStatus, TypeOK
  <2>4. Reads'
    BY <1>0, <1>4, <2>3 DEF WriteStatus, Forget, Recall, Step, TypeOK, Rows, Reads,
        ResumersKnow, ExpiryRead, GoneWhenWritten, TerminatedIsGone
  <2>5. QED  BY <2>3, <2>4 DEF IInv, Reads
<1>5. QED  BY <1>1, <1>2, <1>3, <1>4

\* Refunds, time, crashes, and steps of nothing.
LEMMA OthersKeep ==
  ASSUME IInv, Refund \/ Tick \/ Crash \/ UNCHANGED vars
  PROVE  IInv'
<1>0. TypeOK /\ Reads
  BY DEF IInv, Reads
<1>1. CASE Refund
  <2>1. row' \in Rows
    BY <1>0, <1>1, MomentsKnown DEF Refund, Update, TypeOK, Rows, Reasons
  <2>2. TypeOK'
    BY <1>0, <1>1, <2>1 DEF Refund, TypeOK
  <2>3. Reads'
    BY <1>0, <1>1 DEF Refund, Update, TypeOK, Rows, Reads, ResumersKnow,
                      ExpiryRead, GoneWhenWritten, TerminatedIsGone
  <2>4. QED  BY <2>2, <2>3 DEF IInv, Reads
<1>2. CASE Tick
  <2>1. TypeOK'
    BY <1>0, <1>2 DEF Tick, TypeOK
  <2>2. seen[Patrol].expires \in Int
    BY <1>0 DEF TypeOK, Sights, Dates
  <2>3. Reads'
    BY <1>0, <1>2, <2>2 DEF Tick, TypeOK, Reads, ResumersKnow, ExpiryRead,
                            GoneWhenWritten, TerminatedIsGone
  <2>4. QED  BY <2>1, <2>3 DEF IInv, Reads
<1>3. CASE Crash
  <2>1. TypeOK'
    BY <1>0, <1>3, NothingTyped DEF Crash, TypeOK, Steps
  <2>2. Reads'
    BY <1>0, <1>3 DEF Crash, Reads, ResumersKnow, ExpiryRead, GoneWhenWritten,
                      TerminatedIsGone
  <2>3. QED  BY <2>1, <2>2 DEF IInv, Reads
<1>4. CASE UNCHANGED vars
  BY <1>4 DEF vars, IInv, TypeOK, ResumersKnow, ExpiryRead, GoneWhenWritten,
              TerminatedIsGone
<1>5. QED  BY <1>1, <1>2, <1>3, <1>4

\* The step that went on from a commit to reading the row again.
LEMMA RereadServiceKeeps ==
  ASSUME IInv, NEW j \in Jobs, RereadService(j)
  PROVE  IInv'
<1>1. CASE Reread(j, "reread", {"traffic", "expired"}, "idle", 0)
  BY ONLY IInv, j \in Jobs, <1>1, RereadKeeps
<1>2. CASE Reread(j, "rereadTraffic", {"traffic"}, "notify", 1)
  BY ONLY IInv, j \in Jobs, <1>2, RereadKeeps
<1>3. QED  BY <1>1, <1>2 DEF RereadService

\* IInv is inductive.
LEMMA NextKeeps ==
  ASSUME IInv, [Next]_vars
  PROVE  IInv'
<1>0. "ok" \in Answers /\ Patrol \in Procs /\ Jobs \subseteq Procs
  BY DEF Answers
<1>1. CASE PatrolStep
  <2>1. CASE \E answer \in Answers : PatrolCall(answer)
    BY <1>0, <2>1, RevocationKeeps, TrafficKeeps, ExpiryKeeps, TerminationKeeps,
       ResumeKeeps DEF PatrolCall
  <2>2. CASE ~\E answer \in Answers : PatrolCall(answer)
    BY <1>0, <1>1, <2>2, RevocationKeeps, TrafficKeeps, ExpiryKeeps,
       TerminationKeeps, ResumeKeeps DEF PatrolStep
  <2>3. QED  BY <2>1, <2>2
<1>2. ASSUME NEW j \in Jobs, Request(j)  PROVE IInv'
  BY <1>2, RenewalKeeps, TopUpKeeps, AdminKeeps DEF Request
<1>3. ASSUME NEW j \in Jobs, JobStep(j)  PROVE IInv'
  <2>1. CASE RenewUpstream(j)
    BY <2>1, RenewCallKeeps DEF RenewUpstream
  <2>2. CASE \E answer \in Answers : Unsuspend(j, answer)
    BY <1>0, <2>2, ResumeKeeps
  <2>3. CASE ResumeError(j) \/ Resumed(j)
    BY <1>0, <2>3, ResumeKeeps
  <2>4. CASE \/ Reconciled(j) \/ ReconcileFails(j) \/ Notify(j)
             \/ TakeOver(j) \/ SetUpstream(j) \/ WriteStatus(j)
    BY <2>4, RenewalKeeps, TopUpKeeps, AdminKeeps
  <2>5. QED  BY <1>3, <2>1, <2>2, <2>3, <2>4, RereadServiceKeeps DEF JobStep
<1>4. QED  BY <1>1, <1>2, <1>3, OthersKeep DEF Next

-----------------------------------------------------------------------------
\* IInv holds of every reachable state.
THEOREM Invariant == Spec => []IInv
<1>1. ASSUME Init  PROVE IInv
  <2>1. Period \in Dates
    BY DEF Dates
  <2>2. row \in Rows
    <3>1. 1 \in 1..MaxQuota /\ 0 \in 0..MaxUsed
      OBVIOUS
    <3>2. Never \in Moments /\ "" \in Reasons
      BY MomentsKnown DEF Reasons
    <3>3. QED  BY ONLY <1>1, <2>1, <3>1, <3>2 DEF Init, Rows
  <2>3. at \in [Procs -> Steps]
    BY <1>1 DEF Init, Steps
  <2>4. seen \in [Procs -> Sights]
    BY <1>1, NothingTyped DEF Init
  <2>5. TypeOK
    <3>1. 0 \in 0..MaxClock /\ 0 \in 0..MaxCrashes /\ 0 \in 0..MaxFaults
      OBVIOUS
    <3>2. QED  BY <1>1, <2>1, <2>2, <2>3, <2>4, <3>1 DEF Init, TypeOK
  <2>6. QED
    BY <1>1, <2>5 DEF Init, IInv, ResumersKnow, ExpiryRead, GoneWhenWritten,
        TerminatedIsGone
<1>2. IInv /\ [Next]_vars => IInv'
  BY NextKeeps
<1>3. QED  BY <1>1, <1>2, PTL DEF Spec

\* The lifecycle's state keeps its types.
THEOREM LifecycleTypeCorrect == Spec => []TypeOK
<1>1. IInv => TypeOK
  BY DEF IInv
<1>2. QED  BY <1>1, Invariant, PTL

\* A service is terminated in the books only when its machine is gone,
\* whatever the upstream answered and whoever wrote in between.
THEOREM NoneWrittenOffEarly == Spec => []TerminatedIsGone
<1>1. IInv => TerminatedIsGone
  BY DEF IInv
<1>2. QED  BY <1>1, Invariant, PTL

\* The only step that writes an expiry suspension on an active service.
LEMMA OnlyMarkExpired ==
  ASSUME IInv, [Next]_vars, row.status = "active", Suspended("expired")'
  PROVE  MarkExpired
<1>0. row \in Rows
  BY DEF IInv, TypeOK
<1>1. ASSUME PatrolStep, ~MarkExpired  PROVE FALSE
  <2>1. CASE \E answer \in Answers : PatrolCall(answer)
    BY <1>0, <2>1 DEF PatrolCall, Revoke, StopTraffic, UndoTraffic, StopExpired,
                      UndoExpired, Terminate, Unsuspend, Update, RevocationDue, Rows
  <2>2. CASE BeginRound \/ Revoked \/ Recover \/ ListTraffic \/ Sample \/ NoMetrics
             \/ MarkTraffic \/ ListExpired \/ ClaimExpired \/ ReleaseExpired
    BY <1>0, <2>2 DEF BeginRound, Revoked, Recover, ListTraffic, Sample, NoMetrics,
        MarkTraffic, ListExpired, ClaimExpired, ReleaseExpired, Update, RevocationDue, Rows
  <2>3. CASE ListTerminable \/ ClaimTerminate \/ Recheck \/ ReleaseTerminate
             \/ MarkTerminated \/ ListResumes \/ ResumeError(Patrol) \/ Resumed(Patrol)
    BY <1>0, <2>3 DEF ListTerminable, ClaimTerminate, ClaimTerminateIf, Recheck,
        ReleaseTerminate, MarkTerminated, ListResumes, ResumeError, Resumed,
        ResumedIf, Update, Rows
  <2>4. QED  BY <1>1, <2>1, <2>2, <2>3 DEF PatrolStep
<1>2. ASSUME NEW j \in Jobs, Request(j) \/ JobStep(j)  PROVE FALSE
  <2>1. CASE Request(j)
    BY <1>0, <2>1 DEF Request, Renew, SettleRenewal, Renewal, TopUp,
        SetServiceStatus, Rows
  <2>2. CASE JobStep(j)
    BY <1>0, <2>2 DEF JobStep, RenewUpstream, RenewCall, Reconciled, ReconcileFails,
        RereadService, Notify, ResumeError, Resumed, ResumedIf, TakeOver, SetUpstream,
        WriteStatus, Unsuspend, Update, Rows
  <2>3. QED  BY <1>2, <2>1, <2>2
<1>3. ASSUME Refund \/ Tick \/ Crash \/ UNCHANGED vars  PROVE FALSE
  BY <1>0, <1>3 DEF Refund, Tick, Crash, vars, Update, Rows
<1>4. QED  BY <1>1, <1>2, <1>3 DEF Next

\* No paid time is suspended for expiry: however long the patrol's SUSPEND
\* took and whoever renewed meanwhile, the write finds the time still over.
THEOREM PaidTimeIsKept == Spec => PaidTimeNotSuspended
<1>1. ASSUME IInv, [Next]_vars, Suspended("expired")', row.status = "active"
      PROVE  row.expires < clock
  <2>1. MarkExpired
    BY <1>1, OnlyMarkExpired
  <2>2. row \in Rows
    BY <1>1 DEF IInv, TypeOK
  <2>3. row.expires = seen[Patrol].expires /\ at[Patrol] = "markExpired"
    BY <1>1, <2>1, <2>2 DEF MarkExpired, MarkExpiredIf, ExpiryClaimHolds, Update,
        Step, Rows
  <2>4. QED  BY <1>1, <2>3 DEF IInv, ExpiryRead
<1>2. IInv /\ [Next]_vars
        => [(Suspended("expired"))' /\ row.status = "active" => row.expires < clock]_vars
  BY <1>1
<1>3. QED  BY <1>2, Invariant, PTL DEF Spec, PaidTimeNotSuspended

\* The patrol leaves a manual pause alone, even one that came between its
\* list and its write.
THEOREM PauseIsKept == Spec => ManualPauseKept
<1>1. ASSUME IInv, PatrolStep, Suspended("")  PROVE (Suspended(""))'
  <2>0. row \in Rows /\ (at[Patrol] = "resumed" => seen[Patrol].reason \in {"traffic", "expired"})
    BY <1>1 DEF IInv, TypeOK, ResumersKnow
  <2>1. CASE \E answer \in Answers : PatrolCall(answer)
    BY <1>1, <2>0, <2>1 DEF PatrolCall, Revoke, StopTraffic, UndoTraffic, StopExpired,
        UndoExpired, Terminate, Unsuspend, Update, RevocationDue, Rows
  <2>2. CASE BeginRound \/ Revoked \/ Recover \/ ListTraffic \/ Sample \/ NoMetrics
             \/ MarkTraffic \/ ListExpired \/ ClaimExpired \/ ReleaseExpired \/ MarkExpired
    BY <1>1, <2>0, <2>2 DEF BeginRound, Revoked, Recover, ListTraffic, Sample,
        NoMetrics,
        MarkTraffic, ListExpired, ClaimExpired, ReleaseExpired, MarkExpired,
        MarkExpiredIf, ExpiryClaimHolds, Update, RevocationDue, Rows
  <2>3. CASE ListTerminable \/ ClaimTerminate \/ Recheck \/ ReleaseTerminate
             \/ MarkTerminated \/ ListResumes \/ ResumeError(Patrol) \/ Resumed(Patrol)
    BY <1>1, <2>0, <2>3 DEF ListTerminable, ClaimTerminate, ClaimTerminateIf, Recheck,
        ReleaseTerminate, MarkTerminated, ListResumes, ResumeError, Resumed,
        ResumedIf, Step, Update, Rows
  <2>4. QED  BY <1>1, <2>1, <2>2, <2>3 DEF PatrolStep
<1>2. IInv => [PatrolStep /\ Suspended("") => (Suspended(""))']_vars
  BY <1>1
<1>3. QED  BY <1>2, Invariant, PTL DEF ManualPauseKept

-----------------------------------------------------------------------------
(* Purges and refunds: TimeInv.                                            *)

\* A step of the patrol moves the patrol alone, and no date or time.
LEMMA PatrolMoves ==
  ASSUME TypeOK, PatrolStep
  PROVE  /\ clock' = clock /\ row'.expires = row.expires
         /\ \A j \in Jobs : at'[j] = at[j] /\ seen'[j] = seen[j]
         /\ seen'[Patrol].now \in {0, clock, seen[Patrol].now}
<1>0. /\ row \in Rows /\ at \in [Procs -> Steps] /\ seen \in [Procs -> Sights]
      /\ clock \in Int /\ Nothing \in Sights /\ Nothing.now = 0
  <2>1. Nothing.now = 0
    BY DEF Nothing
  <2>2. QED  BY <2>1, NothingTyped DEF TypeOK
<1>1. CASE \E answer \in Answers : PatrolCall(answer)
  <2>1. clock' = clock /\ row'.expires = row.expires
    BY <1>0, <1>1 DEF PatrolCall, Revoke, StopTraffic, UndoTraffic, StopExpired,
        UndoExpired, Terminate, Unsuspend, Update, Rows
  <2>2. \A j \in Jobs : at'[j] = at[j] /\ seen'[j] = seen[j]
    BY <1>0, <1>1 DEF PatrolCall, Revoke, StopTraffic, UndoTraffic, StopExpired,
        UndoExpired, Terminate, Unsuspend, Step, Forget, Recall
  <2>3. seen'[Patrol].now \in {0, clock, seen[Patrol].now}
    BY <1>0, <1>1 DEF PatrolCall, Revoke, StopTraffic, UndoTraffic, StopExpired,
        UndoExpired, Terminate, Unsuspend, Forget, Recall
  <2>4. QED  BY <2>1, <2>2, <2>3
<1>2. CASE BeginRound \/ Revoked \/ Recover \/ ListTraffic \/ Sample \/ NoMetrics
           \/ MarkTraffic
  <2>1. clock' = clock /\ row'.expires = row.expires
    BY <1>0, <1>2 DEF BeginRound, Revoked, Recover, ListTraffic, Sample, NoMetrics,
        MarkTraffic, Update, Rows
  <2>2. \A j \in Jobs : at'[j] = at[j] /\ seen'[j] = seen[j]
    BY <1>0, <1>2 DEF BeginRound, Revoked, Recover, ListTraffic, Sample, NoMetrics,
        MarkTraffic, Step, Forget, Recall
  <2>3. seen'[Patrol].now \in {0, clock, seen[Patrol].now}
    <3>1. CASE ListTraffic
      BY <1>0, <3>1 DEF ListTraffic, Recall, Forget,
                       Sights, Rows, Update
    <3>2. CASE BeginRound \/ Revoked \/ Recover \/ Sample \/ NoMetrics \/ MarkTraffic
      BY <1>0, <3>2 DEF BeginRound, Revoked, Recover, Sample, NoMetrics,
          MarkTraffic, Recall, Forget,
                       Sights, Rows, Update
    <3>3. QED  BY <1>2, <3>1, <3>2
  <2>4. QED  BY <2>1, <2>2, <2>3
<1>3. CASE ListExpired \/ ClaimExpired \/ ReleaseExpired \/ MarkExpired
  <2>1. clock' = clock /\ row'.expires = row.expires
    BY <1>0, <1>3 DEF ListExpired, ClaimExpired, ReleaseExpired, MarkExpired,
        MarkExpiredIf, Update, Rows
  <2>2. \A j \in Jobs : at'[j] = at[j] /\ seen'[j] = seen[j]
    BY <1>0, <1>3 DEF ListExpired, ClaimExpired, ReleaseExpired, MarkExpired,
        MarkExpiredIf, Step, Forget, Recall
  <2>3. seen'[Patrol].now \in {0, clock, seen[Patrol].now}
    <3>1. CASE ListExpired
      BY <1>0, <3>1 DEF ListExpired, Recall, Forget,
                       Sights, Rows, Update
    <3>2. CASE ClaimExpired \/ ReleaseExpired \/ MarkExpired
      BY <1>0, <3>2 DEF ClaimExpired, ReleaseExpired, MarkExpired, MarkExpiredIf,
          Recall, Forget,
                       Sights, Rows, Update
    <3>3. QED  BY <1>3, <3>1, <3>2
  <2>4. QED  BY <2>1, <2>2, <2>3
<1>4. CASE ListTerminable \/ ClaimTerminate \/ Recheck \/ ReleaseTerminate
           \/ MarkTerminated
  <2>1. clock' = clock /\ row'.expires = row.expires
    BY <1>0, <1>4 DEF ListTerminable, ClaimTerminate, ClaimTerminateIf, Recheck,
        ReleaseTerminate, MarkTerminated, Update, Rows
  <2>2. \A j \in Jobs : at'[j] = at[j] /\ seen'[j] = seen[j]
    BY <1>0, <1>4 DEF ListTerminable, ClaimTerminate, ClaimTerminateIf, Recheck,
        ReleaseTerminate, MarkTerminated, Step, Forget, Recall
  <2>3. seen'[Patrol].now \in {0, clock, seen[Patrol].now}
    <3>1. CASE ListTerminable
      <4>1. PICK x \in Dates, m \in Moments :
              Recall(Patrol, [Nothing EXCEPT !.expires = x, !.suspendedAt = m]) \/ Forget(Patrol)
        BY <1>0, <3>1 DEF ListTerminable, Rows, Forget
      <4>2. [Nothing EXCEPT !.expires = x, !.suspendedAt = m].now = 0
        BY <1>0 DEF Sights
      <4>3. QED  BY <1>0, <4>1, <4>2 DEF Recall, Forget
    <3>2. CASE ClaimTerminate \/ Recheck \/ ReleaseTerminate \/ MarkTerminated
      BY <1>0, <3>2 DEF ClaimTerminate, ClaimTerminateIf, Recheck, ReleaseTerminate,
                       MarkTerminated, Recall, Forget,
                       Sights, Rows, Update
    <3>3. QED  BY <1>4, <3>1, <3>2
  <2>4. QED  BY <2>1, <2>2, <2>3
<1>5. CASE ListResumes \/ ResumeError(Patrol) \/ Resumed(Patrol)
  <2>1. clock' = clock /\ row'.expires = row.expires
    BY <1>0, <1>5 DEF ListResumes, ResumeError, Resumed, ResumedIf, Update, Rows
  <2>2. \A j \in Jobs : at'[j] = at[j] /\ seen'[j] = seen[j]
    BY <1>0, <1>5 DEF ListResumes, ResumeError, Resumed, ResumedIf, Step, Forget,
        Recall
  <2>3. seen'[Patrol].now \in {0, clock, seen[Patrol].now}
    <3>1. CASE ListResumes
      BY <1>0, <3>1 DEF ListResumes, Recall, Forget,
                       Sights, Rows, Update
    <3>2. CASE ResumeError(Patrol) \/ Resumed(Patrol)
      BY <1>0, <3>2 DEF ResumeError, Resumed, ResumedIf, Recall, Forget,
                       Sights, Rows, Update
    <3>3. QED  BY <1>5, <3>1, <3>2
  <2>4. QED  BY <2>1, <2>2, <2>3
<1>6. QED  BY <1>1, <1>2, <1>3, <1>4, <1>5 DEF PatrolStep

\* Only a list leads to the claim, and only the claim to the TERMINATE.
LEMMA OnlyWays ==
  ASSUME TypeOK, PatrolStep
  PROVE  /\ at'[Patrol] = "claimTerminate" => ListTerminable
         /\ at'[Patrol] = "terminate" => ClaimTerminate
<1>0. at \in [Procs -> Steps]
  BY DEF TypeOK
<1>1. CASE \E answer \in Answers : PatrolCall(answer)
  BY <1>0, <1>1 DEF PatrolCall, Revoke, StopTraffic, UndoTraffic, StopExpired,
      UndoExpired, Terminate, Unsuspend, Step
<1>2. CASE BeginRound \/ Revoked \/ Recover \/ ListTraffic \/ Sample \/ NoMetrics
           \/ MarkTraffic \/ ListExpired \/ ClaimExpired \/ ReleaseExpired \/ MarkExpired
  BY <1>0, <1>2 DEF BeginRound, Revoked, Recover, ListTraffic, Sample, NoMetrics,
      MarkTraffic, ListExpired, ClaimExpired, ReleaseExpired, MarkExpired,
      MarkExpiredIf, Step
<1>3. CASE ListTerminable \/ ClaimTerminate \/ Recheck \/ ReleaseTerminate
           \/ MarkTerminated \/ ListResumes \/ ResumeError(Patrol) \/ Resumed(Patrol)
  BY <1>0, <1>3 DEF ListTerminable, ClaimTerminate, ClaimTerminateIf, Recheck,
      ReleaseTerminate, MarkTerminated, ListResumes, ResumeError, Resumed, ResumedIf,
      AfterResume, Step
<1>4. QED  BY <1>1, <1>2, <1>3 DEF PatrolStep

\* The patrol keeps TimeInv: its claim finds the suspension it read, and what
\* it read was older than the grace period.
LEMMA PatrolKeepsTime ==
  ASSUME TimeInv, PatrolStep
  PROVE  (TerminateRead /\ TerminateClaimed /\ RenewalsPaid)'
<1>0. /\ TypeOK /\ clock \in Int /\ seen[Patrol].now \in Int
      /\ row.expires \in Int /\ row \in Rows
  BY DEF TimeInv, IInv, TypeOK, Sights, Rows, Dates
<1>1. RenewalsPaid'
  BY <1>0, PatrolMoves DEF TimeInv, RenewalsPaid
<1>2. (seen[Patrol].now <= clock)'
  BY <1>0, PatrolMoves DEF TimeInv, TerminateRead, TypeOK
<1>3. TerminateRead'
  <2>1. CASE ListTerminable
    <3>1. CASE at'[Patrol] = "claimTerminate"
      <4>1. Terminable /\ seen'[Patrol].suspendedAt = row.suspendedAt
        BY <1>0, <2>1, <3>1 DEF ListTerminable, Recall, Nothing, TypeOK, Step
      <4>2. row.suspendedAt # Never /\ row.suspendedAt < seen[Patrol].now - Grace
        BY <4>1 DEF Terminable
      <4>3. row.suspendedAt \in Int
        BY <1>0 DEF Rows, Moments, Never
      <4>4. row.suspendedAt + Grace < clock
        BY <1>0, <4>2, <4>3 DEF TimeInv, TerminateRead
      <4>5. QED  BY <1>0, <1>2, <4>1, <4>2, <4>4, PatrolMoves DEF TerminateRead,
          GraceOver
    <3>2. QED  BY <1>2, <3>1 DEF TerminateRead
  <2>2. QED  BY <1>0, <1>2, <2>1, OnlyWays DEF TerminateRead
<1>4. TerminateClaimed'
  <2>1. ASSUME ClaimTerminate, at'[Patrol] = "terminate"
        PROVE  /\ Suspended("terminating")' /\ row'.expires < clock'
               /\ GraceOver(row.suspendedAt)'
    <3>1. /\ at[Patrol] = "claimTerminate" /\ clock' = clock
          /\ seen[Patrol].expires < clock /\ Suspended("expired")
          /\ row.suspendedAt = seen[Patrol].suspendedAt
          /\ row.expires = seen[Patrol].expires
          /\ row' = [row EXCEPT !.reason = "terminating"]
      BY <1>0, <2>1 DEF ClaimTerminate, ClaimTerminateIf, Step, Update, TypeOK
    <3>2. GraceOver(row.suspendedAt)
      BY <3>1 DEF TimeInv, TerminateRead
    <3>3. QED  BY <1>0, <3>1, <3>2 DEF Rows, GraceOver
  <2>2. QED  BY <1>0, <2>1, OnlyWays DEF TerminateClaimed
<1>5. QED  BY <1>1, <1>3, <1>4

\* What a step of a request leaves of the patrol's business: nobody but the
\* patrol claims a termination, and a claimed one keeps its dates, unless a
\* renewal's answer arrives, for time that was paid before the claim.
LEMMA JobMoves ==
  ASSUME TimeInv, NEW j \in Jobs, Request(j) \/ JobStep(j)
  PROVE  /\ clock' = clock /\ at'[Patrol] = at[Patrol] /\ seen'[Patrol] = seen[Patrol]
         /\ Suspended("terminating")'
              => /\ Suspended("terminating") /\ row'.suspendedAt = row.suspendedAt
                 /\ row'.expires = row.expires \/ row.expires >= clock
<1>0. /\ row \in Rows /\ at \in [Procs -> Steps] /\ seen \in [Procs -> Sights]
      /\ clock \in Int /\ row.expires \in Int
      /\ at[j] \in Reconciling => row.expires >= clock
  BY DEF TimeInv, IInv, TypeOK, Rows, Dates, RenewalsPaid
<1>1. CASE Renew(j) \/ SettleRenewal(j) \/ TopUp(j) \/ SetServiceStatus(j)
  BY <1>0, <1>1 DEF Renew, SettleRenewal, Renewal, Renewable, TopUp, SetServiceStatus,
      Step, Rows
<1>2. CASE RenewUpstream(j)
  BY <1>0, <1>2 DEF RenewUpstream, RenewCall, Step, Recall
<1>3. CASE Reconciled(j) \/ ReconcileFails(j)
  BY <1>0, <1>3 DEF Reconciled, ReconcileFails, Reconciling, Step, Forget, Recall,
      Rows
<1>4. CASE RereadService(j) \/ Notify(j) \/ \E answer \in Answers : Unsuspend(j, answer)
  BY <1>0, <1>4 DEF RereadService, Notify, Unsuspend, Update, Step, Recall, Rows
<1>5. CASE ResumeError(j) \/ Resumed(j)
  BY <1>0, <1>5 DEF ResumeError, Resumed, ResumedIf, Update, Step, Forget, Recall,
      Rows
<1>6. CASE TakeOver(j) \/ SetUpstream(j) \/ WriteStatus(j)
  BY <1>0, <1>6 DEF TakeOver, SetUpstream, WriteStatus, Step, Rows
<1>7. QED  BY <1>1, <1>2, <1>3, <1>4, <1>5, <1>6 DEF Request, JobStep

\* The empty sight carries no due date.
LEMMA NothingDue == Nothing.expires = 0
BY DEF Nothing

\* Where a request's own next step is no reconciliation, it knows no due date,
\* and no other request's renewal is disturbed.
LEMMA OthersPaid ==
  ASSUME TimeInv, NEW j \in Jobs, clock' = clock,
         \A k \in Jobs \ {j} : at'[k] = at[k] /\ seen'[k] = seen[k],
         row.expires >= clock => row'.expires >= clock,
         IF at'[j] \in Reconciling
         THEN row'.expires >= clock /\ (seen'[j].expires # 0 => seen'[j].expires >= clock)
         ELSE seen'[j].expires = 0
  PROVE  RenewalsPaid'
<1>1. RenewalsPaid
  BY DEF TimeInv
<1>2. SUFFICES ASSUME NEW k \in Jobs
               PROVE  IF at'[k] \in Reconciling
                      THEN row'.expires >= clock' /\ (seen'[k].expires # 0 => seen'[k].expires >= clock')
                      ELSE seen'[k].expires = 0
  BY DEF RenewalsPaid, Reconciling
<1>3. CASE k = j
  BY <1>3
<1>4. CASE k # j
  BY <1>1, <1>4 DEF RenewalsPaid
<1>5. QED  BY <1>3, <1>4

\* A request keeps TimeInv: a renewal pays for time that is still to come.
LEMMA JobKeepsTime ==
  ASSUME TimeInv, NEW j \in Jobs, Request(j) \/ JobStep(j)
  PROVE  RenewalsPaid'
<1>0. /\ row \in Rows /\ at \in [Procs -> Steps] /\ seen \in [Procs -> Sights]
      /\ clock \in Int /\ row.expires \in Int /\ due \in Int
      /\ at[j] \in Reconciling =>
            row.expires >= clock /\ (seen[j].expires # 0 => seen[j].expires >= clock)
      /\ at[j] \notin Reconciling => seen[j].expires = 0
      /\ seen[j].expires \in Int /\ Nothing \in Sights /\ Nothing.expires = 0
  BY NothingTyped, NothingDue
     DEF TimeInv, IInv, TypeOK, Rows, Dates, RenewalsPaid, Sights
<1>1. CASE Renew(j) \/ SettleRenewal(j)
  <2>1. /\ clock' = clock /\ seen' = seen /\ row'.expires = NextExpiry(row.expires)
        /\ \A k \in Jobs \ {j} : at'[k] = at[k]
        /\ at[j] = "idle" /\ at'[j] \in {"renewing", "settling"}
    BY <1>0, <1>1 DEF Renew, SettleRenewal, Renewal, Step, Rows
  <2>2. row'.expires >= clock
    BY <1>0, <2>1 DEF NextExpiry, Later
  <2>3. RenewalsPaid'
    BY <1>0, <2>1, <2>2, OthersPaid DEF Reconciling
  <2>4. QED  BY <2>3
<1>2. CASE RenewUpstream(j)
  <2>1. PICK answer \in Answers, told \in BOOLEAN :
          /\ MayAnswer("renew", answer)
          /\ due' = IF answer = "refused" \/ upstream = "purged" THEN due
                    ELSE NextExpiry(due)
          /\ Recall(j, [Nothing EXCEPT !.expires =
                           IF answer = "ok" /\ told THEN due' ELSE 0])
    BY <1>2 DEF RenewUpstream, RenewCall
  <2>2. /\ clock' = clock /\ row' = row /\ at[j] \in Reconciling
        /\ \A k \in Jobs \ {j} : at'[k] = at[k]
        /\ at'[j] \in Reconciling
    BY <1>0, <1>2 DEF RenewUpstream, RenewCall, Step, Reconciling
  <2>3. /\ \A k \in Jobs \ {j} : seen'[k] = seen[k]
        /\ seen'[j].expires = IF answer = "ok" /\ told THEN due' ELSE 0
    BY <1>0, <2>1 DEF Recall, Sights
  <2>4. answer = "ok" => due' >= clock
    BY <1>0, <2>1 DEF MayAnswer, NextExpiry, Later
  <2>5. RenewalsPaid'
    BY <1>0, <2>2, <2>3, <2>4, OthersPaid
  <2>6. QED  BY <2>5
<1>3. CASE Reconciled(j) \/ ReconcileFails(j)
  <2>1. /\ clock' = clock /\ at[j] \in Reconciling
        /\ \A k \in Jobs \ {j} : at'[k] = at[k] /\ seen'[k] = seen[k]
        /\ at'[j] \in {"reread", "idle"} /\ seen'[j] = Nothing
    BY <1>0, <1>3 DEF Reconciled, ReconcileFails, Forget, Recall, Step, Reconciling
  <2>2. row'.expires >= clock
    BY <1>0, <1>3, <2>1 DEF Reconciled, ReconcileFails, Rows
  <2>3. RenewalsPaid'
    BY <1>0, <2>1, <2>2, OthersPaid DEF Reconciling
  <2>4. QED  BY <2>3
<1>4. CASE TopUp(j) \/ Notify(j) \/ ResumeError(j) \/ Resumed(j)
           \/ \E answer \in Answers : Unsuspend(j, answer)
  <2>1. /\ clock' = clock /\ row'.expires = row.expires /\ at[j] \notin Reconciling
        /\ \A k \in Jobs \ {j} : at'[k] = at[k] /\ seen'[k] = seen[k]
        /\ at'[j] \notin Reconciling
    <3>1. CASE TopUp(j) \/ Notify(j)
      BY <1>0, <3>1 DEF TopUp, Notify, Update, Step, Reconciling, Rows
    <3>2. CASE ResumeError(j)
      BY <1>0, <3>2 DEF ResumeError, AfterResume, Forget, Recall, Step, Reconciling,
          Rows
    <3>3. CASE Resumed(j)
      BY <1>0, <3>3 DEF Resumed, ResumedIf, AfterResume, Update, Forget, Recall, Step,
                        Reconciling, Rows
    <3>4. CASE \E answer \in Answers : Unsuspend(j, answer)
      BY <1>0, <3>4 DEF Unsuspend, Step, Reconciling
    <3>5. QED  BY <1>4, <3>1, <3>2, <3>3, <3>4
  <2>2. seen'[j].expires = 0
    BY <1>0, <1>4, <2>1 DEF TopUp, Notify, ResumeError, Resumed, ResumedIf, Unsuspend,
        Update, Forget, Recall, Rows
  <2>3. RenewalsPaid'
    BY <1>0, <2>1, <2>2, OthersPaid
  <2>4. QED  BY <2>3
<1>5. CASE RereadService(j)
  <2>1. /\ clock' = clock /\ row' = row
        /\ \A k \in Jobs \ {j} : at'[k] = at[k] /\ seen'[k] = seen[k]
        /\ at'[j] \notin Reconciling
    BY <1>0, <1>5 DEF RereadService, Recall, Step, Reconciling
  <2>2. PICK r, q : Recall(j, [Nothing EXCEPT !.reason = r, !.quota = q]) \/ Forget(j)
    BY <1>5 DEF RereadService, Forget
  <2>3. [Nothing EXCEPT !.reason = r, !.quota = q].expires = 0
    BY <1>0 DEF Sights
  <2>4. seen'[j].expires = 0
    BY <1>0, <2>2, <2>3 DEF Recall, Forget
  <2>5. RenewalsPaid'
    BY <1>0, <2>1, <2>4, OthersPaid
  <2>6. QED  BY <2>5
<1>6. CASE SetServiceStatus(j) \/ TakeOver(j) \/ SetUpstream(j) \/ WriteStatus(j)
  <2>1. /\ clock' = clock /\ row'.expires = row.expires /\ seen' = seen
        /\ \A k \in Jobs \ {j} : at'[k] = at[k]
        /\ at[j] \notin Reconciling /\ at'[j] \notin Reconciling
    BY <1>0, <1>6 DEF SetServiceStatus, TakeOver, SetUpstream, WriteStatus,
        Reconciling,
                      Step, Rows
  <2>2. QED  BY <1>0, <2>1, OthersPaid
<1>7. QED  BY <1>1, <1>2, <1>3, <1>4, <1>5, <1>6 DEF Request, JobStep

\* TimeInv is inductive.
LEMMA NextKeepsTime ==
  ASSUME TimeInv, [Next]_vars
  PROVE  TimeInv'
<1>0. /\ IInv' /\ clock \in Int /\ seen[Patrol].now \in Int /\ row.expires \in Int
      /\ row \in Rows /\ (row.suspendedAt # Never => row.suspendedAt \in Int)
      /\ Nothing.now = 0 /\ Nothing.expires = 0
  BY NextKeeps DEF TimeInv, IInv, TypeOK, Sights, Rows, Dates, Moments, Nothing
<1>1. CASE PatrolStep
  BY <1>0, <1>1, PatrolKeepsTime DEF TimeInv
<1>2. ASSUME NEW j \in Jobs, Request(j) \/ JobStep(j)  PROVE TimeInv'
  <2>1. RenewalsPaid'
    BY <1>2, JobKeepsTime
  <2>2. TerminateRead'
    BY <1>2, JobMoves DEF TimeInv, TerminateRead, GraceOver
  <2>3. TerminateClaimed'
    BY <1>0, <1>2, JobMoves DEF TimeInv, TerminateClaimed, GraceOver
  <2>4. QED  BY <1>0, <2>1, <2>2, <2>3 DEF TimeInv
<1>3. CASE Refund
  <2>1. /\ clock' = clock /\ at' = at /\ seen' = seen /\ row'.expires = row.expires
        /\ Suspended("terminating")' => row' = row
    BY <1>0, <1>3 DEF Refund, Update, Rows
  <2>2. RenewalsPaid'
    BY <2>1 DEF TimeInv, RenewalsPaid
  <2>3. (TerminateRead /\ TerminateClaimed)'
    BY <2>1 DEF TimeInv, TerminateRead, TerminateClaimed, GraceOver
  <2>4. QED  BY <1>0, <2>2, <2>3 DEF TimeInv
<1>4. CASE Tick
  <2>1. clock' = clock + 1 /\ row' = row /\ at' = at /\ seen' = seen
    BY <1>4 DEF Tick
  <2>2. RenewalsPaid'
    BY <1>4, <2>1 DEF TimeInv, RenewalsPaid, Tick
  <2>3. \A t \in Moments : GraceOver(t) => GraceOver(t)'
    BY <1>0, <2>1 DEF GraceOver, Moments, Never
  <2>4. seen[Patrol].suspendedAt \in Moments /\ row.suspendedAt \in Moments
    BY DEF TimeInv, IInv, TypeOK, Sights, Rows
  <2>5. TerminateRead'
    BY <1>0, <2>1, <2>3, <2>4 DEF TimeInv, TerminateRead, GraceOver
  <2>6. TerminateClaimed'
    BY <1>0, <2>1, <2>3, <2>4 DEF TimeInv, TerminateClaimed, GraceOver
  <2>7. QED  BY <1>0, <2>2, <2>5, <2>6 DEF TimeInv
<1>5. CASE Crash
  <2>1. /\ clock' = clock /\ at' = [p \in Procs |-> "idle"]
        /\ seen' = [p \in Procs |-> Nothing]
    BY <1>5 DEF Crash
  <2>2. (RenewalsPaid /\ TerminateClaimed)'
    BY <1>0, <2>1 DEF RenewalsPaid, TerminateClaimed, Reconciling
  <2>3. TerminateRead'
    BY <1>0, <2>1 DEF TerminateRead, TimeInv, IInv, TypeOK
  <2>4. QED  BY <1>0, <2>2, <2>3 DEF TimeInv
<1>6. CASE UNCHANGED vars
  BY <1>0, <1>6 DEF vars, TimeInv, TerminateRead, TerminateClaimed,
                    RenewalsPaid, GraceOver
<1>7. QED  BY <1>1, <1>2, <1>3, <1>4, <1>5, <1>6 DEF Next

\* TimeInv holds of every reachable state.
LEMMA TimeInvariant == Spec => []TimeInv
<1>1. ASSUME Init, IInv  PROVE TimeInv
  <2>1. Nothing.now = 0 /\ Nothing.expires = 0
    BY DEF Nothing
  <2>2. clock = 0 /\ at = [p \in Procs |-> "idle"] /\ seen = [p \in Procs |-> Nothing]
    BY <1>1 DEF Init
  <2>3. TerminateClaimed
    BY <2>2 DEF TerminateClaimed
  <2>4. TerminateRead /\ RenewalsPaid
    BY <2>1, <2>2 DEF TerminateRead, RenewalsPaid, Reconciling
  <2>5. QED  BY <1>1, <2>3, <2>4 DEF TimeInv
<1>2. TimeInv /\ [Next]_vars => TimeInv'
  BY NextKeepsTime
<1>3. QED  BY <1>1, <1>2, Invariant, PTL DEF Spec

\* TERMINATE reaches the upstream only for a service whose paid time is over
\* and that has been down for longer than the grace period, whatever renewal
\* or refund commits between the patrol's list, its claim and its call.
THEOREM NoEarlyPurge == Spec => NeverPurgedEarly
<1>1. ASSUME TimeInv, [Next]_vars, Purges, Suspended("terminating")
      PROVE  row.expires < clock /\ GraceOver(row.suspendedAt)
  <2>0. row \in Rows
    BY <1>1 DEF TimeInv, IInv, TypeOK
  <2>1. PICK answer \in Answers : Terminate(answer)
    <3>1. CASE PatrolStep
      <4>1. CASE \E answer \in Answers : PatrolCall(answer)
        BY <1>1, <4>1 DEF PatrolCall, Revoke, StopTraffic, UndoTraffic, StopExpired,
            UndoExpired, Unsuspend, Call, Purges
      <4>2. CASE ~\E answer \in Answers : PatrolCall(answer)
        BY <1>1, <3>1, <4>2 DEF PatrolStep, BeginRound, Revoked, Recover, ListTraffic,
            Sample, NoMetrics, MarkTraffic, ListExpired, ClaimExpired, ReleaseExpired,
            MarkExpired, MarkExpiredIf, ListTerminable, ClaimTerminate, ClaimTerminateIf,
            Recheck, ReleaseTerminate, MarkTerminated, ListResumes, ResumeError,
            Resumed, ResumedIf, Purges
      <4>3. QED  BY <4>1, <4>2
    <3>2. CASE \E j \in Jobs : Request(j)
      BY <1>1, <3>2 DEF Request, Renew, SettleRenewal, Renewal, TopUp,
          SetServiceStatus, Purges
    <3>3. CASE \E j \in Jobs : JobStep(j)
      BY <1>1, <3>3 DEF JobStep, RenewUpstream, RenewCall, Reconciled, ReconcileFails,
          RereadService, Notify, ResumeError, Resumed, ResumedIf, TakeOver, SetUpstream,
          WriteStatus, Unsuspend, Call, Purges
    <3>4. CASE Refund \/ Tick \/ Crash \/ UNCHANGED vars
      BY <1>1, <3>4 DEF Refund, Tick, Crash, vars, Purges
    <3>5. QED  BY <1>1, <3>1, <3>2, <3>3, <3>4 DEF Next
  <2>2. at[Patrol] = "terminate"
    BY <2>1 DEF Terminate, Step
  <2>3. QED  BY <1>1, <2>2 DEF TimeInv, TerminateClaimed
<1>2. TimeInv /\ [Next]_vars
        => [Purges /\ Suspended("terminating")
               => /\ row.expires < clock /\ row.suspendedAt # Never
                  /\ row.suspendedAt + Grace < clock]_vars
  BY <1>1 DEF GraceOver
<1>3. QED  BY <1>2, TimeInvariant, PTL DEF Spec, NeverPurgedEarly

\* A refunded service is never opened again, by no resume that began before
\* the refund and by no renewal after it, unless an administrator does it.
THEOREM RevokedIsFinal == Spec => RevokedStaysShut
<1>1. ASSUME IInv, [Next]_vars, Suspended("refund"), ~\E j \in Jobs : WriteStatus(j)
      PROVE  row'.status # "active"
  <2>0. /\ row \in Rows
        /\ \A p \in Procs : at[p] = "resumed" => seen[p].reason \in {"traffic", "expired"}
    BY <1>1 DEF IInv, TypeOK, ResumersKnow
  <2>1. CASE PatrolStep
    <3>1. CASE \E answer \in Answers : PatrolCall(answer)
      BY <1>1, <2>0, <3>1 DEF PatrolCall, Revoke, StopTraffic, UndoTraffic,
          StopExpired,
          UndoExpired, Terminate, Unsuspend, Update, Rows
    <3>2. CASE BeginRound \/ Revoked \/ Recover \/ ListTraffic \/ Sample \/ NoMetrics
               \/ MarkTraffic \/ ListExpired \/ ClaimExpired \/ ReleaseExpired \/ MarkExpired
      BY <1>1, <2>0, <3>2 DEF BeginRound, Revoked, Recover, ListTraffic, Sample,
          NoMetrics, MarkTraffic, ListExpired, ClaimExpired, ReleaseExpired,
          MarkExpired, MarkExpiredIf, Update, Rows
    <3>3. CASE ListTerminable \/ ClaimTerminate \/ Recheck \/ ReleaseTerminate
               \/ MarkTerminated \/ ListResumes \/ ResumeError(Patrol) \/ Resumed(Patrol)
      BY <1>1, <2>0, <3>3 DEF ListTerminable, ClaimTerminate, ClaimTerminateIf,
          Recheck,
          ReleaseTerminate, MarkTerminated, ListResumes, ResumeError, Resumed,
          ResumedIf, Step, Update, Rows
    <3>4. QED  BY <2>1, <3>1, <3>2, <3>3 DEF PatrolStep
  <2>2. CASE \E j \in Jobs : Request(j)
    BY <1>1, <2>0, <2>2 DEF Request, Renew, SettleRenewal, Renewal, Renewable, TopUp,
        SetServiceStatus, Rows
  <2>3. ASSUME NEW j \in Jobs, JobStep(j)  PROVE row'.status # "active"
    <3>0. ~WriteStatus(j)
      BY <1>1
    <3>1. CASE TakeOver(j)
      BY <1>1, <2>0, <3>1 DEF TakeOver, Rows
    <3>2. CASE Resumed(j)
      BY <1>1, <2>0, <3>2 DEF Resumed, ResumedIf, Step, Update, Rows
    <3>3. QED
      BY <1>1, <2>0, <2>3, <3>0, <3>1, <3>2 DEF JobStep, RenewUpstream, RenewCall,
          Reconciled,
          ReconcileFails, RereadService, Notify, ResumeError, SetUpstream, Unsuspend, Update,
          Rows
  <2>4. CASE Refund \/ Tick \/ Crash \/ UNCHANGED vars
    BY <1>1, <2>0, <2>4 DEF Refund, Tick, Crash, vars, Update, Rows
  <2>5. QED  BY <1>1, <2>1, <2>2, <2>3, <2>4 DEF Next
<1>2. IInv /\ [Next]_vars
        => [Suspended("refund") /\ row'.status = "active" => \E j \in Jobs : WriteStatus(j)]_vars
  BY <1>1
<1>3. QED  BY <1>2, Invariant, PTL DEF Spec, RevokedStaysShut

-----------------------------------------------------------------------------
(* What a payment overtook is rolled back.                                 *)

\* Request r alone may resume the service, and nobody is an administrator. Where
\* two requests resume, the slower one can answer a suspension that was made
\* again after the faster one had lifted it, and ActiveRuns fails.
Resumer(r) == \A j \in Jobs : /\ Kinds[j] \cap {"pause", "unpause"} = {}
                              /\ j # r => Kinds[j] \cap {"renew", "topup"} = {}
OneResumes == \E r \in Procs : Resumer(r)

ResumingSteps == {"renewing", "renewed", "renewFailed", "reread", "rereadTraffic",
                  "unsuspend", "resumed", "resumeError"}
AdminSteps == {"pausing", "pauseAgain", "unpausing", "unpauseAgain", "pauseWrite", "unpauseWrite"}
\* Of the patrol, once it has listed an active service.
Enforcing == {"sample", "overQuota", "markTraffic", "undoTraffic", "claimExpired",
              "stopExpired", "releaseExpired", "markExpired", "undoExpired"}
\* Of these, where the machine may be down: it is written down as suspended, or started again.
Undoing == {"markTraffic", "undoTraffic", "markExpired", "undoExpired"}

WrittenOff == row.status \in {"terminated", "failed"}

\* Who resumes, and that it is the same as before.
OneAtATime(r) == \A j \in Jobs : at[j] \notin AdminSteps /\ (at[j] \in ResumingSteps => j = r)

\* What the machine is, by where the patrol stands and what the row says.
MachineFollows ==
    /\ row.status = "active" => upstream = "running" \/ at[Patrol] \in Undoing
    /\ upstream = "purged" => WrittenOff \/ Suspended("terminating")
    /\ row.resume => upstream = "purged"

\* What the row is while the patrol is about to change the machine.
PatrolKnows ==
    /\ Suspended("terminating") => at[Patrol] \in {"terminate", "recheck", "markTerminated"}
    /\ at[Patrol] = "terminate" => WrittenOff \/ Suspended("terminating")
    /\ at[Patrol] = "revoke" => WrittenOff \/ Suspended("refund")
    /\ at[Patrol] \in Enforcing => WrittenOff \/ row.status = "active" \/ Suspended("refund")
    /\ at[Patrol] \notin {"unsuspend", "resumed", "resumeError"}

\* What the row and the machine are while a request resumes.
ResumerKnows ==
    \A j \in Jobs :
        /\ at[j] \in {"unsuspend", "resumed"} => row.status # "active"
        /\ at[j] = "resumed" /\ Suspended(seen[j].reason) => upstream = "running"
        /\ at[j] = "resumeError" => upstream = "purged"

Smooth(r) == OneAtATime(r) /\ MachineFollows /\ PatrolKnows /\ ResumerKnows

\* Without faults a call is obeyed, unless the machine is gone.
LEMMA Obeys ==
  ASSUME faults \in Nat, faults' = 0, NEW action, NEW answer, MayAnswer(action, answer)
  PROVE  /\ faults = 0 /\ answer = IF upstream = "purged" /\ action # "purged" THEN "refused" ELSE "ok"
BY DEF MayAnswer, Fault

LEMMA CallObeyed ==
  ASSUME faults \in Nat, faults' = 0, NEW action, NEW answer, Call(action, answer)
  PROVE  /\ answer = "ok" => upstream' = action \/ upstream = "purged"
         /\ answer # "ok" => upstream = "purged" /\ action # "purged"
         /\ upstream = "purged" => upstream' = "purged"
         /\ answer = "ok" /\ action # "purged" => upstream' = action
         /\ upstream' \in {upstream, action}
BY Obeys DEF Call

\* Where the patrol stands before and after a step.
LEMMA Pointed ==
  ASSUME TypeOK, NEW from, NEW to, Step(Patrol, from, to)
  PROVE  at[Patrol] = from /\ at'[Patrol] = to
BY DEF TypeOK, Step

\* Under a step of the patrol no suspension appears that a request is answering.
Unanswered ==
    /\ row'.status = "active" => row.status = "active"
    /\ Suspended("traffic")' => \/ row.status = "active"
                                \/ Suspended("traffic") /\ upstream' \in {upstream, "running"}
    /\ Suspended("expired")' => \/ row.status = "active"
                                \/ Suspended("expired") /\ upstream' \in {upstream, "running"}
    /\ upstream = "purged" => upstream' = "purged"

LEMMA OthersUnmoved ==
  ASSUME TypeOK, ResumersKnow, NEW r, Smooth(r), Unanswered,
         \A j \in Jobs : at'[j] = at[j] /\ seen'[j] = seen[j]
  PROVE  OneAtATime(r)' /\ ResumerKnows'
<1>1. OneAtATime(r)'  BY DEF Smooth, OneAtATime
<1>2. SUFFICES ASSUME NEW j \in Jobs
               PROVE  /\ at'[j] \in {"unsuspend", "resumed"} => row'.status # "active"
                      /\ at'[j] = "resumed" /\ Suspended(seen[j].reason)' => upstream' = "running"
                      /\ at'[j] = "resumeError" => upstream' = "purged"
  BY <1>1 DEF ResumerKnows
<1>3. at'[j] = at[j] /\ seen'[j] = seen[j]  OBVIOUS
<1>4. /\ at[j] \in {"unsuspend", "resumed"} => row.status # "active"
      /\ at[j] = "resumed" /\ Suspended(seen[j].reason) => upstream = "running"
      /\ at[j] = "resumeError" => upstream = "purged"
  BY DEF Smooth, ResumerKnows
<1>5. at[j] = "resumed" => seen[j].reason \in {"traffic", "expired"}
  BY DEF ResumersKnow
<1>6. QED  BY <1>3, <1>4, <1>5 DEF Unanswered

\* The steps of the patrol.
LEMMA PatrolSmooth ==
  ASSUME IInv, NEW r, Smooth(r), PatrolStep, faults' = 0
  PROVE  Smooth(r)'
<1>0. /\ TypeOK /\ ResumersKnow /\ row \in Rows /\ faults \in Nat
      /\ upstream \in {"running", "stopped", "purged"}
  BY DEF IInv, TypeOK
<1>a. MachineFollows /\ PatrolKnows  BY DEF Smooth
<1>1. \A j \in Jobs : at'[j] = at[j] /\ seen'[j] = seen[j]  BY <1>0, PatrolMoves
<1> DEFINE Follows == MachineFollows' /\ PatrolKnows' /\ Unanswered
<1>2. Follows => Smooth(r)'
  BY <1>0, <1>1, OthersUnmoved DEF Smooth
<1>3. CASE BeginRound
  <2>1. /\ at[Patrol] = "idle"
        /\ at'[Patrol] = IF RevocationDue THEN "revoke" ELSE "recover"
        /\ row' = row /\ upstream' = upstream
    BY <1>0, <1>3, Pointed DEF BeginRound
  <2>2. Follows
    BY <1>0, <1>a, <2>1
    DEF MachineFollows, PatrolKnows, Unanswered, WrittenOff, Enforcing, Undoing,
        RevocationDue
  <2>3. QED  BY <1>2, <2>2
<1>4. CASE Revoked
  <2>1. /\ at[Patrol] = "revoked" /\ at'[Patrol] = "recover"
        /\ row' = IF RevocationDue THEN [row EXCEPT !.refundDue = FALSE, !.error = FALSE] ELSE row
        /\ upstream' = upstream
    BY <1>0, <1>4, Pointed DEF Revoked, Update
  <2>2. Follows
    BY <1>0, <1>a, <2>1
    DEF MachineFollows, PatrolKnows, Unanswered, WrittenOff, Enforcing, Undoing,
        RevocationDue, Rows
  <2>3. QED  BY <1>2, <2>2
<1>5. CASE Recover
  <2>1. /\ at[Patrol] = "recover" /\ at'[Patrol] = "traffic"
        /\ row'.status = row.status /\ row'.resume = row.resume
        /\ row.reason \notin {"enforcing", "terminating"} => row'.reason = row.reason
        /\ row.reason = "enforcing" => row'.reason = ""
        /\ row.reason = "terminating" => row'.reason = "expired"
        /\ upstream' = upstream
    BY <1>0, <1>5, Pointed DEF Recover, Rows
  <2>2. Follows
    BY <1>0, <1>a, <2>1
    DEF MachineFollows, PatrolKnows, Unanswered, WrittenOff, Enforcing, Undoing
  <2>3. QED  BY <1>2, <2>2
<1>6. CASE ListTraffic
  <2>1. /\ at[Patrol] = "traffic"
        /\ at'[Patrol] = IF row.status = "active" THEN "sample" ELSE "expiry"
        /\ row' = row /\ upstream' = upstream
    BY <1>0, <1>6, Pointed DEF ListTraffic
  <2>2. Follows
    BY <1>0, <1>a, <2>1
    DEF MachineFollows, PatrolKnows, Unanswered, WrittenOff, Enforcing, Undoing
  <2>3. QED  BY <1>2, <2>2
<1>7. CASE Sample
  <2>1. /\ at[Patrol] = "sample" /\ at'[Patrol] \in {"overQuota", "expiry"}
        /\ row'.status = row.status /\ row'.reason = row.reason /\ row'.resume = row.resume
        /\ upstream' = upstream
    BY <1>0, <1>7, Pointed DEF Sample, Rows
  <2>2. Follows
    BY <1>0, <1>a, <2>1
    DEF MachineFollows, PatrolKnows, Unanswered, WrittenOff, Enforcing, Undoing
  <2>3. QED  BY <1>2, <2>2
<1>8. CASE MarkTraffic
  <2>1. at[Patrol] = "markTraffic" /\ upstream' = upstream
    BY <1>0, <1>8, Pointed DEF MarkTraffic
  <2>2. CASE row.status = "active" /\ row.reason = ""
    <3>1. /\ at'[Patrol] = "expiry"
          /\ row'.status = "suspended" /\ row'.reason = "traffic" /\ row'.resume = row.resume
      BY <1>0, <1>8, <2>2, Pointed DEF MarkTraffic, Update, Rows
    <3>2. Follows
      BY <1>0, <1>a, <2>1, <2>2, <3>1
      DEF MachineFollows, PatrolKnows, Unanswered, WrittenOff, Enforcing, Undoing
    <3>3. QED  BY <1>2, <3>2
  <2>3. CASE ~(row.status = "active" /\ row.reason = "")
    <3>1. /\ at'[Patrol] = "undoTraffic"
          /\ row' = row
      BY <1>0, <1>8, <2>3, Pointed DEF MarkTraffic, Update
    <3>2. Follows
      BY <1>0, <1>a, <2>1, <2>3, <3>1
      DEF MachineFollows, PatrolKnows, Unanswered, WrittenOff, Enforcing, Undoing
    <3>3. QED  BY <1>2, <3>2
  <2>4. QED  BY <2>2, <2>3
<1>9. CASE ListExpired
  <2>1. /\ at[Patrol] = "expiry"
        /\ at'[Patrol] \in {"claimExpired", "terminations"}
        /\ at'[Patrol] = "claimExpired" => row.status = "active"
        /\ row' = row /\ upstream' = upstream
    BY <1>0, <1>9, Pointed DEF ListExpired
  <2>2. Follows
    BY <1>0, <1>a, <2>1
    DEF MachineFollows, PatrolKnows, Unanswered, WrittenOff, Enforcing, Undoing
  <2>3. QED  BY <1>2, <2>2
<1>10. CASE ClaimExpired
  <2>1. at[Patrol] = "claimExpired" /\ upstream' = upstream
    BY <1>0, <1>10, Pointed DEF ClaimExpired
  <2>2. CASE row.status = "active" /\ row.reason = "" /\ row.expires = seen[Patrol].expires
    <3>1. /\ at'[Patrol] = "stopExpired"
          /\ row'.status = "active" /\ row'.reason = "enforcing" /\ row'.resume = row.resume
      BY <1>0, <1>10, <2>2, Pointed DEF ClaimExpired, Update, Rows
    <3>2. Follows
      BY <1>0, <1>a, <2>1, <2>2, <3>1
      DEF MachineFollows, PatrolKnows, Unanswered, WrittenOff, Enforcing, Undoing
    <3>3. QED  BY <1>2, <3>2
  <2>3. CASE ~(row.status = "active" /\ row.reason = "" /\ row.expires = seen[Patrol].expires)
    <3>1. /\ at'[Patrol] = "terminations"
          /\ row' = row
      BY <1>0, <1>10, <2>3, Pointed DEF ClaimExpired, Update
    <3>2. Follows
      BY <1>0, <1>a, <2>1, <2>3, <3>1
      DEF MachineFollows, PatrolKnows, Unanswered, WrittenOff, Enforcing, Undoing
    <3>3. QED  BY <1>2, <3>2
  <2>4. QED  BY <2>2, <2>3
<1>11. CASE ReleaseExpired
  <2>1. /\ at[Patrol] = "releaseExpired" /\ at'[Patrol] = "terminations"
        /\ row'.status = row.status /\ row'.resume = row.resume
        /\ row'.reason = IF row.reason = "enforcing" THEN "" ELSE row.reason
        /\ upstream' = upstream
    BY <1>0, <1>11, Pointed DEF ReleaseExpired, Update, Rows
  <2>2. Follows
    BY <1>0, <1>a, <2>1
    DEF MachineFollows, PatrolKnows, Unanswered, WrittenOff, Enforcing, Undoing
  <2>3. QED  BY <1>2, <2>2
<1>12. CASE MarkExpired
  <2>1. at[Patrol] = "markExpired" /\ upstream' = upstream
    BY <1>0, <1>12, Pointed DEF MarkExpired, MarkExpiredIf
  <2>2. CASE ExpiryClaimHolds
    <3>1. /\ at'[Patrol] = "resumes"
          /\ row'.status = "suspended" /\ row'.reason = "expired" /\ row'.resume = row.resume
      BY <1>0, <1>12, <2>2, Pointed DEF MarkExpired, MarkExpiredIf, Update, Rows
    <3>2. Follows
      BY <1>0, <1>a, <2>1, <2>2, <3>1
      DEF MachineFollows, PatrolKnows, Unanswered, WrittenOff, Enforcing, Undoing,
          ExpiryClaimHolds
    <3>3. QED  BY <1>2, <3>2
  <2>3. CASE ~(ExpiryClaimHolds)
    <3>1. /\ at'[Patrol] = "undoExpired"
          /\ row' = row
      BY <1>0, <1>12, <2>3, Pointed DEF MarkExpired, MarkExpiredIf, Update
    <3>2. Follows
      BY <1>0, <1>a, <2>1, <2>3, <3>1
      DEF MachineFollows, PatrolKnows, Unanswered, WrittenOff, Enforcing, Undoing,
          ExpiryClaimHolds
    <3>3. QED  BY <1>2, <3>2
  <2>4. QED  BY <2>2, <2>3
<1>13. CASE ListTerminable
  <2>1. /\ at[Patrol] = "terminations" /\ at'[Patrol] \in {"claimTerminate", "resumes"}
        /\ row' = row /\ upstream' = upstream
    BY <1>0, <1>13, Pointed DEF ListTerminable
  <2>2. Follows
    BY <1>0, <1>a, <2>1
    DEF MachineFollows, PatrolKnows, Unanswered, WrittenOff, Enforcing, Undoing
  <2>3. QED  BY <1>2, <2>2
<1>14. CASE ClaimTerminate
  <2>1. at[Patrol] = "claimTerminate" /\ upstream' = upstream
    BY <1>0, <1>14, Pointed DEF ClaimTerminate, ClaimTerminateIf
  <2>2. PICK mine \in BOOLEAN :
          /\ mine => Suspended("expired")
          /\ Step(Patrol, "claimTerminate", IF mine THEN "terminate" ELSE "resumes")
          /\ row' = IF mine THEN [row EXCEPT !.reason = "terminating"] ELSE row
    BY <1>14 DEF ClaimTerminate, ClaimTerminateIf, Update
  <2>3. CASE mine
    <3>1. /\ Suspended("expired") /\ at'[Patrol] = "terminate"
          /\ row'.status = row.status /\ row'.reason = "terminating"
          /\ row'.resume = row.resume
      BY <1>0, <2>2, <2>3, Pointed DEF Rows
    <3>2. Follows
      BY <1>0, <1>a, <2>1, <3>1
      DEF MachineFollows, PatrolKnows, Unanswered, WrittenOff, Enforcing, Undoing
    <3>3. QED  BY <1>2, <3>2
  <2>4. CASE ~mine
    <3>1. row' = row /\ at'[Patrol] = "resumes"
      BY <1>0, <2>2, <2>4, Pointed
    <3>2. Follows
      BY <1>0, <1>a, <2>1, <3>1
      DEF MachineFollows, PatrolKnows, Unanswered, WrittenOff, Enforcing, Undoing
    <3>3. QED  BY <1>2, <3>2
  <2>5. QED  BY <2>3, <2>4
<1>15. CASE Recheck
  <2>1. /\ at[Patrol] = "recheck"
        /\ at'[Patrol] = IF Suspended("terminating") THEN "markTerminated" ELSE "releaseTerminate"
        /\ row' = row /\ upstream' = upstream
    BY <1>0, <1>15, Pointed DEF Recheck
  <2>2. Follows
    BY <1>0, <1>a, <2>1
    DEF MachineFollows, PatrolKnows, Unanswered, WrittenOff, Enforcing, Undoing
  <2>3. QED  BY <1>2, <2>2
<1>16. CASE ReleaseTerminate
  <2>1. /\ at[Patrol] = "releaseTerminate" /\ at'[Patrol] = "resumes"
        /\ row'.status = row.status /\ row'.resume = row.resume
        /\ row'.reason = IF row.reason = "terminating" THEN "expired" ELSE row.reason
        /\ upstream' = upstream
    BY <1>0, <1>16, Pointed DEF ReleaseTerminate, Update, Rows
  <2>2. Follows
    BY <1>0, <1>a, <2>1
    DEF MachineFollows, PatrolKnows, Unanswered, WrittenOff, Enforcing, Undoing
  <2>3. QED  BY <1>2, <2>2
<1>17. CASE MarkTerminated
  <2>1. at[Patrol] = "markTerminated" /\ upstream' = upstream
    BY <1>0, <1>17, Pointed DEF MarkTerminated
  <2>2. CASE Suspended("expired") \/ Suspended("terminating")
    <3>1. /\ at'[Patrol] = "resumes"
          /\ row'.status = "terminated" /\ row'.resume = row.resume
      BY <1>0, <1>17, <2>2, Pointed DEF MarkTerminated, Update, Rows
    <3>2. Follows
      BY <1>0, <1>a, <2>1, <2>2, <3>1
      DEF MachineFollows, PatrolKnows, Unanswered, WrittenOff, Enforcing, Undoing
    <3>3. QED  BY <1>2, <3>2
  <2>3. CASE ~(Suspended("expired") \/ Suspended("terminating"))
    <3>1. /\ at'[Patrol] = "resumes"
          /\ row' = row
      BY <1>0, <1>17, <2>3, Pointed DEF MarkTerminated, Update
    <3>2. Follows
      BY <1>0, <1>a, <2>1, <2>3, <3>1
      DEF MachineFollows, PatrolKnows, Unanswered, WrittenOff, Enforcing, Undoing
    <3>3. QED  BY <1>2, <3>2
  <2>4. QED  BY <2>2, <2>3
<1>18. CASE ListResumes
  <2>1. /\ at[Patrol] = "resumes"
        /\ at'[Patrol] = IF Resumable THEN "unsuspend" ELSE "idle"
        /\ row' = row /\ upstream' = upstream
    BY <1>0, <1>18, Pointed DEF ListResumes
  <2>2. Follows
    BY <1>0, <1>a, <2>1
    DEF MachineFollows, PatrolKnows, Unanswered, WrittenOff, Enforcing, Undoing,
        Resumable
  <2>3. QED  BY <1>2, <2>2
<1>19. ~NoMetrics
  BY <1>0 DEF NoMetrics, Fault
<1>20. ~ResumeError(Patrol) /\ ~Resumed(Patrol)
  BY <1>a DEF PatrolKnows, ResumeError, Resumed, ResumedIf, Step
<1>21. ASSUME NEW answer \in Answers, PatrolCall(answer) PROVE Smooth(r)'
  <2>1. CASE Revoke(answer)
    <3>1. /\ at[Patrol] = "revoke" /\ at'[Patrol] \in {"revoked", "recover"}
          /\ row'.status = row.status /\ row'.reason = row.reason /\ row'.resume = row.resume
          /\ Call("stopped", answer)
      BY <1>0, <2>1, Pointed DEF Revoke, Update, Rows
    <3>2. /\ answer # "ok" => upstream = "purged" /\ "stopped" # "purged"
          /\ upstream = "purged" => upstream' = "purged"
          /\ answer = "ok" /\ "stopped" # "purged" => upstream' = "stopped"
          /\ upstream' \in {upstream, "stopped"}
      BY <1>0, <3>1, CallObeyed
    <3>3. Follows
      BY <1>0, <1>a, <3>1, <3>2
      DEF MachineFollows, PatrolKnows, Unanswered, WrittenOff, Enforcing, Undoing
    <3>4. QED  BY <1>2, <3>3
  <2>2. CASE StopTraffic(answer)
    <3>1. /\ at[Patrol] = "overQuota"
          /\ at'[Patrol] = IF answer = "ok" THEN "markTraffic" ELSE "expiry"
          /\ row' = row /\ Call("stopped", answer)
      BY <1>0, <2>2, Pointed DEF StopTraffic
    <3>2. /\ answer # "ok" => upstream = "purged" /\ "stopped" # "purged"
          /\ upstream = "purged" => upstream' = "purged"
          /\ answer = "ok" /\ "stopped" # "purged" => upstream' = "stopped"
          /\ upstream' \in {upstream, "stopped"}
      BY <1>0, <3>1, CallObeyed
    <3>3. Follows
      BY <1>0, <1>a, <3>1, <3>2
      DEF MachineFollows, PatrolKnows, Unanswered, WrittenOff, Enforcing, Undoing
    <3>4. QED  BY <1>2, <3>3
  <2>3. CASE UndoTraffic(answer)
    <3>1. /\ at[Patrol] = "undoTraffic" /\ at'[Patrol] = "expiry"
          /\ row' = row /\ Call("running", answer)
      BY <1>0, <2>3, Pointed DEF UndoTraffic
    <3>2. /\ answer # "ok" => upstream = "purged" /\ "running" # "purged"
          /\ upstream = "purged" => upstream' = "purged"
          /\ answer = "ok" /\ "running" # "purged" => upstream' = "running"
          /\ upstream' \in {upstream, "running"}
      BY <1>0, <3>1, CallObeyed
    <3>3. Follows
      BY <1>0, <1>a, <3>1, <3>2
      DEF MachineFollows, PatrolKnows, Unanswered, WrittenOff, Enforcing, Undoing
    <3>4. QED  BY <1>2, <3>3
  <2>4. CASE StopExpired(answer)
    <3>1. /\ at[Patrol] = "stopExpired"
          /\ at'[Patrol] = IF answer = "ok" THEN "markExpired" ELSE "releaseExpired"
          /\ row' = row /\ Call("stopped", answer)
      BY <1>0, <2>4, Pointed DEF StopExpired
    <3>2. /\ answer # "ok" => upstream = "purged" /\ "stopped" # "purged"
          /\ upstream = "purged" => upstream' = "purged"
          /\ answer = "ok" /\ "stopped" # "purged" => upstream' = "stopped"
          /\ upstream' \in {upstream, "stopped"}
      BY <1>0, <3>1, CallObeyed
    <3>3. Follows
      BY <1>0, <1>a, <3>1, <3>2
      DEF MachineFollows, PatrolKnows, Unanswered, WrittenOff, Enforcing, Undoing
    <3>4. QED  BY <1>2, <3>3
  <2>5. CASE UndoExpired(answer)
    <3>1. /\ at[Patrol] = "undoExpired" /\ at'[Patrol] = "terminations"
          /\ row' = row /\ Call("running", answer)
      BY <1>0, <2>5, Pointed DEF UndoExpired
    <3>2. /\ answer # "ok" => upstream = "purged" /\ "running" # "purged"
          /\ upstream = "purged" => upstream' = "purged"
          /\ answer = "ok" /\ "running" # "purged" => upstream' = "running"
          /\ upstream' \in {upstream, "running"}
      BY <1>0, <3>1, CallObeyed
    <3>3. Follows
      BY <1>0, <1>a, <3>1, <3>2
      DEF MachineFollows, PatrolKnows, Unanswered, WrittenOff, Enforcing, Undoing
    <3>4. QED  BY <1>2, <3>3
  <2>6. CASE Terminate(answer)
    <3>1. /\ at[Patrol] = "terminate"
          /\ at'[Patrol] = IF answer = "ok" THEN "recheck" ELSE "releaseTerminate"
          /\ row' = row /\ Call("purged", answer)
      BY <1>0, <2>6, Pointed DEF Terminate
    <3>2. /\ answer # "ok" => upstream = "purged" /\ "purged" # "purged"
          /\ upstream = "purged" => upstream' = "purged"
          /\ answer = "ok" /\ "purged" # "purged" => upstream' = "purged"
          /\ upstream' \in {upstream, "purged"}
      BY <1>0, <3>1, CallObeyed
    <3>3. Follows
      BY <1>0, <1>a, <3>1, <3>2
      DEF MachineFollows, PatrolKnows, Unanswered, WrittenOff, Enforcing, Undoing
    <3>4. QED  BY <1>2, <3>3
  <2>7. ~Unsuspend(Patrol, answer)
    BY <1>a DEF PatrolKnows, Unsuspend, Step
  <2>8. QED  BY <1>21, <2>1, <2>2, <2>3, <2>4, <2>5, <2>6, <2>7 DEF PatrolCall
<1>22. QED
  BY <1>3, <1>4, <1>5, <1>6, <1>7, <1>8, <1>9, <1>10, <1>11, <1>12, <1>13, <1>14, <1>15,
     <1>16, <1>17, <1>18, <1>19, <1>20, <1>21
  DEF PatrolStep

\* Where a request stands before and after its step; the others stay.
LEMMA PointedJob ==
  ASSUME TypeOK, NEW j \in Jobs, NEW from, NEW to, Step(j, from, to)
  PROVE  /\ at[j] = from /\ at'[j] = to /\ at'[Patrol] = at[Patrol]
         /\ \A k \in Jobs \ {j} : at'[k] = at[k]
BY DEF TypeOK, Step

\* A step that leaves the machine and what the row says of it alone.
LEMMA LeavesSmooth ==
  ASSUME TypeOK, NEW r, Smooth(r), NEW j \in Jobs, upstream' = upstream,
         row'.status = row.status /\ row'.resume = row.resume,
         row'.reason = row.reason \/ row.status = "active",
         at'[Patrol] = at[Patrol],
         \A k \in Jobs \ {j} : at'[k] = at[k] /\ seen'[k] = seen[k],
         at'[j] \notin AdminSteps \cup {"resumed", "resumeError"},
         at'[j] \in ResumingSteps => j = r,
         at'[j] = "unsuspend" => row.status # "active"
  PROVE  Smooth(r)'
<1>1. OneAtATime(r)'
  BY DEF Smooth, OneAtATime
<1>2. MachineFollows' /\ PatrolKnows'
  BY DEF Smooth, MachineFollows, PatrolKnows, WrittenOff, Enforcing, Undoing
<1>3. ResumerKnows'
  BY DEF Smooth, ResumerKnows
<1>4. QED  BY <1>1, <1>2, <1>3 DEF Smooth

\* The steps of the requests.
LEMMA JobSmooth ==
  ASSUME IInv, NEW r, Resumer(r), Smooth(r), NEW j \in Jobs, Request(j) \/ JobStep(j),
         faults' = 0
  PROVE  Smooth(r)'
<1>0. /\ TypeOK /\ row \in Rows /\ faults \in Nat /\ seen \in [Procs -> Sights]
      /\ upstream \in {"running", "stopped", "purged"}
      /\ at[j] \in {"unsuspend", "resumed"} => seen[j].reason \in {"traffic", "expired"}
  BY DEF IInv, TypeOK, ResumersKnow
<1>a. /\ MachineFollows /\ PatrolKnows /\ ResumerKnows
      /\ at[j] \notin AdminSteps /\ (at[j] \in ResumingSteps => j = r)
      /\ \A k \in Jobs \ {j} : at[k] \notin AdminSteps /\ (at[k] \in ResumingSteps => k = r)
  BY DEF Smooth, OneAtATime
<1> USE DEF AdminSteps, ResumingSteps
<1>1. CASE Renew(j) \/ SettleRenewal(j)
  <2>1. /\ upstream' = upstream /\ seen' = seen
        /\ row'.status = row.status /\ row'.resume = row.resume
        /\ row'.reason = row.reason \/ row.status = "active"
    BY <1>0, <1>1 DEF Renew, SettleRenewal, Renewal, Rows
  <2>2. /\ at'[Patrol] = at[Patrol] /\ \A k \in Jobs \ {j} : at'[k] = at[k]
        /\ at'[j] = "settling" \/ (at'[j] = "renewing" /\ "renew" \in Kinds[j])
    BY <1>0, <1>1, PointedJob DEF Renew, SettleRenewal, Renewal
  <2>3. at'[j] = "renewing" => j = r  BY <2>2 DEF Resumer
  <2>4. QED  BY <1>0, <2>1, <2>2, <2>3, LeavesSmooth
<1>2. CASE TopUp(j)
  <2>1. /\ upstream' = upstream /\ seen' = seen
        /\ row'.status = row.status /\ row'.resume = row.resume /\ row'.reason = row.reason
    BY <1>0, <1>2 DEF TopUp, Rows
  <2>2. /\ at'[Patrol] = at[Patrol] /\ \A k \in Jobs \ {j} : at'[k] = at[k]
        /\ at'[j] = "notify" \/ (at'[j] = "rereadTraffic" /\ "topup" \in Kinds[j])
    BY <1>0, <1>2, PointedJob DEF TopUp
  <2>3. at'[j] = "rereadTraffic" => j = r  BY <2>2 DEF Resumer
  <2>4. QED  BY <1>0, <2>1, <2>2, <2>3, LeavesSmooth
<1>3. ~SetServiceStatus(j)
  BY DEF SetServiceStatus, Resumer
<1>4. CASE RenewUpstream(j)
  <2>1. /\ upstream' = upstream /\ row' = row
        /\ \A k \in Jobs \ {j} : seen'[k] = seen[k]
    BY <1>0, <1>4 DEF RenewUpstream, RenewCall, Recall
  <2>2. /\ at'[Patrol] = at[Patrol] /\ \A k \in Jobs \ {j} : at'[k] = at[k]
        /\ \/ at[j] = "renewing" /\ at'[j] \in {"renewed", "renewFailed"}
           \/ at[j] = "settling" /\ at'[j] \in {"settled", "settleFailed"}
    BY <1>0, <1>4, PointedJob DEF RenewUpstream, RenewCall
  <2>3. QED  BY <1>0, <1>a, <2>1, <2>2, LeavesSmooth
<1>5. CASE Reconciled(j)
  <2>1. /\ upstream' = upstream
        /\ row'.status = row.status /\ row'.resume = row.resume /\ row'.reason = row.reason
        /\ \A k \in Jobs \ {j} : seen'[k] = seen[k]
    BY <1>0, <1>5 DEF Reconciled, Forget, Recall, Rows
  <2>2. /\ at'[Patrol] = at[Patrol] /\ \A k \in Jobs \ {j} : at'[k] = at[k]
        /\ \/ at[j] = "renewed" /\ at'[j] = "reread"
           \/ at[j] = "settled" /\ at'[j] = "idle"
    BY <1>0, <1>5, PointedJob DEF Reconciled
  <2>3. QED  BY <1>0, <1>a, <2>1, <2>2, LeavesSmooth
<1>6. CASE ReconcileFails(j)
  <2>1. /\ upstream' = upstream
        /\ row'.status = "failed" /\ row'.resume = row.resume
        /\ \A k \in Jobs \ {j} : seen'[k] = seen[k]
    BY <1>0, <1>6 DEF ReconcileFails, Forget, Recall, Rows
  <2>2. /\ at'[Patrol] = at[Patrol] /\ \A k \in Jobs \ {j} : at'[k] = at[k]
        /\ \/ at[j] = "renewFailed" /\ at'[j] = "reread"
           \/ at[j] = "settleFailed" /\ at'[j] = "idle"
    BY <1>0, <1>6, PointedJob DEF ReconcileFails
  <2>3. OneAtATime(r)'
    BY <1>a, <2>2 DEF OneAtATime
  <2>4. MachineFollows' /\ PatrolKnows'
    BY <1>a, <2>1, <2>2 DEF MachineFollows, PatrolKnows, WrittenOff, Enforcing, Undoing
  <2>5. ResumerKnows'
    BY <1>a, <2>1, <2>2 DEF ResumerKnows
  <2>6. QED  BY <2>3, <2>4, <2>5 DEF Smooth
<1>7. CASE RereadService(j)
  <2>1. /\ upstream' = upstream /\ row' = row
        /\ \A k \in Jobs \ {j} : seen'[k] = seen[k]
    BY <1>0, <1>7 DEF RereadService, Recall
  <2>2. /\ at'[Patrol] = at[Patrol] /\ \A k \in Jobs \ {j} : at'[k] = at[k]
        /\ at[j] \in {"reread", "rereadTraffic"}
        /\ \/ at'[j] = "unsuspend" /\ row.status = "suspended"
           \/ at'[j] \in {"idle", "notify"}
    BY <1>0, <1>7, PointedJob DEF RereadService
  <2>3. QED  BY <1>0, <1>a, <2>1, <2>2, LeavesSmooth
<1>8. CASE Notify(j)
  <2>1. /\ upstream' = upstream /\ seen' = seen
        /\ row'.status = row.status /\ row'.resume = row.resume /\ row'.reason = row.reason
    BY <1>0, <1>8 DEF Notify, Update, Rows
  <2>2. /\ at'[Patrol] = at[Patrol] /\ \A k \in Jobs \ {j} : at'[k] = at[k]
        /\ at'[j] = "idle"
    BY <1>0, <1>8, PointedJob DEF Notify
  <2>3. QED  BY <1>0, <2>1, <2>2, LeavesSmooth
<1>9. CASE ResumeError(j)
  <2>1. /\ upstream' = upstream /\ row'.resume = TRUE
        /\ row'.status = row.status /\ row'.reason = row.reason
        /\ \A k \in Jobs \ {j} : seen'[k] = seen[k]
    BY <1>0, <1>9 DEF ResumeError, Forget, Recall, Rows
  <2>2. /\ at'[Patrol] = at[Patrol] /\ \A k \in Jobs \ {j} : at'[k] = at[k]
        /\ at[j] = "resumeError" /\ at'[j] \in {"idle", "notify"}
    BY <1>0, <1>9, PointedJob DEF ResumeError, AfterResume
  <2>3. upstream = "purged"
    BY <1>a, <2>2 DEF ResumerKnows
  <2>4. OneAtATime(r)'
    BY <1>a, <2>2 DEF OneAtATime
  <2>5. MachineFollows' /\ PatrolKnows'
    BY <1>a, <2>1, <2>2, <2>3
    DEF MachineFollows, PatrolKnows, WrittenOff, Enforcing, Undoing
  <2>6. ResumerKnows'
    BY <1>a, <2>1, <2>2 DEF ResumerKnows
  <2>7. QED  BY <2>4, <2>5, <2>6 DEF Smooth
<1>10. CASE Resumed(j)
  <2>1. /\ upstream' = upstream /\ \A k \in Jobs \ {j} : seen'[k] = seen[k]
    BY <1>0, <1>10 DEF Resumed, ResumedIf, Forget, Recall
  <2>2. /\ at'[Patrol] = at[Patrol] /\ \A k \in Jobs \ {j} : at'[k] = at[k]
        /\ at[j] = "resumed" /\ at'[j] \in {"idle", "notify"}
    BY <1>0, <1>10, PointedJob DEF Resumed, ResumedIf, AfterResume
  <2>3. OneAtATime(r)'
    BY <1>a, <2>2 DEF OneAtATime
  <2>4. CASE Suspended(seen[j].reason)
    <3>1. /\ row'.status = "active" /\ row'.resume = FALSE
          /\ Suspended("traffic") \/ Suspended("expired")
      BY <1>0, <1>10, <2>2, <2>4 DEF Resumed, ResumedIf, Update, Rows
    <3>2. upstream = "running"
      BY <1>a, <2>2, <2>4 DEF ResumerKnows
    <3>3. MachineFollows' /\ PatrolKnows'
      BY <1>a, <2>1, <2>2, <3>1, <3>2
      DEF MachineFollows, PatrolKnows, WrittenOff, Enforcing, Undoing
    <3>4. \A k \in Jobs \ {j} : at[k] \notin ResumingSteps
      BY <1>a, <2>2
    <3>5. ResumerKnows'
      BY <2>2, <3>4 DEF ResumerKnows
    <3>6. QED  BY <2>3, <3>3, <3>5 DEF Smooth
  <2>5. CASE ~Suspended(seen[j].reason)
    <3>1. row' = row
      BY <1>10, <2>5 DEF Resumed, ResumedIf, Update
    <3>2. QED  BY <1>0, <2>1, <2>2, <3>1, LeavesSmooth
  <2>6. QED  BY <2>4, <2>5
<1>11. ~TakeOver(j) /\ ~SetUpstream(j) /\ ~WriteStatus(j)
  BY <1>a DEF TakeOver, SetUpstream, WriteStatus, Step
<1>12. ASSUME NEW answer \in Answers, Unsuspend(j, answer) PROVE Smooth(r)'
  <2>1. row' = row /\ seen' = seen /\ Call("running", answer)
    BY <1>12 DEF Unsuspend
  <2>2. /\ at'[Patrol] = at[Patrol] /\ \A k \in Jobs \ {j} : at'[k] = at[k]
        /\ at[j] = "unsuspend"
        /\ at'[j] = IF answer = "ok" THEN "resumed" ELSE "resumeError"
    BY <1>0, <1>12, PointedJob DEF Unsuspend
  <2>3. /\ answer = "ok" => upstream' = "running"
        /\ answer # "ok" => upstream = "purged"
        /\ upstream = "purged" => upstream' = "purged"
        /\ upstream' \in {upstream, "running"}
    BY <1>0, <2>1, CallObeyed
  <2>4. row.status # "active"
    BY <1>a, <2>2 DEF ResumerKnows
  <2>5. OneAtATime(r)'
    BY <1>a, <2>2 DEF OneAtATime
  <2>6. MachineFollows' /\ PatrolKnows'
    BY <1>a, <2>1, <2>2, <2>3, <2>4
    DEF MachineFollows, PatrolKnows, WrittenOff, Enforcing, Undoing
  <2>7. \A k \in Jobs \ {j} : at[k] \notin ResumingSteps
    BY <1>a, <2>2
  <2>8. ResumerKnows'
    BY <2>1, <2>2, <2>3, <2>4, <2>7 DEF ResumerKnows
  <2>9. QED  BY <2>5, <2>6, <2>8 DEF Smooth
<1>13. QED
  BY <1>1, <1>2, <1>3, <1>4, <1>5, <1>6, <1>7, <1>8, <1>9, <1>10, <1>11, <1>12
  DEF Request, JobStep

\* A refund takes an active service down, which no call has touched.
LEMMA RefundSmooth ==
  ASSUME IInv, NEW r, Smooth(r), Refund
  PROVE  Smooth(r)'
<1>0. /\ TypeOK /\ row \in Rows /\ upstream' = upstream /\ at' = at /\ seen' = seen
      /\ \A j \in Jobs : at[j] \in {"unsuspend", "resumed"}
                           => seen[j].reason \in {"traffic", "expired"}
  BY DEF IInv, TypeOK, ResumersKnow, Refund
<1>1. CASE row.status = "active"
  <2>1. row'.status = "suspended" /\ row'.reason = "refund" /\ row'.resume = FALSE
    BY <1>0, <1>1 DEF Refund, Update, Rows
  <2>2. MachineFollows /\ PatrolKnows  BY DEF Smooth
  <2>3. MachineFollows'
    BY <1>0, <1>1, <2>1, <2>2 DEF MachineFollows, WrittenOff
  <2>4. PatrolKnows'
    BY <1>0, <1>1, <2>1, <2>2 DEF PatrolKnows, WrittenOff, Enforcing
  <2>5. ResumerKnows'
    BY <1>0, <2>1 DEF Smooth, ResumerKnows
  <2>6. QED  BY <1>0, <2>3, <2>4, <2>5 DEF Smooth, OneAtATime
<1>2. CASE row.status # "active"
  <2>1. row' = row  BY <1>2 DEF Refund, Update
  <2>2. QED  BY <1>0, <2>1 DEF Smooth, OneAtATime, MachineFollows, PatrolKnows,
                 ResumerKnows, WrittenOff
<1>3. QED  BY <1>1, <1>2

\* Faults and crashes are counted and never forgotten.
LEMMA Counted ==
  ASSUME TypeOK, [Next]_vars, faults' = 0, crashes' = 0
  PROVE  faults = 0 /\ crashes = 0 /\ ~Crash
<1>0. faults \in Nat /\ crashes \in Nat  BY DEF TypeOK
<1>1. ~Crash  BY <1>0 DEF Crash
<1>2. SUFFICES (faults' = faults \/ Fault) /\ crashes' = crashes
  BY <1>0, <1>1 DEF Fault
<1>3. CASE PatrolStep
  <2>1. CASE \E answer \in Answers : PatrolCall(answer)
    BY <2>1 DEF PatrolCall, Revoke, StopTraffic, UndoTraffic, StopExpired, UndoExpired,
       Terminate, Unsuspend, Call, MayAnswer
  <2>2. CASE BeginRound \/ Revoked \/ Recover \/ ListTraffic \/ Sample \/ NoMetrics
             \/ MarkTraffic
    <3>1. CASE MarkTraffic  BY <3>1 DEF MarkTraffic
    <3>2. CASE Sample  BY <3>2 DEF Sample
    <3>3. CASE BeginRound \/ Revoked \/ Recover \/ ListTraffic \/ NoMetrics
      BY <3>3 DEF BeginRound, Revoked, Recover, ListTraffic, NoMetrics
    <3>4. QED  BY <2>2, <3>1, <3>2, <3>3
  <2>3. CASE ListExpired \/ ClaimExpired \/ ReleaseExpired \/ MarkExpired
             \/ ListTerminable \/ ClaimTerminate \/ Recheck \/ ReleaseTerminate
    <3>1. CASE ListExpired \/ ClaimExpired  BY <3>1 DEF ListExpired, ClaimExpired
    <3>2. CASE MarkExpired  BY <3>2 DEF MarkExpired, MarkExpiredIf
    <3>3. CASE ClaimTerminate  BY <3>3 DEF ClaimTerminate, ClaimTerminateIf
    <3>4. CASE ReleaseExpired \/ ListTerminable \/ Recheck \/ ReleaseTerminate
      BY <3>4 DEF ReleaseExpired, ListTerminable, Recheck, ReleaseTerminate
    <3>5. QED  BY <2>3, <3>1, <3>2, <3>3, <3>4
  <2>4. CASE MarkTerminated \/ ListResumes \/ ResumeError(Patrol) \/ Resumed(Patrol)
    BY <2>4 DEF MarkTerminated, ListResumes, ResumeError, Resumed, ResumedIf
  <2>5. QED  BY <1>3, <2>1, <2>2, <2>3, <2>4 DEF PatrolStep
<1>4. CASE Refund \/ Tick  BY <1>4 DEF Refund, Tick
<1>5. ASSUME NEW j \in Jobs, Request(j) \/ JobStep(j)
      PROVE  (faults' = faults \/ Fault) /\ crashes' = crashes
  <2>1. CASE Request(j)
    BY <2>1 DEF Request, Renew, SettleRenewal, Renewal, TopUp, SetServiceStatus
  <2>2. CASE RenewUpstream(j) \/ RereadService(j) \/ Notify(j)
    <3>1. CASE RenewUpstream(j)
      BY <3>1 DEF RenewUpstream, RenewCall, MayAnswer
    <3>2. CASE RereadService(j)  BY <3>2 DEF RereadService
    <3>3. CASE Notify(j)  BY <3>3 DEF Notify, MayAnswer
    <3>4. QED  BY <2>2, <3>1, <3>2, <3>3
  <2>3. CASE Reconciled(j) \/ ReconcileFails(j) \/ ResumeError(j) \/ Resumed(j)
    BY <2>3 DEF Reconciled, ReconcileFails, ResumeError, Resumed, ResumedIf
  <2>4. CASE TakeOver(j) \/ SetUpstream(j) \/ WriteStatus(j)
    <3>1. CASE TakeOver(j) \/ WriteStatus(j)  BY <3>1 DEF TakeOver, WriteStatus
    <3>2. CASE SetUpstream(j)  BY <3>2 DEF SetUpstream, Call, MayAnswer
    <3>3. QED  BY <2>4, <3>1, <3>2
  <2>5. CASE \E answer \in Answers : Unsuspend(j, answer)
    BY <2>5 DEF Unsuspend, Call, MayAnswer
  <2>6. QED  BY <1>5, <2>1, <2>2, <2>3, <2>4, <2>5 DEF JobStep
<1>6. CASE UNCHANGED vars  BY <1>6 DEF vars
<1>7. QED  BY <1>1, <1>3, <1>4, <1>5, <1>6 DEF Next

\* A step of the whole keeps the machine where the books say, while no call failed.
LEMMA NextSmooth ==
  ASSUME IInv, NEW r, Resumer(r), faults = 0 /\ crashes = 0 => Smooth(r), [Next]_vars,
         faults' = 0, crashes' = 0
  PROVE  Smooth(r)'
<1>1. Smooth(r) /\ ~Crash  BY Counted DEF IInv
<1>2. CASE PatrolStep  BY <1>1, <1>2, PatrolSmooth
<1>3. CASE Refund  BY <1>1, <1>3, RefundSmooth
<1>4. CASE Tick \/ UNCHANGED vars
  <2>1. UNCHANGED <<row, upstream, at, seen>>  BY <1>4 DEF Tick, vars
  <2>2. QED
    BY <1>1, <2>1
    DEF Smooth, OneAtATime, MachineFollows, PatrolKnows, ResumerKnows, WrittenOff
<1>5. ASSUME NEW j \in Jobs, Request(j) \/ JobStep(j) PROVE Smooth(r)'
  BY <1>1, <1>5, JobSmooth
<1>6. QED  BY <1>1, <1>2, <1>3, <1>4, <1>5 DEF Next

\* When at most one request resumes the service and no administrator acts, what a
\* payment overtook is rolled back at the upstream: with no process under way and
\* every call answered, an active service runs (enforceTraffic, enforceExpiry,
\* resumeSuspended).
THEOREM OvertakenIsUndone == OneResumes => (Spec => []ActiveRuns)
<1> SUFFICES ASSUME NEW r \in Procs, Resumer(r) PROVE Spec => []ActiveRuns
  BY DEF OneResumes
<1> DEFINE Good == faults = 0 /\ crashes = 0 => Smooth(r)
<1>1. Init => Good
  <2>1. SUFFICES ASSUME Init PROVE Smooth(r)
    OBVIOUS
  <2>2. at[Patrol] = "idle" /\ \A j \in Jobs : at[j] = "idle"  BY <2>1 DEF Init
  <2>3. row.status = "active" /\ row.resume = FALSE /\ upstream = "running"
    BY <2>1 DEF Init
  <2>4. OneAtATime(r) /\ ResumerKnows
    BY <2>2 DEF OneAtATime, ResumerKnows, AdminSteps, ResumingSteps
  <2>5. MachineFollows /\ PatrolKnows
    BY <2>2, <2>3 DEF MachineFollows, PatrolKnows, Enforcing
  <2>6. QED  BY <2>4, <2>5 DEF Smooth
<1>2. IInv /\ Good /\ [Next]_vars => Good'
  BY NextSmooth
<1>3. IInv /\ Good => ActiveRuns
  BY DEF ActiveRuns, Smooth, MachineFollows, Undoing
<1>4. QED
  <2> HIDE DEF Good
  <2>1. QED  BY <1>1, <1>2, <1>3, Invariant, PTL DEF Spec

=============================================================================
