---------------------------------- MODULE Kyc ----------------------------------
(***************************************************************************)
(* Proof of identity (service/kyc.go, handler/kyc.go, storage/storage.go,  *)
(* plugin/manager.go): papers that the staff compare, or a certification   *)
(* run by a plugin, one record per account that a new try overwrites.      *)
(*                                                                         *)
(* A request reads the record, calls the disk or the plugin, and then      *)
(* writes, each a step.  The review is one transaction without a lock or a *)
(* unique number: on MySQL and Postgres others commit between its reads    *)
(* and its write, on SQLite's one connection nobody.  The two photos of a  *)
(* submission are kept and dropped together and are one element.           *)
(***************************************************************************)
EXTENDS Integers

CONSTANTS
    Applicants,     \* accounts
    Filings,        \* requests in flight
    Papers,         \* names of stored photos
    IdNumbers,      \* numbers of identity cards
    MaxCertify      \* bound on certifications begun

ASSUME KycAssumption ==
    /\ MaxCertify \in Nat
    /\ {"none"} \cap (Papers \cup IdNumbers \cup Applicants) = {}

VARIABLES
    identity,       \* the Verification row of each account
    photos,         \* photos in uploads/kyc
    filing,         \* each request and what it read
    certified,      \* certify ids given out
    overtaken,      \* history: a verdict was written on a record of another number
    skewed          \* history: a number was approved while another review had counted it free

kycVars == <<identity, photos, filing, certified, overtaken, skewed>>

\* Verification; certify = 0 outside the plugin's certification.
NoVerification == [status |-> "none", number |-> "none", photo |-> "none", certify |-> 0]
NotFiling == [at |-> "idle", who |-> "none", seen |-> NoVerification, number |-> "none",
              photo |-> "none", certify |-> 0]

Records == [status : {"none", "pending", "approved", "rejected"},
            number : IdNumbers \cup {"none"}, photo : Papers \cup {"none"}, certify : 0..MaxCertify]

KycTypeOK ==
    /\ identity \in [Applicants -> Records] /\ photos \subseteq Papers
    /\ filing \in [Filings -> [at : {"idle", "checked", "stored", "saved", "asking", "started",
                                     "querying", "approve", "refuse",
                                     "reviewing", "grant", "deny"},
                               who : Applicants \cup {"none"}, seen : Records,
                               number : IdNumbers \cup {"none"}, photo : Papers \cup {"none"},
                               certify : 0..MaxCertify]]
    /\ certified \in 0..MaxCertify /\ overtaken \in BOOLEAN /\ skewed \in BOOLEAN

KycInit ==
    /\ identity = [u \in Applicants |-> NoVerification] /\ photos = {} /\ certified = 0
    /\ overtaken = FALSE /\ skewed = FALSE
    /\ filing = [f \in Filings |-> NotFiling]

FilingMoves(f, to) == filing' = [filing EXCEPT ![f].at = to]
Filed(f) == filing' = [filing EXCEPT ![f] = NotFiling]

\* The number is approved for another account.
Taken(u, n) == \E w \in Applicants \ {u} : identity[w].status = "approved" /\ identity[w].number = n

-----------------------------------------------------------------------------
\* Submit, checks: neither approved nor in review, and the number free.
CheckSubmission(f, u, n) ==
    /\ filing[f].at = "idle"
    /\ identity[u].status \notin {"approved", "pending"} /\ ~Taken(u, n)
    /\ filing' = [filing EXCEPT ![f] =
          [NotFiling EXCEPT !.at = "checked", !.who = u, !.seen = identity[u], !.number = n]]
    /\ UNCHANGED <<identity, photos, certified, overtaken, skewed>>

\* A name no file, record or request holds: the store draws it at random.
FreshPaper(p) ==
    /\ p \notin photos /\ \A u \in Applicants : identity[u].photo # p
    /\ \A f \in Filings : p \notin {filing[f].photo, filing[f].seen.photo}

\* savePhoto: refused photos leave nothing behind.
StorePhotos(f) ==
    /\ filing[f].at = "checked"
    /\ \/ Filed(f) /\ UNCHANGED photos
       \/ \E p \in Papers :
             /\ FreshPaper(p) /\ photos' = photos \cup {p}
             /\ filing' = [filing EXCEPT ![f].at = "stored", ![f].photo = p]
    /\ UNCHANGED <<identity, certified, overtaken, skewed>>

\* Mutant: the photos of the record are deleted first.
DiskIfUnsavedEarly(f) == photos \ {filing[f].photo, filing[f].seen.photo}

\* A submission that is not saved takes its photos with it, and no others.
DiskIfUnsaved(f) == photos \ {filing[f].photo}

\* Submit, save: by the id that was read, or as a first record, which the unique
\* account refuses when another request was faster.
SaveSubmission(f) ==
    LET u == filing[f].who IN
    /\ filing[f].at = "stored"
    /\ \/ /\ filing[f].seen # NoVerification \/ identity[u] = NoVerification
          /\ identity' = [identity EXCEPT ![u] =
                [status |-> "pending", number |-> filing[f].number, photo |-> filing[f].photo, certify |-> 0]]
          /\ FilingMoves(f, "saved") /\ UNCHANGED photos
       \/ photos' = DiskIfUnsaved(f) /\ Filed(f) /\ UNCHANGED identity
    /\ UNCHANGED <<certified, overtaken, skewed>>

\* The photos of the record that was read are no longer referenced.
RemoveOldPhotos(f) ==
    /\ filing[f].at = "saved" /\ Filed(f)
    /\ photos' = photos \ {filing[f].seen.photo}
    /\ UNCHANGED <<identity, certified, overtaken, skewed>>

-----------------------------------------------------------------------------
\* StartExternal, checks; the mode is a setting, and may allow it at any time.
CheckExternal(f, u) ==
    /\ filing[f].at = "idle" /\ identity[u].status # "approved"
    /\ filing' = [filing EXCEPT ![f] = [NotFiling EXCEPT !.at = "asking", !.who = u]]
    /\ UNCHANGED <<identity, photos, certified, overtaken, skewed>>

\* StartKYC answers with a certify id, or fails.
CertificationStarts(f) ==
    /\ filing[f].at = "asking"
    /\ \/ Filed(f) /\ UNCHANGED certified
       \/ /\ certified < MaxCertify /\ certified' = certified + 1
          /\ filing' = [filing EXCEPT ![f].at = "started", ![f].certify = certified + 1]
    /\ UNCHANGED <<identity, photos, overtaken, skewed>>

\* The record is found again for its id alone and overwritten, whatever its status
\* has become and whatever photos it referenced.
SaveExternal(f) ==
    /\ filing[f].at = "started" /\ Filed(f)
    /\ \/ identity' = [identity EXCEPT ![filing[f].who] =
             [NoVerification EXCEPT !.status = "pending", !.certify = filing[f].certify]]
       \/ UNCHANGED identity
    /\ UNCHANGED <<photos, certified, overtaken, skewed>>

\* QueryExternal reads the record and asks the plugin about its certify id.
AskVerdict(f, u) ==
    /\ filing[f].at = "idle" /\ identity[u].certify # 0
    /\ filing' = [filing EXCEPT ![f] =
          [NotFiling EXCEPT !.at = "querying", !.who = u, !.seen = identity[u]]]
    /\ UNCHANGED <<identity, photos, certified, overtaken, skewed>>

\* T, F, P or no answer; only a verdict that would change the record as read goes on.
VerdictComes(f) ==
    /\ filing[f].at = "querying"
    /\ \/ filing[f].seen.status # "approved" /\ FilingMoves(f, "approve")
       \/ filing[f].seen.status = "pending" /\ FilingMoves(f, "refuse")
       \/ Filed(f)
    /\ UNCHANGED <<identity, photos, certified, overtaken, skewed>>

\* The update names the row only: a record submitted since is not told apart, and
\* one deleted since is not missed.
WriteStatus(f, status) ==
    LET u == filing[f].who IN
    IF identity[u] = NoVerification THEN UNCHANGED <<identity, overtaken>>
    ELSE /\ identity' = [identity EXCEPT ![u].status = status]
         /\ overtaken' = (overtaken \/ identity[u].number # filing[f].number)

WriteVerdict(f) ==
    /\ filing[f].at \in {"approve", "refuse"} /\ Filed(f)
    /\ WriteStatus(f, IF filing[f].at = "approve" THEN "approved" ELSE "rejected")
    /\ UNCHANGED <<photos, certified, skewed>>

-----------------------------------------------------------------------------
\* Mutant: the number is not looked at again.
MayApproveUnseen(u, n) == TRUE

\* Certified records all have the empty number, and so stand in each other's way.
MayApprove(u, n) == ~Taken(u, n)

\* Review reads a record that waits for it; where a transaction reads from one
\* snapshot, its count sees no more than this.
ReviewReads(f, u) ==
    /\ filing[f].at = "idle" /\ identity[u].status = "pending"
    /\ \E at \in {"reviewing", "grant"} :
          /\ at = "grant" => MayApprove(u, identity[u].number)
          /\ filing' = [filing EXCEPT ![f] =
                [NotFiling EXCEPT !.at = at, !.who = u, !.number = identity[u].number]]
    /\ UNCHANGED <<identity, photos, certified, overtaken, skewed>>

\* The other accounts approved for the number are counted, for an approval, as they are
\* now; a number that is taken ends the review.
ReviewCounts(f) ==
    /\ filing[f].at = "reviewing"
    /\ \/ MayApprove(filing[f].who, filing[f].number) /\ FilingMoves(f, "grant")
       \/ FilingMoves(f, "deny")
       \/ Filed(f)
    /\ UNCHANGED <<identity, photos, certified, overtaken, skewed>>

\* Another review has counted this one's number for its own account, and not written yet.
Skews(f) ==
    \E g \in Filings \ {f} :
        /\ filing[g].at = "grant" /\ filing[g].who # filing[f].who
        /\ filing[g].number \in {filing[f].number} \ {"none"}

\* The write names the row only, and the commit.
ReviewWrites(f) ==
    /\ filing[f].at \in {"grant", "deny"} /\ Filed(f)
    /\ WriteStatus(f, IF filing[f].at = "grant" THEN "approved" ELSE "rejected")
    /\ skewed' = (skewed \/ (identity'[filing[f].who].status = "approved" /\ Skews(f)))
    /\ UNCHANGED <<photos, certified>>

\* DeleteUser: the record goes with the account, and then its photos.
DropIdentity(u) ==
    /\ identity[u] # NoVerification
    /\ identity' = [identity EXCEPT ![u] = NoVerification] /\ photos' = photos \ {identity[u].photo}
    /\ UNCHANGED <<filing, certified, overtaken, skewed>>

KycNext ==
    \/ \E f \in Filings :
          \/ \E u \in Applicants :
                \/ CheckExternal(f, u) \/ AskVerdict(f, u) \/ ReviewReads(f, u)
                \/ \E n \in IdNumbers : CheckSubmission(f, u, n)
          \/ StorePhotos(f) \/ SaveSubmission(f) \/ RemoveOldPhotos(f)
          \/ CertificationStarts(f) \/ SaveExternal(f) \/ VerdictComes(f) \/ WriteVerdict(f)
          \/ ReviewCounts(f) \/ ReviewWrites(f)
    \/ \E u \in Applicants : DropIdentity(u)

KycSpec == KycInit /\ [][KycNext]_kycVars

-----------------------------------------------------------------------------
\* The photos a record references are on the disk, through every overlap of
\* submissions, certifications and deletions, and belong to it alone.
PhotosHeld ==
    \A u \in Applicants : identity[u].photo # "none" =>
        /\ identity[u].photo \in photos
        /\ \A w \in Applicants \ {u} : identity[w].photo # identity[u].photo

\* One number, one approved account: the count that Review takes before it approves is
\* enough against every submission, certification and deletion that overlaps it.  Two
\* things it is not enough against, and both are excepted: another review of the same
\* number that has counted and not yet committed (kyc.go:541-561, where the comment at 540
\* counts on catching overlaps), and a verdict written on a record of another number.
OneAccountPerNumber ==
    ~overtaken /\ ~skewed => \A u \in Applicants :
        identity[u].status = "approved" /\ identity[u].number # "none" => ~Taken(u, identity[u].number)

-----------------------------------------------------------------------------
(* What these rest on.                                                     *)

\* A request knows its account; a verdict is asked for about certified records,
\* which have no number.
FilingsKnow ==
    /\ \A f \in Filings : filing[f].at # "idle" => filing[f].who \in Applicants
    /\ \A f \in Filings : filing[f].at \in {"querying", "approve", "refuse"} => filing[f].number = "none"
    /\ \A u \in Applicants : identity[u].certify # 0 => identity[u].number = "none"

\* What a review has counted still stands when it writes.
CountStands ==
    ~overtaken /\ ~skewed => \A f \in Filings :
        filing[f].at = "grant" /\ filing[f].number # "none" => ~Taken(filing[f].who, filing[f].number)

\* Photos that are stored and not yet saved belong to their request alone.
StoredAlone ==
    \A f \in Filings : filing[f].at = "stored" =>
        /\ filing[f].photo \in photos
        /\ \A u \in Applicants : identity[u].photo # filing[f].photo
        /\ \A g \in Filings : filing[g].seen.photo # filing[f].photo
        /\ \A g \in Filings \ {f} : filing[g].at = "stored" => filing[g].photo # filing[f].photo

\* Photos a submission replaces are of no other account, and once it is saved of none.
OldIsOwn ==
    \A f \in Filings, u \in Applicants :
        /\ filing[f].at \in {"checked", "stored", "saved"}
        /\ filing[f].seen.photo # "none" /\ identity[u].photo = filing[f].seen.photo
        => u = filing[f].who /\ filing[f].at # "saved"

KycInv ==
    /\ KycTypeOK /\ PhotosHeld /\ OneAccountPerNumber
    /\ FilingsKnow /\ CountStands /\ StoredAlone /\ OldIsOwn
=============================================================================
