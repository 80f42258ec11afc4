-------------------------------- MODULE Tickets --------------------------------
(***************************************************************************)
(* Support tickets (service/ticket.go, handler/ticket.go,                  *)
(* storage/storage.go): opening, answering with files, closing, reopening, *)
(* and the deletion of the account that owns them.                         *)
(*                                                                         *)
(* A reply is one transaction that reads the ticket without a lock, keeps  *)
(* its files on the disk, and writes its rows at the end: on MySQL and     *)
(* Postgres others commit in between, on SQLite's one connection nobody.   *)
(***************************************************************************)
EXTENDS Integers, FiniteSets

CONSTANTS
    Queries,          \* tickets that may be opened
    Letters,          \* requests that write a reply
    Files,            \* names of stored attachments
    MaxAttachments

ASSUME TicketsAssumption == MaxAttachments \in Nat /\ "none" \notin Queries

VARIABLES
    ticket,           \* the status of each ticket, "none" before it is opened
    attached,         \* the files its attachment rows reference
    lastWord,         \* history: who spoke last on it, or reopened it
    uploads,          \* files in uploads/tickets
    letter            \* each reply in flight

ticketVars == <<ticket, attached, lastWord, uploads, letter>>

Unwritten == [at |-> "idle", on |-> "none", first |-> FALSE, files |-> {}]

TicketsTypeOK ==
    /\ ticket \in [Queries -> {"none", "open", "answered", "closed", "deleted"}]
    /\ attached \in [Queries -> SUBSET Files] /\ uploads \subseteq Files
    /\ lastWord \in [Queries -> {"nobody", "owner", "staff"}]
    /\ letter \in [Letters -> [at : {"idle", "writing", "failed"}, on : Queries \cup {"none"},
                               first : BOOLEAN, files : SUBSET Files]]

TicketsInit ==
    /\ ticket = [q \in Queries |-> "none"] /\ attached = [q \in Queries |-> {}]
    /\ lastWord = [q \in Queries |-> "nobody"] /\ uploads = {}
    /\ letter = [l \in Letters |-> Unwritten]

Exists(q) == ticket[q] \notin {"none", "deleted"}

-----------------------------------------------------------------------------
\* Create, and Reply on a ticket that is not closed as it reads it.
BeginLetter(l, q) ==
    /\ letter[l].at = "idle"
    /\ \/ ticket[q] = "none" /\ \A k \in Letters : letter[k].on # q
       \/ ticket[q] \in {"open", "answered"}
    /\ letter' = [letter EXCEPT ![l] =
          [Unwritten EXCEPT !.at = "writing", !.on = q, !.first = ticket[q] = "none"]]
    /\ UNCHANGED <<ticket, attached, lastWord, uploads>>

\* Save, for one attachment; the name is random, so no other file or row has it.
SaveFile(l) ==
    /\ letter[l].at = "writing" /\ Cardinality(letter[l].files) < MaxAttachments
    /\ \E p \in Files :
          /\ p \notin uploads /\ \A q \in Queries : p \notin attached[q]
          /\ uploads' = uploads \cup {p}
          /\ letter' = [letter EXCEPT ![l].files = @ \cup {p}]
    /\ UNCHANGED <<ticket, attached, lastWord>>

\* createReply and the commit: the status goes by who writes, an administrator or
\* not, and by the id alone: a ticket closed or deleted meanwhile is not noticed.
CommitLetter(l) ==
    LET q == letter[l].on IN
    /\ letter[l].at = "writing"
    /\ attached' = [attached EXCEPT ![q] = @ \cup letter[l].files]
    /\ \E writer \in {"owner", "staff"} :
          IF Exists(q) \/ letter[l].first
          THEN /\ ticket' = [ticket EXCEPT ![q] = IF writer = "staff" THEN "answered" ELSE "open"]
               /\ lastWord' = [lastWord EXCEPT ![q] = writer]
          ELSE UNCHANGED <<ticket, lastWord>>
    /\ letter' = [letter EXCEPT ![l] = Unwritten]
    /\ UNCHANGED uploads

\* A file is refused or the transaction rolled back ...
LetterFails(l) ==
    /\ letter[l].at = "writing"
    /\ letter' = [letter EXCEPT ![l].at = "failed"]
    /\ UNCHANGED <<ticket, attached, lastWord, uploads>>

\* ... and the files kept so far are removed.
RemoveFiles(l) ==
    /\ letter[l].at = "failed"
    /\ uploads' = uploads \ letter[l].files
    /\ letter' = [letter EXCEPT ![l] = Unwritten]
    /\ UNCHANGED <<ticket, attached, lastWord>>

-----------------------------------------------------------------------------
\* Close, by the owner or the staff.
CloseTicket(q) ==
    /\ ticket[q] \in {"open", "answered"}
    /\ ticket' = [ticket EXCEPT ![q] = "closed"]
    /\ UNCHANGED <<attached, lastWord, uploads, letter>>

\* Reopen, by the staff: it waits for an answer again, whoever spoke last.
ReopenTicket(q) ==
    /\ ticket[q] = "closed"
    /\ ticket' = [ticket EXCEPT ![q] = "open"] /\ lastWord' = [lastWord EXCEPT ![q] = "owner"]
    /\ UNCHANGED <<attached, uploads, letter>>

\* Mutant: the files are deleted inside the transaction, which may roll back.
AccountGoneEarly(gone) ==
    /\ uploads' = uploads \ UNION {attached[q] : q \in gone}
    /\ \/ ticket' = [q \in Queries |-> IF q \in gone THEN "deleted" ELSE ticket[q]]
          /\ attached' = [q \in Queries |-> IF q \in gone THEN {} ELSE attached[q]]
       \/ UNCHANGED <<ticket, attached>>

\* The rows go in the transaction, the files once it is committed.
AccountGone(gone) ==
    \/ /\ ticket' = [q \in Queries |-> IF q \in gone THEN "deleted" ELSE ticket[q]]
       /\ attached' = [q \in Queries |-> IF q \in gone THEN {} ELSE attached[q]]
       /\ uploads' = uploads \ UNION {attached[q] : q \in gone}
    \/ UNCHANGED <<ticket, attached, uploads>>

\* DeleteUser, DeleteUserTickets: every ticket of one account.
DeleteTickets ==
    /\ \E gone \in SUBSET {q \in Queries : Exists(q)} : gone # {} /\ AccountGone(gone)
    /\ UNCHANGED <<lastWord, letter>>

TicketsNext ==
    \/ \E l \in Letters :
          (\E q \in Queries : BeginLetter(l, q)) \/ SaveFile(l) \/ CommitLetter(l) \/ LetterFails(l)
          \/ RemoveFiles(l)
    \/ \E q \in Queries : CloseTicket(q) \/ ReopenTicket(q)
    \/ DeleteTickets

TicketsSpec == TicketsInit /\ [][TicketsNext]_ticketVars

-----------------------------------------------------------------------------
\* A file some attachment row references is on the disk, whatever failed, was
\* rolled back or deleted in between.
AttachmentsHeld == \A q \in Queries : attached[q] \subseteq uploads

\* The two lists go by the last word: what waits for the staff is what the owner
\* wrote last, what waits for the owner is what the staff wrote last.
WaitsForTheOther ==
    \A q \in Queries : /\ ticket[q] = "open" => lastWord[q] = "owner"
                       /\ ticket[q] = "answered" => lastWord[q] = "staff"

-----------------------------------------------------------------------------
\* What these rest on: a file is of one ticket or of one reply under way, which is
\* about some ticket.
FilesApart ==
    /\ \A l \in Letters : letter[l].files \subseteq uploads
    /\ \A l \in Letters : letter[l].at # "idle" => letter[l].on \in Queries
    /\ \A l \in Letters : \A k \in Letters \ {l} : letter[l].files \cap letter[k].files = {}
    /\ \A l \in Letters, q \in Queries : letter[l].files \cap attached[q] = {}
    /\ \A q \in Queries : \A r \in Queries \ {q} : attached[q] \cap attached[r] = {}

TicketsInv == TicketsTypeOK /\ AttachmentsHeld /\ WaitsForTheOther /\ FilesApart
=============================================================================
