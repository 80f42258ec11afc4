-------------------------------- MODULE Accounts -------------------------------
(***************************************************************************)
(* The accounts as administrators keep them (service/admin.go: CreateUser, *)
(* UpdateUser, DeleteUser, BatchSetUserStatus; service/user.go: Register;  *)
(* service/wallet.go: adjustBalance).                                      *)
(*                                                                         *)
(* A request is authenticated, reads the account, counts the other         *)
(* administrators and writes in a transaction, each a step of its own; the *)
(* operator is not read again.  A batch is a sequence of such requests.    *)
(***************************************************************************)
EXTENDS Integers

CONSTANTS
    Members,        \* accounts
    Root,           \* the administrator made by the installation
    Edits,          \* what an UpdateUserRequest asks for
    MaxBalance      \* bound on a balance

NoOne == "none"

EditShape == [role : {"keep", "admin", "user"}, status : {"keep", "active", "disabled"},
              balance : Int]

ASSUME AccountsAssumption ==
    /\ Root \in Members /\ NoOne \notin Members
    /\ MaxBalance \in Nat
    /\ Edits \subseteq EditShape /\ \A e \in Edits : e.balance >= -1

VARIABLES
    member,         \* the User rows; an id is not given out again
    booked,         \* sum of the account's wallet transactions
    deed,           \* the request each operator has in flight
    outlived        \* history: a deed was committed after its operator lost his rights

accountsVars == <<member, booked, deed, outlived>>

NoAccount == [life |-> "none", admin |-> FALSE, active |-> FALSE, balance |-> 0]
NoEdit == [role |-> "keep", status |-> "keep", balance |-> -1]
NoDeed == [at |-> "idle", on |-> NoOne, edit |-> NoEdit, delta |-> 0]

Accounts == [life : {"none", "here", "gone"}, admin : BOOLEAN, active : BOOLEAN, balance : Nat]
Deeds == [at : {"idle", "read", "write", "deleteRead", "delete"}, on : Members \cup {NoOne},
          edit : Edits \cup {NoEdit}, delta : Int]

AccountsTypeOK ==
    /\ member \in [Members -> Accounts] /\ booked \in [Members -> Int]
    /\ deed \in [Members -> Deeds] /\ outlived \in BOOLEAN

AccountsInit ==
    /\ member = [u \in Members |-> IF u = Root
                     THEN [life |-> "here", admin |-> TRUE, active |-> TRUE, balance |-> 0]
                     ELSE NoAccount]
    /\ booked = [u \in Members |-> 0]
    /\ deed = [u \in Members |-> NoDeed] /\ outlived = FALSE

\* RequireAuth and RequireAdmin: a request passes with the row as it is.
Rules(u) == member[u].life = "here" /\ member[u].admin /\ member[u].active
AnotherAdmin(u) == \E w \in Members \ {u} : Rules(w)

-----------------------------------------------------------------------------
\* Mutant: the UPDATE has no condition on the balance.
MayAdjustBlindly(row, delta) == row.life = "here"

\* adjustBalance: one conditional UPDATE, and the row of the ledger.
MayAdjust(row, delta) == row.life = "here" /\ row.balance + delta >= 0

\* Mutant: a read, then a write of the amount.
AdjustedOutright(row, delta) == [row EXCEPT !.balance = IF delta > 0 THEN delta ELSE @ + delta]

Adjusted(row, delta) == [row EXCEPT !.balance = @ + delta]

Register(u) ==
    /\ member[u].life = "none"
    /\ member' = [member EXCEPT ![u] = [life |-> "here", admin |-> FALSE, active |-> TRUE, balance |-> 0]]
    /\ booked' = [booked EXCEPT ![u] = 0]
    /\ UNCHANGED <<deed, outlived>>

\* The opening balance is booked like any other.
CreateUser(o, u, admin, balance) ==
    /\ Rules(o) /\ member[u].life = "none" /\ balance \in 0..MaxBalance
    /\ member' = [member EXCEPT ![u] =
           Adjusted([life |-> "here", admin |-> admin, active |-> TRUE, balance |-> 0], balance)]
    /\ booked' = [booked EXCEPT ![u] = balance]
    /\ UNCHANGED <<deed, outlived>>

\* Recharge and payments from the wallet.
MoveFunds(u, delta) ==
    /\ MayAdjust(member[u], delta) /\ member[u].balance + delta <= MaxBalance
    /\ member' = [member EXCEPT ![u] = Adjusted(@, delta)]
    /\ booked' = [booked EXCEPT ![u] = @ + delta]
    /\ UNCHANGED <<deed, outlived>>

-----------------------------------------------------------------------------
\* UpdateUser.
\* Mutant: the operator may disable himself.
SelfHarmDemote(o, u, e) == o = u /\ e.role = "user"

SelfHarm(o, u, e) == o = u /\ (e.role = "user" \/ e.status = "disabled")

\* The row is read; a balance asked for becomes a difference to this reading.
BeginEdit(o, u, e) ==
    /\ deed[o].at = "idle" /\ Rules(o) /\ member[u].life = "here"
    /\ ~SelfHarm(o, u, e)
    /\ deed' = [deed EXCEPT ![o] =
           [at |-> IF member[u].admin /\ e.role = "user" THEN "read" ELSE "write",
            on |-> u, edit |-> e,
            delta |-> IF e.balance < 0 THEN 0 ELSE e.balance - member[u].balance]]
    /\ UNCHANGED <<member, booked, outlived>>

Closed(o) == deed' = [deed EXCEPT ![o] = NoDeed]

\* ensureAnotherAdmin counts in a statement of its own.
EnsureAnotherAdmin(o) ==
    /\ deed[o].at \in {"read", "deleteRead"}
    /\ IF AnotherAdmin(deed[o].on)
       THEN deed' = [deed EXCEPT ![o].at = IF @ = "read" THEN "write" ELSE "delete"]
       ELSE Closed(o)
    /\ UNCHANGED <<member, booked, outlived>>

EditedRow(row, e) ==
    [row EXCEPT !.admin = IF e.role = "keep" THEN @ ELSE e.role = "admin",
                !.active = IF e.status = "keep" THEN @ ELSE e.status = "active"]

Outlives(o) == outlived' = (outlived \/ ~Rules(o))

\* One transaction; a balance that would go below zero rolls all of it back.
CommitEdit(o) ==
    LET d == deed[o] IN
    /\ d.at = "write" /\ member[d.on].life = "here"
    /\ d.delta = 0 \/ MayAdjust(member[d.on], d.delta)
    /\ member[d.on].balance + d.delta <= MaxBalance
    /\ member' = [member EXCEPT ![d.on] = Adjusted(EditedRow(@, d.edit), d.delta)]
    /\ booked' = [booked EXCEPT ![d.on] = @ + d.delta]
    /\ Outlives(o) /\ Closed(o)

\* The account is gone, its balance does not suffice, or the database fails.
EditFails(o) ==
    /\ deed[o].at \in {"write", "delete"}
    /\ Closed(o)
    /\ UNCHANGED <<member, booked, outlived>>

-----------------------------------------------------------------------------
\* DeleteUser.
BeginDelete(o, u) ==
    /\ deed[o].at = "idle" /\ Rules(o) /\ member[u].life = "here" /\ o # u
    /\ deed' = [deed EXCEPT ![o] = [NoDeed EXCEPT !.on = u,
                    !.at = IF member[u].admin THEN "deleteRead" ELSE "delete"]]
    /\ UNCHANGED <<member, booked, outlived>>

\* The account goes with its wallet transactions.
CommitDelete(o) ==
    /\ deed[o].at = "delete"
    /\ member' = [member EXCEPT ![deed[o].on] = [NoAccount EXCEPT !.life = "gone"]]
    /\ booked' = [booked EXCEPT ![deed[o].on] = 0]
    /\ Outlives(o) /\ Closed(o)

AccountsNext ==
    \/ \E u \in Members : Register(u)
    \/ \E u \in Members, delta \in {-1, 1} : MoveFunds(u, delta)
    \/ \E o, u \in Members, admin \in BOOLEAN, balance \in 0..MaxBalance :
           CreateUser(o, u, admin, balance)
    \/ \E o, u \in Members : BeginDelete(o, u)
    \/ \E o, u \in Members, e \in Edits : BeginEdit(o, u, e)
    \/ \E o \in Members : EnsureAnotherAdmin(o)
    \/ \E o \in Members : CommitEdit(o)
    \/ \E o \in Members : CommitDelete(o)
    \/ \E o \in Members : EditFails(o)

AccountsSpec == AccountsInit /\ [][AccountsNext]_accountsVars

-----------------------------------------------------------------------------
(***************************************************************************)
(* An account that can administer always remains, as long as no deed is    *)
(* committed for an operator who lost his own rights after it was          *)
(* authenticated (admin.go:360-373 counts outside the transaction, and an  *)
(* account is disabled without being counted).                             *)
(***************************************************************************)
AdminRemains == outlived \/ \E u \in Members : Rules(u)

(***************************************************************************)
(* A balance is the sum of the account's wallet transactions and never     *)
(* below zero, with an administrator setting a balance he read before      *)
(* other payments were made (admin.go:236-249, wallet.go:29-71).           *)
(***************************************************************************)
BalanceBooked ==
    \A u \in Members : member[u].balance = booked[u] /\ member[u].balance >= 0

=============================================================================
