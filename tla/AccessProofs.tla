------------------------------ MODULE AccessProofs -----------------------------
(***************************************************************************)
(* Who gets in, for any number of attempts, sessions, replicas, accounts,  *)
(* keys, requests and rows: AccessHolds (MCPlatform.tla), part by part;    *)
(* what a lock of a login and the guesses at a code by mail rest on; and   *)
(* the types of these parts and of the automatic renewal.                  *)
(***************************************************************************)
EXTENDS MCPlatform, Sums, TLAPS

-----------------------------------------------------------------------------
(* Captchas.                                                               *)

\* A challenge that can be answered was issued and has not been tried.
ImagesFresh ==
    \A i \in Images : /\ image[i].live => tried[i] = 0 /\ image[i].expires # 0
                      /\ image[i].expires = 0 => tried[i] = 0

GuardInv ==
    /\ clock \in Nat
    /\ image \in [Images -> [live : BOOLEAN, expires : Nat]] /\ tried \in [Images -> Nat]
    /\ ImagesFresh /\ OneTryPerImage

LEMMA GuardStart == LoginGuardInit => GuardInv
BY DEF LoginGuardInit, GuardInv, ImagesFresh, OneTryPerImage

LEMMA GuardStep == GuardInv /\ [LoginGuardNext]_guardVars => GuardInv'
<1> SUFFICES ASSUME GuardInv, [LoginGuardNext]_guardVars PROVE GuardInv'  OBVIOUS
<1> USE DEF GuardInv, ImagesFresh, OneTryPerImage
<1>1. CASE UNCHANGED <<clock, image, tried>>  BY <1>1
<1>2. ASSUME NEW i \in Images, IssueCaptcha(i) PROVE GuardInv'
  BY <1>2, LoginGuardAssumption DEF IssueCaptcha
<1>3. ASSUME NEW i \in Images, EvictCaptcha(i) PROVE GuardInv'
  BY <1>3 DEF EvictCaptcha
<1>4. ASSUME NEW r \in Attempts, VerifyCaptcha(r) PROVE GuardInv'
  <2>1. ASSUME NEW i \in Images, NEW right \in BOOLEAN, image[i].live, Spent(i, right),
               tried' = [tried EXCEPT ![i] = @ + 1], UNCHANGED clock
        PROVE  GuardInv'
    <3>1. image' = [image EXCEPT ![i].live = FALSE]  BY <2>1 DEF Spent
    <3>2. image' \in [Images -> [live : BOOLEAN, expires : Nat]]  BY <3>1
    <3>3. tried' \in [Images -> Nat] /\ tried[i] = 0  BY <2>1
    <3>4. \A j \in Images : tried'[j] = IF j = i THEN 1 ELSE tried[j]  BY <2>1, <3>3
    <3>5. \A j \in Images : image'[j].expires = image[j].expires
                            /\ (image'[j].live => j # i /\ image[j].live)
      BY <3>1
    <3>6. QED  BY <2>1, <3>2, <3>3, <3>4, <3>5
  <2>2. QED  BY <1>1, <1>4, <2>1 DEF VerifyCaptcha
<1>5. CASE ClockTicks  BY <1>5 DEF ClockTicks
<1>6. CASE GuardRestarts  BY <1>6 DEF GuardRestarts
<1>7. QED
  BY <1>1, <1>2, <1>3, <1>4, <1>5, <1>6
  DEF LoginGuardNext, guardVars, EnterCheck, LeaveCheck, CheckPassword, EnterFailure, LeaveFailure,
      RecordSuccess, StartSweep, SweepAccount, JudgeSource, FinishSweep, SwitchCaptcha

-----------------------------------------------------------------------------
(* Mail.                                                                   *)

Delivered == [at : {"idle", "sending", "sent"}, encryption : Encryptions,
              over : {"tls", "clear", "failed"}]

MailInv == mailing \in [Mailings -> Delivered] /\ NeverSilentlyClear

LEMMA MailStart == MailCodesInit => MailInv
BY DEF MailCodesInit, MailInv, Delivered, NeverSilentlyClear, AllIdle, NotMailing, Encryptions

\* Where TLS is demanded no connection is used in the clear, whatever the server.
LEMMA DemandIsMet ==
  ASSUME NEW encryption \in Encryptions, NEW over \in Ways(encryption)
  PROVE  /\ over \in {"tls", "clear", "failed"}
         /\ encryption \in {"ssl", "starttls"} => over # "clear"
<1> SUFFICES ASSUME NEW server \in Servers, NEW slow \in BOOLEAN, NEW user \in BOOLEAN,
                    over = SentOver(encryption, server, slow, user)
             PROVE  /\ over \in {"tls", "clear", "failed"}
                    /\ encryption \in {"ssl", "starttls"} => over # "clear"
  BY DEF Ways
<1> DEFINE dialled == DialConn(encryption, server, slow)
<1>1. dialled \in {"tls", "clear", "failed"} /\ (encryption = "ssl" => dialled # "clear")
      /\ (encryption = "starttls" => dialled = "clear")
  BY DEF Encryptions, DialConn, DialTLSOnly, DialPlainOnly, DialTLSWithPlainFallback,
         DialPlainWithTLSFallback
<1>2. Upgraded(encryption, server) \in {"tls", "clear", "failed"}
      /\ (encryption = "starttls" => Upgraded(encryption, server) # "clear")
  BY DEF Upgraded
<1>3. QED  BY <1>1, <1>2 DEF SentOver, Secured, LoggedIn

LEMMA MailStep == MailInv /\ [MailCodesNext]_mailVars => MailInv'
<1> SUFFICES ASSUME MailInv, [MailCodesNext]_mailVars PROVE MailInv'  OBVIOUS
<1> USE DEF MailInv, NeverSilentlyClear, Delivered
<1>1. CASE UNCHANGED mailing  BY <1>1
<1>2. ASSUME NEW r \in Mailings, SendEmailCode(r) PROVE MailInv'
  BY <1>2 DEF SendEmailCode, NotMailing, Encryptions
<1>3. ASSUME NEW r \in Mailings, MailGoes(r) PROVE MailInv'
  <2>1. PICK encryption \in Encryptions, over \in {"tls", "clear", "failed"} :
            /\ encryption \in {"ssl", "starttls"} => over # "clear"
            /\ mailing' = [mailing EXCEPT ![r] = [at |-> "sent", encryption |-> encryption,
                                                  over |-> over]]
    BY <1>3, DemandIsMet DEF MailGoes
  <2>2. QED  BY <2>1
<1>4. ASSUME NEW r \in Mailings, MailAnswered(r) PROVE MailInv'
  BY <1>4 DEF MailAnswered, NotMailing, Encryptions
<1>5. CASE MailerRestarts  BY <1>5 DEF MailerRestarts, AllIdle, NotMailing, Encryptions
<1>6. QED
  BY <1>1, <1>2, <1>3, <1>4, <1>5
  DEF MailCodesNext, mailVars, VerifyEmailCode, MinutePasses

-----------------------------------------------------------------------------
(* Accounts.                                                               *)

\* A deed on its own operator neither demotes nor disables him; nobody deletes himself.
Spares(o, d) ==
    d.on = o => /\ d.edit.role # "user" /\ d.edit.status # "disabled"
                /\ d.at \notin {"deleteRead", "delete"}

AccountsInv ==
    /\ member \in [Members -> Accounts] /\ deed \in [Members -> Deeds] /\ outlived \in BOOLEAN
    /\ (\A o \in Members : Spares(o, deed[o])) /\ AdminRemains

LEMMA RestingDeed == NoDeed \in Deeds /\ \A o \in Members : Spares(o, NoDeed)
BY AccountsAssumption DEF NoDeed, Deeds, NoEdit, Spares

LEMMA AccountsStart == AccountsInit => AccountsInv
<1> SUFFICES ASSUME AccountsInit PROVE AccountsInv  OBVIOUS
<1>1. member \in [Members -> Accounts]  BY DEF AccountsInit, NoAccount, Accounts
<1>2. Rules(Root)  BY AccountsAssumption DEF AccountsInit, Rules
<1>3. QED
  BY <1>1, <1>2, RestingDeed, AccountsAssumption DEF AccountsInit, AccountsInv, AdminRemains

\* A step that leaves the deeds alone, and every administrator his rights.
LEMMA AdminsStay ==
  ASSUME AccountsInv, UNCHANGED <<deed, outlived>>, member' \in [Members -> Accounts],
         \A w \in Members : Rules(w) => Rules(w)'
  PROVE  AccountsInv'
BY DEF AccountsInv, AdminRemains, Spares

\* A step that only moves a deed.
LEMMA DeedMoves ==
  ASSUME AccountsInv, NEW o \in Members, NEW d \in Deeds, Spares(o, d),
         deed' = [deed EXCEPT ![o] = d], UNCHANGED <<member, outlived>>
  PROVE  AccountsInv'
<1>1. deed' \in [Members -> Deeds] /\ \A u \in Members : Spares(u, deed'[u])
  BY DEF AccountsInv
<1>2. (\A u \in Members : Spares(u, deed[u]))'  BY <1>1 DEF Spares
<1>3. QED  BY <1>1, <1>2 DEF AccountsInv, AdminRemains, Rules

\* A deed that is done, for an operator who keeps the rights he has.
LEMMA DeedEnds ==
  ASSUME AccountsInv, NEW o \in Members, Closed(o), Outlives(o), member' \in [Members -> Accounts],
         Rules(o) => Rules(o)'
  PROVE  AccountsInv'
<1>1. deed' \in [Members -> Deeds] /\ \A u \in Members : Spares(u, deed'[u])
  BY RestingDeed DEF AccountsInv, Closed
<1>2. (\A u \in Members : Spares(u, deed[u]))'  BY <1>1 DEF Spares
<1>3. outlived' \in BOOLEAN /\ AdminRemains'
  BY DEF AccountsInv, AdminRemains, Outlives
<1>4. QED  BY <1>1, <1>2, <1>3 DEF AccountsInv

LEMMA AccountsStep == AccountsInv /\ [AccountsNext]_accountsVars => AccountsInv'
<1> SUFFICES ASSUME AccountsInv, [AccountsNext]_accountsVars PROVE AccountsInv'  OBVIOUS
<1>1. member \in [Members -> Accounts] /\ deed \in [Members -> Deeds]
      /\ \A o \in Members : Spares(o, deed[o])
  BY DEF AccountsInv
<1>2. CASE UNCHANGED <<member, deed, outlived>>
  BY <1>2, <1>1, AdminsStay DEF Rules
<1>3. ASSUME NEW u \in Members, Register(u) PROVE AccountsInv'
  <2>1. member' \in [Members -> Accounts] /\ UNCHANGED <<deed, outlived>>
    BY <1>1, <1>3 DEF Register, Accounts
  <2>2. \A w \in Members : Rules(w) => Rules(w)'  BY <1>1, <1>3 DEF Register, Rules
  <2>3. QED  BY <2>1, <2>2, AdminsStay
<1>4. ASSUME NEW u \in Members, NEW delta \in {-1, 1}, MoveFunds(u, delta) PROVE AccountsInv'
  <2>1. member[u].balance + delta \in Nat
    BY <1>1, <1>4 DEF MoveFunds, MayAdjust, Accounts
  <2>2. member' \in [Members -> Accounts] /\ UNCHANGED <<deed, outlived>>
    BY <1>1, <1>4, <2>1 DEF MoveFunds, Adjusted, Accounts
  <2>3. \A w \in Members : Rules(w) => Rules(w)'
    BY <1>1, <1>4 DEF MoveFunds, Adjusted, Accounts, Rules
  <2>4. QED  BY <2>2, <2>3, AdminsStay
<1>5. ASSUME NEW o \in Members, NEW u \in Members, NEW admin \in BOOLEAN,
             NEW balance \in 0..MaxBalance, CreateUser(o, u, admin, balance)
      PROVE  AccountsInv'
  <2> DEFINE fresh == [life |-> "here", admin |-> admin, active |-> TRUE, balance |-> 0]
             made == Adjusted(fresh, balance)
  <2>1. balance \in Nat  BY AccountsAssumption
  <2>2. made \in Accounts
    <3>1. fresh \in Accounts /\ fresh.balance = 0  BY DEF Accounts
    <3> HIDE DEF fresh
    <3>2. QED  BY <2>1, <3>1 DEF Adjusted, Accounts
  <2>3. member' = [member EXCEPT ![u] = made] /\ UNCHANGED <<deed, outlived>>
    BY <1>5 DEF CreateUser
  <2>4. member' \in [Members -> Accounts]  BY <1>1, <2>2, <2>3
  <2>5. \A w \in Members : Rules(w) => Rules(w)'
    BY <1>1, <1>5, <2>3 DEF CreateUser, Rules
  <2>6. QED  BY <2>3, <2>4, <2>5, AdminsStay
<1>6. ASSUME NEW o \in Members, NEW u \in Members, NEW e \in Edits, BeginEdit(o, u, e)
      PROVE  AccountsInv'
  <2> DEFINE at == IF member[u].admin /\ e.role = "user" THEN "read" ELSE "write"
             delta == IF e.balance < 0 THEN 0 ELSE e.balance - member[u].balance
             d == [at |-> at, on |-> u, edit |-> e, delta |-> delta]
  <2>1. e.balance \in Int /\ member[u].balance \in Int
    BY <1>1, AccountsAssumption DEF EditShape, Accounts
  <2>2. at \in {"read", "write"} /\ delta \in Int  BY <2>1
  <2>3. d \in Deeds  BY <2>2 DEF Deeds
  <2>4. Spares(o, d)  BY <1>6, <2>2 DEF BeginEdit, SelfHarm, Spares
  <2>5. deed' = [deed EXCEPT ![o] = d] /\ UNCHANGED <<member, outlived>>
    BY <1>6 DEF BeginEdit
  <2>6. QED  BY <2>3, <2>4, <2>5, DeedMoves
<1>7. ASSUME NEW o \in Members, EnsureAnotherAdmin(o) PROVE AccountsInv'
  <2>1. deed[o].at \in {"read", "deleteRead"} /\ UNCHANGED <<member, outlived>>
    BY <1>7 DEF EnsureAnotherAdmin
  <2>2. CASE Closed(o)
    BY <2>1, <2>2, RestingDeed, DeedMoves DEF Closed
  <2>3. CASE deed' = [deed EXCEPT ![o].at = IF @ = "read" THEN "write" ELSE "delete"]
    <3> DEFINE d == [deed[o] EXCEPT !.at = IF deed[o].at = "read" THEN "write" ELSE "delete"]
    <3>1. d \in Deeds  BY <1>1 DEF Deeds
    <3>2. Spares(o, d)  BY <1>1, <2>1 DEF Spares, Deeds
    <3>3. deed' = [deed EXCEPT ![o] = d]  BY <2>3
    <3>4. QED  BY <2>1, <3>1, <3>2, <3>3, DeedMoves
  <2>4. QED  BY <1>7, <2>2, <2>3 DEF EnsureAnotherAdmin
<1>8. ASSUME NEW o \in Members, CommitEdit(o) PROVE AccountsInv'
  <2> DEFINE d == deed[o]
             entry == Adjusted(EditedRow(member[d.on], d.edit), d.delta)
  <2>1. d.on \in Members \cup {NoOne} /\ d.edit \in EditShape /\ d.delta \in Int
    BY <1>1, AccountsAssumption DEF Deeds, NoEdit, EditShape
  <2>2. member' = [member EXCEPT ![d.on] = entry] /\ Closed(o) /\ Outlives(o)
    BY <1>8 DEF CommitEdit
  <2>3. CASE d.on \notin Members
    <3>1. member' = member  BY <1>1, <2>2, <2>3
    <3>2. QED  BY <1>1, <2>2, <3>1, DeedEnds DEF Rules
  <2>4. CASE d.on \in Members
    <3>1. member[d.on].balance + d.delta \in Nat
      BY <1>1, <1>8, <2>1, <2>4 DEF CommitEdit, MayAdjust, Accounts
    <3>2. entry \in Accounts  BY <1>1, <2>1, <2>4, <3>1 DEF Adjusted, EditedRow, Accounts, EditShape
    <3>3. member' \in [Members -> Accounts]  BY <1>1, <2>2, <3>2
    <3>4. Rules(o) => Rules(o)'
      <4>1. CASE d.on # o  BY <1>1, <2>2, <4>1 DEF Rules
      <4>2. CASE d.on = o
        <5>1. Spares(o, d)  BY <1>1
        <5>2. Rules(o) => entry.life = "here" /\ entry.admin /\ entry.active
          BY <1>1, <2>1, <4>2, <5>1 DEF Rules, Spares, Adjusted, EditedRow, Accounts, EditShape
        <5>3. QED  BY <1>1, <2>2, <4>2, <5>2 DEF Rules
      <4>3. QED  BY <4>1, <4>2
    <3>5. QED  BY <2>2, <3>3, <3>4, DeedEnds
  <2>5. QED  BY <2>3, <2>4
<1>9. ASSUME NEW o \in Members, EditFails(o) PROVE AccountsInv'
  BY <1>9, RestingDeed, DeedMoves DEF EditFails, Closed
<1>10. ASSUME NEW o \in Members, NEW u \in Members, BeginDelete(o, u) PROVE AccountsInv'
  <2> DEFINE d == [NoDeed EXCEPT !.on = u,
                                 !.at = IF member[u].admin THEN "deleteRead" ELSE "delete"]
  <2>1. d \in Deeds  BY RestingDeed DEF Deeds
  <2>2. Spares(o, d)  BY <1>10 DEF BeginDelete, NoDeed, Spares
  <2>3. deed' = [deed EXCEPT ![o] = d] /\ UNCHANGED <<member, outlived>>
    BY <1>10 DEF BeginDelete
  <2>4. QED  BY <2>1, <2>2, <2>3, DeedMoves
<1>11. ASSUME NEW o \in Members, CommitDelete(o) PROVE AccountsInv'
  <2>1. member' \in [Members -> Accounts]
    BY <1>1, <1>11 DEF CommitDelete, NoAccount, Accounts
  <2>2. deed[o].on # o  BY <1>1, <1>11 DEF CommitDelete, Spares
  <2>3. Rules(o) => Rules(o)'  BY <1>1, <1>11, <2>2 DEF CommitDelete, Rules
  <2>4. QED  BY <1>11, <2>1, <2>3, DeedEnds DEF CommitDelete
<1>12. QED
  BY <1>2, <1>3, <1>4, <1>5, <1>6, <1>7, <1>8, <1>9, <1>10, <1>11 DEF AccountsNext, accountsVars

BookedInv == AccountsInv /\ booked \in [Members -> Int] /\ BalanceBooked

\* One account and its ledger move together.
LEMMA OneBooks ==
  ASSUME BookedInv, AccountsInv', NEW u, NEW w, NEW n \in Int,
         member' = [member EXCEPT ![u] = w], booked' = [booked EXCEPT ![u] = n],
         u \in Members => w.balance = n
  PROVE  BookedInv'
<1>1. member \in [Members -> Accounts] /\ member' \in [Members -> Accounts]
  BY DEF BookedInv, AccountsInv
<1>2. \A v \in Members : member'[v].balance = booked'[v]
  BY <1>1 DEF BookedInv, BalanceBooked
<1>3. \A v \in Members : member'[v].balance \in Nat  BY <1>1 DEF Accounts
<1>4. booked' \in [Members -> Int]  BY DEF BookedInv
<1>5. BalanceBooked'
  <2> SUFFICES ASSUME NEW v \in Members
               PROVE  member'[v].balance = booked'[v] /\ member'[v].balance >= 0
    BY DEF BalanceBooked
  <2>1. member'[v].balance \in Nat  BY <1>3
  <2>2. QED  BY <1>2, <2>1
<1>6. QED  BY <1>4, <1>5 DEF BookedInv

LEMMA BookedStep == BookedInv /\ [AccountsNext]_accountsVars => BookedInv'
<1> SUFFICES ASSUME BookedInv, [AccountsNext]_accountsVars PROVE BookedInv'  OBVIOUS
<1>1. /\ AccountsInv' /\ member \in [Members -> Accounts] /\ deed \in [Members -> Deeds]
      /\ booked \in [Members -> Int] /\ BalanceBooked
  BY AccountsStep DEF BookedInv, AccountsInv
<1>2. CASE UNCHANGED <<member, booked>>  BY <1>1, <1>2 DEF BookedInv, BalanceBooked
<1>3. ASSUME NEW u \in Members, Register(u) PROVE BookedInv'
  <2> DEFINE w == [life |-> "here", admin |-> FALSE, active |-> TRUE, balance |-> 0]
  <2>1. w.balance = 0 /\ 0 \in Int  OBVIOUS
  <2>2. member' = [member EXCEPT ![u] = w] /\ booked' = [booked EXCEPT ![u] = 0]
    BY <1>3 DEF Register
  <2> HIDE DEF w
  <2>3. QED  BY <1>1, <2>1, <2>2, OneBooks
<1>4. ASSUME NEW u \in Members, NEW delta \in {-1, 1}, MoveFunds(u, delta) PROVE BookedInv'
  <2> DEFINE w == Adjusted(member[u], delta)
  <2>1. w.balance = booked[u] + delta /\ booked[u] + delta \in Int
    BY <1>1 DEF Adjusted, Accounts, BalanceBooked
  <2>2. member' = [member EXCEPT ![u] = w] /\ booked' = [booked EXCEPT ![u] = booked[u] + delta]
    BY <1>1, <1>4 DEF MoveFunds
  <2> HIDE DEF w
  <2>3. QED  BY <1>1, <2>1, <2>2, OneBooks
<1>5. ASSUME NEW o \in Members, NEW u \in Members, NEW admin \in BOOLEAN,
             NEW balance \in 0..MaxBalance, CreateUser(o, u, admin, balance)
      PROVE  BookedInv'
  <2> DEFINE fresh == [life |-> "here", admin |-> admin, active |-> TRUE, balance |-> 0]
             w == Adjusted(fresh, balance)
  <2>1. w.balance = balance /\ balance \in Int
    <3>1. fresh \in Accounts /\ fresh.balance = 0  BY DEF Accounts
    <3> HIDE DEF fresh
    <3>2. QED  BY <3>1, AccountsAssumption DEF Adjusted, Accounts
  <2>2. member' = [member EXCEPT ![u] = w] /\ booked' = [booked EXCEPT ![u] = balance]
    BY <1>5 DEF CreateUser
  <2> HIDE DEF w
  <2>3. QED  BY <1>1, <2>1, <2>2, OneBooks
<1>6. ASSUME NEW o \in Members, CommitEdit(o) PROVE BookedInv'
  <2> DEFINE d == deed[o]
             w == Adjusted(EditedRow(member[d.on], d.edit), d.delta)
  <2>1. d.delta \in Int  BY <1>1 DEF Deeds
  <2>2. member' = [member EXCEPT ![d.on] = w] /\ booked' = [booked EXCEPT ![d.on] = @ + d.delta]
    BY <1>6 DEF CommitEdit
  <2>3. CASE d.on \in Members
    <3>1. w.balance = booked[d.on] + d.delta /\ booked[d.on] + d.delta \in Int
      BY <1>1, <2>1, <2>3 DEF Adjusted, EditedRow, Accounts, BalanceBooked
    <3>2. booked' = [booked EXCEPT ![d.on] = booked[d.on] + d.delta]  BY <1>1, <2>2
    <3> HIDE DEF w
    <3>3. QED  BY <1>1, <2>2, <3>1, <3>2, OneBooks
  <2>4. CASE d.on \notin Members
    <3>1. UNCHANGED <<member, booked>>  BY <1>1, <2>2, <2>4
    <3>2. QED  BY <1>2, <3>1
  <2>5. QED  BY <2>3, <2>4
<1>7. ASSUME NEW o \in Members, CommitDelete(o) PROVE BookedInv'
  <2> DEFINE w == [NoAccount EXCEPT !.life = "gone"]
  <2>1. w.balance = 0 /\ 0 \in Int  BY DEF NoAccount
  <2>2. member' = [member EXCEPT ![deed[o].on] = w] /\ booked' = [booked EXCEPT ![deed[o].on] = 0]
    BY <1>7 DEF CommitDelete
  <2> HIDE DEF w
  <2>3. QED  BY <1>1, <2>1, <2>2, OneBooks
<1>8. QED
  BY <1>2, <1>3, <1>4, <1>5, <1>6, <1>7
  DEF AccountsNext, accountsVars, BeginDelete, BeginEdit, EnsureAnotherAdmin, EditFails

LEMMA BookedStart == AccountsInit => BookedInv
BY AccountsStart DEF AccountsInit, BookedInv, BalanceBooked, NoAccount

\* For any members, edits and order of them: a balance is the sum of its wallet
\* transactions and never below zero, though an administrator sets it to what he has read
\* before (admin.go, wallet.go).
THEOREM BalancesAreBooked == AccountsSpec => []BalanceBooked
<1>1. BookedInv => BalanceBooked  BY DEF BookedInv
<1>2. QED  BY <1>1, BookedStart, BookedStep, PTL DEF AccountsSpec

-----------------------------------------------------------------------------
(* API keys.                                                               *)

Counting(u) == {c \in Creations : creation[c].at = "counted" /\ creation[c].who = u}

KeysInv ==
    /\ apiKey \in [Keys -> [owner : Holders \cup {"none"}, status : {"none", "active", "revoked"},
                            expires : Int]]
    /\ creation \in [Creations -> [at : {"idle", "approved", "counted"}, who : Holders \cup {"none"}]]
    /\ day \in Nat /\ KeysBounded

LEMMA KeySets ==
  ASSUME NEW u
  PROVE  /\ IsFiniteSet(ActiveKeys(u)) /\ Cardinality(ActiveKeys(u)) \in Nat
         /\ IsFiniteSet(Counting(u)) /\ Cardinality(Counting(u)) \in Nat
         /\ Cardinality(Counting(u)) <= Cardinality(Creations) /\ Cardinality(Creations) \in Nat
         /\ IsFiniteSet(ActiveKeys(u)') /\ Cardinality(ActiveKeys(u)') \in Nat
         /\ IsFiniteSet(Counting(u)') /\ Cardinality(Counting(u)') \in Nat
         /\ Cardinality(Counting(u)') <= Cardinality(Creations)
<1>1. ActiveKeys(u) \in SUBSET Keys /\ ActiveKeys(u)' \in SUBSET Keys  BY DEF ActiveKeys
<1>2. Counting(u) \in SUBSET Creations /\ Counting(u)' \in SUBSET Creations  BY DEF Counting
<1>3. QED  BY <1>1, <1>2, FS_Subset, FS_CardinalityType, ApiKeysAssumption

\* A bound on one account's keys survives where its keys and the creations that
\* counted for it become no more.
LEMMA NoMoreKeys ==
  ASSUME KeysBounded, NEW u \in Holders,
         ActiveKeys(u)' \subseteq ActiveKeys(u), Counting(u)' \subseteq Counting(u)
  PROVE  Cardinality(ActiveKeys(u)') + Cardinality(Counting(u)')
           <= MaxAPIKeys + Cardinality(Creations) - 1
<1>1. Cardinality(ActiveKeys(u)') <= Cardinality(ActiveKeys(u))  BY KeySets, FS_Subset
<1>2. Cardinality(Counting(u)') <= Cardinality(Counting(u))  BY KeySets, FS_Subset
<1>3. Cardinality(ActiveKeys(u)) + Cardinality(Counting(u)) <= MaxAPIKeys + Cardinality(Creations) - 1
  BY DEF KeysBounded, Counting
<1>4. QED  BY <1>1, <1>2, <1>3, KeySets, ApiKeysAssumption

LEMMA KeysStart == ApiKeysInit => KeysInv
<1> SUFFICES ASSUME ApiKeysInit PROVE KeysInv  OBVIOUS
<1>1. ASSUME NEW u \in Holders
      PROVE  Cardinality(ActiveKeys(u)) + Cardinality(Counting(u))
               <= MaxAPIKeys + Cardinality(Creations) - 1
  <2>1. ActiveKeys(u) = {} /\ Counting(u) = {}
    BY DEF ApiKeysInit, ActiveKeys, Counting, NoKey
  <2>2. Cardinality(ActiveKeys(u)) = 0 /\ Cardinality(Counting(u)) = 0  BY <2>1, FS_EmptySet
  <2>3. QED  BY <2>2, KeySets, ApiKeysAssumption
<1>2. KeysBounded  BY <1>1 DEF KeysBounded, Counting
<1>3. QED  BY <1>2 DEF ApiKeysInit, KeysInv, NoKey, Never

\* The bound, from what a step does to each account's keys.
LEMMA EachBounded ==
  ASSUME \A u \in Holders : Cardinality(ActiveKeys(u)') + Cardinality(Counting(u)')
                              <= MaxAPIKeys + Cardinality(Creations) - 1
  PROVE  KeysBounded'
BY DEF KeysBounded, Counting

LEMMA KeysStep == KeysInv /\ [ApiKeysNext]_apiKeysVars => KeysInv'
<1> SUFFICES ASSUME KeysInv, [ApiKeysNext]_apiKeysVars PROVE KeysInv'  OBVIOUS
<1> USE DEF KeysInv
<1>1. ASSUME UNCHANGED <<apiKey, creation>>, day' \in Nat PROVE KeysInv'
  BY <1>1 DEF KeysBounded, ActiveKeys
<1>2. ASSUME NEW c \in Creations, NEW u \in Holders, IsApproved(c, u) PROVE KeysInv'
  <2>1. creation' \in [Creations -> [at : {"idle", "approved", "counted"},
                                     who : Holders \cup {"none"}]]
    BY <1>2 DEF IsApproved
  <2>2. \A w \in Holders : ActiveKeys(w)' \subseteq ActiveKeys(w) /\ Counting(w)' \subseteq Counting(w)
    BY <1>2 DEF IsApproved, ActiveKeys, Counting
  <2>3. QED  BY <1>2, <2>1, <2>2, NoMoreKeys, EachBounded DEF IsApproved
<1>3. ASSUME NEW c \in Creations, CountKeys(c) PROVE KeysInv'
  <2>1. creation' \in [Creations -> [at : {"idle", "approved", "counted"},
                                     who : Holders \cup {"none"}]]
    BY <1>3 DEF CountKeys
  <2>2. ASSUME NEW u \in Holders
        PROVE  Cardinality(ActiveKeys(u)') + Cardinality(Counting(u)')
                 <= MaxAPIKeys + Cardinality(Creations) - 1
    <3>1. ActiveKeys(u)' = ActiveKeys(u)  BY <1>3 DEF CountKeys, ActiveKeys
    <3>2. CASE u = creation[c].who /\ BelowBound(u)
      <4>1. Cardinality(ActiveKeys(u)) < MaxAPIKeys  BY <3>2 DEF BelowBound
      <4>2. QED  BY <3>1, <4>1, KeySets, ApiKeysAssumption
    <3>3. CASE ~(u = creation[c].who /\ BelowBound(u))
      <4>1. Counting(u)' \subseteq Counting(u)  BY <1>3, <3>3 DEF CountKeys, Counting
      <4>2. QED  BY <3>1, <4>1, NoMoreKeys
    <3>4. QED  BY <3>2, <3>3
  <2>3. QED  BY <1>3, <2>1, <2>2, EachBounded DEF CountKeys
<1>4. ASSUME NEW c \in Creations, NEW k \in Keys, NEW e \in {Never, day + 1}, CreateKey(c, k, e)
      PROVE  KeysInv'
  <2>1. creation' \in [Creations -> [at : {"idle", "approved", "counted"},
                                     who : Holders \cup {"none"}]]
        /\ apiKey' \in [Keys -> [owner : Holders \cup {"none"},
                                 status : {"none", "active", "revoked"}, expires : Int]]
    BY <1>4 DEF CreateKey, Never
  <2>2. ASSUME NEW u \in Holders
        PROVE  Cardinality(ActiveKeys(u)') + Cardinality(Counting(u)')
                 <= MaxAPIKeys + Cardinality(Creations) - 1
    <3>1. CASE u = creation[c].who
      <4>1. ActiveKeys(u)' = ActiveKeys(u) \cup {k} /\ k \notin ActiveKeys(u)
        BY <1>4, <3>1 DEF CreateKey, ActiveKeys, NoKey
      <4>2. Counting(u)' = Counting(u) \ {c} /\ c \in Counting(u)
        BY <1>4, <3>1 DEF CreateKey, Counting
      <4>3. Cardinality(ActiveKeys(u)') = Cardinality(ActiveKeys(u)) + 1
        BY <4>1, KeySets, FS_AddElement
      <4>4. Cardinality(Counting(u)') = Cardinality(Counting(u)) - 1
        BY <4>2, KeySets, FS_RemoveElement
      <4>5. Cardinality(ActiveKeys(u)) + Cardinality(Counting(u))
              <= MaxAPIKeys + Cardinality(Creations) - 1
        BY DEF KeysBounded, Counting
      <4>6. QED  BY <4>3, <4>4, <4>5, KeySets, ApiKeysAssumption
    <3>2. CASE u # creation[c].who
      <4>1. ActiveKeys(u)' \subseteq ActiveKeys(u) /\ Counting(u)' \subseteq Counting(u)
        BY <1>4, <3>2 DEF CreateKey, ActiveKeys, Counting
      <4>2. QED  BY <4>1, NoMoreKeys
    <3>3. QED  BY <3>1, <3>2
  <2>3. QED  BY <1>4, <2>1, <2>2, EachBounded DEF CreateKey
<1>5. ASSUME NEW v \in Holders, NEW k \in Keys, RevokeKey(v, k) PROVE KeysInv'
  <2>1. apiKey' \in [Keys -> [owner : Holders \cup {"none"}, status : {"none", "active", "revoked"},
                              expires : Int]]
    BY <1>5 DEF RevokeKey
  <2>2. \A u \in Holders : ActiveKeys(u)' \subseteq ActiveKeys(u) /\ Counting(u)' \subseteq Counting(u)
    BY <1>5 DEF RevokeKey, ActiveKeys, Counting
  <2>3. QED  BY <1>5, <2>1, <2>2, NoMoreKeys, EachBounded DEF RevokeKey
<1>6. ASSUME NEW v \in Holders, DeleteUserKeys(v) PROVE KeysInv'
  <2>1. apiKey' \in [Keys -> [owner : Holders \cup {"none"}, status : {"none", "active", "revoked"},
                              expires : Int]]
    BY <1>6 DEF DeleteUserKeys, NoKey, Never
  <2>2. \A u \in Holders : ActiveKeys(u)' \subseteq ActiveKeys(u) /\ Counting(u)' \subseteq Counting(u)
    BY <1>6 DEF DeleteUserKeys, ActiveKeys, Counting, NoKey
  <2>3. QED  BY <1>6, <2>1, <2>2, NoMoreKeys, EachBounded DEF DeleteUserKeys
<1>7. CASE DayPasses  BY <1>1, <1>7 DEF DayPasses
<1>8. CASE UNCHANGED <<apiKey, creation, day>>  BY <1>1, <1>8
<1>9. QED
  BY <1>2, <1>3, <1>4, <1>5, <1>6, <1>7, <1>8
  DEF ApiKeysNext, apiKeysVars, Authenticate, ReadOwner, Returns, HolderChanges

-----------------------------------------------------------------------------
(* The installation.                                                       *)

\* What is about to be written to the file, or served, has its administrator.  No
\* request outlives the process; one by itself finds nothing served, and serves what it
\* has written.
InstallsStand ==
    /\ \A r \in Installs : installing[r].at \in {"save", "activate"} => installing[r].into \in populated
    /\ ~running => \A r \in Installs : installing[r].at = "idle"
    /\ ~crossed => \A r \in Installs :
          installing[r].at # "idle" =>
             /\ activated = Nowhere
             /\ installing[r].at = "activate" => installing[r].into = configFile
             /\ \A q \in Installs : installing[q].at # "idle" => q = r

InstallInv ==
    /\ installing \in [Installs -> [at : {"idle", "count", "populate", "save", "activate"},
                                    into : Databases \cup {Nowhere}]]
    /\ InstallsStand /\ ConfiguredIsPopulated

LEMMA InstallStart == InstallInit => InstallInv
BY DEF InstallInit, InstallInv, InstallsStand, ConfiguredIsPopulated, NoInstall

LEMMA InstallStep == InstallInv /\ [InstallNext]_installVars => InstallInv'
<1> SUFFICES ASSUME InstallInv, [InstallNext]_installVars PROVE InstallInv'  OBVIOUS
<1> USE DEF InstallInv, InstallsStand, ConfiguredIsPopulated
<1>1. CASE UNCHANGED installVars  BY <1>1 DEF installVars
<1>2. ASSUME NEW r \in Installs, NEW d \in Databases, BeginInstall(r, d) PROVE InstallInv'
  BY <1>2 DEF BeginInstall, Installed
<1>3. ASSUME NEW r \in Installs, CountUsers(r) PROVE InstallInv'
  BY <1>3 DEF CountUsers, Leaves, Proceeds, FollowedBy, NoInstall
<1>4. ASSUME NEW r \in Installs, Populate(r) PROVE InstallInv'
  BY <1>4 DEF Populate, Proceeds, FollowedBy
<1>5. ASSUME NEW r \in Installs, SaveConfig(r) PROVE InstallInv'
  BY <1>5 DEF SaveConfig, Proceeds, FollowedBy
<1>6. ASSUME NEW r \in Installs, Activate(r) PROVE InstallInv'
  BY <1>6 DEF Activate, Leaves, NoInstall
<1>7. ASSUME NEW r \in Installs, InstallFails(r) PROVE InstallInv'
  BY <1>7 DEF InstallFails, Leaves, NoInstall
<1>8. CASE InstallerDies  BY <1>8 DEF InstallerDies, NoInstall
<1>9. CASE ProcessStarts  BY <1>9 DEF ProcessStarts
<1>10. QED  BY <1>1, <1>2, <1>3, <1>4, <1>5, <1>6, <1>7, <1>8, <1>9 DEF InstallNext

-----------------------------------------------------------------------------
(* Callbacks of a gateway.                                                 *)

MethodRows == [life : {"new", "kept", "gone"}, gateway : Gateways, key : AllKeys, enabled : BOOLEAN]
DueRows == [at : {"new", "open", "settled"}, gateway : Gateways, method : Methods \cup {NoMethod},
            key : AllKeys]
CallbackRows == [at : {"none", "route", "intent", "list", "empty", "refused"},
                 routed : BOOLEAN, named : BOOLEAN, own : BOOLEAN, listed : SUBSET Methods]

\* What the history still says stands, and each lookup that was passed found nothing
\* the history vouches for.
LookupsHonest(d) ==
    LET c == callback[d] IN
    /\ c.at # "none" => due[d].at # "new"
    /\ c.at = "none" => ~c.own /\ c.listed = {}
    /\ c.own => (c.routed \/ c.named) /\ Fits(method, d, due[d].method)
    /\ c.listed \subseteq Listed(method, d)
    /\ c.at = "intent" /\ c.own => c.named
    /\ c.at \in {"list", "empty", "refused"} => ~c.own
    /\ c.at \in {"empty", "refused"} => c.listed = {}
    /\ c.at = "refused" => due[d].key # EmptyConfig

GatewayInv == GatewayTypeOK /\ \A d \in Charges : LookupsHonest(d)

LEMMA GatewayStart == GatewayInit => GatewayInv
<1> SUFFICES ASSUME GatewayInit PROVE GatewayInv  OBVIOUS
<1>1. SomeGateway \in Gateways  BY GatewayAssumption DEF SomeGateway
<1>2. NoMethod \in Methods \cup {NoMethod} /\ EmptyConfig \in AllKeys  BY DEF AllKeys
<1>3. method \in [Methods -> MethodRows]
  BY <1>1, <1>2 DEF GatewayInit, MethodRow, MethodRows
<1>4. GatewayTypeOK
  BY <1>1, <1>2, <1>3 DEF GatewayInit, GatewayTypeOK, NoCallback, MethodRows
<1>5. QED  BY <1>4 DEF GatewayInit, GatewayInv, LookupsHonest, NoCallback

\* A payment whose row, lookups and methods a step leaves alone.
LEMMA OthersLookup ==
  ASSUME NEW d \in Charges, LookupsHonest(d), callback'[d] = callback[d], due'[d] = due[d],
         UNCHANGED method
  PROVE  LookupsHonest(d)'
BY DEF LookupsHonest, Fits, HoldsKey, Listed

LEMMA SettlingLookup ==
  ASSUME GatewayInv, NEW d \in Charges, Settles(d), UNCHANGED method
  PROVE  GatewayInv'
<1> DEFINE entry == [due[d] EXCEPT !.at = "settled"]
<1>1. GatewayTypeOK'
  <2>1. due \in [Charges -> DueRows] /\ entry \in DueRows
    BY DEF GatewayInv, GatewayTypeOK, DueRows
  <2>2. due' = [due EXCEPT ![d] = entry]  BY DEF Settles
  <2>3. due' \in [Charges -> DueRows]  BY <2>1, <2>2
  <2>4. NoCallback \in CallbackRows  BY DEF NoCallback, CallbackRows
  <2>5. callback' \in [Charges -> CallbackRows]
    BY <2>4 DEF GatewayInv, GatewayTypeOK, Settles, CallbackRows
  <2>6. QED  BY <2>3, <2>5 DEF GatewayInv, GatewayTypeOK, DueRows, CallbackRows
<1>2. ASSUME NEW e \in Charges, e # d PROVE LookupsHonest(e)'
  BY <1>2, OthersLookup DEF GatewayInv, GatewayTypeOK, Settles
<1>3. LookupsHonest(d)'
  BY DEF GatewayInv, GatewayTypeOK, Settles, LookupsHonest, NoCallback
<1>4. QED  BY <1>1, <1>2, <1>3 DEF GatewayInv

\* A lookup that verifies nothing, where the history vouches for nothing of the kind.
LEMMA PassingLookup ==
  ASSUME GatewayInv, NEW d \in Charges, NEW to \in {"intent", "list", "empty", "refused"},
         callback[d].at # "none",
         callback' = [callback EXCEPT ![d].at = to], UNCHANGED <<due, method>>,
         to = "intent" /\ callback[d].own => callback[d].named,
         to \in {"list", "empty", "refused"} => ~callback[d].own,
         to \in {"empty", "refused"} => callback[d].listed = {},
         to = "refused" => due[d].key # EmptyConfig
  PROVE  GatewayInv'
<1>1. GatewayTypeOK'  BY DEF GatewayInv, GatewayTypeOK
<1>2. ASSUME NEW e \in Charges, e # d PROVE LookupsHonest(e)'
  BY <1>2, OthersLookup DEF GatewayInv, GatewayTypeOK
<1>3. LookupsHonest(d)'
  <2>1. LookupsHonest(d) /\ callback[d] \in CallbackRows
    BY DEF GatewayInv, GatewayTypeOK, CallbackRows
  <2>2. callback'[d] = [callback[d] EXCEPT !.at = to]  BY DEF GatewayInv, GatewayTypeOK
  <2>3. QED  BY <2>1, <2>2 DEF LookupsHonest, CallbackRows, Fits, HoldsKey, Listed
<1>4. QED  BY <1>1, <1>2, <1>3 DEF GatewayInv

\* An edit of the methods.
LEMMA SavingMethod ==
  ASSUME GatewayInv, NEW m \in Methods, NEW entry \in MethodRows, SaveMethod(m, entry)
  PROVE  GatewayInv'
<1> DEFINE after(d) == [callback[d] EXCEPT !.own = @ /\ Fits(method', d, due[d].method),
                                           !.listed = @ \cap Listed(method', d)]
<1>1. callback' = [d \in Charges |-> after(d)] /\ due' = due /\ method' \in [Methods -> MethodRows]
  BY DEF SaveMethod, GatewayInv, GatewayTypeOK, MethodRows
<1>2. ASSUME NEW d \in Charges PROVE after(d) \in CallbackRows /\ LookupsHonest(d)'
  <2>1. callback[d] \in CallbackRows /\ LookupsHonest(d)
    BY DEF GatewayInv, GatewayTypeOK, CallbackRows
  <2>2. Fits(method', d, due[d].method) \in BOOLEAN  BY DEF Fits, HoldsKey
  <2>3. after(d) \in CallbackRows  BY <2>1, <2>2 DEF CallbackRows
  <2>4. Fits(method', d, due[d].method) <=> Fits(method, d, due[d].method)'
    BY <1>1 DEF Fits, HoldsKey
  <2>5. Listed(method', d) = Listed(method, d)'  BY <1>1 DEF Listed, Fits, HoldsKey
  <2>6. /\ callback'[d].at = callback[d].at /\ callback'[d].routed = callback[d].routed
        /\ callback'[d].named = callback[d].named
        /\ callback'[d].own <=> callback[d].own /\ Fits(method', d, due[d].method)
        /\ callback'[d].listed = callback[d].listed \cap Listed(method', d)
    BY <1>1, <2>1 DEF CallbackRows
  <2>7. QED  BY <1>1, <2>1, <2>3, <2>4, <2>5, <2>6 DEF LookupsHonest
<1>3. GatewayTypeOK'
  BY <1>1, <1>2 DEF GatewayInv, GatewayTypeOK, MethodRows, CallbackRows
<1>4. QED  BY <1>2, <1>3 DEF GatewayInv

LEMMA GatewayStep == GatewayInv /\ [GatewayNext]_gatewayVars => GatewayInv'
<1> SUFFICES ASSUME GatewayInv, [GatewayNext]_gatewayVars PROVE GatewayInv'  OBVIOUS
<1>1. GatewayTypeOK /\ \A d \in Charges : LookupsHonest(d) /\ callback[d] \in CallbackRows
  BY DEF GatewayInv, GatewayTypeOK, CallbackRows
<1>2. CASE UNCHANGED gatewayVars
  BY <1>1, <1>2, OthersLookup DEF gatewayVars, GatewayInv, GatewayTypeOK
<1>3. ASSUME NEW m \in Methods, NEW g \in Gateways, NEW k \in AllKeys, NEW e \in BOOLEAN,
             CreatePaymentMethod(m, g, k, e) \/ UpdatePaymentMethod(m, g, k, e)
      PROVE  GatewayInv'
  <2>1. [life |-> "kept", gateway |-> g, key |-> k, enabled |-> e] \in MethodRows
    BY DEF MethodRows
  <2>2. [method[m] EXCEPT !.gateway = g, !.key = k, !.enabled = e] \in MethodRows
    <3>1. method[m] \in MethodRows  BY <1>1 DEF GatewayTypeOK, MethodRows
    <3>2. QED  BY <3>1 DEF MethodRows
  <2>3. QED  BY <1>3, <2>1, <2>2, SavingMethod DEF CreatePaymentMethod, UpdatePaymentMethod
<1>4. ASSUME NEW m \in Methods, DeletePaymentMethod(m) PROVE GatewayInv'
  <2>1. MethodRow("gone") \in MethodRows
    BY GatewayAssumption DEF MethodRow, MethodRows, SomeGateway, AllKeys
  <2>2. QED  BY <1>4, <2>1, SavingMethod DEF DeletePaymentMethod
<1>5. ASSUME NEW d \in Charges, NEW m \in Methods, OpenDue(d, m) PROVE GatewayInv'
  <2>1. GatewayTypeOK'  BY <1>1, <1>5 DEF OpenDue, GatewayTypeOK
  <2>2. ASSUME NEW e \in Charges, e # d PROVE LookupsHonest(e)'
    BY <1>1, <1>5, <2>2, OthersLookup DEF OpenDue, GatewayTypeOK
  <2>3. callback[d].at = "none" /\ ~callback[d].own /\ callback[d].listed = {}
    BY <1>1, <1>5 DEF OpenDue, LookupsHonest
  <2>4. LookupsHonest(d)'  BY <1>5, <2>3 DEF OpenDue, LookupsHonest
  <2>5. QED  BY <2>1, <2>2, <2>4 DEF GatewayInv
<1>6. ASSUME NEW d \in Charges, QueryDue(d) PROVE GatewayInv'
  <2> DEFINE entry == [due[d] EXCEPT !.at = "settled"]
  <2>1. GatewayTypeOK'
    <3>1. due \in [Charges -> DueRows] /\ entry \in DueRows  BY <1>1 DEF GatewayTypeOK, DueRows
    <3>2. due' = [due EXCEPT ![d] = entry] /\ UNCHANGED <<method, callback>>
      BY <1>6 DEF QueryDue
    <3>3. due' \in [Charges -> DueRows]  BY <3>1, <3>2
    <3>4. QED  BY <1>1, <3>2, <3>3 DEF GatewayTypeOK, DueRows
  <2>2. ASSUME NEW e \in Charges, e # d PROVE LookupsHonest(e)'
    BY <1>1, <1>6, <2>2, OthersLookup DEF QueryDue, GatewayTypeOK
  <2>3. due'[d] = [due[d] EXCEPT !.at = "settled"] /\ UNCHANGED <<method, callback>>
    BY <1>1, <1>6 DEF QueryDue, GatewayTypeOK
  <2>4. due'[d].at = "settled" /\ due'[d].key = due[d].key /\ due'[d].method = due[d].method
        /\ due'[d].gateway = due[d].gateway
    BY <1>1, <2>3 DEF GatewayTypeOK
  <2>5. LookupsHonest(d)'
    BY <1>1, <2>3, <2>4 DEF LookupsHonest, Fits, HoldsKey, Listed
  <2>6. QED  BY <2>1, <2>2, <2>5 DEF GatewayInv
<1>7. ASSUME NEW d \in Charges, NEW routed \in BOOLEAN, NEW named \in BOOLEAN,
             Arrive(d, routed, named)
      PROVE  GatewayInv'
  <2> DEFINE own == (routed \/ named) /\ Fits(method, d, due[d].method)
  <2>1. callback' = [callback EXCEPT ![d] = [at |-> "route", routed |-> routed, named |-> named,
                         own |-> own, listed |-> Listed(method, d)]]
        /\ UNCHANGED <<method, due>>
    BY <1>7 DEF Arrive
  <2>2. own \in BOOLEAN /\ Listed(method, d) \subseteq Methods  BY DEF Fits, HoldsKey, Listed
  <2>3. GatewayTypeOK'  BY <1>1, <2>1, <2>2 DEF GatewayTypeOK
  <2>4. ASSUME NEW e \in Charges, e # d PROVE LookupsHonest(e)'
    BY <1>1, <2>1, <2>4, OthersLookup DEF GatewayTypeOK
  <2>5. LookupsHonest(d)'
    <3>1. callback'[d] = [at |-> "route", routed |-> routed, named |-> named,
                          own |-> own, listed |-> Listed(method, d)]
      BY <1>1, <2>1 DEF GatewayTypeOK
    <3>2. due[d].at = "open"  BY <1>7 DEF Arrive
    <3>3. Fits(method, d, due[d].method)' <=> Fits(method, d, due[d].method)
      BY <2>1 DEF Fits, HoldsKey
    <3>4. Listed(method, d)' = Listed(method, d)  BY <2>1 DEF Listed, Fits, HoldsKey
    <3>5. /\ callback'[d].at = "route" /\ callback'[d].routed = routed
          /\ callback'[d].named = named /\ callback'[d].own = own
          /\ callback'[d].listed = Listed(method, d)
      BY <3>1
    <3>6. own => (routed \/ named) /\ Fits(method, d, due[d].method)  OBVIOUS
    <3> HIDE DEF own
    <3>7. callback'[d].own => (routed \/ named) /\ Fits(method, d, due[d].method)'
      BY <3>3, <3>5, <3>6
    <3>8. QED  BY <2>1, <3>2, <3>4, <3>5, <3>7 DEF LookupsHonest
  <2>6. QED  BY <2>3, <2>4, <2>5 DEF GatewayInv
<1>8. ASSUME NEW d \in Charges, TryRoute(d) PROVE GatewayInv'
  <2>1. CASE callback[d].routed /\ Fits(method, d, due[d].method)
    BY <1>8, <2>1, SettlingLookup DEF TryRoute, Try
  <2>2. CASE ~(callback[d].routed /\ Fits(method, d, due[d].method))
    <3>1. callback[d].own => callback[d].named  BY <1>1, <2>2 DEF LookupsHonest
    <3>2. QED  BY <1>8, <2>2, <3>1, PassingLookup DEF TryRoute, Try
  <2>3. QED  BY <2>1, <2>2
<1>9. ASSUME NEW d \in Charges, TryIntent(d) PROVE GatewayInv'
  <2>1. CASE callback[d].named /\ HoldsKey(method, d, due[d].method)
    BY <1>9, <2>1, SettlingLookup DEF TryIntent, Try
  <2>2. CASE ~(callback[d].named /\ HoldsKey(method, d, due[d].method))
    <3>1. ~callback[d].own  BY <1>1, <1>9, <2>2 DEF TryIntent, Try, LookupsHonest, Fits
    <3>2. QED  BY <1>9, <2>2, <3>1, PassingLookup DEF TryIntent, Try
  <2>3. QED  BY <2>1, <2>2
<1>10. ASSUME NEW d \in Charges, TryList(d) PROVE GatewayInv'
  <2>1. CASE VerifiedByList(d)  BY <1>10, <2>1, SettlingLookup DEF TryList, Try
  <2>2. CASE ~VerifiedByList(d)
    <3>1. ~callback[d].own /\ callback[d].listed = {}
      BY <1>1, <1>10, <2>2 DEF TryList, Try, LookupsHonest, VerifiedByList
    <3>2. QED  BY <1>10, <2>2, <3>1, PassingLookup DEF TryList, Try
  <2>3. QED  BY <2>1, <2>2
<1>11. ASSUME NEW d \in Charges, TryEmpty(d) PROVE GatewayInv'
  <2>1. CASE due[d].key = EmptyConfig  BY <1>11, <2>1, SettlingLookup DEF TryEmpty, Try
  <2>2. CASE due[d].key # EmptyConfig
    <3>1. ~callback[d].own /\ callback[d].listed = {}
      BY <1>1, <1>11 DEF TryEmpty, Try, LookupsHonest
    <3>2. QED  BY <1>11, <2>2, <3>1, PassingLookup DEF TryEmpty, Try
  <2>3. QED  BY <2>1, <2>2
<1>12. QED
  BY <1>2, <1>3, <1>4, <1>5, <1>6, <1>7, <1>8, <1>9, <1>10, <1>11 DEF GatewayNext

LEMMA TakenIfGenuine == GatewayInv => GenuineIsTaken
BY DEF GatewayInv, LookupsHonest, GenuineIsTaken

-----------------------------------------------------------------------------
(* Sessions.                                                               *)

PersonRows == [password : Int, changed : Int, active : BOOLEAN]
TokenRows == [at : {"none", "known", "mailed", "signed"}, iat : Int, exp : Int, password : Int]
VisitRows == [at : {"idle", "parsed", "found", "cleared", "served", "leaving", "left",
                    "change", "changed"},
              for : Tokens \cup {"none"}, late : BOOLEAN, password : Int]

\* A token that cannot be used, by the table or by its age.
Out(t) == t \in revoked \/ token[t].exp <= second

\* A request knows a signed token, was late only if that was signed out, and leaves
\* one that is out; it was let in only if the token had expired.
VisitHonest(v) ==
    LET w == visit[v] IN
    /\ w.at \in {"parsed", "found", "cleared", "served", "leaving", "left"} =>
          w.for \in Tokens /\ token[w.for].at = "signed"
    /\ w.at \in {"parsed", "cleared", "served"} /\ w.late => w.for \in signedOut
    /\ w.at = "left" => Out(w.for)
    /\ w.at \in {"cleared", "served"} /\ w.late => second >= token[w.for].exp

SessionsInv ==
    /\ second \in Int /\ person \in PersonRows
    /\ token \in [Tokens -> TokenRows] /\ visit \in [Replicas -> VisitRows]
    /\ \A t \in signedOut : t \in Tokens /\ token[t].at = "signed" /\ Out(t)
    /\ \A v \in Replicas : VisitHonest(v)

LEMMA SessionsStart == SessionsInit => SessionsInv
BY DEF SessionsInit, SessionsInv, VisitHonest, PersonRows, TokenRows, VisitRows, Unsigned, NoVisit

\* A step that moves no request and signs or forgets no signature.
LEMMA TokensMove ==
  ASSUME SessionsInv, UNCHANGED <<second, signedOut, visit>>, person' \in PersonRows,
         revoked \subseteq revoked', token' \in [Tokens -> TokenRows],
         \A t \in Tokens : token[t].at = "signed" => token'[t] = token[t]
  PROVE  SessionsInv'
BY DEF SessionsInv, VisitHonest, Out, VisitRows

\* A step that only moves one request.
LEMMA VisitMoves ==
  ASSUME SessionsInv, NEW v \in Replicas, NEW w \in VisitRows,
         visit' = [visit EXCEPT ![v] = w], UNCHANGED <<second, token, signedOut>>,
         person' \in PersonRows, revoked \subseteq revoked',
         w.at \in {"parsed", "found", "cleared", "served", "leaving", "left"} =>
            w.for \in Tokens /\ token[w.for].at = "signed",
         w.at \in {"parsed", "cleared", "served"} /\ w.late => w.for \in signedOut,
         w.at = "left" => w.for \in revoked' \/ token[w.for].exp <= second,
         w.at \in {"cleared", "served"} /\ w.late => second >= token[w.for].exp
  PROVE  SessionsInv'
<1>1. visit' \in [Replicas -> VisitRows]  BY DEF SessionsInv
<1>2. \A t \in signedOut' : t \in Tokens /\ token'[t].at = "signed" /\ Out(t)'
  BY DEF SessionsInv, Out
<1>3. ASSUME NEW u \in Replicas PROVE VisitHonest(u)'
  <2>1. CASE u = v
    <3>1. visit'[u] = w  BY <2>1 DEF SessionsInv
    <3>2. QED  BY <3>1 DEF VisitHonest, Out
  <2>2. CASE u # v
    <3>1. visit'[u] = visit[u] /\ VisitHonest(u)  BY <2>2 DEF SessionsInv
    <3>2. QED  BY <3>1 DEF VisitHonest, Out
  <2>3. QED  BY <2>1, <2>2
<1>4. QED  BY <1>1, <1>2, <1>3 DEF SessionsInv

\* A request that ends.
LEMMA VisitEnds ==
  ASSUME SessionsInv, NEW v \in Replicas, Done(v), UNCHANGED <<second, token, signedOut>>,
         person' \in PersonRows, revoked \subseteq revoked'
  PROVE  SessionsInv'
<1>1. NoVisit \in VisitRows /\ NoVisit.at = "idle"  BY DEF NoVisit, VisitRows
<1>2. QED  BY <1>1, VisitMoves DEF Done

LEMMA SigningKeeps ==
  ASSUME SessionsInv, NEW t \in Tokens, token[t].at # "signed", NEW password \in Int,
         token' \in Signed(t, password)
  PROVE  /\ token' \in [Tokens -> TokenRows]
         /\ \A q \in Tokens : token[q].at = "signed" => token'[q] = token[q]
<1>1. PICK ttl \in {TokenTTL, AdminTokenTTL} :
          token' = [token EXCEPT ![t] = [at |-> "signed", iat |-> second, exp |-> second + ttl,
                                         password |-> password]]
  BY DEF Signed
<1>2. ttl \in Int  BY SessionsAssumption
<1>3. [at |-> "signed", iat |-> second, exp |-> second + ttl, password |-> password] \in TokenRows
  BY <1>2 DEF SessionsInv, TokenRows
<1>4. QED  BY <1>1, <1>3 DEF SessionsInv

LEMMA PasswordIsSet ==
  ASSUME person \in PersonRows, second \in Int, NewPassword  PROVE person' \in PersonRows
<1>1. person.password + 1 \in Int  BY DEF PersonRows
<1>2. QED  BY <1>1 DEF NewPassword, PersonRows

LEMMA SessionsStep == SessionsInv /\ [SessionsNext]_sessionVars => SessionsInv'
<1> SUFFICES ASSUME SessionsInv, [SessionsNext]_sessionVars PROVE SessionsInv'  OBVIOUS
<1>1. /\ second \in Int /\ person \in PersonRows /\ person.password \in Int
      /\ token \in [Tokens -> TokenRows] /\ visit \in [Replicas -> VisitRows]
      /\ \A t \in signedOut : t \in Tokens /\ token[t].at = "signed" /\ Out(t)
      /\ \A v \in Replicas : VisitHonest(v) /\ visit[v] \in VisitRows
  BY DEF SessionsInv, PersonRows
<1>2. CASE UNCHANGED sessionVars  BY <1>1, <1>2, TokensMove DEF sessionVars
<1>3. ASSUME NEW t \in Logins, PasswordChecked(t) \/ Challenge(t) \/ TicketLost(t)
      PROVE  SessionsInv'
  <2>1. t \in Tokens  BY DEF Tokens
  <2>2. token' \in [Tokens -> TokenRows]
    BY <1>1, <1>3, <2>1 DEF PasswordChecked, Challenge, TicketLost, Unsigned, TokenRows
  <2>3. \A q \in Tokens : token[q].at = "signed" => token'[q] = token[q]
    BY <1>1, <1>3, <2>1 DEF PasswordChecked, Challenge, TicketLost
  <2>4. UNCHANGED <<second, person, revoked, signedOut, visit>>
    BY <1>3 DEF PasswordChecked, Challenge, TicketLost
  <2>5. QED  BY <1>1, <2>2, <2>3, <2>4, TokensMove
<1>4. ASSUME NEW t \in Logins, OpenSession(t) PROVE SessionsInv'
  <2>1. t \in Tokens /\ token[t].password \in Int  BY <1>1 DEF Tokens, TokenRows
  <2>2. token[t].at # "signed" /\ token' \in Signed(t, token[t].password)
        /\ UNCHANGED <<second, person, revoked, signedOut, visit>>
    BY <1>4 DEF OpenSession
  <2>3. QED  BY <1>1, <2>1, <2>2, SigningKeeps, TokensMove
<1>5. ASSUME NEW v \in Replicas, NEW t \in Tokens, ParseToken(v, t) PROVE SessionsInv'
  <2> DEFINE w == [at |-> "parsed", for |-> t, late |-> t \in signedOut, password |-> 0]
  <2>1. w \in VisitRows  BY DEF VisitRows
  <2>2. visit' = [visit EXCEPT ![v] = w] /\ token[t].at = "signed"
        /\ UNCHANGED <<second, person, token, revoked, signedOut>>
    BY <1>5 DEF ParseToken, Unexpired
  <2>3. QED  BY <1>1, <2>1, <2>2, VisitMoves
<1>6. ASSUME NEW v \in Replicas, NEW t \in Tokens, Logout(v, t) PROVE SessionsInv'
  <2> DEFINE w == [NoVisit EXCEPT !.at = "leaving", !.for = t]
  <2>1. NoVisit \in VisitRows  BY DEF VisitRows, NoVisit
  <2>2. w \in VisitRows /\ w.at = "leaving" /\ w.for = t  BY <2>1 DEF VisitRows
  <2>3. visit' = [visit EXCEPT ![v] = w] /\ token[t].at = "signed"
        /\ UNCHANGED <<second, person, token, revoked, signedOut>>
    BY <1>6 DEF Logout, Unexpired
  <2> HIDE DEF w
  <2>4. QED  BY <1>1, <2>2, <2>3, VisitMoves
<1>7. ASSUME NEW v \in Replicas, NEW t \in Reissues, Reissue(v, t) PROVE SessionsInv'
  <2>1. t \in Tokens /\ visit[v].password \in Int  BY <1>1 DEF Tokens, VisitRows
  <2>2. token[t].at # "signed" /\ token' \in Signed(t, visit[v].password) /\ Done(v)
        /\ UNCHANGED <<second, person, revoked, signedOut>>
    BY <1>7 DEF Reissue
  <2>3. token' \in [Tokens -> TokenRows]
        /\ \A q \in Tokens : token[q].at = "signed" => token'[q] = token[q]
    BY <2>1, <2>2, SigningKeeps
  <2>4. visit' \in [Replicas -> VisitRows]  BY <1>1, <2>2 DEF Done, NoVisit, VisitRows
  <2>5. ASSUME NEW u \in Replicas PROVE VisitHonest(u)'
    <3>1. CASE u = v  BY <1>1, <2>2, <3>1 DEF Done, NoVisit, VisitHonest
    <3>2. CASE u # v
      <4>1. visit'[u] = visit[u] /\ VisitHonest(u)  BY <1>1, <2>2, <3>2 DEF Done
      <4>2. QED  BY <1>1, <2>2, <2>3, <4>1 DEF VisitHonest, Out
    <3>3. QED  BY <3>1, <3>2
  <2>6. QED  BY <1>1, <2>2, <2>3, <2>4, <2>5 DEF SessionsInv, Out
<1>8. ASSUME NEW v \in Replicas, IsRevoked(v) PROVE SessionsInv'
  <2> DEFINE t == visit[v].for
  <2>1. visit[v].at = "parsed" /\ t \in Tokens /\ token[t].at = "signed" /\ VisitHonest(v)
        /\ UNCHANGED <<second, person, token, revoked, signedOut>>
    BY <1>1, <1>8 DEF IsRevoked, VisitHonest
  <2>2. CASE Done(v)  BY <1>1, <2>1, <2>2, VisitEnds
  <2>3. ASSUME NEW to \in {"found", "cleared"}, At(v, "parsed", to),
               to = "cleared" => ~(KnownRevoked(v, t) /\ second < token[t].exp)
        PROVE  SessionsInv'
    <3> DEFINE w == [visit[v] EXCEPT !.at = to]
    <3>1. w \in VisitRows /\ w.at = to /\ w.for = t /\ w.late = visit[v].late
      BY <1>1 DEF VisitRows
    <3>2. visit' = [visit EXCEPT ![v] = w]  BY <2>3 DEF At
    <3>3. visit[v].late => t \in signedOut  BY <2>1 DEF VisitHonest
    <3>4. token[t].exp \in Int  BY <1>1, <2>1 DEF TokenRows
    <3>5. to = "cleared" /\ visit[v].late => second >= token[t].exp
      BY <1>1, <2>3, <3>3, <3>4 DEF KnownRevoked, Out
    <3> HIDE DEF w
    <3>6. QED  BY <1>1, <2>1, <3>1, <3>2, <3>3, <3>5, VisitMoves
  <2>4. QED  BY <1>8, <2>2, <2>3 DEF IsRevoked
<1>9. ASSUME NEW v \in Replicas, RememberRevoked(v) \/ Answer(v) \/ RestartReplica(v)
      PROVE  SessionsInv'
  BY <1>1, <1>9, VisitEnds DEF RememberRevoked, Answer, RestartReplica
<1>10. ASSUME NEW v \in Replicas, ReadPerson(v) PROVE SessionsInv'
  <2>1. visit[v].at = "cleared" /\ UNCHANGED <<second, person, token, revoked, signedOut>>
        /\ VisitHonest(v)
    BY <1>1, <1>10 DEF ReadPerson
  <2>2. CASE Done(v)  BY <1>1, <2>1, <2>2, VisitEnds
  <2>3. CASE visit' = [visit EXCEPT ![v].at = "served", ![v].password = person.password]
    <3> DEFINE w == [visit[v] EXCEPT !.at = "served", !.password = person.password]
    <3>1. w \in VisitRows /\ w.at = "served" /\ w.for = visit[v].for /\ w.late = visit[v].late
      BY <1>1 DEF VisitRows
    <3>2. visit' = [visit EXCEPT ![v] = w]  BY <1>1, <2>3
    <3> HIDE DEF w
    <3>3. QED  BY <1>1, <2>1, <3>1, <3>2, VisitMoves DEF VisitHonest
  <2>4. QED  BY <1>10, <2>2, <2>3 DEF ReadPerson
<1>11. ASSUME NEW v \in Replicas, Revoke(v) PROVE SessionsInv'
  <2>1. visit[v].at = "leaving" /\ UNCHANGED <<second, person, token, signedOut>> /\ VisitHonest(v)
    BY <1>1, <1>11 DEF Revoke
  <2>2. CASE Done(v) /\ UNCHANGED revoked  BY <1>1, <2>1, <2>2, VisitEnds
  <2>3. CASE At(v, "leaving", "left") /\ revoked' = revoked \cup {visit[v].for}
    <3> DEFINE w == [visit[v] EXCEPT !.at = "left"]
    <3>1. w \in VisitRows /\ w.at = "left" /\ w.for = visit[v].for  BY <1>1 DEF VisitRows
    <3>2. visit' = [visit EXCEPT ![v] = w]  BY <2>3 DEF At
    <3> HIDE DEF w
    <3>3. QED  BY <1>1, <2>1, <2>3, <3>1, <3>2, VisitMoves DEF VisitHonest
  <2>4. QED  BY <1>11, <2>2, <2>3 DEF Revoke
<1>12. ASSUME NEW v \in Replicas, LeftAnswered(v) PROVE SessionsInv'
  <2>1. visit[v].at = "left" /\ Done(v) /\ UNCHANGED <<second, person, token, revoked>>
        /\ signedOut' = signedOut \cup {visit[v].for} /\ VisitHonest(v)
    BY <1>1, <1>12 DEF LeftAnswered
  <2>2. visit' \in [Replicas -> VisitRows]  BY <1>1, <2>1 DEF Done, NoVisit, VisitRows
  <2>3. \A t \in signedOut' : t \in Tokens /\ token'[t].at = "signed" /\ Out(t)'
    BY <1>1, <2>1 DEF VisitHonest, Out
  <2>4. ASSUME NEW u \in Replicas PROVE VisitHonest(u)'
    <3>1. CASE u = v  BY <1>1, <2>1, <3>1 DEF Done, NoVisit, VisitHonest
    <3>2. CASE u # v
      <4>1. visit'[u] = visit[u] /\ VisitHonest(u)  BY <1>1, <2>1, <3>2 DEF Done
      <4>2. QED  BY <2>1, <4>1 DEF VisitHonest, Out
    <3>3. QED  BY <3>1, <3>2
  <2>5. QED  BY <1>1, <2>1, <2>2, <2>3, <2>4 DEF SessionsInv
<1>13. ASSUME NEW v \in Replicas, CheckOldPassword(v) \/ WritePassword(v) PROVE SessionsInv'
  <2>1. CASE CheckOldPassword(v)
    <3> DEFINE w == [visit[v] EXCEPT !.at = "change"]
    <3>1. w \in VisitRows /\ w.at = "change"  BY <1>1 DEF VisitRows
    <3>2. visit' = [visit EXCEPT ![v] = w] /\ UNCHANGED <<second, person, token, revoked, signedOut>>
      BY <2>1 DEF CheckOldPassword, At
    <3> HIDE DEF w
    <3>3. QED  BY <1>1, <3>1, <3>2, VisitMoves
  <2>2. CASE WritePassword(v)
    <3>0. PICK password \in Int : password = person.password + 1  BY <1>1
    <3> DEFINE w == [visit[v] EXCEPT !.at = "changed", !.password = password]
    <3>1. w \in VisitRows /\ w.at = "changed"  BY <1>1 DEF VisitRows
    <3>2. visit' = [visit EXCEPT ![v].at = "changed", ![v].password = password]
      BY <2>2, <3>0 DEF WritePassword
    <3>3. visit' = [visit EXCEPT ![v] = w]  BY <1>1, <3>2
    <3>4. UNCHANGED <<second, token, revoked, signedOut>> /\ NewPassword
      BY <2>2 DEF WritePassword
    <3>5. person' \in PersonRows  BY <1>1, <3>4, PasswordIsSet
    <3> HIDE DEF w
    <3>6. QED  BY <3>1, <3>3, <3>4, <3>5, VisitMoves
  <2>3. QED  BY <1>13, <2>1, <2>2
<1>14. CASE AdminEditsPerson
  <2>1. person' \in PersonRows  BY <1>1, <1>14, PasswordIsSet DEF AdminEditsPerson, PersonRows
  <2>2. QED  BY <1>1, <1>14, <2>1, TokensMove DEF AdminEditsPerson
<1>15. ASSUME second' \in Int, second <= second', UNCHANGED <<person, token, signedOut, visit>>,
              \A t \in revoked \ revoked' : token[t].exp <= second
       PROVE  SessionsInv'
  <2>1. \A t \in Tokens : token[t].exp \in Int  BY <1>1 DEF TokenRows
  <2>2. \A t \in Tokens : Out(t) => Out(t)'  BY <1>1, <1>15, <2>1 DEF Out
  <2>3. ASSUME NEW v \in Replicas PROVE VisitHonest(v)'
    BY <1>1, <1>15, <2>1, <2>2 DEF VisitHonest
  <2>4. QED  BY <1>1, <1>15, <2>2, <2>3 DEF SessionsInv
<1>16. CASE CleanupRows  BY <1>1, <1>15, <1>16 DEF CleanupRows, Swept
<1>17. CASE SecondPasses  BY <1>1, <1>15, <1>17 DEF SecondPasses
<1>18. ASSUME NEW v \in Replicas, CleanupHot(v) PROVE SessionsInv'
  BY <1>1, <1>18, TokensMove DEF CleanupHot
<1>19. QED
  BY <1>2, <1>3, <1>4, <1>5, <1>6, <1>7, <1>8, <1>9, <1>10, <1>11, <1>12, <1>13, <1>14, <1>16,
     <1>17, <1>18
  DEF SessionsNext

LEMMA OutIsRefused == SessionsInv => LogoutLasts
BY DEF SessionsInv, VisitHonest, LogoutLasts

-----------------------------------------------------------------------------
(* The agent programme.                                                    *)

\* A request in review knows whose application it read, for which tier, and what became
\* of it, unless another read it as well.
DeskKnows(d) ==
    LET q == desk[d] IN
    q.at \in {"reviewed", "saved"} =>
       /\ q.what \in Applications /\ application[q.what].status # "none"
       /\ application[q.what].who = q.who /\ application[q.what].tier = q.tier
       /\ q.at = "reviewed" => q.what \in rivals \/ application[q.what].status = "pending"
       /\ q.at = "saved" => q.what \in rivals \/ application[q.what].status = "approved"

InReview(d) == desk[d].at \in {"reviewed", "saved"}
RivalsKnown ==
    \A d, e \in Desks : d # e /\ InReview(d) /\ InReview(e) /\ desk[d].what = desk[e].what
                           => desk[d].what \in rivals

BindingsBacked == \A u \in Partners : partner[u].bound = "none" \/ Reviewed(u, partner[u].bound)

Applying(u) == {d \in Desks : desk[d].at = "counted" /\ desk[d].who = u}
WaitingBounded ==
    \A u \in Partners : Cardinality(Pending(u)) + Cardinality(Applying(u)) <= Cardinality(Desks)

AgentInv ==
    /\ AgentTypeOK /\ (\A d \in Desks : DeskKnows(d)) /\ RivalsKnown
    /\ BindingsBacked /\ WaitingBounded

LEMMA WaitingSets ==
  ASSUME NEW u
  PROVE  /\ IsFiniteSet(Pending(u)) /\ Cardinality(Pending(u)) \in Nat
         /\ IsFiniteSet(Applying(u)) /\ Cardinality(Applying(u)) \in Nat
         /\ IsFiniteSet(Pending(u)') /\ Cardinality(Pending(u)') \in Nat
         /\ IsFiniteSet(Applying(u)') /\ Cardinality(Applying(u)') \in Nat
         /\ Cardinality(Applying(u)') <= Cardinality(Desks) /\ Cardinality(Desks) \in Nat
<1>1. Pending(u) \in SUBSET Applications /\ Pending(u)' \in SUBSET Applications  BY DEF Pending
<1>2. Applying(u) \in SUBSET Desks /\ Applying(u)' \in SUBSET Desks  BY DEF Applying
<1>3. QED  BY <1>1, <1>2, FS_Subset, FS_CardinalityType, AgentProgramAssumption

LEMMA NoMoreWait ==
  ASSUME WaitingBounded, NEW u \in Partners,
         Pending(u)' \subseteq Pending(u), Applying(u)' \subseteq Applying(u)
  PROVE  Cardinality(Pending(u)') + Cardinality(Applying(u)') <= Cardinality(Desks)
<1>1. Cardinality(Pending(u)') <= Cardinality(Pending(u))  BY WaitingSets, FS_Subset
<1>2. Cardinality(Applying(u)') <= Cardinality(Applying(u))  BY WaitingSets, FS_Subset
<1>3. Cardinality(Pending(u)) + Cardinality(Applying(u)) <= Cardinality(Desks)  BY DEF WaitingBounded
<1>4. QED  BY <1>1, <1>2, <1>3, WaitingSets

LEMMA AgentStart == AgentInit => AgentInv
<1> SUFFICES ASSUME AgentInit PROVE AgentInv  OBVIOUS
<1>1. AgentTypeOK
  BY AgentProgramAssumption DEF AgentInit, AgentTypeOK, NoTier, NoApplication, FreeDesk
<1>2. (\A d \in Desks : DeskKnows(d)) /\ RivalsKnown /\ BindingsBacked
  BY DEF AgentInit, DeskKnows, RivalsKnown, InReview, BindingsBacked, FreeDesk
<1>3. ASSUME NEW u \in Partners
      PROVE  Cardinality(Pending(u)) + Cardinality(Applying(u)) <= Cardinality(Desks)
  <2>1. Pending(u) = {} /\ Applying(u) = {}
    BY DEF AgentInit, Pending, Applying, NoApplication, FreeDesk
  <2>2. Cardinality(Pending(u)) = 0 /\ Cardinality(Applying(u)) = 0  BY <2>1, FS_EmptySet
  <2>3. QED  BY <2>2, WaitingSets
<1>4. QED  BY <1>1, <1>2, <1>3 DEF AgentInv, WaitingBounded

TierRows == [life : {"none", "here", "gone"}, min : Nat]
PartnerRows == [balance : Thresholds, bound : Tiers \cup {"none"}]
ApplicationRows == [who : Partners \cup {"none"}, tier : Tiers \cup {"none"},
                    status : {"none", "pending", "approved", "rejected"}]
DeskRows == [at : {"idle", "counted", "reviewed", "saved", "rebuilding"},
             who : Partners \cup {"none"}, what : Applications \cup {"none"},
             tier : Tiers \cup {"none"}, approve : BOOLEAN]

AgentRows ==
    /\ manual \in BOOLEAN /\ rivals \subseteq Applications
    /\ tier \in [Tiers -> TierRows] /\ partner \in [Partners -> PartnerRows]
    /\ application \in [Applications -> ApplicationRows] /\ desk \in [Desks -> DeskRows]

LEMMA AgentTypes == /\ AgentTypeOK => AgentRows
                    /\ AgentRows' => AgentTypeOK'
BY DEF AgentTypeOK, AgentRows, TierRows, PartnerRows, ApplicationRows, DeskRows

LEMMA FreeDeskTyped == FreeDesk \in DeskRows
BY DEF FreeDesk, DeskRows

LEMMA AgentTyped == AgentTypeOK /\ [AgentNext]_agentVars => AgentTypeOK'
<1> SUFFICES ASSUME AgentTypeOK, [AgentNext]_agentVars PROVE AgentTypeOK'  OBVIOUS
<1>1. /\ manual \in BOOLEAN /\ rivals \subseteq Applications
      /\ tier \in [Tiers -> TierRows] /\ partner \in [Partners -> PartnerRows]
      /\ application \in [Applications -> ApplicationRows] /\ desk \in [Desks -> DeskRows]
  BY AgentTypes DEF AgentRows
<1>2. ASSUME NEW d \in Desks, NEW w \in DeskRows, desk' = [desk EXCEPT ![d] = w]
      PROVE  desk' \in [Desks -> DeskRows]
  BY <1>1, <1>2
<1> USE DEF AgentRows
<1>3. ASSUME NEW d \in Desks, DropTiers(d) PROVE AgentRows'
  <2>1. [NoTier EXCEPT !.life = "gone"] \in TierRows  BY DEF NoTier, TierRows
  <2>2. tier' \in [Tiers -> TierRows]  BY <1>1, <1>3, <2>1 DEF DropTiers
  <2>3. [desk[d] EXCEPT !.at = "rebuilding"] \in DeskRows  BY <1>1 DEF DeskRows
  <2>4. desk' = [desk EXCEPT ![d] = [desk[d] EXCEPT !.at = "rebuilding"]]
        /\ UNCHANGED <<manual, partner, application, rivals>>
    BY <1>1, <1>3 DEF DropTiers
  <2>5. QED  BY <1>1, <1>2, <2>2, <2>3, <2>4
<1>4. ASSUME NEW d \in Desks, NEW t \in Tiers, NEW min \in Thresholds, MakeTier(d, t, min)
      PROVE  AgentRows'
  <2>1. [life |-> "here", min |-> min] \in TierRows  BY AgentProgramAssumption DEF TierRows
  <2>2. QED  BY <1>1, <1>4, <2>1 DEF MakeTier
<1>5. ASSUME NEW d \in Desks, NEW u \in Partners, NEW t \in Tiers, BeginApply(d, u, t) PROVE AgentRows'
  <2>1. [FreeDesk EXCEPT !.at = "counted", !.who = u, !.tier = t] \in DeskRows
    BY FreeDeskTyped DEF DeskRows
  <2>2. QED  BY <1>1, <1>2, <1>5, <2>1 DEF BeginApply
<1>6. ASSUME NEW d \in Desks, NEW a \in Applications, InsertApplication(d, a) PROVE AgentRows'
  <2>1. [who |-> desk[d].who, tier |-> desk[d].tier, status |-> "pending"] \in ApplicationRows
    BY <1>1 DEF ApplicationRows, DeskRows
  <2>2. QED  BY <1>1, <1>2, <1>6, <2>1, FreeDeskTyped DEF InsertApplication, Clears
<1>7. ASSUME NEW d \in Desks, NEW a \in Applications, NEW approve \in BOOLEAN,
             BeginReview(d, a, approve)
      PROVE  AgentRows'
  <2>1. [at |-> "reviewed", who |-> application[a].who, what |-> a,
         tier |-> application[a].tier, approve |-> approve] \in DeskRows
    BY <1>1 DEF ApplicationRows, DeskRows
  <2>2. QED  BY <1>1, <1>2, <1>7, <2>1 DEF BeginReview
<1>8. ASSUME NEW d \in Desks, SaveReview(d) PROVE AgentRows'
  <2>1. PICK status \in {"approved", "rejected"} :
            application' = [application EXCEPT ![desk[d].what].status = status]
    BY <1>8 DEF SaveReview
  <2>2. application' \in [Applications -> ApplicationRows]  BY <1>1, <2>1 DEF ApplicationRows
  <2>3. [desk[d] EXCEPT !.at = "saved"] \in DeskRows  BY <1>1 DEF DeskRows
  <2>4. desk' = [desk EXCEPT ![d] = FreeDesk]
        \/ desk' = [desk EXCEPT ![d] = [desk[d] EXCEPT !.at = "saved"]]
    BY <1>1, <1>8 DEF SaveReview, Clears
  <2>5. desk' \in [Desks -> DeskRows]  BY <1>2, <2>3, <2>4, FreeDeskTyped
  <2>6. QED  BY <1>1, <1>8, <2>2, <2>5 DEF SaveReview
<1>9. ASSUME NEW d \in Desks, BindTier(d) PROVE AgentRows'
  <2>1. desk[d].tier \in Tiers \cup {"none"}  BY <1>1 DEF DeskRows
  <2>2. partner' = [partner EXCEPT ![desk[d].who].bound = desk[d].tier]  BY <1>9 DEF BindTier
  <2>3. partner' \in [Partners -> PartnerRows]  BY <1>1, <2>1, <2>2 DEF PartnerRows
  <2>4. QED  BY <1>1, <1>2, <1>9, <2>3, FreeDeskTyped DEF BindTier, Clears
<1>10. ASSUME NEW d \in Desks, DeskEnds(d) PROVE AgentRows'
  BY <1>1, <1>2, <1>10, FreeDeskTyped DEF DeskEnds, Clears
<1>11. ASSUME NEW u \in Partners, NEW balance \in Thresholds, BalanceMoves(u, balance) PROVE AgentRows'
  <2>1. partner' \in [Partners -> PartnerRows]  BY <1>1, <1>11 DEF BalanceMoves, PartnerRows
  <2>2. QED  BY <1>1, <1>11, <2>1 DEF BalanceMoves
<1>12. ASSUME NEW m \in BOOLEAN, SetMode(m) PROVE AgentRows'
  BY <1>1, <1>12 DEF SetMode
<1>13. ASSUME UNCHANGED agentVars PROVE AgentRows'  BY <1>1, <1>13 DEF agentVars
<1> HIDE DEF AgentRows
<1>14. AgentRows'
  BY <1>3, <1>4, <1>5, <1>6, <1>7, <1>8, <1>9, <1>10, <1>11, <1>12, <1>13 DEF AgentNext
<1>15. QED  BY <1>14, AgentTypes

\* A step that moves one request where it reviews nothing, and the rows of nobody.
LEMMA DeskMoves ==
  ASSUME AgentInv, AgentTypeOK', NEW d \in Desks, NEW w, desk' = [desk EXCEPT ![d] = w],
         w.at \notin {"counted", "reviewed", "saved"},
         UNCHANGED <<application, rivals>>,
         \A u \in Partners : partner'[u].bound = partner[u].bound \/ Reviewed(u, partner'[u].bound)
  PROVE  AgentInv'
<1>1. \A e \in Desks : DeskKnows(e)'
  BY DEF AgentInv, AgentTypeOK, DeskKnows
<1>2. RivalsKnown'  BY DEF AgentInv, AgentTypeOK, RivalsKnown, InReview
<1>3. BindingsBacked'  BY DEF AgentInv, AgentTypeOK, BindingsBacked, Reviewed
<1>4. ASSUME NEW u \in Partners
      PROVE  Cardinality(Pending(u)') + Cardinality(Applying(u)') <= Cardinality(Desks)
  <2>1. Pending(u)' \subseteq Pending(u) /\ Applying(u)' \subseteq Applying(u)
    BY DEF AgentInv, AgentTypeOK, Pending, Applying
  <2>2. QED  BY <2>1, NoMoreWait DEF AgentInv
<1>5. QED  BY <1>1, <1>2, <1>3, <1>4 DEF AgentInv, WaitingBounded

\* A step that moves neither a request nor an application, and binds nobody.
LEMMA DesksStand ==
  ASSUME AgentInv, AgentTypeOK', UNCHANGED <<desk, application, rivals>>,
         \A u \in Partners : partner'[u].bound = partner[u].bound
  PROVE  AgentInv'
<1>1. (\A e \in Desks : DeskKnows(e)') /\ RivalsKnown' /\ BindingsBacked'
  BY DEF AgentInv, DeskKnows, RivalsKnown, InReview, BindingsBacked, Reviewed
<1>2. \A u \in Partners : Pending(u)' = Pending(u) /\ Applying(u)' = Applying(u)
  BY DEF Pending, Applying
<1>3. QED  BY <1>1, <1>2 DEF AgentInv, WaitingBounded

LEMMA AgentStep == AgentInv /\ [AgentNext]_agentVars => AgentInv'
<1> SUFFICES ASSUME AgentInv, [AgentNext]_agentVars PROVE AgentInv'  OBVIOUS
<1>1. AgentTypeOK'  BY AgentTyped DEF AgentInv
<1>2. /\ application \in [Applications -> [who : Partners \cup {"none"}, tier : Tiers \cup {"none"},
                                           status : {"none", "pending", "approved", "rejected"}]]
      /\ desk \in [Desks -> [at : {"idle", "counted", "reviewed", "saved", "rebuilding"},
                             who : Partners \cup {"none"}, what : Applications \cup {"none"},
                             tier : Tiers \cup {"none"}, approve : BOOLEAN]]
      /\ partner \in [Partners -> [balance : Thresholds, bound : Tiers \cup {"none"}]]
  BY DEF AgentInv, AgentTypeOK
<1>3. (\A d \in Desks : DeskKnows(d)) /\ RivalsKnown /\ BindingsBacked  BY DEF AgentInv
<1>4. FreeDesk.at = "idle"  BY DEF FreeDesk
<1>5. ASSUME NEW d \in Desks, DropTiers(d) PROVE AgentInv'
  <2> DEFINE w == [desk[d] EXCEPT !.at = "rebuilding"]
  <2>1. desk' = [desk EXCEPT ![d] = w] /\ w.at = "rebuilding"  BY <1>2, <1>5 DEF DropTiers
  <2> HIDE DEF w
  <2>2. QED  BY <1>1, <1>5, <2>1, DeskMoves DEF DropTiers
<1>6. ASSUME NEW d \in Desks, NEW t \in Tiers, NEW min \in Thresholds, MakeTier(d, t, min)
      PROVE  AgentInv'
  BY <1>1, <1>6, DesksStand DEF MakeTier
<1>7. ASSUME NEW m \in BOOLEAN, SetMode(m) PROVE AgentInv'
  BY <1>1, <1>7, DesksStand DEF SetMode
<1>8. ASSUME NEW d \in Desks, NEW u \in Partners, NEW t \in Tiers, BeginApply(d, u, t)
      PROVE  AgentInv'
  <2> DEFINE w == [FreeDesk EXCEPT !.at = "counted", !.who = u, !.tier = t]
  <2>0. w.at = "counted" /\ w.who = u  BY FreeDeskTyped DEF DeskRows
  <2>1. desk' = [desk EXCEPT ![d] = w] /\ w.at = "counted" /\ w.who = u
    BY <1>8, <2>0 DEF BeginApply
  <2> HIDE DEF w
  <2>2. Pending(u) = {} /\ UNCHANGED <<partner, application, rivals>>  BY <1>8 DEF BeginApply
  <2>3. (\A e \in Desks : DeskKnows(e)') /\ RivalsKnown' /\ BindingsBacked'
    BY <1>2, <1>3, <2>1, <2>2 DEF DeskKnows, RivalsKnown, InReview, BindingsBacked, Reviewed
  <2>4. ASSUME NEW v \in Partners
        PROVE  Cardinality(Pending(v)') + Cardinality(Applying(v)') <= Cardinality(Desks)
    <3>1. Pending(v)' = Pending(v)  BY <2>2 DEF Pending
    <3>2. CASE v = u
      <4>1. Cardinality(Pending(u)') = 0  BY <2>2, <3>1, <3>2, FS_EmptySet
      <4>2. QED  BY <3>2, <4>1, WaitingSets
    <3>3. CASE v # u
      <4>1. Applying(v)' \subseteq Applying(v)  BY <1>2, <2>1, <3>3 DEF Applying
      <4>2. QED  BY <3>1, <4>1, NoMoreWait DEF AgentInv
    <3>4. QED  BY <3>2, <3>3
  <2>5. QED  BY <1>1, <2>3, <2>4 DEF AgentInv, WaitingBounded
<1>9. ASSUME NEW d \in Desks, NEW a \in Applications, InsertApplication(d, a) PROVE AgentInv'
  <2>1. /\ application[a].status = "none" /\ application[a].who = "none"
        /\ UNCHANGED <<partner, rivals>> /\ desk[d].at = "counted"
        /\ desk' = [desk EXCEPT ![d] = FreeDesk]
        /\ application' = [application EXCEPT ![a] =
              [who |-> desk[d].who, tier |-> desk[d].tier, status |-> "pending"]]
    BY <1>9 DEF InsertApplication, NoApplication, Clears
  <2>2. ASSUME NEW e \in Desks PROVE DeskKnows(e)'
    <3>1. DeskKnows(e)  BY <1>3
    <3>2. CASE e = d  BY <1>2, <1>4, <2>1, <3>2 DEF DeskKnows
    <3>3. CASE e # d
      <4>1. desk'[e] = desk[e]  BY <1>2, <2>1, <3>3
      <4>2. QED  BY <1>2, <2>1, <3>1, <4>1 DEF DeskKnows
    <3>4. QED  BY <3>2, <3>3
  <2>3. RivalsKnown'  BY <1>2, <1>3, <1>4, <2>1 DEF RivalsKnown, InReview
  <2>4. ASSUME NEW u \in Partners, partner[u].bound # "none" PROVE Reviewed(u, partner[u].bound)'
    <3>1. PICK e \in Applications : /\ application[e].who = u
                                    /\ application[e].tier = partner[u].bound
                                    /\ application[e].status = "approved" \/ e \in rivals
      BY <1>3, <2>4 DEF BindingsBacked, Reviewed
    <3>2. e # a  BY <2>1, <3>1, AgentProgramAssumption
    <3>3. application'[e] = application[e]  BY <1>2, <2>1, <3>2
    <3>4. QED  BY <2>1, <3>1, <3>3 DEF Reviewed
  <2>5. ASSUME NEW u \in Partners
        PROVE  Cardinality(Pending(u)') + Cardinality(Applying(u)') <= Cardinality(Desks)
    <3>1. CASE u = desk[d].who
      <4>1. Pending(u)' = Pending(u) \cup {a} /\ a \notin Pending(u)
        BY <1>2, <2>1, <3>1 DEF Pending
      <4>2. Applying(u)' = Applying(u) \ {d} /\ d \in Applying(u)
        BY <1>2, <1>4, <2>1, <3>1 DEF Applying
      <4>3. Cardinality(Pending(u)') = Cardinality(Pending(u)) + 1
        BY <4>1, WaitingSets, FS_AddElement
      <4>4. Cardinality(Applying(u)') = Cardinality(Applying(u)) - 1
        BY <4>2, WaitingSets, FS_RemoveElement
      <4>5. Cardinality(Pending(u)) + Cardinality(Applying(u)) <= Cardinality(Desks)
        BY DEF AgentInv, WaitingBounded
      <4>6. QED  BY <4>3, <4>4, <4>5, WaitingSets
    <3>2. CASE u # desk[d].who
      <4>1. Pending(u)' \subseteq Pending(u) /\ Applying(u)' \subseteq Applying(u)
        BY <1>2, <1>4, <2>1, <3>2 DEF Pending, Applying
      <4>2. QED  BY <4>1, NoMoreWait DEF AgentInv
    <3>3. QED  BY <3>1, <3>2
  <2>6. BindingsBacked'  BY <2>1, <2>4 DEF BindingsBacked
  <2>7. QED  BY <1>1, <2>2, <2>3, <2>5, <2>6 DEF AgentInv, WaitingBounded
<1>10. ASSUME NEW d \in Desks, NEW a \in Applications, NEW approve \in BOOLEAN,
              BeginReview(d, a, approve)
       PROVE  AgentInv'
  <2> DEFINE w == [at |-> "reviewed", who |-> application[a].who, what |-> a,
                   tier |-> application[a].tier, approve |-> approve]
  <2>1. /\ w.at = "reviewed" /\ w.who = application[a].who /\ w.what = a
        /\ w.tier = application[a].tier
    OBVIOUS
  <2>2. /\ desk[d].at = "idle" /\ application[a].status = "pending"
        /\ desk' = [desk EXCEPT ![d] = w] /\ UNCHANGED <<partner, application>>
    BY <1>10 DEF BeginReview, Reviewable
  <2> HIDE DEF w
  <2>3. rivals \subseteq rivals'  BY <1>10 DEF BeginReview
  <2>4. (\E e \in Desks : InReview(e) /\ desk[e].what = a) => a \in rivals'
    BY <1>10 DEF BeginReview, InReview
  <2>5. ASSUME NEW e \in Desks PROVE DeskKnows(e)'
    <3>1. CASE e = d  BY <1>2, <2>1, <2>2, <3>1 DEF DeskKnows
    <3>2. CASE e # d
      <4>1. desk'[e] = desk[e] /\ DeskKnows(e)  BY <1>2, <1>3, <2>2, <3>2
      <4>2. QED  BY <2>2, <2>3, <4>1 DEF DeskKnows
    <3>3. QED  BY <3>1, <3>2
  <2>6. RivalsKnown'
    BY <1>2, <1>3, <2>1, <2>2, <2>3, <2>4 DEF RivalsKnown, InReview
  <2>7. BindingsBacked'  BY <1>3, <2>2, <2>3 DEF BindingsBacked, Reviewed
  <2>8. ASSUME NEW u \in Partners
        PROVE  Cardinality(Pending(u)') + Cardinality(Applying(u)') <= Cardinality(Desks)
    <3>1. Pending(u)' \subseteq Pending(u) /\ Applying(u)' \subseteq Applying(u)
      BY <1>2, <2>1, <2>2 DEF Pending, Applying
    <3>2. QED  BY <3>1, NoMoreWait DEF AgentInv
  <2>9. QED  BY <1>1, <2>5, <2>6, <2>7, <2>8 DEF AgentInv, WaitingBounded
<1>11. ASSUME NEW d \in Desks, SaveReview(d) PROVE AgentInv'
  <2> DEFINE a == desk[d].what
  <2>1. /\ desk[d].at = "reviewed" /\ UNCHANGED <<partner, rivals>> /\ DeskKnows(d)
        /\ a \in Applications /\ (a \in rivals \/ application[a].status = "pending")
    BY <1>3, <1>11 DEF SaveReview, DeskKnows
  <2>2. /\ \A e \in Applications \ {a} : application'[e] = application[e]
        /\ application'[a].who = application[a].who /\ application'[a].tier = application[a].tier
        /\ application'[a].status = IF desk[d].approve THEN "approved" ELSE "rejected"
    BY <1>2, <1>11, <2>1 DEF SaveReview
  <2>3. PICK w : /\ desk' = [desk EXCEPT ![d] = w]
                 /\ \/ /\ desk[d].approve /\ w.at = "saved"
                       /\ w.who = desk[d].who /\ w.what = a /\ w.tier = desk[d].tier
                    \/ w.at = "idle"
    <3>1. CASE desk[d].approve
      <4> DEFINE w == [desk[d] EXCEPT !.at = "saved"]
      <4>1. desk' = [desk EXCEPT ![d] = w]  BY <1>2, <1>11, <3>1 DEF SaveReview
      <4>2. w.at = "saved" /\ w.who = desk[d].who /\ w.what = a /\ w.tier = desk[d].tier  BY <1>2
      <4> HIDE DEF w
      <4>3. QED  BY <3>1, <4>1, <4>2
    <3>2. CASE ~desk[d].approve  BY <1>4, <1>11, <3>2 DEF SaveReview, Clears
    <3>3. QED  BY <3>1, <3>2
  <2>4. \A e \in Desks : e # d /\ InReview(e) /\ desk[e].what = a => a \in rivals
    BY <1>3, <2>1 DEF RivalsKnown, InReview
  <2>5. ASSUME NEW e \in Desks PROVE DeskKnows(e)'
    <3>1. CASE e = d
      <4>1. desk'[e] = w  BY <1>2, <2>3, <3>1
      <4>2. QED  BY <2>1, <2>2, <2>3, <4>1 DEF DeskKnows
    <3>2. CASE e # d
      <4>1. desk'[e] = desk[e] /\ DeskKnows(e)  BY <1>2, <1>3, <2>3, <3>2
      <4>2. CASE InReview(e) /\ desk[e].what = a
        BY <2>1, <2>2, <2>4, <3>2, <4>1, <4>2 DEF DeskKnows
      <4>3. CASE ~(InReview(e) /\ desk[e].what = a)
        BY <2>1, <2>2, <4>1, <4>3 DEF DeskKnows, InReview
      <4>4. QED  BY <4>2, <4>3
    <3>3. QED  BY <3>1, <3>2
  <2>6. RivalsKnown'  BY <1>2, <1>3, <2>1, <2>3 DEF RivalsKnown, InReview
  <2>7. ASSUME NEW u \in Partners, partner[u].bound # "none" PROVE Reviewed(u, partner[u].bound)'
    <3>1. PICK e \in Applications : /\ application[e].who = u
                                    /\ application[e].tier = partner[u].bound
                                    /\ application[e].status = "approved" \/ e \in rivals
      BY <1>3, <2>7 DEF BindingsBacked, Reviewed
    <3>2. e = a => e \in rivals  BY <2>1, <3>1
    <3>3. QED  BY <2>1, <2>2, <3>1, <3>2 DEF Reviewed
  <2>8. BindingsBacked'  BY <2>1, <2>7 DEF BindingsBacked
  <2>9. ASSUME NEW u \in Partners
        PROVE  Cardinality(Pending(u)') + Cardinality(Applying(u)') <= Cardinality(Desks)
    <3>1. Pending(u)' \subseteq Pending(u)  BY <2>2 DEF Pending
    <3>2. Applying(u)' \subseteq Applying(u)  BY <1>2, <2>3 DEF Applying
    <3>3. QED  BY <3>1, <3>2, NoMoreWait DEF AgentInv
  <2>10. QED  BY <1>1, <2>5, <2>6, <2>8, <2>9 DEF AgentInv, WaitingBounded
<1>12. ASSUME NEW d \in Desks, BindTier(d) PROVE AgentInv'
  <2>1. /\ desk[d].at = "saved" /\ desk' = [desk EXCEPT ![d] = FreeDesk] /\ DeskKnows(d)
        /\ partner' = [partner EXCEPT ![desk[d].who].bound = desk[d].tier]
        /\ UNCHANGED <<application, rivals>>
    BY <1>3, <1>12 DEF BindTier, Clears
  <2>2. ASSUME NEW u \in Partners
        PROVE  partner'[u].bound = partner[u].bound \/ Reviewed(u, partner'[u].bound)
    <3>1. CASE u = desk[d].who
      <4>1. partner'[u].bound = desk[d].tier  BY <1>2, <2>1, <3>1
      <4>2. Reviewed(u, desk[d].tier)  BY <2>1, <3>1 DEF DeskKnows, Reviewed
      <4>3. QED  BY <4>1, <4>2
    <3>2. CASE u # desk[d].who  BY <1>2, <2>1, <3>2
    <3>3. QED  BY <3>1, <3>2
  <2>3. QED  BY <1>1, <1>4, <2>1, <2>2, DeskMoves
<1>13. ASSUME NEW d \in Desks, DeskEnds(d) PROVE AgentInv'
  BY <1>1, <1>4, <1>13, DeskMoves DEF DeskEnds, Clears
<1>14. ASSUME NEW u \in Partners, NEW balance \in Thresholds, BalanceMoves(u, balance)
       PROVE  AgentInv'
  <2>1. \A v \in Partners : partner'[v].bound = partner[v].bound
    BY <1>2, <1>14 DEF BalanceMoves
  <2>2. QED  BY <1>1, <1>14, <2>1, DesksStand DEF BalanceMoves
<1>15. CASE UNCHANGED agentVars  BY <1>1, <1>15, DesksStand DEF agentVars
<1>16. QED
  BY <1>5, <1>6, <1>7, <1>8, <1>9, <1>10, <1>11, <1>12, <1>13, <1>14, <1>15 DEF AgentNext

LEMMA TiersAreReviewed == AgentInv => BindingsReviewed
<1> SUFFICES ASSUME AgentInv PROVE BindingsReviewed  OBVIOUS
<1>1. ASSUME NEW u \in Partners, NEW t \in TierForUser(u)
      PROVE  Reviewed(u, t) \/ (~manual /\ partner[u].balance >= tier[t].min)
  <2>1. CASE partner[u].bound \in Open
    <3>1. t = partner[u].bound /\ t \in Tiers  BY <1>1, <2>1 DEF TierForUser, Open
    <3>2. QED  BY <3>1, AgentProgramAssumption DEF AgentInv, BindingsBacked
  <2>2. CASE partner[u].bound \notin Open
    BY <1>1, <2>2 DEF TierForUser, TierForBalance
  <2>3. QED  BY <2>1, <2>2
<1>2. QED  BY <1>1 DEF AgentInv, BindingsBacked, WaitingBounded, Applying, BindingsReviewed

-----------------------------------------------------------------------------
(* The lock of a login.                                                    *)

CountsRead ==
    /\ accountRec \in [failures : Int, lockedUntil : Int, lastFailure : Int]
    /\ clock \in Nat

\* A record that the sweep judged old was not locked when it was judged.
LocksRead ==
    /\ CountsRead /\ sourceRec.lockedUntil \in Int
    /\ attempt = [r \in Attempts |-> attempt[r]]
    /\ {sweeping.now, sweeping.lock} \subseteq Int /\ sweeping.now <= clock
    /\ sweeping.old => sweeping.now > sweeping.lock

LEMMA LocksStart == LoginGuardInit => LocksRead
BY DEF LoginGuardInit, LocksRead, CountsRead, NoRecord, NoSource, NotSweeping

\* The lock after a failure is no shorter.
LEMMA FailureExtends ==
  ASSUME CountsRead
  PROVE  /\ FailedAccount \in [failures : Int, lockedUntil : Int, lastFailure : Int]
         /\ FailedAccount.lockedUntil >= accountRec.lockedUntil
<1> DEFINE count == (IF clock - accountRec.lastFailure > AccountWindow THEN 0
                     ELSE accountRec.failures) + 1
           doubled == 2 ^ (count - AccountFailLimit)
           lock == IF doubled > MaxLock THEN MaxLock ELSE doubled
           until == accountRec.lockedUntil
           next == IF count >= AccountFailLimit THEN LockExtended(accountRec, count, lock) ELSE until
<1>1. FailedAccount = [failures |-> count, lastFailure |-> clock, lockedUntil |-> next]
  BY DEF FailedAccount
<1>2. accountRec.failures \in Int /\ until \in Int /\ accountRec.lastFailure \in Int /\ clock \in Int
  BY DEF CountsRead
<1>3. count \in Int
  <2>1. (IF clock - accountRec.lastFailure > AccountWindow THEN 0 ELSE accountRec.failures) \in Int
    BY <1>2
  <2>2. QED  BY <2>1
<1>4. AccountFailLimit \in Nat /\ MaxLock \in Nat  BY LoginGuardAssumption
<1>5. count >= AccountFailLimit => lock \in Int
  <2>0. SUFFICES ASSUME count >= AccountFailLimit PROVE lock \in Int  OBVIOUS
  <2> DEFINE n == count - AccountFailLimit
  <2>1. n \in Nat
    <3> HIDE DEF count
    <3> QED  BY <1>3, <1>4, <2>0
  <2>2. \A k \in Nat : 2 ^ k \in Int  OBVIOUS
  <2>3. 2 ^ n \in Int
    <3> HIDE DEF n
    <3> QED  BY <2>1, <2>2
  <2>4. doubled \in Int  BY <2>3
  <2> HIDE DEF doubled
  <2>5. QED  BY <1>4, <2>4
<1>6. next \in Int /\ next >= until
  <2> HIDE DEF count, lock, until
  <2>1. CASE count >= AccountFailLimit
    <3>1. clock + lock \in Int  BY <1>2, <1>5, <2>1
    <3>2. next = IF until > clock + lock THEN until ELSE clock + lock
      BY <2>1 DEF LockExtended, Longer, until
    <3>3. QED  BY <1>2, <3>1, <3>2 DEF until
  <2>2. CASE ~(count >= AccountFailLimit)
    BY <1>2, <2>2
  <2>3. QED  BY <2>1, <2>2
<1> HIDE DEF count, next
<1>7. FailedAccount.lockedUntil = next  BY <1>1
<1>8. QED  BY <1>1, <1>2, <1>3, <1>6, <1>7 DEF until

\* Nor is the source's.
LEMMA SourceExtends ==
  ASSUME LocksRead, NEW r \in Attempts
  PROVE  FailedSource(r).lockedUntil \in Int /\ FailedSource(r).lockedUntil >= sourceRec.lockedUntil
<1>1. sourceRec.lockedUntil \in Int /\ clock \in Int /\ IpLock \in Nat
  BY LoginGuardAssumption DEF LocksRead, CountsRead
<1>2. FailedSource(r).lockedUntil \in {sourceRec.lockedUntil, Longer(sourceRec.lockedUntil, clock + IpLock)}
  BY DEF FailedSource
<1>3. QED  BY <1>1, <1>2 DEF Longer

LEMMA LocksStep == LocksRead /\ [LoginGuardNext]_guardVars => LocksRead'
<1> SUFFICES ASSUME LocksRead, [LoginGuardNext]_guardVars PROVE LocksRead'  OBVIOUS
<1> USE DEF LocksRead, CountsRead
<1>1. CASE UNCHANGED <<accountRec, sourceRec, clock, attempt, sweeping>>  BY <1>1
<1>2. ASSUME NEW r \in Attempts,
             \/ EnterCheck(r) \/ LeaveCheck(r) \/ VerifyCaptcha(r) \/ CheckPassword(r)
      PROVE  LocksRead'
  <2>1. /\ UNCHANGED <<accountRec, sourceRec, clock, sweeping>>
        /\ \E at : attempt' = [attempt EXCEPT ![r] = at]
    BY <1>2 DEF EnterCheck, Enter, LeaveCheck, VerifyCaptcha, CheckPassword, Goto
  <2>2. QED  BY <2>1
<1>3. ASSUME NEW r \in Attempts, EnterFailure(r) PROVE LocksRead'
  BY <1>1, <1>3 DEF EnterFailure
<1>4. ASSUME NEW r \in Attempts, LeaveFailure(r) PROVE LocksRead'
  <2>1. /\ accountRec' = FailedAccount /\ sourceRec' = FailedSource(r)
        /\ UNCHANGED <<clock, sweeping>> /\ attempt' = [attempt EXCEPT ![r] = "done"]
    BY <1>4 DEF LeaveFailure, Goto
  <2>2. QED  BY <2>1, FailureExtends, SourceExtends
<1>5. ASSUME NEW r \in Attempts, RecordSuccess(r) PROVE LocksRead'
  BY <1>5 DEF RecordSuccess, Goto, NoRecord
<1>6. ASSUME NEW i \in Images, IssueCaptcha(i) \/ EvictCaptcha(i) PROVE LocksRead'
  BY <1>1, <1>6 DEF IssueCaptcha, EvictCaptcha
<1>7. CASE SwitchCaptcha  BY <1>1, <1>7 DEF SwitchCaptcha
<1>8. CASE StartSweep \/ JudgeSource
  BY <1>8 DEF StartSweep, JudgeSource, OldAccount, OldSource
<1>9. CASE SweepAccount \/ FinishSweep
  BY <1>9 DEF SweepAccount, FinishSweep, NotSweeping, NoRecord, NoSource
<1>10. CASE ClockTicks  BY <1>10 DEF ClockTicks
<1>11. CASE GuardRestarts  BY <1>11 DEF GuardRestarts, NotSweeping, NoRecord, NoSource
<1>12. CASE UNCHANGED guardVars  BY <1>1, <1>12 DEF guardVars
<1>13. QED
  BY <1>2, <1>3, <1>4, <1>5, <1>6, <1>7, <1>8, <1>9, <1>10, <1>11, <1>12 DEF LoginGuardNext

\* The steps that change a record.
LEMMA RecordsChange ==
  ASSUME LoginGuardNext \/ UNCHANGED guardVars
  PROVE  /\ \/ UNCHANGED accountRec
            \/ \E r \in Attempts : LeaveFailure(r) \/ RecordSuccess(r)
            \/ SweepAccount \/ GuardRestarts
         /\ \/ UNCHANGED sourceRec
            \/ \E r \in Attempts : LeaveFailure(r)
            \/ FinishSweep \/ GuardRestarts
<1>1. ASSUME NEW r \in Attempts,
             \/ EnterCheck(r) \/ LeaveCheck(r) \/ VerifyCaptcha(r) \/ CheckPassword(r) \/ EnterFailure(r)
      PROVE  UNCHANGED <<accountRec, sourceRec>>
  BY <1>1 DEF EnterCheck, LeaveCheck, VerifyCaptcha, CheckPassword, EnterFailure
<1>2. ASSUME NEW r \in Attempts, RecordSuccess(r) PROVE UNCHANGED sourceRec
  BY <1>2 DEF RecordSuccess
<1>3. ASSUME NEW i \in Images, IssueCaptcha(i) \/ EvictCaptcha(i) PROVE UNCHANGED <<accountRec, sourceRec>>
  BY <1>3 DEF IssueCaptcha, EvictCaptcha
<1>4. CASE StartSweep \/ JudgeSource \/ SwitchCaptcha \/ ClockTicks \/ UNCHANGED guardVars
  <2>1. UNCHANGED <<accountRec, sourceRec>>
    BY <1>4 DEF StartSweep, JudgeSource, SwitchCaptcha, ClockTicks, guardVars
  <2>2. QED  BY <2>1
<1>5. CASE SweepAccount  BY <1>5 DEF SweepAccount
<1>6. CASE FinishSweep  BY <1>6 DEF FinishSweep
<1>7. QED  BY <1>1, <1>2, <1>3, <1>4, <1>5, <1>6 DEF LoginGuardNext

LEMMA LocksAreKept ==
  LocksRead /\ [LoginGuardNext]_guardVars => LockStands
<1> SUFFICES ASSUME LocksRead, [LoginGuardNext]_guardVars PROVE LockStands  OBVIOUS
<1>0. /\ accountRec.lockedUntil \in Int /\ sourceRec.lockedUntil \in Int /\ clock \in Int
      /\ sweeping.now \in Int /\ sweeping.now <= clock
      /\ sweeping.old => sweeping.now > sweeping.lock
  BY DEF LocksRead, CountsRead
<1>1. ASSUME accountRec'.lockedUntil < accountRec.lockedUntil
      PROVE  \/ clock > accountRec.lockedUntil
             \/ \E r \in Attempts : attempt[r] = "success" /\ attempt'[r] = "done"
             \/ SweepAccount /\ LockedSinceJudged("account", accountRec.lockedUntil)
             \/ GuardRestarts
  <2>1. accountRec' # accountRec  BY <1>0, <1>1
  <2>2. ASSUME NEW r \in Attempts, LeaveFailure(r) PROVE FALSE
    <3>1. accountRec' = FailedAccount  BY <2>2 DEF LeaveFailure
    <3>2. FailedAccount.lockedUntil \in Int /\ FailedAccount.lockedUntil >= accountRec.lockedUntil
      BY FailureExtends DEF LocksRead
    <3>3. QED  BY <1>0, <1>1, <3>1, <3>2
  <2>3. ASSUME NEW r \in Attempts, RecordSuccess(r)
        PROVE  attempt[r] = "success" /\ attempt'[r] = "done"
    BY <2>3 DEF RecordSuccess, Goto, LocksRead
  <2>4. CASE SweepAccount
    <3>1. sweeping.at = "account" /\ sweeping.old  BY <2>1, <2>4 DEF SweepAccount
    <3>2. CASE sweeping.lock = accountRec.lockedUntil  BY <1>0, <3>1, <3>2
    <3>3. CASE sweeping.lock # accountRec.lockedUntil  BY <2>4, <3>1, <3>3 DEF LockedSinceJudged
    <3>4. QED  BY <3>2, <3>3
  <2>5. QED  BY <2>1, <2>2, <2>3, <2>4, RecordsChange
<1>2. ASSUME sourceRec'.lockedUntil < sourceRec.lockedUntil
      PROVE  \/ clock > sourceRec.lockedUntil
             \/ FinishSweep /\ LockedSinceJudged("source", sourceRec.lockedUntil)
             \/ GuardRestarts
  <2>1. sourceRec' # sourceRec  BY <1>0, <1>2
  <2>2. ASSUME NEW r \in Attempts, LeaveFailure(r) PROVE FALSE
    <3>1. sourceRec' = FailedSource(r)  BY <2>2 DEF LeaveFailure
    <3>2. QED  BY <1>0, <1>2, <3>1, SourceExtends
  <2>3. CASE FinishSweep
    <3>1. sweeping.at = "source" /\ sweeping.old  BY <2>1, <2>3 DEF FinishSweep
    <3>2. CASE sweeping.lock = sourceRec.lockedUntil  BY <1>0, <3>1, <3>2
    <3>3. CASE sweeping.lock # sourceRec.lockedUntil  BY <2>3, <3>1, <3>3 DEF LockedSinceJudged
    <3>4. QED  BY <3>2, <3>3
  <2>4. QED  BY <2>1, <2>2, <2>3, RecordsChange
<1>3. QED  BY <1>1, <1>2 DEF LockStands

-----------------------------------------------------------------------------
(* The codes by mail.                                                      *)

HourFrom(start) == {t \in start..MaxMinute : t < start + Hour}
Compared(start) == SumFunctionOnSet(guesses, HourFrom(start))
SentSince(start) == {t \in hourly : t >= start}

\* The hour that began at start is not over.
Runs(start) == start <= minute /\ minute < start + Hour

MailsRead ==
    /\ minute \in 0..MaxMinute /\ drawn \in 0..MaxCodes
    /\ code \in [number : 0..MaxCodes, expires : Nat, attempts : 0..CodeMaxAttempts]
    /\ resend \in -1..MaxMinute /\ hourly \subseteq 0..MaxMinute
    /\ guesses \in [0..MaxMinute -> Nat]

\* What was compared in an hour that runs, and what the code may still be tried, is
\* paid for by the mails of that hour and one older code.
AttemptsPaid ==
    \A start \in 0..MaxMinute :
        Runs(start) =>
           Compared(start) + code.attempts <= CodeMaxAttempts * (1 + Cardinality(SentSince(start)))

GuessesPaid ==
    /\ MailsRead /\ resend <= minute /\ \A t \in hourly : t <= resend
    /\ Cardinality(hourly) < HourlyCap
    /\ \A t \in 0..MaxMinute : t > minute => guesses[t] = 0
    /\ AttemptsPaid /\ GuessesBounded

\* The sets that are summed and counted are finite.
LEMMA HourIsFinite ==
  ASSUME NEW start \in 0..MaxMinute
  PROVE  IsFiniteSet(HourFrom(start)) /\ HourFrom(start) \subseteq 0..MaxMinute
<1>1. MaxMinute \in Nat  BY MailCodesAssumption
<1>2. IsFiniteSet(0..MaxMinute)  BY <1>1, FS_Interval
<1>3. HourFrom(start) \subseteq 0..MaxMinute  BY <1>1 DEF HourFrom
<1>4. QED  BY <1>2, <1>3, FS_Subset

LEMMA MailsAreCounted ==
  ASSUME NEW R, R \subseteq 0..MaxMinute, NEW S \in SUBSET R
  PROVE  IsFiniteSet(R) /\ Cardinality(R) \in Nat /\ Cardinality(S) \in Nat
         /\ Cardinality(S) <= Cardinality(R) /\ IsFiniteSet(S)
<1>1. IsFiniteSet(0..MaxMinute)
  <2>1. MaxMinute \in Nat  BY MailCodesAssumption
  <2>2. QED  BY <2>1, FS_Interval
<1>2. IsFiniteSet(R)  BY <1>1, FS_Subset
<1>3. QED  BY <1>2, FS_Subset, FS_CardinalityType

\* More mails pay for more attempts.
LEMMA PaysMore ==
  ASSUME NEW a \in Nat, NEW n \in Nat, NEW m \in Nat, n <= m
  PROVE  a * n \in Nat /\ a * m \in Nat /\ a * n <= a * m
         /\ a * (n + 1) = a * n + a
<1> DEFINE d == m - n
<1>1. d \in Nat /\ m = n + d  OBVIOUS
<1>2. a * d \in Nat /\ a * (n + d) = a * n + a * d
  <2> HIDE DEF d
  <2> QED  BY <1>1
<1>3. a * n \in Nat /\ a * (n + 1) = a * n + a  OBVIOUS
<1> DEFINE x == a * n
           e == a * d
<1>4. x \in Nat /\ e \in Nat /\ a * m = x + e
  <2> HIDE DEF d
  <2> QED  BY <1>1, <1>2, <1>3
<1>5. x + e \in Nat /\ x <= x + e
  <2> HIDE DEF x, e
  <2> QED  BY <1>4
<1>6. QED  BY <1>3, <1>4, <1>5

\* Nothing compared, nothing owed.
LEMMA NothingCompared ==
  ASSUME NEW g, \A t \in 0..MaxMinute : g[t] = 0, NEW start \in 0..MaxMinute
  PROVE  SumFunctionOnSet(g, HourFrom(start)) = 0
BY HourIsFinite, SumZero

LEMMA GuessesStart == MailCodesInit => GuessesPaid
<1> SUFFICES ASSUME MailCodesInit PROVE GuessesPaid  OBVIOUS
<1>0. CodeMaxAttempts \in Nat \ {0} /\ HourlyCap \in Nat \ {0} /\ MaxMinute \in Nat /\ MaxCodes \in Nat
  BY MailCodesAssumption
<1>1. minute = 0 /\ drawn = 0 /\ code = NoCode /\ resend = -1 /\ hourly = {} /\ guesses = NoGuesses
  BY DEF MailCodesInit
<1>2. MailsRead  BY <1>0, <1>1 DEF MailsRead, NoCode, NoGuesses
<1>3. Cardinality(hourly) = 0  BY <1>1, FS_EmptySet
<1>4. \A t \in 0..MaxMinute : guesses[t] = 0  BY <1>1 DEF NoGuesses
<1>5. \A start \in 0..MaxMinute : Compared(start) = 0
  BY <1>4, NothingCompared DEF Compared
<1>6. AttemptsPaid
  <2>1. ASSUME NEW start \in 0..MaxMinute
        PROVE  0 <= CodeMaxAttempts * (1 + Cardinality(SentSince(start)))
    <3>1. SentSince(start) = {}  BY <1>1 DEF SentSince
    <3>2. Cardinality(SentSince(start)) = 0  BY <3>1, FS_EmptySet
    <3>3. QED  BY <1>0, <3>2
  <2>2. code.attempts = 0  BY <1>1 DEF NoCode
  <2>3. QED  BY <1>5, <2>1, <2>2 DEF AttemptsPaid
<1>7. GuessesBounded
  <2>1. HourlyCap * CodeMaxAttempts \in Nat  BY <1>0
  <2>2. QED  BY <1>5, <2>1 DEF GuessesBounded, Compared, HourFrom
<1>8. QED  BY <1>0, <1>1, <1>2, <1>3, <1>4, <1>6, <1>7 DEF GuessesPaid

\* A step at which no guess is compared, no mail is sent and no time passes, and after
\* which the code has no more attempts than before.
LEMMA NoMoreAttempts ==
  ASSUME GuessesPaid, UNCHANGED <<minute, drawn, resend, hourly, guesses>>,
         code' \in [number : 0..MaxCodes, expires : Nat, attempts : 0..CodeMaxAttempts],
         code'.attempts <= code.attempts
  PROVE  GuessesPaid'
<1>1. MailsRead'  BY DEF GuessesPaid, MailsRead
<1>2. \A start : /\ Compared(start)' = Compared(start) /\ SentSince(start)' = SentSince(start)
                 /\ Runs(start)' = Runs(start)
  BY DEF Compared, HourFrom, SentSince, Runs
<1>3. AttemptsPaid'
  <2>1. ASSUME NEW start \in 0..MaxMinute, Runs(start)
        PROVE  Compared(start) + code'.attempts
                 <= CodeMaxAttempts * (1 + Cardinality(SentSince(start)))
    <3> DEFINE c == Compared(start)
               p == CodeMaxAttempts * (1 + Cardinality(SentSince(start)))
    <3>1. c + code.attempts <= p  BY <2>1 DEF GuessesPaid, AttemptsPaid
    <3>2. c \in Int
      <4>1. \A t \in HourFrom(start) : guesses[t] \in Int
        BY HourIsFinite DEF GuessesPaid, MailsRead
      <4>2. QED  BY <4>1, HourIsFinite, SumOne DEF Compared
    <3>3. p \in Int
      <4>1. SentSince(start) \in SUBSET hourly /\ hourly \subseteq 0..MaxMinute
        BY DEF SentSince, GuessesPaid, MailsRead
      <4>2. Cardinality(SentSince(start)) \in Nat  BY <4>1, MailsAreCounted
      <4>3. QED  BY <4>2, MailCodesAssumption
    <3>4. code.attempts \in Int /\ code'.attempts \in Int
      <4>1. CodeMaxAttempts \in Nat  BY MailCodesAssumption
      <4>2. code \in [number : 0..MaxCodes, expires : Nat, attempts : 0..CodeMaxAttempts]
        BY DEF GuessesPaid, MailsRead
      <4>3. QED  BY <4>1, <4>2
    <3> HIDE DEF c, p
    <3>5. c + code'.attempts <= p  BY <3>1, <3>2, <3>3, <3>4
    <3>6. QED  BY <3>5 DEF c, p
  <2>2. QED  BY <1>2, <2>1 DEF AttemptsPaid
<1>4. GuessesBounded'  BY DEF GuessesPaid, GuessesBounded
<1>5. QED  BY <1>1, <1>3, <1>4 DEF GuessesPaid

\* What was compared since start is a natural number, and so are the mails of the time.
LEMMA Counts ==
  ASSUME GuessesPaid, NEW start \in 0..MaxMinute
  PROVE  /\ Compared(start) \in Nat
         /\ Cardinality(SentSince(start)) \in Nat /\ IsFiniteSet(SentSince(start))
         /\ 1 + Cardinality(SentSince(start)) <= HourlyCap
<1>1. \A t \in HourFrom(start) : guesses[t] \in Nat
  BY HourIsFinite DEF GuessesPaid, MailsRead
<1>2. Compared(start) \in Nat  BY <1>1, HourIsFinite, SumNatural DEF Compared
<1>3. SentSince(start) \in SUBSET hourly /\ hourly \subseteq 0..MaxMinute
  BY DEF SentSince, GuessesPaid, MailsRead
<1>4. Cardinality(hourly) < HourlyCap /\ HourlyCap \in Nat
  BY MailCodesAssumption DEF GuessesPaid
<1>5. Cardinality(SentSince(start)) \in Nat /\ IsFiniteSet(SentSince(start))
      /\ Cardinality(SentSince(start)) <= Cardinality(hourly) /\ Cardinality(hourly) \in Nat
  BY <1>3, MailsAreCounted
<1>6. QED  BY <1>2, <1>4, <1>5

\* A mail pays for the attempts of its code.
LEMMA MailPays ==
  ASSUME GuessesPaid, NEW r \in Mailings, SendEmailCode(r)
  PROVE  GuessesPaid'
<1>0. /\ CodeMaxAttempts \in Nat \ {0} /\ HourlyCap \in Nat \ {0} /\ MaxMinute \in Nat
      /\ MaxCodes \in Nat /\ CodeTTL \in Nat /\ ResendInterval \in Nat \ {0}
  BY MailCodesAssumption
<1>1. /\ drawn < MaxCodes /\ ~(resend # -1 /\ minute - resend < ResendInterval) /\ WithinCap
      /\ drawn' = drawn + 1 /\ resend' = minute /\ hourly' = Recent
      /\ code' = [number |-> drawn + 1, expires |-> minute + CodeTTL, attempts |-> CodeMaxAttempts]
      /\ UNCHANGED <<minute, guesses>>
  BY DEF SendEmailCode
<1>2. /\ minute \in 0..MaxMinute /\ drawn \in 0..MaxCodes /\ resend \in -1..MaxMinute
      /\ hourly \subseteq 0..MaxMinute /\ guesses \in [0..MaxMinute -> Nat]
      /\ resend <= minute /\ \A t \in hourly : t <= resend
  BY DEF GuessesPaid, MailsRead
<1>3. minute \notin hourly
  <2>1. CASE resend = -1  BY <1>0, <1>2, <2>1
  <2>2. CASE resend # -1  BY <1>0, <1>1, <1>2, <2>2
  <2>3. QED  BY <2>1, <2>2
<1>4. Recent \subseteq 0..MaxMinute /\ \A t \in Recent : t <= minute
  <2>1. Recent \subseteq hourly \cup {minute}  BY DEF Recent
  <2>2. \A t \in hourly : t \in 0..MaxMinute /\ t <= minute
    <3>1. \A t \in hourly : t \in Int /\ t <= resend /\ resend <= minute  BY <1>0, <1>2
    <3>2. resend \in Int /\ minute \in Int  BY <1>0, <1>2
    <3>3. QED  BY <1>2, <3>1, <3>2
  <2>3. minute <= minute  BY <1>0, <1>2
  <2>4. QED  BY <1>2, <2>1, <2>2, <2>3
<1>5. MailsRead'
  <2>1. drawn + 1 \in 0..MaxCodes /\ minute + CodeTTL \in Nat /\ CodeMaxAttempts \in 0..CodeMaxAttempts
        /\ minute \in -1..MaxMinute
    BY <1>0, <1>1, <1>2
  <2>2. code' \in [number : 0..MaxCodes, expires : Nat, attempts : 0..CodeMaxAttempts]
    BY <1>1, <2>1
  <2>3. QED  BY <1>1, <1>2, <1>4, <2>1, <2>2 DEF MailsRead
<1>6. \A start : Compared(start)' = Compared(start) /\ Runs(start)' = Runs(start)
  BY <1>1 DEF Compared, HourFrom, Runs
<1>7. AttemptsPaid'
  <2>1. ASSUME NEW start \in 0..MaxMinute, Runs(start)
        PROVE  Compared(start) + CodeMaxAttempts
                 <= CodeMaxAttempts * (1 + Cardinality(SentSince(start)'))
    <3>1. SentSince(start)' = SentSince(start) \cup {minute}
      <4>1. \A t \in hourly : t >= start => minute - t < Hour
        BY <1>2, <2>1, MailCodesAssumption DEF Runs
      <4>2. minute >= start  BY <2>1, <1>2 DEF Runs
      <4>3. QED  BY <1>1, <4>1, <4>2 DEF SentSince, Recent
    <3>2. minute \notin SentSince(start)  BY <1>3 DEF SentSince
    <3> DEFINE c == Compared(start)
               n == Cardinality(SentSince(start))
               a == CodeMaxAttempts
               left == code.attempts
    <3>3. Cardinality(SentSince(start)') = n + 1
      <4>1. IsFiniteSet(SentSince(start))  BY Counts
      <4>2. Cardinality(SentSince(start) \cup {minute}) = n + 1  BY <3>2, <4>1, FS_AddElement
      <4>3. QED  BY <3>1, <4>2
    <3>4. c \in Nat /\ n \in Nat /\ a \in Nat /\ left \in Nat  
      <4>1. code \in [number : 0..MaxCodes, expires : Nat, attempts : 0..CodeMaxAttempts]
        BY DEF GuessesPaid, MailsRead
      <4>2. left \in Nat  BY <1>0, <4>1
      <4>3. QED  BY <1>0, <4>2, Counts
    <3>5. c + left <= a * (1 + n)  BY <2>1 DEF GuessesPaid, AttemptsPaid
    <3> HIDE DEF c, n, a, left
    <3>6. a * (1 + (n + 1)) = a * (1 + n) + a /\ a * (1 + n) \in Nat
      <4>1. a * ((1 + n) + 1) = a * (1 + n) + a /\ a * (1 + n) \in Nat  BY <3>4, PaysMore
      <4>2. (1 + n) + 1 = 1 + (n + 1)  BY <3>4
      <4>3. QED  BY <4>1, <4>2
    <3> DEFINE p == a * (1 + n)
    <3>7. c + left <= p /\ p \in Nat  BY <3>5, <3>6
    <3> HIDE DEF p
    <3>8. c + a <= p + a  BY <3>4, <3>7
    <3>9. QED  BY <3>3, <3>6, <3>8 DEF c, a, p
  <2>2. code'.attempts = CodeMaxAttempts  BY <1>1
  <2>3. QED  BY <1>6, <2>1, <2>2 DEF AttemptsPaid
<1>8. GuessesBounded'  BY <1>1 DEF GuessesPaid, GuessesBounded
<1>9. Cardinality(hourly') < HourlyCap  BY <1>1 DEF WithinCap
<1>10. \A t \in 0..MaxMinute : t > minute' => guesses'[t] = 0  BY <1>1 DEF GuessesPaid
<1>11. QED  BY <1>1, <1>2, <1>4, <1>5, <1>7, <1>8, <1>9, <1>10 DEF GuessesPaid

\* A guess that is compared takes the place of an attempt.
LEMMA GuessIsPaid ==
  ASSUME GuessesPaid, code.attempts # 0, UNCHANGED <<minute, drawn, resend, hourly>>,
         code' \in {NoCode, AfterWrong}, guesses' = [guesses EXCEPT ![minute] = @ + 1]
  PROVE  GuessesPaid'
<1>0. CodeMaxAttempts \in Nat \ {0} /\ HourlyCap \in Nat \ {0} /\ MaxMinute \in Nat /\ MaxCodes \in Nat
  BY MailCodesAssumption
<1>2. /\ minute \in 0..MaxMinute /\ guesses \in [0..MaxMinute -> Nat]
      /\ code \in [number : 0..MaxCodes, expires : Nat, attempts : 0..CodeMaxAttempts]
      /\ \A t \in 0..MaxMinute : t > minute => guesses[t] = 0
  BY DEF GuessesPaid, MailsRead
<1>3. /\ code' \in [number : 0..MaxCodes, expires : Nat, attempts : 0..CodeMaxAttempts]
      /\ code'.attempts + 1 <= code.attempts
  <2>1. CASE code' = NoCode  BY <1>0, <1>2, <2>1 DEF NoCode
  <2>2. CASE code' = AfterWrong
    <3>1. code.attempts - 1 \in 0..CodeMaxAttempts  BY <1>0, <1>2
    <3>2. code' = [code EXCEPT !.attempts = code.attempts - 1]  BY <2>2 DEF AfterWrong
    <3>3. code' \in [number : 0..MaxCodes, expires : Nat, attempts : 0..CodeMaxAttempts]
          /\ code'.attempts = code.attempts - 1
      BY <1>2, <3>1, <3>2
    <3>4. code.attempts \in Int  BY <1>0, <1>2
    <3>5. QED  BY <3>3, <3>4
  <2>3. QED  BY <2>1, <2>2
<1>4. /\ guesses' \in [0..MaxMinute -> Nat] /\ guesses'[minute] = guesses[minute] + 1
      /\ \A t \in 0..MaxMinute : t # minute => guesses'[t] = guesses[t]
  BY <1>2
<1>5. MailsRead'  BY <1>3, <1>4 DEF GuessesPaid, MailsRead
<1>6. ASSUME NEW start \in 0..MaxMinute
      PROVE  Compared(start)' = IF Runs(start) THEN Compared(start) + 1 ELSE Compared(start)
  <2>1. IsFiniteSet(HourFrom(start)) /\ HourFrom(start) \subseteq 0..MaxMinute  BY HourIsFinite
  <2>2. \A t \in HourFrom(start) : guesses[t] \in Int /\ guesses'[t] \in Int
                                   /\ (t # minute => guesses[t] = guesses'[t])
    BY <1>2, <1>4, <2>1
  <2>3. minute \in HourFrom(start) <=> Runs(start)  BY <1>0, <1>2 DEF HourFrom, Runs
  <2>4. Compared(start)' = SumFunctionOnSet(guesses', HourFrom(start))  BY DEF Compared, HourFrom
  <2>5. CASE Runs(start)
    <3>1. SumFunctionOnSet(guesses', HourFrom(start))
            = SumFunctionOnSet(guesses, HourFrom(start)) + 1
      <4>1. minute \in HourFrom(start)  BY <2>3, <2>5
      <4>2. guesses'[minute] = guesses[minute] + 1  BY <1>4
      <4>3. QED  BY <2>1, <2>2, <4>1, <4>2, OneMore
    <3>2. QED  BY <2>4, <2>5, <3>1 DEF Compared
  <2>6. CASE ~Runs(start)
    <3>1. \A t \in HourFrom(start) : guesses[t] \in Int /\ guesses[t] = guesses'[t]
      BY <2>2, <2>3, <2>6
    <3>2. SumFunctionOnSet(guesses, HourFrom(start)) = SumFunctionOnSet(guesses', HourFrom(start))
      BY <2>1, <3>1, SumSame
    <3>3. QED  BY <2>4, <2>6, <3>2 DEF Compared
  <2>7. QED  BY <2>5, <2>6
<1>7. \A start : SentSince(start)' = SentSince(start) /\ Runs(start)' = Runs(start)
  BY DEF SentSince, Runs
<1>8. ASSUME NEW start \in 0..MaxMinute, Runs(start)
      PROVE  /\ Compared(start)' + code'.attempts
                  <= CodeMaxAttempts * (1 + Cardinality(SentSince(start)))
             /\ Compared(start)' <= HourlyCap * CodeMaxAttempts
  <2> DEFINE c == Compared(start)
             n == 1 + Cardinality(SentSince(start))
             p == CodeMaxAttempts * n
             q == CodeMaxAttempts * HourlyCap
             before == code.attempts
             after == code'.attempts
  <2>1. c \in Nat /\ n \in Nat /\ n <= HourlyCap  BY <1>0, Counts
  <2>2. p \in Nat /\ q \in Nat /\ p <= q /\ HourlyCap * CodeMaxAttempts = q
    <3> HIDE DEF n
    <3>1. p \in Nat /\ q \in Nat /\ p <= q  BY <1>0, <2>1, PaysMore
    <3>2. HourlyCap * CodeMaxAttempts = q  BY <1>0
    <3>3. QED  BY <3>1, <3>2
  <2>3. c + before <= p  BY <1>8 DEF GuessesPaid, AttemptsPaid
  <2>4. before \in Nat /\ after \in Nat /\ after + 1 <= before  BY <1>0, <1>2, <1>3
  <2>5. Compared(start)' = c + 1  BY <1>6, <1>8
  <2> HIDE DEF c, n, p, q, before, after
  <2>6. (c + 1) + after <= p /\ c + 1 <= q  BY <2>1, <2>2, <2>3, <2>4
  <2>7. QED  BY <2>2, <2>5, <2>6 DEF p, n, after
<1>9. AttemptsPaid'  BY <1>7, <1>8 DEF AttemptsPaid
<1>10. GuessesBounded'
  <2>1. ASSUME NEW start \in 0..MaxMinute
        PROVE  Compared(start)' <= HourlyCap * CodeMaxAttempts
    <3>1. CASE Runs(start)  BY <1>8, <3>1
    <3>2. CASE ~Runs(start)
      <4>1. Compared(start) <= HourlyCap * CodeMaxAttempts
        BY DEF GuessesPaid, GuessesBounded, Compared, HourFrom
      <4>2. QED  BY <1>6, <3>2, <4>1
    <3>3. QED  BY <3>1, <3>2
  <2>2. \A start \in 0..MaxMinute : Compared(start)' = SumFunctionOnSet(guesses', HourFrom(start))
    BY DEF Compared, HourFrom
  <2>3. QED  BY <2>1, <2>2 DEF GuessesBounded, HourFrom
<1>11. \A t \in 0..MaxMinute : t > minute' => guesses'[t] = 0
  <2>1. \A t \in 0..MaxMinute : t > minute => t # minute  BY <1>0, <1>2
  <2>2. QED  BY <1>2, <1>4, <2>1
<1>12. QED  BY <1>5, <1>9, <1>10, <1>11 DEF GuessesPaid

\* An hour that begins now owes nothing yet.
LEMMA HoursBegin == ASSUME GuessesPaid, MinutePasses PROVE GuessesPaid'
<1>0. CodeMaxAttempts \in Nat \ {0} /\ Hour \in Nat \ {0} /\ MaxMinute \in Nat
  BY MailCodesAssumption
<1>1. /\ minute \in 0..MaxMinute /\ minute < MaxMinute /\ minute' = minute + 1
      /\ resend \in -1..MaxMinute /\ resend <= minute
      /\ UNCHANGED <<drawn, code, resend, hourly, guesses>>
      /\ code \in [number : 0..MaxCodes, expires : Nat, attempts : 0..CodeMaxAttempts]
      /\ \A t \in 0..MaxMinute : t > minute => guesses[t] = 0
  BY DEF GuessesPaid, MailsRead, MinutePasses
<1>2. MailsRead'
  <2>1. minute' \in 0..MaxMinute  BY <1>0, <1>1
  <2>2. QED  BY <1>1, <2>1 DEF GuessesPaid, MailsRead
<1>3. \A start : Compared(start)' = Compared(start) /\ SentSince(start)' = SentSince(start)
  BY <1>1 DEF Compared, HourFrom, SentSince
<1>4. ASSUME NEW start \in 0..MaxMinute, Runs(start)'
      PROVE  Compared(start) + code.attempts
               <= CodeMaxAttempts * (1 + Cardinality(SentSince(start)))
  <2>1. CASE Runs(start)  BY <2>1 DEF GuessesPaid, AttemptsPaid
  <2>2. CASE ~Runs(start)
    <3>1. start = minute + 1
      <4>1. start <= minute + 1 /\ minute + 1 < start + Hour  BY <1>1, <1>4 DEF Runs
      <4>2. ~(start <= minute /\ minute < start + Hour)  BY <2>2 DEF Runs
      <4>3. QED  BY <1>0, <1>1, <4>1, <4>2
    <3>2. \A t \in HourFrom(start) : guesses[t] = 0
      <4>1. \A t \in HourFrom(start) : t \in 0..MaxMinute /\ t > minute
        BY <1>0, <1>1, <3>1 DEF HourFrom
      <4>2. QED  BY <1>1, <4>1
    <3>3. Compared(start) = 0  BY <3>2, HourIsFinite, SumZero DEF Compared
    <3> DEFINE n == Cardinality(SentSince(start))
    <3>4. n \in Nat  BY Counts
    <3> HIDE DEF n
    <3>5. CodeMaxAttempts * 1 <= CodeMaxAttempts * (1 + n) /\ CodeMaxAttempts * 1 = CodeMaxAttempts
          /\ CodeMaxAttempts * (1 + n) \in Nat
      <4>1. 1 + n \in Nat /\ 1 <= 1 + n  BY <3>4
      <4>2. QED  BY <1>0, <4>1, PaysMore
    <3>6. code.attempts \in Nat /\ code.attempts <= CodeMaxAttempts  BY <1>0, <1>1
    <3> DEFINE p == CodeMaxAttempts * (1 + n)
    <3>7. CodeMaxAttempts <= p /\ p \in Nat  BY <3>5
    <3> HIDE DEF p
    <3>8. 0 + code.attempts <= p  BY <1>0, <3>6, <3>7
    <3>9. QED  BY <3>3, <3>8 DEF p, n
  <2>3. QED  BY <2>1, <2>2
<1>5. AttemptsPaid'  BY <1>1, <1>3, <1>4 DEF AttemptsPaid
<1>6. GuessesBounded'  BY <1>1 DEF GuessesPaid, GuessesBounded
<1>7. resend' <= minute'  BY <1>1
<1>8. \A t \in 0..MaxMinute : t > minute' => guesses'[t] = 0
  <2>1. \A t \in 0..MaxMinute : t > minute + 1 => t > minute  BY <1>0, <1>1
  <2>2. QED  BY <1>1, <2>1
<1>9. QED  BY <1>1, <1>2, <1>5, <1>6, <1>7, <1>8 DEF GuessesPaid

\* A process that starts has compared nothing.
LEMMA GuessesForgotten == ASSUME GuessesPaid, MailerRestarts PROVE GuessesPaid'
<1>0. CodeMaxAttempts \in Nat \ {0} /\ HourlyCap \in Nat \ {0} /\ MaxMinute \in Nat /\ MaxCodes \in Nat
  BY MailCodesAssumption
<1>1. /\ code' = NoCode /\ resend' = -1 /\ hourly' = {} /\ guesses' = NoGuesses
      /\ UNCHANGED <<minute, drawn>> /\ minute \in 0..MaxMinute /\ drawn \in 0..MaxCodes
  BY DEF MailerRestarts, GuessesPaid, MailsRead
<1>2. MailsRead'  BY <1>0, <1>1 DEF MailsRead, NoCode, NoGuesses
<1>3. Cardinality(hourly') < HourlyCap
  <2>1. Cardinality(hourly') = 0  BY <1>1, FS_EmptySet
  <2>2. QED  BY <1>0, <2>1
<1>4. \A t \in 0..MaxMinute : guesses'[t] = 0  BY <1>1 DEF NoGuesses
<1>5. \A start \in 0..MaxMinute : SumFunctionOnSet(guesses', HourFrom(start)) = 0
  BY <1>4, NothingCompared
<1>6. AttemptsPaid'
  <2>1. ASSUME NEW start \in 0..MaxMinute
        PROVE  0 <= CodeMaxAttempts * (1 + Cardinality(SentSince(start)'))
    <3>1. SentSince(start)' = {}  BY <1>1 DEF SentSince
    <3>2. Cardinality(SentSince(start)') = 0  BY <3>1, FS_EmptySet
    <3>3. QED  BY <1>0, <3>2
  <2>2. code'.attempts = 0  BY <1>1 DEF NoCode
  <2>3. \A start \in 0..MaxMinute : Compared(start)' = 0  BY <1>5 DEF Compared, HourFrom
  <2>4. QED  BY <2>1, <2>2, <2>3 DEF AttemptsPaid
<1>7. GuessesBounded'
  <2>1. HourlyCap * CodeMaxAttempts \in Nat  BY <1>0
  <2>2. QED  BY <1>5, <2>1 DEF GuessesBounded, HourFrom
<1>8. resend' <= minute'  BY <1>0, <1>1
<1>9. QED  BY <1>1, <1>2, <1>3, <1>4, <1>6, <1>7, <1>8 DEF GuessesPaid

LEMMA GuessesStep == GuessesPaid /\ [MailCodesNext]_mailVars => GuessesPaid'
<1> SUFFICES ASSUME GuessesPaid, [MailCodesNext]_mailVars PROVE GuessesPaid'  OBVIOUS
<1>1. /\ code \in [number : 0..MaxCodes, expires : Nat, attempts : 0..CodeMaxAttempts]
      /\ 0 \in 0..MaxCodes /\ NoCode \in [number : 0..MaxCodes, expires : Nat, attempts : 0..CodeMaxAttempts]
      /\ NoCode.attempts <= code.attempts /\ code.attempts <= code.attempts
  <2>0. CodeMaxAttempts \in Nat /\ MaxCodes \in Nat  BY MailCodesAssumption
  <2>1. code \in [number : 0..MaxCodes, expires : Nat, attempts : 0..CodeMaxAttempts]
    BY DEF GuessesPaid, MailsRead
  <2>2. QED  BY <2>0, <2>1 DEF NoCode
<1>2. ASSUME UNCHANGED <<minute, drawn, resend, hourly, guesses>>, code' = code \/ code' = NoCode
      PROVE  GuessesPaid'
  <2>1. code' \in [number : 0..MaxCodes, expires : Nat, attempts : 0..CodeMaxAttempts]
        /\ code'.attempts <= code.attempts
    BY <1>1, <1>2
  <2>2. QED  BY <1>2, <2>1, NoMoreAttempts
<1>3. CASE VerifyEmailCode
  <2>1. CASE code' = NoCode /\ UNCHANGED guesses
    BY <1>2, <1>3, <2>1 DEF VerifyEmailCode
  <2>2. CASE /\ code.attempts # 0 /\ code' \in {NoCode, AfterWrong}
             /\ guesses' = [guesses EXCEPT ![minute] = @ + 1]
    <3>1. UNCHANGED <<minute, drawn, resend, hourly>>  BY <1>3 DEF VerifyEmailCode
    <3>2. QED  BY <2>2, <3>1, GuessIsPaid
  <2>3. QED  BY <1>3, <2>1, <2>2 DEF VerifyEmailCode
<1>4. QED
  BY <1>2, <1>3, MailPays, HoursBegin, GuessesForgotten
  DEF MailCodesNext, mailVars, MailGoes, MailAnswered

-----------------------------------------------------------------------------
(* The theorem.                                                            *)

\* For every instance: a sign-out lasts (auth/revocation_persist.go), an image is tried
\* once (captcha.go), mail that was to be encrypted is not sent in the clear (mailer.go),
\* keys are bounded (apikey.go), an administrator remains (admin.go), an agent's tier was
\* reviewed (agent_program.go), what is installed has its administrator (install.go), and a
\* gateway's genuine callback is taken (handler/payment.go).
THEOREM AccessIsHeld == PlatformSpec => []AccessHolds
<1> DEFINE Inv == /\ part = "sessions" => SessionsInv
                  /\ part = "guard" => GuardInv
                  /\ part = "mail" => MailInv
                  /\ part = "keys" => KeysInv
                  /\ part = "accounts" => AccountsInv
                  /\ part = "agents" => AgentInv
                  /\ part = "install" => InstallInv
                  /\ part = "gateway" => GatewayInv
<1>1. PlatformInit => Inv
  BY SessionsStart, GuardStart, MailStart, KeysStart, AccountsStart, AgentStart, InstallStart,
     GatewayStart
  DEF PlatformInit
<1>2. Inv /\ [PlatformNext]_platformVars => Inv'
  <2> SUFFICES ASSUME Inv, [PlatformNext]_platformVars PROVE Inv'  OBVIOUS
  <2>1. UNCHANGED part  BY DEF PlatformNext, Still, platformVars
  <2>2. ASSUME part = "sessions" PROVE SessionsInv'
    <3>1. [SessionsNext]_sessionVars  BY <2>2 DEF PlatformNext, platformVars
    <3>2. QED  BY <2>2, <3>1, SessionsStep
  <2>3. ASSUME part = "guard" PROVE GuardInv'
    <3>1. [LoginGuardNext]_guardVars  BY <2>3 DEF PlatformNext, platformVars
    <3>2. QED  BY <2>3, <3>1, GuardStep
  <2>4. ASSUME part = "mail" PROVE MailInv'
    <3>1. [MailCodesNext]_mailVars  BY <2>4 DEF PlatformNext, platformVars
    <3>2. QED  BY <2>4, <3>1, MailStep
  <2>5. ASSUME part = "keys" PROVE KeysInv'
    <3>1. [ApiKeysNext]_apiKeysVars  BY <2>5 DEF PlatformNext, platformVars
    <3>2. QED  BY <2>5, <3>1, KeysStep
  <2>6. ASSUME part = "accounts" PROVE AccountsInv'
    <3>1. [AccountsNext]_accountsVars  BY <2>6 DEF PlatformNext, platformVars
    <3>2. QED  BY <2>6, <3>1, AccountsStep
  <2>7. ASSUME part = "agents" PROVE AgentInv'
    <3>1. [AgentNext]_agentVars  BY <2>7 DEF PlatformNext, platformVars
    <3>2. QED  BY <2>7, <3>1, AgentStep
  <2>8. ASSUME part = "install" PROVE InstallInv'
    <3>1. [InstallNext]_installVars  BY <2>8 DEF PlatformNext, platformVars
    <3>2. QED  BY <2>8, <3>1, InstallStep
  <2>9. ASSUME part = "gateway" PROVE GatewayInv'
    <3>1. [GatewayNext]_gatewayVars  BY <2>9 DEF PlatformNext, platformVars
    <3>2. QED  BY <2>9, <3>1, GatewayStep
  <2>10. QED  BY <2>1, <2>2, <2>3, <2>4, <2>5, <2>6, <2>7, <2>8, <2>9
<1>3. Inv => AccessHolds
  <2>1. (GuardInv => OneTryPerImage) /\ (KeysInv => KeysBounded)
    BY DEF GuardInv, KeysInv
  <2>2. (AccountsInv => AdminRemains) /\ (InstallInv => ConfiguredIsPopulated)
    BY DEF AccountsInv, InstallInv
  <2>3. MailInv => NeverSilentlyClear  BY DEF MailInv
  <2>4. QED
    BY <2>1, <2>2, <2>3, OutIsRefused, TiersAreReviewed, TakenIfGenuine DEF AccessHolds
<1>4. QED  BY <1>1, <1>2, <1>3, PTL DEF PlatformSpec

-----------------------------------------------------------------------------
(* Types: keys, installation, mail, sessions, logins.                      *)

\* The accounts, the keys and the requests about them.
LEMMA ApiKeysTypes == ApiKeysTypeOK /\ [ApiKeysNext]_apiKeysVars => ApiKeysTypeOK'
<1> SUFFICES ASSUME ApiKeysTypeOK, [ApiKeysNext]_apiKeysVars PROVE ApiKeysTypeOK'  OBVIOUS
<1> USE DEF ApiKeysTypeOK
<1>0. MaxDay \in Nat  BY ApiKeysAssumption
<1> DEFINE Rec == [there : BOOLEAN, active : BOOLEAN, identified : BOOLEAN]
<1>a. ASSUME NEW u \in Holders, NEW h \in Rec, keyHolder' = [keyHolder EXCEPT ![u] = h]
      PROVE  keyHolder' \in [Holders -> Rec]
  <2>1. keyHolder \in [Holders -> Rec]  OBVIOUS
  <2> HIDE DEF Rec
  <2>2. QED  BY <1>a, <2>1
<1>b. ASSUME NEW x \in Rec, NEW b \in BOOLEAN
      PROVE  /\ [x EXCEPT !.there = b] \in Rec /\ [x EXCEPT !.active = b] \in Rec
             /\ [x EXCEPT !.identified = b] \in Rec
  OBVIOUS
<1>c. \A u \in Holders : keyHolder[u] \in Rec  OBVIOUS
<1>1. CASE UNCHANGED apiKeysVars  BY <1>1 DEF apiKeysVars
<1>2. ASSUME NEW c \in Creations, NEW u \in Holders, IsApproved(c, u) PROVE ApiKeysTypeOK'
  BY <1>2 DEF IsApproved
<1>3. ASSUME NEW c \in Creations, CountKeys(c) PROVE ApiKeysTypeOK'
  BY <1>3 DEF CountKeys
<1>4. ASSUME NEW c \in Creations, NEW k \in Keys, NEW e \in {Never, day + 1}, CreateKey(c, k, e)
      PROVE  ApiKeysTypeOK'
  <2>1. e \in Never..MaxDay + 1  BY <1>0 DEF Never
  <2>2. QED  BY <1>4, <2>1 DEF CreateKey
<1>5. ASSUME NEW u \in Holders, NEW k \in Keys, RevokeKey(u, k) PROVE ApiKeysTypeOK'
  BY <1>5 DEF RevokeKey
<1>6. ASSUME NEW a \in Calls, NEW k \in Keys, Authenticate(a, k) PROVE ApiKeysTypeOK'
  BY <1>6 DEF Authenticate
<1>7. ASSUME NEW a \in Calls, ReadOwner(a) PROVE ApiKeysTypeOK'
  BY <1>7 DEF ReadOwner, NoCall
<1>8. ASSUME NEW a \in Calls, Returns(a) PROVE ApiKeysTypeOK'
  BY <1>8 DEF Returns, NoCall
<1>9. ASSUME NEW u \in Holders, NEW works \in BOOLEAN, NEW identified \in BOOLEAN,
             HolderChanges(u, works, identified)
      PROVE  ApiKeysTypeOK'
  <2> DEFINE h == [[keyHolder[u] EXCEPT !.active = works] EXCEPT !.identified = identified]
  <2>0. keyHolder' = [keyHolder EXCEPT ![u] = h]
    <3>1. DOMAIN keyHolder = Holders  OBVIOUS
    <3>2. keyHolder' = [keyHolder EXCEPT ![u].active = works, ![u].identified = identified]
      BY <1>9 DEF HolderChanges
    <3>3. QED  BY <3>1, <3>2
  <2>1. keyHolder' \in [Holders -> Rec]
    <3> HIDE DEF Rec
    <3>1. h \in Rec  BY <1>9, <1>b, <1>c
    <3> HIDE DEF h
    <3>2. QED  BY <1>a, <1>9, <2>0, <3>1
  <2>2. UNCHANGED <<apiKey, creation, keyCall, day>>  BY <1>9 DEF HolderChanges
  <2>3. QED  BY <2>1, <2>2
<1>10. ASSUME NEW u \in Holders, DeleteUserKeys(u) PROVE ApiKeysTypeOK'
  <2>1. Never \in Never..MaxDay + 1  BY <1>0 DEF Never
  <2>2. [NoKey EXCEPT !.status = "revoked"] \in
            [owner : Holders \cup {"none"}, status : {"none", "active", "revoked"},
             expires : Never..MaxDay + 1]
    BY <2>1 DEF NoKey
  <2>3. apiKey' \in [Keys -> [owner : Holders \cup {"none"}, status : {"none", "active", "revoked"},
                            expires : Never..MaxDay + 1]]
    BY <1>10, <2>2 DEF DeleteUserKeys
  <2>4. keyHolder' \in [Holders -> Rec]
    <3> DEFINE h == [keyHolder[u] EXCEPT !.there = FALSE]
    <3>1. keyHolder' = [keyHolder EXCEPT ![u] = h]  BY <1>10 DEF DeleteUserKeys
    <3> HIDE DEF Rec
    <3>2. h \in Rec  BY <1>b, <1>c
    <3> HIDE DEF h
    <3>3. QED  BY <1>a, <3>1, <3>2
  <2>5. UNCHANGED <<creation, keyCall, day>>  BY <1>10 DEF DeleteUserKeys
  <2>6. QED  BY <2>3, <2>4, <2>5
<1>11. CASE DayPasses
  <2>1. day' \in 0..MaxDay  BY <1>0, <1>11 DEF DayPasses
  <2>2. QED  BY <1>11, <2>1 DEF DayPasses
<1>12. QED
  BY <1>1, <1>2, <1>3, <1>4, <1>5, <1>6, <1>7, <1>8, <1>9, <1>10, <1>11 DEF ApiKeysNext

\* The databases, the file and the requests to install; each of them names a database.
InstallTyped ==
    InstallTypeOK /\ \A r \in Installs : installing[r].at # "idle" => installing[r].into \in Databases

LEMMA InstallTypes == InstallTyped /\ [InstallNext]_installVars => InstallTyped'
<1> SUFFICES ASSUME InstallTyped, [InstallNext]_installVars PROVE InstallTyped'  OBVIOUS
<1> USE DEF InstallTyped, InstallTypeOK
<1>1. CASE UNCHANGED installVars  BY <1>1 DEF installVars
<1>2. ASSUME NEW r \in Installs, NEW d \in Databases, BeginInstall(r, d) PROVE InstallTyped'
  BY <1>2 DEF BeginInstall
<1>3. ASSUME NEW r \in Installs, CountUsers(r) PROVE InstallTyped'
  BY <1>3 DEF CountUsers, Leaves, Proceeds, FollowedBy, NoInstall
<1>4. ASSUME NEW r \in Installs, Populate(r) PROVE InstallTyped'
  BY <1>4 DEF Populate, Proceeds, FollowedBy
<1>5. ASSUME NEW r \in Installs, SaveConfig(r) PROVE InstallTyped'
  BY <1>5 DEF SaveConfig, Proceeds, FollowedBy
<1>6. ASSUME NEW r \in Installs, Activate(r) PROVE InstallTyped'
  BY <1>6 DEF Activate, Leaves, NoInstall
<1>7. ASSUME NEW r \in Installs, InstallFails(r) PROVE InstallTyped'
  BY <1>7 DEF InstallFails, Leaves, NoInstall
<1>8. CASE InstallerDies
  <2>1. deaths' \in 0..MaxDeaths  BY <1>8, InstallAssumption DEF InstallerDies
  <2>2. QED  BY <1>8, <2>1 DEF InstallerDies, NoInstall
<1>9. CASE ProcessStarts  BY <1>9 DEF ProcessStarts
<1>10. QED  BY <1>1, <1>2, <1>3, <1>4, <1>5, <1>6, <1>7, <1>8, <1>9 DEF InstallNext

\* The code, the limits and the mails of one address.
LEMMA MailTypes == MailCodesTypeOK /\ [MailCodesNext]_mailVars => MailCodesTypeOK'
<1> SUFFICES ASSUME MailCodesTypeOK, [MailCodesNext]_mailVars PROVE MailCodesTypeOK'  OBVIOUS
<1> USE DEF MailCodesTypeOK
<1>0. /\ CodeTTL \in Nat /\ CodeMaxAttempts \in Nat /\ MaxMinute \in Nat /\ MaxCodes \in Nat
      /\ minute \in 0..MaxMinute
  BY MailCodesAssumption
<1>1. CASE UNCHANGED mailVars  BY <1>1 DEF mailVars
<1>2. NoCode \in [number : 0..MaxCodes, expires : Nat, attempts : 0..CodeMaxAttempts]
  BY <1>0 DEF NoCode
<1>3. NotMailing \in [at : {"idle", "sending", "sent"}, encryption : Encryptions,
                      over : {"tls", "clear", "failed"}]
  BY DEF NotMailing, Encryptions
<1>4. ASSUME NEW r \in Mailings, SendEmailCode(r) PROVE MailCodesTypeOK'
  <2>1. drawn' \in 0..MaxCodes /\ resend' \in -1..MaxMinute /\ hourly' \subseteq 0..MaxMinute
    <3>1. drawn < MaxCodes /\ drawn' = drawn + 1 /\ resend' = minute /\ hourly' = Recent
      BY <1>4 DEF SendEmailCode
    <3>2. drawn' \in 0..MaxCodes  BY <1>0, <3>1
    <3>3. resend' \in -1..MaxMinute  BY <1>0, <3>1
    <3>4. hourly' \subseteq 0..MaxMinute  BY <1>0, <3>1 DEF Recent
    <3>5. QED  BY <3>2, <3>3, <3>4
  <2>2. code' \in [number : 0..MaxCodes, expires : Nat, attempts : 0..CodeMaxAttempts]
    BY <1>0, <1>4 DEF SendEmailCode
  <2>3. mailing' \in [Mailings -> [at : {"idle", "sending", "sent"}, encryption : Encryptions,
                                   over : {"tls", "clear", "failed"}]]
    BY <1>3, <1>4 DEF SendEmailCode
  <2>4. QED  BY <1>4, <2>1, <2>2, <2>3 DEF SendEmailCode
<1>5. ASSUME NEW r \in Mailings, MailGoes(r) PROVE MailCodesTypeOK'
  <2>1. PICK encryption \in Encryptions, over \in {"tls", "clear", "failed"} :
            mailing' = [mailing EXCEPT ![r] = [at |-> "sent", encryption |-> encryption,
                                               over |-> over]]
    BY <1>5, DemandIsMet DEF MailGoes
  <2>2. QED  BY <1>5, <2>1 DEF MailGoes
<1>6. ASSUME NEW r \in Mailings, MailAnswered(r) PROVE MailCodesTypeOK'
  BY <1>2, <1>3, <1>6 DEF MailAnswered
<1>7. CASE VerifyEmailCode
  <2>1. CASE code' = NoCode /\ UNCHANGED guesses
    BY <1>2, <1>7, <2>1 DEF VerifyEmailCode
  <2>2. CASE ~(code' = NoCode /\ UNCHANGED guesses)
    <3>1. /\ code.attempts # 0 /\ code' \in {NoCode, AfterWrong}
          /\ guesses' = [guesses EXCEPT ![minute] = @ + 1]
      BY <1>7, <2>2 DEF VerifyEmailCode
    <3>2. AfterWrong \in [number : 0..MaxCodes, expires : Nat, attempts : 0..CodeMaxAttempts]
      <4>1. code.attempts - 1 \in 0..CodeMaxAttempts  BY <1>0, <3>1
      <4>2. QED  BY <4>1 DEF AfterWrong
    <3>3. QED  BY <1>0, <1>2, <1>7, <3>1, <3>2 DEF VerifyEmailCode
  <2>3. QED  BY <2>1, <2>2
<1>8. CASE MailerRestarts
  BY <1>0, <1>2, <1>3, <1>8 DEF MailerRestarts, AllIdle, NoGuesses
<1>9. CASE MinutePasses  BY <1>0, <1>9 DEF MinutePasses
<1>10. QED  BY <1>1, <1>4, <1>5, <1>6, <1>7, <1>8, <1>9 DEF MailCodesNext

TokenTypes == [at : {"none", "known", "mailed", "signed"}, iat : 0..MaxSecond, exp : Nat,
               password : 0..MaxPassword]
VisitTypes == [at : {"idle", "parsed", "found", "cleared", "served", "leaving", "left", "change", "changed"},
               for : Tokens \cup {"none"}, late : BOOLEAN, password : 0..MaxPassword]
PersonTypes == [password : 1..MaxPassword, changed : 0..MaxSecond, active : BOOLEAN]

LEMMA SigningTyped ==
  ASSUME SessionsTypeOK, NEW t \in Tokens, NEW password \in 0..MaxPassword, token' \in Signed(t, password)
  PROVE  token' \in [Tokens -> TokenTypes]
<1>1. PICK ttl \in {TokenTTL, AdminTokenTTL} :
          token' = [token EXCEPT ![t] = [at |-> "signed", iat |-> second, exp |-> second + ttl,
                                         password |-> password]]
  BY DEF Signed
<1>2. ttl \in Nat /\ MaxSecond \in Nat /\ second \in 0..MaxSecond
  BY SessionsAssumption DEF SessionsTypeOK
<1>3. second + ttl \in Nat  BY <1>2
<1> DEFINE w == [at |-> "signed", iat |-> second, exp |-> second + ttl, password |-> password]
<1>4. w \in TokenTypes  BY <1>2, <1>3 DEF TokenTypes
<1>5. token \in [Tokens -> TokenTypes]  BY DEF SessionsTypeOK, TokenTypes
<1>6. token' = [token EXCEPT ![t] = w]  BY <1>1
<1> HIDE DEF w
<1>7. QED  BY <1>4, <1>5, <1>6

LEMMA PasswordTyped ==
  ASSUME SessionsTypeOK, NewPassword  PROVE person' \in PersonTypes /\ person.password + 1 \in 0..MaxPassword
<1>1. MaxPassword \in Nat /\ MaxSecond \in Nat /\ second \in 0..MaxSecond /\ person \in PersonTypes
  BY SessionsAssumption DEF SessionsTypeOK, PersonTypes
<1>2. person.password \in 1..MaxPassword /\ person.password < MaxPassword
  BY <1>1 DEF NewPassword, PersonTypes
<1>3. person.password + 1 \in 1..MaxPassword /\ person.password + 1 \in 0..MaxPassword  BY <1>1, <1>2
<1>4. QED  BY <1>1, <1>3 DEF NewPassword, PersonTypes

\* The clock, the account, the sessions and the requests.
LEMMA SessionsTypes ==
  SessionsInv /\ SessionsTypeOK /\ [SessionsNext]_sessionVars => SessionsTypeOK'
<1> SUFFICES ASSUME SessionsInv, SessionsTypeOK, [SessionsNext]_sessionVars PROVE SessionsTypeOK'
  OBVIOUS
<1>0. /\ MaxPassword \in Nat \ {0} /\ MaxSecond \in Nat /\ second \in 0..MaxSecond
      /\ person \in PersonTypes /\ token \in [Tokens -> TokenTypes]
      /\ visit \in [Replicas -> VisitTypes] /\ hot \in [Replicas -> SUBSET Tokens]
      /\ revoked \subseteq Tokens /\ signedOut \subseteq Tokens
  BY SessionsAssumption DEF SessionsTypeOK, PersonTypes, TokenTypes, VisitTypes
<1>1. \A v \in Replicas : visit[v].at \in {"found", "leaving", "left"} => visit[v].for \in Tokens
  BY DEF SessionsInv, VisitHonest
<1>2. ASSUME second' \in 0..MaxSecond, person' \in PersonTypes, token' \in [Tokens -> TokenTypes],
             visit' \in [Replicas -> VisitTypes], hot' \in [Replicas -> SUBSET Tokens],
             revoked' \subseteq Tokens, signedOut' \subseteq Tokens
      PROVE  SessionsTypeOK'
  BY <1>2 DEF SessionsTypeOK, PersonTypes, TokenTypes, VisitTypes
<1>3. CASE UNCHANGED sessionVars  BY <1>0, <1>2, <1>3 DEF sessionVars
<1>4. ASSUME NEW v \in Replicas, NEW w \in VisitTypes, visit' = [visit EXCEPT ![v] = w]
      PROVE  visit' \in [Replicas -> VisitTypes]
  BY <1>0, <1>4
<1>5. ASSUME NEW v \in Replicas, Done(v) PROVE visit' \in [Replicas -> VisitTypes]
  <2>1. NoVisit \in VisitTypes  BY <1>0 DEF NoVisit, VisitTypes
  <2>2. QED  BY <1>4, <1>5, <2>1 DEF Done
<1>6. ASSUME NEW v \in Replicas, NEW from,
             NEW to \in {"idle", "parsed", "found", "cleared", "served", "leaving", "left", "change", "changed"},
             At(v, from, to)
      PROVE  visit' \in [Replicas -> VisitTypes]
  <2>1. [visit[v] EXCEPT !.at = to] \in VisitTypes  BY <1>0 DEF VisitTypes
  <2>2. visit' = [visit EXCEPT ![v] = [visit[v] EXCEPT !.at = to]]  BY <1>6 DEF At
  <2>3. QED  BY <1>4, <2>1, <2>2
<1>7. ASSUME NEW t \in Logins, PasswordChecked(t) \/ Challenge(t) \/ TicketLost(t) PROVE SessionsTypeOK'
  <2>1. t \in Tokens /\ person.password \in 0..MaxPassword  BY <1>0 DEF Tokens, PersonTypes
  <2>2. Unsigned \in TokenTypes  BY <1>0 DEF Unsigned, TokenTypes
  <2>3. token' \in [Tokens -> TokenTypes]
    <3>1. CASE PasswordChecked(t)
      <4>1. [token[t] EXCEPT !.at = "known", !.password = person.password] \in TokenTypes
        BY <1>0, <2>1 DEF TokenTypes
      <4>2. token' = [token EXCEPT ![t].at = "known", ![t].password = person.password]
        BY <3>1 DEF PasswordChecked
      <4>3. token' = [token EXCEPT ![t] = [token[t] EXCEPT !.at = "known", !.password = person.password]]
        BY <1>0, <2>1, <4>2
      <4>4. QED  BY <1>0, <4>1, <4>3
    <3>2. CASE Challenge(t)  BY <1>0, <2>1, <3>2 DEF Challenge, TokenTypes
    <3>3. CASE TicketLost(t)  BY <1>0, <2>2, <3>3 DEF TicketLost
    <3>4. QED  BY <1>7, <3>1, <3>2, <3>3
  <2>4. UNCHANGED <<second, person, revoked, hot, signedOut, visit>>
    BY <1>7 DEF PasswordChecked, Challenge, TicketLost
  <2>5. QED  BY <1>0, <1>2, <2>3, <2>4
<1>8. ASSUME NEW t \in Logins, OpenSession(t) PROVE SessionsTypeOK'
  <2>1. t \in Tokens /\ token[t].password \in 0..MaxPassword  BY <1>0 DEF Tokens, TokenTypes
  <2>2. token' \in [Tokens -> TokenTypes]  BY <1>8, <2>1, SigningTyped DEF OpenSession
  <2>3. QED  BY <1>0, <1>2, <1>8, <2>2 DEF OpenSession
<1>9. ASSUME NEW v \in Replicas, NEW t \in Tokens, ParseToken(v, t) \/ Logout(v, t)
      PROVE  SessionsTypeOK'
  <2>1. [at |-> "parsed", for |-> t, late |-> t \in signedOut, password |-> 0] \in VisitTypes
    BY <1>0 DEF VisitTypes
  <2>2. [NoVisit EXCEPT !.at = "leaving", !.for = t] \in VisitTypes
    <3>1. NoVisit \in VisitTypes  BY <1>0 DEF VisitTypes, NoVisit
    <3>2. QED  BY <3>1 DEF VisitTypes
  <2>3. visit' \in [Replicas -> VisitTypes]  BY <1>4, <1>9, <2>1, <2>2 DEF ParseToken, Logout
  <2>4. UNCHANGED <<second, person, token, revoked, hot, signedOut>>  BY <1>9 DEF ParseToken, Logout
  <2>5. QED  BY <1>0, <1>2, <2>3, <2>4
<1>10. ASSUME NEW v \in Replicas, NEW t \in Reissues, Reissue(v, t) PROVE SessionsTypeOK'
  <2>1. t \in Tokens /\ visit[v].password \in 0..MaxPassword  BY <1>0 DEF Tokens, VisitTypes
  <2>2. token' \in [Tokens -> TokenTypes]  BY <1>10, <2>1, SigningTyped DEF Reissue
  <2>3. QED  BY <1>0, <1>2, <1>5, <1>10, <2>2 DEF Reissue
<1>11. ASSUME NEW v \in Replicas, IsRevoked(v) PROVE SessionsTypeOK'
  <2>1. visit' \in [Replicas -> VisitTypes]
    BY <1>5, <1>6, <1>11 DEF IsRevoked
  <2>2. UNCHANGED <<second, person, token, revoked, hot, signedOut>>  BY <1>11 DEF IsRevoked
  <2>3. QED  BY <1>0, <1>2, <2>1, <2>2
<1>12. ASSUME NEW v \in Replicas, RememberRevoked(v) PROVE SessionsTypeOK'
  <2>1. visit[v].for \in Tokens  BY <1>1, <1>12 DEF RememberRevoked
  <2>2. hot' \in [Replicas -> SUBSET Tokens]  BY <1>0, <1>12, <2>1 DEF RememberRevoked
  <2>3. QED  BY <1>0, <1>2, <1>5, <1>12, <2>2 DEF RememberRevoked
<1>13. ASSUME NEW v \in Replicas, ReadPerson(v) PROVE SessionsTypeOK'
  <2>1. CASE Done(v)  BY <1>0, <1>2, <1>5, <1>13, <2>1 DEF ReadPerson
  <2>2. CASE visit' = [visit EXCEPT ![v].at = "served", ![v].password = person.password]
    <3> DEFINE w == [visit[v] EXCEPT !.at = "served", !.password = person.password]
    <3>0. person.password \in 0..MaxPassword /\ visit[v] \in VisitTypes  BY <1>0 DEF PersonTypes
    <3>1. w \in VisitTypes  BY <3>0 DEF VisitTypes
    <3>2. visit' = [visit EXCEPT ![v] = w]  BY <1>0, <2>2
    <3> HIDE DEF w
    <3>3. QED  BY <1>0, <1>2, <1>4, <1>13, <3>1, <3>2 DEF ReadPerson
  <2>3. QED  BY <1>13, <2>1, <2>2 DEF ReadPerson
<1>14. ASSUME NEW v \in Replicas, Answer(v) \/ CheckOldPassword(v) PROVE SessionsTypeOK'
  <2>1. visit' \in [Replicas -> VisitTypes]  BY <1>5, <1>6, <1>14 DEF Answer, CheckOldPassword
  <2>2. UNCHANGED <<second, person, token, revoked, hot, signedOut>>
    BY <1>14 DEF Answer, CheckOldPassword
  <2>3. QED  BY <1>0, <1>2, <2>1, <2>2
<1>15. ASSUME NEW v \in Replicas, Revoke(v) PROVE SessionsTypeOK'
  <2>1. visit[v].for \in Tokens  BY <1>1, <1>15 DEF Revoke
  <2>2. visit' \in [Replicas -> VisitTypes] /\ revoked' \subseteq Tokens
    BY <1>0, <1>5, <1>6, <1>15, <2>1 DEF Revoke
  <2>3. QED  BY <1>0, <1>2, <1>15, <2>2 DEF Revoke
<1>16. ASSUME NEW v \in Replicas, LeftAnswered(v) PROVE SessionsTypeOK'
  <2>1. visit[v].for \in Tokens  BY <1>1, <1>16 DEF LeftAnswered
  <2>2. hot' \in [Replicas -> SUBSET Tokens] /\ signedOut' \subseteq Tokens
    BY <1>0, <1>16, <2>1 DEF LeftAnswered
  <2>3. QED  BY <1>0, <1>2, <1>5, <1>16, <2>2 DEF LeftAnswered
<1>17. ASSUME NEW v \in Replicas, CleanupHot(v) \/ RestartReplica(v) PROVE SessionsTypeOK'
  <2>1. hot' \in [Replicas -> SUBSET Tokens]  BY <1>0, <1>17 DEF CleanupHot, RestartReplica
  <2>2. visit' \in [Replicas -> VisitTypes]  BY <1>0, <1>5, <1>17 DEF CleanupHot, RestartReplica
  <2>3. QED  BY <1>0, <1>2, <1>17, <2>1, <2>2 DEF CleanupHot, RestartReplica
<1>18. ASSUME NEW v \in Replicas, WritePassword(v) PROVE SessionsTypeOK'
  <2>1. person' \in PersonTypes /\ person.password + 1 \in 0..MaxPassword
    BY <1>18, PasswordTyped DEF WritePassword
  <2>2. PICK p \in 0..MaxPassword : p = person.password + 1  BY <2>1
  <2> DEFINE w == [visit[v] EXCEPT !.at = "changed", !.password = p]
  <2>3. w \in VisitTypes  BY <1>0 DEF VisitTypes
  <2>4. visit' = [visit EXCEPT ![v].at = "changed", ![v].password = p]
    BY <1>18, <2>2 DEF WritePassword
  <2>5. visit' = [visit EXCEPT ![v] = w]  BY <1>0, <2>4
  <2> HIDE DEF w
  <2>6. QED  BY <1>0, <1>2, <1>4, <1>18, <2>1, <2>3, <2>5 DEF WritePassword
<1>19. CASE CleanupRows  BY <1>0, <1>2, <1>19 DEF CleanupRows
<1>20. CASE AdminEditsPerson
  <2>1. person' \in PersonTypes
    <3>1. CASE NewPassword  BY <3>1, PasswordTyped
    <3>2. CASE person' = [person EXCEPT !.active = ~@]  BY <1>0, <3>2 DEF PersonTypes
    <3>3. QED  BY <1>20, <3>1, <3>2 DEF AdminEditsPerson
  <2>2. QED  BY <1>0, <1>2, <1>20, <2>1 DEF AdminEditsPerson
<1>21. CASE SecondPasses
  <2>1. second' \in 0..MaxSecond  BY <1>0, <1>21 DEF SecondPasses
  <2>2. QED  BY <1>0, <1>2, <1>21, <2>1 DEF SecondPasses
<1>22. QED
  BY <1>3, <1>7, <1>8, <1>9, <1>10, <1>11, <1>12, <1>13, <1>14, <1>15, <1>16, <1>17, <1>18,
     <1>19, <1>20, <1>21
  DEF SessionsNext

\* The counts, the locks, the challenges and the attempts.
LEMMA GuardTypes == LoginGuardTypeOK /\ [LoginGuardNext]_guardVars => LoginGuardTypeOK'
<1> SUFFICES ASSUME LoginGuardTypeOK, [LoginGuardNext]_guardVars PROVE LoginGuardTypeOK'  OBVIOUS
<1> DEFINE Issued == [Images -> [live : BOOLEAN, expires : Nat]]
           Places == [Attempts -> {"start", "check", "captcha", "password", "fail", "success", "done"}]
           Sweeps == [at : {"idle", "account", "sources", "source"}, now : 0..MaxClock,
                      old : BOOLEAN, lock : Nat]
<1>0. /\ MaxClock \in Nat /\ CaptchaTTL \in Nat /\ IpLock \in Nat /\ clock \in 0..MaxClock
      /\ accountRec \in [failures : Nat, lockedUntil : Nat, lastFailure : 0..MaxClock]
      /\ sourceRec.failures \subseteq Attempts \X (0..MaxClock) /\ sourceRec.lockedUntil \in Nat
      /\ image \in Issued /\ attempt \in Places
      /\ holder \in Attempts \cup {Free} /\ tried \in [Images -> Nat]
  BY LoginGuardAssumption DEF LoginGuardTypeOK
<1>1. CASE UNCHANGED guardVars  BY <1>1 DEF guardVars, LoginGuardTypeOK
<1>2. ASSUME NEW r \in Attempts, EnterCheck(r) \/ LeaveCheck(r) \/ CheckPassword(r) \/ EnterFailure(r)
      PROVE  LoginGuardTypeOK'
  <2>1. holder' \in Attempts \cup {Free} /\ attempt' \in Places
    BY <1>0, <1>2 DEF EnterCheck, LeaveCheck, CheckPassword, EnterFailure, Enter, Goto
  <2>2. UNCHANGED <<clock, captchaOn, accountRec, sourceRec, image, sweeping, tried>>
    BY <1>2 DEF EnterCheck, LeaveCheck, CheckPassword, EnterFailure
  <2>3. QED  BY <2>1, <2>2 DEF LoginGuardTypeOK
<1>3. ASSUME NEW r \in Attempts, VerifyCaptcha(r) PROVE LoginGuardTypeOK'
  <2>1. attempt' \in Places  BY <1>0, <1>3 DEF VerifyCaptcha, Goto
  <2>2. image' \in Issued /\ tried' \in [Images -> Nat]
    <3>1. CASE UNCHANGED <<image, tried>>  BY <1>0, <3>1
    <3>2. ASSUME NEW i \in Images, NEW right, Spent(i, right), tried' = [tried EXCEPT ![i] = @ + 1]
          PROVE  image' \in Issued /\ tried' \in [Images -> Nat]
      <4>1. tried[i] + 1 \in Nat  BY <1>0
      <4>2. tried' \in [Images -> Nat]  BY <1>0, <3>2, <4>1
      <4>3. image' \in Issued  BY <1>0, <3>2 DEF Spent
      <4>4. QED  BY <4>2, <4>3
    <3>3. QED  BY <1>3, <3>1, <3>2 DEF VerifyCaptcha
  <2>3. QED  BY <1>3, <2>1, <2>2 DEF VerifyCaptcha, LoginGuardTypeOK
<1>4. ASSUME NEW r \in Attempts, LeaveFailure(r) PROVE LoginGuardTypeOK'
  <2>1. /\ accountRec' = FailedAccount /\ sourceRec' = FailedSource(r) /\ holder' = Free
        /\ attempt' = [attempt EXCEPT ![r] = "done"]
        /\ UNCHANGED <<clock, captchaOn, image, sweeping, tried>>
    BY <1>4 DEF LeaveFailure, Goto
  <2>2. FailedAccount \in [failures : Nat, lockedUntil : Nat, lastFailure : 0..MaxClock]
    <3>1. CountsRead  BY <1>0 DEF CountsRead
    <3>2. /\ FailedAccount \in [failures : Int, lockedUntil : Int, lastFailure : Int]
          /\ FailedAccount.lockedUntil >= accountRec.lockedUntil
      BY <3>1, FailureExtends
    <3>3. accountRec.lockedUntil \in Nat /\ FailedAccount.lockedUntil \in Int  BY <1>0, <3>2
    <3>4. FailedAccount.lockedUntil \in Nat  BY <3>2, <3>3
    <3>5. FailedAccount.lastFailure = clock  BY DEF FailedAccount
    <3>6. FailedAccount.failures \in Nat
      <4>1. accountRec.failures \in Nat  BY <1>0
      <4>2. FailedAccount.failures =
              (IF clock - accountRec.lastFailure > AccountWindow THEN 0 ELSE accountRec.failures) + 1
        BY DEF FailedAccount
      <4>3. QED  BY <4>1, <4>2
    <3>7. QED  BY <1>0, <3>2, <3>4, <3>5, <3>6
  <2>3. sourceRec'.failures \subseteq Attempts \X (0..MaxClock) /\ sourceRec'.lockedUntil \in Nat
    <3>1. clock + IpLock \in Nat  BY <1>0
    <3>2. QED  BY <1>0, <2>1, <3>1 DEF FailedSource, Longer
  <2>4. QED  BY <1>0, <2>1, <2>2, <2>3 DEF LoginGuardTypeOK
<1>5. ASSUME accountRec' \in {accountRec, NoRecord}, sourceRec' \in {sourceRec, NoSource},
             image' \in Issued, attempt' \in Places, holder' \in Attempts \cup {Free},
             sweeping' \in Sweeps, clock' \in 0..MaxClock, captchaOn' \in BOOLEAN, UNCHANGED tried
      PROVE  LoginGuardTypeOK'
  BY <1>0, <1>5 DEF LoginGuardTypeOK, NoRecord, NoSource
<1>6. captchaOn \in BOOLEAN /\ sweeping \in Sweeps  BY DEF LoginGuardTypeOK
<1>7. ASSUME NEW r \in Attempts, RecordSuccess(r) PROVE LoginGuardTypeOK'
  <2>1. attempt' \in Places  BY <1>0, <1>7 DEF RecordSuccess, Goto
  <2>2. QED  BY <1>0, <1>5, <1>6, <1>7, <2>1 DEF RecordSuccess
<1>8. ASSUME NEW i \in Images, IssueCaptcha(i) \/ EvictCaptcha(i) PROVE LoginGuardTypeOK'
  <2>1. clock + CaptchaTTL \in Nat  BY <1>0
  <2>2. image' \in Issued
    <3>1. CASE IssueCaptcha(i)
      <4> DEFINE w == [live |-> TRUE, expires |-> clock + CaptchaTTL]
      <4>1. w \in [live : BOOLEAN, expires : Nat]  BY <2>1
      <4>2. image' = [image EXCEPT ![i] = w]  BY <3>1 DEF IssueCaptcha
      <4> HIDE DEF w
      <4>3. QED  BY <1>0, <4>1, <4>2
    <3>2. CASE EvictCaptcha(i)  BY <1>0, <3>2 DEF EvictCaptcha
    <3>3. QED  BY <1>8, <3>1, <3>2
  <2>3. QED  BY <1>0, <1>5, <1>6, <1>8, <2>2 DEF IssueCaptcha, EvictCaptcha
<1>9. CASE StartSweep \/ JudgeSource
  <2>1. \A now : OldAccount(now) \in BOOLEAN /\ OldSource(now) \in BOOLEAN
    BY DEF OldAccount, OldSource
  <2>2. accountRec.lockedUntil \in Nat /\ sweeping.now \in 0..MaxClock  BY <1>0, <1>6
  <2>3. sweeping' \in Sweeps  BY <1>0, <1>9, <2>1, <2>2 DEF StartSweep, JudgeSource
  <2>4. QED  BY <1>0, <1>5, <1>6, <1>9, <2>3 DEF StartSweep, JudgeSource
<1>10. CASE SweepAccount \/ FinishSweep
  <2>1. sweeping.now \in 0..MaxClock /\ 0 \in 0..MaxClock  BY <1>0, <1>6
  <2>2. CASE SweepAccount
    <3>1. sweeping' \in Sweeps  BY <2>1, <2>2 DEF SweepAccount
    <3>2. QED  BY <1>0, <1>5, <1>6, <2>2, <3>1 DEF SweepAccount
  <2>3. CASE FinishSweep
    <3>1. sweeping' \in Sweeps  BY <2>1, <2>3 DEF FinishSweep, NotSweeping
    <3>2. QED  BY <1>0, <1>5, <1>6, <2>3, <3>1 DEF FinishSweep
  <2>4. QED  BY <1>10, <2>2, <2>3
<1>11. CASE SwitchCaptcha  BY <1>0, <1>5, <1>6, <1>11 DEF SwitchCaptcha
<1>12. CASE ClockTicks
  <2>1. clock' \in 0..MaxClock  BY <1>0, <1>12 DEF ClockTicks
  <2>2. QED  BY <1>0, <1>5, <1>6, <1>12, <2>1 DEF ClockTicks
<1>13. CASE GuardRestarts
  <2>1. image' \in Issued /\ attempt' \in Places  BY <1>0, <1>13 DEF GuardRestarts
  <2>2. 0 \in 0..MaxClock  BY <1>0
  <2>3. sweeping' \in Sweeps  BY <1>13, <2>2 DEF GuardRestarts, NotSweeping
  <2>4. QED  BY <1>0, <1>5, <1>6, <1>13, <2>1, <2>3 DEF GuardRestarts
<1>14. QED
  BY <1>1, <1>2, <1>3, <1>4, <1>7, <1>8, <1>9, <1>10, <1>11, <1>12, <1>13 DEF LoginGuardNext

-----------------------------------------------------------------------------
(* Types: the automatic renewal.                                          *)

RentedFits == [status : {"active", "expired", "stopped"}, expires : Expiries, auto : BOOLEAN]
AgentFits == [at : AgentSteps, date : Nat, expired : BOOLEAN]
ProviderFits == [due : Nat, done : SUBSET Expiries]

\* A patrol that charges or calls does so for an expiry there is.
DatesKnown == \A s \in Sweepers : agent[s].at \in {"charge", "call"} => agent[s].date \in Expiries

RenewalTyped == RenewalTypeOK /\ DatesKnown

LEMMA RenewalTypeIs ==
  RenewalTypeOK <=>
    /\ today \in 0..MaxToday /\ funds \in 0..MaxFunds /\ rented \in RentedFits
    /\ event \in [Expiries -> EventStates] /\ leased \subseteq Expiries
    /\ charged \in [Expiries -> Nat] /\ reported \subseteq Expiries
    /\ bills \subseteq Offered /\ provider \in ProviderFits
    /\ agent \in [Workers -> AgentFits] /\ trouble \in 0..MaxTrouble
BY DEF RenewalTypeOK, RentedFits, AgentFits, ProviderFits

LEMMA RestingAgentFits == Resting \in AgentFits /\ Resting.at = "idle" /\ Resting.date = 0 /\ Resting.expired = FALSE
BY DEF Resting, AgentFits, AgentSteps

LEMMA DeliveringFits == Delivering \in AgentFits /\ Delivering.at = "events"
BY RestingAgentFits DEF Delivering, AgentFits, AgentSteps

LEMMA RenewalTypedStart == RenewalInit => RenewalTyped
<1> SUFFICES ASSUME RenewalInit PROVE RenewalTyped  OBVIOUS
<1>1. rented \in RentedFits /\ provider \in ProviderFits /\ funds \in 0..MaxFunds
  BY RenewalAssumption DEF RenewalInit, RentedFits, ProviderFits, Expiries
<1>2. agent \in [Workers -> AgentFits] /\ DatesKnown
  BY RestingAgentFits DEF RenewalInit, DatesKnown, Workers
<1>3. event \in [Expiries -> EventStates] /\ charged \in [Expiries -> Nat]
  BY DEF RenewalInit, EventStates
<1>4. QED  BY <1>1, <1>2, <1>3, RenewalTypeIs, RenewalAssumption DEF RenewalInit, RenewalTyped

\* A step that moves one process, not to a call or a charge for a date there is not.
LEMMA AgentFitsMoves ==
  ASSUME RenewalTyped, NEW a \in Workers, NEW w \in AgentFits, Does(a, w),
         a \in Sweepers /\ w.at \in {"charge", "call"} => w.date \in Expiries
  PROVE  agent' \in [Workers -> AgentFits] /\ DatesKnown'
<1>1. agent \in [Workers -> AgentFits]  BY RenewalTypeIs DEF RenewalTyped
<1>2. agent' = [agent EXCEPT ![a] = w]  BY DEF Does
<1>3. agent' \in [Workers -> AgentFits]  BY <1>1, <1>2
<1>4. \A s \in Sweepers : s \in Workers /\ agent'[s] = IF s = a THEN w ELSE agent[s]
  BY <1>1, <1>2 DEF Workers
<1>5. DatesKnown'  BY <1>4 DEF RenewalTyped, DatesKnown
<1>6. QED  BY <1>3, <1>5

LEMMA FailsFits == ASSUME RenewalTypeOK, Fails PROVE trouble' \in 0..MaxTrouble
BY RenewalAssumption DEF RenewalTypeOK, Fails

LEMMA ExtendFits == ASSUME RenewalTypeOK, Extend PROVE rented' \in RentedFits
<1>1. rented \in RentedFits /\ today \in Nat /\ rented.expires \in Nat
  BY RenewalTypeIs, RenewalAssumption DEF RentedFits, Expiries
<1> DEFINE d == Later(today, rented.expires) + Cycle
<1>2. d \in Expiries  BY <1>1, RenewalAssumption DEF Extend, Later, Expiries
<1>3. rented' = [rented EXCEPT !.expires = d]  BY DEF Extend
<1> HIDE DEF d
<1>4. QED  BY <1>1, <1>2, <1>3 DEF RentedFits

LEMMA CarriedFits ==
  ASSUME RenewalTypeOK, NEW e \in Expiries PROVE CarriedOut(e) \in ProviderFits
BY RenewalTypeIs, RenewalAssumption DEF CarriedOut, ProviderFits

LEMMA SweepTypes ==
  ASSUME RenewalTyped, NEW s \in Sweepers, Sweep(s) PROVE RenewalTyped'
<1>t. RenewalTypeOK /\ s \in Workers /\ agent[s] \in AgentFits
  BY RenewalTypeIs DEF RenewalTyped, Workers
<1>d. agent[s].at \in {"charge", "call"} => agent[s].date \in Expiries  BY DEF RenewalTyped, DatesKnown
<1>1. CASE Round(s)
  <2> DEFINE w == IF rented.auto /\ rented.expires <= today + Window
                  THEN [Resting EXCEPT !.at = "charge", !.date = rented.expires] ELSE Delivering
  <2>1. rented.expires \in Expiries  BY <1>t, RenewalTypeIs DEF RentedFits
  <2>2. [Resting EXCEPT !.at = "charge", !.date = rented.expires] \in AgentFits
    <3>1. rented.expires \in Nat  BY <2>1, RenewalAssumption DEF Expiries
    <3>2. QED  BY <3>1 DEF AgentFits, AgentSteps, Resting
  <2>3. w \in AgentFits /\ (w.at \in {"charge", "call"} => w.date \in Expiries)
    <3>1. CASE rented.auto /\ rented.expires <= today + Window
      BY <2>1, <2>2, <3>1 DEF Resting
    <3>2. CASE ~(rented.auto /\ rented.expires <= today + Window)
      BY <3>2, DeliveringFits
    <3>3. QED  BY <3>1, <3>2
  <2>4. Does(s, w) /\ UNCHANGED <<rented, funds, ledger, world>>  BY <1>1 DEF Round
  <2> HIDE DEF w
  <2>5. agent' \in [Workers -> AgentFits] /\ DatesKnown'  BY <1>t, <2>3, <2>4, AgentFitsMoves
  <2>6. QED  BY <1>t, <2>4, <2>5, RenewalTypeIs DEF RenewalTypeOK, RenewalTyped, AgentFits, ledger, world
<1>2. CASE ChargePeriod(s) \/ PassOver(s)
  <2>1. agent' \in [Workers -> AgentFits] /\ DatesKnown'
    BY <1>2, <1>t, DeliveringFits, AgentFitsMoves DEF ChargePeriod, PassOver
  <2>2. agent[s].date \in Expiries  BY <1>2, <1>d DEF ChargePeriod, PassOver
  <2>3. rented' \in RentedFits
    BY <1>2, <1>t, ExtendFits, RenewalTypeIs DEF ChargePeriod, PassOver
  <2>4. funds' \in 0..MaxFunds  BY <1>2, <1>t, RenewalAssumption DEF ChargePeriod, PassOver, RenewalTypeOK
  <2>5. event' \in [Expiries -> EventStates]
    BY <1>2, <1>t DEF ChargePeriod, PassOver, RenewalTypeOK, EventStates
  <2>6. charged' \in [Expiries -> Nat]
    BY <1>2, <1>t, <2>2 DEF ChargePeriod, PassOver, RenewalTypeOK
  <2>7. reported' \subseteq Expiries
    BY <1>2, <1>t, <2>2 DEF ChargePeriod, PassOver, RenewalTypeOK
  <2>8. UNCHANGED <<leased, world>>  BY <1>2 DEF ChargePeriod, PassOver
  <2>9. QED
    BY <1>t, <2>1, <2>3, <2>4, <2>5, <2>6, <2>7, <2>8, RenewalTypeIs
    DEF RenewalTypeOK, RenewalTyped, RentedFits, AgentFits, world
<1>3. CASE ClaimEvent(s)
  <2>1. PICK e \in Expiries :
          /\ Does(s, [at |-> "call", date |-> e, expired |-> rented.status = "expired"])
          /\ event' = [event EXCEPT ![e] = "sending"] /\ leased' = leased \cup {e}
    BY <1>3 DEF ClaimEvent, Ahead
  <2> DEFINE w == [at |-> "call", date |-> e, expired |-> rented.status = "expired"]
  <2>2. w \in AgentFits  BY DEF AgentFits, AgentSteps, Expiries
  <2>3. w.date \in Expiries /\ Does(s, w)  BY <2>1
  <2> HIDE DEF w
  <2>4. agent' \in [Workers -> AgentFits] /\ DatesKnown'  BY <1>t, <2>2, <2>3, AgentFitsMoves
  <2>5. event' \in [Expiries -> EventStates] /\ leased' \subseteq Expiries
    BY <1>t, <2>1 DEF RenewalTypeOK, EventStates
  <2>6. UNCHANGED <<rented, funds, charged, reported, world>>  BY <1>3 DEF ClaimEvent
  <2>7. QED
    BY <1>t, <2>4, <2>5, <2>6, RenewalTypeIs DEF RenewalTypeOK, RenewalTyped, AgentFits, world
<1>4. CASE EndRound(s)
  <2>1. agent' \in [Workers -> AgentFits] /\ DatesKnown'
    BY <1>4, <1>t, RestingAgentFits, AgentFitsMoves DEF EndRound
  <2>2. QED
    BY <1>4, <1>t, <2>1, RenewalTypeIs DEF EndRound, RenewalTypeOK, RenewalTyped, AgentFits, ledger, world
<1>5. CASE RenewDone(s) \/ RenewFails(s)
  <2>1. PICK to \in {"ok", "error"} : Moves(s, "call", to)  BY <1>5 DEF RenewDone, RenewFails
  <2> DEFINE w == [agent[s] EXCEPT !.at = to]
  <2>2. w \in AgentFits /\ w.at \in {"ok", "error"}  BY <1>t DEF AgentFits, AgentSteps
  <2>3. Does(s, w)  BY <2>1 DEF Moves
  <2> HIDE DEF w
  <2>4. agent' \in [Workers -> AgentFits] /\ DatesKnown'  BY <1>t, <2>2, <2>3, AgentFitsMoves
  <2>5. agent[s].date \in Expiries  BY <1>d, <2>1 DEF Moves
  <2>6. provider' \in ProviderFits
    BY <1>5, <1>t, <2>5, CarriedFits, RenewalTypeIs DEF RenewDone, RenewFails
  <2>7. trouble' \in 0..MaxTrouble  BY <1>5, <1>t, FailsFits DEF RenewDone, RenewFails, RenewalTypeOK
  <2>8. UNCHANGED <<today, rented, funds, ledger, bills>>  BY <1>5 DEF RenewDone, RenewFails
  <2>9. QED
    BY <1>t, <2>4, <2>6, <2>7, <2>8, RenewalTypeIs
    DEF RenewalTypeOK, RenewalTyped, AgentFits, ProviderFits, ledger
<1>6. CASE WriteOutcome(s)
  <2> DEFINE e == agent[s].date
             to == IF agent[s].at = "ok" /\ agent[s].expired THEN "resume" ELSE "events"
             w == [Delivering EXCEPT !.at = to, !.date = e + 1]
  <2>1. e + 1 \in Nat  BY <1>t DEF AgentFits
  <2>2. w \in AgentFits /\ w.at = to
    BY <2>1, DeliveringFits DEF AgentFits, AgentSteps
  <2>3. Does(s, w)  BY <1>6 DEF WriteOutcome
  <2> HIDE DEF w
  <2>4. agent' \in [Workers -> AgentFits] /\ DatesKnown'  BY <1>t, <2>2, <2>3, AgentFitsMoves
  <2>5. Outcome(s) \in EventStates  BY DEF Outcome, EventStates
  <2>6. event' \in [Expiries -> EventStates]
    <3>1. event' = event \/ event' = [event EXCEPT ![e] = Outcome(s)]  BY <1>6 DEF WriteOutcome
    <3>2. QED  BY <1>t, <2>5, <3>1 DEF RenewalTypeOK
  <2>7. leased' \subseteq Expiries  BY <1>6, <1>t DEF WriteOutcome, RenewalTypeOK
  <2>8. UNCHANGED <<rented, funds, charged, reported, world>>  BY <1>6 DEF WriteOutcome
  <2>9. QED
    BY <1>t, <2>4, <2>6, <2>7, <2>8, RenewalTypeIs DEF RenewalTypeOK, RenewalTyped, AgentFits, world
<1>7. QED
  <2>1. CASE Resume(s)
    <3> DEFINE w == [agent[s] EXCEPT !.at = "events", !.expired = FALSE]
    <3>1. w \in AgentFits /\ w.at = "events"  BY <1>t DEF AgentFits, AgentSteps
    <3>2. Does(s, w)  BY <2>1 DEF Resume
    <3> HIDE DEF w
    <3>3. agent' \in [Workers -> AgentFits] /\ DatesKnown'  BY <1>t, <3>1, <3>2, AgentFitsMoves
    <3>4. rented' \in RentedFits  BY <2>1, <1>t, RenewalTypeIs DEF Resume, RentedFits
    <3>5. QED
      BY <2>1, <1>t, <3>3, <3>4, RenewalTypeIs
      DEF Resume, RenewalTypeOK, RenewalTyped, AgentFits, RentedFits, ledger, world
  <2>2. QED  BY <1>1, <1>2, <1>3, <1>4, <1>5, <1>6, <2>1 DEF Sweep

LEMMA BuyTypes ==
  ASSUME RenewalTyped, NEW b \in Owners, Buy(b) PROVE RenewalTyped'
<1>t. RenewalTypeOK /\ b \in Workers /\ b \notin Sweepers /\ agent[b] \in AgentFits
      /\ provider \in ProviderFits
  BY RenewalTypeIs, RenewalAssumption DEF RenewalTyped, Workers
<1>m. ASSUME NEW w \in AgentFits, Does(b, w)
      PROVE  agent' \in [Workers -> AgentFits] /\ DatesKnown'
  BY <1>t, <1>m, AgentFitsMoves
<1>f. funds \in Nat  BY <1>t, RenewalAssumption DEF RenewalTypeOK
<1>p. [provider EXCEPT !.due = @ + Cycle] \in ProviderFits /\ provider.due + Cycle \in Nat
  BY <1>t, RenewalAssumption DEF ProviderFits
<1>1. ASSUME NEW how \in {"wallet", "invoice", "intent"}, Renew(b, how) PROVE RenewalTyped'
  <2> DEFINE w == [Resting EXCEPT !.at = "call"]
  <2>1. w \in AgentFits  BY RestingAgentFits DEF AgentFits, AgentSteps
  <2>2. Does(b, w)  BY <1>1 DEF Renew
  <2> HIDE DEF w
  <2>3. agent' \in [Workers -> AgentFits] /\ DatesKnown'  BY <1>m, <2>1, <2>2
  <2>4. rented' \in RentedFits  BY <1>1, <1>t, ExtendFits DEF Renew
  <2>5. funds' \in 0..MaxFunds
    <3>1. funds' = funds \/ (funds > 0 /\ funds' = funds - 1)  BY <1>1 DEF Renew
    <3>2. QED  BY <1>t, <1>f, <3>1, RenewalAssumption DEF RenewalTypeOK
  <2>6. bills' \subseteq Offered  BY <1>1, <1>t DEF Renew, RenewalTypeOK
  <2>7. UNCHANGED <<today, ledger, provider, trouble>>  BY <1>1 DEF Renew
  <2>8. QED
    BY <1>t, <2>3, <2>4, <2>5, <2>6, <2>7, RenewalTypeIs
    DEF RenewalTypeOK, RenewalTyped, AgentFits, RentedFits, ledger
<1>2. CASE RenewAnswered(b)
  <2>1. PICK step \in {"answer", "resume"} :
          Does(b, [Resting EXCEPT !.at = step, !.date = IF step = "answer" THEN provider.due + Cycle ELSE 0])
    BY <1>2 DEF RenewAnswered
  <2> DEFINE d == IF step = "answer" THEN provider.due + Cycle ELSE 0
             w == [Resting EXCEPT !.at = step, !.date = d]
  <2>2. d \in Nat  BY <1>p
  <2>3. Does(b, w)  BY <2>1
  <2> HIDE DEF d
  <2>4. w \in AgentFits  BY <2>2 DEF AgentFits, AgentSteps, Resting
  <2> HIDE DEF w
  <2>5. agent' \in [Workers -> AgentFits] /\ DatesKnown'  BY <1>m, <2>3, <2>4
  <2>6. provider' \in ProviderFits  BY <1>2, <1>p DEF RenewAnswered
  <2>7. UNCHANGED <<today, rented, funds, ledger, bills, trouble>>  BY <1>2 DEF RenewAnswered
  <2>8. QED
    BY <1>t, <2>5, <2>6, <2>7, RenewalTypeIs
    DEF RenewalTypeOK, RenewalTyped, AgentFits, ProviderFits, ledger
<1>3. CASE RenewUnanswered(b) \/ MarkFailed(b)
  <2>1. PICK to \in {"error", "idle"} : Does(b, [agent[b] EXCEPT !.at = to])
    BY <1>3 DEF RenewUnanswered, MarkFailed, Moves
  <2> DEFINE w == [agent[b] EXCEPT !.at = to]
  <2>2. w \in AgentFits  BY <1>t DEF AgentFits, AgentSteps
  <2>3. Does(b, w)  BY <2>1
  <2> HIDE DEF w
  <2>4. agent' \in [Workers -> AgentFits] /\ DatesKnown'  BY <1>m, <2>2, <2>3
  <2>5. CASE RenewUnanswered(b)
    <3>1. provider' \in ProviderFits  BY <2>5, <1>p, <1>t DEF RenewUnanswered
    <3>2. trouble' \in 0..MaxTrouble  BY <2>5, <1>t, FailsFits DEF RenewUnanswered
    <3>3. UNCHANGED <<today, rented, funds, ledger, bills>>  BY <2>5 DEF RenewUnanswered
    <3>4. QED
      BY <1>t, <2>4, <3>1, <3>2, <3>3, RenewalTypeIs
      DEF RenewalTypeOK, RenewalTyped, AgentFits, ProviderFits, ledger
  <2>6. CASE MarkFailed(b)
    <3>1. rented' \in RentedFits  BY <2>6, <1>t, RenewalTypeIs DEF MarkFailed, RentedFits
    <3>2. UNCHANGED <<funds, ledger, world>>  BY <2>6 DEF MarkFailed
    <3>3. QED
      BY <1>t, <2>4, <3>1, <3>2, RenewalTypeIs
      DEF RenewalTypeOK, RenewalTyped, AgentFits, RentedFits, ledger, world
  <2>7. QED  BY <1>3, <2>5, <2>6
<1>4. CASE TakeDate(b) \/ Resume(b)
  <2>1. PICK w \in AgentFits : Does(b, w)
    <3>1. [Resting EXCEPT !.at = "resume"] \in AgentFits  BY RestingAgentFits DEF AgentFits, AgentSteps
    <3>2. QED  BY <1>4, <1>t, <3>1, RestingAgentFits DEF TakeDate, Resume
  <2>2. agent' \in [Workers -> AgentFits] /\ DatesKnown'  BY <1>m, <2>1
  <2>3. rented' \in RentedFits
    <3>1. rented \in RentedFits  BY <1>t, RenewalTypeIs
    <3>2. CASE TakeDate(b)
      <4>1. agent[b].date \in Expiries  BY <1>t, <3>2, RenewalAssumption DEF TakeDate, AgentFits, Expiries
      <4>2. QED  BY <3>1, <3>2, <4>1 DEF TakeDate, RentedFits
    <3>3. CASE Resume(b)  BY <3>1, <3>3 DEF Resume, RentedFits
    <3>4. QED  BY <1>4, <3>2, <3>3
  <2>4. UNCHANGED <<funds, ledger, world>>  BY <1>4 DEF TakeDate, Resume
  <2>5. QED
    BY <1>t, <2>2, <2>3, <2>4, RenewalTypeIs
    DEF RenewalTypeOK, RenewalTyped, AgentFits, RentedFits, ledger, world
<1>5. QED  BY <1>1, <1>2, <1>3, <1>4 DEF Buy

LEMMA RenewalTypes == RenewalTyped /\ [RenewalNext]_renewalVars => RenewalTyped'
<1> SUFFICES ASSUME RenewalTyped, [RenewalNext]_renewalVars PROVE RenewalTyped'
  OBVIOUS
<1>t. RenewalTypeOK /\ rented \in RentedFits  BY RenewalTypeIs DEF RenewalTyped
<1>1. ASSUME UNCHANGED <<event, leased, charged, reported, provider, agent, trouble>>,
             rented' \in RentedFits, today' \in 0..MaxToday, funds' \in 0..MaxFunds,
             bills' \subseteq Offered
      PROVE  RenewalTyped'
  BY <1>1, <1>t DEF RenewalTyped, RenewalTypeOK, DatesKnown, RentedFits
<1>2. CASE UNCHANGED renewalVars  BY <1>2, <1>1, <1>t DEF renewalVars, RenewalTypeOK
<1>3. ASSUME NEW s \in Sweepers, Sweep(s) PROVE RenewalTyped'  BY <1>3, SweepTypes
<1>4. ASSUME NEW b \in Owners, Buy(b) PROVE RenewalTyped'  BY <1>4, BuyTypes
<1>5. ASSUME NEW a \in Workers, ProcessDies(a) PROVE RenewalTyped'
  <2>1. agent' \in [Workers -> AgentFits] /\ DatesKnown'
    BY <1>5, RestingAgentFits, AgentFitsMoves DEF ProcessDies
  <2>2. trouble' \in 0..MaxTrouble  BY <1>5, <1>t, FailsFits DEF ProcessDies
  <2>3. UNCHANGED <<today, rented, funds, ledger, bills, provider>>  BY <1>5 DEF ProcessDies
  <2>4. QED
    BY <1>t, <2>1, <2>2, <2>3, RenewalTypeIs DEF RenewalTypeOK, RenewalTyped, AgentFits, ledger
<1>6. ASSUME NEW k \in Offered, Bill(k) PROVE RenewalTyped'
  BY <1>6, <1>1, <1>t DEF Bill, ledger, RenewalTypeOK
<1>7. ASSUME NEW e \in Expiries, LeaseEnds(e) PROVE RenewalTyped'
  BY <1>7, <1>t DEF LeaseEnds, world, RenewalTypeOK, RenewalTyped, DatesKnown
<1>8. CASE SetAutoRenew \/ Expire \/ Reopen
  <2>1. rented' \in RentedFits  BY <1>8, <1>t DEF SetAutoRenew, Expire, Reopen, RentedFits
  <2>2. UNCHANGED <<funds, ledger, agent, world>>  BY <1>8 DEF SetAutoRenew, Expire, Reopen
  <2>3. QED  BY <2>1, <2>2, <1>1, <1>t DEF ledger, world, RenewalTypeOK
<1>9. CASE TopUp
  BY <1>9, <1>1, <1>t, RenewalAssumption DEF TopUp, ledger, world, RenewalTypeOK
<1>10. CASE Tick
  BY <1>10, <1>1, <1>t, RenewalAssumption DEF Tick, ledger, RenewalTypeOK
<1>11. QED  BY <1>2, <1>3, <1>4, <1>5, <1>6, <1>7, <1>8, <1>9, <1>10 DEF RenewalNext
=============================================================================
