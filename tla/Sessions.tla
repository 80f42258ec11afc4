------------------------------- MODULE Sessions -------------------------------
(***************************************************************************)
(* The sessions of one account (auth/auth.go, auth/revocation_persist.go,  *)
(* handler/auth.go, handler/email.go, handler/revoker.go,                  *)
(* middleware/middleware.go, service/user.go): signing in, with or without *)
(* a code by mail, requests under a token, signing out on one replica and  *)
(* being refused on the others, the change of the password.                *)
(*                                                                         *)
(* A token names itself, when it was signed and when it expires, in whole  *)
(* seconds, the unit of `second`.  The table of revoked tokens is shared,  *)
(* the hot map in front of it is a replica's own.  Each statement on the   *)
(* database and each critical section is a step.                           *)
(***************************************************************************)
EXTENDS Integers

CONSTANTS
    Logins, Reissues,         \* sessions opened by a login, by a change of the password
    Replicas,      \* processes on one database, one request at a time each
    TokenTTL, AdminTokenTTL,
    MaxSecond, MaxPassword    \* bounds on time and on changes of the password

ASSUME SessionsAssumption ==
    /\ {TokenTTL, AdminTokenTTL} \subseteq Nat \ {0}
    /\ MaxSecond \in Nat /\ MaxPassword \in Nat \ {0}
    /\ Logins \cap Reissues = {} /\ "none" \notin Logins \cup Reissues

VARIABLES
    second,        \* time.Now(), in seconds
    person,        \* the User row; passwords are numbered
    token,         \* each session: where its login is, and what was signed
    revoked,       \* tokens with a RevokedToken row
    hot,           \* each replica's hot map
    signedOut,     \* history: sessions whose Logout was answered
    visit          \* each replica's request

Tokens == Logins \cup Reissues

sessionVars == <<second, person, token, revoked, hot, signedOut, visit>>

Unsigned == [at |-> "none", iat |-> 0, exp |-> 0, password |-> 0]
NoVisit == [at |-> "idle", for |-> "none", late |-> FALSE, password |-> 0]

SessionsTypeOK ==
    /\ second \in 0..MaxSecond
    /\ person \in [password : 1..MaxPassword, changed : 0..MaxSecond, active : BOOLEAN]
    /\ token \in [Tokens -> [at : {"none", "known", "mailed", "signed"}, iat : 0..MaxSecond, exp : Nat,
                             password : 0..MaxPassword]]
    /\ revoked \subseteq Tokens /\ hot \in [Replicas -> SUBSET Tokens] /\ signedOut \subseteq Tokens
    /\ visit \in [Replicas -> [at : {"idle", "parsed", "found", "cleared", "served",
                                     "leaving", "left", "change", "changed"},
                               for : Tokens \cup {"none"}, late : BOOLEAN, password : 0..MaxPassword]]

SessionsInit ==
    /\ second = 0
    /\ person = [password |-> 1, changed |-> 0, active |-> TRUE]
    /\ token = [t \in Tokens |-> Unsigned]
    /\ revoked = {} /\ hot = [v \in Replicas |-> {}] /\ signedOut = {}
    /\ visit = [v \in Replicas |-> NoVisit]

Unexpired(t) == token[t].at = "signed" /\ second < token[t].exp
At(v, from, to) == visit[v].at = from /\ visit' = [visit EXCEPT ![v].at = to]
Done(v) == visit' = [visit EXCEPT ![v] = NoVisit]

-----------------------------------------------------------------------------
\* users.Login: the password is right and the account active.
PasswordChecked(t) ==
    /\ token[t].at = "none" /\ person.active
    /\ token' = [token EXCEPT ![t].at = "known", ![t].password = person.password]
    /\ UNCHANGED <<second, person, revoked, hot, signedOut, visit>>

\* loginEmailChallenge: a ticket and a code by mail, never for an administrator.
\* The administrator may switch email_code_login at any time: either way goes.
Challenge(t) ==
    /\ token[t].at = "known"
    /\ token' = [token EXCEPT ![t].at = "mailed"]
    /\ UNCHANGED <<second, person, revoked, hot, signedOut, visit>>

\* issueSession, issueAdminSession: the role decides how long it lasts, and the
\* administrator may change the role at any time.
Signed(t, password) ==
    {[token EXCEPT ![t] = [at |-> "signed", iat |-> second, exp |-> second + ttl, password |-> password]] :
        ttl \in {TokenTTL, AdminTokenTTL}}

\* Login and AdminLogin sign for the row they read; LoginEmailCode reads it again,
\* and looks at the role alone.
OpenSession(t) ==
    /\ token[t].at \in {"known", "mailed"} /\ token' \in Signed(t, token[t].password)
    /\ UNCHANGED <<second, person, revoked, hot, signedOut, visit>>

\* The ticket is lost: it expires, runs out of attempts, or the process restarts.
TicketLost(t) ==
    /\ token[t].at \in {"known", "mailed"} /\ token' = [token EXCEPT ![t] = Unsigned]
    /\ UNCHANGED <<second, person, revoked, hot, signedOut, visit>>

-----------------------------------------------------------------------------
\* RequireAuth, ParseToken.
ParseToken(v, t) ==
    /\ visit[v].at = "idle" /\ Unexpired(t)
    /\ visit' = [visit EXCEPT ![v] = [at |-> "parsed", for |-> t, late |-> t \in signedOut, password |-> 0]]
    /\ UNCHANGED <<second, person, token, revoked, hot, signedOut>>

\* Mutant: a token the hot map does not know is taken for good.
KnownRevokedHot(v, t) == t \in hot[v]

\* The table is asked where the hot map does not answer.
KnownRevoked(v, t) == t \in hot[v] \/ t \in revoked

\* IsRevoked: both answers count until the expiry alone; a table out of reach refuses.
IsRevoked(v) ==
    LET t == visit[v].for IN
    /\ visit[v].at = "parsed"
    /\ \/ /\ KnownRevoked(v, t) /\ second < token[t].exp
          /\ IF t \in hot[v] THEN Done(v) ELSE At(v, "parsed", "found")
       \/ ~(KnownRevoked(v, t) /\ second < token[t].exp) /\ At(v, "parsed", "cleared")
       \/ Done(v)
    /\ UNCHANGED <<second, person, token, revoked, hot, signedOut>>

RememberRevoked(v) ==
    /\ visit[v].at = "found" /\ Done(v)
    /\ hot' = [hot EXCEPT ![v] = @ \cup {visit[v].for}]
    /\ UNCHANGED <<second, person, token, revoked, signedOut>>

\* The user's row: active, and no password changed in a later second.
ReadPerson(v) ==
    LET t == visit[v].for IN
    /\ visit[v].at = "cleared"
    /\ IF person.active /\ ~(token[t].iat < person.changed)
       THEN visit' = [visit EXCEPT ![v].at = "served", ![v].password = person.password]
       ELSE Done(v)
    /\ UNCHANGED <<second, person, token, revoked, hot, signedOut>>

\* The handler has answered.
Answer(v) ==
    /\ visit[v].at = "served" /\ Done(v)
    /\ UNCHANGED <<second, person, token, revoked, hot, signedOut>>

-----------------------------------------------------------------------------
\* Logout parses the token; whether it is still accepted does not matter.
Logout(v, t) ==
    /\ visit[v].at = "idle" /\ Unexpired(t)
    /\ visit' = [visit EXCEPT ![v] = [NoVisit EXCEPT !.at = "leaving", !.for = t]]
    /\ UNCHANGED <<second, person, token, revoked, hot, signedOut>>

\* Revoke: the row is committed, or the request fails and says so.
Revoke(v) ==
    /\ visit[v].at = "leaving"
    /\ \/ At(v, "leaving", "left") /\ revoked' = revoked \cup {visit[v].for}
       \/ Done(v) /\ UNCHANGED revoked
    /\ UNCHANGED <<second, person, token, hot, signedOut>>

LeftAnswered(v) ==
    /\ visit[v].at = "left" /\ Done(v)
    /\ hot' = [hot EXCEPT ![v] = @ \cup {visit[v].for}]
    /\ signedOut' = signedOut \cup {visit[v].for}
    /\ UNCHANGED <<second, person, token, revoked>>

\* Mutant: the sweep drops the rows of tokens that expire within the second.
SweptEarly == {t \in revoked : token[t].exp <= second + 1}

Swept == {t \in revoked : token[t].exp <= second}

\* CleanupExpired: the rows, then the replica's own map.
CleanupRows ==
    /\ Swept # {} /\ revoked' = revoked \ Swept
    /\ UNCHANGED <<second, person, token, hot, signedOut, visit>>

CleanupHot(v) ==
    /\ \E t \in hot[v] : token[t].exp <= second
    /\ hot' = [hot EXCEPT ![v] = {t \in @ : token[t].exp > second}]
    /\ UNCHANGED <<second, person, token, revoked, signedOut, visit>>

\* A restart: warmCache loads the rows that live, or fails and starts empty.
RestartReplica(v) ==
    /\ Done(v)
    /\ \E warm \in {{}, {t \in revoked : second < token[t].exp}} : hot' = [hot EXCEPT ![v] = warm]
    /\ UNCHANGED <<second, person, token, revoked, signedOut>>

-----------------------------------------------------------------------------
\* ChangePassword under a session: the old password is checked on the row read.
CheckOldPassword(v) ==
    /\ visit[v].at = "served" /\ token[visit[v].for].password = person.password
    /\ At(v, "served", "change")
    /\ UNCHANGED <<second, person, token, revoked, hot, signedOut>>

NewPassword == person.password < MaxPassword
               /\ person' = [person EXCEPT !.password = @ + 1, !.changed = second]

WritePassword(v) ==
    /\ NewPassword
    /\ visit[v].at = "change"
    /\ visit' = [visit EXCEPT ![v].at = "changed", ![v].password = person.password + 1]
    /\ UNCHANGED <<second, token, revoked, hot, signedOut>>

\* UpdatePassword signs a session anew.
Reissue(v, t) ==
    /\ visit[v].at = "changed" /\ token[t].at = "none" /\ Done(v)
    /\ token' \in Signed(t, visit[v].password)
    /\ UNCHANGED <<second, person, revoked, hot, signedOut>>

\* UpdateUser: the administrator sets a password or a status.
AdminEditsPerson ==
    /\ \/ NewPassword
       \/ person' = [person EXCEPT !.active = ~@]
    /\ UNCHANGED <<second, token, revoked, hot, signedOut, visit>>

SecondPasses ==
    /\ second < MaxSecond /\ second' = second + 1
    /\ UNCHANGED <<person, token, revoked, hot, signedOut, visit>>

SessionsNext ==
    \/ \E t \in Logins : PasswordChecked(t) \/ Challenge(t) \/ OpenSession(t) \/ TicketLost(t)
    \/ \E v \in Replicas :
          \/ \E t \in Tokens : ParseToken(v, t) \/ Logout(v, t)
          \/ \E t \in Reissues : Reissue(v, t)
          \/ IsRevoked(v) \/ RememberRevoked(v) \/ ReadPerson(v) \/ Answer(v)
          \/ Revoke(v) \/ LeftAnswered(v) \/ CleanupHot(v) \/ RestartReplica(v)
          \/ CheckOldPassword(v) \/ WritePassword(v)
    \/ CleanupRows \/ AdminEditsPerson \/ SecondPasses

SessionsSpec == SessionsInit /\ [][SessionsNext]_sessionVars

-----------------------------------------------------------------------------
\* A session whose sign-out was answered is accepted by no replica, whichever one
\* recorded it, restarted, swept or remembered what since, until it would have
\* expired by itself.
LogoutLasts ==
    \A v \in Replicas :
        visit[v].late /\ visit[v].at \in {"cleared", "served"} => second >= token[visit[v].for].exp
=============================================================================
