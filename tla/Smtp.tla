---------------------------------- MODULE Smtp ----------------------------------
(***************************************************************************)
(* How a mail leaves (mailer/mailer.go): which connection is made to which *)
(* server under which encryption setting, and what it is sent over.        *)
(*                                                                         *)
(* A server is what it shows on the port: whether TLS comes before         *)
(* anything else, whether it offers STARTTLS, how it lets users in, and    *)
(* whether it is this very host.                                           *)
(* The result of every operator is "tls", "clear" or "failed".             *)
(***************************************************************************)

\* The setting; the old switch only picks the first guess of "auto".
Encryptions == {"ssl", "starttls", "none", "auto", "auto-ssl"}

Mechanisms == {"PLAIN", "LOGIN"}

Servers == [implicit : BOOLEAN, starttls : BOOLEAN, local : BOOLEAN, mechanisms : SUBSET Mechanisms]

\* dialTLSOnly, dialPlainOnly: no second guess.
DialTLSOnly(server) == IF server.implicit THEN "tls" ELSE "failed"

DialPlainOnly(server) == "clear"

\* A server that greets in the clear is dialled again without TLS.
DialTLSWithPlainFallback(server) == IF server.implicit THEN "tls" ELSE "clear"

\* A server that is silent for greetProbe, or speaks TLS, is dialled with TLS: one
\* that was merely slow comes back in the clear.
DialPlainWithTLSFallback(server, slow) ==
    IF server.implicit \/ slow THEN DialTLSWithPlainFallback(server) ELSE "clear"

DialConn(encryption, server, slow) ==
    CASE encryption = "ssl" -> DialTLSOnly(server)
      [] encryption \in {"starttls", "none"} -> DialPlainOnly(server)
      [] encryption = "auto-ssl" -> DialTLSWithPlainFallback(server)
      [] encryption = "auto" -> DialPlainWithTLSFallback(server, slow)

\* Mutant: the mail is sent anyway where STARTTLS is not offered.
UpgradedSilently(encryption, server) == IF server.starttls THEN "tls" ELSE "clear"

\* The upgrade: required where it was asked for, taken where it is offered.
Upgraded(encryption, server) ==
    IF encryption = "none" THEN "clear"
    ELSE IF server.starttls THEN "tls"
    ELSE IF encryption = "starttls" THEN "failed" ELSE "clear"

\* The session in front of it: in the clear, a TLS server never says a word.
Secured(encryption, server, slow) ==
    LET dialled == DialConn(encryption, server, slow) IN
    IF dialled = "clear"
    THEN IF server.implicit THEN "failed" ELSE Upgraded(encryption, server)
    ELSE dialled

\* The login, where there is a user: LOGIN goes over anything, PLAIN over
\* TLS or within the host.
LoggedIn(over, server, user) ==
    IF user /\ over = "clear" /\ server.mechanisms = {"PLAIN"} /\ ~server.local THEN "failed" ELSE over

\* Send.
SentOver(encryption, server, slow, user) ==
    LoggedIn(Secured(encryption, server, slow), server, user)
=============================================================================
