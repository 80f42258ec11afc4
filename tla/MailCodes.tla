------------------------------- MODULE MailCodes -------------------------------
(***************************************************************************)
(* Codes by mail (service/email.go, handler/email.go, mailer/mailer.go):   *)
(* the code that a registration asks for and the ticket of a login, both   *)
(* in the memory of one process, and the mail that carries them.           *)
(*                                                                         *)
(* A section under the mutex is a step, and so is the mail in between,     *)
(* which may take longer than resendInterval: the connection is given 15   *)
(* seconds and tried up to three times, the session 60.  Codes are         *)
(* numbered; a guess is right or wrong.                                    *)
(***************************************************************************)
EXTENDS Integers, FiniteSets, Functions, Smtp

CONSTANTS
    Mailings,                 \* requests that send a mail
    CodeTTL, ResendInterval, Hour,
    HourlyCap, CodeMaxAttempts,
    MaxMinute, MaxCodes       \* bounds on time and on codes drawn

ASSUME MailCodesAssumption ==
    /\ {CodeTTL, ResendInterval, Hour, HourlyCap, CodeMaxAttempts} \subseteq Nat \ {0}
    /\ {MaxMinute, MaxCodes} \subseteq Nat

VARIABLES
    minute,        \* time.Now()
    drawn,         \* codes drawn
    code,          \* codes[key] of one address, number 0 where there is none
    resend,        \* resend[key], -1 where there is none
    hourly,        \* hourly[key]
    mailing,       \* each request's mail
    guesses        \* history: at each minute, guesses that were compared

mailVars == <<minute, drawn, code, resend, hourly, mailing, guesses>>

NoCode == [number |-> 0, expires |-> 0, attempts |-> 0]
NotMailing == [at |-> "idle", encryption |-> "auto", over |-> "failed"]

MailCodesTypeOK ==
    /\ minute \in 0..MaxMinute /\ drawn \in 0..MaxCodes
    /\ code \in [number : 0..MaxCodes, expires : Nat, attempts : 0..CodeMaxAttempts]
    /\ resend \in -1..MaxMinute /\ hourly \subseteq 0..MaxMinute
    /\ mailing \in [Mailings -> [at : {"idle", "sending", "sent"},
                                 encryption : Encryptions, over : {"tls", "clear", "failed"}]]
    /\ guesses \in [0..MaxMinute -> Nat]

AllIdle == [r \in Mailings |-> NotMailing]
NoGuesses == [t \in 0..MaxMinute |-> 0]

MailCodesInit ==
    /\ minute = 0 /\ drawn = 0 /\ code = NoCode /\ resend = -1 /\ hourly = {}
    /\ mailing = AllIdle /\ guesses = NoGuesses

-----------------------------------------------------------------------------
\* The hour before now, with the mail that is asked for counted in.
Recent == {t \in hourly : minute - t < Hour} \cup {minute}

\* Mutant: as many mails as the cap says.
WithinCapLoose == Cardinality(Recent) <= HourlyCap

\* The cap is compared with the new one counted in: one less than it is let out.
WithinCap == Cardinality(Recent) < HourlyCap

\* SendEmailCode: the new code takes the place of any other.
SendEmailCode(r) ==
    /\ mailing[r].at = "idle" /\ drawn < MaxCodes
    /\ ~(resend # -1 /\ minute - resend < ResendInterval) /\ WithinCap
    /\ drawn' = drawn + 1 /\ resend' = minute /\ hourly' = Recent
    /\ code' = [number |-> drawn + 1, expires |-> minute + CodeTTL, attempts |-> CodeMaxAttempts]
    /\ mailing' = [mailing EXCEPT ![r] = [NotMailing EXCEPT !.at = "sending"]]
    /\ UNCHANGED <<minute, guesses>>

\* What may become of a mail under a setting, whatever server answers, if any.
Ways(encryption) ==
    {"failed"} \cup {SentOver(encryption, server, slow, user) :
                        server \in Servers, slow \in BOOLEAN, user \in BOOLEAN}

\* Send, under the setting of the moment.
MailGoes(r) ==
    /\ mailing[r].at = "sending"
    /\ \E encryption \in Encryptions : \E over \in Ways(encryption) :
          mailing' = [mailing EXCEPT ![r] = [at |-> "sent", encryption |-> encryption, over |-> over]]
    /\ UNCHANGED <<minute, drawn, code, resend, hourly, guesses>>

\* "A failed mail voids the code": the key's, whichever code that is by now.
MailAnswered(r) ==
    /\ mailing[r].at = "sent"
    /\ code' = IF mailing[r].over = "failed" THEN NoCode ELSE code
    /\ mailing' = [mailing EXCEPT ![r] = NotMailing]
    /\ UNCHANGED <<minute, drawn, resend, hourly, guesses>>

\* Mutant: only a right guess uses the code up.
AfterWrongFree == code

\* A wrong guess costs an attempt.
AfterWrong == [code EXCEPT !.attempts = @ - 1]

\* VerifyEmailCode.
VerifyEmailCode ==
    /\ code # NoCode
    /\ IF minute > code.expires \/ code.attempts = 0
       THEN code' = NoCode /\ UNCHANGED guesses
       ELSE /\ code' \in {NoCode, AfterWrong}
            /\ guesses' = [guesses EXCEPT ![minute] = @ + 1]
    /\ UNCHANGED <<minute, drawn, resend, hourly, mailing>>

\* A restart forgets codes, limits and mails; guesses count for one process.
MailerRestarts ==
    /\ code' = NoCode /\ resend' = -1 /\ hourly' = {} /\ mailing' = AllIdle /\ guesses' = NoGuesses
    /\ UNCHANGED <<minute, drawn>>

MinutePasses ==
    /\ minute < MaxMinute /\ minute' = minute + 1
    /\ UNCHANGED <<drawn, code, resend, hourly, mailing, guesses>>

MailCodesNext ==
    \/ \E r \in Mailings : SendEmailCode(r) \/ MailGoes(r) \/ MailAnswered(r)
    \/ VerifyEmailCode \/ MailerRestarts \/ MinutePasses

MailCodesSpec == MailCodesInit /\ [][MailCodesNext]_mailVars

-----------------------------------------------------------------------------
\* Within an hour one process compares no more guesses with the codes of an address
\* than the hourly cap times the attempts of a code, however sends, failures and
\* expiries fall: the cap lets one mail less out, and one code may be older.
GuessesBounded ==
    \A start \in 0..MaxMinute :
        LET window == {t \in start..MaxMinute : t < start + Hour} IN
        SumFunctionOnSet(guesses, window) <= HourlyCap * CodeMaxAttempts

\* A mail never leaves in the clear where TLS was demanded.
NeverSilentlyClear ==
    \A r \in Mailings : mailing[r].encryption \in {"ssl", "starttls"} => mailing[r].over # "clear"
=============================================================================
