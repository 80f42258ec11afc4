-------------------------------- MODULE ApiKeys --------------------------------
(***************************************************************************)
(* The keys of the open interface (service/apikey.go, handler/apikey.go,   *)
(* middleware/apikey.go, model/apikey.go).                                 *)
(*                                                                         *)
(* A creation asks whether the account is identified, counts its active    *)
(* keys and inserts, each a statement of its own.  A call with a key reads *)
(* the key, then the account, and then runs.                               *)
(***************************************************************************)
EXTENDS Integers, FiniteSets

CONSTANTS
    Holders,        \* accounts
    Keys,           \* keys that creations may give out
    Creations,      \* requests that create a key
    Calls,          \* calls of the open interface
    MaxAPIKeys,     \* active keys an account may hold
    MaxDay          \* bound on the clock

ASSUME ApiKeysAssumption ==
    /\ MaxAPIKeys \in Nat \ {0} /\ MaxDay \in Nat /\ IsFiniteSet(Creations) /\ IsFiniteSet(Keys)
    /\ {"none"} \cap (Holders \cup Keys) = {}

VARIABLES
    keyHolder,      \* each account: there, active, identified
    apiKey,         \* the rows of the keys
    creation,       \* each creation and for whom
    keyCall,        \* each call and the key it came with
    day             \* the clock

apiKeysVars == <<keyHolder, apiKey, creation, keyCall, day>>

Never == -1
NoKey == [owner |-> "none", status |-> "none", expires |-> Never]
NoCall == [at |-> "idle", key |-> "none"]

ApiKeysTypeOK ==
    /\ keyHolder \in [Holders -> [there : BOOLEAN, active : BOOLEAN, identified : BOOLEAN]]
    /\ apiKey \in [Keys -> [owner : Holders \cup {"none"}, status : {"none", "active", "revoked"},
                            expires : Never..MaxDay + 1]]
    /\ creation \in [Creations -> [at : {"idle", "approved", "counted"}, who : Holders \cup {"none"}]]
    /\ keyCall \in [Calls -> [at : {"idle", "keyed", "runs"}, key : Keys \cup {"none"}]]
    /\ day \in 0..MaxDay

ApiKeysInit ==
    /\ keyHolder = [u \in Holders |-> [there |-> TRUE, active |-> TRUE, identified |-> FALSE]]
    /\ apiKey = [k \in Keys |-> NoKey]
    /\ creation = [c \in Creations |-> [at |-> "idle", who |-> "none"]]
    /\ keyCall = [a \in Calls |-> NoCall] /\ day = 0

\* Expired keys count as active.
ActiveKeys(u) == {k \in Keys : apiKey[k].owner = u /\ apiKey[k].status = "active"}
Usable(key) == key.status = "active" /\ (key.expires = Never \/ key.expires > day)

-----------------------------------------------------------------------------
IsApproved(c, u) ==
    /\ creation[c].at = "idle" /\ keyHolder[u].there /\ keyHolder[u].active /\ keyHolder[u].identified
    /\ creation' = [creation EXCEPT ![c] = [at |-> "approved", who |-> u]]
    /\ UNCHANGED <<keyHolder, apiKey, keyCall, day>>

\* Mutant: the bound is off by one.
BelowBoundLoose(u) == Cardinality(ActiveKeys(u)) <= MaxAPIKeys
BelowBound(u) == Cardinality(ActiveKeys(u)) < MaxAPIKeys

CountKeys(c) ==
    /\ creation[c].at = "approved"
    /\ creation' = [creation EXCEPT ![c] =
           IF BelowBound(creation[c].who) THEN [@ EXCEPT !.at = "counted"]
           ELSE [at |-> "idle", who |-> "none"]]
    /\ UNCHANGED <<keyHolder, apiKey, keyCall, day>>

CreateKey(c, k, expires) ==
    /\ creation[c].at = "counted" /\ apiKey[k] = NoKey /\ expires \in {Never, day + 1}
    /\ apiKey' = [apiKey EXCEPT ![k] =
           [owner |-> creation[c].who, status |-> "active", expires |-> expires]]
    /\ creation' = [creation EXCEPT ![c] = [at |-> "idle", who |-> "none"]]
    /\ UNCHANGED <<keyHolder, keyCall, day>>

\* One conditional UPDATE, by the owner.
RevokeKey(u, k) ==
    /\ apiKey[k].owner = u /\ apiKey[k].status = "active" /\ keyHolder[u].there /\ keyHolder[u].active
    /\ apiKey' = [apiKey EXCEPT ![k].status = "revoked"]
    /\ UNCHANGED <<keyHolder, creation, keyCall, day>>

-----------------------------------------------------------------------------
Authenticate(a, k) ==
    /\ keyCall[a].at = "idle" /\ Usable(apiKey[k])
    /\ keyCall' = [keyCall EXCEPT ![a] = [at |-> "keyed", key |-> k]]
    /\ UNCHANGED <<keyHolder, apiKey, creation, day>>

\* The account is read again for every call; a key of no account is refused.
ReadOwner(a) ==
    /\ keyCall[a].at = "keyed"
    /\ LET u == apiKey[keyCall[a].key].owner
           known == u # "none" /\ keyHolder[u].there /\ keyHolder[u].active IN
       keyCall' = [keyCall EXCEPT ![a] = IF known THEN [@ EXCEPT !.at = "runs"] ELSE NoCall]
    /\ UNCHANGED <<keyHolder, apiKey, creation, day>>

Returns(a) ==
    /\ keyCall[a].at = "runs"
    /\ keyCall' = [keyCall EXCEPT ![a] = NoCall]
    /\ UNCHANGED <<keyHolder, apiKey, creation, day>>

-----------------------------------------------------------------------------
\* What the staff does to the account: its identification and its status.
HolderChanges(u, active, identified) ==
    /\ keyHolder[u].there
    /\ keyHolder' = [keyHolder EXCEPT ![u].active = active, ![u].identified = identified]
    /\ UNCHANGED <<apiKey, creation, keyCall, day>>

\* DeleteUser takes the keys with it.
DeleteUserKeys(u) ==
    /\ keyHolder[u].there
    /\ keyHolder' = [keyHolder EXCEPT ![u].there = FALSE]
    /\ apiKey' = [k \in Keys |-> IF apiKey[k].owner = u
                      THEN [NoKey EXCEPT !.status = "revoked"] ELSE apiKey[k]]
    /\ UNCHANGED <<creation, keyCall, day>>

DayPasses ==
    /\ day < MaxDay
    /\ day' = day + 1
    /\ UNCHANGED <<keyHolder, apiKey, creation, keyCall>>

ApiKeysNext ==
    \/ \E c \in Creations, u \in Holders : IsApproved(c, u)
    \/ \E c \in Creations : CountKeys(c)
    \/ \E c \in Creations, k \in Keys, e \in {Never, day + 1} : CreateKey(c, k, e)
    \/ \E u \in Holders, k \in Keys : RevokeKey(u, k)
    \/ \E a \in Calls, k \in Keys : Authenticate(a, k)
    \/ \E a \in Calls : ReadOwner(a)
    \/ \E a \in Calls : Returns(a)
    \/ \E u \in Holders, active, identified \in BOOLEAN : HolderChanges(u, active, identified)
    \/ \E u \in Holders : DeleteUserKeys(u)
    \/ DayPasses

ApiKeysSpec == ApiKeysInit /\ [][ApiKeysNext]_apiKeysVars

-----------------------------------------------------------------------------
(***************************************************************************)
(* An account's active keys pass the bound by no more than the creations   *)
(* that counted at once, less one: the count and the insertion are apart   *)
(* (apikey.go:69-96).                                                      *)
(***************************************************************************)
KeysBounded ==
    \A u \in Holders :
        Cardinality(ActiveKeys(u)) + Cardinality({c \in Creations :
            creation[c].at = "counted" /\ creation[c].who = u})
          <= MaxAPIKeys + Cardinality(Creations) - 1
=============================================================================
