--------------------------------- MODULE Estate --------------------------------
(***************************************************************************)
(* Services that administrators open, bind and delete by hand              *)
(* (service/admin.go: CreateServiceForUser, BindServiceUpstream,           *)
(* DeleteService, BatchDeleteServices, DeleteUser, BatchDeleteUsers), and  *)
(* the machines at the upstream behind them.                               *)
(*                                                                         *)
(* Every call to the upstream is a step apart from the reading and the     *)
(* writing of the row; it may be refused, and its answer may be lost.      *)
(***************************************************************************)
EXTENDS Integers, FiniteSets

CONSTANTS
    Tenants,        \* accounts
    Rows,           \* Service rows
    Machines,       \* machines the upstream may run
    Errands,        \* requests of administrators
    MaxQuantity     \* bound on the units of one opening (100 in the code)

NoMachine == "none"

ASSUME EstateAssumption ==
    /\ {NoMachine} \cap (Machines \cup Rows \cup Tenants) = {}
    /\ IsFiniteSet(Machines) /\ MaxQuantity \in Nat

VARIABLES
    tenant,         \* accounts that exist
    row,            \* the Service rows
    upstream,       \* machines that run
    ordered,        \* machine ids given out; none is given out again
    errand,         \* each request and what it has read and done
    stray           \* history: machines left running with no row, in the ways named below

estateVars == <<tenant, row, upstream, ordered, errand, stray>>

NoRow == [life |-> "none", owner |-> "none", machine |-> NoMachine]
NoErrand == [at |-> "idle", who |-> "none", row |-> "none", machine |-> NoMachine,
             made |-> {}, left |-> 0, listed |-> {}, rest |-> {}]

EstateTypeOK ==
    /\ tenant \subseteq Tenants /\ upstream \subseteq ordered /\ ordered \subseteq Machines /\ stray \subseteq Machines
    /\ row \in [Rows -> [life : {"none", "here", "gone"}, owner : Tenants \cup {"none"},
                         machine : Machines \cup {NoMachine}]]
    /\ errand \in [Errands -> [at : {"idle", "opening", "binding", "terminate", "delete", "batch",
                                     "cascade"},
                               who : Tenants \cup {"none"}, row : Rows \cup {"none"},
                               machine : Machines \cup {NoMachine}, made : SUBSET Machines,
                               left : 0..MaxQuantity, listed : SUBSET Rows, rest : SUBSET Rows]]

EstateInit ==
    /\ tenant = Tenants /\ upstream = {} /\ ordered = {} /\ stray = {}
    /\ row = [s \in Rows |-> NoRow] /\ errand = [e \in Errands |-> NoErrand]

Bound == {row[s].machine : s \in {r \in Rows : row[r].life = "here"}}
EndsErrand(e) == errand' = [errand EXCEPT ![e] = NoErrand]

-----------------------------------------------------------------------------
\* CreateServiceForUser: the units are ordered one by one inside a transaction.
BeginOpening(e, u, quantity) ==
    /\ errand[e].at = "idle" /\ u \in tenant
    /\ errand' = [errand EXCEPT ![e] = [NoErrand EXCEPT !.at = "opening", !.who = u, !.left = quantity]]
    /\ UNCHANGED <<tenant, row, upstream, ordered, stray>>

OpenUnit(e, m) ==
    /\ errand[e].at = "opening" /\ errand[e].left > 0 /\ m \notin ordered
    /\ upstream' = upstream \cup {m} /\ ordered' = ordered \cup {m}
    /\ errand' = [errand EXCEPT ![e].made = @ \cup {m}, ![e].left = @ - 1]
    /\ UNCHANGED <<tenant, row, stray>>

\* A refused unit rolls the rows back; the machines ordered before it stay.
OpeningFails(e, lost) ==
    /\ errand[e].at = "opening" /\ lost \cap ordered = {}
    /\ upstream' = upstream \cup lost /\ ordered' = ordered \cup lost
    /\ stray' = stray \cup errand[e].made \cup lost
    /\ EndsErrand(e)
    /\ UNCHANGED <<tenant, row>>

OpeningCommits(e, at) ==
    /\ errand[e].at = "opening" /\ errand[e].left = 0
    /\ DOMAIN at = errand[e].made
    /\ row' = [s \in Rows |-> IF \E m \in DOMAIN at : at[m] = s
                   THEN [life |-> "here", owner |-> errand[e].who,
                         machine |-> CHOOSE m \in DOMAIN at : at[m] = s]
                   ELSE row[s]]
    /\ EndsErrand(e)
    /\ UNCHANGED <<tenant, upstream, ordered, stray>>

\* The distinct new rows a set of machines is written to.
Seats(made) == {f \in [made -> {s \in Rows : row[s].life = "none"}] :
                    \A m, n \in made : f[m] = f[n] => m = n}

-----------------------------------------------------------------------------
\* BindServiceUpstream: GetHost answers for the machine, the row is then written by id.
CheckHost(e, s, m) ==
    /\ errand[e].at = "idle" /\ row[s].life = "here"
    /\ m \in upstream \cup {NoMachine}
    /\ errand' = [errand EXCEPT ![e] = [NoErrand EXCEPT !.at = "binding", !.row = s, !.machine = m]]
    /\ UNCHANGED <<tenant, row, upstream, ordered, stray>>

\* The machine that was bound before goes on running.
WriteBinding(e) ==
    LET s == errand[e].row
        m == errand[e].machine IN
    /\ errand[e].at = "binding"
    /\ IF row[s].life = "here"
       THEN /\ row' = [row EXCEPT ![s].machine = m]
            /\ stray' = (stray \cup ({row[s].machine} \ {NoMachine})) \ {m}
       ELSE UNCHANGED <<row, stray>>
    /\ EndsErrand(e)
    /\ UNCHANGED <<tenant, upstream, ordered>>

-----------------------------------------------------------------------------
\* DeleteService, alone or as a step of BatchDeleteUsers.
ReadService(e, s) ==
    /\ row[s].life = "here"
    /\ \/ errand[e].at = "idle"
       \/ errand[e].at = "batch" /\ s \in errand[e].rest
    /\ errand' = [errand EXCEPT ![e] = [@ EXCEPT !.row = s, !.machine = row[s].machine,
           !.rest = errand[e].rest \ {s}, !.at = IF row[s].machine = NoMachine THEN "delete" ELSE "terminate"]]
    /\ UNCHANGED <<tenant, row, upstream, ordered, stray>>

Terminate(e) ==
    /\ errand[e].at = "terminate"
    /\ upstream' = upstream \ {errand[e].machine}
    /\ errand' = [errand EXCEPT ![e].at = "delete"]
    /\ UNCHANGED <<tenant, row, ordered, stray>>

\* The error keeps the row and, in a batch, the account.
\* Mutant: the row is deleted all the same.
DeletedAnyway(e) == [errand[e] EXCEPT !.at = "delete"]
AfterRefusal(e) == NoErrand

\* The upstream refuses, or its answer is lost with the machine gone.
TerminateFails(e, gone) ==
    /\ errand[e].at = "terminate"
    /\ upstream' = IF gone THEN upstream \ {errand[e].machine} ELSE upstream
    /\ errand' = [errand EXCEPT ![e] = AfterRefusal(e)]
    /\ UNCHANGED <<tenant, row, ordered, stray>>

\* The row of this id; a machine bound to it since the first reading is left running.
DeleteRow(e) ==
    LET s == errand[e].row IN
    /\ errand[e].at = "delete"
    /\ row' = [row EXCEPT ![s] = [NoRow EXCEPT !.life = "gone"]]
    /\ stray' = stray \cup ({row[s].machine} \ {NoMachine, errand[e].machine})
    /\ errand' = [errand EXCEPT ![e] = IF row[s].life = "here" /\ @.who # "none"
                      THEN [@ EXCEPT !.at = "batch"] ELSE NoErrand]
    /\ UNCHANGED <<tenant, upstream, ordered>>

-----------------------------------------------------------------------------
\* BatchDeleteUsers lists the rows with a machine; DeleteUser lists none.
Backed(u) == {s \in Rows : row[s].life = "here" /\ row[s].owner = u /\ row[s].machine # NoMachine}

BeginDeleteUser(e, u, batch) ==
    /\ errand[e].at = "idle" /\ u \in tenant
    /\ LET listed == IF batch THEN Backed(u) ELSE {} IN
       errand' = [errand EXCEPT ![e] = [NoErrand EXCEPT !.who = u, !.listed = listed, !.rest = listed,
                      !.at = IF batch THEN "batch" ELSE "cascade"]]
    /\ UNCHANGED <<tenant, row, upstream, ordered, stray>>

\* A row deleted by someone else is not found: the account stays.
BatchStops(e) ==
    /\ errand[e].at = "batch" /\ \E s \in errand[e].rest : row[s].life = "gone"
    /\ EndsErrand(e)
    /\ UNCHANGED <<tenant, row, upstream, ordered, stray>>

BatchReachesUser(e) ==
    /\ errand[e].at = "batch" /\ errand[e].rest = {}
    /\ errand' = [errand EXCEPT ![e].at = "cascade"]
    /\ UNCHANGED <<tenant, row, upstream, ordered, stray>>

\* The rows go with the account and no machine is asked about; only those the
\* batch had listed were looked at.
Cascade(e) ==
    LET u == errand[e].who
        taken == {s \in Rows : row[s].life = "here" /\ row[s].owner = u} IN
    /\ errand[e].at = "cascade"
    /\ tenant' = tenant \ {u}
    /\ row' = [s \in Rows |-> IF s \in taken THEN [NoRow EXCEPT !.life = "gone"] ELSE row[s]]
    /\ stray' = stray \cup ({row[s].machine : s \in taken \ errand[e].listed} \ {NoMachine})
    /\ EndsErrand(e)
    /\ UNCHANGED <<upstream, ordered>>

EstateNext ==
    \/ \E e \in Errands, u \in Tenants, q \in 1..MaxQuantity : BeginOpening(e, u, q)
    \/ \E e \in Errands, m \in Machines : OpenUnit(e, m)
    \/ \E e \in Errands : OpeningFails(e, {})
    \/ \E e \in Errands, m \in Machines : errand[e].left > 0 /\ OpeningFails(e, {m})
    \/ \E e \in Errands : \E at \in Seats(errand[e].made) : OpeningCommits(e, at)
    \/ \E e \in Errands, s \in Rows, m \in Machines \cup {NoMachine} : CheckHost(e, s, m)
    \/ \E e \in Errands : WriteBinding(e)
    \/ \E e \in Errands, s \in Rows : ReadService(e, s)
    \/ \E e \in Errands : Terminate(e)
    \/ \E e \in Errands, gone \in BOOLEAN : TerminateFails(e, gone)
    \/ \E e \in Errands : DeleteRow(e)
    \/ \E e \in Errands, u \in Tenants, batch \in BOOLEAN : BeginDeleteUser(e, u, batch)
    \/ \E e \in Errands : BatchStops(e)
    \/ \E e \in Errands : BatchReachesUser(e)
    \/ \E e \in Errands : Cascade(e)

EstateSpec == EstateInit /\ [][EstateNext]_estateVars

-----------------------------------------------------------------------------
(***************************************************************************)
(* A running machine has a row, or was left without one in a way the code  *)
(* chooses: unbound or replaced by hand, ordered in an opening that then   *)
(* failed, or of a row that an account's deletion took without listing it. *)
(* A refused TERMINATE loses none (admin.go:958-962, :1566-1577).          *)
(***************************************************************************)
NoMachineLost ==
    upstream \subseteq Bound \cup stray \cup UNION {errand[e].made : e \in Errands}
=============================================================================
