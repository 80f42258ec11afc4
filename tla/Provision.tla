------------------------------ MODULE Provision ------------------------------
(***************************************************************************)
(* From the paid service to the host upstream (service/order.go, provision *)
(* and retry; admin.go, creation, binding, deletion and status of a        *)
(* service; upstream.go, the interface; the manager's CreateOrder and      *)
(* GetHost).                                                               *)
(*                                                                         *)
(* One service of an upstream product.  Each request, the payer's, the     *)
(* customer's retry, the administrator's, reads the row, calls the plugin  *)
(* and writes the outcome without a condition: the read, the call and the  *)
(* write are steps of their own.                                           *)
(***************************************************************************)
EXTENDS Integers, FiniteSets

CONSTANTS
    Requests,      \* requests to provision the service
    Hosts,         \* names the upstream gives
    MaxHostEdits   \* bound on what administrators do

ASSUME ProvisionAssumption == MaxHostEdits \in Nat /\ "none" \notin Hosts

VARIABLES
    svc,           \* the Service row
    link,          \* the product's link upstream: its interface exists, the plugin serves it
    hosts,         \* hosts that live upstream
    call,          \* each request: where it is and what it holds
    deletion,      \* DeleteService under way, and the host it terminated
    accident,      \* history: one of the things happened that cost a host
    adminEdits     \* edits left

provisionVars == <<svc, link, hosts, call, deletion, accident, adminEdits>>

NoHost == "none"
Unstarted == [at |-> "idle", host |-> NoHost]
Status == {"pending", "failed", "active", "suspended", "deleted"}

ProvisionTypeOK ==
    /\ svc \in [status : Status, host : Hosts \cup {NoHost}]
    /\ link \in [iface : BOOLEAN, serving : BOOLEAN]
    /\ hosts \subseteq Hosts
    /\ call \in [Requests -> [at : {"idle", "called", "made", "done"}, host : Hosts \cup {NoHost}]]
    /\ deletion \in [on : BOOLEAN, host : Hosts \cup {NoHost}]
    /\ accident \in BOOLEAN /\ adminEdits \in 0..MaxHostEdits

ProvisionInit ==
    /\ svc = [status |-> "pending", host |-> NoHost]
    /\ link = [iface |-> TRUE, serving |-> TRUE]
    /\ hosts = {}
    /\ call = [r \in Requests |-> Unstarted]
    /\ deletion = [on |-> FALSE, host |-> NoHost]
    /\ accident = FALSE
    /\ adminEdits = MaxHostEdits

\* resolvePluginForProduct.
Resolved == link.iface

\* Manager.CreateOrder gets as far as the plugin: it is running and has the capability.
Reaches == link.serving

\* Mutant: a service that runs is provisioned again.
RetriableEver == svc.status # "deleted"

\* RetryProvision, AdminRetryProvision and provisionOne ask the same of the row.
Retriable == svc.status \in {"pending", "failed"}

\* provisionOne writes by the row's key: nothing, once it is deleted.
WriteService(status, host) ==
    svc' = IF svc.status = "deleted" THEN svc ELSE [status |-> status, host |-> host]

Finish(r) == call' = [call EXCEPT ![r] = [at |-> "done", host |-> NoHost]]

Busy == \E r \in Requests : call[r].at \in {"called", "made"}

\* provisionOne up to the call; without an interface the row turns failed at once.
\* Nothing keeps a second request away while the first is under way.
StartProvision(r) ==
    /\ call[r].at = "idle" /\ Retriable
    /\ accident' = (accident \/ Busy)
    /\ \/ /\ Resolved
          /\ call' = [call EXCEPT ![r].at = "called"]
          /\ UNCHANGED svc
       \/ ~Resolved /\ Finish(r) /\ WriteService("failed", svc.host)
    /\ UNCHANGED <<link, hosts, deletion, adminEdits>>

\* CreateOrder's outcome as createUpstreamOrder takes it: a host; a refusal, or a
\* plugin out of reach; or a host whose answer was lost, taken for a refusal.
OrderAnswered(r) ==
    /\ call[r].at = "called"
    /\ \/ \E h \in Hosts \ hosts :
             /\ Reaches /\ hosts' = hosts \cup {h}
             /\ \/ /\ call' = [call EXCEPT ![r] = [at |-> "made", host |-> h]]
                   /\ UNCHANGED <<svc, accident>>
                \/ Finish(r) /\ WriteService("failed", svc.host) /\ accident' = TRUE
       \/ Finish(r) /\ WriteService("failed", svc.host) /\ UNCHANGED <<hosts, accident>>
    /\ UNCHANGED <<link, deletion, adminEdits>>

\* The write of a success, after GetHost was asked for the expiry (its failure does
\* not matter).  Whatever host the row holds is overwritten; a row that is gone
\* records nothing.
RecordHost(r) ==
    /\ call[r].at = "made"
    /\ WriteService("active", call[r].host) /\ Finish(r)
    /\ accident' = (accident \/ svc.status = "deleted")
    /\ UNCHANGED <<link, hosts, deletion, adminEdits>>

\* The process stops in the middle of the request: nothing resumes it.
ProvisionLost(r) ==
    /\ call[r].at \in {"called", "made"}
    /\ Finish(r) /\ accident' = (accident \/ call[r].at = "made")
    /\ UNCHANGED <<svc, link, hosts, deletion, adminEdits>>

-----------------------------------------------------------------------------
Edited == adminEdits > 0 /\ adminEdits' = adminEdits - 1

\* Update and Delete of the interface, and the plugin coming and going.
EditLink(iface, serving) ==
    /\ Edited /\ link' = [iface |-> iface, serving |-> serving]
    /\ UNCHANGED <<svc, hosts, call, deletion, accident>>

\* SetServiceStatus: whatever the service was; with a host, only what the plugin did.
SetServiceStatus(status) ==
    /\ Edited /\ svc.status \notin {"deleted", status}
    /\ svc.host # NoHost => link.serving
    /\ svc' = [svc EXCEPT !.status = status]
    /\ UNCHANGED <<link, hosts, call, deletion, accident>>

\* BindServiceUpstream to a host the plugin knows, or to none: the old host is let go,
\* and so is the new one if the service can still be provisioned.
BindServiceUpstream(h) ==
    /\ Edited /\ svc.status # "deleted"
    /\ h # NoHost => h \in hosts /\ link.serving
    /\ svc' = [svc EXCEPT !.host = h]
    /\ accident' = (accident \/ svc.host \notin {NoHost, h} \/ (h # NoHost /\ (Retriable \/ Busy)))
    /\ UNCHANGED <<link, hosts, call, deletion>>

\* DeleteService terminates the host it read, ...
StartDelete ==
    /\ Edited /\ ~deletion.on /\ svc.status # "deleted"
    /\ svc.host # NoHost => link.serving
    /\ hosts' = hosts \ {svc.host}
    /\ deletion' = [on |-> TRUE, host |-> svc.host]
    /\ UNCHANGED <<svc, link, call, accident>>

\* ... then deletes the row: a host that was recorded in between is dropped with it.
DeleteService ==
    /\ deletion.on
    /\ svc' = [status |-> "deleted", host |-> NoHost]
    /\ deletion' = [on |-> FALSE, host |-> NoHost]
    /\ accident' = (accident \/ svc.host # deletion.host)
    /\ UNCHANGED <<link, hosts, call, adminEdits>>

\* CreateServiceForUser with two or more: the hosts are made inside the transaction,
\* and a later refusal rolls the rows back, not the hosts.
CreateServicesFails(h) ==
    /\ Edited /\ Resolved /\ Reaches /\ h \notin hosts
    /\ hosts' = hosts \cup {h} /\ accident' = TRUE
    /\ UNCHANGED <<svc, link, call, deletion>>

ProvisionNext ==
    \/ \E r \in Requests :
          StartProvision(r) \/ OrderAnswered(r) \/ RecordHost(r) \/ ProvisionLost(r)
    \/ \E iface, serving \in BOOLEAN : EditLink(iface, serving)
    \/ \E status \in {"active", "suspended"} : SetServiceStatus(status)
    \/ \E h \in Hosts : BindServiceUpstream(h) \/ CreateServicesFails(h)
    \/ BindServiceUpstream(NoHost) \/ StartDelete \/ DeleteService

ProvisionSpec == ProvisionInit /\ [][ProvisionNext]_provisionVars

-----------------------------------------------------------------------------
\* Retries, refusals and edits in any order leave no host behind: every host is held
\* by the row or by a request under way, unless one of these happened, each of which
\* the code lets cost a host: an answer or a process lost, two requests at once, a
\* deletion during a request, a second binding, a creation that failed half way.
HostsHeld ==
    ~accident => hosts \subseteq {svc.host} \cup {call[r].host : r \in Requests}
=============================================================================
