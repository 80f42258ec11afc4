--------------------------------- MODULE Notify --------------------------------
(***************************************************************************)
(* Notices by mail and the end of the process (notify/notify.go,           *)
(* notify/events.go, handler/handler.go, cmd/levis/main.go).               *)
(*                                                                         *)
(* Two notifiers share the plugin host, one for web requests and one for   *)
(* the patrol: each has a bounded queue, a worker that the first notice    *)
(* starts, and a channel that is closed to stop it.  On a signal main      *)
(* drains the web server, tells the patrol, closes the web's notifier and  *)
(* then the plugin host, and waits for the patrol in none of this.         *)
(***************************************************************************)
EXTENDS Integers, Sequences

CONSTANTS
    WebNotices, PatrolNotices,    \* events that send a notice
    QueueSize                     \* queueSize, 128 in the code

ASSUME NotifyAssumption == QueueSize \in Nat \ {0} /\ WebNotices \cap PatrolNotices = {}

VARIABLES
    post,           \* how far each notice got
    outbox,         \* queue, of each notifier
    postman,        \* its worker
    shut,           \* its closed channel
    phase,          \* how far main got
    patrol,         \* the patrol's goroutine
    hasty           \* main went on while web requests might run

notifyVars == <<post, outbox, postman, shut, phase, patrol, hasty>>

Notifiers == {"web", "patrol"}
NoticesOf == [web |-> WebNotices, patrol |-> PatrolNotices]
Posts == WebNotices \cup PatrolNotices

NotifyTypeOK ==
    /\ post \in [Posts -> {"new", "begun", "entering", "queued", "full", "closed",
                           "sending", "sent", "unsent", "cutOff"}]
    /\ outbox \in [Notifiers -> Seq(Posts)]
    /\ \A n \in Notifiers : outbox[n] \in Seq(NoticesOf[n]) /\ Len(outbox[n]) <= QueueSize
    /\ postman \in [Notifiers -> {"none", "idle", "sending", "gone"}]
    /\ shut \in [Notifiers -> BOOLEAN]
    /\ phase \in {"serving", "draining", "drained", "told", "closing", "stopping", "exited"}
    /\ patrol \in {"running", "closing", "ended"}
    /\ hasty \in BOOLEAN

NotifyInit ==
    /\ post = [m \in Posts |-> "new"]
    /\ outbox = [n \in Notifiers |-> <<>>]
    /\ postman = [n \in Notifiers |-> "none"]
    /\ shut = [n \in Notifiers |-> FALSE]
    /\ phase = "serving" /\ patrol = "running" /\ hasty = FALSE

Gets(m, from, to) == post[m] = from /\ post' = [post EXCEPT ![m] = to]

\* A handler or a round of the patrol is on its way to a notice: a request while the
\* server takes some, a round one at a time until the patrol has heard the end.
Begin(n, m) ==
    /\ Gets(m, "new", "begun")
    /\ n = "web" => phase \in {"serving", "draining"} \/ hasty
    /\ n = "patrol" => patrol = "running"
                       /\ \A other \in PatrolNotices : post[other] \notin {"begun", "entering"}
    /\ UNCHANGED <<outbox, postman, shut, phase, patrol, hasty>>

\* It may well end without one.
EndWithout(m) ==
    /\ Gets(m, "begun", "unsent")
    /\ UNCHANGED <<outbox, postman, shut, phase, patrol, hasty>>

\* enqueue, start.Do: the first notice starts the worker, whatever was closed before.
EnterQueue(n, m) ==
    /\ Gets(m, "begun", "entering")
    /\ postman' = [postman EXCEPT ![n] = IF @ = "none" THEN "idle" ELSE @]
    /\ UNCHANGED <<outbox, shut, phase, patrol, hasty>>

\* enqueue, its select: any branch that is ready, the default where none is.
Queue(n, m) ==
    /\ Gets(m, "entering", "queued") /\ Len(outbox[n]) < QueueSize
    /\ outbox' = [outbox EXCEPT ![n] = Append(@, m)]
    /\ UNCHANGED <<postman, shut, phase, patrol, hasty>>

Drop(n, m) ==
    /\ Gets(m, "entering", "full") /\ Len(outbox[n]) = QueueSize /\ ~shut[n]
    /\ UNCHANGED <<outbox, postman, shut, phase, patrol, hasty>>

MeetClosed(n, m) ==
    /\ Gets(m, "entering", "closed") /\ shut[n]
    /\ UNCHANGED <<outbox, postman, shut, phase, patrol, hasty>>

\* work, its select: either branch where both are ready.
TakeNext(n) ==
    /\ postman[n] = "idle" /\ outbox[n] # <<>>
    /\ postman' = [postman EXCEPT ![n] = "sending"]
    /\ post' = [post EXCEPT ![Head(outbox[n])] = "sending"]
    /\ outbox' = [outbox EXCEPT ![n] = Tail(@)]
    /\ UNCHANGED <<shut, phase, patrol, hasty>>

WorkerLeaves(n) ==
    /\ postman[n] = "idle" /\ shut[n]
    /\ postman' = [postman EXCEPT ![n] = "gone"]
    /\ UNCHANGED <<post, outbox, shut, phase, patrol, hasty>>

\* send: no recipient, no plugin or a plugin that refuses is a line in the log; while
\* the host stops, a call may find no plugin or lose its answer.
Send(n, m) ==
    /\ postman[n] = "sending" /\ post[m] = "sending" /\ m \in NoticesOf[n]
    /\ \E fate \in {"sent", "unsent", "cutOff"} :
          /\ fate = "cutOff" => phase = "stopping"
          /\ post' = [post EXCEPT ![m] = fate]
    /\ postman' = [postman EXCEPT ![n] = "idle"]
    /\ UNCHANGED <<outbox, shut, phase, patrol, hasty>>

-----------------------------------------------------------------------------
\* main, from the signal or the server's error to the exit; deferred calls run last
\* in, first out.
MainGoes(from, to) == phase = from /\ phase' = to /\ UNCHANGED <<post, outbox, postman, patrol>>

\* Those a request in flight may still send.
Awaited == {m \in WebNotices : post[m] \in {"begun", "entering"}}

GetSignal == MainGoes("serving", "draining") /\ UNCHANGED <<shut, hasty>>

ServerFails == MainGoes("serving", "drained") /\ hasty' = TRUE /\ UNCHANGED shut

\* srv.Shutdown: all requests are answered, or ten seconds are over.
Drain == MainGoes("draining", "drained") /\ hasty' = (hasty \/ Awaited # {}) /\ UNCHANGED shut

TellPatrol == MainGoes("drained", "told") /\ UNCHANGED <<shut, hasty>>

CloseWeb == MainGoes("told", "closing") /\ shut' = [shut EXCEPT !.web = TRUE] /\ UNCHANGED hasty

\* Mutant: Close closes the channel and does not wait.
WorkerDone(n) == TRUE

\* wg.Wait.
WaitOver(n) == postman[n] \in {"none", "gone"}

WebClosed == MainGoes("closing", "stopping") /\ WaitOver("web") /\ UNCHANGED <<shut, hasty>>

Exit == MainGoes("stopping", "exited") /\ UNCHANGED <<shut, hasty>>

\* The patrol looks at its context between rounds, and closes its notifier.
PatrolStops ==
    /\ patrol = "running" /\ phase \notin {"serving", "draining", "drained"}
    /\ \A m \in PatrolNotices : post[m] \notin {"begun", "entering"}
    /\ patrol' = "closing" /\ shut' = [shut EXCEPT !.patrol = TRUE]
    /\ UNCHANGED <<post, outbox, postman, phase, hasty>>

PatrolEnds ==
    /\ patrol = "closing" /\ WaitOver("patrol") /\ patrol' = "ended"
    /\ UNCHANGED <<post, outbox, postman, shut, phase, hasty>>

NotifyNext ==
    /\ phase # "exited"
    /\ \/ \E n \in Notifiers : \E m \in NoticesOf[n] :
             \/ Begin(n, m) \/ EnterQueue(n, m)
             \/ Queue(n, m) \/ Drop(n, m) \/ MeetClosed(n, m) \/ Send(n, m)
       \/ \E m \in Posts : EndWithout(m)
       \/ \E n \in Notifiers : TakeNext(n) \/ WorkerLeaves(n)
       \/ GetSignal \/ ServerFails \/ Drain \/ TellPatrol \/ CloseWeb \/ WebClosed \/ Exit
       \/ PatrolStops \/ PatrolEnds

NotifySpec == NotifyInit /\ [][NotifyNext]_notifyVars

-----------------------------------------------------------------------------
\* No notice of a request that the server waited for meets a host that stops: the
\* queue is stopped before the plugins it needs.
QueueBeforeHost == \A m \in WebNotices : post[m] = "cutOff" => hasty
=============================================================================
