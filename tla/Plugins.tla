------------------------------- MODULE Plugins -------------------------------
(***************************************************************************)
(* One plugin and its host: the process the plugin runs in, the loop that  *)
(* supervises it, the key it calls back with, and what the administrators  *)
(* ask for (plugin/manager.go, instance.go, handshake.go, discover.go,     *)
(* install.go, service/plugin.go, pluginkey.go, handler/plugin.go).        *)
(*                                                                         *)
(* Every critical section of the instance's mutex, every statement on the  *)
(* database and every call to the process is a step. Time is left out: a   *)
(* health check may fail, a back-off may end and old crashes may be        *)
(* forgotten at any moment. A directory that was removed is not put back   *)
(* before the host starts again.                                           *)
(***************************************************************************)
EXTENDS Integers, FiniteSets

CONSTANTS
    Admins,        \* requests that may run side by side
    CrashLimit,    \* crashLimit
    MaxLoops, MaxAlive,    \* bounds on loops and on processes at one time
    MaxKeys,               \* secrets, used again when nobody holds them
    MaxMishaps             \* bound on deaths, on changed files and on changed scopes

ASSUME PluginsAssumption ==
    /\ {CrashLimit, MaxLoops, MaxAlive, MaxKeys, MaxMishaps} \subseteq Nat
    /\ IsFiniteSet(Admins) /\ "host" \notin Admins

VARIABLES
    disk,          \* the plugin's directory: "none", "unfit" (inspect) or "fit"
    wish,          \* the PluginState row: enabled, scopes granted
    inst,          \* the Instance
    loop,          \* the supervise goroutines
    process,       \* the processes: "left" by a host that died, and the key of each
    active,        \* the PluginKey that is active, 0 if none is
    ask,           \* what each request is about to do
    mishaps         \* so far

pluginVars == <<disk, wish, inst, loop, process, active, ask, mishaps>>

Loops == 1..MaxLoops
Processes == 1..MaxAlive
Agents == Admins \cup {"host"}       \* "host": main, at start and shutdown
Off == [at |-> "off", cancelled |-> FALSE, mine |-> 0]
Dead == [is |-> "dead", key |-> 0]
Unknown == [known |-> "no", fit |-> FALSE, state |-> "stopped", enabled |-> FALSE,
            conn |-> 0, key |-> 0, crashes |-> 0, current |-> 0]

PluginsTypeOK ==
    /\ disk \in {"none", "unfit", "fit"}
    /\ wish \in [enabled : BOOLEAN, granted : BOOLEAN]
    /\ inst \in [known : {"no", "yes", "gone"}, fit : BOOLEAN,
                 state : {"stopped", "running", "error", "crashed", "skipped"},
                 enabled : BOOLEAN, conn : 0..MaxAlive, key : 0..MaxKeys,
                 crashes : 0..CrashLimit, current : 0..MaxLoops]
    /\ loop \in [Loops -> [at : {"off", "launch", "probe", "publish", "watch", "verdict", "wait"},
                           cancelled : BOOLEAN, mine : 0..MaxAlive]]
    /\ process \in [Processes -> [is : {"dead", "alive", "left"}, key : 0..MaxKeys]]
    /\ active \in 0..MaxKeys /\ mishaps \in 0..MaxMishaps
    /\ ask \in [Agents -> [at : {"idle", "check", "issue", "start", "stop", "join",
                                "close", "configure", "down"},
                           key : 0..MaxKeys, conn : 0..MaxAlive]]

Rest == [at |-> "idle", key |-> 0, conn |-> 0]

PluginsInit ==
    /\ disk = "none" /\ wish = [enabled |-> FALSE, granted |-> FALSE]
    /\ inst = Unknown /\ loop = [l \in Loops |-> Off]
    /\ process = [p \in Processes |-> Dead]
    /\ active = 0 /\ mishaps = 0
    /\ ask = [a \in Agents |-> Rest]

Asks(a, next) == ask' = [ask EXCEPT ![a] = next]
Goes(a, from, to) == ask[a].at = from /\ ask' = [ask EXCEPT ![a].at = to]
Trouble == mishaps < MaxMishaps /\ mishaps' = mishaps + 1
HostUp == ask["host"].at = "idle"
Killed(p) == [process EXCEPT ![p] = Dead]
KilledIf(p) == IF p = 0 THEN process ELSE Killed(p)

-----------------------------------------------------------------------------
(* The directory.                                                          *)

\* InstallArchive: into a directory of its own, renamed when it is complete.
Install ==
    /\ HostUp /\ disk = "none" /\ inst.known = "no" /\ disk' = "fit"
    /\ UNCHANGED <<wish, inst, loop, process, active, ask, mishaps>>

\* Someone changes the files or their permissions, or removes them.
Tamper(d) ==
    /\ Trouble /\ d # disk /\ disk' = d
    /\ UNCHANGED <<wish, inst, loop, process, active, ask>>

\* What a scan makes of the instance.
Scanned ==
    IF inst.known = "no" THEN [Unknown EXCEPT !.known = "yes", !.fit = disk = "fit",
                                        !.state = IF disk = "fit" THEN "stopped" ELSE "skipped"]
    ELSE [inst EXCEPT !.fit = disk = "fit",
                      !.state = IF disk = "unfit" THEN "skipped"
                                ELSE IF @ = "skipped" /\ ~inst.fit THEN "stopped" ELSE @]

\* Reload: an instance whose directory is gone is stopped and its key revoked.
Reload(a) ==
    /\ a \in Admins /\ HostUp /\ ask[a].at = "idle"
    /\ inst.known = "yes" \/ (inst.known = "no" /\ disk # "none")
    /\ IF disk = "none"
       THEN inst' = [inst EXCEPT !.known = "gone"] /\ Asks(a, [Rest EXCEPT !.at = "stop"])
       ELSE inst' = Scanned /\ UNCHANGED ask
    /\ UNCHANGED <<disk, wish, loop, process, active, mishaps>>

-----------------------------------------------------------------------------
(* Enable, Disable, Close.                                                 *)

\* setPluginEnabled(true): the intent is written, the process touched afterwards.
AskEnable(a) ==
    /\ a \in Admins /\ HostUp /\ inst.known = "yes" /\ Goes(a, "idle", "check")
    /\ wish' = [wish EXCEPT !.enabled = TRUE]
    /\ UNCHANGED <<disk, inst, loop, process, active, mishaps>>

\* Enable: a plugin that may be loaded loses the key it has.
CheckLoadable(a) ==
    /\ inst.known = "yes" /\ inst.fit /\ Goes(a, "check", "issue") /\ active' = 0
    /\ UNCHANGED <<disk, wish, inst, loop, process, mishaps>>

\* The intent is taken back when Enable fails; at start it is kept.
EnableFails(a) ==
    /\ \/ (inst.known # "yes" \/ ~inst.fit) /\ Goes(a, "check", "idle")
       \/ Goes(a, "issue", "idle")
    /\ wish' = IF a = "host" THEN wish ELSE [wish EXCEPT !.enabled = FALSE]
    /\ UNCHANGED <<disk, inst, loop, process, active, mishaps>>

\* A secret nobody holds.
Fresh == {k \in 1..MaxKeys : k \notin {active, inst.key} \cup {process[p].key : p \in Processes}
                                          \cup {ask[a].key : a \in Agents}}

\* PluginScopes, IssueKey: no key where no scope is granted; it replaces any other.
IssueKey(a) ==
    /\ ask[a].at = "issue"
    /\ \/ ~wish.granted /\ Goes(a, "issue", "start") /\ UNCHANGED active
       \/ /\ wish.granted
          /\ \E k \in Fresh : /\ \A j \in Fresh : k <= j
                              /\ active' = k /\ Asks(a, [Rest EXCEPT !.at = "start", !.key = k])
    /\ UNCHANGED <<disk, wish, inst, loop, process, mishaps>>

\* Mutant: the loop that is still at work is left running.
NoHandover == loop

\* Start ends the loop that is still at work, without waiting for it.
Handover == IF inst.current = 0 THEN loop ELSE [loop EXCEPT ![inst.current].cancelled = TRUE]

\* A plugin that is running keeps its process, and the key it was given.
Start(a) ==
    /\ Goes(a, "start", "idle")
    /\ IF ~inst.fit \/ (inst.enabled /\ inst.state = "running")
       THEN UNCHANGED <<inst, loop, mishaps>>
       ELSE \E l \in Loops :
              /\ loop[l].at = "off" /\ \A k \in 1..(l - 1) : loop[k].at # "off"
              /\ loop' = [Handover EXCEPT ![l] = [Off EXCEPT !.at = "launch"]]
              /\ inst' = [inst EXCEPT !.enabled = TRUE, !.key = ask[a].key,
                                      !.crashes = 0, !.current = l]
    /\ UNCHANGED <<disk, wish, process, active, mishaps>>

AskDisable(a) ==
    /\ a \in Admins /\ HostUp /\ inst.known = "yes" /\ Goes(a, "idle", "stop")
    /\ wish' = [wish EXCEPT !.enabled = FALSE]
    /\ UNCHANGED <<disk, inst, loop, process, active, mishaps>>

\* Stop: the loop is told to end, then waited for, then the process is ended.
CancelLoop(a) ==
    /\ Goes(a, "stop", "join")
    /\ inst' = [inst EXCEPT !.enabled = FALSE, !.current = 0]
    /\ loop' = Handover
    /\ UNCHANGED <<disk, wish, process, active, mishaps>>

JoinLoops(a) ==
    /\ ask[a].at = "join" /\ \A l \in Loops : loop[l].at = "off"
    /\ Asks(a, [Rest EXCEPT !.at = "close", !.conn = inst.conn])
    /\ inst' = [inst EXCEPT !.conn = 0, !.state = IF @ = "skipped" THEN @ ELSE "stopped"]
    /\ UNCHANGED <<disk, wish, loop, process, active, mishaps>>

\* Mutant: the key stays.
KeyKept == active

KeyRevoked == 0

\* close, RevokeKeys.
CloseProcess(a) ==
    /\ ask[a].at = "close" /\ process' = KilledIf(ask[a].conn) /\ active' = KeyRevoked
    /\ Asks(a, [Rest EXCEPT !.at = IF a = "host" THEN "down" ELSE "idle"])
    /\ UNCHANGED <<disk, wish, inst, loop, mishaps>>

\* SetScopes: the key that was issued keeps the scopes it was issued with.
SetScopes(granted) ==
    /\ Trouble /\ HostUp /\ inst.known = "yes" /\ wish' = [wish EXCEPT !.granted = granted]
    /\ UNCHANGED <<disk, inst, loop, process, active, ask>>

\* SaveConfig, Reconfigure: the values go to the process that is running.
Reconfigure(a) ==
    /\ a \in Admins /\ HostUp /\ inst.known = "yes" /\ ask[a].at = "idle"
    /\ inst.state = "running" /\ inst.conn # 0
    /\ Asks(a, [Rest EXCEPT !.at = "configure", !.conn = inst.conn])
    /\ UNCHANGED <<disk, wish, inst, loop, process, active, mishaps>>

\* Crashes beyond the limit are not counted.
SetError == [inst EXCEPT !.state = "error", !.conn = 0, !.crashes = IF @ < CrashLimit THEN @ + 1 ELSE @]

\* It takes them, or refuses or fails: then it is an error like a crash.
ConfigureAnswered(a, ok) ==
    /\ ask[a].at = "configure" /\ (ok => process[ask[a].conn].is = "alive") /\ Asks(a, Rest)
    /\ inst' = IF ok THEN inst ELSE SetError
    /\ UNCHANGED <<disk, wish, loop, process, active, mishaps>>

-----------------------------------------------------------------------------
(* supervise.                                                              *)

Leave(l) == loop' = [loop EXCEPT ![l] = Off]
Enters(l, at) == loop' = [loop EXCEPT ![l].at = at]

\* What still refers to a process.
Held == {inst.conn} \cup {loop[l].mine : l \in Loops} \cup {ask[a].conn : a \in Agents}

\* attempt, launch: what a scan refused has no path to start from.
Launch(l) ==
    /\ loop[l].at = "launch" /\ ~loop[l].cancelled /\ inst.fit
    /\ \E p \in Processes \ Held :
          /\ process[p] = Dead /\ \A q \in 1..(p - 1) : q \in Held \/ process[q] # Dead
          /\ process' = [process EXCEPT ![p] = [is |-> "alive", key |-> inst.key]]
          /\ loop' = [loop EXCEPT ![l].at = "probe", ![l].mine = p]
    /\ UNCHANGED <<disk, wish, inst, active, ask, mishaps>>

\* The handshake, Describe and Configure were answered.
Probed(l) ==
    /\ loop[l].at = "probe" /\ ~loop[l].cancelled /\ process[loop[l].mine].is = "alive"
    /\ Enters(l, "publish")
    /\ UNCHANGED <<disk, wish, inst, process, active, ask, mishaps>>

\* The process could not be started, or was ended again; a crash unless cancelled.
AttemptFails(l) ==
    /\ loop[l].at \in {"launch", "probe"}
    /\ process' = KilledIf(loop[l].mine)
    /\ IF loop[l].cancelled THEN Leave(l) /\ UNCHANGED inst
       ELSE inst' = SetError /\ loop' = [loop EXCEPT ![l].at = "verdict", ![l].mine = 0]
    /\ UNCHANGED <<disk, wish, active, ask, mishaps>>

\* Written without asking whether the loop has been cancelled since.
Publish(l) ==
    /\ loop[l].at = "publish" /\ loop' = [loop EXCEPT ![l].at = "watch", ![l].mine = 0]
    /\ inst' = [inst EXCEPT !.state = "running", !.conn = loop[l].mine]
    /\ UNCHANGED <<disk, wish, process, active, ask, mishaps>>

\* watch: three failed checks end the process.
HealthFails(l) ==
    /\ loop[l].at = "watch" /\ ~loop[l].cancelled /\ inst.state = "running" /\ inst.conn # 0
    /\ inst' = SetError /\ process' = Killed(inst.conn) /\ Enters(l, "verdict")
    /\ UNCHANGED <<disk, wish, active, ask, mishaps>>

\* Another step has taken the client away, or the loop is cancelled.
WatchEnds(l) ==
    /\ loop[l].at = "watch"
    /\ IF loop[l].cancelled THEN Leave(l)
       ELSE (inst.state # "running" \/ inst.conn = 0) /\ Enters(l, "verdict")
    /\ UNCHANGED <<disk, wish, inst, process, active, ask, mishaps>>

\* tooManyCrashes: give up, or wait before the next attempt.
Verdict(l) ==
    /\ loop[l].at = "verdict"
    /\ IF inst.crashes >= CrashLimit
       THEN inst' = [inst EXCEPT !.state = "crashed"] /\ Leave(l)
       ELSE Enters(l, "wait") /\ UNCHANGED inst
    /\ UNCHANGED <<disk, wish, process, active, ask, mishaps>>

BackOffEnds(l) ==
    /\ loop[l].at = "wait"
    /\ IF loop[l].cancelled THEN Leave(l) ELSE Enters(l, "launch")
    /\ UNCHANGED <<disk, wish, inst, process, active, ask, mishaps>>

\* crashWindow has passed.
ForgetCrashes ==
    /\ inst.crashes > 0 /\ inst' = [inst EXCEPT !.crashes = 0]
    /\ UNCHANGED <<disk, wish, loop, process, active, ask, mishaps>>

ProcessExits(p) ==
    /\ Trouble /\ process[p] # Dead /\ process' = Killed(p)
    /\ UNCHANGED <<disk, wish, inst, loop, active, ask>>

-----------------------------------------------------------------------------
(* The host.                                                               *)

\* Close, when main ends.
Shutdown ==
    /\ Goes("host", "idle", "stop") /\ inst.known = "yes" /\ \A a \in Admins : ask[a].at = "idle"
    /\ UNCHANGED <<disk, wish, inst, loop, process, active, mishaps>>

\* The host is killed: what it held in memory is gone, the keys are not.
HostDies ==
    /\ Trouble /\ ask["host"].at # "down" /\ ask' = [a \in Agents |-> IF a = "host" THEN [Rest EXCEPT !.at = "down"] ELSE Rest]
    /\ inst' = Unknown /\ loop' = [l \in Loops |-> Off]
    /\ process' = [p \in Processes |-> IF process[p] = Dead THEN Dead ELSE [process[p] EXCEPT !.is = "left"]]
    /\ UNCHANGED <<disk, wish, active>>

\* startPlugins: revoke what is left, scan, enable what was enabled.
HostStarts ==
    /\ ask["host"].at = "down" /\ active' = 0
    /\ inst' = IF disk = "none" THEN Unknown
               ELSE [Unknown EXCEPT !.known = "yes", !.fit = disk = "fit",
                                    !.state = IF disk = "fit" THEN "stopped" ELSE "skipped"]
    /\ Asks("host", IF disk # "none" /\ wish.enabled THEN [Rest EXCEPT !.at = "check"] ELSE Rest)
    /\ UNCHANGED <<disk, wish, loop, process, mishaps>>

Administer(a) ==
    \/ Reload(a) \/ AskEnable(a) \/ CheckLoadable(a) \/ EnableFails(a) \/ IssueKey(a) \/ Start(a)
    \/ AskDisable(a) \/ CancelLoop(a) \/ JoinLoops(a) \/ CloseProcess(a)
    \/ Reconfigure(a) \/ \E ok \in BOOLEAN : ConfigureAnswered(a, ok)

Supervise(l) ==
    \/ Launch(l) \/ Probed(l) \/ AttemptFails(l) \/ Publish(l)
    \/ HealthFails(l) \/ WatchEnds(l) \/ Verdict(l) \/ BackOffEnds(l)

PluginsNext ==
    \/ Install \/ \E d \in {"none", "unfit", "fit"} : Tamper(d)
    \/ \E a \in Agents : Administer(a)
    \/ \E granted \in BOOLEAN : SetScopes(granted)
    \/ \E l \in Loops : Supervise(l)
    \/ ForgetCrashes \/ \E p \in Processes : ProcessExits(p)
    \/ Shutdown \/ HostDies \/ HostStarts

PluginsSpec == PluginsInit /\ [][PluginsNext]_pluginVars

-----------------------------------------------------------------------------
\* Whatever administrators ask for side by side, one loop at most starts processes
\* of the plugin, and it is the one Stop would end (cancel, Start, Stop).
OneSupervisor ==
    \A l \in Loops : loop[l].at # "off" /\ ~loop[l].cancelled => inst.current = l

Quiet == /\ inst.state = "stopped" /\ ~inst.enabled
         /\ \A a \in Agents : ask[a].at = "idle"

\* A process that escaped when its plugin was stopped, or that was left by a host
\* that was killed, can no longer call back (RevokeKeys, RevokeAll).
EscapedIsMute == Quiet => \A p \in Processes : process[p] # Dead => process[p].key = 0 \/ process[p].key # active
=============================================================================
