-------------------------- MODULE RuntimeSupervisor --------------------------
(***************************************************************************)
(* The launcher's runtime supervisor (runtime-supervisor.cjs) with what it *)
(* supervises: the Responses daemon, whose admission and shutdown routes   *)
(* are in server.ts, and the tunnel client.                                *)
(*                                                                         *)
(* Four tasks run on the launcher's event loop: startIfConfigured,         *)
(* stopForSetup and one recovery per child.  An action is what a task does *)
(* between two awaits; a request takes effect in the action that sends it  *)
(* and its answer may be lost.  The configuration is valid and in full     *)
(* mode, the port is free or this launcher's, and the ownership marker can *)
(* be written.                                                             *)
(***************************************************************************)
EXTENDS Naturals

CONSTANTS
    MAX_TURNS,    \* bound: turns the daemon has at a time
    MAX_EXITS,    \* bound: crashes of the daemon and of the tunnel
    MAX_FAULTS,   \* bound: refused requests, lost answers, expired deadlines
    MAX_STARTS,   \* bound: calls of startIfConfigured
    MAX_STOPS,    \* bound: calls of stopForSetup
    MAX_WAKES     \* bound: system wakes

ASSUME SupervisorBounds ==
    {MAX_TURNS, MAX_EXITS, MAX_FAULTS, MAX_STARTS, MAX_STOPS, MAX_WAKES} \subseteq Nat

VARIABLES
    proc,          \* the daemon process
    draining,      \* its own flag
    turns,         \* its active HTTP and browser turns
    cut,           \* a shutdown it had accepted has ended a turn (history)
    tunnelUp,      \* the tunnel client runs
    child,         \* this.daemon is set
    observers,     \* the tasks that wait for this very child
    restartable,   \* the child is in restartableChildren
    tunnel,        \* this.tunnel is set
    monitor,       \* the tunnel monitor's timer is set
    stopping,
    restartTimers,
    pc,            \* where each task is
    drained, tunnelStopped,   \* the flags of the running stop or clean-up
    marker,        \* what the ownership marker says of the runtime
    outcome,       \* how the last start, stop or recovery ended
    resumeLost,    \* a resume request has failed (history)
    orphaned,      \* a failed start has left a tunnel it does not know (history)
    exits, faults, starts, stops, wakes

daemonVars == <<proc, draining, turns, cut>>
childVars == <<child, observers, restartable>>
tunnelVars == <<tunnelUp, tunnel, monitor>>
flags == <<drained, tunnelStopped>>
report == <<marker, outcome>>
calls == <<starts, stops, wakes>>
mishaps == <<resumeLost, orphaned>>
supervisorVars == <<daemonVars, childVars, tunnelVars, stopping, restartTimers, pc, flags, report,
                    mishaps, exits, faults, calls>>

Child == {"daemon", "tunnel"}
Closer == {"start", "stop"}        \* a start that has failed cleans up
Task == Closer \cup Child          \* a recovery bears its child's name
Steps == {"idle", "waiting", "settling", "check", "drain", "stopTunnel", "shutdown", "exiting",
          "undo", "tunnel", "connect", "ready", "hello", "await", "attach", "verify", "cleanup"}

SupervisorTypeOK ==
    /\ proc \in {"none", "booting", "serving", "closing"}
    /\ turns \in 0..MAX_TURNS
    /\ {draining, cut, tunnelUp, child, restartable, tunnel, monitor, stopping,
        drained, tunnelStopped, resumeLost, orphaned} \subseteq BOOLEAN
    /\ observers \subseteq Task /\ restartTimers \subseteq Child
    /\ pc \in [Task -> Steps]
    /\ marker \in {"absent", "live", "over"}
    /\ outcome \in {"stopped", "starting", "ready", "failed"}
    /\ exits \in 0..MAX_EXITS /\ faults \in 0..MAX_FAULTS
    /\ starts \in 0..MAX_STARTS /\ stops \in 0..MAX_STOPS /\ wakes \in 0..MAX_WAKES

SupervisorInit ==
    /\ proc = "none" /\ draining = FALSE /\ turns = 0 /\ cut = FALSE
    /\ child = FALSE /\ observers = {} /\ restartable = FALSE
    /\ tunnelUp = FALSE /\ tunnel = FALSE /\ monitor = FALSE
    /\ stopping = FALSE /\ restartTimers = {}
    /\ pc = [t \in Task |-> "idle"]
    /\ drained = FALSE /\ tunnelStopped = FALSE
    /\ marker = "absent" /\ outcome = "stopped" /\ resumeLost = FALSE /\ orphaned = FALSE
    /\ exits = 0 /\ faults = 0 /\ starts = 0 /\ stops = 0 /\ wakes = 0

At(t, step) == pc[t] = step
Goto(t, step) == pc' = [pc EXCEPT ![t] = step]
Quiet(t) == At(t, "idle")
AllQuiet == \A t \in Task : Quiet(t)
Listening == proc \in {"serving", "closing"}

NoFault == UNCHANGED faults
Faults(n) == faults + n <= MAX_FAULTS /\ faults' = faults + n

\* A process that ends takes its turns and its flags with it.
NoProcess == proc' = "none" /\ turns' = 0 /\ draining' = FALSE

-----------------------------------------------------------------------------
(* The daemon and the tunnel *)

DaemonBoots ==
    /\ proc = "booting" /\ proc' = "serving"
    /\ UNCHANGED <<draining, turns, cut, childVars, tunnelVars, stopping, restartTimers, pc, flags,
                   report, mishaps, exits, faults, calls>>

Admits == ~draining

\* A turn is admitted: a daemon that closes still listens.
AdmitTurn ==
    /\ Listening /\ Admits /\ turns < MAX_TURNS
    /\ turns' = turns + 1
    /\ UNCHANGED <<proc, draining, cut, childVars, tunnelVars, stopping, restartTimers, pc, flags,
                   report, mishaps, exits, faults, calls>>

Released == turns - 1

FinishTurn ==
    /\ turns > 0 /\ turns' = Released
    /\ UNCHANGED <<proc, draining, cut, childVars, tunnelVars, stopping, restartTimers, pc, flags,
                   report, mishaps, exits, faults, calls>>

\* shutdown() has closed workers and brokers and stops the server.
DaemonCloses ==
    /\ proc = "closing"
    /\ NoProcess /\ cut' = (cut \/ turns > 0)
    /\ UNCHANGED <<childVars, tunnelVars, stopping, restartTimers, pc, flags, report, mishaps,
                   exits, faults, calls>>

DaemonCrashes ==
    /\ proc \in {"booting", "serving"} /\ exits < MAX_EXITS
    /\ NoProcess /\ exits' = exits + 1
    /\ UNCHANGED <<cut, childVars, tunnelVars, stopping, restartTimers, pc, flags, report,
                   mishaps, faults, calls>>

TunnelDies ==
    /\ tunnelUp /\ exits < MAX_EXITS
    /\ tunnelUp' = FALSE /\ exits' = exits + 1
    /\ UNCHANGED <<daemonVars, childVars, tunnel, monitor, stopping, restartTimers, pc, flags,
                   report, mishaps, faults, calls>>

-----------------------------------------------------------------------------
(* A loss is noticed, and recovery is scheduled *)

\* scheduleRecovery(): the restart budget only lengthens the delay.
ScheduleRecovery(name) ==
    restartTimers' = IF stopping THEN restartTimers ELSE restartTimers \cup {name}

\* handleTerminal()
HandleExit ==
    /\ child /\ proc = "none"
    /\ child' = FALSE /\ observers' = {} /\ restartable' = FALSE
    /\ IF restartable THEN ScheduleRecovery("daemon") ELSE UNCHANGED restartTimers
    /\ marker' = "live"
    /\ UNCHANGED <<daemonVars, tunnelVars, stopping, pc, flags, outcome, mishaps, exits, faults,
                   calls>>

MonitorActs == monitor /\ ~stopping /\ "tunnel" \notin restartTimers

TunnelStarts == \E t \in Task : pc[t] \in {"connect", "ready"}

\* The third probe in a row has failed: the tunnel is down, or (a fault) it has
\* needed more than the half minute of three probes to start.
MonitorFails ==
    /\ MonitorActs /\ ~tunnelUp
    /\ IF TunnelStarts THEN Faults(1) ELSE NoFault
    /\ monitor' = FALSE /\ tunnel' = FALSE /\ marker' = "live"
    /\ ScheduleRecovery("tunnel")
    /\ UNCHANGED <<daemonVars, childVars, tunnelUp, stopping, pc, flags, outcome, mishaps, exits,
                   calls>>

\* A tunnel that is ready under another process id is taken over.
MonitorAdopts ==
    /\ MonitorActs /\ tunnelUp /\ ~tunnel
    /\ tunnel' = TRUE /\ marker' = "live"
    /\ UNCHANGED <<daemonVars, childVars, tunnelUp, monitor, stopping, restartTimers, pc, flags,
                   outcome, mishaps, exits, faults, calls>>

\* startDaemon(): a new child, or a look at the one that is there.
SpawnChild(t) ==
    /\ child' = TRUE /\ observers' = {t} /\ restartable' = FALSE
    /\ proc' = "booting" /\ draining' = FALSE /\ turns' = 0 /\ UNCHANGED cut
    /\ marker' = "live" /\ UNCHANGED outcome
    /\ Goto(t, "await")

GreetChild(t) ==
    /\ observers' = observers \cup {t}
    /\ Goto(t, "hello")
    /\ UNCHANGED <<daemonVars, child, restartable, report>>

\* Mutant: a recovery always starts its child.
SpawnsAlways(t) == SpawnChild(t)
StartDaemon(t) == IF child THEN GreetChild(t) ELSE SpawnChild(t)

\* startRecovery() and recover(): a recovery that still runs is joined.
TimerFires(name) ==
    /\ name \in restartTimers
    /\ restartTimers' = restartTimers \ {name}
    /\ CASE ~Quiet(name) \/ stopping -> UNCHANGED <<pc, daemonVars, childVars, report>>
         [] Quiet(name) /\ ~stopping /\ name = "daemon" -> StartDaemon(name)
         [] Quiet(name) /\ ~stopping /\ name = "tunnel" ->
               Goto(name, "tunnel") /\ UNCHANGED <<daemonVars, childVars, report>>
    /\ UNCHANGED <<tunnelVars, stopping, flags, mishaps, exits, faults, calls>>

\* recoverTunnelAfterSystemWake()
Wake ==
    /\ wakes < MAX_WAKES /\ wakes' = wakes + 1
    /\ ~stopping /\ Quiet("start") /\ Quiet("tunnel")
    /\ restartTimers' = restartTimers \ {"tunnel"}
    /\ monitor' = FALSE
    /\ Goto("tunnel", "tunnel")
    /\ UNCHANGED <<daemonVars, childVars, tunnelUp, tunnel, stopping, flags, report, mishaps,
                   exits, faults, starts, stops>>

-----------------------------------------------------------------------------
(* How a task goes on and how it ends *)

Continue(t, step) == Goto(t, step) /\ UNCHANGED <<stopping, restartTimers, flags, report>>

\* The end of a start or a stop clears stopping and its own flags.
Ends(t, how, mark) ==
    /\ Goto(t, "idle")
    /\ outcome' = how /\ marker' = mark
    /\ IF t \in Closer THEN stopping' = FALSE /\ drained' = FALSE /\ tunnelStopped' = FALSE
                       ELSE UNCHANGED <<stopping, flags>>
    /\ UNCHANGED restartTimers

\* ownedRuntimeReady(), which decides how a stop that failed is reported.
OwnedRuntimeReady == child /\ Listening /\ ~draining /\ tunnel /\ tunnelUp
StopFails ==
    IF OwnedRuntimeReady THEN Ends("stop", "ready", "live") ELSE Ends("stop", "failed", "over")

\* A failed start cleans up; a failed recovery is scheduled again.
RuntimeStartFails(t) ==
    CASE t = "start" ->
            Goto(t, "cleanup") /\ stopping' = TRUE /\ UNCHANGED <<restartTimers, flags, report>>
      [] t = "stop" -> StopFails
      [] t \in Child ->
            /\ Goto(t, "idle") /\ ScheduleRecovery(t)
            /\ outcome' = "failed" /\ marker' = "over"
            /\ UNCHANGED <<stopping, flags>>

\* What follows startTunnel(): whatever came of it a stop goes on compensating.
TunnelStarted(t) ==
    CASE t = "start" -> StartDaemon(t) /\ UNCHANGED <<stopping, restartTimers, flags>>
      [] t = "stop" -> Continue(t, "undo") /\ UNCHANGED <<daemonVars, childVars>>
      [] t = "tunnel" -> Continue(t, "verify") /\ UNCHANGED <<daemonVars, childVars>>
TunnelNotStarted(t) == IF t = "stop" THEN Continue(t, "undo") ELSE RuntimeStartFails(t)

-----------------------------------------------------------------------------
(* startTunnel() *)

\* A ready tunnel is adopted, unless a recovery forces the restart.
AdoptTunnel(t) ==
    /\ At(t, "tunnel") /\ tunnelUp /\ t # "tunnel"
    /\ tunnel' = TRUE /\ monitor' = TRUE
    /\ TunnelStarted(t)
    /\ UNCHANGED <<tunnelUp, mishaps, exits, faults, calls>>

StopOldTunnel(t) ==
    /\ At(t, "tunnel") /\ (~tunnelUp \/ t = "tunnel")
    /\ tunnel' = FALSE /\ tunnelUp' = FALSE
    /\ Continue(t, "connect")
    /\ UNCHANGED <<daemonVars, childVars, monitor, mishaps, exits, faults, calls>>

ConnectTunnel(t) ==
    /\ At(t, "connect")
    /\ tunnelUp' = TRUE
    /\ Continue(t, "ready")
    /\ UNCHANGED <<daemonVars, childVars, tunnel, monitor, mishaps, exits, faults, calls>>

TunnelReady(t) ==
    /\ At(t, "ready") /\ tunnelUp
    /\ tunnel' = TRUE /\ monitor' = TRUE
    /\ TunnelStarted(t)
    /\ UNCHANGED <<tunnelUp, mishaps, exits, faults, calls>>

\* The tunnel is stopped again; where that fails too it is left as it is.
TunnelFails(t) ==
    /\ pc[t] \in {"tunnel", "connect", "ready"}
    /\ monitor' = FALSE
    /\ LET ended == At(t, "ready") /\ ~tunnelUp
           reason == IF ended THEN 0 ELSE 1 IN
       \/ /\ Faults(reason) /\ tunnelUp' = FALSE /\ tunnel' = FALSE
          /\ UNCHANGED orphaned
       \/ /\ Faults(reason + 1) /\ tunnel' \in {tunnel, tunnelUp}
          /\ tunnelUp' \in {tunnelUp, tunnelUp \/ At(t, "connect")}
          /\ orphaned' = (orphaned \/ (tunnelUp' /\ ~tunnel'))
    /\ TunnelNotStarted(t)
    /\ UNCHANGED <<daemonVars, childVars, resumeLost, exits, calls>>

-----------------------------------------------------------------------------
(* startDaemon() *)

\* The child it knows is resumed if it answers.
DrainAfterHello(t) == draining /\ ~(Listening /\ t \in observers)

Hello(t) ==
    /\ At(t, "hello")
    /\ draining' = DrainAfterHello(t)
    /\ Continue(t, "attach")
    /\ UNCHANGED <<proc, turns, cut, childVars, tunnelVars, mishaps, exits, faults, calls>>

\* A stop's compensation only waits: it does not mark the child.
DaemonReady(t) ==
    /\ pc[t] \in {"await", "attach"} /\ t \in observers /\ Listening /\ ~draining
    /\ restartable' = (restartable \/ ~(t = "stop" /\ At(t, "attach")))
    /\ observers' = observers \ {t}
    /\ CASE t = "start" -> Ends(t, "ready", "live")
         [] t = "stop" -> StopFails
         [] t \in Child -> Continue(t, "verify")
    /\ UNCHANGED <<daemonVars, child, tunnelVars, mishaps, exits, faults, calls>>

\* The child has exited or does not accept turns, or the wait for it ends by a
\* fault.  Who spawned one kills the child that is there now.
DaemonFails(t) ==
    /\ pc[t] \in {"await", "attach"}
    /\ IF t \in observers /\ ~(Listening /\ draining) THEN Faults(1) ELSE NoFault
    /\ IF At(t, "await")
       THEN NoProcess /\ child' = FALSE /\ observers' = {} /\ restartable' = FALSE
       ELSE observers' = observers \ {t}
            /\ UNCHANGED <<proc, turns, draining, child, restartable>>
    /\ RuntimeStartFails(t)
    /\ UNCHANGED <<cut, tunnelVars, mishaps, exits, calls>>

-----------------------------------------------------------------------------
(* startIfConfigured() and recover() *)

\* A tunnel that an earlier owner left behind is stopped first.
RequestStart ==
    /\ starts < MAX_STARTS /\ starts' = starts + 1
    /\ Quiet("stop") /\ Quiet("start")
    /\ stopping' = FALSE /\ outcome' = "starting"
    /\ tunnelUp' = (tunnelUp /\ (child \/ tunnel \/ marker # "live"))
    /\ Goto("start", "tunnel")
    /\ UNCHANGED <<daemonVars, childVars, tunnel, monitor, restartTimers, flags, marker, mishaps,
                   exits, faults, stops, wakes>>

\* Both children are there and answer.
Verified(name) ==
    /\ name \in Child /\ At(name, "verify")
    /\ child /\ Listening /\ ~draining /\ tunnel /\ tunnelUp
    /\ Ends(name, "ready", "live")
    /\ UNCHANGED <<daemonVars, childVars, tunnelVars, mishaps, exits, faults, calls>>

NotVerified(name) ==
    /\ name \in Child /\ At(name, "verify")
    /\ ~child \/ ~Listening \/ draining \/ ~tunnel \/ ~tunnelUp
    /\ RuntimeStartFails(name)
    /\ UNCHANGED <<daemonVars, childVars, tunnelVars, mishaps, exits, faults, calls>>

-----------------------------------------------------------------------------
(* performStopForSetup(), and cleanupFailedStart() with the same steps *)

RequestStop ==
    /\ stops < MAX_STOPS /\ stops' = stops + 1
    /\ Quiet("stop")
    /\ Goto("stop", "waiting")
    /\ UNCHANGED <<daemonVars, childVars, tunnelVars, stopping, restartTimers, flags, report,
                   mishaps, exits, faults, starts, wakes>>

\* The start it waits for is over: nothing may be scheduled from now on.
BeginStop ==
    /\ At("stop", "waiting") /\ Quiet("start")
    /\ stopping' = TRUE /\ monitor' = FALSE /\ restartTimers' = {}
    /\ Goto("stop", "settling")
    /\ UNCHANGED <<daemonVars, childVars, tunnelUp, tunnel, flags, report, mishaps, exits, faults,
                   calls>>

RecoveriesSettled == \A name \in Child : Quiet(name)

Settled ==
    /\ At("stop", "settling") /\ RecoveriesSettled
    /\ Continue("stop", "check")
    /\ UNCHANGED <<daemonVars, childVars, tunnelVars, mishaps, exits, faults, calls>>

\* A tunnel of this profile that the launcher does not know is adopted.
AdoptsForStop == tunnelUp /\ ~tunnel /\ (Listening \/ marker \in {"live", "absent"})

Check ==
    /\ At("stop", "check")
    /\ tunnel' = (tunnel \/ AdoptsForStop)
    /\ CASE ~child /\ ~tunnel' -> Ends("stop", "stopped", "absent")
         [] child /\ Listening -> Continue("stop", "drain")
         [] child /\ ~Listening -> StopFails
         [] ~child /\ tunnel' -> Continue("stop", "stopTunnel")
    /\ UNCHANGED <<daemonVars, childVars, tunnelUp, monitor, mishaps, exits, faults, calls>>

\* A start cleans up a daemon that answers, and kills one that does not.
Cleanup ==
    /\ At("start", "cleanup")
    /\ IF child /\ ~Listening
       THEN NoProcess /\ child' = FALSE /\ observers' = {} /\ restartable' = FALSE
       ELSE UNCHANGED <<proc, turns, draining, childVars>>
    /\ Continue("start", IF child /\ Listening THEN "drain" ELSE "stopTunnel")
    /\ UNCHANGED <<cut, tunnelVars, mishaps, exits, faults, calls>>

\* Mutant: a daemon whose last answer was lost is not resumed.
ResumesIfAnswered(reason) ==
    Faults(reason) /\ draining' = (draining /\ reason > 0) /\ UNCHANGED resumeLost

\* A resume request: its loss is one fault more.
Resumes(reason) ==
    \/ Faults(reason) /\ draining' = (draining /\ ~Listening) /\ UNCHANGED resumeLost
    \/ Faults(reason + 1) /\ UNCHANGED draining /\ resumeLost' = TRUE

\* A stop compensates for a failure later; a clean-up only resumes the daemon.
CloseFails(t, reason) ==
    IF t = "stop"
    THEN Faults(reason) /\ Continue(t, "undo") /\ UNCHANGED <<draining, resumeLost>>
    ELSE /\ IF drained THEN Resumes(reason) ELSE Faults(reason) /\ UNCHANGED <<draining, resumeLost>>
         /\ Ends(t, "failed", "over")

\* The request is repeated until the daemon is idle.
Drain(t) ==
    /\ At(t, "drain") /\ Listening
    /\ draining' = TRUE
    /\ IF turns > 0
       THEN UNCHANGED <<pc, drained>>
       ELSE drained' = TRUE /\ Goto(t, IF t = "stop" THEN "stopTunnel" ELSE "shutdown")
    /\ UNCHANGED <<proc, turns, cut, childVars, tunnelVars, stopping, restartTimers, tunnelStopped,
                   report, mishaps, exits, faults, calls>>

\* The deadline has passed with turns left, or there is nobody to answer.
DrainIsRefused == ~Listening \/ (draining /\ turns > 0)

\* acquireDrain() resumes the daemon itself.
DrainFails(t) ==
    /\ At(t, "drain")
    /\ Resumes(IF DrainIsRefused THEN 0 ELSE 1)
    /\ IF t = "stop" THEN Continue(t, "undo") ELSE Ends(t, "failed", "over")
    /\ UNCHANGED <<proc, turns, cut, childVars, tunnelVars, orphaned, exits, calls>>

\* stopTunnelGracefully()
StopTunnel(t) ==
    /\ At(t, "stopTunnel")
    /\ tunnelUp' = (tunnelUp /\ ~tunnel)
    /\ tunnel' = FALSE /\ monitor' = FALSE
    /\ CASE t = "stop" /\ child ->
               Goto(t, "shutdown") /\ tunnelStopped' = tunnel
               /\ UNCHANGED <<stopping, restartTimers, drained, report>>
         [] t = "stop" /\ ~child -> Ends(t, "stopped", "absent")
         [] t = "start" -> Ends(t, "failed", "over")
    /\ UNCHANGED <<daemonVars, childVars, mishaps, exits, faults, calls>>

\* Refused, or accepted and not confirmed: the tunnel stays supervised.
StopTunnelFails(t) ==
    /\ At(t, "stopTunnel") /\ tunnel
    /\ Faults(1)
    /\ tunnelUp' \in {tunnelUp, FALSE} /\ monitor' = TRUE
    /\ IF t = "stop" THEN Continue(t, "undo") ELSE Ends(t, "failed", "over")
    /\ UNCHANGED <<daemonVars, childVars, tunnel, mishaps, exits, calls>>

AfterShutdown(t) ==
    IF t = "stop" THEN Ends(t, "stopped", "absent") ELSE Continue(t, "stopTunnel")

\* shutdownDaemon(): the daemon agrees while it is drained and idle.
Shutdown(t) ==
    /\ At(t, "shutdown")
    /\ IF proc = "none"
       THEN child' = FALSE /\ observers' = {} /\ restartable' = FALSE
            /\ AfterShutdown(t) /\ UNCHANGED proc
       ELSE Listening /\ draining /\ turns = 0
            /\ proc' = "closing" /\ observers' = observers \cup {t}
            /\ Continue(t, "exiting") /\ UNCHANGED <<child, restartable>>
    /\ UNCHANGED <<draining, turns, cut, tunnelVars, mishaps, exits, faults, calls>>

\* It refuses, or the answer is lost.
ShutdownFails(t) ==
    /\ At(t, "shutdown") /\ proc # "none"
    /\ LET refused == ~Listening \/ ~draining \/ turns > 0 IN
       /\ CloseFails(t, IF refused THEN 0 ELSE 1)
       /\ proc' \in IF refused THEN {proc} ELSE {proc, "closing"}
    /\ UNCHANGED <<turns, cut, childVars, tunnelVars, orphaned, exits, calls>>

Exited(t) ==
    /\ At(t, "exiting") /\ t \notin observers
    /\ AfterShutdown(t)
    /\ UNCHANGED <<daemonVars, childVars, tunnelVars, mishaps, exits, faults, calls>>

\* The daemon takes longer to close than it is waited for.
ExitIsLate(t) ==
    /\ At(t, "exiting") /\ t \in observers
    /\ CloseFails(t, 1)
    /\ observers' = observers \ {t}
    /\ UNCHANGED <<proc, turns, cut, child, restartable, tunnelVars, orphaned, exits, calls>>

\* restoreDrainedDaemon(): whether the daemon is started anew.
StartsAnew == proc = "none"

\* The compensations of a stop that failed: the tunnel, then the daemon.
UndoStop ==
    /\ At("stop", "undo")
    /\ \/ /\ tunnelStopped /\ ~tunnel
          /\ Goto("stop", "tunnel") /\ tunnelStopped' = FALSE
          /\ UNCHANGED <<daemonVars, childVars, stopping, restartTimers, drained, report, mishaps, faults>>
       \/ /\ (tunnel \/ ~tunnelStopped) /\ ~drained
          /\ StopFails
          /\ UNCHANGED <<daemonVars, childVars, mishaps, faults>>
       \/ /\ (tunnel \/ ~tunnelStopped) /\ drained /\ StartsAnew
          /\ SpawnChild("stop")
          /\ UNCHANGED <<stopping, restartTimers, flags, mishaps, faults>>
       \/ /\ (tunnel \/ ~tunnelStopped) /\ drained /\ ~StartsAnew
          /\ Resumes(0)
          /\ observers' = observers \cup {"stop"}
          /\ IF resumeLost' THEN Ends("stop", "failed", "over") ELSE Continue("stop", "attach")
          /\ UNCHANGED <<proc, turns, cut, child, restartable, orphaned>>
    /\ UNCHANGED <<tunnelVars, exits, calls>>

-----------------------------------------------------------------------------

Environment == DaemonCrashes \/ TunnelDies \/ Wake \/ RequestStart \/ RequestStop
Losses == HandleExit \/ MonitorFails \/ MonitorAdopts \/ \E name \in Child : TimerFires(name)
Starting(t) ==
    \/ AdoptTunnel(t) \/ StopOldTunnel(t) \/ ConnectTunnel(t) \/ TunnelReady(t) \/ TunnelFails(t)
    \/ Hello(t) \/ DaemonReady(t) \/ DaemonFails(t)
    \/ Verified(t) \/ NotVerified(t)
Closing(t) ==
    \/ Drain(t) \/ DrainFails(t) \/ StopTunnel(t) \/ StopTunnelFails(t)
    \/ Shutdown(t) \/ ShutdownFails(t) \/ Exited(t) \/ ExitIsLate(t)
Stopping == BeginStop \/ Settled \/ Check \/ Cleanup \/ UndoStop

SupervisorNext ==
    \/ DaemonBoots \/ AdmitTurn \/ FinishTurn \/ DaemonCloses
    \/ Environment \/ Losses
    \/ \E t \in Task : Starting(t)
    \/ \E t \in Closer : Closing(t)
    \/ Stopping

SupervisorSpec == SupervisorInit /\ [][SupervisorNext]_supervisorVars

\* Processes boot and close, timers fire, and a task that can go on does: its
\* requests have deadlines.  Nothing obliges a turn to finish.
SupervisorFairness ==
    /\ WF_supervisorVars(DaemonBoots) /\ WF_supervisorVars(DaemonCloses)
    /\ WF_supervisorVars(HandleExit) /\ WF_supervisorVars(MonitorFails /\ NoFault) /\ WF_supervisorVars(MonitorAdopts)
    /\ \A name \in Child : WF_supervisorVars(TimerFires(name))
    /\ \A t \in Task : WF_supervisorVars(Starting(t) /\ NoFault)
    /\ \A t \in Closer : WF_supervisorVars(Closing(t) /\ NoFault)
    /\ WF_supervisorVars(Stopping /\ NoFault)

FairSupervisorSpec == SupervisorSpec /\ SupervisorFairness
-----------------------------------------------------------------------------
(* Properties *)

\* A second daemon is never started while one still runs, whatever timers,
\* compensations and late exits come together (startDaemon, restoreDrainedDaemon).
NoSecondDaemon == [][proc # "booting" /\ proc' = "booting" => proc = "none"]_supervisorVars

\* Once the launcher has been told that the runtime is stopped, nothing of it
\* runs or is about to be started: no recovery outlives the stop.  (A system wake
\* restarts the tunnel of a stopped runtime too; and a tunnel whose start and whose
\* removal have both failed is not known, so that no later stop looks for it.)
StoppedIsQuiet ==
    outcome = "stopped" /\ AllQuiet /\ wakes = 0 =>
        proc = "none" /\ restartTimers = {} /\ (tunnelUp => orphaned)

\* Whatever became of a stop or a start, a daemon that still serves admits
\* turns again, unless the very request to resume it was lost.
NotLeftDraining == AllQuiet /\ proc = "serving" /\ ~resumeLost => ~draining

\* While requests are answered in time and nothing crashes, no stop, start or
\* recovery ends a turn (admin/drain and admin/shutdown in server.ts).
OrderlyStopSparesTurns == faults = 0 /\ exits = 0 => ~cut

\* The daemon is in a sound state: types, a quiet stop, no drain left behind, no turn cut.
SupervisorInv ==
    SupervisorTypeOK /\ StoppedIsQuiet /\ NotLeftDraining /\ OrderlyStopSparesTurns

\* A runtime that was ready comes back after any number of exits, and stays up
\* until it is stopped or started again (a second start that fails cleans up).
Up == proc = "serving" /\ ~draining /\ child /\ tunnelUp /\ tunnel
StaysUp == (outcome = "ready" /\ Quiet("start")) ~> [](Up \/ stops > 0 \/ starts > 1)

\* A stop comes to an end, whether or not it succeeds.
StopEnds == ~Quiet("stop") ~> Quiet("stop")

\* Starts, stops and recoveries together: one daemon at a time, a ready runtime that stays
\* up, and stops that end.
SupervisionHolds == NoSecondDaemon /\ StaysUp /\ StopEnds
=============================================================================
