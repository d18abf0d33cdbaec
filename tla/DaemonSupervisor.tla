---------------------------- MODULE DaemonSupervisor ----------------------------
(* The actor of apps/macos/CuspObservatory/Daemon/DaemonSupervisor.swift that  *)
(* launches the daemon, waits for its readiness, watches it and stops it.  An  *)
(* actor runs one task at a time but another task may run at every await:      *)
(* each action below is what a task does between two awaits.                   *)
(*                                                                             *)
(* A run is one start().  Its tasks: the caller (starter), the startup task,   *)
(* the monitor; a stop has one terminating task that several callers of stop() *)
(* wait for.  A daemon process may exit by itself at any time, may ignore      *)
(* SIGTERM and may even outlive the wait after SIGKILL; it counts as running   *)
(* until the runtime actor has recorded its exit.                              *)
EXTENDS Naturals, FiniteSets

CONSTANTS
  MaxRuns,     \* bound: calls of start() that are accepted
  MaxStops,    \* bound: terminations begun by stop()
  StopCallers  \* tasks that call stop()

ASSUME SupervisorBounds == MaxRuns \in Nat /\ MaxStops \in Nat

Runs == 1 .. MaxRuns
Stops == 1 .. MaxStops
None == 0

VARIABLES
  currentState,
  owned,     \* [active, runtime, startup, stop, monitor]: activeRunID and the ownerships, None or an id
  process,   \* of each run: none | running | exited, which is when recordExit runs
  killed,    \* the runs whose process was sent SIGKILL while it ran
  starter,   \* of each run: where the caller of start() is
  startup,   \* of each run: where the startup task is, and whether it was cancelled
  watcher,   \* of each run: where the monitor task is
  stops,     \* of each stop: its run and where its terminating task is
  stopper,   \* of each caller of stop(): the stop it waits for
  launched,  \* ghost: the runs whose launch returned
  registered \* ghost: those of them whose process was registered

dsVars == <<currentState, owned, process, killed, starter, startup, watcher, stops, stopper, launched, registered>>

DsInit ==
  /\ currentState = "stopped"
  /\ owned = [active |-> None, runtime |-> None, startup |-> None, stop |-> None, monitor |-> None]
  /\ process = [r \in Runs |-> "none"]
  /\ killed = {}
  /\ starter = [r \in Runs |-> "idle"]
  /\ startup = [r \in Runs |-> [at |-> "idle", cancelled |-> FALSE]]
  /\ watcher = [r \in Runs |-> "idle"]
  /\ stops = [s \in Stops |-> [run |-> None, at |-> "idle"]]
  /\ stopper = [c \in StopCallers |-> None]
  /\ launched = {}
  /\ registered = {}

-----------------------------------------------------------------------------
(* Helpers                                                                     *)

ensureActive(r) == owned.active = r /\ currentState = "starting"

ownsRuntime(r) == owned.active = r /\ owned.runtime = r

clearRuntimeOwnershipAny(o, r) == [o EXCEPT !.runtime = None]

clearRuntimeOwnership(o, r) == [o EXCEPT !.runtime = IF @ = r THEN None ELSE @]

clearStartupOwnership(o, r) == [o EXCEPT !.startup = IF @ = r THEN None ELSE @]

\* The steps of terminate, also of stopUnregisteredRuntime, once SIGTERM is sent: a bounded wait
\* for the exit, SIGKILL, a second wait.  A wait that times out does so even when the exit is being
\* recorded.  SIGTERM itself leaves no trace here: the process may exit at any time anyway.
TerminateStep(at, r, next) ==
  \/ at = "wait" /\ next = "graceful" /\ process[r] = "exited" /\ UNCHANGED killed
  \/ /\ at = "wait" /\ next = "forceWait"
     /\ killed' = IF process[r] = "running" THEN killed \cup {r} ELSE killed
  \/ at = "forceWait" /\ next = "forced" /\ process[r] = "exited" /\ UNCHANGED killed
  \/ at = "forceWait" /\ next = "unresolved" /\ UNCHANGED killed

Terminated == {"graceful", "forced", "unresolved"}

TerminateTargets == Terminated \cup {"forceWait"}

-----------------------------------------------------------------------------
(* start() and its startup task                                                *)

start ==
  /\ currentState \in {"stopped", "failed"}
  /\ \A f \in {"runtime", "startup", "stop", "monitor"} : owned[f] = None
  /\ \E r \in Runs :
       /\ starter[r] = "idle" /\ \A q \in 1 .. r - 1 : starter[q] # "idle"
       /\ owned' = [owned EXCEPT !.active = r, !.startup = r]
       /\ starter' = [starter EXCEPT ![r] = "awaiting"]
       /\ startup' = [startup EXCEPT ![r].at = "launching"]
  /\ currentState' = "starting"
  /\ UNCHANGED <<process, killed, watcher, stops, stopper, launched, registered>>

StartupFrame == UNCHANGED <<currentState, starter, watcher, stops, stopper>>

At(r, next) == startup' = [startup EXCEPT ![r].at = next]

\* process.run() inside launch.
launch_run(r) ==
  /\ startup[r].at = "launching" /\ process[r] = "none"
  /\ process' = [process EXCEPT ![r] = "running"]
  /\ UNCHANGED <<owned, killed, startup, launched, registered>> /\ StartupFrame

\* The bootstrap, the launch or the write of the secret fails; a process that runs is terminated,
\* nobody waits for it.
launch_fails(r) ==
  /\ startup[r].at = "launching"
  /\ At(r, "failed")
  /\ UNCHANGED <<owned, process, killed, launched, registered>> /\ StartupFrame

\* An error after the launch: a process that is not the active run's is terminated first.
StartupThrowsAlways(r) == At(r, "failed")

StartupThrows(r) == At(r, IF ownsRuntime(r) THEN "failed" ELSE "wait")

register_runtime(r) ==
  /\ startup[r].at = "launching" /\ process[r] # "none"
  /\ launched' = launched \cup {r}
  /\ IF startup[r].cancelled \/ ~ensureActive(r)
     THEN StartupThrows(r) /\ UNCHANGED <<owned, registered>>
     ELSE /\ owned' = [owned EXCEPT !.runtime = r]
          /\ registered' = registered \cup {r}
          /\ At(r, "readinessLine")
  /\ UNCHANGED <<process, killed>> /\ StartupFrame

\* The readiness line, then the transport and the snapshot: what is awaited fails, or the task goes
\* on if it was not cancelled meanwhile.
NextAwait == [readinessLine |-> "getOrderBookSnapshot", getOrderBookSnapshot |-> "ok"]

startup_continues(r) ==
  /\ startup[r].at \in DOMAIN NextAwait
  /\ IF startup[r].cancelled \/ ~ensureActive(r) THEN StartupThrows(r)
     ELSE At(r, NextAwait[startup[r].at])
  /\ UNCHANGED <<owned, process, killed, launched, registered>> /\ StartupFrame

startup_fails(r) ==
  /\ startup[r].at \in DOMAIN NextAwait
  /\ StartupThrows(r)
  /\ UNCHANGED <<owned, process, killed, launched, registered>> /\ StartupFrame

stopUnregisteredRuntime(r) ==
  /\ \E next \in TerminateTargets :
       /\ TerminateStep(startup[r].at, r, next)
       /\ At(r, IF next \in Terminated THEN "failed" ELSE next)
  /\ UNCHANGED <<owned, process, launched, registered>> /\ StartupFrame

\* The timer of start(), or the cancellation of its caller; the group still waits for the task.
start_times_out(r) ==
  /\ starter[r] = "awaiting" /\ startup[r].at \notin {"ok", "failed"}
  /\ starter' = [starter EXCEPT ![r] = "timedOut"]
  /\ startup' = [startup EXCEPT ![r].cancelled = TRUE]
  /\ UNCHANGED <<currentState, owned, process, killed, watcher, stops, stopper, launched, registered>>

\* The rest of start() once the task has ended.
beginMonitoringHealthy(r, health) == watcher' = [watcher EXCEPT ![r] = IF health = "healthy" THEN "waiting" ELSE @]

beginMonitoring(r, health) == watcher' = [watcher EXCEPT ![r] = "waiting"]

finish_start(r, health) ==
  /\ starter[r] \in {"awaiting", "timedOut"} /\ startup[r].at \in {"ok", "failed"}
  /\ LET cleared == clearStartupOwnership(owned, r)
     IN IF starter[r] = "awaiting" /\ startup[r].at = "ok" /\ ensureActive(r) /\ owned.runtime = r
        THEN /\ currentState' = health
             /\ owned' = [cleared EXCEPT !.monitor = r]
             /\ beginMonitoring(r, health)
             /\ starter' = [starter EXCEPT ![r] = "done"]
        ELSE /\ UNCHANGED watcher
             /\ IF owned.active = r /\ currentState \notin {"stopping", "stopped"}
                THEN /\ owned' = [cleared EXCEPT !.active = None]
                     /\ currentState' = "failed"
                     /\ starter' = [starter EXCEPT ![r] = IF owned.runtime = r THEN "wait" ELSE "done"]
                ELSE /\ owned' = cleared
                     /\ UNCHANGED currentState
                     /\ starter' = [starter EXCEPT ![r] = "done"]
  /\ UNCHANGED <<process, killed, startup, stops, stopper, launched, registered>>

\* terminateRuntime after a failed start.
terminateRuntime(r) ==
  /\ \/ /\ \E next \in TerminateTargets :
             TerminateStep(starter[r], r, next) /\ starter' = [starter EXCEPT ![r] = next]
        /\ UNCHANGED owned
     \/ /\ starter[r] \in Terminated
        /\ owned' = IF starter[r] = "unresolved" THEN owned ELSE clearRuntimeOwnership(owned, r)
        /\ starter' = [starter EXCEPT ![r] = "done"]
        /\ UNCHANGED killed
  /\ UNCHANGED <<currentState, process, startup, watcher, stops, stopper, launched, registered>>

-----------------------------------------------------------------------------
(* stop()                                                                      *)

join_stop(c) ==
  /\ currentState # "stopped" /\ stopper[c] = None /\ owned.stop # None
  /\ stopper' = [stopper EXCEPT ![c] = owned.stop]
  /\ UNCHANGED <<currentState, owned, process, killed, starter, startup, watcher, stops, launched, registered>>

\* The startup task and the monitor of what is owned are cancelled, whatever becomes of the stop.
CancelOwnedTasks ==
  /\ startup' = [q \in Runs |-> IF q = owned.startup THEN [startup[q] EXCEPT !.cancelled = TRUE] ELSE startup[q]]
  /\ watcher' = [q \in Runs |-> IF q = owned.monitor /\ watcher[q] = "waiting" THEN "done" ELSE watcher[q]]

FirstFree(s) == stops[s].at = "idle" /\ \A t \in 1 .. s - 1 : stops[t].at # "idle"

stop(c) ==
  /\ currentState # "stopped" /\ stopper[c] = None /\ owned.stop = None
  /\ CancelOwnedTasks
  /\ \/ /\ owned.runtime = None
        /\ currentState' = "stopped"
        /\ owned' = [owned EXCEPT !.active = None, !.startup = None, !.monitor = None]
        /\ UNCHANGED <<stops, stopper>>
     \/ /\ owned.runtime # None
        /\ currentState' = "stopping"
        /\ \E s \in Stops :
             /\ FirstFree(s)
             /\ owned' = [owned EXCEPT !.active = None, !.startup = None, !.monitor = None, !.stop = s]
             /\ stops' = [stops EXCEPT ![s] = [run |-> owned.runtime, at |-> "wait"]]
             /\ stopper' = [stopper EXCEPT ![c] = s]
  /\ UNCHANGED <<process, killed, starter, launched, registered>>

terminate(s) ==
  /\ \E next \in TerminateTargets :
       TerminateStep(stops[s].at, stops[s].run, next) /\ stops' = [stops EXCEPT ![s].at = next]
  /\ UNCHANGED <<currentState, owned, process, starter, startup, watcher, stopper, launched, registered>>

completeStop(c) ==
  /\ stopper[c] # None /\ stops[stopper[c]].at \in Terminated
  /\ stopper' = [stopper EXCEPT ![c] = None]
  /\ LET s == stops[stopper[c]]
         released == [owned EXCEPT !.stop = None]
     IN IF owned.stop # stopper[c] THEN UNCHANGED <<currentState, owned>>
        ELSE IF s.at = "unresolved" THEN owned' = released /\ currentState' = "failed"
        ELSE owned' = clearRuntimeOwnership(released, s.run) /\ currentState' = "stopped"
  /\ UNCHANGED <<process, killed, starter, startup, watcher, stops, launched, registered>>

-----------------------------------------------------------------------------
(* The monitor and the process                                                 *)

\* waitForExit returned to a monitor that was not cancelled; the call into the actor is still to come.
monitor_sees_exit(r) ==
  /\ watcher[r] = "waiting" /\ process[r] = "exited"
  /\ watcher' = [watcher EXCEPT ![r] = "exited"]
  /\ UNCHANGED <<currentState, owned, process, killed, starter, startup, stops, stopper, launched, registered>>

processExited(r) ==
  /\ watcher[r] = "exited"
  /\ watcher' = [watcher EXCEPT ![r] = "done"]
  /\ IF owned.active # r THEN UNCHANGED <<currentState, owned>>
     ELSE /\ owned' = [clearRuntimeOwnership(owned, r) EXCEPT !.monitor = None, !.active = None]
          /\ currentState' = IF currentState \in {"stopping", "stopped"} THEN currentState ELSE "failed"
  /\ UNCHANGED <<process, killed, starter, startup, stops, stopper, launched, registered>>

recordExit(r) ==
  /\ process[r] = "running"
  /\ process' = [process EXCEPT ![r] = "exited"]
  /\ UNCHANGED <<currentState, owned, killed, starter, startup, watcher, stops, stopper, launched, registered>>

-----------------------------------------------------------------------------

StartupSteps(r) ==
  launch_run(r) \/ launch_fails(r) \/ register_runtime(r) \/ startup_continues(r) \/ startup_fails(r)
    \/ stopUnregisteredRuntime(r)

StarterSteps(r) == terminateRuntime(r) \/ \E h \in {"healthy", "degraded"} : finish_start(r, h)

MonitorSteps(r) == monitor_sees_exit(r) \/ processExited(r)

DsNext ==
  \/ start
  \/ \E r \in Runs : StartupSteps(r) \/ StarterSteps(r) \/ MonitorSteps(r)
                       \/ start_times_out(r) \/ recordExit(r)
  \/ \E c \in StopCallers : stop(c) \/ join_stop(c) \/ completeStop(c)
  \/ \E s \in Stops : terminate(s)

DsSpec == DsInit /\ [][DsNext]_dsVars

\* Every task that can go on does and timers fire.  Nothing makes a process exit, not even SIGKILL,
\* and nothing makes the daemon answer.  Each task takes finitely many steps, so weak fairness of
\* its steps is that it is not ready for ever.
StartupReady(r) == startup[r].at \notin {"idle", "ok", "failed"}
StarterReady(r) ==
  \/ starter[r] \in {"awaiting", "timedOut"} /\ startup[r].at \in {"ok", "failed"}
  \/ starter[r] \in {"wait", "forceWait"} \cup Terminated
MonitorReady(r) == watcher[r] = "exited" \/ (watcher[r] = "waiting" /\ process[r] = "exited")
StopperReady(c) == stopper[c] # None /\ stops[stopper[c]].at \in Terminated
TerminateReady(s) == stops[s].at \in {"wait", "forceWait"}

DsFairness ==
  /\ \A r \in Runs : []<>~StartupReady(r) /\ []<>~StarterReady(r) /\ []<>~MonitorReady(r)
  /\ \A c \in StopCallers : []<>~StopperReady(c)
  /\ \A s \in Stops : []<>~TerminateReady(s)

-----------------------------------------------------------------------------
(* Properties                                                                  *)

\* A registered daemon that still runs stays owned, through failed starts, stops that time out and
\* the late ends of older runs' tasks: so there is at most one, stopped means that none is left,
\* and a new start is refused until the last one is known to be gone.
RunningStaysOwned ==
  /\ \A r \in registered : process[r] = "running" => owned.runtime = r
  /\ currentState = "stopped" => owned.runtime = None /\ owned.monitor = None

\* No task of the supervisor is left waiting: no caller of start() or stop(), no state that only a
\* task still to come would change, no exit that nobody noticed, and no daemon whose launch returned
\* too late, after its run was stopped or timed out, left running without SIGKILL.
Settled ==
  /\ \A r \in Runs : starter[r] \in {"idle", "done"}
  /\ \A c \in StopCallers : stopper[c] = None
  /\ currentState # "stopping"
  /\ currentState \in {"healthy", "degraded"} => process[owned.active] # "exited"
  /\ \A r \in launched \ registered : process[r] = "running" => r \in killed

\* Nothing waits for ever: the starts and stops there are all come to their end.
SupervisorSettles == []<>Settled
=============================================================================
