------------------------------ MODULE DaemonSupervisorProofs ------------------------------
(* Proofs about the macOS supervisor: whatever its tasks do between each       *)
(* other's awaits, a daemon that runs is owned until it is known to be gone.   *)
EXTENDS DaemonSupervisor, TLAPS

-----------------------------------------------------------------------------
(* The supervisor                                                              *)

MaybeRun == Runs \cup {None}

StatesOf == {"stopped", "starting", "healthy", "degraded", "failed", "stopping"}

StarterStates == {"idle", "awaiting", "timedOut", "wait", "forceWait", "done"} \cup Terminated

StartupStates ==
  {"idle", "launching", "readinessLine", "getOrderBookSnapshot", "ok", "failed", "wait", "forceWait"}

StopStates == {"idle", "wait", "forceWait"} \cup Terminated

Ownerships ==
  [active : MaybeRun, runtime : MaybeRun, startup : MaybeRun, stop : Stops \cup {None}, monitor : MaybeRun]

\* The shape of the supervisor's state: every ownership names a run or a stop there is.
DsTypes ==
  /\ currentState \in StatesOf
  /\ owned \in Ownerships
  /\ process \in [Runs -> {"none", "running", "exited"}]
  /\ starter \in [Runs -> StarterStates]
  /\ startup \in [Runs -> [at : StartupStates, cancelled : BOOLEAN]]
  /\ watcher \in [Runs -> {"idle", "waiting", "exited", "done"}]
  /\ stops \in [Stops -> [run : MaybeRun, at : StopStates]]
  /\ stopper \in [StopCallers -> Stops \cup {None}]
  /\ registered \subseteq Runs

\* What is registered was launched, and is owned for as long as it runs.
OwnedWhileRunning ==
  \A r \in registered : process[r] # "none" /\ (process[r] = "running" => owned.runtime = r)

\* A task that says that a process is gone says so of a process whose exit was recorded.
ExitsRecorded ==
  /\ \A r \in Runs : starter[r] \in {"graceful", "forced"} => process[r] = "exited"
  /\ \A r \in Runs : watcher[r] = "exited" => process[r] = "exited"
  /\ \A s \in Stops :
       /\ stops[s].at # "idle" => stops[s].run \in Runs
       /\ stops[s].at \in {"graceful", "forced"} => process[stops[s].run] = "exited"

\* A start whose launch has not returned finds no runtime owned.
LaunchFindsNone ==
  \A r \in Runs :
    currentState = "starting" /\ owned.active = r /\ startup[r].at = "launching" => owned.runtime = None

\* While a stop is owned it is the only owner of what is to be stopped.
StopOwnsAlone ==
  owned.stop # None =>
    /\ currentState = "stopping" /\ owned.active = None /\ owned.monitor = None
    /\ owned.runtime \in {None, stops[owned.stop].run}

StoppedOwnsNone == currentState = "stopped" => owned.runtime = None /\ owned.monitor = None

DsInv == DsTypes /\ OwnedWhileRunning /\ ExitsRecorded /\ LaunchFindsNone /\ StopOwnsAlone /\ StoppedOwnsNone

LEMMA SupervisorStartsEmpty == DsInit => DsInv
<1> SUFFICES ASSUME DsInit PROVE DsInv
  OBVIOUS
<1>1. DsTypes
  BY DEF DsInit, DsTypes, Ownerships, StatesOf, MaybeRun, StarterStates, StartupStates, StopStates
<1>2. OwnedWhileRunning /\ ExitsRecorded /\ LaunchFindsNone /\ StopOwnsAlone /\ StoppedOwnsNone
  BY DEF DsInit, OwnedWhileRunning, ExitsRecorded, LaunchFindsNone, StopOwnsAlone, StoppedOwnsNone
<1> QED
  BY <1>1, <1>2 DEF DsInv

\* start() finds nothing owned, so the run it begins is alone.
LEMMA StartKeeps == ASSUME DsInv, start PROVE DsInv'
<1> PICK r \in Runs : /\ owned' = [owned EXCEPT !.active = r, !.startup = r]
                      /\ starter' = [starter EXCEPT ![r] = "awaiting"]
                      /\ startup' = [startup EXCEPT ![r].at = "launching"]
  BY DEF start
<1>0. /\ currentState' \in StatesOf
      /\ UNCHANGED <<process, watcher, stops, stopper, registered>>
  BY DEF start, StatesOf
<1>a. owned' \in Ownerships
  BY DEF DsInv, DsTypes, Ownerships, MaybeRun
<1>b. startup' \in [Runs -> [at : StartupStates, cancelled : BOOLEAN]]
  <2>1. startup \in [Runs -> [at : StartupStates, cancelled : BOOLEAN]] /\ "launching" \in StartupStates
    BY DEF DsInv, DsTypes, StartupStates
  <2> QED
    BY <2>1
<1>c. starter' \in [Runs -> StarterStates]
  BY DEF DsInv, DsTypes, StarterStates
<1>1. DsTypes'
  BY <1>0, <1>a, <1>b, <1>c DEF DsInv, DsTypes
<1>2. owned'.runtime = None /\ owned'.stop = None /\ owned.runtime = None
  BY DEF DsInv, DsTypes, Ownerships, start
<1>3. OwnedWhileRunning'
  BY <1>2 DEF DsInv, OwnedWhileRunning, start
<1>4. ExitsRecorded'
  BY DEF DsInv, DsTypes, ExitsRecorded, start
<1>5. LaunchFindsNone' /\ StopOwnsAlone' /\ StoppedOwnsNone'
  BY <1>2 DEF LaunchFindsNone, StopOwnsAlone, StoppedOwnsNone, start
<1> QED
  BY <1>1, <1>3, <1>4, <1>5 DEF DsInv

\* The process of a run is started once, before it is registered.
LEMMA LaunchRunKeeps == ASSUME DsInv, NEW r \in Runs, launch_run(r) PROVE DsInv'
<1>1. DsTypes'
  BY DEF DsInv, DsTypes, launch_run, StartupFrame
<1>2. OwnedWhileRunning'
  BY DEF DsInv, DsTypes, OwnedWhileRunning, launch_run
<1>3. ExitsRecorded'
  BY DEF DsInv, DsTypes, ExitsRecorded, launch_run, StartupFrame
<1>4. LaunchFindsNone' /\ StopOwnsAlone' /\ StoppedOwnsNone'
  BY DEF DsInv, LaunchFindsNone, StopOwnsAlone, StoppedOwnsNone, launch_run, StartupFrame
<1> QED
  BY <1>1, <1>2, <1>3, <1>4 DEF DsInv

\* A step of the startup task that only moves it on, or cancels it, touches no ownership: unless it
\* goes back to launching, everything else stands.
LEMMA StartupMoves ==
  ASSUME DsInv, DsTypes',
         UNCHANGED <<owned, process, registered, currentState, watcher, stops>>,
         \A q \in Runs : starter'[q] \in {"graceful", "forced"} => starter[q] \in {"graceful", "forced"},
         \A q \in Runs : startup'[q].at = "launching" => startup[q].at = "launching"
  PROVE  DsInv'
<1>1. OwnedWhileRunning' /\ StopOwnsAlone' /\ StoppedOwnsNone'
  BY DEF DsInv, OwnedWhileRunning, StopOwnsAlone, StoppedOwnsNone
<1>2. ExitsRecorded'
  BY DEF DsInv, ExitsRecorded
<1>3. LaunchFindsNone'
  BY DEF DsInv, LaunchFindsNone
<1> QED
  BY <1>1, <1>2, <1>3 DEF DsInv

LEMMA AtTypes ==
  ASSUME DsInv, NEW r \in Runs, NEW next \in StartupStates \ {"launching"}, At(r, next)
  PROVE  /\ startup' \in [Runs -> [at : StartupStates, cancelled : BOOLEAN]]
         /\ \A q \in Runs : startup'[q].at = "launching" => startup[q].at = "launching"
<1>1. startup \in [Runs -> [at : StartupStates, cancelled : BOOLEAN]]
  BY DEF DsInv, DsTypes
<1> QED
  BY <1>1 DEF At

LEMMA ThrowsTypes ==
  ASSUME DsInv, NEW r \in Runs, StartupThrows(r)
  PROVE  /\ startup' \in [Runs -> [at : StartupStates, cancelled : BOOLEAN]]
         /\ \A q \in Runs : startup'[q].at = "launching" => startup[q].at = "launching"
<1>1. PICK next \in {"failed", "wait"} : At(r, next)
  BY DEF StartupThrows
<1>2. next \in StartupStates \ {"launching"}
  BY DEF StartupStates
<1> QED
  BY <1>1, <1>2, AtTypes

LEMMA LaunchFailsKeeps == ASSUME DsInv, NEW r \in Runs, launch_fails(r) PROVE DsInv'
<1>1. "failed" \in StartupStates \ {"launching"} /\ At(r, "failed")
  BY DEF launch_fails, StartupStates
<1>2. UNCHANGED <<owned, process, registered, currentState, watcher, stops, starter, stopper>>
  BY DEF launch_fails, StartupFrame
<1>3. startup' \in [Runs -> [at : StartupStates, cancelled : BOOLEAN]]
      /\ \A q \in Runs : startup'[q].at = "launching" => startup[q].at = "launching"
  BY <1>1, AtTypes
<1>4. DsTypes'
  BY <1>2, <1>3 DEF DsInv, DsTypes
<1> QED
  BY <1>2, <1>3, <1>4, StartupMoves

\* A launch that returns to its own start registers the process: no other one is left running.
LEMMA RegisterKeeps == ASSUME DsInv, NEW r \in Runs, register_runtime(r) PROVE DsInv'
<1>1. UNCHANGED <<process, currentState, watcher, stops, starter, stopper>>
  BY DEF register_runtime, StartupFrame
<1>2. CASE startup[r].cancelled \/ ~ensureActive(r)
  <2>1. StartupThrows(r) /\ UNCHANGED <<owned, registered>>
    BY <1>2 DEF register_runtime
  <2>2. startup' \in [Runs -> [at : StartupStates, cancelled : BOOLEAN]]
        /\ \A q \in Runs : startup'[q].at = "launching" => startup[q].at = "launching"
    BY <2>1, ThrowsTypes
  <2>3. DsTypes'
    BY <1>1, <2>1, <2>2 DEF DsInv, DsTypes
  <2> QED
    BY <1>1, <2>1, <2>2, <2>3, StartupMoves
<1>3. CASE ~(startup[r].cancelled \/ ~ensureActive(r))
  <2>1. /\ owned' = [owned EXCEPT !.runtime = r] /\ registered' = registered \cup {r}
        /\ At(r, "readinessLine") /\ process[r] # "none" /\ startup[r].at = "launching"
        /\ owned.active = r /\ currentState = "starting"
    BY <1>3 DEF register_runtime, ensureActive
  <2>2. "readinessLine" \in StartupStates \ {"launching"}
    BY DEF StartupStates
  <2>3. startup' \in [Runs -> [at : StartupStates, cancelled : BOOLEAN]]
    BY <2>1, <2>2, AtTypes
  <2>4. owned' \in Ownerships
    BY <2>1 DEF DsInv, DsTypes, Ownerships, MaybeRun
  <2>5. DsTypes'
    BY <1>1, <2>1, <2>3, <2>4 DEF DsInv, DsTypes
  <2>6. owned'.runtime = r /\ owned'.active = owned.active /\ owned'.stop = owned.stop
    BY <2>1 DEF DsInv, DsTypes, Ownerships
  <2>7. owned.runtime = None /\ r # None
    BY <2>1 DEF DsInv, LaunchFindsNone, Runs, None
  <2>8. OwnedWhileRunning'
    <3>1. \A q \in registered : process[q] # "none" /\ process[q] # "running"
      BY <2>7 DEF DsInv, DsTypes, OwnedWhileRunning, Runs, None
    <3> QED
      BY <1>1, <2>1, <2>6, <3>1 DEF OwnedWhileRunning
  <2>9. ExitsRecorded'
    BY <1>1 DEF DsInv, ExitsRecorded
  <2>10. LaunchFindsNone'
    <3>1. startup'[r].at = "readinessLine"
      BY <2>1 DEF At, DsInv, DsTypes
    <3> QED
      BY <2>1, <2>6, <3>1 DEF LaunchFindsNone
  <2>11. StopOwnsAlone' /\ StoppedOwnsNone'
    BY <1>1, <2>1, <2>6, <2>7 DEF DsInv, StopOwnsAlone, StoppedOwnsNone
  <2> QED
    BY <2>5, <2>8, <2>9, <2>10, <2>11 DEF DsInv
<1> QED
  BY <1>2, <1>3

LEMMA ContinuesKeeps ==
  ASSUME DsInv, NEW r \in Runs, startup_continues(r) \/ startup_fails(r)
  PROVE  DsInv'
<1>1. UNCHANGED <<owned, process, registered, currentState, watcher, stops, starter, stopper>>
  BY DEF startup_continues, startup_fails, StartupFrame
<1>2. StartupThrows(r) \/ \E next \in {"getOrderBookSnapshot", "ok"} : At(r, next)
  BY DEF startup_continues, startup_fails, NextAwait
<1>3. {"getOrderBookSnapshot", "ok"} \subseteq StartupStates \ {"launching"}
  BY DEF StartupStates
<1>4. startup' \in [Runs -> [at : StartupStates, cancelled : BOOLEAN]]
      /\ \A q \in Runs : startup'[q].at = "launching" => startup[q].at = "launching"
  BY <1>2, <1>3, ThrowsTypes, AtTypes
<1>5. DsTypes'
  BY <1>1, <1>4 DEF DsInv, DsTypes
<1> QED
  BY <1>1, <1>4, <1>5, StartupMoves

LEMMA StopUnregisteredKeeps == ASSUME DsInv, NEW r \in Runs, stopUnregisteredRuntime(r) PROVE DsInv'
<1>1. UNCHANGED <<owned, process, registered, currentState, watcher, stops, starter, stopper>>
  BY DEF stopUnregisteredRuntime, StartupFrame
<1>2. PICK next \in {"failed", "forceWait"} : At(r, next)
  BY DEF stopUnregisteredRuntime, TerminateTargets
<1>3. {"failed", "forceWait"} \subseteq StartupStates \ {"launching"}
  BY DEF StartupStates
<1>4. startup' \in [Runs -> [at : StartupStates, cancelled : BOOLEAN]]
      /\ \A q \in Runs : startup'[q].at = "launching" => startup[q].at = "launching"
  BY <1>2, <1>3, AtTypes
<1>5. DsTypes'
  BY <1>1, <1>4 DEF DsInv, DsTypes
<1> QED
  BY <1>1, <1>4, <1>5, StartupMoves

LEMMA TimesOutKeeps == ASSUME DsInv, NEW r \in Runs, start_times_out(r) PROVE DsInv'
<1>1. UNCHANGED <<owned, process, registered, currentState, watcher, stops, stopper>>
  BY DEF start_times_out
<1>2. startup \in [Runs -> [at : StartupStates, cancelled : BOOLEAN]] /\ starter \in [Runs -> StarterStates]
  BY DEF DsInv, DsTypes
<1>3. startup' \in [Runs -> [at : StartupStates, cancelled : BOOLEAN]]
      /\ \A q \in Runs : startup'[q].at = "launching" => startup[q].at = "launching"
  BY <1>2 DEF start_times_out
<1>4. starter' \in [Runs -> StarterStates]
      /\ \A q \in Runs : starter'[q] \in {"graceful", "forced"} => starter[q] \in {"graceful", "forced"}
  BY <1>2 DEF start_times_out, StarterStates
<1>5. DsTypes'
  BY <1>1, <1>3, <1>4 DEF DsInv, DsTypes
<1> QED
  BY <1>1, <1>3, <1>4, <1>5, StartupMoves

LEMMA ClearStartup ==
  ASSUME NEW o \in Ownerships, NEW r
  PROVE  /\ clearStartupOwnership(o, r) \in Ownerships
         /\ clearStartupOwnership(o, r).active = o.active /\ clearStartupOwnership(o, r).runtime = o.runtime
         /\ clearStartupOwnership(o, r).stop = o.stop /\ clearStartupOwnership(o, r).monitor = o.monitor
<1>1. clearStartupOwnership(o, r) = [o EXCEPT !.startup = IF o.startup = r THEN None ELSE o.startup]
  BY DEF clearStartupOwnership
<1>2. (IF o.startup = r THEN None ELSE o.startup) \in MaybeRun
  BY DEF Ownerships, MaybeRun
<1> QED
  BY <1>1, <1>2 DEF Ownerships

LEMMA ClearRuntime ==
  ASSUME NEW o \in Ownerships, NEW r
  PROVE  /\ clearRuntimeOwnership(o, r) \in Ownerships
         /\ clearRuntimeOwnership(o, r).active = o.active /\ clearRuntimeOwnership(o, r).startup = o.startup
         /\ clearRuntimeOwnership(o, r).stop = o.stop /\ clearRuntimeOwnership(o, r).monitor = o.monitor
         /\ o.runtime = r => clearRuntimeOwnership(o, r).runtime = None
         /\ o.runtime # r => clearRuntimeOwnership(o, r).runtime = o.runtime
<1>1. clearRuntimeOwnership(o, r) = [o EXCEPT !.runtime = IF o.runtime = r THEN None ELSE o.runtime]
  BY DEF clearRuntimeOwnership
<1>2. (IF o.runtime = r THEN None ELSE o.runtime) \in MaybeRun
  BY DEF Ownerships, MaybeRun
<1> QED
  BY <1>1, <1>2 DEF Ownerships

\* What the other conjuncts need of a step that leaves processes, tasks and stops alone, but for a
\* starter that claims no exit: the ownership of runtimes may stay, or go from one that has exited.
LEMMA OwnershipMoves ==
  ASSUME DsInv, DsTypes', UNCHANGED <<process, registered>>,
         owned'.runtime # owned.runtime => owned'.runtime = None /\ process[owned.runtime] = "exited"
  PROVE  OwnedWhileRunning'
<1>1. CASE owned'.runtime = owned.runtime
  BY <1>1 DEF DsInv, OwnedWhileRunning
<1>2. CASE owned'.runtime # owned.runtime
  <2>1. \A r \in registered : process[r] = "running" => owned.runtime = r
    BY DEF DsInv, OwnedWhileRunning
  <2>2. \A r \in registered : process[r] # "running"
    BY <1>2, <2>1
  <2> QED
    BY <2>2 DEF DsInv, OwnedWhileRunning
<1> QED
  BY <1>1, <1>2

LEMMA FinishStartKeeps ==
  ASSUME DsInv, NEW r \in Runs, NEW h \in {"healthy", "degraded"}, finish_start(r, h)
  PROVE  DsInv'
<1> DEFINE cleared == clearStartupOwnership(owned, r)
<1>1. UNCHANGED <<process, startup, stops, stopper, registered>>
  BY DEF finish_start
<1>2. owned \in Ownerships /\ r \in MaybeRun /\ r # None
  BY DEF DsInv, DsTypes, MaybeRun, Runs, None
<1>3. /\ cleared \in Ownerships /\ cleared.active = owned.active /\ cleared.runtime = owned.runtime
      /\ cleared.stop = owned.stop /\ cleared.monitor = owned.monitor
  BY <1>2, ClearStartup
<1>4. \/ /\ ensureActive(r) /\ owned.runtime = r /\ currentState' = h
         /\ owned' = [cleared EXCEPT !.monitor = r]
         /\ watcher' = [watcher EXCEPT ![r] = "waiting"]
         /\ starter' = [starter EXCEPT ![r] = "done"]
      \/ /\ owned.active = r /\ UNCHANGED watcher /\ currentState' = "failed"
         /\ owned' = [cleared EXCEPT !.active = None]
         /\ starter' = [starter EXCEPT ![r] = IF owned.runtime = r THEN "wait" ELSE "done"]
      \/ /\ owned' = cleared /\ UNCHANGED <<currentState, watcher>>
         /\ starter' = [starter EXCEPT ![r] = "done"]
  BY DEF finish_start, beginMonitoring
<1> HIDE DEF cleared
<1>5. /\ owned' \in Ownerships /\ owned'.runtime = owned.runtime /\ owned'.stop = owned.stop
      /\ owned'.active \in {owned.active, None}
  BY <1>2, <1>3, <1>4 DEF Ownerships, MaybeRun
<1>6. \E next \in {"wait", "done"} : starter' = [starter EXCEPT ![r] = next]
  BY <1>4, Zenon
<1>7. starter' \in [Runs -> StarterStates]
      /\ \A q \in Runs : starter'[q] \in {"graceful", "forced"} => starter[q] \in {"graceful", "forced"}
  BY <1>6 DEF DsInv, DsTypes, StarterStates
<1>8. watcher' \in [Runs -> {"idle", "waiting", "exited", "done"}]
      /\ \A q \in Runs : watcher'[q] = "exited" => watcher[q] = "exited"
  BY <1>4 DEF DsInv, DsTypes
<1>9. currentState' \in StatesOf /\ currentState' \in {currentState, h, "failed"}
  BY <1>4 DEF DsInv, DsTypes, StatesOf
<1>10. DsTypes'
  BY <1>1, <1>5, <1>7, <1>8, <1>9 DEF DsInv, DsTypes
<1>11. OwnedWhileRunning'
  BY <1>1, <1>5, <1>10, OwnershipMoves
<1>12. ExitsRecorded'
  BY <1>1, <1>7, <1>8 DEF DsInv, ExitsRecorded
<1>13. LaunchFindsNone'
  BY <1>1, <1>5, <1>9 DEF DsInv, LaunchFindsNone, None, Runs
<1>14. StopOwnsAlone' /\ StoppedOwnsNone'
  <2>1. CASE owned.active = r
    <3>1. owned.stop = None
      BY <1>2, <2>1 DEF DsInv, StopOwnsAlone
    <3>2. StopOwnsAlone'
      BY <1>5, <3>1 DEF StopOwnsAlone
    <3>3. StoppedOwnsNone'
      BY <1>3, <1>4 DEF DsInv, StoppedOwnsNone
    <3> QED
      BY <3>2, <3>3
  <2>2. CASE owned.active # r
    BY <1>1, <1>3, <1>4, <2>2 DEF DsInv, StopOwnsAlone, StoppedOwnsNone, ensureActive
  <2> QED
    BY <2>1, <2>2
<1> QED
  BY <1>10, <1>11, <1>12, <1>13, <1>14 DEF DsInv

\* What a termination step may claim: an exit only when it was recorded.
LEMMA TerminateClaims ==
  ASSUME NEW at, NEW r, NEW next \in TerminateTargets, TerminateStep(at, r, next)
  PROVE  next \in {"graceful", "forced"} => process[r] = "exited"
BY DEF TerminateStep

LEMMA TerminateRuntimeKeeps == ASSUME DsInv, NEW r \in Runs, terminateRuntime(r) PROVE DsInv'
<1>1. UNCHANGED <<currentState, process, startup, watcher, stops, stopper, registered>>
  BY DEF terminateRuntime
<1>2. owned \in Ownerships /\ starter \in [Runs -> StarterStates]
  BY DEF DsInv, DsTypes
<1>3. CASE \E next \in TerminateTargets :
             TerminateStep(starter[r], r, next) /\ starter' = [starter EXCEPT ![r] = next] /\ UNCHANGED owned
  <2>1. PICK next \in TerminateTargets :
          TerminateStep(starter[r], r, next) /\ starter' = [starter EXCEPT ![r] = next] /\ UNCHANGED owned
    BY <1>3
  <2>2. next \in {"graceful", "forced"} => process[r] = "exited"
    BY <2>1, TerminateClaims
  <2>3. next \in StarterStates
    BY DEF TerminateTargets, StarterStates
  <2>4. starter' \in [Runs -> StarterStates]
    BY <1>2, <2>1, <2>3
  <2>5. DsTypes'
    BY <1>1, <2>1, <2>4 DEF DsInv, DsTypes
  <2>6. ExitsRecorded'
    BY <1>1, <1>2, <2>1, <2>2 DEF DsInv, ExitsRecorded
  <2>7. OwnedWhileRunning' /\ LaunchFindsNone' /\ StopOwnsAlone' /\ StoppedOwnsNone'
    BY <1>1, <2>1 DEF DsInv, OwnedWhileRunning, LaunchFindsNone, StopOwnsAlone, StoppedOwnsNone
  <2> QED
    BY <2>5, <2>6, <2>7 DEF DsInv
<1>4. CASE /\ starter[r] \in Terminated
           /\ owned' = IF starter[r] = "unresolved" THEN owned ELSE clearRuntimeOwnership(owned, r)
           /\ starter' = [starter EXCEPT ![r] = "done"]
  <2>1. starter[r] \in {"graceful", "forced"} => process[r] = "exited"
    BY DEF DsInv, ExitsRecorded
  <2>2. starter' \in [Runs -> StarterStates]
        /\ \A q \in Runs : starter'[q] \in {"graceful", "forced"} => starter[q] \in {"graceful", "forced"}
    BY <1>2, <1>4 DEF StarterStates
  <2>3. /\ owned' \in Ownerships /\ owned'.active = owned.active /\ owned'.stop = owned.stop
        /\ owned'.monitor = owned.monitor /\ owned'.runtime \in {owned.runtime, None}
        /\ owned'.runtime # owned.runtime =>
             owned'.runtime = None /\ owned.runtime = r /\ starter[r] # "unresolved"
    BY <1>2, <1>4, ClearRuntime
  <2>4. DsTypes'
    BY <1>1, <2>2, <2>3 DEF DsInv, DsTypes
  <2>5. owned'.runtime # owned.runtime => owned'.runtime = None /\ process[owned.runtime] = "exited"
    BY <1>4, <2>1, <2>3 DEF Terminated
  <2>6. OwnedWhileRunning'
    BY <1>1, <2>4, <2>5, OwnershipMoves
  <2>7. ExitsRecorded'
    BY <1>1, <2>2 DEF DsInv, ExitsRecorded
  <2>8. LaunchFindsNone' /\ StopOwnsAlone' /\ StoppedOwnsNone'
    BY <1>1, <2>3 DEF DsInv, LaunchFindsNone, StopOwnsAlone, StoppedOwnsNone
  <2> QED
    BY <2>4, <2>6, <2>7, <2>8 DEF DsInv
<1> QED
  BY <1>3, <1>4 DEF terminateRuntime

LEMMA JoinStopKeeps == ASSUME DsInv, NEW c \in StopCallers, join_stop(c) PROVE DsInv'
<1>1. UNCHANGED <<currentState, owned, process, starter, startup, watcher, stops, registered>>
  BY DEF join_stop
<1>2. DsTypes'
  BY <1>1 DEF DsInv, DsTypes, Ownerships, join_stop
<1>3. OwnedWhileRunning' /\ ExitsRecorded'
  BY <1>1 DEF DsInv, OwnedWhileRunning, ExitsRecorded
<1>4. LaunchFindsNone' /\ StopOwnsAlone' /\ StoppedOwnsNone'
  BY <1>1 DEF DsInv, LaunchFindsNone, StopOwnsAlone, StoppedOwnsNone
<1> QED
  BY <1>2, <1>3, <1>4 DEF DsInv

\* stop() gives up every ownership but the runtime's, which the new stop takes over.
LEMMA StopKeeps == ASSUME DsInv, NEW c \in StopCallers, stop(c) PROVE DsInv'
<1>1. UNCHANGED <<process, starter, registered>>
  BY DEF stop
<1>2. /\ owned \in Ownerships /\ startup \in [Runs -> [at : StartupStates, cancelled : BOOLEAN]]
      /\ watcher \in [Runs -> {"idle", "waiting", "exited", "done"}]
      /\ stops \in [Stops -> [run : MaybeRun, at : StopStates]]
      /\ stopper \in [StopCallers -> Stops \cup {None}]
  BY DEF DsInv, DsTypes
<1>3. /\ startup' \in [Runs -> [at : StartupStates, cancelled : BOOLEAN]]
      /\ watcher' \in [Runs -> {"idle", "waiting", "exited", "done"}]
      /\ \A q \in Runs : watcher'[q] = "exited" => watcher[q] = "exited"
  BY <1>2 DEF stop, CancelOwnedTasks
<1>4. CASE /\ owned.runtime = None /\ currentState' = "stopped"
           /\ owned' = [owned EXCEPT !.active = None, !.startup = None, !.monitor = None]
           /\ UNCHANGED <<stops, stopper>>
  <2>1. /\ owned' \in Ownerships /\ owned'.runtime = None /\ owned'.monitor = None /\ owned'.stop = owned.stop
    BY <1>2, <1>4 DEF Ownerships, MaybeRun
  <2>2. DsTypes'
    BY <1>1, <1>3, <1>4, <2>1 DEF DsInv, DsTypes, StatesOf
  <2>3. OwnedWhileRunning'
    BY <1>1, <1>4, <2>1, <2>2, OwnershipMoves
  <2>4. ExitsRecorded'
    BY <1>1, <1>3, <1>4 DEF DsInv, ExitsRecorded
  <2>5. LaunchFindsNone' /\ StoppedOwnsNone'
    BY <2>1 DEF LaunchFindsNone, StoppedOwnsNone
  <2>6. StopOwnsAlone'
    BY <2>1 DEF StopOwnsAlone, stop
  <2> QED
    BY <2>2, <2>3, <2>4, <2>5, <2>6 DEF DsInv
<1>5. CASE /\ owned.runtime # None /\ currentState' = "stopping"
           /\ \E s \in Stops :
                /\ owned' = [owned EXCEPT !.active = None, !.startup = None, !.monitor = None, !.stop = s]
                /\ stops' = [stops EXCEPT ![s] = [run |-> owned.runtime, at |-> "wait"]]
                /\ stopper' = [stopper EXCEPT ![c] = s]
  <2>1. PICK s \in Stops :
          /\ owned' = [owned EXCEPT !.active = None, !.startup = None, !.monitor = None, !.stop = s]
          /\ stops' = [stops EXCEPT ![s] = [run |-> owned.runtime, at |-> "wait"]]
          /\ stopper' = [stopper EXCEPT ![c] = s]
    BY <1>5
  <2>2. /\ owned' \in Ownerships /\ owned'.runtime = owned.runtime /\ owned'.stop = s
        /\ owned'.active = None /\ owned'.monitor = None
    BY <1>2, <2>1 DEF Ownerships, MaybeRun
  <2>3. /\ stops' \in [Stops -> [run : MaybeRun, at : StopStates]]
        /\ stops'[s].run = owned.runtime /\ stops'[s].at = "wait"
        /\ \A t \in Stops : t # s => stops'[t] = stops[t]
    BY <1>2, <2>1 DEF Ownerships, StopStates
  <2>4. stopper' \in [StopCallers -> Stops \cup {None}]
    BY <1>2, <2>1
  <2>5. DsTypes'
    BY <1>1, <1>3, <1>5, <2>2, <2>3, <2>4 DEF DsInv, DsTypes, StatesOf
  <2>6. OwnedWhileRunning'
    BY <1>1, <2>2, <2>5, OwnershipMoves
  <2>7. ExitsRecorded'
    <3>1. owned.runtime \in Runs
      BY <1>2, <1>5 DEF Ownerships, MaybeRun
    <3> QED
      BY <1>1, <1>3, <2>3, <3>1 DEF DsInv, ExitsRecorded
  <2>8. LaunchFindsNone' /\ StoppedOwnsNone'
    BY <1>5 DEF LaunchFindsNone, StoppedOwnsNone
  <2>9. StopOwnsAlone'
    BY <1>5, <2>2, <2>3 DEF StopOwnsAlone
  <2> QED
    BY <2>5, <2>6, <2>7, <2>8, <2>9 DEF DsInv
<1> QED
  BY <1>4, <1>5 DEF stop

LEMMA TerminateKeeps == ASSUME DsInv, NEW s \in Stops, terminate(s) PROVE DsInv'
<1>1. UNCHANGED <<currentState, owned, process, starter, startup, watcher, stopper, registered>>
  BY DEF terminate
<1>2. PICK next \in TerminateTargets :
        TerminateStep(stops[s].at, stops[s].run, next) /\ stops' = [stops EXCEPT ![s].at = next]
  BY DEF terminate
<1>3. stops \in [Stops -> [run : MaybeRun, at : StopStates]] /\ next \in StopStates
  BY DEF DsInv, DsTypes, TerminateTargets, StopStates
<1>4. /\ stops' \in [Stops -> [run : MaybeRun, at : StopStates]]
      /\ stops'[s].run = stops[s].run /\ stops'[s].at = next
      /\ \A t \in Stops : t # s => stops'[t] = stops[t]
  BY <1>2, <1>3
<1>5. DsTypes'
  BY <1>1, <1>4 DEF DsInv, DsTypes
<1>6. next \in {"graceful", "forced"} => process[stops[s].run] = "exited"
  BY <1>2, TerminateClaims
<1>7. stops[s].run \in Runs
  BY <1>2 DEF DsInv, ExitsRecorded, TerminateStep
<1>8. ExitsRecorded'
  BY <1>1, <1>4, <1>6, <1>7 DEF DsInv, ExitsRecorded
<1>9. OwnedWhileRunning' /\ LaunchFindsNone' /\ StoppedOwnsNone'
  BY <1>1 DEF DsInv, OwnedWhileRunning, LaunchFindsNone, StoppedOwnsNone
<1>10. StopOwnsAlone'
  <2>1. \A t \in Stops : stops'[t].run = stops[t].run
    BY <1>4
  <2>2. owned.stop \in Stops \cup {None}
    BY DEF DsInv, DsTypes, Ownerships
  <2> QED
    BY <1>1, <2>1, <2>2 DEF DsInv, StopOwnsAlone
<1> QED
  BY <1>5, <1>8, <1>9, <1>10 DEF DsInv

\* The first caller to come back from the termination gives the runtime up if its exit was recorded.
LEMMA CompleteStopKeeps == ASSUME DsInv, NEW c \in StopCallers, completeStop(c) PROVE DsInv'
<1> DEFINE s == stopper[c]
           released == [owned EXCEPT !.stop = None]
<1>1. UNCHANGED <<process, starter, startup, watcher, stops, registered>>
  BY DEF completeStop
<1>2. /\ owned \in Ownerships /\ stops \in [Stops -> [run : MaybeRun, at : StopStates]]
      /\ stopper \in [StopCallers -> Stops \cup {None}] /\ currentState \in StatesOf
  BY DEF DsInv, DsTypes
<1>3. s \in Stops /\ stops[s].at \in Terminated
  BY <1>2 DEF completeStop
<1>4. stopper' \in [StopCallers -> Stops \cup {None}]
  BY <1>2 DEF completeStop
<1>5. /\ released \in Ownerships /\ released.active = owned.active /\ released.runtime = owned.runtime
      /\ released.stop = None /\ released.monitor = owned.monitor
  BY <1>2 DEF Ownerships
<1>6. \/ UNCHANGED <<currentState, owned>>
      \/ owned.stop = s /\ owned' = released /\ currentState' = "failed"
      \/ /\ owned.stop = s /\ stops[s].at # "unresolved"
         /\ owned' = clearRuntimeOwnership(released, stops[s].run) /\ currentState' = "stopped"
  BY DEF completeStop
<1> HIDE DEF released, s
<1>7. ExitsRecorded'
  BY <1>1 DEF DsInv, ExitsRecorded
<1>8. CASE UNCHANGED <<currentState, owned>>
  <2>1. DsTypes'
    BY <1>1, <1>4, <1>8 DEF DsInv, DsTypes
  <2>2. OwnedWhileRunning' /\ LaunchFindsNone' /\ StopOwnsAlone' /\ StoppedOwnsNone'
    BY <1>1, <1>8 DEF DsInv, OwnedWhileRunning, LaunchFindsNone, StopOwnsAlone, StoppedOwnsNone
  <2> QED
    BY <1>7, <2>1, <2>2 DEF DsInv
<1>9. CASE owned.stop = s /\ owned' = released /\ currentState' = "failed"
  <2>1. DsTypes'
    BY <1>1, <1>4, <1>5, <1>9 DEF DsInv, DsTypes, StatesOf
  <2>2. OwnedWhileRunning'
    BY <1>1, <1>5, <1>9, <2>1, OwnershipMoves
  <2>3. LaunchFindsNone' /\ StopOwnsAlone' /\ StoppedOwnsNone'
    BY <1>5, <1>9 DEF LaunchFindsNone, StopOwnsAlone, StoppedOwnsNone
  <2> QED
    BY <1>7, <2>1, <2>2, <2>3 DEF DsInv
<1>10. CASE /\ owned.stop = s /\ stops[s].at # "unresolved"
            /\ owned' = clearRuntimeOwnership(released, stops[s].run) /\ currentState' = "stopped"
  <2>1. process[stops[s].run] = "exited"
    BY <1>3, <1>10 DEF DsInv, ExitsRecorded, Terminated
  <2>2. owned.monitor = None /\ owned.runtime \in {None, stops[s].run}
    BY <1>3, <1>10 DEF DsInv, StopOwnsAlone, Stops, None
  <2>3. /\ owned' \in Ownerships /\ owned'.runtime = None /\ owned'.stop = None /\ owned'.monitor = None
    BY <1>5, <1>10, <2>2, ClearRuntime
  <2>4. owned'.runtime # owned.runtime => owned'.runtime = None /\ process[owned.runtime] = "exited"
    BY <2>1, <2>2, <2>3
  <2>5. DsTypes'
    BY <1>1, <1>4, <1>10, <2>3 DEF DsInv, DsTypes, StatesOf
  <2>6. OwnedWhileRunning'
    BY <1>1, <2>4, <2>5, OwnershipMoves
  <2>7. LaunchFindsNone' /\ StopOwnsAlone' /\ StoppedOwnsNone'
    BY <1>10, <2>3 DEF LaunchFindsNone, StopOwnsAlone, StoppedOwnsNone
  <2> QED
    BY <1>7, <2>5, <2>6, <2>7 DEF DsInv
<1> QED
  BY <1>6, <1>8, <1>9, <1>10

LEMMA MonitorKeeps == ASSUME DsInv, NEW r \in Runs, monitor_sees_exit(r) PROVE DsInv'
<1>1. UNCHANGED <<currentState, owned, process, starter, startup, stops, stopper, registered>>
  BY DEF monitor_sees_exit
<1>2. DsTypes'
  BY <1>1 DEF DsInv, DsTypes, monitor_sees_exit
<1>3. ExitsRecorded'
  BY <1>1 DEF DsInv, DsTypes, ExitsRecorded, monitor_sees_exit
<1>4. OwnedWhileRunning' /\ LaunchFindsNone' /\ StopOwnsAlone' /\ StoppedOwnsNone'
  BY <1>1 DEF DsInv, OwnedWhileRunning, LaunchFindsNone, StopOwnsAlone, StoppedOwnsNone
<1> QED
  BY <1>2, <1>3, <1>4 DEF DsInv

\* The exit a monitor reports gives up the runtime of its own run only.
LEMMA ProcessExitedKeeps == ASSUME DsInv, NEW r \in Runs, processExited(r) PROVE DsInv'
<1> DEFINE cleared == clearRuntimeOwnership(owned, r)
<1>1. UNCHANGED <<process, starter, startup, stops, stopper, registered>>
  BY DEF processExited
<1>2. owned \in Ownerships /\ currentState \in StatesOf /\ r # None
  BY DEF DsInv, DsTypes, Runs, None
<1>3. /\ watcher' \in [Runs -> {"idle", "waiting", "exited", "done"}]
      /\ \A q \in Runs : watcher'[q] = "exited" => watcher[q] = "exited"
  BY DEF DsInv, DsTypes, processExited
<1>4. ExitsRecorded'
  BY <1>1, <1>3 DEF DsInv, ExitsRecorded
<1>5. CASE owned.active # r
  <2>1. UNCHANGED <<currentState, owned>>
    BY <1>5 DEF processExited
  <2>2. DsTypes'
    BY <1>1, <1>3, <2>1 DEF DsInv, DsTypes
  <2>3. OwnedWhileRunning' /\ LaunchFindsNone' /\ StopOwnsAlone' /\ StoppedOwnsNone'
    BY <1>1, <2>1 DEF DsInv, OwnedWhileRunning, LaunchFindsNone, StopOwnsAlone, StoppedOwnsNone
  <2> QED
    BY <1>4, <2>2, <2>3 DEF DsInv
<1>6. CASE owned.active = r
  <2>1. owned' = [cleared EXCEPT !.monitor = None, !.active = None]
        /\ currentState' = IF currentState \in {"stopping", "stopped"} THEN currentState ELSE "failed"
    BY <1>6 DEF processExited
  <2>2. /\ cleared \in Ownerships /\ cleared.stop = owned.stop
        /\ owned.runtime = r => cleared.runtime = None
        /\ owned.runtime # r => cleared.runtime = owned.runtime
    BY <1>2, ClearRuntime
  <2> HIDE DEF cleared
  <2>3. /\ owned' \in Ownerships /\ owned'.stop = owned.stop /\ owned'.monitor = None
        /\ owned'.active = None /\ owned'.runtime = cleared.runtime
    BY <2>1, <2>2 DEF Ownerships, MaybeRun
  <2>4. process[r] = "exited"
    BY DEF DsInv, ExitsRecorded, processExited
  <2>5. owned'.runtime # owned.runtime => owned'.runtime = None /\ process[owned.runtime] = "exited"
    BY <2>2, <2>3, <2>4
  <2>6. currentState' \in StatesOf /\ (currentState' = "stopped" => currentState = "stopped")
    BY <1>2, <2>1 DEF StatesOf
  <2>7. DsTypes'
    BY <1>1, <1>3, <2>3, <2>6 DEF DsInv, DsTypes
  <2>8. OwnedWhileRunning'
    BY <1>1, <2>5, <2>7, OwnershipMoves
  <2>9. LaunchFindsNone'
    BY <2>3 DEF LaunchFindsNone, Runs, None
  <2>10. StopOwnsAlone'
    BY <1>2, <1>6, <2>3 DEF DsInv, StopOwnsAlone
  <2>11. StoppedOwnsNone'
    BY <2>2, <2>3, <2>6 DEF DsInv, StoppedOwnsNone
  <2> QED
    BY <1>4, <2>7, <2>8, <2>9, <2>10, <2>11 DEF DsInv
<1> QED
  BY <1>5, <1>6

LEMMA RecordExitKeeps == ASSUME DsInv, NEW r \in Runs, recordExit(r) PROVE DsInv'
<1>1. UNCHANGED <<currentState, owned, starter, startup, watcher, stops, stopper, registered>>
  BY DEF recordExit
<1>2. /\ process' \in [Runs -> {"none", "running", "exited"}] /\ process'[r] = "exited"
      /\ \A q \in Runs : q # r => process'[q] = process[q]
  BY DEF DsInv, DsTypes, recordExit
<1>3. DsTypes'
  BY <1>1, <1>2 DEF DsInv, DsTypes
<1>4. OwnedWhileRunning'
  BY <1>1, <1>2 DEF DsInv, DsTypes, OwnedWhileRunning
<1>5. ExitsRecorded'
  BY <1>1, <1>2 DEF DsInv, DsTypes, ExitsRecorded
<1>6. LaunchFindsNone' /\ StopOwnsAlone' /\ StoppedOwnsNone'
  BY <1>1 DEF DsInv, LaunchFindsNone, StopOwnsAlone, StoppedOwnsNone
<1> QED
  BY <1>3, <1>4, <1>5, <1>6 DEF DsInv

LEMMA SupervisorStepKeeps == ASSUME DsInv, [DsNext]_dsVars PROVE DsInv'
<1>1. CASE start
  BY <1>1, StartKeeps
<1>2. ASSUME NEW r \in Runs, StartupSteps(r) PROVE DsInv'
  BY <1>2, LaunchRunKeeps, LaunchFailsKeeps, RegisterKeeps, ContinuesKeeps, StopUnregisteredKeeps
     DEF StartupSteps
<1>3. ASSUME NEW r \in Runs, StarterSteps(r) PROVE DsInv'
  BY <1>3, TerminateRuntimeKeeps, FinishStartKeeps DEF StarterSteps
<1>4. ASSUME NEW r \in Runs, MonitorSteps(r) PROVE DsInv'
  BY <1>4, MonitorKeeps, ProcessExitedKeeps DEF MonitorSteps
<1>5. ASSUME NEW r \in Runs, start_times_out(r) \/ recordExit(r) PROVE DsInv'
  BY <1>5, TimesOutKeeps, RecordExitKeeps
<1>6. ASSUME NEW c \in StopCallers, stop(c) \/ join_stop(c) \/ completeStop(c) PROVE DsInv'
  BY <1>6, StopKeeps, JoinStopKeeps, CompleteStopKeeps
<1>7. ASSUME NEW s \in Stops, terminate(s) PROVE DsInv'
  BY <1>7, TerminateKeeps
<1>8. CASE UNCHANGED dsVars
  BY <1>8 DEF dsVars, DsInv, DsTypes, OwnedWhileRunning, ExitsRecorded, LaunchFindsNone, StopOwnsAlone,
              StoppedOwnsNone
<1> QED
  BY <1>1, <1>2, <1>3, <1>4, <1>5, <1>6, <1>7, <1>8 DEF DsNext

\* DaemonSupervisor.swift keeps DsInv through every interleaving of its tasks, for any number of runs,
\* stops and callers.
THEOREM SupervisorOwnership == DsSpec => []DsInv
<1>1. DsInit => DsInv
  BY SupervisorStartsEmpty
<1>2. DsInv /\ [DsNext]_dsVars => DsInv'
  BY SupervisorStepKeeps
<1> QED
  BY <1>1, <1>2, PTL DEF DsSpec

\* A registered daemon that still runs stays owned through failed starts, stops that time out and the
\* late ends of older runs' tasks, and stopped means that none is left.
THEOREM RunningDaemonOwned == DsSpec => []RunningStaysOwned
<1>1. DsInv => RunningStaysOwned
  BY DEF DsInv, OwnedWhileRunning, StoppedOwnsNone, RunningStaysOwned
<1> QED
  BY <1>1, SupervisorOwnership, PTL

=============================================================================
