----------------------------- MODULE GRPCChannel ------------------------------
(***************************************************************************)
(* The client channel of the vendored gRPC transport                        *)
(* (Client/Connection/GRPCChannel.swift) with its request queue, the load   *)
(* balancers it runs, their subchannels and the calls that ask it for a     *)
(* stream.  Every task is a process of its own: a step is one critical      *)
(* section, or what a task does after it.  The name resolver and the        *)
(* outcome of connection attempts are the environment.                      *)
(***************************************************************************)
EXTENDS GRPCBalancers, SequencesExt

CONSTANTS
  Scenes,                      \* resolver mode and answers, calls, and how much may go wrong
  MaxStreamCreationAttempts    \* GRPCChannel.maxStreamCreationAttempts

VARIABLES
  scene,
  chan,       \* the channel's state machine and the inputs of its run loop
  lbs,        \* the load balancers made so far
  scs,        \* the subchannels made so far
  calls,      \* the calls
  faults      \* how often each kind of outside event may still happen

channelVars == <<scene, chan, lbs, scs, calls, faults>>

NewChannel(mode) ==
  [state |-> "notRunning", conn |-> "idle", current |-> 0, next |-> 0, past |-> {}, queue |-> <<>>,
   published |-> "idle", wasShutdown |-> FALSE, closes |-> 0, results |-> <<>>, answered |-> 0,
   resolving |-> mode = "pull", finished |-> FALSE]

NewCall(waitForReady) ==
  [wait |-> waitForReady, phase |-> "asking", attempt |-> 1, lb |-> 0, sc |-> 0,
   cancelled |-> FALSE, poke |-> 0]

ChannelInit ==
  /\ scene \in Scenes
  /\ chan = NewChannel(scene.mode)
  /\ lbs = <<>>
  /\ scs = <<>>
  /\ calls = [i \in DOMAIN scene.calls |-> NewCall(scene.calls[i])]
  /\ faults = scene.faults

-----------------------------------------------------------------------------
(* The request queue: the calls in the order they joined.                      *)

removeEntry(queue, i) == SelectSeq(queue, LAMBDA j : j # i)
removeFastFailingEntries(queue) == SelectSeq(queue, LAMBDA j : calls[j].wait)

\* Resuming the continuations of the calls that left the queue.
Resumed(cs, leaving, phase, lb) ==
  [i \in DOMAIN cs |-> IF i \in leaving THEN [cs[i] EXCEPT !.phase = phase, !.lb = lb] ELSE cs[i]]

FailLeaving(queue) == Resumed(calls, ToSet(chan.queue) \ ToSet(queue), "failed", 0)

-----------------------------------------------------------------------------
(* Name resolution                                                             *)

Take(l, input) == [lbs EXCEPT ![l].input = Append(@, input)]
Published(ch, state) ==
  [ch EXCEPT !.published = state, !.wasShutdown = @ \/ state = "shutdown"]

Close == [op |-> "close", endpoints |-> {}]

\* Pick-first is given the first endpoint only.
UpdateOf(answer) ==
  [op |-> "update", endpoints |-> IF answer.kind = "pickFirst" THEN {answer.endpoints[1]}
                                  ELSE ToSet(answer.endpoints)]

\* changeLoadBalancerKind and handleLoadBalancerChange, for channel ch.
ChangeLoadBalancer(ch, answer) ==
  LET update == UpdateOf(answer)
      fresh == Len(lbs) + 1
      new == [(IF answer.kind = "pickFirst" THEN NewPickFirst ELSE NewRoundRobin)
                EXCEPT !.input = <<update>>]
      used == IF ch.next # 0 THEN ch.next ELSE ch.current
  IN \/ /\ ch.state = "notRunning"
        /\ chan' = [ch EXCEPT !.state = "running", !.conn = "idle", !.current = fresh]
        /\ lbs' = Append(lbs, new)
     \/ /\ ch.state = "running" /\ lbs[used].kind = answer.kind
        /\ chan' = ch
        /\ lbs' = Take(used, update)
     \/ /\ ch.state = "running" /\ lbs[used].kind # answer.kind /\ ch.next = 0
        /\ chan' = [ch EXCEPT !.next = fresh]
        /\ lbs' = Append(lbs, new)
     \/ /\ ch.state = "running" /\ lbs[used].kind # answer.kind /\ ch.next # 0
        /\ chan' = [ch EXCEPT !.next = fresh, !.past = @ \cup {ch.next}]
        /\ lbs' = Append(Take(ch.next, Close), new)
     \/ ch.state \in {"stopping", "stopped"} /\ chan' = ch /\ UNCHANGED lbs

\* handleNameResolutionResult
HandleResult(ch, answer) ==
  \/ answer.endpoints = <<>> /\ chan' = ch /\ UNCHANGED lbs
  \/ /\ answer.endpoints # <<>> /\ answer.kind = "failure"
     /\ chan' = [ch EXCEPT !.closes = @ + 1] /\ UNCHANGED lbs
  \/ answer.endpoints # <<>> /\ answer.kind # "failure" /\ ChangeLoadBalancer(ch, answer)

\* The resolver repeats its last answer.
Answer == scene.answers[IF chan.answered < Len(scene.answers) THEN chan.answered + 1
                        ELSE Len(scene.answers)]

\* The task of a push resolver yields its answers until it is cancelled.
Pushing == scene.mode = "push" /\ chan.state \notin {"stopping", "stopped"}

PushResult ==
  /\ Pushing /\ chan.answered < Len(scene.answers)
  /\ chan' = [chan EXCEPT !.answered = @ + 1, !.results = Append(@, Answer)]
  /\ UNCHANGED <<scene, lbs, scs, calls, faults>>

\* resolverFailed, from either; the resolver then backs off and tries again.
ResolverFails ==
  /\ faults.resolve > 0 /\ (chan.resolving \/ Pushing)
  /\ faults' = [faults EXCEPT !.resolve = @ - 1]
  /\ IF chan.state = "notRunning"
     THEN LET left == removeFastFailingEntries(chan.queue)
          IN chan' = [chan EXCEPT !.queue = left] /\ calls' = FailLeaving(left)
     ELSE UNCHANGED <<chan, calls>>
  /\ UNCHANGED <<scene, lbs, scs>>

-----------------------------------------------------------------------------
(* The run loop of connect()                                                   *)

Looping == ~chan.resolving /\ ~chan.finished

\* The result the run loop waits for in resolve(using:handlingResultIn:), or the next one that the
\* task of a push resolver passed on.
HandleResolution ==
  LET taken == IF chan.resolving THEN [chan EXCEPT !.resolving = FALSE, !.answered = @ + 1]
               ELSE [chan EXCEPT !.results = Tail(@)]
  IN /\ chan.resolving \/ (Looping /\ chan.results # <<>>)
     /\ HandleResult(taken, IF chan.resolving THEN Answer ELSE Head(chan.results))
     /\ UNCHANGED <<scene, scs, calls, faults>>

\* handleClose; the cancelled task of a push resolver asks for another close as it ends.
HandleClose ==
  LET taken == [chan EXCEPT !.closes = @ - 1]
      again == IF Pushing THEN 1 ELSE 0
      used == {chan.current, chan.next} \ {0}
  IN /\ Looping /\ chan.closes > 0
     /\ \/ /\ chan.state = "notRunning"
           /\ chan' = Published([taken EXCEPT !.state = "stopped", !.queue = <<>>,
                                              !.closes = @ + again], "shutdown")
           /\ calls' = FailLeaving(<<>>) /\ UNCHANGED lbs
        \/ /\ chan.state = "running"
           /\ chan' = Published([taken EXCEPT !.state = "stopping", !.queue = <<>>,
                                              !.past = @ \cup used, !.closes = @ + again],
                                "shutdown")
           /\ lbs' = [l \in DOMAIN lbs |->
                        IF l \in used THEN Take(l, Close)[l] ELSE lbs[l]]
           /\ calls' = FailLeaving(<<>>)
        \/ /\ chan.state \in {"stopping", "stopped"} /\ chan' = taken
           /\ UNCHANGED <<lbs, calls>>
     /\ UNCHANGED <<scene, scs, faults>>

\* loadBalancerStateChanged for the current load balancer.
CurrentChanged(ch, state) ==
  LET left == IF state = "ready" THEN <<>> ELSE removeFastFailingEntries(ch.queue)
      moved == Published([ch EXCEPT !.conn = state], state)
  IN \/ ch.conn = state /\ chan' = ch /\ UNCHANGED calls
     \/ /\ ch.conn # state /\ state \in {"idle", "connecting"}
        /\ chan' = moved /\ UNCHANGED calls
     \/ /\ ch.conn # state /\ state = "ready"
        /\ chan' = [moved EXCEPT !.queue = <<>>]
        /\ calls' = Resumed(calls, ToSet(ch.queue), "picking", ch.current)
     \/ /\ ch.conn # state /\ state \in {"transientFailure", "shutdown"}
        /\ chan' = [moved EXCEPT !.queue = left]
        /\ calls' = FailLeaving(left)

\* A next load balancer that is ready is promoted; the channel's own state stays as it was.
NextChanged(ch, state) ==
  IF state = "ready"
  THEN LET promoted == [ch EXCEPT !.past = @ \cup {ch.current}, !.current = ch.next, !.next = 0,
                                  !.queue = <<>>]
       IN /\ chan' = IF ch.conn = "ready" THEN promoted ELSE Published(promoted, "ready")
          /\ calls' = Resumed(calls, ToSet(ch.queue), "picking", ch.next)
  ELSE chan' = ch /\ UNCHANGED calls

Forgotten(ch, state, l) == [ch EXCEPT !.past = IF state = "shutdown" THEN @ \ {l} ELSE @]

\* loadBalancerStateChanged while stopping: the channel finishes with its last load balancer.
StoppingChanged(ch, state, l) ==
  LET left == Forgotten(ch, state, l)
  IN IF left.past = {} THEN [left EXCEPT !.state = "stopped", !.finished = TRUE] ELSE left

\* handleLoadBalancerEvent
HandleBalancerEvent(l) ==
  LET event == Head(lbs[l].events)
      taken == [lbs EXCEPT ![l].events = Tail(@)]
  IN /\ Looping /\ lbs[l].events # <<>>
     /\ \/ /\ event = "requiresNameResolution"
           /\ chan' = [chan EXCEPT !.resolving = scene.mode = "pull"]
           /\ lbs' = taken /\ UNCHANGED calls
        \/ /\ event # "requiresNameResolution" /\ chan.state = "running" /\ l = chan.current
           /\ CurrentChanged(chan, event) /\ lbs' = taken
        \/ /\ event # "requiresNameResolution" /\ chan.state = "running" /\ l = chan.next
           /\ NextChanged(chan, event)
           /\ lbs' = [taken EXCEPT ![chan.current].input =
                                     IF event = "ready" THEN Append(@, Close) ELSE @]
        \/ /\ event # "requiresNameResolution" /\ chan.state = "running"
           /\ l \notin {chan.current, chan.next}
           /\ chan' = Forgotten(chan, event, l) /\ lbs' = taken /\ UNCHANGED calls
        \/ /\ event # "requiresNameResolution" /\ chan.state # "running"
           /\ chan' = IF chan.state = "stopping" THEN StoppingChanged(chan, event, l) ELSE chan
           /\ lbs' = taken /\ UNCHANGED calls
     /\ UNCHANGED <<scene, scs, faults>>

\* beginGracefulShutdown, called by the application.
BeginGracefulShutdown ==
  /\ faults.close > 0
  /\ faults' = [faults EXCEPT !.close = @ - 1]
  /\ chan' = [chan EXCEPT !.closes = @ + 1]
  /\ UNCHANGED <<scene, lbs, scs, calls>>

-----------------------------------------------------------------------------
(* The load balancers' tasks                                                   *)

\* One instruction left after a critical section of load balancer l.
PerformOn(l, instruction, state) ==
  LET sc == instruction[2]
  IN CASE instruction[1] = "publish" /\ ~state.lbs[l].finished ->
            [state EXCEPT !.lbs[l].events = Append(@, instruction[2])]
       [] instruction[1] = "finish" -> [state EXCEPT !.lbs[l].finished = TRUE]
       [] instruction[1] = "run" ->
            [state EXCEPT !.scs[sc] = YieldInput([@ EXCEPT !.running = TRUE], "connect")]
       [] instruction[1] \in {"shutDown", "connect"} ->
            [state EXCEPT !.scs[sc] = YieldInput(@, instruction[1])]
       [] OTHER -> state

Perform(l, todo, state) == FoldLeft(LAMBDA st, i : PerformOn(l, i, st), state, todo)

\* The subchannels an update of load balancer l creates: one for pick-first, one for each new
\* endpoint for round-robin.
Fresh(lb, endpoints) ==
  IF lb.kind = "roundRobin"
  THEN LET order == SetToSeq(EndpointsToAdd(lb, endpoints))
       IN [k \in ToSet(order) |-> Len(scs) + CHOOSE i \in DOMAIN order : order[i] = k]
  ELSE IF lb.phase = "active" THEN [k \in endpoints |-> Len(scs) + 1] ELSE <<>>

\* What a task decided in its critical section is done later, and may be overtaken, when it
\* publishes a state; telling subchannels alone is done at once, for their order is settled by the
\* lock or by nothing.
Later(todo) == \E i \in DOMAIN todo : todo[i][1] = "publish"

\* run(): an update or the close
BalancerInput(l) ==
  LET lb == [lbs[l] EXCEPT !.input = Tail(@)]
      input == Head(lbs[l].input)
      fresh == Fresh(lb, input.endpoints)
      order == SetToSortSeq(DOMAIN fresh, LAMBDA a, b : fresh[a] < fresh[b])
      made == IF input = Close THEN scs
              ELSE scs \o [i \in DOMAIN order |-> NewSubchannel(l, order[i])]
      afters == CASE input = Close -> {BalancerClose(lb)}
                  [] input # Close /\ lb.kind = "roundRobin" ->
                       RoundRobinUpdates(lb, input.endpoints, fresh)
                  [] OTHER -> {PickFirstUpdate(lb, Len(scs) + 1)}
  IN /\ lbs[l].todo = <<>> /\ lbs[l].input # <<>>
     /\ \E after \in afters :
          LET done == [lbs |-> [lbs EXCEPT ![l] = after.lb], scs |-> made]
              state == IF Later(after.todo) THEN [done EXCEPT !.lbs[l].todo = after.todo]
                       ELSE Perform(l, after.todo, done)
          IN lbs' = state.lbs /\ scs' = state.scs
     /\ UNCHANGED <<scene, chan, calls, faults>>

BalancerPerforms(l) ==
  LET done == Perform(l, lbs[l].todo, [lbs |-> [lbs EXCEPT ![l].todo = <<>>], scs |-> scs])
  IN /\ lbs[l].todo # <<>>
     /\ lbs' = done.lbs /\ scs' = done.scs
     /\ UNCHANGED <<scene, chan, calls, faults>>

\* The task that consumes the events of subchannel n.
SubchannelEvent(n) ==
  LET l == scs[n].lb
  IN /\ scs[n].running /\ scs[n].todo = <<>> /\ scs[n].events # <<>>
     /\ \E after \in BalancerHandles(lbs[l], Head(scs[n].events), n, scs[n]) :
          LET done == [lbs |-> [lbs EXCEPT ![l] = after.lb], scs |-> [scs EXCEPT ![n].events = Tail(@)]]
              state == IF Later(after.todo) THEN [done EXCEPT !.scs[n].todo = after.todo]
                       ELSE Perform(l, after.todo, done)
          IN lbs' = state.lbs /\ scs' = state.scs
     /\ UNCHANGED <<scene, chan, calls, faults>>

SubchannelPerforms(n) ==
  LET done == Perform(scs[n].lb, scs[n].todo, [lbs |-> lbs, scs |-> [scs EXCEPT ![n].todo = <<>>]])
  IN /\ scs[n].todo # <<>>
     /\ lbs' = done.lbs /\ scs' = done.scs
     /\ UNCHANGED <<scene, chan, calls, faults>>

-----------------------------------------------------------------------------
(* The subchannels' run loops and their connections                            *)

OnlySubchannel(n, sc) == scs' = [scs EXCEPT ![n] = sc] /\ UNCHANGED <<scene, chan, lbs, calls>>

SubchannelInput(n) ==
  /\ scs[n].running /\ scs[n].input # <<>>
  /\ OnlySubchannel(n, HandleInput(scs[n])) /\ UNCHANGED faults

ConnectionEvent(n) ==
  /\ scs[n].running /\ scs[n].life.events # <<>>
  /\ OnlySubchannel(n, IF scs[n].finished THEN [scs[n] EXCEPT !.life.events = Tail(@)]
                       ELSE HandleLifeEvent(scs[n]))
  /\ UNCHANGED faults

WakesUp(n) == scs[n].backoff /\ OnlySubchannel(n, BackOffEnds(scs[n])) /\ UNCHANGED faults

\* A connection attempt ends, the server goes away, or the connection closes.  What does not
\* answer a close or follow a GOAWAY counts against the scene's bounds.
FaultOf(life) ==
  CASE Last(life.events) = "connectFailed" -> "connect"
    [] Last(life.events) = "connectSucceeded" -> "established"
    [] Last(life.events) \in {"initiatedLocally", "remote"} -> "none"
    [] OTHER -> "connection"

ConnectionSteps(n) ==
  \E l \in Life(scs[n].life)!LivesAfter(scs[n].life) :
    /\ (FaultOf(l) # "none") => (faults[FaultOf(l)] > 0)
    /\ OnlySubchannel(n, [scs[n] EXCEPT !.life = l])
    /\ faults' = IF FaultOf(l) = "none" THEN faults ELSE [faults EXCEPT ![FaultOf(l)] = @ - 1]

-----------------------------------------------------------------------------
(* The calls: withStream                                                       *)

OnlyCall(i, c) == calls' = [calls EXCEPT ![i] = c] /\ UNCHANGED <<scene, lbs, faults>>

TryAgain(c) ==
  IF c.attempt = MaxStreamCreationAttempts THEN [c EXCEPT !.phase = "failed"]
  ELSE [c EXCEPT !.phase = "asking", !.attempt = @ + 1]

\* StateMachine.makeStream
MakeStream(i) ==
  LET c == calls[i]
      joins == \/ chan.state = "notRunning"
               \/ chan.state = "running" /\ chan.conn \in {"idle", "connecting"}
               \/ chan.state = "running" /\ chan.conn = "transientFailure" /\ c.wait
      uses == chan.state = "running" /\ chan.conn = "ready"
  IN /\ c.phase = "asking"
     /\ OnlyCall(i, CASE joins -> [c EXCEPT !.phase = "joining"]
                      [] uses -> [c EXCEPT !.phase = "picking", !.lb = chan.current]
                      [] OTHER -> [c EXCEPT !.phase = "failed"])
     /\ UNCHANGED <<chan, scs>>

\* enqueue: the poke of an idle load balancer follows outside the lock, and only the calls that
\* are not to poke look at their own cancellation.
Enqueue(i) ==
  LET c == calls[i]
      queued == [chan EXCEPT !.queue = Append(@, i)]
      running == chan.state = "running"
  IN /\ c.phase = "joining"
     /\ \/ /\ running /\ chan.conn = "ready"
           /\ OnlyCall(i, [c EXCEPT !.phase = "picking", !.lb = chan.current]) /\ UNCHANGED chan
        \/ /\ running /\ chan.conn = "idle"
           /\ OnlyCall(i, [c EXCEPT !.phase = "waiting", !.poke = chan.current])
           /\ chan' = queued
        \/ /\ \/ chan.state = "notRunning"
              \/ running /\ chan.conn \notin {"ready", "idle"}
           /\ OnlyCall(i, [c EXCEPT !.phase = IF c.cancelled THEN "failed" ELSE "waiting"])
           /\ chan' = IF c.cancelled THEN chan ELSE queued
        \/ /\ chan.state \in {"stopping", "stopped"}
           /\ OnlyCall(i, [c EXCEPT !.phase = "failed"]) /\ UNCHANGED chan
     /\ UNCHANGED scs

Told(ns, input) == [n \in DOMAIN scs |-> IF n \in ns THEN YieldInput(scs[n], input) ELSE scs[n]]

\* Picking a subchannel to make an idle load balancer connect.
Poke(i) ==
  /\ calls[i].poke # 0
  /\ \E pick \in BalancerPicks(lbs[calls[i].poke]) : scs' = Told(pick.connect, "connect")
  /\ OnlyCall(i, [calls[i] EXCEPT !.poke = 0]) /\ UNCHANGED chan

\* makeStream(descriptor:options:loadBalancer:)
PickSubchannel(i) ==
  LET c == calls[i]
  IN /\ c.phase = "picking" /\ c.poke = 0
     /\ \E pick \in BalancerPicks(lbs[c.lb]) :
          /\ scs' = Told(pick.connect, "connect")
          /\ OnlyCall(i, IF pick.picked = 0 THEN TryAgain(c)
                         ELSE [c EXCEPT !.phase = "opening", !.sc = pick.picked])
     /\ UNCHANGED chan

OpenStream(i) ==
  LET c == calls[i]
  IN /\ c.phase = "opening"
     /\ OnlyCall(i, IF GivesStream(scs[c.sc]) THEN [c EXCEPT !.phase = "open"] ELSE TryAgain(c))
     /\ UNCHANGED <<chan, scs>>

\* The task of the call is cancelled: onCancel takes it from the queue, if it is there.
Cancel(i) ==
  LET c == calls[i]
      found == i \in ToSet(chan.queue)
  IN /\ faults.cancel > 0 /\ ~c.cancelled /\ c.phase \in {"asking", "joining", "waiting"}
     /\ calls' = [calls EXCEPT ![i] = [c EXCEPT !.cancelled = TRUE,
                                                !.phase = IF found THEN "failed" ELSE @]]
     /\ chan' = [chan EXCEPT !.queue = removeEntry(@, i)]
     /\ faults' = [faults EXCEPT !.cancel = @ - 1]
     /\ UNCHANGED <<scene, lbs, scs>>

-----------------------------------------------------------------------------
ChannelTakes == \/ PushResult \/ ResolverFails \/ BeginGracefulShutdown
                \/ HandleResolution \/ HandleClose
                \/ \E l \in DOMAIN lbs : HandleBalancerEvent(l)

BalancerTakes ==
  \/ \E l \in DOMAIN lbs : BalancerInput(l) \/ BalancerPerforms(l)
  \/ \E n \in DOMAIN scs : SubchannelEvent(n) \/ SubchannelPerforms(n)

SubchannelTakes ==
  \E n \in DOMAIN scs : SubchannelInput(n) \/ ConnectionEvent(n) \/ WakesUp(n) \/ ConnectionSteps(n)

CallTakes ==
  \E i \in DOMAIN calls : \/ MakeStream(i) \/ Enqueue(i) \/ Poke(i) \/ PickSubchannel(i)
                          \/ OpenStream(i) \/ Cancel(i)

ChannelNext == ChannelTakes \/ BalancerTakes \/ SubchannelTakes \/ CallTakes
=============================================================================
