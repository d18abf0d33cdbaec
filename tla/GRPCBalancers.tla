---------------------------- MODULE GRPCBalancers ----------------------------
(***************************************************************************)
(* The subchannel of the vendored gRPC transport                            *)
(* (Client/Connection/LoadBalancers/Subchannel.swift): one endpoint, at     *)
(* most one running connection, and the run loop that consumes its inputs.  *)
(* Its load balancer reads sc.events; sc.todo is what the load balancer's   *)
(* task for this subchannel has decided and not yet done.                   *)
(***************************************************************************)
EXTENDS Integers, Sequences, FiniteSets, TLC

CONSTANT AddressCount     \* the number of addresses of an endpoint

\* The operators of ConnectionLife, on the connection a subchannel holds.
Life(l) == INSTANCE ConnectionLife WITH life <- l

NoLife == [phase |-> "closed", asked |-> FALSE, events |-> <<>>]

NewSubchannel(lb, endpoint) ==
  [lb |-> lb, endpoint |-> endpoint, state |-> "notConnected", tried |-> 0, life |-> NoLife,
   running |-> FALSE, backoff |-> FALSE, finished |-> FALSE, input |-> <<>>,
   events |-> <<"idle">>, todo |-> <<>>]

\* input.continuation.yield: dropped once the stream has finished.
YieldInput(sc, input) == IF sc.finished THEN sc ELSE [sc EXCEPT !.input = Append(@, input)]

Emit(sc, events) == [sc EXCEPT !.events = @ \o events]

\* What is still buffered in a finished input stream reaches a subchannel that ignores it.
FinishStreams(sc) == [sc EXCEPT !.finished = TRUE, !.input = <<>>]

runConnection(sc) == [sc EXCEPT !.life = Life(NoLife)!NewLife]

ToShutDown(sc) == FinishStreams([sc EXCEPT !.state = "shutDown"])

handleConnectInput(sc) ==
  IF sc.state # "notConnected" THEN sc
  ELSE Emit(runConnection([sc EXCEPT !.state = "connecting", !.tried = 1]), <<"connecting">>)

handleBackedOffInput(sc) ==
  CASE sc.state = "connecting" -> Emit(runConnection(sc), <<"connecting">>)
    [] sc.state = "shuttingDown" -> ToShutDown(sc)
    [] OTHER -> sc

handleShutDownInput(sc) ==
  CASE sc.state = "notConnected" -> ToShutDown(Emit(sc, <<"shutdown">>))
    [] sc.state \in {"connecting", "goingAway"} ->
         Emit([sc EXCEPT !.state = "shuttingDown"], <<"shutdown">>)
    [] sc.state = "connected" ->
         Emit([sc EXCEPT !.state = "shuttingDown", !.life = Life(NoLife)!AskToClose(@)],
              <<"shutdown">>)
    [] OTHER -> sc


handleConnectSucceededEvent(sc) ==
  CASE sc.state = "connecting" -> Emit([sc EXCEPT !.state = "connected"], <<"ready">>)
    [] sc.state = "shuttingDown" ->
         ToShutDown(Emit([sc EXCEPT !.life = Life(NoLife)!AskToClose(@)], <<"shutdown">>))
    [] OTHER -> sc

\* The next address at once; the first one again, after a backoff, when all were tried.
handleConnectFailedEvent(sc) ==
  CASE sc.state = "connecting" /\ sc.tried < AddressCount[sc.endpoint] ->
         runConnection([sc EXCEPT !.tried = @ + 1])
    [] sc.state = "connecting" /\ sc.tried = AddressCount[sc.endpoint] ->
         Emit([sc EXCEPT !.tried = 1, !.backoff = TRUE], <<"transientFailure">>)
    [] sc.state = "shuttingDown" -> ToShutDown(sc)
    [] OTHER -> sc

handleGoingAwayEvent(sc) ==
  IF sc.state # "connected" THEN sc
  ELSE Emit([sc EXCEPT !.state = "goingAway"], <<"goingAway", "requiresNameResolution">>)

handleConnectionClosedEvent(sc, reason) ==
  CASE sc.state = "connected" /\ reason \in {"idleTimeout", "remote", "errorIdle"} ->
         Emit([sc EXCEPT !.state = "notConnected"], <<"idle">>)
    [] sc.state = "connected" /\ reason \in {"keepaliveTimeout", "errorBusy"} ->
         handleConnectInput(Emit([sc EXCEPT !.state = "notConnected"],
                                 <<"transientFailure", "requiresNameResolution">>))
    [] sc.state = "connected" /\ reason = "initiatedLocally" ->
         ToShutDown(Emit(sc, <<"shutdown">>))
    [] sc.state = "goingAway" -> Emit([sc EXCEPT !.state = "notConnected"], <<"idle">>)
    [] sc.state = "shuttingDown" -> ToShutDown(sc)
    [] OTHER -> sc

handleConnectionEvent(sc, event) ==
  CASE event = "connectSucceeded" -> handleConnectSucceededEvent(sc)
    [] event = "connectFailed" -> handleConnectFailedEvent(sc)
    [] event = "goingAway" -> handleGoingAwayEvent(sc)
    [] OTHER -> handleConnectionClosedEvent(sc, event)

\* One turn of run(): the next input, or the next event of the connection, in either order (the
\* events reach the input stream through a task of their own).
HandleInput(sc) ==
  LET rest == [sc EXCEPT !.input = Tail(@)]
  IN CASE Head(sc.input) = "connect" -> handleConnectInput(rest)
       [] Head(sc.input) = "backedOff" -> handleBackedOffInput(rest)
       [] Head(sc.input) = "shutDown" -> handleShutDownInput(rest)

HandleLifeEvent(sc) ==
  handleConnectionEvent([sc EXCEPT !.life.events = Tail(@)], Head(sc.life.events))

\* The sleeping task of a failed connect attempt wakes up.
BackOffEnds(sc) == YieldInput([sc EXCEPT !.backoff = FALSE], "backedOff")

\* makeStream: a connection that is connected and not closing gives a stream.
GivesStream(sc) == sc.state = "connected" /\ sc.life.phase = "ready" /\ ~sc.life.asked

-----------------------------------------------------------------------------
(***************************************************************************)
(* The two load balancers of the vendored gRPC transport: pick-first        *)
(* (LoadBalancers/PickFirstLoadBalancer.swift) and round-robin              *)
(* (LoadBalancers/RoundRobinLoadBalancer.swift).  An operation is its       *)
(* critical section: the state it leaves and, in todo, what its task does   *)
(* after the lock is released.  A subchannel is its number, 0 is nil.       *)
(***************************************************************************)

After(lb, todo) == [lb |-> lb, todo |-> todo]
Publish(state) == <<"publish", state>>
ShutDown(sc) == <<"shutDown", sc>>
Run(sc) == <<"run", sc>>
FinishBalancer == <<"finish", 0>>

\* A set of subchannels told the same thing, in some order.
Each(Do(_), scs) ==
  LET order == CHOOSE s \in [1..Cardinality(scs) -> scs] : \A x \in scs : \E i \in DOMAIN s : s[i] = x
  IN [i \in 1..Cardinality(scs) |-> Do(order[i])]

-----------------------------------------------------------------------------
(* Pick first                                                                  *)

NewPickFirst ==
  [kind |-> "pickFirst", phase |-> "active", conn |-> "idle", current |-> 0, next |-> 0,
   parked |-> {}, goingAway |-> FALSE, input |-> <<>>, events |-> <<"idle">>, finished |-> FALSE,
   todo |-> <<>>]

\* Active.updateEndpoint: fresh is the subchannel made for the endpoint.
PickFirstUpdate(lb, fresh) ==
  CASE lb.phase # "active" -> After(lb, <<>>)
    [] lb.phase = "active" /\ lb.current # 0 /\ lb.next = 0 /\ lb.conn = "idle" ->
         After([lb EXCEPT !.goingAway = FALSE, !.current = fresh, !.parked = @ \cup {lb.current}],
               <<Run(fresh), ShutDown(lb.current)>>)
    [] lb.phase = "active" /\ lb.current # 0 /\ lb.next = 0 /\ lb.conn # "idle" ->
         After([lb EXCEPT !.next = fresh], <<Run(fresh)>>)
    [] lb.phase = "active" /\ lb.current # 0 /\ lb.next # 0 ->
         After([lb EXCEPT !.next = fresh, !.parked = @ \cup {lb.next}],
               <<Run(fresh), ShutDown(lb.next)>>)
    [] OTHER -> After([lb EXCEPT !.goingAway = FALSE, !.current = fresh, !.next = 0,
                                 !.parked = @ \cup ({lb.next} \ {0})],
                      <<Run(fresh)>> \o Each(ShutDown, {lb.next} \ {0}))

\* As a mutant: the subchannel that a promoted one replaces is not told to shut down.
PickFirstActiveKeeps(lb, state, sc) ==
  CASE sc = lb.current /\ state # lb.conn ->
         After([lb EXCEPT !.goingAway = @ /\ state # "idle", !.conn = state], <<Publish(state)>>)
    [] sc = lb.next /\ state = "ready" ->
         After([lb EXCEPT !.conn = "ready", !.current = sc, !.next = 0, !.goingAway = FALSE],
               IF lb.conn # "ready" THEN <<Publish("ready")>> ELSE <<>>)
    [] OTHER -> After(lb, <<>>)

\* Active.updateSubchannelConnectivityState
PickFirstActive(lb, state, sc) ==
  CASE sc = lb.current /\ state = lb.conn -> After(lb, <<>>)
    [] sc = lb.current /\ state # lb.conn ->
         After([lb EXCEPT !.goingAway = @ /\ state # "idle", !.conn = state], <<Publish(state)>>)
    [] sc = lb.next /\ state = "ready" ->
         After([lb EXCEPT !.conn = "ready", !.current = sc, !.next = 0, !.goingAway = FALSE],
               <<ShutDown(lb.current)>> \o (IF lb.conn # "ready" THEN <<Publish("ready")>> ELSE <<>>))
    [] sc \notin {lb.current, lb.next} /\ state = "idle" /\ sc \in lb.parked ->
         After(lb, <<ShutDown(sc)>>)
    [] sc \notin {lb.current, lb.next} /\ state = "shutdown" ->
         After([lb EXCEPT !.parked = @ \ {sc}], <<>>)
    [] OTHER -> After(lb, <<>>)

\* Closing.updateSubchannelConnectivityState
PickFirstClosing(lb, state, sc) ==
  CASE state = "idle" /\ sc \in lb.parked -> After(lb, <<ShutDown(sc)>>)
    [] state = "shutdown" /\ lb.parked = {sc} ->
         After([lb EXCEPT !.parked = {}, !.phase = "closed"], <<FinishBalancer>>)
    [] state = "shutdown" /\ lb.parked # {sc} -> After([lb EXCEPT !.parked = @ \ {sc}], <<>>)
    [] OTHER -> After(lb, <<>>)

PickFirstState(lb, state, sc) ==
  CASE lb.phase = "active" -> PickFirstActive(lb, state, sc)
    [] lb.phase = "closing" -> PickFirstClosing(lb, state, sc)
    [] OTHER -> After(lb, <<>>)

\* receivedGoAway
PickFirstGoAway(lb, sc) ==
  CASE lb.phase = "active" /\ sc = lb.current -> After([lb EXCEPT !.goingAway = TRUE], <<>>)
    [] lb.phase = "active" /\ sc = lb.next ->
         After([lb EXCEPT !.next = 0, !.parked = @ \cup {sc}], <<>>)
    [] OTHER -> After(lb, <<>>)

PickFirstClose(lb) ==
  LET used == {lb.current, lb.next} \ {0}
  IN CASE lb.phase # "active" -> After(lb, <<>>)
       [] lb.phase = "active" /\ lb.current = 0 ->
            After([lb EXCEPT !.phase = "closed"], <<Publish("shutdown"), FinishBalancer>>)
       [] OTHER -> After([lb EXCEPT !.phase = "closing", !.parked = @ \cup used],
                         <<Publish("shutdown")>> \o Each(ShutDown, used))

\* pickSubchannel: the subchannel picked (0 when none is available) and the subchannels to connect.
PickFirstPicks(lb) ==
  CASE lb.phase = "active" /\ ~lb.goingAway /\ lb.current # 0 /\ lb.conn = "ready" ->
         {[picked |-> lb.current, connect |-> {}]}
    [] lb.phase = "active" /\ ~lb.goingAway /\ lb.current # 0 /\ lb.conn = "idle" ->
         {[picked |-> 0, connect |-> {lb.current}]}
    [] OTHER -> {[picked |-> 0, connect |-> {}]}

-----------------------------------------------------------------------------
(* Round robin.  subchannels and parked are keyed by endpoint.  The picker is  *)
(* the set it rotates over: it starts anywhere, so any member may be next.     *)

NewRoundRobin ==
  [kind |-> "roundRobin", phase |-> "active", conn |-> "idle", subchannels |-> <<>>,
   parked |-> <<>>, picker |-> {}, input |-> <<>>, events |-> <<"idle">>, finished |-> FALSE,
   todo |-> <<>>]

Without(f, keys) == [k \in DOMAIN f \ keys |-> f[k]]

\* ConnectivityState.aggregate
aggregate(states) ==
  CASE "ready" \in states -> "ready"
    [] "ready" \notin states /\ "connecting" \in states -> "connecting"
    [] states \cap {"ready", "connecting"} = {} /\ "idle" \in states -> "idle"
    [] states = {"transientFailure"} -> "transientFailure"
    [] OTHER -> "shutdown"

\* refreshPickerAndAggregateState, and the publication when the aggregate changed.
Refreshed(lb) ==
  LET keys == DOMAIN lb.subchannels
  IN [lb EXCEPT !.picker = {lb.subchannels[k].sc : k \in {k \in keys : lb.subchannels[k].state = "ready"}},
                !.conn = aggregate({lb.subchannels[k].state : k \in keys})]

PublishChange(before, after) == IF before.conn = after.conn THEN <<>> ELSE <<Publish(after.conn)>>

Park(lb, keys) ==
  [lb EXCEPT !.subchannels = Without(@, keys),
             !.parked = [k \in keys |-> lb.subchannels[k].sc] @@ @]

\* updateSubchannels: fresh numbers the subchannel of each endpoint to add; dropped are the keys
\* removed now, as many as exceed the new ones.
RoundRobinUpdates(lb, endpoints, fresh) ==
  LET removing == DOMAIN lb.subchannels \ endpoints
      excess == Cardinality(removing) - Cardinality(DOMAIN fresh)
      dropping == IF excess > 0 THEN {d \in SUBSET removing : Cardinality(d) = excess} ELSE {{}}
      added == [k \in DOMAIN fresh |-> [sc |-> fresh[k], state |-> "idle", marked |-> FALSE]]
      Marked(old) == [k \in DOMAIN old |-> [old[k] EXCEPT !.marked = @ \/ k \in removing]]
      Updated(d) == Refreshed([Park(lb, d) EXCEPT !.subchannels = added @@ Marked(@)])
  IN IF lb.phase # "active" \/ (removing = {} /\ DOMAIN fresh = {}) THEN {After(lb, <<>>)}
     ELSE {After(Updated(d),
                 PublishChange(lb, Updated(d)) \o Each(Run, {fresh[k] : k \in DOMAIN fresh})
                   \o Each(ShutDown, {lb.subchannels[k].sc : k \in d})) : d \in dropping}

\* The endpoints that updateSubchannels makes a subchannel for.
EndpointsToAdd(lb, endpoints) ==
  IF lb.phase = "active" THEN endpoints \ DOMAIN lb.subchannels ELSE {}

\* SubchannelState.updateState ignores the move from transient failure to connecting.
StateChanges(entry, state) ==
  entry.state # state /\ ~(entry.state = "transientFailure" /\ state = "connecting")

\* Active.updateConnectivityState; a subchannel that became ready replaces one marked for removal.
RoundRobinActives(lb, state, key) ==
  LET known == key \in DOMAIN lb.subchannels
      updated == [lb EXCEPT !.subchannels[key].state = state]
      marked == {k \in DOMAIN updated.subchannels : updated.subchannels[k].marked}
      closing == IF state = "ready" /\ marked # {} THEN {{k} : k \in marked} ELSE {{}}
      Left(ks) == Refreshed(Park(updated, ks))
  IN CASE known /\ ~StateChanges(lb.subchannels[key], state) -> {After(lb, <<>>)}
       [] known /\ StateChanges(lb.subchannels[key], state) ->
            {After(Left(ks), PublishChange(lb, Left(ks))
                               \o Each(ShutDown, {lb.subchannels[k].sc : k \in ks})) : ks \in closing}
       [] ~known /\ state = "idle" /\ key \in DOMAIN lb.parked ->
            {After(lb, <<ShutDown(lb.parked[key])>>)}
       [] ~known /\ state = "shutdown" -> {After([lb EXCEPT !.parked = Without(@, {key})], <<>>)}
       [] OTHER -> {After(lb, <<>>)}

\* Closing.updateConnectivityState
RoundRobinClosing(lb, state, key) ==
  LET left == [lb EXCEPT !.parked = Without(@, {key})]
  IN CASE state = "idle" /\ key \in DOMAIN lb.parked -> After(lb, <<ShutDown(lb.parked[key])>>)
       [] state = "shutdown" /\ DOMAIN left.parked = {} ->
            After([left EXCEPT !.phase = "closed"], <<FinishBalancer>>)
       [] state = "shutdown" /\ DOMAIN left.parked # {} -> After(left, <<>>)
       [] OTHER -> After(lb, <<>>)

RoundRobinStates(lb, state, key) ==
  CASE lb.phase = "active" -> RoundRobinActives(lb, state, key)
    [] lb.phase = "closing" -> {RoundRobinClosing(lb, state, key)}
    [] OTHER -> {After(lb, <<>>)}

\* parkSubchannel, on a GOAWAY
RoundRobinGoAway(lb, key) ==
  LET parked == Refreshed(Park(lb, {key}))
  IN IF lb.phase # "active" \/ key \notin DOMAIN lb.subchannels THEN After(lb, <<>>)
     ELSE After(parked, <<ShutDown(lb.subchannels[key].sc)>> \o PublishChange(lb, parked))

RoundRobinClose(lb) ==
  LET keys == DOMAIN lb.subchannels
  IN CASE lb.phase # "active" -> After(lb, <<>>)
       [] lb.phase = "active" /\ keys = {} ->
            After([lb EXCEPT !.phase = "closed"], <<Publish("shutdown"), FinishBalancer>>)
       [] OTHER -> After([Park(lb, keys) EXCEPT !.phase = "closing"],
                         <<Publish("shutdown")>>
                           \o Each(ShutDown, {lb.subchannels[k].sc : k \in keys}))

RoundRobinPicks(lb) ==
  CASE lb.phase = "active" /\ lb.picker # {} -> {[picked |-> p, connect |-> {}] : p \in lb.picker}
    [] lb.phase = "active" /\ lb.picker = {} /\ lb.conn = "idle" ->
         {[picked |-> 0, connect |-> {lb.subchannels[k].sc : k \in DOMAIN lb.subchannels}]}
    [] OTHER -> {[picked |-> 0, connect |-> {}]}

-----------------------------------------------------------------------------
(* LoadBalancer dispatches on the kind.                                        *)

BalancerStates(lb, state, n, sc) ==
  IF lb.kind = "pickFirst" THEN {PickFirstState(lb, state, n)}
  ELSE RoundRobinStates(lb, state, sc.endpoint)

BalancerGoAway(lb, n, sc) ==
  IF lb.kind = "pickFirst" THEN PickFirstGoAway(lb, n) ELSE RoundRobinGoAway(lb, sc.endpoint)

BalancerClose(lb) == IF lb.kind = "pickFirst" THEN PickFirstClose(lb) ELSE RoundRobinClose(lb)

BalancerPicks(lb) == IF lb.kind = "pickFirst" THEN PickFirstPicks(lb) ELSE RoundRobinPicks(lb)

\* handleSubchannelConnectivityStateChange, handleSubchannelGoingAway (handleGoAway) and the
\* forwarding of requiresNameResolution: one event of subchannel n.
BalancerHandles(lb, event, n, sc) ==
  CASE event = "goingAway" -> {BalancerGoAway(lb, n, sc)}
    [] event = "requiresNameResolution" -> {After(lb, <<Publish(event)>>)}
    [] OTHER -> BalancerStates(lb, event, n, sc)
=============================================================================
