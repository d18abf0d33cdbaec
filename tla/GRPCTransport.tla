---------------------------- MODULE GRPCTransport ----------------------------
(***************************************************************************)
(* A client's HTTP/2 connection (Client/Connection/Connection.swift) and    *)
(* the handler which manages it in its channel                              *)
(* (Client/Connection/ClientConnectionHandler.swift).  A connection is a    *)
(* record; every operation maps it to the next one.  Frames are <<kind, n>> *)
(* where n is a stream, a last stream ID or a ping's data.                  *)
(***************************************************************************)
EXTENDS Integers, Sequences, FiniteSets, TLC, SequencesExt

CONSTANTS
  ClientPing, GoAwayPing, ServerPing,   \* the opaque data of the three kinds of PING
  MaxID                                 \* HTTP2StreamID.maxID

Life(life) == INSTANCE ConnectionLife

\* Connection: its state, the closes it was asked for (input), the events its channel fired that
\* it has not consumed, whether it became ready, and the reason it would give.
\* Handler: its state machine, the timers configured and the timers running.
\* Channel: open until closed, inactive later; deferred is a close left for the next tick.
NewConnection(timers, allow) ==
  [state |-> "notConnected", life |-> Life(<<>>)!NewLife, input |-> 0, events |-> <<>>,
   isReady |-> FALSE, reason |-> "none", opening |-> 0,
   machine |-> "active", open |-> {}, graceful |-> FALSE, preface |-> FALSE, allow |-> allow,
   timers |-> timers, running |-> {},
   channel |-> "none", deferred |-> FALSE, quiesced |-> FALSE, out |-> <<>>]

-----------------------------------------------------------------------------
(* Timer, and the handler's effects on its channel                             *)

\* A timer that is not configured is nil.
Start(h, timer) == [h EXCEPT !.running = @ \cup ({timer} \cap h.timers)]
Cancel(h, timer) == [h EXCEPT !.running = @ \ {timer}]

Fire(c, event) == [c EXCEPT !.events = Append(@, event)]
Write(h, frame) == [h EXCEPT !.out = Append(@, frame)]
CloseChannel(h) == [h EXCEPT !.channel = IF @ = "open" THEN "closing" ELSE @]

-----------------------------------------------------------------------------
(* ClientConnectionHandler                                                     *)

\* beginClosing: whether there is anything left to begin.
beginsClosing(c) == c.machine = "active" \/ (c.machine = "closing" /\ c.graceful)

\* fire .closing(reason) and close, telling the server first when it has not told us.
BeginClosing(c, reason) ==
  IF ~beginsClosing(c) THEN c
  ELSE LET closing == Fire([c EXCEPT !.machine = "closing", !.graceful = FALSE], reason)
       IN CloseChannel(IF reason = "goAway" THEN closing ELSE Write(closing, <<"goAway", 0>>))

\* beginGracefulShutdown: with no open stream the channel is closed at once.  A GOAWAY written in
\* the read loop is flushed at its end, and so lost with a channel closed before that.
BeginGracefulShutdown(c, reason) ==
  IF c.machine # "active" THEN c
  ELSE LET closing == Fire([c EXCEPT !.machine = "closing", !.graceful = TRUE], reason)
       IN IF c.open = {} THEN CloseChannel(closing)
          ELSE IF reason = "goAway" THEN Write(closing, <<"goAway", 0>>) ELSE closing

\* The first SETTINGS frame makes the connection ready.
ReceivedSettings(c) ==
  IF c.machine # "active" \/ c.preface THEN c
  ELSE Fire(Start(Start([c EXCEPT !.preface = TRUE], "keepalive"), "idle"), "ready")

streamOpened(c, id) ==
  LET timed == Cancel(c, "idle")
  IN IF c.machine = "closed" THEN timed ELSE [timed EXCEPT !.open = @ \cup {id}]


\* streamClosed for some of the open streams
streamClosed(c, ids) ==
  LET left == [c EXCEPT !.open = @ \ ids]
  IN CASE c.machine = "closed" \/ ids = {} -> c
       [] left.open # {} -> left
       [] c.machine = "closing" -> [left EXCEPT !.deferred = TRUE]
       [] OTHER -> IF c.allow THEN Start(left, "idle") ELSE Cancel(Start(left, "idle"), "keepalive")

\* channelRead, with what the HTTP/2 handler in front of it does with the frame: it answers
\* pings, ends streams, those a GOAWAY does not cover too, and opens none after a GOAWAY.
ClientRead(c, frame) ==
  LET kind == frame[1]  n == frame[2]
      covered == streamClosed([c EXCEPT !.quiesced = TRUE], {id \in c.open : id > n})
  IN CASE kind = "settings" -> ReceivedSettings(c)
       [] kind = "goAway" -> BeginGracefulShutdown(covered, "goAway")
       [] kind = "enhanceYourCalm" -> BeginClosing(covered, "goAway")
       [] kind = "ping" -> Write(c, <<"ack", n>>)
       [] kind = "ack" -> IF n = ClientPing THEN Start(Cancel(c, "timeout"), "keepalive") ELSE c
       [] kind = "end" -> streamClosed(c, {n} \cap c.open)

\* keepaliveTimerFired; the timer is repeating, so Timer starts it again after its handler.
KeepaliveFires(c) ==
  LET may == c.machine # "closed" /\ (c.open # {} \/ c.allow)
  IN Start(IF may THEN Start(Write(c, <<"ping", ClientPing>>), "timeout") ELSE c, "keepalive")

\* handleScheduledCallback of the three timers
ClientTimerFires(c, timer) ==
  LET fired == Cancel(c, timer)
  IN CASE timer = "keepalive" -> KeepaliveFires(fired)
       [] timer = "timeout" -> BeginClosing(fired, "keepaliveExpired")
       [] timer = "idle" -> BeginClosing(fired, "idle")

\* channelInactive
ClientInactive(c) ==
  LET unexpected == IF c.open = {} THEN "unexpectedIdle" ELSE "unexpectedBusy"
      closed == [c EXCEPT !.machine = "closed", !.channel = "inactive", !.running = {},
                          !.timers = {}, !.deferred = FALSE]
  IN IF c.machine = "active" THEN Fire(closed, unexpected) ELSE closed

-----------------------------------------------------------------------------
(* Connection                                                                  *)

\* run: connected, or a failed attempt
EstablishConnection(c) == [c EXCEPT !.state = "connected", !.channel = "open"]

finishStreams(c, event) ==
  [c EXCEPT !.state = "closed", !.input = 0, !.life = Life(<<>>)!Reported(@, "closed", event)]

ConnectFails(c) == finishStreams(c, "connectFailed")

\* close
Close(c) == [c EXCEPT !.input = @ + 1, !.life = Life(<<>>)!AskToClose(@)]

\* The input loop of run: State.beginClosing, and closeGracefully for the handler
ConsumeInput(c) ==
  LET taken == [c EXCEPT !.input = @ - 1]
  IN IF c.state # "connected" THEN taken
     ELSE BeginGracefulShutdown([taken EXCEPT !.state = "closing"], "initiatedLocally")

Precedence == ("none" :> -2) @@ ("unexpectedIdle" :> -1) @@ ("unexpectedBusy" :> -1)
              @@ ("goAway" :> 0) @@ ("idle" :> 1) @@ ("keepaliveExpired" :> 2)
              @@ ("initiatedLocally" :> 3)

\* consumeConnectionEvents: one event of the channel
ConsumeEvent(c) ==
  LET event == Head(c.events)
      rest == [c EXCEPT !.events = Tail(@)]
      closing == [rest EXCEPT !.state = IF @ = "connected" THEN "closing" ELSE @,
                              !.reason = IF Precedence[event] > Precedence[@] THEN event ELSE @]
  IN CASE event = "ready" ->
            [rest EXCEPT !.isReady = TRUE,
                         !.life = Life(<<>>)!Reported(@, "ready", "connectSucceeded")]
       [] event = "goAway" ->
            [closing EXCEPT !.life = Life(<<>>)!Reported(@, "goingAway", "goingAway")]
       [] OTHER -> closing

FinalReason == ("none" :> "errorIdle") @@ ("unexpectedIdle" :> "errorIdle")
               @@ ("unexpectedBusy" :> "errorBusy") @@ ("goAway" :> "remote")
               @@ ("idle" :> "idleTimeout") @@ ("keepaliveExpired" :> "keepaliveTimeout")
               @@ ("initiatedLocally" :> "initiatedLocally")

\* A mutant of EventsEnd: a connection that never was ready gives a reason too.
EventsEndUnready(c) == finishStreams(c, FinalReason[c.reason])

\* consumeConnectionEvents: the end of the channel's events
EventsEnd(c) == finishStreams(c, IF c.isReady THEN FinalReason[c.reason] ELSE "connectFailed")

\* makeStream: the state is checked under its lock, the stream opened later on the event loop.
MakesStream(c) == c.state = "connected"

\* The multiplexer refuses a stream on a channel which is closing or was told to go away.
OpenStream(c, id) ==
  LET called == [c EXCEPT !.opening = @ - 1]
  IN IF c.channel # "open" \/ c.quiesced THEN called
     ELSE Write(streamOpened(called, id), <<"headers", id>>)

-----------------------------------------------------------------------------
(***************************************************************************)
(* The handler which manages a server's HTTP/2 connection                   *)
(* (Server/Connection/ServerConnectionManagementHandler.swift and its state *)
(* machine): idle, age, grace and keepalive timers, the policing of the     *)
(* client's pings, and the two GOAWAYs of a graceful shutdown.              *)
(***************************************************************************)

CONSTANT MaxPingStrikes

\* open: the connection's streams, which the machine counts until it is closed.
\* timed: lastValidPingTime is set.
NewServer(timers) ==
  [machine |-> "active", open |-> {}, lastStreamID |-> 0, sentSecondGoAway |-> FALSE,
   pingStrikes |-> 0, timed |-> FALSE, timers |-> timers, running |-> {},
   channel |-> "none", deferred |-> FALSE, out |-> <<>>]

-----------------------------------------------------------------------------
(* The state machine and what the handler does with its answers                *)

ServerStreamOpened(s, id) ==
  LET timed == Cancel(s, "idle")
  IN IF s.machine = "closed" THEN timed
     ELSE [timed EXCEPT !.lastStreamID = id, !.open = @ \cup {id}]

\* Before the second GOAWAY the client may have opened a stream the server does not know of.
ServerStreamClosed(s, id) ==
  LET left == [s EXCEPT !.open = @ \ {id}]
  IN CASE s.machine = "closed" -> left
       [] s.machine = "active" -> IF left.open = {} THEN Start(left, "idle") ELSE left
       [] OTHER -> [left EXCEPT !.deferred = @ \/ (s.sentSecondGoAway /\ left.open = {})]

\* resetKeepaliveState, when HEADERS or DATA was written and flushed
ResetKeepalive(s) ==
  IF s.machine = "closed" THEN s ELSE [s EXCEPT !.pingStrikes = 0, !.timed = FALSE]

\* initiateGracefulShutdown and startGracefulShutdown
InitiateGracefulShutdown(s) ==
  LET stopped == [s EXCEPT !.running = @ \ {"idle", "age", "keepalive", "timeout"}]
  IN IF s.machine # "active" THEN stopped
     ELSE Write(Write([stopped EXCEPT !.machine = "closing"], <<"goAway", MaxID>>),
                <<"ping", GoAwayPing>>)

\* handlePing and receivedPing: in time is whether the minimum interval has passed, which the
\* first ping is not asked.
HandlePing(s, in_time) ==
  LET acceptable == ~s.timed \/ in_time
      strikes == s.pingStrikes + 1
  IN CASE s.machine = "closed" -> s
       [] acceptable -> [s EXCEPT !.timed = TRUE]
       [] strikes <= MaxPingStrikes -> [s EXCEPT !.pingStrikes = strikes]
       [] OTHER -> Write([s EXCEPT !.pingStrikes = strikes, !.machine = "closed",
                                   !.deferred = TRUE], <<"enhanceYourCalm", s.lastStreamID>>)

\* A mutant of HandlePingAck: the answer to any ping will do.
HandlePingAckOfAny(s, data) ==
  LET second == Write([s EXCEPT !.sentSecondGoAway = TRUE], <<"goAway", s.lastStreamID>>)
  IN IF s.machine # "closing" \/ s.sentSecondGoAway THEN s
     ELSE IF s.open = {} THEN CloseChannel(second) ELSE Start(second, "grace")

\* handlePingAck and receivedPingAck: the client has seen the first GOAWAY.  The machine is left
\* closing whichever answer it gives.
HandlePingAck(s, data) ==
  LET second == Write([s EXCEPT !.sentSecondGoAway = TRUE], <<"goAway", s.lastStreamID>>)
  IN IF s.machine # "closing" \/ s.sentSecondGoAway \/ data # GoAwayPing THEN s
     ELSE IF s.open = {} THEN CloseChannel(second) ELSE Start(second, "grace")

-----------------------------------------------------------------------------
(* The channel's events                                                        *)

\* channelActive; the HTTP/2 handler sends its SETTINGS.
ServerActive(s) ==
  Write(Start(Start(Start([s EXCEPT !.channel = "open"], "age"), "idle"), "keepalive"),
        <<"settings", 0>>)

\* A frame read: the HTTP/2 handler opens and ends streams and answers pings.  channelRead stops
\* the keepalive timers for the frames of the connection (a stream's go to its own channel), and
\* channelReadComplete starts the first again.  A stream the second GOAWAY does not cover is an
\* error that a closing connection ignores.
ServerRead(s, frame, in_time) ==
  LET kind == frame[1]  n == frame[2]
      complete == Start(s, "keepalive")
      read == Cancel(complete, "timeout")
  IN CASE kind = "headers" -> IF s.sentSecondGoAway /\ n > s.lastStreamID THEN complete
                              ELSE ServerStreamOpened(complete, n)
       [] kind = "reset" ->
            IF n \in s.open THEN ServerStreamClosed(complete, n) ELSE complete
       [] kind = "ping" -> HandlePing(Write(read, <<"ack", n>>), in_time)
       [] kind = "ack" -> HandlePingAck(read, n)
       [] OTHER -> read

\* The end of a response: its frames are written and flushed, and its stream closed.
ServerEndsStream(s, id) == ServerStreamClosed(ResetKeepalive(Write(s, <<"end", id>>)), id)

\* handleScheduledCallback of the five timers
ServerTimerFires(s, timer) ==
  LET fired == Cancel(s, timer)
  IN CASE timer = "keepalive" -> Start(Write(fired, <<"ping", ServerPing>>), "timeout")
       [] timer = "grace" -> CloseChannel(fired)
       [] OTHER -> InitiateGracefulShutdown(fired)

\* channelInactive: the age timer is forgotten before it is cancelled.
ServerInactive(s) ==
  [s EXCEPT !.channel = "inactive", !.running = @ \cap {"age"}, !.timers = @ \cap {"idle"},
            !.deferred = FALSE]

-----------------------------------------------------------------------------
(***************************************************************************)
(* A client's connection and the server's end of it over two ordered byte   *)
(* streams.  Timers fire at any time they run; what may happen and how      *)
(* often is the scene's.                                                    *)
(***************************************************************************)

VARIABLES
  client,               \* the connection and its handler
  server,               \* the server's handler
  toServer, toClient,   \* frames in flight; "fin" is the end of a byte stream
  budget,               \* how often each bounded thing may still happen
  cut,                  \* nothing arrives any more, and nobody is told
  late,                 \* streams that opened while the client's handler was closing
  lost,                 \* streams that were open when the client's channel became inactive
  harsh                 \* something happened that may cost a stream

connectionVars == <<client, server, toServer, toClient, budget, cut, late, lost, harsh>>

CONSTANT Scenes   \* the timers of each end, whether pings need a call, and the budgets

ConnectionInit ==
  \E scene \in Scenes :
    /\ client = NewConnection(scene.client, scene.allow) /\ server = NewServer(scene.server)
    /\ toServer = <<>> /\ toClient = <<>> /\ budget = scene.budget
    /\ cut = FALSE /\ late = {} /\ lost = {} /\ harsh = FALSE

-----------------------------------------------------------------------------
(* Steps of one end.  What it wrote goes on its wire, and the end of the byte    *)
(* stream after it when the step closed the channel.                             *)

Sent(before, after, wire) ==
  IF cut' THEN <<>>
  ELSE wire \o (IF before.channel = "open" \/ after.channel = "open" THEN after.out ELSE <<>>)
            \o (IF before.channel = "open" /\ after.channel # "open" THEN << <<"fin", 0>> >>
                ELSE <<>>)

ClientStep(c) ==
  /\ client' = [c EXCEPT !.out = <<>>]
  /\ toServer' = Sent(client, c, toServer)
  /\ late' = late \cup (IF client.machine = "closing" THEN c.open \ client.open ELSE {})
  /\ lost' = lost \cup (IF c.channel = "inactive" THEN c.open ELSE {})

ServerStep(s) == server' = [s EXCEPT !.out = <<>>] /\ toClient' = Sent(server, s, toClient)

ClientOnly(c) == UNCHANGED <<server, toClient, cut>> /\ ClientStep(c)
ServerOnly(s) == UNCHANGED <<client, toServer, cut, late, lost>> /\ ServerStep(s)

Free == UNCHANGED <<budget, harsh>>
Spend(what) == budget[what] > 0 /\ budget' = [budget EXCEPT ![what] = @ - 1] /\ UNCHANGED harsh
Harshly(what) == budget[what] > 0 /\ budget' = [budget EXCEPT ![what] = @ - 1] /\ harsh' = TRUE
HarshIf(cond) == UNCHANGED budget /\ harsh' = (harsh \/ cond)

Live(h) == h.channel \in {"open", "closing"}

-----------------------------------------------------------------------------
(* The connection is established                                               *)

Connect ==
  /\ client.state = "notConnected"
  /\ Free /\ UNCHANGED cut
  /\ ClientStep(EstablishConnection(client)) /\ ServerStep(ServerActive(server))

Refused ==
  /\ client.state = "notConnected"
  /\ Spend("refused") /\ ClientOnly(ConnectFails(client))

-----------------------------------------------------------------------------
(* The wires                                                                   *)

\* The remote end of a byte stream ends, and the channel with it.
ClientReceives ==
  /\ client.channel = "open" /\ toClient # <<>>
  /\ Free /\ UNCHANGED <<server, cut>>
  /\ toClient' = Tail(toClient)
  /\ IF Head(toClient)[1] = "fin" THEN ClientStep(ClientInactive(client))
     ELSE ClientStep(ClientRead(client, Head(toClient)))

ServerReceives ==
  /\ server.channel = "open" /\ toServer # <<>>
  /\ UNCHANGED <<client, cut, late, lost>>
  /\ toServer' = Tail(toServer)
  /\ \E in_time \in BOOLEAN :
       LET s == IF Head(toServer)[1] = "fin" THEN ServerInactive(server)
                ELSE ServerRead(server, Head(toServer), in_time)
       IN ServerStep(s) /\ HarshIf(s.machine = "closed")

-----------------------------------------------------------------------------
(* The client's event loop and the task that runs its Connection               *)

\* Bound: one keepalive ping of each end on the way.
PingOnTheWay(data) ==
  {<<"ping", data>>, <<"ack", data>>} \cap (ToSet(toServer) \cup ToSet(toClient)) # {}

ClientTimer(timer) ==
  /\ Live(client) /\ timer \in client.running
  /\ (timer = "keepalive") => ~PingOnTheWay(ClientPing)
  /\ HarshIf(timer = "timeout")
  /\ ClientOnly(ClientTimerFires(client, timer))

ClientNextTick ==
  /\ client.channel = "open" /\ client.deferred
  /\ Free /\ ClientOnly(CloseChannel([client EXCEPT !.deferred = FALSE]))

ClientChannelCloses == client.channel = "closing" /\ Free /\ ClientOnly(ClientInactive(client))

ClientTask ==
  /\ Free
  /\ \/ /\ client.state \notin {"notConnected", "closed"} /\ client.input > 0
        /\ ClientOnly(ConsumeInput(client))
     \/ client.events # <<>> /\ ClientOnly(ConsumeEvent(client))
     \/ /\ client.channel = "inactive" /\ client.events = <<>> /\ client.state # "closed"
        /\ ClientOnly(EventsEnd(client))

AsksToClose == client.state # "closed" /\ Spend("close") /\ ClientOnly(Close(client))

\* A subchannel asks a connection for a stream only once it is ready.
MakeStream ==
  /\ client.isReady /\ MakesStream(client) /\ client.opening = 0
  /\ Spend("stream") /\ ClientOnly([client EXCEPT !.opening = 1])

StreamOpens ==
  /\ client.opening = 1
  /\ Free /\ ClientOnly(OpenStream(client, 2 - budget["stream"]))

\* The call is cancelled: its stream is reset.
CancelStream ==
  \E id \in client.open :
    /\ client.channel = "open" /\ Spend("cancel")
    /\ ClientOnly(Write(streamClosed(client, {id}), <<"reset", id>>))

\* errorCaught with an error of the connection
ClientError == client.channel = "open" /\ Harshly("error") /\ ClientOnly(CloseChannel(client))

-----------------------------------------------------------------------------
(* The server                                                                  *)

ServerTimer(timer) ==
  /\ Live(server) /\ timer \in server.running
  /\ (timer = "keepalive") => ~PingOnTheWay(ServerPing)
  /\ HarshIf(timer = "grace")
  /\ ServerOnly(ServerTimerFires(server, timer))

ServerNextTick ==
  /\ server.channel = "open" /\ server.deferred
  /\ Free /\ ServerOnly(CloseChannel([server EXCEPT !.deferred = FALSE]))

ServerChannelCloses == server.channel = "closing" /\ Free /\ ServerOnly(ServerInactive(server))

ServerEnds ==
  \E id \in server.open :
    server.channel = "open" /\ Free /\ ServerOnly(ServerEndsStream(server, id))

\* ChannelShouldQuiesceEvent
Quiesce ==
  /\ server.channel = "open" /\ Spend("quiesce")
  /\ ServerOnly(InitiateGracefulShutdown(server))

\* errorCaught, or TLS without the required ALPN
ServerError == server.channel = "open" /\ Harshly("error") /\ ServerOnly(CloseChannel(server))

-----------------------------------------------------------------------------
(* The network                                                                 *)

\* The network stops carrying bytes in either direction.
Cut ==
  /\ client.state # "notConnected" /\ Harshly("cut")
  /\ cut' = TRUE /\ toServer' = <<>> /\ toClient' = <<>>
  /\ UNCHANGED <<client, server, late, lost>>

\* The connection is reset: both channels become inactive.
Reset ==
  /\ client.channel = "open" /\ server.channel = "open" /\ Harshly("reset")
  /\ cut' = TRUE
  /\ ClientStep(ClientInactive(client)) /\ ServerStep(ServerInactive(server))

ClientNext ==
  \/ Connect \/ Refused \/ ClientReceives \/ ClientNextTick \/ ClientChannelCloses
  \/ ClientTask \/ AsksToClose \/ MakeStream \/ StreamOpens \/ CancelStream \/ ClientError
  \/ \E timer \in {"idle", "keepalive", "timeout"} : ClientTimer(timer)

ServerNext ==
  \/ ServerReceives \/ ServerNextTick \/ ServerChannelCloses \/ ServerEnds \/ Quiesce
  \/ ServerError
  \/ \E timer \in {"idle", "age", "keepalive", "timeout", "grace"} : ServerTimer(timer)

ConnectionNext == ClientNext \/ ServerNext \/ Cut \/ Reset

ConnectionSpec == ConnectionInit /\ [][ConnectionNext]_connectionVars

-----------------------------------------------------------------------------
(* Properties                                                                  *)

Reports == INSTANCE ConnectionLife WITH life <- client.life

\* Every life of a connection is one its subchannel expects: connectSucceeded or connectFailed
\* first, at most two goingAway, one last event, and initiatedLocally only when it was asked to
\* close (Connection.consumeConnectionEvents over ClientConnectionHandler's events).
ImplementsLife == Reports!LifeSpec

\* The two GOAWAYs of a graceful shutdown, and the deferred close of an emptied connection, cost
\* no stream that was open or on its way: unless a grace period ended, a ping went unanswered or
\* was one too many, or the network failed, a client's channel becomes inactive with no open
\* stream but those it let in while it was closing.
NoStreamAbandoned == ~harsh => lost \subseteq late

\* No idle timer runs at either end while a stream is open: _streamCreated and _streamClosed.
IdleMeansIdle ==
  \A h \in {<<client.running, client.open>>, <<server.running, server.open>>} :
    "idle" \in h[1] => h[2] = {}

\* Once the server sent its second GOAWAY every stream the client still has is one the server
\* knows: no HEADERS are on their way (receivedPingAck).
SecondGoAwayCovers ==
  server.sentSecondGoAway /\ client.channel = "open" =>
    \A id \in client.open : id <= server.lastStreamID

\* No stream is given up, no idle timer runs beside a stream, and the second GOAWAY covers all.
ConnectionConsistent == NoStreamAbandoned /\ IdleMeansIdle /\ SecondGoAwayCovers

\* A connection asked to close, and one its server began to shut down, closes at both ends while
\* the network carries bytes (closeGracefully, initiateGracefulShutdown).
ConnectionSettles ==
  (client.life.asked \/ server.machine # "active")
    ~> (cut \/ (client.state = "closed" /\ server.channel \in {"none", "inactive"}))

\* A client which may ping without a call closes a connection with an open stream when the network
\* stops answering (keepaliveTimerFired, keepaliveTimeoutExpired).  One which may not cancels its
\* keepalive timer with its last stream and has none for the next.
DeadPeerDetected ==
  (cut /\ client.allow /\ "timeout" \in client.timers /\ client.open # {})
    ~> client.channel = "inactive"
=============================================================================
