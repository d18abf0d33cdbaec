------------------------------- MODULE MCGrpc -------------------------------
(***************************************************************************)
(* The gRPC transport in one run.  The part is one of: the calls (GRPCCall), a *)
(* channel with its load balancers and subchannels (GRPCChannel), and a        *)
(* connection with its server (GRPCTransport).  Each is checked alone.         *)
(***************************************************************************)
EXTENDS GRPCCall, GRPCChannel

CONSTANTS ClientPing, GoAwayPing, ServerPing, MaxID, MaxPingStrikes

VARIABLES
  grpcPart,                                          \* the part this behaviour is of
  client, server, upstream, downstream, budget, cut, \* the variables of GRPCTransport
  late, abandoned, harsh

-----------------------------------------------------------------------------
(* The calls of the gRPC transport, and the properties checked on them.        *)

Call(requests, responses, delay, type, encoding, failing, peer) ==
  [requests |-> requests, responses |-> responses, delay |-> delay, type |-> type,
   encoding |-> encoding, faults |-> failing, peer |-> peer,
   unwritable |-> IF delay /\ ~failing THEN 1 ELSE 0]

MCAccepted == <<"gzip">>

IdleCall == Call(<<>>, <<>>, FALSE, "streaming", "identity", TRUE, "none")

MCCalls ==
  {IdleCall,
   Call(<<1>>, <<11>>, TRUE, "unaryResponse", "gzip", TRUE, "none"),
   Call(<<1, 2>>, <<11, 12>>, FALSE, "streaming", "gzip", FALSE, "none"),
   Call(<<1>>, <<11, 12>>, TRUE, "streaming", "identity", FALSE, "none"),
   Call(<<1, 8>>, <<11>>, FALSE, "streaming", "gzip", FALSE, "none"),
   Call(<<1>>, <<11, 8>>, FALSE, "streaming", "gzip", FALSE, "none"),
   Call(<<9>>, <<11, 9, 12>>, FALSE, "streaming", "gzip", FALSE, "none"),
   Call(<<1>>, <<>>, FALSE, "streaming", "gzip", FALSE, "server"),
   Call(<<>>, <<11>>, FALSE, "streaming", "gzip", FALSE, "client")}

ResponseFrames ==
  {HeadersFrame([http |-> "200", content_type |-> type, grpc_status |-> status, encoding |-> encoding], end) :
     type \in BOOLEAN, status \in {"none", "ok", "malformed"}, encoding \in {<<>>, <<"gzip">>, <<"br">>},
     end \in BOOLEAN}
  \cup {HeadersFrame([http |-> http, content_type |-> TRUE, grpc_status |-> status, encoding |-> <<>>], end) :
          http \in {"503", "none"}, status \in {"none", "ok"}, end \in BOOLEAN}
  \cup {HeadersFrame([http |-> "1xx", content_type |-> FALSE, grpc_status |-> "none", encoding |-> <<>>], FALSE)}
  \cup {DataFrame(units, end) : units \in {<<>>, FrameUnits(11, "identity"), FrameUnits(12, "gzip")},
                                end \in BOOLEAN}
  \cup {ResetFrame}

RequestFrames ==
  {HeadersFrame([content_type |-> TRUE, path |-> path, scheme |-> scheme, method |-> "POST",
                 encoding |-> encoding, accept |-> <<"br", "gzip">>], end) :
     path \in {"known", "malformed", "none"}, scheme \in BOOLEAN,
     encoding \in {<<>>, <<"gzip">>, <<"br">>, <<"gzip", "gzip">>}, end \in BOOLEAN}
  \cup {HeadersFrame([content_type |-> FALSE, path |-> "known", scheme |-> TRUE, method |-> "GET",
                      encoding |-> <<>>, accept |-> <<>>], end) : end \in BOOLEAN}
  \cup {DataFrame(units, end) : units \in {<<>>, FrameUnits(1, "identity"), FrameUnits(2, "gzip")},
                                end \in BOOLEAN}
  \cup {ResetFrame}

-----------------------------------------------------------------------------
Messages(app) == [i \in DOMAIN Received(app, "message") |-> Received(app, "message")[i].value]
Statuses == Received(capp, "status")
Joined == call.peer = "none"

\* Each side is handed a prefix of what the other wrote, in order, whatever batches, splits,
\* deferred flushes and closes did to the frames; the end of the requests is told only after all.
DeliveredInOrder ==
  Joined => /\ IsPrefix(Messages(sapp), SubSeq(call.requests, 1, capp.written))
            /\ IsPrefix(Messages(capp), SubSeq(call.responses, 1, sapp.written))
            /\ Received(sapp, "inputClosed") # <<>>
                 => Messages(sapp) = SubSeq(call.requests, 1, capp.written)

\* The caller gets at most one status and no message or metadata after it, even of a server that
\* is not this one.
OneStatus ==
  \A i, j \in DOMAIN capp.received :
    (capp.received[i].kind = "status" /\ i < j) => capp.received[j].kind = "inputClosed"

\* A server application sees metadata first and once, and after the end of the requests at most
\* an error, even of a client that is not this one.
RequestsOrdered ==
  \A i \in DOMAIN sapp.received :
    /\ sapp.received[i].kind = "metadata" => i = 1
    /\ sapp.received[i].kind \in {"message", "inputClosed"} => sapp.received[1].kind = "metadata"
    /\ \A j \in 1 .. i - 1 : sapp.received[j].kind = "inputClosed" => sapp.received[i].kind = "error"

\* No frame but a reset follows the one that ends a direction, and headers come first.
WireLegal ==
  /\ c.sent_end => c.written = <<>>
  /\ s.sent_end => s.written = <<>>
  /\ \A queue \in {toServer \o c.written, toClient \o s.written} :
       \A i, j \in DOMAIN queue : (queue[i].end /\ i < j) => queue[j].kind = "rst"

\* A successful status means that the server succeeded and that every response arrived before it.
OkMeansComplete ==
  (Joined /\ Statuses # <<>> /\ Statuses[1].code = "ok")
     => sapp.status = "ok" /\ Messages(capp) = call.responses

\* Applications that follow the order of the interface never put a stream in a state the
\* machine calls unreachable.
NeverUnreachable == c.sm.poisoned # "unreachable" /\ s.sm.poisoned # "unreachable"

\* A cancellation reaches the call once, whether it comes before or after the handle is set.
CancelReachesCall ==
  /\ s.cancels <= 1
  /\ (sapp.handle /\ (sapp.quiesced \/ (s.sm.poisoned = "unexpectedClose" /\ s.sm.server # Closed)))
       => s.cancels = 1

\* When no callback and no step of an application is left, the caller of a started call has been
\* told a status: nothing waits for a frame, a flush or a close that will not come.
CallEnds == (capp.metadata /\ Joined /\ ~Possible) => Statuses # <<>>


-----------------------------------------------------------------------------
(* Channels                                                                    *)

MCAddressCount == [e \in {"a", "b"} |-> IF e = "a" THEN 2 ELSE 1]

To(kind, endpoints) == [kind |-> kind, endpoints |-> endpoints]

ChannelScene(mode, answers, waits, resolve, connect, connection, cancel, close) ==
  [mode |-> mode, answers |-> answers, calls |-> waits,
   faults |-> [resolve |-> resolve, connect |-> connect, connection |-> connection,
               cancel |-> cancel, close |-> close, established |-> 9]]

\* The network is too slow for a connection to be established.
Unconnected(slow) == [slow EXCEPT !.faults.established = 0]

IdleScene ==
  ChannelScene("push", <<To("roundRobin", <<"a", "b">>), To("roundRobin", <<"b">>)>>, <<>>, 0, 0, 0, 0, 0)

MCScenes ==
  LET a == To("pickFirst", <<"a">>)
      b == To("pickFirst", <<"b">>)
      one == To("roundRobin", <<"b">>)
  IN {ChannelScene("pull", <<a>>, <<FALSE, TRUE>>, 0, 2, 0, 0, 0),
      ChannelScene("pull", <<b>>, <<TRUE>>, 1, 0, 0, 1, 1),
      ChannelScene("push", <<b>>, <<FALSE>>, 0, 0, 1, 0, 0),
      ChannelScene("pull", <<one>>, <<>>, 0, 0, 1, 0, 0),
      ChannelScene("pull", <<one>>, <<>>, 0, 0, 0, 0, 1),
      ChannelScene("push", <<a, b>>, <<FALSE>>, 0, 0, 0, 0, 0),
      ChannelScene("push", <<b, one>>, <<FALSE>>, 0, 0, 0, 0, 0),
      IdleScene,
      ChannelScene("push", <<b>>, <<TRUE>>, 1, 0, 0, 0, 1),
      ChannelScene("push", <<To("pickFirst", <<>>), b, To("failure", <<"b">>)>>, <<>>, 0, 0, 0, 0, 0),
      Unconnected(ChannelScene("push", <<b, b, b>>, <<>>, 0, 0, 0, 0, 0)),
      Unconnected(ChannelScene("push", <<one, b>>, <<>>, 0, 0, 0, 0, 0))}

-----------------------------------------------------------------------------
\* A call waits exactly while its continuation is in the queue, once; a channel that stops leaves
\* none behind (RequestQueue, and the drains of close and loadBalancerStateChanged).
QueueHoldsWaiting ==
  /\ \A i \in DOMAIN calls : (calls[i].phase = "waiting") <=> (i \in ToSet(chan.queue))
  /\ Cardinality(ToSet(chan.queue)) = Len(chan.queue)
  /\ chan.state \in {"stopping", "stopped"} => chan.queue = <<>>

Instructions ==
  UNION ({ToSet(lbs[l].todo) : l \in DOMAIN lbs} \cup {ToSet(scs[n].todo) : n \in DOMAIN scs})

ToldToShutDown(n) ==
  \/ scs[n].state \in {"shuttingDown", "shutDown"}
  \/ "shutDown" \in ToSet(scs[n].input)
  \/ ShutDown(n) \in Instructions

Holds(lb) ==
  IF lb.kind = "pickFirst" THEN {lb.current, lb.next} \cup lb.parked
  ELSE {lb.subchannels[k].sc : k \in DOMAIN lb.subchannels} \cup {lb.parked[k] : k \in DOMAIN lb.parked}

\* Every subchannel ever made is still held by its load balancer, or was told to shut down: no
\* update, promotion or GOAWAY leaves one running that nobody will close.
NoOrphan ==
  \A n \in DOMAIN scs :
    ToldToShutDown(n) \/ (lbs[scs[n].lb].phase # "closed" /\ n \in Holds(lbs[scs[n].lb]))

\* A connection reports a close the subchannel asked for only to a subchannel that is shutting
\* down (the assertion failure of handleConnectionClosedEvent).
NotClosedUnasked ==
  \A n \in DOMAIN scs :
    scs[n].life.events # <<>> /\ Head(scs[n].life.events) = "initiatedLocally"
      => scs[n].state # "connected"

\* A channel that only ever picks first never leaves the shutdown state once it published it.
ShutdownIsFinal ==
  chan.wasShutdown /\ (\A l \in DOMAIN lbs : lbs[l].kind = "pickFirst")
    => chan.published = "shutdown"

\* A step of the channel's own tasks, of its connections or of a call can be taken.
ChannelPossible ==
  \/ chan.resolving
  \/ Pushing /\ chan.answered < Len(scene.answers)
  \/ Looping /\ (chan.results # <<>> \/ chan.closes > 0 \/ \E l \in DOMAIN lbs : lbs[l].events # <<>>)
  \/ \E l \in DOMAIN lbs : lbs[l].todo # <<>> \/ lbs[l].input # <<>>
  \/ \E n \in DOMAIN scs :
       \/ scs[n].todo # <<>> \/ scs[n].backoff
       \/ scs[n].running /\ (scs[n].events # <<>> \/ scs[n].input # <<>> \/ scs[n].life.events # <<>>)
       \/ scs[n].life.phase = "connecting" /\ faults.established > 0
       \/ scs[n].life.phase = "goingAway"
       \/ scs[n].life.phase = "ready" /\ scs[n].life.asked
  \/ \E i \in DOMAIN calls :
       calls[i].poke # 0 \/ calls[i].phase \in {"asking", "joining", "picking", "opening"}

\* When nothing is left to happen, a close that was called has closed every load balancer, shut
\* down every subchannel, closed every connection and failed every waiting call, whatever it
\* raced with.
CloseSettles ==
  (~ChannelPossible /\ faults.close < scene.faults.close) =>
     /\ chan.state \in {"stopping", "stopped"}
     /\ \A l \in DOMAIN lbs : lbs[l].phase = "closed" /\ lbs[l].finished
     /\ \A n \in DOMAIN scs : scs[n].state = "shutDown" /\ scs[n].life.phase = "closed"
     /\ \A i \in DOMAIN calls : calls[i].phase \in {"open", "failed"}


-----------------------------------------------------------------------------
(* Connections                                                                 *)

TransportScene(ours, allow, theirs, more) ==
  [client |-> ours, allow |-> allow, server |-> theirs, budget |->
   more @@ ("stream" :> 1) @@ ("close" :> 0) @@ ("cancel" :> 0) @@ ("quiesce" :> 0)
   @@ ("cut" :> 0) @@ ("error" :> 0) @@ ("reset" :> 0) @@ ("refused" :> 0)]

Keepalive == {"keepalive", "timeout"}
Two == "stream" :> 2
Once(what) == what :> 1

TransportScenes == {
  TransportScene({"idle"}, FALSE, {"age", "grace"}, Two @@ Once("close")),
  TransportScene({"idle"}, FALSE, {"idle"}, Two @@ Once("quiesce") @@ Once("cancel")),
  TransportScene({"idle"} \cup Keepalive, TRUE, {}, Once("cut")),
  TransportScene(Keepalive, FALSE, {}, Two),
  TransportScene({}, FALSE, Keepalive \cup {"age"}, Once("close")),
  TransportScene({"idle"}, FALSE, {}, Once("error") @@ Once("reset") @@ Once("refused") @@ ("close" :> 2))}

Transport == INSTANCE GRPCTransport
  WITH Scenes <- TransportScenes, toServer <- upstream, toClient <- downstream, lost <- abandoned

\* Every life of a connection is one its subchannel expects (Connection.consumeConnectionEvents):
\* GRPCTransport implements ConnectionLife, on which GRPCChannel is built.
ImplementsLife == Transport!ImplementsLife

\* Across a client's connection and its server: no stream is given up by a graceful close, no idle
\* timer runs beside an open stream, and the second GOAWAY covers every stream of the client
\* (ClientConnectionHandler and ServerConnectionManagementHandler).
ConnectionConsistent == Transport!ConnectionConsistent

-----------------------------------------------------------------------------
(* The run                                                                     *)

transportVars == <<client, server, upstream, downstream, budget, cut, late, abandoned, harsh>>
grpcVars == <<grpcPart, callVars, channelVars, transportVars>>

\* The parts that are not run keep an initial state.
GrpcInit ==
  /\ grpcPart \in {"calls", "channel", "connection"}
  /\ InitCall /\ (grpcPart # "calls" => call = IdleCall)
  /\ ChannelInit /\ (grpcPart # "channel" => scene = IdleScene)
  /\ Transport!ConnectionInit /\ (grpcPart # "connection" => client.timers = {})

GrpcNext ==
  /\ UNCHANGED grpcPart
  /\ \/ grpcPart = "calls" /\ CallNext
        /\ UNCHANGED <<channelVars, transportVars>>
     \/ grpcPart = "channel" /\ ChannelNext
        /\ UNCHANGED <<callVars, transportVars>>
     \/ grpcPart = "connection" /\ Transport!ConnectionNext
        /\ UNCHANGED <<callVars, channelVars>>

Connecting(A) == grpcPart = "connection" /\ A

\* At a connection event loops and tasks run, bytes arrive while there is a network, the client's
\* keepalive timers fire, and the server answers its calls.
GrpcSpec ==
  /\ GrpcInit /\ [][GrpcNext]_grpcVars
  /\ WF_transportVars(Connecting(Transport!Connect))
  /\ WF_transportVars(Connecting(Transport!ClientReceives))
  /\ WF_transportVars(Connecting(Transport!ServerReceives))
  /\ WF_transportVars(Connecting(Transport!ClientTask))
  /\ WF_transportVars(Connecting(Transport!ClientNextTick \/ Transport!ClientChannelCloses))
  /\ WF_transportVars(Connecting(Transport!ServerNextTick \/ Transport!ServerChannelCloses))
  /\ WF_transportVars(Connecting(Transport!StreamOpens))
  /\ WF_transportVars(Connecting(Transport!ServerEnds))
  /\ WF_transportVars(Connecting(Transport!ClientTimer("keepalive")))
  /\ WF_transportVars(Connecting(Transport!ClientTimer("timeout")))

=============================================================================
