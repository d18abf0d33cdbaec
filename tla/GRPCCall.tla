------------------------------ MODULE GRPCCall -------------------------------
(***************************************************************************)
(* GRPCStreamStateMachine.swift with the message framer and deframer: one     *)
(* end of a gRPC stream.  A stream s has the phases of its client and its      *)
(* server half, the framer's pending messages, the deframer's unread units,    *)
(* decoded messages and the encodings of both directions.  A message travels   *)
(* as two units, its prefix and its payload, which the transport may separate. *)
(* The operations return the stream and what the handler is told to do.        *)
(***************************************************************************)
EXTENDS Naturals, Sequences, SequencesExt

CONSTANTS
  Oversized,        \* messages above maxPayloadSize
  Incompressible,   \* messages on which the compressor fails
  Accepted          \* acceptedEncodings: a sequence of encodings besides "identity"

Idle == "idle"
Open == "open"
Closed == "closed"

Supported == {"identity"} \cup Range(Accepted)

\* clientIdleServerIdle
NewStream(side, delay) ==
  [side |-> side, delay |-> delay, client |-> Idle, server |-> Idle, poisoned |-> "no",
   framer |-> <<>>, buffer |-> <<>>, inbound |-> <<>>, sent_end |-> FALSE,
   outbound |-> "identity", decompressor |-> "identity"]

Act(s, action) == [s |-> s, do |-> action]

\* The Poisoned initialisers: what was pending is dropped.
Poison(s, reason) ==
  [s EXCEPT !.poisoned = reason, !.framer = <<>>, !.buffer = <<>>, !.inbound = <<>>]

\* unreachable
Unreachable(s) == Act(IF s.poisoned = "no" THEN Poison(s, "unreachable") ELSE s, "throw")

-----------------------------------------------------------------------------
(* GRPCMessageFramer and GRPCMessageDeframer                                   *)

Unit(m, compressed, piece) == [message |-> m, compressed |-> compressed, piece |-> piece]

FrameUnits(m, encoding) ==
  <<Unit(m, encoding # "identity", "prefix"), Unit(m, encoding # "identity", "payload")>>

\* nextResult: every pending message in one buffer, or the failure of the first that does not
\* compress; the messages before it are consumed.
nextResult(s) ==
  LET bad == {i \in DOMAIN s.framer : s.outbound # "identity" /\ s.framer[i] \in Incompressible}
      first == CHOOSE i \in bad : \A j \in bad : i <= j
  IN IF bad = {}
     THEN [ok |-> TRUE, rest |-> <<>>,
           units |-> FlattenSeq([i \in DOMAIN s.framer |-> FrameUnits(s.framer[i], s.outbound)])]
     ELSE [ok |-> FALSE, rest |-> SubSeq(s.framer, first + 1, Len(s.framer)), units |-> <<>>]

\* GRPCMessageDeframer.decode: whole messages leave the buffer in order.
RECURSIVE decode(_, _, _)
decode(buffer, decompressor, decoded) ==
  IF buffer = <<>> THEN [ok |-> TRUE, rest |-> buffer, messages |-> decoded]
  ELSE IF buffer[1].message \in Oversized THEN [ok |-> FALSE]
  ELSE IF Len(buffer) = 1 THEN [ok |-> TRUE, rest |-> buffer, messages |-> decoded]
  ELSE IF buffer[1].compressed /\ decompressor = "identity" THEN [ok |-> FALSE]
  ELSE decode(SubSeq(buffer, 3, Len(buffer)), decompressor, Append(decoded, buffer[1].message))

\* Appending a data frame and decoding it into the inbound buffer; d is what decode returns.
Decoded(s, d) ==
  IF d.ok THEN [ok |-> TRUE, s |-> [s EXCEPT !.buffer = d.rest, !.inbound = d.messages]]
  ELSE [ok |-> FALSE, s |-> Poison(s, "protocol")]

Deframed(s, units) == Decoded(s, decode(s.buffer \o units, s.decompressor, s.inbound))

-----------------------------------------------------------------------------
(* Headers: what the validations look at.                                      *)

\* makeClientHeaders
ClientHeaders(s) ==
  [content_type |-> TRUE, path |-> "known", scheme |-> TRUE, method |-> "POST",
   encoding |-> IF s.outbound = "identity" THEN <<>> ELSE <<s.outbound>>, accept |-> Accepted]

\* formResponseHeaders
ResponseHeaders(s) ==
  [http |-> "200", content_type |-> TRUE, grpc_status |-> "none",
   encoding |-> IF s.outbound = "identity" THEN <<>> ELSE <<s.outbound>>]

\* formTrailers and formTrailersOnly
Trailers(only, status) ==
  [http |-> IF only THEN "200" ELSE "none", content_type |-> only, grpc_status |-> status,
   encoding |-> <<>>]

\* The reply to a rejected request: an unsupported media type is told by HTTP alone.
RejectTrailers(status) ==
  IF status = "415" THEN [Trailers(TRUE, "none") EXCEPT !.http = "415", !.content_type = FALSE]
  ELSE Trailers(TRUE, status)

\* clientValidateHeadersReceivedFromServer
ValidateResponse(h) ==
  IF h.http # "200" /\ h.grpc_status \in {"none", "malformed"}
  THEN CASE h.http = "1xx" -> "skip" [] h.http = "none" -> "unknown" [] OTHER -> "mapped"
  ELSE IF ~h.content_type THEN "internal" ELSE "valid"

\* processInboundEncoding
InboundEncoding(h) ==
  IF h.encoding = <<>> THEN "identity"
  ELSE IF h.encoding[1] \in Supported THEN h.encoding[1] ELSE "unsupported"

\* validateTrailers
TrailersStatus(h) == IF h.grpc_status \in {"none", "malformed"} THEN "unknown" ELSE h.grpc_status

\* The checks of serverReceive(headers:) on a request that opens the stream, in order.
RejectStatus(h) ==
  CASE ~h.content_type -> "415"
    [] h.content_type /\ h.path = "none" -> "invalidArgument"
    [] h.content_type /\ h.path # "none" /\ (~h.scheme \/ h.method # "POST") -> "invalidArgument"
    [] OTHER -> IF Len(h.encoding) > 1 THEN "internalError"
                ELSE IF h.encoding # <<>> /\ h.encoding[1] \notin Supported THEN "unimplemented"
                ELSE "accepted"

\* The first encoding the client advertises that the server accepts.
OutboundEncoding(h) ==
  LET usable == SelectSeq(h.accept, LAMBDA e : e \in Supported)
  IN IF usable = <<>> THEN "identity" ELSE usable[1]

-----------------------------------------------------------------------------
(* Client                                                                      *)

\* clientSend(metadata:)
ClientSendMetadata(s, encoding) ==
  IF s.poisoned # "no" THEN Act(s, "failPromise")
  ELSE IF s.client = Idle
  THEN Act([s EXCEPT !.client = Open, !.outbound = encoding], "write")
  ELSE Unreachable(s)

\* clientSend(message:)
ClientSendMessage(s, m) ==
  IF s.poisoned # "no" THEN Act(s, "failPromise")
  ELSE IF s.client # Open THEN Unreachable(s)
  ELSE IF s.server = Closed THEN Act(s, "succeedPromise")
  ELSE Act([s EXCEPT !.framer = Append(@, m)], "nothing")

clientCloseOutbound(s) ==
  IF s.poisoned # "no" \/ s.client = Closed THEN s ELSE [s EXCEPT !.client = Closed]

\* The status the client is told, and whether the stream is closed at once.
Status(status, close) == [status |-> status, close |-> close]

\* clientReceive(headers:endStream:); the result's do is a record for a status.
ClientReceiveHeaders(s, h, endStream) ==
  IF s.poisoned # "no" THEN [s |-> s, do |-> "doNothing", status |-> <<>>]
  ELSE IF s.server = Closed
  THEN [s |-> Poison(s, "protocol"), do |-> "doNothing", status |-> <<>>]
  ELSE IF s.client = Idle
  THEN [s |-> Poison(s, "protocol"), do |-> "status", status |-> Status("internalError", TRUE)]
  ELSE IF s.server = Open
  THEN [s |-> IF endStream THEN [s EXCEPT !.server = Closed] ELSE s, do |-> "status",
        status |-> Status(TrailersStatus(h), FALSE)]
  ELSE
    LET validity == ValidateResponse(h)  encoding == InboundEncoding(h)
    IN CASE validity = "skip" -> [s |-> s, do |-> "doNothing", status |-> <<>>]
         [] validity \notin {"skip", "valid"} ->
              [s |-> Poison(s, "protocol"), do |-> "status", status |-> Status(validity, TRUE)]
         [] validity = "valid" /\ endStream ->
              [s |-> [s EXCEPT !.server = Closed], do |-> "status",
               status |-> Status(TrailersStatus(h), FALSE)]
         [] validity = "valid" /\ ~endStream /\ encoding = "unsupported" ->
              [s |-> Poison(s, "protocol"), do |-> "status", status |-> Status("internalError", TRUE)]
         [] OTHER -> [s |-> [s EXCEPT !.server = Open, !.decompressor = encoding],
                      do |-> "metadata", status |-> <<>>]

\* clientReceive(buffer:endStream:)
ClientReceiveData(s, units, endStream) ==
  IF s.poisoned # "no" THEN Act(s, "doNothing")
  ELSE IF s.client = Idle \/ s.server = Closed THEN Act(Poison(s, "protocol"), "doNothing")
  ELSE IF s.server = Idle \/ endStream THEN Act(Poison(s, "protocol"), "endRPC")
  ELSE LET d == Deframed(s, units) IN Act(d.s, IF d.ok THEN "readInbound" ELSE "endRPC")

\* clientNextInboundMessage, until none is left: the messages handed over.
ClientInbound(s) == IF s.poisoned # "no" \/ s.server = Idle THEN <<>> ELSE s.inbound


\* clientUnexpectedClose
ClientUnexpectedClose(s) ==
  IF s.poisoned # "no" \/ (s.client = Closed /\ s.server = Closed) THEN Act(s, "doNothing")
  ELSE Act(Poison(s, "unexpectedClose"), IF s.server = Closed THEN "doNothing" ELSE "forwardStatus")

-----------------------------------------------------------------------------
(* Server                                                                      *)

\* serverSend(metadata:)
ServerSendMetadata(s) ==
  IF s.poisoned # "no" THEN Act(s, "failPromise")
  ELSE IF s.client # Idle /\ s.server = Idle THEN Act([s EXCEPT !.server = Open], "write")
  ELSE Unreachable(s)

\* serverSend(message:)
ServerSendMessage(s, m) ==
  IF s.poisoned # "no" THEN Act(s, "failPromise")
  ELSE IF s.server = Open THEN Act([s EXCEPT !.framer = Append(@, m)], "nothing")
  ELSE Unreachable(s)

\* serverSend(status:customMetadata:)
ServerSendStatus(s) ==
  IF s.poisoned # "no" \/ s.server = Closed THEN Act(s, "dropAndFailPromise")
  ELSE IF s.client = Idle THEN Unreachable(s)
  ELSE Act([s EXCEPT !.server = Closed], IF s.server = Idle THEN "trailersOnly" ELSE "trailers")

\* serverReceive(headers:endStream:)
ServerReceiveHeaders(s, h, endStream) ==
  LET half == IF endStream THEN Closed ELSE Open
      opened == [s EXCEPT !.client = half, !.outbound = OutboundEncoding(h),
                          !.decompressor = IF h.encoding = <<>> \/ endStream THEN "identity"
                                           ELSE h.encoding[1]]
  IN IF s.poisoned # "no" THEN Act(s, "doNothing")
     ELSE IF s.client # Idle THEN Act(Poison(s, "protocol"), "protocolViolation")
     ELSE IF RejectStatus(h) # "accepted"
     THEN Act([s EXCEPT !.client = half, !.server = Closed], "rejectRPC")
     ELSE Act(opened, "metadata")

\* serverReceive(buffer:endStream:)
ServerReceiveData(s, units, endStream) ==
  IF s.poisoned # "no" THEN Act(s, "doNothing")
  ELSE IF s.client # Open
  THEN Act(Poison(s, "protocol"), IF s.server = Closed THEN "doNothing" ELSE "forwardErrorAndClose")
  ELSE IF s.server = Closed
  THEN Act(IF endStream THEN [s EXCEPT !.client = Closed] ELSE s, "doNothing")
  ELSE LET d == Deframed(s, units)
       IN Act(IF d.ok /\ endStream THEN [d.s EXCEPT !.client = Closed] ELSE d.s,
              IF d.ok THEN "readInbound" ELSE "forwardErrorAndClose")

\* serverNextInboundMessage, until none is left
ServerInbound(s) == IF s.poisoned # "no" \/ s.server = Closed THEN <<>> ELSE s.inbound

\* Whether the loop ends with noMoreMessages.
ServerInboundEnded(s) == s.poisoned # "no" \/ s.server = Closed \/ s.client = Closed

\* serverUnexpectedClose
ServerUnexpectedClose(s) ==
  IF s.poisoned # "no" \/ (s.client = Closed /\ s.server = Closed) THEN Act(s, "doNothing")
  ELSE Act(Poison(s, "unexpectedClose"), IF s.server = Closed THEN "doNothing" ELSE "fireError")

-----------------------------------------------------------------------------
(* nextOutboundFrame                                                           *)

Frame(s, units, endStream) == [s |-> s, do |-> "sendFrame", units |-> units, endStream |-> endStream]
NoFrame(s, action) == [s |-> s, do |-> action, units |-> <<>>, endStream |-> FALSE]

\* The framer's next buffer, or what to answer when there is none.
Drained(s, next, endStream) ==
  LET drained == [s EXCEPT !.framer = next.rest, !.sent_end = @ \/ endStream]
  IN IF next.ok THEN Frame(drained, next.units, endStream) ELSE NoFrame(drained, "closeAndFailPromise")

NextFrom(s, endStream, otherwise) ==
  IF s.framer = <<>> THEN otherwise ELSE Drained(s, nextResult(s), endStream)

EndOfStream(s) ==
  IF s.sent_end THEN NoFrame(s, "noMoreMessages") ELSE Frame([s EXCEPT !.sent_end = TRUE], <<>>, TRUE)

ClientNextFrame(s) ==
  CASE s.client = Idle -> NoFrame(s, "awaitMoreMessages")
    [] s.client = Open /\ s.server = Closed -> NoFrame(s, "noMoreMessages")
    [] s.client = Open /\ s.server # Closed ->
         IF s.delay THEN NoFrame(s, "awaitMoreMessages")
         ELSE NextFrom(s, FALSE, NoFrame(s, "awaitMoreMessages"))
    [] s.client = Closed /\ s.server # Closed -> NextFrom(s, TRUE, EndOfStream(s))
    [] s.client = Closed /\ s.server = Closed -> EndOfStream(s)

ServerNextFrame(s) ==
  CASE s.server = Idle -> NoFrame(s, "awaitMoreMessages")
    [] s.server = Open -> NextFrom(s, FALSE, NoFrame(s, "awaitMoreMessages"))
    [] s.server = Closed -> NextFrom(s, FALSE, NoFrame(s, "noMoreMessages"))

nextOutboundFrame(s) ==
  IF s.poisoned # "no" THEN NoFrame(s, "noMoreMessages")
  ELSE IF s.side = "client" THEN ClientNextFrame(s) ELSE ServerNextFrame(s)

-----------------------------------------------------------------------------
(***************************************************************************)
(* GRPCClientStreamHandler.swift and GRPCServerStreamHandler.swift: the       *)
(* channel handlers that drive a stream's state machine.  A handler h has its  *)
(* stream, the frames written but not flushed, and the frames (out) and parts  *)
(* (parts) a callback sends to the network and to the application.             *)
(***************************************************************************)

HeadersFrame(h, endStream) == [kind |-> "headers", headers |-> h, units |-> <<>>, end |-> endStream]
DataFrame(units, endStream) == [kind |-> "data", units |-> units, end |-> endStream]
ResetFrame == [kind |-> "rst", units |-> <<>>, end |-> TRUE]

Metadata == [kind |-> "metadata", value |-> 0]
Message(m) == [kind |-> "message", value |-> m]
StatusPart(code) == [kind |-> "status", code |-> code]
InputClosed == [kind |-> "inputClosed", value |-> 0]
ErrorPart == [kind |-> "error", value |-> 0]

NewHandler(stream) ==
  [sm |-> stream, isReading |-> FALSE, flushPending |-> FALSE, written |-> <<>>,
   live |-> TRUE, sent_end |-> FALSE, received_end |-> FALSE, out |-> <<>>, parts |-> <<>>]

-----------------------------------------------------------------------------
(* The HTTP/2 stream channel below a handler                                   *)

WriteFrame(h, frame) == IF h.live THEN [h EXCEPT !.written = Append(@, frame)] ELSE h

FlushChannel(h) ==
  [h EXCEPT !.out = @ \o h.written, !.written = <<>>,
            !.sent_end = @ \/ \E i \in DOMAIN h.written : h.written[i].end]

\* Closing a stream that has not ended in both directions resets it; unflushed writes fail.
CloseChannel(h) ==
  IF ~h.live THEN h
  ELSE [h EXCEPT !.live = FALSE, !.written = <<>>,
                 !.out = IF h.sent_end /\ h.received_end THEN @ ELSE Append(@, ResetFrame)]

Fire(h, part) == [h EXCEPT !.parts = Append(@, part)]
FireMessages(h, messages) ==
  [h EXCEPT !.parts = @ \o [i \in DOMAIN messages |-> Message(messages[i])], !.sm.inbound = <<>>]

-----------------------------------------------------------------------------
(* GRPCClientStreamHandler                                                     *)

\* _flush(context:force:); next is what the state machine answers.
RECURSIVE ClientFlushFrames(_), ClientFlushNext(_, _)
ClientFlushNext(h, next) ==
  LET moved == [h EXCEPT !.sm = next.s]
  IN CASE next.do = "sendFrame" -> ClientFlushFrames(WriteFrame(moved, DataFrame(next.units, next.endStream)))
       [] next.do = "awaitMoreMessages" -> [h |-> moved, flush |-> ~h.sm.delay]
       [] next.do = "noMoreMessages" -> [h |-> moved, flush |-> TRUE]
       [] next.do = "closeAndFailPromise" -> [h |-> CloseChannel(moved), flush |-> TRUE]

ClientFlushFrames(h) == ClientFlushNext(h, nextOutboundFrame(h.sm))

Flushed(r, force) ==
  IF r.flush \/ force THEN FlushChannel([r.h EXCEPT !.flushPending = FALSE]) ELSE r.h

ClientFlush(h, force) == Flushed(ClientFlushFrames(h), force)

\* handleUnexpectedInboundClose
ClientInboundClose(h) ==
  LET a == ClientUnexpectedClose(h.sm)  moved == [h EXCEPT !.sm = a.s]
  IN IF a.do = "forwardStatus" THEN Fire(moved, StatusPart("unavailable")) ELSE moved

\* channelRead, on data; a is what the state machine answers.
ClientTakesData(h, a) ==
  LET moved == [h EXCEPT !.sm = a.s]
  IN CASE a.do = "endRPC" -> CloseChannel(Fire(moved, StatusPart("internalError")))
       [] a.do = "readInbound" -> FireMessages(moved, ClientInbound(a.s))
       [] a.do = "doNothing" -> moved

ClientReadData(h, frame) == ClientTakesData(h, ClientReceiveData(h.sm, frame.units, frame.end))

\* channelRead, on headers
ClientReadHeaders(h, frame) ==
  LET a == ClientReceiveHeaders(h.sm, frame.headers, frame.end)  moved == [h EXCEPT !.sm = a.s]
      told == Fire(Fire(moved, StatusPart(a.status.status)), InputClosed)
  IN CASE a.do = "metadata" -> Fire(moved, Metadata)
       [] a.do = "status" -> IF a.status.close THEN CloseChannel(told) ELSE told
       [] a.do = "doNothing" -> moved

\* channelRead
ClientChannelRead(h, frame) ==
  LET reading == [h EXCEPT !.isReading = TRUE, !.received_end = @ \/ frame.end]
  IN CASE frame.kind = "data" -> ClientReadData(reading, frame)
       [] frame.kind = "headers" -> ClientReadHeaders(reading, frame)
       [] frame.kind = "rst" -> ClientInboundClose([reading EXCEPT !.live = FALSE, !.written = <<>>])

\* channelReadComplete
ClientReadComplete(h) ==
  LET done == [h EXCEPT !.isReading = FALSE] IN IF h.flushPending THEN ClientFlush(done, FALSE) ELSE done

\* flush(context:)
ClientFlushRequest(h) ==
  IF h.isReading THEN [h EXCEPT !.flushPending = TRUE] ELSE ClientFlush(h, FALSE)

\* write(context:data:promise:)
ClientWriteMetadata(h, encoding) ==
  LET a == ClientSendMetadata(h.sm, encoding)  moved == [h EXCEPT !.sm = a.s]
  IN IF a.do = "write" THEN WriteFrame(moved, HeadersFrame(ClientHeaders(a.s), FALSE))
     ELSE IF a.do = "throw" THEN Fire(moved, ErrorPart) ELSE moved

ClientWriteMessage(h, m) ==
  LET a == ClientSendMessage(h.sm, m)  moved == [h EXCEPT !.sm = a.s]
  IN IF a.do = "throw" THEN Fire(moved, ErrorPart) ELSE moved

\* close(context:mode:promise:) with .output, and with .all
ClientCloseOutput(h) == ClientFlush([h EXCEPT !.sm = clientCloseOutbound(h.sm)], FALSE)
ClientCloseAll(h) == CloseChannel(ClientCloseOutput(h))

\* errorCaught: the stream below reports an error.
ClientErrorCaught(h) == CloseChannel(ClientInboundClose(h))

-----------------------------------------------------------------------------
(* GRPCServerStreamHandler; trailers is pendingTrailers, descriptor the method  *)
(* once known.                                                                 *)

NewServerHandler(stream) ==
  NewHandler(stream) @@ [trailers |-> <<>>, descriptor |-> "none", isCancelled |-> FALSE,
                         handle |-> FALSE, cancels |-> 0]

\* cancelRPC
CancelRPC(h) ==
  IF h.handle THEN [h EXCEPT !.handle = FALSE, !.cancels = @ + 1] ELSE [h EXCEPT !.isCancelled = TRUE]

\* syncSetCancellationHandle
SetCancellationHandle(h) ==
  IF h.isCancelled THEN [h EXCEPT !.cancels = @ + 1] ELSE [h EXCEPT !.handle = TRUE]

\* A pending trailer is written only once the framer has nothing left.
WriteTrailers(h) == WriteFrame([h EXCEPT !.trailers = <<>>], h.trailers[1])

\* _flush(context:force:); a failing message does not leave the loop.
RECURSIVE ServerFlushFrames(_), ServerFlushNext(_, _)
ServerFlushNext(h, next) ==
  LET moved == [h EXCEPT !.sm = next.s]
      unary == h.descriptor = "unaryResponse"
  IN CASE next.do = "sendFrame" -> ServerFlushFrames(WriteFrame(moved, DataFrame(next.units, FALSE)))
       [] next.do = "awaitMoreMessages" -> [h |-> moved, flush |-> ~unary]
       [] next.do = "noMoreMessages" ->
            IF h.trailers # <<>> THEN [h |-> WriteTrailers(moved), flush |-> TRUE]
            ELSE [h |-> moved, flush |-> ~unary]
       [] next.do = "closeAndFailPromise" -> ServerFlushFrames(CloseChannel(moved))

ServerFlushFrames(h) == ServerFlushNext(h, nextOutboundFrame(h.sm))

ServerFlush(h, force) == Flushed(ServerFlushFrames(h), force)

\* handleUnexpectedClose
ServerInboundClose(h) ==
  LET a == ServerUnexpectedClose(h.sm)  moved == [h EXCEPT !.sm = a.s]
  IN IF a.do = "fireError" THEN Fire(CancelRPC(moved), ErrorPart) ELSE moved

\* channelRead, on data; a is what the state machine answers.
ServerTakesData(h, a) ==
  LET moved == [h EXCEPT !.sm = a.s]
      read == FireMessages(moved, ServerInbound(a.s))
  IN CASE a.do = "forwardErrorAndClose" -> CloseChannel(Fire(moved, ErrorPart))
       [] a.do = "readInbound" -> IF ServerInboundEnded(a.s) THEN Fire(read, InputClosed) ELSE read
       [] a.do = "doNothing" -> moved

ServerReadData(h, frame) == ServerTakesData(h, ServerReceiveData(h.sm, frame.units, frame.end))

\* The reply to a :path that names no method.
UnknownPath(h) ==
  LET a == ServerSendStatus(h.sm)
  IN WriteFrame([h EXCEPT !.sm = a.s, !.flushPending = TRUE],
                HeadersFrame(Trailers(TRUE, "unimplemented"), TRUE))

\* channelRead, on headers; type is the method type registered for the path.
ServerReadHeaders(h, frame, type) ==
  LET a == ServerReceiveHeaders(h.sm, frame.headers, frame.end)  moved == [h EXCEPT !.sm = a.s]
      reply == HeadersFrame(RejectTrailers(RejectStatus(frame.headers)), TRUE)
  IN CASE a.do = "metadata" ->
            IF frame.headers.path = "malformed" THEN UnknownPath(moved)
            ELSE Fire([moved EXCEPT !.descriptor = type], Metadata)
       [] a.do = "rejectRPC" -> WriteFrame([moved EXCEPT !.flushPending = TRUE], reply)
       [] a.do = "protocolViolation" -> CloseChannel(moved)
       [] a.do = "doNothing" -> moved

\* channelRead
ServerChannelRead(h, frame, type) ==
  LET reading == [h EXCEPT !.isReading = TRUE, !.received_end = @ \/ frame.end]
  IN CASE frame.kind = "data" -> ServerReadData(reading, frame)
       [] frame.kind = "headers" -> ServerReadHeaders(reading, frame, type)
       [] frame.kind = "rst" -> ServerInboundClose([reading EXCEPT !.live = FALSE, !.written = <<>>])

\* channelReadComplete
ServerReadComplete(h) ==
  LET done == [h EXCEPT !.isReading = FALSE] IN IF h.flushPending THEN ServerFlush(done, FALSE) ELSE done

\* flush(context:)
ServerFlushRequest(h) ==
  IF h.isReading THEN [h EXCEPT !.flushPending = TRUE] ELSE ServerFlush(h, FALSE)

\* write(context:data:promise:)
ServerWriteMetadata(h) ==
  LET a == ServerSendMetadata(h.sm)  moved == [h EXCEPT !.sm = a.s]
  IN IF a.do = "write" THEN WriteFrame(moved, HeadersFrame(ResponseHeaders(a.s), FALSE))
     ELSE IF a.do = "throw" THEN Fire(moved, ErrorPart) ELSE moved

ServerWriteMessage(h, m) ==
  LET a == ServerSendMessage(h.sm, m)  moved == [h EXCEPT !.sm = a.s]
  IN IF a.do = "throw" THEN Fire(moved, ErrorPart) ELSE moved

\* Mutant: the status goes out ahead of the messages that are still in the framer.
ServerWriteStatusAtOnce(h, code) ==
  LET a == ServerSendStatus(h.sm)  moved == [h EXCEPT !.sm = a.s]
  IN IF a.do \in {"trailers", "trailersOnly"}
     THEN WriteFrame(moved, HeadersFrame(Trailers(a.do = "trailersOnly", code), TRUE)) ELSE moved

\* The status is held back: messages that are not flushed yet go first.
ServerWriteStatus(h, code) ==
  LET a == ServerSendStatus(h.sm)  moved == [h EXCEPT !.sm = a.s]
  IN CASE a.do \in {"trailers", "trailersOnly"} ->
            [moved EXCEPT !.trailers = <<HeadersFrame(Trailers(a.do = "trailersOnly", code), TRUE)>>]
       [] a.do = "throw" -> Fire(moved, ErrorPart)
       [] a.do = "dropAndFailPromise" -> moved

-----------------------------------------------------------------------------
(***************************************************************************)
(* One remote procedure call: a client and a server stream handler joined by   *)
(* the two directions of an HTTP/2 stream, and the applications above them.     *)
(* Frames arrive in order; flow control may split a data frame; the stream may  *)
(* be reset and the connection lost.  Either end may instead be a peer that     *)
(* speaks HTTP/2 and sends frames of its own choice (peer).                     *)
(***************************************************************************)

CONSTANTS
  Calls,            \* the calls to make: [requests, responses, delay, type, encoding, faults,
                    \* peer, unwritable], the last a bound on writability changes
  PeerServerFrames, \* frames a foreign server may send
  PeerClientFrames, \* frames a foreign client may send
  MaxPeerFrames     \* bound on the frames of a foreign peer

VARIABLES
  call,       \* the call, and which end is foreign: "none", "server" or "client"
  c,          \* the client's handler
  s,          \* the server's handler
  toServer,   \* frames on their way to the server
  toClient,   \* frames on their way to the client
  capp,       \* the client application: what it has written, and the parts it has received
  sapp,       \* the server application, likewise
  lost        \* whether the connection has been lost

callVars == <<call, c, s, toServer, toClient, capp, sapp, lost>>

NewApp == [metadata |-> FALSE, written |-> 0, finished |-> FALSE, closed |-> FALSE, received |-> <<>>,
           unwritable |-> 0, frames |-> 0, opened |-> FALSE, inactive |-> FALSE]

InitCall ==
  /\ call \in Calls
  /\ c = NewHandler(NewStream("client", call.delay))
  /\ s = NewServerHandler(NewStream("server", FALSE))
  /\ toServer = <<>> /\ toClient = <<>>
  /\ capp = NewApp
  /\ sapp = NewApp @@ [status |-> "none", handle |-> FALSE, quiesced |-> FALSE]
  /\ lost = FALSE

\* What a callback sent goes to the network and to the application.
Settled(h) == [h EXCEPT !.out = <<>>, !.parts = <<>>]
ClientStep(h, app) ==
  /\ c' = Settled(h)
  /\ toServer' = IF lost \/ call.peer = "server" THEN toServer ELSE toServer \o h.out
  /\ capp' = [app EXCEPT !.received = @ \o h.parts]
ServerStep(h, app) ==
  /\ s' = Settled(h)
  /\ toClient' = IF lost \/ call.peer = "client" THEN toClient ELSE toClient \o h.out
  /\ sapp' = [app EXCEPT !.received = @ \o h.parts]

ClientOnly == UNCHANGED <<call, s, toClient, sapp, lost>>
ServerOnly == UNCHANGED <<call, c, toServer, capp, lost>>

Received(app, kind) == SelectSeq(app.received, LAMBDA p : p.kind = kind)

-----------------------------------------------------------------------------
(* The network: the first frame, or the first unit of it, is read.             *)

Pieces(queue) ==
  LET frame == Head(queue)
  IN {[read |-> frame, rest |-> Tail(queue)]} \cup
     (IF Len(frame.units) > 1
      THEN {[read |-> DataFrame(<<frame.units[1]>>, FALSE),
             rest |-> <<DataFrame(Tail(frame.units), frame.end)>> \o Tail(queue)]}
      ELSE {})

ClientReadable == call.peer # "client" /\ toClient # <<>> /\ ~capp.inactive
ServerReadable == call.peer # "server" /\ toServer # <<>> /\ ~sapp.inactive

\* A closed stream channel drops what still arrives.
ClientRead ==
  /\ ClientReadable
  /\ \E piece \in Pieces(toClient) :
       /\ toClient' = piece.rest
       /\ IF c.live THEN ClientStep(ClientChannelRead(c, piece.read), capp)
          ELSE UNCHANGED <<c, toServer, capp>>
  /\ UNCHANGED <<call, s, sapp, lost>>

ServerRead ==
  /\ ServerReadable
  /\ \E piece \in Pieces(toServer) :
       /\ toServer' = piece.rest
       /\ IF s.live THEN ServerStep(ServerChannelRead(s, piece.read, call.type), sapp)
          ELSE UNCHANGED <<s, toClient, sapp>>
  /\ UNCHANGED <<call, c, capp, lost>>

ClientComplete == c.isReading /\ ClientStep(ClientReadComplete(c), capp) /\ ClientOnly
ServerComplete == s.isReading /\ ServerStep(ServerReadComplete(s), sapp) /\ ServerOnly

\* The stream channel becomes inactive once it is closed, has ended both ways, or is lost.
Ended(h, queue) == ~h.live \/ lost \/ (h.sent_end /\ h.received_end /\ queue = <<>>)
ClientEnds == call.peer # "client" /\ ~c.isReading /\ ~capp.inactive /\ Ended(c, toClient)
ServerEnds == call.peer # "server" /\ ~s.isReading /\ ~sapp.inactive /\ Ended(s, toServer)
ClientInactive ==
  /\ ClientEnds
  /\ ClientStep(ClientInboundClose([c EXCEPT !.live = FALSE, !.written = <<>>]),
                [capp EXCEPT !.inactive = TRUE])
  /\ ClientOnly
ServerInactive ==
  /\ ServerEnds
  /\ ServerStep(ServerInboundClose([s EXCEPT !.live = FALSE, !.written = <<>>]),
                [sapp EXCEPT !.inactive = TRUE])
  /\ ServerOnly

\* An error below the client's handler.
ClientError ==
  /\ call.faults /\ c.live /\ capp.metadata
  /\ ClientStep(ClientErrorCaught(c), capp) /\ ClientOnly

\* Frames in flight are lost with the connection.
Lose ==
  /\ call.faults /\ ~lost /\ lost' = TRUE /\ toServer' = <<>> /\ toClient' = <<>>
  /\ UNCHANGED <<call, c, s, capp, sapp>>

\* A write made the stream's buffer full: what is pending is flushed.
ClientUnwritable ==
  /\ capp.unwritable < call.unwritable /\ c.live /\ capp.metadata
  /\ ClientStep(ClientFlush(c, TRUE), [capp EXCEPT !.unwritable = @ + 1]) /\ ClientOnly
ServerUnwritable ==
  /\ sapp.unwritable < call.unwritable /\ s.live /\ sapp.metadata
  /\ ServerStep(ServerFlush(s, TRUE), [sapp EXCEPT !.unwritable = @ + 1]) /\ ServerOnly

-----------------------------------------------------------------------------
(* The client application writes metadata, its requests, and closes its half.  *)

MaybeClientFlush(h, flush) == IF flush THEN ClientFlushRequest(h) ELSE h

ClientToStart == call.peer # "client" /\ ~capp.metadata
ClientToFinish == capp.metadata /\ ~capp.finished

ClientAppMetadata ==
  /\ ClientToStart
  /\ ClientStep(ClientFlushRequest(ClientWriteMetadata(c, call.encoding)), [capp EXCEPT !.metadata = TRUE])
  /\ ClientOnly

ClientAppMessage ==
  /\ ClientToFinish /\ capp.written < Len(call.requests)
  /\ \E flush \in BOOLEAN :
       ClientStep(MaybeClientFlush(ClientWriteMessage(c, call.requests[capp.written + 1]), flush),
                  [capp EXCEPT !.written = @ + 1])
  /\ ClientOnly

ClientAppFinish ==
  /\ ClientToFinish /\ capp.written = Len(call.requests)
  /\ ClientStep(ClientCloseOutput(c), [capp EXCEPT !.finished = TRUE])
  /\ ClientOnly

\* The caller is done, or gives up: the stream is closed.
ClientAppClose ==
  /\ capp.metadata /\ ~capp.closed /\ ~c.isReading
  /\ Received(capp, "status") # <<>> \/ call.faults
  /\ ClientStep(ClientCloseAll(c), [capp EXCEPT !.closed = TRUE, !.finished = TRUE])
  /\ ClientOnly

-----------------------------------------------------------------------------
(* The server application answers once it has the request's metadata.          *)

MaybeServerFlush(h, flush) == IF flush THEN ServerFlushRequest(h) ELSE h
Called == Received(sapp, "metadata") # <<>>

ServerAppMetadata ==
  /\ Called /\ ~sapp.metadata /\ ~sapp.finished /\ call.responses # <<>>
  /\ \E flush \in BOOLEAN :
       ServerStep(MaybeServerFlush(ServerWriteMetadata(s), flush), [sapp EXCEPT !.metadata = TRUE])
  /\ ServerOnly

ServerAppMessage ==
  /\ sapp.metadata /\ ~sapp.finished /\ sapp.written < Len(call.responses)
  /\ \E flush \in BOOLEAN :
       ServerStep(MaybeServerFlush(ServerWriteMessage(s, call.responses[sapp.written + 1]), flush),
                  [sapp EXCEPT !.written = @ + 1])
  /\ ServerOnly

ServerToFinish == Called /\ ~sapp.finished
ServerToClose == sapp.finished /\ ~sapp.closed /\ ~s.isReading

\* The call succeeds after its responses, and may fail before any of them.
ServerAppStatus ==
  /\ ServerToFinish
  /\ \E code \in IF sapp.written = Len(call.responses) THEN {"ok"} ELSE {"aborted"} :
       ServerStep(ServerFlushRequest(ServerWriteStatus(s, code)),
                  [sapp EXCEPT !.finished = TRUE, !.status = code])
  /\ ServerOnly

ServerAppClose ==
  /\ ServerToClose
  /\ ServerStep(CloseChannel(s), [sapp EXCEPT !.closed = TRUE])
  /\ ServerOnly

\* setCancellationHandle, when the call's task starts; and the server's graceful shutdown.
ServerAppHandle ==
  /\ call.faults /\ Called /\ ~sapp.handle
  /\ ServerStep(SetCancellationHandle(s), [sapp EXCEPT !.handle = TRUE])
  /\ ServerOnly

ServerQuiesce ==
  /\ call.faults /\ call.peer # "server" /\ ~sapp.quiesced /\ s.live
  /\ ServerStep(CancelRPC(s), [sapp EXCEPT !.quiesced = TRUE])
  /\ ServerOnly

-----------------------------------------------------------------------------
(* A foreign peer follows HTTP/2: headers first, trailers without a :status that *)
(* end the stream, nothing after the frame that ends it.                        *)

PeerServerSends ==
  /\ call.peer = "server" /\ capp.metadata /\ ~sapp.closed /\ sapp.frames < MaxPeerFrames
  /\ toClient = <<>>
  /\ \E frame \in PeerServerFrames :
       /\ frame.kind = "data" => sapp.opened
       /\ (frame.kind = "headers" /\ sapp.opened) => frame.end /\ frame.headers.http = "none"
       /\ toClient' = Append(toClient, frame)
       /\ sapp' = [sapp EXCEPT !.frames = @ + 1, !.closed = frame.end,
                     !.opened = @ \/ (frame.kind = "headers" /\ frame.headers.http # "1xx")]
  /\ UNCHANGED <<call, c, s, toServer, capp, lost>>

PeerClientSends ==
  /\ call.peer = "client" /\ ~capp.closed /\ capp.frames < MaxPeerFrames /\ toServer = <<>>
  /\ \E frame \in PeerClientFrames :
       /\ frame.kind = "data" => capp.frames > 0
       /\ toServer' = Append(toServer, frame)
       /\ capp' = [capp EXCEPT !.frames = @ + 1, !.closed = frame.end]
  /\ UNCHANGED <<call, c, s, toClient, sapp, lost>>

-----------------------------------------------------------------------------
CallNext ==
  \/ ClientRead \/ ClientComplete \/ ClientInactive \/ ClientError \/ ClientUnwritable
  \/ ClientAppMetadata \/ ClientAppMessage \/ ClientAppFinish \/ ClientAppClose
  \/ ServerRead \/ ServerComplete \/ ServerInactive \/ ServerUnwritable
  \/ ServerAppMetadata \/ ServerAppMessage \/ ServerAppStatus \/ ServerAppClose
  \/ ServerAppHandle \/ ServerQuiesce \/ Lose \/ PeerServerSends \/ PeerClientSends

\* A callback of an event loop or a step of an application is due.  Every step of a call uses up
\* something bounded, so every call comes to rest where none is.
Possible ==
  \/ ClientReadable \/ c.isReading \/ ClientEnds \/ ClientToStart \/ ClientToFinish
  \/ ServerReadable \/ s.isReading \/ ServerEnds \/ ServerToFinish \/ ServerToClose

CallSpec == InitCall /\ [][CallNext]_callVars
=============================================================================
