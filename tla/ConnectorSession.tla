-------------------------- MODULE ConnectorSession --------------------------
(***************************************************************************)
(* One run of a connector: run_session of connector-binance and            *)
(* connector-bybit in the ConnectorContext of connector-core, with the     *)
(* supervisor that commands it, the worker that makes its raw records      *)
(* durable and the consumer of what it publishes, all concurrent.          *)
(*                                                                         *)
(* The session is a coroutine.  todo is what is left of the handler it is  *)
(* in, empty while it waits in the select! of its loop.  The operations of *)
(* the context (lifecycle, capture, publish) each wait in a biased         *)
(* select!, which polls the interrupt, then the commands, then the work;   *)
(* poll is the branch polled next, because the other tasks run between two *)
(* polls.  An operation that fails ends the session and drops the rest.    *)
(*                                                                         *)
(* A record is its number; what the parser and the normalizer make of it   *)
(* is chosen when they look, and so is the reason of a rejection.  The     *)
(* books are those of BookStatus.  One record yields one event.            *)
(***************************************************************************)
EXTENDS Naturals, Sequences, FiniteSets, Functions

CONSTANTS
    SessionVenues,      \* the connectors considered
    Instruments,        \* instruments with a configured book
    CommandCapacity,    \* ConnectorCommandChannel
    OutputCapacity,     \* BoundedNormalizedChannel, items
    LifecycleCapacity,  \* LifecycleChannel
    HistoryLimit,       \* MAX_ACCEPTED_COMMAND_HISTORY
    MaxInputs,          \* bound: records, commands, cancellations and closed channels
    MaxCommandId        \* bound: ids the supervisor uses

ASSUME SessionConstants ==
    /\ SessionVenues \subseteq {"binance", "bybit"}
    /\ CommandCapacity \in Nat \ {0}
    /\ OutputCapacity \in Nat \ {0}
    /\ LifecycleCapacity \in Nat \ {0}
    /\ HistoryLimit \in Nat \ {0}
    /\ MaxCommandId \in Nat

VARIABLES
    venue,      \* which connector; never changes
    books,      \* state of each configured book
    lifecycle,  \* LifecycleTracker::state
    todo,       \* operations left of the current handler
    poll,       \* "entry", then the branch of the select! polled next
    termination,\* ConnectorTermination, "running" until the session returns
    received,   \* number of records taken from the input
    open,       \* whether the input's sender is there
    interrupt,  \* ControlState::interrupt
    issued,     \* ControlState::command_history
    accepted,   \* ids the sender's side accepted, in order (history variable)
    commands,   \* queued ordinary commands
    supervisor, \* whether the command sender is there
    capture,    \* the pending capture: [n, receipt]
    durable,    \* records the worker made durable
    outputs,    \* queued normalized outputs, with what the book made of each
    events,     \* queued lifecycle events
    last_event, \* the last lifecycle event sent (history variable)
    consumer    \* whether the consumer's receivers are there

sessionVars == <<venue, books, lifecycle, todo, poll, termination, received, open>>
controlVars == <<interrupt, issued, accepted, commands, supervisor>>
outVars == <<outputs, events, last_event, consumer>>
vars == <<sessionVars, controlVars, outVars, capture, durable>>

Status == INSTANCE BookStatus WITH state <- books

Interrupts == {"Cancelled", "RequestedShutdown", "SupervisorQuarantine"}
ConnectorStates == {"Stopped", "Connecting", "AuthenticatingOrSubscribing", "Synchronizing",
                    "Healthy", "Degraded", "BackingOff", "Recovering", "Quarantined"}

NoCapture == [n |-> 0, receipt |-> "none"]

-----------------------------------------------------------------------------
(* LifecycleTracker. *)

valid_transition(from, to) ==
    \/ to = "Quarantined" /\ from \notin {"Stopped", "Quarantined"}
    \/ to = "Stopped" /\ from # "Stopped"
    \/ <<from, to>> \in
          {<<"Stopped", "Connecting">>,
           <<"Connecting", "AuthenticatingOrSubscribing">>, <<"Connecting", "BackingOff">>,
           <<"AuthenticatingOrSubscribing", "Synchronizing">>,
           <<"AuthenticatingOrSubscribing", "BackingOff">>,
           <<"BackingOff", "Connecting">>, <<"Quarantined", "Recovering">>}
    \/ from = "Synchronizing" /\ to \in {"Healthy", "Degraded", "BackingOff", "Recovering"}
    \/ from = "Healthy" /\ to \in {"Degraded", "Recovering", "BackingOff"}
    \/ from = "Degraded" /\ to \in {"Healthy", "Recovering", "BackingOff"}
    \/ from = "Recovering" /\ to \in {"Synchronizing", "BackingOff"}

(* The causes a session gives. *)
valid_cause(from, to, cause) ==
    CASE cause = "Startup" -> from = "Stopped" /\ to = "Connecting"
      [] cause = "SubscriptionAccepted" ->
            \/ from = "Connecting" /\ to = "AuthenticatingOrSubscribing"
            \/ from = "AuthenticatingOrSubscribing" /\ to = "Synchronizing"
      [] cause \in {"SynchronizationNotRequired", "SnapshotApplied"} ->
            from = "Synchronizing" /\ to = "Healthy"
      [] cause = "ResynchronizationStarted" -> from = "Recovering" /\ to = "Synchronizing"
      [] cause = "SourceStale" -> to = "Degraded"
      [] cause = "SequenceGap" -> to = "Recovering"
      [] cause = "RecoverableDisconnect" -> to = "BackingOff"
      [] cause = "SchemaViolation" -> to \in {"Degraded", "BackingOff", "Quarantined"}

prepare(op) == valid_transition(lifecycle, op.to) /\ valid_cause(lifecycle, op.to, op.cause)

-----------------------------------------------------------------------------
(* Operations of a handler. *)

Lifecycle(to, cause) == [op |-> "lifecycle", to |-> to, cause |-> cause]
CaptureRaw(n, fits) == [op |-> "capture", n |-> n, fits |-> fits]
PublishNormalized(message, result) ==
    [op |-> "publish", n |-> received, kind |-> message.kind, result |-> result]
Return(result) == [op |-> "return", result |-> result]

StartBooks == [op |-> "start_books"]

Startup ==
    <<Lifecycle("Connecting", "Startup"),
      Lifecycle("AuthenticatingOrSubscribing", "SubscriptionAccepted"),
      Lifecycle("Synchronizing", "SubscriptionAccepted"),
      StartBooks>>
    \o IF Instruments = {} THEN <<Lifecycle("Healthy", "SynchronizationNotRequired")>> ELSE <<>>

BackOff(result) ==
    <<Lifecycle("BackingOff", "RecoverableDisconnect"), Return(result)>>

StaleUnguarded(result) == <<Lifecycle("Degraded", "SourceStale")>> \o BackOff(result)

(* The heartbeat branch. *)
Stale(result) ==
    (IF lifecycle \in {"Healthy", "Synchronizing"}
     THEN <<Lifecycle("Degraded", "SourceStale")>> ELSE <<>>) \o BackOff(result)

schema_termination ==
    <<Lifecycle("Quarantined", "SchemaViolation"), Return("Quarantined")>>

OnGap ==
    CASE lifecycle = "Healthy" ->
            <<Lifecycle("Degraded", "SourceStale"), Lifecycle("Recovering", "SequenceGap")>>
      [] lifecycle \in {"Synchronizing", "Degraded"} -> <<Lifecycle("Recovering", "SequenceGap")>>
      [] lifecycle = "Recovering" -> <<>>
      [] OTHER -> <<Return("Fatal")>>

OnAppliedAnyBook(after) ==
    (IF lifecycle = "Recovering"
     THEN <<Lifecycle("Synchronizing", "ResynchronizationStarted")>> ELSE <<>>)
    \o (IF lifecycle \in {"Recovering", "Synchronizing"}
        THEN <<Lifecycle("Healthy", "SnapshotApplied")>> ELSE <<>>)

(* Healthy once every configured book is synchronized. *)
OnApplied(after) ==
    IF \A i \in Instruments : after[i] = "Synchronized" THEN OnAppliedAnyBook(after) ELSE <<>>

PublishBookAlways(message, step) == <<PublishNormalized(message, step.result)>>

(* Bybit publishes a book event only if its book applied it (BookPublication),
   binance publishes every event. *)
PublishBook(message, step) ==
    IF venue = "bybit" /\ step.result # "Applied" THEN <<>>
    ELSE <<PublishNormalized(message, step.result)>>

(* apply_book_output, apply_book_message: what follows the book's result. *)
AfterResult(step, after) ==
    CASE step.result \in {"GapDetected", "ChecksumMismatch"} -> OnGap
      [] step.result = "Applied" -> OnApplied(after)
      [] step.result \in {"Duplicate", "SnapshotRequired"} -> <<>>
      [] step.result = "CrossSequenceRegression" -> BackOff("RecoverableDisconnect")
      [] step.result = "Refused" -> <<Return("Quarantined")>>

(* What comes after the book's part, unless that returns. *)
AndThen(first, rest) ==
    IF \E k \in DOMAIN first : first[k].op = "return" THEN first ELSE first \o rest

(* What the venue may have put into a record. *)
Messages ==
    [kind: {"book", "unnormalized"}, instrument: Instruments]
    \cup [kind: {"other", "large", "unparsable"}, instrument: {"none"}]

(* Bybit normalizes after the book has the message, binance before. *)
AfterCapture(message, step, after) ==
    CASE message.kind = "unparsable" -> schema_termination
      [] message.kind \in {"other", "large"} -> <<PublishNormalized(message, step.result)>>
      [] message.kind = "unnormalized" ->
            IF venue = "binance" THEN schema_termination
            ELSE AndThen(AfterResult(step, after), schema_termination)
      [] message.kind = "book" -> AndThen(AfterResult(step, after), PublishBook(message, step))

Applies(message) ==
    message.kind = "book" \/ (venue = "bybit" /\ message.kind = "unnormalized")

-----------------------------------------------------------------------------
Init ==
    /\ venue \in SessionVenues
    /\ books = [i \in Instruments |-> "Disconnected"]
    /\ lifecycle = "Stopped"
    /\ todo = Startup
    /\ poll = "entry"
    /\ termination = "running"
    /\ received = 0
    /\ open = TRUE
    /\ interrupt = "none"
    /\ issued = [high_water |-> 0, retired_high_water |-> 0, order |-> <<>>]
    /\ accepted = <<>>
    /\ commands = <<>>
    /\ supervisor = TRUE
    /\ capture = NoCapture
    /\ durable = {}
    /\ outputs = <<>>
    /\ events = <<>>
    /\ last_event = [from |-> "none", to |-> "Stopped"]
    /\ consumer = TRUE
-----------------------------------------------------------------------------
Running == termination = "running"
Disconnected == [i \in Instruments |-> "Disconnected"]

(* The function returns: the rest of the handler is not run. *)
EndWith(result) ==
    /\ termination' = result
    /\ todo' = <<>>
    /\ poll' = "entry"

-----------------------------------------------------------------------------
(* The select! of the loop, which polls its branches in random order. *)

InLoop == Running /\ todo = <<>>

(* ConnectorCommandReceiver::recv is ready; its result. *)
CommandReady == interrupt # "none" \/ commands # <<>> \/ ~supervisor
Received ==
    IF interrupt # "none" THEN interrupt
    ELSE IF commands # <<>> THEN "SupervisorCommand" ELSE "SupervisorLost"
DropReceived == commands' = IF interrupt = "none" /\ commands # <<>> THEN Tail(commands) ELSE commands

NextCommand ==
    /\ InLoop
    /\ CommandReady
    /\ EndWith(Received)
    /\ DropReceived
    /\ books' = Disconnected
    /\ UNCHANGED <<venue, lifecycle, received, open, interrupt, issued, accepted,
                   supervisor, outVars, capture, durable>>

Leave(rest) ==
    /\ InLoop
    /\ todo' = rest
    /\ books' = Disconnected
    /\ UNCHANGED <<venue, lifecycle, poll, termination, received, open, controlVars,
                   outVars, capture, durable>>

Renewal == venue = "binance" /\ Leave(BackOff("RecoverableDisconnect"))
Heartbeat == Leave(Stale("RecoverableDisconnect"))
RemoteClosed == ~open /\ Leave(BackOff("RecoverableDisconnect"))

(* A record of another stream, out of order or from before the connection is
   fatal; any other is captured before anything looks at it. *)
ReceiveRecord ==
    /\ InLoop
    /\ open
    /\ received' = received + 1
    /\ \/ EndWith("Fatal")
       \/ \E fits \in BOOLEAN :
             todo' = <<CaptureRaw(received', fits)>> /\ UNCHANGED <<termination, poll>>
    /\ UNCHANGED <<venue, books, lifecycle, open, controlVars, outVars, capture, durable>>

-----------------------------------------------------------------------------
(* The operations of ConnectorContext. *)

Op == Head(todo)
Awaiting == Running /\ todo # <<>> /\ Op.op \in {"lifecycle", "capture", "publish"}

sessionElse == <<venue, books, lifecycle, received, open>>

PollEntry ==
    /\ Awaiting
    /\ poll = "entry"
    /\ IF Op.op = "lifecycle" /\ ~prepare(Op) THEN EndWith("Fatal")
       ELSE IF interrupt # "none" THEN EndWith(interrupt)
       ELSE poll' = "interrupt" /\ UNCHANGED <<todo, termination>>
    /\ UNCHANGED <<sessionElse, controlVars, outVars, capture, durable>>

PollInterrupt ==
    /\ Awaiting
    /\ poll = "interrupt"
    /\ IF interrupt # "none" THEN EndWith(interrupt)
       ELSE poll' = "commands" /\ UNCHANGED <<todo, termination>>
    /\ UNCHANGED <<sessionElse, controlVars, outVars, capture, durable>>

(* recv looks at the interrupt again, and map_control_result makes of its
   error Cancelled what it makes of every error. *)
map_control_result(result) == IF result = "Cancelled" THEN "Fatal" ELSE result

PollCommands ==
    /\ Awaiting
    /\ poll = "commands"
    /\ IF CommandReady THEN EndWith(map_control_result(Received)) /\ DropReceived
       ELSE poll' = "work" /\ UNCHANGED <<todo, termination, commands>>
    /\ UNCHANGED <<sessionElse, interrupt, issued, accepted, supervisor, outVars, capture, durable>>

Proceed == todo' = Tail(todo) /\ poll' = "entry" /\ UNCHANGED termination
PendingUnpolled == poll' = "work" /\ UNCHANGED <<todo, termination>>
Pending == poll' = "interrupt" /\ UNCHANGED <<todo, termination>>

(* LifecycleSink::send, then LifecycleTracker::commit. *)
SendEvent ==
    /\ events' = Append(events, [from |-> lifecycle, to |-> Op.to])
    /\ last_event' = [from |-> lifecycle, to |-> Op.to]

WorkLifecycleUnsent ==
    /\ Op.op = "lifecycle"
    /\ lifecycle' = Op.to
    /\ Proceed
    /\ IF Len(events) < LifecycleCapacity THEN SendEvent ELSE UNCHANGED <<events, last_event>>
    /\ UNCHANGED <<venue, books, received, open, outputs, capture>>

WorkLifecycle ==
    /\ Op.op = "lifecycle"
    /\ \/ ~consumer /\ EndWith("LocalOutputFailed") /\ UNCHANGED <<lifecycle, events, last_event>>
       \/ /\ consumer
          /\ Len(events) >= LifecycleCapacity
          /\ Pending
          /\ UNCHANGED <<lifecycle, events, last_event>>
       \/ /\ consumer
          /\ Len(events) < LifecycleCapacity
          /\ SendEvent
          /\ lifecycle' = Op.to
          /\ Proceed
    /\ UNCHANGED <<venue, books, received, open, outputs, capture>>

(* BoundedNormalizedSink::send; a large event exceeds the lane's bytes. *)
WorkPublish ==
    /\ Op.op = "publish"
    /\ IF Op.kind = "large" THEN EndWith("CapacityRejected") /\ UNCHANGED outputs
       ELSE IF ~consumer THEN EndWith("LocalOutputFailed") /\ UNCHANGED outputs
       ELSE IF Len(outputs) >= OutputCapacity THEN Pending /\ UNCHANGED outputs
       ELSE Proceed /\ outputs' = Append(outputs, [n |-> Op.n, kind |-> Op.kind, result |-> Op.result])
    /\ UNCHANGED <<sessionElse, events, last_event, capture>>

(* CapacityExhausted, StorageUnavailable, CaptureContractMismatch and
   SourceIntegrityViolation; or the worker is lost. *)
map_raw_capture_error(receipt) ==
    IF receipt = "lost" THEN {"LocalWalWorkerLost"}
    ELSE {"CapacityRejected", "LocalWalFailure", "Fatal", "Quarantined"}

(* The record is durable: parse it, give it to its book, go on. *)
Handle ==
    \E message \in Messages :
    \E step \in IF Applies(message) THEN Status!MessageSteps(venue, books[message.instrument])
                ELSE {Status!Step("Duplicate", "none")} :
        LET after == IF Applies(message) THEN [books EXCEPT ![message.instrument] = step.to] ELSE books
        IN  /\ books' = after
            /\ todo' = AfterCapture(message, step, after)
            /\ poll' = "entry"
            /\ UNCHANGED termination

WorkCaptureUnacknowledged ==
    /\ Op.op = "capture"
    /\ capture' = [n |-> Op.n, receipt |-> "waiting"]
    /\ Handle
    /\ UNCHANGED <<venue, lifecycle, received, open, outputs, events, last_event>>

(* DurableRawCaptureClient::submit.  The payload either fits the byte budget
   or is refused; the session submits one capture at a time. *)
WorkCapture ==
    /\ Op.op = "capture"
    /\ IF ~Op.fits THEN EndWith("CapacityRejected") /\ UNCHANGED <<books, capture>>
       ELSE IF capture.n # Op.n
       THEN /\ Pending
            /\ capture' = [n |-> Op.n, receipt |-> "waiting"]
            /\ UNCHANGED books
       ELSE IF capture.receipt = "waiting" THEN Pending /\ UNCHANGED <<books, capture>>
       ELSE IF capture.receipt = "acknowledged" THEN Handle /\ UNCHANGED capture
       ELSE /\ \E result \in map_raw_capture_error(capture.receipt) : EndWith(result)
            /\ UNCHANGED <<books, capture>>
    /\ UNCHANGED <<venue, lifecycle, received, open, outputs, events, last_event>>

PollWork ==
    /\ Awaiting
    /\ poll = "work"
    /\ WorkLifecycle \/ WorkPublish \/ WorkCapture
    /\ UNCHANGED <<controlVars, consumer, durable>>

(* What needs no await. *)
RunOn ==
    /\ Running
    /\ todo # <<>>
    /\ \/ /\ Op.op = "return"
          /\ EndWith(Op.result)
          /\ UNCHANGED books
       \/ /\ Op.op = "start_books"
          /\ Proceed
          /\ books' = [i \in Instruments |-> Status!AwaitingFirst(venue)]
    /\ UNCHANGED <<venue, lifecycle, received, open, controlVars, outVars, capture, durable>>

-----------------------------------------------------------------------------
(* The supervisor: ConnectorCommandSender and CancellationSender. *)

(* CommandIdHistory *)
validate(h, id, allow_unused_below_high_water) ==
    /\ id \notin Range(h.order)
    /\ id > h.retired_high_water
    /\ allow_unused_below_high_water \/ id > h.high_water

Larger(a, b) == IF a > b THEN a ELSE b

acceptUnbounded(h, id) ==
    [h EXCEPT !.high_water = Larger(h.high_water, id), !.order = Append(h.order, id)]

acceptForgetting(h, id) ==
    LET order == Append(h.order, id)
        full == Len(order) > HistoryLimit
    IN  [h EXCEPT !.high_water = Larger(h.high_water, id),
                  !.order = IF full THEN Tail(order) ELSE order]

accept(h, id) ==
    LET order == Append(h.order, id)
        full == Len(order) > HistoryLimit
    IN  [high_water |-> Larger(h.high_water, id),
         order |-> IF full THEN Tail(order) ELSE order,
         retired_high_water |-> IF full THEN Larger(h.retired_high_water, Head(order))
                                ELSE h.retired_high_water]

Accept(id, allow) ==
    /\ supervisor
    /\ interrupt = "none"
    /\ validate(issued, id, allow)
    /\ issued' = accept(issued, id)
    /\ accepted' = Append(accepted, id)
    /\ UNCHANGED <<sessionVars, supervisor, outVars, capture, durable>>

SendCommand(id) ==
    /\ Len(commands) < CommandCapacity
    /\ Accept(id, FALSE)
    /\ commands' = Append(commands, id)
    /\ UNCHANGED interrupt

(* Past a full queue: a terminal command is not queued. *)
SendTerminal(kind, id) ==
    /\ Accept(id, kind = "SupervisorQuarantine")
    /\ interrupt' = kind
    /\ UNCHANGED commands

CancelLatest ==
    /\ interrupt' = "Cancelled"
    /\ UNCHANGED <<sessionVars, issued, accepted, commands, supervisor, outVars, capture, durable>>

(* The first interrupt is the one that stays. *)
Cancel ==
    /\ interrupt = "none"
    /\ interrupt' = "Cancelled"
    /\ UNCHANGED <<sessionVars, issued, accepted, commands, supervisor, outVars, capture, durable>>

DropSupervisor ==
    /\ supervisor
    /\ supervisor' = FALSE
    /\ UNCHANGED <<sessionVars, interrupt, issued, accepted, commands, outVars, capture, durable>>

-----------------------------------------------------------------------------
(* The worker that appends captures to the WAL (external: the repository has
   it in tests only), the input and the consumer. *)

WorkerAcknowledge ==
    /\ capture.receipt = "waiting"
    /\ durable' = durable \cup {capture.n}
    /\ capture' = [capture EXCEPT !.receipt = "acknowledged"]
    /\ UNCHANGED <<sessionVars, controlVars, outVars>>

WorkerReject ==
    /\ capture.receipt = "waiting"
    /\ capture' = [capture EXCEPT !.receipt = "rejected"]
    /\ UNCHANGED <<sessionVars, controlVars, outVars, durable>>

(* Dropping the request, before or after the append, loses the receipt. *)
WorkerDrop ==
    /\ capture.receipt = "waiting"
    /\ durable' \in {durable, durable \cup {capture.n}}
    /\ capture' = [capture EXCEPT !.receipt = "lost"]
    /\ UNCHANGED <<sessionVars, controlVars, outVars>>

CloseInput ==
    /\ open
    /\ open' = FALSE
    /\ UNCHANGED <<venue, books, lifecycle, todo, poll, termination, received, controlVars,
                   outVars, capture, durable>>

TakeOutput ==
    /\ consumer
    /\ outputs # <<>>
    /\ outputs' = Tail(outputs)
    /\ UNCHANGED <<sessionVars, controlVars, events, last_event, consumer, capture, durable>>

TakeEvent ==
    /\ consumer
    /\ events # <<>>
    /\ events' = Tail(events)
    /\ UNCHANGED <<sessionVars, controlVars, outputs, last_event, consumer, capture, durable>>

CloseConsumer ==
    /\ consumer
    /\ consumer' = FALSE
    /\ UNCHANGED <<sessionVars, controlVars, outputs, events, last_event, capture, durable>>

-----------------------------------------------------------------------------
Session ==
    \/ PollEntry \/ PollInterrupt \/ PollCommands \/ PollWork \/ RunOn
    \/ NextCommand

(* What has happened to the session from outside. *)
Inputs ==
    received + Len(accepted) + Cardinality({x \in {<<1, supervisor>>, <<2, consumer>>, <<3, open>>,
                                         <<4, interrupt # "Cancelled">>} : ~x[2]})

Input ==
    /\ Inputs < MaxInputs
    /\ \/ ReceiveRecord
       \/ \E id \in 1..MaxCommandId :
             \/ SendCommand(id)
             \/ \E kind \in {"RequestedShutdown", "SupervisorQuarantine"} : SendTerminal(kind, id)
       \/ Cancel \/ DropSupervisor \/ CloseInput \/ CloseConsumer

Environment ==
    \/ Renewal \/ Heartbeat \/ RemoteClosed
    \/ WorkerAcknowledge \/ WorkerDrop \/ WorkerReject
    \/ TakeOutput \/ TakeEvent
    \/ Input

(* Nothing that happens after the session returned concerns it. *)
Next == Session \/ (Running /\ Environment)

Spec == Init /\ [][Next]_vars

(* Only the session itself is scheduled fairly: an executor polls a task that
   was woken.  Nobody else need do anything. *)
FairSpec == Spec /\ WF_vars(Session)

-----------------------------------------------------------------------------
(* Properties. *)

TypeOK ==
    /\ books \in [Instruments -> {"Disconnected", "Buffering", "AwaitingSnapshot",
                                  "Synchronized", "Untrusted"}]
    /\ lifecycle \in ConnectorStates
    /\ poll \in {"entry", "interrupt", "commands", "work"}
    /\ termination \in Interrupts \cup
          {"running", "Fatal", "Quarantined", "RecoverableDisconnect", "CapacityRejected",
           "SupervisorCommand", "SupervisorLost", "LocalOutputFailed", "LocalWalFailure",
           "LocalWalWorkerLost"}
    /\ interrupt \in Interrupts \cup {"none"}
    /\ Len(commands) <= CommandCapacity
    /\ Len(issued.order) <= HistoryLimit
    /\ Len(outputs) <= OutputCapacity
    /\ Len(events) <= LifecycleCapacity
    /\ capture.n \in 0..received

(* Nothing is published before the raw record it comes from is durable,
   however the worker's receipts, its rejections and its death interleave
   with the session: capture_raw returns before parsing, parsing before the
   books, the books before publish_normalized. *)
DurableBeforePublished == \A k \in DOMAIN outputs : outputs[k].n \in durable

(* A bybit book event reaches the consumer only if the synchronizer applied
   it to a trusted book: gapped, duplicate and pre-snapshot updates are
   suppressed, also while the lifecycle is being moved to Recovering. *)
PublishedWasApplied ==
    venue = "bybit" =>
        \A k \in DOMAIN outputs : outputs[k].kind = "book" => outputs[k].result = "Applied"

(* When the session waits for its next input and calls itself Healthy, every
   configured book is synchronized, and whenever every one of them is, it
   does call itself Healthy: several books gapping and recovering in any
   order never leave the lifecycle behind. *)
HealthyMeansSynchronized ==
    InLoop => (lifecycle = "Healthy" <=> \A i \in Instruments : books[i] = "Synchronized")

(* No path of the session asks for a lifecycle transition or gives a cause
   that LifecycleTracker::prepare refuses, which would end a healthy session
   as Fatal(InvalidConfiguration). *)
TransitionsLegal == Awaiting /\ Op.op = "lifecycle" => prepare(Op)

(* No command id is accepted twice, even one the bounded history has already
   forgotten: retired_high_water stands in for what was retired. *)
CommandIdsUnique == IsInjective(accepted)

(* A terminal command or a cancellation ends the session although the
   consumer, the worker and the venue may all have stopped: every wait of
   the session also polls the control plane. *)
InterruptEnds == interrupt # "none" ~> ~Running

(* A publication that is cancelled while it waits returns Cancelled. *)
CancelledPublication ==
    [][Awaiting /\ Op.op = "publish" /\ interrupt = "Cancelled" => termination' # "Fatal"]_vars

(* What a session says of itself is so: it is Healthy exactly with its books,
   publishes applied events only, asks for legal transitions and accepts no
   command twice. *)
SessionConsistent ==
    PublishedWasApplied /\ HealthyMeansSynchronized /\ TransitionsLegal /\ CommandIdsUnique

(* The lifecycle events that are sent form one chain from Stopped on, each
   starting where the one before it ended: an event that waited for its place
   or was interrupted is neither skipped nor repeated.  The interrupt that was
   installed first is the one that stays, and a session that reports an
   interrupt reports that one. *)
HistoryStep ==
    /\ last_event' # last_event => last_event'.from = last_event.to
    /\ interrupt # "none" => interrupt' = interrupt
    /\ termination # termination' /\ termination' \in Interrupts => termination' = interrupt
SessionHistory == [][HistoryStep]_vars
=============================================================================
