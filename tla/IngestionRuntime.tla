---------------------------- MODULE IngestionRuntime ----------------------------
(* The fixture runtime of apps/cryptoriskd: a start recovers the raw log,      *)
(* compares it with the fixture, replays it into the order book, and lets a    *)
(* producer task send the remaining records through a bounded channel to the   *)
(* loop that persists each one before it processes it.  A signal may come at   *)
(* any time; the process may die at any time; an append may fail.              *)
(*                                                                             *)
(* The raw log is what RawWal shows a caller: an append that was acknowledged  *)
(* is in the log of every later start, one that failed may be.  A record is    *)
(* [payload, epoch, sequence]; a payload is a message of OrderBook or Garbage. *)
EXTENDS Naturals, Sequences, Functions

CONSTANTS
  BookPrices,      \* prices of the book's bid side
  Fixtures,        \* fixture files the daemon may be configured with
  FinalSnapshot,   \* EXPECTED_FINAL_SEQUENCE and EXPECTED_BEST_BID
  ChannelCapacity, \* ingestion_queue_capacity
  MaxStarts,       \* bound: processes started
  MaxTroubles      \* bound: failed appends and deaths

ASSUME FixtureFiles == \A file \in Fixtures : file \in Seq(Range(file))

VARIABLES
  fixture,   \* the configured file, fixed
  log,       \* records of the raw log
  sealed,    \* the last process sealed the log's active segment on its way out
  signal,    \* the cancellation watch of the running process
  daemon,    \* where the main task is and what it holds
  channel,   \* [queue, closed] of the ingestion channel
  producer,  \* [at, next] of the producer task
  exit,      \* how the last process ended
  starts, troubles

rtVars == <<fixture, log, sealed, signal, daemon, channel, producer, exit, starts, troubles>>

Book == INSTANCE OrderBook WITH Prices <- BookPrices, ChecksumDepth <- 1

Garbage == [kind |-> "garbage"]

BookConfig == [sequence_policy |-> "RangeContainsNext", checksum_required |-> FALSE, max_levels |-> 3,
               max_buffered_deltas |-> 3, max_buffered_level_updates |-> 3]

NoSnapshotYet == [sequence |-> 0, best |-> 0]

\* IngestionEngine::new
NewEngine == [order_book |-> Book!new(BookConfig), published |-> NoSnapshotYet, error |-> "Ok"]

Down == [at |-> "down"]
NoProducer == [at |-> "none", next |-> 0]
NoChannel == [queue |-> <<>>, closed |-> FALSE]

RtInit ==
  /\ fixture \in Fixtures
  /\ log = <<>> /\ sealed = FALSE
  /\ signal = FALSE
  /\ daemon = Down
  /\ channel = NoChannel
  /\ producer = NoProducer
  /\ exit = "none"
  /\ starts = 0 /\ troubles = 0

-----------------------------------------------------------------------------
(* IngestionEngine::process_persisted                                         *)

\* A record that names another session must be a snapshot and starts that session.
SessionFor(engine, m) ==
  IF engine.order_book.session = m.session THEN Book!Ok(engine.order_book, "Started")
  ELSE IF m.kind # "snapshot" THEN Book!Err(engine.order_book, "SnapshotRequired")
  ELSE Book!start_session(engine.order_book, m.session, "StreamSnapshot")

BestOf(levels) == LET present == Book!Present(levels)
                  IN IF present = {} THEN 0 ELSE CHOOSE p \in present : \A q \in present : q <= p

\* What the order book answered is published unless it is no update or leaves no best price.
Published(engine, applied, best) ==
  IF applied.result \notin {"Applied", "Duplicate"}
  THEN [engine EXCEPT !.order_book = applied.engine, !.error = applied.result]
  ELSE IF best = 0
  THEN [engine EXCEPT !.order_book = applied.engine, !.error = "MissingBestPrices"]
  ELSE [order_book |-> applied.engine, error |-> "Ok",
        published |-> [sequence |-> applied.engine.book.sequence, best |-> best]]

Applied(engine, applied) == Published(engine, applied, BestOf(applied.engine.book.levels))

process_persisted(engine, m) ==
  IF m = Garbage THEN [engine EXCEPT !.error = "Parse"]
  ELSE LET session == SessionFor(engine, m)
       IN IF session.result # "Started" THEN [engine EXCEPT !.error = session.result]
          ELSE Applied(engine, Book!apply_event(session.engine, m))

\* The engine after the first n records of a fixture; the replay stops at the first error.
Replays ==
  [file \in Fixtures |->
    LET after[n \in 0 .. Len(file)] ==
          IF n = 0 THEN NewEngine
          ELSE IF after[n - 1].error # "Ok" THEN after[n - 1]
          ELSE process_persisted(after[n - 1], file[n])
    IN after]

validate_final_snapshot(published) == published = FinalSnapshot

-----------------------------------------------------------------------------
(* Recovery: each recovered record is the fixture's next payload, at the next  *)
(* position of its connection epoch or at the first one of the next epoch.     *)

PositionMatches(records, i) ==
  IF i = 1 THEN records[i].epoch = 1 /\ records[i].sequence = 1
  ELSE \/ /\ records[i].epoch = records[i - 1].epoch
          /\ records[i].sequence = records[i - 1].sequence + 1
       \/ /\ records[i].epoch = records[i - 1].epoch + 1
          /\ records[i].sequence = 1

RecoveryMatches(records) ==
  /\ Len(records) <= Len(fixture)
  /\ \A i \in DOMAIN records : records[i].payload = fixture[i] /\ PositionMatches(records, i)

\* The epoch a start appends under.
NextEpochReused(records) == IF records = <<>> THEN 1 ELSE records[Len(records)].epoch

NextEpoch(records) == IF records = <<>> THEN 1 ELSE records[Len(records)].epoch + 1

-----------------------------------------------------------------------------
(* The main task                                                               *)

Goto(next) == daemon' = next

\* The process ends: what it did not persist is gone.
Exit(status) ==
  /\ daemon' = Down
  /\ exit' = status
  /\ channel' = NoChannel
  /\ producer' = NoProducer
  /\ signal' = FALSE

Quiet == UNCHANGED <<exit, channel, producer, signal>>

Frame == UNCHANGED <<fixture, starts, troubles>>

\* run: secret, descriptor, directories, log and fixture are read; a signal so far ends it.
start_runtime ==
  /\ daemon = Down /\ starts < MaxStarts
  /\ starts' = starts + 1
  /\ Goto([at |-> "recovering"])
  /\ exit' = "none"
  /\ UNCHANGED <<fixture, log, sealed, signal, channel, producer, troubles>>

\* open_or_create_in_with_replay, unless the start was cancelled before it.
open_with_replay ==
  /\ daemon.at = "recovering"
  /\ IF signal THEN Exit("Ok") /\ UNCHANGED sealed
     ELSE Goto([at |-> "recovered"]) /\ sealed' = FALSE /\ Quiet
  /\ UNCHANGED log /\ Frame

\* A cancelled start syncs the log and leaves; a mismatch refuses it.
replay_recovered ==
  /\ daemon.at = "recovered"
  /\ IF signal THEN Exit("Ok")
     ELSE IF ~RecoveryMatches(log) THEN Exit("RecoveryMismatch")
     ELSE \E engine \in {Replays[fixture][Len(log)]} :
            IF engine.error # "Ok" THEN Exit(engine.error)
            ELSE /\ Goto([at |-> "replayed", engine |-> engine, epoch |-> NextEpoch(log),
                          next_sequence |-> 1, recovered |-> Len(log)])
                 /\ Quiet
  /\ UNCHANGED <<log, sealed>> /\ Frame

spawn_fixture_producer ==
  /\ daemon.at = "replayed"
  /\ IF signal THEN Exit("Ok")
     ELSE /\ Goto([at |-> "ingesting", engine |-> daemon.engine, epoch |-> daemon.epoch,
                   next_sequence |-> daemon.next_sequence, cancelled |-> FALSE])
          /\ channel' = NoChannel
          /\ producer' = [at |-> "sending", next |-> daemon.recovered + 1]
          /\ UNCHANGED <<exit, signal>>
  /\ UNCHANGED <<log, sealed>> /\ Frame

-----------------------------------------------------------------------------
(* The producer task: for each record, the signal is looked at first           *)

ProducerFrame == UNCHANGED <<log, sealed, signal, daemon, exit>> /\ Frame

producer_end ==
  /\ producer.at = "sending"
  /\ signal \/ producer.next > Len(fixture)
  /\ producer' = [producer EXCEPT !.at = "ok"]
  /\ UNCHANGED channel /\ ProducerFrame

producer_send ==
  /\ producer.at = "sending" /\ producer.next <= Len(fixture) /\ ~signal
  /\ ~channel.closed /\ Len(channel.queue) < ChannelCapacity
  /\ channel' = [channel EXCEPT !.queue = Append(@, fixture[producer.next])]
  /\ producer' = [producer EXCEPT !.next = @ + 1]
  /\ ProducerFrame

\* A send on the closed channel is an error unless the start was cancelled.
producer_closedStrict ==
  /\ producer.at = "sending" /\ producer.next <= Len(fixture) /\ channel.closed
  /\ producer' = [producer EXCEPT !.at = "QueueClosed"]
  /\ UNCHANGED channel /\ ProducerFrame

producer_closed ==
  /\ producer.at = "sending" /\ producer.next <= Len(fixture) /\ channel.closed
  /\ producer' = IF signal THEN [producer EXCEPT !.next = @ + 1]
                 ELSE [producer EXCEPT !.at = "QueueClosed"]
  /\ UNCHANGED channel /\ ProducerFrame

-----------------------------------------------------------------------------
(* The ingestion loop: cancellation before records                             *)

ingest_cancel ==
  /\ daemon.at = "ingesting" /\ signal /\ ~daemon.cancelled
  /\ Goto([daemon EXCEPT !.cancelled = TRUE])
  /\ channel' = [channel EXCEPT !.closed = TRUE]
  /\ UNCHANGED <<log, sealed, signal, producer, exit>> /\ Frame

ingest_recv ==
  /\ daemon.at = "ingesting" /\ (signal => daemon.cancelled) /\ channel.queue # <<>>
  /\ Goto([daemon EXCEPT !.at = "appending"])
  /\ UNCHANGED <<log, sealed, channel, signal, producer, exit>> /\ Frame

Record == [payload |-> Head(channel.queue), epoch |-> daemon.epoch, sequence |-> daemon.next_sequence]

\* append_and_sync
append_and_sync ==
  /\ daemon.at = "appending"
  /\ log' = Append(log, Record)
  /\ Goto([daemon EXCEPT !.at = "persisted", !.next_sequence = @ + 1])
  /\ Quiet /\ UNCHANGED sealed /\ Frame

\* A failed append may have reached the log.
append_fails ==
  /\ daemon.at = "appending" /\ troubles < MaxTroubles
  /\ troubles' = troubles + 1
  /\ log' \in {log, Append(log, Record)}
  /\ Exit("Persistence")
  /\ UNCHANGED <<fixture, sealed, starts>>

process_new ==
  /\ daemon.at = "persisted"
  /\ \E engine \in {process_persisted(daemon.engine, Head(channel.queue))} :
        IF engine.error # "Ok" THEN Exit(engine.error)
        ELSE /\ Goto([daemon EXCEPT !.at = "ingesting", !.engine = engine])
             /\ channel' = [channel EXCEPT !.queue = Tail(@)]
             /\ UNCHANGED <<exit, producer, signal>>
  /\ UNCHANGED <<log, sealed>> /\ Frame

\* A channel whose sender is gone ends the loop, drained or not.
ingest_endUndrained ==
  /\ daemon.at = "ingesting" /\ (signal => daemon.cancelled)
  /\ channel.closed \/ producer.at # "sending"
  /\ Goto([daemon EXCEPT !.at = "joining"])
  /\ UNCHANGED <<log, sealed, channel, signal, producer, exit>> /\ Frame

\* recv answers None: the channel is closed, or its sender is gone, and empty.
ingest_end ==
  /\ daemon.at = "ingesting" /\ (signal => daemon.cancelled) /\ channel.queue = <<>>
  /\ channel.closed \/ producer.at # "sending"
  /\ Goto([daemon EXCEPT !.at = "joining"])
  /\ UNCHANGED <<log, sealed, channel, signal, producer, exit>> /\ Frame

\* producer.await, the last look at the signal, and the check of what was published.
join_producer ==
  /\ daemon.at = "joining" /\ producer.at # "sending"
  /\ IF producer.at # "ok" THEN Exit(producer.at)
     ELSE IF daemon.cancelled \/ signal THEN Exit("Ok")
     ELSE IF daemon.engine.published = NoSnapshotYet THEN Exit("MissingSnapshot")
     ELSE IF ~validate_final_snapshot(daemon.engine.published) THEN Exit("UnexpectedFinalSnapshot")
     ELSE Goto([at |-> "serving", snapshot |-> daemon.engine.published]) /\ Quiet
  /\ UNCHANGED <<log, sealed>> /\ Frame

-----------------------------------------------------------------------------
(* The running daemon                                                          *)

\* The server is up; readiness is written unless the signal came first.
announce ==
  /\ daemon.at = "serving"
  /\ Goto([daemon EXCEPT !.at = IF signal THEN "closing" ELSE "ready"])
  /\ Quiet /\ UNCHANGED <<log, sealed>> /\ Frame

wait_for_shutdown ==
  /\ daemon.at = "ready" /\ signal
  /\ Goto([daemon EXCEPT !.at = "closing"])
  /\ Quiet /\ UNCHANGED <<log, sealed>> /\ Frame

\* RunningDaemon::shutdown: server, seal, sync, log; every one of them is tried.
shutdown_running ==
  /\ daemon.at = "closing"
  /\ Exit("Ok")
  /\ sealed' = TRUE
  /\ UNCHANGED log /\ Frame

\* install_shutdown_listener: the first TERM or INT.
receive_signal ==
  /\ daemon # Down /\ ~signal
  /\ signal' = TRUE
  /\ UNCHANGED <<log, sealed, daemon, channel, producer, exit>> /\ Frame

process_dies ==
  /\ daemon # Down /\ troubles < MaxTroubles
  /\ troubles' = troubles + 1
  /\ Exit("died")
  /\ UNCHANGED <<fixture, log, sealed, starts>>

BookSteps == replay_recovered \/ process_new

LoopSteps ==
  \/ open_with_replay \/ spawn_fixture_producer
  \/ ingest_cancel \/ ingest_recv \/ append_and_sync \/ ingest_end \/ join_producer
  \/ announce \/ wait_for_shutdown \/ shutdown_running

ProducerSteps == producer_end \/ producer_send \/ producer_closed

RtNext == start_runtime \/ BookSteps \/ LoopSteps \/ ProducerSteps \/ append_fails \/ receive_signal \/ process_dies

RtSpec == RtInit /\ [][RtNext]_rtVars

\* Both tasks run on the runtime's worker threads.  The last conjunct is weak fairness of BookSteps:
\* they are enabled exactly where the main task is about to take one.
RtFairness ==
  /\ WF_rtVars(LoopSteps) /\ WF_rtVars(ProducerSteps)
  /\ []<>(daemon.at \notin {"recovered", "persisted"})

-----------------------------------------------------------------------------
(* Properties                                                                  *)

Payloads(records) == [i \in DOMAIN records |-> records[i].payload]

\* A restart never refuses the log its predecessors left: whatever died, failed or was cancelled,
\* the log is a prefix of the fixture whose positions continue (recovery_mismatch stays false), no
\* record lost, repeated or out of order.
LogContinuesFixture == RecoveryMatches(log)

\* What is served was persisted and is what the log replays to: the order book's snapshot of the
\* whole fixture, reached through any number of restarts.
ServedWasPersisted ==
  daemon.at \in {"serving", "ready"} =>
    /\ Payloads(log) = fixture
    /\ daemon.snapshot = Replays[fixture][Len(log)].published

\* Every start comes to an end, and a signal ends it: the daemon serves or is gone, wherever the
\* signal finds the two tasks, and a producer that meets the channel the loop closed is no error.
StartSettles ==
  /\ []<>(daemon.at \in {"down", "ready"})
  /\ signal ~> (daemon = Down /\ exit # "QueueClosed")
=============================================================================
