----------------------------- MODULE OrderBook -----------------------------
(***************************************************************************)
(* OrderBookEngine of crates/orderbook: the level-two book of one          *)
(* instrument shard, its synchronization state and the deltas it buffers   *)
(* while it waits for a snapshot.  The engine is a value; an operation     *)
(* maps the engine before the call to the engine after it and the result   *)
(* the caller sees, because every caller owns the engine (`&mut self`) and *)
(* acts on the result before anyone else can call.                         *)
(*                                                                         *)
(* A side of the book maps each price to its quantity, 0 where there is no *)
(* level; only the bid side is represented, the ask side is its mirror     *)
(* image and no operation relates the two beyond classifying them.  A      *)
(* message carries `valid`: whether it passes the structural checks of     *)
(* from_snapshot and validate_delta.  Receive times are represented by     *)
(* what they decide: a regressed one drops the message (see BookFeed).     *)
(* The quality counters and the level-three book are not represented.      *)
(*                                                                         *)
(* `at` and `horizon` are history: at is the venue state a message or a    *)
(* book stands for, horizon the best price whose level the depth limit has *)
(* ever cut from the book.  No operation reads them.                       *)
(***************************************************************************)
EXTENDS Naturals, Sequences, FiniteSets

CONSTANTS
    Prices,         \* prices of the bid side, the highest is the best
    ChecksumDepth   \* levels KrakenV2Checksum covers

ASSUME BookConstants == Prices \subseteq Nat \ {0} /\ ChecksumDepth \in Nat \ {0}

SequencePolicies == {"ExactNext", "RangeContainsNext", "PreviousFinal"}

(* BookConfig::validate *)
BookConfigs ==
    [sequence_policy: SequencePolicies,
     checksum_required: BOOLEAN,                    \* checksum_policy = Required
     max_levels: Nat \ {0},                         \* per side
     max_buffered_deltas: Nat \ {0},
     max_buffered_level_updates: Nat \ {0}]

BookStates == {"Disconnected", "Buffering", "AwaitingSnapshot", "Replaying",
               "Synchronized", "Untrusted"}

-----------------------------------------------------------------------------
(* L2Book.  NoBook is Option::None: a book has a nonzero sequence. *)

Empty == [p \in Prices |-> 0]
NoBook == [levels |-> Empty, sequence |-> 0, at |-> 0, horizon |-> 0]

Present(levels) == {p \in Prices : levels[p] # 0}

(* The best n levels: top_bids, truncate_bids. *)
Top(levels, n) ==
    [p \in Prices |->
        IF Cardinality({q \in Present(levels) : q >= p}) <= n THEN levels[p] ELSE 0]

(* The best price that a cut to n levels loses, 0 if it loses none. *)
CutAt(levels, n) ==
    LET lost == Present(levels) \ Present(Top(levels, n))
    IN  IF lost = {} THEN 0 ELSE CHOOSE x \in lost : \A y \in lost : y <= x

from_snapshot(m) ==
    [levels |-> m.levels, sequence |-> m.last, at |-> m.at, horizon |-> m.horizon]

(* Quantities are absolute and a zero quantity removes the level. *)
apply_side(levels, updates) ==
    [p \in Prices |-> IF p \in DOMAIN updates THEN updates[p] ELSE levels[p]]

apply_delta(book, m, config) ==
    LET levels == apply_side(book.levels, m.levels)
        cut == CutAt(levels, config.max_levels)
    IN  [levels |-> Top(levels, config.max_levels), sequence |-> m.last, at |-> m.at,
         horizon |-> IF cut > book.horizon THEN cut ELSE book.horizon]

(* delta_level_updates *)
LevelUpdates(m) == Cardinality(DOMAIN m.levels)

-----------------------------------------------------------------------------
(* The engine. *)

new(config) ==
    [config |-> config, state |-> "Disconnected", session |-> 0, strategy |-> "none",
     book |-> NoBook, buffered |-> <<>>, buffered_level_updates |-> 0, resync_in_progress |-> FALSE]

Ok(engine, result) == [engine |-> engine, result |-> result]
Err(engine, error) == [engine |-> engine, result |-> error]

(* The results that leave an untrusted book behind and are not ApplyResults. *)
InvalidatingErrors == {"InvalidBook", "BufferCapacity"}

invalidate(e) ==
    [e EXCEPT !.state = "Untrusted", !.buffered = <<>>, !.buffered_level_updates = 0]

(* Sessions are numbered in the order of (connection, subscription) epoch. *)
start_session(e, session, strategy) ==
    IF session <= e.session
    THEN Err(e, "InvalidEpoch")
    ELSE Ok([new(e.config) EXCEPT !.state = IF strategy = "ExternalBuffered"
                                  THEN "Buffering" ELSE "AwaitingSnapshot",
                        !.session = session,
                        !.strategy = strategy,
                        !.resync_in_progress = e.session # 0], "Started")

(* The session survives as a watermark: only a later one can be started. *)
disconnect(e) == [new(e.config) EXCEPT !.session = e.session]

begin_resync(e) ==
    IF e.strategy # "ExternalBuffered" \/ e.state # "Untrusted"
    THEN Err(e, "InvalidTransition")
    ELSE Ok([e EXCEPT !.state = "Buffering", !.book = NoBook, !.buffered = <<>>,
                      !.buffered_level_updates = 0, !.resync_in_progress = TRUE], "Started")

install_trusted(e, book) ==
    [e EXCEPT !.book = book, !.resync_in_progress = FALSE, !.state = "Synchronized"]

(* validate_checksum and KrakenV2Checksum::verify_book.  m.exact is what the
   caller holds for the best ChecksumDepth levels, m.checksum what the venue
   computed over its own. *)
validate_checksum(book, m, config) ==
    IF ~config.checksum_required THEN "Valid"
    ELSE IF m.exact # Top(book.levels, ChecksumDepth) THEN "InvalidChecksumInput"
    ELSE IF m.exact # m.checksum THEN "ChecksumMismatch"
    ELSE "Valid"

sequence_applies_later(m, current, first_replayed, policy) == m.last > current

(* current + 1 cannot overflow here: every caller has m.last > current. *)
sequence_applies(m, current, first_replayed, policy) ==
    CASE policy = "PreviousFinal" /\ ~first_replayed -> m.prev = current
      [] policy = "ExactNext" -> m.first = current + 1
      [] OTHER -> m.first <= current + 1 /\ current + 1 <= m.last

(* One turn of the replay loop; a run stops at its first result. *)
ReplayOne(run, m, config) ==
    IF run.result # "Applied" \/ m.last <= run.book.sequence THEN run
    ELSE IF ~sequence_applies(m, run.book.sequence, run.first_replayed,
                               config.sequence_policy)
         THEN [run EXCEPT !.result = "GapDetected"]
         ELSE LET book == apply_delta(run.book, m, config)
                  verdict == validate_checksum(book, m, config)
              IN  IF verdict # "Valid" THEN [run EXCEPT !.result = verdict]
                  ELSE [book |-> book, first_replayed |-> FALSE, result |-> "Applied"]

Replay(book, buffered, config) ==
    LET after[n \in 0 .. Len(buffered)] ==
          IF n = 0 THEN [book |-> book, first_replayed |-> TRUE, result |-> "Applied"]
          ELSE ReplayOne(after[n - 1], buffered[n], config)
    IN  after[Len(buffered)]

(* apply_snapshot_candidate for a message of the current session.  The
   buffered deltas are of this session too: every start of one clears them. *)
ApplySnapshot(e, m) ==
    LET external == e.strategy = "ExternalBuffered"
        candidate == from_snapshot(m)
        verdict == validate_checksum(candidate, m, e.config)
        run == Replay(candidate, IF external THEN e.buffered ELSE <<>>, e.config)
        drained == [e EXCEPT !.buffered = <<>>, !.buffered_level_updates = 0]
    IN  IF e.state = "Disconnected" THEN Err(e, "Untrusted")
        ELSE IF e.strategy = "none" \/ (external /\ e.state \in {"Untrusted", "Synchronized"})
        THEN Err(e, "InvalidTransition")
        ELSE IF ~m.valid THEN Err(invalidate(e), "InvalidBook")
        ELSE IF verdict # "Valid" THEN Ok(invalidate(e), verdict)
        ELSE IF run.result # "Applied" THEN Ok(invalidate(e), run.result)
        ELSE Ok(install_trusted(drained, run.book), "Applied")

BufferDeltaUnbounded(e, m) ==
    Ok([e EXCEPT !.buffered = Append(@, m), !.buffered_level_updates = @ + LevelUpdates(m)],
       "SnapshotRequired")

BufferDeltaRecharging(e, m) ==
    IF Len(e.buffered) >= e.config.max_buffered_deltas THEN Err(invalidate(e), "BufferCapacity")
    ELSE Ok([e EXCEPT !.buffered = Append(@, m),
                      !.buffered_level_updates = LevelUpdates(m)], "SnapshotRequired")

BufferDelta(e, m) ==
    LET level_updates == e.buffered_level_updates + LevelUpdates(m)
    IN  IF \/ Len(e.buffered) >= e.config.max_buffered_deltas
           \/ level_updates > e.config.max_buffered_level_updates
        THEN Err(invalidate(e), "BufferCapacity")
        ELSE Ok([e EXCEPT !.buffered = Append(@, m),
                          !.buffered_level_updates = level_updates], "SnapshotRequired")

(* The book is taken out of the engine before the delta is applied to it. *)
ApplyLive(e, m) ==
    LET book == apply_delta(e.book, m, e.config)
        verdict == validate_checksum(book, m, e.config)
    IN  IF m.last <= e.book.sequence THEN Ok(e, "Duplicate")
        ELSE IF ~sequence_applies(m, e.book.sequence, FALSE, e.config.sequence_policy)
        THEN Ok(invalidate(e), "GapDetected")
        ELSE IF verdict = "Valid" THEN Ok(install_trusted(e, book), "Applied")
        ELSE Ok([invalidate(e) EXCEPT !.book = IF verdict = "ChecksumMismatch"
                                               THEN book ELSE NoBook], verdict)

(* apply_delta_candidate for a message of the current session. *)
ApplyDelta(e, m) ==
    IF ~m.valid THEN Err(invalidate(e), "InvalidBook")
    ELSE IF e.state \in {"Buffering", "AwaitingSnapshot"} THEN BufferDelta(e, m)
    ELSE IF e.state = "Synchronized" THEN ApplyLive(e, m)
    ELSE Ok(e, "SnapshotRequired")

(* apply_event: the event names its session, and only the current one is
   accepted (validate_current_session). *)
apply_event(e, m) ==
    IF m.session # e.session THEN Err(e, "InvalidEpoch")
    ELSE IF m.kind = "snapshot" THEN ApplySnapshot(e, m) ELSE ApplyDelta(e, m)

HasReceipt(outcome, m) ==
    outcome.result = "Applied" /\ outcome.engine.book.sequence = m.last
=============================================================================
