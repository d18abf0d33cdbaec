------------------------------ MODULE BookFeed ------------------------------
(***************************************************************************)
(* One order book, the venue that publishes it and the connector's         *)
(* synchronizer between them: connector-binance, connector-bybit,          *)
(* connector-deribit and connector-kraken, src/book_sync.rs.  market       *)
(* selects the synchronizer; the venue's protocol is external and modelled *)
(* from what the synchronizer and its parser read of it.                   *)
(*                                                                         *)
(* history is the venue's book after each of its changes.  stream is what  *)
(* the venue sent over the connections so far, next the first message not  *)
(* yet handled.  A delta may be lost, a message may be handled again later *)
(* (repeated, or late after others), and a message may be malformed.  A    *)
(* message with a regressed receive time is refused by the engine before   *)
(* it touches anything (observe_update_time), which is a loss as well.     *)
(***************************************************************************)
EXTENDS OrderBook, SequencesExt

CONSTANTS
    Markets,        \* [venue, config, quoted, steps, batch, changes, faults]: the
                    \* synchronizer, its BookConfig, the prices the venue quotes, by how
                    \* much its ids advance, how many changes it may put in one delta;
                    \* bounds: changes of the venue's book, faults that happen
    Quantities,     \* quantities of a level
    MaxSessions,    \* bound: connections
    Faults          \* the kinds of faults that may happen, each once

VARIABLES
    market,     \* the market the book is of; never changes
    history,    \* venue: [id, levels, price] after each change
    published,  \* venue: index in history of the last change it sent
    stream,     \* messages sent
    next,       \* first message not handled
    engine,     \* OrderBookEngine
    sync,       \* the synchronizer's own fields
    receipt,    \* the last event given a receipt, with the book it is bound to
    faults      \* the kinds of faults that happened

vars == <<market, history, published, stream, next, engine, sync, receipt, faults>>

Venues == {"binance", "bybit", "deribit", "kraken"}

ASSUME FeedConstants ==
    /\ Quantities \subseteq Nat \ {0}
    /\ Faults \subseteq {"lost", "repeated", "malformed", "reset"}
    /\ \A m \in Markets :
          /\ m.venue \in Venues
          /\ m.config \in BookConfigs
          /\ m.quoted \subseteq Prices
          /\ m.steps \subseteq Nat \ {0}
          /\ m.batch \in Nat \ {0}
          /\ m.changes \in Nat /\ m.faults \in Nat
          \* try_new of each synchronizer
          /\ m.config.checksum_required <=> m.venue = "kraken"
          /\ m.venue = "binance" => m.config.sequence_policy # "ExactNext"
          /\ m.venue \in {"bybit", "kraken"} => m.config.sequence_policy = "ExactNext"
          /\ m.venue = "deribit" => m.config.sequence_policy = "PreviousFinal"

Strategy == IF market.venue = "binance" THEN "ExternalBuffered" ELSE "StreamSnapshot"

NoSync == [last_cross_sequence |-> 0, mirror |-> Empty, local_revision |-> 0]
NoReceipt == [at |-> 0, book |-> NoBook]

Init ==
    /\ market \in Markets
    /\ history = <<[id |-> 1, price |-> 0,
                    levels |-> [p \in Prices |-> IF p \in market.quoted THEN 1 ELSE 0]]>>
    /\ published = 1
    /\ stream = <<>>
    /\ next = 1
    /\ engine = new(market.config)
    /\ sync = NoSync
    /\ receipt = NoReceipt
    /\ faults = {}

-----------------------------------------------------------------------------
(* The venue. *)

(* What a subscription covers: binance streams every change of the whole
   book, the others the best market.config.max_levels levels. *)
View(levels) == IF market.venue = "binance" THEN levels ELSE Top(levels, market.config.max_levels)

Snapshot(n) ==
    [kind |-> "snapshot", session |-> engine.session, at |-> n, cross |-> n,
     first |-> history[n].id, last |-> history[n].id, prev |-> 0,
     levels |-> Top(history[n].levels, market.config.max_levels),
     horizon |-> CutAt(history[n].levels, market.config.max_levels),
     checksum |-> Top(history[n].levels, ChecksumDepth), exact |-> Empty,
     valid |-> TRUE, consistent |-> TRUE]

(* The prices a delta from change m to change n names: the ones touched
   between them, or those whose level in the view changed and did not just
   fall below its depth (the receiver cuts those itself). *)
Named(m, n) ==
    IF market.venue = "binance" THEN {history[k].price : k \in (m + 1)..n}
    ELSE {p \in Prices :
            LET old == View(history[m].levels)[p]
                now == View(history[n].levels)[p]
            IN  old # now /\ (now = 0 => history[n].levels[p] = 0)}

Delta(m, n) ==
    [kind |-> "delta", session |-> engine.session, at |-> n, cross |-> n,
     first |-> history[m + 1].id, last |-> history[n].id, prev |-> history[m].id,
     levels |-> [p \in Named(m, n) |-> history[n].levels[p]],
     horizon |-> 0,
     checksum |-> Top(history[n].levels, ChecksumDepth), exact |-> Empty,
     valid |-> TRUE, consistent |-> TRUE]

Fault(kind) ==
    /\ kind \in Faults \ faults
    /\ Cardinality(faults) < market.faults
    /\ faults' = faults \cup {kind}

VenueChange(p, q, step) ==
    LET h == history[Len(history)]
        levels == [h.levels EXCEPT ![p] = q]
    IN  /\ engine.session # 0      \* what happens before a connection does not matter
        /\ Len(history) <= market.changes
        /\ q # h.levels[p]
        \* a change outside the view is not sent and takes no id
        /\ IF View(levels) = View(h.levels) THEN step = 0 ELSE step \in market.steps
        /\ history' = Append(history, [id |-> h.id + step, levels |-> levels, price |-> p])
        /\ UNCHANGED <<market, published, stream, next, engine, sync, receipt, faults>>

(* The venue sends what changed since it last sent. *)
Publish(n) ==
    /\ n \in (published + 1)..Len(history)
    /\ n - published <= market.batch
    /\ published' = n
    /\ stream' = IF Named(published, n) = {} THEN stream
                 ELSE Append(stream, Delta(published, n))
    /\ UNCHANGED <<market, history, next, engine, sync, receipt, faults>>

(* A restart of bybit's service: a snapshot whose update id is 1. *)
VenueReset ==
    LET now == history[published]
        h == Append(SubSeq(history, 1, published), [now EXCEPT !.id = 1])
    IN  /\ market.venue = "bybit"
        /\ engine.session # 0
        /\ published = Len(history)
        /\ Fault("reset")
        /\ history' = h
        /\ published' = Len(h)
        /\ stream' = Append(stream,
              [Snapshot(published) EXCEPT !.at = Len(h), !.cross = Len(h), !.last = 1])
        /\ UNCHANGED <<market, next, engine, sync, receipt>>

-----------------------------------------------------------------------------
(* The synchronizers' apply. *)

(* KrakenBookSynchronizer's copy of the book with the venue's own decimals,
   which the checksum is taken over, after the levels of m. *)
KrakenMirror(m) ==
    Top(apply_side(IF m.kind = "snapshot" THEN Empty ELSE sync.mirror, m.levels),
        market.config.max_levels)

(* The event a synchronizer gives the engine for a message.  Bybit and
   deribit send one sequence number; kraken sends none, and its synchronizer
   numbers the messages it applies. *)
EngineEvent(m) ==
    CASE market.venue = "binance" -> m
      [] market.venue \in {"bybit", "deribit"} -> [m EXCEPT !.first = m.last]
      [] market.venue = "kraken" ->
            [m EXCEPT !.first = sync.local_revision + 1, !.last = sync.local_revision + 1,
                      !.exact = Top(KrakenMirror(m), ChecksumDepth)]

NeedsRecoveryOnGap(outcome) == outcome.result \in {"GapDetected", "ChecksumMismatch"}

(* BinanceBookSynchronizer::apply_output_with_receipt: begin_recovery in the
   same call, whatever invalidated the book. *)
NeedsRecovery(outcome) ==
    outcome.result \in InvalidatingErrors \cup {"GapDetected", "ChecksumMismatch"}

(* Below, outcome is what the engine answers to the event of m. *)
BinanceApply(m, outcome) ==
    /\ engine' = IF NeedsRecovery(outcome) THEN begin_resync(outcome.engine).engine
                 ELSE outcome.engine
    /\ receipt' = IF HasReceipt(outcome, m)
                  THEN [at |-> m.at, book |-> outcome.engine.book] ELSE receipt
    /\ UNCHANGED sync

BybitApplyUnordered(m, outcome) ==
    /\ engine' = outcome.engine
    /\ UNCHANGED <<sync, receipt>>

(* BybitBookSynchronizer::apply_message *)
BybitApply(m, outcome) ==
    /\ IF m.cross < sync.last_cross_sequence
       THEN /\ engine' = disconnect(engine)
            /\ sync' = NoSync
       ELSE /\ engine' = outcome.engine
            /\ sync' = IF outcome.result = "Applied"
                       THEN [sync EXCEPT !.last_cross_sequence = m.cross] ELSE sync
    /\ UNCHANGED receipt

(* DeribitBookSynchronizer::apply.  mirror is its own copy of the book, used
   to check each level's action (new, change, delete) against. *)
DeribitSnapshot(m, outcome) ==
    IF ~m.consistent THEN UNCHANGED <<engine, sync>>
    ELSE /\ engine' = outcome.engine
         /\ sync' = IF outcome.result = "Applied"
                    THEN [sync EXCEPT !.mirror = m.levels] ELSE sync

DeribitChangeEager(m, outcome) ==
    /\ engine' = outcome.engine
    /\ sync' = [sync EXCEPT !.mirror = apply_side(@, m.levels)]

DeribitChange(m, outcome) ==
    LET current == engine.book.sequence
        chained == m.last > current /\ m.prev = current
    IN  IF engine.state # "Synchronized" \/ (chained /\ ~m.consistent)
        THEN UNCHANGED <<engine, sync>>
        ELSE /\ engine' = outcome.engine
             /\ sync' = CASE outcome.result = "Applied" ->
                                [sync EXCEPT !.mirror = apply_side(@, m.levels)]
                          [] outcome.result = "GapDetected" -> NoSync
                          [] OTHER -> sync

DeribitApply(m, outcome) ==
    /\ IF m.kind = "snapshot" THEN DeribitSnapshot(m, outcome) ELSE DeribitChange(m, outcome)
    /\ UNCHANGED receipt

(* KrakenBookSynchronizer::apply_spot *)
KrakenApply(m, outcome) ==
    /\ IF m.kind = "delta" /\ sync.local_revision = 0
       THEN UNCHANGED <<engine, sync>>
       ELSE /\ engine' = outcome.engine
            /\ sync' = CASE outcome.result = "Applied" ->
                               [sync EXCEPT !.mirror = KrakenMirror(m), !.local_revision = @ + 1]
                         [] outcome.result = "ChecksumMismatch" -> NoSync
                         [] OTHER -> sync
    /\ UNCHANGED receipt

Apply(m) ==
    /\ engine.session # 0
    /\ \E outcome \in {apply_event(engine, EngineEvent(m))} :
          CASE market.venue = "binance" -> BinanceApply(m, outcome)
            [] market.venue = "bybit" -> BybitApply(m, outcome)
            [] market.venue = "deribit" -> DeribitApply(m, outcome)
            [] market.venue = "kraken" -> KrakenApply(m, outcome)

-----------------------------------------------------------------------------
(* The connection. *)

(* start_session / renew_session.  A stream venue sends its snapshot first. *)
Connect ==
    LET outcome == start_session(engine, engine.session + 1, Strategy)
        first == [Snapshot(published) EXCEPT !.session = outcome.engine.session]
    IN  /\ engine.session < MaxSessions
        /\ engine' = outcome.engine
        /\ sync' = NoSync
        /\ stream' = IF Strategy = "StreamSnapshot" THEN Append(stream, first) ELSE stream
        /\ next' = Len(stream) + 1
        /\ UNCHANGED <<market, history, published, receipt, faults>>

(* disconnect / heartbeat_timeout *)
Disconnect ==
    /\ engine.session \in 1..(MaxSessions - 1)
    /\ engine.state # "Disconnected"
    /\ engine' = disconnect(engine)
    /\ sync' = NoSync
    /\ UNCHANGED <<market, history, published, stream, next, receipt, faults>>

Deliver ==
    /\ next <= Len(stream)
    /\ next' = next + 1
    /\ Apply(stream[next])
    /\ UNCHANGED <<market, history, published, stream, faults>>

DeliverMalformed ==
    /\ next <= Len(stream)
    /\ next' = next + 1
    /\ Fault("malformed")
    /\ \E m \in {[stream[next] EXCEPT !.valid = FALSE]}
                \cup (IF market.venue = "deribit"
                      THEN {[stream[next] EXCEPT !.consistent = FALSE]} ELSE {}) : Apply(m)
    /\ UNCHANGED <<market, history, published, stream>>

Lose ==
    /\ next <= Len(stream)
    /\ stream[next].kind = "delta"
    /\ Fault("lost")
    /\ next' = next + 1
    /\ UNCHANGED <<market, history, published, stream, engine, sync, receipt>>

(* Only binance's events name the session they were received in, so only
   they can be told from those of an earlier connection. *)
Repeat(i) ==
    /\ i \in 1..(next - 1)
    /\ stream[i].kind = "delta"
    /\ market.venue # "binance" => stream[i].session = engine.session
    /\ Fault("repeated")
    /\ Apply(stream[i])
    /\ UNCHANGED <<market, history, published, stream, next>>

(* A REST snapshot, possibly taken some time ago. *)
FetchSnapshot(n) ==
    /\ market.venue = "binance"
    /\ n \in 1..Len(history)
    /\ Apply(Snapshot(n))
    /\ UNCHANGED <<market, history, published, stream, next, faults>>

Next ==
    \/ \E p \in market.quoted, q \in Quantities \cup {0}, step \in market.steps \cup {0} :
          VenueChange(p, q, step)
    \/ \E n \in 1..Len(history) : Publish(n) \/ FetchSnapshot(n)
    \/ VenueReset
    \/ Connect
    \/ Disconnect
    \/ Deliver
    \/ DeliverMalformed
    \/ Lose
    \/ \E i \in 1..Len(stream) : Repeat(i)

Spec == Init /\ [][Next]_vars

(* The session loop handles what it received, a closed connection is opened
   again, and binance's REST endpoint answers while a snapshot is awaited. *)
FairSpec ==
    /\ Spec
    /\ WF_vars(Deliver)
    /\ WF_vars(engine.strategy = "none" /\ Connect)
    /\ WF_vars(\E n \in 1..Len(history) : FetchSnapshot(n))

-----------------------------------------------------------------------------
(* Properties. *)

(* Every field has its type and the buffer of deltas stays within the
   configured bounds. *)
TypeOK ==
    /\ engine.state \in BookStates \ {"Replaying"}
    /\ engine.session \in 0..MaxSessions
    /\ engine.strategy \in {"none", Strategy}
    /\ Present(engine.book.levels) \subseteq Prices
    /\ Cardinality(Present(engine.book.levels)) <= market.config.max_levels
    /\ Len(engine.buffered) <= market.config.max_buffered_deltas
    /\ engine.buffered_level_updates <= market.config.max_buffered_level_updates
    /\ sync.local_revision \in Nat
    /\ next \in 1..(Len(stream) + 1)

(* The level updates charged against max_buffered_level_updates are those of
   the deltas in the buffer: nothing is charged twice, kept charged after the
   buffer is drained, or buffered without a charge. *)
BufferCharged ==
    engine.buffered_level_updates =
        FoldLeft(LAMBDA n, m : n + LevelUpdates(m), 0, engine.buffered)

(* The truth a served book is measured against. *)
Truth == history[engine.book.at].levels

(* A book rebuilt from a REST snapshot and every change since then: no level
   differs from the venue's, and every level better than what the depth limit
   ever cut is there. *)
WholeBookExact ==
    \A p \in Prices :
        /\ engine.book.levels[p] # 0 => engine.book.levels[p] = Truth[p]
        /\ p > engine.book.horizon => engine.book.levels[p] = Truth[p]

(* A book rebuilt from a view of limited depth: the venue's view, down to the
   depth the messages are verified to (kraken's have no sequence numbers,
   only a checksum over the best levels). *)
ViewExact ==
    LET depth == IF market.venue = "kraken" THEN ChecksumDepth ELSE market.config.max_levels
    IN  Top(engine.book.levels, depth) = Top(Truth, depth)

(* snapshot() serves a book only while Synchronized, and then, whatever was
   lost, repeated, late or malformed and wherever a buffered delta met a
   snapshot, it serves the venue's book at that point of the feed. *)
ServedExact ==
    engine.state = "Synchronized" =>
        IF market.venue = "binance" THEN WholeBookExact ELSE ViewExact

(* The copy of the book that the deribit and kraken synchronizers check
   messages against is the engine's book whenever the engine serves one. *)
MirrorAgrees ==
    engine.state = "Synchronized" /\ market.venue \in {"deribit", "kraken"}
        => sync.mirror = engine.book.levels

(* A receipt is proof that one event alone produced the book it is bound to:
   a snapshot after which buffered deltas were replayed gets none. *)
ReceiptBindsEvent == receipt.book.at = receipt.at


(* Once the venue is quiet and nothing more is lost, the book is served again
   and stays so, whichever results, gaps and full buffers came before:
   begin_recovery leaves no state that waits for nothing. *)
EventuallySynchronized == <>[](engine.state = "Synchronized")

(* The synchronizers do to the state of a book what the session loops rely
   on: a binance book with a session is never left Untrusted, so its recovery
   always waits for a snapshot that will be applied; no book goes back to
   waiting for its first snapshot, and none is disconnected by a message
   except bybit's. *)
Status == INSTANCE BookStatus WITH venue <- market.venue, state <- engine.state

(* While a session serves a book, the book only moves forward through the
   venue's changes: no duplicate, late or repeated message takes it back.
   (Kraken numbers nothing, so nothing tells its messages apart.) *)
NeverRollsBack ==
    [][market.venue # "kraken" /\ engine.state = "Synchronized" /\ engine'.state = "Synchronized"
          /\ engine'.session = engine.session
       => engine.book.at <= engine'.book.at]_vars
=============================================================================
