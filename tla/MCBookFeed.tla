----------------------------- MODULE MCBookFeed -----------------------------
(* BookFeed for TLC: one market per synchronizer, two for binance's. *)
EXTENDS BookFeed

Config(policy, checksum, max_levels) ==
    [sequence_policy |-> policy, checksum_required |-> checksum, max_levels |-> max_levels,
     max_buffered_deltas |-> 2, max_buffered_level_updates |-> 3]

(* Binance streams the whole book, so a depth of one cuts; its perpetual ids
   skip values.  Bybit and kraken stream a view of the configured depth, and
   one price more than that moves in and out of it. *)
Spot ==
    [venue |-> "binance", config |-> Config("RangeContainsNext", FALSE, 1),
     quoted |-> {1, 2}, steps |-> {1}, batch |-> 2, changes |-> 2, faults |-> 2]
Perpetual ==
    [venue |-> "binance", config |-> Config("PreviousFinal", FALSE, 1),
     quoted |-> {1, 2}, steps |-> {2}, batch |-> 1, changes |-> 3, faults |-> 1]
Bybit ==
    [venue |-> "bybit", config |-> Config("ExactNext", FALSE, 1),
     quoted |-> {1, 2}, steps |-> {1}, batch |-> 1, changes |-> 3, faults |-> 2]
Deribit ==
    [venue |-> "deribit", config |-> Config("PreviousFinal", FALSE, 2),
     quoted |-> {1, 2}, steps |-> {2}, batch |-> 1, changes |-> 3, faults |-> 2]
Kraken ==
    [venue |-> "kraken", config |-> Config("ExactNext", TRUE, 2),
     quoted |-> {1, 2, 3}, steps |-> {1}, batch |-> 1, changes |-> 3, faults |-> 2]

AllMarkets == {Spot, Perpetual, Bybit, Deribit, Kraken}

(* One buffered delta, so that the buffer overflows at the second. *)
Cramped == {[Perpetual EXCEPT !.config.max_buffered_deltas = 1, !.changes = 2, !.faults = 2]}
=============================================================================
