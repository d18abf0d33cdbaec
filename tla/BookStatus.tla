---------------------------- MODULE BookStatus ----------------------------
(***************************************************************************)
(* What a session loop may rely on about the synchronizer of one book: the *)
(* results a message can have and the state each leaves.  BookFeed, where  *)
(* the messages and the levels are, is shown to implement this             *)
(* specification, and ConnectorSession uses its steps for its books.       *)
(*                                                                         *)
(* "Refused" stands for every error that apply_output (binance) and        *)
(* apply_message (bybit) return without recovering from it; the errors     *)
(* that binance recovers from leave its book Buffering and count as a gap, *)
(* as they do in apply_book_output.                                        *)
(***************************************************************************)
VARIABLES venue, state

statusVars == <<venue, state>>

Venues == {"binance", "bybit", "deribit", "kraken"}

Step(result, to) == [result |-> result, to |-> to]

(* A message for a book with no session: a malformed one leaves it Untrusted,
   which only the start of a session ends. *)
Stray(s) == {Step("SnapshotRequired", s), Step("Refused", s), Step("Refused", "Untrusted")}

(* binance: a REST snapshot, begin_recovery in the call that lost the book. *)
BufferedSteps ==
    [Buffering |->
        {Step("SnapshotRequired", "Buffering"), Step("GapDetected", "Buffering"),
         Step("Applied", "Synchronized")},
     Synchronized |->
        {Step("Applied", "Synchronized"), Step("Duplicate", "Synchronized"),
         Step("Refused", "Synchronized"), Step("GapDetected", "Buffering")},
     Disconnected |-> Stray("Disconnected"),
     Untrusted |-> Stray("Untrusted")]

(* The others: the stream's own snapshot, at any time. *)
StreamSteps ==
    [AwaitingSnapshot |->
        {Step("SnapshotRequired", "AwaitingSnapshot"), Step("Applied", "Synchronized"),
         Step("ChecksumMismatch", "Untrusted"), Step("Refused", "AwaitingSnapshot"),
         Step("Refused", "Untrusted")},
     Synchronized |->
        {Step("Applied", "Synchronized"), Step("Duplicate", "Synchronized"),
         Step("GapDetected", "Untrusted"), Step("ChecksumMismatch", "Untrusted"),
         Step("Refused", "Synchronized"), Step("Refused", "Untrusted")},
     Untrusted |->
        {Step("SnapshotRequired", "Untrusted"), Step("Applied", "Synchronized"),
         Step("ChecksumMismatch", "Untrusted"), Step("Refused", "Untrusted")},
     Disconnected |-> Stray("Disconnected")]

(* bybit's cross sequence went back: the book is disconnected. *)
CrossSequenceRegression == Step("CrossSequenceRegression", "Disconnected")

MessageSteps(v, s) ==
    (IF v = "binance" THEN BufferedSteps[s] ELSE StreamSteps[s])
        \cup (IF v = "bybit" /\ s # "Disconnected" THEN {CrossSequenceRegression} ELSE {})

AwaitingFirst(v) == IF v = "binance" THEN "Buffering" ELSE "AwaitingSnapshot"

Init == venue \in Venues /\ state = "Disconnected"

Message == \E step \in MessageSteps(venue, state) : state' = step.to
Start == state' = AwaitingFirst(venue)
Stop == state' = "Disconnected"

Next == (Message \/ Start \/ Stop) /\ UNCHANGED venue

Spec == Init /\ [][Next]_statusVars
=============================================================================
