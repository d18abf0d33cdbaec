---------------------------- MODULE QueueTracker ----------------------------
(***************************************************************************)
(* QueueTracker of collector-runtime: the occupancy and the counters of    *)
(* one bounded queue, with the keys that are queued when its class may     *)
(* coalesce.  A call that fails with CounterExhausted, or on a missing or  *)
(* unknown key, changes nothing.                                           *)
(***************************************************************************)
EXTENDS Naturals, FiniteSets

CONSTANTS
    Keys,           \* coalescing keys
    Capacity,       \* QueueMetrics::capacity
    MaxCounter      \* u64::MAX

ASSUME QueueConstants ==
    /\ Capacity \in Nat \ {0}
    /\ MaxCounter \in Nat

VARIABLES
    class,              \* QueueClass; never changes
    keys,               \* keys of queued items
    occupancy, accepted, completed, overflows,
    coalesced, backpressured, resynchronizations, rejected,
    offered             \* offers that were answered (history variable)

queueVars == <<class, keys, occupancy, accepted, completed, overflows, coalesced,
               backpressured, resynchronizations, rejected, offered>>

(* overflow_action; classes with the same action behave alike. *)
overflow_action ==
    [BookDelta |-> "DegradeAndResnapshot", UiTicker |-> "CoalesceByKey",
     HistoricalCompaction |-> "RejectAdmission", RawWal |-> "Backpressure"]
Classes == {"BookDelta", "UiTicker", "HistoricalCompaction", "RawWal"}

coalescing_allowed == class = "UiTicker"

QueueInit ==
    /\ class \in Classes
    /\ keys = {}
    /\ occupancy = 0
    /\ accepted = 0
    /\ completed = 0
    /\ overflows = 0
    /\ coalesced = 0
    /\ backpressured = 0
    /\ resynchronizations = 0
    /\ rejected = 0
    /\ offered = 0

checked_increment(counter) == counter < MaxCounter
Answered == offered' = offered + 1

Coalesce(key) ==
    /\ coalescing_allowed
    /\ key \in keys
    /\ checked_increment(overflows)
    /\ checked_increment(coalesced)
    /\ overflows' = overflows + 1
    /\ coalesced' = coalesced + 1
    /\ Answered
    /\ UNCHANGED <<class, keys, occupancy, accepted, completed,
                   backpressured, resynchronizations, rejected>>

Fresh(key) == ~(coalescing_allowed /\ key \in keys)

Queue(key) ==
    /\ Fresh(key)
    /\ occupancy < Capacity
    /\ checked_increment(accepted)
    /\ keys' = IF coalescing_allowed THEN keys \cup {key} ELSE keys
    /\ occupancy' = occupancy + 1
    /\ accepted' = accepted + 1
    /\ Answered
    /\ UNCHANGED <<class, completed, overflows, coalesced,
                   backpressured, resynchronizations, rejected>>

OverflowUncounted(key) ==
    /\ Fresh(key)
    /\ occupancy >= Capacity
    /\ Answered
    /\ UNCHANGED <<class, keys, occupancy, accepted, completed, overflows, coalesced,
                   backpressured, resynchronizations, rejected>>

Overflow(key) ==
    /\ Fresh(key)
    /\ occupancy >= Capacity
    /\ checked_increment(overflows)
    /\ overflows' = overflows + 1
    /\ \/ /\ overflow_action[class] = "Backpressure"
          /\ checked_increment(backpressured)
          /\ backpressured' = backpressured + 1
          /\ UNCHANGED <<resynchronizations, rejected>>
       \/ /\ overflow_action[class] = "DegradeAndResnapshot"
          /\ checked_increment(resynchronizations)
          /\ resynchronizations' = resynchronizations + 1
          /\ UNCHANGED <<backpressured, rejected>>
       \/ /\ overflow_action[class] \in {"CoalesceByKey", "RejectAdmission"}
          /\ checked_increment(rejected)
          /\ rejected' = rejected + 1
          /\ UNCHANGED <<backpressured, resynchronizations>>
    /\ Answered
    /\ UNCHANGED <<class, keys, occupancy, accepted, completed, coalesced>>

offer(key) == Coalesce(key) \/ Queue(key) \/ Overflow(key)

completeKeeping(key) ==
    /\ occupancy # 0
    /\ checked_increment(completed)
    /\ occupancy' = occupancy - 1
    /\ completed' = completed + 1
    /\ UNCHANGED <<class, keys, accepted, overflows, coalesced,
                   backpressured, resynchronizations, rejected, offered>>

complete(key) ==
    /\ occupancy # 0
    /\ checked_increment(completed)
    /\ coalescing_allowed => key \in keys
    /\ keys' = IF coalescing_allowed THEN keys \ {key} ELSE keys
    /\ occupancy' = occupancy - 1
    /\ completed' = completed + 1
    /\ UNCHANGED <<class, accepted, overflows, coalesced,
                   backpressured, resynchronizations, rejected, offered>>

QueueNext == \E key \in Keys : offer(key) \/ complete(key)

QueueSpec == QueueInit /\ [][QueueNext]_queueVars

-----------------------------------------------------------------------------
QueueTypeOK ==
    /\ class \in Classes
    /\ keys \subseteq Keys
    /\ occupancy \in 0..Capacity
    /\ accepted \in Nat
    /\ completed \in Nat
    /\ overflows \in Nat
    /\ coalesced \in Nat
    /\ backpressured \in Nat
    /\ resynchronizations \in Nat
    /\ rejected \in Nat
    /\ offered \in Nat

(* Every offer that was answered is queued, completed or counted under the one
   outcome its caller was told, so silent_drops is rightly constant: counters
   and occupancy agree after any sequence of calls, at the capacity and at the
   end of the counters too. *)
OffersAccounted ==
    /\ offered = accepted + overflows
    /\ accepted = completed + occupancy
    /\ overflows = coalesced + backpressured + resynchronizations + rejected

(* A queue that coalesces holds one item per key: an offer of a queued key
   never takes a place and a completed key can be queued again. *)
OneItemPerKey ==
    IsFiniteSet(keys) /\ Cardinality(keys) = IF coalescing_allowed THEN occupancy ELSE 0

(* What the tracker publishes of a queue is true of it: its counters account for
   every offer, and a coalescing queue holds one item per key. *)
TrackerExact == OffersAccounted /\ OneItemPerKey
=============================================================================
