------------------------- MODULE QueueTrackerProofs -------------------------
(***************************************************************************)
(* The accounting of a queue tracker, for every capacity, set of keys and  *)
(* width of the counters.                                                  *)
(***************************************************************************)
EXTENDS QueueTracker, FiniteSetTheorems, TLAPS

(* The types, the accounting and the key count support each other: an offer
   stays within the capacity only because occupancy counts what is queued. *)
QueueInv == QueueTypeOK /\ OffersAccounted /\ OneItemPerKey

(* try_new: an empty queue has nothing to account for. *)
LEMMA NewQueue == QueueInit => QueueInv
<1> SUFFICES ASSUME QueueInit PROVE QueueInv
  OBVIOUS
<1>1. QueueTypeOK
  BY QueueConstants DEF QueueInit, QueueTypeOK
<1>2. OffersAccounted
  BY DEF QueueInit, OffersAccounted
<1>3. OneItemPerKey
  BY FS_EmptySet DEF QueueInit, OneItemPerKey
<1> QED
  BY <1>1, <1>2, <1>3 DEF QueueInv

(* offer of a key that is queued. *)
LEMMA CoalesceKeeps == ASSUME QueueInv, NEW key \in Keys, Coalesce(key) PROVE QueueInv'
<1> USE DEF QueueInv, Coalesce, Answered
<1>1. QueueTypeOK'
  BY DEF QueueTypeOK
<1>2. OffersAccounted'
  BY DEF QueueTypeOK, OffersAccounted
<1>3. OneItemPerKey'
  BY DEF OneItemPerKey, coalescing_allowed
<1> QED
  BY <1>1, <1>2, <1>3

(* offer with room in the queue. *)
LEMMA QueueKeeps == ASSUME QueueInv, NEW key \in Keys, Queue(key) PROVE QueueInv'
<1> USE DEF QueueInv, Queue, Answered
<1>1. QueueTypeOK'
  BY QueueConstants DEF QueueTypeOK
<1>2. OffersAccounted'
  BY DEF QueueTypeOK, OffersAccounted
<1>3. OneItemPerKey'
  <2>1. CASE coalescing_allowed
    <3>1. key \notin keys /\ keys' = keys \cup {key} /\ occupancy' = occupancy + 1
      BY <2>1 DEF Fresh
    <3>2. IsFiniteSet(keys) /\ Cardinality(keys) = occupancy
      BY <2>1 DEF OneItemPerKey
    <3>3. IsFiniteSet(keys') /\ Cardinality(keys') = occupancy + 1
      BY <3>1, <3>2, FS_AddElement
    <3> QED
      BY <2>1, <3>1, <3>3 DEF OneItemPerKey, coalescing_allowed
  <2>2. CASE ~coalescing_allowed
    BY <2>2 DEF OneItemPerKey, coalescing_allowed
  <2> QED
    BY <2>1, <2>2
<1> QED
  BY <1>1, <1>2, <1>3

(* offer to a full queue. *)
LEMMA OverflowKeeps == ASSUME QueueInv, NEW key \in Keys, Overflow(key) PROVE QueueInv'
<1> USE DEF QueueInv, Overflow, Answered
<1>1. QueueTypeOK'
  BY DEF QueueTypeOK
<1>2. OffersAccounted'
  BY DEF QueueTypeOK, OffersAccounted
<1>3. OneItemPerKey'
  BY DEF OneItemPerKey, coalescing_allowed
<1> QED
  BY <1>1, <1>2, <1>3

(* complete *)
LEMMA CompleteKeeps == ASSUME QueueInv, NEW key \in Keys, complete(key) PROVE QueueInv'
<1> USE DEF QueueInv, complete
<1>1. QueueTypeOK'
  BY QueueConstants DEF QueueTypeOK
<1>2. OffersAccounted'
  BY DEF QueueTypeOK, OffersAccounted
<1>3. OneItemPerKey'
  <2>1. CASE coalescing_allowed
    <3>1. key \in keys /\ keys' = keys \ {key} /\ occupancy' = occupancy - 1
      BY <2>1
    <3>2. IsFiniteSet(keys) /\ Cardinality(keys) = occupancy
      BY <2>1 DEF OneItemPerKey
    <3>3. IsFiniteSet(keys') /\ Cardinality(keys') = occupancy - 1
      BY <3>1, <3>2, FS_RemoveElement
    <3> QED
      BY <2>1, <3>1, <3>3 DEF OneItemPerKey, coalescing_allowed
  <2>2. CASE ~coalescing_allowed
    BY <2>2 DEF OneItemPerKey, coalescing_allowed
  <2> QED
    BY <2>1, <2>2
<1> QED
  BY <1>1, <1>2, <1>3

(* Offers and completions in any order keep the types, the accounting and the
   keys of the queue. *)
LEMMA QueueInvariant == QueueSpec => []QueueInv
<1>1. QueueInv /\ [QueueNext]_queueVars => QueueInv'
  <2> SUFFICES ASSUME QueueInv, [QueueNext]_queueVars PROVE QueueInv'
    OBVIOUS
  <2>1. CASE QueueNext
    BY <2>1, CoalesceKeeps, QueueKeeps, OverflowKeeps, CompleteKeeps DEF QueueNext, offer
  <2>2. CASE UNCHANGED queueVars
    BY <2>2 DEF queueVars, QueueInv, QueueTypeOK, OffersAccounted, OneItemPerKey,
                coalescing_allowed
  <2> QED
    BY <2>1, <2>2
<1> QED
  BY <1>1, NewQueue, PTL DEF QueueSpec

(* Every answered offer of a queue tracker is queued, completed or counted as
   the outcome its caller was told, so that silent_drops may be the constant 0;
   and the occupancy, which never passes the capacity, is in a coalescing queue
   the number of distinct queued keys.  For every capacity, key set and counter
   width. *)
THEOREM TrackerAlwaysExact == QueueSpec => [](QueueTypeOK /\ TrackerExact)
<1>1. QueueInv => QueueTypeOK /\ TrackerExact
  BY DEF QueueInv, TrackerExact
<1> QED
  BY <1>1, QueueInvariant, PTL
=============================================================================
