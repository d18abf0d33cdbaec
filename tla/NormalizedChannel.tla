------------------------- MODULE NormalizedChannel -------------------------
(***************************************************************************)
(* BoundedNormalizedChannel of connector-core: outputs go from cloned      *)
(* sinks to one receiver through lanes of falling priority, each bounded   *)
(* in items and in bytes; a book stream that loses an output is flagged in *)
(* the registry until the consumer has applied a snapshot that covers it.  *)
(*                                                                         *)
(* The two bounds of a lane are tokio semaphores (external): first come    *)
(* first served, and permits that are released go to whoever waits first,  *)
(* who collects them until it has enough.  A producer owns one registered  *)
(* book stream and publishes one output after the other; outputs of a      *)
(* stream that is not registered are refused without a change.             *)
(***************************************************************************)
EXTENDS Naturals, Sequences, FiniteSets, SequencesExt

CONSTANTS
    Producers,      \* holders of a BoundedNormalizedSink; each owns a book stream
    ItemCapacity,   \* item_capacity_per_lane
    ByteCapacity,   \* byte_capacity_per_lane
    Interval,       \* SamplingPolicy::SampleEvery of the lossy event type
    None,           \* the absent value
    Offered,        \* bound: kind, size and call of the outputs of each producer
    ReceiveTimes,          \* bound: receive times of lossy outputs
    MaxStreamSequence     \* bound: sequence numbers of a book stream

ASSUME ChannelConstants ==
    /\ ItemCapacity \in Nat \ {0}
    /\ ByteCapacity \in Nat \ {0}
    /\ Interval \in Nat \ {0}
    /\ ReceiveTimes \subseteq Nat
    /\ None \notin Nat

VARIABLES
    queue,      \* the outputs of each lane
    slots,      \* item semaphore of each lane
    budget,     \* byte semaphore of each lane
    task,       \* where each producer is in its publication
    next,       \* last sequence number each producer used
    required,   \* BookStreamRegistry: None, or the sequence a snapshot must reach
    sampling,   \* sampling_state: receive time of the stream's last queued output
    sinks,      \* producers whose sink exists
    receiver,   \* "open", "finished" (recv returned None) or "dropped"
    scan,       \* the lane recv polls next
    held,       \* the snapshot the consumer was last delivered
    owed        \* highest sequence each stream lost and no accepted snapshot
                \* has reached (history variable)

laneVars == <<queue, slots, budget>>
producerVars == <<task, next, sinks, sampling>>
bookVars == <<required, owed>>
receiverVars == <<receiver, scan, held>>
channelVars == <<laneVars, producerVars, bookVars, receiverVars>>

(* EventType::priority.  MarketCore, DerivativesState and UiAggregate have
   lanes like Auxiliary's, between it and Integrity or below it. *)
Lanes == <<"Integrity", "Auxiliary">>
LaneSet == ToSet(Lanes)
priority(output) ==
    IF output.kind \in {"definition", "snapshot", "delta"} THEN "Integrity" ELSE "Auxiliary"

(* required_book_stream: an output of this kind is part of a book stream; a
   definition has no sequence number and counts as 0. *)
required_book_stream(output) == priority(output) = "Integrity"

Idle == [pc |-> "idle"]

-----------------------------------------------------------------------------
(* tokio's semaphore: need is what a waiter still lacks. *)

Semaphore(n) == [free |-> n, waiters |-> <<>>]

CanAcquire(sem, n) == sem.waiters = <<>> /\ sem.free >= n
Taken(sem, n) == [sem EXCEPT !.free = @ - n]
Enqueued(sem, p, n) ==
    [free |-> 0, waiters |-> Append(sem.waiters, [p |-> p, need |-> n - sem.free])]

(* The sums of the first k numbers of a sequence. *)
Sums(numbers) ==
    LET sum[k \in 0..Len(numbers)] == IF k = 0 THEN 0 ELSE sum[k - 1] + numbers[k]
    IN  sum
Needs(sem) == Sums([k \in DOMAIN sem.waiters |-> sem.waiters[k].need])

(* n permits go to the waiters in turn: this many of them then have enough. *)
Served(sem, n) == Cardinality({k \in DOMAIN sem.waiters : Needs(sem)[k] <= n})

Released(sem, n) ==
    LET served == Served(sem, n)
        rest == SubSeq(sem.waiters, served + 1, Len(sem.waiters))
        left == n - Needs(sem)[served]
    IN  IF rest = <<>> THEN [free |-> sem.free + left, waiters |-> <<>>]
        ELSE [sem EXCEPT !.waiters = [rest EXCEPT ![1].need = @ - left]]

(* Tasks that a release of n bytes or of a slot lets go on. *)
Woken(tasks, sem, n, pc) ==
    [p \in Producers |-> IF \E k \in 1..Served(sem, n) : sem.waiters[k].p = p
                         THEN [tasks[p] EXCEPT !.pc = pc] ELSE tasks[p]]

-----------------------------------------------------------------------------
ChannelInit ==
    /\ queue = [l \in LaneSet |-> <<>>]
    /\ slots = [l \in LaneSet |-> Semaphore(ItemCapacity)]
    /\ budget = [l \in LaneSet |-> Semaphore(ByteCapacity)]
    /\ task = [p \in Producers |-> Idle]
    /\ next = [p \in Producers |-> 0]
    /\ required = [p \in Producers |-> None]
    /\ sampling = [p \in Producers |-> None]
    /\ sinks = Producers
    /\ receiver = "open"
    /\ scan = 1
    /\ held = None
    /\ owed = [p \in Producers |-> None]

-----------------------------------------------------------------------------
(* The sink. *)

(* What producer p may publish next: a snapshot shows the book at the last
   sequence or at a new one. *)
Sequences(p, kind) ==
    CASE kind = "snapshot" -> next[p]..(next[p] + 1)
      [] kind = "delta" -> {next[p] + 1}
      [] OTHER -> {0}
Outputs(p, mode) ==
    UNION {[stream: {p}, kind: {o.kind}, sequence: Sequences(p, o.kind), bytes: {o.bytes}] :
              o \in {o \in Offered[p] : o.mode = mode}}

MaxOf(a, b) == IF a = None \/ b > a THEN b ELSE a

At(p, pc) == p \in sinks /\ task[p].pc = pc
Out(p) == task[p].output
Lane(p) == priority(Out(p))
Goto(p, pc) == task' = [task EXCEPT ![p].pc = pc]

(* Where a publication that lost its output goes: a book stream is flagged. *)
Lost(output) == IF required_book_stream(output) THEN "overflow" ELSE "idle"

StepAt(p, output, mode, pc, time) ==
    task' = [task EXCEPT ![p] = IF pc = "idle" THEN Idle
                                ELSE [pc |-> pc, output |-> output, mode |-> mode, time |-> time]]
Step(p, output, mode, pc) == StepAt(p, output, mode, pc, None)

(* A delta of a flagged stream is refused at once. *)
Refused(p, output) == output.kind = "delta" /\ required[p] # None

AcquireBytes(p, output) ==
    LET lane == priority(output)
    IN  IF CanAcquire(budget[lane], output.bytes)
        THEN /\ Step(p, output, "send", "sized")
             /\ budget' = [budget EXCEPT ![lane] = Taken(@, output.bytes)]
        ELSE /\ Step(p, output, "send", "bytes")
             /\ budget' = [budget EXCEPT ![lane] = Enqueued(@, p, output.bytes)]

SendUnsized(p, output) ==
    IF Refused(p, output) THEN Step(p, output, "send", "idle") /\ UNCHANGED budget
    ELSE AcquireBytes(p, output)

(* send, up to its first await. *)
Send(p, output) ==
    IF Refused(p, output) THEN Step(p, output, "send", "idle") /\ UNCHANGED budget
    ELSE IF output.bytes > ByteCapacity
    THEN Step(p, output, "send", Lost(output)) /\ UNCHANGED budget
    ELSE AcquireBytes(p, output)

(* try_send_inner, up to try_send. *)
TrySend(p, output) ==
    LET lane == priority(output)
    IN  IF Refused(p, output) THEN Step(p, output, "try", "idle") /\ UNCHANGED budget
        ELSE IF CanAcquire(budget[lane], output.bytes)
        THEN /\ Step(p, output, "try", "try_slot")
             /\ budget' = [budget EXCEPT ![lane] = Taken(@, output.bytes)]
        ELSE Step(p, output, "try", Lost(output)) /\ UNCHANGED budget

(* try_send_lossy, up to try_send, under the lock of sampling_state; the
   outputs it drops before that leave everything as it is. *)
InWindow(p, time) ==
    sampling[p] # None /\ time >= sampling[p] /\ time - sampling[p] < Interval

TrySendLossy(p, output, time) ==
    /\ output.kind = "status"
    /\ \A q \in Producers : task[q].pc = "try_slot" => task[q].mode # "lossy"
    /\ ~InWindow(p, time)
    /\ CanAcquire(budget["Auxiliary"], output.bytes)
    /\ StepAt(p, output, "lossy", "try_slot", time)
    /\ budget' = [budget EXCEPT !["Auxiliary"] = Taken(@, output.bytes)]

Use(p, output) ==
    /\ output.sequence <= MaxStreamSequence
    /\ next' = [next EXCEPT ![p] = IF output.sequence > @ THEN output.sequence ELSE @]

Publish(p) ==
    /\ At(p, "idle")
    /\ \/ \E output \in Outputs(p, "send") : Use(p, output) /\ Send(p, output)
       \/ \E output \in Outputs(p, "try") : Use(p, output) /\ TrySend(p, output)
       \/ \E output \in Outputs(p, "lossy"), time \in ReceiveTimes :
             Use(p, output) /\ TrySendLossy(p, output, time)
    /\ UNCHANGED <<queue, slots, sinks, sampling, bookVars, receiverVars>>

(* mpsc::Sender::send: take a slot, wait for one, or find the receiver gone. *)
Push(p) == queue' = [queue EXCEPT ![Lane(p)] = Append(@, Out(p))]

(* The publication ends without its output being queued: its permit goes back. *)
ReturnBytes(p, pc) ==
    /\ budget' = [budget EXCEPT ![Lane(p)] = Released(@, Out(p).bytes)]
    /\ LET woken == Woken(task, budget[Lane(p)], Out(p).bytes, "sized")
       IN  task' = [woken EXCEPT ![p] = IF pc = "idle" THEN Idle ELSE [@ EXCEPT !.pc = pc]]

ReceiverGone == receiver = "dropped"

TakeSlotUnbounded(p) ==
    /\ At(p, "sized")
    /\ Push(p)
    /\ slots' = [slots EXCEPT ![Lane(p)] = Taken(@, 1)]
    /\ task' = [task EXCEPT ![p] = Idle]
    /\ UNCHANGED <<budget, next, sinks, sampling, bookVars, receiverVars>>

TakeSlot(p) ==
    /\ At(p, "sized")
    /\ IF ReceiverGone THEN ReturnBytes(p, "idle") /\ UNCHANGED <<queue, slots>>
       ELSE IF CanAcquire(slots[Lane(p)], 1)
       THEN /\ Push(p)
            /\ slots' = [slots EXCEPT ![Lane(p)] = Taken(@, 1)]
            /\ task' = [task EXCEPT ![p] = Idle]
            /\ UNCHANGED budget
       ELSE /\ slots' = [slots EXCEPT ![Lane(p)] = Enqueued(@, p, 1)]
            /\ Goto(p, "slot")
            /\ UNCHANGED <<queue, budget>>
    /\ UNCHANGED <<next, sinks, sampling, bookVars, receiverVars>>

(* A waiter that got its slot, or whose channel was closed. *)
Granted(p) ==
    /\ At(p, "granted")
    /\ IF ReceiverGone THEN ReturnBytes(p, "idle") /\ UNCHANGED queue
       ELSE Push(p) /\ task' = [task EXCEPT ![p] = Idle] /\ UNCHANGED budget
    /\ UNCHANGED <<slots, next, sinks, sampling, bookVars, receiverVars>>

(* try_send of try_send_inner and try_send_lossy. *)
TrySlot(p) ==
    /\ At(p, "try_slot")
    /\ IF ReceiverGone THEN ReturnBytes(p, "idle") /\ UNCHANGED <<queue, slots, sampling>>
       ELSE IF ~CanAcquire(slots[Lane(p)], 1)
       THEN ReturnBytes(p, Lost(Out(p))) /\ UNCHANGED <<queue, slots, sampling>>
       ELSE /\ Push(p)
            /\ slots' = [slots EXCEPT ![Lane(p)] = Taken(@, 1)]
            /\ task' = [task EXCEPT ![p] = Idle]
            /\ sampling' = IF task[p].mode # "lossy" THEN sampling
                           ELSE [sampling EXCEPT ![p] = task[p].time]
            /\ UNCHANGED budget
    /\ UNCHANGED <<next, sinks, bookVars, receiverVars>>

invalidateLatest(p, sequence) == [required EXCEPT ![p] = sequence]
invalidate(p, sequence) == [required EXCEPT ![p] = MaxOf(@, sequence)]

LaneOverflow(p) ==
    /\ At(p, "overflow")
    /\ required' = invalidate(p, Out(p).sequence)
    /\ owed' = [owed EXCEPT ![p] = MaxOf(@, Out(p).sequence)]
    /\ task' = [task EXCEPT ![p] = Idle]
    /\ UNCHANGED <<laneVars, next, sinks, sampling, receiverVars>>

(* The future of send is dropped while it waits: an interrupt won the select!
   of publish_normalized.  What it had collected goes back. *)
WithoutWaiter(sem, p) ==
    [sem EXCEPT !.waiters = SelectSeq(@, LAMBDA w : w.p # p)]
StillNeeds(sem, p) ==
    LET mine == SelectSeq(sem.waiters, LAMBDA w : w.p = p)
    IN  IF mine = <<>> THEN 0 ELSE mine[1].need

AbandonLeaking(p) ==
    /\ At(p, "bytes")
    /\ task' = [task EXCEPT ![p] = Idle]
    /\ budget' = [budget EXCEPT ![Lane(p)] = WithoutWaiter(@, p)]
    /\ UNCHANGED <<slots, queue, next, sinks, sampling, bookVars, receiverVars>>

Abandon(p) ==
    /\ p \in sinks
    /\ task[p].pc \in {"bytes", "sized", "slot", "granted"}
    /\ task[p].mode = "send"
    /\ LET sem == budget[Lane(p)]
           had == Out(p).bytes - StillNeeds(sem, p)
           slot == IF task[p].pc = "granted" THEN 1 ELSE 0
           waiting == slots[Lane(p)]
       IN  /\ budget' = [budget EXCEPT ![Lane(p)] = Released(WithoutWaiter(sem, p), had)]
           /\ slots' = [slots EXCEPT ![Lane(p)] = Released(WithoutWaiter(waiting, p), slot)]
           /\ task' = [Woken(Woken(task, WithoutWaiter(sem, p), had, "sized"),
                             WithoutWaiter(waiting, p), slot, "granted") EXCEPT ![p] = Idle]
    /\ UNCHANGED <<queue, next, sinks, sampling, bookVars, receiverVars>>

DropSink(p) ==
    /\ At(p, "idle")
    /\ sinks' = sinks \ {p}
    /\ UNCHANGED <<laneVars, task, next, sampling, bookVars, receiverVars>>

-----------------------------------------------------------------------------
(* The receiver. *)

(* recv polls the lanes in order of priority, then looks whether every sink is
   gone, then waits for any lane, which is another pass over the lanes. *)
RecvTake ==
    LET lane == Lanes[scan]
        output == Head(queue[lane])
    IN  /\ queue' = [queue EXCEPT ![lane] = Tail(@)]
        /\ slots' = [slots EXCEPT ![lane] = Released(@, 1)]
        /\ budget' = [budget EXCEPT ![lane] = Released(@, output.bytes)]
        /\ task' = Woken(Woken(task, budget[lane], output.bytes, "sized"), slots[lane], 1, "granted")
        /\ held' = IF output.kind = "snapshot" THEN output ELSE held
        /\ scan' = 1
        /\ UNCHANGED receiver

recv ==
    /\ receiver = "open"
    /\ \/ /\ scan <= Len(Lanes)
          /\ queue[Lanes[scan]] # <<>>
          /\ RecvTake
       \/ /\ scan <= Len(Lanes)
          /\ queue[Lanes[scan]] = <<>>
          /\ scan' = scan + 1
          /\ UNCHANGED <<laneVars, task, receiver, held>>
       \/ /\ scan > Len(Lanes)
          /\ receiver' = IF sinks = {} THEN "finished" ELSE "open"
          /\ scan' = 1
          /\ UNCHANGED <<laneVars, task, held>>
    /\ UNCHANGED <<next, sinks, sampling, bookVars>>

SatisfiesAnySequence(snapshot) == snapshot.kind = "snapshot" /\ required[snapshot.stream] # None
Satisfies(snapshot) ==
    /\ snapshot.kind = "snapshot"
    /\ required[snapshot.stream] # None
    /\ snapshot.sequence >= required[snapshot.stream]

(* confirm_snapshot_applied uses the delivered output up; the registry is
   cleared if it covers what the stream lost. *)
accept_resynchronizing_snapshot ==
    /\ held # None
    /\ Satisfies(held)
    /\ required' = [required EXCEPT ![held.stream] = None]
    /\ owed' = [owed EXCEPT ![held.stream] = IF @ # None /\ @ > held.sequence THEN @ ELSE None]
    /\ held' = None
    /\ UNCHANGED <<laneVars, producerVars, receiver, scan>>

(* The receiver goes: the queues are emptied and who waits for a slot is told. *)
QueuedBytes(lane) ==
    Sums([k \in DOMAIN queue[lane] |-> queue[lane][k].bytes])[Len(queue[lane])]
DropReceiver ==
    /\ receiver = "open"
    /\ receiver' = "dropped"
    /\ queue' = [l \in LaneSet |-> <<>>]
    /\ slots' = [l \in LaneSet |-> Semaphore(0)]
    /\ budget' = [l \in LaneSet |-> Released(budget[l], QueuedBytes(l))]
    /\ task' = [p \in Producers |->
                   CASE task[p].pc = "slot" -> [task[p] EXCEPT !.pc = "granted"]
                     [] task[p].pc = "bytes" ->
                           Woken(task, budget[Lane(p)], QueuedBytes(Lane(p)), "sized")[p]
                     [] OTHER -> task[p]]
    /\ scan' = 1
    /\ held' = None
    /\ UNCHANGED <<next, sinks, sampling, bookVars>>

-----------------------------------------------------------------------------
Continue(p) == TakeSlot(p) \/ Granted(p) \/ TrySlot(p) \/ LaneOverflow(p)

ChannelNext ==
    \/ \E p \in Producers : Publish(p) \/ Continue(p) \/ Abandon(p) \/ DropSink(p)
    \/ recv \/ accept_resynchronizing_snapshot \/ DropReceiver

ChannelSpec == ChannelInit /\ [][ChannelNext]_channelVars

(* Tasks that can go on are scheduled, and a consumer that has not dropped its
   receiver keeps receiving; whether anyone publishes, abandons or accepts is
   open. *)
FairChannel == ChannelSpec /\ WF_channelVars(recv) /\ \A p \in Producers : WF_channelVars(Continue(p))

-----------------------------------------------------------------------------
(* Properties. *)

ChannelTypeOK ==
    /\ \A l \in LaneSet : Len(queue[l]) <= ItemCapacity
    /\ \A l \in LaneSet : QueuedBytes(l) <= ByteCapacity
    /\ \A p \in Producers :
          task[p].pc \in {"idle", "bytes", "sized", "slot", "granted", "try_slot", "overflow"}
    /\ next \in [Producers -> 0..MaxStreamSequence]
    /\ required \in [Producers -> 0..MaxStreamSequence \cup {None}]
    /\ sampling \in [Producers -> ReceiveTimes \cup {None}]
    /\ sinks \subseteq Producers
    /\ receiver \in {"open", "finished", "dropped"}
    /\ scan \in 1..(Len(Lanes) + 1)

BytesOf(p, lane) ==
    IF task[p].pc \in {"idle", "overflow"} \/ Lane(p) # lane THEN 0
    ELSE Out(p).bytes - StillNeeds(budget[lane], p)

(* The permits of a lane are with its free budget, its queued outputs and the
   publications on their way, however sends wait, fail, are abandoned half
   way or lose their receiver: none is lost, so a lane never shrinks. *)
PermitsConserved ==
    \A l \in LaneSet :
        /\ budget[l].free + QueuedBytes(l)
              + FoldSet(LAMBDA p, n : n + BytesOf(p, l), 0, Producers) = ByteCapacity
        /\ receiver # "dropped" =>
              slots[l].free + Len(queue[l])
                + Cardinality({p \in Producers : task[p].pc = "granted" /\ Lane(p) = l}) = ItemCapacity

(* Whatever a book stream lost to a full lane or to its size is still flagged,
   up to the highest sequence lost, or a snapshot at least as new was
   delivered and applied: an older snapshot that was already queued, or the
   loss of a definition, never clears or lowers the flag. *)
LossCovered ==
    \A p \in Producers :
        owed[p] # None => required[p] # None /\ required[p] >= owed[p]

(* Every publication of a book output ends, whatever the other lanes carry:
   bytes and slots are handed out first come first served, recv looks at
   this lane first, nothing larger than the lane waits for it, and dropping
   the receiver releases whoever waits. *)
BookSendEnds ==
    \A p \in Producers :
        task[p].pc # "idle" /\ Lane(p) = "Integrity" ~> task[p].pc = "idle"
=============================================================================
