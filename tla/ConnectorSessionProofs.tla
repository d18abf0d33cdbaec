----------------------- MODULE ConnectorSessionProofs -----------------------
(***************************************************************************)
(* A connector session for any set of books, capacities and history limit: *)
(* what it publishes is durable, what it says of itself is so, and its     *)
(* lifecycle events and interrupts form one history.                       *)
(*                                                                         *)
(* The inductive invariant looks ahead: every operation still in todo is   *)
(* legal in the lifecycle state the operations before it lead to, and the  *)
(* handler, if it does not return, leaves the lifecycle Healthy exactly    *)
(* when all books are synchronized.                                        *)
(***************************************************************************)
EXTENDS ConnectorSession, TLAPS

Causes == {"Startup", "SubscriptionAccepted", "SynchronizationNotRequired", "SnapshotApplied",
           "ResynchronizationStarted", "SourceStale", "SequenceGap", "RecoverableDisconnect",
           "SchemaViolation"}
Kinds == {"book", "unnormalized", "other", "large", "unparsable"}
Results == {"GapDetected", "ChecksumMismatch", "Applied", "Duplicate", "SnapshotRequired",
            "CrossSequenceRegression", "Refused"}

(* The operations of a handler. *)
LifecycleOps == [op: {"lifecycle"}, to: ConnectorStates, cause: Causes]
CaptureOps == [op: {"capture"}, n: Nat, fits: BOOLEAN]
PublishOps == [op: {"publish"}, n: Nat, kind: Kinds, result: Results]
ReturnOps == [op: {"return"}, result: {"RecoverableDisconnect", "Quarantined", "Fatal"}]
Ops == LifecycleOps \cup CaptureOps \cup PublishOps \cup ReturnOps \cup {StartBooks}

(* The states in which a session waits in its loop. *)
LoopStates == {"Synchronizing", "Healthy", "Recovering"}

BookStates(v) ==
    {"Disconnected", "Synchronized", "Untrusted",
     IF v = "binance" THEN "Buffering" ELSE "AwaitingSnapshot"}

AllSynchronized(b) == \A i \in Instruments : b[i] = "Synchronized"

(* The lifecycle state in which operation k of ops runs, from state s. *)
Before(s, ops, k) ==
    IF k = 1 THEN s ELSE IF ops[k - 1].op = "lifecycle" THEN ops[k - 1].to ELSE "Synchronizing"

(* After start_books at k only a session without books does anything more. *)
StartsLast(ops, k) ==
    IF Instruments = {}
    THEN Len(ops) = k + 1 /\ ops[k + 1].op = "lifecycle" /\ ops[k + 1].to = "Healthy"
    ELSE Len(ops) = k

LegalAt(s, ops, k) ==
    /\ ops[k].op = "lifecycle" =>
          /\ valid_transition(Before(s, ops, k), ops[k].to)
          /\ valid_cause(Before(s, ops, k), ops[k].to, ops[k].cause)
    /\ ops[k].op = "start_books" => Before(s, ops, k) = "Synchronizing" /\ StartsLast(ops, k)
    /\ ops[k].op \in {"publish", "return"} => k = Len(ops)
    /\ ops[k].op = "capture" => Len(ops) = 1

(* Every operation of ops is legal where the ones before it lead. *)
LegalOps(s, ops) == ops \in Seq(Ops) /\ \A k \in 1..Len(ops) : LegalAt(s, ops, k)

Agrees(s, synchronized) == s \in LoopStates /\ (s = "Healthy" <=> synchronized)

Moves(o) == o.op \in {"lifecycle", "start_books"}

(* A handler that does not return leaves a lifecycle that agrees with the books. *)
Settles(s, ops, synchronized) ==
    \/ \E k \in 1..Len(ops) : ops[k].op = "return"
    \/ Agrees(s, synchronized) /\ \A k \in 1..Len(ops) : ~Moves(ops[k])
    \/ \E k \in 1..Len(ops) :
          /\ ops[k].op = "lifecycle"
          /\ Agrees(ops[k].to, synchronized)
          /\ \A j \in k + 1 .. Len(ops) : ~Moves(ops[j])
    \/ \E k \in 1..Len(ops) : ops[k].op = "start_books"

HandlerInv ==
    /\ venue \in {"binance", "bybit"}
    /\ books \in [Instruments -> BookStates(venue)]
    /\ lifecycle \in ConnectorStates
    /\ last_event.to = lifecycle
    /\ LegalOps(lifecycle, todo)
    /\ Running => Settles(lifecycle, todo, AllSynchronized(books))

(* A publication still to come is of a durable record, and bybit's of an applied one. *)
Publishable(o) ==
    o.op = "publish" =>
        /\ o.n \in durable
        /\ venue = "bybit" /\ o.kind = "book" => o.result = "Applied"

CaptureInv ==
    /\ received \in Nat
    /\ capture \in [n: Nat, receipt: {"none", "waiting", "acknowledged", "rejected", "lost"}]
    /\ capture.receipt = "acknowledged" => capture.n \in durable
    /\ outputs \in Seq([n: Nat, kind: Kinds, result: Results])
    /\ \A k \in 1..Len(todo) : Publishable(todo[k])
    /\ DurableBeforePublished
    /\ PublishedWasApplied
    /\ \A k \in 1..Len(todo) : todo[k].op = "capture" => todo[k].n = received

CommandInv ==
    /\ interrupt \in Interrupts \cup {"none"}
    /\ issued \in [high_water: Nat, retired_high_water: Nat, order: Seq(Nat)]
    /\ accepted \in Seq(Nat)
    /\ \A k \in 1..Len(accepted) :
          accepted[k] \in Range(issued.order) \/ accepted[k] <= issued.retired_high_water
    /\ CommandIdsUnique

SessionInv == HandlerInv /\ CaptureInv /\ CommandInv

-----------------------------------------------------------------------------
(* The operators a handler is built from. *)

(* BookSynchronizer, as BookStatus states it: what a result says of the state
   the message leaves. *)
LEMMA StepResult ==
    ASSUME NEW v \in {"binance", "bybit"}, NEW s \in BookStates(v),
           NEW step \in Status!MessageSteps(v, s)
    PROVE  /\ step.result \in Results /\ step.to \in BookStates(v)
           /\ step.result = "Applied" => step.to = "Synchronized"
           /\ step.result \in {"GapDetected", "ChecksumMismatch"} => step.to # "Synchronized"
           /\ step.result \in {"Duplicate", "SnapshotRequired"} => step.to = s
<1> USE DEF Results, BookStates, Status!Step
<1>1. CASE v = "binance"
  <2>1. step \in Status!BufferedSteps[s]
    BY <1>1 DEF Status!MessageSteps
  <2>2. CASE s \in {"Buffering", "Synchronized"}
    BY <1>1, <2>1, <2>2 DEF Status!BufferedSteps
  <2>3. CASE s \in {"Disconnected", "Untrusted"}
    BY <1>1, <2>1, <2>3 DEF Status!BufferedSteps, Status!Stray
  <2> QED
    BY <1>1, <2>2, <2>3
<1>2. CASE v = "bybit"
  <2>1. step \in Status!StreamSteps[s] \/ step = Status!CrossSequenceRegression
    BY <1>2 DEF Status!MessageSteps
  <2>2. CASE step = Status!CrossSequenceRegression
    BY <1>2, <2>2 DEF Status!CrossSequenceRegression
  <2>3. CASE step \in Status!StreamSteps[s] /\ s \in {"AwaitingSnapshot", "Synchronized"}
    BY <1>2, <2>3 DEF Status!StreamSteps
  <2>4. CASE step \in Status!StreamSteps[s] /\ s \in {"Disconnected", "Untrusted"}
    BY <1>2, <2>4 DEF Status!StreamSteps, Status!Stray
  <2> QED
    BY <1>2, <2>1, <2>2, <2>3, <2>4
<1> QED
  BY <1>1, <1>2

(* Proceed: the rest of a legal handler is legal where its first operation leads. *)
LEMMA TailLegal ==
    ASSUME NEW s, NEW ops, LegalOps(s, ops), ops # <<>>,
           NEW t, t = IF Head(ops).op = "lifecycle" THEN Head(ops).to ELSE s
    PROVE  LegalOps(t, Tail(ops))
<1> DEFINE rest == Tail(ops)
<1>1. ops \in Seq(Ops) /\ rest \in Seq(Ops) /\ Len(rest) = Len(ops) - 1 /\ Len(ops) \in Nat \ {0}
  BY DEF LegalOps
<1>2. \A k \in 1..Len(rest) : rest[k] = ops[k + 1] /\ k + 1 \in 1..Len(ops)
  BY <1>1
<1>3. LegalAt(s, ops, 1) /\ Head(ops) = ops[1] /\ 1 \in 1..Len(ops)
  BY <1>1 DEF LegalOps
<1>4. ASSUME NEW k \in 1..Len(rest) PROVE LegalAt(t, rest, k)
  <2>1. LegalAt(s, ops, k + 1)
    BY <1>2 DEF LegalOps
  <2>2. Before(t, rest, k) = Before(s, ops, k + 1)
    <3>1. CASE k = 1
      <4>1. ops[1] \in Ops /\ ops[1].op \notin {"publish", "return", "capture"}
        BY <1>1, <1>2, <1>3, <3>1 DEF LegalAt
      <4>2. ops[1].op \in {"lifecycle", "start_books"}
        BY <4>1 DEF Ops, LifecycleOps, CaptureOps, PublishOps, ReturnOps, StartBooks
      <4>3. Before(s, ops, k + 1) = IF ops[1].op = "lifecycle" THEN ops[1].to ELSE "Synchronizing"
        BY <3>1 DEF Before
      <4>4. ops[1].op = "start_books" => s = "Synchronizing"
        BY <1>3 DEF LegalAt, Before
      <4> QED
        BY <1>3, <3>1, <4>2, <4>3, <4>4 DEF Before
    <3>2. CASE k # 1
      <4>1. k - 1 \in 1..Len(rest) /\ (k + 1) - 1 = (k - 1) + 1 /\ k + 1 # 1
        BY <1>1, <3>2
      <4>2. rest[k - 1] = ops[(k + 1) - 1]
        BY <1>2, <4>1
      <4> QED
        BY <3>2, <4>1, <4>2 DEF Before
    <3> QED
      BY <3>1, <3>2
  <2>3. rest[k] = ops[k + 1]
    BY <1>2
  <2>4. (k + 1 = Len(ops) => k = Len(rest)) /\ Len(ops) # 1
    <3>1. Len(rest) = Len(ops) - 1 /\ Len(ops) \in Nat
      BY <1>1
    <3> HIDE DEF rest
    <3> QED
      BY <3>1
  <2>5. StartsLast(ops, k + 1) => StartsLast(rest, k)
    <3>1. Len(rest) = Len(ops) - 1 /\ Len(ops) \in Nat
      BY <1>1
    <3>2. Len(rest) = k + 1 => rest[k + 1] = ops[(k + 1) + 1]
      BY <1>2, <3>1
    <3> HIDE DEF rest
    <3> QED
      BY <3>1, <3>2 DEF StartsLast
  <2> QED
    BY <2>1, <2>2, <2>3, <2>4, <2>5 DEF LegalAt
<1> QED
  BY <1>1, <1>4 DEF LegalOps

(* Proceed past a lifecycle operation or a publication: the handler settles as before. *)
LEMMA TailSettles ==
    ASSUME NEW s, NEW ops, LegalOps(s, ops), ops # <<>>, NEW b, Settles(s, ops, b),
           Head(ops).op \in {"lifecycle", "publish"},
           NEW t, t = IF Head(ops).op = "lifecycle" THEN Head(ops).to ELSE s
    PROVE  Settles(t, Tail(ops), b)
<1> DEFINE rest == Tail(ops)
<1>1. ops \in Seq(Ops) /\ rest \in Seq(Ops) /\ Len(rest) = Len(ops) - 1 /\ Len(ops) \in Nat \ {0}
  BY DEF LegalOps
<1>2. \A k \in 1..Len(rest) : rest[k] = ops[k + 1] /\ k + 1 \in 1..Len(ops)
  BY <1>1
<1>3. \A k \in 1..Len(ops) : k # 1 => k - 1 \in 1..Len(rest) /\ rest[k - 1] = ops[k]
  BY <1>1
<1>4. Head(ops) = ops[1]
  BY <1>1
<1>5. CASE \E k \in 1..Len(ops) : ops[k].op = "return"
  BY <1>3, <1>4, <1>5 DEF Settles
<1>6. CASE Agrees(s, b) /\ \A k \in 1..Len(ops) : ~Moves(ops[k])
  <2>1. t = s
    BY <1>1, <1>4, <1>6 DEF Moves
  <2> QED
    BY <1>2, <1>6, <2>1 DEF Settles
<1>7. ASSUME NEW k \in 1..Len(ops), ops[k].op = "lifecycle", Agrees(ops[k].to, b),
             \A j \in k + 1 .. Len(ops) : ~Moves(ops[j])
      PROVE  Settles(t, rest, b)
  <2>1. CASE k = 1
    <3>1. Agrees(t, b)
      BY <1>4, <1>7, <2>1
    <3>2. \A j \in 1..Len(rest) : ~Moves(rest[j])
      BY <1>1, <1>2, <1>7, <2>1
    <3> QED
      BY <3>1, <3>2 DEF Settles
  <2>2. CASE k # 1
    <3>1. k - 1 \in 1..Len(rest) /\ rest[k - 1] = ops[k]
      BY <1>3, <2>2
    <3>2. \A j \in (k - 1) + 1 .. Len(rest) : ~Moves(rest[j])
      BY <1>1, <1>2, <1>7
    <3> QED
      BY <1>7, <3>1, <3>2, Zenon DEF Settles
  <2> QED
    BY <2>1, <2>2
<1>8. CASE \E k \in 1..Len(ops) : ops[k].op = "start_books"
  BY <1>3, <1>4, <1>8, Zenon DEF Settles
<1> QED
  BY <1>5, <1>6, <1>7, <1>8 DEF Settles

(* The lifecycle state that transitions lead to. *)
Target(s, first) == IF first = <<>> THEN s ELSE first[Len(first)].to

(* AndThen: what is legal where the transitions lead is legal after them. *)
LEMMA ConcatLegal ==
    ASSUME NEW s, NEW first \in Seq(LifecycleOps), LegalOps(s, first),
           NEW rest, LegalOps(Target(s, first), rest),
           \A k \in 1..Len(rest) : rest[k].op \notin {"capture", "start_books"}
    PROVE  LegalOps(s, first \o rest)
<1> DEFINE both == first \o rest
           m == Len(first)
<1>1. first \in Seq(Ops) /\ rest \in Seq(Ops) /\ both \in Seq(Ops)
  BY DEF LegalOps
<1>2. m \in Nat /\ Len(rest) \in Nat /\ Len(both) = m + Len(rest)
  BY <1>1
<1>3. \A k \in 1..m : both[k] = first[k] /\ first[k] \in LifecycleOps
  BY <1>1
<1>4. \A k \in 1..Len(rest) : both[m + k] = rest[k]
  BY <1>1
<1>5. m = 0 <=> first = <<>>
  BY <1>1
<1> HIDE DEF both, m
<1>6. ASSUME NEW k \in 1..Len(both) PROVE LegalAt(s, both, k)
  <2>1. CASE k <= m
    <3>1. k \in 1..m /\ LegalAt(s, first, k)
      BY <1>2, <2>1 DEF LegalOps, m
    <3>2. both[k] = first[k] /\ both[k].op = "lifecycle"
      BY <1>3, <3>1 DEF LifecycleOps
    <3>3. k # 1 => both[k - 1] = first[k - 1]
      BY <1>2, <1>3, <3>1
    <3>4. Before(s, both, k) = Before(s, first, k)
      BY <3>3 DEF Before
    <3> QED
      BY <3>1, <3>2, <3>4 DEF LegalAt
  <2>2. CASE k > m
    <3>1. PICK j \in 1..Len(rest) : k = m + j
      <4>1. k - m \in 1..Len(rest) /\ k = m + (k - m)
        BY <1>2, <2>2
      <4> QED
        BY <4>1
    <3>2. LegalAt(Target(s, first), rest, j)
      BY <3>1 DEF LegalOps
    <3>3. both[k] = rest[j] /\ rest[j].op \notin {"capture", "start_books"}
      BY <1>4, <3>1
    <3>4. j = Len(rest) => k = Len(both)
      BY <1>2, <3>1
    <3>5. Before(s, both, k) = Before(Target(s, first), rest, j)
      <4>1. CASE j # 1
        <5>1. j - 1 \in 1..Len(rest) /\ k - 1 = m + (j - 1) /\ k # 1
          BY <1>2, <3>1, <4>1
        <5>2. both[k - 1] = rest[j - 1]
          BY <1>4, <5>1
        <5> QED
          BY <4>1, <5>1, <5>2 DEF Before
      <4>2. CASE j = 1 /\ m = 0
        BY <1>2, <1>5, <3>1, <4>2 DEF Before, Target
      <4>3. CASE j = 1 /\ m # 0
        <5>1. k - 1 = m /\ m \in 1..m /\ k # 1
          BY <1>2, <3>1, <4>3
        <5>2. both[k - 1] = first[m] /\ first[m].op = "lifecycle"
          BY <1>3, <5>1 DEF LifecycleOps
        <5>3. Target(s, first) = first[m].to
          BY <1>5, <4>3 DEF Target, m
        <5> QED
          BY <4>3, <5>1, <5>2, <5>3 DEF Before
      <4> QED
        BY <4>1, <4>2, <4>3
    <3> QED
      BY <3>2, <3>3, <3>4, <3>5 DEF LegalAt
  <2> QED
    BY <1>2, <2>1, <2>2
<1> QED
  BY <1>1, <1>6 DEF LegalOps, both

(* AndThen: transitions do not change where the handler settles. *)
LEMMA ConcatSettles ==
    ASSUME NEW s, NEW first \in Seq(LifecycleOps), NEW rest \in Seq(Ops), NEW b,
           \/ \E k \in 1..Len(rest) : rest[k].op = "return"
           \/ Agrees(Target(s, first), b) /\ \A k \in 1..Len(rest) : ~Moves(rest[k])
    PROVE  Settles(s, first \o rest, b)
<1> DEFINE both == first \o rest
           m == Len(first)
<1>2. m \in Nat /\ Len(rest) \in Nat /\ Len(both) = m + Len(rest)
  OBVIOUS
<1>3. \A k \in 1..m : both[k] = first[k] /\ first[k] \in LifecycleOps
  OBVIOUS
<1>4. \A k \in 1..Len(rest) : both[m + k] = rest[k]
  OBVIOUS
<1>5. m = 0 <=> first = <<>>
  OBVIOUS
<1> HIDE DEF both, m
<1>6. CASE \E k \in 1..Len(rest) : rest[k].op = "return"
  <2>1. PICK k \in 1..Len(rest) : rest[k].op = "return"
    BY <1>6
  <2>2. m + k \in 1..Len(both) /\ both[m + k].op = "return"
    BY <1>2, <1>4, <2>1
  <2> QED
    BY <2>2 DEF Settles, both
<1>7. CASE Agrees(Target(s, first), b) /\ \A k \in 1..Len(rest) : ~Moves(rest[k])
  <2>1. \A k \in m + 1 .. Len(both) : ~Moves(both[k])
    <3> SUFFICES ASSUME NEW k \in m + 1 .. Len(both) PROVE ~Moves(both[k])
      OBVIOUS
    <3>1. k - m \in 1..Len(rest) /\ k = m + (k - m)
      BY <1>2
    <3> QED
      BY <1>4, <1>7, <3>1
  <2>2. CASE m = 0
    BY <1>5, <1>7, <2>1, <2>2 DEF Settles, Target, both
  <2>3. CASE m # 0
    <3>1. m \in 1..Len(both) /\ both[m] = first[m] /\ both[m].op = "lifecycle"
      BY <1>2, <1>3, <2>3 DEF LifecycleOps
    <3>2. Agrees(both[m].to, b)
      BY <1>5, <1>7, <2>3, <3>1 DEF Target, m
    <3> QED
      BY <2>1, <3>1, <3>2 DEF Settles, both
  <2> QED
    BY <2>2, <2>3
<1> QED
  BY <1>6, <1>7

Returns(ops) == \E k \in 1..Len(ops) : ops[k].op = "return"

(* Neither looks at a record nor publishes one. *)
Quiet(ops) == \A k \in 1..Len(ops) : ops[k].op \in {"lifecycle", "return"}

(* The ways out of the loop are legal from wherever a session may be in it. *)
LEMMA WaysOut ==
    ASSUME NEW s \in LoopStates \cup {"Degraded"},
           NEW ops \in {BackOff("RecoverableDisconnect"), schema_termination}
    PROVE  LegalOps(s, ops) /\ Quiet(ops) /\ Returns(ops)
<1>1. PICK to \in {"BackingOff", "Quarantined"},
           cause \in {"RecoverableDisconnect", "SchemaViolation"},
           r \in {"RecoverableDisconnect", "Quarantined"} :
             /\ ops = <<Lifecycle(to, cause), Return(r)>>
             /\ valid_transition(s, to) /\ valid_cause(s, to, cause)
  <2>1. /\ valid_transition(s, "BackingOff") /\ valid_cause(s, "BackingOff", "RecoverableDisconnect")
        /\ valid_transition(s, "Quarantined") /\ valid_cause(s, "Quarantined", "SchemaViolation")
    BY DEF LoopStates, valid_transition, valid_cause
  <2> QED
    BY <2>1 DEF BackOff, schema_termination
<1>2. Lifecycle(to, cause) \in LifecycleOps /\ Return(r) \in ReturnOps
  BY DEF Lifecycle, Return, LifecycleOps, ReturnOps, Causes, ConnectorStates
<1>3. ops \in Seq(Ops) /\ Len(ops) = 2 /\ ops[1] = Lifecycle(to, cause) /\ ops[2] = Return(r)
  BY <1>1, <1>2 DEF Ops
<1>4. LegalAt(s, ops, 1)
  BY <1>1, <1>3 DEF LegalAt, Before, Lifecycle
<1>5. LegalAt(s, ops, 2)
  BY <1>3 DEF LegalAt, Return
<1>6. 1..Len(ops) = {1, 2}
  BY <1>3
<1> QED
  BY <1>3, <1>4, <1>5, <1>6 DEF LegalOps, Quiet, Returns, Lifecycle, Return

(* One or two transitions. *)
LEMMA OneTransition ==
    ASSUME NEW s, NEW to \in ConnectorStates, NEW cause \in Causes,
           valid_transition(s, to), valid_cause(s, to, cause),
           NEW ops, ops = <<Lifecycle(to, cause)>>
    PROVE  ops \in Seq(LifecycleOps) /\ LegalOps(s, ops) /\ Target(s, ops) = to
<1>1. Lifecycle(to, cause) \in LifecycleOps
  BY DEF Lifecycle, LifecycleOps
<1>2. ops \in Seq(LifecycleOps) /\ ops \in Seq(Ops) /\ Len(ops) = 1 /\ ops[1] = Lifecycle(to, cause)
  BY <1>1 DEF Ops
<1>3. LegalAt(s, ops, 1)
  BY <1>2 DEF LegalAt, Before, Lifecycle
<1>4. Target(s, ops) = to
  BY <1>2 DEF Target, Lifecycle
<1> QED
  BY <1>2, <1>3, <1>4 DEF LegalOps

(* An operation that is legal in state s. *)
LegalMove(s, o) == o \in LifecycleOps /\ valid_transition(s, o.to) /\ valid_cause(s, o.to, o.cause)

LEMMA TwoTransitions ==
    ASSUME NEW s, NEW a, NEW b, LegalMove(s, a), LegalMove(a.to, b),
           NEW ops, ops = <<a, b>> \/ ops = <<a>> \o <<b>>
    PROVE  ops \in Seq(LifecycleOps) /\ LegalOps(s, ops) /\ Target(s, ops) = b.to
<1>1. ops \in Seq(LifecycleOps) /\ Len(ops) = 2 /\ ops[1] = a /\ ops[2] = b
  <2>1. a \in LifecycleOps /\ b \in LifecycleOps
    BY DEF LegalMove
  <2>2. <<a>> \in Seq(LifecycleOps) /\ <<b>> \in Seq(LifecycleOps)
    BY <2>1
  <2>3. CASE ops = <<a, b>>
    BY <2>1, <2>3
  <2>4. CASE ops = <<a>> \o <<b>>
    BY <2>2, <2>4
  <2> QED
    BY <2>3, <2>4
<1>2. ops \in Seq(Ops) /\ ops # <<>>
  BY <1>1 DEF Ops
<1>3. a.op = "lifecycle" /\ b.op = "lifecycle"
  BY DEF LegalMove, LifecycleOps
<1>4. LegalAt(s, ops, 1)
  BY <1>1, <1>3 DEF LegalAt, Before, LegalMove
<1>5. Before(s, ops, 2) = a.to
  BY <1>1, <1>3 DEF Before
<1>6. LegalAt(s, ops, 2)
  BY <1>1, <1>3, <1>5 DEF LegalAt, LegalMove
<1>7. \A k \in 1..Len(ops) : k = 1 \/ k = 2
  BY <1>1
<1>8. Target(s, ops) = b.to
  BY <1>1, <1>2, Zenon DEF Target
<1> QED
  BY <1>1, <1>2, <1>4, <1>6, <1>7, <1>8 DEF LegalOps

LEMMA NothingLegal ==
    ASSUME NEW s, NEW ops, ops = <<>>
    PROVE  ops \in Seq(LifecycleOps) /\ LegalOps(s, ops) /\ Target(s, ops) = s
<1>1. ops \in Seq(LifecycleOps) /\ ops \in Seq(Ops) /\ Len(ops) = 0
  OBVIOUS
<1> QED
  BY <1>1 DEF LegalOps, Target

LEMMA ReturnLegal ==
    ASSUME NEW s, NEW r \in {"RecoverableDisconnect", "Quarantined", "Fatal"},
           NEW ops, ops = <<Return(r)>>
    PROVE  LegalOps(s, ops) /\ Quiet(ops) /\ Returns(ops)
<1>1. Return(r) \in Ops /\ Return(r).op = "return"
  BY DEF Ops, ReturnOps, Return
<1>2. ops \in Seq(Ops) /\ Len(ops) = 1 /\ ops[1].op = "return"
  BY <1>1
<1>3. \A k \in 1..Len(ops) : k = 1
  BY <1>2
<1> QED
  BY <1>2, <1>3 DEF LegalOps, LegalAt, Quiet, Returns

(* A gap leads to Recovering. *)
LEMMA OnGapLegal ==
    ASSUME lifecycle \in LoopStates, NEW ops, ops = OnGap
    PROVE  ops \in Seq(LifecycleOps) /\ LegalOps(lifecycle, ops) /\ Target(lifecycle, ops) = "Recovering"
<1>1. CASE lifecycle = "Healthy"
  <2> DEFINE a == Lifecycle("Degraded", "SourceStale")
             b == Lifecycle("Recovering", "SequenceGap")
  <2>1. ops = <<a, b>>
    BY <1>1 DEF OnGap
  <2>2. LegalMove(lifecycle, a)
    BY <1>1 DEF LegalMove, valid_transition, valid_cause, Lifecycle, LifecycleOps, ConnectorStates, Causes
  <2>3. LegalMove(a.to, b) /\ b.to = "Recovering"
    BY DEF LegalMove, valid_transition, valid_cause, Lifecycle, LifecycleOps, ConnectorStates, Causes
  <2> HIDE DEF a, b
  <2> QED
    BY <2>1, <2>2, <2>3, TwoTransitions, Zenon
<1>2. CASE lifecycle = "Synchronizing"
  <2>1. ops = <<Lifecycle("Recovering", "SequenceGap")>>
    BY <1>2 DEF OnGap
  <2> QED
    BY <1>2, <2>1, OneTransition DEF valid_transition, valid_cause, ConnectorStates, Causes
<1>3. CASE lifecycle = "Recovering"
  <2>1. ops = <<>>
    BY <1>3 DEF OnGap
  <2> QED
    BY <1>3, <2>1, NothingLegal
<1> QED
  BY <1>1, <1>2, <1>3 DEF LoopStates

(* The last book to be synchronized leads to Healthy. *)
LEMMA OnAppliedLegal ==
    ASSUME lifecycle \in LoopStates, NEW after, NEW ops, ops = OnAppliedAnyBook(after)
    PROVE  ops \in Seq(LifecycleOps) /\ LegalOps(lifecycle, ops) /\ Target(lifecycle, ops) = "Healthy"
<1>1. CASE lifecycle = "Recovering"
  <2> DEFINE a == Lifecycle("Synchronizing", "ResynchronizationStarted")
             b == Lifecycle("Healthy", "SnapshotApplied")
  <2>1. ops = <<a>> \o <<b>>
    BY <1>1 DEF OnAppliedAnyBook
  <2>2. LegalMove(lifecycle, a)
    BY <1>1 DEF LegalMove, valid_transition, valid_cause, Lifecycle, LifecycleOps, ConnectorStates, Causes
  <2>3. LegalMove(a.to, b) /\ b.to = "Healthy"
    BY DEF LegalMove, valid_transition, valid_cause, Lifecycle, LifecycleOps, ConnectorStates, Causes
  <2> HIDE DEF a, b
  <2> QED
    BY <2>1, <2>2, <2>3, TwoTransitions, Zenon
<1>2. CASE lifecycle = "Synchronizing"
  <2>1. ops = <<Lifecycle("Healthy", "SnapshotApplied")>>
    BY <1>2 DEF OnAppliedAnyBook
  <2> QED
    BY <1>2, <2>1, OneTransition DEF valid_transition, valid_cause, ConnectorStates, Causes
<1>3. CASE lifecycle = "Healthy"
  <2>1. ops = <<>>
    BY <1>3 DEF OnAppliedAnyBook
  <2> QED
    BY <1>3, <2>1, NothingLegal
<1> QED
  BY <1>1, <1>2, <1>3 DEF LoopStates

(* apply_book_output, apply_book_message: the transitions after a book's result
   are legal and agree with the books, unless they return. *)
LEMMA AfterResultLegal ==
    ASSUME venue \in {"binance", "bybit"}, books \in [Instruments -> BookStates(venue)],
           Agrees(lifecycle, AllSynchronized(books)),
           NEW i \in Instruments, NEW step \in Status!MessageSteps(venue, books[i]),
           NEW after, after = [books EXCEPT ![i] = step.to],
           NEW ops, ops = AfterResult(step, after)
    PROVE  /\ LegalOps(lifecycle, ops)
           /\ \/ Quiet(ops) /\ Returns(ops)
              \/ ops \in Seq(LifecycleOps) /\ Agrees(Target(lifecycle, ops), AllSynchronized(after))
<1>1. /\ step.result \in Results /\ step.to \in BookStates(venue)
      /\ step.result = "Applied" => step.to = "Synchronized"
      /\ step.result \in {"GapDetected", "ChecksumMismatch"} => step.to # "Synchronized"
      /\ step.result \in {"Duplicate", "SnapshotRequired"} => step.to = books[i]
  BY StepResult
<1>2. /\ after[i] = step.to
      /\ \A j \in Instruments : j # i => after[j] = books[j]
  OBVIOUS
<1>3. lifecycle \in LoopStates /\ lifecycle \in LoopStates \cup {"Degraded"}
  BY DEF Agrees
<1>4. CASE step.result \in {"GapDetected", "ChecksumMismatch"}
  <2>1. ops = OnGap
    BY <1>4 DEF AfterResult
  <2>2. ~AllSynchronized(after)
    BY <1>1, <1>2, <1>4 DEF AllSynchronized
  <2>3. ops \in Seq(LifecycleOps) /\ LegalOps(lifecycle, ops) /\ Target(lifecycle, ops) = "Recovering"
    BY <1>3, <2>1, OnGapLegal
  <2> QED
    BY <2>2, <2>3 DEF Agrees, LoopStates
<1>5. CASE step.result = "Applied" /\ AllSynchronized(after)
  <2>1. ops = OnAppliedAnyBook(after)
    BY <1>5 DEF AfterResult, OnApplied, AllSynchronized
  <2>2. ops \in Seq(LifecycleOps) /\ LegalOps(lifecycle, ops) /\ Target(lifecycle, ops) = "Healthy"
    BY <1>3, <2>1, OnAppliedLegal
  <2> QED
    BY <1>5, <2>2 DEF Agrees, LoopStates
<1>6. CASE \/ step.result \in {"Duplicate", "SnapshotRequired"}
           \/ step.result = "Applied" /\ ~AllSynchronized(after)
  <2>1. ops = <<>>
    BY <1>6 DEF AfterResult, OnApplied, AllSynchronized
  <2>2. AllSynchronized(after) <=> AllSynchronized(books)
    BY <1>1, <1>2, <1>6 DEF AllSynchronized
  <2>3. ops \in Seq(LifecycleOps) /\ LegalOps(lifecycle, ops) /\ Target(lifecycle, ops) = lifecycle
    BY <2>1, NothingLegal
  <2> QED
    BY <2>2, <2>3 DEF Agrees
<1>7. CASE step.result = "CrossSequenceRegression"
  <2>1. ops = BackOff("RecoverableDisconnect")
    BY <1>7 DEF AfterResult
  <2> QED
    BY <1>3, <2>1, WaysOut
<1>8. CASE step.result = "Refused"
  <2>1. ops = <<Return("Quarantined")>>
    BY <1>8 DEF AfterResult
  <2> QED
    BY <2>1, ReturnLegal
<1> QED
  BY <1>1, <1>4, <1>5, <1>6, <1>7, <1>8 DEF Results

(* Only what the loop and the start-up put into a handler. *)
Opening(ops) == \E k \in 1..Len(ops) : ops[k].op \in {"capture", "start_books"}
AllPublishable(ops) == \A k \in 1..Len(ops) : Publishable(ops[k])

(* A publication is the last operation of its handler. *)
LEMMA PublishLegal ==
    ASSUME received \in Nat, received \in durable,
           NEW message, message.kind \in Kinds, NEW r \in Results,
           venue = "bybit" /\ message.kind = "book" => r = "Applied",
           NEW ops, ops = <<PublishNormalized(message, r)>>, NEW s
    PROVE  /\ LegalOps(s, ops) /\ ~Opening(ops) /\ AllPublishable(ops)
           /\ \A k \in 1..Len(ops) : ~Moves(ops[k])
<1> DEFINE o == PublishNormalized(message, r)
<1>1. o \in PublishOps /\ o.op = "publish" /\ Publishable(o)
  BY DEF PublishNormalized, PublishOps, Publishable
<1> HIDE DEF o
<1>2. ops \in Seq(Ops) /\ Len(ops) = 1 /\ ops[1] = o
  <2>1. ops = <<o>> /\ o \in Ops
    BY <1>1 DEF o, Ops
  <2> QED
    BY <2>1
<1>3. \A k \in 1..Len(ops) : ops[k] = o /\ k = Len(ops)
  BY <1>2
<1> QED
  BY <1>1, <1>2, <1>3 DEF LegalOps, LegalAt, Opening, AllPublishable, Moves

LEMMA QuietOps ==
    ASSUME NEW ops, Quiet(ops)
    PROVE  ~Opening(ops) /\ AllPublishable(ops)
  BY DEF Quiet, Opening, AllPublishable, Publishable

LEMMA LifecycleAt ==
    ASSUME NEW ops \in Seq(LifecycleOps), NEW k \in 1..Len(ops)
    PROVE  ops[k].op = "lifecycle"
<1>1. ops[k] \in LifecycleOps
  OBVIOUS
<1> QED
  BY <1>1 DEF LifecycleOps

(* AndThen after a book's result, for a rest that is legal wherever a session may be. *)
LEMMA AndThenLegal ==
    ASSUME NEW first, LegalOps(lifecycle, first), NEW b,
           \/ Quiet(first) /\ Returns(first)
           \/ first \in Seq(LifecycleOps) /\ Agrees(Target(lifecycle, first), b),
           NEW rest, ~Opening(rest), AllPublishable(rest),
           \A s \in LoopStates : LegalOps(s, rest),
           Returns(rest) \/ \A k \in 1..Len(rest) : ~Moves(rest[k]),
           NEW ops, ops = AndThen(first, rest)
    PROVE  LegalOps(lifecycle, ops) /\ Settles(lifecycle, ops, b) /\ ~Opening(ops) /\ AllPublishable(ops)
<1>1. first \in Seq(Ops)
  BY DEF LegalOps
<1>2. DOMAIN first = 1..Len(first)
  BY <1>1
<1>3. CASE Quiet(first) /\ Returns(first)
  <2>1. ops = first
    BY <1>2, <1>3, Zenon DEF AndThen, Returns
  <2>2. Settles(lifecycle, ops, b)
    BY <1>3, <2>1 DEF Settles, Returns
  <2> QED
    BY <1>3, <2>1, <2>2, QuietOps, SMTT(30)
<1>4. CASE first \in Seq(LifecycleOps) /\ Agrees(Target(lifecycle, first), b)
  <2>1. ops = first \o rest
    <3>1. \A k \in 1..Len(first) : first[k].op = "lifecycle"
      BY <1>4, LifecycleAt
    <3> QED
      BY <1>2, <3>1, Zenon DEF AndThen
  <2>2. LegalOps(Target(lifecycle, first), rest) /\ rest \in Seq(Ops)
    BY <1>4 DEF Agrees, LegalOps
  <2>3. LegalOps(lifecycle, ops)
    BY <1>4, <2>1, <2>2, ConcatLegal, SMTT(30) DEF Opening
  <2>4. Settles(lifecycle, ops, b)
    BY <1>4, <2>1, <2>2, ConcatSettles, SMTT(30) DEF Returns
  <2>5. ASSUME NEW k \in 1..Len(ops)
        PROVE  ops[k].op \notin {"capture", "start_books"} /\ Publishable(ops[k])
    <3>1. Len(first) \in Nat /\ Len(rest) \in Nat /\ Len(ops) = Len(first) + Len(rest)
      BY <1>1, <2>1, <2>2
    <3>2. CASE k <= Len(first)
      <4>1. k \in 1..Len(first) /\ ops[k] = first[k]
        BY <1>1, <2>1, <2>2, <3>1, <3>2, SMTT(30)
      <4>2. first[k].op = "lifecycle"
        BY <1>4, <4>1, LifecycleAt
      <4> QED
        BY <4>1, <4>2 DEF Publishable
    <3>3. CASE k > Len(first)
      <4>1. k - Len(first) \in 1..Len(rest)
        BY <3>1, <3>3
      <4>2. ops[k] = rest[k - Len(first)]
        BY <1>1, <2>1, <2>2, <3>1, <3>3
      <4> QED
        BY <4>1, <4>2 DEF Opening, AllPublishable
    <3> QED
      BY <3>1, <3>2, <3>3
  <2> QED
    BY <2>3, <2>4, <2>5 DEF Opening, AllPublishable
<1> QED
  BY <1>3, <1>4

(* What follows a durable record: parsing, its book, the lifecycle, publication. *)
LEMMA AfterCaptureLegal ==
    ASSUME venue \in {"binance", "bybit"}, books \in [Instruments -> BookStates(venue)],
           Agrees(lifecycle, AllSynchronized(books)), received \in Nat, received \in durable,
           NEW message \in Messages,
           NEW step \in IF Applies(message) THEN Status!MessageSteps(venue, books[message.instrument])
                        ELSE {Status!Step("Duplicate", "none")},
           NEW after, after = IF Applies(message)
                              THEN [books EXCEPT ![message.instrument] = step.to] ELSE books,
           NEW ops, ops = AfterCapture(message, step, after)
    PROVE  /\ after \in [Instruments -> BookStates(venue)]
           /\ LegalOps(lifecycle, ops) /\ Settles(lifecycle, ops, AllSynchronized(after))
           /\ ~Opening(ops) /\ AllPublishable(ops)
<1> DEFINE first == AfterResult(step, after)
<1>1. /\ message.kind \in Kinds
      /\ message.kind \in {"book", "unnormalized"} => message.instrument \in Instruments
  BY DEF Messages, Kinds
<1>2. lifecycle \in LoopStates /\ lifecycle \in LoopStates \cup {"Degraded"}
  BY SMTT(30) DEF Agrees
<1>3. CASE Applies(message)
  <2>1. message.instrument \in Instruments
    BY <1>1, <1>3 DEF Applies
  <2>2. step \in Status!MessageSteps(venue, books[message.instrument])
    BY <1>3
  <2>3. after = [books EXCEPT ![message.instrument] = step.to]
    BY <1>3
  <2>4. books[message.instrument] \in BookStates(venue)
    BY <2>1
  <2>5. step.to \in BookStates(venue) /\ step.result \in Results
    BY <2>2, <2>4, StepResult
  <2>6. after \in [Instruments -> BookStates(venue)]
    BY <2>3, <2>5, Zenon
  <2>7. /\ LegalOps(lifecycle, first)
        /\ \/ Quiet(first) /\ Returns(first)
           \/ first \in Seq(LifecycleOps) /\ Agrees(Target(lifecycle, first), AllSynchronized(after))
    BY <2>1, <2>2, <2>3, AfterResultLegal, Zenon
  <2> HIDE DEF first
  <2>8. CASE message.kind = "unnormalized"
    <3>1. ops = AndThen(first, schema_termination)
      BY <1>3, <2>8 DEF AfterCapture, Applies, first
    <3>2. /\ \A s \in LoopStates : LegalOps(s, schema_termination)
          /\ Quiet(schema_termination) /\ Returns(schema_termination)
      BY <1>2, WaysOut
    <3>3. ~Opening(schema_termination) /\ AllPublishable(schema_termination)
      BY <3>2, QuietOps
    <3> QED
      BY <2>6, <2>7, <3>1, <3>2, <3>3, AndThenLegal, Zenon
  <2>9. CASE message.kind = "book"
    <3> DEFINE rest == PublishBook(message, step)
    <3>1. ops = AndThen(first, rest)
      BY <2>9 DEF AfterCapture, first
    <3>2. /\ \A s \in LoopStates : LegalOps(s, rest)
          /\ ~Opening(rest) /\ AllPublishable(rest)
          /\ \A k \in 1..Len(rest) : ~Moves(rest[k])
      <4>1. CASE venue = "bybit" /\ step.result # "Applied"
        <5>1. rest = <<>>
          BY <4>1 DEF PublishBook
        <5>2. Len(rest) = 0
          BY <5>1
        <5> QED
          BY <5>1, <5>2, NothingLegal DEF Opening, AllPublishable
      <4>2. CASE ~(venue = "bybit" /\ step.result # "Applied")
        <5>1. rest = <<PublishNormalized(message, step.result)>>
          BY <4>2 DEF PublishBook
        <5> QED
          BY <1>1, <2>5, <4>2, <5>1, PublishLegal
      <4> QED
        BY <4>1, <4>2
    <3> HIDE DEF rest
    <3> QED
      BY <2>6, <2>7, <3>1, <3>2, AndThenLegal
  <2> QED
    BY <1>3, <2>8, <2>9 DEF Applies
<1>4. CASE ~Applies(message)
  <2>1. after = books /\ step.result = "Duplicate" /\ message.kind # "book"
    BY <1>4, SMTT(30) DEF Status!Step, Applies
  <2>2. CASE message.kind \in {"unnormalized", "unparsable"}
    <3>1. ops = schema_termination
      BY <1>4, <2>2 DEF AfterCapture, Applies
    <3>2. LegalOps(lifecycle, ops) /\ Quiet(ops) /\ Returns(ops)
      BY <1>2, <3>1, WaysOut
    <3> QED
      BY <2>1, <3>2, QuietOps, Zenon DEF Settles, Returns
  <2>3. CASE message.kind \in {"other", "large"}
    <3>1. ops = <<PublishNormalized(message, step.result)>>
      BY <2>3 DEF AfterCapture
    <3>2. /\ LegalOps(lifecycle, ops) /\ ~Opening(ops) /\ AllPublishable(ops)
          /\ \A k \in 1..Len(ops) : ~Moves(ops[k])
      BY <1>1, <2>1, <3>1, PublishLegal, Zenon DEF Results
    <3> QED
      BY <2>1, <3>2, Zenon DEF Settles
  <2> QED
    BY <1>1, <2>1, <2>2, <2>3, SMTT(30) DEF Kinds
<1> QED
  BY <1>3, <1>4

-----------------------------------------------------------------------------
(* The first handler: run_session up to its loop. *)
LEMMA StartupLegal ==
    ASSUME NEW synchronized
    PROVE  /\ LegalOps("Stopped", Startup) /\ Settles("Stopped", Startup, synchronized)
           /\ \A k \in 1..Len(Startup) : Startup[k].op \in {"lifecycle", "start_books"}
<1> DEFINE a == Lifecycle("Connecting", "Startup")
           b == Lifecycle("AuthenticatingOrSubscribing", "SubscriptionAccepted")
           c == Lifecycle("Synchronizing", "SubscriptionAccepted")
           d == Lifecycle("Healthy", "SynchronizationNotRequired")
           four == <<a, b, c, StartBooks>>
           m == IF Instruments = {} THEN 5 ELSE 4
<1>1. /\ LegalMove("Stopped", a) /\ LegalMove("Connecting", b)
      /\ LegalMove("AuthenticatingOrSubscribing", c) /\ LegalMove("Synchronizing", d)
  BY DEF LegalMove, LifecycleOps, Lifecycle, valid_transition, valid_cause, ConnectorStates, Causes
<1>2. /\ a.to = "Connecting" /\ b.to = "AuthenticatingOrSubscribing" /\ c.to = "Synchronizing"
      /\ d.to = "Healthy" /\ StartBooks.op = "start_books"
      /\ a.op = "lifecycle" /\ b.op = "lifecycle" /\ c.op = "lifecycle" /\ d.op = "lifecycle"
  BY DEF Lifecycle, StartBooks
<1>3. {a, b, c, d, StartBooks} \subseteq Ops
  BY <1>1 DEF Ops, LegalMove
<1>4. Startup = four \o (IF Instruments = {} THEN <<d>> ELSE <<>>)
  BY DEF Startup
<1> HIDE DEF a, b, c, d
<1>5. four \in Seq(Ops) /\ Len(four) = 4
  BY <1>3
<1>6. <<d>> \in Seq(Ops) /\ Len(<<d>>) = 1 /\ <<>> \in Seq(Ops) /\ Len(<<>>) = 0
  BY <1>3
<1>7. Startup \in Seq(Ops) /\ Len(Startup) = m
  BY <1>4, <1>5, <1>6
<1>8. /\ Startup[1] = a /\ Startup[2] = b /\ Startup[3] = c /\ Startup[4] = StartBooks
      /\ Instruments = {} => Startup[5] = d
  <2>1. CASE Instruments = {}
    BY <1>4, <1>5, <1>6, <2>1
  <2>2. CASE Instruments # {}
    BY <1>4, <1>5, <1>6, <2>2
  <2> QED
    BY <2>1, <2>2
<1>9. /\ Before("Stopped", Startup, 1) = "Stopped" /\ Before("Stopped", Startup, 2) = "Connecting"
      /\ Before("Stopped", Startup, 3) = "AuthenticatingOrSubscribing"
      /\ Before("Stopped", Startup, 4) = "Synchronizing"
      /\ Before("Stopped", Startup, 5) = "Synchronizing"
  BY <1>2, <1>8 DEF Before
<1>10. \A k \in 1..Len(Startup) : k \in {1, 2, 3, 4} \/ (k = 5 /\ Instruments = {})
  BY <1>7
<1>11. LegalOps("Stopped", Startup)
  <2>1. \A k \in {1, 2, 3} : LegalAt("Stopped", Startup, k)
    BY <1>1, <1>2, <1>8, <1>9 DEF LegalAt, LegalMove
  <2>3. StartsLast(Startup, 4)
    BY <1>2, <1>7, <1>8 DEF StartsLast
  <2>4. LegalAt("Stopped", Startup, 4)
    BY <1>2, <1>8, <1>9, <2>3, SMTT(30) DEF LegalAt
  <2>2. Instruments = {} => LegalAt("Stopped", Startup, 5)
    BY <1>1, <1>2, <1>8, <1>9 DEF LegalAt, LegalMove
  <2> QED
    BY <1>7, <1>10, <2>1, <2>2, <2>4, SMTT(30) DEF LegalOps
<1>12. Settles("Stopped", Startup, synchronized)
  <2>1. 4 \in 1..Len(Startup) /\ Startup[4].op = "start_books"
    BY <1>2, <1>7, <1>8
  <2> QED
    BY <2>1 DEF Settles
<1>13. \A k \in 1..Len(Startup) : Startup[k].op \in {"lifecycle", "start_books"}
  BY <1>2, <1>8, <1>10
<1> QED
  BY <1>11, <1>12, <1>13

-----------------------------------------------------------------------------
(* How the steps keep HandlerInv. *)

(* EndWith: a session that has returned has no handler. *)
LEMMA EndKeeps ==
    ASSUME HandlerInv, NEW r, r # "running", EndWith(r), UNCHANGED <<venue, lifecycle, last_event>>,
           books' \in [Instruments -> BookStates(venue)]
    PROVE  HandlerInv'
<1>1. todo' = <<>> /\ ~Running'
  BY DEF EndWith, Running
<1>2. LegalOps(lifecycle', todo')
  BY <1>1, NothingLegal
<1> QED
  BY <1>1, <1>2, Zenon DEF HandlerInv

handlerVars == <<venue, books, lifecycle, last_event, todo, termination>>

LEMMA SameHandler == ASSUME HandlerInv, UNCHANGED handlerVars PROVE HandlerInv'
  BY Zenon DEF HandlerInv, handlerVars, Running

(* Renewal, heartbeat, a closed input: the session leaves its loop. *)
LEMMA LeaveKeeps ==
    ASSUME HandlerInv, NEW rest, Leave(rest), LegalOps(lifecycle, rest), Returns(rest)
    PROVE  HandlerInv'
<1>1. /\ todo' = rest /\ UNCHANGED <<venue, lifecycle, last_event>>
      /\ books' \in [Instruments -> BookStates(venue)]
  BY DEF Leave, outVars, Disconnected, BookStates
<1>2. Settles(lifecycle', todo', AllSynchronized(books'))
  BY <1>1 DEF Settles, Returns
<1> QED
  BY <1>1, <1>2 DEF HandlerInv

(* In the loop the lifecycle agrees with the books. *)
LEMMA LoopAgrees == ASSUME HandlerInv, InLoop PROVE Agrees(lifecycle, AllSynchronized(books))
<1>1. Settles(lifecycle, todo, AllSynchronized(books)) /\ Len(todo) = 0
  BY DEF HandlerInv, InLoop
<1>2. \A k \in 1..Len(todo) : FALSE
  BY <1>1
<1> QED
  BY <1>1, <1>2 DEF Settles

(* The heartbeat's transitions. *)
LEMMA StaleLegal ==
    ASSUME lifecycle \in LoopStates, NEW ops, ops = Stale("RecoverableDisconnect")
    PROVE  LegalOps(lifecycle, ops) /\ Quiet(ops) /\ Returns(ops)
<1> DEFINE first == IF lifecycle \in {"Healthy", "Synchronizing"}
                    THEN <<Lifecycle("Degraded", "SourceStale")>> ELSE <<>>
           rest == BackOff("RecoverableDisconnect")
<1>1. ops = first \o rest
  BY DEF Stale
<1>2. /\ first \in Seq(LifecycleOps) /\ LegalOps(lifecycle, first)
      /\ Target(lifecycle, first) \in LoopStates \cup {"Degraded"}
  <2>1. CASE lifecycle \in {"Healthy", "Synchronizing"}
    <3>1. first = <<Lifecycle("Degraded", "SourceStale")>>
      BY <2>1
    <3>2. valid_transition(lifecycle, "Degraded") /\ valid_cause(lifecycle, "Degraded", "SourceStale")
      BY <2>1 DEF valid_transition, valid_cause
    <3>3. "Degraded" \in ConnectorStates /\ "SourceStale" \in Causes
      BY DEF ConnectorStates, Causes
    <3> HIDE DEF first
    <3>4. first \in Seq(LifecycleOps) /\ LegalOps(lifecycle, first) /\ Target(lifecycle, first) = "Degraded"
      BY <3>1, <3>2, <3>3, OneTransition, Zenon
    <3> QED
      BY <3>4
  <2>2. CASE lifecycle \notin {"Healthy", "Synchronizing"}
    <3>1. first = <<>>
      BY <2>2
    <3> HIDE DEF first
    <3> QED
      BY <3>1, NothingLegal
  <2> QED
    BY <2>1, <2>2
<1> HIDE DEF first, rest
<1>3. LegalOps(Target(lifecycle, first), rest) /\ Quiet(rest) /\ Returns(rest)
  BY <1>2, WaysOut DEF rest
<1>4. LegalOps(lifecycle, ops)
  BY <1>1, <1>2, <1>3, ConcatLegal, Zenon DEF Quiet
<1>5. rest \in Seq(Ops) /\ first \in Seq(Ops)
  BY <1>2, <1>3 DEF LegalOps
<1>6. Len(first) \in Nat /\ Len(rest) \in Nat /\ Len(ops) = Len(first) + Len(rest)
  BY <1>1, <1>5
<1>7. \A k \in 1..Len(rest) : Len(first) + k \in 1..Len(ops) /\ ops[Len(first) + k] = rest[k]
  BY <1>1, <1>5, <1>6
<1>8. \A k \in 1..Len(first) : ops[k] = first[k]
  BY <1>1, <1>5, <1>6
<1>9. Returns(ops)
  BY <1>3, <1>7 DEF Returns
<1>10. ASSUME NEW k \in 1..Len(ops) PROVE ops[k].op \in {"lifecycle", "return"}
  <2>1. CASE k <= Len(first)
    BY <1>2, <1>6, <1>8, <2>1, LifecycleAt
  <2>2. CASE k > Len(first)
    <3>1. k - Len(first) \in 1..Len(rest) /\ k = Len(first) + (k - Len(first))
      BY <1>6, <2>2
    <3> QED
      BY <1>3, <1>7, <3>1, Zenon DEF Quiet
  <2> QED
    BY <1>6, <2>1, <2>2
<1> QED
  BY <1>4, <1>9, <1>10 DEF Quiet

(* The operations of the context before their work is polled. *)
LEMMA PollsKeep ==
    ASSUME SessionInv, PollEntry \/ PollInterrupt \/ PollCommands
    PROVE  HandlerInv'
<1>1. HandlerInv /\ UNCHANGED <<venue, lifecycle, last_event, books>>
  BY DEF SessionInv, PollEntry, PollInterrupt, PollCommands, sessionElse, outVars
<1>2. books' \in [Instruments -> BookStates(venue)]
  BY <1>1 DEF HandlerInv
<1>3. \/ UNCHANGED <<todo, termination>>
      \/ \E r \in Interrupts \cup {"Fatal", "SupervisorCommand", "SupervisorLost"} : EndWith(r)
  BY DEF SessionInv, CommandInv, PollEntry, PollInterrupt, PollCommands, Received, map_control_result
<1>4. CASE UNCHANGED <<todo, termination>>
  BY <1>1, <1>4, SameHandler, Zenon DEF handlerVars
<1>5. ASSUME NEW r \in Interrupts \cup {"Fatal", "SupervisorCommand", "SupervisorLost"}, EndWith(r)
      PROVE  HandlerInv'
  <2>1. r # "running"
    BY DEF Interrupts
  <2> QED
    BY <1>1, <1>2, <1>5, <2>1, EndKeeps
<1> QED
  BY <1>3, <1>4, <1>5

(* publish_lifecycle: the event and the state change together. *)
LEMMA WorkLifecycleKeeps ==
    ASSUME HandlerInv, Awaiting, WorkLifecycle, consumer' = consumer
    PROVE  HandlerInv'
<1>1. UNCHANGED <<venue, books>> /\ books' \in [Instruments -> BookStates(venue)]
  BY DEF HandlerInv, WorkLifecycle
<1>2. CASE EndWith("LocalOutputFailed") /\ UNCHANGED <<lifecycle, events, last_event>>
  BY <1>1, <1>2, EndKeeps
<1>3. CASE Pending /\ UNCHANGED <<lifecycle, events, last_event>>
  BY <1>1, <1>3, SameHandler, Zenon DEF handlerVars, Pending
<1>4. CASE SendEvent /\ lifecycle' = Op.to /\ Proceed
  <2>1. todo # <<>> /\ Running /\ Head(todo).op = "lifecycle"
    BY DEF Awaiting, WorkLifecycle, Op
  <2>2. LegalOps(lifecycle, todo) /\ Settles(lifecycle, todo, AllSynchronized(books))
    BY <2>1 DEF HandlerInv
  <2>3. todo' = Tail(todo) /\ lifecycle' = Head(todo).to /\ termination' = termination
    BY <1>4 DEF Proceed, Op
  <2>4. LegalOps(lifecycle', todo')
    BY <2>1, <2>2, <2>3, TailLegal, SMTT(30)
  <2>5. Settles(lifecycle', todo', AllSynchronized(books))
    BY <2>1, <2>2, <2>3, TailSettles
  <2>6. last_event'.to = lifecycle'
    BY <1>4 DEF SendEvent
  <2>7. lifecycle' \in ConnectorStates
    <3>1. todo \in Seq(Ops)
      BY <2>2 DEF LegalOps
    <3>2. Head(todo) \in Ops
      BY <2>1, <3>1
    <3> QED
      BY <2>1, <2>3, <3>2 DEF Ops, LifecycleOps, CaptureOps, PublishOps, ReturnOps, StartBooks
  <2>8. AllSynchronized(books') = AllSynchronized(books)
    BY <1>1
  <2> QED
    BY <1>1, <2>4, <2>5, <2>6, <2>7, <2>8 DEF HandlerInv
<1> QED
  BY <1>2, <1>3, <1>4, SMTT(30) DEF WorkLifecycle

(* publish_normalized. *)
LEMMA WorkPublishKeeps ==
    ASSUME HandlerInv, Awaiting, WorkPublish
    PROVE  HandlerInv'
<1>1. /\ UNCHANGED <<venue, books, lifecycle, last_event>>
      /\ books' \in [Instruments -> BookStates(venue)]
  BY DEF HandlerInv, WorkPublish, sessionElse
<1>2. \/ EndWith("CapacityRejected") \/ EndWith("LocalOutputFailed") \/ Pending \/ Proceed
  BY DEF WorkPublish
<1>3. CASE EndWith("CapacityRejected") \/ EndWith("LocalOutputFailed")
  BY <1>1, <1>3, EndKeeps
<1>4. CASE Pending
  BY <1>1, <1>4, SameHandler, Zenon DEF handlerVars, Pending
<1>5. CASE Proceed
  <2>1. todo # <<>> /\ Running /\ Head(todo).op = "publish"
    BY DEF Awaiting, WorkPublish, Op
  <2>2. LegalOps(lifecycle, todo) /\ Settles(lifecycle, todo, AllSynchronized(books))
    BY <2>1 DEF HandlerInv
  <2>3. todo' = Tail(todo) /\ termination' = termination
    BY <1>5 DEF Proceed
  <2>4. LegalOps(lifecycle, todo')
    BY <2>1, <2>2, <2>3, TailLegal
  <2>5. Settles(lifecycle, todo', AllSynchronized(books))
    BY <2>1, <2>2, <2>3, TailSettles
  <2> QED
    BY <1>1, <2>4, <2>5 DEF HandlerInv
<1> QED
  BY <1>2, <1>3, <1>4, <1>5

(* The record at the head of the handler; the session is as it was in its loop. *)
LEMMA CaptureAgrees ==
    ASSUME HandlerInv, Awaiting, Op.op = "capture"
    PROVE  Agrees(lifecycle, AllSynchronized(books))
<1>1. todo # <<>> /\ Running /\ todo \in Seq(Ops)
  BY DEF Awaiting, HandlerInv, LegalOps
<1>2. Len(todo) \in Nat \ {0} /\ Head(todo) = todo[1] /\ 1 \in 1..Len(todo)
  BY <1>1, SMTT(30)
<1>3. todo[1].op = "capture" /\ Len(todo) = 1
  BY <1>2 DEF HandlerInv, LegalOps, LegalAt, Op
<1>4. \A k \in 1..Len(todo) : k = 1
  BY <1>3
<1>5. Settles(lifecycle, todo, AllSynchronized(books))
  BY <1>1 DEF HandlerInv
<1> QED
  BY <1>3, <1>4, <1>5 DEF Settles

(* Handle: what HandlerInv and the publications need of it. *)
LEMMA HandleKeeps ==
    ASSUME SessionInv, Awaiting, Op.op = "capture", received \in durable, Handle,
           UNCHANGED <<venue, lifecycle, last_event>>
    PROVE  HandlerInv' /\ ~Opening(todo') /\ AllPublishable(todo')
<1> DEFINE Steps(m) == IF Applies(m) THEN Status!MessageSteps(venue, books[m.instrument])
                       ELSE {Status!Step("Duplicate", "none")}
           After(m, st) == IF Applies(m) THEN [books EXCEPT ![m.instrument] = st.to] ELSE books
<1>1. PICK message \in Messages : \E step \in Steps(message) :
           /\ books' = After(message, step) /\ UNCHANGED termination
           /\ todo' = AfterCapture(message, step, After(message, step))
  BY SMTT(30) DEF Handle
<1>6. PICK step \in Steps(message) :
           /\ books' = After(message, step) /\ UNCHANGED termination
           /\ todo' = AfterCapture(message, step, After(message, step))
  BY <1>1, Zenon
<1>2. Agrees(lifecycle, AllSynchronized(books))
  BY CaptureAgrees DEF SessionInv
<1>3. venue \in {"binance", "bybit"} /\ books \in [Instruments -> BookStates(venue)] /\ received \in Nat
  BY DEF SessionInv, HandlerInv, CaptureInv
<1>4. books' = After(message, step) /\ todo' = AfterCapture(message, step, books')
  BY <1>6
<1>5. /\ books' \in [Instruments -> BookStates(venue)]
      /\ LegalOps(lifecycle, todo') /\ Settles(lifecycle, todo', AllSynchronized(books'))
      /\ ~Opening(todo') /\ AllPublishable(todo')
  BY <1>2, <1>3, <1>4, AfterCaptureLegal, Zenon
<1> QED
  BY <1>5, Zenon DEF SessionInv, HandlerInv

(* capture_raw: only an acknowledged record is looked at, and it is durable. *)
LEMMA AcknowledgedIsDurable ==
    ASSUME SessionInv, Awaiting, Op.op = "capture", capture.n = Op.n, capture.receipt = "acknowledged"
    PROVE  received \in durable
<1>1. todo \in Seq(Ops) /\ todo # <<>>
  BY DEF SessionInv, HandlerInv, LegalOps, Awaiting
<1>2. 1 \in 1..Len(todo) /\ Op = todo[1]
  BY <1>1 DEF Op
<1>3. Op.n = received
  BY <1>2 DEF SessionInv, CaptureInv
<1> QED
  BY <1>3 DEF SessionInv, CaptureInv

LEMMA WorkCaptureKeeps ==
    ASSUME SessionInv, Awaiting, WorkCapture
    PROVE  HandlerInv'
<1>1. UNCHANGED <<venue, lifecycle, last_event>> /\ Op.op = "capture" /\ HandlerInv
  BY DEF WorkCapture, SessionInv
<1>2. books' = books => books' \in [Instruments -> BookStates(venue)]
  BY DEF SessionInv, HandlerInv
<1>3. CASE Handle /\ capture.n = Op.n /\ capture.receipt = "acknowledged"
  BY <1>1, <1>3, AcknowledgedIsDurable, HandleKeeps
<1>4. CASE Pending /\ UNCHANGED books
  BY <1>1, <1>4, SameHandler, Zenon DEF Pending, handlerVars
<1>5. ASSUME NEW r, r # "running", EndWith(r), UNCHANGED books PROVE HandlerInv'
  BY <1>1, <1>2, <1>5, EndKeeps
<1>6. \A r \in map_raw_capture_error(capture.receipt) \cup {"CapacityRejected"} : r # "running"
  BY DEF map_raw_capture_error
<1>7. \/ Handle /\ capture.n = Op.n /\ capture.receipt = "acknowledged"
      \/ Pending /\ UNCHANGED books
      \/ \E r \in map_raw_capture_error(capture.receipt) \cup {"CapacityRejected"} :
            EndWith(r) /\ UNCHANGED books
  BY DEF WorkCapture
<1> QED
  BY <1>3, <1>4, <1>5, <1>6, <1>7

(* What needs no await: the return, and the start of the books. *)
LEMMA RunOnKeeps ==
    ASSUME HandlerInv, RunOn
    PROVE  HandlerInv'
<1>1. /\ UNCHANGED <<venue, lifecycle, last_event>> /\ Running /\ todo # <<>>
      /\ LegalOps(lifecycle, todo) /\ Settles(lifecycle, todo, AllSynchronized(books)) /\ todo \in Seq(Ops)
  BY DEF RunOn, HandlerInv, LegalOps, outVars
<1>2. Head(todo) \in Ops /\ Head(todo) = todo[1] /\ Len(todo) \in Nat \ {0} /\ 1 \in 1..Len(todo)
  BY <1>1
<1>3. CASE Op.op = "return" /\ EndWith(Op.result) /\ UNCHANGED books
  <2>1. Op.result # "running"
    BY <1>2, <1>3 DEF Op, Ops, LifecycleOps, CaptureOps, PublishOps, ReturnOps, StartBooks
  <2>2. books' \in [Instruments -> BookStates(venue)]
    BY <1>3 DEF HandlerInv
  <2> QED
    BY <1>1, <1>3, <2>1, <2>2, EndKeeps
<1>4. CASE /\ Op.op = "start_books" /\ Proceed
           /\ books' = [i \in Instruments |-> Status!AwaitingFirst(venue)]
  <2> DEFINE rest == Tail(todo)
  <2>1. Head(todo).op = "start_books" /\ todo' = rest /\ termination' = termination
    BY <1>4 DEF Op, Proceed
  <2>2. LegalOps(lifecycle, rest)
    BY <1>1, <2>1, TailLegal
  <2>3. lifecycle = "Synchronizing"
    BY <1>1, <1>2, <2>1 DEF LegalOps, LegalAt, Before
  <2>4. books' \in [Instruments -> BookStates(venue)]
    BY <1>4 DEF Status!AwaitingFirst, BookStates
  <2>5. AllSynchronized(books') <=> Instruments = {}
    BY <1>4 DEF Status!AwaitingFirst, AllSynchronized
  <2>6. rest \in Seq(Ops) /\ Len(rest) = Len(todo) - 1 /\ \A k \in 1..Len(rest) : rest[k] = todo[k + 1]
    BY <1>1
  <2> HIDE DEF rest
  <2>7. Settles(lifecycle, rest, AllSynchronized(books'))
    <3>1. StartsLast(todo, 1)
      BY <1>1, <1>2, <2>1 DEF LegalOps, LegalAt
    <3>2. CASE Instruments = {}
      <4>1. Len(rest) = 1 /\ rest[1].op = "lifecycle" /\ rest[1].to = "Healthy"
        <5>1. Len(todo) = 1 + 1 /\ todo[1 + 1].op = "lifecycle" /\ todo[1 + 1].to = "Healthy"
          BY <3>1, <3>2 DEF StartsLast
        <5>2. Len(rest) = 1 /\ 1 \in 1..Len(rest)
          BY <2>6, <5>1
        <5>3. rest[1] = todo[1 + 1]
          BY <2>6, <5>2
        <5> QED
          BY <5>1, <5>2, <5>3
      <4>2. 1 \in 1..Len(rest) /\ \A j \in 1 + 1 .. Len(rest) : FALSE
        BY <4>1
      <4>3. Agrees(rest[1].to, AllSynchronized(books'))
        <5>1. AllSynchronized(books')
          BY <2>5, <3>2
        <5>2. rest[1].to \in LoopStates /\ rest[1].to = "Healthy"
          BY <4>1 DEF LoopStates
        <5> QED
          BY <5>1, <5>2, Zenon DEF Agrees
      <4> QED
        BY <4>1, <4>2, <4>3 DEF Settles
    <3>3. CASE Instruments # {}
      <4>1. Len(rest) = 0
        BY <2>6, <3>1, <3>3 DEF StartsLast
      <4>2. \A k \in 1..Len(rest) : FALSE
        BY <4>1
      <4>3. Agrees(lifecycle, AllSynchronized(books'))
        BY <2>3, <2>5, <3>3 DEF Agrees, LoopStates
      <4> QED
        BY <4>2, <4>3 DEF Settles
    <3> QED
      BY <3>2, <3>3
  <2> QED
    BY <1>1, <2>1, <2>2, <2>4, <2>7 DEF HandlerInv
<1> QED
  BY <1>3, <1>4 DEF RunOn

(* Every step of the session, its worker, its consumer and its supervisor keeps
   the lifecycle and the handler in order. *)
LEMMA HandlerStep == SessionInv /\ [Next]_vars => HandlerInv'
<1> SUFFICES ASSUME SessionInv, [Next]_vars PROVE HandlerInv'
  OBVIOUS
<1>1. HandlerInv
  BY DEF SessionInv
<1>2. CASE PollEntry \/ PollInterrupt \/ PollCommands
  BY <1>2, PollsKeep
<1>3. CASE PollWork
  BY <1>1, <1>3, WorkLifecycleKeeps, WorkPublishKeeps, WorkCaptureKeeps DEF PollWork
<1>4. CASE RunOn
  BY <1>1, <1>4, RunOnKeeps
<1>5. CASE NextCommand
  <2>1. Received # "running"
    BY DEF SessionInv, CommandInv, Interrupts, Received
  <2>2. UNCHANGED <<venue, lifecycle, last_event>> /\ books' \in [Instruments -> BookStates(venue)]
    BY <1>5 DEF NextCommand, outVars, Disconnected, BookStates
  <2> QED
    BY <1>1, <1>5, <2>1, <2>2, EndKeeps DEF NextCommand
<1>6. CASE Renewal \/ Heartbeat \/ RemoteClosed
  <2>1. PICK rest \in {BackOff("RecoverableDisconnect"), Stale("RecoverableDisconnect")} : Leave(rest)
    BY <1>6 DEF Renewal, Heartbeat, RemoteClosed
  <2>2. lifecycle \in LoopStates /\ lifecycle \in LoopStates \cup {"Degraded"}
    BY <1>1, <2>1, LoopAgrees DEF Leave, Agrees
  <2>3. LegalOps(lifecycle, rest) /\ Returns(rest)
    BY <2>2, WaysOut, StaleLegal
  <2> QED
    BY <1>1, <2>1, <2>3, LeaveKeeps
<1>7. CASE ReceiveRecord
  <2>1. UNCHANGED <<venue, books, lifecycle, last_event>> /\ books' \in [Instruments -> BookStates(venue)]
    BY <1>1, <1>7 DEF ReceiveRecord, outVars, HandlerInv
  <2>2. CASE EndWith("Fatal")
    BY <1>1, <2>1, <2>2, EndKeeps
  <2>3. ASSUME NEW fits \in BOOLEAN, todo' = <<CaptureRaw(received', fits)>>, termination' = termination
        PROVE  HandlerInv'
    <3> DEFINE o == CaptureRaw(received', fits)
    <3>1. o \in Ops /\ o.op = "capture"
      <4>1. received' \in Nat
        BY <1>7 DEF ReceiveRecord, SessionInv, CaptureInv
      <4> QED
        BY <4>1 DEF CaptureRaw, CaptureOps, Ops
    <3> HIDE DEF o
    <3>2. todo' \in Seq(Ops) /\ Len(todo') = 1 /\ todo'[1] = o
      BY <2>3, <3>1 DEF o
    <3>3. \A k \in 1..Len(todo') : todo'[k] = o
      BY <3>2
    <3>4. LegalOps(lifecycle, todo')
      BY <3>1, <3>2, <3>3 DEF LegalOps, LegalAt
    <3>5. Agrees(lifecycle, AllSynchronized(books))
      BY <1>1, <1>7, LoopAgrees, SMTT(30) DEF ReceiveRecord
    <3>6. Settles(lifecycle, todo', AllSynchronized(books))
      BY <3>1, <3>3, <3>5 DEF Settles, Moves
    <3> QED
      BY <1>1, <2>1, <3>4, <3>6 DEF HandlerInv
  <2> QED
    BY <1>7, <2>2, <2>3 DEF ReceiveRecord
<1>8. CASE \/ WorkerAcknowledge \/ WorkerDrop \/ WorkerReject \/ TakeOutput \/ TakeEvent
           \/ Cancel \/ DropSupervisor \/ CloseInput \/ CloseConsumer \/ UNCHANGED vars
           \/ \E id \in 1..MaxCommandId :
                 \/ SendCommand(id)
                 \/ \E kind \in {"RequestedShutdown", "SupervisorQuarantine"} : SendTerminal(kind, id)
  <2>1. UNCHANGED handlerVars
    BY <1>8, Zenon DEF WorkerAcknowledge, WorkerDrop, WorkerReject, TakeOutput, TakeEvent, Cancel,
       DropSupervisor, CloseInput, CloseConsumer, SendCommand, SendTerminal, Accept, vars,
       sessionVars, controlVars, outVars, handlerVars
  <2> QED
    BY <1>1, <2>1, SameHandler
<1> QED
  BY <1>2, <1>3, <1>4, <1>5, <1>6, <1>7, <1>8, Zenon DEF Next, Session, Environment, Input

-----------------------------------------------------------------------------
(* How the steps keep CaptureInv. *)

captureVars == <<venue, todo, received, capture, durable, outputs>>

LEMMA SameCapture == ASSUME CaptureInv, UNCHANGED captureVars PROVE CaptureInv'
  BY Zenon DEF CaptureInv, captureVars, Publishable, DurableBeforePublished, PublishedWasApplied

(* The part of CaptureInv that is about the handler. *)
HandlerCaptures(ops) ==
    AllPublishable(ops) /\ \A k \in 1..Len(ops) : ops[k].op = "capture" => ops[k].n = received

(* A handler that is left, or goes on with its rest, or that looks at no record. *)
LEMMA HandlerCapturesKept ==
    ASSUME SessionInv,
           \/ todo' = <<>>
           \/ todo # <<>> /\ todo' = Tail(todo)
           \/ todo' = todo
           \/ ~Opening(todo') /\ AllPublishable(todo')
    PROVE  HandlerCaptures(todo')
<1>1. HandlerCaptures(todo) /\ todo \in Seq(Ops)
  BY DEF SessionInv, CaptureInv, HandlerCaptures, AllPublishable, HandlerInv, LegalOps
<1>2. CASE todo' = <<>>
  <2>1. \A k \in 1..Len(todo') : FALSE
    BY <1>2
  <2> QED
    BY <2>1 DEF HandlerCaptures, AllPublishable
<1>3. CASE todo # <<>> /\ todo' = Tail(todo)
  <2>1. \A k \in 1..Len(todo') : k + 1 \in 1..Len(todo) /\ todo'[k] = todo[k + 1]
    BY <1>1, <1>3
  <2> QED
    BY <1>1, <2>1, Zenon DEF HandlerCaptures, AllPublishable
<1>4. CASE todo' = todo
  BY <1>1, <1>4
<1>5. CASE ~Opening(todo') /\ AllPublishable(todo')
  BY <1>5 DEF Opening, HandlerCaptures
<1> QED
  BY <1>2, <1>3, <1>4, <1>5, SMTT(30)

(* Steps that change only the handler. *)
LEMMA HandlerOnly ==
    ASSUME SessionInv, UNCHANGED <<venue, received, capture, durable, outputs>>, HandlerCaptures(todo')
    PROVE  CaptureInv'
<1>1. (\A k \in 1..Len(todo) : Publishable(todo[k]))'
  BY DEF HandlerCaptures, AllPublishable, Publishable
<1>2. (\A k \in 1..Len(todo) : todo[k].op = "capture" => todo[k].n = received)'
  BY DEF HandlerCaptures
<1>3. /\ DurableBeforePublished' /\ PublishedWasApplied'
      /\ outputs' \in Seq([n: Nat, kind: Kinds, result: Results]) /\ received' \in Nat
      /\ capture' \in [n: Nat, receipt: {"none", "waiting", "acknowledged", "rejected", "lost"}]
      /\ capture'.receipt = "acknowledged" => capture'.n \in durable'
  BY Zenon DEF SessionInv, CaptureInv, DurableBeforePublished, PublishedWasApplied
<1> QED
  BY <1>1, <1>2, <1>3, Zenon DEF CaptureInv

(* publish_normalized: a queued output is one of the publications of the handler. *)
LEMMA PublishedCaptures ==
    ASSUME SessionInv, Awaiting, WorkPublish, UNCHANGED durable
    PROVE  CaptureInv'
<1>1. /\ UNCHANGED <<venue, received, capture, durable>> /\ todo \in Seq(Ops) /\ todo # <<>>
      /\ Op.op = "publish" /\ CaptureInv
  BY DEF WorkPublish, sessionElse, SessionInv, HandlerInv, LegalOps, Awaiting
<1>2. todo' = <<>> \/ todo' = Tail(todo) \/ todo' = todo
  BY DEF WorkPublish, EndWith, Pending, Proceed
<1>3. HandlerCaptures(todo')
  BY <1>1, <1>2, HandlerCapturesKept
<1>4. CASE outputs' = outputs
  BY <1>1, <1>3, <1>4, HandlerOnly
<1>5. CASE outputs' = Append(outputs, [n |-> Op.n, kind |-> Op.kind, result |-> Op.result])
  <2> DEFINE o == [n |-> Op.n, kind |-> Op.kind, result |-> Op.result]
  <2>1. 1 \in 1..Len(todo) /\ Op = todo[1] /\ todo[1] \in Ops
    BY <1>1, SMTT(30) DEF Op
  <2>2. Op.n \in Nat /\ Op.kind \in Kinds /\ Op.result \in Results
    BY <1>1, <2>1, SMTT(30) DEF Ops, LifecycleOps, CaptureOps, PublishOps, ReturnOps, StartBooks
  <2>3. Publishable(Op)
    BY <1>1, <2>1, SMTT(30) DEF CaptureInv
  <2>4. /\ o \in [n: Nat, kind: Kinds, result: Results]
        /\ o.n \in durable /\ (venue = "bybit" /\ o.kind = "book" => o.result = "Applied")
    BY <1>1, <2>2, <2>3, Zenon DEF Publishable
  <2> HIDE DEF o
  <2>5. outputs \in Seq([n: Nat, kind: Kinds, result: Results]) /\ outputs' = Append(outputs, o)
    BY <1>1, <1>5 DEF CaptureInv, o
  <2>6. outputs' \in Seq([n: Nat, kind: Kinds, result: Results])
    BY <2>4, <2>5
  <2>7. \A k \in DOMAIN outputs' : outputs'[k] = o \/ (k \in DOMAIN outputs /\ outputs'[k] = outputs[k])
    BY <2>5
  <2>8. DurableBeforePublished'
    BY <1>1, <2>4, <2>7 DEF DurableBeforePublished, CaptureInv
  <2>9. PublishedWasApplied'
    BY <1>1, <2>4, <2>7 DEF PublishedWasApplied, CaptureInv
  <2>10. (\A k \in 1..Len(todo) : Publishable(todo[k]))'
    BY <1>1, <1>3 DEF HandlerCaptures, AllPublishable, Publishable
  <2>11. (\A k \in 1..Len(todo) : todo[k].op = "capture" => todo[k].n = received)'
    BY <1>1, <1>3 DEF HandlerCaptures
  <2> QED
    BY <1>1, <2>6, <2>8, <2>9, <2>10, <2>11, Zenon DEF CaptureInv
<1> QED
  BY <1>4, <1>5 DEF WorkPublish

(* capture_raw: submitting, waiting, and what follows the receipt. *)
LEMMA CapturedCaptures ==
    ASSUME SessionInv, Awaiting, WorkCapture, UNCHANGED durable
    PROVE  CaptureInv'
<1>1. /\ UNCHANGED <<venue, received, durable, outputs, lifecycle, last_event>>
      /\ Op.op = "capture" /\ todo # <<>> /\ todo \in Seq(Ops)
  BY DEF WorkCapture, Awaiting, SessionInv, HandlerInv, LegalOps
<1>2. CASE capture' = capture
  <2>1. \/ Handle /\ capture.n = Op.n /\ capture.receipt = "acknowledged"
        \/ todo' = <<>> \/ todo' = todo
    BY <1>1, <1>2, SMTT(30) DEF WorkCapture, Pending, EndWith
  <2>2. HandlerCaptures(todo')
    BY <1>1, <2>1, AcknowledgedIsDurable, HandleKeeps, HandlerCapturesKept
  <2> QED
    BY <1>1, <1>2, <2>2, HandlerOnly
<1>3. CASE capture' = [n |-> Op.n, receipt |-> "waiting"] /\ todo' = todo
  <2>1. 1 \in 1..Len(todo) /\ Op = todo[1] /\ todo[1] \in Ops
    BY <1>1 DEF Op
  <2>2. Op.n \in Nat
    BY <1>1, <2>1 DEF Ops, LifecycleOps, CaptureOps, PublishOps, ReturnOps, StartBooks
  <2>3. /\ capture' \in [n: Nat, receipt: {"none", "waiting", "acknowledged", "rejected", "lost"}]
        /\ capture'.receipt # "acknowledged"
    BY <1>3, <2>2, SMTT(30)
  <2>4. (\A k \in 1..Len(todo) : Publishable(todo[k]))'
    BY <1>1, <1>3 DEF SessionInv, CaptureInv, Publishable
  <2> QED
    BY <1>1, <1>3, <2>3, <2>4, Zenon DEF SessionInv, CaptureInv, DurableBeforePublished, PublishedWasApplied
<1> QED
  BY <1>2, <1>3 DEF WorkCapture, Pending

(* The worker only adds to what is durable, and acknowledges what it added. *)
LEMMA WorkerCaptures ==
    ASSUME CaptureInv, WorkerAcknowledge \/ WorkerDrop \/ WorkerReject
    PROVE  CaptureInv'
<1>1. UNCHANGED <<venue, todo, received, outputs>> /\ durable \subseteq durable'
  BY DEF WorkerAcknowledge, WorkerDrop, WorkerReject, sessionVars, outVars
<1>2. /\ capture' \in [n: Nat, receipt: {"none", "waiting", "acknowledged", "rejected", "lost"}]
      /\ capture'.receipt = "acknowledged" => capture'.n \in durable'
  BY DEF WorkerAcknowledge, WorkerDrop, WorkerReject, CaptureInv
<1>3. (\A k \in 1..Len(todo) : Publishable(todo[k]))'
  BY <1>1 DEF CaptureInv, Publishable
<1>4. DurableBeforePublished' /\ PublishedWasApplied'
  BY <1>1 DEF CaptureInv, DurableBeforePublished, PublishedWasApplied
<1> QED
  BY <1>1, <1>2, <1>3, <1>4, Zenon DEF CaptureInv

LEMMA TakenCaptures == ASSUME CaptureInv, TakeOutput PROVE CaptureInv'
<1>1. UNCHANGED <<venue, todo, received, capture, durable>> /\ outputs # <<>> /\ outputs' = Tail(outputs)
  BY DEF TakeOutput, sessionVars
<1>2. outputs \in Seq([n: Nat, kind: Kinds, result: Results])
  BY DEF CaptureInv
<1>3. outputs' \in Seq([n: Nat, kind: Kinds, result: Results])
  BY <1>1, <1>2
<1>4. \A k \in DOMAIN outputs' : k + 1 \in DOMAIN outputs /\ outputs'[k] = outputs[k + 1]
  BY <1>1, <1>2
<1>5. DurableBeforePublished' /\ PublishedWasApplied'
  BY <1>1, <1>4, SMTT(30) DEF CaptureInv, DurableBeforePublished, PublishedWasApplied
<1>6. (\A k \in 1..Len(todo) : Publishable(todo[k]))'
  BY <1>1 DEF CaptureInv, Publishable
<1> QED
  BY <1>1, <1>3, <1>5, <1>6, Zenon DEF CaptureInv

LEMMA ReceivedCaptures == ASSUME CaptureInv, ReceiveRecord PROVE CaptureInv'
<1>1. UNCHANGED <<venue, capture, durable, outputs>> /\ received' \in Nat
  BY DEF ReceiveRecord, CaptureInv, outVars
<1>2. \A k \in 1..Len(todo') : todo'[k].op = "capture" /\ todo'[k].n = received'
  <2>1. CASE todo' = <<>>
    BY <2>1
  <2>2. ASSUME NEW fits \in BOOLEAN, todo' = <<CaptureRaw(received', fits)>>
        PROVE  \A k \in 1..Len(todo') : todo'[k].op = "capture" /\ todo'[k].n = received'
    <3>1. Len(todo') = 1 /\ todo'[1] = CaptureRaw(received', fits)
      BY <2>2
    <3>2. \A k \in 1..Len(todo') : k = 1
      BY <3>1
    <3> QED
      BY <3>1, <3>2 DEF CaptureRaw
  <2> QED
    BY <2>1, <2>2 DEF ReceiveRecord, EndWith
<1>3. (\A k \in 1..Len(todo) : Publishable(todo[k]))'
  BY <1>2 DEF Publishable
<1>4. DurableBeforePublished' /\ PublishedWasApplied'
  BY <1>1 DEF CaptureInv, DurableBeforePublished, PublishedWasApplied
<1> QED
  BY <1>1, <1>2, <1>3, <1>4, Zenon DEF CaptureInv

(* Nothing a step does lets a record be published that is not durable. *)
LEMMA CaptureStep == SessionInv /\ [Next]_vars => CaptureInv'
<1> SUFFICES ASSUME SessionInv, [Next]_vars PROVE CaptureInv'
  OBVIOUS
<1>1. CaptureInv /\ HandlerInv
  BY DEF SessionInv
<1>2. CASE PollEntry \/ PollInterrupt \/ PollCommands \/ RunOn \/ NextCommand
  <2>1. UNCHANGED <<venue, received, capture, durable, outputs>>
    BY <1>2, SMTT(30) DEF PollEntry, PollInterrupt, PollCommands, RunOn, NextCommand, sessionElse, outVars
  <2>2. todo' = <<>> \/ todo' = todo \/ (todo # <<>> /\ todo' = Tail(todo))
    BY <1>2 DEF PollEntry, PollInterrupt, PollCommands, RunOn, NextCommand, EndWith, Proceed
  <2>3. HandlerCaptures(todo')
    BY <2>2, HandlerCapturesKept
  <2> QED
    BY <2>1, <2>3, HandlerOnly, SMTT(30)
<1>3. CASE PollWork
  <2>1. Awaiting /\ UNCHANGED durable
    BY <1>3 DEF PollWork
  <2>2. CASE WorkLifecycle
    <3>1. UNCHANGED <<venue, received, capture, durable, outputs>>
      BY <2>1, <2>2 DEF WorkLifecycle
    <3>2. todo' = <<>> \/ todo' = todo \/ (todo # <<>> /\ todo' = Tail(todo))
      BY <2>1, <2>2 DEF WorkLifecycle, EndWith, Proceed, Pending, Awaiting
    <3>3. HandlerCaptures(todo')
      BY <3>2, HandlerCapturesKept
    <3> QED
      BY <3>1, <3>3, HandlerOnly
  <2> QED
    BY <1>3, <2>1, <2>2, PublishedCaptures, CapturedCaptures DEF PollWork
<1>4. CASE Renewal \/ Heartbeat \/ RemoteClosed
  <2>1. PICK rest \in {BackOff("RecoverableDisconnect"), Stale("RecoverableDisconnect")} : Leave(rest)
    BY <1>4 DEF Renewal, Heartbeat, RemoteClosed
  <2>2. lifecycle \in LoopStates /\ lifecycle \in LoopStates \cup {"Degraded"}
    BY <1>1, <2>1, LoopAgrees DEF Leave, Agrees
  <2>3. Quiet(rest)
    BY <2>2, WaysOut, StaleLegal
  <2>4. UNCHANGED <<venue, received, capture, durable, outputs>> /\ todo' = rest
    BY <2>1 DEF Leave, outVars
  <2>5. HandlerCaptures(todo')
    BY <2>3, <2>4, QuietOps, HandlerCapturesKept
  <2> QED
    BY <2>4, <2>5, HandlerOnly
<1>5. CASE ReceiveRecord
  BY <1>1, <1>5, ReceivedCaptures
<1>6. CASE WorkerAcknowledge \/ WorkerDrop \/ WorkerReject
  BY <1>1, <1>6, WorkerCaptures
<1>7. CASE TakeOutput
  BY <1>1, <1>7, TakenCaptures
<1>8. CASE \/ TakeEvent \/ Cancel \/ DropSupervisor \/ CloseInput \/ CloseConsumer \/ UNCHANGED vars
           \/ \E id \in 1..MaxCommandId :
                 \/ SendCommand(id)
                 \/ \E kind \in {"RequestedShutdown", "SupervisorQuarantine"} : SendTerminal(kind, id)
  <2>1. UNCHANGED captureVars
    BY <1>8, Zenon DEF TakeEvent, Cancel, DropSupervisor, CloseInput, CloseConsumer, SendCommand,
       SendTerminal, Accept, vars, sessionVars, controlVars, outVars, captureVars
  <2> QED
    BY <1>1, <2>1, SameCapture
<1> QED
  BY <1>2, <1>3, <1>4, <1>5, <1>6, <1>7, <1>8, Zenon DEF Next, Session, Environment, Input

-----------------------------------------------------------------------------
(* How the steps keep CommandInv. *)

(* CommandIdHistory::accept forgets an id only under retired_high_water. *)
LEMMA AcceptRemembers ==
    ASSUME NEW h \in [high_water: Nat, retired_high_water: Nat, order: Seq(Nat)], NEW id \in Nat,
           NEW new, new = accept(h, id),
           NEW x, x = id \/ x \in Range(h.order) \/ x <= h.retired_high_water, x \in Nat
    PROVE  /\ new \in [high_water: Nat, retired_high_water: Nat, order: Seq(Nat)]
           /\ x \in Range(new.order) \/ x <= new.retired_high_water
<1> DEFINE order == Append(h.order, id)
           full == Len(order) > HistoryLimit
<1>1. order \in Seq(Nat) /\ Len(order) \in Nat \ {0} /\ Head(order) \in Nat /\ Head(order) = order[1]
  OBVIOUS
<1>2. x = id \/ x \in Range(h.order) => x \in Range(order)
  <2>1. order[Len(order)] = id /\ Len(order) \in DOMAIN order
    OBVIOUS
  <2>2. \A k \in DOMAIN h.order : k \in DOMAIN order /\ order[k] = h.order[k]
    OBVIOUS
  <2> QED
    BY <2>1, <2>2 DEF Range
<1>3. /\ new.high_water = Larger(h.high_water, id)
      /\ new.order = IF full THEN Tail(order) ELSE order
      /\ new.retired_high_water = IF full THEN Larger(h.retired_high_water, Head(order))
                                  ELSE h.retired_high_water
      /\ new = [high_water |-> new.high_water, order |-> new.order,
                retired_high_water |-> new.retired_high_water]
  BY DEF accept
<1>4. h.high_water \in Nat /\ h.retired_high_water \in Nat
  OBVIOUS
<1> HIDE DEF order, full
<1>5. Tail(order) \in Seq(Nat)
  BY <1>1
<1>6. new.high_water \in Nat /\ new.retired_high_water \in Nat /\ new.order \in Seq(Nat)
  BY <1>1, <1>3, <1>4, <1>5 DEF Larger
<1>7. new \in [high_water: Nat, retired_high_water: Nat, order: Seq(Nat)]
  BY <1>3, <1>6, Zenon
<1>8. CASE ~full
  <2>1. new.order = order /\ new.retired_high_water = h.retired_high_water
    BY <1>3, <1>8
  <2> QED
    BY <1>2, <1>7, <2>1
<1>9. CASE full
  <2>1. new.order = Tail(order) /\ new.retired_high_water = Larger(h.retired_high_water, Head(order))
    BY <1>3, <1>9
  <2>2. h.retired_high_water <= new.retired_high_water /\ order[1] <= new.retired_high_water
    BY <1>1, <1>4, <2>1 DEF Larger
  <2>3. CASE x <= h.retired_high_water
    BY <1>4, <1>6, <1>7, <2>2, <2>3
  <2>4. CASE x \in Range(order)
    <3>1. PICK k \in 1..Len(order) : order[k] = x
      <4>1. DOMAIN order = 1..Len(order)
        BY <1>1
      <4> QED
        BY <2>4, <4>1 DEF Range
    <3>2. CASE k = 1
      BY <1>7, <2>2, <3>1, <3>2, SMTT(30)
    <3>3. CASE k # 1
      <4>1. k - 1 \in DOMAIN Tail(order) /\ Tail(order)[k - 1] = order[k]
        BY <1>1, <3>1, <3>3
      <4>2. x \in Range(Tail(order))
        BY <3>1, <4>1, Zenon DEF Range
      <4> QED
        BY <1>7, <2>1, <4>2
    <3> QED
      BY <3>2, <3>3
  <2> QED
    BY <1>2, <2>3, <2>4
<1> QED
  BY <1>8, <1>9

LEMMA AcceptKeeps ==
    ASSUME CommandInv, NEW id \in 1..MaxCommandId, NEW allow, Accept(id, allow),
           interrupt' \in Interrupts \cup {"none"}
    PROVE  CommandInv'
<1>1. id \in Nat
  BY SessionConstants
<1>2. /\ issued \in [high_water: Nat, retired_high_water: Nat, order: Seq(Nat)]
      /\ issued' = accept(issued, id) /\ accepted \in Seq(Nat) /\ accepted' = Append(accepted, id)
      /\ id \notin Range(issued.order) /\ id > issued.retired_high_water
  BY DEF CommandInv, Accept, validate
<1>3. accepted' \in Seq(Nat) /\ Len(accepted') = Len(accepted) + 1 /\ Len(accepted) \in Nat
  BY <1>1, <1>2
<1>4. \A k \in 1..Len(accepted') :
         \/ k = Len(accepted') /\ accepted'[k] = id
         \/ k \in 1..Len(accepted) /\ accepted'[k] = accepted[k]
  BY <1>1, <1>2, <1>3, SMTT(30)
<1>5. \A k \in 1..Len(accepted) :
         /\ accepted[k] \in Nat
         /\ accepted[k] \in Range(issued.order) \/ accepted[k] <= issued.retired_high_water
  BY <1>2 DEF CommandInv
<1>6. /\ issued' \in [high_water: Nat, retired_high_water: Nat, order: Seq(Nat)]
      /\ id \in Range(issued'.order) \/ id <= issued'.retired_high_water
  BY <1>1, <1>2, AcceptRemembers, Zenon
<1>7. \A k \in 1..Len(accepted) :
         accepted[k] \in Range(issued'.order) \/ accepted[k] <= issued'.retired_high_water
  BY <1>1, <1>2, <1>5, AcceptRemembers, Zenon
<1>8. \A k \in 1..Len(accepted') :
         accepted'[k] \in Range(issued'.order) \/ accepted'[k] <= issued'.retired_high_water
  BY <1>4, <1>6, <1>7, SMTT(30)
<1>9. \A k \in 1..Len(accepted) : accepted[k] # id
  <2> SUFFICES ASSUME NEW k \in 1..Len(accepted), accepted[k] = id PROVE FALSE
    OBVIOUS
  <2>1. id \in Range(issued.order) \/ id <= issued.retired_high_water
    BY <1>5
  <2>2. issued.retired_high_water \in Nat
    BY <1>2
  <2> QED
    BY <1>1, <1>2, <2>1, <2>2
<1>10. \A j, k \in 1..Len(accepted) : accepted[j] = accepted[k] => j = k
  BY <1>2, SMTT(30) DEF CommandInv, CommandIdsUnique, IsInjective
<1>11. \A j, k \in 1..Len(accepted') : accepted'[j] = accepted'[k] => j = k
  BY <1>4, <1>9, <1>10
<1>12. CommandIdsUnique'
  BY <1>3, <1>11 DEF CommandIdsUnique, IsInjective
<1> QED
  BY <1>3, <1>6, <1>8, <1>12 DEF CommandInv

(* No step accepts an id twice or installs anything but an interrupt. *)
LEMMA CommandStep == SessionInv /\ [Next]_vars => CommandInv'
<1> SUFFICES ASSUME SessionInv, [Next]_vars PROVE CommandInv'
  OBVIOUS
<1>1. CommandInv
  BY SMTT(30) DEF SessionInv
<1>2. ASSUME NEW id \in 1..MaxCommandId, SendCommand(id) PROVE CommandInv'
  BY <1>1, <1>2, AcceptKeeps, Zenon DEF SendCommand, CommandInv
<1>3. ASSUME NEW id \in 1..MaxCommandId, NEW kind \in {"RequestedShutdown", "SupervisorQuarantine"},
             SendTerminal(kind, id)
      PROVE  CommandInv'
  <2>1. interrupt' \in Interrupts \cup {"none"} /\ Accept(id, kind = "SupervisorQuarantine")
    BY <1>3 DEF SendTerminal, Interrupts
  <2> QED
    BY <1>1, <2>1, AcceptKeeps
<1>4. CASE Cancel
  <2>1. UNCHANGED <<issued, accepted>> /\ interrupt' \in Interrupts \cup {"none"}
    BY <1>4 DEF Cancel, Interrupts
  <2> QED
    BY <1>1, <2>1, Zenon DEF CommandInv, CommandIdsUnique
<1>5. CASE \/ Session \/ Renewal \/ Heartbeat \/ RemoteClosed \/ WorkerAcknowledge \/ WorkerDrop
           \/ WorkerReject \/ TakeOutput \/ TakeEvent \/ ReceiveRecord \/ DropSupervisor
           \/ CloseInput \/ CloseConsumer \/ UNCHANGED vars
  <2>1. UNCHANGED <<interrupt, issued, accepted>>
    BY <1>5, Zenon DEF Session, PollEntry, PollInterrupt, PollCommands, PollWork, RunOn, NextCommand,
       Renewal, Heartbeat, RemoteClosed, Leave, WorkerAcknowledge, WorkerDrop, WorkerReject,
       TakeOutput, TakeEvent, ReceiveRecord, DropSupervisor, CloseInput, CloseConsumer, vars, controlVars
  <2> QED
    BY <1>1, <2>1, Zenon DEF CommandInv, CommandIdsUnique
<1> QED
  BY <1>2, <1>3, <1>4, <1>5, Zenon DEF Next, Environment, Input

-----------------------------------------------------------------------------
LEMMA SessionStarts == Init => SessionInv
<1> SUFFICES ASSUME Init PROVE SessionInv
  OBVIOUS
<1>1. HandlerInv
  <2>1. venue \in {"binance", "bybit"} /\ books \in [Instruments -> BookStates(venue)]
    BY SessionConstants, SMTT(30) DEF Init, BookStates
  <2>2. LegalOps(lifecycle, todo) /\ Settles(lifecycle, todo, AllSynchronized(books))
    BY StartupLegal DEF Init
  <2> QED
    BY <2>1, <2>2 DEF Init, HandlerInv, ConnectorStates
<1>2. CaptureInv
  <2>1. \A k \in 1..Len(todo) : todo[k].op \in {"lifecycle", "start_books"}
    BY StartupLegal, SMTT(30) DEF Init
  <2>2. capture \in [n: Nat, receipt: {"none", "waiting", "acknowledged", "rejected", "lost"}]
    BY DEF Init, NoCapture
  <2>3. capture.receipt # "acknowledged"
    BY DEF Init, NoCapture
  <2>4. outputs = <<>> /\ DOMAIN outputs = {} /\ outputs \in Seq([n: Nat, kind: Kinds, result: Results])
    BY DEF Init
  <2>5. \A k \in 1..Len(todo) : Publishable(todo[k])
    BY <2>1 DEF Publishable
  <2>6. DurableBeforePublished /\ PublishedWasApplied /\ received \in Nat
    BY <2>4 DEF DurableBeforePublished, PublishedWasApplied, Init
  <2>7. \A k \in 1..Len(todo) : todo[k].op = "capture" => todo[k].n = received
    BY <2>1, SMTT(30)
  <2> QED
    BY <2>2, <2>3, <2>4, <2>5, <2>6, <2>7, Zenon DEF CaptureInv
<1>3. CommandInv
  <2>1. accepted = <<>> /\ Len(accepted) = 0 /\ accepted \in Seq(Nat) /\ DOMAIN accepted = {}
    BY SMTT(30) DEF Init
  <2>2. issued \in [high_water: Nat, retired_high_water: Nat, order: Seq(Nat)]
    BY DEF Init
  <2>3. CommandIdsUnique
    BY <2>1 DEF CommandIdsUnique, IsInjective
  <2> QED
    BY <2>1, <2>2, <2>3 DEF Init, CommandInv
<1> QED
  BY <1>1, <1>2, <1>3 DEF SessionInv

(* The inductive invariant: every operation a session still has to do is legal
   where it will be done, publishes a durable record, and leads to a lifecycle
   that agrees with the books. *)
THEOREM SessionInvariant == Spec => []SessionInv
<1>1. Init => SessionInv
  BY SessionStarts
<1>2. SessionInv /\ [Next]_vars => SessionInv'
  BY HandlerStep, CaptureStep, CommandStep DEF SessionInv
<1> QED
  BY <1>1, <1>2, PTL DEF Spec

(* capture_raw comes before publish_normalized: nothing in the output lane comes
   from a record that is not durable, whatever the worker answers and when. *)
THEOREM PublishedIsDurable == Spec => []DurableBeforePublished
<1>1. SessionInv => DurableBeforePublished
  BY DEF SessionInv, CaptureInv
<1> QED
  BY <1>1, SessionInvariant, PTL

(* A session of any number of books is Healthy exactly with its books, publishes
   only what its books applied, never asks LifecycleTracker for a transition it
   refuses, and accepts no command id twice however short its history is. *)
THEOREM SessionSpeaksTrue == Spec => []SessionConsistent
<1>1. SessionInv => SessionConsistent
  <2> SUFFICES ASSUME SessionInv PROVE SessionConsistent
    OBVIOUS
  <2>1. PublishedWasApplied /\ CommandIdsUnique
    BY DEF SessionInv, CaptureInv, CommandInv
  <2>2. HealthyMeansSynchronized
    <3> SUFFICES ASSUME InLoop PROVE lifecycle = "Healthy" <=> AllSynchronized(books)
      BY DEF HealthyMeansSynchronized, AllSynchronized
    <3>1. Agrees(lifecycle, AllSynchronized(books))
      BY LoopAgrees, SMTT(30) DEF SessionInv
    <3> QED
      BY <3>1 DEF Agrees
  <2>3. TransitionsLegal
    <3> SUFFICES ASSUME Awaiting, Op.op = "lifecycle" PROVE prepare(Op)
      BY DEF TransitionsLegal
    <3>1. todo # <<>> /\ todo \in Seq(Ops) /\ LegalOps(lifecycle, todo)
      BY DEF Awaiting, SessionInv, HandlerInv, LegalOps
    <3>2. 1 \in 1..Len(todo) /\ Op = todo[1]
      BY <3>1, SMTT(30) DEF Op
    <3>3. LegalAt(lifecycle, todo, 1)
      BY <3>1, <3>2, Zenon DEF LegalOps
    <3> QED
      BY <3>2, <3>3, Zenon DEF LegalAt, Before, prepare
  <2> QED
    BY <2>1, <2>2, <2>3 DEF SessionConsistent
<1> QED
  BY <1>1, SessionInvariant, PTL

(* Lifecycle events form one chain, the first interrupt stays, and a session that
   reports an interrupt reports the one that was installed. *)
THEOREM OneHistory == Spec => SessionHistory
<1>1. SessionInv /\ [Next]_vars => [HistoryStep]_vars
  <2> SUFFICES ASSUME SessionInv, Next PROVE HistoryStep
    BY Zenon
  <2>1. last_event' # last_event => last_event'.from = last_event.to
    <3>1. last_event.to = lifecycle
      BY DEF SessionInv, HandlerInv
    <3>2. CASE PollWork /\ WorkLifecycle
      BY <3>1, <3>2 DEF WorkLifecycle, SendEvent
    <3>3. CASE ~(PollWork /\ WorkLifecycle)
      <4>1. last_event' = last_event
        BY <3>3, Zenon DEF Next, Session, Environment, Input, PollEntry, PollInterrupt, PollCommands,
           PollWork, WorkPublish, WorkCapture, RunOn, NextCommand, Renewal, Heartbeat, RemoteClosed,
           Leave, WorkerAcknowledge, WorkerDrop, WorkerReject, TakeOutput, TakeEvent, ReceiveRecord,
           SendCommand, SendTerminal, Accept, Cancel, DropSupervisor, CloseInput, CloseConsumer,
           outVars
      <4> QED
        BY <4>1
    <3> QED
      BY <3>2, <3>3
  <2>2. interrupt # "none" => interrupt' = interrupt
    BY Zenon DEF Next, Session, Environment, Input, PollEntry, PollInterrupt, PollCommands,
       PollWork, RunOn, NextCommand, Renewal, Heartbeat, RemoteClosed,
       Leave, WorkerAcknowledge, WorkerDrop, WorkerReject, TakeOutput, TakeEvent, ReceiveRecord,
       SendCommand, SendTerminal, Accept, Cancel, DropSupervisor, CloseInput, CloseConsumer,
       controlVars
  <2>3. ASSUME termination # termination', termination' \in Interrupts PROVE termination' = interrupt
    <3>1. interrupt \in Interrupts \cup {"none"}
      BY DEF SessionInv, CommandInv
    <3>2. CASE PollEntry \/ PollInterrupt
      BY <2>3, <3>2 DEF PollEntry, PollInterrupt, EndWith, Interrupts
    <3>3. CASE PollCommands \/ NextCommand
      BY <2>3, <3>3, SMTT(30) DEF PollCommands, NextCommand, EndWith, Interrupts, Received, map_control_result
    <3>4. CASE PollWork
      BY <2>3, <3>4, Zenon DEF PollWork, WorkLifecycle, WorkPublish, WorkCapture, EndWith, Pending, Proceed,
         Handle, map_raw_capture_error, Interrupts
    <3>5. CASE RunOn
      <4>1. todo # <<>> /\ todo \in Seq(Ops)
        BY <3>5 DEF RunOn, SessionInv, HandlerInv, LegalOps
      <4>2. Op \in Ops
        BY <4>1 DEF Op
      <4>3. Op.op = "return" /\ termination' = Op.result
        BY <2>3, <3>5 DEF RunOn, Proceed, EndWith
      <4>4. Op \in ReturnOps
        BY <4>2, <4>3 DEF Ops, LifecycleOps, CaptureOps, PublishOps, StartBooks
      <4>5. Op.result \notin Interrupts
        BY <4>4 DEF ReturnOps, Interrupts
      <4> QED
        BY <2>3, <4>3, <4>5
    <3>6. CASE Environment
      <4>1. termination' = termination \/ termination' = "Fatal"
        BY <3>6, Zenon DEF Environment, Input, Renewal, Heartbeat, RemoteClosed, Leave,
           WorkerAcknowledge, WorkerDrop, WorkerReject, TakeOutput, TakeEvent, ReceiveRecord,
           EndWith, SendCommand, SendTerminal, Accept, Cancel, DropSupervisor, CloseInput,
           CloseConsumer, sessionVars
      <4> QED
        BY <2>3, <4>1 DEF Interrupts
    <3> QED
      BY <3>2, <3>3, <3>4, <3>5, <3>6, Zenon DEF Next, Session
  <2> QED
    BY <2>1, <2>2, <2>3 DEF HistoryStep
<1> QED
  BY <1>1, SessionInvariant, PTL DEF Spec, SessionHistory
=============================================================================
