------------------------- MODULE IngestionRuntimeProofs -------------------------
(* Proofs about the fixture runtime of apps/cryptoriskd: whatever died, failed *)
(* or was cancelled, the raw log continues the fixture, and a daemon that      *)
(* serves has persisted all of it.                                             *)
EXTENDS IngestionRuntime, TLAPS

Payload == Range(fixture)

LoopStates == {"ingesting", "appending", "persisted", "joining"}

MainStates == {"down", "recovering", "recovered", "replayed", "serving", "ready", "closing"} \cup LoopStates

RtTypes ==
  /\ fixture \in Fixtures
  /\ log \in Seq([payload : Payload, epoch : Nat, sequence : Nat])
  /\ signal \in BOOLEAN
  /\ daemon.at \in MainStates
  /\ channel \in [queue : Seq(Payload), closed : BOOLEAN]
  /\ producer \in [at : {"none", "sending", "ok", "QueueClosed"}, next : Nat]

\* A start that replayed the log holds what the log ends with.
ReplayedLog ==
  daemon.at = "replayed" =>
    daemon.recovered = Len(log) /\ daemon.next_sequence = 1 /\ daemon.epoch = NextEpoch(log)

\* Records of the fixture that are in the log and no longer, or not yet, in the queue.
Done == IF daemon.at = "persisted" THEN Len(log) - 1 ELSE Len(log)

LoopTypes ==
  daemon.at \in LoopStates =>
    daemon \in [at : LoopStates, engine : {daemon.engine}, epoch : Nat, next_sequence : Nat, cancelled : BOOLEAN]

\* The position the loop appends at continues the log: the first one of a new epoch, or the one
\* after the last record.
LoopPosition ==
  daemon.at \in LoopStates =>
    \/ daemon.next_sequence = 1 /\ daemon.epoch = NextEpoch(log)
    \/ /\ log # <<>> /\ daemon.epoch = log[Len(log)].epoch
       /\ daemon.next_sequence = log[Len(log)].sequence + 1

\* Log, queue and producer follow each other through the fixture.
LoopFollowsFixture ==
  daemon.at \in LoopStates =>
    /\ Done >= 0
    /\ Done + Len(channel.queue) <= Len(fixture)
    /\ \A i \in 1 .. Len(channel.queue) : channel.queue[i] = fixture[Done + i]
    /\ ~channel.closed => producer.next = Done + Len(channel.queue) + 1
    /\ daemon.at \in {"appending", "persisted"} => channel.queue # <<>>

\* The loop ends, without a signal, when the producer has sent the whole fixture and nothing is queued.
LoopEnds ==
  daemon.at \in LoopStates =>
    /\ channel.closed => daemon.cancelled
    /\ daemon.cancelled => signal
    /\ producer.at = "ok" => signal \/ producer.next > Len(fixture)
    /\ daemon.at = "joining" => channel.queue = <<>> /\ (channel.closed \/ producer.at # "sending")

ProducerOfLoop == producer.at = "sending" => daemon.at \in LoopStates

\* What the daemon serves is the expected snapshot, with the whole fixture in the log.
ServedWhole ==
  daemon.at \in {"serving", "ready", "closing"} =>
    Len(log) = Len(fixture) /\ daemon = [at |-> daemon.at, snapshot |-> FinalSnapshot]

RtInv ==
  /\ RtTypes /\ LogContinuesFixture
  /\ ReplayedLog /\ LoopTypes /\ LoopPosition /\ LoopFollowsFixture /\ LoopEnds
  /\ ProducerOfLoop /\ ServedWhole

-----------------------------------------------------------------------------
(* Sequences                                                                   *)

LEMMA AppendFacts ==
  ASSUME NEW S, NEW s \in Seq(S), NEW e \in S
  PROVE  /\ Append(s, e) \in Seq(S) /\ Len(Append(s, e)) = Len(s) + 1
         /\ DOMAIN Append(s, e) = 1 .. Len(s) + 1
         /\ Append(s, e)[Len(s) + 1] = e
         /\ \A i \in 1 .. Len(s) : Append(s, e)[i] = s[i]
OBVIOUS

LEMMA LastElement == ASSUME NEW S, NEW s \in Seq(S), s # <<>> PROVE s[Len(s)] \in S /\ Len(s) > 0
OBVIOUS

LEMMA TailFacts ==
  ASSUME NEW S, NEW s \in Seq(S), s # <<>>
  PROVE  /\ Tail(s) \in Seq(S) /\ Len(Tail(s)) = Len(s) - 1 /\ Len(s) > 0
         /\ \A i \in 1 .. Len(s) - 1 : Tail(s)[i] = s[i + 1]
         /\ Head(s) = s[1] /\ Head(s) \in S
OBVIOUS

LEMMA FixtureFacts ==
  ASSUME RtInv
  PROVE  /\ fixture \in Seq(Payload) /\ Len(fixture) \in Nat /\ DOMAIN fixture = 1 .. Len(fixture)
         /\ \A i \in 1 .. Len(fixture) : fixture[i] \in Payload
<1>1. fixture \in Seq(Payload)
  BY FixtureFiles DEF RtInv, RtTypes, Payload
<1> QED
  BY <1>1

\* The next record of the fixture, at the position the loop holds, continues the log.
LEMMA AppendContinues ==
  ASSUME RtInv, daemon.at = "appending"
  PROVE  /\ RecoveryMatches(Append(log, Record))
         /\ Append(log, Record) \in Seq([payload : Payload, epoch : Nat, sequence : Nat])
         /\ Len(log) + Len(channel.queue) <= Len(fixture) /\ channel.queue # <<>>
<1> DEFINE Rec == [payload : Payload, epoch : Nat, sequence : Nat]
           grown == Append(log, Record)
<1>1. /\ log \in Seq(Rec) /\ channel.queue \in Seq(Payload)
      /\ daemon.epoch \in Nat /\ daemon.next_sequence \in Nat
  BY DEF RtInv, RtTypes, LoopTypes, LoopStates
<1>2. /\ channel.queue # <<>> /\ Len(log) + Len(channel.queue) <= Len(fixture)
      /\ channel.queue[1] = fixture[Len(log) + 1]
  <2>1. Done = Len(log)
    BY DEF Done
  <2>2. /\ channel.queue # <<>> /\ Done + Len(channel.queue) <= Len(fixture)
        /\ \A i \in 1 .. Len(channel.queue) : channel.queue[i] = fixture[Done + i]
    BY DEF RtInv, LoopFollowsFixture, LoopStates
  <2>3. 1 \in 1 .. Len(channel.queue)
    BY <1>1, <2>2
  <2> QED
    BY <2>1, <2>2, <2>3
<1>3. Head(channel.queue) = fixture[Len(log) + 1] /\ Head(channel.queue) \in Payload
  BY <1>1, <1>2, TailFacts
<1>4. /\ Record \in Rec /\ Record.payload = fixture[Len(log) + 1]
      /\ Record.epoch = daemon.epoch /\ Record.sequence = daemon.next_sequence
  BY <1>1, <1>3 DEF Record
<1>5. /\ grown \in Seq(Rec) /\ Len(grown) = Len(log) + 1 /\ DOMAIN grown = 1 .. Len(log) + 1
      /\ grown[Len(log) + 1] = Record /\ \A i \in 1 .. Len(log) : grown[i] = log[i]
  BY <1>1, <1>4, AppendFacts
<1>6. Len(grown) <= Len(fixture)
  BY <1>1, <1>2, <1>5, FixtureFacts
<1> HIDE DEF grown, Rec
<1>7. ASSUME NEW i \in 1 .. Len(log) PROVE grown[i].payload = fixture[i] /\ PositionMatches(grown, i)
  <2>1. log[i].payload = fixture[i] /\ PositionMatches(log, i)
    BY <1>1 DEF RtInv, LogContinuesFixture, RecoveryMatches
  <2>2. grown[i] = log[i] /\ (i # 1 => grown[i - 1] = log[i - 1])
    BY <1>1, <1>5
  <2> QED
    BY <2>1, <2>2 DEF PositionMatches
<1>8. PositionMatches(grown, Len(log) + 1)
  <2>1. CASE log = <<>>
    <3>1. daemon.next_sequence = 1 /\ daemon.epoch = 1
      BY <2>1 DEF RtInv, LoopPosition, LoopStates, NextEpoch
    <3>2. Len(log) = 0
      BY <2>1
    <3> QED
      BY <1>4, <1>5, <3>1, <3>2 DEF PositionMatches
  <2>2. CASE log # <<>>
    <3>1. \/ daemon.next_sequence = 1 /\ daemon.epoch = log[Len(log)].epoch + 1
          \/ daemon.epoch = log[Len(log)].epoch /\ daemon.next_sequence = log[Len(log)].sequence + 1
      BY <2>2 DEF RtInv, LoopPosition, LoopStates, NextEpoch
    <3>2. Len(log) \in Nat /\ Len(log) > 0
      BY <1>1, <2>2
    <3>3. grown[Len(log) + 1 - 1] = log[Len(log)] /\ Len(log) + 1 # 1
      BY <1>5, <3>2
    <3> QED
      BY <1>4, <1>5, <3>1, <3>3 DEF PositionMatches
  <2> QED
    BY <2>1, <2>2
<1>9. \A i \in DOMAIN grown : grown[i].payload = fixture[i] /\ PositionMatches(grown, i)
  <2> TAKE i \in DOMAIN grown
  <2>1. i \in 1 .. Len(log) \/ i = Len(log) + 1
    BY <1>1, <1>5
  <2> QED
    BY <1>4, <1>5, <1>7, <1>8, <2>1
<1> QED
  BY <1>2, <1>5, <1>6, <1>9 DEF RecoveryMatches, grown, Rec

-----------------------------------------------------------------------------
(* Steps outside the loop                                                      *)

LEMMA NothingHeld ==
  /\ NoChannel \in [queue : Seq(Payload), closed : BOOLEAN]
  /\ NoProducer \in [at : {"none", "sending", "ok", "QueueClosed"}, next : Nat]
<1>1. <<>> \in Seq(Payload)
  OBVIOUS
<1>2. NoChannel \in [queue : Seq(Payload), closed : BOOLEAN]
  BY <1>1 DEF NoChannel
<1>3. NoProducer \in [at : {"none", "sending", "ok", "QueueClosed"}, next : Nat]
  BY DEF NoProducer
<1> QED
  BY <1>2, <1>3

LEMMA RuntimeStarts == RtInit => RtInv
<1> SUFFICES ASSUME RtInit PROVE RtInv
  OBVIOUS
<1>1. log = <<>> /\ daemon.at = "down" /\ fixture \in Fixtures /\ fixture \in Seq(Payload)
  BY FixtureFiles DEF RtInit, Down, Payload
<1>2. RtTypes
  <2>1. <<>> \in Seq([payload : Payload, epoch : Nat, sequence : Nat])
    OBVIOUS
  <2> QED
    BY <1>1, <2>1, NothingHeld DEF RtInit, RtTypes, MainStates
<1>3. LogContinuesFixture
  BY <1>1 DEF LogContinuesFixture, RecoveryMatches
<1>4. ReplayedLog /\ LoopTypes /\ LoopPosition /\ LoopFollowsFixture /\ LoopEnds /\ ServedWhole
  BY <1>1 DEF ReplayedLog, LoopTypes, LoopPosition, LoopFollowsFixture, LoopEnds, ServedWhole, LoopStates
<1>5. ProducerOfLoop
  BY DEF RtInit, NoProducer, ProducerOfLoop
<1> QED
  BY <1>2, <1>3, <1>4, <1>5 DEF RtInv

\* A main task that holds nothing of the log needs the log's own invariant only.
LEMMA HoldsNothing ==
  ASSUME RtInv, UNCHANGED fixture, RecoveryMatches(log'),
         log' \in Seq([payload : Payload, epoch : Nat, sequence : Nat]),
         signal' \in BOOLEAN, daemon'.at \in {"down", "recovering", "recovered"},
         channel' \in [queue : Seq(Payload), closed : BOOLEAN],
         producer' \in [at : {"none", "sending", "ok", "QueueClosed"}, next : Nat],
         producer'.at # "sending"
  PROVE  RtInv'
<1>1. RtTypes'
  BY DEF RtInv, RtTypes, Payload, MainStates
<1>2. LogContinuesFixture'
  BY DEF LogContinuesFixture, RecoveryMatches
<1>3. ReplayedLog' /\ LoopTypes' /\ LoopPosition' /\ LoopFollowsFixture' /\ LoopEnds' /\ ServedWhole'
  BY DEF ReplayedLog, LoopTypes, LoopPosition, LoopFollowsFixture, LoopEnds, ServedWhole, LoopStates
<1> QED
  BY <1>1, <1>2, <1>3 DEF RtInv, ProducerOfLoop

\* The process may end at any point, its last append in the log or not.
LEMMA ExitKeeps ==
  ASSUME RtInv, UNCHANGED fixture, NEW status, Exit(status), RecoveryMatches(log'),
         log' \in Seq([payload : Payload, epoch : Nat, sequence : Nat])
  PROVE  RtInv'
<1>1. /\ daemon'.at = "down" /\ signal' \in BOOLEAN
      /\ channel' \in [queue : Seq(Payload), closed : BOOLEAN]
      /\ producer' \in [at : {"none", "sending", "ok", "QueueClosed"}, next : Nat]
      /\ producer'.at # "sending"
  BY NothingHeld DEF Exit, Down, NoProducer
<1> QED
  BY <1>1, HoldsNothing

LEMMA ExitSameLog == ASSUME RtInv, UNCHANGED <<fixture, log>>, NEW status, Exit(status) PROVE RtInv'
<1>1. RecoveryMatches(log') /\ log' \in Seq([payload : Payload, epoch : Nat, sequence : Nat])
  BY DEF RtInv, RtTypes, LogContinuesFixture
<1> QED
  BY <1>1, ExitKeeps

LEMMA OpeningKeeps == ASSUME RtInv, start_runtime \/ open_with_replay PROVE RtInv'
<1>1. UNCHANGED <<fixture, log>>
  BY DEF start_runtime, open_with_replay, Frame
<1>2. CASE \E status \in {"Ok"} : Exit(status)
  BY <1>1, <1>2, ExitSameLog
<1>3. CASE daemon'.at \in {"recovering", "recovered"} /\ UNCHANGED <<signal, channel, producer>>
  <2>1. RecoveryMatches(log') /\ log' \in Seq([payload : Payload, epoch : Nat, sequence : Nat])
    BY <1>1 DEF RtInv, RtTypes, LogContinuesFixture
  <2>2. /\ signal' \in BOOLEAN /\ channel' \in [queue : Seq(Payload), closed : BOOLEAN]
        /\ producer' \in [at : {"none", "sending", "ok", "QueueClosed"}, next : Nat]
    BY <1>3 DEF RtInv, RtTypes
  <2>3. producer'.at # "sending"
    BY <1>3 DEF RtInv, ProducerOfLoop, LoopStates, start_runtime, open_with_replay, Down
  <2> QED
    BY <1>1, <1>3, <2>1, <2>2, <2>3, HoldsNothing
<1> QED
  BY <1>2, <1>3 DEF start_runtime, open_with_replay, Goto, Quiet

LEMMA ReplayKeeps == ASSUME RtInv, replay_recovered PROVE RtInv'
<1>1. UNCHANGED <<fixture, log>>
  BY DEF replay_recovered, Frame
<1>2. CASE \E status : Exit(status)
  BY <1>1, <1>2, ExitSameLog
<1>3. CASE /\ UNCHANGED <<channel, producer, signal>>
           /\ \E engine : daemon' = [at |-> "replayed", engine |-> engine, epoch |-> NextEpoch(log),
                                     next_sequence |-> 1, recovered |-> Len(log)]
  <2>1. /\ daemon'.at = "replayed" /\ daemon'.epoch = NextEpoch(log) /\ daemon'.next_sequence = 1
        /\ daemon'.recovered = Len(log)
    BY <1>3
  <2>2. RtTypes' /\ LogContinuesFixture'
    BY <1>1, <1>3, <2>1 DEF RtInv, RtTypes, LogContinuesFixture, RecoveryMatches, PositionMatches, Payload,
                            MainStates
  <2>3. ReplayedLog'
    BY <1>1, <2>1 DEF ReplayedLog, NextEpoch
  <2>4. LoopTypes' /\ LoopPosition' /\ LoopFollowsFixture' /\ LoopEnds' /\ ServedWhole'
    BY <2>1 DEF LoopTypes, LoopPosition, LoopFollowsFixture, LoopEnds, ServedWhole, LoopStates
  <2>5. ProducerOfLoop'
    BY <1>3 DEF RtInv, ProducerOfLoop, LoopStates, replay_recovered
  <2> QED
    BY <2>2, <2>3, <2>4, <2>5 DEF RtInv
<1> QED
  BY <1>2, <1>3 DEF replay_recovered, Goto, Quiet

\* The loop begins where the recovered records end.
LEMMA SpawnKeeps == ASSUME RtInv, spawn_fixture_producer PROVE RtInv'
<1>1. UNCHANGED <<fixture, log>>
  BY DEF spawn_fixture_producer, Frame
<1>2. CASE signal
  <2>1. Exit("Ok")
    BY <1>2 DEF spawn_fixture_producer
  <2> QED
    BY <1>1, <2>1, ExitSameLog
<1>3. CASE ~signal
  <2>1. /\ daemon' = [at |-> "ingesting", engine |-> daemon.engine, epoch |-> daemon.epoch,
                      next_sequence |-> daemon.next_sequence, cancelled |-> FALSE]
        /\ channel' = NoChannel /\ producer' = [at |-> "sending", next |-> daemon.recovered + 1]
        /\ UNCHANGED signal
    BY <1>3 DEF spawn_fixture_producer, Goto
  <2>2. /\ daemon.recovered = Len(log) /\ daemon.next_sequence = 1 /\ daemon.epoch = NextEpoch(log)
    BY DEF RtInv, ReplayedLog, spawn_fixture_producer
  <2>3. log \in Seq([payload : Payload, epoch : Nat, sequence : Nat]) /\ Len(log) \in Nat
        /\ Len(log) <= Len(fixture)
    BY DEF RtInv, RtTypes, LogContinuesFixture, RecoveryMatches
  <2>4. NextEpoch(log) \in Nat
    <3>1. ASSUME log # <<>> PROVE log[Len(log)] \in [payload : Payload, epoch : Nat, sequence : Nat]
      BY <2>3, <3>1, LastElement
    <3>2. log # <<>> => log[Len(log)].epoch \in Nat
      BY <3>1
    <3> QED
      BY <3>2 DEF NextEpoch
  <2>5. /\ daemon'.at = "ingesting" /\ daemon'.epoch = NextEpoch(log) /\ daemon'.next_sequence = 1
        /\ daemon'.cancelled = FALSE /\ daemon'.engine = daemon.engine
        /\ channel'.queue = <<>> /\ channel'.closed = FALSE
        /\ producer'.at = "sending" /\ producer'.next = Len(log) + 1
    BY <2>1, <2>2 DEF NoChannel
  <2>6. RtTypes'
    BY <1>1, <2>1, <2>2, <2>3, <2>5 DEF RtInv, RtTypes, NoChannel, Payload, MainStates, LoopStates
  <2>7. LogContinuesFixture'
    BY <1>1 DEF RtInv, LogContinuesFixture, RecoveryMatches, PositionMatches
  <2>8. LoopTypes'
    BY <2>1, <2>2, <2>4 DEF LoopTypes, LoopStates
  <2>9. LoopPosition'
    BY <1>1, <2>5 DEF LoopPosition, NextEpoch
  <2>10. LoopFollowsFixture'
    <3>1. Done' = Len(log)
      BY <1>1, <2>5 DEF Done
    <3>2. Len(fixture) \in Nat
      BY FixtureFacts
    <3> QED
      BY <1>1, <2>3, <2>5, <3>1, <3>2 DEF LoopFollowsFixture
  <2>11. ReplayedLog' /\ LoopEnds' /\ ProducerOfLoop' /\ ServedWhole'
    BY <2>5 DEF ReplayedLog, LoopEnds, ProducerOfLoop, ServedWhole, LoopStates
  <2> QED
    BY <2>6, <2>7, <2>8, <2>9, <2>10, <2>11 DEF RtInv
<1> QED
  BY <1>2, <1>3 DEF RtInv, RtTypes

-----------------------------------------------------------------------------
(* The producer                                                                *)

LEMMA ProducerTypes ==
  ASSUME RtInv
  PROVE  /\ producer \in [at : {"none", "sending", "ok", "QueueClosed"}, next : Nat]
         /\ channel \in [queue : Seq(Payload), closed : BOOLEAN]
         /\ Len(channel.queue) \in Nat /\ Len(log) \in Nat /\ Done \in Int
<1>1. log \in Seq([payload : Payload, epoch : Nat, sequence : Nat])
  BY DEF RtInv, RtTypes
<1>2. channel.queue \in Seq(Payload)
  BY DEF RtInv, RtTypes
<1> QED
  BY <1>1, <1>2 DEF RtInv, RtTypes, Done

\* A producer that ends, or that finds the channel closed, leaves the records where they are.
LEMMA ProducerStops ==
  ASSUME RtInv, ProducerFrame, UNCHANGED channel,
         producer' \in [at : {"none", "sending", "ok", "QueueClosed"}, next : Nat],
         producer'.at = "sending" => producer.at = "sending",
         ~channel.closed => producer'.next = producer.next,
         producer'.at = "ok" => signal \/ producer'.next > Len(fixture)
  PROVE  RtInv'
<1>1. UNCHANGED <<log, signal, daemon, fixture, channel>>
  BY DEF ProducerFrame, Frame
<1>2. RtTypes' /\ LogContinuesFixture'
  BY <1>1 DEF RtInv, RtTypes, LogContinuesFixture, RecoveryMatches, PositionMatches, Payload
<1>3. ReplayedLog' /\ LoopTypes' /\ LoopPosition' /\ ServedWhole'
  BY <1>1 DEF RtInv, ReplayedLog, LoopTypes, LoopPosition, ServedWhole, NextEpoch
<1>4. LoopFollowsFixture'
  BY <1>1 DEF RtInv, LoopFollowsFixture, Done
<1>5. LoopEnds'
  BY <1>1 DEF RtInv, LoopEnds
<1>6. ProducerOfLoop'
  BY <1>1 DEF RtInv, ProducerOfLoop
<1> QED
  BY <1>2, <1>3, <1>4, <1>5, <1>6 DEF RtInv

LEMMA ProducerEndKeeps == ASSUME RtInv, producer_end PROVE RtInv'
<1>1. producer' = [producer EXCEPT !.at = "ok"] /\ UNCHANGED channel /\ ProducerFrame
      /\ (signal \/ producer.next > Len(fixture))
  BY DEF producer_end
<1>2. producer' \in [at : {"none", "sending", "ok", "QueueClosed"}, next : Nat]
      /\ producer'.next = producer.next /\ producer'.at = "ok"
  BY <1>1, ProducerTypes
<1> QED
  BY <1>1, <1>2, ProducerStops

LEMMA ProducerClosedKeeps == ASSUME RtInv, producer_closed PROVE RtInv'
<1>1. /\ producer.at = "sending" /\ channel.closed /\ UNCHANGED channel /\ ProducerFrame
      /\ \/ producer' = [producer EXCEPT !.next = producer.next + 1]
         \/ producer' = [producer EXCEPT !.at = "QueueClosed"]
  BY DEF producer_closed
<1>2. producer' \in [at : {"none", "sending", "ok", "QueueClosed"}, next : Nat] /\ producer'.at # "ok"
  BY <1>1, ProducerTypes
<1> QED
  BY <1>1, <1>2, ProducerStops

\* What is sent is the next record of the fixture.
LEMMA ProducerSendKeeps == ASSUME RtInv, producer_send PROVE RtInv'
<1>1. UNCHANGED <<log, signal, daemon, fixture>>
  BY DEF producer_send, ProducerFrame, Frame
<1>2. /\ producer.at = "sending" /\ producer.next <= Len(fixture) /\ ~channel.closed
      /\ channel' = [channel EXCEPT !.queue = Append(channel.queue, fixture[producer.next])]
      /\ producer' = [producer EXCEPT !.next = producer.next + 1]
  BY DEF producer_send
<1> DEFINE queue == channel.queue
           sent == Append(queue, fixture[producer.next])
<1>3. /\ queue \in Seq(Payload) /\ Len(queue) \in Nat /\ producer.next \in Nat /\ Len(fixture) \in Nat
      /\ Len(log) \in Nat /\ Done \in Int
  BY ProducerTypes, FixtureFacts
<1>4. /\ daemon.at \in LoopStates /\ Done >= 0 /\ producer.next = Done + Len(queue) + 1
      /\ \A i \in 1 .. Len(queue) : queue[i] = fixture[Done + i]
  BY <1>2 DEF RtInv, ProducerOfLoop, LoopFollowsFixture
<1>5. fixture[producer.next] \in Payload
  BY <1>2, <1>3, <1>4, FixtureFacts
<1>6. /\ sent \in Seq(Payload) /\ Len(sent) = Len(queue) + 1
      /\ sent[Len(queue) + 1] = fixture[producer.next] /\ \A i \in 1 .. Len(queue) : sent[i] = queue[i]
  BY <1>3, <1>5, AppendFacts
<1> HIDE DEF sent
<1>7. channel'.queue = sent /\ channel'.closed = channel.closed
      /\ channel' \in [queue : Seq(Payload), closed : BOOLEAN]
  BY <1>2, <1>6, ProducerTypes DEF sent
<1>8. producer'.at = "sending" /\ producer'.next = producer.next + 1
      /\ producer' \in [at : {"none", "sending", "ok", "QueueClosed"}, next : Nat]
  <2>1. producer \in [at : {"none", "sending", "ok", "QueueClosed"}, next : Nat] /\ producer.next + 1 \in Nat
    BY <1>3, ProducerTypes
  <2> QED
    BY <1>2, <2>1
<1>9. RtTypes' /\ LogContinuesFixture'
  BY <1>1, <1>7, <1>8 DEF RtInv, RtTypes, LogContinuesFixture, RecoveryMatches, PositionMatches, Payload
<1>10. ReplayedLog' /\ LoopTypes' /\ LoopPosition' /\ ProducerOfLoop' /\ ServedWhole'
  BY <1>1, <1>4 DEF RtInv, ReplayedLog, LoopTypes, LoopPosition, ProducerOfLoop, ServedWhole, NextEpoch
<1>11. LoopFollowsFixture'
  <2>1. Done' = Done
    BY <1>1 DEF Done
  <2>2. Done + Len(sent) <= Len(fixture) /\ producer'.next = Done + Len(sent) + 1
    <3>1. Len(sent) = Len(queue) + 1 /\ producer.next = Done + Len(queue) + 1
      BY <1>4, <1>6
    <3>2. producer.next <= Len(fixture) /\ producer'.next = producer.next + 1
      BY <1>2, <1>8
    <3> HIDE DEF queue
    <3> QED
      BY <1>3, <3>1, <3>2
  <2>3. \A i \in 1 .. Len(sent) : sent[i] = fixture[Done + i]
    <3> TAKE i \in 1 .. Len(sent)
    <3>1. i \in 1 .. Len(queue) \/ (i = Len(queue) + 1 /\ producer.next = Done + i)
      BY <1>3, <1>4, <1>6
    <3> QED
      BY <1>4, <1>6, <3>1
  <2>4. sent # <<>>
    <3>1. Len(sent) # 0
      BY <1>3, <1>6
    <3> QED
      BY <3>1
  <2> QED
    BY <1>1, <1>4, <1>7, <2>1, <2>2, <2>3, <2>4 DEF LoopFollowsFixture
<1>12. LoopEnds'
  <2>1. daemon.at # "joining"
    BY <1>2, <1>4 DEF RtInv, LoopEnds
  <2> QED
    BY <1>1, <1>7, <1>8, <2>1 DEF RtInv, LoopEnds
<1> QED
  BY <1>9, <1>10, <1>11, <1>12 DEF RtInv

-----------------------------------------------------------------------------
(* The loop                                                                    *)

LEMMA LoopRecord ==
  ASSUME RtInv, daemon.at \in LoopStates, NEW at \in LoopStates
  PROVE  /\ [daemon EXCEPT !.at = at].at = at /\ [daemon EXCEPT !.at = at].epoch = daemon.epoch
         /\ [daemon EXCEPT !.at = at].next_sequence = daemon.next_sequence
         /\ [daemon EXCEPT !.at = at].cancelled = daemon.cancelled
         /\ [daemon EXCEPT !.at = at] \in
              [at : LoopStates, engine : {[daemon EXCEPT !.at = at].engine}, epoch : Nat,
               next_sequence : Nat, cancelled : BOOLEAN]
<1>1. daemon \in [at : LoopStates, engine : {daemon.engine}, epoch : Nat, next_sequence : Nat,
                  cancelled : BOOLEAN]
  BY DEF RtInv, LoopTypes
<1> QED
  BY <1>1

LEMMA LoopInMain == LoopStates \subseteq MainStates
BY DEF MainStates

\* A step of the loop that only moves it from "ingesting" on to a record or to its end.
LEMMA LoopMoves ==
  ASSUME RtInv, daemon.at = "ingesting", NEW at \in {"appending", "joining"},
         daemon' = [daemon EXCEPT !.at = at],
         UNCHANGED <<fixture, log, channel, signal, producer>>,
         at = "appending" => channel.queue # <<>>,
         at = "joining" => channel.queue = <<>> /\ (channel.closed \/ producer.at # "sending")
  PROVE  RtInv'
<1>1. daemon.at \in LoopStates /\ at \in LoopStates
  BY DEF LoopStates
<1>2. /\ daemon'.at = at /\ daemon'.epoch = daemon.epoch /\ daemon'.next_sequence = daemon.next_sequence
      /\ daemon'.cancelled = daemon.cancelled
      /\ daemon' \in [at : LoopStates, engine : {daemon'.engine}, epoch : Nat, next_sequence : Nat,
                      cancelled : BOOLEAN]
  BY <1>1, LoopRecord
<1>3. RtTypes' /\ LogContinuesFixture'
  BY <1>1, <1>2, LoopInMain
     DEF RtInv, RtTypes, LogContinuesFixture, RecoveryMatches, PositionMatches, Payload
<1>4. LoopTypes' /\ LoopPosition'
  BY <1>1, <1>2 DEF RtInv, LoopTypes, LoopPosition, NextEpoch
<1>5. LoopFollowsFixture'
  <2>1. Done' = Done
    BY <1>2 DEF Done
  <2> QED
    BY <1>1, <1>2, <2>1 DEF RtInv, LoopFollowsFixture
<1>6. LoopEnds'
  BY <1>1, <1>2 DEF RtInv, LoopEnds
<1>7. ReplayedLog' /\ ProducerOfLoop' /\ ServedWhole'
  BY <1>1, <1>2 DEF RtInv, ReplayedLog, ProducerOfLoop, ServedWhole
<1> QED
  BY <1>3, <1>4, <1>5, <1>6, <1>7 DEF RtInv

LEMMA RecvKeeps == ASSUME RtInv, ingest_recv PROVE RtInv'
<1>1. UNCHANGED <<fixture, log, channel, signal, producer>>
  BY DEF ingest_recv, Frame
<1>2. daemon.at = "ingesting" /\ daemon' = [daemon EXCEPT !.at = "appending"] /\ channel.queue # <<>>
  BY DEF ingest_recv, Goto
<1> QED
  BY <1>1, <1>2, LoopMoves

LEMMA EndKeeps == ASSUME RtInv, ingest_end PROVE RtInv'
<1>1. UNCHANGED <<fixture, log, channel, signal, producer>>
  BY DEF ingest_end, Frame
<1>2. daemon.at = "ingesting" /\ daemon' = [daemon EXCEPT !.at = "joining"] /\ channel.queue = <<>>
      /\ (channel.closed \/ producer.at # "sending")
  BY DEF ingest_end, Goto
<1> QED
  BY <1>1, <1>2, LoopMoves

LEMMA CancelKeeps == ASSUME RtInv, ingest_cancel PROVE RtInv'
<1>1. UNCHANGED <<fixture, log, signal, producer>>
  BY DEF ingest_cancel, Frame
<1>2. daemon.at = "ingesting" /\ signal /\ daemon.at \in LoopStates
      /\ daemon' = [daemon EXCEPT !.cancelled = TRUE] /\ channel' = [channel EXCEPT !.closed = TRUE]
  BY DEF ingest_cancel, Goto, LoopStates
<1>3. daemon \in [at : LoopStates, engine : {daemon.engine}, epoch : Nat, next_sequence : Nat,
                  cancelled : BOOLEAN]
  BY <1>2 DEF RtInv, LoopTypes
<1>4. /\ daemon'.at = "ingesting" /\ daemon'.epoch = daemon.epoch /\ daemon'.cancelled
      /\ daemon'.next_sequence = daemon.next_sequence
      /\ daemon' \in [at : LoopStates, engine : {daemon'.engine}, epoch : Nat, next_sequence : Nat,
                      cancelled : BOOLEAN]
  BY <1>2, <1>3
<1>5. channel' \in [queue : Seq(Payload), closed : BOOLEAN] /\ channel'.queue = channel.queue /\ channel'.closed
  BY <1>2, ProducerTypes
<1>6. RtTypes' /\ LogContinuesFixture'
  BY <1>1, <1>2, <1>4, <1>5, LoopInMain
     DEF RtInv, RtTypes, LogContinuesFixture, RecoveryMatches, PositionMatches, Payload
<1>7. LoopTypes' /\ LoopPosition'
  BY <1>1, <1>2, <1>4 DEF RtInv, LoopTypes, LoopPosition, NextEpoch
<1>8. LoopFollowsFixture'
  <2>1. Done' = Done
    BY <1>1, <1>2, <1>4 DEF Done
  <2> QED
    BY <1>1, <1>2, <1>4, <1>5, <2>1 DEF RtInv, LoopFollowsFixture
<1>9. LoopEnds'
  BY <1>1, <1>2, <1>4, <1>5 DEF RtInv, LoopEnds
<1>10. ReplayedLog' /\ ProducerOfLoop' /\ ServedWhole'
  BY <1>2, <1>4 DEF ReplayedLog, ProducerOfLoop, ServedWhole
<1> QED
  BY <1>6, <1>7, <1>8, <1>9, <1>10 DEF RtInv

\* The record that was appended continues the log, and the position after it is the loop's next.
LEMMA AppendKeeps == ASSUME RtInv, append_and_sync PROVE RtInv'
<1>1. UNCHANGED <<fixture, channel, signal, producer>>
  BY DEF append_and_sync, Frame, Quiet
<1>2. /\ daemon.at = "appending" /\ daemon.at \in LoopStates /\ log' = Append(log, Record)
      /\ daemon' = [daemon EXCEPT !.at = "persisted", !.next_sequence = daemon.next_sequence + 1]
  BY DEF append_and_sync, Goto, LoopStates
<1>3. daemon \in [at : LoopStates, engine : {daemon.engine}, epoch : Nat, next_sequence : Nat,
                  cancelled : BOOLEAN] /\ "persisted" \in LoopStates
  BY <1>2 DEF RtInv, LoopTypes, LoopStates
<1>4. /\ daemon'.at = "persisted" /\ daemon'.epoch = daemon.epoch /\ daemon'.cancelled = daemon.cancelled
      /\ daemon'.next_sequence = daemon.next_sequence + 1
      /\ daemon' \in [at : LoopStates, engine : {daemon'.engine}, epoch : Nat, next_sequence : Nat,
                      cancelled : BOOLEAN]
  <2> DEFINE n == daemon.next_sequence + 1
  <2>1. n \in Nat
    BY <1>3
  <2> HIDE DEF n
  <2>2. daemon' = [daemon EXCEPT !.at = "persisted", !.next_sequence = n]
    BY <1>2 DEF n
  <2>3. /\ daemon'.at = "persisted" /\ daemon'.epoch = daemon.epoch /\ daemon'.cancelled = daemon.cancelled
        /\ daemon'.next_sequence = n
        /\ daemon' \in [at : LoopStates, engine : {daemon'.engine}, epoch : Nat, next_sequence : Nat,
                        cancelled : BOOLEAN]
    BY <1>3, <2>1, <2>2
  <2> QED
    BY <2>3 DEF n
<1>5. /\ RecoveryMatches(log') /\ log' \in Seq([payload : Payload, epoch : Nat, sequence : Nat])
      /\ Len(log) + Len(channel.queue) <= Len(fixture) /\ channel.queue # <<>>
  BY <1>2, AppendContinues
<1>6. /\ Len(log') = Len(log) + 1 /\ log'[Len(log) + 1] = Record /\ Len(log) \in Nat
      /\ Len(channel.queue) \in Nat
  <2>1. log \in Seq([payload : Payload, epoch : Nat, sequence : Nat])
    BY DEF RtInv, RtTypes
  <2> QED
    BY <1>2, <2>1, ProducerTypes
<1>7. RtTypes' /\ LogContinuesFixture'
  <2>1. LogContinuesFixture'
    BY <1>1, <1>5 DEF LogContinuesFixture, RecoveryMatches
  <2>2. daemon'.at \in MainStates
    BY <1>3, <1>4, LoopInMain
  <2> QED
    BY <1>1, <1>5, <2>1, <2>2 DEF RtInv, RtTypes, Payload
<1>8. LoopTypes'
  BY <1>4 DEF LoopTypes
<1>9. LoopPosition'
  <2>1. log'[Len(log')].epoch = daemon'.epoch /\ daemon'.next_sequence = log'[Len(log')].sequence + 1
    BY <1>4, <1>6 DEF Record
  <2>2. log' # <<>>
    <3>1. Len(log') # 0
      BY <1>6
    <3> QED
      BY <3>1
  <2> QED
    BY <2>1, <2>2 DEF LoopPosition
<1>10. LoopFollowsFixture'
  <2>1. Done' = Len(log) /\ Done = Len(log)
    <3>1. Done' = Len(log') - 1
      BY <1>4 DEF Done
    <3>2. Len(log') - 1 = Len(log)
      BY <1>6
    <3> QED
      BY <1>2, <3>1, <3>2 DEF Done
  <2>2. Len(log) >= 0
    BY <1>6
  <2> QED
    BY <1>1, <1>2, <1>5, <2>1, <2>2 DEF RtInv, LoopFollowsFixture
<1>11. LoopEnds'
  BY <1>1, <1>2, <1>4 DEF RtInv, LoopEnds
<1>12. ReplayedLog' /\ ProducerOfLoop' /\ ServedWhole'
  BY <1>3, <1>4 DEF ReplayedLog, ProducerOfLoop, ServedWhole
<1> QED
  BY <1>7, <1>8, <1>9, <1>10, <1>11, <1>12 DEF RtInv

LEMMA AppendFailsKeeps == ASSUME RtInv, append_fails PROVE RtInv'
<1>1. UNCHANGED fixture /\ daemon.at = "appending" /\ log' \in {log, Append(log, Record)} /\ Exit("Persistence")
  BY DEF append_fails
<1>2. RecoveryMatches(log') /\ log' \in Seq([payload : Payload, epoch : Nat, sequence : Nat])
  BY <1>1, AppendContinues DEF RtInv, RtTypes, LogContinuesFixture
<1> QED
  BY <1>1, <1>2, ExitKeeps

\* A processed record leaves the queue, or the process ends with the error it met.
LEMMA ProcessKeeps == ASSUME RtInv, process_new PROVE RtInv'
<1>1. UNCHANGED <<fixture, log>> /\ daemon.at = "persisted" /\ daemon.at \in LoopStates
  BY DEF process_new, Frame, LoopStates
<1>2. CASE \E status : Exit(status)
  BY <1>1, <1>2, ExitSameLog
<1>3. CASE \E engine : /\ daemon' = [daemon EXCEPT !.at = "ingesting", !.engine = engine]
                       /\ channel' = [channel EXCEPT !.queue = Tail(channel.queue)]
                       /\ UNCHANGED <<producer, signal>>
  <2>1. PICK engine : /\ daemon' = [daemon EXCEPT !.at = "ingesting", !.engine = engine]
                      /\ channel' = [channel EXCEPT !.queue = Tail(channel.queue)]
                      /\ UNCHANGED <<producer, signal>>
    BY <1>3
  <2> DEFINE queue == channel.queue
  <2>2. daemon \in [at : LoopStates, engine : {daemon.engine}, epoch : Nat, next_sequence : Nat,
                    cancelled : BOOLEAN] /\ "ingesting" \in LoopStates
    BY <1>1 DEF RtInv, LoopTypes, LoopStates
  <2>3. /\ daemon'.at = "ingesting" /\ daemon'.epoch = daemon.epoch /\ daemon'.cancelled = daemon.cancelled
        /\ daemon'.next_sequence = daemon.next_sequence
        /\ daemon' \in [at : LoopStates, engine : {daemon'.engine}, epoch : Nat, next_sequence : Nat,
                        cancelled : BOOLEAN]
    BY <2>1, <2>2
  <2>4. /\ queue \in Seq(Payload) /\ Len(queue) \in Nat /\ Len(log) \in Nat /\ Len(fixture) \in Nat
        /\ channel \in [queue : Seq(Payload), closed : BOOLEAN] /\ producer.next \in Nat
    BY ProducerTypes, FixtureFacts
  <2>5. /\ queue # <<>> /\ Done >= 0 /\ Done + Len(queue) <= Len(fixture)
        /\ \A i \in 1 .. Len(queue) : queue[i] = fixture[Done + i]
        /\ ~channel.closed => producer.next = Done + Len(queue) + 1
    BY <1>1 DEF RtInv, LoopFollowsFixture
  <2>6. /\ Tail(queue) \in Seq(Payload) /\ Len(Tail(queue)) = Len(queue) - 1 /\ Len(queue) > 0
        /\ \A i \in 1 .. Len(queue) - 1 : Tail(queue)[i] = queue[i + 1]
    BY <2>4, <2>5, TailFacts
  <2>7. /\ channel' \in [queue : Seq(Payload), closed : BOOLEAN]
        /\ channel'.queue = Tail(queue) /\ channel'.closed = channel.closed
    BY <2>1, <2>4, <2>6
  <2>8. RtTypes' /\ LogContinuesFixture'
    BY <1>1, <2>1, <2>2, <2>3, <2>7, LoopInMain
       DEF RtInv, RtTypes, LogContinuesFixture, RecoveryMatches, PositionMatches, Payload
  <2>9. LoopTypes' /\ LoopPosition'
    BY <1>1, <2>3 DEF RtInv, LoopTypes, LoopPosition, NextEpoch
  <2>10. LoopFollowsFixture'
    <3>1. Done = Len(log) - 1 /\ Done' = Len(log)
      BY <1>1, <2>3 DEF Done
    <3> HIDE DEF queue
    <3>2. Len(log) >= 0 /\ Len(log) + Len(Tail(queue)) <= Len(fixture)
      BY <2>4, <2>5, <2>6, <3>1
    <3>3. \A i \in 1 .. Len(Tail(queue)) : Tail(queue)[i] = fixture[Len(log) + i]
      <4> TAKE i \in 1 .. Len(Tail(queue))
      <4>1. i \in 1 .. Len(queue) - 1 /\ i + 1 \in 1 .. Len(queue) /\ Done + (i + 1) = Len(log) + i
        BY <2>4, <2>6, <3>1
      <4> QED
        BY <2>5, <2>6, <4>1
    <3>4. ~channel.closed => producer.next = Len(log) + Len(Tail(queue)) + 1
      BY <2>4, <2>5, <2>6, <3>1
    <3> QED
      BY <1>1, <2>1, <2>3, <2>7, <3>1, <3>2, <3>3, <3>4 DEF LoopFollowsFixture
  <2>11. LoopEnds'
    BY <1>1, <2>1, <2>3, <2>7 DEF RtInv, LoopEnds
  <2>12. ReplayedLog' /\ ProducerOfLoop' /\ ServedWhole'
    BY <2>2, <2>3 DEF ReplayedLog, ProducerOfLoop, ServedWhole
  <2> QED
    BY <2>8, <2>9, <2>10, <2>11, <2>12 DEF RtInv
<1>4. \/ \E status : Exit(status)
      \/ \E engine : /\ daemon' = [daemon EXCEPT !.at = "ingesting", !.engine = engine]
                     /\ channel' = [channel EXCEPT !.queue = Tail(channel.queue)]
                     /\ UNCHANGED <<producer, signal>>
  BY DEF process_new, Goto
<1> QED
  BY <1>2, <1>3, <1>4

\* A loop that ended without a signal, and a producer that ended well, have the whole fixture in the log.
LEMMA JoinKeeps == ASSUME RtInv, join_producer PROVE RtInv'
<1>1. UNCHANGED <<fixture, log>> /\ daemon.at = "joining" /\ daemon.at \in LoopStates
  BY DEF join_producer, Frame, LoopStates
<1>2. CASE \E status : Exit(status)
  BY <1>1, <1>2, ExitSameLog
<1>3. CASE /\ producer.at = "ok" /\ ~daemon.cancelled /\ ~signal
           /\ daemon' = [at |-> "serving", snapshot |-> FinalSnapshot]
           /\ UNCHANGED <<channel, producer, signal>>
  <2>1. daemon'.at = "serving" /\ daemon' = [at |-> daemon'.at, snapshot |-> FinalSnapshot]
    BY <1>3
  <2>2. Len(log) = Len(fixture)
    <3>1. channel.queue = <<>> /\ ~channel.closed /\ producer.next > Len(fixture)
      BY <1>1, <1>3 DEF RtInv, LoopEnds
    <3>2. Done = Len(log) /\ Len(channel.queue) = 0
      BY <1>1, <3>1 DEF Done
    <3>3. producer.next = Len(log) + 0 + 1
      BY <1>1, <3>1, <3>2 DEF RtInv, LoopFollowsFixture
    <3>4. Len(log) <= Len(fixture) /\ Len(log) \in Nat /\ Len(fixture) \in Nat
      BY ProducerTypes, FixtureFacts DEF RtInv, LogContinuesFixture, RecoveryMatches
    <3> QED
      BY <3>1, <3>3, <3>4
  <2>3. RtTypes' /\ LogContinuesFixture'
    BY <1>1, <1>3, <2>1
       DEF RtInv, RtTypes, LogContinuesFixture, RecoveryMatches, PositionMatches, Payload, MainStates
  <2>4. ReplayedLog' /\ LoopTypes' /\ LoopPosition' /\ LoopFollowsFixture' /\ LoopEnds'
    BY <2>1 DEF ReplayedLog, LoopTypes, LoopPosition, LoopFollowsFixture, LoopEnds, LoopStates
  <2>5. ProducerOfLoop' /\ ServedWhole'
    BY <1>1, <1>3, <2>1, <2>2 DEF ProducerOfLoop, ServedWhole
  <2> QED
    BY <2>3, <2>4, <2>5 DEF RtInv
<1> QED
  BY <1>2, <1>3 DEF join_producer, Goto, Quiet, validate_final_snapshot

LEMMA ServingKeeps == ASSUME RtInv, announce \/ wait_for_shutdown PROVE RtInv'
<1>1. /\ UNCHANGED <<fixture, log, channel, producer, signal>> /\ daemon.at \in {"serving", "ready"}
      /\ \E at \in {"ready", "closing"} : daemon' = [daemon EXCEPT !.at = at]
  BY DEF announce, wait_for_shutdown, Frame, Quiet, Goto
<1>2. Len(log) = Len(fixture) /\ daemon = [at |-> daemon.at, snapshot |-> FinalSnapshot]
  BY <1>1 DEF RtInv, ServedWhole
<1>3. daemon'.at \in {"ready", "closing"} /\ daemon' = [at |-> daemon'.at, snapshot |-> FinalSnapshot]
  BY <1>1, <1>2
<1>4. RtTypes' /\ LogContinuesFixture'
  BY <1>1, <1>3
     DEF RtInv, RtTypes, LogContinuesFixture, RecoveryMatches, PositionMatches, Payload, MainStates
<1>5. ReplayedLog' /\ LoopTypes' /\ LoopPosition' /\ LoopFollowsFixture' /\ LoopEnds'
  BY <1>3 DEF ReplayedLog, LoopTypes, LoopPosition, LoopFollowsFixture, LoopEnds, LoopStates
<1>6. ProducerOfLoop' /\ ServedWhole'
  BY <1>1, <1>2, <1>3 DEF RtInv, ProducerOfLoop, ServedWhole, LoopStates
<1> QED
  BY <1>4, <1>5, <1>6 DEF RtInv

LEMMA EndingKeeps == ASSUME RtInv, shutdown_running \/ process_dies PROVE RtInv'
<1>1. UNCHANGED <<fixture, log>> /\ \E status : Exit(status)
  BY DEF shutdown_running, process_dies, Frame
<1> QED
  BY <1>1, ExitSameLog

LEMMA SignalKeeps == ASSUME RtInv, receive_signal PROVE RtInv'
<1>1. UNCHANGED <<fixture, log, daemon, channel, producer>> /\ signal' = TRUE
  BY DEF receive_signal, Frame
<1>2. RtTypes' /\ LogContinuesFixture'
  BY <1>1 DEF RtInv, RtTypes, LogContinuesFixture, RecoveryMatches, PositionMatches, Payload
<1>3. ReplayedLog' /\ LoopTypes' /\ LoopPosition' /\ ProducerOfLoop' /\ ServedWhole'
  BY <1>1 DEF RtInv, ReplayedLog, LoopTypes, LoopPosition, ProducerOfLoop, ServedWhole, NextEpoch
<1>4. LoopFollowsFixture' /\ LoopEnds'
  BY <1>1 DEF RtInv, LoopFollowsFixture, LoopEnds, Done
<1> QED
  BY <1>2, <1>3, <1>4 DEF RtInv

-----------------------------------------------------------------------------
(* The theorems                                                                *)

LEMMA RuntimeStepKeeps == ASSUME RtInv, [RtNext]_rtVars PROVE RtInv'
<1>1. CASE start_runtime \/ BookSteps
  BY <1>1, OpeningKeeps, ReplayKeeps, ProcessKeeps DEF BookSteps
<1>2. CASE LoopSteps
  BY <1>2, OpeningKeeps, SpawnKeeps, CancelKeeps, RecvKeeps, AppendKeeps, EndKeeps, JoinKeeps, ServingKeeps,
     EndingKeeps DEF LoopSteps
<1>3. CASE ProducerSteps
  BY <1>3, ProducerEndKeeps, ProducerSendKeeps, ProducerClosedKeeps DEF ProducerSteps
<1>4. CASE append_fails \/ receive_signal \/ process_dies
  BY <1>4, AppendFailsKeeps, SignalKeeps, EndingKeeps
<1>5. CASE UNCHANGED rtVars
  <2>1. UNCHANGED <<fixture, log, signal, daemon, channel, producer>>
    BY <1>5 DEF rtVars
  <2>2. RtTypes' /\ LogContinuesFixture'
    BY <2>1 DEF RtInv, RtTypes, LogContinuesFixture, RecoveryMatches, PositionMatches, Payload
  <2>3. ReplayedLog' /\ LoopTypes' /\ LoopPosition' /\ ProducerOfLoop' /\ ServedWhole'
    BY <2>1 DEF RtInv, ReplayedLog, LoopTypes, LoopPosition, ProducerOfLoop, ServedWhole, NextEpoch
  <2>4. LoopFollowsFixture' /\ LoopEnds'
    BY <2>1 DEF RtInv, LoopFollowsFixture, LoopEnds, Done
  <2> QED
    BY <2>2, <2>3, <2>4 DEF RtInv
<1> QED
  BY <1>1, <1>2, <1>3, <1>4, <1>5 DEF RtNext

\* The runtime keeps RtInv through starts, signals, deaths and failed appends, for any fixtures, channel
\* capacity and number of starts.
THEOREM RuntimeInvariant == RtSpec => []RtInv
<1>1. RtInit => RtInv
  BY RuntimeStarts
<1>2. RtInv /\ [RtNext]_rtVars => RtInv'
  BY RuntimeStepKeeps
<1> QED
  BY <1>1, <1>2, PTL DEF RtSpec

\* The comparison of start_fixture_runtime_with_limits never refuses a log that earlier starts left:
\* its records are a prefix of the fixture and their positions continue, epoch by epoch.
THEOREM RecoveryNeverMismatches == RtSpec => []LogContinuesFixture
<1>1. RtInv => LogContinuesFixture
  BY DEF RtInv
<1> QED
  BY <1>1, RuntimeInvariant, PTL

\* A daemon whose server is up has every record of the fixture in the raw log, in order and once, and
\* serves the snapshot validate_final_snapshot expects.
ServedWholeFixture ==
  daemon.at \in {"serving", "ready"} => Payloads(log) = fixture /\ daemon.snapshot = FinalSnapshot

\* No daemon serves before the whole fixture is persisted, however many starts that took: the half of
\* ServedWasPersisted that does not unfold the order book's replay.
THEOREM ServesThePersistedFixture == RtSpec => []ServedWholeFixture
<1>1. ASSUME RtInv PROVE ServedWholeFixture
  <2> SUFFICES ASSUME daemon.at \in {"serving", "ready"}
               PROVE  Payloads(log) = fixture /\ daemon.snapshot = FinalSnapshot
    BY DEF ServedWholeFixture
  <2>1. Len(log) = Len(fixture) /\ daemon = [at |-> daemon.at, snapshot |-> FinalSnapshot]
    BY <1>1 DEF RtInv, ServedWhole
  <2>2. daemon.snapshot = FinalSnapshot
    BY <2>1
  <2>3. log \in Seq([payload : Payload, epoch : Nat, sequence : Nat])
    BY <1>1 DEF RtInv, RtTypes
  <2>4. DOMAIN log = 1 .. Len(fixture) /\ \A i \in DOMAIN log : log[i].payload = fixture[i]
    BY <1>1, <2>1, <2>3 DEF RtInv, LogContinuesFixture, RecoveryMatches
  <2>5. fixture \in Seq(Payload)
    BY <1>1, FixtureFacts
  <2>6. fixture = [i \in 1 .. Len(fixture) |-> fixture[i]]
    BY <2>5
  <2>7. Payloads(log) = [i \in 1 .. Len(fixture) |-> fixture[i]]
    BY <2>4 DEF Payloads
  <2> QED
    BY <2>2, <2>6, <2>7
<1> QED
  BY <1>1, RuntimeInvariant, PTL

=============================================================================
