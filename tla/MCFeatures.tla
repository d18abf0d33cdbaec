----------------------------- MODULE MCFeatures -----------------------------
(***************************************************************************)
(* Small instances of the feature engine.  part picks, in Init, which of    *)
(* eight scenes a behaviour plays: one window, two adjacent windows of one asset, one    *)
(* window of two assets, features derived from emitted ones; of a streaming  *)
(* consumer its average, its revisions and its clock; and the sealed feature *)
(* dataset with its corrections.                                             *)
(***************************************************************************)
EXTENDS FeatureFlow, PointInTime

CONSTANT OwnTrackers      \* TRUE: each window has a tracker of its own

VARIABLE part

mcVars == <<part, flowVars, streamVars, storeVars>>

W(a, b) == [start |-> a, end |-> b]
First == W(1, 3)
Second == W(3, 5)
Middle == W(2, 4)
Long == W(1, 4)

MCAssets == {1, 2}
MCWindows == {First, Second, Middle, Long}
MCTrackerOf == [c \in MCAssets \X MCWindows |->
  IF OwnTrackers /\ c[2] = Second THEN 3 ELSE c[1]]

Key(s) == [source |-> s, partition |-> 1]
RequiredPartition(s) == [source |-> s, partition |-> 1, role |-> "Required"]
MCConfigsOf == [id \in 1..3 |->
  [asset |-> IF id = 2 THEN 2 ELSE 1,
   configs |-> IF id = 1 THEN <<RequiredPartition("alpha"), RequiredPartition("beta")>>
               ELSE IF id = 2 THEN <<RequiredPartition("alpha")>>
               ELSE <<RequiredPartition("alpha"), RequiredPartition("beta")>>]]

Update(s, time, known, health) ==
  [key |-> Key(s), update |-> [event_time |-> time, as_known_at |-> known, health |-> health]]
MCUpdatesOf == [id \in 1..3 |->
  LET sources == IF id = 2 THEN {"alpha"} ELSE {"alpha", "beta"}
  IN {Update(s, 4, 4, "Healthy") : s \in sources} \cup {Update(s, 6, 6, "Healthy") : s \in sources}
     \cup {Update("alpha", 6, 8, "Healthy"), Update("alpha", 6, 8, "Degraded")}]

CoverageOf(a) ==
  LET sources == IF a = 2 THEN {"alpha"} ELSE {"alpha", "beta"}
  IN [expected |-> sources, health |-> [s \in sources |-> "Healthy"]]
PriceAt(a, time, known, price) ==
  [entity |-> Asset(a), price |-> price, event_time |-> time, as_known_at |-> known,
   lineage |-> <<a, time, price>>, coverage |-> CoverageOf(a), quality |-> 10]

\* One price a minute and the close; in a second set the close is known late and the last
\* minute's price is missing.
Grid(a, w, late) ==
  [observations |-> [i \in 1..(w.end - w.start - (IF late THEN 1 ELSE 0)) |->
                      PriceAt(a, w.start + i - 1, w.start + i, IF i % 2 = a % 2 THEN 2 ELSE 1)],
   closing |-> PriceAt(a, w.end, IF late THEN 9 ELSE w.end, 4)]
MCPricesOf == [c \in MCAssets \X MCWindows |->
  {Grid(c[1], c[2], FALSE)} \cup IF c = <<1, First>> THEN {Grid(c[1], c[2], TRUE)} ELSE {}]

TradeAt(a, time, source, price) ==
  [asset |-> a, price |-> price, quantity |-> 1, event_time |-> time, as_known_at |-> 7,
   source |-> source, quality |-> 10, lineage |-> <<"trade", a, time>>]
MCTradesOf == [c \in MCAssets \X MCWindows |->
  IF c = <<1, First>> THEN {<<TradeAt(1, 1, "alpha", 1), TradeAt(1, 2, "beta", 2)>>,
                            <<TradeAt(1, 2, "alpha", 2)>>} ELSE {}]

MCBaseline == [asset |-> 1, hour |-> 72, factor |-> 2, fitted_through |-> 2, fit_end |-> 2,
               as_known_at |-> 2, inputs |-> << <<1, 2, "fit">> >>, quality |-> 10]
MCRolling == ("rolling_5m" :> 2) @@ ("rolling_15m" :> 3) @@ ("rolling_1h" :> 4)
Forecast == [asset |-> 1, window |-> First, generated_at |-> 1, as_known_at |-> 1, forecast |-> 1,
             package |-> "har", quality |-> 10]

MCStreamConfigs == <<RequiredPartition("alpha"),
                     [source |-> "gamma", partition |-> 1, role |-> "Optional"]>>
MCStreamUpdates == {Update("alpha", t, t, "Healthy") : t \in {2, 3, 4}}
                   \cup {Update("alpha", 4, 5, "Degraded"), Update("gamma", 1, 1, "Healthy")}
MCStreamWindow == W(1, 3)

-----------------------------------------------------------------------------
(* The observations of the dataset's fixtures                                  *)

Observed(id, revision, known, computed) ==
  [id |-> id, version |-> [major |-> 1, plain |-> TRUE, length |-> 5], entity |-> Asset(1),
   window_id |-> "rolling_5m", resolution |-> 1, datum |-> [present |-> TRUE, type |-> "Float64",
   value |-> revision], value_type |-> "Float64", start |-> 1, end |-> 3, as_known_at |-> known,
   computed_at |-> computed, watermark |-> 3, finality_as_known_at |-> 3,
   finality |-> IF revision = 1 THEN "Final" ELSE "Corrected", revision |-> revision,
   coverage |-> CoverageOf(1), quality |-> 10,
   normalization |-> [major |-> 1, plain |-> TRUE, length |-> 5], formula_hash |-> id,
   lineage |-> <<>>, inputs |-> <<id, "event">>, sequence |-> 1]

\* Two features, one row each; a row of a correction is any revision known or computed at any of
\* the times.
RowsOf(id, sequence) ==
  {[Observed(id, r, k, c) EXCEPT !.sequence = sequence] :
     r \in 1..3, k \in {3, 4, 6}, c \in {4, 6}}
Bases == {[version |-> 1, base |-> 0, known_at |-> 0,
           observations |-> <<[Observed("f", 1, 4, c) EXCEPT !.sequence = 1],
                              [Observed("g", 1, 3, 4) EXCEPT !.sequence = 2]>>] : c \in {4, 6}}
Corrections == {[version |-> b + 1, base |-> b, known_at |-> k, observations |-> <<x, y>>] :
                  b \in 1..2, k \in {4, 6}, x \in RowsOf("f", 1),
                  y \in {o \in RowsOf("g", 2) : o.revision <= 2 /\ o.computed_at = 4 /\ o.as_known_at = 3}}

StoreNext ==
  \/ \E f \in Bases, mode \in {"LiveSimulation", "WalReplay", "ParquetReplay"} :
       RunFixture(f, mode)
  \/ \E f \in Corrections, key \in DOMAIN partitions :
       RunCorrectionFixture(f, ManifestHash(partitions, key))
  \/ \E f \in Bases : VerifyFixtureDataset(f)

-----------------------------------------------------------------------------

SceneCells == CASE part = "single" -> {<<1, First>>}
                [] part = "adjacent" -> {<<1, First>>, <<1, Second>>}
                [] part = "pair" -> {<<1, First>>, <<2, First>>}
                [] part = "derived" -> {<<1, First>>, <<1, Middle>>, <<1, Long>>}
                [] OTHER -> {}
SceneTrackers == {TrackerOf[c] : c \in SceneCells}
\* The updates of the scene of derived features only finalize its windows, before the first
\* decision is taken; elsewhere they and the corrections also overtake decisions.
SceneUpdates(id) ==
  {u \in UpdatesOf[id] : CASE part = "derived" -> u.update.as_known_at = 6
                           [] part = "single" -> TRUE
                           [] part = "adjacent" -> u.update.as_known_at > 4
                           [] OTHER -> \/ u.update.as_known_at = 6
                                       \/ u.update.health = "Degraded"}
Decided(c) == part = "derived" => TrackerFor(c).update_sequence = 2

OnePriceKinds == PathKinds \cup MeasureKinds \cup RangeKinds \cup {"ExponentiallyWeightedVolatility"}

Emissions ==
  \/ /\ (part = "single" /\ emitted = <<>>) \/ part = "derived"
     /\ \E c \in SceneCells, kind \in IF part = "single" THEN OnePriceKinds ELSE {"RealizedVolatility"} :
          \E p \in priced[c] : EmitFromPrices(c, p, kind)
  \/ /\ part = "single" /\ emitted = <<>>
     /\ \E c \in SceneCells :
          \/ \E d \in held[c] : EmitMissing(c, d, "LogReturn", "SourceDisconnected")
          \/ \E p \in priced[c] : EmitSeasonal(c, p)
          \/ \E p \in priced[c], t \in traded[c] :
               EmitVwap(c, p, t, "RollingVwapDistance") \/ EmitFairPriceDistance(c, p, t)
  \/ /\ part = "adjacent" /\ emitted = <<>>
     /\ \E p \in priced[<<1, First>>], q \in priced[<<1, Second>>] :
          EmitGap(<<1, First>>, <<1, Second>>, p, q)
  \/ /\ part = "pair" /\ emitted = <<>>
     /\ \E p \in priced[<<1, First>>], q \in priced[<<2, First>>], kind \in PairKinds :
          EmitPair(<<2, First>>, <<1, First>>, q, p, kind)
  \/ /\ part = "derived"
     /\ \/ \E i, j \in DOMAIN emitted : EmitTermRatio(i, j) \/ EmitVolOfVol(i, j)
        \/ \E i \in DOMAIN emitted : EmitResidual(i, Forecast)

\* A scene's windows are built before its first emission.
Building ==
  \/ \E id \in SceneTrackers : \E u \in SceneUpdates(id) : Advance(id, u)
  \/ part \in {"single", "adjacent"} /\ \E c \in SceneCells : Correct(c, Key("beta"), c[2].start)
  \/ \E c \in SceneCells : Decided(c) /\ Decide(c)
  \/ \E c \in SceneCells : \E d \in held[c], input \in PricesOf[c] : BuildPrices(c, d, input)
  \/ part = "single" /\ \E c \in SceneCells : \E d \in held[c], input \in TradesOf[c] : BuildTrades(c, d, input)

FlowNext == \/ emitted = <<>> /\ Building
            \/ Emissions

StreamScene ==
  \/ part # "clock" /\ \E u \in StreamUpdates : StreamAdvance(u)
  \/ part # "revisions" /\ \E time \in EventTimes : Event(time, time)
  \/ part = "average" /\ Compact
  \/ part = "revisions" /\ (\/ TakeDecision \/ Apply \/ ApplyCorrection
                            \/ \E time \in EventTimes : TakeCorrection(Key("alpha"), time))
  \/ part = "clock" /\ (\/ \E id \in Timers, deadline \in EventTimes : Schedule(id, deadline)
                        \/ \E id \in Timers : Cancel(id))

Init ==
  /\ part \in {"single", "adjacent", "pair", "derived", "average", "revisions", "clock", "store"}
  /\ FlowInit /\ StreamInit /\ StoreInit

Next ==
  /\ UNCHANGED part
  /\ \/ part \in {"single", "adjacent", "pair", "derived"} /\ FlowNext /\ UNCHANGED <<streamVars, storeVars>>
     \/ part \in {"average", "revisions", "clock"} /\ StreamScene /\ UNCHANGED <<flowVars, storeVars>>
     \/ part = "store" /\ StoreNext /\ UNCHANGED <<flowVars, streamVars>>

Spec == Init /\ [][Next]_mcVars


=============================================================================
