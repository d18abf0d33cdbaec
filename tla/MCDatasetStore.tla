--------------------------- MODULE MCDatasetStore ---------------------------
(***************************************************************************)
(* A behaviour exercises one of three parts: one version with every kind   *)
(* of batch (a conflicting retry, an overlap, sets that fit and sets that  *)
(* do not) and one fault; one version whose publication is interrupted     *)
(* twice; a version and its correction, with one fault.                    *)
(***************************************************************************)
EXTENDS DatasetStore, TLC

VARIABLE part

vars == <<datasetVars, part>>

MCCoverage == 1 :> {1} @@ 2 :> {2} @@ 3 :> {2, 3}
MCBudgets == {<<2, 0>>, <<1, 0>>, <<0, 1>>}

MCOffers ==
    CASE part = "batches" -> {<<1, 1, 1>>, <<1, 1, 2>>, <<1, 2, 1>>, <<1, 3, 1>>}
      [] part = "deaths" -> {<<1, 1, 2>>, <<1, 2, 1>>}
      [] part = "correction" -> {<<1, 1, 1>>, <<2, 1, 2>>, <<2, 2, 1>>}

MCInit ==
    /\ DsInit
    /\ part \in {"batches", "deaths", "correction"}
    /\ faults.deaths = 2 <=> part = "deaths"

MCNext == DsNext(MCOffers) /\ UNCHANGED part
MCSpec == MCInit /\ [][MCNext]_vars /\ DsFairness
=============================================================================
