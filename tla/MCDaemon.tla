-------------------------------- MODULE MCDaemon --------------------------------
EXTENDS IngestionRuntime, DaemonSupervisor, TLC

CONSTANTS c1, c2

VARIABLE part

MCStopCallers == {c1, c2}

MCBookPrices == {1, 2}

Levels(f) == [p \in BookPrices |-> f[p]]

Snapshot(session, sequence, levels) ==
  [kind |-> "snapshot", session |-> session, first |-> sequence, last |-> sequence, prev |-> 0,
   levels |-> levels, valid |-> TRUE, at |-> 0, horizon |-> 0, exact |-> <<>>, checksum |-> <<>>]

Delta(session, first, last, updates) ==
  [kind |-> "delta", session |-> session, first |-> first, last |-> last, prev |-> first - 1,
   levels |-> updates, valid |-> TRUE, at |-> 0, horizon |-> 0, exact |-> <<>>, checksum |-> <<>>]

Opening == Snapshot(1, 1, <<1, 0>>)
Second == Delta(1, 2, 2, <<2>>)
Third == Delta(1, 3, 3, <<1>> @@ (2 :> 3))

\* The expected file, one whose last delta is repeated, one with a gap, one with a line that does not parse,
\* one that ends early and one whose session changes.
MCFixtures == {
  <<Opening, Second, Third>>,
  <<Opening, Second, Third, Third>>,
  <<Opening, Third>>,
  <<Opening, Garbage, Third>>,
  <<Opening, Second>>,
  <<Opening, Snapshot(2, 2, <<2, 0>>), Delta(2, 3, 3, (2 :> 3))>>}

MCFinalSnapshot == [sequence |-> 3, best |-> 2]

\* The supervisor is stopped twice by one caller, or once by two callers that meet.
MCInit ==
  /\ part \in {"runtime", "stops", "callers"}
  /\ RtInit /\ DsInit
  /\ part # "runtime" => fixture = <<Opening, Second, Third>>

MCNext ==
  /\ UNCHANGED part
  /\ \/ part = "runtime" /\ RtNext /\ UNCHANGED dsVars
     \/ /\ part # "runtime" /\ DsNext /\ UNCHANGED rtVars
        /\ IF part = "stops" THEN stopper'[c2] = None ELSE stops'[2].at = "idle"

MCSpec == MCInit /\ [][MCNext]_<<rtVars, dsVars, part>> /\ RtFairness /\ DsFairness

\* Starts, stops, signals, late launches and watched daemons all come to an end.
DaemonSettles == StartSettles /\ SupervisorSettles
=============================================================================
