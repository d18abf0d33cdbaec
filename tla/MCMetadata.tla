-------------------------------- MODULE MCMetadata --------------------------------
(* The metadata store with its catalog, and the catalog's writer alone: one    *)
(* run, two parts.                                                             *)
EXTENDS MetadataStore

CONSTANT c1

VARIABLE part

Spot(generation, listing, delisting, economics) ==
  [symbol |-> 1, generation |-> generation, listing |-> listing, delisting |-> delisting,
   economics |-> economics]

First     == Spot(1, 0, Never, 1)    \* the first generation, open ended
Closed    == Spot(1, 0, 2, 1)        \* the same, delisted at 2
Changed   == Spot(1, 0, Never, 2)    \* the same with other economics
Second    == Spot(2, 2, Never, 1)    \* its successor
Early     == Spot(2, 1, Never, 1)    \* its successor, listed while Closed still is
Other     == [Spot(1, 0, Never, 1) EXCEPT !.symbol = 2]

Define(d, known_at) == [kind |-> "definition", definition |-> d, known_at |-> known_at,
                        supersedes |-> 0, prior |-> d]

Correct(prior, supersedes, d, known_at) ==
  [kind |-> "correction", definition |-> d, known_at |-> known_at, supersedes |-> supersedes,
   prior |-> prior]

MCMutations ==
  {Define(d, t) : d \in {First, Closed, Second, Early, Other}, t \in {1, 2}}
    \cup {Correct(p[1], r, p[2], t) : r \in {1, 2}, t \in {1, 2},
            p \in {<<First, Closed>>, <<Closed, First>>, <<First, Changed>>, <<Second, Early>>,
                   <<First, Second>>}}

MCBatches == {<<m>> : m \in MCMutations} \cup {<<m, n>> : m, n \in MCMutations}

MCLimits == [records |-> 4, definitions |-> 3, symbols |-> 2, history |-> 2, corrections |-> 2, batch |-> 2]

Request(id, expected, mutations) == [id |-> id, expected |-> expected, mutations |-> mutations]

\* A definition; a different batch under its identifier; the hand-over to a successor; and a batch
\* of which one mutation is already present.
Defined    == Request(1, 0, <<Define(First, 1)>>)
Conflicting == Request(1, 0, <<Define(Other, 1)>>)
HandOver   == Request(2, 1, <<Correct(First, 1, Closed, 2), Define(Second, 2)>>)
Repeated   == Request(3, 1, <<Define(First, 2), Define(Other, 2)>>)

MCRequests == {Defined, Conflicting, HandOver, Repeated}

\* One event takes the identifier a catalog request will need.
MCAuditEvents == {[id |-> <<"catalog", 3>>, payload |-> <<1>>]}

Ask(requests) == {<<"catalog", r>> : r \in requests}

\* One caller with the requests, or two with a queue that is often full.
MCOffers ==
  [requests |-> [c \in Callers |-> IF c = c1 THEN Ask({Defined, Conflicting, HandOver}) ELSE {}],
   audits |-> [c \in Callers |-> IF c = c1 THEN Ask({Defined, Repeated})
                                                 \cup {<<"audit", a>> : a \in AuditEvents}
                                            ELSE {}],
   queue |-> [c \in Callers |-> Ask({Defined}) \cup IF c = c1 THEN {<<"checkpoint">>} ELSE {<<"read">>}]]

MCInit ==
  /\ part \in {"requests", "audits", "queue", "catalog"}
  /\ MsInit /\ IcInit

MCNext ==
  /\ UNCHANGED part
  /\ \/ part # "catalog" /\ MsNext(MCOffers[part]) /\ UNCHANGED icVars
           /\ (part # "queue" => readers' = 0)
     \/ part = "catalog" /\ IcNext /\ UNCHANGED msVars

MCSpec == MCInit /\ [][MCNext]_<<msVars, icVars, part>> /\ MsFairness
=============================================================================
