---------------------------- MODULE DatasetStore ----------------------------
(***************************************************************************)
(* The Parquet dataset store of crates/parquet-store: the calls            *)
(* DatasetWriter::write_batch and DatasetWriter::seal on the versions of   *)
(* one partition, one action per file-system operation, so that a death of *)
(* the process or a loss of power can fall between any two of them.        *)
(*                                                                         *)
(* The disk.  names[v][d] are the names in directory d of version v: the   *)
(* root (and the path components below it, taken as one directory) holds   *)
(* the partition directory; the partition holds `active', `sealed', the    *)
(* manifest and its temporary; active and sealed hold Parquet files and    *)
(* their temporaries.  hist[v][d] is every listing of d that a loss of     *)
(* power may leave: all of them since the last fsync of d.  The content of *)
(* a file is torn by a loss of power while it is not synced.               *)
(*                                                                         *)
(* A fragment is its batch identity and what the rows are; the digest of   *)
(* the identity orders the file names, so identities are numbers.  Hashes, *)
(* footers and schemas are not represented apart from the content they     *)
(* bind.  Only this store writes under the root.                           *)
(***************************************************************************)
EXTENDS Integers, Sequences, FiniteSets, FiniteSetsExt

CONSTANTS
    Versions,               \* dataset versions: 1..n, each corrects the one before
    Batches,                \* batch identities, ordered as their digests
    Contents,               \* what a caller may give for an identity: its size in bytes
    Coverage,               \* the source sequences each identity covers
    KnownAt,                \* times a correction may claim to be known at
    MaximumCorrectionDepth, \* DatasetPolicy::maximum_correction_depth
    MaximumActiveFragments, \* DatasetPolicy::maximum_active_fragments
    MaximumPartitionRows,   \* DatasetPolicy::maximum_partition_rows, in fragments
    MaximumPartitionBytes,  \* maximum_partition_bytes, which is maximum_file_bytes
    CompactOverhead,        \* bytes a compacted file has beside its rows
    FaultBudgets            \* pairs <<process deaths, power losses>> to start with

ASSUME DatasetConstants ==
    /\ Versions = 1..Cardinality(Versions)
    /\ Batches \subseteq Nat
    /\ MaximumCorrectionDepth \in Nat \ {0}
    /\ MaximumActiveFragments \in Nat \ {0}
    /\ MaximumPartitionRows \in Nat \ {0}
    /\ Contents \subseteq Nat \ {0}
    /\ MaximumPartitionBytes \in Nat
    /\ CompactOverhead \in Nat
    /\ FaultBudgets \subseteq Nat \X Nat

VARIABLES
    names, hist,    \* directories, and what a power loss may leave of them
    rows,           \* content of fragment b of version v, and whether it is synced
    files,          \* content of each sealed file of version v: a set of fragments
    manifest,       \* content of the manifest file of version v
    step,           \* the operation the writer is about to issue; "closed": no process
    op,             \* the running call's locals
    receipts,       \* fragments whose WriteReceipt was returned
    sealed_as,      \* the Manifest that seal returned for v
    answer,         \* how the last call ended
    faults          \* faults still to come

diskVars == <<names, hist, rows, files, manifest>>
datasetVars == <<diskVars, step, op, receipts, sealed_as, answer, faults>>

Dirs == {"root", "part", "active", "sealed"}

\* DatasetMetadata without a correction; known is then the time of the last event.
NoLineage == [base |-> {}, known |-> 1]
NoManifest == [sources |-> {}, entries |-> {}, lineage |-> NoLineage]

Child(d) == <<d>>
Temp == <<"tmp">>
ManifestName == <<"manifest.json">>
FragmentName(b) == <<"fragment", b>>
DataName == <<"data.parquet">>

\* fallback_sealed_name: the fragment's place in digest order, and its hash.
FallbackName(f, all) == <<"data", Cardinality({g \in all : g.batch < f.batch}), f>>

Torn == [content |-> 0, lineage |-> NoLineage, synced |-> TRUE]
Idle == [kind |-> "none", v |-> 1, frag |-> [batch |-> 0, content |-> 0, lineage |-> NoLineage],
         synced |-> FALSE, sources |-> {}, todo |-> {}, entries |-> {}]

-----------------------------------------------------------------------------
(* Directories.                                                            *)

SetNames(v, d, s) ==
    /\ names' = [names EXCEPT ![v][d] = s]
    /\ hist' = [hist EXCEPT ![v][d] = @ \cup {s}]

\* File::sync_all on directory d.
SyncDirectory(v, d) == hist' = [hist EXCEPT ![v][d] = {names[v][d]}] /\ UNCHANGED names

Has(v, d, name) == name \in names[v][d]

\* The parent of each directory.
Parent == [part |-> "root", active |-> "part", sealed |-> "part"]

-----------------------------------------------------------------------------
(* What is on the disk.                                                    *)

\* active_fragment_names, read by read_fragment.
ActiveFragments(v) ==
    {[batch |-> b, content |-> rows[v][b].content, lineage |-> rows[v][b].lineage] :
        b \in {b \in Batches : Has(v, "active", FragmentName(b))}}

TotalBytes(frags) == MapThenSumSet(LAMBDA f : f.content, frags)

Overlap(f, g) == f.batch # g.batch /\ Coverage[f.batch] \cap Coverage[g.batch] # {}

\* load_manifest_at: no manifest, or one whose content was torn, is an error.
Loads(v) == Has(v, "part", ManifestName) /\ manifest[v].body # NoManifest

Hash(m) == {<<m.sources, m.entries, m.lineage.known>>}

\* The sealed file e.name has the content (and so the hash) e.frags.
Holds(v, e) == \E g \in files[v] : g.name = e.name /\ g.frags = e.frags

\* verify_manifest_at: the inventory is exactly the declared one, and every
\* file has the declared hash.
Verifies(v, m) ==
    /\ names[v]["sealed"] = {e.name : e \in m.entries}
    /\ \A e \in m.entries : Holds(v, e)

\* validate_metadata_for_partition: version 1 corrects nothing; a later one
\* names the verified manifest of the version before it, and was not known
\* before that one.
ValidLineage(v, lineage) ==
    /\ v = 1 => lineage = NoLineage
    /\ v - 1 <= MaximumCorrectionDepth
    /\ \A w \in 2..v :
        LET given == IF w = v THEN lineage ELSE manifest[w].body.lineage
            base == manifest[w - 1].body
        IN  /\ Loads(w - 1)
            /\ Verifies(w - 1, base)
            /\ given.base = Hash(base)
            /\ given.known >= base.lineage.known

-----------------------------------------------------------------------------
DsInit ==
    /\ names = [v \in Versions |-> [d \in Dirs |-> {}]]
    /\ hist = [v \in Versions |-> [d \in Dirs |-> {{}}]]
    /\ rows = [v \in Versions |-> [b \in Batches |-> Torn]]
    /\ files = [v \in Versions |-> {}]
    /\ manifest = [v \in Versions |-> [body |-> NoManifest, synced |-> TRUE]]
    /\ step = "closed"
    /\ op = Idle
    /\ receipts = [v \in Versions |-> {}]
    /\ sealed_as = [v \in Versions |-> NoManifest]
    /\ answer = "none"
    /\ \E b \in FaultBudgets : faults = [deaths |-> b[1], losses |-> b[2]]

\* The call returns.
Return(result) ==
    /\ step' = "open"
    /\ op' = Idle
    /\ answer' = result

Continue(next) == step' = next /\ UNCHANGED <<op, answer>>

calls == <<receipts, sealed_as>>
content == <<rows, files, manifest>>

\* DatasetWriter::open, which takes the lock on the root.
open ==
    /\ step = "closed"
    /\ Continue("open")
    /\ UNCHANGED <<diskVars, calls, faults>>

-----------------------------------------------------------------------------
(* Steps both calls are made of.  Opens gives, for each step that opens a  *)
(* child directory, the directory and the step after it; Cleans likewise   *)
(* for the steps that run clean_temporary_files.                           *)

Opens == [w_part |-> <<"part", "w_clean_part">>,
          w_sealed |-> <<"sealed", "w_clean_sealed">>,
          w_active |-> <<"active", "w_clean_active">>,
          s_sealed |-> <<"sealed", "s_clean_active">>]

Cleans == [w_clean_part |-> <<"part", "w_manifest">>,
           w_clean_sealed |-> <<"sealed", "w_frozen">>,
           w_clean_active |-> <<"active", "w_admit">>,
           s_clean_part |-> <<"part", "s_manifest">>,
           s_clean_old |-> <<"active", "s_remove">>,
           s_clean_active |-> <<"active", "s_clean_sealed">>,
           s_clean_sealed |-> <<"sealed", "s_plan">>]

\* open_or_create_child: mkdirat, and a sync of the parent if it created.
open_or_create_child ==
    /\ step \in DOMAIN Opens
    /\ LET d == Opens[step][1]
           parent == Parent[d]
       IN  IF Has(op.v, parent, Child(d))
           THEN Continue(Opens[step][2]) /\ UNCHANGED <<names, hist>>
           ELSE /\ SetNames(op.v, parent, names[op.v][parent] \cup {Child(d)})
                /\ op' = [op EXCEPT !.kind = step]
                /\ step' = "sync_parent"
                /\ UNCHANGED answer
    /\ UNCHANGED <<content, calls, faults>>

sync_parent ==
    /\ step = "sync_parent"
    /\ SyncDirectory(op.v, Parent[Opens[op.kind][1]])
    /\ Continue(Opens[op.kind][2])
    /\ UNCHANGED <<content, calls, faults>>

\* clean_temporary_files: unlink them, and sync if there were any.
clean_temporary_files ==
    /\ step \in DOMAIN Cleans
    /\ LET d == Cleans[step][1]
       IN  IF Has(op.v, d, Temp)
           THEN /\ SetNames(op.v, d, names[op.v][d] \ {Temp})
                /\ op' = [op EXCEPT !.kind = step]
                /\ step' = "sync_cleaned"
                /\ UNCHANGED answer
           ELSE Continue(Cleans[step][2]) /\ UNCHANGED <<names, hist>>
    /\ UNCHANGED <<content, calls, faults>>

sync_cleaned ==
    /\ step = "sync_cleaned"
    /\ SyncDirectory(op.v, Cleans[op.kind][1])
    /\ Continue(Cleans[op.kind][2])
    /\ UNCHANGED <<content, calls, faults>>

CompactFits(frags) == TotalBytes(frags) + CompactOverhead <= MaximumPartitionBytes

\* The next file, in the order of the names; the manifest after the last one.
NextFile == CHOOSE e \in op.todo : \A g \in op.todo : Len(e.name) > 1 => e.name[2] <= g.name[2]

\* write_compacted_temporary stops before its sync when the file grows too large.
TooLarge == step = "s_sync" /\ NextFile.name = DataName /\ ~CompactFits(op.sources)

\* file.sync_all() of the temporary the step before wrote.
FileSyncs == [w_sync |-> "w_size", s_sync |-> "s_install", m_sync |-> "m_install"]

sync_file ==
    /\ step \in DOMAIN FileSyncs
    /\ ~TooLarge
    /\ op' = [op EXCEPT !.synced = TRUE]
    /\ step' = FileSyncs[step]
    /\ UNCHANGED <<diskVars, calls, answer, faults>>

\* The sync of the directory a file was renamed into.
DirectorySyncs == [w_sync_dir |-> <<"active", "w_done">>,
                   s_sync_dir |-> <<"sealed", "s_next">>,
                   m_sync_dir |-> <<"part", "s_verify">>]

\* Mutant: the sealed directory is not synced before the manifest is written.
syncInstalledUnordered ==
    /\ step \in DOMAIN DirectorySyncs
    /\ IF step = "s_sync_dir"
       THEN UNCHANGED <<names, hist>>
       ELSE SyncDirectory(op.v, DirectorySyncs[step][1])
    /\ Continue(DirectorySyncs[step][2])
    /\ UNCHANGED <<content, calls, faults>>

sync_installed ==
    /\ step \in DOMAIN DirectorySyncs
    /\ SyncDirectory(op.v, DirectorySyncs[step][1])
    /\ Continue(DirectorySyncs[step][2])
    /\ UNCHANGED <<content, calls, faults>>

\* create_temporary_file and the writes into it.
Temporary(d, next) ==
    /\ SetNames(op.v, d, names[op.v][d] \cup {Temp})
    /\ op' = [op EXCEPT !.synced = FALSE]
    /\ step' = next
    /\ UNCHANGED <<content, calls, answer, faults>>

\* renameat_with(NOREPLACE) of the temporary to a name that is free.
Rename(d, name) ==
    /\ ~Has(op.v, d, name)
    /\ SetNames(op.v, d, (names[op.v][d] \ {Temp}) \cup {name})

\* The name is taken: the temporary is unlinked, without a sync.
Unlink(d, name) ==
    /\ Has(op.v, d, name)
    /\ SetNames(op.v, d, names[op.v][d] \ {Temp})

-----------------------------------------------------------------------------
(* write_batch.                                                            *)

\* Lineages a caller may give for version v: of a manifest seal returned.
Lineages(v) ==
    {NoLineage} \cup
    {[base |-> Hash(sealed_as[w]), known |-> k] :
        w \in {w \in Versions : w = v - 1 /\ sealed_as[w] # NoManifest}, k \in KnownAt}

\* validate_metadata_for_partition and validate_batch, before anything else.
write_batch(v, b, c, lineage) ==
    /\ step = "open"
    /\ IF ValidLineage(v, lineage)
       THEN /\ op' = [Idle EXCEPT !.v = v,
                        !.frag = [batch |-> b, content |-> c, lineage |-> lineage]]
            /\ step' = "w_part"
            /\ UNCHANGED answer
       ELSE Return("InvalidCorrectionLineage")
    /\ UNCHANGED <<diskVars, calls, faults>>

\* entry_exists(MANIFEST_NAME).
write_if_unsealed ==
    /\ step = "w_manifest"
    /\ IF Has(op.v, "part", ManifestName)
       THEN Return("PartitionSealed")
       ELSE Continue("w_sealed")
    /\ UNCHANGED <<diskVars, calls, faults>>

\* A seal that began and did not publish its manifest keeps batches out.
write_if_not_begun ==
    /\ step = "w_frozen"
    /\ IF names[op.v]["sealed"] # {} THEN Return("Integrity") ELSE Continue("w_active")
    /\ UNCHANGED <<diskVars, calls, faults>>

\* Mutant: a candidate is admitted without the overlap check.
AdmissionOverlapping(v, f) ==
    LET others == ActiveFragments(v)
        retry == \E g \in others : g.batch = f.batch
    IN  IF ~retry /\ Cardinality(others) >= MaximumActiveFragments THEN "FragmentCapacityExceeded"
        ELSE IF \E g \in others : g.content = 0 THEN "Integrity"
        ELSE IF \E g \in others : g.lineage # f.lineage THEN "SchemaMismatch"
        ELSE IF ~retry /\ Cardinality(others) + 1 > MaximumPartitionRows THEN "CapacityExceeded"
        ELSE "admitted"

\* The inventory bound, then validate_active_admission: one lineage for all,
\* rows (and bytes) with the candidate, coverage that no other fragment has.
Admission(v, f) ==
    LET others == ActiveFragments(v)
        retry == \E g \in others : g.batch = f.batch
    IN  IF ~retry /\ Cardinality(others) >= MaximumActiveFragments THEN "FragmentCapacityExceeded"
        ELSE IF \E g \in others : g.content = 0 THEN "Integrity"
        ELSE IF \E g \in others : g.lineage # f.lineage THEN "SchemaMismatch"
        ELSE IF ~retry /\ Cardinality(others) + 1 > MaximumPartitionRows THEN "CapacityExceeded"
        ELSE IF ~retry /\ \E g \in others : Overlap(f, g) THEN "InvalidBatchIdentity"
        ELSE "admitted"

validate_active_admission ==
    /\ step = "w_admit"
    /\ LET a == Admission(op.v, op.frag)
       IN  IF a = "admitted" THEN Continue("w_temp") ELSE Return(a)
    /\ UNCHANGED <<diskVars, calls, faults>>

write_parquet_temporary == step = "w_temp" /\ Temporary("active", "w_sync")

Retry == Has(op.v, "active", FragmentName(op.frag.batch))

\* The size is known only after the file is written.
OverBytes ==
    ~Retry /\ TotalBytes(ActiveFragments(op.v)) + op.frag.content > MaximumPartitionBytes

\* discard_temporary; its sync is the sync after cleaning.
check_bytes ==
    /\ step = "w_size"
    /\ IF OverBytes
       THEN /\ SetNames(op.v, "active", names[op.v]["active"] \ {Temp})
            /\ step' = "w_discarded"
            /\ UNCHANGED <<op, answer>>
       ELSE Continue("w_install") /\ UNCHANGED <<names, hist>>
    /\ UNCHANGED <<content, calls, faults>>

discarded ==
    /\ step = "w_discarded"
    /\ SyncDirectory(op.v, "active")
    /\ Return("CapacityExceeded")
    /\ UNCHANGED <<content, calls, faults>>

\* install_fragment_or_verify_retry: the name is free.
install_fragment ==
    /\ step = "w_install"
    /\ Rename("active", FragmentName(op.frag.batch))
    /\ rows' = [rows EXCEPT ![op.v][op.frag.batch] =
                   [content |-> op.frag.content, lineage |-> op.frag.lineage, synced |-> op.synced]]
    /\ Continue("w_sync_dir")
    /\ UNCHANGED <<files, manifest, calls, faults>>

Receive(f) == receipts' = [receipts EXCEPT ![op.v] = @ \cup {f}]


\* install_fragment_or_verify_retry: the name is taken; the same content is
\* acknowledged again, without a sync of the directory.
verify_retry ==
    /\ step = "w_install"
    /\ Unlink("active", FragmentName(op.frag.batch))
    /\ IF op.frag \in ActiveFragments(op.v)
       THEN Receive(op.frag) /\ Return("Ok")
       ELSE Return("BatchIdentityConflict") /\ UNCHANGED receipts
    /\ UNCHANGED <<content, sealed_as, faults>>

write_done ==
    /\ step = "w_done"
    /\ Receive(op.frag)
    /\ Return("Ok")
    /\ UNCHANGED <<diskVars, sealed_as, faults>>

write_steps ==
    \/ write_if_unsealed \/ write_if_not_begun \/ validate_active_admission
    \/ write_parquet_temporary \/ check_bytes \/ discarded \/ install_fragment \/ verify_retry \/ write_done

-----------------------------------------------------------------------------
(* seal.                                                                   *)

\* open_partition without creating it.
seal(v) ==
    /\ step = "open"
    /\ IF Has(v, "root", Child("part"))
       THEN op' = [Idle EXCEPT !.v = v] /\ step' = "s_clean_part" /\ UNCHANGED answer
       ELSE Return("NotFound")
    /\ UNCHANGED <<diskVars, calls, faults>>

ReturnManifest(m) ==
    /\ sealed_as' = [sealed_as EXCEPT ![op.v] = m]
    /\ Return("Sealed")

\* A manifest is installed: it is loaded and verified, and the fragments an
\* earlier seal left are removed.
seal_if_installed ==
    /\ step = "s_manifest"
    /\ IF ~Has(op.v, "part", ManifestName)
       THEN (IF Has(op.v, "part", Child("active")) THEN Continue("s_sealed") ELSE Return("NotFound"))
            /\ UNCHANGED sealed_as
       ELSE LET m == manifest[op.v].body
            IN  IF ~Loads(op.v) \/ ~Verifies(op.v, m)
                THEN Return("Integrity") /\ UNCHANGED sealed_as
                ELSE IF Has(op.v, "part", Child("active"))
                THEN /\ op' = [op EXCEPT !.sources = m.sources]
                     /\ step' = "s_clean_old"
                     /\ UNCHANGED <<answer, sealed_as>>
                ELSE ReturnManifest(m)
    /\ UNCHANGED <<diskVars, receipts, faults>>

DataFile(frags) == {[name |-> DataName, frags |-> frags]}
FallbackFiles(frags) == {[name |-> FallbackName(f, frags), frags |-> {f}] : f \in frags}

\* publish_sealed_files: which files are to be installed.
Plan(v, frags) ==
    LET existing == names[v]["sealed"]
        fallback == FallbackFiles(frags)
    IN  IF existing \in {{}, {DataName}} THEN DataFile(frags)
        ELSE IF existing \subseteq {e.name : e \in fallback} THEN fallback
        ELSE {}

\* The checks before publication, in the order seal makes them.
SealRefusal(v, frags) ==
    IF frags = {} THEN "PartitionEmpty"
    ELSE IF \E f \in frags : f.content = 0 THEN "Integrity"
    ELSE IF \E f, g \in frags : f.lineage # g.lineage THEN "SchemaMismatch"
    ELSE IF \E f, g \in frags : Overlap(f, g) THEN "InvalidDatasetMetadata"
    ELSE IF \E f \in frags : ~ValidLineage(v, f.lineage) THEN "InvalidCorrectionLineage"
    ELSE IF Cardinality(frags) > MaximumPartitionRows THEN "CapacityExceeded"
    ELSE IF TotalBytes(frags) > MaximumPartitionBytes THEN "CapacityExceeded"
    ELSE IF Plan(v, frags) = {} THEN "Integrity"
    ELSE "none"

plan_seal ==
    /\ step = "s_plan"
    /\ LET frags == ActiveFragments(op.v)
       IN  IF SealRefusal(op.v, frags) # "none"
           THEN Return(SealRefusal(op.v, frags))
           ELSE /\ op' = [op EXCEPT !.sources = frags, !.todo = Plan(op.v, frags),
                                    !.entries = Plan(op.v, frags)]
                /\ step' = "s_next"
                /\ UNCHANGED answer
    /\ UNCHANGED <<diskVars, calls, faults>>

\* The next file to install, or the manifest after the last one.
write_sealed_temporary ==
    /\ step = "s_next"
    /\ IF op.todo = {}
       THEN Continue("m_temp") /\ UNCHANGED <<diskVars, calls, faults>>
       ELSE Temporary("sealed", "s_sync")

\* The compaction is larger than maximum_file_bytes: the temporary is unlinked
\* and one copy per fragment is published.  (With a compacted file there the
\* call would fail; but that file was made from the same fragments, and fits.)
fall_back ==
    /\ TooLarge
    /\ SetNames(op.v, "sealed", names[op.v]["sealed"] \ {Temp})
    /\ op' = [op EXCEPT !.todo = FallbackFiles(op.sources), !.entries = FallbackFiles(op.sources)]
    /\ step' = "s_next"
    /\ UNCHANGED <<content, calls, answer, faults>>

\* install_sealed_or_verify_retry: the name is free.
install_sealed ==
    /\ step = "s_install"
    /\ Rename("sealed", NextFile.name)
    /\ files' = [files EXCEPT ![op.v] =
          {f \in @ : f.name # NextFile.name}
              \cup {[name |-> NextFile.name, frags |-> NextFile.frags, synced |-> op.synced]}]
    /\ op' = [op EXCEPT !.todo = @ \ {NextFile}]
    /\ step' = "s_sync_dir"
    /\ UNCHANGED <<rows, manifest, calls, answer, faults>>

\* install_sealed_or_verify_retry: the name is taken.
verify_sealed_retry ==
    /\ step = "s_install"
    /\ Unlink("sealed", NextFile.name)
    /\ IF Holds(op.v, NextFile)
       THEN /\ op' = [op EXCEPT !.todo = @ \ {NextFile}]
            /\ step' = "s_next"
            /\ UNCHANGED answer
       ELSE Return("Integrity")
    /\ UNCHANGED <<content, calls, faults>>

\* publish_manifest, first half.
write_manifest_temporary == step = "m_temp" /\ Temporary("part", "m_sync")

Created == [sources |-> op.sources, entries |-> op.entries,
            lineage |-> (CHOOSE f \in op.sources : TRUE).lineage]

\* publish_manifest, second half.  The name is free: this call found no
\* manifest and no other process has the lock.
install_manifest ==
    /\ step = "m_install"
    /\ Rename("part", ManifestName)
    /\ manifest' = [manifest EXCEPT ![op.v] = [body |-> Created, synced |-> op.synced]]
    /\ Continue("m_sync_dir")
    /\ UNCHANGED <<rows, files, calls, faults>>

verify_published ==
    /\ step = "s_verify"
    /\ IF Verifies(op.v, manifest[op.v].body) THEN Continue("s_remove") ELSE Return("Integrity")
    /\ UNCHANGED <<diskVars, calls, faults>>

\* remove_active_fragments: one unlink, in the order of the names.
remove_active_fragment ==
    /\ step = "s_remove"
    /\ \E b \in Batches :
          /\ Has(op.v, "active", FragmentName(b))
          /\ \A a \in Batches : Has(op.v, "active", FragmentName(a)) => b <= a
          /\ SetNames(op.v, "active", names[op.v]["active"] \ {FragmentName(b)})
    /\ Continue("s_remove")
    /\ UNCHANGED <<content, calls, faults>>

\* remove_active_fragments: the sync, and the answer.
remove_done ==
    /\ step = "s_remove"
    /\ \A b \in Batches : ~Has(op.v, "active", FragmentName(b))
    /\ SyncDirectory(op.v, "active")
    /\ ReturnManifest(manifest[op.v].body)
    /\ UNCHANGED <<content, receipts, faults>>

seal_steps ==
    \/ seal_if_installed \/ plan_seal \/ write_sealed_temporary \/ fall_back
    \/ install_sealed \/ verify_sealed_retry
    \/ write_manifest_temporary \/ install_manifest \/ verify_published
    \/ remove_active_fragment \/ remove_done

-----------------------------------------------------------------------------
(* Faults.                                                                 *)

\* The process dies; the lock is released, the file system goes on.
die ==
    /\ step # "closed"
    /\ faults.deaths > 0
    /\ faults' = [faults EXCEPT !.deaths = @ - 1]
    /\ step' = "closed" /\ op' = Idle /\ answer' = "none"
    /\ UNCHANGED <<diskVars, calls>>

\* What stays of version v when directory d comes back as kept[d]: a directory
\* whose own name is lost is lost with all it holds.
Surviving(kept) ==
    LET part == IF Child("part") \in kept["root"] THEN kept["part"] ELSE {}
    IN  [root |-> kept["root"], part |-> part,
         active |-> IF Child("active") \in part THEN kept["active"] ELSE {},
         sealed |-> IF Child("sealed") \in part THEN kept["sealed"] ELSE {}]

\* The listings a loss of power may leave: each directory on its own.
Listings(v) == [root : hist[v]["root"], part : hist[v]["part"],
                active : hist[v]["active"], sealed : hist[v]["sealed"]]

lose_power ==
    /\ faults.losses > 0
    /\ faults' = [faults EXCEPT !.losses = @ - 1]
    /\ \E kept \in [Versions -> UNION {Listings(v) : v \in Versions}] :
          /\ \A v \in Versions : kept[v] \in Listings(v)
          /\ names' = [v \in Versions |-> Surviving(kept[v])]
          /\ hist' = [v \in Versions |-> [d \in Dirs |-> {Surviving(kept[v])[d]}]]
    /\ rows' = [v \in Versions |-> [b \in Batches |->
                   IF rows[v][b].synced THEN rows[v][b] ELSE Torn]]
    /\ files' = [v \in Versions |-> {f \in files[v] : f.synced}]
    /\ manifest' = [v \in Versions |->
                   IF manifest[v].synced THEN manifest[v] ELSE [body |-> NoManifest, synced |-> TRUE]]
    /\ step' = "closed" /\ op' = Idle /\ answer' = "none"
    /\ UNCHANGED calls

WriterStep ==
    \/ open_or_create_child \/ sync_parent \/ clean_temporary_files \/ sync_cleaned
    \/ sync_file \/ sync_installed \/ write_steps \/ seal_steps

\* The caller offers the batches of `offers', triples of version, identity and
\* content, in any order and any number of times, and seals at any time.
DsNext(offers) ==
    \/ open
    \/ \E o \in offers : \E l \in Lineages(o[1]) : write_batch(o[1], o[2], o[3], l)
    \/ \E v \in Versions : seal(v)
    \/ WriterStep
    \/ die
    \/ lose_power

\* A writer that runs goes on, one that ended is opened again, and the caller
\* asks for a seal again and again.
DsFairness ==
    /\ WF_datasetVars(WriterStep)
    /\ WF_datasetVars(open)
    /\ \A v \in Versions : SF_datasetVars(seal(v))

-----------------------------------------------------------------------------
\* A manifest that a DatasetReader accepts for version v.
Published(v) ==
    /\ Loads(v)
    /\ Verifies(v, manifest[v].body)
    /\ ValidLineage(v, manifest[v].body.lineage)


(* The manifest is the publication boundary: at every moment a manifest    *)
(* that is there describes exactly the files that are there, their union   *)
(* is exactly its sources without a covered sequence twice, and the        *)
(* correction chain below it verifies, so a reader never meets half of a   *)
(* publication; and a manifest that seal returned is there and stays as it *)
(* was returned.                                                           *)
PublicationWhole ==
    \A v \in Versions :
        LET m == manifest[v].body
        IN  /\ Has(v, "part", ManifestName) =>
                  /\ Published(v)
                  /\ m.sources = UNION {e.frags : e \in m.entries}
                  /\ \A f, g \in m.sources : ~Overlap(f, g)
            /\ sealed_as[v] # NoManifest => Has(v, "part", ManifestName) /\ m = sealed_as[v]

(* A batch that was acknowledged is published: whatever was interrupted    *)
(* before, a caller that keeps asking for the seal of its partition gets a *)
(* manifest once the faults are over.                                      *)
AckedEventuallyPublished ==
    \A v \in Versions : receipts[v] # {} ~> sealed_as[v] # NoManifest

=============================================================================
