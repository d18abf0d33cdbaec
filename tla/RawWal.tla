------------------------------- MODULE RawWal -------------------------------
(***************************************************************************)
(* The segmented write-ahead log of crates/raw-wal: SegmentedWalWriter     *)
(* (manager.rs), the Segment it appends to (segment.rs), the sealing       *)
(* protocol (seal.rs) and recovery (recovery.rs), one action per           *)
(* file-system operation, so that a crash or an I/O error can fall between *)
(* any two of them.                                                        *)
(*                                                                         *)
(* The disk.  Segment n is known in the directory by the names dir[n]: its *)
(* creation temporary, the active file, the sealed file, the pending       *)
(* manifest (and its temporary) and the final manifest.  dirHist is the    *)
(* set of directories a power loss may leave: every directory since the    *)
(* last directory fsync.  segs[n] is the content of the segment's inode:   *)
(* the whole frames, how many of them are synced, and whether an           *)
(* incomplete frame follows them.  man[n] is what the manifest of n binds  *)
(* (hash, ranges and count), represented by the frames it was made from.   *)
(*                                                                         *)
(* A record is its (stream, sequence); payload, wall times, segment ids,   *)
(* prologue metadata and the predecessor hashes are not represented: no    *)
(* outside writer changes files in this model, so their checks pass.       *)
(***************************************************************************)
EXTENDS Integers, Sequences, FiniteSets

CONSTANTS
    Streams,            \* (stream_id, connection_epoch) pairs
    MaxSeq,             \* bound: record sequences offered by the caller
    MaxSegments,        \* bound: segment ordinals
    MaxSegmentRecords,  \* RotationPolicy::max_segment_bytes, in records
    MaxProcessCrashes,  \* bound: deaths of the process alone
    MaxPowerLosses,     \* bound: losses of power
    MaxIoErrors         \* bound: failing system calls

ASSUME WalConstants ==
    /\ MaxSeq \in Nat
    /\ MaxSegments \in Nat \ {0}
    /\ MaxSegmentRecords \in Nat \ {0}
    /\ MaxProcessCrashes \in Nat
    /\ MaxPowerLosses \in Nat
    /\ MaxIoErrors \in Nat

VARIABLES
    dir,        \* names present for each ordinal, as the process sees them
    dirHist,    \* directories a power loss may leave
    segs,       \* content of each segment file
    man,        \* what the (pending or final) manifest of n records
    pc,         \* the file-system operation the manager is about to issue
    ret,        \* the caller of the running create or seal protocol
    active_ordinal,
    active_record_count,
    poisoned,   \* Segment::poisoned of the active segment
    last_sequences,
    req,        \* the record of the running append, or empty
    acked,      \* positions returned by append, in order (WalPosition)
    failed,     \* an append or sync of this writer has failed since it opened
    refusal,    \* how the last recovery was refused, or "none"
    process_crashes, power_losses, io_errors

faultVars == <<process_crashes, power_losses, io_errors>>

diskVars == <<dir, dirHist, segs, man>>
memVars == <<active_ordinal, active_record_count, poisoned, last_sequences, failed>>
vars == <<diskVars, pc, ret, memVars, req, acked, refusal, faultVars>>

Ordinals == 1..MaxSegments
Rec == [stream : Streams, seq : 1..MaxSeq]
Position == [stream : Streams, seq : 1..MaxSeq, ord : Ordinals, idx : Nat]
Kinds == {"temp", "active", "pending_temp", "pending", "sealed", "manifest"}
Content == [recs : Seq(Rec), synced : Nat, torn : BOOLEAN]

NoFrames == [recs |-> <<>>, synced |-> 0, torn |-> FALSE]
NoNames == [n \in Ordinals |-> {}]

-----------------------------------------------------------------------------
(* The directory.                                                          *)

SetDir(d) == dir' = d /\ dirHist' = dirHist \cup {d}

\* Mutant: the directory fsync is left out.
SyncDirMissing == UNCHANGED <<dir, dirHist>>

\* File::sync_all on the directory.
SyncDir == dirHist' = {dir} /\ UNCHANGED dir

\* openat(CREATE | EXCL) of a protocol temporary.
AddName(n, kind) == SetDir([dir EXCEPT ![n] = @ \cup {kind}])

\* renameat_with(NOREPLACE).
Rename(n, from, to) ==
    /\ to \notin dir[n]
    /\ SetDir([dir EXCEPT ![n] = (@ \ {from}) \cup {to}])

Having(kind) == {n \in Ordinals : kind \in dir[n]}

\* Inventory::temporary: names that is_protocol_temporary_name accepts.
Temporaries == {"temp", "pending_temp"}
HasTemporaries == \E n \in Ordinals : dir[n] \cap Temporaries # {}

-----------------------------------------------------------------------------
(* Sequences.                                                              *)

\* A frame sequence recovery::validate_sequence accepts.
Increasing(recs) ==
    \A i, j \in 1..Len(recs) :
        (i < j /\ recs[i].stream = recs[j].stream) => recs[i].seq < recs[j].seq

\* merge_manifest_sequences / merge_active_record: nothing in `later` is at or
\* below what `earlier` already holds for the same stream.
Continues(earlier, later) ==
    \A i \in 1..Len(earlier) : \A j \in 1..Len(later) :
        earlier[i].stream = later[j].stream => earlier[i].seq < later[j].seq

ChainRegresses(chain, content) ==
    \E m \in chain : \E n \in chain : m < n /\ ~Continues(content[m], content[n])

SequencesIn(s, chain) ==
    {q \in 1..MaxSeq : \E n \in chain : \E i \in 1..Len(segs[n].recs) :
        segs[n].recs[i] = [stream |-> s, seq |-> q]}

Highest(sequences) ==
    IF sequences = {} THEN 0 ELSE CHOOSE q \in sequences : \A p \in sequences : p <= q

\* Mutant: the active segment is not merged into the writer's sequences.
HighestSequenceSealedOnly(s, chain) == Highest(SequencesIn(s, chain \ {active_ordinal}))

\* last_sequences as recovery rebuilds it: the highest sequence of stream s in
\* the frames of `chain`, 0 for none.
HighestSequence(s, chain) == Highest(SequencesIn(s, chain))

\* Mutant: the file is not synced.
SyncedMissing(c) == c

\* sync_data or sync_all of a segment file.
Synced(c) == [c EXCEPT !.synced = Len(c.recs)]

\* Mutant: the tail is cut one frame too early.
RepairTailShort(c) ==
    IF c.torn /\ c.recs # <<>>
    THEN [recs |-> SubSeq(c.recs, 1, Len(c.recs) - 1), synced |-> Len(c.recs), torn |-> FALSE]
    ELSE c

\* repair_tail: set_len to the last valid offset, then sync_all.
RepairTail(c) ==
    IF c.torn THEN [recs |-> c.recs, synced |-> Len(c.recs), torn |-> FALSE] ELSE c

\* verify_without_repair: complete frames in increasing order and no tail.
Verifies(n) == ~segs[n].torn /\ Increasing(segs[n].recs)

\* visit_sealed_file_against_manifest.
MatchesManifest(n) == Verifies(n) /\ segs[n].recs = man[n]

-----------------------------------------------------------------------------
(* Writer states.                                                          *)

Creating == {"create_temp", "create_rename", "create_sync"}
Appending == {"append_write", "append_sync"}
Sealing == {"seal_verify", "pending_temp", "pending_rename", "pending_sync",
            "seal_rename", "seal_sync", "resume_verify", "manifest_rename",
            "manifest_sync"}
Recovering == {"recover_active", "recover_open", "recover_clean"}
Rets == {"none", "first", "successor", "pending", "rotate", "rotate_append",
         "recover_rotate"}

Refusals == {"none", "MultiplePendingSeals", "InvalidPendingSealState",
             "ManifestMissing", "ManifestMismatch", "ManifestWithoutSegment",
             "ChainGap", "CrossSegmentSequenceRegression", "PendingConflict",
             "MultipleActiveSegments", "MissingActiveSegment",
             "ActiveIdentityMismatch", "ActiveCorrupt"}

Goto(step) == pc' = step

\* A protocol step that changes names only.
DirStep(from, to) ==
    /\ pc = from
    /\ Goto(to)
    /\ UNCHANGED <<segs, man, ret, memVars, req, acked, refusal, faultVars>>

NoMemory ==
    /\ active_ordinal' = 0
    /\ active_record_count' = 0
    /\ poisoned' = FALSE
    /\ last_sequences' = [s \in Streams |-> 0]
    /\ failed' = FALSE

\* A create call that returned: segment 1 is active, named durably, empty.
CreatedDir == [n \in Ordinals |-> IF n = 1 THEN {"active"} ELSE {}]

Init ==
    /\ dir \in {NoNames, CreatedDir}
    /\ dirHist = {dir}
    /\ segs = [n \in Ordinals |-> NoFrames]
    /\ man = [n \in Ordinals |-> <<>>]
    /\ pc = "down"
    /\ ret = "none"
    /\ active_ordinal = 0
    /\ active_record_count = 0
    /\ poisoned = FALSE
    /\ last_sequences = [s \in Streams |-> 0]
    /\ req = <<>>
    /\ acked = <<>>
    /\ failed = FALSE
    /\ refusal = "none"
    /\ process_crashes = 0
    /\ power_losses = 0
    /\ io_errors = 0

-----------------------------------------------------------------------------
(* Segment::create_v2_at, for the first segment, a successor of a rotation  *)
(* and the successor recovery finds missing.                                *)

CreateTemp == DirStep("create_temp", "create_rename") /\ AddName(active_ordinal, "temp")

\* The prologue is written and synced before the rename publishes the file.
CreateRename ==
    /\ pc = "create_rename"
    /\ Rename(active_ordinal, "temp", "active")
    /\ segs' = [segs EXCEPT ![active_ordinal] = NoFrames]
    /\ Goto("create_sync")
    /\ UNCHANGED <<man, ret, memVars, req, acked, refusal, faultVars>>

CreateSync ==
    /\ pc = "create_sync"
    /\ SyncDir
    /\ Goto(CASE ret = "rotate_append" -> "append_write"
              [] ret = "successor" -> "recover_open"
              [] OTHER -> "ready")
    /\ ret' = "none"
    /\ UNCHANGED <<segs, man, memVars, req, acked, refusal, faultVars>>

-----------------------------------------------------------------------------
(* SegmentedWalWriter::append and Segment::append_record_synced.            *)

\* rotate: the active segment is taken out of the writer and sealed.
StartRotation(caller) ==
    /\ ret' = caller
    /\ Goto("seal_verify")

\* append, up to the choice of rotating first.  Rotation is due when the
\* segment is not empty and either its age or the projected length exceeds the
\* policy; time passes freely, so the age may be due at any append.  The last
\* ordinal stays empty, so that recovery never needs one beyond the bound.
AppendRecord(r) ==
    /\ pc = "ready"
    /\ active_ordinal < MaxSegments
    /\ r.seq > last_sequences[r.stream]
    /\ req' = <<r>>
    /\ \/ /\ active_record_count > 0
          /\ active_ordinal + 1 < MaxSegments
          /\ StartRotation("rotate_append")
       \/ /\ active_record_count = 0 \/ active_record_count + 1 <= MaxSegmentRecords
          /\ ~poisoned
          /\ \A i \in 1..active_record_count :
                LET held == segs[active_ordinal].recs[i]
                IN  held.stream = r.stream => held.seq < r.seq
          /\ Goto("append_write")
          /\ UNCHANGED ret
    /\ UNCHANGED <<diskVars, memVars, acked, refusal, faultVars>>

\* write_all of the encoded frame.
AppendWrite ==
    /\ pc = "append_write"
    /\ segs' = [segs EXCEPT ![active_ordinal].recs = Append(@, Head(req))]
    /\ Goto("append_sync")
    /\ UNCHANGED <<dir, dirHist, man, ret, memVars, req, acked, refusal, faultVars>>

\* sync_data returns and append hands out the position.
AppendSync ==
    /\ pc = "append_sync"
    /\ LET len == Len(segs[active_ordinal].recs)
       IN  /\ segs' = [segs EXCEPT ![active_ordinal] = Synced(@)]
           /\ acked' = Append(acked, [stream |-> Head(req).stream, seq |-> Head(req).seq,
                                      ord |-> active_ordinal, idx |-> len])
    /\ active_record_count' = active_record_count + 1
    /\ last_sequences' = [last_sequences EXCEPT ![Head(req).stream] = Head(req).seq]
    /\ req' = <<>>
    /\ Goto("ready")
    /\ UNCHANGED <<dir, dirHist, man, ret, active_ordinal, poisoned, failed, refusal,
                   faultVars>>

\* write_all or sync_data fails: nothing, part of the frame, or all of it
\* (not known to be durable) is in the file, and the segment is poisoned.
AppendFails ==
    /\ pc \in Appending
    /\ io_errors < MaxIoErrors
    /\ io_errors' = io_errors + 1
    /\ \/ UNCHANGED segs
       \/ pc = "append_write" /\ segs' = [segs EXCEPT ![active_ordinal].torn = TRUE]
    /\ poisoned' = TRUE
    /\ failed' = TRUE
    /\ req' = <<>>
    /\ Goto("ready")
    /\ UNCHANGED <<dir, dirHist, man, ret, active_ordinal, active_record_count,
                   last_sequences, acked, refusal, process_crashes, power_losses>>

\* SegmentedWalWriter::sync.
Sync ==
    /\ pc = "ready"
    /\ segs' = [segs EXCEPT ![active_ordinal] = Synced(@)]
    /\ UNCHANGED <<dir, dirHist, man, pc, ret, memVars, req, acked, refusal, faultVars>>

SyncFails ==
    /\ pc = "ready"
    /\ io_errors < MaxIoErrors
    /\ io_errors' = io_errors + 1
    /\ poisoned' = TRUE
    /\ failed' = TRUE
    /\ UNCHANGED <<diskVars, pc, ret, active_ordinal, active_record_count,
                   last_sequences, req, acked, refusal, process_crashes, power_losses>>

\* poll_rotation with the age due, and seal_active.
Rotate ==
    /\ pc = "ready"
    /\ active_record_count > 0
    /\ StartRotation("rotate")
    /\ UNCHANGED <<diskVars, memVars, req, acked, refusal, faultVars>>

-----------------------------------------------------------------------------
(* finish_locked_seal_at: verify and sync the segment, publish the pending  *)
(* manifest, rename active to sealed, install the manifest.                 *)

SealVerify ==
    /\ pc = "seal_verify"
    /\ Verifies(active_ordinal)
    /\ segs' = [segs EXCEPT ![active_ordinal] = Synced(@)]
    /\ Goto("pending_temp")
    /\ UNCHANGED <<dir, dirHist, man, ret, memVars, req, acked, refusal, faultVars>>

\* The caller's writer has no active segment any more (ManagerError::Inactive);
\* a failed open or recovery returns no writer.
Abandon ==
    /\ req' = <<>>
    /\ ret' = "none"
    /\ IF ret \in {"rotate", "rotate_append"}
       THEN Goto("inactive") /\ UNCHANGED memVars
       ELSE Goto("down") /\ NoMemory

SealVerifyFails ==
    /\ pc = "seal_verify"
    /\ ~Verifies(active_ordinal)
    /\ Abandon
    /\ refusal' = IF ret \in {"rotate", "rotate_append"} THEN refusal ELSE "ActiveCorrupt"
    /\ UNCHANGED <<diskVars, acked, faultVars>>

\* publish_new_file_at: temporary, write, sync, rename without replacement.
PendingTemp == DirStep("pending_temp", "pending_rename") /\ AddName(active_ordinal, "pending_temp")

PendingRename ==
    /\ pc = "pending_rename"
    /\ Rename(active_ordinal, "pending_temp", "pending")
    /\ man' = [man EXCEPT ![active_ordinal] = segs[active_ordinal].recs]
    /\ Goto("pending_sync")
    /\ UNCHANGED <<segs, ret, memVars, req, acked, refusal, faultVars>>

\* Mutant: the manifest that is there is published again, instead of adopted.
PendingExistsRetried ==
    /\ DirStep("pending_rename", "pending_temp")
    /\ "pending" \in dir[active_ordinal]
    /\ SetDir([dir EXCEPT ![active_ordinal] = @ \ {"pending_temp"}])

\* prepare_pending_manifest_at when recovery finds its manifest already there.
PendingExists ==
    /\ pc = "pending_rename"
    /\ "pending" \in dir[active_ordinal]
    /\ SetDir([dir EXCEPT ![active_ordinal] = @ \ {"pending_temp"}])
    /\ IF man[active_ordinal] = segs[active_ordinal].recs
       THEN Goto("seal_rename") /\ UNCHANGED <<ret, memVars, req, refusal>>
       ELSE Abandon /\ refusal' = "PendingConflict"
    /\ UNCHANGED <<segs, man, acked, faultVars>>

\* Mutant: the manifest is installed before the segment is renamed.
PendingSyncManifestFirst == DirStep("pending_sync", "manifest_rename") /\ SyncDir

PendingSync == DirStep("pending_sync", "seal_rename") /\ SyncDir

SealRename == DirStep("seal_rename", "seal_sync") /\ Rename(active_ordinal, "active", "sealed")

SealSync == DirStep("seal_sync", "manifest_rename") /\ SyncDir

\* resume_pending_seal_at: recovery after the rename of the segment.
ResumeVerify ==
    /\ pc = "resume_verify"
    /\ IF MatchesManifest(active_ordinal)
       THEN Goto("manifest_rename") /\ UNCHANGED <<ret, memVars, req, refusal>>
       ELSE Abandon /\ refusal' = "ManifestMismatch"
    /\ UNCHANGED <<diskVars, acked, faultVars>>

\* install_pending_manifest_at.
ManifestRename == DirStep("manifest_rename", "manifest_sync") /\ Rename(active_ordinal, "pending", "manifest")

\* Mutant: the successor takes the ordinal of the segment just sealed.
NextOrdinalReused == active_ordinal

NextOrdinal == active_ordinal + 1

\* A rotation goes on to create the successor, recovery to the active segment.
ManifestSync ==
    /\ pc = "manifest_sync"
    /\ SyncDir
    /\ IF ret = "pending"
       THEN /\ Goto("recover_active")
            /\ ret' = "none"
            /\ UNCHANGED memVars
       ELSE /\ Goto("create_temp")
            /\ active_ordinal' = NextOrdinal
            /\ active_record_count' = 0
            /\ poisoned' = FALSE
            /\ UNCHANGED <<ret, last_sequences, failed>>
    /\ UNCHANGED <<segs, man, req, acked, refusal, faultVars>>

-----------------------------------------------------------------------------
(* open_or_create_in_with_replay.                                           *)

\* An empty directory: create_locked.
OpenCreate ==
    /\ pc = "down"
    /\ dir = NoNames
    /\ active_ordinal' = 1
    /\ ret' = "first"
    /\ Goto("create_temp")
    /\ UNCHANGED <<diskVars, active_record_count, poisoned, last_sequences, failed, req,
                   acked, refusal, faultVars>>

\* Mutant: the segment in transition is counted as sealed.
SealedChainWithPending == Having("sealed")

\* The sealed segments recovery verifies: the one in transition is set aside by
\* take_pending_transition.
SealedChain == Having("sealed") \ Having("pending")

\* recover_locked up to the pending transition: inventory, the manifests of the
\* sealed segments, the chain, and the pending transition's place in it.
ChainRefusal ==
    LET pending == Having("pending")
        chain == SealedChain
        manifests == Having("manifest")
    IN  CASE Cardinality(pending) > 1 -> "MultiplePendingSeals"
          [] \E n \in pending :
                "manifest" \in dir[n] \/ ({"active", "sealed"} \cap dir[n]) \notin
                    {{"active"}, {"sealed"}} -> "InvalidPendingSealState"
          [] ~(chain \subseteq manifests) -> "ManifestMissing"
          [] \E n \in chain : ~MatchesManifest(n) -> "ManifestMismatch"
          [] manifests # chain -> "ManifestWithoutSegment"
          [] chain # 1..Cardinality(chain) -> "ChainGap"
          [] ChainRegresses(chain, man) -> "CrossSegmentSequenceRegression"
          [] pending # {} /\ (Having("active") \ pending # {}
                \/ pending # {Cardinality(chain) + 1}) -> "InvalidPendingSealState"
          [] ChainRegresses(chain \cup pending, man) -> "CrossSegmentSequenceRegression"
          [] OTHER -> "none"

\* recover_locked, first half.
RecoverChain ==
    /\ pc = "down"
    /\ dir # NoNames
    /\ refusal' = ChainRefusal
    /\ IF ChainRefusal # "none"
       THEN UNCHANGED <<pc, ret, active_ordinal>>
       ELSE IF Having("pending") = {}
       THEN Goto("recover_active") /\ UNCHANGED <<ret, active_ordinal>>
       ELSE \E n \in Having("pending") :
                /\ active_ordinal' = n
                /\ ret' = "pending"
                /\ Goto(IF "active" \in dir[n] THEN "seal_verify" ELSE "resume_verify")
    /\ UNCHANGED <<diskVars, active_record_count, poisoned, last_sequences, failed, req,
                   acked, faultVars>>

\* The active segment is found, or its successor is created.
RecoverActive ==
    LET found == Having("active")
        next == Cardinality(Having("manifest")) + 1
        refused == CASE Cardinality(found) > 1 -> "MultipleActiveSegments"
                     [] found = {} /\ next = 1 -> "MissingActiveSegment"
                     [] found # {} /\ found # {next} -> "ActiveIdentityMismatch"
                     [] OTHER -> "none"
    IN  /\ pc = "recover_active"
        /\ next \in Ordinals
        /\ IF refused # "none"
           THEN Goto("down") /\ NoMemory /\ refusal' = refused /\ UNCHANGED ret
           ELSE /\ active_ordinal' = next
                /\ IF found = {}
                   THEN ret' = "successor" /\ Goto("create_temp")
                   ELSE UNCHANGED ret /\ Goto("recover_open")
                /\ UNCHANGED <<active_record_count, poisoned, last_sequences, failed, refusal>>
        /\ UNCHANGED <<diskVars, req, acked, faultVars>>

\* Mutant: the recovered writer starts from an empty count.
RecoveredCountForgotten(c) == 0

\* RecoverySummary::record_count of the active segment.
RecoveredCount(c) == Len(c.recs)

\* The active segment's frames continue the chain, an incomplete tail is cut
\* (set_len, sync_all), and the writer's sequences are rebuilt.
RecoverOpen ==
    LET n == active_ordinal
        chain == 1..n
        refused == IF \E m \in 1..(n - 1) : ~Continues(segs[m].recs, segs[n].recs)
                   THEN "CrossSegmentSequenceRegression"
                   ELSE IF ~Increasing(segs[n].recs) THEN "ActiveCorrupt" ELSE "none"
    IN  /\ pc = "recover_open"
        /\ IF refused # "none"
           THEN Goto("down") /\ NoMemory /\ refusal' = refused /\ UNCHANGED segs
           ELSE /\ segs' = [segs EXCEPT ![n] = RepairTail(@)]
                /\ active_record_count' = RecoveredCount(segs[n])
                /\ last_sequences' = [s \in Streams |-> HighestSequence(s, chain)]
                /\ Goto("recover_clean")
                /\ UNCHANGED <<active_ordinal, poisoned, failed, refusal>>
        /\ UNCHANGED <<dir, dirHist, man, ret, req, acked, faultVars>>

\* cleanup_temporary_files, then a non-empty active segment is rotated away.
RecoverClean ==
    LET cleaned == [n \in Ordinals |-> dir[n] \ Temporaries]
    IN  /\ pc = "recover_clean"
        /\ IF HasTemporaries
           THEN dir' = cleaned /\ dirHist' = {cleaned}
           ELSE UNCHANGED <<dir, dirHist>>
        /\ IF active_record_count > 0
           THEN StartRotation("recover_rotate")
           ELSE Goto("ready") /\ UNCHANGED ret
        /\ UNCHANGED <<segs, man, memVars, req, acked, refusal, faultVars>>

-----------------------------------------------------------------------------
(* The environment.                                                         *)

\* The writer is dropped; the directory lock is released.
Close ==
    /\ pc \in {"ready", "inactive"}
    /\ Goto("down")
    /\ NoMemory
    /\ UNCHANGED <<diskVars, ret, req, acked, refusal, faultVars>>

\* A system call of a create, seal or recovery step fails.  A failing rename
\* unlinks its temporary (and ignores a failure of the unlink).
IoFails ==
    /\ pc \in Creating \cup Sealing \cup Recovering
    /\ io_errors < MaxIoErrors
    /\ io_errors' = io_errors + 1
    /\ \/ UNCHANGED <<dir, dirHist>>
       \/ /\ pc = "create_rename"
          /\ SetDir([dir EXCEPT ![active_ordinal] = @ \ {"temp"}])
       \/ /\ pc = "pending_rename"
          /\ SetDir([dir EXCEPT ![active_ordinal] = @ \ {"pending_temp"}])
    /\ Abandon
    /\ UNCHANGED <<segs, man, acked, refusal, process_crashes, power_losses>>

\* The process dies: the directory and the files stay as they are, but for a
\* frame that write_all had begun.
ProcessCrash ==
    /\ pc # "down"
    /\ process_crashes < MaxProcessCrashes
    /\ process_crashes' = process_crashes + 1
    /\ \/ UNCHANGED segs
       \/ pc = "append_write" /\ segs' = [segs EXCEPT ![active_ordinal].torn = TRUE]
    /\ Goto("down")
    /\ ret' = "none"
    /\ req' = <<>>
    /\ NoMemory
    /\ UNCHANGED <<dir, dirHist, man, acked, refusal, power_losses, io_errors>>

\* What a power loss may leave of a file: every synced frame, then a prefix of
\* the rest, perhaps with an incomplete frame behind it.
Survivors(c) ==
    {[recs |-> SubSeq(c.recs, 1, k), synced |-> k, torn |-> FALSE] : k \in c.synced..Len(c.recs)}
    \cup {[recs |-> SubSeq(c.recs, 1, k), synced |-> k, torn |-> TRUE] :
            k \in {i \in c.synced..Len(c.recs) : c.torn \/ i < Len(c.recs)}}

\* The machine loses power: unsynced names and frames may be gone.
PowerLoss ==
    /\ pc # "down"
    /\ power_losses < MaxPowerLosses
    /\ power_losses' = power_losses + 1
    /\ dir' \in dirHist
    /\ dirHist' = {dir'}
    /\ segs' \in {f \in [Ordinals -> UNION {Survivors(segs[n]) : n \in Ordinals}] :
                    \A n \in Ordinals : f[n] \in Survivors(segs[n])}
    /\ Goto("down")
    /\ ret' = "none"
    /\ req' = <<>>
    /\ NoMemory
    /\ UNCHANGED <<man, acked, refusal, process_crashes, io_errors>>

-----------------------------------------------------------------------------

Caller == (\E r \in Rec : AppendRecord(r)) \/ Sync \/ Rotate \/ Close

\* What the writer does on its own once called, up to its answer.
Protocol ==
    \/ CreateTemp \/ CreateRename \/ CreateSync
    \/ AppendWrite \/ AppendSync
    \/ SealVerify \/ SealVerifyFails \/ PendingTemp \/ PendingRename \/ PendingExists
    \/ PendingSync \/ SealRename \/ SealSync \/ ResumeVerify \/ ManifestRename
    \/ ManifestSync
    \/ RecoverActive \/ RecoverOpen \/ RecoverClean

Open == OpenCreate \/ RecoverChain

Environment == AppendFails \/ SyncFails \/ IoFails \/ ProcessCrash \/ PowerLoss

Next == Caller \/ Protocol \/ Open \/ Environment

Spec == Init /\ [][Next]_vars

\* A step the writer has started is finished, and a daemon that is down is
\* started again.
FairSpec == Spec /\ WF_vars(Protocol) /\ WF_vars(Open)

-----------------------------------------------------------------------------
(* Properties.                                                              *)

TypeOK ==
    /\ dir \in [Ordinals -> SUBSET Kinds]
    /\ dirHist \subseteq [Ordinals -> SUBSET Kinds]
    /\ segs \in [Ordinals -> Content]
    /\ \A n \in Ordinals : segs[n].synced <= Len(segs[n].recs)
    /\ man \in [Ordinals -> Seq(Rec)]
    /\ pc \in {"down", "ready", "inactive"} \cup Creating \cup Appending \cup Sealing
                \cup Recovering
    /\ ret \in Rets
    /\ active_ordinal \in 0..MaxSegments
    /\ active_record_count \in Nat
    /\ poisoned \in BOOLEAN
    /\ last_sequences \in [Streams -> 0..MaxSeq]
    /\ req \in Seq(Rec)
    /\ acked \in Seq(Position)
    /\ failed \in BOOLEAN
    /\ refusal \in Refusals
    /\ process_crashes \in 0..MaxProcessCrashes
    /\ power_losses \in 0..MaxPowerLosses
    /\ io_errors \in 0..MaxIoErrors

\* The segment of position p is named in the directory and its frame there is
\* the record, synced.
Readable(p) ==
    /\ p.idx \in 1..segs[p.ord].synced
    /\ segs[p.ord].recs[p.idx] = [stream |-> p.stream, seq |-> p.seq]
    /\ {"active", "sealed"} \cap dir[p.ord] # {}

\* Every position handed out by append is readable.
AllReadable == \A k \in 1..Len(acked) : Readable(acked[k])

\* Neither the process alone nor a system call has failed: power losses only.
OnlyPowerLost == process_crashes = 0 /\ io_errors = 0

\* A position handed out by append stays readable through process deaths and
\* failing system calls, whatever recovery and rotation do with its segment.
AckedReadable == power_losses = 0 => AllReadable

\* A position handed out by append survives every loss of power: it is readable,
\* and whatever directory a power loss leaves, its segment is still named.  (A
\* process death before the fsync of the directory can break this.)
AckedDurable ==
    OnlyPowerLost =>
        /\ AllReadable
        /\ \A k \in 1..Len(acked) : \A d \in dirHist :
                {"active", "sealed"} \cap d[acked[k].ord] # {}

\* visit_verified_records refuses unless the active segment is empty, and then
\* it visits every acknowledged record: each is in a sealed segment that still
\* matches its manifest.
VerifiedReplayComplete ==
    ((power_losses = 0 \/ OnlyPowerLost) /\ pc = "ready" /\ active_record_count = 0) =>
        \A k \in 1..Len(acked) :
            /\ {"sealed", "manifest"} \subseteq dir[acked[k].ord]
            /\ MatchesManifest(acked[k].ord)

\* The chain holds no record twice: positions differ in stream or sequence.  (A
\* failed append may leave its frame behind, and the record is then offered again.)
NoDuplicateRecords ==
    (pc = "ready" /\ io_errors = 0) =>
        \A m, n \in 1..active_ordinal :
            \A i \in 1..Len(segs[m].recs) : \A j \in 1..Len(segs[n].recs) :
                segs[m].recs[i] = segs[n].recs[j] => (m = n /\ i = j)

\* A chain left by losses of power is accepted by the next open, unless power
\* failed inside the very first create.
NeverRefused == OnlyPowerLost => refusal \in {"none", "MissingActiveSegment"}

\* A manifest that could survive a power loss always describes the segment file
\* that would be found with it.
ManifestBindsSegment ==
    \A d \in dirHist : \A n \in Ordinals :
        "manifest" \in d[n] => ("sealed" \in d[n] /\ segs[n].recs = man[n]
                                /\ segs[n].synced = Len(segs[n].recs) /\ ~segs[n].torn)

\* What recovery leaves and accepts: verified replay is complete, no record is in
\* the chain twice, a manifest describes its segment, and losses of power alone
\* never make a chain the next open refuses.
RecoverySound ==
    VerifiedReplayComplete /\ NoDuplicateRecords /\ ManifestBindsSegment /\ NeverRefused

\* A published manifest and the frames it covers never change again, through
\* crashes as well.
SealedImmutable ==
    [][\A n \in Ordinals :
        ("manifest" \in dir[n] /\ "manifest" \in dir'[n]) =>
            /\ segs'[n].recs = segs[n].recs
            /\ man'[n] = man[n]]_vars

\* segment.rs:62: after an append or sync failure nothing is accepted until the
\* segment is reopened.
ReopenedAfterFailure == [][Len(acked') > Len(acked) => ~failed]_vars

\* A writer that is down becomes ready again, or its open was refused.
EventuallyReady == (pc = "down") ~> (pc = "ready" \/ refusal # "none")

=============================================================================
