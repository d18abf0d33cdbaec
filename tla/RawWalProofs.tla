---------------------------- MODULE RawWalProofs ----------------------------
(***************************************************************************)
(* Proofs about RawWal for every number of streams, records, segments and  *)
(* faults: type correctness under all faults; that a position handed out   *)
(* by append stays readable whatever process deaths and I/O errors happen  *)
(* (no power loss); and that it survives any number of power losses (no    *)
(* process death or I/O error).                                            *)
(***************************************************************************)
EXTENDS RawWal, FiniteSetTheorems, TLAPS

-----------------------------------------------------------------------------
(* Type correctness.                                                       *)

\* The states in which active_ordinal names a segment.
Working == Creating \cup Appending \cup Sealing \cup {"ready", "recover_open", "recover_clean"}

\* The writer stays within the bounded ordinals: the last one is created but
\* never written, so that only a lower one is ever rotated away.
Bounded ==
    /\ segs[MaxSegments].recs = <<>>
    /\ pc \in Working => active_ordinal \in Ordinals
    /\ (pc \in {"ready", "recover_clean"} /\ active_record_count > 0) => active_ordinal < MaxSegments
    /\ (pc \in Sealing /\ ret # "pending") => active_ordinal < MaxSegments
    /\ (pc \in Sealing /\ ret = "rotate_append") => active_ordinal + 1 < MaxSegments
    /\ (pc \in Creating /\ ret = "rotate_append") => active_ordinal < MaxSegments
    /\ pc \in Appending => active_ordinal < MaxSegments
    /\ (pc \in {"down", "recover_active"} \cup Creating \/ (pc \in Sealing /\ ret = "pending")) =>
            active_record_count = 0

\* A record is being appended, at once or after the rotation it caused.
Requested ==
    (pc \in Appending \/ (pc \in Creating \cup Sealing /\ ret = "rotate_append")) => Len(req) > 0

TypeInv == TypeOK /\ Bounded /\ Requested


\* TypeOK in three parts: the directory, the files, and the writer's own state.
DirsOK ==
    /\ dir \in [Ordinals -> SUBSET Kinds]
    /\ dirHist \subseteq [Ordinals -> SUBSET Kinds]

FilesOK ==
    /\ segs \in [Ordinals -> Content]
    /\ \A n \in Ordinals : segs[n].synced <= Len(segs[n].recs)
    /\ man \in [Ordinals -> Seq(Rec)]
    /\ segs[MaxSegments].recs = <<>>

\* The steps that change names, and what the directory becomes.
LEMMA DirsStep ==
    ASSUME TypeInv, Next
    PROVE  DirsOK'
<1> USE DEF TypeInv, TypeOK, DirsOK
<1> DEFINE Dirs == [Ordinals -> SUBSET Kinds]
<1>1. ASSUME NEW n \in Ordinals, NEW S, S \subseteq Kinds
      PROVE  [dir EXCEPT ![n] = S] \in Dirs
    BY <1>1
<1>2. ASSUME NEW d \in Dirs, SetDir(d) PROVE DirsOK'
    BY <1>2 DEF SetDir
<1>3. ASSUME SyncDir PROVE DirsOK'
    BY <1>3 DEF SyncDir
<1>4. ASSUME NEW n \in Ordinals, NEW from, NEW to \in Kinds, Rename(n, from, to) PROVE DirsOK'
  <2>1. [dir EXCEPT ![n] = (dir[n] \ {from}) \cup {to}] \in Dirs
    BY <1>1, <1>4
  <2> QED
    BY Zenon, <2>1, <1>2, <1>4 DEF Rename
<1>5. ASSUME NEW n \in Ordinals, NEW kind \in Kinds, AddName(n, kind) PROVE DirsOK'
  <2>1. [dir EXCEPT ![n] = dir[n] \cup {kind}] \in Dirs
    BY <1>1, <1>5
  <2> QED
    BY Zenon, <2>1, <1>2, <1>5 DEF AddName
<1>6. pc \in Working => active_ordinal \in Ordinals
    BY DEF Bounded
<1>7. \A k \in {"temp", "active", "pending_temp", "pending", "sealed", "manifest"} : k \in Kinds
    BY DEF Kinds
<1>8. pc \in Creating \cup Sealing => active_ordinal \in Ordinals
    BY <1>6 DEF Working
<1>9. ASSUME NEW kind, pc \in Creating \cup Sealing, SetDir([dir EXCEPT ![active_ordinal] = @ \ {kind}])
      PROVE  DirsOK'
  <2>1. [dir EXCEPT ![active_ordinal] = dir[active_ordinal] \ {kind}] \in Dirs
    BY <1>1, <1>8, <1>9
  <2> QED
    BY Zenon, <2>1, <1>2, <1>9
<1>10. CASE CreateTemp
    BY <1>5, <1>7, <1>8, <1>10 DEF CreateTemp, DirStep, Creating
<1>11. CASE CreateRename
    BY <1>4, <1>7, <1>8, <1>11 DEF CreateRename, Creating
<1>12. CASE CreateSync \/ PendingSync \/ SealSync \/ ManifestSync
    BY <1>3, <1>12 DEF CreateSync, PendingSync, SealSync, ManifestSync
<1>13. CASE PendingTemp
    BY <1>5, <1>7, <1>8, <1>13 DEF PendingTemp, DirStep, Sealing
<1>14. CASE PendingRename
    BY <1>4, <1>7, <1>8, <1>14 DEF PendingRename, Sealing
<1>15. CASE PendingExists
    BY Zenon, <1>9, <1>15 DEF PendingExists, Sealing
<1>16. CASE SealRename
    BY <1>4, <1>7, <1>8, <1>16 DEF SealRename, DirStep, Sealing
<1>17. CASE ManifestRename
    BY <1>4, <1>7, <1>8, <1>17 DEF ManifestRename, DirStep, Sealing
<1>18. CASE RecoverClean
  <2>1. [n \in Ordinals |-> dir[n] \ Temporaries] \in Dirs
    OBVIOUS
  <2> QED
    BY <2>1, <1>18 DEF RecoverClean
<1>19. CASE IoFails
    BY Zenon, <1>9, <1>19 DEF IoFails, Creating, Sealing
<1>20. CASE PowerLoss
    BY <1>20 DEF PowerLoss
<1>21. CASE UNCHANGED <<dir, dirHist>>
    BY <1>21
<1> QED
    BY ZenonT(60), <1>10, <1>11, <1>12, <1>13, <1>14, <1>15, <1>16, <1>17, <1>18, <1>19, <1>20, <1>21
    DEF Next, Caller, Protocol, Open, Environment, AppendRecord, Sync, Rotate, Close, AppendWrite,
        AppendSync, SealVerify, SealVerifyFails, ResumeVerify, RecoverActive, RecoverOpen,
        OpenCreate, RecoverChain, AppendFails, SyncFails, ProcessCrash, diskVars

\* The contents the steps write are contents.
LEMMA Contents ==
    ASSUME NEW c \in Content, c.synced <= Len(c.recs)
    PROVE  /\ Synced(c) \in Content
           /\ Synced(c).synced = Len(c.recs)
           /\ Synced(c).recs = c.recs
           /\ RepairTail(c) \in Content
           /\ RepairTail(c).synced >= c.synced
           /\ RepairTail(c).synced <= Len(c.recs)
           /\ RepairTail(c).recs = c.recs
<1>1. c = [recs |-> c.recs, synced |-> c.synced, torn |-> c.torn]
    BY DEF Content
<1>2. c.recs \in Seq(Rec) /\ c.synced \in Nat /\ c.torn \in BOOLEAN /\ Len(c.recs) \in Nat
    BY DEF Content
<1>3. Synced(c) = [recs |-> c.recs, synced |-> Len(c.recs), torn |-> c.torn]
    BY <1>1, <1>2 DEF Synced
<1>4. CASE c.torn
  <2>1. RepairTail(c) = [recs |-> c.recs, synced |-> Len(c.recs), torn |-> FALSE]
    BY <1>4 DEF RepairTail
  <2> QED
    BY <1>2, <1>3, <2>1 DEF Content
<1>5. CASE ~c.torn
    BY <1>2, <1>3, <1>5 DEF Content, RepairTail
<1> QED
    BY <1>4, <1>5

\* A segment content with one more whole frame is a content.
LEMMA AppendedContents ==
    ASSUME NEW c \in Content, NEW r \in Rec, c.synced <= Len(c.recs)
    PROVE  LET a == [c EXCEPT !.recs = Append(@, r)]
           IN  /\ a \in Content
               /\ a.synced = c.synced
               /\ a.synced <= Len(a.recs)
               /\ a.recs = Append(c.recs, r)
<1>1. c.recs \in Seq(Rec) /\ c.synced \in Nat /\ c.torn \in BOOLEAN /\ Len(c.recs) \in Nat
    BY DEF Content
<1>2. Append(c.recs, r) \in Seq(Rec) /\ Len(Append(c.recs, r)) = Len(c.recs) + 1
    BY <1>1
<1>3. c = [recs |-> c.recs, synced |-> c.synced, torn |-> c.torn]
    BY DEF Content
<1>4. ASSUME NEW x PROVE [c EXCEPT !.recs = x] = [recs |-> x, synced |-> c.synced, torn |-> c.torn]
    BY <1>3
<1> DEFINE a == [c EXCEPT !.recs = Append(@, r)]
<1>5. a = [recs |-> Append(c.recs, r), synced |-> c.synced, torn |-> c.torn]
    BY <1>4
<1> HIDE DEF a
<1>6. /\ a \in Content
      /\ a.synced = c.synced
      /\ a.synced <= Len(a.recs)
      /\ a.recs = Append(c.recs, r)
    BY <1>1, <1>2, <1>5 DEF Content
<1> QED
    BY <1>6 DEF a

\* What a power loss leaves of a content is a content, and of an empty one is empty.
LEMMA SurvivingContents ==
    ASSUME NEW c \in Content, NEW f \in Survivors(c), c.synced <= Len(c.recs)
    PROVE  /\ f \in Content
           /\ f.synced <= Len(f.recs)
           /\ c.recs = <<>> => f.recs = <<>>
<1>1. PICK k \in c.synced..Len(c.recs), t \in BOOLEAN :
        f = [recs |-> SubSeq(c.recs, 1, k), synced |-> k, torn |-> t]
    BY Zenon DEF Survivors
<1>2. c.recs \in Seq(Rec) /\ c.synced \in Nat
    BY DEF Content
<1>3. SubSeq(c.recs, 1, k) \in Seq(Rec) /\ Len(SubSeq(c.recs, 1, k)) = k
    BY <1>2
<1>4. c.recs = <<>> => SubSeq(c.recs, 1, k) = <<>>
    BY <1>2
<1> QED
    BY <1>1, <1>2, <1>3, <1>4 DEF Content

\* The steps that change files.
LEMMA FilesStep ==
    ASSUME TypeInv, Next
    PROVE  FilesOK'
<1> USE WalConstants DEF TypeInv, TypeOK, FilesOK
<1>1. ASSUME NEW n \in Ordinals, NEW c \in Content, c.synced <= Len(c.recs),
             n = MaxSegments => c.recs = <<>>, segs' = [segs EXCEPT ![n] = c]
      PROVE  /\ segs' \in [Ordinals -> Content]
             /\ \A m \in Ordinals : segs'[m].synced <= Len(segs'[m].recs)
             /\ segs'[MaxSegments].recs = <<>>
    BY <1>1 DEF Bounded, Ordinals
<1>2. NoFrames \in Content /\ NoFrames.recs = <<>> /\ NoFrames.synced <= Len(NoFrames.recs)
    BY DEF NoFrames, Content
<1>3. pc \in Working => active_ordinal \in Ordinals
    BY DEF Bounded
<1>4. pc \in Working => /\ segs[active_ordinal] \in Content
                        /\ segs[active_ordinal].synced <= Len(segs[active_ordinal].recs)
                        /\ active_ordinal = MaxSegments => segs[active_ordinal].recs = <<>>
    BY <1>3 DEF Bounded
<1>5. CASE CreateRename
  <2>1. pc \in Working
    BY <1>5 DEF CreateRename, Working, Creating
  <2> QED
    BY Zenon, <1>1, <1>2, <1>3, <1>5, <2>1 DEF CreateRename
<1>6. CASE AppendSync \/ Sync \/ SealVerify
  <2>1. pc \in Working /\ segs' = [segs EXCEPT ![active_ordinal] = Synced(segs[active_ordinal])]
    BY <1>6 DEF AppendSync, Sync, SealVerify, Working, Appending, Sealing
  <2>2. Synced(segs[active_ordinal]) \in Content
        /\ Synced(segs[active_ordinal]).synced <= Len(Synced(segs[active_ordinal]).recs)
        /\ Synced(segs[active_ordinal]).recs = segs[active_ordinal].recs
    BY SMTT(30), <1>4, <2>1, Contents DEF Content
  <2>3. UNCHANGED man
    BY <1>6 DEF AppendSync, Sync, SealVerify
  <2> QED
    BY Zenon, <1>1, <1>3, <1>4, <2>1, <2>2, <2>3
<1>7. CASE AppendWrite
  <2> DEFINE c == [segs[active_ordinal] EXCEPT !.recs = Append(@, Head(req))]
  <2>1. pc \in Working /\ segs' = [segs EXCEPT ![active_ordinal] = c]
    BY <1>7 DEF AppendWrite, Working, Appending
  <2>2. active_ordinal < MaxSegments /\ Head(req) \in Rec
    BY <1>7 DEF AppendWrite, Appending, Bounded, Requested
  <2>3. c \in Content /\ c.synced <= Len(c.recs)
    BY Zenon, <1>4, <2>1, <2>2, AppendedContents
  <2>4. active_ordinal # MaxSegments
    BY <1>3, <2>1, <2>2 DEF Ordinals
  <2>5. UNCHANGED man
    BY <1>7 DEF AppendWrite
  <2> HIDE DEF c
  <2> QED
    BY Zenon, <1>1, <1>3, <2>1, <2>3, <2>4, <2>5
<1>8. CASE (AppendFails \/ ProcessCrash) /\ segs' # segs
  <2> DEFINE c == [segs[active_ordinal] EXCEPT !.torn = TRUE]
  <2>1. pc \in Working /\ segs' = [segs EXCEPT ![active_ordinal] = c]
    BY SMTT(30), <1>8 DEF AppendFails, ProcessCrash, Working, Appending
  <2>3. c \in Content /\ c.synced <= Len(c.recs) /\ c.recs = segs[active_ordinal].recs
    BY Zenon, <1>4, <2>1 DEF Content
  <2> QED
    BY Zenon, <1>1, <1>3, <1>4, <1>8, <2>1, <2>3 DEF AppendFails, ProcessCrash
<1>9. CASE RecoverOpen /\ segs' # segs
  <2>1. pc \in Working /\ segs' = [segs EXCEPT ![active_ordinal] = RepairTail(segs[active_ordinal])]
    BY <1>9 DEF RecoverOpen, Working
  <2> QED
    BY Zenon, <1>1, <1>3, <1>4, <1>9, <2>1, Contents DEF RecoverOpen
<1>10. CASE PowerLoss
  <2>1. \A n \in Ordinals : segs'[n] \in Survivors(segs[n])
    BY <1>10 DEF PowerLoss
  <2>2. \A n \in Ordinals : /\ segs'[n] \in Content
                            /\ segs'[n].synced <= Len(segs'[n].recs)
                            /\ segs[n].recs = <<>> => segs'[n].recs = <<>>
    BY <2>1, SurvivingContents
  <2>3. segs' = [n \in Ordinals |-> segs'[n]]
    BY <1>10 DEF PowerLoss
  <2>4. MaxSegments \in Ordinals
    BY DEF Ordinals
  <2> QED
    BY Zenon, <1>10, <2>2, <2>3, <2>4 DEF PowerLoss, Bounded
<1>11. CASE PendingRename
    BY <1>3, <1>4, <1>11 DEF PendingRename, Bounded, Working, Sealing, Content
<1>12. CASE UNCHANGED <<segs, man>>
    BY <1>12 DEF Bounded
<1> QED
    BY ZenonT(60), <1>5, <1>6, <1>7, <1>8, <1>9, <1>10, <1>11, <1>12
    DEF Next, Caller, Protocol, Open, Environment, AppendRecord, Rotate, Close, DirStep,
        CreateTemp, CreateSync, PendingTemp, PendingExists, PendingSync, SealRename, SealSync,
        ManifestRename, ManifestSync, SealVerifyFails, ResumeVerify, RecoverActive, RecoverOpen,
        RecoverClean, OpenCreate, RecoverChain, AppendFails, SyncFails, IoFails, ProcessCrash,
        diskVars


\* The writer's own state: what it is doing, and the bounds of Bounded.
ControlOK ==
    /\ pc \in {"down", "ready", "inactive"} \cup Creating \cup Appending \cup Sealing \cup Recovering
    /\ ret \in Rets
    /\ active_ordinal \in 0..MaxSegments
    /\ active_record_count \in Nat
    /\ poisoned \in BOOLEAN
    /\ failed \in BOOLEAN
    /\ refusal \in Refusals
    /\ process_crashes \in 0..MaxProcessCrashes
    /\ power_losses \in 0..MaxPowerLosses
    /\ io_errors \in 0..MaxIoErrors
    /\ segs[MaxSegments].recs = <<>> => Bounded

\* A writer that is dropped leaves typed initial values behind.
LEMMA Forgotten ==
    ASSUME NoMemory
    PROVE  /\ active_ordinal' = 0
           /\ active_record_count' = 0
           /\ poisoned' \in BOOLEAN
           /\ failed' \in BOOLEAN
           /\ last_sequences' \in [Streams -> 0..MaxSeq]
<1>1. last_sequences' \in [Streams -> 0..MaxSeq]
    BY WalConstants DEF NoMemory
<1>2. poisoned' = FALSE /\ failed' = FALSE
    BY DEF NoMemory
<1> QED
    BY Zenon, <1>1, <1>2 DEF NoMemory

\* No step leaves the control states or, with the files bounded, the bounded ordinals.
LEMMA ControlStep ==
    ASSUME TypeInv, Next
    PROVE  ControlOK'
<1> USE WalConstants DEF TypeInv, TypeOK, ControlOK, Bounded, Requested, Working, Creating, Appending,
        Sealing, Recovering, Rets, Refusals, Goto, memVars, faultVars, Ordinals
<1>1. CASE CreateTemp
    BY <1>1 DEF CreateTemp, DirStep
<1>2. CASE CreateRename
    BY <1>2 DEF CreateRename
<1>3. CASE CreateSync
  <2>1. /\ pc = "create_sync" /\ ret' = "none"
        /\ \/ pc' = "append_write" /\ ret = "rotate_append"
           \/ pc' = "recover_open"
           \/ pc' = "ready"
    BY <1>3 DEF CreateSync
  <2> QED
    BY <1>3, <2>1 DEF CreateSync
<1>4. CASE AppendWrite
    BY ZenonT(60), <1>4 DEF AppendWrite
<1>5. CASE AppendSync
    BY <1>5 DEF AppendSync
<1>6. CASE SealVerify
    BY <1>6 DEF SealVerify
<1>7. CASE SealVerifyFails
    BY <1>7, Forgotten DEF SealVerifyFails, Abandon
<1>8. CASE PendingTemp
    BY <1>8 DEF PendingTemp, DirStep
<1>9. CASE PendingRename
    BY <1>9 DEF PendingRename
<1>10. CASE PendingExists
    BY SMTT(30), <1>10, Forgotten DEF PendingExists, Abandon
<1>11. CASE PendingSync
    BY <1>11 DEF PendingSync, DirStep
<1>12. CASE SealRename
    BY <1>12 DEF SealRename, DirStep
<1>13. CASE SealSync
    BY <1>13 DEF SealSync, DirStep
<1>14. CASE ResumeVerify
    BY SMTT(30), <1>14, Forgotten DEF ResumeVerify, Abandon
<1>15. CASE ManifestRename
    BY <1>15 DEF ManifestRename, DirStep
<1>16. CASE ManifestSync
  <2>1. CASE ret = "pending"
    BY <1>16, <2>1 DEF ManifestSync
  <2>2. CASE ret # "pending"
    <3>1. poisoned' = FALSE
      BY <1>16, <2>2 DEF ManifestSync
    <3>2. poisoned' \in BOOLEAN
      BY Zenon, <3>1
    <3>3. /\ pc = "manifest_sync" /\ pc' = "create_temp" /\ active_ordinal' = active_ordinal + 1
          /\ active_record_count' = 0
          /\ UNCHANGED <<ret, failed, refusal, process_crashes, power_losses, io_errors>>
      BY <1>16, <2>2 DEF ManifestSync, NextOrdinal
    <3> QED
      BY <2>2, <3>2, <3>3
  <2> QED
    BY <2>1, <2>2
<1>17. CASE RecoverActive
  <2> DEFINE next == Cardinality(Having("manifest")) + 1
  <2>1. CASE pc' = "down"
    BY SMTT(30), <1>17, <2>1, Forgotten DEF RecoverActive
  <2>2. CASE pc' # "down"
    <3>1. /\ active_ordinal' = next /\ next \in Ordinals
          /\ \/ pc' = "create_temp" /\ ret' = "successor"
             \/ pc' = "recover_open" /\ ret' = ret
          /\ UNCHANGED <<active_record_count, poisoned, failed, refusal, process_crashes,
                         power_losses, io_errors>>
      BY <1>17, <2>2 DEF RecoverActive
    <3>2. pc = "recover_active"
      BY <1>17 DEF RecoverActive
    <3> HIDE DEF next
    <3> QED
      BY SMTT(30), <3>1, <3>2
  <2> QED
    BY <2>1, <2>2
<1>18. CASE RecoverOpen
  <2>1. active_ordinal \in Ordinals /\ segs[active_ordinal].recs \in Seq(Rec)
    BY <1>18, Forgotten DEF RecoverOpen, Content
  <2>2. active_ordinal = MaxSegments => Len(segs[active_ordinal].recs) = 0
    BY <2>1
  <2>3. CASE pc' = "down"
    BY SMTT(30), <1>18, <2>3, Forgotten DEF RecoverOpen
  <2>4. CASE pc' = "recover_clean"
    <3>1. active_record_count' = Len(segs[active_ordinal].recs)
      BY <1>18, <2>4 DEF RecoverOpen, RecoveredCount
    <3> QED
      BY <1>18, <2>1, <2>2, <2>4, <3>1 DEF RecoverOpen
  <2> QED
    BY <1>18, <2>3, <2>4 DEF RecoverOpen
<1>19. CASE RecoverClean
    BY SMTT(30), <1>19 DEF RecoverClean, StartRotation
<1>20. CASE OpenCreate
    BY <1>20 DEF OpenCreate
<1>21. CASE RecoverChain
  <2>1. ChainRefusal \in Refusals
    BY DEF ChainRefusal
  <2> QED
    BY <1>21, <2>1 DEF RecoverChain, Having
<1>22. CASE AppendFails
  <2>1. poisoned' = TRUE /\ failed' = TRUE
    BY <1>22 DEF AppendFails
  <2>2. poisoned' \in BOOLEAN /\ failed' \in BOOLEAN
    BY <2>1
  <2>3. /\ pc \in Appending /\ pc' = "ready"
        /\ io_errors' = io_errors + 1 /\ io_errors < MaxIoErrors
        /\ UNCHANGED <<ret, active_ordinal, active_record_count, refusal, process_crashes,
                       power_losses>>
    BY <1>22 DEF AppendFails
  <2> QED
    BY <2>2, <2>3
<1>23. CASE SyncFails
    BY <1>23 DEF SyncFails
<1>24. CASE IoFails
    BY SMTT(30), <1>24, Forgotten DEF IoFails, Abandon
<1>25. CASE ProcessCrash
    BY SMTT(30), <1>25, Forgotten DEF ProcessCrash
<1>26. CASE PowerLoss
  <2>1. /\ pc' = "down" /\ ret' = "none" /\ NoMemory
        /\ power_losses' = power_losses + 1 /\ power_losses < MaxPowerLosses
        /\ UNCHANGED <<refusal, process_crashes, io_errors>>
    BY <1>26 DEF PowerLoss
  <2> QED
    BY <2>1, Forgotten
<1>27. CASE Sync
    BY <1>27 DEF Sync
<1>28. CASE Rotate
    BY <1>28 DEF Rotate, StartRotation
<1>29. CASE Close
    BY <1>29, Forgotten DEF Close
<1>30. ASSUME NEW r \in Rec, AppendRecord(r) PROVE ControlOK'
    BY ZenonT(60), <1>30 DEF AppendRecord, StartRotation
<1> QED
    BY ZenonT(60), <1>1, <1>2, <1>3, <1>4, <1>5, <1>6, <1>7, <1>8, <1>9, <1>10, <1>11, <1>12, <1>13, <1>14, <1>15, <1>16, <1>17, <1>18, <1>19, <1>20, <1>21, <1>22, <1>23, <1>24, <1>25, <1>26, <1>27, <1>28, <1>29, <1>30
    DEF Next, Caller, Protocol, Open, Environment

\* The highest of some sequences is one of them.
LEMMA HighestType ==
    ASSUME NEW S \in SUBSET (1..MaxSeq)
    PROVE  Highest(S) \in 0..MaxSeq
<1> USE WalConstants
<1>1. CASE S = {}
    BY <1>1 DEF Highest
<1>2. CASE S # {}
  <2> DEFINE T == {n \in Nat : MaxSeq - n \in S}
  <2>1. PICK p \in S : TRUE
    BY Zenon, <1>2
  <2>2. MaxSeq - p \in T
    BY <2>1
  <2>3. PICK x \in T : \A y \in T : <<y, x>> \notin OpToRel(<, Nat)
    BY Zenon, <2>2, NatLessThanWellFounded, WFMin
  <2>4. \A y \in T : ~(y < x)
    BY Zenon, <2>3 DEF OpToRel
  <2>5. ASSUME NEW r \in S PROVE r <= MaxSeq - x
    <3>1. MaxSeq - r \in T
      BY <2>5
    <3>2. x \in Int /\ r \in Int
      <4>1. x \in Nat
        BY Zenon, <2>3
      <4>2. r \in 1..MaxSeq
        BY <2>5
      <4> QED
        BY <4>1, <4>2
    <3>3. ~(MaxSeq - r < x)
      <4> HIDE DEF T
      <4> QED
        BY <2>4, <3>1
    <3> QED
      BY <3>2, <3>3
  <2>6. MaxSeq - x \in S
    BY Zenon, <2>3
  <2>7. (CHOOSE z \in S : \A r \in S : r <= z) \in S
    BY Zenon, <2>5, <2>6
  <2>8. S \subseteq 0..MaxSeq
    OBVIOUS
  <2> QED
    BY Zenon, <1>2, <2>7, <2>8 DEF Highest
<1> QED
    BY <1>1, <1>2

MemoryOK ==
    /\ last_sequences \in [Streams -> 0..MaxSeq]
    /\ req \in Seq(Rec)
    /\ acked \in Seq(Position)
    /\ Requested

\* The writer's sequences, its request and the positions handed out stay typed.
LEMMA MemoryStep ==
    ASSUME TypeInv, Next
    PROVE  MemoryOK'
<1> USE WalConstants DEF TypeInv, TypeOK, MemoryOK, Goto, memVars
<1>1. ASSUME NEW r \in Rec, AppendRecord(r) PROVE MemoryOK'
    BY <1>1 DEF AppendRecord, Requested
<1>2. CASE AppendWrite
    BY <1>2 DEF AppendWrite, Requested, Appending, Creating, Sealing
<1>3. CASE AppendSync
  <2>1. Head(req) \in Rec /\ active_ordinal \in Ordinals
    BY <1>3 DEF AppendSync, Appending, Requested, Bounded, Working
  <2>2. Head(req).stream \in Streams /\ Head(req).seq \in 1..MaxSeq
    BY <2>1 DEF Rec
  <2>3. segs[active_ordinal].recs \in Seq(Rec)
    BY <2>1 DEF Content
  <2>4. [stream |-> Head(req).stream, seq |-> Head(req).seq,
         ord |-> active_ordinal, idx |-> Len(segs[active_ordinal].recs)] \in Position
    BY <2>1, <2>2, <2>3 DEF Position
  <2>5. acked' \in Seq(Position)
    BY <1>3, <2>4 DEF AppendSync
  <2>6. last_sequences' \in [Streams -> 0..MaxSeq]
    BY <1>3, <2>2 DEF AppendSync
  <2> QED
    BY <1>3, <2>5, <2>6 DEF AppendSync, Requested, Appending, Creating, Sealing
<1>4. CASE CreateSync
    BY <1>4 DEF CreateSync, Requested, Appending, Creating, Sealing
<1>5. CASE RecoverOpen
  <2>1. CASE pc' = "down"
    BY <1>5, <2>1, Forgotten DEF RecoverOpen, Requested, Appending, Creating, Sealing
  <2>2. CASE pc' # "down"
    <3>1. \A s \in Streams, chain \in SUBSET Ordinals : HighestSequence(s, chain) \in 0..MaxSeq
      BY Zenon, HighestType DEF HighestSequence, SequencesIn
    <3>2. 1..active_ordinal \subseteq Ordinals
      BY DEF Ordinals
    <3>3. last_sequences' = [s \in Streams |-> HighestSequence(s, 1..active_ordinal)]
      BY <1>5, <2>2 DEF RecoverOpen
    <3>4. last_sequences' \in [Streams -> 0..MaxSeq]
      BY <3>1, <3>2, <3>3
    <3> QED
      BY SMTT(30), <1>5, <2>2, <3>4 DEF RecoverOpen, Requested, Appending, Creating, Sealing
  <2> QED
    BY <2>1, <2>2
<1>6. CASE ProcessCrash \/ PowerLoss \/ Close
  <2>1. pc' = "down" /\ NoMemory /\ UNCHANGED acked /\ (req' = req \/ req' = <<>>)
    BY <1>6 DEF ProcessCrash, PowerLoss, Close
  <2>2. req' \in Seq(Rec)
    <3>1. CASE req' = req
      BY <3>1
    <3>2. CASE req' = <<>>
      BY <3>2
    <3> QED
      BY <2>1, <3>1, <3>2
  <2> QED
    BY <2>1, <2>2, Forgotten DEF Requested, Appending, Creating, Sealing
<1>7. ASSUME Abandon, UNCHANGED acked PROVE MemoryOK'
    BY <1>7, Forgotten DEF Abandon, Requested, Appending, Creating, Sealing
<1>8. CASE SealVerifyFails \/ IoFails
    BY <1>7, <1>8 DEF SealVerifyFails, IoFails
<1>9. CASE PendingExists \/ ResumeVerify
    BY <1>7, <1>9 DEF PendingExists, ResumeVerify, Requested, Appending, Creating, Sealing
<1>10. CASE AppendFails \/ SyncFails \/ Sync \/ Rotate
  <2>1. /\ (req' = req \/ req' = <<>>) /\ UNCHANGED <<last_sequences, acked>>
        /\ pc' = "ready" \/ (pc' = "seal_verify" /\ ret' = "rotate")
    BY <1>10 DEF AppendFails, SyncFails, Sync, Rotate, StartRotation
  <2>2. req' \in Seq(Rec)
    <3>1. CASE req' = req
      BY <3>1
    <3>2. CASE req' = <<>>
      BY <3>2
    <3> QED
      BY <2>1, <3>1, <3>2
  <2> QED
    BY <2>1, <2>2 DEF Requested, Appending, Creating, Sealing
<1>11. CASE RecoverActive
    BY Zenon, <1>11, Forgotten DEF RecoverActive, Requested, Appending, Creating, Sealing
<1>12. CASE RecoverClean \/ OpenCreate \/ RecoverChain
    BY <1>12 DEF RecoverClean, OpenCreate, RecoverChain, StartRotation, Requested, Appending,
                 Creating, Sealing
<1>13. CASE ManifestSync
    BY <1>13 DEF ManifestSync, Requested, Appending, Creating, Sealing
<1>14. CASE CreateTemp \/ CreateRename \/ SealVerify \/ PendingTemp \/ PendingRename
            \/ PendingSync \/ SealRename \/ SealSync \/ ManifestRename
    BY <1>14 DEF CreateTemp, CreateRename, SealVerify, PendingTemp, PendingRename, PendingSync,
                 SealRename, SealSync, ManifestRename, DirStep, Requested, Appending, Creating,
                 Sealing
<1> QED
    BY <1>1, <1>2, <1>3, <1>4, <1>5, <1>6, <1>8, <1>9, <1>10, <1>11, <1>12, <1>13, <1>14
    DEF Next, Caller, Protocol, Open, Environment

\* The initial states satisfy the inductive type invariant.
LEMMA TypeInit == Init => TypeInv
<1> SUFFICES ASSUME Init PROVE TypeInv
    OBVIOUS
<1> USE WalConstants DEF Init
<1>1. CreatedDir \in [Ordinals -> SUBSET Kinds] /\ NoNames \in [Ordinals -> SUBSET Kinds]
    BY DEF CreatedDir, NoNames, Kinds
<1>2. NoFrames \in Content /\ NoFrames.recs = <<>> /\ NoFrames.synced <= Len(NoFrames.recs)
    BY DEF NoFrames, Content
<1>3. MaxSegments \in Ordinals
    BY DEF Ordinals
<1>4. TypeOK
  <2>1. dir \in [Ordinals -> SUBSET Kinds] /\ dirHist \subseteq [Ordinals -> SUBSET Kinds]
    BY <1>1
  <2>2. segs \in [Ordinals -> Content] /\ \A n \in Ordinals : segs[n].synced <= Len(segs[n].recs)
    BY <1>2
  <2>3. man \in [Ordinals -> Seq(Rec)] /\ last_sequences \in [Streams -> 0..MaxSeq]
    OBVIOUS
  <2>4. poisoned \in BOOLEAN /\ failed \in BOOLEAN
    BY Zenon
  <2>5. /\ process_crashes \in 0..MaxProcessCrashes
        /\ power_losses \in 0..MaxPowerLosses
        /\ io_errors \in 0..MaxIoErrors
        /\ active_ordinal \in 0..MaxSegments
        /\ active_record_count \in Nat
        /\ req \in Seq(Rec) /\ acked \in Seq(Position)
        /\ pc = "down" /\ ret = "none" /\ refusal = "none"
    OBVIOUS
  <2> QED
    BY <2>1, <2>2, <2>3, <2>4, <2>5 DEF TypeOK, Rets, Refusals
<1>5. Bounded
    BY <1>2, <1>3 DEF Bounded, Working, Creating, Appending, Sealing
<1>6. Requested
    BY DEF Requested, Appending, Creating, Sealing
<1> QED
    BY <1>4, <1>5, <1>6 DEF TypeInv

\* Every step, stuttering included, preserves the inductive type invariant.
LEMMA TypeStep == TypeInv /\ [Next]_vars => TypeInv'
<1> SUFFICES ASSUME TypeInv, [Next]_vars PROVE TypeInv'
    OBVIOUS
<1>1. CASE Next
    BY ZenonT(60), <1>1, DirsStep, FilesStep, ControlStep, MemoryStep
    DEF TypeInv, TypeOK, DirsOK, FilesOK, ControlOK, MemoryOK
<1>2. CASE UNCHANGED vars
    BY ZenonT(60), <1>2 DEF vars, diskVars, memVars, faultVars, TypeInv, TypeOK, Bounded, Requested
<1> QED
    BY <1>1, <1>2

\* The WAL writer's state keeps its type under every fault the model has, and a
\* rotation or a recovery never leaves the bounded ordinals.
THEOREM TypeCorrect == Spec => []TypeOK
<1>1. TypeInv => TypeOK
    BY DEF TypeInv
<1> QED
    BY <1>1, TypeInit, TypeStep, PTL DEF Spec

-----------------------------------------------------------------------------
(* Acknowledged positions.                                                 *)

ActiveNamed == {"create_sync", "ready", "append_write", "append_sync", "seal_verify",
                "pending_temp", "pending_rename", "pending_sync", "seal_rename",
                "recover_open", "recover_clean"}

SealedNamed == {"seal_sync", "resume_verify", "manifest_rename", "manifest_sync"}

Unnamed(n) == "active" \notin dir[n] /\ "sealed" \notin dir[n]

\* What the directory holds around the segment the writer works on.
Shape ==
    /\ pc \in ActiveNamed => "active" \in dir[active_ordinal]
    /\ pc \in SealedNamed => "sealed" \in dir[active_ordinal]
    /\ pc \in Working => \A n \in Ordinals : n > active_ordinal => Unnamed(n)
    /\ pc \in {"create_temp", "create_rename"} => Unnamed(active_ordinal)
    /\ (pc \in Sealing \ {"manifest_sync"} /\ ret = "pending") =>
            Having("manifest") = 1..(active_ordinal - 1)
    /\ (pc = "manifest_sync" /\ ret = "pending") => Having("manifest") = 1..active_ordinal
    /\ pc = "recover_active" =>
            \A n \in Having("sealed") : n <= Cardinality(Having("manifest"))

\* The frame just written is the last of the active segment.
Written ==
    pc = "append_sync" =>
        /\ Len(segs[active_ordinal].recs) > 0
        /\ segs[active_ordinal].recs[Len(segs[active_ordinal].recs)] = Head(req)

ReadableInv == TypeInv /\ Shape /\ Written /\ AckedReadable

\* What recover_locked has established when it accepts the chain.
LEMMA AcceptedChain ==
    ASSUME ChainRefusal = "none"
    PROVE  /\ \A n \in Having("pending") :
                 ({"active", "sealed"} \cap dir[n]) \in {{"active"}, {"sealed"}}
           /\ Having("manifest") = SealedChain
           /\ SealedChain = 1..Cardinality(SealedChain)
           /\ Having("pending") # {} =>
                 /\ Having("active") \subseteq Having("pending")
                 /\ Having("pending") = {Cardinality(SealedChain) + 1}
    BY DEF ChainRefusal

\* Inventories are finite.
LEMMA HavingCardinality ==
    ASSUME NEW kind
    PROVE  Cardinality(Having(kind)) \in Nat
<1>1. IsFiniteSet(Ordinals)
    BY WalConstants, FS_Interval DEF Ordinals
<1>2. IsFiniteSet(Having(kind))
    BY <1>1, FS_Subset DEF Having
<1> QED
    BY <1>2, FS_CardinalityType

\* Every step keeps the directory in the shape the writer relies on; after a
\* crash it relies on nothing.
LEMMA ShapeStep ==
    ASSUME TypeInv, Shape, Next
    PROVE  Shape'
<1> USE WalConstants
    DEF Shape, Unnamed, Having, ActiveNamed, SealedNamed, Working, Creating, Appending, Sealing, Goto
<1>0. /\ pc \in Working => active_ordinal \in Ordinals
      /\ active_ordinal \in 0..MaxSegments
      /\ dir \in [Ordinals -> SUBSET Kinds]
      /\ \A n \in Ordinals : n \in Int
    BY DEF TypeInv, TypeOK, Bounded, Ordinals
<1>1. CASE CreateTemp
    BY <1>0, <1>1 DEF CreateTemp, DirStep, AddName, SetDir, memVars
<1>2. CASE CreateRename
    BY <1>0, <1>2 DEF CreateRename, Rename, SetDir, memVars
<1>3. CASE CreateSync
    BY SMTT(30), <1>0, <1>3 DEF CreateSync, SyncDir, memVars
<1>4. ASSUME NEW r \in Rec, AppendRecord(r) PROVE Shape'
    BY <1>0, <1>4 DEF AppendRecord, StartRotation, diskVars, memVars
<1>5. CASE AppendWrite \/ AppendSync \/ AppendFails \/ Sync \/ SyncFails
    BY <1>0, <1>5 DEF AppendWrite, AppendSync, AppendFails, Sync, SyncFails, diskVars, memVars
<1>6. CASE Rotate
    BY <1>0, <1>6 DEF Rotate, StartRotation, diskVars, memVars
<1>7. CASE SealVerify
    BY <1>0, <1>7 DEF SealVerify, memVars
<1>8. CASE pc' \in {"down", "inactive"}
    BY <1>8
<1>9. CASE PendingTemp
    BY <1>0, <1>9 DEF PendingTemp, DirStep, AddName, SetDir, memVars
<1>10. CASE PendingRename
    BY SMTT(30), <1>0, <1>10 DEF PendingRename, Rename, SetDir, memVars
<1>11. CASE PendingExists
    BY <1>0, <1>8, <1>11 DEF PendingExists, SetDir, Abandon, memVars
<1>12. CASE PendingSync \/ SealSync
    BY <1>0, <1>12 DEF PendingSync, SealSync, DirStep, SyncDir, memVars
<1>13. CASE SealRename
    BY SMTT(30), <1>0, <1>13 DEF SealRename, DirStep, Rename, SetDir, memVars
<1>14. CASE ResumeVerify
    BY <1>0, <1>8, <1>14 DEF ResumeVerify, Abandon, diskVars, memVars
<1>15. CASE ManifestRename
  <2>1. /\ pc = "manifest_rename" /\ pc' = "manifest_sync" /\ UNCHANGED <<ret, active_ordinal>>
        /\ dir' = [dir EXCEPT ![active_ordinal] = (dir[active_ordinal] \ {"pending"}) \cup {"manifest"}]
    BY <1>15 DEF ManifestRename, DirStep, Rename, SetDir, memVars
  <2>2. active_ordinal \in Ordinals
    BY <1>0, <2>1
  <2>3. \A n \in Ordinals : n # active_ordinal => dir'[n] = dir[n]
    BY <1>0, <2>1, <2>2
  <2>4. dir'[active_ordinal] = (dir[active_ordinal] \ {"pending"}) \cup {"manifest"}
    BY <1>0, <2>1, <2>2
  <2>5. ret = "pending" => Having("manifest")' = 1..active_ordinal
    <3>1. ASSUME ret = "pending" PROVE \A n \in Ordinals : n \in Having("manifest")' <=> n <= active_ordinal
      BY SMTT(30), <1>0, <2>1, <2>2, <2>3, <2>4, <3>1 DEF Ordinals
    <3> QED
      BY <2>2, <3>1 DEF Ordinals
  <2> QED
    BY <1>0, <2>1, <2>2, <2>3, <2>4, <2>5
<1>16. CASE ManifestSync
  <2>1. pc = "manifest_sync" /\ active_ordinal \in Ordinals /\ UNCHANGED dir
    BY SMTT(30), <1>0, <1>16 DEF ManifestSync, SyncDir
  <2>2. CASE ret = "pending"
    <3>1. Cardinality(Having("manifest")) = active_ordinal
      <4>1. Having("manifest") = 1..active_ordinal
        BY <2>1, <2>2
      <4>2. Cardinality(1..active_ordinal) = active_ordinal
        BY <2>1, FS_Interval DEF Ordinals
      <4> HIDE DEF Having
      <4> QED
        BY <4>1, <4>2
    <3>2. pc' = "recover_active" /\ ret' = "none"
      BY <1>16, <2>2 DEF ManifestSync
    <3>3. \A n \in Having("sealed") : n <= active_ordinal
      BY <1>0, <2>1
    <3> QED
      BY <2>1, <3>1, <3>2, <3>3
  <2>3. CASE ret # "pending"
    <3>1. pc' = "create_temp" /\ active_ordinal' = active_ordinal + 1
      BY <1>16, <2>3 DEF ManifestSync, NextOrdinal
    <3>2. active_ordinal + 1 \in Ordinals
      BY <2>1, <2>3 DEF TypeInv, Bounded, Ordinals
    <3> QED
      BY <1>0, <2>1, <3>1, <3>2
  <2> QED
    BY <2>2, <2>3
<1>17. CASE OpenCreate
  <2>1. pc' = "create_temp" /\ active_ordinal' = 1 /\ UNCHANGED dir /\ ret' = "first"
    BY <1>17 DEF OpenCreate, diskVars
  <2>2. \A n \in Ordinals : Unnamed(n)
    BY <1>17 DEF OpenCreate, NoNames
  <2>3. 1 \in Ordinals
    BY SMTT(30) DEF Ordinals
  <2> QED
    BY <2>1, <2>2, <2>3
<1>18. CASE RecoverChain
  <2>1. pc = "down" /\ UNCHANGED dir
    BY ZenonT(30), <1>18 DEF RecoverChain, diskVars
  <2>2. CASE ChainRefusal # "none"
    BY SMTT(30), <1>8, <1>18, <2>1, <2>2 DEF RecoverChain
  <2>3. CASE ChainRefusal = "none" /\ Having("pending") = {}
    <3>1. pc' = "recover_active"
      BY SMTT(30), <1>18, <2>3 DEF RecoverChain
    <3>2. Having("sealed") = Having("manifest")
          /\ Having("manifest") = 1..Cardinality(Having("manifest"))
      BY <2>3, AcceptedChain DEF SealedChain
    <3>3. \A n \in Having("sealed") : n <= Cardinality(Having("manifest"))
      BY SMTT(30), <3>2, HavingCardinality
    <3> QED
      BY <2>1, <3>1, <3>3
  <2>4. CASE ChainRefusal = "none" /\ Having("pending") # {}
    <3>1. PICK n \in Having("pending") :
            /\ active_ordinal' = n /\ ret' = "pending"
            /\ pc' = IF "active" \in dir[n] THEN "seal_verify" ELSE "resume_verify"
      BY <1>18, <2>4 DEF RecoverChain
    <3>2. n \in Ordinals
      BY <3>1
    <3> HIDE DEF Having
    <3>3. Cardinality(Having("manifest")) \in Nat
      BY HavingCardinality
    <3>4. "active" \notin dir[n] => "sealed" \in dir[n]
      BY SMTT(30), <2>4, <3>1, AcceptedChain
    <3>5. /\ n = Cardinality(Having("manifest")) + 1
          /\ Having("manifest") = 1..Cardinality(Having("manifest"))
          /\ Having("active") \subseteq {n}
          /\ Having("sealed") \subseteq Having("manifest") \cup {n}
      <4>1. /\ Having("manifest") = SealedChain
            /\ SealedChain = 1..Cardinality(SealedChain)
            /\ Having("pending") = {Cardinality(SealedChain) + 1}
            /\ Having("active") \subseteq Having("pending")
        BY <2>4, AcceptedChain
      <4>2. Having("sealed") \subseteq SealedChain \cup Having("pending")
        BY DEF SealedChain
      <4> QED
        BY SMTT(30), <3>1, <4>1, <4>2
    <3>6. \A m \in Ordinals : m > n => m \notin Having("active") /\ m \notin Having("sealed")
      BY <1>0, <3>2, <3>3, <3>5
    <3>7. Having("manifest") = 1..(n - 1)
      BY <3>3, <3>5
    <3>8. \A m \in Ordinals : m > n => Unnamed(m)
      BY <3>6 DEF Having
    <3>9. Having("manifest")' = 1..(n - 1)
      BY SMTT(30), <2>1, <3>7 DEF Having
    <3> QED
      BY SMTT(30), <2>1, <3>1, <3>2, <3>4, <3>8, <3>9
  <2> QED
    BY ZenonT(30), <2>2, <2>3, <2>4
<1>19. CASE RecoverActive
  <2> DEFINE next == Cardinality(Having("manifest")) + 1
  <2>1. CASE pc' = "down"
    BY SMTT(30), <1>8, <2>1
  <2>2. CASE pc' # "down"
    <3>1. /\ pc = "recover_active" /\ UNCHANGED dir
          /\ active_ordinal' = next /\ next \in Ordinals
          /\ \/ Having("active") = {} /\ pc' = "create_temp" /\ ret' = "successor"
             \/ Having("active") = {next} /\ pc' = "recover_open"
      BY <1>19, <2>2 DEF RecoverActive, diskVars
    <3>2. \A n \in Having("sealed") : n < next
      <4>1. \A n \in Having("sealed") : n \in Int
        BY <1>0
      <4>2. \A n \in Having("sealed") : n <= Cardinality(Having("manifest"))
        BY <3>1
      <4> HIDE DEF Having
      <4> QED
        BY <4>1, <4>2, HavingCardinality
    <3> HIDE DEF next
    <3>3. \A n \in Ordinals : n > next => Unnamed(n)
      BY <1>0, <3>1, <3>2
    <3>4. pc' = "create_temp" => Unnamed(next)
      BY SMTT(30), <1>0, <3>1, <3>2
    <3> QED
      BY <3>1, <3>3, <3>4
  <2> QED
    BY ZenonT(30), <2>1, <2>2
<1>20. CASE RecoverOpen
    BY ZenonT(30), <1>0, <1>8, <1>20 DEF RecoverOpen
<1>21. CASE RecoverClean
    BY <1>0, <1>21 DEF RecoverClean, StartRotation, Temporaries, memVars
<1>22. CASE SealVerifyFails \/ IoFails \/ ProcessCrash \/ PowerLoss \/ Close
    BY <1>8, <1>22 DEF SealVerifyFails, IoFails, ProcessCrash, PowerLoss, Close, Abandon
<1> HIDE DEF Shape, Unnamed, Having, ActiveNamed, SealedNamed, Working, Creating, Appending, Sealing, Goto
<1> QED
    BY <1>1, <1>2, <1>3, <1>4, <1>5, <1>6, <1>7, <1>9, <1>10, <1>11, <1>12, <1>13, <1>14, <1>15,
       <1>16, <1>17, <1>18, <1>19, <1>20, <1>21, <1>22
    DEF Next, Caller, Protocol, Open, Environment

\* When sync_data is about to run, the last frame is the requested record.
LEMMA WrittenStep ==
    ASSUME TypeInv, Written, Next
    PROVE  Written'
<1>1. CASE AppendWrite
  <2>1. /\ active_ordinal \in Ordinals /\ segs \in [Ordinals -> Content] /\ Head(req) \in Rec
        /\ UNCHANGED <<active_ordinal, req>>
    BY <1>1 DEF AppendWrite, TypeInv, TypeOK, Bounded, Requested, Working, Appending, memVars
  <2>2. segs'[active_ordinal].recs = Append(segs[active_ordinal].recs, Head(req))
    BY <1>1, <2>1 DEF AppendWrite, Content
  <2>3. segs[active_ordinal].recs \in Seq(Rec)
    BY <2>1 DEF Content
  <2> QED
    BY <2>1, <2>2, <2>3 DEF Written
<1>2. CASE pc' # "append_sync"
    BY <1>2 DEF Written
<1>3. ASSUME NEW r \in Rec, AppendRecord(r) PROVE pc' # "append_sync"
    BY <1>3 DEF AppendRecord, StartRotation, Goto
<1>4. ASSUME Sync \/ Rotate \/ Close \/ AppendFails \/ SyncFails \/ IoFails \/ ProcessCrash
             \/ PowerLoss
      PROVE  pc' # "append_sync"
    BY <1>4 DEF Sync, Rotate, Close, AppendFails, SyncFails, IoFails, ProcessCrash, PowerLoss,
                StartRotation, Abandon, Goto
<1>5. ASSUME CreateTemp \/ CreateRename \/ CreateSync \/ AppendSync PROVE pc' # "append_sync"
    BY SMTT(30), <1>5 DEF CreateTemp, CreateRename, CreateSync, AppendSync, DirStep, Goto
<1>6. ASSUME SealVerify \/ SealVerifyFails \/ PendingTemp \/ PendingRename \/ PendingExists
             \/ PendingSync \/ SealRename \/ SealSync \/ ResumeVerify \/ ManifestRename
             \/ ManifestSync
      PROVE  pc' # "append_sync"
    BY <1>6 DEF SealVerify, SealVerifyFails, PendingTemp, PendingRename, PendingExists,
                PendingSync, SealRename, SealSync, ResumeVerify, ManifestRename, ManifestSync,
                DirStep, Abandon, Goto
<1>7. ASSUME RecoverActive \/ RecoverOpen \/ RecoverClean \/ OpenCreate \/ RecoverChain
      PROVE  pc' # "append_sync"
    BY SMTT(30), <1>7 DEF RecoverActive, RecoverOpen, RecoverClean, OpenCreate, RecoverChain, StartRotation,
                Goto
<1> QED
    BY <1>1, <1>2, <1>3, <1>4, <1>5, <1>6, <1>7 DEF Next, Caller, Protocol, Open, Environment

\* An index below one bound is below any larger bound.
LEMMA StaysInRange ==
    ASSUME NEW i \in Nat, NEW m \in Nat, NEW n \in Nat, i \in 1..m, m <= n
    PROVE  i \in 1..n
BY SMT

\* No step but a power loss makes a readable position unreadable: files only
\* grow, and a file is created only under an ordinal that names nothing.
LEMMA ReadableStep ==
    ASSUME TypeInv, Shape, Next, ~PowerLoss, NEW p \in Position, Readable(p)
    PROVE  Readable(p)'
<1> DEFINE Named(d) == {"active", "sealed"} \cap d[p.ord] # {}
           Kept(c) == p.idx \in 1..c.synced
                      /\ c.recs[p.idx] = [stream |-> p.stream, seq |-> p.seq]
<1>0. /\ p.ord \in Ordinals /\ p.idx \in Nat /\ Named(dir) /\ Kept(segs[p.ord])
      /\ dir \in [Ordinals -> SUBSET Kinds] /\ segs \in [Ordinals -> Content]
      /\ segs[p.ord].recs \in Seq(Rec) /\ segs[p.ord].synced \in Nat
      /\ segs[p.ord].synced <= Len(segs[p.ord].recs)
    BY Zenon DEF Position, Readable, TypeInv, TypeOK, Content
<1>k. ASSUME NEW c, c.recs = segs[p.ord].recs, c.synced \in Nat, segs[p.ord].synced <= c.synced
      PROVE  Kept(c)
  <2>1. p.idx \in 1..segs[p.ord].synced
    BY Zenon, <1>0
  <2>2. p.idx \in 1..c.synced
    BY Zenon, <1>0, <1>k, <2>1, StaysInRange
  <2>3. c.recs[p.idx] = [stream |-> p.stream, seq |-> p.seq]
    BY Zenon, <1>0, <1>k
  <2> QED
    BY Zenon, <2>2, <2>3
<1>1. Named(dir)'
  <2> USE DEF Kinds
  <2>1. CASE UNCHANGED dir
    BY ZenonT(30), <1>0, <2>1
  <2>2. ASSUME NEW n \in Ordinals, NEW S, {"active", "sealed"} \cap dir[n] # {} =>
                   {"active", "sealed"} \cap S # {},
               dir' = [dir EXCEPT ![n] = S]
        PROVE  Named(dir)'
    BY <1>0, <2>2
  <2>3. pc \in Creating \cup Sealing => active_ordinal \in Ordinals
    BY SMTT(30) DEF TypeInv, Bounded, Working
  <2>4. CASE CreateTemp \/ PendingTemp
    BY SMTT(30), <2>2, <2>3, <2>4 DEF CreateTemp, PendingTemp, DirStep, AddName, SetDir, Creating, Sealing
  <2>5. CASE CreateRename \/ PendingRename \/ SealRename \/ ManifestRename
    BY <2>2, <2>3, <2>5
    DEF CreateRename, PendingRename, SealRename, ManifestRename, DirStep, Rename, SetDir,
        Creating, Sealing
  <2>6. CASE PendingExists
    <3>1. /\ active_ordinal \in Ordinals
          /\ dir' = [dir EXCEPT ![active_ordinal] = dir[active_ordinal] \ {"pending_temp"}]
      BY SMTT(30), <2>3, <2>6 DEF PendingExists, SetDir, Sealing
    <3>2. CASE active_ordinal = p.ord
      <4>1. dir'[p.ord] = dir[p.ord] \ {"pending_temp"}
        BY ZenonT(30), <1>0, <3>1, <3>2
      <4> QED
        BY SMTT(30), <1>0, <4>1
    <3>3. CASE active_ordinal # p.ord
      <4>1. dir'[p.ord] = dir[p.ord]
        BY <1>0, <3>1, <3>3
      <4> QED
        BY SMTT(30), <1>0, <4>1
    <3> QED
      BY <3>2, <3>3
  <2>7. CASE IoFails
    BY SMTT(30), <2>1, <2>2, <2>3, <2>7 DEF IoFails, SetDir, Creating, Sealing
  <2>8. CASE RecoverClean
    BY SMTT(60), <1>0, <2>1, <2>8 DEF RecoverClean, Temporaries
  <2>9. ASSUME NEW r \in Rec, AppendRecord(r) PROVE UNCHANGED dir
    BY <2>9 DEF AppendRecord, diskVars
  <2>10. ASSUME Sync \/ Rotate \/ Close \/ AppendWrite \/ AppendSync \/ SealVerify
                \/ SealVerifyFails \/ ResumeVerify
         PROVE  UNCHANGED dir
    BY <2>10 DEF Sync, Rotate, Close, AppendWrite, AppendSync, SealVerify, SealVerifyFails,
                 ResumeVerify, diskVars
  <2>11. ASSUME RecoverActive \/ RecoverOpen \/ OpenCreate \/ RecoverChain \/ AppendFails
                \/ SyncFails \/ ProcessCrash
         PROVE  UNCHANGED dir
    BY <2>11 DEF RecoverActive, RecoverOpen, OpenCreate, RecoverChain, AppendFails, SyncFails,
                 ProcessCrash, diskVars
  <2>12. ASSUME CreateSync \/ PendingSync \/ SealSync \/ ManifestSync PROVE UNCHANGED dir
    BY SMTT(30), <2>12 DEF CreateSync, PendingSync, SealSync, ManifestSync, SyncDir
  <2> HIDE DEF Named, Kept, Kinds
  <2> QED
    BY SMTT(30), <2>1, <2>4, <2>5, <2>6, <2>7, <2>8, <2>9, <2>10, <2>11, <2>12
    DEF Next, Caller, Protocol, Open, Environment
<1>2. Kept(segs[p.ord])'
  <2>1. CASE UNCHANGED segs
    BY <1>0, <2>1
  <2>3. pc \in Working => active_ordinal \in Ordinals
    BY SMTT(30) DEF TypeInv, Bounded
  <2>4. CASE CreateRename
    <3>1. active_ordinal # p.ord
      BY SMTT(30), <1>0, <2>4 DEF CreateRename, Shape, Unnamed
    <3>2. segs'[p.ord] = segs[p.ord]
      BY ZenonT(60), <1>0, <2>3, <2>4, <3>1 DEF CreateRename, Working, Creating
    <3> QED
      BY ZenonT(30), <1>0, <3>2
  <2>5. CASE AppendSync \/ Sync \/ SealVerify
    <3>1. pc \in Working /\ segs' = [segs EXCEPT ![active_ordinal] = Synced(segs[active_ordinal])]
      BY SMTT(30), <2>5 DEF AppendSync, Sync, SealVerify, Working, Appending, Sealing
    <3>2. Kept(Synced(segs[p.ord]))
      <4>1. Synced(segs[p.ord]).synced = Len(segs[p.ord].recs)
            /\ Synced(segs[p.ord]).recs = segs[p.ord].recs
        BY Zenon, <1>0, Contents
      <4>2. Synced(segs[p.ord]).synced \in Nat
            /\ segs[p.ord].synced <= Synced(segs[p.ord]).synced
        <5>1. Len(segs[p.ord].recs) \in Nat
          BY <1>0
        <5> QED
          BY Zenon, <1>0, <4>1, <5>1
      <4> HIDE DEF Kept
      <4> QED
        BY Zenon, <1>k, <4>1, <4>2
    <3>3. segs'[p.ord] = IF active_ordinal = p.ord THEN Synced(segs[p.ord]) ELSE segs[p.ord]
      BY <1>0, <2>3, <3>1
    <3> QED
      BY <1>0, <3>2, <3>3
  <2>6. CASE AppendWrite
    <3> DEFINE c == [segs[active_ordinal] EXCEPT !.recs = Append(@, Head(req))]
    <3>1. pc \in Working /\ Head(req) \in Rec /\ segs' = [segs EXCEPT ![active_ordinal] = c]
      BY <2>6 DEF AppendWrite, Working, Appending, TypeInv, TypeOK, Requested
    <3>2. active_ordinal = p.ord => c.synced = segs[p.ord].synced
                                    /\ c.recs = Append(segs[p.ord].recs, Head(req))
      BY SMTT(30), <1>0, <3>1, AppendedContents
    <3>3. active_ordinal = p.ord => Kept(c)
      <4> HIDE DEF c
      <4> QED
        BY SMTT(60), <1>0, <3>1, <3>2
    <3> HIDE DEF c
    <3>4. segs'[p.ord] = IF active_ordinal = p.ord THEN c ELSE segs[p.ord]
      BY <1>0, <2>3, <3>1
    <3> QED
      BY <1>0, <3>3, <3>4
  <2>7. CASE (AppendFails \/ ProcessCrash) /\ segs' # segs
    <3> DEFINE c == [segs[active_ordinal] EXCEPT !.torn = TRUE]
    <3>1. pc \in Working /\ segs' = [segs EXCEPT ![active_ordinal] = c]
      BY <2>7 DEF AppendFails, ProcessCrash, Working, Appending
    <3>2. active_ordinal = p.ord => Kept(c)
      BY <1>0 DEF Content
    <3> HIDE DEF c
    <3>3. segs'[p.ord] = IF active_ordinal = p.ord THEN c ELSE segs[p.ord]
      BY <1>0, <2>3, <3>1
    <3> QED
      BY <1>0, <3>2, <3>3
  <2>8. CASE RecoverOpen /\ segs' # segs
    <3>1. pc \in Working /\ segs' = [segs EXCEPT ![active_ordinal] = RepairTail(segs[active_ordinal])]
      BY SMTT(30), <2>8 DEF RecoverOpen, Working
    <3>2. Kept(RepairTail(segs[p.ord]))
      <4>1. /\ RepairTail(segs[p.ord]) \in Content
            /\ RepairTail(segs[p.ord]).synced >= segs[p.ord].synced
            /\ RepairTail(segs[p.ord]).recs = segs[p.ord].recs
        BY <1>0, Contents
      <4>2. RepairTail(segs[p.ord]).synced \in Nat
        BY SMTT(30), <4>1 DEF Content
      <4>3. \A m, n \in Nat : m >= n => n <= m
        BY SMT
      <4>4. segs[p.ord].synced <= RepairTail(segs[p.ord]).synced
        BY Zenon, <1>0, <4>1, <4>2, <4>3
      <4> HIDE DEF Kept
      <4> QED
        BY Zenon, <1>k, <4>1, <4>2, <4>4
    <3>3. segs'[p.ord] = IF active_ordinal = p.ord THEN RepairTail(segs[p.ord]) ELSE segs[p.ord]
      BY <1>0, <2>3, <3>1
    <3> QED
      BY <1>0, <3>2, <3>3
  <2>9. ASSUME NEW r \in Rec, AppendRecord(r) PROVE UNCHANGED segs
    BY <2>9 DEF AppendRecord, diskVars
  <2>10. ASSUME CreateTemp \/ CreateSync \/ PendingTemp \/ PendingRename \/ PendingExists
                \/ PendingSync \/ SealRename \/ SealSync \/ ManifestRename \/ ManifestSync
         PROVE  UNCHANGED segs
    BY <2>10 DEF CreateTemp, CreateSync, PendingTemp, PendingRename, PendingExists, PendingSync,
                 SealRename, SealSync, ManifestRename, ManifestSync, DirStep
  <2>11. ASSUME Rotate \/ Close \/ SealVerifyFails \/ ResumeVerify \/ RecoverActive \/ RecoverClean
                \/ OpenCreate \/ RecoverChain \/ SyncFails \/ IoFails
         PROVE  UNCHANGED segs
    BY <2>11 DEF Rotate, Close, SealVerifyFails, ResumeVerify, RecoverActive, RecoverClean,
                 OpenCreate, RecoverChain, SyncFails, IoFails, diskVars
  <2> HIDE DEF Named, Kept
  <2> QED
    BY ZenonT(30), <2>1, <2>4, <2>5, <2>6, <2>7, <2>8, <2>9, <2>10, <2>11
    DEF Next, Caller, Protocol, Open, Environment
<1> QED
    BY ZenonT(60), <1>1, <1>2 DEF Readable

\* Only append hands out positions.
LEMMA AckedChanges ==
    ASSUME Next, ~PowerLoss
    PROVE  AppendSync \/ UNCHANGED acked
<1>1. ASSUME NEW r \in Rec, AppendRecord(r) PROVE UNCHANGED acked
    BY ZenonT(60), <1>1 DEF AppendRecord
<1>2. ASSUME Sync \/ Rotate \/ Close \/ AppendWrite \/ SealVerify \/ SealVerifyFails \/ ResumeVerify
             \/ RecoverActive \/ RecoverOpen \/ RecoverClean \/ OpenCreate \/ RecoverChain
      PROVE  UNCHANGED acked
    BY <1>2 DEF Sync, Rotate, Close, AppendWrite, SealVerify, SealVerifyFails, ResumeVerify,
                RecoverActive, RecoverOpen, RecoverClean, OpenCreate, RecoverChain
<1>3. ASSUME CreateTemp \/ CreateRename \/ CreateSync \/ PendingTemp \/ PendingRename
             \/ PendingExists \/ PendingSync \/ SealRename \/ SealSync \/ ManifestRename
             \/ ManifestSync
      PROVE  UNCHANGED acked
    BY <1>3 DEF CreateTemp, CreateRename, CreateSync, PendingTemp, PendingRename, PendingExists,
                PendingSync, SealRename, SealSync, ManifestRename, ManifestSync, DirStep
<1>4. ASSUME AppendFails \/ SyncFails \/ IoFails \/ ProcessCrash PROVE UNCHANGED acked
    BY <1>4 DEF AppendFails, SyncFails, IoFails, ProcessCrash
<1> QED
    BY <1>1, <1>2, <1>3, <1>4 DEF Next, Caller, Protocol, Open, Environment

\* Every step but a power loss keeps all handed-out positions readable.
LEMMA AckedStep ==
    ASSUME TypeInv, Shape, Written, AllReadable, Next, ~PowerLoss
    PROVE  AllReadable'
<1>1. \A k \in 1..Len(acked) : acked[k] \in Position /\ Readable(acked[k])
    BY SMTT(30) DEF TypeInv, TypeOK, AllReadable
<1>2. \A k \in 1..Len(acked) :
        /\ acked[k].idx \in 1..segs'[acked[k].ord].synced
        /\ segs'[acked[k].ord].recs[acked[k].idx] =
                [stream |-> acked[k].stream, seq |-> acked[k].seq]
        /\ {"active", "sealed"} \cap dir'[acked[k].ord] # {}
  <2>1. \A p \in Position : Readable(p) =>
            /\ p.idx \in 1..segs'[p.ord].synced
            /\ segs'[p.ord].recs[p.idx] = [stream |-> p.stream, seq |-> p.seq]
            /\ {"active", "sealed"} \cap dir'[p.ord] # {}
    <3> SUFFICES ASSUME NEW p \in Position, Readable(p)
                 PROVE  /\ p.idx \in 1..segs'[p.ord].synced
                        /\ segs'[p.ord].recs[p.idx] = [stream |-> p.stream, seq |-> p.seq]
                        /\ {"active", "sealed"} \cap dir'[p.ord] # {}
      OBVIOUS
    <3>1. Readable(p)'
      BY SMTT(30), ReadableStep
    <3> QED
      BY ZenonT(30), <3>1 DEF Readable
  <2> QED
    BY ZenonT(30), <1>1, <2>1
<1>3. CASE AppendSync
  <2> DEFINE p == [stream |-> Head(req).stream, seq |-> Head(req).seq,
                   ord |-> active_ordinal, idx |-> Len(segs[active_ordinal].recs)]
  <2>1. /\ active_ordinal \in Ordinals /\ Head(req) \in Rec /\ pc = "append_sync"
        /\ segs[active_ordinal] \in Content
        /\ segs[active_ordinal].synced <= Len(segs[active_ordinal].recs)
    <3>1. pc = "append_sync" /\ pc \in Appending
      BY <1>3 DEF AppendSync, Appending
    <3>2. active_ordinal \in Ordinals
      BY <3>1 DEF TypeInv, Bounded, Working
    <3>3. Head(req) \in Rec
      BY <3>1 DEF TypeInv, TypeOK, Requested
    <3> QED
      BY <3>1, <3>2, <3>3 DEF TypeInv, TypeOK
  <2>2. acked' = Append(acked, p) /\ acked \in Seq(Position) /\ UNCHANGED dir
        /\ segs' = [segs EXCEPT ![active_ordinal] = Synced(segs[active_ordinal])]
    BY <1>3 DEF AppendSync, TypeInv, TypeOK
  <2>3. segs'[active_ordinal] = Synced(segs[active_ordinal])
    BY <2>1, <2>2 DEF TypeInv, TypeOK
  <2>4. /\ segs'[active_ordinal].synced = Len(segs[active_ordinal].recs)
        /\ segs'[active_ordinal].recs = segs[active_ordinal].recs
    BY <2>1, <2>3, Contents
  <2>5. Len(segs[active_ordinal].recs) \in Nat \ {0}
        /\ segs[active_ordinal].recs[Len(segs[active_ordinal].recs)] = Head(req)
    BY <2>1 DEF Written, Content
  <2>6. "active" \in dir[active_ordinal]
    BY <2>1 DEF Shape, ActiveNamed
  <2>7. Head(req) = [stream |-> Head(req).stream, seq |-> Head(req).seq]
    BY SMTT(30), <2>1 DEF Rec
  <2>8. /\ p.ord = active_ordinal /\ p.idx = Len(segs[active_ordinal].recs)
        /\ p.stream = Head(req).stream /\ p.seq = Head(req).seq
    BY ZenonT(30)
  <2> HIDE DEF p
  <2>9. /\ p.idx \in 1..segs'[p.ord].synced
        /\ segs'[p.ord].recs[p.idx] = [stream |-> p.stream, seq |-> p.seq]
        /\ {"active", "sealed"} \cap dir'[p.ord] # {}
    <3>1. p.idx \in 1..segs'[p.ord].synced
      <4>1. \A n \in Nat \ {0} : n \in 1..n
        BY SMT
      <4> QED
        BY Zenon, <2>4, <2>5, <2>8, <4>1
    <3>2. segs'[p.ord].recs[p.idx] = Head(req)
      BY Zenon, <2>4, <2>5, <2>8
    <3>3. {"active", "sealed"} \cap dir'[p.ord] # {}
      BY Zenon, <2>2, <2>6, <2>8
    <3> QED
      BY Zenon, <2>7, <2>8, <3>1, <3>2, <3>3
  <2>10. Len(acked') = Len(acked) + 1 /\ acked'[Len(acked) + 1] = p
         /\ \A k \in 1..Len(acked) : acked'[k] = acked[k]
    BY <2>2
  <2>11. Len(acked) \in Nat
    BY <2>2
  <2> SUFFICES \A k \in 1..Len(acked') :
                    /\ acked'[k].idx \in 1..segs'[acked'[k].ord].synced
                    /\ segs'[acked'[k].ord].recs[acked'[k].idx] =
                            [stream |-> acked'[k].stream, seq |-> acked'[k].seq]
                    /\ {"active", "sealed"} \cap dir'[acked'[k].ord] # {}
    BY ZenonT(60) DEF AllReadable, Readable
  <2> TAKE k \in 1..Len(acked')
  <2>12. CASE k = Len(acked) + 1
    BY ZenonT(30), <2>9, <2>10, <2>12
  <2>13. CASE k \in 1..Len(acked)
    BY ZenonT(30), <1>2, <2>10, <2>13
  <2>14. k = Len(acked) + 1 \/ k \in 1..Len(acked)
    BY <2>10, <2>11
  <2> QED
    BY Zenon, <2>12, <2>13, <2>14
<1>4. CASE UNCHANGED acked
    BY ZenonT(30), <1>2, <1>4 DEF AllReadable, Readable
<1> QED
    BY <1>3, <1>4, AckedChanges

\* Only a power loss counts as one.
LEMMA LossesOnlyCounted ==
    ASSUME Next, ~PowerLoss
    PROVE  power_losses' = power_losses
<1> USE DEF faultVars
<1>1. ASSUME NEW r \in Rec, AppendRecord(r) PROVE UNCHANGED power_losses
    BY Zenon, <1>1 DEF AppendRecord
<1>2. ASSUME Sync \/ Rotate \/ Close \/ AppendWrite \/ AppendSync \/ SealVerify \/ SealVerifyFails
             \/ ResumeVerify \/ RecoverActive \/ RecoverOpen \/ RecoverClean \/ OpenCreate \/ RecoverChain
      PROVE  UNCHANGED power_losses
    BY Zenon, <1>2 DEF Sync, Rotate, Close, AppendWrite, AppendSync, SealVerify, SealVerifyFails,
             ResumeVerify, RecoverActive, RecoverOpen, RecoverClean, OpenCreate, RecoverChain
<1>3. ASSUME CreateTemp \/ CreateRename \/ CreateSync \/ PendingTemp \/ PendingRename
             \/ PendingExists \/ PendingSync \/ SealRename \/ SealSync \/ ManifestRename
             \/ ManifestSync
      PROVE  UNCHANGED power_losses
    BY Zenon, <1>3 DEF CreateTemp, CreateRename, CreateSync, PendingTemp, PendingRename, PendingExists,
             PendingSync, SealRename, SealSync, ManifestRename, ManifestSync, DirStep
<1>4. ASSUME AppendFails \/ SyncFails \/ IoFails \/ ProcessCrash PROVE UNCHANGED power_losses
    BY Zenon, <1>4 DEF AppendFails, SyncFails, IoFails, ProcessCrash
<1> QED
    BY Zenon, <1>1, <1>2, <1>3, <1>4 DEF Next, Caller, Protocol, Open, Environment

\* Without power losses, a position that append has handed out stays readable:
\* its frame is in the file, synced, and the file keeps a segment name, through
\* any number of process deaths, failing system calls, rotations and recoveries.
THEOREM AcknowledgedReadable == Spec => []AckedReadable
<1>1. Init => ReadableInv
  <2> SUFFICES ASSUME Init PROVE ReadableInv
    BY SMTT(30)
  <2>1. Shape
    BY DEF Init, Shape, ActiveNamed, SealedNamed, Working, Creating, Appending, Sealing
  <2>2. Written
    BY DEF Init, Written
  <2>3. AckedReadable
    BY DEF Init, AckedReadable, AllReadable
  <2> QED
    BY <2>1, <2>2, <2>3, TypeInit DEF ReadableInv
<1>2. ReadableInv /\ [Next]_vars => ReadableInv'
  <2> SUFFICES ASSUME ReadableInv, [Next]_vars PROVE ReadableInv'
    OBVIOUS
  <2>2. TypeInv'
    BY TypeStep DEF ReadableInv
  <2>3. CASE Next
    <3>1. CASE PowerLoss
      <4>1. power_losses' # 0
        BY <3>1 DEF PowerLoss, ReadableInv, TypeInv, TypeOK
      <4>2. AckedReadable'
        BY Zenon, <4>1 DEF AckedReadable
      <4> QED
        BY <2>2, <2>3, <4>2, ShapeStep, WrittenStep DEF ReadableInv
    <3>2. CASE ~PowerLoss
      <4>1. power_losses' = 0 => power_losses = 0
        BY <2>3, <3>2, LossesOnlyCounted
      <4>2. AckedReadable'
        BY Zenon, <2>3, <3>2, <4>1, AckedStep DEF AckedReadable, ReadableInv
      <4> QED
        BY <2>2, <2>3, <4>2, ShapeStep, WrittenStep DEF ReadableInv
    <3> QED
      BY <3>1, <3>2
  <2>4. CASE UNCHANGED vars
    <3>1. Shape' /\ Written' /\ AckedReadable'
      BY ZenonT(60), <2>4 DEF vars, diskVars, memVars, faultVars, ReadableInv, Shape, Written,
         AckedReadable, AllReadable, Readable, Unnamed, Having
    <3> QED
      BY SMTT(30), <2>2, <3>1 DEF ReadableInv
  <2> QED
    BY <2>3, <2>4
<1>3. ReadableInv => AckedReadable
    BY DEF ReadableInv
<1> QED
    BY <1>1, <1>2, <1>3, PTL DEF Spec

-----------------------------------------------------------------------------
(* Losses of power.                                                        *)

FileNamed(d, n) == {"active", "sealed"} \cap d[n] # {}

\* A file name the process sees has reached the disk, but for the segment whose
\* creation is about to sync the directory.
NamesDurable ==
    \A n \in Ordinals :
        (FileNamed(dir, n) /\ ~(pc = "create_sync" /\ n = active_ordinal)) =>
            \A d \in dirHist : FileNamed(d, n)

DurableInv ==
    TypeInv /\ Shape /\ Written /\ (OnlyPowerLost => NamesDurable) /\ AckedDurable

\* How a step changes what a power loss may leave: the directory is synced, or
\* names are added and none but that of a segment under creation is new.
DirectoryGrows ==
    \/ dirHist' = {dir'}
    \/ /\ pc # "create_sync"
       /\ dirHist' \subseteq dirHist \cup {dir'}
       /\ \A n \in Ordinals :
            FileNamed(dir', n) => FileNamed(dir, n) \/ (pc' = "create_sync" /\ n = active_ordinal')

\* Every step that is not a process death or a failing system call keeps the
\* names on the disk or adds to them.
LEMMA DirectoryStep ==
    ASSUME TypeInv, Shape, Next, OnlyPowerLost'
    PROVE  OnlyPowerLost /\ DirectoryGrows
<1> USE DEF Goto
<1>0. /\ pc \in Creating \cup Sealing => active_ordinal \in Ordinals
      /\ dir \in [Ordinals -> SUBSET Kinds]
      /\ process_crashes \in Nat /\ io_errors \in Nat
    <2>1. pc \in Creating \cup Sealing => active_ordinal \in Ordinals
      BY DEF TypeInv, Bounded, Working
    <2>2. process_crashes \in Nat /\ io_errors \in Nat
      BY WalConstants DEF TypeInv, TypeOK
    <2> QED
      BY <2>1, <2>2 DEF TypeInv, TypeOK
<1>1. ASSUME NEW n \in Ordinals, NEW S, pc # "create_sync", SetDir([dir EXCEPT ![n] = S]),
             {"active", "sealed"} \cap S # {} =>
                {"active", "sealed"} \cap dir[n] # {} \/ (pc' = "create_sync" /\ n = active_ordinal')
      PROVE  DirectoryGrows
    BY <1>0, <1>1 DEF SetDir, FileNamed, DirectoryGrows
<1>2. ASSUME pc # "create_sync", UNCHANGED <<dir, dirHist>> PROVE DirectoryGrows
    BY Zenon, <1>2 DEF DirectoryGrows, FileNamed
<1>3. ASSUME AppendFails \/ SyncFails \/ IoFails \/ ProcessCrash PROVE FALSE
    BY <1>0, <1>3 DEF AppendFails, SyncFails, IoFails, ProcessCrash, OnlyPowerLost
<1>4. ASSUME NEW r \in Rec, AppendRecord(r) PROVE DirectoryGrows /\ UNCHANGED faultVars
    BY <1>2, <1>4 DEF AppendRecord, diskVars
<1>5. ASSUME Sync \/ Rotate \/ Close \/ AppendWrite \/ AppendSync \/ SealVerify \/ SealVerifyFails
             \/ ResumeVerify
      PROVE  DirectoryGrows /\ UNCHANGED faultVars
    BY <1>2, <1>5 DEF Sync, Rotate, Close, AppendWrite, AppendSync, SealVerify, SealVerifyFails,
                      ResumeVerify, diskVars
<1>6. ASSUME RecoverActive \/ RecoverOpen \/ OpenCreate \/ RecoverChain
      PROVE  DirectoryGrows /\ UNCHANGED faultVars
    BY <1>2, <1>6 DEF RecoverActive, RecoverOpen, OpenCreate, RecoverChain, diskVars
<1>7. ASSUME CreateSync \/ PendingSync \/ SealSync \/ ManifestSync
      PROVE  DirectoryGrows /\ UNCHANGED faultVars
    BY <1>7 DEF CreateSync, PendingSync, SealSync, ManifestSync, DirStep, SyncDir, DirectoryGrows
<1>8. ASSUME CreateTemp \/ PendingTemp PROVE DirectoryGrows /\ UNCHANGED faultVars
    BY <1>0, <1>1, <1>8 DEF CreateTemp, PendingTemp, DirStep, AddName, Creating, Sealing
<1>9. ASSUME CreateRename PROVE DirectoryGrows /\ UNCHANGED faultVars
    BY <1>0, <1>1, <1>9 DEF CreateRename, Rename, Creating, memVars
<1>10. ASSUME PendingRename \/ SealRename \/ ManifestRename PROVE DirectoryGrows /\ UNCHANGED faultVars
  <2>1. CASE SealRename
    BY <1>0, <1>1, <2>1 DEF SealRename, DirStep, Rename, Sealing, Shape, ActiveNamed
  <2> QED
    BY <1>0, <1>1, <1>10, <2>1 DEF PendingRename, ManifestRename, DirStep, Rename, Sealing
<1>11. ASSUME PendingExists PROVE DirectoryGrows /\ UNCHANGED faultVars
    BY <1>0, <1>1, <1>11 DEF PendingExists, Sealing
<1>12. ASSUME RecoverClean PROVE DirectoryGrows /\ UNCHANGED faultVars
    BY <1>2, <1>12 DEF RecoverClean, DirectoryGrows
<1>13. ASSUME PowerLoss PROVE DirectoryGrows /\ UNCHANGED <<process_crashes, io_errors>>
    BY <1>13 DEF PowerLoss, DirectoryGrows
<1> QED
    BY <1>3, <1>4, <1>5, <1>6, <1>7, <1>8, <1>9, <1>10, <1>11, <1>12, <1>13
    DEF Next, Caller, Protocol, Open, Environment, OnlyPowerLost, faultVars

\* Names that are on the disk stay there.
LEMMA NamesStep ==
    ASSUME TypeInv, Shape, NamesDurable, Next, OnlyPowerLost'
    PROVE  NamesDurable'
<1>1. CASE dirHist' = {dir'}
    BY Zenon, <1>1 DEF NamesDurable, FileNamed
<1>2. CASE dirHist' # {dir'}
  <2>1. /\ pc # "create_sync"
        /\ dirHist' \subseteq dirHist \cup {dir'}
        /\ \A n \in Ordinals :
             FileNamed(dir', n) => FileNamed(dir, n) \/ (pc' = "create_sync" /\ n = active_ordinal')
    BY Zenon, <1>2, DirectoryStep DEF DirectoryGrows
  <2>2. \A n \in Ordinals : FileNamed(dir, n) => \A d \in dirHist : FileNamed(d, n)
    BY Zenon, <2>1 DEF NamesDurable
  <2>3. ASSUME NEW n \in Ordinals, FileNamed(dir', n), ~(pc' = "create_sync" /\ n = active_ordinal'),
               NEW d \in dirHist'
        PROVE  FileNamed(d, n)
    <3>1. FileNamed(dir, n)
      BY Zenon, <2>1, <2>3
    <3> QED
      BY Zenon, <2>1, <2>2, <2>3, <3>1
  <2>4. ASSUME NEW n \in Ordinals, (FileNamed(dir, n) /\ ~(pc = "create_sync" /\ n = active_ordinal))'
        PROVE  \A d \in dirHist' : FileNamed(d, n)
    BY Zenon, <2>3, <2>4 DEF FileNamed
  <2> QED
    BY Zenon, <2>4 DEF NamesDurable, FileNamed
<1> QED
    BY Zenon, <1>1, <1>2

\* A power loss keeps every synced frame of every file.
LEMMA SurvivorsKeep ==
    ASSUME NEW c \in Content, c.synced <= Len(c.recs), NEW e \in Survivors(c), NEW i \in 1..c.synced
    PROVE  i \in 1..e.synced /\ e.recs[i] = c.recs[i]
<1>1. c.recs \in Seq(Rec) /\ c.synced \in Nat /\ Len(c.recs) \in Nat
    BY DEF Content
<1>2. PICK k \in c.synced..Len(c.recs) : e.recs = SubSeq(c.recs, 1, k) /\ e.synced = k
    BY DEF Survivors
<1>3. k \in Nat /\ i \in 1..k /\ k <= Len(c.recs)
    BY <1>1, <1>2
<1>4. SubSeq(c.recs, 1, k)[i] = c.recs[i]
    BY <1>1, <1>3
<1> QED
    BY Zenon, <1>2, <1>3, <1>4

\* A power loss keeps a position readable whose segment every surviving
\* directory names.
LEMMA PowerLossReadable ==
    ASSUME TypeInv, PowerLoss, NEW p \in Position, Readable(p),
           \A d \in dirHist : FileNamed(d, p.ord)
    PROVE  Readable(p)'
<1>1. /\ p.ord \in Ordinals
      /\ segs[p.ord] \in Content /\ segs[p.ord].synced <= Len(segs[p.ord].recs)
    BY DEF Position, TypeInv, TypeOK
<1>2. segs'[p.ord] \in Survivors(segs[p.ord])
    BY <1>1 DEF PowerLoss
<1>3. p.idx \in 1..segs[p.ord].synced
      /\ segs[p.ord].recs[p.idx] = [stream |-> p.stream, seq |-> p.seq]
    BY Zenon DEF Readable
<1>4. p.idx \in 1..segs'[p.ord].synced /\ segs'[p.ord].recs[p.idx] = segs[p.ord].recs[p.idx]
    BY Zenon, <1>1, <1>2, <1>3, SurvivorsKeep
<1>5. {"active", "sealed"} \cap dir'[p.ord] # {}
    BY Zenon DEF PowerLoss, FileNamed
<1> QED
    BY Zenon, <1>3, <1>4, <1>5 DEF Readable

\* Every step of a run with power losses only keeps all positions durable.
LEMMA DurableStep ==
    ASSUME DurableInv, Next, OnlyPowerLost'
    PROVE  AckedDurable'
<1>0. /\ TypeInv /\ Shape /\ Written /\ NamesDurable /\ OnlyPowerLost /\ AllReadable /\ DirectoryGrows
      /\ \A k \in 1..Len(acked) : \A d \in dirHist : FileNamed(d, acked[k].ord)
    BY Zenon, DirectoryStep DEF DurableInv, AckedDurable, FileNamed
<1>1. \A k \in 1..Len(acked) : acked[k] \in Position /\ Readable(acked[k])
    BY SMTT(30), <1>0 DEF TypeInv, TypeOK, AllReadable
<1>2. CASE PowerLoss
  <2>1. UNCHANGED acked
    BY Zenon, <1>2 DEF PowerLoss
  <2>2. ASSUME NEW k \in 1..Len(acked)
        PROVE  /\ acked[k].idx \in 1..segs'[acked[k].ord].synced
               /\ segs'[acked[k].ord].recs[acked[k].idx] =
                       [stream |-> acked[k].stream, seq |-> acked[k].seq]
               /\ {"active", "sealed"} \cap dir'[acked[k].ord] # {}
    <3> DEFINE p == acked[k]
    <3>1. p \in Position /\ Readable(p) /\ \A d \in dirHist : FileNamed(d, p.ord)
      BY Zenon, <1>0, <1>1
    <3> HIDE DEF p
    <3>2. \A q \in Position : (Readable(q) /\ \A d \in dirHist : FileNamed(d, q.ord)) =>
            /\ q.idx \in 1..segs'[q.ord].synced
            /\ segs'[q.ord].recs[q.idx] = [stream |-> q.stream, seq |-> q.seq]
            /\ {"active", "sealed"} \cap dir'[q.ord] # {}
      <4> SUFFICES ASSUME NEW q \in Position, Readable(q), \A d \in dirHist : FileNamed(d, q.ord)
                   PROVE  /\ q.idx \in 1..segs'[q.ord].synced
                          /\ segs'[q.ord].recs[q.idx] = [stream |-> q.stream, seq |-> q.seq]
                          /\ {"active", "sealed"} \cap dir'[q.ord] # {}
        OBVIOUS
      <4>1. Readable(q)'
        BY <1>0, <1>2, PowerLossReadable
      <4> QED
        BY Zenon, <4>1 DEF Readable
    <3> QED
      BY Zenon, <3>1, <3>2 DEF p
  <2>3. dirHist' = {dir'}
    BY Zenon, <1>2 DEF PowerLoss
  <2> QED
    BY Zenon, <2>1, <2>2, <2>3 DEF AckedDurable, AllReadable, Readable
<1>3. CASE ~PowerLoss
  <2>1. AllReadable'
    BY <1>0, <1>3, AckedStep
  <2>2. \A k \in 1..Len(acked') : FileNamed(dir', acked'[k].ord)
    BY Zenon, <2>1 DEF AllReadable, Readable, FileNamed
  <2>3. CASE UNCHANGED acked
    <3>1. dirHist' \subseteq dirHist \cup {dir'}
      BY Zenon, <1>0 DEF DirectoryGrows
    <3> QED
      BY Zenon, <1>0, <2>1, <2>2, <2>3, <3>1 DEF AckedDurable, FileNamed
  <2>4. CASE AppendSync
    <3>1. /\ pc = "append_sync" /\ UNCHANGED dirHist /\ acked \in Seq(Position)
          /\ acked' = Append(acked, [stream |-> Head(req).stream, seq |-> Head(req).seq,
                                     ord |-> active_ordinal, idx |-> Len(segs[active_ordinal].recs)])
      BY <1>0, <2>4 DEF AppendSync, TypeInv, TypeOK
    <3>2. active_ordinal \in Ordinals /\ FileNamed(dir, active_ordinal)
      BY <1>0, <3>1 DEF TypeInv, Bounded, Working, Appending, Shape, ActiveNamed, FileNamed
    <3>3. \A d \in dirHist : FileNamed(d, active_ordinal)
      BY <1>0, <3>1, <3>2 DEF NamesDurable
    <3>4. \A k \in 1..Len(acked') :
            \/ k \in 1..Len(acked) /\ acked'[k] = acked[k]
            \/ acked'[k].ord = active_ordinal
      BY <3>1
    <3>5. \A k \in 1..Len(acked') : \A d \in dirHist' : FileNamed(d, acked'[k].ord)
      BY Zenon, <1>0, <3>1, <3>3, <3>4
    <3> QED
      BY Zenon, <2>1, <3>5 DEF AckedDurable, FileNamed
  <2> QED
    BY <1>3, <2>3, <2>4, AckedChanges
<1> QED
    BY <1>2, <1>3

\* Through any number of power losses, between any two file-system operations of
\* append, rotation, sealing and recovery, a position that append has handed out
\* stays readable and stays named in every directory the next loss may leave.
THEOREM AcknowledgedDurable == Spec => []AckedDurable
<1>1. Init => DurableInv
  <2> SUFFICES ASSUME Init PROVE DurableInv
    OBVIOUS
  <2>1. Shape /\ Written
    BY DEF Init, Shape, Written, ActiveNamed, SealedNamed, Working, Creating, Appending, Sealing
  <2>2. NamesDurable
    BY Zenon DEF Init, NamesDurable
  <2>3. AckedDurable
    BY DEF Init, AckedDurable, AllReadable
  <2> QED
    BY <2>1, <2>2, <2>3, TypeInit DEF DurableInv
<1>2. DurableInv /\ [Next]_vars => DurableInv'
  <2> SUFFICES ASSUME DurableInv, [Next]_vars PROVE DurableInv'
    OBVIOUS
  <2>1. TypeInv'
    BY TypeStep DEF DurableInv
  <2>2. CASE Next
    <3>1. Shape' /\ Written'
      BY <2>2, ShapeStep, WrittenStep DEF DurableInv
    <3>2. CASE OnlyPowerLost'
      <4>1. NamesDurable /\ TypeInv /\ Shape
        BY Zenon, <2>2, <3>2, DirectoryStep DEF DurableInv
      <4> QED
        BY <2>1, <2>2, <3>1, <3>2, <4>1, NamesStep, DurableStep DEF DurableInv
    <3>3. CASE ~OnlyPowerLost'
      BY Zenon, <2>1, <3>1, <3>3 DEF DurableInv, AckedDurable
    <3> QED
      BY <3>2, <3>3
  <2>3. CASE UNCHANGED vars
    <3>1. Shape' /\ Written' /\ AckedDurable'
      BY ZenonT(60), <2>3 DEF vars, diskVars, memVars, faultVars, DurableInv, Shape, Written,
         AckedDurable, OnlyPowerLost, AllReadable, Readable, Unnamed, Having
    <3>2. (OnlyPowerLost => NamesDurable)'
      BY ZenonT(60), <2>3 DEF vars, diskVars, memVars, faultVars, DurableInv, OnlyPowerLost,
         NamesDurable, FileNamed
    <3> QED
      BY <2>1, <3>1, <3>2 DEF DurableInv
  <2> QED
    BY <2>2, <2>3
<1>3. DurableInv => AckedDurable
    BY DEF DurableInv
<1> QED
    BY <1>1, <1>2, <1>3, PTL DEF Spec

=============================================================================
