------------------------------ MODULE MetadataStore ------------------------------
(* The metadata store of crates/metadata-store: one thread owns the SQLite     *)
(* connection and executes the commands of a bounded queue; callers put a      *)
(* command in and wait for its answer, and may be cancelled while they wait.   *)
(* The handle is closed by shutdown or dropped; the process may die between    *)
(* any two steps.  SQLite is external: a transaction is one durable step       *)
(* (synchronous = FULL), committed or rolled back whole, and a truncating      *)
(* checkpoint is busy while a reader is open.                                  *)
(*                                                                             *)
(* The database: clean_shutdown and startup_generation of runtime_state, the   *)
(* audit chain, the catalog's requests and commits, the catalog head, and      *)
(* whether committed frames are only in the log.                               *)
EXTENDS InstrumentRegistry

CONSTANTS
  Callers,          \* tasks that hold the store
  Requests,         \* catalog requests: [id, expected, mutations]
  AuditEvents,      \* audit events: [id, payload]
  QueueCapacity,
  ReaderConcurrency,
  MaxGeneration,    \* bound: how often the store is opened
  MaxFailures       \* bound: failed transactions and process deaths

VARIABLES
  db,        \* the file
  registry,  \* Writer.registry, of the running writer
  writer,    \* where the writer thread is
  queue,     \* the command channel
  handle,    \* none | opening | open | closing
  calls,     \* each caller's command, where it is and what it was answered
  readers,   \* open read-only connections
  report,    \* StartupReport of the last successful open
  unserved,  \* ghost: commands a writer accepted and never executed, since the last open
  replies,   \* ghost: every commit ever returned, with its request
  failures

msVars == <<db, registry, writer, queue, handle, calls, readers, report, unserved, replies, failures>>

NoCall == [phase |-> "idle", op |-> <<"none">>]

\* A command whose caller is gone, or the Shutdown that Drop sends, has nobody to answer.
Nobody == "nobody"

Owner == "owner"

\* CatalogRequest::try_new and AuditEvent::try_new: only well-formed requests exist.
ValidRequest(r) == r.mutations # <<>> /\ Len(r.mutations) <= Limits.batch

\* What a caller can ask for.  The commands that only read are one.
Commands ==
  {<<"catalog", r>> : r \in {r \in Requests : ValidRequest(r)}} \cup {<<"audit", a>> : a \in AuditEvents}
    \cup {<<"checkpoint">>, <<"read">>}

EmptyFile == [migrated |-> FALSE, clean |-> TRUE, generation |-> 0, audit |-> <<>>,
              requests |-> <<>>, commits |-> <<>>,
              head |-> [revision |-> NoRevision, digest |-> snapshot_digests(NoSnapshot)],
              log |-> FALSE]

NoReport == [recovered_unclean_shutdown |-> FALSE, generation |-> 0]

MsInit ==
  /\ db = EmptyFile
  /\ registry = NewRegistry
  /\ writer = [at |-> "none"]
  /\ queue = <<>>
  /\ handle = "none"
  /\ calls = [c \in Callers |-> NoCall]
  /\ readers = 0
  /\ report = NoReport
  /\ unserved = {}
  /\ replies = {}
  /\ failures = 0

-----------------------------------------------------------------------------
(* The transactions                                                           *)

Refused(error) == [error |-> error, db |-> db, registry |-> registry, value |-> <<"none">>]

\* append_audit_in_connection: an identifier is written once; the same event again is answered
\* with the record it has.  The sequence is the position in the chain.
append_audit_in_connection(file, event) ==
  LET at == SelectInSeq(file.audit, LAMBDA a : a.id = event.id)
  IN IF at = 0
     THEN [error |-> "Ok", file |-> [file EXCEPT !.audit = Append(@, event), !.log = TRUE],
           sequence |-> Len(file.audit) + 1]
     ELSE [error |-> IF file.audit[at] = event THEN "Ok" ELSE "AuditIdConflict",
           file |-> file, sequence |-> at]

append_audit(event) ==
  LET appended == append_audit_in_connection(db, event)
  IN IF appended.error # "Ok" THEN Refused(appended.error)
     ELSE [error |-> "Ok", db |-> appended.file, registry |-> registry,
           value |-> <<"audit", appended.sequence>>]

load_catalog_request(file, id) == SelectInSeq(file.requests, LAMBDA r : r.request.id = id)

\* A request that is known is answered with the commit it was given.
StoredCommitRefreshed(at) == [db.requests[at] EXCEPT !.outcome.committed = current_revision(registry)]

StoredCommit(at) == db.requests[at]

\* append_catalog: the batch is staged on a copy of the registry, one transaction writes the audit
\* record, the request and, when the batch adds records, the commit and the new head; the copy
\* becomes the registry once the transaction is committed.
append_staged(request, known, staged) ==
  LET digest == snapshot_digests(snapshot(staged.registry).snapshot)
      new    == SubSeq(staged.registry.records, Len(registry.records) + 1,
                       Len(staged.registry.records))
      outcome == [previous |-> current_revision(registry),
                  committed |-> current_revision(staged.registry),
                  appended |-> staged.appended, idempotent |-> staged.idempotent, digest |-> digest]
      audited == append_audit_in_connection(db, [id |-> <<"catalog", request.id>>,
                                                 payload |-> <<request, outcome>>])
      entry == [request |-> request, outcome |-> outcome, audit_sequence |-> audited.sequence]
      commit == [revision |-> outcome.committed, previous |-> outcome.previous, records |-> new,
                 digest |-> digest, audit_sequence |-> audited.sequence, request |-> request.id]
      written == [audited.file EXCEPT
                    !.requests = Append(@, entry),
                    !.commits = IF new = <<>> THEN @ ELSE Append(@, commit),
                    !.head = IF new = <<>> THEN @ ELSE [revision |-> outcome.committed, digest |-> digest]]
      error == FirstError(<<
        <<known # 0 /\ db.requests[known].request # request,
          "CatalogRequestConflict">>,
        <<known = 0 /\ staged.error # "Ok", staged.error>>,
        <<known = 0 /\ audited.error # "Ok", audited.error>> >>)
  IN IF error # "Ok" THEN Refused(error)
     ELSE IF known # 0
     THEN [error |-> "Ok", db |-> db, registry |-> registry, value |-> <<"commit", StoredCommit(known)>>]
     ELSE [error |-> "Ok", db |-> written, registry |-> staged.registry, value |-> <<"commit", entry>>]

append_catalog(request) ==
  append_staged(request, load_catalog_request(db, request.id),
                append_batch(registry, request.expected, request.mutations))

\* checkpoint: frames move to the database unless a reader still needs the log.
checkpoint == [error |-> "Ok", db |-> [db EXCEPT !.log = @ /\ readers > 0], registry |-> registry,
               value |-> <<"checkpoint", readers > 0>>]

catalog_snapshot == IF registry.records = <<>> THEN Refused("CatalogEmpty")
                    ELSE [Refused("Ok") EXCEPT !.value = <<"snapshot", snapshot(registry).snapshot>>]


clean_shutdown ==
  IF readers > 0 THEN Refused("DatabaseBusy")
  ELSE [Refused("Ok") EXCEPT !.db = [db EXCEPT !.clean = TRUE, !.log = FALSE]]

execute(op) ==
  CASE op[1] = "catalog" -> append_catalog(op[2])
    [] op[1] = "audit" -> append_audit(op[2])
    [] op[1] = "checkpoint" -> checkpoint
    [] op[1] = "read" -> catalog_snapshot
    [] op[1] = "shutdown" -> clean_shutdown

-----------------------------------------------------------------------------
(* What Writer::open verifies                                                  *)

\* verify_catalog_requests: each request is bound to its audit record and to the commit of the
\* revision it was answered with.
verify_catalog_requests(file) ==
  \A i \in DOMAIN file.requests :
    LET r == file.requests[i]
        audit == file.audit[r.audit_sequence]
    IN /\ r.outcome.previous = r.request.expected /\ r.outcome.committed > NoRevision
       /\ r.audit_sequence \in DOMAIN file.audit
       /\ audit = [id |-> <<"catalog", r.request.id>>, payload |-> <<r.request, r.outcome>>]
       /\ \E j \in DOMAIN file.commits : /\ file.commits[j].revision = r.outcome.committed
                                         /\ file.commits[j].digest = r.outcome.digest

\* The mutation a persisted record stands for (CatalogMutationWire::from_record, into_mutation).
into_mutationLossy(r) == [kind |-> r.kind, definition |-> r.definition, known_at |-> r.known_at,
                          supersedes |-> NoRevision, prior |-> r.prior]

into_mutation(r) == [kind |-> r.kind, definition |-> r.definition, known_at |-> r.known_at,
                     supersedes |-> r.supersedes, prior |-> r.prior]

\* One commit replayed on the registry rebuilt so far.
replay_applied(file, state, commit, applied) ==
  LET linked == \E i \in DOMAIN file.requests :
                  LET r == file.requests[i]
                  IN r.request.id = commit.request /\ r.outcome.committed = commit.revision
                     /\ r.audit_sequence = commit.audit_sequence /\ r.outcome.digest = commit.digest
      sound == /\ commit.previous = current_revision(state.registry)
               /\ commit.revision = commit.previous + 1
               /\ applied.error = "Ok"
               /\ current_revision(applied.registry) = commit.revision
               /\ applied.appended = Len(commit.records)
               /\ snapshot_digests(snapshot(applied.registry).snapshot) = commit.digest
               /\ linked
  IN IF state.ok /\ sound THEN [ok |-> TRUE, registry |-> applied.registry]
     ELSE [ok |-> FALSE, registry |-> state.registry]

ReplayCommit(file, state, commit) ==
  replay_applied(file, state, commit,
    append_batch(state.registry, commit.previous,
                 [i \in DOMAIN commit.records |-> into_mutation(commit.records[i])]))

verify_catalog_head(file, rebuilt) ==
  file.head = IF rebuilt.records = <<>> THEN EmptyFile.head
              ELSE [revision |-> current_revision(rebuilt),
                    digest |-> snapshot_digests(snapshot(rebuilt).snapshot)]

rehydrated(file, replayed) ==
  [ok |-> replayed.ok /\ verify_catalog_head(file, replayed.registry), registry |-> replayed.registry]

rehydrate_catalog(file) ==
  rehydrated(file, FoldLeft(LAMBDA s, c : ReplayCommit(file, s, c),
                            [ok |-> verify_catalog_requests(file), registry |-> NewRegistry],
                            file.commits))

\* The chain is contiguous by construction of the sequence; what can go wrong is a record written
\* twice under one identifier.
verify_audit_chain(file) ==
  \A i, j \in DOMAIN file.audit : file.audit[i].id = file.audit[j].id => i = j

-----------------------------------------------------------------------------
(* The handle and the writer's start.  While another writer holds the process  *)
(* lock, open answers StoreAlreadyLocked and changes nothing.                  *)

Stopped == [at |-> "none"]

open ==
  /\ handle = "none" /\ writer = Stopped /\ db.generation < MaxGeneration
  /\ handle' = "opening"
  /\ writer' = [at |-> "opening"]
  /\ UNCHANGED <<db, registry, queue, calls, readers, report, unserved, replies, failures>>

\* The marker is read, then the schema is created when the file is new.
open_migrate ==
  /\ writer.at = "opening"
  /\ writer' = [at |-> "verifying", was_clean |-> db.clean]
  /\ db' = [db EXCEPT !.migrated = TRUE]
  /\ UNCHANGED <<registry, queue, handle, calls, readers, report, unserved, replies, failures>>

open_verify ==
  /\ writer.at = "verifying"
  /\ \E rebuilt \in {rehydrate_catalog(db)} :
     LET sound == verify_audit_chain(db) /\ rebuilt.ok
     IN /\ registry' = IF sound THEN rebuilt.registry ELSE NewRegistry
        /\ db' = IF sound THEN [db EXCEPT !.clean = FALSE, !.generation = @ + 1] ELSE db
        /\ writer' = IF sound THEN [at |-> "ready", was_clean |-> writer.was_clean] ELSE Stopped
        /\ handle' = IF sound THEN handle ELSE "none"
        /\ unserved' = IF sound THEN {} ELSE unserved
  /\ UNCHANGED <<queue, calls, readers, report, replies, failures>>

\* The report goes to the opener, or the thread ends when the opener is gone.
open_ready ==
  /\ writer.at = "ready"
  /\ IF handle = "opening"
     THEN /\ handle' = "open"
          /\ writer' = [at |-> "running"]
          /\ report' = [recovered_unclean_shutdown |-> ~writer.was_clean, generation |-> db.generation]
     ELSE /\ writer' = Stopped
          /\ UNCHANGED <<handle, report>>
  /\ UNCHANGED <<db, registry, queue, calls, readers, unserved, replies, failures>>

cancel_open ==
  /\ handle = "opening"
  /\ handle' = "none"
  /\ UNCHANGED <<db, registry, writer, queue, calls, readers, report, unserved, replies, failures>>

-----------------------------------------------------------------------------
(* Callers                                                                    *)

Put(caller, op) == queue' = Append(queue, [caller |-> caller, op |-> op])

HasRoom == Len(queue) < QueueCapacity

call(c, op) ==
  /\ handle = "open" /\ calls[c].phase = "idle" /\ op \in Commands
  /\ calls' = [calls EXCEPT ![c] = [phase |-> "sending", op |-> op]]
  /\ UNCHANGED <<db, registry, writer, queue, handle, readers, report, unserved, replies, failures>>

\* send: waits for room.  The writer outlives every borrow of the handle, so a sender never finds
\* the channel closed.
send(c) ==
  /\ calls[c].phase = "sending" /\ HasRoom
  /\ Put(c, calls[c].op)
  /\ calls' = [calls EXCEPT ![c].phase = "waiting"]
  /\ UNCHANGED <<db, registry, writer, handle, readers, report, unserved, replies, failures>>

\* A cancelled caller takes its answer's receiver with it; its command stays.
cancel(c) ==
  /\ calls[c].phase # "idle"
  /\ calls' = [calls EXCEPT ![c] = NoCall]
  /\ queue' = [i \in DOMAIN queue |-> IF queue[i].caller = c THEN [queue[i] EXCEPT !.caller = Nobody]
                                                            ELSE queue[i]]
  /\ writer' = IF writer.at = "executed" /\ writer.caller = c
               THEN [writer EXCEPT !.caller = Nobody] ELSE writer
  /\ UNCHANGED <<db, registry, handle, readers, report, unserved, replies, failures>>

\* shutdown takes the handle by value, and Drop runs on the last one: no call is in flight.
AllIdle == \A c \in Callers : calls[c].phase = "idle"

shutdown ==
  /\ handle = "open" /\ AllIdle
  /\ handle' = "closing"
  /\ UNCHANGED <<db, registry, writer, queue, calls, readers, report, unserved, replies, failures>>

send_shutdown ==
  /\ handle = "closing" /\ HasRoom
  /\ Put(Owner, <<"shutdown">>)
  /\ handle' = "joining"
  /\ UNCHANGED <<db, registry, writer, calls, readers, report, unserved, replies, failures>>

\* Drop: of the handle, or of a shutdown that was cancelled.  A full queue takes no Shutdown.
drop_store ==
  /\ handle \in {"open", "closing", "joining"} /\ AllIdle
  /\ handle' = "none"
  /\ LET kept == [i \in DOMAIN queue |-> [queue[i] EXCEPT !.caller = Nobody]]
     IN queue' = IF HasRoom THEN Append(kept, [caller |-> Nobody, op |-> <<"shutdown">>]) ELSE kept
  /\ writer' = IF writer.at = "executed" THEN [writer EXCEPT !.caller = Nobody] ELSE writer
  /\ UNCHANGED <<db, registry, calls, readers, report, unserved, replies, failures>>

-----------------------------------------------------------------------------
(* run_writer                                                                 *)

Execute(result, command) ==
  /\ db' = result.db
  /\ registry' = result.registry
  /\ writer' = [at |-> "executed", caller |-> command.caller, op |-> command.op, result |-> result.value]
  /\ queue' = Tail(queue)
  /\ UNCHANGED <<handle, calls, readers, report, unserved, replies>>

run_command ==
  /\ writer.at = "running" /\ queue # <<>>
  /\ Execute(execute(Head(queue).op), Head(queue))
  /\ UNCHANGED failures

\* A transaction that fails (busy, full) is rolled back.
fail_command ==
  /\ writer.at = "running" /\ queue # <<>> /\ Head(queue).op[1] \in {"catalog", "audit", "shutdown"}
  /\ failures < MaxFailures
  /\ Execute(Refused("Database"), Head(queue))
  /\ failures' = failures + 1

\* The commands a writer that ends leaves in its queue.
Left == {queue[i].op : i \in DOMAIN queue} \ {<<"shutdown">>}

\* The answer; after a Shutdown the thread ends and drops the receiver.
AnswerTo(caller) == calls' = [c \in Callers |-> IF c = caller THEN NoCall ELSE calls[c]]

reply ==
  /\ writer.at = "executed"
  /\ AnswerTo(writer.caller)
  /\ LET last == writer.op = <<"shutdown">>
     IN /\ writer' = IF last THEN Stopped ELSE [at |-> "running"]
        /\ queue' = IF last THEN <<>> ELSE queue
        /\ unserved' = IF last THEN Left ELSE unserved
        /\ registry' = IF last THEN NewRegistry ELSE registry
        /\ handle' = IF last /\ writer.caller = Owner THEN "none" ELSE handle
  /\ replies' = IF writer.result[1] = "commit" /\ writer.caller # Nobody
                THEN replies \cup {writer.result[2]} ELSE replies
  /\ UNCHANGED <<db, readers, report, failures>>

\* Every sender is gone and the queue is drained: blocking_recv answers None.
end_when_closedNever ==
  /\ writer.at = "running" /\ queue = <<>> /\ handle = "none"
  /\ UNCHANGED msVars

end_when_closed ==
  /\ writer.at = "running" /\ queue = <<>> /\ handle = "none"
  /\ writer' = Stopped
  /\ registry' = NewRegistry
  /\ UNCHANGED <<db, queue, handle, calls, readers, report, unserved, replies, failures>>

-----------------------------------------------------------------------------
(* Readers, and the death of the process                                      *)

reader_open ==
  /\ db.generation > 0 /\ readers < ReaderConcurrency
  /\ readers' = readers + 1
  /\ UNCHANGED <<db, registry, writer, queue, handle, calls, report, unserved, replies, failures>>

reader_close ==
  /\ readers > 0
  /\ readers' = readers - 1
  /\ UNCHANGED <<db, registry, writer, queue, handle, calls, report, unserved, replies, failures>>

die ==
  /\ failures < MaxFailures
  /\ failures' = failures + 1
  /\ registry' = NewRegistry
  /\ writer' = Stopped
  /\ queue' = <<>>
  /\ handle' = "none"
  /\ calls' = [c \in Callers |-> NoCall]
  /\ readers' = 0
  /\ unserved' = Left
  /\ UNCHANGED <<db, report, replies>>

WriterSteps ==
  open_migrate \/ open_verify \/ open_ready \/ run_command \/ fail_command \/ reply \/ end_when_closed

\* The steps when these commands are asked for.
MsNext(commands) ==
  \/ open \/ cancel_open \/ shutdown \/ send_shutdown \/ drop_store
  \/ \E c \in Callers : send(c) \/ cancel(c) \/ \E op \in commands[c] : call(c, op)
  \/ WriterSteps
  \/ reader_open \/ reader_close
  \/ die

\* The writer thread has a start to finish, a command to execute or an answer to give.
WriterReady == writer # Stopped /\ (writer.at = "running" => queue # <<>>)

\* The thread runs: weak fairness of WriterSteps, with the enabling condition written out where the
\* steps replay the catalog.  A blocked sender is served in turn (the channel's semaphore is first
\* come, first served), so room that comes again and again is given to it.
MsFairness ==
  /\ []<>~WriterReady \/ []<><<writer'.at # writer.at>>_msVars
  /\ WF_msVars(end_when_closed)
  /\ WF_msVars(send_shutdown)
  /\ \A c \in Callers : SF_msVars(send(c))

-----------------------------------------------------------------------------
(* Properties                                                                 *)

\* A catalog commit returned to a caller is durable and final: whatever is cancelled, retried or
\* lost in between, the request has one row, it is the row every answer was taken from, and each
\* published record comes from exactly one request.
CatalogExactlyOnce ==
  /\ \A r \in replies : \E i \in DOMAIN db.requests : db.requests[i] = r
  /\ \A i, j \in DOMAIN db.requests : db.requests[i].request.id = db.requests[j].request.id => i = j
  /\ \A i \in DOMAIN db.requests :
       LET r == db.requests[i]
       IN r.outcome.appended = Cardinality({<<j, k>> \in (DOMAIN db.commits) \X (1 .. Limits.batch) :
            db.commits[j].request = r.request.id /\ k <= Len(db.commits[j].records)})

\* A start never refuses what the store itself wrote, and rebuilds exactly the registry the writer
\* works with: replaying the commits through the validating path (without the mutations a batch
\* found already present) gives the same records, index and digests.
RehydratesExactly ==
  /\ verify_audit_chain(db)
  /\ \A rebuilt \in {rehydrate_catalog(db)} :
       rebuilt.ok /\ (writer.at \in {"ready", "running", "executed"} => registry = rebuilt.registry)

\* The clean marker is truthful: when it is set, the last writer executed every command it had
\* accepted and left no committed frame in the log only.
CleanMeansServed == db.clean => unserved = {} /\ ~db.log


\* Every call ends (with an answer or its cancellation), and a writer whose handle is gone drains its
\* queue and releases the process lock, even when Drop could not queue a Shutdown.
StoreDrains ==
  /\ \A c \in Callers : calls[c].phase # "idle" ~> calls[c].phase = "idle"
  /\ (handle = "none" /\ writer # Stopped) ~> (writer = Stopped)
=============================================================================
