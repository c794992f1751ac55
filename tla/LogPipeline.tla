---------------------------- MODULE LogPipeline ----------------------------
(***************************************************************************)
(* The logging service (logging/service.py): request handlers put entries  *)
(* on a bounded queue; one flush task takes them off in batches and writes *)
(* each batch in one database transaction, resolving provider names to row *)
(* ids through a process-wide cache; shutdown cancels the task.            *)
(*                                                                         *)
(* An action is what runs between two awaits that suspend.  The database   *)
(* is modelled from how the service uses it: it may fail any operation, it *)
(* may commit and fail to say so, and it enforces the constraints of       *)
(* db/models.py (request ids unique, provider ids referring to a row).     *)
(*                                                                         *)
(* Handlers have ended before shutdown starts (uvicorn runs the lifespan's *)
(* shutdown after the last request), so nothing is enqueued after it.      *)
(***************************************************************************)
EXTENDS Integers, FiniteSets, SequencesExt

CONSTANTS
    Entries,        \* log entries, one per proxied request
    Providers,      \* provider names
    ProviderOf,     \* entry.provider_name
    Unstorable,     \* entries with a value their column refuses (a name longer than
                    \* the column, a count out of range, a NUL in a JSON text)
    InitialRows,    \* what the providers table may hold when the service starts
    QueueSize,      \* maxsize of _queue (10000)
    BatchSize       \* batch_size (50)

ASSUME SizeAssumption == QueueSize \in Nat \ {0} /\ BatchSize \in Nat \ {0}
ASSUME ProviderOfAssumption == ProviderOf \in [Entries -> Providers]
ASSUME UnstorableAssumption == Unstorable \subseteq Entries
ASSUME InitialRowsAssumption == InitialRows \subseteq SUBSET Providers

VARIABLES
    queue,      \* _queue
    batch,      \* `entries' of the flush loop
    pc,         \* which await the flush task is in
    final,      \* it runs the CancelledError handler
    cache,      \* _provider_id_cache
    configured, \* the providers of get_app_config()
    rows,       \* provider rows committed
    newRows,    \* provider rows the open transaction added
    stored,     \* request rows committed
    history,    \* entries accepted, in their order (history variable)
    dropped,    \* entries refused because the queue was full (history variable)
    lost,       \* entries given up with their batch (history variable)
    faulty      \* the database has failed an operation (history variable)

db == <<rows, newRows, stored>>
vars == <<queue, batch, pc, final, cache, configured, rows, newRows, stored,
          history, dropped, lost, faulty>>

TypeOK ==
    /\ queue \in Seq(Entries) /\ Len(queue) <= QueueSize
    /\ batch \in Seq(Entries)
    /\ pc \in {"get", "warm", "resolve", "commit", "done"}
    /\ final \in BOOLEAN
    /\ cache \in [Providers -> {"absent", "null", "id"}]
    /\ configured \subseteq Providers
    /\ rows \subseteq Providers
    /\ newRows \subseteq Providers
    /\ stored \subseteq Entries
    /\ history \in Seq(Entries)
    /\ dropped \subseteq Entries
    /\ lost \subseteq Entries
    /\ faulty \in BOOLEAN

----------------------------------------------------------------------------
(* enqueue_log *)

IsNew(e) == e \notin Range(history) /\ e \notin dropped

Enqueue(e) ==
    /\ IsNew(e) /\ ~final
    /\ Len(queue) < QueueSize
    /\ queue' = Append(queue, e)
    /\ history' = Append(history, e)
    /\ UNCHANGED <<batch, pc, final, cache, configured, db, dropped, lost, faulty>>

\* Mutant: entries are dropped before the queue is full.
DropEarly(e) ==
    /\ IsNew(e) /\ ~final
    /\ Len(queue) + 1 >= QueueSize
    /\ dropped' = dropped \cup {e}
    /\ UNCHANGED <<queue, batch, pc, final, cache, configured, db, history, lost, faulty>>

\* put_nowait raises QueueFull: the entry is dropped, the handler goes on.
DropFull(e) ==
    /\ IsNew(e) /\ ~final
    /\ Len(queue) >= QueueSize
    /\ dropped' = dropped \cup {e}
    /\ UNCHANGED <<queue, batch, pc, final, cache, configured, db, history, lost, faulty>>

----------------------------------------------------------------------------
(* _flush_loop and _write_batch *)

Needed == {ProviderOf[e] : e \in Range(batch)}
Uncached == {p \in Needed : cache[p] = "absent"}

TakenNow == IF Len(queue) < BatchSize THEN Len(queue) ELSE BatchSize

\* Mutant: the drain loop has no limit.
CollectAll ==
    /\ pc = "get" /\ queue # <<>>
    /\ batch' = queue
    /\ queue' = <<>>
    /\ pc' = "warm"
    /\ UNCHANGED <<final, cache, configured, db, history, dropped, lost, faulty>>

\* _queue.get() delivers, and get_nowait() drains up to the batch size.
Collect ==
    /\ pc = "get" /\ queue # <<>>
    /\ batch' = SubSeq(queue, 1, TakenNow)
    /\ queue' = SubSeq(queue, TakenNow + 1, Len(queue))
    /\ pc' = "warm"
    /\ UNCHANGED <<final, cache, configured, db, history, dropped, lost, faulty>>

\* _warm_provider_cache: one query for all the names not in the cache.
Warm ==
    /\ pc = "warm"
    /\ cache' = [p \in Providers |-> IF p \in Uncached \cap rows THEN "id" ELSE cache[p]]
    /\ pc' = "resolve"
    /\ UNCHANGED <<queue, batch, final, configured, db, history, dropped, lost, faulty>>

\* _resolve_provider_id for a name still not in the cache.  Its own lookup
\* finds what Warm's did, for nobody else adds provider rows: nothing.

\* The configuration does not know the provider: that is cached.
ResolveUnknown(p) ==
    /\ pc = "resolve" /\ p \in Uncached
    /\ p \notin configured
    /\ cache' = [cache EXCEPT ![p] = "null"]
    /\ UNCHANGED <<queue, batch, pc, final, configured, db, history, dropped, lost, faulty>>

\* Mutant: the id is cached, the row never added.
ResolveWithoutRow(p) ==
    /\ pc = "resolve" /\ p \in Uncached
    /\ p \in configured
    /\ cache' = [cache EXCEPT ![p] = "id"]
    /\ UNCHANGED <<queue, batch, pc, final, configured, db, history, dropped, lost, faulty>>

\* A row is added, flushed within the transaction, and its id cached.
ResolveNew(p) ==
    /\ pc = "resolve" /\ p \in Uncached
    /\ p \in configured
    /\ newRows' = newRows \cup {p}
    /\ cache' = [cache EXCEPT ![p] = "id"]
    /\ UNCHANGED <<queue, batch, pc, final, configured, rows, stored, history, dropped, lost, faulty>>

\* Every entry has its provider_id: session.commit() is sent.
SendCommit ==
    /\ pc = "resolve" /\ Uncached = {}
    /\ pc' = "commit"
    /\ UNCHANGED <<queue, batch, final, cache, configured, db, history, dropped, lost, faulty>>

\* A request id already stored, a value that does not fit, or a provider_id that
\* refers to no row.
Violates ==
    \/ Range(batch) \cap Unstorable # {}
    \/ Range(batch) \cap stored # {}
    \/ \E p \in Needed : cache[p] = "id" /\ p \notin rows \cup newRows

\* Mutant: the handler of the cancellation does not raise it again.
EndWriteAndLoop ==
    /\ batch' = <<>>
    /\ newRows' = {}
    /\ pc' = "get"
    /\ UNCHANGED <<queue, final, cache, configured, history, dropped>>

\* _write_batch has returned or raised: back to the loop, or the task ends.
EndWrite ==
    /\ batch' = <<>>
    /\ newRows' = {}
    /\ pc' = IF final THEN "done" ELSE "get"
    /\ UNCHANGED <<queue, final, cache, configured, history, dropped>>

\* The transaction commits on the server.
CommitRows ==
    /\ ~Violates
    /\ stored' = stored \cup Range(batch)
    /\ rows' = rows \cup newRows

CommitOk ==
    /\ pc = "commit"
    /\ CommitRows
    /\ EndWrite
    /\ UNCHANGED <<lost, faulty>>

\* It commits, but the answer is lost: the service sees an exception.
CommitUnacknowledged ==
    /\ pc = "commit"
    /\ CommitRows
    /\ EndWrite
    /\ faulty' = TRUE
    /\ UNCHANGED lost

\* Mutant: an exception ends the flush task.
GiveUpAndEnd ==
    /\ batch' = <<>>
    /\ newRows' = {}
    /\ pc' = "done"
    /\ lost' = lost \cup (Range(batch) \ stored)
    /\ UNCHANGED <<queue, final, cache, configured, history, dropped, rows, stored>>

\* An exception: the transaction is rolled back, `flush_loop_error' (or
\* `shutdown_flush_failed') is logged and the whole batch given up.
GiveUp ==
    /\ EndWrite
    /\ lost' = lost \cup (Range(batch) \ stored)
    /\ UNCHANGED <<rows, stored>>

\* A constraint is violated: the flush before the commit fails, or already that of a
\* later entry's provider lookup; either way the batch is lost as a whole.
CommitRefused ==
    /\ pc = "commit" /\ Violates
    /\ GiveUp
    /\ UNCHANGED faulty

\* The database fails a query, a flush or the commit.
DatabaseFails ==
    /\ pc = "commit" \/ (pc \in {"warm", "resolve"} /\ Uncached # {})
    /\ GiveUp
    /\ faulty' = TRUE

----------------------------------------------------------------------------
(* stop_logging_service: the CancelledError is raised in the await the task *)
(* is in, and its handler drains the queue and writes once more.            *)

\* Mutant: the handler writes what is on the queue, not the open batch.
DrainQueueOnly ==
    /\ final' = TRUE
    /\ batch' = queue
    /\ queue' = <<>>
    /\ newRows' = {}
    /\ pc' = IF queue = <<>> THEN "done" ELSE "warm"
    /\ UNCHANGED <<cache, configured, history, dropped, lost, faulty>>

Drain ==
    /\ final' = TRUE
    /\ batch' = batch \o queue
    /\ queue' = <<>>
    /\ newRows' = {}
    /\ pc' = IF batch \o queue = <<>> THEN "done" ELSE "warm"
    /\ UNCHANGED <<cache, configured, history, dropped, lost, faulty>>

\* The open transaction, if any, is rolled back.
Shutdown ==
    /\ ~final
    /\ Drain
    /\ UNCHANGED <<rows, stored>>

\* The commit had taken effect when the cancellation was raised.
ShutdownAfterCommit ==
    /\ ~final
    /\ pc = "commit"
    /\ CommitRows
    /\ Drain

----------------------------------------------------------------------------

\* A hot reload replaces the configuration.
Reconfigure ==
    /\ ~final
    /\ configured' \in SUBSET Providers
    /\ UNCHANGED <<queue, batch, pc, final, cache, db, history, dropped, lost, faulty>>

Terminated == pc = "done" /\ UNCHANGED vars

Init ==
    /\ queue = <<>> /\ batch = <<>> /\ history = <<>>
    /\ pc = "get" /\ final = FALSE
    /\ cache = [p \in Providers |-> "absent"]
    /\ configured = Providers
    /\ rows \in InitialRows
    /\ newRows = {} /\ stored = {} /\ dropped = {} /\ lost = {}
    /\ faulty = FALSE

FlushStep ==
    \/ Collect \/ Warm \/ SendCommit
    \/ \E p \in Providers : ResolveUnknown(p) \/ ResolveNew(p)
    \/ CommitOk \/ CommitUnacknowledged \/ CommitRefused \/ DatabaseFails

Next ==
    \/ \E e \in Entries : Enqueue(e)
    \/ \E e \in Entries : DropFull(e)
    \/ FlushStep
    \/ Shutdown
    \/ ShutdownAfterCommit
    \/ Reconfigure
    \/ Terminated

Spec == Init /\ [][Next]_vars

\* The flush task is scheduled and the database answers, well or badly.
FairSpec == Spec /\ WF_vars(FlushStep)

----------------------------------------------------------------------------
(* Properties *)

Gone == SubSeq(history, 1, Len(history) - Len(batch) - Len(queue))

\* No entry is misplaced: what was accepted is, in this order and each once,
\* what the loop has finished with, the batch in its hands, and the queue; and
\* what it has finished with is stored or lost, not both.
Conservation ==
    /\ IsInjective(history)
    /\ history = Gone \o batch \o queue
    /\ Range(Gone) \subseteq stored \cup lost
    /\ lost \subseteq Range(Gone) \ stored
    /\ Range(queue) \cap stored = {}

\* While the service runs and the database has not failed it, nothing is lost
\* unless an entry was that cannot be stored: no batch runs into a constraint by
\* itself.
NoLossWithoutFault ==
    ~final /\ ~faulty => lost = {} \/ lost \cap Unstorable # {}

\* Before shutdown a failed write costs one batch, at most BatchSize entries.
LossPerStepBounded ==
    [][~final => Cardinality(lost' \ lost) <= BatchSize]_vars

\* The task ends with nothing on the queue and nothing in its hands.
ExitsEmpty == pc = "done" => queue = <<>> /\ batch = <<>>

\* Every accepted entry is eventually stored or given up.
EntriesAreSettled ==
    \A e \in Entries : e \in Range(history) ~> e \in stored \cup lost

\* stop_logging_service returns: the cancelled task ends.
ShutdownEnds == final ~> pc = "done"

\* AuditLog's view of the pipeline.
StatusOf(e) ==
    IF e \in stored THEN "stored"
    ELSE IF e \in lost THEN "lost"
    ELSE IF e \in dropped THEN "dropped"
    ELSE IF e \in Range(history) THEN "accepted"
    ELSE "new"

Audit == INSTANCE AuditLog WITH status <- [e \in Entries |-> StatusOf(e)]

\* The pipeline keeps the promise of the audit log.
ImplementsAuditLog == Audit!Spec

\* What the documentation promises and the code does not do; see README.md.

\* "On shutdown, a CancelledError handler flushes remaining entries before the
\* task exits": with a database that never failed, no entry is lost.
ShutdownFlushesRemaining == pc = "done" /\ ~faulty => lost = {}

============================================================================
