------------------------------ MODULE JobsStore ------------------------------
(***************************************************************************)
(* The job history store of the agent (slurmweb/persistence/jobs_store.py): *)
(* a writer thread snapshots the Slurm queue, reconciles the records that   *)
(* left it, and upserts rows into PostgreSQL; request threads read single   *)
(* records and enrich them in place; the analytics thread backfills usage.  *)
(*                                                                         *)
(* A row is abstracted to its job_state and to the usage fields, and the    *)
(* usage to the incarnation it was measured on and whether the job had      *)
(* ended by then.  A job identifier may be requeued: its incarnations are   *)
(* told apart by their submit time, 1..MaxInst.                             *)
(***************************************************************************)
EXTENDS Integers, FiniteSets

CONSTANTS
    JobIds,        \* job identifiers
    MaxInst,       \* bound: incarnations (submit times) of one identifier
    Ends,          \* the terminal states jobs of this instance may end in
    Readers,       \* request threads in GET /jobs/history/<id>
    PoolMax,       \* connections of the SimpleConnectionPool
    MaxQueries,    \* bound: concurrent request threads holding a connection
    BatchChunk,    \* BATCH_CHUNK
    Enabled,       \* which of Features this instance exercises
    MaxCrashes     \* bound: restarts of the agent

\* cache: slurmrestd answers go through Redis; submit: other threads call
\* submit(); backfill: the analytics thread runs; outage: the database may go
\* down; expiry: records age past the retention; stop: the store is stopped.
Features == {"cache", "submit", "backfill", "outage", "expiry", "stop"}

Keys == JobIds \X (1..MaxInst)
Terminal == {"COMPLETED", "FAILED", "CANCELLED"}
JobState == {"none", "ACTIVE"} \union Terminal

ASSUME JobsStoreAssumption ==
    /\ JobIds # {}
    /\ MaxInst \in Nat \ {0}
    /\ PoolMax \in Nat \ {0}
    /\ BatchChunk \in Nat \ {0}
    /\ MaxQueries \in Nat
    /\ MaxCrashes \in Nat
    /\ Ends \subseteq Terminal
    /\ Enabled \subseteq Features

\* used_memory_gb, usage_stats and used_cpu_cores_avg, as one value.
Usage == [of : 0..MaxInst, final : BOOLEAN]
NoUsage == [of |-> 0, final |-> FALSE]

Row == [state : JobState, usage : Usage]
NoRow == [state |-> "none", usage |-> NoUsage]
NoRows == [k \in Keys |-> NoRow]
Present(rows) == {k \in Keys : rows[k] # NoRow}

VARIABLES
    job,       \* Slurm: the true state of every incarnation
    cur,       \* Slurm: the last incarnation of every identifier
    listed,    \* Slurm: identifiers still in slurmctld's queue
    acct,      \* what slurmrestd.job() answers: a lagging accounting record
    cached,    \* the cached listing of jobs_unfiltered()
    hit,       \* whether the listing is in the cache
    fill,      \* the listing a request thread fetched and has yet to cache
    filling,   \* whether such a fetch is under way
    dbUp, db, expired,
    queries,   \* connections held by request threads running query()
    pending, batch, failed,
    current,   \* keys of the listing being snapshotted
    recs,      \* active records the reconciliation has yet to look up
    recon,     \* rows the reconciliation will queue
    chunk,     \* keys left of the chunk written row by row
    pc, phase, stop, cleanupDue,
    rd,        \* request threads enriching a record
    bf,        \* the usage backfill transaction
    owed,      \* history: the newest row queued and not committed, per key
    crashes

slurmVars == <<job, cur, listed, acct>>
cacheVars == <<cached, hit, fill, filling>>
poolVars == <<dbUp, queries>>
writerVars == <<pc, phase, current, recs, recon, chunk>>
queueVars == <<pending, batch, failed, owed>>
flagVars == <<stop, cleanupDue, expired, crashes>>
vars == <<slurmVars, cacheVars, poolVars, writerVars, queueVars, flagVars,
          db, rd, bf>>

-----------------------------------------------------------------------------
(* Slurm, external: slurmctld's queue and slurmdbd's records.              *)

NoListing == [k \in Keys |-> "none"]

Listing == [k \in Keys |-> IF k[1] \in listed /\ k[2] = cur[k[1]]
                           THEN job[k] ELSE "none"]

\* A job is submitted, or requeued under the same identifier.
SlurmSubmit(j) ==
    /\ cur[j] < MaxInst
    /\ cur[j] > 0 => job[<<j, cur[j]>>] # "ACTIVE"
    /\ cur' = [cur EXCEPT ![j] = @ + 1]
    /\ job' = [job EXCEPT ![<<j, cur[j] + 1>>] = "ACTIVE"]
    /\ listed' = listed \union {j}
    /\ UNCHANGED acct

SlurmEnd(j, s) ==
    /\ cur[j] > 0
    /\ job[<<j, cur[j]>>] = "ACTIVE"
    /\ job' = [job EXCEPT ![<<j, cur[j]>>] = s]
    /\ UNCHANGED <<cur, listed, acct>>

\* slurmctld forgets an ended job after MinJobAge.
SlurmForget(j) ==
    /\ j \in listed
    /\ job[<<j, cur[j]>>] # "ACTIVE"
    /\ listed' = listed \ {j}
    /\ UNCHANGED <<job, cur, acct>>

\* slurmdbd, and the cached detail, catch up with the job.
AcctSync(j) ==
    /\ cur[j] > 0
    /\ acct' = [acct EXCEPT ![j] = [sub |-> cur[j], state |-> job[<<j, cur[j]>>]]]
    /\ UNCHANGED <<job, cur, listed>>

SlurmFrame == UNCHANGED <<cacheVars, poolVars, writerVars, queueVars, flagVars, db, rd, bf>>

Slurm == \E j \in JobIds :
    \/ SlurmSubmit(j) /\ SlurmFrame
    \/ \E s \in Ends : SlurmEnd(j, s) /\ SlurmFrame
    \/ SlurmForget(j) /\ SlurmFrame
    \/ AcctSync(j) /\ SlurmFrame

-----------------------------------------------------------------------------
(* The cached listing: entries expire, and request threads fill the same    *)
(* key (jobs_states() reads jobs_unfiltered() too).                         *)

CacheExpire ==
    /\ hit
    /\ hit' = FALSE
    /\ cached' = NoListing
    /\ UNCHANGED <<fill, filling>>

FillFetch ==
    /\ "cache" \in Enabled /\ ~hit /\ ~filling
    /\ filling' = TRUE
    /\ fill' = Listing
    /\ UNCHANGED <<cached, hit>>

FillPut ==
    /\ filling
    /\ filling' = FALSE
    /\ cached' = fill
    /\ hit' = TRUE
    /\ fill' = NoListing

CacheFrame == UNCHANGED <<slurmVars, poolVars, writerVars, queueVars, flagVars, db, rd, bf>>

ListingCache ==
    \/ CacheExpire /\ CacheFrame
    \/ FillFetch /\ CacheFrame
    \/ FillPut /\ CacheFrame

-----------------------------------------------------------------------------
(* The connection pool, shared by the writer and the request threads.       *)

InUse == queries + (IF pc = "rows" THEN 1 ELSE 0)

\* getconn() hands out a pooled connection, which may be broken when the
\* database is down; it raises when the pool is exhausted or must reconnect.
GetConnOk == InUse < PoolMax
GetConnFails == InUse >= PoolMax \/ ~dbUp

QueryStart ==
    /\ queries < MaxQueries
    /\ GetConnOk
    /\ queries' = queries + 1
    /\ UNCHANGED dbUp

QueryEnd ==
    /\ queries > 0
    /\ queries' = queries - 1
    /\ UNCHANGED dbUp

DbToggle ==
    /\ "outage" \in Enabled
    /\ dbUp' = ~dbUp
    /\ UNCHANGED queries

\* Time passes: the oldest incarnation of j not yet past the retention is now.
AgePastRetention(k) ==
    /\ "expiry" \in Enabled
    /\ k \notin expired
    /\ job[k] # "none"
    /\ k[2] > 1 => <<k[1], k[2] - 1>> \in expired
    /\ expired' = expired \union {k}
    /\ UNCHANGED <<stop, cleanupDue, crashes>>

\* A day has gone by since the last cleanup.
DayPasses ==
    /\ "expiry" \in Enabled
    /\ ~cleanupDue
    /\ cleanupDue' = TRUE
    /\ UNCHANGED <<stop, expired, crashes>>

StopStore ==
    /\ "stop" \in Enabled
    /\ ~stop
    /\ stop' = TRUE
    /\ UNCHANGED <<cleanupDue, expired, crashes>>

Pool ==
    /\ QueryStart \/ QueryEnd \/ DbToggle
    /\ UNCHANGED <<slurmVars, cacheVars, writerVars, queueVars, flagVars, db, rd, bf>>

Clock ==
    /\ DayPasses \/ \E k \in Keys : AgePastRetention(k)
    /\ UNCHANGED <<slurmVars, cacheVars, poolVars, writerVars, queueVars, db, rd, bf>>

-----------------------------------------------------------------------------
(* Rows.                                                                    *)

\* INSERT ... ON CONFLICT (job_id, submit_time) DO UPDATE: the state is
\* overwritten, the usage columns are COALESCEd with the stored ones.
UpsertOverwrites(old, new) == new       \* faulty variants: no COALESCE, and
UpsertSticky(old, new) ==               \* a terminal state that is never left
    IF old.state \in Terminal THEN old ELSE new
Upsert(old, new) ==
    [state |-> new.state,
     usage |-> IF new.usage = NoUsage THEN old.usage ELSE new.usage]

UpsertAll(table, rows, ks) ==
    [k \in Keys |-> IF k \in ks THEN Upsert(table[k], rows[k]) ELSE table[k]]

\* _extract and _prepare_rows: a listed job gives a row without usage.  Jobs
\* without a submit time are skipped, which is as if they were not listed.
PrepareRows(jobs) ==
    [k \in Keys |-> IF jobs[k] = "none" THEN NoRow
                    ELSE [state |-> jobs[k], usage |-> NoUsage]]

\* _pending[_row_key(row)] = row for every row.
Overlay(rows, over) ==
    [k \in Keys |-> IF over[k] # NoRow THEN over[k] ELSE rows[k]]

\* slurmrestd.job(): a NotFound error when accounting has no record.
DetailFound(j) == acct[j].sub # 0

\* The usage computed from the steps of the accounting record: some of it
\* while the job runs, or none before its first step is recorded.
DetailUsages(j) ==
    IF acct[j].state = "ACTIVE"
    THEN {NoUsage, [of |-> acct[j].sub, final |-> FALSE]}
    ELSE {[of |-> acct[j].sub, final |-> TRUE]}

\* _extract_detail: state and usage of the accounting record.
ExtractDetail(j, u) == [state |-> acct[j].state, usage |-> u]

\* _complete_missing_job: the stored record, closed.
CompleteMissingJob(record) == [record EXCEPT !.state = "COMPLETED"]

\* The submit_time of the detail is that of the record.
AnyIncarnation(k) == TRUE               \* faulty variant
SameIncarnation(k) == acct[k[1]].sub = k[2]

\* requeued.update(_pending): rows queued during the flush win.
FailedRowsWin(old, new) == Overlay(new, old)  \* faulty variant
Requeued(old, new) == Overlay(old, new)

-----------------------------------------------------------------------------
(* The writer thread.                                                       *)

Goto(l) == pc' = l
WriterFrame == UNCHANGED <<slurmVars, poolVars, stop, expired, crashes, rd, bf>>

\* _init_pool: an error ends the thread.
InitPool ==
    /\ pc = "init"
    /\ \/ dbUp /\ Goto("ensure")
       \/ ~dbUp /\ Goto("ended")
    /\ UNCHANGED <<cacheVars, queueVars, db, cleanupDue, phase, current, recs, recon, chunk>>
    /\ WriterFrame

\* _ensure_partitions: statement errors are caught, getconn() errors are not.
EnsurePartitions ==
    /\ pc = "ensure"
    /\ \/ GetConnOk /\ Goto("snapshot")
       \/ GetConnFails /\ Goto("dead")
    /\ UNCHANGED <<cacheVars, queueVars, db, cleanupDue, phase, current, recs, recon, chunk>>
    /\ WriterFrame

QueueRows(rows) ==
    /\ pending' = Overlay(pending, rows)
    /\ owed' = Overlay(owed, rows)

\* The first half of _scheduled_snapshot: fetch the listing, queue its rows.
SnapshotQueue ==
    /\ pc = "snapshot"
    /\ LET jobs == IF hit THEN cached ELSE Listing
           rows == PrepareRows(jobs)
       IN  /\ QueueRows(rows)
           /\ current' = Present(rows)
           /\ cached' = IF "cache" \in Enabled THEN jobs ELSE cached
    /\ hit' = ("cache" \in Enabled)
    /\ Goto("active")
    /\ UNCHANGED <<fill, filling, batch, failed, db, cleanupDue, phase, recs, recon, chunk>>
    /\ WriterFrame

\* The listing could not be fetched: the exception is caught and logged.
SnapshotFails ==
    /\ pc = "snapshot"
    /\ ~hit
    /\ Goto("take")
    /\ UNCHANGED <<cacheVars, queueVars, db, cleanupDue, phase, current, recs, recon, chunk>>
    /\ WriterFrame

\* An active record of the table that the listing does not have.
ActiveEvenIfListed(k) == db[k].state \notin Terminal                 \* faulty
ActiveAndListed(k) == db[k].state \notin Terminal /\ k \in current   \* variants
MissingActive(k) == db[k].state \notin Terminal /\ k \notin current

\* _active_records: any error here abandons the reconciliation.
ActiveRecords ==
    /\ pc = "active"
    /\ \/ /\ GetConnOk /\ dbUp
          /\ recs' = [k \in Keys |-> IF MissingActive(k) THEN db[k] ELSE NoRow]
          /\ Goto("refresh")
       \/ /\ GetConnFails
          /\ recs' = recs
          /\ Goto("take")
    /\ current' = {}
    /\ UNCHANGED <<cacheVars, queueVars, db, cleanupDue, phase, recon, chunk>>
    /\ WriterFrame

\* What _refresh_missing_active_job and its caller make of a record: the rows
\* that may be queued for it, NoRow when the lookup failed.
RefreshedRows(k) ==
    IF DetailFound(k[1]) /\ SameIncarnation(k)
    THEN {ExtractDetail(k[1], u) : u \in DetailUsages(k[1])}
    ELSE {CompleteMissingJob(recs[k])}

RefreshRecord(k) ==
    /\ pc = "refresh"
    /\ recs[k] # NoRow
    /\ \E row \in RefreshedRows(k) : recon' = [recon EXCEPT ![k] = row]
    /\ recs' = [recs EXCEPT ![k] = NoRow]
    /\ UNCHANGED <<cacheVars, queueVars, db, cleanupDue, pc, phase, current, chunk>>
    /\ WriterFrame

RefreshLookupFails(k) ==
    /\ pc = "refresh"
    /\ recs[k] # NoRow
    /\ recs' = [recs EXCEPT ![k] = NoRow]
    /\ UNCHANGED <<cacheVars, queueVars, db, cleanupDue, pc, phase, current, recon, chunk>>
    /\ WriterFrame

QueueReconciled ==
    /\ pc = "refresh"
    /\ Present(recs) = {}
    /\ QueueRows(recon)
    /\ recon' = NoRows
    /\ Goto("take")
    /\ UNCHANGED <<cacheVars, batch, failed, db, cleanupDue, phase, current, recs, chunk>>
    /\ WriterFrame

\* _flush takes the whole queue under the lock.
FlushTake ==
    /\ pc = "take"
    /\ batch' = pending
    /\ pending' = NoRows
    /\ Goto(IF Present(pending) = {} THEN "flushed" ELSE "chunk")
    /\ UNCHANGED <<cacheVars, failed, owed, db, cleanupDue, phase, current, recs, recon, chunk>>
    /\ WriterFrame

\* The keys of the next chunk: BATCH_CHUNK of the rows left, or all of them.
Chunks == {c \in SUBSET Present(batch) :
              Cardinality(c) = IF Cardinality(Present(batch)) < BatchChunk
                               THEN Cardinality(Present(batch)) ELSE BatchChunk}

Without(rows, ks) == [k \in Keys |-> IF k \in ks THEN NoRow ELSE rows[k]]

\* A committed row settles what is owed, unless a newer one is queued.
Settle(ks) == [k \in Keys |-> IF k \in ks /\ pending[k] = NoRow THEN NoRow ELSE owed[k]]

\* _flush_chunk: one transaction for the chunk.
FlushChunkBulk(c) ==
    /\ pc = "chunk"
    /\ c # {}
    /\ GetConnOk /\ dbUp
    /\ db' = UpsertAll(db, batch, c)
    /\ batch' = Without(batch, c)
    /\ owed' = Settle(c)
    /\ UNCHANGED <<cacheVars, pending, failed, cleanupDue, writerVars>>
    /\ WriterFrame

\* The bulk statement fails and is rolled back; the rows follow one by one.
FlushChunkBulkFails(c) ==
    /\ pc = "chunk"
    /\ c # {}
    /\ GetConnOk
    /\ chunk' = c
    /\ Goto("rows")
    /\ UNCHANGED <<cacheVars, queueVars, db, cleanupDue, phase, current, recs, recon>>
    /\ WriterFrame

\* getconn() raises out of _flush: the thread ends and the batch goes with it.
FlushChunkNoConn ==
    /\ pc = "chunk"
    /\ Present(batch) # {}
    /\ GetConnFails
    /\ batch' = NoRows
    /\ failed' = NoRows
    /\ Goto("dead")
    /\ UNCHANGED <<cacheVars, pending, owed, db, cleanupDue, phase, current, recs, recon, chunk>>
    /\ WriterFrame

RowDone(k) ==
    /\ batch' = [batch EXCEPT ![k] = NoRow]
    /\ chunk' = chunk \ {k}
    /\ Goto(IF chunk = {k} THEN "chunk" ELSE "rows")

FlushRow(k) ==
    /\ pc = "rows"
    /\ k \in chunk
    /\ dbUp
    /\ db' = UpsertAll(db, batch, {k})
    /\ owed' = Settle({k})
    /\ RowDone(k)
    /\ UNCHANGED <<cacheVars, pending, failed, cleanupDue, phase, current, recs, recon>>
    /\ WriterFrame

FlushRowFails(k) ==
    /\ pc = "rows"
    /\ k \in chunk
    /\ failed' = [failed EXCEPT ![k] = batch[k]]
    /\ RowDone(k)
    /\ UNCHANGED <<cacheVars, pending, owed, db, cleanupDue, phase, current, recs, recon>>
    /\ WriterFrame

\* The failed rows go back to the queue, under the rows queued meanwhile.
Requeue ==
    /\ pc = "chunk"
    /\ Present(batch) = {}
    /\ pending' = Requeued(failed, pending)
    /\ failed' = NoRows
    /\ Goto("flushed")
    /\ UNCHANGED <<cacheVars, batch, owed, db, cleanupDue, phase, current, recs, recon, chunk>>
    /\ WriterFrame

\* What _run does after a flush: the first pass has no cleanup, the last ends.
Flushed ==
    /\ pc = "flushed"
    /\ Goto(CASE phase = "first" -> "wait" [] phase = "loop" -> "cleanup" [] OTHER -> "ended")
    /\ UNCHANGED <<cacheVars, queueVars, db, cleanupDue, phase, current, recs, recon, chunk>>
    /\ WriterFrame

\* _maybe_cleanup: _last_cleanup is set before the attempt; active rows are
\* deleted like the others; getconn() errors end the thread.
MaybeCleanup ==
    /\ pc = "cleanup"
    /\ cleanupDue' = FALSE
    /\ \/ db' = db /\ (~cleanupDue \/ GetConnOk) /\ Goto("wait")
       \/ cleanupDue /\ GetConnOk /\ dbUp /\ db' = Without(db, expired) /\ Goto("wait")
       \/ cleanupDue /\ GetConnFails /\ db' = db /\ Goto("dead")
    /\ UNCHANGED <<cacheVars, queueVars, phase, current, recs, recon, chunk>>
    /\ WriterFrame

\* _stop_event.wait(interval): one more pass, or the final flush.
Wait ==
    /\ pc = "wait"
    /\ \/ ~stop /\ phase' = "loop" /\ Goto("ensure")
       \/ stop /\ phase' = "final" /\ Goto("take")
    /\ UNCHANGED <<cacheVars, queueVars, db, cleanupDue, current, recs, recon, chunk>>
    /\ WriterFrame

Writer ==
    \/ InitPool \/ EnsurePartitions
    \/ SnapshotQueue \/ SnapshotFails
    \/ ActiveRecords
    \/ \E k \in Keys : RefreshRecord(k) \/ RefreshLookupFails(k)
    \/ QueueReconciled
    \/ FlushTake
    \/ \E c \in Chunks : FlushChunkBulk(c) \/ FlushChunkBulkFails(c)
    \/ FlushChunkNoConn
    \/ \E k \in Keys : FlushRow(k) \/ FlushRowFails(k)
    \/ Requeue
    \/ Flushed \/ MaybeCleanup \/ Wait

-----------------------------------------------------------------------------
(* submit(): another thread queues the rows of jobs it fetched.             *)

SubmitRows(j) ==
    /\ "submit" \in Enabled
    /\ QueueRows(PrepareRows([k \in Keys |-> IF k[1] = j THEN Listing[k] ELSE "none"]))
    /\ UNCHANGED <<slurmVars, cacheVars, poolVars, writerVars, batch, failed, flagVars, db, rd, bf>>

-----------------------------------------------------------------------------
(* get_by_id in a request thread: read, look up the detail, write it.       *)

IdleReader == [pc |-> "idle", key |-> CHOOSE k \in Keys : TRUE, row |-> NoRow]
ReaderFrame == UNCHANGED <<slurmVars, cacheVars, poolVars, writerVars, queueVars, flagVars, bf>>

\* Any record may lack one of the columns of _needs_detail_enrichment: only
\* those that do go on to the lookup.  Of the record read, the enrichment uses
\* the key and columns that are not modelled.
ReadRecord(r, k) ==
    /\ rd[r].pc = "idle"
    /\ GetConnOk /\ dbUp
    /\ db[k] # NoRow
    /\ rd' = [rd EXCEPT ![r] = [pc |-> "lookup", key |-> k, row |-> NoRow]]
    /\ UNCHANGED db
    /\ ReaderFrame

\* slurmrestd.job() in _maybe_enrich_record.
EnrichLookup(r) ==
    LET k == rd[r].key IN
    /\ rd[r].pc = "lookup"
    /\ DetailFound(k[1])
    /\ SameIncarnation(k)
    /\ \E u \in DetailUsages(k[1]) :
          rd' = [rd EXCEPT ![r] = [pc |-> "write", key |-> k, row |-> ExtractDetail(k[1], u)]]
    /\ UNCHANGED db
    /\ ReaderFrame

\* A lookup error, a missing job or another submit time: the record as read.
EnrichGivesUp(r) ==
    /\ rd[r].pc = "lookup"
    /\ rd' = [rd EXCEPT ![r] = IdleReader]
    /\ UNCHANGED db
    /\ ReaderFrame

\* _flush_chunk([row]); a row that fails is not queued again.
EnrichWrite(r) ==
    /\ rd[r].pc = "write"
    /\ \/ /\ GetConnOk /\ dbUp
          /\ db' = [db EXCEPT ![rd[r].key] = Upsert(@, rd[r].row)]
       \/ UNCHANGED db
    /\ rd' = [rd EXCEPT ![r] = IdleReader]
    /\ ReaderFrame

Reader == \E r \in Readers :
    \/ \E k \in Keys : ReadRecord(r, k)
    \/ EnrichLookup(r) \/ EnrichGivesUp(r) \/ EnrichWrite(r)

-----------------------------------------------------------------------------
(* backfill_usage_fields: one ORM session, committed at the end.            *)

NoUpdates == [k \in Keys |-> NoUsage]
IdleBackfill == [pc |-> "idle", rows |-> {}, upd |-> NoUpdates]
BackfillFrame == UNCHANGED <<slurmVars, cacheVars, poolVars, writerVars, queueVars, flagVars, rd>>

\* usage_backfill_rows_query with missing_only.
BackfillCandidates ==
    {k \in Keys : db[k].state \in {"COMPLETED", "FAILED"} /\ db[k].usage = NoUsage}

BackfillSelect ==
    /\ "backfill" \in Enabled /\ dbUp
    /\ bf.pc = "idle"
    /\ BackfillCandidates # {}
    /\ bf' = [pc |-> "scan", rows |-> BackfillCandidates, upd |-> NoUpdates]
    /\ UNCHANGED db
    /\ BackfillFrame

\* fetch_job_detail and _apply_usage_detail for one snapshot.
BackfillDetail(k) ==
    /\ bf.pc = "scan"
    /\ k \in bf.rows
    /\ DetailFound(k[1])
    /\ SameIncarnation(k)
    /\ \E u \in DetailUsages(k[1]) :
          bf' = [bf EXCEPT !.rows = @ \ {k}, !.upd[k] = u]
    /\ UNCHANGED db
    /\ BackfillFrame

BackfillSkip(k) ==
    /\ bf.pc = "scan"
    /\ k \in bf.rows
    /\ bf' = [bf EXCEPT !.rows = @ \ {k}]
    /\ UNCHANGED db
    /\ BackfillFrame

\* The UPDATEs of the flush, by primary key: a row deleted since the SELECT
\* fails the whole transaction, as does a database error.
BackfillCommit ==
    LET ks == {k \in Keys : bf.upd[k] # NoUsage} IN
    /\ bf.pc = "scan"
    /\ bf.rows = {}
    /\ bf' = IdleBackfill
    /\ \/ /\ dbUp
          /\ ks \subseteq Present(db)
          /\ db' = [k \in Keys |-> IF k \in ks THEN [db[k] EXCEPT !.usage = bf.upd[k]]
                                   ELSE db[k]]
       \/ UNCHANGED db
    /\ BackfillFrame

Backfill == BackfillSelect \/ BackfillCommit
            \/ \E k \in Keys : BackfillDetail(k) \/ BackfillSkip(k)

-----------------------------------------------------------------------------
(* The agent.                                                               *)

Stopping ==
    /\ StopStore
    /\ UNCHANGED <<slurmVars, cacheVars, poolVars, writerVars, queueVars, db, rd, bf>>

\* The process ends and is started again: memory is lost, Redis and
\* PostgreSQL are not.
Restart ==
    /\ crashes < MaxCrashes
    /\ crashes' = crashes + 1
    /\ pc' = "init" /\ phase' = "first"
    /\ current' = {} /\ recs' = NoRows /\ recon' = NoRows /\ chunk' = {}
    /\ pending' = NoRows /\ batch' = NoRows /\ failed' = NoRows /\ owed' = NoRows
    /\ stop' = FALSE /\ cleanupDue' = TRUE
    /\ fill' = NoListing /\ filling' = FALSE
    /\ queries' = 0
    /\ rd' = [r \in Readers |-> IdleReader]
    /\ bf' = IdleBackfill
    /\ UNCHANGED <<slurmVars, cached, hit, dbUp, expired, db>>

Init ==
    /\ job = [k \in Keys |-> "none"] /\ cur = [j \in JobIds |-> 0] /\ listed = {}
    /\ acct = [j \in JobIds |-> [sub |-> 0, state |-> "none"]]
    /\ cached = NoListing /\ hit = FALSE /\ fill = NoListing /\ filling = FALSE
    /\ dbUp = TRUE /\ db = NoRows /\ expired = {} /\ queries = 0
    /\ pending = NoRows /\ batch = NoRows /\ failed = NoRows /\ owed = NoRows
    /\ current = {} /\ recs = NoRows /\ recon = NoRows /\ chunk = {}
    /\ pc = "init" /\ phase = "first" /\ stop = FALSE /\ cleanupDue = TRUE
    /\ rd = [r \in Readers |-> IdleReader] /\ bf = IdleBackfill
    /\ crashes = 0

Next == \/ Slurm \/ ListingCache \/ Pool \/ Clock
        \/ Writer \/ Reader \/ Backfill
        \/ \E j \in JobIds : SubmitRows(j)
        \/ Stopping \/ Restart

Spec == Init /\ [][Next]_vars

-----------------------------------------------------------------------------
(* Properties.                                                              *)

WriterPcs == {"init", "ensure", "snapshot", "active", "refresh", "take", "chunk",
              "rows", "flushed", "cleanup", "wait", "dead", "ended"}
Rows == [Keys -> Row]
Listings == [Keys -> JobState]

\* The variables keep their types: no row of _pending, of a batch or of the
\* table is malformed, and no more connections are out than the pool has.
TypeOK ==
    /\ job \in Listings /\ cur \in [JobIds -> 0..MaxInst] /\ listed \subseteq JobIds
    /\ acct \in [JobIds -> [sub : 0..MaxInst, state : JobState]]
    /\ cached \in Listings /\ fill \in Listings /\ hit \in BOOLEAN /\ filling \in BOOLEAN
    /\ dbUp \in BOOLEAN /\ db \in Rows /\ expired \subseteq Keys /\ queries \in Nat
    /\ pending \in Rows /\ batch \in Rows /\ failed \in Rows /\ owed \in Rows
    /\ current \subseteq Keys /\ recs \in Rows /\ recon \in Rows /\ chunk \subseteq Keys
    /\ InUse <= PoolMax
    /\ pc \in WriterPcs /\ phase \in {"first", "loop", "final"}
    /\ stop \in BOOLEAN /\ cleanupDue \in BOOLEAN /\ crashes \in Nat
    /\ rd \in [Readers -> [pc : {"idle", "lookup", "write"}, key : Keys, row : Row]]
    /\ bf \in [pc : {"idle", "scan"}, rows : SUBSET Keys, upd : [Keys -> Usage]]

\* The row _flush would write last for a key.
Newest(k) == IF pending[k] # NoRow THEN pending[k]
             ELSE IF failed[k] # NoRow THEN failed[k] ELSE batch[k]

\* The last row queued for a key is the one still to be written, or has been
\* committed: no chunk, failed row or requeue of _flush drops it or lets an
\* older row of the same key win, as long as the writer thread lives.
NewestRowKept == pc # "dead" => \A k \in Keys : Newest(k) = owed[k]

\* The same without the proviso, as the log line "Re-queuing %d failed job
\* rows for retry" of _flush promises: a row that was not written is queued.
FailedRowsRequeued == \A k \in Keys : owed[k] # NoRow => Newest(k) = owed[k]

\* Usage figures are those of the incarnation the row is about, in the table,
\* in the queue and in the hands of every thread: a requeued identifier never
\* lends its usage to another submit time (the submit_time comparisons of
\* _refresh_missing_active_job, _maybe_enrich_record and _apply_usage_detail).
OwnUsage(rows) == \A k \in Keys : rows[k].usage.of \in {0, k[2]}
UsageOfOwnIncarnation ==
    /\ OwnUsage(db) /\ OwnUsage(pending) /\ OwnUsage(batch)
    /\ OwnUsage(failed) /\ OwnUsage(recs) /\ OwnUsage(recon)
    /\ \A r \in Readers : rd[r].row.usage.of \in {0, rd[r].key[2]}
    /\ \A k \in Keys : bf.upd[k].of \in {0, k[2]}

\* The table is a job history, whichever of the writer, the enrichments, the
\* backfill and the cleanup writes it: usage is of its own job and never erased,
\* an end is not told before it comes unless a listing was stale, and a record
\* only disappears past its retention.
History == INSTANCE JobHistory WITH record <- db, Fresh <- "cache" \notin Enabled
TableIsJobHistory == History!Spec

\* Without the cache, the table calls a job ended only when it has, and names
\* the state it ended in unless the reconciliation had to assume COMPLETED.
EndedMeansEnded == \A k \in Keys : db[k].state \in Terminal =>
    /\ job[k] \in Terminal
    /\ db[k].state \in {job[k], "COMPLETED"}

-----------------------------------------------------------------------------
(* Liveness.                                                                *)

\* The scheduler runs the writer and the backfill; the cache TTL elapses;
\* slurmdbd catches up and slurmctld forgets ended jobs; and a request, a
\* lookup or a statement that is retried for ever does not always fail.
Fairness ==
    /\ WF_vars(Writer)
    /\ SF_vars(SnapshotQueue)
    /\ \A k \in Keys : SF_vars(RefreshRecord(k)) /\ SF_vars(FlushRow(k))
    /\ \A j \in JobIds : WF_vars(SlurmForget(j) /\ SlurmFrame) /\ WF_vars(AcctSync(j) /\ SlurmFrame)
    /\ WF_vars(CacheExpire /\ CacheFrame) /\ WF_vars(FillPut /\ CacheFrame)
    /\ WF_vars(Backfill) /\ \A k \in Keys : SF_vars(BackfillDetail(k))

FairSpec == Spec /\ Fairness

\* A record stored as active whose job has ended does not stay active: the
\* listing, the reconciliation or its COMPLETED fallback closes it, whatever
\* stale listing, lagging accounting or failed lookup comes first.
EndedJobsAreClosed == \A k \in Keys :
    job[k] \in Terminal /\ db[k].state = "ACTIVE" ~> db[k].state # "ACTIVE"

\* With a shared cache a stale listing may close the record of a running job;
\* later snapshots reopen it.
WrongEndHeals == \A k \in Keys :
    job[k] = "ACTIVE" /\ db[k].state \in Terminal
        ~> db[k].state = "ACTIVE" \/ job[k] # "ACTIVE"
=============================================================================
