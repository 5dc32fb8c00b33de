--------------------------- MODULE JobsStoreProofs ---------------------------
(***************************************************************************)
(* Proofs about JobsStore: the type invariant, that the writer keeps the    *)
(* newest row of every key, that whatever is held or stored is true of its  *)
(* job, and from it that usage stays with its incarnation, that an end told *)
(* is real without the cache, and that the store implements JobHistory.     *)
(***************************************************************************)
EXTENDS JobsStore, TLAPS

USE JobsStoreAssumption

-----------------------------------------------------------------------------
(* The operators on rows.                                                   *)

\* Every key is a job identifier and an incarnation of it.
LEMMA KeyParts == ASSUME NEW k \in Keys
                  PROVE  k[1] \in JobIds /\ k[2] \in 1..MaxInst /\ k = <<k[1], k[2]>>
  BY DEF Keys

LEMMA IdleKey == (CHOOSE k \in Keys : TRUE) \in Keys
  <1>1. Keys # {}
    <2>1. PICK j \in JobIds : TRUE
      OBVIOUS
    <2>2. <<j, 1>> \in Keys
      BY DEF Keys
    <2> QED BY <2>2
  <1> QED BY <1>1

\* The null row and the empty tables are well-typed.
LEMMA NullTypes ==
    /\ NoUsage \in Usage /\ NoRow \in Row /\ NoRows \in Rows /\ NoListing \in Listings
    /\ NoUpdates \in [Keys -> Usage]
  BY DEF NoUsage, Usage, NoRow, Row, NoRows, Rows, NoListing, Listings, JobState, NoUpdates

LEMMA OverlayType == ASSUME NEW a \in Rows, NEW b \in Rows PROVE Overlay(a, b) \in Rows
  BY DEF Overlay, Rows

LEMMA WithoutType == ASSUME NEW a \in Rows, NEW ks PROVE Without(a, ks) \in Rows
  BY NullTypes DEF Without, Rows

LEMMA UpsertType == ASSUME NEW a \in Row, NEW b \in Row PROVE Upsert(a, b) \in Row
  BY DEF Upsert, Row

LEMMA UpsertAllType == ASSUME NEW a \in Rows, NEW b \in Rows, NEW ks
                       PROVE  UpsertAll(a, b, ks) \in Rows
  BY UpsertType DEF UpsertAll, Rows

LEMMA PrepareRowsType == ASSUME NEW l \in Listings PROVE PrepareRows(l) \in Rows
  BY NullTypes DEF PrepareRows, Rows, Row, Listings

LEMMA DetailTypes ==
    ASSUME TypeOK, NEW j \in JobIds, NEW u \in DetailUsages(j)
    PROVE  u \in Usage /\ ExtractDetail(j, u) \in Row
  <1>1. acct[j].sub \in 0..MaxInst /\ acct[j].state \in JobState
    BY DEF TypeOK
  <1>2. \A b \in BOOLEAN : [of |-> acct[j].sub, final |-> b] \in Usage
    BY <1>1 DEF Usage
  <1>3. u \in Usage
    BY <1>2, NullTypes DEF DetailUsages
  <1> QED BY <1>1, <1>3 DEF ExtractDetail, Row

LEMMA CompleteType == ASSUME NEW r \in Row PROVE CompleteMissingJob(r) \in Row
  BY DEF CompleteMissingJob, Row, JobState, Terminal

-----------------------------------------------------------------------------
(* Type correctness, one lemma per group of actions.                        *)

LEMMA InitType == Init => TypeOK
  <1> SUFFICES ASSUME Init PROVE TypeOK
    OBVIOUS
  <1>1. [r \in Readers |-> IdleReader] \in
            [Readers -> [pc : {"idle", "lookup", "write"}, key : Keys, row : Row]]
    BY IdleKey, NullTypes DEF IdleReader
  <1>2. bf \in [pc : {"idle", "scan"}, rows : SUBSET Keys, upd : [Keys -> Usage]]
    BY NullTypes DEF Init, IdleBackfill
  <1>3. job \in Listings /\ acct \in [JobIds -> [sub : 0..MaxInst, state : JobState]]
    BY DEF Init, Listings, JobState
  <1>4. InUse <= PoolMax
    BY DEF Init, InUse
  <1> QED BY <1>1, <1>2, <1>3, <1>4, NullTypes DEF Init, TypeOK, WriterPcs

LEMMA ListingType == TypeOK => Listing \in Listings
  BY DEF TypeOK, Listing, Listings, JobState

LEMMA SlurmType == TypeOK /\ Slurm => TypeOK'
  <1> SUFFICES ASSUME TypeOK, SlurmFrame, NEW j \in JobIds,
                      \/ SlurmSubmit(j) \/ (\E s \in Ends : SlurmEnd(j, s))
                      \/ SlurmForget(j) \/ AcctSync(j)
               PROVE  TypeOK'
    BY DEF Slurm
  <1>1. job' \in Listings /\ cur' \in [JobIds -> 0..MaxInst] /\ listed' \subseteq JobIds
        /\ acct' \in [JobIds -> [sub : 0..MaxInst, state : JobState]]
    <2>1. CASE SlurmSubmit(j)
      <3>1. "ACTIVE" \in JobState /\ cur[j] + 1 \in 0..MaxInst
        BY <2>1 DEF SlurmSubmit, TypeOK, JobState
      <3> QED BY <2>1, <3>1 DEF SlurmSubmit, TypeOK, Listings
    <2>2. CASE \E s \in Ends : SlurmEnd(j, s)
      <3>1. PICK s \in Ends : SlurmEnd(j, s)
        BY <2>2
      <3>2. s \in JobState
        BY DEF JobState
      <3>3. job' \in Listings
        BY <3>1, <3>2 DEF SlurmEnd, TypeOK, Listings
      <3> QED BY <3>1, <3>3 DEF SlurmEnd, TypeOK
    <2>3. CASE SlurmForget(j)
      BY <2>3 DEF SlurmForget, TypeOK
    <2>4. CASE AcctSync(j)
      <3>1. <<j, cur[j]>> \in Keys
        BY <2>4 DEF AcctSync, TypeOK, Keys
      <3> QED BY <2>4, <3>1 DEF AcctSync, TypeOK, Listings
    <2> QED BY <2>1, <2>2, <2>3, <2>4
  <1> QED BY <1>1 DEF TypeOK, SlurmFrame, cacheVars, poolVars, writerVars, queueVars,
                      flagVars, InUse

LEMMA CacheType == TypeOK /\ ListingCache => TypeOK'
  <1> SUFFICES ASSUME TypeOK, CacheFrame, CacheExpire \/ FillFetch \/ FillPut
               PROVE  TypeOK'
    BY DEF ListingCache
  <1>1. cached' \in Listings /\ fill' \in Listings /\ hit' \in BOOLEAN /\ filling' \in BOOLEAN
    BY ListingType, NullTypes DEF TypeOK, CacheExpire, FillFetch, FillPut
  <1> QED BY <1>1 DEF TypeOK, CacheFrame, slurmVars, poolVars, writerVars, queueVars,
                      flagVars, InUse

LEMMA PoolType == TypeOK /\ Pool => TypeOK'
  <1> SUFFICES ASSUME TypeOK, Pool PROVE TypeOK'
    OBVIOUS
  <1>1. pc' = pc
    BY DEF Pool, writerVars
  <1>2. queries' \in Nat /\ InUse' <= PoolMax /\ dbUp' \in BOOLEAN
    <2>1. CASE QueryStart
      BY <1>1, <2>1 DEF QueryStart, GetConnOk, InUse, TypeOK
    <2>2. CASE QueryEnd
      BY <1>1, <2>2 DEF QueryEnd, InUse, TypeOK
    <2>3. CASE DbToggle
      BY <1>1, <2>3 DEF DbToggle, InUse, TypeOK
    <2> QED BY <2>1, <2>2, <2>3 DEF Pool
  <1> QED BY <1>2 DEF TypeOK, Pool, slurmVars, cacheVars, writerVars, queueVars, flagVars

LEMMA ClockType == TypeOK /\ (Clock \/ Stopping) => TypeOK'
  BY DEF TypeOK, Clock, Stopping, DayPasses, AgePastRetention, StopStore, InUse,
     slurmVars, cacheVars, poolVars, writerVars, queueVars

LEMMA ReaderType == TypeOK /\ Reader => TypeOK'
  <1> SUFFICES ASSUME TypeOK, NEW r \in Readers, ReaderFrame,
                      \/ (\E k \in Keys : ReadRecord(r, k))
                      \/ EnrichLookup(r) \/ EnrichGivesUp(r) \/ EnrichWrite(r)
               PROVE  TypeOK'
    BY DEF Reader, ReadRecord, EnrichLookup, EnrichGivesUp, EnrichWrite
  <1> DEFINE RD == [pc : {"idle", "lookup", "write"}, key : Keys, row : Row]
  <1>0. IdleReader \in RD
    BY IdleKey, NullTypes DEF IdleReader
  <1>1. rd' \in [Readers -> RD] /\ db' \in Rows
    <2>1. CASE \E k \in Keys : ReadRecord(r, k)
      BY <2>1, NullTypes DEF ReadRecord, TypeOK
    <2>2. CASE EnrichLookup(r)
      <3>1. rd[r].key[1] \in JobIds
        BY KeyParts DEF TypeOK
      <3> QED BY <2>2, <3>1, DetailTypes DEF EnrichLookup, TypeOK
    <2>3. CASE EnrichGivesUp(r)
      BY <1>0, <2>3 DEF EnrichGivesUp, TypeOK
    <2>4. CASE EnrichWrite(r)
      <3>1. Upsert(db[rd[r].key], rd[r].row) \in Row
        BY UpsertType DEF TypeOK, Rows
      <3> QED BY <1>0, <2>4, <3>1 DEF EnrichWrite, TypeOK, Rows
    <2> QED BY <2>1, <2>2, <2>3, <2>4
  <1> QED BY <1>1 DEF TypeOK, ReaderFrame, slurmVars, cacheVars, poolVars, writerVars,
                      queueVars, flagVars, InUse

LEMMA BackfillType == TypeOK /\ Backfill => TypeOK'
  <1> SUFFICES ASSUME TypeOK, BackfillFrame,
                      \/ BackfillSelect \/ BackfillCommit
                      \/ (\E k \in Keys : BackfillDetail(k) \/ BackfillSkip(k))
               PROVE  TypeOK'
    BY DEF Backfill, BackfillSelect, BackfillCommit, BackfillDetail, BackfillSkip
  <1> DEFINE BF == [pc : {"idle", "scan"}, rows : SUBSET Keys, upd : [Keys -> Usage]]
  <1>0. bf \in BF /\ IdleBackfill \in BF
    BY NullTypes DEF TypeOK, IdleBackfill
  <1>1. bf' \in BF /\ db' \in Rows
    <2>1. CASE BackfillSelect
      BY <2>1, NullTypes DEF BackfillSelect, BackfillCandidates, TypeOK
    <2>2. CASE \E k \in Keys : BackfillDetail(k)
      <3>1. PICK k \in Keys : BackfillDetail(k)
        BY <2>2
      <3>2. PICK u \in DetailUsages(k[1]) :
                bf' = [bf EXCEPT !.rows = @ \ {k}, !.upd[k] = u]
        BY <3>1 DEF BackfillDetail
      <3>3. u \in Usage
        <4>1. k[1] \in JobIds
          BY KeyParts
        <4> QED BY <3>2, <4>1, DetailTypes
      <3>4. bf' \in BF
        <4> HIDE DEF BF
        <4>1. bf.rows \ {k} \in SUBSET Keys /\ [bf.upd EXCEPT ![k] = u] \in [Keys -> Usage]
          BY <1>0, <3>3 DEF BF
        <4>2. bf' = [bf EXCEPT !.rows = bf.rows \ {k}, !.upd = [bf.upd EXCEPT ![k] = u]]
          BY <1>0, <3>2 DEF BF
        <4> QED BY <1>0, <4>1, <4>2 DEF BF
      <3> QED BY <3>1, <3>4 DEF BackfillDetail, TypeOK
    <2>3. CASE \E k \in Keys : BackfillSkip(k)
      BY <1>0, <2>3 DEF BackfillSkip, TypeOK
    <2>4. CASE BackfillCommit
      <3>1. \A k \in Keys : [db[k] EXCEPT !.usage = bf.upd[k]] \in Row
        <4> TAKE k \in Keys
        <4>1. db[k] \in Row
          BY DEF TypeOK, Rows
        <4>2. bf.upd[k] \in Usage
          BY <1>0
        <4> QED BY <4>1, <4>2 DEF Row
      <3>2. bf' = IdleBackfill
        BY <2>4 DEF BackfillCommit
      <3>3. db' \in Rows
        BY <2>4, <3>1 DEF BackfillCommit, TypeOK, Rows
      <3> QED BY <1>0, <3>2, <3>3
    <2> QED BY <2>1, <2>2, <2>3, <2>4
  <1> QED BY <1>1 DEF TypeOK, BackfillFrame, slurmVars, cacheVars, poolVars, writerVars,
                      queueVars, flagVars, InUse

LEMMA QueueRowsType ==
    ASSUME TypeOK, NEW rows \in Rows, QueueRows(rows)
    PROVE  pending' \in Rows /\ owed' \in Rows
  BY OverlayType DEF QueueRows, TypeOK

LEMMA SubmitType == ASSUME TypeOK, NEW j \in JobIds, SubmitRows(j) PROVE TypeOK'
  <1> DEFINE L == [k \in Keys |-> IF k[1] = j THEN Listing[k] ELSE "none"]
  <1>1. L \in Listings
    <2>1. Listing \in [Keys -> JobState] /\ "none" \in JobState
      BY ListingType DEF Listings, JobState
    <2> QED BY <2>1 DEF Listings
  <1>2. PrepareRows(L) \in Rows
    BY <1>1, PrepareRowsType
  <1>3. pending' \in Rows /\ owed' \in Rows
    BY <1>2, QueueRowsType DEF SubmitRows
  <1> QED BY <1>3 DEF TypeOK, SubmitRows, slurmVars, cacheVars, poolVars, writerVars,
                      flagVars, InUse

LEMMA RestartType == TypeOK /\ Restart => TypeOK'
  <1> SUFFICES ASSUME TypeOK, Restart PROVE TypeOK'
    OBVIOUS
  <1>1. rd' \in [Readers -> [pc : {"idle", "lookup", "write"}, key : Keys, row : Row]]
    BY IdleKey, NullTypes DEF Restart, IdleReader
  <1>2. bf' \in [pc : {"idle", "scan"}, rows : SUBSET Keys, upd : [Keys -> Usage]]
    BY NullTypes DEF Restart, IdleBackfill
  <1>3. InUse' <= PoolMax
    BY DEF Restart, InUse
  <1>4. /\ pending' \in Rows /\ batch' \in Rows /\ failed' \in Rows /\ owed' \in Rows
        /\ recs' \in Rows /\ recon' \in Rows /\ fill' \in Listings
    BY NullTypes DEF Restart
  <1>5. /\ pc' \in WriterPcs /\ phase' \in {"first", "loop", "final"}
        /\ current' = {} /\ chunk' = {}
        /\ stop' \in BOOLEAN /\ cleanupDue' \in BOOLEAN /\ filling' \in BOOLEAN
    BY DEF Restart, WriterPcs
  <1>7. queries' \in Nat /\ crashes' \in Nat
    BY DEF Restart, TypeOK
  <1>6. UNCHANGED <<job, cur, listed, acct, cached, hit, dbUp, expired, db>>
    BY DEF Restart, slurmVars
  <1> QED BY <1>1, <1>2, <1>3, <1>4, <1>5, <1>6, <1>7 DEF TypeOK

\* What every writer step leaves alone, and what it may not break.
LEMMA WriterTypes ==
    ASSUME TypeOK, WriterFrame,
           cached' \in Listings, fill' \in Listings, hit' \in BOOLEAN, filling' \in BOOLEAN,
           db' \in Rows, pending' \in Rows, batch' \in Rows, failed' \in Rows, owed' \in Rows,
           current' \subseteq Keys, recs' \in Rows, recon' \in Rows, chunk' \subseteq Keys,
           phase' \in {"first", "loop", "final"}, cleanupDue' \in BOOLEAN,
           pc' \in WriterPcs, pc' = "rows" => InUse < PoolMax \/ pc = "rows"
    PROVE  TypeOK'
  <1>1. queries' = queries /\ queries \in Nat /\ InUse <= PoolMax
    BY DEF TypeOK, WriterFrame, poolVars
  <1>2. InUse' <= PoolMax
    <2>1. CASE pc' = "rows"
      BY <1>1, <2>1 DEF InUse
    <2>2. CASE pc' # "rows"
      BY <1>1, <2>2 DEF InUse
    <2> QED BY <2>1, <2>2
  <1>3. UNCHANGED <<job, cur, listed, acct, dbUp, queries, stop, expired, crashes, rd, bf>>
    BY DEF WriterFrame, slurmVars, poolVars
  <1> QED BY <1>2, <1>3 DEF TypeOK

LEMMA WriterType == TypeOK /\ Writer => TypeOK'
  <1> SUFFICES ASSUME TypeOK, Writer PROVE TypeOK'
    OBVIOUS
  <1> USE DEF Goto
  <1>1. CASE InitPool
    BY <1>1, WriterTypes DEF InitPool, TypeOK, WriterPcs, cacheVars, queueVars
  <1>2. CASE EnsurePartitions
    BY <1>2, WriterTypes DEF EnsurePartitions, TypeOK, WriterPcs, cacheVars, queueVars
  <1>3. CASE SnapshotQueue
    <2> DEFINE jobs == IF hit THEN cached ELSE Listing
    <2>1. jobs \in Listings
      BY ListingType DEF TypeOK
    <2>2. PrepareRows(jobs) \in Rows /\ Present(PrepareRows(jobs)) \subseteq Keys
      BY <2>1, PrepareRowsType DEF Present
    <2> HIDE DEF jobs
    <2>3. /\ QueueRows(PrepareRows(jobs)) /\ current' = Present(PrepareRows(jobs))
          /\ cached' = (IF "cache" \in Enabled THEN jobs ELSE cached)
      BY <1>3 DEF SnapshotQueue, jobs
    <2>4. /\ pending' \in Rows /\ owed' \in Rows /\ cached' \in Listings /\ hit' \in BOOLEAN
          /\ current' \subseteq Keys
      BY <1>3, <2>1, <2>2, <2>3, QueueRowsType DEF SnapshotQueue, TypeOK
    <2> QED BY <1>3, <2>4, WriterTypes DEF SnapshotQueue, TypeOK, WriterPcs
  <1>4. CASE SnapshotFails
    BY <1>4, WriterTypes DEF SnapshotFails, TypeOK, WriterPcs, cacheVars, queueVars
  <1>5. CASE ActiveRecords
    <2>1. recs' \in Rows /\ current' \subseteq Keys
      <3>1. [k \in Keys |-> IF MissingActive(k) THEN db[k] ELSE NoRow] \in Rows
        BY NullTypes DEF TypeOK, Rows
      <3>2. recs' \in Rows
        BY <1>5, <3>1 DEF ActiveRecords, TypeOK
      <3> QED BY <1>5, <3>2 DEF ActiveRecords
    <2> QED BY <1>5, <2>1, WriterTypes DEF ActiveRecords, TypeOK, WriterPcs, cacheVars, queueVars
  <1>6. CASE \E k \in Keys : RefreshRecord(k)
    <2>1. PICK k \in Keys : RefreshRecord(k)
      BY <1>6
    <2>2. PICK row \in RefreshedRows(k) : recon' = [recon EXCEPT ![k] = row]
      BY <2>1 DEF RefreshRecord
    <2>3. row \in Row
      <3>1. k[1] \in JobIds /\ recs[k] \in Row
        BY KeyParts DEF TypeOK, Rows
      <3>2. CASE row = CompleteMissingJob(recs[k])
        BY <3>1, <3>2, CompleteType
      <3>3. CASE \E u \in DetailUsages(k[1]) : row = ExtractDetail(k[1], u)
        BY <3>1, <3>3, DetailTypes
      <3> QED BY <2>2, <3>2, <3>3 DEF RefreshedRows
    <2>4. recon' \in Rows /\ recs' \in Rows
      BY <2>1, <2>2, <2>3, NullTypes DEF RefreshRecord, TypeOK, Rows
    <2> QED BY <2>1, <2>4, WriterTypes DEF RefreshRecord, TypeOK, WriterPcs, cacheVars, queueVars
  <1>7. CASE \E k \in Keys : RefreshLookupFails(k)
    <2>1. PICK k \in Keys : RefreshLookupFails(k)
      BY <1>7
    <2>2. recs' \in Rows
      BY <2>1, NullTypes DEF RefreshLookupFails, TypeOK, Rows
    <2> QED BY <2>1, <2>2, WriterTypes
            DEF RefreshLookupFails, TypeOK, WriterPcs, cacheVars, queueVars
  <1>8. CASE QueueReconciled
    <2>1. pending' \in Rows /\ owed' \in Rows
      BY <1>8, QueueRowsType DEF QueueReconciled, TypeOK
    <2> QED BY <1>8, <2>1, NullTypes, WriterTypes
            DEF QueueReconciled, TypeOK, WriterPcs, cacheVars
  <1>9. CASE FlushTake
    BY <1>9, NullTypes, WriterTypes DEF FlushTake, TypeOK, WriterPcs, cacheVars
  <1>10. CASE \E c \in Chunks : FlushChunkBulk(c)
    <2>1. PICK c \in Chunks : FlushChunkBulk(c)
      BY <1>10
    <2>2. db' \in Rows /\ batch' \in Rows /\ owed' \in Rows
      BY <2>1, NullTypes, UpsertAllType, WithoutType DEF FlushChunkBulk, Settle, TypeOK, Rows
    <2> QED BY <2>1, <2>2, WriterTypes DEF FlushChunkBulk, TypeOK, WriterPcs, cacheVars, writerVars
  <1>11. CASE \E c \in Chunks : FlushChunkBulkFails(c)
    BY <1>11, WriterTypes
       DEF FlushChunkBulkFails, Chunks, Present, GetConnOk, TypeOK, WriterPcs, cacheVars, queueVars
  <1>12. CASE FlushChunkNoConn
    BY <1>12, NullTypes, WriterTypes DEF FlushChunkNoConn, TypeOK, WriterPcs, cacheVars
  <1>13. CASE \E k \in Keys : FlushRow(k)
    <2>1. PICK k \in Keys : FlushRow(k)
      BY <1>13
    <2>2. db' \in Rows /\ batch' \in Rows /\ owed' \in Rows
      BY <2>1, NullTypes, UpsertAllType DEF FlushRow, RowDone, Settle, TypeOK, Rows
    <2> QED BY <2>1, <2>2, WriterTypes DEF FlushRow, RowDone, TypeOK, WriterPcs, cacheVars
  <1>14. CASE \E k \in Keys : FlushRowFails(k)
    <2>1. PICK k \in Keys : FlushRowFails(k)
      BY <1>14
    <2>2. failed' \in Rows /\ batch' \in Rows
      BY <2>1, NullTypes DEF FlushRowFails, RowDone, TypeOK, Rows
    <2> QED BY <2>1, <2>2, WriterTypes DEF FlushRowFails, RowDone, TypeOK, WriterPcs, cacheVars
  <1>15. CASE Requeue
    BY <1>15, NullTypes, OverlayType, WriterTypes
       DEF Requeue, Requeued, TypeOK, WriterPcs, cacheVars
  <1>16. CASE Flushed
    BY <1>16, WriterTypes DEF Flushed, TypeOK, WriterPcs, cacheVars, queueVars
  <1>17. CASE MaybeCleanup
    <2>1. db' \in Rows
      BY <1>17, WithoutType DEF MaybeCleanup, TypeOK
    <2> QED BY <1>17, <2>1, WriterTypes DEF MaybeCleanup, TypeOK, WriterPcs, cacheVars, queueVars
  <1>18. CASE Wait
    BY <1>18, WriterTypes DEF Wait, TypeOK, WriterPcs, cacheVars, queueVars
  <1> QED BY <1>1, <1>2, <1>3, <1>4, <1>5, <1>6, <1>7, <1>8, <1>9, <1>10, <1>11, <1>12,
             <1>13, <1>14, <1>15, <1>16, <1>17, <1>18 DEF Writer

LEMMA StutterType == TypeOK /\ UNCHANGED vars => TypeOK'
  BY DEF TypeOK, InUse, vars, slurmVars, cacheVars, poolVars, writerVars, queueVars, flagVars

LEMMA NextType == TypeOK /\ [Next]_vars => TypeOK'
  BY SlurmType, CacheType, PoolType, ClockType, WriterType, ReaderType, BackfillType,
     SubmitType, RestartType, StutterType DEF Next

\* Every reachable state of the store is well-typed, and the pool never hands
\* out more connections than it has.
THEOREM TypeCorrect == Spec => []TypeOK
  BY InitType, NextType, PTL DEF Spec

-----------------------------------------------------------------------------
(* The writer keeps the newest row of every key.                            *)

\* What makes NewestRowKept inductive: rows are in the hands of _flush only
\* between taking them and requeueing the failed ones, no row is in two
\* places, and the chunk being written row by row is part of the batch.
FlushOwnsBatch == pc \notin {"chunk", "rows"} => batch = NoRows /\ failed = NoRows
ChunkOfBatch == pc = "rows" => \A k \in chunk : batch[k] # NoRow
OnePlace == \A k \in Keys : batch[k] = NoRow \/ failed[k] = NoRow

QueueInv == TypeOK /\ FlushOwnsBatch /\ ChunkOfBatch /\ OnePlace /\ NewestRowKept

LEMMA QueueInit == Init => QueueInv
  <1> SUFFICES ASSUME Init PROVE QueueInv
    OBVIOUS
  <1>1. \A k \in Keys : NoRows[k] = NoRow
    BY DEF NoRows
  <1> QED BY <1>1, InitType DEF Init, QueueInv, FlushOwnsBatch, ChunkOfBatch, OnePlace,
                                NewestRowKept, Newest

\* Steps that leave the queue, the batch and the program counter alone.
LEMMA QueueFrame == ASSUME QueueInv, TypeOK', UNCHANGED <<pc, chunk, queueVars>>
                    PROVE  QueueInv'
  BY DEF QueueInv, FlushOwnsBatch, ChunkOfBatch, OnePlace, NewestRowKept, Newest, queueVars

\* Writer steps outside a flush that leave the queue alone.
LEMMA QueueMove ==
    ASSUME QueueInv, TypeOK', UNCHANGED queueVars,
           pc \notin {"chunk", "rows", "dead"}, pc' # "rows"
    PROVE  QueueInv'
  BY DEF QueueInv, FlushOwnsBatch, ChunkOfBatch, OnePlace, NewestRowKept, Newest, queueVars

\* Queueing rows puts the same rows over what is pending and what is owed.
LEMMA QueueAdd ==
    ASSUME QueueInv, TypeOK', NEW rows \in Rows, QueueRows(rows),
           UNCHANGED <<batch, failed, chunk>>,
           pc' = pc \/ (pc \notin {"chunk", "rows", "dead"} /\ pc' # "rows")
    PROVE  QueueInv'
  <1>1. FlushOwnsBatch' /\ ChunkOfBatch' /\ OnePlace'
    BY DEF QueueInv, FlushOwnsBatch, ChunkOfBatch, OnePlace
  <1>2. NewestRowKept'
    <2> SUFFICES ASSUME pc' # "dead", NEW k \in Keys PROVE Newest(k)' = owed'[k]
      BY DEF NewestRowKept
    <2>1. Newest(k) = owed[k]
      BY DEF QueueInv, NewestRowKept
    <2>2. /\ pending'[k] = (IF rows[k] # NoRow THEN rows[k] ELSE pending[k])
          /\ owed'[k] = (IF rows[k] # NoRow THEN rows[k] ELSE owed[k])
      BY DEF QueueRows, Overlay
    <2> QED BY <2>1, <2>2 DEF Newest
  <1> QED BY <1>1, <1>2 DEF QueueInv

LEMMA QueueTake == ASSUME QueueInv, TypeOK', FlushTake PROVE QueueInv'
  <1>1. batch = NoRows /\ failed = NoRows /\ \A k \in Keys : NoRows[k] = NoRow
    BY DEF QueueInv, FlushOwnsBatch, FlushTake, NoRows
  <1>2. FlushOwnsBatch' /\ ChunkOfBatch' /\ OnePlace'
    <2>1. CASE Present(pending) = {}
      <3>1. \A k \in Keys : pending[k] = NoRow
        BY <2>1 DEF Present
      <3>2. pending = NoRows
        BY <3>1 DEF QueueInv, TypeOK, Rows, NoRows
      <3> QED BY <1>1, <2>1, <3>2 DEF FlushTake, Goto, FlushOwnsBatch, ChunkOfBatch, OnePlace
    <2>2. CASE Present(pending) # {}
      BY <1>1, <2>2 DEF FlushTake, Goto, FlushOwnsBatch, ChunkOfBatch, OnePlace
    <2> QED BY <2>1, <2>2
  <1>3. NewestRowKept'
    BY <1>1 DEF QueueInv, FlushTake, NewestRowKept, Newest
  <1> QED BY <1>2, <1>3 DEF QueueInv

\* Writing rows of the batch: what is settled is exactly what was newest.
LEMMA QueueWritten ==
    ASSUME QueueInv, TypeOK', NEW ks \in SUBSET Keys, ks \subseteq Present(batch),
           pc \in {"chunk", "rows"}, pc' \in {"chunk", "rows"},
           pc' = "rows" => pc = "rows" /\ chunk' = chunk \ ks,
           batch' = Without(batch, ks), owed' = Settle(ks), UNCHANGED <<pending, failed>>
    PROVE  QueueInv'
  <1>1. \A k \in Keys : batch'[k] = (IF k \in ks THEN NoRow ELSE batch[k])
    BY DEF Without
  <1>2. FlushOwnsBatch' /\ ChunkOfBatch' /\ OnePlace'
    BY <1>1 DEF QueueInv, TypeOK, FlushOwnsBatch, ChunkOfBatch, OnePlace
  <1>3. NewestRowKept'
    <2> SUFFICES ASSUME NEW k \in Keys PROVE Newest(k)' = owed'[k]
      BY DEF NewestRowKept
    <2>1. Newest(k) = owed[k] /\ (batch[k] = NoRow \/ failed[k] = NoRow)
      BY DEF QueueInv, NewestRowKept, OnePlace
    <2>2. owed'[k] = (IF k \in ks /\ pending[k] = NoRow THEN NoRow ELSE owed[k])
      BY DEF Settle
    <2>3. k \in ks => batch[k] # NoRow
      BY DEF Present
    <2> QED BY <1>1, <2>1, <2>2, <2>3 DEF Newest
  <1> QED BY <1>2, <1>3 DEF QueueInv

LEMMA QueueRowFails ==
    ASSUME QueueInv, TypeOK', NEW k \in Keys, FlushRowFails(k)
    PROVE  QueueInv'
  <1>1. /\ pc = "rows" /\ k \in chunk /\ batch[k] # NoRow
        /\ failed' = [failed EXCEPT ![k] = batch[k]] /\ batch' = [batch EXCEPT ![k] = NoRow]
        /\ chunk' = chunk \ {k} /\ pc' \in {"chunk", "rows"} /\ UNCHANGED <<pending, owed>>
    BY DEF QueueInv, ChunkOfBatch, FlushRowFails, RowDone, Goto
  <1>2. batch \in Rows /\ failed \in Rows /\ chunk \subseteq Keys
    BY DEF QueueInv, TypeOK
  <1>3. \A x \in Keys : /\ batch'[x] = (IF x = k THEN NoRow ELSE batch[x])
                        /\ failed'[x] = (IF x = k THEN batch[k] ELSE failed[x])
    BY <1>1, <1>2 DEF Rows
  <1>4. FlushOwnsBatch' /\ ChunkOfBatch' /\ OnePlace'
    BY <1>1, <1>2, <1>3 DEF QueueInv, FlushOwnsBatch, ChunkOfBatch, OnePlace
  <1>5. NewestRowKept'
    <2> SUFFICES ASSUME NEW x \in Keys PROVE Newest(x)' = owed'[x]
      BY DEF NewestRowKept
    <2>1. Newest(x) = owed[x] /\ (batch[x] = NoRow \/ failed[x] = NoRow)
      BY <1>1 DEF QueueInv, NewestRowKept, OnePlace
    <2> QED BY <1>1, <1>3, <2>1 DEF Newest
  <1> QED BY <1>4, <1>5 DEF QueueInv

LEMMA QueueRequeue == ASSUME QueueInv, TypeOK', Requeue PROVE QueueInv'
  <1>1. \A k \in Keys : batch[k] = NoRow
    BY DEF Requeue, Present
  <1>2. batch = NoRows
    BY <1>1 DEF QueueInv, TypeOK, Rows, NoRows
  <1>3. FlushOwnsBatch' /\ ChunkOfBatch' /\ OnePlace'
    BY <1>2 DEF Requeue, Goto, FlushOwnsBatch, ChunkOfBatch, OnePlace, NoRows
  <1>4. NewestRowKept'
    <2> SUFFICES ASSUME NEW k \in Keys PROVE Newest(k)' = owed'[k]
      BY DEF NewestRowKept
    <2>1. Newest(k) = owed[k]
      BY DEF QueueInv, NewestRowKept, Requeue
    <2>2. pending'[k] = (IF pending[k] # NoRow THEN pending[k] ELSE failed[k])
      BY DEF Requeue, Requeued, Overlay
    <2>3. failed'[k] = NoRow /\ batch'[k] = NoRow /\ owed'[k] = owed[k]
      BY <1>1 DEF Requeue, NoRows
    <2> QED BY <1>1, <2>1, <2>2, <2>3 DEF Newest
  <1> QED BY <1>3, <1>4 DEF QueueInv

LEMMA QueueRestart == ASSUME QueueInv, TypeOK', Restart PROVE QueueInv'
  <1>1. \A k \in Keys : NoRows[k] = NoRow
    BY DEF NoRows
  <1> QED BY <1>1 DEF Restart, QueueInv, FlushOwnsBatch, ChunkOfBatch, OnePlace,
                      NewestRowKept, Newest

LEMMA QueueWriter == ASSUME QueueInv, TypeOK', Writer PROVE QueueInv'
  <1> USE DEF Goto
  <1>0. TypeOK
    BY DEF QueueInv
  <1>1. CASE InitPool \/ EnsurePartitions \/ SnapshotFails \/ ActiveRecords
             \/ Flushed \/ MaybeCleanup \/ Wait
    BY <1>1, QueueMove DEF InitPool, EnsurePartitions, SnapshotFails, ActiveRecords,
                           Flushed, MaybeCleanup, Wait, queueVars
  <1>2. CASE \E k \in Keys : RefreshRecord(k) \/ RefreshLookupFails(k)
    BY <1>2, QueueFrame DEF RefreshRecord, RefreshLookupFails, queueVars
  <1>3. CASE SnapshotQueue
    <2>1. (IF hit THEN cached ELSE Listing) \in Listings
      BY <1>0, ListingType DEF TypeOK
    <2> QED BY <1>3, <2>1, PrepareRowsType, QueueAdd DEF SnapshotQueue
  <1>4. CASE QueueReconciled
    <2>1. recon \in Rows
      BY <1>0 DEF TypeOK
    <2> QED BY <1>4, <2>1, QueueAdd DEF QueueReconciled
  <1>5. CASE FlushTake
    BY <1>5, QueueTake
  <1>6. CASE \E c \in Chunks : FlushChunkBulk(c)
    <2>1. PICK c \in Chunks : FlushChunkBulk(c)
      BY <1>6
    <2> QED BY <2>1, QueueWritten DEF FlushChunkBulk, Chunks, Present, writerVars
  <1>7. CASE \E c \in Chunks : FlushChunkBulkFails(c)
    BY <1>7 DEF FlushChunkBulkFails, Chunks, Present, QueueInv, FlushOwnsBatch, ChunkOfBatch,
                OnePlace, NewestRowKept, Newest, queueVars
  <1>8. CASE FlushChunkNoConn
    BY <1>8 DEF FlushChunkNoConn, QueueInv, FlushOwnsBatch, ChunkOfBatch, OnePlace,
                NewestRowKept, NoRows
  <1>9. CASE \E k \in Keys : FlushRow(k)
    <2>1. PICK k \in Keys : FlushRow(k)
      BY <1>9
    <2>2. {k} \subseteq Present(batch) /\ batch' = Without(batch, {k})
      BY <1>0, <2>1 DEF FlushRow, RowDone, Present, Without, QueueInv, ChunkOfBatch, TypeOK, Rows
    <2> QED BY <2>1, <2>2, QueueWritten DEF FlushRow, RowDone
  <1>10. CASE \E k \in Keys : FlushRowFails(k)
    BY <1>10, QueueRowFails
  <1>11. CASE Requeue
    BY <1>11, QueueRequeue
  <1> QED BY <1>1, <1>2, <1>3, <1>4, <1>5, <1>6, <1>7, <1>8, <1>9, <1>10, <1>11 DEF Writer

LEMMA QueueSubmit == ASSUME QueueInv, TypeOK', NEW j \in JobIds, SubmitRows(j) PROVE QueueInv'
  <1> DEFINE L == [k \in Keys |-> IF k[1] = j THEN Listing[k] ELSE "none"]
  <1>1. L \in Listings
    <2>1. Listing \in [Keys -> JobState] /\ "none" \in JobState
      BY ListingType DEF QueueInv, Listings, JobState
    <2> QED BY <2>1 DEF Listings
  <1>2. PrepareRows(L) \in Rows
    BY <1>1, PrepareRowsType
  <1> QED BY <1>2, QueueAdd DEF SubmitRows, writerVars

LEMMA QueueNext == QueueInv /\ [Next]_vars => QueueInv'
  <1> SUFFICES ASSUME QueueInv, [Next]_vars PROVE QueueInv'
    OBVIOUS
  <1>0. TypeOK'
    BY NextType DEF QueueInv
  <1>1. CASE Slurm \/ ListingCache \/ Pool \/ Clock \/ Reader \/ Backfill \/ Stopping
             \/ UNCHANGED vars
    <2>1. UNCHANGED <<pc, chunk, queueVars>>
      BY <1>1 DEF Slurm, SlurmFrame, ListingCache, CacheFrame, Pool, Clock, Stopping,
                  Reader, ReadRecord, EnrichLookup, EnrichGivesUp, EnrichWrite, ReaderFrame,
                  Backfill, BackfillSelect, BackfillCommit, BackfillDetail, BackfillSkip,
                  BackfillFrame, vars, writerVars
    <2> QED BY <1>0, <2>1, QueueFrame
  <1>2. CASE Writer
    BY <1>0, <1>2, QueueWriter
  <1>3. CASE \E j \in JobIds : SubmitRows(j)
    BY <1>0, <1>3, QueueSubmit
  <1>4. CASE Restart
    BY <1>0, <1>4, QueueRestart
  <1> QED BY <1>1, <1>2, <1>3, <1>4 DEF Next

\* However many jobs there are, however they are chunked and whatever statement
\* fails, the newest row queued for a key is the one _flush still holds or has
\* committed, until the writer thread ends on a getconn() error.
THEOREM NewestRowIsKept == Spec => []NewestRowKept
  <1>1. QueueInv => NewestRowKept
    BY DEF QueueInv
  <1> QED BY <1>1, QueueInit, QueueNext, PTL DEF Spec

-----------------------------------------------------------------------------
(* The table is a job history.                                              *)

\* What may be told of a job in state j: what it is or was, or COMPLETED when
\* nothing more is known of its end, or a listing was stale.
Told(j, s) ==
    s \in {"ACTIVE"} \union (IF j \in Terminal THEN {j, "COMPLETED"}
                             ELSE IF "cache" \in Enabled THEN {"COMPLETED"} ELSE {})

\* Usage that may be known of it, and a row that may be held or stored.
Measured(j, k, u) == u = NoUsage \/ (u \in Usage /\ u.of = k[2] /\ (u.final => j \in Terminal))
RowTrue(j, k, row) == row = NoRow \/ (j # "none" /\ Told(j, row.state) /\ Measured(j, k, row.usage))
RowsTrue(rows) == \A k \in Keys : RowTrue(job[k], k, rows[k])

\* Slurm moves forward: of an identifier, the incarnations up to the current one
\* were submitted, those before it have ended, and so has one that is forgotten.
SlurmTrue ==
    /\ \A k \in Keys : job[k] = "none" <=> k[2] > cur[k[1]]
    /\ \A k \in Keys : k[2] < cur[k[1]] => job[k] \in Terminal
    /\ \A k \in Keys : k[2] = cur[k[1]] => k[1] \in listed \/ job[k] \in Terminal

\* A listing or an accounting record tells what a job is or was.
Tells(j, s) == j # "none" /\ s \in {"ACTIVE", j}
ListingTrue(l) == \A k \in Keys : l[k] # "none" => Tells(job[k], l[k])
AcctTrue == \A k \in Keys : acct[k[1]].sub = k[2] => Tells(job[k], acct[k[1]].state)

ReadersTrue ==
    \A r \in Readers :
        /\ RowTrue(job[rd[r].key], rd[r].key, rd[r].row)
        /\ rd[r].pc # "idle" => job[rd[r].key] # "none"
        /\ rd[r].pc = "write" => rd[r].row # NoRow
BackfillTrue == \A k \in Keys : Measured(job[k], k, bf.upd[k])

\* Stored, or about to be stored again by an enrichment.
Recorded(k) == db[k] # NoRow \/ \E r \in Readers : rd[r].pc # "idle" /\ rd[r].key = k

\* Without the cache, a job is missing from the listing only when it has ended:
\* so have the jobs the reconciliation is about.
FreshTrue ==
    "cache" \notin Enabled =>
        /\ ~hit /\ ~filling
        /\ pc = "active" => \A k \in Keys : job[k] = "ACTIVE" /\ Recorded(k) => k \in current
        /\ \A k \in Keys : recs[k] # NoRow => job[k] \in Terminal

MemoryTrue ==
    /\ RowsTrue(pending) /\ RowsTrue(batch) /\ RowsTrue(failed) /\ RowsTrue(recs) /\ RowsTrue(recon)

TruthInv ==
    /\ SlurmTrue /\ AcctTrue /\ ListingTrue(cached) /\ ListingTrue(fill)
    /\ RowsTrue(db) /\ MemoryTrue /\ ReadersTrue /\ BackfillTrue /\ FreshTrue

\* A job goes from none to ACTIVE to its end.
Forward(j, i) == i = j \/ (j = "none" /\ i = "ACTIVE") \/ (j = "ACTIVE" /\ i \in Terminal)

\* What is true of a job stays true as it moves forward.
LEMMA StaysMeasured ==
    ASSUME NEW j, NEW i, NEW k, NEW u, Forward(j, i), Measured(j, k, u)
    PROVE  Measured(i, k, u)
  BY DEF Forward, Measured, Terminal

LEMMA StaysTrue ==
    ASSUME NEW j, NEW i, NEW k, NEW row, Forward(j, i), RowTrue(j, k, row)
    PROVE  RowTrue(i, k, row)
  <1>1. CASE row = NoRow
    BY <1>1 DEF RowTrue
  <1>2. CASE row # NoRow
    <2>1. j # "none" /\ Told(j, row.state) /\ Measured(j, k, row.usage)
      BY <1>2 DEF RowTrue
    <2>2. i # "none" /\ Told(i, row.state)
      BY <2>1 DEF Forward, Told, Terminal
    <2> QED BY <2>1, <2>2, StaysMeasured DEF RowTrue
  <1> QED BY <1>1, <1>2

LEMMA StaysTold ==
    ASSUME NEW j, NEW i, NEW s, Forward(j, i), Tells(j, s)
    PROVE  Tells(i, s)
  BY DEF Forward, Tells, Terminal

\* A listed job gives a row that is true of it.
LEMMA TellsRow ==
    ASSUME NEW j, NEW k, NEW s, Tells(j, s), j \in JobState
    PROVE  RowTrue(j, k, [state |-> s, usage |-> NoUsage])
  BY DEF Tells, RowTrue, Told, Measured, JobState

LEMMA PrepareTrue ==
    ASSUME TypeOK, NEW l \in Listings, ListingTrue(l)
    PROVE  RowsTrue(PrepareRows(l))
  <1> SUFFICES ASSUME NEW k \in Keys PROVE RowTrue(job[k], k, PrepareRows(l)[k])
    BY DEF RowsTrue
  <1>1. job[k] \in JobState
    BY DEF TypeOK, Listings
  <1>2. CASE l[k] = "none"
    BY <1>2 DEF PrepareRows, RowTrue
  <1>3. CASE l[k] # "none"
    <2>1. Tells(job[k], l[k])
      BY <1>3 DEF ListingTrue
    <2>2. PrepareRows(l)[k] = [state |-> l[k], usage |-> NoUsage]
      BY <1>3 DEF PrepareRows
    <2> QED BY <1>1, <2>1, <2>2, TellsRow
  <1> QED BY <1>2, <1>3

LEMMA ListingIsTrue == ListingTrue(Listing)
  BY DEF ListingTrue, Listing, Tells

LEMMA OverlayTrue ==
    ASSUME NEW a, NEW b, RowsTrue(a), RowsTrue(b)
    PROVE  RowsTrue(Overlay(a, b))
  BY DEF RowsTrue, Overlay

LEMMA WithoutTrue ==
    ASSUME NEW a, NEW ks, RowsTrue(a)
    PROVE  RowsTrue(Without(a, ks))
  BY DEF RowsTrue, Without, RowTrue

LEMMA UpsertTrue ==
    ASSUME NEW j, NEW k, NEW old, NEW new, RowTrue(j, k, old), RowTrue(j, k, new), new # NoRow
    PROVE  RowTrue(j, k, Upsert(old, new))
  <1>1. Upsert(old, new).state = new.state
    BY DEF Upsert
  <1>2. Measured(j, k, Upsert(old, new).usage)
    BY DEF Upsert, RowTrue, Measured, NoRow
  <1> QED BY <1>1, <1>2 DEF RowTrue

LEMMA UpsertAllTrue ==
    ASSUME NEW a, NEW b, NEW ks, RowsTrue(a), RowsTrue(b), \A k \in Keys : k \in ks => b[k] # NoRow
    PROVE  RowsTrue(UpsertAll(a, b, ks))
  <1> SUFFICES ASSUME NEW k \in Keys PROVE RowTrue(job[k], k, UpsertAll(a, b, ks)[k])
    BY DEF RowsTrue
  <1>1. RowTrue(job[k], k, a[k]) /\ RowTrue(job[k], k, b[k])
    BY DEF RowsTrue
  <1>2. UpsertAll(a, b, ks)[k] = IF k \in ks THEN Upsert(a[k], b[k]) ELSE a[k]
    BY DEF UpsertAll
  <1> QED BY <1>1, <1>2, UpsertTrue

\* The accounting record of the same submit time gives a true row.
LEMMA DetailTrue ==
    ASSUME TypeOK, AcctTrue, NEW k \in Keys, SameIncarnation(k), NEW u \in DetailUsages(k[1])
    PROVE  /\ job[k] # "none" /\ Measured(job[k], k, u)
           /\ RowTrue(job[k], k, ExtractDetail(k[1], u)) /\ ExtractDetail(k[1], u) # NoRow
  <1>1. k[1] \in JobIds /\ k[2] \in 1..MaxInst /\ job[k] \in JobState
    BY KeyParts DEF TypeOK, Listings
  <1>2. acct[k[1]].sub = k[2] /\ Tells(job[k], acct[k[1]].state)
    BY DEF SameIncarnation, AcctTrue
  <1>3. u \in Usage
    BY <1>1, DetailTypes
  <1>4. acct[k[1]].state # "ACTIVE" => job[k] \in Terminal
    BY <1>1, <1>2 DEF Tells, JobState
  <1>5. Measured(job[k], k, u)
    BY <1>2, <1>3, <1>4 DEF DetailUsages, Measured
  <1>6. Told(job[k], acct[k[1]].state) /\ job[k] # "none" /\ acct[k[1]].state # "none"
    BY <1>1, <1>2 DEF Tells, Told, JobState
  <1> QED BY <1>5, <1>6 DEF ExtractDetail, RowTrue, NoRow

\* The COMPLETED fallback: the job has ended, or the listing may be stale.
LEMMA CompleteTrue ==
    ASSUME NEW j, NEW k, NEW row \in Row, RowTrue(j, k, row), row # NoRow,
           "cache" \notin Enabled => j \in Terminal
    PROVE  RowTrue(j, k, CompleteMissingJob(row))
  <1>1. CompleteMissingJob(row).state = "COMPLETED" /\ CompleteMissingJob(row).usage = row.usage
    BY DEF CompleteMissingJob, Row
  <1>2. Told(j, "COMPLETED")
    BY DEF Told
  <1> QED BY <1>1, <1>2 DEF RowTrue

\* Well-typed values of the tables, for the lemmas above.
LEMMA RowTypes ==
    ASSUME TypeOK, NEW k \in Keys
    PROVE  /\ job[k] \in JobState /\ cached[k] \in JobState /\ fill[k] \in JobState
           /\ db[k] \in Row /\ recs[k] \in Row /\ bf.upd[k] \in Usage
  BY DEF TypeOK, Listings, Rows

LEMMA TruthInit == Init => TruthInv
  <1> SUFFICES ASSUME Init PROVE TruthInv
    OBVIOUS
  <1>1. RowsTrue(NoRows)
    BY DEF RowsTrue, NoRows, RowTrue
  <1>2. SlurmTrue
    BY DEF Init, SlurmTrue, Keys
  <1>3. AcctTrue
    BY DEF Init, AcctTrue, Keys
  <1>4. ReadersTrue
    BY DEF Init, ReadersTrue, IdleReader, RowTrue
  <1>5. BackfillTrue
    BY DEF Init, BackfillTrue, IdleBackfill, NoUpdates, Measured
  <1>6. FreshTrue
    BY DEF Init, FreshTrue, NoRows
  <1> QED BY <1>1, <1>2, <1>3, <1>4, <1>5, <1>6
          DEF Init, TruthInv, MemoryTrue, ListingTrue, NoListing

\* A step of Slurm moves one job forward, and the listing with it.
LEMMA SlurmForward ==
    ASSUME TypeOK, TruthInv, Slurm, NEW k \in Keys
    PROVE  Forward(job[k], job'[k])
  <1>1. PICK j \in JobIds : \/ SlurmSubmit(j) \/ (\E s \in Ends : SlurmEnd(j, s))
                            \/ SlurmForget(j) \/ AcctSync(j)
    BY DEF Slurm
  <1>2. job \in [Keys -> JobState] /\ cur[j] \in Nat
    BY DEF TypeOK, Listings
  <1>3. CASE SlurmSubmit(j)
    <2>1. job' = [job EXCEPT ![<<j, cur[j] + 1>>] = "ACTIVE"]
      BY <1>3 DEF SlurmSubmit
    <2>2. k = <<j, cur[j] + 1>> => job[k] = "none"
      BY <1>2 DEF TruthInv, SlurmTrue
    <2> QED BY <1>2, <2>1, <2>2 DEF Forward
  <1>4. CASE \E s \in Ends : SlurmEnd(j, s)
    BY <1>2, <1>4 DEF SlurmEnd, Forward
  <1>5. CASE SlurmForget(j) \/ AcctSync(j)
    BY <1>5 DEF SlurmForget, AcctSync, Forward
  <1> QED BY <1>1, <1>3, <1>4, <1>5

LEMMA SlurmStaysTrue == ASSUME TypeOK, TruthInv, Slurm PROVE SlurmTrue' /\ AcctTrue'
  <1>1. PICK j \in JobIds : \/ SlurmSubmit(j) \/ (\E s \in Ends : SlurmEnd(j, s))
                            \/ SlurmForget(j) \/ AcctSync(j)
    BY DEF Slurm
  <1>2. job \in [Keys -> JobState] /\ cur \in [JobIds -> 0..MaxInst] /\ listed \subseteq JobIds
    BY DEF TypeOK, Listings
  <1>3. \A k \in Keys : k[1] \in JobIds /\ k[2] \in 1..MaxInst /\ k = <<k[1], k[2]>>
    BY KeyParts
  <1>4. SlurmTrue /\ AcctTrue
    BY DEF TruthInv
  <1>5. CASE SlurmSubmit(j)
    <2>1. /\ cur[j] < MaxInst /\ cur' = [cur EXCEPT ![j] = cur[j] + 1]
          /\ job' = [job EXCEPT ![<<j, cur[j] + 1>>] = "ACTIVE"] /\ listed' = listed \union {j}
          /\ cur[j] > 0 => job[<<j, cur[j]>>] # "ACTIVE"
      BY <1>5 DEF SlurmSubmit
    <2>2. \A k \in Keys : /\ job'[k] = IF k = <<j, cur[j] + 1>> THEN "ACTIVE" ELSE job[k]
                          /\ cur'[k[1]] = IF k[1] = j THEN cur[j] + 1 ELSE cur[k[1]]
      BY <1>2, <1>3, <2>1
    <2>3. \A k \in Keys : k[1] = j /\ k[2] = cur[j] => job[k] \in Terminal
      <3> SUFFICES ASSUME NEW k \in Keys, k[1] = j, k[2] = cur[j] PROVE job[k] \in Terminal
        OBVIOUS
      <3>1. k = <<j, cur[j]>> /\ cur[j] > 0
        BY <1>3
      <3>2. job[k] # "ACTIVE" /\ job[k] # "none" /\ job[k] \in JobState
        BY <1>2, <1>4, <2>1, <3>1 DEF SlurmTrue
      <3> QED BY <3>2 DEF JobState
    <2>4. SlurmTrue'
      <3> SUFFICES ASSUME NEW k \in Keys
                   PROVE  /\ job'[k] = "none" <=> k[2] > cur'[k[1]]
                          /\ k[2] < cur'[k[1]] => job'[k] \in Terminal
                          /\ k[2] = cur'[k[1]] => k[1] \in listed' \/ job'[k] \in Terminal
        BY DEF SlurmTrue
      <3>1. /\ job'[k] = IF k = <<j, cur[j] + 1>> THEN "ACTIVE" ELSE job[k]
            /\ cur'[k[1]] = IF k[1] = j THEN cur[j] + 1 ELSE cur[k[1]]
            /\ k[1] = j /\ k[2] = cur[j] => job[k] \in Terminal
        BY <2>2, <2>3
      <3>2. /\ job[k] = "none" <=> k[2] > cur[k[1]]
            /\ k[2] < cur[k[1]] => job[k] \in Terminal
            /\ k[2] = cur[k[1]] => k[1] \in listed \/ job[k] \in Terminal
        BY <1>4 DEF SlurmTrue
      <3>3. k[1] \in JobIds /\ k[2] \in Nat /\ cur[k[1]] \in Nat /\ k = <<k[1], k[2]>>
        BY <1>2, <1>3
      <3>4. CASE k[1] = j /\ k[2] = cur[j] + 1
        BY <2>1, <3>1, <3>3, <3>4
      <3>5. CASE k[1] = j /\ k[2] # cur[j] + 1
        BY <2>1, <3>1, <3>2, <3>3, <3>5
      <3>6. CASE k[1] # j
        BY <2>1, <3>1, <3>2, <3>3, <3>6
      <3> QED BY <3>4, <3>5, <3>6
    <2>5. AcctTrue'
      <3>1. \A k \in Keys : acct[k[1]].sub = k[2] => job'[k] = job[k]
        BY <1>2, <1>4, <2>2 DEF AcctTrue, Tells, SlurmTrue
      <3>2. acct' = acct
        BY <1>5 DEF SlurmSubmit
      <3> QED BY <1>4, <3>1, <3>2 DEF AcctTrue
    <2> QED BY <2>4, <2>5
  <1>6. CASE \E s \in Ends : SlurmEnd(j, s)
    <2>1. PICK s \in Terminal : /\ cur[j] > 0 /\ job[<<j, cur[j]>>] = "ACTIVE"
                                /\ job' = [job EXCEPT ![<<j, cur[j]>>] = s]
                                /\ UNCHANGED <<cur, listed, acct>>
      BY <1>6 DEF SlurmEnd
    <2>2. \A k \in Keys : job'[k] = IF k = <<j, cur[j]>> THEN s ELSE job[k]
      BY <1>2, <2>1
    <2>3. SlurmTrue'
      BY <1>3, <1>4, <2>1, <2>2 DEF SlurmTrue, Terminal
    <2>4. \A k \in Keys : Forward(job[k], job'[k])
      BY <2>1, <2>2 DEF Forward
    <2> QED BY <1>4, <2>1, <2>3, <2>4, StaysTold DEF AcctTrue
  <1>7. CASE SlurmForget(j)
    <2>1. /\ j \in listed /\ job[<<j, cur[j]>>] # "ACTIVE" /\ listed' = listed \ {j}
          /\ UNCHANGED <<job, cur, acct>>
      BY <1>7 DEF SlurmForget
    <2>2. \A k \in Keys : k[1] = j /\ k[2] = cur[j] => job[k] \in Terminal
      <3> SUFFICES ASSUME NEW k \in Keys, k[1] = j, k[2] = cur[j] PROVE job[k] \in Terminal
        OBVIOUS
      <3>1. job[k] # "ACTIVE" /\ job[k] # "none" /\ job[k] \in JobState
        BY <1>2, <1>3, <1>4, <2>1 DEF SlurmTrue
      <3> QED BY <3>1 DEF JobState
    <2> QED BY <1>3, <1>4, <2>1, <2>2 DEF SlurmTrue, AcctTrue
  <1>8. CASE AcctSync(j)
    <2> DEFINE now == [sub |-> cur[j], state |-> job[<<j, cur[j]>>]]
    <2>1. /\ cur[j] > 0 /\ acct' = [acct EXCEPT ![j] = now]
          /\ UNCHANGED <<job, cur, listed>>
      BY <1>8 DEF AcctSync
    <2>2. \A k \in Keys : acct'[k[1]] = IF k[1] = j THEN now ELSE acct[k[1]]
      BY <1>3, <2>1 DEF TypeOK
    <2>3. \A k \in Keys : k[1] = j /\ k[2] = cur[j] => k = <<j, cur[j]>> /\ job[k] # "none"
      BY <1>2, <1>3, <1>4 DEF SlurmTrue
    <2>4. AcctTrue'
      BY <1>4, <2>1, <2>2, <2>3 DEF AcctTrue, Tells
    <2> QED BY <1>4, <2>1, <2>4 DEF SlurmTrue
  <1> QED BY <1>1, <1>5, <1>6, <1>7, <1>8

LEMMA TruthSlurm == ASSUME TypeOK, TruthInv, Slurm PROVE TruthInv'
  <1>1. UNCHANGED <<cached, fill, hit, filling, db, pending, batch, failed, recs, recon,
                    rd, bf, pc, current>>
    BY DEF Slurm, SlurmFrame, cacheVars, writerVars, queueVars
  <1>2. \A k \in Keys : Forward(job[k], job'[k])
    BY SlurmForward
  <1>3. RowsTrue(db)' /\ MemoryTrue'
    BY <1>1, <1>2, StaysTrue DEF TruthInv, MemoryTrue, RowsTrue
  <1>4. ListingTrue(cached)' /\ ListingTrue(fill)'
    BY <1>1, <1>2, StaysTold DEF TruthInv, ListingTrue
  <1>5. ReadersTrue'
    <2> SUFFICES ASSUME NEW r \in Readers
                 PROVE  /\ RowTrue(job'[rd[r].key], rd[r].key, rd[r].row)
                        /\ rd[r].pc # "idle" => job'[rd[r].key] # "none"
                        /\ rd[r].pc = "write" => rd[r].row # NoRow
      BY <1>1 DEF ReadersTrue
    <2>1. rd[r].key \in Keys
      BY DEF TypeOK
    <2>2. Forward(job[rd[r].key], job'[rd[r].key])
      BY <1>2, <2>1
    <2>3. /\ RowTrue(job[rd[r].key], rd[r].key, rd[r].row)
          /\ rd[r].pc # "idle" => job[rd[r].key] # "none"
          /\ rd[r].pc = "write" => rd[r].row # NoRow
      BY DEF TruthInv, ReadersTrue
    <2>4. rd[r].pc # "idle" => job'[rd[r].key] # "none"
      BY <2>2, <2>3 DEF Forward, Terminal
    <2> QED BY <2>2, <2>3, <2>4, StaysTrue
  <1>6. BackfillTrue'
    BY <1>1, <1>2, StaysMeasured DEF TruthInv, BackfillTrue
  <1>7. FreshTrue'
    <2> SUFFICES ASSUME "cache" \notin Enabled PROVE FreshTrue'
      BY DEF FreshTrue
    <2>1. \A k \in Keys : Recorded(k)' = Recorded(k)
      BY <1>1 DEF Recorded
    <2>2. \A k \in Keys : Recorded(k) => job[k] # "none"
      BY DEF TruthInv, RowsTrue, RowTrue, ReadersTrue, Recorded
    <2>3. \A k \in Keys : job[k] \in Terminal => job'[k] \in Terminal
      BY <1>2 DEF Forward, Terminal
    <2>4. \A k \in Keys : job[k] # "none" /\ job'[k] = "ACTIVE" => job[k] = "ACTIVE"
      BY <1>2 DEF Forward, Terminal
    <2>5. \A k \in Keys : recs'[k] # NoRow => job'[k] \in Terminal
      BY <1>1, <2>3 DEF TruthInv, FreshTrue
    <2>6. pc' = "active" => \A k \in Keys : job'[k] = "ACTIVE" /\ Recorded(k)' => k \in current'
      BY <1>1, <2>1, <2>2, <2>4 DEF TruthInv, FreshTrue
    <2> QED BY <1>1, <2>5, <2>6 DEF TruthInv, FreshTrue
  <1> QED BY <1>3, <1>4, <1>5, <1>6, <1>7, SlurmStaysTrue DEF TruthInv


LEMMA TruthCache == ASSUME TruthInv, ListingCache PROVE TruthInv'
  <1>1. /\ UNCHANGED <<job, cur, listed, acct>> /\ UNCHANGED <<pending, batch, failed, recs, recon>>
        /\ UNCHANGED <<db, rd, bf, pc, current>>
    BY DEF ListingCache, CacheFrame, slurmVars, writerVars, queueVars
  <1>2. ListingTrue(NoListing) /\ ListingTrue(Listing) /\ ListingTrue(cached) /\ ListingTrue(fill)
    BY ListingIsTrue DEF ListingTrue, NoListing, TruthInv
  <1>3. ListingTrue(cached') /\ ListingTrue(fill')
    BY <1>2 DEF ListingCache, CacheExpire, FillFetch, FillPut
  <1>4. "cache" \notin Enabled => ~hit' /\ ~filling'
    BY DEF TruthInv, FreshTrue, ListingCache, CacheExpire, FillFetch, FillPut
  <1>5. ListingTrue(cached)' /\ ListingTrue(fill)'
    BY <1>1, <1>3 DEF ListingTrue
  <1>6. FreshTrue'
    BY <1>1, <1>4 DEF TruthInv, FreshTrue, Recorded
  <1>7. SlurmTrue' /\ AcctTrue' /\ RowsTrue(db)' /\ MemoryTrue'
    BY <1>1 DEF TruthInv, SlurmTrue, AcctTrue, MemoryTrue, RowsTrue
  <1>8. ReadersTrue' /\ BackfillTrue'
    BY <1>1 DEF TruthInv, ReadersTrue, BackfillTrue
  <1> QED BY <1>5, <1>6, <1>7, <1>8 DEF TruthInv

\* Steps that change nothing the truth is about.
LEMMA TruthFrame ==
    ASSUME TruthInv, UNCHANGED <<slurmVars, cacheVars, db, rd, bf>>,
           UNCHANGED <<pending, batch, failed, recs, recon, pc, current>>
    PROVE  TruthInv'
  BY DEF TruthInv, SlurmTrue, AcctTrue, ListingTrue, RowsTrue, MemoryTrue, ReadersTrue,
         BackfillTrue, FreshTrue, Recorded, slurmVars, cacheVars

\* What a writer step must keep true.
LEMMA TruthWriterFrame ==
    ASSUME TruthInv, WriterFrame, UNCHANGED <<fill, filling>>, ListingTrue(cached'),
           RowsTrue(db'), RowsTrue(pending'), RowsTrue(batch'), RowsTrue(failed'),
           RowsTrue(recs'), RowsTrue(recon'),
           "cache" \notin Enabled => ~hit',
           "cache" \notin Enabled /\ pc' = "active" =>
               \A k \in Keys : job[k] = "ACTIVE" => k \in current',
           "cache" \notin Enabled =>
               \A k \in Keys : recs'[k] # NoRow => job[k] \in Terminal
    PROVE  TruthInv'
  <1>1. UNCHANGED <<job, cur, listed, acct, rd, bf>>
    BY DEF WriterFrame, slurmVars
  <1>2. ListingTrue(cached)' /\ ListingTrue(fill)'
    BY <1>1 DEF TruthInv, ListingTrue
  <1>3. RowsTrue(db)' /\ MemoryTrue'
    BY <1>1 DEF MemoryTrue, RowsTrue
  <1>4. SlurmTrue' /\ AcctTrue' /\ ReadersTrue' /\ BackfillTrue'
    BY <1>1 DEF TruthInv, SlurmTrue, AcctTrue, ReadersTrue, BackfillTrue
  <1>5. FreshTrue'
    BY <1>1 DEF TruthInv, FreshTrue
  <1> QED BY <1>2, <1>3, <1>4, <1>5 DEF TruthInv

\* A listing that is not cached has every running job.
LEMMA ListingHasActive ==
    ASSUME TypeOK, TruthInv, NEW k \in Keys, job[k] = "ACTIVE"
    PROVE  k \in Present(PrepareRows(Listing))
  <1>1. k[1] \in JobIds /\ k[2] \in 1..MaxInst /\ cur[k[1]] \in 0..MaxInst
    BY KeyParts DEF TypeOK
  <1>2. k[1] \in listed /\ k[2] = cur[k[1]]
    BY <1>1 DEF TruthInv, SlurmTrue, Terminal
  <1>3. PrepareRows(Listing)[k] = [state |-> "ACTIVE", usage |-> NoUsage]
    BY <1>2 DEF PrepareRows, Listing
  <1> QED BY <1>3 DEF Present, NoRow

LEMMA TruthSnapshot == ASSUME TypeOK, TruthInv, SnapshotQueue PROVE TruthInv'
  <1> DEFINE jobs == IF hit THEN cached ELSE Listing
             rows == PrepareRows(jobs)
  <1>1. jobs \in Listings /\ ListingTrue(jobs)
    BY ListingType, ListingIsTrue DEF TypeOK, TruthInv
  <1>2. "cache" \notin Enabled => jobs = Listing
    BY DEF TruthInv, FreshTrue
  <1>3. RowsTrue(rows)
    BY <1>1, PrepareTrue
  <1>4. QueueRows(rows) /\ current' = Present(rows)
        /\ cached' = (IF "cache" \in Enabled THEN jobs ELSE cached)
    BY DEF SnapshotQueue
  <1>5. "cache" \notin Enabled => \A k \in Keys : job[k] = "ACTIVE" => k \in current'
    BY <1>2, <1>4, ListingHasActive
  <1>6. ListingTrue(cached')
    BY <1>1, <1>4 DEF TruthInv
  <1> HIDE DEF jobs, rows
  <1>7. RowsTrue(pending')
    BY <1>3, <1>4, OverlayTrue DEF QueueRows, TruthInv, MemoryTrue
  <1>8. /\ UNCHANGED <<fill, filling, batch, failed, db, recs, recon>> /\ WriterFrame
        /\ "cache" \notin Enabled => ~hit'
    BY DEF SnapshotQueue
  <1> QED BY <1>5, <1>6, <1>7, <1>8, TruthWriterFrame DEF TruthInv, MemoryTrue, FreshTrue

\* The records to reconcile are of jobs that have ended, without the cache.
LEMMA TruthActive == ASSUME TypeOK, TruthInv, ActiveRecords PROVE TruthInv'
  <1>1. UNCHANGED <<cacheVars, queueVars, db, recon>> /\ WriterFrame
        /\ pc = "active" /\ pc' # "active"
    BY DEF ActiveRecords, Goto
  <1>2. \A k \in Keys : recs'[k] \in {NoRow, recs[k]} \/ (MissingActive(k) /\ recs'[k] = db[k])
    BY DEF ActiveRecords
  <1>3. RowsTrue(recs')
    BY <1>2 DEF TruthInv, MemoryTrue, RowsTrue, RowTrue
  <1>4. ASSUME "cache" \notin Enabled, NEW k \in Keys, recs'[k] # NoRow
        PROVE  job[k] \in Terminal
    <2>1. CASE recs[k] # NoRow
      BY <1>4, <2>1 DEF TruthInv, FreshTrue
    <2>2. CASE MissingActive(k) /\ recs'[k] = db[k]
      <3>1. Recorded(k) /\ k \notin current
        BY <1>4, <2>2 DEF Recorded, MissingActive
      <3>2. job[k] # "ACTIVE"
        BY <1>1, <1>4, <3>1 DEF TruthInv, FreshTrue
      <3>3. job[k] # "none" /\ job[k] \in JobState
        BY <1>4, <2>2, RowTypes DEF TruthInv, RowsTrue, RowTrue
      <3> QED BY <3>2, <3>3 DEF JobState
    <2> QED BY <1>2, <1>4, <2>1, <2>2
  <1> QED BY <1>1, <1>3, <1>4, TruthWriterFrame
          DEF TruthInv, MemoryTrue, FreshTrue, cacheVars, queueVars

LEMMA TruthRefresh == ASSUME TypeOK, TruthInv, NEW k \in Keys, RefreshRecord(k) PROVE TruthInv'
  <1>1. PICK row \in RefreshedRows(k) : recon' = [recon EXCEPT ![k] = row]
    BY DEF RefreshRecord
  <1>2. RowTrue(job[k], k, row)
    <2>1. recs[k] \in Row /\ recs[k] # NoRow /\ RowTrue(job[k], k, recs[k])
      BY RowTypes DEF RefreshRecord, TruthInv, MemoryTrue, RowsTrue
    <2>2. "cache" \notin Enabled => job[k] \in Terminal
      BY <2>1 DEF TruthInv, FreshTrue
    <2>3. CASE row = CompleteMissingJob(recs[k])
      BY <2>1, <2>2, <2>3, CompleteTrue
    <2>4. CASE SameIncarnation(k) /\ \E u \in DetailUsages(k[1]) : row = ExtractDetail(k[1], u)
      BY <2>4, DetailTrue DEF TruthInv
    <2> QED BY <1>1, <2>3, <2>4 DEF RefreshedRows
  <1>3. recon \in Rows /\ recs \in Rows
    BY DEF TypeOK
  <1>4. RowsTrue(recon')
    BY <1>1, <1>2, <1>3 DEF RowsTrue, Rows, TruthInv, MemoryTrue
  <1>5. recs' = [recs EXCEPT ![k] = NoRow] /\ UNCHANGED <<cacheVars, queueVars, db, pc>>
        /\ WriterFrame /\ pc # "active"
    BY DEF RefreshRecord
  <1>6. \A x \in Keys : recs'[x] \in {NoRow, recs[x]}
    BY <1>3, <1>5 DEF Rows
  <1>7. RowsTrue(recs')
    BY <1>6 DEF RowsTrue, RowTrue, TruthInv, MemoryTrue
  <1> QED BY <1>4, <1>5, <1>6, <1>7, TruthWriterFrame
          DEF TruthInv, MemoryTrue, FreshTrue, cacheVars, queueVars

LEMMA TruthLookupFails ==
    ASSUME TypeOK, TruthInv, NEW k \in Keys, RefreshLookupFails(k) PROVE TruthInv'
  <1>1. recs' = [recs EXCEPT ![k] = NoRow] /\ recs \in Rows /\ pc # "active"
        /\ UNCHANGED <<cacheVars, queueVars, db, pc, recon>> /\ WriterFrame
    BY DEF RefreshLookupFails, TypeOK
  <1>2. \A x \in Keys : recs'[x] \in {NoRow, recs[x]}
    BY <1>1 DEF Rows
  <1>3. RowsTrue(recs')
    BY <1>2 DEF RowsTrue, RowTrue, TruthInv, MemoryTrue
  <1> QED BY <1>1, <1>2, <1>3, TruthWriterFrame
          DEF TruthInv, MemoryTrue, FreshTrue, cacheVars, queueVars

\* Steps of _flush: the rows move between the queue, the batch and the table.
LEMMA TruthFlush ==
    ASSUME TypeOK, TruthInv, QueueInv, QueueInv',
           \/ FlushTake \/ Requeue \/ FlushChunkNoConn
           \/ (\E c \in Chunks : FlushChunkBulk(c) \/ FlushChunkBulkFails(c))
           \/ (\E k \in Keys : FlushRow(k) \/ FlushRowFails(k))
    PROVE  TruthInv'
  <1>1. /\ UNCHANGED <<cacheVars, recs, recon>> /\ WriterFrame /\ pc' # "active"
    BY DEF FlushTake, Requeue, FlushChunkNoConn, FlushChunkBulk, FlushChunkBulkFails,
           FlushRow, FlushRowFails, RowDone, Goto, writerVars
  <1>2. RowsTrue(NoRows)
    BY DEF RowsTrue, RowTrue, NoRows
  <1>3. RowsTrue(db) /\ RowsTrue(pending) /\ RowsTrue(batch) /\ RowsTrue(failed)
    BY DEF TruthInv, MemoryTrue
  <1>4. batch \in Rows /\ failed \in Rows
    BY DEF TypeOK
  <1>5. RowsTrue(db') /\ RowsTrue(pending') /\ RowsTrue(batch') /\ RowsTrue(failed')
    <2>1. CASE FlushTake
      BY <1>2, <1>3, <2>1 DEF FlushTake
    <2>2. CASE Requeue
      BY <1>2, <1>3, <2>2, OverlayTrue DEF Requeue, Requeued
    <2>3. CASE FlushChunkNoConn
      BY <1>2, <1>3, <2>3 DEF FlushChunkNoConn
    <2>4. CASE \E c \in Chunks : FlushChunkBulkFails(c)
      BY <1>3, <2>4 DEF FlushChunkBulkFails, queueVars
    <2>5. CASE \E c \in Chunks : FlushChunkBulk(c)
      <3>1. PICK c \in Chunks : FlushChunkBulk(c)
        BY <2>5
      <3>2. \A k \in Keys : k \in c => batch[k] # NoRow
        BY DEF Chunks, Present
      <3> QED BY <1>3, <3>1, <3>2, UpsertAllTrue, WithoutTrue DEF FlushChunkBulk
    <2>6. CASE \E k \in Keys : FlushRow(k)
      <3>1. PICK k \in Keys : FlushRow(k)
        BY <2>6
      <3>2. \A x \in Keys : x \in {k} => batch[x] # NoRow
        BY <3>1 DEF FlushRow, QueueInv, ChunkOfBatch
      <3>3. \A x \in Keys : batch'[x] \in {NoRow, batch[x]}
        BY <1>4, <3>1 DEF FlushRow, RowDone, Rows
      <3>4. RowsTrue(batch')
        BY <1>3, <3>3 DEF RowsTrue, RowTrue
      <3> QED BY <1>3, <3>1, <3>2, <3>4, UpsertAllTrue DEF FlushRow
    <2>7. CASE \E k \in Keys : FlushRowFails(k)
      <3>1. PICK k \in Keys : FlushRowFails(k)
        BY <2>7
      <3>2. \A x \in Keys : /\ batch'[x] \in {NoRow, batch[x]}
                            /\ failed'[x] \in {failed[x], batch[x]}
        BY <1>4, <3>1 DEF FlushRowFails, RowDone, Rows
      <3> QED BY <1>3, <3>1, <3>2 DEF FlushRowFails, RowsTrue, RowTrue
    <2> QED BY <2>1, <2>2, <2>3, <2>4, <2>5, <2>6, <2>7
  <1> QED BY <1>1, <1>5, TruthWriterFrame DEF TruthInv, MemoryTrue, FreshTrue, cacheVars

LEMMA TruthWriter == ASSUME TypeOK, TruthInv, QueueInv, QueueInv', Writer PROVE TruthInv'
  <1>1. CASE InitPool \/ EnsurePartitions \/ SnapshotFails \/ Flushed \/ Wait
    <2>1. PICK l \in WriterPcs \ {"active"} : pc' = l
      BY <1>1 DEF InitPool, EnsurePartitions, SnapshotFails, Flushed, Wait, Goto, WriterPcs
    <2>2. UNCHANGED <<cacheVars, queueVars, db, recs, recon>> /\ WriterFrame
      BY <1>1 DEF InitPool, EnsurePartitions, SnapshotFails, Flushed, Wait
    <2> QED BY <2>1, <2>2, TruthWriterFrame
            DEF TruthInv, MemoryTrue, FreshTrue, cacheVars, queueVars
  <1>2. CASE MaybeCleanup
    <2>1. RowsTrue(db')
      BY <1>2, WithoutTrue DEF MaybeCleanup, TruthInv
    <2>2. UNCHANGED <<cacheVars, queueVars, recs, recon>> /\ WriterFrame /\ pc' # "active"
      BY <1>2 DEF MaybeCleanup, Goto
    <2> QED BY <2>1, <2>2, TruthWriterFrame
            DEF TruthInv, MemoryTrue, FreshTrue, cacheVars, queueVars
  <1>3. CASE QueueReconciled
    <2>1. RowsTrue(pending') /\ RowsTrue(recon')
      BY <1>3, OverlayTrue
         DEF QueueReconciled, QueueRows, TruthInv, MemoryTrue, RowsTrue, RowTrue, NoRows
    <2>2. UNCHANGED <<cacheVars, batch, failed, db, recs>> /\ WriterFrame /\ pc' # "active"
      BY <1>3 DEF QueueReconciled, Goto
    <2> QED BY <2>1, <2>2, TruthWriterFrame DEF TruthInv, MemoryTrue, FreshTrue, cacheVars
  <1>4. CASE SnapshotQueue \/ ActiveRecords
             \/ (\E k \in Keys : RefreshRecord(k) \/ RefreshLookupFails(k))
    BY <1>4, TruthSnapshot, TruthActive, TruthRefresh, TruthLookupFails
  <1>5. CASE \/ FlushTake \/ Requeue \/ FlushChunkNoConn
             \/ (\E c \in Chunks : FlushChunkBulk(c) \/ FlushChunkBulkFails(c))
             \/ (\E k \in Keys : FlushRow(k) \/ FlushRowFails(k))
    BY <1>5, TruthFlush
  <1> QED BY <1>1, <1>2, <1>3, <1>4, <1>5 DEF Writer


\* What a step of a request thread or of the backfill must keep true.
LEMMA TruthRowsFrame ==
    ASSUME TruthInv, UNCHANGED <<slurmVars, cacheVars, writerVars, queueVars>>,
           RowsTrue(db'), ReadersTrue', BackfillTrue',
           \A k \in Keys : Recorded(k)' => Recorded(k)
    PROVE  TruthInv'
  <1>1. /\ UNCHANGED <<job, cur, listed, acct>> /\ UNCHANGED <<cached, fill, hit, filling>>
        /\ UNCHANGED <<pending, batch, failed, recs, recon, pc, current>>
    BY DEF slurmVars, cacheVars, writerVars, queueVars
  <1>2. RowsTrue(db)' /\ MemoryTrue' /\ SlurmTrue' /\ AcctTrue'
    BY <1>1 DEF TruthInv, MemoryTrue, RowsTrue, SlurmTrue, AcctTrue
  <1>3. ListingTrue(cached)' /\ ListingTrue(fill)' /\ FreshTrue'
    BY <1>1 DEF TruthInv, ListingTrue, FreshTrue
  <1> QED BY <1>2, <1>3 DEF TruthInv

\* A request thread alone: what it holds must be true of its record.
LEMMA ReaderTrue ==
    ASSUME TypeOK, TruthInv, NEW r \in Readers, NEW v, rd' = [rd EXCEPT ![r] = v], job' = job,
           RowTrue(job[v.key], v.key, v.row),
           v.pc # "idle" => job[v.key] # "none",
           v.pc = "write" => v.row # NoRow
    PROVE  ReadersTrue'
  <1> SUFFICES ASSUME NEW x \in Readers
               PROVE  /\ RowTrue(job'[rd'[x].key], rd'[x].key, rd'[x].row)
                      /\ rd'[x].pc # "idle" => job'[rd'[x].key] # "none"
                      /\ rd'[x].pc = "write" => rd'[x].row # NoRow
    BY DEF ReadersTrue
  <1>1. rd'[x] = IF x = r THEN v ELSE rd[x]
    BY DEF TypeOK
  <1>2. /\ RowTrue(job[rd[x].key], rd[x].key, rd[x].row)
        /\ rd[x].pc # "idle" => job[rd[x].key] # "none"
        /\ rd[x].pc = "write" => rd[x].row # NoRow
    BY DEF TruthInv, ReadersTrue
  <1> QED BY <1>1, <1>2

LEMMA TruthReader == ASSUME TypeOK, TruthInv, Reader PROVE TruthInv'
  <1>1. PICK r \in Readers : \/ (\E k \in Keys : ReadRecord(r, k))
                             \/ EnrichLookup(r) \/ EnrichGivesUp(r) \/ EnrichWrite(r)
    BY DEF Reader
  <1>2. UNCHANGED <<slurmVars, cacheVars, writerVars, queueVars, bf>> /\ job' = job
    BY <1>1 DEF ReadRecord, EnrichLookup, EnrichGivesUp, EnrichWrite, ReaderFrame, slurmVars
  <1>3. BackfillTrue'
    BY <1>2 DEF TruthInv, BackfillTrue
  <1>4. rd[r].key \in Keys /\ DOMAIN rd = Readers
    BY DEF TypeOK
  <1>5. RowTrue(job[rd[r].key], rd[r].key, rd[r].row) /\ RowsTrue(db)
        /\ (rd[r].pc = "write" => rd[r].row # NoRow)
    BY DEF TruthInv, ReadersTrue
  <1>6. CASE \E k \in Keys : ReadRecord(r, k)
    <2>1. PICK k \in Keys : ReadRecord(r, k)
      BY <1>6
    <2>2. rd' = [rd EXCEPT ![r] = [pc |-> "lookup", key |-> k, row |-> NoRow]]
          /\ db' = db /\ db[k] # NoRow
      BY <2>1 DEF ReadRecord
    <2>3. job[k] # "none"
      BY <1>5, <2>2 DEF RowsTrue, RowTrue
    <2>4. ReadersTrue'
      <3>1. RowTrue(job[k], k, NoRow)
        BY DEF RowTrue
      <3> QED BY <1>2, <2>2, <2>3, <3>1, ReaderTrue
    <2>5. \A x \in Keys : Recorded(x)' => Recorded(x)
      BY <1>4, <2>2 DEF Recorded
    <2> QED BY <1>2, <1>3, <1>5, <2>2, <2>4, <2>5, TruthRowsFrame
  <1>7. CASE EnrichLookup(r)
    <2> DEFINE k == rd[r].key
    <2>1. PICK u \in DetailUsages(k[1]) :
             rd' = [rd EXCEPT ![r] = [pc |-> "write", key |-> k, row |-> ExtractDetail(k[1], u)]]
      BY <1>7 DEF EnrichLookup
    <2>2. SameIncarnation(k) /\ db' = db /\ rd[r].pc = "lookup"
      BY <1>7 DEF EnrichLookup
    <2>3. /\ job[k] # "none" /\ RowTrue(job[k], k, ExtractDetail(k[1], u))
          /\ ExtractDetail(k[1], u) # NoRow
      BY <1>4, <2>2, DetailTrue DEF TruthInv
    <2>4. ReadersTrue'
      BY <1>2, <2>1, <2>3, ReaderTrue
    <2>5. \A x \in Keys : Recorded(x)' => Recorded(x)
      BY <1>4, <2>1, <2>2 DEF Recorded
    <2> QED BY <1>2, <1>3, <1>5, <2>2, <2>4, <2>5, TruthRowsFrame
  <1>8. CASE EnrichGivesUp(r) \/ EnrichWrite(r)
    <2>1. rd' = [rd EXCEPT ![r] = IdleReader]
      BY <1>8 DEF EnrichGivesUp, EnrichWrite
    <2>2. ReadersTrue'
      <3>1. RowTrue(job[IdleReader.key], IdleReader.key, IdleReader.row) /\ IdleReader.pc = "idle"
        BY DEF IdleReader, RowTrue
      <3> HIDE DEF IdleReader
      <3> QED BY <1>2, <2>1, <3>1, ReaderTrue
    <2>3. CASE db' = db
      <3>1. \A x \in Keys : Recorded(x)' => Recorded(x)
        BY <1>4, <2>1, <2>3 DEF Recorded, IdleReader
      <3> QED BY <1>2, <1>3, <1>5, <2>2, <2>3, <3>1, TruthRowsFrame
    <2>4. CASE db' # db
      <3> DEFINE k == rd[r].key
      <3>1. rd[r].pc = "write" /\ db' = [db EXCEPT ![k] = Upsert(db[k], rd[r].row)]
        BY <1>8, <2>4 DEF EnrichGivesUp, EnrichWrite
      <3>2. db \in [Keys -> Row] /\ k \in Keys
        BY <1>4 DEF TypeOK, Rows
      <3>3. \A x \in Keys : db'[x] = IF x = k THEN Upsert(db[k], rd[r].row) ELSE db[x]
        BY <3>1, <3>2
      <3>4. RowTrue(job[k], k, Upsert(db[k], rd[r].row))
        BY <1>5, <3>1, <3>2, UpsertTrue DEF RowsTrue
      <3>5. RowsTrue(db')
        BY <1>5, <3>3, <3>4 DEF RowsTrue
      <3>6. \A x \in Keys : Recorded(x)' => Recorded(x)
        BY <1>4, <2>1, <3>1, <3>3 DEF Recorded, IdleReader
      <3> QED BY <1>2, <1>3, <2>2, <3>5, <3>6, TruthRowsFrame
    <2> QED BY <2>3, <2>4
  <1> QED BY <1>1, <1>6, <1>7, <1>8

LEMMA TruthBackfill == ASSUME TypeOK, TruthInv, Backfill PROVE TruthInv'
  <1>1. UNCHANGED <<slurmVars, cacheVars, writerVars, queueVars, rd>> /\ job' = job
    BY DEF Backfill, BackfillSelect, BackfillCommit, BackfillDetail, BackfillSkip, BackfillFrame,
           slurmVars
  <1>2. ReadersTrue'
    BY <1>1 DEF TruthInv, ReadersTrue
  <1>3. RowsTrue(db) /\ BackfillTrue
    BY DEF TruthInv
  <1>4. bf \in [pc : {"idle", "scan"}, rows : SUBSET Keys, upd : [Keys -> Usage]]
        /\ db \in [Keys -> Row]
    BY DEF TypeOK, Rows
  <1>5. \A k \in Keys : Measured(job[k], k, NoUpdates[k])
    BY DEF Measured, NoUpdates
  <1>6. BackfillTrue'
    <2>1. CASE BackfillSelect \/ BackfillCommit
      BY <1>1, <1>5, <2>1 DEF BackfillSelect, BackfillCommit, IdleBackfill, BackfillTrue
    <2>2. CASE \E k \in Keys : BackfillSkip(k)
      BY <1>1, <1>3, <1>4, <2>2 DEF BackfillSkip, BackfillTrue
    <2>3. CASE \E k \in Keys : BackfillDetail(k)
      <3>1. PICK k \in Keys : BackfillDetail(k)
        BY <2>3
      <3>2. PICK u \in DetailUsages(k[1]) : bf' = [bf EXCEPT !.rows = @ \ {k}, !.upd[k] = u]
        BY <3>1 DEF BackfillDetail
      <3>3. Measured(job[k], k, u)
        BY <3>1, DetailTrue DEF BackfillDetail, TruthInv
      <3>4. \A x \in Keys : bf'.upd[x] = IF x = k THEN u ELSE bf.upd[x]
        BY <1>4, <3>2
      <3> QED BY <1>1, <1>3, <3>3, <3>4 DEF BackfillTrue
    <2> QED BY <2>1, <2>2, <2>3 DEF Backfill
  <1>7. CASE db' = db
    <2>1. \A k \in Keys : Recorded(k)' => Recorded(k)
      BY <1>1, <1>7 DEF Recorded
    <2> QED BY <1>1, <1>2, <1>3, <1>6, <1>7, <2>1, TruthRowsFrame
  <1>8. CASE db' # db
    <2> DEFINE ks == {k \in Keys : bf.upd[k] # NoUsage}
    <2>1. ks \subseteq Present(db)
          /\ db' = [k \in Keys |-> IF k \in ks THEN [db[k] EXCEPT !.usage = bf.upd[k]] ELSE db[k]]
      BY <1>8 DEF Backfill, BackfillSelect, BackfillCommit, BackfillDetail, BackfillSkip
    <2>2. ASSUME NEW k \in Keys
          PROVE  RowTrue(job[k], k, db'[k]) /\ (db'[k] # NoRow => db[k] # NoRow)
      <3>1. RowTrue(job[k], k, db[k]) /\ Measured(job[k], k, bf.upd[k]) /\ db[k] \in Row
        BY <1>3, <1>4 DEF RowsTrue, BackfillTrue
      <3>2. CASE k \notin ks
        BY <2>1, <3>1, <3>2
      <3>3. CASE k \in ks
        <4>1. db[k] # NoRow /\ db'[k] = [db[k] EXCEPT !.usage = bf.upd[k]]
          BY <2>1, <3>3 DEF Present
        <4>2. db'[k].state = db[k].state /\ db'[k].usage = bf.upd[k]
          BY <3>1, <4>1 DEF Row
        <4> QED BY <3>1, <4>1, <4>2 DEF RowTrue
      <3> QED BY <3>2, <3>3
    <2>3. RowsTrue(db')
      BY <2>2 DEF RowsTrue
    <2>4. \A k \in Keys : Recorded(k)' => Recorded(k)
      BY <1>1, <2>2 DEF Recorded
    <2> QED BY <1>1, <1>2, <1>6, <2>3, <2>4, TruthRowsFrame
  <1> QED BY <1>7, <1>8

LEMMA TruthSubmit == ASSUME TypeOK, TruthInv, NEW j \in JobIds, SubmitRows(j) PROVE TruthInv'
  <1> DEFINE L == [k \in Keys |-> IF k[1] = j THEN Listing[k] ELSE "none"]
  <1>1. L \in Listings /\ ListingTrue(L)
    <2>1. Listing \in [Keys -> JobState] /\ "none" \in JobState
      BY ListingType DEF Listings, JobState
    <2> QED BY <2>1, ListingIsTrue DEF Listings, ListingTrue
  <1>2. RowsTrue(PrepareRows(L))
    BY <1>1, PrepareTrue
  <1>3. QueueRows(PrepareRows(L))
    BY DEF SubmitRows
  <1> HIDE DEF L
  <1>4. RowsTrue(pending')
    BY <1>2, <1>3, OverlayTrue DEF QueueRows, TruthInv, MemoryTrue
  <1>5. /\ UNCHANGED <<job, cur, listed, acct>> /\ UNCHANGED <<cached, fill, hit, filling>>
        /\ UNCHANGED <<batch, failed, recs, recon, pc, current>> /\ UNCHANGED <<db, rd, bf>>
    BY DEF SubmitRows, slurmVars, cacheVars, writerVars
  <1>6. RowsTrue(db)' /\ MemoryTrue'
    BY <1>4, <1>5 DEF TruthInv, MemoryTrue, RowsTrue
  <1>7. SlurmTrue' /\ AcctTrue' /\ ListingTrue(cached)' /\ ListingTrue(fill)'
    BY <1>5 DEF TruthInv, SlurmTrue, AcctTrue, ListingTrue
  <1>8. ReadersTrue' /\ BackfillTrue' /\ FreshTrue'
    BY <1>5 DEF TruthInv, ReadersTrue, BackfillTrue, FreshTrue, Recorded
  <1> QED BY <1>6, <1>7, <1>8 DEF TruthInv

LEMMA TruthRestart == ASSUME TruthInv, Restart PROVE TruthInv'
  <1>1. UNCHANGED <<job, cur, listed, acct>> /\ UNCHANGED <<cached, hit, db>>
    BY DEF Restart, slurmVars
  <1>2. RowsTrue(db)' /\ MemoryTrue'
    BY <1>1 DEF Restart, TruthInv, MemoryTrue, RowsTrue, RowTrue, NoRows
  <1>3. SlurmTrue' /\ AcctTrue'
    BY <1>1 DEF TruthInv, SlurmTrue, AcctTrue
  <1>4. ListingTrue(cached)' /\ ListingTrue(fill)'
    BY <1>1 DEF Restart, TruthInv, ListingTrue, NoListing
  <1>5. ReadersTrue'
    BY DEF Restart, ReadersTrue, IdleReader, RowTrue
  <1>6. BackfillTrue'
    BY DEF Restart, BackfillTrue, IdleBackfill, NoUpdates, Measured
  <1>7. FreshTrue'
    BY <1>1 DEF Restart, TruthInv, FreshTrue, NoRows
  <1> QED BY <1>2, <1>3, <1>4, <1>5, <1>6, <1>7 DEF TruthInv

LEMMA TruthNext == QueueInv /\ QueueInv' /\ TruthInv /\ [Next]_vars => TruthInv'
  <1> SUFFICES ASSUME QueueInv, QueueInv', TruthInv, [Next]_vars PROVE TruthInv'
    OBVIOUS
  <1>0. TypeOK
    BY DEF QueueInv
  <1>1. CASE Pool \/ Clock \/ Stopping \/ UNCHANGED vars
    <2>1. /\ UNCHANGED <<slurmVars, cacheVars, db, rd, bf>>
          /\ UNCHANGED <<pending, batch, failed, recs, recon, pc, current>>
      BY <1>1 DEF Pool, Clock, Stopping, vars, writerVars, queueVars
    <2> QED BY <2>1, TruthFrame
  <1>2. CASE Slurm \/ ListingCache \/ Reader \/ Backfill
    BY <1>0, <1>2, TruthSlurm, TruthCache, TruthReader, TruthBackfill
  <1>3. CASE Writer
    BY <1>0, <1>3, TruthWriter
  <1>4. CASE (\E j \in JobIds : SubmitRows(j)) \/ Restart
    BY <1>0, <1>4, TruthSubmit, TruthRestart
  <1> QED BY <1>1, <1>2, <1>3, <1>4 DEF Next

LEMMA TruthHolds == Spec => [](QueueInv /\ TruthInv)
  <1>1. Init => QueueInv /\ TruthInv
    BY QueueInit, TruthInit
  <1>2. QueueInv /\ TruthInv /\ [Next]_vars => (QueueInv /\ TruthInv)'
    BY QueueNext, TruthNext
  <1> QED BY <1>1, <1>2, PTL DEF Spec

\* Whatever Slurm requeues, and whichever of the snapshot, the reconciliation, the
\* enrichment and the backfill reads a lagging accounting record, no usage ends up
\* in a row of another submit time (_refresh_missing_active_job,
\* _maybe_enrich_record and _apply_usage_detail).
THEOREM UsageStaysWithIncarnation == Spec => []UsageOfOwnIncarnation
  <1>1. QueueInv /\ TruthInv => UsageOfOwnIncarnation
    <2> SUFFICES ASSUME TruthInv PROVE UsageOfOwnIncarnation
      OBVIOUS
    <2>1. ASSUME NEW j, NEW k, NEW row, RowTrue(j, k, row) PROVE row.usage.of \in {0, k[2]}
      BY <2>1 DEF RowTrue, Measured, NoRow, NoUsage
    <2>2. /\ OwnUsage(db) /\ OwnUsage(pending) /\ OwnUsage(batch)
          /\ OwnUsage(failed) /\ OwnUsage(recs) /\ OwnUsage(recon)
      BY <2>1 DEF TruthInv, MemoryTrue, RowsTrue, OwnUsage
    <2>3. \A r \in Readers : rd[r].row.usage.of \in {0, rd[r].key[2]}
      BY <2>1 DEF TruthInv, ReadersTrue
    <2>4. \A k \in Keys : bf.upd[k].of \in {0, k[2]}
      BY DEF TruthInv, BackfillTrue, Measured, NoUsage
    <2> QED BY <2>2, <2>3, <2>4 DEF UsageOfOwnIncarnation
  <1> QED BY <1>1, TruthHolds, PTL

\* When listings are not cached, a record is closed only once its job has ended, and
\* tells the state the job ended in unless accounting did not: a job missing from the
\* listing _scheduled_snapshot has just fetched has ended, even when a request thread
\* stores an older record between the snapshot and the reconciliation.
THEOREM EndsAreReal == "cache" \notin Enabled /\ Spec => []EndedMeansEnded
  <1>1. "cache" \notin Enabled /\ TruthInv => EndedMeansEnded
    BY DEF TruthInv, RowsTrue, RowTrue, Told, NoRow, Terminal, EndedMeansEnded
  <1>2. CASE "cache" \notin Enabled
    <2>1. TruthInv => EndedMeansEnded
      BY <1>1, <1>2
    <2> QED BY <2>1, TruthHolds, PTL
  <1>3. CASE ~("cache" \notin Enabled)
    BY <1>3
  <1> QED BY <1>2, <1>3

\* A true row that keeps the usage of the row it replaces is a write of the history.
LEMMA WrittenRow ==
    ASSUME NEW k \in Keys, NEW old \in Row, NEW new \in Row, RowTrue(job[k], k, new), new # NoRow,
           new.usage = NoUsage => old.usage = NoUsage
    PROVE  /\ job[k] # "none" /\ new.state # "none"
           /\ new.state \in History!States(k) \union {old.state}
           /\ new.usage \in History!Usages(k) \union {old.usage}
  <1>1. job[k] # "none" /\ Told(job[k], new.state) /\ Measured(job[k], k, new.usage)
    BY DEF RowTrue
  <1>2. new.state # "none" /\ new.state \in History!States(k)
    BY <1>1 DEF Told, Terminal, History!States
  <1>3. CASE new.usage # NoUsage
    <2>1. /\ new.usage \in Usage /\ new.usage.of = k[2]
          /\ new.usage.final => job[k] \in Terminal
      BY <1>1, <1>3 DEF Measured
    <2>2. new.usage = [of |-> k[2], final |-> new.usage.final] /\ new.usage.final \in BOOLEAN
      BY <2>1 DEF Usage
    <2> QED BY <1>1, <1>2, <2>1, <2>2 DEF History!Usages
  <1> QED BY <1>1, <1>2, <1>3

LEMMA HistoryWrite ==
    ASSUME TypeOK, TypeOK', RowsTrue(db)', UNCHANGED <<job, expired>>,
           \A k \in Keys : \/ db'[k] = db[k]
                           \/ db'[k] # NoRow /\ (db'[k].usage = NoUsage => db[k].usage = NoUsage)
    PROVE  History!Write
  <1>1. ASSUME NEW k \in Keys, db'[k] # db[k]
        PROVE  /\ job[k] # "none" /\ db'[k].state # "none"
               /\ db'[k].state \in History!States(k) \union {db[k].state}
               /\ db'[k].usage \in History!Usages(k) \union {db[k].usage}
    <2>1. db[k] \in Row /\ db'[k] \in Row
      BY DEF TypeOK, Rows
    <2>2. RowTrue(job[k], k, db'[k])
      BY DEF RowsTrue
    <2> QED BY <1>1, <2>1, <2>2, WrittenRow
  <1> QED BY <1>1 DEF History!Write

\* COALESCE: an upsert of a row of the batch erases no usage.
LEMMA UpsertKeeps ==
    ASSUME NEW old \in Row, NEW new \in Row, new.state # "none"
    PROVE  /\ Upsert(old, new) # NoRow
           /\ Upsert(old, new).usage = NoUsage => old.usage = NoUsage
  BY DEF Upsert, NoRow

LEMMA TrueState == ASSUME NEW j, NEW k, NEW row, RowTrue(j, k, row), row # NoRow
                   PROVE  row.state # "none"
  BY DEF RowTrue, Told, Terminal

LEMMA HistoryUpserts ==
    ASSUME TypeOK, TypeOK', TruthInv, TruthInv', UNCHANGED <<job, expired>>, NEW ks,
           \A k \in Keys : k \in ks => batch[k] # NoRow, db' = UpsertAll(db, batch, ks)
    PROVE  History!Write
  <1>1. ASSUME NEW k \in Keys, db'[k] # db[k]
        PROVE  db'[k] # NoRow /\ (db'[k].usage = NoUsage => db[k].usage = NoUsage)
    <2>1. k \in ks /\ db'[k] = Upsert(db[k], batch[k])
      BY <1>1 DEF UpsertAll
    <2>2. db[k] \in Row /\ batch[k] \in Row
      BY DEF TypeOK, Rows
    <2>3. batch[k].state # "none"
      BY <2>1, TrueState DEF TruthInv, MemoryTrue, RowsTrue
    <2> QED BY <2>1, <2>2, <2>3, UpsertKeeps
  <1> QED BY <1>1, HistoryWrite DEF TruthInv

\* Slurm moves a job of the history, or none.
LEMMA HistorySlurm ==
    ASSUME TypeOK, TruthInv, Slurm
    PROVE  History!JobMoves \/ UNCHANGED <<job, expired, db>>
  <1>1. PICK j \in JobIds : \/ SlurmSubmit(j) \/ (\E s \in Ends : SlurmEnd(j, s))
                            \/ SlurmForget(j) \/ AcctSync(j)
    BY DEF Slurm
  <1>2. UNCHANGED <<expired, db>>
    BY DEF Slurm, SlurmFrame, flagVars
  <1>3. cur[j] \in 0..MaxInst
    BY DEF TypeOK
  <1>4. CASE SlurmSubmit(j)
    <2> DEFINE k == <<j, cur[j] + 1>>
    <2>1. cur[j] < MaxInst /\ job' = [job EXCEPT ![k] = "ACTIVE"]
      BY <1>4 DEF SlurmSubmit
    <2>2. k \in Keys /\ k[1] = j /\ k[2] = cur[j] + 1
      BY <1>3, <2>1 DEF Keys
    <2>3. job[k] = "none"
      BY <1>3, <2>2 DEF TruthInv, SlurmTrue
    <2> QED BY <1>2, <2>1, <2>2, <2>3 DEF History!JobMoves
  <1>5. CASE \E s \in Ends : SlurmEnd(j, s)
    <2>1. PICK s \in Terminal : /\ cur[j] > 0 /\ job[<<j, cur[j]>>] = "ACTIVE"
                                /\ job' = [job EXCEPT ![<<j, cur[j]>>] = s]
      BY <1>5 DEF SlurmEnd
    <2>2. <<j, cur[j]>> \in Keys
      BY <1>3, <2>1 DEF Keys
    <2> QED BY <1>2, <2>1, <2>2 DEF History!JobMoves
  <1>6. CASE SlurmForget(j) \/ AcctSync(j)
    BY <1>2, <1>6 DEF SlurmForget, AcctSync
  <1> QED BY <1>1, <1>4, <1>5, <1>6

LEMMA HistoryReader ==
    ASSUME TypeOK, TypeOK', TruthInv, TruthInv', Reader
    PROVE  History!Write \/ UNCHANGED <<job, expired, db>>
  <1>1. PICK r \in Readers : \/ (\E k \in Keys : ReadRecord(r, k))
                             \/ EnrichLookup(r) \/ EnrichGivesUp(r) \/ EnrichWrite(r)
    BY DEF Reader
  <1>2. UNCHANGED <<job, expired>>
    BY <1>1 DEF ReadRecord, EnrichLookup, EnrichGivesUp, EnrichWrite, ReaderFrame, slurmVars,
                flagVars
  <1>3. CASE db' # db
    <2> DEFINE x == rd[r].key
    <2>1. rd[r].pc = "write" /\ db' = [db EXCEPT ![x] = Upsert(db[x], rd[r].row)]
      BY <1>1, <1>3 DEF ReadRecord, EnrichLookup, EnrichGivesUp, EnrichWrite
    <2>2. db \in [Keys -> Row] /\ x \in Keys /\ rd[r].row \in Row
      BY DEF TypeOK, Rows
    <2>3. rd[r].row.state # "none"
      <3>1. RowTrue(job[x], x, rd[r].row) /\ rd[r].row # NoRow
        BY <2>1 DEF TruthInv, ReadersTrue
      <3> QED BY <3>1, TrueState
    <2>4. ASSUME NEW k \in Keys, db'[k] # db[k]
          PROVE  db'[k] # NoRow /\ (db'[k].usage = NoUsage => db[k].usage = NoUsage)
      <3>1. k = x /\ db'[k] = Upsert(db[k], rd[r].row)
        BY <2>1, <2>2, <2>4
      <3> QED BY <2>2, <2>3, <3>1, UpsertKeeps
    <2> QED BY <1>2, <2>4, HistoryWrite DEF TruthInv
  <1> QED BY <1>2, <1>3

LEMMA HistoryBackfill ==
    ASSUME TypeOK, TypeOK', TruthInv, TruthInv', Backfill
    PROVE  History!Write \/ UNCHANGED <<job, expired, db>>
  <1>1. UNCHANGED <<job, expired>>
    BY DEF Backfill, BackfillSelect, BackfillCommit, BackfillDetail, BackfillSkip, BackfillFrame,
           slurmVars, flagVars
  <1>2. CASE db' # db
    <2> DEFINE ks == {k \in Keys : bf.upd[k] # NoUsage}
    <2>1. ks \subseteq Present(db)
          /\ db' = [k \in Keys |-> IF k \in ks THEN [db[k] EXCEPT !.usage = bf.upd[k]] ELSE db[k]]
      BY <1>2 DEF Backfill, BackfillSelect, BackfillCommit, BackfillDetail, BackfillSkip
    <2>2. ASSUME NEW k \in Keys, db'[k] # db[k]
          PROVE  db'[k] # NoRow /\ (db'[k].usage = NoUsage => db[k].usage = NoUsage)
      <3>1. k \in ks /\ db'[k] = [db[k] EXCEPT !.usage = bf.upd[k]]
        BY <2>1, <2>2
      <3>2. db[k] \in Row
        BY DEF TypeOK, Rows
      <3>3. db'[k].usage = bf.upd[k] /\ bf.upd[k] # NoUsage
        BY <3>1, <3>2 DEF Row
      <3> QED BY <3>3 DEF NoRow
    <2> QED BY <1>1, <2>2, HistoryWrite DEF TruthInv
  <1> QED BY <1>1, <1>2

LEMMA HistoryWriter ==
    ASSUME QueueInv, TypeOK', TruthInv, TruthInv', Writer
    PROVE  History!Write \/ History!Cleanup \/ UNCHANGED <<job, expired, db>>
  <1>1. UNCHANGED <<job, expired>>
    BY DEF Writer, InitPool, EnsurePartitions, SnapshotQueue, SnapshotFails, ActiveRecords,
           RefreshRecord, RefreshLookupFails, QueueReconciled, FlushTake, FlushChunkBulk,
           FlushChunkBulkFails, FlushChunkNoConn, FlushRow, FlushRowFails, Requeue, Flushed,
           MaybeCleanup, Wait, WriterFrame, slurmVars
  <1>2. TypeOK
    BY DEF QueueInv
  <1>3. CASE \E c \in Chunks : FlushChunkBulk(c)
    <2>1. PICK c \in Chunks : FlushChunkBulk(c)
      BY <1>3
    <2>2. (\A k \in Keys : k \in c => batch[k] # NoRow) /\ db' = UpsertAll(db, batch, c)
      BY <2>1 DEF FlushChunkBulk, Chunks, Present
    <2> QED BY <1>1, <1>2, <2>2, HistoryUpserts
  <1>4. CASE \E k \in Keys : FlushRow(k)
    <2>1. PICK k \in Keys : FlushRow(k)
      BY <1>4
    <2>2. (\A x \in Keys : x \in {k} => batch[x] # NoRow) /\ db' = UpsertAll(db, batch, {k})
      BY <2>1 DEF FlushRow, QueueInv, ChunkOfBatch
    <2> QED BY <1>1, <1>2, <2>2, HistoryUpserts
  <1>5. CASE MaybeCleanup
    BY <1>1, <1>5 DEF MaybeCleanup, Without, History!Cleanup
  <1>6. CASE db' = db
    BY <1>1, <1>6
  <1>7. \/ db' = db \/ MaybeCleanup
        \/ (\E c \in Chunks : FlushChunkBulk(c)) \/ (\E k \in Keys : FlushRow(k))
    BY DEF Writer, InitPool, EnsurePartitions, SnapshotQueue, SnapshotFails, ActiveRecords,
           RefreshRecord, RefreshLookupFails, QueueReconciled, FlushTake,
           FlushChunkBulkFails, FlushChunkNoConn, FlushRowFails, Requeue, Flushed, Wait
  <1> QED BY <1>3, <1>4, <1>5, <1>6, <1>7

LEMMA HistoryStep ==
    QueueInv /\ TypeOK' /\ TruthInv /\ TruthInv' /\ [Next]_vars
        => [History!Next]_<<job, expired, db>>
  <1> SUFFICES ASSUME QueueInv, TypeOK', TruthInv, TruthInv', [Next]_vars
               PROVE  History!Next \/ UNCHANGED <<job, expired, db>>
    OBVIOUS
  <1>0. TypeOK
    BY DEF QueueInv
  <1>1. CASE Slurm
    BY <1>0, <1>1, HistorySlurm DEF History!Next
  <1>2. CASE ListingCache \/ Pool \/ (\E j \in JobIds : SubmitRows(j)) \/ Restart \/ UNCHANGED vars
    BY <1>2 DEF ListingCache, CacheFrame, Pool, SubmitRows, Restart, vars, slurmVars, flagVars
  <1>3. CASE Clock \/ Stopping
    BY <1>3 DEF Clock, Stopping, DayPasses, AgePastRetention, StopStore, slurmVars,
                History!Next, History!TimePasses
  <1>4. CASE Writer
    BY <1>4, HistoryWriter DEF History!Next
  <1>5. CASE Reader \/ Backfill
    BY <1>0, <1>5, HistoryReader, HistoryBackfill DEF History!Next
  <1> QED BY <1>1, <1>2, <1>3, <1>4, <1>5 DEF Next

\* The store implements JobHistory: whichever of its threads writes the table, and
\* whatever is lost or stale, a record tells no more of a job than what happened (or,
\* with the cache, that it may have completed), keeps the usage it was given, and is
\* deleted only past the retention (_maybe_cleanup).
THEOREM StoreIsJobHistory == Spec => TableIsJobHistory
  <1>1. Init => History!Init
    BY DEF Init, History!Init, NoRows
  <1>2. /\ QueueInv /\ TruthInv /\ (QueueInv /\ TruthInv)' /\ [Next]_vars
            => [History!Next]_<<job, expired, db>>
    BY HistoryStep DEF QueueInv
  <1> QED BY <1>1, <1>2, TruthHolds, PTL DEF Spec, TableIsJobHistory, History!Spec
=============================================================================
