-------------------------- MODULE SlurmrestdProofs --------------------------
(***************************************************************************)
(* Proofs about what threads share on their way to slurmrestd: that a       *)
(* cached answer older than a completed write was being fetched while the   *)
(* write was applied, for any number of threads, write operations and       *)
(* changes; that the version in use is the newest one not refused, and that *)
(* the adaptation chain fits it once discoveries that agree are over, for   *)
(* any number of threads, versions and restarts of slurmrestd; that the     *)
(* totals of the statistics are the sums of their counters, for any number  *)
(* of threads, keys and counts.                                             *)
(***************************************************************************)
EXTENDS SlurmrestdCache, SlurmrestdDiscovery, CacheStatistics, TotalsProofs, TLAPS

-----------------------------------------------------------------------------
(* The cache.                                                               *)

\* The write operations delete exactly the cached answers they change.
LEMMA InvalidationComplete == \A op \in Operations : Affects[op] = Invalidates[op]
  <1> SUFFICES ASSUME NEW op \in DOMAIN Invalidates
               PROVE  Affects[op] = Invalidates[op]
    BY SlurmrestdCacheAssumption
  <1>1. Affects[op] = {k \in CacheKeys : Changes(op, k)}
    BY DEF Affects
  <1>2. Invalidates[op] = {k \in CacheKeys : Changes(op, k)}
    BY DEF Invalidates, CacheKeys, Changes
  <1> QED BY <1>1, <1>2

LEMMA KeysOfOperation == \A op \in Operations : Affects[op] \subseteq Keys
  BY DEF Keys

-----------------------------------------------------------------------------
(* The inductive invariant.                                                 *)

\* A write of v changed the answer for k and has not returned.
Applied(v, k) == worker[v].pc = "invalidate" /\ k \in Affects[worker[v].op]

\* A thread on its way knows its key, or its operation.
KnowsItsKey == \A w \in Workers :
    /\ worker[w].pc \in {"fetch", "put"} => worker[w].key \in Keys
    /\ worker[w].pc = "put" => worker[w].version <= data[worker[w].key]
    /\ worker[w].pc = "invalidate" => worker[w].op \in Operations

\* Slurm answers with at least what every write, completed or not, made.
DataIsNewest == \A k \in Keys :
    /\ data[k] >= done[k]
    /\ \A v \in Workers : Applied(v, k) => data[k] >= worker[v].version

\* A fetched version no write overtook is at least as new as every write.
HeldIsNewest == \A w \in Workers :
    worker[w].pc = "put" /\ ~worker[w].late =>
        /\ worker[w].version >= done[worker[w].key]
        /\ \A v \in Workers : Applied(v, worker[w].key) =>
              worker[w].version >= worker[v].version

\* A cached version no write overtook is at least as new as every write that
\* has returned, or has deleted the key and not returned.
StoredIsNewest == \A k \in Keys : store[k] # Absent /\ k \notin raced =>
    /\ store[k] >= done[k]
    /\ \A v \in Workers : Applied(v, k) /\ k \notin worker[v].todo =>
          store[k] >= worker[v].version

\* With the cache disabled nothing is ever stored.
OnlyIfEnabled ==
    /\ ~Enabled => \A k \in Keys : store[k] = Absent
    /\ \A w \in Workers : worker[w].pc \in {"fetch", "put"} => Enabled

Inv ==
    TypeOK /\ KnowsItsKey /\ DataIsNewest /\ HeldIsNewest /\ StoredIsNewest /\ OnlyIfEnabled

LEMMA InvInit == Init => Inv
  BY SlurmrestdCacheAssumption
  DEF Init, Inv, TypeOK, KnowsItsKey, DataIsNewest, HeldIsNewest, StoredIsNewest, Applied,
      OnlyIfEnabled, WorkerState, Versions, Idle, Absent

-----------------------------------------------------------------------------
(* Steps that end a request or move it on without a new version.            *)

\* Thread w comes to a state where it holds no version and applies no write;
\* what is cached, answered and settled stays.
Releases(w) == \E state \in WorkerState :
    /\ state.pc \in {"idle", "count"} \/ (state.pc = "fetch" /\ state.key \in Keys /\ Enabled)
    /\ Become(w, state)
    /\ UNCHANGED <<now, data, store, done, raced>>
    /\ up' \in BOOLEAN

LEMMA ReleaseKeepsInv ==
  ASSUME Inv, NEW w \in Workers, Releases(w)
  PROVE  Inv'
  <1> PICK state \in WorkerState :
        /\ state.pc \in {"idle", "count"} \/ (state.pc = "fetch" /\ state.key \in Keys /\ Enabled)
        /\ Become(w, state)
    BY DEF Releases
  <1> USE DEF Inv, Releases
  <1>1. worker' = [worker EXCEPT ![w] = state] /\ worker \in [Workers -> WorkerState]
    BY DEF Become, TypeOK
  <1>2. TypeOK'
    BY <1>1 DEF TypeOK
  <1>3. \A v \in Workers : worker'[v] = IF v = w THEN state ELSE worker[v]
    BY <1>1
  <1>4. \A v \in Workers, k \in Keys : Applied(v, k)' => Applied(v, k) /\ worker'[v] = worker[v]
    BY <1>3 DEF Applied
  <1>5. KnowsItsKey'
    BY <1>3 DEF KnowsItsKey
  <1>6. DataIsNewest'
    BY <1>4 DEF DataIsNewest
  <1>7. HeldIsNewest'
    <2> SUFFICES ASSUME NEW x \in Workers, worker'[x].pc = "put", ~worker'[x].late
                 PROVE  /\ worker'[x].version >= done'[worker'[x].key]
                        /\ \A v \in Workers : Applied(v, worker[x].key)' =>
                              worker'[x].version >= worker'[v].version
      BY <1>3 DEF HeldIsNewest, Applied
    <2>1. worker'[x] = worker[x] /\ worker[x].key \in Keys
      BY <1>3 DEF KnowsItsKey
    <2> QED BY <2>1, <1>4 DEF HeldIsNewest
  <1>8. StoredIsNewest'
    BY <1>4 DEF StoredIsNewest
  <1>9. OnlyIfEnabled'
    BY <1>3 DEF OnlyIfEnabled
  <1> QED BY <1>2, <1>5, <1>6, <1>7, <1>8, <1>9

LEMMA FreeStates ==
  /\ \A r \in {"answered", "written", "cache_error", "redis_error", "slurmrestd_error"} :
        Ended(r) \in WorkerState /\ Ended(r).pc = "idle"
  /\ [Idle EXCEPT !.pc = "count"] \in WorkerState
  /\ \A k \in Keys : [Idle EXCEPT !.pc = "fetch", !.key = k] \in WorkerState
  <1>1. 0 \in Versions
    BY SlurmrestdCacheAssumption DEF Versions
  <1>2. ASSUME NEW r \in {"answered", "written", "cache_error", "redis_error",
                          "slurmrestd_error"}
        PROVE  Ended(r) \in WorkerState /\ Ended(r).pc = "idle"
    BY <1>1, <1>2 DEF Ended, Idle, WorkerState
  <1>3. [Idle EXCEPT !.pc = "count"] \in WorkerState
    BY <1>1 DEF Idle, WorkerState
  <1>4. ASSUME NEW k \in Keys
        PROVE  [Idle EXCEPT !.pc = "fetch", !.key = k] \in WorkerState
    BY <1>1 DEF Idle, WorkerState
  <1> QED BY <1>2, <1>3, <1>4

\* The actions of this kind.
Ending(w) ==
    \/ \E k \in Keys : ReadHit(w, k) \/ ReadMiss(w, k)
    \/ ReadCacheError(w) \/ ReadThrough(w) \/ FetchFails(w) \/ PutCacheError(w) \/ Count(w)
    \/ (\E op \in Operations : WriteRefused(w, op)) \/ DeleteCacheError(w)

LEMMA EndingReleases ==
  ASSUME Inv, NEW w \in Workers, Ending(w)
  PROVE  Releases(w)
  <1> USE DEF Inv
  <1>1. /\ \A r \in {"answered", "cache_error", "redis_error", "slurmrestd_error"} :
              Ended(r) \in WorkerState /\ Ended(r).pc = "idle"
        /\ [Idle EXCEPT !.pc = "count"] \in WorkerState
        /\ \A k \in Keys : [Idle EXCEPT !.pc = "fetch", !.key = k] \in WorkerState
    BY FreeStates
  <1>2. up' \in BOOLEAN
    BY DEF Ending, ReadHit, ReadMiss, ReadCacheError, ReadThrough, FetchFails, PutCacheError,
           Count, WriteRefused, DeleteCacheError, TypeOK
  <1>3. CASE \E k \in Keys : ReadHit(w, k)
    BY <1>1, <1>2, <1>3 DEF ReadHit, Releases, Idle
  <1>4. CASE \E k \in Keys : ReadMiss(w, k)
    BY <1>1, <1>2, <1>4 DEF ReadMiss, Releases, Idle
  <1>5. CASE ReadCacheError(w) \/ ReadThrough(w) \/ FetchFails(w)
    BY <1>1, <1>2, <1>5 DEF ReadCacheError, ReadThrough, FetchFails, Releases
  <1>6. CASE PutCacheError(w) \/ Count(w) \/ DeleteCacheError(w)
    BY <1>1, <1>2, <1>6 DEF PutCacheError, Count, DeleteCacheError, Releases
  <1>7. CASE \E op \in Operations : WriteRefused(w, op)
    BY <1>1, <1>2, <1>7 DEF WriteRefused, Releases
  <1> QED BY <1>3, <1>4, <1>5, <1>6, <1>7 DEF Ending

-----------------------------------------------------------------------------
(* Fetch and Put.                                                           *)

LEMMA FetchKeepsInv ==
  ASSUME Inv, NEW w \in Workers, Fetch(w)
  PROVE  Inv'
  <1> USE DEF Inv
  <1> DEFINE k == worker[w].key
             held == [worker[w] EXCEPT !.pc = "put", !.version = data[k]]
  <1>1. k \in Keys /\ data[k] \in Versions /\ Enabled
    BY SlurmrestdCacheAssumption DEF Fetch, KnowsItsKey, TypeOK, Versions, OnlyIfEnabled
  <1>2. worker' = [worker EXCEPT ![w] = held] /\ worker \in [Workers -> WorkerState]
    BY DEF Fetch, Become, TypeOK
  <1>3. held \in WorkerState /\ held.pc = "put" /\ held.key = k /\ held.version = data[k]
    BY <1>1, <1>2 DEF WorkerState
  <1> HIDE DEF held
  <1>4. \A v \in Workers : worker'[v] = IF v = w THEN held ELSE worker[v]
    BY <1>2
  <1>5. \A v \in Workers, j \in Keys : Applied(v, j)' => Applied(v, j) /\ worker'[v] = worker[v]
    BY <1>3, <1>4 DEF Applied
  <1>6. UNCHANGED <<now, data, store, up, done, raced>>
    BY DEF Fetch
  <1>7. TypeOK'
    BY <1>2, <1>3, <1>6 DEF TypeOK
  <1>8. KnowsItsKey'
    BY <1>1, <1>3, <1>4, <1>6 DEF KnowsItsKey, TypeOK, Versions
  <1>9. DataIsNewest'
    BY <1>5, <1>6 DEF DataIsNewest
  <1>10. HeldIsNewest'
    <2> SUFFICES ASSUME NEW x \in Workers, worker'[x].pc = "put", ~worker'[x].late
                 PROVE  /\ worker'[x].version >= done'[worker'[x].key]
                        /\ \A v \in Workers : Applied(v, worker[x].key)' =>
                              worker'[x].version >= worker'[v].version
      BY <1>3, <1>4 DEF HeldIsNewest, Applied
    <2>1. CASE x = w
      BY <2>1, <1>1, <1>3, <1>4, <1>5, <1>6 DEF DataIsNewest
    <2>2. CASE x # w
      <3>1. worker'[x] = worker[x] /\ worker[x].key \in Keys
        BY <2>2, <1>4 DEF KnowsItsKey
      <3> QED BY <3>1, <1>5, <1>6 DEF HeldIsNewest
    <2> QED BY <2>1, <2>2
  <1>11. StoredIsNewest'
    BY <1>5, <1>6 DEF StoredIsNewest
  <1>12. OnlyIfEnabled'
    BY <1>1, <1>4, <1>6 DEF OnlyIfEnabled
  <1> QED BY <1>7, <1>8, <1>9, <1>10, <1>11, <1>12

LEMMA PutKeepsInv ==
  ASSUME Inv, NEW w \in Workers, Put(w)
  PROVE  Inv'
  <1> USE DEF Inv
  <1> DEFINE k == worker[w].key
             free == [Idle EXCEPT !.pc = "count"]
  <1>1. k \in Keys /\ worker[w].version \in Versions /\ worker[w].version <= data[k] /\ Enabled
    BY DEF Put, KnowsItsKey, TypeOK, WorkerState, OnlyIfEnabled
  <1>2. worker' = [worker EXCEPT ![w] = free] /\ worker \in [Workers -> WorkerState]
    BY DEF Put, Become, TypeOK
  <1>3. free \in WorkerState /\ free.pc = "count"
    BY FreeStates DEF Idle
  <1> HIDE DEF free
  <1>4. \A v \in Workers : worker'[v] = IF v = w THEN free ELSE worker[v]
    BY <1>2
  <1>5. \A v \in Workers, j \in Keys : Applied(v, j)' => Applied(v, j) /\ worker'[v] = worker[v]
    BY <1>3, <1>4 DEF Applied
  <1>6. /\ UNCHANGED <<now, data, up, done>>
        /\ store' = [store EXCEPT ![k] = worker[w].version]
        /\ raced' = IF worker[w].late THEN raced \union {k} ELSE raced \ {k}
        /\ worker[w].pc = "put"
    BY DEF Put
  <1>7. TypeOK'
    <2>1. store' \in [Keys -> {Absent} \union Versions] /\ raced' \subseteq Keys
      BY <1>1, <1>6 DEF TypeOK
    <2>2. \A j \in Keys : store'[j] <= data[j]
      BY <1>1, <1>6 DEF TypeOK
    <2>3. worker' \in [Workers -> WorkerState]
      BY <1>2, <1>3
    <2> QED BY <1>6, <2>1, <2>2, <2>3 DEF TypeOK
  <1>8. KnowsItsKey'
    BY <1>3, <1>4, <1>6 DEF KnowsItsKey
  <1>9. DataIsNewest'
    BY <1>5, <1>6 DEF DataIsNewest
  <1>10. HeldIsNewest'
    <2> SUFFICES ASSUME NEW x \in Workers, worker'[x].pc = "put", ~worker'[x].late
                 PROVE  /\ worker'[x].version >= done'[worker'[x].key]
                        /\ \A v \in Workers : Applied(v, worker[x].key)' =>
                              worker'[x].version >= worker'[v].version
      BY <1>3, <1>4 DEF HeldIsNewest, Applied
    <2>1. worker'[x] = worker[x] /\ worker[x].key \in Keys
      BY <1>3, <1>4 DEF KnowsItsKey
    <2> QED BY <2>1, <1>5, <1>6 DEF HeldIsNewest
  <1>11. StoredIsNewest'
    <2> SUFFICES ASSUME NEW j \in Keys, store'[j] # Absent, j \notin raced'
                 PROVE  /\ store'[j] >= done'[j]
                        /\ \A v \in Workers : Applied(v, j)' /\ j \notin worker'[v].todo =>
                              store'[j] >= worker'[v].version
      BY DEF StoredIsNewest, Applied
    <2>1. CASE j = k
      <3>1. ~worker[w].late /\ store'[j] = worker[w].version
        BY <2>1, <1>1, <1>6 DEF TypeOK
      <3> QED BY <3>1, <2>1, <1>1, <1>5, <1>6 DEF HeldIsNewest
    <2>2. CASE j # k
      BY <2>2, <1>5, <1>6 DEF StoredIsNewest, TypeOK
    <2> QED BY <2>1, <2>2
  <1>12. OnlyIfEnabled'
    BY <1>1, <1>3, <1>4, <1>6 DEF OnlyIfEnabled
  <1> QED BY <1>7, <1>8, <1>9, <1>10, <1>11, <1>12

-----------------------------------------------------------------------------
(* The writes.                                                              *)

\* Marking a thread late changes nothing else of it.
LEMMA LateMark ==
  ASSUME NEW state \in WorkerState, NEW marked, marked = [state EXCEPT !.late = TRUE]
  PROVE  /\ marked \in WorkerState /\ marked.late
         /\ marked.pc = state.pc /\ marked.op = state.op /\ marked.key = state.key
         /\ marked.version = state.version /\ marked.todo = state.todo
  BY DEF WorkerState

LEMMA WriteCallKeepsInv ==
  ASSUME Inv, NEW w \in Workers, NEW op \in Operations, WriteCall(w, op)
  PROVE  Inv'
  <1> USE DEF Inv
  <1> DEFINE begun == [Idle EXCEPT !.pc = "invalidate", !.op = op, !.version = now + 1,
                                   !.todo = IF Enabled THEN Invalidates[op] ELSE {}]
             overtaken(v) == worker[v].pc = "put" /\ worker[v].key \in Affects[op]
  <1>1. /\ now + 1 \in Versions /\ now \in 0..MaxVersion /\ now' = now + 1 /\ now < MaxVersion
        /\ UNCHANGED <<store, up, done, raced>>
    BY SlurmrestdCacheAssumption DEF WriteCall, TypeOK, Versions
  <1>2. Affects[op] = Invalidates[op] /\ Affects[op] \subseteq Keys
    BY InvalidationComplete, KeysOfOperation
  <1>3. /\ begun \in WorkerState /\ begun.pc = "invalidate" /\ begun.op = op
        /\ begun.version = now + 1
        /\ begun.todo = IF Enabled THEN Affects[op] ELSE {}
    BY <1>1, <1>2 DEF Idle, WorkerState
  <1> HIDE DEF begun
  <1>4. worker' = [v \in Workers |->
            IF v = w THEN begun
            ELSE IF overtaken(v) THEN [worker[v] EXCEPT !.late = TRUE] ELSE worker[v]]
    BY DEF WriteCall, begun
  <1>5. data' = [k \in Keys |-> IF k \in Affects[op] THEN now + 1 ELSE data[k]]
    BY DEF WriteCall
  <1>6. \A v \in Workers : worker[v] \in WorkerState
    BY DEF TypeOK
  <1>7. \A v \in Workers : v # w =>
            /\ worker'[v].pc = worker[v].pc /\ worker'[v].op = worker[v].op
            /\ worker'[v].key = worker[v].key /\ worker'[v].version = worker[v].version
            /\ worker'[v].todo = worker[v].todo
            /\ overtaken(v) => worker'[v].late
            /\ ~overtaken(v) => worker'[v] = worker[v]
            /\ worker'[v] \in WorkerState
    <2> SUFFICES ASSUME NEW v \in Workers, v # w
                 PROVE  /\ worker'[v].pc = worker[v].pc /\ worker'[v].op = worker[v].op
                        /\ worker'[v].key = worker[v].key
                        /\ worker'[v].version = worker[v].version
                        /\ worker'[v].todo = worker[v].todo
                        /\ overtaken(v) => worker'[v].late
                        /\ ~overtaken(v) => worker'[v] = worker[v]
                        /\ worker'[v] \in WorkerState
      OBVIOUS
    <2>1. CASE overtaken(v)
      <3>1. worker'[v] = [worker[v] EXCEPT !.late = TRUE]
        BY <1>4, <2>1
      <3> QED BY ONLY <3>1, <1>6, <2>1, LateMark
    <2>2. CASE ~overtaken(v)
      <3>1. worker'[v] = worker[v]
        BY <1>4, <2>2
      <3> QED BY ONLY <3>1, <1>6, <2>2
    <2> QED BY <2>1, <2>2
  <1>8. worker'[w] = begun
    BY <1>4
  <1>9. \A k \in Keys : data[k] \in 0..now /\ data'[k] >= data[k] /\ data'[k] \in 0..now'
    BY <1>1, <1>5 DEF TypeOK
  <1>10. TypeOK'
    <2>1. worker' \in [Workers -> WorkerState]
      BY <1>3, <1>4, <1>7, <1>8
    <2>2. data' \in [Keys -> 0..now']
      BY <1>5, <1>9
    <2>3. \A k \in Keys : store'[k] <= data'[k] /\ done'[k] <= data'[k]
      BY <1>1, <1>9 DEF TypeOK, Versions, Absent
    <2> QED BY <1>1, <2>1, <2>2, <2>3 DEF TypeOK
  <1>11. KnowsItsKey'
    <2>1. \A v \in Workers : v # w /\ worker[v].pc = "put" =>
              worker'[v].version <= data'[worker'[v].key]
      BY <1>1, <1>6, <1>7, <1>9 DEF KnowsItsKey, WorkerState, Versions
    <2> QED BY <1>3, <1>7, <1>8, <2>1 DEF KnowsItsKey
  <1>12. \A v \in Workers, k \in Keys : Applied(v, k)' /\ v # w =>
            Applied(v, k) /\ worker'[v].version = worker[v].version
                          /\ worker'[v].todo = worker[v].todo
    BY <1>7 DEF Applied
  <1>13. \A k \in Keys : Applied(w, k)' <=> k \in Affects[op]
    BY <1>3, <1>8 DEF Applied
  <1>14. DataIsNewest'
    <2> SUFFICES ASSUME NEW k \in Keys
                 PROVE  /\ data'[k] >= done'[k]
                        /\ \A v \in Workers : Applied(v, k)' => data'[k] >= worker'[v].version
      BY DEF DataIsNewest, Applied
    <2>1. data'[k] >= done'[k]
      BY <1>1, <1>9 DEF DataIsNewest, TypeOK, Versions
    <2>2. ASSUME NEW v \in Workers, Applied(v, k)', v # w
          PROVE  data'[k] >= worker'[v].version
      BY <2>2, <1>1, <1>6, <1>9, <1>12 DEF DataIsNewest, WorkerState, Versions
    <2>3. Applied(w, k)' => data'[k] >= worker'[w].version
      BY <1>1, <1>3, <1>5, <1>8, <1>13
    <2> QED BY <2>1, <2>2, <2>3
  <1>15. HeldIsNewest'
    <2> SUFFICES ASSUME NEW x \in Workers, worker'[x].pc = "put", ~worker'[x].late
                 PROVE  /\ worker'[x].version >= done'[worker'[x].key]
                        /\ \A v \in Workers : Applied(v, worker[x].key)' =>
                              worker'[x].version >= worker'[v].version
      BY <1>3, <1>7, <1>8 DEF HeldIsNewest, Applied
    <2>1. worker'[x] = worker[x] /\ ~overtaken(x) /\ worker[x].key \in Keys
      BY <1>3, <1>7, <1>8 DEF KnowsItsKey
    <2>2. ~Applied(w, worker[x].key)'
      BY <2>1, <1>13
    <2> QED BY <2>1, <2>2, <1>1, <1>12 DEF HeldIsNewest
  <1>16. StoredIsNewest'
    <2> SUFFICES ASSUME NEW k \in Keys, store[k] # Absent, k \notin raced
                 PROVE  /\ store[k] >= done[k]
                        /\ \A v \in Workers : Applied(v, k)' /\ k \notin worker'[v].todo =>
                              store[k] >= worker'[v].version
      BY <1>1 DEF StoredIsNewest, Applied
    <2>1. Enabled
      BY DEF OnlyIfEnabled
    <2>2. ~(Applied(w, k)' /\ k \notin worker'[w].todo)
      BY <2>1, <1>3, <1>8, <1>13
    <2> QED BY <2>2, <1>12 DEF StoredIsNewest
  <1>17. OnlyIfEnabled'
    BY <1>1, <1>3, <1>7, <1>8 DEF OnlyIfEnabled
  <1> QED BY <1>10, <1>11, <1>14, <1>15, <1>16, <1>17

LEMMA DeleteKeyKeepsInv ==
  ASSUME Inv, NEW w \in Workers, NEW k \in Keys, DeleteKey(w, k)
  PROVE  Inv'
  <1> USE DEF Inv
  <1> DEFINE left == [worker[w] EXCEPT !.todo = @ \ {k}]
  <1>1. /\ worker' = [worker EXCEPT ![w] = left] /\ worker \in [Workers -> WorkerState]
        /\ worker[w].pc = "invalidate"
        /\ store' = [store EXCEPT ![k] = Absent] /\ raced' = raced \ {k}
        /\ UNCHANGED <<now, data, up, done>>
    BY DEF DeleteKey, Become, TypeOK
  <1>2. /\ left \in WorkerState /\ left.pc = worker[w].pc /\ left.op = worker[w].op
        /\ left.version = worker[w].version /\ left.todo = worker[w].todo \ {k}
    BY <1>1 DEF WorkerState
  <1> HIDE DEF left
  <1>3. \A v \in Workers : worker'[v] = IF v = w THEN left ELSE worker[v]
    BY <1>1
  <1>4. \A v \in Workers, j \in Keys : Applied(v, j)' =>
            /\ Applied(v, j) /\ worker'[v].version = worker[v].version
            /\ j # k => (j \in worker'[v].todo <=> j \in worker[v].todo)
    BY <1>2, <1>3 DEF Applied
  <1>5. TypeOK'
    <2>1. store' \in [Keys -> {Absent} \union Versions]
      BY <1>1 DEF TypeOK
    <2>2. worker' \in [Workers -> WorkerState]
      BY <1>1, <1>2
    <2>3. \A j \in Keys : store'[j] <= data[j]
      <3> TAKE j \in Keys
      <3>1. data[j] \in 0..now /\ now \in Nat
        BY SlurmrestdCacheAssumption DEF TypeOK, Versions
      <3> QED BY <1>1, <3>1 DEF TypeOK, Absent
    <2> QED BY <1>1, <2>1, <2>2, <2>3 DEF TypeOK
  <1>6. KnowsItsKey'
    BY <1>1, <1>2, <1>3 DEF KnowsItsKey
  <1>7. DataIsNewest'
    BY <1>1, <1>4 DEF DataIsNewest
  <1>8. HeldIsNewest'
    <2> SUFFICES ASSUME NEW x \in Workers, worker'[x].pc = "put", ~worker'[x].late
                 PROVE  /\ worker'[x].version >= done'[worker'[x].key]
                        /\ \A v \in Workers : Applied(v, worker[x].key)' =>
                              worker'[x].version >= worker'[v].version
      BY <1>1, <1>2, <1>3 DEF HeldIsNewest, Applied
    <2>1. worker'[x] = worker[x] /\ worker[x].key \in Keys
      BY <1>1, <1>2, <1>3 DEF KnowsItsKey
    <2> QED BY <2>1, <1>1, <1>4 DEF HeldIsNewest
  <1>9. StoredIsNewest'
    <2> SUFFICES ASSUME NEW j \in Keys, store'[j] # Absent, j \notin raced'
                 PROVE  /\ store'[j] >= done'[j]
                        /\ \A v \in Workers : Applied(v, j)' /\ j \notin worker'[v].todo =>
                              store'[j] >= worker'[v].version
      BY DEF StoredIsNewest, Applied
    <2>1. j # k /\ store'[j] = store[j]
      BY <1>1 DEF TypeOK
    <2> QED BY <2>1, <1>1, <1>4 DEF StoredIsNewest
  <1>10. OnlyIfEnabled'
    BY <1>1, <1>2, <1>3 DEF OnlyIfEnabled, TypeOK
  <1> QED BY <1>5, <1>6, <1>7, <1>8, <1>9, <1>10

LEMMA WriteReturnsKeepsInv ==
  ASSUME Inv, NEW w \in Workers, WriteReturns(w)
  PROVE  Inv'
  <1> USE DEF Inv
  <1> DEFINE op == worker[w].op
             version == worker[w].version
             over == Ended("written")
  <1>1. /\ worker' = [worker EXCEPT ![w] = over] /\ worker \in [Workers -> WorkerState]
        /\ worker[w].pc = "invalidate" /\ worker[w].todo = {}
        /\ done' = [k \in Keys |-> IF k \in Affects[op] THEN Later(done[k], version)
                                   ELSE done[k]]
        /\ UNCHANGED <<now, data, store, up, raced>>
    BY DEF WriteReturns, Become, TypeOK
  <1>2. over \in WorkerState /\ over.pc = "idle"
    BY FreeStates
  <1>3. version \in Versions
    BY <1>1 DEF WorkerState
  <1> HIDE DEF over
  <1>4. \A v \in Workers : worker'[v] = IF v = w THEN over ELSE worker[v]
    BY <1>1
  <1>5. \A v \in Workers, j \in Keys : Applied(v, j)' => Applied(v, j) /\ worker'[v] = worker[v]
    BY <1>2, <1>4 DEF Applied
  <1>6. \A k \in Keys : done[k] \in Versions
    BY DEF TypeOK
  <1>7. \A k \in Keys : /\ done'[k] \in Versions
                        /\ done'[k] = done[k] \/ (Applied(w, k) /\ done'[k] = version)
    BY <1>1, <1>3, <1>6 DEF Later, Applied
  <1>8. \A k \in Keys : data[k] >= done'[k]
    BY <1>7 DEF DataIsNewest
  <1>9. TypeOK'
    <2>1. worker' \in [Workers -> WorkerState]
      BY <1>1, <1>2
    <2>2. done' \in [Keys -> Versions]
      BY <1>1, <1>7
    <2>3. \A k \in Keys : done'[k] <= data[k]
      BY <1>7, <1>8 DEF TypeOK, Versions
    <2> QED BY <1>1, <2>1, <2>2, <2>3 DEF TypeOK
  <1>10. KnowsItsKey'
    BY <1>1, <1>2, <1>4 DEF KnowsItsKey
  <1>11. DataIsNewest'
    BY <1>1, <1>5, <1>8 DEF DataIsNewest
  <1>12. HeldIsNewest'
    <2> SUFFICES ASSUME NEW x \in Workers, worker'[x].pc = "put", ~worker'[x].late
                 PROVE  /\ worker'[x].version >= done'[worker'[x].key]
                        /\ \A v \in Workers : Applied(v, worker[x].key)' =>
                              worker'[x].version >= worker'[v].version
      BY <1>2, <1>4 DEF HeldIsNewest, Applied
    <2>1. worker'[x] = worker[x] /\ worker[x].key \in Keys
      BY <1>2, <1>4 DEF KnowsItsKey
    <2> QED BY <2>1, <1>5, <1>7 DEF HeldIsNewest
  <1>13. StoredIsNewest'
    BY <1>1, <1>5, <1>7 DEF StoredIsNewest
  <1>14. OnlyIfEnabled'
    BY <1>1, <1>2, <1>4 DEF OnlyIfEnabled
  <1> QED BY <1>9, <1>10, <1>11, <1>12, <1>13, <1>14

-----------------------------------------------------------------------------
(* The environment.                                                         *)

LEMMA ExpireKeepsInv ==
  ASSUME Inv, NEW k \in Keys, Expire(k)
  PROVE  Inv'
  <1> USE DEF Inv
  <1>1. /\ store' = [store EXCEPT ![k] = Absent] /\ raced' = raced \ {k}
        /\ UNCHANGED <<now, data, up, worker, done>>
    BY DEF Expire
  <1>2. \A j \in Keys : data[j] \in 0..now /\ now \in Nat
    BY SlurmrestdCacheAssumption DEF TypeOK, Versions
  <1>3. TypeOK'
    <2>1. store' \in [Keys -> {Absent} \union Versions]
      BY <1>1 DEF TypeOK
    <2>2. \A j \in Keys : store'[j] <= data[j]
      BY <1>1, <1>2 DEF TypeOK, Absent
    <2> QED BY <1>1, <2>1, <2>2 DEF TypeOK
  <1>4. KnowsItsKey' /\ DataIsNewest' /\ HeldIsNewest'
    BY <1>1 DEF KnowsItsKey, DataIsNewest, HeldIsNewest, Applied
  <1>5. StoredIsNewest'
    BY <1>1 DEF StoredIsNewest, Applied, TypeOK
  <1>6. OnlyIfEnabled'
    BY <1>1 DEF OnlyIfEnabled, TypeOK
  <1> QED BY <1>3, <1>4, <1>5, <1>6

LEMMA SlurmChangeKeepsInv ==
  ASSUME Inv, NEW k \in Keys, SlurmChange(k)
  PROVE  Inv'
  <1> USE DEF Inv
  <1>1. /\ now' = now + 1 /\ now' \in Versions /\ now \in Versions
        /\ data' = [data EXCEPT ![k] = now + 1]
        /\ UNCHANGED <<store, up, worker, done, raced>>
    BY SlurmrestdCacheAssumption DEF SlurmChange, TypeOK, Versions
  <1>2. \A j \in Keys : data[j] \in 0..now /\ data'[j] >= data[j] /\ data'[j] \in 0..now'
    BY <1>1 DEF TypeOK, Versions
  <1>3. \A v \in Workers : worker[v].version \in Versions
    BY DEF TypeOK, WorkerState
  <1>4. TypeOK'
    <2>1. data' \in [Keys -> 0..now']
      BY <1>1, <1>2 DEF TypeOK
    <2>2. \A j \in Keys : store[j] <= data'[j] /\ done[j] <= data'[j]
      BY <1>2 DEF TypeOK, Versions, Absent
    <2> QED BY <1>1, <2>1, <2>2 DEF TypeOK
  <1>5. KnowsItsKey'
    BY <1>1, <1>2, <1>3 DEF KnowsItsKey, Versions
  <1>6. DataIsNewest'
    <2> SUFFICES ASSUME NEW j \in Keys
                 PROVE  /\ data'[j] >= done[j]
                        /\ \A v \in Workers : Applied(v, j) => data'[j] >= worker[v].version
      BY <1>1 DEF DataIsNewest, Applied
    <2>1. done[j] \in Versions
      BY DEF TypeOK
    <2> QED BY <2>1, <1>2, <1>3 DEF DataIsNewest, Versions
  <1>7. HeldIsNewest' /\ StoredIsNewest' /\ OnlyIfEnabled'
    BY <1>1 DEF HeldIsNewest, StoredIsNewest, OnlyIfEnabled, Applied
  <1> QED BY <1>4, <1>5, <1>6, <1>7

LEMMA RedisToggleKeepsInv ==
  ASSUME Inv, RedisToggle \/ UNCHANGED vars
  PROVE  Inv'
  <1>1. UNCHANGED <<now, data, store, worker, done, raced>> /\ up' \in BOOLEAN
    BY DEF RedisToggle, vars, Inv, TypeOK
  <1> QED BY <1>1 DEF Inv, TypeOK, KnowsItsKey, DataIsNewest, HeldIsNewest, StoredIsNewest,
             OnlyIfEnabled, Applied

LEMMA InvStep == Inv /\ [Next]_vars => Inv'
  <1> SUFFICES ASSUME Inv, [Next]_vars PROVE Inv'
    OBVIOUS
  <1>1. ASSUME NEW w \in Workers, Read(w) PROVE Inv'
    <2>1. CASE Fetch(w)
      BY <2>1, FetchKeepsInv
    <2>2. CASE Put(w)
      BY <2>2, PutKeepsInv
    <2>3. CASE Ending(w)
      BY <2>3, EndingReleases, ReleaseKeepsInv
    <2> QED BY <1>1, <2>1, <2>2, <2>3 DEF Read, Ending
  <1>2. ASSUME NEW w \in Workers, Write(w) PROVE Inv'
    <2>1. CASE \E op \in Operations : WriteCall(w, op)
      BY <2>1, WriteCallKeepsInv
    <2>2. CASE \E k \in Keys : DeleteKey(w, k)
      BY <2>2, DeleteKeyKeepsInv
    <2>3. CASE WriteReturns(w)
      BY <2>3, WriteReturnsKeepsInv
    <2>4. CASE Ending(w)
      BY <2>4, EndingReleases, ReleaseKeepsInv
    <2> QED BY <1>2, <2>1, <2>2, <2>3, <2>4 DEF Write, Ending
  <1>3. ASSUME NEW k \in Keys, Expire(k) \/ SlurmChange(k) PROVE Inv'
    BY <1>3, ExpireKeepsInv, SlurmChangeKeepsInv
  <1> QED BY <1>1, <1>2, <1>3, RedisToggleKeepsInv DEF Next

-----------------------------------------------------------------------------
(* The theorems.                                                            *)

\* Types, and that nothing cached, fetched or settled is newer than Slurm.
THEOREM CacheTypeCorrect == Spec => []TypeOK
  <1>1. Inv => TypeOK
    BY DEF Inv
  <1> QED BY <1>1, InvInit, InvStep, PTL DEF Spec

\* slurmrestd/__init__.py:1144-1167: once a write has returned, only a read that
\* was fetching while the write was applied can leave an older answer cached.
THEOREM StaleEntriesWereRaced == Spec => []StaleOnlyIfRaced
  <1>1. Inv => StaleOnlyIfRaced
    <2> SUFFICES ASSUME Inv, NEW k \in Keys, store[k] # Absent, store[k] < done[k]
                 PROVE  k \in raced
      BY DEF StaleOnlyIfRaced
    <2>1. store[k] \in Versions /\ done[k] \in Versions
      BY DEF Inv, TypeOK
    <2> QED BY <2>1 DEF Inv, StoredIsNewest, Versions
  <1> QED BY <1>1, InvInit, InvStep, PTL DEF Spec

-----------------------------------------------------------------------------
(* The discovery of the version.                                            *)

LocalState == [pc : Steps, version : {None} \union Supported, asks : BOOLEAN,
               answer : {"none", "failed", "found", "adapted", "raw"}]

\* Every version newer than v was refused.
NewerRefused(v) == \A w \in Supported : w > v => w \in refused

\* A thread that pings has tried the newer versions; a version it stores was
\* accepted, and so was one it asks; none compares or asks before one is known.
ThreadInv(t) ==
    LET me == thread[t] IN
    /\ me.pc = "ping" => me.version \in Supported /\ NewerRefused(me.version)
    /\ me.pc \in {"release", "version"} =>
          me.version \in Supported /\ me.version \in accepted /\ NewerRefused(me.version)
    /\ me.pc \in {"compare", "build"} => api # None
    /\ me.pc = "chain" => api # None /\ me.version \in accepted
    /\ me.pc \in {"send", "adapt"} => api # None
    /\ me.pc = "adapt" => me.version \in accepted

DiscoveryInv ==
    /\ DiscoveryTypeOK
    /\ \A t \in Threads : ThreadInv(t)
    /\ NewestAccepted
    /\ SettledChain

LEMMA LocalStates ==
  /\ \A pc \in Steps, v \in {None} \union Supported, asks \in BOOLEAN :
        /\ At(pc, v, asks) \in LocalState
        /\ At(pc, v, asks).pc = pc /\ At(pc, v, asks).version = v
  /\ \A answer \in {"none", "failed", "found", "adapted", "raw"} :
        Done(answer) \in LocalState /\ Done(answer).pc = "idle"
  <1>1. ASSUME NEW pc \in Steps, NEW v \in {None} \union Supported, NEW asks \in BOOLEAN
        PROVE  /\ At(pc, v, asks) \in LocalState
               /\ At(pc, v, asks).pc = pc /\ At(pc, v, asks).version = v
    BY DEF At, LocalState
  <1>2. ASSUME NEW a \in {"none", "failed", "found", "adapted", "raw"}
        PROVE  Done(a) \in LocalState /\ Done(a).pc = "idle"
    BY <1>2 DEF Done, LocalState, Steps
  <1> QED BY <1>1, <1>2

LEMMA ChainTyped == \A v \in {None} \union Supported : ChainFrom(v) \in {None} \union Supported
  BY SlurmrestdDiscoveryAssumption DEF ChainFrom, Supported, None

LEMMA DiscoveryInvInit == DiscoveryInit => DiscoveryInv
  <1> SUFFICES ASSUME DiscoveryInit PROVE DiscoveryInv
    OBVIOUS
  <1>1. DiscoveryTypeOK
    <2>1. thread \in [Threads -> LocalState]
      BY LocalStates DEF DiscoveryInit
    <2>2. api \in {None} \union Supported /\ chain \in {None} \union Supported
      BY DEF DiscoveryInit
    <2>3. served \subseteq Supported /\ upgrades \in 0..MaxUpgrades
      BY SlurmrestdDiscoveryAssumption DEF DiscoveryInit, Supported
    <2>4. cluster \in BOOLEAN /\ release \in BOOLEAN
      BY DEF DiscoveryInit
    <2>5. refused \subseteq Supported /\ accepted \subseteq Supported
      BY DEF DiscoveryInit
    <2> QED BY <2>1, <2>2, <2>3, <2>4, <2>5 DEF DiscoveryTypeOK, LocalState
  <1>2. \A t \in Threads : ThreadInv(t)
    BY LocalStates DEF DiscoveryInit, ThreadInv
  <1>3. NewestAccepted /\ SettledChain
    BY DEF DiscoveryInit, NewestAccepted, SettledChain
  <1> QED BY <1>1, <1>2, <1>3 DEF DiscoveryInv

-----------------------------------------------------------------------------
(* Steps that store nothing shared but what the history adds.               *)

\* Thread t moves to a state that fits; the version and the chain stay, and t
\* does not leave the section between their assignments.
Moves(t, state) ==
    /\ SetThread(t, state)
    /\ state \in LocalState
    /\ UNCHANGED <<api, chain>>
    /\ cluster' \in BOOLEAN /\ release' \in BOOLEAN
    /\ served' = served /\ upgrades' = upgrades
    /\ refused \subseteq refused' /\ refused' \subseteq Supported
    /\ accepted \subseteq accepted' /\ accepted' \subseteq Supported
    /\ Settling(t) => state.pc \in {"compare", "build", "chain"}
    /\ state.pc = "ping" =>
          state.version \in Supported /\ \A w \in Supported : w > state.version => w \in refused'
    /\ state.pc \in {"release", "version"} =>
          /\ state.version \in Supported /\ state.version \in accepted'
          /\ \A w \in Supported : w > state.version => w \in refused'
    /\ state.pc \in {"compare", "build"} => api # None
    /\ state.pc = "chain" => api # None /\ state.version \in accepted'
    /\ state.pc \in {"send", "adapt"} => api # None
    /\ state.pc = "adapt" => state.version \in accepted'

LEMMA MoveKeepsInv ==
  ASSUME DiscoveryInv, NEW t \in Threads, NEW state, Moves(t, state)
  PROVE  DiscoveryInv'
  <1> USE DEF DiscoveryInv, Moves
  <1>1. thread' = [thread EXCEPT ![t] = state] /\ thread \in [Threads -> LocalState]
    BY DEF SetThread, DiscoveryTypeOK, LocalState
  <1>2. \A u \in Threads : thread'[u] = IF u = t THEN state ELSE thread[u]
    BY <1>1
  <1>3. thread' \in [Threads -> LocalState]
    BY <1>1
  <1>4. DiscoveryTypeOK'
    BY <1>3 DEF DiscoveryTypeOK, LocalState
  <1>5. ASSUME NEW u \in Threads PROVE ThreadInv(u)'
    <2>1. CASE u = t
      BY <2>1, <1>2 DEF ThreadInv, NewerRefused
    <2>2. CASE u # t
      BY <2>2, <1>2 DEF ThreadInv, NewerRefused
    <2> QED BY <2>1, <2>2
  <1>6. NewestAccepted'
    BY DEF NewestAccepted
  <1>7. SettledChain'
    BY <1>2 DEF SettledChain, Settling
  <1> QED BY <1>4, <1>5, <1>6, <1>7

LEMMA StepMoves ==
  ASSUME DiscoveryInv, NEW t \in Threads, Step(t), ~StoreVersion(t), ~StoreChain(t)
  PROVE  \E state : Moves(t, state)
  <1> USE SlurmrestdDiscoveryAssumption DEF DiscoveryInv
  <1> DEFINE me == thread[t]
  <1>0. /\ me \in LocalState /\ Newest \in Supported /\ ThreadInv(t)
        /\ \A v \in Supported : v > Newest => FALSE
    BY DEF DiscoveryTypeOK, LocalState, Supported
  <1>1. CASE Request(t) \/ Discover(t)
    <2>1. PICK pc \in {"check", "send"}, asks \in BOOLEAN :
            /\ SetThread(t, At(pc, None, asks)) /\ me.pc = "idle"
            /\ pc = "send" => api # None
            /\ UNCHANGED <<cluster, release, api, chain, served, upgrades, refused, accepted>>
      BY <1>1 DEF Request, Discover
    <2>2. At(pc, None, asks) \in LocalState /\ At(pc, None, asks).pc = pc
      <3>1. pc \in Steps /\ None \in {None} \union Supported
        BY DEF Steps
      <3> QED BY <3>1, LocalStates
    <2> QED BY <2>1, <2>2 DEF Moves, DiscoveryTypeOK, Settling
  <1>2. CASE Send(t)
    <2>1. At("adapt", api, TRUE) \in LocalState /\ At("adapt", api, TRUE).pc = "adapt"
      BY LocalStates DEF Steps, DiscoveryTypeOK
    <2>2. api \in accepted /\ At("adapt", api, TRUE).version = api
      BY <1>0, <1>2, LocalStates DEF Send, ThreadInv, NewestAccepted, DiscoveryTypeOK, Steps
    <2>3. api # None
      BY <1>0, <1>2 DEF Send, ThreadInv
    <2> QED BY <1>2, <2>1, <2>2, <2>3 DEF Send, Moves, DiscoveryTypeOK, Settling
  <1>3. CASE SendFails(t) \/ PingRaises(t)
    BY <1>3, LocalStates DEF SendFails, PingRaises, Moves, DiscoveryTypeOK, Settling
  <1>4. CASE Adapt(t)
    <2>1. PICK answer \in {"adapted", "raw"} : SetThread(t, Done(answer))
      BY <1>4 DEF Adapt
    <2> QED BY <1>4, <2>1, LocalStates DEF Adapt, Moves, DiscoveryTypeOK, Settling
  <1>5. CASE Check(t) /\ cluster /\ release /\ api # None
    <2> DEFINE state == [me EXCEPT !.pc = "compare"]
    <2>1. state \in LocalState /\ state.pc = "compare"
      BY <1>0 DEF LocalState, Steps
    <2>2. SetThread(t, state) /\ me.pc = "check"
      BY <1>5 DEF Check
    <2> HIDE DEF state
    <2> QED BY <1>5, <2>1, <2>2 DEF Check, Moves, DiscoveryTypeOK, Settling
  <1>6. CASE Check(t) /\ ~(cluster /\ release /\ api # None)
    <2> DEFINE state == [me EXCEPT !.pc = "ping", !.version = Newest]
    <2>1. state \in LocalState /\ state.pc = "ping" /\ state.version = Newest
      BY <1>0 DEF LocalState, Steps
    <2>2. SetThread(t, state) /\ me.pc = "check"
      BY <1>6 DEF Check, FirstTried
    <2> HIDE DEF state
    <2> QED BY <1>0, <1>6, <2>1, <2>2 DEF Check, Moves, DiscoveryTypeOK, Settling
  <1>7. CASE PingAccepted(t)
    <2> DEFINE state == [me EXCEPT !.pc = "release"]
    <2>1. state \in LocalState /\ state.pc = "release" /\ state.version = me.version
      BY <1>0 DEF LocalState, Steps
    <2>2. /\ SetThread(t, state) /\ me.pc = "ping" /\ cluster' = TRUE
          /\ accepted' = accepted \union {me.version}
          /\ UNCHANGED <<release, api, chain, served, upgrades, refused>>
      BY <1>7 DEF PingAccepted
    <2>3. me.version \in Supported /\ \A w \in Supported : w > me.version => w \in refused
      BY <1>0, <2>2 DEF ThreadInv, NewerRefused
    <2> HIDE DEF state
    <2> QED BY <2>1, <2>2, <2>3 DEF Moves, DiscoveryTypeOK, Settling
  <1>8. CASE PingRejected(t)
    <2>1. /\ me.pc = "ping" /\ refused' = refused \union {me.version}
          /\ cluster' \in BOOLEAN
          /\ UNCHANGED <<release, api, chain, served, upgrades, accepted>>
      BY <1>8 DEF PingRejected, DiscoveryTypeOK
    <2>2. me.version \in Supported /\ \A w \in Supported : w > me.version => w \in refused
      BY <1>0, <2>1 DEF ThreadInv, NewerRefused
    <2>3. CASE me.version - 1 = None
      <3>1. SetThread(t, Done("failed"))
        BY <1>8, <2>3 DEF PingRejected, NextTried
      <3> QED BY <2>1, <2>2, <3>1, LocalStates DEF Moves, DiscoveryTypeOK, Settling
    <2>4. CASE me.version - 1 # None
      <3> DEFINE state == [me EXCEPT !.version = me.version - 1]
      <3>1. me.version - 1 \in Supported
        BY <2>2, <2>4 DEF Supported, None
      <3>2. state \in LocalState /\ state.pc = "ping" /\ state.version = me.version - 1
        BY <1>0, <2>1, <3>1 DEF LocalState
      <3>3. SetThread(t, state)
        BY <1>8, <2>4 DEF PingRejected, NextTried
      <3>4. \A w \in Supported : w > me.version - 1 => w \in refused'
        BY <2>1, <2>2 DEF Supported
      <3> HIDE DEF state
      <3> QED BY <2>1, <2>2, <3>1, <3>2, <3>3, <3>4 DEF Moves, DiscoveryTypeOK, Settling
    <2> QED BY <2>3, <2>4
  <1>9. CASE StoreRelease(t)
    <2> DEFINE state == [me EXCEPT !.pc = "version"]
    <2>1. state \in LocalState /\ state.pc = "version" /\ state.version = me.version
      BY <1>0 DEF LocalState, Steps
    <2>2. SetThread(t, state) /\ me.pc = "release"
      BY <1>9 DEF StoreRelease
    <2>3. /\ me.version \in Supported /\ me.version \in accepted
          /\ \A w \in Supported : w > me.version => w \in refused
      BY <1>0, <2>2 DEF ThreadInv, NewerRefused
    <2> HIDE DEF state
    <2> QED BY <1>9, <2>1, <2>2, <2>3 DEF StoreRelease, Moves, DiscoveryTypeOK, Settling
  <1>10. CASE Compare(t) \/ Build(t)
    <2>1. me.pc \in {"compare", "build"} /\ api # None /\ api \in accepted
      BY <1>0, <1>10 DEF Compare, Build, ThreadInv, NewestAccepted
    <2>2. UNCHANGED <<cluster, release, api, chain, served, upgrades, refused, accepted>>
      BY <1>10 DEF Compare, Build
    <2>3. CASE SetThread(t, [me EXCEPT !.pc = "build"])
      <3> DEFINE state == [me EXCEPT !.pc = "build"]
      <3>1. state \in LocalState /\ state.pc = "build"
        BY <1>0 DEF LocalState, Steps
      <3> QED BY <2>1, <2>2, <2>3, <3>1 DEF Moves, DiscoveryTypeOK
    <2>4. CASE SetThread(t, [me EXCEPT !.pc = "chain", !.version = api])
      <3> DEFINE state == [me EXCEPT !.pc = "chain", !.version = api]
      <3>1. state \in LocalState /\ state.pc = "chain" /\ state.version = api
        BY <1>0 DEF LocalState, Steps, DiscoveryTypeOK
      <3>2. SetThread(t, state)
        BY <2>4
      <3> HIDE DEF state
      <3>3. Moves(t, state)
        BY <2>1, <2>2, <3>1, <3>2 DEF Moves, DiscoveryTypeOK
      <3> QED BY <3>3
    <2> QED BY <1>10, <2>3, <2>4 DEF Compare, Build
  <1> QED BY <1>1, <1>2, <1>3, <1>4, <1>5, <1>6, <1>7, <1>8, <1>9, <1>10 DEF Step

-----------------------------------------------------------------------------
(* The assignments of the version and of the chain.                         *)

LEMMA StoreVersionKeepsInv ==
  ASSUME DiscoveryInv, NEW t \in Threads, StoreVersion(t)
  PROVE  DiscoveryInv'
  <1> USE DEF DiscoveryInv
  <1> DEFINE me == thread[t]
             state == [me EXCEPT !.pc = "compare"]
  <1>1. /\ me.pc = "version" /\ api' = me.version
        /\ UNCHANGED <<cluster, release, chain, served, upgrades, refused, accepted>>
        /\ thread' = [thread EXCEPT ![t] = state] /\ thread \in [Threads -> LocalState]
    BY DEF StoreVersion, SetThread, DiscoveryTypeOK, LocalState
  <1>2. state \in LocalState /\ state.pc = "compare"
    BY <1>1 DEF LocalState, Steps
  <1> HIDE DEF state
  <1>3. me.version \in Supported /\ me.version \in accepted /\ NewerRefused(me.version)
        /\ me.version # None
    BY <1>1 DEF ThreadInv, Supported, None
  <1>4. \A u \in Threads : thread'[u] = IF u = t THEN state ELSE thread[u]
    BY <1>1
  <1>5. DiscoveryTypeOK'
    <2>1. thread' \in [Threads -> LocalState]
      BY <1>1, <1>2
    <2> QED BY <2>1, <1>1, <1>3 DEF DiscoveryTypeOK, LocalState
  <1>6. ASSUME NEW u \in Threads PROVE ThreadInv(u)'
    BY <1>1, <1>2, <1>3, <1>4 DEF ThreadInv, NewerRefused
  <1>7. NewestAccepted'
    BY <1>1, <1>3 DEF NewestAccepted, NewerRefused
  <1>8. SettledChain'
    BY <1>2, <1>4 DEF SettledChain, Settling
  <1> QED BY <1>5, <1>6, <1>7, <1>8

LEMMA StoreChainKeepsInv ==
  ASSUME DiscoveryInv, NEW t \in Threads, StoreChain(t)
  PROVE  DiscoveryInv'
  <1> USE DEF DiscoveryInv
  <1> DEFINE me == thread[t]
  <1>1. PICK state \in LocalState :
        /\ state.pc \in {"send", "idle"}
        /\ thread' = [thread EXCEPT ![t] = state]
    <2>1. At("send", None, TRUE) \in LocalState /\ At("send", None, TRUE).pc = "send"
      BY LocalStates DEF Steps
    <2> QED BY <2>1, LocalStates DEF StoreChain, SetThread
  <1>2. /\ me.pc = "chain" /\ chain' = ChainFrom(me.version)
        /\ UNCHANGED <<cluster, release, api, served, upgrades, refused, accepted>>
        /\ thread \in [Threads -> LocalState]
    BY DEF StoreChain, DiscoveryTypeOK, LocalState
  <1>3. me.version \in accepted /\ api # None /\ api \in accepted
    BY <1>2 DEF ThreadInv, NewestAccepted
  <1>4. \A u \in Threads : thread'[u] = IF u = t THEN state ELSE thread[u]
    BY <1>1, <1>2
  <1>5. DiscoveryTypeOK'
    <2>1. thread' \in [Threads -> LocalState]
      BY <1>1, <1>2
    <2>2. chain' \in {None} \union Supported
      BY <1>2, <1>3, ChainTyped DEF DiscoveryTypeOK
    <2> QED BY <2>1, <2>2, <1>2 DEF DiscoveryTypeOK, LocalState
  <1>6. ASSUME NEW u \in Threads PROVE ThreadInv(u)'
    BY <1>1, <1>2, <1>4 DEF ThreadInv, NewerRefused
  <1>7. NewestAccepted'
    BY <1>2 DEF NewestAccepted
  <1>8. SettledChain'
    BY <1>2, <1>3 DEF SettledChain
  <1> QED BY <1>5, <1>6, <1>7, <1>8

LEMMA DiscoveryInvStep == DiscoveryInv /\ [DiscoveryNext]_discoveryVars => DiscoveryInv'
  <1> SUFFICES ASSUME DiscoveryInv, [DiscoveryNext]_discoveryVars PROVE DiscoveryInv'
    OBVIOUS
  <1>1. CASE Upgrade
    <2>1. /\ UNCHANGED <<cluster, release, api, chain, thread, refused, accepted>>
          /\ served' \in SUBSET Supported /\ upgrades' \in 0..MaxUpgrades
      BY <1>1, SlurmrestdDiscoveryAssumption DEF Upgrade, DiscoveryInv, DiscoveryTypeOK
    <2> QED BY <2>1 DEF DiscoveryInv, DiscoveryTypeOK, ThreadInv, NewerRefused, NewestAccepted, SettledChain,
               Settling
  <1>2. ASSUME NEW t \in Threads, Step(t) PROVE DiscoveryInv'
    <2>1. CASE ~StoreVersion(t) /\ ~StoreChain(t)
      BY <1>2, <2>1, StepMoves, MoveKeepsInv
    <2> QED BY <2>1, StoreVersionKeepsInv, StoreChainKeepsInv
  <1>3. CASE UNCHANGED discoveryVars
    BY <1>3 DEF discoveryVars, DiscoveryInv, DiscoveryTypeOK, ThreadInv, NewerRefused,
                NewestAccepted, SettledChain, Settling
  <1> QED BY <1>1, <1>2, <1>3 DEF DiscoveryNext

-----------------------------------------------------------------------------
(* The theorems.                                                            *)

\* Slurmrestd.discover(): whatever the interleaving of the discoveries, the
\* failing pings and the restarts of slurmrestd, the version in use was accepted
\* and every newer one had been refused.
THEOREM NewestVersionInUse == DiscoverySpec => []NewestAccepted
  <1>1. DiscoveryInv => NewestAccepted
    BY DEF DiscoveryInv
  <1> QED BY <1>1, DiscoveryInvInit, DiscoveryInvStep, PTL DEF DiscoverySpec

\* SlurmrestdAdapter.discover(): as long as the discoveries agree, the chain fits
\* the version once no thread is between the two assignments.
THEOREM ChainSettles == DiscoverySpec => []SettledChain
  <1>1. DiscoveryInv => SettledChain
    BY DEF DiscoveryInv
  <1> QED BY <1>1, DiscoveryInvInit, DiscoveryInvStep, PTL DEF DiscoverySpec

\* SlurmrestdAdapter._request(): as long as the discoveries agree, an answer only
\* goes out unadapted while a thread is between the two assignments.
THEOREM AnswersFitOnceSettled == DiscoverySpec => RawOnlyWhileSettling
  <1>1. ASSUME DiscoveryInv, NEW t \in Threads, Adapt(t), thread'[t].answer = "raw",
               \A s \in Threads : ~Settling(s), \A v, w \in accepted : v = w
        PROVE  FALSE
    <2>1. thread[t].pc = "adapt" /\ thread[t].version \in accepted
      BY <1>1 DEF Adapt, DiscoveryInv, ThreadInv
    <2>2. api = thread[t].version
      <3>2. api \in accepted
        BY <1>1, <2>1 DEF DiscoveryInv, ThreadInv, NewestAccepted
      <3> QED BY <1>1, <2>1, <3>2
    <2>3. chain = ChainFrom(thread[t].version)
      BY <1>1, <2>1, <2>2 DEF DiscoveryInv, SettledChain, ThreadInv
    <2>4. thread' = [thread EXCEPT ![t] = Done("adapted")]
      BY <1>1, <2>3 DEF Adapt, SetThread
    <2>5. thread'[t].answer = "adapted"
      BY <1>1, <2>4 DEF DiscoveryInv, DiscoveryTypeOK, Done
    <2> QED BY <1>1, <2>5
  <1>2. DiscoveryInv /\ [DiscoveryNext]_discoveryVars =>
          [\A t \in Threads : Adapt(t) /\ thread'[t].answer = "raw" =>
             (\E s \in Threads : Settling(s)) \/ (\E v, w \in accepted : v # w)]_discoveryVars
    BY <1>1
  <1> QED BY <1>2, DiscoveryInvInit, DiscoveryInvStep, PTL DEF DiscoverySpec, RawOnlyWhileSettling

-----------------------------------------------------------------------------
(* The statistics of the cache.                                             *)

USE StatisticsAssumption

StatesOfCall ==
    [pc : {"idle", "incr", "incr_total", "total", "list", "delete", "forget"},
     kind : Kinds, key : CountedKeys \cup {"none"}, todo : SUBSET CountedKeys]

StatisticsTypeOK ==
    /\ members \in [Kinds -> SUBSET CountedKeys]
    /\ counter \in [Kinds -> [CountedKeys -> Nat]]
    /\ total \in [Kinds -> Nat]
    /\ caller \in [Callers -> StatesOfCall]
    /\ torn \in BOOLEAN

\* A count under way knows its key, which is in the set until a reset meets it.
CountsAKey ==
    \A c \in Callers :
        caller[c].pc \in {"incr", "incr_total"} =>
            /\ caller[c].key \in CountedKeys
            /\ ~torn => caller[c].key \in members[caller[c].kind]

\* The counters of a kind that may be left are those of todo.
LeftIn(kind, todo) == \A k \in CountedKeys : counter[kind][k] > 0 => k \in todo
Covered(kind) == LeftIn(kind, members[kind])

\* What a reset, alone, has done so far.
ResetAt(me) ==
    /\ total["hit"] = 0 /\ (me.pc = "total" \/ total["miss"] = 0)
    /\ me.pc = "total" => Covered("hit") /\ Covered("miss")
    /\ me.pc = "list" /\ me.kind = "hit" => Covered("hit") /\ Covered("miss")
    /\ me.pc = "delete" /\ me.kind = "hit" => LeftIn("hit", me.todo) /\ Covered("miss")
    /\ me.pc = "list" /\ me.kind = "miss" => LeftIn("hit", {}) /\ Covered("miss")
    /\ me.pc = "delete" /\ me.kind = "miss" => LeftIn("hit", {}) /\ LeftIn("miss", me.todo)
    /\ me.pc = "forget" => LeftIn("hit", {}) /\ LeftIn("miss", {})

\* A reset is alone, or the statistics are torn.
ResetsAlone ==
    ~torn => \A c, d \in Callers : Resets(c) /\ d # c => caller[d].pc = "idle"

Agrees(kind) == total[kind] + Owed(kind) = Sum(kind) /\ Covered(kind)

StatisticsInv ==
    /\ StatisticsTypeOK /\ CountsAKey /\ ResetsAlone
    /\ ~torn =>
        /\ \A c \in Callers : Resets(c) => ResetAt(caller[c])
        /\ (\A c \in Callers : ~Resets(c)) => \A kind \in Kinds : Agrees(kind)

\* The counts that are owed, as a set.
Owing(kind) == {c \in Callers : caller[c].pc = "incr_total" /\ caller[c].kind = kind}

LEMMA OwedIsNat ==
    ASSUME NEW kind
    PROVE  IsFiniteSet(Owing(kind)) /\ Owed(kind) = Cardinality(Owing(kind)) /\ Owed(kind) \in Nat
  <1>1. IsFiniteSet(Owing(kind))
    BY FS_Subset DEF Owing
  <1>2. Owed(kind) = Cardinality(Owing(kind))
    BY DEF Owed, Owing
  <1> QED BY <1>1, <1>2, FS_CardinalityType

\* The types are kept.
LEMMA StatisticsTypes ==
    ASSUME StatisticsTypeOK, CountsAKey, [StatisticsNext]_statisticsVars
    PROVE  StatisticsTypeOK'
  <1> USE DEF StatisticsTypeOK, StatesOfCall, CallerBecomes, CallerAt, NoCall, Kinds
  <1>1. ASSUME NEW c \in Callers, NEW kind \in Kinds, NEW k \in CountedKeys, CountKey(c, kind, k)
        PROVE  StatisticsTypeOK'
    BY <1>1 DEF CountKey
  <1>2. ASSUME NEW c \in Callers, Incr(c) PROVE StatisticsTypeOK'
    BY <1>2 DEF Incr, CountsAKey
  <1>3. ASSUME NEW c \in Callers, IncrTotal(c) PROVE StatisticsTypeOK'
    BY <1>3 DEF IncrTotal
  <1>4. ASSUME NEW c \in Callers, Reset(c) \/ ResetTotal(c) PROVE StatisticsTypeOK'
    <2>1. CASE Reset(c)
      BY <2>1 DEF Reset
    <2>2. CASE ResetTotal(c)
      BY <2>2 DEF ResetTotal
    <2> QED BY <1>4, <2>1, <2>2
  <1>5. ASSUME NEW c \in Callers, ListKeys(c) PROVE StatisticsTypeOK'
    BY <1>5 DEF ListKeys
  <1>6. ASSUME NEW c \in Callers, NEW k \in CountedKeys, DeleteCounter(c, k) PROVE StatisticsTypeOK'
    BY <1>6 DEF DeleteCounter
  <1>7. ASSUME NEW c \in Callers, CountersDeleted(c) PROVE StatisticsTypeOK'
    BY <1>7 DEF CountersDeleted
  <1>8. ASSUME NEW c \in Callers, ForgetKeys(c) PROVE StatisticsTypeOK'
    BY <1>8 DEF ForgetKeys
  <1>9. ASSUME NEW c \in Callers, CutShort(c) PROVE StatisticsTypeOK'
    BY <1>9 DEF CutShort
  <1>10. CASE UNCHANGED statisticsVars
    BY <1>10 DEF statisticsVars
  <1> QED BY <1>1, <1>2, <1>3, <1>4, <1>5, <1>6, <1>7, <1>8, <1>9, <1>10 DEF StatisticsNext

\* Once torn, there is nothing else to keep.
LEMMA TornIsAll ==
    ASSUME StatisticsTypeOK', torn',
           \A c \in Callers : caller'[c].pc \in {"incr", "incr_total"} => caller'[c].key \in CountedKeys
    PROVE  StatisticsInv'
  BY DEF StatisticsInv, CountsAKey, ResetsAlone

\* A reset that goes on stays alone.
LEMMA ResetGoesOn ==
    ASSUME StatisticsInv, StatisticsTypeOK', NEW c \in Callers, Resets(c), Resets(c)', torn' = torn,
           \A d \in Callers : d # c => caller'[d] = caller[d],
           ~torn => ResetAt(caller[c])'
    PROVE  StatisticsInv'
  <1>1. ~torn => \A d \in Callers : d # c => caller[d].pc = "idle" /\ caller'[d].pc = "idle"
    BY DEF StatisticsInv, ResetsAlone
  <1>2. caller'[c].pc \notin {"incr", "incr_total", "idle"}
    BY DEF Resets
  <1>3. \A d \in Callers : Resets(d)' /\ ~torn => d = c
    BY <1>1 DEF Resets
  <1>4. CountsAKey'
    BY <1>1, <1>2 DEF StatisticsInv, CountsAKey
  <1>5. ResetsAlone'
    BY <1>1, <1>3 DEF ResetsAlone
  <1> QED BY <1>3, <1>4, <1>5 DEF StatisticsInv

\* A step of a count, alone or with others: no reset is under way.
LEMMA CountGoesOn ==
    ASSUME StatisticsInv, StatisticsTypeOK', NEW c \in Callers, ~Resets(c), ~Resets(c)',
           ~torn' => ~torn /\ (caller[c].pc # "idle" \/ \A d \in Callers : ~Resets(d)),
           \A d \in Callers : d # c => caller'[d] = caller[d],
           CountsAKey',
           ~torn /\ (\A d \in Callers : ~Resets(d)) => \A kind \in Kinds : Agrees(kind)'
    PROVE  StatisticsInv'
  <1>1. ~torn' => ~torn /\ \A d \in Callers : ~Resets(d)
    BY DEF StatisticsInv, ResetsAlone
  <1>2. ~torn' => \A d \in Callers : ~Resets(d)'
    BY <1>1 DEF Resets
  <1> QED BY <1>1, <1>2 DEF StatisticsInv, ResetsAlone

LEMMA StatisticsCount ==
    ASSUME StatisticsInv, StatisticsTypeOK', NEW c \in Callers, NEW kind \in Kinds, NEW k \in CountedKeys,
           CountKey(c, kind, k)
    PROVE  StatisticsInv'
  <1>1. /\ caller[c].pc = "idle" /\ caller'[c] = CallerAt("incr", kind, k, {})
        /\ \A d \in Callers : d # c => caller'[d] = caller[d]
        /\ members' = [members EXCEPT ![kind] = @ \union {k}] /\ UNCHANGED <<counter, total>>
        /\ torn' = (torn \/ \E d \in Callers : Resets(d))
    BY DEF CountKey, CallerBecomes, NoCall, CallerAt, StatisticsInv, StatisticsTypeOK
  <1>2. \A x \in Kinds : members[x] \subseteq members'[x]
    BY <1>1 DEF StatisticsInv, StatisticsTypeOK
  <1>3. k \in members'[kind]
    BY <1>1 DEF StatisticsInv, StatisticsTypeOK
  <1>4. CountsAKey'
    <2> SUFFICES ASSUME NEW d \in Callers, caller'[d].pc \in {"incr", "incr_total"}
                 PROVE  /\ caller'[d].key \in CountedKeys
                        /\ ~torn' => caller'[d].key \in members'[caller'[d].kind]
      BY DEF CountsAKey
    <2>1. CASE d = c
      BY <1>1, <1>3, <2>1 DEF CallerAt
    <2>2. CASE d # c
      <3>1. caller'[d] = caller[d] /\ caller[d].kind \in Kinds
        BY <1>1, <2>2 DEF StatisticsInv, StatisticsTypeOK, StatesOfCall
      <3>2. caller[d].key \in CountedKeys /\ (~torn => caller[d].key \in members[caller[d].kind])
        BY <3>1 DEF StatisticsInv, CountsAKey
      <3> QED BY <1>1, <1>2, <3>1, <3>2
    <2> QED BY <2>1, <2>2
  <1>5. ASSUME NEW x \in Kinds, Agrees(x) PROVE Agrees(x)'
    <2>1. Owing(x)' = Owing(x)
      BY <1>1 DEF Owing, CallerAt
    <2>2. Owed(x)' = Owed(x)
      BY <2>1, OwedIsNat DEF Owed, Owing
    <2>3. Sum(x)' = Sum(x)
      BY <1>1 DEF Sum
    <2>4. Covered(x)'
      BY <1>1, <1>2, <1>5 DEF Agrees, Covered, LeftIn
    <2> QED BY <1>1, <1>5, <2>2, <2>3, <2>4 DEF Agrees
  <1>6. ~Resets(c) /\ ~Resets(c)'
    BY <1>1 DEF Resets, CallerAt
  <1>7. ~torn /\ (\A d \in Callers : ~Resets(d)) => \A x \in Kinds : Agrees(x)'
    BY <1>5 DEF StatisticsInv
  <1>8. ~torn' => ~torn /\ \A d \in Callers : ~Resets(d)
    BY <1>1
  <1> QED BY <1>1, <1>4, <1>6, <1>7, <1>8, CountGoesOn

LEMMA StatisticsIncr ==
    ASSUME StatisticsInv, StatisticsTypeOK', NEW c \in Callers, Incr(c)
    PROVE  StatisticsInv'
  <1> DEFINE kind == caller[c].kind
             key == caller[c].key
  <1>1. /\ caller[c].pc = "incr" /\ kind \in Kinds /\ key \in CountedKeys
        /\ caller'[c] = [caller[c] EXCEPT !.pc = "incr_total"]
        /\ \A d \in Callers : d # c => caller'[d] = caller[d]
        /\ counter' = [counter EXCEPT ![kind] = [counter[kind] EXCEPT ![key] = counter[kind][key] + 1]]
        /\ UNCHANGED <<members, total, torn>>
    BY DEF Incr, CallerBecomes, StatisticsInv, StatisticsTypeOK, StatesOfCall, CountsAKey
  <1>2. caller'[c].pc = "incr_total" /\ caller'[c].kind = kind /\ caller'[c].key = key
    BY <1>1 DEF StatisticsInv, StatisticsTypeOK, StatesOfCall
  <1>3. CountsAKey'
    BY <1>1, <1>2 DEF StatisticsInv, CountsAKey
  <1>4. ~torn => key \in members[kind]
    BY <1>1 DEF StatisticsInv, CountsAKey
  <1>5. /\ counter[kind] \in [CountedKeys -> Nat]
        /\ counter'[kind] = [counter[kind] EXCEPT ![key] = counter[kind][key] + 1]
        /\ \A x \in Kinds : x # kind => counter'[x] = counter[x]
    BY <1>1 DEF StatisticsInv, StatisticsTypeOK
  <1> HIDE DEF kind, key
  <1>6. ASSUME NEW x \in Kinds, Agrees(x), ~torn PROVE Agrees(x)'
    <2>1. CASE x = kind
      <3>1. Owing(x)' = Owing(x) \cup {c} /\ c \notin Owing(x)
        BY <1>1, <1>2, <2>1 DEF Owing
      <3>2. Owed(x)' = Owed(x) + 1
        <4>1. Owed(x)' = Cardinality(Owing(x)')
          BY DEF Owed, Owing
        <4> QED BY <3>1, <4>1, OwedIsNat, FS_AddElement
      <3>3. Sum(x)' = Sum(x) + 1
        BY <1>1, <1>5, <2>1, TotalOfOneMore DEF Sum
      <3>4. Covered(x)'
        BY <1>1, <1>4, <1>5, <1>6, <2>1 DEF Agrees, Covered, LeftIn
      <3>5. total[x] \in Nat /\ Owed(x) \in Nat /\ total'[x] = total[x]
        BY <1>1, OwedIsNat DEF StatisticsInv, StatisticsTypeOK
      <3> QED BY <1>6, <3>2, <3>3, <3>4, <3>5 DEF Agrees
    <2>2. CASE x # kind
      <3>1. Owing(x)' = Owing(x)
        BY <1>1, <1>2, <2>2 DEF Owing
      <3>2. Owed(x)' = Owed(x)
        BY <3>1, OwedIsNat DEF Owed, Owing
      <3>3. Sum(x)' = Sum(x)
        BY <1>5, <2>2 DEF Sum
      <3>4. Covered(x)'
        BY <1>1, <1>5, <1>6, <2>2 DEF Agrees, Covered, LeftIn
      <3> QED BY <1>1, <1>6, <3>2, <3>3, <3>4 DEF Agrees
    <2> QED BY <2>1, <2>2
  <1>7. ~Resets(c) /\ ~Resets(c)'
    BY <1>1, <1>2 DEF Resets
  <1>8. ~torn /\ (\A d \in Callers : ~Resets(d)) => \A x \in Kinds : Agrees(x)'
    BY <1>6 DEF StatisticsInv
  <1> QED BY <1>1, <1>3, <1>7, <1>8, CountGoesOn

LEMMA StatisticsIncrTotal ==
    ASSUME StatisticsInv, StatisticsTypeOK', NEW c \in Callers, IncrTotal(c)
    PROVE  StatisticsInv'
  <1> DEFINE kind == caller[c].kind
  <1>1. /\ caller[c].pc = "incr_total" /\ kind \in Kinds /\ caller'[c].pc = "idle"
        /\ \A d \in Callers : d # c => caller'[d] = caller[d]
        /\ total' = [total EXCEPT ![kind] = @ + 1]
        /\ UNCHANGED <<members, counter, torn>>
    BY DEF IncrTotal, CallerBecomes, NoCall, CallerAt, StatisticsInv, StatisticsTypeOK, StatesOfCall
  <1>2. CountsAKey'
    BY <1>1 DEF StatisticsInv, CountsAKey
  <1>3. /\ total[kind] \in Nat /\ total'[kind] = total[kind] + 1
        /\ \A x \in Kinds : x # kind => total'[x] = total[x]
    BY <1>1 DEF StatisticsInv, StatisticsTypeOK
  <1> HIDE DEF kind
  <1>4. ASSUME NEW x \in Kinds, Agrees(x) PROVE Agrees(x)'
    <2>1. Sum(x)' = Sum(x) /\ Covered(x)'
      BY <1>1, <1>4 DEF Sum, Agrees, Covered, LeftIn
    <2>2. Owed(x)' = Cardinality(Owing(x)')
      BY DEF Owed, Owing
    <2>3. CASE x = kind
      <3>1. Owing(x)' = Owing(x) \ {c} /\ c \in Owing(x)
        BY <1>1, <2>3 DEF Owing, kind
      <3>2. Owed(x)' = Owed(x) - 1
        BY <2>2, <3>1, OwedIsNat, FS_RemoveElement
      <3>3. Owed(x) \in Nat
        BY OwedIsNat
      <3> QED BY <1>3, <1>4, <2>1, <2>3, <3>2, <3>3 DEF Agrees
    <2>4. CASE x # kind
      <3>1. Owing(x)' = Owing(x)
        BY <1>1, <2>4 DEF Owing, kind
      <3> QED BY <1>3, <1>4, <2>1, <2>2, <2>4, <3>1, OwedIsNat DEF Agrees
    <2> QED BY <2>3, <2>4
  <1>5. ~Resets(c) /\ ~Resets(c)'
    BY <1>1 DEF Resets
  <1>6. ~torn /\ (\A d \in Callers : ~Resets(d)) => \A x \in Kinds : Agrees(x)'
    BY <1>4 DEF StatisticsInv
  <1> QED BY <1>1, <1>2, <1>5, <1>6, CountGoesOn

LEMMA StatisticsReset ==
    ASSUME StatisticsInv, StatisticsTypeOK', NEW c \in Callers, Reset(c)
    PROVE  StatisticsInv'
  <1>1. /\ caller[c].pc = "idle" /\ caller'[c] = CallerAt("total", "miss", "none", {})
        /\ \A d \in Callers : d # c => caller'[d] = caller[d]
        /\ total' = [total EXCEPT !["hit"] = 0] /\ UNCHANGED <<members, counter>>
        /\ torn' = (torn \/ \E d \in Callers : caller[d] # NoCall)
    BY DEF Reset, CallerBecomes, NoCall, CallerAt, StatisticsInv, StatisticsTypeOK
  <1>2. CASE torn'
    BY <1>1, <1>2, TornIsAll DEF CallerAt, StatisticsInv, CountsAKey
  <1>3. CASE ~torn'
    <2>1. ~torn /\ \A d \in Callers : caller[d].pc = "idle"
      BY <1>1, <1>3 DEF NoCall, CallerAt
    <2>2. Covered("hit") /\ Covered("miss")
      BY <2>1 DEF StatisticsInv, Resets, Agrees, Kinds
    <2>3. Covered("hit")' /\ Covered("miss")' /\ total'["hit"] = 0
      BY <1>1, <2>2 DEF Covered, LeftIn, StatisticsInv, StatisticsTypeOK, Kinds
    <2>4. \A d \in Callers : d # c => caller'[d].pc = "idle"
      BY <1>1, <2>1
    <2>5. caller'[c].pc = "total"
      BY <1>1 DEF CallerAt
    <2>6. \A d \in Callers : Resets(d)' <=> d = c
      BY <2>4, <2>5 DEF Resets
    <2>7. ResetAt(caller[c])'
      BY <2>3, <2>5 DEF ResetAt
    <2>8. CountsAKey' /\ ResetsAlone'
      BY <2>4, <2>5, <2>6 DEF CountsAKey, ResetsAlone
    <2> QED BY <2>6, <2>7, <2>8 DEF StatisticsInv
  <1> QED BY <1>2, <1>3

\* A reset that starts alone is alone until its end.
LEMMA AloneUntilDone ==
    ASSUME StatisticsInv, NEW c \in Callers, Resets(c), ~torn
    PROVE  ResetAt(caller[c]) /\ \A d \in Callers : d # c => caller[d].pc = "idle"
  BY DEF StatisticsInv, ResetsAlone

LEMMA StatisticsResetTotal ==
    ASSUME StatisticsInv, StatisticsTypeOK', NEW c \in Callers, ResetTotal(c)
    PROVE  StatisticsInv'
  <1>1. /\ caller[c].pc = "total" /\ caller'[c] = CallerAt("list", "hit", "none", {})
        /\ \A d \in Callers : d # c => caller'[d] = caller[d]
        /\ total' = [total EXCEPT !["miss"] = 0] /\ UNCHANGED <<members, counter, torn>>
    BY DEF ResetTotal, CallerBecomes, CallerAt, StatisticsInv, StatisticsTypeOK
  <1>2. Resets(c) /\ Resets(c)'
    BY <1>1 DEF Resets, CallerAt
  <1>3. ASSUME ~torn PROVE ResetAt(caller[c])'
    <2>1. total["hit"] = 0 /\ Covered("hit") /\ Covered("miss")
      BY <1>1, <1>2, <1>3, AloneUntilDone DEF ResetAt
    <2>2. total'["hit"] = 0 /\ total'["miss"] = 0
      BY <1>1, <2>1 DEF StatisticsInv, StatisticsTypeOK, Kinds
    <2>3. Covered("hit")' /\ Covered("miss")'
      BY <1>1, <2>1 DEF Covered, LeftIn
    <2>4. caller'[c].pc = "list" /\ caller'[c].kind = "hit"
      BY <1>1 DEF CallerAt
    <2> QED BY <2>2, <2>3, <2>4 DEF ResetAt
  <1> QED BY <1>1, <1>2, <1>3, ResetGoesOn

LEMMA StatisticsList ==
    ASSUME StatisticsInv, StatisticsTypeOK', NEW c \in Callers, ListKeys(c)
    PROVE  StatisticsInv'
  <1>1. /\ caller[c].pc = "list" /\ caller[c].kind \in Kinds
        /\ caller'[c] = CallerAt("delete", caller[c].kind, "none", members[caller[c].kind])
        /\ \A d \in Callers : d # c => caller'[d] = caller[d]
        /\ UNCHANGED <<members, counter, total, torn>>
    BY DEF ListKeys, CallerBecomes, CallerAt, StatisticsInv, StatisticsTypeOK, StatesOfCall
  <1>2. /\ caller'[c].pc = "delete" /\ caller'[c].kind = caller[c].kind
        /\ caller'[c].todo = members[caller[c].kind]
    BY <1>1 DEF CallerAt
  <1>3. Resets(c) /\ Resets(c)'
    BY <1>1, <1>2 DEF Resets
  <1>4. ASSUME ~torn PROVE ResetAt(caller[c])'
    <2>1. ResetAt(caller[c])
      BY <1>3, <1>4, AloneUntilDone
    <2>2. caller[c].kind = "hit" \/ caller[c].kind = "miss"
      BY <1>1 DEF Kinds
    <2>3. CASE caller[c].kind = "hit"
      BY <1>1, <1>2, <2>1, <2>3 DEF ResetAt, Covered, LeftIn
    <2>4. CASE caller[c].kind = "miss"
      BY <1>1, <1>2, <2>1, <2>4 DEF ResetAt, Covered, LeftIn
    <2> QED BY <2>2, <2>3, <2>4
  <1> QED BY <1>1, <1>3, <1>4, ResetGoesOn

LEMMA StatisticsDelete ==
    ASSUME StatisticsInv, StatisticsTypeOK', NEW c \in Callers, NEW k \in CountedKeys, DeleteCounter(c, k)
    PROVE  StatisticsInv'
  <1> PICK kind \in Kinds : kind = caller[c].kind
    BY DEF StatisticsInv, StatisticsTypeOK, StatesOfCall
  <1>1. /\ caller[c].pc = "delete"
        /\ caller'[c] = [caller[c] EXCEPT !.todo = caller[c].todo \ {k}]
        /\ \A d \in Callers : d # c => caller'[d] = caller[d]
        /\ counter' = [counter EXCEPT ![kind] = [counter[kind] EXCEPT ![k] = 0]]
        /\ UNCHANGED <<members, total, torn>>
    BY DEF DeleteCounter, CallerBecomes, StatisticsInv, StatisticsTypeOK, StatesOfCall
  <1>2. caller'[c].pc = "delete" /\ caller'[c].kind = kind /\ caller'[c].todo = caller[c].todo \ {k}
    BY <1>1 DEF StatisticsInv, StatisticsTypeOK, StatesOfCall
  <1>3. Resets(c) /\ Resets(c)'
    BY <1>1, <1>2 DEF Resets
  <1>4. /\ counter'[kind][k] = 0 /\ \A x \in CountedKeys : x # k => counter'[kind][x] = counter[kind][x]
        /\ \A other \in Kinds : other # kind => counter'[other] = counter[other]
    BY <1>1 DEF StatisticsInv, StatisticsTypeOK
  <1>5. ASSUME ~torn PROVE ResetAt(caller[c])'
    <2>1. ResetAt(caller[c])
      BY <1>3, <1>5, AloneUntilDone
    <2>2. LeftIn(kind, caller[c].todo) => LeftIn(kind, caller[c].todo)'
      BY <1>2, <1>4 DEF LeftIn
    <2>3. CASE kind = "hit"
      <3>1. Covered("miss") => Covered("miss")'
        BY <1>1, <1>4, <2>3 DEF Covered, LeftIn, Kinds
      <3> QED BY <1>1, <1>2, <2>1, <2>2, <2>3, <3>1 DEF ResetAt
    <2>4. CASE kind = "miss"
      <3>1. LeftIn("hit", {}) => LeftIn("hit", {})'
        BY <1>4, <2>4 DEF LeftIn, Kinds
      <3> QED BY <1>1, <1>2, <2>1, <2>2, <2>4, <3>1 DEF ResetAt
    <2> QED BY <1>1, <2>3, <2>4 DEF Kinds
  <1> QED BY <1>1, <1>3, <1>5, ResetGoesOn

LEMMA StatisticsDeleted ==
    ASSUME StatisticsInv, StatisticsTypeOK', NEW c \in Callers, CountersDeleted(c)
    PROVE  StatisticsInv'
  <1>1. /\ caller[c].pc = "delete" /\ caller[c].kind \in Kinds /\ caller[c].todo = {}
        /\ caller'[c] = IF caller[c].kind = "hit" THEN CallerAt("list", "miss", "none", {})
                        ELSE CallerAt("forget", "hit", "none", {})
        /\ \A d \in Callers : d # c => caller'[d] = caller[d]
        /\ UNCHANGED <<members, counter, total, torn>>
    BY DEF CountersDeleted, CallerBecomes, CallerAt, StatisticsInv, StatisticsTypeOK, StatesOfCall
  <1>2. Resets(c) /\ Resets(c)'
    BY <1>1 DEF Resets, CallerAt
  <1>3. ASSUME ~torn PROVE ResetAt(caller[c])'
    <2>1. ResetAt(caller[c])
      BY <1>2, <1>3, AloneUntilDone
    <2>2. CASE caller[c].kind = "hit"
      <3>1. caller'[c].pc = "list" /\ caller'[c].kind = "miss"
        BY <1>1, <2>2 DEF CallerAt
      <3> QED BY <1>1, <2>1, <2>2, <3>1 DEF ResetAt, Covered, LeftIn
    <2>3. CASE caller[c].kind = "miss"
      <3>1. caller'[c].pc = "forget"
        BY <1>1, <2>3 DEF CallerAt
      <3> QED BY <1>1, <2>1, <2>3, <3>1 DEF ResetAt, LeftIn
    <2> QED BY <1>1, <2>2, <2>3 DEF Kinds
  <1> QED BY <1>1, <1>2, <1>3, ResetGoesOn

LEMMA StatisticsForget ==
    ASSUME StatisticsInv, StatisticsTypeOK', NEW c \in Callers, ForgetKeys(c)
    PROVE  StatisticsInv'
  <1>1. /\ caller[c].pc = "forget" /\ caller[c].kind \in Kinds
        /\ caller'[c] = IF caller[c].kind = "hit" THEN CallerAt("forget", "miss", "none", {}) ELSE NoCall
        /\ \A d \in Callers : d # c => caller'[d] = caller[d]
        /\ UNCHANGED <<counter, total, torn>>
    BY DEF ForgetKeys, CallerBecomes, CallerAt, NoCall, StatisticsInv, StatisticsTypeOK, StatesOfCall
  <1>2. Resets(c)
    BY <1>1 DEF Resets
  <1>3. CASE caller[c].kind = "hit"
    <2>1. caller'[c].pc = "forget"
      BY <1>1, <1>3 DEF CallerAt
    <2>2. Resets(c)'
      BY <2>1 DEF Resets
    <2>3. ~torn => ResetAt(caller[c])'
      <3>1. ~torn => ResetAt(caller[c])
        BY <1>2, AloneUntilDone
      <3> QED BY <1>1, <2>1, <3>1 DEF ResetAt, LeftIn
    <2> QED BY <1>1, <1>2, <2>2, <2>3, ResetGoesOn
  <1>4. CASE caller[c].kind # "hit"
    <2>1. caller'[c].pc = "idle"
      BY <1>1, <1>4 DEF NoCall, CallerAt
    <2>2. CASE torn'
      <3>1. \A d \in Callers : caller'[d].pc \in {"incr", "incr_total"} => caller'[d].key \in CountedKeys
        BY <1>1, <2>1 DEF StatisticsInv, CountsAKey
      <3> QED BY <2>2, <3>1, TornIsAll
    <2>3. CASE ~torn'
      <3>1. ResetAt(caller[c]) /\ \A d \in Callers : caller'[d].pc = "idle"
        BY <1>1, <1>2, <2>1, <2>3, AloneUntilDone
      <3>2. \A d \in Callers : ~Resets(d)'
        BY <3>1 DEF Resets
      <3>3. total["hit"] = 0 /\ total["miss"] = 0 /\ LeftIn("hit", {}) /\ LeftIn("miss", {})
        BY <1>1, <3>1 DEF ResetAt
      <3>4. ASSUME NEW kind \in Kinds PROVE Agrees(kind)'
        <4>1. /\ total'[kind] = 0 /\ counter'[kind] \in [CountedKeys -> Nat]
              /\ \A k \in CountedKeys : counter'[kind][k] = 0
          BY <1>1, <3>3 DEF LeftIn, Kinds, StatisticsInv, StatisticsTypeOK
        <4>2. Sum(kind)' = 0
          BY <4>1, TotalOfNone DEF Sum
        <4>3. Owed(kind)' = 0
          <5>1. {d \in Callers : caller'[d].pc = "incr_total" /\ caller'[d].kind = kind} = {}
            BY <3>1
          <5> QED BY <5>1, FS_EmptySet DEF Owed
        <4>4. Covered(kind)'
          BY <4>1 DEF Covered, LeftIn
        <4> QED BY <4>1, <4>2, <4>3, <4>4 DEF Agrees
      <3>5. CountsAKey' /\ ResetsAlone'
        BY <3>1, <3>2 DEF CountsAKey, ResetsAlone
      <3> QED BY <3>2, <3>4, <3>5 DEF StatisticsInv
    <2> QED BY <2>2, <2>3
  <1> QED BY <1>3, <1>4

LEMMA StatisticsStep == StatisticsInv /\ [StatisticsNext]_statisticsVars => StatisticsInv'
  <1> SUFFICES ASSUME StatisticsInv, [StatisticsNext]_statisticsVars PROVE StatisticsInv'
    OBVIOUS
  <1>1. StatisticsTypeOK'
    BY StatisticsTypes DEF StatisticsInv
  <1>2. ASSUME NEW c \in Callers, NEW kind \in Kinds, NEW k \in CountedKeys, CountKey(c, kind, k)
        PROVE  StatisticsInv'
    BY <1>1, <1>2, StatisticsCount
  <1>3. ASSUME NEW c \in Callers,
               \/ Incr(c) \/ IncrTotal(c) \/ Reset(c) \/ ResetTotal(c) \/ ListKeys(c)
               \/ CountersDeleted(c) \/ ForgetKeys(c)
        PROVE  StatisticsInv'
    BY <1>1, <1>3, StatisticsIncr, StatisticsIncrTotal, StatisticsReset, StatisticsResetTotal,
       StatisticsList, StatisticsDeleted, StatisticsForget
  <1>4. ASSUME NEW c \in Callers, NEW k \in CountedKeys, DeleteCounter(c, k) PROVE StatisticsInv'
    BY <1>1, <1>4, StatisticsDelete
  <1>5. ASSUME NEW c \in Callers, CutShort(c) PROVE StatisticsInv'
    <2>1. \A d \in Callers : caller'[d].pc \in {"incr", "incr_total"} => caller'[d].key \in CountedKeys
      <3>1. caller'[c].pc = "idle" /\ \A d \in Callers : d # c => caller'[d] = caller[d]
        BY <1>5 DEF CutShort, CallerBecomes, NoCall, CallerAt, StatisticsInv, StatisticsTypeOK
      <3> QED BY <3>1 DEF StatisticsInv, CountsAKey
    <2> QED BY <1>1, <1>5, <2>1, TornIsAll DEF CutShort
  <1>6. CASE UNCHANGED statisticsVars
    BY <1>6 DEF statisticsVars, StatisticsInv, StatisticsTypeOK, CountsAKey, ResetsAlone, Resets, ResetAt,
                Covered, LeftIn, Agrees, Owed, Sum
  <1> QED BY <1>2, <1>3, <1>4, <1>5, <1>6 DEF StatisticsNext

\* The total of the hits, or of the misses, is the sum of the counters of the keys as long
\* as no reset met another call and none failed, whatever counts are under way (count_hit,
\* count_miss, reset).
THEOREM TotalsAlwaysAgree == StatisticsSpec => []TotalsAgree
  <1>1. StatisticsInit => StatisticsInv
    <2> SUFFICES ASSUME StatisticsInit PROVE StatisticsInv
      OBVIOUS
    <2>1. StatisticsTypeOK
      BY DEF StatisticsInit, StatisticsTypeOK, StatesOfCall, NoCall, CallerAt, Kinds
    <2>2. \A c \in Callers : caller[c].pc = "idle"
      BY DEF StatisticsInit, NoCall, CallerAt
    <2>3. ASSUME NEW kind \in Kinds PROVE Agrees(kind)
      <3>1. total[kind] = 0 /\ counter[kind] = [k \in CountedKeys |-> 0]
        BY DEF StatisticsInit
      <3>2. Sum(kind) = 0
        BY <3>1, TotalOfNone DEF Sum
      <3>3. {c \in Callers : caller[c].pc = "incr_total" /\ caller[c].kind = kind} = {}
        BY <2>2
      <3>4. Owed(kind) = 0
        BY <3>3, FS_EmptySet DEF Owed
      <3> QED BY <3>1, <3>2, <3>4 DEF Agrees, Covered, LeftIn
    <2>4. CountsAKey /\ ResetsAlone /\ \A c \in Callers : ~Resets(c)
      BY <2>2 DEF CountsAKey, ResetsAlone, Resets
    <2> QED BY <2>1, <2>3, <2>4 DEF StatisticsInv
  <1>2. StatisticsInv => TotalsAgree
    BY DEF StatisticsInv, TotalsAgree, Agrees, Covered, LeftIn
  <1> QED BY <1>1, <1>2, StatisticsStep, PTL DEF StatisticsSpec
=============================================================================
