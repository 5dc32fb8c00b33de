--------------------------- MODULE SlurmrestdCache ---------------------------
(***************************************************************************)
(* The read-through cache of the agent: SlurmrestdFilteredCached over the   *)
(* Redis CachingService (slurmweb/slurmrestd/__init__.py, slurmweb/cache.py)*)
(* Request threads read through cache keys or write to Slurm and invalidate *)
(* them.  Values are versions: the answer of slurmrestd for a key is the    *)
(* version of its last change.                                              *)
(***************************************************************************)
EXTENDS Integers, FiniteSets

CONSTANTS
    Workers,     \* request threads and the background threads that read
    Operations,  \* the write operations of this instance
    Enabled,     \* settings.cache.enabled
    RedisFails,  \* the Redis server may be unreachable
    MaxVersion   \* bound: changes of the data in Slurm

\* Faulty variant: the listings without content filtering are forgotten.
InvalidatesFiltered ==
    [op \in {"job_submit", "job_update", "job_cancel"} |->
        IF op = "job_submit" THEN {"jobs"} ELSE {"jobs", "job"}]

\* The keys each write operation deletes once slurmrestd accepted it.
Invalidates ==
    [job_submit |-> {"jobs", "jobs-unfiltered"},
     job_update |-> {"jobs", "jobs-unfiltered", "job"},
     job_cancel |-> {"jobs", "jobs-unfiltered", "job"},
     node_update |-> {"nodes", "nodes-unfiltered", "node"},
     node_delete |-> {"nodes", "nodes-unfiltered", "node"},
     accounts_update |-> {"accounts", "associations"},
     account_delete |-> {"accounts", "associations"},
     users_update |-> {"associations"},
     user_delete |-> {"associations"},
     associations_update |-> {"accounts", "associations"},
     associations_delete |-> {"accounts", "associations"},
     qos_update |-> {"qos", "associations"},
     qos_delete |-> {"qos", "associations"},
     reservation_create |-> {"reservations"},
     reservation_update |-> {"reservations"},
     reservation_delete |-> {"reservations"}]

\* Slurm, external: the operations that change each of the cached answers.
Changes(op, k) ==
    \/ k \in {"jobs", "jobs-unfiltered"} /\ op \in {"job_submit", "job_update", "job_cancel"}
    \/ k = "job" /\ op \in {"job_update", "job_cancel"}
    \/ k \in {"nodes", "nodes-unfiltered", "node"} /\ op \in {"node_update", "node_delete"}
    \/ k = "accounts" /\ op \in {"accounts_update", "account_delete", "associations_update",
                                 "associations_delete"}
    \/ k = "associations" /\ op \in {"accounts_update", "account_delete", "users_update",
                                     "user_delete", "associations_update",
                                     "associations_delete", "qos_update", "qos_delete"}
    \/ k = "qos" /\ op \in {"qos_update", "qos_delete"}
    \/ k = "reservations" /\ op \in {"reservation_create", "reservation_update",
                                     "reservation_delete"}

CacheKeys == {"jobs", "jobs-unfiltered", "job", "nodes", "nodes-unfiltered", "node",
              "accounts", "associations", "qos", "reservations"}
Affects == [op \in DOMAIN Invalidates |-> {k \in CacheKeys : Changes(op, k)}]

Keys == UNION {Affects[op] : op \in Operations}

ASSUME SlurmrestdCacheAssumption ==
    /\ Operations \subseteq DOMAIN Invalidates
    /\ Enabled \in BOOLEAN /\ RedisFails \in BOOLEAN
    /\ MaxVersion \in Nat

VARIABLES
    now,     \* version of the last change in Slurm
    data,    \* per key, the version slurmrestd answers with
    store,   \* Redis: per key, the cached version, or Absent
    up,      \* Redis answers
    worker,  \* per thread: what it does, on which key, with which version
    done,    \* history: per key, the last write that completed
    raced    \* history: keys whose entry was fetched before a write to it

vars == <<now, data, store, up, worker, done, raced>>

Absent == -1
Idle == [pc |-> "idle", op |-> "none", key |-> "none", version |-> 0,
         todo |-> {}, late |-> FALSE, result |-> "none"]

\* A thread's request is over.
Ended(result) == [Idle EXCEPT !.result = result]
Become(w, state) == worker' = [worker EXCEPT ![w] = state]

Init ==
    /\ now = 0
    /\ data = [k \in Keys |-> 0]
    /\ store = [k \in Keys |-> Absent]
    /\ up = TRUE
    /\ worker = [w \in Workers |-> Idle]
    /\ done = [k \in Keys |-> 0]
    /\ raced = {}

-----------------------------------------------------------------------------
(* Reads: _cached().                                                        *)

\* get(): a hit is counted and answered; a miss goes on to slurmrestd.
ReadHit(w, k) ==
    /\ Enabled /\ up
    /\ worker[w].pc = "idle"
    /\ store[k] # Absent
    /\ Become(w, [Idle EXCEPT !.pc = "count"])
    /\ UNCHANGED <<now, data, store, up, done, raced>>

ReadMiss(w, k) ==
    /\ Enabled /\ up
    /\ worker[w].pc = "idle"
    /\ store[k] = Absent
    /\ Become(w, [Idle EXCEPT !.pc = "fetch", !.key = k])
    /\ UNCHANGED <<now, data, store, up, done, raced>>

\* A CachingService error ends the request: SlurmwebCacheError.
ReadCacheError(w) ==
    /\ Enabled /\ ~up
    /\ worker[w].pc = "idle"
    /\ Become(w, Ended("cache_error"))
    /\ UNCHANGED <<now, data, store, up, done, raced>>

\* The cache is disabled, or the call carries a query: slurmrestd answers.
ReadThrough(w) ==
    /\ worker[w].pc = "idle"
    /\ Become(w, Ended("answered"))
    /\ UNCHANGED <<now, data, store, up, done, raced>>

Fetch(w) ==
    /\ worker[w].pc = "fetch"
    /\ Become(w, [worker[w] EXCEPT !.pc = "put", !.version = data[worker[w].key]])
    /\ UNCHANGED <<now, data, store, up, done, raced>>

FetchFails(w) ==
    /\ worker[w].pc = "fetch"
    /\ Become(w, Ended("slurmrestd_error"))
    /\ UNCHANGED <<now, data, store, up, done, raced>>

Put(w) ==
    LET k == worker[w].key IN
    /\ worker[w].pc = "put"
    /\ up
    /\ store' = [store EXCEPT ![k] = worker[w].version]
    /\ raced' = IF worker[w].late THEN raced \union {k} ELSE raced \ {k}
    /\ Become(w, [Idle EXCEPT !.pc = "count"])
    /\ UNCHANGED <<now, data, up, done>>

PutCacheError(w) ==
    /\ worker[w].pc = "put"
    /\ ~up
    /\ Become(w, Ended("cache_error"))
    /\ UNCHANGED <<now, data, store, up, done, raced>>

\* count_hit(), count_miss(): the error of the Redis client is not converted.
Count(w) ==
    /\ worker[w].pc = "count"
    /\ Become(w, Ended(IF up THEN "answered" ELSE "redis_error"))
    /\ UNCHANGED <<now, data, store, up, done, raced>>

-----------------------------------------------------------------------------
(* Writes: the operation, then _invalidate_cached_keys() key after key, in  *)
(* any order.                                                               *)

\* slurmrestd applies the operation: every answer it affects changes, and the
\* fetches under way have read the former ones.
WriteCall(w, op) ==
    /\ worker[w].pc = "idle"
    /\ now < MaxVersion
    /\ now' = now + 1
    /\ data' = [k \in Keys |-> IF k \in Affects[op] THEN now + 1 ELSE data[k]]
    /\ worker' = [v \in Workers |->
          IF v = w THEN [Idle EXCEPT !.pc = "invalidate", !.op = op, !.version = now + 1,
                                     !.todo = IF Enabled THEN Invalidates[op] ELSE {}]
          ELSE IF worker[v].pc = "put" /\ worker[v].key \in Affects[op]
               THEN [worker[v] EXCEPT !.late = TRUE] ELSE worker[v]]
    /\ UNCHANGED <<store, up, done, raced>>

WriteRefused(w, op) ==
    /\ worker[w].pc = "idle"
    /\ Become(w, Ended("slurmrestd_error"))
    /\ UNCHANGED <<now, data, store, up, done, raced>>

DeleteKey(w, k) ==
    /\ worker[w].pc = "invalidate"
    /\ k \in worker[w].todo
    /\ up
    /\ store' = [store EXCEPT ![k] = Absent]
    /\ raced' = raced \ {k}
    /\ Become(w, [worker[w] EXCEPT !.todo = @ \ {k}])
    /\ UNCHANGED <<now, data, up, done>>

\* The operation is applied all the same; the keys left stay cached.
DeleteCacheError(w) ==
    /\ worker[w].pc = "invalidate"
    /\ worker[w].todo # {}
    /\ ~up
    /\ Become(w, Ended("cache_error"))
    /\ UNCHANGED <<now, data, store, up, done, raced>>

Later(a, b) == IF a < b THEN b ELSE a

WriteReturns(w) ==
    LET me == worker[w] IN
    /\ me.pc = "invalidate"
    /\ me.todo = {}
    /\ done' = [k \in Keys |-> IF k \in Affects[me.op] THEN Later(done[k], me.version)
                               ELSE done[k]]
    /\ Become(w, Ended("written"))
    /\ UNCHANGED <<now, data, store, up, raced>>

-----------------------------------------------------------------------------
(* The environment.                                                         *)

Expire(k) ==
    /\ store[k] # Absent
    /\ store' = [store EXCEPT ![k] = Absent]
    /\ raced' = raced \ {k}
    /\ UNCHANGED <<now, data, up, worker, done>>

\* The data changes in Slurm by itself: a job starts, a node fails.
SlurmChange(k) ==
    /\ now < MaxVersion
    /\ now' = now + 1
    /\ data' = [data EXCEPT ![k] = now + 1]
    /\ UNCHANGED <<store, up, worker, done, raced>>

RedisToggle ==
    /\ RedisFails
    /\ up' = ~up
    /\ UNCHANGED <<now, data, store, worker, done, raced>>

Read(w) ==
    \/ \E k \in Keys : ReadHit(w, k) \/ ReadMiss(w, k)
    \/ ReadCacheError(w) \/ ReadThrough(w)
    \/ Fetch(w) \/ FetchFails(w) \/ Put(w) \/ PutCacheError(w) \/ Count(w)

Write(w) ==
    \/ \E op \in Operations : WriteCall(w, op) \/ WriteRefused(w, op)
    \/ \E k \in Keys : DeleteKey(w, k)
    \/ DeleteCacheError(w) \/ WriteReturns(w)

Next ==
    \/ \E w \in Workers : Read(w) \/ Write(w)
    \/ \E k \in Keys : Expire(k) \/ SlurmChange(k)
    \/ RedisToggle

Spec == Init /\ [][Next]_vars

-----------------------------------------------------------------------------
(* Properties.                                                              *)

Versions == 0..MaxVersion
WorkerState ==
    [pc : {"idle", "fetch", "put", "count", "invalidate"}, op : Operations \union {"none"},
     key : Keys \union {"none"}, version : Versions, todo : SUBSET Keys, late : BOOLEAN,
     result : {"none", "answered", "written", "cache_error", "redis_error", "slurmrestd_error"}]

\* Types, and that no answer comes from the future: what is cached, held or
\* settled for a key is at most what slurmrestd answers now.
TypeOK ==
    /\ now \in Versions
    /\ data \in [Keys -> 0..now]
    /\ store \in [Keys -> {Absent} \union Versions]
    /\ up \in BOOLEAN
    /\ worker \in [Workers -> WorkerState]
    /\ done \in [Keys -> Versions]
    /\ raced \subseteq Keys
    /\ \A k \in Keys : store[k] <= data[k] /\ done[k] <= data[k]

\* Once a write has returned, a cached answer older than it can only be one
\* that was being fetched from slurmrestd while the write was applied
\* (_cached() puts what it fetched without looking at invalidations).
StaleOnlyIfRaced == \A k \in Keys :
    store[k] # Absent /\ store[k] < done[k] => k \in raced
=============================================================================
