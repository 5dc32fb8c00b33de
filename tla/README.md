# A TLA+ model of Slurm-web Plus

This directory models the parts of Slurm-web Plus whose correctness depends on
the order in which things happen: threads of the agent and of the gateway that
share an object, processes that share a database or a Redis server, streams of
the assistant, and the timers and requests of a page; and the computations that
one of them states twice (permissions, buckets of time, thresholds). Every
definition is translated from the source; `PROJECT.json` names the lines each one
stands for.

* [The system](#the-system): its parts, their state, how they interact
* [Modules](#modules): which module models what, and how
* [Runs](#runs): what each model-checking run shows, its bounds, its fairness
* [Disagreements](#disagreements-between-the-code-and-its-documents)
* [Proofs](#proofs): what holds for every value of the constants, and why
* [What is not modelled](#what-is-not-modelled)
* [Plan](#plan)

## The system

A browser talks to one **gateway**, the gateway to one **agent** per cluster,
and an agent to slurmrestd, Redis, PostgreSQL, Prometheus and an LDAP directory.
Gateway and agents are Flask applications served by threads, possibly by several
processes; the agent also runs background threads.

```
 browser (Vue)      gateway (Flask)        agent (Flask + threads)
 useClusterDataPoller --> views/gateway --> views/agent --> SlurmrestdFilteredCached --> slurmrestd
 settings page            agents cache      JobsStore writer       |      |
                                            analytics thread      Redis   SlurmrestdAdapter
                                            hotspot thread
                                            AccessControlStore, UsersStore, AI --> PostgreSQL
```

| Component | State it keeps | Operations | Hard because | Correct when |
|---|---|---|---|---|
| Job history store `persistence/jobs_store.py` | table `job_snapshots`; in memory `_pending`, the pool of 3 connections, the writer thread | snapshot of the queue, reconciliation of jobs that left it, chunked flush with requeue, enrichment by request threads, usage backfill, cleanup | three kinds of threads write one row; listings are cached and stale; accounting lags; statements fail; memory is lost at a restart | no row is lost or overtaken by an older one; records close and only then; usage is never lost nor lent to another incarnation |
| Agent Slurm cache `slurmrestd/__init__.py`, `cache.py` | one Redis entry per answer | read through, write then invalidate, expiry | reads and writes interleave; Redis fails in between | an answer older than a write that returned is not served |
| Cache statistics `cache.py` | counters, index sets and totals in Redis | count, reset, query | each is several Redis commands | totals are the sums of the counters |
| slurmrestd discovery `slurmrestd/__init__.py`, `adapters/` | `api_version`, `slurm_version`, `cluster_name`, `_adaptation_chain` of one shared object | discover, request, adapt | concurrent requests discover at once, without a lock | the newest served version is used, with the chain that fits it |
| Access control `access_control.py`, `permission_rules.py`, `persistence/access_control_store.py`, `SettingsAccessControl.vue` | tables `roles`, `user_roles` | normalise, seed, create, edit, delete, assign | several processes start at once; two representations (actions, rules) are converted both ways | edits and assignments survive whole; conversions keep what a role grants |
| Frontend polling `composables/DataPoller.ts` | data shown, one tracked timer, one request | start, stop, refresh, change of target | timers, answers, visibility and focus come in any order | no foreign or hidden request; polling never dies |
| slurmrestd authentication `slurmrestd/auth.py` | token, expiration | renewal | threads renew without a lock | no request with an expired token |
| User analytics `persistence/user_analytics_store.py` | daily tables, thread | daily aggregation, repair of chosen days, series of a user | the clock is read three times in a refresh, two transactions replace the same days, the thread dies with its first error, buckets are computed by the database and by the agent | a day counts its own jobs once, and a refresh takes none away; series add up to the jobs of the window |
| Users store, LDAP cache `persistence/users_store.py` | cached users, policy snapshots | login upsert, startup refresh | startup overwrites a login | the snapshot is the last one |
| Node hotspots `persistence/node_hotspot_store.py`, `metrics/hotspots.py` | samples | sampling, grouping into events | edges of windows and gaps | events are the maximal runs of samples |
| AI assistant `ai/`, `persistence/ai_*.py` | conversations, model configurations, traces of tool calls | streamed answer with rounds of tool calls, edition and validation of models | a cut stream, a deletion or another stream while answering, a provider that answers nothing usable, a validation that outlasts an edit | what was shown or applied is stored; streams end; the default model can be used |
| Agent views `views/agent.py`, `ai/agent_interfaces.py` | a second cache of statistics | 75 operations by HTTP, 36 of them by the assistant as well | permissions and checks written twice; caches on top of each other | both ways permit the same; refused means unchanged |
| Cluster analysis `views/agent.py` | none | score, partitions under pressure, recommendations | read in three steps while the cluster goes on; three sets of thresholds | a bad score is explained; waiting jobs are shown |
| Gateway `apps/gateway.py`, `views/gateway.py` | the agents, five minutes | discovery, login, listing, proxy, streams | concurrent discoveries, agents that stop, hang or change version, data read again after an expiry | a reachable agent is known and listed, a login succeeds, a request is answered |
| Agent application `apps/agent.py` | which stores are enabled | startup with fallbacks | each part may fail | the agent runs with what is left |
| Frontend session, stores, routes | token, cluster, permissions | sign in, navigation guards | stale token | no page without permission |

They interact through: the shared client object (every request thread and every
background thread of the agent calls slurmrestd through the cache), Redis keys
(all threads and processes), tables (the processes of an agent share roles and
history), and HTTP. `PROJECT.json` lists every component with its sources and
status, and every hazard at its line.

## Modules

### JobsStore

One writer (`pc`, `phase`: `_run`), request threads (`rd`), the backfill
transaction (`bf`), Slurm and the listing cache. An action is what a thread does
between two points at which another one can act: a fetch, a statement with its
commit, or the moves under the lock `_lock`.

| In the model | In the code |
|---|---|
| `SnapshotQueue`, `SnapshotFails` | `_scheduled_snapshot`: `jobs_unfiltered()`, `_queue_rows` |
| `ActiveRecords`, `RefreshRecord`, `RefreshLookupFails`, `QueueReconciled` | `_reconcile_missing_active_jobs`, one job per step as each is a call to slurmrestd |
| `FlushTake`, `FlushChunkBulk(Fails)`, `FlushChunkNoConn`, `FlushRow(Fails)`, `Requeue` | `_flush`, `_flush_chunk`: the bulk statement, the row by row fallback, what is queued again |
| `ReadRecord`, `EnrichLookup`, `EnrichWrite` | `GET /jobs/history/<id>`: `get_by_id`, `_maybe_enrich_record` |
| `BackfillSelect`, `BackfillDetail`, `BackfillCommit` | `backfill_usage_fields` |
| `Upsert` | the `ON CONFLICT` clause of `_UPSERT_SQL`: state replaced, usage by `COALESCE` |
| `Restart`, `MaybeCleanup`, `GetConnOk` | `start`, retention, `_get_conn` |

A row is its `job_state` and its usage fields as one value: which incarnation
(submit time) they were measured on and whether the job had ended by then. The
other columns are copied together with these. `owed` is history: the newest row
queued and not committed.

### JobHistory

What the history promises, without threads: jobs move forward, time passes, and
records are written, several at once, or removed past the retention (`Write`,
`Cleanup`). `Usages` and `States` are what may be told of a job at a moment:
usage of its own submission, final only once it has ended; active, or its end, or
`COMPLETED` when its end is not known, and an end before it comes only if a
listing may be stale (`Fresh` is false). `JobsStore` implements it with
`History == INSTANCE JobHistory WITH record <- db, Fresh <- "cache" \notin Enabled`:
every step of the writer, the requests, the backfill and the restarts is a step
of the history or leaves the table as it is.

### SlurmrestdCache

A thread reads (`ReadHit`, `ReadMiss`, `Fetch`, `Put`, `Count`: `_cached`) or
writes (`WriteCall`, `DeleteKey`, `WriteReturns`: the operation, then
`_invalidate_cached_keys`). An answer is the version of the last change it
shows, so that "stale" is "smaller". `Invalidates` is the table of the keys each
of the sixteen write operations deletes; `Changes`, external, what each changes
in Slurm. `raced` is history: keys whose entry was fetched before a write.

### CacheStatistics

One Redis command per action: `sadd`, `incr`, `incr` for a count; two deletions,
`smembers` and its deletions per kind, two deletions for a reset. `CutShort` ends
a call between two commands.

### Totals

The sum of the values of a function (`Total`), which the code computes with `sum()`,
as the number of elements of a set: the pairs of an argument and a natural up to its
value. The statistics, the series and the analysis extend it.

### SlurmrestdVersions, SlurmrestdDiscovery

`SlurmrestdVersions` numbers the supported versions and has the chain of adapters
between them.
`Check`, `PingAccepted`, `PingRejected`, `PingRaises`, `StoreRelease`,
`StoreVersion` are `Slurmrestd.discover`, `Compare`, `Build`, `StoreChain` what
`SlurmrestdAdapter.discover` adds, `Request`, `Send`, `Adapt` a request. Each
read or assignment of a shared attribute is a step. Versions are numbered, the
chain is the version it starts from. `Upgrade` restarts slurmrestd with other
versions.

### PermissionRules, AccessControlStore

`PermissionRules` is the algebra of rules: matching (`RuleAllows`), legacy
actions to rules (`ActionRules`) and back, the agent's way (`LegacyActions`, one
rule of an action is enough) and the page's (`CoveredActions`, all are needed).
A resource pattern is given by the set of resources it matches.
`AccessControlStore` extends it with the tables. The actions are statements:
`NormalizeRead` and `NormalizeWrite` are one transaction of
`normalize_legacy_role_actions`, whose read other transactions can follow;
`SeedCount`, `SeedInsert` are `seed_default_roles`; `OpenForm`, `SaveForm`,
`NewRole`, `NewLegacyRole` are requests of the page and of API clients, which
`Submit` checks; `CreateRole`, `UpdateRole`, `DeleteRole` commit;
`EnsureUser`, `CheckRoles`, `ClearMembers`, `AssignMembers` are the four
statements of `set_user_roles`. The unique name, the foreign keys with their
cascade and the row lock of the upsert are PostgreSQL's. `granted`, `deleted`,
`edited` and `raced` are history.

### DataPoller

An action is one task of the browser with the microtasks it leaves. `timer` is
the timer `_timeout` names, `lost` the number of running timers whose handle was
overwritten. `StartIdle` and `StartPolling` are `start()` when no poll is under
way and when one is (`poll()` then returns at once). `SetTarget` stands for
`setCluster`, `setCallback` and `setParam`, which do the same. `joined` and `due`
are history.

### GatewayRoutes, Gateway

`GatewayRoutes` is the table of requests the gateway sends, from the rules of both
applications: each view with its query and its method. `Served` are the rules of
the agent, `Proxied` what the views of the gateway send.

`Gateway` has threads (`pc`, and what each has read) and agents that start, stop,
hang or are upgraded. `Cached`, `Poll`, `PollAnswer`, `PollTimeout`,
`StoreAgents`, `StoreTimeout` are `refresh_agents` and what it calls, `Validate`
to `StreamAnswer` the decorator `validate_cluster` and the proxies, which read the
url and the version of the agent one after the other, `ListAgents` to `Listed`
the listing, `Refused` and `LoginAgents` to `LoggedIn` the login with
`async_cache_user_on_agents`. The coroutines of one thread run in its own event
loop: only there do answers come in any order. Times are differences: what is
left of the discovery, how long a thread has waited, how long an agent has not
changed. One step of `Tick` passes for all.

### OperationRows, AgentOperations

`OperationRows` writes each operation as a row: the rules that permit it, those
that permit it for what is the user's own, and its checks in the order of the
code. A table is a set of entries, each the operations that share a row and the row. `Views` are the handlers of `views/agent.py`, `Interfaces` those the
assistant calls (`ai/agent_interfaces.py`), `Catalog` what the assistant is
offered. `AgentOperations` runs them: a request of a page or a call of the
assistant goes through its checks (`CheckPermission`, `CheckFeature`,
`CheckSupported`, `CheckArgument`, `CheckOwner`), then applies, reads or lists.
`LookUp`, `Collect`, `Keep` are `_cache_get_or_put` for the statistics, which are
computed from jobs the client has in a cache of its own (`listing`). Cached
values are given by their age.

### AIConversation

A stream is the thread of one question. `AskQuestion`, `AddQuestion`, `ReadContext` store
the question and read the conversation; `Plan`, `CallTool`, `Record` are a round:
the model's output, the execution of a tool, the row of `ai_tool_calls`;
`StoreAnswer`, `Show` end it. `Cut` is the client that leaves at an event, where
the generator is closed, `Kill` the agent that stops anywhere, `Delete` the
deletion of the conversation. A message is its role and the stream it belongs to.

### AIModelConfigs

Administrators `Create`, `Delete`, `BeginEdit` and `BeginValidation`; the update is
two statements, `Select` and `Update`, of which the first merges what was given
with the row. `settings` is the number of the edit that wrote a row. The unique
index on the default is PostgreSQL's.

### UserAnalytics

The writers of the daily statistics are the threads of the agents and the repair
scripts. One refresh is `BeginRefresh`, `Backfill`, `ReadJobs`, `Delete`, `Commit`: the
thread looks at the clock in the first, the third and the fourth of them, a script
works on the days of its arguments. A row is the set of the jobs it counts.
`DELETE` and `INSERT` are one transaction of two statements: `found` are the rows
its `DELETE` has seen, which those that another transaction inserts meanwhile are
not among. `DailyTool` is the tool of a job: the mapping file, and the pattern
that rewrites it. `alone` is history.

### UserTimelines

`user_metrics_history` as a function of the rows and the window: `Trunc` is how the
database puts a moment in a bucket, `AlignBucket` how the agent does. `Record`
changes the rows between two queries.

### ClusterAnalysis

`analysis_context` reads the jobs, the nodes and the history (`ReadQueue`,
`ReadNodes`, `ReadHistory`) and answers with a score, the partitions under pressure
and the recommendations, functions of what it read (`Score`, `Summaries`,
`Recommendations`), with the thresholds of the code. The sorted lists of the code are
given by rank: a median by how many waits it reaches (`Ranked`), a partition shown by how many
are before it.

### How they are put together

`JobsStore` contains the part of the cache it depends on, the listing entry with
its expiry and a thread that fills it (`FillFetch`, `FillPut`), under the feature
`cache`; composing it with the whole of `SlurmrestdCache` multiplies the states
without another interaction, as the store reads one key and writes none.
`SlurmrestdDiscovery` extends `SlurmrestdVersions`, `AccessControlStore` and
`OperationRows` extend `PermissionRules`, `AgentOperations` extends
`OperationRows`, `Gateway` extends `GatewayRoutes`. The operations of
`AgentOperations` change Slurm as `SlurmrestdCache` says, and its tools are those
that `AIConversation` calls. Each `*Proofs` module extends one with its theorems;
`SlurmrestdProofs` the cache, the discovery and the statistics, `AIProofs` the chats
and the models, `PagesProofs` the polling, the daily statistics, the series and the
analysis.

`MC*` modules give the values of an instance. Four of them hold several components
side by side: `MCSlurmrestd` (cache, discovery, statistics), `MCAccessControl`
(roles, models), `MCPages` (polling, daily statistics, series, analysis) and
`MCAgentOperations` (operations, chats). These have no variable in common, so
that interleaving them would only multiply states: a variable `part`, chosen in
the initial state, says which of them moves in a behaviour. Each invariant then is
about the states of its own part, and fairness is stated for the steps of a part.

## Runs

States are symmetric where only identity matters (identifiers, threads, callers):
the modules compare those and never order them. Liveness runs use no symmetry.

### What each run shows

| Run | Question | Instance |
|---|---|---|
| `jobs_queue` | Is a queued row ever lost, or overtaken by an older one? (`NewestRowKept`) | two jobs, chunks of one row, so that a batch takes two chunks; `submit()` from other threads, outages, a stop |
| `jobs_records` | Does usage stay with its incarnation, and is only an ended job recorded as ended? (`UsageOfOwnIncarnation`, `EndedMeansEnded`) | one identifier requeued once, one request thread, the backfill |
| `jobs_retention` | Does the table implement `JobHistory`: is usage never erased, and does a record only leave past its retention? (`TableIsJobHistory`) | one connection, one query, one request thread, the backfill, ageing, one restart |
| `jobs_live` | Do records of ended jobs close, and wrongly closed ones reopen? (`EndedJobsAreClosed`, `WrongEndHeals`) | one job, one request thread, the shared listing cache |
| `jobs_pool` | Is a row that was not written queued again, as the log says? (`FailedRowsRequeued`, violated) | one connection, one query |
| `slurmrestd` | When can an answer older than a write that returned be cached? Which version is in use, with which chain, and when do answers go out unadapted? Do totals and counters agree? (`StaleOnlyIfRaced`, `NewestAccepted`, `SettledChain`, `RawOnlyWhileSettling`, `TotalsAgree`) | two threads on three keys, with Redis failures and two changes; three threads, three versions, failing pings, one restart of slurmrestd; three callers, two keys, two counts |
| `access` | Are assignments whole and edits kept? Is the default model usable, and does a validation undo no edit? (`AssignmentsDoNotMix`, `EditsSurvive`, `DefaultIsEnabled`, `EditsSurviveValidation`) | two threads, one user, two roles, three actions of which one is converted and one removed; two administrators, two models, two edits |
| `access_form` | Does saving an unchanged form keep what a role grants? (`UnchangedFormsKeepGrants`, violated) | the roles alone |
| `pages` | Does a view show foreign data, ask while hidden or gone, miss a write it refreshed for, or stop polling? (`DataIsOfTarget`, `HiddenPageIsQuiet`, `GoneMeansQuiet`, `RefreshShowsWrites`, `KeepsPolling`) Are jobs counted on their day, once, and not lost by a refresh? (`CountedOnItsDay`, `RefreshKeepsCounts`, `TodayIsCounted`) Do series count each job? (`SeriesCountEveryJob`) Does the analysis explain itself? (`PressureIsExplained`, `WaitingIsShown`) | two targets, two changes, three overwritten timers; two jobs, two days, one thread, one script, one restart; three jobs at any of 41 moments; two partitions, two nodes, three jobs |
| `gateway` | Is what is served from the discovery true, does a login succeed and reach the agents, is a listing complete, is every request answered? (`StableAgentsAreKnown`, `LoginSurvives`, `LoginReachesAgents`, `ListingIsComplete`, `Answered`) | two threads, one of which lists, two agents, one change of an agent |
| `gateway_listing` | Is an agent that cannot be asked left out of the listing, as its comment says? (`ListingFiltersFailures`, violated) | the same |
| `operations` | Do pages and assistant permit the same, is only one's own reached by a permission on one's own, does refused mean unchanged, how old are statistics? (`PathsAgree`, `OfferedIsPermitted`, `SelfIsOwn`, `RefusedAppliesNothing`, `StatisticsAreRecent`) Is what the assistant did and showed stored, does it see the question, does it end? (`WritesAreTraced`, `ShownIsStored`, `QuestionInContext`, `StreamsEnd`) | every operation for four users, one of which is anonymous, or two readers of the statistics and a writer; two streams that may share a conversation |

The type invariants of `JobsStore`, `SlurmrestdCache`, `SlurmrestdDiscovery`,
`DataPoller` and `AccessControlStore` are proved and no run repeats them; those of
the gateway, the operations, the chats and the models are conjuncts of the inductive
invariants below. Some carry more than types:
in `JobsStore` that no more connections are out than the pool has, in
`SlurmrestdCache` that no answer comes from the future, in `AccessControlStore`
that a user only has roles that exist.

Every property has a mutant in `PROJECT.json`: a plausible wrong version of one
definition, kept in the module under a comment, with which the property fails.
They are not part of the specification.

### Bounds, and why they are enough

* Jobs: the writer treats keys independently except in the batch, its chunks and
  the failed rows, for which two jobs and chunks of one row give every case (a
  whole batch, a row left, a row failed while a newer one waits). Incarnations
  only interact in pairs (`MaxInst = 2`: old and new submit time).
* Connections: the code has three; what matters is whether one is left, which
  one connection and one other holder show. `MaxQueries` bounds the holders.
* `MaxCrashes = 1`: a restart only forgets memory; a second one finds nothing new.
* Versions of data (`MaxVersion = 2`): before, after, and after a second change.
* slurmrestd versions: three, to have one that is neither newest nor oldest;
  `MaxUpgrades = 1` restart already makes two discoveries disagree.
* `MaxCounts = 2` counts for three callers, over two keys: one caller resets
  while the others count.
* `MaxLost = 3` overwritten timers: each needs a call that joins a poll.
* `MaxRoles = 2` roles ever created: an existing and a new one; the seeding of
  an empty table takes one. One user: users only meet in a role that is deleted.
* `MaxEdits = 2` edits or creations of two models: a model and another one that
  takes the default from it, or a model and an edit of it that meets a validation.
* Gateway: `Lifetime` and `Patience` are one unit each, instead of 300 seconds
  both. What matters is what expires before what, and time may stand still in any
  state, so that any number of steps fits in a unit. `Settled` covers a discovery,
  its use and the requests that follow. `MaxChanges = 1`: the properties are about
  agents that have not changed for long, and the other agent changes meanwhile.
* Statistics: two lifetimes of two units, one unit (`Patience`) between the
  computation of a value and its storage; ages are bounded by their sum.
* Chats: two streams, since what a third one adds to a conversation is what a
  second one adds; two messages before them and `HistoryLimit = 4`, so that the
  limit is met by the messages of the streams; `MaxRounds = 2`, a round that calls
  and a round that sees the result; one interface that reads and one that writes.
* Operations: four users, of everything, of some areas, of one's own only, and
  anonymous. Each operation is asked by a user of each kind, by both ways.
* Days: `MaxDay = 1`, one midnight, which may fall between any two steps of a
  refresh; two jobs of which one is of two candidates for its tool.
* Series: units of time keep the order and the divisibility of hours,
  days and weeks with short lengths; the moments are all of a week and a half, with
  windows that begin and end on and off the edges of the buckets.
* Analysis: three jobs of which one has no CPUs set, nodes of one and of two
  partitions; histories whose median wait is on each side of each threshold.

The proofs below remove the bounds for the properties they state.

### Fairness, and why the code justifies it

`JobsStore!Fairness` (run `jobs_live`): the operating system runs the writer and
the analytics thread (weak fairness); the time to live of a cached listing
elapses; slurmdbd catches up and slurmctld forgets ended jobs after `MinJobAge`;
and a call that the writer repeats in every cycle does not fail every time
(strong fairness of `SnapshotQueue`, `RefreshRecord`, `FlushRow`,
`BackfillDetail`). No action of users, no submission and no failure is fair.

`DataPoller!Fairness` (run `pages`): the browser fires timers that have elapsed,
and a request is answered, fails or times out. The page is not required to
become visible or to be used.

`AnalyticsFairness` (run `pages`): agents are started, the interval of the
thread passes and the calls of a refresh return. Midnight, the scripts, the jobs
and the restarts are not fair.

`Gateway!Fairness` (run `gateway`): threads are scheduled, and time passes
(strong fairness of `Tick`, which waits for threads that are about to act); no
agent has to recover or to answer.

`AIConversation!ChatFairness` (run `operations`): the server drives a response to its
end, and the requests to a provider have a timeout.

The other specifications state safety only and have no fairness. The merged
modules state the fairness of a part for its own steps.

Deadlock is checked everywhere. Where a part ends because its bound does (all
streams have ended, no number is left for a model), its `MC` module has a stuttering
disjunct for exactly these states.

## Disagreements between the code and its documents

The three `violation` runs (each quoted in `PROJECT.json`):

* **`jobs_pool`.** `_flush` takes the batch out of `_pending` and promises to
  queue failed rows again; `_flush_chunk` takes its connection outside its `try`,
  so that an exhausted pool, or a connection that cannot be opened, loses the
  batch and ends the writer thread. The other runs and the proof therefore say
  "while the writer lives" (`pc # "dead"`).
* **`access_form`.** A legacy role normalised at startup has the rules of its
  converted action in `permissions` and nothing of its other actions; the
  settings page shows and saves `permissions` alone.
* **`gateway_listing`.** The comment of `get_clusters()` says that clusters whose
  permissions could not be asked are left out; a refused connection or a timeout
  is not among the errors that `get_cluster()` turns into such an answer, and the
  whole listing fails.

Met while modelling, in the models, and not asserted by any run:

* A read that fetched before a write was applied stores its answer after the write
  deleted the key, although `docs/features/cache/requirements.md:76` says that
  writes drop the cached jobs. `StaleOnlyIfRaced` shows, and the proof for every
  instance, that this is the only way an older answer is cached.
* The usage of a record enriched in mid-run stays when the job ends while still
  listed: `COALESCE` keeps it, and nothing asks again (`TableIsJobHistory` shows
  only that usage is not erased). `docs/guides/verification-checklist.md:435` expects
  the maximum over all steps.
* With Redis unreachable, `_cached` fails instead of asking slurmrestd
  (`ReadCacheError`, `PutCacheError`; `docs/features/cache/requirements.md:54`).
* Between `StoreVersion` and `StoreChain` another thread's answers go out in the
  shape of an older version (`RawOnlyWhileSettling` shows that this is the only
  window while discoveries agree). Two discoveries around an upgrade that accept
  different versions may leave the version of one and the chain of the other
  (`slurmrestd/COMPATIBILITY.md:51`).
* A count that meets a reset may leave a counter that is no longer in its set,
  which later resets do not delete.
* `refresh()` while an older poll is under way asks nothing, and two calls that
  await one poll start two chains of timers, of which `stop()` clears one:
  `RefreshShowsWrites` and `GoneMeansQuiet` exclude just these
  (`docs/tracking/current-release.md:155`).
* A role edited between the read and the write of a normalisation is reverted:
  `EditsSurvive` excludes just these (`raced`).
* An edit of a model that is stored between the two statements of a validation may
  be lost: `EditsSurviveValidation` excludes just these (`mixed`).
* A job that completes after the last refresh of the day it was submitted on is
  counted by no refresh, only by a script (`TodayIsCounted` ends with the day;
  `docs/features/user-analytics/backend.md:42`). The first error of the database
  ends the thread.
* Of two writers of one day, the one that read first may commit last, with older
  counts: `RefreshKeepsCounts` excludes just these (`alone`).
* A write may be applied and answered by HTTP/500, when the deletion of the cached
  keys fails: `RefusedAppliesNothing` says so by name.
* One's own tools need a permission on the page and none in the chat:
  `PathsAgree` excludes just this operation.
* Beyond `max_history_messages` the oldest messages are kept
  (`slurmweb/tests/apps/test_ai_service.py:658`), and the question is not among them:
  `QuestionInContext` excludes just this. A tool that cannot be resolved leaves no
  row in `ai_tool_calls` (`docs/features/ai/test-plan.md:149`).
* A discovery that met an agent which never answers fails as a whole, and with it
  the requests to the other clusters until that agent refuses or answers.
* The label `constrained` of an analysis is below 55, and the score is never below
  56 (`slurmweb/tests/views/test_agent_operations.py:139` lists the label). A partition whose
  nodes are all busy has no CPU that can be scheduled, and no pressure by CPUs.

Met next to the models, in code whose data they leave out:

* The averages of several days drop the days whose average is zero
  (`user_analytics_store.py:271`), while `backend.md:42` weights by jobs.
* On the first of a month the analysis does not reach back to the day before
  (`views/agent.py:718`).
* The failed and cancelled series use the last time a job was seen, the completions
  its end. A range is turned into a window and its buckets are those of an explicit
  window of that length.

## Proofs

`tlapm` checks every step of the `*Proofs` modules. The assumptions are the named
`ASSUME`s of the modules, which TLC evaluates on every instance.

| Module | Theorem | Holds for every |
|---|---|---|
| `JobsStoreProofs` | `TypeCorrect`: `[]TypeOK` | number of jobs, incarnations, readers, connections |
| | `NewestRowIsKept`: `[]NewestRowKept` | the same, any chunk size, any failures |
| | `UsageStaysWithIncarnation`: `[]UsageOfOwnIncarnation`; `EndsAreReal`: `[]EndedMeansEnded` | the same |
| | `StoreIsJobHistory`: `TableIsJobHistory`, the refinement | the same |
| `SlurmrestdProofs` | `CacheTypeCorrect`, `StaleEntriesWereRaced`: `[]StaleOnlyIfRaced` | number of threads and changes, any set of operations |
| | `NewestVersionInUse`, `ChainSettles`, `AnswersFitOnceSettled` | number of threads, versions and restarts |
| | `TotalsAlwaysAgree`: `[]TotalsAgree` | number of threads, keys and counts |
| `PagesProofs` | `DataStaysOfTarget`, `HiddenStaysQuiet`, `GoneStaysQuiet`, `RefreshesShowWrites`: `[]RefreshShowsWrites`, `PollerTypeCorrect`: `[]TypeOK` | number of targets, changes and timers |
| | `RowsCountTheirDay`: `[]CountedOnItsDay`; `CountsSurviveRefresh`: `RefreshKeepsCounts` | number of jobs, days, tools, agents and scripts, any names and any mapping |
| | `SeriesCountJobs`: `[]SeriesCountEveryJob` | finite table of jobs, groups of states, window, and bucket lengths, if a week is a number of days |
| | `PressureExplained`: `[]PressureIsExplained`; `WaitingShown`: `[]WaitingIsShown` | finite queue, cluster and history, any limit |
| `TotalsProofs` | no theorem: the lemmas on sums that `SlurmrestdProofs` and `PagesProofs` rest on | finite function to the naturals |
| `AccessControlProofs` | `AssignmentsAreWhole`, `EditsAreKept`, `AccessTypeCorrect`: `[]TypeOK` | number of threads, users and roles, any rules, any legacy map |
| `GatewayProofs` | `LoginAlwaysSurvives`: `[]LoginSurvives` | number of threads, agents and clusters, any lifetime and timeout |
| | `KnownAgentsAreTrue`: `[]StableAgentsAreKnown`; `LoginsReachAgents`: `[]LoginReachesAgents`; `ListingsAreComplete`: `[]ListingIsComplete` | the same |
| `AgentOperationsProofs` | `RefusalsApplyNothing`: `[]RefusedAppliesNothing`; `StatisticsStayRecent`: `[]StatisticsAreRecent` | number of requests, users with any rules, any optional parts, any two lifetimes |
| | `PathsAlwaysAgree`: `[]PathsAgree`; `SelfStaysOwn`: `[]SelfIsOwn`; `OffersArePermitted`: `[]OfferedIsPermitted` | the same |
| `AIProofs` | `AppliedIsTraced`: `[]WritesAreTraced`; `PlannerSeesQuestion`: `[]QuestionInContext`; `AnswersAreStored`: `[]ShownIsStored` | number of streams and conversations, any limit of the history, any number of rounds |
| | `DefaultStaysEnabled`: `[]DefaultIsEnabled`; `ValidationsKeepEdits`: `[]EditsSurviveValidation` | number of administrators, models and edits |

The arguments:

* **Newest row.** `QueueInv` adds to `NewestRowKept` that the batch and the failed
  rows are empty outside a flush, that a key is in one of them at most, and that
  the row by row fallback only visits rows of the batch. Without the second, a
  written row could be hidden by a failed one of the same key.
* **Stale entries.** An entry not raced was fetched after every write that
  returned, or its write has yet to delete it: the invariant says so of what is
  stored (`StoredIsNewest`) and of what a thread holds between its fetch and its
  put (`HeldIsNewest`), and uses that an operation deletes every key it changes
  (`InvalidationComplete`).
* **Discovery.** The invariant follows a thread from its pings to its
  assignments: the version it tries is one below the last refused, the version
  it stores was accepted. While all accepted versions are one, the chain stored
  last fits the version stored last.
* **Poller.** Unless calls joined a poll, a timer and a request exclude each other
  and there is one of them (`OneChain`); the request is for the current target
  (`OfTarget`), as every change of target aborts it. For the types, a timer beside
  a request leaves room for one more below the bound.
* **Assignments.** A transaction that has cleared the rows of a user holds the
  lock on the row of that user (`Locked`), so that nobody else adds any
  (`Cleared`), and identifiers of deleted roles are not used again
  (`StayDeleted`).
* **Edits.** What a normalisation is about to write grants what the role was last
  edited to grant, unless it was edited since the read (`ReadFaithful`), because
  normalising changes no grant (`NormalizedGrants`): the removed actions map to
  no rule, an assumption on the legacy map that holds of the built-in one, and
  the added permissions are rules of actions that are kept. Roles created
  meanwhile have identifiers it has not read (`Unread`).
* **Types of the access control.** The rows of a user are of roles that exist
  (`Referenced`, the foreign key of `user_roles`), the role a form is about or
  saves has a name (`FormNamed`), and identifiers stay below their bound
  (`Bounded`); that no row outlives its role comes from `AssignInv`.
* **What is recorded of a job.** `TruthInv` says of every copy of a record, queued,
  in a batch, in the hands of a request, a reconciliation or a backfill, or stored,
  that it is true of its job (`JobHistory`'s `Usages` and `States`): the usage is of
  the submission of the row, final only if it has ended, and the state is one the
  job was in. What was true stays so, as jobs only move forward; a merge takes each
  half from one row of the same submission. Ends need that no listing is cached
  (`FreshTrue`): a listing of the past is what a wrong end is recorded from.
* **The store implements the history.** `TruthInv` and the batch of `QueueInv` (a
  chunk is of rows of the batch) make each statement of the writer, of a request and
  of the backfill a `Write` of `JobHistory` (`HistoryWrite`), the cleanup its
  `Cleanup`, the steps of Slurm its own; all others leave the table alone.
* **Refreshes.** What is due is never ahead of the server, and what is shown, or was
  read for the request under way, is not older than what is due (`FreshInv`): a request
  sent with a refresh reads after it (`AskedIsFresh`).
* **Login.** A request that is asked for the login is only ever at the steps of the
  login, through the discovery and back (`At`), so that the errors of the other
  views are not its own; and the outcome of the request served before is gone
  before a login begins. Every error that remains goes through `Raise`.
* **What is known of the agents.** `GatewayInv` gives each thread a clock: what a poll
  has heard of an agent is true of one that has not changed since the poll began,
  which is at most `Patience` ago, and what is stored is true of one that has not
  changed for `Patience` more than the age of the discovery. An agent that a login or
  a listing relies on has not changed for the whole of `Settled`, so that it is known
  when the thread reads the discovery, the thread sends it a request
  (its cluster is among those awaited), and its answer does not fail. Of several agents
  of one cluster the last asked is known: that there is a last one (`Rank` has a
  maximum on every set of urls) is assumed, as it holds of the finite list of the
  configuration.
* **Refused operations.** Only an answered request has applied anything, and it was
  answered with 200 or 500 then: every check comes before the step that applies.
* **Statistics.** A cached value and the time it has left add up to less than the
  bound; so do the age of what a request has computed, less the time it has waited,
  and the lifetime of the statistics (`AgeInv`).
* **Rights.** Two halves. Of the tables: every sequence of checks ends with the step
  that answers, the rights are checked before it and before the statistics are looked
  up (`Ordered`), and each of the 36 interfaces asks for the same rules, permission and
  owner as the one view with its name (`RowsAgree`). Of the requests: what is left of
  the checks is the rest of the row, and the rights among those passed hold
  (`Underway`), so that whatever is answered, listed or applied has passed all of
  them (`GrantInvariance`). Who may do what then only depends on the rules.
* **What is offered.** A third fact of the tables: each interface that `catalog()` offers
  asks for a permission that made it be offered, and none of those lists jobs
  (`EntriesServe`). So a refusal would come from the owner, which is the user. That takes
  who may chat: an anonymous user has no conversation under access control, and without
  a login no job is its own (`OfferInv`).
* **Sums.** As a number of pairs, a sum needs no induction: one more of a value is one
  pair more (`TotalOfOneMore`), and pairing each element of a set with its number
  within its part shows that the sizes of the parts add up (`TotalOfParts`), as
  bijections keep cardinalities.
* **Cache statistics.** `StatisticsInv` follows a reset: unless it met another call, it is
  alone, the totals it has passed are zero, the counters it has passed are deleted, and
  those ahead are all in the set it reads (`ResetAt`). That is what makes the sums zero
  when it returns; without it, a counter could be outside its set and survive.
  A count that has incremented its counter but not the total is owed, one element of
  a finite set.
* **Series.** With `t` a number of days and a remainder, the beginning of its week by days
  of the week is the one by division (`BucketsAreAligned`): the agent and the database
  truncate alike. Truncation keeps the order and differs by multiples
  (`MomentHasBucket`), so that every moment of the window falls in a bucket laid out from
  that of its start, and the jobs of a series are the parts of those of the window.
* **Analysis.** Without a recommendation no more jobs wait than run, the median is short and
  no node is down: 8 at most is deducted, and 92 is still efficient
  (`LittleIsDeducted`), given that the median is a number (`RankedIsWait`). A
  partition without waiting jobs waits for no CPU, so that all that is before a partition
  where jobs wait is before it as well (`WaitingIsAhead`): if the limit cuts the one, it
  cuts the other.
* **Chats.** A stream is followed through its stages (`StreamInv`): its question is in
  the conversation from `AddQuestion` on, its answer from `StoreAnswer` on and after it,
  and messages are only ever added at the end, so that what was in the context, or
  beyond the limit, stays there. A write without a row is counted at the stage
  `recording` alone.
* **Models.** The switches `is_default` and `enabled` are kept together in every copy of a
  configuration, in the table or in the hands of an administrator, so that none may be
  the default and disabled. What a validation has selected
  and is about to write back has the settings of the last edit of the model, unless one
  came in between (`StampsAreCurrent`).
* **Daily statistics.** What a writer has read for a day was submitted that day, is
  completed and has its memory, and stays so (`PayloadIsCountable`), as days and ends of
  jobs do not change: whichever writer commits, whenever midnight passes, the rows it
  leaves are its payload or what was there. As long as no other one commits, a writer has
  read every job of the rows it is going to delete, of those its `DELETE` has found and of
  those it inserts (`AloneCovers`). If midnight falls between its reading and its
  `DELETE`, the rows it is going to delete are those of the new day, which it has not
  read: there are none, as no row counts jobs of a day to come (`NothingAhead`).

Only model-checked: liveness (`EndedJobsAreClosed`, `WrongEndHeals`, `KeepsPolling`,
`TodayIsCounted`, `Answered`, `StreamsEnd`), which the prover does not reason about
with fairness and `ENABLED`. Every invariant and every action property of a passing
run is proved. No module declares a recursive operator, and no
proof is by induction over data: what would be one is a statement about
cardinalities.

## What is not modelled

* Data: the columns of a job, JSON payloads, field renaming of the adapters,
  formatting, logging.
* The file policy, evaluated by the RFL library, and its merge with the roles of
  the database; the listing of users.
* Failures inside PostgreSQL: a commit happens or the transaction has no effect.
  Gaps in identifiers left by failed inserts.
* The renewal of the Slurm token by threads without a lock (`auth.py:78`): the old
  token has nearly a minute left when the new expiration is published.
* The startup of the agent: each store is modelled from when it runs. A startup
  that overwrites the snapshot a login stored meanwhile (`apps/agent.py:582`) is
  not modelled.
* The processes of one gateway share nothing: each discovers for itself
  (`lib/wsgi/gateway/slurm-web-gateway.ini`), and one is modelled.
* In `UserAnalytics`, one user, and a mapping file that does not change. A script
  reads its days one by one, the model at once.
* Node hotspots and the conversions of payloads: sequential computations over one
  query or one request.
* The other components marked `not_modelled` in `PROJECT.json`, with the reason
  there: rendering, clients of other services, commands, declarations.

## Plan

The modules planned are written, but for those listed above, and the safety
properties planned are proved. What would extend the project:

1. the renewal of the Slurm token, if its margin is ever made shorter;
2. the startup of the agent beside the requests it already serves;
3. the liveness properties, once a prover reasons about fairness and `ENABLED`.
