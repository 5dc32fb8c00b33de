-------------------------- MODULE AgentOperations --------------------------
(***************************************************************************)
(* Requests to an agent, by its pages and by its assistant, and the second   *)
(* cache of the statistics (slurmweb/views/agent.py,                         *)
(* slurmweb/ai/agent_interfaces.py). What an operation reads or writes in     *)
(* Slurm is in SlurmrestdCache; here are its guards and its answer.          *)
(***************************************************************************)
EXTENDS OperationRows

CONSTANTS
    Requests,           \* threads
    Workloads,          \* operations each is asked, one of these in a behaviour
    StatsLife,          \* settings.cache.stats
    JobsLife,           \* settings.cache.jobs
    Patience            \* bound on the time between a reading and its storage

ASSUME OperationsAssumption ==
    /\ Workloads # {} /\ \A w \in Workloads : DOMAIN w = Requests
    /\ StatsLife \in Nat \ {0} /\ JobsLife \in Nat \ {0} /\ Patience \in Nat

----------------------------------------------------------------------------
(* Requests *)

VARIABLES
    asks,               \* the workload
    status,             \* of a request: idle, busy or done
    user, path, op,
    own,                \* the job or the analysis it is about is that of its user
    todo,               \* checks that are left
    code,               \* HTTP status of the answer, 0 before
    applied,            \* Slurm was changed
    shown,              \* whose jobs are in the answer
    held, waited,       \* age of the statistics it computed, time since
    listing,            \* <<age>> of the cached jobs, <<>> without
    stats               \* <<age, time left>> of the cached statistics, <<>> without

about == <<asks, user, path, op, own>>
vars == <<status, about, todo, code, applied, shown, held, waited, listing, stats>>

Idle == [user |-> CHOOSE u \in Users : TRUE, path |-> "http", op |-> "version"]

Init ==
    /\ asks \in Workloads
    /\ status = [r \in Requests |-> "idle"]
    /\ user = [r \in Requests |-> Idle.user] /\ path = [r \in Requests |-> Idle.path]
    /\ op = [r \in Requests |-> Idle.op] /\ own = [r \in Requests |-> TRUE]
    /\ todo = [r \in Requests |-> <<>>] /\ code = [r \in Requests |-> 0]
    /\ applied = [r \in Requests |-> FALSE] /\ shown = [r \in Requests |-> {}]
    /\ held = [r \in Requests |-> 0] /\ waited = [r \in Requests |-> 0]
    /\ listing = <<>> /\ stats = <<>>

\* Operations about something that is somebody's.
OfSomebody == {"job", "job/update", "job/cancel", "user/metrics/history", "user/tools/analysis"}

Handler(r) == Handlers[path[r]][op[r]]
Due(r, step) == status[r] = "busy" /\ Head(todo[r]) = step

\* The answer. Only what the properties look at is kept.
Answer(r, status_code) ==
    /\ status' = [status EXCEPT ![r] = "done"] /\ code' = [code EXCEPT ![r] = status_code]
    /\ todo' = [todo EXCEPT ![r] = <<>>]
    /\ UNCHANGED about

Pass(r) ==
    /\ todo' = [todo EXCEPT ![r] = Tail(@)]
    /\ UNCHANGED <<status, about, code>>

Kept == <<applied, shown, held, waited, listing, stats>>

\* A view is requested, or the planner of a chat calls an interface. Without a login
\* nothing is one's own.
Ask(r) ==
    /\ status[r] = "idle"
    /\ \E u \in Users, p \in Paths, o \in asks[r], w \in BOOLEAN :
        /\ p = "http" => o \in DOMAIN Views
        /\ p = "assistant" => "ai" \in Enabled /\ Permitted(Views["ai/chat"], u, FALSE)
        /\ o \notin OfSomebody => w
        /\ w /\ o \in OfSomebody => u \notin Anonymous
        /\ user' = [user EXCEPT ![r] = u] /\ path' = [path EXCEPT ![r] = p]
        /\ op' = [op EXCEPT ![r] = o] /\ own' = [own EXCEPT ![r] = w]
        /\ todo' = [todo EXCEPT ![r] =
              IF o \in DOMAIN Handlers[p] THEN Handlers[p][o].steps ELSE <<"unsupported">>]
    /\ status' = [status EXCEPT ![r] = "busy"]
    /\ UNCHANGED <<asks, code, Kept>>

\* permission_required(), _require_any(), _require_permission()
CheckPermission(r) ==
    /\ Due(r, "permission") \/ Due(r, "permission-unless-own")
    /\ IF Permitted(Handler(r), user[r], own[r]) \/ (own[r] /\ Due(r, "permission-unless-own"))
         THEN Pass(r) ELSE Answer(r, 403)
    /\ UNCHANGED Kept

\* The optional parts of the agent.
CheckFeature(r) ==
    /\ \E feature \in Features \cup {"nodes-observed"} :
        /\ Due(r, feature)
        /\ IF \/ feature \in Enabled
              \/ feature = "nodes-observed" /\ Enabled \cap {"node-metrics", "node-hotspots"} # {}
             THEN Pass(r) ELSE Answer(r, 501)
    /\ UNCHANGED Kept

\* _ensure_write_supported(): discovers the API version, or fails to.
CheckSupported(r) ==
    /\ Due(r, "supported")
    /\ Pass(r) \/ \E error \in {401, 404, 500, 501} : Answer(r, error)
    /\ UNCHANGED Kept

\* Arguments and payload of the request.
CheckArgument(r) ==
    /\ \/ Due(r, "argument") /\ (Pass(r) \/ Answer(r, 400))
       \/ Due(r, "window") /\ (Pass(r) \/ Answer(r, 500))
       \/ Due(r, "unknown") /\ Answer(r, 404)
       \/ Due(r, "unsupported") /\ Answer(r, 400)
    /\ UNCHANGED Kept

\* _authorize_job_owner() reads the job, _authorize_job_write() only for its owner.
CheckOwner(r) ==
    /\ Due(r, "owner") \/ Due(r, "own-job")
    /\ LET scope == Scope(Handler(r), user[r])
       IN \/ scope = "none" /\ Answer(r, 403)
          \/ scope = "*" /\ Due(r, "own-job") /\ Pass(r)
          \/ /\ scope = "self" \/ (scope = "*" /\ Due(r, "owner"))
             /\ \/ IF scope = "*" \/ own[r] THEN Pass(r) ELSE Answer(r, 403)
                \/ \E error \in {401, 404, 500} : Answer(r, error)
    /\ UNCHANGED Kept

\* The jobs, those of the user only when its permission is for them.
ListJobs(r) ==
    /\ Due(r, "filter")
    /\ LET scope == Scope(Handler(r), user[r])
       IN \/ scope = "none" /\ Answer(r, 403) /\ UNCHANGED shown
          \/ /\ scope # "none" /\ Answer(r, 200)
             /\ shown' = [shown EXCEPT ![r] = IF scope = "*" THEN {"own", "others"} ELSE {"own"}]
          \/ \E error \in {401, 404, 500} : Answer(r, error) /\ UNCHANGED shown
    /\ UNCHANGED <<applied, held, waited, listing, stats>>

\* Slurm, a database or Prometheus answers or fails.
ReadBackend(r) ==
    /\ Due(r, "read")
    /\ \E answer \in {200, 401, 404, 500} : Answer(r, answer)
    /\ UNCHANGED Kept

\* A refused operation that was applied.
ApplyFirst(r) ==
    /\ Due(r, "apply")
    /\ \E answer \in {200, 404, 500} : Answer(r, answer)
    /\ applied' = [applied EXCEPT ![r] = TRUE]
    /\ UNCHANGED <<shown, held, waited, listing, stats>>

\* The operation of the client, that forgets the cached jobs it concerns after the
\* request to Slurm: it may be applied and yet answered by an error.
Apply(r) ==
    /\ Due(r, "apply")
    /\ \E answer \in {200, 401, 404, 500}, done \in BOOLEAN :
        /\ answer = 200 => done
        /\ answer \in {401, 404} => ~done
        /\ Answer(r, answer)
        /\ applied' = [applied EXCEPT ![r] = done]
        /\ listing' = IF answer = 200 /\ op[r] \in {"job/submit", "job/update", "job/cancel"}
                        THEN <<>> ELSE listing
    /\ UNCHANGED <<shown, held, waited, stats>>

----------------------------------------------------------------------------
(* Statistics *)

\* A hit keeps the statistics for longer.
LookUpRenews(r) ==
    /\ Due(r, "cached") /\ UNCHANGED <<applied, shown, waited, listing>>
    /\ \/ /\ stats # <<>> /\ Answer(r, 200) /\ held' = [held EXCEPT ![r] = stats[1]]
          /\ stats' = <<stats[1], StatsLife>>
       \/ stats = <<>> /\ Pass(r) /\ UNCHANGED <<held, stats>>

\* _cache_get_or_put() reads. held is the age of what the request has.
LookUp(r) ==
    /\ Due(r, "cached")
    /\ \/ /\ "cache" \in Enabled /\ stats # <<>>
          /\ Answer(r, 200) /\ held' = [held EXCEPT ![r] = stats[1]]
       \/ /\ "cache" \in Enabled => stats = <<>>
          /\ Pass(r) /\ UNCHANGED held
       \/ "cache" \in Enabled /\ Answer(r, 500) /\ UNCHANGED held
    /\ UNCHANGED <<applied, shown, waited, listing, stats>>

\* _collect_stats(), from the jobs that the client has in its own cache.
Collect(r) ==
    /\ Due(r, "collect")
    /\ \/ Answer(r, 500) /\ UNCHANGED <<held, listing>>
       \/ /\ IF "cache" \in Enabled THEN Pass(r) ELSE Answer(r, 200)
          /\ held' = [held EXCEPT ![r] = IF listing = <<>> THEN 0 ELSE listing[1]]
          /\ listing' = IF listing = <<>> /\ "cache" \in Enabled THEN <<0>> ELSE listing
    /\ UNCHANGED <<applied, shown, waited, stats>>

\* _cache_get_or_put() writes.
Keep(r) ==
    /\ Due(r, "keep")
    /\ \/ Answer(r, 200) /\ stats' = <<held[r], StatsLife>>
       \/ Answer(r, 500) /\ UNCHANGED stats
    /\ UNCHANGED <<applied, shown, held, waited, listing>>

\* The thread takes another request.
Return(r) ==
    /\ status[r] = "done"
    /\ status' = [status EXCEPT ![r] = "idle"] /\ code' = [code EXCEPT ![r] = 0]
    /\ user' = [user EXCEPT ![r] = Idle.user] /\ path' = [path EXCEPT ![r] = Idle.path]
    /\ op' = [op EXCEPT ![r] = Idle.op] /\ own' = [own EXCEPT ![r] = TRUE]
    /\ applied' = [applied EXCEPT ![r] = FALSE] /\ shown' = [shown EXCEPT ![r] = {}]
    /\ held' = [held EXCEPT ![r] = 0] /\ waited' = [waited EXCEPT ![r] = 0]
    /\ UNCHANGED <<asks, todo, listing, stats>>

\* Time passes, no more than Patience while a request holds statistics to store.
Tick ==
    LET holding == {r \in Requests : Due(r, "keep")}
    IN /\ \A r \in holding : waited[r] < Patience
       /\ waited' = [r \in Requests |-> IF r \in holding THEN waited[r] + 1 ELSE waited[r]]
       /\ held' = [r \in Requests |-> IF r \in holding THEN held[r] + 1 ELSE held[r]]
       /\ listing' = IF listing = <<>> \/ listing[1] + 1 = JobsLife THEN <<>> ELSE <<listing[1] + 1>>
       /\ stats' = IF stats = <<>> \/ stats[2] = 1 THEN <<>> ELSE <<stats[1] + 1, stats[2] - 1>>
       /\ UNCHANGED <<status, about, todo, code, applied, shown>>

Next ==
    \/ \E r \in Requests :
        \/ Ask(r) \/ CheckPermission(r) \/ CheckFeature(r) \/ CheckSupported(r) \/ CheckArgument(r)
        \/ CheckOwner(r) \/ ListJobs(r) \/ ReadBackend(r) \/ Apply(r)
        \/ LookUp(r) \/ Collect(r) \/ Keep(r) \/ Return(r)
    \/ Tick

Spec == Init /\ [][Next]_vars

----------------------------------------------------------------------------
(* Properties *)

\* What one path does for a user, the other permits too: the assistant gives no
\* more than the pages and refuses nothing that they show. Only the analysis of one's
\* own tools needs a permission on its page and none in the chat.
PathsAgree ==
    \A r \in Requests :
        code[r] = 200 /\ op[r] \in DOMAIN Interfaces /\ ~(op[r] = "user/tools/analysis" /\ own[r])
            => \A p \in Paths : Permits(p, op[r], user[r], own[r])

\* The interfaces offered to the planner are permitted to the user, at least for
\* what is its own (catalog() and the handlers of the interfaces state the
\* permissions separately).
OfferedIsPermitted ==
    \A r \in Requests :
        path[r] = "assistant" /\ op[r] \in Catalog(user[r]) /\ code[r] = 403 => ~own[r]

\* An answer that says that the request was wrong, refused or unsupported means
\* that nothing was changed in Slurm.
RefusedAppliesNothing ==
    \A r \in Requests : applied[r] => code[r] \in {200, 500}

\* A permission on one's own jobs neither changes nor shows those of others.
SelfIsOwn ==
    \A r \in Requests :
        (applied[r] /\ op[r] \in {"job/update", "job/cancel"}) \/ shown[r] # {}
            => \/ \E rule \in Handler(r).rules : rule.scope = "*" /\ Allowed(user[r], rule)
               \/ shown[r] \subseteq {"own"} /\ (applied[r] => own[r])

\* The statistics go through two caches, one above the other: they are never older
\* than the two lifetimes and the time it took to compute them, whatever was
\* computed and stored at the same time.
StatisticsAreRecent ==
    \A r \in Requests :
        op[r] = "stats" /\ code[r] = 200 => held[r] < JobsLife + StatsLife + Patience
=============================================================================
