--------------------------- MODULE UserAnalytics ---------------------------
(***************************************************************************)
(* Daily statistics of the tools of a user (slurmweb/persistence/           *)
(* user_analytics_store.py): a thread of the agent counts the completed     *)
(* jobs of the current day by tool, again and again, and the scripts that   *)
(* repair the statistics (slurmweb/scripts) count those of chosen days.     *)
(*                                                                          *)
(* A row of user_tool_daily_stats is the set of the jobs it counts: the     *)
(* averages are functions of that set.  Row locks only delay a writer, and  *)
(* the one whose transaction is aborted fails.                              *)
(***************************************************************************)
EXTENDS Integers, Sequences, FiniteSetsExt

CONSTANTS
    Jobs,
    Names,      \* job_name and command of each job, as normalized candidates
    Rules,      \* the mapping file: sequence of [matches : set of names, tool : name]
    Rewritten,  \* names that tool_rewrite_pattern matches
    RewriteTool, Unknown, NoName,
    Tools,
    MaxDay,
    Aggregators, Scripts,
    MaxRestarts \* bound: restarts of agents

ASSUME AnalyticsAssumption == MaxDay \in Nat /\ MaxRestarts \in Nat

VARIABLES
    today,      \* the current UTC day
    jobs,       \* job_snapshots, with the day of the submission
    stats,      \* user_tool_daily_stats: the jobs counted for a day and a tool
    stage,      \* where each writer is
    days,       \* the days it works on
    payload,    \* the rows it is going to insert
    found,      \* the keys of the rows its DELETE has found
    alone,      \* history: no other writer committed since it read the jobs
    restarts

analyticsVars == <<today, jobs, stats, stage, days, payload, found, alone, restarts>>

Days == 0..MaxDay
Writers == Aggregators \cup Scripts
Stages == {"off", "begin", "backfill", "read", "replace", "insert", "wait", "ended"}
NotSubmitted == [day |-> -1, state |-> "none", memory |-> FALSE]
NoRows == [d \in Days |-> {}]

-----------------------------------------------------------------------------
(* The tool of a job.                                                       *)

Matching(rules, name) == {i \in DOMAIN rules : name \in rules[i].matches}

\* ToolNameMapper.classify()
Classify(job, rules) ==
    LET candidates == SelectSeq(<<Names[job].name, Names[job].command>>, LAMBDA c : c # NoName)
        mapped == {i \in DOMAIN candidates : Matching(rules, candidates[i]) # {}}
    IN  IF mapped # {} THEN rules[Min(Matching(rules, candidates[Min(mapped)]))].tool
        ELSE IF candidates # <<>> THEN candidates[1] ELSE Unknown

\* _classify_daily_tool()
DailyTool(job) ==
    LET mapped == Classify(job, Rules)
    IN  IF {mapped, Classify(job, <<>>)} \cap Rewritten # {} THEN RewriteTool ELSE mapped

-----------------------------------------------------------------------------
(* Jobs.                                                                    *)

Submit(j) ==
    /\ jobs[j] = NotSubmitted
    /\ jobs' = [jobs EXCEPT ![j] = [day |-> today, state |-> "queued", memory |-> FALSE]]
    /\ UNCHANGED <<today, stats, stage, days, payload, found, alone, restarts>>

\* The recording of the final state, with the usage if the details were read.
End(j) ==
    /\ jobs[j].state = "queued"
    /\ \E state \in {"completed", "failed"}, memory \in BOOLEAN :
          jobs' = [jobs EXCEPT ![j].state = state, ![j].memory = memory]
    /\ UNCHANGED <<today, stats, stage, days, payload, found, alone, restarts>>

Midnight ==
    /\ today < MaxDay
    /\ today' = today + 1
    /\ UNCHANGED <<jobs, stats, stage, days, payload, found, alone, restarts>>

\* usage_backfill_rows_query()
MissingUsage(ds) ==
    {j \in Jobs : jobs[j].day \in ds /\ jobs[j].state \in {"completed", "failed"} /\ ~jobs[j].memory}

\* completed_job_rows_for_activity_date(), without those that
\* aggregate_user_tool_daily_rows() skips.
Countable(d) == {j \in Jobs : jobs[j].day = d /\ jobs[j].state = "completed" /\ jobs[j].memory}

-----------------------------------------------------------------------------
(* Writers.                                                                 *)

Goto(w, s) == stage' = [stage EXCEPT ![w] = s]

\* Its local variables are gone.
Leave(w, s) ==
    /\ Goto(w, s)
    /\ days' = [days EXCEPT ![w] = {}]
    /\ payload' = [payload EXCEPT ![w] = NoRows]
    /\ found' = [found EXCEPT ![w] = {}]
    /\ alone' = [alone EXCEPT ![w] = FALSE]

\* The agent starts, and its thread unless the pool cannot be created.
StartAgent(w) ==
    /\ w \in Aggregators /\ stage[w] = "off"
    /\ \E s \in {"begin", "ended"} : Goto(w, s)
    /\ UNCHANGED <<today, jobs, stats, days, payload, found, alone, restarts>>

\* The agent stops at any moment: the thread is a daemon.
StopAgent(w) ==
    /\ w \in Aggregators /\ stage[w] # "off"
    /\ restarts < MaxRestarts
    /\ restarts' = restarts + 1
    /\ Leave(w, "off")
    /\ UNCHANGED <<today, jobs, stats>>

\* Faulty variant: the thread refreshes once.
WakeNever(w) == FALSE /\ UNCHANGED analyticsVars

\* The interval has passed.
Wake(w) ==
    /\ stage[w] = "wait"
    /\ Goto(w, "begin")
    /\ UNCHANGED <<today, jobs, stats, days, payload, found, alone, restarts>>

\* refresh_current_day_summary(): the day whose usage is completed.
BeginRefresh(w) ==
    /\ w \in Aggregators /\ stage[w] = "begin"
    /\ Goto(w, "backfill")
    /\ days' = [days EXCEPT ![w] = {today}]
    /\ UNCHANGED <<today, jobs, stats, payload, found, alone, restarts>>

\* rebuild(), for the days of its arguments.
BeginScript(w) ==
    /\ w \in Scripts /\ stage[w] = "off"
    /\ Goto(w, "backfill")
    /\ \E from \in Days, to \in Days :
          from <= to /\ to <= today /\ days' = [days EXCEPT ![w] = from..to]
    /\ UNCHANGED <<today, jobs, stats, payload, found, alone, restarts>>

\* backfill_usage_fields(): slurmrestd may not know some of the jobs.
Backfill(w) ==
    /\ stage[w] = "backfill"
    /\ Goto(w, "read")
    /\ \E js \in SUBSET MissingUsage(days[w]) :
          jobs' = [j \in Jobs |-> IF j \in js THEN [jobs[j] EXCEPT !.memory = TRUE] ELSE jobs[j]]
    /\ UNCHANGED <<today, stats, days, payload, found, alone, restarts>>

\* The thread looks at the clock again; the rows get the day they were asked for.
ReadJobs(w) ==
    /\ stage[w] = "read"
    /\ Goto(w, "replace")
    /\ LET ds == IF w \in Aggregators THEN {today} ELSE days[w]
       IN  payload' = [payload EXCEPT ![w] =
                          [d \in Days |-> IF d \in ds THEN Countable(d) ELSE {}]]
    /\ alone' = [alone EXCEPT ![w] = TRUE]
    /\ UNCHANGED <<today, jobs, stats, days, found, restarts>>

\* DELETE, for the day it is now when the thread executes it.
Replaced(w) == IF w \in Aggregators THEN {today} ELSE days[w]

Delete(w) ==
    /\ stage[w] = "replace"
    /\ Goto(w, "insert")
    /\ found' = [found EXCEPT ![w] = {k \in Replaced(w) \X Tools : stats[k] # {}}]
    /\ UNCHANGED <<today, jobs, stats, days, payload, alone, restarts>>

\* Faulty variant: the rows are dated when they are inserted.
InsertedToday(w, d, t) == IF d = today THEN {j \in UNION {payload[w][e] : e \in Days} : DailyTool(j) = t} ELSE {}

Inserted(w, d, t) == {j \in payload[w][d] : DailyTool(j) = t}

\* Faulty variant: every row is deleted, as replace_all_rows() does.
RowsEmptied(w) == [k \in Days \X Tools |-> Inserted(w, k[1], k[2])]

\* INSERT ... ON CONFLICT DO UPDATE over what the DELETE leaves.
Rows(w) ==
    [k \in Days \X Tools |->
        IF Inserted(w, k[1], k[2]) # {} THEN Inserted(w, k[1], k[2])
        ELSE IF k \in found[w] THEN {} ELSE stats[k]]

\* The commit.  The rows that the DELETE of another writer has found and that
\* are replaced meanwhile are no longer there for it.
Commit(w) ==
    /\ stage[w] = "insert"
    /\ stats' = Rows(w)
    /\ LET touched == found[w] \cup {k \in Days \X Tools : Inserted(w, k[1], k[2]) # {}}
       IN  found' = [v \in Writers |-> IF v = w THEN {} ELSE found[v] \ touched]
    /\ alone' = [v \in Writers |-> FALSE]
    /\ Goto(w, IF w \in Aggregators THEN "wait" ELSE "off")
    /\ days' = [days EXCEPT ![w] = {}]
    /\ payload' = [payload EXCEPT ![w] = NoRows]
    /\ UNCHANGED <<today, jobs, restarts>>

\* An error of the database ends the thread, or the script, and rolls back.
Fail(w) ==
    /\ stage[w] \in {"backfill", "read", "replace", "insert"}
    /\ Leave(w, IF w \in Aggregators THEN "ended" ELSE "off")
    /\ UNCHANGED <<today, jobs, stats, restarts>>

-----------------------------------------------------------------------------
AnalyticsInit ==
    /\ today = 0
    /\ jobs = [j \in Jobs |-> NotSubmitted]
    /\ stats = [k \in Days \X Tools |-> {}]
    /\ stage = [w \in Writers |-> "off"]
    /\ days = [w \in Writers |-> {}]
    /\ payload = [w \in Writers |-> NoRows]
    /\ found = [w \in Writers |-> {}]
    /\ alone = [w \in Writers |-> FALSE]
    /\ restarts = 0

RefreshStep(w) == BeginRefresh(w) \/ Backfill(w) \/ ReadJobs(w) \/ Delete(w) \/ Commit(w)

AnalyticsNext ==
    \/ \E j \in Jobs : Submit(j) \/ End(j)
    \/ Midnight
    \/ \E w \in Writers :
          StartAgent(w) \/ StopAgent(w) \/ Wake(w) \/ BeginScript(w) \/ RefreshStep(w) \/ Fail(w)

\* Agents are started, intervals pass and the calls of a refresh return.
AggregatorStep(w) == StartAgent(w) \/ Wake(w) \/ RefreshStep(w)
AnalyticsFairness == \A w \in Aggregators : WF_analyticsVars(AggregatorStep(w))

AnalyticsSpec == AnalyticsInit /\ [][AnalyticsNext]_analyticsVars /\ AnalyticsFairness

-----------------------------------------------------------------------------
(* Properties.                                                              *)

Counted(j) == \E k \in Days \X Tools : j \in stats[k]

\* A row counts completed jobs of its tool with their memory, which were
\* submitted on its day, and no job is counted twice, although the clock is
\* read three times in a refresh and midnight may pass between them.
CountedOnItsDay ==
    \A j \in Jobs, k \in Days \X Tools :
        j \in stats[k] =>
            /\ jobs[j].day = k[1] /\ DailyTool(j) = k[2]
            /\ jobs[j].state = "completed" /\ jobs[j].memory

\* A refresh or a script never takes a counted job away, unless another one
\* committed since it read the jobs: what fails leaves the rows as they were,
\* and what is replaced is counted again.
KeepsCounts(w) == Commit(w) /\ alone[w] => \A k \in Days \X Tools : stats[k] \subseteq stats'[k]
RefreshKeepsCounts == [][\A w \in Writers : KeepsCounts(w)]_analyticsVars

\* A completed job is counted the day it was submitted, unless that day is over
\* or a thread has ended before.
TodayIsCounted ==
    \A j \in Jobs :
        jobs[j].state = "completed" /\ jobs[j].memory /\ jobs[j].day = today
            ~> Counted(j) \/ jobs[j].day # today \/ \E w \in Aggregators : stage[w] = "ended"
=============================================================================
