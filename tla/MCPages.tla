------------------------------ MODULE MCPages ------------------------------
(***************************************************************************)
(* What the pages show: the polling of a view, the daily statistics of the  *)
(* users, the series of their history and the analysis of the cluster.      *)
(* They have no variable in common, and a behaviour is one of them.         *)
(***************************************************************************)
EXTENDS DataPoller, UserAnalytics, UserTimelines, ClusterAnalysis, TLC

CONSTANTS a, b, job1, job2, agent, script, Null

VARIABLE part \* which of them

\* Named gmx by its user, or run by a regression that hides its tool.
MCNames == (job1 :> [name |-> "gmx", command |-> "regr-x"])
        @@ (job2 :> [name |-> Null, command |-> "regr-x"])
MCRules == <<[matches |-> {"gmx"}, tool |-> "gromacs"]>>

\* An hour is four units of time, and days and weeks are short.
MCGroups == [pending_jobs |-> {"PENDING"}, failed_jobs |-> {"FAILED"}]
Snapshot(job, submit, end, seen, state) ==
    [job |-> job, submit |-> submit, end |-> end, seen |-> seen, state |-> state]
MCRowSets ==
    {{Snapshot(1, t, e, 40, "COMPLETED"), Snapshot(2, t, e, 33, "FAILED"),
      Snapshot(3, 2, Null, t, "PENDING")} : t \in 0..40, e \in {31, 40}}

MCQueueJobs == <<[partition |-> "gpu", cpus |-> 0], [partition |-> "gpu", cpus |-> 2],
                 [partition |-> "batch", cpus |-> 2]>>
MCNodes == <<[partitions |-> {"batch"}, cpus |-> 4], [partitions |-> {"batch", "gpu"}, cpus |-> 4]>>
MCPartitions == <<"batch", "gpu">>
Waited(time) == [submit |-> 0, start |-> time]
MCHistories == {<<>>, <<Waited(10)>>, <<Waited(4000), Waited(0), Waited(1200)>>,
                <<Waited(3600), Waited(5000)>>, <<[submit |-> 5, start |-> Null]>>}

allVars == <<part, vars, analyticsVars, timelinesVars, analysisVars>>

MCInit ==
    /\ part \in {"poller", "analytics", "timelines", "analysis"}
    /\ Init /\ AnalyticsInit /\ TimelinesInit /\ AnalysisInit
    /\ part # "poller" => ~hidden /\ ~typing /\ target = a
    /\ part # "timelines" => rows = CHOOSE r \in RowSets : TRUE

PollerStep(A) == part = "poller" /\ A /\ UNCHANGED <<part, analyticsVars, timelinesVars, analysisVars>>
AnalyticsStep(A) == part = "analytics" /\ A /\ UNCHANGED <<part, vars, timelinesVars, analysisVars>>
TimelinesStep(A) == part = "timelines" /\ A /\ UNCHANGED <<part, vars, analyticsVars, analysisVars>>
AnalysisStep(A) == part = "analysis" /\ A /\ UNCHANGED <<part, vars, analyticsVars, timelinesVars>>

MCNext ==
    \/ PollerStep(Next) \/ AnalyticsStep(AnalyticsNext)
    \/ TimelinesStep(TimelinesNext) \/ AnalysisStep(AnalysisNext)

\* The fairness of the poller and that of the aggregation thread.
MCSpec ==
    /\ MCInit /\ [][MCNext]_allVars
    /\ WF_allVars(PollerStep(TimerFires))
    /\ WF_allVars(PollerStep(Read))
    /\ WF_allVars(PollerStep(Answered \/ Failed \/ Refused))
    /\ WF_allVars(AnalyticsStep(AggregatorStep(agent)))
=============================================================================
