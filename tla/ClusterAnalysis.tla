-------------------------- MODULE ClusterAnalysis --------------------------
(***************************************************************************)
(* analysis_context() (slurmweb/views/agent.py): the page of an operator,   *)
(* which scores the cluster, shows the partitions under pressure and        *)
(* recommends what to look at.  The jobs, the nodes and the history are     *)
(* read one after the other while the cluster goes on.                      *)
(***************************************************************************)
EXTENDS Totals

CONSTANTS
    QueueJobs,      \* jobs of the queue: [partition, cpus], 0 if not set
    Nodes,          \* nodes: [partitions, cpus]
    Partitions,     \* names in their order
    Histories,      \* what the job history may hold: sequences of [submit, start]
    PressureLimit, NoValue

\* Queue, cluster and history are finite, and CPUs are counted.
ASSUME AnalysisAssumption ==
    /\ IsFiniteSet(DOMAIN QueueJobs) /\ \A j \in DOMAIN QueueJobs : QueueJobs[j].cpus \in Nat
    /\ IsFiniteSet(DOMAIN Nodes) /\ IsFiniteSet(DOMAIN Partitions) /\ PressureLimit \in Nat
    /\ \A h \in Histories :
          /\ IsFiniteSet(DOMAIN h)
          /\ \A i \in DOMAIN h :
                h[i].submit \in Int \cup {NoValue} /\ h[i].start \in Int \cup {NoValue}

VARIABLES
    queue,    \* state of each job: "PENDING", "COMPLETING" (as "RUNNING") or "gone"
    nodes,    \* state of each node: a set of flags
    read,     \* what the handler has read: [jobs, nodes, waits]
    report    \* its last answer, or NoReport

analysisVars == <<queue, nodes, read, report>>

NoReport == [status |-> 0]
Error == [status |-> 500]
NoWaits == [samples |-> 0, median |-> NoValue]
Nothing == [jobs |-> NoValue, nodes |-> NoValue, waits |-> NoValue]

NodeStates == {{"IDLE"}, {"ALLOCATED"}, {"IDLE", "DRAIN"}}

-----------------------------------------------------------------------------
(* The pieces of the answer.                                                *)

MainState(flags) ==
    IF flags \cap {"DOWN", "DRAIN", "DRAINED", "FAIL", "FAILING"} # {} THEN "down"
    ELSE IF "IDLE" \in flags THEN "up"
    ELSE IF flags \cap {"ALLOCATED", "MIXED"} # {} THEN "busy" ELSE "unknown"

Pending(js) == {j \in DOMAIN js : js[j] = "PENDING"}
Running(js) == {j \in DOMAIN js : js[j] \in {"RUNNING", "COMPLETING"}}
Cpus(js) == Total([j \in js |-> QueueJobs[j].cpus])

\* The wait at a place of the sorted waits, from 0: the least one that more waits than
\* the place do not exceed.
Ranked(waits, place) ==
    LET values == {waits[i] : i \in DOMAIN waits}
        upTo(m) == Cardinality({i \in DOMAIN waits : waits[i] <= m})
        enough == {m \in values : upTo(m) > place}
    IN  CHOOSE m \in enough : \A n \in enough : m <= n

\* _history_wait_stats(): of an even number of waits, the lower of the two.
WaitStats(records) ==
    LET started == {i \in DOMAIN records :
                        records[i].submit # NoValue /\ records[i].start # NoValue}
        wait(r) == IF r.start >= r.submit THEN r.start - r.submit ELSE 0
        waits == [i \in started |-> wait(records[i])]
        samples == Cardinality(started)
    IN  IF started = {} THEN NoWaits
        ELSE [samples |-> samples, median |-> Ranked(waits, (samples - 1) \div 2)]

\* _partition_pressure_summary(), before it is sorted: only idle nodes count as
\* schedulable, and a partition without any is under no pressure of its CPUs.
Pressure(p, js, ns) ==
    LET of(s) == {j \in s : QueueJobs[j].partition = p}
        idle == {n \in DOMAIN ns : p \in Nodes[n].partitions /\ MainState(ns[n]) = "up"}
        schedulable == Total([n \in idle |-> Nodes[n].cpus])
        pendingCpu == Cpus(of(Pending(js)))
        pendingJobs == Cardinality(of(Pending(js)))
        runningJobs == Cardinality(of(Running(js)))
        congested == /\ pendingJobs > 0
                     /\ \/ schedulable > 0 /\ 10 * pendingCpu > 4 * schedulable
                        \/ pendingJobs > runningJobs
        busy == schedulable > 0 /\ 100 * Cpus(of(Running(js))) > 72 * schedulable
    IN  [name |-> p, pendingCpu |-> pendingCpu, pendingJobs |-> pendingJobs,
         status |-> IF congested THEN "congested"
                    ELSE IF busy \/ pendingJobs > 0 THEN "hot" ELSE "stable"]

Known(p, js, ns) ==
    \/ \E n \in DOMAIN ns : p \in Nodes[n].partitions
    \/ \E j \in Pending(js) \cup Running(js) : QueueJobs[j].partition = p

\* Faulty variant: sorted by CPUs and names.
BeforeByCpu(a, b, i, k) ==
    \/ a.pendingCpu > b.pendingCpu
    \/ a.pendingCpu = b.pendingCpu /\ i < k

\* The order of the partitions shown, with their ranks among the names.
Before(a, b, i, k) ==
    \/ a.pendingCpu > b.pendingCpu
    \/ a.pendingCpu = b.pendingCpu /\ a.pendingJobs > b.pendingJobs
    \/ a.pendingCpu = b.pendingCpu /\ a.pendingJobs = b.pendingJobs /\ i < k

Summaries(js, ns) ==
    LET known == {i \in DOMAIN Partitions : Known(Partitions[i], js, ns)}
        all == [i \in known |-> Pressure(Partitions[i], js, ns)]
        ahead(i) == {k \in known : Before(all[k], all[i], k, i)}
    IN  [shown |-> {all[i] : i \in {i \in known : Cardinality(ahead(i)) < PressureLimit}},
         cut |-> {all[i] : i \in {i \in known : Cardinality(ahead(i)) >= PressureLimit}}]

Down(ns) == {n \in DOMAIN ns : MainState(ns[n]) = "down"}

Score(js, ns, waits) ==
    LET pending == Cardinality(Pending(js))
        backlog == IF pending > Cardinality(Running(js)) THEN 18 ELSE IF pending > 0 THEN 8 ELSE 0
        wait == IF waits.median = NoValue THEN 0
                ELSE IF waits.median >= 3600 THEN 16 ELSE IF waits.median >= 1200 THEN 8 ELSE 0
        down == IF DOMAIN ns # {} /\ 100 * Cardinality(Down(ns)) >= 15 * Cardinality(DOMAIN ns)
                THEN 10 ELSE 0
    IN  100 - backlog - wait - down

Label(score) ==
    CASE score >= 85 -> "efficient"
      [] score < 85 /\ score >= 70 -> "stable"
      [] score < 70 /\ score >= 55 -> "pressured"
      [] OTHER -> "constrained"

\* Faulty variant: waits are worth a look from an hour on.
RecommendationsLate(js, ns, waits) ==
    (IF Cardinality(Pending(js)) > Cardinality(Running(js)) THEN {"queue_backlog"} ELSE {})
        \cup (IF waits.median # NoValue /\ waits.median >= 3600 THEN {"wait_time"} ELSE {})
        \cup (IF Down(ns) # {} THEN {"node_availability"} ELSE {})

Recommendations(js, ns, waits) ==
    (IF Cardinality(Pending(js)) > Cardinality(Running(js)) THEN {"queue_backlog"} ELSE {})
        \cup (IF waits.median # NoValue /\ waits.median >= 1200 THEN {"wait_time"} ELSE {})
        \cup (IF Down(ns) # {} THEN {"node_availability"} ELSE {})

-----------------------------------------------------------------------------
(* The cluster.                                                             *)

JobMoves(j) ==
    /\ queue[j] # "gone"
    /\ queue' = [queue EXCEPT ![j] = IF queue[j] = "PENDING" THEN "COMPLETING" ELSE "gone"]
    /\ UNCHANGED <<nodes, read, report>>

NodeChanges(n) ==
    /\ \E flags \in NodeStates : nodes' = [nodes EXCEPT ![n] = flags]
    /\ UNCHANGED <<queue, read, report>>

-----------------------------------------------------------------------------
(* The handler.                                                             *)

ReadQueue ==
    /\ read.jobs = NoValue
    /\ read' = [read EXCEPT !.jobs = queue]
    /\ report' = NoReport
    /\ UNCHANGED <<queue, nodes>>

ReadNodes ==
    /\ read.jobs # NoValue /\ read.nodes = NoValue
    /\ read' = [read EXCEPT !.nodes = nodes]
    /\ UNCHANGED <<queue, nodes, report>>

\* Without a job history, or when it fails, there is no sample.
ReadHistory ==
    /\ read.nodes # NoValue /\ read.waits = NoValue
    /\ \E waits \in {WaitStats(h) : h \in Histories} \cup {NoWaits} :
          read' = [read EXCEPT !.waits = waits]
    /\ UNCHANGED <<queue, nodes, report>>

Answer ==
    /\ read.waits # NoValue
    /\ LET score == Score(read.jobs, read.nodes, read.waits)
       IN  report' = [status |-> 200, score |-> score, label |-> Label(score),
                      partitions |-> Summaries(read.jobs, read.nodes),
                      recommendations |-> Recommendations(read.jobs, read.nodes, read.waits)]
    /\ read' = Nothing
    /\ UNCHANGED <<queue, nodes>>

\* An error of slurmrestd, at any of its calls, is the answer.
AnalysisFails ==
    /\ report' = Error
    /\ read' = Nothing
    /\ UNCHANGED <<queue, nodes>>

AnalysisInit ==
    /\ queue = [j \in DOMAIN QueueJobs |-> "PENDING"]
    /\ nodes = [n \in DOMAIN Nodes |-> {"IDLE"}]
    /\ read = Nothing
    /\ report = NoReport

AnalysisNext ==
    \/ \E j \in DOMAIN QueueJobs : JobMoves(j)
    \/ \E n \in DOMAIN Nodes : NodeChanges(n)
    \/ ReadQueue \/ ReadNodes \/ ReadHistory \/ Answer \/ AnalysisFails

AnalysisSpec == AnalysisInit /\ [][AnalysisNext]_analysisVars

-----------------------------------------------------------------------------
(* Properties.                                                              *)

\* A score that is not the best says why: the thresholds of the deductions and
\* those of the recommendations are written separately, and the deductions
\* without a recommendation never add up to a worse label.
PressureIsExplained ==
    report.status = 200 /\ report.label # "efficient" => report.recommendations # {}

\* The limit never hides a partition where jobs wait behind one where none does,
\* even if the CPUs of the jobs are not known (_partition_pressure_summary()).
WaitingIsShown ==
    report.status = 200 =>
        \A p \in report.partitions.cut :
            p.pendingJobs > 0 => \A q \in report.partitions.shown : q.pendingJobs > 0
=============================================================================
