--------------------------- MODULE UserTimelines ---------------------------
(***************************************************************************)
(* user_metrics_history() (slurmweb/persistence/user_analytics_store.py):   *)
(* how many jobs of a user were submitted, completed or in a state in each  *)
(* bucket of a window.  The database truncates the moments of the jobs to   *)
(* buckets by name, and the agent lays out the buckets of the window by     *)
(* their length: a job is shown if both agree.                              *)
(*                                                                          *)
(* Time 0 is the midnight before a Monday.                                  *)
(***************************************************************************)
EXTENDS Totals

CONSTANTS
    Hour, Day, Week,
    ShortWindow, LongWindow, \* 48 hours and 62 days
    NoTime,                  \* a job that has not ended
    Terminal,                \* TERMINAL_STATES
    Groups,                  \* _USER_HISTORY_STATE_GROUPS
    RowSets,                 \* job_snapshots of a user, in turn
    QueryTimes               \* what the clock and the arguments may be

\* The moments are numbers of a unit that divides an hour, and a table is finite.
ASSUME TimelinesAssumption ==
    /\ Hour \in Nat \ {0} /\ Day \in Nat \ {0} /\ Week \in Nat \ {0} /\ Week % Day = 0
    /\ ShortWindow \in Int /\ LongWindow \in Int /\ QueryTimes \subseteq Int
    /\ \A table \in RowSets :
          /\ IsFiniteSet(table)
          /\ \A row \in table : row.submit \in Int /\ row.seen \in Int /\ row.end \in Int \cup {NoTime}

VARIABLES
    rows,   \* set of [job, submit, end, seen, state]
    answer  \* of the last query, or NoAnswer

timelinesVars == <<rows, answer>>

Kinds == {"submissions", "completions"} \cup DOMAIN Groups
BadRequest == [status |-> 400]
NoAnswer == [status |-> 0]

\* The window is given, or ends now.
Queries ==
    [range : {"none"}, start : QueryTimes, end : QueryTimes]
        \cup [range : {"hour", "day", "week", "month"}, start : {NoTime}, end : QueryTimes]

-----------------------------------------------------------------------------
Explicit(start, end) ==
    [start |-> start, end |-> end,
     bucket |-> IF end - start <= ShortWindow THEN "hour"
                ELSE IF end - start <= LongWindow THEN "day" ELSE "week",
     resolution |-> IF end - start <= ShortWindow THEN Hour
                    ELSE IF end - start <= LongWindow THEN Day ELSE Week]

RangeWindow == [hour |-> Hour, day |-> Day, week |-> Week]

\* date_trunc() of the database.
Unit == [hour |-> Hour, day |-> Day, week |-> Week]
Trunc(bucket, t) == t - (t % Unit[bucket])

\* Faulty variant: weeks begin at the day of the window.
AlignDay(t, resolution) == IF resolution = Week THEN t - (t % Day) ELSE t - (t % resolution)

\* _align_bucket()
Weekday(t) == (t \div Day) % (Week \div Day)
AlignBucket(t, resolution) ==
    IF resolution = Week THEN (t - (t % Day)) - Weekday(t) * Day ELSE t - (t % resolution)

\* The columns submit_time and last_seen are never null.
Moment(kind, row) ==
    CASE kind = "submissions" -> row.submit
      [] kind = "completions" -> IF row.end = NoTime THEN row.seen ELSE row.end
      [] OTHER -> row.seen

Selected(kind, row) ==
    CASE kind = "submissions" -> TRUE
      [] kind = "completions" -> row.state \in Terminal
      [] OTHER -> row.state \in Groups[kind]

\* The jobs that the WHERE clause keeps: job_id and submit_time are a key of
\* the table, so that DISTINCT ON drops none.
InWindow(kind, w) == {row \in rows : Selected(kind, row) /\ Moment(kind, row) \in w.start..w.end}

\* GROUP BY bucket, laid out from the bucket of the start to the end.
Timeline(kind, w) ==
    LET first == AlignBucket(w.start, w.resolution)
        cursors == {c \in first..w.end : (c - first) % w.resolution = 0}
    IN  [c \in cursors |->
            Cardinality({row \in InWindow(kind, w) : Trunc(w.bucket, Moment(kind, row)) = c})]

-----------------------------------------------------------------------------
(* The range gives the window, and the window alone gives the buckets.      *)
Query(q) ==
    /\ \/ /\ q.range = "none" /\ q.start >= q.end
          /\ answer' = BadRequest
       \/ /\ q.range \notin {"none"} \cup DOMAIN RangeWindow
          /\ answer' = BadRequest
       \/ /\ q.range = "none" => q.start < q.end
          /\ q.range \in {"none"} \cup DOMAIN RangeWindow
          /\ LET start == IF q.range = "none" THEN q.start ELSE q.end - RangeWindow[q.range]
                 w == Explicit(start, q.end)
                 series == [kind \in Kinds |-> Timeline(kind, w)]
             IN  answer' = [status |-> 200, window |-> w, series |-> series,
                            totals |-> [kind \in Kinds |-> Total(series[kind])]]
    /\ UNCHANGED rows

\* The jobs change between the queries.
Record ==
    /\ rows' \in RowSets
    /\ answer' = NoAnswer

TimelinesInit == rows \in RowSets /\ answer = NoAnswer
TimelinesNext == Record \/ \E q \in Queries : Query(q)
TimelinesSpec == TimelinesInit /\ [][TimelinesNext]_timelinesVars

-----------------------------------------------------------------------------
(* The totals of a history are the jobs of its window: no job falls between *)
(* the buckets that the database and the agent compute separately, at the   *)
(* edges of the window either.                                              *)
SeriesCountEveryJob ==
    answer.status = 200 =>
        \A kind \in Kinds :
            answer.totals[kind] = Cardinality(InWindow(kind, answer.window))
=============================================================================
