----------------------------- MODULE JobHistory -----------------------------
(***************************************************************************)
(* What the job history promises of its table, whatever the threads that     *)
(* write it: a record tells no more of a job than what has happened, keeps   *)
(* the usage it was given, and goes only past the retention.                 *)
(***************************************************************************)
EXTENDS Integers

CONSTANTS
    Keys,      \* <<identifier, submit time>>
    Terminal,
    NoUsage, NoRow,
    Fresh      \* the listings of the jobs are never older than the table

VARIABLES
    job,      \* the true state of every job, "none" before its submission
    expired,  \* the keys past the retention
    record    \* the table

\* A job moves forward only.
JobMoves ==
    /\ \E k \in Keys :
          \/ /\ job[k] = "none"
             /\ job' = [job EXCEPT ![k] = "ACTIVE"]
          \/ /\ job[k] = "ACTIVE"
             /\ \E end \in Terminal : job' = [job EXCEPT ![k] = end]
    /\ UNCHANGED <<expired, record>>

TimePasses ==
    /\ \E k \in Keys : expired' = expired \cup {k}
    /\ UNCHANGED <<job, record>>

\* A job may be told to be active for as long as it has not been heard of again,
\* and to be COMPLETED when nothing else is known of its end.
States(k) ==
    {"ACTIVE"} \cup (IF job[k] \in Terminal THEN {job[k], "COMPLETED"}
                     ELSE IF Fresh THEN {} ELSE {"COMPLETED"})

\* Usage is that of the same submission, and final once the job has ended.
Usages(k) ==
    {[of |-> k[2], final |-> f] : f \in {f \in BOOLEAN : f => job[k] \in Terminal}}

\* Records are written, several at once, and none loses its usage.
Write ==
    /\ \A k \in Keys :
          \/ record'[k] = record[k]
          \/ /\ job[k] # "none" /\ record'[k].state # "none"
             /\ record'[k].state \in States(k) \cup {record[k].state}
             /\ record'[k].usage \in Usages(k) \cup {record[k].usage}
    /\ UNCHANGED <<job, expired>>

Cleanup ==
    /\ record' = [k \in Keys |-> IF k \in expired THEN NoRow ELSE record[k]]
    /\ UNCHANGED <<job, expired>>

Init ==
    /\ job = [k \in Keys |-> "none"]
    /\ expired = {}
    /\ record = [k \in Keys |-> NoRow]

Next == JobMoves \/ TimePasses \/ Write \/ Cleanup

Spec == Init /\ [][Next]_<<job, expired, record>>
=============================================================================
