---------------------------- MODULE MCSlurmrestd ----------------------------
(***************************************************************************)
(* What the threads of an agent share on their way to slurmrestd: the cache *)
(* of answers, its statistics and the discovered version of the API.  They   *)
(* have no variable in common, so that a behaviour is about one of them.    *)
(***************************************************************************)
EXTENDS SlurmrestdCache, SlurmrestdDiscovery, CacheStatistics, TLC

CONSTANTS w1, w2, t1, t2, t3, jobs, nodes

VARIABLE part  \* the one of the three

allVars == <<part, vars, discoveryVars, statisticsVars>>

MCInit ==
    /\ part \in {"cache", "discovery", "statistics"}
    /\ Init /\ DiscoveryInit /\ StatisticsInit

MCNext ==
    \/ part = "cache" /\ Next /\ UNCHANGED <<part, discoveryVars, statisticsVars>>
    \/ part = "discovery" /\ DiscoveryNext /\ UNCHANGED <<part, vars, statisticsVars>>
    \/ part = "statistics" /\ StatisticsNext /\ UNCHANGED <<part, vars, discoveryVars>>

MCSpec == MCInit /\ [][MCNext]_allVars

\* The threads that discover are also those that count.
Symmetry == Permutations(Threads)
=============================================================================
