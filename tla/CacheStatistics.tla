--------------------------- MODULE CacheStatistics ---------------------------
(***************************************************************************)
(* The hit and miss statistics that the threads and processes of the agents *)
(* keep in Redis (CachingService, slurmweb/cache.py).  Every Redis command  *)
(* is atomic; count_hit(), count_miss() and reset() are several of them.    *)
(***************************************************************************)
EXTENDS Totals

CONSTANTS
    Callers,      \* threads that count or reset
    CountedKeys,  \* statistics names of the cache keys
    MaxCounts     \* bound: counts that begin

ASSUME StatisticsAssumption ==
    IsFiniteSet(Callers) /\ IsFiniteSet(CountedKeys) /\ MaxCounts \in Nat

Kinds == {"hit", "miss"}

VARIABLES
    members,  \* per kind, the set cache-<kind>-keys
    counter,  \* per kind and key, cache-<kind>-<key>; 0 when it does not exist
    total,    \* per kind, cache-<kind>-total
    caller,   \* per caller: its step and its local variables
    counts,   \* history: counts that began
    torn      \* history: a reset met another call under way, or a call failed

statisticsVars == <<members, counter, total, caller, counts, torn>>

CallerAt(pc, kind, key, todo) == [pc |-> pc, kind |-> kind, key |-> key, todo |-> todo]
NoCall == CallerAt("idle", "hit", "none", {})
CallerBecomes(c, state) == caller' = [caller EXCEPT ![c] = state]

StatisticsInit ==
    /\ members = [kind \in Kinds |-> {}]
    /\ counter = [kind \in Kinds |-> [k \in CountedKeys |-> 0]]
    /\ total = [kind \in Kinds |-> 0]
    /\ caller = [c \in Callers |-> NoCall]
    /\ counts = 0
    /\ torn = FALSE

Resets(c) == caller[c].pc \in {"total", "list", "delete", "forget"}

-----------------------------------------------------------------------------
(* count_hit() and count_miss().                                            *)

\* sadd(cache-<kind>-keys, key).
CountKey(c, kind, k) ==
    /\ caller[c] = NoCall
    /\ counts < MaxCounts
    /\ counts' = counts + 1
    /\ members' = [members EXCEPT ![kind] = @ \union {k}]
    /\ torn' = (torn \/ \E d \in Callers : Resets(d))
    /\ CallerBecomes(c, CallerAt("incr", kind, k, {}))
    /\ UNCHANGED <<counter, total>>

Incr(c) ==
    LET me == caller[c] IN
    /\ me.pc = "incr"
    /\ counter' = [counter EXCEPT ![me.kind][me.key] = @ + 1]
    /\ CallerBecomes(c, [me EXCEPT !.pc = "incr_total"])
    /\ UNCHANGED <<members, total, counts, torn>>

IncrTotal(c) ==
    LET me == caller[c] IN
    /\ me.pc = "incr_total"
    /\ total' = [total EXCEPT ![me.kind] = @ + 1]
    /\ CallerBecomes(c, NoCall)
    /\ UNCHANGED <<members, counter, counts, torn>>

-----------------------------------------------------------------------------
(* reset(): both totals, the counters of both kinds, then both sets; hits   *)
(* come first in each.                                                      *)

Reset(c) ==
    /\ caller[c] = NoCall
    /\ total' = [total EXCEPT !["hit"] = 0]
    /\ torn' = (torn \/ \E d \in Callers : caller[d] # NoCall)
    /\ CallerBecomes(c, CallerAt("total", "miss", "none", {}))
    /\ UNCHANGED <<members, counter, counts>>

ResetTotal(c) ==
    /\ caller[c].pc = "total"
    /\ total' = [total EXCEPT !["miss"] = 0]
    /\ CallerBecomes(c, CallerAt("list", "hit", "none", {}))
    /\ UNCHANGED <<members, counter, counts, torn>>

\* smembers(cache-<kind>-keys): the counters to delete.
ListKeys(c) ==
    LET me == caller[c] IN
    /\ me.pc = "list"
    /\ CallerBecomes(c, CallerAt("delete", me.kind, "none", members[me.kind]))
    /\ UNCHANGED <<members, counter, total, counts, torn>>

DeleteCounter(c, k) ==
    LET me == caller[c] IN
    /\ me.pc = "delete"
    /\ k \in me.todo
    /\ counter' = [counter EXCEPT ![me.kind][k] = 0]
    /\ CallerBecomes(c, [me EXCEPT !.todo = @ \ {k}])
    /\ UNCHANGED <<members, total, counts, torn>>

\* Faulty variant: only the counters of hits are deleted.
HitsDeleted(c) ==
    /\ caller[c].pc = "delete"
    /\ caller[c].todo = {}
    /\ CallerBecomes(c, CallerAt("forget", "hit", "none", {}))
    /\ UNCHANGED <<members, counter, total, counts, torn>>

CountersDeleted(c) ==
    LET me == caller[c] IN
    /\ me.pc = "delete"
    /\ me.todo = {}
    /\ CallerBecomes(c, IF me.kind = "hit" THEN CallerAt("list", "miss", "none", {})
                 ELSE CallerAt("forget", "hit", "none", {}))
    /\ UNCHANGED <<members, counter, total, counts, torn>>

\* delete(cache-<kind>-keys).
ForgetKeys(c) ==
    LET me == caller[c] IN
    /\ me.pc = "forget"
    /\ members' = [members EXCEPT ![me.kind] = {}]
    /\ CallerBecomes(c, IF me.kind = "hit" THEN CallerAt("forget", "miss", "none", {}) ELSE NoCall)
    /\ UNCHANGED <<counter, total, counts, torn>>

-----------------------------------------------------------------------------

\* A Redis error, or the end of the process, ends a call between two commands.
CutShort(c) ==
    /\ caller[c] # NoCall
    /\ torn' = TRUE
    /\ CallerBecomes(c, NoCall)
    /\ UNCHANGED <<members, counter, total, counts>>

StatisticsNext == \E c \in Callers :
    \/ \E kind \in Kinds, k \in CountedKeys : CountKey(c, kind, k)
    \/ Incr(c) \/ IncrTotal(c)
    \/ Reset(c) \/ ResetTotal(c) \/ ListKeys(c) \/ CountersDeleted(c) \/ ForgetKeys(c)
    \/ \E k \in CountedKeys : DeleteCounter(c, k)
    \/ CutShort(c)

StatisticsSpec == StatisticsInit /\ [][StatisticsNext]_statisticsVars

-----------------------------------------------------------------------------
(* Properties.                                                              *)

Sum(kind) == Total(counter[kind])

\* Counts under way that incremented the counter of a key and not the total.
Owed(kind) == Cardinality({c \in Callers :
                              caller[c].pc = "incr_total" /\ caller[c].kind = kind})

\* cache.py:69-79, 108-131: as long as no reset met another call, the total of a
\* kind is the sum of its counters, what the counts under way still owe aside,
\* and metrics() lists every counter: it is a member of the set.
TotalsAgree ==
    ~torn /\ (\A c \in Callers : ~Resets(c)) => \A kind \in Kinds :
        /\ total[kind] + Owed(kind) = Sum(kind)
        /\ \A k \in CountedKeys : counter[kind][k] > 0 => k \in members[kind]
=============================================================================
