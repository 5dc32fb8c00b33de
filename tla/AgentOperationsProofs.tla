------------------------ MODULE AgentOperationsProofs ------------------------
(***************************************************************************)
(* Proofs about AgentOperations: an answer that refuses means that nothing   *)
(* was changed, the statistics are as recent as the lifetimes of the two      *)
(* caches they go through, and what was answered was permitted: the two paths *)
(* give the same rights, rights on one's own jobs stay with those, and what   *)
(* the planner is offered is permitted, for what is the user's own at least.  *)
(***************************************************************************)
EXTENDS AgentOperations, TLAPS

USE OperationsAssumption

----------------------------------------------------------------------------
(* Steps of a request *)

StatusOK == status \in [Requests -> {"idle", "busy", "done"}]

\* What a step of a request does to its status.
LEMMA Answers ==
    ASSUME StatusOK, NEW r \in Requests, NEW c, Answer(r, c)
    PROVE  /\ status' = [status EXCEPT ![r] = "done"] /\ code' = [code EXCEPT ![r] = c]
           /\ StatusOK'
  BY DEF StatusOK, Answer

LEMMA Passes ==
    ASSUME NEW r \in Requests, Pass(r)
    PROVE  status' = status /\ code' = code
  BY DEF Pass

----------------------------------------------------------------------------
(* A refused operation was not applied. *)

AppliedOK == applied \in [Requests -> BOOLEAN] /\ code \in [Requests -> Nat]

\* Only a request that was answered has applied its operation.
AppliedInv ==
    /\ StatusOK /\ AppliedOK
    /\ \A r \in Requests : applied[r] => status[r] = "done" /\ code[r] \in {200, 500}

\* Steps of a request that has to be answered, and applies nothing.
LEMMA AppliedCheck ==
    ASSUME AppliedInv, NEW r \in Requests, status[r] = "busy", applied' = applied,
           Pass(r) \/ \E c \in Nat : Answer(r, c)
    PROVE  AppliedInv'
  <1>1. CASE Pass(r)
    BY <1>1, Passes DEF AppliedInv, StatusOK, AppliedOK
  <1>2. CASE \E c \in Nat : Answer(r, c)
    <2>1. PICK c \in Nat : Answer(r, c)
      BY <1>2
    <2>2. /\ status' = [status EXCEPT ![r] = "done"] /\ code' = [code EXCEPT ![r] = c]
          /\ StatusOK'
      BY <2>1, Answers DEF AppliedInv
    <2>3. AppliedOK'
      BY <2>2 DEF AppliedInv, AppliedOK
    <2> QED BY <2>2, <2>3 DEF AppliedInv, StatusOK, AppliedOK
  <1> QED BY <1>1, <1>2

\* The operation was applied and answered, or it was not.
LEMMA ApplyCases ==
    ASSUME NEW r \in Requests, Apply(r)
    PROVE  \/ \E answer \in {200, 500} : Answer(r, answer) /\ applied' = [applied EXCEPT ![r] = TRUE]
           \/ \E answer \in Nat : Answer(r, answer) /\ applied' = [applied EXCEPT ![r] = FALSE]
  <1>1. PICK answer \in {200, 401, 404, 500}, done \in BOOLEAN :
            /\ answer = 200 => done
            /\ answer \in {401, 404} => ~done
            /\ Answer(r, answer)
            /\ applied' = [applied EXCEPT ![r] = done]
            /\ listing' = IF answer = 200 /\ op[r] \in {"job/submit", "job/update", "job/cancel"}
                            THEN <<>> ELSE listing
    BY DEF Apply
  <1>2. CASE done = TRUE
    <2>1. answer \in {200, 500}
      BY <1>1, <1>2
    <2>2. applied' = [applied EXCEPT ![r] = TRUE]
      BY Zenon, <1>1, <1>2
    <2>3. Answer(r, answer)
      BY <1>1
    <2> QED BY Zenon, <2>1, <2>2, <2>3
  <1>3. CASE done = FALSE
    <2>1. applied' = [applied EXCEPT ![r] = FALSE]
      BY Zenon, <1>1, <1>3
    <2>2. Answer(r, answer)
      BY <1>1
    <2>3. answer \in Nat
      OBVIOUS
    <2> QED BY Zenon, <2>1, <2>2, <2>3
  <1> QED BY Zenon, <1>2, <1>3

LEMMA AppliedApply == ASSUME AppliedInv, NEW r \in Requests, Apply(r) PROVE AppliedInv'
  <1>1. CASE \E answer \in {200, 500} : Answer(r, answer) /\ applied' = [applied EXCEPT ![r] = TRUE]
    <2>1. PICK answer \in {200, 500} : Answer(r, answer) /\ applied' = [applied EXCEPT ![r] = TRUE]
      BY <1>1
    <2>2. status' = [status EXCEPT ![r] = "done"] /\ code' = [code EXCEPT ![r] = answer] /\ StatusOK'
      BY <2>1, Answers DEF AppliedInv
    <2> QED BY <2>1, <2>2 DEF AppliedInv, AppliedOK, StatusOK
  <1>2. CASE \E answer \in Nat : Answer(r, answer) /\ applied' = [applied EXCEPT ![r] = FALSE]
    <2>1. PICK answer \in Nat : Answer(r, answer) /\ applied' = [applied EXCEPT ![r] = FALSE]
      BY <1>2
    <2>2. status' = [status EXCEPT ![r] = "done"] /\ code' = [code EXCEPT ![r] = answer] /\ StatusOK'
      BY <2>1, Answers DEF AppliedInv
    <2> QED BY <2>1, <2>2 DEF AppliedInv, AppliedOK, StatusOK
  <1> QED BY <1>1, <1>2, ApplyCases

LEMMA AppliedNext == AppliedInv /\ [Next]_vars => AppliedInv'
  <1> SUFFICES ASSUME AppliedInv, [Next]_vars PROVE AppliedInv'
    OBVIOUS
  <1>1. ASSUME NEW r \in Requests,
               \/ CheckPermission(r) \/ CheckFeature(r) \/ CheckSupported(r) \/ CheckArgument(r)
               \/ CheckOwner(r) \/ ListJobs(r) \/ ReadBackend(r) \/ LookUp(r) \/ Collect(r) \/ Keep(r)
        PROVE  AppliedInv'
    <2>1. status[r] = "busy" /\ applied' = applied
      BY <1>1 DEF CheckPermission, CheckFeature, CheckSupported, CheckArgument, CheckOwner,
                  ListJobs, ReadBackend, LookUp, Collect, Keep, Due, Kept
    <2>2. Pass(r) \/ \E c \in Nat : Answer(r, c)
      <3>1. CASE CheckPermission(r) \/ CheckFeature(r) \/ CheckSupported(r) \/ CheckArgument(r)
        BY <3>1 DEF CheckPermission, CheckFeature, CheckSupported, CheckArgument
      <3>2. CASE CheckOwner(r) \/ ListJobs(r) \/ ReadBackend(r)
        BY <3>2 DEF CheckOwner, ListJobs, ReadBackend
      <3>3. CASE LookUp(r) \/ Collect(r) \/ Keep(r)
        BY <3>3 DEF LookUp, Collect, Keep
      <3> QED BY <1>1, <3>1, <3>2, <3>3
    <2> QED BY <2>1, <2>2, AppliedCheck
  <1>2. ASSUME NEW r \in Requests, Ask(r) PROVE AppliedInv'
    BY <1>2 DEF Ask, Kept, AppliedInv, StatusOK, AppliedOK
  <1>3. ASSUME NEW r \in Requests, Apply(r) PROVE AppliedInv'
    BY <1>3, AppliedApply
  <1>4. ASSUME NEW r \in Requests, Return(r) PROVE AppliedInv'
    BY <1>4 DEF Return, AppliedInv, StatusOK, AppliedOK
  <1>5. CASE Tick \/ UNCHANGED vars
    BY <1>5 DEF Tick, vars, AppliedInv, StatusOK, AppliedOK
  <1> QED BY <1>1, <1>2, <1>3, <1>4, <1>5 DEF Next

\* Whatever is checked first, and wherever slurmrestd, a check or the deletion of the
\* cached keys fails, an operation answered as wrong, refused or unsupported
\* (handle_slurmrestd_errors, _normalize_operation_result) was not applied.
THEOREM RefusalsApplyNothing == Spec => []RefusedAppliesNothing
  <1>1. Init => AppliedInv
    BY DEF Init, AppliedInv, StatusOK, AppliedOK
  <1>2. AppliedInv => RefusedAppliesNothing
    BY DEF AppliedInv, RefusedAppliesNothing
  <1> QED BY <1>1, <1>2, AppliedNext, PTL DEF Spec

----------------------------------------------------------------------------
(* The statistics are recent. *)

Bound == JobsLife + StatsLife + Patience

AgesOK ==
    /\ StatusOK
    /\ held \in [Requests -> Nat] /\ waited \in [Requests -> 0..Patience]

\* The jobs in the cache of the client, and the statistics in that of the views: their
\* age and the time they have left add up to less than the bound.
ListingIsRecent == listing = <<>> \/ \E age \in 0..(JobsLife - 1) : listing = <<age>>
StatsAreRecent ==
    stats = <<>> \/ \E age \in Nat, left \in 1..StatsLife : stats = <<age, left>> /\ age + left < Bound

\* What a request computed is as old as the jobs were and the time since.
HeldIsRecent ==
    \A r \in Requests :
        /\ held[r] < Bound
        /\ status[r] # "done" => held[r] < JobsLife + waited[r]

AgeInv == AgesOK /\ ListingIsRecent /\ StatsAreRecent /\ HeldIsRecent

\* A step that leaves the ages alone.
LEMMA AgeCheck ==
    ASSUME AgeInv, NEW r \in Requests, UNCHANGED <<held, waited, stats>>,
           Pass(r) \/ \E c \in Nat : Answer(r, c), listing' \in {listing, <<>>}
    PROVE  AgeInv'
  <1>1. status' = status \/ (status' = [status EXCEPT ![r] = "done"] /\ StatusOK')
    BY Passes, Answers DEF AgeInv, AgesOK
  <1>2. AgesOK'
    BY <1>1 DEF AgeInv, AgesOK, StatusOK
  <1>3. ListingIsRecent' /\ StatsAreRecent'
    BY DEF AgeInv, ListingIsRecent, StatsAreRecent
  <1>4. HeldIsRecent'
    BY <1>1 DEF AgeInv, HeldIsRecent, AgesOK, StatusOK
  <1> QED BY <1>2, <1>3, <1>4 DEF AgeInv

LEMMA AgeLookUp == ASSUME AgeInv, NEW r \in Requests, LookUp(r) PROVE AgeInv'
  <1>1. CASE held' = held
    <2>1. Pass(r) \/ \E c \in Nat : Answer(r, c)
      BY DEF LookUp
    <2> QED BY <1>1, <2>1, AgeCheck DEF LookUp
  <1>2. CASE held' # held
    <2>1. stats # <<>> /\ Answer(r, 200) /\ held' = [held EXCEPT ![r] = stats[1]]
      BY <1>2 DEF LookUp
    <2>2. stats[1] \in Nat /\ stats[1] < Bound
      <3>1. PICK age \in Nat, left \in 1..StatsLife : stats = <<age, left>> /\ age + left < Bound
        BY <2>1 DEF AgeInv, StatsAreRecent
      <3> QED BY <3>1 DEF Bound
    <2>3. status' = [status EXCEPT ![r] = "done"] /\ StatusOK' /\ UNCHANGED <<waited, listing, stats>>
      BY <2>1, Answers DEF AgeInv, AgesOK, LookUp
    <2>4. AgesOK'
      BY <2>1, <2>2, <2>3 DEF AgeInv, AgesOK
    <2>5. HeldIsRecent'
      BY <2>1, <2>2, <2>3 DEF AgeInv, HeldIsRecent, AgesOK, StatusOK
    <2>6. ListingIsRecent' /\ StatsAreRecent'
      BY <2>3 DEF AgeInv, ListingIsRecent, StatsAreRecent
    <2> QED BY <2>4, <2>5, <2>6 DEF AgeInv
  <1> QED BY <1>1, <1>2

LEMMA AgeCollect == ASSUME AgeInv, NEW r \in Requests, Collect(r) PROVE AgeInv'
  <1>1. CASE UNCHANGED <<held, listing>>
    <2>1. Pass(r) \/ \E c \in Nat : Answer(r, c)
      BY DEF Collect
    <2> QED BY <1>1, <2>1, AgeCheck DEF Collect
  <1>2. CASE ~UNCHANGED <<held, listing>>
    <2> DEFINE age == IF listing = <<>> THEN 0 ELSE listing[1]
    <2>1. /\ Pass(r) \/ Answer(r, 200)
          /\ held' = [held EXCEPT ![r] = age]
          /\ listing' = IF listing = <<>> /\ "cache" \in Enabled THEN <<0>> ELSE listing
      BY <1>2 DEF Collect
    <2>2. age \in 0..(JobsLife - 1)
      BY DEF AgeInv, ListingIsRecent
    <2>3. ListingIsRecent'
      BY <2>1 DEF AgeInv, ListingIsRecent
    <2>4. UNCHANGED <<waited, stats>>
      BY DEF Collect
    <2>5. (status' = status \/ status' = [status EXCEPT ![r] = "done"]) /\ StatusOK'
      BY <2>1, Passes, Answers DEF AgeInv, AgesOK, StatusOK
    <2> HIDE DEF age
    <2>6. AgesOK'
      BY <2>1, <2>2, <2>4, <2>5 DEF AgeInv, AgesOK
    <2>7. HeldIsRecent'
      <3> SUFFICES ASSUME NEW x \in Requests
                   PROVE  /\ held'[x] < Bound
                          /\ status'[x] # "done" => held'[x] < JobsLife + waited'[x]
        BY DEF HeldIsRecent
      <3>1. /\ held[x] < Bound /\ (status[x] # "done" => held[x] < JobsLife + waited[x])
            /\ waited'[x] = waited[x] /\ waited[x] \in Nat /\ held'[x] = IF x = r THEN age ELSE held[x]
        BY <2>1, <2>4 DEF AgeInv, HeldIsRecent, AgesOK
      <3>2. status'[x] # "done" => status[x] # "done"
        BY <2>5 DEF AgeInv, AgesOK, StatusOK
      <3> QED BY <2>2, <3>1, <3>2 DEF Bound
    <2>8. StatsAreRecent'
      BY <2>4 DEF AgeInv, StatsAreRecent
    <2> QED BY <2>3, <2>6, <2>7, <2>8 DEF AgeInv
  <1> QED BY <1>1, <1>2

LEMMA AgeKeep == ASSUME AgeInv, NEW r \in Requests, Keep(r) PROVE AgeInv'
  <1>1. PICK c \in Nat : Answer(r, c)
    BY DEF Keep
  <1>2. status' = [status EXCEPT ![r] = "done"] /\ StatusOK' /\ UNCHANGED <<held, waited, listing>>
    BY <1>1, Answers DEF AgeInv, AgesOK, Keep
  <1>3. AgesOK' /\ HeldIsRecent' /\ ListingIsRecent'
    BY <1>2 DEF AgeInv, AgesOK, HeldIsRecent, ListingIsRecent, StatusOK
  <1>4. StatsAreRecent'
    <2>1. CASE stats' = stats
      BY <2>1 DEF AgeInv, StatsAreRecent
    <2>2. CASE stats' = <<held[r], StatsLife>>
      <3>1. status[r] = "busy"
        BY DEF Keep, Due
      <3>2. held[r] \in Nat /\ waited[r] \in 0..Patience /\ held[r] < JobsLife + waited[r]
        BY <3>1 DEF AgeInv, AgesOK, HeldIsRecent
      <3>3. held[r] + StatsLife < Bound /\ StatsLife \in 1..StatsLife
        BY <3>2 DEF Bound
      <3> QED BY <2>2, <3>2, <3>3 DEF StatsAreRecent
    <2> QED BY <2>1, <2>2 DEF Keep
  <1> QED BY <1>3, <1>4 DEF AgeInv

LEMMA AgeTick == ASSUME AgeInv, Tick PROVE AgeInv'
  <1> DEFINE holding == {r \in Requests : Due(r, "keep")}
  <1>1. /\ \A r \in holding : waited[r] < Patience
        /\ waited' = [r \in Requests |-> IF r \in holding THEN waited[r] + 1 ELSE waited[r]]
        /\ held' = [r \in Requests |-> IF r \in holding THEN held[r] + 1 ELSE held[r]]
        /\ listing' = IF listing = <<>> \/ listing[1] + 1 = JobsLife THEN <<>> ELSE <<listing[1] + 1>>
        /\ stats' = IF stats = <<>> \/ stats[2] = 1 THEN <<>> ELSE <<stats[1] + 1, stats[2] - 1>>
        /\ status' = status
    BY DEF Tick
  <1>2. \A r \in holding : status[r] = "busy"
    BY DEF Due
  <1> HIDE DEF holding
  <1>3. ASSUME NEW r \in Requests
        PROVE  /\ held'[r] \in Nat /\ waited'[r] \in 0..Patience /\ held'[r] < Bound
               /\ status'[r] # "done" => held'[r] < JobsLife + waited'[r]
    <2>1. /\ held[r] \in Nat /\ waited[r] \in 0..Patience /\ held[r] < Bound
          /\ status[r] # "done" => held[r] < JobsLife + waited[r]
      BY DEF AgeInv, AgesOK, HeldIsRecent
    <2>2. CASE r \in holding
      <3>1. waited'[r] = waited[r] + 1 /\ held'[r] = held[r] + 1 /\ waited[r] < Patience
            /\ held[r] < JobsLife + waited[r]
        BY <1>1, <1>2, <2>1, <2>2
      <3> QED BY <2>1, <3>1 DEF Bound
    <2>3. CASE r \notin holding
      BY <1>1, <2>1, <2>3
    <2> QED BY <2>2, <2>3
  <1>4. AgesOK' /\ HeldIsRecent'
    <2>1. held' \in [Requests -> Nat] /\ waited' \in [Requests -> 0..Patience]
      BY <1>1, <1>3
    <2> QED BY <1>1, <1>3, <2>1 DEF AgeInv, AgesOK, HeldIsRecent, StatusOK, Bound
  <1>5. ListingIsRecent'
    <2>1. CASE listing = <<>>
      BY <1>1, <2>1 DEF ListingIsRecent
    <2>2. CASE listing # <<>>
      <3>1. PICK age \in 0..(JobsLife - 1) : listing = <<age>>
        BY <2>2 DEF AgeInv, ListingIsRecent
      <3>2. listing' = IF age + 1 = JobsLife THEN <<>> ELSE <<age + 1>>
        BY <1>1, <3>1
      <3> QED BY <3>2 DEF ListingIsRecent
    <2> QED BY <2>1, <2>2
  <1>6. StatsAreRecent'
    <2>1. CASE stats = <<>>
      BY <1>1, <2>1 DEF StatsAreRecent
    <2>2. CASE stats # <<>>
      <3>1. PICK age \in Nat, left \in 1..StatsLife : stats = <<age, left>> /\ age + left < Bound
        BY <2>2 DEF AgeInv, StatsAreRecent
      <3>2. stats' = IF left = 1 THEN <<>> ELSE <<age + 1, left - 1>>
        BY <1>1, <3>1
      <3>3. CASE left = 1
        BY <3>2, <3>3 DEF StatsAreRecent
      <3>4. CASE left # 1
        <4>1. age + 1 \in Nat /\ left - 1 \in 1..StatsLife /\ (age + 1) + (left - 1) < Bound
          BY <3>1, <3>4 DEF Bound
        <4> QED BY <3>2, <3>4, <4>1 DEF StatsAreRecent
      <3> QED BY <3>3, <3>4
    <2> QED BY <2>1, <2>2
  <1> QED BY <1>4, <1>5, <1>6 DEF AgeInv

LEMMA AgeNext == AgeInv /\ [Next]_vars => AgeInv'
  <1> SUFFICES ASSUME AgeInv, [Next]_vars PROVE AgeInv'
    OBVIOUS
  <1>1. ASSUME NEW r \in Requests,
               \/ CheckPermission(r) \/ CheckFeature(r) \/ CheckSupported(r) \/ CheckArgument(r)
               \/ CheckOwner(r) \/ ListJobs(r) \/ ReadBackend(r) \/ Apply(r)
        PROVE  AgeInv'
    <2>1. UNCHANGED <<held, waited, stats>> /\ listing' \in {listing, <<>>}
      BY <1>1 DEF CheckPermission, CheckFeature, CheckSupported, CheckArgument, CheckOwner,
                  ListJobs, ReadBackend, Apply, Kept
    <2>2. Pass(r) \/ \E c \in Nat : Answer(r, c)
      <3>1. CASE CheckPermission(r) \/ CheckFeature(r) \/ CheckSupported(r) \/ CheckArgument(r)
        BY <3>1 DEF CheckPermission, CheckFeature, CheckSupported, CheckArgument
      <3>2. CASE CheckOwner(r) \/ ListJobs(r) \/ ReadBackend(r) \/ Apply(r)
        BY <3>2 DEF CheckOwner, ListJobs, ReadBackend, Apply
      <3> QED BY <1>1, <3>1, <3>2
    <2> QED BY <2>1, <2>2, AgeCheck
  <1>2. ASSUME NEW r \in Requests, Ask(r) PROVE AgeInv'
    <2>1. /\ status[r] = "idle" /\ status' = [status EXCEPT ![r] = "busy"]
          /\ UNCHANGED <<held, waited, listing, stats>>
      BY <1>2 DEF Ask, Kept
    <2>2. AgesOK' /\ HeldIsRecent'
      BY <2>1 DEF AgeInv, AgesOK, StatusOK, HeldIsRecent
    <2> QED BY <2>1, <2>2 DEF AgeInv, ListingIsRecent, StatsAreRecent
  <1>3. ASSUME NEW r \in Requests, LookUp(r) \/ Collect(r) \/ Keep(r) PROVE AgeInv'
    BY <1>3, AgeLookUp, AgeCollect, AgeKeep
  <1>4. ASSUME NEW r \in Requests, Return(r) PROVE AgeInv'
    <2>1. /\ status' = [status EXCEPT ![r] = "idle"]
          /\ held' = [held EXCEPT ![r] = 0] /\ waited' = [waited EXCEPT ![r] = 0]
          /\ UNCHANGED <<listing, stats>>
      BY <1>4 DEF Return
    <2>2. AgesOK' /\ HeldIsRecent'
      BY <2>1 DEF AgeInv, AgesOK, StatusOK, HeldIsRecent, Bound
    <2> QED BY <2>1, <2>2 DEF AgeInv, ListingIsRecent, StatsAreRecent
  <1>5. CASE Tick
    BY <1>5, AgeTick
  <1>6. CASE UNCHANGED vars
    BY <1>6 DEF vars, AgeInv, AgesOK, StatusOK, HeldIsRecent, ListingIsRecent, StatsAreRecent
  <1> QED BY <1>1, <1>2, <1>3, <1>4, <1>5, <1>6 DEF Next

\* Whatever is computed and stored at once, statistics are never older than the
\* lifetimes of the cached jobs and of the cached statistics and the time it takes to
\* compute them (_cache_get_or_put, _collect_stats).
THEOREM StatisticsStayRecent == Spec => []StatisticsAreRecent
  <1>1. Init => AgeInv
    BY DEF Init, AgeInv, AgesOK, StatusOK, HeldIsRecent, ListingIsRecent, StatsAreRecent, Bound
  <1>2. AgeInv => StatisticsAreRecent
    BY DEF AgeInv, HeldIsRecent, Bound, StatisticsAreRecent
  <1> QED BY <1>1, <1>2, AgeNext, PTL DEF Spec

----------------------------------------------------------------------------
(* The tables of operations *)

\* Steps that answer, steps about the rights of the user, and the others.
Ends == {"read", "filter", "apply", "keep", "unknown"}
Rights == {"permission", "permission-unless-own", "owner", "own-job"}
Steps == Ends \cup Rights \cup Features
    \cup {"nodes-observed", "supported", "argument", "window", "cached", "collect"}

\* The last step answers, those before it do not but for the statistics, whose rights are
\* checked before.
Ordered(steps) ==
    /\ steps \in Seq(Steps) /\ Len(steps) > 0
    /\ \A n \in 1..Len(steps) : steps[n] \in Ends <=> n = Len(steps)
    /\ \A n, m \in 1..Len(steps) : n < m /\ steps[n] \in {"cached", "collect"} => steps[m] \notin Rights

\* What the rights depend on besides the rules: a permission, and the owner of the job.
ByPermission(row) == Has(row, "permission") /\ ~Has(row, "permission-unless-own")
UnlessOwn(row) == Has(row, "permission-unless-own") /\ ~Has(row, "permission")
ByOwner(row) == Has(row, "owner") \/ Has(row, "own-job")

\* The parts of a row.
LEMMA AnyRow == \A rules, owners, steps :
    LET row == Row(rules, owners, steps)
    IN row.rules = rules /\ row.own = owners /\ row.steps = steps
  BY DEF Row

\* The sequences of checks of the tables are in order.
LEMMA FeatureStepsInOrder ==
    \A feature \in Features : /\ Ordered(<<"permission", feature, "read">>)
                              /\ Ordered(<<"permission", feature, "argument", "read">>)
  BY DEF Ordered, Ends, Rights, Steps, Features

LEMMA StepsInOrder ==
    /\ Ordered(<<"read">>) /\ Ordered(<<"permission", "read">>) /\ Ordered(<<"permission", "filter">>)
    /\ Ordered(<<"permission", "nodes-observed", "argument", "node-hotspots", "read">>)
    /\ Ordered(<<"permission", "cached", "collect", "keep">>)
    /\ Ordered(<<"permission", "owner", "read">>) /\ Ordered(<<"argument", "permission", "owner", "read">>)
    /\ Ordered(<<"permission", "argument", "read">>)
    /\ Ordered(<<"permission", "supported", "apply">>)
    /\ Ordered(<<"permission", "supported", "argument", "apply">>)
    /\ Ordered(<<"permission", "supported", "owner", "argument", "apply">>)
    /\ Ordered(<<"permission", "supported", "owner", "apply">>)
    /\ Ordered(<<"metrics", "permission", "window", "read">>)
    /\ Ordered(<<"metrics", "user-metrics", "permission", "window", "read">>)
    /\ Ordered(<<"metrics", "unknown">>) /\ Ordered(<<"database", "read">>)
    /\ Ordered(<<"permission", "user-metrics", "argument", "read">>)
    /\ Ordered(<<"permission", "permission", "read">>)
    /\ Ordered(<<"argument", "permission", "user-metrics", "argument", "read">>)
    /\ Ordered(<<"argument", "permission-unless-own", "user-metrics", "argument", "read">>)
    /\ Ordered(<<"supported", "argument", "permission", "own-job", "argument", "apply">>)
    /\ Ordered(<<"supported", "argument", "permission", "own-job", "apply">>)
  BY DEF Ordered, Ends, Rights, Steps, Features

\* The rights that those of both paths ask for.
LEMMA RightsOfSteps ==
    ASSUME NEW row
    PROVE  /\ row.steps = <<"permission", "read">> => ByPermission(row) /\ ~ByOwner(row)
           /\ row.steps = <<"permission", "argument", "read">> => ByPermission(row) /\ ~ByOwner(row)
           /\ row.steps = <<"permission", "node-metrics", "read">> => ByPermission(row) /\ ~ByOwner(row)
           /\ row.steps = <<"permission", "node-metrics", "argument", "read">> =>
                  ByPermission(row) /\ ~ByOwner(row)
           /\ row.steps = <<"permission", "job-history", "read">> => ByPermission(row) /\ ~ByOwner(row)
           /\ row.steps = <<"permission", "job-history", "argument", "read">> =>
                  ByPermission(row) /\ ~ByOwner(row)
           /\ row.steps = <<"permission", "supported", "apply">> => ByPermission(row) /\ ~ByOwner(row)
           /\ row.steps = <<"permission", "supported", "argument", "apply">> =>
                  ByPermission(row) /\ ~ByOwner(row)
           /\ row.steps = <<"permission", "filter">> => ByPermission(row) /\ ~ByOwner(row)
           /\ row.steps = <<"permission", "cached", "collect", "keep">> => ByPermission(row) /\ ~ByOwner(row)
           /\ row.steps = <<"permission", "permission", "read">> => ByPermission(row) /\ ~ByOwner(row)
           /\ row.steps = <<"permission", "user-metrics", "argument", "read">> =>
                  ByPermission(row) /\ ~ByOwner(row)
           /\ row.steps = <<"argument", "permission", "user-metrics", "argument", "read">> =>
                  ByPermission(row) /\ ~ByOwner(row)
           /\ row.steps = <<"argument", "permission-unless-own", "user-metrics", "argument", "read">> =>
                  UnlessOwn(row) /\ ~ByOwner(row)
           /\ row.steps = <<"permission", "owner", "read">> => ByPermission(row) /\ ByOwner(row)
           /\ row.steps = <<"argument", "permission", "owner", "read">> => ByPermission(row) /\ ByOwner(row)
           /\ row.steps = <<"permission", "supported", "owner", "argument", "apply">> =>
                  ByPermission(row) /\ ByOwner(row)
           /\ row.steps = <<"permission", "supported", "owner", "apply">> => ByPermission(row) /\ ByOwner(row)
           /\ row.steps = <<"supported", "argument", "permission", "own-job", "argument", "apply">> =>
                  ByPermission(row) /\ ByOwner(row)
           /\ row.steps = <<"supported", "argument", "permission", "own-job", "apply">> =>
                  ByPermission(row) /\ ByOwner(row)
  BY DEF ByPermission, ByOwner, UnlessOwn, Has

\* The row of an operation is that of an entry for it.
LEMMA RowOfTable ==
    ASSUME NEW entries, NEW o \in DOMAIN TableOf(entries)
    PROVE  \E e \in entries : o \in e.ops /\ TableOf(entries)[o] = e.row
  BY DEF TableOf

LEMMA TableDomain ==
    ASSUME NEW entries, NEW e \in entries, NEW o \in e.ops
    PROVE  o \in DOMAIN TableOf(entries)
  BY DEF TableOf

LEMMA ViewsAreOrdered == \A o \in DOMAIN Views : Ordered(Views[o].steps)
  <1>1. \A e \in ViewRows : Ordered(e.row.steps)
    BY AnyRow, StepsInOrder, FeatureStepsInOrder
    DEF For, Features, Read, Needs, Checked, Write, Drop, Metric,
        ViewRows, OpenViews, AnalysisViews, HotspotView, StatsView, JobViews, NodeViews, FilterViews,
        ReservationViews, AccountViews, UserViews, LimitViews, CacheViews, MetricViews,
        HistoryViews, DirectoryViews, AccessViews, AIAdminViews, AIViews, AnalyticsViews,
        NodeMetricsViews
  <1> QED BY <1>1, RowOfTable DEF Views

LEMMA InterfacesAreOrdered == \A o \in DOMAIN Interfaces : Ordered(Interfaces[o].steps)
  <1>1. \A e \in InterfaceRows : Ordered(e.row.steps)
    BY AnyRow, StepsInOrder, FeatureStepsInOrder
    DEF For, Features, Read, Needs, Checked, Write, Drop, Named,
        InterfaceRows, ClusterInterfaces, NodeInterfaces, ConfigurationInterfaces, AnalyticsInterfaces,
        JobInterfaces, ResourceInterfaces, AccountInterfaces
  <1> QED BY <1>1, RowOfTable DEF Interfaces

\* An entry of the interfaces asks the user for what a view asks.
SameRights(i, v) ==
    /\ v.row.rules = i.row.rules /\ v.row.own = i.row.own
    /\ ByPermission(v.row) /\ (ByOwner(v.row) <=> ByOwner(i.row))
    /\ ByPermission(i.row) \/ (UnlessOwn(i.row) /\ i.ops = {"user/tools/analysis"})
Agrees(i, table) ==
    \A o \in i.ops : /\ \E v \in table : o \in v.ops
                     /\ \A v \in table : o \in v.ops => SameRights(i, v)

\* Every table of interfaces, against the tables of the views it repeats.
LEMMA EntriesAgree ==
    /\ \A i \in ClusterInterfaces : Agrees(i, AnalysisViews \cup StatsView \cup JobViews \cup HistoryViews)
    /\ \A i \in NodeInterfaces : Agrees(i, NodeViews \cup NodeMetricsViews)
    /\ \A i \in ConfigurationInterfaces :
          Agrees(i, FilterViews \cup ReservationViews \cup AccountViews \cup UserViews)
    /\ \A i \in AnalyticsInterfaces : Agrees(i, AnalyticsViews)
    /\ \A i \in JobInterfaces : Agrees(i, JobViews)
    /\ \A i \in ResourceInterfaces : Agrees(i, NodeViews \cup ReservationViews)
    /\ \A i \in AccountInterfaces : Agrees(i, AccountViews \cup LimitViews \cup UserViews)
  <1> USE AnyRow, RightsOfSteps DEF Agrees, SameRights, For, Read, Needs, Checked, Write, Drop, Named
  <1>1. \A i \in ClusterInterfaces : Agrees(i, AnalysisViews \cup StatsView \cup JobViews \cup HistoryViews)
    BY SMTT(60) DEF ClusterInterfaces, AnalysisViews, StatsView, JobViews, HistoryViews
  <1>2. \A i \in NodeInterfaces : Agrees(i, NodeViews \cup NodeMetricsViews)
    BY SMTT(60) DEF NodeInterfaces, NodeViews, NodeMetricsViews
  <1>3. \A i \in ConfigurationInterfaces :
          Agrees(i, FilterViews \cup ReservationViews \cup AccountViews \cup UserViews)
    BY SMTT(60) DEF ConfigurationInterfaces, FilterViews, ReservationViews, AccountViews, UserViews
  <1>4. \A i \in AnalyticsInterfaces : Agrees(i, AnalyticsViews)
    BY SMTT(60) DEF AnalyticsInterfaces, AnalyticsViews
  <1>5. \A i \in JobInterfaces : Agrees(i, JobViews)
    BY SMTT(60) DEF JobInterfaces, JobViews
  <1>6. \A i \in ResourceInterfaces : Agrees(i, NodeViews \cup ReservationViews)
    BY SMTT(60) DEF ResourceInterfaces, NodeViews, ReservationViews
  <1>7. \A i \in AccountInterfaces : Agrees(i, AccountViews \cup LimitViews \cup UserViews)
    BY SMTT(60) DEF AccountInterfaces, AccountViews, LimitViews, UserViews
  <1> QED BY <1>1, <1>2, <1>3, <1>4, <1>5, <1>6, <1>7

\* No other view has an operation of the table.
Only(table) ==
    \A v \in table, w \in ViewRows : v.ops \cap w.ops # {} => w \in table

LEMMA TablesOfViews ==
    /\ Only(AnalysisViews) /\ Only(StatsView) /\ Only(JobViews) /\ Only(NodeViews)
    /\ Only(FilterViews) /\ Only(ReservationViews) /\ Only(AccountViews) /\ Only(UserViews)
    /\ Only(LimitViews) /\ Only(HistoryViews) /\ Only(AnalyticsViews) /\ Only(NodeMetricsViews)
  <1> DEFINE Names(table, ops) == \A v \in table : v.ops \subseteq ops
  <1>1. Names(OpenViews,
             {"version", "info", "ping"})
    BY DEF For, OpenViews
  <1>2. Names(AnalysisViews,
             {"analysis/ping", "analysis/diag", "analysis/context"})
    BY DEF For, AnalysisViews
  <1>3. Names(HotspotView,
             {"analysis/hotspots"})
    BY DEF For, HotspotView
  <1>4. Names(StatsView,
             {"stats"})
    BY DEF For, StatsView
  <1>5. Names(JobViews,
             {"jobs", "job", "job/submit", "job/update", "job/cancel"})
    BY DEF For, JobViews
  <1>6. Names(NodeViews,
             {"nodes", "node", "node/update", "node/delete"})
    BY DEF For, NodeViews
  <1>7. Names(FilterViews,
             {"partitions", "qos"})
    BY DEF For, FilterViews
  <1>8. Names(ReservationViews,
             {"reservations", "reservation/create", "reservation/update", "reservation/delete"})
    BY DEF For, ReservationViews
  <1>9. Names(AccountViews,
             {"accounts", "account", "associations", "account/update", "account/delete"})
    BY DEF For, AccountViews
  <1>10. Names(UserViews,
             {"users", "user", "user/update", "user/delete"})
    BY DEF For, UserViews
  <1>11. Names(LimitViews,
             {"qos/update", "qos/delete", "association/update", "association/delete"})
    BY DEF For, LimitViews
  <1>12. Names(CacheViews,
             {"cache/stats", "cache/reset"})
    BY DEF For, CacheViews
  <1>13. Names(MetricViews,
             {"metrics/nodes", "metrics/cores", "metrics/gpus", "metrics/memory", "metrics/jobs",
              "metrics/users", "metrics/cache", "metrics/other"})
    BY DEF For, MetricViews
  <1>14. Names(HistoryViews,
             {"jobs/history", "jobs/history/detail"})
    BY DEF For, HistoryViews
  <1>15. Names(DirectoryViews,
             {"permissions", "users/cache", "users/ldap"})
    BY DEF For, DirectoryViews
  <1>16. Names(AccessViews,
             {"access/catalog", "access/roles", "access/users", "access/user", "access/role/create",
              "access/role/update", "access/user/roles", "access/role/delete"})
    BY DEF For, AccessViews
  <1>17. Names(AIAdminViews,
             {"ai/configs", "ai/config/create", "ai/config/update", "ai/config/validate",
              "ai/config/delete", "ai/audit", "ai/audit/detail"})
    BY DEF For, AIAdminViews
  <1>18. Names(AIViews,
             {"ai/models", "ai/conversations", "ai/conversation", "ai/conversation/delete",
              "ai/chat"})
    BY DEF For, AIViews
  <1>19. Names(AnalyticsViews,
             {"user/metrics/history", "user/tools/analysis"})
    BY DEF For, AnalyticsViews
  <1>20. Names(NodeMetricsViews,
             {"node/metrics", "node/metrics/history"})
    BY DEF For, NodeMetricsViews
  <1> USE <1>1, <1>2, <1>3, <1>4, <1>5, <1>6, <1>7, <1>8, <1>9, <1>10, <1>11, <1>12, <1>13, <1>14,
         <1>15, <1>16, <1>17, <1>18, <1>19, <1>20
      DEF Only, ViewRows
  <1>21. Only(AnalysisViews)
    OBVIOUS
  <1>22. Only(StatsView)
    OBVIOUS
  <1>23. Only(JobViews)
    OBVIOUS
  <1>24. Only(NodeViews)
    OBVIOUS
  <1>25. Only(FilterViews)
    OBVIOUS
  <1>26. Only(ReservationViews)
    OBVIOUS
  <1>27. Only(AccountViews)
    OBVIOUS
  <1>28. Only(UserViews)
    OBVIOUS
  <1>29. Only(LimitViews)
    OBVIOUS
  <1>30. Only(HistoryViews)
    OBVIOUS
  <1>31. Only(AnalyticsViews)
    OBVIOUS
  <1>32. Only(NodeMetricsViews)
    OBVIOUS
  <1> QED BY <1>21, <1>22, <1>23, <1>24, <1>25, <1>26, <1>27, <1>28, <1>29, <1>30, <1>31, <1>32

\* An operation of an interface is that of a view, with the same rules, and the
\* permission is waived only for one's own analysis.
LEMMA RowsAgree ==
    ASSUME NEW o \in DOMAIN Interfaces
    PROVE  /\ o \in DOMAIN Views
           /\ Views[o].rules = Interfaces[o].rules /\ Views[o].own = Interfaces[o].own
           /\ ByPermission(Views[o]) /\ (ByOwner(Views[o]) <=> ByOwner(Interfaces[o]))
           /\ ByPermission(Interfaces[o]) \/ (UnlessOwn(Interfaces[o]) /\ o = "user/tools/analysis")
  <1>1. PICK i \in InterfaceRows : o \in i.ops /\ Interfaces[o] = i.row
    BY RowOfTable DEF Interfaces
  <1>2. PICK table : Only(table) /\ Agrees(i, table) /\ table \subseteq ViewRows
    <2> DEFINE Cluster == AnalysisViews \cup StatsView \cup JobViews \cup HistoryViews
               Node == NodeViews \cup NodeMetricsViews
               Configuration == FilterViews \cup ReservationViews \cup AccountViews \cup UserViews
               Resource == NodeViews \cup ReservationViews
               Account == AccountViews \cup LimitViews \cup UserViews
    <2>1. /\ Only(Cluster) /\ Only(Node) /\ Only(Configuration) /\ Only(Resource) /\ Only(Account)
          /\ Only(AnalyticsViews) /\ Only(JobViews)
      BY TablesOfViews, Zenon DEF Only
    <2>2. /\ Cluster \subseteq ViewRows /\ Node \subseteq ViewRows /\ Configuration \subseteq ViewRows
          /\ Resource \subseteq ViewRows /\ Account \subseteq ViewRows
          /\ AnalyticsViews \subseteq ViewRows /\ JobViews \subseteq ViewRows
      BY DEF ViewRows
    <2>3. \/ Agrees(i, Cluster) \/ Agrees(i, Node) \/ Agrees(i, Configuration) \/ Agrees(i, Resource)
          \/ Agrees(i, Account) \/ Agrees(i, AnalyticsViews) \/ Agrees(i, JobViews)
      BY EntriesAgree, Zenon DEF InterfaceRows
    <2> HIDE DEF Cluster, Node, Configuration, Resource, Account
    <2> QED BY <2>1, <2>2, <2>3, Zenon
  <1>3. PICK v \in table : o \in v.ops
    BY <1>1, <1>2 DEF Agrees
  <1>4. o \in DOMAIN Views
    BY <1>2, <1>3, TableDomain DEF Views
  <1>5. PICK w \in ViewRows : o \in w.ops /\ Views[o] = w.row
    BY <1>4, RowOfTable DEF Views
  <1>6. w \in table
    BY <1>2, <1>3, <1>5 DEF Only
  <1>7. SameRights(i, w)
    BY <1>1, <1>2, <1>5, <1>6 DEF Agrees
  <1>8. i.ops = {"user/tools/analysis"} => o = "user/tools/analysis"
    BY <1>1
  <1> QED BY <1>1, <1>4, <1>5, <1>7, <1>8, Zenon DEF SameRights

----------------------------------------------------------------------------
(* What was done was permitted. *)

\* What a step that was passed says.
Holds(row, u, w, step) ==
    /\ step = "permission" => Permitted(row, u, w)
    /\ step = "permission-unless-own" => w \/ Permitted(row, u, w)
    /\ step \in {"owner", "own-job"} => Scope(row, u) = "*" \/ (w /\ Scope(row, u) = "self")

\* The steps t are those of the row after the first k.
Rest(row, k, t) ==
    /\ t \in Seq(Steps) /\ k \in 0..(Len(row.steps) - 1) /\ Len(t) = Len(row.steps) - k
    /\ \A n \in 1..Len(t) : t[n] = row.steps[n + k]

\* A request with the steps t left has passed the others; one without any has passed all
\* that are about rights.
Underway(p, o, u, w, t) ==
    \/ o \notin DOMAIN Handlers[p] /\ t = <<"unsupported">>
    \/ /\ o \in DOMAIN Handlers[p]
       /\ LET row == Handlers[p][o]
          IN \E k \in 0..(Len(row.steps) - 1) :
                Rest(row, k, t) /\ \A n \in 1..k : Holds(row, u, w, row.steps[n])
Cleared(p, o, u, w) ==
    /\ o \in DOMAIN Handlers[p]
    /\ LET row == Handlers[p][o] IN \A n \in 1..Len(row.steps) : Holds(row, u, w, row.steps[n])

GrantOK ==
    /\ StatusOK /\ AppliedOK /\ path \in [Requests -> Paths]
    /\ todo = [r \in Requests |-> todo[r]] /\ shown = [r \in Requests |-> shown[r]]
    /\ user = [r \in Requests |-> user[r]] /\ op = [r \in Requests |-> op[r]]
    /\ own \in [Requests -> BOOLEAN]

\* The jobs that are listed, for the scope of the permission.
Listed(p, o, u, jobs) == jobs = {"own"} \/ Scope(Handlers[p][o], u) = "*"

GrantOf(r) ==
    /\ status[r] # "done" => code[r] = 0 /\ ~applied[r] /\ shown[r] = {}
    /\ status[r] = "busy" => Underway(path[r], op[r], user[r], own[r], todo[r])
    /\ code[r] = 200 \/ applied[r] => Cleared(path[r], op[r], user[r], own[r])
    /\ shown[r] # {} => ~applied[r] /\ Listed(path[r], op[r], user[r], shown[r])

GrantInv == GrantOK /\ \A r \in Requests : GrantOf(r)

\* The steps of every operation are in order, on both paths.
LEMMA HandlersAreOrdered ==
    ASSUME NEW p \in Paths, NEW o \in DOMAIN Handlers[p]
    PROVE  Ordered(Handlers[p][o].steps)
  <1>1. CASE p = "http"
    BY <1>1, ViewsAreOrdered DEF Handlers, Paths
  <1>2. CASE p # "http"
    BY <1>2, InterfacesAreOrdered DEF Handlers, Paths
  <1> QED BY <1>1, <1>2

\* A request starts with all the steps.
LEMMA Starts ==
    ASSUME NEW p \in Paths, NEW o, NEW u, NEW w
    PROVE  Underway(p, o, u, w,
                    IF o \in DOMAIN Handlers[p] THEN Handlers[p][o].steps ELSE <<"unsupported">>)
  <1>1. CASE o \notin DOMAIN Handlers[p]
    BY <1>1 DEF Underway
  <1>2. CASE o \in DOMAIN Handlers[p]
    <2> DEFINE row == Handlers[p][o]
    <2>1. Ordered(row.steps)
      BY <1>2, HandlersAreOrdered
    <2> HIDE DEF row
    <2>2. Rest(row, 0, row.steps) /\ 0 \in 0..(Len(row.steps) - 1)
      BY <2>1 DEF Ordered, Rest
    <2>3. \A n \in 1..0 : Holds(row, u, w, row.steps[n])
      OBVIOUS
    <2> QED BY <1>2, <2>2, <2>3 DEF Underway, row
  <1> QED BY <1>1, <1>2

\* A step that is passed and holds leaves the next one.
LEMMA GoesOn ==
    ASSUME NEW p \in Paths, NEW o, NEW u, NEW w, NEW t, Underway(p, o, u, w, t),
           Head(t) \notin Ends \cup {"unsupported"}, Holds(Handlers[p][o], u, w, Head(t))
    PROVE  Underway(p, o, u, w, Tail(t))
  <1> DEFINE row == Handlers[p][o]
  <1>1. o \in DOMAIN Handlers[p]
    BY DEF Underway
  <1>2. PICK k \in 0..(Len(row.steps) - 1) : Rest(row, k, t) /\ \A n \in 1..k : Holds(row, u, w, row.steps[n])
    <2>1. t # <<"unsupported">>
      OBVIOUS
    <2> QED BY <2>1 DEF Underway
  <1>3. Ordered(row.steps) /\ Holds(row, u, w, Head(t))
    BY <1>1, HandlersAreOrdered
  <1> HIDE DEF row
  <1>4. Len(row.steps) \in Nat /\ t \in Seq(Steps) /\ Len(t) = Len(row.steps) - k /\ Len(t) > 0
    BY <1>2, <1>3 DEF Ordered, Rest
  <1>5. Head(t) = row.steps[k + 1]
    BY <1>2, <1>4 DEF Rest
  <1>6. k + 1 # Len(row.steps)
    BY <1>2, <1>3, <1>4, <1>5 DEF Ordered
  <1>7. Rest(row, k + 1, Tail(t))
    <2>1. Tail(t) \in Seq(Steps) /\ Len(Tail(t)) = Len(row.steps) - (k + 1)
      BY <1>2, <1>4
    <2>2. ASSUME NEW n \in 1..Len(Tail(t)) PROVE Tail(t)[n] = row.steps[n + (k + 1)]
      <3>1. Tail(t)[n] = t[n + 1] /\ n + 1 \in 1..Len(t)
        BY <1>4, <2>1
      <3>2. t[n + 1] = row.steps[(n + 1) + k]
        BY <1>2, <3>1 DEF Rest
      <3> QED BY <1>2, <3>1, <3>2
    <2> QED BY <1>2, <1>4, <1>6, <2>1, <2>2 DEF Rest
  <1>8. \A n \in 1..(k + 1) : Holds(row, u, w, row.steps[n])
    <2> SUFFICES ASSUME NEW n \in 1..(k + 1) PROVE Holds(row, u, w, row.steps[n])
      OBVIOUS
    <2>1. n = k + 1 \/ n \in 1..k
      BY <1>2
    <2> QED BY <1>2, <1>3, <1>5, <2>1
  <1>9. k + 1 \in 0..(Len(row.steps) - 1)
    BY <1>2, <1>4, <1>6
  <1> QED BY <1>1, <1>7, <1>8, <1>9 DEF Underway, row

\* At a step that answers, all the rights have been passed.
LEMMA EndClears ==
    ASSUME NEW p \in Paths, NEW o, NEW u, NEW w, NEW t, Underway(p, o, u, w, t),
           Head(t) \in Ends \cup {"cached", "collect"}
    PROVE  Cleared(p, o, u, w)
  <1> DEFINE row == Handlers[p][o]
  <1>1. Head(t) # "unsupported"
    BY DEF Ends
  <1>2. o \in DOMAIN Handlers[p]
    BY <1>1 DEF Underway
  <1>3. PICK k \in 0..(Len(row.steps) - 1) : Rest(row, k, t) /\ \A n \in 1..k : Holds(row, u, w, row.steps[n])
    <2>1. t # <<"unsupported">>
      BY <1>1
    <2> QED BY <2>1 DEF Underway
  <1>4. Ordered(row.steps)
    BY <1>2, HandlersAreOrdered
  <1> HIDE DEF row
  <1>5. Len(row.steps) \in Nat /\ t \in Seq(Steps) /\ Len(t) = Len(row.steps) - k /\ Len(t) > 0
    BY <1>3, <1>4 DEF Ordered, Rest
  <1>6. Head(t) = row.steps[k + 1]
    BY <1>3, <1>5 DEF Rest
  <1>7. ASSUME NEW n \in 1..Len(row.steps) PROVE Holds(row, u, w, row.steps[n])
    <2>1. CASE n <= k
      BY <1>3, <2>1
    <2>2. CASE n > k
      <3>1. row.steps[n] \notin Rights
        <4>1. CASE n = k + 1
          BY <1>6, <4>1 DEF Ends, Rights
        <4>2. CASE n > k + 1
          <5>1. k + 1 \in 1..Len(row.steps) /\ k + 1 # Len(row.steps) /\ k + 1 < n
            BY <1>3, <1>5, <4>2
          <5>2. Head(t) \in {"cached", "collect"}
            BY <1>4, <1>6, <5>1 DEF Ordered
          <5> QED BY <1>4, <1>6, <5>1, <5>2 DEF Ordered
        <4> QED BY <1>3, <2>2, <4>1, <4>2
      <3> QED BY <3>1 DEF Holds, Rights
    <2> QED BY <1>3, <2>1, <2>2
  <1> QED BY <1>2, <1>7 DEF Cleared, row

\* A request that no step is about.
LEMMA GrantOthers ==
    ASSUME GrantInv, NEW x \in Requests,
           status'[x] = status[x], code'[x] = code[x], applied'[x] = applied[x], shown'[x] = shown[x],
           path'[x] = path[x], op'[x] = op[x], user'[x] = user[x], own'[x] = own[x], todo'[x] = todo[x]
    PROVE  GrantOf(x)'
  BY DEF GrantInv, GrantOf

\* What a request that was not answered is left with.
LEMMA GrantCheck ==
    ASSUME GrantInv, NEW r \in Requests, status[r] = "busy", UNCHANGED <<applied, shown>>,
           \/ /\ Pass(r) /\ Head(todo[r]) \notin Ends \cup {"unsupported"}
              /\ Holds(Handler(r), user[r], own[r], Head(todo[r]))
           \/ \E c \in Nat : Answer(r, c) /\ (c = 200 => Cleared(path[r], op[r], user[r], own[r]))
    PROVE  GrantInv'
  <1>1. CASE /\ Pass(r) /\ Head(todo[r]) \notin Ends \cup {"unsupported"}
             /\ Holds(Handler(r), user[r], own[r], Head(todo[r]))
    <2>1. /\ todo' = [todo EXCEPT ![r] = Tail(todo[r])]
          /\ UNCHANGED <<status, path, op, user, own, code, applied, shown>>
      BY <1>1 DEF Pass, about
    <2>2. Underway(path[r], op[r], user[r], own[r], Tail(todo[r]))
      BY <1>1, GoesOn DEF GrantInv, GrantOK, GrantOf, Handler
    <2>3. GrantOK'
      BY <2>1 DEF GrantInv, GrantOK, StatusOK, AppliedOK
    <2>4. todo'[r] = Tail(todo[r]) /\ \A x \in Requests : x # r => todo'[x] = todo[x]
      BY <2>1 DEF GrantInv, GrantOK
    <2>5. GrantOf(r)'
      BY <2>1, <2>2, <2>4, Zenon DEF GrantInv, GrantOf
    <2>6. \A x \in Requests : x # r => GrantOf(x)'
      BY <2>1, <2>4, GrantOthers, Zenon
    <2> QED BY <2>3, <2>5, <2>6 DEF GrantInv
  <1>2. CASE \E c \in Nat : Answer(r, c) /\ (c = 200 => Cleared(path[r], op[r], user[r], own[r]))
    <2>1. PICK c \in Nat : Answer(r, c) /\ (c = 200 => Cleared(path[r], op[r], user[r], own[r]))
      BY <1>2
    <2>2. /\ status' = [status EXCEPT ![r] = "done"] /\ code' = [code EXCEPT ![r] = c]
          /\ todo' = [todo EXCEPT ![r] = <<>>]
          /\ UNCHANGED <<path, op, user, own, applied, shown>>
      BY <2>1 DEF Answer, about
    <2>3. GrantOK'
      BY <2>2 DEF GrantInv, GrantOK, StatusOK, AppliedOK
    <2>4. /\ status'[r] = "done" /\ code'[r] = c
          /\ \A x \in Requests : x # r => status'[x] = status[x] /\ code'[x] = code[x] /\ todo'[x] = todo[x]
      BY <2>2 DEF GrantInv, GrantOK, StatusOK, AppliedOK
    <2>5. ~applied[r] /\ shown[r] = {}
      BY DEF GrantInv, GrantOf
    <2>6. GrantOf(r)'
      BY <2>1, <2>2, <2>4, <2>5 DEF GrantOf
    <2>7. \A x \in Requests : x # r => GrantOf(x)'
      BY <2>2, <2>4, GrantOthers, Zenon
    <2> QED BY <2>3, <2>6, <2>7 DEF GrantInv
  <1> QED BY <1>1, <1>2

\* A scope over everything comes from a rule over everything.
LEMMA ScopeMeans ==
    ASSUME NEW row, NEW u
    PROVE  /\ Scope(row, u) \in {"*", "self", "none"}
           /\ Scope(row, u) = "*" <=> \E rule \in row.rules : rule.scope = "*" /\ Allowed(u, rule)
  BY DEF Scope

\* The steps of a request.
LEMMA GrantPermission == ASSUME GrantInv, NEW r \in Requests, CheckPermission(r) PROVE GrantInv'
  <1>1. status[r] = "busy" /\ UNCHANGED <<applied, shown>>
    BY DEF CheckPermission, Due, Kept
  <1>2. Head(todo[r]) \in {"permission", "permission-unless-own"}
    BY DEF CheckPermission, Due
  <1>3. CASE Pass(r)
    <2>1. \/ Answer(r, 403)
          \/ Permitted(Handler(r), user[r], own[r]) \/ (own[r] /\ Due(r, "permission-unless-own"))
      BY DEF CheckPermission
    <2>2. ~Answer(r, 403)
      BY <1>1, <1>3, Answers DEF GrantInv, GrantOK, Pass, StatusOK
    <2>3. Holds(Handler(r), user[r], own[r], Head(todo[r]))
      BY <1>2, <2>1, <2>2 DEF Holds, Due
    <2> QED BY <1>1, <1>2, <1>3, <2>3, GrantCheck DEF Ends
  <1>4. CASE ~Pass(r)
    <2>1. Answer(r, 403)
      BY <1>4 DEF CheckPermission
    <2> QED BY <1>1, <2>1, GrantCheck
  <1> QED BY <1>3, <1>4

LEMMA GrantFeature == ASSUME GrantInv, NEW r \in Requests, CheckFeature(r) PROVE GrantInv'
  <1>1. status[r] = "busy" /\ UNCHANGED <<applied, shown>>
    BY DEF CheckFeature, Due, Kept
  <1>2. PICK feature \in Features \cup {"nodes-observed"} :
            Head(todo[r]) = feature /\ (Pass(r) \/ Answer(r, 501))
    BY DEF CheckFeature, Due
  <1>3. feature \notin Ends \cup {"unsupported"} /\ feature \notin Rights
    BY DEF Features, Ends, Rights
  <1>4. Holds(Handler(r), user[r], own[r], Head(todo[r]))
    BY <1>2, <1>3 DEF Holds, Rights
  <1> QED BY <1>1, <1>2, <1>3, <1>4, GrantCheck

LEMMA GrantSupported == ASSUME GrantInv, NEW r \in Requests, CheckSupported(r) PROVE GrantInv'
  <1>1. status[r] = "busy" /\ UNCHANGED <<applied, shown>> /\ Head(todo[r]) = "supported"
    BY DEF CheckSupported, Due, Kept
  <1>2. Head(todo[r]) \notin Ends \cup {"unsupported"} /\ Holds(Handler(r), user[r], own[r], Head(todo[r]))
    BY <1>1 DEF Ends, Holds
  <1>3. Pass(r) \/ \E c \in Nat : Answer(r, c) /\ c # 200
    BY DEF CheckSupported
  <1> QED BY <1>1, <1>2, <1>3, GrantCheck

LEMMA GrantArgument == ASSUME GrantInv, NEW r \in Requests, CheckArgument(r) PROVE GrantInv'
  <1>1. status[r] = "busy" /\ UNCHANGED <<applied, shown>>
    BY DEF CheckArgument, Due, Kept
  <1>2. (Pass(r) /\ Head(todo[r]) \in {"argument", "window"}) \/ \E c \in Nat : Answer(r, c) /\ c # 200
    BY DEF CheckArgument, Due
  <1>3. Head(todo[r]) \in {"argument", "window"} =>
            /\ Head(todo[r]) \notin Ends \cup {"unsupported"}
            /\ Holds(Handler(r), user[r], own[r], Head(todo[r]))
    BY DEF Ends, Holds
  <1> QED BY <1>1, <1>2, <1>3, GrantCheck

LEMMA GrantOwner == ASSUME GrantInv, NEW r \in Requests, CheckOwner(r) PROVE GrantInv'
  <1> DEFINE scope == Scope(Handler(r), user[r])
  <1>1. status[r] = "busy" /\ UNCHANGED <<applied, shown>> /\ Head(todo[r]) \in {"owner", "own-job"}
    BY DEF CheckOwner, Due, Kept
  <1>2. (Pass(r) /\ (scope = "*" \/ (own[r] /\ scope = "self"))) \/ \E c \in Nat : Answer(r, c) /\ c # 200
    BY DEF CheckOwner
  <1>3. scope = "*" \/ (own[r] /\ scope = "self") => Holds(Handler(r), user[r], own[r], Head(todo[r]))
    BY <1>1 DEF Holds
  <1>4. Head(todo[r]) \notin Ends \cup {"unsupported"}
    BY <1>1 DEF Ends
  <1> HIDE DEF scope
  <1> QED BY <1>1, <1>2, <1>3, <1>4, GrantCheck

\* Steps that answer from what is read or cached.
LEMMA GrantRead ==
    ASSUME GrantInv, NEW r \in Requests, ReadBackend(r) \/ LookUp(r) \/ Collect(r) \/ Keep(r)
    PROVE  GrantInv'
  <1>1. /\ status[r] = "busy" /\ UNCHANGED <<applied, shown>>
        /\ Head(todo[r]) \in {"read", "cached", "collect", "keep"}
    BY DEF ReadBackend, LookUp, Collect, Keep, Due, Kept
  <1>2. Cleared(path[r], op[r], user[r], own[r])
    BY <1>1, EndClears DEF GrantInv, GrantOK, GrantOf, Ends
  <1>3. (Pass(r) /\ Head(todo[r]) \in {"cached", "collect"}) \/ \E c \in Nat : Answer(r, c)
    BY DEF ReadBackend, LookUp, Collect, Keep, Due
  <1>4. Head(todo[r]) \in {"cached", "collect"} =>
            /\ Head(todo[r]) \notin Ends \cup {"unsupported"}
            /\ Holds(Handler(r), user[r], own[r], Head(todo[r]))
    BY DEF Ends, Holds
  <1> QED BY <1>1, <1>2, <1>3, <1>4, GrantCheck

LEMMA GrantList == ASSUME GrantInv, NEW r \in Requests, ListJobs(r) PROVE GrantInv'
  <1>1. status[r] = "busy" /\ applied' = applied /\ Head(todo[r]) = "filter"
    BY DEF ListJobs, Due
  <1>2. Cleared(path[r], op[r], user[r], own[r])
    BY <1>1, EndClears DEF GrantInv, GrantOK, GrantOf, Ends
  <1>3. CASE shown' = shown
    <2>1. \E c \in Nat : Answer(r, c)
      BY DEF ListJobs
    <2> QED BY <1>1, <1>2, <1>3, <2>1, GrantCheck
  <1>4. CASE shown' # shown
    <2> DEFINE jobs == IF Scope(Handler(r), user[r]) = "*" THEN {"own", "others"} ELSE {"own"}
    <2>1. Answer(r, 200) /\ shown' = [shown EXCEPT ![r] = jobs]
      BY <1>4 DEF ListJobs
    <2>2. Listed(path[r], op[r], user[r], jobs)
      BY DEF Listed, Handler
    <2>3. /\ status' = [status EXCEPT ![r] = "done"] /\ code' = [code EXCEPT ![r] = 200]
          /\ todo' = [todo EXCEPT ![r] = <<>>]
          /\ UNCHANGED <<path, op, user, own>>
      BY <2>1 DEF Answer, about
    <2> HIDE DEF jobs
    <2>4. GrantOK'
      BY <1>1, <2>1, <2>3 DEF GrantInv, GrantOK, StatusOK, AppliedOK
    <2>5. /\ status'[r] = "done" /\ shown'[r] = jobs
          /\ \A x \in Requests : x # r => /\ status'[x] = status[x] /\ code'[x] = code[x]
                                         /\ todo'[x] = todo[x] /\ shown'[x] = shown[x]
      BY <2>1, <2>3 DEF GrantInv, GrantOK, StatusOK, AppliedOK
    <2>6. ~applied[r]
      BY <1>1 DEF GrantInv, GrantOf
    <2>7. GrantOf(r)'
      BY <1>1, <1>2, <2>2, <2>3, <2>5, <2>6 DEF GrantOf
    <2>8. \A x \in Requests : x # r => GrantOf(x)'
      BY <1>1, <2>3, <2>5, GrantOthers, Zenon
    <2> QED BY <2>4, <2>7, <2>8 DEF GrantInv
  <1> QED BY <1>3, <1>4

LEMMA GrantApply == ASSUME GrantInv, NEW r \in Requests, Apply(r) PROVE GrantInv'
  <1>1. status[r] = "busy" /\ shown' = shown /\ Head(todo[r]) = "apply"
    BY DEF Apply, Due
  <1>2. Cleared(path[r], op[r], user[r], own[r])
    BY <1>1, EndClears DEF GrantInv, GrantOK, GrantOf, Ends
  <1>3. PICK c \in Nat, done \in BOOLEAN : Answer(r, c) /\ applied' = [applied EXCEPT ![r] = done]
    <2>1. CASE \E answer \in {200, 500} : Answer(r, answer) /\ applied' = [applied EXCEPT ![r] = TRUE]
      <3>1. PICK answer \in {200, 500} : Answer(r, answer) /\ applied' = [applied EXCEPT ![r] = TRUE]
        BY <2>1
      <3>2. answer \in Nat /\ TRUE \in BOOLEAN
        OBVIOUS
      <3> QED BY <3>1, <3>2, Zenon
    <2>2. CASE \E answer \in Nat : Answer(r, answer) /\ applied' = [applied EXCEPT ![r] = FALSE]
      BY <2>2, Zenon
    <2> QED BY <2>1, <2>2, ApplyCases
  <1>4. /\ status' = [status EXCEPT ![r] = "done"] /\ code' = [code EXCEPT ![r] = c]
        /\ todo' = [todo EXCEPT ![r] = <<>>]
        /\ UNCHANGED <<path, op, user, own>>
    BY <1>3 DEF Answer, about
  <1>5. GrantOK'
    BY <1>1, <1>3, <1>4 DEF GrantInv, GrantOK, StatusOK, AppliedOK
  <1>6. /\ status'[r] = "done" /\ shown'[r] = {}
        /\ \A x \in Requests : x # r => /\ status'[x] = status[x] /\ code'[x] = code[x]
                                       /\ todo'[x] = todo[x] /\ applied'[x] = applied[x]
    <2>1. shown[r] = {}
      BY <1>1 DEF GrantInv, GrantOf
    <2> QED BY <1>1, <1>3, <1>4, <2>1 DEF GrantInv, GrantOK, StatusOK, AppliedOK
  <1>7. GrantOf(r)'
    BY <1>1, <1>2, <1>4, <1>6 DEF GrantOf
  <1>8. \A x \in Requests : x # r => GrantOf(x)'
    BY <1>1, <1>4, <1>6, GrantOthers, Zenon
  <1> QED BY <1>5, <1>7, <1>8 DEF GrantInv

LEMMA GrantAsk == ASSUME GrantInv, NEW r \in Requests, Ask(r) PROVE GrantInv'
  <1>1. PICK u \in Users, p \in Paths, o \in asks[r], w \in BOOLEAN :
            /\ user' = [user EXCEPT ![r] = u] /\ path' = [path EXCEPT ![r] = p]
            /\ op' = [op EXCEPT ![r] = o] /\ own' = [own EXCEPT ![r] = w]
            /\ todo' = [todo EXCEPT ![r] =
                  IF o \in DOMAIN Handlers[p] THEN Handlers[p][o].steps ELSE <<"unsupported">>]
    BY DEF Ask
  <1> DEFINE steps == IF o \in DOMAIN Handlers[p] THEN Handlers[p][o].steps ELSE <<"unsupported">>
  <1>2. Underway(p, o, u, w, steps) /\ todo' = [todo EXCEPT ![r] = steps]
    BY <1>1, Starts
  <1> HIDE DEF steps
  <1>3. status[r] = "idle" /\ status' = [status EXCEPT ![r] = "busy"] /\ UNCHANGED <<code, applied, shown>>
    BY DEF Ask, Kept
  <1>4. GrantOK'
    BY <1>1, <1>2, <1>3 DEF GrantInv, GrantOK, StatusOK, AppliedOK
  <1>5. code[r] = 0 /\ ~applied[r] /\ shown[r] = {}
    BY <1>3 DEF GrantInv, GrantOf
  <1>6. /\ status'[r] = "busy" /\ path'[r] = p /\ op'[r] = o /\ user'[r] = u /\ own'[r] = w
        /\ todo'[r] = steps
        /\ \A x \in Requests : x # r =>
              /\ status'[x] = status[x] /\ path'[x] = path[x] /\ op'[x] = op[x]
              /\ user'[x] = user[x] /\ own'[x] = own[x] /\ todo'[x] = todo[x]
    BY <1>1, <1>2, <1>3 DEF GrantInv, GrantOK, StatusOK
  <1>7. GrantOf(r)'
    BY <1>2, <1>3, <1>5, <1>6 DEF GrantOf
  <1>8. \A x \in Requests : x # r => GrantOf(x)'
    BY <1>3, <1>6, GrantOthers, Zenon
  <1> QED BY <1>4, <1>7, <1>8 DEF GrantInv

LEMMA GrantReturn == ASSUME GrantInv, NEW r \in Requests, Return(r) PROVE GrantInv'
  <1>1. GrantOK'
    <2>1. Idle.path \in Paths
      BY DEF Idle, Paths
    <2>2. path' \in [Requests -> Paths]
      BY <2>1 DEF Return, GrantInv, GrantOK
    <2>3. own' \in [Requests -> BOOLEAN] /\ AppliedOK' /\ StatusOK'
      BY DEF Return, GrantInv, GrantOK, AppliedOK, StatusOK
    <2>4. /\ todo' = [x \in Requests |-> todo'[x]] /\ shown' = [x \in Requests |-> shown'[x]]
          /\ user' = [x \in Requests |-> user'[x]] /\ op' = [x \in Requests |-> op'[x]]
      BY DEF Return, GrantInv, GrantOK
    <2> QED BY <2>2, <2>3, <2>4 DEF GrantOK
  <1>2. /\ status'[r] = "idle" /\ code'[r] = 0 /\ ~applied'[r] /\ shown'[r] = {}
        /\ \A x \in Requests : x # r =>
              /\ status'[x] = status[x] /\ path'[x] = path[x] /\ op'[x] = op[x]
              /\ user'[x] = user[x] /\ own'[x] = own[x] /\ code'[x] = code[x]
              /\ applied'[x] = applied[x] /\ shown'[x] = shown[x]
    BY DEF Return, GrantInv, GrantOK, StatusOK, AppliedOK
  <1>3. todo' = todo
    BY DEF Return
  <1>4. GrantOf(r)'
    BY <1>2 DEF GrantOf
  <1>5. \A x \in Requests : x # r => GrantOf(x)'
    BY <1>2, <1>3, GrantOthers, Zenon
  <1> QED BY <1>1, <1>4, <1>5 DEF GrantInv

LEMMA GrantNext == GrantInv /\ [Next]_vars => GrantInv'
  <1> SUFFICES ASSUME GrantInv, [Next]_vars PROVE GrantInv'
    OBVIOUS
  <1>1. ASSUME NEW r \in Requests,
               \/ Ask(r) \/ CheckPermission(r) \/ CheckFeature(r) \/ CheckSupported(r)
               \/ CheckArgument(r) \/ CheckOwner(r)
        PROVE  GrantInv'
    BY <1>1, GrantAsk, GrantPermission, GrantFeature, GrantSupported, GrantArgument, GrantOwner
  <1>2. ASSUME NEW r \in Requests,
               \/ ListJobs(r) \/ ReadBackend(r) \/ Apply(r) \/ LookUp(r) \/ Collect(r) \/ Keep(r)
               \/ Return(r)
        PROVE  GrantInv'
    BY <1>2, GrantList, GrantRead, GrantApply, GrantReturn
  <1>3. CASE Tick \/ UNCHANGED vars
    <2>1. UNCHANGED <<status, user, path, op, own, todo, code, applied, shown>>
      BY <1>3 DEF Tick, vars, about
    <2> QED BY <2>1 DEF GrantInv, GrantOf, GrantOK, StatusOK, AppliedOK
  <1> QED BY <1>1, <1>2, <1>3 DEF Next

\* Whoever asks, by whatever path and in whatever order the checks are made: what is answered,
\* listed or applied has passed every check of rights of its row (permission_required,
\* _require_permission, _authorize_job_owner, _filter_jobs_for_owner).
THEOREM GrantInvariance == Spec => []GrantInv
  <1>1. Init => GrantInv
    <2> SUFFICES ASSUME Init PROVE GrantInv
      OBVIOUS
    <2>1. GrantOK
      BY DEF Init, GrantOK, StatusOK, AppliedOK, Idle, Paths
    <2>2. \A r \in Requests : status[r] = "idle" /\ code[r] = 0 /\ ~applied[r] /\ shown[r] = {}
      BY DEF Init
    <2> QED BY <2>1, <2>2 DEF GrantInv, GrantOf
  <1> QED BY <1>1, GrantNext, PTL DEF Spec

\* The rights to an operation, from the row of either path.
LEMMA RowIsHandlers ==
    ASSUME NEW p \in Paths, NEW o \in DOMAIN Interfaces
    PROVE  /\ Handlers[p][o].rules = Interfaces[o].rules /\ Handlers[p][o].own = Interfaces[o].own
           /\ ByOwner(Handlers[p][o]) <=> ByOwner(Interfaces[o])
           /\ \/ ByPermission(Handlers[p][o])
              \/ UnlessOwn(Handlers[p][o]) /\ o = "user/tools/analysis"
  <1>1. CASE p = "http"
    <2>1. Handlers[p] = Views
      BY <1>1 DEF Handlers, Paths
    <2> QED BY <2>1, RowsAgree
  <1>2. CASE p # "http"
    <2>1. Handlers[p] = Interfaces
      BY <1>2 DEF Handlers, Paths
    <2> QED BY <2>1, RowsAgree
  <1> QED BY <1>1, <1>2

\* Who may do what depends on the rules, not on the rest of the row.
LEMMA RightsOfRules ==
    ASSUME NEW row, NEW other, row.rules = other.rules, row.own = other.own, NEW u, NEW w
    PROVE  /\ Permitted(row, u, w) <=> Permitted(other, u, w)
           /\ Scope(row, u) = Scope(other, u)
  BY DEF Permitted, Scope

\* All the rights were passed.
LEMMA ClearedIsPermitted ==
    ASSUME NEW p \in Paths, NEW o, NEW u, NEW w, Cleared(p, o, u, w)
    PROVE  Permits(p, o, u, w)
  <1> DEFINE row == Handlers[p][o]
  <1>1. Ordered(row.steps)
    BY HandlersAreOrdered DEF Cleared
  <1>2. DOMAIN row.steps = 1..Len(row.steps)
    BY <1>1 DEF Ordered
  <1>3. \A n \in DOMAIN row.steps : Holds(row, u, w, row.steps[n])
    BY <1>2 DEF Cleared
  <1> HIDE DEF row
  <1>4. ASSUME NEW step, Has(row, step) PROVE Holds(row, u, w, step)
    BY <1>3, <1>4 DEF Has
  <1>5. Has(row, "permission") => Permitted(row, u, w)
    BY <1>4 DEF Holds
  <1>6. Has(row, "permission-unless-own") => w \/ Permitted(row, u, w)
    BY <1>4 DEF Holds
  <1>7. Has(row, "owner") \/ Has(row, "own-job") => Scope(row, u) = "*" \/ (w /\ Scope(row, u) = "self")
    BY <1>4 DEF Holds
  <1> QED BY <1>5, <1>6, <1>7, Zenon DEF Permits, row

\* The assistant and the pages permit the same to a user, except the analysis of one's
\* own tools (_require_permission, _require_any and _require_permission_scope of the interfaces,
\* permission_required of the views).
THEOREM PathsAlwaysAgree == Spec => []PathsAgree
  <1>1. GrantInv => PathsAgree
    <2> SUFFICES ASSUME GrantInv, NEW r \in Requests, code[r] = 200, op[r] \in DOMAIN Interfaces,
                        ~(op[r] = "user/tools/analysis" /\ own[r]), NEW q \in Paths
                 PROVE  Permits(q, op[r], user[r], own[r])
      BY DEF PathsAgree
    <2> DEFINE p == path[r]
               o == op[r]
               u == user[r]
               w == own[r]
               here == Handlers[p][o]
               there == Handlers[q][o]
    <2>1. p \in Paths /\ w \in BOOLEAN /\ Cleared(p, o, u, w)
      BY DEF GrantInv, GrantOK, GrantOf
    <2>2. /\ here.rules = there.rules /\ here.own = there.own
          /\ ByOwner(here) <=> ByOwner(there)
          /\ ByPermission(here) \/ (UnlessOwn(here) /\ o = "user/tools/analysis")
      BY <2>1, RowIsHandlers
    <2>3. ~(o = "user/tools/analysis" /\ w)
      OBVIOUS
    <2> HIDE DEF p, o, u, w
    <2>4. Permits(p, o, u, w)
      BY <2>1, ClearedIsPermitted
    <2>5. Permitted(here, u, w)
      <3>1. (Has(here, "permission") => Permitted(here, u, w))
            /\ (Has(here, "permission-unless-own") => w \/ Permitted(here, u, w))
        BY <2>4 DEF Permits
      <3> HIDE DEF here
      <3> QED BY <2>2, <2>3, <3>1 DEF ByPermission, UnlessOwn
    <2>6. ByOwner(here) => Scope(here, u) = "*" \/ (w /\ Scope(here, u) = "self")
      BY <2>4 DEF Permits, ByOwner
    <2> HIDE DEF here, there
    <2>7. Permitted(there, u, w) /\ Scope(there, u) = Scope(here, u)
      BY <2>2, <2>5, RightsOfRules
    <2>8. /\ Has(there, "permission") => Permitted(there, u, w)
          /\ Has(there, "permission-unless-own") => w \/ Permitted(there, u, w)
          /\ Has(there, "owner") \/ Has(there, "own-job") =>
                Scope(there, u) = "*" \/ (w /\ Scope(there, u) = "self")
      BY <2>2, <2>6, <2>7, Zenon DEF ByOwner
    <2> QED BY <2>8 DEF Permits, p, o, u, w, there
  <1> QED BY <1>1, GrantInvariance, PTL

\* The operations on a job ask for its owner, on both paths.
LEMMA JobsHaveOwners ==
    ASSUME NEW p \in Paths, NEW o \in DOMAIN Handlers[p], o \in {"job/update", "job/cancel"}
    PROVE  ByOwner(Handlers[p][o])
  <1>1. o \in DOMAIN Interfaces
    <2>1. \E i \in JobInterfaces : o \in i.ops
      BY DEF JobInterfaces, For
    <2>2. JobInterfaces \subseteq InterfaceRows
      BY DEF InterfaceRows
    <2> QED BY <2>1, <2>2, TableDomain DEF Interfaces
  <1>2. PICK i \in InterfaceRows : o \in i.ops /\ Interfaces[o] = i.row
    BY <1>1, RowOfTable DEF Interfaces
  <1>3. o \in DOMAIN Views
    BY <1>1, RowsAgree
  <1>4. PICK v \in ViewRows : o \in v.ops /\ Views[o] = v.row
    BY <1>3, RowOfTable DEF Views
  <1>5. PICK job \in JobViews : o \in job.ops
    BY DEF JobViews, For
  <1>6. v \in JobViews
    BY <1>4, <1>5, TablesOfViews DEF Only
  <1>7. ByOwner(v.row)
    BY <1>4, <1>6, AnyRow, RightsOfSteps DEF JobViews, For
  <1> QED BY <1>1, <1>4, <1>7, RowsAgree, RowIsHandlers

\* Who may see or change its own jobs only neither lists nor changes those of others
\* (_require_permission_scope, _authorize_job_owner, _authorize_job_write), on any path
\* and whatever the order of the checks.
THEOREM SelfStaysOwn == Spec => []SelfIsOwn
  <1>1. GrantInv => SelfIsOwn
    <2> SUFFICES ASSUME GrantInv, NEW r \in Requests,
                        (applied[r] /\ op[r] \in {"job/update", "job/cancel"}) \/ shown[r] # {}
                 PROVE  \/ \E rule \in Handler(r).rules : rule.scope = "*" /\ Allowed(user[r], rule)
                        \/ shown[r] \subseteq {"own"} /\ (applied[r] => own[r])
      BY DEF SelfIsOwn
    <2>1. GrantOf(r) /\ path[r] \in Paths /\ own[r] \in BOOLEAN
      BY DEF GrantInv, GrantOK
    <2>2. CASE shown[r] # {}
      <3>1. ~applied[r] /\ Listed(path[r], op[r], user[r], shown[r])
        BY <2>1, <2>2 DEF GrantOf
      <3> QED BY <3>1, ScopeMeans DEF Listed, Handler
    <2>3. CASE shown[r] = {}
      <3>1. applied[r] /\ op[r] \in {"job/update", "job/cancel"}
        BY <2>3
      <3>2. Cleared(path[r], op[r], user[r], own[r])
        BY <2>1, <3>1 DEF GrantOf
      <3>3. ByOwner(Handler(r))
        BY <2>1, <3>1, <3>2, JobsHaveOwners DEF Cleared, Handler
      <3>4. Scope(Handler(r), user[r]) = "*" \/ (own[r] /\ Scope(Handler(r), user[r]) = "self")
        BY <2>1, <3>2, <3>3, ClearedIsPermitted DEF ByOwner, Permits, Handler
      <3> QED BY <2>3, <3>4, ScopeMeans
    <2> QED BY <2>2, <2>3
  <1> QED BY <1>1, GrantInvariance, PTL

----------------------------------------------------------------------------
(* What the planner is offered is permitted. *)

\* What the interfaces that catalog() offers ask for. None lists jobs.
Serves(o, row) ==
    /\ o = "analysis/context" => row.rules = {View("analysis")} /\ ByPermission(row) /\ ~ByOwner(row)
    /\ o = "job" => row.rules = Either(View("jobs")) /\ ByPermission(row)
    /\ o \in {"jobs/history", "jobs/history/detail"} =>
          row.rules = {View("jobs-history")} /\ ByPermission(row) /\ ~ByOwner(row)
    /\ o \in {"nodes", "node", "node/metrics", "node/metrics/history"} =>
          row.rules = {View("resources")} /\ ByPermission(row) /\ ~ByOwner(row)
    /\ o = "user/tools/analysis" => UnlessOwn(row) /\ ~ByOwner(row)
    /\ o # "jobs" => ~Has(row, "filter")

\* The only steps that list jobs.
LEMMA FilterLists ==
    ASSUME NEW row, NEW feature \in Features
    PROVE  /\ row.steps = <<"permission", "read">> => ~Has(row, "filter")
           /\ row.steps = <<"permission", "argument", "read">> => ~Has(row, "filter")
           /\ row.steps = <<"permission", feature, "argument", "read">> => ~Has(row, "filter")
           /\ row.steps = <<"permission", "permission", "read">> => ~Has(row, "filter")
           /\ row.steps = <<"permission", "supported", "argument", "apply">> => ~Has(row, "filter")
           /\ row.steps = <<"argument", "permission", "owner", "read">> => ~Has(row, "filter")
           /\ row.steps = <<"argument", "permission", "user-metrics", "argument", "read">> =>
                  ~Has(row, "filter")
           /\ row.steps = <<"argument", "permission-unless-own", "user-metrics", "argument", "read">> =>
                  ~Has(row, "filter")
           /\ row.steps = <<"supported", "argument", "permission", "own-job", "argument", "apply">> =>
                  ~Has(row, "filter")
           /\ row.steps = <<"supported", "argument", "permission", "own-job", "apply">> =>
                  ~Has(row, "filter")
  BY DEF Has, Features

LEMMA EntriesServe == \A i \in InterfaceRows : \A o \in i.ops : Serves(o, i.row)
  <1> USE AnyRow, RightsOfSteps, FilterLists
      DEF Serves, For, Read, Needs, Checked, Write, Drop, Named
  <1>1. "job-history" \in Features /\ "node-metrics" \in Features
    BY DEF Features
  <1>2. \A i \in ClusterInterfaces : \A o \in i.ops : Serves(o, i.row)
    BY <1>1, SMTT(60) DEF ClusterInterfaces
  <1>3. \A i \in NodeInterfaces : \A o \in i.ops : Serves(o, i.row)
    BY <1>1, SMTT(60) DEF NodeInterfaces
  <1>4. \A i \in ConfigurationInterfaces : \A o \in i.ops : Serves(o, i.row)
    BY <1>1, SMTT(60) DEF ConfigurationInterfaces
  <1>5. \A i \in AnalyticsInterfaces : \A o \in i.ops : Serves(o, i.row)
    BY <1>1, SMTT(60) DEF AnalyticsInterfaces
  <1>6. \A i \in JobInterfaces : \A o \in i.ops : Serves(o, i.row)
    BY <1>1, SMTT(60) DEF JobInterfaces
  <1>7. \A i \in ResourceInterfaces : \A o \in i.ops : Serves(o, i.row)
    BY <1>1, SMTT(60) DEF ResourceInterfaces
  <1>8. \A i \in AccountInterfaces : \A o \in i.ops : Serves(o, i.row)
    BY <1>1, SMTT(60) DEF AccountInterfaces
  <1> QED BY ONLY <1>2, <1>3, <1>4, <1>5, <1>6, <1>7, <1>8, Zenon DEF InterfaceRows

\* Who is offered an interface passes the checks of rights for what is its own.
LEMMA OffersPermit ==
    ASSUME NEW u, NEW o \in Catalog(u), o \in DOMAIN Interfaces,
           ~(u \in Anonymous /\ AccessControl), o \in OfSomebody => u \notin Anonymous
    PROVE  Permits("assistant", o, u, TRUE) /\ ~Has(Interfaces[o], "filter")
  <1> DEFINE row == Interfaces[o]
  <1>1. Serves(o, row)
    BY RowOfTable, EntriesServe DEF Interfaces
  <1>2. Handlers["assistant"][o] = row
    BY DEF Handlers, Paths
  <1> HIDE DEF row
  <1>3. CASE o = "user/tools/analysis"
    <2>1. UnlessOwn(row) /\ ~ByOwner(row) /\ ~Has(row, "filter")
      BY <1>1, <1>3 DEF Serves
    <2> QED BY <1>2, <2>1 DEF Permits, UnlessOwn, ByOwner, row
  <1>4. CASE o = "job"
    <2>1. row.rules = Either(View("jobs")) /\ ByPermission(row) /\ ~Has(row, "filter")
      BY <1>1, <1>4 DEF Serves
    <2>2. \E rule \in row.rules : Allowed(u, rule)
      BY <1>4, <2>1 DEF Catalog
    <2>3. Permitted(row, u, TRUE)
      BY <2>2 DEF Permitted
    <2>4. u \notin Anonymous
      BY <1>4 DEF OfSomebody
    <2>5. Scope(row, u) = "*" \/ Scope(row, u) = "self"
      BY <2>2, <2>4 DEF Scope
    <2> QED BY <1>2, <2>1, <2>3, <2>5 DEF Permits, ByPermission, row
  <1>5. CASE o \notin {"user/tools/analysis", "job"}
    <2>1. ByPermission(row) /\ ~ByOwner(row) /\ ~Has(row, "filter")
      BY <1>1, <1>5 DEF Serves, Catalog
    <2>2. \E rule \in row.rules : Allowed(u, rule)
      <3>1. \/ o = "analysis/context" /\ Allowed(u, View("analysis"))
            \/ o \in {"jobs/history", "jobs/history/detail"} /\ Allowed(u, View("jobs-history"))
            \/ /\ o \in {"nodes", "node", "node/metrics", "node/metrics/history"}
               /\ Allowed(u, View("resources"))
        BY <1>5 DEF Catalog
      <3> QED BY <1>1, <3>1 DEF Serves
    <2>3. Permitted(row, u, TRUE)
      BY <2>2 DEF Permitted
    <2> QED BY <1>2, <2>1, <2>3 DEF Permits, ByPermission, ByOwner, row
  <1> QED BY <1>3, <1>4, <1>5

\* The next step is one of the row.
LEMMA HeadIsStep ==
    ASSUME NEW p \in Paths, NEW o, NEW u, NEW w, NEW t, Underway(p, o, u, w, t), Head(t) # "unsupported"
    PROVE  o \in DOMAIN Handlers[p] /\ Has(Handlers[p][o], Head(t))
  <1> DEFINE row == Handlers[p][o]
  <1>1. o \in DOMAIN Handlers[p]
    BY DEF Underway
  <1>2. PICK k \in 0..(Len(row.steps) - 1) : Rest(row, k, t)
    <2>1. t # <<"unsupported">>
      OBVIOUS
    <2> QED BY <2>1 DEF Underway
  <1>3. Ordered(row.steps)
    BY <1>1, HandlersAreOrdered
  <1> HIDE DEF row
  <1>4. Len(row.steps) \in Nat /\ DOMAIN row.steps = 1..Len(row.steps) /\ Len(t) = Len(row.steps) - k
        /\ t \in Seq(Steps) /\ Len(t) > 0
    BY <1>2, <1>3 DEF Ordered, Rest
  <1>5. Head(t) = row.steps[1 + k] /\ 1 + k \in DOMAIN row.steps
    BY <1>2, <1>4 DEF Rest
  <1> QED BY <1>1, <1>5 DEF Has, row

\* Of a chat: who may have one, what may be its own, and what is not refused to it.
OfferOf(r) ==
    path[r] = "assistant" =>
        /\ ~(user[r] \in Anonymous /\ AccessControl)
        /\ own[r] /\ op[r] \in OfSomebody => user[r] \notin Anonymous
        /\ own[r] /\ op[r] \in Catalog(user[r]) => code[r] # 403
OfferInv == \A r \in Requests : OfferOf(r)

LEMMA OfferOthers ==
    ASSUME NEW x \in Requests, OfferOf(x), code'[x] = code[x], path'[x] = path[x], op'[x] = op[x],
           user'[x] = user[x], own'[x] = own[x]
    PROVE  OfferOf(x)'
  BY DEF OfferOf

\* Steps that go on, or answer something else than a refusal.
LEMMA OfferCheck ==
    ASSUME GrantInv, OfferInv, NEW r \in Requests,
           \/ Pass(r)
           \/ \E c \in Nat : /\ Answer(r, c)
                             /\ path[r] = "assistant" /\ own[r] /\ op[r] \in Catalog(user[r]) => c # 403
    PROVE  OfferInv'
  <1>1. CASE Pass(r)
    <2>1. UNCHANGED <<code, path, op, user, own>>
      BY <1>1 DEF Pass, about
    <2>2. ASSUME NEW x \in Requests PROVE OfferOf(x)'
      <3>1. OfferOf(x)
        BY DEF OfferInv
      <3> QED BY <2>1, <3>1, OfferOthers
    <2> QED BY <2>2, Zenon DEF OfferInv
  <1>2. CASE \E c \in Nat : /\ Answer(r, c)
                            /\ path[r] = "assistant" /\ own[r] /\ op[r] \in Catalog(user[r]) => c # 403
    <2>1. PICK c \in Nat : /\ Answer(r, c)
                           /\ path[r] = "assistant" /\ own[r] /\ op[r] \in Catalog(user[r]) => c # 403
      BY <1>2
    <2>2. code' = [code EXCEPT ![r] = c] /\ UNCHANGED <<path, op, user, own>>
      BY <2>1 DEF Answer, about
    <2>3. code'[r] = c /\ \A x \in Requests : x # r => code'[x] = code[x]
      BY <2>2 DEF GrantInv, GrantOK, AppliedOK
    <2>4. OfferOf(r)'
      BY <2>1, <2>2, <2>3 DEF OfferInv, OfferOf
    <2>5. \A x \in Requests : x # r => OfferOf(x)'
      BY <2>2, <2>3, OfferOthers, Zenon DEF OfferInv
    <2> QED BY <2>4, <2>5 DEF OfferInv
  <1> QED BY <1>1, <1>2

\* At a check of rights, who was offered the interface passes.
LEMMA OfferRights ==
    ASSUME GrantInv, OfferInv, NEW r \in Requests, status[r] = "busy", Head(todo[r]) # "unsupported",
           path[r] = "assistant", own[r], op[r] \in Catalog(user[r])
    PROVE  /\ Permits("assistant", op[r], user[r], TRUE) /\ Has(Handler(r), Head(todo[r]))
           /\ Head(todo[r]) # "filter"
  <1>1. Underway(path[r], op[r], user[r], own[r], todo[r]) /\ path[r] \in Paths
    BY DEF GrantInv, GrantOK, GrantOf
  <1>2. op[r] \in DOMAIN Handlers[path[r]] /\ Has(Handler(r), Head(todo[r]))
    BY <1>1, HeadIsStep DEF Handler
  <1>3. Handlers[path[r]] = Interfaces
    BY DEF Handlers, Paths
  <1>4. ~(user[r] \in Anonymous /\ AccessControl) /\ (op[r] \in OfSomebody => user[r] \notin Anonymous)
    BY DEF OfferInv, OfferOf
  <1>5. Permits("assistant", op[r], user[r], TRUE) /\ ~Has(Interfaces[op[r]], "filter")
    BY <1>2, <1>3, <1>4, OffersPermit
  <1> QED BY <1>2, <1>3, <1>5 DEF Handler

LEMMA OfferPermission ==
    ASSUME GrantInv, OfferInv, NEW r \in Requests, CheckPermission(r) PROVE OfferInv'
  <1>1. CASE path[r] = "assistant" /\ own[r] /\ op[r] \in Catalog(user[r])
    <2>1. status[r] = "busy" /\ Head(todo[r]) \in {"permission", "permission-unless-own"}
      BY DEF CheckPermission, Due
    <2>2. Permits(path[r], op[r], user[r], own[r]) /\ Has(Handler(r), Head(todo[r]))
      BY <1>1, <2>1, OfferRights, Zenon DEF GrantInv, GrantOK
    <2>3. Permitted(Handler(r), user[r], own[r]) \/ (own[r] /\ Due(r, "permission-unless-own"))
      BY <1>1, <2>1, <2>2 DEF Permits, Handler, Due
    <2>4. Pass(r)
      BY <2>3 DEF CheckPermission
    <2> QED BY <2>4, OfferCheck
  <1>2. CASE ~(path[r] = "assistant" /\ own[r] /\ op[r] \in Catalog(user[r]))
    <2>1. Pass(r) \/ \E c \in Nat : Answer(r, c)
      BY DEF CheckPermission
    <2> QED BY <1>2, <2>1, OfferCheck
  <1> QED BY <1>1, <1>2

LEMMA OfferOwner == ASSUME GrantInv, OfferInv, NEW r \in Requests, CheckOwner(r) PROVE OfferInv'
  <1>1. CASE path[r] = "assistant" /\ own[r] /\ op[r] \in Catalog(user[r])
    <2>1. status[r] = "busy" /\ Head(todo[r]) \in {"owner", "own-job"}
      BY DEF CheckOwner, Due
    <2>2. Permits(path[r], op[r], user[r], own[r]) /\ Has(Handler(r), Head(todo[r]))
      BY <1>1, <2>1, OfferRights, Zenon DEF GrantInv, GrantOK
    <2>3. Scope(Handler(r), user[r]) # "none"
      BY <1>1, <2>1, <2>2 DEF Permits, Handler
    <2>4. Pass(r) \/ \E c \in Nat : Answer(r, c) /\ c # 403
      BY <1>1, <2>3 DEF CheckOwner
    <2> QED BY <2>4, OfferCheck
  <1>2. CASE ~(path[r] = "assistant" /\ own[r] /\ op[r] \in Catalog(user[r]))
    <2>1. Pass(r) \/ \E c \in Nat : Answer(r, c)
      BY DEF CheckOwner
    <2> QED BY <1>2, <2>1, OfferCheck
  <1> QED BY <1>1, <1>2

LEMMA OfferList == ASSUME GrantInv, OfferInv, NEW r \in Requests, ListJobs(r) PROVE OfferInv'
  <1>1. status[r] = "busy" /\ Head(todo[r]) = "filter"
    BY DEF ListJobs, Due
  <1>2. ~(path[r] = "assistant" /\ own[r] /\ op[r] \in Catalog(user[r]))
    BY <1>1, OfferRights
  <1>3. Pass(r) \/ \E c \in Nat : Answer(r, c)
    BY DEF ListJobs
  <1> QED BY <1>2, <1>3, OfferCheck

LEMMA OfferAsk == ASSUME GrantInv, OfferInv, NEW r \in Requests, Ask(r) PROVE OfferInv'
  <1>1. PICK u \in Users, p \in Paths, o \in asks[r], w \in BOOLEAN :
            /\ p = "assistant" => Permitted(Views["ai/chat"], u, FALSE)
            /\ w /\ o \in OfSomebody => u \notin Anonymous
            /\ user' = [user EXCEPT ![r] = u] /\ path' = [path EXCEPT ![r] = p]
            /\ op' = [op EXCEPT ![r] = o] /\ own' = [own EXCEPT ![r] = w]
    BY Zenon DEF Ask
  <1>2. status[r] = "idle" /\ UNCHANGED code
    BY DEF Ask
  <1>3. code[r] = 0
    BY <1>2 DEF GrantInv, GrantOf
  <1>4. /\ path'[r] = p /\ op'[r] = o /\ user'[r] = u /\ own'[r] = w
        /\ \A x \in Requests : x # r => /\ path'[x] = path[x] /\ op'[x] = op[x]
                                       /\ user'[x] = user[x] /\ own'[x] = own[x]
    BY <1>1 DEF GrantInv, GrantOK
  <1>5. OfferOf(r)'
    BY <1>1, <1>2, <1>3, <1>4 DEF OfferOf, Permitted
  <1>6. \A x \in Requests : x # r => OfferOf(x)'
    BY <1>2, <1>4, OfferOthers, Zenon DEF OfferInv
  <1> QED BY <1>5, <1>6 DEF OfferInv

LEMMA OfferReturn == ASSUME GrantInv, OfferInv, NEW r \in Requests, Return(r) PROVE OfferInv'
  <1>1. /\ path' = [path EXCEPT ![r] = "http"] /\ code' = [code EXCEPT ![r] = 0]
        /\ user' = [user EXCEPT ![r] = Idle.user] /\ op' = [op EXCEPT ![r] = Idle.op]
        /\ own' = [own EXCEPT ![r] = TRUE]
    BY DEF Return, Idle
  <1>2. /\ path'[r] = "http"
        /\ \A x \in Requests : x # r =>
              /\ code'[x] = code[x] /\ path'[x] = path[x] /\ op'[x] = op[x]
              /\ user'[x] = user[x] /\ own'[x] = own[x]
    BY <1>1 DEF GrantInv, GrantOK, AppliedOK
  <1>3. OfferOf(r)'
    BY <1>2 DEF OfferOf
  <1>4. \A x \in Requests : x # r => OfferOf(x)'
    BY <1>2, OfferOthers, Zenon DEF OfferInv
  <1> QED BY <1>3, <1>4 DEF OfferInv

LEMMA OfferNext == ASSUME GrantInv, OfferInv, [Next]_vars PROVE OfferInv'
  <1>1. ASSUME NEW r \in Requests, CheckFeature(r) \/ CheckSupported(r) \/ CheckArgument(r) PROVE OfferInv'
    <2>1. Pass(r) \/ \E c \in Nat : Answer(r, c) /\ c # 403
      BY <1>1 DEF CheckFeature, CheckSupported, CheckArgument
    <2> QED BY <2>1, OfferCheck
  <1>2. ASSUME NEW r \in Requests, ReadBackend(r) \/ Apply(r) \/ LookUp(r) \/ Collect(r) \/ Keep(r)
        PROVE  OfferInv'
    <2>1. Pass(r) \/ \E c \in Nat : Answer(r, c) /\ c # 403
      BY <1>2 DEF ReadBackend, Apply, LookUp, Collect, Keep
    <2> QED BY <2>1, OfferCheck
  <1>3. ASSUME NEW r \in Requests,
               Ask(r) \/ CheckPermission(r) \/ CheckOwner(r) \/ ListJobs(r) \/ Return(r)
        PROVE  OfferInv'
    BY <1>3, OfferAsk, OfferPermission, OfferOwner, OfferList, OfferReturn
  <1>4. CASE Tick \/ UNCHANGED vars
    BY <1>4 DEF Tick, vars, about, OfferInv, OfferOf
  <1> QED BY <1>1, <1>2, <1>3, <1>4 DEF Next

\* What catalog() offers to the planner is not refused when it asks about what is the
\* user's own, though the two state the permissions separately (_catalog_visible,
\* _require_permission, _require_permission_scope).
THEOREM OffersArePermitted == Spec => []OfferedIsPermitted
  <1>1. Init => OfferInv
    BY DEF Init, Idle, OfferInv, OfferOf
  <1>2. GrantInv /\ OfferInv /\ [Next]_vars => OfferInv'
    BY OfferNext
  <1>3. OfferInv => OfferedIsPermitted
    BY DEF OfferInv, OfferOf, OfferedIsPermitted
  <1> QED BY <1>1, <1>2, <1>3, GrantInvariance, PTL DEF Spec
=============================================================================
