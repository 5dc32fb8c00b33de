---------------------------- MODULE GatewayProofs ----------------------------
(***************************************************************************)
(* The discovery, the login and the listing through the gateway, for any    *)
(* number of threads, agents and clusters, any lifetime of the discovery    *)
(* and any timeout of the clients.                                          *)
(***************************************************************************)
EXTENDS Gateway, TLAPS

\* Where a request goes on, once it has the agents.
Asking == {"ask", "poll", "store", "date"}
At(r) == IF pc[r] \in Asking THEN after[r] ELSE pc[r]

AfterSteps == {"validate", "list", "login", "forced", "new_url", "new_version"}
LoginSteps == {"login", "forced", "posting", "done"}
ListSteps == {"list", "lists", "listing", "done"}

\* A login is at one of its own steps, a listing too, and no outcome is left to
\* them by the request their thread served before.
KindInv ==
    /\ pc = [r \in Requests |-> pc[r]]
    /\ after = [r \in Requests |-> after[r]]
    /\ kind = [r \in Requests |-> kind[r]]
    /\ outcome = [r \in Requests |-> outcome[r]]
    /\ \A r \in Requests :
        /\ after[r] \in AfterSteps
        /\ pc[r] # "done" => outcome[r] = "none"
        /\ kind[r] = "login" =>
            /\ At(r) \in LoginSteps
            /\ outcome[r] \in {"none", "ok", "refused"}
        /\ kind[r] = "clusters" => At(r) \in ListSteps

----------------------------------------------------------------------------

LEMMA InitKindInv == Init => KindInv
BY DEF Init, KindInv, At, Asking, AfterSteps

\* A request that ends leaves the others alone; the login that ends does it
\* with an answer of its own.
LEMMA EndKindInv ==
    ASSUME KindInv, NEW r \in Requests, NEW how, NEW alert, End(r, how, alert), UNCHANGED kind,
           kind[r] = "login" => how \in {"ok", "refused"}
    PROVE  KindInv'
<1>1. /\ pc' = [q \in Requests |-> pc'[q]] /\ after' = [q \in Requests |-> after'[q]]
      /\ kind' = [q \in Requests |-> kind'[q]] /\ outcome' = [q \in Requests |-> outcome'[q]]
      BY DEF End, KindInv
<1>2. /\ pc'[r] = "done" /\ after'[r] = "validate" /\ outcome'[r] = how /\ kind'[r] = kind[r]
      BY DEF End, KindInv
<1>3. \A q \in Requests \ {r} :
          pc'[q] = pc[q] /\ kind'[q] = kind[q] /\ after'[q] = after[q] /\ outcome'[q] = outcome[q]
      BY DEF End, KindInv
<1>4. "validate" \in AfterSteps /\ "done" \notin Asking /\ "done" \in LoginSteps /\ "done" \in ListSteps
      BY DEF Asking, AfterSteps, LoginSteps, ListSteps
<1> QED
    BY <1>1, <1>2, <1>3, <1>4 DEF KindInv, At

\* A request that goes on from one step to another of the same view.
LEMMA GoOnKindInv ==
    ASSUME KindInv, NEW r \in Requests, NEW p, pc' = [pc EXCEPT ![r] = p],
           UNCHANGED <<kind, after, outcome>>, pc[r] # "done" \/ p = "idle",
           kind[r] = "login" => (IF p \in Asking THEN after[r] ELSE p) \in LoginSteps,
           kind[r] = "clusters" => (IF p \in Asking THEN after[r] ELSE p) \in ListSteps,
           outcome[r] = "none"
    PROVE  KindInv'
BY DEF KindInv, At, Asking

\* A request that begins, is looked at or is over.
LEMMA ChangeKindInv ==
    ASSUME KindInv, NEW r \in Requests, NEW p, NEW k, NEW a, NEW o,
           pc' = [pc EXCEPT ![r] = p], kind' = [kind EXCEPT ![r] = k],
           after' = [after EXCEPT ![r] = a], outcome' = [outcome EXCEPT ![r] = o],
           a \in AfterSteps, p # "done" => o = "none",
           k = "login" => /\ (IF p \in Asking THEN a ELSE p) \in LoginSteps
                          /\ o \in {"none", "ok", "refused"},
           k = "clusters" => (IF p \in Asking THEN a ELSE p) \in ListSteps
    PROVE  KindInv'
<1>1. /\ pc' = [q \in Requests |-> pc'[q]] /\ kind' = [q \in Requests |-> kind'[q]]
      /\ after' = [q \in Requests |-> after'[q]] /\ outcome' = [q \in Requests |-> outcome'[q]]
      BY DEF KindInv
<1>2. pc'[r] = p /\ kind'[r] = k /\ after'[r] = a /\ outcome'[r] = o
      BY DEF KindInv
<1>3. \A q \in Requests \ {r} :
          pc'[q] = pc[q] /\ kind'[q] = kind[q] /\ after'[q] = after[q] /\ outcome'[q] = outcome[q]
      BY DEF KindInv
<1> QED
    BY <1>1, <1>2, <1>3 DEF KindInv, At

\* What is left alone is put where it was.
LEMMA SameIsExcept ==
    ASSUME KindInv, NEW r \in Requests
    PROVE  /\ kind = [kind EXCEPT ![r] = kind[r]] /\ after = [after EXCEPT ![r] = after[r]]
           /\ outcome = [outcome EXCEPT ![r] = outcome[r]]
BY DEF KindInv

LEMMA KindInvStep == KindInv /\ [Next]_vars => KindInv'
<1> SUFFICES ASSUME KindInv, [Next]_vars
             PROVE  KindInv'
    OBVIOUS
<1> USE DEF Asked, requestVars
\* Those that neither move the request nor end it.
<1>1. ASSUME UNCHANGED <<pc, kind, after, outcome>>
      PROVE  KindInv'
      BY <1>1 DEF KindInv, At, Asking
<1>2. ASSUME NEW r \in Requests, Begin(r)
      PROVE  KindInv'
      <2>1. PICK k \in Uses[r] :
                /\ kind' = [kind EXCEPT ![r] = k]
                /\ after' = [after EXCEPT ![r] = CASE k = "clusters" -> "list" [] k = "login" -> "login"
                                                   [] OTHER -> "validate"]
            BY <1>2 DEF Begin
      <2>2. PICK a \in {"list", "login", "validate"} :
                /\ after' = [after EXCEPT ![r] = a] /\ (k = "login" => a = "login")
                /\ k = "clusters" => a = "list"
            BY <2>1
      <2>3. pc[r] = "idle" /\ pc' = [pc EXCEPT ![r] = "ask"] /\ UNCHANGED outcome
            BY <1>2 DEF Begin
      <2>4. outcome' = [outcome EXCEPT ![r] = "none"]
            BY <2>3, SameIsExcept DEF KindInv
      <2> QED
          BY <2>1, <2>2, <2>3, <2>4, ChangeKindInv DEF Asking, AfterSteps, LoginSteps, ListSteps
<1>3. ASSUME NEW r \in Requests, Refused(r)
      PROVE  KindInv'
      BY <1>3, EndKindInv DEF Refused
\* The discovery: the request goes on where it was to go.
<1>4. ASSUME NEW r \in Requests, Cached(r) \/ StoreTimeout(r)
      PROVE  KindInv'
      <2>1. pc[r] \in {"ask", "date"} /\ pc' = [pc EXCEPT ![r] = after[r]] /\ UNCHANGED <<kind, after, outcome>>
            BY <1>4 DEF Cached, StoreTimeout
      <2>2. outcome[r] = "none" /\ after[r] \notin Asking
            BY <2>1 DEF KindInv, AfterSteps, Asking
      <2>3. /\ kind[r] = "login" => after[r] \in LoginSteps
            /\ kind[r] = "clusters" => after[r] \in ListSteps
            BY <2>1 DEF KindInv, At, Asking
      <2> QED
          BY <2>1, <2>2, <2>3, GoOnKindInv
<1>5. ASSUME NEW r \in Requests, NEW p \in {"poll", "store", "date"}, pc[r] \in Asking,
             pc' = [pc EXCEPT ![r] = p], UNCHANGED <<kind, after, outcome>>
      PROVE  KindInv'
      BY <1>5, GoOnKindInv DEF KindInv, At, Asking
<1>6. ASSUME NEW r \in Requests, Poll(r)
      PROVE  KindInv'
      BY <1>6, <1>5 DEF Poll, PollAll, Asking
<1>7. ASSUME NEW r \in Requests, NEW u \in Urls, PollAnswer(r, u)
      PROVE  KindInv'
      BY <1>7, <1>5 DEF PollAnswer, Asking
<1>8. ASSUME NEW r \in Requests, StoreAgents(r)
      PROVE  KindInv'
      BY <1>8, <1>5 DEF StoreAgents, Asking
\* The except of login().
<1>9. ASSUME NEW r \in Requests, PollTimeout(r) \/ PostTimeout(r)
      PROVE  KindInv'
      <2>1. Raise(r, "failed") /\ UNCHANGED kind
            BY <1>9 DEF PollTimeout, PostTimeout
      <2>2. CASE kind[r] = "login"
            BY <2>1, <2>2, EndKindInv DEF Raise
      <2>3. CASE kind[r] # "login"
            BY <2>1, <2>3, EndKindInv DEF Raise
      <2> QED
          BY <2>2, <2>3
\* No login is at a step of the other views.
<1>10. ASSUME NEW r \in Requests,
              pc[r] \in {"validate", "url", "version", "new_url", "new_version", "sent", "list", "lists", "listing"}
       PROVE  kind[r] # "login" /\ outcome[r] = "none"
       BY <1>10 DEF KindInv, At, Asking, LoginSteps
<1>0. ASSUME NEW r \in Requests,
              pc[r] \in {"validate", "url", "version", "new_url", "new_version", "sent", "login", "forced"}
      PROVE  kind[r] # "clusters"
      BY <1>0 DEF KindInv, At, Asking, ListSteps
<1>11. ASSUME NEW r \in Requests, Validate(r)
       PROVE  KindInv'
       <2>1. pc[r] = "validate" /\ kind[r] # "login" /\ outcome[r] = "none"
             BY <1>11, <1>10 DEF Validate
       <2>2. CASE End(r, "not_found", FALSE) /\ UNCHANGED kind
             BY <2>1, <2>2, EndKindInv
       <2>3. ASSUME NEW k \in {"proxy", "stream"}, kind' = [kind EXCEPT ![r] = k],
                    pc' = [pc EXCEPT ![r] = "url"], UNCHANGED <<after, outcome>>
             PROVE  KindInv'
             <3>1. /\ outcome' = [outcome EXCEPT ![r] = "none"] /\ after' = [after EXCEPT ![r] = after[r]]
                   /\ kind' = [kind EXCEPT ![r] = k] /\ pc' = [pc EXCEPT ![r] = "url"] /\ k # "login"
                   BY <2>1, <2>3, SameIsExcept
             <3>2. after[r] \in AfterSteps
                   BY DEF KindInv
             <3> QED
                 BY <3>1, <3>2, ChangeKindInv DEF Asking
       <2>4. PICK c \in Clusters, k \in {"proxy", "stream"} :
                 \/ /\ kind' = [kind EXCEPT ![r] = k] /\ pc' = [pc EXCEPT ![r] = "url"]
                    /\ UNCHANGED <<after, outcome>>
                 \/ End(r, "not_found", FALSE) /\ UNCHANGED kind
             BY <1>11 DEF Validate
       <2> QED
           BY <2>2, <2>3, <2>4
<1>12. ASSUME NEW r \in Requests, ReadRoute(r)
       PROVE  KindInv'
       <2>1. pc[r] \in {"url", "version", "new_url", "new_version"} /\ kind[r] # "login" /\ outcome[r] = "none"
             BY <1>12, <1>10 DEF ReadRoute
       <2>2. CASE End(r, "failed", FALSE) /\ UNCHANGED kind
             BY <2>1, <2>2, EndKindInv
       <2>3. ASSUME NEW p \in {"version", "sent"}, pc' = [pc EXCEPT ![r] = p],
                    UNCHANGED <<kind, after, outcome>>
             PROVE  KindInv'
             BY <1>12, <2>1, <2>3, <1>0, GoOnKindInv DEF Asking
       <2>4. \/ End(r, "failed", FALSE) /\ UNCHANGED kind
             \/ /\ pc' = [pc EXCEPT ![r] = IF pc[r] \in {"url", "new_url"} THEN "version" ELSE "sent"]
                /\ UNCHANGED <<kind, after, outcome>>
             BY <1>12 DEF ReadRoute
       <2> QED
           BY <2>2, <2>3, <2>4
<1>13. ASSUME NEW r \in Requests, RouteExpired(r)
       PROVE  KindInv'
       <2>1. pc[r] \in {"url", "version"} /\ kind[r] # "login" /\ outcome[r] = "none"
             BY <1>13, <1>10 DEF RouteExpired
       <2>2. CASE End(r, "failed", FALSE) /\ UNCHANGED kind
             BY <2>1, <2>2, EndKindInv
       <2>3. ASSUME NEW a \in {"new_url", "new_version"}, pc' = [pc EXCEPT ![r] = "ask"],
                    after' = [after EXCEPT ![r] = a], UNCHANGED <<kind, outcome>>
             PROVE  KindInv'
             <3>1. outcome' = [outcome EXCEPT ![r] = "none"] /\ kind' = [kind EXCEPT ![r] = kind[r]]
                   BY <2>1, <2>3, SameIsExcept
             <3> QED
                 BY <2>1, <2>3, <3>1, <1>0, ChangeKindInv DEF Asking, AfterSteps
       <2>4. \/ End(r, "failed", FALSE) /\ UNCHANGED kind
             \/ /\ pc' = [pc EXCEPT ![r] = "ask"] /\ UNCHANGED <<kind, outcome>>
                /\ after' = [after EXCEPT ![r] = IF pc[r] = "url" THEN "new_url" ELSE "new_version"]
             BY <1>13 DEF RouteExpired
       <2> QED
           BY <2>2, <2>3, <2>4
<1>14. ASSUME NEW r \in Requests, Answer(r) \/ StreamAnswer(r)
       PROVE  KindInv'
       <2>1. kind[r] # "login" /\ UNCHANGED kind
             BY <1>14 DEF Answer, StreamAnswer
       <2>2. PICK how, alert : End(r, how, alert)
             BY <1>14 DEF Answer, StreamAnswer
       <2> QED
           BY <2>1, <2>2, EndKindInv
<1>15. ASSUME NEW r \in Requests, ListAgents(r)
       PROVE  KindInv'
       BY <1>15, <1>10, GoOnKindInv DEF ListAgents, Asking, ListSteps
<1>16. ASSUME NEW r \in Requests, List(r)
       PROVE  KindInv'
       <2>1. pc[r] = "lists" /\ kind[r] # "login" /\ outcome[r] = "none"
             BY <1>16, <1>10 DEF List
       <2>2. \/ End(r, "failed", FALSE) /\ UNCHANGED kind
             \/ pc' = [pc EXCEPT ![r] = "listing"] /\ UNCHANGED <<kind, after, outcome>>
             BY <1>16 DEF List
       <2> QED
           BY <2>1, <2>2, EndKindInv, GoOnKindInv DEF Asking, ListSteps
<1>17. ASSUME NEW r \in Requests, NEW u \in Urls, ListError(r, u)
       PROVE  KindInv'
       BY <1>17, <1>10, EndKindInv DEF ListError
<1>18. ASSUME NEW r \in Requests, Listed(r) \/ LoggedIn(r)
       PROVE  KindInv'
       <2>1. PICK alert : End(r, "ok", alert) /\ UNCHANGED kind
             BY <1>18 DEF Listed, LoggedIn
       <2> QED
           BY <2>1, EndKindInv
\* The user is sent to the agents, or there are none.
<1>19. ASSUME NEW r \in Requests, pc[r] \in {"login", "forced"}, Post(r)
       PROVE  KindInv'
       <2>1. outcome[r] = "none"
             BY <1>19 DEF KindInv
       <2>2. \/ End(r, "ok", TRUE) /\ UNCHANGED kind
             \/ pc' = [pc EXCEPT ![r] = "posting"] /\ UNCHANGED <<kind, after, outcome>>
             BY <1>19 DEF Post
       <2>3. CASE End(r, "ok", TRUE) /\ UNCHANGED kind
             BY <2>3, EndKindInv
       <2>4. CASE pc' = [pc EXCEPT ![r] = "posting"] /\ UNCHANGED <<kind, after, outcome>>
             BY <1>19, <2>1, <2>4, <1>0, GoOnKindInv DEF Asking, LoginSteps
       <2> QED
           BY <2>2, <2>3, <2>4
<1>20. ASSUME NEW r \in Requests, LoginAgents(r)
       PROVE  KindInv'
       <2>1. CASE Post(r)
             BY <1>20, <2>1, <1>19 DEF LoginAgents
       <2>2. CASE PollAll(r) /\ after' = [after EXCEPT ![r] = "forced"]
             <3>1. pc' = [pc EXCEPT ![r] = "poll"] /\ UNCHANGED <<kind, outcome>> /\ pc[r] = "login"
                   BY <1>20, <2>2 DEF LoginAgents, PollAll
             <3>2. /\ outcome' = [outcome EXCEPT ![r] = "none"] /\ kind' = [kind EXCEPT ![r] = kind[r]]
                   /\ after' = [after EXCEPT ![r] = "forced"] /\ pc' = [pc EXCEPT ![r] = "poll"]
                   BY <2>2, <3>1, SameIsExcept DEF KindInv
             <3>3. "poll" \in Asking /\ "forced" \in AfterSteps /\ "forced" \in LoginSteps
                   BY DEF Asking, AfterSteps, LoginSteps
             <3>4. kind[r] # "clusters"
                   BY <3>1, <1>0
             <3> QED
                 BY <3>2, <3>3, <3>4, ChangeKindInv
       <2> QED
           BY <1>20, <2>1, <2>2 DEF LoginAgents
<1>21. ASSUME NEW r \in Requests, Forced(r)
       PROVE  KindInv'
       BY <1>21, <1>19 DEF Forced
<1>22. ASSUME NEW r \in Requests, NEW u \in Urls, ListAnswer(r, u) \/ PostAnswer(r, u)
       PROVE  KindInv'
       BY <1>22, <1>1 DEF ListAnswer, PostAnswer
\* The thread is ready for another request.
<1>23. ASSUME NEW r \in Requests, Return(r)
       PROVE  KindInv'
       <2>1. /\ pc' = [pc EXCEPT ![r] = "idle"] /\ outcome' = [outcome EXCEPT ![r] = "none"]
             /\ kind' = [kind EXCEPT ![r] = "proxy"] /\ UNCHANGED after
             BY <1>23 DEF Return
       <2>2. after' = [after EXCEPT ![r] = after[r]] /\ after[r] \in AfterSteps
             BY <2>1, SameIsExcept DEF KindInv
       <2> QED
           BY <2>1, <2>2, ChangeKindInv DEF Asking
<1>24. ASSUME NEW u \in Urls, AgentChanges(u)
       PROVE  KindInv'
       BY <1>24, <1>1 DEF AgentChanges
<1>25. CASE Tick
       BY <1>25, <1>1 DEF Tick
<1>26. CASE UNCHANGED vars
       BY <1>26, <1>1 DEF vars
<1>27. ASSUME NEW r \in Requests, Step(r)
       PROVE  KindInv'
       BY <1>4, <1>6, <1>7, <1>8, <1>9, <1>11, <1>12, <1>13, <1>14, <1>15, <1>16, <1>17, <1>18, <1>20, <1>21,
          <1>22, <1>23, <1>27, Zenon DEF Step
<1> QED
    BY <1>2, <1>3, <1>24, <1>25, <1>26, <1>27, Zenon DEF Next

\* Whatever the agents do and whenever they do it, the login of a user whom LDAP
\* authenticated is answered: the failures of the discovery and of the agents end
\* in the except of login() (views/gateway.py), in every order of the threads.
THEOREM LoginAlwaysSurvives == Spec => []LoginSurvives
<1>1. KindInv => LoginSurvives
      BY DEF KindInv, LoginSurvives
<1> QED
    BY InitKindInv, KindInvStep, <1>1, PTL DEF Spec

----------------------------------------------------------------------------
(* What the gateway knows of its agents *)

\* A version an agent answered, or <<>>, is what it would answer now.
Current(u, v) == v = IF state[u] = "up" THEN version[u] ELSE <<>>

\* What is known of an agent is true.
Shown(u) ==
    /\ \A c \in Known : agents[c][1] = u => state[u] = "up" /\ version[u] = agents[c][2]
    /\ state[u] = "up" /\ Accepted(u, version[u]) => ClusterOf[u] \in Known

\* It is, of those that have not changed for longer than age.
TrueFor(age) == \A u \in Urls : stable[u] > age => Shown(u)

\* The oldest a discovery can be when a view looks at it.
Oldest == Patience + Lifetime - 1

DiscoveryType ==
    /\ agents \in [Clusters -> {<<>>} \cup (Urls \X Versions)]
    /\ \A c \in Known : ClusterOf[agents[c][1]] = c
    /\ left \in 0 .. Lifetime
    /\ state \in [Urls -> {"up", "down", "hangs"}] /\ version \in [Urls -> Versions]
    /\ stable \in [Urls -> 0 .. Settled]

\* A poll takes Patience at most, then its result is served for the lifetime that is
\* left; several threads store theirs in any order in the meantime.
DiscoveryInv ==
    /\ DiscoveryType
    /\ left > 0 => TrueFor(Patience + Lifetime - left)
    /\ \A r \in Requests : pc[r] = "date" => TrueFor(Patience)

RequestType ==
    /\ waited \in [Requests -> 0 .. Patience]
    /\ waiting = [r \in Requests |-> waiting[r]]
    /\ answers \in [Requests -> [Urls -> {<<>>} \cup Versions]]
    /\ reached = [r \in Requests |-> reached[r]]
    /\ warned = [r \in Requests |-> warned[r]]

\* The agent of its cluster that may be used.
Alone(u) ==
    /\ state[u] = "up" /\ Accepted(u, version[u])
    /\ \A w \in Urls : ClusterOf[w] = ClusterOf[u] => w = u

\* Clocks of a request: they start where its agents are looked at.
ClockInv(r) ==
    /\ pc[r] \in {"idle", "ask", "list", "done"} => waited[r] = 0
    /\ pc[r] = "lists" => waited[r] <= 1
    /\ pc[r] \in {"login", "forced", "list"} => left > 0
    /\ pc[r] \notin {"listing", "posting", "done"} => reached[r] = {}

\* What the agents answered since a poll began is still true of those that did not
\* change meanwhile.
PollInv(r) ==
    /\ pc[r] = "store" => waiting[r] = {}
    /\ pc[r] \in {"poll", "store"} =>
        \A u \in Urls : u \notin waiting[r] /\ stable[u] > waited[r] => Current(u, answers[r][u])

\* An agent that was there all along is asked, or it has answered.
ListsInv(r) ==
    pc[r] = "lists" => \A u \in Urls : Alone(u) /\ stable[u] > Oldest + waited[r] => u \in waiting[r]

ListingInv(r) ==
    pc[r] = "listing" =>
        /\ \A u \in Granted : Alone(u) /\ stable[u] > Oldest + 1 + waited[r] =>
              u \in reached[r] \/ (u \in waiting[r] /\ answers[r][u] = version[u])
        /\ reached[r] \subseteq Urls
        /\ \A u \in reached[r] : state[u] = "up" \/ stable[u] <= waited[r]

PostingInv(r) ==
    pc[r] = "posting" => \A u \in Database : Alone(u) /\ stable[u] > Oldest + waited[r] =>
        u \in waiting[r] \/ u \in reached[r] \/ warned[r]

DoneInv(r) ==
    /\ kind[r] = "clusters" /\ outcome[r] = "ok" =>
        /\ {u \in Granted : SettledUp(u)} \subseteq reached[r]
        /\ reached[r] \subseteq Urls
        /\ \A u \in reached[r] : stable[u] < Settled \/ state[u] = "up"
    /\ kind[r] = "login" /\ outcome[r] = "ok" /\ ~warned[r] =>
        {u \in Database : SettledUp(u)} \subseteq reached[r]

RequestInv(r) ==
    ClockInv(r) /\ PollInv(r) /\ ListsInv(r) /\ ListingInv(r) /\ PostingInv(r) /\ DoneInv(r)

GatewayInv == DiscoveryInv /\ RequestType /\ \A r \in Requests : RequestInv(r)

----------------------------------------------------------------------------

LEMMA Constants ==
    /\ Lifetime \in Nat \ {0} /\ Patience \in Nat \ {0} /\ Database \subseteq Urls /\ Granted \subseteq Urls
    /\ Settled \in Nat /\ Settled > 2 * Patience + Lifetime + 1
    /\ Oldest \in Nat /\ Oldest >= Patience
BY GatewayAssumption DEF Settled, Oldest

LEMMA TrueForLonger ==
    ASSUME DiscoveryType, NEW a \in Int, NEW b \in Int, a <= b, TrueFor(a)
    PROVE  TrueFor(b)
<1> SUFFICES ASSUME NEW u \in Urls, stable[u] > b PROVE Shown(u)
  BY DEF TrueFor
<1>1. stable[u] \in Int
  BY Constants DEF DiscoveryType
<1> QED BY <1>1 DEF TrueFor

\* _get_agents_info() keeps what is true, and misses nothing of it.
LEMMA DiscoveredIsTrue ==
    ASSUME DiscoveryType, NEW ans \in [Urls -> {<<>>} \cup Versions]
    PROVE  /\ Discovered(ans) \in [Clusters -> {<<>>} \cup (Urls \X Versions)]
           /\ \A c \in Clusters : Discovered(ans)[c] # <<>> =>
                 /\ ClusterOf[Discovered(ans)[c][1]] = c
                 /\ ans[Discovered(ans)[c][1]] # <<>>
                 /\ Discovered(ans)[c][2] = ans[Discovered(ans)[c][1]]
           /\ \A u \in Urls : ans[u] # <<>> /\ Accepted(u, ans[u]) => Discovered(ans)[ClusterOf[u]] # <<>>
<1> DEFINE found(c) == {u \in Urls : ClusterOf[u] = c /\ ans[u] # <<>> /\ Accepted(u, ans[u])}
           last(c) == CHOOSE u \in found(c) : \A w \in found(c) : Rank[w] <= Rank[u]
           D == Discovered(ans)
<1>1. D = [c \in Clusters |-> IF found(c) = {} THEN <<>> ELSE <<last(c), ans[last(c)]>>]
  BY DEF Discovered
<1>2. ASSUME NEW c \in Clusters, found(c) # {}
      PROVE  last(c) \in found(c)
  <2>1. found(c) \in (SUBSET Urls) \ {{}}
    BY <1>2
  <2>2. \E u \in found(c) : \A w \in found(c) : Rank[w] <= Rank[u]
    BY <2>1, GatewayAssumption
  <2> QED BY <2>2
<1>3. ASSUME NEW c \in Clusters
      PROVE  /\ found(c) = {} => D[c] = <<>>
             /\ found(c) # {} => /\ last(c) \in Urls /\ ClusterOf[last(c)] = c /\ ans[last(c)] # <<>>
                                 /\ D[c] = <<last(c), ans[last(c)]>>
  <2>1. D[c] = IF found(c) = {} THEN <<>> ELSE <<last(c), ans[last(c)]>>
    BY <1>1
  <2>2. found(c) # {} => last(c) \in Urls /\ ClusterOf[last(c)] = c /\ ans[last(c)] # <<>>
    BY <1>2
  <2> HIDE DEF D, last, found
  <2> QED BY <2>1, <2>2
<1>4. ASSUME NEW u \in Urls, ans[u] # <<>>, Accepted(u, ans[u])
      PROVE  D[ClusterOf[u]] # <<>>
  <2>1. ClusterOf[u] \in Clusters /\ found(ClusterOf[u]) # {}
    BY <1>4, GatewayAssumption
  <2> HIDE DEF D, last, found
  <2>2. \A a, b : <<a, b>> # <<>>
    OBVIOUS
  <2>3. D[ClusterOf[u]] = <<last(ClusterOf[u]), ans[last(ClusterOf[u])]>>
    BY <2>1, <1>3
  <2> QED BY <2>2, <2>3
<1>5. \A v \in {<<>>} \cup Versions : v # <<>> => v \in Versions
  OBVIOUS
<1> DEFINE f(c) == IF found(c) = {} THEN <<>> ELSE <<last(c), ans[last(c)]>>
<1>6. D \in [Clusters -> {<<>>} \cup (Urls \X Versions)]
  <2>1. ASSUME NEW c \in Clusters PROVE f(c) \in {<<>>} \cup (Urls \X Versions)
    <3>1. CASE found(c) = {}
      BY <3>1
    <3>2. CASE found(c) # {}
      <4>1. last(c) \in Urls /\ ans[last(c)] \in Versions
        BY <3>2, <1>3, <1>5
      <4> HIDE DEF last, found
      <4> QED BY <3>2, <4>1
    <3> QED BY <3>1, <3>2
  <2>2. D = [c \in Clusters |-> f(c)]
    BY <1>1
  <2> HIDE DEF f, D
  <2> QED BY <2>1, <2>2
<1>7. ASSUME NEW c \in Clusters, D[c] # <<>>
      PROVE  ClusterOf[D[c][1]] = c /\ ans[D[c][1]] # <<>> /\ D[c][2] = ans[D[c][1]]
  <2> HIDE DEF D, last, found, f
  <2>1. D[c] = <<last(c), ans[last(c)]>> /\ ClusterOf[last(c)] = c /\ ans[last(c)] # <<>>
    BY <1>3, <1>7
  <2> QED BY <2>1
<1> QED BY <1>4, <1>6, <1>7

\* Other requests only look at the agents and their clocks.
Others(r) ==
    \A q \in Requests \ {r} :
        /\ pc'[q] = pc[q] /\ kind'[q] = kind[q] /\ outcome'[q] = outcome[q] /\ warned'[q] = warned[q]
        /\ waited'[q] = waited[q] /\ waiting'[q] = waiting[q] /\ answers'[q] = answers[q]
        /\ reached'[q] = reached[q]

LEMMA OthersKeep ==
    ASSUME GatewayInv, NEW r \in Requests, Others(r), UNCHANGED <<state, version, stable>>,
           left > 0 => left' > 0, NEW q \in Requests \ {r}
    PROVE  RequestInv(q)'
<1>1. /\ pc'[q] = pc[q] /\ kind'[q] = kind[q] /\ outcome'[q] = outcome[q] /\ warned'[q] = warned[q]
      /\ waited'[q] = waited[q] /\ waiting'[q] = waiting[q] /\ answers'[q] = answers[q]
      /\ reached'[q] = reached[q] /\ RequestInv(q)
  BY DEF Others, GatewayInv
<1>2. ClockInv(q)'
  BY <1>1 DEF RequestInv, ClockInv
<1>3. PollInv(q)'
  BY <1>1 DEF RequestInv, PollInv, Current
<1>4. ListsInv(q)' /\ PostingInv(q)'
  BY <1>1 DEF RequestInv, ListsInv, PostingInv, Alone
<1>5. ListingInv(q)'
  BY <1>1 DEF RequestInv, ListingInv, Alone
<1>6. DoneInv(q)'
  BY <1>1 DEF RequestInv, DoneInv, SettledUp
<1> QED BY <1>2, <1>3, <1>4, <1>5, <1>6 DEF RequestInv

\* A step of a request that does not touch the discovery.
LEMMA StepKeeps ==
    ASSUME GatewayInv, NEW r \in Requests, Others(r), RequestType',
           UNCHANGED <<agents, left, state, version, stable>>,
           pc'[r] # "date" \/ pc[r] = "date", RequestInv(r)'
    PROVE  GatewayInv'
<1>1. DiscoveryInv'
  <2>1. DiscoveryType' /\ \A age : TrueFor(age)' <=> TrueFor(age)
    BY DEF GatewayInv, DiscoveryInv, DiscoveryType, TrueFor, Shown, Known
  <2>2. \A q \in Requests : pc'[q] = "date" => pc[q] = "date"
    BY DEF Others
  <2>3. left > 0 => TrueFor(Patience + Lifetime - left)'
    BY <2>1 DEF GatewayInv, DiscoveryInv
  <2>4. \A q \in Requests : pc'[q] = "date" => TrueFor(Patience)'
    BY <2>1, <2>2 DEF GatewayInv, DiscoveryInv
  <2> QED BY <2>1, <2>3, <2>4 DEF DiscoveryInv
<1>2. \A q \in Requests : RequestInv(q)'
  BY OthersKeep
<1> QED BY <1>1, <1>2 DEF GatewayInv

LEMMA NoAnswers == [u \in Urls |-> <<>>] \in [Urls -> {<<>>} \cup Versions]
OBVIOUS

\* A request that ends, and what is left of it.
LEMMA EndKeeps ==
    ASSUME KindInv, GatewayInv, NEW r \in Requests, NEW how, NEW alert, End(r, how, alert),
           UNCHANGED <<agents, left, state, version, stable, kind>>,
           reached' = reached \/ \E u : reached' = [reached EXCEPT ![r] = u],
           how = "ok" /\ kind[r] = "clusters" =>
               /\ {u \in Granted : SettledUp(u)} \subseteq reached'[r]
               /\ reached'[r] \subseteq Urls
               /\ \A u \in reached'[r] : stable[u] < Settled \/ state[u] = "up",
           how = "ok" /\ kind[r] = "login" /\ alert = FALSE =>
               {u \in Database : SettledUp(u)} \subseteq reached'[r]
    PROVE  GatewayInv'
<1>1. /\ reached' = [q \in Requests |-> reached'[q]] /\ \A q \in Requests \ {r} : reached'[q] = reached[q]
  <2>1. CASE reached' = reached
    BY <2>1 DEF GatewayInv, RequestType
  <2>2. CASE \E u : reached' = [reached EXCEPT ![r] = u]
    BY <2>2 DEF GatewayInv, RequestType
  <2> QED BY <2>1, <2>2
<1>2. RequestType'
  <2>1. /\ waited' = [waited EXCEPT ![r] = 0] /\ waiting' = [waiting EXCEPT ![r] = {}]
        /\ answers' = [answers EXCEPT ![r] = [u \in Urls |-> <<>>]] /\ warned' = [warned EXCEPT ![r] = alert]
    BY DEF End
  <2>4. 0 \in 0 .. Patience
    BY Constants
  <2>5. waited' \in [Requests -> 0 .. Patience]
    BY <2>1, <2>4 DEF GatewayInv, RequestType
  <2>2. warned' = [q \in Requests |-> warned'[q]] /\ waiting' = [q \in Requests |-> waiting'[q]]
    BY <2>1 DEF GatewayInv, RequestType
  <2>3. answers' \in [Requests -> [Urls -> {<<>>} \cup Versions]]
    BY <2>1, NoAnswers DEF GatewayInv, RequestType
  <2> QED BY <1>1, <2>2, <2>3, <2>5 DEF RequestType
<1>3. Others(r)
  BY <1>1 DEF GatewayInv, RequestType, KindInv, End, Others
<1>4. /\ pc'[r] = "done" /\ waited'[r] = 0 /\ outcome'[r] = how /\ warned'[r] = alert
      /\ kind'[r] = kind[r]
  BY DEF GatewayInv, RequestType, KindInv, End
<1>5. DoneInv(r)'
  BY <1>4 DEF DoneInv, SettledUp
<1>6. RequestInv(r)'
  BY <1>4, <1>5 DEF RequestInv, ClockInv, PollInv, ListsInv, ListingInv, PostingInv
<1> QED BY <1>2, <1>3, <1>4, <1>6, StepKeeps

\* A request at a step that has nothing to remember.
Plain == {"ask", "validate", "url", "version", "new_url", "new_version", "sent"}

LEMMA PlainKeeps ==
    ASSUME KindInv, GatewayInv, NEW r \in Requests, NEW p \in Plain, Others(r), RequestType',
           UNCHANGED <<agents, left, state, version, stable, outcome, reached>>,
           pc[r] \notin {"listing", "posting", "done"}, pc'[r] = p, p = "ask" => waited'[r] = 0
    PROVE  GatewayInv'
<1>1. reached[r] = {} /\ outcome[r] = "none"
  BY DEF GatewayInv, RequestInv, ClockInv, KindInv
<1>2. RequestInv(r)'
  BY <1>1 DEF Plain, RequestInv, ClockInv, PollInv, ListsInv, ListingInv, PostingInv, DoneInv
<1>3. p # "date"
  BY DEF Plain
<1> QED BY <1>2, <1>3, StepKeeps

LEMMA BeginKeeps ==
    ASSUME KindInv, GatewayInv, NEW r \in Requests, Begin(r)
    PROVE  GatewayInv'
<1>1. PICK k \in Uses[r] : kind' = [kind EXCEPT ![r] = k]
  BY DEF Begin
<1>2. /\ pc[r] = "idle" /\ pc' = [pc EXCEPT ![r] = "ask"]
      /\ UNCHANGED <<agents, left, state, version, stable, waited, waiting, answers, reached, outcome, warned>>
  BY DEF Begin, Environment
<1>3. Others(r) /\ RequestType' /\ pc'[r] = "ask"
  BY <1>1, <1>2 DEF Others, GatewayInv, RequestType, KindInv
<1>4. waited'[r] = 0
  BY <1>2 DEF GatewayInv, RequestInv, ClockInv
<1> QED BY <1>2, <1>3, <1>4, PlainKeeps DEF Plain

LEMMA RefusedKeeps ==
    ASSUME KindInv, GatewayInv, NEW r \in Requests, Refused(r)
    PROVE  GatewayInv'
BY EndKeeps DEF Refused, Environment, Asked

LEMMA CachedKeeps ==
    ASSUME KindInv, GatewayInv, NEW r \in Requests, Cached(r)
    PROVE  GatewayInv'
<1>1. /\ pc[r] = "ask" /\ left > 0 /\ pc' = [pc EXCEPT ![r] = after[r]]
      /\ UNCHANGED <<agents, left, state, version, stable, kind, waited, waiting, answers, reached,
                     outcome, warned>>
  BY DEF Cached, Environment, requestVars
<1>2. Others(r) /\ RequestType' /\ pc'[r] = after[r]
  BY <1>1 DEF Others, GatewayInv, RequestType, KindInv
<1>3. waited[r] = 0 /\ reached[r] = {} /\ outcome[r] = "none"
  BY <1>1 DEF GatewayInv, RequestInv, ClockInv, KindInv
<1>4. after[r] \in {"list", "login", "forced", "validate", "new_url", "new_version"}
  BY DEF KindInv, AfterSteps
<1>5. RequestInv(r)'
  BY <1>1, <1>2, <1>3, <1>4 DEF RequestInv, ClockInv, PollInv, ListsInv, ListingInv, PostingInv, DoneInv
<1> QED BY <1>1, <1>2, <1>4, <1>5, StepKeeps

LEMMA PollAllKeeps ==
    ASSUME KindInv, GatewayInv, NEW r \in Requests, pc[r] \in {"ask", "login"}, PollAll(r)
    PROVE  GatewayInv'
<1>1. /\ pc' = [pc EXCEPT ![r] = "poll"] /\ waiting' = [waiting EXCEPT ![r] = Urls]
      /\ waited' = [waited EXCEPT ![r] = 0] /\ answers' = [answers EXCEPT ![r] = [u \in Urls |-> <<>>]]
      /\ UNCHANGED <<agents, left, state, version, stable, kind, reached, outcome, warned>>
  BY DEF PollAll, Environment, Asked
<1>2. /\ waited' \in [Requests -> 0 .. Patience] /\ answers' \in [Requests -> [Urls -> {<<>>} \cup Versions]]
  <2>1. 0 \in 0 .. Patience
    BY Constants
  <2> QED BY <1>1, <2>1, NoAnswers DEF GatewayInv, RequestType
<1>3. Others(r) /\ RequestType' /\ pc'[r] = "poll" /\ waiting'[r] = Urls
  BY <1>1, <1>2 DEF Others, GatewayInv, RequestType, KindInv
<1>4. reached[r] = {} /\ outcome[r] = "none"
  BY DEF GatewayInv, RequestInv, ClockInv, KindInv
<1>5. RequestInv(r)'
  BY <1>1, <1>3, <1>4 DEF RequestInv, ClockInv, PollInv, ListsInv, ListingInv, PostingInv, DoneInv
<1> QED BY <1>1, <1>3, <1>5, StepKeeps

LEMMA PollAnswerKeeps ==
    ASSUME KindInv, GatewayInv, NEW r \in Requests, NEW u \in Urls, PollAnswer(r, u)
    PROVE  GatewayInv'
<1> DEFINE v == IF state[u] = "up" THEN version[u] ELSE <<>>
           p == IF waiting[r] = {u} THEN "store" ELSE "poll"
<1>1. /\ pc[r] = "poll" /\ u \in waiting[r]
      /\ pc' = [pc EXCEPT ![r] = p] /\ waiting' = [waiting EXCEPT ![r] = @ \ {u}]
      /\ answers' = [answers EXCEPT ![r][u] = v]
      /\ UNCHANGED <<agents, left, state, version, stable, kind, waited, reached, outcome, warned>>
  BY DEF PollAnswer, Environment, Asked
<1>2. v \in {<<>>} \cup Versions /\ Current(u, v)
  BY DEF GatewayInv, DiscoveryInv, DiscoveryType, Current
<1> HIDE DEF v
<1>3. /\ answers' \in [Requests -> [Urls -> {<<>>} \cup Versions]]
      /\ \A q \in Requests \ {r} : answers'[q] = answers[q]
      /\ answers'[r][u] = v /\ \A w \in Urls \ {u} : answers'[r][w] = answers[r][w]
  BY <1>1, <1>2 DEF GatewayInv, RequestType
<1>4. Others(r) /\ RequestType' /\ pc'[r] = p /\ waiting'[r] = waiting[r] \ {u}
  BY <1>1, <1>3 DEF Others, GatewayInv, RequestType, KindInv
<1>5. reached[r] = {} /\ outcome[r] = "none"
  BY <1>1 DEF GatewayInv, RequestInv, ClockInv, KindInv
<1>6. PollInv(r)'
  <2>1. p = "store" => waiting'[r] = {}
    BY <1>4
  <2>2. \A w \in Urls : w \notin waiting'[r] /\ stable'[w] > waited'[r] => Current(w, answers'[r][w])
    BY <1>1, <1>2, <1>3, <1>4 DEF GatewayInv, RequestInv, PollInv
  <2>3. \A w, x : Current(w, x)' <=> Current(w, x')
    BY <1>1 DEF Current
  <2> QED BY <1>1, <1>4, <2>1, <2>2 DEF PollInv, Current
<1>7. RequestInv(r)'
  BY <1>1, <1>4, <1>5, <1>6 DEF RequestInv, ClockInv, ListsInv, ListingInv, PostingInv, DoneInv
<1> QED BY <1>1, <1>4, <1>7, StepKeeps

LEMMA RaiseKeeps ==
    ASSUME KindInv, GatewayInv, NEW r \in Requests, PollTimeout(r) \/ PostTimeout(r)
    PROVE  GatewayInv'
<1>1. Raise(r, "failed") /\ UNCHANGED <<agents, left, state, version, stable, kind, reached>>
  BY DEF PollTimeout, PostTimeout, Environment, Asked
<1>2. CASE kind[r] = "login"
  BY <1>1, <1>2, EndKeeps DEF Raise
<1>3. CASE kind[r] # "login"
  BY <1>1, <1>3, EndKeeps DEF Raise
<1> QED BY <1>2, <1>3

\* The result of a poll replaces what was known: it is true of every agent that did
\* not change since the poll began.
LEMMA StoreAgentsKeeps ==
    ASSUME KindInv, GatewayInv, NEW r \in Requests, StoreAgents(r)
    PROVE  GatewayInv'
<1> DEFINE D == Discovered(answers[r])
<1>1. /\ pc[r] = "store" /\ agents' = D /\ pc' = [pc EXCEPT ![r] = "date"]
      /\ UNCHANGED <<left, state, version, stable, kind, waited, waiting, answers, reached, outcome, warned>>
  BY DEF StoreAgents, Environment, requestVars
<1>2. answers[r] \in [Urls -> {<<>>} \cup Versions] /\ waited[r] \in 0 .. Patience
      /\ DiscoveryType
  BY DEF GatewayInv, RequestType, DiscoveryInv
<1>3. /\ D \in [Clusters -> {<<>>} \cup (Urls \X Versions)]
      /\ \A c \in Clusters : D[c] # <<>> =>
             ClusterOf[D[c][1]] = c /\ answers[r][D[c][1]] # <<>> /\ D[c][2] = answers[r][D[c][1]]
      /\ \A u \in Urls : answers[r][u] # <<>> /\ Accepted(u, answers[r][u]) => D[ClusterOf[u]] # <<>>
  BY <1>2, DiscoveredIsTrue
<1> HIDE DEF D
<1>4. DiscoveryType'
  BY <1>1, <1>2, <1>3 DEF DiscoveryType, Known
<1>5. TrueFor(Patience)'
  <2> SUFFICES ASSUME NEW u \in Urls, stable[u] > Patience PROVE Shown(u)'
    BY <1>1 DEF TrueFor
  <2>1. stable[u] > waited[r]
    BY <1>2, Constants DEF DiscoveryType
  <2>2. Current(u, answers[r][u])
    BY <1>1, <2>1 DEF GatewayInv, RequestInv, PollInv
  <2>3. ASSUME NEW c \in Clusters, D[c] # <<>>, D[c][1] = u
        PROVE  state[u] = "up" /\ version[u] = D[c][2]
    BY <1>3, <2>2, <2>3 DEF Current
  <2>4. ASSUME state[u] = "up", Accepted(u, version[u])
        PROVE  ClusterOf[u] \in Clusters /\ D[ClusterOf[u]] # <<>>
    <3>1. answers[r][u] = version[u] /\ version[u] # <<>> /\ ClusterOf[u] \in Clusters
      BY <1>2, <2>2, <2>4, GatewayAssumption DEF Current, DiscoveryType
    <3> QED BY <1>3, <2>4, <3>1
  <2>5. Accepted(u, version[u])' <=> Accepted(u, version[u])
    BY <1>1 DEF Accepted
  <2> QED BY <1>1, <2>3, <2>4, <2>5 DEF Shown, Known
<1>6. DiscoveryInv'
  <2>1. left > 0 => Patience <= Patience + Lifetime - left /\ Patience + Lifetime - left \in Int
                    /\ Patience \in Int
    BY <1>2, Constants DEF DiscoveryType
  <2>2. (left > 0 => TrueFor(Patience + Lifetime - left))'
    <3> SUFFICES ASSUME left > 0, NEW u \in Urls, stable[u] > Patience + Lifetime - left PROVE Shown(u)'
      BY <1>1 DEF TrueFor
    <3>1. stable[u] > Patience
      BY <1>2, <2>1 DEF DiscoveryType
    <3> QED BY <1>1, <1>5, <3>1 DEF TrueFor
  <2>3. \A q \in Requests : pc'[q] = "date" => TrueFor(Patience)'
    BY <1>5
  <2> QED BY <1>4, <2>2, <2>3 DEF DiscoveryInv
<1>7. Others(r) /\ RequestType' /\ pc'[r] = "date"
  BY <1>1 DEF Others, GatewayInv, RequestType, KindInv
<1>8. reached[r] = {} /\ outcome[r] = "none"
  BY <1>1 DEF GatewayInv, RequestInv, ClockInv, KindInv
<1>9. RequestInv(r)'
  BY <1>1, <1>7, <1>8 DEF RequestInv, ClockInv, PollInv, ListsInv, ListingInv, PostingInv, DoneInv
<1>10. \A q \in Requests : RequestInv(q)'
  BY <1>1, <1>7, <1>9, OthersKeep
<1> QED BY <1>6, <1>7, <1>10 DEF GatewayInv

LEMMA StoreTimeoutKeeps ==
    ASSUME KindInv, GatewayInv, NEW r \in Requests, StoreTimeout(r)
    PROVE  GatewayInv'
<1>1. /\ pc[r] = "date" /\ left' = Lifetime /\ pc' = [pc EXCEPT ![r] = after[r]]
      /\ waited' = [waited EXCEPT ![r] = 0] /\ answers' = [answers EXCEPT ![r] = [u \in Urls |-> <<>>]]
      /\ UNCHANGED <<agents, state, version, stable, kind, waiting, reached, outcome, warned>>
  BY DEF StoreTimeout, Environment, Asked
<1>2. /\ waited' \in [Requests -> 0 .. Patience] /\ answers' \in [Requests -> [Urls -> {<<>>} \cup Versions]]
  <2>1. 0 \in 0 .. Patience
    BY Constants
  <2> QED BY <1>1, <2>1, NoAnswers DEF GatewayInv, RequestType
<1>3. Others(r) /\ RequestType' /\ pc'[r] = after[r] /\ waited'[r] = 0
  BY <1>1, <1>2 DEF Others, GatewayInv, RequestType, KindInv
<1>4. reached[r] = {} /\ outcome[r] = "none" /\ left' > 0
  BY <1>1, Constants DEF GatewayInv, RequestInv, ClockInv, KindInv
<1>5. after[r] \in {"list", "login", "forced", "validate", "new_url", "new_version"}
  BY DEF KindInv, AfterSteps
<1>6. RequestInv(r)'
  BY <1>1, <1>3, <1>4, <1>5 DEF RequestInv, ClockInv, PollInv, ListsInv, ListingInv, PostingInv, DoneInv
<1>7. \A q \in Requests : RequestInv(q)'
  BY <1>1, <1>3, <1>4, <1>6, OthersKeep
<1>8. DiscoveryInv'
  <2>1. DiscoveryType'
    BY <1>1, Constants DEF GatewayInv, DiscoveryInv, DiscoveryType, Known
  <2>2. \A age : TrueFor(age)' <=> TrueFor(age)
    BY <1>1 DEF TrueFor, Shown, Known
  <2>3. TrueFor(Patience) /\ Patience + Lifetime - left' = Patience
    BY <1>1, Constants DEF GatewayInv, DiscoveryInv
  <2> QED BY <2>1, <2>2, <2>3 DEF DiscoveryInv
<1> QED BY <1>3, <1>7, <1>8 DEF GatewayInv

----------------------------------------------------------------------------
(* The views *)

\* No listing and no login is at a step of the proxied requests, no listing at one
\* of the login, and no login at one of the listing.
LEMMA KindOfStep ==
    ASSUME KindInv, NEW r \in Requests
    PROVE  /\ pc[r] \in {"validate", "url", "version", "new_url", "new_version", "sent"} =>
                 kind[r] \notin {"login", "clusters"}
           /\ pc[r] \in {"login", "forced", "posting"} => kind[r] # "clusters"
           /\ pc[r] \in {"list", "lists", "listing"} => kind[r] # "login"
           /\ pc[r] # "done" => outcome[r] = "none"
BY DEF KindInv, At, Asking, LoginSteps, ListSteps

LEMMA ValidateKeeps ==
    ASSUME KindInv, GatewayInv, NEW r \in Requests, Validate(r)
    PROVE  GatewayInv'
<1>1. pc[r] = "validate" /\ UNCHANGED <<agents, left, state, version, stable>>
  BY DEF Validate, Environment
<1>2. PICK k \in {"proxy", "stream"} :
        \/ /\ kind' = [kind EXCEPT ![r] = k] /\ pc' = [pc EXCEPT ![r] = "url"]
           /\ UNCHANGED <<waited, waiting, answers, reached, outcome, warned>>
        \/ End(r, "not_found", FALSE) /\ UNCHANGED <<kind, reached>>
  BY DEF Validate, Asked
<1>3. CASE End(r, "not_found", FALSE) /\ UNCHANGED <<kind, reached>>
  BY <1>1, <1>3, EndKeeps
<1>4. CASE /\ kind' = [kind EXCEPT ![r] = k] /\ pc' = [pc EXCEPT ![r] = "url"]
           /\ UNCHANGED <<waited, waiting, answers, reached, outcome, warned>>
  <2>1. Others(r) /\ RequestType' /\ pc'[r] = "url"
    BY <1>4 DEF Others, GatewayInv, RequestType, KindInv
  <2> QED BY <1>1, <1>4, <2>1, PlainKeeps DEF Plain
<1> QED BY <1>2, <1>3, <1>4

LEMMA ReadRouteKeeps ==
    ASSUME KindInv, GatewayInv, NEW r \in Requests, ReadRoute(r)
    PROVE  GatewayInv'
<1>1. /\ pc[r] \in {"url", "version", "new_url", "new_version"}
      /\ UNCHANGED <<agents, left, state, version, stable, kind, reached>>
  BY DEF ReadRoute, Environment, Asked
<1>2. CASE End(r, "failed", FALSE)
  BY <1>1, <1>2, EndKeeps
<1>3. ASSUME NEW p \in {"version", "sent"}, NEW w, pc' = [pc EXCEPT ![r] = p],
             waiting' = [waiting EXCEPT ![r] = w], waited' = [waited EXCEPT ![r] = 0],
             UNCHANGED <<answers, outcome, warned>>
      PROVE  GatewayInv'
  <2>1. waited' \in [Requests -> 0 .. Patience]
    <3>1. 0 \in 0 .. Patience
      BY Constants
    <3> QED BY <1>3, <3>1 DEF GatewayInv, RequestType
  <2>2. Others(r) /\ RequestType' /\ pc'[r] = p /\ p \in Plain /\ p # "ask"
    BY <1>1, <1>3, <2>1 DEF Others, GatewayInv, RequestType, KindInv, Plain
  <2> QED BY <1>1, <1>3, <2>2, PlainKeeps
<1>4. \/ End(r, "failed", FALSE)
      \/ \E p \in {"version", "sent"} : \E w :
            /\ pc' = [pc EXCEPT ![r] = p]
            /\ waiting' = [waiting EXCEPT ![r] = w] /\ waited' = [waited EXCEPT ![r] = 0]
            /\ UNCHANGED <<answers, outcome, warned>>
  <2> DEFINE first == pc[r] \in {"url", "new_url"}
  <2>1. CASE first
    BY <2>1 DEF ReadRoute
  <2>2. CASE ~first
    BY <2>2 DEF ReadRoute
  <2> QED BY <2>1, <2>2
<1> QED BY <1>2, <1>3, <1>4

LEMMA RouteExpiredKeeps ==
    ASSUME KindInv, GatewayInv, NEW r \in Requests, RouteExpired(r)
    PROVE  GatewayInv'
<1>1. /\ pc[r] \in {"url", "version"}
      /\ UNCHANGED <<agents, left, state, version, stable, kind, reached>>
  BY DEF RouteExpired, Environment, Asked
<1>2. CASE End(r, "failed", FALSE)
  BY <1>1, <1>2, EndKeeps
<1>3. CASE /\ pc' = [pc EXCEPT ![r] = "ask"] /\ waited' = [waited EXCEPT ![r] = 0]
           /\ UNCHANGED <<waiting, answers, outcome, warned>>
  <2>1. waited' \in [Requests -> 0 .. Patience] /\ waited'[r] = 0
    <3>1. 0 \in 0 .. Patience
      BY Constants
    <3> QED BY <1>3, <3>1 DEF GatewayInv, RequestType
  <2>2. Others(r) /\ RequestType' /\ pc'[r] = "ask"
    BY <1>1, <1>3, <2>1 DEF Others, GatewayInv, RequestType, KindInv
  <2> QED BY <1>1, <1>3, <2>1, <2>2, PlainKeeps DEF Plain
<1> QED BY <1>2, <1>3 DEF RouteExpired

LEMMA AnswersKeep ==
    ASSUME KindInv, GatewayInv, NEW r \in Requests, Answer(r) \/ StreamAnswer(r)
    PROVE  GatewayInv'
<1>1. /\ pc[r] = "sent" /\ UNCHANGED <<agents, left, state, version, stable, kind>>
  BY DEF Answer, StreamAnswer, Environment, Asked
<1>2. kind[r] \notin {"login", "clusters"}
  BY <1>1, KindOfStep
<1>3. \E how, alert : End(r, how, alert)
  BY DEF Answer, StreamAnswer
<1>4. reached' = reached \/ \E u : reached' = [reached EXCEPT ![r] = u]
  BY DEF Answer, StreamAnswer
<1> QED BY <1>1, <1>2, <1>3, <1>4, EndKeeps

\* The thread is ready for another request.
LEMMA ReturnKeeps ==
    ASSUME KindInv, GatewayInv, NEW r \in Requests, Return(r)
    PROVE  GatewayInv'
<1>1. /\ pc[r] = "done" /\ pc' = [pc EXCEPT ![r] = "idle"] /\ reached' = [reached EXCEPT ![r] = {}]
      /\ outcome' = [outcome EXCEPT ![r] = "none"] /\ warned' = [warned EXCEPT ![r] = FALSE]
      /\ kind' = [kind EXCEPT ![r] = "proxy"]
      /\ UNCHANGED <<agents, left, state, version, stable, waited, waiting, answers>>
  BY DEF Return, Environment
<1>2. /\ Others(r) /\ RequestType' /\ pc'[r] = "idle" /\ reached'[r] = {} /\ outcome'[r] = "none"
      /\ waited'[r] = waited[r]
  BY <1>1 DEF Others, GatewayInv, RequestType, KindInv
<1>3. waited[r] = 0
  BY <1>1 DEF GatewayInv, RequestInv, ClockInv
<1>4. RequestInv(r)'
  BY <1>2, <1>3 DEF RequestInv, ClockInv, PollInv, ListsInv, ListingInv, PostingInv, DoneInv
<1> QED BY <1>1, <1>2, <1>4, StepKeeps

\* While the discovery is served, the agent that was there all along is in it.
LEMMA AloneIsKnown ==
    ASSUME GatewayInv, left > 0, NEW u \in Urls, Alone(u), stable[u] > Oldest
    PROVE  /\ ClusterOf[u] \in Known
           /\ agents[ClusterOf[u]][1] = u /\ agents[ClusterOf[u]][2] = version[u]
<1> DEFINE c == ClusterOf[u]
<1>1. DiscoveryType /\ TrueFor(Patience + Lifetime - left)
  BY DEF GatewayInv, DiscoveryInv
<1>2. stable[u] > Patience + Lifetime - left
  BY <1>1, Constants DEF DiscoveryType, Oldest
<1>3. Shown(u)
  BY <1>1, <1>2 DEF TrueFor
<1>4. c \in Known
  BY <1>3 DEF Shown, Alone
<1>5. agents[c] \in Urls \X Versions
  BY <1>1, <1>4 DEF DiscoveryType, Known
<1>6. agents[c][1] \in Urls /\ ClusterOf[agents[c][1]] = c
  BY <1>1, <1>4, <1>5 DEF DiscoveryType
<1>7. agents[c][1] = u
  BY <1>6 DEF Alone
<1> QED BY <1>3, <1>4, <1>7 DEF Shown

LEMMA ListAgentsKeeps ==
    ASSUME KindInv, GatewayInv, NEW r \in Requests, ListAgents(r)
    PROVE  GatewayInv'
<1> DEFINE urls == {agents[c][1] : c \in Known}
<1>1. /\ pc[r] = "list" /\ pc' = [pc EXCEPT ![r] = "lists"] /\ waiting' = [waiting EXCEPT ![r] = urls]
      /\ UNCHANGED <<agents, left, state, version, stable, kind, waited, answers, reached, outcome, warned>>
  BY DEF ListAgents, Environment, Asked
<1>2. left > 0 /\ waited[r] = 0 /\ reached[r] = {} /\ outcome[r] = "none"
  BY <1>1 DEF GatewayInv, RequestInv, ClockInv, KindInv
<1>3. \A u \in Urls : Alone(u) /\ stable[u] > Oldest + waited[r] => u \in urls
  <2> SUFFICES ASSUME NEW u \in Urls, Alone(u), stable[u] > Oldest + waited[r] PROVE u \in urls
    OBVIOUS
  <2>1. stable[u] > Oldest
    BY <1>2, Constants
  <2> QED BY <1>2, <2>1, AloneIsKnown
<1> HIDE DEF urls
<1>4. Others(r) /\ RequestType' /\ pc'[r] = "lists" /\ waiting'[r] = urls
  BY <1>1 DEF Others, GatewayInv, RequestType, KindInv
<1>5. ListsInv(r)'
  BY <1>1, <1>3, <1>4 DEF ListsInv, Alone, Accepted
<1>6. RequestInv(r)'
  BY <1>1, <1>2, <1>4, <1>5 DEF RequestInv, ClockInv, PollInv, ListingInv, PostingInv, DoneInv
<1> QED BY <1>1, <1>4, <1>6, StepKeeps

LEMMA ListKeeps ==
    ASSUME KindInv, GatewayInv, NEW r \in Requests, List(r)
    PROVE  GatewayInv'
<1> DEFINE named == {ClusterOf[u] : u \in waiting[r]}
           urls == {agents[c][1] : c \in named \cap Known}
           seen == Versioned(urls)
<1>1. /\ pc[r] = "lists" /\ UNCHANGED <<agents, left, state, version, stable, kind, reached>>
  BY DEF List, Environment, Asked
<1>2. CASE End(r, "failed", FALSE)
  BY <1>1, <1>2, EndKeeps
<1>3. CASE /\ waiting[r] = {} \/ left # 0
           /\ pc' = [pc EXCEPT ![r] = "listing"] /\ waiting' = [waiting EXCEPT ![r] = urls]
           /\ answers' = [answers EXCEPT ![r] = seen] /\ waited' = [waited EXCEPT ![r] = 0]
           /\ UNCHANGED <<outcome, warned>>
  <2>1. waited[r] \in Nat /\ waited[r] <= 1 /\ reached[r] = {} /\ outcome[r] = "none"
    <3>1. waited[r] \in 0 .. Patience /\ ClockInv(r)
      BY DEF GatewayInv, RequestType, RequestInv
    <3> QED BY <1>1, <3>1, KindOfStep, Constants DEF ClockInv
  <2>2. \A u \in Urls : Alone(u) /\ stable[u] > Oldest + 1 => u \in urls /\ seen[u] = version[u]
    <3> SUFFICES ASSUME NEW u \in Urls, Alone(u), stable[u] > Oldest + 1
                 PROVE  u \in urls /\ seen[u] = version[u]
      OBVIOUS
    <3>1. stable[u] > Oldest + waited[r] /\ stable[u] > Oldest
      BY <2>1, Constants DEF GatewayInv, DiscoveryInv, DiscoveryType
    <3>2. u \in waiting[r]
      BY <1>1, <3>1 DEF GatewayInv, RequestInv, ListsInv
    <3>5. left > 0
      BY <1>3, <3>2, Constants DEF GatewayInv, DiscoveryInv, DiscoveryType
    <3>3. ClusterOf[u] \in Known /\ agents[ClusterOf[u]][1] = u /\ agents[ClusterOf[u]][2] = version[u]
      BY <3>1, <3>5, AloneIsKnown
    <3>4. u \in urls
      BY <3>2, <3>3
    <3> QED BY <3>3, <3>4 DEF Versioned
  <2>3. seen \in [Urls -> {<<>>} \cup Versions]
    <3>1. ASSUME NEW u \in Urls, ClusterOf[u] \in Known
          PROVE  agents[ClusterOf[u]][2] \in Versions
      <4>1. agents[ClusterOf[u]] \in Urls \X Versions
        BY <3>1 DEF GatewayInv, DiscoveryInv, DiscoveryType, Known
      <4> QED BY <4>1
    <3> HIDE DEF urls
    <3> QED BY <3>1 DEF Versioned
  <2> HIDE DEF urls, seen
  <2>4. waited' \in [Requests -> 0 .. Patience] /\ waited'[r] = 0
    <3>1. 0 \in 0 .. Patience
      BY Constants
    <3> QED BY <1>3, <3>1 DEF GatewayInv, RequestType
  <2>5. /\ Others(r) /\ RequestType' /\ pc'[r] = "listing" /\ waiting'[r] = urls /\ answers'[r] = seen
    BY <1>1, <1>3, <2>3, <2>4 DEF Others, GatewayInv, RequestType, KindInv
  <2>6. ListingInv(r)'
    BY <1>1, <2>1, <2>2, <2>4, <2>5, Constants DEF ListingInv, Alone, Accepted
  <2>7. RequestInv(r)'
    BY <1>1, <1>3, <2>1, <2>5, <2>6 DEF RequestInv, ClockInv, PollInv, ListsInv, PostingInv, DoneInv
  <2> QED BY <1>1, <2>5, <2>7, StepKeeps
<1> QED BY <1>2, <1>3 DEF List

LEMMA ListAnswerKeeps ==
    ASSUME KindInv, GatewayInv, NEW r \in Requests, NEW u \in Urls, ListAnswer(r, u)
    PROVE  GatewayInv'
<1> DEFINE in == version[u] = answers[r][u] /\ (u \in Granted \/ ~HideDenied)
           now == IF in THEN reached[r] \cup {u} ELSE reached[r]
<1>1. /\ pc[r] = "listing" /\ u \in waiting[r] /\ state[u] = "up"
      /\ waiting' = [waiting EXCEPT ![r] = @ \ {u}] /\ reached' = [reached EXCEPT ![r] = now]
      /\ UNCHANGED <<agents, left, state, version, stable, pc, kind, waited, answers, outcome, warned>>
  BY DEF ListAnswer, Environment, Asked
<1>2. /\ u \in Granted /\ answers[r][u] = version[u] => u \in now
      /\ reached[r] \subseteq now /\ now \subseteq reached[r] \cup {u}
  OBVIOUS
<1> HIDE DEF now
<1>3. /\ Others(r) /\ RequestType' /\ pc'[r] = "listing"
      /\ waiting'[r] = waiting[r] \ {u} /\ reached'[r] = now
  BY <1>1 DEF Others, GatewayInv, RequestType, KindInv
<1>4. ListingInv(r) /\ outcome[r] = "none"
  BY <1>1 DEF GatewayInv, RequestInv, KindInv
<1>5. ListingInv(r)'
  BY <1>1, <1>2, <1>3, <1>4 DEF ListingInv, Alone, Accepted
<1>6. RequestInv(r)'
  BY <1>1, <1>3, <1>4, <1>5 DEF RequestInv, ClockInv, PollInv, ListsInv, PostingInv, DoneInv
<1> QED BY <1>1, <1>3, <1>6, StepKeeps

LEMMA ListErrorKeeps ==
    ASSUME KindInv, GatewayInv, NEW r \in Requests, NEW u \in Urls, ListError(r, u)
    PROVE  GatewayInv'
BY EndKeeps DEF ListError, Environment, Asked

\* Nothing is waited for: what was there all along is listed.
LEMMA ListedKeeps ==
    ASSUME KindInv, GatewayInv, NEW r \in Requests, Listed(r)
    PROVE  GatewayInv'
<1>1. /\ pc[r] = "listing" /\ waiting[r] = {} /\ End(r, "ok", FALSE)
      /\ UNCHANGED <<agents, left, state, version, stable, kind, reached>>
  BY DEF Listed, Environment, Asked
<1>2. kind[r] # "login" /\ ListingInv(r) /\ waited[r] \in 0 .. Patience
  BY <1>1, KindOfStep DEF GatewayInv, RequestInv, RequestType
<1>3. ASSUME NEW u \in Granted, SettledUp(u)
      PROVE  u \in reached[r]
  <2>1. Alone(u) /\ stable[u] > Oldest + 1 + waited[r]
    BY <1>2, <1>3, Constants DEF SettledUp, Alone, Settled, Oldest
  <2> QED BY <1>1, <1>2, <2>1 DEF ListingInv
<1>4. ASSUME NEW u \in reached[r]
      PROVE  stable[u] < Settled \/ state[u] = "up"
  <2>1. u \in Urls /\ (state[u] = "up" \/ stable[u] <= waited[r])
    BY <1>1, <1>2 DEF ListingInv
  <2>2. stable[u] \in Nat
    BY <2>1, Constants DEF GatewayInv, DiscoveryInv, DiscoveryType
  <2> QED BY <1>2, <2>1, <2>2, Constants
<1>5. reached[r] \subseteq Urls
  BY <1>1, <1>2 DEF ListingInv
<1> QED BY <1>1, <1>2, <1>3, <1>4, <1>5, EndKeeps

----------------------------------------------------------------------------
(* The login *)

LEMMA PostKeeps ==
    ASSUME KindInv, GatewayInv, NEW r \in Requests, pc[r] \in {"login", "forced"}, Post(r),
           UNCHANGED <<agents, left, state, version, stable>>
    PROVE  GatewayInv'
<1> DEFINE urls == {agents[c][1] : c \in Known} \cap Database
           seen == Versioned(urls)
<1>1. UNCHANGED <<kind, reached>> /\ kind[r] # "clusters"
  BY KindOfStep DEF Post, Asked
<1>2. CASE End(r, "ok", TRUE)
  BY <1>1, <1>2, EndKeeps
<1>3. CASE /\ pc' = [pc EXCEPT ![r] = "posting"] /\ waiting' = [waiting EXCEPT ![r] = urls]
           /\ answers' = [answers EXCEPT ![r] = seen] /\ UNCHANGED <<waited, outcome, warned>>
  <2>1. left > 0 /\ waited[r] \in 0 .. Patience /\ reached[r] = {} /\ outcome[r] = "none"
    BY KindOfStep DEF GatewayInv, RequestInv, ClockInv, RequestType
  <2>2. \A u \in Database : Alone(u) /\ stable[u] > Oldest + waited[r] => u \in urls
    <3> SUFFICES ASSUME NEW u \in Database, Alone(u), stable[u] > Oldest + waited[r] PROVE u \in urls
      OBVIOUS
    <3>1. u \in Urls /\ stable[u] > Oldest
      BY <2>1, Constants DEF GatewayInv, DiscoveryInv, DiscoveryType
    <3>2. ClusterOf[u] \in Known /\ agents[ClusterOf[u]][1] = u
      BY <2>1, <3>1, AloneIsKnown
    <3> QED BY <3>2
  <2>3. seen \in [Urls -> {<<>>} \cup Versions]
    <3>1. ASSUME NEW u \in Urls, ClusterOf[u] \in Known
          PROVE  agents[ClusterOf[u]][2] \in Versions
      <4>1. agents[ClusterOf[u]] \in Urls \X Versions
        BY <3>1 DEF GatewayInv, DiscoveryInv, DiscoveryType, Known
      <4> QED BY <4>1
    <3> HIDE DEF urls
    <3> QED BY <3>1 DEF Versioned
  <2> HIDE DEF urls, seen
  <2>4. Others(r) /\ RequestType' /\ pc'[r] = "posting" /\ waiting'[r] = urls
    BY <1>1, <1>3, <2>3 DEF Others, GatewayInv, RequestType, KindInv
  <2>5. PostingInv(r)'
    BY <1>3, <2>2, <2>4 DEF PostingInv, Alone, Accepted
  <2>6. RequestInv(r)'
    BY <1>1, <1>3, <2>1, <2>4, <2>5 DEF RequestInv, ClockInv, PollInv, ListsInv, ListingInv, DoneInv
  <2> QED BY <2>4, <2>6, StepKeeps
<1> QED BY <1>2, <1>3 DEF Post

LEMMA LoginAgentsKeeps ==
    ASSUME KindInv, GatewayInv, NEW r \in Requests, LoginAgents(r) \/ Forced(r)
    PROVE  GatewayInv'
<1>1. CASE LoginAgents(r)
  <2>1. CASE PollAll(r)
    BY <1>1, <2>1, PollAllKeeps DEF LoginAgents
  <2>2. CASE Post(r) /\ UNCHANGED <<agents, left, Environment>>
    BY <1>1, <2>2, PostKeeps DEF LoginAgents, Environment
  <2> QED BY <1>1, <2>1, <2>2 DEF LoginAgents
<1>2. CASE Forced(r)
  BY <1>2, PostKeeps DEF Forced, Environment
<1> QED BY <1>1, <1>2

\* The agent stored the user, or its failure is logged.
LEMMA PostAnswerKeeps ==
    ASSUME KindInv, GatewayInv, NEW r \in Requests, NEW u \in Urls, PostAnswer(r, u)
    PROVE  GatewayInv'
<1> DEFINE done == ServedBy(u, answers[r][u], {<<"POST", "users/cache">>})
           now == IF done THEN reached[r] \cup {u} ELSE reached[r]
           alert == warned[r] \/ ~done
<1>1. /\ pc[r] = "posting" /\ waiting' = [waiting EXCEPT ![r] = @ \ {u}]
      /\ reached' = [reached EXCEPT ![r] = now] /\ warned' = [warned EXCEPT ![r] = alert]
      /\ UNCHANGED <<agents, left, state, version, stable, pc, kind, waited, answers, outcome>>
  BY DEF PostAnswer, Environment, Asked
<1>2. (u \in now \/ alert) /\ reached[r] \subseteq now /\ (warned[r] => alert)
  BY Zenon
<1> HIDE DEF now, alert
<1>3. /\ Others(r) /\ RequestType' /\ pc'[r] = "posting" /\ waiting'[r] = waiting[r] \ {u}
      /\ reached'[r] = now /\ warned'[r] = alert
  BY <1>1 DEF Others, GatewayInv, RequestType, KindInv
<1>4. PostingInv(r) /\ outcome[r] = "none"
  BY <1>1 DEF GatewayInv, RequestInv, KindInv
<1>5. PostingInv(r)'
  BY <1>1, <1>2, <1>3, <1>4 DEF PostingInv, Alone, Accepted
<1>6. RequestInv(r)'
  BY <1>1, <1>3, <1>4, <1>5 DEF RequestInv, ClockInv, PollInv, ListsInv, ListingInv, DoneInv
<1> QED BY <1>1, <1>3, <1>6, StepKeeps

\* Nothing is waited for: the user is where a database was all along.
LEMMA LoggedInKeeps ==
    ASSUME KindInv, GatewayInv, NEW r \in Requests, LoggedIn(r)
    PROVE  GatewayInv'
<1>1. /\ pc[r] = "posting" /\ waiting[r] = {} /\ End(r, "ok", warned[r])
      /\ UNCHANGED <<agents, left, state, version, stable, kind, reached>>
  BY DEF LoggedIn, Environment, Asked
<1>2. kind[r] # "clusters" /\ PostingInv(r) /\ waited[r] \in 0 .. Patience
  BY <1>1, KindOfStep DEF GatewayInv, RequestInv, RequestType
<1>3. ASSUME NEW u \in Database, SettledUp(u), warned[r] = FALSE
      PROVE  u \in reached[r]
  <2>1. Alone(u) /\ stable[u] > Oldest + waited[r]
    BY <1>2, <1>3, Constants DEF SettledUp, Alone, Settled, Oldest
  <2> QED BY <1>1, <1>2, <1>3, <2>1 DEF PostingInv
<1> QED BY <1>1, <1>2, <1>3, EndKeeps

----------------------------------------------------------------------------
(* The agents and the time *)

LEMMA AgentChangesKeep ==
    ASSUME GatewayInv, NEW u \in Urls, AgentChanges(u)
    PROVE  GatewayInv'
<1>1. PICK s \in {"up", "down", "hangs"}, v \in Releases[u] :
        state' = [state EXCEPT ![u] = s] /\ version' = [version EXCEPT ![u] = v]
  BY DEF AgentChanges
<1>2. /\ stable' = [stable EXCEPT ![u] = 0]
      /\ UNCHANGED <<agents, left, pc, kind, waited, waiting, answers, reached, outcome, warned>>
  BY DEF AgentChanges, requestVars
<1>3. v \in Versions
  BY GatewayAssumption
<1>4. DiscoveryType'
  BY <1>1, <1>2, <1>3, Constants DEF GatewayInv, DiscoveryInv, DiscoveryType, Known
<1>5. \A w \in Urls \ {u} :
        /\ stable'[w] = stable[w] /\ state'[w] = state[w] /\ version'[w] = version[w]
        /\ Alone(w)' <=> Alone(w)
        /\ Shown(w)' <=> Shown(w)
        /\ \A x : Current(w, x)' <=> Current(w, x)
        /\ SettledUp(w)' <=> SettledUp(w)
  <2> SUFFICES ASSUME NEW w \in Urls \ {u}
               PROVE  /\ stable'[w] = stable[w] /\ state'[w] = state[w] /\ version'[w] = version[w]
                      /\ Alone(w)' <=> Alone(w)
                      /\ Shown(w)' <=> Shown(w)
                      /\ \A x : Current(w, x)' <=> Current(w, x)
                      /\ SettledUp(w)' <=> SettledUp(w)
    OBVIOUS
  <2>1. stable'[w] = stable[w] /\ state'[w] = state[w] /\ version'[w] = version[w]
    BY <1>1, <1>2 DEF GatewayInv, DiscoveryInv, DiscoveryType
  <2>2. Accepted(w, version[w])' <=> Accepted(w, version[w])
    BY <2>1 DEF Accepted
  <2> QED BY <1>2, <2>1, <2>2 DEF Alone, Shown, Current, SettledUp, Known
<1>6. stable'[u] = 0
  BY <1>2 DEF GatewayInv, DiscoveryInv, DiscoveryType
<1>7. \A age \in Nat : TrueFor(age) => TrueFor(age)'
  BY <1>5, <1>6 DEF TrueFor
<1>8. DiscoveryInv'
  BY <1>2, <1>4, <1>7, Constants DEF GatewayInv, DiscoveryInv, DiscoveryType
<1>9. RequestType'
  BY <1>2 DEF GatewayInv, RequestType
<1>10. ASSUME NEW r \in Requests PROVE RequestInv(r)'
  <2>1. RequestInv(r) /\ waited[r] \in 0 .. Patience
    BY DEF GatewayInv, RequestType
  <2>2. ClockInv(r)'
    BY <1>2, <2>1 DEF RequestInv, ClockInv
  <2>3. PollInv(r)'
    BY <1>2, <1>5, <1>6, <2>1, Constants DEF RequestInv, PollInv
  <2>4. ListsInv(r)' /\ PostingInv(r)'
    BY <1>2, <1>5, <1>6, <2>1, Constants DEF RequestInv, ListsInv, PostingInv
  <2>5. ListingInv(r)'
    BY <1>2, <1>5, <1>6, <2>1, Constants DEF RequestInv, ListingInv
  <2>6. ~SettledUp(u)' /\ Settled > 0
    BY <1>6, Constants DEF SettledUp
  <2>7. \A w \in Urls : SettledUp(w)' => SettledUp(w)
    BY <1>5, <2>6
  <2>8. \A w \in Urls : (stable[w] < Settled \/ state[w] = "up") => (stable[w] < Settled \/ state[w] = "up")'
    BY <1>5, <1>6, <2>6
  <2>9. DoneInv(r)'
    BY <1>2, <2>1, <2>7, <2>8, Constants DEF RequestInv, DoneInv
  <2> QED BY <2>2, <2>3, <2>4, <2>5, <2>9 DEF RequestInv
<1> QED BY <1>8, <1>9, <1>10 DEF GatewayInv

\* The clocks: what was true of an agent that had not changed for some time is true
\* of it an instant later, an instant more.
LEMMA TickKeeps ==
    ASSUME KindInv, GatewayInv, Tick
    PROVE  GatewayInv'
<1>1. /\ left' = IF left = 0 THEN 0 ELSE left - 1
      /\ stable' = [u \in Urls |-> Least(stable[u] + 1, Settled)]
      /\ waited' = [r \in Requests |-> IF Waits(r) \/ Delayed(r) THEN waited[r] + 1 ELSE waited[r]]
      /\ UNCHANGED <<agents, state, version, pc, kind, waiting, answers, reached, outcome, warned>>
  BY DEF Tick
<1>2. ASSUME NEW u \in Urls
      PROVE  /\ stable[u] \in Nat /\ stable'[u] \in 0 .. Settled /\ stable'[u] <= stable[u] + 1
             /\ stable[u] <= Settled /\ (stable[u] = Settled => stable'[u] = Settled)
  BY <1>1, Constants DEF GatewayInv, DiscoveryInv, DiscoveryType, Least
<1>3. ASSUME NEW r \in Requests
      PROVE  /\ waited[r] \in Nat
             /\ \/ pc[r] \in {"idle", "ask"} /\ waited'[r] = waited[r]
                \/ /\ pc[r] \in {"poll", "sent", "listing", "posting"}
                   /\ waited[r] < Patience /\ waited'[r] = waited[r] + 1
                \/ pc[r] \in {"url", "version", "lists"} /\ waited[r] = 0 /\ waited'[r] = 1
  <2>1. waited[r] \in Nat
    BY Constants DEF GatewayInv, RequestType
  <2>2. \/ pc[r] \in {"idle", "ask"}
        \/ Waits(r) /\ waited[r] < Patience
        \/ Delayed(r) /\ waited[r] = 0
    BY DEF Tick
  <2> QED BY <1>1, <2>1, <2>2 DEF Waits, Delayed
<1>4. \A u \in Urls : /\ Alone(u)' <=> Alone(u)
                      /\ Shown(u)' <=> Shown(u)
                      /\ \A v : Current(u, v)' <=> Current(u, v)
  BY <1>1 DEF Alone, Shown, Current, Accepted, Known
<1>5. DiscoveryType'
  <2>1. stable' \in [Urls -> 0 .. Settled]
    BY <1>1, <1>2
  <2>2. left' \in 0 .. Lifetime
    BY <1>1, Constants DEF GatewayInv, DiscoveryInv, DiscoveryType
  <2> QED BY <1>1, <2>1, <2>2 DEF GatewayInv, DiscoveryInv, DiscoveryType, Known
<1>6. (left > 0 => TrueFor(Patience + Lifetime - left))'
  <2> SUFFICES ASSUME left' > 0, NEW u \in Urls, stable'[u] > Patience + Lifetime - left'
               PROVE  Shown(u)'
    BY DEF TrueFor
  <2>1. left \in Nat /\ left > 0 /\ left' = left - 1
    BY <1>1, Constants DEF GatewayInv, DiscoveryInv, DiscoveryType
  <2>2. stable[u] > Patience + Lifetime - left
    BY <1>2, <2>1, Constants
  <2> QED BY <1>4, <2>1, <2>2 DEF GatewayInv, DiscoveryInv, TrueFor
<1>7. DiscoveryInv'
  BY <1>1, <1>3, <1>5, <1>6 DEF DiscoveryInv
<1>8. RequestType'
  <2>1. \A r \in Requests : waited'[r] \in 0 .. Patience
    BY <1>3, Constants DEF GatewayInv, RequestType
  <2>2. waited' \in [Requests -> 0 .. Patience]
    BY <1>1, <2>1
  <2> QED BY <1>1, <2>2 DEF GatewayInv, RequestType
<1>9. ASSUME NEW r \in Requests PROVE RequestInv(r)'
  <2>1. RequestInv(r)
    BY DEF GatewayInv
  <2>2. ClockInv(r)'
    BY <1>1, <1>3, <2>1 DEF RequestInv, ClockInv
  <2>3. PollInv(r)'
    BY <1>1, <1>2, <1>3, <1>4, <2>1 DEF RequestInv, PollInv
  <2>4. ListsInv(r)'
    BY <1>1, <1>2, <1>3, <1>4, <2>1, Constants DEF RequestInv, ListsInv
  <2>5. PostingInv(r)'
    BY <1>1, <1>2, <1>3, <1>4, <2>1, Constants DEF RequestInv, PostingInv
  <2>6. ListingInv(r)'
    BY <1>1, <1>2, <1>3, <1>4, <2>1, Constants DEF RequestInv, ListingInv
  <2>7. DoneInv(r)'
    <3>1. outcome[r] = "none"
      BY <1>3 DEF KindInv
    <3> QED BY <1>1, <3>1 DEF DoneInv
  <2> QED BY <2>2, <2>3, <2>4, <2>5, <2>6, <2>7 DEF RequestInv
<1> QED BY <1>7, <1>8, <1>9 DEF GatewayInv

LEMMA InitGatewayInv == Init => GatewayInv
<1> SUFFICES ASSUME Init PROVE GatewayInv
  OBVIOUS
<1>1. DiscoveryType
  <2>1. agents \in [Clusters -> {<<>>} \cup (Urls \X Versions)] /\ Known = {}
    BY DEF Init, Known
  <2>2. left \in 0 .. Lifetime /\ stable \in [Urls -> 0 .. Settled]
    BY Constants DEF Init
  <2> QED BY <2>1, <2>2 DEF Init, DiscoveryType
<1>2. DiscoveryInv
  BY <1>1 DEF Init, DiscoveryInv
<1>3. RequestType
  <2>1. waited \in [Requests -> 0 .. Patience]
    BY Constants DEF Init
  <2>2. answers \in [Requests -> [Urls -> {<<>>} \cup Versions]]
    BY NoAnswers DEF Init
  <2> QED BY <2>1, <2>2 DEF Init, RequestType
<1>4. ASSUME NEW r \in Requests PROVE RequestInv(r)
  <2>1. pc[r] = "idle" /\ outcome[r] = "none" /\ waited[r] = 0 /\ reached[r] = {}
    BY DEF Init
  <2> QED BY <2>1 DEF RequestInv, ClockInv, PollInv, ListsInv, ListingInv, PostingInv, DoneInv
<1> QED BY <1>2, <1>3, <1>4 DEF GatewayInv

LEMMA GatewayInvStep ==
    ASSUME KindInv, GatewayInv, [Next]_vars
    PROVE  GatewayInv'
<1>1. ASSUME NEW r \in Requests, Step(r)
      PROVE  GatewayInv'
  <2>1. CASE \E u \in Urls : PollAnswer(r, u) \/ ListAnswer(r, u) \/ ListError(r, u) \/ PostAnswer(r, u)
    BY <2>1, PollAnswerKeeps, ListAnswerKeeps, ListErrorKeeps, PostAnswerKeeps
  <2>2. CASE Cached(r) \/ Poll(r) \/ PollTimeout(r) \/ PostTimeout(r) \/ StoreAgents(r) \/ StoreTimeout(r)
    <3>1. CASE Poll(r)
      BY <3>1, PollAllKeeps DEF Poll
    <3>2. CASE PollTimeout(r) \/ PostTimeout(r)
      BY <3>2, RaiseKeeps
    <3> QED BY <2>2, <3>1, <3>2, CachedKeeps, StoreAgentsKeeps, StoreTimeoutKeeps
  <2>3. CASE Validate(r) \/ ReadRoute(r) \/ RouteExpired(r) \/ Answer(r) \/ StreamAnswer(r) \/ Return(r)
    BY <2>3, ValidateKeeps, ReadRouteKeeps, RouteExpiredKeeps, AnswersKeep, ReturnKeeps
  <2>4. CASE ListAgents(r) \/ List(r) \/ Listed(r) \/ LoginAgents(r) \/ Forced(r) \/ LoggedIn(r)
    BY <2>4, ListAgentsKeeps, ListKeeps, ListedKeeps, LoginAgentsKeeps, LoggedInKeeps
  <2> QED BY <1>1, <2>1, <2>2, <2>3, <2>4, Zenon DEF Step
<1>2. CASE UNCHANGED vars
  <2>1. UNCHANGED <<agents, left, state, version, stable, pc, kind, waited, waiting, answers, reached,
                    outcome, warned>>
    BY <1>2 DEF vars, requestVars
  <2> QED BY <2>1 DEF GatewayInv, DiscoveryInv, DiscoveryType, TrueFor, Shown, Known, RequestType, RequestInv,
               ClockInv, PollInv, Current, ListsInv, ListingInv, PostingInv, Alone, DoneInv, SettledUp
<1> QED BY <1>1, <1>2, BeginKeeps, RefusedKeeps, AgentChangesKeep, TickKeeps, Zenon DEF Next

\* What is known of the agents, and what each request has learnt of them, stays as
\* true as its age allows, in every order of the threads, the agents and the clock.
THEOREM GatewayInvariance == Spec => [](KindInv /\ GatewayInv)
BY InitKindInv, KindInvStep, InitGatewayInv, GatewayInvStep, PTL DEF Spec

\* What refresh_agents() serves from the cache is true of every agent that has not
\* changed for the lifetime of the cache and one timeout of a client, however the
\* polls of several threads overtake each other.
THEOREM KnownAgentsAreTrue == Spec => []StableAgentsAreKnown
<1>1. KindInv /\ GatewayInv => StableAgentsAreKnown
  <2> SUFFICES ASSUME GatewayInv, left > 0, NEW u \in Urls, stable[u] > Lifetime + Patience
               PROVE  Shown(u)
    BY DEF StableAgentsAreKnown, Shown
  <2>1. stable[u] \in Nat /\ left \in Nat
    BY Constants DEF GatewayInv, DiscoveryInv, DiscoveryType
  <2>2. stable[u] > Patience + Lifetime - left
    BY <2>1, Constants
  <2> QED BY <2>2 DEF GatewayInv, DiscoveryInv, TrueFor
<1> QED BY <1>1, GatewayInvariance, PTL

\* A login that logged no warning stored the user on every agent with a database that
\* was there all along (async_cache_user_on_agents).
THEOREM LoginsReachAgents == Spec => []LoginReachesAgents
<1>1. KindInv /\ GatewayInv => LoginReachesAgents
  BY DEF GatewayInv, RequestInv, DoneInv, LoginReachesAgents
<1> QED BY <1>1, GatewayInvariance, PTL

\* The listing of the clusters that succeeded misses none of those that were there all
\* along, and has none that was not (clusters() and get_cluster()).
THEOREM ListingsAreComplete == Spec => []ListingIsComplete
<1>1. KindInv /\ GatewayInv => ListingIsComplete
  BY DEF GatewayInv, RequestInv, DoneInv, ListingIsComplete
<1> QED BY <1>1, GatewayInvariance, PTL
=============================================================================
