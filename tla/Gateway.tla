------------------------------- MODULE Gateway -------------------------------
(***************************************************************************)
(* The gateway between the browsers and the agents: discovery of the agents *)
(* with its cache, proxied requests, streams, the listing of the clusters    *)
(* and the login (slurmweb/apps/gateway.py, slurmweb/views/gateway.py).      *)
(*                                                                         *)
(* Each request runs in a thread of its own; its coroutines run in an event  *)
(* loop of that thread. Times are kept as differences: what is left of the   *)
(* cache, how long a request has waited, how long an agent has not changed.  *)
(***************************************************************************)
EXTENDS Integers, Sequences, FiniteSets, GatewayRoutes

CONSTANTS
    Requests, Uses,  \* threads of the gateway, what each is asked
    Urls, Rank,      \* agents of the configuration and their order in it
    Clusters, ClusterOf,
    Versions, Minimum,              \* API versions, sequences of numbers
    Releases,        \* versions each agent may run
    RacksDBVersion, RacksDBMinimum, \* <<>> where RacksDB is disabled
    Database,        \* agents with the database support
    Granted,         \* agents on which the user has some action
    HideDenied,      \* setting ui.hide_denied
    Lifetime,        \* of the discovery, 300 seconds
    Patience,        \* timeout of the HTTP clients, 300 seconds
    MaxChanges       \* bound on the changes of the agents

ASSUME GatewayAssumption ==
    /\ Rank \in [Urls -> Nat] /\ \A u, w \in Urls : Rank[u] = Rank[w] => u = w
    /\ \A S \in (SUBSET Urls) \ {{}} : \E u \in S : \A w \in S : Rank[w] <= Rank[u]
    /\ ClusterOf \in [Urls -> Clusters]
    /\ Versions \subseteq Seq(Nat) \ {<<>>} /\ Minimum \in Seq(Nat) /\ RacksDBMinimum \in Seq(Nat)
    /\ Releases \in [Urls -> SUBSET Versions]
    /\ RacksDBVersion \in [Urls -> Seq(Nat)]
    /\ Database \subseteq Urls /\ Granted \subseteq Urls /\ HideDenied \in BOOLEAN
    /\ Uses \in [Requests -> SUBSET {"proxy", "clusters", "login"}]
    /\ MaxChanges \in Nat /\ Lifetime \in Nat \ {0} /\ Patience \in Nat \ {0}

VARIABLES
    agents,    \* _agents: <<url, version>> of a cluster, <<>> when it has none
    left,      \* what is left before _agents_timeout
    state, version,      \* of each agent
    changes,   \* how many there were
    stable,    \* how long each agent has not changed, up to Settled
    pc, kind, target,    \* of each request
    after,     \* where the request goes on once it has the agents
    waited,    \* how long it has waited for agents
    waiting,   \* agents it waits for
    answers,   \* versions they answered, <<>> without one
    route,     \* <<url>> then <<url, version>>, as they are read
    reached,   \* agents that did what was asked
    outcome, warned

requestVars == <<kind, target, after, waited, waiting, answers, route, reached, outcome, warned>>
vars == <<agents, left, state, version, changes, stable, pc, requestVars>>

Kinds == {"proxy", "stream", "clusters", "login"}
\* A discovery, its use and the requests that follow it are over.
Settled == Lifetime + 2 * Patience + 2
Least(a, b) == IF a < b THEN a ELSE b

TypeOK ==
    /\ agents \in [Clusters -> {<<>>} \cup (Urls \X Versions)]
    /\ left \in 0..Lifetime
    /\ state \in [Urls -> {"up", "down", "hangs"}] /\ version \in [Urls -> Versions]
    /\ changes \in 0..MaxChanges /\ stable \in [Urls -> 0..Settled]
    /\ pc \in [Requests -> {"idle", "ask", "poll", "store", "date", "validate", "url", "version", "new_url",
                            "new_version", "sent", "list", "lists", "listing", "login", "forced", "posting", "done"}]
    /\ kind \in [Requests -> Kinds] /\ target \in [Requests -> Clusters]
    /\ waited \in [Requests -> 0..Patience]
    /\ waiting \in [Requests -> SUBSET Urls]
    /\ answers \in [Requests -> [Urls -> {<<>>} \cup Versions]]
    /\ reached \in [Requests -> SUBSET Urls]
    /\ outcome \in [Requests -> {"none", "ok", "failed", "unreachable", "not_found", "refused",
                                "event"}]
    /\ warned \in [Requests -> BOOLEAN]

Init ==
    /\ agents = [c \in Clusters |-> <<>>] /\ left = 0
    /\ state \in [Urls -> {"up", "down", "hangs"}] /\ version \in {f \in [Urls -> Versions] : \A u \in Urls : f[u] \in Releases[u]}
    /\ changes = 0 /\ stable = [u \in Urls |-> Settled]
    /\ pc = [r \in Requests |-> "idle"]
    /\ kind = [r \in Requests |-> "proxy"] /\ target \in [Requests -> {CHOOSE c \in Clusters : TRUE}]
    /\ after = [r \in Requests |-> "validate"]
    /\ waited = [r \in Requests |-> 0] /\ waiting = [r \in Requests |-> {}]
    /\ answers = [r \in Requests |-> [u \in Urls |-> <<>>]]
    /\ route = [r \in Requests |-> <<>>] /\ reached = [r \in Requests |-> {}]
    /\ outcome = [r \in Requests |-> "none"] /\ warned = [r \in Requests |-> FALSE]

----------------------------------------------------------------------------
(* Versions *)

\* version_greater_or_equal() on numeric parts.
VersionGE(reference, given) ==
    LET common == Least(Len(reference), Len(given))
        differs == {n \in 1..common : reference[n] # given[n]}
    IN IF differs = {} THEN Len(given) >= Len(reference)
       ELSE LET first == CHOOSE n \in differs : \A k \in differs : n <= k
            IN given[first] >= reference[first]

\* _get_agent_info() keeps the agent.
Accepted(u, v) ==
    /\ VersionGE(Minimum, v)
    /\ RacksDBVersion[u] # <<>> => VersionGE(RacksDBMinimum, RacksDBVersion[u])

\* _get_agents_info(): of two agents of a cluster, the last one.
Discovered(ans) ==
    [c \in Clusters |->
        LET found == {u \in Urls : ClusterOf[u] = c /\ ans[u] # <<>> /\ Accepted(u, ans[u])}
        IN IF found = {} THEN <<>>
           ELSE LET last == CHOOSE u \in found : \A w \in found : Rank[w] <= Rank[u]
                IN <<last, ans[last]>>]

Known == {c \in Clusters : agents[c] # <<>>}

----------------------------------------------------------------------------
(* The requests *)

\* The request ends; nothing of it but what it did is kept.
End(r, how, alert) ==
    /\ pc' = [pc EXCEPT ![r] = "done"]
    /\ outcome' = [outcome EXCEPT ![r] = how]
    /\ warned' = [warned EXCEPT ![r] = alert]
    /\ after' = [after EXCEPT ![r] = "validate"]
    /\ waited' = [waited EXCEPT ![r] = 0] /\ waiting' = [waiting EXCEPT ![r] = {}]
    /\ answers' = [answers EXCEPT ![r] = [u \in Urls |-> <<>>]]
    /\ route' = [route EXCEPT ![r] = <<>>]

\* Without the except of login(), or with one that does not log.
RaiseAlways(r, error) == End(r, error, warned[r])
RaiseQuietly(r, error) == IF kind[r] = "login" THEN End(r, "ok", FALSE) ELSE End(r, error, warned[r])

\* An exception: the login logs it, the other views answer HTTP/500.
Raise(r, error) ==
    IF kind[r] = "login" THEN End(r, "ok", TRUE) ELSE End(r, error, warned[r])

Environment == <<state, version, changes, stable>>
Asked == <<kind, target>>

\* A request of a user. What it asks of which cluster, streamed or not, is looked
\* at from Validate on.
Begin(r) ==
    /\ pc[r] = "idle"
    /\ \E k \in Uses[r] :
        /\ kind' = [kind EXCEPT ![r] = k]
        /\ after' = [after EXCEPT ![r] = CASE k = "clusters" -> "list" [] k = "login" -> "login"
                                           [] OTHER -> "validate"]
    /\ pc' = [pc EXCEPT ![r] = "ask"]
    /\ UNCHANGED <<agents, left, Environment, target, waited, waiting, answers, route, reached, outcome,
                   warned>>

\* LDAPAuthenticationError: HTTP/401.
Refused(r) ==
    /\ pc[r] = "ask" /\ after[r] = "login"
    /\ End(r, "refused", FALSE)
    /\ UNCHANGED <<agents, left, Environment, Asked, reached>>

\* refresh_agents(): what is known is returned until the timeout.
Cached(r) ==
    /\ pc[r] = "ask" /\ left > 0
    /\ pc' = [pc EXCEPT ![r] = after[r]]
    /\ UNCHANGED <<agents, left, Environment, requestVars>>

PollAll(r) ==
    /\ pc' = [pc EXCEPT ![r] = "poll"]
    /\ waiting' = [waiting EXCEPT ![r] = Urls] /\ waited' = [waited EXCEPT ![r] = 0]
    /\ answers' = [answers EXCEPT ![r] = [u \in Urls |-> <<>>]]
    /\ UNCHANGED <<agents, left, Environment, Asked, route, reached, outcome, warned>>

Poll(r) == pc[r] = "ask" /\ left = 0 /\ PollAll(r) /\ UNCHANGED after

\* One agent answers, or refuses the connection.
PollAnswer(r, u) ==
    /\ pc[r] = "poll" /\ u \in waiting[r] /\ state[u] # "hangs"
    /\ answers' = [answers EXCEPT ![r][u] = IF state[u] = "up" THEN version[u] ELSE <<>>]
    /\ waiting' = [waiting EXCEPT ![r] = @ \ {u}]
    /\ pc' = [pc EXCEPT ![r] = IF waiting[r] = {u} THEN "store" ELSE "poll"]
    /\ UNCHANGED <<agents, left, Environment, Asked, after, waited, route, reached, outcome, warned>>

\* A client without timeout.
PollForever(r) == r \notin Requests /\ UNCHANGED vars

\* asyncio.TimeoutError is not among the errors _get_agent_info() handles: the
\* whole gather() fails.
PollTimeout(r) ==
    /\ pc[r] = "poll" /\ waiting[r] # {} /\ waited[r] = Patience
    /\ Raise(r, "failed")
    /\ UNCHANGED <<agents, left, Environment, Asked, reached>>

\* A refresh that updates the dictionary instead of replacing it.
StoreAgentsMerged(r) ==
    /\ pc[r] = "store"
    /\ agents' = [c \in Clusters |-> IF Discovered(answers[r])[c] # <<>> THEN Discovered(answers[r])[c]
                                    ELSE agents[c]]
    /\ pc' = [pc EXCEPT ![r] = "date"]
    /\ UNCHANGED <<left, Environment, requestVars>>

\* self._agents = ... and then self._agents_timeout = ...
StoreAgents(r) ==
    /\ pc[r] = "store"
    /\ agents' = Discovered(answers[r])
    /\ pc' = [pc EXCEPT ![r] = "date"]
    /\ UNCHANGED <<left, Environment, requestVars>>

StoreTimeout(r) ==
    /\ pc[r] = "date"
    /\ left' = Lifetime
    /\ pc' = [pc EXCEPT ![r] = after[r]]
    /\ waited' = [waited EXCEPT ![r] = 0]
    /\ answers' = [answers EXCEPT ![r] = [u \in Urls |-> <<>>]]
    /\ UNCHANGED <<agents, Environment, Asked, after, waiting, route, reached, outcome, warned>>

----------------------------------------------------------------------------
(* Proxied requests and streams *)

\* @validate_cluster
Validate(r) ==
    /\ pc[r] = "validate"
    /\ \E c \in Clusters, k \in {"proxy", "stream"} :
        \/ /\ c \in Known
           /\ target' = [target EXCEPT ![r] = c] /\ kind' = [kind EXCEPT ![r] = k]
           /\ pc' = [pc EXCEPT ![r] = "url"]
           /\ UNCHANGED <<after, waited, waiting, answers, route, reached, outcome, warned>>
        \/ /\ c \notin Known
           /\ End(r, "not_found", FALSE) /\ UNCHANGED <<Asked, reached>>
    /\ UNCHANGED <<agents, left, Environment>>

\* The url, then the version, each read from the agents of that moment: a
\* cluster that left them is a KeyError.
ReadRoute(r) ==
    /\ \/ pc[r] \in {"url", "version"} /\ left > 0
       \/ pc[r] \in {"new_url", "new_version"}
    /\ LET first == pc[r] \in {"url", "new_url"} IN
        IF target[r] \in Known
        THEN /\ route' = [route EXCEPT ![r] = Append(@, agents[target[r]][IF first THEN 1 ELSE 2])]
             /\ pc' = [pc EXCEPT ![r] = IF first THEN "version" ELSE "sent"]
             /\ waiting' = [waiting EXCEPT ![r] = IF first THEN {} ELSE {route[r][1]}]
             /\ waited' = [waited EXCEPT ![r] = 0]
             /\ UNCHANGED <<Asked, after, answers, reached, outcome, warned>>
        ELSE End(r, "failed", FALSE) /\ UNCHANGED <<Asked, reached>>
    /\ UNCHANGED <<agents, left, Environment>>

\* The discovery expired since it was validated. build_agent_url() polls again;
\* request_agent() runs in an event loop, where another cannot be run.
RouteExpired(r) ==
    /\ pc[r] \in {"url", "version"} /\ left = 0
    /\ IF kind[r] = "stream"
       THEN /\ pc' = [pc EXCEPT ![r] = "ask"]
            /\ after' = [after EXCEPT ![r] = IF pc[r] = "url" THEN "new_url" ELSE "new_version"]
            /\ waited' = [waited EXCEPT ![r] = 0]
            /\ UNCHANGED <<Asked, waiting, answers, route, reached, outcome, warned>>
       ELSE End(r, "failed", FALSE) /\ UNCHANGED <<Asked, reached>>
    /\ UNCHANGED <<agents, left, Environment>>

\* What the agent that is up answers: its rules are those of its own version.
ServedBy(u, v, queries) == state[u] = "up" /\ version[u] = v /\ queries \subseteq Served

\* async_proxy_agent(): the answer of the agent, whatever its status; without one
\* an HTTP/500.
Answer(r) ==
    /\ pc[r] = "sent" /\ kind[r] = "proxy"
    /\ LET u == route[r][1] IN
        \/ /\ ServedBy(u, route[r][2], Proxied)
           /\ reached' = [reached EXCEPT ![r] = {u}]
           /\ End(r, "ok", FALSE)
        \/ /\ state[u] = "up" /\ ~ServedBy(u, route[r][2], Proxied)
           /\ End(r, "not_found", FALSE) /\ UNCHANGED reached
        \/ /\ state[u] = "down" \/ waited[r] = Patience
           /\ End(r, "failed", FALSE) /\ UNCHANGED reached
    /\ UNCHANGED <<agents, left, Environment, Asked>>

\* proxy_stream_agent(): the response has begun, so that an error of the agent or
\* of the connection can only be an event of it.
StreamAnswer(r) ==
    /\ pc[r] = "sent" /\ kind[r] = "stream"
    /\ LET u == route[r][1] IN
        \/ /\ ServedBy(u, route[r][2], Sent(AIViews))
           /\ reached' = [reached EXCEPT ![r] = {u}]
           /\ End(r, "ok", FALSE)
        \/ /\ \/ state[u] = "up" /\ ~ServedBy(u, route[r][2], Sent(AIViews))
              \/ state[u] = "down" \/ waited[r] = Patience
           /\ End(r, "event", FALSE) /\ UNCHANGED reached
    /\ UNCHANGED <<agents, left, Environment, Asked>>

----------------------------------------------------------------------------
(* The listing of the clusters *)

\* clusters(): get_clusters() is given the agents of this moment ...
ListAgents(r) ==
    /\ pc[r] = "list"
    /\ pc' = [pc EXCEPT ![r] = "lists"]
    /\ waiting' = [waiting EXCEPT ![r] = {agents[c][1] : c \in Known}]
    /\ UNCHANGED <<agents, left, Environment, Asked, after, waited, answers, route, reached, outcome, warned>>

\* The version of each agent of the gateway, as it is put in an URL.
Versioned(urls) ==
    [u \in Urls |-> IF u \in urls /\ ClusterOf[u] \in Known THEN agents[ClusterOf[u]][2] ELSE <<>>]

\* ... and starts get_cluster() for each, which reads the url and the version of
\* its cluster again, in the event loop.
List(r) ==
    /\ pc[r] = "lists"
    /\ LET named == {ClusterOf[u] : u \in waiting[r]}
           urls == {agents[c][1] : c \in named \cap Known}
       IN IF waiting[r] # {} /\ (left = 0 \/ ~(named \subseteq Known))
          THEN End(r, "failed", FALSE) /\ UNCHANGED <<Asked, reached>>
          ELSE /\ pc' = [pc EXCEPT ![r] = "listing"]
               /\ waiting' = [waiting EXCEPT ![r] = urls]
               /\ answers' = [answers EXCEPT ![r] = Versioned(urls)]
               /\ waited' = [waited EXCEPT ![r] = 0]
               /\ UNCHANGED <<Asked, after, route, reached, outcome, warned>>
    /\ UNCHANGED <<agents, left, Environment>>

\* The condition of ui.hide_denied taken the wrong way.
ListAnswerHidden(r, u) ==
    /\ pc[r] = "listing" /\ u \in waiting[r] /\ state[u] = "up"
    /\ waiting' = [waiting EXCEPT ![r] = @ \ {u}]
    /\ reached' = [reached EXCEPT ![r] =
        IF version[u] = answers[r][u] /\ ~(u \in Granted /\ HideDenied) THEN @ \cup {u} ELSE @]
    /\ UNCHANGED <<agents, left, Environment, pc, Asked, after, waited, answers, route, outcome, warned>>

\* One get_cluster() ends: listed, hidden or filtered out.
ListAnswer(r, u) ==
    /\ pc[r] = "listing" /\ u \in waiting[r] /\ state[u] = "up"
    /\ waiting' = [waiting EXCEPT ![r] = @ \ {u}]
    /\ reached' = [reached EXCEPT ![r] =
        IF version[u] = answers[r][u] /\ (u \in Granted \/ ~HideDenied) THEN @ \cup {u} ELSE @]
    /\ UNCHANGED <<agents, left, Environment, pc, Asked, after, waited, answers, route, outcome, warned>>

\* A connection error or a timeout leaves get_cluster(), gather() and the view.
ListError(r, u) ==
    /\ pc[r] = "listing" /\ u \in waiting[r]
    /\ state[u] = "down" \/ waited[r] = Patience
    /\ End(r, "unreachable", FALSE)
    /\ UNCHANGED <<agents, left, Environment, Asked, reached>>

Listed(r) ==
    /\ pc[r] = "listing" /\ waiting[r] = {}
    /\ End(r, "ok", FALSE)
    /\ UNCHANGED <<agents, left, Environment, Asked, reached>>

----------------------------------------------------------------------------
(* The login *)

\* The user is sent to the agents with a database.
Post(r) ==
    LET urls == {agents[c][1] : c \in Known} \cap Database IN
    IF urls = {} THEN End(r, "ok", TRUE) /\ UNCHANGED <<Asked, reached>>
    ELSE /\ pc' = [pc EXCEPT ![r] = "posting"]
         /\ waiting' = [waiting EXCEPT ![r] = urls]
         /\ answers' = [answers EXCEPT ![r] = Versioned(urls)]
         /\ UNCHANGED <<Asked, after, waited, route, reached, outcome, warned>>

\* async_cache_user_on_agents(): without any agent, the discovery is forced.
LoginAgents(r) ==
    /\ pc[r] = "login"
    /\ \/ Known = {} /\ PollAll(r) /\ after' = [after EXCEPT ![r] = "forced"]
       \/ Known # {} /\ Post(r) /\ UNCHANGED <<agents, left, Environment>>

Forced(r) ==
    /\ pc[r] = "forced"
    /\ Post(r)
    /\ UNCHANGED <<agents, left, Environment>>

\* cache_user_on_agent(): an error of one agent is logged.
PostAnswer(r, u) ==
    /\ pc[r] = "posting" /\ u \in waiting[r] /\ state[u] # "hangs"
    /\ waiting' = [waiting EXCEPT ![r] = @ \ {u}]
    /\ LET done == ServedBy(u, answers[r][u], {<<"POST", "users/cache">>}) IN
        /\ reached' = [reached EXCEPT ![r] = IF done THEN @ \cup {u} ELSE @]
        /\ warned' = [warned EXCEPT ![r] = @ \/ ~done]
    /\ UNCHANGED <<agents, left, Environment, pc, Asked, after, waited, answers, route, outcome>>

PostTimeout(r) ==
    /\ pc[r] = "posting" /\ waiting[r] # {} /\ waited[r] = Patience
    /\ Raise(r, "failed")
    /\ UNCHANGED <<agents, left, Environment, Asked, reached>>

LoggedIn(r) ==
    /\ pc[r] = "posting" /\ waiting[r] = {}
    /\ End(r, "ok", warned[r])
    /\ UNCHANGED <<agents, left, Environment, Asked, reached>>

Return(r) ==
    /\ pc[r] = "done"
    /\ pc' = [pc EXCEPT ![r] = "idle"]
    /\ reached' = [reached EXCEPT ![r] = {}]
    /\ outcome' = [outcome EXCEPT ![r] = "none"] /\ warned' = [warned EXCEPT ![r] = FALSE]
    /\ kind' = [kind EXCEPT ![r] = "proxy"]
    /\ target' = [target EXCEPT ![r] = CHOOSE c \in Clusters : TRUE]
    /\ UNCHANGED <<agents, left, Environment, after, waited, waiting, answers, route>>

Step(r) ==
    \/ Cached(r) \/ Poll(r) \/ PollTimeout(r) \/ StoreAgents(r) \/ StoreTimeout(r)
    \/ Validate(r) \/ ReadRoute(r) \/ RouteExpired(r) \/ Answer(r) \/ StreamAnswer(r) \/ ListAgents(r) \/ List(r) \/ Listed(r)
    \/ LoginAgents(r) \/ Forced(r) \/ PostTimeout(r) \/ LoggedIn(r) \/ Return(r)
    \/ \E u \in Urls : PollAnswer(r, u) \/ ListAnswer(r, u) \/ ListError(r, u) \/ PostAnswer(r, u)

----------------------------------------------------------------------------
(* The agents and the time *)

\* An agent stops, starts, is upgraded while it is stopped, or accepts connections
\* it does not answer.
AgentChanges(u) ==
    /\ \E s \in {"up", "down", "hangs"}, v \in Releases[u] :
        /\ s # state[u] \/ v # version[u]
        /\ v # version[u] => state[u] = "down"
        /\ state' = [state EXCEPT ![u] = s] /\ version' = [version EXCEPT ![u] = v]
    /\ changes < MaxChanges /\ changes' = changes + 1
    /\ stable' = [stable EXCEPT ![u] = 0]
    /\ UNCHANGED <<agents, left, pc, requestVars>>

\* A thread waits for agents, no longer than its client does, or was not
\* scheduled for an instant between two reads of the discovery.
Waits(r) == pc[r] \in {"poll", "sent", "listing", "posting"} /\ waiting[r] # {}
Delayed(r) == pc[r] \in {"url", "version", "lists"}

Tick ==
    /\ \A r \in Requests :
        \/ pc[r] \in {"idle", "ask"}
        \/ Waits(r) /\ waited[r] < Patience
        \/ Delayed(r) /\ waited[r] = 0
    /\ left' = IF left = 0 THEN 0 ELSE left - 1
    /\ waited' = [r \in Requests |-> IF Waits(r) \/ Delayed(r) THEN waited[r] + 1 ELSE waited[r]]
    /\ stable' = [u \in Urls |-> Least(stable[u] + 1, Settled)]
    /\ UNCHANGED <<agents, state, version, changes, pc, kind, target, after, waiting, answers, route, reached,
                   outcome, warned>>

Next ==
    \/ \E r \in Requests : Begin(r) \/ Refused(r) \/ Step(r)
    \/ \E u \in Urls : AgentChanges(u)
    \/ Tick

\* Threads are scheduled, and time passes however many requests there are (an
\* instant holds finitely many); agents need not recover.
Fairness == SF_vars(Tick) /\ \A r \in Requests : WF_vars(Step(r))
Spec == Init /\ [][Next]_vars /\ Fairness

----------------------------------------------------------------------------
(* Properties *)

\* The only agent of its cluster, up in an accepted version for long enough.
SettledUp(u) ==
    /\ stable[u] = Settled /\ state[u] = "up" /\ Accepted(u, version[u])
    /\ \A w \in Urls : ClusterOf[w] = ClusterOf[u] => w = u

\* What the gateway serves from its cache (refresh_agents) is true of every agent
\* that has not changed for the lifetime of the cache and one timeout of a
\* client, however polls of several threads overtake each other: an agent that
\* is up and accepted is known, the one that is down is not, and the version is
\* the one it runs.
StableAgentsAreKnown ==
    left > 0 =>
        \A u \in Urls : stable[u] > Lifetime + Patience =>
            /\ \A c \in Known : agents[c][1] = u => (state[u] = "up" /\ version[u] = agents[c][2])
            /\ (state[u] = "up" /\ Accepted(u, version[u])) => ClusterOf[u] \in Known

\* Once LDAP has authenticated the user, no failure of an agent, whatever its
\* moment, turns the login into an error (the except of login()).
LoginSurvives ==
    \A r \in Requests : kind[r] = "login" => outcome[r] \in {"none", "ok", "refused"}

\* A login that logged no warning stored the user on every agent with a database
\* that was there all along.
LoginReachesAgents ==
    \A r \in Requests : (kind[r] = "login" /\ outcome[r] = "ok" /\ ~warned[r]) =>
        {u \in Database : SettledUp(u)} \subseteq reached[r]

\* A listing that succeeded has the cluster of every agent that was there all
\* along and that grants the user something, and none whose agent was not.
ListingIsComplete ==
    \A r \in Requests : (kind[r] = "clusters" /\ outcome[r] = "ok") =>
        /\ {u \in Granted : SettledUp(u)} \subseteq reached[r]
        /\ \A u \in reached[r] : stable[u] < Settled \/ state[u] = "up"

\* get_clusters(): "Clusters on which request to get permissions failed are
\* filtered out". The agent that cannot be reached makes the listing fail.
ListingFiltersFailures ==
    \A r \in Requests : kind[r] = "clusters" => outcome[r] # "unreachable"

\* Every request is answered, whatever the agents do: the clients give up.
Answered == \A r \in Requests : pc[r] \notin {"idle", "done"} ~> pc[r] = "done"
=============================================================================
