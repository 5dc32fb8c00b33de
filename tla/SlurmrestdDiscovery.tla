------------------------- MODULE SlurmrestdDiscovery -------------------------
(***************************************************************************)
(* The discovery of the slurmrestd API version by the threads of an agent,  *)
(* and the adaptation of the answers of older versions to the newest one    *)
(* (slurmweb/slurmrestd/__init__.py).  All the threads share one Slurmrestd *)
(* object, without a lock.                                                  *)
(***************************************************************************)
EXTENDS SlurmrestdVersions

VARIABLES
    cluster,  \* self.cluster_name is set
    release,  \* self.slurm_version is set
    api,      \* self.api_version, or None
    chain,    \* self._adaptation_chain: the version it starts from, or None
    served,   \* slurmrestd: the versions it serves
    upgrades, \* slurmrestd: times it changed
    thread,   \* per thread: its step and its local variables
    refused,  \* history: versions whose ping was not accepted
    accepted  \* history: versions whose ping was accepted

discoveryVars == <<cluster, release, api, chain, served, upgrades, thread, refused, accepted>>

\* Local state: the version tried, sent or read, and whether a request follows
\* the discovery.
At(pc, version, asks) == [pc |-> pc, version |-> version, asks |-> asks, answer |-> "none"]
Done(answer) == [pc |-> "idle", version |-> None, asks |-> FALSE, answer |-> answer]
SetThread(t, state) == thread' = [thread EXCEPT ![t] = state]

DiscoveryInit ==
    /\ cluster = FALSE /\ release = FALSE
    /\ api = None /\ chain = None
    /\ served = Served
    /\ upgrades = 0
    /\ thread = [t \in Threads |-> Done("none")]
    /\ refused = {} /\ accepted = {}

-----------------------------------------------------------------------------
(* Requests.                                                                *)

\* _request(): discover() first when no version is known.
Request(t) ==
    /\ thread[t].pc = "idle"
    /\ SetThread(t, At(IF api = None THEN "check" ELSE "send", None, TRUE))
    /\ UNCHANGED <<cluster, release, api, chain, served, upgrades, refused, accepted>>

\* discover() called for itself: /ping, and every write operation.
Discover(t) ==
    /\ thread[t].pc = "idle"
    /\ SetThread(t, At("check", None, FALSE))
    /\ UNCHANGED <<cluster, release, api, chain, served, upgrades, refused, accepted>>

Send(t) ==
    /\ thread[t].pc = "send"
    /\ api \in served
    /\ SetThread(t, At("adapt", api, TRUE))
    /\ UNCHANGED <<cluster, release, api, chain, served, upgrades, refused, accepted>>

SendFails(t) ==
    /\ thread[t].pc = "send"
    /\ SetThread(t, Done("failed"))
    /\ UNCHANGED <<cluster, release, api, chain, served, upgrades, refused, accepted>>

\* The answer of one version goes through the chain, whatever it starts from.
Adapt(t) ==
    /\ thread[t].pc = "adapt"
    /\ SetThread(t, Done(IF chain = ChainFrom(thread[t].version) THEN "adapted" ELSE "raw"))
    /\ UNCHANGED <<cluster, release, api, chain, served, upgrades, refused, accepted>>

-----------------------------------------------------------------------------
(* Slurmrestd.discover().                                                   *)

\* Faulty variant: the oldest version comes first.
FirstTriedOldest == 1

\* The supported versions are tried from the newest to the oldest.
FirstTried == Newest
NextTried(version) == version - 1

Check(t) ==
    /\ thread[t].pc = "check"
    /\ SetThread(t, IF cluster /\ release /\ api # None
                 THEN [thread[t] EXCEPT !.pc = "compare"]
                 ELSE [thread[t] EXCEPT !.pc = "ping", !.version = FirstTried])
    /\ UNCHANGED <<cluster, release, api, chain, served, upgrades, refused, accepted>>

\* The ping is answered: the cluster name is stored, or the hint for it.
PingAccepted(t) ==
    /\ thread[t].pc = "ping"
    /\ thread[t].version \in served
    /\ cluster' = TRUE
    /\ accepted' = accepted \union {thread[t].version}
    /\ SetThread(t, [thread[t] EXCEPT !.pc = "release"])
    /\ UNCHANGED <<release, api, chain, served, upgrades, refused>>

\* The version is unknown or its answer an error: the next one is tried.  An
\* answer without a release is only rejected once the cluster name is stored.
\* After the last version the discovery fails.
PingRejected(t) ==
    LET tried == thread[t].version IN
    /\ thread[t].pc = "ping"
    /\ \/ tried \notin served /\ UNCHANGED cluster
       \/ Flaky /\ cluster' \in {cluster, TRUE}
    /\ refused' = refused \union {tried}
    /\ SetThread(t, IF NextTried(tried) = None THEN Done("failed")
                 ELSE [thread[t] EXCEPT !.version = NextTried(tried)])
    /\ UNCHANGED <<release, api, chain, served, upgrades, accepted>>

\* slurmrestd is unreachable or refuses the token: the discovery ends.
PingRaises(t) ==
    /\ thread[t].pc = "ping"
    /\ SetThread(t, Done("failed"))
    /\ UNCHANGED <<cluster, release, api, chain, served, upgrades, refused, accepted>>

StoreRelease(t) ==
    /\ thread[t].pc = "release"
    /\ release' = TRUE
    /\ SetThread(t, [thread[t] EXCEPT !.pc = "version"])
    /\ UNCHANGED <<cluster, api, chain, served, upgrades, refused, accepted>>

StoreVersion(t) ==
    /\ thread[t].pc = "version"
    /\ api' = thread[t].version
    /\ SetThread(t, [thread[t] EXCEPT !.pc = "compare"])
    /\ UNCHANGED <<cluster, release, chain, served, upgrades, refused, accepted>>

-----------------------------------------------------------------------------
(* SlurmrestdAdapter.discover(), after the former.                          *)

\* Faulty variant: only a discovery made for a request builds the chain.
BuildForRequests(t) ==
    /\ thread[t].pc = "build"
    /\ SetThread(t, IF thread[t].asks THEN [thread[t] EXCEPT !.pc = "chain", !.version = api]
                 ELSE Done("found"))
    /\ UNCHANGED <<cluster, release, api, chain, served, upgrades, refused, accepted>>

\* Whether a chain is needed; self.api_version is read again to build it.
Compare(t) ==
    /\ thread[t].pc = "compare"
    /\ SetThread(t, IF api = Newest THEN [thread[t] EXCEPT !.pc = "chain", !.version = Newest]
                 ELSE [thread[t] EXCEPT !.pc = "build"])
    /\ UNCHANGED <<cluster, release, api, chain, served, upgrades, refused, accepted>>

Build(t) ==
    /\ thread[t].pc = "build"
    /\ SetThread(t, [thread[t] EXCEPT !.pc = "chain", !.version = api])
    /\ UNCHANGED <<cluster, release, api, chain, served, upgrades, refused, accepted>>

StoreChain(t) ==
    /\ thread[t].pc = "chain"
    /\ chain' = ChainFrom(thread[t].version)
    /\ SetThread(t, IF thread[t].asks THEN At("send", None, TRUE) ELSE Done("found"))
    /\ UNCHANGED <<cluster, release, api, served, upgrades, refused, accepted>>

-----------------------------------------------------------------------------

\* slurmrestd restarts and serves other versions.
Upgrade ==
    /\ upgrades < MaxUpgrades
    /\ upgrades' = upgrades + 1
    /\ served' \in SUBSET Supported
    /\ UNCHANGED <<cluster, release, api, chain, thread, refused, accepted>>

Step(t) ==
    \/ Request(t) \/ Discover(t) \/ Send(t) \/ SendFails(t) \/ Adapt(t)
    \/ Check(t) \/ PingAccepted(t) \/ PingRejected(t) \/ PingRaises(t)
    \/ StoreRelease(t) \/ StoreVersion(t) \/ Compare(t) \/ Build(t) \/ StoreChain(t)

DiscoveryNext == Upgrade \/ \E t \in Threads : Step(t)

DiscoverySpec == DiscoveryInit /\ [][DiscoveryNext]_discoveryVars

-----------------------------------------------------------------------------
(* Properties.                                                              *)

Steps == {"idle", "check", "ping", "release", "version", "compare", "build", "chain", "send",
          "adapt"}
DiscoveryTypeOK ==
    /\ cluster \in BOOLEAN /\ release \in BOOLEAN
    /\ api \in {None} \union Supported
    /\ chain \in {None} \union Supported
    /\ served \subseteq Supported
    /\ upgrades \in 0..MaxUpgrades
    /\ thread \in [Threads -> [pc : Steps, version : {None} \union Supported, asks : BOOLEAN,
                               answer : {"none", "failed", "found", "adapted", "raw"}]]
    /\ refused \subseteq Supported /\ accepted \subseteq Supported

\* A thread between the storing of the version and the storing of the chain.
Settling(t) == thread[t].pc \in {"compare", "build", "chain"}

\* SlurmrestdAdapter.discover(): unless two discoveries ended with different
\* versions, the chain fits the version whenever no thread is between the two
\* assignments: no later answer goes out in the shape of an older version.
SettledChain ==
    api # None /\ (\A v, w \in accepted : v = w) /\ (\A t \in Threads : ~Settling(t)) =>
        chain = ChainFrom(api)

\* Slurmrestd.discover(): the version in use was accepted, and every newer one
\* was refused by a ping before.
NewestAccepted ==
    api # None => api \in accepted /\ \A v \in Supported : v > api => v \in refused

\* SlurmrestdAdapter._request(): while the discoveries agree, an answer is only
\* left in the shape of an older version when a discovery is between the two
\* assignments (slurmrestd/COMPATIBILITY.md:51-52 promises it never is).
RawOnlyWhileSettling ==
    [][\A t \in Threads : Adapt(t) /\ thread'[t].answer = "raw" =>
        (\E s \in Threads : Settling(s)) \/ (\E v, w \in accepted : v # w)]_discoveryVars
=============================================================================
