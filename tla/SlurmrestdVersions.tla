------------------------- MODULE SlurmrestdVersions -------------------------
(***************************************************************************)
(* The versions of the slurmrestd API that the agent supports, numbered     *)
(* from 1, and the adapters between them (slurmweb/slurmrestd/adapters).    *)
(***************************************************************************)
EXTENDS Integers

CONSTANTS
    Threads,    \* request threads and background threads
    Newest,     \* supported_versions[0]: the version the agent expects
    Served,     \* the versions slurmrestd serves at first
    Flaky,      \* the answer to a ping may be an error or lack the release
    MaxUpgrades \* bound: times slurmrestd starts serving other versions

ASSUME SlurmrestdDiscoveryAssumption ==
    /\ Newest \in Nat \ {0}
    /\ Served \subseteq 1..Newest
    /\ Flaky \in BOOLEAN
    /\ MaxUpgrades \in Nat

None == 0
Supported == 1..Newest

\* build_adaptation_chain(): the adapters from version to version; none from
\* the newest one.
ChainFrom(version) == IF version \in 1..(Newest - 1) THEN version ELSE None
=============================================================================
