--------------------------- MODULE MCAccessControl ---------------------------
(***************************************************************************)
(* What administrators and starting processes write in the database at      *)
(* once: roles and their assignment, models of the assistant.  They have no *)
(* variable in common, so that a behaviour is about one of them.  Of the    *)
(* legacy map it has one converted, one removed and one action of two rules. *)
(***************************************************************************)
EXTENDS AccessControlStore, AIModelConfigs, TLC

CONSTANTS t1, t2, u1, m1, m2, Parts

VARIABLE part       \* the one

MCInit == part \in Parts /\ Init /\ ConfigInit

MCNext ==
    \/ part = "roles" /\ Next /\ UNCHANGED <<part, configVars>>
    \/ part = "models" /\ ConfigNext /\ UNCHANGED <<part, vars>>
    \/ part = "models" /\ DOMAIN configs = {} /\ UNCHANGED <<part, vars, configVars>>  \* no number is left

MCSpec == MCInit /\ [][MCNext]_<<part, vars, configVars>>

Symmetry == Permutations(Threads)

----------------------------------------------------------------------------
(* Values of the constants *)

View(resource) == [resource |-> resource, operation |-> "view", scope |-> "*"]

MCResources == {"*", "ai", "accounts", "user/profile"}
MCSubtree == [r \in MCResources |-> {}]
MCActions == {"view-ai", "associations-view", "manage-ai"}
MCMap ==
    [a \in MCActions |->
        CASE a = "view-ai" -> {View("ai")}
          [] a = "associations-view" -> {View("accounts"), View("user/profile")}
          [] a = "manage-ai" -> {}]
MCCatalog == {View("ai"), View("accounts")}

LegacyRole == [name |-> "old", actions |-> MCActions, permissions |-> {}]
CurrentRole == [name |-> "old", actions |-> {"view-ai"}, permissions |-> {View("ai")}]

\* An empty table, or a role of a version that had no permissions.
MCFirstRoles ==
    {[i \in RoleIds |-> NoRole]} \cup
    {[i \in RoleIds |-> IF i = 1 THEN role ELSE NoRole] : role \in {LegacyRole, CurrentRole}}

MCSeedRoles ==
    << [name |-> "user",
        permissions |-> {View("accounts"), [View("user/profile") EXCEPT !.scope = "self"]}] >>
=============================================================================
