------------------------- MODULE MCAgentOperations -------------------------
(***************************************************************************)
(* Requests to an agent, of which the chats with its assistant are streams. *)
(* One thread is asked everything, or two read the statistics, or two       *)
(* streams answer.  They have no variable in common.                        *)
(***************************************************************************)
EXTENDS AgentOperations, AIConversation, TLC

CONSTANTS r1, r2, admin, operator, member, guest, s1, s2, shared

VARIABLE part       \* "operations" or "chats"

allVars == <<part, vars, chatVars>>

MCInit ==
    /\ part \in {"operations", "chats"} /\ Init /\ ChatInit
    /\ part = "chats" => asks = CHOOSE w \in Workloads : TRUE

ChatStep(s) == part = "chats" /\ Step(s) /\ UNCHANGED <<part, vars>>
AllEnded == \A s \in Streams : stage[s] = "done"

MCNext ==
    \/ part = "operations" /\ Next /\ UNCHANGED <<part, chatVars>>
    \/ part = "chats" /\ ChatNext /\ UNCHANGED <<part, vars>>
    \/ part = "chats" /\ AllEnded /\ UNCHANGED allVars

MCSpec == MCInit /\ [][MCNext]_allVars /\ \A s \in Streams : WF_allVars(ChatStep(s))

----------------------------------------------------------------------------
(* Values of the constants *)

Plain == {"analysis", "dashboard", "jobs", "jobs/filter-partitions", "jobs/filter-qos",
    "jobs/filter-accounts", "resources", "resources/filter-partitions", "qos", "reservations",
    "accounts", "user/profile", "user/analysis", "users-admin", "jobs-history", "ai", "admin/cache",
    "admin/ldap-users", "admin/access-control", "admin/ai"}
MCResources == Plain \cup {"*", "admin/*"}
MCSubtree == [r \in MCResources |->
    IF r = "admin/*" THEN {"admin/cache", "admin/ldap-users", "admin/access-control", "admin/ai"} ELSE {}]

MCGranted ==
       admin :> {May("*", "*")}
    @@ operator :> {View("jobs"), Edit("resources"), View("resources/filter-partitions"), View("ai"),
                    Edit("accounts"), View("analysis"), May("admin/*", "edit")}
    @@ member :> {Self(View("jobs")), Self(Edit("jobs")), Self(Delete("jobs")), View("ai"),
                  View("jobs-history"), View("resources/filter-partitions"), Self(View("user/analysis"))}
    @@ guest :> {View("dashboard"), View("qos")}

MCEnabled == Features \ {"node-hotspots"}
MCWorkloads == {(r1 :> (DOMAIN Views \ {"stats"}) \cup {"other"}) @@ (r2 :> {}),
                (r1 :> {"stats", "job/update"}) @@ (r2 :> {"stats"})}
MCLegacyMap == [a \in {} |-> {}]
=============================================================================
