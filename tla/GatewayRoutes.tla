---------------------------- MODULE GatewayRoutes ----------------------------
(***************************************************************************)
(* The requests the gateway passes to the agents: the method of each rule   *)
(* (slurmweb/apps/gateway.py), the query each view sends                    *)
(* (slurmweb/views/gateway.py), and the rules of the agent                  *)
(* (slurmweb/apps/agent.py). A query is named by its path without the       *)
(* parameters.                                                              *)
(***************************************************************************)
ServiceViews ==
    [ping |-> "ping", stats |-> "stats", permissions |-> "permissions",
     cache_stats |-> "cache/stats", cache_reset |-> "cache/reset",
     ldap_cache_users |-> "users/cache"]

AccessViews ==
    [access_roles |-> "access/roles", access_catalog |-> "access/catalog",
     create_access_role |-> "access/roles", update_access_role |-> "access/roles/id",
     delete_access_role |-> "access/roles/id", access_users |-> "access/users",
     access_user_roles |-> "access/users/roles", update_access_user_roles |-> "access/users/roles"]

AIViews ==
    [ai_configs |-> "ai/configs", ai_models |-> "ai/models", create_ai_config |-> "ai/configs",
     update_ai_config |-> "ai/configs/id", delete_ai_config |-> "ai/configs/id",
     validate_ai_config |-> "ai/configs/id/validate", ai_chat_stream |-> "ai/chat/stream",
     ai_conversations |-> "ai/conversations", ai_conversation_detail |-> "ai/conversations/id",
     delete_ai_conversation |-> "ai/conversations/id",
     admin_ai_conversations |-> "ai/admin/conversations",
     admin_ai_conversation_detail |-> "ai/admin/conversations/id"]

AnalysisViews ==
    [user_metrics_history |-> "user/metrics/history", user_tools_analysis |-> "user/tools/analysis",
     analysis_ping |-> "analysis/ping", analysis_diag |-> "analysis/diag",
     analysis_context |-> "analysis/context", analysis_node_hotspots |-> "analysis/node-hotspots"]

JobViews ==
    [jobs |-> "jobs", job |-> "job", job_submit |-> "jobs/submit", job_update |-> "job/update",
     job_cancel |-> "job/cancel"]

NodeViews ==
    [nodes |-> "nodes", node |-> "node", node_update |-> "node/update", node_delete |-> "node/delete",
     partitions |-> "partitions", qos |-> "qos", qos_update |-> "qos", qos_delete |-> "qos/delete",
     reservations |-> "reservations", reservation_create |-> "reservation",
     reservation_update |-> "reservation/update", reservation_delete |-> "reservation/delete"]

AccountViews ==
    [accounts |-> "accounts", account |-> "account", accounts_update |-> "accounts",
     account_delete |-> "account/delete", associations |-> "associations",
     associations_update |-> "associations", associations_delete |-> "associations",
     users_admin |-> "users", user_admin |-> "user", users_update |-> "users",
     user_delete |-> "user/delete", metrics |-> "metrics"]

HistoryViews ==
    [jobs_history |-> "jobs/history", job_history_detail |-> "jobs/history/id",
     node_metrics |-> "node/metrics", node_metrics_history |-> "node/metrics/history"]

----------------------------------------------------------------------------
\* The methods of the gateway's rules, GET unless the rule names another.
PostViews ==
    {"cache_reset", "create_access_role", "create_ai_config", "validate_ai_config",
     "ai_chat_stream", "job_submit", "job_update", "node_update", "qos_update",
     "reservation_create", "reservation_update", "accounts_update", "associations_update",
     "users_update"}

OtherMethod ==
    [update_access_role |-> "PATCH", delete_access_role |-> "DELETE",
     update_access_user_roles |-> "PUT", update_ai_config |-> "PATCH", delete_ai_config |-> "DELETE",
     delete_ai_conversation |-> "DELETE", job_cancel |-> "DELETE", node_delete |-> "DELETE",
     qos_delete |-> "DELETE", reservation_delete |-> "DELETE", account_delete |-> "DELETE",
     associations_delete |-> "DELETE", user_delete |-> "DELETE"]

MethodOf(view) ==
    IF view \in PostViews THEN "POST"
    ELSE IF view \in DOMAIN OtherMethod THEN OtherMethod[view] ELSE "GET"

\* What the proxied views send to an agent.
Sent(views) == {<<MethodOf(v), views[v]>> : v \in DOMAIN views}

Proxied ==
    UNION {Sent(ServiceViews), Sent(AccessViews), Sent(AIViews), Sent(AnalysisViews),
           Sent(JobViews), Sent(NodeViews), Sent(AccountViews), Sent(HistoryViews)}

----------------------------------------------------------------------------
\* The rules of the agent.
AgentSlurmRules ==
    ({"GET"} \X {"ping", "stats", "analysis/ping", "analysis/diag", "analysis/context",
                 "analysis/node-hotspots", "permissions", "jobs", "job", "nodes", "node",
                 "partitions", "qos", "reservations", "accounts", "account", "associations",
                 "users", "user"})
    \cup ({"POST"} \X {"jobs/submit", "job/update", "node/update", "qos", "reservation",
                       "reservation/update", "accounts", "associations", "users"})
    \cup ({"DELETE"} \X {"job/cancel", "node/delete", "qos/delete", "reservation/delete",
                         "account/delete", "associations", "user/delete"})

AgentServiceRules ==
    ({"GET"} \X {"cache/stats", "metrics", "jobs/history", "jobs/history/id", "users/cache",
                 "access/roles", "access/catalog", "access/users", "access/users/roles",
                 "ai/configs", "ai/models", "ai/conversations", "ai/conversations/id",
                 "ai/admin/conversations", "ai/admin/conversations/id", "user/metrics/history",
                 "user/tools/analysis", "node/metrics", "node/metrics/history"})
    \cup ({"POST"} \X {"cache/reset", "users/cache", "access/roles", "ai/configs",
                       "ai/configs/id/validate", "ai/chat/stream"})
    \cup {<<"PATCH", "access/roles/id">>, <<"DELETE", "access/roles/id">>,
          <<"PUT", "access/users/roles">>, <<"PATCH", "ai/configs/id">>,
          <<"DELETE", "ai/configs/id">>, <<"DELETE", "ai/conversations/id">>}

Served == AgentSlurmRules \cup AgentServiceRules
=============================================================================
