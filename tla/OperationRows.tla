--------------------------- MODULE OperationRows ---------------------------
(***************************************************************************)
(* The operations of an agent and the two ways to reach them: the HTTP views *)
(* (slurmweb/views/agent.py) and the interfaces that the assistant calls for  *)
(* a user (slurmweb/ai/agent_interfaces.py). The code states the permissions   *)
(* and the checks of an operation once for each way.                          *)
(*                                                                         *)
(* A handler is a row: the rules that permit it and its checks in the order  *)
(* of the code.                                                              *)
(***************************************************************************)
EXTENDS Integers, Sequences, PermissionRules

CONSTANTS
    Users, Anonymous,   \* requesters; those without a login
    Granted,            \* rules of a user
    AccessControl,      \* policy.access_control_available
    Enabled             \* optional parts it runs with

\* Optional parts of the agent.
Features == {"cache", "metrics", "user-metrics", "job-history", "database", "access-control", "ai",
    "node-metrics", "node-hotspots"}

ASSUME RowsAssumption ==
    /\ Anonymous \subseteq Users /\ Granted \in [Users -> SUBSET Rules]
    /\ AccessControl \in BOOLEAN /\ Enabled \subseteq Features

----------------------------------------------------------------------------
(* Rows *)

May(resource, operation) == [resource |-> resource, operation |-> operation, scope |-> "*"]
View(resource) == May(resource, "view")
Edit(resource) == May(resource, "edit")
Delete(resource) == May(resource, "delete")
Self(rule) == [rule EXCEPT !.scope = "self"]
Either(rule) == {rule, Self(rule)}

\* One of rules is needed, or one of own for what is the user's own.
Row(rules, own, steps) == [rules |-> rules, own |-> own, steps |-> steps]
Read(rules) == Row(rules, {}, <<"permission", "read">>)
Needs(rule, feature) == Row({rule}, {}, <<"permission", feature, "read">>)
Checked(rule, feature) == Row({rule}, {}, <<"permission", feature, "argument", "read">>)
Write(rule) == Row({rule}, {}, <<"permission", "supported", "argument", "apply">>)
Drop(rule) == Row({rule}, {}, <<"permission", "supported", "apply">>)

\* The row of some operations, and the table of such entries.
For(ops, row) == [ops |-> ops, row |-> row]
TableOf(entries) ==
    [o \in UNION {e.ops : e \in entries} |-> (CHOOSE e \in entries : o \in e.ops).row]

----------------------------------------------------------------------------
(* HTTP views *)

OpenViews ==
    {For({"version", "info", "ping"}, Row({}, {}, <<"read">>))}

AnalysisViews ==
    {For({"analysis/ping", "analysis/diag", "analysis/context"}, Read({View("analysis")}))}

HotspotView ==
    {For({"analysis/hotspots"},
         Row({View("analysis")}, {}, <<"permission", "nodes-observed", "argument", "node-hotspots", "read">>))}

StatsView ==
    {For({"stats"},
         Row({View("dashboard"), View("analysis")}, {}, <<"permission", "cached", "collect", "keep">>))}

JobViews ==
    {For({"jobs"}, Row(Either(View("jobs")), {}, <<"permission", "filter">>)),
     For({"job"}, Row(Either(View("jobs")), {}, <<"permission", "owner", "read">>)),
     For({"job/submit"}, Row(Either(Edit("jobs")), {}, <<"permission", "supported", "argument", "apply">>)),
     For({"job/update"},
         Row(Either(Edit("jobs")), {}, <<"permission", "supported", "owner", "argument", "apply">>)),
     For({"job/cancel"}, Row(Either(Delete("jobs")), {}, <<"permission", "supported", "owner", "apply">>))}

NodeViews ==
    {For({"nodes", "node"}, Read({View("resources")})),
     For({"node/update"}, Write(Edit("resources"))),
     For({"node/delete"}, Drop(Delete("resources")))}

FilterViews ==
    {For({"partitions"}, Read({View("jobs/filter-partitions"), View("resources/filter-partitions")})),
     For({"qos"}, Read({View("qos"), View("jobs/filter-qos")}))}

ReservationViews ==
    {For({"reservations"}, Read({View("reservations")})),
     For({"reservation/create", "reservation/update"}, Write(Edit("reservations"))),
     For({"reservation/delete"}, Drop(Delete("reservations")))}

AccountViews ==
    {For({"accounts"}, Read({View("accounts"), View("jobs/filter-accounts")})),
     For({"account"}, Read({View("accounts")})),
     For({"associations"}, Read({View("accounts"), View("user/profile")})),
     For({"account/update"}, Write(Edit("accounts"))),
     For({"account/delete"}, Drop(Delete("accounts")))}

UserViews ==
    {For({"users", "user"}, Read({View("users-admin")})),
     For({"user/update"}, Write(Edit("users-admin"))),
     For({"user/delete"}, Drop(Delete("users-admin")))}

LimitViews ==
    {For({"qos/update"}, Write(Edit("qos"))),
     For({"qos/delete"}, Drop(Delete("qos"))),
     For({"association/update"}, Write(Edit("accounts"))),
     For({"association/delete"}, Write(Delete("accounts")))}

CacheViews ==
    {For({"cache/stats"}, Needs(View("admin/cache"), "cache")),
     For({"cache/reset"}, Needs(Edit("admin/cache"), "cache"))}

\* The metric is checked before the permission; nothing catches a wrong window.
Metric(rule) == Row({rule}, {}, <<"metrics", "permission", "window", "read">>)
MetricViews ==
    {For({"metrics/nodes", "metrics/cores", "metrics/gpus", "metrics/memory"}, Metric(View("resources"))),
     For({"metrics/jobs"}, Metric(View("jobs"))),
     For({"metrics/users"},
         Row({View("jobs")}, {}, <<"metrics", "user-metrics", "permission", "window", "read">>)),
     For({"metrics/cache"}, Metric(View("admin/cache"))),
     For({"metrics/other"}, Row({}, {}, <<"metrics", "unknown">>))}

HistoryViews ==
    {For({"jobs/history", "jobs/history/detail"}, Needs(View("jobs-history"), "job-history"))}

DirectoryViews ==
    {For({"permissions"}, Row({}, {}, <<"read">>)),
     For({"users/cache"}, Row({}, {}, <<"database", "read">>)),
     For({"users/ldap"}, Needs(View("admin/ldap-users"), "database"))}

AccessViews ==
    {For({"access/catalog", "access/roles", "access/users", "access/user"},
         Needs(View("admin/access-control"), "access-control")),
     For({"access/role/create", "access/role/update", "access/user/roles"},
         Checked(Edit("admin/access-control"), "access-control")),
     For({"access/role/delete"}, Needs(Delete("admin/access-control"), "access-control"))}

AIAdminViews ==
    {For({"ai/configs"}, Needs(View("admin/ai"), "ai")),
     For({"ai/config/create", "ai/config/update", "ai/config/validate"}, Checked(Edit("admin/ai"), "ai")),
     For({"ai/config/delete"}, Needs(Delete("admin/ai"), "ai")),
     For({"ai/audit", "ai/audit/detail"}, Needs(View("admin/ai"), "ai"))}

AIViews ==
    {For({"ai/models", "ai/conversations", "ai/conversation", "ai/conversation/delete"},
         Needs(View("ai"), "ai")),
     For({"ai/chat"}, Checked(View("ai"), "ai"))}

AnalyticsViews ==
    {For({"user/metrics/history", "user/tools/analysis"},
         Row({View("user/analysis"), View("jobs")}, {Self(View("user/analysis"))},
             <<"permission", "user-metrics", "argument", "read">>))}

NodeMetricsViews ==
    {For({"node/metrics"}, Needs(View("resources"), "node-metrics")),
     For({"node/metrics/history"}, Checked(View("resources"), "node-metrics"))}

ViewRows ==
    OpenViews \cup AnalysisViews \cup HotspotView \cup StatsView \cup JobViews \cup NodeViews
    \cup FilterViews \cup ReservationViews \cup AccountViews \cup UserViews \cup LimitViews
    \cup CacheViews \cup MetricViews \cup HistoryViews \cup DirectoryViews \cup AccessViews
    \cup AIAdminViews \cup AIViews \cup AnalyticsViews \cup NodeMetricsViews
Views == TableOf(ViewRows)

----------------------------------------------------------------------------
(* Interfaces of the assistant *)

\* The detail of the history, asked with the permission on jobs.
ClusterInterfacesNarrow ==
    {For({"jobs/history", "jobs/history/detail"}, Checked(View("jobs"), "job-history")),
     For({"analysis/context", "stats", "jobs"}, Read({View("analysis")})),
     For({"job"}, Row(Either(View("jobs")), {}, <<"permission", "owner", "read">>))}

ClusterInterfaces ==
    {For({"analysis/context"}, Row({View("analysis")}, {}, <<"permission", "permission", "read">>)),
     For({"stats"}, Read({View("dashboard"), View("analysis")})),
     For({"jobs"}, Row(Either(View("jobs")), {}, <<"permission", "filter">>)),
     For({"job"}, Row(Either(View("jobs")), {}, <<"argument", "permission", "owner", "read">>)),
     For({"jobs/history", "jobs/history/detail"}, Checked(View("jobs-history"), "job-history"))}

Named(rules) == Row(rules, {}, <<"permission", "argument", "read">>)
\* The nodes listed to the assistant for whom sees partitions.
NodeInterfacesWide ==
    {For({"nodes"}, Read({View("resources"), View("resources/filter-partitions")})),
     For({"node", "node/metrics", "node/metrics/history"}, Read({View("resources")}))}

NodeInterfaces ==
    {For({"nodes"}, Read({View("resources")})),
     For({"node"}, Named({View("resources")})),
     For({"node/metrics", "node/metrics/history"}, Checked(View("resources"), "node-metrics"))}

ConfigurationInterfaces ==
    {For({"partitions"}, Read({View("jobs/filter-partitions"), View("resources/filter-partitions")})),
     For({"qos"}, Read({View("qos"), View("jobs/filter-qos")})),
     For({"reservations"}, Read({View("reservations")})),
     For({"accounts"}, Read({View("accounts"), View("jobs/filter-accounts")})),
     For({"account"}, Named({View("accounts")})),
     For({"associations"}, Read({View("accounts"), View("user/profile")})),
     For({"users"}, Read({View("users-admin")})),
     For({"user"}, Named({View("users-admin")}))}

\* The use of tools by oneself needs no permission here.
AnalyticsInterfaces ==
    LET rules == {View("user/analysis"), View("jobs")}
        own == {Self(View("user/analysis"))}
        Asked(permission) == <<"argument", permission, "user-metrics", "argument", "read">>
    IN {For({"user/metrics/history"}, Row(rules, own, Asked("permission"))),
        For({"user/tools/analysis"}, Row(rules, own, Asked("permission-unless-own")))}

\* The interfaces check the ownership after the operation.
JobInterfacesLate ==
    {For({"job/submit"}, Row(Either(Edit("jobs")), {}, <<"permission", "supported", "argument", "apply">>)),
     For({"job/update"},
         Row(Either(Edit("jobs")), {}, <<"permission", "supported", "owner", "argument", "apply">>)),
     For({"job/cancel"}, Row(Either(Delete("jobs")), {}, <<"supported", "argument", "permission", "apply">>))}

\* Who may do everything does not need the job to be found.
JobInterfaces ==
    {For({"job/submit"}, Row(Either(Edit("jobs")), {}, <<"permission", "supported", "argument", "apply">>)),
     For({"job/update"},
         Row(Either(Edit("jobs")), {},
             <<"supported", "argument", "permission", "own-job", "argument", "apply">>)),
     For({"job/cancel"},
         Row(Either(Delete("jobs")), {}, <<"supported", "argument", "permission", "own-job", "apply">>))}

ResourceInterfaces ==
    {For({"node/update"}, Write(Edit("resources"))),
     For({"node/delete"}, Write(Delete("resources"))),
     For({"reservation/create", "reservation/update"}, Write(Edit("reservations"))),
     For({"reservation/delete"}, Write(Delete("reservations")))}

AccountInterfaces ==
    {For({"account/update", "association/update"}, Write(Edit("accounts"))),
     For({"account/delete", "association/delete"}, Write(Delete("accounts"))),
     For({"user/update"}, Write(Edit("users-admin"))),
     For({"user/delete"}, Write(Delete("users-admin"))),
     For({"qos/update"}, Write(Edit("qos"))),
     For({"qos/delete"}, Write(Delete("qos")))}

InterfaceRows ==
    ClusterInterfaces \cup NodeInterfaces \cup ConfigurationInterfaces \cup AnalyticsInterfaces
    \cup JobInterfaces \cup ResourceInterfaces \cup AccountInterfaces
Interfaces == TableOf(InterfaceRows)

Paths == {"http", "assistant"}
Handlers == [p \in Paths |-> IF p = "http" THEN Views ELSE Interfaces]

\* _catalog_visible() of the keys of DEFAULT_QUERY_CATALOG_KEYS.
Allowed(u, rule) == Allows(Granted[u], rule)
Catalog(u) ==
       (IF Allowed(u, View("analysis")) THEN {"analysis/context"} ELSE {})
    \cup (IF \E rule \in Either(View("jobs")) : Allowed(u, rule) THEN {"job"} ELSE {})
    \cup (IF Allowed(u, View("jobs-history")) THEN {"jobs/history", "jobs/history/detail"} ELSE {})
    \cup (IF Allowed(u, View("resources"))
             THEN {"nodes", "node", "node/metrics", "node/metrics/history"} ELSE {})
    \cup {"user/tools/analysis"}

----------------------------------------------------------------------------
(* Permissions *)

Has(row, step) == \E n \in DOMAIN row.steps : row.steps[n] = step

\* The policy for a view: some rule of the row.
Permitted(row, u, w) ==
    /\ ~(u \in Anonymous /\ AccessControl)
    /\ \E rule \in row.rules \cup (IF w THEN row.own ELSE {}) : Allowed(u, rule)

\* _require_permission_scope()
Scope(row, u) ==
    IF \E rule \in row.rules : rule.scope = "*" /\ Allowed(u, rule) THEN "*"
    ELSE IF u \notin Anonymous /\ \E rule \in row.rules : Allowed(u, rule) THEN "self"
    ELSE "none"

\* Who may do what on a path, all the checks together.
Permits(p, o, u, w) ==
    LET row == Handlers[p][o]
    IN /\ Has(row, "permission") => Permitted(row, u, w)
       /\ Has(row, "permission-unless-own") => w \/ Permitted(row, u, w)
       /\ Has(row, "owner") \/ Has(row, "own-job") => Scope(row, u) = "*" \/ (w /\ Scope(row, u) = "self")
=============================================================================
