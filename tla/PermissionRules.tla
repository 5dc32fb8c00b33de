--------------------------- MODULE PermissionRules ---------------------------
(***************************************************************************)
(* Permission rules, resource:operation:scope, and the legacy actions they  *)
(* replace (slurmweb/permission_rules.py).                                  *)
(***************************************************************************)
CONSTANTS
    Resources,        \* resources and patterns of resources
    Everything,       \* the pattern "*"
    Subtree,          \* what "<resource>/*" matches, {} for a plain resource
    Actions,          \* legacy actions
    LegacyMap,        \* rules of an action, {} when it is not in the map
    RemovedActions,   \* REMOVED_ROLE_ACTIONS
    ConvertedActions  \* admin-manage and view-ai

Operations == {"view", "edit", "delete", "*"}
Scopes == {"*", "self"}
Rules == [resource : Resources, operation : Operations, scope : Scopes]

\* A pattern matches what the patterns it matches do; the removed actions are
\* not in the map.
ASSUME RulesAssumption ==
    /\ Everything \in Resources
    /\ Subtree \in [Resources -> SUBSET Resources]
    /\ \A g \in Resources : \A r \in Subtree[g] : r # Everything /\ Subtree[r] \subseteq Subtree[g]
    /\ LegacyMap \in [Actions -> SUBSET Rules]
    /\ RemovedActions \subseteq Actions /\ ConvertedActions \subseteq Actions
    /\ \A a \in RemovedActions : LegacyMap[a] = {}

ResourceMatches(granted, requested) ==
    \/ granted \in {Everything, requested}
    \/ requested \in Subtree[granted]

OperationAllows(granted, requested) ==
    \/ granted = "*"
    \/ requested = "view"
    \/ granted = requested

\* permission_rule_allows()
RuleAllows(rule, asked) ==
    /\ ResourceMatches(rule.resource, asked.resource)
    /\ OperationAllows(rule.operation, asked.operation)
    /\ rule.scope \in {"*", asked.scope}

\* permission_rules_allow()
Allows(rules, asked) == \E rule \in rules : RuleAllows(rule, asked)

\* legacy_actions_to_rules()
ActionRules(actions) == UNION {LegacyMap[a] : a \in actions}

\* permission_rules_to_legacy_actions(): one rule of the action is enough.
LegacyActions(rules) ==
    {a \in Actions : \E asked \in LegacyMap[a] : Allows(rules, asked)}

\* permissionsToActions() of the settings page: every rule of it is needed.
CoveredActions(rules) ==
    {a \in Actions : LegacyMap[a] # {} /\ \A asked \in LegacyMap[a] : Allows(rules, asked)}
=============================================================================
