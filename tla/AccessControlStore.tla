------------------------- MODULE AccessControlStore -------------------------
(***************************************************************************)
(* Roles and their assignment in PostgreSQL (AccessControlStore), as the    *)
(* requests of the settings page and the initialisation of the agent's      *)
(* processes use them.                                                      *)
(*                                                                          *)
(* A thread runs one operation at a time.  A step is a statement that other *)
(* transactions can come before or after: under READ COMMITTED each sees    *)
(* what is committed when it begins, and the last one is merged with the    *)
(* commit.                                                                  *)
(***************************************************************************)
EXTENDS PermissionRules, Naturals, Sequences

CONSTANTS
    Threads, Users, Names,
    NoName,     \* name of a role that does not exist
    Catalog,    \* rules the settings page offers
    FirstRoles, \* roles of the database when the processes start
    SeedRoles,  \* default_seed_roles(): sequence of [name, permissions]
    MaxRoles    \* bound: roles ever created

RoleIds == 1..MaxRoles
Role == [name : Names \cup {NoName}, actions : SUBSET Actions, permissions : SUBSET Rules]
NoRole == [name |-> NoName, actions |-> {}, permissions |-> {}]

ASSUME StoreAssumption ==
    /\ MaxRoles \in Nat
    /\ NoName \notin Names
    /\ Catalog \subseteq Rules
    /\ SeedRoles \in Seq([name : Names, permissions : SUBSET Rules])
    /\ FirstRoles \subseteq [RoleIds -> Role]

VARIABLES
    roles,   \* table roles, by id; NoRole for a row that does not exist
    nextId,  \* next id of the table roles
    members, \* table user_roles: ids of the roles of a user
    pc,      \* next step of a thread
    form,    \* role that a thread edits: its id, what it read and what it saves
    asked,   \* user and roles that a thread assigns
    removed, \* rows of user_roles that the DELETE of a thread found
    read,    \* rows of roles that a normalisation read
    granted, \* history: roles last assigned to a user
    deleted, \* history: roles deleted
    edited,  \* history: rules that a role granted when it was last edited
    raced    \* history: roles edited while a normalisation was to write them

history == <<granted, deleted, edited, raced>>
vars == <<roles, nextId, members, pc, form, asked, removed, read, history>>

Assigning == {"check", "clear", "assign"}
Labels == {"start", "normalize", "seed", "insert", "off", "idle", "form", "create", "update"}
          \cup Assigning
Exists(i) == roles[i].name # NoName
NoRows == [i \in RoleIds |-> NoRole]
NoForm == [id |-> 0, opened |-> NoRole, saved |-> NoRole]

-----------------------------------------------------------------------------
(* What a role grants.                                                      *)

\* _derive_permissions()
Derived(role) ==
    IF role.permissions # {} THEN role.permissions ELSE ActionRules(role.actions)

\* What user_permissions() and custom_roles_actions_rules() make of a role.
Grants(role) == ActionRules(role.actions) \cup Derived(role)

\* Faulty variant: a normalised role only keeps permissions.
NormalizedPermissions(role) ==
    [name |-> role.name,
     actions |-> {},
     permissions |-> role.permissions \cup ActionRules(role.actions \cap ConvertedActions)]

\* _normalized_role_actions_permissions()
Normalized(role) ==
    [name |-> role.name,
     actions |-> role.actions \ RemovedActions,
     permissions |-> role.permissions \cup ActionRules(role.actions \cap ConvertedActions)]

\* _role_payload()
Payload(name, actions, permissions) ==
    LET rules == permissions \cup ActionRules(actions)
    IN  [name |-> name,
         actions |-> IF actions = {} THEN LegacyActions(rules) ELSE actions,
         permissions |-> rules]

\* rolePayload() of the settings page, then _role_payload().
PagePayload(name, permissions) == Payload(name, CoveredActions(permissions), permissions)

\* permissions of list_roles()
Listed(role) == Derived(role)

-----------------------------------------------------------------------------
(* Initialisation of a process: the roles are normalised, then seeded.      *)

Init ==
    /\ roles \in FirstRoles
    /\ nextId \in 1..MaxRoles + 1
    /\ \A i \in RoleIds : Exists(i) <=> i < nextId
    /\ members = [u \in Users |-> {}]
    /\ pc = [t \in Threads |-> "start"]
    /\ form = [t \in Threads |-> NoForm]
    /\ asked \in [Threads -> [user : Users, ids : {{}}]]
    /\ removed = [t \in Threads |-> {}]
    /\ read = [t \in Threads |-> NoRows]
    /\ granted = [u \in Users |-> {}]
    /\ deleted = {}
    /\ edited = [i \in RoleIds |-> Grants(roles[i])]
    /\ raced = {}

Goto(t, label) == pc' = [pc EXCEPT ![t] = label]

NormalizeRead(t) ==
    /\ pc[t] = "start"
    /\ read' = [read EXCEPT ![t] = roles]
    /\ Goto(t, "normalize")
    /\ UNCHANGED <<roles, nextId, members, form, asked, removed, history>>

\* Rows that a normalisation writes.
Outdated(rows) ==
    {i \in RoleIds : rows[i].name # NoName /\ Normalized(rows[i]) # rows[i]}

\* A process whose initialisation fails runs without access control.
InitFails(t) ==
    /\ pc[t] \in {"start", "normalize", "seed", "insert"}
    /\ read' = [read EXCEPT ![t] = NoRows]
    /\ Goto(t, "off")
    /\ UNCHANGED <<roles, nextId, members, form, asked, removed, history>>

Restart(t) ==
    /\ pc[t] \in {"idle", "off"}
    /\ Goto(t, "start")
    /\ UNCHANGED <<roles, nextId, members, form, asked, removed, read, history>>

Overwritten(row, role) ==
    [name |-> row.name, actions |-> role.actions, permissions |-> role.permissions]

NormalizeWrite(t) ==
    /\ pc[t] = "normalize"
    /\ read' = [read EXCEPT ![t] = NoRows]
    /\ roles' = [i \in RoleIds |->
                    IF i \in Outdated(read[t]) /\ Exists(i)
                    THEN Overwritten(roles[i], Normalized(read[t][i])) ELSE roles[i]]
    /\ Goto(t, "seed")
    /\ UNCHANGED <<nextId, members, form, asked, removed, history>>

SeedCount(t) ==
    /\ pc[t] = "seed"
    /\ Goto(t, IF \E i \in RoleIds : Exists(i) THEN "idle" ELSE "insert")
    /\ UNCHANGED <<roles, nextId, members, form, asked, removed, read, history>>

SeedRole(seed) ==
    [name |-> seed.name, actions |-> LegacyActions(seed.permissions),
     permissions |-> seed.permissions]
NameTaken(name, id) == \E i \in RoleIds \ {id} : roles[i].name = name

\* The names are unique: the process that inserts one again fails.
SeedInsert(t) ==
    LET ids == nextId..nextId + Len(SeedRoles) - 1
    IN  /\ pc[t] = "insert"
        /\ ids \subseteq RoleIds
        /\ \A k \in DOMAIN SeedRoles : ~NameTaken(SeedRoles[k].name, 0)
        /\ roles' = [i \in RoleIds |->
                        IF i \in ids THEN SeedRole(SeedRoles[i - nextId + 1]) ELSE roles[i]]
        /\ edited' = [i \in RoleIds |-> IF i \in ids THEN Grants(roles'[i]) ELSE edited[i]]
        /\ nextId' = nextId + Len(SeedRoles)
        /\ Goto(t, "idle")
        /\ UNCHANGED <<members, form, asked, removed, read, granted, deleted, raced>>

-----------------------------------------------------------------------------
(* Roles edited through the settings page or the API.                       *)

\* The name is checked when the request comes, and again by the constraint.
Submit(t, id, opened, role) ==
    /\ ~NameTaken(role.name, id)
    /\ form' = [form EXCEPT ![t] = [id |-> id, opened |-> opened, saved |-> role]]
    /\ Goto(t, IF id = 0 THEN "create" ELSE "update")

\* The page opens a form on a role of its list.
OpenForm(t, i) ==
    /\ pc[t] = "idle" /\ Exists(i)
    /\ form' = [form EXCEPT ![t] = [id |-> i, opened |-> roles[i], saved |-> NoRole]]
    /\ Goto(t, "form")
    /\ UNCHANGED <<roles, nextId, members, asked, removed, read, history>>

\* It is saved as it is, or with one rule more or less.
SaveForm(t) ==
    LET opened == form[t].opened
        listed == Listed(opened)
    IN  /\ pc[t] = "form"
        /\ \E permissions \in {listed} \cup {listed \cup {r} : r \in Catalog}
                              \cup {listed \ {r} : r \in Catalog} :
              /\ permissions # {}
              /\ Submit(t, form[t].id, opened, PagePayload(opened.name, permissions))
        /\ UNCHANGED <<roles, nextId, members, asked, removed, read, history>>

NewRole(t, name, permissions) ==
    /\ pc[t] = "idle"
    /\ permissions # {}
    /\ Submit(t, 0, NoRole, PagePayload(name, permissions))
    /\ UNCHANGED <<roles, nextId, members, asked, removed, read, history>>

\* Clients of the API may still send actions only.
NewLegacyRole(t, name, actions) ==
    /\ pc[t] = "idle"
    /\ Submit(t, 0, NoRole, Payload(name, actions, {}))
    /\ UNCHANGED <<roles, nextId, members, asked, removed, read, history>>

Done(t) ==
    /\ Goto(t, "idle")
    /\ form' = [form EXCEPT ![t] = NoForm]

CreateRole(t) ==
    LET role == form[t].saved
    IN  /\ pc[t] = "create"
        /\ nextId \in RoleIds
        /\ ~NameTaken(role.name, 0)
        /\ roles' = [roles EXCEPT ![nextId] = role]
        /\ edited' = [edited EXCEPT ![nextId] = Grants(role)]
        /\ nextId' = nextId + 1
        /\ Done(t)
        /\ UNCHANGED <<members, asked, removed, read, granted, deleted, raced>>

\* A normalisation that read the role before is to overwrite it.
Overlaps(i) == \E t \in Threads : pc[t] = "normalize" /\ i \in Outdated(read[t])

UpdateRole(t) ==
    LET id == form[t].id
        role == form[t].saved
    IN  /\ pc[t] = "update"
        /\ Exists(id) /\ ~NameTaken(role.name, id)
        /\ roles' = [roles EXCEPT ![id] = role]
        /\ edited' = [edited EXCEPT ![id] = Grants(role)]
        /\ raced' = IF Overlaps(id) THEN raced \cup {id} ELSE raced
        /\ Done(t)
        /\ UNCHANGED <<nextId, members, asked, removed, read, granted, deleted>>

\* The name was taken since the check, the role deleted, or the database fails.
EditFails(t) ==
    /\ pc[t] \in {"create", "update", "form"}
    /\ Done(t)
    /\ UNCHANGED <<roles, nextId, members, asked, removed, read, history>>

\* ON DELETE CASCADE of user_roles.
Without(i) == [u \in Users |-> members[u] \ {i}]

DeleteRole(t, i) ==
    /\ pc[t] = "idle" /\ Exists(i)
    /\ roles' = [roles EXCEPT ![i] = NoRole]
    /\ members' = Without(i)
    /\ deleted' = deleted \cup {i}
    /\ UNCHANGED <<nextId, pc, form, asked, removed, read, granted, edited, raced>>

-----------------------------------------------------------------------------
(* set_user_roles(): one transaction.                                       *)

\* Faulty variant: the row of the user is not locked.
RowAlwaysFree(u) == u \in Users

\* ON CONFLICT DO UPDATE locks the row of the user until the commit.
RowFree(u) == \A t \in Threads : ~(pc[t] \in Assigning /\ asked[t].user = u)

EnsureUser(t, u, ids) ==
    /\ pc[t] = "idle"
    /\ RowFree(u)
    /\ asked' = [asked EXCEPT ![t] = [user |-> u, ids |-> ids]]
    /\ Goto(t, "check")
    /\ UNCHANGED <<roles, nextId, members, form, removed, read, history>>

CheckRoles(t) ==
    /\ pc[t] = "check"
    /\ \A i \in asked[t].ids : Exists(i)
    /\ Goto(t, "clear")
    /\ UNCHANGED <<roles, nextId, members, form, asked, removed, read, history>>

\* A statement deletes the rows committed when it begins.
ClearMembers(t) ==
    /\ pc[t] = "clear"
    /\ removed' = [removed EXCEPT ![t] = members[asked[t].user]]
    /\ Goto(t, "assign")
    /\ UNCHANGED <<roles, nextId, members, form, asked, read, history>>

Ended(t) ==
    /\ Goto(t, "idle")
    /\ asked' = [asked EXCEPT ![t] = [user |-> asked[t].user, ids |-> {}]]
    /\ removed' = [removed EXCEPT ![t] = {}]

\* The foreign and the primary key of the rows inserted hold.
AssignMembers(t) ==
    LET u == asked[t].user
        ids == asked[t].ids
        kept == members[u] \ removed[t]
    IN  /\ pc[t] = "assign"
        /\ \A i \in ids : Exists(i) /\ i \notin kept
        /\ members' = [members EXCEPT ![u] = kept \cup ids]
        /\ granted' = [granted EXCEPT ![u] = ids]
        /\ Ended(t)
        /\ UNCHANGED <<roles, nextId, form, read, deleted, edited, raced>>

\* A role does not exist, before or after the check, or the database fails.
AssignFails(t) ==
    /\ pc[t] \in Assigning
    /\ Ended(t)
    /\ UNCHANGED <<roles, nextId, members, form, read, history>>

Next ==
    \E t \in Threads :
        \/ NormalizeRead(t) \/ NormalizeWrite(t) \/ SeedCount(t) \/ SeedInsert(t) \/ InitFails(t)
        \/ Restart(t)
        \/ \E i \in RoleIds : OpenForm(t, i) \/ DeleteRole(t, i)
        \/ SaveForm(t) \/ CreateRole(t) \/ UpdateRole(t) \/ EditFails(t)
        \/ \E name \in Names, permissions \in SUBSET Catalog : NewRole(t, name, permissions)
        \/ \E name \in Names, a \in Actions \ RemovedActions : NewLegacyRole(t, name, {a})
        \/ \E u \in Users, ids \in SUBSET RoleIds : EnsureUser(t, u, ids)
        \/ CheckRoles(t) \/ ClearMembers(t) \/ AssignMembers(t) \/ AssignFails(t)

Spec == Init /\ [][Next]_vars

-----------------------------------------------------------------------------
(* Properties.                                                              *)

\* Types, and the integrity of user_roles: a user only has roles that exist.
TypeOK ==
    /\ roles \in [RoleIds -> Role]
    /\ nextId \in 1..MaxRoles + 1
    /\ pc \in [Threads -> Labels]
    /\ members \in [Users -> SUBSET {i \in RoleIds : Exists(i)}]
    /\ asked \in [Threads -> [user : Users, ids : SUBSET RoleIds]]
    /\ removed \in [Threads -> SUBSET RoleIds]
    /\ read \in [Threads -> [RoleIds -> Role]]
    /\ granted \in [Users -> SUBSET RoleIds]
    /\ edited \in [RoleIds -> SUBSET Rules]
    /\ deleted \subseteq RoleIds /\ raced \subseteq RoleIds

\* The roles of a user are those of the last assignment committed, as a whole,
\* less the roles deleted since: assignments of two administrators never mix
\* (set_user_roles() deletes and inserts under the lock of the user's row).
AssignmentsDoNotMix == \A u \in Users : members[u] = granted[u] \ deleted

\* A role grants what it did when it was last edited, however many processes
\* normalise it, unless it was edited between the SELECT of a normalisation and
\* the write that reverts it (normalize_legacy_role_actions()).
EditsSurvive ==
    \A i \in RoleIds : Exists(i) /\ i \notin raced => Grants(roles[i]) = edited[i]

\* "the legacy actions[] stay supported, so that former roles do not stop
\* working": saving the form of a role without touching its rules leaves what
\* the role grants as it was.
Untouched(t) ==
    /\ pc[t] = "update" /\ form[t].opened = roles[form[t].id]
    /\ form[t].saved.permissions = Listed(form[t].opened)
UnchangedFormsKeepGrants ==
    [][\A t \in Threads :
        Untouched(t) /\ UpdateRole(t) =>
            \A r \in Grants(roles[form[t].id]) : Allows(Grants(roles'[form[t].id]), r)]_vars
=============================================================================
