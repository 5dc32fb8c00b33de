------------------------- MODULE AccessControlProofs -------------------------
(***************************************************************************)
(* Safety of the roles and of their assignment, for any number of threads,  *)
(* users, roles and rules, and whatever the legacy map.                     *)
(***************************************************************************)
EXTENDS AccessControlStore, TLAPS

-----------------------------------------------------------------------------
(* What a role grants does not depend on its normalisation.                 *)

LEMMA GrantsOfRole ==
    ASSUME NEW r \in Role
    PROVE  Grants(r) = ActionRules(r.actions) \cup r.permissions
BY DEF Grants, Derived, Role

LEMMA ActionRulesAreRules ==
    ASSUME NEW a \in SUBSET Actions
    PROVE  ActionRules(a) \in SUBSET Rules
BY RulesAssumption DEF ActionRules

LEMMA GrantsAreRules ==
    ASSUME NEW r \in Role
    PROVE  Grants(r) \in SUBSET Rules
BY GrantsOfRole, ActionRulesAreRules DEF Role

LEMMA NormalizedIsRole ==
    ASSUME NEW r \in Role
    PROVE  /\ Normalized(r) \in Role
           /\ Normalized(r).actions = r.actions \ RemovedActions
           /\ Normalized(r).permissions =
                  r.permissions \cup ActionRules(r.actions \cap ConvertedActions)
<1> DEFINE new == ActionRules(r.actions \cap ConvertedActions)
<1>1. new \in SUBSET Rules
      BY ActionRulesAreRules DEF Role
<1> QED
    BY <1>1 DEF Normalized, Role

\* A removed action stands for no rule, and the rules a role is given are those
\* of actions it keeps.
LEMMA NormalizedGrants ==
    ASSUME NEW r \in Role
    PROVE  Grants(Normalized(r)) = Grants(r)
<1>1. ActionRules(r.actions \ RemovedActions) = ActionRules(r.actions)
      BY RulesAssumption DEF ActionRules, Role
<1>2. ActionRules(r.actions \cap ConvertedActions) \subseteq ActionRules(r.actions)
      BY DEF ActionRules
<1> QED
    BY <1>1, <1>2, NormalizedIsRole, GrantsOfRole

-----------------------------------------------------------------------------
(* Types.                                                                   *)

Types ==
    /\ roles \in [RoleIds -> Role]
    /\ nextId \in Nat \ {0}
    /\ members \in [Users -> SUBSET RoleIds]
    /\ pc \in [Threads -> Labels]
    /\ form \in [Threads -> [id : Nat, opened : Role, saved : Role]]
    /\ asked \in [Threads -> [user : Users, ids : SUBSET RoleIds]]
    /\ removed \in [Threads -> SUBSET RoleIds]
    /\ read \in [Threads -> [RoleIds -> Role]]
    /\ granted \in [Users -> SUBSET RoleIds]
    /\ edited \in [RoleIds -> SUBSET Rules]
    /\ deleted \subseteq RoleIds

LEMMA NoRoleIsRole == NoRole \in Role
BY DEF NoRole, Role

LEMMA PayloadIsRole ==
    ASSUME NEW name \in Names \cup {NoName}, NEW a \in SUBSET Actions, NEW p \in SUBSET Rules
    PROVE  Payload(name, a, p) \in Role
BY RulesAssumption DEF Payload, Role, LegacyActions, ActionRules

LEMMA PagePayloadIsRole ==
    ASSUME NEW name \in Names \cup {NoName}, NEW p \in SUBSET Rules
    PROVE  PagePayload(name, p) \in Role
<1>1. CoveredActions(p) \in SUBSET Actions
      BY DEF CoveredActions
<1> QED
    BY <1>1, PayloadIsRole DEF PagePayload

LEMMA InitTypes == Init => Types
<1> SUFFICES ASSUME Init
             PROVE  Types
    OBVIOUS
<1> USE DEF Init
<1>1. roles \in [RoleIds -> Role] /\ nextId \in Nat \ {0} /\ deleted \subseteq RoleIds
      BY StoreAssumption
<1>2. members \in [Users -> SUBSET RoleIds] /\ granted \in [Users -> SUBSET RoleIds]
      OBVIOUS
<1>3. pc \in [Threads -> Labels]
      BY DEF Labels
<1>4. form \in [Threads -> [id : Nat, opened : Role, saved : Role]]
      BY NoRoleIsRole DEF NoForm
<1>5. asked \in [Threads -> [user : Users, ids : SUBSET RoleIds]]
      OBVIOUS
<1>6. read \in [Threads -> [RoleIds -> Role]]
      BY NoRoleIsRole DEF NoRows
<1>8. removed \in [Threads -> SUBSET RoleIds]
      OBVIOUS
<1>7. edited \in [RoleIds -> SUBSET Rules]
      BY <1>1, GrantsAreRules
<1> QED
    BY <1>1, <1>2, <1>3, <1>4, <1>5, <1>6, <1>7, <1>8 DEF Types

LEMMA TypesStep == Types /\ [Next]_vars => Types'
<1> SUFFICES ASSUME Types, [Next]_vars
             PROVE  Types'
    OBVIOUS
<1> USE StoreAssumption DEF Types, Goto, history, Labels, Assigning
<1>1. ASSUME NEW t \in Threads, NormalizeRead(t)
      PROVE  Types'
      BY <1>1 DEF NormalizeRead
<1>2. ASSUME NEW t \in Threads, NormalizeWrite(t)
      PROVE  Types'
      <2>1. \A i \in RoleIds : Overwritten(roles[i], Normalized(read[t][i])) \in Role
            <3>1. \A i \in RoleIds : roles[i] \in Role /\ read[t][i] \in Role
                  OBVIOUS
            <3>3. \A i \in RoleIds : Normalized(read[t][i]) \in Role
                  BY <3>1, NormalizedIsRole
            <3>2. \A r, s \in Role : Overwritten(r, s) \in Role
                  BY DEF Overwritten, Role
            <3> QED
                BY <3>1, <3>2, <3>3
      <2>2. NoRows \in [RoleIds -> Role]
            BY NoRoleIsRole DEF NoRows
      <2> QED
          BY <1>2, <2>1, <2>2 DEF NormalizeWrite
<1>3. ASSUME NEW t \in Threads, SeedCount(t) \/ Restart(t)
      PROVE  Types'
      BY <1>3 DEF SeedCount, Restart
<1>4. ASSUME NEW t \in Threads, SeedInsert(t)
      PROVE  Types'
      <2>1. \A k \in DOMAIN SeedRoles : SeedRole(SeedRoles[k]) \in Role
            <3> DEFINE S == [name : Names, permissions : SUBSET Rules]
            <3>1. \A k \in DOMAIN SeedRoles : SeedRoles[k] \in S
                  <4>1. SeedRoles \in Seq(S)
                        BY StoreAssumption
                  <4> HIDE DEF S
                  <4> QED
                      BY <4>1
            <3>2. \A s \in [name : Names, permissions : SUBSET Rules] : SeedRole(s) \in Role
                  BY DEF SeedRole, LegacyActions, Role
            <3> QED
                BY <3>1, <3>2
      <2>2. roles' \in [RoleIds -> Role]
            BY <1>4, <2>1 DEF SeedInsert
      <2>3. edited' \in [RoleIds -> SUBSET Rules]
            BY <1>4, <2>2, GrantsAreRules DEF SeedInsert
      <2>4. nextId' \in Nat \ {0}
            BY <1>4 DEF SeedInsert
      <2> QED
          BY <1>4, <2>2, <2>3, <2>4 DEF SeedInsert
<1>5. ASSUME NEW t \in Threads, InitFails(t)
      PROVE  Types'
      <2>1. NoRows \in [RoleIds -> Role]
            BY NoRoleIsRole DEF NoRows
      <2> QED
          BY <1>5, <2>1 DEF InitFails
<1>6. ASSUME NEW t \in Threads, NEW i \in RoleIds, OpenForm(t, i)
      PROVE  Types'
      BY <1>6, NoRoleIsRole DEF OpenForm, RoleIds
<1>7. ASSUME NEW t \in Threads, NEW i \in RoleIds, DeleteRole(t, i)
      PROVE  Types'
      BY <1>7, NoRoleIsRole DEF DeleteRole, Without
<1>8. ASSUME NEW t \in Threads, SaveForm(t)
      PROVE  Types'
      <2> DEFINE listed == Listed(form[t].opened)
      <2>1. listed \in SUBSET Rules /\ form[t].opened \in Role /\ form[t].id \in Nat
            BY ActionRulesAreRules DEF Listed, Derived, Role
      <2>2. PICK x \in {listed} \cup {listed \cup {r} : r \in Catalog}
                              \cup {listed \ {r} : r \in Catalog} :
                Submit(t, form[t].id, form[t].opened, PagePayload(form[t].opened.name, x))
            BY <1>8 DEF SaveForm
      <2>3. x \in SUBSET Rules
            BY <2>1, <2>2
      <2>4. PagePayload(form[t].opened.name, x) \in Role
            BY <2>1, <2>3, PagePayloadIsRole DEF Role
      <2> HIDE DEF listed
      <2> QED
          BY <1>8, <2>1, <2>2, <2>4 DEF SaveForm, Submit
<1>9. ASSUME NEW t \in Threads, NEW n \in Names, NEW x \in SUBSET Catalog, NewRole(t, n, x)
      PROVE  Types'
      <2>1. PagePayload(n, x) \in Role
            BY PagePayloadIsRole DEF Role
      <2> QED
          BY <1>9, <2>1, NoRoleIsRole DEF NewRole, Submit
<1>10. ASSUME NEW t \in Threads, NEW n \in Names, NEW a \in Actions \ RemovedActions,
              NewLegacyRole(t, n, {a})
       PROVE  Types'
      <2>1. Payload(n, {a}, {}) \in Role
            <3>1. {a} \in SUBSET Actions /\ {} \in SUBSET Rules /\ n \in Names \cup {NoName}
                  OBVIOUS
            <3> QED
                BY <3>1, PayloadIsRole
      <2> QED
          BY <1>10, <2>1, NoRoleIsRole DEF NewLegacyRole, Submit
<1>11. ASSUME NEW t \in Threads, CreateRole(t) \/ UpdateRole(t) \/ EditFails(t)
       PROVE  Types'
      <2>1. NoForm \in [id : Nat, opened : Role, saved : Role]
            BY NoRoleIsRole DEF NoForm
      <2>2. Grants(form[t].saved) \in SUBSET Rules /\ form[t].saved \in Role
            BY GrantsAreRules
      <2>3. CASE CreateRole(t)
            BY <2>1, <2>2, <2>3 DEF CreateRole, Done
      <2>4. CASE UpdateRole(t)
            BY <2>1, <2>2, <2>4 DEF UpdateRole, Done
      <2>5. CASE EditFails(t)
            BY <2>1, <2>5 DEF EditFails, Done
      <2> QED
          BY <1>11, <2>3, <2>4, <2>5
<1>12. ASSUME NEW t \in Threads, NEW u \in Users, NEW ids \in SUBSET RoleIds,
              EnsureUser(t, u, ids)
       PROVE  Types'
      BY <1>12 DEF EnsureUser
<1>13. ASSUME NEW t \in Threads, CheckRoles(t) \/ ClearMembers(t)
       PROVE  Types'
      BY <1>13 DEF CheckRoles, ClearMembers
<1>14. ASSUME NEW t \in Threads, AssignMembers(t) \/ AssignFails(t)
       PROVE  Types'
      <2>1. /\ Goto(t, "idle") /\ asked' = [asked EXCEPT ![t] = [user |-> asked[t].user, ids |-> {}]]
            /\ removed' = [removed EXCEPT ![t] = {}]
            /\ UNCHANGED <<roles, nextId, form, read, deleted, edited>>
            BY <1>14 DEF AssignMembers, AssignFails, Ended
      <2>2. asked[t].user \in Users /\ asked[t].ids \in SUBSET RoleIds
            OBVIOUS
      <2>3. members' \in [Users -> SUBSET RoleIds] /\ granted' \in [Users -> SUBSET RoleIds]
            <3>1. CASE AssignMembers(t)
                  <4> DEFINE new == (members[asked[t].user] \ removed[t]) \cup asked[t].ids
                  <4>1. new \in SUBSET RoleIds
                        BY <2>2
                  <4>2. members' = [members EXCEPT ![asked[t].user] = new]
                        /\ granted' = [granted EXCEPT ![asked[t].user] = asked[t].ids]
                        BY <3>1 DEF AssignMembers
                  <4> HIDE DEF new
                  <4> QED
                      BY <2>2, <4>1, <4>2
            <3>2. CASE AssignFails(t)
                  BY <3>2 DEF AssignFails
            <3> QED
                BY <1>14, <3>1, <3>2
      <2>4. asked' \in [Threads -> [user : Users, ids : SUBSET RoleIds]]
            BY <2>1, <2>2
      <2>5. pc' \in [Threads -> Labels] /\ removed' \in [Threads -> SUBSET RoleIds]
            BY <2>1
      <2> QED
          BY <2>1, <2>3, <2>4, <2>5
<1>15. CASE UNCHANGED vars
      BY <1>15 DEF vars
<1> QED
    BY <1>1, <1>2, <1>3, <1>4, <1>5, <1>6, <1>7, <1>8, <1>9, <1>10, <1>11, <1>12, <1>13,
       <1>14, <1>15 DEF Next

-----------------------------------------------------------------------------
(* Assignments.                                                             *)

\* One transaction at a time assigns the roles of a user, its DELETE found all
\* the roles the user has, and a deleted role does not come back.
Locked ==
    \A s, t \in Threads :
        pc[s] \in Assigning /\ pc[t] \in Assigning /\ asked[s].user = asked[t].user => s = t

Cleared == \A t \in Threads : pc[t] = "assign" => members[asked[t].user] \subseteq removed[t]

StayDeleted ==
    \A i \in RoleIds :
        /\ i \in deleted => ~Exists(i)
        /\ Exists(i) \/ i \in deleted => i < nextId

\* The roles that exist after a step existed before or have a new id.
OnlyNewRoles == \A i \in RoleIds : Exists(i)' => Exists(i) \/ (nextId <= i /\ i < nextId')

AssignInv == Types /\ Locked /\ Cleared /\ StayDeleted /\ AssignmentsDoNotMix

LEMMA InitAssign == Init => AssignInv
<1> SUFFICES ASSUME Init
             PROVE  Locked /\ Cleared /\ StayDeleted /\ AssignmentsDoNotMix
    BY InitTypes DEF AssignInv
<1> QED
    BY DEF Init, Locked, Cleared, StayDeleted, AssignmentsDoNotMix, Assigning

\* The actions that do not touch the assignments.
LEMMA Elsewhere ==
    ASSUME AssignInv,
           NEW t \in Threads, pc[t] \notin Assigning, NEW label \in Labels \ Assigning,
           Goto(t, label), UNCHANGED <<members, asked, removed, granted, deleted>>,
           nextId' \in Nat, nextId <= nextId', OnlyNewRoles
    PROVE  Locked' /\ Cleared' /\ StayDeleted' /\ AssignmentsDoNotMix'
<1> USE DEF AssignInv, Types, Goto
<1>1. Locked' /\ Cleared'
      BY DEF Locked, Cleared, Assigning
<1>2. StayDeleted'
      BY DEF StayDeleted, OnlyNewRoles, RoleIds
<1> QED
    BY <1>1, <1>2 DEF AssignmentsDoNotMix

LEMMA AssignStep == AssignInv /\ [Next]_vars => AssignInv'
<1> SUFFICES ASSUME AssignInv, [Next]_vars
             PROVE  Locked' /\ Cleared' /\ StayDeleted' /\ AssignmentsDoNotMix'
    BY TypesStep DEF AssignInv
<1> USE DEF history
<1>0. nextId \in Nat
      BY DEF AssignInv, Types
<1>1. ASSUME NEW t \in Threads, NormalizeRead(t)
      PROVE  Locked' /\ Cleared' /\ StayDeleted' /\ AssignmentsDoNotMix'
      BY <1>0, <1>1, Elsewhere DEF OnlyNewRoles, Exists, NormalizeRead, Labels, Assigning
<1>2. ASSUME NEW t \in Threads, NormalizeWrite(t)
      PROVE  Locked' /\ Cleared' /\ StayDeleted' /\ AssignmentsDoNotMix'
      <2>1. OnlyNewRoles
            BY <1>2 DEF NormalizeWrite, Overwritten, OnlyNewRoles, Exists
      <2> QED
          BY <1>0, <1>2, <2>1, Elsewhere DEF NormalizeWrite, Labels, Assigning
<1>3. ASSUME NEW t \in Threads, SeedCount(t)
      PROVE  Locked' /\ Cleared' /\ StayDeleted' /\ AssignmentsDoNotMix'
      BY <1>0, <1>3, Elsewhere DEF OnlyNewRoles, Exists, SeedCount, Labels, Assigning
<1>4. ASSUME NEW t \in Threads, SeedInsert(t)
      PROVE  Locked' /\ Cleared' /\ StayDeleted' /\ AssignmentsDoNotMix'
      <2>2. Len(SeedRoles) \in Nat /\ nextId' = nextId + Len(SeedRoles)
            BY <1>4, StoreAssumption DEF SeedInsert
      <2>1. OnlyNewRoles
            <3> SUFFICES ASSUME NEW i \in RoleIds, Exists(i)', ~Exists(i)
                         PROVE  nextId <= i /\ i < nextId'
                BY DEF OnlyNewRoles
            <3>1. i \in nextId..nextId + Len(SeedRoles) - 1
                  BY <1>4 DEF SeedInsert, Exists
            <3> QED
                BY <1>0, <2>2, <3>1
      <2>3. nextId' \in Nat /\ nextId <= nextId'
            BY <1>0, <2>2
      <2> QED
          BY <1>4, <2>1, <2>3, Elsewhere DEF SeedInsert, Labels, Assigning
<1>5. ASSUME NEW t \in Threads, InitFails(t) \/ Restart(t)
      PROVE  Locked' /\ Cleared' /\ StayDeleted' /\ AssignmentsDoNotMix'
      BY <1>0, <1>5, Elsewhere DEF OnlyNewRoles, Exists, InitFails, Restart, Labels, Assigning
<1>6. ASSUME NEW t \in Threads, NEW i \in RoleIds, OpenForm(t, i)
      PROVE  Locked' /\ Cleared' /\ StayDeleted' /\ AssignmentsDoNotMix'
      BY <1>0, <1>6, Elsewhere DEF OnlyNewRoles, Exists, OpenForm, Labels, Assigning
<1>7. ASSUME NEW t \in Threads, NEW i \in RoleIds, DeleteRole(t, i)
      PROVE  Locked' /\ Cleared' /\ StayDeleted' /\ AssignmentsDoNotMix'
      <2> USE DEF AssignInv, Types, DeleteRole, Without
      <2>1. Locked' /\ Cleared'
            BY <1>7 DEF Locked, Cleared, Assigning
      <2>3. StayDeleted'
            BY <1>7 DEF StayDeleted, Exists, NoRole
      <2>4. AssignmentsDoNotMix'
            BY <1>7 DEF AssignmentsDoNotMix
      <2> QED
          BY <2>1, <2>3, <2>4
<1>8. ASSUME NEW t \in Threads, SaveForm(t)
      PROVE  Locked' /\ Cleared' /\ StayDeleted' /\ AssignmentsDoNotMix'
      <2>1. \/ Goto(t, "create")
            \/ Goto(t, "update")
            BY <1>8 DEF SaveForm, Submit, Goto
      <2> QED
          BY <1>0, <1>8, <2>1, Elsewhere DEF OnlyNewRoles, Exists, SaveForm, Labels, Assigning
<1>9. ASSUME NEW t \in Threads, NEW n \in Names, NEW x \in SUBSET Catalog, NewRole(t, n, x)
      PROVE  Locked' /\ Cleared' /\ StayDeleted' /\ AssignmentsDoNotMix'
      BY <1>0, <1>9, Elsewhere DEF OnlyNewRoles, Exists, NewRole, Submit, Labels, Assigning
<1>10. ASSUME NEW t \in Threads, NEW n \in Names, NEW a \in Actions \ RemovedActions,
              NewLegacyRole(t, n, {a})
       PROVE  Locked' /\ Cleared' /\ StayDeleted' /\ AssignmentsDoNotMix'
       BY <1>0, <1>10, Elsewhere DEF OnlyNewRoles, Exists, NewLegacyRole, Submit, Labels, Assigning
<1>11. ASSUME NEW t \in Threads, CreateRole(t)
       PROVE  Locked' /\ Cleared' /\ StayDeleted' /\ AssignmentsDoNotMix'
       <2>1. OnlyNewRoles
             BY <1>0, <1>11 DEF CreateRole, OnlyNewRoles, Exists
       <2> QED
           BY <1>0, <1>11, <2>1, Elsewhere DEF CreateRole, Done, Labels, Assigning
<1>12. ASSUME NEW t \in Threads, UpdateRole(t)
       PROVE  Locked' /\ Cleared' /\ StayDeleted' /\ AssignmentsDoNotMix'
       <2>1. OnlyNewRoles
             BY <1>12 DEF UpdateRole, OnlyNewRoles, Exists
       <2> QED
           BY <1>0, <1>12, <2>1, Elsewhere DEF UpdateRole, Done, Labels, Assigning
<1>13. ASSUME NEW t \in Threads, EditFails(t)
       PROVE  Locked' /\ Cleared' /\ StayDeleted' /\ AssignmentsDoNotMix'
       BY <1>0, <1>13, Elsewhere DEF OnlyNewRoles, Exists, EditFails, Done, Labels, Assigning
<1>14. ASSUME NEW t \in Threads, NEW u \in Users, NEW ids \in SUBSET RoleIds,
              EnsureUser(t, u, ids)
       PROVE  Locked' /\ Cleared' /\ StayDeleted' /\ AssignmentsDoNotMix'
       BY <1>14 DEF EnsureUser, RowFree, Goto, AssignInv, Types, Locked, Cleared, StayDeleted,
                    AssignmentsDoNotMix, Assigning, Exists
<1>15. ASSUME NEW t \in Threads, CheckRoles(t)
       PROVE  Locked' /\ Cleared' /\ StayDeleted' /\ AssignmentsDoNotMix'
       BY <1>15 DEF CheckRoles, Goto, AssignInv, Types, Locked, Cleared, StayDeleted,
                    AssignmentsDoNotMix, Assigning, Exists
<1>16. ASSUME NEW t \in Threads, ClearMembers(t)
       PROVE  Locked' /\ Cleared' /\ StayDeleted' /\ AssignmentsDoNotMix'
       BY <1>16 DEF ClearMembers, Goto, AssignInv, Types, Locked, Cleared, StayDeleted,
                    AssignmentsDoNotMix, Assigning, Exists
<1>17. ASSUME NEW t \in Threads, AssignMembers(t)
       PROVE  Locked' /\ Cleared' /\ StayDeleted' /\ AssignmentsDoNotMix'
       <2> DEFINE u == asked[t].user
       <2> USE DEF AssignInv, Types
       <2>1. /\ pc[t] = "assign" /\ pc' = [pc EXCEPT ![t] = "idle"]
             /\ asked' = [asked EXCEPT ![t] = [user |-> asked[t].user, ids |-> {}]]
             /\ removed' = [removed EXCEPT ![t] = {}]
             /\ UNCHANGED <<roles, nextId, deleted>>
             /\ \A i \in asked[t].ids : Exists(i)
             BY <1>17 DEF AssignMembers, Ended, Goto
       <2>2. u \in Users /\ members[u] \ removed[t] = {}
             BY <2>1 DEF Cleared
       <2>3. /\ members' = [members EXCEPT ![u] = asked[t].ids]
             /\ granted' = [granted EXCEPT ![u] = asked[t].ids]
             BY <1>17, <2>2 DEF AssignMembers
       <2>4. \A s \in Threads \ {t} : pc'[s] \in Assigning => asked'[s].user # u
             BY <2>1 DEF Locked, Assigning
       <2>5. Locked'
             BY <2>1 DEF Locked, Assigning
       <2>6. Cleared'
             <3> SUFFICES ASSUME NEW s \in Threads, pc'[s] = "assign"
                          PROVE  members'[asked'[s].user] \subseteq removed'[s]
                 BY DEF Cleared
             <3>1. s # t /\ asked'[s].user # u /\ asked'[s] = asked[s] /\ removed'[s] = removed[s]
                   BY <2>1, <2>4 DEF Assigning
             <3>2. asked[s].user \in Users
                   OBVIOUS
             <3> HIDE DEF u
             <3>3. members'[asked'[s].user] = members[asked[s].user]
                   BY <2>2, <2>3, <3>1, <3>2
             <3>4. pc[s] = "assign"
                   BY <2>1, <3>1
             <3> QED
                 BY <3>1, <3>3, <3>4 DEF Cleared
       <2>7. StayDeleted'
             BY <2>1 DEF StayDeleted, Exists
       <2>8. asked[t].ids \cap deleted = {}
             BY <2>1 DEF StayDeleted
       <2> HIDE DEF u
       <2>9. AssignmentsDoNotMix'
             BY <2>1, <2>2, <2>3, <2>8 DEF AssignmentsDoNotMix
       <2> QED
           BY <2>5, <2>6, <2>7, <2>9
<1>18. ASSUME NEW t \in Threads, AssignFails(t)
       PROVE  Locked' /\ Cleared' /\ StayDeleted' /\ AssignmentsDoNotMix'
       BY <1>18 DEF AssignFails, Ended, Goto, AssignInv, Types, Locked, Cleared, StayDeleted,
                    AssignmentsDoNotMix, Assigning, Exists
<1>19. CASE UNCHANGED vars
       BY <1>19 DEF vars, AssignInv, Locked, Cleared, StayDeleted, AssignmentsDoNotMix, Exists
<1> QED
    BY <1>1, <1>2, <1>3, <1>4, <1>5, <1>6, <1>7, <1>8, <1>9, <1>10, <1>11, <1>12, <1>13,
       <1>14, <1>15, <1>16, <1>17, <1>18, <1>19 DEF Next

\* The roles of a user are those of the last assignment committed, whoever else
\* assigns or deletes roles (set_user_roles() locks the row of the user first).
THEOREM AssignmentsAreWhole == Spec => []AssignmentsDoNotMix
<1>1. AssignInv => AssignmentsDoNotMix
      BY DEF AssignInv
<1> QED
    BY InitAssign, AssignStep, <1>1, PTL DEF Spec

-----------------------------------------------------------------------------
(* Edits.                                                                   *)

\* A normalisation is to write what the roles it read granted, which is what
\* they were last edited to grant, and has read no role created since.
Faithful == \A i \in RoleIds : Exists(i) /\ i \notin raced => Grants(roles[i]) = edited[i]

ReadFaithful ==
    \A t \in Threads : \A i \in RoleIds :
        pc[t] = "normalize" /\ i \in Outdated(read[t]) /\ Exists(i) /\ i \notin raced
            => Grants(read[t][i]) = edited[i]

Unread ==
    \A i \in RoleIds :
        nextId <= i => ~Exists(i) /\ \A t \in Threads : read[t][i].name = NoName

EditInv == Types /\ Faithful /\ ReadFaithful /\ Unread

LEMMA InitEdit == Init => EditInv
<1> SUFFICES ASSUME Init
             PROVE  Faithful /\ ReadFaithful /\ Unread
    BY InitTypes DEF EditInv
<1>1. Faithful
      BY DEF Init, Faithful
<1>4. ReadFaithful
      BY DEF Init, ReadFaithful
<1>2. nextId \in Nat
      BY InitTypes DEF Types
<1>3. Unread
      BY <1>2 DEF Init, Unread, NoRows, NoRole, RoleIds
<1> QED
    BY <1>1, <1>3, <1>4

LEMMA OverwrittenGrants ==
    ASSUME NEW r \in Role, NEW s \in Role
    PROVE  Grants(Overwritten(r, s)) = Grants(s)
BY DEF Grants, Derived, Overwritten

\* The actions that leave the roles alone.
LEMMA NoEdit ==
    ASSUME EditInv, UNCHANGED <<roles, nextId, edited, raced>>,
           NEW t \in Threads, NEW label \in Labels \ {"normalize"}, Goto(t, label),
           \/ UNCHANGED read
           \/ read' = [read EXCEPT ![t] = NoRows]
    PROVE  Faithful' /\ ReadFaithful' /\ Unread'
<1> USE DEF EditInv, Types, Goto
<1>1. Faithful'
      BY DEF Faithful, Exists
<1>2. ReadFaithful'
      <2> SUFFICES ASSUME NEW s \in Threads, NEW i \in RoleIds,
                          pc'[s] = "normalize", i \in Outdated(read'[s]), Exists(i), i \notin raced
                   PROVE  Grants(read'[s][i]) = edited[i]
          BY DEF ReadFaithful, Outdated, Exists
      <2>1. s # t /\ pc[s] = "normalize"
            OBVIOUS
      <2>2. read'[s] = read[s]
            BY <2>1
      <2> QED
          BY <2>1, <2>2 DEF ReadFaithful
<1>3. Unread'
      <2>1. \A s \in Threads, i \in RoleIds :
                read'[s][i] = read[s][i] \/ read'[s][i].name = NoName
            <3>1. CASE UNCHANGED read
                  BY <3>1
            <3>2. CASE read' = [read EXCEPT ![t] = NoRows]
                  BY <3>2 DEF NoRows, NoRole
            <3> QED
                BY <3>1, <3>2
      <2> QED
          BY <2>1 DEF Unread, Exists
<1> QED
    BY <1>1, <1>2, <1>3

LEMMA EditStep == EditInv /\ [Next]_vars => EditInv'
<1> SUFFICES ASSUME EditInv, [Next]_vars
             PROVE  Faithful' /\ ReadFaithful' /\ Unread'
    BY TypesStep DEF EditInv
<1> USE DEF history
<1>0. nextId \in Nat /\ roles \in [RoleIds -> Role] /\ read \in [Threads -> [RoleIds -> Role]]
      BY DEF EditInv, Types
<1>1. ASSUME NEW t \in Threads, NormalizeRead(t)
      PROVE  Faithful' /\ ReadFaithful' /\ Unread'
      <2> USE DEF EditInv, Types, NormalizeRead, Goto
      <2>1. Faithful'
            BY <1>1 DEF Faithful, Exists
      <2>2. ReadFaithful'
            BY <1>1 DEF ReadFaithful, Faithful, Exists
      <2>3. Unread'
            BY <1>1 DEF Unread, Exists
      <2> QED
          BY <2>1, <2>2, <2>3
<1>2. ASSUME NEW t \in Threads, NormalizeWrite(t)
      PROVE  Faithful' /\ ReadFaithful' /\ Unread'
      <2> DEFINE new(i) == Overwritten(roles[i], Normalized(read[t][i]))
      <2>1. ASSUME NEW i \in RoleIds
            PROVE  Grants(new(i)) = Grants(read[t][i]) /\ new(i).name = roles[i].name
            <3>1. Normalized(read[t][i]) \in Role /\ roles[i] \in Role /\ read[t][i] \in Role
                  BY <1>0, NormalizedIsRole
            <3> QED
                BY <3>1, OverwrittenGrants, NormalizedGrants DEF Overwritten
      <2>2. /\ pc[t] = "normalize" /\ pc' = [pc EXCEPT ![t] = "seed"]
            /\ roles' = [i \in RoleIds |->
                            IF i \in Outdated(read[t]) /\ Exists(i) THEN new(i) ELSE roles[i]]
            /\ read' = [read EXCEPT ![t] = NoRows]
            /\ UNCHANGED <<nextId, edited, raced>>
            BY <1>2 DEF NormalizeWrite, Goto
      <2> HIDE DEF new
      <2>3. \A i \in RoleIds : Exists(i)' <=> Exists(i)
            BY <2>1, <2>2 DEF Exists
      <2>4. Faithful'
            BY <2>1, <2>2, <2>3 DEF EditInv, Faithful, ReadFaithful
      <2>5. ReadFaithful'
            BY <1>0, <2>2, <2>3 DEF EditInv, Types, ReadFaithful
      <2>6. Unread'
            BY <1>0, <2>2, <2>3 DEF EditInv, Unread, NoRows, NoRole
      <2> QED
          BY <2>4, <2>5, <2>6
<1>3. ASSUME NEW t \in Threads, SeedCount(t) \/ InitFails(t) \/ Restart(t)
      PROVE  Faithful' /\ ReadFaithful' /\ Unread'
      BY <1>3, NoEdit DEF SeedCount, InitFails, Restart, Labels
<1>4. ASSUME NEW t \in Threads, SeedInsert(t)
      PROVE  Faithful' /\ ReadFaithful' /\ Unread'
      <2> DEFINE ids == nextId..nextId + Len(SeedRoles) - 1
      <2>1. Len(SeedRoles) \in Nat
            BY StoreAssumption
      <2>2. /\ roles' = [i \in RoleIds |->
                          IF i \in ids THEN SeedRole(SeedRoles[i - nextId + 1]) ELSE roles[i]]
            /\ edited' = [i \in RoleIds |-> IF i \in ids THEN Grants(roles'[i]) ELSE edited[i]]
            /\ nextId' = nextId + Len(SeedRoles)
            /\ pc[t] # "normalize" /\ pc' = [pc EXCEPT ![t] = "idle"]
            /\ UNCHANGED <<read, raced>>
            BY <1>4 DEF SeedInsert, Goto
      <2>3. \A i \in ids : nextId <= i /\ i < nextId'
            BY <1>0, <2>1, <2>2
      <2>4. \A i \in RoleIds : nextId' <= i => nextId <= i /\ i \notin ids
            BY <1>0, <2>1, <2>2, <2>3 DEF RoleIds
      <2> HIDE DEF ids
      <2>5. Faithful'
            BY <2>2 DEF EditInv, Faithful, Exists
      <2>6. ReadFaithful'
            BY <1>0, <2>2, <2>3 DEF EditInv, Types, ReadFaithful, Unread, Outdated, Exists
      <2>7. Unread'
            BY <2>2, <2>4 DEF EditInv, Unread, Exists
      <2> QED
          BY <2>5, <2>6, <2>7
<1>5. ASSUME NEW t \in Threads, NEW i \in RoleIds, OpenForm(t, i)
      PROVE  Faithful' /\ ReadFaithful' /\ Unread'
      BY <1>5, NoEdit DEF OpenForm, Labels
<1>6. ASSUME NEW t \in Threads, NEW i \in RoleIds, DeleteRole(t, i)
      PROVE  Faithful' /\ ReadFaithful' /\ Unread'
      <2>1. /\ roles' = [roles EXCEPT ![i] = NoRole] /\ pc[t] # "normalize"
            /\ UNCHANGED <<nextId, pc, read, edited, raced>>
            BY <1>6 DEF DeleteRole
      <2>2. \A j \in RoleIds : Exists(j)' => Exists(j) /\ j # i /\ roles'[j] = roles[j]
            BY <1>0, <2>1 DEF Exists, NoRole
      <2>3. Faithful'
            BY <2>1, <2>2 DEF EditInv, Faithful
      <2>4. ReadFaithful'
            BY <2>1, <2>2 DEF EditInv, ReadFaithful, Outdated
      <2>5. Unread'
            BY <2>1, <2>2 DEF EditInv, Unread
      <2> QED
          BY <2>3, <2>4, <2>5
<1>7. ASSUME NEW t \in Threads,
             \/ SaveForm(t)
             \/ \E n \in Names, x \in SUBSET Catalog : NewRole(t, n, x)
             \/ \E n \in Names, a \in Actions \ RemovedActions : NewLegacyRole(t, n, {a})
      PROVE  Faithful' /\ ReadFaithful' /\ Unread'
      <2>1. UNCHANGED <<roles, nextId, edited, raced, read>>
            BY <1>7 DEF SaveForm, NewRole, NewLegacyRole
      <2>2. Goto(t, "create") \/ Goto(t, "update")
            BY <1>7 DEF SaveForm, NewRole, NewLegacyRole, Submit, Goto
      <2> QED
          BY <2>1, <2>2, NoEdit DEF Labels
<1>8. ASSUME NEW t \in Threads, CreateRole(t)
      PROVE  Faithful' /\ ReadFaithful' /\ Unread'
      <2>1. /\ nextId \in RoleIds /\ nextId' = nextId + 1
            /\ roles' = [roles EXCEPT ![nextId] = form[t].saved]
            /\ edited' = [edited EXCEPT ![nextId] = Grants(form[t].saved)]
            /\ pc[t] # "normalize" /\ pc' = [pc EXCEPT ![t] = "idle"]
            /\ UNCHANGED <<read, raced>>
            BY <1>8 DEF CreateRole, Done, Goto
      <2>2. Faithful'
            BY <1>0, <2>1 DEF EditInv, Types, Faithful, Exists
      <2>3. ReadFaithful'
            <3> SUFFICES ASSUME NEW s \in Threads, NEW i \in RoleIds,
                                pc'[s] = "normalize", i \in Outdated(read[s]), Exists(i)',
                                i \notin raced
                         PROVE  Grants(read[s][i]) = edited'[i]
                BY <2>1 DEF ReadFaithful, Outdated
            <3>1. pc[s] = "normalize"
                  BY <2>1 DEF EditInv, Types
            <3>2. i # nextId
                  BY <1>0 DEF EditInv, Unread, Outdated
            <3>3. Exists(i) /\ edited'[i] = edited[i]
                  BY <1>0, <2>1, <3>2 DEF EditInv, Types, Exists
            <3> QED
                BY <3>1, <3>3 DEF EditInv, ReadFaithful
      <2>4. Unread'
            BY <1>0, <2>1 DEF EditInv, Unread, Exists, RoleIds
      <2> QED
          BY <2>2, <2>3, <2>4
<1>9. ASSUME NEW t \in Threads, UpdateRole(t)
      PROVE  Faithful' /\ ReadFaithful' /\ Unread'
      <2> DEFINE id == form[t].id
      <2>1. /\ Exists(id)
            /\ roles' = [roles EXCEPT ![id] = form[t].saved]
            /\ edited' = [edited EXCEPT ![id] = Grants(form[t].saved)]
            /\ raced' = IF Overlaps(id) THEN raced \cup {id} ELSE raced
            /\ pc[t] # "normalize" /\ pc' = [pc EXCEPT ![t] = "idle"]
            /\ UNCHANGED <<read, nextId>>
            BY <1>9 DEF UpdateRole, Done, Goto
      <2> HIDE DEF id
      <2>2. \A i \in RoleIds \ {id} : (i \in raced' <=> i \in raced) /\ roles'[i] = roles[i]
                                       /\ (edited' = [edited EXCEPT ![id] = edited'[id]])
            BY <1>0, <2>1 DEF EditInv, Types
      <2>3. Faithful'
            BY <1>0, <2>1, <2>2 DEF EditInv, Types, Faithful, Exists
      <2>4. ReadFaithful'
            <3> SUFFICES ASSUME NEW s \in Threads, NEW i \in RoleIds,
                                pc'[s] = "normalize", i \in Outdated(read[s]), Exists(i)',
                                i \notin raced'
                         PROVE  Grants(read[s][i]) = edited'[i]
                BY <2>1 DEF ReadFaithful, Outdated
            <3>1. pc[s] = "normalize"
                  BY <2>1 DEF EditInv, Types
            <3>2. i # id
                  BY <2>1, <3>1 DEF Overlaps
            <3>3. Exists(i) /\ i \notin raced /\ edited'[i] = edited[i]
                  BY <1>0, <2>1, <2>2, <3>2 DEF EditInv, Types, Exists
            <3> QED
                BY <3>1, <3>3 DEF EditInv, ReadFaithful
      <2>5. Unread'
            BY <1>0, <2>1, <2>2 DEF EditInv, Unread, Exists
      <2> QED
          BY <2>3, <2>4, <2>5
<1>10. ASSUME NEW t \in Threads, EditFails(t)
       PROVE  Faithful' /\ ReadFaithful' /\ Unread'
       BY <1>10, NoEdit DEF EditFails, Done, Labels
<1>11. ASSUME NEW t \in Threads,
              \/ \E u \in Users, ids \in SUBSET RoleIds : EnsureUser(t, u, ids)
              \/ CheckRoles(t) \/ ClearMembers(t) \/ AssignMembers(t) \/ AssignFails(t)
       PROVE  Faithful' /\ ReadFaithful' /\ Unread'
       <2>1. UNCHANGED <<roles, nextId, edited, raced, read>>
             BY <1>11 DEF EnsureUser, CheckRoles, ClearMembers, AssignMembers, AssignFails
       <2>2. \E label \in Labels \ {"normalize"} : Goto(t, label)
             BY <1>11 DEF EnsureUser, CheckRoles, ClearMembers, AssignMembers, AssignFails, Ended,
                          Goto, Labels, Assigning
       <2> QED
           BY <2>1, <2>2, NoEdit
<1>12. CASE UNCHANGED vars
       BY <1>12 DEF vars, EditInv, Faithful, ReadFaithful, Unread, Exists
<1> QED
    BY <1>1, <1>2, <1>3, <1>4, <1>5, <1>6, <1>7, <1>8, <1>9, <1>10, <1>11, <1>12 DEF Next

\* What a role was last edited to grant survives the normalisations of all
\* processes, except an edit that came between the SELECT of one and its write
\* (normalize_legacy_role_actions()).
THEOREM EditsAreKept == Spec => []EditsSurvive
<1>1. EditInv => EditsSurvive
      BY DEF EditInv, Faithful, EditsSurvive
<1> QED
    BY InitEdit, EditStep, <1>1, PTL DEF Spec

-----------------------------------------------------------------------------
(* The type invariant.                                                      *)

\* The role a form is about, or saves, has a name.
FormNamed ==
    \A t \in Threads :
        /\ pc[t] = "form" => form[t].opened.name # NoName
        /\ pc[t] \in {"create", "update"} => form[t].saved.name # NoName

Bounded == nextId \in 1..MaxRoles + 1 /\ raced \subseteq RoleIds

\* The foreign key of user_roles.
Referenced == \A u \in Users : \A i \in members[u] : Exists(i)

TypeInv == AssignInv /\ FormNamed /\ Bounded /\ Referenced

\* What keeps the names of the roles keeps the references.
LEMMA NamesKept ==
    ASSUME Types, Referenced, members' = members, \A i \in RoleIds : Exists(i) => Exists(i)'
    PROVE  Referenced'
BY DEF Types, Referenced, Exists

LEMMA InitTypeInv == Init => TypeInv
<1> SUFFICES ASSUME Init
             PROVE  FormNamed /\ Bounded /\ Referenced
    BY InitAssign DEF TypeInv
<1> QED
    BY DEF Init, FormNamed, Bounded, Referenced

LEMMA FormStep == Types /\ FormNamed /\ [Next]_vars => FormNamed'
<1> SUFFICES ASSUME Types, FormNamed, [Next]_vars
             PROVE  FormNamed'
    OBVIOUS
<1> USE DEF Types, FormNamed, Goto
<1>1. ASSUME NEW t \in Threads, NEW i \in RoleIds, OpenForm(t, i)
      PROVE  FormNamed'
      BY <1>1 DEF OpenForm, Exists
<1>2. ASSUME NEW t \in Threads, SaveForm(t)
      PROVE  FormNamed'
      BY <1>2 DEF SaveForm, Submit, PagePayload, Payload
<1>3. ASSUME NEW t \in Threads, NEW n \in Names, NEW x \in SUBSET Catalog, NewRole(t, n, x)
      PROVE  FormNamed'
      BY <1>3, StoreAssumption DEF NewRole, Submit, PagePayload, Payload
<1>4. ASSUME NEW t \in Threads, NEW n \in Names, NEW a \in Actions \ RemovedActions,
             NewLegacyRole(t, n, {a})
      PROVE  FormNamed'
      BY <1>4, StoreAssumption DEF NewLegacyRole, Submit, Payload
<1>5. ASSUME NEW t \in Threads, CreateRole(t) \/ UpdateRole(t) \/ EditFails(t)
      PROVE  FormNamed'
      BY <1>5 DEF CreateRole, UpdateRole, EditFails, Done
<1>6. ASSUME NEW t \in Threads,
             \/ NormalizeRead(t) \/ NormalizeWrite(t) \/ SeedCount(t) \/ SeedInsert(t)
             \/ InitFails(t) \/ Restart(t)
      PROVE  FormNamed'
      BY <1>6 DEF NormalizeRead, NormalizeWrite, SeedCount, SeedInsert, InitFails, Restart
<1>7. ASSUME NEW t \in Threads,
             \/ \E i \in RoleIds : DeleteRole(t, i)
             \/ \E u \in Users, ids \in SUBSET RoleIds : EnsureUser(t, u, ids)
             \/ CheckRoles(t) \/ ClearMembers(t) \/ AssignMembers(t) \/ AssignFails(t)
      PROVE  FormNamed'
      BY <1>7 DEF DeleteRole, EnsureUser, CheckRoles, ClearMembers, AssignMembers, AssignFails, Ended
<1>8. CASE UNCHANGED vars
      BY <1>8 DEF vars
<1> QED
    BY <1>1, <1>2, <1>3, <1>4, <1>5, <1>6, <1>7, <1>8 DEF Next

LEMMA TypeInvStep == TypeInv /\ [Next]_vars => TypeInv'
<1> SUFFICES ASSUME TypeInv, [Next]_vars
             PROVE  Bounded' /\ Referenced'
    BY AssignStep, FormStep DEF TypeInv, AssignInv
<1> USE DEF TypeInv, AssignInv, history
<1>0. Types /\ Referenced /\ StayDeleted
      OBVIOUS
<1>1. ASSUME NEW t \in Threads, NormalizeWrite(t)
      PROVE  Bounded' /\ Referenced'
      <2>1. \A i \in RoleIds : Exists(i) => Exists(i)'
            BY <1>1 DEF NormalizeWrite, Overwritten, Exists
      <2> QED
          BY <1>1, <2>1, NamesKept DEF NormalizeWrite, Bounded
<1>2. ASSUME NEW t \in Threads, SeedInsert(t)
      PROVE  Bounded' /\ Referenced'
      <2> DEFINE ids == nextId..nextId + Len(SeedRoles) - 1
      <2>1. /\ ids \subseteq RoleIds /\ members' = members /\ raced' = raced
            /\ \A i \in RoleIds \ ids : roles'[i] = roles[i]
            /\ nextId' = nextId + Len(SeedRoles)
            BY <1>0, <1>2 DEF SeedInsert, Types
      <2>2. Len(SeedRoles) \in Nat /\ nextId \in Nat \ {0}
            BY <1>0, StoreAssumption DEF Types
      <2>3. \A i \in RoleIds : Exists(i) => Exists(i)'
            BY <1>0, <2>1, <2>2 DEF StayDeleted, Exists, RoleIds
      <2>4. nextId' \in 1..MaxRoles + 1
            <3>1. CASE Len(SeedRoles) = 0
                  BY <2>1, <2>2, <3>1 DEF Bounded
            <3>2. CASE Len(SeedRoles) > 0
                  <4>1. nextId + Len(SeedRoles) - 1 \in ids
                        BY <2>2, <3>2
                  <4>2. nextId + Len(SeedRoles) - 1 <= MaxRoles
                        BY <2>1, <4>1 DEF RoleIds
                  <4> HIDE DEF ids
                  <4> QED
                      BY <2>1, <2>2, <4>2, StoreAssumption
            <3> QED
                BY <2>2, <3>1, <3>2
      <2> QED
          BY <2>1, <2>3, <2>4, <1>0, NamesKept DEF Bounded
<1>3. ASSUME NEW t \in Threads, NEW i \in RoleIds, DeleteRole(t, i)
      PROVE  Bounded' /\ Referenced'
      BY <1>0, <1>3 DEF DeleteRole, Without, Types, Bounded, Referenced, Exists
<1>4. ASSUME NEW t \in Threads, CreateRole(t)
      PROVE  Bounded' /\ Referenced'
      <2>1. \A i \in RoleIds : Exists(i) => Exists(i)'
            BY <1>0, <1>4 DEF CreateRole, Types, FormNamed, Exists
      <2> QED
          BY <1>0, <1>4, <2>1, NamesKept, StoreAssumption DEF CreateRole, Bounded, RoleIds
<1>5. ASSUME NEW t \in Threads, UpdateRole(t)
      PROVE  Bounded' /\ Referenced'
      <2>1. \A i \in RoleIds : Exists(i) => Exists(i)'
            BY <1>0, <1>5 DEF UpdateRole, Types, FormNamed, Exists
      <2>2. \A s \in Threads : Outdated(read[s]) \subseteq RoleIds
            BY DEF Outdated
      <2>3. raced' \subseteq RoleIds
            BY <1>5, <2>2 DEF UpdateRole, Overlaps, Bounded
      <2> QED
          BY <1>0, <1>5, <2>1, <2>3, NamesKept DEF UpdateRole, Bounded
<1>6. ASSUME NEW t \in Threads, AssignMembers(t)
      PROVE  Bounded' /\ Referenced'
      <2>1. /\ \A i \in asked[t].ids : Exists(i)
            /\ members' = [members EXCEPT ![asked[t].user] =
                               (members[asked[t].user] \ removed[t]) \cup asked[t].ids]
            /\ UNCHANGED <<roles, nextId, raced>>
            BY <1>6 DEF AssignMembers
      <2> QED
          BY <1>0, <2>1 DEF Types, Bounded, Referenced, Exists
<1>7. ASSUME UNCHANGED <<roles, members, nextId, raced>>
      PROVE  Bounded' /\ Referenced'
      BY <1>7 DEF Bounded, Referenced, Exists
<1>8. ASSUME NEW t \in Threads,
             \/ NormalizeRead(t) \/ SeedCount(t) \/ InitFails(t) \/ Restart(t)
             \/ \E i \in RoleIds : OpenForm(t, i)
             \/ SaveForm(t) \/ EditFails(t)
             \/ \E n \in Names, x \in SUBSET Catalog : NewRole(t, n, x)
             \/ \E n \in Names, a \in Actions \ RemovedActions : NewLegacyRole(t, n, {a})
             \/ \E u \in Users, ids \in SUBSET RoleIds : EnsureUser(t, u, ids)
             \/ CheckRoles(t) \/ ClearMembers(t) \/ AssignFails(t)
      PROVE  UNCHANGED <<roles, members, nextId, raced>>
      BY <1>8 DEF NormalizeRead, SeedCount, InitFails, Restart, OpenForm, SaveForm, EditFails,
                  NewRole, NewLegacyRole, EnsureUser, CheckRoles, ClearMembers, AssignFails
<1>9. CASE UNCHANGED vars
      BY <1>7, <1>9 DEF vars
<1> QED
    BY <1>1, <1>2, <1>3, <1>4, <1>5, <1>6, <1>7, <1>8, <1>9 DEF Next

\* The rows keep their types, and users only have roles that exist: whatever is
\* deleted while an assignment is under way (the foreign keys of user_roles).
THEOREM AccessTypeCorrect == Spec => []TypeOK
<1>1. TypeInv => TypeOK
      BY DEF TypeInv, AssignInv, Types, Bounded, Referenced, TypeOK
<1> QED
    BY InitTypeInv, TypeInvStep, <1>1, PTL DEF Spec
=============================================================================
