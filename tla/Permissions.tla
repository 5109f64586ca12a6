----------------------------- MODULE Permissions -----------------------------
(***************************************************************************)
(* Roles, permissions and the matrix between them                          *)
(* (AdminRolesPermissionsService), and the roles of the accounts           *)
(* (AdminUsersService.updateUser).  Each operation is one transaction, or  *)
(* its reads are backed by unique and foreign keys, so each is one step.   *)
(***************************************************************************)
EXTENDS Accounts

CONSTANTS
    RoleNames,          \* with "super_admin"
    GroupNames,
    MaxRoles,
    MaxPermissions,
    MaxGroups

ASSUME PermissionsAssumption ==
    "super_admin" \in RoleNames /\ None \notin RoleNames
    /\ MaxRoles \in Nat /\ MaxPermissions \in Nat /\ MaxGroups \in Nat

VARIABLES
    role,               \* the tables: 1..Max -> name or None
    group,
    permission,         \* 1..MaxPermissions -> its group or None, while not created
    grant,              \* role_permissions: <<role, permission>>
    holds,              \* the role of each user
    last,               \* the sequences of the tables
    superAt,            \* permission -> the role that was the super admin's when it was created
    withdrawn           \* <<role, permission>> the matrix disabled last

permissionVars == <<role, group, permission, grant, holds, last, superAt, withdrawn>>

Roles       == 1..MaxRoles
Permissions == 1..MaxPermissions
Groups      == 1..MaxGroups

LiveRoles       == {i \in Roles : role[i] # None}
LivePermissions == {p \in Permissions : permission[p] # None}

\* The role of that name, None without one.
Named(name) == IF \E i \in LiveRoles : role[i] = name
               THEN CHOOSE i \in LiveRoles : role[i] = name ELSE None

\* The seed: the super administrator's role, and another one everybody else holds.
PermissionsInit ==
    /\ role = [i \in Roles |-> CASE i = 1 -> "super_admin"
                                 [] i = 2 -> CHOOSE n \in RoleNames : n # "super_admin"
                                 [] OTHER -> None]
    /\ group = [g \in Groups |-> None]
    /\ permission = [p \in Permissions |-> None]
    /\ grant = {}
    /\ holds = [u \in Users |-> 2]
    /\ last = [roles |-> 2, groups |-> 0, permissions |-> 0]
    /\ superAt = [p \in Permissions |-> None]
    /\ withdrawn = {}

HeldBy(i) == {p \in Permissions : <<i, p>> \in grant}

\* createRole: what the parent role holds, and the permissions given, without duplicates.
CreateRole(name, parent, assigned) ==
    /\ Named(name) = None
    /\ assigned \subseteq LivePermissions
    /\ last.roles < MaxRoles
    /\ last' = [last EXCEPT !.roles = @ + 1]
    /\ role' = [role EXCEPT ![last.roles + 1] = name]
    /\ LET inherited == IF parent = None THEN {} ELSE HeldBy(parent)
       IN  grant' = grant \cup {<<last.roles + 1, p>> : p \in inherited \cup assigned}
    /\ UNCHANGED <<group, permission, holds, superAt, withdrawn>>

\* updateRole: any role, the super administrator's too.
RenameRole(i, name) ==
    /\ i \in LiveRoles
    /\ Named(name) = None
    /\ role' = [role EXCEPT ![i] = name]
    /\ UNCHANGED <<group, permission, grant, holds, last, superAt, withdrawn>>

\* deleteRole: nobody holds it; its rows of the matrix go first.
DeleteRole(i) ==
    /\ i \in LiveRoles
    /\ \A u \in Users : holds[u] # i
    /\ role' = [role EXCEPT ![i] = None]
    /\ grant' = {g \in grant : g[1] # i}
    /\ UNCHANGED <<group, permission, holds, last, superAt, withdrawn>>

CreateGroup(name) ==
    /\ \A g \in Groups : group[g] # name
    /\ last.groups < MaxGroups
    /\ last' = [last EXCEPT !.groups = @ + 1]
    /\ group' = [group EXCEPT ![last.groups + 1] = name]
    /\ UNCHANGED <<role, permission, grant, holds, superAt, withdrawn>>

RenameGroup(g, name) ==
    /\ group[g] # None
    /\ \A h \in Groups : group[h] # name
    /\ group' = [group EXCEPT ![g] = name]
    /\ UNCHANGED <<role, permission, grant, holds, last, superAt, withdrawn>>

DeleteGroup(g) ==
    /\ group[g] # None
    /\ \A p \in LivePermissions : permission[p] # g
    /\ group' = [group EXCEPT ![g] = None]
    /\ UNCHANGED <<role, permission, grant, holds, last, superAt, withdrawn>>

\* Mutant of GivenTo: the super administrator is filtered out of the roles and nothing more.
GivenToOthers(roles) == roles \ {Named("super_admin")}

\* The roles a new permission is given to: the super administrator's, if there is one, always.
GivenTo(roles) == roles \cup (IF Named("super_admin") = None THEN {} ELSE {Named("super_admin")})

CreatePermission(g, roles) ==
    /\ group[g] # None
    /\ roles \subseteq LiveRoles
    /\ last.permissions < MaxPermissions
    /\ LET p == last.permissions + 1
       IN  /\ last' = [last EXCEPT !.permissions = p]
           /\ permission' = [permission EXCEPT ![p] = g]
           /\ grant' = grant \cup {<<i, p>> : i \in GivenTo(roles)}
           /\ superAt' = [superAt EXCEPT ![p] = Named("super_admin")]
    /\ UNCHANGED <<role, group, holds, withdrawn>>

\* updatePermissionMatrix: any role, the super administrator's too.
UpdateMatrix(i, p, enabled) ==
    /\ i \in LiveRoles /\ p \in LivePermissions
    /\ IF enabled
       THEN grant' = grant \cup {<<i, p>>} /\ withdrawn' = withdrawn \ {<<i, p>>}
       ELSE grant' = grant \ {<<i, p>>} /\ withdrawn' = withdrawn \cup {<<i, p>>}
    /\ UNCHANGED <<role, group, permission, holds, last, superAt>>

\* updateUser: any role but the super administrator's.
AssignRole(u, i) ==
    /\ i \in LiveRoles
    /\ role[i] # "super_admin"
    /\ holds' = [holds EXCEPT ![u] = i]
    /\ UNCHANGED <<role, group, permission, grant, last, superAt, withdrawn>>

PermissionsNext ==
    \/ \E name \in RoleNames :
          \/ \E parent \in LiveRoles \cup {None}, assigned \in SUBSET Permissions :
                CreateRole(name, parent, assigned)
          \/ \E i \in Roles : RenameRole(i, name)
    \/ \E i \in Roles :
          \/ DeleteRole(i)
          \/ \E u \in Users : AssignRole(u, i)
          \/ \E p \in Permissions, enabled \in BOOLEAN : UpdateMatrix(i, p, enabled)
    \/ \E name \in GroupNames :
          CreateGroup(name) \/ \E g \in Groups : RenameGroup(g, name)
    \/ \E g \in Groups : DeleteGroup(g) \/ \E roles \in SUBSET Roles : CreatePermission(g, roles)

PermissionsSpec == PermissionsInit /\ [][PermissionsNext]_permissionVars

-----------------------------------------------------------------------------
(* Properties.                                                              *)

(***************************************************************************)
(* The role named super_admin holds every permission, however roles are    *)
(* created, renamed and deleted, except one the matrix disabled and one    *)
(* created while another role, or none, had the name.  createPermission's  *)
(* "Always assign to Super Admin".                                         *)
(***************************************************************************)
SuperAdminHoldsAll ==
    \A i \in LiveRoles, p \in LivePermissions :
        role[i] = "super_admin" /\ superAt[p] = i /\ <<i, p>> \notin withdrawn
        => <<i, p>> \in grant
=============================================================================
