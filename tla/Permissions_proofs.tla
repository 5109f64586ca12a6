-------------------------- MODULE Permissions_proofs --------------------------
(***************************************************************************)
(* The super administrator's permissions, for any number of roles, groups  *)
(* and permissions.                                                        *)
(*                                                                         *)
(* SuperAdminHoldsAll is not inductive: a role that loses the name and     *)
(* takes it back must have kept its permissions meanwhile.  Held says so   *)
(* of every role a permission was given to as the super administrator's,   *)
(* whatever it is called now; Numbered, that a new role is none of them.   *)
(***************************************************************************)
EXTENDS Permissions, TLAPS

TablesOK ==
    /\ role = [i \in Roles |-> role[i]]
    /\ permission = [p \in Permissions |-> permission[p]]
    /\ superAt \in [Permissions -> Roles \cup {None}]
    /\ last \in [roles : Nat, groups : Nat, permissions : Nat]

Numbered ==
    /\ \A i \in LiveRoles : i <= last.roles
    /\ \A p \in LivePermissions : p <= last.permissions
    /\ \A p \in Permissions : superAt[p] # None => superAt[p] <= last.roles

Held ==
    \A i \in LiveRoles, p \in LivePermissions :
        superAt[p] = i /\ <<i, p>> \notin withdrawn => <<i, p>> \in grant

RolesInv == TablesOK /\ Numbered /\ Held

LEMMA RolesInit == PermissionsInit => RolesInv
<1> SUFFICES ASSUME PermissionsInit PROVE RolesInv
  OBVIOUS
<1>1. TablesOK
  BY DEF PermissionsInit, TablesOK
<1>2. \A i \in LiveRoles : i <= last.roles
  <2>1. \A i \in Roles : i # 1 /\ i # 2 => role[i] = None
    BY DEF PermissionsInit
  <2>2. last.roles = 2
    BY DEF PermissionsInit
  <2>3. QED
    BY <2>1, <2>2 DEF LiveRoles, Roles
<1>3. LivePermissions = {} /\ \A p \in Permissions : superAt[p] = None
  BY DEF PermissionsInit, LivePermissions
<1>4. QED
  BY <1>1, <1>2, <1>3 DEF RolesInv, Numbered, Held

LEMMA NamedIsLive ==
  ASSUME NEW name
  PROVE  Named(name) = None \/ Named(name) \in LiveRoles
BY DEF Named

LEMMA CreateRoleStep ==
  ASSUME RolesInv, NEW name, NEW parent, NEW assigned, CreateRole(name, parent, assigned)
  PROVE  RolesInv'
<1> USE DEF RolesInv
<1> DEFINE new == last.roles + 1
<1>1. last.roles \in Nat /\ last' = [last EXCEPT !.roles = new] /\ last'.roles = new
      /\ last'.permissions = last.permissions
  BY DEF CreateRole, TablesOK
<1>2. role' = [role EXCEPT ![new] = name] /\ UNCHANGED <<permission, superAt, withdrawn>>
      /\ grant \subseteq grant'
  BY DEF CreateRole
<1>3. LiveRoles' \subseteq LiveRoles \cup {new} /\ LivePermissions' = LivePermissions
  BY <1>2 DEF LiveRoles, LivePermissions, TablesOK
<1>4. TablesOK'
  <2>1. last' \in [roles : Nat, groups : Nat, permissions : Nat]
    BY <1>1 DEF TablesOK
  <2>2. role' = [i \in Roles |-> role'[i]]
    BY <1>2 DEF TablesOK
  <2>3. QED
    BY <1>2, <2>1, <2>2 DEF TablesOK
<1>5. \A p \in Permissions : superAt[p] # None => superAt[p] \in Nat /\ superAt[p] # new
  BY <1>1 DEF Numbered, TablesOK, Roles
<1>6. Numbered'
  <2>1. \A i \in LiveRoles' : i <= last'.roles
    BY <1>1, <1>3 DEF Numbered, LiveRoles, Roles
  <2>2. \A p \in Permissions : superAt'[p] # None => superAt'[p] <= last'.roles
    BY <1>1, <1>2, <1>5 DEF Numbered
  <2>3. QED
    BY <1>1, <1>3, <2>1, <2>2 DEF Numbered
<1>7. Held'
  <2>1. \A p \in LivePermissions : superAt[p] # new
    BY <1>1, <1>5, AccountsAssumption DEF LivePermissions
  <2>2. QED
    BY <1>2, <1>3, <2>1 DEF Held
<1>8. QED
  BY <1>4, <1>6, <1>7

LEMMA CreatePermissionStep ==
  ASSUME RolesInv, NEW g, NEW roles, CreatePermission(g, roles)
  PROVE  RolesInv'
<1> USE DEF RolesInv
<1> DEFINE p == last.permissions + 1
           i == Named("super_admin")
<1>1. last.permissions \in Nat /\ last' = [last EXCEPT !.permissions = p]
      /\ last'.permissions = p /\ last'.roles = last.roles
  BY DEF CreatePermission, TablesOK
<1>2. permission' = [permission EXCEPT ![p] = g] /\ superAt' = [superAt EXCEPT ![p] = i]
      /\ UNCHANGED <<role, withdrawn>> /\ grant \subseteq grant'
      /\ (i # None => <<i, p>> \in grant')
  BY DEF CreatePermission, GivenTo
<1>3. i = None \/ i \in LiveRoles
  BY NamedIsLive
<1> HIDE DEF i
<1>4. LiveRoles' = LiveRoles /\ LivePermissions' \subseteq LivePermissions \cup {p}
  BY <1>2 DEF LiveRoles, LivePermissions, TablesOK
<1>5. \A q \in Permissions : superAt'[q] = IF q = p THEN i ELSE superAt[q]
  BY <1>2 DEF TablesOK
<1>6. TablesOK'
  <2>1. last' \in [roles : Nat, groups : Nat, permissions : Nat]
    BY <1>1 DEF TablesOK
  <2>2. permission' = [q \in Permissions |-> permission'[q]] /\ role' = [j \in Roles |-> role'[j]]
    BY <1>2 DEF TablesOK
  <2>3. superAt' \in [Permissions -> Roles \cup {None}]
    BY <1>2, <1>3 DEF TablesOK, LiveRoles
  <2>4. QED
    BY <2>1, <2>2, <2>3 DEF TablesOK
<1>7. Numbered'
  <2>1. \A q \in LivePermissions' : q <= last'.permissions
    BY <1>1, <1>4 DEF Numbered, LivePermissions, Permissions
  <2>2. \A q \in Permissions : superAt'[q] # None => superAt'[q] <= last'.roles
    BY <1>1, <1>3, <1>5 DEF Numbered
  <2>3. QED
    BY <1>1, <1>4, <2>1, <2>2 DEF Numbered
<1>8. Held'
  <2> SUFFICES ASSUME NEW j \in LiveRoles', NEW q \in LivePermissions',
                      superAt'[q] = j, <<j, q>> \notin withdrawn'
               PROVE  <<j, q>> \in grant'
    BY DEF Held
  <2>1. j # None
    BY AccountsAssumption DEF LiveRoles, Roles
  <2>2. CASE q = p
    BY <1>2, <1>5, <2>1, <2>2 DEF LivePermissions
  <2>3. CASE q # p
    BY <1>2, <1>4, <1>5, <2>3 DEF Held, LivePermissions
  <2>4. QED
    BY <2>2, <2>3
<1>9. QED
  BY <1>6, <1>7, <1>8

\* The steps that create neither a role nor a permission.
LEMMA OtherRolesStep ==
  ASSUME RolesInv, UNCHANGED <<permission, superAt>>, last' \in [roles : Nat, groups : Nat, permissions : Nat],
         last'.roles = last.roles, last'.permissions = last.permissions,
         role' = [i \in Roles |-> role'[i]],
         \A i \in Roles : role'[i] # None => role[i] # None,
         \A i \in LiveRoles', p \in LivePermissions :
            <<i, p>> \in grant \/ <<i, p>> \in withdrawn => <<i, p>> \in grant' \/ <<i, p>> \in withdrawn'
  PROVE  RolesInv'
<1> USE DEF RolesInv
<1>1. LiveRoles' \subseteq LiveRoles /\ LivePermissions' = LivePermissions
  BY DEF LiveRoles, LivePermissions
<1>2. TablesOK'
  BY DEF TablesOK
<1>3. Numbered'
  BY <1>1 DEF Numbered
<1>4. Held'
  BY <1>1 DEF Held
<1>5. QED
  BY <1>2, <1>3, <1>4

LEMMA RolesStep == RolesInv /\ [PermissionsNext]_permissionVars => RolesInv'
<1> SUFFICES ASSUME RolesInv, [PermissionsNext]_permissionVars PROVE RolesInv'
  OBVIOUS
<1> USE DEF RolesInv
<1>1. ASSUME NEW name \in RoleNames, NEW parent, NEW assigned, CreateRole(name, parent, assigned)
      PROVE  RolesInv'
  BY <1>1, CreateRoleStep
<1>2. ASSUME NEW i \in Roles, NEW name \in RoleNames, RenameRole(i, name) PROVE RolesInv'
  BY <1>2, OtherRolesStep DEF RenameRole, LiveRoles, TablesOK
<1>3. ASSUME NEW i \in Roles, DeleteRole(i) PROVE RolesInv'
  <2>1. role' = [role EXCEPT ![i] = None] /\ grant' = {g \in grant : g[1] # i}
        /\ UNCHANGED <<permission, superAt, last, withdrawn>>
    BY <1>3 DEF DeleteRole
  <2>2. \A j \in LiveRoles' : j # i
    BY <2>1 DEF LiveRoles, TablesOK
  <2>3. \A j \in LiveRoles', p \in LivePermissions : <<j, p>> \in grant => <<j, p>> \in grant'
    BY <2>1, <2>2
  <2>4. role' = [j \in Roles |-> role'[j]] /\ \A j \in Roles : role'[j] # None => role[j] # None
    BY <2>1 DEF TablesOK
  <2>5. QED
    BY <2>1, <2>3, <2>4, OtherRolesStep DEF TablesOK
<1>4. ASSUME NEW i \in Roles, NEW u \in Users, AssignRole(u, i) PROVE RolesInv'
  BY <1>4, OtherRolesStep DEF AssignRole, TablesOK
<1>5. ASSUME NEW i \in Roles, NEW p \in Permissions, NEW enabled \in BOOLEAN, UpdateMatrix(i, p, enabled)
      PROVE  RolesInv'
  <2>1. \A x : x \in grant \/ x \in withdrawn => x \in grant' \/ x \in withdrawn'
    BY <1>5 DEF UpdateMatrix
  <2>2. QED
    BY <1>5, <2>1, OtherRolesStep DEF UpdateMatrix, TablesOK
<1>6. ASSUME NEW name \in GroupNames, CreateGroup(name) PROVE RolesInv'
  <2>1. last' \in [roles : Nat, groups : Nat, permissions : Nat]
        /\ last'.roles = last.roles /\ last'.permissions = last.permissions
    BY <1>6 DEF CreateGroup, TablesOK
  <2>2. QED
    BY <1>6, <2>1, OtherRolesStep DEF CreateGroup, TablesOK
<1>7. ASSUME NEW g \in Groups, NEW name \in GroupNames, RenameGroup(g, name) PROVE RolesInv'
  BY <1>7, OtherRolesStep DEF RenameGroup, TablesOK
<1>8. ASSUME NEW g \in Groups, DeleteGroup(g) PROVE RolesInv'
  BY <1>8, OtherRolesStep DEF DeleteGroup, TablesOK
<1>9. ASSUME NEW g \in Groups, NEW roles \in SUBSET Roles, CreatePermission(g, roles) PROVE RolesInv'
  BY <1>9, CreatePermissionStep
<1>10. CASE UNCHANGED permissionVars
  BY <1>10, OtherRolesStep DEF permissionVars, TablesOK
<1>11. QED
  BY <1>1, <1>2, <1>3, <1>4, <1>5, <1>6, <1>7, <1>8, <1>9, <1>10 DEF PermissionsNext

(***************************************************************************)
(* The super administrator holds every permission that was created while   *)
(* his role had the name and that the matrix did not disable, however the  *)
(* roles are renamed, deleted and created: createPermission, updateRole,   *)
(* deleteRole, updatePermissionMatrix.                                     *)
(***************************************************************************)
THEOREM SuperAdminKeepsAll == PermissionsSpec => []SuperAdminHoldsAll
<1>1. PermissionsInit => RolesInv
  BY RolesInit
<1>2. RolesInv /\ [PermissionsNext]_permissionVars => RolesInv'
  BY RolesStep
<1>3. RolesInv => SuperAdminHoldsAll
  BY DEF RolesInv, Held, SuperAdminHoldsAll
<1>4. QED
  BY <1>1, <1>2, <1>3, PTL DEF PermissionsSpec
=============================================================================
