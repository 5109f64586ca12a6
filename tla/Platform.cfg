SPECIFICATION MCSpec
CONSTANTS
    None = None
    Users = {u1}
    Passwords = {p1}
    Slots = {r1, r2}
    MaxCodes = 2
    RoleNames = {"super_admin", "platform_viewer", "auditor"}
    GroupNames = {"g1", "g2"}
    MaxRoles = 3
    MaxPermissions = 2
    MaxGroups = 1
SYMMETRY Interchangeable
INVARIANTS
    SpentIsFinal
    SuperAdminHoldsAll
PROPERTIES
    StandingIsKept
CHECK_DEADLOCK FALSE
