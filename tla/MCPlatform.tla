----------------------------- MODULE MCPlatform -----------------------------
(***************************************************************************)
(* Instances of Accounts and Permissions for TLC.  Neither changes what    *)
(* the other reads, so a behaviour is about accounts or about roles.       *)
(***************************************************************************)
EXTENDS Permissions, TLC

VARIABLE focus

mcVars == <<accountVars, permissionVars, focus>>

MCInit ==
    /\ AccountsInit /\ PermissionsInit
    /\ focus \in {"accounts", "roles"}

MCNext ==
    /\ UNCHANGED focus
    /\ \/ focus = "accounts" /\ AccountsNext /\ UNCHANGED permissionVars
       \/ focus = "roles" /\ PermissionsNext /\ UNCHANGED accountVars

MCSpec == MCInit /\ [][MCNext]_mcVars

Interchangeable == Permutations(Slots)
=============================================================================
