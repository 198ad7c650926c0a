SPECIFICATION Spec
CONSTANTS
    Users = {u1, u2}
    Groups = {g1}
    Orgs = {o1}
    Requests = {t1, t2}
    None = None
    Roles = {owner, red_teamer, custom, custom2}
    SystemRoles = {owner, red_teamer}
    Owner = owner
    RedTeamer = red_teamer
    CustomPerms <- MCCustomPerms
    RoleSets <- MCRoleSets
    Patches <- MCPatches
    Creator <- MCCreator
    Form <- MCForm
    Forms <- MCForms
    MaxEdits = 3
SYMMETRY Symmetry
INVARIANTS GroupGoverned DefaultsResolvable AccountsKeepARole ReadGatesAgree
CHECK_DEADLOCK FALSE
