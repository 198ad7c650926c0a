---------------------------- MODULE MCMembership ----------------------------
EXTENDS Membership, TLC

\* Payloads of PATCH /roles/{role_id}: the fields sent, the others None.
NoField == [perms |-> None, assignable |-> None, active |-> None, default |-> None, pdefault |-> None]

MCPatches ==
    {[NoField EXCEPT !.active = b] : b \in BOOLEAN}
    \cup {[NoField EXCEPT !.default = TRUE], [NoField EXCEPT !.pdefault = TRUE],
          [NoField EXCEPT !.assignable = TRUE, !.perms = {"read", "manage"}],
          [NoField EXCEPT !.perms = {}, !.assignable = FALSE]}

MCForms == {[access |-> "public", status |-> "draft", org |-> None],
            [access |-> "public", status |-> "published", org |-> None],
            [access |-> "invitation_only", status |-> "published", org |-> None]}
           \cup {[access |-> "organization", status |-> s, org |-> o] : s \in {"draft"}, o \in Orgs}

MCCreator == [g \in Groups |-> CHOOSE u \in Users : TRUE]
MCForm == [g \in Groups |-> [access |-> "public", status |-> "published", org |-> None]]
CustomRoles == Roles \ SystemRoles
MCRoleSets == {{Owner}, CustomRoles} \cup {{r} : r \in CustomRoles}
MCCustomPerms == {{}, {"read", "manage"}}
Symmetry == Permutations(Requests) \cup Permutations(CustomRoles)
=============================================================================
