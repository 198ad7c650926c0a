----------------------------- MODULE Membership -----------------------------
(***************************************************************************)
(* Who may do what: the role catalogue with its two default flags, the     *)
(* roles of the accounts, the roles users hold inside evaluation groups,   *)
(* organization membership, and the gates that read all of these.  A write *)
(* that reads before it locks is two steps, its reads with their checks    *)
(* and its commit; a lock held from a check to the commit makes the two    *)
(* one step.  Caller permissions are those of a fresh token (module        *)
(* Sessions has the stale ones), the platform administrator is always      *)
(* there and is not a modelled user.  Names are distinct, restore windows  *)
(* are not timed, and an assignment that is removed and granted again is   *)
(* the same row.                                                           *)
(***************************************************************************)
EXTENDS Integers, FiniteSets

CONSTANTS
    Users, Groups, Orgs, Requests, None,
    Roles,          \* the role rows: the system roles and operator-defined ones
    SystemRoles, Owner, RedTeamer,
    CustomPerms,    \* permission sets an operator may give a role
    RoleSets,       \* role_ids lists clients send
    Patches,        \* PATCH /roles payloads clients send
    Creator,        \* the user who created each group
    Form,           \* Form[g]: access_level, status and organization_id of the group
    Forms,          \* the forms a group may take
    MaxEdits        \* bound on the requests of a run

Perms == {"read", "manage_members", "view_metrics", "view_personal_metrics", "manage"}
MetricsAccessLevel == {"inherit_group_access", "all_members", "members_personal_metrics", "owner_only"}

ROLE_PERMISSIONS == [r \in SystemRoles |->
    IF r = Owner THEN {"read", "manage_members", "view_metrics"} ELSE {"read", "view_personal_metrics"}]

ELEVATED_ROLE_PERMISSIONS == {Owner}
NON_DEACTIVATABLE_SYSTEM_ROLES == {Owner}
required_permission == "read"
super_permission == "manage"

\* The body of PATCH /roles: None for a field that is not sent.
RolePatch == [perms : (SUBSET Perms) \cup {None}, assignable : BOOLEAN \cup {None}, active : BOOLEAN \cup {None},
              default : BOOLEAN \cup {None}, pdefault : BOOLEAN \cup {None}]

ASSUME ConstAssumption ==
    /\ {Owner, RedTeamer} \subseteq SystemRoles /\ SystemRoles \subseteq Roles /\ Owner # RedTeamer
    /\ IsFiniteSet(Users)
    /\ Patches \subseteq RolePatch
    /\ CustomPerms \subseteq SUBSET Perms
    /\ RoleSets \subseteq (SUBSET Roles) \ {{}}
    /\ Creator \in [Groups -> Users] /\ Form \in [Groups -> Forms]
    /\ MaxEdits \in Nat
    /\ None \notin Users \cup Groups \cup Orgs \cup Roles /\ None \notin BOOLEAN

VARIABLES
    role,     \* role[r]: the roles row
    user,     \* user[u]: the users row with its user_roles
    held,     \* held[g][u]: roles with a live object_role_assignments row
    org,      \* live organizations
    req,      \* req[t]: the request between its reads and its commit
    edits,    \* requests so far
    late,     \* history: groups given an owner past the scan of that account's deletion
    overlapped \* history: accounts whose roles two overlapping requests wrote or retired

vars == <<role, user, held, org, req, edits, late, overlapped>>

Role == [st : {"none", "live", "dead"}, active : BOOLEAN, default : BOOLEAN, pdefault : BOOLEAN,
         assignable : BOOLEAN, perms : SUBSET Perms]

User == [live : BOOLEAN, roles : SUBSET Roles, org : Orgs \cup {None}]

ObjectRoleAssignment == [Groups -> [Users -> SUBSET Roles]]

Idle == [op |-> "idle"]

Request ==
    {Idle}
    \cup [op : {"patch"}, role : Roles, row : Role, cur : Roles \cup {None}, pcur : Roles \cup {None}]
    \cup [op : {"delete_role"}, role : Roles]
    \cup [op : {"members"}, group : Groups, user : Users, drop : SUBSET Roles, add : SUBSET Roles]
    \cup [op : {"update_user"}, user : Users, drop : SUBSET Roles, add : SUBSET Roles]
    \cup [op : {"delete_user"}, user : Users, groups : SUBSET Groups]

\* Every row and request is one the program can hold.
TypeOK ==
    /\ role \in [Roles -> Role]
    /\ user \in [Users -> User]
    /\ held \in ObjectRoleAssignment
    /\ org \subseteq Orgs
    /\ req \in [Requests -> Request]
    /\ edits \in 0 .. MaxEdits
    /\ late \subseteq Groups
    /\ overlapped \subseteq Users

sync_system_roles == [r \in SystemRoles |->
    [st |-> "live", active |-> TRUE, default |-> r = RedTeamer, pdefault |-> r = RedTeamer,
     assignable |-> TRUE, perms |-> ROLE_PERMISSIONS[r]]]

CustomRole(st, assignable, perms) ==
    [st |-> st, active |-> TRUE, default |-> FALSE, pdefault |-> FALSE, assignable |-> assignable, perms |-> perms]

\* The deployed catalogue with its custom roles made or not, and groups their creators own,
\* alone or with everyone.
Init ==
    /\ role \in {[r \in Roles |-> IF r \in SystemRoles THEN sync_system_roles[r]
                                    ELSE CustomRole(st, st = "live", {required_permission})]
                 : st \in {"none", "live"}}
    /\ user \in [Users -> [live : {TRUE}, roles : RoleSets, org : {None}]]
    /\ \A u \in Users : \A r \in user[u].roles : role[r].st = "live"
    /\ \E others \in {{}, {Owner}} :
          held = [g \in Groups |-> [u \in Users |-> IF u = Creator[g] THEN {Owner} ELSE others]]
    /\ org = Orgs
    /\ req = [t \in Requests |-> Idle]
    /\ edits = 0
    /\ late = {}
    /\ overlapped = {}

----------------------------------------------------------------------------
(* Reads of authority.                                                     *)

LiveRole(r) == role[r].st = "live"
Usable(r) == LiveRole(r) /\ role[r].active

\* The permissions claim of the token and of GET /auth/me.
effective_permissions(u) == UNION {role[r].perms : r \in {x \in user[u].roles : Usable(x)}}

held_roles(g, u) == {r \in held[g][u] : LiveRole(r)}

\* Variant: an inactive role is no membership.
AccessOfActiveRoles(g, u) ==
    LET active == {x \in held_roles(g, u) : role[x].active}
    IN  [permissions |-> UNION {role[r].perms : r \in active}, is_member |-> active # {},
         has_super |-> super_permission \in effective_permissions(u)]

\* Inactive roles grant nothing but are membership.
resolve_object_access(g, u) ==
    [permissions |-> UNION {role[r].perms : r \in {x \in held_roles(g, u) : role[x].active}},
     is_member   |-> held_roles(g, u) # {},
     has_super   |-> super_permission \in effective_permissions(u)]

ObjectAccessContext_has(access, p) == access.has_super \/ p \in access.permissions

\* A break-glass key does not stand in for a capability here.
assert_object_permission(g, u, p) == p \in resolve_object_access(g, u).permissions

effective_object_permissions(access) ==
    IF access.has_super THEN UNION {ROLE_PERMISSIONS[r] : r \in SystemRoles} \cup {super_permission}
                        ELSE access.permissions

holds_permission_anywhere(u, p) == \E g \in Groups : \E r \in held[g][u] : Usable(r) /\ p \in role[r].perms

groups_granting(p, u) == {g \in Groups : \E r \in held[g][u] : Usable(r) /\ p \in role[r].perms}

caller_live_organization_select(u) ==
    IF user[u].live /\ user[u].org \in org THEN user[u].org ELSE None

\* The SQL predicate of every listing and joined read.
group_visible_to(g, f, u) ==
    \/ f.access = "public" /\ f.status # "draft"
    \/ held[g][u] # {}
    \/ /\ f.access = "organization" /\ f.org # None
       /\ f.org = caller_live_organization_select(u)

\* Its mirror in the gates that resolved one group.
group_is_visible(g, f, u) ==
    \/ super_permission \in effective_permissions(u)
    \/ resolve_object_access(g, u).is_member
    \/ f.access = "public" /\ f.status # "draft"
    \/ /\ f.access = "organization"
       /\ f.org \in org /\ caller_live_organization_select(u) # None
       /\ f.org = caller_live_organization_select(u)

\* The scope of every row below a group: evaluations, scenarios, tasks, conversations.
join_visible_evaluation_group(g, f, u) ==
    super_permission \in effective_permissions(u) \/ group_visible_to(g, f, u)

\* A manager passes both GET and, asking for all groups, the list.
get_evaluation_group(g, f, u) ==
    /\ "read" \in effective_permissions(u)
    /\ join_visible_evaluation_group(g, f, u)

list_evaluation_groups(all, u) ==
    {g \in Groups : /\ "read" \in effective_permissions(u)
                    /\ \/ all /\ super_permission \in effective_permissions(u)
                       \/ group_visible_to(g, Form[g], u)}

require_group_read(g, f, u) == "read" \in effective_permissions(u) /\ group_is_visible(g, f, u)

require_group_permission(g, f, u, p) ==
    group_is_visible(g, f, u) /\ ObjectAccessContext_has(resolve_object_access(g, u), p)

\* The level is the group's `after` one once it is inactive, its `during` one before.
resolve_metrics_scope(level, access) ==
    CASE ObjectAccessContext_has(access, "view_metrics") -> "FULL"
      [] OTHER ->
         CASE level = "inherit_group_access" -> "FULL"
           [] level = "all_members" /\ access.is_member -> "FULL"
           [] level = "members_personal_metrics" /\ access.is_member
                 /\ ObjectAccessContext_has(access, "view_personal_metrics") -> "PERSONAL"
           [] OTHER -> "NONE"

require_group_metrics_access(g, f, level, u) ==
    require_group_read(g, f, u) /\ resolve_metrics_scope(level, resolve_object_access(g, u)) # "NONE"

\* What the group page tells the client it may do.
resolve_group_user_permissions(g, level, u) ==
    LET access == resolve_object_access(g, u)
    IN  effective_object_permissions(access)
        \cup IF resolve_metrics_scope(level, access) # "NONE" THEN {"view_metrics"} ELSE {}

list_members(g) == {u \in Users : user[u].live /\ held[g][u] # {}}

\* The roles a picker offers.
list_roles(include_inactive, assignable_only) ==
    {r \in Roles : LiveRole(r) /\ (include_inactive \/ role[r].active) /\ (assignable_only => role[r].assignable)}

----------------------------------------------------------------------------
(* Requests in flight.                                                     *)

Edit == edits < MaxEdits /\ edits' = edits + 1
Begin(t, r) == req[t] = Idle /\ Edit /\ req' = [req EXCEPT ![t] = r]
End(t) == req' = [req EXCEPT ![t] = Idle]

\* get_role reads FOR UPDATE; inserting a row that refers to the role waits for the holder.
RoleLocked(r) == \E t \in Requests : req[t].op \in {"patch", "delete_role"} /\ req[t].role = r

\* A request that will leave r unusable.
Retiring(t) == \/ req[t].op = "delete_role"
               \/ req[t].op = "patch" /\ ~req[t].row.active /\ role[req[t].role].active

WritersOf(u) == {t \in Requests : req[t].op = "update_user" /\ req[t].user = u}
NoteWriter(u) == overlapped' = IF WritersOf(u) # {} \/ \E t \in Requests : Retiring(t)
                               THEN overlapped \cup {u} ELSE overlapped
\* Retirements of different roles are not serialized: an account may hold two such roles.
NoteRetirement(r) ==
    overlapped' = overlapped \cup
        {u \in Users : \/ WritersOf(u) # {}
                       \/ \E t \in Requests : Retiring(t) /\ {r, req[t].role} \subseteq user[u].roles}

\* An error, a client gone or the database breaking a deadlock: nothing of the request is kept.
Rollback(t) ==
    /\ req[t] # Idle /\ End(t)
    /\ UNCHANGED <<role, user, held, org, edits, late, overlapped>>

----------------------------------------------------------------------------
(* The role catalogue.                                                     *)

count_members_holding(r) ==
    Cardinality({m \in Groups \X Users : user[m[2]].live /\ r \in held[m[1]][m[2]]})

count_members_solely_holding(r) ==
    Cardinality({m \in Groups \X Users :
                    user[m[2]].live /\ {x \in held[m[1]][m[2]] : Usable(x)} = {r}})

count_users_solely_holding(r) ==
    Cardinality({u \in Users : user[u].live /\ {x \in user[u].roles : Usable(x)} = {r}})

assert_role_not_sole(r) == count_users_solely_holding(r) = 0 /\ count_members_solely_holding(r) = 0
assert_no_group_holders(r) == count_members_holding(r) = 0

assert_deactivatable(r) ==
    r \notin NON_DEACTIVATABLE_SYSTEM_ROLES /\ ~role[r].default /\ ~role[r].pdefault

assert_can_be_default(r) == r \notin NON_DEACTIVATABLE_SYSTEM_ROLES
assert_grantable_in_group(row) == row.assignable /\ required_permission \in row.perms

\* Variant: the row is read without FOR UPDATE.
GetRoleUnlocked(r) == LiveRole(r)

get_role(r) == LiveRole(r) /\ ~RoleLocked(r)

validate_custom_permissions(perms) == perms \in CustomPerms

create_role_endpoint(r, perms) ==
    /\ role[r].st = "none" /\ validate_custom_permissions(perms) /\ Edit
    /\ role' = [role EXCEPT ![r] = CustomRole("live", FALSE, perms)]
    /\ UNCHANGED <<user, held, org, req, late, overlapped>>

\* The label, permission and assignability edits of a PATCH: system roles refuse them.
update_role_ok(r, p) ==
    (p.perms # None \/ p.assignable # None) =>
        /\ r \notin SystemRoles
        /\ p.perms # None => validate_custom_permissions(p.perms)
        /\ (p.assignable = FALSE /\ role[r].assignable) => ~role[r].pdefault /\ assert_no_group_holders(r)
update_role(r, p) ==
    [role[r] EXCEPT !.perms = IF p.perms # None THEN p.perms ELSE @,
                    !.assignable = IF p.assignable # None THEN p.assignable ELSE @]

set_role_active_ok(r, p) ==
    (p.active = FALSE /\ role[r].active) => assert_deactivatable(r) /\ assert_role_not_sole(r)
set_role_active(row, p) == [row EXCEPT !.active = IF p.active # None THEN p.active ELSE @]

\* A flag is handed over, never cleared.
set_default_role_ok(r, row, p) ==
    /\ p.default = TRUE => assert_can_be_default(r) /\ row.active
    /\ p.default = FALSE => ~row.default
set_participant_default_role_ok(r, row, p) ==
    /\ p.pdefault = TRUE => assert_can_be_default(r) /\ row.active /\ assert_grantable_in_group(row)
    /\ p.pdefault = FALSE => ~row.pdefault

set_flags(row, p) == [row EXCEPT !.default = @ \/ p.default = TRUE, !.pdefault = @ \/ p.pdefault = TRUE]

default_holder == IF \E d \in Roles : LiveRole(d) /\ role[d].default
                  THEN CHOOSE d \in Roles : LiveRole(d) /\ role[d].default ELSE None
participant_default_holder == IF \E d \in Roles : LiveRole(d) /\ role[d].pdefault
                              THEN CHOOSE d \in Roles : LiveRole(d) /\ role[d].pdefault ELSE None

\* The fields are applied in the handler's order to the locked row, then the flags move.
update_role_endpoint(t, r, p) ==
    /\ get_role(r)
    /\ update_role_ok(r, p)
    /\ LET row1 == update_role(r, p)
           row2 == set_role_active(row1, p)
       IN  /\ (p.perms # None \/ p.assignable # None) /\ row1.assignable => assert_grantable_in_group(row1)
           /\ set_role_active_ok(r, p)
           /\ set_default_role_ok(r, row2, p)
           /\ set_participant_default_role_ok(r, row2, p)
           /\ Begin(t, [op |-> "patch", role |-> r, row |-> set_flags(row2, p),
                        cur  |-> IF p.default = TRUE /\ ~row2.default THEN default_holder ELSE None,
                        pcur |-> IF p.pdefault = TRUE /\ ~row2.pdefault THEN participant_default_holder ELSE None])
           /\ IF p.active = FALSE /\ role[r].active THEN NoteRetirement(r) ELSE UNCHANGED overlapped
    /\ UNCHANGED <<role, user, held, org, late>>

\* The holder of a flag is read FOR UPDATE: the request waits for another that has that row, and
\* finds no holder when it is one no more; the unique index then refuses a second one.
ix_roles_is_default(t) == req[t].cur # None => role[req[t].cur].default /\ LiveRole(req[t].cur)
ix_roles_is_participant_default(t) ==
    req[t].pcur # None => role[req[t].pcur].pdefault /\ LiveRole(req[t].pcur)

CommitPatch(t) ==
    /\ req[t].op = "patch"
    /\ \A t2 \in Requests \ {t} :
           req[t2].op \in {"patch", "delete_role"} => req[t2].role \notin {req[t].cur, req[t].pcur}
    /\ ix_roles_is_default(t) /\ ix_roles_is_participant_default(t)
    /\ role' = [r \in Roles |->
                  IF r = req[t].role THEN req[t].row
                  ELSE [role[r] EXCEPT !.default = @ /\ r # req[t].cur, !.pdefault = @ /\ r # req[t].pcur]]
    /\ End(t)
    /\ UNCHANGED <<user, held, org, edits, late, overlapped>>

delete_role_ok(r) ==
    r \notin SystemRoles /\ ~role[r].default /\ ~role[r].pdefault /\ assert_role_not_sole(r)

delete_role_endpoint(t, r) ==
    /\ get_role(r) /\ delete_role_ok(r)
    /\ Begin(t, [op |-> "delete_role", role |-> r])
    /\ NoteRetirement(r)
    /\ UNCHANGED <<role, user, held, org, late>>

CommitDeleteRole(t) ==
    /\ req[t].op = "delete_role"
    /\ role' = [role EXCEPT ![req[t].role].st = "dead"]
    /\ End(t)
    /\ UNCHANGED <<user, held, org, edits, late, overlapped>>

get_restorable_role(r) == role[r].st = "dead" /\ ~RoleLocked(r)

\* Back with its permissions, its activation and its holders.
restore_role(r) == r \notin SystemRoles /\ role' = [role EXCEPT ![r].st = "live"]

restore_role_endpoint(r) ==
    /\ get_restorable_role(r) /\ Edit
    /\ restore_role(r)
    /\ UNCHANGED <<user, held, org, req, late, overlapped>>

----------------------------------------------------------------------------
(* Accounts.                                                               *)

get_user(u) == user[u].live
get_roles_by_ids(rs) == \A r \in rs : Usable(r)

\* The whole set is replaced, roles the client cannot see excepted; only the difference is written.
update_user(t, u, rs) ==
    LET kept == {r \in user[u].roles \ rs : Usable(r)}
    IN  Begin(t, [op |-> "update_user", user |-> u, drop |-> kept, add |-> rs \ user[u].roles])

update_user_endpoint(t, u, rs) ==
    /\ get_user(u) /\ get_roles_by_ids(rs)
    /\ update_user(t, u, rs)
    /\ NoteWriter(u)
    /\ UNCHANGED <<role, user, held, org, late>>

\* A row another request deleted or inserted first fails the flush.
CommitUserRoles(t) ==
    /\ req[t].op = "update_user"
    /\ req[t].drop \subseteq user[req[t].user].roles
    /\ req[t].add \cap user[req[t].user].roles = {}
    /\ \A r \in req[t].add : ~RoleLocked(r)
    /\ user' = [user EXCEPT ![req[t].user].roles = (@ \ req[t].drop) \cup req[t].add]
    /\ End(t)
    /\ UNCHANGED <<role, held, org, edits, late, overlapped>>

blocked_elevated_roles(u, privileged) ==
    IF privileged THEN {} ELSE {r \in user[u].roles : LiveRole(r) /\ r \in ELEVATED_ROLE_PERMISSIONS}

\* Variant: a deleted account still counts as the other owner.
GhostHolderCounts(g, u) == \E v \in Users \ {u} : Owner \in held[g][v]

live_protected_holder_exists(g, u) == \E v \in Users \ {u} : user[v].live /\ Owner \in held[g][v]

\* Of the groups the scan found, those nobody else owns.
objects_solely_held_by(u, groups) == {g \in groups : ~live_protected_holder_exists(g, u)}

\* The scan is unlocked; its rows are locked for the check that follows it.
delete_user_endpoint(t, u, privileged) ==
    /\ get_user(u) /\ blocked_elevated_roles(u, privileged) = {}
    /\ Begin(t, [op |-> "delete_user", user |-> u, groups |-> {g \in Groups : Owner \in held[g][u]}])
    /\ UNCHANGED <<role, user, held, org, late, overlapped>>

\* The account's assignments outlive it.
soft_delete_user(t) ==
    /\ req[t].op = "delete_user"
    /\ objects_solely_held_by(req[t].user, req[t].groups) = {}
    /\ user' = [user EXCEPT ![req[t].user].live = FALSE]
    /\ End(t)
    /\ UNCHANGED <<role, held, org, edits, late, overlapped>>

get_restorable_user(u) == ~user[u].live
\* Variant: an account comes back whatever became of its roles.
RestoreAnyway(u) == TRUE

restore_user(u) == \E r \in user[u].roles : Usable(r)

restore_user_endpoint(u, privileged) ==
    /\ get_restorable_user(u) /\ blocked_elevated_roles(u, privileged) = {}
    /\ restore_user(u) /\ Edit
    /\ user' = [user EXCEPT ![u].live = TRUE]
    /\ NoteWriter(u)
    /\ UNCHANGED <<role, held, org, req, late>>

----------------------------------------------------------------------------
(* Members of an evaluation group.                                         *)

resolve_assignable_roles(rs) ==
    get_roles_by_ids(rs) /\ \A r \in rs : role[r].assignable /\ required_permission \in role[r].perms

add_member(t, g, u, rs) ==
    /\ held[g][u] = {}
    /\ Begin(t, [op |-> "members", group |-> g, user |-> u, drop |-> {}, add |-> rs])

add_group_member_endpoint(t, g, u, rs) ==
    /\ get_user(u) /\ resolve_assignable_roles(rs)
    /\ add_member(t, g, u, rs)
    /\ UNCHANGED <<role, user, held, org, late, overlapped>>

get_participant_default_role == {r \in Roles : Usable(r) /\ role[r].pdefault}

\* Self-service: granted whatever the role's permissions.
join_evaluation_group(t, g, u) ==
    /\ Form[g].access # "invitation_only" /\ Form[g].status = "published"
    /\ get_user(u)
    /\ get_participant_default_role # {}
    /\ add_member(t, g, u, get_participant_default_role)

join_evaluation_group_endpoint(t, g, u) ==
    /\ require_group_read(g, Form[g], u)
    /\ join_evaluation_group(t, g, u)
    /\ UNCHANGED <<role, user, held, org, late, overlapped>>

hidden_roles(rs) == {r \in rs : ~Usable(r)}

set_member_roles(t, g, u, rs) ==
    /\ held[g][u] # {}
    /\ LET target == rs \cup hidden_roles(held[g][u] \ rs)
       IN  Begin(t, [op |-> "members", group |-> g, user |-> u,
                     drop |-> held[g][u] \ target, add |-> rs \ held[g][u]])

update_group_member_endpoint(t, g, u, rs) ==
    /\ get_user(u) /\ resolve_assignable_roles(rs)
    /\ set_member_roles(t, g, u, rs)
    /\ UNCHANGED <<role, user, held, org, late, overlapped>>

remove_member(t, g, u) ==
    /\ held[g][u] # {}
    /\ Begin(t, [op |-> "members", group |-> g, user |-> u, drop |-> held[g][u], add |-> {}])

remove_group_member_endpoint(t, g, u) ==
    /\ remove_member(t, g, u)
    /\ UNCHANGED <<role, user, held, org, late, overlapped>>

\* The owner rows of the group are locked from this check to the commit.
assert_protected_role_survives(g, u, drop) == Owner \in drop => live_protected_holder_exists(g, u)

DeletionPastScan(g, u) ==
    \E t \in Requests : req[t].op = "delete_user" /\ req[t].user = u /\ g \notin req[t].groups

grant_roles(g, u, drop, add) ==
    /\ add \cap held[g][u] = {}
    /\ \A r \in add : ~RoleLocked(r)
    /\ held' = [held EXCEPT ![g][u] = (@ \ drop) \cup add]

CommitMembers(t) ==
    /\ req[t].op = "members"
    /\ assert_protected_role_survives(req[t].group, req[t].user, req[t].drop)
    /\ grant_roles(req[t].group, req[t].user, req[t].drop, req[t].add)
    /\ late' = IF Owner \in req[t].add /\ DeletionPastScan(req[t].group, req[t].user)
               THEN late \cup {req[t].group} ELSE late
    /\ End(t)
    /\ UNCHANGED <<role, user, org, edits, overlapped>>

----------------------------------------------------------------------------
(* Organizations.                                                          *)

get_organization(o) == o \in org

\* Moves the user out of any other one.
assign_member(o, u) == user' = [user EXCEPT ![u].org = o]

assign_organization_member_endpoint(o, u) ==
    /\ get_organization(o) /\ get_user(u) /\ Edit
    /\ assign_member(o, u)
    /\ UNCHANGED <<role, held, org, req, late, overlapped>>

\* 404 for somebody who is not a member of this one.
remove_organization_member(o, u) == user[u].org = o /\ user' = [user EXCEPT ![u].org = None]

remove_organization_member_endpoint(o, u) ==
    /\ get_organization(o) /\ get_user(u) /\ Edit
    /\ remove_organization_member(o, u)
    /\ UNCHANGED <<role, held, org, req, late, overlapped>>

\* Refused while a live group refers to it; its members keep the reference.
soft_delete_organization(o) ==
    /\ o \in org /\ ~\E g \in Groups : Form[g].org = o
    /\ Edit
    /\ org' = org \ {o}
    /\ UNCHANGED <<role, user, held, req, late, overlapped>>

restore_organization(o) ==
    /\ o \notin org /\ Edit
    /\ org' = org \cup {o}
    /\ UNCHANGED <<role, user, held, req, late, overlapped>>

----------------------------------------------------------------------------
Next ==
    \/ \E t \in Requests : Rollback(t) \/ CommitPatch(t) \/ CommitDeleteRole(t)
                        \/ CommitUserRoles(t) \/ CommitMembers(t) \/ soft_delete_user(t)
    \/ \E t \in Requests, r \in Roles : \/ \E p \in Patches : update_role_endpoint(t, r, p)
                                        \/ delete_role_endpoint(t, r)
    \/ \E r \in Roles : \/ restore_role_endpoint(r)
                        \/ \E perms \in CustomPerms : create_role_endpoint(r, perms)
    \/ \E t \in Requests, u \in Users : \/ \E rs \in RoleSets : update_user_endpoint(t, u, rs)
                                        \/ \E privileged \in BOOLEAN : delete_user_endpoint(t, u, privileged)
    \/ \E u \in Users, privileged \in BOOLEAN : restore_user_endpoint(u, privileged)
    \/ \E t \in Requests, g \in Groups, u \in Users :
          \/ \E rs \in RoleSets : \/ add_group_member_endpoint(t, g, u, rs)
                                  \/ update_group_member_endpoint(t, g, u, rs)
          \/ join_evaluation_group_endpoint(t, g, u)
          \/ remove_group_member_endpoint(t, g, u)
    \/ \E o \in Orgs : \/ soft_delete_organization(o) \/ restore_organization(o)
                       \/ \E u \in Users : \/ assign_organization_member_endpoint(o, u)
                                           \/ remove_organization_member_endpoint(o, u)

Spec == Init /\ [][Next]_vars

----------------------------------------------------------------------------
(* Properties.                                                             *)

\* Removals, demotions and account deletions, however they interleave, leave every group a live
\* user who may manage its members (_assert_protected_role_survives, objects_solely_held_by).  The
\* one way out: an owner appointed after the deletion of that account looked for the groups it owns.
GroupGoverned ==
    \A g \in Groups \ late :
        \E u \in Users : user[u].live /\ require_group_permission(g, Form[g], u, "manage_members")

\* Whatever hand-overs, deactivations and deletions race, registration and self-join each find
\* exactly one role, and the one self-join grants is usable inside a group (get_default_role,
\* get_participant_default_role, set_default_role).
DefaultsResolvable ==
    /\ \E d \in Roles : {r \in Roles : LiveRole(r) /\ role[r].default} = {d} /\ role[d].active
    /\ \E d \in Roles : /\ {r \in Roles : LiveRole(r) /\ role[r].pdefault} = {d}
                        /\ role[d].active /\ assert_grantable_in_group(role[d])

\* No sequence of role and account edits, deletions and restores leaves a live account without a
\* usable role (_assert_role_not_sole, restore_user), unless a write of its roles overlapped another
\* one or the retirement of a role, or two of its roles were retired at once, which the unlocked
\* reads of these allow.
AccountsKeepARole ==
    \A u \in Users \ overlapped : user[u].live => \E r \in user[u].roles : Usable(r)

\* The predicates the code states twice agree in every state, whatever form a group has: the SQL
\* visibility of the group page and the Python one of the gates, the metrics key the page shows and
\* the metrics gate, the SQL and the Python reading of a capability, the roster and the membership,
\* the roles a picker offers and those an assignment accepts.  The documented exception is a member
\* all of whose roles are deleted, who sees the group and may do nothing in it.
ReadGatesAgree ==
    /\ list_roles(FALSE, TRUE) = {r \in Roles : resolve_assignable_roles({r})}
    /\ \A u \in Users, g \in Groups : user[u].live =>
        /\ resolve_object_access(g, u).is_member => u \in list_members(g)
        /\ get_evaluation_group(g, Form[g], u) <=> g \in list_evaluation_groups(TRUE, u)
        /\ \A p \in Perms : g \in groups_granting(p, u) <=> assert_object_permission(g, u, p)
        /\ \A p \in Perms : holds_permission_anywhere(u, p) <=> groups_granting(p, u) # {}
        /\ IF held[g][u] # {} /\ held_roles(g, u) = {}
           THEN resolve_object_access(g, u).permissions = {}
           ELSE /\ \A f \in Forms : get_evaluation_group(g, f, u) <=> require_group_read(g, f, u)
                /\ get_evaluation_group(g, Form[g], u) =>
                      \A level \in MetricsAccessLevel :
                          "view_metrics" \in resolve_group_user_permissions(g, level, u)
                              <=> require_group_metrics_access(g, Form[g], level, u)

=============================================================================
