-------------------------- MODULE MembershipProofs --------------------------
(***************************************************************************)
(* Theorems about Membership, for any catalogue of roles, any users and    *)
(* groups, and any number of requests in flight.  The inductive invariant  *)
(* has three parts: what the row lock on a role keeps true of a request    *)
(* that will patch or delete it (Catalogue), what the scan of an account   *)
(* deletion has seen of the groups the account owns (Governance), and what *)
(* the checks before a role is retired or an account rewritten still say   *)
(* when the request commits (Accounts).                                    *)
(***************************************************************************)
EXTENDS Membership, FiniteSetTheorems, TLAPS

-----------------------------------------------------------------------------
(* The inductive invariant                                                  *)

Locks(x) == x.op \in {"patch", "delete_role"}
Writes(x) == x.op = "update_user"

\* A role that may be given inside a group lets its holder read it.
OffersAccess(row) == row.assignable => required_permission \in row.perms

\* The row a patch is to write, against the locked row it was computed from.
PatchOK(x) ==
    x.op = "patch" =>
        /\ role[x.role].st = "live" /\ x.row.st = "live"
        /\ OffersAccess(x.row)
        /\ x.row.default => x.row.active
        /\ x.row.pdefault => x.row.active /\ assert_grantable_in_group(x.row)
        /\ IF x.cur = None THEN x.row.default = role[x.role].default ELSE x.row.default /\ x.cur # x.role
        /\ IF x.pcur = None THEN x.row.pdefault = role[x.role].pdefault ELSE x.row.pdefault /\ x.pcur # x.role
        /\ x.role = Owner => x.row.active /\ x.row.perms = role[Owner].perms

DeleteOK(x) ==
    x.op = "delete_role" => /\ x.role \notin SystemRoles /\ role[x.role].st = "live"
                            /\ ~role[x.role].default /\ ~role[x.role].pdefault

\* Two requests never hold the same role.
Exclusive == \A t, u \in Requests : t # u /\ Locks(req[t]) /\ Locks(req[u]) => req[t].role # req[u].role

RowsOK ==
    /\ \A r \in Roles : role[r].st # "live" => ~role[r].default /\ ~role[r].pdefault
    /\ \A r \in Roles : OffersAccess(role[r])
    /\ role[Owner].st = "live" /\ role[Owner].active /\ role[Owner].perms = ROLE_PERMISSIONS[Owner]

Catalogue ==
    /\ RowsOK
    /\ DefaultsResolvable
    /\ Exclusive
    /\ \A t \in Requests : PatchOK(req[t]) /\ DeleteOK(req[t])

\* A group that is not in late has a live owner; a group that the deletion of an account
\* did not find among those it owns, and that it owns by now, is in late.
ScanOK(x) == x.op = "delete_user" => \A g \in Groups \ x.groups : Owner \in held[g][x.user] => g \in late

Governance ==
    /\ \A g \in Groups \ late : \E u \in Users : user[u].live /\ Owner \in held[g][u]
    /\ \A t \in Requests : ScanOK(req[t])

\* Past its check, the retirement of a role leaves each of its holders another usable role,
\* and no account holds two roles that are being retired.
RetirementOK(t) ==
    Retiring(t) => \A u \in Users \ overlapped : req[t].role \in user[u].roles =>
        /\ user[u].live => \E x \in user[u].roles : x # req[t].role /\ Usable(x)
        /\ \A v \in Requests : v # t /\ Retiring(v) => req[v].role \notin user[u].roles

\* A request that rewrites the roles of an account is alone, and leaves it a usable role.
WriterOK(t) ==
    Writes(req[t]) /\ req[t].user \notin overlapped =>
        /\ \A v \in Requests : ~Retiring(v)
        /\ \A v \in Requests : Writes(req[v]) /\ req[v].user = req[t].user => v = t
        /\ \E x \in (user[req[t].user].roles \ req[t].drop) \cup req[t].add : Usable(x)

Accounts ==
    /\ AccountsKeepARole
    /\ \A t \in Requests : RetirementOK(t) /\ WriterOK(t)

IInv == TypeOK /\ Catalogue /\ Governance /\ Accounts

-----------------------------------------------------------------------------
LEMMA InitIInv == Init => IInv
<1> SUFFICES ASSUME Init PROVE IInv
  OBVIOUS
<1>1. PICK st \in {"none", "live"} :
        role = [r \in Roles |-> IF r \in SystemRoles THEN sync_system_roles[r]
                                ELSE CustomRole(st, st = "live", {required_permission})]
  BY DEF Init
<1>2. ASSUME NEW r \in Roles
      PROVE  /\ role[r] \in Role /\ role[r].active /\ "read" \in role[r].perms
             /\ r \in SystemRoles => role[r].st = "live" /\ role[r].assignable /\ role[r].perms = ROLE_PERMISSIONS[r]
             /\ (role[r].default <=> r = RedTeamer) /\ (role[r].pdefault <=> r = RedTeamer)
  <2>1. CASE r \in SystemRoles
    <3>1. role[r] = [st |-> "live", active |-> TRUE, default |-> r = RedTeamer, pdefault |-> r = RedTeamer,
                     assignable |-> TRUE, perms |-> ROLE_PERMISSIONS[r]]
      BY <1>1, <2>1 DEF sync_system_roles
    <3>2. ROLE_PERMISSIONS[r] \in SUBSET Perms /\ "read" \in ROLE_PERMISSIONS[r]
      BY <2>1 DEF ROLE_PERMISSIONS, Perms
    <3>3. role[r] \in Role
      BY <3>1, <3>2 DEF Role
    <3>4. /\ role[r].active /\ role[r].st = "live" /\ role[r].assignable /\ role[r].perms = ROLE_PERMISSIONS[r]
          /\ role[r].default = (r = RedTeamer) /\ role[r].pdefault = (r = RedTeamer)
      BY <3>1
    <3> QED BY <3>2, <3>3, <3>4
  <2>2. CASE r \notin SystemRoles
    <3>1. role[r] = [st |-> st, active |-> TRUE, default |-> FALSE, pdefault |-> FALSE,
                     assignable |-> (st = "live"), perms |-> {"read"}]
      BY <1>1, <2>2 DEF CustomRole, required_permission
    <3>2. r # RedTeamer
      BY <2>2, ConstAssumption
    <3>3. {"read"} \in SUBSET Perms /\ (st = "live") \in BOOLEAN
      BY DEF Perms
    <3>4. role[r] \in Role
      BY <3>1, <3>3 DEF Role
    <3>5. role[r].active /\ ~role[r].default /\ ~role[r].pdefault /\ "read" \in role[r].perms
      BY <3>1
    <3> QED BY <2>2, <3>2, <3>4, <3>5
  <2> QED BY <2>1, <2>2
<1>3. role \in [Roles -> Role]
  BY <1>1, <1>2
<1>4. \A u \in Users : user[u].live /\ user[u].roles \in RoleSets /\ \A r \in user[u].roles : role[r].st = "live"
  BY DEF Init
<1>5. TypeOK
  <2>1. user \in [Users -> User]
    <3>1. ASSUME NEW u \in Users PROVE user[u] \in User
      <4>1. user[u] \in [live : {TRUE}, roles : RoleSets, org : {None}]
        BY DEF Init
      <4> QED BY <4>1, ConstAssumption DEF User
    <3>2. user = [u \in Users |-> user[u]]
      BY DEF Init
    <3> QED BY <3>1, <3>2
  <2>2. held \in ObjectRoleAssignment
    BY ConstAssumption DEF Init, ObjectRoleAssignment
  <2>3. req \in [Requests -> Request]
    BY DEF Init, Request
  <2>4. edits \in 0 .. MaxEdits
    BY ConstAssumption DEF Init
  <2> QED BY <1>3, <2>1, <2>2, <2>3, <2>4 DEF Init, TypeOK
<1>6. \A t \in Requests : req[t].op = "idle"
  BY DEF Init, Idle
<1>7. Catalogue
  <2>1. RowsOK
    BY <1>2, ConstAssumption DEF RowsOK, OffersAccess, required_permission
  <2>2. RedTeamer \in Roles /\ "read" \in role[RedTeamer].perms
    <3>1. RedTeamer \in Roles /\ RedTeamer \in SystemRoles /\ RedTeamer # Owner
      BY ConstAssumption
    <3>2. ROLE_PERMISSIONS[RedTeamer] = {"read", "view_personal_metrics"}
      BY <3>1 DEF ROLE_PERMISSIONS
    <3>3. role[RedTeamer].perms = ROLE_PERMISSIONS[RedTeamer]
      BY <1>2, <3>1
    <3> QED BY <3>1, <3>2, <3>3
  <2>3. DefaultsResolvable
    <3>1. role[RedTeamer].st = "live" /\ role[RedTeamer].active /\ role[RedTeamer].assignable
      BY <1>2, <2>2, ConstAssumption
    <3>2. {r \in Roles : LiveRole(r) /\ role[r].default} = {RedTeamer}
      BY <1>2, <2>2, <3>1 DEF LiveRole
    <3>3. {r \in Roles : LiveRole(r) /\ role[r].pdefault} = {RedTeamer}
      BY <1>2, <2>2, <3>1 DEF LiveRole
    <3>4. assert_grantable_in_group(role[RedTeamer])
      BY <2>2, <3>1 DEF assert_grantable_in_group, required_permission
    <3> QED BY <2>2, <3>1, <3>2, <3>3, <3>4 DEF DefaultsResolvable
  <2> QED BY <1>6, <2>1, <2>3 DEF Catalogue, Exclusive, Locks, PatchOK, DeleteOK
<1>8. Governance
  <2>1. \A g \in Groups : Creator[g] \in Users /\ Owner \in held[g][Creator[g]]
    BY ConstAssumption DEF Init
  <2> QED BY <1>4, <1>6, <2>1 DEF Governance, ScanOK
<1>9. Accounts
  <2>1. AccountsKeepARole
    BY <1>2, <1>4, ConstAssumption DEF AccountsKeepARole, Usable, LiveRole
  <2> QED BY <1>6, <2>1 DEF Accounts, RetirementOK, WriterOK, Retiring, Writes
<1> QED BY <1>5, <1>7, <1>8, <1>9 DEF IInv

-----------------------------------------------------------------------------
(* Types, and what a step that does not touch a part leaves true of it      *)

LEMMA RequestKinds ==
    ASSUME NEW x \in Request
    PROVE  /\ x.op = "idle" => x = Idle
           /\ x.op = "patch" => /\ x.role \in Roles /\ x.row \in Role
                                /\ x.cur \in Roles \cup {None} /\ x.pcur \in Roles \cup {None}
           /\ x.op = "delete_role" => x.role \in Roles
           /\ x.op = "members" => /\ x.group \in Groups /\ x.user \in Users
                                  /\ x.drop \in SUBSET Roles /\ x.add \in SUBSET Roles
           /\ x.op = "update_user" => x.user \in Users /\ x.drop \in SUBSET Roles /\ x.add \in SUBSET Roles
           /\ x.op = "delete_user" => x.user \in Users /\ x.groups \in SUBSET Groups
           /\ x.op \in {"idle", "patch", "delete_role", "members", "update_user", "delete_user"}
  BY DEF Request, Idle

\* One request moves.
LEMMA RequestStep ==
    ASSUME TypeOK, NEW t \in Requests, NEW x \in Request, req' = [req EXCEPT ![t] = x]
    PROVE  /\ req' \in [Requests -> Request]
           /\ \A u \in Requests : req'[u] = IF u = t THEN x ELSE req[u]
  BY DEF TypeOK

LEMMA EndStep ==
    ASSUME TypeOK, NEW t \in Requests, End(t)
    PROVE  /\ req' \in [Requests -> Request]
           /\ \A u \in Requests : req'[u] = req[u] \/ req'[u] = Idle
           /\ \A u \in Requests : u # t => req'[u] = req[u]
           /\ req'[t] = Idle
<1>1. Idle \in Request
  BY DEF Request
<1> QED BY <1>1, RequestStep DEF End

LEMMA IdleIsQuiet == ~Locks(Idle) /\ ~Writes(Idle) /\ Idle.op = "idle"
  BY DEF Idle, Locks, Writes

LEMMA CatalogueFrame ==
    ASSUME Catalogue, role' = role, \A t \in Requests : req'[t] = req[t] \/ ~Locks(req'[t])
    PROVE  Catalogue'
<1>1. RowsOK' /\ DefaultsResolvable'
  BY DEF Catalogue, RowsOK, DefaultsResolvable, LiveRole, assert_grantable_in_group
<1>2. Exclusive'
  BY DEF Catalogue, Exclusive
<1>3. ASSUME NEW t \in Requests PROVE PatchOK(req[t])' /\ DeleteOK(req[t])'
  <2>1. CASE req'[t] = req[t]
    BY <2>1 DEF Catalogue, PatchOK, DeleteOK, assert_grantable_in_group
  <2>2. CASE ~Locks(req'[t])
    BY <2>2 DEF Locks, PatchOK, DeleteOK
  <2> QED BY <2>1, <2>2
<1> QED BY <1>1, <1>2, <1>3 DEF Catalogue

LEMMA GovernanceFrame ==
    ASSUME Governance, held' = held, late' = late, \A u \in Users : user[u].live => user'[u].live,
           \A t \in Requests : req'[t] = req[t] \/ req'[t].op # "delete_user"
    PROVE  Governance'
<1>1. ASSUME NEW t \in Requests PROVE ScanOK(req[t])'
  BY DEF Governance, ScanOK
<1> QED BY <1>1 DEF Governance

LEMMA AccountsFrame ==
    ASSUME TypeOK, Accounts, req' \in [Requests -> Request],
           \A u \in Users : user'[u].roles = user[u].roles /\ (user'[u].live => user[u].live),
           \A r \in Roles : Usable(r) => Usable(r)',
           \A t \in Requests : Retiring(t)' => Retiring(t) /\ req'[t].role = req[t].role,
           \A t \in Requests : Writes(req'[t]) => req'[t] = req[t],
           overlapped \subseteq overlapped'
    PROVE  Accounts'
<1>1. \A u \in Users : user[u].roles \subseteq Roles
  BY DEF TypeOK, User
<1>2. AccountsKeepARole'
  BY <1>1 DEF Accounts, AccountsKeepARole
<1>3. ASSUME NEW t \in Requests PROVE RetirementOK(t)'
  BY <1>1 DEF Accounts, RetirementOK
<1>4. ASSUME NEW t \in Requests PROVE WriterOK(t)'
  <2> SUFFICES ASSUME Writes(req'[t]), req'[t].user \notin overlapped'
               PROVE  /\ \A v \in Requests : ~Retiring(v)'
                      /\ \A v \in Requests : Writes(req'[v]) /\ req'[v].user = req'[t].user => v = t
                      /\ \E x \in (user'[req'[t].user].roles \ req'[t].drop) \cup req'[t].add : Usable(x)'
    BY DEF WriterOK
  <2>1. PICK y \in Request : y = req[t] /\ req'[t] = y
    BY DEF TypeOK
  <2>2. y.user \in Users /\ y.add \in SUBSET Roles
    BY <2>1, RequestKinds DEF Writes
  <2>3. WriterOK(t) /\ Writes(y) /\ y.user \notin overlapped
    BY <2>1 DEF Accounts
  <2>4. /\ \A v \in Requests : ~Retiring(v)
        /\ \A v \in Requests : Writes(req[v]) /\ req[v].user = y.user => v = t
        /\ \E x \in (user[y.user].roles \ y.drop) \cup y.add : Usable(x)
    BY <2>1, <2>3 DEF WriterOK
  <2> QED BY <1>1, <2>1, <2>2, <2>4
<1> QED BY <1>2, <1>3, <1>4 DEF Accounts

\* The same for a step that neither touches the catalogue nor starts a request about roles.
LEMMA AccountsQuiet ==
    ASSUME TypeOK, Accounts, req' \in [Requests -> Request], role' = role, overlapped \subseteq overlapped',
           \A u \in Users : user'[u].roles = user[u].roles /\ (user'[u].live => user[u].live),
           \A t \in Requests : req'[t] = req[t] \/ (~Locks(req'[t]) /\ ~Writes(req'[t]))
    PROVE  Accounts'
<1>1. \A r \in Roles : Usable(r) => Usable(r)'
  BY DEF Usable, LiveRole
<1>2. \A t \in Requests : Retiring(t)' => Retiring(t) /\ req'[t].role = req[t].role
  BY DEF Retiring, Locks
<1> QED BY <1>1, <1>2, AccountsFrame

-----------------------------------------------------------------------------
(* Steps that touch no part of the invariant                                *)

LEMMA EditType ==
    ASSUME TypeOK, Edit
    PROVE  edits' \in 0 .. MaxEdits
  BY ConstAssumption DEF TypeOK, Edit

LEMMA RollbackSafe ==
    ASSUME IInv, NEW t \in Requests, Rollback(t)
    PROVE  IInv'
<1>1. TypeOK /\ Catalogue /\ Governance /\ Accounts /\ UNCHANGED <<role, user, held, org, edits, late, overlapped>>
  BY DEF IInv, Rollback
<1>2. req' \in [Requests -> Request] /\ \A u \in Requests : req'[u] = req[u] \/ req'[u] = Idle
  BY <1>1, EndStep DEF Rollback
<1>3. TypeOK'
  BY <1>1, <1>2 DEF TypeOK
<1>4. Catalogue'
  BY <1>1, <1>2, IdleIsQuiet, CatalogueFrame
<1>5. Governance'
  <2>1. \A u \in Requests : req'[u] = req[u] \/ req'[u].op # "delete_user"
    BY <1>2, IdleIsQuiet
  <2> QED BY <1>1, <2>1, GovernanceFrame
<1>6. Accounts'
  <2>1. \A u \in Requests : req'[u] = req[u] \/ (~Locks(req'[u]) /\ ~Writes(req'[u]))
    BY <1>2, IdleIsQuiet
  <2> QED BY <1>1, <1>2, <2>1, AccountsQuiet
<1> QED BY <1>3, <1>4, <1>5, <1>6 DEF IInv

\* A request about the members of a group has read, and is to commit.
LEMMA MembersBegin ==
    ASSUME IInv, NEW t \in Requests, NEW x \in Request, x.op = "members", Begin(t, x),
           UNCHANGED <<role, user, held, org, late, overlapped>>
    PROVE  IInv'
<1>1. TypeOK /\ Catalogue /\ Governance /\ Accounts /\ Edit
  BY DEF IInv, Begin
<1>2. /\ req' \in [Requests -> Request] /\ edits' \in 0 .. MaxEdits
      /\ \A u \in Requests : req'[u] = IF u = t THEN x ELSE req[u]
  BY <1>1, RequestStep, EditType DEF Begin
<1>3. TypeOK'
  BY <1>1, <1>2 DEF TypeOK
<1>4. \A u \in Requests : req'[u] = req[u] \/ (~Locks(req'[u]) /\ ~Writes(req'[u]) /\ req'[u].op # "delete_user")
  BY <1>2 DEF Locks, Writes
<1>5. Catalogue'
  BY <1>1, <1>4, CatalogueFrame
<1>6. Governance'
  BY <1>1, <1>4, GovernanceFrame
<1>7. Accounts'
  BY <1>1, <1>2, <1>4, AccountsQuiet
<1> QED BY <1>3, <1>5, <1>6, <1>7 DEF IInv

LEMMA MemberEndpointsSafe ==
    ASSUME IInv, NEW t \in Requests, NEW g \in Groups, NEW u \in Users,
           \/ \E rs \in RoleSets : add_group_member_endpoint(t, g, u, rs) \/ update_group_member_endpoint(t, g, u, rs)
           \/ join_evaluation_group_endpoint(t, g, u)
           \/ remove_group_member_endpoint(t, g, u)
    PROVE  IInv'
<1>1. held[g][u] \in SUBSET Roles
  BY DEF IInv, TypeOK, ObjectRoleAssignment
<1>2. \A rs \in RoleSets : rs \in SUBSET Roles
  BY ConstAssumption
<1>3. \A drop, add \in SUBSET Roles :
        /\ [op |-> "members", group |-> g, user |-> u, drop |-> drop, add |-> add] \in Request
        /\ [op |-> "members", group |-> g, user |-> u, drop |-> drop, add |-> add].op = "members"
  BY DEF Request
<1>4. PICK drop \in SUBSET Roles, add \in SUBSET Roles :
         Begin(t, [op |-> "members", group |-> g, user |-> u, drop |-> drop, add |-> add])
  <2>1. CASE \/ \E rs \in RoleSets : add_group_member_endpoint(t, g, u, rs)
             \/ join_evaluation_group_endpoint(t, g, u)
    <3>1. PICK rs \in SUBSET Roles : add_member(t, g, u, rs)
      BY <1>2, <2>1 DEF add_group_member_endpoint, join_evaluation_group_endpoint, join_evaluation_group,
                        get_participant_default_role
    <3>2. {} \in SUBSET Roles
      OBVIOUS
    <3> QED BY <3>1, <3>2 DEF add_member
  <2>2. ASSUME NEW rs \in RoleSets, update_group_member_endpoint(t, g, u, rs)
        PROVE  \E drop \in SUBSET Roles, add \in SUBSET Roles :
                  Begin(t, [op |-> "members", group |-> g, user |-> u, drop |-> drop, add |-> add])
    <3>1. PICK drop \in SUBSET Roles : drop = held[g][u] \ (rs \cup hidden_roles(held[g][u] \ rs))
      BY <1>1
    <3>2. PICK add \in SUBSET Roles : add = rs \ held[g][u]
      BY <1>2
    <3>3. Begin(t, [op |-> "members", group |-> g, user |-> u, drop |-> drop, add |-> add])
      BY <2>2, <3>1, <3>2 DEF update_group_member_endpoint, set_member_roles
    <3> QED BY <3>3
  <2>3. CASE remove_group_member_endpoint(t, g, u)
    <3>1. Begin(t, [op |-> "members", group |-> g, user |-> u, drop |-> held[g][u], add |-> {}])
      BY <2>3 DEF remove_group_member_endpoint, remove_member
    <3>2. {} \in SUBSET Roles
      OBVIOUS
    <3> QED BY <1>1, <3>1, <3>2
  <2> QED BY <2>1, <2>2, <2>3
<1>5. UNCHANGED <<role, user, held, org, late, overlapped>>
  BY DEF add_group_member_endpoint, update_group_member_endpoint, join_evaluation_group_endpoint,
         remove_group_member_endpoint
<1>6. PICK x : x = [op |-> "members", group |-> g, user |-> u, drop |-> drop, add |-> add]
  OBVIOUS
<1>7. x \in Request /\ x.op = "members"
  BY <1>3, <1>6
<1>8. Begin(t, x)
  BY <1>4, <1>6, Zenon
<1> QED BY <1>5, <1>7, <1>8, MembersBegin

\* One field of one account is written.
LEMMA UserWrite ==
    ASSUME TypeOK, NEW u \in Users
    PROVE  /\ \A o \in Orgs \cup {None} : user' = [user EXCEPT ![u].org = o] =>
                /\ user' \in [Users -> User]
                /\ \A v \in Users : user'[v].roles = user[v].roles /\ user'[v].live = user[v].live
           /\ \A b \in BOOLEAN : user' = [user EXCEPT ![u].live = b] =>
                /\ user' \in [Users -> User]
                /\ \A v \in Users : user'[v].roles = user[v].roles
                /\ user'[u].live = b /\ \A v \in Users : v # u => user'[v] = user[v]
           /\ \A rs \in SUBSET Roles : user' = [user EXCEPT ![u].roles = rs] =>
                /\ user' \in [Users -> User]
                /\ \A v \in Users : user'[v].live = user[v].live
                /\ user'[u].roles = rs /\ \A v \in Users : v # u => user'[v] = user[v]
<1>1. user \in [Users -> User] /\ user[u] \in User
  BY DEF TypeOK
<1>2. ASSUME NEW o \in Orgs \cup {None}, user' = [user EXCEPT ![u].org = o]
      PROVE  /\ user' \in [Users -> User]
             /\ \A v \in Users : user'[v].roles = user[v].roles /\ user'[v].live = user[v].live
  BY <1>1, <1>2 DEF User
<1>3. ASSUME NEW b \in BOOLEAN, user' = [user EXCEPT ![u].live = b]
      PROVE  /\ user' \in [Users -> User]
             /\ \A v \in Users : user'[v].roles = user[v].roles
             /\ user'[u].live = b /\ \A v \in Users : v # u => user'[v] = user[v]
  BY <1>1, <1>3 DEF User
<1>4. ASSUME NEW rs \in SUBSET Roles, user' = [user EXCEPT ![u].roles = rs]
      PROVE  /\ user' \in [Users -> User]
             /\ \A v \in Users : user'[v].live = user[v].live
             /\ user'[u].roles = rs /\ \A v \in Users : v # u => user'[v] = user[v]
  BY <1>1, <1>4 DEF User
<1> QED BY <1>2, <1>3, <1>4

LEMMA OrganizationsSafe ==
    ASSUME IInv, NEW o \in Orgs,
           \/ soft_delete_organization(o) \/ restore_organization(o)
           \/ \E u \in Users : assign_organization_member_endpoint(o, u) \/ remove_organization_member_endpoint(o, u)
    PROVE  IInv'
<1>1. TypeOK /\ Catalogue /\ Governance /\ Accounts
  BY DEF IInv
<1>2. UNCHANGED <<role, held, req, late, overlapped>> /\ Edit
  BY DEF soft_delete_organization, restore_organization, assign_organization_member_endpoint,
         remove_organization_member_endpoint
<1>3. org' \subseteq Orgs
  BY <1>1 DEF soft_delete_organization, restore_organization, assign_organization_member_endpoint,
         remove_organization_member_endpoint, TypeOK
<1>4. /\ user' \in [Users -> User]
      /\ \A v \in Users : user'[v].roles = user[v].roles /\ user'[v].live = user[v].live
  <2>1. CASE UNCHANGED user
    BY <1>1, <2>1 DEF TypeOK
  <2>2. ASSUME NEW u \in Users, NEW p \in Orgs \cup {None}, user' = [user EXCEPT ![u].org = p]
        PROVE  /\ user' \in [Users -> User]
               /\ \A v \in Users : user'[v].roles = user[v].roles /\ user'[v].live = user[v].live
    BY <1>1, <2>2, UserWrite
  <2> QED BY <2>1, <2>2 DEF soft_delete_organization, restore_organization, assign_organization_member_endpoint,
             remove_organization_member_endpoint, assign_member, remove_organization_member
<1>5. TypeOK'
  BY <1>1, <1>2, <1>3, <1>4, EditType DEF TypeOK
<1>6. Catalogue'
  BY <1>1, <1>2, CatalogueFrame
<1>7. Governance'
  BY <1>1, <1>2, <1>4, GovernanceFrame
<1>8. Accounts'
  <2>1. req' \in [Requests -> Request]
    BY <1>1, <1>2 DEF TypeOK
  <2> QED BY <1>1, <1>2, <1>4, <2>1, AccountsQuiet
<1> QED BY <1>5, <1>6, <1>7, <1>8 DEF IInv

-----------------------------------------------------------------------------
(* Accounts are deleted and members change: a group keeps a live owner      *)

LEMMA DeleteUserSafe ==
    ASSUME IInv, NEW t \in Requests, NEW u \in Users, NEW privileged \in BOOLEAN, delete_user_endpoint(t, u, privileged)
    PROVE  IInv'
<1>1. PICK G \in SUBSET Groups : G = {g \in Groups : Owner \in held[g][u]}
  OBVIOUS
<1>2. PICK x : x = [op |-> "delete_user", user |-> u, groups |-> G]
  OBVIOUS
<1>3. x \in Request /\ x.op = "delete_user" /\ x.user = u /\ x.groups = G
  BY <1>2 DEF Request
<1>4. Begin(t, x) /\ UNCHANGED <<role, user, held, org, late, overlapped>>
  BY <1>1, <1>2 DEF delete_user_endpoint
<1>5. TypeOK /\ Catalogue /\ Governance /\ Accounts /\ Edit
  BY <1>4 DEF IInv, Begin
<1>6. /\ req' \in [Requests -> Request] /\ edits' \in 0 .. MaxEdits
      /\ \A v \in Requests : req'[v] = IF v = t THEN x ELSE req[v]
  BY <1>3, <1>4, <1>5, RequestStep, EditType DEF Begin
<1>7. TypeOK'
  BY <1>4, <1>5, <1>6 DEF TypeOK
<1>8. \A v \in Requests : req'[v] = req[v] \/ (~Locks(req'[v]) /\ ~Writes(req'[v]))
  BY <1>3, <1>6 DEF Locks, Writes
<1>9. Catalogue'
  BY <1>4, <1>5, <1>8, CatalogueFrame
<1>10. Governance'
  <2>1. ASSUME NEW v \in Requests PROVE ScanOK(req[v])'
    <3>1. CASE v = t
      BY <1>1, <1>3, <1>4, <1>6, <3>1 DEF ScanOK
    <3>2. CASE v # t
      BY <1>4, <1>5, <1>6, <3>2 DEF Governance, ScanOK
    <3> QED BY <3>1, <3>2
  <2> QED BY <1>4, <1>5, <2>1 DEF Governance
<1>11. Accounts'
  BY <1>4, <1>5, <1>6, <1>8, AccountsQuiet
<1> QED BY <1>7, <1>9, <1>10, <1>11 DEF IInv

\* The groups the scan missed are in late; in the others somebody else is an owner.
LEMMA SoftDeleteUserSafe ==
    ASSUME IInv, NEW t \in Requests, soft_delete_user(t)
    PROVE  IInv'
<1>1. PICK x \in Request : x = req[t]
  BY DEF IInv, TypeOK
<1>2. /\ TypeOK /\ Catalogue /\ Governance /\ Accounts
      /\ x.op = "delete_user" /\ x.user \in Users /\ ScanOK(x)
      /\ End(t) /\ UNCHANGED <<role, held, org, edits, late, overlapped>>
  BY <1>1, RequestKinds DEF IInv, Governance, soft_delete_user
<1>3. /\ user' \in [Users -> User]
      /\ \A v \in Users : user'[v].roles = user[v].roles
      /\ user'[x.user].live = FALSE /\ \A v \in Users : v # x.user => user'[v] = user[v]
  <2>1. user' = [user EXCEPT ![x.user].live = FALSE]
    BY <1>1 DEF soft_delete_user
  <2> QED BY <1>2, <2>1, UserWrite
<1>4. req' \in [Requests -> Request] /\ \A u \in Requests : req'[u] = req[u] \/ req'[u] = Idle
  BY <1>2, EndStep
<1>5. TypeOK'
  BY <1>2, <1>3, <1>4 DEF TypeOK
<1>6. Catalogue'
  BY <1>2, <1>4, IdleIsQuiet, CatalogueFrame
<1>7. Governance'
  <2>1. ASSUME NEW g \in Groups \ late PROVE \E v \in Users : user'[v].live /\ Owner \in held[g][v]
    <3>1. PICK v \in Users : user[v].live /\ Owner \in held[g][v]
      BY <1>2 DEF Governance
    <3>2. CASE v # x.user
      BY <1>3, <3>1, <3>2
    <3>3. CASE v = x.user
      <4>1. g \in x.groups
        BY <1>2, <3>1, <3>3 DEF ScanOK
      <4>2. live_protected_holder_exists(g, x.user)
        BY <1>1, <4>1 DEF soft_delete_user, objects_solely_held_by
      <4>3. PICK w \in Users \ {x.user} : user[w].live /\ Owner \in held[g][w]
        BY <4>2 DEF live_protected_holder_exists
      <4> QED BY <1>3, <4>3
    <3> QED BY <3>2, <3>3
  <2>2. ASSUME NEW v \in Requests PROVE ScanOK(req[v])'
    BY <1>2, <1>4, IdleIsQuiet DEF Governance, ScanOK
  <2> QED BY <1>2, <2>1, <2>2 DEF Governance
<1>8. Accounts'
  <2>1. \A v \in Requests : req'[v] = req[v] \/ (~Locks(req'[v]) /\ ~Writes(req'[v]))
    BY <1>4, IdleIsQuiet
  <2>2. \A v \in Users : user'[v].roles = user[v].roles /\ (user'[v].live => user[v].live)
    BY <1>3
  <2> QED BY <1>2, <1>4, <2>1, <2>2, AccountsQuiet
<1> QED BY <1>5, <1>6, <1>7, <1>8 DEF IInv

LEMMA CommitMembersSafe ==
    ASSUME IInv, NEW t \in Requests, CommitMembers(t)
    PROVE  IInv'
<1>1. PICK x \in Request : x = req[t]
  BY DEF IInv, TypeOK
<1>2. /\ TypeOK /\ Catalogue /\ Governance /\ Accounts /\ x.op = "members"
      /\ x.group \in Groups /\ x.user \in Users /\ x.drop \in SUBSET Roles /\ x.add \in SUBSET Roles
      /\ End(t) /\ UNCHANGED <<role, user, org, edits, overlapped>>
  BY <1>1, RequestKinds DEF IInv, CommitMembers
<1>3. PICK R \in SUBSET Roles : R = (held[x.group][x.user] \ x.drop) \cup x.add
  BY <1>2, ZenonT(60) DEF TypeOK, ObjectRoleAssignment
<1>4. held' = [held EXCEPT ![x.group][x.user] = R]
  BY <1>1, <1>3 DEF CommitMembers, grant_roles
<1>5. /\ held' \in ObjectRoleAssignment
      /\ held'[x.group][x.user] = R
      /\ \A g \in Groups, v \in Users : g # x.group \/ v # x.user => held'[g][v] = held[g][v]
  BY <1>2, <1>3, <1>4 DEF TypeOK, ObjectRoleAssignment
<1>6. /\ req' \in [Requests -> Request] /\ \A u \in Requests : req'[u] = req[u] \/ req'[u] = Idle
  BY <1>2, EndStep
<1>7. late \subseteq late' /\ late' \subseteq Groups
      /\ (Owner \in x.add /\ DeletionPastScan(x.group, x.user) => x.group \in late')
  BY <1>1, <1>2 DEF CommitMembers, TypeOK
<1>8. TypeOK'
  BY <1>2, <1>5, <1>6, <1>7 DEF TypeOK
<1>9. Catalogue'
  BY <1>2, <1>6, IdleIsQuiet, CatalogueFrame
<1>10. Governance'
  <2>1. ASSUME NEW g \in Groups \ late' PROVE \E v \in Users : user[v].live /\ Owner \in held'[g][v]
    <3>1. PICK v \in Users : user[v].live /\ Owner \in held[g][v]
      BY <1>2, <1>7 DEF Governance
    <3>2. CASE g # x.group \/ v # x.user \/ Owner \notin x.drop
      BY <1>3, <1>5, <3>1, <3>2
    <3>3. CASE g = x.group /\ v = x.user /\ Owner \in x.drop
      <4>1. live_protected_holder_exists(g, x.user)
        BY <1>1, <3>3 DEF CommitMembers, assert_protected_role_survives
      <4>2. PICK w \in Users \ {x.user} : user[w].live /\ Owner \in held[g][w]
        BY <4>1 DEF live_protected_holder_exists
      <4> QED BY <1>5, <4>2
    <3> QED BY <3>2, <3>3
  <2>2. ASSUME NEW v \in Requests PROVE ScanOK(req[v])'
    <3> SUFFICES ASSUME req'[v].op = "delete_user", NEW g \in Groups \ req'[v].groups, Owner \in held'[g][req'[v].user]
                 PROVE  g \in late'
      BY DEF ScanOK
    <3>1. PICK y \in Request : y = req[v] /\ req'[v] = y
      BY <1>2, <1>6, IdleIsQuiet DEF TypeOK
    <3>2. y.op = "delete_user" /\ y.user \in Users /\ ScanOK(y)
      BY <1>2, <3>1, RequestKinds DEF Governance
    <3>3. CASE Owner \in held[g][y.user]
      BY <1>7, <3>1, <3>2, <3>3 DEF ScanOK
    <3>4. CASE Owner \notin held[g][y.user]
      <4>1. g = x.group /\ y.user = x.user /\ Owner \in x.add
        BY <1>3, <1>5, <3>1, <3>2, <3>4
      <4>2. DeletionPastScan(x.group, x.user)
        BY <3>1, <3>2, <4>1 DEF DeletionPastScan
      <4> QED BY <1>7, <4>1, <4>2
    <3> QED BY <3>3, <3>4
  <2> QED BY <1>2, <2>1, <2>2 DEF Governance
<1>11. Accounts'
  <2>1. \A v \in Requests : req'[v] = req[v] \/ (~Locks(req'[v]) /\ ~Writes(req'[v]))
    BY <1>6, IdleIsQuiet
  <2> QED BY <1>2, <1>6, <2>1, AccountsQuiet
<1> QED BY <1>8, <1>9, <1>10, <1>11 DEF IInv

-----------------------------------------------------------------------------
(* The roles of an account are rewritten                                    *)

\* A request that rewrites u, and the restore of u, mark u when anything else is under way.
LEMMA NoteWriterMarks ==
    ASSUME TypeOK, NEW u \in Users, NoteWriter(u)
    PROVE  /\ overlapped \subseteq overlapped' /\ overlapped' \subseteq Users
           /\ u \notin overlapped' => /\ \A t \in Requests : ~Retiring(t)
                                      /\ \A t \in Requests : Writes(req[t]) => req[t].user # u
<1>1. u \notin overlapped' => WritersOf(u) = {} /\ \A t \in Requests : ~Retiring(t)
  BY DEF NoteWriter
<1> QED BY <1>1 DEF NoteWriter, WritersOf, Writes, TypeOK

LEMMA UpdateUserSafe ==
    ASSUME IInv, NEW t \in Requests, NEW u \in Users, NEW rs \in RoleSets, update_user_endpoint(t, u, rs)
    PROVE  IInv'
<1>1. rs \in SUBSET Roles /\ rs # {} /\ \A r \in rs : Usable(r)
  BY ConstAssumption DEF update_user_endpoint, get_roles_by_ids
<1>2. user[u].roles \in SUBSET Roles
  BY DEF IInv, TypeOK, User
<1>3. PICK drop \in SUBSET Roles : drop = {r \in user[u].roles \ rs : Usable(r)}
  BY <1>2
<1>4. PICK add \in SUBSET Roles : add = rs \ user[u].roles
  BY <1>1
<1>5. PICK x : x = [op |-> "update_user", user |-> u, drop |-> drop, add |-> add]
  OBVIOUS
<1>6. x \in Request /\ x.op = "update_user" /\ x.user = u /\ x.drop = drop /\ x.add = add
  BY <1>5 DEF Request
<1>7. Begin(t, x) /\ UNCHANGED <<role, user, held, org, late>> /\ NoteWriter(u)
  BY <1>3, <1>4, <1>5 DEF update_user_endpoint, update_user
<1>8. TypeOK /\ Catalogue /\ Governance /\ Accounts /\ Edit /\ req[t] = Idle
  BY <1>7 DEF IInv, Begin
<1>9. /\ req' \in [Requests -> Request] /\ edits' \in 0 .. MaxEdits
      /\ \A v \in Requests : req'[v] = IF v = t THEN x ELSE req[v]
  BY <1>6, <1>7, <1>8, RequestStep, EditType DEF Begin
<1>10. /\ overlapped \subseteq overlapped' /\ overlapped' \subseteq Users
       /\ u \notin overlapped' => /\ \A v \in Requests : ~Retiring(v)
                                  /\ \A v \in Requests : Writes(req[v]) => req[v].user # u
  BY <1>7, <1>8, NoteWriterMarks
<1>11. TypeOK'
  BY <1>7, <1>8, <1>9, <1>10 DEF TypeOK
<1>12. \A v \in Requests : req'[v] = req[v] \/ (~Locks(req'[v]) /\ req'[v].op # "delete_user")
  BY <1>6, <1>9 DEF Locks
<1>13. Catalogue'
  BY <1>7, <1>8, <1>12, CatalogueFrame
<1>14. Governance'
  BY <1>7, <1>8, <1>12, GovernanceFrame
<1>15. \A r : Usable(r)' <=> Usable(r)
  BY <1>7 DEF Usable, LiveRole
<1>16. \A v \in Requests : /\ Retiring(v)' <=> Retiring(v)
                           /\ Retiring(v) => req'[v] = req[v] /\ v # t
  BY <1>6, <1>7, <1>8, <1>9, IdleIsQuiet DEF Retiring
<1>17. AccountsKeepARole'
  BY <1>7, <1>8, <1>10, <1>15 DEF Accounts, AccountsKeepARole
<1>18. ASSUME NEW v \in Requests PROVE RetirementOK(v)'
  BY <1>7, <1>8, <1>10, <1>15, <1>16 DEF Accounts, RetirementOK
<1>19. ASSUME NEW v \in Requests PROVE WriterOK(v)'
  <2>1. CASE v = t
    <3>1. PICK r \in rs : r \in (user[u].roles \ drop) \cup add /\ Usable(r)
      BY <1>1, <1>3, <1>4
    <3> QED BY <1>6, <1>7, <1>9, <1>10, <1>15, <1>16, <2>1, <3>1 DEF WriterOK
  <2>2. CASE v # t
    <3> SUFFICES ASSUME Writes(req[v]), req[v].user \notin overlapped'
                 PROVE  /\ \A w \in Requests : ~Retiring(w)'
                        /\ \A w \in Requests : Writes(req'[w]) /\ req'[w].user = req[v].user => w = v
                        /\ \E z \in (user[req[v].user].roles \ req[v].drop) \cup req[v].add : Usable(z)'
      BY <1>7, <1>9, <2>2 DEF WriterOK
    <3>1. WriterOK(v) /\ req[v].user \notin overlapped
      BY <1>8, <1>10 DEF Accounts
    <3>2. req[v].user # u
      BY <1>10
    <3> QED BY <1>6, <1>9, <1>15, <1>16, <3>1, <3>2 DEF WriterOK
  <2> QED BY <2>1, <2>2
<1>20. Accounts'
  BY <1>17, <1>18, <1>19 DEF Accounts
<1> QED BY <1>11, <1>13, <1>14, <1>20 DEF IInv

\* Nothing was retired since the request chose the new roles: they are still usable.
LEMMA CommitUserRolesSafe ==
    ASSUME IInv, NEW t \in Requests, CommitUserRoles(t)
    PROVE  IInv'
<1>1. PICK x \in Request : x = req[t]
  BY DEF IInv, TypeOK
<1>2. /\ TypeOK /\ Catalogue /\ Governance /\ Accounts /\ x.op = "update_user"
      /\ x.user \in Users /\ x.drop \in SUBSET Roles /\ x.add \in SUBSET Roles
      /\ End(t) /\ UNCHANGED <<role, held, org, edits, late, overlapped>>
  BY <1>1, RequestKinds DEF IInv, CommitUserRoles
<1>3. PICK R \in SUBSET Roles : R = (user[x.user].roles \ x.drop) \cup x.add
  BY <1>2 DEF TypeOK, User
<1>4. user' = [user EXCEPT ![x.user].roles = R]
  BY <1>1, <1>3 DEF CommitUserRoles
<1>5. /\ user' \in [Users -> User]
      /\ \A v \in Users : user'[v].live = user[v].live
      /\ user'[x.user].roles = R /\ \A v \in Users : v # x.user => user'[v] = user[v]
  BY <1>2, <1>4, UserWrite
<1>6. /\ req' \in [Requests -> Request] /\ \A u \in Requests : req'[u] = req[u] \/ req'[u] = Idle
      /\ \A u \in Requests : u # t => req'[u] = req[u]
      /\ req'[t] = Idle
  BY <1>2, EndStep
<1>7. TypeOK'
  BY <1>2, <1>5, <1>6 DEF TypeOK
<1>8. Catalogue'
  BY <1>2, <1>6, IdleIsQuiet, CatalogueFrame
<1>9. Governance'
  <2>1. \A u \in Requests : req'[u] = req[u] \/ req'[u].op # "delete_user"
    BY <1>6, IdleIsQuiet
  <2> QED BY <1>2, <1>5, <2>1, GovernanceFrame
<1>10. \A r : Usable(r)' <=> Usable(r)
  BY <1>2 DEF Usable, LiveRole
<1>11. \A v \in Requests : Retiring(v)' => Retiring(v) /\ req'[v] = req[v]
  BY <1>2, <1>6, IdleIsQuiet DEF Retiring
<1>12. x.user \notin overlapped => /\ \A v \in Requests : ~Retiring(v)
                                   /\ \A v \in Requests : Writes(req[v]) /\ req[v].user = x.user => v = t
                                   /\ \E z \in R : Usable(z)
  BY <1>1, <1>2, <1>3 DEF Accounts, WriterOK, Writes
<1>13. AccountsKeepARole'
  BY <1>2, <1>5, <1>10, <1>12 DEF Accounts, AccountsKeepARole
<1>14. ASSUME NEW v \in Requests PROVE RetirementOK(v)'
  BY <1>2, <1>5, <1>10, <1>11, <1>12 DEF Accounts, RetirementOK
<1>15. ASSUME NEW v \in Requests PROVE WriterOK(v)'
  <2> SUFFICES ASSUME Writes(req'[v]), req'[v].user \notin overlapped PROVE WriterOK(v)'
    BY <1>2 DEF WriterOK
  <2>1. v # t
    BY <1>6, IdleIsQuiet
  <2>2. PICK y \in Request : y = req[v] /\ req'[v] = y
    BY <1>2, <1>6, <2>1 DEF TypeOK
  <2>3. y.user \in Users /\ Writes(y) /\ y.user \notin overlapped /\ WriterOK(v)
    BY <1>2, <2>2, RequestKinds DEF Accounts, Writes
  <2>4. /\ \A w \in Requests : ~Retiring(w)
        /\ \A w \in Requests : Writes(req[w]) /\ req[w].user = y.user => w = v
        /\ \E z \in (user[y.user].roles \ y.drop) \cup y.add : Usable(z)
    BY <2>2, <2>3 DEF WriterOK
  <2>5. y.user # x.user
    BY <1>1, <1>2, <2>1, <2>4 DEF Writes
  <2>6. /\ \A w \in Requests : ~Retiring(w)'
        /\ \A w \in Requests : Writes(req'[w]) /\ req'[w].user = y.user => w = v
        /\ \E z \in (user'[y.user].roles \ y.drop) \cup y.add : Usable(z)'
    BY <1>5, <1>6, <1>10, <1>11, <2>3, <2>4, <2>5, IdleIsQuiet
  <2> QED BY <2>2, <2>6 DEF WriterOK
<1>16. Accounts'
  BY <1>13, <1>14, <1>15 DEF Accounts
<1> QED BY <1>7, <1>8, <1>9, <1>16 DEF IInv

LEMMA RestoreUserSafe ==
    ASSUME IInv, NEW u \in Users, NEW privileged \in BOOLEAN, restore_user_endpoint(u, privileged)
    PROVE  IInv'
<1>1. /\ TypeOK /\ Catalogue /\ Governance /\ Accounts /\ Edit /\ NoteWriter(u)
      /\ UNCHANGED <<role, held, org, req, late>> /\ user' = [user EXCEPT ![u].live = TRUE]
      /\ \E r \in user[u].roles : Usable(r)
  BY DEF IInv, restore_user_endpoint, restore_user
<1>2. /\ user' \in [Users -> User]
      /\ \A v \in Users : user'[v].roles = user[v].roles
      /\ user'[u].live = TRUE /\ \A v \in Users : v # u => user'[v] = user[v]
  BY <1>1, UserWrite
<1>3. /\ overlapped \subseteq overlapped' /\ overlapped' \subseteq Users
      /\ u \notin overlapped' => /\ \A v \in Requests : ~Retiring(v)
                                 /\ \A v \in Requests : Writes(req[v]) => req[v].user # u
  BY <1>1, NoteWriterMarks
<1>4. TypeOK'
  BY <1>1, <1>2, <1>3, EditType DEF TypeOK
<1>5. Catalogue'
  BY <1>1, CatalogueFrame
<1>6. Governance'
  BY <1>1, <1>2, GovernanceFrame
<1>7. \A r : Usable(r)' <=> Usable(r)
  BY <1>1 DEF Usable, LiveRole
<1>8. \A v \in Requests : Retiring(v)' <=> Retiring(v)
  BY <1>1 DEF Retiring
<1>9. AccountsKeepARole'
  BY <1>1, <1>2, <1>3, <1>7 DEF Accounts, AccountsKeepARole
<1>10. ASSUME NEW v \in Requests PROVE RetirementOK(v)'
  BY <1>1, <1>2, <1>3, <1>7, <1>8 DEF Accounts, RetirementOK
<1>11. ASSUME NEW v \in Requests PROVE WriterOK(v)'
  <2>1. PICK y \in Request : y = req[v] /\ req'[v] = y
    BY <1>1 DEF TypeOK
  <2>2. Writes(y) => y.user \in Users
    BY <2>1, RequestKinds DEF Writes
  <2>3. WriterOK(v)
    BY <1>1 DEF Accounts
  <2> QED BY <1>1, <1>2, <1>3, <1>7, <1>8, <2>1, <2>2, <2>3 DEF WriterOK
<1>12. Accounts'
  BY <1>9, <1>10, <1>11 DEF Accounts
<1> QED BY <1>4, <1>5, <1>6, <1>12 DEF IInv

-----------------------------------------------------------------------------
(* The catalogue                                                            *)

\* A role that exists in no state, or is dead, is written: no default, no lock is concerned.
LEMMA UnlockedRole ==
    ASSUME TypeOK, Catalogue, NEW r \in Roles, NEW new \in Role, role' = [role EXCEPT ![r] = new], req' = req,
           role[r].st # "live", ~new.default, ~new.pdefault, OffersAccess(new)
    PROVE  Catalogue'
<1>1. \A q \in Roles : role'[q] = IF q = r THEN new ELSE role[q]
  BY DEF TypeOK
<1>2. Owner \in Roles /\ Owner # r
  BY ConstAssumption DEF Catalogue, RowsOK
<1>3. RowsOK'
  BY <1>1, <1>2 DEF Catalogue, RowsOK, OffersAccess
<1>4. DefaultsResolvable'
  <2>1. \A q \in Roles : /\ LiveRole(q)' /\ role'[q].default <=> LiveRole(q) /\ role[q].default
                         /\ LiveRole(q)' /\ role'[q].pdefault <=> LiveRole(q) /\ role[q].pdefault
                         /\ LiveRole(q) => role'[q] = role[q]
    BY <1>1 DEF LiveRole
  <2>2. PICK d \in Roles : {q \in Roles : LiveRole(q) /\ role[q].default} = {d} /\ role[d].active
    BY DEF Catalogue, DefaultsResolvable
  <2>3. PICK e \in Roles : /\ {q \in Roles : LiveRole(q) /\ role[q].pdefault} = {e}
                           /\ role[e].active /\ assert_grantable_in_group(role[e])
    BY DEF Catalogue, DefaultsResolvable
  <2>4. {q \in Roles : LiveRole(q)' /\ role'[q].default} = {d} /\ role'[d].active
    BY <2>1, <2>2
  <2>5. {q \in Roles : LiveRole(q)' /\ role'[q].pdefault} = {e} /\ role'[e] = role[e]
    BY <2>1, <2>3
  <2> QED BY <2>3, <2>4, <2>5 DEF DefaultsResolvable, assert_grantable_in_group
<1>5. Exclusive'
  BY DEF Catalogue, Exclusive
<1>6. ASSUME NEW t \in Requests PROVE PatchOK(req[t])' /\ DeleteOK(req[t])'
  <2>1. PICK x \in Request : x = req[t] /\ req'[t] = x
    BY DEF TypeOK
  <2>2. PatchOK(x) /\ DeleteOK(x)
    BY <2>1 DEF Catalogue
  <2>3. Locks(x) => x.role \in Roles /\ role[x.role].st = "live"
    BY <2>2, RequestKinds DEF Locks, PatchOK, DeleteOK
  <2>4. Locks(x) => role'[x.role] = role[x.role]
    BY <1>1, <2>3
  <2>5. role'[Owner] = role[Owner]
    BY <1>1, <1>2
  <2> QED BY <2>1, <2>2, <2>4, <2>5 DEF Locks, PatchOK, DeleteOK, assert_grantable_in_group
<1> QED BY <1>3, <1>4, <1>5, <1>6 DEF Catalogue

LEMMA NewRoleSafe ==
    ASSUME IInv, NEW r \in Roles,
           (\E perms \in CustomPerms : create_role_endpoint(r, perms)) \/ restore_role_endpoint(r)
    PROVE  IInv'
<1>1. TypeOK /\ Catalogue /\ Governance /\ Accounts /\ Edit /\ UNCHANGED <<user, held, org, req, late, overlapped>>
  BY DEF IInv, create_role_endpoint, restore_role_endpoint
<1>2. PICK new \in Role : /\ role' = [role EXCEPT ![r] = new]
                          /\ role[r].st # "live" /\ ~new.default /\ ~new.pdefault /\ OffersAccess(new)
  <2>1. ASSUME NEW perms \in CustomPerms, create_role_endpoint(r, perms)
        PROVE  \E new \in Role : /\ role' = [role EXCEPT ![r] = new]
                                 /\ role[r].st # "live" /\ ~new.default /\ ~new.pdefault /\ OffersAccess(new)
    <3>1. PICK new : new = CustomRole("live", FALSE, perms)
      OBVIOUS
    <3>2. new \in Role /\ ~new.default /\ ~new.pdefault /\ OffersAccess(new)
      BY <3>1, ConstAssumption DEF CustomRole, Role, OffersAccess
    <3>3. role' = [role EXCEPT ![r] = new] /\ role[r].st # "live"
      BY <2>1, <3>1 DEF create_role_endpoint
    <3> QED BY <3>2, <3>3
  <2>2. CASE restore_role_endpoint(r)
    <3>1. role[r].st = "dead" /\ role[r] \in Role /\ ~role[r].default /\ ~role[r].pdefault /\ OffersAccess(role[r])
      BY <1>1, <2>2 DEF restore_role_endpoint, get_restorable_role, TypeOK, Catalogue, RowsOK
    <3>2. PICK new : new = [role[r] EXCEPT !.st = "live"]
      OBVIOUS
    <3>3. new \in Role /\ ~new.default /\ ~new.pdefault /\ OffersAccess(new)
      BY <3>1, <3>2 DEF Role, OffersAccess
    <3>4. role' = [role EXCEPT ![r] = [role[r] EXCEPT !.st = "live"]]
      BY <1>1, <2>2 DEF restore_role_endpoint, restore_role, TypeOK
    <3>5. role' = [role EXCEPT ![r] = new]
      BY <3>2, <3>4, Zenon
    <3> QED BY <3>1, <3>3, <3>5
  <2> QED BY <2>1, <2>2
<1>3. \A q \in Roles : role'[q] = IF q = r THEN new ELSE role[q]
  BY <1>1, <1>2 DEF TypeOK
<1>4. TypeOK'
  BY <1>1, <1>2, EditType DEF TypeOK
<1>5. Catalogue'
  BY <1>1, <1>2, UnlockedRole
<1>6. Governance'
  BY <1>1, GovernanceFrame
<1>7. Accounts'
  <2>1. \A q \in Roles : Usable(q) => Usable(q)'
    BY <1>2, <1>3 DEF Usable, LiveRole
  <2>2. ASSUME NEW t \in Requests PROVE Retiring(t)' => Retiring(t) /\ req'[t].role = req[t].role
    <3>1. PICK x \in Request : x = req[t] /\ req'[t] = x
      BY <1>1 DEF TypeOK
    <3>2. x.op = "patch" => x.role \in Roles /\ role[x.role].st = "live"
      BY <1>1, <3>1, RequestKinds DEF Catalogue, PatchOK
    <3>3. x.op = "patch" => role'[x.role] = role[x.role]
      BY <1>2, <1>3, <3>2
    <3> QED BY <3>1, <3>3 DEF Retiring
  <2>3. req' \in [Requests -> Request]
    BY <1>1 DEF TypeOK
  <2>4. \A t \in Requests : Writes(req'[t]) => req'[t] = req[t]
    BY <1>1
  <2> QED BY <1>1, <2>1, <2>2, <2>3, <2>4, AccountsFrame
<1> QED BY <1>4, <1>5, <1>6, <1>7 DEF IInv

\* A request locks a role.  When it is to retire it, the check has found nobody left with
\* that role alone, and accounts that something else is happening to are marked.
LEMMA LockAccounts ==
    ASSUME TypeOK, Accounts, NEW t \in Requests, NEW x \in Request, Locks(x), req[t] = Idle,
           req' = [req EXCEPT ![t] = x], UNCHANGED <<role, user>>, overlapped \subseteq overlapped',
           Retiring(t)' => NoteRetirement(x.role) /\ count_users_solely_holding(x.role) = 0
    PROVE  Accounts'
<1>1. \A v \in Requests : req'[v] = IF v = t THEN x ELSE req[v]
  BY RequestStep
<1>2. \A r : Usable(r)' <=> Usable(r)
  BY DEF Usable, LiveRole
<1>3. \A v \in Requests : v # t => (Retiring(v)' <=> Retiring(v))
  BY <1>1 DEF Retiring
<1>4. ~Retiring(t) /\ ~Writes(req[t]) /\ ~Writes(x)
  BY IdleIsQuiet DEF Retiring, Locks, Writes
<1>5. AccountsKeepARole'
  BY <1>2 DEF Accounts, AccountsKeepARole
<1>6. ASSUME Retiring(t)', NEW u \in Users \ overlapped'
      PROVE  /\ \A v \in Requests : Writes(req[v]) => req[v].user # u
             /\ \A v \in Requests : Retiring(v) /\ req[v].role \in user[u].roles => x.role \notin user[u].roles
             /\ user[u].live => \E y \in user[u].roles : y # x.role /\ Usable(y)
  <2>1. WritersOf(u) = {} /\ ~\E v \in Requests : Retiring(v) /\ {x.role, req[v].role} \subseteq user[u].roles
    BY <1>6 DEF NoteRetirement
  <2>2. \A v \in Requests : Writes(req[v]) => req[v].user # u
    BY <2>1 DEF WritersOf, Writes
  <2>3. {w \in Users : user[w].live /\ {z \in user[w].roles : Usable(z)} = {x.role}} = {}
    <3>1. PICK S : S = {w \in Users : user[w].live /\ {z \in user[w].roles : Usable(z)} = {x.role}}
      OBVIOUS
    <3>2. IsFiniteSet(S)
      BY <3>1, ConstAssumption, FS_Subset
    <3>3. Cardinality(S) = 0
      BY <1>6, <3>1 DEF count_users_solely_holding
    <3>4. S = {}
      BY <3>2, <3>3, FS_EmptySet
    <3> QED BY <3>1, <3>4
  <2>4. user[u].live => \E y \in user[u].roles : Usable(y)
    BY DEF Accounts, AccountsKeepARole
  <2>5. user[u].live => {z \in user[u].roles : Usable(z)} # {x.role}
    BY <2>3
  <2> QED BY <2>1, <2>2, <2>4, <2>5
<1>7. ASSUME NEW v \in Requests PROVE RetirementOK(v)'
  <2>1. CASE v = t
    BY <1>1, <1>2, <1>3, <1>6, <2>1 DEF RetirementOK
  <2>2. CASE v # t
    <3>1. RetirementOK(v)
      BY DEF Accounts
    <3> QED BY <1>1, <1>2, <1>3, <1>6, <2>2, <3>1 DEF RetirementOK
  <2> QED BY <2>1, <2>2
<1>8. ASSUME NEW v \in Requests PROVE WriterOK(v)'
  <2> SUFFICES ASSUME Writes(req'[v]), req'[v].user \notin overlapped' PROVE WriterOK(v)'
    BY DEF WriterOK
  <2>1. v # t
    BY <1>1, <1>4
  <2>2. PICK y \in Request : y = req[v] /\ req'[v] = y
    BY <1>1, <2>1 DEF TypeOK
  <2>3. y.user \in Users /\ Writes(y) /\ y.user \notin overlapped /\ WriterOK(v)
    BY <2>2, RequestKinds DEF Accounts, Writes
  <2>4. ~Retiring(t)'
    BY <1>6, <2>2, <2>3
  <2>5. \A w \in Requests : ~Retiring(w)'
    BY <1>3, <2>2, <2>3, <2>4 DEF WriterOK
  <2>6. \A w \in Requests : Writes(req'[w]) /\ req'[w].user = y.user => w = v
    BY <1>1, <1>4, <2>2, <2>3 DEF WriterOK
  <2> QED BY <1>2, <2>2, <2>3, <2>5, <2>6 DEF WriterOK
<1> QED BY <1>5, <1>7, <1>8 DEF Accounts

\* The retirement commits: what the check found is still so.
LEMMA RetireAccounts ==
    ASSUME TypeOK, Accounts, NEW t \in Requests, Retiring(t), End(t), UNCHANGED <<user, overlapped>>,
           \A r \in Roles : r # req[t].role /\ Usable(r) => Usable(r)',
           \A v \in Requests : v # t /\ Retiring(v)' => Retiring(v)
    PROVE  Accounts'
<1>1. \A u \in Users : user[u].roles \subseteq Roles
  BY DEF TypeOK, User
<1>2. /\ req' \in [Requests -> Request] /\ \A v \in Requests : v # t => req'[v] = req[v]
      /\ req'[t] = Idle
  BY EndStep
<1>3. ~Retiring(t)'
  BY <1>2, IdleIsQuiet DEF Retiring
<1>4. ASSUME NEW u \in Users \ overlapped, user[u].live PROVE \E y \in user[u].roles : y # req[t].role /\ Usable(y)
  <2>1. CASE req[t].role \in user[u].roles
    BY <1>4, <2>1 DEF Accounts, RetirementOK
  <2>2. CASE req[t].role \notin user[u].roles
    BY <1>4, <2>2 DEF Accounts, AccountsKeepARole
  <2> QED BY <2>1, <2>2
<1>5. AccountsKeepARole'
  BY <1>1, <1>4 DEF AccountsKeepARole
<1>6. ASSUME NEW v \in Requests PROVE RetirementOK(v)'
  <2> SUFFICES ASSUME Retiring(v)', NEW u \in Users \ overlapped, req'[v].role \in user[u].roles
               PROVE  /\ user[u].live => \E y \in user[u].roles : y # req'[v].role /\ Usable(y)'
                      /\ \A w \in Requests : w # v /\ Retiring(w)' => req'[w].role \notin user[u].roles
    BY DEF RetirementOK
  <2>1. v # t /\ Retiring(v) /\ req'[v] = req[v]
    BY <1>2, <1>3
  <2>2. RetirementOK(v)
    BY DEF Accounts
  <2>3. /\ user[u].live => \E y \in user[u].roles : y # req[v].role /\ Usable(y)
        /\ \A w \in Requests : w # v /\ Retiring(w) => req[w].role \notin user[u].roles
    BY <2>1, <2>2 DEF RetirementOK
  <2>4. req[t].role \notin user[u].roles
    BY <2>1, <2>3
  <2> QED BY <1>1, <1>2, <1>3, <2>1, <2>3, <2>4
<1>7. ASSUME NEW v \in Requests PROVE WriterOK(v)'
  <2>1. Writes(req'[v]) => req'[v] = req[v]
    BY <1>2, IdleIsQuiet
  <2>2. WriterOK(v)
    BY DEF Accounts
  <2>3. Writes(req[v]) => req[v].user \in overlapped
    BY <2>2 DEF WriterOK
  <2> QED BY <2>1, <2>3 DEF WriterOK
<1> QED BY <1>5, <1>6, <1>7 DEF Accounts

\* A role is locked: the others' requests and the rows stay as they are.
LEMMA LockCatalogue ==
    ASSUME TypeOK, Catalogue, NEW t \in Requests, NEW x \in Request, Locks(x), PatchOK(x), DeleteOK(x),
           ~RoleLocked(x.role), req' = [req EXCEPT ![t] = x], role' = role
    PROVE  Catalogue'
<1>1. \A v \in Requests : req'[v] = IF v = t THEN x ELSE req[v]
  BY RequestStep
<1>2. RowsOK' /\ DefaultsResolvable'
  BY DEF Catalogue, RowsOK, DefaultsResolvable, LiveRole, assert_grantable_in_group
<1>3. Exclusive'
  BY <1>1 DEF Catalogue, Exclusive, RoleLocked, Locks
<1>4. ASSUME NEW v \in Requests PROVE PatchOK(req[v])' /\ DeleteOK(req[v])'
  <2>1. CASE v = t
    BY <1>1, <2>1 DEF PatchOK, DeleteOK, assert_grantable_in_group
  <2>2. CASE v # t
    BY <1>1, <2>2 DEF Catalogue, PatchOK, DeleteOK, assert_grantable_in_group
  <2> QED BY <2>1, <2>2
<1> QED BY <1>2, <1>3, <1>4 DEF Catalogue

LEMMA DeleteRoleSafe ==
    ASSUME IInv, NEW t \in Requests, NEW r \in Roles, delete_role_endpoint(t, r)
    PROVE  IInv'
<1>1. PICK x : x = [op |-> "delete_role", role |-> r]
  OBVIOUS
<1>2. x \in Request /\ x.op = "delete_role" /\ x.role = r /\ Locks(x)
  BY <1>1 DEF Request, Locks
<1>3. /\ TypeOK /\ Catalogue /\ Governance /\ Accounts
      /\ Begin(t, x) /\ UNCHANGED <<role, user, held, org, late>> /\ NoteRetirement(r)
      /\ get_role(r) /\ delete_role_ok(r)
  BY <1>1 DEF IInv, delete_role_endpoint
<1>4. req[t] = Idle /\ Edit /\ req' = [req EXCEPT ![t] = x]
  BY <1>3 DEF Begin
<1>5. overlapped \subseteq overlapped' /\ overlapped' \subseteq Users
  BY <1>3 DEF NoteRetirement, TypeOK
<1>6. /\ req' \in [Requests -> Request] /\ edits' \in 0 .. MaxEdits
      /\ \A v \in Requests : req'[v] = IF v = t THEN x ELSE req[v]
  BY <1>2, <1>3, <1>4, RequestStep, EditType
<1>7. TypeOK'
  BY <1>3, <1>5, <1>6 DEF TypeOK
<1>8. Catalogue'
  <2>1. PatchOK(x) /\ DeleteOK(x) /\ ~RoleLocked(x.role)
    BY <1>2, <1>3 DEF PatchOK, DeleteOK, get_role, LiveRole, delete_role_ok
  <2> QED BY <1>2, <1>3, <1>4, <2>1, LockCatalogue
<1>9. Governance'
  <2>1. \A v \in Requests : req'[v] = req[v] \/ req'[v].op # "delete_user"
    BY <1>2, <1>6
  <2> QED BY <1>3, <2>1, GovernanceFrame
<1>10. Accounts'
  <2>1. count_users_solely_holding(x.role) = 0 /\ NoteRetirement(x.role)
    BY <1>2, <1>3 DEF delete_role_ok, assert_role_not_sole
  <2> QED BY <1>2, <1>3, <1>4, <1>5, <2>1, LockAccounts
<1> QED BY <1>7, <1>8, <1>9, <1>10 DEF IInv

\* The row a PATCH is to write, field by field.
Patched(r, p, row1, row2, row) ==
    /\ row1 \in Role /\ row2 \in Role /\ row \in Role
    /\ row1.perms = (IF p.perms # None THEN p.perms ELSE role[r].perms)
    /\ row1.assignable = (IF p.assignable # None THEN p.assignable ELSE role[r].assignable)
    /\ row2.active = (IF p.active # None THEN p.active ELSE role[r].active)
    /\ row2.default = role[r].default /\ row2.pdefault = role[r].pdefault
    /\ row2.perms = row1.perms /\ row2.assignable = row1.assignable
    /\ row.st = role[r].st /\ row.active = row2.active /\ row.perms = row1.perms /\ row.assignable = row1.assignable
    /\ (row.default <=> role[r].default \/ p.default = TRUE)
    /\ (row.pdefault <=> role[r].pdefault \/ p.pdefault = TRUE)

LEMMA PatchedRow ==
    ASSUME TypeOK, NEW r \in Roles, NEW p \in Patches, NEW row1, row1 = update_role(r, p),
           NEW row2, row2 = set_role_active(row1, p), NEW row, row = set_flags(row2, p)
    PROVE  Patched(r, p, row1, row2, row)
<1>1. role[r] \in Role /\ p \in RolePatch
  BY ConstAssumption DEF TypeOK
<1>2. /\ row1 \in Role
      /\ row1.perms = (IF p.perms # None THEN p.perms ELSE role[r].perms)
      /\ row1.assignable = (IF p.assignable # None THEN p.assignable ELSE role[r].assignable)
      /\ row1.st = role[r].st /\ row1.active = role[r].active /\ row1.default = role[r].default
      /\ row1.pdefault = role[r].pdefault
  <2>1. PICK ps \in SUBSET Perms : ps = (IF p.perms # None THEN p.perms ELSE role[r].perms)
    BY <1>1 DEF Role, RolePatch
  <2>2. PICK b \in BOOLEAN : b = (IF p.assignable # None THEN p.assignable ELSE role[r].assignable)
    BY <1>1 DEF Role, RolePatch
  <2>3. row1 = [role[r] EXCEPT !.perms = ps, !.assignable = b]
    BY <2>1, <2>2 DEF update_role
  <2> QED BY <1>1, <2>1, <2>2, <2>3 DEF Role
<1>3. /\ row2 \in Role /\ row2.active = (IF p.active # None THEN p.active ELSE role[r].active)
      /\ row2.st = row1.st /\ row2.default = row1.default /\ row2.pdefault = row1.pdefault
      /\ row2.perms = row1.perms /\ row2.assignable = row1.assignable
  <2>1. PICK b \in BOOLEAN : b = (IF p.active # None THEN p.active ELSE role[r].active)
    BY <1>1 DEF Role, RolePatch
  <2>2. row2 = [row1 EXCEPT !.active = b]
    BY <1>2, <2>1 DEF set_role_active
  <2> QED BY <1>2, <2>1, <2>2 DEF Role
<1>4. /\ row \in Role /\ row.st = row2.st /\ row.active = row2.active /\ row.perms = row2.perms
      /\ row.assignable = row2.assignable
      /\ (row.default <=> row2.default \/ p.default = TRUE) /\ (row.pdefault <=> row2.pdefault \/ p.pdefault = TRUE)
  <2>1. PICK a \in BOOLEAN : a = (row2.default \/ p.default = TRUE)
    OBVIOUS
  <2>2. PICK b \in BOOLEAN : b = (row2.pdefault \/ p.pdefault = TRUE)
    OBVIOUS
  <2>3. row = [row2 EXCEPT !.default = a, !.pdefault = b]
    BY <2>1, <2>2 DEF set_flags
  <2>4. row \in Role /\ row.st = row2.st /\ row.active = row2.active /\ row.perms = row2.perms
        /\ row.assignable = row2.assignable /\ row.default = a /\ row.pdefault = b
    BY <1>3, <2>1, <2>2, <2>3 DEF Role
  <2> QED BY <2>1, <2>2, <2>4
<1> QED BY <1>2, <1>3, <1>4 DEF Patched

\* The handler's checks, in its order, establish what is said of a patch in flight.
LEMMA PatchRequest ==
    ASSUME TypeOK, Catalogue, NEW t \in Requests, NEW r \in Roles, NEW p \in Patches, update_role_endpoint(t, r, p)
    PROVE  \E x \in Request :
             /\ x.op = "patch" /\ x.role = r /\ Begin(t, x) /\ PatchOK(x)
             /\ overlapped \subseteq overlapped' /\ overlapped' \subseteq Users
             /\ ~x.row.active /\ role[r].active => NoteRetirement(r) /\ assert_role_not_sole(r)
<1>1. PICK row1 : row1 = update_role(r, p)
  OBVIOUS
<1>2. PICK row2 : row2 = set_role_active(row1, p)
  OBVIOUS
<1>3. PICK row : row = set_flags(row2, p)
  OBVIOUS
<1>4. PICK cur : cur = IF p.default = TRUE /\ ~row2.default THEN default_holder ELSE None
  OBVIOUS
<1>5. PICK pcur : pcur = IF p.pdefault = TRUE /\ ~row2.pdefault THEN participant_default_holder ELSE None
  OBVIOUS
<1>6. PICK x : x = [op |-> "patch", role |-> r, row |-> row, cur |-> cur, pcur |-> pcur]
  OBVIOUS
<1>7. /\ get_role(r) /\ update_role_ok(r, p)
      /\ (p.perms # None \/ p.assignable # None) /\ row1.assignable => assert_grantable_in_group(row1)
      /\ set_role_active_ok(r, p) /\ set_default_role_ok(r, row2, p) /\ set_participant_default_role_ok(r, row2, p)
      /\ IF p.active = FALSE /\ role[r].active THEN NoteRetirement(r) ELSE UNCHANGED overlapped
  BY <1>1, <1>2 DEF update_role_endpoint
<1>8. Begin(t, x)
  BY <1>1, <1>2, <1>3, <1>4, <1>5, <1>6, Zenon DEF update_role_endpoint
<1>9. /\ row1 \in Role /\ row2 \in Role /\ row \in Role
      /\ row1.perms = (IF p.perms # None THEN p.perms ELSE role[r].perms)
      /\ row1.assignable = (IF p.assignable # None THEN p.assignable ELSE role[r].assignable)
      /\ row2.active = (IF p.active # None THEN p.active ELSE role[r].active)
      /\ row2.default = role[r].default /\ row2.pdefault = role[r].pdefault
      /\ row2.perms = row1.perms /\ row2.assignable = row1.assignable
      /\ row.st = role[r].st /\ row.active = row2.active /\ row.perms = row1.perms /\ row.assignable = row1.assignable
      /\ (row.default <=> role[r].default \/ p.default = TRUE)
      /\ (row.pdefault <=> role[r].pdefault \/ p.pdefault = TRUE)
  <2>1. Patched(r, p, row1, row2, row)
    BY <1>1, <1>2, <1>3, PatchedRow, Zenon
  <2> QED BY <2>1 DEF Patched
<1>10. /\ p \in RolePatch /\ role[r] \in Role /\ None \notin BOOLEAN /\ None \notin Roles /\ role[r].st = "live"
  BY <1>7, ConstAssumption DEF TypeOK, get_role, LiveRole
<1>11. /\ role[r].default => role[r].active
       /\ role[r].pdefault => role[r].active /\ assert_grantable_in_group(role[r])
  BY <1>10 DEF Catalogue, DefaultsResolvable, LiveRole
<1>12. default_holder \in Roles /\ role[default_holder].default
  <2>1. \E d \in Roles : LiveRole(d) /\ role[d].default
    BY DEF Catalogue, DefaultsResolvable
  <2> QED BY <2>1 DEF default_holder
<1>13. participant_default_holder \in Roles /\ role[participant_default_holder].pdefault
  <2>1. \E d \in Roles : LiveRole(d) /\ role[d].pdefault
    BY DEF Catalogue, DefaultsResolvable
  <2> QED BY <2>1 DEF participant_default_holder
<1>14. cur \in Roles \cup {None} /\ pcur \in Roles \cup {None}
  BY <1>4, <1>5, <1>12, <1>13
<1>15. row.default \in BOOLEAN /\ role[r].default \in BOOLEAN /\ row.pdefault \in BOOLEAN /\ role[r].pdefault \in BOOLEAN
  BY <1>9, <1>10 DEF Role
<1>16. IF cur = None THEN row.default = role[r].default ELSE row.default /\ cur # r
  <2>1. CASE p.default = TRUE /\ ~row2.default
    <3>1. cur = default_holder /\ cur # None /\ ~role[r].default /\ row.default
      BY <1>4, <1>9, <1>10, <1>12, <2>1
    <3> QED BY <1>12, <3>1
  <2>2. CASE ~(p.default = TRUE /\ ~row2.default)
    <3>1. cur = None /\ (row.default <=> role[r].default)
      BY <1>4, <1>9, <2>2
    <3> QED BY <1>15, <3>1
  <2> QED BY <2>1, <2>2
<1>17. IF pcur = None THEN row.pdefault = role[r].pdefault ELSE row.pdefault /\ pcur # r
  <2>1. CASE p.pdefault = TRUE /\ ~row2.pdefault
    <3>1. pcur = participant_default_holder /\ pcur # None /\ ~role[r].pdefault /\ row.pdefault
      BY <1>5, <1>9, <1>10, <1>13, <2>1
    <3> QED BY <1>13, <3>1
  <2>2. CASE ~(p.pdefault = TRUE /\ ~row2.pdefault)
    <3>1. pcur = None /\ (row.pdefault <=> role[r].pdefault)
      BY <1>5, <1>9, <2>2
    <3> QED BY <1>15, <3>1
  <2> QED BY <2>1, <2>2
<1>18. (role[r].default \/ role[r].pdefault \/ r = Owner) /\ role[r].active => row.active
  <2>1. p.active \in BOOLEAN \cup {None}
    BY <1>10 DEF RolePatch
  <2>2. p.active = FALSE /\ role[r].active => r # Owner /\ ~role[r].default /\ ~role[r].pdefault
    BY <1>7 DEF set_role_active_ok, assert_deactivatable, NON_DEACTIVATABLE_SYSTEM_ROLES
  <2> QED BY <1>9, <2>1, <2>2
<1>19. row.default => row.active
  <2>1. p.default = TRUE => row2.active
    BY <1>7 DEF set_default_role_ok
  <2> QED BY <1>9, <1>11, <1>18, <2>1
<1>20. row.pdefault => row.active
  <2>1. p.pdefault = TRUE => row2.active
    BY <1>7 DEF set_participant_default_role_ok
  <2> QED BY <1>9, <1>11, <1>18, <2>1
<1>21. row.pdefault => assert_grantable_in_group(row)
  <2>1. CASE p.pdefault = TRUE
    BY <1>7, <1>9, <2>1 DEF set_participant_default_role_ok, assert_grantable_in_group
  <2>2. CASE p.pdefault # TRUE /\ role[r].pdefault
    <3>1. role[r].assignable /\ required_permission \in role[r].perms
      BY <1>11, <2>2 DEF assert_grantable_in_group
    <3>2. CASE p.perms # None \/ p.assignable # None
      <4>1. p.assignable # FALSE
        BY <1>7, <2>2, <3>1, <3>2 DEF update_role_ok
      <4>2. row1.assignable
        BY <1>9, <1>10, <3>1, <4>1 DEF RolePatch
      <4>3. assert_grantable_in_group(row1)
        BY <1>7, <3>2, <4>2
      <4> QED BY <1>9, <4>3 DEF assert_grantable_in_group
    <3>3. CASE p.perms = None /\ p.assignable = None
      BY <1>9, <3>1, <3>3 DEF assert_grantable_in_group
    <3> QED BY <3>2, <3>3
  <2> QED BY <1>9, <2>1, <2>2
<1>22. r = Owner => row.active /\ row.perms = role[Owner].perms
  <2>1. r = Owner => p.perms = None
    BY <1>7, ConstAssumption DEF update_role_ok
  <2>2. role[Owner].active
    BY DEF Catalogue, RowsOK
  <2> QED BY <1>9, <1>18, <2>1, <2>2
<1>23. OffersAccess(row)
  <2>1. CASE p.perms # None \/ p.assignable # None
    BY <1>7, <1>9, <2>1 DEF OffersAccess, assert_grantable_in_group
  <2>2. CASE p.perms = None /\ p.assignable = None
    <3>1. OffersAccess(role[r])
      BY DEF Catalogue, RowsOK
    <3> QED BY <1>9, <2>2, <3>1 DEF OffersAccess
  <2> QED BY <2>1, <2>2
<1>24. x \in Request /\ x.op = "patch" /\ x.role = r /\ x.row = row /\ x.cur = cur /\ x.pcur = pcur
  BY <1>6, <1>9, <1>14 DEF Request
<1>25. PatchOK(x)
  BY <1>9, <1>10, <1>16, <1>17, <1>19, <1>20, <1>21, <1>22, <1>24, <1>23 DEF PatchOK
<1>26. overlapped \subseteq overlapped' /\ overlapped' \subseteq Users
  BY <1>7 DEF NoteRetirement, TypeOK
<1>27. ~x.row.active /\ role[r].active => NoteRetirement(r) /\ assert_role_not_sole(r)
  <2> SUFFICES ASSUME ~x.row.active, role[r].active PROVE NoteRetirement(r) /\ assert_role_not_sole(r)
    OBVIOUS
  <2>1. p.active = FALSE
    BY <1>9, <1>10, <1>24 DEF RolePatch
  <2> QED BY <1>7, <2>1 DEF set_role_active_ok
<1> QED BY <1>8, <1>24, <1>25, <1>26, <1>27

LEMMA UpdateRoleSafe ==
    ASSUME IInv, NEW t \in Requests, NEW r \in Roles, NEW p \in Patches, update_role_endpoint(t, r, p)
    PROVE  IInv'
<1>1. /\ TypeOK /\ Catalogue /\ Governance /\ Accounts /\ ~RoleLocked(r)
      /\ UNCHANGED <<role, user, held, org, late>>
  BY DEF IInv, update_role_endpoint, get_role
<1>2. PICK x \in Request :
        /\ x.op = "patch" /\ x.role = r /\ Begin(t, x) /\ PatchOK(x)
        /\ overlapped \subseteq overlapped' /\ overlapped' \subseteq Users
        /\ ~x.row.active /\ role[r].active => NoteRetirement(r) /\ assert_role_not_sole(r)
  BY <1>1, PatchRequest
<1>3. Locks(x) /\ DeleteOK(x) /\ req[t] = Idle /\ Edit /\ req' = [req EXCEPT ![t] = x]
  BY <1>2 DEF Locks, DeleteOK, Begin
<1>4. /\ req' \in [Requests -> Request] /\ edits' \in 0 .. MaxEdits
      /\ \A v \in Requests : req'[v] = IF v = t THEN x ELSE req[v]
  BY <1>1, <1>3, RequestStep, EditType
<1>5. TypeOK'
  BY <1>1, <1>2, <1>4 DEF TypeOK
<1>6. Catalogue'
  BY <1>1, <1>2, <1>3, LockCatalogue
<1>7. Governance'
  <2>1. \A v \in Requests : req'[v] = req[v] \/ req'[v].op # "delete_user"
    BY <1>2, <1>4
  <2> QED BY <1>1, <2>1, GovernanceFrame
<1>8. Accounts'
  <2>1. Retiring(t)' => ~x.row.active /\ role[r].active
    BY <1>1, <1>2, <1>4 DEF Retiring
  <2>2. Retiring(t)' => NoteRetirement(x.role) /\ count_users_solely_holding(x.role) = 0
    BY <1>2, <2>1 DEF assert_role_not_sole
  <2> QED BY <1>1, <1>2, <1>3, <2>2, LockAccounts
<1> QED BY <1>5, <1>6, <1>7, <1>8 DEF IInv

\* The holder of a lock commits without touching a row that another request has locked.
LEMMA CommitCatalogue ==
    ASSUME TypeOK, Catalogue, NEW t \in Requests, End(t), RowsOK', DefaultsResolvable',
           \A v \in Requests : v # t /\ Locks(req[v]) => role'[req[v].role] = role[req[v].role]
    PROVE  Catalogue' /\ \A v \in Requests : v # t /\ Retiring(v)' => Retiring(v)
<1>1. req'[t] = Idle /\ \A v \in Requests : v # t => req'[v] = req[v]
  BY EndStep
<1>2. Exclusive'
  BY <1>1, IdleIsQuiet DEF Catalogue, Exclusive
<1>3. ASSUME NEW v \in Requests PROVE PatchOK(req[v])' /\ DeleteOK(req[v])'
  <2>1. CASE v = t
    BY <1>1, <2>1, IdleIsQuiet DEF PatchOK, DeleteOK
  <2>2. CASE v # t
    <3>1. PICK x : x = req[v] /\ req'[v] = x
      BY <1>1, <2>2
    <3>2. PatchOK(x) /\ DeleteOK(x) /\ (Locks(x) => role'[x.role] = role[x.role])
      BY <2>2, <3>1 DEF Catalogue
    <3>3. PatchOK(x)'
      BY <3>2 DEF PatchOK, Locks, assert_grantable_in_group
    <3>4. DeleteOK(x)'
      BY <3>2 DEF DeleteOK, Locks
    <3> QED BY <3>1, <3>3, <3>4
  <2> QED BY <2>1, <2>2
<1>4. ASSUME NEW v \in Requests, v # t, Retiring(v)' PROVE Retiring(v)
  BY <1>1, <1>4 DEF Retiring, Locks
<1> QED BY <1>2, <1>3, <1>4 DEF Catalogue

LEMMA CommitDeleteRoleSafe ==
    ASSUME IInv, NEW t \in Requests, CommitDeleteRole(t)
    PROVE  IInv'
<1>1. /\ TypeOK /\ Catalogue /\ Governance /\ Accounts /\ End(t)
      /\ UNCHANGED <<user, held, org, edits, late, overlapped>>
  BY DEF IInv, CommitDeleteRole
<1>2. PICK r \in Roles : r = req[t].role /\ role' = [role EXCEPT ![r].st = "dead"]
  BY <1>1, RequestKinds DEF CommitDeleteRole, TypeOK
<1>3. r \notin SystemRoles /\ ~role[r].default /\ ~role[r].pdefault /\ Locks(req[t])
  BY <1>1, <1>2 DEF Catalogue, DeleteOK, CommitDeleteRole, Locks
<1>4. PICK new : new = [role[r] EXCEPT !.st = "dead"]
  OBVIOUS
<1>5. role[r] \in Role
  BY <1>1 DEF TypeOK
<1>6. new \in Role /\ new.st = "dead" /\ ~new.default /\ ~new.pdefault /\ OffersAccess(new)
  <2>1. OffersAccess(role[r])
    BY <1>1 DEF Catalogue, RowsOK
  <2> QED BY <1>3, <1>4, <1>5, <2>1 DEF Role, OffersAccess
<1>7. role' = [role EXCEPT ![r] = [role[r] EXCEPT !.st = "dead"]]
  BY <1>1, <1>2 DEF TypeOK
<1>8. role' = [role EXCEPT ![r] = new]
  BY <1>4, <1>7, Zenon
<1>9. role' \in [Roles -> Role] /\ \A q \in Roles : role'[q] = IF q = r THEN new ELSE role[q]
  BY <1>1, <1>6, <1>8 DEF TypeOK
<1>10. req' \in [Requests -> Request] /\ \A v \in Requests : req'[v] = req[v] \/ req'[v] = Idle
  BY <1>1, EndStep
<1>11. TypeOK'
  BY <1>1, <1>9, <1>10 DEF TypeOK
<1>12. RowsOK'
  <2>1. Owner \in Roles /\ Owner # r
    BY <1>3, ConstAssumption
  <2> QED BY <1>1, <1>6, <1>9, <2>1 DEF Catalogue, RowsOK, OffersAccess
<1>13. DefaultsResolvable'
  <2>1. {q \in Roles : LiveRole(q) /\ role[q].default}' = {q \in Roles : LiveRole(q) /\ role[q].default}
    BY <1>3, <1>6, <1>9 DEF LiveRole
  <2>2. {q \in Roles : LiveRole(q) /\ role[q].pdefault}' = {q \in Roles : LiveRole(q) /\ role[q].pdefault}
    BY <1>3, <1>6, <1>9 DEF LiveRole
  <2>3. DefaultsResolvable
    BY <1>1 DEF Catalogue
  <2>4. PICK d \in Roles : {q \in Roles : LiveRole(q) /\ role[q].default} = {d} /\ role[d].active
    BY <2>3 DEF DefaultsResolvable
  <2>5. PICK e \in Roles : {q \in Roles : LiveRole(q) /\ role[q].pdefault} = {e}
                           /\ role[e].active /\ assert_grantable_in_group(role[e])
    BY <2>3 DEF DefaultsResolvable
  <2>6. role'[d] = role[d] /\ role'[e] = role[e]
    BY <1>3, <1>9, <2>4, <2>5
  <2>7. assert_grantable_in_group(role[e])'
    BY <2>5, <2>6 DEF assert_grantable_in_group
  <2> QED BY <2>1, <2>2, <2>4, <2>5, <2>6, <2>7 DEF DefaultsResolvable
<1>14. \A v \in Requests : v # t /\ Locks(req[v]) => role'[req[v].role] = role[req[v].role]
  <2> SUFFICES ASSUME NEW v \in Requests, v # t, Locks(req[v]) PROVE role'[req[v].role] = role[req[v].role]
    OBVIOUS
  <2>1. req[v].role \in Roles
    BY <1>1, RequestKinds DEF TypeOK, Locks
  <2>2. req[v].role # r
    BY <1>1, <1>2, <1>3 DEF Catalogue, Exclusive
  <2> QED BY <1>9, <2>1, <2>2
<1>15. Catalogue' /\ \A v \in Requests : v # t /\ Retiring(v)' => Retiring(v)
  BY <1>1, <1>12, <1>13, <1>14, CommitCatalogue
<1>16. Governance'
  <2>1. \A v \in Requests : req'[v] = req[v] \/ req'[v].op # "delete_user"
    BY <1>10, IdleIsQuiet
  <2> QED BY <1>1, <2>1, GovernanceFrame
<1>17. Accounts'
  <2>1. Retiring(t)
    BY DEF Retiring, CommitDeleteRole
  <2>2. \A q \in Roles : q # req[t].role /\ Usable(q) => Usable(q)'
    BY <1>2, <1>9 DEF Usable, LiveRole
  <2> QED BY <1>1, <1>15, <2>1, <2>2, RetireAccounts
<1> QED BY <1>11, <1>15, <1>16, <1>17 DEF IInv

\* The rows after a patch: the patched one, and the former holders of the flags it takes.
AfterPatch(x) ==
    /\ role' \in [Roles -> Role]
    /\ role'[x.role] = x.row
    /\ \A q \in Roles : q # x.role =>
          /\ role'[q].st = role[q].st /\ role'[q].active = role[q].active
          /\ role'[q].assignable = role[q].assignable /\ role'[q].perms = role[q].perms
          /\ (role'[q].default <=> role[q].default /\ q # x.cur)
          /\ (role'[q].pdefault <=> role[q].pdefault /\ q # x.pcur)
          /\ q \notin {x.cur, x.pcur} => role'[q] = role[q]

LEMMA PatchedRows ==
    ASSUME TypeOK, NEW x \in Request, x.op = "patch",
           role' = [r \in Roles |->
                      IF r = x.role THEN x.row
                      ELSE [role[r] EXCEPT !.default = @ /\ r # x.cur, !.pdefault = @ /\ r # x.pcur]]
    PROVE  AfterPatch(x)
<1>1. x.role \in Roles /\ x.row \in Role
  BY RequestKinds
<1>2. ASSUME NEW q \in Roles, q # x.role
      PROVE  /\ role'[q] \in Role
             /\ role'[q].st = role[q].st /\ role'[q].active = role[q].active
             /\ role'[q].assignable = role[q].assignable /\ role'[q].perms = role[q].perms
             /\ (role'[q].default <=> role[q].default /\ q # x.cur)
             /\ (role'[q].pdefault <=> role[q].pdefault /\ q # x.pcur)
             /\ q \notin {x.cur, x.pcur} => role'[q] = role[q]
  <2>1. PICK row \in Role : row = role[q]
    BY DEF TypeOK
  <2>2. PICK a \in BOOLEAN : a = (row.default /\ q # x.cur)
    OBVIOUS
  <2>3. PICK b \in BOOLEAN : b = (row.pdefault /\ q # x.pcur)
    OBVIOUS
  <2>4. role'[q] = [row EXCEPT !.default = a, !.pdefault = b]
    BY <1>2, <2>1, <2>2, <2>3, Zenon
  <2>5. PICK new : new = [row EXCEPT !.default = a, !.pdefault = b]
    OBVIOUS
  <2>6. /\ new \in Role /\ new.st = row.st /\ new.active = row.active /\ new.assignable = row.assignable
        /\ new.perms = row.perms /\ new.default = a /\ new.pdefault = b
    BY <2>1, <2>5 DEF Role
  <2>7. q \notin {x.cur, x.pcur} => new = row
    <3>1. q \notin {x.cur, x.pcur} => a = row.default /\ b = row.pdefault
      BY <2>1, <2>2, <2>3 DEF Role
    <3>2. /\ row = [st |-> row.st, active |-> row.active, default |-> row.default, pdefault |-> row.pdefault,
                   assignable |-> row.assignable, perms |-> row.perms]
          /\ new = [st |-> new.st, active |-> new.active, default |-> new.default, pdefault |-> new.pdefault,
                   assignable |-> new.assignable, perms |-> new.perms]
      BY <2>1, <2>6 DEF Role
    <3> QED BY <2>6, <3>1, <3>2
  <2>8. role'[q] = new
    BY <2>4, <2>5, Zenon
  <2> QED BY <2>1, <2>2, <2>3, <2>6, <2>7, <2>8
<1>3. role'[x.role] = x.row
  BY <1>1, Zenon
<1>4. ASSUME NEW q \in Roles PROVE role'[q] \in Role
  BY <1>1, <1>2, <1>3
<1>5. role' = [q \in Roles |-> role'[q]]
  BY Zenon
<1>6. role' \in [Roles -> Role]
  BY <1>4, <1>5
<1> QED BY <1>2, <1>3, <1>6 DEF AfterPatch

\* A flag moves to the patched role or stays with its holder.
LEMMA PatchedDefaults ==
    ASSUME TypeOK, Catalogue, NEW t \in Requests, CommitPatch(t)
    PROVE  DefaultsResolvable'
<1>1. PICK x \in Request : x = req[t]
  BY DEF TypeOK
<1>2. /\ x.op = "patch" /\ x.role \in Roles /\ x.row \in Role /\ PatchOK(x)
      /\ x.cur # None => role[x.cur].default /\ LiveRole(x.cur)
      /\ x.pcur # None => role[x.pcur].pdefault /\ LiveRole(x.pcur)
  BY <1>1, RequestKinds DEF CommitPatch, Catalogue, ix_roles_is_default, ix_roles_is_participant_default
<1>3. x.cur \in Roles \cup {None} /\ x.pcur \in Roles \cup {None} /\ None \notin Roles
  BY <1>2, RequestKinds, ConstAssumption
<1>4. role' = [r \in Roles |->
                 IF r = x.role THEN x.row
                 ELSE [role[r] EXCEPT !.default = @ /\ r # x.cur, !.pdefault = @ /\ r # x.pcur]]
  BY <1>1, Zenon DEF CommitPatch
<1>5. /\ role'[x.role] = x.row
      /\ \A q \in Roles : q # x.role =>
            /\ role'[q].st = role[q].st /\ role'[q].active = role[q].active
            /\ role'[q].assignable = role[q].assignable /\ role'[q].perms = role[q].perms
            /\ (role'[q].default <=> role[q].default /\ q # x.cur)
            /\ (role'[q].pdefault <=> role[q].pdefault /\ q # x.pcur)
  <2>1. AfterPatch(x)
    BY <1>2, <1>4, PatchedRows, Zenon
  <2> QED BY <2>1 DEF AfterPatch
<1>6. /\ role[x.role].st = "live" /\ x.row.st = "live"
      /\ x.row.default => x.row.active
      /\ x.row.pdefault => x.row.active /\ assert_grantable_in_group(x.row)
      /\ IF x.cur = None THEN x.row.default = role[x.role].default ELSE x.row.default /\ x.cur # x.role
      /\ IF x.pcur = None THEN x.row.pdefault = role[x.role].pdefault ELSE x.row.pdefault /\ x.pcur # x.role
  BY <1>2 DEF PatchOK
<1>7. \E d \in Roles : {r \in Roles : LiveRole(r)' /\ role'[r].default} = {d} /\ role'[d].active
  <2>1. PICK d \in Roles : {r \in Roles : LiveRole(r) /\ role[r].default} = {d} /\ role[d].active
    BY DEF Catalogue, DefaultsResolvable
  <2>2. CASE x.cur = None
    <3>1. \A r \in Roles : (LiveRole(r)' /\ role'[r].default) <=> (LiveRole(r) /\ role[r].default)
      BY <1>2, <1>3, <1>5, <1>6, <2>2 DEF LiveRole
    <3>2. {r \in Roles : LiveRole(r)' /\ role'[r].default} = {d}
      BY <2>1, <3>1
    <3>3. role'[d].active
      <4>1. CASE d = x.role
        BY <1>5, <1>6, <2>1, <2>2, <4>1
      <4>2. CASE d # x.role
        BY <1>5, <2>1, <4>2
      <4> QED BY <4>1, <4>2
    <3> QED BY <3>2, <3>3
  <2>3. CASE x.cur # None
    <3>1. d = x.cur
      BY <1>2, <1>3, <2>1, <2>3
    <3>2. {r \in Roles : LiveRole(r)' /\ role'[r].default} = {x.role}
      BY <1>2, <1>5, <1>6, <2>1, <2>3, <3>1 DEF LiveRole
    <3> QED BY <1>2, <1>5, <1>6, <2>3, <3>2
  <2> QED BY <2>2, <2>3
<1>8. \E d \in Roles : /\ {r \in Roles : LiveRole(r)' /\ role'[r].pdefault} = {d}
                       /\ role'[d].active /\ assert_grantable_in_group(role'[d])
  <2>1. PICK d \in Roles : /\ {r \in Roles : LiveRole(r) /\ role[r].pdefault} = {d}
                           /\ role[d].active /\ assert_grantable_in_group(role[d])
    BY DEF Catalogue, DefaultsResolvable
  <2>2. CASE x.pcur = None
    <3>1. \A r \in Roles : (LiveRole(r)' /\ role'[r].pdefault) <=> (LiveRole(r) /\ role[r].pdefault)
      BY <1>2, <1>3, <1>5, <1>6, <2>2 DEF LiveRole
    <3>2. {r \in Roles : LiveRole(r)' /\ role'[r].pdefault} = {d}
      BY <2>1, <3>1
    <3>3. role'[d].active /\ assert_grantable_in_group(role'[d])
      <4>1. CASE d = x.role
        BY <1>5, <1>6, <2>1, <2>2, <4>1
      <4>2. CASE d # x.role
        BY <1>5, <2>1, <4>2 DEF assert_grantable_in_group
      <4> QED BY <4>1, <4>2
    <3> QED BY <3>2, <3>3
  <2>3. CASE x.pcur # None
    <3>1. d = x.pcur
      BY <1>2, <1>3, <2>1, <2>3
    <3>2. {r \in Roles : LiveRole(r)' /\ role'[r].pdefault} = {x.role}
      BY <1>2, <1>5, <1>6, <2>1, <2>3, <3>1 DEF LiveRole
    <3> QED BY <1>2, <1>5, <1>6, <2>3, <3>2
  <2> QED BY <2>2, <2>3
<1> QED BY <1>7, <1>8 DEF DefaultsResolvable

LEMMA CommitPatchSafe ==
    ASSUME IInv, NEW t \in Requests, CommitPatch(t)
    PROVE  IInv'
<1>1. /\ TypeOK /\ Catalogue /\ Governance /\ Accounts /\ End(t)
      /\ UNCHANGED <<user, held, org, edits, late, overlapped>>
  BY DEF IInv, CommitPatch
<1>2. PICK x \in Request : x = req[t]
  BY <1>1 DEF TypeOK
<1>3. /\ x.op = "patch" /\ x.role \in Roles /\ PatchOK(x) /\ Locks(x)
      /\ \A v \in Requests : v # t /\ Locks(req[v]) => req[v].role \notin {x.cur, x.pcur}
  BY <1>1, <1>2, RequestKinds DEF CommitPatch, Catalogue, Locks
<1>4. role' = [r \in Roles |->
                 IF r = x.role THEN x.row
                 ELSE [role[r] EXCEPT !.default = @ /\ r # x.cur, !.pdefault = @ /\ r # x.pcur]]
  BY <1>2, Zenon DEF CommitPatch
<1>5. /\ role' \in [Roles -> Role] /\ role'[x.role] = x.row
      /\ \A q \in Roles : q # x.role =>
            /\ role'[q].st = role[q].st /\ role'[q].active = role[q].active
            /\ role'[q].assignable = role[q].assignable /\ role'[q].perms = role[q].perms
            /\ (role'[q].default <=> role[q].default /\ q # x.cur)
            /\ (role'[q].pdefault <=> role[q].pdefault /\ q # x.pcur)
            /\ q \notin {x.cur, x.pcur} => role'[q] = role[q]
  <2>1. AfterPatch(x)
    BY <1>1, <1>3, <1>4, PatchedRows, Zenon
  <2> QED BY <2>1 DEF AfterPatch
<1>6. req' \in [Requests -> Request] /\ \A v \in Requests : req'[v] = req[v] \/ req'[v] = Idle
  BY <1>1, EndStep
<1>7. TypeOK'
  BY <1>1, <1>5, <1>6 DEF TypeOK
<1>8. RowsOK'
  <2>1. \A r \in Roles : OffersAccess(role'[r])
    BY <1>1, <1>3, <1>5 DEF Catalogue, RowsOK, PatchOK, OffersAccess
  <2>2. \A r \in Roles : role'[r].st # "live" => ~role'[r].default /\ ~role'[r].pdefault
    BY <1>1, <1>3, <1>5 DEF Catalogue, RowsOK, PatchOK
  <2>3. role'[Owner].st = "live" /\ role'[Owner].active /\ role'[Owner].perms = ROLE_PERMISSIONS[Owner]
    BY <1>1, <1>3, <1>5, ConstAssumption DEF Catalogue, RowsOK, PatchOK
  <2> QED BY <2>1, <2>2, <2>3 DEF RowsOK
<1>9. DefaultsResolvable'
  BY <1>1, PatchedDefaults
<1>10. \A v \in Requests : v # t /\ Locks(req[v]) => role'[req[v].role] = role[req[v].role]
  <2> SUFFICES ASSUME NEW v \in Requests, v # t, Locks(req[v]) PROVE role'[req[v].role] = role[req[v].role]
    OBVIOUS
  <2>1. req[v].role \in Roles
    BY <1>1, RequestKinds DEF TypeOK, Locks
  <2>2. req[v].role # x.role
    BY <1>1, <1>2, <1>3 DEF Catalogue, Exclusive
  <2> QED BY <1>3, <1>5, <2>1, <2>2
<1>11. Catalogue' /\ \A v \in Requests : v # t /\ Retiring(v)' => Retiring(v)
  BY <1>1, <1>8, <1>9, <1>10, CommitCatalogue
<1>12. Governance'
  <2>1. \A v \in Requests : req'[v] = req[v] \/ req'[v].op # "delete_user"
    BY <1>6, IdleIsQuiet
  <2> QED BY <1>1, <2>1, GovernanceFrame
<1>13. Accounts'
  <2>1. \A q \in Roles : q # x.role /\ Usable(q) => Usable(q)'
    BY <1>5 DEF Usable, LiveRole
  <2>2. CASE Retiring(t)
    BY <1>1, <1>2, <1>11, <2>1, <2>2, RetireAccounts
  <2>3. CASE ~Retiring(t)
    <3>1. Usable(x.role) => Usable(x.role)'
      BY <1>2, <1>3, <1>5, <2>3 DEF Usable, LiveRole, Retiring, PatchOK
    <3>2. req'[t] = Idle /\ \A v \in Requests : v # t => req'[v] = req[v]
      BY <1>1, EndStep
    <3>3. \A v \in Requests : Retiring(v)' => Retiring(v) /\ req'[v].role = req[v].role
      <4>1. ~Retiring(t)'
        BY <3>2, IdleIsQuiet DEF Retiring
      <4> QED BY <1>11, <3>2, <4>1
    <3>4. \A v \in Requests : Writes(req'[v]) => req'[v] = req[v]
      BY <1>6, IdleIsQuiet
    <3> QED BY <1>1, <1>6, <2>1, <3>1, <3>3, <3>4, AccountsFrame
  <2> QED BY <2>2, <2>3
<1> QED BY <1>7, <1>11, <1>12, <1>13 DEF IInv

-----------------------------------------------------------------------------
(* Theorems                                                                 *)

LEMMA StutterSafe ==
    ASSUME IInv, UNCHANGED vars
    PROVE  IInv'
<1>1. /\ TypeOK /\ Catalogue /\ Governance /\ Accounts
      /\ UNCHANGED <<role, user, held, org, req, edits, late, overlapped>>
  BY DEF IInv, vars
<1>2. TypeOK'
  BY <1>1 DEF TypeOK
<1>3. Catalogue'
  BY <1>1, CatalogueFrame
<1>4. Governance'
  BY <1>1, GovernanceFrame
<1>5. Accounts'
  <2>1. req' \in [Requests -> Request]
    BY <1>1 DEF TypeOK
  <2> QED BY <1>1, <2>1, AccountsQuiet
<1> QED BY <1>2, <1>3, <1>4, <1>5 DEF IInv

LEMMA NextIInv ==
    ASSUME IInv, [Next]_vars
    PROVE  IInv'
<1>1. CASE UNCHANGED vars
  BY <1>1, StutterSafe
<1>2. ASSUME NEW t \in Requests,
             \/ Rollback(t) \/ CommitPatch(t) \/ CommitDeleteRole(t)
             \/ CommitUserRoles(t) \/ CommitMembers(t) \/ soft_delete_user(t)
      PROVE  IInv'
  BY <1>2, RollbackSafe, CommitPatchSafe, CommitDeleteRoleSafe, CommitUserRolesSafe, CommitMembersSafe,
     SoftDeleteUserSafe
<1>3. ASSUME NEW t \in Requests, NEW r \in Roles,
             (\E p \in Patches : update_role_endpoint(t, r, p)) \/ delete_role_endpoint(t, r)
      PROVE  IInv'
  BY <1>3, UpdateRoleSafe, DeleteRoleSafe
<1>4. ASSUME NEW r \in Roles,
             restore_role_endpoint(r) \/ \E perms \in CustomPerms : create_role_endpoint(r, perms)
      PROVE  IInv'
  BY <1>4, NewRoleSafe
<1>5. ASSUME NEW t \in Requests, NEW u \in Users,
             \/ \E rs \in RoleSets : update_user_endpoint(t, u, rs)
             \/ \E privileged \in BOOLEAN : delete_user_endpoint(t, u, privileged)
      PROVE  IInv'
  BY <1>5, UpdateUserSafe, DeleteUserSafe
<1>6. ASSUME NEW u \in Users, NEW privileged \in BOOLEAN, restore_user_endpoint(u, privileged)
      PROVE  IInv'
  BY <1>6, RestoreUserSafe
<1>7. ASSUME NEW t \in Requests, NEW g \in Groups, NEW u \in Users,
             \/ \E rs \in RoleSets : \/ add_group_member_endpoint(t, g, u, rs)
                                     \/ update_group_member_endpoint(t, g, u, rs)
             \/ join_evaluation_group_endpoint(t, g, u)
             \/ remove_group_member_endpoint(t, g, u)
      PROVE  IInv'
  BY <1>7, MemberEndpointsSafe
<1>8. ASSUME NEW o \in Orgs,
             \/ soft_delete_organization(o) \/ restore_organization(o)
             \/ \E u \in Users : assign_organization_member_endpoint(o, u) \/ remove_organization_member_endpoint(o, u)
      PROVE  IInv'
  BY <1>8, OrganizationsSafe
<1> QED BY <1>1, <1>2, <1>3, <1>4, <1>5, <1>6, <1>7, <1>8 DEF Next

\* The rows, the requests in flight and what they hold, and what their checks saw stay as IInv says
\* under every interleaving of role, account, membership and organization requests.
THEOREM Invariance == Spec => []IInv
<1>1. Init => IInv
  BY InitIInv
<1>2. IInv /\ [Next]_vars => IInv'
  BY NextIInv
<1> QED BY <1>1, <1>2, PTL DEF Spec

\* Every row and every request in flight is one the program can hold.
THEOREM TypeCorrect == Spec => []TypeOK
<1>1. IInv => TypeOK
  BY DEF IInv
<1> QED BY <1>1, Invariance, PTL

\* Registration and self-join each find exactly one role, active and, for self-join, usable inside a
\* group, whatever hand-overs, deactivations and deletions of roles are in flight
\* (set_default_role, set_participant_default_role, delete_role).
THEOREM DefaultsAlwaysResolve == Spec => []DefaultsResolvable
<1>1. IInv => DefaultsResolvable
  BY DEF IInv, Catalogue
<1> QED BY <1>1, Invariance, PTL

\* No interleaving of role edits, deletions, account edits and restores leaves a live account without a
\* usable role, but where two of them wrote or retired its roles at once
\* (_assert_role_not_sole, restore_user).
THEOREM RolesAreKept == Spec => []AccountsKeepARole
<1>1. IInv => AccountsKeepARole
  BY DEF IInv, Accounts
<1> QED BY <1>1, Invariance, PTL

\* A live holder of Owner passes the gate on managing the members.
LEMMA OwnersManage ==
    ASSUME IInv, NEW g \in Groups, NEW u \in Users, Owner \in held[g][u]
    PROVE  require_group_permission(g, Form[g], u, "manage_members")
<1>1. Owner \in Roles /\ role[Owner].st = "live" /\ role[Owner].active /\ "manage_members" \in role[Owner].perms
  <2>1. Owner \in SystemRoles /\ Owner \in Roles
    BY ConstAssumption
  <2>2. ROLE_PERMISSIONS[Owner] = {"read", "manage_members", "view_metrics"}
    BY <2>1 DEF ROLE_PERMISSIONS
  <2> QED BY <2>1, <2>2 DEF IInv, Catalogue, RowsOK
<1>2. Owner \in held_roles(g, u)
  BY <1>1 DEF held_roles, LiveRole
<1>3. resolve_object_access(g, u).is_member /\ "manage_members" \in resolve_object_access(g, u).permissions
  BY <1>1, <1>2 DEF resolve_object_access
<1> QED BY <1>3 DEF require_group_permission, group_is_visible, ObjectAccessContext_has

\* However removals, demotions and account deletions interleave, every group keeps a live user who may
\* manage its members, but one whose owner was appointed past the scan of that account's deletion
\* (_assert_protected_role_survives, objects_solely_held_by).
THEOREM GroupsStayGoverned == Spec => []GroupGoverned
<1>1. ASSUME IInv PROVE GroupGoverned
  <2> SUFFICES ASSUME NEW g \in Groups \ late
               PROVE  \E u \in Users : user[u].live /\ require_group_permission(g, Form[g], u, "manage_members")
    BY DEF GroupGoverned
  <2>1. PICK u \in Users : user[u].live /\ Owner \in held[g][u]
    BY <1>1 DEF IInv, Governance
  <2> QED BY <1>1, <2>1, OwnersManage
<1> QED BY <1>1, Invariance, PTL

\* The picker offers what an assignment accepts.
LEMMA PickerIsExact ==
    ASSUME IInv
    PROVE  list_roles(FALSE, TRUE) = {r \in Roles : resolve_assignable_roles({r})}
<1>1. \A r \in Roles : role[r].assignable => required_permission \in role[r].perms
  BY DEF IInv, Catalogue, RowsOK, OffersAccess
<1> QED BY <1>1 DEF list_roles, resolve_assignable_roles, get_roles_by_ids, Usable, LiveRole

\* A permission read in SQL over the assignments is the one resolved for the group in Python.
LEMMA CapabilityReadsAgree ==
    ASSUME NEW g \in Groups, NEW u, NEW p
    PROVE  g \in groups_granting(p, u) <=> assert_object_permission(g, u, p)
<1>1. assert_object_permission(g, u, p) <=> \E r \in held_roles(g, u) : role[r].active /\ p \in role[r].perms
  BY DEF assert_object_permission, resolve_object_access
<1> QED BY <1>1 DEF groups_granting, held_roles, Usable

\* The SQL and the Python visibility of a group differ for a member of deleted roles only.
LEMMA VisibilityAgrees ==
    ASSUME TypeOK, NEW g, NEW u, NEW f, held[g][u] = {} \/ held_roles(g, u) # {}
    PROVE  join_visible_evaluation_group(g, f, u) <=> group_is_visible(g, f, u)
<1>1. held[g][u] # {} <=> resolve_object_access(g, u).is_member
  BY DEF held_roles, resolve_object_access
<1>2. PICK o : o = caller_live_organization_select(u)
  OBVIOUS
<1>3. (o \in org \/ o = None) /\ None \notin org
  BY <1>2, ConstAssumption DEF caller_live_organization_select, TypeOK
<1>4. (f.org # None /\ f.org = o) <=> (f.org \in org /\ o # None /\ f.org = o)
  BY <1>3
<1> QED BY <1>1, <1>2, <1>4 DEF join_visible_evaluation_group, group_visible_to, group_is_visible

\* The metrics key on the page says what the metrics gate decides.
LEMMA MetricsKeyIsHonest ==
    ASSUME NEW g, NEW u, NEW level, NEW f, require_group_read(g, f, u)
    PROVE  "view_metrics" \in resolve_group_user_permissions(g, level, u)
             <=> require_group_metrics_access(g, f, level, u)
<1>1. PICK access : access = resolve_object_access(g, u)
  OBVIOUS
<1>2. "view_metrics" \in effective_object_permissions(access) => resolve_metrics_scope(level, access) = "FULL"
  BY DEF effective_object_permissions, resolve_metrics_scope, ObjectAccessContext_has
<1>3. "view_metrics" \in resolve_group_user_permissions(g, level, u)
        <=> "view_metrics" \in effective_object_permissions(access) \/ resolve_metrics_scope(level, access) # "NONE"
  BY <1>1 DEF resolve_group_user_permissions
<1>4. require_group_metrics_access(g, f, level, u) <=> resolve_metrics_scope(level, access) # "NONE"
  BY <1>1 DEF require_group_metrics_access
<1> QED BY <1>2, <1>3, <1>4

\* The predicates the code states twice, in SQL for listings and in Python for the gates, agree in every
\* reachable state for every catalogue, form of group and metrics level, but for a member all of whose
\* roles are deleted (group_visible_to and group_is_visible, resolve_group_user_permissions and
\* require_group_metrics_access, groups_granting and assert_object_permission, list_roles and
\* resolve_assignable_roles).
THEOREM GatesAgree == Spec => []ReadGatesAgree
<1>1. ASSUME IInv PROVE ReadGatesAgree
  <2> SUFFICES ASSUME NEW u \in Users, NEW g \in Groups, user[u].live
               PROVE  /\ resolve_object_access(g, u).is_member => u \in list_members(g)
                      /\ get_evaluation_group(g, Form[g], u) <=> g \in list_evaluation_groups(TRUE, u)
                      /\ \A p \in Perms : g \in groups_granting(p, u) <=> assert_object_permission(g, u, p)
                      /\ \A p \in Perms : holds_permission_anywhere(u, p) <=> groups_granting(p, u) # {}
                      /\ IF held[g][u] # {} /\ held_roles(g, u) = {}
                         THEN resolve_object_access(g, u).permissions = {}
                         ELSE /\ \A f \in Forms : get_evaluation_group(g, f, u) <=> require_group_read(g, f, u)
                              /\ get_evaluation_group(g, Form[g], u) =>
                                    \A level \in MetricsAccessLevel :
                                        "view_metrics" \in resolve_group_user_permissions(g, level, u)
                                            <=> require_group_metrics_access(g, Form[g], level, u)
    BY <1>1, PickerIsExact DEF ReadGatesAgree
  <2>1. resolve_object_access(g, u).is_member => u \in list_members(g)
    BY DEF resolve_object_access, held_roles, list_members
  <2>2. get_evaluation_group(g, Form[g], u) <=> g \in list_evaluation_groups(TRUE, u)
    BY DEF get_evaluation_group, join_visible_evaluation_group, list_evaluation_groups
  <2>3. \A p \in Perms : g \in groups_granting(p, u) <=> assert_object_permission(g, u, p)
    BY CapabilityReadsAgree
  <2>4. \A p \in Perms : holds_permission_anywhere(u, p) <=> groups_granting(p, u) # {}
    BY DEF holds_permission_anywhere, groups_granting
  <2>5. held_roles(g, u) = {} => resolve_object_access(g, u).permissions = {}
    BY DEF resolve_object_access
  <2>6. ASSUME held[g][u] = {} \/ held_roles(g, u) # {}
        PROVE  \A f : get_evaluation_group(g, f, u) <=> require_group_read(g, f, u)
    BY <1>1, <2>6, VisibilityAgrees DEF IInv, get_evaluation_group, require_group_read
  <2>7. ASSUME held[g][u] = {} \/ held_roles(g, u) # {}, get_evaluation_group(g, Form[g], u)
        PROVE  \A level \in MetricsAccessLevel :
                   "view_metrics" \in resolve_group_user_permissions(g, level, u)
                       <=> require_group_metrics_access(g, Form[g], level, u)
    BY <2>6, <2>7, MetricsKeyIsHonest
  <2> QED BY <2>1, <2>2, <2>3, <2>4, <2>5, <2>6, <2>7
<1> QED BY <1>1, Invariance, PTL
=============================================================================
