--------------------------- MODULE GroupLifecycle ---------------------------
(***************************************************************************)
(* Evaluation groups from draft to inactive, their evaluations, and the    *)
(* organizations they belong to.  A publication transition holds the group *)
(* row FOR UPDATE from its checks to its commit, but reads evaluations,    *)
(* scenarios and organizations unlocked; creating an evaluation reads the  *)
(* group's status unlocked; deleting an organization holds its row while   *)
(* it counts the groups.  These are two steps of a request here: the       *)
(* checks, then the commit.  Every other endpoint is one step: what it     *)
(* checks is what it has locked or what only it writes.  Who sees a group  *)
(* is the subject of module Membership; who may write it is modelled here. *)
(***************************************************************************)
EXTENDS Integers, FiniteSets, Callers

CONSTANTS
    Groups, Evals, Orgs,          \* row ids
    Creators,                     \* users holding evaluation_groups:create
    Home,                         \* users.organization_id; module Membership changes it
    MaxFresh,                     \* bound on the groups, and on the evaluations, not made by duplicate
    MaxEdits                      \* bound on the copies, PATCHes and deletes

ASSUME ConstAssumption ==
    /\ Managers \subseteq Users /\ Creators \subseteq Users
    /\ Home \in [Users -> Orgs \cup {None}]
    /\ MaxEdits \in Nat /\ MaxFresh \in Nat
    /\ None \notin Groups \cup Evals \cup Orgs \cup Users \cup Requests
    /\ None \notin {"form", "draft", "copy"}

VARIABLES
    grp,    \* grp[g]: the evaluation_groups row, with the holder of its owner role
    ev,     \* ev[e]: the evaluations row, and whether a live scenario hangs off it
    org,    \* org[o]: the organizations row
    req,    \* req[r]: the request between its checks and its commit
    due,    \* history: submissions of g less verdicts on g
    edits,  \* history: how many of these there were
    origin, \* history: the endpoint that made g
    chosen  \* history: inheriting the platform licence was asked for at this access level

vars == <<grp, ev, org, req, due, edits, origin, chosen>>

PublicationStatus == {"draft", "pending_approval", "changes_requested", "approved",
                      "not_approved", "published", "inactive"}
AcceptingEvaluations == {"approved", "published"}
AccessLevels == {"public", "organization", "invitation_only"}
Licences == {"inherit", "own"}   \* data_license_id: NULL, or a licence (the sentinel No license too)
Liveness == {"none", "live", "dead"}

\* ready: described, opening today or later, and with an allowed model.
GroupRow == [status : PublicationStatus \cup {"none"}, access : AccessLevels,
             org : Orgs \cup {None}, ready : BOOLEAN, lic : Licences, owner : Users \cup {None}]

EvalRow == [st : Liveness, grp : Groups \cup {None}, lic : Licences, playable : BOOLEAN,
            by : Users \cup {None}]   \* by: deleted_by_id

Request == [op : {"idle", "submit", "publish", "finish", "approve", "request_changes",
                  "reject", "create_evaluation", "delete_organization"},
            grp : Groups \cup {None}, org : Orgs \cup {None}]

IdleReq == [op |-> "idle", grp |-> None, org |-> None]

\* Every row, request and history value is one the program can hold.
TypeOK ==
    /\ grp \in [Groups -> GroupRow]
    /\ ev \in [Evals -> EvalRow]
    /\ org \in [Orgs -> Liveness]
    /\ req \in [Requests -> Request]
    /\ due \in [Groups -> Int]
    /\ edits \in 0 .. MaxEdits
    /\ origin \in [Groups -> {None, "form", "draft", "copy"}] /\ chosen \in [Groups -> BOOLEAN]

Unused == [status |-> "none", access |-> "invitation_only", org |-> None, ready |-> FALSE,
           lic |-> "own", owner |-> None]
NoEval == [st |-> "none", grp |-> None, lic |-> "inherit", playable |-> FALSE, by |-> None]

Init ==
    /\ grp = [g \in Groups |-> Unused]
    /\ ev = [e \in Evals |-> NoEval]
    /\ org = [o \in Orgs |-> "none"]
    /\ req = [r \in Requests |-> IdleReq]
    /\ due = [g \in Groups |-> 0]
    /\ edits = 0
    /\ origin = [g \in Groups |-> None] /\ chosen = [g \in Groups |-> FALSE]

----------------------------------------------------------------------------
\* What a write asks of the caller, and a transition of the group.

Exists(g) == grp[g].status # "none"
LiveOrg(o) == o # None /\ org[o] = "live"
caller_live_organization(u) == IF LiveOrg(Home[u]) THEN Home[u] ELSE None

\* owner is the only role granted here with evaluation_groups:update and evaluations:*.
assert_group_write_access(u, g) == Exists(g) /\ (u \in Managers \/ grp[g].owner = u)

EvalsOf(g) == {e \in Evals : ev[e].st = "live" /\ ev[e].grp = g}

missing_scenario_blocker(g) == \E e \in EvalsOf(g) : ~ev[e].playable

validate_group_org(access, o) ==
    /\ access = "organization" => o # None
    /\ o # None => LiveOrg(o)

assert_caller_may_assign_org(u, o) == u \in Managers \/ o = caller_live_organization(u)

collect_submit_blockers(g) ==
    \/ ~grp[g].ready
    \/ ~validate_group_org(grp[g].access, grp[g].org)
    \/ missing_scenario_blocker(g)

collect_publish_blockers(g) == EvalsOf(g) = {} \/ missing_scenario_blocker(g)

PUBLICATION_TRANSITIONS ==
    {<<"draft", "pending_approval">>, <<"changes_requested", "pending_approval">>,
     <<"pending_approval", "approved">>, <<"pending_approval", "not_approved">>,
     <<"pending_approval", "changes_requested">>,
     <<"approved", "published">>, <<"published", "inactive">>}

assert_transition(g, target) == <<grp[g].status, target>> \in PUBLICATION_TRANSITIONS

----------------------------------------------------------------------------
\* Locks: a row a request holds between its two steps.

Transitions == {"submit", "publish", "finish", "approve", "request_changes", "reject"}
GroupLocked(g) == \E r \in Requests : req[r].op \in Transitions /\ req[r].grp = g
OrgLocked(o) == \E r \in Requests : req[r].op = "delete_organization" /\ req[r].org = o
Idle(r) == req[r].op = "idle"
Free(r) == [req EXCEPT ![r] = IdleReq]

\* Variant: the group is read without FOR UPDATE.
UnlockedRead(r, u, g, op, target) ==
    /\ Idle(r)
    /\ op \in {"request_changes", "reject"} => u \in Managers
    /\ assert_group_write_access(u, g)
    /\ assert_transition(g, target)
    /\ req' = [req EXCEPT ![r] = [op |-> op, grp |-> g, org |-> None]]
    /\ UNCHANGED <<grp, ev, org, due, edits, origin, chosen>>

\* The checks of a transition, with the row locked.
LockGroup(r, u, g, op, target) ==
    /\ Idle(r) /\ ~GroupLocked(g)
    /\ op \in {"request_changes", "reject"} => u \in Managers
    /\ assert_group_write_access(u, g)
    /\ assert_transition(g, target)
    /\ req' = [req EXCEPT ![r] = [op |-> op, grp |-> g, org |-> None]]
    /\ UNCHANGED <<grp, ev, org, due, edits, origin, chosen>>

submit_evaluation_group_endpoint(r, u, g) ==
    LockGroup(r, u, g, "submit", "pending_approval") /\ ~collect_submit_blockers(g)

publish_evaluation_group_endpoint(r, u, g) ==
    LockGroup(r, u, g, "publish", "published") /\ ~collect_publish_blockers(g)

finish_evaluation_group_endpoint(r, u, g) == LockGroup(r, u, g, "finish", "inactive")
approve_evaluation_group_endpoint(r, u, g) == LockGroup(r, u, g, "approve", "approved")

request_changes_evaluation_group_endpoint(r, u, g) ==
    LockGroup(r, u, g, "request_changes", "changes_requested")

reject_evaluation_group_endpoint(r, u, g) == LockGroup(r, u, g, "reject", "not_approved")

\* The commit: the status is written, and the lock released.
MoveTo(r, target) ==
    /\ grp' = [grp EXCEPT ![req[r].grp].status = target]
    /\ req' = Free(r)
    /\ UNCHANGED <<ev, org, edits, origin, chosen>>

Verdict(r, target) == MoveTo(r, target) /\ due' = [due EXCEPT ![req[r].grp] = @ - 1]

submit_evaluation_group(r) ==
    /\ req[r].op = "submit"
    /\ MoveTo(r, "pending_approval")
    /\ due' = [due EXCEPT ![req[r].grp] = @ + 1]

publish_evaluation_group(r) ==
    req[r].op = "publish" /\ MoveTo(r, "published") /\ UNCHANGED due

finish_evaluation_group(r) ==
    req[r].op = "finish" /\ MoveTo(r, "inactive") /\ UNCHANGED due

approve_evaluation_group(r) == req[r].op = "approve" /\ Verdict(r, "approved")

request_changes_for_evaluation_group(r) ==
    req[r].op = "request_changes" /\ Verdict(r, "changes_requested")

reject_evaluation_group(r) == req[r].op = "reject" /\ Verdict(r, "not_approved")

----------------------------------------------------------------------------
\* Creating, copying and editing groups.  A payload's licence may be absent.

default_license_for_access(access) == IF access = "invitation_only" THEN "own" ELSE "inherit"

resolve_new_group_license(sent, access) ==
    IF sent = None THEN default_license_for_access(access) ELSE sent

FreshAllowed == Cardinality({g \in Groups : origin[g] \in {"form", "draft"}}) < MaxFresh

persist_new_group(g, row, from) ==
    /\ grp[g].status = "none"
    /\ grp' = [grp EXCEPT ![g] = row]
    /\ origin' = [origin EXCEPT ![g] = from]
    /\ UNCHANGED <<org, req>>

\* EvaluationGroupCreate: everything a submitted group needs is required.
EvaluationGroupCreate == [access : AccessLevels, org : Orgs \cup {None}, lic : Licences \cup {None}]

\* Variant: the organization is read without FOR SHARE.
CreateUnlockedOrg(g, u, p) ==
    /\ FreshAllowed
    /\ validate_group_org(p.access, p.org)
    /\ p.org # None => assert_caller_may_assign_org(u, p.org)
    /\ persist_new_group(g,
         [status |-> "pending_approval", access |-> p.access, org |-> p.org, ready |-> TRUE,
          lic |-> resolve_new_group_license(p.lic, p.access), owner |-> u], "form")

\* The organization is read FOR SHARE, which waits for a delete that holds it.
create_evaluation_group(g, u, p) ==
    /\ FreshAllowed
    /\ validate_group_org(p.access, p.org)
    /\ p.org # None => ~OrgLocked(p.org) /\ assert_caller_may_assign_org(u, p.org)
    /\ persist_new_group(g,
         [status |-> "pending_approval", access |-> p.access, org |-> p.org, ready |-> TRUE,
          lic |-> resolve_new_group_license(p.lic, p.access), owner |-> u], "form")

create_evaluation_group_endpoint(g, u, p) ==
    /\ u \in Creators
    /\ create_evaluation_group(g, u, p)
    /\ due' = [due EXCEPT ![g] = @ + 1]
    /\ chosen' = [chosen EXCEPT ![g] = p.lic = "inherit"]
    /\ UNCHANGED <<ev, edits>>

\* EvaluationGroupDraftCreate: only a title is required.
EvaluationGroupDraftCreate ==
    [access : AccessLevels, org : Orgs \cup {None}, ready : BOOLEAN, lic : Licences \cup {None}]

\* No lock on the organization, and for a manager no liveness check either.
create_evaluation_group_draft(g, u, p) ==
    /\ FreshAllowed
    /\ p.org # None => org[p.org] # "none" /\ assert_caller_may_assign_org(u, p.org)
    /\ persist_new_group(g,
         [status |-> "draft", access |-> p.access, org |-> p.org, ready |-> p.ready,
          lic |-> resolve_new_group_license(p.lic, p.access), owner |-> u], "draft")

create_evaluation_group_draft_endpoint(g, u, p) ==
    /\ u \in Creators
    /\ create_evaluation_group_draft(g, u, p)
    /\ chosen' = [chosen EXCEPT ![g] = p.lic = "inherit"]
    /\ UNCHANGED <<ev, due, edits>>

\* Fresh evaluation ids for the children of g, and the rows copied under them.
CopyOf(g) == {f \in [EvalsOf(g) -> {e \in Evals : ev[e].st = "none"}] :
                \A s, t \in EvalsOf(g) : s # t => f[s] # f[t]}

load_evaluation_children(g, h, copy) ==
    [e \in Evals |-> IF \E s \in EvalsOf(g) : copy[s] = e
                     THEN [ev[CHOOSE s \in EvalsOf(g) : copy[s] = e] EXCEPT !.grp = h]
                     ELSE ev[e]]

duplicate_evaluation_group(g, h, u) ==
    /\ edits < MaxEdits /\ edits' = edits + 1
    /\ assert_group_write_access(u, g)
    /\ persist_new_group(h,
         [grp[g] EXCEPT !.status = "draft", !.owner = u,
                        !.org = IF LiveOrg(grp[g].org) THEN grp[g].org ELSE None], "copy")
    /\ chosen' = [chosen EXCEPT ![h] = chosen[g]]
    /\ UNCHANGED due

duplicate_evaluation_group_endpoint(g, h, u) ==
    /\ u \in Creators
    /\ duplicate_evaluation_group(g, h, u)
    /\ \/ ev' = ev
       \/ \E copy \in CopyOf(g) : ev' = load_evaluation_children(g, h, copy)

\* EvaluationGroupUpdate: one field per PATCH.  Clearing the description or the start
\* date, or moving the date into the past, makes the row not ready, at any status.
EvaluationGroupUpdate ==
    [field : {"access"}, value : AccessLevels]
      \cup [field : {"org"}, value : Orgs \cup {None}]
      \cup [field : {"ready"}, value : BOOLEAN]
      \cup [field : {"lic"}, value : Licences]

\* Variant: an access change leaves the licence alone.
MergedKeepsLicence(row, c) == [row EXCEPT ![c.field] = c.value]

\* The row with the field set; an access change re-derives a licence the group lacks.
Merged(row, c) ==
    LET set == [row EXCEPT ![c.field] = c.value] IN
    IF set.access # row.access /\ set.lic = "inherit"
    THEN [set EXCEPT !.lic = default_license_for_access(set.access)]
    ELSE set

update_evaluation_group(u, g, c) ==
    LET row == Merged(grp[g], c) IN
    /\ assert_group_write_access(u, g)
    /\ validate_group_org(row.access, row.org)
    /\ row.org # None => ~OrgLocked(row.org)
    /\ row.org # None /\ row.org # grp[g].org => assert_caller_may_assign_org(u, row.org)
    /\ grp' = [grp EXCEPT ![g] = row]

update_evaluation_group_endpoint(u, g, c) ==
    /\ edits < MaxEdits /\ ~GroupLocked(g)
    /\ update_evaluation_group(u, g, c)
    /\ edits' = edits + 1
    /\ chosen' = [chosen EXCEPT ![g] = IF c.field = "lic" THEN c.value = "inherit"
                                       ELSE @ /\ grp'[g].access = grp[g].access]
    /\ UNCHANGED <<ev, org, req, due, origin>>

NotReady(g) ==
    /\ grp[g].ready
    /\ grp' = [grp EXCEPT ![g].ready = FALSE]
    /\ UNCHANGED <<ev, org, req, due, edits, origin, chosen>>

\* Deleting an ai model empties the subsets that held nothing else.
unassign_group_models_for_model(g) == NotReady(g)

\* The day a group was to open on goes by.
DayPasses(g) == NotReady(g)

----------------------------------------------------------------------------
\* Evaluations.

assert_group_accepts_evaluations(g) == grp[g].status \in AcceptingEvaluations

\* The group of a live evaluation, and the caller's write access to it.
authorize_evaluation_mutation(u, e) ==
    /\ ev[e].grp # None
    /\ assert_group_write_access(u, ev[e].grp)

\* The checks of a create, on an unlocked read of the group.
create_evaluation_endpoint(r, u, g) ==
    /\ Idle(r)
    /\ assert_group_write_access(u, g)
    /\ assert_group_accepts_evaluations(g)
    /\ req' = [req EXCEPT ![r] = [op |-> "create_evaluation", grp |-> g, org |-> None]]
    /\ UNCHANGED <<grp, ev, org, due, edits, origin, chosen>>

\* Of the payloads of an evaluation, the licence override.
EvaluationCreate == [data_license_id : Licences]
EvaluationUpdate == [data_license_id : Licences]

\* The insert waits for a FOR UPDATE holder of the parent row, and re-checks nothing.
create_evaluation(r, e, p) ==
    /\ req[r].op = "create_evaluation"
    /\ ~GroupLocked(req[r].grp)
    /\ ev[e].st = "none" /\ Cardinality({f \in Evals : ev[f].st # "none"}) < MaxFresh
    /\ ev' = [ev EXCEPT ![e] = [NoEval EXCEPT !.st = "live", !.grp = req[r].grp,
                                       !.lic = p.data_license_id]]
    /\ req' = Free(r)
    /\ UNCHANGED <<grp, org, due, edits, origin, chosen>>

\* The rest of a step that only writes an evaluations row.
OnlyEval ==
    /\ edits < MaxEdits
    /\ edits' = edits + 1
    /\ UNCHANGED <<grp, org, req, due, origin, chosen>>

duplicate_evaluation(e, f, children) ==
    /\ ev[e].st = "live" /\ ev[f].st = "none"
    /\ assert_group_accepts_evaluations(ev[e].grp)
    /\ ev' = [ev EXCEPT ![f] = [ev[e] EXCEPT !.playable = children /\ @]]

duplicate_evaluation_endpoint(u, e, f, children) ==
    /\ authorize_evaluation_mutation(u, e)
    /\ ~GroupLocked(ev[e].grp)
    /\ duplicate_evaluation(e, f, children)
    /\ OnlyEval

update_evaluation(e, p) ==
    ev[e].st = "live" /\ ev' = [ev EXCEPT ![e].lic = p.data_license_id]

update_evaluation_endpoint(u, e, p) ==
    /\ authorize_evaluation_mutation(u, e)
    /\ update_evaluation(e, p)
    /\ OnlyEval

soft_delete_evaluation(u, e) ==
    ev[e].st = "live" /\ ev' = [ev EXCEPT ![e].st = "dead", ![e].by = u]

delete_evaluation_endpoint(u, e) ==
    /\ authorize_evaluation_mutation(u, e)
    /\ soft_delete_evaluation(u, e)
    /\ OnlyEval

\* A manager restores anything, others what they deleted; the window may close unseen.
get_restorable_evaluation(u, e) == ev[e].st = "dead" /\ (u \in Managers \/ ev[e].by = u)

restore_evaluation(e) == ev' = [ev EXCEPT ![e].st = "live", ![e].by = None]

restore_evaluation_endpoint(u, e) ==
    /\ authorize_evaluation_mutation(u, e)
    /\ get_restorable_evaluation(u, e)
    /\ restore_evaluation(e)
    /\ UNCHANGED <<grp, org, req, due, edits, origin, chosen>>

\* Its first scenario is added, or its last one deleted (module Scenarios).
SetPlayable(u, e, p) ==
    /\ authorize_evaluation_mutation(u, e)
    /\ ev[e].st = "live" /\ ev[e].playable # p
    /\ ev' = [ev EXCEPT ![e].playable = p]
    /\ UNCHANGED <<grp, org, req, due, edits, origin, chosen>>

\* The licence of an evaluation's data: its own, else the group's, else the platform's.
\* The query finds live evaluations only: a deleted one gets the platform's.
resolve_effective_license(e) ==
    CASE ev[e].st = "live" /\ ev[e].lic = "own" -> "evaluation"
      [] /\ ev[e].st = "live" /\ ev[e].lic = "inherit"
         /\ grp[ev[e].grp].lic = "own" -> "group"
      [] OTHER -> "platform"

----------------------------------------------------------------------------
\* Organizations; their endpoints require organizations:manage.

OrgFrame == <<grp, ev, due, edits, origin, chosen>>

create_organization(o) == org[o] = "none" /\ org' = [org EXCEPT ![o] = "live"]

create_organization_endpoint(o) ==
    /\ create_organization(o)
    /\ UNCHANGED <<OrgFrame, req>>

\* The row locked, and the live groups that reference it counted.
delete_organization_endpoint(r, u, o) ==
    /\ Idle(r) /\ ~OrgLocked(o)
    /\ u \in Managers
    /\ org[o] = "live"
    /\ ~\E g \in Groups : Exists(g) /\ grp[g].org = o
    /\ req' = [req EXCEPT ![r] = [op |-> "delete_organization", grp |-> None, org |-> o]]
    /\ UNCHANGED <<OrgFrame, org>>

soft_delete_organization(r) ==
    /\ req[r].op = "delete_organization"
    /\ org' = [org EXCEPT ![req[r].org] = "dead"]
    /\ req' = Free(r)
    /\ UNCHANGED <<OrgFrame>>

get_restorable_organization(o) == org[o] = "dead"
restore_organization(o) == org' = [org EXCEPT ![o] = "live"]

restore_organization_endpoint(o) ==
    /\ get_restorable_organization(o)
    /\ restore_organization(o)
    /\ UNCHANGED <<OrgFrame, req>>

----------------------------------------------------------------------------
Begin(r, u, g) ==
    \/ submit_evaluation_group_endpoint(r, u, g)
    \/ publish_evaluation_group_endpoint(r, u, g)
    \/ finish_evaluation_group_endpoint(r, u, g)
    \/ approve_evaluation_group_endpoint(r, u, g)
    \/ request_changes_evaluation_group_endpoint(r, u, g)
    \/ reject_evaluation_group_endpoint(r, u, g)
    \/ create_evaluation_endpoint(r, u, g)

Commit(r) ==
    \/ submit_evaluation_group(r)
    \/ publish_evaluation_group(r)
    \/ finish_evaluation_group(r)
    \/ approve_evaluation_group(r)
    \/ request_changes_for_evaluation_group(r)
    \/ reject_evaluation_group(r)
    \/ \E e \in Evals, p \in EvaluationCreate : create_evaluation(r, e, p)
    \/ soft_delete_organization(r)

Edit(u, g) ==
    \/ \E p \in EvaluationGroupCreate : create_evaluation_group_endpoint(g, u, p)
    \/ \E p \in EvaluationGroupDraftCreate : create_evaluation_group_draft_endpoint(g, u, p)
    \/ \E h \in Groups : duplicate_evaluation_group_endpoint(g, h, u)
    \/ \E c \in EvaluationGroupUpdate : update_evaluation_group_endpoint(u, g, c)

EditEvaluation(u, e) ==
    \/ \E f \in Evals, children \in BOOLEAN : duplicate_evaluation_endpoint(u, e, f, children)
    \/ \E p \in EvaluationUpdate : update_evaluation_endpoint(u, e, p)
    \/ delete_evaluation_endpoint(u, e)
    \/ restore_evaluation_endpoint(u, e)
    \/ \E p \in BOOLEAN : SetPlayable(u, e, p)

ManageOrg(o) ==
    \/ create_organization_endpoint(o)
    \/ restore_organization_endpoint(o)
    \/ \E r \in Requests, u \in Users : delete_organization_endpoint(r, u, o)

Next ==
    \/ \E r \in Requests, u \in Users, g \in Groups : Begin(r, u, g)
    \/ \E r \in Requests : Commit(r)
    \/ \E u \in Users, g \in Groups : Edit(u, g)
    \/ \E u \in Users, e \in Evals : EditEvaluation(u, e)
    \/ \E o \in Orgs : ManageOrg(o)
    \/ \E g \in Groups : unassign_group_models_for_model(g) \/ DayPasses(g)

Spec == Init /\ [][Next]_vars

----------------------------------------------------------------------------
\* Two reviewers who act on one submission do not both succeed: each submission gets at
\* most one verdict (approve, request changes, reject), and a group is pending exactly
\* while one is owed.  publication.py reads the group FOR UPDATE before it judges the status.
OneVerdictPerSubmission ==
    \A g \in Groups : due[g] = IF grp[g].status = "pending_approval" THEN 1 ELSE 0

\* The data of a live evaluation of an invitation-only group falls under the platform licence
\* only when somebody asked for that, however the group and its access level came about.  Of
\* a deleted evaluation the listing shows the platform licence whatever it carries.
NoSilentInheritance ==
    \A e \in Evals :
        /\ ev[e].st = "live"
        /\ grp[ev[e].grp].access = "invitation_only"
        /\ resolve_effective_license(e) = "platform"
        => chosen[ev[e].grp]

\* A group made by the full form never names a deleted organization: create and PATCH read
\* it FOR SHARE, delete counts the groups under FOR UPDATE (_validate_group_org).
FormOrgLive ==
    \A g \in Groups : origin[g] = "form" /\ grp[g].org # None => LiveOrg(grp[g].org)

=============================================================================
