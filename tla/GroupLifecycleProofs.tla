------------------------ MODULE GroupLifecycleProofs -------------------------
(***************************************************************************)
(* Theorems about GroupLifecycle, for any numbers of groups, evaluations,  *)
(* organizations, users and requests.  The inductive invariant says what   *)
(* the two row locks buy: while a transition holds its group, nobody else  *)
(* moves the status its checks saw; while a delete holds its organization, *)
(* no group made by the form comes to name it.  Then Scenarios: the        *)
(* scenarios of one evaluation, with an invariant of its own.              *)
(***************************************************************************)
EXTENDS GroupLifecycle, Scenarios, FiniteSetTheorems, WellFoundedInduction, TLAPS

-----------------------------------------------------------------------------
(* The inductive invariant                                                  *)

\* The statuses a transition may have found under its lock.
Expected(op) ==
    IF op = "submit" THEN {"draft", "changes_requested"}
    ELSE IF op = "publish" THEN {"approved"}
    ELSE IF op = "finish" THEN {"published"} ELSE {"pending_approval"}

\* A request holds what its operation locks, and the status it judged stands.
RequestOK(r) ==
    /\ req[r].op \in Transitions => /\ req[r].grp \in Groups
                                    /\ grp[req[r].grp].status \in Expected(req[r].op)
    /\ req[r].op = "create_evaluation" => req[r].grp \in Groups
    /\ req[r].op = "delete_organization" => req[r].org \in Orgs

OneHolder ==
    \A q, r \in Requests :
        req[q].op \in Transitions /\ req[r].op \in Transitions /\ req[q].grp = req[r].grp => q = r

\* No group of the form names an organization that a delete has counted.
CountStands ==
    \A r \in Requests, g \in Groups :
        req[r].op = "delete_organization" /\ origin[g] = "form" => grp[g].org # req[r].org

FormsExist == \A g \in Groups : grp[g].status = "none" => origin[g] = None

\* Licences are judged at the group: an evaluation only inherits.
GroupsChoose ==
    \A g \in Groups : grp[g].access = "invitation_only" /\ grp[g].lic = "inherit" => chosen[g]

EvalsPlaced == \A e \in Evals : ev[e].st # "none" => ev[e].grp \in Groups

IInv ==
    /\ TypeOK
    /\ \A r \in Requests : RequestOK(r)
    /\ OneHolder
    /\ OneVerdictPerSubmission
    /\ CountStands /\ FormsExist /\ FormOrgLive
    /\ GroupsChoose /\ EvalsPlaced

-----------------------------------------------------------------------------
LEMMA InitIInv == Init => IInv
BY ConstAssumption DEF Init, IInv, TypeOK, RequestOK, OneHolder, OneVerdictPerSubmission, CountStands,
   FormsExist, FormOrgLive, GroupsChoose, EvalsPlaced, Unused, NoEval, IdleReq, GroupRow, EvalRow,
   Request, Licences, Liveness, AccessLevels, PublicationStatus, Transitions

-----------------------------------------------------------------------------
(* Transitions: the checks, then the commit.                                *)

LEMMA LockStep ==
    ASSUME IInv, NEW r \in Requests, NEW u \in Users, NEW g \in Groups,
           NEW op \in Transitions, NEW target,
           LockGroup(r, u, g, op, target), grp[g].status \in Expected(op)
    PROVE  IInv'
<1>1. req' = [req EXCEPT ![r] = [op |-> op, grp |-> g, org |-> None]]
  BY DEF LockGroup
<1>2. UNCHANGED <<grp, ev, org, due, edits, origin, chosen>>
  BY DEF LockGroup
<1>3. ~GroupLocked(g)
  BY DEF LockGroup
<1>4. TypeOK'
  BY <1>1, <1>2 DEF IInv, TypeOK, Request, Transitions
<1>5. ASSUME NEW q \in Requests PROVE RequestOK(q)'
  BY <1>1, <1>2, <1>5 DEF IInv, TypeOK, RequestOK, Transitions
<1>6. OneHolder'
  BY <1>1, <1>2, <1>3 DEF IInv, TypeOK, OneHolder, GroupLocked, Transitions
<1>7. CountStands'
  BY <1>1, <1>2 DEF IInv, TypeOK, CountStands, Transitions
<1> QED
  BY <1>2, <1>4, <1>5, <1>6, <1>7
  DEF IInv, OneVerdictPerSubmission, FormsExist, FormOrgLive, LiveOrg, GroupsChoose, EvalsPlaced

LEMMA BeginStep ==
    ASSUME IInv, NEW r \in Requests, NEW u \in Users, NEW g \in Groups, Begin(r, u, g)
    PROVE  IInv'
<1>1. CASE create_evaluation_endpoint(r, u, g)
  <2>1. req' = [req EXCEPT ![r] = [op |-> "create_evaluation", grp |-> g, org |-> None]]
    BY <1>1 DEF create_evaluation_endpoint
  <2>2. UNCHANGED <<grp, ev, org, due, edits, origin, chosen>>
    BY <1>1 DEF create_evaluation_endpoint
  <2>3. TypeOK'
    BY <2>1, <2>2 DEF IInv, TypeOK, Request
  <2>4. ASSUME NEW q \in Requests PROVE RequestOK(q)'
    BY <2>1, <2>2, <2>4 DEF IInv, TypeOK, RequestOK, Transitions
  <2>5. OneHolder' /\ CountStands'
    BY <2>1, <2>2 DEF IInv, TypeOK, OneHolder, CountStands, Transitions
  <2> QED
    BY <2>2, <2>3, <2>4, <2>5
    DEF IInv, OneVerdictPerSubmission, FormsExist, FormOrgLive, LiveOrg, GroupsChoose, EvalsPlaced
<1> USE DEF Transitions, Expected, PUBLICATION_TRANSITIONS, assert_transition
<1>2. CASE submit_evaluation_group_endpoint(r, u, g)
  BY <1>2, LockStep DEF submit_evaluation_group_endpoint, LockGroup
<1>3. CASE publish_evaluation_group_endpoint(r, u, g)
  BY <1>3, LockStep DEF publish_evaluation_group_endpoint, LockGroup
<1>4. CASE finish_evaluation_group_endpoint(r, u, g)
  BY <1>4, LockStep DEF finish_evaluation_group_endpoint, LockGroup
<1>5. CASE approve_evaluation_group_endpoint(r, u, g)
  BY <1>5, LockStep DEF approve_evaluation_group_endpoint, LockGroup
<1>6. CASE request_changes_evaluation_group_endpoint(r, u, g)
  BY <1>6, LockStep DEF request_changes_evaluation_group_endpoint, LockGroup
<1>7. CASE reject_evaluation_group_endpoint(r, u, g)
  BY <1>7, LockStep DEF reject_evaluation_group_endpoint, LockGroup
<1> QED BY <1>1, <1>2, <1>3, <1>4, <1>5, <1>6, <1>7 DEF Begin

\* A commit moves the status its request holds, and frees the request.
LEMMA MoveStep ==
    ASSUME IInv, NEW r \in Requests, req[r].op \in Transitions, NEW target \in PublicationStatus,
           MoveTo(r, target),
           due' \in [Groups -> Int],
           due'[req[r].grp] = IF target = "pending_approval" THEN 1 ELSE 0,
           \A g \in Groups : g # req[r].grp => due'[g] = due[g]
    PROVE  IInv'
<1> DEFINE h == req[r].grp
<1>1. h \in Groups /\ h # None
  BY ConstAssumption DEF IInv, RequestOK
<1>2. grp' = [grp EXCEPT ![h].status = target]
  BY DEF MoveTo
<1>3. req' = [req EXCEPT ![r] = IdleReq]
  BY DEF MoveTo, Free
<1>4. UNCHANGED <<ev, org, edits, origin, chosen>>
  BY DEF MoveTo
<1>5. \A g \in Groups : /\ grp'[g].access = grp[g].access /\ grp'[g].org = grp[g].org
                        /\ grp'[g].lic = grp[g].lic
                        /\ grp'[g].status = IF g = h THEN target ELSE grp[g].status
  BY <1>2 DEF IInv, TypeOK, GroupRow
<1>6. grp' \in [Groups -> GroupRow]
  <2>1. ASSUME NEW g \in Groups PROVE grp'[g] \in GroupRow
    <3>1. grp[g] \in GroupRow
      BY DEF IInv, TypeOK
    <3>2. [grp[g] EXCEPT !.status = target] \in GroupRow
      BY <3>1 DEF GroupRow
    <3>3. grp'[g] = IF g = h THEN [grp[g] EXCEPT !.status = target] ELSE grp[g]
      BY <1>2 DEF IInv, TypeOK
    <3> QED BY <3>1, <3>2, <3>3
  <2>2. grp' = [g \in Groups |-> grp'[g]]
    BY <1>2 DEF IInv, TypeOK
  <2> QED BY <2>1, <2>2
<1>7. TypeOK'
  BY <1>3, <1>4, <1>6 DEF IInv, TypeOK, Request, IdleReq
<1>8. \A q \in Requests : q # r /\ req[q].op \in Transitions => req[q].grp # h
  BY DEF IInv, OneHolder
<1>9. ASSUME NEW q \in Requests PROVE RequestOK(q)'
  <2>1. req'[q] = IF q = r THEN IdleReq ELSE req[q]
    BY <1>3 DEF IInv, TypeOK
  <2>2. CASE q = r
    BY <2>1, <2>2 DEF RequestOK, IdleReq, Transitions
  <2>3. CASE q # r
    BY <2>1, <2>3, <1>5, <1>8 DEF IInv, RequestOK, Transitions
  <2> QED BY <2>2, <2>3
<1>10. OneHolder' /\ CountStands'
  BY <1>3, <1>4, <1>5 DEF IInv, TypeOK, OneHolder, CountStands, Transitions, IdleReq
<1>11. OneVerdictPerSubmission'
  BY <1>5 DEF IInv, OneVerdictPerSubmission
<1>12. FormsExist' /\ FormOrgLive' /\ GroupsChoose' /\ EvalsPlaced'
  BY <1>4, <1>5 DEF IInv, FormsExist, FormOrgLive, LiveOrg, GroupsChoose, EvalsPlaced, PublicationStatus
<1> QED BY <1>7, <1>9, <1>10, <1>11, <1>12 DEF IInv

\* A step that frees a request, or none, and writes neither groups nor organizations.
LEMMA EvalStep ==
    ASSUME IInv, ev' \in [Evals -> EvalRow], EvalsPlaced', edits' \in 0 .. MaxEdits,
           UNCHANGED <<grp, org, due, origin, chosen>>,
           UNCHANGED req \/ \E r \in Requests : req' = Free(r)
    PROVE  IInv'
<1>1. \A q \in Requests : req'[q] = req[q] \/ req'[q] = IdleReq
  BY DEF IInv, TypeOK, Free
<1>2. req' \in [Requests -> Request]
  BY DEF IInv, TypeOK, Free, IdleReq, Request
<1>3. TypeOK'
  BY <1>2 DEF IInv, TypeOK
<1>4. ASSUME NEW q \in Requests PROVE RequestOK(q)'
  BY <1>1, <1>4 DEF IInv, RequestOK, IdleReq, Transitions
<1>5. OneHolder' /\ CountStands'
  BY <1>1 DEF IInv, OneHolder, CountStands, IdleReq, Transitions
<1> QED
  BY <1>3, <1>4, <1>5
  DEF IInv, OneVerdictPerSubmission, FormsExist, FormOrgLive, LiveOrg, GroupsChoose

LEMMA CommitStep ==
    ASSUME IInv, NEW r \in Requests, Commit(r)
    PROVE  IInv'
<1>0. due \in [Groups -> Int] /\ OneVerdictPerSubmission /\ RequestOK(r)
  BY DEF IInv, TypeOK
<1>1. CASE submit_evaluation_group(r)
  BY <1>0, <1>1, MoveStep
  DEF submit_evaluation_group, RequestOK, OneVerdictPerSubmission, Transitions, Expected, PublicationStatus
<1>2. CASE publish_evaluation_group(r)
  BY <1>0, <1>2, MoveStep
  DEF publish_evaluation_group, RequestOK, OneVerdictPerSubmission, Transitions, Expected, PublicationStatus
<1>3. CASE finish_evaluation_group(r)
  BY <1>0, <1>3, MoveStep
  DEF finish_evaluation_group, RequestOK, OneVerdictPerSubmission, Transitions, Expected, PublicationStatus
<1>4. CASE approve_evaluation_group(r)
  BY <1>0, <1>4, MoveStep
  DEF approve_evaluation_group, Verdict, RequestOK, OneVerdictPerSubmission, Transitions, Expected, PublicationStatus
<1>5. CASE request_changes_for_evaluation_group(r)
  BY <1>0, <1>5, MoveStep
  DEF request_changes_for_evaluation_group, Verdict, RequestOK, OneVerdictPerSubmission, Transitions, Expected,
      PublicationStatus
<1>6. CASE reject_evaluation_group(r)
  BY <1>0, <1>6, MoveStep
  DEF reject_evaluation_group, Verdict, RequestOK, OneVerdictPerSubmission, Transitions, Expected, PublicationStatus
<1>7. ASSUME NEW e \in Evals, NEW p \in EvaluationCreate, create_evaluation(r, e, p)
      PROVE  IInv'
  <2>1. req[r].grp \in Groups
    BY <1>0, <1>7 DEF create_evaluation, RequestOK
  <2>2. ev' \in [Evals -> EvalRow] /\ EvalsPlaced'
    BY <1>7, <2>1 DEF create_evaluation, IInv, TypeOK, EvalRow, NoEval, EvaluationCreate, EvalsPlaced, Liveness
  <2> QED BY <1>7, <2>2, EvalStep DEF create_evaluation, IInv, TypeOK
<1>8. CASE soft_delete_organization(r)
  <2> DEFINE o == req[r].org
  <2>1. o \in Orgs /\ o # None
    BY <1>0, <1>8, ConstAssumption DEF soft_delete_organization, RequestOK
  <2>2. org' = [org EXCEPT ![o] = "dead"]
    BY <1>8 DEF soft_delete_organization
  <2>3. req' = [req EXCEPT ![r] = IdleReq]
    BY <1>8 DEF soft_delete_organization, Free
  <2>4. UNCHANGED <<grp, ev, due, edits, origin, chosen>>
    BY <1>8 DEF soft_delete_organization, OrgFrame
  <2>5. TypeOK'
    BY <2>2, <2>3, <2>4 DEF IInv, TypeOK, Request, IdleReq, Liveness
  <2>6. ASSUME NEW q \in Requests PROVE RequestOK(q)'
    BY <2>3, <2>4, <2>6 DEF IInv, TypeOK, RequestOK, IdleReq, Transitions
  <2>7. OneHolder' /\ CountStands'
    BY <2>3, <2>4 DEF IInv, TypeOK, OneHolder, CountStands, IdleReq, Transitions
  <2>8. \A g \in Groups : origin[g] = "form" => grp[g].org # o
    BY <1>8 DEF soft_delete_organization, IInv, CountStands
  <2>9. FormOrgLive'
    BY <2>2, <2>4, <2>8 DEF IInv, TypeOK, FormOrgLive, LiveOrg, GroupRow
  <2> QED
    BY <2>4, <2>5, <2>6, <2>7, <2>9
    DEF IInv, OneVerdictPerSubmission, FormsExist, GroupsChoose, EvalsPlaced
<1> QED BY <1>1, <1>2, <1>3, <1>4, <1>5, <1>6, <1>7, <1>8 DEF Commit

-----------------------------------------------------------------------------
(* Creating, copying and editing groups.                                    *)

\* One group row is written: a fresh one, or one that keeps its status.
LEMMA GroupStep ==
    ASSUME IInv, NEW g \in Groups, NEW row \in GroupRow,
           grp' = [grp EXCEPT ![g] = row], UNCHANGED <<org, req>>,
           ev' \in [Evals -> EvalRow], EvalsPlaced', edits' \in 0 .. MaxEdits,
           due' \in [Groups -> Int], chosen' \in [Groups -> BOOLEAN],
           origin' \in [Groups -> {None, "form", "draft", "copy"}],
           \A h \in Groups : h # g => due'[h] = due[h] /\ origin'[h] = origin[h] /\ chosen'[h] = chosen[h],
           grp[g].status = "none" \/ row.status = grp[g].status,
           due'[g] = IF row.status = "pending_approval" THEN 1 ELSE 0,
           row.status = "none" => origin'[g] = None,
           origin'[g] = "form" /\ row.org # None => LiveOrg(row.org) /\ ~OrgLocked(row.org),
           row.access = "invitation_only" /\ row.lic = "inherit" => chosen'[g]
    PROVE  IInv'
<1>1. \A h \in Groups : grp'[h] = IF h = g THEN row ELSE grp[h]
  BY DEF IInv, TypeOK
<1>2. TypeOK'
  BY DEF IInv, TypeOK
<1>3. ASSUME NEW q \in Requests PROVE RequestOK(q)'
  <2>1. RequestOK(q)
    BY DEF IInv
  <2>2. req[q].op \in Transitions => grp[req[q].grp].status # "none"
    BY <2>1 DEF RequestOK, Expected
  <2> QED BY <1>1, <2>1, <2>2 DEF RequestOK
<1>4. OneHolder'
  BY DEF IInv, OneHolder
<1>5. CountStands'
  <2> SUFFICES ASSUME NEW q \in Requests, NEW h \in Groups,
                      req[q].op = "delete_organization", origin'[h] = "form"
               PROVE  grp'[h].org # req[q].org
    BY DEF CountStands
  <2>1. req[q].org \in Orgs /\ req[q].org # None
    BY ConstAssumption DEF IInv, RequestOK
  <2>2. CASE h = g
    BY <1>1, <2>1, <2>2 DEF OrgLocked
  <2>3. CASE h # g
    BY <1>1, <2>3 DEF IInv, CountStands
  <2> QED BY <2>2, <2>3
<1>6. OneVerdictPerSubmission'
  BY <1>1 DEF IInv, OneVerdictPerSubmission
<1>7. FormsExist' /\ GroupsChoose'
  BY <1>1 DEF IInv, FormsExist, GroupsChoose
<1>8. FormOrgLive'
  BY <1>1 DEF IInv, FormOrgLive, LiveOrg
<1> QED BY <1>2, <1>3, <1>4, <1>5, <1>6, <1>7, <1>8 DEF IInv

\* What a new group is made of.
LEMMA NewRow ==
    ASSUME NEW access \in AccessLevels, NEW lic \in Licences \cup {None}
    PROVE  /\ resolve_new_group_license(lic, access) \in Licences
           /\ access = "invitation_only" /\ resolve_new_group_license(lic, access) = "inherit"
                => lic = "inherit"
BY DEF resolve_new_group_license, default_license_for_access, Licences

LEMMA CreateStep ==
    ASSUME IInv, NEW g \in Groups, NEW u \in Users, NEW p \in EvaluationGroupCreate,
           create_evaluation_group_endpoint(g, u, p)
    PROVE  IInv'
<1> DEFINE row == [status |-> "pending_approval", access |-> p.access, org |-> p.org, ready |-> TRUE,
                   lic |-> resolve_new_group_license(p.lic, p.access), owner |-> u]
<1>1. p.access \in AccessLevels /\ p.org \in Orgs \cup {None} /\ p.lic \in Licences \cup {None}
  BY DEF EvaluationGroupCreate
<1>2. /\ grp[g].status = "none" /\ grp' = [grp EXCEPT ![g] = row]
      /\ origin' = [origin EXCEPT ![g] = "form"]
      /\ UNCHANGED <<org, req, ev, edits>>
      /\ due' = [due EXCEPT ![g] = @ + 1]
      /\ chosen' = [chosen EXCEPT ![g] = (p.lic = "inherit")]
      /\ p.org # None => LiveOrg(p.org) /\ ~OrgLocked(p.org)
  BY DEF create_evaluation_group_endpoint, create_evaluation_group, persist_new_group, validate_group_org
<1>3. row \in GroupRow
  BY <1>1, NewRow DEF GroupRow, PublicationStatus
<1>4. /\ due' \in [Groups -> Int] /\ due'[g] = 1
      /\ \A h \in Groups : h # g => due'[h] = due[h]
  BY <1>2 DEF IInv, TypeOK, OneVerdictPerSubmission
<1>5. /\ origin' \in [Groups -> {None, "form", "draft", "copy"}]
      /\ \A h \in Groups : h # g => origin'[h] = origin[h]
  BY <1>2 DEF IInv, TypeOK
<1>6. /\ chosen' \in [Groups -> BOOLEAN] /\ chosen'[g] = (p.lic = "inherit")
      /\ \A h \in Groups : h # g => chosen'[h] = chosen[h]
  BY <1>2 DEF IInv, TypeOK
<1>7. ev' \in [Evals -> EvalRow] /\ EvalsPlaced' /\ edits' \in 0 .. MaxEdits
  BY <1>2 DEF IInv, TypeOK, EvalsPlaced
<1>8. row.access = "invitation_only" /\ row.lic = "inherit" => chosen'[g]
  BY <1>1, <1>6, NewRow
<1> HIDE DEF row
<1>9. row.status = "pending_approval" /\ row.org = p.org
  BY DEF row
<1>10. due'[g] = IF row.status = "pending_approval" THEN 1 ELSE 0
  BY <1>4, <1>9
<1>11. row.status = "none" => origin'[g] = None
  BY <1>9
<1>12. origin'[g] = "form" /\ row.org # None => LiveOrg(row.org) /\ ~OrgLocked(row.org)
  BY <1>2, <1>9
<1>13. UNCHANGED <<org, req>>
  BY <1>2
<1> QED
  BY <1>2, <1>3, <1>4, <1>5, <1>6, <1>7, <1>8, <1>10, <1>11, <1>12, <1>13, GroupStep, Zenon

LEMMA DraftStep ==
    ASSUME IInv, NEW g \in Groups, NEW u \in Users, NEW p \in EvaluationGroupDraftCreate,
           create_evaluation_group_draft_endpoint(g, u, p)
    PROVE  IInv'
<1> DEFINE row == [status |-> "draft", access |-> p.access, org |-> p.org, ready |-> p.ready,
                   lic |-> resolve_new_group_license(p.lic, p.access), owner |-> u]
<1>1. p.access \in AccessLevels /\ p.org \in Orgs \cup {None} /\ p.lic \in Licences \cup {None} /\ p.ready \in BOOLEAN
  BY DEF EvaluationGroupDraftCreate
<1>2. /\ grp[g].status = "none" /\ grp' = [grp EXCEPT ![g] = row]
      /\ origin' = [origin EXCEPT ![g] = "draft"]
      /\ UNCHANGED <<org, req, ev, edits, due>>
      /\ chosen' = [chosen EXCEPT ![g] = (p.lic = "inherit")]
  BY DEF create_evaluation_group_draft_endpoint, create_evaluation_group_draft, persist_new_group
<1>3. row \in GroupRow
  BY <1>1, NewRow DEF GroupRow, PublicationStatus
<1>4. /\ due' \in [Groups -> Int] /\ due'[g] = 0
      /\ \A h \in Groups : h # g => due'[h] = due[h]
  BY <1>2 DEF IInv, TypeOK, OneVerdictPerSubmission
<1>5. /\ origin' \in [Groups -> {None, "form", "draft", "copy"}] /\ origin'[g] = "draft"
      /\ \A h \in Groups : h # g => origin'[h] = origin[h]
  BY <1>2 DEF IInv, TypeOK
<1>6. /\ chosen' \in [Groups -> BOOLEAN] /\ chosen'[g] = (p.lic = "inherit")
      /\ \A h \in Groups : h # g => chosen'[h] = chosen[h]
  BY <1>2 DEF IInv, TypeOK
<1>7. ev' \in [Evals -> EvalRow] /\ EvalsPlaced' /\ edits' \in 0 .. MaxEdits
  BY <1>2 DEF IInv, TypeOK, EvalsPlaced
<1>8. row.access = "invitation_only" /\ row.lic = "inherit" => chosen'[g]
  BY <1>1, <1>6, NewRow
<1>9. row.status = "draft"
  OBVIOUS
<1> HIDE DEF row
<1>10. due'[g] = IF row.status = "pending_approval" THEN 1 ELSE 0
  BY <1>4, <1>9
<1>11. row.status = "none" => origin'[g] = None
  BY <1>9
<1>12. origin'[g] = "form" /\ row.org # None => LiveOrg(row.org) /\ ~OrgLocked(row.org)
  BY <1>5
<1>13. UNCHANGED <<org, req>>
  BY <1>2
<1> QED
  BY <1>2, <1>3, <1>4, <1>5, <1>6, <1>7, <1>8, <1>10, <1>11, <1>12, <1>13, GroupStep, Zenon

\* The children of a copy lie in the copy.
LEMMA Children ==
    ASSUME IInv, NEW g \in Groups, NEW h \in Groups, NEW copy
    PROVE  LET f == load_evaluation_children(g, h, copy)
           IN  f \in [Evals -> EvalRow] /\ \A e \in Evals : f[e].st # "none" => f[e].grp \in Groups
<1> DEFINE f == load_evaluation_children(g, h, copy)
<1>1. ASSUME NEW e \in Evals PROVE f[e] \in EvalRow /\ (f[e].st # "none" => f[e].grp \in Groups)
  <2>1. CASE \E s \in EvalsOf(g) : copy[s] = e
    <3>1. PICK s \in EvalsOf(g) : f[e] = [ev[s] EXCEPT !.grp = h]
      BY <2>1 DEF load_evaluation_children
    <3>2. ev[s] \in EvalRow
      BY DEF EvalsOf, IInv, TypeOK
    <3> QED BY <3>1, <3>2 DEF EvalRow
  <2>2. CASE ~\E s \in EvalsOf(g) : copy[s] = e
    <3>1. f[e] = ev[e]
      BY <2>2 DEF load_evaluation_children
    <3> QED BY <3>1 DEF IInv, TypeOK, EvalsPlaced
  <2> QED BY <2>1, <2>2
<1>2. f = [e \in Evals |-> f[e]]
  BY DEF load_evaluation_children
<1> QED BY <1>1, <1>2

LEMMA DuplicateStep ==
    ASSUME IInv, NEW g \in Groups, NEW h \in Groups, NEW u \in Users,
           duplicate_evaluation_group_endpoint(g, h, u)
    PROVE  IInv'
<1> DEFINE row == [grp[g] EXCEPT !.status = "draft", !.owner = u,
                                 !.org = IF LiveOrg(grp[g].org) THEN grp[g].org ELSE None]
<1>1. /\ grp[h].status = "none" /\ grp' = [grp EXCEPT ![h] = row]
      /\ origin' = [origin EXCEPT ![h] = "copy"]
      /\ UNCHANGED <<org, req, due>>
      /\ edits < MaxEdits /\ edits' = edits + 1
      /\ chosen' = [chosen EXCEPT ![h] = chosen[g]]
  BY DEF duplicate_evaluation_group_endpoint, duplicate_evaluation_group, persist_new_group
<1>2. grp[g] \in GroupRow
  BY DEF IInv, TypeOK
<1>3. row \in GroupRow
  BY <1>2 DEF GroupRow, PublicationStatus
<1>4. row.status = "draft" /\ row.access = grp[g].access /\ row.lic = grp[g].lic
  BY <1>2 DEF GroupRow
<1>5. /\ due' \in [Groups -> Int] /\ due'[h] = 0
      /\ \A k \in Groups : k # h => due'[k] = due[k]
  BY <1>1 DEF IInv, TypeOK, OneVerdictPerSubmission
<1>6. /\ origin' \in [Groups -> {None, "form", "draft", "copy"}] /\ origin'[h] = "copy"
      /\ \A k \in Groups : k # h => origin'[k] = origin[k]
  BY <1>1 DEF IInv, TypeOK
<1>7. /\ chosen' \in [Groups -> BOOLEAN] /\ chosen'[h] = chosen[g]
      /\ \A k \in Groups : k # h => chosen'[k] = chosen[k]
  BY <1>1 DEF IInv, TypeOK
<1>8. edits' \in 0 .. MaxEdits
  BY <1>1, ConstAssumption DEF IInv, TypeOK
<1>9. ev' \in [Evals -> EvalRow] /\ EvalsPlaced'
  <2>1. CASE ev' = ev
    BY <2>1 DEF IInv, TypeOK, EvalsPlaced
  <2>2. CASE \E copy \in CopyOf(g) : ev' = load_evaluation_children(g, h, copy)
    BY <2>2, Children DEF EvalsPlaced
  <2> QED BY <2>1, <2>2 DEF duplicate_evaluation_group_endpoint
<1> HIDE DEF row
<1>10. row.access = "invitation_only" /\ row.lic = "inherit" => chosen'[h]
  BY <1>4, <1>7 DEF IInv, GroupsChoose
<1>11. due'[h] = IF row.status = "pending_approval" THEN 1 ELSE 0
  BY <1>4, <1>5
<1>12. row.status = "none" => origin'[h] = None
  BY <1>4
<1>13. origin'[h] = "form" /\ row.org # None => LiveOrg(row.org) /\ ~OrgLocked(row.org)
  BY <1>6
<1>14. UNCHANGED <<org, req>>
  BY <1>1
<1> QED
  BY <1>1, <1>3, <1>5, <1>6, <1>7, <1>8, <1>9, <1>10, <1>11, <1>12, <1>13, <1>14, GroupStep, Zenon

\* A PATCH keeps the row's status, and an access change re-derives a licence it lacks.
LEMMA MergedRow ==
    ASSUME NEW row \in GroupRow, NEW c \in EvaluationGroupUpdate
    PROVE  /\ Merged(row, c) \in GroupRow
           /\ Merged(row, c).status = row.status
           /\ Merged(row, c).access # row.access /\ Merged(row, c).lic = "inherit" =>
                 Merged(row, c).access # "invitation_only"
           /\ c.field = "lic" => Merged(row, c).lic = c.value
           /\ c.field # "lic" /\ Merged(row, c).access = row.access => Merged(row, c).lic = row.lic
<1> USE DEF Merged, EvaluationGroupUpdate, GroupRow, default_license_for_access, Licences, AccessLevels
<1>1. CASE c.field = "access"
  BY <1>1
<1>2. CASE c.field = "org"
  BY <1>2
<1>3. CASE c.field = "ready"
  BY <1>3
<1>4. CASE c.field = "lic"
  BY <1>4
<1> QED BY <1>1, <1>2, <1>3, <1>4

LEMMA UpdateStep ==
    ASSUME IInv, NEW u \in Users, NEW g \in Groups, NEW c \in EvaluationGroupUpdate,
           update_evaluation_group_endpoint(u, g, c)
    PROVE  IInv'
<1> DEFINE row == Merged(grp[g], c)
<1>1. /\ grp' = [grp EXCEPT ![g] = row]
      /\ UNCHANGED <<ev, org, req, due, origin>>
      /\ edits < MaxEdits /\ edits' = edits + 1
      /\ chosen' = [chosen EXCEPT ![g] = IF c.field = "lic" THEN c.value = "inherit"
                                         ELSE @ /\ grp'[g].access = grp[g].access]
      /\ row.org # None => LiveOrg(row.org) /\ ~OrgLocked(row.org)
      /\ Exists(g)
  BY DEF update_evaluation_group_endpoint, update_evaluation_group, validate_group_org, assert_group_write_access
<1>2. grp[g] \in GroupRow
  BY DEF IInv, TypeOK
<1>3. row \in GroupRow /\ row.status = grp[g].status
  BY <1>2, MergedRow
<1>4. grp'[g] = row
  BY <1>1 DEF IInv, TypeOK
<1>5. row.access = "invitation_only" /\ row.lic = "inherit" =>
        IF c.field = "lic" THEN c.value = "inherit" ELSE row.access = grp[g].access /\ row.lic = grp[g].lic
  BY <1>2, MergedRow
<1> HIDE DEF row
<1>6. chosen' \in [Groups -> BOOLEAN] /\ \A k \in Groups : k # g => chosen'[k] = chosen[k]
  BY <1>1 DEF IInv, TypeOK
<1>7. row.access = "invitation_only" /\ row.lic = "inherit" => chosen'[g]
  <2> HAVE row.access = "invitation_only" /\ row.lic = "inherit"
  <2>1. CASE c.field = "lic"
    <3>1. chosen'[g] = (c.value = "inherit")
      BY <1>1, <2>1 DEF IInv, TypeOK
    <3> QED BY <1>5, <2>1, <3>1
  <2>2. CASE c.field # "lic"
    <3>1. chosen'[g] = (chosen[g] /\ grp'[g].access = grp[g].access)
      BY <1>1, <2>2 DEF IInv, TypeOK
    <3>2. grp'[g].access = grp[g].access /\ grp[g].lic = "inherit" /\ grp[g].access = "invitation_only"
      BY <1>4, <1>5, <2>2
    <3>3. chosen[g]
      BY <3>2 DEF IInv, GroupsChoose
    <3> QED BY <3>1, <3>2, <3>3
  <2> QED BY <2>1, <2>2
<1>8. edits' \in 0 .. MaxEdits
  BY <1>1, ConstAssumption DEF IInv, TypeOK
<1>9. /\ ev' \in [Evals -> EvalRow] /\ EvalsPlaced' /\ due' \in [Groups -> Int]
      /\ origin' \in [Groups -> {None, "form", "draft", "copy"}]
      /\ \A k \in Groups : k # g => due'[k] = due[k] /\ origin'[k] = origin[k] /\ chosen'[k] = chosen[k]
  BY <1>1, <1>6 DEF IInv, TypeOK, EvalsPlaced
<1>10. due'[g] = IF row.status = "pending_approval" THEN 1 ELSE 0
  BY <1>1, <1>3 DEF IInv, OneVerdictPerSubmission
<1>11. row.status = "none" => origin'[g] = None
  BY <1>1, <1>3 DEF Exists
<1>12. UNCHANGED <<org, req>>
  BY <1>1
<1> QED BY <1>1, <1>3, <1>6, <1>7, <1>8, <1>9, <1>10, <1>11, <1>12, GroupStep, Zenon

LEMMA NotReadyStep ==
    ASSUME IInv, NEW g \in Groups, NotReady(g)
    PROVE  IInv'
<1> DEFINE row == [grp[g] EXCEPT !.ready = FALSE]
<1>1. grp' = [grp EXCEPT ![g] = row] /\ UNCHANGED <<ev, org, req, due, edits, origin, chosen>>
  BY DEF NotReady
<1>2. grp[g] \in GroupRow
  BY DEF IInv, TypeOK
<1>3. /\ row \in GroupRow /\ row.status = grp[g].status /\ row.access = grp[g].access
      /\ row.org = grp[g].org /\ row.lic = grp[g].lic
  BY <1>2 DEF GroupRow
<1> HIDE DEF row
<1>4. /\ ev' \in [Evals -> EvalRow] /\ EvalsPlaced' /\ due' \in [Groups -> Int] /\ edits' \in 0 .. MaxEdits
      /\ origin' \in [Groups -> {None, "form", "draft", "copy"}] /\ chosen' \in [Groups -> BOOLEAN]
      /\ \A k \in Groups : k # g => due'[k] = due[k] /\ origin'[k] = origin[k] /\ chosen'[k] = chosen[k]
  BY <1>1 DEF IInv, TypeOK, EvalsPlaced
<1>5. due'[g] = IF row.status = "pending_approval" THEN 1 ELSE 0
  BY <1>1, <1>3 DEF IInv, OneVerdictPerSubmission
<1>6. row.status = "none" => origin'[g] = None
  BY <1>1, <1>3 DEF IInv, FormsExist
<1>7. origin'[g] = "form" /\ row.org # None => LiveOrg(row.org) /\ ~OrgLocked(row.org)
  BY <1>1, <1>3 DEF IInv, FormOrgLive, CountStands, OrgLocked
<1>8. row.access = "invitation_only" /\ row.lic = "inherit" => chosen'[g]
  BY <1>1, <1>3 DEF IInv, GroupsChoose
<1>9. UNCHANGED <<org, req>>
  BY <1>1
<1> QED BY <1>1, <1>3, <1>4, <1>5, <1>6, <1>7, <1>8, <1>9, GroupStep, Zenon

-----------------------------------------------------------------------------
(* Evaluations and organizations.                                           *)

LEMMA EditEvaluationStep ==
    ASSUME IInv, NEW u \in Users, NEW e \in Evals, EditEvaluation(u, e)
    PROVE  IInv'
<1>0. ev \in [Evals -> EvalRow] /\ EvalsPlaced /\ edits \in 0 .. MaxEdits /\ ev[e] \in EvalRow
  BY DEF IInv, TypeOK
<1>1. edits' \in 0 .. MaxEdits
  BY <1>0, ConstAssumption
  DEF EditEvaluation, duplicate_evaluation_endpoint, update_evaluation_endpoint, delete_evaluation_endpoint,
      restore_evaluation_endpoint, SetPlayable, OnlyEval
<1>2. UNCHANGED <<grp, org, req, due, origin, chosen>>
  BY DEF EditEvaluation, duplicate_evaluation_endpoint, update_evaluation_endpoint, delete_evaluation_endpoint,
         restore_evaluation_endpoint, SetPlayable, OnlyEval
<1>3. ev' \in [Evals -> EvalRow] /\ EvalsPlaced'
  <2>1. ASSUME NEW f \in Evals, NEW children \in BOOLEAN, duplicate_evaluation_endpoint(u, e, f, children)
        PROVE  ev' \in [Evals -> EvalRow] /\ EvalsPlaced'
    <3>1. ev[e].st = "live" /\ ev' = [ev EXCEPT ![f] = [ev[e] EXCEPT !.playable = children /\ @]]
      BY <2>1 DEF duplicate_evaluation_endpoint, duplicate_evaluation
    <3>2. [ev[e] EXCEPT !.playable = children /\ @] \in EvalRow
      BY <1>0, <2>1 DEF EvalRow
    <3>3. [ev[e] EXCEPT !.playable = children /\ @].grp = ev[e].grp
      BY <1>0 DEF EvalRow
    <3> QED BY <1>0, <3>1, <3>2, <3>3 DEF EvalsPlaced
  <2>2. ASSUME NEW p \in EvaluationUpdate, update_evaluation_endpoint(u, e, p)
        PROVE  ev' \in [Evals -> EvalRow] /\ EvalsPlaced'
    BY <1>0, <2>2 DEF update_evaluation_endpoint, update_evaluation, EvaluationUpdate, EvalRow, EvalsPlaced
  <2>3. CASE delete_evaluation_endpoint(u, e)
    BY <1>0, <2>3 DEF delete_evaluation_endpoint, soft_delete_evaluation, EvalRow, Liveness, EvalsPlaced
  <2>4. CASE restore_evaluation_endpoint(u, e)
    BY <1>0, <2>4 DEF restore_evaluation_endpoint, restore_evaluation, get_restorable_evaluation, EvalRow, Liveness,
       EvalsPlaced
  <2>5. ASSUME NEW p \in BOOLEAN, SetPlayable(u, e, p)
        PROVE  ev' \in [Evals -> EvalRow] /\ EvalsPlaced'
    BY <1>0, <2>5 DEF SetPlayable, EvalRow, EvalsPlaced
  <2> QED BY <2>1, <2>2, <2>3, <2>4, <2>5 DEF EditEvaluation
<1> QED BY <1>1, <1>2, <1>3, EvalStep

LEMMA ManageOrgStep ==
    ASSUME IInv, NEW o \in Orgs, ManageOrg(o)
    PROVE  IInv'
<1>1. ASSUME org' = [org EXCEPT ![o] = "live"], UNCHANGED <<grp, ev, due, edits, origin, chosen, req>>
      PROVE  IInv'
  <2>1. TypeOK'
    BY <1>1 DEF IInv, TypeOK, Liveness
  <2>2. \A q \in Requests : RequestOK(q)'
    BY <1>1 DEF IInv, RequestOK
  <2>3. FormOrgLive'
    BY <1>1 DEF IInv, TypeOK, FormOrgLive, LiveOrg
  <2> QED
    BY <1>1, <2>1, <2>2, <2>3
    DEF IInv, OneHolder, CountStands, OneVerdictPerSubmission, FormsExist, GroupsChoose, EvalsPlaced
<1>2. CASE create_organization_endpoint(o)
  BY <1>1, <1>2 DEF create_organization_endpoint, create_organization, OrgFrame
<1>3. CASE restore_organization_endpoint(o)
  BY <1>1, <1>3 DEF restore_organization_endpoint, restore_organization, OrgFrame
<1>4. ASSUME NEW r \in Requests, NEW u \in Users, delete_organization_endpoint(r, u, o)
      PROVE  IInv'
  <2>1. /\ req' = [req EXCEPT ![r] = [op |-> "delete_organization", grp |-> None, org |-> o]]
        /\ UNCHANGED <<grp, ev, org, due, edits, origin, chosen>>
        /\ \A g \in Groups : Exists(g) => grp[g].org # o
    BY <1>4 DEF delete_organization_endpoint, OrgFrame
  <2>2. TypeOK'
    BY <2>1 DEF IInv, TypeOK, Request
  <2>3. ASSUME NEW q \in Requests PROVE RequestOK(q)'
    BY <2>1, <2>3 DEF IInv, TypeOK, RequestOK, Transitions
  <2>4. OneHolder'
    BY <2>1 DEF IInv, TypeOK, OneHolder, Transitions
  <2>5. \A g \in Groups : origin[g] = "form" => grp[g].org # o
    BY <2>1, ConstAssumption DEF IInv, FormsExist, Exists
  <2>6. CountStands'
    BY <2>1, <2>5 DEF IInv, TypeOK, CountStands
  <2> QED
    BY <2>1, <2>2, <2>3, <2>4, <2>6
    DEF IInv, OneVerdictPerSubmission, FormsExist, FormOrgLive, LiveOrg, GroupsChoose, EvalsPlaced
<1> QED BY <1>2, <1>3, <1>4 DEF ManageOrg

-----------------------------------------------------------------------------
LEMMA NextIInv == IInv /\ [Next]_vars => IInv'
<1> SUFFICES ASSUME IInv, [Next]_vars PROVE IInv'
  OBVIOUS
<1>1. ASSUME NEW u \in Users, NEW g \in Groups, Edit(u, g) PROVE IInv'
  BY <1>1, CreateStep, DraftStep, DuplicateStep, UpdateStep DEF Edit
<1>2. ASSUME NEW g \in Groups, unassign_group_models_for_model(g) \/ DayPasses(g) PROVE IInv'
  BY <1>2, NotReadyStep DEF unassign_group_models_for_model, DayPasses
<1>3. CASE UNCHANGED vars
  <2>1. \A q \in Requests : RequestOK(q)'
    BY <1>3 DEF vars, IInv, RequestOK
  <2> QED
    BY <1>3, <2>1 DEF vars, IInv, TypeOK, OneHolder, CountStands, OneVerdictPerSubmission, FormsExist, FormOrgLive,
       LiveOrg, GroupsChoose, EvalsPlaced
<1> QED
  BY <1>1, <1>2, <1>3, BeginStep, CommitStep, EditEvaluationStep, ManageOrgStep DEF Next

LEMMA Invariant == Spec => []IInv
BY InitIInv, NextIInv, PTL DEF Spec

\* The ranges of the rows, requests and history values (TypeOK).
THEOREM TypeCorrect == Spec => []TypeOK
<1>1. IInv => TypeOK
  BY DEF IInv
<1> QED BY <1>1, Invariant, PTL

\* However many reviewers act on a submission, at once or in turn, it gets one verdict,
\* and a group is pending exactly while one is owed (publication.py's FOR UPDATE reads).
THEOREM OneVerdict == Spec => []OneVerdictPerSubmission
<1>1. IInv => OneVerdictPerSubmission
  BY DEF IInv
<1> QED BY <1>1, Invariant, PTL

\* A group made by the form never names a deleted organization, however its creation and
\* its edits overlap deletes of organizations (_validate_group_org, soft_delete_organization).
THEOREM FormsNameLiveOrgs == Spec => []FormOrgLive
<1>1. IInv => FormOrgLive
  BY DEF IInv
<1> QED BY <1>1, Invariant, PTL

\* Data of a live evaluation of an invitation-only group falls under the platform licence only
\* when somebody asked for that (resolve_new_group_license, update_evaluation_group, resolve_effective_license).
THEOREM InheritanceIsChosen == Spec => []NoSilentInheritance
<1>1. ASSUME NEW e \in Evals, IInv, ev[e].st = "live"
      PROVE  resolve_effective_license(e) = "platform"
                => ev[e].lic = "inherit" /\ grp[ev[e].grp].lic = "inherit"
  <2>1. ev[e].lic = "own" => resolve_effective_license(e) # "platform"
    BY <1>1, Zenon DEF resolve_effective_license
  <2>2. ev[e].lic = "inherit" /\ grp[ev[e].grp].lic = "own" => resolve_effective_license(e) # "platform"
    BY <1>1, Zenon DEF resolve_effective_license
  <2>3. ev[e].lic \in {"inherit", "own"} /\ grp[ev[e].grp].lic \in {"inherit", "own"}
    BY <1>1 DEF IInv, TypeOK, EvalsPlaced, EvalRow, GroupRow, Licences
  <2> QED BY <2>1, <2>2, <2>3
<1>2. IInv => NoSilentInheritance
  BY <1>1 DEF IInv, EvalsPlaced, GroupsChoose, NoSilentInheritance
<1> QED BY <1>2, Invariant, PTL

-----------------------------------------------------------------------------
(* The scenarios of an evaluation                                           *)

\* Every nonempty set of numbers has a least member.
LEMMA LeastNumber ==
    ASSUME NEW S \in SUBSET Nat, S # {}
    PROVE  \E n \in S : \A m \in S : n <= m
<1> DEFINE R == {p \in Nat \X Nat : p[1] < p[2]}
<1>1. IsWellFoundedOn(R, Nat)
  BY NatLessThanWellFounded, Zenon DEF OpToRel
<1>2. \A m, n \in Nat : m < n => <<m, n>> \in R
  OBVIOUS
<1> HIDE DEF R
<1>3. PICK n \in S : \A m \in S : ~(<<m, n>> \in R)
  BY <1>1, WFMin
<1>4. ASSUME NEW m \in S PROVE n <= m
  <2>1. m \in Nat /\ n \in Nat /\ ~(m < n)
    BY <1>2, <1>3
  <2> QED BY <2>1
<1> QED BY <1>4

\* A finite, nonempty set of numbers has a greatest member: otherwise take one of least cardinality.
LEMMA GreatestNumber ==
    ASSUME NEW S \in SUBSET Nat, IsFiniteSet(S), S # {}
    PROVE  \E n \in S : \A m \in S : m <= n
<1> DEFINE Unbounded(U) == U # {} /\ IsFiniteSet(U) /\ ~\E n \in U : \A m \in U : m <= n
           Sizes == {k \in Nat : \E U \in SUBSET Nat : Unbounded(U) /\ Cardinality(U) = k}
<1> SUFFICES ASSUME Unbounded(S) PROVE FALSE
  OBVIOUS
<1>1. Cardinality(S) \in Nat
  BY FS_CardinalityType
<1>2. Sizes \in SUBSET Nat /\ Sizes # {}
  BY <1>1
<1>3. PICK k \in Sizes : \A j \in Sizes : k <= j
  <2> HIDE DEF Sizes
  <2> QED BY <1>2, LeastNumber
<1>4. PICK U \in SUBSET Nat : Unbounded(U) /\ Cardinality(U) = k
  OBVIOUS
<1>5. PICK x \in U : TRUE
  BY <1>4
<1> DEFINE V == U \ {x}
<1>6. IsFiniteSet(V) /\ Cardinality(V) = k - 1 /\ k \in Nat
  BY <1>4, FS_RemoveElement
<1>7. Cardinality(V) \in Nat /\ V \in SUBSET Nat
  BY <1>6, FS_CardinalityType
<1>8. ~Unbounded(V)
  <2> SUFFICES ASSUME Unbounded(V) PROVE FALSE
    OBVIOUS
  <2>1. k - 1 \in Sizes
    BY <1>6, <1>7
  <2> QED BY <1>3, <1>6, <2>1
<1>9. CASE V = {}
  <2>1. \A m \in U : m = x
    BY <1>9
  <2>2. x \in Nat
    OBVIOUS
  <2> QED BY <1>4, <2>1, <2>2
<1>10. CASE V # {}
  <2>1. PICK n \in V : \A m \in V : m <= n
    BY <1>6, <1>8, <1>10
  <2>2. n \in U /\ n \in Nat /\ x \in Nat /\ \A m \in U : m \in Nat /\ (m = x \/ m \in V)
    OBVIOUS
  <2>3. CASE x <= n
    <3>1. \A m \in U : m <= n
      BY <2>1, <2>2, <2>3
    <3> QED BY <1>4, <2>2, <3>1
  <2>4. CASE n <= x
    <3>1. \A m \in U : m <= x
      BY <2>1, <2>2, <2>4
    <3> QED BY <1>4, <3>1
  <2> QED BY <2>2, <2>3, <2>4
<1> QED BY <1>9, <1>10

\* Max is that member.
LEMMA MaxIs ==
    ASSUME NEW S \in SUBSET Nat, IsFiniteSet(S), S # {}
    PROVE  Max(S) \in S /\ \A m \in S : m <= Max(S)
<1>1. PICK n \in S : \A m \in S : n >= m
  BY GreatestNumber
<1>2. Max(S) \in S /\ \A m \in S : Max(S) >= m
  BY <1>1, Zenon DEF Max
<1> HIDE DEF Max
<1> QED BY <1>2

\* Rows that hold distinct positions below p are at most p.
LEMMA DistinctCount ==
    ASSUME NEW rows, IsFiniteSet(rows), NEW p \in Nat, NEW pos \in [rows -> Nat],
           \A s \in rows : pos[s] < p,
           \A s, t \in rows : s # t => pos[s] # pos[t]
    PROVE  Cardinality(rows) \in Nat /\ Cardinality(rows) <= p
<1>1. pos \in [rows -> 0 .. p - 1]
  OBVIOUS
<1>2. pos \in Injection(rows, 0 .. p - 1)
  BY <1>1 DEF Injection, IsInjective
<1>3. IsFiniteSet(0 .. p - 1) /\ Cardinality(0 .. p - 1) = p
  BY FS_Interval
<1>4. Cardinality(rows) <= p
  BY <1>2, <1>3, FS_Injection
<1> QED BY <1>4, FS_CardinalityType

-----------------------------------------------------------------------------
\* At most one create or restore is between its reads and its commit.
Appending(r) == scenarioReq[r].op \in {"create", "restore"}
OneAppender == \A r, q \in Requests : Appending(r) /\ Appending(q) => r = q

\* Its position is still above every live one.
AboveAll(r) == Appending(r) => \A t \in Live : sc[t].position < scenarioReq[r].position

\* A reorder nothing overtook: a live scenario it did not see was appended after all it saw.
Behind(r) ==
    scenarioReq[r].op = "reorder" /\ ~scenarioReq[r].overtaken =>
        \A s \in Live \ scenarioReq[r].seen, t \in Live \cap scenarioReq[r].seen : sc[t].position < sc[s].position

\* A reorder has seen rows that exist; a restore is of a row, a new key of a key.
ScenarioCarries(r) == /\ \A s \in scenarioReq[r].seen : sc[s].st # "none"
                      /\ scenarioReq[r].op = "restore" => scenarioReq[r].scenario \in ScenarioIds
                      /\ scenarioReq[r].op = "add_key" => scenarioReq[r].key \in Keys

OrderInv ==
    /\ ScenariosTypeOK
    /\ OneAppender
    /\ \A r \in Requests : ScenarioCarries(r)
    /\ PositionsDistinct
    /\ straddled \/ \A r \in Requests : AboveAll(r) /\ Behind(r)

\* No scenario, no request.
LEMMA ScenariosStart == ScenariosInit => OrderInv
<1> SUFFICES ASSUME ScenariosInit PROVE OrderInv
  OBVIOUS
<1>0. sc \in [ScenarioIds -> Scenario] /\ scenarioReq \in [Requests -> ScenarioRequest]
  BY DEF ScenariosInit, Scenario, ScenarioRequest, IdleScenarioReq
<1>1. ScenariosTypeOK
  <2>1. alive \in BOOLEAN /\ straddled \in BOOLEAN /\ keys \subseteq Keys
    BY Zenon DEF ScenariosInit
  <2> QED BY <1>0, <2>1 DEF ScenariosTypeOK
<1>2. Live = {} /\ \A r \in Requests : scenarioReq[r].op = "idle" /\ scenarioReq[r].seen = {}
  BY DEF ScenariosInit, Live, IdleScenarioReq
<1> QED BY <1>1, <1>2 DEF OrderInv, OneAppender, Appending, ScenarioCarries, PositionsDistinct, AboveAll, Behind

\* Request r moves to s, the scenarios stay.
LEMMA ScenarioRequestMoves ==
    ASSUME OrderInv, NEW r \in Requests, NEW s \in ScenarioRequest, scenarioReq' = [scenarioReq EXCEPT ![r] = s],
           UNCHANGED <<sc, straddled>>, alive' \in BOOLEAN, keys' \subseteq Keys,
           s.op \in {"create", "restore"} =>
             ~EvaluationLocked /\ \A t \in Live : sc[t].position < s.position,
           s.op = "reorder" => Live \subseteq s.seen,
           s.op = "restore" => s.scenario \in ScenarioIds,
           s.op = "add_key" => s.key \in Keys,
           \A x \in s.seen : sc[x].st # "none"
    PROVE  OrderInv'
<1>1. scenarioReq'[r] = s /\ (\A q \in Requests : q # r => scenarioReq'[q] = scenarioReq[q]) /\ Live' = Live
  BY DEF OrderInv, ScenariosTypeOK, Live
<1>2. ScenariosTypeOK'
  BY DEF OrderInv, ScenariosTypeOK
<1>3. OneAppender'
  BY <1>1 DEF OrderInv, OneAppender, Appending, EvaluationLocked
<1>4. \A q \in Requests : ScenarioCarries(q)'
  BY <1>1 DEF OrderInv, ScenarioCarries
<1>5. PositionsDistinct'
  BY <1>1 DEF OrderInv, PositionsDistinct
<1>6. ASSUME ~straddled, NEW q \in Requests PROVE AboveAll(q)' /\ Behind(q)'
  <2>1. CASE q = r
    BY <1>1, <2>1 DEF AboveAll, Behind, Appending
  <2>2. CASE q # r
    <3>1. scenarioReq'[q] = scenarioReq[q] /\ AboveAll(q) /\ Behind(q)
      BY <1>1, <1>6, <2>2 DEF OrderInv
    <3> QED BY <1>1, <3>1 DEF AboveAll, Behind, Appending
  <2> QED BY <2>1, <2>2
<1> QED BY <1>2, <1>3, <1>4, <1>5, <1>6 DEF OrderInv

\* next_position is above every live position.
LEMMA NextPosition ==
    ASSUME ScenariosTypeOK
    PROVE  next_position \in Nat /\ \A t \in Live : sc[t].position < next_position
<1> DEFINE S == {sc[s].position : s \in Live}
<1>1. Live \in SUBSET ScenarioIds /\ \A s \in Live : sc[s].position \in Nat
  BY DEF Live, ScenariosTypeOK, Scenario
<1>2. CASE Live = {}
  BY <1>2 DEF next_position
<1>3. CASE Live # {}
  <2>1. S \in SUBSET Nat /\ S # {}
    BY <1>1, <1>3
  <2>2. IsFiniteSet(Live)
    BY <1>1, FS_Subset, ScenariosAssumption
  <2>3. IsFiniteSet(S)
    <3> DEFINE f == [s \in Live |-> sc[s].position]
    <3>1. f \in Surjection(Live, S)
      BY DEF Surjection
    <3> HIDE DEF S, f
    <3> QED BY <2>2, <3>1, FS_Surjection
  <2>4. next_position = Max(S) + 1
    BY <1>3 DEF next_position
  <2> HIDE DEF S
  <2>5. Max(S) \in S /\ \A m \in S : m <= Max(S)
    BY <2>1, <2>3, MaxIs
  <2>6. Max(S) \in Nat
    BY <2>1, <2>5
  <2>7. \A t \in Live : sc[t].position \in S
    BY DEF S
  <2> QED BY <1>1, <2>4, <2>5, <2>6, <2>7
<1> QED BY <1>2, <1>3

\* A request that ended.
LEMMA ScenarioRequestIdle == IdleScenarioReq \in ScenarioRequest /\ IdleScenarioReq.op = "idle" /\ IdleScenarioReq.seen = {}
BY DEF IdleScenarioReq, ScenarioRequest

\* Reads of a request, a rollback, and the tag keys.
LEMMA ScenarioReadsKeep ==
    ASSUME OrderInv, NEW r \in Requests,
           \/ create_scenario_endpoint(r)
           \/ \E u \in Users, s \in ScenarioIds : restore_scenario_endpoint(r, u, s)
           \/ reorder_scenarios_endpoint(r)
           \/ \E k \in Keys : add_tag_key_endpoint(r, k)
           \/ add_tag_key(r) \/ Rollback(r)
    PROVE  OrderInv'
<1>0. ScenariosTypeOK /\ alive \in BOOLEAN /\ keys \subseteq Keys /\ scenarioReq[r] \in ScenarioRequest
  BY DEF OrderInv, ScenariosTypeOK
<1>1. CASE create_scenario_endpoint(r)
  <2>1. PICK p \in Nat : p = next_position
    BY <1>0, NextPosition
  <2> DEFINE s == [IdleScenarioReq EXCEPT !.op = "create", !.position = p]
  <2>2. s \in ScenarioRequest /\ s.op = "create" /\ s.position = p /\ s.seen = {}
    BY DEF IdleScenarioReq, ScenarioRequest
  <2>3. scenarioReq' = [scenarioReq EXCEPT ![r] = s] /\ UNCHANGED <<alive, sc, keys, straddled>> /\ ~EvaluationLocked
    BY <1>1, <2>1 DEF create_scenario_endpoint, Start
  <2>4. \A t \in Live : sc[t].position < p
    BY <1>0, <2>1, NextPosition
  <2> HIDE DEF s
  <2> QED BY <1>0, <2>2, <2>3, <2>4, ScenarioRequestMoves
<1>2. ASSUME NEW u \in Users, NEW x \in ScenarioIds, restore_scenario_endpoint(r, u, x) PROVE OrderInv'
  <2>1. PICK p \in Nat : p = next_position
    BY <1>0, NextPosition
  <2> DEFINE s == [IdleScenarioReq EXCEPT !.op = "restore", !.scenario = x, !.position = p]
  <2>2. s \in ScenarioRequest /\ s.op = "restore" /\ s.position = p /\ s.seen = {} /\ s.scenario = x
    BY DEF IdleScenarioReq, ScenarioRequest
  <2>3. scenarioReq' = [scenarioReq EXCEPT ![r] = s] /\ UNCHANGED <<alive, sc, keys, straddled>> /\ ~EvaluationLocked
    BY <1>2, <2>1 DEF restore_scenario_endpoint, Start
  <2>4. \A t \in Live : sc[t].position < p
    BY <1>0, <2>1, NextPosition
  <2> HIDE DEF s
  <2> QED BY <1>0, <2>2, <2>3, <2>4, ScenarioRequestMoves
<1>3. CASE reorder_scenarios_endpoint(r)
  <2>1. PICK L \in SUBSET ScenarioIds : L = Live
    BY DEF Live
  <2> DEFINE s == [IdleScenarioReq EXCEPT !.op = "reorder", !.seen = L]
  <2>2. s \in ScenarioRequest /\ s.op = "reorder" /\ s.seen = L
    BY DEF IdleScenarioReq, ScenarioRequest
  <2>3. scenarioReq' = [scenarioReq EXCEPT ![r] = s] /\ UNCHANGED <<alive, sc, keys, straddled>>
    BY <1>3, <2>1, Zenon DEF reorder_scenarios_endpoint, Start
  <2> HIDE DEF s
  <2>4. \A x \in s.seen : sc[x].st # "none"
    BY <2>1, <2>2 DEF Live
  <2> QED BY <1>0, <2>1, <2>2, <2>3, <2>4, ScenarioRequestMoves
<1>4. ASSUME NEW k \in Keys, add_tag_key_endpoint(r, k) PROVE OrderInv'
  <2> DEFINE s == [IdleScenarioReq EXCEPT !.op = "add_key", !.key = k]
  <2>2. s \in ScenarioRequest /\ s.op = "add_key" /\ s.seen = {} /\ s.key = k
    BY DEF IdleScenarioReq, ScenarioRequest
  <2>3. scenarioReq' = [scenarioReq EXCEPT ![r] = s] /\ UNCHANGED <<alive, sc, keys, straddled>>
    BY <1>4 DEF add_tag_key_endpoint, Start
  <2> HIDE DEF s
  <2> QED BY <1>0, <2>2, <2>3, ScenarioRequestMoves
<1>5. CASE Rollback(r)
  BY <1>0, <1>5, ScenarioRequestIdle, ScenarioRequestMoves DEF Rollback, FreeScenario
<1>6. CASE add_tag_key(r)
  <2>1. keys' \subseteq Keys
    BY <1>0, <1>6 DEF OrderInv, ScenarioCarries, add_tag_key
  <2>2. scenarioReq' = [scenarioReq EXCEPT ![r] = IdleScenarioReq] /\ UNCHANGED <<alive, sc, straddled>>
    BY <1>6 DEF add_tag_key, FreeScenario
  <2> QED BY <1>0, <2>1, <2>2, ScenarioRequestIdle, ScenarioRequestMoves
<1> QED BY <1>1, <1>2, <1>3, <1>4, <1>5, <1>6

\* A step of no request: a scenario is deleted, a key removed, the evaluation deleted or restored.
LEMMA ScenarioOthersKeep ==
    ASSUME OrderInv,
           \/ \E u \in Users, s \in ScenarioIds : delete_scenario_endpoint(u, s)
           \/ \E k \in Keys : remove_tag_key_endpoint(k)
           \/ ToggleEvaluation
           \/ UNCHANGED scenariosVars
    PROVE  OrderInv'
<1>0. ScenariosTypeOK
  BY DEF OrderInv
<1>1. ASSUME sc' \in [ScenarioIds -> Scenario], UNCHANGED <<scenarioReq, straddled>>, alive' \in BOOLEAN, keys' \subseteq Keys,
             \A s \in ScenarioIds : sc'[s] = sc[s] \/ sc'[s].st = "dead"
      PROVE  OrderInv'
  <2>1. ScenariosTypeOK'
    BY <1>0, <1>1 DEF ScenariosTypeOK
  <2>2. Live' \subseteq Live /\ \A s \in Live' : sc'[s] = sc[s]
    BY <1>1 DEF Live
  <2>3. OneAppender' /\ \A r \in Requests : ScenarioCarries(r)'
    <3>1. OneAppender'
      BY <1>1 DEF OrderInv, OneAppender, Appending
    <3>2. ASSUME NEW r \in Requests PROVE ScenarioCarries(r)'
      <4>1. ScenarioCarries(r) /\ scenarioReq[r].seen \subseteq ScenarioIds
        BY <1>0 DEF OrderInv, ScenariosTypeOK, ScenarioRequest
      <4> QED BY <1>1, <4>1 DEF ScenarioCarries
    <3> QED BY <3>1, <3>2
  <2>4. PositionsDistinct'
    BY <1>1, <2>2 DEF OrderInv, PositionsDistinct
  <2>5. ASSUME ~straddled, NEW r \in Requests PROVE AboveAll(r)' /\ Behind(r)'
    <3>1. AboveAll(r) /\ Behind(r)
      BY <2>5 DEF OrderInv
    <3> QED BY <1>1, <2>2, <3>1 DEF AboveAll, Behind, Appending
  <2> QED BY <1>1, <2>1, <2>3, <2>4, <2>5 DEF OrderInv
<1>2. ASSUME NEW u \in Users, NEW s \in ScenarioIds, delete_scenario_endpoint(u, s) PROVE OrderInv'
  <2>1. sc' = [sc EXCEPT ![s].st = "dead", ![s].by = u] /\ UNCHANGED <<alive, keys, scenarioReq, straddled>>
    BY <1>2 DEF delete_scenario_endpoint, soft_delete_scenario
  <2>2. sc \in [ScenarioIds -> Scenario] /\ alive \in BOOLEAN /\ keys \subseteq Keys
    BY <1>0 DEF ScenariosTypeOK
  <2>3. sc' \in [ScenarioIds -> Scenario]
    BY <2>1, <2>2 DEF Scenario
  <2>4. \A x \in ScenarioIds : sc'[x] = sc[x] \/ sc'[x].st = "dead"
    BY <2>1, <2>2 DEF Scenario
  <2> QED BY <1>1, <2>1, <2>2, <2>3, <2>4
<1>3. ASSUME NEW k \in Keys, remove_tag_key_endpoint(k) PROVE OrderInv'
  <2>1. UNCHANGED <<alive, sc, scenarioReq, straddled>> /\ keys' \subseteq keys
    BY <1>3 DEF remove_tag_key_endpoint, remove_tag_key
  <2> QED BY <1>0, <1>1, <2>1 DEF ScenariosTypeOK
<1>4. ASSUME ToggleEvaluation PROVE OrderInv'
  <2>1. UNCHANGED <<keys, sc, scenarioReq, straddled>> /\ alive' \in BOOLEAN
    BY <1>4, Zenon DEF ToggleEvaluation
  <2> QED BY <1>0, <1>1, <2>1 DEF ScenariosTypeOK
<1>5. ASSUME UNCHANGED scenariosVars PROVE OrderInv'
  BY <1>0, <1>1, <1>5 DEF ScenariosTypeOK, scenariosVars
<1> QED BY <1>2, <1>3, <1>4, <1>5

\* A scenario appears: it is last, and a reorder that did not see it finds it behind what it saw.
LEMMA ScenarioCreated ==
    ASSUME OrderInv, NEW r \in Requests, NEW s \in ScenarioIds, create_scenario(r, s)
    PROVE  OrderInv'
<1>0. /\ ScenariosTypeOK /\ scenarioReq[r].op = "create" /\ sc[s].st = "none"
      /\ scenarioReq[r].position \in Nat /\ IdleScenarioReq \in ScenarioRequest
  BY ScenarioRequestIdle DEF OrderInv, ScenariosTypeOK, ScenarioRequest, create_scenario
<1>1. PICK p \in Nat : p = scenarioReq[r].position
  BY <1>0
<1>2. /\ sc' = [sc EXCEPT ![s] = [st |-> "live", position |-> p, by |-> None]]
      /\ scenarioReq' = [scenarioReq EXCEPT ![r] = IdleScenarioReq] /\ UNCHANGED <<alive, keys, straddled>>
  BY <1>1 DEF create_scenario, FreeScenario
<1>3. /\ sc'[s].st = "live" /\ sc'[s].position = p
      /\ \A x \in ScenarioIds : x # s => sc'[x] = sc[x]
      /\ scenarioReq'[r] = IdleScenarioReq /\ \A q \in Requests : q # r => scenarioReq'[q] = scenarioReq[q]
  BY <1>0, <1>2 DEF ScenariosTypeOK
<1>4. ScenariosTypeOK'
  <2>1. [st |-> "live", position |-> p, by |-> None] \in Scenario
    BY DEF Scenario
  <2> QED BY <1>0, <1>2, <2>1 DEF ScenariosTypeOK
<1>5. Live' = Live \cup {s} /\ s \notin Live /\ \A x \in Live : sc'[x] = sc[x]
  BY <1>0, <1>3 DEF Live
<1>6. OneAppender'
  BY <1>3 DEF OrderInv, OneAppender, Appending, IdleScenarioReq
<1>7. ASSUME NEW q \in Requests PROVE ScenarioCarries(q)' /\ s \notin scenarioReq'[q].seen
  <2>1. CASE q = r
    BY <1>3, <2>1 DEF ScenarioCarries, IdleScenarioReq
  <2>2. CASE q # r
    <3>1. ScenarioCarries(q) /\ scenarioReq'[q] = scenarioReq[q] /\ scenarioReq[q].seen \subseteq ScenarioIds
      BY <1>0, <1>3, <2>2 DEF OrderInv, ScenariosTypeOK, ScenarioRequest
    <3> QED BY <1>0, <1>3, <3>1 DEF ScenarioCarries
  <2> QED BY <2>1, <2>2
<1>8. straddled \/ \A x \in Live : sc[x].position < p
  BY <1>0, <1>1 DEF OrderInv, AboveAll, Appending
<1>9. \A x \in Live : sc[x].position \in Nat
  BY <1>0 DEF ScenariosTypeOK, Scenario, Live
<1>10. PositionsDistinct'
  BY <1>2, <1>3, <1>5, <1>8, <1>9 DEF OrderInv, PositionsDistinct
<1>11. ASSUME ~straddled, NEW q \in Requests PROVE AboveAll(q)' /\ Behind(q)'
  <2>1. CASE q = r
    BY <1>3, <2>1 DEF AboveAll, Behind, Appending, IdleScenarioReq
  <2>2. CASE q # r
    <3>1. scenarioReq'[q] = scenarioReq[q] /\ Behind(q)
      BY <1>3, <1>11, <2>2 DEF OrderInv
    <3>2. ~Appending(q)
      BY <1>0, <2>2 DEF OrderInv, OneAppender, Appending
    <3>3. AboveAll(q)'
      BY <3>1, <3>2 DEF AboveAll, Appending
    <3>4. Behind(q)'
      BY <1>3, <1>5, <1>7, <1>8, <1>11, <3>1 DEF Behind
    <3> QED BY <3>3, <3>4
  <2> QED BY <2>1, <2>2
<1> QED BY <1>2, <1>4, <1>6, <1>7, <1>10, <1>11 DEF OrderInv

\* The commits that overtake: a reorder still waiting knows it, nothing else of a request changes.
LEMMA OvertakeIs ==
    ASSUME ScenariosTypeOK, NEW r \in Requests, scenarioReq' = Overtake(r)
    PROVE  /\ scenarioReq' \in [Requests -> ScenarioRequest]
           /\ scenarioReq'[r] = IdleScenarioReq
           /\ \A q \in Requests : q # r =>
                /\ scenarioReq'[q].op = scenarioReq[q].op /\ scenarioReq'[q].scenario = scenarioReq[q].scenario
                /\ scenarioReq'[q].position = scenarioReq[q].position
                /\ scenarioReq'[q].seen = scenarioReq[q].seen /\ scenarioReq'[q].key = scenarioReq[q].key
                /\ scenarioReq[q].op = "reorder" => scenarioReq'[q].overtaken
<1>1. scenarioReq'[r] = IdleScenarioReq /\ IdleScenarioReq \in ScenarioRequest
  BY ScenarioRequestIdle DEF Overtake
<1>2. ASSUME NEW q \in Requests, q # r
      PROVE  /\ scenarioReq'[q] \in ScenarioRequest
             /\ scenarioReq'[q].op = scenarioReq[q].op /\ scenarioReq'[q].scenario = scenarioReq[q].scenario
             /\ scenarioReq'[q].position = scenarioReq[q].position
             /\ scenarioReq'[q].seen = scenarioReq[q].seen /\ scenarioReq'[q].key = scenarioReq[q].key
             /\ scenarioReq[q].op = "reorder" => scenarioReq'[q].overtaken
  <2>1. PICK b \in BOOLEAN : b = (scenarioReq[q].op = "reorder")
    OBVIOUS
  <2>2. scenarioReq'[q] = [scenarioReq[q] EXCEPT !.overtaken = b]
    BY <1>2, <2>1, Zenon DEF Overtake
  <2>3. scenarioReq[q] \in ScenarioRequest
    BY DEF ScenariosTypeOK
  <2>4. scenarioReq'[q] \in ScenarioRequest /\ scenarioReq'[q].overtaken = b
    BY <2>2, <2>3 DEF ScenarioRequest
  <2>5. /\ scenarioReq'[q].op = scenarioReq[q].op /\ scenarioReq'[q].scenario = scenarioReq[q].scenario
        /\ scenarioReq'[q].position = scenarioReq[q].position
        /\ scenarioReq'[q].seen = scenarioReq[q].seen /\ scenarioReq'[q].key = scenarioReq[q].key
    BY <2>2, <2>3 DEF ScenarioRequest
  <2>6. scenarioReq[q].op = "reorder" => scenarioReq'[q].overtaken
    BY <2>1, <2>4, Zenon
  <2> QED BY <2>4, <2>5, <2>6
<1>3. scenarioReq' = [q \in Requests |-> scenarioReq'[q]]
  BY DEF Overtake
<1>4. \A q \in Requests : scenarioReq'[q] \in ScenarioRequest
  BY <1>1, <1>2
<1>5. scenarioReq' \in [Requests -> ScenarioRequest]
  BY <1>3, <1>4
<1> QED BY <1>1, <1>2, <1>5

\* An overtaking commit keeps the invariant if positions stay distinct and below an appender's.
LEMMA OvertakeKeeps ==
    ASSUME OrderInv, NEW r \in Requests, scenarioReq' = Overtake(r),
           sc' \in [ScenarioIds -> Scenario], UNCHANGED <<alive, keys>>, straddled' \in BOOLEAN,
           \A s \in ScenarioIds : sc'[s].st = "none" => sc[s].st = "none",
           PositionsDistinct',
           straddled' \/ \A q \in Requests : q # r /\ Appending(q) =>
                            \A t \in Live' : sc'[t].position < scenarioReq[q].position
    PROVE  OrderInv'
<1>0. ScenariosTypeOK
  BY DEF OrderInv
<1>1. /\ scenarioReq' \in [Requests -> ScenarioRequest] /\ scenarioReq'[r] = IdleScenarioReq
      /\ \A q \in Requests : q # r =>
           /\ scenarioReq'[q].op = scenarioReq[q].op /\ scenarioReq'[q].scenario = scenarioReq[q].scenario
           /\ scenarioReq'[q].position = scenarioReq[q].position
           /\ scenarioReq'[q].seen = scenarioReq[q].seen /\ scenarioReq'[q].key = scenarioReq[q].key
           /\ scenarioReq[q].op = "reorder" => scenarioReq'[q].overtaken
  BY <1>0, OvertakeIs
<1>2. ScenariosTypeOK'
  BY <1>0, <1>1 DEF ScenariosTypeOK
<1>3. OneAppender'
  BY <1>1 DEF OrderInv, OneAppender, Appending, IdleScenarioReq
<1>4. ASSUME NEW q \in Requests PROVE ScenarioCarries(q)'
  <2>1. CASE q = r
    BY <1>1, <2>1 DEF ScenarioCarries, IdleScenarioReq
  <2>2. CASE q # r
    <3>1. ScenarioCarries(q) /\ scenarioReq[q].seen \subseteq ScenarioIds
      BY <1>0 DEF OrderInv, ScenariosTypeOK, ScenarioRequest
    <3> QED BY <1>1, <2>2, <3>1 DEF ScenarioCarries
  <2> QED BY <2>1, <2>2
<1>5. ASSUME ~straddled', NEW q \in Requests PROVE AboveAll(q)' /\ Behind(q)'
  <2>1. CASE q = r
    BY <1>1, <2>1 DEF AboveAll, Behind, Appending, IdleScenarioReq
  <2>2. CASE q # r
    <3>1. AboveAll(q)'
      BY <1>1, <1>5, <2>2 DEF AboveAll, Appending
    <3>2. Behind(q)'
      BY <1>1, <2>2 DEF Behind
    <3> QED BY <3>1, <3>2
  <2> QED BY <2>1, <2>2
<1> QED BY <1>2, <1>3, <1>4, <1>5 DEF OrderInv

\* A restored scenario is last; it overtakes every waiting reorder.
LEMMA ScenarioRestored ==
    ASSUME OrderInv, NEW r \in Requests, restore_scenario(r)
    PROVE  OrderInv'
<1>0. /\ ScenariosTypeOK /\ scenarioReq[r].op = "restore" /\ scenarioReq[r].position \in Nat
      /\ scenarioReq[r].scenario \in ScenarioIds
      /\ sc \in [ScenarioIds -> Scenario]
  BY DEF OrderInv, ScenariosTypeOK, ScenarioRequest, ScenarioCarries, restore_scenario
<1>1. PICK p \in Nat, s \in ScenarioIds : p = scenarioReq[r].position /\ s = scenarioReq[r].scenario
  BY <1>0
<1>2. /\ sc' = [sc EXCEPT ![s] = [st |-> "live", position |-> p, by |-> None]]
      /\ scenarioReq' = Overtake(r) /\ UNCHANGED <<alive, keys, straddled>>
  BY <1>1 DEF restore_scenario
<1>3. sc'[s].st = "live" /\ sc'[s].position = p /\ \A x \in ScenarioIds : x # s => sc'[x] = sc[x]
  BY <1>0, <1>2
<1>4. sc' \in [ScenarioIds -> Scenario]
  <2>1. [st |-> "live", position |-> p, by |-> None] \in Scenario
    BY DEF Scenario
  <2> QED BY <1>0, <1>2, <2>1
<1>5. Live' = Live \cup {s} /\ \A x \in Live : x # s => sc'[x] = sc[x]
  BY <1>3 DEF Live
<1>6. straddled \/ \A x \in Live : sc[x].position < p
  BY <1>0, <1>1 DEF OrderInv, AboveAll, Appending
<1>7. \A x \in Live : sc[x].position \in Nat
  BY <1>0 DEF Scenario, Live
<1>8. PositionsDistinct'
  BY <1>2, <1>3, <1>5, <1>6, <1>7 DEF OrderInv, PositionsDistinct
<1>9. \A q \in Requests : q # r => ~Appending(q)
  BY <1>0 DEF OrderInv, OneAppender, Appending
<1>10. straddled' \in BOOLEAN
  BY <1>0, <1>2 DEF ScenariosTypeOK
<1>11. \A x \in ScenarioIds : sc'[x].st = "none" => sc[x].st = "none"
  BY <1>3
<1> QED BY <1>2, <1>4, <1>8, <1>9, <1>10, <1>11, OvertakeKeeps

\* A reorder that was not overtaken, or sees every live scenario, keeps positions distinct: the rows
\* it moves fit below those it did not see and below the position an appender holds.
LEMMA ScenariosReordered ==
    ASSUME OrderInv, NEW r \in Requests, reorder_scenarios(r)
    PROVE  OrderInv'
<1>0. ScenariosTypeOK /\ scenarioReq[r].op = "reorder" /\ sc \in [ScenarioIds -> Scenario]
  BY DEF OrderInv, ScenariosTypeOK, reorder_scenarios
<1>1. PICK rows \in SUBSET ScenarioIds : rows = scenarioReq[r].seen \cap Live
  BY DEF Live
<1>2. PICK order \in [rows -> 0 .. Cardinality(rows) - 1] :
        /\ \A s, t \in rows : s # t => order[s] # order[t]
        /\ sc' = [s \in ScenarioIds |-> IF s \in rows THEN [sc[s] EXCEPT !.position = order[s]] ELSE sc[s]]
  <2>1. PICK order \in ScenarioReorderRequest(rows) :
          sc' = [s \in ScenarioIds |-> IF s \in rows THEN [sc[s] EXCEPT !.position = order[s]] ELSE sc[s]]
    BY <1>1, Zenon DEF reorder_scenarios
  <2>2. order \in [rows -> 0 .. Cardinality(rows) - 1] /\ \A s, t \in rows : s # t => order[s] # order[t]
    BY DEF ScenarioReorderRequest
  <2> QED BY <2>1, <2>2, Zenon
<1>3. /\ straddled' = (straddled \/ (scenarioReq[r].overtaken /\ rows # Live))
      /\ scenarioReq' = Overtake(r) /\ UNCHANGED <<alive, keys>>
  BY <1>1 DEF reorder_scenarios
<1>4. IsFiniteSet(rows) /\ Cardinality(rows) \in Nat
  BY FS_Subset, FS_CardinalityType, ScenariosAssumption
<1>5. \A s \in rows : order[s] \in Nat /\ order[s] < Cardinality(rows)
  BY <1>2, <1>4
<1>6. ASSUME NEW s \in ScenarioIds
      PROVE  /\ sc'[s] \in Scenario /\ sc'[s].st = sc[s].st
             /\ s \in rows => sc'[s].position = order[s]
             /\ s \notin rows => sc'[s] = sc[s]
  <2>0. sc[s] \in Scenario
    BY <1>0
  <2>1. CASE s \in rows
    <3>1. sc'[s] = [sc[s] EXCEPT !.position = order[s]]
      BY <1>2, <2>1
    <3> QED BY <1>5, <2>0, <2>1, <3>1 DEF Scenario
  <2>2. CASE s \notin rows
    BY <1>2, <2>0, <2>2
  <2> QED BY <2>1, <2>2
<1>7. sc' \in [ScenarioIds -> Scenario]
  BY <1>2, <1>6
<1>8. Live' = Live /\ rows \subseteq Live /\ \A s \in Live : s \in ScenarioIds /\ sc[s].position \in Nat
  BY <1>0, <1>1, <1>6 DEF Live, Scenario
<1>9. ASSUME ~straddled, NEW p \in Nat, \A t \in rows : sc[t].position < p PROVE Cardinality(rows) <= p
  <2> DEFINE pos == [s \in rows |-> sc[s].position]
  <2>1. pos \in [rows -> Nat] /\ (\A s \in rows : pos[s] < p)
    BY <1>8, <1>9
  <2>2. \A s, t \in rows : s # t => pos[s] # pos[t]
    BY <1>8, <1>9 DEF OrderInv, PositionsDistinct
  <2> HIDE DEF pos
  <2> QED BY <1>4, <2>1, <2>2, DistinctCount
<1>10. ASSUME ~straddled', NEW s \in Live \ rows PROVE Cardinality(rows) <= sc[s].position
  <2>1. ~straddled /\ ~scenarioReq[r].overtaken
    BY <1>3, <1>10
  <2>2. s \notin scenarioReq[r].seen /\ Behind(r)
    BY <1>1, <2>1 DEF OrderInv
  <2>3. \A t \in rows : sc[t].position < sc[s].position
    BY <1>0, <1>1, <2>1, <2>2 DEF Behind
  <2> QED BY <1>8, <1>9, <2>1, <2>3
<1>11. PositionsDistinct'
  <2> SUFFICES ASSUME NEW s \in Live, NEW t \in Live, s # t, sc'[s].position = sc'[t].position, ~straddled'
               PROVE  FALSE
    BY <1>8 DEF PositionsDistinct
  <2>0. s \in ScenarioIds /\ t \in ScenarioIds /\ ~straddled
    BY <1>3, <1>8
  <2>1. CASE s \in rows /\ t \in rows
    <3>1. order[s] = order[t]
      BY <1>6, <2>0, <2>1
    <3> QED BY <1>2, <2>1, <3>1, Zenon
  <2>2. ASSUME NEW x \in rows, NEW y \in Live \ rows PROVE sc'[x].position # sc'[y].position
    <3>1. sc'[x].position = order[x] /\ sc'[y].position = sc[y].position /\ sc[y].position \in Nat
      BY <1>6, <1>8
    <3>2. order[x] \in Nat /\ order[x] < Cardinality(rows) /\ Cardinality(rows) <= sc[y].position
      BY <1>5, <1>10
    <3> QED BY <1>4, <3>1, <3>2
  <2>3. CASE s \notin rows /\ t \notin rows
    BY <1>6, <2>0, <2>3 DEF OrderInv, PositionsDistinct
  <2> QED BY <2>1, <2>2, <2>3
<1>12. ASSUME ~straddled', NEW q \in Requests, q # r, Appending(q), NEW t \in Live'
       PROVE  sc'[t].position < scenarioReq[q].position
  <2>1. ~straddled /\ AboveAll(q) /\ scenarioReq[q].position \in Nat /\ t \in Live
    BY <1>0, <1>3, <1>8, <1>12 DEF OrderInv, ScenariosTypeOK, ScenarioRequest
  <2>2. \A x \in Live : sc[x].position < scenarioReq[q].position
    BY <1>12, <2>1 DEF AboveAll
  <2>3. CASE t \in rows
    <3>1. Cardinality(rows) <= scenarioReq[q].position
      BY <1>8, <1>9, <2>1, <2>2
    <3>2. sc'[t].position = order[t] /\ order[t] \in Nat /\ order[t] < Cardinality(rows)
      BY <1>5, <1>6, <2>3
    <3> QED BY <1>4, <2>1, <3>1, <3>2
  <2>4. CASE t \notin rows
    BY <1>6, <1>8, <2>1, <2>2, <2>4
  <2> QED BY <2>3, <2>4
<1>13. straddled' \in BOOLEAN
  <2>1. straddled \in BOOLEAN /\ scenarioReq[r].overtaken \in BOOLEAN
    BY <1>0 DEF ScenariosTypeOK, ScenarioRequest
  <2> QED BY <1>3, <2>1, Zenon
<1>14. \A s \in ScenarioIds : sc'[s].st = "none" => sc[s].st = "none"
  BY <1>6
<1> QED BY <1>3, <1>7, <1>11, <1>12, <1>13, <1>14, OvertakeKeeps

\* Until a reorder is overtaken and misses a row: live positions are distinct, an appender's position
\* is above them all, and what a reorder did not see lies behind what it saw.
THEOREM ScenariosInvariant == ScenariosSpec => []OrderInv
<1>1. ScenariosInit => OrderInv
  BY ScenariosStart
<1>2. OrderInv /\ [ScenariosNext]_scenariosVars => OrderInv'
  BY ScenarioReadsKeep, ScenarioOthersKeep, ScenarioCreated, ScenarioRestored, ScenariosReordered DEF ScenariosNext
<1> QED BY <1>1, <1>2, PTL DEF ScenariosSpec

\* What appears is placed by the request that holds the evaluation.
LEMMA AppendLemma ==
    ASSUME OrderInv, [ScenariosNext]_scenariosVars
    PROVE  AppendedLast
<1> SUFFICES ASSUME NEW s \in ScenarioIds, sc[s].st # "live", sc'[s].st = "live", ~straddled, NEW t \in Live
             PROVE  sc[t].position < sc'[s].position
  BY DEF AppendedLast
<1>0. ScenariosTypeOK /\ sc \in [ScenarioIds -> Scenario] /\ \A r \in Requests : AboveAll(r)
  BY DEF OrderInv, ScenariosTypeOK
<1>1. ASSUME sc' = sc PROVE FALSE
  BY <1>1
<1>2. ASSUME NEW r \in Requests, Appending(r), NEW x,
             sc' = [sc EXCEPT ![x] = [st |-> "live", position |-> scenarioReq[r].position, by |-> None]]
      PROVE  sc[t].position < sc'[s].position
  <2>1. x = s /\ sc'[s].position = scenarioReq[r].position
    BY <1>0, <1>2
  <2> QED BY <1>0, <1>2, <2>1 DEF AboveAll
<1>3. ASSUME NEW r \in Requests, NEW x \in ScenarioIds, create_scenario(r, x) PROVE sc[t].position < sc'[s].position
  BY <1>2, <1>3 DEF create_scenario, Appending
<1>4. ASSUME NEW r \in Requests, restore_scenario(r) PROVE sc[t].position < sc'[s].position
  BY <1>2, <1>4 DEF restore_scenario, Appending
<1>5. ASSUME NEW r \in Requests, reorder_scenarios(r) PROVE FALSE
  <2>1. sc' = [x \in ScenarioIds |-> sc'[x]] /\ sc'[s].st = sc[s].st
    BY <1>0, <1>5 DEF reorder_scenarios, Scenario
  <2> QED BY <2>1
<1>6. ASSUME NEW u \in Users, NEW x \in ScenarioIds, delete_scenario_endpoint(u, x) PROVE FALSE
  BY <1>0, <1>6 DEF delete_scenario_endpoint, soft_delete_scenario, Scenario
<1> QED BY <1>1, <1>3, <1>4, <1>5, <1>6 DEF ScenariosNext, scenariosVars, create_scenario_endpoint, restore_scenario_endpoint,
      reorder_scenarios_endpoint, add_tag_key_endpoint, add_tag_key, Rollback, remove_tag_key_endpoint,
      ToggleEvaluation

\* The scenarios of an evaluation are totally ordered and appended last, in any interleaving short
\* of the overtaken reorder (create_scenario, restore_scenario, reorder_scenarios).
THEOREM ScenarioOrderKept == ScenariosSpec => OrderKept
<1>1. OrderInv /\ OrderInv' /\ [ScenariosNext]_scenariosVars => [PositionsDistinct' /\ AppendedLast]_scenariosVars
  BY AppendLemma DEF OrderInv
<1> QED BY <1>1, ScenariosInvariant, PTL DEF ScenariosSpec, OrderKept

\* Three cases of the policy: off, restricted to the allow-list, open.
LEMMA FoldLemma == FoldAgrees
<1> SUFFICES ASSUME NEW enabled \in BOOLEAN, NEW restricted \in BOOLEAN,
                    NEW tags \in SUBSET Keys, NEW blank \in SUBSET Keys
             PROVE  LET folded == allowed_tags_only(enabled, restricted, tags) IN
                    /\ sent_tag_context(folded, blank) = tags \ unsent(enabled, restricted, tags, blank)
                    /\ assert_tags_allowed(enabled, restricted, tags) => folded = tags
  BY DEF FoldAgrees
<1>1. CASE ~enabled
  BY <1>1 DEF allowed_tags_only, sent_tag_context, unsent, assert_tags_allowed
<1>2. CASE enabled /\ restricted
  BY <1>2 DEF allowed_tags_only, sent_tag_context, unsent, assert_tags_allowed
<1>3. CASE enabled /\ ~restricted
  BY <1>3 DEF allowed_tags_only, sent_tag_context, unsent, assert_tags_allowed
<1> QED BY <1>1, <1>2, <1>3

\* What an export calls unsent is what the prompt left out, and what authoring accepts is sent.
THEOREM TagReadingsAgree == ScenariosSpec => []FoldAgrees
BY FoldLemma, PTL
=============================================================================
