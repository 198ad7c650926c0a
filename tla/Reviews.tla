------------------------------ MODULE Reviews ------------------------------
(***************************************************************************)
(* The review of flagged submissions: the flags of one conversation, the   *)
(* reviews assigned on them, the pool reviewers are drawn from and the     *)
(* queue of submissions that still lack verdicts.  Every mutating endpoint *)
(* is two steps: its locked reads with their checks, then its commit.  A   *)
(* bulk assignment holds the flags it has been through until it commits.   *)
(* The restore window is not timed: a tombstone past it is one nobody      *)
(* restores any more.  A flag's status never leaves pending in this code.  *)
(***************************************************************************)
EXTENDS Integers, FiniteSets, Callers

CONSTANTS
    Flags, ReviewIds,
    Owner,            \* owner of the conversation, hence author of its flags
    Assigners,        \* users holding reviews:create, reviews:update, reviews:delete
    GlobalReviewers,  \* users whose global role carries reviews:annotate
    OrgUsers,         \* users of the group's organization
    Movers,           \* users whose group role and account change during a run
    AccessLevels,     \* access levels the group may have
    MaxRequired,      \* bound on a scenario's required_reviews
    MaxBulk           \* bound on the rows of a bulk request

ASSUME ReviewsAssumption ==
    /\ Owner \in Users
    /\ Managers \subseteq Assigners /\ Assigners \subseteq Users
    /\ GlobalReviewers \subseteq Users /\ OrgUsers \subseteq Users /\ Movers \subseteq Users
    /\ AccessLevels \subseteq {"public", "organization", "invitation_only"}
    /\ MaxRequired \in Nat \ {0} /\ MaxBulk \in Nat \ {0}
    /\ None \notin Flags \cup ReviewIds \cup Users

VARIABLES
    access,     \* the group's access_level
    roles,      \* roles[u]: the caller's role in the group
    gone,       \* soft-deleted users
    open,       \* the conversation is live
    required,   \* required_reviews of the live scenario; 0 when the scenario is deleted
    flag,       \* flag[f]: the message_flags row
    review,     \* review[v]: the reviews row
    reviewReq   \* reviewReq[r]: the request between its reads and its commit

reviewsVars == <<access, roles, gone, open, required, flag, review, reviewReq>>

MessageFlag == [st : {"none", "live", "dead"}, by : Users \cup {None}]

Review == [st : {"none", "live", "dead"}, flag : Flags \cup {None}, reviewer : Users \cup {None},
           status : {"pending", "decided"}, by : Users \cup {None}]

ReviewRequest == [op : {"idle", "assign", "bulk", "verdict", "unassign", "restore"},
                  by : Users \cup {None}, review : ReviewIds \cup {None}, rows : SUBSET (Flags \X Users)]

IdleReviewReq == [op |-> "idle", by |-> None, review |-> None, rows |-> {}]
NoReview == [st |-> "none", flag |-> None, reviewer |-> None, status |-> "pending", by |-> None]

\* Every row and request is one the program can hold.
ReviewsTypeOK ==
    /\ access \in AccessLevels
    /\ roles \in [Users -> {"none", "red_teamer", "annotator"}]
    /\ gone \subseteq Users
    /\ open \in BOOLEAN
    /\ required \in 0 .. MaxRequired
    /\ flag \in [Flags -> MessageFlag]
    /\ review \in [ReviewIds -> Review]
    /\ reviewReq \in [Requests -> ReviewRequest]

ReviewsInit ==
    /\ access \in AccessLevels
    /\ roles = [u \in Users |-> IF u = Owner THEN "red_teamer" ELSE "none"]
    /\ gone = {}
    /\ open = TRUE
    /\ required = 1
    /\ flag = [f \in Flags |-> [st |-> "none", by |-> None]]
    /\ review = [v \in ReviewIds |-> NoReview]
    /\ reviewReq = [r \in Requests |-> IdleReviewReq]

----------------------------------------------------------------------------
LiveReviews(f) == {v \in ReviewIds : review[v].st = "live" /\ review[v].flag = f}
caller_can_review(u) == u \in Assigners

\* The caller's read of the group; module Membership has it in full.
group_visible_to(u) ==
    \/ u \in Managers
    \/ access = "public"
    \/ roles[u] # "none"
    \/ access = "organization" /\ u \in OrgUsers

member_reviewer_ids == {u \in Users : roles[u] = "annotator"}

organization_pool_predicate(u) == u \in member_reviewer_ids \/ (u \in OrgUsers /\ u \in GlobalReviewers)

annotator_pool_predicate(u) ==
    CASE access = "public"       -> u \in GlobalReviewers \/ u \in member_reviewer_ids
      [] access = "organization" -> organization_pool_predicate(u)
      [] OTHER                   -> u \in member_reviewer_ids

is_assignable_annotator(u) == u \notin gone /\ annotator_pool_predicate(u)

\* The reviews and the flags a caller may read: all of a visible group, or those on own flags.
scope_review_flags(u) ==
    {f \in Flags : /\ group_visible_to(u) /\ open
                   /\ u \in Managers \/ caller_can_review(u) \/ u = Owner}

scope_reviews(u) == {v \in ReviewIds : /\ review[v].flag \in scope_review_flags(u)
                                       /\ flag[review[v].flag].st = "live"}

\* Row locks: a review is held by the request on it, a flag by the assignments on it.
ReviewLocked(v) == \E r \in Requests : reviewReq[r].review = v
FlagLocked(f) == \E r \in Requests : \E row \in reviewReq[r].rows : row[1] = f

----------------------------------------------------------------------------
(* Flags.                                                                  *)

\* The caller's own live conversation, in a live group they see: not lifted for a manager.
resolve_conversation_context(u) == open /\ group_visible_to(u) /\ u = Owner

create_flag(f) == flag[f].st = "none" /\ flag' = [flag EXCEPT ![f].st = "live"]

create_message_flag_endpoint(u, f) ==
    /\ u \notin gone /\ resolve_conversation_context(u)
    /\ create_flag(f)
    /\ UNCHANGED <<access, roles, gone, open, required, review, reviewReq>>

\* The author's scope, lifted for a manager; read FOR UPDATE.
get_flag(u, f) == open /\ group_visible_to(u) /\ (u = Owner \/ u \in Managers) /\ ~FlagLocked(f)

soft_delete_flag(f, u) == flag' = [flag EXCEPT ![f] = [st |-> "dead", by |-> u]]

delete_message_flag_endpoint(u, f) ==
    /\ u \notin gone /\ get_flag(u, f) /\ flag[f].st = "live"
    /\ soft_delete_flag(f, u)
    /\ UNCHANGED <<access, roles, gone, open, required, review, reviewReq>>

get_restorable_flag(u, f) ==
    /\ flag[f].st = "dead" /\ (u \in Managers \/ flag[f].by = u)
    /\ open /\ group_visible_to(u) /\ (u = Owner \/ u \in Managers)

restore_flag(f) == flag' = [flag EXCEPT ![f] = [st |-> "live", by |-> None]]

restore_message_flag_endpoint(u, f) ==
    /\ u \notin gone /\ get_restorable_flag(u, f)
    /\ restore_flag(f)
    /\ UNCHANGED <<access, roles, gone, open, required, review, reviewReq>>

----------------------------------------------------------------------------
(* Assignment.                                                             *)

Busy(u, op) == [IdleReviewReq EXCEPT !.op = op, !.by = u]

\* Joined to the live group only: the conversation may be deleted.
resolve_assignable_flag(r, u, f) ==
    /\ flag[f].st = "live" /\ group_visible_to(u)
    /\ ~\E q \in Requests \ {r} : \E row \in reviewReq[q].rows : row[1] = f

\* r's own rows so far count as live reviews, other transactions' uncommitted rows do not.
Existing(r, f, x) == <<f, x>> \in reviewReq[r].rows \/ \E v \in LiveReviews(f) : review[v].reviewer = x

assign_reviewer(r, u, f, x) ==
    /\ resolve_assignable_flag(r, u, f)
    /\ x # Owner
    /\ is_assignable_annotator(x)
    /\ ~Existing(r, f, x)

assign_reviewer_endpoint(r, u, f, x) ==
    /\ reviewReq[r].op = "idle" /\ u \in Assigners \ gone
    /\ assign_reviewer(r, u, f, x)
    /\ reviewReq' = [reviewReq EXCEPT ![r] = [Busy(u, "assign") EXCEPT !.rows = {<<f, x>>}]]
    /\ UNCHANGED <<access, roles, gone, open, required, flag, review>>

\* One more row of a bulk request; a row that assign_reviewer refuses is reported and skipped.
bulk_assign_reviewers_endpoint(r, u, f, x) ==
    /\ \/ reviewReq[r].op = "idle" /\ u \in Assigners \ gone
       \/ reviewReq[r].op = "bulk" /\ reviewReq[r].by = u /\ Cardinality(reviewReq[r].rows) < MaxBulk
    /\ assign_reviewer(r, u, f, x)
    /\ reviewReq' = [reviewReq EXCEPT ![r] = [Busy(u, "bulk") EXCEPT !.rows = reviewReq[r].rows \cup {<<f, x>>}]]
    /\ UNCHANGED <<access, roles, gone, open, required, flag, review>>

\* The partial unique index on (message_flag_id, reviewer_id) over live reviews.
ix_reviews_message_flag_id_reviewer_id(pairs) ==
    \A v \in ReviewIds : review[v].st = "live" => <<review[v].flag, review[v].reviewer>> \notin pairs

Insert(rows) ==
    \E new \in [rows -> ReviewIds] :
      /\ \A p, q \in rows : p # q => new[p] # new[q]
      /\ \A p \in rows : review[new[p]].st = "none"
      /\ review' = [v \in ReviewIds |->
           IF \E p \in rows : new[p] = v
           THEN LET p == CHOOSE p \in rows : new[p] = v
                IN  [NoReview EXCEPT !.st = "live", !.flag = p[1], !.reviewer = p[2]]
           ELSE review[v]]

\* The commit of an assignment, single or bulk.
CommitAssign(r) ==
    /\ reviewReq[r].op \in {"assign", "bulk"}
    /\ ix_reviews_message_flag_id_reviewer_id(reviewReq[r].rows)
    /\ Insert(reviewReq[r].rows)
    /\ reviewReq' = [reviewReq EXCEPT ![r] = IdleReviewReq]
    /\ UNCHANGED <<access, roles, gone, open, required, flag>>

\* A dry run, a duplicate key, a lost connection: nothing is written.
RollbackReview(r) ==
    /\ reviewReq[r].op # "idle"
    /\ reviewReq' = [reviewReq EXCEPT ![r] = IdleReviewReq]
    /\ UNCHANGED <<access, roles, gone, open, required, flag, review>>

----------------------------------------------------------------------------
(* Verdict, unassignment and restore of one review.                        *)

get_review(u, v) == review[v].st = "live" /\ v \in scope_reviews(u) /\ ~ReviewLocked(v)

update_review_endpoint(r, u, v) ==
    /\ reviewReq[r].op = "idle" /\ u \in Assigners \ gone
    /\ get_review(u, v)
    /\ u \in Managers \/ review[v].reviewer = u
    /\ reviewReq' = [reviewReq EXCEPT ![r] = [Busy(u, "verdict") EXCEPT !.review = v]]
    /\ UNCHANGED <<access, roles, gone, open, required, flag, review>>

\* ReviewUpdate: the status is a verdict or left out, never pending.
update_review(r) ==
    /\ reviewReq[r].op = "verdict"
    /\ \E status \in {"decided", review[reviewReq[r].review].status} :
         review' = [review EXCEPT ![reviewReq[r].review].status = status]
    /\ reviewReq' = [reviewReq EXCEPT ![r] = IdleReviewReq]
    /\ UNCHANGED <<access, roles, gone, open, required, flag>>

\* Variant: the review is read without FOR UPDATE, so a verdict may land before the delete.
UnassignUnlocked(r, u, v) ==
    /\ reviewReq[r].op = "idle" /\ u \in Assigners \ gone
    /\ review[v].st = "live" /\ v \in scope_reviews(u)
    /\ review[v].status = "pending" \/ u \in Managers \/ review[v].reviewer = u
    /\ reviewReq' = [reviewReq EXCEPT ![r] = [Busy(u, "unassign") EXCEPT !.review = v]]
    /\ UNCHANGED <<access, roles, gone, open, required, flag, review>>

unassign_review_endpoint(r, u, v) ==
    /\ reviewReq[r].op = "idle" /\ u \in Assigners \ gone
    /\ get_review(u, v)
    /\ review[v].status = "pending" \/ u \in Managers \/ review[v].reviewer = u
    /\ reviewReq' = [reviewReq EXCEPT ![r] = [Busy(u, "unassign") EXCEPT !.review = v]]
    /\ UNCHANGED <<access, roles, gone, open, required, flag, review>>

unassign_review(r) ==
    /\ reviewReq[r].op = "unassign"
    /\ review' = [review EXCEPT ![reviewReq[r].review].st = "dead", ![reviewReq[r].review].by = reviewReq[r].by]
    /\ reviewReq' = [reviewReq EXCEPT ![r] = IdleReviewReq]
    /\ UNCHANGED <<access, roles, gone, open, required, flag>>

get_restorable_review(u, v) ==
    /\ review[v].st = "dead" /\ (u \in Managers \/ review[v].by = u)
    /\ v \in scope_reviews(u)

MayRestoreDecided(u, v) == review[v].status = "pending" \/ u \in Managers \/ review[v].reviewer = u

assert_review_reassignable(v) ==
    review[v].status = "pending" => flag[review[v].flag].st = "live" /\ is_assignable_annotator(review[v].reviewer)

restore_review_endpoint(r, u, v) ==
    /\ reviewReq[r].op = "idle" /\ u \in Assigners \ gone
    /\ get_restorable_review(u, v) /\ ~ReviewLocked(v)
    /\ MayRestoreDecided(u, v)
    /\ assert_review_reassignable(v)
    /\ reviewReq' = [reviewReq EXCEPT ![r] = [Busy(u, "restore") EXCEPT !.review = v]]
    /\ UNCHANGED <<access, roles, gone, open, required, flag, review>>

restore_review(r) ==
    LET v == reviewReq[r].review IN
    /\ reviewReq[r].op = "restore"
    /\ ix_reviews_message_flag_id_reviewer_id({<<review[v].flag, review[v].reviewer>>})
    /\ review' = [review EXCEPT ![v].st = "live", ![v].by = None]
    /\ reviewReq' = [reviewReq EXCEPT ![r] = IdleReviewReq]
    /\ UNCHANGED <<access, roles, gone, open, required, flag>>

----------------------------------------------------------------------------
(* What other components change under the reviews.                         *)

\* The scenario's required_reviews is edited, or the scenario deleted or restored.
update_scenario_endpoint ==
    /\ \E n \in 0 .. MaxRequired : n # required /\ required' = n
    /\ UNCHANGED <<access, roles, gone, open, flag, review, reviewReq>>

ToggleConversation ==
    /\ open' = ~open
    /\ UNCHANGED <<access, roles, gone, required, flag, review, reviewReq>>

ChangeRole(u) ==
    /\ u \in Movers
    /\ \E role \in {"none", "red_teamer", "annotator"} : role # roles[u] /\ roles' = [roles EXCEPT ![u] = role]
    /\ UNCHANGED <<access, gone, open, required, flag, review, reviewReq>>

ToggleUser(u) ==
    /\ u \in Movers
    /\ gone' = IF u \in gone THEN gone \ {u} ELSE gone \cup {u}
    /\ UNCHANGED <<access, roles, open, required, flag, review, reviewReq>>

ReviewsNext ==
    \/ \E u \in Users, f \in Flags : \/ create_message_flag_endpoint(u, f)
                                     \/ delete_message_flag_endpoint(u, f)
                                     \/ restore_message_flag_endpoint(u, f)
    \/ \E r \in Requests, u, x \in Users, f \in Flags :
         assign_reviewer_endpoint(r, u, f, x) \/ bulk_assign_reviewers_endpoint(r, u, f, x)
    \/ \E r \in Requests, u \in Users, v \in ReviewIds :
         \/ update_review_endpoint(r, u, v)
         \/ unassign_review_endpoint(r, u, v)
         \/ restore_review_endpoint(r, u, v)
    \/ \E r \in Requests : \/ CommitAssign(r) \/ RollbackReview(r)
                           \/ update_review(r) \/ unassign_review(r) \/ restore_review(r)
    \/ update_scenario_endpoint \/ ToggleConversation
    \/ \E u \in Users : ChangeRole(u) \/ ToggleUser(u)

ReviewsSpec == ReviewsInit /\ [][ReviewsNext]_reviewsVars

----------------------------------------------------------------------------
(* The read endpoints.                                                     *)

\* Variant: the picker forgets who is already assigned.
PickerOffersAssigned(u, f) ==
    {x \in Users : /\ flag[f].st = "live" /\ group_visible_to(u)
                   /\ x \notin gone /\ annotator_pool_predicate(x) /\ x # Owner}

\* Who the assign dialog offers for a submission.
list_assignable_reviewers(u, f) ==
    {x \in Users : /\ flag[f].st = "live" /\ group_visible_to(u)
                   /\ x \notin gone /\ annotator_pool_predicate(x) /\ x # Owner
                   /\ \A v \in LiveReviews(f) : review[v].reviewer # x}

\* GET /reviews?deleted=true: what the caller may list of the unassigned reviews.
list_deleted_reviews(u) ==
    {v \in ReviewIds : /\ review[v].st = "dead" /\ (u \in Managers \/ review[v].by = u)
                       /\ v \in scope_reviews(u)
                       /\ review[v].status = "pending" => review[v].reviewer \notin gone}

\* GET /message-flags?deleted=true.
list_deleted_flags(u) ==
    {f \in Flags : /\ flag[f].st = "dead" /\ (u \in Managers \/ flag[f].by = u)
                   /\ open /\ group_visible_to(u) /\ (u \in Managers \/ u = Owner)}

Decided(rows) == Cardinality({v \in rows : review[v].status = "decided"})

\* The queue as its SQL filter selects it.
review_queue(u) ==
    {f \in scope_review_flags(u) :
       /\ flag[f].st = "live"
       /\ Decided({v \in ReviewIds : review[v].flag = f /\ review[v].st = "live"})
            < (IF required = 0 THEN 1 ELSE required)}

\* A queue entry as Python fills it in for the flags of the page.
QueueEntry(f) == [required |-> IF required > 0 THEN required ELSE 1, completed |-> Decided(LiveReviews(f))]

\* What a reader of the queue or of the submission page can open.
get_submission_detail(u) == {f \in scope_review_flags(u) : flag[f].st = "live"}
submission_conversation_messages(u) == {f \in scope_review_flags(u) : flag[f].st = "live"}

----------------------------------------------------------------------------
(* Properties.                                                             *)

\* The picker is exactly the set POST /reviews accepts: it never offers a user the call
\* would refuse and never hides one it would take (list_assignable_reviewers against
\* assign_reviewer, read by an assigner with no request of theirs under way).
PickerExact ==
    \A u \in Assigners, f \in Flags, r \in Requests :
      reviewReq[r].op = "idle" /\ (\A q \in Requests : reviewReq[q].rows = {})
        => list_assignable_reviewers(u, f) = {x \in Users : assign_reviewer(r, u, f, x)}

\* The deleted listing holds no review whose restore answers 403: a verdict is only ever
\* removed by the reviewer who gave it or a manager, even when the verdict and the
\* unassignment overlap.  A listed flag is one its reader can restore.
RestoreListHonest ==
    /\ \A u \in Assigners : \A v \in list_deleted_reviews(u) : get_restorable_review(u, v) /\ MayRestoreDecided(u, v)
    /\ \A u \in Users : \A f \in list_deleted_flags(u) : get_restorable_flag(u, f)

\* A submission is queued for a caller exactly when its entry shows fewer verdicts than it
\* requires and the caller can open it and read its transcript: the SQL filter, the Python
\* counts of the page and the submission reads agree, through unassignments, deletes and
\* scenario edits.
QueueAgrees ==
    \A u \in Users : review_queue(u) =
        {f \in get_submission_detail(u) \cap submission_conversation_messages(u) :
            QueueEntry(f).completed < QueueEntry(f).required}
=============================================================================
