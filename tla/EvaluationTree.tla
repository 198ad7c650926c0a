--------------------------- MODULE EvaluationTree ---------------------------
(***************************************************************************)
(* The rows hanging off one evaluation: ai_models <- evaluation_ai_models  *)
(* (assignments) <- conversations -> conversation_groups, and the models   *)
(* its evaluation group allows (evaluation_group_ai_models).  An endpoint  *)
(* that creates, moves, soft-deletes or restores one of these rows is a    *)
(* transaction at READ COMMITTED: each statement reads what is committed   *)
(* when it starts, row locks last until the end, and writes show at the    *)
(* commit.  A pending write is kept in the transaction's record, together  *)
(* with the rows it has locked.                                            *)
(***************************************************************************)
EXTENDS Naturals, FiniteSets

CONSTANTS
    Models, Assignments, Convs, Groups,   \* row ids
    Txs,                                  \* concurrent requests
    None,
    MaxGroupSize,                         \* settings.max_conversation_group_size
    Ops                                   \* the endpoints that are called

AllOps == {"create", "createGroup", "move", "delete", "restore", "deleteGroup",
           "assign", "unassign", "restoreAssignment", "deleteModel", "restoreModel",
           "sync"}

ASSUME ConstAssumption ==
    /\ MaxGroupSize \in Nat \ {0}
    /\ Ops \subseteq AllOps
    /\ IsFiniteSet(Convs)
    /\ None \notin Models \cup Assignments \cup Convs \cup Groups \cup AllOps

VARIABLES
    model,   \* model[m]: liveness of the ai_models row
    allowed, \* the models with a live evaluation_group_ai_models row
    asg,     \* asg[a]: the evaluation_ai_models row
    conv,    \* conv[c]: the conversations row
    group,   \* group[g]: liveness of the conversation_groups row
    tx,      \* tx[t]: the request in progress
    raced    \* history: two requests have been in progress at once

vars == <<model, allowed, asg, conv, group, tx, raced>>

\* The evaluation_group_ai_models row of a model, and the evaluation group.
SubsetRow(m) == <<"allowed", m>>
SubsetRows(M) == {SubsetRow(m) : m \in M}
EvaluationGroup == <<"evaluation group", None>>

\* Rows of different tables are different rows.
ASSUME RowAssumption ==
    /\ Models \cap (Assignments \cup Convs \cup Groups) = {}
    /\ Assignments \cap (Convs \cup Groups) = {}
    /\ Convs \cap Groups = {}
    /\ (SubsetRows(Models) \cup {EvaluationGroup})
         \cap (Models \cup Assignments \cup Convs \cup Groups \cup {None}) = {}

Rows == Models \cup Assignments \cup Convs \cup Groups
          \cup SubsetRows(Models) \cup {EvaluationGroup}
Liveness == {"none", "live", "dead"}   \* never inserted, deleted_at NULL or set

\* again is history: the assignment has been re-instated after a removal.
AsgRow == [st : Liveness, model : Models \cup {None}, again : BOOLEAN]
ConvRow == [st : Liveness, asg : Assignments \cup {None}, grp : Groups \cup {None}]

Tx == [op     : Ops \cup {None},
       pc     : {"idle", "acquire", "lock", "write", "unassign", "subset", "affected",
                 "cascade", "prune", "commit"},
       row    : Rows \cup {None},      \* the conversation, assignment or model addressed
       grp    : Groups \cup {None},    \* the group joined, or deleted
       held   : SUBSET Rows,           \* rows locked FOR UPDATE or by an UPDATE
       shared : SUBSET Rows,           \* rows locked FOR SHARE
       target : SUBSET Models,         \* the allowed models a group edit asks for
       doomed : SUBSET Convs,          \* conversations the cascade tombstones
       empty  : SUBSET Groups]         \* groups to examine, then groups to prune

IdleTx == [op |-> None, pc |-> "idle", row |-> None, grp |-> None,
           held |-> {}, shared |-> {}, target |-> {}, doomed |-> {}, empty |-> {}]

\* Types, and the NOT NULL foreign keys of the rows that exist.
TypeOK ==
    /\ model \in [Models -> {"live", "dead"}]
    /\ allowed \in SUBSET Models
    /\ asg \in [Assignments -> AsgRow]
    /\ conv \in [Convs -> ConvRow]
    /\ \A a \in Assignments : asg[a].st # "none" => asg[a].model # None
    /\ \A c \in Convs : conv[c].st # "none" => conv[c].asg # None /\ conv[c].grp # None
    /\ group \in [Groups -> Liveness]
    /\ tx \in [Txs -> Tx]
    /\ raced \in BOOLEAN

Init ==
    /\ model = [m \in Models |-> "live"]
    /\ allowed = {}
    /\ asg = [a \in Assignments |-> [st |-> "none", model |-> None, again |-> FALSE]]
    /\ conv = [c \in Convs |-> [st |-> "none", asg |-> None, grp |-> None]]
    /\ group = [g \in Groups |-> "none"]
    /\ tx = [t \in Txs |-> IdleTx]
    /\ raced = FALSE

-----------------------------------------------------------------------------
(* Rows, locks and transactions *)

LiveIn(g) == {c \in Convs : conv[c].st = "live" /\ conv[c].grp = g}
ConvsOf(A) == {c \in Convs : conv[c].asg \in A}
LiveAsgs(m) == {a \in Assignments : asg[a].st = "live" /\ asg[a].model = m}

\* A row another transaction has locked: the statement waits.
Busy(t, R) == \E u \in Txs \ {t} : (tx[u].held \cup tx[u].shared) \cap R # {}

\* The foreign-key check of an INSERT takes FOR KEY SHARE on the parent, which
\* waits for a SELECT ... FOR UPDATE of it but not for a bulk UPDATE.
KeyBusy(t, r) == \E u \in Txs \ {t} : tx[u].row = r /\ r \in tx[u].held

Begin(t, op, next, r, g, held) ==
    /\ op \in Ops
    /\ tx[t].pc = "idle"
    /\ ~Busy(t, held)
    /\ tx' = [tx EXCEPT ![t] = [IdleTx EXCEPT !.op = op, !.pc = next, !.row = r,
                                              !.grp = g, !.held = held]]
    /\ UNCHANGED <<model, allowed, asg, conv, group>>

\* The transactional wrapper: commit on return, roll back on an exception (a
\* 404, a 409, a deadlock victim, a dropped connection).
Commit(t) == tx' = [tx EXCEPT ![t] = IdleTx]

Abort(t) ==
    /\ tx[t].pc # "idle"
    /\ Commit(t)
    /\ UNCHANGED <<model, allowed, asg, conv, group>>

-----------------------------------------------------------------------------
(* Conversations: create, move, delete, restore *)

\* create_conversation reads its assignment before it locks the group.
CreateRead(t, a, g) ==
    /\ asg[a].st = "live"
    /\ group[g] # "none"
    /\ Begin(t, "create", "acquire", a, g, {})

MoveLock(t, c, g) ==
    /\ conv[c].st = "live"
    /\ g # conv[c].grp
    /\ group[g] # "none"
    /\ Begin(t, "move", "acquire", c, g, {c})

\* get_restorable_conversation joins the assignment but locks only the
\* conversation.
RestoreLock(t, c) ==
    /\ conv[c].st = "dead"
    /\ asg[conv[c].asg].st = "live"
    /\ Begin(t, "restore", "acquire", c, conv[c].grp, {c})

\* Variant: the group is counted without its row lock.
AcquireUnlocked(t) ==
    LET g == tx[t].grp IN
    /\ tx[t].pc = "acquire" /\ tx[t].op # "restore"
    /\ group[g] = "live"
    /\ Cardinality(LiveIn(g)) < MaxGroupSize
    /\ tx' = [tx EXCEPT ![t].pc = IF tx[t].op = "move" THEN "prune" ELSE "write",
                        ![t].empty = IF tx[t].op = "move" THEN {conv[tx[t].row].grp} ELSE {}]
    /\ UNCHANGED <<model, allowed, asg, conv, group>>

\* acquire_group_for_conversation, for a create or a move: lock the group, then count.
AcquireGroup(t) ==
    LET g == tx[t].grp IN
    /\ tx[t].pc = "acquire" /\ tx[t].op # "restore"
    /\ ~Busy(t, {g})
    /\ group[g] = "live"
    /\ Cardinality(LiveIn(g)) < MaxGroupSize
    /\ tx' = [tx EXCEPT ![t].held = @ \cup {g},
                        ![t].pc = IF tx[t].op = "move" THEN "prune" ELSE "write",
                        ![t].empty = IF tx[t].op = "move" THEN {conv[tx[t].row].grp} ELSE {}]
    /\ UNCHANGED <<model, allowed, asg, conv, group>>

\* The same for a restore, which may find the group dead.
assert_group_has_room(t) ==
    LET g == tx[t].grp IN
    /\ tx[t].pc = "acquire" /\ tx[t].op = "restore"
    /\ ~Busy(t, {g})
    /\ Cardinality(LiveIn(g)) < MaxGroupSize
    /\ tx' = [tx EXCEPT ![t].held = @ \cup {g}, ![t].pc = "write"]
    /\ UNCHANGED <<model, allowed, asg, conv, group>>

CreateCommit(t, c) ==
    /\ tx[t].op = "create" /\ tx[t].pc = "write"
    /\ conv[c].st = "none"
    /\ ~KeyBusy(t, tx[t].row)
    /\ conv' = [conv EXCEPT ![c] = [st |-> "live", asg |-> tx[t].row, grp |-> tx[t].grp]]
    /\ Commit(t)
    /\ UNCHANGED <<model, allowed, asg, group>>

\* revive_pruned_group clears the group's tombstone, if it has one.
revive_pruned_group(g) == group' = [group EXCEPT ![g] = "live"]

\* restore_row, then the group.
RestoreCommit(t) ==
    /\ tx[t].op = "restore" /\ tx[t].pc = "write"
    /\ conv' = [conv EXCEPT ![tx[t].row].st = "live"]
    /\ revive_pruned_group(tx[t].grp)
    /\ Commit(t)
    /\ UNCHANGED <<model, allowed, asg>>

DeleteLock(t, c) ==
    /\ conv[c].st = "live"
    /\ Begin(t, "delete", "prune", c, conv[c].grp, {c})

-----------------------------------------------------------------------------
(* Conversation groups: create with members, delete with cascade *)

CreateGroupRead(t, a) ==
    /\ asg[a].st = "live"
    /\ Begin(t, "createGroup", "write", a, None, {})

\* One conversation per entry; the schema bounds the number of entries.
CreateGroupCommit(t, g, C) ==
    /\ tx[t].op = "createGroup" /\ tx[t].pc = "write"
    /\ group[g] = "none"
    /\ \A c \in C : conv[c].st = "none"
    /\ C # {} /\ Cardinality(C) <= MaxGroupSize
    /\ ~KeyBusy(t, tx[t].row)
    /\ group' = [group EXCEPT ![g] = "live"]
    /\ conv' = [c \in Convs |->
                  IF c \in C THEN [st |-> "live", asg |-> tx[t].row, grp |-> g] ELSE conv[c]]
    /\ Commit(t)
    /\ UNCHANGED <<model, allowed, asg>>

DeleteGroupLock(t, g) ==
    /\ group[g] = "live"
    /\ Begin(t, "deleteGroup", "write", None, g, {g})

Tombstone(C) == [c \in Convs |-> IF c \in C THEN [conv[c] EXCEPT !.st = "dead"] ELSE conv[c]]

\* The bulk UPDATE waits for members another transaction has locked.
DeleteGroupCommit(t) ==
    /\ tx[t].op = "deleteGroup" /\ tx[t].pc = "write"
    /\ ~Busy(t, LiveIn(tx[t].grp))
    /\ conv' = Tombstone(LiveIn(tx[t].grp))
    /\ group' = [group EXCEPT ![tx[t].grp] = "dead"]
    /\ Commit(t)
    /\ UNCHANGED <<model, allowed, asg>>

-----------------------------------------------------------------------------
(* Assignments and models, and their cascades *)

\* assert_model_assignable_to_group reads the allowed models FOR SHARE (waiting
\* for a lock on any of them); get_model then reads the model without a lock.
AssignRead(t, m) ==
    /\ "assign" \in Ops
    /\ tx[t].pc = "idle"
    /\ \A u \in Txs \ {t} : tx[u].held \cap SubsetRows(allowed) = {}
    /\ m \in allowed
    /\ model[m] = "live"
    /\ tx' = [tx EXCEPT ![t] = [IdleTx EXCEPT !.op = "assign", !.pc = "write", !.row = m,
                                              !.shared = SubsetRows(allowed)]]
    /\ UNCHANGED <<model, allowed, asg, conv, group>>

\* The partial unique index refuses a second live assignment of the model.
AssignCommit(t, a) ==
    /\ tx[t].op = "assign" /\ tx[t].pc = "write"
    /\ asg[a].st = "none"
    /\ LiveAsgs(tx[t].row) = {}
    /\ ~KeyBusy(t, tx[t].row)
    /\ asg' = [asg EXCEPT ![a] = [st |-> "live", model |-> tx[t].row, again |-> FALSE]]
    /\ Commit(t)
    /\ UNCHANGED <<model, allowed, conv, group>>

\* get_restorable_assignment joins the model but locks only the assignment.
RestoreAssignmentLock(t, a) ==
    /\ asg[a].st = "dead"
    /\ model[asg[a].model] = "live"
    /\ Begin(t, "restoreAssignment", "write", a, None, {a})

RestoreAssignmentCommit(t) ==
    /\ tx[t].op = "restoreAssignment" /\ tx[t].pc = "write"
    /\ LiveAsgs(asg[tx[t].row].model) = {}
    /\ asg' = [asg EXCEPT ![tx[t].row].st = "live", ![tx[t].row].again = TRUE]
    /\ Commit(t)
    /\ UNCHANGED <<model, allowed, conv, group>>

UnassignLock(t, a) ==
    /\ asg[a].st = "live"
    /\ Begin(t, "unassign", "affected", a, None, {a})

DeleteModelLock(t, m) ==
    /\ model[m] = "live"
    /\ Begin(t, "deleteModel", "unassign", m, None, {m})

\* unassign_models_for_model: the bulk UPDATE of the model's live assignments.
DeleteModelAssignments(t) ==
    /\ tx[t].pc = "unassign"
    /\ ~Busy(t, LiveAsgs(tx[t].row))
    /\ tx' = [tx EXCEPT ![t].pc = "subset", ![t].held = @ \cup LiveAsgs(tx[t].row)]
    /\ UNCHANGED <<model, allowed, asg, conv, group>>

\* unassign_group_models_for_model: the UPDATE of the model's subset row.
DeleteModelSubset(t) ==
    LET R == SubsetRows(allowed \cap {tx[t].row}) IN
    /\ tx[t].pc = "subset"
    /\ ~Busy(t, R)
    /\ tx' = [tx EXCEPT ![t].pc = "affected", ![t].held = @ \cup R]
    /\ UNCHANGED <<model, allowed, asg, conv, group>>

\* The assignments whose conversations the cascade covers, live or not.
Scope(t) == IF tx[t].op = "unassign" THEN {tx[t].row}
            ELSE {a \in Assignments : asg[a].model = tx[t].row}

\* soft_delete_conversations_for_assignment and _for_model: read the affected
\* groups, tombstone the live conversations, then prune those groups.
CascadeRead(t) ==
    /\ tx[t].pc = "affected"
    /\ tx' = [tx EXCEPT ![t].pc = "cascade",
                        ![t].empty = {conv[c].grp : c \in ConvsOf(Scope(t))}]
    /\ UNCHANGED <<model, allowed, asg, conv, group>>

CascadeConversations(t) ==
    LET C == {c \in ConvsOf(Scope(t)) : conv[c].st = "live"} IN
    /\ tx[t].pc = "cascade"
    /\ ~Busy(t, C)
    /\ tx' = [tx EXCEPT ![t].pc = "prune", ![t].doomed = C, ![t].held = @ \cup C]
    /\ UNCHANGED <<model, allowed, asg, conv, group>>

\* restore_model is shallow: the model alone.
RestoreModelLock(t, m) ==
    /\ model[m] = "dead"
    /\ Begin(t, "restoreModel", "write", m, None, {m})

RestoreModelCommit(t) ==
    /\ tx[t].op = "restoreModel" /\ tx[t].pc = "write"
    /\ model' = [model EXCEPT ![tx[t].row] = "live"]
    /\ Commit(t)
    /\ UNCHANGED <<allowed, asg, conv, group>>

\* Editing a group holds its row FOR UPDATE; sync_group_models first checks that
\* the wanted models are live, without locking them ...
SyncRead(t, T) ==
    /\ \A m \in T : model[m] = "live"
    /\ "sync" \in Ops
    /\ tx[t].pc = "idle"
    /\ ~Busy(t, {EvaluationGroup})
    /\ tx' = [tx EXCEPT ![t] = [IdleTx EXCEPT !.op = "sync", !.pc = "lock", !.target = T,
                                              !.held = {EvaluationGroup}]]
    /\ UNCHANGED <<model, allowed, asg, conv, group>>

\* Variant: the current rows are read without a lock.
SyncLockNothing(t) ==
    /\ tx[t].pc = "lock"
    /\ tx' = [tx EXCEPT ![t].pc = "write"]
    /\ UNCHANGED <<model, allowed, asg, conv, group>>

\* ... then locks the current rows FOR UPDATE ...
SyncLock(t) ==
    /\ tx[t].pc = "lock"
    /\ ~Busy(t, SubsetRows(allowed))
    /\ tx' = [tx EXCEPT ![t].pc = "write", ![t].held = @ \cup SubsetRows(allowed)]
    /\ UNCHANGED <<model, allowed, asg, conv, group>>

\* ... and refuses to remove a model a live assignment uses.
SyncCommit(t) ==
    /\ tx[t].op = "sync" /\ tx[t].pc = "write"
    /\ \A m \in allowed \ tx[t].target : LiveAsgs(m) = {}
    /\ \A m \in tx[t].target \ allowed : ~KeyBusy(t, m)
    /\ allowed' = tx[t].target
    /\ Commit(t)
    /\ UNCHANGED <<model, asg, conv, group>>

-----------------------------------------------------------------------------
(* Pruning, shared by delete, move, unassign and model delete *)

\* The conversations this transaction takes out of their groups.
Leaving(t) == IF tx[t].op \in {"delete", "move"} THEN {tx[t].row} ELSE tx[t].doomed

\* The groups soft_delete_empty_groups looks at: a delete's own group, the
\* group a move leaves, the groups a cascade touched.
Examined(t) == IF tx[t].op = "delete" THEN {tx[t].grp} ELSE tx[t].empty

\* Variant: no group is pruned.
PruneReadNothing(t) ==
    /\ tx[t].pc = "prune"
    /\ tx' = [tx EXCEPT ![t].pc = "commit", ![t].empty = {}]
    /\ UNCHANGED <<model, allowed, asg, conv, group>>

\* soft_delete_empty_groups is one UPDATE: its NOT EXISTS is evaluated on the
\* snapshot taken when the statement starts ...
PruneRead(t) ==
    /\ tx[t].pc = "prune"
    /\ tx' = [tx EXCEPT ![t].pc = "commit",
                        ![t].empty = {g \in Examined(t) :
                                        group[g] = "live" /\ LiveIn(g) \subseteq Leaving(t)}]
    /\ UNCHANGED <<model, allowed, asg, conv, group>>

\* ... and a row it waited for is only re-checked against its own columns, so a
\* member that joined meanwhile goes unseen.  Then the request commits.
PruneCommit(t) ==
    /\ tx[t].pc = "commit"
    /\ ~Busy(t, tx[t].empty)
    /\ group' = [g \in Groups |->
                   IF g \in tx[t].empty /\ group[g] = "live" THEN "dead" ELSE group[g]]
    /\ conv' = IF tx[t].op = "move" THEN [conv EXCEPT ![tx[t].row].grp = tx[t].grp]
               ELSE Tombstone(Leaving(t))
    /\ asg' = [a \in Assignments |->
                 IF a \in tx[t].held THEN [asg[a] EXCEPT !.st = "dead"] ELSE asg[a]]
    /\ model' = [m \in Models |-> IF m \in tx[t].held THEN "dead" ELSE model[m]]
    /\ allowed' = {m \in allowed : SubsetRow(m) \notin tx[t].held}
    /\ Commit(t)

-----------------------------------------------------------------------------
Step ==
    \E t \in Txs :
      \/ \E a \in Assignments, g \in Groups : CreateRead(t, a, g)
      \/ \E c \in Convs, g \in Groups : MoveLock(t, c, g)
      \/ \E c \in Convs : RestoreLock(t, c)
      \/ \E c \in Convs : DeleteLock(t, c)
      \/ AcquireGroup(t)
      \/ assert_group_has_room(t)
      \/ \E c \in Convs : CreateCommit(t, c)
      \/ RestoreCommit(t)
      \/ \E a \in Assignments : CreateGroupRead(t, a)
      \/ \E g \in Groups, C \in SUBSET Convs : CreateGroupCommit(t, g, C)
      \/ \E g \in Groups : DeleteGroupLock(t, g)
      \/ DeleteGroupCommit(t)
      \/ \E m \in Models : AssignRead(t, m)
      \/ \E a \in Assignments : AssignCommit(t, a)
      \/ \E a \in Assignments : RestoreAssignmentLock(t, a)
      \/ RestoreAssignmentCommit(t)
      \/ \E a \in Assignments : UnassignLock(t, a)
      \/ \E m \in Models : DeleteModelLock(t, m)
      \/ DeleteModelAssignments(t)
      \/ DeleteModelSubset(t)
      \/ CascadeRead(t)
      \/ CascadeConversations(t)
      \/ \E m \in Models : RestoreModelLock(t, m)
      \/ RestoreModelCommit(t)
      \/ \E T \in SUBSET Models : SyncRead(t, T)
      \/ SyncLock(t)
      \/ SyncCommit(t)
      \/ PruneRead(t)
      \/ PruneCommit(t)
      \/ Abort(t)

Next == Step /\ raced' = (raced \/ Cardinality({t \in Txs : tx'[t].pc # "idle"}) > 1)

Spec == Init /\ [][Next]_vars

-----------------------------------------------------------------------------
(* What the endpoints read.  The rows have one owner, a red teamer; a reader holds       *)
(* conversations:read_any in the group, a manager the break-glass permission, and a      *)
(* stranger nothing.                                                                     *)

Callers == {"owner", "reader", "manager", "stranger"}

scope(who, read_any) == who \in {"owner", "manager"} \/ (read_any /\ who = "reader")

get_conversation(who, c) == scope(who, TRUE) /\ conv[c].st = "live"

\* The deleted listing leaves out what a removed assignment makes unrestorable, and
\* read_any does not open it.
list_conversations(who, deleted) ==
    {c \in Convs : IF deleted THEN scope(who, FALSE) /\ conv[c].st = "dead"
                                    /\ asg[conv[c].asg].st = "live"
                   ELSE scope(who, TRUE) /\ conv[c].st = "live"}

list_conversations_endpoint(who) == list_conversations(who, FALSE)
list_evaluation_conversations_endpoint(who) == list_conversations(who, FALSE)
get_conversation_endpoint(who) == {c \in Convs : get_conversation(who, c)}

with_conversations(g) == LiveIn(g)
get_conversation_group(who, g) == scope(who, TRUE) /\ group[g] = "live"
list_conversation_groups(who) == {g \in Groups : scope(who, TRUE) /\ group[g] = "live"}

\* The members the group routes return.
Members(G) == UNION {with_conversations(g) : g \in G}
list_evaluation_groups_endpoint(who) == Members(list_conversation_groups(who))
list_conversation_groups_endpoint(who) == Members(list_conversation_groups(who))
get_conversation_group_endpoint(who) == Members({g \in Groups : get_conversation_group(who, g)})

\* The evaluation's model list: assignments with their model; the deleted listing hides
\* assignments whose model is gone.
list_evaluation_models(deleted) ==
    {a \in Assignments : IF deleted THEN asg[a].st = "dead" /\ model[asg[a].model] = "live"
                         ELSE asg[a].st = "live"}

\* The join a message is dispatched through does not ask whether its rows are live.
resolve_dispatch_target(c) == asg[conv[c].asg].model

-----------------------------------------------------------------------------
(* Properties *)

\* The structural cap of acquire_group_for_conversation and
\* assert_group_has_room: concurrent creates, moves and restores into one group
\* never overshoot max_conversation_group_size.
CapRespected == \A g \in Groups : Cardinality(LiveIn(g)) <= MaxGroupSize

\* services/groups.py: a live conversation never dangles under a dead group.
NoDangling == \A c \in Convs : conv[c].st = "live" => group[conv[c].grp] = "live"

Dangling(c) == conv[c].st = "live" /\ group[conv[c].grp] = "dead"

\* A step strands c only by pruning the group c is in.
StrandedByPrune(c) ==
    Dangling(c)' /\ ~Dangling(c) =>
        \E t \in Txs : tx[t].pc = "commit" /\ conv'[c].grp \in tx[t].empty

\* The group row lock at work: a create, move, restore or group delete never
\* strands a conversation under a dead group, whatever it races; only the
\* unlocked prune of an emptied group can.
OnlyPrunesStrand == [][\A c \in Convs : StrandedByPrune(c)]_vars

\* services/groups.py: an empty group never lingers, every live group keeps a
\* live conversation.
NoEmptyGroup == \A g \in Groups : group[g] = "live" => LiveIn(g) # {}

\* _join_live_assignment: a live conversation always has a live assignment,
\* because unassigning cascades to the conversations.
LiveConvLiveAssignment ==
    \A c \in Convs : conv[c].st = "live" => asg[conv[c].asg].st = "live"

\* unassign_group_models_for_model keeps a live subset row always pointing at a
\* live model.
LiveSubsetLiveModel == \A m \in allowed : model[m] = "live"

\* While requests do not overlap, every cascade, prune and restore reaches its last row
\* whatever was aborted before: a conversation that one route lists is listed by every
\* other, runs on an assignment and a model the evaluation still offers, and no listed
\* group is empty.
SerialReadsAgree ==
    ~raced =>
      /\ NoDangling /\ NoEmptyGroup /\ LiveConvLiveAssignment /\ LiveSubsetLiveModel
      /\ \A who \in Callers :
            LET seen == list_conversations_endpoint(who) IN
            /\ \A other \in {list_evaluation_conversations_endpoint(who),
                              get_conversation_endpoint(who), get_conversation_group_endpoint(who),
                              list_evaluation_groups_endpoint(who),
                              list_conversation_groups_endpoint(who)} : other = seen
            /\ \A c \in seen : /\ conv[c].asg \in list_evaluation_models(FALSE)
                               /\ model[resolve_dispatch_target(c)] = "live"
            /\ list_conversations(who, TRUE) \cap seen = {}

\* EvaluationGroupAiModel: only live models with a live row in the group's subset may be
\* assigned to its evaluations; however requests interleave there is no window to assign
\* a just-removed or just-deleted model, or to remove a just-used one.  (A removed
\* assignment that is re-instated is not checked against the subset.)
AssignedWithinSubset ==
    \A a \in Assignments : asg[a].st = "live" /\ ~asg[a].again =>
        asg[a].model \in allowed /\ model[asg[a].model] = "live"

=============================================================================
