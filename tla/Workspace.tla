----------------------------- MODULE Workspace -----------------------------
(***************************************************************************)
(* What people keep on the conversations of one scenario: the scenario's   *)
(* tasks, the tasks a red-teamer has checked off in a conversation, rolled *)
(* up per conversation group, and annotators' notes.  A live completion    *)
(* row means done.  A PATCH or DELETE of a task or a note locks its row,   *)
(* snapshots it for the audit trail and writes; checking a task on or off  *)
(* locks nothing, and the roll-up reads in two statements.  Visibility of  *)
(* the group is module Membership's.                                       *)
(***************************************************************************)
EXTENDS Integers, FiniteSets, Callers

CONSTANTS
    Convs, Groups, TaskIds, CompletionIds, NoteIds,
    Editors,    \* users with write access to the parent group
    Texts       \* contents of a task or a note

ASSUME WorkspaceAssumption ==
    /\ Managers \subseteq Users /\ Editors \subseteq Users
    /\ IsFiniteSet(Convs) /\ TaskIds \cap NoteIds = {}
    /\ None \notin Convs \cup Groups \cup TaskIds \cup CompletionIds \cup NoteIds \cup Users \cup Texts

VARIABLES
    scenario,   \* the scenario is live
    conv,       \* conv[c]: conversation group; whether it and its ancestors are live
    task,       \* task[t]: the tasks row
    comp,       \* comp[k]: the task_completions row
    note,       \* note[n]: the notes row
    workReq     \* workReq[r]: the request between its reads and its commit

workspaceVars == <<scenario, conv, task, comp, note, workReq>>

Liveness == {"none", "live", "dead"}

Conv == [live : BOOLEAN, grp : Groups]
Task == [st : Liveness, text : Texts \cup {None}, by : Users \cup {None}]
Note == [st : Liveness, conv : Convs \cup {None}, text : Texts \cup {None}, author : Users \cup {None},
         by : Users \cup {None}]
TaskCompletion == [st : Liveness, conv : Convs \cup {None}, task : TaskIds \cup {None}, grp : Groups \cup {None}]

WorkRequest == [op : {"idle", "complete", "uncomplete", "patch", "delete", "rollup"},
                row : TaskIds \cup NoteIds \cup CompletionIds \cup {None}, conv : Convs \cup {None},
                grp : Groups \cup {None}, before : Texts \cup {None}, by : Users \cup {None},
                counted : SUBSET Convs]   \* the conversations a roll-up's total counted

IdleWorkReq == [op |-> "idle", row |-> None, conv |-> None, grp |-> None, before |-> None, by |-> None,
                counted |-> {}]

\* Every row and request is one the program can hold.
WorkspaceTypeOK ==
    /\ scenario \in BOOLEAN
    /\ conv \in [Convs -> Conv]
    /\ task \in [TaskIds -> Task]
    /\ comp \in [CompletionIds -> TaskCompletion]
    /\ note \in [NoteIds -> Note]
    /\ workReq \in [Requests -> WorkRequest]

WorkspaceInit ==
    /\ scenario = TRUE
    /\ conv \in [Convs -> {c \in Conv : c.live}]
    /\ task = [t \in TaskIds |-> [st |-> "none", text |-> None, by |-> None]]
    /\ comp = [k \in CompletionIds |-> [st |-> "none", conv |-> None, task |-> None, grp |-> None]]
    /\ note = [n \in NoteIds |-> [st |-> "none", conv |-> None, text |-> None, author |-> None, by |-> None]]
    /\ workReq = [r \in Requests |-> IdleWorkReq]

WorkIdle(r) == workReq[r].op = "idle"
Start(r, fields) == workReq' = [workReq EXCEPT ![r] = fields]
WorkFinish(r) == workReq' = [workReq EXCEPT ![r] = IdleWorkReq]

\* A row read FOR UPDATE by a PATCH or a DELETE that has not committed.
Locked(row) == \E r \in Requests : workReq[r].op \in {"patch", "delete"} /\ workReq[r].row = row

----------------------------------------------------------------------------
(* Tasks.                                                                  *)

authorize_scenario_mutation(u) == scenario /\ u \in Editors \cup Managers

create_task(t, text) == task[t].st = "none" /\ task' = [task EXCEPT ![t] = [st |-> "live", text |-> text, by |-> None]]

create_task_endpoint(u, t, text) ==
    /\ authorize_scenario_mutation(u)
    /\ create_task(t, text)
    /\ UNCHANGED <<scenario, conv, comp, note, workReq>>

get_task(t) == task[t].st = "live" /\ ~Locked(t)

update_task_endpoint(r, u, t) ==
    /\ WorkIdle(r) /\ authorize_scenario_mutation(u)
    /\ get_task(t)
    /\ Start(r, [IdleWorkReq EXCEPT !.op = "patch", !.row = t, !.before = task[t].text, !.by = u])
    /\ UNCHANGED <<scenario, conv, task, comp, note>>

update_task(r, text) ==
    /\ workReq[r].op = "patch" /\ workReq[r].row \in TaskIds
    /\ task' = [task EXCEPT ![workReq[r].row].text = text]
    /\ WorkFinish(r)
    /\ UNCHANGED <<scenario, conv, comp, note>>

delete_task_endpoint(r, u, t) ==
    /\ WorkIdle(r) /\ authorize_scenario_mutation(u)
    /\ get_task(t)
    /\ Start(r, [IdleWorkReq EXCEPT !.op = "delete", !.row = t, !.before = task[t].text, !.by = u])
    /\ UNCHANGED <<scenario, conv, task, comp, note>>

soft_delete_task(r) ==
    /\ workReq[r].op = "delete" /\ workReq[r].row \in TaskIds
    /\ task' = [task EXCEPT ![workReq[r].row].st = "dead", ![workReq[r].row].by = workReq[r].by]
    /\ WorkFinish(r)
    /\ UNCHANGED <<scenario, conv, comp, note>>

get_restorable_task(u, t) == scenario /\ task[t].st = "dead" /\ (u \in Managers \/ task[t].by = u)

restore_task(t) == task' = [task EXCEPT ![t].st = "live", ![t].by = None]

restore_task_endpoint(u, t) ==
    /\ authorize_scenario_mutation(u)
    /\ get_restorable_task(u, t)
    /\ restore_task(t)
    /\ UNCHANGED <<scenario, conv, comp, note, workReq>>

----------------------------------------------------------------------------
(* Checking tasks on and off.                                              *)

LiveCompletions == {k \in CompletionIds : comp[k].st = "live"}
get_owned_live_completion(c, t) == {k \in LiveCompletions : comp[k].conv = c /\ comp[k].task = t}

\* The conversation is live; its scenario's liveness is not read.
resolve_live_conversation(c) == conv[c].live
assert_task_in_conversation_scenario(t) == task[t].st = "live"

\* The reads of PUT completed-tasks: an existing completion is returned as it is.
complete_task_endpoint(r, c, t) ==
    /\ WorkIdle(r)
    /\ resolve_live_conversation(c)
    /\ assert_task_in_conversation_scenario(t)
    /\ get_owned_live_completion(c, t) = {}
    /\ Start(r, [IdleWorkReq EXCEPT !.op = "complete", !.row = t, !.conv = c, !.grp = conv[c].grp])
    /\ UNCHANGED <<scenario, conv, task, comp, note>>

\* The insert; the index turns a second live completion into the one that won.
complete_task(r, k) ==
    /\ workReq[r].op = "complete"
    /\ IF get_owned_live_completion(workReq[r].conv, workReq[r].row) # {} THEN comp' = comp
       ELSE /\ comp[k].st = "none"
            /\ comp' = [comp EXCEPT ![k] =
                 [st |-> "live", conv |-> workReq[r].conv, task |-> workReq[r].row, grp |-> workReq[r].grp]]
    /\ WorkFinish(r)
    /\ UNCHANGED <<scenario, conv, task, note>>

uncomplete_task_endpoint(r, c, t) ==
    /\ WorkIdle(r)
    /\ resolve_live_conversation(c)
    /\ \E k \in get_owned_live_completion(c, t) : Start(r, [IdleWorkReq EXCEPT !.op = "uncomplete", !.row = k])
    /\ UNCHANGED <<scenario, conv, task, comp, note>>

uncomplete_task(r) ==
    /\ workReq[r].op = "uncomplete"
    /\ comp' = [comp EXCEPT ![workReq[r].row].st = "dead"]
    /\ WorkFinish(r)
    /\ UNCHANGED <<scenario, conv, task, note>>

----------------------------------------------------------------------------
(* The roll-up of a conversation group: two selects, two snapshots.        *)

ConversationsOf(g) == {c \in Convs : conv[c].live /\ conv[c].grp = g}

\* The first counts the group's conversations.
rollup_total(r, g) ==
    /\ WorkIdle(r)
    /\ Start(r, [IdleWorkReq EXCEPT !.op = "rollup", !.grp = g, !.counted = ConversationsOf(g)])
    /\ UNCHANGED <<scenario, conv, task, comp, note>>

\* Variant: the second trusts the group recorded with the completion.
RollupByRecordedGroup(r) ==
    [total |-> Cardinality(workReq[r].counted),
     counts |-> [t \in TaskIds |-> Cardinality({k \in LiveCompletions :
        comp[k].task = t /\ conv[comp[k].conv].live /\ comp[k].grp = workReq[r].grp})]]

\* The second counts completions by the conversations' current group: K of N per task.
group_completion_rollup(r) ==
    [total |-> Cardinality(workReq[r].counted),
     counts |-> [t \in TaskIds |-> Cardinality({k \in LiveCompletions :
        comp[k].task = t /\ comp[k].conv \in ConversationsOf(workReq[r].grp)})]]

group_completed_tasks_rollup_endpoint(r) ==
    /\ workReq[r].op = "rollup"
    /\ WorkFinish(r)
    /\ UNCHANGED <<scenario, conv, task, comp, note>>

----------------------------------------------------------------------------
(* Notes.                                                                  *)

resolve_note_conversation(c) == conv[c].live

create_note(n, u, c, text) ==
    /\ note[n].st = "none"
    /\ note' = [note EXCEPT ![n] = [st |-> "live", conv |-> c, text |-> text, author |-> u, by |-> None]]

create_note_endpoint(u, n, c, text) ==
    /\ resolve_note_conversation(c)
    /\ create_note(n, u, c, text)
    /\ UNCHANGED <<scenario, conv, task, comp, workReq>>

\* Author scope, lifted for a manager; read FOR UPDATE into a refreshed instance.
get_note(u, n) ==
    /\ note[n].st = "live" /\ conv[note[n].conv].live
    /\ u \in Managers \/ note[n].author = u
    /\ ~Locked(n)

\* Variant: the note is read without its lock.
UpdateNoteUnlocked(r, u, n) ==
    /\ WorkIdle(r)
    /\ note[n].st = "live" /\ conv[note[n].conv].live /\ (u \in Managers \/ note[n].author = u)
    /\ Start(r, [IdleWorkReq EXCEPT !.op = "patch", !.row = n, !.before = note[n].text, !.by = u])
    /\ UNCHANGED <<scenario, conv, task, comp, note>>

update_note_endpoint(r, u, n) ==
    /\ WorkIdle(r) /\ get_note(u, n)
    /\ Start(r, [IdleWorkReq EXCEPT !.op = "patch", !.row = n, !.before = note[n].text, !.by = u])
    /\ UNCHANGED <<scenario, conv, task, comp, note>>

update_note(r, text) ==
    /\ workReq[r].op = "patch" /\ workReq[r].row \in NoteIds
    /\ note' = [note EXCEPT ![workReq[r].row].text = text]
    /\ WorkFinish(r)
    /\ UNCHANGED <<scenario, conv, task, comp>>

delete_note_endpoint(r, u, n) ==
    /\ WorkIdle(r) /\ get_note(u, n)
    /\ Start(r, [IdleWorkReq EXCEPT !.op = "delete", !.row = n, !.before = note[n].text, !.by = u])
    /\ UNCHANGED <<scenario, conv, task, comp, note>>

soft_delete_note(r) ==
    /\ workReq[r].op = "delete" /\ workReq[r].row \in NoteIds
    /\ note' = [note EXCEPT ![workReq[r].row].st = "dead", ![workReq[r].row].by = workReq[r].by]
    /\ WorkFinish(r)
    /\ UNCHANGED <<scenario, conv, task, comp>>

get_restorable_note(u, n) ==
    /\ note[n].st = "dead" /\ conv[note[n].conv].live
    /\ u \in Managers \/ (note[n].author = u /\ note[n].by = u)

restore_note(n) == note' = [note EXCEPT ![n].st = "live", ![n].by = None]

restore_note_endpoint(u, n) ==
    /\ get_restorable_note(u, n)
    /\ restore_note(n)
    /\ UNCHANGED <<scenario, conv, task, comp, workReq>>

----------------------------------------------------------------------------
(* What other components change.                                           *)

RollbackWork(r) ==
    /\ ~WorkIdle(r)
    /\ WorkFinish(r)
    /\ UNCHANGED <<scenario, conv, task, comp, note>>

\* A conversation is deleted, restored or moved to another conversation group.
ChangeConversation(c) ==
    /\ \E new \in Conv : new # conv[c] /\ conv' = [conv EXCEPT ![c] = new]
    /\ UNCHANGED <<scenario, task, comp, note, workReq>>

ToggleScenario ==
    /\ scenario' = ~scenario
    /\ UNCHANGED <<conv, task, comp, note, workReq>>

WorkspaceNext ==
    \/ \E u \in Users, t \in TaskIds : \/ \E text \in Texts : create_task_endpoint(u, t, text)
                                       \/ restore_task_endpoint(u, t)
                                       \/ \E r \in Requests : update_task_endpoint(r, u, t) \/ delete_task_endpoint(r, u, t)
    \/ \E u \in Users, n \in NoteIds : \/ \E text \in Texts, c \in Convs : create_note_endpoint(u, n, c, text)
                                       \/ restore_note_endpoint(u, n)
                                       \/ \E r \in Requests : update_note_endpoint(r, u, n) \/ delete_note_endpoint(r, u, n)
    \/ \E r \in Requests : \/ \E text \in Texts : update_task(r, text) \/ update_note(r, text)
                           \/ soft_delete_task(r) \/ soft_delete_note(r)
                           \/ \E k \in CompletionIds : complete_task(r, k)
                           \/ uncomplete_task(r) \/ RollbackWork(r)
                           \/ \E g \in Groups : rollup_total(r, g)
                           \/ group_completed_tasks_rollup_endpoint(r)
    \/ \E r \in Requests, c \in Convs, t \in TaskIds : complete_task_endpoint(r, c, t) \/ uncomplete_task_endpoint(r, c, t)
    \/ \E c \in Convs : ChangeConversation(c)
    \/ ToggleScenario

WorkspaceSpec == WorkspaceInit /\ [][WorkspaceNext]_workspaceVars

----------------------------------------------------------------------------
(* The list of a conversation's check-offs.                                *)

list_conversation_completions(c) == IF conv[c].live THEN {k \in LiveCompletions : comp[k].conv = c} ELSE {}

----------------------------------------------------------------------------
(* Properties.                                                             *)

\* Whatever moves between the two selects of a roll-up, its K of a task is what the group's
\* conversations list at the second, and exceeds N at most by the conversations that joined
\* the group since the first: not at all when none did (group_completion_rollup against
\* list_conversation_completions).
RollupExact ==
    \A r \in Requests : workReq[r].op = "rollup" =>
      LET rollup == group_completion_rollup(r)
          members == ConversationsOf(workReq[r].grp)
      IN \A t \in TaskIds :
        /\ rollup.counts[t] <= rollup.total + Cardinality(members \ workReq[r].counted)
        /\ rollup.counts[t] = Cardinality({c \in Convs : conv[c].grp = workReq[r].grp /\
             \E k \in list_conversation_completions(c) : comp[k].task = t})

\* The snapshot an edit or a delete writes to the audit trail is the content it replaces,
\* of a row that is still live: nobody else's change falls between (the FOR UPDATE reads
\* of get_task and get_note).
AuditSnapshotFresh ==
    \A r \in Requests : workReq[r].op \in {"patch", "delete"} =>
      LET edited == workReq[r].row
          row == IF edited \in TaskIds THEN task[edited] ELSE note[edited]
      IN row.st = "live" /\ row.text = workReq[r].before
=============================================================================
