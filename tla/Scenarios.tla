----------------------------- MODULE Scenarios -----------------------------
(***************************************************************************)
(* The scenarios of one evaluation, in the order their position column     *)
(* gives, and its tag keys.  Nothing in the database keeps positions       *)
(* apart: create and restore append under the evaluation's row lock, a     *)
(* reorder locks the live scenarios only.  A request is two steps here:    *)
(* what it reads, then its commit.  A reorder's first step is the snapshot *)
(* of its SELECT ... FOR UPDATE; while it waits for the row locks other    *)
(* requests commit, and it then gets the rows of the snapshot that are     *)
(* still live, in their newest version, and none that came later.          *)
(***************************************************************************)
EXTENDS Integers, FiniteSets, FiniteSetsExt, Callers

CONSTANTS
    ScenarioIds, Keys,
    MAX_TAGS,          \* 16 in the code
    MaxPosition        \* bound on the positions a run hands out

ASSUME ScenariosAssumption ==
    /\ Managers \subseteq Users
    /\ IsFiniteSet(ScenarioIds)
    /\ MAX_TAGS \in Nat /\ MaxPosition \in Nat
    /\ None \notin ScenarioIds \cup Users \cup Keys

VARIABLES
    alive,     \* the evaluation is live
    sc,        \* sc[s]: the scenarios row
    keys,      \* live evaluation_tag_keys rows; the partial unique index makes them a set
    scenarioReq, \* scenarioReq[r]: the request between its reads and its commit
    straddled  \* history: an overtaken reorder missed a live scenario

scenariosVars == <<alive, sc, keys, scenarioReq, straddled>>

Scenario == [st : {"none", "live", "dead"}, position : Nat, by : Users \cup {None}]

ScenarioRequest == [op : {"idle", "create", "restore", "reorder", "add_key"},
                   scenario : ScenarioIds \cup {None}, position : Nat,
                   seen : SUBSET ScenarioIds, overtaken : BOOLEAN, key : Keys \cup {None}]

IdleScenarioReq == [op |-> "idle", scenario |-> None, position |-> 0, seen |-> {},
                    overtaken |-> FALSE, key |-> None]

\* Every row and request is one the program can hold.
ScenariosTypeOK ==
    /\ alive \in BOOLEAN
    /\ sc \in [ScenarioIds -> Scenario]
    /\ keys \subseteq Keys
    /\ scenarioReq \in [Requests -> ScenarioRequest]
    /\ straddled \in BOOLEAN

ScenariosInit ==
    /\ alive = TRUE
    /\ sc = [s \in ScenarioIds |-> [st |-> "none", position |-> 0, by |-> None]]
    /\ keys = {}
    /\ scenarioReq = [r \in Requests |-> IdleScenarioReq]
    /\ straddled = FALSE

----------------------------------------------------------------------------
Live == {s \in ScenarioIds : sc[s].st = "live"}
ScenarioIdle(r) == scenarioReq[r].op = "idle"
FreeScenario(r) == [scenarioReq EXCEPT ![r] = IdleScenarioReq]
Start(r, fields) == [scenarioReq EXCEPT ![r] = fields]

\* The evaluation row is held FOR UPDATE by a create or a restore.
EvaluationLocked == \E r \in Requests : scenarioReq[r].op \in {"create", "restore"}

\* The caller's write access is that of module GroupLifecycle; here the evaluation is live.
evaluation_mutation_allowed == alive

next_position == IF Live = {} THEN 0 ELSE Max({sc[s].position : s \in Live}) + 1

\* Variant: the evaluation is not locked before the positions are read.
CreateUnlocked(r) ==
    /\ ScenarioIdle(r) /\ evaluation_mutation_allowed
    /\ next_position <= MaxPosition
    /\ scenarioReq' = Start(r, [IdleScenarioReq EXCEPT !.op = "create", !.position = next_position])
    /\ UNCHANGED <<alive, sc, keys, straddled>>

create_scenario_endpoint(r) ==
    /\ ScenarioIdle(r) /\ evaluation_mutation_allowed
    /\ ~EvaluationLocked
    /\ next_position <= MaxPosition
    /\ scenarioReq' = Start(r, [IdleScenarioReq EXCEPT !.op = "create", !.position = next_position])
    /\ UNCHANGED <<alive, sc, keys, straddled>>

create_scenario(r, s) ==
    /\ scenarioReq[r].op = "create"
    /\ sc[s].st = "none"
    /\ sc' = [sc EXCEPT ![s] = [st |-> "live", position |-> scenarioReq[r].position, by |-> None]]
    /\ scenarioReq' = FreeScenario(r)
    /\ UNCHANGED <<alive, keys, straddled>>

soft_delete_scenario(s, u) == sc' = [sc EXCEPT ![s].st = "dead", ![s].by = u]

delete_scenario_endpoint(u, s) ==
    /\ evaluation_mutation_allowed
    /\ sc[s].st = "live"
    /\ soft_delete_scenario(s, u)
    /\ UNCHANGED <<alive, keys, scenarioReq, straddled>>

\* A manager restores anything, others what they deleted; the row is read FOR UPDATE.
get_restorable_scenario(u, s) ==
    /\ sc[s].st = "dead" /\ (u \in Managers \/ sc[s].by = u)
    /\ ~\E r \in Requests : scenarioReq[r].scenario = s

restore_scenario_endpoint(r, u, s) ==
    /\ ScenarioIdle(r) /\ evaluation_mutation_allowed
    /\ get_restorable_scenario(u, s)
    /\ ~EvaluationLocked
    /\ next_position <= MaxPosition
    /\ scenarioReq' = Start(r, [IdleScenarioReq EXCEPT !.op = "restore", !.scenario = s, !.position = next_position])
    /\ UNCHANGED <<alive, sc, keys, straddled>>

\* r is done; the reorders still waiting for their locks have been overtaken.
Overtake(r) == [q \in Requests |->
                  IF q = r THEN IdleScenarioReq
                  ELSE [scenarioReq[q] EXCEPT !.overtaken = scenarioReq[q].op = "reorder"]]

restore_scenario(r) ==
    /\ scenarioReq[r].op = "restore"
    /\ sc' = [sc EXCEPT ![scenarioReq[r].scenario] =
                 [st |-> "live", position |-> scenarioReq[r].position, by |-> None]]
    /\ scenarioReq' = Overtake(r)
    /\ UNCHANGED <<alive, keys, straddled>>

reorder_scenarios_endpoint(r) ==
    /\ ScenarioIdle(r) /\ evaluation_mutation_allowed
    /\ scenarioReq' = Start(r, [IdleScenarioReq EXCEPT !.op = "reorder", !.seen = Live])
    /\ UNCHANGED <<alive, sc, keys, straddled>>

\* ScenarioReorderRequest: an order of all the rows the reorder locked, without duplicates;
\* any other list is refused.
ScenarioReorderRequest(rows) == {order \in [rows -> 0 .. Cardinality(rows) - 1] :
                                   \A s, t \in rows : s # t => order[s] # order[t]}

reorder_scenarios(r) ==
    LET rows == scenarioReq[r].seen \cap Live IN
    /\ scenarioReq[r].op = "reorder"
    /\ rows # {}
    /\ \E order \in ScenarioReorderRequest(rows) :
         sc' = [s \in ScenarioIds |-> IF s \in rows THEN [sc[s] EXCEPT !.position = order[s]] ELSE sc[s]]
    /\ straddled' = (straddled \/ (scenarioReq[r].overtaken /\ rows # Live))
    /\ scenarioReq' = Overtake(r)
    /\ UNCHANGED <<alive, keys>>

\* A refused or broken request rolls back.
Rollback(r) ==
    /\ ~ScenarioIdle(r)
    /\ scenarioReq' = FreeScenario(r)
    /\ UNCHANGED <<alive, sc, keys, straddled>>

\* The evaluation itself is deleted or restored (module GroupLifecycle).
ToggleEvaluation ==
    /\ ~EvaluationLocked
    /\ alive' = ~alive
    /\ UNCHANGED <<sc, keys, scenarioReq, straddled>>

----------------------------------------------------------------------------
\* The allowed tag keys, and what of a tag map reaches the model.

\* One unlocked read settles "already allowed?" and "full?".
add_tag_key_endpoint(r, k) ==
    /\ ScenarioIdle(r) /\ evaluation_mutation_allowed
    /\ k \notin keys
    /\ Cardinality(keys) < MAX_TAGS
    /\ scenarioReq' = Start(r, [IdleScenarioReq EXCEPT !.op = "add_key", !.key = k])
    /\ UNCHANGED <<alive, sc, keys, straddled>>

\* The insert; a key that is there by now is the 409 of the unique index.
add_tag_key(r) ==
    /\ scenarioReq[r].op = "add_key"
    /\ scenarioReq[r].key \notin keys
    /\ keys' = keys \cup {scenarioReq[r].key}
    /\ scenarioReq' = FreeScenario(r)
    /\ UNCHANGED <<alive, sc, straddled>>

remove_tag_key(k) == k \in keys /\ keys' = keys \ {k}

remove_tag_key_endpoint(k) ==
    /\ evaluation_mutation_allowed
    /\ remove_tag_key(k)
    /\ UNCHANGED <<alive, sc, scenarioReq, straddled>>

\* Authoring: the tags of a conversation are refused or stored.
assert_tags_allowed(enabled, restricted, tags) ==
    tags = {} \/ (enabled /\ (restricted => tags \subseteq keys))

\* Sending: the tags the policy lets through, less those whose value has no text.
allowed_tags_only(enabled, restricted, tags) ==
    IF ~enabled THEN {} ELSE IF restricted THEN tags \cap keys ELSE tags

sent_tag_context(tags, blank) == tags \ blank

\* Variant: an export calls a blank value sent.
UnsentCountsBlank(enabled, restricted, tags, blank) ==
    IF ~enabled THEN tags ELSE {k \in tags : restricted /\ k \notin keys}

\* Reading back: the tags an export marks as not sent.
unsent(enabled, restricted, tags, blank) ==
    IF ~enabled THEN tags ELSE {k \in tags : k \in blank \/ (restricted /\ k \notin keys)}

----------------------------------------------------------------------------
ScenariosNext ==
    \/ \E r \in Requests :
         \/ create_scenario_endpoint(r)
         \/ \E s \in ScenarioIds : create_scenario(r, s)
         \/ \E u \in Users, s \in ScenarioIds : restore_scenario_endpoint(r, u, s)
         \/ restore_scenario(r)
         \/ reorder_scenarios_endpoint(r)
         \/ reorder_scenarios(r)
         \/ \E k \in Keys : add_tag_key_endpoint(r, k)
         \/ add_tag_key(r)
         \/ Rollback(r)
    \/ \E u \in Users, s \in ScenarioIds : delete_scenario_endpoint(u, s)
    \/ \E k \in Keys : remove_tag_key_endpoint(k)
    \/ ToggleEvaluation

ScenariosSpec == ScenariosInit /\ [][ScenariosNext]_scenariosVars

----------------------------------------------------------------------------
\* Two live scenarios never claim one position, although nothing in the database enforces it
\* and reorders run beside creates, deletes and restores.  The one exception: a reorder that,
\* between its snapshot and its locks, is overtaken by another reorder or by a restore, and misses
\* a scenario created meanwhile; "concurrent reorders serialize" covers the rows, not the set.
PositionsDistinct ==
    \A s, t \in Live : s # t /\ sc[s].position = sc[t].position => straddled

\* A created or restored scenario comes last in the order at the moment it appears, whatever
\* committed since it read the positions (create_scenario and restore_scenario: "appended last").
AppendedLast ==
    \A s \in ScenarioIds : sc[s].st # "live" /\ sc'[s].st = "live" =>
        straddled \/ \A t \in Live : sc[t].position < sc'[s].position

\* The order a run presents is a total order that appending extends: create_scenario_endpoint,
\* restore_scenario_endpoint and reorder_scenarios, in any interleaving short of the overtaken one.
OrderKept == [][PositionsDistinct' /\ AppendedLast]_scenariosVars

\* The three readings of the tag policy agree for every allow-list a run reaches: what an export
\* reports as unsent is exactly what the prompt left out, and what authoring accepts is sent.
FoldAgrees ==
    \A enabled, restricted \in BOOLEAN, tags, blank \in SUBSET Keys :
        LET folded == allowed_tags_only(enabled, restricted, tags) IN
        /\ sent_tag_context(folded, blank) = tags \ unsent(enabled, restricted, tags, blank)
        /\ assert_tags_allowed(enabled, restricted, tags) => folded = tags
=============================================================================
