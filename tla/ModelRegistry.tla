---------------------------- MODULE ModelRegistry ----------------------------
(***************************************************************************)
(* The registry of AI models: the ai_models rows, the operator requests    *)
(* that write them, the health checks the Celery worker runs against them, *)
(* the usage stamps of dispatched messages, and the inactivity sweep.      *)
(* A request holds its row FOR UPDATE, so what it writes up to its first   *)
(* commit is one step; the automatic health check goes on after that       *)
(* commit, and the worker reads, probes and settles in separate            *)
(* transactions.                                                           *)
(***************************************************************************)
EXTENDS Integers, FiniteSets

CONSTANTS
    Models,        \* row ids
    Names,         \* name and model_alias, the two unique columns, as one
    Vendors, Generic,
    WebVendors,    \* vendors all of whose models have a web option
    WebModels,     \* <<vendor, id>> of the others that have one: litellm's capability map
    PlatformKeys,  \* vendors with a platform credential, or one out of band
    Keys,          \* stored credentials
    Ids, PrefixOf, \* provider_model_ids, and the vendor prefix one starts with
    Drafts,        \* AiModelCreate payloads
    Patches,       \* AiModelUpdate payloads: a value for each field that is set
    Reqs, Tasks, Sweeps,
    AlertHours,    \* inactivity_alert_hours of the rows that have one, in ticks
    MaxNow, MaxEdits, MaxChecks,
    None

\* What an operator declares in a create or a patch.
Declared == [name : Names, provider : Vendors, id : Ids, endpoint : BOOLEAN, image : BOOLEAN,
             text : BOOLEAN, web : BOOLEAN, off : BOOLEAN, warm : BOOLEAN, hours : BOOLEAN]

ASSUME RegistryAssumption ==
    /\ Generic \in Vendors /\ PlatformKeys \subseteq Vendors \ {Generic}
    /\ WebVendors \subseteq Vendors /\ WebModels \subseteq Vendors \X Ids
    /\ PrefixOf \in [Ids -> Vendors \cup {None}]
    /\ Drafts \subseteq Declared
    /\ \A p \in Patches : \E d \in Declared : DOMAIN p \subseteq DOMAIN d /\ \A f \in DOMAIN p : p[f] = d[f]
    /\ AlertHours \in Nat \ {0} /\ MaxNow \in Nat /\ MaxEdits \in Nat /\ MaxChecks \in Nat
    /\ None \notin Models \cup Names \cup Keys \cup Vendors

VARIABLES
    ai,     \* ai[m]: the ai_models row
    req,    \* req[r]: a request past its first commit, or holding its row
    task,   \* task[k]: a run_model_health_check message or run
    sweep,  \* sweep[s]: a check_model_inactivity run
    now,    \* the clock the inactivity columns are stamped from
    edits, checks   \* operator writes and check stamps so far

vars == <<ai, req, task, sweep, now, edits, checks>>

\* PROBED_CALL_FIELDS: what a capability finding is evidence about.
PROBED_CALL_FIELDS == {"image", "endpoint", "provider", "id"}
probed_call(d) == [f \in PROBED_CALL_FIELDS |-> d[f]]

\* The provider call a row describes: those fields and the stored credential.
CallOf(row) == <<probed_call(row.d), row.key>>

\* The last four fields are history: the call the verdict was reached with; whether
\* the call has changed since the row last showed a check in flight; the alerts sent
\* since the model was last used or re-armed; the rules the row predates, no write
\* having come under them yet.  capability_mismatch is kept as the call the finding was
\* made on (None: NULL).
NoRow == [st |-> "none", d |-> None, key |-> None, used |-> 0, alerted |-> -1,
          health |-> "never", token |-> 0, overdue |-> FALSE, mismatch |-> None,
          about |-> None, stale |-> FALSE, alerts |-> 0, legacy |-> {}]

IdleReq == [pc |-> "idle", model |-> None, saw |-> "never"]
NoTask == [pc |-> "none", model |-> None, token |-> 0, call |-> None]
NoSweep == [pc |-> "idle", now |-> 0, left |-> {}]

\* The rules create_model and update_model check; they are advisory, and rows that
\* predate them are in the table.
Rules == {"endpoint", "prefix", "web"}

Probed == [PROBED_CALL_FIELDS -> BOOLEAN \cup Vendors \cup Ids]
ProviderCall == Probed \X (Keys \cup {None})

AiModel ==
    [st : {"none", "live", "dead"}, d : Declared \cup {None}, key : Keys \cup {None},
     used : 0..MaxNow, alerted : -1..MaxNow, health : {"never", "checking", "alive", "dead"},
     token : 0..MaxChecks, overdue : BOOLEAN, mismatch : Probed \cup {None},
     about : ProviderCall \cup {None}, stale : BOOLEAN, alerts : 0..2,
     legacy : SUBSET Rules]

Request ==
    {IdleReq} \cup [pc : {"autocheck", "start", "manual", "dispatched"}, model : Models,
                    saw : {"never", "checking", "alive", "dead"}]

HealthTask ==
    {NoTask} \cup [pc : {"queued"}, model : Models, token : {0}, call : {None}]
             \cup [pc : {"probing"}, model : Models, token : 0..MaxChecks, call : ProviderCall]

InactivitySweep == {NoSweep} \cup [pc : {"claim"}, now : 0..MaxNow, left : SUBSET Models]

TypeOK ==
    /\ ai \in [Models -> AiModel]
    /\ \A m \in Models : ai[m].st # "none" => ai[m].d \in Declared
    /\ req \in [Reqs -> Request]
    /\ task \in [Tasks -> HealthTask]
    /\ sweep \in [Sweeps -> InactivitySweep]
    /\ now \in 0..MaxNow /\ edits \in 0..MaxEdits /\ checks \in 0..MaxChecks

-----------------------------------------------------------------------------
(* What a row may be, and who may see it *)

missing_inference_endpoint(d) == d.provider = Generic /\ ~d.endpoint

\* With an endpoint of its own the id goes through as typed.
prefixed_model_id(d) ==
    ~d.endpoint /\ d.provider # Generic /\ PrefixOf[d.id] = d.provider

\* Decided by the vendor alone, or for the vendor's model.
supports_web_access(d) == d.provider \in WebVendors \/ <<d.provider, d.id>> \in WebModels

\* The rules a declaration breaks.
Broken(d) ==
    {rule \in Rules : \/ rule = "endpoint" /\ missing_inference_endpoint(d)
                      \/ rule = "prefix" /\ prefixed_model_id(d)
                      \/ rule = "web" /\ d.web /\ ~supports_web_access(d)}

Valid(d) == Broken(d) = {}

\* The partial unique indexes on name and model_alias, over live rows.
Taken(n, m) == \E o \in Models \ {m} : ai[o].st = "live" /\ ai[o].d.name = n

get_model(m, include_disabled) == ai[m].st = "live" /\ (include_disabled \/ ~ai[m].d.off)
get_model_by_name(n) == {m \in Models : ai[m].st = "live" /\ ai[m].d.name = n}

list_models(f) ==
    IF f.deleted THEN {m \in Models : ai[m].st = "dead"}
    ELSE {m \in Models : get_model(m, f.include_disabled)}

\* The route's gates: models:read (or an in-group grant of it), models:update to see
\* disabled rows, models:delete to see tombstones.
list_models_endpoint(perms, inGroup, f) ==
    IF /\ "read" \in perms \/ inGroup
       /\ f.include_disabled => "update" \in perms
       /\ f.deleted => "delete" \in perms
    THEN list_models(f) ELSE {}

get_model_endpoint(perms, m) == "read" \in perms /\ get_model(m, "update" \in perms)

has_resolvable_credential(row) == row.key # None \/ row.d.provider \in PlatformKeys

\* _build_call and _apply_web_access: a call that is refused before it is sent.
build_call(d) == d.text /\ ~missing_inference_endpoint(d)
apply_web_access(d) == d.web => supports_web_access(d)

\* _resolve_model: dispatch finds live, enabled rows only.
resolve_model(m) == ai[m].st = "live" /\ ~ai[m].d.off

-----------------------------------------------------------------------------
(* Health checks *)

\* Still owned by a task that could settle it: younger than the task's time limit.
check_in_flight(row) == row.health = "checking" /\ ~row.overdue

\* A row is marked in flight and stamped.  The ORM writes the columns that differ from
\* what the request loaded: a row it saw checking keeps the status it has by now.
start_health_check(row, saw) ==
    LET h == IF saw = "checking" THEN row.health ELSE "checking" IN
    [row EXCEPT !.health = h, !.token = checks + 1, !.overdue = FALSE,
                !.stale = @ /\ h # "checking"]

\* A row locked by a manual check that has not committed: writers wait.
Locked(m) == \E r \in Reqs : req[r].pc = "manual" /\ req[r].model = m

Enqueue(m) ==
    \E k \in Tasks :
       /\ task[k].pc = "none"
       /\ task' = [task EXCEPT ![k] = [NoTask EXCEPT !.pc = "queued", !.model = m]]

\* _autocheck skips disabled rows and rows with nothing to call yet; otherwise the
\* request commits and goes on.
NeedsCheck(row) == ~row.d.off /\ (has_resolvable_credential(row) \/ row.d.endpoint)

AfterCommit(r, m, check) ==
    req' = IF check /\ NeedsCheck(ai'[m])
           THEN [req EXCEPT ![r] = [pc |-> "autocheck", model |-> m, saw |-> ai'[m].health]]
           ELSE req

\* The broker takes the message ...
AutocheckEnqueue(r) ==
    /\ req[r].pc = "autocheck"
    /\ Enqueue(req[r].model)
    /\ req' = [req EXCEPT ![r].pc = "start"]
    /\ UNCHANGED <<ai, sweep, now, edits, checks>>

\* ... or does not: the row is kept, unchecked.
AutocheckUnavailable(r) ==
    /\ req[r].pc = "autocheck"
    /\ req' = [req EXCEPT ![r] = IdleReq]
    /\ UNCHANGED <<ai, task, sweep, now, edits, checks>>

AutocheckStart(r) ==
    LET m == req[r].model IN
    /\ req[r].pc = "start"
    /\ ~Locked(m)
    /\ checks < MaxChecks
    /\ ai' = [ai EXCEPT ![m] = start_health_check(@, req[r].saw)]
    /\ checks' = checks + 1
    /\ req' = [req EXCEPT ![r] = IdleReq]
    /\ UNCHANGED <<task, sweep, now, edits>>

\* The manual check stamps and enqueues while it holds the row; a check already in
\* flight is returned as it is.
health_check_model_endpoint(r, m) ==
    /\ req[r].pc = "idle" /\ edits < MaxEdits
    /\ get_model(m, TRUE) /\ ~Locked(m)
    /\ ~check_in_flight(ai[m])
    /\ Enqueue(m)
    /\ req' = [req EXCEPT ![r] = [pc |-> "manual", model |-> m, saw |-> ai[m].health]]
    /\ edits' = edits + 1
    /\ UNCHANGED <<ai, sweep, now, checks>>

ManualCommit(r) ==
    /\ req[r].pc = "manual"
    /\ checks < MaxChecks
    /\ ai' = [ai EXCEPT ![req[r].model] = start_health_check(@, req[r].saw)]
    /\ checks' = checks + 1
    /\ req' = [req EXCEPT ![r] = IdleReq]
    /\ UNCHANGED <<task, sweep, now, edits>>

\* A request that dies where it is: past its commit nothing is undone, before it the
\* stamp is rolled back and the message stays queued.
Drop(r) ==
    /\ req[r].pc # "idle"
    /\ req' = [req EXCEPT ![r] = IdleReq]
    /\ UNCHANGED <<ai, task, sweep, now, edits, checks>>

\* The task loads the row, with the stamp it will settle against.
TaskRead(k) ==
    LET m == task[k].model IN
    /\ task[k].pc = "queued"
    /\ task' = [task EXCEPT ![k] = IF get_model(m, TRUE)
                                   THEN [@ EXCEPT !.pc = "probing", !.token = ai[m].token,
                                                  !.call = CallOf(ai[m])]
                                   ELSE NoTask]
    /\ UNCHANGED <<ai, req, sweep, now, edits, checks>>

\* The text probe, retried while the endpoint is cold: served, throttled (reachable but
\* not served), or refused and out of time.
dispatch_health == {"served", "throttled", "dead"}

\* The image probe, asked only of an endpoint that served the text probe and of a row
\* that claims image input.
dispatch_capability_probe(call, probe) ==
    IF probe = "served" /\ call[1].image THEN {"refused", "served", "inconclusive"}
    ELSE {"inconclusive"}

\* Variant: whoever finishes last writes the verdict.
SettleAnyway(k, probe, image) ==
    LET m == task[k].model IN
    /\ task[k].pc = "probing"
    /\ ~Locked(m)
    /\ ai' = [ai EXCEPT ![m] = [@ EXCEPT !.health = IF probe = "dead" THEN "dead" ELSE "alive",
                                         !.about = task[k].call]]
    /\ task' = [task EXCEPT ![k] = NoTask]
    /\ UNCHANGED <<req, sweep, now, edits, checks>>

\* A verdict, and the finding if the row still describes the call that was probed.
Settled(row, call, probe, image) ==
    [row EXCEPT !.health = IF probe = "dead" THEN "dead" ELSE "alive",
                !.about = call,
                !.mismatch = IF image = "inconclusive" \/ probed_call(row.d) # call[1] THEN @
                             ELSE IF image = "refused" THEN call[1] ELSE None]

\* The settle: written if the stamp is still the one read.
Settle(k, probe, image) ==
    LET m == task[k].model IN
    /\ task[k].pc = "probing"
    /\ ~Locked(m)
    /\ image \in dispatch_capability_probe(task[k].call, probe)
    /\ ai' = IF ai[m].token = task[k].token
             THEN [ai EXCEPT ![m] = Settled(ai[m], task[k].call, probe, image)] ELSE ai
    /\ task' = [task EXCEPT ![k] = NoTask]
    /\ UNCHANGED <<req, sweep, now, edits, checks>>

\* The time limit or a crash ends a run; the message may be delivered again.
TaskKilled(k) ==
    /\ task[k].pc = "probing"
    /\ \E again \in BOOLEAN :
          task' = [task EXCEPT ![k] = IF again THEN [@ EXCEPT !.pc = "queued", !.token = 0,
                                                              !.call = None]
                                      ELSE NoTask]
    /\ UNCHANGED <<ai, req, sweep, now, edits, checks>>

\* The stamp of a check in flight grows older than the time limit.
Overdue(m) ==
    /\ check_in_flight(ai[m])
    /\ ai' = [ai EXCEPT ![m].overdue = TRUE]
    /\ UNCHANGED <<req, task, sweep, now, edits, checks>>

-----------------------------------------------------------------------------
(* Operator requests *)

Edit(r, m) == req[r].pc = "idle" /\ edits < MaxEdits /\ ~Locked(m) /\ edits' = edits + 1

create_model(m, d, key) ==
    /\ ai[m].st = "none"
    /\ Valid(d)
    /\ ~Taken(d.name, m)
    /\ ai' = [ai EXCEPT ![m] = [NoRow EXCEPT !.st = "live", !.d = d, !.key = key, !.used = now]]

create_model_endpoint(r, m, d, key) ==
    /\ Edit(r, m)
    /\ create_model(m, d, key)
    /\ AfterCommit(r, m, TRUE)
    /\ UNCHANGED <<task, sweep, now, checks>>

\* _reject_duplicate_identity: names are distinct within the request.
DistinctNames(f) == \A m, o \in DOMAIN f : m # o => f[m].name # f[o].name

\* One savepoint per row: rows that are invalid or taken fail alone.  No check is
\* started.
bulk_create_models_endpoint(r, f) ==
    LET ok == {m \in DOMAIN f : Valid(f[m]) /\ ~Taken(f[m].name, m)} IN
    /\ req[r].pc = "idle" /\ edits < MaxEdits
    /\ ok # {} /\ \A m \in ok : ai[m].st = "none"
    /\ DistinctNames(f)
    /\ ai' = [m \in Models |-> IF m \in ok
                               THEN [NoRow EXCEPT !.st = "live", !.d = f[m], !.used = now]
                               ELSE ai[m]]
    /\ edits' = edits + 1
    /\ UNCHANGED <<req, task, sweep, now, checks>>

Patched(d, p) == [f \in DOMAIN d |-> IF f \in DOMAIN p THEN p[f] ELSE d[f]]

\* A knob that silenced the sweep is turned back on.
Rearms(d, e) == (d.off /\ ~e.off) \/ (~d.warm /\ e.warm) \/ (~d.hours /\ e.hours)

\* The rules a patch comes under, by the fields it sets.
Touched(p) ==
    {rule \in Rules :
        \/ rule = "endpoint" /\ DOMAIN p \cap {"provider", "endpoint"} # {}
        \/ rule = "prefix" /\ DOMAIN p \cap {"provider", "id", "endpoint"} # {}
        \/ rule = "web" /\ DOMAIN p \cap {"provider", "id", "web"} # {}}

\* Variant: a patch that moves the id alone is not checked for web access.
RevalidatedVendorOnly(e, p) ==
    Broken(e) \cap (IF {"provider", "web"} \cap DOMAIN p # {} THEN Touched(p)
                   ELSE Touched(p) \ {"web"}) = {}

\* update_model checks the patched row, and only the rules the patch touches.
Revalidated(e, p) == Broken(e) \cap Touched(p) = {}

\* update_model: a real transition of a silencing knob re-arms the alert, and moving a
\* probed field drops the finding.
update_model(row, p) ==
    LET e == Patched(row.d, p)
        moved == probed_call(e) # probed_call(row.d)
    IN [row EXCEPT !.d = e,
                   !.alerted = IF Rearms(row.d, e) THEN -1 ELSE @,
                   !.mismatch = IF moved THEN None ELSE @,
                   !.stale = @ \/ moved,
                   !.alerts = IF Rearms(row.d, e) THEN 0 ELSE @,
                   !.legacy = @ \ Touched(p)]

\* A check follows when a probed field moved or a disabled row came back.
update_model_endpoint(r, m, p) ==
    /\ get_model(m, TRUE)
    /\ Edit(r, m)
    /\ Revalidated(Patched(ai[m].d, p), p)
    /\ ~Taken(Patched(ai[m].d, p).name, m)
    /\ ai' = [ai EXCEPT ![m] = update_model(@, p)]
    /\ AfterCommit(r, m, \/ probed_call(ai'[m].d) # probed_call(ai[m].d)
                         \/ ai[m].d.off /\ ~ai'[m].d.off)
    /\ UNCHANGED <<task, sweep, now, checks>>

set_api_key(row, key) == [row EXCEPT !.key = key, !.stale = @ \/ row.key # key]
clear_api_key(row) == [row EXCEPT !.key = None, !.stale = @ \/ row.key # None]

set_model_api_key_endpoint(r, m, key) ==
    /\ get_model(m, TRUE)
    /\ Edit(r, m)
    /\ ai' = [ai EXCEPT ![m] = set_api_key(@, key)]
    /\ AfterCommit(r, m, TRUE)
    /\ UNCHANGED <<task, sweep, now, checks>>

\* By name, and without a check.
bulk_set_model_api_keys_endpoint(r, n, key) ==
    /\ \E m \in get_model_by_name(n) :
          /\ Edit(r, m)
          /\ ai' = [ai EXCEPT ![m] = set_api_key(@, key)]
    /\ UNCHANGED <<req, task, sweep, now, checks>>

\* A row left without any credential is not probed.
clear_model_api_key_endpoint(r, m) ==
    /\ get_model(m, TRUE)
    /\ Edit(r, m)
    /\ ai' = [ai EXCEPT ![m] = clear_api_key(@)]
    /\ AfterCommit(r, m, has_resolvable_credential(ai'[m]))
    /\ UNCHANGED <<task, sweep, now, checks>>

delete_model_endpoint(r, m) ==
    /\ get_model(m, TRUE)
    /\ Edit(r, m)
    /\ ai' = [ai EXCEPT ![m].st = "dead"]
    /\ UNCHANGED <<req, task, sweep, now, checks>>

\* AiModel.restore: the tombstone goes and the alert is re-armed.
restore(row) == [row EXCEPT !.st = "live", !.alerted = -1, !.alerts = 0]

restore_model(m) == ~Taken(ai[m].d.name, m) /\ ai' = [ai EXCEPT ![m] = restore(@)]

restore_model_endpoint(r, m) ==
    /\ m \in list_models([deleted |-> TRUE, include_disabled |-> FALSE])
    /\ Edit(r, m)
    /\ restore_model(m)
    /\ UNCHANGED <<req, task, sweep, now, checks>>

-----------------------------------------------------------------------------
(* Traffic and the inactivity sweep *)

\* dispatch_chat resolves the row, then stamps it on a session of its own: the row may
\* have been disabled or deleted in between, and the stamp may fail (Drop) without
\* failing the call.
dispatch_chat(r, m) ==
    /\ req[r].pc = "idle"
    /\ resolve_model(m)
    /\ build_call(ai[m].d) /\ apply_web_access(ai[m].d)
    /\ req' = [req EXCEPT ![r] = [IdleReq EXCEPT !.pc = "dispatched", !.model = m]]
    /\ UNCHANGED <<ai, task, sweep, now, edits, checks>>

\* The stream stamps when it is first read, if it ever is.
dispatch_stream(r, m) == dispatch_chat(r, m)

stamp_usage(r) ==
    LET m == req[r].model IN
    /\ req[r].pc = "dispatched"
    /\ ~Locked(m)
    /\ ai' = [ai EXCEPT ![m] = [@ EXCEPT !.used = now, !.alerted = -1, !.alerts = 0]]
    /\ req' = [req EXCEPT ![r] = IdleReq]
    /\ UNCHANGED <<task, sweep, now, edits, checks>>

inactive_predicate(row, t) ==
    /\ row.st = "live"
    /\ row.d.warm /\ ~row.d.off /\ row.d.hours
    /\ row.alerted = -1
    /\ t - row.used >= AlertHours

find_inactive_models(t) == {m \in Models : inactive_predicate(ai[m], t)}

SweepRead(s) ==
    /\ sweep[s].pc = "idle"
    /\ find_inactive_models(now) # {}
    /\ sweep' = [sweep EXCEPT ![s] = [pc |-> "claim", now |-> now,
                                      left |-> find_inactive_models(now)]]
    /\ UNCHANGED <<ai, req, task, now, edits, checks>>

\* Variant: the claim is a test of the stamp alone.
ClaimByStamp(row, t) == row.st = "live" /\ row.alerted = -1

\* The guarded UPDATE repeats the whole predicate.
claim(row, t) == inactive_predicate(row, t)
Claimed(row, t) == [row EXCEPT !.alerted = t, !.alerts = IF @ < 2 THEN @ + 1 ELSE 2]

\* Each row is claimed and committed before it is announced; a recipient that fails is
\* logged and skipped.
alert_inactive_models(s, m) ==
    /\ m \in sweep[s].left
    /\ ~Locked(m)
    /\ ai' = IF claim(ai[m], sweep[s].now)
             THEN [ai EXCEPT ![m] = Claimed(ai[m], sweep[s].now)] ELSE ai
    /\ sweep' = [sweep EXCEPT ![s] = IF @.left = {m} THEN NoSweep
                                     ELSE [@ EXCEPT !.left = sweep[s].left \ {m}]]
    /\ UNCHANGED <<req, task, now, edits, checks>>

SweepKilled(s) ==
    /\ sweep[s].pc = "claim"
    /\ sweep' = [sweep EXCEPT ![s] = NoSweep]
    /\ UNCHANGED <<ai, req, task, now, edits, checks>>

Tick ==
    /\ now < MaxNow
    /\ now' = now + 1
    /\ UNCHANGED <<ai, req, task, sweep, edits, checks>>

-----------------------------------------------------------------------------
(* One row is there, perhaps older than the rules: there is no CHECK and no backfill. *)
Init ==
    /\ \E d \in Drafts, key \in Keys \cup {None}, m \in Models :
          ai = [o \in Models |-> IF o = m
                                 THEN [NoRow EXCEPT !.st = "live", !.d = d, !.key = key,
                                                    !.legacy = Broken(d)]
                                 ELSE NoRow]
    /\ req = [r \in Reqs |-> IdleReq]
    /\ task = [k \in Tasks |-> NoTask]
    /\ sweep = [s \in Sweeps |-> NoSweep]
    /\ now = 0 /\ edits = 0 /\ checks = 0

Next ==
    \/ \E r \in Reqs, m \in Models :
         \/ \E d \in Drafts, key \in Keys \cup {None} : create_model_endpoint(r, m, d, key)
         \/ \E p \in Patches : update_model_endpoint(r, m, p)
         \/ \E key \in Keys : set_model_api_key_endpoint(r, m, key)
         \/ clear_model_api_key_endpoint(r, m)
         \/ delete_model_endpoint(r, m)
         \/ restore_model_endpoint(r, m)
         \/ health_check_model_endpoint(r, m)
         \/ dispatch_chat(r, m)
         \/ dispatch_stream(r, m)
    \/ \E r \in Reqs, M \in SUBSET Models : \E f \in [M -> Drafts] :
          bulk_create_models_endpoint(r, f)
    \/ \E r \in Reqs, n \in Names, key \in Keys : bulk_set_model_api_keys_endpoint(r, n, key)
    \/ \E r \in Reqs : \/ AutocheckEnqueue(r) \/ AutocheckUnavailable(r) \/ AutocheckStart(r)
                       \/ ManualCommit(r) \/ stamp_usage(r) \/ Drop(r)
    \/ \E k \in Tasks : \/ TaskRead(k) \/ TaskKilled(k)
                        \/ \E probe \in dispatch_health, image \in {"refused", "served", "inconclusive"} :
                              Settle(k, probe, image)
    \/ \E m \in Models : Overdue(m)
    \/ \E s \in Sweeps : SweepRead(s) \/ SweepKilled(s)
    \/ \E s \in Sweeps, m \in Models : alert_inactive_models(s, m)
    \/ Tick

Spec == Init /\ [][Next]_vars

-----------------------------------------------------------------------------
(* Properties *)

\* run_health_check's compare-and-set: once a row has shown the check of its present
\* call in flight, no verdict reached with an earlier endpoint, vendor, id or key is
\* ever shown on it.
VerdictCurrent ==
    \A m \in Models : ai[m].health \in {"alive", "dead"} =>
        ai[m].stale \/ ai[m].about = CallOf(ai[m])

\* PROBED_CALL_FIELDS: capability_mismatch is always evidence about the call the row
\* describes now, though edits clear it and checks settle it at any time.
FindingCurrent ==
    \A m \in Models : ai[m].mismatch # None => ai[m].mismatch = probed_call(ai[m].d)

\* What a row shows of its health and capabilities was found out about the row as it is,
\* whatever edits, automatic and manual checks, redeliveries and killed tasks overlapped.
EvidenceCurrent == VerdictCurrent /\ FindingCurrent

\* Alerts fire once per episode: overlapping and redelivered sweeps, and saves that
\* change nothing, never announce the same quiet spell twice.
AlertedOncePerEpisode == \A m \in Models : ai[m].alerts <= 1

\* _claim: a model that was used since the sweep looked is neither alerted nor left with
\* a stamp that would swallow its next quiet spell.
AlertMeansQuiet ==
    \A m \in Models : ai[m].alerted # -1 => ai[m].used + AlertHours <= ai[m].alerted

\* An inactivity alert says once that a model is quiet, and only while it is
\* (_alert_inactive_models, _claim, touch_last_used, against each other).
AlertsHonest == AlertedOncePerEpisode /\ AlertMeansQuiet

\* Partial validation is enough: whatever sequence of patches a row went through, every
\* model the registry offers a reader can be dispatched to and reaches its vendor under
\* its own id, unless it was declared not to produce text.  A row that predates one of
\* the rules is excepted from that rule alone, and only until a patch first sets one of
\* the fields the rule looks at.
OfferedIsCallable ==
    \A perms \in SUBSET {"read", "delete"}, inGroup \in BOOLEAN, m \in Models :
        \/ m \in list_models_endpoint(perms, inGroup, [deleted |-> FALSE, include_disabled |-> FALSE])
        \/ get_model_endpoint(perms, m)
      => /\ resolve_model(m)
         /\ apply_web_access(ai[m].d) \/ "web" \in ai[m].legacy
         /\ build_call(ai[m].d) \/ ~ai[m].d.text \/ "endpoint" \in ai[m].legacy
         /\ ~prefixed_model_id(ai[m].d) \/ "prefix" \in ai[m].legacy
=============================================================================
