------------------------ MODULE ModelRegistryProofs ------------------------
(***************************************************************************)
(* Theorems about ModelRegistry, for any number of models, operators,      *)
(* health tasks and sweeps.  What a row shows is related to what a task    *)
(* that still runs has read (TaskOK): the task may write only if the stamp *)
(* it read is the row's, and then what it probed is the call the row       *)
(* describes, or the row is known not to have shown a check of that call.  *)
(***************************************************************************)
EXTENDS ModelRegistry, TLAPS

-----------------------------------------------------------------------------
(* The inductive invariant                                                  *)

RowOK(row) ==
    /\ row.st # "none" => row.d \in Declared /\ Broken(row.d) \subseteq row.legacy
    /\ row.health \in {"alive", "dead"} => row.stale \/ row.about = CallOf(row)
    /\ row.mismatch # None => row.mismatch = probed_call(row.d)
    /\ IF row.alerted = -1 THEN row.alerts = 0 ELSE row.alerts <= 1 /\ row.used + AlertHours <= row.alerted
    /\ row.token <= checks

\* A verdict reached with what the task read may be shown on the row, unless the stamp says otherwise.
MaySettle(x, row) == x.token = row.token => row.stale \/ x.call = CallOf(row)

TaskOK(x) ==
    x.pc = "probing" => /\ ai[x.model].st # "none" /\ x.token <= checks
                        /\ MaySettle(x, ai[x.model])

IInv ==
    /\ TypeOK
    /\ \A m \in Models : RowOK(ai[m])
    /\ \A k \in Tasks : TaskOK(task[k])

-----------------------------------------------------------------------------
LEMMA ProbedType ==
    ASSUME NEW d \in Declared
    PROVE  probed_call(d) \in Probed
  BY DEF Declared, probed_call, Probed, PROBED_CALL_FIELDS

LEMMA CallType ==
    ASSUME NEW row \in AiModel, row.d \in Declared
    PROVE  CallOf(row) \in ProviderCall /\ CallOf(row)[1] = probed_call(row.d)
<1>1. row.key \in Keys \cup {None}
  BY DEF AiModel
<1> QED BY <1>1, ProbedType DEF CallOf, ProviderCall

LEMMA BrokenType ==
    ASSUME NEW d
    PROVE  Broken(d) \in SUBSET Rules
  BY DEF Broken

\* A patch of a declaration is one, and differs from it in the fields it sets.
LEMMA PatchedType ==
    ASSUME NEW d \in Declared, NEW p \in Patches
    PROVE  /\ Patched(d, p) \in Declared
           /\ \A f \in DOMAIN d \ DOMAIN p : Patched(d, p)[f] = d[f]
           /\ DOMAIN d = {"name", "provider", "id", "endpoint", "image", "text", "web", "off", "warm", "hours"}
<1>1. PICK e \in Declared : DOMAIN p \subseteq DOMAIN e /\ \A f \in DOMAIN p : p[f] = e[f]
  BY RegistryAssumption
<1>2. /\ DOMAIN d = {"name", "provider", "id", "endpoint", "image", "text", "web", "off", "warm", "hours"}
      /\ DOMAIN e = DOMAIN d
  BY DEF Declared
<1>3. Patched(d, p) = [f \in DOMAIN d |-> IF f \in DOMAIN p THEN e[f] ELSE d[f]]
  BY <1>1 DEF Patched
<1>4. Patched(d, p) \in Declared
  BY <1>2, <1>3 DEF Declared
<1> QED BY <1>2, <1>4 DEF Patched

LEMMA RequestKinds ==
    ASSUME NEW x \in Request
    PROVE  x.pc # "idle" => x.model \in Models /\ x.saw \in {"never", "checking", "alive", "dead"}
  BY DEF Request, IdleReq

LEMMA TaskKinds ==
    ASSUME NEW x \in HealthTask
    PROVE  /\ x.pc # "none" => x.model \in Models
           /\ x.pc = "probing" => x.token \in 0..MaxChecks /\ x.call \in ProviderCall
  BY DEF HealthTask, NoTask

LEMMA SweepKinds ==
    ASSUME NEW x \in InactivitySweep
    PROVE  x.now \in 0..MaxNow /\ x.left \in SUBSET Models
  BY RegistryAssumption DEF InactivitySweep, NoSweep

\* One row is written; no running task is misled by it.
LEMMA RowSafe ==
    ASSUME IInv, NEW m \in Models, NEW new \in AiModel, ai' = [ai EXCEPT ![m] = new],
           RowOK(new)', ai[m].st # "none" => new.st # "none",
           \A k \in Tasks : task[k].pc = "probing" /\ task[k].model = m => MaySettle(task[k], new),
           task' \in [Tasks -> HealthTask], \A k \in Tasks : task'[k] = task[k] \/ task'[k].pc # "probing",
           req' \in [Reqs -> Request], sweep' \in [Sweeps -> InactivitySweep],
           now' \in 0..MaxNow, edits' \in 0..MaxEdits, checks' \in 0..MaxChecks, checks <= checks'
    PROVE  IInv'
<1>1. ai' \in [Models -> AiModel] /\ \A o \in Models : ai'[o] = IF o = m THEN new ELSE ai[o]
  BY DEF IInv, TypeOK
<1>2. ASSUME NEW o \in Models PROVE RowOK(ai[o])'
  <2>1. CASE o = m
    BY <1>1, <2>1 DEF RowOK
  <2>2. CASE o # m
    <3>1. PICK row \in AiModel : row = ai[o] /\ ai'[o] = row
      BY <1>1, <2>2 DEF IInv, TypeOK
    <3>2. RowOK(row) /\ row.token \in Int /\ checks \in Int /\ checks' \in Int
      BY <3>1 DEF IInv, TypeOK, AiModel
    <3>3. RowOK(row)'
      BY <3>2 DEF RowOK
    <3> QED BY <3>1, <3>3
  <2> QED BY <2>1, <2>2
<1>3. TypeOK'
  BY <1>1, <1>2 DEF TypeOK, RowOK
<1>4. ASSUME NEW k \in Tasks PROVE TaskOK(task[k])'
  <2> SUFFICES ASSUME task'[k].pc = "probing" PROVE TaskOK(task[k])'
    BY DEF TaskOK
  <2>1. PICK x \in HealthTask : x = task[k] /\ task'[k] = x
    BY DEF IInv, TypeOK
  <2>2. x.pc = "probing" /\ x.model \in Models /\ x.token \in Int /\ checks \in Int /\ checks' \in Int
    BY <2>1, TaskKinds DEF IInv, TypeOK
  <2>3. ai[x.model].st # "none" /\ x.token <= checks /\ MaySettle(x, ai[x.model])
    BY <2>1, <2>2 DEF IInv, TaskOK
  <2>4. ai'[x.model].st # "none" /\ MaySettle(x, ai'[x.model])
    BY <1>1, <2>1, <2>2, <2>3
  <2>5. TaskOK(x)'
    BY <2>2, <2>3, <2>4 DEF TaskOK, MaySettle
  <2> QED BY <2>1, <2>5
<1> QED BY <1>2, <1>3, <1>4 DEF IInv

\* No row is written.
LEMMA QuietSafe ==
    ASSUME IInv, ai' = ai, checks' = checks,
           task' \in [Tasks -> HealthTask], \A k \in Tasks : task'[k] = task[k] \/ TaskOK(task'[k]),
           req' \in [Reqs -> Request], sweep' \in [Sweeps -> InactivitySweep],
           now' \in 0..MaxNow, edits' \in 0..MaxEdits
    PROVE  IInv'
<1>1. TypeOK'
  BY DEF IInv, TypeOK
<1>2. \A m \in Models : RowOK(ai[m])'
  BY DEF IInv, RowOK
<1>3. ASSUME NEW k \in Tasks PROVE TaskOK(task[k])'
  <2>1. TaskOK(task'[k])
    BY DEF IInv
  <2> QED BY <2>1 DEF TaskOK, MaySettle
<1> QED BY <1>1, <1>2, <1>3 DEF IInv

\* The call and the stamp of the row stay, or the row is marked.
KeepsCall(row, new) ==
    /\ new.token = row.token /\ (row.stale => new.stale)
    /\ new.stale \/ CallOf(new) = CallOf(row)

LEMMA KeepsTasks ==
    ASSUME IInv, NEW m \in Models, NEW new, KeepsCall(ai[m], new)
    PROVE  \A k \in Tasks : task[k].pc = "probing" /\ task[k].model = m => MaySettle(task[k], new)
<1> SUFFICES ASSUME NEW k \in Tasks, task[k].pc = "probing", task[k].model = m PROVE MaySettle(task[k], new)
  OBVIOUS
<1>1. MaySettle(task[k], ai[m])
  BY DEF IInv, TaskOK
<1> QED BY <1>1 DEF MaySettle, KeepsCall

LEMMA IdleStep ==
    ASSUME TypeOK, NEW r \in Reqs, req' = [req EXCEPT ![r] = IdleReq]
    PROVE  req' \in [Reqs -> Request]
  BY DEF TypeOK, Request

LEMMA AfterCommitType ==
    ASSUME TypeOK, NEW r \in Reqs, NEW m \in Models, NEW check, AfterCommit(r, m, check), ai'[m] \in AiModel
    PROVE  req' \in [Reqs -> Request]
<1>1. PICK x : x = [pc |-> "autocheck", model |-> m, saw |-> ai'[m].health]
  OBVIOUS
<1>2. x \in Request
  BY <1>1 DEF AiModel, Request
<1>3. req' = req \/ req' = [req EXCEPT ![r] = x]
  BY <1>1, Zenon DEF AfterCommit
<1> QED BY <1>2, <1>3 DEF TypeOK

\* A message is put on the queue.
LEMMA EnqueueStep ==
    ASSUME TypeOK, NEW m \in Models, Enqueue(m)
    PROVE  task' \in [Tasks -> HealthTask] /\ \A k \in Tasks : task'[k] = task[k] \/ TaskOK(task'[k])
<1>1. PICK x : x = [NoTask EXCEPT !.pc = "queued", !.model = m]
  OBVIOUS
<1>2. x = [pc |-> "queued", model |-> m, token |-> 0, call |-> None]
  BY <1>1 DEF NoTask
<1>3. x \in HealthTask /\ x.pc = "queued"
  BY <1>2 DEF HealthTask
<1>4. PICK k \in Tasks : task' = [task EXCEPT ![k] = x]
  BY <1>1, Zenon DEF Enqueue
<1> QED BY <1>3, <1>4 DEF TypeOK, TaskOK

LEMMA EmptyRow ==
    ASSUME checks \in Nat
    PROVE  NoRow \in AiModel /\ RowOK(NoRow)
<1>1. /\ NoRow.st = "none" /\ NoRow.d = None /\ NoRow.key = None /\ NoRow.used = 0 /\ NoRow.alerted = -1
      /\ NoRow.health = "never" /\ NoRow.token = 0 /\ NoRow.overdue = FALSE /\ NoRow.mismatch = None
      /\ NoRow.about = None /\ NoRow.stale = FALSE /\ NoRow.alerts = 0 /\ NoRow.legacy = {}
  BY DEF NoRow
<1>2. 0 \in 0..MaxNow /\ -1 \in -1..MaxNow /\ 0 \in 0..MaxChecks /\ 0 \in 0..2
  BY RegistryAssumption
<1>3. NoRow \in AiModel
  BY <1>2 DEF NoRow, AiModel
<1> QED BY <1>1, <1>3 DEF RowOK

\* A row that is created, as create_model and the bulk creation fill it in, and one that was there before
\* some of the rules.
Fresh(d, key, t, old) ==
    [st |-> "live", d |-> d, key |-> key, used |-> t, alerted |-> -1,
     health |-> "never", token |-> 0, overdue |-> FALSE, mismatch |-> None,
     about |-> None, stale |-> FALSE, alerts |-> 0, legacy |-> old]

LEMMA FreshRow ==
    ASSUME NEW d \in Declared, NEW old, old \in SUBSET Rules, Broken(d) \subseteq old, NEW key \in Keys \cup {None}, NEW t \in 0..MaxNow, checks \in Nat,
           NEW new, new = Fresh(d, key, t, old)
    PROVE  new \in AiModel /\ RowOK(new) /\ new.st = "live"
<1>1. /\ new.st = "live" /\ new.d = d /\ new.health = "never" /\ new.mismatch = None
      /\ new.alerted = -1 /\ new.alerts = 0 /\ new.token = 0 /\ new.legacy = old
  BY DEF Fresh
<1>2. -1 \in -1..MaxNow /\ 0 \in 0..MaxChecks /\ 0 \in 0..2
  BY RegistryAssumption
<1>3. new \in AiModel
  BY <1>2 DEF Fresh, AiModel
<1>4. RowOK(new)
  BY <1>1 DEF RowOK
<1> QED BY <1>1, <1>3, <1>4

LEMMA InitIInv == Init => IInv
<1> SUFFICES ASSUME Init PROVE IInv
  OBVIOUS
<1>1. PICK d \in Drafts, key \in Keys \cup {None}, m \in Models :
        ai = [o \in Models |-> IF o = m THEN [NoRow EXCEPT !.st = "live", !.d = d, !.key = key,
                                                           !.legacy = Broken(d)] ELSE NoRow]
  BY DEF Init
<1>2. PICK new : new = [NoRow EXCEPT !.st = "live", !.d = d, !.key = key, !.legacy = Broken(d)]
  OBVIOUS
<1>3. \A o \in Models : ai[o] = IF o = m THEN new ELSE NoRow
  BY <1>1, <1>2, Zenon
<1>4. checks = 0 /\ now = 0 /\ edits = 0
  BY DEF Init
<1>5. NoRow \in AiModel /\ RowOK(NoRow)
  BY <1>4, EmptyRow
<1>6. new \in AiModel /\ RowOK(new)
  <2>1. new = Fresh(d, key, 0, Broken(d))
    BY <1>2 DEF NoRow, Fresh
  <2>2. d \in Declared /\ 0 \in 0..MaxNow
    BY RegistryAssumption
  <2> QED BY <1>4, <2>1, <2>2, BrokenType, FreshRow
<1>7. ai \in [Models -> AiModel]
  <2>1. ai = [o \in Models |-> ai[o]]
    BY <1>1, Zenon
  <2> QED BY <1>3, <1>5, <1>6, <2>1
<1>8. req \in [Reqs -> Request] /\ task \in [Tasks -> HealthTask] /\ sweep \in [Sweeps -> InactivitySweep]
  BY DEF Init, Request, HealthTask, InactivitySweep
<1>9. \A o \in Models : RowOK(ai[o])
  BY <1>3, <1>5, <1>6
<1>10. TypeOK
  BY <1>4, <1>7, <1>8, <1>9, RegistryAssumption DEF TypeOK, RowOK
<1>11. \A k \in Tasks : TaskOK(task[k])
  BY DEF Init, NoTask, TaskOK
<1> QED BY <1>9, <1>10, <1>11 DEF IInv

-----------------------------------------------------------------------------
(* Health checks                                                            *)

\* Nothing of the rows changes while messages are queued, requests end or tasks die.
LEMMA QueueingSafe ==
    ASSUME IInv, NEW r \in Reqs, AutocheckEnqueue(r) \/ AutocheckUnavailable(r) \/ Drop(r)
    PROVE  IInv'
<1>1. TypeOK /\ UNCHANGED <<ai, sweep, now, edits, checks>>
  BY DEF IInv, AutocheckEnqueue, AutocheckUnavailable, Drop
<1>2. CASE AutocheckEnqueue(r)
  <2>1. PICK x \in Request : x = req[r]
    BY <1>1 DEF TypeOK
  <2>2. x.pc = "autocheck" /\ x.model \in Models /\ x.saw \in {"never", "checking", "alive", "dead"} /\ Enqueue(x.model)
    BY <1>2, <2>1, RequestKinds DEF AutocheckEnqueue
  <2>3. PICK new : new = [x EXCEPT !.pc = "start"]
    OBVIOUS
  <2>4. x \in [pc : {"autocheck", "start", "manual", "dispatched"}, model : Models,
                saw : {"never", "checking", "alive", "dead"}]
    BY <2>2 DEF Request, IdleReq
  <2>5. new \in Request
    BY <2>3, <2>4 DEF Request
  <2>6. req' = [req EXCEPT ![r] = [req[r] EXCEPT !.pc = "start"]]
    BY <1>1, <1>2 DEF AutocheckEnqueue, TypeOK
  <2>7. req' = [req EXCEPT ![r] = new]
    BY <2>1, <2>3, <2>6, Zenon
  <2>8. req' \in [Reqs -> Request]
    BY <1>1, <2>5, <2>7 DEF TypeOK
  <2>9. task' \in [Tasks -> HealthTask] /\ \A k \in Tasks : task'[k] = task[k] \/ TaskOK(task'[k])
    BY <1>1, <2>2, EnqueueStep
  <2> QED BY <1>1, <2>8, <2>9, QuietSafe DEF TypeOK
<1>3. CASE AutocheckUnavailable(r) \/ Drop(r)
  <2>1. task' = task /\ req' \in [Reqs -> Request]
    BY <1>1, <1>3, IdleStep DEF AutocheckUnavailable, Drop
  <2> QED BY <1>1, <2>1, QuietSafe DEF TypeOK
<1> QED BY <1>2, <1>3

LEMMA ManualCheckSafe ==
    ASSUME IInv, NEW r \in Reqs, NEW m \in Models, health_check_model_endpoint(r, m)
    PROVE  IInv'
<1>1. TypeOK /\ UNCHANGED <<ai, sweep, now, checks>> /\ Enqueue(m) /\ edits < MaxEdits /\ edits' = edits + 1
  BY DEF IInv, health_check_model_endpoint
<1>2. PICK x : x = [pc |-> "manual", model |-> m, saw |-> ai[m].health]
  OBVIOUS
<1>3. x \in Request
  BY <1>1, <1>2 DEF TypeOK, AiModel, Request
<1>4. req' = [req EXCEPT ![r] = x]
  BY <1>2, Zenon DEF health_check_model_endpoint
<1>5. req' \in [Reqs -> Request] /\ edits' \in 0..MaxEdits
  BY <1>1, <1>3, <1>4, RegistryAssumption DEF TypeOK
<1>6. task' \in [Tasks -> HealthTask] /\ \A k \in Tasks : task'[k] = task[k] \/ TaskOK(task'[k])
  BY <1>1, EnqueueStep
<1> QED BY <1>1, <1>5, <1>6, QuietSafe DEF TypeOK

\* The stamp is new: what every running task has read is older.
LEMMA StartCheckSafe ==
    ASSUME IInv, NEW r \in Reqs, AutocheckStart(r) \/ ManualCommit(r)
    PROVE  IInv'
<1>1. /\ TypeOK /\ checks < MaxChecks /\ checks' = checks + 1 /\ UNCHANGED <<task, sweep, now, edits>>
      /\ req' = [req EXCEPT ![r] = IdleReq] /\ req[r].pc # "idle"
      /\ ai' = [ai EXCEPT ![req[r].model] = start_health_check(ai[req[r].model], req[r].saw)]
  BY DEF IInv, AutocheckStart, ManualCommit
<1>2. PICK m \in Models, saw \in {"never", "checking", "alive", "dead"} : m = req[r].model /\ saw = req[r].saw
  BY <1>1, RequestKinds DEF TypeOK
<1>3. PICK row \in AiModel : row = ai[m] /\ RowOK(row)
  BY <1>1 DEF TypeOK, IInv
<1>4. PICK h : h = IF saw = "checking" THEN row.health ELSE "checking"
  OBVIOUS
<1>5. h \in {"never", "checking", "alive", "dead"} /\ (h \in {"alive", "dead"} => row.health = h)
  BY <1>3, <1>4 DEF AiModel
<1>6. PICK still \in BOOLEAN : still = (row.stale /\ h # "checking")
  OBVIOUS
<1>7. PICK stamp \in 0..MaxChecks : stamp = checks + 1 /\ stamp <= checks'
  BY <1>1, RegistryAssumption DEF TypeOK
<1>8. PICK new : new = [row EXCEPT !.health = h, !.token = stamp, !.overdue = FALSE, !.stale = still]
  OBVIOUS
<1>9. /\ new \in AiModel /\ new.st = row.st /\ new.d = row.d /\ new.key = row.key /\ new.health = h
      /\ new.token = stamp /\ new.stale = still /\ new.about = row.about /\ new.mismatch = row.mismatch
      /\ new.alerted = row.alerted /\ new.alerts = row.alerts /\ new.used = row.used /\ new.legacy = row.legacy
  BY <1>3, <1>5, <1>8, ZenonT(60) DEF AiModel
<1>10. start_health_check(row, saw) = new
  BY <1>4, <1>6, <1>7, <1>8, Zenon DEF start_health_check
<1>11. ai' = [ai EXCEPT ![m] = new]
  BY <1>1, <1>2, <1>3, <1>10, Zenon
<1>12. RowOK(new)'
  <2>1. CallOf(new) = CallOf(row)
    BY <1>9 DEF CallOf
  <2>2. new.health \in {"alive", "dead"} => new.stale \/ new.about = CallOf(new)
    BY <1>3, <1>5, <1>6, <1>9, <2>1 DEF RowOK
  <2> QED BY <1>3, <1>7, <1>9, <2>2 DEF RowOK, AiModel
<1>13. \A k \in Tasks : task[k].pc = "probing" /\ task[k].model = m => MaySettle(task[k], new)
  <2> SUFFICES ASSUME NEW k \in Tasks, task[k].pc = "probing" PROVE MaySettle(task[k], new)
    OBVIOUS
  <2>1. task[k].token <= checks /\ task[k].token \in Int /\ checks \in Int
    BY <1>1, TaskKinds DEF IInv, TaskOK, TypeOK
  <2> QED BY <1>7, <1>9, <2>1 DEF MaySettle
<1>14. req' \in [Reqs -> Request]
  BY <1>1, IdleStep
<1>15. /\ checks' \in 0..MaxChecks /\ checks <= checks'
       /\ task' \in [Tasks -> HealthTask] /\ sweep' \in [Sweeps -> InactivitySweep]
       /\ now' \in 0..MaxNow /\ edits' \in 0..MaxEdits
  BY <1>1, RegistryAssumption DEF TypeOK
<1> QED BY <1>1, <1>3, <1>9, <1>11, <1>12, <1>13, <1>14, <1>15, RowSafe, ZenonT(60)

LEMMA TaskReadSafe ==
    ASSUME IInv, NEW k \in Tasks, TaskRead(k)
    PROVE  IInv'
<1>1. TypeOK /\ UNCHANGED <<ai, req, sweep, now, edits, checks>>
  BY DEF IInv, TaskRead
<1>2. PICK x \in HealthTask : x = task[k] /\ x.pc = "queued" /\ x.model \in Models
  BY <1>1, TaskKinds DEF TaskRead, TypeOK
<1>3. x = [pc |-> "queued", model |-> x.model, token |-> 0, call |-> None]
  BY <1>2 DEF HealthTask, NoTask
<1>4. PICK row \in AiModel : row = ai[x.model] /\ RowOK(row) /\ row.token \in 0..MaxChecks
  BY <1>1, <1>2 DEF TypeOK, IInv, AiModel
<1>5. PICK c : c = CallOf(row)
  OBVIOUS
<1>6. PICK new : new = IF get_model(x.model, TRUE)
                       THEN [x EXCEPT !.pc = "probing", !.token = row.token, !.call = c]
                       ELSE NoTask
  OBVIOUS
<1>7. task' = [task EXCEPT ![k] = new]
  BY <1>2, <1>4, <1>5, <1>6, Zenon DEF TaskRead
<1>8. new \in HealthTask /\ TaskOK(new)
  <2>1. CASE get_model(x.model, TRUE)
    <3>1. row.st = "live" /\ row.d \in Declared
      BY <1>4, <2>1 DEF get_model, RowOK
    <3>2. c \in ProviderCall
      BY <1>5, <3>1, CallType
    <3>3. new = [pc |-> "probing", model |-> x.model, token |-> row.token, call |-> c]
      BY <1>3, <1>6, <2>1
    <3>4. new \in HealthTask
      BY <1>2, <1>4, <3>2, <3>3 DEF HealthTask
    <3>5. /\ new.pc = "probing" /\ new.model = x.model /\ new.token = row.token /\ new.call = c
      BY <3>3
    <3> QED BY <1>4, <1>5, <3>1, <3>4, <3>5 DEF TaskOK, MaySettle, RowOK
  <2>2. CASE ~get_model(x.model, TRUE)
    BY <1>6, <2>2 DEF HealthTask, TaskOK, NoTask
  <2> QED BY <2>1, <2>2
<1>9. task' \in [Tasks -> HealthTask] /\ \A j \in Tasks : task'[j] = task[j] \/ TaskOK(task'[j])
  BY <1>1, <1>7, <1>8 DEF TypeOK
<1> QED BY <1>1, <1>9, QuietSafe DEF TypeOK

LEMMA TaskKilledSafe ==
    ASSUME IInv, NEW k \in Tasks, TaskKilled(k)
    PROVE  IInv'
<1>1. TypeOK /\ UNCHANGED <<ai, req, sweep, now, edits, checks>>
  BY DEF IInv, TaskKilled
<1>2. PICK x \in HealthTask : x = task[k] /\ x.pc = "probing" /\ x.model \in Models
  BY <1>1, TaskKinds DEF TaskKilled, TypeOK
<1>3. x = [pc |-> "probing", model |-> x.model, token |-> x.token, call |-> x.call]
  BY <1>2 DEF HealthTask, NoTask
<1>4. PICK again \in BOOLEAN :
        task' = [task EXCEPT ![k] = IF again THEN [task[k] EXCEPT !.pc = "queued", !.token = 0, !.call = None]
                                    ELSE NoTask]
  BY DEF TaskKilled
<1>5. PICK new : new = IF again THEN [x EXCEPT !.pc = "queued", !.token = 0, !.call = None] ELSE NoTask
  OBVIOUS
<1>6. task' = [task EXCEPT ![k] = new]
  BY <1>2, <1>4, <1>5, Zenon
<1>7. new = [pc |-> "queued", model |-> x.model, token |-> 0, call |-> None] \/ new = NoTask
  BY <1>3, <1>5
<1>8. new \in HealthTask /\ TaskOK(new)
  BY <1>2, <1>7 DEF HealthTask, TaskOK, NoTask
<1>9. task' \in [Tasks -> HealthTask] /\ \A j \in Tasks : task'[j] = task[j] \/ TaskOK(task'[j])
  BY <1>1, <1>6, <1>8 DEF TypeOK
<1> QED BY <1>1, <1>9, QuietSafe DEF TypeOK

\* The compare-and-set: a verdict is written under the stamp the task read, a finding on the call it probed.
LEMMA SettleSafe ==
    ASSUME IInv, NEW k \in Tasks, NEW probe, NEW image, Settle(k, probe, image)
    PROVE  IInv'
<1>1. TypeOK /\ UNCHANGED <<req, sweep, now, edits, checks>> /\ task' = [task EXCEPT ![k] = NoTask]
  BY DEF IInv, Settle
<1>2. PICK x \in HealthTask : x = task[k] /\ x.pc = "probing" /\ x.model \in Models /\ x.call \in ProviderCall
  BY <1>1, TaskKinds DEF Settle, TypeOK
<1>3. PICK row \in AiModel : row = ai[x.model] /\ RowOK(row) /\ row.st # "none" /\ MaySettle(x, row)
  BY <1>1, <1>2 DEF TypeOK, IInv, TaskOK
<1>4. PICK h : h = IF probe = "dead" THEN "dead" ELSE "alive"
  OBVIOUS
<1>5. PICK mm : mm = IF image = "inconclusive" \/ probed_call(row.d) # x.call[1] THEN row.mismatch
                     ELSE IF image = "refused" THEN x.call[1] ELSE None
  OBVIOUS
<1>6. x.call[1] \in Probed /\ row.mismatch \in Probed \cup {None}
  BY <1>2, <1>3 DEF ProviderCall, AiModel
<1>7. /\ mm \in Probed \cup {None}
      /\ mm # None => mm = probed_call(row.d)
  <2>1. row.mismatch # None => row.mismatch = probed_call(row.d)
    BY <1>3 DEF RowOK
  <2>2. CASE image = "inconclusive" \/ probed_call(row.d) # x.call[1]
    <3>1. mm = row.mismatch
      BY <1>5, <2>2
    <3> QED BY <1>6, <2>1, <3>1
  <2>3. CASE image # "inconclusive" /\ probed_call(row.d) = x.call[1]
    <3>1. mm = x.call[1] \/ mm = None
      BY <1>5, <2>3
    <3> QED BY <1>6, <2>3, <3>1
  <2> QED BY <2>2, <2>3
<1>8. PICK new : new = [row EXCEPT !.health = h, !.about = x.call, !.mismatch = mm]
  OBVIOUS
<1>9. /\ new \in AiModel /\ new.st = row.st /\ new.d = row.d /\ new.key = row.key
      /\ new.token = row.token /\ new.stale = row.stale /\ new.about = x.call /\ new.mismatch = mm
      /\ new.alerted = row.alerted /\ new.alerts = row.alerts /\ new.used = row.used /\ new.legacy = row.legacy
  <2>1. h \in {"never", "checking", "alive", "dead"} /\ x.call \in ProviderCall \cup {None}
    BY <1>2, <1>4
  <2> QED BY <1>3, <1>7, <1>8, <2>1, ZenonT(60) DEF AiModel
<1>10. ai' = IF row.token = x.token THEN [ai EXCEPT ![x.model] = new] ELSE ai
  <2>1. Settled(row, x.call, probe, image) = new
    BY <1>4, <1>5, <1>8, Zenon DEF Settled
  <2> QED BY <1>2, <1>3, <2>1, Zenon DEF Settle
<1>11. task' \in [Tasks -> HealthTask] /\ \A j \in Tasks : task'[j] = task[j] \/ task'[j].pc # "probing"
  BY <1>1 DEF TypeOK, HealthTask, NoTask
<1>12. CASE row.token # x.token
  <2>1. ai' = ai
    BY <1>10, <1>12
  <2>2. \A j \in Tasks : task'[j] = task[j] \/ TaskOK(task'[j])
    BY <1>11 DEF TaskOK
  <2> QED BY <1>1, <1>11, <2>1, <2>2, QuietSafe DEF TypeOK
<1>13. CASE row.token = x.token
  <2>1. ai' = [ai EXCEPT ![x.model] = new]
    BY <1>10, <1>13
  <2>2. CallOf(new) = CallOf(row)
    BY <1>9 DEF CallOf
  <2>3. new.stale \/ new.about = CallOf(new)
    BY <1>3, <1>9, <1>13, <2>2 DEF MaySettle
  <2>4. RowOK(new)'
    BY <1>1, <1>3, <1>7, <1>9, <2>2, <2>3 DEF RowOK
  <2>5. KeepsCall(ai[x.model], new)
    BY <1>3, <1>9, <2>2 DEF KeepsCall
  <2>6. \A j \in Tasks : task[j].pc = "probing" /\ task[j].model = x.model => MaySettle(task[j], new)
    BY <1>2, <2>5, KeepsTasks
  <2>7. /\ req' \in [Reqs -> Request] /\ sweep' \in [Sweeps -> InactivitySweep] /\ now' \in 0..MaxNow
        /\ edits' \in 0..MaxEdits /\ checks' \in 0..MaxChecks /\ checks <= checks'
    BY <1>1, RegistryAssumption DEF TypeOK
  <2> QED BY <1>2, <1>3, <1>9, <1>11, <2>1, <2>4, <2>6, <2>7, RowSafe
<1> QED BY <1>12, <1>13

-----------------------------------------------------------------------------
(* Steps that write one row and no task                                     *)

LEMMA WriteSafe ==
    ASSUME IInv, NEW m \in Models, NEW new \in AiModel, ai' = [ai EXCEPT ![m] = new], RowOK(new),
           ai[m].st # "none" => new.st # "none",
           ai[m].st = "none" \/ KeepsCall(ai[m], new),
           UNCHANGED <<task, now, checks>>, edits' \in 0..MaxEdits,
           req' \in [Reqs -> Request], sweep' \in [Sweeps -> InactivitySweep]
    PROVE  IInv'
<1>1. TypeOK
  BY DEF IInv
<1>2. RowOK(new)'
  BY DEF RowOK
<1>3. \A k \in Tasks : task[k].pc = "probing" /\ task[k].model = m => MaySettle(task[k], new)
  <2>1. CASE ai[m].st = "none"
    BY <2>1 DEF IInv, TaskOK
  <2>2. CASE KeepsCall(ai[m], new)
    BY <2>2, KeepsTasks
  <2> QED BY <2>1, <2>2
<1>4. /\ task' \in [Tasks -> HealthTask] /\ \A k \in Tasks : task'[k] = task[k] \/ task'[k].pc # "probing"
      /\ now' \in 0..MaxNow /\ checks' \in 0..MaxChecks /\ checks <= checks'
  BY <1>1, RegistryAssumption DEF TypeOK
<1> QED BY <1>2, <1>3, <1>4, RowSafe

LEMMA EditType ==
    ASSUME TypeOK, NEW r, NEW m, Edit(r, m)
    PROVE  edits' \in 0..MaxEdits
  BY RegistryAssumption DEF TypeOK, Edit

LEMMA OverdueSafe ==
    ASSUME IInv, NEW m \in Models, Overdue(m)
    PROVE  IInv'
<1>1. TypeOK /\ UNCHANGED <<req, task, sweep, now, edits, checks>>
  BY DEF IInv, Overdue
<1>2. PICK row \in AiModel : row = ai[m] /\ RowOK(row)
  BY <1>1 DEF TypeOK, IInv
<1>3. PICK new : new = [row EXCEPT !.overdue = TRUE]
  OBVIOUS
<1>4. ai' = [ai EXCEPT ![m] = [ai[m] EXCEPT !.overdue = TRUE]]
  BY <1>1 DEF Overdue, TypeOK
<1>5. ai' = [ai EXCEPT ![m] = new]
  BY <1>2, <1>3, <1>4, Zenon
<1>6. /\ new \in AiModel /\ new.st = row.st /\ new.d = row.d /\ new.key = row.key /\ new.health = row.health
      /\ new.token = row.token /\ new.stale = row.stale /\ new.about = row.about /\ new.mismatch = row.mismatch
      /\ new.alerted = row.alerted /\ new.alerts = row.alerts /\ new.used = row.used /\ new.legacy = row.legacy
  BY <1>2, <1>3 DEF AiModel
<1>7. CallOf(new) = CallOf(row)
  BY <1>6 DEF CallOf
<1>8. RowOK(new) /\ KeepsCall(row, new)
  BY <1>2, <1>6, <1>7 DEF RowOK, KeepsCall
<1> QED BY <1>1, <1>2, <1>5, <1>6, <1>8, WriteSafe DEF TypeOK

LEMMA CreateSafe ==
    ASSUME IInv, NEW r \in Reqs, NEW m \in Models, NEW d \in Drafts, NEW key \in Keys \cup {None},
           create_model_endpoint(r, m, d, key)
    PROVE  IInv'
<1>1. /\ TypeOK /\ Edit(r, m) /\ create_model(m, d, key) /\ AfterCommit(r, m, TRUE)
      /\ UNCHANGED <<task, sweep, now, checks>>
  BY DEF IInv, create_model_endpoint
<1>2. PICK new : new = [NoRow EXCEPT !.st = "live", !.d = d, !.key = key, !.used = now]
  OBVIOUS
<1>3. ai' = [ai EXCEPT ![m] = new] /\ ai[m].st = "none" /\ Valid(d)
  BY <1>1, <1>2 DEF create_model
<1>4. new = Fresh(d, key, now, {})
  BY <1>2 DEF NoRow, Fresh
<1>5. d \in Declared /\ now \in 0..MaxNow /\ checks \in Nat
  BY <1>1, RegistryAssumption DEF TypeOK
<1>6. new \in AiModel /\ RowOK(new)
  <2>1. PICK t \in 0..MaxNow : t = now
    BY <1>5
  <2>2. Broken(d) \subseteq {} /\ {} \in SUBSET Rules
    BY <1>3 DEF Valid
  <2> QED BY <1>4, <1>5, <2>1, <2>2, FreshRow
<1>7. ai'[m] \in AiModel
  BY <1>1, <1>3, <1>6 DEF TypeOK
<1>8. req' \in [Reqs -> Request] /\ edits' \in 0..MaxEdits /\ sweep' \in [Sweeps -> InactivitySweep]
  BY <1>1, <1>7, AfterCommitType, EditType DEF TypeOK
<1> QED BY <1>1, <1>3, <1>6, <1>8, WriteSafe

\* A patch that leaves a rule's fields alone breaks the rule only where the row did.
LEMMA UntouchedRules ==
    ASSUME NEW d \in Declared, NEW p \in Patches, NEW e, e = Patched(d, p),
           NEW rule \in Broken(e), rule \notin Touched(p)
    PROVE  rule \in Broken(d)
<1>1. /\ \A f \in DOMAIN d \ DOMAIN p : e[f] = d[f]
      /\ DOMAIN d = {"name", "provider", "id", "endpoint", "image", "text", "web", "off", "warm", "hours"}
  BY PatchedType
<1>2. CASE rule = "endpoint"
  <2>1. missing_inference_endpoint(e) /\ DOMAIN p \cap {"provider", "endpoint"} = {}
    BY <1>2 DEF Broken, Touched, Rules
  <2>2. e["provider"] = d["provider"] /\ e["endpoint"] = d["endpoint"]
    BY <1>1, <2>1
  <2> QED BY <1>2, <2>1, <2>2 DEF Broken, Rules, missing_inference_endpoint
<1>3. CASE rule = "prefix"
  <2>1. prefixed_model_id(e) /\ DOMAIN p \cap {"provider", "id", "endpoint"} = {}
    BY <1>3 DEF Broken, Touched, Rules
  <2>2. e["provider"] = d["provider"] /\ e["id"] = d["id"] /\ e["endpoint"] = d["endpoint"]
    BY <1>1, <2>1
  <2> QED BY <1>3, <2>1, <2>2 DEF Broken, Rules, prefixed_model_id
<1>4. CASE rule = "web"
  <2>1. e.web /\ ~supports_web_access(e) /\ DOMAIN p \cap {"provider", "id", "web"} = {}
    BY <1>4 DEF Broken, Touched, Rules
  <2>2. e["provider"] = d["provider"] /\ e["id"] = d["id"] /\ e["web"] = d["web"]
    BY <1>1, <2>1
  <2> QED BY <1>4, <2>1, <2>2 DEF Broken, Rules, supports_web_access
<1> QED BY <1>2, <1>3, <1>4 DEF Broken, Rules

\* A patch that passes the rules it touches breaks none but those the row predates and still does not
\* come under.
LEMMA PatchKeepsRules ==
    ASSUME NEW d \in Declared, NEW p \in Patches, NEW old, Broken(d) \subseteq old,
           NEW e, e = Patched(d, p), Revalidated(e, p)
    PROVE  e \in Declared /\ Broken(e) \subseteq old \ Touched(p)
<1>1. e \in Declared
  BY PatchedType
<1>2. ASSUME NEW rule \in Broken(e) PROVE rule \in old \ Touched(p)
  <2>1. rule \notin Touched(p)
    BY DEF Revalidated
  <2> QED BY <2>1, UntouchedRules
<1> QED BY <1>1, <1>2

LEMMA UpdateSafe ==
    ASSUME IInv, NEW r \in Reqs, NEW m \in Models, NEW p \in Patches, update_model_endpoint(r, m, p)
    PROVE  IInv'
<1>1. TypeOK /\ Edit(r, m) /\ UNCHANGED <<task, sweep, now, checks>>
  BY DEF IInv, update_model_endpoint
<1>2. PICK row \in AiModel : row = ai[m] /\ RowOK(row) /\ row.st = "live"
  BY <1>1 DEF TypeOK, IInv, update_model_endpoint, get_model
<1>3. PICK e : e = Patched(row.d, p)
  OBVIOUS
<1>4. row.d \in Declared /\ Broken(row.d) \subseteq row.legacy /\ Revalidated(e, p)
  BY <1>2, <1>3 DEF RowOK, update_model_endpoint
<1>5. PICK left \in SUBSET Rules : left = row.legacy \ Touched(p)
  BY <1>2 DEF AiModel
<1>6. e \in Declared /\ Broken(e) \subseteq left
  BY <1>3, <1>4, <1>5, PatchKeepsRules
<1>7. PICK moved \in BOOLEAN : moved = (probed_call(e) # probed_call(row.d))
  OBVIOUS
<1>8. PICK al : al = IF Rearms(row.d, e) THEN -1 ELSE row.alerted
  OBVIOUS
<1>9. PICK mm : mm = IF moved THEN None ELSE row.mismatch
  OBVIOUS
<1>10. PICK st \in BOOLEAN : st = (row.stale \/ moved)
  OBVIOUS
<1>11. PICK n : n = IF Rearms(row.d, e) THEN 0 ELSE row.alerts
  OBVIOUS
<1>12. al \in -1..MaxNow /\ mm \in Probed \cup {None} /\ n \in 0..2
  BY <1>2, <1>8, <1>9, <1>11, RegistryAssumption DEF AiModel
<1>13. PICK new : new = [row EXCEPT !.d = e, !.alerted = al, !.mismatch = mm, !.stale = st, !.alerts = n,
                                      !.legacy = left]
  OBVIOUS
<1>14. /\ new \in AiModel /\ new.st = row.st /\ new.d = e /\ new.key = row.key /\ new.health = row.health
       /\ new.token = row.token /\ new.stale = st /\ new.about = row.about /\ new.mismatch = mm
       /\ new.alerted = al /\ new.alerts = n /\ new.used = row.used /\ new.legacy = left
  BY <1>2, <1>6, <1>12, <1>13, ZenonT(60) DEF AiModel
<1>15. update_model(row, p) = new
  BY <1>3, <1>5, <1>7, <1>8, <1>9, <1>10, <1>11, <1>13, Zenon DEF update_model
<1>16. ai' = [ai EXCEPT ![m] = new]
  BY <1>2, <1>15, Zenon DEF update_model_endpoint
<1>17. new.stale \/ CallOf(new) = CallOf(row)
  BY <1>7, <1>10, <1>14 DEF CallOf
<1>18. RowOK(new)
  <2>1. new.st # "none" => new.d \in Declared /\ Broken(new.d) \subseteq new.legacy
    BY <1>6, <1>14
  <2>2. new.health \in {"alive", "dead"} => new.stale \/ new.about = CallOf(new)
    BY <1>2, <1>10, <1>14, <1>17 DEF RowOK
  <2>3. new.mismatch # None => new.mismatch = probed_call(new.d)
    BY <1>2, <1>7, <1>9, <1>14 DEF RowOK
  <2>4. IF new.alerted = -1 THEN new.alerts = 0 ELSE new.alerts <= 1 /\ new.used + AlertHours <= new.alerted
    BY <1>2, <1>8, <1>11, <1>14 DEF RowOK
  <2> QED BY <1>2, <1>14, <2>1, <2>2, <2>3, <2>4 DEF RowOK
<1>19. KeepsCall(row, new)
  BY <1>10, <1>14, <1>17 DEF KeepsCall
<1>20. ai'[m] \in AiModel
  BY <1>1, <1>14, <1>16 DEF TypeOK
<1>21. req' \in [Reqs -> Request] /\ edits' \in 0..MaxEdits /\ sweep' \in [Sweeps -> InactivitySweep]
  BY <1>1, <1>20, AfterCommitType, EditType DEF TypeOK, update_model_endpoint
<1> QED BY <1>1, <1>2, <1>14, <1>16, <1>18, <1>19, <1>21, WriteSafe

\* A credential is stored or dropped: the call changes with it, and the row is marked when it does.
LEMMA CredentialSafe ==
    ASSUME IInv, NEW r \in Reqs, NEW m \in Models, NEW key \in Keys \cup {None}, ai[m].st = "live",
           ai' = [ai EXCEPT ![m] = set_api_key(ai[m], key)], Edit(r, m),
           req' = req \/ \E check : AfterCommit(r, m, check), UNCHANGED <<task, sweep, now, checks>>
    PROVE  IInv'
<1>1. TypeOK
  BY DEF IInv
<1>2. PICK row \in AiModel : row = ai[m] /\ RowOK(row) /\ row.st = "live"
  BY <1>1 DEF TypeOK, IInv
<1>3. PICK st \in BOOLEAN : st = (row.stale \/ row.key # key)
  OBVIOUS
<1>4. PICK new : new = [row EXCEPT !.key = key, !.stale = st]
  OBVIOUS
<1>5. /\ new \in AiModel /\ new.st = row.st /\ new.d = row.d /\ new.key = key /\ new.health = row.health
      /\ new.token = row.token /\ new.stale = st /\ new.about = row.about /\ new.mismatch = row.mismatch
      /\ new.alerted = row.alerted /\ new.alerts = row.alerts /\ new.used = row.used /\ new.legacy = row.legacy
  BY <1>2, <1>3, <1>4, ZenonT(60) DEF AiModel
<1>6. set_api_key(row, key) = new
  BY <1>3, <1>4, Zenon DEF set_api_key
<1>7. ai' = [ai EXCEPT ![m] = new]
  BY <1>2, <1>6, Zenon
<1>8. new.stale \/ CallOf(new) = CallOf(row)
  BY <1>3, <1>5 DEF CallOf
<1>9. RowOK(new) /\ KeepsCall(row, new)
  <2>1. new.health \in {"alive", "dead"} => new.stale \/ new.about = CallOf(new)
    BY <1>2, <1>3, <1>5, <1>8 DEF RowOK
  <2> QED BY <1>2, <1>3, <1>5, <1>8, <2>1 DEF RowOK, KeepsCall
<1>10. ai'[m] \in AiModel
  BY <1>1, <1>5, <1>7 DEF TypeOK
<1>11. req' \in [Reqs -> Request]
  BY <1>1, <1>10, AfterCommitType DEF TypeOK
<1>12. edits' \in 0..MaxEdits /\ sweep' \in [Sweeps -> InactivitySweep]
  BY <1>1, EditType DEF TypeOK
<1> QED BY <1>2, <1>5, <1>7, <1>9, <1>11, <1>12, WriteSafe

LEMMA CredentialsSafe ==
    ASSUME IInv, NEW r \in Reqs,
           \/ \E m \in Models, key \in Keys : set_model_api_key_endpoint(r, m, key)
           \/ \E m \in Models : clear_model_api_key_endpoint(r, m)
           \/ \E n \in Names, key \in Keys : bulk_set_model_api_keys_endpoint(r, n, key)
    PROVE  IInv'
<1>1. ASSUME NEW m \in Models, NEW key \in Keys, set_model_api_key_endpoint(r, m, key) PROVE IInv'
  <2>1. /\ ai[m].st = "live" /\ ai' = [ai EXCEPT ![m] = set_api_key(ai[m], key)] /\ Edit(r, m)
        /\ AfterCommit(r, m, TRUE) /\ UNCHANGED <<task, sweep, now, checks>>
    BY <1>1 DEF set_model_api_key_endpoint, get_model
  <2> QED BY <2>1, CredentialSafe
<1>2. ASSUME NEW m \in Models, clear_model_api_key_endpoint(r, m) PROVE IInv'
  <2>1. clear_api_key(ai[m]) = set_api_key(ai[m], None)
    BY Zenon DEF clear_api_key, set_api_key
  <2>2. /\ ai[m].st = "live" /\ ai' = [ai EXCEPT ![m] = clear_api_key(ai[m])] /\ Edit(r, m)
        /\ \E check : AfterCommit(r, m, check) /\ UNCHANGED <<task, sweep, now, checks>>
    BY <1>2 DEF clear_model_api_key_endpoint, get_model
  <2>3. ai' = [ai EXCEPT ![m] = set_api_key(ai[m], None)]
    BY <2>1, <2>2, Zenon
  <2> QED BY <2>2, <2>3, CredentialSafe
<1>3. ASSUME NEW n \in Names, NEW key \in Keys, bulk_set_model_api_keys_endpoint(r, n, key) PROVE IInv'
  <2>1. PICK m \in Models : /\ ai[m].st = "live" /\ ai' = [ai EXCEPT ![m] = set_api_key(ai[m], key)]
                            /\ Edit(r, m)
    BY <1>3 DEF bulk_set_model_api_keys_endpoint, get_model_by_name
  <2>2. UNCHANGED <<req, task, sweep, now, checks>>
    BY <1>3 DEF bulk_set_model_api_keys_endpoint
  <2> QED BY <2>1, <2>2, CredentialSafe
<1> QED BY <1>1, <1>2, <1>3

\* A row that keeps its call and what it shows of it, and goes or comes, is used or re-armed.
SameEvidence(row, new) ==
    /\ new.d = row.d /\ new.key = row.key /\ new.health = row.health /\ new.token = row.token
    /\ new.stale = row.stale /\ new.about = row.about /\ new.mismatch = row.mismatch
    /\ new.legacy = row.legacy

LEMMA SameEvidenceKept ==
    ASSUME NEW row, NEW new, RowOK(row), SameEvidence(row, new), row.st = "none" => new.st = "none",
           IF new.alerted = -1 THEN new.alerts = 0 ELSE new.alerts <= 1 /\ new.used + AlertHours <= new.alerted
    PROVE  RowOK(new) /\ KeepsCall(row, new)
<1>1. CallOf(new) = CallOf(row)
  BY DEF SameEvidence, CallOf
<1> QED BY <1>1 DEF SameEvidence, RowOK, KeepsCall

LEMMA DeleteRestoreSafe ==
    ASSUME IInv, NEW r \in Reqs, NEW m \in Models, delete_model_endpoint(r, m) \/ restore_model_endpoint(r, m)
    PROVE  IInv'
<1>1. TypeOK /\ Edit(r, m) /\ UNCHANGED <<req, task, sweep, now, checks>> /\ ai[m].st # "none"
  BY DEF IInv, delete_model_endpoint, restore_model_endpoint, get_model, list_models
<1>2. PICK row \in AiModel : row = ai[m] /\ RowOK(row) /\ row.st # "none"
  BY <1>1 DEF TypeOK, IInv
<1>3. PICK new \in AiModel :
        /\ ai' = [ai EXCEPT ![m] = new] /\ SameEvidence(row, new) /\ new.st # "none"
        /\ IF new.alerted = -1 THEN new.alerts = 0 ELSE new.alerts <= 1 /\ new.used + AlertHours <= new.alerted
  <2>1. CASE delete_model_endpoint(r, m)
    <3>1. PICK new : new = [row EXCEPT !.st = "dead"]
      OBVIOUS
    <3>2. ai' = [ai EXCEPT ![m] = [ai[m] EXCEPT !.st = "dead"]]
      BY <1>1, <2>1 DEF delete_model_endpoint, TypeOK
    <3>3. ai' = [ai EXCEPT ![m] = new]
      BY <1>2, <3>1, <3>2, Zenon
    <3>4. /\ new \in AiModel /\ new.st = "dead" /\ SameEvidence(row, new)
          /\ new.alerted = row.alerted /\ new.alerts = row.alerts /\ new.used = row.used /\ new.legacy = row.legacy
      BY <1>2, <3>1 DEF AiModel, SameEvidence
    <3> QED BY <1>2, <3>3, <3>4 DEF RowOK
  <2>2. CASE restore_model_endpoint(r, m)
    <3>1. PICK new : new = [row EXCEPT !.st = "live", !.alerted = -1, !.alerts = 0]
      OBVIOUS
    <3>2. ai' = [ai EXCEPT ![m] = new]
      BY <1>2, <2>2, <3>1, Zenon DEF restore_model_endpoint, restore_model, restore
    <3>3. PICK a \in -1..MaxNow, n \in 0..2 : a = -1 /\ n = 0
      BY RegistryAssumption
    <3>4. new \in AiModel /\ new.st = "live" /\ SameEvidence(row, new) /\ new.alerted = -1 /\ new.alerts = 0
      <4>1. new = [row EXCEPT !.st = "live", !.alerted = a, !.alerts = n]
        BY <3>1, <3>3, Zenon
      <4>2. new \in AiModel /\ new.st = "live" /\ SameEvidence(row, new) /\ new.alerted = a /\ new.alerts = n
        BY <1>2, <4>1 DEF AiModel, SameEvidence
      <4> QED BY <3>3, <4>2
    <3> QED BY <3>2, <3>4
  <2> QED BY <2>1, <2>2
<1>4. RowOK(new) /\ KeepsCall(row, new)
  BY <1>2, <1>3, SameEvidenceKept
<1>5. edits' \in 0..MaxEdits /\ req' \in [Reqs -> Request] /\ sweep' \in [Sweeps -> InactivitySweep]
  BY <1>1, EditType DEF TypeOK
<1> QED BY <1>1, <1>2, <1>3, <1>4, <1>5, WriteSafe

\* The savepoints that hold write fresh rows only.
LEMMA BulkCreateSafe ==
    ASSUME IInv, NEW r \in Reqs, NEW M \in SUBSET Models, NEW f \in [M -> Drafts], bulk_create_models_endpoint(r, f)
    PROVE  IInv'
<1>1. /\ TypeOK /\ UNCHANGED <<req, task, sweep, now, checks>> /\ edits < MaxEdits /\ edits' = edits + 1
  BY DEF IInv, bulk_create_models_endpoint
<1>2. PICK ok \in SUBSET M :
        /\ \A m \in ok : Valid(f[m]) /\ ai[m].st = "none"
        /\ ai' = [m \in Models |-> IF m \in ok
                                   THEN [NoRow EXCEPT !.st = "live", !.d = f[m], !.used = now] ELSE ai[m]]
  <2>1. PICK ok : ok = {m \in DOMAIN f : Valid(f[m]) /\ ~Taken(f[m].name, m)}
    OBVIOUS
  <2>2. ok \in SUBSET M /\ \A m \in ok : Valid(f[m])
    BY <2>1
  <2>3. /\ \A m \in ok : ai[m].st = "none"
        /\ ai' = [m \in Models |-> IF m \in ok
                                   THEN [NoRow EXCEPT !.st = "live", !.d = f[m], !.used = now] ELSE ai[m]]
    BY <2>1, Zenon DEF bulk_create_models_endpoint
  <2> QED BY <2>2, <2>3
<1>3. checks \in Nat /\ now \in 0..MaxNow /\ None \in Keys \cup {None}
  BY <1>1 DEF TypeOK
<1>4. ASSUME NEW m \in ok PROVE ai'[m] \in AiModel /\ RowOK(ai'[m])
  <2>1. PICK t \in 0..MaxNow, d \in Declared : t = now /\ d = f[m] /\ Valid(d)
    BY <1>2, <1>3, RegistryAssumption
  <2>2. PICK new : new = [NoRow EXCEPT !.st = "live", !.d = d, !.used = t]
    OBVIOUS
  <2>3. new = Fresh(d, None, t, {})
    BY <2>2 DEF NoRow, Fresh
  <2>4. m \in Models
    BY <1>2
  <2>5. ai'[m] = new
    BY <1>2, <1>4, <2>1, <2>2, <2>4, Zenon
  <2>6. new \in AiModel /\ RowOK(new)
    <3>1. Broken(d) \subseteq {} /\ {} \in SUBSET Rules
      BY <2>1 DEF Valid
    <3> QED BY <1>3, <2>1, <2>3, <3>1, FreshRow
  <2> QED BY <2>5, <2>6
<1>5. \A m \in Models \ ok : ai'[m] = ai[m]
  BY <1>2, Zenon
<1>6. ai' \in [Models -> AiModel] /\ \A m \in Models : RowOK(ai'[m])
  <2>1. \A m \in Models : ai'[m] \in AiModel /\ RowOK(ai'[m])
    BY <1>1, <1>4, <1>5 DEF IInv, TypeOK
  <2>2. ai' = [m \in Models |-> ai'[m]]
    BY <1>2, Zenon
  <2> QED BY <2>1, <2>2
<1>7. \A m \in Models : RowOK(ai[m])'
  BY <1>1, <1>6 DEF RowOK
<1>8. TypeOK'
  BY <1>1, <1>6, <1>7, RegistryAssumption DEF TypeOK, RowOK
<1>9. ASSUME NEW k \in Tasks PROVE TaskOK(task[k])'
  <2> SUFFICES ASSUME task[k].pc = "probing" PROVE TaskOK(task[k])'
    BY <1>1 DEF TaskOK
  <2>1. task[k].model \in Models /\ TaskOK(task[k])
    BY <1>1, TaskKinds DEF IInv, TypeOK
  <2>2. task[k].model \notin ok
    BY <1>2, <2>1 DEF TaskOK
  <2>3. ai'[task[k].model] = ai[task[k].model]
    BY <1>5, <2>1, <2>2
  <2> QED BY <1>1, <2>1, <2>3 DEF TaskOK, MaySettle
<1> QED BY <1>7, <1>8, <1>9 DEF IInv

-----------------------------------------------------------------------------
(* Traffic and the sweep                                                    *)

LEMMA DispatchSafe ==
    ASSUME IInv, NEW r \in Reqs, NEW m \in Models, dispatch_chat(r, m)
    PROVE  IInv'
<1>1. TypeOK /\ UNCHANGED <<ai, task, sweep, now, edits, checks>>
  BY DEF IInv, dispatch_chat
<1>2. PICK x : x = [IdleReq EXCEPT !.pc = "dispatched", !.model = m]
  OBVIOUS
<1>3. x = [pc |-> "dispatched", model |-> m, saw |-> "never"]
  BY <1>2 DEF IdleReq
<1>4. x \in Request
  BY <1>3 DEF Request
<1>5. req' = [req EXCEPT ![r] = x]
  BY <1>2, Zenon DEF dispatch_chat
<1>6. req' \in [Reqs -> Request]
  BY <1>1, <1>4, <1>5 DEF TypeOK
<1> QED BY <1>1, <1>6, QuietSafe DEF TypeOK

LEMMA StampSafe ==
    ASSUME IInv, NEW r \in Reqs, stamp_usage(r)
    PROVE  IInv'
<1>1. TypeOK /\ UNCHANGED <<task, sweep, now, edits, checks>> /\ req' = [req EXCEPT ![r] = IdleReq]
  BY DEF IInv, stamp_usage
<1>2. PICK m \in Models : m = req[r].model
  BY <1>1, RequestKinds DEF TypeOK, stamp_usage
<1>3. PICK row \in AiModel : row = ai[m] /\ RowOK(row)
  BY <1>1 DEF TypeOK, IInv
<1>4. PICK t \in 0..MaxNow : t = now
  BY <1>1 DEF TypeOK
<1>5. PICK new : new = [row EXCEPT !.used = t, !.alerted = -1, !.alerts = 0]
  OBVIOUS
<1>6. ai' = [ai EXCEPT ![m] = new]
  BY <1>2, <1>3, <1>4, <1>5, Zenon DEF stamp_usage
<1>7. PICK a \in -1..MaxNow, n \in 0..2 : a = -1 /\ n = 0
  BY RegistryAssumption
<1>8. new \in AiModel /\ new.st = row.st /\ SameEvidence(row, new) /\ new.alerted = -1 /\ new.alerts = 0
  <2>1. new = [row EXCEPT !.used = t, !.alerted = a, !.alerts = n]
    BY <1>5, <1>7, Zenon
  <2>2. new \in AiModel /\ new.st = row.st /\ SameEvidence(row, new) /\ new.alerted = a /\ new.alerts = n
    BY <1>3, <2>1 DEF AiModel, SameEvidence
  <2> QED BY <1>7, <2>2
<1>9. RowOK(new) /\ KeepsCall(row, new)
  BY <1>3, <1>8, SameEvidenceKept
<1>10. req' \in [Reqs -> Request] /\ edits' \in 0..MaxEdits /\ sweep' \in [Sweeps -> InactivitySweep]
  BY <1>1, IdleStep DEF TypeOK
<1> QED BY <1>1, <1>3, <1>6, <1>8, <1>9, <1>10, WriteSafe

LEMMA SweepsSafe ==
    ASSUME IInv, NEW s \in Sweeps, SweepRead(s) \/ SweepKilled(s)
    PROVE  IInv'
<1>1. TypeOK /\ UNCHANGED <<ai, req, task, now, edits, checks>>
  BY DEF IInv, SweepRead, SweepKilled
<1>2. PICK x : x = [pc |-> "claim", now |-> now, left |-> find_inactive_models(now)]
  OBVIOUS
<1>3. x \in InactivitySweep /\ NoSweep \in InactivitySweep
  BY <1>1, <1>2 DEF TypeOK, find_inactive_models, InactivitySweep
<1>4. sweep' = [sweep EXCEPT ![s] = x] \/ sweep' = [sweep EXCEPT ![s] = NoSweep]
  BY <1>2, Zenon DEF SweepRead, SweepKilled
<1>5. sweep' \in [Sweeps -> InactivitySweep]
  BY <1>1, <1>3, <1>4 DEF TypeOK
<1> QED BY <1>1, <1>5, QuietSafe DEF TypeOK

\* The claim repeats the predicate, so the stamp it writes is past the alert hours since the last use.
LEMMA AlertSafe ==
    ASSUME IInv, NEW s \in Sweeps, NEW m \in Models, alert_inactive_models(s, m)
    PROVE  IInv'
<1>1. TypeOK /\ UNCHANGED <<req, task, now, edits, checks>> /\ m \in sweep[s].left
  BY DEF IInv, alert_inactive_models
<1>2. PICK x \in InactivitySweep : x = sweep[s] /\ x.now \in 0..MaxNow /\ m \in x.left
  BY <1>1, SweepKinds DEF TypeOK
<1>3. x \in [pc : {"claim"}, now : 0..MaxNow, left : SUBSET Models]
  BY <1>2 DEF InactivitySweep, NoSweep
<1>4. PICK y : y = IF x.left = {m} THEN NoSweep ELSE [x EXCEPT !.left = x.left \ {m}]
  OBVIOUS
<1>5. y \in InactivitySweep
  BY <1>3, <1>4 DEF InactivitySweep
<1>6. sweep' = [sweep EXCEPT ![s] = y]
  BY <1>2, <1>4, Zenon DEF alert_inactive_models
<1>7. sweep' \in [Sweeps -> InactivitySweep]
  BY <1>1, <1>5, <1>6 DEF TypeOK
<1>8. CASE ~claim(ai[m], x.now)
  <2>1. ai' = ai
    BY <1>2, <1>8 DEF alert_inactive_models
  <2> QED BY <1>1, <1>7, <2>1, QuietSafe DEF TypeOK
<1>9. CASE claim(ai[m], x.now)
  <2>1. PICK row \in AiModel : row = ai[m] /\ RowOK(row)
    BY <1>1 DEF TypeOK, IInv
  <2>2. row.alerted = -1 /\ x.now - row.used >= AlertHours /\ row.alerts = 0
    BY <1>9, <2>1 DEF claim, inactive_predicate, RowOK
  <2>3. PICK t \in 0..MaxNow : t = x.now
    BY <1>2
  <2>4. PICK new : new = [row EXCEPT !.alerted = t, !.alerts = 1]
    OBVIOUS
  <2>5. Claimed(row, t) = new
    <3>1. (IF row.alerts < 2 THEN row.alerts + 1 ELSE 2) = 1
      BY <2>2
    <3> QED BY <2>4, <3>1, Zenon DEF Claimed
  <2>6. ai' = [ai EXCEPT ![m] = new]
    BY <1>2, <1>9, <2>1, <2>3, <2>5, Zenon DEF alert_inactive_models
  <2>7. /\ new \in AiModel /\ new.st = row.st /\ SameEvidence(row, new)
        /\ new.alerted = t /\ new.alerts = 1 /\ new.used = row.used
    <3>1. PICK a \in -1..MaxNow, n \in 0..2 : a = t /\ n = 1
      BY <2>3, RegistryAssumption
    <3>2. new = [row EXCEPT !.alerted = a, !.alerts = n]
      BY <2>4, <3>1, Zenon
    <3>3. /\ new \in AiModel /\ new.st = row.st /\ SameEvidence(row, new)
          /\ new.alerted = a /\ new.alerts = n /\ new.used = row.used
      BY <2>1, <3>2 DEF AiModel, SameEvidence
    <3> QED BY <3>1, <3>3
  <2>8. new.alerts <= 1 /\ new.used + AlertHours <= new.alerted /\ new.alerted # -1
    <3>1. row.used \in Int /\ AlertHours \in Int /\ t \in Int /\ t # -1
      BY <2>1, <2>3, RegistryAssumption DEF AiModel
    <3> QED BY <2>2, <2>3, <2>7, <3>1
  <2>9. RowOK(new) /\ KeepsCall(row, new)
    BY <2>1, <2>7, <2>8, SameEvidenceKept
  <2> QED BY <1>1, <1>7, <2>1, <2>6, <2>7, <2>9, WriteSafe DEF TypeOK
<1> QED BY <1>8, <1>9

LEMMA TickSafe ==
    ASSUME IInv, Tick \/ UNCHANGED vars
    PROVE  IInv'
<1>1. TypeOK /\ UNCHANGED <<ai, req, task, sweep, edits, checks>> /\ now' \in 0..MaxNow
  BY RegistryAssumption DEF IInv, Tick, vars, TypeOK
<1> QED BY <1>1, QuietSafe DEF TypeOK

-----------------------------------------------------------------------------
(* Theorems                                                                 *)

LEMMA NextIInv ==
    ASSUME IInv, [Next]_vars
    PROVE  IInv'
<1>1. CASE Tick \/ UNCHANGED vars
  BY <1>1, TickSafe
<1>2. ASSUME NEW r \in Reqs, NEW m \in Models,
             \/ \E d \in Drafts, key \in Keys \cup {None} : create_model_endpoint(r, m, d, key)
             \/ \E p \in Patches : update_model_endpoint(r, m, p)
             \/ \E key \in Keys : set_model_api_key_endpoint(r, m, key)
             \/ clear_model_api_key_endpoint(r, m)
             \/ delete_model_endpoint(r, m)
             \/ restore_model_endpoint(r, m)
             \/ health_check_model_endpoint(r, m)
             \/ dispatch_chat(r, m)
             \/ dispatch_stream(r, m)
      PROVE  IInv'
  <2>1. CASE \E d \in Drafts, key \in Keys \cup {None} : create_model_endpoint(r, m, d, key)
    BY <2>1, CreateSafe
  <2>2. CASE \E p \in Patches : update_model_endpoint(r, m, p)
    BY <2>2, UpdateSafe
  <2>3. CASE (\E key \in Keys : set_model_api_key_endpoint(r, m, key)) \/ clear_model_api_key_endpoint(r, m)
    BY <2>3, CredentialsSafe
  <2>4. CASE delete_model_endpoint(r, m) \/ restore_model_endpoint(r, m)
    BY <2>4, DeleteRestoreSafe
  <2>5. CASE health_check_model_endpoint(r, m)
    BY <2>5, ManualCheckSafe
  <2>6. CASE dispatch_chat(r, m) \/ dispatch_stream(r, m)
    BY <2>6, DispatchSafe DEF dispatch_stream
  <2> QED BY <1>2, <2>1, <2>2, <2>3, <2>4, <2>5, <2>6
<1>3. ASSUME NEW r \in Reqs, NEW M \in SUBSET Models, NEW f \in [M -> Drafts], bulk_create_models_endpoint(r, f)
      PROVE  IInv'
  BY <1>3, BulkCreateSafe
<1>4. ASSUME NEW r \in Reqs, NEW n \in Names, NEW key \in Keys, bulk_set_model_api_keys_endpoint(r, n, key)
      PROVE  IInv'
  BY <1>4, CredentialsSafe
<1>5. ASSUME NEW r \in Reqs,
             \/ AutocheckEnqueue(r) \/ AutocheckUnavailable(r) \/ AutocheckStart(r)
             \/ ManualCommit(r) \/ stamp_usage(r) \/ Drop(r)
      PROVE  IInv'
  BY <1>5, QueueingSafe, StartCheckSafe, StampSafe
<1>6. ASSUME NEW k \in Tasks,
             \/ TaskRead(k) \/ TaskKilled(k)
             \/ \E probe \in dispatch_health, image \in {"refused", "served", "inconclusive"} : Settle(k, probe, image)
      PROVE  IInv'
  BY <1>6, TaskReadSafe, TaskKilledSafe, SettleSafe
<1>7. ASSUME NEW m \in Models, Overdue(m) PROVE IInv'
  BY <1>7, OverdueSafe
<1>8. ASSUME NEW s \in Sweeps, SweepRead(s) \/ SweepKilled(s) \/ \E m \in Models : alert_inactive_models(s, m)
      PROVE  IInv'
  BY <1>8, SweepsSafe, AlertSafe
<1> QED BY <1>1, <1>2, <1>3, <1>4, <1>5, <1>6, <1>7, <1>8 DEF Next

\* Every row, request, task and sweep is one the program can hold, and every row and running task is as
\* RowOK and TaskOK say, however operators, workers and sweeps interleave.
THEOREM Invariance == Spec => []IInv
<1>1. Init => IInv
  BY InitIInv
<1>2. IInv /\ [Next]_vars => IInv'
  BY NextIInv
<1> QED BY <1>1, <1>2, PTL DEF Spec

\* Every row, request, task and sweep is one the program can hold.
THEOREM TypeCorrect == Spec => []TypeOK
<1>1. IInv => TypeOK
  BY DEF IInv
<1> QED BY <1>1, Invariance, PTL

\* No verdict or finding of an earlier endpoint, vendor, id or key is shown on a row once it has shown
\* the check of its present call in flight, whatever edits, checks, redeliveries and killed tasks
\* overlap (the two guarded updates of run_health_check, update_model).
THEOREM EvidenceStaysCurrent == Spec => []EvidenceCurrent
<1>1. IInv => EvidenceCurrent
  BY DEF IInv, RowOK, EvidenceCurrent, VerdictCurrent, FindingCurrent
<1> QED BY <1>1, Invariance, PTL

\* An inactivity alert announces a quiet spell once, and only while it lasts, though sweeps overlap and
\* are redelivered and traffic lands between a sweep's read and its claim (_claim, touch_last_used).
THEOREM AlertsStayHonest == Spec => []AlertsHonest
<1>1. ASSUME IInv, NEW m \in Models
      PROVE  ai[m].alerts <= 1 /\ (ai[m].alerted # -1 => ai[m].used + AlertHours <= ai[m].alerted)
  BY <1>1 DEF IInv, RowOK
<1>2. IInv => AlertsHonest
  BY <1>1 DEF AlertsHonest, AlertedOncePerEpisode, AlertMeansQuiet
<1> QED BY <1>2, Invariance, PTL

\* Checking only the rules a patch touches is enough: whatever sequence of patches a row went through,
\* a model the registry offers a reader can be dispatched to and reaches its vendor under its own id,
\* unless it was declared not to produce text; a row older than a rule is excepted from that rule until a
\* patch first comes under it (update_model, _build_call, _apply_web_access, _resolve_model).
THEOREM OffersAreCallable == Spec => []OfferedIsCallable
<1>1. ASSUME IInv PROVE OfferedIsCallable
  <2> SUFFICES ASSUME NEW perms \in SUBSET {"read", "delete"}, NEW inGroup \in BOOLEAN, NEW m \in Models,
                      \/ m \in list_models_endpoint(perms, inGroup, [deleted |-> FALSE, include_disabled |-> FALSE])
                      \/ get_model_endpoint(perms, m)
               PROVE  /\ resolve_model(m)
                      /\ apply_web_access(ai[m].d) \/ "web" \in ai[m].legacy
                      /\ build_call(ai[m].d) \/ ~ai[m].d.text \/ "endpoint" \in ai[m].legacy
                      /\ ~prefixed_model_id(ai[m].d) \/ "prefix" \in ai[m].legacy
    BY DEF OfferedIsCallable
  <2>1. "update" \notin perms
    OBVIOUS
  <2>2. ai[m].st = "live" /\ ~ai[m].d.off
    BY <2>1 DEF list_models_endpoint, list_models, get_model_endpoint, get_model
  <2>3. \A rule \in Rules : rule \in Broken(ai[m].d) => rule \in ai[m].legacy
    BY <1>1, <2>2 DEF IInv, RowOK
  <2>4. /\ missing_inference_endpoint(ai[m].d) => "endpoint" \in ai[m].legacy
        /\ prefixed_model_id(ai[m].d) => "prefix" \in ai[m].legacy
        /\ ai[m].d.web /\ ~supports_web_access(ai[m].d) => "web" \in ai[m].legacy
    BY <2>3 DEF Broken, Rules
  <2> QED BY <2>2, <2>4 DEF resolve_model, apply_web_access, build_call
<1> QED BY <1>1, Invariance, PTL
=============================================================================
