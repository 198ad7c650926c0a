----------------------------- MODULE ExportJobs -----------------------------
(***************************************************************************)
(* Asynchronous exports: POST /exports/jobs (create_export_job_endpoint    *)
(* and create_export_job), the Celery task run_export_job with its retries *)
(* and redeliveries, the reaper reap_expired_export_jobs, and DELETE       *)
(* /exports/jobs/{id}.  Rows and files change at different instants: every *)
(* storage call takes effect at once, a row change at its commit.          *)
(***************************************************************************)
EXTENDS Naturals, Sequences, FiniteSets

CONSTANTS
    Jobs,            \* export_jobs row ids
    Workers,         \* Celery worker processes
    Clients,         \* concurrent create requests of one requester
    Keys, NoKey,     \* idempotency_key values, and its absence
    None,
    MaxRetries,      \* max_retries of run_export_job
    WorkerCrashes,   \* workers and the reaper may die mid-run
    StorageFaults,   \* storage.delete may fail (and is suppressed)
    CommitReplyLost  \* a commit may land and still raise OperationalError

ASSUME ConstAssumption ==
    /\ MaxRetries \in Nat
    /\ WorkerCrashes \in BOOLEAN /\ StorageFaults \in BOOLEAN
    /\ CommitReplyLost \in BOOLEAN
    /\ NoKey \notin Keys
    /\ None \notin Jobs

VARIABLES
    row,      \* row[j]: the export_jobs row
    file,     \* file[j]: what is stored under the deterministic key of j
    msgs,     \* broker: run_export_job messages, kept until acknowledged
    worker,   \* worker[w]: the task execution of w
    client,   \* client[c]: the create request of c
    deleting, \* deleting[j]: progress of a DELETE of j
    reaper,   \* the reaper's tick
    notices   \* notices[j]: completion announcements committed for j

vars == <<row, file, msgs, worker, client, deleting, reaper, notices>>
others == <<client, deleting, reaper>>

Finished == {"ready", "failed"}
Unfinished == {"pending", "running"}

Row ==
    [st   : {"none", "gone"} \cup Unfinished \cup Finished,  \* status; "gone": hard-deleted
     live : BOOLEAN,                    \* deleted_at IS NULL
     ref  : BOOLEAN,                    \* file_ref IS NOT NULL
     exp  : {"null", "set", "lapsed"},  \* expires_at
     aged : BOOLEAN,                    \* created_at < now - export_stuck_ttl_seconds
     key  : Keys \cup {NoKey}]

NoRow == [st |-> "none", live |-> FALSE, ref |-> FALSE, exp |-> "null",
          aged |-> FALSE, key |-> NoKey]

Message == [job : Jobs, retries : 0..MaxRetries]

IdleWorker == [pc |-> "idle", job |-> None, retries |-> 0, transient |-> FALSE]
IdleClient == [pc |-> "idle", key |-> NoKey, job |-> None]
IdleReaper == [pc |-> "idle", todo |-> {}, erased |-> {}, kept |-> {}]

TypeOK ==
    /\ row \in [Jobs -> Row]
    /\ file \in [Jobs -> {"absent", "partial", "whole"}]
    /\ msgs \subseteq Message
    /\ worker \in [Workers ->
         [pc : {"idle", "generating", "writing", "saved", "failing", "cleaned",
                "retrying", "dropping"},
          job : Jobs \cup {None}, retries : 0..MaxRetries, transient : BOOLEAN]]
    /\ client \in [Clients ->
         [pc : {"idle", "inserting", "enqueueing"}, key : Keys \cup {NoKey},
          job : Jobs \cup {None}]]
    /\ deleting \in [Jobs -> {"no", "erased", "kept"}]
    /\ reaper \in [pc : {"idle", "sweeping"}, todo : SUBSET Jobs,
                   erased : SUBSET Jobs, kept : SUBSET Jobs]
    /\ notices \in [Jobs -> Seq(Finished)]

Init ==
    /\ row = [j \in Jobs |-> NoRow]
    /\ file = [j \in Jobs |-> "absent"]
    /\ msgs = {}
    /\ worker = [w \in Workers |-> IdleWorker]
    /\ client = [c \in Clients |-> IdleClient]
    /\ deleting = [j \in Jobs |-> "no"]
    /\ reaper = IdleReaper
    /\ notices = [j \in Jobs |-> <<>>]

-----------------------------------------------------------------------------
(* Shared helpers                                                           *)

Live(j, states) == row[j].live /\ row[j].st \in states

\* _announce: in the caller's transaction, behind a savepoint, best effort.
Announce(j, outcome) ==
    \/ notices' = [notices EXCEPT ![j] = Append(@, outcome)]
    \/ UNCHANGED notices

\* storage.delete, its failures suppressed or logged.
EraseFile(j) ==
    \/ file' = [file EXCEPT ![j] = "absent"]
    \/ StorageFaults /\ UNCHANGED file

Holding(j, k) == row[j].live /\ row[j].key = k /\ k # NoKey

-----------------------------------------------------------------------------
(* POST /exports/jobs                                                       *)

\* create_export_job: the key is looked up first; first seen, go and insert.
CreateStart(c, k) ==
    /\ client[c].pc = "idle"
    /\ \A j \in Jobs : ~Holding(j, k)
    /\ client' = [client EXCEPT ![c] = [pc |-> "inserting", key |-> k, job |-> None]]
    /\ UNCHANGED <<row, file, msgs, worker, deleting, reaper, notices>>

\* The key has a live job: _assert_same_request, then it is replayed (202,
\* created=False).  A different request under the key is a 409.  Neither writes.
CreateReplay(c, k) ==
    /\ client[c].pc = "idle"
    /\ \E j \in Jobs : Holding(j, k)
    /\ UNCHANGED vars

\* The insert and the commit: the partial-unique index lets it through.
CreateInsert(c, j) ==
    /\ client[c].pc = "inserting"
    /\ row[j].st = "none"
    /\ \A i \in Jobs : ~Holding(i, client[c].key)
    /\ row' = [row EXCEPT ![j] = [NoRow EXCEPT !.st = "pending", !.live = TRUE,
                                   !.key = client[c].key]]
    /\ client' = [client EXCEPT ![c].pc = "enqueueing", ![c].job = j]
    /\ UNCHANGED <<file, msgs, worker, deleting, reaper, notices>>

\* IntegrityError: the winner's job is looked up again and replayed if it is
\* the same request, else 409.
CreateLost(c) ==
    /\ client[c].pc = "inserting"
    /\ \E j \in Jobs : Holding(j, client[c].key)
    /\ client' = [client EXCEPT ![c] = IdleClient]
    /\ UNCHANGED <<row, file, msgs, worker, deleting, reaper, notices>>

\* run_export_job.delay after the commit.
Enqueue(c) ==
    /\ client[c].pc = "enqueueing"
    /\ msgs' = msgs \cup {[job |-> client[c].job, retries |-> 0]}
    /\ client' = [client EXCEPT ![c] = IdleClient]
    /\ UNCHANGED <<row, file, worker, deleting, reaper, notices>>

\* The broker refuses: the row is hard-deleted again and the client gets 503.
EnqueueFail(c) ==
    /\ client[c].pc = "enqueueing"
    /\ row' = [row EXCEPT ![client[c].job] = [NoRow EXCEPT !.st = "gone"]]
    /\ client' = [client EXCEPT ![c] = IdleClient]
    /\ UNCHANGED <<file, msgs, worker, deleting, reaper, notices>>

\* The API process dies between the commit and the enqueue.
CreateCrash(c) ==
    /\ WorkerCrashes
    /\ client[c].pc \in {"inserting", "enqueueing"}
    /\ client' = [client EXCEPT ![c] = IdleClient]
    /\ UNCHANGED <<row, file, msgs, worker, deleting, reaper, notices>>

-----------------------------------------------------------------------------
(* run_export_job.  A message stays with the broker until the task returns  *)
(* (acks_late); until then it may be delivered again, or be lost.           *)

MessageOf(w) == [job |-> worker[w].job, retries |-> worker[w].retries]

Acked(w) == msgs \ {MessageOf(w)}

\* autoretry_for: the retry is published with one more attempt used.
RetryOf(w) == [job |-> worker[w].job, retries |-> worker[w].retries + 1]

Release(w) == worker' = [worker EXCEPT ![w] = IdleWorker]

WorkerGoto(w, where) == worker' = [worker EXCEPT ![w].pc = where]

\* Variant: the claim does not insist on a pending row.
ClaimNoCas(w, m) ==
    /\ worker[w].pc = "idle"
    /\ m \in msgs
    /\ Live(m.job, Unfinished)
    /\ row' = [row EXCEPT ![m.job].st = "running"]
    /\ worker' = [worker EXCEPT ![w] = [pc |-> "generating", job |-> m.job,
                                         retries |-> m.retries, transient |-> FALSE]]
    /\ UNCHANGED <<file, msgs, others, notices>>

\* The claim: UPDATE ... SET running WHERE status = pending, committed.
Claim(w, m) ==
    /\ worker[w].pc = "idle"
    /\ m \in msgs
    /\ Live(m.job, {"pending"})
    /\ row' = [row EXCEPT ![m.job].st = "running"]
    /\ worker' = [worker EXCEPT ![w] = [pc |-> "generating", job |-> m.job,
                                         retries |-> m.retries, transient |-> FALSE]]
    /\ UNCHANGED <<file, msgs, others, notices>>

\* The row is missing, finished, or claimed by someone else: nothing to do.
Skip(w, m) ==
    /\ worker[w].pc = "idle"
    /\ m \in msgs
    /\ ~Live(m.job, {"pending"})
    /\ msgs' = msgs \ {m}
    /\ UNCHANGED <<row, file, worker, others, notices>>

\* Caller, template and scope resolve; storage.save opens the file.
OpenFile(w) ==
    /\ worker[w].pc = "generating"
    /\ file' = [file EXCEPT ![worker[w].job] = "partial"]
    /\ WorkerGoto(w, "writing")
    /\ UNCHANGED <<row, msgs, others, notices>>

\* stream_export is exhausted: storage.save returns.
SaveFile(w) ==
    /\ worker[w].pc = "writing"
    /\ file' = [file EXCEPT ![worker[w].job] = "whole"]
    /\ WorkerGoto(w, "saved")
    /\ UNCHANGED <<row, msgs, others, notices>>

MarkReady(j) == row' = [row EXCEPT ![j].st = "ready", ![j].ref = TRUE, ![j].exp = "set"]

\* The finalise compare-and-swap wins: ready, announced, committed.
FinalizeReady(w) ==
    LET j == worker[w].job IN
    /\ worker[w].pc = "saved"
    /\ Live(j, {"running"})
    /\ MarkReady(j)
    /\ Announce(j, "ready")
    /\ msgs' = Acked(w)
    /\ Release(w)
    /\ UNCHANGED <<file, others>>

\* The row was taken away while generating: drop the file just written.
FinalizeSuperseded(w) ==
    /\ worker[w].pc = "saved"
    /\ ~Live(worker[w].job, {"running"})
    /\ WorkerGoto(w, "dropping")
    /\ UNCHANGED <<row, file, msgs, others, notices>>

DropFile(w) ==
    /\ worker[w].pc = "dropping"
    /\ EraseFile(worker[w].job)
    /\ msgs' = Acked(w)
    /\ Release(w)
    /\ UNCHANGED <<row, others, notices>>

\* The finalise commit lands but its reply is lost: OperationalError.
FinalizeReplyLost(w) ==
    LET j == worker[w].job IN
    /\ CommitReplyLost
    /\ worker[w].pc = "saved"
    /\ Live(j, {"running"})
    /\ MarkReady(j)
    /\ Announce(j, "ready")
    /\ worker' = [worker EXCEPT ![w].pc = "failing", ![w].transient = TRUE]
    /\ UNCHANGED <<file, msgs, others>>

\* Anything raises between the claim and the finalise commit.
RunFails(w, transient) ==
    /\ worker[w].pc \in {"generating", "writing", "saved"}
    /\ worker' = [worker EXCEPT ![w].pc = "failing", ![w].transient = transient]
    /\ UNCHANGED <<row, file, msgs, others, notices>>

\* _handle_run_failure: roll back, drop whatever lies under the key.
CleanUp(w) ==
    /\ worker[w].pc = "failing"
    /\ EraseFile(worker[w].job)
    /\ WorkerGoto(w, "cleaned")
    /\ UNCHANGED <<row, msgs, others, notices>>

MayRetry(w) == worker[w].transient /\ worker[w].retries < MaxRetries

\* Transient, budget left, row still running: back to pending, re-raised.
Requeue(w) ==
    /\ worker[w].pc = "cleaned"
    /\ MayRetry(w)
    /\ Live(worker[w].job, {"running"})
    /\ row' = [row EXCEPT ![worker[w].job].st = "pending"]
    /\ WorkerGoto(w, "retrying")
    /\ UNCHANGED <<file, msgs, others, notices>>

PublishRetry(w) ==
    /\ worker[w].pc = "retrying"
    /\ msgs' = Acked(w) \cup {RetryOf(w)}
    /\ Release(w)
    /\ UNCHANGED <<row, file, others, notices>>

\* Variant: the failure is recorded whatever the row says by now.
RecordFailureUnguarded(w) ==
    LET j == worker[w].job IN
    /\ worker[w].pc = "cleaned"
    /\ ~MayRetry(w)
    /\ row' = [row EXCEPT ![j].st = "failed", ![j].exp = "set"]
    /\ Announce(j, "failed")
    /\ msgs' = Acked(w)
    /\ Release(w)
    /\ UNCHANGED <<file, others>>

\* Permanent or out of budget: the guarded running -> failed, announced.
RecordFailure(w) ==
    LET j == worker[w].job IN
    /\ worker[w].pc = "cleaned"
    /\ ~MayRetry(w)
    /\ Live(j, {"running"})
    /\ row' = [row EXCEPT ![j].st = "failed", ![j].exp = "set"]
    /\ Announce(j, "failed")
    /\ msgs' = Acked(w)
    /\ Release(w)
    /\ UNCHANGED <<file, others>>

\* Either compare-and-swap of the failure handler finds the row taken away.
FailureSuperseded(w) ==
    /\ worker[w].pc = "cleaned"
    /\ ~Live(worker[w].job, {"running"})
    /\ msgs' = Acked(w)
    /\ Release(w)
    /\ UNCHANGED <<row, file, others, notices>>

\* The handler's own statement hits the still-down database: the row stays
\* as it is and the OperationalError is retried by Celery if budget is left.
FailureBlip(w) ==
    /\ worker[w].pc = "cleaned"
    /\ msgs' = IF worker[w].retries < MaxRetries THEN Acked(w) \cup {RetryOf(w)}
                                                 ELSE Acked(w)
    /\ Release(w)
    /\ UNCHANGED <<row, file, others, notices>>

WorkerCrash(w) ==
    /\ WorkerCrashes
    /\ worker[w].pc # "idle"
    /\ Release(w)
    /\ UNCHANGED <<row, file, msgs, others, notices>>

LoseMessage(m) ==
    /\ m \in msgs
    /\ msgs' = msgs \ {m}
    /\ UNCHANGED <<row, file, worker, others, notices>>

-----------------------------------------------------------------------------
(* reap_expired_export_jobs: one transaction, storage deletes on the way.   *)

\* Variant: every row with a TTL is reaped, lapsed or not.
ReapSelectUnlapsed ==
    /\ reaper.pc = "idle"
    /\ reaper' = [IdleReaper EXCEPT !.pc = "sweeping",
                     !.todo = {j \in Jobs : row[j].live /\ row[j].exp # "null"}]
    /\ UNCHANGED <<row, file, msgs, worker, client, deleting, notices>>

ReapSelect ==
    /\ reaper.pc = "idle"
    /\ reaper' = [IdleReaper EXCEPT !.pc = "sweeping",
                     !.todo = {j \in Jobs : row[j].live /\ row[j].exp = "lapsed"}]
    /\ UNCHANGED <<row, file, msgs, worker, client, deleting, notices>>

\* soft_delete_export_job on a selected row: the file goes if it has a handle.
ReapFile(j) ==
    /\ j \in reaper.todo
    /\ \/ /\ row[j].ref
          /\ file' = [file EXCEPT ![j] = "absent"]
          /\ reaper' = [reaper EXCEPT !.todo = @ \ {j}, !.erased = @ \cup {j}]
       \/ /\ ~row[j].ref \/ StorageFaults
          /\ reaper' = [reaper EXCEPT !.todo = @ \ {j}, !.kept = @ \cup {j}]
          /\ UNCHANGED file
    /\ UNCHANGED <<row, msgs, worker, client, deleting, notices>>

\* Variant: the stuck sweep looks at running rows only.
StuckRunning(j) == Live(j, {"running"}) /\ row[j].aged

Stuck(j) == Live(j, Unfinished) /\ row[j].aged

\* The stuck sweep's conditional UPDATE, its announcements, and the commit.
ReapCommit ==
    LET swept == reaper.erased \cup reaper.kept IN
    /\ reaper.pc = "sweeping" /\ reaper.todo = {}
    /\ row' = [j \in Jobs |->
          IF j \in swept THEN [row[j] EXCEPT !.live = FALSE,
                                             !.ref = @ /\ j \notin reaper.erased]
          ELSE IF Stuck(j) THEN [row[j] EXCEPT !.st = "failed", !.exp = "set"]
          ELSE row[j]]
    /\ \E told \in SUBSET {j \in Jobs : Stuck(j)} :
          notices' = [j \in Jobs |-> IF j \in told THEN Append(notices[j], "failed")
                                                   ELSE notices[j]]
    /\ reaper' = IdleReaper
    /\ UNCHANGED <<file, msgs, worker, client, deleting>>

ReapCrash ==
    /\ WorkerCrashes
    /\ reaper.pc = "sweeping"
    /\ reaper' = IdleReaper
    /\ UNCHANGED <<row, file, msgs, worker, client, deleting, notices>>

-----------------------------------------------------------------------------
(* DELETE /exports/jobs/{id}: the file first, the row at the commit.  A     *)
(* request that dies in between simply never commits.                       *)

DeleteErase(j) ==
    /\ Live(j, Finished)
    /\ \/ /\ row[j].ref
          /\ file' = [file EXCEPT ![j] = "absent"]
          /\ deleting' = [deleting EXCEPT ![j] = "erased"]
       \/ /\ ~row[j].ref \/ StorageFaults
          /\ deleting' = [deleting EXCEPT ![j] = "kept"]
          /\ UNCHANGED file
    /\ UNCHANGED <<row, msgs, worker, client, reaper, notices>>

DeleteCommit(j) ==
    /\ deleting[j] # "no"
    /\ row' = [row EXCEPT ![j].live = FALSE,
                           ![j].ref = @ /\ deleting[j] # "erased"]
    /\ deleting' = [deleting EXCEPT ![j] = "no"]
    /\ UNCHANGED <<file, msgs, worker, client, reaper, notices>>

-----------------------------------------------------------------------------
(* The passing of time.                                                     *)

\* created_at falls behind the stuck cutoff.
Age(j) ==
    /\ Live(j, Unfinished) /\ ~row[j].aged
    /\ row' = [row EXCEPT ![j].aged = TRUE]
    /\ UNCHANGED <<file, msgs, worker, others, notices>>

\* expires_at passes.
Lapse(j) ==
    /\ row[j].live /\ row[j].exp = "set"
    /\ row' = [row EXCEPT ![j].exp = "lapsed"]
    /\ UNCHANGED <<file, msgs, worker, others, notices>>

-----------------------------------------------------------------------------
CreateSteps(c) ==
    \/ \E k \in Keys \cup {NoKey} : CreateStart(c, k) \/ CreateReplay(c, k)
    \/ \E j \in Jobs : CreateInsert(c, j)
    \/ CreateLost(c) \/ Enqueue(c) \/ EnqueueFail(c) \/ CreateCrash(c)

RunSteps(w) ==
    \/ OpenFile(w) \/ SaveFile(w) \/ FinalizeReady(w) \/ FinalizeSuperseded(w) \/ DropFile(w)
    \/ FinalizeReplyLost(w) \/ CleanUp(w) \/ Requeue(w) \/ PublishRetry(w)
    \/ RecordFailure(w) \/ FailureSuperseded(w) \/ FailureBlip(w) \/ WorkerCrash(w)
    \/ \E transient \in BOOLEAN : RunFails(w, transient)
    \/ \E m \in msgs : Claim(w, m) \/ Skip(w, m)

ReapSteps == ReapSelect \/ ReapCommit \/ ReapCrash \/ \E j \in Jobs : ReapFile(j)

RowSteps(j) == DeleteErase(j) \/ DeleteCommit(j) \/ Age(j) \/ Lapse(j)

Next ==
    \/ \E c \in Clients : CreateSteps(c)
    \/ \E w \in Workers : RunSteps(w)
    \/ \E m \in msgs : LoseMessage(m)
    \/ ReapSteps
    \/ \E j \in Jobs : RowSteps(j)

Spec == Init /\ [][Next]_vars

\* Time passes, and beat ticks the reaper for ever: a tick may die, but not
\* every tick dies.  No fairness for workers, broker or clients.
Fairness ==
    /\ \A j \in Jobs : WF_vars(Age(j)) /\ WF_vars(Lapse(j)) /\ SF_vars(ReapFile(j))
    /\ WF_vars(ReapSelect)
    /\ SF_vars(ReapCommit)

FairSpec == Spec /\ Fairness

-----------------------------------------------------------------------------
\* w reads or writes the stored file of j on behalf of its claim.
Owns(w, j) == worker[w].job = j /\ worker[w].pc \notin {"idle", "retrying"}

\* Redeliveries, retries and crashes never put two workers on one file (the
\* claim's compare-and-swap: "two workers never open the same local file").
SingleWriter ==
    \A j \in Jobs, v, w \in Workers : Owns(v, j) /\ Owns(w, j) => v = w

\* A job announces its completion at most once, and announces what its row
\* says ("announcing exactly once is the CAS's job").
AnnouncedOnce ==
    \A j \in Jobs :
        /\ Len(notices[j]) <= 1
        /\ notices[j] # <<>> /\ row[j].st \in Finished => notices[j] = <<row[j].st>>

\* A step keeps the file of j: it is whole when the row turns ready, and while the row
\* stays ready and unexpired only a DELETE or the run that made it ready takes it away.
FileKept(j) ==
    /\ row[j].st # "ready" /\ row'[j].st = "ready" => file'[j] = "whole"
    /\ Live(j, {"ready"}) /\ row[j].exp = "set" /\ file[j] = "whole" /\ file'[j] # "whole"
        => \/ deleting'[j] = "erased"
           \/ \E w \in Workers : worker[w].job = j /\ worker[w].pc = "failing" /\ worker[w].transient

\* A download of a ready, unexpired job opens the whole file: the file is whole when
\* the job turns ready, and until it expires nothing takes it away but a DELETE, or the
\* failure handler of the very run whose finalise landed while its reply was lost
\* (download_export_job_endpoint, reap_expired_export_jobs, _handle_run_failure).
ReadyFileKept == [][\A j \in Jobs : FileKept(j)]_vars

\* No job is wedged and no row stays for ever: whatever crashes or gets lost, a job in
\* progress ends, and what has ended is removed by the reaper, by a DELETE, or when the
\* broker refused it (reap_expired_export_jobs).
JobsRetire == \A j \in Jobs : row[j].live ~> ~row[j].live
=============================================================================
