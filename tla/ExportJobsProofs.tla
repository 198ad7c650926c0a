-------------------------- MODULE ExportJobsProofs --------------------------
(***************************************************************************)
(* Theorems about ExportJobs, for any numbers of jobs, workers, clients    *)
(* and retries, whichever faults happen.  The inductive invariant says     *)
(* what the compare-and-swaps on the status column buy: a row that a       *)
(* worker has claimed is neither pending nor missing until that worker     *)
(* lets go of it, a row that is being swept has ended, and a row that has  *)
(* announced its end does not start again.                                 *)
(***************************************************************************)
EXTENDS ExportJobs, TLAPS

-----------------------------------------------------------------------------
(* The inductive invariant                                                  *)

\* What a run knows of its row and of the file it writes.
WorkerOK(w) ==
    /\ worker[w].pc # "idle" => worker[w].job \in Jobs
    /\ worker[w].pc = "retrying" => worker[w].retries < MaxRetries
    /\ worker[w].pc \notin {"idle", "retrying"} =>
         /\ row[worker[w].job].st \notin {"none", "pending"}
         /\ row[worker[w].job].st = "ready" =>
              worker[w].pc = "cleaned" \/ (worker[w].pc = "failing" /\ worker[w].transient)
    /\ worker[w].pc = "saved" /\ row[worker[w].job].st = "running" => file[worker[w].job] = "whole"

ClientOK(c) == client[c].pc = "enqueueing" => client[c].job \in Jobs

\* Only an ended row expires, and only an ended or removed one has announced.
RowOK(j) ==
    /\ row[j].exp # "null" => row[j].st \in Finished
    /\ notices[j] # <<>> => row[j].st \in Finished \cup {"gone"}
    /\ Len(notices[j]) <= 1
    /\ notices[j] # <<>> /\ row[j].st \in Finished => notices[j] = <<row[j].st>>

\* What a tick has selected has lapsed, and what it has been through has ended.
ReaperOK(j) ==
    /\ j \in reaper.todo => row[j].st = "gone" \/ row[j].exp = "lapsed"
    /\ j \in reaper.erased \cup reaper.kept => row[j].st \in Finished \cup {"gone"}

IInv ==
    /\ TypeOK
    /\ \A w \in Workers : WorkerOK(w)
    /\ \A c \in Clients : ClientOK(c)
    /\ \A j \in Jobs : RowOK(j) /\ ReaperOK(j)
    /\ SingleWriter

WorkerRec == [pc : {"idle", "generating", "writing", "saved", "failing", "cleaned", "retrying", "dropping"},
              job : Jobs \cup {None}, retries : 0..MaxRetries, transient : BOOLEAN]

-----------------------------------------------------------------------------
LEMMA InitIInv == Init => IInv
<1> SUFFICES ASSUME Init PROVE IInv
  OBVIOUS
<1> USE ConstAssumption DEF Init
<1>1. TypeOK
  BY DEF TypeOK, NoRow, Row, IdleWorker, IdleClient, IdleReaper, Unfinished, Finished
<1>2. \A w \in Workers : WorkerOK(w)
  BY DEF WorkerOK, IdleWorker
<1>3. \A c \in Clients : ClientOK(c)
  BY DEF ClientOK, IdleClient
<1>4. \A j \in Jobs : RowOK(j) /\ ReaperOK(j)
  BY DEF RowOK, ReaperOK, NoRow, IdleReaper
<1>5. SingleWriter
  BY DEF SingleWriter, Owns, IdleWorker
<1> QED BY <1>1, <1>2, <1>3, <1>4, <1>5 DEF IInv

\* A step that writes neither rows, files, announcements nor workers.
LEMMA QuietStep ==
    ASSUME IInv, TypeOK', UNCHANGED <<row, file, worker, notices>>,
           \A c \in Clients : ClientOK(c)', \A j \in Jobs : ReaperOK(j)'
    PROVE  IInv'
<1>1. \A w \in Workers : WorkerOK(w)'
  BY DEF IInv, WorkerOK
<1>2. \A j \in Jobs : RowOK(j)'
  BY DEF IInv, RowOK
<1>3. SingleWriter'
  BY DEF IInv, SingleWriter, Owns
<1> QED BY <1>1, <1>2, <1>3 DEF IInv

\* One row is written, by a step of nobody's run: it ends nothing that runs, and
\* revives nothing that has ended.
LEMMA RowStep ==
    ASSUME IInv, TypeOK', NEW j \in Jobs, NEW new \in Row,
           row' = [row EXCEPT ![j] = new], UNCHANGED <<file, worker, reaper, notices>>,
           \A c \in Clients : ClientOK(c)',
           new.exp # "null" => new.st \in Finished,
           new.st = row[j].st \/ new.st = "gone" \/ (row[j].st = "none" /\ new.st = "pending"),
           row[j].exp = "lapsed" => new.exp = "lapsed" \/ new.st = "gone"
    PROVE  IInv'
<1>1. \A i \in Jobs : row'[i] = IF i = j THEN new ELSE row[i]
  BY DEF IInv, TypeOK
<1>2. ASSUME NEW w \in Workers PROVE WorkerOK(w)'
  <2>1. WorkerOK(w)
    BY DEF IInv
  <2> QED BY <1>1, <2>1 DEF WorkerOK
<1>3. ASSUME NEW i \in Jobs PROVE RowOK(i)' /\ ReaperOK(i)'
  <2>1. RowOK(i) /\ ReaperOK(i)
    BY DEF IInv
  <2> QED BY <1>1, <2>1 DEF RowOK, ReaperOK, Finished
<1>4. SingleWriter'
  BY DEF IInv, SingleWriter, Owns
<1> QED BY <1>2, <1>3, <1>4 DEF IInv

\* A step of the run of w on j, which nobody else owns.
LEMMA WorkerStep ==
    ASSUME IInv, TypeOK', NEW w \in Workers, NEW j \in Jobs, NEW new \in WorkerRec,
           worker' = [worker EXCEPT ![w] = new], UNCHANGED <<client, reaper>>,
           \A v \in Workers : v # w => ~Owns(v, j),
           new.pc \notin {"idle", "retrying"} => new.job = j,
           \A i \in Jobs : i # j => row'[i] = row[i] /\ file'[i] = file[i] /\ notices'[i] = notices[i],
           WorkerOK(w)', RowOK(j)', ReaperOK(j)'
    PROVE  IInv'
<1>1. \A v \in Workers : worker'[v] = IF v = w THEN new ELSE worker[v]
  BY DEF IInv, TypeOK
<1>2. ASSUME NEW v \in Workers, v # w PROVE WorkerOK(v)'
  <2>1. WorkerOK(v) /\ ~Owns(v, j) /\ worker'[v] = worker[v]
    BY <1>1, <1>2 DEF IInv
  <2>2. worker[v].pc \notin {"idle", "retrying"} => worker[v].job \in Jobs \ {j}
    BY <2>1 DEF WorkerOK, Owns
  <2> QED BY <2>1, <2>2 DEF WorkerOK
<1>3. \A c \in Clients : ClientOK(c)'
  BY DEF IInv, ClientOK
<1>4. ASSUME NEW i \in Jobs, i # j PROVE RowOK(i)' /\ ReaperOK(i)'
  BY <1>4 DEF IInv, RowOK, ReaperOK
<1>5. SingleWriter'
  <2> SUFFICES ASSUME NEW i \in Jobs, NEW u \in Workers, NEW v \in Workers, Owns(u, i)', Owns(v, i)'
               PROVE  u = v
    BY DEF SingleWriter
  <2>1. \A x \in Workers : x # w /\ Owns(x, i)' => Owns(x, i) /\ i # j
    BY <1>1 DEF Owns
  <2>2. Owns(w, i)' => i = j
    BY <1>1 DEF Owns
  <2> QED BY <2>1, <2>2 DEF IInv, SingleWriter
<1> QED BY <1>2, <1>3, <1>4, <1>5 DEF IInv

-----------------------------------------------------------------------------
(* POST /exports/jobs.                                                      *)

LEMMA CreateSafe ==
    ASSUME IInv, NEW c \in Clients, CreateSteps(c)
    PROVE  IInv'
<1>0. /\ TypeOK /\ client[c].key \in Keys \cup {NoKey} /\ client[c].job \in Jobs \cup {None}
      /\ ClientOK(c)
  BY DEF IInv, TypeOK
<1>1. ASSUME NEW k \in Keys \cup {NoKey}, CreateStart(c, k) PROVE IInv'
  <2>1. client' = [client EXCEPT ![c] = [pc |-> "inserting", key |-> k, job |-> None]]
    BY <1>1 DEF CreateStart
  <2>2. TypeOK'
    BY <1>0, <1>1, <2>1 DEF CreateStart, TypeOK
  <2>3. \A d \in Clients : ClientOK(d)'
    BY <1>0, <2>1 DEF IInv, TypeOK, ClientOK
  <2>4. \A j \in Jobs : ReaperOK(j)'
    BY <1>1 DEF CreateStart, IInv, ReaperOK
  <2> QED BY <1>1, <2>2, <2>3, <2>4, QuietStep DEF CreateStart
<1>2. ASSUME NEW k \in Keys \cup {NoKey}, CreateReplay(c, k) PROVE IInv'
  <2>1. TypeOK'
    BY <1>0, <1>2 DEF CreateReplay, vars, TypeOK
  <2>2. \A d \in Clients : ClientOK(d)'
    BY <1>2 DEF CreateReplay, vars, IInv, ClientOK
  <2>3. \A j \in Jobs : ReaperOK(j)'
    BY <1>2 DEF CreateReplay, vars, IInv, ReaperOK
  <2> QED BY <1>2, <2>1, <2>2, <2>3, QuietStep DEF CreateReplay, vars
<1>3. ASSUME NEW j \in Jobs, CreateInsert(c, j) PROVE IInv'
  <2> DEFINE new == [NoRow EXCEPT !.st = "pending", !.live = TRUE, !.key = client[c].key]
  <2>1. /\ row[j].st = "none" /\ row' = [row EXCEPT ![j] = new]
        /\ client' = [client EXCEPT ![c].pc = "enqueueing", ![c].job = j]
        /\ UNCHANGED <<file, msgs, worker, deleting, reaper, notices>>
    BY <1>3 DEF CreateInsert
  <2>2. new \in Row /\ new.st = "pending" /\ new.exp = "null"
    BY <1>0 DEF NoRow, Row, Unfinished, Finished
  <2> HIDE DEF new
  <2>3. TypeOK'
    <3>1. client' \in [Clients -> [pc : {"idle", "inserting", "enqueueing"}, key : Keys \cup {NoKey},
                                  job : Jobs \cup {None}]]
      <4>1. client' = [client EXCEPT ![c] = [client[c] EXCEPT !.pc = "enqueueing", !.job = j]]
        BY <1>0, <2>1 DEF TypeOK
      <4>2. [client[c] EXCEPT !.pc = "enqueueing", !.job = j]
              \in [pc : {"idle", "inserting", "enqueueing"}, key : Keys \cup {NoKey}, job : Jobs \cup {None}]
        <5>1. client[c] \in [pc : {"idle", "inserting", "enqueueing"}, key : Keys \cup {NoKey}, job : Jobs \cup {None}]
          BY <1>0 DEF TypeOK
        <5> QED BY <5>1
      <4> QED BY <1>0, <4>1, <4>2 DEF TypeOK
    <3>2. row' \in [Jobs -> Row]
      BY <1>0, <2>1, <2>2 DEF TypeOK
    <3> QED BY <1>0, <2>1, <3>1, <3>2 DEF TypeOK
  <2>4. \A d \in Clients : ClientOK(d)'
    BY <1>0, <2>1 DEF IInv, TypeOK, ClientOK
  <2>5. row[j].exp # "lapsed"
    BY <2>1 DEF IInv, RowOK, Finished
  <2> QED BY <2>1, <2>2, <2>3, <2>4, <2>5, RowStep
<1>4. ASSUME client' = [client EXCEPT ![c] = IdleClient], msgs' \subseteq Message,
             UNCHANGED <<row, file, worker, deleting, reaper, notices>>
      PROVE  IInv'
  <2>1. TypeOK'
    BY <1>0, <1>4 DEF TypeOK, IdleClient
  <2>2. \A d \in Clients : ClientOK(d)'
    BY <1>0, <1>4 DEF IInv, TypeOK, ClientOK, IdleClient
  <2>3. \A j \in Jobs : ReaperOK(j)'
    BY <1>4 DEF IInv, ReaperOK
  <2> QED BY <1>4, <2>1, <2>2, <2>3, QuietStep
<1>5. CASE CreateLost(c) \/ CreateCrash(c)
  BY <1>0, <1>4, <1>5 DEF CreateLost, CreateCrash, TypeOK
<1>6. CASE Enqueue(c)
  BY <1>0, <1>4, <1>6, ConstAssumption DEF Enqueue, ClientOK, TypeOK, Message
<1>7. CASE EnqueueFail(c)
  <2>0. PICK j \in Jobs : j = client[c].job
    BY <1>0, <1>7 DEF EnqueueFail, ClientOK
  <2>9. PICK new \in Row : new = [NoRow EXCEPT !.st = "gone"]
    BY DEF NoRow, Row
  <2>1. /\ row' = [row EXCEPT ![j] = new] /\ client' = [client EXCEPT ![c] = IdleClient]
        /\ UNCHANGED <<file, msgs, worker, deleting, reaper, notices>>
    BY <1>7, <2>0, <2>9 DEF EnqueueFail
  <2>2. new.st = "gone" /\ new.exp = "null"
    BY <2>9 DEF NoRow
  <2>3. TypeOK'
    BY <1>0, <2>1, <2>2 DEF TypeOK, IdleClient
  <2>4. \A d \in Clients : ClientOK(d)'
    BY <1>0, <2>1 DEF IInv, TypeOK, ClientOK, IdleClient
  <2>5. /\ new.exp # "null" => new.st \in Finished
        /\ new.st = row[j].st \/ new.st = "gone" \/ (row[j].st = "none" /\ new.st = "pending")
        /\ row[j].exp = "lapsed" => new.exp = "lapsed" \/ new.st = "gone"
    BY <2>2
  <2>6. UNCHANGED <<file, worker, reaper, notices>>
    BY <2>1
  <2> QED BY <2>1, <2>3, <2>4, <2>5, <2>6, RowStep, Zenon
<1> QED BY <1>1, <1>2, <1>3, <1>5, <1>6, <1>7 DEF CreateSteps

-----------------------------------------------------------------------------
(* The run of a worker.                                                     *)

\* Types of what a worker step writes.
LEMMA WorkerTypes ==
    ASSUME TypeOK, NEW w \in Workers, NEW new \in WorkerRec, worker' = [worker EXCEPT ![w] = new],
           UNCHANGED others, row' \in [Jobs -> Row], file' \in [Jobs -> {"absent", "partial", "whole"}],
           msgs' \subseteq Message, notices' \in [Jobs -> Seq(Finished)]
    PROVE  TypeOK' /\ UNCHANGED <<client, reaper>>
BY DEF TypeOK, WorkerRec, others

\* What an owner knows, and that it is the only one.
LEMMA Owner ==
    ASSUME IInv, NEW w \in Workers, worker[w].pc \notin {"idle", "retrying"}
    PROVE  /\ worker[w].job \in Jobs
           /\ worker[w] \in WorkerRec
           /\ \A v \in Workers : v # w => ~Owns(v, worker[w].job)
BY DEF IInv, TypeOK, WorkerOK, WorkerRec, SingleWriter, Owns

LEMMA IdleRec == IdleWorker \in WorkerRec /\ IdleWorker.pc = "idle"
BY ConstAssumption DEF IdleWorker, WorkerRec

LEMMA AckedTypes == ASSUME TypeOK, NEW w \in Workers PROVE Acked(w) \subseteq Message
BY DEF Acked, TypeOK

\* A worker lets go of a run whose row, file and announcements it leaves alone.
LEMMA ReleaseStep ==
    ASSUME IInv, NEW w \in Workers, worker[w].pc # "idle", Release(w), UNCHANGED <<row, others, notices>>,
           msgs' \subseteq Message,
           \/ UNCHANGED file
           \/ /\ file' = [file EXCEPT ![worker[w].job] = "absent"]
              /\ worker[w].pc # "retrying"
    PROVE  IInv'
<1> DEFINE j == worker[w].job
<1>1. j \in Jobs /\ worker' = [worker EXCEPT ![w] = IdleWorker] /\ TypeOK /\ worker'[w] = IdleWorker
  BY DEF IInv, WorkerOK, Release, TypeOK
<1>2. file' \in [Jobs -> {"absent", "partial", "whole"}] /\ \A i \in Jobs : i # j => file'[i] = file[i]
  BY <1>1 DEF TypeOK
<1>3. row' \in [Jobs -> Row] /\ notices' \in [Jobs -> Seq(Finished)]
  BY <1>1 DEF TypeOK
<1>4. TypeOK' /\ UNCHANGED <<client, reaper>>
  BY <1>1, <1>2, <1>3, IdleRec, WorkerTypes
<1>5. WorkerOK(w)'
  BY <1>1, IdleRec DEF WorkerOK
<1>6. \A i \in Jobs : RowOK(i)' /\ ReaperOK(i)'
  BY <1>4 DEF IInv, RowOK, ReaperOK
<1>7. CASE worker[w].pc # "retrying"
  BY <1>1, <1>2, <1>4, <1>5, <1>6, <1>7, IdleRec, Owner, WorkerStep
<1>8. CASE worker[w].pc = "retrying"
  <2>1. UNCHANGED <<row, file, notices>>
    BY <1>8
  <2>2. \A v \in Workers : worker'[v] = worker[v] \/ worker'[v] = IdleWorker
    BY <1>1 DEF TypeOK
  <2>3. ASSUME NEW v \in Workers PROVE WorkerOK(v)'
    BY <2>1, <2>2, IdleRec DEF IInv, WorkerOK
  <2>4. SingleWriter'
    BY <2>2, IdleRec DEF IInv, SingleWriter, Owns
  <2>5. \A c \in Clients : ClientOK(c)'
    BY <1>4 DEF IInv, ClientOK
  <2> QED BY <1>4, <1>6, <2>3, <2>4, <2>5 DEF IInv
<1> QED BY <1>7, <1>8

\* What the writes of a run leave behind: a new status, an ended row, an announcement.
LEMMA StatusWrite ==
    ASSUME TypeOK, NEW j \in Jobs, NEW s \in Unfinished, row' = [row EXCEPT ![j].st = s]
    PROVE  /\ row' \in [Jobs -> Row]
           /\ row'[j].st = s /\ row'[j].exp = row[j].exp
           /\ \A i \in Jobs : i # j => row'[i] = row[i]
<1>1. row[j] \in Row
  BY DEF TypeOK
<1>2. [row[j] EXCEPT !.st = s] \in Row
  BY <1>1 DEF Row
<1>3. row' = [row EXCEPT ![j] = [row[j] EXCEPT !.st = s]]
  BY DEF TypeOK
<1> QED BY <1>1, <1>2, <1>3 DEF TypeOK, Row

LEMMA EndWrite ==
    ASSUME TypeOK, NEW j \in Jobs, NEW s \in Finished,
           \/ MarkReady(j) /\ s = "ready"
           \/ row' = [row EXCEPT ![j].st = s, ![j].exp = "set"]
    PROVE  /\ row' \in [Jobs -> Row]
           /\ row'[j].st = s /\ row'[j].exp = "set"
           /\ \A i \in Jobs : i # j => row'[i] = row[i]
<1>1. row[j] \in Row /\ s \in Unfinished \cup Finished
  BY DEF TypeOK
<1>2. PICK new \in Row : row' = [row EXCEPT ![j] = new] /\ new.st = s /\ new.exp = "set"
  <2>1. CASE MarkReady(j) /\ s = "ready"
    <3>1. row' = [row EXCEPT ![j] = [row[j] EXCEPT !.st = s, !.ref = TRUE, !.exp = "set"]]
      BY <2>1 DEF TypeOK, MarkReady
    <3>2. [row[j] EXCEPT !.st = s, !.ref = TRUE, !.exp = "set"] \in Row
      BY <1>1 DEF Row
    <3>3. /\ [row[j] EXCEPT !.st = s, !.ref = TRUE, !.exp = "set"].st = s
          /\ [row[j] EXCEPT !.st = s, !.ref = TRUE, !.exp = "set"].exp = "set"
      BY <1>1 DEF Row
    <3> QED BY <3>1, <3>2, <3>3, Zenon
  <2>2. CASE row' = [row EXCEPT ![j].st = s, ![j].exp = "set"]
    <3>1. row' = [row EXCEPT ![j] = [row[j] EXCEPT !.st = s, !.exp = "set"]]
      BY <2>2 DEF TypeOK
    <3>2. [row[j] EXCEPT !.st = s, !.exp = "set"] \in Row
      BY <1>1 DEF Row
    <3>3. /\ [row[j] EXCEPT !.st = s, !.exp = "set"].st = s
          /\ [row[j] EXCEPT !.st = s, !.exp = "set"].exp = "set"
      BY <1>1 DEF Row
    <3> QED BY <3>1, <3>2, <3>3, Zenon
  <2> QED BY <2>1, <2>2
<1> QED BY <1>2 DEF TypeOK

LEMMA AnnounceWrite ==
    ASSUME TypeOK, NEW j \in Jobs, NEW s \in Finished, Announce(j, s), notices[j] = <<>>
    PROVE  /\ notices' \in [Jobs -> Seq(Finished)]
           /\ notices'[j] = <<>> \/ notices'[j] = <<s>>
           /\ Len(notices'[j]) <= 1
           /\ \A i \in Jobs : i # j => notices'[i] = notices[i]
<1>1. Append(notices[j], s) = <<s>> /\ Append(notices[j], s) \in Seq(Finished)
  BY DEF TypeOK
<1>2. /\ notices' \in [Jobs -> Seq(Finished)]
      /\ notices'[j] = <<>> \/ notices'[j] = Append(notices[j], s)
      /\ \A i \in Jobs : i # j => notices'[i] = notices[i]
  <2>1. CASE UNCHANGED notices
    BY <2>1 DEF TypeOK
  <2>2. ASSUME NEW n \in Seq(Finished), n = Append(notices[j], s), notices' = [notices EXCEPT ![j] = n]
        PROVE  /\ notices' \in [Jobs -> Seq(Finished)] /\ notices'[j] = n
               /\ \A i \in Jobs : i # j => notices'[i] = notices[i]
    <3>1. notices \in [Jobs -> Seq(Finished)] /\ n \in Seq(Finished)
      BY DEF TypeOK
    <3> HIDE DEF TypeOK
    <3> QED BY <2>2, <3>1, Zenon
  <2> QED BY <1>1, <2>1, <2>2 DEF Announce
<1>3. Len(notices[j]) <= 1 /\ Len(Append(notices[j], s)) <= 1
  <2>1. notices[j] \in Seq(Finished)
    BY DEF TypeOK
  <2>2. Len(<<>>) = 0
    OBVIOUS
  <2>3. Len(Append(notices[j], s)) = Len(notices[j]) + 1
    BY <2>1
  <2> QED BY <2>2, <2>3
<1> QED BY <1>1, <1>2, <1>3

LEMMA ClaimSafe ==
    ASSUME IInv, NEW w \in Workers, NEW m \in msgs, Claim(w, m)
    PROVE  IInv'
<1>1. m \in Message /\ TypeOK
  BY DEF IInv, TypeOK
<1>2. PICK j \in Jobs : j = m.job
  BY <1>1 DEF Message
<1>3. PICK new \in WorkerRec : new = [pc |-> "generating", job |-> j, retries |-> m.retries, transient |-> FALSE]
  BY <1>1, <1>2 DEF Message, WorkerRec
<1>4. /\ row[j].st = "pending" /\ row' = [row EXCEPT ![j].st = "running"] /\ worker[w].pc = "idle"
      /\ worker' = [worker EXCEPT ![w] = new] /\ UNCHANGED <<file, msgs, others, notices>>
  BY <1>2, <1>3 DEF Claim, Live
<1>5. /\ row' \in [Jobs -> Row]
      /\ row'[j].st = "running" /\ row'[j].exp = row[j].exp
      /\ \A i \in Jobs : i # j => row'[i] = row[i]
  BY <1>1, <1>4, StatusWrite DEF Unfinished
<1>6. TypeOK' /\ UNCHANGED <<client, reaper>>
  <2>1. msgs' \subseteq Message /\ file' \in [Jobs -> {"absent", "partial", "whole"}] /\ notices' \in [Jobs -> Seq(Finished)]
    BY <1>1, <1>4 DEF TypeOK
  <2> QED BY <1>1, <1>4, <1>5, <2>1, WorkerTypes
<1>7. \A v \in Workers : ~Owns(v, j)
  BY <1>4 DEF IInv, WorkerOK, Owns
<1>8. worker'[w] = new /\ new.job = j /\ new.pc = "generating"
  BY <1>1, <1>3, <1>4 DEF TypeOK
<1>9. WorkerOK(w)'
  BY <1>5, <1>8 DEF WorkerOK
<1>10. RowOK(j) /\ ReaperOK(j)
  BY DEF IInv
<1>11. RowOK(j)' /\ ReaperOK(j)'
  BY <1>4, <1>5, <1>6, <1>10 DEF RowOK, ReaperOK, Finished
<1>12. \A i \in Jobs : i # j => row'[i] = row[i] /\ file'[i] = file[i] /\ notices'[i] = notices[i]
  BY <1>4, <1>5
<1> QED BY <1>4, <1>6, <1>7, <1>8, <1>9, <1>11, <1>12, WorkerStep

\* A run moves on, or fails: its row and announcements stay as they are.
LEMMA RunOn ==
    ASSUME IInv, NEW w \in Workers, worker[w].pc \notin {"idle", "retrying"}, NEW new \in WorkerRec,
           new.pc \in {"writing", "saved", "failing", "cleaned", "dropping"}, new.job = worker[w].job,
           worker' = [worker EXCEPT ![w] = new],
           file' \in [Jobs -> {"absent", "partial", "whole"}],
           \A i \in Jobs : i # worker[w].job => file'[i] = file[i],
           UNCHANGED <<row, msgs, others, notices>>,
           row[worker[w].job].st = "ready" => new.pc = "cleaned",
           new.pc = "saved" => file'[worker[w].job] = "whole"
    PROVE  IInv'
<1>1. PICK j \in Jobs : j = worker[w].job
  BY Owner
<1>2. TypeOK /\ worker[w] \in WorkerRec /\ WorkerOK(w) /\ RowOK(j) /\ ReaperOK(j)
  BY Owner DEF IInv
<1>5. worker'[w] = new
  BY <1>2 DEF TypeOK
<1>6. TypeOK' /\ UNCHANGED <<client, reaper>>
  <2>1. msgs' \subseteq Message /\ row' \in [Jobs -> Row] /\ notices' \in [Jobs -> Seq(Finished)]
    BY <1>2 DEF TypeOK
  <2> QED BY <1>2, <1>5, <2>1, WorkerTypes
<1>7. WorkerOK(w)'
  BY <1>1, <1>2, <1>5 DEF WorkerOK
<1>8. RowOK(j)' /\ ReaperOK(j)'
  BY <1>2, <1>6 DEF RowOK, ReaperOK
<1>9. \A v \in Workers : v # w => ~Owns(v, j)
  BY <1>1, Owner
<1>10. \A i \in Jobs : i # j => row'[i] = row[i] /\ file'[i] = file[i] /\ notices'[i] = notices[i]
  BY <1>1
<1> QED BY <1>1, <1>5, <1>6, <1>7, <1>8, <1>9, <1>10, WorkerStep

LEMMA GotoRec ==
    ASSUME TypeOK, NEW w \in Workers, NEW pc \in {"writing", "saved", "cleaned", "retrying", "dropping"},
           WorkerGoto(w, pc)
    PROVE  \E new \in WorkerRec :
              /\ worker' = [worker EXCEPT ![w] = new]
              /\ new.pc = pc /\ new.job = worker[w].job /\ new.retries = worker[w].retries
<1>1. worker[w] \in WorkerRec
  BY DEF TypeOK, WorkerRec
<1>2. worker' = [worker EXCEPT ![w] = [worker[w] EXCEPT !.pc = pc]]
  BY DEF TypeOK, WorkerGoto
<1>3. [worker[w] EXCEPT !.pc = pc] \in WorkerRec
  BY <1>1 DEF WorkerRec
<1>4. /\ [worker[w] EXCEPT !.pc = pc].pc = pc
      /\ [worker[w] EXCEPT !.pc = pc].job = worker[w].job
      /\ [worker[w] EXCEPT !.pc = pc].retries = worker[w].retries
  BY <1>1 DEF WorkerRec
<1> QED BY <1>2, <1>3, <1>4, Zenon

LEMMA FailRec ==
    ASSUME TypeOK, NEW w \in Workers, NEW t \in BOOLEAN,
           worker' = [worker EXCEPT ![w].pc = "failing", ![w].transient = t]
    PROVE  \E new \in WorkerRec :
              /\ worker' = [worker EXCEPT ![w] = new]
              /\ new.pc = "failing" /\ new.job = worker[w].job /\ new.transient = t
<1>1. worker[w] \in WorkerRec
  BY DEF TypeOK, WorkerRec
<1>2. worker' = [worker EXCEPT ![w] = [worker[w] EXCEPT !.pc = "failing", !.transient = t]]
  BY DEF TypeOK
<1>3. [worker[w] EXCEPT !.pc = "failing", !.transient = t] \in WorkerRec
  BY <1>1 DEF WorkerRec
<1>4. /\ [worker[w] EXCEPT !.pc = "failing", !.transient = t].pc = "failing"
      /\ [worker[w] EXCEPT !.pc = "failing", !.transient = t].job = worker[w].job
      /\ [worker[w] EXCEPT !.pc = "failing", !.transient = t].transient = t
  BY <1>1 DEF WorkerRec
<1> QED BY <1>2, <1>3, <1>4, Zenon

\* The steps of a run that write neither rows nor announcements and hold on to the run.
LEMMA GoOnSafe ==
    ASSUME IInv, NEW w \in Workers,
           \/ OpenFile(w) \/ SaveFile(w) \/ FinalizeSuperseded(w) \/ CleanUp(w)
           \/ \E transient \in BOOLEAN : RunFails(w, transient)
    PROVE  IInv'
<1>1. TypeOK /\ WorkerOK(w)
  BY DEF IInv
<1>2. CASE OpenFile(w)
  <2>1. PICK new \in WorkerRec : worker' = [worker EXCEPT ![w] = new] /\ new.pc = "writing" /\ new.job = worker[w].job
    BY <1>1, <1>2, GotoRec DEF OpenFile
  <2>2. /\ worker[w].pc = "generating" /\ worker[w].job \in Jobs /\ row[worker[w].job].st # "ready"
        /\ file' = [file EXCEPT ![worker[w].job] = "partial"] /\ UNCHANGED <<row, msgs, others, notices>>
    BY <1>1, <1>2 DEF OpenFile, WorkerOK
  <2>3. file' \in [Jobs -> {"absent", "partial", "whole"}] /\ \A i \in Jobs : i # worker[w].job => file'[i] = file[i]
    BY <1>1, <2>2 DEF TypeOK
  <2> QED BY <2>1, <2>2, <2>3, RunOn
<1>3. CASE SaveFile(w)
  <2>1. PICK new \in WorkerRec : worker' = [worker EXCEPT ![w] = new] /\ new.pc = "saved" /\ new.job = worker[w].job
    BY <1>1, <1>3, GotoRec DEF SaveFile
  <2>2. /\ worker[w].pc = "writing" /\ worker[w].job \in Jobs /\ row[worker[w].job].st # "ready"
        /\ file' = [file EXCEPT ![worker[w].job] = "whole"] /\ UNCHANGED <<row, msgs, others, notices>>
    BY <1>1, <1>3 DEF SaveFile, WorkerOK
  <2>3. /\ file' \in [Jobs -> {"absent", "partial", "whole"}] /\ \A i \in Jobs : i # worker[w].job => file'[i] = file[i]
        /\ file'[worker[w].job] = "whole"
    BY <1>1, <2>2 DEF TypeOK
  <2> QED BY <2>1, <2>2, <2>3, RunOn
<1>4. CASE FinalizeSuperseded(w)
  <2>1. PICK new \in WorkerRec : worker' = [worker EXCEPT ![w] = new] /\ new.pc = "dropping" /\ new.job = worker[w].job
    BY <1>1, <1>4, GotoRec DEF FinalizeSuperseded
  <2>2. /\ worker[w].pc = "saved" /\ worker[w].job \in Jobs /\ row[worker[w].job].st # "ready"
        /\ UNCHANGED file /\ UNCHANGED <<row, msgs, others, notices>>
    BY <1>1, <1>4 DEF FinalizeSuperseded, WorkerOK
  <2>3. file' \in [Jobs -> {"absent", "partial", "whole"}] /\ \A i \in Jobs : i # worker[w].job => file'[i] = file[i]
    BY <1>1, <2>2 DEF TypeOK
  <2> QED BY <2>1, <2>2, <2>3, RunOn
<1>5. CASE CleanUp(w)
  <2>1. PICK new \in WorkerRec : worker' = [worker EXCEPT ![w] = new] /\ new.pc = "cleaned" /\ new.job = worker[w].job
    BY <1>1, <1>5, GotoRec DEF CleanUp
  <2>2. /\ worker[w].pc = "failing" /\ worker[w].job \in Jobs
        /\ EraseFile(worker[w].job) /\ UNCHANGED <<row, msgs, others, notices>>
    BY <1>1, <1>5 DEF CleanUp, WorkerOK
  <2>3. file' \in [Jobs -> {"absent", "partial", "whole"}] /\ \A i \in Jobs : i # worker[w].job => file'[i] = file[i]
    BY <1>1, <2>2 DEF TypeOK, EraseFile
  <2> QED BY <2>1, <2>2, <2>3, RunOn
<1>6. ASSUME NEW transient \in BOOLEAN, RunFails(w, transient) PROVE IInv'
  <2>1. PICK new \in WorkerRec : worker' = [worker EXCEPT ![w] = new] /\ new.pc = "failing" /\ new.job = worker[w].job
    BY <1>1, <1>6, FailRec DEF RunFails
  <2>2. /\ worker[w].pc \in {"generating", "writing", "saved"} /\ worker[w].job \in Jobs
        /\ row[worker[w].job].st # "ready" /\ UNCHANGED file /\ UNCHANGED <<row, msgs, others, notices>>
    BY <1>1, <1>6 DEF RunFails, WorkerOK
  <2>3. file' \in [Jobs -> {"absent", "partial", "whole"}] /\ \A i \in Jobs : i # worker[w].job => file'[i] = file[i]
    BY <1>1, <2>2 DEF TypeOK
  <2> QED BY <2>1, <2>2, <2>3, RunOn
<1> QED BY <1>2, <1>3, <1>4, <1>5, <1>6

\* The steps that let go of a run and leave its row alone.
LEMMA LetGoSafe ==
    ASSUME IInv, NEW w \in Workers,
           DropFile(w) \/ PublishRetry(w) \/ FailureSuperseded(w) \/ FailureBlip(w) \/ WorkerCrash(w)
    PROVE  IInv'
<1>1. TypeOK /\ WorkerOK(w) /\ worker[w] \in WorkerRec /\ Acked(w) \subseteq Message
  BY AckedTypes DEF IInv, TypeOK, WorkerRec
<1>2. worker[w].pc # "idle" /\ worker[w].retries < MaxRetries => RetryOf(w) \in Message
  BY <1>1, ConstAssumption DEF RetryOf, Message, WorkerOK, WorkerRec
<1>3. /\ worker[w].pc # "idle" /\ Release(w) /\ UNCHANGED <<row, others, notices>>
      /\ msgs' \subseteq Message
  BY <1>1, <1>2 DEF DropFile, PublishRetry, FailureSuperseded, FailureBlip, WorkerCrash, WorkerOK, TypeOK
<1>4. \/ UNCHANGED file
      \/ file' = [file EXCEPT ![worker[w].job] = "absent"] /\ worker[w].pc # "retrying"
  BY DEF DropFile, PublishRetry, FailureSuperseded, FailureBlip, WorkerCrash, EraseFile
<1> QED BY <1>3, <1>4, ReleaseStep

\* The compare-and-swaps that end a job: running -> ready or failed, announced.
LEMMA EndStep ==
    ASSUME IInv, NEW w \in Workers, worker[w].pc \notin {"idle", "retrying"}, NEW s \in Finished,
           Live(worker[w].job, {"running"}), Announce(worker[w].job, s),
           \/ MarkReady(worker[w].job) /\ s = "ready"
           \/ row' = [row EXCEPT ![worker[w].job].st = s, ![worker[w].job].exp = "set"],
           NEW new \in WorkerRec, worker' = [worker EXCEPT ![w] = new],
           new.pc = "idle" \/ (new.pc = "failing" /\ new.transient /\ new.job = worker[w].job),
           msgs' \subseteq Message, UNCHANGED <<file, others>>
    PROVE  IInv'
<1>1. PICK j \in Jobs : j = worker[w].job
  BY Owner
<1>2. TypeOK /\ row[j].st = "running" /\ RowOK(j) /\ ReaperOK(j)
  BY <1>1 DEF IInv, Live
<1>3. notices[j] = <<>> /\ row[j].exp = "null"
  BY <1>2 DEF RowOK, Finished
<1>4. /\ row' \in [Jobs -> Row]
      /\ row'[j].st = s /\ row'[j].exp = "set"
      /\ \A i \in Jobs : i # j => row'[i] = row[i]
  BY <1>1, <1>2, EndWrite
<1>5. /\ notices' \in [Jobs -> Seq(Finished)]
      /\ notices'[j] = <<>> \/ notices'[j] = <<s>>
      /\ Len(notices'[j]) <= 1
      /\ \A i \in Jobs : i # j => notices'[i] = notices[i]
  BY <1>1, <1>2, <1>3, AnnounceWrite
<1>6. TypeOK' /\ UNCHANGED <<client, reaper>>
  <2>1. file' \in [Jobs -> {"absent", "partial", "whole"}]
    BY <1>2 DEF TypeOK
  <2>2. UNCHANGED others
    OBVIOUS
  <2> QED BY <1>2, <1>4, <1>5, <2>1, <2>2, WorkerTypes
<1>7. worker'[w] = new
  BY <1>2 DEF TypeOK
<1>8. WorkerOK(w)'
  BY <1>1, <1>4, <1>7 DEF WorkerOK, Finished
<1>9. RowOK(j)' /\ ReaperOK(j)'
  <2>2. j \notin reaper'.todo
    BY <1>2, <1>3, <1>6 DEF ReaperOK
  <2> QED BY <1>4, <1>5, <2>2 DEF RowOK, ReaperOK
<1>10. \A v \in Workers : v # w => ~Owns(v, j)
  BY <1>1, Owner
<1>11. \A i \in Jobs : i # j => row'[i] = row[i] /\ file'[i] = file[i] /\ notices'[i] = notices[i]
  BY <1>4, <1>5
<1>12. UNCHANGED <<client, reaper>> /\ (new.pc \notin {"idle", "retrying"} => new.job = j)
  BY <1>1, <1>6
<1> HIDE DEF MarkReady
<1> QED BY <1>6, <1>8, <1>9, <1>10, <1>11, <1>12, WorkerStep, Zenon

LEMMA EndSafe ==
    ASSUME IInv, NEW w \in Workers, FinalizeReady(w) \/ FinalizeReplyLost(w) \/ RecordFailure(w)
    PROVE  IInv'
<1>1. TypeOK /\ "ready" \in Finished /\ "failed" \in Finished /\ Acked(w) \subseteq Message /\ msgs \subseteq Message
  BY AckedTypes DEF IInv, Finished, TypeOK
<1>2. CASE FinalizeReady(w)
  BY <1>1, <1>2, IdleRec, EndStep DEF FinalizeReady, Release
<1>3. CASE FinalizeReplyLost(w)
  <2>1. PICK new \in WorkerRec : /\ worker' = [worker EXCEPT ![w] = new] /\ new.pc = "failing"
                                 /\ new.job = worker[w].job /\ new.transient = TRUE
    BY <1>1, <1>3, FailRec DEF FinalizeReplyLost
  <2>2. /\ worker[w].pc \notin {"idle", "retrying"} /\ Live(worker[w].job, {"running"})
        /\ Announce(worker[w].job, "ready") /\ MarkReady(worker[w].job) /\ msgs' \subseteq Message
        /\ UNCHANGED <<file, others>>
    BY <1>1, <1>3 DEF FinalizeReplyLost
  <2> QED BY <1>1, <2>1, <2>2, EndStep
<1>4. CASE RecordFailure(w)
  BY <1>1, <1>4, IdleRec, EndStep DEF RecordFailure, Release
<1> QED BY <1>2, <1>3, <1>4

LEMMA RequeueSafe ==
    ASSUME IInv, NEW w \in Workers, Requeue(w)
    PROVE  IInv'
<1>1. TypeOK /\ worker[w].pc = "cleaned" /\ worker[w].retries < MaxRetries
  BY DEF IInv, Requeue, MayRetry
<1>2. PICK j \in Jobs : j = worker[w].job
  BY <1>1, Owner
<1>3. /\ row[j].st = "running" /\ row' = [row EXCEPT ![j].st = "pending"]
      /\ UNCHANGED others /\ UNCHANGED <<file, msgs, notices>>
  BY <1>2 DEF Requeue, Live
<1>4. PICK new \in WorkerRec : /\ worker' = [worker EXCEPT ![w] = new] /\ new.pc = "retrying"
                               /\ new.job = j /\ new.retries = worker[w].retries
  BY <1>1, <1>2, GotoRec DEF Requeue
<1>5. /\ row' \in [Jobs -> Row]
      /\ row'[j].st = "pending" /\ row'[j].exp = row[j].exp
      /\ \A i \in Jobs : i # j => row'[i] = row[i]
  BY <1>1, <1>3, StatusWrite DEF Unfinished
<1>6. TypeOK' /\ UNCHANGED <<client, reaper>>
  <2>1. msgs' \subseteq Message /\ file' \in [Jobs -> {"absent", "partial", "whole"}] /\ notices' \in [Jobs -> Seq(Finished)]
    BY <1>1, <1>3 DEF TypeOK
  <2> QED BY <1>1, <1>3, <1>4, <1>5, <2>1, WorkerTypes
<1>7. worker'[w] = new
  BY <1>1, <1>4 DEF TypeOK
<1>8. WorkerOK(w)'
  BY <1>1, <1>4, <1>7 DEF WorkerOK
<1>9. RowOK(j) /\ ReaperOK(j)
  BY DEF IInv
<1>10. RowOK(j)' /\ ReaperOK(j)'
  BY <1>3, <1>5, <1>6, <1>9 DEF RowOK, ReaperOK, Finished
<1>11. \A v \in Workers : v # w => ~Owns(v, j)
  BY <1>1, <1>2, Owner
<1>12. \A i \in Jobs : i # j => row'[i] = row[i] /\ file'[i] = file[i] /\ notices'[i] = notices[i]
  BY <1>3, <1>5
<1> QED BY <1>4, <1>6, <1>8, <1>10, <1>11, <1>12, WorkerStep

\* Broker steps: a delivery that finds nothing to do, a lost message.
LEMMA BrokerSafe ==
    ASSUME IInv, UNCHANGED <<row, file, worker, others, notices>>, msgs' \subseteq msgs
    PROVE  IInv'
<1>1. UNCHANGED <<client, deleting, reaper>>
  BY DEF others
<1>2. TypeOK'
  BY <1>1 DEF IInv, TypeOK
<1>3. \A c \in Clients : ClientOK(c)'
  BY <1>1 DEF IInv, ClientOK
<1>4. \A j \in Jobs : ReaperOK(j)'
  BY <1>1 DEF IInv, ReaperOK
<1> QED BY <1>2, <1>3, <1>4, QuietStep

LEMMA RunSafe ==
    ASSUME IInv, NEW w \in Workers, RunSteps(w)
    PROVE  IInv'
<1>1. ASSUME NEW m \in msgs, Skip(w, m) PROVE IInv'
  BY <1>1, BrokerSafe DEF Skip
<1> QED BY <1>1, ClaimSafe, GoOnSafe, LetGoSafe, EndSafe, RequeueSafe DEF RunSteps

-----------------------------------------------------------------------------
(* The reaper, DELETE and the passing of time.                              *)

\* Nothing but a stored file is written, of a job that is not running.
LEMMA EraseStep ==
    ASSUME IInv, TypeOK', UNCHANGED <<row, worker, notices>>,
           \A j \in Jobs : file'[j] = file[j] \/ row[j].st # "running",
           \A c \in Clients : ClientOK(c)', \A j \in Jobs : ReaperOK(j)'
    PROVE  IInv'
<1>1. ASSUME NEW w \in Workers PROVE WorkerOK(w)'
  <2>1. WorkerOK(w)
    BY DEF IInv
  <2>2. worker[w].pc = "saved" => worker[w].job \in Jobs
    BY <2>1 DEF WorkerOK
  <2> QED BY <2>1, <2>2 DEF WorkerOK
<1>2. \A j \in Jobs : RowOK(j)'
  BY DEF IInv, RowOK
<1>3. SingleWriter'
  BY DEF IInv, SingleWriter, Owns
<1> QED BY <1>1, <1>2, <1>3 DEF IInv

LEMMA ReapFileSafe ==
    ASSUME IInv, NEW j \in Jobs, ReapFile(j)
    PROVE  IInv'
<1>1. TypeOK /\ j \in reaper.todo /\ RowOK(j) /\ ReaperOK(j)
  BY DEF IInv, ReapFile
<1>2. row[j].st \in Finished \cup {"gone"}
  BY <1>1 DEF RowOK, ReaperOK, Finished
<1>3. /\ file' = file \/ file' = [file EXCEPT ![j] = "absent"]
      /\ UNCHANGED <<row, msgs, worker, client, deleting, notices>>
  BY DEF ReapFile
<1>4. /\ reaper'.todo \subseteq reaper.todo
      /\ reaper'.erased \cup reaper'.kept \subseteq reaper.erased \cup reaper.kept \cup {j}
      /\ reaper' \in [pc : {"idle", "sweeping"}, todo : SUBSET Jobs, erased : SUBSET Jobs, kept : SUBSET Jobs]
  <2>1. reaper \in [pc : {"idle", "sweeping"}, todo : SUBSET Jobs, erased : SUBSET Jobs, kept : SUBSET Jobs]
    BY <1>1 DEF TypeOK
  <2>2. CASE reaper' = [reaper EXCEPT !.todo = @ \ {j}, !.erased = @ \cup {j}]
    BY <2>1, <2>2
  <2>3. CASE reaper' = [reaper EXCEPT !.todo = @ \ {j}, !.kept = @ \cup {j}]
    BY <2>1, <2>3
  <2> QED BY <2>2, <2>3 DEF ReapFile
<1>5. TypeOK'
  BY <1>1, <1>3, <1>4 DEF TypeOK
<1>6. \A c \in Clients : ClientOK(c)'
  BY <1>3 DEF IInv, ClientOK
<1>7. ASSUME NEW i \in Jobs PROVE ReaperOK(i)'
  <2>1. ReaperOK(i)
    BY DEF IInv
  <2> QED BY <1>2, <1>3, <1>4, <2>1 DEF ReaperOK
<1>8. \A i \in Jobs : file'[i] = file[i] \/ row[i].st # "running"
  BY <1>1, <1>2, <1>3 DEF TypeOK, Finished
<1> QED BY <1>3, <1>5, <1>6, <1>7, <1>8, EraseStep

\* Two sweeps in one transaction: lapsed rows are soft-deleted, stuck ones fail.
LEMMA ReapCommitSafe ==
    ASSUME IInv, ReapCommit
    PROVE  IInv'
<1>1. TypeOK /\ UNCHANGED <<file, msgs, worker, client, deleting>> /\ reaper' = IdleReaper
  BY DEF IInv, ReapCommit
<1>2. PICK told \in SUBSET {j \in Jobs : Stuck(j)} :
         notices' = [j \in Jobs |-> IF j \in told THEN Append(notices[j], "failed") ELSE notices[j]]
  BY DEF ReapCommit
<1>3. ASSUME NEW j \in Jobs
      PROVE  \/ /\ row'[j] \in Row /\ row'[j].st = row[j].st /\ row'[j].exp = row[j].exp
                /\ ~Stuck(j)
             \/ /\ row'[j] \in Row /\ row'[j].st = "failed" /\ row'[j].exp = "set"
                /\ Stuck(j)
  <2>1. row[j] \in Row /\ ReaperOK(j)
    BY <1>1 DEF TypeOK, IInv
  <2>2. CASE j \in reaper.erased \cup reaper.kept
    <3>1. row'[j] = [row[j] EXCEPT !.live = FALSE, !.ref = @ /\ j \notin reaper.erased]
      BY <2>2 DEF ReapCommit
    <3>2. ~Stuck(j)
      BY <2>1, <2>2 DEF ReaperOK, Stuck, Live, Unfinished, Finished
    <3>3. PICK b \in BOOLEAN : b = (row[j].ref /\ j \notin reaper.erased)
      OBVIOUS
    <3>4. row'[j] = [row[j] EXCEPT !.live = FALSE, !.ref = b]
      BY <3>1, <3>3, Zenon
    <3> QED BY <2>1, <3>2, <3>4 DEF Row
  <2>3. CASE j \notin reaper.erased \cup reaper.kept /\ Stuck(j)
    <3>1. row'[j] = [row[j] EXCEPT !.st = "failed", !.exp = "set"]
      BY <2>3 DEF ReapCommit
    <3> QED BY <2>1, <2>3, <3>1 DEF Row, Finished
  <2>4. CASE j \notin reaper.erased \cup reaper.kept /\ ~Stuck(j)
    <3>1. row'[j] = row[j]
      BY <2>4 DEF ReapCommit
    <3> QED BY <2>1, <2>4, <3>1
  <2> QED BY <2>2, <2>3, <2>4
<1>4. ASSUME NEW j \in Jobs
      PROVE  /\ notices'[j] \in Seq(Finished)
             /\ ~Stuck(j) => notices'[j] = notices[j]
             /\ Stuck(j) => (notices'[j] = <<>> \/ notices'[j] = <<"failed">>) /\ Len(notices'[j]) <= 1
  <2>1. notices[j] \in Seq(Finished) /\ "failed" \in Finished
    BY <1>1 DEF TypeOK, Finished
  <2>2. CASE j \in told
    <3>1. notices'[j] = Append(notices[j], "failed") /\ Stuck(j)
      BY <1>2, <2>2
    <3>2. notices[j] = <<>>
      BY <3>1 DEF IInv, RowOK, Stuck, Live, Unfinished, Finished
    <3>3. notices'[j] \in Seq(Finished) /\ notices'[j] = <<"failed">>
      BY <2>1, <3>1, <3>2
    <3>4. Len(notices'[j]) = Len(notices[j]) + 1 /\ Len(notices[j]) = 0
      BY <2>1, <3>1, <3>2
    <3>5. Len(notices'[j]) <= 1
      BY <3>4
    <3> QED BY <3>1, <3>3, <3>5, Zenon
  <2>3. CASE j \notin told
    <3>1. notices'[j] = notices[j]
      BY <1>2, <2>3
    <3>2. Stuck(j) => notices[j] = <<>>
      BY DEF IInv, RowOK, Stuck, Live, Unfinished, Finished
    <3>3. Len(notices[j]) <= 1
      BY DEF IInv, RowOK
    <3> QED BY <2>1, <3>1, <3>2, <3>3
  <2> QED BY <2>2, <2>3
<1>5. TypeOK'
  <2>1. row' \in [Jobs -> Row]
    <3>1. row' = [j \in Jobs |-> row'[j]]
      BY DEF ReapCommit
    <3> QED BY <1>3, <3>1
  <2>2. notices' \in [Jobs -> Seq(Finished)]
    <3>1. notices' = [j \in Jobs |-> notices'[j]]
      BY <1>2
    <3> QED BY <1>4, <3>1
  <2> QED BY <1>1, <2>1, <2>2 DEF TypeOK, IdleReaper
<1>6. ASSUME NEW w \in Workers PROVE WorkerOK(w)'
  <2>1. WorkerOK(w)
    BY DEF IInv
  <2>2. CASE worker[w].pc \in {"idle", "retrying"}
    BY <1>1, <2>1, <2>2 DEF WorkerOK
  <2>3. CASE worker[w].pc \notin {"idle", "retrying"}
    <3>1. PICK j \in Jobs : j = worker[w].job
      BY <2>1, <2>3 DEF WorkerOK
    <3> QED BY <1>1, <1>3, <2>1, <2>3, <3>1 DEF WorkerOK
  <2> QED BY <2>2, <2>3
<1>7. \A c \in Clients : ClientOK(c)'
  BY <1>1 DEF IInv, ClientOK
<1>8. ASSUME NEW j \in Jobs PROVE RowOK(j)' /\ ReaperOK(j)'
  <2>1. RowOK(j)
    BY DEF IInv
  <2>4. ReaperOK(j)'
    BY <1>1 DEF ReaperOK, IdleReaper
  <2>2. CASE Stuck(j)
    <3>1. row'[j].st = "failed" /\ row'[j].exp = "set" /\ "failed" \in Finished
      BY <1>3, <2>2 DEF Finished
    <3>2. (notices'[j] = <<>> \/ notices'[j] = <<"failed">>) /\ Len(notices'[j]) <= 1
      BY <1>4, <2>2
    <3> QED BY <2>4, <3>1, <3>2 DEF RowOK
  <2>3. CASE ~Stuck(j)
    <3>1. row'[j].st = row[j].st /\ row'[j].exp = row[j].exp /\ notices'[j] = notices[j]
      BY <1>3, <1>4, <2>3
    <3> QED BY <2>1, <2>4, <3>1 DEF RowOK
  <2> QED BY <2>2, <2>3
<1>9. SingleWriter'
  BY <1>1 DEF IInv, SingleWriter, Owns
<1> QED BY <1>5, <1>6, <1>7, <1>8, <1>9 DEF IInv

LEMMA ReapSafe ==
    ASSUME IInv, ReapSteps
    PROVE  IInv'
<1>1. CASE ReapSelect \/ ReapCrash
  <2>1. PICK T \in SUBSET Jobs :
           /\ \A j \in T : row[j].exp = "lapsed"
           /\ reaper' = IdleReaper \/ reaper' = [IdleReaper EXCEPT !.pc = "sweeping", !.todo = T]
    <3>1. CASE ReapSelect
      <4>1. {j \in Jobs : row[j].live /\ row[j].exp = "lapsed"} \in SUBSET Jobs
        OBVIOUS
      <4> QED BY <3>1, <4>1, Zenon DEF ReapSelect
    <3>2. CASE ReapCrash
      <4>1. {} \in SUBSET Jobs /\ \A j \in {} : row[j].exp = "lapsed"
        OBVIOUS
      <4> QED BY <3>2, <4>1, Zenon DEF ReapCrash
    <3> QED BY <1>1, <3>1, <3>2
  <2>2. /\ reaper' \in [pc : {"idle", "sweeping"}, todo : SUBSET Jobs, erased : SUBSET Jobs, kept : SUBSET Jobs]
        /\ reaper'.todo \subseteq T /\ reaper'.erased \cup reaper'.kept = {}
    <3>1. CASE reaper' = IdleReaper
      BY <3>1 DEF IdleReaper
    <3>2. CASE reaper' = [IdleReaper EXCEPT !.pc = "sweeping", !.todo = T]
      <4>1. reaper' = [pc |-> "sweeping", todo |-> T, erased |-> {}, kept |-> {}]
        BY <3>2 DEF IdleReaper
      <4> QED BY <4>1
    <3> QED BY <2>1, <3>1, <3>2
  <2>3. UNCHANGED <<row, file, msgs, worker, client, deleting, notices>>
    BY <1>1 DEF ReapSelect, ReapCrash
  <2>4. TypeOK'
    BY <2>2, <2>3 DEF IInv, TypeOK
  <2>5. \A c \in Clients : ClientOK(c)'
    BY <2>3 DEF IInv, ClientOK
  <2>6. \A j \in Jobs : ReaperOK(j)'
    BY <2>1, <2>2, <2>3 DEF ReaperOK
  <2> QED BY <2>3, <2>4, <2>5, <2>6, QuietStep
<1> QED BY <1>1, ReapFileSafe, ReapCommitSafe DEF ReapSteps

LEMMA DeleteEraseSafe ==
    ASSUME IInv, NEW j \in Jobs, DeleteErase(j)
    PROVE  IInv'
<1>1. TypeOK /\ row[j].st \in Finished
  BY DEF IInv, DeleteErase, Live
<1>2. /\ file' = file \/ file' = [file EXCEPT ![j] = "absent"]
      /\ deleting' \in [Jobs -> {"no", "erased", "kept"}]
      /\ UNCHANGED <<row, msgs, worker, client, reaper, notices>>
  BY <1>1 DEF DeleteErase, TypeOK
<1>3. TypeOK'
  BY <1>1, <1>2 DEF TypeOK
<1>4. \A c \in Clients : ClientOK(c)'
  BY <1>2 DEF IInv, ClientOK
<1>5. \A i \in Jobs : ReaperOK(i)'
  BY <1>2 DEF IInv, ReaperOK
<1>6. \A i \in Jobs : file'[i] = file[i] \/ row[i].st # "running"
  BY <1>1, <1>2 DEF TypeOK, Finished
<1> QED BY <1>2, <1>3, <1>4, <1>5, <1>6, EraseStep

\* DeleteCommit, Age and Lapse leave the status, and let at most a set expiry lapse.
LEMMA RowWrite ==
    ASSUME TypeOK, NEW j \in Jobs, DeleteCommit(j) \/ Age(j) \/ Lapse(j)
    PROVE  \E new \in Row : /\ row' = [row EXCEPT ![j] = new] /\ new.st = row[j].st
                            /\ new.exp = row[j].exp \/ (row[j].exp = "set" /\ new.exp = "lapsed")
<1>1. row[j] \in Row
  BY DEF TypeOK
<1>2. CASE DeleteCommit(j)
  <2>1. PICK b \in BOOLEAN : b = (row[j].ref /\ deleting[j] # "erased")
    OBVIOUS
  <2>2. row' = [row EXCEPT ![j] = [row[j] EXCEPT !.live = FALSE, !.ref = row[j].ref /\ deleting[j] # "erased"]]
    BY <1>1, <1>2 DEF TypeOK, DeleteCommit
  <2>3. row' = [row EXCEPT ![j] = [row[j] EXCEPT !.live = FALSE, !.ref = b]]
    BY <2>1, <2>2, Zenon
  <2>4. [row[j] EXCEPT !.live = FALSE, !.ref = b] \in Row
    BY <1>1 DEF Row
  <2>5. /\ [row[j] EXCEPT !.live = FALSE, !.ref = b].st = row[j].st
        /\ [row[j] EXCEPT !.live = FALSE, !.ref = b].exp = row[j].exp
    BY <1>1 DEF Row
  <2> QED BY <2>3, <2>4, <2>5, Zenon
<1>3. CASE Age(j)
  <2>1. row' = [row EXCEPT ![j] = [row[j] EXCEPT !.aged = TRUE]]
    BY <1>1, <1>3 DEF TypeOK, Age
  <2>2. [row[j] EXCEPT !.aged = TRUE] \in Row
    BY <1>1 DEF Row
  <2>3. [row[j] EXCEPT !.aged = TRUE].st = row[j].st /\ [row[j] EXCEPT !.aged = TRUE].exp = row[j].exp
    BY <1>1 DEF Row
  <2> QED BY <2>1, <2>2, <2>3, Zenon
<1>4. CASE Lapse(j)
  <2>1. row' = [row EXCEPT ![j] = [row[j] EXCEPT !.exp = "lapsed"]] /\ row[j].exp = "set"
    BY <1>1, <1>4 DEF TypeOK, Lapse
  <2>2. [row[j] EXCEPT !.exp = "lapsed"] \in Row
    BY <1>1 DEF Row
  <2>3. [row[j] EXCEPT !.exp = "lapsed"].st = row[j].st /\ [row[j] EXCEPT !.exp = "lapsed"].exp = "lapsed"
    BY <1>1 DEF Row
  <2> QED BY <2>1, <2>2, <2>3, Zenon
<1> QED BY <1>2, <1>3, <1>4

LEMMA RowSafe ==
    ASSUME IInv, NEW j \in Jobs, DeleteCommit(j) \/ Age(j) \/ Lapse(j)
    PROVE  IInv'
<1>1. TypeOK /\ row[j] \in Row /\ RowOK(j)
  BY DEF IInv, TypeOK
<1>2. PICK new \in Row : /\ row' = [row EXCEPT ![j] = new] /\ new.st = row[j].st
                         /\ new.exp = row[j].exp \/ (row[j].exp = "set" /\ new.exp = "lapsed")
  BY <1>1, RowWrite
<1>3. /\ UNCHANGED <<file, msgs, worker, client, reaper, notices>>
      /\ deleting' \in [Jobs -> {"no", "erased", "kept"}]
  BY <1>1 DEF DeleteCommit, Age, Lapse, others, TypeOK
<1>4. TypeOK'
  BY <1>1, <1>2, <1>3 DEF TypeOK
<1>5. \A c \in Clients : ClientOK(c)'
  BY <1>3 DEF IInv, ClientOK
<1>6. /\ new.exp # "null" => new.st \in Finished
      /\ row[j].exp = "lapsed" => new.exp = "lapsed" \/ new.st = "gone"
  BY <1>1, <1>2 DEF RowOK
<1> QED BY <1>2, <1>3, <1>4, <1>5, <1>6, RowStep

-----------------------------------------------------------------------------
LEMMA NextIInv ==
    ASSUME IInv, [Next]_vars
    PROVE  IInv'
<1>1. CASE UNCHANGED vars
  <2>1. TypeOK'
    BY <1>1 DEF IInv, TypeOK, vars
  <2>2. (\A c \in Clients : ClientOK(c)') /\ \A j \in Jobs : ReaperOK(j)'
    BY <1>1 DEF IInv, ClientOK, ReaperOK, vars
  <2> QED BY <1>1, <2>1, <2>2, QuietStep DEF vars
<1>2. ASSUME NEW c \in Clients, CreateSteps(c) PROVE IInv'
  BY <1>2, CreateSafe
<1>3. ASSUME NEW w \in Workers, RunSteps(w) PROVE IInv'
  BY <1>3, RunSafe
<1>4. ASSUME NEW m \in msgs, LoseMessage(m) PROVE IInv'
  BY <1>4, BrokerSafe DEF LoseMessage
<1>5. CASE ReapSteps
  BY <1>5, ReapSafe
<1>6. ASSUME NEW j \in Jobs, RowSteps(j) PROVE IInv'
  BY <1>6, DeleteEraseSafe, RowSafe DEF RowSteps
<1> QED BY <1>1, <1>2, <1>3, <1>4, <1>5, <1>6 DEF Next

\* The invariant holds in every reachable state.
THEOREM Invariance == Spec => []IInv
<1>1. Init => IInv
  BY InitIInv
<1>2. IInv /\ [Next]_vars => IInv'
  BY NextIInv
<1> QED BY <1>1, <1>2, PTL DEF Spec

\* Rows, files, messages, runs and announcements keep their types whatever crashes, is
\* redelivered or gets lost; in particular a task never uses more than max_retries
\* attempts (run_export_job, autoretry_for).
THEOREM TypeCorrect == Spec => []TypeOK
<1>1. IInv => TypeOK
  BY DEF IInv
<1> QED BY <1>1, Invariance, PTL

\* For any number of workers and any pattern of redeliveries, retries, lost replies,
\* crashes and reaper ticks, the claim UPDATE ... WHERE status = 'pending' of
\* run_export_job leaves one worker at most on the stored file of a job.
THEOREM OneWriterPerFile == Spec => []SingleWriter
<1>1. IInv => SingleWriter
  BY DEF IInv
<1> QED BY <1>1, Invariance, PTL

\* The guarded running -> ready and running -> failed updates and the stuck sweep between
\* them announce the end of a job at most once, and announce what the row says (_announce).
THEOREM OneAnnouncement == Spec => []AnnouncedOnce
<1>1. IInv => AnnouncedOnce
  BY DEF IInv, RowOK, AnnouncedOnce
<1> QED BY <1>1, Invariance, PTL

-----------------------------------------------------------------------------
(* The file behind a ready row.                                             *)

\* A worker step whose file write is at its own job.
LEMMA RunKeeps ==
    ASSUME IInv, NEW w \in Workers, RunSteps(w), NEW j \in Jobs
    PROVE  FileKept(j)
<1>1. TypeOK /\ WorkerOK(w) /\ (worker[w].pc # "idle" => worker[w].job \in Jobs)
  BY DEF IInv, WorkerOK
<1>2. CASE FinalizeReady(w) \/ FinalizeReplyLost(w)
  <2>1. /\ worker[w].pc = "saved" /\ row[worker[w].job].st = "running" /\ file' = file
        /\ MarkReady(worker[w].job)
    BY <1>2 DEF FinalizeReady, FinalizeReplyLost, Live
  <2>2. file[worker[w].job] = "whole"
    BY <1>1, <2>1 DEF WorkerOK
  <2>3. \A i \in Jobs : i # worker[w].job => row'[i] = row[i]
    BY <1>1, <2>1, EndWrite DEF Finished
  <2> QED BY <2>1, <2>2, <2>3 DEF FileKept
<1>3. CASE OpenFile(w) \/ SaveFile(w) \/ DropFile(w)
  <2>1. /\ worker[w].pc \in {"generating", "writing", "dropping"} /\ row' = row
        /\ \A i \in Jobs : i # worker[w].job => file'[i] = file[i]
    BY <1>1, <1>3 DEF OpenFile, SaveFile, DropFile, EraseFile, TypeOK
  <2>2. row[worker[w].job].st # "ready"
    BY <1>1, <2>1 DEF WorkerOK
  <2> QED BY <2>1, <2>2 DEF FileKept, Live
<1>4. CASE CleanUp(w)
  <2>1. /\ worker[w].pc = "failing" /\ row' = row
        /\ \A i \in Jobs : i # worker[w].job => file'[i] = file[i]
    BY <1>1, <1>4 DEF CleanUp, EraseFile, TypeOK
  <2>2. row[worker[w].job].st = "ready" => worker[w].transient
    BY <1>1, <2>1 DEF WorkerOK
  <2> QED BY <2>1, <2>2 DEF FileKept, Live
<1>5. CASE \/ FinalizeSuperseded(w) \/ PublishRetry(w) \/ FailureSuperseded(w) \/ FailureBlip(w)
           \/ WorkerCrash(w) \/ (\E transient \in BOOLEAN : RunFails(w, transient)) \/ (\E m \in msgs : Skip(w, m))
  BY <1>5 DEF FinalizeSuperseded, PublishRetry, FailureSuperseded, FailureBlip, WorkerCrash, RunFails, Skip,
              FileKept
<1>6. ASSUME NEW m \in msgs, Claim(w, m) PROVE FileKept(j)
  <2>1. m.job \in Jobs
    BY <1>1 DEF TypeOK, Message
  <2>2. row' = [row EXCEPT ![m.job].st = "running"] /\ file' = file
    BY <1>6 DEF Claim
  <2>3. row'[m.job].st = "running" /\ \A i \in Jobs : i # m.job => row'[i] = row[i]
    BY <1>1, <2>1, <2>2, StatusWrite DEF Unfinished
  <2> QED BY <2>2, <2>3 DEF FileKept
<1>7. CASE Requeue(w)
  <2>1. row' = [row EXCEPT ![worker[w].job].st = "pending"] /\ file' = file /\ worker[w].job \in Jobs
    BY <1>1, <1>7 DEF Requeue
  <2>2. row'[worker[w].job].st = "pending" /\ \A i \in Jobs : i # worker[w].job => row'[i] = row[i]
    BY <1>1, <2>1, StatusWrite DEF Unfinished
  <2> QED BY <2>1, <2>2 DEF FileKept
<1>8. CASE RecordFailure(w)
  <2>1. /\ row' = [row EXCEPT ![worker[w].job].st = "failed", ![worker[w].job].exp = "set"] /\ file' = file
        /\ worker[w].job \in Jobs
    BY <1>1, <1>8 DEF RecordFailure
  <2>2. row'[worker[w].job].st = "failed" /\ \A i \in Jobs : i # worker[w].job => row'[i] = row[i]
    BY <1>1, <2>1, EndWrite DEF Finished
  <2>3. file' = file
    BY <2>1
  <2> QED BY <2>2, <2>3, Zenon DEF FileKept
<1> QED BY <1>2, <1>3, <1>4, <1>5, <1>6, <1>7, <1>8 DEF RunSteps

LEMMA StepKeeps ==
    ASSUME IInv, [Next]_vars, NEW j \in Jobs
    PROVE  FileKept(j)
<1>1. TypeOK
  BY DEF IInv
<1>2. CASE UNCHANGED vars
  BY <1>2 DEF vars, FileKept
<1>3. ASSUME NEW c \in Clients, CreateSteps(c) PROVE FileKept(j)
  <2>1. ASSUME NEW i \in Jobs, CreateInsert(c, i) PROVE FileKept(j)
    <3>1. row' = [row EXCEPT ![i] = [NoRow EXCEPT !.st = "pending", !.live = TRUE, !.key = client[c].key]] /\ file' = file
      BY <2>1 DEF CreateInsert
    <3>2. [NoRow EXCEPT !.st = "pending", !.live = TRUE, !.key = client[c].key].st = "pending"
      BY DEF NoRow
    <3>3. row'[j].st = "pending" \/ row'[j] = row[j]
      BY <1>1, <3>1, <3>2, Zenon DEF TypeOK
    <3> QED BY <3>1, <3>3 DEF FileKept
  <2>2. CASE EnqueueFail(c)
    <3>1. row' = [row EXCEPT ![client[c].job] = [NoRow EXCEPT !.st = "gone"]] /\ file' = file
      BY <2>2 DEF EnqueueFail
    <3>2. [NoRow EXCEPT !.st = "gone"].st = "gone"
      BY DEF NoRow
    <3>3. row'[j].st = "gone" \/ row'[j] = row[j]
      BY <1>1, <3>1, <3>2, Zenon DEF TypeOK
    <3> QED BY <3>1, <3>3 DEF FileKept
  <2>3. CASE \/ CreateLost(c) \/ Enqueue(c) \/ CreateCrash(c)
             \/ \E k \in Keys \cup {NoKey} : CreateStart(c, k) \/ CreateReplay(c, k)
    BY <2>3 DEF CreateLost, Enqueue, CreateCrash, CreateStart, CreateReplay, vars, FileKept
  <2> QED BY <1>3, <2>1, <2>2, <2>3 DEF CreateSteps
<1>4. ASSUME NEW w \in Workers, RunSteps(w) PROVE FileKept(j)
  BY <1>4, RunKeeps
<1>5. ASSUME NEW m \in msgs, LoseMessage(m) PROVE FileKept(j)
  BY <1>5 DEF LoseMessage, FileKept
<1>6. CASE ReapSteps
  <2>1. CASE ReapSelect \/ ReapCrash
    BY <2>1 DEF ReapSelect, ReapCrash, FileKept
  <2>2. ASSUME NEW i \in Jobs, ReapFile(i) PROVE FileKept(j)
    <3>1. /\ row' = row /\ \A k \in Jobs : k # i => file'[k] = file[k]
          /\ row[i].st = "gone" \/ row[i].exp = "lapsed"
      BY <1>1, <2>2 DEF ReapFile, TypeOK, IInv, ReaperOK
    <3> QED BY <3>1 DEF FileKept, Live
  <2>3. CASE ReapCommit
    <3>1. row[j] \in Row
      BY <1>1 DEF TypeOK
    <3>2. file' = file
      BY <2>3 DEF ReapCommit
    <3>3. row'[j].st = "failed" \/ row'[j].st = row[j].st
      <4>1. CASE j \in reaper.erased \cup reaper.kept
        <5>1. row'[j] = [row[j] EXCEPT !.live = FALSE, !.ref = @ /\ j \notin reaper.erased]
          BY <2>3, <4>1 DEF ReapCommit
        <5> QED BY <3>1, <5>1 DEF Row
      <4>2. CASE j \notin reaper.erased \cup reaper.kept
        <5>1. row'[j] = [row[j] EXCEPT !.st = "failed", !.exp = "set"] \/ row'[j] = row[j]
          BY <2>3, <4>2 DEF ReapCommit
        <5> QED BY <3>1, <5>1 DEF Row
      <4> QED BY <4>1, <4>2
    <3> QED BY <3>2, <3>3 DEF FileKept
  <2> QED BY <1>6, <2>1, <2>2, <2>3 DEF ReapSteps
<1>7. ASSUME NEW i \in Jobs, RowSteps(i) PROVE FileKept(j)
  <2>1. CASE DeleteErase(i)
    <3>1. row' = row /\ (file' = file \/ (/\ file' = [file EXCEPT ![i] = "absent"]
                                          /\ deleting' = [deleting EXCEPT ![i] = "erased"]))
      BY <2>1 DEF DeleteErase
    <3> QED BY <1>1, <3>1 DEF FileKept, TypeOK
  <2>2. CASE DeleteCommit(i) \/ Age(i) \/ Lapse(i)
    <3>1. row'[j].st = row[j].st
      BY <1>1, <2>2, RowWrite DEF TypeOK
    <3>2. file' = file
      BY <2>2 DEF DeleteCommit, Age, Lapse
    <3> QED BY <3>1, <3>2 DEF FileKept
  <2> QED BY <1>7, <2>1, <2>2 DEF RowSteps
<1> QED BY <1>2, <1>3, <1>4, <1>5, <1>6, <1>7 DEF Next

\* Whatever the workers, the reaper and DELETE interleave, a job turns ready with its
\* whole file in place, and while it is ready and unexpired only a DELETE removes the
\* file, or the failure handler of the run whose finalise landed with its reply lost
\* (run_export_job, _handle_run_failure, reap_expired_export_jobs).
THEOREM DownloadsStay == Spec => ReadyFileKept
<1>1. IInv /\ [Next]_vars => [\A j \in Jobs : FileKept(j)]_vars
  BY StepKeeps
<1> QED BY <1>1, Invariance, PTL DEF ReadyFileKept, Spec
=============================================================================
