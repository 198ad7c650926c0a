# Verification of the red-teaming platform's backend

TLA+ models of the backend under `src/backend/app`: a FastAPI service over
PostgreSQL (READ COMMITTED, row locks), Redis and a Celery broker. The models
are checked by TLC on small instances; the properties that matter most are
proved by TLAPS for every instance. `PROJECT.json` maps every definition to the
lines it models, and lists runs, mutants, hazards and theorems.

## 1. The system

The backend has thin routers (`api/v1`), one service layer per domain
(`core/<domain>/services`), SQLModel rows with soft deletion (`deleted_at`), and
Celery tasks ticked by beat. A request is one database transaction unless it
streams; the hard behaviours all come from what happens between two statements
of a transaction, between two transactions of one handler, or between the
database and something that does not roll back with it (storage, Redis, broker,
provider).

| Component | State | Operations | What is hard | Correct when |
|---|---|---|---|---|
| Message generation (`core/conversations/services/messages.py`, `generation.py`, `tasks.py`) | turns, messages with status and `replaces_message_id` | send (with `client_message_id`), replay, regenerate, continue, stream, detached finalize, reaper | two transactions per request with a stream between them; finalize runs detached from the client; the reaper races it | one live reply per turn, append-only transcript, idempotent submits, every placeholder settles |
| Exports (`core/exports`) | job row, stored file, broker messages, notices | create (idempotency key), claim, generate, finalise, retry, fail, reap, delete | late acknowledgement, redelivery next to retries, storage outside the transaction, workers dying anywhere | one writer per file, announced once, ready means a file, every row is reaped |
| Conversation groups and conversations | group and conversation rows | create, move, delete, restore, group delete, prune, the read routes | capacity counted before insert, unlocked prune | cap respected, no live row under a dead parent, the reads agree |
| Model assignments and allowed models | `evaluation_ai_models`, `evaluation_group_ai_models`, `ai_models` | assign, unassign, re-instate, sync the subset, delete and restore a model | cascades across three tables, locks in different orders | only allowed, live models assigned |
| Sessions (`session_revocation.py`, `refresh.py`, `jwt.py`, `login.py`) | users row, Redis marker, stateless tokens | login, refresh, revoke, deactivate, change password or role | TTLs of marker and tokens, Redis outages, lost replies, clock between checks and signing | revoked tokens stay out, rotation ends, authority is fresh |
| Account onboarding (`registration.py`, `invitations.py`, `oidc.py`, `password_resets.py`, `group_invitations.py`) | users row, verification, invitation and reset tokens | register, verify, resend, invite, accept, revoke, IdP login, reset, status change | sets of token rows have no row to lock; unlocked reads before locked refetches | single-use links, an invited account claimed only by its invitation or an IdP, throttle holds |
| Users, roles, object roles, membership (`core/auth/services/roles.py`, `users.py`, `core/auth/object_roles`) | role catalogue, role sets, group members, organization of a user | role edits and default flags, deletes and restores, grants, removals, self-join, the gates | guards that count other rows ("sole owner", "sole role") without locking them; predicates stated in SQL and in Python | a group keeps a governor, defaults resolve, the two readings agree |
| Evaluation groups, evaluations, publication, organizations | group status, licence, organization; evaluations | create, draft, duplicate, edit, submit, approve, request changes, reject, publish, finish, delete | completeness read while content is edited; organization deleted under a submit | one verdict per submission, no silent licence, no dead organization |
| Scenarios and tag keys | positions, tag keys | create, reorder, delete, restore, add a key | positions have no unique index; a reorder's lock set is its snapshot | distinct positions, appended last |
| Tasks, check-offs, notes | tasks, completions, notes | create, edit, delete, restore, check on and off | unlocked toggles, conversations moving between groups | exact roll-up, audit snapshots fresh |
| Annotations and labels | labels (curated, own), annotations | create by label or by wording, delete, restore, catalogue sync | indexes do not span curated and own labels | a wording counts once |
| Flags and reviews | flags, reviews, pool, queue | flag, assign (single, bulk), decide, unassign, restore | restore of decided reviews, pool changing under an assignment | picker, queue and restore list say what the endpoints do |
| AI gateway | model rows, health, findings, usage stamps, alerts | create, patch, bulk, keys, check, probe task, sweep, dispatch checks | the probe outlives the row it read; two sweeps claim one alert | evidence is about the present row, one alert per quiet episode |
| E-mail outbox | queued mail | enqueue, claim, send, retry | at-least-once delivery | not modelled |
| Notifications, media, encryption and re-wrap, analytics, terms, licenses, settings, audit, frontend | – | – | mostly single-row edits, I/O, read-only queries | not modelled; reasons in `PROJECT.json` |

Components meet in shared rows: `ai_models` (ModelRegistry, EvaluationTree), the
users row (Sessions, Onboarding, Membership), conversations (EvaluationTree,
MessageStream, Workspace, Reviews, Annotations), organizations (GroupLifecycle,
Membership). A module takes the steps of the others that change what it reads as
actions of its environment (a conversation that closes, a user that is deleted,
a scenario that is edited), in every order.

## 2. Modules

| Module | Role |
|---|---|
| `MessageStream` | the conversation write path |
| `Transcript` | abstract specification: what a reader of a conversation is promised |
| `ConversationProofs` | theorems about `MessageStream` and its refinement of `Transcript`, and about `Reviews`, `Workspace` and `Annotations` |
| `ExportJobs`, `ExportJobsProofs` | export jobs, worker, reaper, delete, and theorems |
| `EvaluationTree`, `EvaluationTreeProofs` | conversation groups, conversations, assignments, allowed models, models: one transaction machine over five tables, and theorems |
| `Sessions`, `SessionsProofs` | sessions of one account, and theorems |
| `Onboarding`, `OnboardingProofs` | one e-mail address and its links, and theorems |
| `Membership`, `MembershipProofs` | roles, accounts, members of a group, every gate that reads them, and theorems |
| `GroupLifecycle`, `GroupLifecycleProofs` | evaluation groups from draft to inactive, evaluations, organizations; theorems about them and about `Scenarios` |
| `Scenarios` | the order of an evaluation's scenarios, and its tag keys |
| `Workspace` | tasks, check-offs with their roll-up, notes |
| `Annotations` | label vocabulary and annotations of one message |
| `Reviews` | flags, reviews, reviewer pool, queue, submission reads |
| `ModelRegistry`, `ModelRegistryProofs` | model rows, health checks, usage, inactivity sweep, and theorems |
| `Calls`, `Callers` | constants several components share: requests, null, users, managers |
| `MC*` | constant values and symmetry sets for TLC |

Definitions named as variants (comment "Variant: ...") are the mutants: each is the
definition it precedes with one plausible slip, and no specification uses it. `TypeOK`
(`ReviewsTypeOK` and so on where two modules meet in one proof module) states in each
module the ranges of its variables; it is proved for every component, by itself or as a
part of the component's invariant.

### How state and steps correspond to the code

*Locks and snapshots.* A step boundary is put wherever another transaction can
commit between two statements of the code and change what the first one saw.
`MessageStream`, `EvaluationTree` and `Onboarding` go statement by statement:
`FOR UPDATE`, `FOR SHARE` and the lock an `UPDATE` takes are fields of the
request (`lock`; `held`/`shared`; `lock`/`rows`); a statement that waits for a row
is two steps, what its snapshot selected, then the rows that still qualify when
the locks are granted; writes show at the commit; inserting a row with a foreign
key takes `KEY SHARE` on the parent, which `FOR UPDATE` excludes. In the other
modules a request is two steps: its reads with their checks (and the locks it then
holds), and its commit; an endpoint whose every check is of rows it has locked is
one. Any request may be refused, fail or be aborted as a deadlock victim between
its steps.

*History variables* record what a property has to tell apart and influence no
step: `raced` (EvaluationTree: two requests have been in progress at once), `late` and
`overlapped` (Membership), `due`, `origin`, `chosen` (GroupLifecycle), `straddled`
(Scenarios), `overlapped` (Annotations), `revokedAt`, `highest` and `ackedAt` (Sessions:
the revocation stored last, the latest stored, the latest start of a revocation that
reported success), the fields `stale`, `about`, `alerts` and `legacy` of a row
(ModelRegistry).

*MessageStream.* `SendLock`, `SendReplay`, `SendConflict`, `SendFirstSeen`,
`SendOpenTurn`, `SendRefused` are Transaction A of `send_message`;
`SupersedeRead` and `SupersedeCommit` are Transaction A of regenerate and
continue (`open_replacement`); `StartStream`, `StreamDelta`, `StreamEnd` are
`persist_stream`; `Finalize` is Transaction B, detached and without the row
lock; `Crash` strands a placeholder. A replay reads the turn's messages twice, but
the session keeps the objects of the first read, so the reply found then is answered
with the status it had then (`seen`), and only a row that superseded it meanwhile is
read fresh; `Reap` is the beat task. Text is the set of
replies whose output it contains, enough to tell a lost, doubled or mixed
prefix. `TtlCoversGeneration` says whether the reaper's age limit outlasts every
generation; the run takes the worse case, FALSE.

*ExportJobs.* Row, file and broker change at different instants. `WorkerCrashes`,
`StorageFaults` and `CommitReplyLost` switch failure classes; the run has them all
on.

*EvaluationTree.* Each endpoint is a chain of statements ending in `Commit`;
cascades and the prune of emptied groups are part of the chain of the endpoint
that triggers them. `Ops` is the set of endpoints called in a run. The read
routes are operators over the committed tables.

*Sessions.* The clock is `int(time.time())`; it may advance between any two steps, also
between a revocation's reading of it (`ReadClock`) and the `SET` of the marker (`Store`),
which replaces whatever is stored. A pair is dropped from the model when its last token
has expired, or when its holder loses it (`Discard`). Tokens without `auth_time` (minted
by an older release) are not modelled.

*Onboarding.* Thirteen request kinds on one address. `created_at` of an invitation is the
start of its transaction, so `older` (which invitations are earlier than which) is settled
when the request begins. Password policy, terms consent, the invite-only switch and the
IdP's domain filter are refusals (`Abort`). The day that limits resets does not pass
within a run; the cooldown does (`CoolDown`).

*Membership.* Permissions are the few the guards and gates name; a custom role
carries any of `CustomPerms`. The gates (`require_group_read`, the SQL visibility
clause of the group page, the capability checks) are operators, each translated
from its own source lines, so that their agreement is a property. The platform
administrator is outside the model.

*GroupLifecycle.* A group row carries the fields publication asks for (complete, licence,
access level, organization, dates past or not); an evaluation row whether a live scenario
hangs off it. The effective licence of a deleted evaluation is the platform's, whatever it
carries (`resolve_effective_license`). Transitions hold the group row and read the rest
unlocked.

*Scenarios.* A reorder's first step is the snapshot of its `SELECT ... FOR
UPDATE`; its commit renumbers the rows of that snapshot that are still live.

*Workspace.* A completion row is a row, not a flag: double clicks and the unique
index are modelled. The roll-up is two steps, its select of the group's conversations
(`rollup_total`, which keeps them as `counted`) and its select of the check-offs; the
property speaks of the second step of every roll-up in progress. A note is reached
through its own conversation. Audited edits keep the snapshot they took (`before`).

*Annotations.* Names stand for case-folded wordings. The sync reads the label
table and then writes it, next to annotators creating labels; `Rank` is the order
in which equal rows are found.

*Reviews.* A bulk assignment goes through its rows one by one, holding each flag,
and skips those that fail (`apply_bulk` with savepoints). Pool membership, account
deletion, the access level and `required_reviews` change in the environment.

*ModelRegistry.* The run starts with a row that may predate any of the three rules on
writes (an endpoint for a generic vendor, no doubled prefix, web access only where the
vendor has it), as there is no constraint and no backfill behind them; `legacy` keeps
which rules it predates, until a patch sets a field of the rule and is checked against it.
Web access is decided by the vendor or, for OpenAI, by the model id (`WebModels`).
litellm's capability map may change with a deployment; within a run it does not, and a row
whose switch an earlier map allowed is one of the legacy rows. A patch carries a value for
each field it sets; effective settings, call fields and what clears a finding are computed
as in the code. The automatic check goes on after the request's commit with the row object
it had loaded, and the worker task reads, probes and settles in separate transactions, may
be redelivered, killed, or exceed its limit. Provider answers are chosen freely.

## 3. Runs

| Run | Question | Instance |
|---|---|---|
| `messages` | Any mix of send, resend, regenerate and continue, with crashes, lost finalizes and a reaper that may fire on a generation in flight: is the transcript append-only and idempotent (`OneStreamingPerTurn`, `IdempotentSubmit`, `AppendOnly`), does every placeholder settle (`StreamingSettles`), do the handlers implement `Transcript` (`ImplementsTranscript`)? | 2 handlers, 2 conversations, 2 reply rows, 2 turns, 1 key |
| `exports` | Redelivered, retried and lost messages, crashes, storage faults, lost commit replies, reaper and DELETE around one job: one writer per file (`SingleWriter`), one announcement (`AnnouncedOnce`), a ready file is kept (`ReadyFileKept`), and every job ends and is removed (`JobsRetire`)? | 2 workers, 2 clients, 1 job, 1 key, 1 retry |
| `tree_safety` | Twelve endpoints, serial or interleaved statement by statement, any aborted midway. Without overlap every route agrees on what is live (`SerialReadsAgree`); with it the cap holds (`CapRespected`), only allowed live models are assigned (`AssignedWithinSubset`), only the prune strands a conversation (`OnlyPrunesStrand`) | 2 requests, 3 conversations, 2 groups of at most 2, 1 model, 1 assignment |
| `sessions_safety` | Does revocation last, does success mean that it landed, does rotation end, through Redis outages and TTLs (`RevokedStaysRevoked`, `SuccessMeansRevoked`, `NoExchangeOfRevoked`, `AbsoluteCeiling`)? | 2 requests, `AbsMax` 2, clock to 3, 1 pair at a time |
| `onboarding_safety` | Are links spent once (`SpentLinksStaySpent`, `RevokedLinkStaysDead`), invited accounts unclaimed (`InvitedUnclaimed`), IdP accounts without a password (`IdpLeavesNoPassword`), resets throttled (`SelfServiceThrottled`)? | 2 requests of 13 kinds |
| `lifecycle_safety` | One verdict per submission (`OneVerdictPerSubmission`), no private data under the platform licence unasked (`NoSilentInheritance`), no form naming a deleted organization (`FormOrgLive`)? | 2 requests, a group and its copy, 2 evaluations, 1 organization |
| `scenarios_safety` | Do positions stay apart and do appended scenarios come last (`OrderKept`), do the three readings of the tag policy agree (`FoldAgrees`)? | 2 requests, 3 scenarios, tag limit 1, 3 keys |
| `reviews_safety` | Does the picker offer exactly whom an assignment accepts (`PickerExact`) and the deleted listing only what can be restored (`RestoreListHonest`)? | 2 requests, 1 flag, 3 reviews, 3 users |
| `annotations_safety` | Do picking and typing a label agree (`PickEqualsType`), does a wording count once (`WordingsCountOnce`)? | 2 requests, 1 curated and 2 own labels, 2 wordings, 3 annotations, 2 deployments |
| `workspace_safety` | Is the roll-up, in two selects, the sum of the conversations' lists, and within its total but for those who joined (`RollupExact`), does an audited edit snapshot what it replaces (`AuditSnapshotFresh`)? | 2 requests, 2 conversations in 2 groups |
| `membership_safety` | Does a group keep somebody who may govern it (`GroupGoverned`), are both default roles resolvable (`DefaultsResolvable`), does every account keep a usable role (`AccountsKeepARole`), do the predicates stated twice agree (`ReadGatesAgree`)? | 2 requests at once and 3 in all, 2 users, 4 roles |
| `registry_safety` | Are verdicts and findings about the row as it is (`EvidenceCurrent`), does an alert come once and only while a model is quiet (`AlertsHonest`)? After any sequence of writes, on rows that may predate the rules, is what the registry offers callable (`OfferedIsCallable`)? | 2 rows, 1 request, 2 edits, 2 tasks, 2 sweeps, 2 checks, 3 vendors, 3 model ids, within `Explored` |

All hold. Each property also has a mutant: a variant of one mapped definition
under which TLC finds it violated in the same run.

### Bounds, and why they are enough

Two concurrent requests: every race described in the code's comments and every
one we found is between two transactions; a third adds no new lock pattern, as
all conflicts are over one account, one conversation, one group, one job or one
row. Where a property needs a history (a regenerate after a crash, a delete after a
grant, a restore after an edit) the bound on the number of edits allows it.

- `messages`: two reply rows are enough for a regenerate or continue of a reply,
  and for two conversations streaming at once; the theorems cover any number of
  rows.
- `exports`: two workers with one job and one retry give claim/claim,
  claim/retry, retry/sweep and finalise/delete races; two clients race on one key.
- `tree_safety`: three conversations in groups of two fill a group and leave one
  to be refused. A second assignment passes as well (2.1 million states).
- `sessions_safety`: `AbsMax = 2` and a clock to 3 pass every boundary of the three
  lifetimes, including the expiry of the marker; the theorems cover all lifetimes. Every
  property speaks of each pair by itself, pairs do not act on each other, and a holder may
  discard one to make room, so that one pair at a time loses none of their histories. `View`
  makes states that differ only in the permissions a pair or request carries one state:
  no guard and no property of the run looks at them.
- `onboarding_safety`: three verification rows let two requests replace one link at
  the same time; two platform invitations and one group invitation let a link be
  replaced while its predecessor is presented; two reset rows exceed the daily cap
  of one (with three rows and a cap of two, where the cooldown decides too, the run
  also passes but takes close to five minutes).
- `lifecycle_safety`: one original and one copy of a group are what duplication
  relates; `MaxFresh` and `MaxEdits` are 1, beside any number of transitions.
- `scenarios_safety`: three scenarios and positions up to 3 let a reorder miss one
  created meanwhile; a limit of one tag makes the second key the refused one.
- `reviews_safety`: three reviews on one flag let a reviewer be unassigned and
  assigned again while another verdict stands; the users are the author, a reviewer
  whose role and account change, and a manager.
- `annotations_safety`: two deployments reword the catalogue and reword it back.
- `membership_safety`: two owners are what a sole-owner guard compares; three
  requests let two overlapping ones follow a third; two system and two custom roles let
  both roles of one account be retired at the same time.
- `registry_safety`: two checks give an old and a new task on one row, two sweeps
  two claims on one alert, two rows a name taken by another one.
  The rules relate three fields (vendor, id, switch); one vendor has web access on every
  model, one on a single model id, one on none, and two writes from a row that keeps the
  rules, or from one that breaks any of them, set and unset what a rule looks at.
  `Explored` keeps the run small: rows near the edges of the rules are written, not
  checked or swept, and beside checks and sweeps together there is one write. The verdict
  of a check does not look at the stamps of a sweep, nor the sweep at a verdict, and the
  theorems cover all of it at once.

`MaxTurns`, `MaxRetries`, `MaxTokens`, `MaxNow`, `MaxVersion`, `MaxPerDay`,
`MaxEdits`, `MaxFresh`, `MaxPosition`, `MaxRequired`, `MaxBulk`, `MaxDeploys`,
`MaxChecks` are the named bounds; `MaxRetries` and `MaxPerDay` are settings of the
code, the others only keep the instance finite.

Deadlock is checked in `messages`, `exports`, `tree_safety`, `sessions_safety` and
`onboarding_safety`. In the others the bounded edits and fresh row ids run out,
after which nobody has anything left to do; nothing in them waits for a lock
across steps in a cycle, since a blocked request may be aborted.

### Fairness

`MessageStream`: weak fairness of each handler's own steps (the event loop runs
every coroutine, and provider streams end by their timeouts) and of the reaper
(beat keeps ticking). Nothing is assumed of clients, and a handler may crash
instead of finishing. `ExportJobs`: weak fairness of time passing (`Age`,
`Lapse`) and of the reaper's selection, strong fairness of the reaper's file
deletion and commit: a tick may die or storage may fail, but not every time.
Workers, broker and clients owe nothing; the reaper alone makes jobs settle. The
other modules state safety only: their requests owe nobody a next step.

## 4. Proofs

The theorems hold for every value of the constants that satisfies the named
assumptions, in particular for any number of requests and rows. The smaller
components are proved about in the proof module of the part they belong to: `Reviews`,
`Workspace` and `Annotations` in `ConversationProofs`, `Scenarios` in
`GroupLifecycleProofs`. Such a component names its specification, requests and types
for itself (`ReviewsSpec`, `reviewReq`, `ReviewsTypeOK`) and shares only the
constants of `Callers`; its theorems are about its own specification alone.

`ConversationProofs`, messages (`ConstAssumption`). `IInv` adds to the types: a superseded
row is settled; a handler in Transaction A holds the conversation's lock; the
row that a regenerate or continue is about to supersede is still the one live
reply of the last turn; at most one reply per turn is live. Without the lock
part the two-streaming-rows case is not excluded one step ahead. It yields
`TypeCorrect`, `StreamingUnique`, `ReplaysHonest`, `TranscriptAppendOnly` and
`SubmitsIdempotent`. The refinement (`TranscriptImplemented`) maps a turn to its
prompt and to the reply that is live in it, a `CHOOSE`; it is determined because, beside
at most one, every turn has at least one live reply (`Answered`) and turns are counted
from one (`Numbered`), which is `EveryTurnAnswered`. A step of the handlers then is one
of four: it leaves the rows alone, settles one streaming row, opens a turn, or
supersedes the reply of the last turn; these map to a stutter, `Settle`, `Ask` and
`Reanswer`, and the sequence of exchanges is compared position by position.

`ConversationProofs`, reviews. `ReviewInv`: a request on one review holds it alone and
what it checked still stands (live or dead, and who may remove a verdict), and every
verdict that was removed was removed by its reviewer or a manager. The last is what
the deleted listing relies on, and the held check what keeps it through an
overlapping verdict and unassignment. It yields `RestoreListIsHonest`; `PickerIsExact`
and `QueueCountsAgree` need little more than the types, being equivalences of
definitions translated from SQL and from Python.

`ConversationProofs`, workspace (finitely many conversations; tasks and notes are
different rows). `WorkInv`: a row read `FOR UPDATE` is held by one request, whose snapshot
is what the row holds; a live completion names a conversation and a task and is the only
one of the two. `RollupIsExact` counts, in the state of the second select: the live
completions of a task in a group map one to one onto the conversations that list it, which
are a part of the group's, and these are a part of those the first select counted and
those that joined since. `SnapshotIsFresh` is the first half of the invariant.

`ConversationProofs`, annotations (curated and own labels are different rows; `Rank`
numbers them apart). `LabelInv`: the shipped wordings are distinct; short of an overlap the
collision check of a sync under way still holds and a label about to be created has a
wording nobody curated; an annotation carries a row its author may use, and live ones of
one author carry distinct rows. `PickIsType` needs that the lowest-ranked row of a
wording exists: `LeastNumber`, from the well-foundedness of `<` on the naturals, stated
with a set instead of an operator. It also yields `WordingCountsOnce`.

`SessionsProofs` (`TtlAssumption`: `SessionTtl <= RefreshTtl < AbsMax`; the code enforces
the second comparison only). `IInv`: the marker is the revocation stored last, or it
expired at least `AbsMax` after the instant that one carries, when every older token has
expired too; a pair carries the login instant it descends from; a request that has read
the clock for its revocation started no later than what it read, and one that has stored
it no later than `highest`, whoever stored after it. It yields `TypeCorrect`,
`RevocationLasts`, `RevokedNotExchanged`, `RevocationPrecedesSuccess`, `CeilingHolds` and
`AuthorityIsFresh`.

`OnboardingProofs` (`ConstAssumption`: the kinds of links are disjoint and are not
the literals used beside them). `IInv`: rows a request has locked are still
stored as pending and locked by nobody else; the link a request will issue is
its own and not inserted; an unclaimed account has neither password nor
verification row, and a request issuing a verification link has seen the account
past that state, to which it never returns. It yields `LinksSpentOnce`,
`InvitedStaysUnclaimed` and `AcceptsOnlyOnboard`. `JInv`, inductive given `IInv`,
is about the account row: `FOR UPDATE` on it excludes every other lock (`Exclusive`);
what a request measured under that lock still holds when it commits (`Relies`: the
reset window is open, the address was not revoked, no pending invitation has escaped
the revocation); what the account went through shows in its columns and links (`Past`:
an account that never had a password has no reset link, and while a revoked address
stays invited every one of its invitations is revoked); and `created_at` orders the
platform invitations linearly with one of the stored ones the newest (`Dates`). The
newest is part of the invariant because its existence in a finite order would be an
induction. The order is the relation `older` and no sequence: removing from a sequence
takes `SelectSeq` with an operator argument, which the provers cannot use.
`JInv` yields `TypeCorrect`, `IdpAccountsHaveNoPassword`, `ThrottleHolds` and
`RevocationStands`.

`ExportJobsProofs` (`ConstAssumption`). `IInv`: while a run holds its claim its row is
neither unborn nor pending, and ready only if this run made it so and has not heard;
a saved file under a running row is whole; only an ended row expires; only an ended or
removed row has announced, once and truthfully; whatever the reaper has selected has
lapsed. The first part is what keeps a second claim out: a claim succeeds on a pending
row only. It yields `TypeCorrect`, `OneWriterPerFile`, `OneAnnouncement` and
`DownloadsStay`.

`EvaluationTreeProofs` (`ConstAssumption`: finitely many conversations, so that they can
be counted, and a cap above zero; `RowAssumption`: rows of different tables are
different). `IInv`: a row lock has one exclusive holder and no sharers beside it
(`Exclusive`); a conversation is in a group that exists (`TablesOK`); and for each
endpoint what its request knows at each statement (`TxOK`): the rows it has locked,
that the group it is about to join is still below the cap, that the model it is about
to assign is live and in the subset, that it holds every assignment or subset row it
is about to remove. The cap is a cardinality: a commit adds at most one conversation to the one
group it holds, and takes none out of a group without making it smaller. It yields
`TypeCorrect`, `CapHolds`, `AssignmentsStayAllowed` and `PruneAloneStrands`.
`SerialInv`, inductive given `IInv`, says what holds until two requests overlap
(`~raced`): at most one is in progress (`Alone`); what it read still stands, the
assignments it holds are those it has to remove, the conversations it takes away are all
that its cascade covers, and the groups it is about to prune are exactly those it
empties (`Undisturbed`); and the tables are whole (`Whole`: the four statements the code's
comments make, and every live assignment names a live model). With it `SerialReadsHold`
unfolds the read routes over whole tables. Where requests overlap only the theorems of
`IInv` remain.

`GroupLifecycleProofs` (`ConstAssumption`). `IInv`: a transition holds its group alone
and the status it judged still stands; no group of the form names an organization that
a delete in progress has counted; a group that lets its evaluations inherit the
platform licence while invitation-only has chosen it. It yields `TypeCorrect`,
`OneVerdict`, `FormsNameLiveOrgs` and `InheritanceIsChosen`, the last for live evaluations.

`GroupLifecycleProofs`, scenarios (finitely many). `OrderInv`: one create or restore is
between its reads and its commit; live positions are distinct; and until an overtaken
reorder has missed a row (`straddled`), the position an appender holds is above every live
one, and a live row that a reorder did not see lies behind all it saw. The last part makes
the commit of a reorder safe: it renumbers the rows it saw from zero, their number is at
most the first position behind them (`DistinctCount`, an injection into an interval), so
they do not reach the others. `next_position` is a maximum, which exists by
`GreatestNumber`. It yields `ScenarioOrderKept`; `TagReadingsAgree` is an equivalence over
every set of keys.

`MembershipProofs` (`ConstAssumption`: finitely many users, a catalogue that contains the
system roles). `IInv` has three parts. *Catalogue*: the owner role stays live, active and
whole; a role row is locked by one request; a patch or delete past its checks still finds
the row it judged, and the one default it will clear. *Governance*: outside `late`, some
live user holds the owner role; a group that an account owns, and that the scan of its
deletion did not find, is in `late` (those it did find are checked for another owner when
it commits). *Accounts*: outside `overlapped`, every live account has a usable role, a
role being retired leaves each holder another one that is not being retired, and a request
rewriting the roles of an account is alone and leaves it a usable role. It yields
`TypeCorrect`, `DefaultsAlwaysResolve`, `RolesAreKept`, `GroupsStayGoverned` and
`GatesAgree`. The last needs from the invariant only what role rows look like (an
assignable role grants access); the rest is the equivalence of the SQL and the Python
definitions, unfolded.

`ModelRegistryProofs` (`RegistryAssumption`: a patch sets values that some declaration
could have; the alert threshold is positive). `IInv`: for every row, verdict, finding,
alert stamp and settings fit each other, and the rules it breaks are among those it
predates (`legacy`), which a patch takes the rules it touches off after checking them
(`PatchKeepsRules`); for every task that could still settle, its stamp differs from the
row's, or the row is marked `stale`, or the call it probed is the one the row describes;
stamps are fresh. Without the part about tasks a probe of an old endpoint could settle one
step ahead. It yields `TypeCorrect`, `EvidenceStaysCurrent`, `AlertsStayHonest` and
`OffersAreCallable`.

Attempts that failed for a reason in the model led to corrections.
`AccountsKeepARole` is false once an account holds two custom roles: two concurrent
retirements of different roles each see the other as the one that remains, a case
three roles were too few to reach; the code admits it (`roles.py:457-459`), and
`overlapped` now covers it. The verdict of a health check was written as a `CASE`
whose guards overlap, where TLA+ does not say which arm is taken; it is now the chain
of conditions of `run_health_check`. Positions of scenarios were typed by the bound of
the run; they are naturals now, which only a guard bounds, so that the theorems speak of
every position.

The theorems named `TypeCorrect`, and `ReplaysHonest`, `EveryTurnAnswered`,
`QueueCountsAgree` (`QueueAgrees`), `AuthorityIsFresh` and `AcceptsOnlyOnboard` need no run of their own: the proofs cover
every instance.

Only model-checked: the liveness properties `StreamingSettles` and `JobsRetire`.
Liveness under fairness is out of the prover's reach, and so is induction over data with
an operator as its parameter and anything through RECURSIVE operators (no module has
one).

## 5. Where the code and its documentation differ

The models contain the following behaviours, unless noted; the properties are
stated so that they say what does hold, and name the exception.

- *Messages.* A continue may read its target before the detached finalize
  lands; its guarded interrupt then matches nothing and the finished reply is
  superseded by one with an empty prefix (`messages.py:362`; the endpoint
  promises "the prior text plus the continuation", `api/v1/messages.py:416`).
- *Exports.* When the reply of the finalise commit is lost, the failure handler
  erases the file of a job that is ready (`tasks.py:309`), against "Poll ... until
  `ready`, then download it" (`api/v1/exports.py:179`); `ReadyFileKept` names this case.
  The row is committed before it is enqueued and hard-deleted if the broker refuses,
  so a replay answered in between holds the id of a vanished job
  (`api/v1/exports.py:251-265`). A worker that dies between `storage.save` and the
  finalise leaves a file no sweep will find, because `file_ref` is still null
  (`jobs.py:179`).
- *Conversation groups.* The prune of an emptied group decides from its snapshot and
  can strand a conversation that joined meanwhile (`groups.py:415`), against "so a live
  conversation never dangles under a dead group" (`groups.py:16-17`). Two concurrent
  deletes of a group's last two conversations leave an empty live group. A create
  that read its assignment before an unassign commits leaves a live conversation on
  a removed assignment.
- *Assignments.* Re-instating locks only the assignment: it may race the deletion
  of its model, and, without any race, it brings back an assignment whose model
  left the group's subset; `AssignedWithinSubset` excepts re-instated rows.
- *Sessions.* A login or refresh that read the account before a deactivation committed
  mints its pair afterwards, against "access stops immediately"
  (`api/v1/auth/users.py:539-540`; the revocation is at line 579, before the commit); the
  pair is refused at its next refresh. Replacing a role set revokes nothing:
  `FreshAuthority` speaks of new pairs. While Redis is down the middleware admits (fails
  open); the properties are conditioned on `redisUp`, except `NoExchangeOfRevoked`. A
  revocation reads the clock and then awaits an unconditional `SET`
  (`session_revocation.py:111`), so that of two overlapping ones the earlier second may be
  stored last and a token that the other one had revoked is admitted again, against "mark
  every session minted up to now as revoked" (lines 102-106). `SuccessMeansRevoked` names
  this overlap as its exception.
- *Onboarding.* Two administrative resets, or two re-invites, take no account lock
  and leave two live links (`invitations.py:17-23` names this gap). `verify_email`
  activates whatever the status, so a pending verification link re-activates an
  account that was activated another way and then deactivated
  (`registration.py:311`). The IdP activates from an unlocked read, over a
  deactivation or a revocation committed meanwhile. An activation may miss an
  invitation being issued unlocked, which then stays pending on an active account;
  `AcceptOnlyOnboards` shows it cannot be used.
- *Membership.* A user appointed owner after `delete_user` scanned for the groups it
  owns alone may be deleted as the last owner once the former one leaves
  (`core/auth/object_roles/service.py:322-393`; `late`). Two overlapping role edits, or one
  beside the deactivation or deletion of a role, can leave an account without an
  active role, and so can the concurrent retirement of two
  roles that it holds (`roles.py:457-459` admits skew across roles; `overlapped`). Not
  claimed: an unprivileged delete of a user who is granted admin meanwhile, a role
  made unassignable while it is being granted, a member stranded by the restore of
  the account.
- *Group life cycle.* `_validate_group_org` says a group "never carries a dangling or
  tombstoned reference" (`evaluation_groups.py:153-154`); drafts and copies do, so
  `FormOrgLive` speaks of groups made by the form. `create_evaluation` reads the
  group's status unlocked; completeness is checked while content is edited
  (`publication.py:96`), so an incomplete group can be pending. A PATCH may null the
  description or start date of a submitted group, against
  `evaluation_groups.py:295-296`. No endpoint moves an evaluation's own approval
  status. The listing of deleted evaluations shows each under the platform licence
  (`evaluations.py:471-484`), also where private data was never put there;
  `NoSilentInheritance` speaks of live evaluations.
- *Scenarios.* A reorder overtaken by another reorder or a restore while it waits, with a
  scenario created meanwhile, duplicates positions, although `reorder_scenarios` says
  "concurrent reorders serialize" (`straddled`). Deletes leave gaps, against "keeps dense"
  (`core/evaluations/models.py:344`). Racing requests overshoot the ceiling on tag keys,
  as the code documents.
- *Reviews.* A flag's status never leaves pending. The queue's SQL page and its Python
  counts are two snapshots (one here). Assignment does not ask whether the
  conversation is live. The deleted listing ignores pool membership.
- *Check-offs.* The roll-up is two selects that do not share a snapshot
  (`task_completions.py:197` and `206-213`): when a conversation joins the group between
  them the K of a task may exceed the N beside it. `RollupExact` bounds the excess by the
  conversations that joined.
- *Annotations.* `AnnotationLabel` says "a spelling is one row wherever the catalog
  holds it"; a sync that overlaps the creation of a label leaves two (`overlapped`).
- *Model registry.* `_autocheck` stamps the row after the request's commit; the
  session keeps loaded values (`expire_on_commit=False`, `core/database.py:85`) and
  writes only changed columns, so on a row loaded as `checking`, whose older task
  settled meanwhile, the old verdict stays under the new stamp, against "Mark `model`
  as a check in flight" (`health.py:50`; `stale`). A task that reads the row before
  the stamp commits leaves the row `checking` until the task's time limit has
  passed. A bulk key change starts no check. The registry offers rows that predate a rule
  and that dispatch refuses, as `ai_models.py:118-121` admits; `OfferedIsCallable` excepts a
  row from a rule until a patch first sets one of the rule's fields.

## 6. Not modelled

- Left out of modelled components: the own password change, identity rows and
  consent; profile fields; bulk endpoints other than those of reviews and of the
  model registry (a bulk row is one request of the model); titles, texts, dates
  beyond being set, covers, display orders; the content of flags, the workload count
  of reviewers; warm-up, labels, reasons and mails of the model registry, and
  credentials that do not decrypt; the per-deleter filter of the deleted
  conversations; restore windows as time (a row past its window is one nobody
  restores); Redis losing data; clocks that run backwards.
- Not modelled at all: the e-mail outbox (one task claims its rows, nobody else reads
  them); notifications (rows written in the transactions of others); media and
  storage backends beyond save and delete; cryptography; analytics and file layout
  (read-only); terms, licenses, saved views, settings, audit (single-row edits and
  append-only records); the frontend, whose retries are the repeated requests of
  the models.

## 7. Plan

1. `Outbox`: mail claim, send and retry, at least once; composed with the
   transactions that enqueue.
2. Media: order of row and blob deletion; re-wrap of encrypted rows against a
   finalize, in `MessageStream`.
3. Soft deletion of accounts in `Onboarding`, shared with `Membership` through the
   users row.
