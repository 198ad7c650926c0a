--------------------------- MODULE MessageStream ---------------------------
(***************************************************************************)
(* The conversation write path: POST .../messages, .../regenerate and      *)
(* .../continue, the detached finalize that ends a streamed reply, and the *)
(* periodic reaper of orphaned placeholders.                               *)
(*                                                                         *)
(* A request holds the conversation row lock through Transaction A (it     *)
(* opens a turn, or supersedes a reply, and commits), releases it, streams *)
(* the provider's chunks, and settles its placeholder in Transaction B on  *)
(* a fresh connection that does not take the lock.  Every gap between two  *)
(* statements in which another transaction can commit is a step boundary   *)
(* here.  Text is the set of replies whose generated output it contains.   *)
(***************************************************************************)
EXTENDS Naturals, Sequences, FiniteSets, Calls

CONSTANTS
    Conversations,        \* conversation rows
    Keys,                 \* client_message_id values
    NoKey,                \* a submit without client_message_id
    Replies,              \* identities of assistant message rows
    MaxTurns,             \* bound: turns opened per conversation
    TtlCoversGeneration   \* streaming_reap_ttl_seconds exceeds every generation

ASSUME ConstAssumption ==
    /\ MaxTurns \in Nat
    /\ TtlCoversGeneration \in BOOLEAN
    /\ NoKey \notin Keys
    /\ None \notin Conversations \cup Replies \cup Requests

VARIABLES
    prompts,    \* prompts[c]: the user messages' keys, one per turn, in turn_index order
    status,     \* messages.status of each assistant row ("none": not inserted)
    turnOf,     \* messages.turn_id: <<conversation, turn_index>>
    replaces,   \* messages.replaces_message_id
    text,       \* messages.content
    lock,       \* FOR UPDATE holder of each conversation row
    req         \* local state of each request handler

rows == <<prompts, status, turnOf, replaces, text>>
vars == <<prompts, status, turnOf, replaces, text, lock, req>>

Terminal == {"complete", "error", "interrupted"}
Statuses == {"none", "streaming"} \cup Terminal
Turns    == Conversations \X Nat

Idle == [pc |-> "idle", conv |-> None, key |-> NoKey, target |-> None, seen |-> "none",
         continue |-> FALSE, buf |-> {}, reply |-> None, ends |-> "none"]

RequestState ==
    [pc     : {"idle", "checking", "inserting", "replaying", "answering",
               "superseding", "opened", "streaming", "settling"},
     conv   : Conversations \cup {None},
     key    : Keys \cup {NoKey},
     target : Replies \cup {None},     \* the row regenerate/continue supersedes, or a replay found
     seen   : Statuses,                \* its status as read in Transaction A
     continue : BOOLEAN,               \* continue_message, not regenerate
     buf    : SUBSET Replies,          \* prefix, then persist_stream's buffer
     reply  : Replies \cup {None},     \* the placeholder, or the replayed reply
     ends   : Statuses \cup {"replayed"}]  \* how the stream or the replay ended

-----------------------------------------------------------------------------
(* Reading rows                                                             *)

Inserted(r) == status[r] # "none"

\* A message is live when no other row points at it (replaces_message_id).
Live(r) == Inserted(r) /\ \A s \in Replies : replaces[s] # r

LastTurn(c) == <<c, Len(prompts[c])>>

\* Some user message of conversation c carries client_message_id k.
KeyIn(c, k) == k # NoKey /\ \E i \in 1..Len(prompts[c]) : prompts[c][i] = k

\* ix_messages_client_message_id spans all conversations.
KeyUsed(k) == \E c \in Conversations : KeyIn(c, k)

-----------------------------------------------------------------------------
(* Writing rows                                                             *)

\* Variant: the guard on 'streaming' is lost.
FinalizeMessageUnguarded(r, content, st) ==
    /\ status' = [status EXCEPT ![r] = st]
    /\ text' = [text EXCEPT ![r] = content]

\* finalize_message: UPDATE ... WHERE id = r AND status = 'streaming'.
FinalizeMessage(r, content, st) ==
    IF status[r] = "streaming"
    THEN /\ status' = [status EXCEPT ![r] = st]
         /\ text' = [text EXCEPT ![r] = content]
    ELSE UNCHANGED <<status, text>>

Goto(q, where) == req' = [req EXCEPT ![q].pc = where]

Finish(q) == req' = [req EXCEPT ![q] = Idle]

\* Transaction A has committed: what is left of the request is its placeholder
\* and, for a continue, the prefix it goes on from.
Opened(q, r) ==
    req' = [req EXCEPT ![q] = [Idle EXCEPT !.pc = "opened", !.reply = r, !.buf = req[q].buf]]

Unlock(q) == lock' = [c \in Conversations |-> IF lock[c] = q THEN None ELSE lock[c]]

-----------------------------------------------------------------------------
Init ==
    /\ prompts = [c \in Conversations |-> <<>>]
    /\ status = [r \in Replies |-> "none"]
    /\ turnOf = [r \in Replies |-> None]
    /\ replaces = [r \in Replies |-> None]
    /\ text = [r \in Replies |-> {}]
    /\ lock = [c \in Conversations |-> None]
    /\ req = [q \in Requests |-> Idle]

\* send_message: get_conversation(for_update=True), attachments validated.
SendLock(q, c, k) ==
    /\ req[q].pc = "idle"
    /\ lock[c] = None
    /\ lock' = [lock EXCEPT ![c] = q]
    /\ req' = [req EXCEPT ![q] = [Idle EXCEPT !.pc = "checking", !.conv = c, !.key = k]]
    /\ UNCHANGED rows

\* Row r is the live reply of the turn that carries the request's key.
ReplyOf(q, r) ==
    LET c == req[q].conv IN
    /\ Live(r)
    /\ \E i \in 1..Len(prompts[c]) : turnOf[r] = <<c, i>> /\ prompts[c][i] = req[q].key

\* open_turn -> _replay finds the key in this conversation and reads the turn's
\* messages: nothing is written, the commit releases the lock and the stored
\* turn is replayed.
SendReplay(q, r) ==
    /\ req[q].pc = "checking"
    /\ KeyIn(req[q].conv, req[q].key)
    /\ ReplyOf(q, r)
    /\ Unlock(q)
    /\ req' = [req EXCEPT ![q].pc = "replaying", ![q].target = r, ![q].seen = status[r]]
    /\ UNCHANGED rows

\* _replay finds the key in another conversation: 409, rolled back.
SendConflict(q) ==
    /\ req[q].pc = "checking"
    /\ KeyUsed(req[q].key)
    /\ ~KeyIn(req[q].conv, req[q].key)
    /\ Unlock(q)
    /\ Finish(q)
    /\ UNCHANGED rows

\* _replay finds nothing (or there is no key): on to the inserts.
SendFirstSeen(q) ==
    /\ req[q].pc = "checking"
    /\ ~KeyUsed(req[q].key)
    /\ Goto(q, "inserting")
    /\ UNCHANGED <<rows, lock>>

\* Variant: no unique index behind the replay check.
SendOpenTurnNoIndex(q, r) ==
    LET c == req[q].conv IN
    /\ req[q].pc = "inserting"
    /\ Len(prompts[c]) < MaxTurns
    /\ ~Inserted(r)
    /\ prompts' = [prompts EXCEPT ![c] = Append(@, req[q].key)]
    /\ status' = [status EXCEPT ![r] = "streaming"]
    /\ turnOf' = [turnOf EXCEPT ![r] = <<c, Len(prompts[c]) + 1>>]
    /\ UNCHANGED <<replaces, text>>
    /\ Unlock(q)
    /\ Opened(q, r)

\* open_turn inserts turn, user message and streaming placeholder, and
\* Transaction A commits.  The partial-unique key index is checked by the
\* insert itself, so a key committed meanwhile elsewhere refuses the row.
SendOpenTurn(q, r) ==
    LET c == req[q].conv IN
    /\ req[q].pc = "inserting"
    /\ ~KeyUsed(req[q].key)
    /\ Len(prompts[c]) < MaxTurns
    /\ ~Inserted(r)
    /\ prompts' = [prompts EXCEPT ![c] = Append(@, req[q].key)]
    /\ status' = [status EXCEPT ![r] = "streaming"]
    /\ turnOf' = [turnOf EXCEPT ![r] = <<c, Len(prompts[c]) + 1>>]
    /\ UNCHANGED <<replaces, text>>
    /\ Unlock(q)
    /\ Opened(q, r)

\* The insert loses the key race (IntegrityError -> 409), or the request's
\* tags are refused (assert_tags_allowed): the transaction rolls back.
SendRefused(q) ==
    /\ req[q].pc = "inserting"
    /\ Unlock(q)
    /\ Finish(q)
    /\ UNCHANGED rows

\* How _replay_events ends the replay of a row with status st: an error event
\* for an error, done "replayed" for a success, done with the status otherwise.
ReplayFinish(st) == IF st = "complete" THEN "replayed" ELSE st

\* live_turn_messages is read again after the commit, without the lock, and
\* the reply found there is re-streamed with its stored outcome: as first read
\* if it is the row found then (the session holds that object and does not
\* refresh it), as it is now if a regenerate or continue superseded that row.
ReplayRead(q, r) ==
    /\ req[q].pc = "replaying"
    /\ ReplyOf(q, r)
    /\ LET read == IF r = req[q].target THEN req[q].seen ELSE status[r] IN
          req' = [req EXCEPT ![q] = [Idle EXCEPT !.pc = "answering", !.reply = r,
                                                 !.ends = ReplayFinish(read)]]
    /\ UNCHANGED <<rows, lock>>

ReplayDone(q) ==
    /\ req[q].pc = "answering"
    /\ Finish(q)
    /\ UNCHANGED <<rows, lock>>

-----------------------------------------------------------------------------
\* regenerate_message / continue_message take the lock and read the target:
\* an assistant row of the last turn that nothing supersedes yet.  What was
\* read (status, content) is what the rest of the handler uses.
SupersedeRead(q, r, continue) ==
    LET c == turnOf[r][1] IN
    /\ req[q].pc = "idle"
    /\ Live(r)
    /\ lock[c] = None
    /\ turnOf[r] = LastTurn(c)
    /\ lock' = [lock EXCEPT ![c] = q]
    /\ req' = [req EXCEPT ![q] = [Idle EXCEPT !.pc = "superseding", !.conv = c,
                                   !.target = r, !.seen = status[r],
                                   !.continue = continue,
                                   !.buf = IF continue THEN text[r] ELSE {}]]
    /\ UNCHANGED rows

\* Variant: a streaming target is left streaming.
SupersedeCommitLeavesStreaming(q, r) ==
    /\ req[q].pc = "superseding"
    /\ ~Inserted(r)
    /\ status' = [status EXCEPT ![r] = "streaming"]
    /\ turnOf' = [turnOf EXCEPT ![r] = turnOf[req[q].target]]
    /\ replaces' = [replaces EXCEPT ![r] = req[q].target]
    /\ UNCHANGED <<prompts, text>>
    /\ Unlock(q)
    /\ Opened(q, r)

\* open_replacement's writes and the commit of Transaction A.  A target read
\* as streaming is first interrupted, guarded by its current status.
SupersedeCommit(q, r) ==
    LET p == req[q].target IN
    /\ req[q].pc = "superseding"
    /\ ~Inserted(r)
    /\ status' = [status EXCEPT ![p] = IF req[q].seen = "streaming" /\ @ = "streaming"
                                       THEN "interrupted" ELSE @,
                                ![r] = "streaming"]
    /\ turnOf' = [turnOf EXCEPT ![r] = turnOf[p]]
    /\ replaces' = [replaces EXCEPT ![r] = p]
    /\ UNCHANGED <<prompts, text>>
    /\ Unlock(q)
    /\ Opened(q, r)

-----------------------------------------------------------------------------
\* _stream_into fails before the stream starts (model resolution, tagging
\* policy, unsealing, provider open): _settle_streaming_error.
SettleStreamingError(q) ==
    /\ req[q].pc = "opened"
    /\ FinalizeMessage(req[q].reply, {}, "error")
    /\ Finish(q)
    /\ UNCHANGED <<prompts, turnOf, replaces, lock>>

\* dispatch_stream opened the provider stream; the connection is released.
StartStream(q) ==
    /\ req[q].pc = "opened"
    /\ Goto(q, "streaming")
    /\ UNCHANGED <<rows, lock>>

\* persist_stream: a delta event joins the buffer.
StreamDelta(q) ==
    /\ req[q].pc = "streaming"
    /\ req[q].reply \notin req[q].buf
    /\ req' = [req EXCEPT ![q].buf = @ \cup {req[q].reply}]
    /\ UNCHANGED <<rows, lock>>

\* persist_stream: done, provider error, or cut by the client.
StreamEnd(q, st) ==
    /\ req[q].pc = "streaming"
    /\ req' = [req EXCEPT ![q].pc = "settling", ![q].ends = st]
    /\ UNCHANGED <<rows, lock>>

\* _finalize: the detached Transaction B.
Finalize(q) ==
    /\ req[q].pc = "settling"
    /\ FinalizeMessage(req[q].reply, req[q].buf, req[q].ends)
    /\ Finish(q)
    /\ UNCHANGED <<prompts, turnOf, replaces, lock>>

\* Transaction B fails (swallowed), or the process dies: an open transaction
\* rolls back, its lock is released, a committed placeholder is stranded.
Crash(q) ==
    /\ req[q].pc # "idle"
    /\ Unlock(q)
    /\ Finish(q)
    /\ UNCHANGED rows

\* A handler still has to settle r.
InFlight(r) ==
    \E q \in Requests :
        req[q].pc \in {"opened", "streaming", "settling"} /\ req[q].reply = r

\* Variants: the age test inverted; the status guard dropped from the sweep.
ReapOnlyYoung(r) ==
    /\ status[r] = "streaming"
    /\ InFlight(r)
    /\ status' = [status EXCEPT ![r] = "interrupted"]
    /\ UNCHANGED <<prompts, turnOf, replaces, text, lock, req>>

ReapAnyStatus(r) ==
    /\ Inserted(r)
    /\ TtlCoversGeneration => ~InFlight(r)
    /\ status' = [status EXCEPT ![r] = "interrupted"]
    /\ UNCHANGED <<prompts, turnOf, replaces, text, lock, req>>

\* reap_orphaned_streaming_messages for one row older than the TTL; the
\* content stays what it was.
Reap(r) ==
    /\ status[r] = "streaming"
    /\ TtlCoversGeneration => ~InFlight(r)
    /\ status' = [status EXCEPT ![r] = "interrupted"]
    /\ UNCHANGED <<prompts, turnOf, replaces, text, lock, req>>

-----------------------------------------------------------------------------
SendSteps(q) ==
    \/ SendConflict(q) \/ SendFirstSeen(q) \/ SendRefused(q)
    \/ ReplayDone(q)
    \/ \E r \in Replies : SendReplay(q, r) \/ SendOpenTurn(q, r) \/ ReplayRead(q, r)

StreamSteps(q) ==
    \/ SettleStreamingError(q) \/ StartStream(q) \/ StreamDelta(q) \/ Finalize(q)
    \/ \E st \in Terminal : StreamEnd(q, st)

Next ==
    \/ \E q \in Requests :
        \/ \E c \in Conversations, k \in Keys \cup {NoKey} : SendLock(q, c, k)
        \/ SendSteps(q)
        \/ \E r \in Replies, continue \in BOOLEAN : SupersedeRead(q, r, continue)
        \/ \E r \in Replies : SupersedeCommit(q, r)
        \/ StreamSteps(q)
        \/ Crash(q)
    \/ \E r \in Replies : Reap(r)

Spec == Init /\ [][Next]_vars

\* The API's event loop runs every handler on, a provider stream ends (the
\* providers' timeouts), and beat keeps ticking the reaper; clients owe nothing.
Fairness ==
    /\ \A q \in Requests :
        /\ WF_vars(SendSteps(q))
        /\ WF_vars(\E r \in Replies : SupersedeCommit(q, r))
        /\ WF_vars(StreamSteps(q))
    /\ \A r \in Replies : WF_vars(Reap(r))

FairSpec == Spec /\ Fairness

-----------------------------------------------------------------------------
TypeOK ==
    /\ prompts \in [Conversations -> Seq(Keys \cup {NoKey})]
    /\ status \in [Replies -> Statuses]
    /\ turnOf \in [Replies -> Turns \cup {None}]
    /\ replaces \in [Replies -> Replies \cup {None}]
    /\ text \in [Replies -> SUBSET Replies]
    /\ lock \in [Conversations -> Requests \cup {None}]
    /\ req \in [Requests -> RequestState]

\* A turn never holds two streaming rows, however regenerate/continue race
\* the finalize of the reply they supersede (open_replacement's claim).
OneStreamingPerTurn ==
    \A r, s \in Replies :
        status[r] = "streaming" /\ status[s] = "streaming" /\ turnOf[r] = turnOf[s]
            => r = s

\* A client_message_id is stored once, in one conversation, whatever retries
\* and double submits race (so no prompt is answered twice).
IdempotentSubmit ==
    \A c, d \in Conversations :
        \A i \in 1..Len(prompts[c]), j \in 1..Len(prompts[d]) :
            prompts[c][i] = prompts[d][j] /\ prompts[c][i] # NoKey => c = d /\ i = j

\* A replay that ends like a success answers with a reply that is complete,
\* never with a failed, cut or still generating one, though what it answers with
\* was read before the reply could settle or be superseded (_replay_events).
ReplayHonest ==
    \A q \in Requests :
        req[q].pc = "answering" /\ req[q].ends = "replayed"
            => status[req[q].reply] = "complete"

\* The transcript is append-only: a settled row keeps status and content, and
\* no row ever changes its turn or the row it supersedes.
AppendOnly ==
    [][\A r \in Replies :
        /\ status[r] \in Terminal => status'[r] = status[r] /\ text'[r] = text[r]
        /\ Inserted(r) => turnOf'[r] = turnOf[r] /\ replaces'[r] = replaces[r]]_vars

\* Every placeholder is settled in the end: by its handler or by the reaper.
StreamingSettles ==
    \A r \in Replies : status[r] = "streaming" ~> status[r] \in Terminal

-----------------------------------------------------------------------------
\* The exchanges a reader of the rows sees: each turn's key and live reply.
CurrentReply(c, i) == CHOOSE r \in Replies : Live(r) /\ turnOf[r] = <<c, i>>

Exchanges ==
    [c \in Conversations |->
        [i \in 1..Len(prompts[c]) |->
            [key |-> prompts[c][i], reply |-> CurrentReply(c, i)]]]

T == INSTANCE Transcript
        WITH exchanges <- Exchanges, outcome <- status, content <- text

\* The handlers, their crashes and the reaper together implement Transcript.
ImplementsTranscript == T!TSpec
=============================================================================
