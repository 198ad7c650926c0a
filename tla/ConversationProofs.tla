------------------------- MODULE ConversationProofs -------------------------
(***************************************************************************)
(* Theorems about what is written in a conversation and around it, for any *)
(* numbers of rows, users and requests.  First MessageStream: its          *)
(* inductive invariant IInv says what the row lock buys: between the read  *)
(* and the commit of Transaction A the row that a regenerate or continue   *)
(* is about to supersede stays the one live reply of the last turn, and a  *)
(* superseded row is settled; with it the rows implement Transcript.       *)
(* Then the components around it, each with an invariant of its own:       *)
(* Reviews, Workspace and Annotations.                                     *)
(***************************************************************************)
EXTENDS MessageStream, Reviews, Workspace, Annotations,
        SequenceTheorems, FiniteSetTheorems, WellFoundedInduction, TLAPS

-----------------------------------------------------------------------------
(* The inductive invariant                                                  *)

\* An inserted row lies in an existing turn; a superseded row is settled, and
\* only an inserted row supersedes.
RowOK(r) ==
    /\ Inserted(r) => /\ turnOf[r] \in Turns
                      /\ turnOf[r][2] <= Len(prompts[turnOf[r][1]])
    /\ replaces[r] # None => Inserted(r) /\ status[replaces[r]] \in Terminal

\* What a handler knows: it holds the lock through Transaction A, its target
\* is still the live reply of the last turn, its placeholder is inserted.
HandlerOK(q) ==
    /\ req[q].pc \in {"checking", "inserting", "superseding"}
        => req[q].conv \in Conversations /\ lock[req[q].conv] = q
    /\ req[q].pc = "superseding"
        => /\ req[q].target \in Replies /\ Live(req[q].target)
           /\ turnOf[req[q].target] = LastTurn(req[q].conv)
           /\ req[q].seen = "streaming" \/ status[req[q].target] \in Terminal
    /\ req[q].pc \in {"opened", "streaming", "settling"}
        => req[q].reply \in Replies /\ Inserted(req[q].reply)
    /\ req[q].pc = "settling" => req[q].ends \in Terminal
    /\ req[q].pc = "replaying"
        => req[q].target \in Replies /\ (req[q].seen = "complete" => status[req[q].target] = "complete")
    /\ req[q].pc = "answering" /\ req[q].ends = "replayed"
        => req[q].reply \in Replies /\ status[req[q].reply] = "complete"

AtMostOneLive ==
    \A r, s \in Replies : Live(r) /\ Live(s) /\ turnOf[r] = turnOf[s] => r = s

IInv ==
    /\ TypeOK
    /\ \A r \in Replies : RowOK(r)
    /\ \A q \in Requests : HandlerOK(q)
    /\ AtMostOneLive

\* A row only ever goes from streaming to a terminal status.
Settles(r) ==
    \/ status'[r] = status[r]
    \/ status[r] = "streaming" /\ status'[r] \in Terminal

-----------------------------------------------------------------------------
(* Steps that open no row and no turn: handlers move, rows only settle.     *)

LEMMA FinalizeSettles ==
    ASSUME TypeOK, NEW r \in Replies, NEW st \in Terminal, NEW content \in SUBSET Replies,
           FinalizeMessage(r, content, st)
    PROVE  /\ status' \in [Replies -> Statuses]
           /\ text' \in [Replies -> SUBSET Replies]
           /\ \A s \in Replies : Settles(s)
BY DEF TypeOK, FinalizeMessage, Settles, Statuses, Terminal

\* Rows that only settle keep the row facts and stay live or superseded.
LEMMA RowsFrame ==
    ASSUME IInv, UNCHANGED <<prompts, turnOf, replaces>>,
           status' \in [Replies -> Statuses], \A r \in Replies : Settles(r)
    PROVE  /\ \A r \in Replies : RowOK(r)'
           /\ \A r \in Replies : Live(r)' <=> Live(r)
           /\ AtMostOneLive'
<1>1. \A r \in Replies : Inserted(r)' <=> Inserted(r)
  BY DEF Settles, Inserted, Statuses, Terminal
<1>2. \A r \in Replies : Live(r)' <=> Live(r)
  BY <1>1 DEF Live
<1>3. AtMostOneLive'
  BY <1>2 DEF IInv, AtMostOneLive
<1>4. ASSUME NEW r \in Replies PROVE RowOK(r)'
  <2>1. replaces[r] \in Replies \cup {None}
    BY DEF IInv, TypeOK
  <2>2. RowOK(r)
    BY DEF IInv
  <2> QED BY <1>1, <2>1, <2>2 DEF RowOK, Settles, Terminal, Turns
<1> QED BY <1>2, <1>3, <1>4

\* A handler that does not move keeps what it knows while rows only settle,
\* as long as nobody takes its lock.
LEMMA HandlerFrame ==
    ASSUME IInv, UNCHANGED <<prompts, turnOf, replaces>>,
           status' \in [Replies -> Statuses], \A r \in Replies : Settles(r),
           NEW q \in Requests, req'[q] = req[q],
           lock[req[q].conv] = q => lock'[req[q].conv] = q
    PROVE  HandlerOK(q)'
<1>1. HandlerOK(q)
  BY DEF IInv
<1>2. \A r \in Replies : Inserted(r)' <=> Inserted(r)
  BY DEF Settles, Inserted, Statuses, Terminal
<1>3. \A r \in Replies : Live(r)' <=> Live(r)
  BY <1>2 DEF Live
<1>4. LastTurn(req[q].conv)' = LastTurn(req[q].conv)
  BY DEF LastTurn
<1>5. \A r \in Replies : status[r] \in Terminal => status'[r] = status[r]
  BY DEF Settles, Terminal
<1> QED BY <1>1, <1>2, <1>3, <1>4, <1>5 DEF HandlerOK, Terminal

\* A step of handler q that opens nothing preserves the invariant if q itself
\* ends well typed and knowing what its new place requires.
LEMMA QuietStep ==
    ASSUME IInv, NEW q \in Requests, NEW s,
           UNCHANGED <<prompts, turnOf, replaces>>,
           status' \in [Replies -> Statuses], text' \in [Replies -> SUBSET Replies],
           \A r \in Replies : Settles(r),
           req' = [req EXCEPT ![q] = s], s \in RequestState,
           lock' \in [Conversations -> Requests \cup {None}],
           \A c \in Conversations : lock[c] \in Requests \ {q} => lock'[c] = lock[c],
           HandlerOK(q)'
    PROVE  IInv'
<1>1. TypeOK'
  BY DEF IInv, TypeOK
<1>2. (\A r \in Replies : RowOK(r)') /\ AtMostOneLive'
  BY RowsFrame
<1>3. ASSUME NEW p \in Requests, p # q PROVE HandlerOK(p)'
  <2>1. req'[p] = req[p]
    BY <1>3 DEF IInv, TypeOK
  <2>2. CASE req[p].pc \in {"checking", "inserting", "superseding"}
    <3>1. lock[req[p].conv] = p /\ req[p].conv \in Conversations
      BY <2>2 DEF IInv, HandlerOK
    <3> QED BY <1>3, <2>1, <3>1, HandlerFrame
  <2>3. CASE req[p].pc \notin {"checking", "inserting", "superseding"}
    <3>1. HandlerOK(p)
      BY DEF IInv
    <3>2. \A r \in Replies : Inserted(r)' <=> Inserted(r)
      BY DEF Settles, Inserted, Statuses, Terminal
    <3>3. \A r \in Replies : status[r] \in Terminal => status'[r] = status[r]
      BY DEF Settles, Terminal
    <3> QED BY <2>1, <2>3, <3>1, <3>2, <3>3 DEF HandlerOK, Terminal
  <2> QED BY <2>2, <2>3
<1> QED BY <1>1, <1>2, <1>3 DEF IInv

-----------------------------------------------------------------------------
(* One lemma per group of actions                                           *)

LEMMA IdleTyped == Idle \in RequestState
BY ConstAssumption DEF Idle, RequestState, Statuses, Terminal

LEMMA UnlockTyped ==
    ASSUME TypeOK, NEW q \in Requests, Unlock(q)
    PROVE  /\ lock' \in [Conversations -> Requests \cup {None}]
           /\ \A c \in Conversations : lock[c] \in Requests \ {q} => lock'[c] = lock[c]
BY DEF TypeOK, Unlock

\* A handler that returns to idle without opening anything.
LEMMA FinishStep ==
    ASSUME IInv, NEW q \in Requests, Finish(q),
           UNCHANGED <<prompts, turnOf, replaces>>,
           status' \in [Replies -> Statuses], text' \in [Replies -> SUBSET Replies],
           \A r \in Replies : Settles(r),
           Unlock(q) \/ UNCHANGED lock
    PROVE  IInv'
<1>1. lock' \in [Conversations -> Requests \cup {None}]
      /\ \A c \in Conversations : lock[c] \in Requests \ {q} => lock'[c] = lock[c]
  BY UnlockTyped DEF IInv, TypeOK
<1>2. req' = [req EXCEPT ![q] = Idle]
  BY DEF Finish
<1>3. HandlerOK(q)'
  BY <1>2 DEF HandlerOK, Idle, IInv, TypeOK
<1> QED BY <1>1, <1>2, <1>3, IdleTyped, QuietStep

LEMMA NoRowChanges ==
    ASSUME TypeOK, UNCHANGED rows
    PROVE  /\ UNCHANGED <<prompts, turnOf, replaces>>
           /\ status' \in [Replies -> Statuses] /\ text' \in [Replies -> SUBSET Replies]
           /\ \A r \in Replies : Settles(r)
BY DEF TypeOK, rows, Settles

LEMMA SendLockStep ==
    ASSUME IInv, NEW q \in Requests, NEW c \in Conversations, NEW k \in Keys \cup {NoKey},
           SendLock(q, c, k)
    PROVE  IInv'
<1> DEFINE s == [Idle EXCEPT !.pc = "checking", !.conv = c, !.key = k]
<1>1. s \in RequestState
  BY IdleTyped DEF RequestState
<1>2. req' = [req EXCEPT ![q] = s] /\ UNCHANGED rows
  BY DEF SendLock
<1>3. /\ lock' \in [Conversations -> Requests \cup {None}]
      /\ lock'[c] = q
      /\ \A d \in Conversations : lock[d] \in Requests \ {q} => lock'[d] = lock[d]
  BY ConstAssumption DEF SendLock, IInv, TypeOK
<1>4. HandlerOK(q)'
  <2>1. req'[q] = s
    BY <1>2 DEF IInv, TypeOK
  <2>2. s.pc = "checking" /\ s.conv = c
    BY DEF Idle
  <2> HIDE DEF s
  <2> QED BY <1>3, <2>1, <2>2 DEF HandlerOK
<1> HIDE DEF s
<1> QED BY <1>1, <1>2, <1>3, <1>4, NoRowChanges, QuietStep DEF IInv

\* Steps of a send that open no turn.
LEMMA SendQuietStep ==
    ASSUME IInv, NEW q \in Requests,
           \/ SendConflict(q) \/ SendFirstSeen(q) \/ SendRefused(q) \/ ReplayDone(q)
           \/ \E r \in Replies : SendReplay(q, r) \/ ReplayRead(q, r)
    PROVE  IInv'
<1> USE DEF IInv
<1>1. ASSUME NEW r \in Replies, SendReplay(q, r) PROVE IInv'
  <2> DEFINE s == [req[q] EXCEPT !.pc = "replaying", !.target = r, !.seen = status[r]]
  <2>0. status[r] \in Statuses
    BY DEF TypeOK
  <2>1. s \in RequestState
    BY <2>0, ZenonT(60) DEF TypeOK, RequestState
  <2>2. req' = [req EXCEPT ![q] = s] /\ UNCHANGED rows /\ Unlock(q)
    BY <1>1, ZenonT(60) DEF SendReplay
  <2>3. req'[q].pc = "replaying" /\ req'[q].target = r /\ req'[q].seen = status[r]
    BY <2>2 DEF TypeOK, RequestState
  <2>4. HandlerOK(q)'
    BY <2>2, <2>3 DEF HandlerOK, rows
  <2> HIDE DEF s
  <2> QED BY <2>1, <2>2, <2>4, NoRowChanges, UnlockTyped, QuietStep
<1>2. CASE SendConflict(q)
  BY <1>2, NoRowChanges, FinishStep DEF SendConflict
<1>3. CASE SendFirstSeen(q)
  <2> DEFINE s == [req[q] EXCEPT !.pc = "inserting"]
  <2>1. s \in RequestState
    BY ZenonT(60) DEF TypeOK, RequestState
  <2>2. req' = [req EXCEPT ![q] = s] /\ UNCHANGED rows /\ lock' = lock
    BY <1>3 DEF SendFirstSeen, Goto
  <2>3. req'[q].pc = "inserting" /\ req'[q].conv = req[q].conv
    BY <2>2 DEF TypeOK, RequestState
  <2>4. HandlerOK(q)'
    BY <1>3, <2>2, <2>3 DEF HandlerOK, SendFirstSeen
  <2> HIDE DEF s
  <2>5. lock' \in [Conversations -> Requests \cup {None}]
    BY <2>2 DEF TypeOK
  <2> QED BY <2>1, <2>2, <2>4, <2>5, NoRowChanges, QuietStep
<1>4. CASE SendRefused(q)
  BY <1>4, NoRowChanges, FinishStep DEF SendRefused
<1>5. CASE ReplayDone(q)
  BY <1>5, NoRowChanges, FinishStep DEF ReplayDone, rows
<1>6. ASSUME NEW r \in Replies, ReplayRead(q, r) PROVE IInv'
  <2>0. PICK read \in Statuses :
          /\ read = IF r = req[q].target THEN req[q].seen ELSE status[r]
          /\ read = "complete" => status[r] = "complete"
    <3>1. status[r] \in Statuses /\ req[q].seen \in Statuses /\ HandlerOK(q) /\ req[q].pc = "replaying"
      BY <1>6 DEF TypeOK, RequestState, ReplayRead
    <3> QED BY <3>1 DEF HandlerOK
  <2> DEFINE s == [Idle EXCEPT !.pc = "answering", !.reply = r, !.ends = ReplayFinish(read)]
  <2>1. s \in RequestState
    <3>1. ReplayFinish(read) \in Statuses \cup {"replayed"}
      BY <2>0 DEF ReplayFinish
    <3> QED BY <3>1, IdleTyped DEF RequestState
  <2>2. req' = [req EXCEPT ![q] = s] /\ UNCHANGED rows /\ lock' = lock
    BY <1>6, <2>0, ZenonT(60) DEF ReplayRead
  <2>3. req'[q].pc = "answering" /\ req'[q].reply = r /\ req'[q].ends = ReplayFinish(read)
    BY <2>2 DEF TypeOK, Idle
  <2>4. HandlerOK(q)'
    BY <2>0, <2>2, <2>3 DEF HandlerOK, ReplayFinish, rows, Statuses, Terminal
  <2> HIDE DEF s
  <2>5. lock' \in [Conversations -> Requests \cup {None}]
    BY <2>2 DEF TypeOK
  <2> QED BY <2>1, <2>2, <2>4, <2>5, NoRowChanges, QuietStep
<1> QED BY <1>1, <1>2, <1>3, <1>4, <1>5, <1>6

LEMMA SupersedeReadStep ==
    ASSUME IInv, NEW q \in Requests, NEW r \in Replies, NEW continue \in BOOLEAN,
           SupersedeRead(q, r, continue)
    PROVE  IInv'
<1>a. turnOf[r][1] \in Conversations
  BY DEF SupersedeRead, Live, IInv, RowOK, Turns
<1>b. PICK c \in Conversations : c = turnOf[r][1]
  BY <1>a
<1> DEFINE s == [Idle EXCEPT !.pc = "superseding", !.conv = c, !.target = r,
                             !.seen = status[r], !.continue = continue,
                             !.buf = IF continue THEN text[r] ELSE {}]
<1>0. status[r] \in Statuses /\ text[r] \subseteq Replies
  BY DEF IInv, TypeOK
<1>1. s \in RequestState
  BY <1>0, IdleTyped DEF RequestState
<1>2. req' = [req EXCEPT ![q] = s] /\ UNCHANGED rows /\ Live(r) /\ turnOf[r] = LastTurn(c)
  BY <1>b DEF SupersedeRead
<1>3. /\ lock' \in [Conversations -> Requests \cup {None}]
      /\ lock'[c] = q
      /\ \A d \in Conversations : lock[d] \in Requests \ {q} => lock'[d] = lock[d]
  BY <1>b, ConstAssumption DEF SupersedeRead, IInv, TypeOK
<1>4. HandlerOK(q)'
  <2>1. req'[q] = s
    BY <1>2 DEF IInv, TypeOK
  <2>2. s.pc = "superseding" /\ s.conv = c /\ s.target = r /\ s.seen = status[r]
    BY DEF Idle
  <2>3. Live(r)' /\ LastTurn(c)' = LastTurn(c) /\ turnOf'[r] = turnOf[r] /\ status' = status
    BY <1>2 DEF rows, Live, Inserted, LastTurn
  <2>4. status[r] = "streaming" \/ status[r] \in Terminal
    BY <1>0, <1>2 DEF Live, Inserted, Statuses
  <2> HIDE DEF s
  <2> QED BY <1>0, <1>2, <1>3, <2>1, <2>2, <2>3, <2>4 DEF HandlerOK
<1> HIDE DEF s
<1> QED BY <1>1, <1>2, <1>3, <1>4, NoRowChanges, QuietStep DEF IInv

\* The stream and its detached finalize.
LEMMA StreamStep ==
    ASSUME IInv, NEW q \in Requests, StreamSteps(q)
    PROVE  IInv'
<1> USE DEF IInv
<1>0. HandlerOK(q) /\ req[q] \in RequestState
  BY DEF TypeOK
<1>1. CASE SettleStreamingError(q)
  <2>1. req[q].reply \in Replies /\ {} \in SUBSET Replies /\ "error" \in Terminal
    BY <1>0, <1>1 DEF HandlerOK, SettleStreamingError, Terminal
  <2>2. FinalizeMessage(req[q].reply, {}, "error")
    BY <1>1 DEF SettleStreamingError
  <2>3. /\ status' \in [Replies -> Statuses] /\ text' \in [Replies -> SUBSET Replies]
        /\ \A s \in Replies : Settles(s)
    BY <2>1, <2>2, FinalizeSettles
  <2> QED BY <1>1, <2>3, FinishStep DEF SettleStreamingError
<1>2. CASE StartStream(q)
  <2> DEFINE s == [req[q] EXCEPT !.pc = "streaming"]
  <2>1. s \in RequestState
    BY <1>0 DEF RequestState
  <2>2. req' = [req EXCEPT ![q] = s] /\ UNCHANGED rows /\ lock' = lock
    BY <1>2 DEF StartStream, Goto
  <2>3. req'[q].pc = "streaming" /\ req'[q].reply = req[q].reply
    BY <2>2 DEF TypeOK, RequestState
  <2>4. HandlerOK(q)'
    BY <1>0, <1>2, <2>2, <2>3 DEF HandlerOK, StartStream, rows, Inserted
  <2> HIDE DEF s
  <2>5. lock' \in [Conversations -> Requests \cup {None}]
    BY <2>2 DEF TypeOK
  <2> QED BY <2>1, <2>2, <2>4, <2>5, NoRowChanges, QuietStep
<1>3. CASE StreamDelta(q)
  <2> DEFINE s == [req[q] EXCEPT !.buf = @ \cup {req[q].reply}]
  <2>0. req[q].reply \in Replies
    BY <1>0, <1>3 DEF HandlerOK, StreamDelta
  <2>1. s \in RequestState
    BY <1>0, <2>0 DEF RequestState
  <2>2. req' = [req EXCEPT ![q] = s] /\ UNCHANGED rows /\ lock' = lock
    BY <1>3 DEF StreamDelta
  <2>3. req'[q].pc = "streaming" /\ req'[q].reply = req[q].reply
    BY <1>3, <2>2 DEF TypeOK, RequestState, StreamDelta
  <2>4. HandlerOK(q)'
    BY <1>0, <1>3, <2>2, <2>3 DEF HandlerOK, StreamDelta, rows, Inserted
  <2> HIDE DEF s
  <2>5. lock' \in [Conversations -> Requests \cup {None}]
    BY <2>2 DEF TypeOK
  <2> QED BY <2>1, <2>2, <2>4, <2>5, NoRowChanges, QuietStep
<1>4. CASE Finalize(q)
  <2>1. req[q].reply \in Replies /\ req[q].buf \in SUBSET Replies /\ req[q].ends \in Terminal
    BY <1>0, <1>4 DEF HandlerOK, Finalize, RequestState
  <2>2. FinalizeMessage(req[q].reply, req[q].buf, req[q].ends)
    BY <1>4 DEF Finalize
  <2>3. /\ status' \in [Replies -> Statuses] /\ text' \in [Replies -> SUBSET Replies]
        /\ \A s \in Replies : Settles(s)
    BY <2>1, <2>2, FinalizeSettles
  <2> QED BY <1>4, <2>3, FinishStep DEF Finalize
<1>5. ASSUME NEW st \in Terminal, StreamEnd(q, st) PROVE IInv'
  <2> DEFINE s == [req[q] EXCEPT !.pc = "settling", !.ends = st]
  <2>1. s \in RequestState
    BY <1>0 DEF RequestState, Statuses
  <2>2. req' = [req EXCEPT ![q] = s] /\ UNCHANGED rows /\ lock' = lock
    BY <1>5 DEF StreamEnd
  <2>3. req'[q].pc = "settling" /\ req'[q].reply = req[q].reply /\ req'[q].ends = st
    BY <2>2 DEF TypeOK, RequestState
  <2>4. HandlerOK(q)'
    BY <1>0, <1>5, <2>2, <2>3 DEF HandlerOK, StreamEnd, rows, Inserted
  <2> HIDE DEF s
  <2>5. lock' \in [Conversations -> Requests \cup {None}]
    BY <2>2 DEF TypeOK
  <2> QED BY <2>1, <2>2, <2>4, <2>5, NoRowChanges, QuietStep
<1> QED BY <1>1, <1>2, <1>3, <1>4, <1>5 DEF StreamSteps

\* The reaper settles one orphan; no handler moves.
LEMMA ReapStep ==
    ASSUME IInv, NEW r \in Replies, Reap(r)
    PROVE  IInv'
<1>1. /\ status' \in [Replies -> Statuses]
      /\ \A s \in Replies : Settles(s)
  BY DEF Reap, IInv, TypeOK, Settles, Statuses, Terminal
<1>2. UNCHANGED <<prompts, turnOf, replaces, text, lock, req>>
  BY DEF Reap
<1>3. (\A s \in Replies : RowOK(s)') /\ AtMostOneLive'
  BY <1>1, <1>2, RowsFrame
<1>4. \A q \in Requests : HandlerOK(q)'
  BY <1>1, <1>2, HandlerFrame
<1>5. TypeOK'
  BY <1>1, <1>2 DEF IInv, TypeOK
<1> QED BY <1>3, <1>4, <1>5 DEF IInv

-----------------------------------------------------------------------------
(* The two commits of Transaction A                                         *)

\* A new turn: no other row lies in it, and the lock keeps every other
\* superseding handler out of the conversation.
LEMMA SendOpenTurnStep ==
    ASSUME IInv, NEW q \in Requests, NEW r \in Replies, SendOpenTurn(q, r)
    PROVE  IInv'
<1>1. PICK c \in Conversations : c = req[q].conv /\ lock[c] = q
  BY DEF SendOpenTurn, IInv, HandlerOK
<1> DEFINE n == Len(prompts[c]) + 1
           s == [Idle EXCEPT !.pc = "opened", !.reply = r, !.buf = req[q].buf]
<1>2. /\ req[q].pc = "inserting" /\ ~Inserted(r)
      /\ prompts' = [prompts EXCEPT ![c] = Append(@, req[q].key)]
      /\ status' = [status EXCEPT ![r] = "streaming"]
      /\ turnOf' = [turnOf EXCEPT ![r] = <<c, n>>]
      /\ replaces' = replaces /\ text' = text
      /\ req' = [req EXCEPT ![q] = s]
      /\ Unlock(q)
  BY <1>1 DEF SendOpenTurn, Opened
<1>3. /\ s \in RequestState /\ s.pc = "opened" /\ s.reply = r
      /\ req[q].key \in Keys \cup {NoKey}
  BY DEF IInv, TypeOK, RequestState, Idle, Statuses
<1>4. /\ prompts[c] \in Seq(Keys \cup {NoKey}) /\ n \in Nat
      /\ Len(prompts'[c]) = n /\ n > Len(prompts[c])
      /\ prompts'[c] \in Seq(Keys \cup {NoKey})
      /\ \A d \in Conversations : d # c => prompts'[d] = prompts[d]
      /\ \A d \in Conversations : Len(prompts[d]) <= Len(prompts'[d])
      /\ \A d \in Conversations : Len(prompts[d]) \in Nat /\ Len(prompts'[d]) \in Nat
  <2>1. prompts[c] \in Seq(Keys \cup {NoKey})
    BY DEF IInv, TypeOK
  <2>2. prompts'[c] = Append(prompts[c], req[q].key)
    BY <1>2 DEF IInv, TypeOK
  <2>3. \A d \in Conversations : d # c => prompts'[d] = prompts[d]
    BY <1>2 DEF IInv, TypeOK
  <2>4. \A d \in Conversations : Len(prompts[d]) \in Nat
    BY DEF IInv, TypeOK
  <2> QED BY <1>3, <2>1, <2>2, <2>3, <2>4
<1> HIDE DEF s, n
<1>5. TypeOK'
  <2>1. prompts' \in [Conversations -> Seq(Keys \cup {NoKey})]
    BY <1>2, <1>4 DEF IInv, TypeOK
  <2>2. turnOf' \in [Replies -> Turns \cup {None}]
    BY <1>2, <1>4 DEF IInv, TypeOK, Turns
  <2>3. status' \in [Replies -> Statuses]
    BY <1>2 DEF IInv, TypeOK, Statuses
  <2>4. lock' \in [Conversations -> Requests \cup {None}]
    BY <1>2, UnlockTyped DEF IInv
  <2>5. req' \in [Requests -> RequestState]
    BY <1>2, <1>3 DEF IInv, TypeOK
  <2> QED BY <1>2, <2>1, <2>2, <2>3, <2>4, <2>5 DEF IInv, TypeOK
<1>6. /\ \A t \in Replies : t # r => status'[t] = status[t] /\ turnOf'[t] = turnOf[t]
      /\ status'[r] = "streaming" /\ turnOf'[r] = <<c, n>> /\ status[r] = "none"
  BY <1>2 DEF IInv, TypeOK, Inserted
<1>7. \A t \in Replies : replaces[t] # r
  BY <1>6, ConstAssumption DEF IInv, RowOK, Terminal
<1>8. \A t \in Replies : t # r => (Live(t)' <=> Live(t))
  BY <1>2, <1>6 DEF Live, Inserted
<1>9. ASSUME NEW t \in Replies PROVE RowOK(t)'
  <2>1. RowOK(t) /\ replaces[t] \in Replies \cup {None}
    BY DEF IInv, TypeOK
  <2>2. CASE t = r
    BY <1>2, <1>4, <1>6, <1>7, <2>1, <2>2 DEF RowOK, Turns, Inserted, Terminal
  <2>3. CASE t # r
    <3>1. Inserted(t)' <=> Inserted(t)
      BY <1>6, <2>3 DEF Inserted
    <3>2. ASSUME Inserted(t)
          PROVE  turnOf'[t] \in Turns /\ turnOf'[t][2] <= Len(prompts'[turnOf'[t][1]])
      <4>1. turnOf[t] \in Turns /\ turnOf[t][2] <= Len(prompts[turnOf[t][1]])
        BY <2>1, <3>2 DEF RowOK
      <4>2. turnOf[t][1] \in Conversations /\ turnOf[t][2] \in Nat
        BY <4>1 DEF Turns
      <4> QED BY <1>4, <1>6, <2>3, <4>1, <4>2, SMTT(30)
    <3>3. replaces[t] # None => status'[replaces[t]] \in Terminal
      BY <1>6, <1>7, <2>1 DEF RowOK
    <3> QED BY <1>2, <2>1, <3>1, <3>2, <3>3 DEF RowOK
  <2> QED BY <2>2, <2>3
<1>10. AtMostOneLive'
  <2>1. ASSUME NEW t \in Replies, t # r, Live(t)' PROVE turnOf'[t] # turnOf'[r]
    <3>1. Inserted(t) /\ RowOK(t)
      BY <1>8, <2>1 DEF Live, IInv
    <3>2. turnOf[t] \in Turns /\ turnOf[t][2] <= Len(prompts[turnOf[t][1]])
      BY <3>1 DEF RowOK
    <3>3. turnOf[t] # <<c, n>>
      BY <1>4, <3>2 DEF Turns
    <3> QED BY <1>6, <2>1, <3>3
  <2> QED BY <1>6, <1>8, <2>1 DEF IInv, AtMostOneLive
<1>11. ASSUME NEW p \in Requests PROVE HandlerOK(p)'
  <2>1. HandlerOK(p)
    BY DEF IInv
  <2>2. CASE p = q
    <3>1. req'[p] = s
      BY <1>2, <2>2 DEF IInv, TypeOK
    <3> QED BY <1>3, <1>6, <3>1 DEF HandlerOK, Inserted
  <2>3. CASE p # q
    <3>1. req'[p] = req[p]
      BY <1>2, <2>3 DEF IInv, TypeOK
    <3>2. \A d \in Conversations : lock[d] = p => lock'[d] = p
      BY <1>2, <2>3 DEF Unlock, IInv, TypeOK
    <3>3. ASSUME req[p].pc = "superseding"
          PROVE  /\ Live(req[p].target)' /\ turnOf'[req[p].target] = LastTurn(req[p].conv)'
                 /\ req[p].seen = "streaming" \/ status'[req[p].target] \in Terminal
      <4>1. /\ req[p].conv \in Conversations /\ lock[req[p].conv] = p
            /\ req[p].target \in Replies /\ Live(req[p].target)
            /\ turnOf[req[p].target] = LastTurn(req[p].conv)
            /\ req[p].seen = "streaming" \/ status[req[p].target] \in Terminal
        BY <2>1, <3>3 DEF HandlerOK
      <4>2. req[p].conv # c /\ req[p].target # r
        BY <1>1, <1>6, <2>3, <4>1 DEF Live, Inserted
      <4>3. LastTurn(req[p].conv)' = LastTurn(req[p].conv)
        BY <1>4, <3>1, <4>1, <4>2 DEF LastTurn
      <4>4. Live(req[p].target)'
        BY <1>2, <1>6, <3>1, <4>1, <4>2 DEF Live, Inserted
      <4> QED BY <1>6, <4>1, <4>2, <4>3, <4>4
    <3>4. \A t \in Replies : /\ Inserted(t) => Inserted(t)'
                             /\ status[t] = "complete" => status'[t] = "complete"
      BY <1>6 DEF Inserted
    <3> QED BY <2>1, <3>1, <3>2, <3>3, <3>4 DEF HandlerOK
  <2> QED BY <2>2, <2>3
<1> QED BY <1>5, <1>9, <1>10, <1>11 DEF IInv

\* A replacement: the target leaves the live rows, settled, as the new row
\* enters them; no other live row shares its turn.
LEMMA SupersedeCommitStep ==
    ASSUME IInv, NEW q \in Requests, NEW r \in Replies, SupersedeCommit(q, r)
    PROVE  IInv'
<1>1. PICK p \in Replies : p = req[q].target
  BY DEF SupersedeCommit, IInv, HandlerOK
<1>2. PICK c \in Conversations : c = req[q].conv
  BY DEF SupersedeCommit, IInv, HandlerOK
<1> DEFINE s == [Idle EXCEPT !.pc = "opened", !.reply = r, !.buf = req[q].buf]
<1>3. /\ lock[c] = q /\ Live(p) /\ ~Inserted(r) /\ turnOf[p] = LastTurn(c)
      /\ req[q].seen = "streaming" \/ status[p] \in Terminal
  BY <1>1, <1>2 DEF SupersedeCommit, IInv, HandlerOK
<1>4. /\ status' = [status EXCEPT ![p] = IF req[q].seen = "streaming" /\ @ = "streaming"
                                         THEN "interrupted" ELSE @,
                                  ![r] = "streaming"]
      /\ turnOf' = [turnOf EXCEPT ![r] = turnOf[p]]
      /\ replaces' = [replaces EXCEPT ![r] = p]
      /\ prompts' = prompts /\ text' = text
      /\ req' = [req EXCEPT ![q] = s]
      /\ Unlock(q)
  BY <1>1 DEF SupersedeCommit, Opened
<1>5. s \in RequestState /\ s.pc = "opened" /\ s.reply = r
  BY DEF IInv, TypeOK, RequestState, Idle, Statuses
<1> HIDE DEF s
<1>6. p # r /\ Inserted(p) /\ turnOf[p] \in Turns /\ status[p] \in Statuses
  BY <1>3 DEF Live, IInv, RowOK, TypeOK
<1>7. /\ status'[r] = "streaming" /\ status'[p] \in Terminal
      /\ status[p] \in Terminal => status'[p] = status[p]
      /\ \A t \in Replies : t # r /\ t # p => status'[t] = status[t]
      /\ status[r] = "none"
      /\ turnOf'[r] = turnOf[p] /\ \A t \in Replies : t # r => turnOf'[t] = turnOf[t]
      /\ replaces'[r] = p /\ \A t \in Replies : t # r => replaces'[t] = replaces[t]
  BY <1>3, <1>4, <1>6 DEF IInv, TypeOK, Inserted, Statuses, Terminal
<1>8. \A t \in Replies : replaces[t] # r
  BY <1>7, ConstAssumption DEF IInv, RowOK, Terminal
<1>9. \A t \in Replies : t # r => (Inserted(t)' <=> Inserted(t))
  BY <1>6, <1>7 DEF Inserted, Terminal
<1>10. /\ ~Live(p)'
       /\ \A t \in Replies : t # r /\ t # p /\ Live(t)' => Live(t)
  <2>1. ~Live(p)'
    BY <1>7 DEF Live
  <2>2. replaces[r] = None
    BY <1>3 DEF IInv, RowOK
  <2> QED BY <1>7, <1>9, <2>1, <2>2, ConstAssumption DEF Live
<1>11. TypeOK'
  <2>1. status' \in [Replies -> Statuses]
    BY <1>4 DEF IInv, TypeOK, Statuses, Terminal
  <2>2. turnOf' \in [Replies -> Turns \cup {None}]
    BY <1>4, <1>6 DEF IInv, TypeOK
  <2>3. lock' \in [Conversations -> Requests \cup {None}]
    BY <1>4, UnlockTyped DEF IInv
  <2>4. req' \in [Requests -> RequestState]
    BY <1>4, <1>5 DEF IInv, TypeOK
  <2>5. replaces' \in [Replies -> Replies \cup {None}]
    BY <1>4 DEF IInv, TypeOK
  <2> QED BY <1>4, <2>1, <2>2, <2>3, <2>4, <2>5 DEF IInv, TypeOK
<1>12. ASSUME NEW t \in Replies PROVE RowOK(t)'
  <2>1. RowOK(t) /\ RowOK(p) /\ replaces[t] \in Replies \cup {None}
    BY DEF IInv, TypeOK
  <2>2. CASE t = r
    BY <1>4, <1>6, <1>7, <2>1, <2>2 DEF RowOK, Inserted
  <2>3. CASE t # r
    <3>1. replaces[t] # None => status'[replaces[t]] \in Terminal
      BY <1>7, <1>8, <2>1 DEF RowOK
    <3> QED BY <1>4, <1>7, <1>9, <2>1, <2>3, <3>1 DEF RowOK
  <2> QED BY <2>2, <2>3
<1>13. AtMostOneLive'
  <2>1. ASSUME NEW t \in Replies, t # r, Live(t)' PROVE Live(t) /\ turnOf'[t] # turnOf'[r]
    <3>1. t # p /\ Live(t)
      BY <1>10, <2>1
    <3>2. turnOf[t] # turnOf[p]
      BY <1>3, <3>1 DEF IInv, AtMostOneLive
    <3> QED BY <1>7, <2>1, <3>1, <3>2
  <2> QED BY <1>7, <2>1 DEF IInv, AtMostOneLive
<1>14. ASSUME NEW h \in Requests PROVE HandlerOK(h)'
  <2>1. HandlerOK(h)
    BY DEF IInv
  <2>2. CASE h = q
    <3>1. req'[h] = s
      BY <1>4, <2>2 DEF IInv, TypeOK
    <3> QED BY <1>5, <1>7, <3>1 DEF HandlerOK, Inserted
  <2>3. CASE h # q
    <3>1. req'[h] = req[h]
      BY <1>4, <2>3 DEF IInv, TypeOK
    <3>2. \A d \in Conversations : lock[d] = h => lock'[d] = h
      BY <1>4, <2>3 DEF Unlock, IInv, TypeOK
    <3>3. ASSUME req[h].pc = "superseding"
          PROVE  /\ Live(req[h].target)' /\ turnOf'[req[h].target] = LastTurn(req[h].conv)'
                 /\ req[h].seen = "streaming" \/ status'[req[h].target] \in Terminal
      <4>1. /\ req[h].conv \in Conversations /\ lock[req[h].conv] = h
            /\ req[h].target \in Replies /\ Live(req[h].target)
            /\ turnOf[req[h].target] = LastTurn(req[h].conv)
            /\ req[h].seen = "streaming" \/ status[req[h].target] \in Terminal
        BY <2>1, <3>3 DEF HandlerOK
      <4>2. req[h].target # p
        BY <1>3, <2>3, <4>1 DEF LastTurn
      <4>3. req[h].target # r
        BY <1>3, <4>1 DEF Live
      <4>4. LastTurn(req[h].conv)' = LastTurn(req[h].conv)
        BY <1>4, <3>1 DEF LastTurn
      <4>5. Live(req[h].target)'
        BY <1>7, <1>9, <3>1, <4>1, <4>2, <4>3 DEF Live
      <4> QED BY <1>7, <4>1, <4>2, <4>3, <4>4, <4>5
    <3>4. \A t \in Replies : /\ Inserted(t) => Inserted(t)'
                             /\ status[t] = "complete" => status'[t] = "complete"
      BY <1>7, <1>9 DEF Inserted, Terminal
    <3> QED BY <2>1, <3>1, <3>2, <3>3, <3>4 DEF HandlerOK
  <2> QED BY <2>2, <2>3
<1> QED BY <1>11, <1>12, <1>13, <1>14 DEF IInv

-----------------------------------------------------------------------------
(* Theorems                                                                 *)

\* IInv holds in every reachable state: Transaction A under the row lock, the
\* lock-free Transaction B, crashes and the reaper all preserve it.
THEOREM Invariant == Spec => []IInv
<1>1. Init => IInv
  <2> SUFFICES ASSUME Init PROVE IInv
    OBVIOUS
  <2>1. TypeOK
    BY IdleTyped DEF Init, TypeOK, Statuses
  <2>2. \A r \in Replies : RowOK(r) /\ ~Live(r)
    BY DEF Init, RowOK, Inserted, Live
  <2>3. \A q \in Requests : HandlerOK(q)
    BY DEF Init, HandlerOK, Idle
  <2> QED BY <2>1, <2>2, <2>3 DEF IInv, AtMostOneLive
<1>2. IInv /\ [Next]_vars => IInv'
  <2> SUFFICES ASSUME IInv, [Next]_vars PROVE IInv'
    OBVIOUS
  <2>1. ASSUME NEW q \in Requests, Crash(q) PROVE IInv'
    BY <2>1, NoRowChanges, FinishStep DEF Crash, IInv
  <2>2. CASE UNCHANGED vars
    BY <2>2 DEF vars, IInv, TypeOK, RowOK, HandlerOK, AtMostOneLive, Live, Inserted, LastTurn
  <2>3. ASSUME NEW q \in Requests, SendSteps(q) PROVE IInv'
    BY <2>3, SendQuietStep, SendOpenTurnStep DEF SendSteps
  <2> QED BY <2>1, <2>2, <2>3, SendLockStep, SupersedeReadStep, SupersedeCommitStep,
             StreamStep, ReapStep DEF Next
<1> QED BY <1>1, <1>2, PTL DEF Spec

\* The variables keep their types in every reachable state of the handlers,
\* crashes and reaper (the columns of messages and turns, the row locks).
THEOREM TypeCorrect == Spec => []TypeOK
<1>1. IInv => TypeOK
  BY DEF IInv
<1> QED BY <1>1, Invariant, PTL

\* A turn never holds two streaming rows, for any number of handlers racing
\* (open_replacement's "so the turn never holds two streaming rows").
THEOREM StreamingUnique == Spec => []OneStreamingPerTurn
<1>1. IInv => OneStreamingPerTurn
  <2> SUFFICES ASSUME IInv, NEW r \in Replies, NEW s \in Replies,
                      status[r] = "streaming", status[s] = "streaming", turnOf[r] = turnOf[s]
               PROVE  r = s
    BY DEF OneStreamingPerTurn
  <2>1. Live(r) /\ Live(s)
    BY ConstAssumption DEF IInv, RowOK, Live, Inserted, Terminal
  <2> QED BY <2>1 DEF IInv, AtMostOneLive
<1> QED BY <1>1, Invariant, PTL

\* A replay that ends like a success answers with a complete reply
\* (_replay_events never shows a failed or in-flight reply as a success).
THEOREM ReplaysHonest == Spec => []ReplayHonest
<1>1. IInv => ReplayHonest
  BY DEF IInv, HandlerOK, ReplayHonest
<1> QED BY <1>1, Invariant, PTL

\* The transcript is append-only: no step of any handler, finalize or reaper
\* rewrites a settled row, or moves a row to another turn or predecessor.
THEOREM TranscriptAppendOnly == Spec => AppendOnly
<1> DEFINE Kept(r) ==
        /\ status[r] \in Terminal => status'[r] = status[r] /\ text'[r] = text[r]
        /\ Inserted(r) => turnOf'[r] = turnOf[r] /\ replaces'[r] = replaces[r]
<1>1. ASSUME IInv, Next PROVE \A r \in Replies : Kept(r)
  <2>1. ASSUME UNCHANGED rows PROVE \A r \in Replies : Kept(r)
    BY <2>1 DEF rows
  <2>2. ASSUME NEW m, NEW st, NEW content, FinalizeMessage(m, content, st),
               UNCHANGED <<prompts, turnOf, replaces>>
        PROVE  \A r \in Replies : Kept(r)
    BY <2>2, <1>1 DEF FinalizeMessage, IInv, TypeOK, Terminal
  <2>3. ASSUME NEW q \in Requests, NEW m \in Replies, SendOpenTurn(q, m)
        PROVE  \A r \in Replies : Kept(r)
    BY <2>3, <1>1 DEF SendOpenTurn, IInv, TypeOK, Inserted, Terminal
  <2>4. ASSUME NEW q \in Requests, NEW m \in Replies, SupersedeCommit(q, m)
        PROVE  \A r \in Replies : Kept(r)
    BY <2>4, <1>1 DEF SupersedeCommit, IInv, TypeOK, Inserted, Terminal
  <2>5. ASSUME NEW m \in Replies, Reap(m) PROVE \A r \in Replies : Kept(r)
    BY <2>5, <1>1 DEF Reap, IInv, TypeOK, Terminal
  <2>6. ASSUME NEW q \in Requests, StreamSteps(q) PROVE \A r \in Replies : Kept(r)
    BY <2>1, <2>2, <2>6 DEF StreamSteps, SettleStreamingError, StartStream, StreamDelta,
       StreamEnd, Finalize
  <2>7. ASSUME NEW q \in Requests, SendSteps(q) PROVE \A r \in Replies : Kept(r)
    BY <2>1, <2>3, <2>7 DEF SendSteps, SendReplay, SendConflict, SendFirstSeen, SendRefused,
       ReplayDone, ReplayRead
  <2> HIDE DEF Kept
  <2>8. ASSUME NEW q \in Requests, NEW c \in Conversations, NEW k \in Keys \cup {NoKey},
               SendLock(q, c, k)
        PROVE  \A r \in Replies : Kept(r)
    BY <2>1, <2>8 DEF SendLock
  <2>9. ASSUME NEW q \in Requests, NEW m \in Replies, NEW b \in BOOLEAN, SupersedeRead(q, m, b)
        PROVE  \A r \in Replies : Kept(r)
    BY <2>1, <2>9 DEF SupersedeRead
  <2>10. ASSUME NEW q \in Requests, Crash(q) PROVE \A r \in Replies : Kept(r)
    BY <2>1, <2>10 DEF Crash
  <2> QED BY <1>1, <2>4, <2>5, <2>6, <2>7, <2>8, <2>9, <2>10 DEF Next
<1>2. IInv /\ [Next]_vars => [\A r \in Replies : Kept(r)]_vars
  BY <1>1
<1> QED BY <1>2, Invariant, PTL DEF Spec, AppendOnly

\* A client_message_id is stored at most once, in one conversation: the index
\* behind the replay check holds however many double submits race.
THEOREM SubmitsIdempotent == Spec => []IdempotentSubmit
<1>1. Init => IdempotentSubmit
  BY DEF Init, IdempotentSubmit
<1>2. IInv /\ IdempotentSubmit /\ [Next]_vars => IdempotentSubmit'
  <2> SUFFICES ASSUME IInv, IdempotentSubmit, [Next]_vars PROVE IdempotentSubmit'
    OBVIOUS
  <2>1. CASE prompts' = prompts
    BY <2>1 DEF IdempotentSubmit
  <2>2. ASSUME NEW q \in Requests, NEW r \in Replies, SendOpenTurn(q, r)
        PROVE  IdempotentSubmit'
    <3>1. PICK c \in Conversations : c = req[q].conv
      BY <2>2 DEF SendOpenTurn, IInv, HandlerOK
    <3>2. ~KeyUsed(req[q].key) /\ prompts' = [prompts EXCEPT ![c] = Append(@, req[q].key)]
      BY <2>2, <3>1 DEF SendOpenTurn
    <3>3. \A d \in Conversations : prompts[d] \in Seq(Keys \cup {NoKey})
      BY DEF IInv, TypeOK
    <3>4. \A d \in Conversations : d # c => prompts'[d] = prompts[d]
      BY <3>2 DEF IInv, TypeOK
    <3>5. prompts'[c] = Append(prompts[c], req[q].key)
      BY <3>2 DEF IInv, TypeOK
    <3>6. req[q].key \in Keys \cup {NoKey}
      BY DEF IInv, TypeOK, RequestState
    <3>7. /\ Len(prompts'[c]) = Len(prompts[c]) + 1
          /\ prompts'[c][Len(prompts[c]) + 1] = req[q].key
          /\ \A i \in 1..Len(prompts[c]) : prompts'[c][i] = prompts[c][i]
      BY <3>3, <3>5, <3>6
    <3>8. \A d \in Conversations : \A i \in 1..Len(prompts'[d]) :
             \/ i \in 1..Len(prompts[d]) /\ prompts'[d][i] = prompts[d][i]
             \/ d = c /\ i = Len(prompts[c]) + 1 /\ prompts'[d][i] = req[q].key
      <4>1. Len(prompts[c]) \in Nat
        BY <3>3
      <4> QED BY <3>4, <3>7, <4>1
    <3>9. \A d \in Conversations : \A i \in 1..Len(prompts[d]) :
             req[q].key # NoKey => prompts[d][i] # req[q].key
      BY <3>2 DEF KeyUsed, KeyIn
    <3> SUFFICES ASSUME NEW a \in Conversations, NEW b \in Conversations,
                        NEW i \in 1..Len(prompts'[a]), NEW j \in 1..Len(prompts'[b]),
                        prompts'[a][i] = prompts'[b][j], prompts'[a][i] # NoKey
                 PROVE  a = b /\ i = j
      BY DEF IdempotentSubmit
    <3> DEFINE Old(d, k) == k \in 1..Len(prompts[d]) /\ prompts'[d][k] = prompts[d][k]
               New(d, k) == d = c /\ k = Len(prompts[c]) + 1 /\ prompts'[d][k] = req[q].key
    <3>10. (Old(a, i) \/ New(a, i)) /\ (Old(b, j) \/ New(b, j))
      BY <3>8
    <3>11. CASE Old(a, i) /\ Old(b, j)
      <4>1. /\ i \in 1..Len(prompts[a]) /\ j \in 1..Len(prompts[b])
            /\ prompts[a][i] = prompts[b][j] /\ prompts[a][i] # NoKey
        BY <3>11
      <4>2. \A k \in 1..Len(prompts[a]), l \in 1..Len(prompts[b]) :
              prompts[a][k] = prompts[b][l] /\ prompts[a][k] # NoKey => a = b /\ k = l
        BY Zenon DEF IdempotentSubmit
      <4> QED BY ONLY <4>1, <4>2
    <3>12. CASE Old(a, i) /\ New(b, j)
      BY <3>9, <3>12
    <3>13. CASE New(a, i) /\ Old(b, j)
      BY <3>9, <3>13
    <3>14. CASE New(a, i) /\ New(b, j)
      BY <3>14
    <3> QED BY ONLY <3>10, <3>11, <3>12, <3>13, <3>14
  <2>3. ASSUME NEW q \in Requests, SendSteps(q), prompts' # prompts
        PROVE  \E r \in Replies : SendOpenTurn(q, r)
    BY <2>3 DEF SendSteps, SendReplay, SendConflict, SendFirstSeen, SendRefused,
       ReplayDone, ReplayRead, rows
  <2>4. ASSUME prompts' # prompts PROVE \E q \in Requests : SendSteps(q)
    BY <2>4 DEF Next, vars, rows, SendLock, SupersedeRead, SupersedeCommit, StreamSteps,
       SettleStreamingError, StartStream, StreamDelta, StreamEnd, Finalize, Crash, Reap
  <2> QED BY <2>1, <2>2, <2>3, <2>4
<1> QED BY <1>1, <1>2, Invariant, PTL DEF Spec

-----------------------------------------------------------------------------
(* The refinement of Transcript: every turn keeps exactly one live reply, so *)
(* the exchanges a reader sees are a sequence, and each step of the handlers *)
(* asks, re-answers or settles one of them, or changes none.                 *)

Answered ==
    \A c \in Conversations : \A i \in 1..Len(prompts[c]) :
        \E r \in Replies : Live(r) /\ turnOf[r] = <<c, i>>

\* Turns are counted from one.
Numbered == \A r \in Replies : Inserted(r) => turnOf[r][2] # 0

Exchange == [key : Keys \cup {NoKey}, reply : Replies]

\* One streaming row settles; nothing else in the tables changes.
SettlesRow(r) ==
    /\ status[r] = "streaming"
    /\ UNCHANGED <<prompts, turnOf, replaces>>
    /\ \E o \in Terminal, said \in SUBSET Replies :
         status' = [status EXCEPT ![r] = o] /\ text' = [text EXCEPT ![r] = said]

\* What a step does to the tables.
Writes ==
    \/ UNCHANGED rows
    \/ \E r \in Replies : SettlesRow(r)
    \/ \E q \in Requests, r \in Replies : SendOpenTurn(q, r) \/ SupersedeCommit(q, r)

\* finalize_message settles its row or leaves the tables alone.
LEMMA FinalizeWrites ==
    ASSUME IInv, NEW r \in Replies, NEW st \in Terminal, NEW said \in SUBSET Replies,
           FinalizeMessage(r, said, st), UNCHANGED <<prompts, turnOf, replaces>>
    PROVE  Writes
BY DEF FinalizeMessage, Writes, SettlesRow, rows

LEMMA StepWrites ==
    ASSUME IInv, [Next]_vars
    PROVE  Writes
<1>1. ASSUME NEW q \in Requests, StreamSteps(q) PROVE Writes
  <2>1. CASE SettleStreamingError(q)
    <3>1. req[q].reply \in Replies
      BY <2>1 DEF SettleStreamingError, IInv, HandlerOK
    <3> QED BY <2>1, <3>1, FinalizeWrites DEF SettleStreamingError, Terminal
  <2>2. CASE Finalize(q)
    <3>1. req[q].reply \in Replies /\ req[q].ends \in Terminal /\ req[q].buf \in SUBSET Replies
      BY <2>2 DEF Finalize, IInv, HandlerOK, TypeOK, RequestState
    <3> QED BY <2>2, <3>1, FinalizeWrites DEF Finalize
  <2>3. CASE StartStream(q) \/ StreamDelta(q) \/ \E st \in Terminal : StreamEnd(q, st)
    BY <2>3 DEF StartStream, StreamDelta, StreamEnd, Writes
  <2> QED BY <1>1, <2>1, <2>2, <2>3 DEF StreamSteps
<1>2. ASSUME NEW q \in Requests, SendSteps(q) PROVE Writes
  BY <1>2 DEF SendSteps, SendReplay, SendConflict, SendFirstSeen, SendRefused, ReplayDone,
     ReplayRead, Writes
<1>3. ASSUME NEW r \in Replies, Reap(r) PROVE Writes
  <2>1. text' = [text EXCEPT ![r] = text[r]] /\ text[r] \in SUBSET Replies
    BY <1>3 DEF Reap, IInv, TypeOK
  <2>2. SettlesRow(r)
    BY <1>3, <2>1 DEF Reap, SettlesRow, Terminal
  <2> QED BY <2>2 DEF Writes
<1>4. ASSUME NEW q \in Requests,
             \/ \E c \in Conversations, k \in Keys \cup {NoKey} : SendLock(q, c, k)
             \/ \E r \in Replies, continue \in BOOLEAN : SupersedeRead(q, r, continue)
             \/ \E r \in Replies : SupersedeCommit(q, r)
             \/ Crash(q)
      PROVE  Writes
  BY <1>4 DEF SendLock, SupersedeRead, Crash, Writes
<1>5. CASE UNCHANGED vars
  BY <1>5 DEF vars, Writes, rows
<1> QED BY <1>1, <1>2, <1>3, <1>4, <1>5 DEF Next

\* A new placeholder is not superseded by anything.
LEMMA NewRowFree ==
    ASSUME IInv, NEW r \in Replies, ~Inserted(r)
    PROVE  \A s \in Replies : replaces[s] # r
BY ConstAssumption DEF IInv, RowOK, Inserted, Terminal

\* A row that is not inserted supersedes nothing.
LEMMA NewRowUnlinked ==
    ASSUME IInv, NEW r \in Replies, ~Inserted(r)
    PROVE  replaces[r] = None
BY DEF IInv, RowOK

\* What opening a turn does to the live rows.
LEMMA OpenTurnRows ==
    ASSUME IInv, NEW q \in Requests, NEW r \in Replies, SendOpenTurn(q, r)
    PROVE  \E c \in Conversations :
             /\ c = req[q].conv /\ req[q].key \in Keys \cup {NoKey} /\ ~KeyUsed(req[q].key)
             /\ prompts' = [prompts EXCEPT ![c] = Append(@, req[q].key)]
             /\ status[r] = "none" /\ status' = [status EXCEPT ![r] = "streaming"] /\ text' = text
             /\ Live(r)' /\ turnOf'[r] = <<c, Len(prompts[c]) + 1>>
             /\ \A s \in Replies : s # r => (Live(s)' <=> Live(s)) /\ turnOf'[s] = turnOf[s]
<1>1. PICK c \in Conversations : c = req[q].conv
  BY DEF SendOpenTurn, IInv, HandlerOK
<1>2. /\ ~KeyUsed(req[q].key) /\ ~Inserted(r)
      /\ prompts' = [prompts EXCEPT ![c] = Append(@, req[q].key)]
      /\ status' = [status EXCEPT ![r] = "streaming"]
      /\ turnOf' = [turnOf EXCEPT ![r] = <<c, Len(prompts[c]) + 1>>]
      /\ replaces' = replaces /\ text' = text
  BY <1>1 DEF SendOpenTurn
<1>3. req[q].key \in Keys \cup {NoKey} /\ status[r] = "none"
  BY <1>2 DEF IInv, TypeOK, RequestState, Inserted
<1>4. /\ turnOf'[r] = <<c, Len(prompts[c]) + 1>> /\ status'[r] = "streaming"
      /\ \A s \in Replies : s # r => turnOf'[s] = turnOf[s] /\ status'[s] = status[s]
  BY <1>2 DEF IInv, TypeOK
<1>5. Live(r)' /\ \A s \in Replies : s # r => (Live(s)' <=> Live(s))
  BY <1>2, <1>4, NewRowFree DEF Live, Inserted
<1> QED BY <1>1, <1>2, <1>3, <1>4, <1>5

\* What a replacement does to the live rows.
LEMMA SupersedeRows ==
    ASSUME IInv, NEW q \in Requests, NEW r \in Replies, SupersedeCommit(q, r)
    PROVE  \E c \in Conversations, p \in Replies :
             /\ Live(p) /\ turnOf[p] = LastTurn(c) /\ p # r /\ prompts' = prompts /\ text' = text
             /\ status[r] = "none"
             /\ status' = [status EXCEPT ![p] = IF @ = "streaming" THEN "interrupted" ELSE @,
                                         ![r] = "streaming"]
             /\ Live(r)' /\ turnOf'[r] = turnOf[p] /\ ~Live(p)'
             /\ \A s \in Replies \ {p, r} : (Live(s)' <=> Live(s))
             /\ \A s \in Replies \ {r} : turnOf'[s] = turnOf[s]
<1>1. PICK p \in Replies : p = req[q].target
  BY DEF SupersedeCommit, IInv, HandlerOK
<1>2. PICK c \in Conversations : c = req[q].conv
  BY DEF SupersedeCommit, IInv, HandlerOK
<1>3. /\ Live(p) /\ ~Inserted(r) /\ turnOf[p] = LastTurn(c)
      /\ req[q].seen = "streaming" \/ status[p] \in Terminal
  BY <1>1, <1>2 DEF SupersedeCommit, IInv, HandlerOK
<1>4. /\ status' = [status EXCEPT ![p] = IF req[q].seen = "streaming" /\ @ = "streaming"
                                         THEN "interrupted" ELSE @,
                                  ![r] = "streaming"]
      /\ turnOf' = [turnOf EXCEPT ![r] = turnOf[p]]
      /\ replaces' = [replaces EXCEPT ![r] = p]
      /\ prompts' = prompts /\ text' = text
  BY <1>1 DEF SupersedeCommit
<1>5. p # r /\ status[r] = "none" /\ Inserted(p)
  BY <1>3 DEF Live, Inserted
<1>6. status' = [status EXCEPT ![p] = IF @ = "streaming" THEN "interrupted" ELSE @,
                               ![r] = "streaming"]
  <2>1. (req[q].seen = "streaming" /\ status[p] = "streaming") <=> status[p] = "streaming"
    BY <1>3 DEF Terminal
  <2> QED BY <1>4, <2>1
<1>7. /\ turnOf'[r] = turnOf[p] /\ replaces'[r] = p
      /\ \A s \in Replies \ {r} : turnOf'[s] = turnOf[s] /\ replaces'[s] = replaces[s]
  BY <1>4 DEF IInv, TypeOK
<1>8. /\ status'[r] = "streaming" /\ status'[p] # "none"
      /\ \A s \in Replies \ {p, r} : status'[s] = status[s]
  BY <1>5, <1>6 DEF IInv, TypeOK, Inserted
<1>9. /\ Live(r)' /\ ~Live(p)'
      /\ \A s \in Replies \ {p, r} : (Live(s)' <=> Live(s))
  <2>1. \A s \in Replies : replaces[s] # r
    BY <1>3, NewRowFree
  <2>2. Live(r)'
    BY <1>5, <1>7, <1>8, <2>1 DEF Live, Inserted
  <2>3. ~Live(p)'
    BY <1>7 DEF Live
  <2>4. ASSUME NEW s \in Replies \ {p, r} PROVE Live(s)' <=> Live(s)
    <3>1. (\A t \in Replies : replaces'[t] # s) <=> (\A t \in Replies : replaces[t] # s)
      BY <1>3, <1>7, NewRowUnlinked, ConstAssumption
    <3> QED BY <1>8, <3>1 DEF Live, Inserted
  <2> QED BY <2>2, <2>3, <2>4
<1> QED BY <1>3, <1>4, <1>5, <1>6, <1>7, <1>9

\* The settled row keeps its place: who is live, and where, stays as it was.
LEMMA SettledKeepsLive ==
    ASSUME IInv, NEW r \in Replies, SettlesRow(r)
    PROVE  /\ prompts' = prompts /\ turnOf' = turnOf
           /\ \A s \in Replies : Live(s)' <=> Live(s)
<1>1. \A s \in Replies : Inserted(s)' <=> Inserted(s)
  BY DEF SettlesRow, Inserted, IInv, TypeOK, Terminal
<1> QED BY <1>1 DEF SettlesRow, Live

LEMMA AnsweredStep ==
    ASSUME IInv, Answered, Writes
    PROVE  Answered'
<1>1. CASE UNCHANGED rows
  BY <1>1 DEF rows, Answered, Live, Inserted
<1>2. ASSUME NEW r \in Replies, SettlesRow(r) PROVE Answered'
  BY <1>2, SettledKeepsLive DEF Answered
<1>3. ASSUME NEW q \in Requests, NEW r \in Replies, SendOpenTurn(q, r) PROVE Answered'
  <2>1. PICK c \in Conversations :
             /\ prompts' = [prompts EXCEPT ![c] = Append(@, req[q].key)]
             /\ req[q].key \in Keys \cup {NoKey} /\ status[r] = "none"
             /\ Live(r)' /\ turnOf'[r] = <<c, Len(prompts[c]) + 1>>
             /\ \A s \in Replies : s # r => (Live(s)' <=> Live(s)) /\ turnOf'[s] = turnOf[s]
    BY <1>3, OpenTurnRows
  <2>2. ~Live(r)
    BY <2>1 DEF Live, Inserted
  <2> SUFFICES ASSUME NEW d \in Conversations, NEW i \in 1..Len(prompts'[d])
               PROVE  \E s \in Replies : Live(s)' /\ turnOf'[s] = <<d, i>>
    BY DEF Answered
  <2>3. CASE d = c /\ i = Len(prompts[c]) + 1
    BY <2>1, <2>3
  <2>4. CASE ~(d = c /\ i = Len(prompts[c]) + 1)
    <3>1. prompts[d] \in Seq(Keys \cup {NoKey}) /\ prompts'[d] = IF d = c THEN Append(prompts[d], req[q].key) ELSE prompts[d]
      BY <2>1 DEF IInv, TypeOK
    <3>2. i \in 1..Len(prompts[d])
      <4>1. CASE d = c
        <5>1. Len(prompts'[d]) = Len(prompts[d]) + 1 /\ Len(prompts[d]) \in Nat
          BY <2>1, <3>1, <4>1
        <5> QED BY <2>4, <4>1, <5>1
      <4>2. CASE d # c
        BY <3>1, <4>2
      <4> QED BY <4>1, <4>2
    <3>3. PICK s \in Replies : Live(s) /\ turnOf[s] = <<d, i>>
      BY <3>2 DEF Answered
    <3> QED BY <2>1, <2>2, <3>3
  <2> QED BY <2>3, <2>4
<1>4. ASSUME NEW q \in Requests, NEW r \in Replies, SupersedeCommit(q, r) PROVE Answered'
  <2>1. PICK p \in Replies :
             /\ prompts' = prompts /\ status[r] = "none"
             /\ Live(r)' /\ turnOf'[r] = turnOf[p] /\ ~Live(p)'
             /\ \A s \in Replies \ {p, r} : (Live(s)' <=> Live(s))
             /\ \A s \in Replies \ {r} : turnOf'[s] = turnOf[s]
    BY <1>4, SupersedeRows
  <2>2. ~Live(r)
    BY <2>1 DEF Live, Inserted
  <2> SUFFICES ASSUME NEW d \in Conversations, NEW i \in 1..Len(prompts[d])
               PROVE  \E s \in Replies : Live(s)' /\ turnOf'[s] = <<d, i>>
    BY <2>1 DEF Answered
  <2>3. PICK s \in Replies : Live(s) /\ turnOf[s] = <<d, i>>
    BY DEF Answered
  <2> QED BY <2>1, <2>2, <2>3
<1> QED BY <1>1, <1>2, <1>3, <1>4 DEF Writes

LEMMA NumberedStep ==
    ASSUME IInv, Numbered, Writes
    PROVE  Numbered'
<1>1. CASE UNCHANGED rows
  BY <1>1 DEF rows, Numbered, Inserted
<1>2. ASSUME NEW r \in Replies, SettlesRow(r) PROVE Numbered'
  BY <1>2 DEF SettlesRow, Numbered, Inserted, IInv, TypeOK, Terminal
<1>3. ASSUME NEW q \in Requests, NEW r \in Replies, SendOpenTurn(q, r) PROVE Numbered'
  <2>1. PICK c \in Conversations :
             /\ status' = [status EXCEPT ![r] = "streaming"]
             /\ turnOf'[r] = <<c, Len(prompts[c]) + 1>>
             /\ \A s \in Replies : s # r => turnOf'[s] = turnOf[s]
    BY <1>3, OpenTurnRows
  <2>2. Len(prompts[c]) + 1 # 0
    BY DEF IInv, TypeOK
  <2> QED BY <2>1, <2>2 DEF Numbered, Inserted, IInv, TypeOK
<1>4. ASSUME NEW q \in Requests, NEW r \in Replies, SupersedeCommit(q, r) PROVE Numbered'
  <2>1. PICK p \in Replies :
             /\ Live(p) /\ turnOf'[r] = turnOf[p]
             /\ status' = [status EXCEPT ![p] = IF @ = "streaming" THEN "interrupted" ELSE @,
                                         ![r] = "streaming"]
             /\ \A s \in Replies \ {r} : turnOf'[s] = turnOf[s]
    BY <1>4, SupersedeRows
  <2> QED BY <2>1 DEF Numbered, Live, Inserted, IInv, TypeOK
<1> QED BY <1>1, <1>2, <1>3, <1>4 DEF Writes

\* Every turn of every conversation has exactly one live reply in every
\* reachable state: two under AtMostOneLive never happen, and no crash,
\* replacement or reaper leaves a prompt without one.
THEOREM EveryTurnAnswered == Spec => [](IInv /\ Answered /\ Numbered)
<1>1. Init => Answered /\ Numbered
  BY DEF Init, Answered, Numbered, Inserted
<1>2. IInv /\ Answered /\ Numbered /\ [Next]_vars => Answered' /\ Numbered'
  BY StepWrites, AnsweredStep, NumberedStep
<1> QED BY <1>1, <1>2, Invariant, PTL DEF Spec

\* The current reply of a turn is its live row.
LEMMA ReplyIs ==
    ASSUME IInv, NEW c \in Conversations, NEW i, NEW r \in Replies, Live(r), turnOf[r] = <<c, i>>
    PROVE  CurrentReply(c, i) = r
<1>1. CurrentReply(c, i) \in Replies /\ Live(CurrentReply(c, i)) /\ turnOf[CurrentReply(c, i)] = <<c, i>>
  BY DEF CurrentReply
<1> QED BY <1>1 DEF IInv, AtMostOneLive

LEMMA ReplyIsNext ==
    ASSUME IInv', NEW c \in Conversations, NEW i, NEW r \in Replies, Live(r)', turnOf'[r] = <<c, i>>
    PROVE  CurrentReply(c, i)' = r
<1>1. /\ CurrentReply(c, i)' \in Replies /\ Live(CurrentReply(c, i))'
      /\ turnOf'[CurrentReply(c, i)'] = <<c, i>>
  BY DEF CurrentReply
<1> QED BY <1>1 DEF IInv, AtMostOneLive

\* A function on 1..n is a sequence of length n.
LEMMA FunctionIsSeq ==
    ASSUME NEW S, NEW n \in Nat, NEW f \in [1..n -> S]
    PROVE  f \in Seq(S) /\ Len(f) = n
<1>1. f \in Seq(S)
  BY SeqDef
<1>2. DOMAIN f = 1..n /\ DOMAIN f = 1..Len(f) /\ Len(f) \in Nat
  BY <1>1, LenProperties
<1> QED BY <1>1, <1>2

\* The exchanges of a conversation are a sequence, one per turn.
LEMMA ExchangesAreSeq ==
    ASSUME IInv, Answered, NEW c \in Conversations
    PROVE  /\ Exchanges[c] \in Seq(Exchange)
           /\ Len(Exchanges[c]) = Len(prompts[c]) /\ Len(prompts[c]) \in Nat
           /\ \A i \in 1..Len(prompts[c]) :
                Exchanges[c][i] = [key |-> prompts[c][i], reply |-> CurrentReply(c, i)]
           /\ Exchanges[c] = [i \in 1..Len(prompts[c]) |->
                [key |-> prompts[c][i], reply |-> CurrentReply(c, i)]]
<1>1. prompts[c] \in Seq(Keys \cup {NoKey}) /\ Len(prompts[c]) \in Nat
  BY DEF IInv, TypeOK
<1>2. ASSUME NEW i \in 1..Len(prompts[c])
      PROVE  prompts[c][i] \in Keys \cup {NoKey} /\ CurrentReply(c, i) \in Replies
  <2>1. PICK r \in Replies : Live(r) /\ turnOf[r] = <<c, i>>
    BY DEF Answered
  <2>2. CurrentReply(c, i) = r
    BY <2>1, ReplyIs
  <2> QED BY <1>1, <2>2, ElementOfSeq
<1>3. Exchanges[c] = [i \in 1..Len(prompts[c]) |->
                [key |-> prompts[c][i], reply |-> CurrentReply(c, i)]]
  BY DEF Exchanges
<1>4. Exchanges[c] \in [1..Len(prompts[c]) -> Exchange]
  BY <1>2, <1>3 DEF Exchange
<1> QED BY <1>1, <1>3, <1>4, FunctionIsSeq

\* Conversations whose turns keep keys and current replies keep their exchanges.
LEMMA SameExchanges ==
    ASSUME NEW c \in Conversations, prompts'[c] = prompts[c],
           \A i \in 1..Len(prompts[c]) : CurrentReply(c, i)' = CurrentReply(c, i)
    PROVE  Exchanges'[c] = Exchanges[c]
<1>1. /\ Exchanges[c] = [i \in 1..Len(prompts[c]) |->
           [key |-> prompts[c][i], reply |-> CurrentReply(c, i)]]
      /\ Exchanges'[c] = [i \in 1..Len(prompts'[c]) |->
           [key |-> prompts'[c][i], reply |-> CurrentReply(c, i)']]
  BY DEF Exchanges
<1> QED BY <1>1

\* A turn whose live row stays live, where it was, keeps its current reply.
LEMMA ReplyStays ==
    ASSUME IInv, IInv', Answered, NEW c \in Conversations, NEW i \in 1..Len(prompts[c]),
           \A s \in Replies : Live(s) /\ turnOf[s] = <<c, i>> => Live(s)' /\ turnOf'[s] = <<c, i>>
    PROVE  CurrentReply(c, i)' = CurrentReply(c, i)
<1>1. PICK s \in Replies : Live(s) /\ turnOf[s] = <<c, i>>
  BY DEF Answered
<1>2. CurrentReply(c, i) = s
  BY <1>1, ReplyIs
<1>3. CurrentReply(c, i)' = s
  BY <1>1, ReplyIsNext
<1> QED BY <1>2, <1>3

\* Steps that write no row leave the transcript alone.
LEMMA RefinesQuiet ==
    ASSUME UNCHANGED rows
    PROVE  UNCHANGED T!tvars
<1>1. Exchanges' = Exchanges
  BY DEF Exchanges, rows, CurrentReply, Live, Inserted
<1> QED BY <1>1 DEF T!tvars, rows

LEMMA RefinesSettle ==
    ASSUME IInv, IInv', Answered, NEW r \in Replies, SettlesRow(r)
    PROVE  T!Settle(r)
<1>1. /\ prompts' = prompts /\ turnOf' = turnOf
      /\ \A s \in Replies : Live(s)' <=> Live(s)
  BY SettledKeepsLive
<1>2. \A c \in Conversations : Exchanges'[c] = Exchanges[c]
  BY <1>1, ReplyStays, SameExchanges
<1>3. Exchanges' = Exchanges
  BY <1>2 DEF Exchanges
<1> QED BY <1>3 DEF T!Settle, T!Outcomes, SettlesRow, Terminal

\* Opening a turn asks: the transcript of its conversation grows by one exchange.
LEMMA RefinesAsk ==
    ASSUME IInv, IInv', Answered, NEW q \in Requests, NEW r \in Replies, SendOpenTurn(q, r)
    PROVE  \E c \in Conversations, k \in Keys \cup {NoKey} : T!Ask(c, k, r)
<1>1. PICK c \in Conversations :
             /\ c = req[q].conv /\ req[q].key \in Keys \cup {NoKey} /\ ~KeyUsed(req[q].key)
             /\ prompts' = [prompts EXCEPT ![c] = Append(@, req[q].key)]
             /\ status[r] = "none" /\ status' = [status EXCEPT ![r] = "streaming"] /\ text' = text
             /\ Live(r)' /\ turnOf'[r] = <<c, Len(prompts[c]) + 1>>
             /\ \A s \in Replies : s # r => (Live(s)' <=> Live(s)) /\ turnOf'[s] = turnOf[s]
  BY OpenTurnRows
<1>2. PICK k \in Keys \cup {NoKey} : k = req[q].key
  BY <1>1
<1>3. ~Live(r)
  BY <1>1 DEF Live, Inserted
<1>4. \A d \in Conversations : \A i \in 1..Len(prompts[d]) : CurrentReply(d, i)' = CurrentReply(d, i)
  BY <1>1, <1>3, ReplyStays
<1>5. \A d \in Conversations : d # c => Exchanges'[d] = Exchanges[d]
  <2>1. \A d \in Conversations : d # c => prompts'[d] = prompts[d]
    BY <1>1 DEF IInv, TypeOK
  <2> QED BY <1>4, <2>1, SameExchanges
<1>6. Exchanges'[c] = Append(Exchanges[c], [key |-> k, reply |-> r])
  <2> DEFINE x == [key |-> k, reply |-> r]
  <2>0. PICK n \in Nat : n = Len(prompts[c])
    BY ExchangesAreSeq
  <2>1. prompts[c] \in Seq(Keys \cup {NoKey}) /\ prompts'[c] = Append(prompts[c], k)
    BY <1>1, <1>2 DEF IInv, TypeOK
  <2>2. /\ n \in Nat /\ Len(prompts'[c]) = n + 1 /\ prompts'[c][n + 1] = k
        /\ \A i \in 1..n : prompts'[c][i] = prompts[c][i]
    BY <2>0, <2>1
  <2>3. CurrentReply(c, n + 1)' = r
    BY <1>1, <2>0, ReplyIsNext
  <2>4. /\ Exchanges[c] \in Seq(Exchange) /\ Len(Exchanges[c]) = n
        /\ \A i \in 1..n : Exchanges[c][i] = [key |-> prompts[c][i], reply |-> CurrentReply(c, i)]
    BY <2>0, ExchangesAreSeq
  <2>5. Exchanges'[c] = [i \in 1..n + 1 |-> [key |-> prompts'[c][i], reply |-> CurrentReply(c, i)']]
    BY <2>2 DEF Exchanges
  <2>6. x \in Exchange
    BY DEF Exchange
  <2> HIDE DEF x
  <2>7. /\ Append(Exchanges[c], x) \in Seq(Exchange) /\ Len(Append(Exchanges[c], x)) = n + 1
        /\ Append(Exchanges[c], x)[n + 1] = x
        /\ \A i \in 1..n : Append(Exchanges[c], x)[i] = Exchanges[c][i]
    BY <2>2, <2>4, <2>6
  <2>8. ASSUME NEW i \in 1..n + 1 PROVE Exchanges'[c][i] = Append(Exchanges[c], x)[i]
    <3>1. CASE i = n + 1
      BY <2>2, <2>3, <2>5, <2>7, <3>1 DEF x
    <3>2. CASE i \in 1..n
      <4>1. CurrentReply(c, i)' = CurrentReply(c, i)
        BY <1>4, <2>0, <3>2
      <4>2. Exchanges'[c][i] = [key |-> prompts'[c][i], reply |-> CurrentReply(c, i)']
        BY <2>5
      <4>3. Append(Exchanges[c], x)[i] = [key |-> prompts[c][i], reply |-> CurrentReply(c, i)]
        BY <2>4, <2>7, <3>2
      <4>4. prompts'[c][i] = prompts[c][i]
        BY <2>2, <3>2
      <4> QED BY <4>1, <4>2, <4>3, <4>4
    <3>3. i = n + 1 \/ i \in 1..n
      BY <2>0
    <3> QED BY <3>1, <3>2, <3>3
  <2>9. Append(Exchanges[c], x) = [i \in 1..n + 1 |-> Append(Exchanges[c], x)[i]]
    BY <2>7, LenProperties
  <2>10. DOMAIN Exchanges'[c] = 1..n + 1 /\ Exchanges'[c] = [i \in 1..n + 1 |-> Exchanges'[c][i]]
    BY <2>5
  <2> QED BY <2>8, <2>9, <2>10 DEF x
<1>7. Exchanges' = [Exchanges EXCEPT ![c] = Append(@, [key |-> k, reply |-> r])]
  BY <1>5, <1>6 DEF Exchanges
<1>8. k = NoKey \/ ~T!Asked(k)
  <2> SUFFICES ASSUME k # NoKey, NEW d \in Conversations, NEW i \in 1..Len(Exchanges[d]),
                      Exchanges[d][i].key = k
               PROVE  FALSE
    BY DEF T!Asked
  <2>1. i \in 1..Len(prompts[d])
    BY ExchangesAreSeq
  <2>2. Exchanges[d][i] = [key |-> prompts[d][i], reply |-> CurrentReply(d, i)]
    BY <2>1, ExchangesAreSeq
  <2>3. prompts[d][i] = k
    BY <2>2
  <2> QED BY <1>1, <1>2, <2>1, <2>3 DEF KeyUsed, KeyIn
<1> QED BY <1>1, <1>7, <1>8 DEF T!Ask

\* A replacement re-answers the last exchange of its conversation.
LEMMA RefinesReanswer ==
    ASSUME IInv, IInv', Answered, Numbered, NEW q \in Requests, NEW r \in Replies,
           SupersedeCommit(q, r)
    PROVE  \E c \in Conversations : T!Reanswer(c, r)
<1>1. PICK c \in Conversations, p \in Replies :
             /\ Live(p) /\ turnOf[p] = LastTurn(c) /\ p # r /\ prompts' = prompts /\ text' = text
             /\ status[r] = "none"
             /\ status' = [status EXCEPT ![p] = IF @ = "streaming" THEN "interrupted" ELSE @,
                                         ![r] = "streaming"]
             /\ Live(r)' /\ turnOf'[r] = turnOf[p] /\ ~Live(p)'
             /\ \A s \in Replies \ {p, r} : (Live(s)' <=> Live(s))
             /\ \A s \in Replies \ {r} : turnOf'[s] = turnOf[s]
  BY SupersedeRows
<1>0. PICK n \in Nat : n = Len(prompts[c])
  BY ExchangesAreSeq
<1>2. /\ Exchanges[c] \in Seq(Exchange) /\ Len(Exchanges[c]) = n /\ n \in Nat
      /\ \A i \in 1..n : Exchanges[c][i] = [key |-> prompts[c][i], reply |-> CurrentReply(c, i)]
      /\ Exchanges[c] = [i \in 1..n |-> [key |-> prompts[c][i], reply |-> CurrentReply(c, i)]]
  BY <1>0, ExchangesAreSeq
<1>3. n > 0
  <2>1. turnOf[p][2] # 0
    BY <1>1 DEF Numbered, Live
  <2> QED BY <1>0, <1>1, <2>1 DEF LastTurn
<1>4. CurrentReply(c, n) = p
  BY <1>0, <1>1, ReplyIs DEF LastTurn
<1>5. CurrentReply(c, n)' = r
  BY <1>0, <1>1, ReplyIsNext DEF LastTurn
<1>6. ~Live(r)
  BY <1>1 DEF Live, Inserted
<1>7. ASSUME NEW d \in Conversations, NEW i \in 1..Len(prompts[d]), <<d, i>> # <<c, n>>
      PROVE  CurrentReply(d, i)' = CurrentReply(d, i)
  <2>1. \A s \in Replies : Live(s) /\ turnOf[s] = <<d, i>> => s \notin {p, r}
    BY <1>0, <1>1, <1>6, <1>7 DEF LastTurn
  <2> QED BY <1>1, <2>1, ReplyStays
<1>8. \A d \in Conversations : d # c => Exchanges'[d] = Exchanges[d]
  BY <1>1, <1>7, SameExchanges
<1>9. Exchanges'[c] = [i \in 1..n |-> [key |-> prompts[c][i], reply |-> CurrentReply(c, i)']]
  BY <1>0, <1>1 DEF Exchanges
<1>10. Exchanges'[c] = [Exchanges[c] EXCEPT ![n].reply = r]
  <2>1. ASSUME NEW i \in 1..n, i # n PROVE CurrentReply(c, i)' = CurrentReply(c, i)
    BY <1>0, <1>7, <2>1
  <2>2. [Exchanges[c] EXCEPT ![n].reply = r] =
          [i \in 1..n |-> IF i = n THEN [Exchanges[c][n] EXCEPT !.reply = r] ELSE Exchanges[c][i]]
    BY <1>2
  <2>3. n \in 1..n
    BY <1>3
  <2>4. [Exchanges[c][n] EXCEPT !.reply = r] = [key |-> prompts[c][n], reply |-> r]
    BY <1>2, <2>3
  <2> QED BY <1>2, <1>5, <1>9, <2>1, <2>2, <2>3, <2>4
<1>11. Exchanges' = [Exchanges EXCEPT ![c][n].reply = r]
  <2>1. Exchanges' = [Exchanges EXCEPT ![c] = Exchanges'[c]]
    BY <1>8 DEF Exchanges
  <2> QED BY <1>10, <2>1
<1>12. Exchanges[c][n].reply = p
  BY <1>2, <1>3, <1>4
<1> QED BY <1>1, <1>2, <1>3, <1>11, <1>12 DEF T!Reanswer

\* The handlers, their detached finalize, crashes and the reaper implement the
\* transcript: a prompt is appended once, only the last exchange is ever
\* re-answered, and a reply is settled once.
THEOREM TranscriptImplemented == Spec => ImplementsTranscript
<1>1. Init => T!TInit
  <2> SUFFICES ASSUME Init PROVE T!TInit
    OBVIOUS
  <2>1. ASSUME NEW c \in Conversations PROVE Exchanges[c] = << >>
    <3>1. Len(prompts[c]) = 0
      BY DEF Init
    <3> QED BY <3>1 DEF Exchanges
  <2> QED BY <2>1 DEF T!TInit, Init, Exchanges
<1>2. IInv /\ IInv' /\ Answered /\ Numbered /\ [Next]_vars => [T!TNext]_(T!tvars)
  <2> SUFFICES ASSUME IInv, IInv', Answered, Numbered, [Next]_vars PROVE [T!TNext]_(T!tvars)
    OBVIOUS
  <2>1. Writes
    BY StepWrites
  <2>2. CASE UNCHANGED rows
    BY <2>2, RefinesQuiet
  <2>3. ASSUME NEW r \in Replies, SettlesRow(r) PROVE T!TNext
    BY <2>3, RefinesSettle DEF T!TNext
  <2>4. ASSUME NEW q \in Requests, NEW r \in Replies, SendOpenTurn(q, r) PROVE T!TNext
    BY <2>4, RefinesAsk DEF T!TNext
  <2>5. ASSUME NEW q \in Requests, NEW r \in Replies, SupersedeCommit(q, r) PROVE T!TNext
    BY <2>5, RefinesReanswer DEF T!TNext
  <2> QED BY <2>1, <2>2, <2>3, <2>4, <2>5 DEF Writes
<1> QED BY <1>1, <1>2, EveryTurnAnswered, PTL DEF Spec, ImplementsTranscript, T!TSpec

-----------------------------------------------------------------------------
(* Reviews                                                                  *)

\* A request on one review holds that review and no other request does; the others hold none.
HoldsReview(r) ==
    /\ reviewReq[r].op \in {"verdict", "unassign", "restore"} => reviewReq[r].review \in ReviewIds
    /\ reviewReq[r].op \in {"idle", "assign", "bulk"} => reviewReq[r].review = None
    /\ reviewReq[r].op # "idle" => reviewReq[r].by \in Users
    /\ \A q \in Requests : q # r /\ reviewReq[q].review = reviewReq[r].review => reviewReq[r].review = None

\* What the request checked of the review it holds is still so when it commits.
CheckStands(r) ==
    /\ reviewReq[r].op \in {"verdict", "unassign"} => review[reviewReq[r].review].st = "live"
    /\ reviewReq[r].op = "restore" => review[reviewReq[r].review].st = "dead"
    /\ reviewReq[r].op = "unassign" =>
         \/ review[reviewReq[r].review].status = "pending"
         \/ reviewReq[r].by \in Managers
         \/ review[reviewReq[r].review].reviewer = reviewReq[r].by

\* A removed verdict was removed by the reviewer who gave it or by a manager.
RemovedByRight(v) ==
    review[v].st = "dead" /\ review[v].status = "decided" =>
        review[v].by \in Managers \/ review[v].by = review[v].reviewer

ReviewInv ==
    /\ ReviewsTypeOK
    /\ \A r \in Requests : HoldsReview(r) /\ CheckStands(r)
    /\ \A v \in ReviewIds : RemovedByRight(v)

-----------------------------------------------------------------------------
\* A step that leaves the reviews and the requests alone.
LEMMA FrameReviews ==
    ASSUME ReviewInv, ReviewsTypeOK', UNCHANGED <<review, reviewReq>>
    PROVE  ReviewInv'
BY DEF ReviewInv, HoldsReview, CheckStands, RemovedByRight

\* A step of request r that gives up what r holds.
LEMMA ReviewRequestEnds ==
    ASSUME ReviewInv, NEW r \in Requests, ReviewsTypeOK',
           reviewReq' = [reviewReq EXCEPT ![r] = IdleReviewReq],
           \A v \in ReviewIds : v # reviewReq[r].review =>
             review'[v] = review[v] \/ (review[v].st = "none" /\ review'[v].st = "live"),
           \A v \in ReviewIds : RemovedByRight(v)'
    PROVE  ReviewInv'
<1>1. ASSUME NEW q \in Requests PROVE HoldsReview(q)' /\ CheckStands(q)'
  <2>1. CASE q = r
    <3>1. reviewReq'[q] = IdleReviewReq
      BY <2>1 DEF ReviewInv, ReviewsTypeOK
    <3> QED BY <3>1 DEF HoldsReview, CheckStands, IdleReviewReq
  <2>2. CASE q # r
    <3>1. reviewReq'[q] = reviewReq[q] /\ HoldsReview(q) /\ CheckStands(q) /\ reviewReq'[r] = IdleReviewReq
      BY <2>2 DEF ReviewInv, ReviewsTypeOK
    <3>2. \A p \in Requests : p # r => reviewReq'[p] = reviewReq[p]
      BY DEF ReviewInv, ReviewsTypeOK
    <3>3. HoldsReview(q)'
      BY <3>1, <3>2, <2>2 DEF HoldsReview, IdleReviewReq
    <3>4. CheckStands(q)'
      <4>1. CASE reviewReq[q].op \in {"verdict", "unassign", "restore"}
        <5>1. reviewReq[q].review \in ReviewIds /\ reviewReq[q].review # reviewReq[r].review
          BY <4>1, <3>1, <2>2, ReviewsAssumption DEF HoldsReview
        <5>2. review'[reviewReq[q].review] = review[reviewReq[q].review]
          BY <5>1, <4>1, <3>1 DEF CheckStands
        <5> QED BY <5>2, <3>1 DEF CheckStands
      <4>2. CASE reviewReq[q].op \notin {"verdict", "unassign", "restore"}
        BY <4>2, <3>1 DEF CheckStands
      <4> QED BY <4>1, <4>2
    <3> QED BY <3>3, <3>4
  <2> QED BY <2>1, <2>2
<1> QED BY <1>1 DEF ReviewInv

\* A step in which an idle request, or one that holds no review, begins or goes on.
LEMMA ReviewRequestBegins ==
    ASSUME ReviewInv, NEW r \in Requests, ReviewsTypeOK', UNCHANGED review,
           reviewReq[r].op \in {"idle", "bulk"},
           NEW s \in ReviewRequest, reviewReq' = [reviewReq EXCEPT ![r] = s],
           s.op \in {"assign", "bulk"} => s.review = None,
           s.op \in {"verdict", "unassign", "restore"} =>
             s.review \in ReviewIds /\ ~ReviewLocked(s.review),
           s.op # "idle", s.by \in Users,
           CheckStands(r)'
    PROVE  ReviewInv'
<1>0. reviewReq'[r] = s /\ s.op \in {"assign", "bulk", "verdict", "unassign", "restore"}
      /\ \A p \in Requests : p # r => reviewReq'[p] = reviewReq[p]
  BY DEF ReviewInv, ReviewsTypeOK, ReviewRequest
<1>1. ASSUME NEW q \in Requests PROVE HoldsReview(q)' /\ CheckStands(q)'
  <2>1. CASE q = r
    BY <1>0, <2>1 DEF HoldsReview, ReviewLocked
  <2>2. CASE q # r
    <3>1. reviewReq'[q] = reviewReq[q] /\ HoldsReview(q) /\ CheckStands(q)
      BY <2>2, <1>0 DEF ReviewInv
    <3> QED BY <3>1, <1>0, <2>2 DEF HoldsReview, CheckStands, ReviewLocked
  <2> QED BY <2>1, <2>2
<1> QED BY <1>1 DEF ReviewInv, RemovedByRight

\* No request, no review.
LEMMA ReviewsStart == ReviewsInit => ReviewInv
BY ReviewsAssumption DEF ReviewsInit, ReviewInv, ReviewsTypeOK, HoldsReview, CheckStands, RemovedByRight, IdleReviewReq,
       NoReview, MessageFlag, Review, ReviewRequest

-----------------------------------------------------------------------------
\* Flags, and what other components change: the reviews are left alone.
LEMMA FlagsKeepReviews ==
    ASSUME ReviewInv,
           \/ \E u \in Users, f \in Flags : \/ create_message_flag_endpoint(u, f)
                                            \/ delete_message_flag_endpoint(u, f)
                                            \/ restore_message_flag_endpoint(u, f)
           \/ update_scenario_endpoint \/ ToggleConversation
           \/ \E u \in Users : ChangeRole(u) \/ ToggleUser(u)
    PROVE  ReviewInv'
<1>1. UNCHANGED <<review, reviewReq>>
  BY DEF create_message_flag_endpoint, delete_message_flag_endpoint, restore_message_flag_endpoint,
         update_scenario_endpoint, ToggleConversation, ChangeRole, ToggleUser
<1>2. ASSUME NEW u \in Users, NEW f \in Flags,
             \/ create_message_flag_endpoint(u, f)
             \/ delete_message_flag_endpoint(u, f)
             \/ restore_message_flag_endpoint(u, f)
      PROVE  ReviewsTypeOK'
  BY <1>2 DEF ReviewInv, ReviewsTypeOK, create_message_flag_endpoint, create_flag, MessageFlag,
     delete_message_flag_endpoint, soft_delete_flag, restore_message_flag_endpoint, restore_flag
<1>3. ASSUME update_scenario_endpoint \/ ToggleConversation PROVE ReviewsTypeOK'
  BY <1>3 DEF ReviewInv, ReviewsTypeOK, update_scenario_endpoint, ToggleConversation
<1>4. ASSUME NEW u \in Users, ChangeRole(u) \/ ToggleUser(u) PROVE ReviewsTypeOK'
  BY <1>4 DEF ReviewInv, ReviewsTypeOK, ChangeRole, ToggleUser
<1>5. ReviewsTypeOK'
  BY <1>2, <1>3, <1>4
<1> QED BY <1>1, <1>5, FrameReviews

\* The locked reads of an assignment, a verdict, an unassignment or a restore.
LEMMA ReviewReadsKeep ==
    ASSUME ReviewInv, NEW r \in Requests, NEW u \in Users,
           \/ \E x \in Users, f \in Flags :
                assign_reviewer_endpoint(r, u, f, x) \/ bulk_assign_reviewers_endpoint(r, u, f, x)
           \/ \E v \in ReviewIds : \/ update_review_endpoint(r, u, v)
                                   \/ unassign_review_endpoint(r, u, v)
                                   \/ restore_review_endpoint(r, u, v)
    PROVE  ReviewInv'
<1>0. ReviewsTypeOK /\ HoldsReview(r)
  BY DEF ReviewInv
<1>1. ASSUME NEW x \in Users, NEW f \in Flags, assign_reviewer_endpoint(r, u, f, x) PROVE ReviewInv'
  <2>0. PICK W \in SUBSET (Flags \X Users) : W = {<<f, x>>}
    <3>1. <<f, x>> \in Flags \X Users /\ reviewReq[r].rows \subseteq Flags \X Users
      BY <1>0 DEF ReviewsTypeOK, ReviewRequest
    <3> QED BY <3>1, Zenon
  <2> DEFINE s == [Busy(u, "assign") EXCEPT !.rows = W]
  <2>1. s \in ReviewRequest /\ s.op = "assign" /\ s.review = None /\ s.by = u
    BY DEF Busy, IdleReviewReq, ReviewRequest
  <2>2. reviewReq[r].op = "idle" /\ reviewReq' = [reviewReq EXCEPT ![r] = s] /\ UNCHANGED review
    BY <1>1, <2>0, Zenon DEF assign_reviewer_endpoint
  <2>5. UNCHANGED <<access, roles, gone, open, required, flag>>
    BY <1>1 DEF assign_reviewer_endpoint
  <2> HIDE DEF s
  <2>3. ReviewsTypeOK' /\ reviewReq'[r] = s
    BY <1>0, <2>1, <2>2, <2>5 DEF ReviewsTypeOK
  <2>4. CheckStands(r)'
    BY <2>1, <2>3 DEF CheckStands
  <2> QED BY <2>1, <2>2, <2>3, <2>4, ReviewRequestBegins
<1>2. ASSUME NEW x \in Users, NEW f \in Flags, bulk_assign_reviewers_endpoint(r, u, f, x) PROVE ReviewInv'
  <2>0. PICK W \in SUBSET (Flags \X Users) : W = reviewReq[r].rows \cup {<<f, x>>}
    <3>1. <<f, x>> \in Flags \X Users /\ reviewReq[r].rows \subseteq Flags \X Users
      BY <1>0 DEF ReviewsTypeOK, ReviewRequest
    <3> QED BY <3>1, Zenon
  <2> DEFINE s == [Busy(u, "bulk") EXCEPT !.rows = W]
  <2>1. s \in ReviewRequest /\ s.op = "bulk" /\ s.review = None /\ s.by = u
    BY DEF Busy, IdleReviewReq, ReviewRequest
  <2>2. reviewReq[r].op \in {"idle", "bulk"} /\ reviewReq' = [reviewReq EXCEPT ![r] = s] /\ UNCHANGED review
    BY <1>2, <2>0, Zenon DEF bulk_assign_reviewers_endpoint
  <2>5. UNCHANGED <<access, roles, gone, open, required, flag>>
    BY <1>2 DEF bulk_assign_reviewers_endpoint
  <2> HIDE DEF s
  <2>3. ReviewsTypeOK' /\ reviewReq'[r] = s
    BY <1>0, <2>1, <2>2, <2>5 DEF ReviewsTypeOK
  <2>4. CheckStands(r)'
    BY <2>1, <2>3 DEF CheckStands
  <2> QED BY <2>1, <2>2, <2>3, <2>4, ReviewRequestBegins
<1>3. ASSUME NEW v \in ReviewIds, NEW op \in {"verdict", "unassign", "restore"},
             reviewReq[r].op = "idle", reviewReq' = [reviewReq EXCEPT ![r] = [Busy(u, op) EXCEPT !.review = v]],
             UNCHANGED <<access, roles, gone, open, required, flag, review>>, ~ReviewLocked(v),
             op \in {"verdict", "unassign"} => review[v].st = "live",
             op = "restore" => review[v].st = "dead",
             op = "unassign" => review[v].status = "pending" \/ u \in Managers \/ review[v].reviewer = u
      PROVE  ReviewInv'
  <2> DEFINE s == [Busy(u, op) EXCEPT !.review = v]
  <2>1. s \in ReviewRequest /\ s.op = op /\ s.review = v /\ s.by = u
    BY DEF Busy, IdleReviewReq, ReviewRequest
  <2>2. ReviewsTypeOK' /\ reviewReq'[r] = s
    BY <1>0, <1>3, <2>1 DEF ReviewsTypeOK
  <2>3. reviewReq' = [reviewReq EXCEPT ![r] = s]
    BY <1>3
  <2> HIDE DEF s
  <2>4. CheckStands(r)'
    BY <2>1, <2>2, <1>3 DEF CheckStands
  <2> QED BY <1>3, <2>1, <2>2, <2>3, <2>4, ReviewRequestBegins
<1>4. ASSUME NEW v \in ReviewIds, update_review_endpoint(r, u, v) PROVE ReviewInv'
  BY <1>4, <1>3 DEF update_review_endpoint, get_review
<1>5. ASSUME NEW v \in ReviewIds, unassign_review_endpoint(r, u, v) PROVE ReviewInv'
  BY <1>5, <1>3 DEF unassign_review_endpoint, get_review
<1>6. ASSUME NEW v \in ReviewIds, restore_review_endpoint(r, u, v) PROVE ReviewInv'
  BY <1>6, <1>3 DEF restore_review_endpoint, get_restorable_review
<1> QED BY <1>1, <1>2, <1>4, <1>5, <1>6

\* An assignment writes rows that nobody can hold yet.
LEMMA AssignmentKeeps ==
    ASSUME ReviewInv, NEW r \in Requests, CommitAssign(r)
    PROVE  ReviewInv'
<1> DEFINE pairs == reviewReq[r].rows
<1>0. pairs \subseteq Flags \X Users /\ ReviewsTypeOK
  BY DEF ReviewInv, ReviewsTypeOK, ReviewRequest
<1>1. PICK new \in [pairs -> ReviewIds] :
      /\ \A p \in pairs : review[new[p]].st = "none"
      /\ review' = [v \in ReviewIds |->
           IF \E p \in pairs : new[p] = v
           THEN LET p == CHOOSE p \in pairs : new[p] = v
                IN  [NoReview EXCEPT !.st = "live", !.flag = p[1], !.reviewer = p[2]]
           ELSE review[v]]
  BY DEF CommitAssign, Insert
<1>2. ASSUME NEW v \in ReviewIds
      PROVE  /\ review'[v] \in Review
             /\ review'[v] = review[v] \/ (review[v].st = "none" /\ review'[v].st = "live")
  <2>1. CASE \E p \in pairs : new[p] = v
    <3> DEFINE p == CHOOSE p \in pairs : new[p] = v
    <3>1. p \in pairs /\ new[p] = v
      BY <2>1
    <3>2. p[1] \in Flags /\ p[2] \in Users
      BY <3>1, <1>0
    <3>3. review'[v] = [NoReview EXCEPT !.st = "live", !.flag = p[1], !.reviewer = p[2]]
      BY <1>1, <2>1
    <3> HIDE DEF p
    <3> QED BY <3>1, <3>2, <3>3, <1>1 DEF NoReview, Review
  <2>2. CASE ~\E p \in pairs : new[p] = v
    BY <1>0, <1>1, <2>2 DEF ReviewsTypeOK
  <2> QED BY <2>1, <2>2
<1>3. reviewReq' = [reviewReq EXCEPT ![r] = IdleReviewReq] /\ UNCHANGED <<access, roles, gone, open, required, flag>>
  BY DEF CommitAssign
<1>4. IdleReviewReq \in ReviewRequest
  BY DEF IdleReviewReq, ReviewRequest
<1>5. review' = [v \in ReviewIds |-> review'[v]]
  BY <1>1
<1>6. review' \in [ReviewIds -> Review]
  BY <1>2, <1>5
<1>7. ReviewsTypeOK'
  BY <1>0, <1>3, <1>4, <1>6 DEF ReviewsTypeOK
<1>8. \A v \in ReviewIds : RemovedByRight(v)'
  BY <1>2 DEF ReviewInv, RemovedByRight
<1> QED BY <1>2, <1>3, <1>7, <1>8, ReviewRequestEnds

\* The commits on one review, and a rollback.
LEMMA ReviewCommitsKeep ==
    ASSUME ReviewInv, NEW r \in Requests,
           RollbackReview(r) \/ update_review(r) \/ unassign_review(r) \/ restore_review(r)
    PROVE  ReviewInv'
<1>0. ReviewsTypeOK /\ HoldsReview(r) /\ CheckStands(r) /\ IdleReviewReq \in ReviewRequest /\ reviewReq[r] \in ReviewRequest
      /\ \A v \in ReviewIds : RemovedByRight(v)
  BY DEF ReviewInv, ReviewsTypeOK, IdleReviewReq, ReviewRequest
<1>1. CASE RollbackReview(r)
  <2>1. ReviewsTypeOK' /\ UNCHANGED review /\ reviewReq' = [reviewReq EXCEPT ![r] = IdleReviewReq]
    BY <1>0, <1>1 DEF RollbackReview, ReviewsTypeOK
  <2>2. \A v \in ReviewIds : RemovedByRight(v)'
    BY <2>1, <1>0 DEF RemovedByRight
  <2> QED BY <2>1, <2>2, ReviewRequestEnds
<1>2. CASE update_review(r)
  <2>1. reviewReq[r].review \in ReviewIds /\ review[reviewReq[r].review].st = "live"
    BY <1>0, <1>2 DEF update_review, HoldsReview, CheckStands
  <2>2. PICK verdict \in {"decided", "pending"} :
          review' = [review EXCEPT ![reviewReq[r].review].status = verdict]
    BY <1>0, <1>2, <2>1 DEF update_review, ReviewsTypeOK, Review
  <2>3. review' \in [ReviewIds -> Review]
    BY <1>0, <2>1, <2>2 DEF ReviewsTypeOK, Review
  <2>4. ReviewsTypeOK' /\ reviewReq' = [reviewReq EXCEPT ![r] = IdleReviewReq]
    BY <1>0, <1>2, <2>3 DEF update_review, ReviewsTypeOK
  <2>5. \A v \in ReviewIds : /\ v # reviewReq[r].review => review'[v] = review[v]
                             /\ v = reviewReq[r].review => review'[v].st = "live"
    BY <1>0, <2>1, <2>2 DEF ReviewsTypeOK, Review
  <2>6. \A v \in ReviewIds : RemovedByRight(v)'
    BY <2>5, <1>0 DEF RemovedByRight
  <2> QED BY <2>4, <2>5, <2>6, ReviewRequestEnds
<1>3. CASE unassign_review(r)
  <2>1. reviewReq[r].review \in ReviewIds
    BY <1>0, <1>3 DEF unassign_review, HoldsReview
  <2>2. review' = [review EXCEPT ![reviewReq[r].review].st = "dead", ![reviewReq[r].review].by = reviewReq[r].by]
    BY <1>3 DEF unassign_review
  <2>0. reviewReq[r].by \in Users \cup {None}
    BY <1>0 DEF ReviewRequest
  <2>3. review' \in [ReviewIds -> Review]
    BY <1>0, <2>0, <2>1, <2>2 DEF ReviewsTypeOK, Review
  <2>4. ReviewsTypeOK' /\ reviewReq' = [reviewReq EXCEPT ![r] = IdleReviewReq]
    BY <1>0, <1>3, <2>3 DEF unassign_review, ReviewsTypeOK
  <2>5. \A v \in ReviewIds :
          /\ v # reviewReq[r].review => review'[v] = review[v]
          /\ v = reviewReq[r].review => /\ review'[v].by = reviewReq[r].by
                                        /\ review'[v].status = review[v].status
                                        /\ review'[v].reviewer = review[v].reviewer
    <3>1. PICK held \in ReviewIds : held = reviewReq[r].review
      BY <2>1
    <3>2. review \in [ReviewIds -> Review] /\ review[held] \in Review
      BY <1>0 DEF ReviewsTypeOK
    <3>3. PICK new : new = [review[held] EXCEPT !.st = "dead", !.by = reviewReq[r].by]
      OBVIOUS
    <3>4. new.by = reviewReq[r].by /\ new.status = review[held].status /\ new.reviewer = review[held].reviewer
      BY <3>2, <3>3 DEF Review
    <3>5. \A v \in ReviewIds : review'[v] = IF v = held THEN new ELSE review[v]
      BY <2>2, <3>1, <3>2, <3>3
    <3> QED BY <3>1, <3>4, <3>5
  <2>6. \A v \in ReviewIds : RemovedByRight(v)'
    <3>1. \/ review[reviewReq[r].review].status = "pending"
          \/ reviewReq[r].by \in Managers
          \/ review[reviewReq[r].review].reviewer = reviewReq[r].by
      BY <1>0, <1>3 DEF CheckStands, unassign_review
    <3>2. ASSUME NEW v \in ReviewIds, v = reviewReq[r].review PROVE RemovedByRight(v)'
      BY <2>5, <3>1, <3>2 DEF RemovedByRight
    <3>3. ASSUME NEW v \in ReviewIds, v # reviewReq[r].review PROVE RemovedByRight(v)'
      BY <1>0, <2>5, <3>3 DEF RemovedByRight
    <3> QED BY <3>2, <3>3
  <2> QED BY <2>4, <2>5, <2>6, ReviewRequestEnds
<1>4. CASE restore_review(r)
  <2>1. reviewReq[r].review \in ReviewIds
    BY <1>0, <1>4 DEF restore_review, HoldsReview
  <2>2. review' = [review EXCEPT ![reviewReq[r].review].st = "live", ![reviewReq[r].review].by = None]
    BY <1>4 DEF restore_review
  <2>3. review' \in [ReviewIds -> Review]
    BY <1>0, <2>1, <2>2 DEF ReviewsTypeOK, Review
  <2>4. ReviewsTypeOK' /\ reviewReq' = [reviewReq EXCEPT ![r] = IdleReviewReq]
    BY <1>0, <1>4, <2>3 DEF restore_review, ReviewsTypeOK
  <2>5. \A v \in ReviewIds : /\ v # reviewReq[r].review => review'[v] = review[v]
                             /\ v = reviewReq[r].review => review'[v].st = "live"
    BY <1>0, <2>1, <2>2 DEF ReviewsTypeOK, Review
  <2>6. \A v \in ReviewIds : RemovedByRight(v)'
    BY <2>5, <1>0 DEF RemovedByRight
  <2> QED BY <2>4, <2>5, <2>6, ReviewRequestEnds
<1> QED BY <1>1, <1>2, <1>3, <1>4

\* Every review request holds the one review it is about, what it checked of that review is still
\* so at its commit, and a removed verdict was removed by who gave it or by a manager.
THEOREM ReviewsInvariant == ReviewsSpec => []ReviewInv
<1>1. ReviewsInit => ReviewInv
  BY ReviewsStart
<1>2. ReviewInv /\ [ReviewsNext]_reviewsVars => ReviewInv'
  <2> SUFFICES ASSUME ReviewInv, [ReviewsNext]_reviewsVars PROVE ReviewInv'
    OBVIOUS
  <2>1. CASE UNCHANGED reviewsVars
    <3>1. ReviewsTypeOK' /\ UNCHANGED <<review, reviewReq>>
      BY <2>1 DEF reviewsVars, ReviewInv, ReviewsTypeOK
    <3> QED BY <3>1, FrameReviews
  <2>2. CASE ReviewsNext
    BY <2>2, FlagsKeepReviews, ReviewReadsKeep, AssignmentKeeps, ReviewCommitsKeep DEF ReviewsNext
  <2> QED BY <2>1, <2>2
<1> QED BY <1>1, <1>2, PTL DEF ReviewsSpec

-----------------------------------------------------------------------------
\* With no assignment under way the two read the same rows.
LEMMA PickerLemma == ReviewsTypeOK => PickerExact
<1> SUFFICES ASSUME ReviewsTypeOK, NEW u \in Assigners, NEW f \in Flags, NEW r \in Requests,
                    \A q \in Requests : reviewReq[q].rows = {}
             PROVE  list_assignable_reviewers(u, f) = {x \in Users : assign_reviewer(r, u, f, x)}
  BY DEF PickerExact
<1>1. \A x : Existing(r, f, x) <=> \E v \in LiveReviews(f) : review[v].reviewer = x
  BY DEF Existing
<1>2. resolve_assignable_flag(r, u, f) <=> flag[f].st = "live" /\ group_visible_to(u)
  BY DEF resolve_assignable_flag
<1> QED BY <1>1, <1>2 DEF list_assignable_reviewers, assign_reviewer, is_assignable_annotator

\* A required count is a number: absent and zero both ask for one verdict.
LEMMA QueueLemma == ReviewsTypeOK => QueueAgrees
<1> SUFFICES ASSUME ReviewsTypeOK, NEW u \in Users
             PROVE  review_queue(u) =
                      {f \in get_submission_detail(u) \cap submission_conversation_messages(u) :
                         QueueEntry(f).completed < QueueEntry(f).required}
  BY DEF QueueAgrees
<1>1. required \in Nat
  BY ReviewsAssumption DEF ReviewsTypeOK
<1>2. (IF required > 0 THEN required ELSE 1) = (IF required = 0 THEN 1 ELSE required)
  BY <1>1
<1>3. \A f : {v \in ReviewIds : review[v].flag = f /\ review[v].st = "live"} = LiveReviews(f)
  BY DEF LiveReviews
<1>4. \A f : /\ QueueEntry(f).completed = Decided(LiveReviews(f))
             /\ QueueEntry(f).required = (IF required = 0 THEN 1 ELSE required)
  BY <1>2 DEF QueueEntry
<1>5. \A f : f \in review_queue(u) <=>
               /\ f \in scope_review_flags(u) /\ flag[f].st = "live"
               /\ Decided(LiveReviews(f)) < (IF required = 0 THEN 1 ELSE required)
  BY <1>3, Zenon DEF review_queue
<1> HIDE DEF QueueEntry
<1> QED BY <1>4, <1>5, Zenon DEF get_submission_detail, submission_conversation_messages

\* Who lists a removed verdict removed it, so they gave it, or is a manager.
LEMMA RestoreListLemma == ReviewInv => RestoreListHonest
<1> SUFFICES ASSUME ReviewInv PROVE RestoreListHonest
  OBVIOUS
<1>1. ASSUME NEW u \in Assigners, NEW v \in list_deleted_reviews(u)
      PROVE  get_restorable_review(u, v) /\ MayRestoreDecided(u, v)
  <2>1. v \in ReviewIds /\ review[v].st = "dead" /\ (u \in Managers \/ review[v].by = u)
        /\ v \in scope_reviews(u)
    BY DEF list_deleted_reviews
  <2>2. RemovedByRight(v) /\ review[v].status \in {"pending", "decided"}
    BY <2>1 DEF ReviewInv, ReviewsTypeOK, Review
  <2> QED BY <2>1, <2>2 DEF RemovedByRight, get_restorable_review, MayRestoreDecided
<1>2. ASSUME NEW u \in Users, NEW f \in list_deleted_flags(u) PROVE get_restorable_flag(u, f)
  BY DEF list_deleted_flags, get_restorable_flag
<1> QED BY <1>1, <1>2 DEF RestoreListHonest

\* The assign dialog offers exactly the users POST /reviews accepts.
THEOREM PickerIsExact == ReviewsSpec => []PickerExact
<1>1. ReviewInv => PickerExact
  BY PickerLemma DEF ReviewInv
<1> QED BY <1>1, ReviewsInvariant, PTL

\* What the deleted listings show, their reader may restore: no verdict is removed over the
\* head of its reviewer, whatever overlaps (unassign_review and restore_review).
THEOREM RestoreListIsHonest == ReviewsSpec => []RestoreListHonest
<1>1. ReviewInv => RestoreListHonest
  BY RestoreListLemma
<1> QED BY <1>1, ReviewsInvariant, PTL

\* The queue's SQL filter, its Python counts and the submission reads agree (review_queue).
THEOREM QueueCountsAgree == ReviewsSpec => []QueueAgrees
<1>1. ReviewInv => QueueAgrees
  BY QueueLemma DEF ReviewInv
<1> QED BY <1>1, ReviewsInvariant, PTL

-----------------------------------------------------------------------------
(* Workspace                                                                *)

\* What a request carries: the kind of row its operation is about.
WorkCarries(r) ==
    /\ workReq[r].op = "complete" => workReq[r].conv \in Convs /\ workReq[r].row \in TaskIds
    /\ workReq[r].op = "uncomplete" => workReq[r].row \in CompletionIds
    /\ workReq[r].op = "rollup" => workReq[r].grp \in Groups
    /\ workReq[r].op \in {"patch", "delete"} => workReq[r].row \in TaskIds \cup NoteIds

\* A row read FOR UPDATE is held by one request, whose snapshot is what the row holds.
Snapshot(r) ==
    workReq[r].op \in {"patch", "delete"} =>
      /\ \A q \in Requests : q # r /\ workReq[q].op \in {"patch", "delete"} => workReq[q].row # workReq[r].row
      /\ workReq[r].row \in TaskIds => task[workReq[r].row].st = "live" /\ task[workReq[r].row].text = workReq[r].before
      /\ workReq[r].row \in NoteIds => note[workReq[r].row].st = "live" /\ note[workReq[r].row].text = workReq[r].before

\* A live completion is of a task in a conversation, and the only one of the two.
OnceDone ==
    /\ \A k \in LiveCompletions : comp[k].conv \in Convs /\ comp[k].task \in TaskIds
    /\ \A k, l \in LiveCompletions : comp[k].conv = comp[l].conv /\ comp[k].task = comp[l].task => k = l

WorkInv ==
    /\ WorkspaceTypeOK
    /\ \A r \in Requests : WorkCarries(r) /\ Snapshot(r)
    /\ OnceDone

-----------------------------------------------------------------------------
\* No row, no request.
LEMMA WorkspaceStart == WorkspaceInit => WorkInv
BY WorkspaceAssumption
DEF WorkspaceInit, WorkInv, WorkspaceTypeOK, WorkCarries, Snapshot, OnceDone, LiveCompletions, IdleWorkReq,
       Conv, Task, Note, TaskCompletion, WorkRequest, Liveness

\* A request begins: it snapshots a row nobody holds, or takes no lock.
LEMMA WorkBegins ==
    ASSUME WorkInv, NEW r \in Requests, NEW s \in WorkRequest, Start(r, s),
           UNCHANGED <<scenario, conv, task, comp, note>>,
           s.op = "complete" => s.conv \in Convs /\ s.row \in TaskIds,
           s.op = "uncomplete" => s.row \in CompletionIds,
           s.op = "rollup" => s.grp \in Groups,
           s.op \in {"patch", "delete"} =>
             /\ s.row \in TaskIds \cup NoteIds /\ ~Locked(s.row)
             /\ s.row \in TaskIds => task[s.row].st = "live" /\ task[s.row].text = s.before
             /\ s.row \in NoteIds => note[s.row].st = "live" /\ note[s.row].text = s.before
    PROVE  WorkInv'
<1>1. workReq'[r] = s /\ (\A q \in Requests : q # r => workReq'[q] = workReq[q]) /\ WorkspaceTypeOK'
  BY DEF WorkInv, WorkspaceTypeOK, Start
<1>2. ASSUME NEW q \in Requests PROVE WorkCarries(q)' /\ Snapshot(q)'
  <2>1. CASE q = r
    BY <1>1, <2>1 DEF WorkCarries, Snapshot, Locked
  <2>2. CASE q # r
    <3>1. WorkCarries(q) /\ Snapshot(q) /\ workReq'[q] = workReq[q]
      BY <1>1, <2>2 DEF WorkInv
    <3>2. \A p \in Requests : p # q => \/ p = r /\ workReq'[p] = s
                                       \/ workReq'[p] = workReq[p]
      BY <1>1
    <3> QED BY <3>1, <3>2 DEF WorkCarries, Snapshot, Locked
  <2> QED BY <2>1, <2>2
<1>3. OnceDone'
  BY DEF WorkInv, OnceDone, LiveCompletions
<1> QED BY <1>1, <1>2, <1>3 DEF WorkInv

\* A request ends: the only rows it may have written are those it holds.
LEMMA WorkEnds ==
    ASSUME WorkInv, NEW r \in Requests, WorkFinish(r), WorkspaceTypeOK', OnceDone',
           \A t \in TaskIds : task'[t] = task[t] \/ (workReq[r].op \in {"patch", "delete"} /\ workReq[r].row = t),
           \A n \in NoteIds : note'[n] = note[n] \/ (workReq[r].op \in {"patch", "delete"} /\ workReq[r].row = n)
    PROVE  WorkInv'
<1>1. workReq'[r] = IdleWorkReq /\ \A q \in Requests : q # r => workReq'[q] = workReq[q]
  BY DEF WorkInv, WorkspaceTypeOK, WorkFinish
<1>2. ASSUME NEW q \in Requests PROVE WorkCarries(q)' /\ Snapshot(q)'
  <2>1. CASE q = r
    BY <1>1, <2>1 DEF WorkCarries, Snapshot, IdleWorkReq
  <2>2. CASE q # r
    <3>1. WorkCarries(q) /\ Snapshot(q) /\ workReq'[q] = workReq[q]
      BY <1>1, <2>2 DEF WorkInv
    <3>2. \A p \in Requests : \/ p = r /\ workReq'[p].op = "idle"
                              \/ workReq'[p] = workReq[p]
      BY <1>1 DEF IdleWorkReq
    <3>3. WorkCarries(q)'
      BY <3>1 DEF WorkCarries
    <3>4. CASE workReq[q].op \in {"patch", "delete"}
      <4>1. /\ workReq[q].row \in TaskIds => task'[workReq[q].row] = task[workReq[q].row]
            /\ workReq[q].row \in NoteIds => note'[workReq[q].row] = note[workReq[q].row]
        BY <2>2, <3>1, <3>4 DEF Snapshot
      <4> QED BY <3>1, <3>2, <3>3, <4>1, <3>4 DEF Snapshot
    <3> QED BY <3>1, <3>3, <3>4 DEF Snapshot
  <2> QED BY <2>1, <2>2
<1> QED BY <1>2 DEF WorkInv

\* A step that writes rows nobody can hold and touches no request.
LEMMA WorkRowWritten ==
    ASSUME WorkInv, WorkspaceTypeOK', UNCHANGED <<comp, workReq>>,
           \A t \in TaskIds : task'[t] = task[t] \/ task[t].st # "live",
           \A n \in NoteIds : note'[n] = note[n] \/ note[n].st # "live"
    PROVE  WorkInv'
<1>1. ASSUME NEW q \in Requests PROVE WorkCarries(q)' /\ Snapshot(q)'
  <2>1. WorkCarries(q) /\ Snapshot(q)
    BY DEF WorkInv
  <2> QED BY <2>1 DEF WorkCarries, Snapshot
<1>2. OnceDone'
  BY DEF WorkInv, OnceDone, LiveCompletions
<1> QED BY <1>1, <1>2 DEF WorkInv

-----------------------------------------------------------------------------
\* Creates and restores write rows that are not live; the other steps write none.
LEMMA WorkRowsKeep ==
    ASSUME WorkInv,
           \/ \E u \in Users, t \in TaskIds : \/ \E txt \in Texts : create_task_endpoint(u, t, txt)
                                              \/ restore_task_endpoint(u, t)
           \/ \E u \in Users, n \in NoteIds : \/ \E txt \in Texts, c \in Convs : create_note_endpoint(u, n, c, txt)
                                              \/ restore_note_endpoint(u, n)
           \/ \E c \in Convs : ChangeConversation(c)
           \/ ToggleScenario
    PROVE  WorkInv'
<1>0. WorkspaceTypeOK
  BY DEF WorkInv
<1>1. ASSUME NEW u \in Users, NEW t \in TaskIds, NEW txt \in Texts, create_task_endpoint(u, t, txt)
      PROVE  WorkInv'
  <2>1. WorkspaceTypeOK'
    BY <1>0, <1>1 DEF WorkspaceTypeOK, create_task_endpoint, create_task, Task, Liveness
  <2>2. \A x \in TaskIds : task'[x] = task[x] \/ task[x].st # "live"
    BY <1>0, <1>1 DEF WorkspaceTypeOK, create_task_endpoint, create_task
  <2> QED BY <1>1, <2>1, <2>2, WorkRowWritten DEF create_task_endpoint
<1>2. ASSUME NEW u \in Users, NEW t \in TaskIds, restore_task_endpoint(u, t) PROVE WorkInv'
  <2>1. WorkspaceTypeOK'
    BY <1>0, <1>2 DEF WorkspaceTypeOK, restore_task_endpoint, restore_task, Task, Liveness
  <2>2. \A x \in TaskIds : task'[x] = task[x] \/ task[x].st # "live"
    BY <1>0, <1>2 DEF WorkspaceTypeOK, restore_task_endpoint, restore_task, get_restorable_task
  <2> QED BY <1>2, <2>1, <2>2, WorkRowWritten DEF restore_task_endpoint
<1>3. ASSUME NEW u \in Users, NEW n \in NoteIds, NEW txt \in Texts, NEW c \in Convs,
             create_note_endpoint(u, n, c, txt)
      PROVE  WorkInv'
  <2>1. WorkspaceTypeOK'
    BY <1>0, <1>3 DEF WorkspaceTypeOK, create_note_endpoint, create_note, Note, Liveness
  <2>2. \A x \in NoteIds : note'[x] = note[x] \/ note[x].st # "live"
    BY <1>0, <1>3 DEF WorkspaceTypeOK, create_note_endpoint, create_note
  <2> QED BY <1>3, <2>1, <2>2, WorkRowWritten DEF create_note_endpoint
<1>4. ASSUME NEW u \in Users, NEW n \in NoteIds, restore_note_endpoint(u, n) PROVE WorkInv'
  <2>1. WorkspaceTypeOK'
    BY <1>0, <1>4 DEF WorkspaceTypeOK, restore_note_endpoint, restore_note, Note, Liveness
  <2>2. \A x \in NoteIds : note'[x] = note[x] \/ note[x].st # "live"
    BY <1>0, <1>4 DEF WorkspaceTypeOK, restore_note_endpoint, restore_note, get_restorable_note
  <2> QED BY <1>4, <2>1, <2>2, WorkRowWritten DEF restore_note_endpoint
<1>5. ASSUME NEW c \in Convs, ChangeConversation(c) PROVE WorkInv'
  <2>1. WorkspaceTypeOK'
    BY <1>0, <1>5 DEF WorkspaceTypeOK, ChangeConversation
  <2> QED BY <1>5, <2>1, WorkRowWritten DEF ChangeConversation
<1>6. ASSUME ToggleScenario PROVE WorkInv'
  <2>1. WorkspaceTypeOK'
    BY <1>0, <1>6 DEF WorkspaceTypeOK, ToggleScenario
  <2> QED BY <1>6, <2>1, WorkRowWritten DEF ToggleScenario
<1> QED BY <1>1, <1>2, <1>3, <1>4, <1>5, <1>6

\* The first reads of a PATCH, a DELETE, a roll-up and of checking a task on or off.
LEMMA WorkReadsKeep ==
    ASSUME WorkInv, NEW r \in Requests,
           \/ \E u \in Users, t \in TaskIds : update_task_endpoint(r, u, t) \/ delete_task_endpoint(r, u, t)
           \/ \E u \in Users, n \in NoteIds : update_note_endpoint(r, u, n) \/ delete_note_endpoint(r, u, n)
           \/ \E c \in Convs, t \in TaskIds : complete_task_endpoint(r, c, t) \/ uncomplete_task_endpoint(r, c, t)
           \/ \E g \in Groups : rollup_total(r, g)
    PROVE  WorkInv'
<1>0. WorkspaceTypeOK
  BY DEF WorkInv
<1>1. ASSUME NEW u \in Users, NEW t \in TaskIds, NEW op \in {"patch", "delete"}, get_task(t),
             Start(r, [IdleWorkReq EXCEPT !.op = op, !.row = t, !.before = task[t].text, !.by = u]),
             UNCHANGED <<scenario, conv, task, comp, note>>
      PROVE  WorkInv'
  <2> DEFINE s == [IdleWorkReq EXCEPT !.op = op, !.row = t, !.before = task[t].text, !.by = u]
  <2>1. task[t].text \in Texts \cup {None} /\ t \notin NoteIds
    BY <1>0, WorkspaceAssumption DEF WorkspaceTypeOK, Task
  <2>2. s \in WorkRequest /\ s.op = op /\ s.row = t /\ s.before = task[t].text
    BY <2>1 DEF IdleWorkReq, WorkRequest
  <2>3. Start(r, s)
    BY <1>1
  <2> HIDE DEF s
  <2> QED BY <1>1, <2>1, <2>2, <2>3, WorkBegins DEF get_task
<1>2. ASSUME NEW u \in Users, NEW n \in NoteIds, NEW op \in {"patch", "delete"}, get_note(u, n),
             Start(r, [IdleWorkReq EXCEPT !.op = op, !.row = n, !.before = note[n].text, !.by = u]),
             UNCHANGED <<scenario, conv, task, comp, note>>
      PROVE  WorkInv'
  <2> DEFINE s == [IdleWorkReq EXCEPT !.op = op, !.row = n, !.before = note[n].text, !.by = u]
  <2>1. note[n].text \in Texts \cup {None} /\ n \notin TaskIds
    BY <1>0, WorkspaceAssumption DEF WorkspaceTypeOK, Note
  <2>2. s \in WorkRequest /\ s.op = op /\ s.row = n /\ s.before = note[n].text
    BY <2>1 DEF IdleWorkReq, WorkRequest
  <2>3. Start(r, s)
    BY <1>2
  <2> HIDE DEF s
  <2> QED BY <1>2, <2>1, <2>2, <2>3, WorkBegins DEF get_note
<1>3. ASSUME NEW c \in Convs, NEW t \in TaskIds, complete_task_endpoint(r, c, t) PROVE WorkInv'
  <2> DEFINE s == [IdleWorkReq EXCEPT !.op = "complete", !.row = t, !.conv = c, !.grp = conv[c].grp]
  <2>1. conv[c].grp \in Groups
    BY <1>0 DEF WorkspaceTypeOK, Conv
  <2>2. s \in WorkRequest /\ s.op = "complete" /\ s.row = t /\ s.conv = c
    BY <2>1 DEF IdleWorkReq, WorkRequest
  <2>3. Start(r, s) /\ UNCHANGED <<scenario, conv, task, comp, note>>
    BY <1>3 DEF complete_task_endpoint
  <2> HIDE DEF s
  <2> QED BY <2>2, <2>3, WorkBegins
<1>4. ASSUME NEW c \in Convs, NEW t \in TaskIds, uncomplete_task_endpoint(r, c, t) PROVE WorkInv'
  <2>1. PICK k \in CompletionIds : Start(r, [IdleWorkReq EXCEPT !.op = "uncomplete", !.row = k])
    BY <1>4 DEF uncomplete_task_endpoint, get_owned_live_completion, LiveCompletions
  <2> DEFINE s == [IdleWorkReq EXCEPT !.op = "uncomplete", !.row = k]
  <2>2. s \in WorkRequest /\ s.op = "uncomplete" /\ s.row = k
    BY DEF IdleWorkReq, WorkRequest
  <2>3. Start(r, s) /\ UNCHANGED <<scenario, conv, task, comp, note>>
    BY <1>4, <2>1 DEF uncomplete_task_endpoint
  <2> HIDE DEF s
  <2> QED BY <2>2, <2>3, WorkBegins
<1>5. ASSUME NEW u \in Users, NEW t \in TaskIds, update_task_endpoint(r, u, t) \/ delete_task_endpoint(r, u, t)
      PROVE  WorkInv'
  BY <1>5, <1>1 DEF update_task_endpoint, delete_task_endpoint
<1>6. ASSUME NEW u \in Users, NEW n \in NoteIds, update_note_endpoint(r, u, n) \/ delete_note_endpoint(r, u, n)
      PROVE  WorkInv'
  BY <1>6, <1>2 DEF update_note_endpoint, delete_note_endpoint
<1>7. ASSUME NEW g \in Groups, rollup_total(r, g) PROVE WorkInv'
  <2> DEFINE s == [IdleWorkReq EXCEPT !.op = "rollup", !.grp = g, !.counted = ConversationsOf(g)]
  <2>1. s \in WorkRequest /\ s.op = "rollup" /\ s.grp = g
    BY DEF IdleWorkReq, WorkRequest, ConversationsOf
  <2>2. Start(r, s) /\ UNCHANGED <<scenario, conv, task, comp, note>>
    BY <1>7 DEF rollup_total
  <2> HIDE DEF s
  <2> QED BY <2>1, <2>2, WorkBegins
<1> QED BY <1>3, <1>4, <1>5, <1>6, <1>7

\* The commits, and a rollback.
LEMMA WorkCommitsKeep ==
    ASSUME WorkInv, NEW r \in Requests,
           \/ \E txt \in Texts : update_task(r, txt) \/ update_note(r, txt)
           \/ soft_delete_task(r) \/ soft_delete_note(r)
           \/ \E k \in CompletionIds : complete_task(r, k)
           \/ uncomplete_task(r) \/ RollbackWork(r)
           \/ group_completed_tasks_rollup_endpoint(r)
    PROVE  WorkInv'
<1>0. WorkspaceTypeOK /\ WorkCarries(r) /\ OnceDone /\ IdleWorkReq \in WorkRequest /\ workReq[r] \in WorkRequest
  BY DEF WorkInv, WorkspaceTypeOK, IdleWorkReq, WorkRequest
<1>1. ASSUME UNCHANGED <<comp, task, note, scenario, conv>>, WorkFinish(r) PROVE WorkInv'
  <2>1. WorkspaceTypeOK' /\ OnceDone'
    BY <1>0, <1>1 DEF WorkspaceTypeOK, WorkFinish, OnceDone, LiveCompletions
  <2> QED BY <1>1, <2>1, WorkEnds
<1>2. ASSUME NEW txt \in Texts, update_task(r, txt) PROVE WorkInv'
  <2>1. WorkspaceTypeOK' /\ OnceDone'
    BY <1>0, <1>2 DEF WorkspaceTypeOK, update_task, WorkFinish, OnceDone, LiveCompletions, Task
  <2>2. \A t \in TaskIds : task'[t] = task[t] \/ workReq[r].row = t
    BY <1>0, <1>2 DEF WorkspaceTypeOK, update_task
  <2> QED BY <1>2, <2>1, <2>2, WorkEnds DEF update_task
<1>3. ASSUME soft_delete_task(r) PROVE WorkInv'
  <2>1. OnceDone' /\ workReq[r].by \in Users \cup {None}
    BY <1>0, <1>3 DEF soft_delete_task, OnceDone, LiveCompletions, WorkRequest
  <2>2. task' \in [TaskIds -> Task]
    <3> DEFINE row == workReq[r].row
               dead_row == [task[row] EXCEPT !.st = "dead", !.by = workReq[r].by]
    <3>1. task \in [TaskIds -> Task] /\ row \in TaskIds /\ task' = [task EXCEPT ![row] = dead_row]
      BY <1>0, <1>3 DEF WorkspaceTypeOK, soft_delete_task
    <3>2. task[row] \in Task
      BY <3>1
    <3>3. dead_row \in Task
      BY <2>1, <3>2 DEF Task, Liveness
    <3> QED BY <3>1, <3>3
  <2>3. WorkspaceTypeOK'
    BY <1>0, <1>3, <2>2 DEF WorkspaceTypeOK, soft_delete_task, WorkFinish
  <2>4. \A t \in TaskIds : task'[t] = task[t] \/ workReq[r].row = t
    BY <1>0, <1>3 DEF WorkspaceTypeOK, soft_delete_task
  <2> QED BY <1>3, <2>1, <2>3, <2>4, WorkEnds DEF soft_delete_task
<1>4. ASSUME NEW txt \in Texts, update_note(r, txt) PROVE WorkInv'
  <2>1. WorkspaceTypeOK' /\ OnceDone'
    BY <1>0, <1>4 DEF WorkspaceTypeOK, update_note, WorkFinish, OnceDone, LiveCompletions, Note
  <2>2. \A n \in NoteIds : note'[n] = note[n] \/ workReq[r].row = n
    BY <1>0, <1>4 DEF WorkspaceTypeOK, update_note
  <2> QED BY <1>4, <2>1, <2>2, WorkEnds DEF update_note
<1>5. ASSUME soft_delete_note(r) PROVE WorkInv'
  <2>1. OnceDone' /\ workReq[r].by \in Users \cup {None}
    BY <1>0, <1>5 DEF soft_delete_note, OnceDone, LiveCompletions, WorkRequest
  <2>2. note' \in [NoteIds -> Note]
    <3> DEFINE row == workReq[r].row
               dead_row == [note[row] EXCEPT !.st = "dead", !.by = workReq[r].by]
    <3>1. note \in [NoteIds -> Note] /\ row \in NoteIds /\ note' = [note EXCEPT ![row] = dead_row]
      BY <1>0, <1>5 DEF WorkspaceTypeOK, soft_delete_note
    <3>2. note[row] \in Note
      BY <3>1
    <3>3. dead_row \in Note
      BY <2>1, <3>2 DEF Note, Liveness
    <3> QED BY <3>1, <3>3
  <2>3. WorkspaceTypeOK'
    BY <1>0, <1>5, <2>2 DEF WorkspaceTypeOK, soft_delete_note, WorkFinish
  <2>4. \A n \in NoteIds : note'[n] = note[n] \/ workReq[r].row = n
    BY <1>0, <1>5 DEF WorkspaceTypeOK, soft_delete_note
  <2> QED BY <1>5, <2>1, <2>3, <2>4, WorkEnds DEF soft_delete_note
<1>6. ASSUME NEW k \in CompletionIds, complete_task(r, k) PROVE WorkInv'
  <2>1. CASE comp' = comp
    BY <1>1, <1>6, <2>1 DEF complete_task
  <2>2. CASE comp' # comp
    <3> DEFINE new == [st |-> "live", conv |-> workReq[r].conv, task |-> workReq[r].row, grp |-> workReq[r].grp]
    <3>1. /\ get_owned_live_completion(workReq[r].conv, workReq[r].row) = {}
          /\ comp' = [comp EXCEPT ![k] = new]
      BY <1>6, <2>2 DEF complete_task
    <3>2. workReq[r].conv \in Convs /\ workReq[r].row \in TaskIds /\ workReq[r].grp \in Groups \cup {None}
      BY <1>0, <1>6 DEF complete_task, WorkCarries, WorkRequest
    <3>3. new \in TaskCompletion
      BY <3>2 DEF TaskCompletion, Liveness
    <3>4. WorkspaceTypeOK'
      BY <1>0, <1>6, <3>1, <3>3 DEF WorkspaceTypeOK, complete_task, WorkFinish
    <3>5. comp'[k] = new /\ \A l \in CompletionIds : l # k => comp'[l] = comp[l]
      BY <1>0, <3>1 DEF WorkspaceTypeOK
    <3>6. \A l \in LiveCompletions : comp[l].conv = workReq[r].conv => comp[l].task # workReq[r].row
      BY <3>1 DEF get_owned_live_completion
    <3>7. OnceDone'
      BY <1>0, <3>2, <3>5, <3>6 DEF OnceDone, LiveCompletions
    <3> QED BY <1>6, <3>4, <3>7, WorkEnds DEF complete_task
  <2> QED BY <2>1, <2>2
<1>7. ASSUME uncomplete_task(r) PROVE WorkInv'
  <2>1. workReq[r].row \in CompletionIds
    BY <1>0, <1>7 DEF uncomplete_task, WorkCarries
  <2>2. comp' \in [CompletionIds -> TaskCompletion]
    BY <1>0, <1>7, <2>1 DEF WorkspaceTypeOK, uncomplete_task, TaskCompletion, Liveness
  <2>3. WorkspaceTypeOK'
    BY <1>0, <1>7, <2>2 DEF WorkspaceTypeOK, uncomplete_task, WorkFinish
  <2>4. \A l \in CompletionIds : comp'[l] = comp[l] \/ comp'[l].st = "dead"
    BY <1>0, <1>7, <2>1 DEF WorkspaceTypeOK, uncomplete_task, TaskCompletion
  <2>5. OnceDone'
    BY <1>0, <2>4 DEF OnceDone, LiveCompletions
  <2> QED BY <1>7, <2>3, <2>5, WorkEnds DEF uncomplete_task
<1>8. ASSUME RollbackWork(r) \/ group_completed_tasks_rollup_endpoint(r) PROVE WorkInv'
  BY <1>8, <1>1 DEF RollbackWork, group_completed_tasks_rollup_endpoint
<1> QED BY <1>2, <1>3, <1>4, <1>5, <1>6, <1>7, <1>8

\* A row read FOR UPDATE has one holder whose snapshot it still matches, and a task is completed
\* at most once in a conversation.
THEOREM WorkspaceInvariant == WorkspaceSpec => []WorkInv
<1>1. WorkspaceInit => WorkInv
  BY WorkspaceStart
<1>2. WorkInv /\ [WorkspaceNext]_workspaceVars => WorkInv'
  <2> SUFFICES ASSUME WorkInv, [WorkspaceNext]_workspaceVars PROVE WorkInv'
    OBVIOUS
  <2>1. CASE UNCHANGED workspaceVars
    <3>1. WorkspaceTypeOK'
      BY <2>1 DEF workspaceVars, WorkInv, WorkspaceTypeOK
    <3> QED BY <2>1, <3>1, WorkRowWritten DEF workspaceVars
  <2>2. CASE WorkspaceNext
    BY <2>2, WorkRowsKeep, WorkReadsKeep, WorkCommitsKeep DEF WorkspaceNext
  <2> QED BY <2>1, <2>2
<1> QED BY <1>1, <1>2, PTL DEF WorkspaceSpec

-----------------------------------------------------------------------------
\* The snapshot is that of a task or that of a note.
LEMMA SnapshotLemma == WorkInv => AuditSnapshotFresh
BY WorkspaceAssumption DEF WorkInv, WorkCarries, Snapshot, AuditSnapshotFresh

\* One completion per conversation and task: rows and conversations count the same, and of
\* the conversations that list the task those the total did not count have joined since.
LEMMA RollupLemma == WorkInv => RollupExact
<1> SUFFICES ASSUME WorkInv, NEW r \in Requests, workReq[r].op = "rollup", NEW t \in TaskIds
             PROVE  /\ group_completion_rollup(r).counts[t] <= group_completion_rollup(r).total
                         + Cardinality(ConversationsOf(workReq[r].grp) \ workReq[r].counted)
                    /\ group_completion_rollup(r).counts[t]
                         = Cardinality({c \in Convs : conv[c].grp = workReq[r].grp /\
                             \E k \in list_conversation_completions(c) : comp[k].task = t})
  BY DEF RollupExact
<1> DEFINE g == workReq[r].grp
           counted == workReq[r].counted
           members == ConversationsOf(g)
           K == {k \in LiveCompletions : comp[k].task = t /\ comp[k].conv \in members}
           B == {c \in Convs : conv[c].grp = g /\
                   \E k \in list_conversation_completions(c) : comp[k].task = t}
           f == [k \in K |-> comp[k].conv]
<1>1. group_completion_rollup(r).counts[t] = Cardinality(K)
      /\ group_completion_rollup(r).total = Cardinality(counted)
  BY DEF group_completion_rollup
<1>2. OnceDone /\ counted \in SUBSET Convs
  BY DEF WorkInv, WorkspaceTypeOK, WorkRequest
<1>3. \A k \in K : comp[k].conv \in B
  BY <1>2 DEF OnceDone, list_conversation_completions, ConversationsOf
<1>4. f \in Injection(K, B)
  <2>1. f \in [K -> B]
    BY <1>3
  <2>2. \A k, l \in K : f[k] = f[l] => k = l
    BY <1>2 DEF OnceDone
  <2> HIDE DEF f, K, B
  <2> QED BY <2>1, <2>2 DEF Injection, IsInjective
<1>5. ASSUME NEW c \in B PROVE \E k \in K : f[k] = c
  <2>1. PICK k \in list_conversation_completions(c) : comp[k].task = t
    OBVIOUS
  <2>2. conv[c].live /\ k \in LiveCompletions /\ comp[k].conv = c
    BY <2>1 DEF list_conversation_completions
  <2>3. k \in K
    BY <2>1, <2>2 DEF ConversationsOf
  <2> QED BY <2>2, <2>3
<1>6. f \in Surjection(K, B)
  <2>1. f \in [K -> B]
    BY <1>3
  <2> HIDE DEF f, K, B
  <2> QED BY <1>5, <2>1 DEF Surjection
<1>7. B \in SUBSET members /\ members \in SUBSET Convs
  BY DEF list_conversation_completions, ConversationsOf
<1> HIDE DEF K, members, counted, B, f
<1>8. IsFiniteSet(counted) /\ IsFiniteSet(members \ counted)
  <2>1. counted \in SUBSET Convs /\ members \ counted \in SUBSET Convs
    BY <1>2, <1>7
  <2> QED BY <2>1, FS_Subset, WorkspaceAssumption
<1>9. /\ IsFiniteSet(B)
      /\ Cardinality(B) <= Cardinality(counted) + Cardinality(members \ counted)
  <2> DEFINE joined == members \ counted
             U == counted \cup joined
  <2>1. IsFiniteSet(counted) /\ IsFiniteSet(joined)
    BY <1>8
  <2>2. counted \cap joined = {} /\ B \in SUBSET U
    BY <1>7
  <2> SUFFICES IsFiniteSet(B) /\ Cardinality(B) <= Cardinality(counted) + Cardinality(joined)
    OBVIOUS
  <2> HIDE DEF joined
  <2>3. IsFiniteSet(U) /\ Cardinality(U) = Cardinality(counted) + Cardinality(joined)
                                            - Cardinality(counted \cap joined)
    BY <2>1, FS_Union
  <2>4. Cardinality(counted \cap joined) = 0
    BY <2>2, FS_EmptySet
  <2>5. Cardinality(counted) \in Nat /\ Cardinality(joined) \in Nat
    BY <2>1, FS_CardinalityType
  <2> HIDE DEF U
  <2>6. Cardinality(U) = Cardinality(counted) + Cardinality(joined)
    BY <2>3, <2>4, <2>5
  <2> QED BY <2>2, <2>3, <2>6, FS_Subset
<1>10. Cardinality(K) = Cardinality(B)
  BY <1>4, <1>6, <1>9, FS_Injection
<1> QED BY <1>1, <1>9, <1>10 DEF B, members, counted

\* The roll-up of a group is the sum of what its conversations list at its second select, and
\* exceeds their number at the first by at most those that joined in between
\* (group_completion_rollup, list_conversation_completions).
THEOREM RollupIsExact == WorkspaceSpec => []RollupExact
<1>1. WorkInv => RollupExact
  BY RollupLemma
<1> QED BY <1>1, WorkspaceInvariant, PTL

\* The audit trail records the content that an edit or a delete replaces (get_task, get_note).
THEOREM SnapshotIsFresh == WorkspaceSpec => []AuditSnapshotFresh
<1>1. WorkInv => AuditSnapshotFresh
  BY SnapshotLemma
<1> QED BY <1>1, WorkspaceInvariant, PTL

-----------------------------------------------------------------------------
(* Annotations                                                              *)

\* A row an annotator may use: curated or their own.
Usable(l, u) == l \in Labels /\ label[l].st = "live" /\ label[l].author \in {None, u}

\* What a request carries; a label about to be made has a wording nobody curated, short of an overlap.
LabelRequestOK(r) ==
    /\ labelReq[r].op = "annotate" =>
         /\ labelReq[r].by \in Users
         /\ labelReq[r].label # None => Usable(labelReq[r].label, labelReq[r].by)
         /\ labelReq[r].label = None => overlapped \/ SharedNamed(labelReq[r].name) = {}
    /\ labelReq[r].op = "restore" => labelReq[r].ann \in AnnotationIds /\ ann[labelReq[r].ann].st # "none"

\* The keys the program ships have distinct wordings.
CatalogDistinct == \A k, l \in Curated : k # l /\ catalog[k] # None => catalog[k] # catalog[l]

\* The collision check of a sync under way still holds, short of an overlap.
SyncClear == Syncing => overlapped \/ Collisions = {}

\* An annotation carries a row its author may use; live ones of one author carry distinct rows.
AnnotationOK(a) == ann[a].st # "none" => ann[a].author \in Users /\ Usable(ann[a].label, ann[a].author)
DistinctRows ==
    \A a, b \in AnnotationIds :
      a # b /\ ann[a].st = "live" /\ ann[b].st = "live" /\ ann[a].author = ann[b].author
        => ann[a].label # ann[b].label

LabelInv ==
    /\ AnnotationsTypeOK
    /\ CatalogDistinct
    /\ SyncClear
    /\ OneRowPerWording
    /\ \A r \in Requests : LabelRequestOK(r)
    /\ \A a \in AnnotationIds : AnnotationOK(a)
    /\ DistinctRows

-----------------------------------------------------------------------------
(* Lemmas about the vocabulary.                                            *)

\* Every nonempty set of numbers has a least member.
LEMMA LeastNumber ==
    ASSUME NEW S \in SUBSET Nat, S # {}
    PROVE  \E n \in S : \A m \in S : n <= m
<1> DEFINE R == {p \in Nat \X Nat : p[1] < p[2]}
<1>1. IsWellFoundedOn(R, Nat)
  BY NatLessThanWellFounded, Zenon DEF OpToRel
<1>2. \A m, n \in Nat : m < n => <<m, n>> \in R
  OBVIOUS
<1> HIDE DEF R
<1>3. PICK n \in S : \A m \in S : ~(<<m, n>> \in R)
  BY <1>1, WFMin
<1>4. ASSUME NEW m \in S PROVE n <= m
  <2>1. m \in Nat /\ n \in Nat /\ ~(m < n)
    BY <1>2, <1>3
  <2> QED BY <2>1
<1> QED BY <1>4

\* First picks the row of least rank.
LEMMA FirstIs ==
    ASSUME NEW S \in SUBSET Labels, S # {}
    PROVE  First(S) \in S /\ \A k \in S : Rank[First(S)] <= Rank[k]
<1> DEFINE N == {Rank[l] : l \in S}
<1>0. \A l \in S : Rank[l] \in Nat
  BY AnnotationsAssumption DEF Labels
<1>1. N \in SUBSET Nat /\ N # {}
  BY <1>0
<1>2. PICK n \in N : \A m \in N : n <= m
  BY <1>1, LeastNumber
<1>3. PICK l \in S : n = Rank[l]
  OBVIOUS
<1>4. \A k \in S : Rank[l] <= Rank[k]
  BY <1>2, <1>3
<1> QED BY <1>4 DEF First

\* Ranks differ, so a row of least rank is the one.
LEMMA FirstUnique ==
    ASSUME NEW S \in SUBSET Labels, NEW l \in S, \A k \in S : Rank[l] <= Rank[k]
    PROVE  First(S) = l
<1>1. First(S) \in S /\ Rank[First(S)] <= Rank[l]
  BY FirstIs
<1>2. Rank[First(S)] \in Nat /\ Rank[l] \in Nat /\ Rank[l] <= Rank[First(S)]
  BY <1>1, AnnotationsAssumption DEF Labels
<1> HIDE DEF First
<1> QED BY <1>1, <1>2, AnnotationsAssumption DEF Labels

\* The row a wording resolves to is one its annotator may use; none means nobody curated it.
LEMMA FindUsable ==
    ASSUME AnnotationsTypeOK, NEW u \in Users, NEW w
    PROVE  LET l == find_or_create_user_label(u, w) IN
           IF l = None THEN SharedNamed(w) = {} ELSE Usable(l, u)
<1> DEFINE l == find_or_create_user_label(u, w)
<1>0. SharedNamed(w) \in SUBSET Labels /\ OwnNamed(u, w) \in SUBSET Labels /\ None \notin Labels
  BY AnnotationsAssumption DEF SharedNamed, OwnNamed, Named, LiveLabels, Labels
<1>1. CASE SharedNamed(w) # {}
  <2>1. l \in SharedNamed(w)
    BY <1>0, <1>1, FirstIs DEF find_or_create_user_label
  <2> HIDE DEF l
  <2>2. l \in Labels /\ label[l].st = "live" /\ label[l].author = None
    BY <2>1 DEF SharedNamed, Named, LiveLabels
  <2>3. l # None /\ Usable(l, u)
    BY <1>0, <2>2 DEF Usable
  <2> QED BY <2>3 DEF l
<1>2. CASE SharedNamed(w) = {} /\ OwnNamed(u, w) # {}
  <2>1. l \in OwnNamed(u, w)
    BY <1>0, <1>2, FirstIs DEF find_or_create_user_label
  <2> HIDE DEF l
  <2>2. l \in Labels /\ label[l].st = "live" /\ label[l].author = u
    BY <2>1 DEF OwnNamed, Named, LiveLabels
  <2>3. l # None /\ Usable(l, u)
    BY <1>0, <2>2 DEF Usable
  <2> QED BY <2>3 DEF l
<1>3. CASE SharedNamed(w) = {} /\ OwnNamed(u, w) = {}
  <2>1. l = None
    BY <1>3 DEF find_or_create_user_label
  <2> HIDE DEF l
  <2> QED BY <1>3, <2>1 DEF l
<1> QED BY <1>1, <1>2, <1>3

-----------------------------------------------------------------------------
(* The picker.                                                             *)

\* The picker and the lookup order rows alike: curated first, own next, by rank.
LEMMA PickLemma == AnnotationsTypeOK => PickEqualsType
<1> SUFFICES ASSUME AnnotationsTypeOK, NEW u \in Users, NEW l \in list_annotation_labels(u)
             PROVE  /\ resolve_label(u, l) = find_or_create_user_label(u, label[l].name)
                    /\ \A k \in list_annotation_labels(u) : label[k].name = label[l].name => k = l
  BY DEF PickEqualsType
<1> DEFINE w == label[l].name
<1>0. u # None /\ \A x \in Labels : Rank[x] \in Nat /\ \A y \in Labels : x # y => Rank[x] # Rank[y]
  BY AnnotationsAssumption DEF Labels
<1>1. \A x \in list_annotation_labels(u) : x \in Labels /\ x \in LiveLabels /\ offered(u, x) /\ x \in Named(label[x].name)
  BY DEF list_annotation_labels, LiveLabels, Named
<1>2. ASSUME NEW x \in list_annotation_labels(u), NEW better \in Named(label[x].name), offered(u, better)
      PROVE  /\ ~(precedence(u, better) < precedence(u, x))
             /\ precedence(u, better) = precedence(u, x) => Rank[x] <= Rank[better]
  <2>1. x \in Labels /\ better \in Labels
    BY <1>1 DEF Named, LiveLabels
  <2>2. ~(Rank[better] < Rank[x]) => Rank[x] <= Rank[better]
    BY <1>0, <2>1
  <2> QED BY <1>2, <2>2 DEF list_annotation_labels
<1>3. \A x : precedence(u, x) \in {0, 1, 2}
  BY DEF precedence
<1>4. resolve_label(u, l) = find_or_create_user_label(u, w)
  <2>1. CASE label[l].author = None
    <3>1. SharedNamed(w) \in SUBSET Labels /\ l \in SharedNamed(w)
      BY <1>1, <2>1 DEF SharedNamed, Named, LiveLabels
    <3>2. \A k \in SharedNamed(w) : Rank[l] <= Rank[k]
      BY <1>2, <2>1 DEF SharedNamed, offered, precedence
    <3>3. First(SharedNamed(w)) = l
      BY <3>1, <3>2, FirstUnique
    <3>4. find_or_create_user_label(u, w) = First(SharedNamed(w))
      BY <3>1 DEF find_or_create_user_label
    <3> QED BY <2>1, <3>3, <3>4 DEF resolve_label
  <2>2. CASE label[l].author = u
    <3>1. OwnNamed(u, w) \in SUBSET Labels /\ l \in OwnNamed(u, w)
      BY <1>1, <2>2 DEF OwnNamed, Named, LiveLabels
    <3>2. \A k \in OwnNamed(u, w) : Rank[l] <= Rank[k]
      BY <1>0, <1>2, <2>2 DEF OwnNamed, offered, precedence
    <3>3. First(OwnNamed(u, w)) = l
      BY <3>1, <3>2, FirstUnique
    <3>4. SharedNamed(w) = {}
      <4> SUFFICES ASSUME NEW k \in SharedNamed(w) PROVE FALSE
        OBVIOUS
      <4>1. k \in Named(label[l].name) /\ offered(u, k) /\ precedence(u, k) = 0 /\ precedence(u, l) = 1
        BY <1>0, <2>2 DEF SharedNamed, offered, precedence
      <4> QED BY <1>2, <4>1
    <3>5. find_or_create_user_label(u, w) = First(OwnNamed(u, w))
      BY <3>1, <3>4 DEF find_or_create_user_label
    <3> QED BY <2>2, <3>3, <3>5 DEF resolve_label
  <2>3. CASE label[l].author \notin {None, u}
    BY <2>3 DEF resolve_label
  <2> QED BY <2>1, <2>2, <2>3
<1>5. ASSUME NEW k \in list_annotation_labels(u), label[k].name = label[l].name PROVE k = l
  <2>1. k \in Named(label[l].name) /\ l \in Named(label[k].name) /\ offered(u, k) /\ offered(u, l)
        /\ k \in Labels /\ l \in Labels
    BY <1>1, <1>5
  <2>2. precedence(u, k) = precedence(u, l)
    BY <1>2, <1>3, <2>1
  <2>3. Rank[l] <= Rank[k] /\ Rank[k] <= Rank[l]
    BY <1>2, <2>1, <2>2
  <2> QED BY <1>0, <2>1, <2>3
<1> QED BY <1>4, <1>5

-----------------------------------------------------------------------------
(* The invariant.                                                          *)

\* No row, no request.
LEMMA AnnotationsStart == AnnotationsInit => LabelInv
<1> SUFFICES ASSUME AnnotationsInit PROVE LabelInv
  OBVIOUS
<1>1. AnnotationsTypeOK
  <2>1. catalog \in [Curated -> Words \cup {None}] /\ deploys \in 0 .. MaxDeploys
    BY AnnotationsAssumption DEF AnnotationsInit
  <2>5. convOpen \in BOOLEAN /\ overlapped \in BOOLEAN
    BY Zenon DEF AnnotationsInit
  <2>2. label \in [Labels -> AnnotationLabel] /\ \A l \in Labels : label[l].st = "none"
    BY DEF AnnotationsInit, AnnotationLabel
  <2>3. ann \in [AnnotationIds -> Annotation]
    BY DEF AnnotationsInit, Annotation
  <2>4. labelReq \in [Requests -> LabelRequest]
    BY DEF AnnotationsInit, IdleLabelReq, LabelRequest
  <2> QED BY <2>1, <2>2, <2>3, <2>4, <2>5 DEF AnnotationsTypeOK
<1>2. CatalogDistinct /\ SyncClear /\ OneRowPerWording
  BY DEF AnnotationsInit, CatalogDistinct, SyncClear, Syncing, OneRowPerWording, LiveLabels, IdleLabelReq
<1>3. DistinctRows /\ (\A r \in Requests : LabelRequestOK(r)) /\ \A a \in AnnotationIds : AnnotationOK(a)
  BY DEF AnnotationsInit, LabelRequestOK, AnnotationOK, DistinctRows, IdleLabelReq
<1> QED BY <1>1, <1>2, <1>3 DEF LabelInv

\* A step that moves request r and leaves vocabulary and annotations alone.
LEMMA LabelRequestMoves ==
    ASSUME LabelInv, NEW r \in Requests, NEW s \in LabelRequest,
           labelReq' = [labelReq EXCEPT ![r] = s],
           UNCHANGED <<catalog, deploys, convOpen, label, ann, overlapped>>,
           s.op = "sync" => Collisions = {},
           s.op = "annotate" => /\ s.by \in Users
                                /\ s.label # None => Usable(s.label, s.by)
                                /\ s.label = None => overlapped \/ SharedNamed(s.name) = {},
           s.op = "restore" => s.ann \in AnnotationIds /\ ann[s.ann].st # "none"
    PROVE  LabelInv'
<1>1. labelReq'[r] = s /\ (\A q \in Requests : q # r => labelReq'[q] = labelReq[q]) /\ AnnotationsTypeOK'
  BY DEF LabelInv, AnnotationsTypeOK
<1>2. ASSUME NEW q \in Requests PROVE LabelRequestOK(q)'
  <2>1. CASE q = r
    BY <1>1, <2>1 DEF LabelRequestOK, Usable, SharedNamed, Named, LiveLabels
  <2>2. CASE q # r
    BY <1>1, <2>2 DEF LabelInv, LabelRequestOK, Usable, SharedNamed, Named, LiveLabels
  <2> QED BY <2>1, <2>2
<1>3. Collisions' = Collisions
  BY DEF Collisions, LiveLabels, Shipped
<1>4. SyncClear'
  <2>1. CASE s.op = "sync"
    BY <1>3, <2>1 DEF SyncClear
  <2>2. CASE s.op # "sync"
    BY <1>1, <1>3, <2>2 DEF LabelInv, SyncClear, Syncing
  <2> QED BY <2>1, <2>2
<1>5. CatalogDistinct' /\ OneRowPerWording' /\ DistinctRows' /\ \A a \in AnnotationIds : AnnotationOK(a)'
  BY DEF LabelInv, CatalogDistinct, OneRowPerWording, LiveLabels, DistinctRows, AnnotationOK, Usable
<1> QED BY <1>1, <1>2, <1>4, <1>5 DEF LabelInv

\* A request that ended.
LEMMA LabelRequestIdle == IdleLabelReq \in LabelRequest /\ IdleLabelReq.op = "idle"
BY AnnotationsAssumption DEF IdleLabelReq, LabelRequest

\* A new catalog comes when no sync is under way.
LEMMA DeployKeeps ==
    ASSUME LabelInv, Deploy \/ ToggleConvOpen
    PROVE  LabelInv'
<1>1. CASE ToggleConvOpen
  <2>1. AnnotationsTypeOK'
    BY <1>1 DEF LabelInv, AnnotationsTypeOK, ToggleConvOpen
  <2> QED BY <1>1, <2>1 DEF LabelInv, ToggleConvOpen, CatalogDistinct, SyncClear, Syncing, Collisions,
        Shipped, OneRowPerWording, LiveLabels, LabelRequestOK, Usable, SharedNamed, Named, AnnotationOK, DistinctRows
<1>2. CASE Deploy
  <2>1. AnnotationsTypeOK'
    BY <1>2, AnnotationsAssumption DEF LabelInv, AnnotationsTypeOK, Deploy
  <2>2. CatalogDistinct'
    BY <1>2 DEF Deploy, CatalogDistinct
  <2>3. SyncClear'
    BY <1>2 DEF Deploy, SyncClear, Syncing
  <2> QED BY <1>2, <2>1, <2>2, <2>3 DEF LabelInv, Deploy, OneRowPerWording, LiveLabels, LabelRequestOK, Usable,
        SharedNamed, Named, AnnotationOK, DistinctRows
<1> QED BY <1>1, <1>2

\* The reads of a sync, of an annotation by text or by label, of a restore; and a rollback.
LEMMA AnnotatingKeeps ==
    ASSUME LabelInv, NEW r \in Requests,
           \/ sync_annotation_labels(r) \/ RollbackAnnotation(r)
           \/ \E u \in Users : \/ \E w \in Words : create_annotation_by_text(r, u, w)
                               \/ \E l \in Labels : create_annotation_by_label(r, u, l)
                               \/ \E a \in AnnotationIds : restore_annotation_endpoint(r, u, a)
    PROVE  LabelInv'
<1>0. AnnotationsTypeOK
  BY DEF LabelInv
<1>1. CASE RollbackAnnotation(r)
  BY <1>1, LabelRequestIdle, LabelRequestMoves DEF RollbackAnnotation
<1>2. CASE sync_annotation_labels(r)
  <2> DEFINE s == [IdleLabelReq EXCEPT !.op = "sync"]
  <2>1. s \in LabelRequest /\ s.op = "sync"
    BY DEF IdleLabelReq, LabelRequest
  <2>2. labelReq' = [labelReq EXCEPT ![r] = s] /\ UNCHANGED <<catalog, deploys, convOpen, label, ann, overlapped>>
        /\ Collisions = {}
    BY <1>2 DEF sync_annotation_labels
  <2> HIDE DEF s
  <2> QED BY <2>1, <2>2, LabelRequestMoves
<1>3. ASSUME NEW u \in Users, NEW w \in Words \cup {None}, NEW l \in Labels \cup {None}, Annotate(r, u, l, w),
             l # None => Usable(l, u), l = None => SharedNamed(w) = {}
      PROVE  LabelInv'
  <2> DEFINE s == [IdleLabelReq EXCEPT !.op = "annotate", !.by = u, !.label = l, !.name = w]
  <2>1. s \in LabelRequest /\ s.op = "annotate" /\ s.by = u /\ s.label = l /\ s.name = w
    BY DEF IdleLabelReq, LabelRequest
  <2>2. labelReq' = [labelReq EXCEPT ![r] = s] /\ UNCHANGED <<catalog, deploys, convOpen, label, ann, overlapped>>
    BY <1>3 DEF Annotate
  <2> HIDE DEF s
  <2> QED BY <1>3, <2>1, <2>2, LabelRequestMoves
<1>4. ASSUME NEW u \in Users, NEW w
      PROVE  /\ find_or_create_user_label(u, w) \in Labels \cup {None}
             /\ find_or_create_user_label(u, w) # None => Usable(find_or_create_user_label(u, w), u)
             /\ find_or_create_user_label(u, w) = None => SharedNamed(w) = {}
  BY <1>0, FindUsable DEF Usable
<1>5. ASSUME NEW u \in Users, NEW w \in Words, create_annotation_by_text(r, u, w) PROVE LabelInv'
  BY <1>3, <1>4, <1>5 DEF create_annotation_by_text
<1>6. ASSUME NEW u \in Users, NEW l \in Labels, create_annotation_by_label(r, u, l) PROVE LabelInv'
  <2> DEFINE k == resolve_label(u, l)
  <2>1. label[l].name \in Words \cup {None}
    BY <1>0 DEF AnnotationsTypeOK, AnnotationLabel
  <2>2. k \in Labels \cup {None} /\ (k # None => Usable(k, u)) /\ (k = None => SharedNamed(label[l].name) = {})
    <3>1. CASE label[l].author \in {None, u}
      BY <3>1, <1>6, AnnotationsAssumption DEF resolve_label, Usable, create_annotation_by_label, LiveLabels, Labels
    <3>2. CASE label[l].author \notin {None, u}
      <4>1. k = find_or_create_user_label(u, label[l].name)
        BY <3>2 DEF resolve_label
      <4> QED BY <4>1, <1>4
    <3> QED BY <3>1, <3>2
  <2>3. Annotate(r, u, k, label[l].name)
    BY <1>6 DEF create_annotation_by_label
  <2> HIDE DEF k
  <2> QED BY <1>3, <2>1, <2>2, <2>3
<1>7. ASSUME NEW u \in Users, NEW a \in AnnotationIds, restore_annotation_endpoint(r, u, a) PROVE LabelInv'
  <2> DEFINE s == [IdleLabelReq EXCEPT !.op = "restore", !.ann = a]
  <2>1. s \in LabelRequest /\ s.op = "restore" /\ s.ann = a
    BY DEF IdleLabelReq, LabelRequest
  <2>2. /\ labelReq' = [labelReq EXCEPT ![r] = s] /\ UNCHANGED <<catalog, deploys, convOpen, label, ann, overlapped>>
        /\ ann[a].st = "dead"
    BY <1>7 DEF restore_annotation_endpoint, get_restorable_annotation
  <2> HIDE DEF s
  <2> QED BY <2>1, <2>2, LabelRequestMoves
<1> QED BY <1>1, <1>2, <1>5, <1>6, <1>7

\* A sync rewords and revives the shipped rows: no other live row holds one of their wordings.
LEMMA SyncKeeps ==
    ASSUME LabelInv, NEW r \in Requests, SyncCommit(r)
    PROVE  LabelInv'
<1>0. AnnotationsTypeOK /\ Shipped \subseteq Curated /\ Curated \subseteq Labels
  BY DEF LabelInv, Shipped, Labels
<1>1. /\ \A l \in Shipped : label'[l] = [st |-> "live", author |-> None, name |-> catalog[l]]
      /\ \A l \in Labels \ Shipped : label'[l] = label[l]
  BY <1>0 DEF SyncCommit
<1>12. \A l \in Shipped : catalog[l] # None /\ catalog[l] \in Words
  BY <1>0 DEF AnnotationsTypeOK, Shipped
<1>13. ASSUME NEW l \in Shipped
       PROVE  /\ label'[l].st = "live" /\ label'[l].author = None /\ label'[l].name = catalog[l]
              /\ label'[l] \in AnnotationLabel
  <2>1. label'[l] = [st |-> "live", author |-> None, name |-> catalog[l]]
    BY <1>1
  <2> QED BY <1>12, <2>1 DEF AnnotationLabel
<1>2. \A l \in Shipped : label'[l].st = "live" /\ label'[l].author = None /\ label'[l].name = catalog[l]
  BY <1>13
<1>3. labelReq' = [labelReq EXCEPT ![r] = IdleLabelReq] /\ UNCHANGED <<catalog, deploys, convOpen, ann>>
      /\ overlapped' = (overlapped \/ MakingLabel) /\ Shipped' = Shipped
  BY DEF SyncCommit, Shipped
<1>4. /\ labelReq'[r] = IdleLabelReq /\ (\A q \in Requests : q # r => labelReq'[q] = labelReq[q])
      /\ labelReq' \in [Requests -> LabelRequest]
  BY <1>0, <1>3, LabelRequestIdle DEF AnnotationsTypeOK
<1>5. AnnotationsTypeOK'
  <2>1. \A l \in Shipped : label'[l] \in AnnotationLabel
    BY <1>13
  <2>2. \A l \in Labels : label'[l] \in AnnotationLabel
    BY <1>0, <1>1, <2>1 DEF AnnotationsTypeOK
  <2>3. label' = [l \in Labels |-> label'[l]]
    BY DEF SyncCommit
  <2>4. label' \in [Labels -> AnnotationLabel]
    BY <2>2, <2>3
  <2>5. overlapped' \in BOOLEAN
    BY <1>0, <1>3 DEF AnnotationsTypeOK
  <2>6. \A l \in Labels : label'[l].st = "live" => (label'[l].author = None) = (l \in Curated)
    BY <1>0, <1>1, <1>2 DEF AnnotationsTypeOK
  <2> QED BY <1>0, <1>3, <1>4, <2>4, <2>5, <2>6 DEF AnnotationsTypeOK
<1>6. overlapped \/ Collisions = {}
  BY DEF LabelInv, SyncClear, Syncing, SyncCommit
<1>7. SyncClear'
  <2> SUFFICES ASSUME ~overlapped' PROVE Collisions' = {}
    BY DEF SyncClear
  <2>1. Collisions = {}
    BY <1>3, <1>6
  <2>2. Collisions' \subseteq Collisions
    BY <1>1, <1>3 DEF Collisions, LiveLabels
  <2> QED BY <2>1, <2>2
<1>8. OneRowPerWording'
  <2> SUFFICES ASSUME NEW k \in LiveLabels', NEW l \in LiveLabels', k # l, label'[k].name = label'[l].name, ~overlapped'
               PROVE  label'[k].author # None /\ label'[l].author # None /\ label'[k].author # label'[l].author
    BY DEF OneRowPerWording
  <2>0. k \in Labels /\ l \in Labels /\ ~overlapped /\ Collisions = {}
    BY <1>3, <1>6 DEF LiveLabels
  <2>1. ASSUME NEW x \in Shipped, NEW y \in LiveLabels' \ Shipped, label'[x].name = label'[y].name PROVE FALSE
    <3>1. y \in LiveLabels /\ catalog[x] = label[y].name
      BY <1>1, <1>2, <2>1 DEF LiveLabels
    <3>2. y \in Collisions
      BY <3>1 DEF Collisions
    <3> QED BY <2>0, <3>2
  <2>2. ~(k \in Shipped /\ l \in Shipped)
    BY <1>0, <1>2, <1>12 DEF LabelInv, CatalogDistinct
  <2>3. k \notin Shipped /\ l \notin Shipped
    BY <2>1, <2>2
  <2>4. label'[k] = label[k] /\ label'[l] = label[l] /\ k \in LiveLabels /\ l \in LiveLabels
    BY <1>1, <2>0, <2>3 DEF LiveLabels
  <2> QED BY <2>0, <2>4 DEF LabelInv, OneRowPerWording
<1>9. \A l, u : Usable(l, u) => Usable(l, u)'
  BY <1>1, <1>2 DEF Usable
<1>10. ASSUME NEW q \in Requests PROVE LabelRequestOK(q)'
  <2>1. CASE q = r
    BY <1>4, <2>1 DEF LabelRequestOK, IdleLabelReq
  <2>2. CASE q # r
    <3>1. labelReq'[q] = labelReq[q] /\ LabelRequestOK(q)
      BY <1>4, <2>2 DEF LabelInv
    <3>2. labelReq[q].op = "annotate" /\ labelReq[q].label = None => overlapped'
      BY <1>3 DEF MakingLabel
    <3> QED BY <1>3, <1>9, <3>1, <3>2 DEF LabelRequestOK
  <2> QED BY <2>1, <2>2
<1>11. CatalogDistinct' /\ DistinctRows' /\ \A a \in AnnotationIds : AnnotationOK(a)'
  BY <1>3, <1>9 DEF LabelInv, CatalogDistinct, DistinctRows, AnnotationOK
<1> QED BY <1>5, <1>7, <1>8, <1>10, <1>11 DEF LabelInv

\* A step that writes annotations only.
LEMMA AnnotationsMove ==
    ASSUME LabelInv, AnnotationsTypeOK', UNCHANGED <<catalog, label, overlapped>>,
           \A q \in Requests : labelReq'[q] = labelReq[q] \/ labelReq'[q] = IdleLabelReq,
           \A a \in AnnotationIds : ann[a].st # "none" => ann'[a].st # "none",
           \A a \in AnnotationIds : AnnotationOK(a)', DistinctRows'
    PROVE  LabelInv'
<1>1. ASSUME NEW q \in Requests PROVE LabelRequestOK(q)'
  <2>1. LabelRequestOK(q)
    BY DEF LabelInv
  <2>2. CASE labelReq'[q] = IdleLabelReq
    BY <2>2 DEF LabelRequestOK, IdleLabelReq
  <2>3. CASE labelReq'[q] = labelReq[q]
    BY <2>1, <2>3 DEF LabelRequestOK, Usable, SharedNamed, Named, LiveLabels
  <2> QED BY <2>2, <2>3
<1>2. SyncClear'
  BY DEF LabelInv, SyncClear, Syncing, Collisions, Shipped, LiveLabels, IdleLabelReq
<1>3. CatalogDistinct' /\ OneRowPerWording'
  BY DEF LabelInv, CatalogDistinct, OneRowPerWording, LiveLabels
<1> QED BY <1>1, <1>2, <1>3 DEF LabelInv

\* A removed annotation keeps its row and its author.
LEMMA AnnotationDeleted ==
    ASSUME LabelInv, NEW u \in Users, NEW a \in AnnotationIds, delete_annotation_endpoint(u, a)
    PROVE  LabelInv'
<1>0. AnnotationsTypeOK /\ DistinctRows /\ \A b \in AnnotationIds : AnnotationOK(b)
  BY DEF LabelInv
<1>1. ann' = [ann EXCEPT ![a].st = "dead", ![a].by = u] /\ ann[a].st = "live"
      /\ UNCHANGED <<catalog, deploys, convOpen, label, labelReq, overlapped>>
  BY DEF delete_annotation_endpoint, soft_delete_annotation, get_annotation
<1>7. ann \in [AnnotationIds -> Annotation] /\ label' = label
  BY <1>0, <1>1 DEF AnnotationsTypeOK
<1>2. ann' \in [AnnotationIds -> Annotation]
  BY <1>1, <1>7 DEF Annotation
<1>3. AnnotationsTypeOK'
  BY <1>0, <1>1, <1>2 DEF AnnotationsTypeOK
<1>4. \A b \in AnnotationIds : /\ ann'[b].author = ann[b].author /\ ann'[b].label = ann[b].label
                               /\ ann'[b].st = ann[b].st \/ (ann'[b].st = "dead" /\ ann[b].st = "live")
  BY <1>1, <1>7 DEF Annotation
<1>5. \A b \in AnnotationIds : AnnotationOK(b)'
  BY <1>0, <1>7, <1>4 DEF AnnotationOK, Usable
<1>6. DistinctRows'
  BY <1>0, <1>4 DEF DistinctRows
<1> QED BY <1>1, <1>3, <1>4, <1>5, <1>6, AnnotationsMove

\* The index refuses to revive a second one of the same row and author.
LEMMA AnnotationRestored ==
    ASSUME LabelInv, NEW r \in Requests, restore_annotation(r)
    PROVE  LabelInv'
<1> DEFINE a == labelReq[r].ann
<1>0. AnnotationsTypeOK /\ DistinctRows /\ (\A b \in AnnotationIds : AnnotationOK(b)) /\ LabelRequestOK(r)
  BY DEF LabelInv
<1>1. /\ ann' = [ann EXCEPT ![a].st = "live", ![a].by = None]
      /\ labelReq' = [labelReq EXCEPT ![r] = IdleLabelReq]
      /\ UNCHANGED <<catalog, deploys, convOpen, label, overlapped>>
      /\ Duplicates(ann[a].author, ann[a].label) = {}
  BY DEF restore_annotation
<1>2. a \in AnnotationIds /\ ann[a].st # "none"
  BY <1>0 DEF LabelRequestOK, restore_annotation
<1> HIDE DEF a
<1>10. ann \in [AnnotationIds -> Annotation] /\ label' = label
  BY <1>0, <1>1 DEF AnnotationsTypeOK
<1>3. ann' \in [AnnotationIds -> Annotation]
  BY <1>1, <1>2, <1>10 DEF Annotation
<1>4. AnnotationsTypeOK' /\ \A q \in Requests : labelReq'[q] = labelReq[q] \/ labelReq'[q] = IdleLabelReq
  BY <1>0, <1>1, <1>3, LabelRequestIdle DEF AnnotationsTypeOK
<1>5. \A b \in AnnotationIds : /\ ann'[b].author = ann[b].author /\ ann'[b].label = ann[b].label
                               /\ b # a => ann'[b].st = ann[b].st
                               /\ b = a => ann'[b].st = "live"
  BY <1>1, <1>2, <1>10 DEF Annotation
<1>6. \A b \in AnnotationIds : AnnotationOK(b)'
  BY <1>0, <1>2, <1>5, <1>10 DEF AnnotationOK, Usable
<1>7. \A b \in AnnotationIds : ann[b].st = "live" /\ ann[b].label = ann[a].label => ann[b].author # ann[a].author
  BY <1>1 DEF Duplicates
<1>8. DistinctRows'
  BY <1>0, <1>2, <1>5, <1>7 DEF DistinctRows
<1>9. \A b \in AnnotationIds : ann[b].st # "none" => ann'[b].st # "none"
  BY <1>5
<1> QED BY <1>1, <1>4, <1>6, <1>8, <1>9, AnnotationsMove

\* A label is made for an author who has none of that wording, when nobody curated it.
LEMMA AnnotationCreated ==
    ASSUME LabelInv, NEW r \in Requests, create_annotation(r)
    PROVE  LabelInv'
<1>16. /\ AnnotationsTypeOK /\ DistinctRows /\ (\A b \in AnnotationIds : AnnotationOK(b)) /\ LabelRequestOK(r)
       /\ labelReq[r] \in LabelRequest /\ labelReq[r].op = "annotate"
       /\ labelReq[r].by \in Users /\ labelReq[r].name \in Words \cup {None}
  BY DEF LabelInv, AnnotationsTypeOK, LabelRequest, LabelRequestOK, create_annotation
<1>17. PICK u \in Users, w \in Words \cup {None} : u = labelReq[r].by /\ w = labelReq[r].name
  BY <1>16
<1>0. /\ AnnotationsTypeOK /\ DistinctRows /\ (\A b \in AnnotationIds : AnnotationOK(b)) /\ LabelRequestOK(r)
      /\ u = labelReq[r].by /\ w = labelReq[r].name /\ labelReq[r].op = "annotate"
  BY <1>16, <1>17
<1> DEFINE made == labelReq[r].label = None /\ OwnNamed(u, w) = {}
<1>1. PICK l \in Labels :
        /\ IF labelReq[r].label # None THEN l = labelReq[r].label
           ELSE IF made THEN l \in UserLabels /\ label[l].st = "none" ELSE l \in OwnNamed(u, w)
        /\ label' = IF made THEN [label EXCEPT ![l] = [st |-> "live", author |-> u, name |-> w]] ELSE label
        /\ IF Duplicates(u, l) # {} THEN ann' = ann
           ELSE \E a \in AnnotationIds :
                  /\ ann[a].st = "none"
                  /\ ann' = [ann EXCEPT ![a] = [st |-> "live", label |-> l, author |-> u, by |-> None]]
  BY <1>17 DEF create_annotation
<1>2. /\ overlapped' = (overlapped \/ (made /\ Syncing))
      /\ labelReq' = [labelReq EXCEPT ![r] = IdleLabelReq]
      /\ UNCHANGED <<catalog, deploys, convOpen>>
  BY <1>17 DEF create_annotation
<1>3. /\ labelReq'[r] = IdleLabelReq /\ (\A q \in Requests : q # r => labelReq'[q] = labelReq[q])
      /\ labelReq' \in [Requests -> LabelRequest]
  BY <1>0, <1>2, LabelRequestIdle DEF AnnotationsTypeOK
<1>4. /\ made => /\ l \in UserLabels /\ label[l].st = "none"
                 /\ label' = [label EXCEPT ![l] = [st |-> "live", author |-> u, name |-> w]]
      /\ ~made => Usable(l, u) /\ label' = label
  BY <1>0, <1>1 DEF LabelRequestOK, OwnNamed, Named, LiveLabels, Usable
<1>5. /\ made => label'[l].st = "live" /\ label'[l].author = u /\ label'[l].name = w
      /\ \A k \in Labels : k # l => label'[k] = label[k]
      /\ ~made => label'[l] = label[l]
  BY <1>0, <1>4 DEF AnnotationsTypeOK
<1>6. label' \in [Labels -> AnnotationLabel]
  <2>1. [st |-> "live", author |-> u, name |-> w] \in AnnotationLabel
    BY <1>0 DEF AnnotationLabel
  <2> QED BY <1>0, <1>4, <2>1 DEF AnnotationsTypeOK
<1>7. \A k \in Labels : label'[k].st = "live" => (label'[k].author = None) = (k \in Curated)
  <2>1. u # None
    BY <1>0, AnnotationsAssumption
  <2>2. CASE made
    <3>1. l \notin Curated
      BY <1>4, <2>2, AnnotationsAssumption
    <3> QED BY <1>0, <1>5, <2>1, <2>2, <3>1 DEF AnnotationsTypeOK
  <2>3. CASE ~made
    BY <1>0, <1>4, <2>3 DEF AnnotationsTypeOK
  <2> QED BY <2>2, <2>3
<1>8. Usable(l, u)'
  BY <1>1, <1>4, <1>5 DEF Usable
<1>9. \A k, x : Usable(k, x) => Usable(k, x)'
  BY <1>4, <1>5 DEF Usable
<1>10. /\ ann' \in [AnnotationIds -> Annotation]
       /\ DistinctRows'
       /\ \A b \in AnnotationIds : AnnotationOK(b)'
       /\ \A b \in AnnotationIds : ann[b].st # "none" => ann'[b] = ann[b]
  <2>1. CASE ann' = ann
    BY <1>0, <1>9, <2>1 DEF AnnotationsTypeOK, DistinctRows, AnnotationOK
  <2>2. CASE ann' # ann
    <3>1. PICK a \in AnnotationIds :
            /\ ann[a].st = "none"
            /\ ann' = [ann EXCEPT ![a] = [st |-> "live", label |-> l, author |-> u, by |-> None]]
      BY <1>1, <2>2
    <3>2. Duplicates(u, l) = {}
      BY <1>1, <2>2
    <3>3. [st |-> "live", label |-> l, author |-> u, by |-> None] \in Annotation
      BY <1>0 DEF Annotation
    <3>4. ann' \in [AnnotationIds -> Annotation]
      BY <1>0, <3>1, <3>3 DEF AnnotationsTypeOK
    <3>5. /\ ann'[a].st = "live" /\ ann'[a].label = l /\ ann'[a].author = u
          /\ \A b \in AnnotationIds : b # a => ann'[b] = ann[b]
      BY <1>0, <3>1 DEF AnnotationsTypeOK
    <3>6. \A b \in AnnotationIds : ann[b].st = "live" /\ ann[b].author = u => ann[b].label # l
      BY <3>2 DEF Duplicates
    <3>7. DistinctRows'
      BY <1>0, <3>5, <3>6 DEF DistinctRows
    <3>8. \A b \in AnnotationIds : AnnotationOK(b)'
      BY <1>0, <1>8, <1>9, <3>5 DEF AnnotationOK
    <3> QED BY <3>1, <3>4, <3>5, <3>7, <3>8
  <2> QED BY <2>1, <2>2
<1>11. AnnotationsTypeOK'
  <2>1. overlapped' \in BOOLEAN
    BY <1>0, <1>2, Zenon DEF AnnotationsTypeOK
  <2> QED BY <1>0, <1>2, <1>3, <1>6, <1>7, <1>10, <2>1 DEF AnnotationsTypeOK
<1>12. SyncClear'
  <2> SUFFICES ASSUME Syncing', ~overlapped' PROVE Collisions' = {}
    BY DEF SyncClear
  <2>1. Syncing /\ ~overlapped
    BY <1>2, <1>3 DEF Syncing, IdleLabelReq
  <2>2. ~made
    BY <1>2, <2>1
  <2>3. Collisions' = Collisions
    BY <1>2, <1>4, <2>2 DEF Collisions, LiveLabels, Shipped
  <2> QED BY <2>1, <2>3 DEF LabelInv, SyncClear
<1>13. OneRowPerWording'
  <2> SUFFICES ASSUME NEW j \in LiveLabels', NEW k \in LiveLabels', j # k, label'[j].name = label'[k].name, ~overlapped'
               PROVE  label'[j].author # None /\ label'[k].author # None /\ label'[j].author # label'[k].author
    BY DEF OneRowPerWording
  <2>0. ~overlapped /\ j \in Labels /\ k \in Labels /\ OneRowPerWording
    BY <1>2 DEF LiveLabels, LabelInv
  <2>1. CASE ~made
    <3>1. label' = label /\ j \in LiveLabels /\ k \in LiveLabels
      BY <1>4, <2>1 DEF LiveLabels
    <3> QED BY <2>0, <3>1 DEF OneRowPerWording
  <2>2. CASE made
    <3>1. SharedNamed(w) = {} /\ OwnNamed(u, w) = {} /\ u # None
      BY <1>0, <2>0, <2>2, AnnotationsAssumption DEF LabelRequestOK
    <3>2. ASSUME NEW x \in LiveLabels, label[x].name = w PROVE label[x].author # None /\ label[x].author # u
      BY <3>1, <3>2 DEF SharedNamed, OwnNamed, Named
    <3>3. \A x \in LiveLabels' : x # l => x \in LiveLabels /\ label'[x] = label[x]
      BY <1>5 DEF LiveLabels
    <3>4. CASE j = l
      BY <1>5, <2>2, <3>1, <3>2, <3>3, <3>4
    <3>5. CASE k = l
      BY <1>5, <2>2, <3>1, <3>2, <3>3, <3>5
    <3>6. CASE j # l /\ k # l
      BY <2>0, <3>3, <3>6 DEF OneRowPerWording
    <3> QED BY <3>4, <3>5, <3>6
  <2> QED BY <2>1, <2>2
<1>14. ASSUME NEW q \in Requests PROVE LabelRequestOK(q)'
  <2>1. CASE q = r
    BY <1>3, <2>1 DEF LabelRequestOK, IdleLabelReq
  <2>2. CASE q # r
    <3>1. labelReq'[q] = labelReq[q] /\ LabelRequestOK(q)
      BY <1>3, <2>2 DEF LabelInv
    <3>2. \A x : SharedNamed(x) = {} => SharedNamed(x)' = {}
      <4>1. \A k \in Labels : label'[k].st = "live" /\ label'[k].author = None
                               => label[k].st = "live" /\ label'[k] = label[k]
        BY <1>0, <1>4, <1>5, AnnotationsAssumption
      <4> QED BY <4>1 DEF SharedNamed, Named, LiveLabels
    <3>3. labelReq[q].label # None /\ labelReq[q].op = "annotate" => Usable(labelReq[q].label, labelReq[q].by)'
      BY <1>9, <3>1 DEF LabelRequestOK
    <3>4. overlapped => overlapped'
      BY <1>2
    <3>5. labelReq[q].op = "restore" => ann'[labelReq[q].ann].st # "none"
      BY <1>10, <3>1 DEF LabelRequestOK
    <3> QED BY <3>1, <3>2, <3>3, <3>4, <3>5 DEF LabelRequestOK, Usable
  <2> QED BY <2>1, <2>2
<1>15. CatalogDistinct'
  BY <1>2 DEF LabelInv, CatalogDistinct
<1> QED BY <1>10, <1>11, <1>12, <1>13, <1>14, <1>15 DEF LabelInv

\* Short of an overlapped sync, a sync under way has no collision, a label about to be made has a
\* wording nobody curated, and an annotation carries a row its author may use.
THEOREM AnnotationsInvariant == AnnotationsSpec => []LabelInv
<1>1. AnnotationsInit => LabelInv
  BY AnnotationsStart
<1>2. LabelInv /\ [AnnotationsNext]_annotationsVars => LabelInv'
  <2> SUFFICES ASSUME LabelInv, [AnnotationsNext]_annotationsVars PROVE LabelInv'
    OBVIOUS
  <2>1. CASE UNCHANGED annotationsVars
    <3>1. AnnotationsTypeOK' /\ DistinctRows' /\ \A a \in AnnotationIds : AnnotationOK(a)'
      BY <2>1 DEF annotationsVars, LabelInv, AnnotationsTypeOK, DistinctRows, AnnotationOK, Usable
    <3> QED BY <2>1, <3>1, AnnotationsMove DEF annotationsVars
  <2>2. CASE AnnotationsNext
    BY <2>2, DeployKeeps, AnnotatingKeeps, SyncKeeps, AnnotationDeleted, AnnotationRestored, AnnotationCreated
    DEF AnnotationsNext
  <2> QED BY <2>1, <2>2
<1> QED BY <1>1, <1>2, PTL DEF AnnotationsSpec

\* Two live opinions of one wording and author would be two rows the author may both use.
LEMMA OpinionLemma == LabelInv => WordingsCountOnce
<1> SUFFICES ASSUME LabelInv, NEW a \in AnnotationIds, NEW b \in AnnotationIds,
                    a # b, ann[a].st = "live", ann[b].st = "live", ann[a].author = ann[b].author,
                    ~overlapped, label[ann[a].label].name = label[ann[b].label].name
             PROVE  FALSE
  BY DEF LabelInv, WordingsCountOnce, OneOpinionPerWording
<1>1. Usable(ann[a].label, ann[a].author) /\ Usable(ann[b].label, ann[a].author)
  BY DEF LabelInv, AnnotationOK
<1>2. ann[a].label # ann[b].label
  BY DEF LabelInv, DistinctRows
<1> QED BY <1>1, <1>2 DEF LabelInv, OneRowPerWording, Usable, LiveLabels

\* Picking a listed label and typing its wording name the same row (resolve_label,
\* find_or_create_user_label).
THEOREM PickIsType == AnnotationsSpec => []PickEqualsType
<1>1. LabelInv => PickEqualsType
  BY PickLemma DEF LabelInv
<1> QED BY <1>1, AnnotationsInvariant, PTL

\* A wording is one row and an annotator's opinion counts once, short of an overlapped sync
\* (sync_annotation_labels, create_annotation, restore_annotation).
THEOREM WordingCountsOnce == AnnotationsSpec => []WordingsCountOnce
<1>1. LabelInv => WordingsCountOnce
  BY OpinionLemma
<1> QED BY <1>1, AnnotationsInvariant, PTL
=============================================================================
