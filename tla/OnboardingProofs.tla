-------------------------- MODULE OnboardingProofs --------------------------
(***************************************************************************)
(* Theorems about Onboarding, for any number of requests and links.  The   *)
(* first inductive invariant says what a request may rely on between its   *)
(* steps: the rows it has locked are still stored as pending and locked by *)
(* nobody else, the link it is about to issue is its own and not yet       *)
(* inserted, and an account seen past the invited status never returns to  *)
(* it.  The second one, further down and inductive relative to the first,  *)
(* is about the lock on the account, the dates of its platform invitations *)
(* and what the account has been through.                                  *)
(***************************************************************************)
EXTENDS Onboarding, TLAPS

Unclaimed == {"none", "invited"}

\* What the request s knows in the current state.
Knows(s) ==
    /\ s.pc = "write" => \A i \in s.rows : link[i] \in Stored
    /\ s.op \in Issuers => s.id \in Links /\ link[s.id] = "none"
    /\ s.op \in {"verify", "confirmReset"} => s.pc = "write" /\ s.id \in s.rows
    /\ s.op = "accept" => s.id \in Invitations
    /\ s.pc = "insert" => s.op \in Issuers \cup {"oidc"} /\ s.rows = {}
    /\ s.op \in Issuers /\ s.id \in Verifications =>
          IF s.pc = "insert" THEN s.op = "register" ELSE user.st \notin Unclaimed
    /\ s.op = "confirmReset" => user.st \notin Unclaimed

\* Two requests hold no row lock together and issue different links.
Apart(r, s) ==
    /\ r.pc = "write" /\ s.pc = "write" => r.rows \cap s.rows = {}
    /\ r.op \in Issuers /\ s.op \in Issuers => r.id # s.id

\* Before it is claimed an account has no password and no verification row.
AccountOK ==
    user.st \in Unclaimed => user.pw = "none" /\ \A i \in Verifications : link[i] = "none"

Typed ==
    /\ user \in User
    /\ link \in [Links -> LinkStatus]
    /\ tx \in [Txs -> Tx]

IInv ==
    /\ Typed
    /\ AccountOK
    /\ \A t \in Txs : Knows(tx[t])
    /\ \A t \in Txs : \A u \in Others(t) : Apart(tx[t], tx[u])

-----------------------------------------------------------------------------
LEMMA IdleTyped == IdleTx \in Tx
BY DEF IdleTx, Tx, NoUser, User, Passwords

\* An idle request relies on nothing.
LEMMA IdleFree ==
    /\ IdleTx.pc = "idle" /\ IdleTx.op \notin Ops
    /\ \A s \in Tx : Apart(IdleTx, s) /\ Apart(s, IdleTx)
<1>1. IdleTx.pc = "idle" /\ IdleTx.op = None
  BY DEF IdleTx
<1> QED BY <1>1, ConstAssumption DEF Apart, Ops

LEMMA InitInv == Init => IInv
<1> SUFFICES ASSUME Init PROVE IInv
  OBVIOUS
<1>1. Typed
  BY IdleTyped DEF Init, Typed, NoUser, User, Passwords, LinkStatus
<1>2. AccountOK
  BY DEF Init, AccountOK, NoUser, Links
<1>3. \A t \in Txs : Knows(tx[t])
  BY IdleFree DEF Init, Knows, Ops, Issuers
<1>4. \A t \in Txs : \A u \in Others(t) : Apart(tx[t], tx[u])
  BY IdleFree, IdleTyped DEF Init, Others
<1> QED BY <1>1, <1>2, <1>3, <1>4 DEF IInv

-----------------------------------------------------------------------------
(* Steps that only move the request                                         *)

\* A request may move to a state in which it knows what that state relies on
\* and stays apart from the others.
LEMMA MoveStep ==
    ASSUME IInv, NEW t \in Txs, NEW s \in Tx, tx' = [tx EXCEPT ![t] = s],
           user' = user, link' = link, Knows(s),
           \A u \in Others(t) : Apart(s, tx[u])
    PROVE  IInv'
<1>1. Typed' /\ AccountOK'
  BY DEF IInv, Typed, AccountOK
<1>2. \A u \in Txs : tx'[u] = IF u = t THEN s ELSE tx[u]
  BY DEF IInv, Typed
<1>3. ASSUME NEW u \in Txs PROVE Knows(tx[u])'
  BY <1>2 DEF IInv, Knows
<1>4. ASSUME NEW u \in Txs, NEW v \in Others(u) PROVE Apart(tx[u], tx[v])'
  <2>1. v \in Txs /\ v # u
    BY DEF Others
  <2>2. CASE u = t
    BY <1>2, <2>1, <2>2 DEF Apart, Others
  <2>3. CASE v = t
    <3>1. Apart(s, tx[u])
      BY <2>1, <2>3 DEF Others
    <3> QED BY <1>2, <2>1, <2>3, <3>1 DEF Apart
  <2>4. CASE u # t /\ v # t
    BY <1>2, <2>1, <2>4 DEF IInv, Apart, Others
  <2> QED BY <2>2, <2>3, <2>4
<1> QED BY <1>1, <1>3, <1>4 DEF IInv, Others

\* A request that begins to issue the unused link i.
LEMMA IssuerBegins ==
    ASSUME IInv, NEW t \in Txs, NEW s \in Tx, tx' = [tx EXCEPT ![t] = s],
           user' = user, link' = link,
           s.op \in Issuers, s.pc # "write", s.id \in Unused(Links), s.rows = {},
           s.id \in Verifications =>
              IF s.pc = "insert" THEN s.op = "register" ELSE user.st \notin Unclaimed
    PROVE  IInv'
<1>1. s.id \in Links /\ link[s.id] = "none" /\ \A u \in Txs : tx[u].id # s.id
  BY DEF Unused
<1>2. Knows(s)
  BY <1>1 DEF Knows, Issuers
<1>3. \A u \in Others(t) : Apart(s, tx[u])
  BY <1>1 DEF Apart, Others
<1> QED BY <1>2, <1>3, MoveStep

\* An unused id of one kind is an unused id.
LEMMA UnusedIsLink == \A S \in SUBSET Links : Unused(S) \subseteq Unused(Links) \cap S
BY DEF Unused

\* The state a request begins in, with what it read and locked.
LEMMA StateTyped ==
    ASSUME NEW op \in Ops, NEW pc \in {"insert", "lock", "share", "scan", "take", "write"},
           NEW i \in Links \cup {None}
    PROVE  LET s == State(op, pc, i)
           IN  /\ s \in Tx
               /\ s.op = op /\ s.pc = pc /\ s.id = i /\ s.rows = {}
BY IdleTyped DEF State, IdleTx, Tx

\* Recording a read, a lock or a locked row keeps the other fields.
LEMMA SawTyped ==
    ASSUME NEW s \in Tx, NEW u \in User
    PROVE  LET r == [s EXCEPT !.saw = u]
           IN  r \in Tx /\ r.op = s.op /\ r.pc = s.pc /\ r.id = s.id /\ r.rows = s.rows
BY DEF Tx

LEMMA LockTyped ==
    ASSUME NEW s \in Tx
    PROVE  LET r == [s EXCEPT !.lock = "update"]
           IN  r \in Tx /\ r.op = s.op /\ r.pc = s.pc /\ r.id = s.id /\ r.rows = s.rows
BY DEF Tx

LEMMA RowsTyped ==
    ASSUME NEW s \in Tx, NEW i \in Links
    PROVE  LET r == [s EXCEPT !.rows = {i}]
           IN  r \in Tx /\ r.op = s.op /\ r.pc = s.pc /\ r.id = s.id /\ r.rows = {i}
BY DEF Tx

-----------------------------------------------------------------------------
(* Requests that begin to issue a link                                      *)

LEMMA IssuersPreserve ==
    ASSUME IInv, NEW t \in Txs, NEW i \in Links,
           \/ RegisterRead(t, i) \/ ResendVerificationRead(t, i)
           \/ InviteRead(t, i) \/ InviteGroupRead(t, i) \/ ResendInvitationBegin(t, i)
           \/ AdminResetRead(t, i) \/ RequestResetLock(t, i)
    PROVE  IInv'
<1> USE ConstAssumption DEF Links, Invitations
<1>1. CASE RegisterRead(t, i)
  <2> DEFINE pc == IF user.st = "none" THEN "insert" ELSE "lock"
             s == [State("register", pc, i) EXCEPT !.saw = user]
  <2>1. s \in Tx /\ s.op = "register" /\ s.pc = pc /\ s.id = i /\ s.rows = {}
    BY StateTyped, SawTyped DEF IInv, Typed, Ops, Issuers
  <2>2. i \in Unused(Links) /\ tx' = [tx EXCEPT ![t] = s] /\ user' = user /\ link' = link
    BY <1>1, UnusedIsLink DEF RegisterRead, Begins
  <2>3. i \in Verifications /\ pc # "insert" => user.st \notin Unclaimed
    BY <1>1 DEF RegisterRead, Unused, Unclaimed, OnboardingStatus
  <2> HIDE DEF s
  <2> QED BY <2>1, <2>2, <2>3, IssuerBegins DEF Issuers
<1>2. CASE ResendVerificationRead(t, i)
  <2> DEFINE s == [State("resendVerification", "lock", i) EXCEPT !.saw = user]
  <2>1. s \in Tx /\ s.op = "resendVerification" /\ s.pc = "lock" /\ s.id = i /\ s.rows = {}
    BY StateTyped, SawTyped DEF IInv, Typed, Ops, Issuers
  <2>2. i \in Unused(Links) /\ tx' = [tx EXCEPT ![t] = s] /\ user' = user /\ link' = link
    BY <1>2, UnusedIsLink DEF ResendVerificationRead, Begins
  <2>3. user.st \notin Unclaimed
    BY <1>2 DEF ResendVerificationRead, Unclaimed
  <2> HIDE DEF s
  <2> QED BY <2>1, <2>2, <2>3, IssuerBegins DEF Issuers
<1>3. CASE InviteRead(t, i)
  <2> DEFINE pc == IF user.st = "none" THEN "insert" ELSE "scan"
             s == [State("invite", pc, i) EXCEPT !.saw = user]
  <2>1. s \in Tx /\ s.op = "invite" /\ s.pc = pc /\ s.id = i /\ s.rows = {}
    BY StateTyped, SawTyped DEF IInv, Typed, Ops, Issuers
  <2>2. i \in Unused(Links) /\ tx' = [tx EXCEPT ![t] = s] /\ user' = user /\ link' = link
    BY <1>3, UnusedIsLink DEF InviteRead, Begins
  <2>3. i \notin Verifications
    BY <1>3 DEF InviteRead, Unused
  <2> HIDE DEF s
  <2> QED BY <2>1, <2>2, <2>3, IssuerBegins DEF Issuers
<1>4. CASE InviteGroupRead(t, i)
  <2> DEFINE pc == IF user.st = "none" THEN "insert" ELSE "share"
             s == [State("inviteGroup", pc, i) EXCEPT !.saw = user]
  <2>1. s \in Tx /\ s.op = "inviteGroup" /\ s.pc = pc /\ s.id = i /\ s.rows = {}
    BY StateTyped, SawTyped DEF IInv, Typed, Ops, Issuers
  <2>2. i \in Unused(Links) /\ tx' = [tx EXCEPT ![t] = s] /\ user' = user /\ link' = link
    BY <1>4, UnusedIsLink DEF InviteGroupRead, Begins
  <2>3. i \notin Verifications
    BY <1>4 DEF InviteGroupRead, Unused
  <2> HIDE DEF s
  <2> QED BY <2>1, <2>2, <2>3, IssuerBegins DEF Issuers
<1>5. CASE ResendInvitationBegin(t, i)
  <2> DEFINE s == State("resendInvitation", "lock", i)
  <2>1. s \in Tx /\ s.op = "resendInvitation" /\ s.pc = "lock" /\ s.id = i /\ s.rows = {}
    BY StateTyped DEF Ops, Issuers
  <2>2. i \in Unused(Links) /\ tx' = [tx EXCEPT ![t] = s] /\ user' = user /\ link' = link
    BY <1>5, UnusedIsLink DEF ResendInvitationBegin, Begins
  <2>3. i \notin Verifications
    BY <1>5 DEF ResendInvitationBegin, Unused
  <2> HIDE DEF s
  <2> QED BY <2>1, <2>2, <2>3, IssuerBegins DEF Issuers
<1>6. CASE AdminResetRead(t, i)
  <2> DEFINE s == [State("adminReset", "scan", i) EXCEPT !.saw = user]
  <2>1. s \in Tx /\ s.op = "adminReset" /\ s.pc = "scan" /\ s.id = i /\ s.rows = {}
    BY StateTyped, SawTyped DEF IInv, Typed, Ops, Issuers
  <2>2. i \in Unused(Links) /\ tx' = [tx EXCEPT ![t] = s] /\ user' = user /\ link' = link
    BY <1>6, UnusedIsLink DEF AdminResetRead, Begins
  <2>3. i \notin Verifications
    BY <1>6 DEF AdminResetRead, Unused
  <2> HIDE DEF s
  <2> QED BY <2>1, <2>2, <2>3, IssuerBegins DEF Issuers
<1>7. CASE RequestResetLock(t, i)
  <2> DEFINE s == [State("requestReset", "scan", i) EXCEPT !.lock = "update"]
  <2>1. s \in Tx /\ s.op = "requestReset" /\ s.pc = "scan" /\ s.id = i /\ s.rows = {}
    <3>1. State("requestReset", "scan", i) \in Tx
      BY StateTyped DEF Ops, Issuers
    <3> QED BY <3>1, StateTyped, LockTyped DEF Ops, Issuers
  <2>2. i \in Unused(Links) /\ tx' = [tx EXCEPT ![t] = s] /\ user' = user /\ link' = link
    BY <1>7, UnusedIsLink DEF RequestResetLock, Begins
  <2>3. i \notin Verifications
    BY <1>7 DEF RequestResetLock, Unused
  <2> HIDE DEF s
  <2> QED BY <2>1, <2>2, <2>3, IssuerBegins DEF Issuers
<1> QED BY <1>1, <1>2, <1>3, <1>4, <1>5, <1>6, <1>7

-----------------------------------------------------------------------------
(* Requests that begin otherwise                                            *)

\* A request other than an issuer that locks rows nobody else has locked.
LEMMA OtherBegins ==
    ASSUME IInv, NEW t \in Txs, NEW s \in Tx, tx' = [tx EXCEPT ![t] = s],
           user' = user, link' = link,
           s.op \notin Issuers,
           s.pc = "insert" => s.op = "oidc" /\ s.rows = {},
           s.pc = "write" => s.rows \cap Locked(t) = {} /\ \A i \in s.rows : link[i] \in Stored,
           s.op \in {"verify", "confirmReset"} => s.pc = "write" /\ s.id \in s.rows,
           s.op = "accept" => s.id \in Invitations,
           s.op = "confirmReset" => user.st \notin Unclaimed
    PROVE  IInv'
<1>1. Knows(s)
  BY DEF Knows
<1>2. \A u \in Others(t) : Apart(s, tx[u])
  BY DEF Apart, Locked, Others
<1> QED BY <1>1, <1>2, MoveStep

LEMMA OthersPreserve ==
    ASSUME IInv, NEW t \in Txs,
           \/ \E i \in Links : VerifyLock(t, i) \/ AcceptLock(t, i) \/ ConfirmLock(t, i)
           \/ RevokeInvitationLock(t) \/ OidcRead(t) \/ StatusRead(t)
    PROVE  IInv'
<1> USE DEF Ops, Issuers
<1>1. ASSUME NEW i \in Links, VerifyLock(t, i) PROVE IInv'
  <2> DEFINE s == [State("verify", "write", i) EXCEPT !.rows = {i}]
  <2>1. State("verify", "write", i) \in Tx
    BY StateTyped
  <2>2. s \in Tx /\ s.op = "verify" /\ s.pc = "write" /\ s.id = i /\ s.rows = {i}
    BY <2>1, StateTyped, RowsTyped
  <2>3. tx' = [tx EXCEPT ![t] = s] /\ user' = user /\ link' = link
        /\ link[i] \in Stored /\ i \notin Locked(t)
    BY <1>1 DEF VerifyLock, Begins, Stored
  <2> HIDE DEF s
  <2> QED BY <2>2, <2>3, OtherBegins
<1>2. ASSUME NEW i \in Links, AcceptLock(t, i) PROVE IInv'
  <2> DEFINE s == [State("accept", "lock", i) EXCEPT !.lock = "update"]
  <2>1. State("accept", "lock", i) \in Tx
    BY StateTyped
  <2>2. s \in Tx /\ s.op = "accept" /\ s.pc = "lock" /\ s.id = i
    BY <2>1, StateTyped, LockTyped
  <2>3. tx' = [tx EXCEPT ![t] = s] /\ user' = user /\ link' = link /\ i \in Invitations
    BY <1>2 DEF AcceptLock, Begins
  <2> HIDE DEF s
  <2> QED BY <2>2, <2>3, OtherBegins
<1>3. ASSUME NEW i \in Links, ConfirmLock(t, i) PROVE IInv'
  <2> DEFINE s == [State("confirmReset", "write", i) EXCEPT !.rows = {i}]
  <2>1. State("confirmReset", "write", i) \in Tx
    BY StateTyped
  <2>2. s \in Tx /\ s.op = "confirmReset" /\ s.pc = "write" /\ s.id = i /\ s.rows = {i}
    BY <2>1, StateTyped, RowsTyped
  <2>3. tx' = [tx EXCEPT ![t] = s] /\ user' = user /\ link' = link
        /\ link[i] \in Stored /\ i \notin Locked(t) /\ user.st \notin Unclaimed
    BY <1>3 DEF ConfirmLock, Begins, Stored, Unclaimed
  <2> HIDE DEF s
  <2> QED BY <2>2, <2>3, OtherBegins
<1>4. CASE RevokeInvitationLock(t)
  <2> DEFINE s == [State("revokeInvitation", "scan", None) EXCEPT !.lock = "update"]
  <2>1. State("revokeInvitation", "scan", None) \in Tx
    BY StateTyped
  <2>2. s \in Tx /\ s.op = "revokeInvitation" /\ s.pc = "scan"
    BY <2>1, StateTyped, LockTyped
  <2>3. tx' = [tx EXCEPT ![t] = s] /\ user' = user /\ link' = link
    BY <1>4 DEF RevokeInvitationLock, Begins
  <2> HIDE DEF s
  <2> QED BY <2>2, <2>3, OtherBegins
<1>5. CASE OidcRead(t)
  <2> DEFINE pc == IF user.st = "none" THEN "insert" ELSE "write"
             s == [State("oidc", pc, None) EXCEPT !.saw = user]
  <2>1. State("oidc", pc, None) \in Tx
    BY StateTyped
  <2>2. s \in Tx /\ s.op = "oidc" /\ s.pc = pc /\ s.rows = {}
    BY <2>1, StateTyped, SawTyped DEF IInv, Typed
  <2>3. tx' = [tx EXCEPT ![t] = s] /\ user' = user /\ link' = link
    BY <1>5 DEF OidcRead, Begins
  <2> HIDE DEF s
  <2> QED BY <2>2, <2>3, OtherBegins
<1>6. CASE StatusRead(t)
  <2> DEFINE s == [State("status", "write", None) EXCEPT !.saw = user]
  <2>1. State("status", "write", None) \in Tx
    BY StateTyped
  <2>2. s \in Tx /\ s.op = "status" /\ s.pc = "write" /\ s.rows = {}
    BY <2>1, StateTyped, SawTyped DEF IInv, Typed
  <2>3. tx' = [tx EXCEPT ![t] = s] /\ user' = user /\ link' = link
    BY <1>6 DEF StatusRead, Begins
  <2> HIDE DEF s
  <2> QED BY <2>2, <2>3, OtherBegins
<1> QED BY <1>1, <1>2, <1>3, <1>4, <1>5, <1>6

-----------------------------------------------------------------------------
(* Steps in the middle of a request                                         *)

LEMMA MovesPreserve ==
    ASSUME IInv, NEW t \in Txs,
           \/ InviteGroupAssign(t) \/ RefetchLocked(t) \/ ResendInvitationLock(t)
           \/ ScanPending(t) \/ TakePending(t) \/ OidcConflict(t)
    PROVE  IInv'
<1>0. tx[t] \in Tx /\ Knows(tx[t]) /\ \A u \in Others(t) : Apart(tx[t], tx[u])
  BY DEF IInv, Typed
<1>1. CASE InviteGroupAssign(t) \/ RefetchLocked(t) \/ ResendInvitationLock(t)
  <2>1. PICK lock \in {"none", "share", "update"} :
          tx' = [tx EXCEPT ![t] = [tx[t] EXCEPT !.pc = "scan", !.lock = lock]]
    BY <1>1 DEF InviteGroupAssign, RefetchLocked, ResendInvitationLock, Moves
  <2> DEFINE s == [tx[t] EXCEPT !.pc = "scan", !.lock = lock]
  <2>2. s \in Tx /\ s.op = tx[t].op /\ s.id = tx[t].id /\ s.pc = "scan"
    BY <1>0 DEF Tx
  <2>3. user' = user /\ link' = link /\ tx[t].pc \in {"share", "lock"}
    BY <1>1 DEF InviteGroupAssign, RefetchLocked, ResendInvitationLock
  <2> HIDE DEF s
  <2>4. Knows(s) /\ \A u \in Others(t) : Apart(s, tx[u])
    BY <1>0, <2>2, <2>3 DEF Knows, Apart
  <2> QED BY <2>1, <2>2, <2>3, <2>4, MoveStep DEF s
<1>2. CASE ScanPending(t)
  <2> DEFINE s == [tx[t] EXCEPT !.pc = "take", !.rows = StoredPending(Kind(t))]
  <2>0. StoredPending(Kind(t)) \in SUBSET Links
    BY DEF StoredPending, Kind, Links, Invitations
  <2>1. s \in Tx /\ s.op = tx[t].op /\ s.id = tx[t].id /\ s.pc = "take"
    BY <1>0, <2>0 DEF Tx
  <2>2. tx' = [tx EXCEPT ![t] = s] /\ user' = user /\ link' = link /\ tx[t].pc = "scan"
    BY <1>2 DEF ScanPending, Moves
  <2> HIDE DEF s
  <2>3. Knows(s) /\ \A u \in Others(t) : Apart(s, tx[u])
    BY <1>0, <2>1, <2>2 DEF Knows, Apart
  <2> QED BY <2>1, <2>2, <2>3, MoveStep
<1>3. CASE TakePending(t)
  <2> DEFINE R == StoredPending(tx[t].rows)
             s == [tx[t] EXCEPT !.pc = "write", !.rows = R]
  <2>0. R \in SUBSET Links /\ R \subseteq tx[t].rows /\ \A i \in R : link[i] \in Stored
    BY <1>0 DEF StoredPending, Tx
  <2>1. s \in Tx /\ s.op = tx[t].op /\ s.id = tx[t].id /\ s.pc = "write" /\ s.rows = R
    BY <1>0, <2>0 DEF Tx
  <2>2. tx' = [tx EXCEPT ![t] = s] /\ user' = user /\ link' = link /\ tx[t].pc = "take"
        /\ tx[t].rows \cap Locked(t) = {}
    BY <1>3 DEF TakePending, Moves
  <2> HIDE DEF s, R
  <2>3. Knows(s)
    BY <1>0, <2>0, <2>1, <2>2 DEF Knows
  <2>4. ASSUME NEW u \in Others(t) PROVE Apart(s, tx[u])
    <3>1. tx[u].pc = "write" => tx[u].rows \subseteq Locked(t)
      BY DEF Locked
    <3> QED BY <1>0, <2>0, <2>1, <2>2, <3>1 DEF Apart
  <2> QED BY <2>1, <2>2, <2>3, <2>4, MoveStep
<1>4. CASE OidcConflict(t)
  <2> DEFINE s == [tx[t] EXCEPT !.pc = "write", !.saw = user]
  <2>1. s \in Tx /\ s.op = tx[t].op /\ s.id = tx[t].id /\ s.pc = "write" /\ s.rows = tx[t].rows
    BY <1>0 DEF Tx, IInv, Typed
  <2>2. tx' = [tx EXCEPT ![t] = s] /\ user' = user /\ link' = link
        /\ tx[t].pc = "insert" /\ tx[t].op = "oidc"
    BY <1>4 DEF OidcConflict, Moves
  <2> HIDE DEF s
  <2>3. Knows(s) /\ \A u \in Others(t) : Apart(s, tx[u])
    BY <1>0, <2>1, <2>2 DEF Knows, Apart, Issuers
  <2> QED BY <2>1, <2>2, <2>3, MoveStep
<1> QED BY <1>1, <1>2, <1>3, <1>4

-----------------------------------------------------------------------------
(* Steps that commit                                                        *)

\* What a step of t does to the links: it leaves used and revoked ones alone,
\* and those other requests have locked, and inserts only its own.
LinkStep(t) ==
    \A i \in Links : link'[i] # link[i] =>
        /\ link[i] \notin {"spent", "revoked"}
        /\ i \notin Locked(t)
        /\ link[i] = "none" => tx[t].op \in Issuers /\ i = tx[t].id

\* A request that commits preserves the invariant if it treats the links so
\* and does not return the account to the invited status.
LEMMA EndStep ==
    ASSUME IInv, NEW t \in Txs, Ends(t), user' \in User, link' \in [Links -> LinkStatus],
           AccountOK', LinkStep(t),
           user.st \notin Unclaimed => user'.st \notin Unclaimed
    PROVE  IInv'
<1>1. Typed'
  BY IdleTyped DEF IInv, Typed, Ends
<1>2. tx'[t] = IdleTx /\ \A u \in Others(t) : tx'[u] = tx[u]
  BY DEF IInv, Typed, Ends, Others
<1>3. Knows(tx[t])'
  BY <1>2, IdleFree DEF Knows, Ops, Issuers
<1>4. ASSUME NEW u \in Others(t) PROVE Knows(tx[u])'
  <2>1. Knows(tx[u]) /\ Apart(tx[t], tx[u]) /\ tx'[u] = tx[u] /\ tx[u] \in Tx
    BY <1>2 DEF IInv, Typed, Others
  <2>2. tx[u].pc = "write" => \A i \in tx[u].rows : link'[i] \in Stored
    <3> SUFFICES ASSUME tx[u].pc = "write", NEW i \in tx[u].rows PROVE link'[i] \in Stored
      OBVIOUS
    <3>1. i \in Links /\ i \in Locked(t)
      BY <2>1 DEF Locked, Tx
    <3> QED BY <2>1, <3>1 DEF LinkStep, Knows
  <2>3. tx[u].op \in Issuers => link'[tx[u].id] = "none"
    BY <2>1 DEF LinkStep, Knows, Apart
  <2> QED BY <2>1, <2>2, <2>3 DEF Knows
<1>5. ASSUME NEW u \in Txs, NEW v \in Others(u) PROVE Apart(tx[u], tx[v])'
  <2>1. v \in Txs /\ v # u /\ Apart(tx[u], tx[v]) /\ tx'[u] \in Tx /\ tx'[v] \in Tx
    BY <1>1 DEF IInv, Typed, Others
  <2>2. CASE u = t \/ v = t
    <3>1. Apart(tx'[u], tx'[v])
      BY <1>2, <2>1, <2>2, IdleFree
    <3> QED BY <3>1 DEF Apart
  <2>3. CASE u # t /\ v # t
    <3>1. tx'[u] = tx[u] /\ tx'[v] = tx[v]
      BY <1>2, <2>1, <2>3 DEF Others
    <3> QED BY <2>1, <3>1 DEF Apart
  <2> QED BY <2>2, <2>3
<1> QED BY <1>1, <1>3, <1>4, <1>5 DEF IInv, Others

\* The rows a request has locked are its own and still pending.
LEMMA OwnRows ==
    ASSUME IInv, NEW t \in Txs, tx[t].pc = "write"
    PROVE  /\ tx[t].rows \subseteq Links
           /\ tx[t].rows \cap Locked(t) = {}
           /\ \A i \in tx[t].rows : link[i] \in Stored
<1>1. tx[t] \in Tx /\ Knows(tx[t]) /\ \A u \in Others(t) : Apart(tx[t], tx[u])
  BY DEF IInv, Typed
<1> QED BY <1>1 DEF Tx, Knows, Apart, Locked

\* A link not yet inserted is nobody's locked row.
LEMMA OwnLink ==
    ASSUME IInv, NEW t \in Txs, tx[t].op \in Issuers
    PROVE  tx[t].id \in Links \ Locked(t) /\ link[tx[t].id] = "none"
<1>1. tx[t].id \in Links /\ link[tx[t].id] = "none"
  BY DEF IInv, Knows
<1>2. \A u \in Others(t) : tx[u].pc = "write" => \A i \in tx[u].rows : link[i] \in Stored
  BY DEF IInv, Knows, Others
<1> QED BY <1>1, <1>2 DEF Locked, Stored

\* Committing without touching the account.
LEMMA LinksCommit ==
    ASSUME IInv, NEW t \in Txs, Ends(t), user' = user, link' \in [Links -> LinkStatus],
           LinkStep(t),
           tx[t].op \in Issuers => tx[t].pc # "insert" \/ link' = link
    PROVE  IInv'
<1>1. AccountOK'
  <2> SUFFICES ASSUME user.st \in Unclaimed, NEW i \in Verifications PROVE link'[i] = "none"
    BY DEF AccountOK, IInv
  <2>1. i \in Links /\ link[i] = "none" /\ Knows(tx[t])
    BY DEF IInv, AccountOK, Links
  <2> QED BY <2>1 DEF LinkStep, Knows
<1> QED BY <1>1, EndStep DEF IInv, Typed

\* Spending the presented link and the pending invitations nobody has locked.
LEMMA ActivateLinks ==
    ASSUME IInv, NEW t \in Txs, NEW spent \in SUBSET Links, Activate(t, spent),
           spent \cap Locked(t) = {}, \A i \in spent : link[i] \in Stored
    PROVE  LinkStep(t) /\ Ends(t) /\ link' \in [Links -> LinkStatus]
<1>1. Swept(t) \subseteq Links \ Locked(t) /\ \A i \in Swept(t) : link[i] \in Stored
  BY DEF Swept, Links, Stored
<1>2. \A i \in Links : link'[i] = IF i \in spent \cup Swept(t) THEN "spent" ELSE link[i]
  BY DEF Activate
<1>3. LinkStep(t)
  BY <1>1, <1>2 DEF LinkStep, Stored
<1>4. link' \in [Links -> LinkStatus]
  BY DEF Activate, IInv, Typed, LinkStatus
<1> QED BY <1>3, <1>4 DEF Activate

\* Committing an account that is active or inactive.
LEMMA ActiveAccount ==
    ASSUME IInv, NEW t \in Txs, Ends(t), user' \in User, link' \in [Links -> LinkStatus],
           LinkStep(t), user'.st \notin Unclaimed
    PROVE  IInv'
<1>1. AccountOK'
  BY DEF AccountOK
<1> QED BY <1>1, EndStep

LEMMA CommitsPreserve ==
    ASSUME IInv, NEW t \in Txs,
           \/ InsertUser(t) \/ Issue(t) \/ RevokeInvitation(t)
           \/ Verify(t) \/ Accept(t) \/ OidcActivate(t)
           \/ StatusWrite(t) \/ Confirm(t) \/ Abort(t)
    PROVE  IInv' /\ LinkStep(t)
<1>0. tx[t] \in Tx /\ Knows(tx[t]) /\ user \in User /\ link \in [Links -> LinkStatus] /\ AccountOK
  BY DEF IInv, Typed
<1>1. CASE InsertUser(t)
  <2>1. tx[t].pc = "insert" /\ user.st = "none" /\ Ends(t)
    BY <1>1 DEF InsertUser
  <2>2. CASE tx[t].op = "oidc"
    <3>1. link' = link /\ user' = [NoUser EXCEPT !.st = "active", !.pw = "none"]
      BY <1>1, <2>2 DEF InsertUser
    <3>2. LinkStep(t)
      BY <3>1 DEF LinkStep
    <3>3. user' \in User /\ user'.st \notin Unclaimed
      BY <3>1 DEF NoUser, User, Passwords, Unclaimed
    <3> QED BY <1>0, <2>1, <3>1, <3>2, <3>3, ActiveAccount
  <2>3. CASE tx[t].op # "oidc"
    <3>1. tx[t].op \in Issuers
      BY <1>0, <2>1, <2>3 DEF Knows
    <3>2. tx[t].id \in Links \ Locked(t) /\ link[tx[t].id] = "none"
          /\ link' = [link EXCEPT ![tx[t].id] = "pending"]
      BY <1>1, <2>3, <3>1, OwnLink DEF InsertUser
    <3>3. LinkStep(t)
      BY <1>0, <3>1, <3>2 DEF LinkStep
    <3>4. link' \in [Links -> LinkStatus]
      BY <1>0, <3>2 DEF LinkStatus, Stored
    <3>5. user' = [st |-> IF tx[t].op = "register" THEN "pending" ELSE "invited",
                   pw |-> IF tx[t].op = "register" THEN "registrant" ELSE "none",
                   cleared |-> FALSE]
      BY <1>1, <2>3 DEF InsertUser, NoUser
    <3>6. user' \in User
      BY <3>5 DEF User, Passwords, OnboardingStatus
    <3>7. AccountOK'
      <4> SUFFICES ASSUME user'.st \in Unclaimed
                   PROVE  user'.pw = "none" /\ \A i \in Verifications : link'[i] = "none"
        BY DEF AccountOK
      <4>1. tx[t].op # "register"
        BY <3>5 DEF Unclaimed
      <4>2. tx[t].id \notin Verifications
        BY <1>0, <2>1, <3>1, <4>1 DEF Knows
      <4> QED BY <1>0, <2>1, <3>2, <3>5, <4>1, <4>2 DEF AccountOK, Unclaimed, Links
    <3> QED BY <2>1, <3>3, <3>4, <3>6, <3>7, EndStep DEF Unclaimed
  <2> QED BY <2>2, <2>3
<1>2. CASE Issue(t)
  <2>1. tx[t].pc = "write" /\ tx[t].op \in Issuers /\ Ends(t) /\ user' = user
    BY <1>2 DEF Issue, account
  <2>2. \A i \in Links : link'[i] = IF i \in tx[t].rows THEN "revoked"
                                    ELSE IF i = tx[t].id THEN "pending" ELSE link[i]
    <3>1. tx[t].id \notin tx[t].rows
      BY <2>1, OwnRows, OwnLink DEF Stored
    <3> QED BY <1>2, <3>1 DEF Issue
  <2>3. LinkStep(t)
    BY <2>1, <2>2, OwnRows, OwnLink DEF LinkStep, Stored
  <2>4. link' \in [Links -> LinkStatus]
    BY <1>0, <1>2 DEF Issue, LinkStatus, Stored
  <2> QED BY <2>1, <2>3, <2>4, LinksCommit
<1>3. CASE RevokeInvitation(t)
  <2>1. tx[t].pc = "write" /\ tx[t].op \notin Issuers /\ Ends(t) /\ user' = user
    BY <1>3 DEF RevokeInvitation, account, Issuers
  <2>2. \A i \in Links : link'[i] = IF i \in tx[t].rows THEN "revoked" ELSE link[i]
    BY <1>3 DEF RevokeInvitation
  <2>3. LinkStep(t)
    BY <2>1, <2>2, OwnRows DEF LinkStep, Stored
  <2>4. link' \in [Links -> LinkStatus]
    BY <1>0, <1>3 DEF RevokeInvitation, LinkStatus, Stored
  <2> QED BY <2>1, <2>3, <2>4, LinksCommit
<1>4. CASE Verify(t)
  <2>1. tx[t].pc = "write" /\ tx[t].id \in tx[t].rows /\ Activate(t, {tx[t].id})
        /\ user' = [user EXCEPT !.st = "active"]
    BY <1>0, <1>4 DEF Verify, Knows
  <2>2. LinkStep(t) /\ Ends(t) /\ link' \in [Links -> LinkStatus]
    BY <2>1, OwnRows, ActivateLinks
  <2>3. user' \in User /\ user'.st \notin Unclaimed
    BY <1>0, <2>1 DEF User, Unclaimed
  <2> QED BY <2>2, <2>3, ActiveAccount
<1>5. CASE Accept(t)
  <2>1. /\ tx[t].id \in Invitations /\ tx[t].id \notin Locked(t) /\ link[tx[t].id] \in Stored
        /\ Activate(t, {tx[t].id})
        /\ user' = [user EXCEPT !.st = "active", !.pw = tx[t].id]
    BY <1>0, <1>5 DEF Accept, Knows, Stored
  <2>2. {tx[t].id} \in SUBSET Links
    BY <2>1 DEF Links
  <2>3. LinkStep(t) /\ Ends(t) /\ link' \in [Links -> LinkStatus]
    BY <2>1, <2>2, ActivateLinks
  <2>4. user' \in User /\ user'.st \notin Unclaimed
    BY <1>0, <2>1 DEF User, Passwords, Unclaimed
  <2> QED BY <2>3, <2>4, ActiveAccount
<1>6. CASE OidcActivate(t)
  <2>1. Activate(t, {})
        /\ user' = IF tx[t].saw.pw = "none" THEN [user EXCEPT !.st = "active"]
                   ELSE [user EXCEPT !.st = "active", !.pw = "none", !.cleared = TRUE]
    BY <1>6 DEF OidcActivate
  <2>2. LinkStep(t) /\ Ends(t) /\ link' \in [Links -> LinkStatus]
    BY <2>1, ActivateLinks
  <2>3. user' \in User /\ user'.st \notin Unclaimed
    BY <1>0, <2>1 DEF User, Passwords, Unclaimed
  <2> QED BY <2>2, <2>3, ActiveAccount
<1>7. CASE StatusWrite(t)
  <2>1. link' = link /\ Ends(t)
        /\ user' = [user EXCEPT !.st = IF tx[t].saw.st = "active" THEN "inactive" ELSE "active"]
    BY <1>7 DEF StatusWrite
  <2>2. LinkStep(t)
    BY <2>1 DEF LinkStep
  <2>3. user' \in User /\ user'.st \notin Unclaimed
    BY <1>0, <2>1 DEF User, Unclaimed
  <2> QED BY <1>0, <2>1, <2>2, <2>3, ActiveAccount
<1>8. CASE Confirm(t)
  <2>1. tx[t].pc = "write" /\ tx[t].id \in tx[t].rows /\ user.st \notin Unclaimed /\ Ends(t)
        /\ user' = [user EXCEPT !.pw = "owner"] /\ link' = [link EXCEPT ![tx[t].id] = "spent"]
    BY <1>0, <1>8 DEF Confirm, Knows
  <2>2. tx[t].id \in Links /\ tx[t].id \notin Locked(t) /\ link[tx[t].id] \in Stored
    BY <2>1, OwnRows
  <2>3. LinkStep(t) /\ link' \in [Links -> LinkStatus]
    BY <1>0, <2>1, <2>2 DEF LinkStep, LinkStatus, Stored
  <2>4. user' \in User /\ user'.st \notin Unclaimed
    BY <1>0, <2>1 DEF User, Passwords
  <2> QED BY <2>1, <2>3, <2>4, ActiveAccount
<1>9. CASE Abort(t)
  <2>1. link' = link /\ user' = user /\ Ends(t)
    BY <1>9 DEF Abort, account
  <2>2. LinkStep(t)
    BY <2>1 DEF LinkStep
  <2> QED BY <1>0, <2>1, <2>2, LinksCommit
<1> QED BY <1>1, <1>2, <1>3, <1>4, <1>5, <1>6, <1>7, <1>8, <1>9

-----------------------------------------------------------------------------
(* Time                                                                     *)

LEMMA TimePreserves ==
    ASSUME IInv, (\E i \in Links : Lapse(i)) \/ CoolDown \/ UNCHANGED vars
    PROVE  IInv'
<1>1. ASSUME NEW i \in Links, Lapse(i) PROVE IInv'
  <2>1. tx' = tx /\ user' = user /\ link[i] = "pending" /\ link' = [link EXCEPT ![i] = "lapsed"]
    BY <1>1 DEF Lapse, account
  <2>2. Typed'
    BY <2>1 DEF IInv, Typed, LinkStatus, Stored
  <2>3. \A j \in Links :
          /\ link'[j] \in Stored <=> link[j] \in Stored
          /\ link'[j] = "none" <=> link[j] = "none"
    BY <2>1 DEF IInv, Typed, Stored
  <2>4. AccountOK'
    BY <2>1, <2>3 DEF IInv, AccountOK, Links
  <2>5. ASSUME NEW t \in Txs PROVE Knows(tx[t])'
    <3>1. tx[t] \in Tx /\ Knows(tx[t])
      BY DEF IInv, Typed
    <3>2. tx[t].pc = "write" => \A j \in tx[t].rows : link'[j] \in Stored
      BY <2>3, <3>1 DEF Knows, Tx
    <3>3. tx[t].op \in Issuers => tx[t].id \in Links /\ link'[tx[t].id] = "none"
      BY <2>3, <3>1 DEF Knows
    <3> QED BY <2>1, <3>1, <3>2, <3>3 DEF Knows
  <2>6. (\A t \in Txs : \A u \in Others(t) : Apart(tx[t], tx[u]))'
    BY <2>1 DEF IInv, Apart, Others
  <2> QED BY <2>2, <2>4, <2>5, <2>6 DEF IInv
<1>2. CASE CoolDown \/ UNCHANGED vars
  <2>1. tx' = tx /\ user' = user /\ link' = link
    BY <1>2 DEF CoolDown, vars, account
  <2> QED BY <2>1 DEF IInv, Typed, AccountOK, Knows, Apart, Others
<1> QED BY <1>1, <1>2

\* Every step of every request, of time, and stuttering preserve the invariant.
LEMMA NextPreserves == IInv /\ [Next]_vars => IInv'
<1> SUFFICES ASSUME IInv, [Next]_vars PROVE IInv'
  OBVIOUS
<1>1. ASSUME NEW t \in Txs, Requests(t) PROVE IInv'
  BY <1>1, IssuersPreserve, OthersPreserve DEF Requests
<1>2. ASSUME NEW t \in Txs, Steps(t) PROVE IInv'
  BY <1>2, MovesPreserve, CommitsPreserve DEF Steps
<1> QED BY <1>1, <1>2, TimePreserves DEF Next

\* What requests rely on between their steps holds in every reachable state.
THEOREM Invariance == Spec => []IInv
BY InitInv, NextPreserves, PTL DEF Spec

-----------------------------------------------------------------------------
\* A used or revoked link is never written again, by any interleaving of any
\* number of requests: the locked re-check of the pending rows suffices.
THEOREM LinksSpentOnce == Spec => SpentLinksStaySpent
<1> DEFINE Stays == \A i \in Links : link[i] \in {"spent", "revoked"} => link'[i] = link[i]
<1>1. ASSUME IInv, [Next]_vars PROVE Stays
  <2>1. CASE link' = link
    BY <2>1
  <2>2. ASSUME NEW t \in Txs, LinkStep(t) PROVE Stays
    BY <2>2 DEF LinkStep
  <2>3. ASSUME NEW t \in Txs, Requests(t) PROVE link' = link
    BY <2>3 DEF Requests, RegisterRead, ResendVerificationRead, InviteRead, InviteGroupRead,
         ResendInvitationBegin, AdminResetRead, RequestResetLock, VerifyLock, AcceptLock,
         ConfirmLock, RevokeInvitationLock, OidcRead, StatusRead
  <2>4. ASSUME NEW t \in Txs, Steps(t) PROVE Stays
    <3>1. \/ link' = link
          \/ InsertUser(t) \/ Issue(t) \/ RevokeInvitation(t) \/ Verify(t) \/ Accept(t)
          \/ OidcActivate(t) \/ StatusWrite(t) \/ Confirm(t) \/ Abort(t)
      BY <2>4 DEF Steps, InviteGroupAssign, RefetchLocked, ResendInvitationLock, ScanPending,
           TakePending, OidcConflict
    <3> QED BY <1>1, <2>1, <2>2, <3>1, CommitsPreserve
  <2>5. ASSUME NEW i \in Links, Lapse(i) PROVE Stays
    BY <1>1, <2>5 DEF Lapse, IInv, Typed
  <2>6. CASE CoolDown \/ UNCHANGED vars
    BY <2>1, <2>6 DEF CoolDown, vars
  <2> QED BY <1>1, <2>1, <2>3, <2>4, <2>5, <2>6 DEF Next
<1> QED BY <1>1, Invariance, PTL DEF Spec, SpentLinksStaySpent

\* Nothing but its invitation or an identity provider completes an invited
\* account: it never holds a password or a verification link.
THEOREM InvitedStaysUnclaimed == Spec => []InvitedUnclaimed
<1>1. IInv => InvitedUnclaimed
  BY DEF IInv, AccountOK, InvitedUnclaimed, Unclaimed, StoredPending, Stored
<1> QED BY <1>1, Invariance, PTL

\* An invitation link sets the password of an onboarding account only.
THEOREM AcceptsOnlyOnboard == Spec => AcceptOnlyOnboards
<1> DEFINE Guarded ==
      user'.pw \in Invitations /\ user'.pw # user.pw => user.st \in OnboardingStatus
<1>1. ASSUME IInv, [Next]_vars PROVE Guarded
  <2>0. user \in User /\ \A i \in Invitations : i \notin {"none", "registrant", "owner"}
    BY <1>1, ConstAssumption DEF IInv, Typed, Links
  <2>1. CASE user' = user
    BY <2>1
  <2>2. ASSUME NEW t \in Txs, Requests(t) PROVE user' = user
    BY <2>2 DEF Requests, RegisterRead, ResendVerificationRead, InviteRead, InviteGroupRead,
         ResendInvitationBegin, AdminResetRead, RequestResetLock, VerifyLock, AcceptLock,
         ConfirmLock, RevokeInvitationLock, OidcRead, StatusRead
  <2>3. ASSUME NEW t \in Txs, Steps(t) PROVE Guarded
    <3>1. CASE InsertUser(t)
      BY <2>0, <3>1 DEF InsertUser, NoUser
    <3>2. CASE Verify(t) \/ StatusWrite(t)
      BY <2>0, <3>2 DEF Verify, StatusWrite, User
    <3>3. CASE Accept(t)
      BY <3>3 DEF Accept
    <3>4. CASE OidcActivate(t) \/ Confirm(t)
      BY <2>0, <3>4 DEF OidcActivate, Confirm, User
    <3>5. CASE user' = user
      BY <3>5
    <3> QED BY <2>3, <3>1, <3>2, <3>3, <3>4, <3>5 DEF Steps, InviteGroupAssign, RefetchLocked,
              ResendInvitationLock, ScanPending, TakePending, Issue, RevokeInvitation,
              OidcConflict, Abort, account
  <2>4. CASE (\E i \in Links : Lapse(i)) \/ CoolDown \/ UNCHANGED vars
    BY <2>1, <2>4 DEF Lapse, CoolDown, account, vars
  <2> QED BY <1>1, <2>1, <2>2, <2>3, <2>4 DEF Next
<1> QED BY <1>1, Invariance, PTL DEF Spec, AcceptOnlyOnboards

-----------------------------------------------------------------------------
(* The second invariant: dates, locks on the account, and its history       *)

\* What a request is, by its operation alone.
Shape(s) ==
    /\ s.op = "register" => /\ s.id \in IF s.saw.st = "invited" THEN Platform ELSE Verifications
                            /\ s.pc = "insert" => s.saw.st # "invited"
                            /\ s.pc \in {"insert", "lock"} \/ s.lock = "update"
    /\ s.op = "resendVerification" => s.id \in Verifications
    /\ s.op \in {"invite", "resendInvitation"} => s.id \in Platform
    /\ s.op = "inviteGroup" => s.id \in Group
    /\ s.op \in {"requestReset", "adminReset", "confirmReset"} => s.id \in Resets /\ s.pc # "insert"
    /\ s.op = "verify" => s.id \in Verifications
    /\ s.op \in {"requestReset", "revokeInvitation"} => s.lock = "update"
    /\ s.op = "revokeInvitation" => s.id = None /\ s.rows \subseteq Platform
    /\ s.op = "oidc" => s.pc \in {"insert", "write"}
    /\ s.pc = "share" => s.op = "inviteGroup"
    /\ s.pc = "idle" => s.op = None

\* The account, once active, was never set up with a password that a reset may replace.
Doorless == activator = None \/ (activator = "oidc" /\ ~user.cleared)

\* What the request s relies on until it commits.
Relies(s) ==
    /\ s.op = "requestReset" => ~Throttled
    /\ s.op = "register" /\ s.id \in Platform /\ s.lock = "update" => ~revoked
    /\ s.op = "revokeInvitation" =>
          /\ user.st # "none"
          /\ s.pc \in {"take", "write"} => StoredPending(Platform) \subseteq s.rows
    /\ s.op = "status" => user.st \in {"active", "inactive"}
    /\ s.op = "oidc" /\ s.pc = "write" =>
          user.st # "none" /\ (s.saw.pw = "none" => user.st # "pending")
    /\ s.op \in {"requestReset", "adminReset", "confirmReset"} => ~Doorless

\* FOR UPDATE on the account excludes every other lock on it.
Exclusive(r, s) == r.lock = "update" => s.lock = "none"

AllRevoked ==
    /\ \E i \in Platform : link[i] = "revoked"
    /\ \A i \in Platform : link[i] \in {"none", "revoked"}

\* What the account has been through shows in its columns and its links.
Past ==
    /\ activator = None <=> user.st \in {"none"} \cup OnboardingStatus
    /\ IdpLeavesNoPassword
    /\ Doorless => \A i \in Resets : link[i] = "none"
    /\ user.st = "pending" => user.pw # "none"
    /\ user.st = "none" => ~revoked
    /\ user.st \in Unclaimed => \A i \in Platform : link[i] # "spent"
    /\ revoked /\ user.st = "invited" => AllRevoked

\* created_at is a linear order of the platform invitations, so that one is the newest.
Dates ==
    /\ older \in [Platform -> SUBSET Platform]
    /\ \A i \in Platform : older[i] \subseteq Dated
    /\ \A i, j \in Platform : i \in older[j] => older[i] \subseteq older[j]
    /\ \A i, j \in Dated : i = j \/ i \in older[j] \/ j \in older[i]
    /\ (\E i \in Platform : link[i] # "none") => \E i \in Platform : Latest(i)

JInv ==
    /\ cooling \in BOOLEAN /\ revoked \in BOOLEAN /\ activator \in Ops \cup {None}
    /\ Past
    /\ Dates
    /\ \A t \in Txs : Shape(tx[t]) /\ Relies(tx[t])
    /\ \A t \in Txs : \A u \in Others(t) : Exclusive(tx[t], tx[u])

\* An idle request has no shape, relies on nothing and excludes nobody.
LEMMA IdleFreeJ ==
    Shape(IdleTx) /\ Relies(IdleTx) /\ \A s \in Tx : Exclusive(IdleTx, s) /\ Exclusive(s, IdleTx)
<1>1. IdleTx.pc = "idle" /\ IdleTx.op = None /\ IdleTx.lock = "none"
  BY DEF IdleTx
<1> QED BY <1>1, ConstAssumption DEF Shape, Relies, Exclusive, Ops, Issuers

LEMMA InitJ == Init => JInv
<1> SUFFICES ASSUME Init PROVE JInv
  OBVIOUS
<1>1. user.st = "none" /\ user.pw = "none" /\ activator = None /\ ~revoked /\ revoked \in BOOLEAN
      /\ cooling \in BOOLEAN /\ \A i \in Links : link[i] = "none"
  BY DEF Init, NoUser
<1>2. Past
  BY <1>1, ConstAssumption DEF Past, IdpLeavesNoPassword, Doorless, Unclaimed, Links, Invitations, Ops
<1>3. Dates
  <2>1. \A i \in Platform : link[i] = "none"
    BY <1>1 DEF Links, Invitations
  <2>2. \A t \in Txs : tx[t].op \notin Issuers
    BY IdleFree DEF Init, Ops
  <2>3. Dated = {}
    BY <2>1, <2>2 DEF Dated
  <2> QED BY <2>1, <2>3 DEF Dates, Init
<1>4. \A t \in Txs : tx[t] = IdleTx
  BY DEF Init
<1> QED BY <1>1, <1>2, <1>3, <1>4, IdleFreeJ, IdleTyped DEF JInv, Others

-----------------------------------------------------------------------------
(* Dates                                                                    *)

\* Dates survive a step that keeps the order and the links it is about.
LEMMA DatesKept ==
    ASSUME Dates, older' = older, Dated' = Dated,
           \A i \in Platform : link'[i] = "none" <=> link[i] = "none"
    PROVE  Dates'
<1>1. \A i \in Platform : Latest(i) => Latest(i)'
  BY DEF Latest
<1> QED BY <1>1 DEF Dates

\* A request that begins takes the last place.
LEMMA DatesReserved ==
    ASSUME Dates, NEW i \in Platform \ Dated, older' = [older EXCEPT ![i] = Dated],
           Dated' = Dated \cup {i}, link' = link
    PROVE  Dates'
<1>0. Dated \subseteq Platform
  BY DEF Dated
<1>1. older' \in [Platform -> SUBSET Platform]
  BY <1>0 DEF Dates
<1>2. \A j \in Platform : older'[j] = IF j = i THEN Dated ELSE older[j]
  BY DEF Dates
<1>3. \A j \in Platform : i \notin older'[j] /\ older'[j] \subseteq Dated
  BY <1>2 DEF Dates
<1>4. ASSUME NEW j \in Platform, NEW k \in Platform, j \in older'[k] PROVE older'[j] \subseteq older'[k]
  <2>1. j # i
    BY <1>3, <1>4
  <2>2. CASE k = i
    BY <1>2, <1>3, <2>1, <2>2
  <2>3. CASE k # i
    BY <1>2, <1>4, <2>1, <2>3 DEF Dates
  <2> QED BY <2>2, <2>3
<1>5. ASSUME NEW j \in Dated \cup {i}, NEW k \in Dated \cup {i}
      PROVE  j = k \/ j \in older'[k] \/ k \in older'[j]
  BY <1>0, <1>2, <1>5 DEF Dates
<1>6. \A j \in Platform : Latest(j) => Latest(j)'
  <2> SUFFICES ASSUME NEW j \in Platform, Latest(j) PROVE Latest(j)'
    OBVIOUS
  <2>1. j # i
    BY DEF Latest, Dated
  <2> QED BY <1>2, <2>1 DEF Latest
<1> QED BY <1>1, <1>3, <1>4, <1>5, <1>6 DEF Dates

\* A dated invitation is committed: it is the newest, or the newest stays.
LEMMA DatesCommitted ==
    ASSUME Dates, NEW k \in Dated, older' = older, Dated' = Dated,
           \A i \in Platform : link'[i] = "none" <=> (link[i] = "none" /\ i # k)
    PROVE  Dates'
<1>0. k \in Platform
  BY DEF Dated
<1>1. \E i \in Platform : Latest(i)'
  <2>1. CASE \A i \in Platform : link[i] = "none"
    BY <1>0, <2>1 DEF Latest
  <2>2. CASE \E i \in Platform : link[i] # "none"
    <3>1. PICK m \in Platform : Latest(m)
      BY <2>2 DEF Dates
    <3>2. m \in Dated
      BY <3>1 DEF Latest, Dated
    <3>3. CASE k = m \/ k \in older[m]
      <4>1. Latest(m)'
        BY <3>1, <3>3 DEF Latest
      <4> QED BY <4>1
    <3>4. CASE m \in older[k]
      <4>1. older[m] \subseteq older[k]
        BY <1>0, <3>4 DEF Dates
      <4>2. Latest(k)'
        BY <1>0, <3>1, <3>4, <4>1 DEF Latest
      <4> QED BY <1>0, <4>2
    <3> QED BY <3>2, <3>3, <3>4 DEF Dates
  <2> QED BY <2>1, <2>2
<1> QED BY <1>1 DEF Dates

\* A request that issues nothing gives its place up.
LEMMA DatesReleased ==
    ASSUME Dates, NEW k, Dated' = Dated \ {k}, link' = link,
           k \in Platform => link[k] = "none",
           older' = [i \in Platform |-> IF i = k THEN {} ELSE older[i] \ {k}]
    PROVE  Dates'
<1>1. older' \in [Platform -> SUBSET Platform]
  BY DEF Dates
<1>2. \A i \in Platform : older'[i] = IF i = k THEN {} ELSE older[i] \ {k}
  OBVIOUS
<1>3. \A i \in Platform : older'[i] \subseteq Dated \ {k}
  BY <1>2 DEF Dates
<1>4. \A i, j \in Platform : i \in older'[j] => older'[i] \subseteq older'[j]
  BY <1>2 DEF Dates
<1>5. \A i, j \in Dated \ {k} : i = j \/ i \in older'[j] \/ j \in older'[i]
  BY <1>2 DEF Dates, Dated
<1>6. \A i \in Platform : Latest(i) => Latest(i)'
  BY <1>2 DEF Latest
<1> QED BY <1>1, <1>3, <1>4, <1>5, <1>6 DEF Dates

\* The dated invitations once request t is in state s and the links are as they were.
LEMMA DatedMoves ==
    ASSUME IInv, NEW t \in Txs, NEW s \in Tx, tx' = [tx EXCEPT ![t] = s], link' = link,
           tx[t].op \in Issuers => s.op \in Issuers /\ s.id = tx[t].id
    PROVE  Dated' = Dated \cup (IF s.op \in Issuers THEN {s.id} \cap Platform ELSE {})
<1>1. \A u \in Txs : tx'[u] = IF u = t THEN s ELSE tx[u]
  BY DEF IInv, Typed
<1>2. ASSUME NEW i \in Platform, i \in Dated'
      PROVE  i \in Dated \/ (s.op \in Issuers /\ i = s.id)
  BY <1>1, <1>2 DEF Dated
<1>3. ASSUME NEW i \in Platform, i \in Dated \/ (s.op \in Issuers /\ i = s.id)
      PROVE  i \in Dated'
  <2>1. CASE link[i] # "none" \/ (s.op \in Issuers /\ i = s.id)
    BY <1>1, <2>1 DEF Dated
  <2>2. ASSUME NEW u \in Txs, tx[u].op \in Issuers, tx[u].id = i PROVE i \in Dated'
    BY <1>1, <2>2 DEF Dated
  <2> QED BY <1>3, <2>1, <2>2 DEF Dated
<1>4. Dated' \subseteq Platform /\ Dated \subseteq Platform
  BY DEF Dated
<1> QED BY <1>2, <1>3, <1>4

-----------------------------------------------------------------------------
(* Steps that only move the request                                         *)

Still == user' = user /\ link' = link /\ cooling' = cooling /\ revoked' = revoked /\ activator' = activator

LEMMA MoveStepJ ==
    ASSUME IInv, JInv, NEW t \in Txs, NEW s \in Tx, tx' = [tx EXCEPT ![t] = s], Still, Dates',
           Shape(s), Relies(s),
           \A u \in Others(t) : Exclusive(s, tx[u]) /\ Exclusive(tx[u], s)
    PROVE  JInv'
<1>1. \A u \in Txs : tx'[u] = IF u = t THEN s ELSE tx[u]
  BY DEF IInv, Typed
<1>2. Past'
  BY DEF JInv, Still, Past, IdpLeavesNoPassword, Doorless, AllRevoked
<1>3. ASSUME NEW u \in Txs PROVE Shape(tx[u])' /\ Relies(tx[u])'
  <2>1. Shape(tx'[u]) /\ Relies(tx'[u])
    BY <1>1 DEF JInv
  <2>2. Throttled' = Throttled /\ Doorless' = Doorless /\ StoredPending(Platform)' = StoredPending(Platform)
    BY DEF Still, Throttled, Doorless, StoredPending
  <2>3. Shape(tx[u])' = Shape(tx'[u])
    BY DEF Shape
  <2> QED BY <2>1, <2>2, <2>3 DEF Relies, Still
<1>4. ASSUME NEW u \in Txs, NEW v \in Others(u) PROVE Exclusive(tx[u], tx[v])'
  <2>1. v \in Txs /\ v # u
    BY DEF Others
  <2>2. CASE u = t
    BY <1>1, <2>1, <2>2 DEF Exclusive, Others
  <2>3. CASE v = t
    <3>1. Exclusive(tx[u], s)
      BY <2>1, <2>3 DEF Others
    <3> QED BY <1>1, <2>1, <2>3, <3>1 DEF Exclusive
  <2>4. CASE u # t /\ v # t
    BY <1>1, <2>1, <2>4 DEF JInv, Exclusive, Others
  <2> QED BY <2>2, <2>3, <2>4
<1> QED BY <1>2, <1>3, <1>4 DEF JInv, Still, Others

\* A request that begins to issue i.
LEMMA IssuerBeginsJ ==
    ASSUME IInv, JInv, NEW t \in Txs, NEW s \in Tx, tx' = [tx EXCEPT ![t] = s], Still,
           tx[t].pc = "idle", s.op \in Issuers, s.id \in Unused(Links), Reserve(s.id),
           Shape(s), Relies(s),
           \A u \in Others(t) : Exclusive(s, tx[u]) /\ Exclusive(tx[u], s)
    PROVE  JInv'
<1>1. tx[t].op \notin Issuers
  BY ConstAssumption DEF JInv, Shape, Ops
<1>2. Dated' = Dated \cup ({s.id} \cap Platform)
  BY <1>1, DatedMoves DEF Still
<1>3. s.id \notin Dated
  BY DEF Unused, Dated
<1>4. CASE s.id \in Platform
  <2>1. older' = [older EXCEPT ![s.id] = Dated] /\ Dated' = Dated \cup {s.id} /\ link' = link
    BY <1>2, <1>4 DEF Reserve, Still
  <2>2. Dates'
    BY <1>3, <1>4, <2>1, DatesReserved DEF JInv
  <2> QED BY <2>2, MoveStepJ
<1>5. CASE s.id \notin Platform
  <2>1. older' = older /\ Dated' = Dated /\ link' = link
    BY <1>2, <1>5 DEF Reserve, Still
  <2>2. Dates'
    BY <2>1, DatesKept DEF JInv
  <2> QED BY <2>2, MoveStepJ
<1> QED BY <1>4, <1>5

\* Any other request that begins, and a request that goes on.
LEMMA GoesOnJ ==
    ASSUME IInv, JInv, NEW t \in Txs, NEW s \in Tx, tx' = [tx EXCEPT ![t] = s], Still, older' = older,
           \/ tx[t].pc = "idle" /\ s.op \notin Issuers
           \/ s.op = tx[t].op /\ s.id = tx[t].id,
           Shape(s), Relies(s),
           \A u \in Others(t) : Exclusive(s, tx[u]) /\ Exclusive(tx[u], s)
    PROVE  JInv'
<1>1. tx[t].pc = "idle" => tx[t].op \notin Issuers
  BY ConstAssumption DEF JInv, Shape, Ops
<1>2. Dated' = Dated \cup (IF s.op \in Issuers THEN {s.id} \cap Platform ELSE {})
  BY <1>1, DatedMoves DEF Still
<1>3. s.op \in Issuers => {s.id} \cap Platform \subseteq Dated
  BY <1>1 DEF Dated
<1>4. Dates'
  BY <1>2, <1>3, DatesKept DEF JInv, Still
<1> QED BY <1>4, MoveStepJ
-----------------------------------------------------------------------------
(* Requests that begin                                                      *)

\* The states requests begin in: after an unlocked read, with the account locked,
\* or with one link locked.
LEMMA BegunSaw ==
    ASSUME NEW op \in Ops, NEW pc \in {"insert", "lock", "share", "scan", "take", "write"},
           NEW i \in Links \cup {None}, NEW v \in User
    PROVE  LET s == [State(op, pc, i) EXCEPT !.saw = v]
           IN  s \in Tx /\ s.op = op /\ s.pc = pc /\ s.id = i /\ s.lock = "none" /\ s.saw = v /\ s.rows = {}
BY IdleTyped DEF State, IdleTx, Tx

LEMMA BegunLocked ==
    ASSUME NEW op \in Ops, NEW pc \in {"insert", "lock", "share", "scan", "take", "write"},
           NEW i \in Links \cup {None}
    PROVE  LET s == [State(op, pc, i) EXCEPT !.lock = "update"]
           IN  s \in Tx /\ s.op = op /\ s.pc = pc /\ s.id = i /\ s.lock = "update" /\ s.rows = {}
BY IdleTyped DEF State, IdleTx, Tx

LEMMA BegunRow ==
    ASSUME NEW op \in Ops, NEW i \in Links
    PROVE  LET s == [State(op, "write", i) EXCEPT !.rows = {i}]
           IN  s \in Tx /\ s.op = op /\ s.pc = "write" /\ s.id = i /\ s.lock = "none" /\ s.rows = {i}
BY IdleTyped DEF State, IdleTx, Tx

LEMMA BegunPlain ==
    ASSUME NEW op \in Ops, NEW pc \in {"insert", "lock", "share", "scan", "take", "write"},
           NEW i \in Links \cup {None}
    PROVE  LET s == State(op, pc, i)
           IN  s \in Tx /\ s.op = op /\ s.pc = pc /\ s.id = i /\ s.lock = "none" /\ s.rows = {}
BY IdleTyped DEF State, IdleTx, Tx

\* A request without a lock excludes nobody; one that may lock finds no other lock.
LEMMA Unlocked ==
    ASSUME NEW t \in Txs, NEW s, s.lock = "none" \/ (MayLock(t) /\ s.lock = "update")
    PROVE  \A u \in Others(t) : Exclusive(s, tx[u]) /\ Exclusive(tx[u], s)
BY DEF Exclusive, MayLock, Others

\* Only an account that had a password, or lost it to an identity provider, is offered a reset.
LEMMA ResetsNeedADoor ==
    ASSUME JInv, user.st = "active", user.pw # "none" \/ user.cleared
    PROVE  ~Doorless
BY DEF JInv, Past, IdpLeavesNoPassword, Doorless, OnboardingStatus

LEMMA IssuersPreserveJ ==
    ASSUME IInv, JInv, NEW t \in Txs, NEW i \in Links,
           \/ RegisterRead(t, i) \/ ResendVerificationRead(t, i)
           \/ InviteRead(t, i) \/ InviteGroupRead(t, i) \/ ResendInvitationBegin(t, i)
           \/ AdminResetRead(t, i) \/ RequestResetLock(t, i)
    PROVE  JInv'
<1>0. user \in User
  BY DEF IInv, Typed
<1> USE ConstAssumption DEF Links, Invitations
<1>1. CASE RegisterRead(t, i)
  <2> DEFINE pc == IF user.st = "none" THEN "insert" ELSE "lock"
             s == [State("register", pc, i) EXCEPT !.saw = user]
  <2>1. s \in Tx /\ s.op = "register" /\ s.pc = pc /\ s.id = i /\ s.lock = "none" /\ s.saw = user
    BY <1>0, BegunSaw DEF Ops, Issuers
  <2>2. i \in Unused(Links) /\ tx[t].pc = "idle" /\ tx' = [tx EXCEPT ![t] = s] /\ Still /\ Reserve(i)
    BY <1>1, UnusedIsLink DEF RegisterRead, Begins, Still, history
  <2>3. i \in IF user.st = "invited" THEN Platform ELSE Verifications
    BY <1>1 DEF RegisterRead, Unused
  <2> HIDE DEF s
  <2>4. Shape(s) /\ Relies(s)
    BY <2>1, <2>3 DEF Shape, Relies
  <2> QED BY <2>1, <2>2, <2>4, Unlocked, IssuerBeginsJ DEF Issuers
<1>2. CASE ResendVerificationRead(t, i)
  <2> DEFINE s == [State("resendVerification", "lock", i) EXCEPT !.saw = user]
  <2>1. s \in Tx /\ s.op = "resendVerification" /\ s.pc = "lock" /\ s.id = i /\ s.lock = "none"
    BY <1>0, BegunSaw DEF Ops, Issuers
  <2>2. i \in Unused(Links) /\ tx[t].pc = "idle" /\ tx' = [tx EXCEPT ![t] = s] /\ Still /\ older' = older
    BY <1>2, UnusedIsLink DEF ResendVerificationRead, Begins, Still, history
  <2>3. i \in Verifications
    BY <1>2 DEF ResendVerificationRead, Unused
  <2>4. Reserve(i)
    BY <2>2, <2>3 DEF Reserve
  <2> HIDE DEF s
  <2>5. Shape(s) /\ Relies(s)
    BY <2>1, <2>3 DEF Shape, Relies
  <2> QED BY <2>1, <2>2, <2>4, <2>5, Unlocked, IssuerBeginsJ DEF Issuers
<1>3. CASE InviteRead(t, i)
  <2> DEFINE pc == IF user.st = "none" THEN "insert" ELSE "scan"
             s == [State("invite", pc, i) EXCEPT !.saw = user]
  <2>1. s \in Tx /\ s.op = "invite" /\ s.pc = pc /\ s.id = i /\ s.lock = "none"
    BY <1>0, BegunSaw DEF Ops, Issuers
  <2>2. i \in Unused(Links) /\ tx[t].pc = "idle" /\ tx' = [tx EXCEPT ![t] = s] /\ Still /\ Reserve(i)
    BY <1>3, UnusedIsLink DEF InviteRead, Begins, Still, history
  <2>3. i \in Platform
    BY <1>3 DEF InviteRead, Unused
  <2> HIDE DEF s
  <2>4. Shape(s) /\ Relies(s)
    BY <2>1, <2>3 DEF Shape, Relies
  <2> QED BY <2>1, <2>2, <2>4, Unlocked, IssuerBeginsJ DEF Issuers
<1>4. CASE InviteGroupRead(t, i)
  <2> DEFINE pc == IF user.st = "none" THEN "insert" ELSE "share"
             s == [State("inviteGroup", pc, i) EXCEPT !.saw = user]
  <2>1. s \in Tx /\ s.op = "inviteGroup" /\ s.pc = pc /\ s.id = i /\ s.lock = "none"
    BY <1>0, BegunSaw DEF Ops, Issuers
  <2>2. i \in Unused(Links) /\ tx[t].pc = "idle" /\ tx' = [tx EXCEPT ![t] = s] /\ Still /\ older' = older
    BY <1>4, UnusedIsLink DEF InviteGroupRead, Begins, Still, history
  <2>3. i \in Group
    BY <1>4 DEF InviteGroupRead, Unused
  <2>4. Reserve(i)
    BY <2>2, <2>3 DEF Reserve
  <2> HIDE DEF s
  <2>5. Shape(s) /\ Relies(s)
    BY <2>1, <2>3 DEF Shape, Relies
  <2> QED BY <2>1, <2>2, <2>4, <2>5, Unlocked, IssuerBeginsJ DEF Issuers
<1>5. CASE ResendInvitationBegin(t, i)
  <2> DEFINE s == State("resendInvitation", "lock", i)
  <2>1. s \in Tx /\ s.op = "resendInvitation" /\ s.pc = "lock" /\ s.id = i /\ s.lock = "none"
    BY BegunPlain DEF Ops, Issuers
  <2>2. i \in Unused(Links) /\ tx[t].pc = "idle" /\ tx' = [tx EXCEPT ![t] = s] /\ Still /\ Reserve(i)
    BY <1>5, UnusedIsLink DEF ResendInvitationBegin, Begins, Still, history
  <2>3. i \in Platform
    BY <1>5 DEF ResendInvitationBegin, Unused
  <2> HIDE DEF s
  <2>4. Shape(s) /\ Relies(s)
    BY <2>1, <2>3 DEF Shape, Relies
  <2> QED BY <2>1, <2>2, <2>4, Unlocked, IssuerBeginsJ DEF Issuers
<1>6. CASE AdminResetRead(t, i)
  <2> DEFINE s == [State("adminReset", "scan", i) EXCEPT !.saw = user]
  <2>1. s \in Tx /\ s.op = "adminReset" /\ s.pc = "scan" /\ s.id = i /\ s.lock = "none"
    BY <1>0, BegunSaw DEF Ops, Issuers
  <2>2. i \in Unused(Links) /\ tx[t].pc = "idle" /\ tx' = [tx EXCEPT ![t] = s] /\ Still /\ older' = older
    BY <1>6, UnusedIsLink DEF AdminResetRead, Begins, Still, history
  <2>3. i \in Resets /\ ~Doorless
    BY <1>6, ResetsNeedADoor DEF AdminResetRead, Unused
  <2>4. Reserve(i)
    BY <2>2, <2>3 DEF Reserve
  <2> HIDE DEF s
  <2>5. Shape(s) /\ Relies(s)
    BY <2>1, <2>3 DEF Shape, Relies
  <2> QED BY <2>1, <2>2, <2>4, <2>5, Unlocked, IssuerBeginsJ DEF Issuers
<1>7. CASE RequestResetLock(t, i)
  <2> DEFINE s == [State("requestReset", "scan", i) EXCEPT !.lock = "update"]
  <2>1. s \in Tx /\ s.op = "requestReset" /\ s.pc = "scan" /\ s.id = i /\ s.lock = "update"
    BY BegunLocked DEF Ops, Issuers
  <2>2. i \in Unused(Links) /\ tx[t].pc = "idle" /\ tx' = [tx EXCEPT ![t] = s] /\ Still /\ older' = older
        /\ MayLock(t) /\ ~Throttled
    BY <1>7, UnusedIsLink DEF RequestResetLock, Begins, Still, history
  <2>3. i \in Resets /\ ~Doorless
    BY <1>7, ResetsNeedADoor DEF RequestResetLock, ResetEligible, Unused
  <2>4. Reserve(i)
    BY <2>2, <2>3 DEF Reserve
  <2> HIDE DEF s
  <2>5. Shape(s) /\ Relies(s)
    BY <2>1, <2>2, <2>3 DEF Shape, Relies
  <2> QED BY <2>1, <2>2, <2>4, <2>5, Unlocked, IssuerBeginsJ DEF Issuers
<1> QED BY <1>1, <1>2, <1>3, <1>4, <1>5, <1>6, <1>7

LEMMA OthersPreserveJ ==
    ASSUME IInv, JInv, NEW t \in Txs,
           \/ \E i \in Links : VerifyLock(t, i) \/ AcceptLock(t, i) \/ ConfirmLock(t, i)
           \/ RevokeInvitationLock(t) \/ OidcRead(t) \/ StatusRead(t)
    PROVE  JInv'
<1>0. user \in User
  BY DEF IInv, Typed
<1> USE DEF Ops, Issuers
<1>1. ASSUME NEW i \in Links, VerifyLock(t, i) PROVE JInv'
  <2> DEFINE s == [State("verify", "write", i) EXCEPT !.rows = {i}]
  <2>1. s \in Tx /\ s.op = "verify" /\ s.pc = "write" /\ s.id = i /\ s.lock = "none"
    BY BegunRow
  <2>2. tx[t].pc = "idle" /\ tx' = [tx EXCEPT ![t] = s] /\ Still /\ older' = older /\ i \in Verifications
    BY <1>1 DEF VerifyLock, Begins, Still, history
  <2> HIDE DEF s
  <2>3. Shape(s) /\ Relies(s)
    BY <2>1, <2>2 DEF Shape, Relies
  <2> QED BY <2>1, <2>2, <2>3, Unlocked, GoesOnJ
<1>2. ASSUME NEW i \in Links, AcceptLock(t, i) PROVE JInv'
  <2> DEFINE s == [State("accept", "lock", i) EXCEPT !.lock = "update"]
  <2>1. s \in Tx /\ s.op = "accept" /\ s.pc = "lock" /\ s.id = i /\ s.lock = "update"
    BY BegunLocked
  <2>2. tx[t].pc = "idle" /\ tx' = [tx EXCEPT ![t] = s] /\ Still /\ older' = older /\ MayLock(t)
    BY <1>2 DEF AcceptLock, Begins, Still, history
  <2> HIDE DEF s
  <2>3. Shape(s) /\ Relies(s)
    BY <2>1 DEF Shape, Relies
  <2> QED BY <2>1, <2>2, <2>3, Unlocked, GoesOnJ
<1>3. ASSUME NEW i \in Links, ConfirmLock(t, i) PROVE JInv'
  <2> DEFINE s == [State("confirmReset", "write", i) EXCEPT !.rows = {i}]
  <2>1. s \in Tx /\ s.op = "confirmReset" /\ s.pc = "write" /\ s.id = i /\ s.lock = "none"
    BY BegunRow
  <2>2. tx[t].pc = "idle" /\ tx' = [tx EXCEPT ![t] = s] /\ Still /\ older' = older
        /\ i \in Resets /\ link[i] = "pending"
    BY <1>3 DEF ConfirmLock, Begins, Still, history
  <2>3. ~Doorless
    BY <2>2 DEF JInv, Past
  <2> HIDE DEF s
  <2>4. Shape(s) /\ Relies(s)
    BY <2>1, <2>2, <2>3 DEF Shape, Relies
  <2> QED BY <2>1, <2>2, <2>4, Unlocked, GoesOnJ
<1>4. CASE RevokeInvitationLock(t)
  <2> DEFINE s == [State("revokeInvitation", "scan", None) EXCEPT !.lock = "update"]
  <2>1. s \in Tx /\ s.op = "revokeInvitation" /\ s.pc = "scan" /\ s.id = None /\ s.lock = "update" /\ s.rows = {}
    BY IdleTyped DEF State, IdleTx, Tx
  <2>2. tx[t].pc = "idle" /\ tx' = [tx EXCEPT ![t] = s] /\ Still /\ older' = older /\ MayLock(t)
        /\ user.st # "none"
    BY <1>4 DEF RevokeInvitationLock, Begins, Still, history
  <2> HIDE DEF s
  <2>3. Shape(s) /\ Relies(s)
    BY <2>1, <2>2 DEF Shape, Relies
  <2> QED BY <2>1, <2>2, <2>3, Unlocked, GoesOnJ
<1>5. CASE OidcRead(t)
  <2> DEFINE pc == IF user.st = "none" THEN "insert" ELSE "write"
             s == [State("oidc", pc, None) EXCEPT !.saw = user]
  <2>1. s \in Tx /\ s.op = "oidc" /\ s.pc = pc /\ s.lock = "none" /\ s.saw = user
    BY <1>0, BegunSaw
  <2>2. tx[t].pc = "idle" /\ tx' = [tx EXCEPT ![t] = s] /\ Still /\ older' = older
    BY <1>5 DEF OidcRead, Begins, Still, history
  <2>3. user.st = "pending" => user.pw # "none"
    BY DEF JInv, Past
  <2> HIDE DEF s
  <2>4. Shape(s) /\ Relies(s)
    BY <2>1, <2>3 DEF Shape, Relies
  <2> QED BY <2>1, <2>2, <2>4, Unlocked, GoesOnJ
<1>6. CASE StatusRead(t)
  <2> DEFINE s == [State("status", "write", None) EXCEPT !.saw = user]
  <2>1. s \in Tx /\ s.op = "status" /\ s.pc = "write" /\ s.lock = "none"
    BY <1>0, BegunSaw
  <2>2. tx[t].pc = "idle" /\ tx' = [tx EXCEPT ![t] = s] /\ Still /\ older' = older
        /\ user.st \in {"active", "inactive"}
    BY <1>6 DEF StatusRead, Begins, Still, history
  <2> HIDE DEF s
  <2>3. Shape(s) /\ Relies(s)
    BY <2>1, <2>2 DEF Shape, Relies
  <2> QED BY <2>1, <2>2, <2>3, Unlocked, GoesOnJ
<1> QED BY <1>1, <1>2, <1>3, <1>4, <1>5, <1>6

-----------------------------------------------------------------------------
(* Steps in the middle of a request                                         *)

\* While every committed platform invitation is revoked, the newest one is.
LEMMA RevokedIsLatest ==
    ASSUME Dates, AllRevoked
    PROVE  ~LatestIsNot({"revoked"})
<1>1. PICK i \in Platform : Latest(i)
  BY DEF AllRevoked, Dates
<1>2. link[i] = "revoked"
  BY <1>1 DEF Latest, AllRevoked
<1> QED BY <1>1, <1>2 DEF LatestIsNot

LEMMA MovesPreserveJ ==
    ASSUME IInv, JInv, NEW t \in Txs,
           \/ InviteGroupAssign(t) \/ RefetchLocked(t) \/ ResendInvitationLock(t)
           \/ ScanPending(t) \/ TakePending(t) \/ OidcConflict(t)
    PROVE  JInv'
<1>0. tx[t] \in Tx /\ Shape(tx[t]) /\ Relies(tx[t]) /\ Knows(tx[t]) /\ user \in User
      /\ \A u \in Others(t) : Exclusive(tx[t], tx[u]) /\ Exclusive(tx[u], tx[t])
  BY DEF IInv, Typed, JInv, Others
<1>1. CASE InviteGroupAssign(t)
  <2>1. PICK lock \in {"none", "share"} :
          tx' = [tx EXCEPT ![t] = [tx[t] EXCEPT !.pc = "scan", !.lock = lock]]
    BY <1>1 DEF InviteGroupAssign, Moves
  <2> DEFINE s == [tx[t] EXCEPT !.pc = "scan", !.lock = lock]
  <2>2. s \in Tx /\ s.op = tx[t].op /\ s.id = tx[t].id /\ s.pc = "scan" /\ s.lock = lock /\ s.saw = tx[t].saw
    BY <1>0 DEF Tx
  <2>3. Still /\ older' = older /\ tx[t].pc = "share" /\ MayWrite(t)
    BY <1>1 DEF InviteGroupAssign, Still, history
  <2> HIDE DEF s
  <2>4. Shape(s) /\ Relies(s)
    BY <1>0, <2>2, <2>3 DEF Shape, Relies
  <2>5. \A u \in Others(t) : Exclusive(s, tx[u]) /\ Exclusive(tx[u], s)
    BY <2>2, <2>3 DEF Exclusive, MayWrite
  <2> QED BY <2>1, <2>2, <2>3, <2>4, <2>5, GoesOnJ DEF s
<1>2. CASE RefetchLocked(t) \/ ResendInvitationLock(t)
  <2> DEFINE s == [tx[t] EXCEPT !.pc = "scan", !.lock = "update"]
  <2>1. s \in Tx /\ s.op = tx[t].op /\ s.id = tx[t].id /\ s.pc = "scan" /\ s.lock = "update" /\ s.saw = tx[t].saw
    BY <1>0 DEF Tx
  <2>2. tx' = [tx EXCEPT ![t] = s] /\ Still /\ older' = older /\ tx[t].pc = "lock" /\ MayLock(t)
        /\ tx[t].op \in {"register", "resendVerification", "resendInvitation"}
    BY <1>2 DEF RefetchLocked, ResendInvitationLock, Moves, Still, history
  <2> HIDE DEF s
  <2>3. tx[t].op = "register" /\ tx[t].id \in Platform => ~revoked
    <3> SUFFICES ASSUME tx[t].op = "register", tx[t].id \in Platform, revoked PROVE FALSE
      OBVIOUS
    <3>1. user.st = tx[t].saw.st /\ (user.st = "invited" => LatestIsNot({"revoked"}))
      BY <1>2 DEF RefetchLocked, ResendInvitationLock
    <3>2. tx[t].saw.st = "invited"
      BY <1>0, ConstAssumption DEF Shape, Invitations
    <3>3. AllRevoked
      BY <3>1, <3>2 DEF JInv, Past
    <3> QED BY <3>1, <3>2, <3>3, RevokedIsLatest DEF JInv
  <2>4. Shape(s) /\ Relies(s)
    BY <1>0, <2>1, <2>2, <2>3 DEF Shape, Relies
  <2> QED BY <2>1, <2>2, <2>4, Unlocked, GoesOnJ
<1>3. CASE ScanPending(t)
  <2> DEFINE R == StoredPending(Kind(t))
             s == [tx[t] EXCEPT !.pc = "take", !.rows = R]
  <2>0. R \in SUBSET Links
    BY DEF StoredPending, Kind, Links, Invitations
  <2>1. s \in Tx /\ s.op = tx[t].op /\ s.id = tx[t].id /\ s.pc = "take" /\ s.lock = tx[t].lock
        /\ s.saw = tx[t].saw /\ s.rows = R
    BY <1>0, <2>0 DEF Tx
  <2>2. tx' = [tx EXCEPT ![t] = s] /\ Still /\ older' = older /\ tx[t].pc = "scan"
    BY <1>3 DEF ScanPending, Moves, Still, history
  <2>3. tx[t].op = "revokeInvitation" => R = StoredPending(Platform) /\ R \subseteq Platform
    <3>1. StoredPending(Platform) \subseteq Platform
      BY DEF StoredPending
    <3>2. tx[t].op = "revokeInvitation" => Kind(t) = Platform
      BY <1>0, ConstAssumption DEF Shape, Kind, Links, Invitations
    <3> QED BY <3>1, <3>2
  <2> HIDE DEF s, R
  <2>4. Shape(s) /\ Relies(s)
    BY <1>0, <2>1, <2>2, <2>3 DEF Shape, Relies
  <2>5. \A u \in Others(t) : Exclusive(s, tx[u]) /\ Exclusive(tx[u], s)
    BY <1>0, <2>1 DEF Exclusive
  <2> QED BY <2>1, <2>2, <2>4, <2>5, GoesOnJ
<1>4. CASE TakePending(t)
  <2> DEFINE R == StoredPending(tx[t].rows)
             s == [tx[t] EXCEPT !.pc = "write", !.rows = R]
  <2>0. R \in SUBSET Links
    BY <1>0 DEF StoredPending, Tx
  <2>1. s \in Tx /\ s.op = tx[t].op /\ s.id = tx[t].id /\ s.pc = "write" /\ s.lock = tx[t].lock
        /\ s.saw = tx[t].saw /\ s.rows = R
    BY <1>0, <2>0 DEF Tx
  <2>2. tx' = [tx EXCEPT ![t] = s] /\ Still /\ older' = older /\ tx[t].pc = "take"
    BY <1>4 DEF TakePending, Moves, Still, history
  <2>3. tx[t].op = "revokeInvitation" => StoredPending(Platform) \subseteq R /\ R \subseteq Platform
    BY <1>0, <2>2 DEF Relies, Shape, StoredPending
  <2>4. tx[t].op # "oidc"
    BY <1>0, <2>2 DEF Shape
  <2> HIDE DEF s, R
  <2>5. Shape(s) /\ Relies(s)
    BY <1>0, <2>1, <2>2, <2>3, <2>4 DEF Shape, Relies
  <2>6. \A u \in Others(t) : Exclusive(s, tx[u]) /\ Exclusive(tx[u], s)
    BY <1>0, <2>1 DEF Exclusive
  <2> QED BY <2>1, <2>2, <2>5, <2>6, GoesOnJ
<1>5. CASE OidcConflict(t)
  <2> DEFINE s == [tx[t] EXCEPT !.pc = "write", !.saw = user]
  <2>1. s \in Tx /\ s.op = "oidc" /\ s.op = tx[t].op /\ s.id = tx[t].id /\ s.pc = "write"
        /\ s.lock = tx[t].lock /\ s.saw = user
    BY <1>0, <1>5 DEF Tx, OidcConflict
  <2>2. tx' = [tx EXCEPT ![t] = s] /\ Still /\ older' = older /\ user.st \in OnboardingStatus
    BY <1>5 DEF OidcConflict, Moves, Still, history
  <2>3. user.st = "pending" => user.pw # "none"
    BY DEF JInv, Past
  <2> HIDE DEF s
  <2>4. Shape(s) /\ Relies(s)
    BY <2>1, <2>2, <2>3 DEF Shape, Relies, OnboardingStatus
  <2>5. \A u \in Others(t) : Exclusive(s, tx[u]) /\ Exclusive(tx[u], s)
    BY <1>0, <2>1 DEF Exclusive
  <2> QED BY <2>1, <2>2, <2>4, <2>5, GoesOnJ
<1> QED BY <1>1, <1>2, <1>3, <1>4, <1>5
-----------------------------------------------------------------------------
(* Steps that commit                                                        *)

\* A step of t inserts the link that t issues, and no other.
Inserts(t) ==
    \A i \in Links : link'[i] = "none" <=> (link[i] = "none" /\ ~(tx[t].op \in Issuers /\ i = tx[t].id))

LEMMA DatesEnd ==
    ASSUME IInv, JInv, NEW t \in Txs, Ends(t), older' = older, Inserts(t)
    PROVE  Dates'
<1>1. tx'[t] = IdleTx /\ \A u \in Others(t) : tx'[u] = tx[u]
  BY DEF IInv, Typed, Ends, Others
<1>2. IdleTx.op \notin Issuers
  BY IdleFree DEF Ops
<1>3. Platform \subseteq Links
  BY DEF Links, Invitations
<1>4. Dated' = Dated
  <2>1. ASSUME NEW i \in Platform, i \in Dated PROVE i \in Dated'
    <3>1. CASE link'[i] # "none"
      BY <3>1 DEF Dated
    <3>2. CASE link'[i] = "none"
      <4>1. link[i] = "none" /\ ~(tx[t].op \in Issuers /\ i = tx[t].id)
        BY <1>3, <3>2 DEF Inserts
      <4>2. PICK u \in Txs : tx[u].op \in Issuers /\ tx[u].id = i
        BY <2>1, <4>1 DEF Dated
      <4>3. tx'[u] = tx[u]
        BY <1>1, <4>1, <4>2 DEF Others
      <4> QED BY <4>2, <4>3 DEF Dated
    <3> QED BY <3>1, <3>2
  <2>2. ASSUME NEW i \in Platform, i \in Dated' PROVE i \in Dated
    <3>1. CASE link'[i] # "none"
      BY <1>3, <3>1 DEF Dated, Inserts
    <3>2. ASSUME NEW u \in Txs, tx'[u].op \in Issuers, tx'[u].id = i PROVE i \in Dated
      <4>1. tx'[u] = tx[u]
        BY <1>1, <1>2, <3>2 DEF Others
      <4> QED BY <3>2, <4>1 DEF Dated
    <3> QED BY <2>2, <3>1, <3>2 DEF Dated
  <2>3. Dated \subseteq Platform /\ Dated' \subseteq Platform
    BY DEF Dated
  <2> QED BY <2>1, <2>2, <2>3
<1>5. CASE tx[t].op \in Issuers /\ tx[t].id \in Platform
  <2>1. tx[t].id \in Dated
    BY <1>5 DEF Dated
  <2>2. \A i \in Platform : link'[i] = "none" <=> (link[i] = "none" /\ i # tx[t].id)
    BY <1>3, <1>5 DEF Inserts
  <2> QED BY <1>4, <2>1, <2>2, DatesCommitted DEF JInv
<1>6. CASE ~(tx[t].op \in Issuers /\ tx[t].id \in Platform)
  <2>1. \A i \in Platform : link'[i] = "none" <=> link[i] = "none"
    BY <1>3, <1>6 DEF Inserts
  <2> QED BY <1>4, <2>1, DatesKept DEF JInv
<1> QED BY <1>5, <1>6

\* The window measured by other requests stays as it is.
LEMMA WindowKept ==
    ASSUME NEW t \in Txs, Inserts(t), ~(tx[t].op \in Issuers /\ tx[t].id \in Resets), cooling' = cooling
    PROVE  Throttled' = Throttled
<1>1. \A i \in Resets : link'[i] # "none" <=> link[i] # "none"
  BY DEF Inserts, Links
<1>2. {i \in Resets : link'[i] # "none"} = {i \in Resets : link[i] # "none"}
  BY <1>1
<1> QED BY <1>2 DEF Throttled

\* A request that commits preserves the second invariant if what the others
\* rely on stays.
LEMMA EndStepJ ==
    ASSUME IInv, JInv, NEW t \in Txs, Ends(t),
           cooling' \in BOOLEAN, revoked' \in BOOLEAN, activator' \in Ops \cup {None}, Past', Dates',
           user.st # "none" => user'.st # "none" /\ (user.st # "pending" => user'.st # "pending"),
           user.st \in {"active", "inactive"} => user'.st \in {"active", "inactive"},
           Doorless' => Doorless,
           \A u \in Others(t) : tx[u].lock = "update" => (revoked' => revoked) /\ (Throttled' => Throttled),
           \A u \in Others(t) : tx[u].op = "revokeInvitation" =>
              StoredPending(Platform)' \subseteq StoredPending(Platform)
    PROVE  JInv'
<1>1. tx'[t] = IdleTx /\ \A u \in Others(t) : tx'[u] = tx[u]
  BY DEF IInv, Typed, Ends, Others
<1>2. ASSUME NEW u \in Txs PROVE Shape(tx[u])' /\ Relies(tx[u])'
  <2>1. CASE u = t
    <3>1. tx'[u].pc = "idle" /\ tx'[u].op = None
      BY <1>1, <2>1 DEF IdleTx
    <3> QED BY <3>1, ConstAssumption DEF Shape, Relies, Ops, Issuers
  <2>2. CASE u # t
    <3>1. u \in Others(t) /\ tx'[u] = tx[u] /\ Shape(tx[u]) /\ Relies(tx[u])
      BY <1>1, <2>2 DEF Others, JInv
    <3>2. Shape(tx[u])'
      BY <3>1 DEF Shape
    <3>3. Relies(tx[u])'
      BY <3>1 DEF Relies, Shape
    <3> QED BY <3>2, <3>3
  <2> QED BY <2>1, <2>2
<1>3. ASSUME NEW u \in Txs, NEW v \in Others(u) PROVE Exclusive(tx[u], tx[v])'
  <2>0. v \in Txs /\ v # u /\ Exclusive(tx[u], tx[v])
    BY DEF Others, JInv
  <2>1. IdleTx.lock = "none"
    BY DEF IdleTx
  <2> QED BY <1>1, <2>0, <2>1 DEF Exclusive, Others
<1> QED BY <1>2, <1>3 DEF JInv, Others

\* A request that has not locked the account writes it, or inserts a row that
\* refers to it, only when nobody has.
LEMMA NoRevoker ==
    ASSUME JInv, NEW t \in Txs, MayWrite(t)
    PROVE  \A u \in Others(t) : tx[u].lock # "update" /\ tx[u].op # "revokeInvitation"
BY DEF JInv, Shape, MayWrite, Others

\* Activation: what the account becomes, and what happens to the links.
LEMMA ActivationJ ==
    ASSUME IInv, JInv, NEW t \in Txs, NEW spent \in SUBSET (Links \ Resets), Activate(t, spent),
           \A i \in spent : link[i] \in Stored,
           tx[t].op \in Ops \ Issuers, user' \in User, user'.st = "active", IdpLeavesNoPassword',
           user.cleared => user'.cleared,
           activator = None => tx[t].op = "oidc" \/ Doorless'= FALSE
    PROVE  JInv'
<1>0. \A i \in Links : link'[i] = IF i \in spent \cup Swept(t) THEN "spent" ELSE link[i]
  BY DEF Activate
<1>1. \A i \in Swept(t) : link[i] = "pending" /\ i \notin Resets
  BY ConstAssumption DEF Swept
<1>2. Inserts(t)
  BY <1>0, <1>1 DEF Inserts, Stored
<1>3. Ends(t) /\ older' = older /\ cooling' = cooling /\ revoked' = revoked
      /\ activator' = IF activator = None THEN tx[t].op ELSE activator
  BY DEF Activate
<1>4. activator' # None /\ activator' \in Ops \cup {None}
  BY <1>3, ConstAssumption DEF JInv
<1>5. Doorless' => Doorless
  BY <1>3, <1>4 DEF Doorless
<1>6. Past'
  <2>1. ASSUME Doorless', NEW i \in Resets PROVE link'[i] = "none"
    <3>1. link[i] = "none" /\ i \in Links
      BY <1>5, <2>1 DEF JInv, Past, Links
    <3> QED BY <1>0, <1>1, <3>1
  <2> QED BY <1>4, <2>1 DEF Past, OnboardingStatus, Unclaimed
<1>7. Dates'
  BY <1>2, <1>3, DatesEnd
<1>8. Throttled' = Throttled
  BY <1>2, <1>3, WindowKept
<1>9. StoredPending(Platform)' \subseteq StoredPending(Platform)
  BY <1>0 DEF StoredPending, Stored, Links, Invitations
<1> QED BY <1>3, <1>4, <1>5, <1>6, <1>7, <1>8, <1>9, EndStepJ DEF JInv

LEMMA CommitsPreserveJ ==
    ASSUME IInv, JInv, NEW t \in Txs,
           \/ InsertUser(t) \/ Issue(t) \/ RevokeInvitation(t)
           \/ Verify(t) \/ Accept(t) \/ OidcActivate(t)
           \/ StatusWrite(t) \/ Confirm(t) \/ Abort(t)
    PROVE  JInv'
<1>0. /\ tx[t] \in Tx /\ Knows(tx[t]) /\ Shape(tx[t]) /\ Relies(tx[t])
      /\ user \in User /\ link \in [Links -> LinkStatus] /\ AccountOK /\ Past
      /\ cooling \in BOOLEAN /\ revoked \in BOOLEAN /\ activator \in Ops \cup {None}
  BY DEF IInv, Typed, JInv
<1>k. Platform \subseteq Links /\ Resets \subseteq Links /\ Verifications \subseteq Links
      /\ Platform \cap Resets = {} /\ Verifications \cap Resets = {} /\ Group \cap Resets = {}
      /\ Platform \cap Group = {} /\ Platform \cap Verifications = {}
  BY ConstAssumption DEF Links, Invitations
<1>1. CASE InsertUser(t)
  <2>1. /\ tx[t].pc = "insert" /\ user.st = "none" /\ Ends(t) /\ older' = older /\ cooling' = cooling
        /\ link' = IF tx[t].op = "oidc" THEN link ELSE [link EXCEPT ![tx[t].id] = "pending"]
        /\ activator' = IF tx[t].op = "oidc" THEN "oidc" ELSE activator
        /\ revoked' = (revoked /\ tx[t].op # "invite")
    BY <1>1 DEF InsertUser
  <2>2. activator = None /\ ~revoked /\ ~revoked'
    BY <1>0, <2>1 DEF Past
  <2>3. tx[t].op \in Issuers \cup {"oidc"} /\ tx[t].op \notin {"requestReset", "adminReset"}
    BY <1>0, <2>1 DEF Knows, Shape
  <2>4. tx[t].op \in Issuers => tx[t].id \in Links \ Resets /\ link[tx[t].id] = "none"
    BY <1>0, <1>k, <2>3 DEF Knows, Shape, Issuers
  <2>5. Inserts(t)
    BY <1>0, <2>1, <2>3, <2>4 DEF Inserts, Issuers
  <2>6. user' = [st |-> IF tx[t].op = "register" THEN "pending" ELSE IF tx[t].op = "oidc" THEN "active" ELSE "invited",
                 pw |-> IF tx[t].op = "register" THEN "registrant" ELSE "none",
                 cleared |-> FALSE]
    BY <1>1 DEF InsertUser, NoUser
  <2>7. Past'
    <3>1. \A i \in Resets : link'[i] = "none"
      <4>1. \A i \in Resets : link[i] = "none"
        BY <1>0, <2>2 DEF Past, Doorless
      <4> QED BY <1>0, <1>k, <2>1, <2>3, <2>4, <4>1
    <3>2. \A i \in Platform : link'[i] # "spent"
      BY <1>0, <1>k, <2>1, <2>3, <2>4 DEF Past, Unclaimed
    <3>3. activator' = None <=> user'.st \in {"none"} \cup OnboardingStatus
      BY <2>1, <2>2, <2>6, ConstAssumption DEF OnboardingStatus, Ops
    <3>4. IdpLeavesNoPassword'
      BY <2>1, <2>2, <2>6, ConstAssumption DEF IdpLeavesNoPassword, Ops
    <3> QED BY <2>2, <2>6, <3>1, <3>2, <3>3, <3>4 DEF Past
  <2>8. Dates'
    BY <2>1, <2>5, DatesEnd
  <2>9. Throttled' = Throttled
    BY <2>1, <2>4, <2>5, WindowKept
  <2>10. \A u \in Others(t) : tx[u].op # "revokeInvitation"
    BY <2>1 DEF JInv, Relies, Others
  <2>11. Doorless
    BY <2>2 DEF Doorless
  <2>12. cooling' \in BOOLEAN /\ revoked' \in BOOLEAN /\ activator' \in Ops \cup {None}
    BY <1>0, <2>1 DEF Ops
  <2> QED BY <2>1, <2>2, <2>7, <2>8, <2>9, <2>10, <2>11, <2>12, EndStepJ
<1>2. CASE Issue(t)
  <2>1. /\ tx[t].pc = "write" /\ tx[t].op \in Issuers /\ Ends(t) /\ user' = user /\ activator' = activator
        /\ older' = older /\ cooling' = (cooling \/ tx[t].id \in Resets) /\ MayWrite(t)
        /\ revoked' = (revoked /\ tx[t].op \notin {"invite", "resendInvitation"})
    BY <1>2 DEF Issue, account
  <2>2. tx[t].id \notin tx[t].rows
    BY <2>1, OwnRows, OwnLink DEF Stored
  <2>3. \A i \in Links : link'[i] = IF i \in tx[t].rows THEN "revoked"
                                    ELSE IF i = tx[t].id THEN "pending" ELSE link[i]
    BY <1>2, <2>2 DEF Issue
  <2>4. Inserts(t)
    BY <2>1, <2>3, OwnRows, OwnLink DEF Inserts, Stored
  <2>5. Past'
    <3>1. ASSUME Doorless', NEW i \in Resets PROVE link'[i] = "none"
      <4>1. Doorless /\ link[i] = "none"
        BY <1>0, <2>1, <3>1 DEF Doorless, Past
      <4>2. i # tx[t].id
        BY <1>0, <1>k, <2>1, <4>1 DEF Relies, Shape, Issuers
      <4> QED BY <1>k, <2>1, <2>3, <4>1, <4>2, OwnRows DEF Stored
    <3>2. ASSUME revoked', user.st = "invited" PROVE AllRevoked'
      <4>1. AllRevoked
        BY <1>0, <2>1, <3>2 DEF Past
      <4>2. tx[t].id \notin Platform
        BY <1>0, <1>k, <2>1, <3>2 DEF Relies, Shape, Issuers
      <4>3. \A i \in Platform : link'[i] = link[i]
        BY <1>k, <2>1, <2>3, <4>1, <4>2, OwnRows DEF AllRevoked, Stored
      <4> QED BY <4>1, <4>3 DEF AllRevoked
    <3>3. user.st \in Unclaimed => \A i \in Platform : link'[i] # "spent"
      BY <1>0, <1>k, <2>3 DEF Past
    <3>4. IdpLeavesNoPassword'
      BY <1>0, <2>1 DEF Past, IdpLeavesNoPassword
    <3> QED BY <1>0, <2>1, <3>1, <3>2, <3>3, <3>4 DEF Past
  <2>6. Dates'
    BY <2>1, <2>4, DatesEnd
  <2>7. \A u \in Others(t) : tx[u].lock # "update" /\ tx[u].op # "revokeInvitation"
    BY <2>1, NoRevoker
  <2>8. Doorless' => Doorless
    BY <2>1 DEF Doorless
  <2>9. cooling' \in BOOLEAN /\ revoked' \in BOOLEAN
    BY <1>0, <2>1
  <2> QED BY <1>0, <2>1, <2>5, <2>6, <2>7, <2>8, <2>9, EndStepJ
<1>3. CASE RevokeInvitation(t)
  <2>1. /\ tx[t].pc = "write" /\ tx[t].op = "revokeInvitation" /\ Ends(t) /\ user' = user
        /\ activator' = activator /\ older' = older /\ cooling' = cooling /\ revoked' = TRUE
        /\ tx[t].rows # {}
    BY <1>3 DEF RevokeInvitation, account
  <2>2. \A i \in Links : link'[i] = IF i \in tx[t].rows THEN "revoked" ELSE link[i]
    BY <1>3 DEF RevokeInvitation
  <2>3. tx[t].rows \subseteq Platform /\ user.st # "none" /\ StoredPending(Platform) \subseteq tx[t].rows
        /\ tx[t].lock = "update"
    BY <1>0, <2>1 DEF Shape, Relies
  <2>4. Inserts(t)
    BY <2>1, <2>2, OwnRows DEF Inserts, Stored, Issuers
  <2>5. Past'
    <3>1. user.st = "invited" => AllRevoked'
      <4> SUFFICES ASSUME user.st = "invited" PROVE AllRevoked'
        OBVIOUS
      <4>1. PICK i \in tx[t].rows : TRUE
        BY <2>1
      <4>2. i \in Platform /\ link'[i] = "revoked"
        BY <1>k, <2>2, <2>3, <4>1
      <4>3. ASSUME NEW j \in Platform PROVE link'[j] \in {"none", "revoked"}
        <5>1. link[j] \in LinkStatus /\ link[j] # "spent"
          BY <1>0, <1>k DEF Past, Unclaimed
        <5>2. link[j] \in Stored => j \in tx[t].rows
          BY <2>3 DEF StoredPending
        <5> QED BY <1>k, <2>2, <5>1, <5>2 DEF LinkStatus
      <4> QED BY <4>2, <4>3 DEF AllRevoked
    <3>2. ASSUME Doorless', NEW i \in Resets PROVE link'[i] = "none"
      <4>1. link[i] = "none"
        BY <1>0, <2>1, <3>2 DEF Doorless, Past
      <4> QED BY <1>k, <2>2, <2>3, <4>1
    <3>3. user.st \in Unclaimed => \A i \in Platform : link'[i] # "spent"
      BY <1>0, <1>k, <2>2 DEF Past
    <3>4. IdpLeavesNoPassword'
      BY <1>0, <2>1 DEF Past, IdpLeavesNoPassword
    <3> QED BY <1>0, <2>1, <2>3, <3>1, <3>2, <3>3, <3>4 DEF Past
  <2>6. Dates'
    BY <2>1, <2>4, DatesEnd
  <2>7. \A u \in Others(t) : tx[u].lock = "none" /\ tx[u].op # "revokeInvitation"
    BY <2>3 DEF JInv, Exclusive, Shape, Others
  <2>8. Doorless' => Doorless
    BY <2>1 DEF Doorless
  <2> QED BY <1>0, <2>1, <2>5, <2>6, <2>7, <2>8, EndStepJ
<1>4. CASE Verify(t)
  <2>1. tx[t].pc = "write" /\ tx[t].op = "verify" /\ tx[t].id \in tx[t].rows /\ Activate(t, {tx[t].id})
        /\ user' = [user EXCEPT !.st = "active"] /\ tx[t].id \in Verifications
    BY <1>0, <1>4 DEF Verify, Knows, Shape
  <2>2. {tx[t].id} \in SUBSET (Links \ Resets) /\ \A i \in {tx[t].id} : link[i] \in Stored
    BY <1>k, <2>1, OwnRows
  <2>3. user' \in User /\ user'.st = "active" /\ user'.pw = user.pw /\ user'.cleared = user.cleared
    BY <1>0, <2>1 DEF User
  <2>4. activator' = IF activator = None THEN "verify" ELSE activator
    BY <2>1 DEF Activate
  <2>5. IdpLeavesNoPassword'
    BY <1>0, <2>3, <2>4 DEF IdpLeavesNoPassword, Past
  <2>6. activator = None => Doorless' = FALSE
    BY <2>4, ConstAssumption DEF Doorless, Ops
  <2> QED BY <2>1, <2>2, <2>3, <2>5, <2>6, ActivationJ DEF Ops, Issuers
<1>5. CASE Accept(t)
  <2>1. /\ tx[t].op = "accept" /\ tx[t].id \in Invitations /\ link[tx[t].id] \in Stored
        /\ user.st \in OnboardingStatus /\ Activate(t, {tx[t].id})
        /\ user' = [user EXCEPT !.st = "active", !.pw = tx[t].id]
    BY <1>0, <1>5 DEF Accept, Knows, Stored
  <2>2. {tx[t].id} \in SUBSET (Links \ Resets)
    BY <1>k, <2>1 DEF Links, Invitations
  <2>3. user' \in User /\ user'.st = "active" /\ user'.cleared = user.cleared
    BY <1>0, <2>1 DEF User, Passwords
  <2>4. activator = None /\ activator' = "accept"
    BY <1>0, <2>1 DEF Activate, Past
  <2>5. IdpLeavesNoPassword' /\ Doorless' = FALSE
    BY <2>4, ConstAssumption DEF IdpLeavesNoPassword, Doorless, Ops
  <2> QED BY <2>1, <2>2, <2>3, <2>5, ActivationJ DEF Ops, Issuers
<1>6. CASE OidcActivate(t)
  <2>1. /\ tx[t].op = "oidc" /\ tx[t].pc = "write" /\ Activate(t, {})
        /\ user' = IF tx[t].saw.pw = "none" THEN [user EXCEPT !.st = "active"]
                   ELSE [user EXCEPT !.st = "active", !.pw = "none", !.cleared = TRUE]
    BY <1>6 DEF OidcActivate
  <2>2. user' \in User /\ user'.st = "active" /\ (user.cleared => user'.cleared)
        /\ IF tx[t].saw.pw = "none" THEN user'.pw = user.pw /\ user'.cleared = user.cleared
           ELSE user'.pw = "none" /\ user'.cleared
    BY <1>0, <2>1 DEF User, Passwords
  <2>3. activator' = IF activator = None THEN "oidc" ELSE activator
    BY <2>1 DEF Activate
  <2>4. activator = None /\ tx[t].saw.pw = "none" => user.pw = "none"
    BY <1>0, <2>1 DEF Past, Relies, AccountOK, Unclaimed, OnboardingStatus
  <2>5. IdpLeavesNoPassword'
    BY <1>0, <2>2, <2>3, <2>4 DEF IdpLeavesNoPassword, Past
  <2>6. {} \in SUBSET (Links \ Resets) /\ \A i \in {} : link[i] \in Stored
    OBVIOUS
  <2>7. tx[t].op \in Ops \ Issuers
    BY <2>1 DEF Ops, Issuers
  <2> QED BY <2>1, <2>2, <2>5, <2>6, <2>7, ActivationJ
<1>7. CASE StatusWrite(t)
  <2>1. /\ tx[t].op = "status" /\ link' = link /\ Ends(t) /\ older' = older /\ cooling' = cooling
        /\ revoked' = revoked /\ activator' = activator
        /\ user' = [user EXCEPT !.st = IF tx[t].saw.st = "active" THEN "inactive" ELSE "active"]
    BY <1>7 DEF StatusWrite, history
  <2>2. user.st \in {"active", "inactive"} /\ user'.st \in {"active", "inactive"}
        /\ user'.pw = user.pw /\ user'.cleared = user.cleared
    BY <1>0, <2>1 DEF Relies, User
  <2>3. Inserts(t)
    BY <2>1 DEF Inserts, Issuers
  <2>4. Past'
    BY <1>0, <2>1, <2>2 DEF Past, IdpLeavesNoPassword, Doorless, OnboardingStatus, Unclaimed
  <2>5. Dates' /\ Throttled' = Throttled
    BY <2>1, <2>3, DatesEnd, WindowKept DEF Issuers
  <2>6. (Doorless' => Doorless) /\ StoredPending(Platform)' = StoredPending(Platform)
    BY <2>1, <2>2 DEF Doorless, StoredPending
  <2> QED BY <1>0, <2>1, <2>2, <2>4, <2>5, <2>6, EndStepJ
<1>8. CASE Confirm(t)
  <2>1. /\ tx[t].op = "confirmReset" /\ tx[t].pc = "write" /\ Ends(t) /\ older' = older /\ cooling' = cooling
        /\ revoked' = revoked /\ activator' = activator
        /\ user' = [user EXCEPT !.pw = "owner"] /\ link' = [link EXCEPT ![tx[t].id] = "spent"]
    BY <1>8 DEF Confirm, history
  <2>2. tx[t].id \in Resets /\ ~Doorless /\ tx[t].id \in tx[t].rows
    BY <1>0, <2>1 DEF Shape, Relies, Knows
  <2>3. user'.st = user.st /\ user'.pw = "owner" /\ user'.cleared = user.cleared
    BY <1>0, <2>1 DEF User
  <2>4. Inserts(t)
    BY <1>0, <2>1, <2>2, OwnRows DEF Inserts, Issuers, Stored
  <2>5. \A i \in Platform : link'[i] = link[i]
    BY <1>0, <1>k, <2>1, <2>2
  <2>6. ~Doorless'
    BY <2>1, <2>2, <2>3 DEF Doorless
  <2>7. Past'
    <3>1. AllRevoked => AllRevoked'
      BY <2>5 DEF AllRevoked
    <3>2. IdpLeavesNoPassword'
      BY <2>1, <2>2, <2>3 DEF IdpLeavesNoPassword, Doorless
    <3> QED BY <1>0, <2>1, <2>3, <2>5, <2>6, <3>1, <3>2 DEF Past
  <2>8. Dates' /\ Throttled' = Throttled
    BY <2>1, <2>4, DatesEnd, WindowKept DEF Issuers
  <2>9. StoredPending(Platform)' = StoredPending(Platform)
    BY <2>5 DEF StoredPending
  <2> QED BY <1>0, <2>1, <2>3, <2>6, <2>7, <2>8, <2>9, EndStepJ
<1>9. CASE Abort(t)
  <2>1. link' = link /\ user' = user /\ activator' = activator /\ cooling' = cooling /\ revoked' = revoked
        /\ Ends(t) /\ Release(t)
    BY <1>9 DEF Abort, account
  <2>2. Past'
    BY <1>0, <2>1 DEF Past, IdpLeavesNoPassword, Doorless, AllRevoked
  <2>3. Throttled' = Throttled /\ Doorless' = Doorless /\ StoredPending(Platform)' = StoredPending(Platform)
    BY <2>1 DEF Throttled, Doorless, StoredPending
  <2>4. Dates'
    <3>1. CASE tx[t].op \notin Issuers
      <4>1. Inserts(t) /\ older' = older
        BY <2>1, <3>1 DEF Inserts, Release
      <4> QED BY <2>1, <4>1, DatesEnd
    <3>2. CASE tx[t].op \in Issuers
      <4>1. older' = [i \in Platform |-> IF i = tx[t].id THEN {} ELSE older[i] \ {tx[t].id}]
        BY <2>1, <3>2 DEF Release
      <4>2. tx'[t] = IdleTx /\ \A u \in Others(t) : tx'[u] = tx[u]
        BY <2>1 DEF IInv, Typed, Ends, Others
      <4>3. link[tx[t].id] = "none" /\ \A u \in Others(t) : tx[u].op \in Issuers => tx[u].id # tx[t].id
        BY <1>0, <3>2 DEF Knows, IInv, Apart
      <4>4. IdleTx.op \notin Issuers
        BY IdleFree DEF Ops
      <4>5. ASSUME NEW i \in Platform PROVE i \in Dated' <=> i \in Dated /\ i # tx[t].id
        BY <2>1, <3>2, <4>2, <4>3, <4>4 DEF Dated, Others
      <4>6. Dated' = Dated \ {tx[t].id}
        BY <4>5 DEF Dated
      <4> QED BY <2>1, <4>1, <4>3, <4>6, DatesReleased DEF JInv
    <3> QED BY <3>1, <3>2
  <2> QED BY <1>0, <2>1, <2>2, <2>3, <2>4, EndStepJ
<1> QED BY <1>1, <1>2, <1>3, <1>4, <1>5, <1>6, <1>7, <1>8, <1>9

-----------------------------------------------------------------------------
(* Time                                                                     *)

LEMMA TimePreservesJ ==
    ASSUME IInv, JInv, (\E i \in Links : Lapse(i)) \/ CoolDown \/ UNCHANGED vars
    PROVE  JInv'
<1>1. tx' = tx /\ user' = user /\ older' = older /\ revoked' = revoked /\ activator' = activator
      /\ cooling' \in BOOLEAN /\ (cooling' => cooling)
  <2>1. CASE \E i \in Links : Lapse(i)
    BY <2>1 DEF Lapse, account, JInv
  <2>2. CASE CoolDown
    BY <2>2 DEF CoolDown, account, JInv
  <2>3. CASE UNCHANGED vars
    BY <2>3 DEF vars, JInv
  <2> QED BY <2>1, <2>2, <2>3
<1>2. \A j \in Links : /\ link'[j] = link[j] \/ (link[j] = "pending" /\ link'[j] = "lapsed")
  BY DEF Lapse, CoolDown, vars, IInv, Typed
<1>3. Platform \subseteq Links /\ Resets \subseteq Links
  BY DEF Links, Invitations
<1>4. \A j \in Links : /\ link'[j] = "none" <=> link[j] = "none"
                       /\ link'[j] \in Stored <=> link[j] \in Stored
                       /\ link[j] \in {"none", "revoked"} => link'[j] = link[j]
                       /\ link'[j] = "spent" <=> link[j] = "spent"
  BY <1>2 DEF Stored
<1>5. Dates'
  <2>1. Dated' = Dated
    BY <1>1, <1>3, <1>4 DEF Dated
  <2> QED BY <1>1, <1>3, <1>4, <2>1, DatesKept DEF JInv
<1>6. Past'
  <2>1. AllRevoked => AllRevoked'
    BY <1>3, <1>4 DEF AllRevoked
  <2>2. Doorless' = Doorless /\ IdpLeavesNoPassword' = IdpLeavesNoPassword
    BY <1>1 DEF Doorless, IdpLeavesNoPassword
  <2> QED BY <1>1, <1>3, <1>4, <2>1, <2>2 DEF JInv, Past
<1>7. Throttled' => Throttled
  <2>1. {i \in Resets : link'[i] # "none"} = {i \in Resets : link[i] # "none"}
    BY <1>3, <1>4
  <2> QED BY <1>1, <2>1 DEF Throttled
<1>8. StoredPending(Platform)' = StoredPending(Platform) /\ Doorless' = Doorless
  BY <1>1, <1>3, <1>4 DEF StoredPending, Doorless
<1>9. ASSUME NEW t \in Txs PROVE Shape(tx[t])' /\ Relies(tx[t])'
  <2>1. Shape(tx[t]) /\ Relies(tx[t])
    BY DEF JInv
  <2>2. Shape(tx[t])'
    BY <1>1, <2>1 DEF Shape
  <2> QED BY <1>1, <1>7, <1>8, <2>1, <2>2 DEF Relies
<1>10. \A t \in Txs : \A u \in Others(t) : Exclusive(tx[t], tx[u])'
  BY <1>1 DEF JInv, Exclusive, Others
<1> QED BY <1>1, <1>5, <1>6, <1>9, <1>10 DEF JInv, Others

\* Every step preserves the second invariant, given the first.
LEMMA NextPreservesJ == IInv /\ JInv /\ [Next]_vars => JInv'
<1> SUFFICES ASSUME IInv, JInv, [Next]_vars PROVE JInv'
  OBVIOUS
<1>1. ASSUME NEW t \in Txs, Requests(t) PROVE JInv'
  BY <1>1, IssuersPreserveJ, OthersPreserveJ DEF Requests
<1>2. ASSUME NEW t \in Txs, Steps(t) PROVE JInv'
  BY <1>2, MovesPreserveJ, CommitsPreserveJ DEF Steps
<1> QED BY <1>1, <1>2, TimePreservesJ DEF Next

\* The dates of the invitations, the locks on the account and its history agree
\* in every reachable state.
THEOREM HistoryInvariance == Spec => [](IInv /\ JInv)
BY InitInv, InitJ, NextPreserves, NextPreservesJ, PTL DEF Spec

\* Every reachable state is well typed.
THEOREM TypeCorrect == Spec => []TypeOK
<1>1. IInv /\ JInv => TypeOK
  BY DEF IInv, Typed, JInv, Dates, TypeOK
<1> QED BY <1>1, HistoryInvariance, PTL

\* Activation by an identity provider leaves no password of a self-signup, and no
\* reset plants one on an account that never had any.
THEOREM IdpAccountsHaveNoPassword == Spec => []IdpLeavesNoPassword
<1>1. JInv => IdpLeavesNoPassword
  BY DEF JInv, Past
<1> QED BY <1>1, HistoryInvariance, PTL

\* A self-service reset holds the account's lock from the measurement of its
\* window to its commit, and nobody else issues a reset in between.
THEOREM ThrottleHolds == Spec => SelfServiceThrottled
<1>1. ASSUME JInv
      PROVE  \A i \in Resets : link[i] = "none" /\ link'[i] # "none" /\ Throttled =>
               ~ \E t \in Txs : tx[t].id = i /\ tx[t].op = "requestReset"
  BY <1>1 DEF JInv, Relies
<1> QED BY <1>1, HistoryInvariance, PTL DEF SelfServiceThrottled

\* After an administrator revoked the platform invitation, no sign-up issues
\* another one, whatever it read before the revocation.
THEOREM RevocationStands == Spec => RevokedLinkStaysDead
<1> DEFINE Stands == \A i \in Platform :
        revoked /\ link[i] = "none" /\ link'[i] # "none" =>
            \E t \in Txs : tx[t].id = i /\ tx[t].op \in {"invite", "resendInvitation"}
<1>1. ASSUME IInv, JInv, [Next]_vars PROVE Stands
  <2> SUFFICES ASSUME NEW i \in Platform, revoked, link[i] = "none", link'[i] # "none"
               PROVE  \E t \in Txs : tx[t].id = i /\ tx[t].op \in {"invite", "resendInvitation"}
    OBVIOUS
  <2>0. i \in Links /\ i \notin Verifications \cup Group \cup Resets
    BY ConstAssumption DEF Links, Invitations
  <2>1. PICK t \in Txs : InsertUser(t) \/ Issue(t) \/ (LinkStep(t) /\ tx[t].op \notin Issuers)
    <3>1. ASSUME NEW t \in Txs, Requests(t) PROVE link' = link
      BY <3>1 DEF Requests, RegisterRead, ResendVerificationRead, InviteRead, InviteGroupRead,
           ResendInvitationBegin, AdminResetRead, RequestResetLock, VerifyLock, AcceptLock,
           ConfirmLock, RevokeInvitationLock, OidcRead, StatusRead
    <3>2. ASSUME NEW t \in Txs, Steps(t), link' # link
          PROVE  InsertUser(t) \/ Issue(t) \/ (LinkStep(t) /\ tx[t].op \notin Issuers)
      <4>1. \/ InsertUser(t) \/ Issue(t) \/ RevokeInvitation(t) \/ Verify(t) \/ Accept(t)
            \/ OidcActivate(t) \/ Confirm(t)
        BY <3>2 DEF Steps, InviteGroupAssign, RefetchLocked, ResendInvitationLock, ScanPending,
             TakePending, OidcConflict, StatusWrite, Abort
      <4>2. LinkStep(t)
        BY <1>1, <4>1, CommitsPreserve
      <4>3. RevokeInvitation(t) \/ Verify(t) \/ Accept(t) \/ OidcActivate(t) \/ Confirm(t)
              => tx[t].op \notin Issuers
        BY DEF RevokeInvitation, Verify, Accept, OidcActivate, Confirm, Issuers
      <4> QED BY <4>1, <4>2, <4>3
    <3>3. ~(\E j \in Links : Lapse(j)) /\ ~CoolDown /\ ~UNCHANGED vars
      BY <1>1, <2>0 DEF Lapse, CoolDown, vars, IInv, Typed
    <3> QED BY <1>1, <3>1, <3>2, <3>3 DEF Next
  <2>2. tx[t].op \in Issuers /\ tx[t].id = i /\ (InsertUser(t) \/ Issue(t))
    <3>1. LinkStep(t)
      BY <1>1, <2>1, CommitsPreserve
    <3> QED BY <2>0, <2>1, <3>1 DEF LinkStep
  <2>3. Shape(tx[t]) /\ Relies(tx[t]) /\ Past
    BY <1>1 DEF JInv
  <2>4. CASE InsertUser(t)
    BY <2>3, <2>4 DEF InsertUser, Past
  <2>5. CASE Issue(t)
    BY <2>0, <2>2, <2>3, <2>5 DEF Issue, Shape, Relies, Issuers
  <2> QED BY <2>2, <2>4, <2>5
<1> QED BY <1>1, HistoryInvariance, PTL DEF Spec, RevokedLinkStaysDead
=============================================================================
