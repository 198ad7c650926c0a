----------------------------- MODULE Onboarding -----------------------------
(***************************************************************************)
(* One e-mail address and the single-use links mailed to it: self-signup   *)
(* and its verification links, platform and group invitations, activation  *)
(* through an identity provider, password cooling, and the administrators'  *)
(* resend, revoke, (de)activate and reset.  Every request is a transaction *)
(* at READ COMMITTED: it may read the account without a lock, lock the     *)
(* users row FOR UPDATE, scan the pending links and then wait for their    *)
(* row locks; its writes show at its commit.  Inserting a row that refers  *)
(* to the account needs a KEY SHARE lock on it, which FOR UPDATE excludes. *)
(***************************************************************************)
EXTENDS Naturals, FiniteSets

CONSTANTS
    Txs,             \* concurrent requests
    Verifications,   \* email_verifications rows
    Platform,        \* invitations with object_type NULL
    Group,           \* invitations into one evaluation group
    Resets,          \* password_reset_tokens rows
    None,
    MaxPerDay        \* password_reset_max_per_day

Invitations == Platform \cup Group
Links == Verifications \cup Invitations \cup Resets

VARIABLES
    user,      \* the users row of the address
    link,      \* link[i]: status of the token row i
    older,     \* older[i]: the platform invitations created before i
    cooling,   \* a reset was created within password_reset_cooldown_seconds
    tx,        \* tx[t]: the request in progress
    revoked,   \* history: the last administrator to touch the platform link revoked it
    activator  \* history: the operation that activated the account first

vars == <<user, link, older, cooling, tx, revoked, activator>>
history == <<revoked, activator>>
account == <<user, activator>>

\* A password is named after whoever supplied it: the self-signup, the holder
\* of an invitation, or the owner of the mailbox through a reset.
Passwords == {"none", "registrant", "owner"} \cup Invitations
OnboardingStatus == {"pending", "invited"}
User == [st : {"none", "active", "inactive"} \cup OnboardingStatus,
         pw : Passwords,
         cleared : BOOLEAN]              \* password_cleared_at IS NOT NULL

\* "lapsed": stored as pending, expires_at in the past (project_expired).
Stored == {"pending", "lapsed"}
LinkStatus == {"none", "spent", "revoked"} \cup Stored

\* The requests that replace the pending links of one kind by a new one.
Issuers == {"register", "resendVerification", "invite", "resendInvitation",
            "inviteGroup", "requestReset", "adminReset"}
Ops == Issuers \cup {"revokeInvitation", "verify", "accept", "oidc", "status", "confirmReset"}

ASSUME ConstAssumption ==
    /\ MaxPerDay \in Nat
    /\ None \notin Ops
    /\ Links \cap {None, "none", "registrant", "owner"} = {}
    /\ Verifications \cap Invitations = {} /\ Platform \cap Group = {}
    /\ Resets \cap (Verifications \cup Invitations) = {}

Tx == [op   : Ops \cup {None},
       pc   : {"idle", "insert", "lock", "share", "scan", "take", "write"},
       id   : Links \cup {None},        \* the link to issue, or the one presented
       rows : SUBSET Links,             \* pending links scanned (pc "take") or locked (pc "write")
       lock : {"none", "share", "update"},   \* KEY SHARE or FOR UPDATE on the users row
       saw  : User]                     \* the account as read without a lock

NoUser == [st |-> "none", pw |-> "none", cleared |-> FALSE]
IdleTx == [op |-> None, pc |-> "idle", id |-> None, rows |-> {}, lock |-> "none", saw |-> NoUser]

TypeOK ==
    /\ user \in User
    /\ link \in [Links -> LinkStatus]
    /\ older \in [Platform -> SUBSET Platform]
    /\ cooling \in BOOLEAN
    /\ tx \in [Txs -> Tx]
    /\ revoked \in BOOLEAN
    /\ activator \in Ops \cup {None}

Init ==
    /\ user = NoUser
    /\ link = [i \in Links |-> "none"]
    /\ older = [i \in Platform |-> {}]
    /\ cooling = FALSE
    /\ tx = [t \in Txs |-> IdleTx]
    /\ revoked = FALSE
    /\ activator = None

-----------------------------------------------------------------------------
(* Locks, snapshots and the newest invitation                               *)

Others(t) == Txs \ {t}

\* FOR UPDATE excludes every other lock; KEY SHARE and a plain UPDATE wait
\* for FOR UPDATE only (an UPDATE holds its own lock no longer than its step).
MayLock(t) == \A u \in Others(t) : tx[u].lock = "none"
MayWrite(t) == \A u \in Others(t) : tx[u].lock # "update"

\* The token rows other transactions have locked.
Locked(t) == UNION {tx[u].rows : u \in {v \in Others(t) : tx[v].pc = "write"}}

StoredPending(S) == {i \in S : link[i] \in Stored}

\* A row id nobody uses yet.
Unused(S) == {i \in S : link[i] = "none" /\ \A u \in Txs : tx[u].id # i}

\* User.invitations[0]: the newest committed platform invitation.
Latest(i) ==
    /\ link[i] # "none"
    /\ \A j \in Platform \ {i} : link[j] # "none" => j \in older[i]

LatestIsNot(S) == \A i \in Platform : Latest(i) => link[i] \notin S

\* created_at is the start of the issuing transaction: the place in the order
\* is taken when the request begins, and given up when it issues nothing.
Dated == {i \in Platform : link[i] # "none" \/ \E u \in Txs : tx[u].op \in Issuers /\ tx[u].id = i}
Reserve(i) == older' = IF i \in Platform THEN [older EXCEPT ![i] = Dated] ELSE older
Release(t) ==
    older' = IF tx[t].op \notin Issuers THEN older
             ELSE [i \in Platform |-> IF i = tx[t].id THEN {} ELSE older[i] \ {tx[t].id}]

Begins(t, s) == tx[t].pc = "idle" /\ tx' = [tx EXCEPT ![t] = s]
Moves(t, s) == tx' = [tx EXCEPT ![t] = s]
Ends(t) == tx' = [tx EXCEPT ![t] = IdleTx]
State(op, pc, i) == [IdleTx EXCEPT !.op = op, !.pc = pc, !.id = i]

\* The links a request replaces, all of the kind it issues.
Kind(t) ==
    CASE tx[t].id \in Verifications -> Verifications
      [] tx[t].id \in Group -> Group
      [] tx[t].id \in Resets -> Resets
      [] OTHER -> Platform

\* A refusal, an error, a deadlock broken by PostgreSQL or a failed commit.
Abort(t) ==
    /\ tx[t].pc # "idle"
    /\ Release(t)
    /\ Ends(t)
    /\ UNCHANGED <<account, link, cooling, revoked>>

-----------------------------------------------------------------------------
(* Requests that begin with an unlocked read of the account                 *)

\* register_user, get_user_by_email: an unknown address, a half-completed
\* signup, or an invited account; the other accounts are a silent no-op.
RegisterRead(t, i) ==
    /\ i \in Unused(IF user.st = "invited" THEN Platform ELSE Verifications)
    /\ user.st \in {"none"} \cup OnboardingStatus
    /\ Begins(t, [State("register", IF user.st = "none" THEN "insert" ELSE "lock", i)
                    EXCEPT !.saw = user])
    /\ Reserve(i)
    /\ UNCHANGED <<user, link, cooling, history>>

\* resend_verification: only a pending account goes on to the lock.
ResendVerificationRead(t, i) ==
    /\ i \in Unused(Verifications)
    /\ user.st = "pending"
    /\ Begins(t, [State("resendVerification", "lock", i) EXCEPT !.saw = user])
    /\ UNCHANGED <<user, link, older, cooling, history>>

\* invite_to_platform: a new account, or a re-invite of an invited one, which
\* goes on without a lock on the account; any other account is a conflict.
InviteRead(t, i) ==
    /\ i \in Unused(Platform)
    /\ user.st \in {"none", "invited"}
    /\ Begins(t, [State("invite", IF user.st = "none" THEN "insert" ELSE "scan", i)
                    EXCEPT !.saw = user])
    /\ Reserve(i)
    /\ UNCHANGED <<user, link, cooling, history>>

\* invite_to_group: a new or onboarding account gets a group link; an active
\* one is only assigned its roles, an inactive one is a conflict.
InviteGroupRead(t, i) ==
    /\ i \in Unused(Group)
    /\ user.st \in {"none"} \cup OnboardingStatus
    /\ Begins(t, [State("inviteGroup", IF user.st = "none" THEN "insert" ELSE "share", i)
                    EXCEPT !.saw = user])
    /\ UNCHANGED <<user, link, older, cooling, history>>

\* _assign_roles: a new role assignment refers to the account and holds KEY
\* SHARE on it from here on; when every role is already held nothing is inserted.
InviteGroupAssign(t) ==
    /\ tx[t].pc = "share"
    /\ MayWrite(t)
    /\ \E lock \in {"none", "share"} : Moves(t, [tx[t] EXCEPT !.pc = "scan", !.lock = lock])
    /\ UNCHANGED <<user, link, older, cooling, history>>

\* send_user_password_reset: an active account with a password.
AdminResetRead(t, i) ==
    /\ i \in Unused(Resets)
    /\ user.st = "active" /\ user.pw # "none"
    /\ Begins(t, [State("adminReset", "scan", i) EXCEPT !.saw = user])
    /\ UNCHANGED <<user, link, older, cooling, history>>

-----------------------------------------------------------------------------
(* A new account: the insert, decided by the unique e-mail index            *)

\* Variant: a signup that loses the race still gets its verification link.
InsertFallsThrough(t) ==
    /\ tx[t].pc = "insert"
    /\ user.st = "none" \/ tx[t].op = "register"
    /\ user' = IF user.st # "none" THEN user ELSE
               [NoUser EXCEPT
                  !.st = CASE tx[t].op = "register" -> "pending"
                           [] tx[t].op = "oidc" -> "active"
                           [] OTHER -> "invited",
                  !.pw = IF tx[t].op = "register" THEN "registrant" ELSE "none"]
    /\ link' = IF tx[t].op = "oidc" THEN link ELSE [link EXCEPT ![tx[t].id] = "pending"]
    /\ activator' = IF tx[t].op = "oidc" THEN "oidc" ELSE activator
    /\ revoked' = (revoked /\ tx[t].op # "invite")
    /\ Ends(t)
    /\ UNCHANGED <<older, cooling>>

\* The row and its first link are inserted and committed; the index refuses
\* them when the address was taken meanwhile (a silent return or a conflict:
\* Abort).  An identity provider's first login brings an active account.
InsertUser(t) ==
    /\ tx[t].pc = "insert"
    /\ user.st = "none"
    /\ user' = [NoUser EXCEPT
                  !.st = CASE tx[t].op = "register" -> "pending"
                           [] tx[t].op = "oidc" -> "active"
                           [] OTHER -> "invited",
                  !.pw = IF tx[t].op = "register" THEN "registrant" ELSE "none"]
    /\ link' = IF tx[t].op = "oidc" THEN link ELSE [link EXCEPT ![tx[t].id] = "pending"]
    /\ activator' = IF tx[t].op = "oidc" THEN "oidc" ELSE activator
    /\ revoked' = (revoked /\ tx[t].op # "invite")
    /\ Ends(t)
    /\ UNCHANGED <<older, cooling>>

-----------------------------------------------------------------------------
(* Requests that lock the account first, or refetch it under the lock       *)

\* Variant: an invited account is re-issued its invitation, revoked or not.
RefetchIgnoresRevoked(t) ==
    /\ tx[t].pc = "lock" /\ tx[t].op \in {"register", "resendVerification"}
    /\ MayLock(t)
    /\ user.st = tx[t].saw.st
    /\ Moves(t, [tx[t] EXCEPT !.pc = "scan", !.lock = "update"])
    /\ UNCHANGED <<user, link, older, cooling, history>>

\* register_user and resend_verification refetch the account FOR UPDATE and
\* look again: a pending account goes on, and an invited one whose newest
\* platform invitation is not a revoked one.
RefetchLocked(t) ==
    /\ tx[t].pc = "lock" /\ tx[t].op \in {"register", "resendVerification"}
    /\ MayLock(t)
    /\ user.st = tx[t].saw.st
    /\ user.st = "invited" => LatestIsNot({"revoked"})
    /\ Moves(t, [tx[t] EXCEPT !.pc = "scan", !.lock = "update"])
    /\ UNCHANGED <<user, link, older, cooling, history>>

\* resend_user_invitation: created_at is fixed by the first statement, before
\* the lock is granted.
ResendInvitationBegin(t, i) ==
    /\ i \in Unused(Platform)
    /\ user.st # "none"
    /\ Begins(t, State("resendInvitation", "lock", i))
    /\ Reserve(i)
    /\ UNCHANGED <<user, link, cooling, history>>

\* ... and the account must be invited.
ResendInvitationLock(t) ==
    /\ tx[t].pc = "lock" /\ tx[t].op = "resendInvitation"
    /\ MayLock(t)
    /\ user.st = "invited"
    /\ Moves(t, [tx[t] EXCEPT !.pc = "scan", !.lock = "update"])
    /\ UNCHANGED <<user, link, older, cooling, history>>

\* revoke_user_invitation: any account, locked.
RevokeInvitationLock(t) ==
    /\ user.st # "none"
    /\ MayLock(t)
    /\ Begins(t, [State("revokeInvitation", "scan", None) EXCEPT !.lock = "update"])
    /\ UNCHANGED <<user, link, older, cooling, history>>

\* _ineligible_reason and _throttle_reason.
ResetEligible == user.st = "active" /\ (user.pw # "none" \/ user.cleared)
Throttled ==
    \/ Cardinality({i \in Resets : link[i] # "none"}) >= MaxPerDay
    \/ cooling

\* Variant: the window is measured without the account's lock.
RequestResetUnlocked(t, i) ==
    /\ i \in Unused(Resets)
    /\ ResetEligible
    /\ ~Throttled
    /\ Begins(t, State("requestReset", "scan", i))
    /\ UNCHANGED <<user, link, older, cooling, history>>

\* request_password_reset: the unlocked pre-check only saves a lock; what
\* counts is read again under it, the throttle included.
RequestResetLock(t, i) ==
    /\ i \in Unused(Resets)
    /\ MayLock(t)
    /\ ResetEligible
    /\ ~Throttled
    /\ Begins(t, [State("requestReset", "scan", i) EXCEPT !.lock = "update"])
    /\ UNCHANGED <<user, link, older, cooling, history>>

-----------------------------------------------------------------------------
(* Replacing the pending links: scan, wait for the rows, revoke and issue   *)

\* _revoke_pending_*: the statement's snapshot of the pending rows ...
ScanPending(t) ==
    /\ tx[t].pc = "scan"
    /\ Moves(t, [tx[t] EXCEPT !.pc = "take", !.rows = StoredPending(Kind(t))])
    /\ UNCHANGED <<user, link, older, cooling, history>>

\* Variant: the rows of the snapshot are written as they were read.
TakePendingStale(t) ==
    /\ tx[t].pc = "take"
    /\ tx[t].rows \cap Locked(t) = {}
    /\ Moves(t, [tx[t] EXCEPT !.pc = "write"])
    /\ UNCHANGED <<user, link, older, cooling, history>>

\* ... whose locks it waits for; a row that changed meanwhile is dropped.
TakePending(t) ==
    /\ tx[t].pc = "take"
    /\ tx[t].rows \cap Locked(t) = {}
    /\ Moves(t, [tx[t] EXCEPT !.pc = "write", !.rows = StoredPending(tx[t].rows)])
    /\ UNCHANGED <<user, link, older, cooling, history>>

\* The rows are revoked, the new link is inserted and mailed, and the request
\* commits.  Without the account's lock the insert waits for KEY SHARE.
Issue(t) ==
    /\ tx[t].pc = "write" /\ tx[t].op \in Issuers
    /\ MayWrite(t)
    /\ link' = [i \in Links |-> CASE i \in tx[t].rows -> "revoked"
                                  [] i = tx[t].id -> "pending"
                                  [] OTHER -> link[i]]
    /\ cooling' = (cooling \/ tx[t].id \in Resets)
    /\ revoked' = (revoked /\ tx[t].op \notin {"invite", "resendInvitation"})
    /\ Ends(t)
    /\ UNCHANGED <<account, older>>

\* revoke_platform_invitation: nothing pending is a 404.
RevokeInvitation(t) ==
    /\ tx[t].pc = "write" /\ tx[t].op = "revokeInvitation"
    /\ tx[t].rows # {}
    /\ link' = [i \in Links |-> IF i \in tx[t].rows THEN "revoked" ELSE link[i]]
    /\ revoked' = TRUE
    /\ Ends(t)
    /\ UNCHANGED <<account, older, cooling>>

-----------------------------------------------------------------------------
(* Activating the account                                                   *)

\* accept_pending_invitations: every pending invitation that has not lapsed
\* and that no other transaction has locked (SKIP LOCKED).
Swept(t) == {i \in Invitations : link[i] = "pending"} \ Locked(t)

\* The presented link and the invitations swept with it are spent.
Activate(t, spent) ==
    /\ link' = [i \in Links |-> IF i \in spent \cup Swept(t) THEN "spent" ELSE link[i]]
    /\ activator' = IF activator = None THEN tx[t].op ELSE activator
    /\ Ends(t)
    /\ UNCHANGED <<older, cooling, revoked>>

\* verify_email locks the verification row, which must be pending ...
VerifyLock(t, i) ==
    /\ i \in Verifications
    /\ link[i] = "pending"
    /\ i \notin Locked(t)
    /\ Begins(t, [State("verify", "write", i) EXCEPT !.rows = {i}])
    /\ UNCHANGED <<user, link, older, cooling, history>>

\* ... then the account, and activates it whatever its status.
Verify(t) ==
    /\ tx[t].pc = "write" /\ tx[t].op = "verify"
    /\ MayLock(t)
    /\ user' = [user EXCEPT !.st = "active"]
    /\ Activate(t, {tx[t].id})

\* accept_invitation: the unlocked lookup only tells which account to lock.
AcceptLock(t, i) ==
    /\ i \in Invitations
    /\ link[i] # "none"
    /\ MayLock(t)
    /\ Begins(t, [State("accept", "lock", i) EXCEPT !.lock = "update"])
    /\ UNCHANGED <<user, link, older, cooling, history>>

\* The invitation is read again under both locks, and only an onboarding
\* account may take its password.
Accept(t) ==
    /\ tx[t].pc = "lock" /\ tx[t].op = "accept"
    /\ tx[t].id \notin Locked(t)
    /\ link[tx[t].id] = "pending"
    /\ user.st \in OnboardingStatus
    /\ user' = [user EXCEPT !.st = "active", !.pw = tx[t].id]
    /\ Activate(t, {tx[t].id})

\* _resolve_user reads the account and its newest invitation without a lock.
\* A linked identity leads to the same account; one that is active already
\* only gains the link.
OidcRead(t) ==
    /\ user.st \in {"none"} \cup OnboardingStatus
    /\ user.st = "invited" => LatestIsNot({"lapsed", "spent", "revoked"})
    /\ Begins(t, [State("oidc", IF user.st = "none" THEN "insert" ELSE "write", None)
                    EXCEPT !.saw = user])
    /\ UNCHANGED <<user, link, older, cooling, history>>

\* create_user met the unique index: the winner's account is read instead.
OidcConflict(t) ==
    /\ tx[t].pc = "insert" /\ tx[t].op = "oidc"
    /\ user.st \in OnboardingStatus
    /\ user.st = "invited" => LatestIsNot({"lapsed", "spent", "revoked"})
    /\ Moves(t, [tx[t] EXCEPT !.pc = "write", !.saw = user])
    /\ UNCHANGED <<user, link, older, cooling, history>>

\* Variant: the password found on the row stays.
OidcKeepsPassword(t) ==
    /\ tx[t].pc = "write" /\ tx[t].op = "oidc"
    /\ MayWrite(t)
    /\ user' = [user EXCEPT !.st = "active"]
    /\ Activate(t, {})

\* _activate writes the columns that differ from what was read: the status,
\* and the password when one was seen.
OidcActivate(t) ==
    /\ tx[t].pc = "write" /\ tx[t].op = "oidc"
    /\ MayWrite(t)
    /\ user' = IF tx[t].saw.pw = "none" THEN [user EXCEPT !.st = "active"]
               ELSE [user EXCEPT !.st = "active", !.pw = "none", !.cleared = TRUE]
    /\ Activate(t, {})

-----------------------------------------------------------------------------
(* Status changes and reset confirmation                                    *)

\* change_user_status: only active and inactive accounts switch, by what an
\* unlocked read returned.
StatusRead(t) ==
    /\ user.st \in {"active", "inactive"}
    /\ Begins(t, [State("status", "write", None) EXCEPT !.saw = user])
    /\ UNCHANGED <<user, link, older, cooling, history>>

StatusWrite(t) ==
    /\ tx[t].pc = "write" /\ tx[t].op = "status"
    /\ MayWrite(t)
    /\ user' = [user EXCEPT !.st = IF tx[t].saw.st = "active" THEN "inactive" ELSE "active"]
    /\ Ends(t)
    /\ UNCHANGED <<link, older, cooling, history>>

\* confirm_password_reset locks the token row and reads the account, which
\* must be active, without a lock; the sessions end before the commit.
ConfirmLock(t, i) ==
    /\ i \in Resets
    /\ link[i] = "pending"
    /\ i \notin Locked(t)
    /\ user.st = "active"
    /\ Begins(t, [State("confirmReset", "write", i) EXCEPT !.rows = {i}])
    /\ UNCHANGED <<user, link, older, cooling, history>>

Confirm(t) ==
    /\ tx[t].pc = "write" /\ tx[t].op = "confirmReset"
    /\ MayWrite(t)
    /\ user' = [user EXCEPT !.pw = "owner"]
    /\ link' = [link EXCEPT ![tx[t].id] = "spent"]
    /\ Ends(t)
    /\ UNCHANGED <<older, cooling, history>>

-----------------------------------------------------------------------------
(* Time                                                                     *)

\* expires_at passes.
Lapse(i) ==
    /\ link[i] = "pending"
    /\ link' = [link EXCEPT ![i] = "lapsed"]
    /\ UNCHANGED <<account, older, cooling, tx, revoked>>

\* The cooldown of the newest reset passes (the 24 hours of the cap do not).
CoolDown ==
    /\ cooling
    /\ cooling' = FALSE
    /\ UNCHANGED <<account, link, older, tx, revoked>>

Requests(t) ==
    \/ \E i \in Links :
         \/ RegisterRead(t, i) \/ ResendVerificationRead(t, i)
         \/ InviteRead(t, i) \/ InviteGroupRead(t, i) \/ ResendInvitationBegin(t, i)
         \/ AdminResetRead(t, i) \/ RequestResetLock(t, i)
         \/ VerifyLock(t, i) \/ AcceptLock(t, i) \/ ConfirmLock(t, i)
    \/ RevokeInvitationLock(t) \/ OidcRead(t) \/ StatusRead(t)

Steps(t) ==
    \/ InviteGroupAssign(t) \/ RefetchLocked(t) \/ ResendInvitationLock(t)
    \/ InsertUser(t) \/ ScanPending(t) \/ TakePending(t) \/ Issue(t) \/ RevokeInvitation(t)
    \/ Verify(t) \/ Accept(t) \/ OidcConflict(t) \/ OidcActivate(t)
    \/ StatusWrite(t) \/ Confirm(t) \/ Abort(t)

Next ==
    \/ \E t \in Txs : Requests(t) \/ Steps(t)
    \/ \E i \in Links : Lapse(i)
    \/ CoolDown

Spec == Init /\ [][Next]_vars

-----------------------------------------------------------------------------
\* An invited account has no credential and no verification link, so nothing
\* but an accept link or an identity provider completes it ("an email-only
\* request must never bind a credential to a pre-existing account",
\* register_user; "a verification token must not exist for an account that sets
\* its credential through accept_invitation", resend_verification).
InvitedUnclaimed ==
    user.st = "invited" => user.pw = "none" /\ StoredPending(Verifications) = {}

\* Activation by the identity provider leaves no password planted by a self-
\* signup, and an account that never had a password does not get one by a reset
\* (_activate; "a pure IdP-only account gets no such door",
\* request_password_reset).
IdpLeavesNoPassword ==
    activator = "oidc" =>
        user.pw # "registrant" /\ (~user.cleared => user.pw = "none")

\* A self-service request never mails a link while the account's window is full
\* or cooling down, however many requests and administrators' resets run in
\* parallel ("the throttle survives parallel requests", password_resets.py).
SelfServiceThrottled ==
    [][\A i \in Resets :
        link[i] = "none" /\ link'[i] # "none" /\ Throttled =>
            ~ \E t \in Txs : tx[t].id = i /\ tx[t].op = "requestReset"]_vars

\* After an administrator revoked the platform invitation, only an administrator
\* issues another one ("a revoked invitation must stay revoked", register_user).
RevokedLinkStaysDead ==
    [][\A i \in Platform :
        revoked /\ link[i] = "none" /\ link'[i] # "none" =>
            \E t \in Txs : tx[t].id = i /\ tx[t].op \in {"invite", "resendInvitation"}]_vars

\* A link is used or revoked once: no later request brings it back or turns a
\* used one into a revoked one (the FOR UPDATE re-checks of all token tables).
SpentLinksStaySpent ==
    [][\A i \in Links : link[i] \in {"spent", "revoked"} => link'[i] = link[i]]_vars

\* No invitation link, however it lingered, replaces the password of an account
\* that is active or was deactivated ("turning a stale token into an
\* unauthenticated password reset", accept_invitation).
AcceptOnlyOnboards ==
    [][user'.pw \in Invitations /\ user'.pw # user.pw => user.st \in OnboardingStatus]_vars
=============================================================================
