------------------------------ MODULE Sessions ------------------------------
(***************************************************************************)
(* The sessions of one account: login, the refresh exchange, the per-user  *)
(* "revoked-after" marker in Redis with its TTL, and the requests that     *)
(* take authority away (deactivation, password change or reset, removal of *)
(* a role's permissions, force-logout).  Tokens are stateless: the server  *)
(* keeps the account row and the marker only.  A request's reads, its      *)
(* Redis calls and its commit are separate steps, and so are the clock     *)
(* read of a revocation and the SET that stores it; the clock may advance  *)
(* between any two of them.                                                *)
(***************************************************************************)
EXTENDS Integers, FiniteSets

CONSTANTS
    Requests,    \* concurrent requests concerning the account
    SessionTtl,  \* session_ttl_seconds (access token)
    RefreshTtl,  \* refresh_token_ttl_seconds
    AbsMax,      \* refresh_absolute_max_lifetime_seconds
    MaxTokens,   \* bound on the pairs still held that have not expired
    MaxNow,      \* bound on the clock
    MaxVersion   \* bound on the number of permission changes

\* RefreshTtl < AbsMax is enforced at startup (_validate_refresh_lifetime).
\* SessionTtl <= RefreshTtl is not: the marker's docstring takes the refresh
\* token for the longest-lived one, which is an obligation of the deployment.
ASSUME TtlAssumption ==
    /\ SessionTtl \in Nat /\ RefreshTtl \in Nat /\ AbsMax \in Nat
    /\ SessionTtl <= RefreshTtl /\ RefreshTtl < AbsMax
    /\ MaxTokens \in Nat /\ MaxNow \in Nat /\ MaxVersion \in Nat

VARIABLES
    now,       \* int(time.time())
    active,    \* users.status is ACTIVE
    version,   \* counts committed changes of the account's permissions
    redisUp,   \* Redis answers
    marker,    \* auth:revoked_after:<user>, or Never
    expires,   \* the instant its TTL elapses (0 without a marker)
    tokens,    \* the pairs minted and not yet expired
    req,       \* req[r]: the request r
    revokedAt, \* history: instant the last stored revocation carries, or Never
    highest,   \* history: latest instant any stored revocation carries, or Never
    ackedAt    \* history: latest start of a revoking request that succeeded

vars == <<now, active, version, redisUp, marker, expires, tokens, req,
          revokedAt, highest, ackedAt>>

Never == -1
Times == 0..MaxNow
Versions == 0..MaxVersion

\* A minted pair: the claims iat, auth_time and (abstracted to a version)
\* permissions; then history: the instant of the login it descends from, when
\* its mint passed the checks, and the permissions committed when it was asked.
Token ==
    [iat : Times, auth : Times, perms : Versions,
     login : Times, passed : Times, asked : Versions]

\* The requests that end sessions, and whether they hold the user row from
\* their flush to their commit.
Narrowing == {"status", "password", "role", "logout"}
HoldsRow == {"status", "password"}

Kinds == {"login", "refresh"} \cup Narrowing

RequestState ==
    [pc     : {"idle", "checked", "minting", "flushed", "stamped", "revoked"},
     kind   : Kinds,
     since  : Times,             \* when the request passed its last check, or flushed
     asked  : Versions,          \* permissions committed when the request began
     perms  : Versions,          \* permissions read from the row
     auth   : Times \cup {Never}, \* auth_time to carry over
     from   : Times \cup {Never}, \* history: iat of the token presented
     login  : Times \cup {Never}, \* history: its login
     at     : Times \cup {Never}] \* the instant its revocation will store

Idle == [pc |-> "idle", kind |-> "login", since |-> 0, asked |-> 0, perms |-> 0,
         auth |-> Never, from |-> Never, login |-> Never, at |-> Never]

TypeOK ==
    /\ now \in Times
    /\ active \in BOOLEAN
    /\ version \in Versions
    /\ redisUp \in BOOLEAN
    /\ marker \in Times \cup {Never}
    /\ expires \in Nat
    /\ tokens \subseteq Token
    /\ req \in [Requests -> RequestState]
    /\ revokedAt \in Times \cup {Never}
    /\ highest \in Times \cup {Never}
    /\ ackedAt \in Times \cup {Never}

Init ==
    /\ now = 0
    /\ active = TRUE
    /\ version = 0
    /\ redisUp = TRUE
    /\ marker = Never
    /\ expires = 0
    /\ tokens = {}
    /\ req = [r \in Requests |-> Idle]
    /\ revokedAt = Never
    /\ highest = Never
    /\ ackedAt = Never

account == <<active, version>>
cache == <<marker, expires>>
history == <<revokedAt, highest, ackedAt>>

-----------------------------------------------------------------------------
(* The marker                                                               *)

\* The comparison of is_revoked, once Redis has answered.
Covered(iat) == marker # Never /\ iat <= marker

\* Signature, exp and typ hold for an access token.
AccessValid(t) == now <= t.iat + SessionTtl

\* ... and for a refresh token.
RefreshValid(t) == now <= t.iat + RefreshTtl

\* AuthMiddleware lets the bearer through: without Redis the check fails open.
Admits(t) == AccessValid(t) /\ ~(redisUp /\ Covered(t.iat))

\* Variant: the marker only lives as long as an access token.
MarkerTtlShort == SessionTtl

\* The marker's TTL: longer than any token minted before it.
MarkerTtl == AbsMax

\* Redis drops the marker in the second its TTL elapses.
ExpireMarker ==
    /\ marker # Never
    /\ now >= expires
    /\ marker' = Never
    /\ expires' = 0
    /\ UNCHANGED <<now, account, redisUp, tokens, req, history>>

-----------------------------------------------------------------------------
(* Login and refresh                                                        *)

Moves(r, s) == req' = [req EXCEPT ![r] = s]

\* authenticate_credentials reads an ACTIVE row with matching credentials; an
\* OIDC callback ends in the same read and mint.
LoginRead(r) ==
    /\ req[r].pc = "idle"
    /\ active
    /\ Moves(r, [Idle EXCEPT !.pc = "minting", !.kind = "login",
                             !.asked = version, !.perms = version])
    /\ UNCHANGED <<now, account, redisUp, cache, tokens, history>>

\* Variant: a Redis failure lets the exchange go on.
RefreshCheckOpen(r, t) ==
    /\ req[r].pc = "idle"
    /\ RefreshValid(t)
    /\ ~(redisUp /\ Covered(t.iat))
    /\ Moves(r, [Idle EXCEPT !.pc = "checked", !.kind = "refresh", !.asked = version,
                             !.auth = t.auth, !.from = t.iat, !.login = t.login])
    /\ UNCHANGED <<now, account, redisUp, cache, tokens, history>>

\* refresh_session decodes the token and asks Redis; a Redis error is a 503.
RefreshCheck(r, t) ==
    /\ req[r].pc = "idle"
    /\ RefreshValid(t)
    /\ redisUp
    /\ ~Covered(t.iat)
    /\ Moves(r, [Idle EXCEPT !.pc = "checked", !.kind = "refresh", !.asked = version,
                             !.auth = t.auth, !.from = t.iat, !.login = t.login])
    /\ UNCHANGED <<now, account, redisUp, cache, tokens, history>>

\* The absolute ceiling, then the current row: an ACTIVE account's present
\* authority, whatever the presented token carries.
RefreshRead(r) ==
    /\ req[r].pc = "checked"
    /\ now - req[r].auth <= AbsMax
    /\ active
    /\ Moves(r, [req[r] EXCEPT !.pc = "minting", !.since = now, !.perms = version,
                               !.from = Never])
    /\ UNCHANGED <<now, account, redisUp, cache, tokens, history>>

\* Any other outcome of the exchange is the uniform 401.
RefreshRefused(r) ==
    /\ req[r].pc = "checked"
    /\ now - req[r].auth > AbsMax \/ ~active
    /\ Moves(r, Idle)
    /\ UNCHANGED <<now, account, redisUp, cache, tokens, history>>

\* Variant: every pair starts a fresh session.
AuthTimeRestamped(r) == now

\* auth_time: now on a login, carried over by a refresh.
AuthTime(r) == IF req[r].auth = Never THEN now ELSE req[r].auth

\* mint_token_pair: no check stands between the reads above and the signature.
Mint(r) ==
    /\ req[r].pc = "minting"
    /\ Cardinality(tokens) < MaxTokens
    /\ tokens' = tokens \cup
         {[iat |-> now, auth |-> AuthTime(r), perms |-> req[r].perms,
           login |-> IF req[r].kind = "login" THEN now ELSE req[r].login,
           passed |-> IF req[r].kind = "login" THEN now ELSE req[r].since,
           asked |-> req[r].asked]}
    /\ Moves(r, Idle)
    /\ UNCHANGED <<now, account, redisUp, cache, history>>

-----------------------------------------------------------------------------
(* Taking authority away: flush, revoke, commit                             *)

RowFree == \A q \in Requests :
    ~(req[q].pc \in {"flushed", "stamped", "revoked"} /\ req[q].kind \in HoldsRow)

\* The change is flushed (a force-logout has none).  Deactivating an inactive
\* account changes nothing and still revokes: it is the "logout" kind.
Flush(r, kind) ==
    /\ req[r].pc = "idle"
    /\ kind \in Narrowing
    /\ kind \in HoldsRow => RowFree
    /\ kind = "status" => active
    /\ Moves(r, [Idle EXCEPT !.pc = "flushed", !.kind = kind, !.since = now])
    /\ UNCHANGED <<now, account, redisUp, cache, tokens, history>>

\* revoke_user_sessions reads the clock.
ReadClock(r) ==
    /\ req[r].pc = "flushed"
    /\ Moves(r, [req[r] EXCEPT !.pc = "stamped", !.at = now])
    /\ UNCHANGED <<now, account, redisUp, cache, tokens, history>>

Later(a, b) == IF a > b THEN a ELSE b

\* SET replaces value and TTL, whatever value is there: a later instant that an
\* overlapping revocation has stored meanwhile is lost.
Store(at) ==
    /\ marker' = at
    /\ expires' = now + MarkerTtl
    /\ revokedAt' = at
    /\ highest' = Later(highest, at)

\* revoke_user_sessions stores what it read and returns.
Revoke(r) ==
    /\ req[r].pc = "stamped"
    /\ redisUp
    /\ Store(req[r].at)
    /\ Moves(r, [req[r] EXCEPT !.pc = "revoked", !.at = Never])
    /\ UNCHANGED <<now, account, redisUp, tokens, ackedAt>>

\* Variant: the Redis error is logged and the request goes on.
RevokeFailsSwallowed(r) ==
    /\ req[r].pc = "stamped"
    /\ \/ ~redisUp /\ UNCHANGED <<cache, revokedAt, highest>>
       \/ redisUp /\ Store(req[r].at)
    /\ Moves(r, [req[r] EXCEPT !.pc = "revoked", !.at = Never])
    /\ UNCHANGED <<now, account, redisUp, tokens, ackedAt>>

\* The Redis call raises, and the transaction rolls back; when only the reply
\* was lost, the marker is set all the same.
RevokeFails(r) ==
    /\ req[r].pc = "stamped"
    /\ \/ ~redisUp /\ UNCHANGED <<cache, revokedAt, highest>>
       \/ redisUp /\ Store(req[r].at)
    /\ Moves(r, Idle)
    /\ UNCHANGED <<now, account, redisUp, tokens, ackedAt>>

\* transactional commits after the revocation: the change is visible now.
Commit(r) ==
    /\ req[r].pc = "revoked"
    /\ req[r].kind = "role" => version < MaxVersion
    /\ active' = (active /\ req[r].kind # "status")
    /\ version' = IF req[r].kind = "role" THEN version + 1 ELSE version
    /\ ackedAt' = Later(ackedAt, req[r].since)
    /\ Moves(r, Idle)
    /\ UNCHANGED <<now, redisUp, cache, tokens, revokedAt, highest>>

\* The commit fails, or a later guard rolls back: the sessions stay revoked.
RollBack(r) ==
    /\ req[r].pc = "revoked"
    /\ Moves(r, Idle)
    /\ UNCHANGED <<now, account, redisUp, cache, tokens, history>>

\* change_user_status to ACTIVE: nothing to revoke.
Reactivate ==
    /\ ~active
    /\ RowFree
    /\ active' = TRUE
    /\ UNCHANGED <<now, version, redisUp, cache, tokens, req, history>>

\* The user's role set is replaced, in either direction, or a role of theirs
\* gains permissions: the code revokes nothing here, so a pair keeps its
\* permissions until the next refresh.
ReplaceRoles ==
    /\ version < MaxVersion
    /\ version' = version + 1
    /\ UNCHANGED <<now, active, redisUp, cache, tokens, req, history>>

-----------------------------------------------------------------------------
(* The environment                                                          *)

\* A marker past its TTL is gone before the next second begins; a pair that
\* no endpoint accepts any more is dropped from the model.
Tick ==
    /\ now < MaxNow
    /\ marker # Never => now < expires
    /\ now' = now + 1
    /\ tokens' = {t \in tokens : now + 1 <= t.iat + RefreshTtl}
    /\ UNCHANGED <<account, redisUp, cache, req, history>>

\* The holder drops a pair: the server keeps no list of them.
Discard(t) ==
    /\ tokens' = tokens \ {t}
    /\ UNCHANGED <<now, account, redisUp, cache, req, history>>

\* Redis stops or resumes answering; what it stores survives.
RedisFlips ==
    /\ redisUp' = ~redisUp
    /\ UNCHANGED <<now, account, cache, tokens, req, history>>

Refresh(r) ==
    \/ \E t \in tokens : RefreshCheck(r, t)
    \/ RefreshRead(r)
    \/ RefreshRefused(r)

Narrow(r) ==
    \/ \E kind \in Narrowing : Flush(r, kind)
    \/ ReadClock(r)
    \/ Revoke(r)
    \/ RevokeFails(r)
    \/ Commit(r)
    \/ RollBack(r)

Next ==
    \/ \E r \in Requests : LoginRead(r) \/ Refresh(r) \/ Mint(r) \/ Narrow(r)
    \/ Reactivate
    \/ ReplaceRoles
    \/ ExpireMarker
    \/ Tick
    \/ \E t \in tokens : Discard(t)
    \/ RedisFlips

Spec == Init /\ [][Next]_vars

-----------------------------------------------------------------------------
\* Once a revocation is stored, no token minted up to the instant it carries
\* passes the middleware while Redis answers, however long ago the marker
\* expired ("it self-expires once no pre-revocation token could still be valid",
\* session_revocation.py); until the next revocation is stored, that is.
RevokedStaysRevoked ==
    redisUp => \A t \in tokens : t.iat <= revokedAt => ~Admits(t)

\* A revoking request succeeds only if its revocation landed: one at least as
\* late as its start was stored ("no caller may report success when the
\* revocation did not land", revoke_user_sessions), and no token minted up to
\* that start is admitted while Redis answers, unless a revocation that had read
\* its clock earlier was stored last.
SuccessMeansRevoked ==
    /\ ackedAt <= highest
    /\ redisUp /\ revokedAt = highest
        => \A t \in tokens : t.iat <= ackedAt => ~Admits(t)

\* Rotation cannot extend a session for ever: each pair passed its checks
\* within the absolute ceiling of the login it descends from, through any
\* chain of refreshes (auth_time in refresh_session).
AbsoluteCeiling == \A t \in tokens : t.passed <= t.login + AbsMax

\* A pair never carries permissions older than what was committed when it was
\* asked for ("a deactivated or re-permissioned account is reflected at the
\* next refresh", refresh.py).
FreshAuthority == \A t \in tokens : t.asked <= t.perms

\* The exchange takes no token minted up to the last revocation stored, with
\* Redis answering or not, before or after the marker expired: its pair would be
\* newer than the marker and "escape revocation permanently" (is_revoked).
NoExchangeOfRevoked ==
    [][\A r \in Requests :
        req[r].pc = "idle" /\ req'[r].pc = "checked" => revokedAt < req'[r].from]_vars
=============================================================================
