--------------------------- MODULE SessionsProofs ---------------------------
(***************************************************************************)
(* Theorems about Sessions, for any lifetimes that satisfy TtlAssumption,  *)
(* any number of requests and any length of run.  The inductive invariant  *)
(* ties the marker to the revocation stored last: it is that revocation,   *)
(* or it expired so long after it that every older token has expired too.  *)
(***************************************************************************)
EXTENDS Sessions, TLAPS

\* The marker is the revocation stored last, and will stay for its TTL, or the
\* TTL has elapsed since.
MarkerOK ==
    /\ revokedAt <= highest /\ highest <= now
    /\ \/ marker = revokedAt /\ (marker # Never => expires >= revokedAt + AbsMax)
       \/ marker = Never /\ now >= revokedAt + AbsMax

\* A pair is not from the future, carries the instant of its login, and was
\* checked within the ceiling against authority no older than the request.
TokenOK(t) ==
    /\ t.iat <= now
    /\ t.auth = t.login
    /\ t.passed <= t.login + AbsMax
    /\ t.asked <= t.perms

\* What a request carries from one step to the next.
RequestOK(r) ==
    /\ req[r].since <= now
    /\ req[r].asked <= version
    /\ req[r].pc \in {"checked", "minting"} =>
        \/ req[r].kind = "login" /\ req[r].pc = "minting" /\ req[r].auth = Never
        \/ req[r].kind = "refresh" /\ req[r].auth = req[r].login /\ req[r].auth # Never
    /\ req[r].pc = "minting" => req[r].asked <= req[r].perms
    /\ req[r].pc = "minting" /\ req[r].kind = "refresh"
        => req[r].since <= req[r].login + AbsMax
    /\ req[r].pc = "stamped" =>
        req[r].at # Never /\ req[r].since <= req[r].at /\ req[r].at <= now
    /\ req[r].pc = "revoked" => req[r].since <= highest

IInv ==
    /\ TypeOK
    /\ MarkerOK
    /\ \A t \in tokens : TokenOK(t)
    /\ \A r \in Requests : RequestOK(r)
    /\ ackedAt <= highest

-----------------------------------------------------------------------------
\* Requests that do not move keep what they know while clock, version and
\* revocations only advance.
LEMMA RequestFrame ==
    ASSUME IInv, NEW r \in Requests, req'[r] = req[r],
           now' \in Times, now <= now', version' \in Versions, version <= version',
           highest' \in Times \cup {Never}, highest <= highest'
    PROVE  RequestOK(r)'
<1>1. RequestOK(r) /\ req[r] \in RequestState
  BY DEF IInv, TypeOK
<1>2. now \in Int /\ version \in Int /\ highest \in Int /\ now' \in Int
      /\ version' \in Int /\ highest' \in Int
  BY TtlAssumption DEF IInv, TypeOK, Times, Versions, Never
<1>3. req[r].since \in Int /\ req[r].asked \in Int /\ req[r].at \in Int
  BY <1>1, TtlAssumption DEF RequestState, Times, Versions, Never
<1> QED BY <1>1, <1>2, <1>3 DEF RequestOK

\* A step that only moves request r preserves the invariant if r ends well
\* typed and knowing what its new place requires.
LEMMA RequestStep ==
    ASSUME IInv, NEW r \in Requests, NEW s \in RequestState, Moves(r, s),
           UNCHANGED <<now, account, redisUp, cache, tokens, history>>,
           RequestOK(r)'
    PROVE  IInv'
<1>1. TypeOK'
  BY DEF IInv, TypeOK, Moves, account, cache, history
<1>2. MarkerOK' /\ (\A t \in tokens : TokenOK(t))' /\ (ackedAt <= highest)'
  BY DEF IInv, MarkerOK, TokenOK, cache, history
<1>3. ASSUME NEW q \in Requests PROVE RequestOK(q)'
  <2>1. CASE q = r BY <2>1
  <2>2. CASE q # r
    <3>1. req'[q] = req[q]
      BY <2>2 DEF IInv, TypeOK, Moves
    <3> QED BY <3>1, RequestFrame, TtlAssumption DEF IInv, TypeOK, account, history, Times, Versions, Never
  <2> QED BY <2>1, <2>2
<1> QED BY <1>1, <1>2, <1>3 DEF IInv

LEMMA IdleTyped == Idle \in RequestState
BY TtlAssumption DEF Idle, RequestState, Kinds, Narrowing, Times, Versions, Never

LEMMA InitInv == Init => IInv
BY TtlAssumption, IdleTyped
   DEF Init, IInv, TypeOK, MarkerOK, RequestOK, Idle, Times, Versions, Never

-----------------------------------------------------------------------------
\* The request that a login, an exchange or a flush starts is well formed.
LEMMA StartsPreserve ==
    ASSUME IInv, NEW r \in Requests,
           \/ LoginRead(r)
           \/ \E t \in tokens : RefreshCheck(r, t)
           \/ \E kind \in Narrowing : Flush(r, kind)
    PROVE  IInv'
<1> USE TtlAssumption
<1>1. CASE LoginRead(r)
  <2> DEFINE s == [Idle EXCEPT !.pc = "minting", !.kind = "login",
                               !.asked = version, !.perms = version]
  <2>1. s \in RequestState
    BY IdleTyped DEF IInv, TypeOK, Idle, RequestState, Kinds
  <2>2. req'[r] = s
    BY <1>1 DEF LoginRead, Moves, IInv, TypeOK
  <2>3. RequestOK(r)'
    BY <1>1, <2>2 DEF LoginRead, RequestOK, IInv, TypeOK, Idle, account, Times, Versions
  <2> QED BY <1>1, <2>1, <2>3, RequestStep DEF LoginRead
<1>2. ASSUME NEW t \in tokens, RefreshCheck(r, t) PROVE IInv'
  <2> DEFINE s == [Idle EXCEPT !.pc = "checked", !.kind = "refresh", !.asked = version,
                               !.auth = t.auth, !.from = t.iat, !.login = t.login]
  <2>1. t \in Token /\ t.auth = t.login
    BY DEF IInv, TypeOK, TokenOK
  <2>2. s \in RequestState
    BY <2>1, IdleTyped DEF IInv, TypeOK, Idle, RequestState, Kinds, Token
  <2>3. req'[r] = s /\ now' = now /\ version' = version /\ now \in 0..MaxNow
        /\ version \in 0..MaxVersion
    BY <1>2 DEF RefreshCheck, Moves, IInv, TypeOK, account, Times, Versions
  <2>4. /\ s.pc = "checked" /\ s.kind = "refresh" /\ s.since = 0 /\ s.asked = version
        /\ s.auth = s.login /\ s.auth # Never
    BY <2>1 DEF Idle, Token, Times, Never
  <2>5. RequestOK(r)'
    BY <2>3, <2>4 DEF RequestOK
  <2> QED BY <1>2, <2>2, <2>5, RequestStep DEF RefreshCheck
<1>3. ASSUME NEW kind \in Narrowing, Flush(r, kind) PROVE IInv'
  <2> DEFINE s == [Idle EXCEPT !.pc = "flushed", !.kind = kind, !.since = now]
  <2>1. s \in RequestState
    BY IdleTyped DEF IInv, TypeOK, Idle, RequestState, Kinds
  <2>2. req'[r] = s /\ now' = now /\ version' = version /\ now \in 0..MaxNow
        /\ version \in 0..MaxVersion
    BY <1>3 DEF Flush, Moves, IInv, TypeOK, account, Times, Versions
  <2>3. s.pc = "flushed" /\ s.since = now /\ s.asked = 0
    BY DEF Idle
  <2>4. RequestOK(r)'
    BY <2>2, <2>3 DEF RequestOK
  <2> QED BY <1>3, <2>1, <2>4, RequestStep DEF Flush
<1> QED BY <1>1, <1>2, <1>3

\* The ceiling and the row are read, or the clock; or the request is refused or
\* rolled back.
LEMMA MovesPreserve ==
    ASSUME IInv, NEW r \in Requests,
           RefreshRead(r) \/ RefreshRefused(r) \/ ReadClock(r) \/ RollBack(r)
    PROVE  IInv'
<1> USE TtlAssumption
<1>0. RequestOK(r) /\ req[r] \in RequestState
  BY DEF IInv, TypeOK
<1>1. CASE RefreshRead(r)
  <2> DEFINE s == [req[r] EXCEPT !.pc = "minting", !.since = now, !.perms = version,
                                 !.from = Never]
  <2>1. s \in RequestState
    BY <1>0 DEF IInv, TypeOK, RequestState
  <2>2. req'[r] = s
    BY <1>1 DEF RefreshRead, Moves, IInv, TypeOK
  <2>3. RequestOK(r)'
    BY <1>0, <1>1, <2>2
       DEF RefreshRead, RequestOK, IInv, TypeOK, RequestState, account, Times, Versions, Never
  <2> QED BY <1>1, <2>1, <2>3, RequestStep DEF RefreshRead
<1>2. CASE RefreshRefused(r) \/ RollBack(r)
  <2>1. Moves(r, Idle) /\ UNCHANGED <<now, account, redisUp, cache, tokens, history>>
    BY <1>2 DEF RefreshRefused, RollBack
  <2>2. RequestOK(r)'
    BY <2>1 DEF RequestOK, Moves, IInv, TypeOK, Idle, account, Times, Versions
  <2> QED BY <2>1, <2>2, IdleTyped, RequestStep
<1>3. CASE ReadClock(r)
  <2> DEFINE s == [req[r] EXCEPT !.pc = "stamped", !.at = now]
  <2>1. s \in RequestState
    BY <1>0 DEF IInv, TypeOK, RequestState
  <2>2. req'[r] = s /\ now' = now /\ version' = version /\ now \in Nat
    BY <1>3 DEF ReadClock, Moves, IInv, TypeOK, account, Times
  <2>3. s.pc = "stamped" /\ s.since <= now /\ s.at = now /\ s.asked <= version
    BY <1>0 DEF RequestOK, RequestState
  <2>4. RequestOK(r)'
    BY <2>2, <2>3 DEF RequestOK, Never
  <2> QED BY <1>3, <2>1, <2>4, RequestStep DEF ReadClock
<1> QED BY <1>1, <1>2, <1>3

\* A minted pair carries what its request established.
LEMMA MintPreserves ==
    ASSUME IInv, NEW r \in Requests, Mint(r)
    PROVE  IInv'
<1> USE TtlAssumption
<1> DEFINE new == [iat |-> now, auth |-> AuthTime(r), perms |-> req[r].perms,
                   login |-> IF req[r].kind = "login" THEN now ELSE req[r].login,
                   passed |-> IF req[r].kind = "login" THEN now ELSE req[r].since,
                   asked |-> req[r].asked]
<1>0. RequestOK(r) /\ req[r] \in RequestState /\ req[r].pc = "minting" /\ now \in Times
  BY DEF IInv, TypeOK, Mint
<1>1. \/ req[r].kind = "login" /\ req[r].auth = Never
      \/ /\ req[r].kind = "refresh" /\ req[r].auth = req[r].login
         /\ req[r].auth # Never /\ req[r].since <= req[r].login + AbsMax
  BY <1>0 DEF RequestOK
<1>2. new \in Token
  BY <1>0, <1>1 DEF AuthTime, Token, RequestState, Times, Versions, Never
<1>3. new.iat <= now /\ new.auth = new.login /\ new.passed <= new.login + AbsMax
      /\ new.asked <= new.perms
  BY <1>0, <1>1 DEF AuthTime, RequestOK, RequestState, Times, Versions, Never
<1>4. tokens' = tokens \cup {new} /\ Moves(r, Idle)
      /\ UNCHANGED <<now, account, redisUp, cache, history>>
  BY DEF Mint
<1>5. TypeOK'
  BY <1>2, <1>4, IdleTyped DEF IInv, TypeOK, Moves, account, cache, history
<1>6. ASSUME NEW t \in tokens' PROVE TokenOK(t)'
  <2>1. TokenOK(t)
    BY <1>3, <1>4 DEF IInv, TokenOK
  <2> QED BY <1>4, <2>1 DEF TokenOK
<1>7. ASSUME NEW q \in Requests PROVE RequestOK(q)'
  <2>1. CASE q = r
    BY <1>4, <2>1 DEF RequestOK, Moves, IInv, TypeOK, Idle, account, Times, Versions
  <2>2. CASE q # r
    <3>1. req'[q] = req[q]
      BY <1>4, <2>2 DEF IInv, TypeOK, Moves
    <3> QED BY <1>4, <3>1, RequestFrame DEF IInv, TypeOK, account, history, Times, Versions, Never
  <2> QED BY <2>1, <2>2
<1>8. MarkerOK' /\ (ackedAt <= highest)'
  BY <1>4 DEF IInv, MarkerOK, cache, history
<1> QED BY <1>5, <1>6, <1>7, <1>8 DEF IInv

\* A stored revocation: the marker is the instant the request had read, for a
\* full TTL from now, and the request goes on, or rolls back when only the reply
\* was lost.
LEMMA StorePreserves ==
    ASSUME IInv, NEW r \in Requests, NEW s \in RequestState, Moves(r, s),
           NEW at \in Times, at <= now, Store(at), RequestOK(r)',
           UNCHANGED <<now, account, redisUp, tokens, ackedAt>>
    PROVE  IInv'
<1> USE TtlAssumption
<1>1. /\ now \in Int /\ revokedAt \in Int /\ highest \in Int /\ ackedAt \in Int /\ at \in Nat
      /\ now >= 0 /\ highest <= now /\ ackedAt <= highest
  BY DEF IInv, TypeOK, MarkerOK, Times, Never
<1>2. /\ highest' \in Times \cup {Never} /\ highest <= highest' /\ highest' <= now
      /\ at <= highest'
  BY <1>1 DEF Store, Later, IInv, TypeOK, Times
<1>3. expires' \in Nat /\ expires' >= at + AbsMax
  BY <1>1 DEF Store, MarkerTtl
<1>4. TypeOK'
  BY <1>2, <1>3 DEF IInv, TypeOK, Moves, account, Store
<1>5. MarkerOK' /\ (ackedAt <= highest)'
  BY <1>1, <1>2, <1>3 DEF MarkerOK, Store
<1>6. (\A t \in tokens : TokenOK(t))'
  BY DEF IInv, TokenOK
<1>7. ASSUME NEW q \in Requests PROVE RequestOK(q)'
  <2>1. CASE q = r BY <2>1
  <2>2. CASE q # r
    <3>1. req'[q] = req[q]
      BY <2>2 DEF IInv, TypeOK, Moves
    <3>2. now' = now /\ version' = version /\ version \in Int
      BY DEF account, IInv, TypeOK, Versions
    <3> QED BY <1>1, <1>2, <1>4, <3>1, <3>2, RequestFrame DEF TypeOK
  <2> QED BY <2>1, <2>2
<1> QED BY <1>4, <1>5, <1>6, <1>7 DEF IInv

LEMMA RevokePreserves ==
    ASSUME IInv, NEW r \in Requests, Revoke(r) \/ RevokeFails(r)
    PROVE  IInv'
<1> USE TtlAssumption
<1>0. /\ RequestOK(r) /\ req[r] \in RequestState /\ now \in Times /\ version \in Versions
      /\ highest \in Int /\ req[r].pc = "stamped"
  BY DEF IInv, TypeOK, Revoke, RevokeFails, Times, Never
<1>1. /\ req[r].at \in Times /\ req[r].at <= now /\ req[r].since <= req[r].at
      /\ req[r].since \in Int
  BY <1>0 DEF RequestOK, RequestState, Times
<1>2. CASE Revoke(r)
  <2> DEFINE s == [req[r] EXCEPT !.pc = "revoked", !.at = Never]
  <2>1. s \in RequestState
    BY <1>0 DEF RequestState
  <2>2. req'[r] = s /\ now' = now /\ version' = version
        /\ highest' = Later(highest, req[r].at)
    BY <1>2 DEF Revoke, Store, Moves, IInv, TypeOK, account
  <2>3. s.pc = "revoked" /\ s.since <= now /\ s.asked <= version
    BY <1>0 DEF RequestOK, RequestState
  <2>4. s.since <= Later(highest, req[r].at)
    BY <1>0, <1>1 DEF Later, RequestState, Times
  <2>5. RequestOK(r)'
    BY <2>2, <2>3, <2>4 DEF RequestOK
  <2> QED BY <1>1, <1>2, <2>1, <2>5, StorePreserves DEF Revoke
<1>3. CASE RevokeFails(r)
  <2>1. req'[r] = Idle /\ now' = now /\ version' = version
    BY <1>3 DEF RevokeFails, Moves, IInv, TypeOK, account
  <2>2. RequestOK(r)'
    BY <1>0, <2>1 DEF RequestOK, Idle, Times, Versions
  <2>3. CASE UNCHANGED <<cache, revokedAt, highest>>
    BY <1>3, <2>2, <2>3, IdleTyped, RequestStep DEF RevokeFails, history
  <2>4. CASE Store(req[r].at)
    BY <1>1, <1>3, <2>2, <2>4, IdleTyped, StorePreserves DEF RevokeFails
  <2> QED BY <1>3, <2>3, <2>4 DEF RevokeFails
<1> QED BY <1>2, <1>3

\* A commit acknowledges only what was revoked after its flush.
LEMMA CommitPreserves ==
    ASSUME IInv, NEW r \in Requests, Commit(r)
    PROVE  IInv'
<1> USE TtlAssumption
<1>0. RequestOK(r) /\ req[r] \in RequestState /\ req[r].pc = "revoked"
  BY DEF IInv, TypeOK, Commit
<1>1. req[r].since <= highest /\ req[r].since \in Times
  BY <1>0 DEF RequestOK, RequestState
<1>2. ackedAt' \in Times \cup {Never} /\ ackedAt' <= highest
  BY <1>1 DEF Commit, Later, IInv, TypeOK, Times, Never
<1>3. version' \in Versions /\ version <= version' /\ version \in Int
  BY DEF Commit, IInv, TypeOK, Versions
<1>4. TypeOK'
  <2>1. active' \in BOOLEAN
    BY Zenon DEF Commit
  <2> QED BY <1>2, <1>3, <2>1, IdleTyped DEF Commit, Moves, IInv, TypeOK, cache
<1>5. MarkerOK' /\ (\A t \in tokens : TokenOK(t))' /\ (ackedAt <= highest)'
  BY <1>2 DEF Commit, IInv, MarkerOK, TokenOK, cache
<1>6. ASSUME NEW q \in Requests PROVE RequestOK(q)'
  <2>1. CASE q = r
    <3>1. req'[r] = Idle /\ now' = now /\ now \in Times
      BY DEF Commit, Moves, IInv, TypeOK
    <3> QED BY <1>3, <2>1, <3>1 DEF RequestOK, Idle, Times, Versions
  <2>2. CASE q # r
    <3>1. req'[q] = req[q] /\ UNCHANGED <<now, highest>>
      BY <2>2 DEF Commit, Moves, IInv, TypeOK
    <3> QED BY <1>3, <3>1, RequestFrame DEF IInv, TypeOK, Times, Never
  <2> QED BY <2>1, <2>2
<1> QED BY <1>4, <1>5, <1>6 DEF IInv

\* Steps outside the requests: the clock, the marker's TTL, Redis, changes that
\* revoke nothing, and pairs that are dropped.
LEMMA AmbientPreserves ==
    ASSUME IInv, Reactivate \/ ReplaceRoles \/ ExpireMarker \/ Tick \/ RedisFlips
                 \/ (\E t \in tokens : Discard(t))
    PROVE  IInv'
<1> USE TtlAssumption
<1>0. /\ now \in Int /\ version \in Int /\ revokedAt \in Int /\ marker \in Int
      /\ expires \in Nat /\ highest \in Int
  BY DEF IInv, TypeOK, Times, Versions, Never
<1>1. req' = req /\ UNCHANGED history
  BY DEF Reactivate, ReplaceRoles, ExpireMarker, Tick, Discard, RedisFlips
<1>2. now' \in Times /\ now <= now' /\ version' \in Versions /\ version <= version'
  BY <1>0 DEF Reactivate, ReplaceRoles, ExpireMarker, Tick, Discard, RedisFlips, IInv, TypeOK, account,
              Times, Versions
<1>3. tokens' \subseteq tokens
  BY DEF Reactivate, ReplaceRoles, ExpireMarker, Tick, Discard, RedisFlips
<1>4. \/ marker' = marker /\ expires' = expires
      \/ /\ marker' = Never /\ expires' = 0 /\ marker # Never
         /\ now' = now /\ now >= expires
  BY DEF Reactivate, ReplaceRoles, ExpireMarker, Tick, Discard, RedisFlips, cache
<1>5. active' \in BOOLEAN /\ redisUp' \in BOOLEAN
  BY Zenon DEF Reactivate, ReplaceRoles, ExpireMarker, Tick, Discard, RedisFlips, IInv, TypeOK, account
<1>6. TypeOK'
  BY <1>1, <1>2, <1>3, <1>4, <1>5 DEF IInv, TypeOK, history
<1>7. MarkerOK'
  BY <1>0, <1>1, <1>2, <1>4 DEF IInv, MarkerOK, history, Times
<1>8. ASSUME NEW t \in tokens' PROVE TokenOK(t)'
  <2>1. TokenOK(t) /\ t \in Token
    BY <1>3 DEF IInv, TypeOK
  <2> QED BY <1>0, <1>2, <2>1 DEF TokenOK, Token, Times
<1>9. ASSUME NEW q \in Requests PROVE RequestOK(q)'
  BY <1>0, <1>1, <1>2, RequestFrame DEF history, IInv, TypeOK
<1> QED BY <1>1, <1>6, <1>7, <1>8, <1>9 DEF IInv, history

-----------------------------------------------------------------------------
\* Every reachable state of the session machinery satisfies IInv.
THEOREM Invariant == Spec => []IInv
<1>1. IInv /\ [Next]_vars => IInv'
  <2> SUFFICES ASSUME IInv, [Next]_vars PROVE IInv'
    OBVIOUS
  <2>1. ASSUME NEW r \in Requests, LoginRead(r) \/ Refresh(r) \/ Mint(r) \/ Narrow(r)
        PROVE  IInv'
    BY <2>1, StartsPreserve, MovesPreserve, MintPreserves, RevokePreserves, CommitPreserves
       DEF Refresh, Narrow
  <2>2. CASE \/ Reactivate \/ ReplaceRoles \/ ExpireMarker \/ Tick \/ RedisFlips
             \/ (\E t \in tokens : Discard(t))
    BY <2>2, AmbientPreserves
  <2>3. CASE UNCHANGED vars
    BY <2>3 DEF vars, IInv, TypeOK, MarkerOK, TokenOK, RequestOK
  <2> QED BY <2>1, <2>2, <2>3 DEF Next
<1> QED BY <1>1, InitInv, PTL DEF Spec

\* The state of the session machinery is always well typed.
THEOREM TypeCorrect == Spec => []TypeOK
<1>1. IInv => TypeOK
  BY DEF IInv
<1> QED BY <1>1, Invariant, PTL

LEMMA StoredIsRefused == IInv => RevokedStaysRevoked
<1> SUFFICES ASSUME IInv, redisUp, NEW t \in tokens, t.iat <= revokedAt
             PROVE  ~Admits(t)
  BY DEF RevokedStaysRevoked
<1>1. t.iat \in Nat /\ revokedAt \in Int /\ now \in Int
  BY TtlAssumption DEF IInv, TypeOK, Token, Times, Never
<1>2. CASE marker = revokedAt
  BY <1>1, <1>2 DEF Admits, Covered, Never
<1>3. CASE now >= revokedAt + AbsMax
  BY <1>1, <1>3, TtlAssumption DEF Admits, AccessValid
<1> QED BY <1>2, <1>3 DEF IInv, MarkerOK

\* Whatever the lifetimes, a token minted up to a stored revocation is never
\* admitted again while Redis answers, also after the marker is gone, before a
\* later SET replaces it.
THEOREM RevocationLasts == Spec => []RevokedStaysRevoked
BY StoredIsRefused, Invariant, PTL

\* A revoking request succeeds only once a revocation as late as its start is
\* stored, and ends every token minted up to that start, unless an overlapping
\* one that had read its clock earlier was stored last.
THEOREM RevocationPrecedesSuccess == Spec => []SuccessMeansRevoked
<1>1. IInv => SuccessMeansRevoked
  <2> SUFFICES ASSUME IInv, redisUp, revokedAt = highest,
                      NEW t \in tokens, t.iat <= ackedAt
               PROVE  ~Admits(t)
    BY DEF IInv, SuccessMeansRevoked
  <2>1. t.iat \in Nat /\ ackedAt \in Int /\ highest \in Int /\ ackedAt <= highest
    BY TtlAssumption DEF IInv, TypeOK, Token, Times, Never
  <2>2. t.iat <= revokedAt
    BY <2>1
  <2> QED BY <2>2, StoredIsRefused DEF RevokedStaysRevoked
<1> QED BY <1>1, Invariant, PTL

\* No chain of refreshes, however long, passes the absolute ceiling.
THEOREM CeilingHolds == Spec => []AbsoluteCeiling
<1>1. IInv => AbsoluteCeiling
  BY DEF IInv, TokenOK, AbsoluteCeiling
<1> QED BY <1>1, Invariant, PTL

\* No pair carries authority older than what was committed when it was asked.
THEOREM AuthorityIsFresh == Spec => []FreshAuthority
<1>1. IInv => FreshAuthority
  BY DEF IInv, TokenOK, FreshAuthority
<1> QED BY <1>1, Invariant, PTL

\* With Redis answering or not, before or after the marker expired, the refresh
\* exchange takes no token minted up to the revocation stored last.
THEOREM RevokedNotExchanged == Spec => NoExchangeOfRevoked
<1> DEFINE Starts(r) == req[r].pc = "idle" /\ req'[r].pc = "checked"
           Sound == \A r \in Requests : Starts(r) => revokedAt < req'[r].from
<1>1. IInv /\ [Next]_vars => Sound
  <2> SUFFICES ASSUME IInv, [Next]_vars, NEW r \in Requests, Starts(r)
               PROVE  revokedAt < req'[r].from
    OBVIOUS
  <2>1. req \in [Requests -> RequestState]
    BY DEF IInv, TypeOK
  <2>2. \E t \in tokens : RefreshCheck(r, t)
    <3>1. PICK q \in Requests : LoginRead(q) \/ Refresh(q) \/ Mint(q) \/ Narrow(q)
      BY DEF Next, vars, Reactivate, ReplaceRoles, ExpireMarker, Tick, Discard, RedisFlips
    <3>2. \E s : Moves(q, s)
      BY <3>1 DEF LoginRead, Refresh, RefreshCheck, RefreshRead, RefreshRefused, Mint,
                  Narrow, Flush, ReadClock, Revoke, RevokeFails, Commit, RollBack
    <3>3. q = r
      BY <2>1, <3>2 DEF Moves
    <3>4. CASE Refresh(r)
      BY <3>4 DEF Refresh, RefreshRead, RefreshRefused
    <3>5. CASE LoginRead(r) \/ Mint(r) \/ Narrow(r)
      BY <2>1, <3>5 DEF LoginRead, Mint, Narrow, Flush, ReadClock, Revoke, RevokeFails, Commit,
                        RollBack, Moves, Idle
    <3> QED BY <3>1, <3>3, <3>4, <3>5
  <2>3. PICK t \in tokens : RefreshCheck(r, t)
    BY <2>2
  <2>4. t.iat \in Int /\ revokedAt \in Int /\ now \in Int /\ marker \in Int
    BY TtlAssumption DEF IInv, TypeOK, Token, Times, Never
  <2>5. req'[r].from = t.iat
    BY <2>1, <2>3 DEF RefreshCheck, Moves, Idle
  <2>6. now <= t.iat + RefreshTtl /\ ~(marker # Never /\ t.iat <= marker)
    BY <2>3 DEF RefreshCheck, RefreshValid, Covered
  <2>7. CASE marker = revokedAt
    <3>1. t.iat > Never
      BY TtlAssumption DEF IInv, TypeOK, Token, Times, Never
    <3> QED BY <2>4, <2>5, <2>6, <2>7, <3>1 DEF Never
  <2>8. CASE now >= revokedAt + AbsMax
    BY <2>4, <2>5, <2>6, <2>8, TtlAssumption
  <2> QED BY <2>7, <2>8 DEF IInv, MarkerOK
<1> QED BY <1>1, Invariant, PTL DEF Spec, NoExchangeOfRevoked

=============================================================================
