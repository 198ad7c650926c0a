----------------------------- MODULE MCSessions -----------------------------
(* Model-checking instances of Sessions.                                    *)
EXTENDS Sessions, TLC

\* What a pair or a request carries of the permissions: no guard and no property of the run
\* looks at it (FreshAuthority does, and is proved), so states that differ in it alone are one.
Unread(s) == [f \in DOMAIN s \ {"perms", "asked"} |-> s[f]]

View == <<now, active, version, redisUp, marker, expires, {Unread(t) : t \in tokens},
          [r \in Requests |-> Unread(req[r])], revokedAt, highest, ackedAt>>

Symmetry == Permutations(Requests)
=============================================================================
