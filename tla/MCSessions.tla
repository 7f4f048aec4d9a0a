----------------------------- MODULE MCSessions -----------------------------
(***************************************************************************)
(* Small instances of Sessions for TLC.                                    *)
(***************************************************************************)
EXTENDS Sessions, TLC

CONSTANTS q1, q2, q3, q4, u1, u2

MCRequests == {q1, q2, q3, q4}
MCNone == {}
MCUser == {u1}
MCUsers == {u1, u2}

Login(u) == [op |-> "Login", user |-> u, token |-> NoRequest]
LogoutAll(u) == [op |-> "LogoutAll", user |-> u, token |-> NoRequest]
WithToken(ops, u) == [op: ops, user: {u}, token: MCRequests]

All(calls) == [r \in MCRequests |-> calls]

\* Everything one user can do.
MCCalls ==
    All({Login(u1), LogoutAll(u1)} \cup WithToken({"Refresh", "Logout"}, u1))

\* A login, a login of the same or of another user, then two calls that may
\* revoke both sessions.
MCRivals ==
    [r \in MCRequests |->
       IF r = q1 THEN {Login(u1)}
       ELSE IF r = q2 THEN {Login(u1), Login(u2)}
       ELSE {LogoutAll(u1)} \cup WithToken({"Refresh"}, u1)]

MCRefreshes == All({Login(u1)} \cup WithToken({"Refresh"}, u1))
MCLogouts == All({Login(u1), LogoutAll(u1)} \cup WithToken({"Refresh"}, u1))

Symmetry == Permutations(MCRequests)
=============================================================================
