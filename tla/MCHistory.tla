----------------------------- MODULE MCHistory ------------------------------
(***************************************************************************)
(* A small instance of History for TLC.                                    *)
(***************************************************************************)
EXTENDS History, TLC

CONSTANTS t1, t2, t3, t4, anna, boris, clara

Between(s, r, n) == [sender |-> s, receiver |-> r, amount |-> n]

\* Three transfers of anna, and one she has no part in.
MCTransfers == {t1, t2, t3, t4}
MCRow == (t1 :> Between(anna, boris, 1)) @@ (t2 :> Between(boris, anna, 2))
           @@ (t3 :> Between(anna, boris, 2)) @@ (t4 :> Between(boris, clara, 1))

MCLimits == {1, 2, 0, Unset}

Get(user, tx) == [op |-> "Get", user |-> user, tx |-> tx]
Filter(user, query) == [op |-> "Filter", user |-> user, query |-> query]

\* A request that names neither limit nor offset; NoFilter names both as 0.
Query == [NoFilter EXCEPT !.limit = Unset, !.offset = Unset]

MCCalls ==
    {Get(anna, t1), Get(clara, t1),
     Filter(boris, [NoFilter EXCEPT !.sender = boris, !.limit = 1, !.offset = 1]),
     Filter(anna, [NoFilter EXCEPT !.max = 1, !.limit = 1]),
     Filter(boris, [NoFilter EXCEPT !.min = 2, !.offset = 1]),
     Filter(clara, [NoFilter EXCEPT !.from = 1, !.to = 1]),
     Filter(anna, [NoFilter EXCEPT !.to = 0]),
     Filter(boris, [Query EXCEPT !.receiver = boris, !.min = 1]),
     Filter(anna, [NoFilter EXCEPT !.min = Garbage, !.limit = 1])}
=============================================================================
