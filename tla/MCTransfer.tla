----------------------------- MODULE MCTransfer -----------------------------
(***************************************************************************)
(* Small instances of Transfer for TLC.                                    *)
(***************************************************************************)
EXTENDS TransferInvariant, TLC

CONSTANTS r1, r2, r3, k1, k2, badKey

MCRequests == {r1, r2, r3}
MCAccounts == {1, 2}
MCIds == {1, 2, 9}              \* 9 is no account
MCKeys == {k1, k2, badKey}
MCValidKeys == {k1, k2}
MCInitial == (1 :> 2) @@ (2 :> 1)
MCPoorInitial == (1 :> 1) @@ (2 :> 1)
MCEdgeInitial == (1 :> 2) @@ (2 :> 2)

Command(s, t, k, n) == [sender |-> s, receiver |-> t, key |-> k, amount |-> n]

\* Opposite transfers, a key reused with another payload, the same key of
\* another sender.
MCCommands ==
    {Command(1, 2, k1, 2), Command(1, 2, k1, 1), Command(2, 1, k1, 1),
     Command(2, 1, k2, 1)}

\* Two commands that share a key and block each other at every place.
MCRivals == {Command(1, 2, k1, 2), Command(2, 1, k1, 1)}

\* Everything that is refused before the first statement, a receiver without
\* an account, and opposite transfers that overflow unless they alternate.
MCEdges ==
    {Command(1, 2, badKey, 1), Command(1, 2, k1, 0), Command(1, 1, k1, 1),
     Command(1, 9, k1, 1), Command(1, 2, k1, 2), Command(2, 1, k1, 1)}

Symmetry == Permutations(MCRequests)
=============================================================================
