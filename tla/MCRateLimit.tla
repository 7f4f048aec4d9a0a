---------------------------- MODULE MCRateLimit ----------------------------
(***************************************************************************)
(* Small instances of RateLimit for TLC.                                   *)
(***************************************************************************)
EXTENDS RateLimit, TLC

CONSTANTS c1, c2, c3, a, MaxTime

MCChecks == {c1, c2, c3}
MCIds == {a}
MCLength == <<2, 3>>
MCLimit == <<1, 2>>

\* Bounds the clock.
EarlyEnough == clock <= MaxTime

Symmetry == Permutations(MCChecks)
=============================================================================
