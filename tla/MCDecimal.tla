----------------------------- MODULE MCDecimal -----------------------------
(***************************************************************************)
(* Small instances of Decimal for TLC.                                     *)
(***************************************************************************)
EXTENDS Decimal

\* Up to two digits before and three after the point, exponents beyond the
\* bound on both sides.
MCTexts ==
    [neg: BOOLEAN, whole: UNION {[1..n -> {0, 1, 9}] : n \in 0..2},
     frac: UNION {[1..n -> {0, 5}] : n \in 0..3}, exp: (-2..2) \cup {4}]
=============================================================================
