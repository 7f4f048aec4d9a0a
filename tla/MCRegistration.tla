--------------------------- MODULE MCRegistration ---------------------------
(***************************************************************************)
(* Small instances of Registration for TLC.                                *)
(***************************************************************************)
EXTENDS Registration, TLC

CONSTANTS r1, r2, r3, m, p1, p2, short, ip

MCRequests == {r1, r2, r3}
MCCalls ==
    [r \in MCRequests |->
        {c \in AllCalls :
            \/ c.op = "Register" /\ c.email.form \in {"lower", "padded"}
                  /\ c.password \in {p1, short}
            \/ c.op = "Login" /\ c.email.form \in {"upper", "padded"}
            \/ c.op = "Create" /\ c.password = p2}]

Symmetry == Permutations(MCRequests)
=============================================================================
