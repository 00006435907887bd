------------------------- MODULE MCRecoveryWorkflow -------------------------
(***************************************************************************)
(* RecoveryWorkflow on small instances.                                    *)
(***************************************************************************)
EXTENDS RecoveryWorkflow, TLC

CONSTANTS p1, c1, c2, a1, a2, a3, a4, a5

OnePayment   == {p1}
OneCase      == {c1}
TwoCases     == {c1, c2}
ThreeActions == {a1, a2, a3}
FiveActions  == {a1, a2, a3, a4, a5}

\* Ids are drawn, never compared, so safety runs may identify them.
Symmetric == Permutations(TwoCases) \cup Permutations(FiveActions)

\* An ordinary amount and one above the escalation threshold of 1.
MCAmounts == {1, 2}
\* One reason per shape of behaviour: a retry that always works, retries that
\* never do, a candidate set with a hand-over to a human, and an unknown cause.
MCReasons == {"BANK_TIMEOUT", "INSUFFICIENT_FUNDS", "EXPIRED_CARD", "UNKNOWN"}
=============================================================================
