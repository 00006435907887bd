------------------------- MODULE MCRecoveryFigures -------------------------
(***************************************************************************)
(* RecoveryFigures, and RecoveryChannels with it, on a small instance.     *)
(***************************************************************************)
EXTENDS RecoveryFigures, TLC

CONSTANTS p1, c1, c2, a1, a2, a3, a4

OnePayment  == {p1}
TwoCases    == {c1, c2}
FourActions == {a1, a2, a3, a4}

Symmetric == Permutations(TwoCases) \cup Permutations(FourActions)

\* An ordinary amount; the escalation threshold is RecoveryWorkflow's question.
MCAmounts == {1}
\* Retries that always work and retries that never do.
MCReasons == {"BANK_TIMEOUT", "INSUFFICIENT_FUNDS"}
=============================================================================
