------------------------ MODULE MCRecoveryInsights -------------------------
(***************************************************************************)
(* RecoveryInsights on a small portfolio: two payments of one customer, so *)
(* that what happens to one is history, and a cohort, for the other.       *)
(***************************************************************************)
EXTENDS RecoveryInsights, TLC

CONSTANTS p1, p2, c1, c2, u1

TwoPayments == {p1, p2}
TwoCases    == {c1, c2}
OneCustomer == {u1}
Theirs      == [p \in TwoPayments |-> u1]
FourActions == 1..4

\* Cases are alike: which of the two identifiers is used first makes no difference.
Symmetric == Permutations(TwoCases)

\* A faithful subscriber.
Profiles == [u \in OneCustomer |->
               [rate |-> 9, subscription |-> "ACTIVE", known |-> TRUE]]

\* Every draw fails, or only the first payment's draws succeed.
MCSeeds == {{}, {p1} \X ActionType \X (1..9)}

\* An ordinary amount and one above the code's default threshold.
MCAmounts == {100000, 6000000}
MCReasons == {"NETWORK_ERROR"}

NoOverride == <<>>
CheapLinks == [SEND_PAYMENT_LINK |-> 100]
Asked(r, f, h, c) == [retries |-> r, failures |-> f, threshold |-> h,
                      costs |-> c, frictions |-> NoOverride]
\* The limits one at a time below and above the defaults, and cheaper links.
MCOverrides ==
  {Asked(1, 0, 5000000, NoOverride), Asked(3, 0, 5000000, NoOverride),
   Asked(3, 1, 5000000, NoOverride), Asked(3, 2, 0, NoOverride),
   Asked(5, 2, 9000000, CheapLinks)}
=============================================================================
