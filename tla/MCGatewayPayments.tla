------------------------- MODULE MCGatewayPayments -------------------------
(***************************************************************************)
(* GatewayPayments on small instances.                                     *)
(***************************************************************************)
EXTENDS GatewayPayments, TLC

CONSTANTS o1, q1, q2, s1, s2

OneOrder == {o1}
TwoPays  == {q1, q2}
OneSession  == {s1}
TwoSessions == {s1, s2}
Symmetric == Permutations(TwoSessions) \cup Permutations(TwoPays)
=============================================================================
