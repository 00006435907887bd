--------------------------- MODULE MCCaseSessions ---------------------------
(***************************************************************************)
(* CaseSessions on small instances.                                        *)
(***************************************************************************)
EXTENDS CaseSessions, TLC

CONSTANTS s1, s2

TwoSessions == {s1, s2}
=============================================================================
