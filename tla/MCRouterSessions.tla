-------------------------- MODULE MCRouterSessions --------------------------
(* Instances of RouterSessions for TLC. *)
EXTENDS RouterSessions, TLC

CONSTANTS a, b, c


\* Principals are interchangeable; session ids and slots are ordered, so not.
PrincipalSymmetry == Permutations(Principals)
=============================================================================
