--------------------------- MODULE MCGrantCustody ---------------------------
(* An instance of GrantCustody for TLC.                                      *)
EXTENDS GrantCustody, TLC

CONSTANTS x, y, l1, l2

=============================================================================
