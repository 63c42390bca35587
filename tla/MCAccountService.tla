-------------------------- MODULE MCAccountService --------------------------
(* Small instances of AccountService for TLC.                               *)
EXTENDS AccountService

CONSTANTS d1, d2, s1, s2, k1, r1, r2, c1, c2
=============================================================================
