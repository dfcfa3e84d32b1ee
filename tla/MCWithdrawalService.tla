------------------------- MODULE MCWithdrawalService -------------------------
(* Instances of WithdrawalService for TLC.                                 *)
EXTENDS WithdrawalService

CONSTANTS t1, t2, main, other

=============================================================================
