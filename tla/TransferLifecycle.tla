-------------------------- MODULE TransferLifecycle --------------------------
(***************************************************************************)
(* What the service promises for every transfer, seen from outside: the    *)
(* state machine of DESIGN.md and internal/model/transfer.go side by side  *)
(* with the one payout Binance makes for it.  How the service learns of    *)
(* the payout, who calls Forward and when processes die is not said here.  *)
(***************************************************************************)
CONSTANT TranIDs

VARIABLES
  status,  \* what the store says of a transfer
  payout   \* what Binance does for it

vars == <<status, payout>>

Init ==
  /\ status = [t \in TranIDs |-> "UNKNOWN"]
  /\ payout = [t \in TranIDs |-> "none"]

Becomes(t, s) == status' = [status EXCEPT ![t] = s] /\ UNCHANGED payout

Record(t) == status[t] = "UNKNOWN" /\ Becomes(t, "PENDING")

(* Only a recorded transfer is paid, once, and never after it failed. *)
Pay(t) ==
  /\ status[t] = "PENDING"
  /\ payout[t] = "none"
  /\ payout' = [payout EXCEPT ![t] = "processing"]
  /\ UNCHANGED status

Settle(t, s) ==
  /\ payout[t] = "processing"
  /\ payout' = [payout EXCEPT ![t] = s]
  /\ UNCHANGED status

Forward(t) ==
  status[t] = "PENDING" /\ payout[t] # "none" /\ Becomes(t, "FORWARDED")

Complete(t) ==
  status[t] = "FORWARDED" /\ payout[t] = "completed" /\ Becomes(t, "COMPLETED")

Fail(t) ==
  /\ \/ status[t] = "PENDING" /\ payout[t] = "none"
     \/ status[t] = "FORWARDED" /\ payout[t] = "failed"
  /\ Becomes(t, "FAILED")

(* The database is lost, and every status with it; the payouts are not. *)
Forget == status' = [t \in TranIDs |-> "UNKNOWN"] /\ UNCHANGED payout

Next ==
  \/ \E t \in TranIDs :
       \/ Record(t) \/ Pay(t) \/ Forward(t) \/ Complete(t) \/ Fail(t)
       \/ \E s \in {"completed", "failed"} : Settle(t, s)
  \/ Forget

Spec == Init /\ [][Next]_vars

=============================================================================
