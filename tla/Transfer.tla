------------------------------ MODULE Transfer ------------------------------
(***************************************************************************)
(* The lifecycle of a transfer record: internal/model/transfer.go and the  *)
(* transition rules of internal/sm/statemachine.go.                        *)
(*                                                                         *)
(* A record keeps what the rest of the system decides on: its status, the  *)
(* id of the Binance withdrawal (0 is the empty string) and the reason     *)
(* written to Error ("none" is the empty string).  Amounts, addresses,     *)
(* fees and timestamps are carried along by the code and never decided on. *)
(* A record that is not in the store has status UNKNOWN, as the constant's *)
(* comment says.                                                           *)
(***************************************************************************)
EXTENDS Naturals

Statuses == {"UNKNOWN", "PENDING", "FORWARDED", "COMPLETED", "FAILED"}

IsTerminal(s) == s \in {"COMPLETED", "FAILED"}

ValidTransitions ==
  [UNKNOWN   |-> {"PENDING"},
   PENDING   |-> {"FORWARDED", "FAILED"},
   FORWARDED |-> {"COMPLETED", "FAILED"},
   COMPLETED |-> {},
   FAILED    |-> {}]

CanTransitionTo(s, target) ==
  s \in DOMAIN ValidTransitions /\ target \in ValidTransitions[s]

Record(status, withdrawID, error) ==
  [status |-> status, withdrawID |-> withdrawID, error |-> error]

(* The record ensurePending, markAsFailed and updateStoreFromWithdrawal    *)
(* build before they call Create.                                          *)
Pending == Record("PENDING", 0, "none")

Unknown == Record("UNKNOWN", 0, "none")

(***************************************************************************)
(* StateMachine.ToX either returns an error and leaves the record alone or *)
(* returns nil with the record changed: MayX is the check, ToX the change. *)
(***************************************************************************)
MayForward(rec, id) == CanTransitionTo(rec.status, "FORWARDED") /\ id # 0

ToForwarded(rec, id) == [rec EXCEPT !.status = "FORWARDED", !.withdrawID = id]

MayComplete(rec) == CanTransitionTo(rec.status, "COMPLETED")

ToCompleted(rec) == [rec EXCEPT !.status = "COMPLETED"]

MayFail(rec) == CanTransitionTo(rec.status, "FAILED")

ToFailed(rec, reason) == [rec EXCEPT !.status = "FAILED", !.error = reason]

=============================================================================
