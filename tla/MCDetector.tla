------------------------------ MODULE MCDetector ------------------------------
(* Instances of Detector for TLC.                                          *)
EXTENDS Detector

(* The events of the account: its transfers, and updates of other origin. *)
Updates == Transfers \cup {0}

OnlyTransfers == Transfers

AllDifferent == [t \in Transfers |-> t]

(* The first and the last transfer are of one asset and amount. *)
FirstAndLastAlike == [t \in Transfers |-> IF t = 1 THEN Cardinality(Transfers) ELSE t]

=============================================================================
