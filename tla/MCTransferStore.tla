--------------------------- MODULE MCTransferStore ---------------------------
(* Instances of the store and the API over it for TLC.                     *)
EXTENDS TransferAPI

(* Two detections of one second, of which the later sorts first ("Z" comes *)
(* after "5"), and one of the next second.                                *)
SortedAndUnsorted == {150, 155, 200}

=============================================================================
