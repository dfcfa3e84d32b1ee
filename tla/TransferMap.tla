----------------------------- MODULE TransferMap -----------------------------
(***************************************************************************)
(* What the store promises its callers: a map from transfer id to record,  *)
(* changed and queried atomically, whose queries answer from the records   *)
(* themselves.  There are no buckets and no indexes here.  Times are kept  *)
(* exactly and told apart by the queries to the second.                    *)
(***************************************************************************)
EXTENDS Naturals, Sequences, FiniteSets

CONSTANTS IDs, Status, Times

VARIABLES transfers, reply

vars == <<transfers, reply>>

Recs == [status : Status, detectedAt : Times]

Error(e) == reply' = [err |-> e]

With(id, rec) ==
  transfers' = [i \in DOMAIN transfers \cup {id} |-> IF i = id THEN rec ELSE transfers[i]]

Without(id) == transfers' = [i \in DOMAIN transfers \ {id} |-> transfers[i]]

Create(id, rec) ==
  IF id \in DOMAIN transfers
  THEN Error("already exists") /\ UNCHANGED transfers
  ELSE Error("none") /\ With(id, rec)

Update(id, rec) ==
  IF id \in DOMAIN transfers
  THEN Error("none") /\ With(id, rec)
  ELSE Error("not found") /\ UNCHANGED transfers

UpdateStatus(id, s) ==
  IF id \in DOMAIN transfers
  THEN Error("none") /\ With(id, [transfers[id] EXCEPT !.status = s])
  ELSE Error("not found") /\ UNCHANGED transfers

Delete(id) ==
  IF id \in DOMAIN transfers
  THEN Error("none") /\ Without(id)
  ELSE Error("not found") /\ UNCHANGED transfers

(* A transaction that fails has no effect. *)
Fail == Error("failed") /\ UNCHANGED transfers

GetByStatus(s) ==
  LET found == {i \in DOMAIN transfers : transfers[i].status = s}
  IN  reply' = [records |-> [i \in found |-> transfers[i]]] /\ UNCHANGED transfers

CountByStatus ==
  LET used == {transfers[i].status : i \in DOMAIN transfers}
  IN  /\ reply' = [counts |-> [s \in used |->
                     Cardinality({i \in DOMAIN transfers : transfers[i].status = s})]]
      /\ UNCHANGED transfers

Second(t) == t \div 100

(* Nobody comes before a detection of an earlier second; the detections of *)
(* one second come in any order.                                           *)
InTimeOrder(seq) ==
  \A i, j \in 1..Len(seq) :
    i < j => Second(transfers[seq[i]].detectedAt) <= Second(transfers[seq[j]].detectedAt)

Orders(S) ==
  {seq \in [1..Cardinality(S) -> S] :
     InTimeOrder(seq) /\ \A i, j \in 1..Cardinality(S) : i # j => seq[i] # seq[j]}

ListByTime(limit) ==
  /\ \E seq \in Orders(DOMAIN transfers) :
       reply' = [list |-> IF limit = 0 \/ limit >= Len(seq)
                          THEN seq ELSE SubSeq(seq, 1, limit)]
  /\ UNCHANGED transfers

(* The records of the seconds from start's to end's.                       *)
Spanned(start, end) ==
  {i \in DOMAIN transfers : Second(transfers[i].detectedAt) \in Second(start)..Second(end)}

(* Those of the first and the last of these seconds, bar the very instants *)
(* asked for, of which a query may miss any.                               *)
Doubtful(start, end) ==
  {i \in Spanned(start, end) :
     \E edge \in {start, end} : LET t == transfers[i].detectedAt IN
       Second(t) = Second(edge) /\ t # edge}

ListByTimeRange(start, end) ==
  /\ \E missed \in SUBSET Doubtful(start, end) :
       \E seq \in Orders(Spanned(start, end) \ missed) : reply' = [list |-> seq]
  /\ UNCHANGED transfers

Init == transfers = [i \in {} |-> i] /\ reply = [err |-> "none"]

Next ==
  \/ \E id \in IDs, rec \in Recs : Create(id, rec) \/ Update(id, rec)
  \/ \E id \in IDs, s \in Status : UpdateStatus(id, s)
  \/ \E id \in IDs : Delete(id)
  \/ \E s \in Status : GetByStatus(s)
  \/ \E limit \in 0..Cardinality(IDs) : ListByTime(limit)
  \/ \E start, end \in Times : ListByTimeRange(start, end)
  \/ CountByStatus \/ Fail

Spec == Init /\ [][Next]_vars

=============================================================================
