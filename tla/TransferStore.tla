---------------------------- MODULE TransferStore ----------------------------
(***************************************************************************)
(* internal/store/store.go: one bucket of records and two index buckets,   *)
(* kept in step by hand inside every bbolt transaction.  bbolt runs write  *)
(* transactions one at a time and rolls a failed one back, so a            *)
(* transaction is one step; what could go wrong is that the buckets drift  *)
(* apart and the queries, which read the indexes, answer wrongly.          *)
(***************************************************************************)
EXTENDS Naturals, Sequences, FiniteSets, SequencesExt, TimeKeys

CONSTANTS
  IDs,     \* transfer ids, as numbers: their bytes break ties in the index
  Status,  \* statuses callers store
  Times    \* detection times, in hundredths of a second

ASSUME IDsAssumption == IDs \subseteq Nat /\ IsFiniteSet(IDs)
ASSUME TimesAssumption == Times \subseteq Nat

VARIABLES
  transfers,  \* bucket transfers: id -> record
  byStatus,   \* bucket by-status: keys <<status, id>>
  byTime,     \* bucket by-time: keys <<detectedAt, id>>, written by makeTimeKey
  reply       \* what the last call returned

buckets == <<transfers, byStatus, byTime>>
vars == <<transfers, byStatus, byTime, reply>>

Recs == [status : Status, detectedAt : Times]

Return(e) == reply' = [err |-> e]

Store(id, rec) ==
  transfers' = [i \in DOMAIN transfers \cup {id} |-> IF i = id THEN rec ELSE transfers[i]]

NotFound(id) == id \notin DOMAIN transfers /\ Return("not found") /\ UNCHANGED buckets

(* Seeded faults, here and below: the form a regression could give to the  *)
(* definition that follows.  They are no part of the specification.  Here  *)
(* the index key is made before the record's status is set.                *)
CreateUnsetStatus(id, rec) ==
  \/ /\ id \in DOMAIN transfers
     /\ Return("already exists")
     /\ UNCHANGED buckets
  \/ /\ id \notin DOMAIN transfers
     /\ Store(id, rec)
     /\ byStatus' = byStatus \cup {<<"", id>>}
     /\ byTime' = byTime \cup {<<rec.detectedAt, id>>}
     /\ Return("none")

Create(id, rec) ==
  \/ /\ id \in DOMAIN transfers
     /\ Return("already exists")
     /\ UNCHANGED buckets
  \/ /\ id \notin DOMAIN transfers
     /\ Store(id, rec)
     /\ byStatus' = byStatus \cup {<<rec.status, id>>}
     /\ byTime' = byTime \cup {<<rec.detectedAt, id>>}
     /\ Return("none")

MovedLeavingOld(index, old, new) == index \cup {new}

(* An index moves only if its key changed. *)
Moved(index, old, new) == IF old = new THEN index ELSE (index \ {old}) \cup {new}

Update(id, rec) ==
  \/ NotFound(id)
  \/ /\ id \in DOMAIN transfers
     /\ byStatus' = Moved(byStatus, <<transfers[id].status, id>>, <<rec.status, id>>)
     /\ byTime' = Moved(byTime, <<transfers[id].detectedAt, id>>, <<rec.detectedAt, id>>)
     /\ Store(id, rec)
     /\ Return("none")

UpdateStatus(id, s) ==
  \/ NotFound(id)
  \/ /\ id \in DOMAIN transfers
     /\ byStatus' = Moved(byStatus, <<transfers[id].status, id>>, <<s, id>>)
     /\ Store(id, [transfers[id] EXCEPT !.status = s])
     /\ Return("none")
     /\ UNCHANGED byTime

Delete(id) ==
  \/ NotFound(id)
  \/ /\ id \in DOMAIN transfers
     /\ byStatus' = byStatus \ {<<transfers[id].status, id>>}
     /\ byTime' = byTime \ {<<transfers[id].detectedAt, id>>}
     /\ transfers' = [i \in DOMAIN transfers \ {id} |-> transfers[i]]
     /\ Return("none")

(* Any transaction may fail half-way and is rolled back. *)
RollBack == Return("failed") /\ UNCHANGED buckets

(* The queries walk an index and skip entries without a record.  The       *)
(* record itself is not looked at again.                                   *)
GetByStatus(s) ==
  LET found == {i \in DOMAIN transfers : <<s, i>> \in byStatus}
  IN  reply' = [records |-> [i \in found |-> transfers[i]]] /\ UNCHANGED buckets

CountByStatus ==
  LET used == {k[1] : k \in byStatus}
  IN  /\ reply' = [counts |-> [s \in used |-> Cardinality({k \in byStatus : k[1] = s})]]
      /\ UNCHANGED buckets

KeyLess(k, l) == BytesLess(makeTimeKey(k[1], k[2]), makeTimeKey(l[1], l[2]))

(* A set as a sequence in ascending order. *)
Ascending(S, Less(_, _)) ==
  CHOOSE seq \in SetToSeqs(S) : \A i, j \in DOMAIN seq : i < j => Less(seq[i], seq[j])

(* The ids of some index entries in the order the cursor meets them. *)
Walk(entries) ==
  LET keys == Ascending({k \in entries : k[2] \in DOMAIN transfers}, KeyLess)
  IN  [i \in DOMAIN keys |-> keys[i][2]]

ListByTime(limit) ==
  LET all == Walk(byTime)
  IN  /\ reply' = [list |-> IF limit = 0 \/ limit >= Len(all)
                            THEN all ELSE SubSeq(all, 1, limit)]
      /\ UNCHANGED buckets

(* Seek(start), then on until a timestamp lies beyond end. *)
ListByTimeRange(start, end) ==
  LET in == {k \in byTime :
               /\ BytesAtMost(Timestamp(start), makeTimeKey(k[1], k[2]))
               /\ BytesAtMost(Timestamp(k[1]), Timestamp(end))}
  IN  reply' = [list |-> Walk(in)] /\ UNCHANGED buckets

Init ==
  /\ transfers = [i \in {} |-> i]
  /\ byStatus = {}
  /\ byTime = {}
  /\ reply = [err |-> "none"]

Next ==
  \/ \E id \in IDs, rec \in Recs : Create(id, rec) \/ Update(id, rec)
  \/ \E id \in IDs, s \in Status : UpdateStatus(id, s)
  \/ \E id \in IDs : Delete(id)
  \/ \E s \in Status : GetByStatus(s)
  \/ \E limit \in 0..Cardinality(IDs) : ListByTime(limit)
  \/ \E start, end \in Times : ListByTimeRange(start, end)
  \/ CountByStatus \/ RollBack

Spec == Init /\ [][Next]_vars

-----------------------------------------------------------------------------

(* Each bucket holds keys and records of the declared kinds. *)
TypeOK ==
  /\ DOMAIN transfers \subseteq IDs
  /\ \A i \in DOMAIN transfers : transfers[i] \in Recs
  /\ byStatus \subseteq Status \X IDs
  /\ byTime \subseteq Times \X IDs

(* The indexes hold exactly one key for every record and none besides,     *)
(* after any sequence of transactions: Update and UpdateStatus remove the  *)
(* key of the record they find, not of the one the caller read earlier.    *)
IndexesExact ==
  /\ byStatus = {<<transfers[i].status, i>> : i \in DOMAIN transfers}
  /\ byTime = {<<transfers[i].detectedAt, i>> : i \in DOMAIN transfers}

Map == INSTANCE TransferMap

(* The store cannot be told from a map whose queries read the records, in  *)
(* the order of time to the second.                                        *)
ImplementsMap == Map!Spec

=============================================================================
