------------------------- MODULE TransferStoreProofs -------------------------
(***************************************************************************)
(* The store's three buckets agree for every set of ids, statuses and      *)
(* times, after every sequence of transactions; and when detection times   *)
(* lie in different seconds the store cannot be told from a map.           *)
(***************************************************************************)
EXTENDS TransferStore, FiniteSetTheorems, SequenceTheorems, WellFoundedInduction, TLAPS

StoreInv == TypeOK /\ IndexesExact

(* An index, and the index after the record of id was written: its key was *)
(* old and is new.                                                         *)
Keys(f, D) == {<<f[i], i>> : i \in D}

LEMMA IndexMoves ==
  ASSUME NEW f, NEW g, NEW id, NEW D, id \in D,
         \A i \in D \ {id} : g[i] = f[i]
  PROVE  Moved(Keys(f, D), <<f[id], id>>, <<g[id], id>>) = Keys(g, D)
<1>1. CASE f[id] = g[id]
  BY <1>1 DEF Moved, Keys
<1>2. CASE f[id] # g[id]
  BY <1>2 DEF Moved, Keys
<1> QED BY <1>1, <1>2

LEMMA IndexLoses ==
  ASSUME NEW f, NEW g, NEW id, NEW D, id \in D,
         \A i \in D \ {id} : g[i] = f[i]
  PROVE  Keys(f, D) \ {<<f[id], id>>} = Keys(g, D \ {id})
BY DEF Keys

(* The fields the two indexes are made of. *)
StatusOf == [i \in DOMAIN transfers |-> transfers[i].status]
TimeOf == [i \in DOMAIN transfers |-> transfers[i].detectedAt]

LEMMA IndexesAre ==
  IndexesExact <=> /\ byStatus = Keys(StatusOf, DOMAIN transfers)
                   /\ byTime = Keys(TimeOf, DOMAIN transfers)
BY DEF IndexesExact, Keys, StatusOf, TimeOf

LEMMA StoreInit == Init => StoreInv
BY DEF Init, StoreInv, TypeOK, IndexesExact

(* A query, and a transaction that found nothing or failed. *)
LEMMA Unchanged ==
  ASSUME StoreInv, UNCHANGED buckets
  PROVE  StoreInv'
BY DEF StoreInv, TypeOK, IndexesExact, buckets

LEMMA CreateInv ==
  ASSUME StoreInv, NEW id \in IDs, NEW rec \in Recs, Create(id, rec)
  PROVE  StoreInv'
<1>1. CASE UNCHANGED buckets
  BY <1>1, Unchanged
<1>2. CASE id \notin DOMAIN transfers /\ ~ UNCHANGED buckets
  <2>1. /\ DOMAIN transfers' = DOMAIN transfers \cup {id}
        /\ transfers'[id] = rec
        /\ \A i \in DOMAIN transfers : transfers'[i] = transfers[i]
        /\ byStatus' = byStatus \cup {<<rec.status, id>>}
        /\ byTime' = byTime \cup {<<rec.detectedAt, id>>}
    BY <1>2 DEF Create, Store
  <2>2. TypeOK'
    BY <2>1 DEF StoreInv, TypeOK, Recs
  <2>3. byStatus' = Keys(StatusOf', DOMAIN transfers')
    <3>1. \A i \in DOMAIN transfers \ {id} : StatusOf'[i] = StatusOf[i]
      BY <2>1 DEF StatusOf
    <3>2. StatusOf'[id] = rec.status
      BY <2>1 DEF StatusOf
    <3>3. Keys(StatusOf, DOMAIN transfers) \cup {<<StatusOf'[id], id>>}
            = Keys(StatusOf', DOMAIN transfers \cup {id})
      BY <1>2, <3>1 DEF Keys
    <3> QED BY <2>1, <3>2, <3>3, IndexesAre DEF StoreInv
  <2>4. byTime' = Keys(TimeOf', DOMAIN transfers')
    <3>1. \A i \in DOMAIN transfers \ {id} : TimeOf'[i] = TimeOf[i]
      BY <2>1 DEF TimeOf
    <3>2. TimeOf'[id] = rec.detectedAt
      BY <2>1 DEF TimeOf
    <3>3. Keys(TimeOf, DOMAIN transfers) \cup {<<TimeOf'[id], id>>}
            = Keys(TimeOf', DOMAIN transfers \cup {id})
      BY <1>2, <3>1 DEF Keys
    <3> QED BY <2>1, <3>2, <3>3, IndexesAre DEF StoreInv
  <2>5. IndexesExact'
    BY <2>3, <2>4 DEF IndexesExact, Keys, StatusOf, TimeOf
  <2> QED BY <2>2, <2>5 DEF StoreInv
<1> QED BY <1>1, <1>2 DEF Create

(* Update and UpdateStatus write the record of id and move its keys.       *)
LEMMA WriteInv ==
  ASSUME StoreInv, NEW id \in DOMAIN transfers, NEW rec \in Recs, Store(id, rec),
         byStatus' = Moved(byStatus, <<transfers[id].status, id>>, <<rec.status, id>>),
         byTime' = Moved(byTime, <<transfers[id].detectedAt, id>>, <<rec.detectedAt, id>>)
  PROVE  StoreInv'
<1>1. /\ DOMAIN transfers' = DOMAIN transfers
      /\ transfers'[id] = rec
      /\ \A i \in DOMAIN transfers \ {id} : transfers'[i] = transfers[i]
  BY DEF Store
<1>2. TypeOK'
  BY <1>1 DEF StoreInv, TypeOK, Recs, Moved
<1>3. byStatus' = Keys(StatusOf', DOMAIN transfers')
  <2>1. \A i \in DOMAIN transfers \ {id} : StatusOf'[i] = StatusOf[i]
    BY <1>1 DEF StatusOf
  <2>2. StatusOf[id] = transfers[id].status /\ StatusOf'[id] = rec.status
    BY <1>1 DEF StatusOf
  <2> QED BY <1>1, <2>1, <2>2, IndexMoves, IndexesAre DEF StoreInv
<1>4. byTime' = Keys(TimeOf', DOMAIN transfers')
  <2>1. \A i \in DOMAIN transfers \ {id} : TimeOf'[i] = TimeOf[i]
    BY <1>1 DEF TimeOf
  <2>2. TimeOf[id] = transfers[id].detectedAt /\ TimeOf'[id] = rec.detectedAt
    BY <1>1 DEF TimeOf
  <2> QED BY <1>1, <2>1, <2>2, IndexMoves, IndexesAre DEF StoreInv
<1>5. IndexesExact'
  BY <1>3, <1>4 DEF IndexesExact, Keys, StatusOf, TimeOf
<1> QED BY <1>2, <1>5 DEF StoreInv

LEMMA UpdateInv ==
  ASSUME StoreInv, NEW id \in IDs, NEW rec \in Recs, Update(id, rec)
  PROVE  StoreInv'
<1>1. CASE NotFound(id)
  BY <1>1, Unchanged DEF NotFound
<1> QED BY <1>1, WriteInv DEF Update

LEMMA UpdateStatusInv ==
  ASSUME StoreInv, NEW id \in IDs, NEW s \in Status, UpdateStatus(id, s)
  PROVE  StoreInv'
<1>1. CASE NotFound(id)
  BY <1>1, Unchanged DEF NotFound
<1>2. CASE ~ NotFound(id)
  <2> DEFINE rec == [transfers[id] EXCEPT !.status = s]
  <2>1. id \in DOMAIN transfers /\ transfers[id] \in Recs
    BY <1>2 DEF UpdateStatus, StoreInv, TypeOK
  <2>2. rec \in Recs /\ rec.status = s /\ rec.detectedAt = transfers[id].detectedAt
    BY <2>1 DEF Recs
  <2>3. byTime' = Moved(byTime, <<transfers[id].detectedAt, id>>, <<rec.detectedAt, id>>)
    BY <1>2, <2>2 DEF UpdateStatus, Moved
  <2> QED BY <1>2, <2>1, <2>2, <2>3, WriteInv DEF UpdateStatus
<1> QED BY <1>1, <1>2

LEMMA DeleteInv ==
  ASSUME StoreInv, NEW id \in IDs, Delete(id)
  PROVE  StoreInv'
<1>1. CASE NotFound(id)
  BY <1>1, Unchanged DEF NotFound
<1>2. CASE ~ NotFound(id)
  <2>1. /\ id \in DOMAIN transfers
        /\ DOMAIN transfers' = DOMAIN transfers \ {id}
        /\ \A i \in DOMAIN transfers \ {id} : transfers'[i] = transfers[i]
        /\ byStatus' = byStatus \ {<<transfers[id].status, id>>}
        /\ byTime' = byTime \ {<<transfers[id].detectedAt, id>>}
    BY <1>2 DEF Delete
  <2>2. TypeOK'
    BY <2>1 DEF StoreInv, TypeOK
  <2>3. byStatus' = Keys(StatusOf', DOMAIN transfers')
    <3>1. \A i \in DOMAIN transfers \ {id} : StatusOf'[i] = StatusOf[i]
      BY <2>1 DEF StatusOf
    <3>2. StatusOf[id] = transfers[id].status
      BY <2>1 DEF StatusOf
    <3> QED BY <2>1, <3>1, <3>2, IndexLoses, IndexesAre DEF StoreInv
  <2>4. byTime' = Keys(TimeOf', DOMAIN transfers')
    <3>1. \A i \in DOMAIN transfers \ {id} : TimeOf'[i] = TimeOf[i]
      BY <2>1 DEF TimeOf
    <3>2. TimeOf[id] = transfers[id].detectedAt
      BY <2>1 DEF TimeOf
    <3> QED BY <2>1, <3>1, <3>2, IndexLoses, IndexesAre DEF StoreInv
  <2>5. IndexesExact'
    BY <2>3, <2>4 DEF IndexesExact, Keys, StatusOf, TimeOf
  <2> QED BY <2>2, <2>5 DEF StoreInv
<1> QED BY <1>1, <1>2

LEMMA StoreNext == StoreInv /\ [Next]_vars => StoreInv'
<1> SUFFICES ASSUME StoreInv, [Next]_vars PROVE StoreInv'
  OBVIOUS
<1>1. ASSUME NEW id \in IDs, NEW rec \in Recs, Create(id, rec) \/ Update(id, rec)
      PROVE  StoreInv'
  BY <1>1, CreateInv, UpdateInv
<1>2. ASSUME NEW id \in IDs, NEW s \in Status, UpdateStatus(id, s) PROVE StoreInv'
  BY <1>2, UpdateStatusInv
<1>3. ASSUME NEW id \in IDs, Delete(id) PROVE StoreInv'
  BY <1>3, DeleteInv
<1>4. ASSUME NEW s \in Status, GetByStatus(s) PROVE UNCHANGED buckets
  BY <1>4 DEF GetByStatus
<1>5. ASSUME NEW limit \in 0..Cardinality(IDs), ListByTime(limit) PROVE UNCHANGED buckets
  BY <1>5 DEF ListByTime
<1>6. ASSUME NEW start \in Times, NEW end \in Times, ListByTimeRange(start, end)
      PROVE  UNCHANGED buckets
  BY <1>6 DEF ListByTimeRange
<1>7. CASE CountByStatus \/ RollBack \/ UNCHANGED vars
  <2>1. UNCHANGED buckets
    BY <1>7 DEF CountByStatus, RollBack, vars, buckets
  <2> QED BY <2>1, Unchanged
<1> QED BY <1>1, <1>2, <1>3, <1>4, <1>5, <1>6, <1>7, Unchanged DEF Next

(* The records, ids, statuses and times in the buckets are of their kinds. *)
THEOREM StoreTypeCorrect == Spec => []TypeOK
<1>1. StoreInv => TypeOK
  BY DEF StoreInv
<1> QED BY <1>1, StoreInit, StoreNext, PTL DEF Spec

(* Both index buckets hold exactly the keys of the stored records, so the  *)
(* queries that walk an index neither miss a record nor return one twice,  *)
(* whatever mix of Create, Update, UpdateStatus, Delete and rolled-back    *)
(* transactions came before.                                               *)
THEOREM IndexesAreExact == Spec => []IndexesExact
<1>1. StoreInv => IndexesExact
  BY DEF StoreInv
<1> QED BY <1>1, StoreInit, StoreNext, PTL DEF Spec

-----------------------------------------------------------------------------
(* Finite sets have a list in any total order of their members.           *)

(* Every non-empty set of numbers has a least one. *)
LEMMA LeastOf ==
  ASSUME NEW T \in SUBSET Nat, T # {}
  PROVE  \E n \in T : \A m \in T : n <= m
<1> DEFINE Lt == {ss \in Nat \X Nat : ss[1] < ss[2]}
<1>1. OpToRel(<, Nat) = Lt
  BY Zenon DEF OpToRel
<1>2. IsWellFoundedOn(Lt, Nat)
  BY <1>1, NatLessThanWellFounded, Zenon
<1>3. \E n \in T : \A m \in T : ~ (<<m, n>> \in Lt)
  <2> HIDE DEF Lt
  <2> QED BY <1>2, WFMin
<1>4. \A m, n \in Nat : <<m, n>> \in Lt <=> m < n
  OBVIOUS
<1>5. \A m, n \in Nat : ~ (m < n) => n <= m
  OBVIOUS
<1> HIDE DEF Lt
<1> QED BY <1>3, <1>4, <1>5

(* R orders the members of S strictly, and any two of them. *)
TotalOrder(R, S) ==
  /\ \A a \in S : <<a, a>> \notin R
  /\ \A a, b, c \in S : <<a, b>> \in R /\ <<b, c>> \in R => <<a, c>> \in R
  /\ \A a, b \in S : a # b => <<a, b>> \in R \/ <<b, a>> \in R

(* A finite set can be listed in any total order of its members: each goes *)
(* to the place given by the number of members before it.                  *)
LEMMA Enumeration ==
  ASSUME NEW S, IsFiniteSet(S), NEW R, TotalOrder(R, S)
  PROVE  \E seq \in SetToSeqs(S) :
           \A i, j \in DOMAIN seq : i < j => <<seq[i], seq[j]>> \in R
<1> DEFINE n == Cardinality(S)
           Below(a) == {b \in S : <<b, a>> \in R}
           rank == [a \in S |-> Cardinality(Below(a)) + 1]
<1>1. n \in Nat /\ IsFiniteSet(1..n) /\ Cardinality(1..n) = n
  BY FS_CardinalityType, FS_Interval
<1>2. ASSUME NEW a \in S
      PROVE  /\ IsFiniteSet(Below(a))
             /\ Cardinality(Below(a)) \in Nat
             /\ Cardinality(Below(a)) < n
  <2>1. Below(a) \in SUBSET S /\ Below(a) # S
    BY DEF TotalOrder
  <2>2. IsFiniteSet(Below(a)) /\ Cardinality(Below(a)) <= n /\ Cardinality(Below(a)) # n
    BY <2>1, FS_Subset
  <2> QED BY <1>1, <2>2, FS_CardinalityType
<1>3. rank \in [S -> 1..n]
  <2>1. \A a \in S : Cardinality(Below(a)) + 1 \in 1..n
    <3> HIDE DEF n, Below
    <3> QED BY <1>1, <1>2
  <2> QED BY <2>1
<1>4. ASSUME NEW a \in S, NEW b \in S, <<a, b>> \in R
      PROVE  rank[a] < rank[b]
  <2>1. Below(a) \in SUBSET Below(b) /\ Below(a) # Below(b)
    BY <1>4 DEF TotalOrder
  <2>2. Cardinality(Below(a)) <= Cardinality(Below(b))
        /\ Cardinality(Below(a)) # Cardinality(Below(b))
    BY <1>2, <2>1, FS_Subset
  <2>3. rank[a] = Cardinality(Below(a)) + 1 /\ rank[b] = Cardinality(Below(b)) + 1
    OBVIOUS
  <2>4. Cardinality(Below(a)) \in Nat /\ Cardinality(Below(b)) \in Nat
    BY <1>2
  <2> HIDE DEF rank, Below
  <2> QED BY <2>2, <2>3, <2>4
<1> HIDE DEF n, rank, Below
<1>5. rank \in Injection(S, 1..n)
  <2>1. \A a, b \in S : a # b => rank[a] # rank[b]
    <3> SUFFICES ASSUME NEW a \in S, NEW b \in S, a # b PROVE rank[a] # rank[b]
      OBVIOUS
    <3>1. rank[a] \in Nat /\ rank[b] \in Nat
      BY <1>1, <1>3
    <3>2. CASE <<a, b>> \in R
      BY <1>4, <3>1, <3>2
    <3>3. CASE <<b, a>> \in R
      BY <1>4, <3>1, <3>3
    <3> QED BY <3>2, <3>3 DEF TotalOrder
  <2> QED BY <1>3, <2>1 DEF Injection, IsInjective
<1>6. rank \in Surjection(S, 1..n)
  BY <1>1, <1>5, FS_Injection DEF n
<1> DEFINE seq == [i \in 1..n |-> CHOOSE a \in S : rank[a] = i]
<1>7. \A i \in 1..n : seq[i] \in S /\ rank[seq[i]] = i
  BY <1>6 DEF Surjection
<1>8. seq \in SetToSeqs(S)
  BY <1>7 DEF SetToSeqs, n
<1>9. \A i, j \in DOMAIN seq : i < j => <<seq[i], seq[j]>> \in R
  <2> SUFFICES ASSUME NEW i \in 1..n, NEW j \in 1..n, i < j
               PROVE  <<seq[i], seq[j]>> \in R
    OBVIOUS
  <2> DEFINE a == seq[i]  b == seq[j]
  <2>1. a \in S /\ b \in S /\ rank[a] = i /\ rank[b] = j
    BY <1>7
  <2> HIDE DEF a, b
  <2>2. <<b, a>> \notin R
    BY <1>1, <1>4, <2>1
  <2>3. <<a, b>> \in R
    BY <1>1, <2>1, <2>2 DEF TotalOrder
  <2> QED BY <2>3 DEF a, b
<1> QED BY <1>8, <1>9

-----------------------------------------------------------------------------
(* bytes.Compare is a total order, and a time key is the key of one time   *)
(* and one id only: so the cursor's order of any keys exists.              *)

(* Appending to a sequence of bytes. *)
LEMMA BytesConcat ==
  ASSUME NEW a \in Seq(Nat), NEW b \in Seq(Nat)
  PROVE  /\ a \o b \in Seq(Nat)
         /\ Len(a) \in Nat /\ Len(b) \in Nat
         /\ Len(a \o b) = Len(a) + Len(b)
         /\ \A i \in 1..Len(a) : (a \o b)[i] = a[i]
         /\ \A i \in 1..Len(b) : (a \o b)[Len(a) + i] = b[i]
OBVIOUS

(* To be less it is enough to agree on the first n bytes and then to end,  *)
(* or to go on with a smaller byte.                                        *)
LEMMA BytesLessAt ==
  ASSUME NEW a \in Seq(Nat), NEW b \in Seq(Nat), NEW n \in Nat,
         n <= Len(a), n < Len(b), \A i \in 1..n : a[i] = b[i],
         n < Len(a) => a[n + 1] < b[n + 1]
  PROVE  BytesLess(a, b)
<1>1. Len(a) \in Nat /\ Len(b) \in Nat
  OBVIOUS
<1> QED BY <1>1 DEF BytesLess

(* bytes.Compare of a sequence with itself is never less.                  *)
LEMMA BytesLessIrreflexive == ASSUME NEW a \in Seq(Nat) PROVE ~ BytesLess(a, a)
BY DEF BytesLess

(* The first place where a differs from c is the first of the places where *)
(* a differs from b or b from c.                                           *)
LEMMA BytesLessTransitive ==
  ASSUME NEW a \in Seq(Nat), NEW b \in Seq(Nat), NEW c \in Seq(Nat),
         BytesLess(a, b), BytesLess(b, c)
  PROVE  BytesLess(a, c)
<1>1. PICK m \in 0..Len(a) :
        /\ m <= Len(b)
        /\ \A i \in 1..m : a[i] = b[i]
        /\ \/ m = Len(a) /\ m < Len(b)
           \/ m < Len(a) /\ m < Len(b) /\ a[m + 1] < b[m + 1]
  BY DEF BytesLess
<1>2. PICK n \in 0..Len(b) :
        /\ n <= Len(c)
        /\ \A i \in 1..n : b[i] = c[i]
        /\ \/ n = Len(b) /\ n < Len(c)
           \/ n < Len(b) /\ n < Len(c) /\ b[n + 1] < c[n + 1]
  BY DEF BytesLess
<1>3. Len(a) \in Nat /\ Len(b) \in Nat /\ Len(c) \in Nat
  OBVIOUS
<1>4. \A i \in 1..Len(a) : a[i] \in Nat
  BY ElementOfSeq
<1>5. \A i \in 1..Len(b) : b[i] \in Nat
  BY ElementOfSeq
<1>6. \A i \in 1..Len(c) : c[i] \in Nat
  BY ElementOfSeq
<1>7. CASE m <= n
  <2>1. m < Len(c) /\ \A i \in 1..m : a[i] = c[i]
    BY <1>1, <1>2, <1>3, <1>7
  <2>2. ASSUME m < Len(a)
        PROVE  a[m + 1] < c[m + 1]
    <3>1. a[m + 1] < b[m + 1] /\ m < Len(b)
      BY <1>1, <1>3, <2>2
    <3>2. b[m + 1] <= c[m + 1]
      <4>1. CASE m = n
        BY <1>2, <1>3, <1>5, <1>6, <2>1, <3>1, <4>1
      <4>2. CASE m < n
        BY <1>2, <1>3, <1>5, <2>1, <3>1, <4>2
      <4> QED BY <1>7, <4>1, <4>2
    <3> QED BY <1>3, <1>4, <1>5, <1>6, <2>1, <2>2, <3>1, <3>2
  <2> QED BY <1>1, <1>3, <2>1, <2>2, BytesLessAt
<1>8. CASE n < m
  <2>1. n < Len(a) /\ n < Len(c) /\ \A i \in 1..n : a[i] = c[i]
    BY <1>1, <1>2, <1>3, <1>8
  <2>2. a[n + 1] = b[n + 1] /\ b[n + 1] < c[n + 1]
    BY <1>1, <1>2, <1>3, <1>8
  <2> QED BY <1>3, <2>1, <2>2, BytesLessAt
<1> QED BY <1>1, <1>2, <1>7, <1>8

(* Two sequences that differ are ordered by their first difference, the    *)
(* least number at which they differ; without one, by their lengths.       *)
LEMMA BytesLessTotal ==
  ASSUME NEW a \in Seq(Nat), NEW b \in Seq(Nat), a # b
  PROVE  BytesLess(a, b) \/ BytesLess(b, a)
<1> DEFINE T == {n \in Nat : n < Len(a) /\ n < Len(b) /\ a[n + 1] # b[n + 1]}
<1>1. Len(a) \in Nat /\ Len(b) \in Nat
  OBVIOUS
<1>2. CASE T = {}
  <2>1. \A i \in 1..Len(a) : i <= Len(b) => a[i] = b[i]
    <3> SUFFICES ASSUME NEW i \in 1..Len(a), i <= Len(b), a[i] # b[i] PROVE FALSE
      OBVIOUS
    <3>1. i - 1 \in T
      BY <1>1
    <3> QED BY <1>2, <3>1
  <2>2. Len(a) # Len(b)
    BY <1>1, <2>1, SeqEqual
  <2> HIDE DEF T
  <2>3. CASE Len(a) < Len(b)
    <3>1. \A i \in 1..Len(a) : a[i] = b[i]
      BY <1>1, <2>1, <2>3
    <3> QED BY <1>1, <2>3, <3>1, BytesLessAt
  <2>4. CASE Len(b) < Len(a)
    <3>1. \A i \in 1..Len(b) : b[i] = a[i]
      BY <1>1, <2>1, <2>4
    <3>2. Len(b) \in Nat /\ Len(b) <= Len(b) /\ ~ (Len(b) < Len(b))
      BY <1>1
    <3>3. BytesLess(b, a)
      BY <2>4, <3>1, <3>2, BytesLessAt
    <3> QED BY <3>3
  <2> QED BY <1>1, <2>2, <2>3, <2>4
<1>3. CASE T # {}
  <2>1. PICK n \in T : \A m \in T : n <= m
    BY <1>3, LeastOf
  <2>2. \A i \in 1..n : a[i] = b[i]
    <3> SUFFICES ASSUME NEW i \in 1..n, a[i] # b[i] PROVE FALSE
      OBVIOUS
    <3>1. i - 1 \in T
      BY <1>1
    <3> QED BY <2>1, <3>1
  <2>3. a[n + 1] \in Nat /\ b[n + 1] \in Nat
    BY <1>1, ElementOfSeq
  <2>4. a[n + 1] < b[n + 1] \/ b[n + 1] < a[n + 1]
    BY <2>3
  <2>5. n \in 0..Len(a) /\ n \in 0..Len(b) /\ n < Len(a) /\ n < Len(b)
    BY <1>1
  <2> HIDE DEF T
  <2> QED BY <2>2, <2>4, <2>5 DEF BytesLess
<1> QED BY <1>2, <1>3

(* A timestamp begins with its second and is never empty.                  *)
LEMMA TimestampBytes ==
  ASSUME NEW t \in Nat
  PROVE  /\ Timestamp(t) \in Seq(Nat)
         /\ Len(Timestamp(t)) \in Nat
         /\ Len(Timestamp(t)) > 1
         /\ Timestamp(t)[1] = t \div 100
<1> DEFINE s == <<t \div 100>>  f == Fraction(t % 100)  z == <<Zulu>>
<1>1. t \div 100 \in Nat /\ t % 100 \in 0..99
  OBVIOUS
<1>2. (t % 100) \div 10 \in Nat /\ (t % 100) % 10 \in Nat
  BY <1>1
<1>3. s \in Seq(Nat) /\ Len(s) = 1 /\ s[1] = t \div 100
  BY <1>1
<1>4. f \in Seq(Nat)
  BY <1>2 DEF Fraction, Point, Digit
<1>5. z \in Seq(Nat) /\ Len(z) = 1
  BY DEF Zulu
<1> HIDE DEF s, f, z
<1>6. /\ s \o f \in Seq(Nat)
      /\ Len(f) \in Nat
      /\ Len(s \o f) = 1 + Len(f)
      /\ (s \o f)[1] = t \div 100
  <2>1. /\ s \o f \in Seq(Nat) /\ Len(f) \in Nat
        /\ Len(s \o f) = Len(s) + Len(f)
        /\ \A i \in 1..Len(s) : (s \o f)[i] = s[i]
    BY <1>3, <1>4, BytesConcat
  <2> QED BY <1>3, <2>1
<1>7. /\ (s \o f) \o z \in Seq(Nat)
      /\ Len((s \o f) \o z) = 2 + Len(f)
      /\ ((s \o f) \o z)[1] = t \div 100
  <2>1. /\ (s \o f) \o z \in Seq(Nat)
        /\ Len((s \o f) \o z) = Len(s \o f) + Len(z)
        /\ \A i \in 1..Len(s \o f) : ((s \o f) \o z)[i] = (s \o f)[i]
    BY <1>5, <1>6, BytesConcat
  <2> QED BY <1>5, <1>6, <2>1
<1> QED BY <1>6, <1>7 DEF Timestamp, s, f, z

(* A key is the timestamp, the separator and the id.                       *)
LEMMA KeyBytes ==
  ASSUME NEW t \in Nat, NEW id \in Nat
  PROVE  /\ makeTimeKey(t, id) \in Seq(Nat)
         /\ Len(makeTimeKey(t, id)) = Len(Timestamp(t)) + 2
         /\ \A i \in 1..Len(Timestamp(t)) : makeTimeKey(t, id)[i] = Timestamp(t)[i]
         /\ makeTimeKey(t, id)[Len(Timestamp(t)) + 2] = id
<1> DEFINE z == <<keySep, id>>
<1>1. z \in Seq(Nat) /\ Len(z) = 2 /\ z[2] = id
  BY DEF keySep
<1> HIDE DEF z
<1>2. Timestamp(t) \in Seq(Nat) /\ Len(Timestamp(t)) \in Nat
  BY TimestampBytes
<1>3. LET k == Timestamp(t) \o z IN
      /\ k \in Seq(Nat)
      /\ Len(k) = Len(Timestamp(t)) + Len(z)
      /\ \A i \in 1..Len(Timestamp(t)) : k[i] = Timestamp(t)[i]
      /\ \A i \in 1..Len(z) : k[Len(Timestamp(t)) + i] = z[i]
  BY <1>1, <1>2, BytesConcat
<1> QED BY <1>1, <1>2, <1>3 DEF makeTimeKey, z

(* RFC3339Nano's three forms of a fraction differ in length, and their     *)
(* digits are where they can be read back.                                 *)
LEMMA FractionBytes ==
  ASSUME NEW h \in 0..99
  PROVE  /\ h = 0 => Len(Fraction(h)) = 0
         /\ h # 0 => Len(Fraction(h)) # 0 /\ Fraction(h)[2] = 48 + (h \div 10)
         /\ h # 0 /\ h % 10 = 0 => Len(Fraction(h)) = 2
         /\ h # 0 /\ h % 10 # 0 => Len(Fraction(h)) = 3 /\ Fraction(h)[3] = 48 + (h % 10)
<1>1. CASE h = 0
  BY <1>1 DEF Fraction
<1>2. CASE h # 0 /\ h % 10 = 0
  <2>1. Fraction(h) = <<Point, Digit(h \div 10)>>
    BY <1>2 DEF Fraction
  <2> QED BY <1>2, <2>1 DEF Digit
<1>3. CASE h # 0 /\ h % 10 # 0
  <2>1. Fraction(h) = <<Point, Digit(h \div 10), Digit(h % 10)>>
    BY <1>3 DEF Fraction
  <2> QED BY <1>3, <2>1 DEF Digit
<1> QED BY <1>1, <1>2, <1>3

(* So the bytes tell the fraction,                                         *)
LEMMA FractionInjective ==
  ASSUME NEW f \in 0..99, NEW g \in 0..99, Fraction(f) = Fraction(g)
  PROVE  f = g
<1>1. f \div 10 \in Nat /\ f % 10 \in Nat /\ f = 10 * (f \div 10) + (f % 10)
  OBVIOUS
<1>2. g \div 10 \in Nat /\ g % 10 \in Nat /\ g = 10 * (g \div 10) + (g % 10)
  OBVIOUS
<1> DEFINE F == Fraction(f)
<1>3. /\ f = 0 => Len(F) = 0
      /\ f # 0 => Len(F) # 0 /\ F[2] = 48 + (f \div 10)
      /\ f # 0 /\ f % 10 = 0 => Len(F) = 2
      /\ f # 0 /\ f % 10 # 0 => Len(F) = 3 /\ F[3] = 48 + (f % 10)
  BY FractionBytes
<1>4. /\ g = 0 => Len(F) = 0
      /\ g # 0 => Len(F) # 0 /\ F[2] = 48 + (g \div 10)
      /\ g # 0 /\ g % 10 = 0 => Len(F) = 2
      /\ g # 0 /\ g % 10 # 0 => Len(F) = 3 /\ F[3] = 48 + (g % 10)
  <2>1. F = Fraction(g)
    OBVIOUS
  <2> HIDE DEF F
  <2> QED BY <2>1, FractionBytes
<1> HIDE DEF F
<1>5. f = 0 <=> g = 0
  BY <1>3, <1>4
<1>6. CASE f # 0
  <2>1. f \div 10 = g \div 10
    BY <1>1, <1>2, <1>3, <1>4, <1>5, <1>6
  <2>2. f % 10 = 0 <=> g % 10 = 0
    BY <1>3, <1>4, <1>5, <1>6
  <2>3. f % 10 = g % 10
    BY <1>1, <1>2, <1>3, <1>4, <1>5, <1>6, <2>2
  <2> QED BY <1>1, <1>2, <2>1, <2>3
<1> QED BY <1>5, <1>6

(* and the time,                                                           *)
LEMMA TimestampInjective ==
  ASSUME NEW t \in Nat, NEW u \in Nat, Timestamp(t) = Timestamp(u)
  PROVE  t = u
<1> DEFINE s == <<t \div 100>>  f == Fraction(t % 100)  g == Fraction(u % 100)  z == <<Zulu>>
<1>1. t \div 100 = u \div 100
  BY TimestampBytes
<1>2. s \in Seq(Nat) /\ z \in Seq(Nat)
  BY DEF Zulu
<1>3. \A v \in Nat : v % 100 \in 0..99 /\ v = 100 * (v \div 100) + (v % 100)
  OBVIOUS
<1>4. \A h \in 0..99 : Fraction(h) \in Seq(Nat)
  <2> TAKE h \in 0..99
  <2>1. h \div 10 \in Nat /\ h % 10 \in Nat
    OBVIOUS
  <2> QED BY <2>1 DEF Fraction, Point, Digit
<1>5. f \in Seq(Nat) /\ g \in Seq(Nat)
  BY <1>3, <1>4
<1>6. (s \o f) \o z = (s \o g) \o z
  BY <1>1 DEF Timestamp
<1> HIDE DEF s, f, g, z
<1>7. s \o f \in Seq(Nat) /\ s \o g \in Seq(Nat)
  BY <1>2, <1>5, BytesConcat
<1>8. s \o f = s \o g
  BY <1>2, <1>6, <1>7, ConcatSimplifications
<1>9. f = g
  BY <1>2, <1>5, <1>8, ConcatSimplifications
<1>10. t % 100 = u % 100
  BY <1>3, <1>9, FractionInjective DEF f, g
<1> QED BY <1>1, <1>3, <1>10

(* and a key tells its time and its id: no two records share one.          *)
LEMMA KeyInjective ==
  ASSUME NEW t \in Nat, NEW i \in Nat, NEW u \in Nat, NEW j \in Nat,
         makeTimeKey(t, i) = makeTimeKey(u, j)
  PROVE  t = u /\ i = j
<1>1. Len(Timestamp(t)) \in Nat /\ Len(Timestamp(u)) \in Nat
      /\ Timestamp(t) \in Seq(Nat) /\ Timestamp(u) \in Seq(Nat)
  BY TimestampBytes
<1>2. Len(Timestamp(t)) = Len(Timestamp(u))
  BY <1>1, KeyBytes
<1> DEFINE k == makeTimeKey(t, i)  m == Len(Timestamp(t))
<1>3. k[m + 2] = i /\ \A n \in 1..m : k[n] = Timestamp(t)[n]
  BY KeyBytes
<1>4. k[m + 2] = j /\ \A n \in 1..m : k[n] = Timestamp(u)[n]
  <2>1. LET l == makeTimeKey(u, j) IN
        l[Len(Timestamp(u)) + 2] = j /\ \A n \in 1..Len(Timestamp(u)) : l[n] = Timestamp(u)[n]
    BY KeyBytes
  <2> QED BY <1>2, <2>1
<1>5. Timestamp(t) = Timestamp(u)
  BY <1>1, <1>2, <1>3, <1>4, SeqEqual
<1> QED BY <1>3, <1>4, <1>5, TimestampInjective

(* Ascending returns the keys of an index in the cursor's order, and a set *)
(* of ids in theirs.                                                       *)
LEMMA KeysAscend ==
  ASSUME NEW S \in SUBSET (Nat \X Nat), IsFiniteSet(S)
  PROVE  /\ Ascending(S, KeyLess) \in SetToSeqs(S)
         /\ \A i, j \in DOMAIN Ascending(S, KeyLess) :
              i < j => KeyLess(Ascending(S, KeyLess)[i], Ascending(S, KeyLess)[j])
<1> DEFINE R == {p \in S \X S : KeyLess(p[1], p[2])}
           Key(k) == makeTimeKey(k[1], k[2])
<1>1. \A k \in S : Key(k) \in Seq(Nat)
  BY KeyBytes
<1>2. \A k, l \in S : <<k, l>> \in R <=> BytesLess(Key(k), Key(l))
  BY DEF KeyLess
<1>3. \A k, l \in S : k # l => Key(k) # Key(l)
  <2> SUFFICES ASSUME NEW k \in S, NEW l \in S, Key(k) = Key(l) PROVE k = l
    OBVIOUS
  <2>1. k = <<k[1], k[2]>> /\ l = <<l[1], l[2]>>
        /\ k[1] \in Nat /\ k[2] \in Nat /\ l[1] \in Nat /\ l[2] \in Nat
    OBVIOUS
  <2>2. k[1] = l[1] /\ k[2] = l[2]
    BY <2>1, KeyInjective
  <2> QED BY <2>1, <2>2
<1> HIDE DEF R, Key
<1>4. \A k \in S : <<k, k>> \notin R
  BY <1>1, <1>2, BytesLessIrreflexive
<1>5. \A k, l, m \in S : <<k, l>> \in R /\ <<l, m>> \in R => <<k, m>> \in R
  BY <1>1, <1>2, BytesLessTransitive
<1>6. \A k, l \in S : k # l => <<k, l>> \in R \/ <<l, k>> \in R
  BY <1>1, <1>2, <1>3, BytesLessTotal
<1>7. PICK seq \in SetToSeqs(S) : \A i, j \in DOMAIN seq : i < j => <<seq[i], seq[j]>> \in R
  BY <1>4, <1>5, <1>6, Enumeration DEF TotalOrder
<1>8. \A i, j \in DOMAIN seq : i < j => KeyLess(seq[i], seq[j])
  BY <1>7 DEF R
<1> QED BY <1>8 DEF Ascending

(* The ids of a status, ascending.                                         *)
LEMMA NumbersAscend ==
  ASSUME NEW S, S \subseteq Nat, IsFiniteSet(S)
  PROVE  Ascending(S, <) \in SetToSeqs(S)
<1> DEFINE R == {p \in S \X S : p[1] < p[2]}
<1>1. \A k, l \in S : <<k, l>> \in R <=> k < l
  OBVIOUS
<1> HIDE DEF R
<1>2. TotalOrder(R, S)
  BY <1>1 DEF TotalOrder
<1>3. PICK seq \in SetToSeqs(S) : \A i, j \in DOMAIN seq : i < j => <<seq[i], seq[j]>> \in R
  BY <1>2, Enumeration
<1>4. \A i, j \in DOMAIN seq : i < j => seq[i] < seq[j]
  <2>1. \A i \in DOMAIN seq : seq[i] \in S
    BY DEF SetToSeqs
  <2> QED BY <1>1, <1>3, <2>1
<1> QED BY <1>4 DEF Ascending

-----------------------------------------------------------------------------
(* The store is a map.                                                     *)

(* There is one key per record. *)
LEMMA KeysCount ==
  ASSUME NEW f, NEW D, IsFiniteSet(D)
  PROVE  IsFiniteSet(Keys(f, D)) /\ Cardinality(Keys(f, D)) = Cardinality(D)
<1> DEFINE key == [i \in D |-> <<f[i], i>>]
<1>1. key \in Bijection(D, Keys(f, D))
  BY DEF Bijection, Injection, Surjection, IsInjective, Keys
<1>2. ExistsBijection(D, Keys(f, D))
  BY <1>1 DEF ExistsBijection
<1> QED BY <1>2, FS_Bijection

(* At any time there are finitely many records.                            *)
LEMMA FiniteStore ==
  ASSUME StoreInv, NEW D, D \subseteq DOMAIN transfers
  PROVE  IsFiniteSet(D) /\ Cardinality(D) \in Nat /\ D \subseteq Nat
<1>1. D \in SUBSET IDs
  BY DEF StoreInv, TypeOK
<1> QED BY <1>1, IDsAssumption, FS_Subset, FS_CardinalityType

(* The ids whose time keys are among some entries of the index. *)
Found(E) == {i \in DOMAIN transfers : <<transfers[i].detectedAt, i>> \in E}

(* Entries of the time index are the keys of the records they lead to, one *)
(* each; none is skipped for want of a record.                             *)
LEMMA FoundKeys ==
  ASSUME StoreInv, NEW E, E \subseteq byTime
  PROVE  /\ E = Keys(TimeOf, Found(E))
         /\ \A i \in Found(E) : TimeOf[i] = transfers[i].detectedAt /\ TimeOf[i] \in Times
         /\ {k \in E : k[2] \in DOMAIN transfers} = E
         /\ E \in SUBSET (Nat \X Nat)
         /\ IsFiniteSet(E)
         /\ Cardinality(E) = Cardinality(Found(E))
<1>1. \A i \in Found(E) : TimeOf[i] = transfers[i].detectedAt /\ TimeOf[i] \in Times
  BY DEF Found, TimeOf, StoreInv, TypeOK, Recs
<1>2. E = Keys(TimeOf, Found(E))
  <2>1. byTime = Keys(TimeOf, DOMAIN transfers)
    BY IndexesAre DEF StoreInv
  <2> QED BY <1>1, <2>1 DEF Keys, Found, TimeOf
<1>3. \A k \in E : \E i \in Found(E) : k = <<TimeOf[i], i>>
  BY <1>2 DEF Keys
<1>4. {k \in E : k[2] \in DOMAIN transfers} = E
  <2>1. ASSUME NEW k \in E PROVE k[2] \in DOMAIN transfers
    <3>1. PICK i \in Found(E) : k = <<TimeOf[i], i>>
      BY <1>3
    <3> QED BY <3>1 DEF Found
  <2> QED BY <2>1
<1>5. E \in SUBSET (Nat \X Nat)
  <2>1. Times \subseteq Nat /\ Found(E) \subseteq Nat
    BY TimesAssumption, FiniteStore DEF Found
  <2>2. ASSUME NEW k \in E PROVE k \in Nat \X Nat
    <3>1. PICK i \in Found(E) : k = <<TimeOf[i], i>>
      BY <1>3
    <3> QED BY <1>1, <2>1, <3>1
  <2> QED BY <2>2
<1>6. IsFiniteSet(E) /\ Cardinality(E) = Cardinality(Found(E))
  <2>1. IsFiniteSet(Found(E))
    BY FiniteStore DEF Found
  <2> QED BY <1>2, <2>1, KeysCount
<1> QED BY <1>1, <1>2, <1>4, <1>5, <1>6

(* A walk lists the ids of its entries, each once, in the order of the     *)
(* keys.                                                                   *)
LEMMA WalkLists ==
  ASSUME StoreInv, NEW E, E \subseteq byTime
  PROVE  /\ Walk(E) \in [1..Cardinality(Found(E)) -> Found(E)]
         /\ Cardinality(Found(E)) \in Nat
         /\ Len(Walk(E)) = Cardinality(Found(E))
         /\ Walk(E) \in Seq(Found(E))
         /\ \A m, n \in 1..Cardinality(Found(E)) : m # n => Walk(E)[m] # Walk(E)[n]
         /\ \A m, n \in 1..Cardinality(Found(E)) : m < n =>
              KeyLess(<<transfers[Walk(E)[m]].detectedAt, Walk(E)[m]>>,
                      <<transfers[Walk(E)[n]].detectedAt, Walk(E)[n]>>)
<1> DEFINE N == Cardinality(Found(E))
           seq == Ascending(E, KeyLess)
<1>1. N \in Nat
  BY FiniteStore DEF Found
<1>2. seq \in SetToSeqs(E) /\ \A m, n \in DOMAIN seq : m < n => KeyLess(seq[m], seq[n])
  BY FoundKeys, KeysAscend
<1>3. /\ seq \in [1..N -> E]
      /\ \A m, n \in 1..N : m # n => seq[m] # seq[n]
      /\ \A m, n \in 1..N : m < n => KeyLess(seq[m], seq[n])
  <2>1. Cardinality(E) = N
    BY FoundKeys
  <2> HIDE DEF N, seq
  <2> QED BY <1>2, <2>1 DEF SetToSeqs
<1>4. Walk(E) = [n \in 1..N |-> seq[n][2]]
  <2>1. {k \in E : k[2] \in DOMAIN transfers} = E
    BY FoundKeys
  <2>2. Walk(E) = [n \in DOMAIN seq |-> seq[n][2]]
    BY <2>1 DEF Walk
  <2> HIDE DEF N, seq
  <2> QED BY <1>3, <2>2
<1> HIDE DEF N, seq
<1>5. \A k \in E : k[2] \in Found(E) /\ k = <<transfers[k[2]].detectedAt, k[2]>>
  <2>1. E = Keys(TimeOf, Found(E)) /\ \A i \in Found(E) : TimeOf[i] = transfers[i].detectedAt
    BY FoundKeys
  <2> QED BY <2>1 DEF Keys
<1>6. \A n \in 1..N : /\ Walk(E)[n] \in Found(E)
                      /\ seq[n] = <<transfers[Walk(E)[n]].detectedAt, Walk(E)[n]>>
  BY <1>3, <1>4, <1>5
<1>7. Walk(E) \in [1..N -> Found(E)]
  BY <1>4, <1>6
<1>8. Walk(E) \in Seq(Found(E)) /\ Len(Walk(E)) = N
  BY <1>1, <1>7, SeqDef, LenProperties
<1>9. \A m, n \in 1..N : m # n => Walk(E)[m] # Walk(E)[n]
  BY <1>3, <1>6
<1> QED BY <1>1, <1>3, <1>6, <1>7, <1>8, <1>9 DEF N

(* A smaller first byte decides, and a greater one forbids.                *)
LEMMA FirstByteOrders ==
  ASSUME NEW a \in Seq(Nat), NEW b \in Seq(Nat), Len(a) > 0, Len(b) > 0
  PROVE  /\ a[1] < b[1] => BytesLess(a, b)
         /\ BytesLess(a, b) => a[1] <= b[1]
<1>1. Len(a) \in Nat /\ Len(b) \in Nat /\ a[1] \in Nat /\ b[1] \in Nat
  BY ElementOfSeq
<1>2. ASSUME a[1] < b[1] PROVE BytesLess(a, b)
  <2>1. \A i \in 1..0 : a[i] = b[i]
    OBVIOUS
  <2>2. a[0 + 1] < b[0 + 1]
    BY <1>2
  <2> QED BY <1>1, <2>1, <2>2, BytesLessAt
<1>3. ASSUME BytesLess(a, b) PROVE a[1] <= b[1]
  <2>1. PICK n \in 0..Len(a) :
          /\ n <= Len(b)
          /\ \A i \in 1..n : a[i] = b[i]
          /\ \/ n = Len(a) /\ n < Len(b)
             \/ n < Len(a) /\ n < Len(b) /\ a[n + 1] < b[n + 1]
    BY <1>3 DEF BytesLess
  <2>2. CASE n = 0
    BY <1>1, <2>1, <2>2
  <2>3. CASE n # 0
    BY <1>1, <2>1, <2>3
  <2> QED BY <2>2, <2>3
<1> QED BY <1>2, <1>3

(* A key begins with its timestamp.                                        *)
LEMMA KeyBeginsWithTimestamp ==
  ASSUME NEW t \in Nat, NEW i \in Nat
  PROVE  /\ Len(makeTimeKey(t, i)) > 0
         /\ makeTimeKey(t, i)[1] = t \div 100
         /\ BytesLess(Timestamp(t), makeTimeKey(t, i))
<1> DEFINE A == Timestamp(t)  k == makeTimeKey(t, i)
<1>1. A \in Seq(Nat) /\ Len(A) \in Nat /\ Len(A) > 1 /\ A[1] = t \div 100
  BY TimestampBytes
<1>2. k \in Seq(Nat) /\ Len(k) = Len(A) + 2 /\ \A n \in 1..Len(A) : k[n] = A[n]
  BY KeyBytes
<1> HIDE DEF A, k
<1>3. Len(k) > 0 /\ 1 \in 1..Len(A)
  BY <1>1, <1>2
<1>4. k[1] = t \div 100
  BY <1>1, <1>2, <1>3
<1>5. BytesLess(A, k)
  <2>1. Len(A) <= Len(A) /\ ~ (Len(A) < Len(A)) /\ Len(A) < Len(k)
    BY <1>1, <1>2
  <2>2. \A n \in 1..Len(A) : A[n] = k[n]
    BY <1>2
  <2> QED BY <1>1, <1>2, <2>1, <2>2, BytesLessAt
<1> QED BY <1>3, <1>4, <1>5 DEF A, k

(* Whatever RFC3339Nano does to the fraction, the bytes of keys order as   *)
(* their seconds do, against each other and against the bounds of a range; *)
(* and a bound lies before the keys of its own instant.                    *)
LEMMA KeysFollowSeconds ==
  ASSUME NEW t \in Nat, NEW u \in Nat, NEW i \in Nat, NEW j \in Nat
  PROVE  /\ BytesLess(makeTimeKey(t, i), makeTimeKey(u, j)) => t \div 100 <= u \div 100
         /\ BytesAtMost(Timestamp(t), makeTimeKey(u, j)) => t \div 100 <= u \div 100
         /\ BytesAtMost(Timestamp(t), Timestamp(u)) => t \div 100 <= u \div 100
         /\ t = u \/ t \div 100 < u \div 100 => BytesAtMost(Timestamp(t), makeTimeKey(u, j))
         /\ t = u \/ t \div 100 < u \div 100 => BytesAtMost(Timestamp(t), Timestamp(u))
<1> DEFINE A == Timestamp(t)  B == Timestamp(u)  a == makeTimeKey(t, i)  b == makeTimeKey(u, j)
<1>1. t \div 100 \in Nat /\ u \div 100 \in Nat
  OBVIOUS
<1>2. /\ A \in Seq(Nat) /\ Len(A) > 0 /\ A[1] = t \div 100
      /\ B \in Seq(Nat) /\ Len(B) > 0 /\ B[1] = u \div 100
  <2>1. A \in Seq(Nat) /\ Len(A) \in Nat /\ Len(A) > 1 /\ A[1] = t \div 100
    BY TimestampBytes
  <2>2. B \in Seq(Nat) /\ Len(B) \in Nat /\ Len(B) > 1 /\ B[1] = u \div 100
    BY TimestampBytes
  <2> HIDE DEF A, B
  <2> QED BY <2>1, <2>2
<1>3. /\ a \in Seq(Nat) /\ Len(a) > 0 /\ a[1] = t \div 100
      /\ b \in Seq(Nat) /\ Len(b) > 0 /\ b[1] = u \div 100
  BY KeyBytes, KeyBeginsWithTimestamp
<1>4. t = u => BytesLess(A, b) /\ A = B
  BY KeyBeginsWithTimestamp
<1> HIDE DEF A, B, a, b
<1>5. /\ BytesLess(a, b) => t \div 100 <= u \div 100
      /\ BytesLess(A, b) => t \div 100 <= u \div 100
      /\ BytesLess(A, B) => t \div 100 <= u \div 100
  BY <1>2, <1>3, FirstByteOrders
<1>6. A = b \/ A = B => t \div 100 <= u \div 100
  BY <1>1, <1>2, <1>3
<1>7. t \div 100 < u \div 100 => BytesLess(A, b) /\ BytesLess(A, B)
  BY <1>2, <1>3, FirstByteOrders
<1> QED BY <1>4, <1>5, <1>6, <1>7 DEF BytesAtMost, A, B, a, b

(* The cardinality the map counts with is the one the store counts with.   *)
LEMMA SameCardinality == ASSUME NEW S PROVE Map!Cardinality(S) = Cardinality(S)
BY Zenon DEF Cardinality, Map!Cardinality

(* A walk is one of the orders the map may list its records in.            *)
LEMMA WalkInTimeOrder ==
  ASSUME StoreInv, NEW E, E \subseteq byTime
  PROVE  Walk(E) \in Map!Orders(Found(E))
<1> DEFINE N == Cardinality(Found(E))
           ids == Walk(E)
<1>1. /\ ids \in [1..N -> Found(E)]
      /\ Len(ids) = N
      /\ \A m, n \in 1..N : m # n => ids[m] # ids[n]
      /\ \A m, n \in 1..N : m < n =>
           KeyLess(<<transfers[ids[m]].detectedAt, ids[m]>>,
                   <<transfers[ids[n]].detectedAt, ids[n]>>)
  BY WalkLists
<1>2. \A i \in Found(E) : transfers[i].detectedAt \in Nat /\ i \in Nat
  BY FoundKeys, FiniteStore, TimesAssumption DEF Found
<1> HIDE DEF N, ids
<1>3. ASSUME NEW m \in 1..N, NEW n \in 1..N, m < n
      PROVE  transfers[ids[m]].detectedAt \div 100 <= transfers[ids[n]].detectedAt \div 100
  <2> DEFINE t == transfers[ids[m]].detectedAt  u == transfers[ids[n]].detectedAt
  <2>1. t \in Nat /\ u \in Nat /\ ids[m] \in Nat /\ ids[n] \in Nat
    BY <1>1, <1>2
  <2>2. BytesLess(makeTimeKey(t, ids[m]), makeTimeKey(u, ids[n]))
    BY <1>1, <1>3 DEF KeyLess
  <2> HIDE DEF t, u
  <2>3. t \div 100 <= u \div 100
    BY <2>1, <2>2, KeysFollowSeconds
  <2> QED BY <2>3 DEF t, u
<1>4. Map!InTimeOrder(ids)
  BY <1>1, <1>3 DEF Map!InTimeOrder, Map!Second
<1> QED BY <1>1, <1>4, SameCardinality DEF Map!Orders, N, ids

(* An empty store is an empty map.                                         *)
LEMMA MapInit == Init => Map!Init
BY DEF Init, Map!Init

(* The transactions that write records. *)
LEMMA MapWrites ==
  ASSUME NEW id \in IDs
  PROVE  /\ \A rec \in Recs : Create(id, rec) => Map!Create(id, rec)
         /\ \A rec \in Recs : Update(id, rec) => Map!Update(id, rec)
         /\ \A s \in Status : UpdateStatus(id, s) => Map!UpdateStatus(id, s)
         /\ Delete(id) => Map!Delete(id)
         /\ RollBack => Map!Fail
<1>1. ASSUME NEW rec \in Recs, Create(id, rec) PROVE Map!Create(id, rec)
  BY <1>1 DEF Create, Store, Return, buckets, Map!Create, Map!With, Map!Error
<1>2. ASSUME NEW rec \in Recs, Update(id, rec) PROVE Map!Update(id, rec)
  BY <1>2 DEF Update, NotFound, Store, Return, buckets, Map!Update, Map!With, Map!Error
<1>3. ASSUME NEW s \in Status, UpdateStatus(id, s) PROVE Map!UpdateStatus(id, s)
  BY <1>3 DEF UpdateStatus, NotFound, Store, Return, buckets, Map!UpdateStatus, Map!With, Map!Error
<1>4. ASSUME Delete(id) PROVE Map!Delete(id)
  BY <1>4 DEF Delete, NotFound, Return, buckets, Map!Delete, Map!Without, Map!Error
<1>5. ASSUME RollBack PROVE Map!Fail
  BY <1>5 DEF RollBack, Return, buckets, Map!Fail, Map!Error
<1> QED BY <1>1, <1>2, <1>3, <1>4, <1>5

(* Through the status index the queries find the records of that status. *)
LEMMA StatusKeys ==
  ASSUME StoreInv, NEW s
  PROVE  LET has == {i \in DOMAIN transfers : transfers[i].status = s} IN
         /\ {i \in DOMAIN transfers : <<s, i>> \in byStatus} = has
         /\ Cardinality({k \in byStatus : k[1] = s}) = Cardinality(has)
         /\ {k[1] : k \in byStatus} = {transfers[i].status : i \in DOMAIN transfers}
<1> DEFINE has == {i \in DOMAIN transfers : transfers[i].status = s}
<1>1. byStatus = {<<transfers[i].status, i>> : i \in DOMAIN transfers}
  BY DEF StoreInv, IndexesExact
<1>2. {i \in DOMAIN transfers : <<s, i>> \in byStatus} = has
  BY <1>1
<1>3. {k \in byStatus : k[1] = s} = Keys(StatusOf, has)
  <2>1. ASSUME NEW k \in byStatus, k[1] = s PROVE k \in Keys(StatusOf, has)
    <3>1. PICK i \in DOMAIN transfers : k = <<transfers[i].status, i>>
      BY <1>1
    <3> QED BY <2>1, <3>1 DEF Keys, StatusOf
  <2>2. ASSUME NEW k \in Keys(StatusOf, has) PROVE k \in byStatus /\ k[1] = s
    BY <1>1 DEF Keys, StatusOf
  <2> QED BY <2>1, <2>2
<1>4. IsFiniteSet(has)
  BY FiniteStore
<1>5. Cardinality({k \in byStatus : k[1] = s}) = Cardinality(has)
  BY <1>3, <1>4, KeysCount
<1>6. {k[1] : k \in byStatus} = {transfers[i].status : i \in DOMAIN transfers}
  <2>1. ASSUME NEW k \in byStatus PROVE \E i \in DOMAIN transfers : k[1] = transfers[i].status
    <3>1. PICK i \in DOMAIN transfers : k = <<transfers[i].status, i>>
      BY <1>1
    <3> QED BY <3>1
  <2>2. ASSUME NEW i \in DOMAIN transfers PROVE \E k \in byStatus : k[1] = transfers[i].status
    <3> DEFINE k == <<transfers[i].status, i>>
    <3>1. k \in byStatus /\ k[1] = transfers[i].status
      BY <1>1
    <3> QED BY <3>1
  <2> QED BY <2>1, <2>2
<1> QED BY <1>2, <1>5, <1>6

(* The queries. *)
LEMMA MapGetByStatus ==
  ASSUME StoreInv, NEW s \in Status, GetByStatus(s)
  PROVE  Map!GetByStatus(s)
BY StatusKeys DEF GetByStatus, buckets, Map!GetByStatus

(* The counts read from the status index are those of the records.         *)
LEMMA MapCountByStatus ==
  ASSUME StoreInv, CountByStatus
  PROVE  Map!CountByStatus
<1> DEFINE used == {transfers[i].status : i \in DOMAIN transfers}
           count(s) == Cardinality({i \in DOMAIN transfers : transfers[i].status = s})
<1>1. {k[1] : k \in byStatus} = used
  BY StatusKeys
<1>2. \A s : Cardinality({k \in byStatus : k[1] = s}) = count(s)
  BY StatusKeys
<1>3. reply' = [counts |-> [s \in used |-> count(s)]] /\ UNCHANGED transfers
  BY <1>1, <1>2 DEF CountByStatus, buckets
<1>4. \A s : Map!Cardinality({i \in DOMAIN transfers : transfers[i].status = s}) = count(s)
  BY SameCardinality
<1> QED BY <1>3, <1>4 DEF Map!CountByStatus

(* The first entries of the time index are the earliest records.           *)
LEMMA MapListByTime ==
  ASSUME StoreInv, NEW limit, ListByTime(limit)
  PROVE  Map!ListByTime(limit)
<1> DEFINE ids == Walk(byTime)
<1>1. Found(byTime) = DOMAIN transfers
  BY DEF Found, StoreInv, IndexesExact
<1>2. ids \in Map!Orders(DOMAIN transfers)
  BY <1>1, WalkInTimeOrder
<1>3. reply' = [list |-> IF limit = 0 \/ limit >= Len(ids) THEN ids ELSE SubSeq(ids, 1, limit)]
  BY DEF ListByTime
<1>4. UNCHANGED transfers
  BY DEF ListByTime, buckets
<1> HIDE DEF ids
<1> QED BY <1>2, <1>3, <1>4 DEF Map!ListByTime

(* From Seek(start) to the first timestamp beyond end the cursor meets     *)
(* records of the seconds in between only, and misses at most some of the  *)
(* first and of the last second.                                           *)
LEMMA MapListByTimeRange ==
  ASSUME StoreInv, NEW start \in Times, NEW end \in Times, ListByTimeRange(start, end)
  PROVE  Map!ListByTimeRange(start, end)
<1> DEFINE in == {k \in byTime :
                    /\ BytesAtMost(Timestamp(start), makeTimeKey(k[1], k[2]))
                    /\ BytesAtMost(Timestamp(k[1]), Timestamp(end))}
           missed == Map!Spanned(start, end) \ Found(in)
<1>1. start \in Nat /\ end \in Nat
  BY TimesAssumption
<1>2. ASSUME NEW i \in DOMAIN transfers
      PROVE  /\ i \in Found(in) => i \in Map!Spanned(start, end)
             /\ i \in missed => i \in Map!Doubtful(start, end)
  <2> DEFINE t == transfers[i].detectedAt
  <2>1. <<t, i>> \in byTime /\ t \in Nat /\ i \in Nat
    BY FiniteStore, TimesAssumption DEF StoreInv, IndexesExact, TypeOK, Recs
  <2>2. i \in Found(in) <=> /\ BytesAtMost(Timestamp(start), makeTimeKey(t, i))
                            /\ BytesAtMost(Timestamp(t), Timestamp(end))
    BY <2>1 DEF Found
  <2>3. i \in Map!Spanned(start, end) <=>
          start \div 100 <= t \div 100 /\ t \div 100 <= end \div 100
    BY <1>1, <2>1 DEF Map!Spanned, Map!Second
  <2>4. i \in Map!Doubtful(start, end) <=>
          /\ i \in Map!Spanned(start, end)
          /\ \/ t \div 100 = start \div 100 /\ t # start
             \/ t \div 100 = end \div 100 /\ t # end
    BY DEF Map!Doubtful, Map!Second
  <2>5. /\ BytesAtMost(Timestamp(start), makeTimeKey(t, i)) => start \div 100 <= t \div 100
        /\ BytesAtMost(Timestamp(t), Timestamp(end)) => t \div 100 <= end \div 100
        /\ start = t \/ start \div 100 < t \div 100 =>
             BytesAtMost(Timestamp(start), makeTimeKey(t, i))
        /\ t = end \/ t \div 100 < end \div 100 => BytesAtMost(Timestamp(t), Timestamp(end))
    BY <1>1, <2>1, KeysFollowSeconds
  <2>6. start \div 100 \in Nat /\ end \div 100 \in Nat /\ t \div 100 \in Nat
    BY <1>1, <2>1
  <2> HIDE DEF in, t
  <2> QED BY <2>2, <2>3, <2>4, <2>5, <2>6
<1>3. in \subseteq byTime /\ reply' = [list |-> Walk(in)] /\ UNCHANGED transfers
  BY DEF ListByTimeRange, buckets
<1>4. Found(in) \subseteq DOMAIN transfers /\ Map!Spanned(start, end) \subseteq DOMAIN transfers
  BY DEF Found, Map!Spanned
<1> HIDE DEF in
<1>5. missed \in SUBSET Map!Doubtful(start, end)
  BY <1>2, <1>4
<1>6. Found(in) = Map!Spanned(start, end) \ missed
  BY <1>2, <1>4
<1>7. Walk(in) \in Map!Orders(Map!Spanned(start, end) \ missed)
  BY <1>3, <1>6, WalkInTimeOrder
<1> HIDE DEF missed
<1> QED BY <1>3, <1>5, <1>7 DEF Map!ListByTimeRange

(* Every step of the store is a step of the map or leaves it alone.        *)
LEMMA MapNext ==
  ASSUME StoreInv, [Next]_vars
  PROVE  [Map!Next]_(Map!vars)
<1>1. ASSUME NEW id \in IDs, NEW rec \in Recs, Create(id, rec) \/ Update(id, rec)
      PROVE  Map!Next
  <2>1. Recs = Map!Recs
    BY DEF Recs, Map!Recs
  <2> QED BY <1>1, <2>1, MapWrites DEF Map!Next
<1>2. ASSUME NEW id \in IDs, NEW s \in Status, UpdateStatus(id, s)
      PROVE  Map!Next
  BY <1>2, MapWrites DEF Map!Next
<1>3. ASSUME NEW id \in IDs, Delete(id)
      PROVE  Map!Next
  BY <1>3, MapWrites DEF Map!Next
<1>4. ASSUME NEW s \in Status, GetByStatus(s)
      PROVE  Map!Next
  BY <1>4, MapGetByStatus DEF Map!Next
<1>5. ASSUME NEW limit \in 0..Cardinality(IDs), ListByTime(limit)
      PROVE  Map!Next
  BY <1>5, MapListByTime, SameCardinality DEF Map!Next
<1>6. ASSUME NEW start \in Times, NEW end \in Times, ListByTimeRange(start, end)
      PROVE  Map!Next
  BY <1>6, MapListByTimeRange DEF Map!Next
<1>7. CASE CountByStatus
  BY <1>7, MapCountByStatus DEF Map!Next
<1>8. CASE RollBack
  BY <1>8 DEF RollBack, Return, buckets, Map!Next, Map!Fail, Map!Error
<1>9. CASE UNCHANGED vars
  BY <1>9 DEF vars, Map!vars
<1> QED BY <1>1, <1>2, <1>3, <1>4, <1>5, <1>6, <1>7, <1>8, <1>9 DEF Next

(* No caller can tell the three buckets from one map: every transaction is *)
(* one of the map's, and every query answers what the map would, in the    *)
(* order of the seconds the records were detected in, however many are     *)
(* detected in one second.                                                 *)
THEOREM StoreImplementsMap == Spec => ImplementsMap
<1>1. Init => Map!Init
  BY MapInit
<1>2. StoreInv /\ [Next]_vars => [Map!Next]_(Map!vars)
  BY MapNext
<1> QED BY <1>1, <1>2, StoreInit, StoreNext, PTL DEF Spec, ImplementsMap, Map!Spec

=============================================================================
