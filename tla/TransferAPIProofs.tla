--------------------------- MODULE TransferAPIProofs ---------------------------
(***************************************************************************)
(* The HTTP handlers leave the store what it is, and answer what the       *)
(* records say, for every set of ids, statuses, times and limits.          *)
(***************************************************************************)
EXTENDS TransferAPI, TransferStoreProofs

(* Folding the counts of some keys by their first part counts the keys.    *)
LEMMA CountsAddUp ==
  ASSUME NEW K, IsFiniteSet(K), NEW f, IsFiniteSet(DOMAIN f),
         \A k \in K : k[1] \in DOMAIN f,
         \A s \in DOMAIN f : f[s] = Cardinality({k \in K : k[1] = s})
  PROVE  FoldFunction(+, 0, f) = Cardinality(K)
<1> DEFINE D == DOMAIN f
           pick(s) == CHOOSE x \in s : TRUE
           With(s) == {k \in K : k[1] \in s}
           Body(h) == [s \in SUBSET D |-> IF s = {} THEN 0 ELSE f[pick(s)] + h[s \ {pick(s)}]]
           g == [s \in SUBSET D |-> Cardinality(With(s))]
           h == CHOOSE h : h = Body(h)
<1>1. FoldFunction(+, 0, f) = h[D]
  BY Zenon DEF FoldFunction, FoldFunctionOnSet, MapThenFoldSet
<1>2. \A s : IsFiniteSet(With(s)) /\ Cardinality(With(s)) \in Nat
  <2> TAKE s
  <2>1. With(s) \in SUBSET K
    OBVIOUS
  <2> QED BY <2>1, FS_Subset, FS_CardinalityType
<1>3. ASSUME NEW s \in SUBSET D, s # {}
      PROVE  /\ pick(s) \in s
             /\ Cardinality(With(s)) = f[pick(s)] + Cardinality(With(s \ {pick(s)}))
  <2> DEFINE x == pick(s)  one == {k \in K : k[1] = x}
  <2>1. x \in s /\ x \in D
    BY <1>3
  <2> HIDE DEF x
  <2>2. one = With({x}) /\ f[x] = Cardinality(one)
    BY <2>1
  <2>3. With(s) = one \cup With(s \ {x}) /\ one \cap With(s \ {x}) = {}
    BY <2>1
  <2>4. IsFiniteSet(one) /\ Cardinality(one) \in Nat
    BY <1>2, <2>2
  <2>5. IsFiniteSet(With(s \ {x})) /\ Cardinality(With(s \ {x})) \in Nat
    BY <1>2
  <2> HIDE DEF one, With
  <2>6. Cardinality(With(s)) = Cardinality(one) + Cardinality(With(s \ {x})) - Cardinality({})
    <3> DEFINE rest == With(s \ {x})
    <3>1. Cardinality(one \cup rest)
            = Cardinality(one) + Cardinality(rest) - Cardinality(one \cap rest)
      <4> HIDE DEF rest
      <4> QED BY <2>4, <2>5, FS_Union DEF rest
    <3> QED BY <2>3, <3>1
  <2>7. Cardinality({}) = 0
    BY FS_EmptySet
  <2>8. Cardinality(With(s)) = f[x] + Cardinality(With(s \ {x}))
    BY <2>2, <2>4, <2>5, <2>6, <2>7
  <2> QED BY <2>1, <2>8 DEF x
<1>4. With({}) = {} /\ Cardinality(With({})) = 0
  BY FS_EmptySet
<1>5. With(D) = K
  OBVIOUS
<1> HIDE DEF pick, With
<1>6. g = Body(g)
  <2>1. ASSUME NEW s \in SUBSET D
        PROVE  Cardinality(With(s)) = IF s = {} THEN 0 ELSE f[pick(s)] + g[s \ {pick(s)}]
    BY <1>3, <1>4
  <2> QED BY <2>1
<1>7. h = Body(h)
  <2> HIDE DEF g, Body
  <2> QED BY <1>6
<1> HIDE DEF h
<1>8. \A s \in SUBSET D : h[s] = IF s = {} THEN 0 ELSE f[pick(s)] + h[s \ {pick(s)}]
  BY <1>7
<1> HIDE DEF Body
<1>9. \A s \in SUBSET D : IsFiniteSet(s) /\ Cardinality(s) \in Nat
  BY FS_Subset, FS_CardinalityType
<1>10. \A s \in SUBSET D : h[s] = Cardinality(With(s))
  <2> DEFINE bad == {s \in SUBSET D : h[s] # Cardinality(With(s))}
             sizes == {Cardinality(s) : s \in bad}
  <2> SUFFICES ASSUME bad # {} PROVE FALSE
    OBVIOUS
  <2>1. sizes \in SUBSET Nat /\ sizes # {}
    BY <1>9
  <2>2. PICK n \in sizes : \A m \in sizes : n <= m
    <3> HIDE DEF sizes
    <3> QED BY <2>1, LeastOf
  <2>3. PICK s \in bad : Cardinality(s) = n
    OBVIOUS
  <2>4. s \in SUBSET D /\ s # {}
    BY <1>4, <1>8
  <2> DEFINE t == s \ {pick(s)}
  <2>5. t \in SUBSET D /\ Cardinality(t) = Cardinality(s) - 1
    BY <1>3, <1>9, <2>4, FS_RemoveElement
  <2>6. t \notin bad
    <3>1. ASSUME t \in bad PROVE n <= Cardinality(t)
      BY <2>2, <3>1
    <3>2. ~ (n <= Cardinality(t))
      BY <1>9, <2>3, <2>4, <2>5
    <3> QED BY <3>1, <3>2
  <2>7. h[t] = Cardinality(With(t))
    BY <2>5, <2>6
  <2> QED BY <1>3, <1>8, <2>4, <2>7
<1> QED BY <1>1, <1>5, <1>10

(* A page of a listing: so many ids as were asked for or there are, each   *)
(* once.                                                                   *)
IsPage(list, ids, limit) ==
  /\ Cardinality(ToSet(list)) = Len(list)
  /\ ToSet(list) \subseteq ids
  /\ Len(list) = Min({limit, Cardinality(ids)})

(* The least of two numbers.                                               *)
LEMMA MinOfTwo ==
  ASSUME NEW a \in Nat, NEW b \in Nat
  PROVE  Min({a, b}) = IF a <= b THEN a ELSE b
<1> DEFINE m == IF a <= b THEN a ELSE b
<1>1. m \in {a, b} /\ \A y \in {a, b} : m <= y
  OBVIOUS
<1>2. \A x \in {a, b} : (\A y \in {a, b} : x <= y) => x = m
  OBVIOUS
<1> HIDE DEF m
<1>3. Min({a, b}) = m
  BY <1>1, <1>2 DEF Min
<1> QED BY <1>3 DEF m

(* The beginning of a list of all the ids is a page of them.               *)
LEMMA PageOf ==
  ASSUME NEW ids, IsFiniteSet(ids), NEW limit \in Nat, limit >= 1,
         NEW seq \in [1..Cardinality(ids) -> ids],
         \A m, n \in 1..Cardinality(ids) : m # n => seq[m] # seq[n]
  PROVE  /\ Len(seq) = Cardinality(ids)
         /\ \A m \in Nat : m = Min({limit, Cardinality(ids)}) => IsPage(SubSeq(seq, 1, m), ids, limit)
         /\ limit >= Cardinality(ids) => IsPage(seq, ids, limit)
<1> DEFINE N == Cardinality(ids)
<1>1. N \in Nat
  BY FS_CardinalityType
<1>2. seq \in Seq(ids) /\ Len(seq) = N
  BY <1>1, SeqDef, LenProperties
<1>3. ASSUME NEW m \in Nat, m = Min({limit, N})
      PROVE  IsPage(SubSeq(seq, 1, m), ids, limit)
  <2> DEFINE list == SubSeq(seq, 1, m)
  <2>1. m <= N
    BY <1>1, <1>3, MinOfTwo
  <2>2. \A i \in 1..m : seq[i] \in ids
    BY <1>1, <2>1
  <2>3. list \in Seq(ids) /\ Len(list) = m /\ \A i \in 1..m : list[i] = seq[i]
    <3>1. /\ list \in Seq(ids)
          /\ Len(list) = IF 1 <= m THEN m - 1 + 1 ELSE 0
          /\ \A i \in 1 .. m - 1 + 1 : list[i] = seq[1 + i - 1]
      BY <2>2, SubSeqProperties
    <3> QED BY <3>1
  <2> HIDE DEF list
  <2>4. DOMAIN list = 1..m
    BY <2>3, LenProperties
  <2>5. ToSet(list) \subseteq ids
    BY <2>2, <2>3, <2>4 DEF ToSet
  <2>6. list \in Bijection(1..m, ToSet(list))
    <3>1. list \in [1..m -> ToSet(list)]
      BY <2>3, <2>4, LenProperties DEF ToSet
    <3>2. \A i, j \in 1..m : list[i] = list[j] => i = j
      BY <1>1, <2>1, <2>3
    <3>3. \A x \in ToSet(list) : \E i \in 1..m : list[i] = x
      BY <2>4 DEF ToSet
    <3> QED BY <3>1, <3>2, <3>3 DEF Bijection, Injection, Surjection, IsInjective
  <2>7. IsFiniteSet(1..m) /\ Cardinality(1..m) = m
    BY FS_Interval
  <2>8. Cardinality(ToSet(list)) = m
    BY <2>6, <2>7, FS_Bijection DEF ExistsBijection
  <2> QED BY <1>3, <2>3, <2>5, <2>8 DEF IsPage, list
<1>4. ASSUME limit >= N
      PROVE  IsPage(seq, ids, limit)
  <2>1. N = Min({limit, N})
    BY <1>1, <1>4, MinOfTwo
  <2>2. SubSeq(seq, 1, N) = seq
    BY <1>2, SubSeqFull
  <2> QED BY <1>1, <1>3, <2>1, <2>2
<1> QED BY <1>2, <1>3, <1>4

(* The part of the property about each kind of answer. *)
ListMatches ==
  "list" \in DOMAIN answer => IsPage(answer.list, HasStatus(answer.status), answer.limit)
TotalMatches ==
  "total" \in DOMAIN answer =>
    /\ answer.total = Cardinality(DOMAIN transfers)
    /\ \A s \in DOMAIN answer.byStatus : answer.byStatus[s] = Cardinality(HasStatus(s))
GaugeMatches ==
  "gauge" \in DOMAIN answer => answer.gauge = Cardinality(HasStatus("PENDING"))

(* An answer that only carries a code, or a record, states nothing more.   *)
LEMMA PlainAnswer ==
  ASSUME \/ \E code : answer' = [code |-> code]
         \/ \E code, id, record : answer' = [code |-> code, id |-> id, record |-> record]
  PROVE  AnswersMatchRecords'
BY DEF AnswersMatchRecords

(* The records of a status; those of the absent one are all.               *)
LEMMA HasStatusIs ==
  ASSUME StoreInv
  PROVE  /\ HasStatus(Absent) = DOMAIN transfers
         /\ \A s : s # Absent => HasStatus(s) = {i \in DOMAIN transfers : transfers[i].status = s}
         /\ \A s : IsFiniteSet(HasStatus(s)) /\ Cardinality(HasStatus(s)) \in Nat
BY FiniteStore DEF HasStatus

(* No request ends up with limit 0, which the store takes for no limit.    *)
LEMMA LimitsArePositive == \A limit \in Limits : limit \in Nat /\ limit >= 1
<1>1. \A asked \in 1..MaxAsked :
        Min({asked, MaxLimit}) = IF asked <= MaxLimit THEN asked ELSE MaxLimit
  BY LimitsAssumption, MinOfTwo
<1>2. DefaultLimit \in Nat /\ DefaultLimit >= 1 /\ MaxLimit \in Nat /\ MaxLimit >= 1
  BY LimitsAssumption
<1>3. ASSUME NEW asked \in 1..MaxAsked
      PROVE  Min({asked, MaxLimit}) \in Nat /\ Min({asked, MaxLimit}) >= 1
  BY <1>1, <1>2, <1>3, LimitsAssumption
<1> QED BY <1>2, <1>3 DEF Limits

(* A page of all records comes off the time index.                         *)
LEMMA ListAllMatches ==
  ASSUME StoreInv, NEW limit \in Limits, ListAll(limit)
  PROVE  AnswersMatchRecords'
<1> DEFINE ids == DOMAIN transfers
           seq == Walk(byTime)
           N == Cardinality(ids)
<1>1. Found(byTime) = ids
  BY DEF Found, StoreInv, IndexesExact
<1>2. /\ seq \in [1..N -> ids]
      /\ N \in Nat
      /\ Len(seq) = N
      /\ \A m, n \in 1..N : m # n => seq[m] # seq[n]
  BY <1>1, WalkLists
<1>3. limit \in Nat /\ limit >= 1 /\ IsFiniteSet(ids)
  BY LimitsArePositive, FiniteStore
<1>4. /\ answer' = [code |-> 200, status |-> Absent, limit |-> limit, list |-> reply'.list]
      /\ reply' = [list |-> IF limit = 0 \/ limit >= Len(seq) THEN seq ELSE SubSeq(seq, 1, limit)]
      /\ UNCHANGED transfers
  BY DEF ListAll, ListByTime, Listed, buckets
<1> HIDE DEF seq
<1>5. IsPage(reply'.list, ids, limit)
  <2>1. CASE limit >= N
    BY <1>2, <1>3, <1>4, <2>1, PageOf
  <2>2. CASE ~ (limit >= N)
    <3>1. limit = Min({limit, N})
      BY <1>2, <1>3, <2>2, MinOfTwo
    <3>2. IsPage(SubSeq(seq, 1, limit), ids, limit)
      BY <1>2, <1>3, <3>1, PageOf
    <3> QED BY <1>2, <1>3, <1>4, <2>2, <3>2
  <2> QED BY <2>1, <2>2
<1>6. HasStatus(Absent)' = ids
  BY <1>4 DEF HasStatus
<1>7. ListMatches' /\ TotalMatches' /\ GaugeMatches'
  BY <1>4, <1>5, <1>6 DEF ListMatches, TotalMatches, GaugeMatches, HasStatus
<1> QED BY <1>7 DEF AnswersMatchRecords, ListMatches, TotalMatches, GaugeMatches, IsPage

(* A page of one status comes off the status index, cut by the handler.    *)
LEMMA ListStatusMatches ==
  ASSUME StoreInv, NEW status \in Status, NEW limit \in Limits, ListStatus(status, limit)
  PROVE  AnswersMatchRecords'
<1> DEFINE ids == {i \in DOMAIN transfers : transfers[i].status = status}
           seq == Ascending(ids, <)
           N == Cardinality(ids)
           m == IF limit < Len(seq) THEN limit ELSE Len(seq)
<1>1. limit \in Nat /\ limit >= 1 /\ IsFiniteSet(ids) /\ N \in Nat /\ ids \subseteq Nat
  BY LimitsArePositive, FiniteStore
<1>2. /\ seq \in [1..N -> ids]
      /\ \A j, k \in 1..N : j # k => seq[j] # seq[k]
  <2>1. seq \in SetToSeqs(ids)
    BY <1>1, NumbersAscend
  <2> HIDE DEF seq
  <2> QED BY <2>1 DEF SetToSeqs
<1>3. UNCHANGED transfers /\ reply' = [records |-> [i \in ids |-> transfers[i]]]
  BY StatusKeys DEF ListStatus, GetByStatus, buckets
<1>4. DOMAIN reply'.records = ids
  BY <1>3
<1>5. answer' = [code |-> 200, status |-> status, limit |-> limit, list |-> SubSeq(seq, 1, m)]
  BY <1>4 DEF ListStatus, Listed, FirstOf
<1> HIDE DEF ids, seq
<1>6. Len(seq) = N
  BY <1>1, <1>2, PageOf
<1>7. m \in Nat /\ m = Min({limit, N})
  BY <1>1, <1>6, MinOfTwo
<1> HIDE DEF m, N
<1>8. IsPage(SubSeq(seq, 1, m), ids, limit)
  BY <1>1, <1>2, <1>7, PageOf DEF N
<1>9. HasStatus(status)' = ids
  BY <1>3, StatusAssumption DEF HasStatus, ids
<1>10. ListMatches' /\ TotalMatches' /\ GaugeMatches'
  BY <1>5, <1>8, <1>9 DEF ListMatches, TotalMatches, GaugeMatches, HasStatus
<1> QED BY <1>10 DEF AnswersMatchRecords, ListMatches, TotalMatches, GaugeMatches, IsPage

(* What CountByStatus returns. *)
LEMMA CountsMatch ==
  ASSUME StoreInv, CountByStatus
  PROVE  LET counts == reply'.counts IN
         /\ DOMAIN counts = {transfers[i].status : i \in DOMAIN transfers}
         /\ Absent \notin DOMAIN counts
         /\ \A s \in DOMAIN counts : counts[s] = Cardinality(HasStatus(s))
         /\ FoldFunction(+, 0, counts) = Cardinality(DOMAIN transfers)
         /\ UNCHANGED transfers
<1> DEFINE counts == reply'.counts
           used == {transfers[i].status : i \in DOMAIN transfers}
<1>1. /\ {k[1] : k \in byStatus} = used
      /\ \A s : Cardinality({k \in byStatus : k[1] = s})
                 = Cardinality({i \in DOMAIN transfers : transfers[i].status = s})
  BY StatusKeys
<1>2. counts = [s \in used |-> Cardinality({k \in byStatus : k[1] = s})] /\ UNCHANGED transfers
  BY <1>1 DEF CountByStatus, buckets
<1>3. used \subseteq Status
  BY DEF StoreInv, TypeOK, Recs
<1> HIDE DEF counts, used
<1>4. DOMAIN counts = used
  BY <1>2
<1>5. Absent \notin used
  BY <1>3, StatusAssumption
<1>6. \A s \in used : counts[s] = Cardinality({k \in byStatus : k[1] = s})
  BY <1>2
<1>7. \A s \in used : counts[s] = Cardinality(HasStatus(s))
  BY <1>1, <1>5, <1>6, HasStatusIs
<1>8. byStatus = Keys(StatusOf, DOMAIN transfers) /\ IsFiniteSet(DOMAIN transfers)
  BY IndexesAre, FiniteStore DEF StoreInv
<1>9. IsFiniteSet(byStatus) /\ Cardinality(byStatus) = Cardinality(DOMAIN transfers)
  BY <1>8, KeysCount
<1>10. IsFiniteSet(used)
  <2> DEFINE f == [i \in DOMAIN transfers |-> transfers[i].status]
  <2>1. f \in Surjection(DOMAIN transfers, used)
    BY DEF Surjection, used
  <2> QED BY <1>8, <2>1, FS_Surjection
<1>11. \A k \in byStatus : k[1] \in used
  BY <1>1
<1>12. FoldFunction(+, 0, counts) = Cardinality(byStatus)
  BY <1>4, <1>6, <1>9, <1>10, <1>11, CountsAddUp
<1> QED BY <1>2, <1>4, <1>5, <1>7, <1>9, <1>12 DEF counts, used

(* /status adds up the counts.                                             *)
LEMMA StatusMatches ==
  ASSUME StoreInv, handleStatus
  PROVE  AnswersMatchRecords'
<1>1. CASE InternalError
  BY <1>1, PlainAnswer DEF InternalError, Refuse
<1>2. CASE ~ InternalError
  <2> DEFINE counts == reply'.counts  total == FoldFunction(+, 0, counts)
  <2>1. CountByStatus
        /\ answer' = [code |-> 200, byStatus |-> counts, total |-> total]
    BY <1>2 DEF handleStatus
  <2>2. /\ \A s \in DOMAIN counts : counts[s] = Cardinality(HasStatus(s))
        /\ total = Cardinality(DOMAIN transfers)
        /\ UNCHANGED transfers
    BY <2>1, CountsMatch
  <2> HIDE DEF counts, total
  <2>3. \A s : HasStatus(s)' = HasStatus(s)
    BY <2>2 DEF HasStatus
  <2>4. ListMatches' /\ TotalMatches' /\ GaugeMatches'
    BY <2>1, <2>2, <2>3 DEF ListMatches, TotalMatches, GaugeMatches
  <2> QED BY <2>4 DEF AnswersMatchRecords, ListMatches, TotalMatches, GaugeMatches, IsPage
<1> QED BY <1>1, <1>2

(* The gauge is the count of PENDING, or 0 where there is none.            *)
LEMMA MetricsMatch ==
  ASSUME StoreInv, metricsHandler
  PROVE  AnswersMatchRecords'
<1>1. CASE ~ CountByStatus
  BY <1>1, PlainAnswer DEF metricsHandler
<1>2. CASE CountByStatus
  <2> DEFINE counts == reply'.counts
             gauge == IF "PENDING" \in DOMAIN counts THEN counts["PENDING"] ELSE 0
  <2>1. CASE answer' = [code |-> 200]
    BY <2>1, PlainAnswer
  <2>2. CASE answer' = [code |-> 200, gauge |-> gauge]
    <3>1. /\ DOMAIN counts = {transfers[i].status : i \in DOMAIN transfers}
          /\ \A s \in DOMAIN counts : counts[s] = Cardinality(HasStatus(s))
          /\ UNCHANGED transfers
      BY <1>2, CountsMatch
    <3> HIDE DEF counts
    <3>2. HasStatus("PENDING")' = HasStatus("PENDING")
      BY <3>1 DEF HasStatus
    <3>3. gauge = Cardinality(HasStatus("PENDING"))
      <4>1. CASE "PENDING" \in DOMAIN counts
        BY <3>1, <4>1
      <4>2. CASE "PENDING" \notin DOMAIN counts
        <5>1. HasStatus("PENDING") = {}
          BY <3>1, <4>2 DEF HasStatus, Absent
        <5> QED BY <4>2, <5>1, FS_EmptySet
      <4> QED BY <4>1, <4>2
    <3> HIDE DEF gauge
    <3>4. ListMatches' /\ TotalMatches' /\ GaugeMatches'
      BY <2>2, <3>2, <3>3 DEF ListMatches, TotalMatches, GaugeMatches
    <3> QED BY <3>4 DEF AnswersMatchRecords, ListMatches, TotalMatches, GaugeMatches, IsPage
  <2> QED BY <2>1, <2>2 DEF metricsHandler
<1> QED BY <1>1, <1>2

(* A page longer than there can be records is a page of all of them, which *)
(* the store calls limit 0.                                                *)
LEMMA LongPage ==
  ASSUME StoreInv, NEW limit \in Nat, ListByTime(limit)
  PROVE  Next
<1> DEFINE seq == Walk(byTime)
<1>1. Found(byTime) = DOMAIN transfers
  BY DEF Found, StoreInv, IndexesExact
<1>2. Len(seq) = Cardinality(DOMAIN transfers)
  BY <1>1, WalkLists
<1>3. Cardinality(DOMAIN transfers) \in Nat
      /\ Cardinality(DOMAIN transfers) <= Cardinality(IDs) /\ Cardinality(IDs) \in Nat
  <2>1. DOMAIN transfers \in SUBSET IDs
    BY DEF StoreInv, TypeOK
  <2> QED BY <2>1, IDsAssumption, FS_Subset, FS_CardinalityType
<1> HIDE DEF seq
<1>4. CASE limit <= Cardinality(IDs)
  <2>1. limit \in 0..Cardinality(IDs)
    BY <1>3, <1>4
  <2> QED BY <2>1 DEF Next
<1>5. CASE ~ (limit <= Cardinality(IDs))
  <2>1. limit >= Len(seq)
    BY <1>2, <1>3, <1>5
  <2>2. reply' = [list |-> seq] /\ UNCHANGED buckets
    BY <2>1 DEF ListByTime, seq
  <2>3. ListByTime(0)
    BY <2>2 DEF ListByTime, seq
  <2>4. 0 \in 0..Cardinality(IDs)
    BY <1>3
  <2> QED BY <2>3, <2>4 DEF Next
<1> QED BY <1>4, <1>5

(* A handler makes one transaction of the store, or none.                  *)
LEMMA APIStep == StoreInv /\ [APINext]_apiVars => [Next]_vars
<1> SUFFICES ASSUME StoreInv, [APINext]_apiVars PROVE [Next]_vars
  OBVIOUS
<1>1. CASE UNCHANGED vars
  BY <1>1
<1>2. CASE InternalError \/ CountByStatus \/ RollBack
  BY <1>2 DEF InternalError, Next
<1>3. ASSUME NEW limit \in Limits, ListAll(limit)
      PROVE  Next
  BY <1>3, LimitsArePositive, LongPage DEF ListAll
<1>4. ASSUME NEW status \in Status, NEW limit \in Limits, ListStatus(status, limit)
      PROVE  Next
  BY <1>4 DEF ListStatus, Next
<1>5. CASE handleListTransfers
  BY <1>1, <1>2, <1>3, <1>4, <1>5 DEF handleListTransfers, BadRequest
<1>6. CASE handleGetTransfer
  BY <1>1, <1>2, <1>6 DEF handleGetTransfer
<1>7. CASE handleStatus \/ metricsHandler
  BY <1>2, <1>7 DEF handleStatus, metricsHandler
<1>8. CASE handleRetryTransfer \/ StoreStep \/ UNCHANGED apiVars
  BY <1>1, <1>8 DEF handleRetryTransfer, StoreStep, apiVars
<1> QED BY <1>5, <1>6, <1>7, <1>8 DEF APINext

(* Whatever happens next, the answer being sent then is right.             *)
LEMMA AnswersStep == StoreInv /\ AnswersMatchRecords /\ [APINext]_apiVars => AnswersMatchRecords'
<1> SUFFICES ASSUME StoreInv, AnswersMatchRecords, [APINext]_apiVars
             PROVE  AnswersMatchRecords'
  OBVIOUS
<1>1. CASE handleListTransfers
  <2>1. CASE BadRequest \/ InternalError
    BY <2>1, PlainAnswer DEF BadRequest, InternalError, Refuse
  <2>2. ASSUME NEW limit \in Limits, ListAll(limit) PROVE AnswersMatchRecords'
    BY <2>2, ListAllMatches
  <2>3. ASSUME NEW limit \in Limits, NEW status \in Status, ListStatus(status, limit)
        PROVE  AnswersMatchRecords'
    BY <2>3, ListStatusMatches
  <2> QED BY <1>1, <2>1, <2>2, <2>3 DEF handleListTransfers
<1>2. CASE handleGetTransfer
  BY <1>2, PlainAnswer DEF handleGetTransfer, InternalError, Refuse
<1>3. CASE handleStatus
  BY <1>3, StatusMatches
<1>4. CASE metricsHandler
  BY <1>4, MetricsMatch
<1>5. CASE handleRetryTransfer \/ StoreStep
  BY <1>5, PlainAnswer DEF handleRetryTransfer, StoreStep, Refuse
<1>6. CASE UNCHANGED apiVars
  BY <1>6 DEF apiVars, vars, AnswersMatchRecords, HasStatus
<1> QED BY <1>1, <1>2, <1>3, <1>4, <1>5, <1>6 DEF APINext

(* With the handlers over it the store is the same store: nothing they do, *)
(* not even a list with more places than there are records, is a step it   *)
(* could not take on its own. Whatever holds of Spec (TypeOK,              *)
(* IndexesExact, ImplementsMap) therefore holds of the program with its    *)
(* HTTP server.                                                            *)
THEOREM HandlersKeepStore == APISpec => Spec
<1>1. APIInit => Init
  BY DEF APIInit
<1>2. APIInit => StoreInv
  BY <1>1, StoreInit
<1>3. StoreInv /\ [APINext]_apiVars => StoreInv'
  BY APIStep, StoreNext
<1> QED BY <1>1, <1>2, <1>3, APIStep, PTL DEF APISpec, Spec

(* What /transfers, /status and /metrics send agrees with the records at   *)
(* the time of their transaction: a page has no id twice, none of another  *)
(* status and as many as the limit allows; the folded counts add up to the *)
(* number of records; the gauge is the number of PENDING ones.             *)
THEOREM AnswersAreRight == APISpec => []AnswersMatchRecords
<1>1. APIInit => StoreInv /\ AnswersMatchRecords
  <2>1. APIInit => StoreInv
    BY StoreInit DEF APIInit
  <2>2. APIInit => AnswersMatchRecords
    BY DEF APIInit, AnswersMatchRecords
  <2> QED BY <2>1, <2>2
<1>2. StoreInv /\ AnswersMatchRecords /\ [APINext]_apiVars
        => StoreInv' /\ AnswersMatchRecords'
  BY APIStep, StoreNext, AnswersStep
<1> QED BY <1>1, <1>2, PTL DEF APISpec

=============================================================================
