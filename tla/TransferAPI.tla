------------------------------ MODULE TransferAPI ------------------------------
(***************************************************************************)
(* The HTTP handlers of internal/api over the store.  A handler makes one  *)
(* store transaction and answers from what it returned, between the        *)
(* transactions of the forwarder and the poller.  The program starts the   *)
(* server with a store and a detector but no forwarder.                    *)
(***************************************************************************)
EXTENDS TransferStore, Functions, FiniteSetsExt

CONSTANTS
  DefaultLimit,  \* records listed when the request names no limit
  MaxLimit,      \* records listed at most
  MaxAsked       \* bound: the largest limit a request names

ASSUME LimitsAssumption ==
  DefaultLimit \in 1..MaxLimit /\ MaxLimit \in Nat /\ MaxAsked \in Nat

VARIABLES
  answer,   \* the response being sent
  pending   \* the gauge pending_count

apiVars == <<vars, answer, pending>>

Absent == ""  \* the status of a request that names none

ASSUME StatusAssumption == Absent \notin Status

Refuse(code) == answer' = [code |-> code]

(* A status that is none, or a limit below 1. *)
BadRequest == Refuse(400) /\ UNCHANGED vars

(* The store's read transaction failed. *)
InternalError == RollBack /\ Refuse(500)

(* The limit a request ends up with; one below 1 is refused. *)
Limits == {DefaultLimit} \cup {Min({asked, MaxLimit}) : asked \in 1..MaxAsked}

Listed(status, limit, ids) ==
  answer' = [code |-> 200, status |-> status, limit |-> limit, list |-> ids]

FirstOf(seq, n) == SubSeq(seq, 1, IF n < Len(seq) THEN n ELSE Len(seq))

(* Seeded fault: the form a regression could give to the definition that   *)
(* follows.  It is no part of the specification.                           *)
ListStatusOfPage(status, limit) ==
  /\ ListByTime(limit)
  /\ Listed(status, limit,
            SelectSeq(reply'.list, LAMBDA i : transfers[i].status = status))

(* GetByStatus walks the status index in the order of the ids and knows no *)
(* limit: the handler cuts its result.                                     *)
ListStatus(status, limit) ==
  /\ GetByStatus(status)
  /\ Listed(status, limit,
            FirstOf(Ascending(DOMAIN reply'.records, <), limit))

ListAll(limit) == ListByTime(limit) /\ Listed(Absent, limit, reply'.list)

handleListTransfers ==
  /\ \/ BadRequest
     \/ InternalError
     \/ \E limit \in Limits :
          \/ ListAll(limit)
          \/ \E status \in Status : ListStatus(status, limit)
  /\ UNCHANGED pending

(* Store.Get reads the record itself. *)
handleGetTransfer ==
  /\ \/ /\ \E id \in IDs :
             IF id \in DOMAIN transfers
             THEN answer' = [code |-> 200, id |-> id, record |-> transfers[id]]
             ELSE Refuse(404)
        /\ UNCHANGED vars
     \/ InternalError
  /\ UNCHANGED pending

handleStatus ==
  /\ \/ /\ CountByStatus
        /\ answer' = [code |-> 200, byStatus |-> reply'.counts,
                      total |-> FoldFunction(+, 0, reply'.counts)]
     \/ InternalError
  /\ UNCHANGED pending

(* A failed count leaves the gauge as it was and is not reported. *)
metricsHandler ==
  /\ \/ /\ CountByStatus
        /\ pending' = IF "PENDING" \in DOMAIN reply'.counts THEN reply'.counts["PENDING"] ELSE 0
        /\ answer' = [code |-> 200, gauge |-> pending']
     \/ /\ RollBack
        /\ UNCHANGED pending
        /\ answer' = [code |-> 200]

(* deps.Forwarder is nil. *)
handleRetryTransfer == Refuse(503) /\ UNCHANGED <<vars, pending>>

(* A transaction of the forwarder or the poller. *)
StoreStep == Next /\ Refuse(0) /\ UNCHANGED pending

APIInit == Init /\ answer = [code |-> 0] /\ pending = 0

APINext ==
  \/ handleListTransfers \/ handleGetTransfer \/ handleStatus
  \/ metricsHandler \/ handleRetryTransfer \/ StoreStep

APISpec == APIInit /\ [][APINext]_apiVars

-----------------------------------------------------------------------------

HasStatus(s) == {i \in DOMAIN transfers : s \in {Absent, transfers[i].status}}

(* While it is sent, an answer says what the records say: a list has no id *)
(* twice, none of another status than asked for, as many as the limit      *)
(* allows; the counts of /status add up to the records there are; the      *)
(* pending gauge counts the PENDING ones.  This crosses the handlers' own  *)
(* cut and the two index buckets.                                          *)
AnswersMatchRecords ==
  /\ "list" \in DOMAIN answer =>
       LET ids == ToSet(answer.list) IN
       /\ Cardinality(ids) = Len(answer.list)
       /\ ids \subseteq HasStatus(answer.status)
       /\ Len(answer.list) = Min({answer.limit, Cardinality(HasStatus(answer.status))})
  /\ "total" \in DOMAIN answer =>
       /\ answer.total = Cardinality(DOMAIN transfers)
       /\ \A s \in DOMAIN answer.byStatus : answer.byStatus[s] = Cardinality(HasStatus(s))
  /\ "gauge" \in DOMAIN answer => answer.gauge = Cardinality(HasStatus("PENDING"))

=============================================================================
