----------------------- MODULE WithdrawalServiceSafety -----------------------
(***************************************************************************)
(* Safety of WithdrawalService, for all constants: what is paid out was    *)
(* recorded first, and what a record or the audit trail claims is backed   *)
(* by what Binance did.                                                    *)
(***************************************************************************)
EXTENDS WithdrawalServiceProofs, FiniteSetTheorems

(* A caller moves; the others stay where they are. *)
LEMMA OthersStay ==
  ASSUME TypeInv, NEW p \in Workers,
         WorkerStep(p) \/ Reply(p) \/ \E t \in TranIDs : Detect(p, t)
  PROVE  \A q \in Workers \ {p} : job'[q] = job[q]
<1>1. job \in [Workers -> Jobs]
  BY DEF TypeInv, JobInv
<1>2. \A j : Becomes(p, j) => \A q \in Workers \ {p} : job'[q] = job[q]
  BY <1>1 DEF Becomes
<1> USE <1>2 DEF Return, Goto
<1>3. CASE \/ Layer1(p) \/ Layer2(p) \/ EnsurePending(p) \/ CreatePending(p)
           \/ Withdraw(p) \/ Backoff(p) \/ LoopEnds(p) \/ Wake(p)
  BY <1>3 DEF Layer1, Layer2, EnsurePending, CreatePending, Withdraw, Backoff, LoopEnds, Wake
<1>4. CASE \/ Canceled(p) \/ GetForRetryCount(p) \/ UpdateRetryCount(p) \/ Conclude(p)
           \/ Load(p) \/ CreateMissing(p) \/ Put(p) \/ StoreFault(p)
  BY <1>4 DEF Canceled, GetForRetryCount, UpdateRetryCount, Conclude, Load,
     CreateMissing, Put, StoreFault
<1>5. CASE Reply(p) \/ \E t \in TranIDs : Detect(p, t)
  BY <1>5 DEF Reply, Accept, RejectDuplicate, Refuse, LoseAnswer, Answer, Detect, ForwardCall
<1> QED BY <1>3, <1>4, <1>5 DEF WorkerStep

(* Steps that are not a caller's leave the calls alone, start one or kill  *)
(* them all.                                                               *)
LEMMA JobsOtherwise ==
  ASSUME [Next]_vars,
         ~ \E p \in Workers : WorkerStep(p) \/ Reply(p) \/ \E t \in TranIDs : Detect(p, t)
  PROVE  \/ UNCHANGED job
         \/ \E t \in TranIDs : ForwardCall(Main, t)
         \/ job' = [p \in Workers |-> Idle]
<1>1. ASSUME NEW t \in TranIDs, Land(t) \/ Vanish(t) \/ Settle(t) \/ RecoverNext(t)
      PROVE  UNCHANGED job \/ ForwardCall(Main, t)
  BY <1>1 DEF Land, Vanish, Settle, RecoverNext
<1>2. PollRound \/ PollStep => UNCHANGED job
  BY DEF PollRound, PollStep, PollQuery, PollPut, PollPutFault, PollAudit
<1>3. Boot \/ StartDetector \/ StartPoller \/ Shutdown \/ LoseStore => UNCHANGED job
  BY DEF Boot, StartDetector, StartPoller, Shutdown, LoseStore
<1>4. Crash \/ Exit => job' = [p \in Workers |-> Idle]
  BY DEF Crash, Exit, ProcessEnds
<1>5. UNCHANGED vars => UNCHANGED job
  BY DEF vars
<1> QED BY <1>1, <1>2, <1>3, <1>4, <1>5 DEF Next

-----------------------------------------------------------------------------
(* Write-ahead *)

(* From the commit of ensurePending to the last use of its record. *)
Covered(p) ==
  /\ job[p].pc \in {"withdraw", "await", "backoff", "getRetry", "putRetry", "conclude"}
       => transfers[job[p].tran].status # "UNKNOWN"
  /\ job[p].pc \in {"putRetry", "put"} => job[p].rec.status # "UNKNOWN"

WriteAheadInv ==
  /\ \A p \in Workers : Covered(p)
  /\ poll.pc # "query" => poll.rec.status # "UNKNOWN"
  /\ \A t \in TranIDs :
       withdrawals[t] # <<>> \/ orphans[t] > 0 => transfers[t].status # "UNKNOWN"

RecordsStay ==
  \A t \in TranIDs : transfers[t].status # "UNKNOWN" => transfers'[t].status # "UNKNOWN"

(* No write but the loss of the file removes a record. *)
LEMMA RecordsStayNext ==
  ASSUME ~ StoreLoss, TypeInv, WriteAheadInv, [Next]_vars
  PROVE  RecordsStay
<1>1. transfers \in [TranIDs -> Records]
  BY DEF TypeInv, TypeOK
<1>2. ASSUME NEW t \in TranIDs, StoreCreate(t) PROVE RecordsStay
  BY <1>1, <1>2 DEF StoreCreate, RecordsStay
<1>3. ASSUME NEW t \in TranIDs, NEW r \in Records, r.status # "UNKNOWN", StoreUpdate(t, r)
      PROVE  RecordsStay
  BY <1>1, <1>3 DEF StoreUpdate, RecordsStay
<1>4. ASSUME NEW p \in Workers, CreatePending(p) \/ CreateMissing(p) PROVE RecordsStay
  <2>1. job[p].tran \in TranIDs
    BY <1>4 DEF TypeInv, JobInv, Held, CreatePending, CreateMissing
  <2> QED BY <1>2, <1>4, <2>1 DEF CreatePending, CreateMissing
<1>5. ASSUME NEW p \in Workers, UpdateRetryCount(p) \/ Put(p) PROVE RecordsStay
  <2>1. job[p].tran \in TranIDs /\ job[p].rec \in Records
    BY <1>5 DEF TypeInv, JobInv, Jobs, Held, UpdateRetryCount, Put
  <2>2. job[p].rec.status # "UNKNOWN"
    BY <1>5 DEF WriteAheadInv, Covered, UpdateRetryCount, Put
  <2> QED BY <1>3, <1>5, <2>1, <2>2 DEF UpdateRetryCount, Put
<1>6. CASE PollPut
  <2>1. poll.tran \in TranIDs /\ poll.rec \in Records /\ poll.rec.status # "UNKNOWN"
    BY <1>6 DEF TypeInv, PollInv, Polls, WriteAheadInv, PollPut
  <2> QED BY <1>3, <1>6, <2>1 DEF PollPut
<1>7. UNCHANGED transfers => RecordsStay
  BY DEF RecordsStay
<1>8. ~ LoseStore
  BY DEF LoseStore
<1> QED BY <1>4, <1>5, <1>6, <1>7, <1>8, OnlyStoreWrites DEF StoreWrites

(* The store says that the record is there before Withdraw is reached. *)
LEMMA CoveredStep ==
  ASSUME TypeInv, WriteAheadInv, RecordsStay, NEW p \in Workers,
         WorkerStep(p) \/ Reply(p) \/ \E t \in TranIDs : Detect(p, t)
  PROVE  Covered(p)'
<1>1. job \in [Workers -> Jobs] /\ Held(job[p]) /\ Covered(p)
  BY DEF TypeInv, JobInv, WriteAheadInv
<1>2. \A j : Becomes(p, j) => job'[p] = j
  BY <1>1 DEF Becomes
<1>3. Return(p) => Covered(p)'
  BY <1>2 DEF Return, Covered, Idle
<1>4. job[p].pc # "idle" => job[p].tran \in TranIDs
  BY <1>1 DEF Held
<1>5. job[p] \in Jobs
  BY <1>1
<1>6. ASSUME NEW step \in Steps \ {"put", "putRetry"}, Goto(p, step),
             job[p].pc # "idle", transfers'[job[p].tran].status # "UNKNOWN"
      PROVE  Covered(p)'
  BY <1>2, <1>5, <1>6 DEF Goto, Covered, Jobs
<1>7. CASE Layer1(p)
  BY <1>2, <1>3, <1>5, <1>7 DEF Layer1, Goto, Covered, Jobs
<1>8. CASE Layer2(p)
  BY <1>2, <1>3, <1>5, <1>8 DEF Layer2, Goto, Covered, Jobs
<1>9. CASE EnsurePending(p)
  <2>1. Goto(p, "create") => Covered(p)'
    BY <1>2, <1>5 DEF Goto, Covered, Jobs
  <2>2. CASE Goto(p, "withdraw") /\ transfers[job[p].tran].status = "PENDING"
    BY <1>4, <1>6, <1>9, <2>2 DEF EnsurePending, RecordsStay, Steps
  <2> QED BY <1>3, <1>9, <2>1, <2>2 DEF EnsurePending
<1>10. CASE CreatePending(p)
  <2>1. transfers'[job[p].tran].status # "UNKNOWN"
    BY <1>4, <1>10 DEF CreatePending, StoreCreate, TypeInv, TypeOK, Pending, Record
  <2> QED BY <1>6, <1>10, <2>1 DEF CreatePending, Steps
<1>11. CASE Withdraw(p) \/ Wake(p) \/ Backoff(p) \/ LoopEnds(p) \/ Canceled(p) \/ Reply(p)
  <2>1. transfers'[job[p].tran].status # "UNKNOWN"
    BY <1>1, <1>4, <1>11 DEF Covered, RecordsStay, Withdraw, Wake, Backoff, LoopEnds,
       Canceled, Answered, Reply, Accept, RejectDuplicate, Refuse, LoseAnswer, Asked
  <2>2. job'[p].tran = job[p].tran
    BY <1>2, <1>5, <1>11 DEF Jobs, Withdraw, Wake, Backoff, LoopEnds, Goto, Canceled,
       Reply, Accept, RejectDuplicate, Refuse, LoseAnswer, Answer
  <2>3. job'[p].pc \in {"await", "withdraw", "backoff", "getRetry", "conclude"}
    BY <1>2, <1>5, <1>11 DEF Jobs, Withdraw, Wake, Backoff, LoopEnds, Goto, Canceled,
       AfterLoop, Reply, Accept, RejectDuplicate, Refuse, LoseAnswer, Answer, Asked
  <2> QED BY <2>1, <2>2, <2>3 DEF Covered
<1>12. CASE GetForRetryCount(p)
  <2>1. transfers[job[p].tran].status # "UNKNOWN" /\ transfers'[job[p].tran].status # "UNKNOWN"
    BY <1>1, <1>4, <1>12 DEF Covered, RecordsStay, GetForRetryCount
  <2> QED BY <1>2, <1>5, <1>12, <2>1 DEF GetForRetryCount, Covered, Jobs
<1>13. CASE UpdateRetryCount(p)
  <2>1. transfers'[job[p].tran].status # "UNKNOWN"
    BY <1>1, <1>4, <1>13 DEF Covered, RecordsStay, UpdateRetryCount
  <2> QED BY <1>6, <1>13, <2>1 DEF UpdateRetryCount, Steps
<1>14. CASE Conclude(p)
  BY <1>2, <1>3, <1>5, <1>14 DEF Conclude, Covered, Jobs
<1>15. CASE Load(p)
  <2>1. CASE Goto(p, "createMissing")
    BY <1>2, <1>5, <2>1 DEF Goto, Covered, Jobs
  <2>2. CASE Becomes(p, [job[p] EXCEPT !.pc = "put",
                                       !.rec = Transitioned(p, transfers[job[p].tran])])
    <3>1. transfers[job[p].tran] \in Records
      BY <1>4, <1>15 DEF Load, TypeInv, TypeOK
    <3>2. Transitioned(p, transfers[job[p].tran]).status # "UNKNOWN"
      BY <3>1 DEF Transitioned, ToFailed, ToForwarded, Records
    <3> QED BY <1>2, <1>5, <2>2, <3>2 DEF Covered, Jobs
  <2> QED BY <1>3, <1>15, <2>1, <2>2 DEF Load
<1>16. CASE CreateMissing(p)
  BY <1>2, <1>5, <1>16 DEF CreateMissing, Goto, Covered, Jobs
<1>17. CASE Put(p)
  BY <1>3, <1>17 DEF Put
<1>18. CASE StoreFault(p)
  <2>1. CASE job[p].pc \in {"getRetry", "putRetry"} /\ Goto(p, "conclude")
    BY <1>1, <1>4, <1>6, <2>1 DEF Covered, RecordsStay, Steps
  <2> QED BY <1>3, <1>18, <2>1 DEF StoreFault
<1>19. ASSUME NEW t \in TranIDs, Detect(p, t) PROVE Covered(p)'
  BY <1>2, <1>19 DEF Detect, ForwardCall, Covered, Idle
<1> QED
  BY <1>7, <1>8, <1>9, <1>10, <1>11, <1>12, <1>13, <1>14, <1>15, <1>16, <1>17, <1>18,
     <1>19 DEF WorkerStep

LEMMA CoveredNext ==
  ASSUME TypeInv, WriteAheadInv, RecordsStay, [Next]_vars
  PROVE  \A p \in Workers : Covered(p)'
<1>1. ASSUME NEW q \in Workers, job'[q] = job[q] PROVE Covered(q)'
  BY <1>1 DEF WriteAheadInv, Covered, RecordsStay, TypeInv, JobInv, Held
<1>2. ASSUME NEW p \in Workers,
             WorkerStep(p) \/ Reply(p) \/ \E t \in TranIDs : Detect(p, t)
      PROVE  \A q \in Workers : Covered(q)'
  BY <1>1, <1>2, CoveredStep, OthersStay
<1>3. CASE UNCHANGED job
  BY <1>1, <1>3
<1>4. ASSUME NEW t \in TranIDs, ForwardCall(Main, t)
      PROVE  \A q \in Workers : Covered(q)'
  <2>1. job'[Main].pc = "layer1" /\ \A q \in Workers \ {Main} : job'[q] = job[q]
    BY <1>4, WorkersAssumption DEF ForwardCall, Becomes, TypeInv, JobInv, Idle
  <2>2. Covered(Main)'
    BY <2>1 DEF Covered
  <2> QED BY <1>1, <2>1, <2>2
<1>5. CASE job' = [p \in Workers |-> Idle]
  BY <1>5 DEF Covered, Idle
<1> QED BY <1>2, <1>3, <1>4, <1>5, JobsOtherwise

LEMMA PollCovered ==
  ASSUME TypeInv, WriteAheadInv, [Next]_vars
  PROVE  (poll.pc # "query" => poll.rec.status # "UNKNOWN")'
<1> DEFINE Goal == (poll.pc # "query" => poll.rec.status # "UNKNOWN")'
<1>1. poll \in Polls
  BY DEF TypeInv, PollInv
<1>2. \A t \in TranIDs : poll' = Polled(t) => poll'.pc = "query"
  BY <1>1 DEF Polled, Polls
<1>3. ASSUME NEW t \in poll.queue, PollQuery(t) PROVE Goal
  <2>1. t \in TranIDs /\ poll.snapshot[t] \in Records
    BY <1>1 DEF Polls
  <2>2. /\ ToCompleted(poll.snapshot[t]).status # "UNKNOWN"
        /\ ToFailed(poll.snapshot[t], "withdrawalFailed").status # "UNKNOWN"
    BY <2>1 DEF ToCompleted, ToFailed, Records
  <2> QED BY <1>1, <1>2, <1>3, <2>1, <2>2 DEF PollQuery, Polls
<1>4. CASE PollPut
  <2>1. poll.tran \in TranIDs
    BY <1>4 DEF TypeInv, PollInv, PollPut
  <2> QED BY <1>1, <1>2, <1>4, <2>1 DEF PollPut, Polls, WriteAheadInv
<1>5. CASE PollPutFault \/ PollAudit
  <2>1. poll.tran \in TranIDs
    BY <1>5 DEF TypeInv, PollInv, PollPutFault, PollAudit
  <2> QED BY <1>2, <1>5, <2>1 DEF PollPutFault, PollAudit
<1>6. CASE PollRound
  BY <1>6, RestingType DEF PollRound, Resting, Polls
<1>7. CASE Crash \/ Exit
  BY <1>7 DEF Crash, Exit, ProcessEnds, Resting
<1>8. CASE UNCHANGED poll
  BY <1>8 DEF WriteAheadInv
<1> QED BY <1>3, <1>4, <1>5, <1>6, <1>7, <1>8, PollerMoves
      DEF PollStep

(* What Binance holds, or may still receive, has its record. *)
BinanceCovered(t) ==
  withdrawals[t] # <<>> \/ orphans[t] > 0 => transfers[t].status # "UNKNOWN"

LEMMA BinanceCoveredNext ==
  ASSUME TypeInv, WriteAheadInv, RecordsStay, [Next]_vars, NEW t \in TranIDs
  PROVE  BinanceCovered(t)'
<1>1. /\ BinanceCovered(t)
      /\ orphans \in [TranIDs -> 0..MaxOrphans] /\ orphans' \in [TranIDs -> 0..MaxOrphans]
      /\ withdrawals \in [TranIDs -> Seq(WithdrawalStatus)]
  BY OrphansType DEF WriteAheadInv, BinanceCovered, TypeInv, TypeOK
<1>2. transfers[t].status # "UNKNOWN" => BinanceCovered(t)'
  BY DEF RecordsStay, BinanceCovered
<1>3. CASE withdrawals'[t] = withdrawals[t] /\ orphans'[t] <= orphans[t]
  BY <1>1, <1>2, <1>3, BoundsAssumption DEF BinanceCovered
<1>4. ASSUME NEW p \in Workers, Asked(p)
      PROVE  job[p].tran \in TranIDs /\ transfers[job[p].tran].status # "UNKNOWN"
  BY <1>4 DEF WriteAheadInv, Covered, Asked, TypeInv, JobInv, Held
<1>5. ASSUME NEW p \in Workers, Accept(p) PROVE BinanceCovered(t)'
  <2>1. CASE t = job[p].tran
    BY <1>2, <1>4, <1>5, <2>1 DEF Accept
  <2>2. CASE t # job[p].tran
    BY <1>1, <1>3, <1>5, <2>2, BoundsAssumption DEF Accept
  <2> QED BY <2>1, <2>2
<1>6. ASSUME NEW p \in Workers, LoseAnswer(p) PROVE BinanceCovered(t)'
  <2>1. CASE UNCHANGED orphans
    BY <1>1, <1>3, <1>6, <2>1, BoundsAssumption DEF LoseAnswer
  <2>2. CASE /\ Asked(p)
             /\ orphans' = [orphans EXCEPT ![job[p].tran] = @ + 1]
    <3>1. CASE t = job[p].tran
      BY <1>2, <1>4, <2>2, <3>1
    <3>2. CASE t # job[p].tran
      BY <1>1, <1>3, <1>6, <2>2, <3>2, BoundsAssumption DEF LoseAnswer
    <3> QED BY <3>1, <3>2
  <2> QED BY <1>6, <2>1, <2>2 DEF LoseAnswer, Asked
<1>7. ASSUME NEW u \in TranIDs, Land(u) PROVE BinanceCovered(t)'
  <2>1. orphans[u] > 0
    BY <1>7 DEF Land
  <2>2. CASE t = u
    BY <1>1, <1>2, <2>1, <2>2 DEF BinanceCovered
  <2>3. CASE t # u
    BY <1>1, <1>3, <1>7, <2>3, BoundsAssumption DEF Land
  <2> QED BY <2>2, <2>3
<1>8. ASSUME NEW u \in TranIDs, Vanish(u) PROVE BinanceCovered(t)'
  <2>1. withdrawals'[t] = withdrawals[t] /\ orphans'[t] <= orphans[t]
    BY <1>1, <1>8, BoundsAssumption DEF Vanish
  <2> QED BY <1>3, <2>1
<1>9. ASSUME NEW u \in TranIDs, Settle(u) PROVE BinanceCovered(t)'
  <2>1. (withdrawals'[t] # <<>>) => withdrawals[t] # <<>>
    BY <1>1, <1>9 DEF Settle
  <2>2. UNCHANGED orphans
    BY <1>9 DEF Settle
  <2> QED BY <1>1, <1>2, <1>9, <2>1, <2>2 DEF BinanceCovered, Settle
<1>10. CASE Crash \/ Exit
  <2>1. orphans'[t] \in Nat /\ orphans'[t] <= orphans[t] + Cardinality(InFlight(t))
        /\ withdrawals'[t] = withdrawals[t]
    BY <1>10, BoundsAssumption DEF Crash, Exit, ProcessEnds
  <2>2. CASE InFlight(t) = {}
    BY <1>1, <1>3, <2>1, <2>2, FS_EmptySet, BoundsAssumption
  <2>3. CASE InFlight(t) # {}
    BY <1>2, <1>4, <2>3 DEF InFlight
  <2> QED BY <2>2, <2>3
<1>11. CASE UNCHANGED <<withdrawals, orphans>>
  BY <1>1, <1>3, <1>11, BoundsAssumption
<1> QED
  BY <1>5, <1>6, <1>7, <1>8, <1>9, <1>10, <1>11, BinanceMoves DEF BinanceCovered

(* Unless the database file itself is lost, a withdrawal that Binance holds, *)
(* a request that may still reach it and a call that is waiting for its    *)
(* answer all have a record in the store: ensurePending commits it before  *)
(* client.Withdraw is called.  The argument needs that no write ever takes *)
(* a record away, although every Update writes a copy read earlier.        *)
THEOREM WriteAhead == Spec => []RecordedBeforeWithdrawal
<1>1. Init /\ ~ StoreLoss => WriteAheadInv
  BY UnknownType, BoundsAssumption DEF Init, WriteAheadInv, Covered, Idle, Resting
<1>2. ~ StoreLoss /\ TypeInv /\ WriteAheadInv /\ [Next]_vars => WriteAheadInv'
  BY RecordsStayNext, CoveredNext, PollCovered, BinanceCoveredNext
     DEF WriteAheadInv, BinanceCovered
<1>3. TypeInv /\ (~ StoreLoss => WriteAheadInv) => RecordedBeforeWithdrawal
  BY DEF TypeInv, JobInv, RecordedBeforeWithdrawal, WriteAheadInv, Covered, InFlight, Asked
<1>4. CASE StoreLoss
  <2>1. RecordedBeforeWithdrawal
    BY <1>4 DEF RecordedBeforeWithdrawal
  <2> QED BY <2>1, PTL
<1>5. CASE ~ StoreLoss
  BY <1>1, <1>2, <1>3, <1>5, TypeAlways, PTL DEF Spec
<1> QED BY <1>4, <1>5

-----------------------------------------------------------------------------
(* Evidence *)

Completed(w) == \E i \in DOMAIN w : w[i] = "completed"

(* What record rec claims is true of w, the withdrawals of its transfer.   *)
Backed(w, rec) ==
  /\ rec.status \in {"FORWARDED", "COMPLETED"} => rec.withdrawID \in DOMAIN w
  /\ rec.status = "COMPLETED" => Completed(w)

CallBacked(p) ==
  /\ job[p].pc \in {"putRetry", "put"} => Backed(withdrawals[job[p].tran], job[p].rec)
  /\ job[p].pc # "idle" /\ (job[p].reply = "accepted" \/ job[p].goal \in {"forward", "adopt"})
       => job[p].id \in DOMAIN withdrawals[job[p].tran]

PollBacked ==
  /\ \A t \in TranIDs : Backed(withdrawals[t], poll.snapshot[t])
  /\ poll.pc # "query" => Backed(withdrawals[poll.tran], poll.rec)
  /\ poll.pc = "audit" => poll.rec.status = "COMPLETED"

EvidenceInv ==
  /\ \A t \in TranIDs : Backed(withdrawals[t], transfers[t])
  /\ \A p \in Workers : CallBacked(p)
  /\ PollBacked

Grows(v, w) == DOMAIN v \subseteq DOMAIN w /\ (Completed(v) => Completed(w))

LEMMA BackedGrows == \A v, w, rec : Grows(v, w) /\ Backed(v, rec) => Backed(w, rec)
BY DEF Grows, Backed

LEMMA AppendGrows ==
  ASSUME NEW w \in Seq(WithdrawalStatus), NEW s \in WithdrawalStatus
  PROVE  Grows(w, Append(w, s)) /\ Len(w) + 1 \in DOMAIN Append(w, s)
<1>1. /\ Len(w) \in Nat /\ DOMAIN w = 1..Len(w)
      /\ DOMAIN Append(w, s) = 1..(Len(w) + 1)
      /\ \A i \in 1..Len(w) : Append(w, s)[i] = w[i]
  OBVIOUS
<1>2. Completed(w) => Completed(Append(w, s))
  BY <1>1 DEF Completed
<1>3. DOMAIN w \subseteq DOMAIN Append(w, s) /\ Len(w) + 1 \in DOMAIN Append(w, s)
  BY <1>1
<1> QED BY <1>2, <1>3 DEF Grows

(* Binance never forgets a withdrawal nor takes a completion back.         *)
LEMMA EvidenceGrows ==
  ASSUME TypeInv, [Next]_vars, NEW t \in TranIDs
  PROVE  Grows(withdrawals[t], withdrawals'[t])
<1>1. withdrawals \in [TranIDs -> Seq(WithdrawalStatus)]
  BY DEF TypeInv, TypeOK
<1>2. withdrawals'[t] = withdrawals[t] => Grows(withdrawals[t], withdrawals'[t])
  BY DEF Grows
<1>3. ASSUME NEW u \in TranIDs,
             withdrawals' = [withdrawals EXCEPT ![u] = Append(@, "processing")]
      PROVE  Grows(withdrawals[t], withdrawals'[t])
  <2>1. CASE t = u
    <3>1. withdrawals'[t] = Append(withdrawals[t], "processing")
      BY <1>1, <1>3, <2>1
    <3> QED BY <1>1, <3>1, AppendGrows DEF WithdrawalStatus
  <2>2. CASE t # u
    BY <1>1, <1>2, <1>3, <2>2
  <2> QED BY <2>1, <2>2
<1>4. ASSUME NEW p \in Workers, Accept(p)
      PROVE  Grows(withdrawals[t], withdrawals'[t])
  <2>1. job[p].tran \in TranIDs
    BY <1>4 DEF TypeInv, JobInv, Held, Accept, Asked
  <2> QED BY <1>3, <1>4, <2>1 DEF Accept
<1>5. ASSUME NEW u \in TranIDs, Land(u)
      PROVE  Grows(withdrawals[t], withdrawals'[t])
  BY <1>2, <1>3, <1>5 DEF Land
<1>6. ASSUME NEW u \in TranIDs, Settle(u)
      PROVE  Grows(withdrawals[t], withdrawals'[t])
  <2>1. PICK i \in DOMAIN withdrawals[u], s \in {"completed", "failed"} :
          /\ withdrawals[u][i] = "processing"
          /\ withdrawals' = [withdrawals EXCEPT ![u][i] = s]
    BY <1>6 DEF Settle
  <2>2. CASE t = u
    <3>1. withdrawals'[t] = [withdrawals[t] EXCEPT ![i] = s]
      BY <1>1, <2>1, <2>2
    <3>2. /\ DOMAIN withdrawals'[t] = DOMAIN withdrawals[t]
          /\ \A n \in DOMAIN withdrawals[t] :
               withdrawals[t][n] = "completed" => withdrawals'[t][n] = "completed"
      BY <2>1, <2>2, <3>1
    <3> QED BY <3>2 DEF Grows, Completed
  <2>3. CASE t # u
    BY <1>1, <1>2, <2>1, <2>3
  <2> QED BY <2>2, <2>3
<1>7. ASSUME NEW p \in Workers, LoseAnswer(p) PROVE UNCHANGED withdrawals
  BY <1>7 DEF LoseAnswer
<1>8. ASSUME NEW u \in TranIDs, Vanish(u) PROVE UNCHANGED withdrawals
  BY <1>8 DEF Vanish
<1>9. Crash \/ Exit => UNCHANGED withdrawals
  BY DEF Crash, Exit, ProcessEnds
<1> QED BY <1>2, <1>4, <1>5, <1>6, <1>7, <1>8, <1>9, BinanceMoves

LEMMA RecordsBacked ==
  ASSUME TypeInv, EvidenceInv, [Next]_vars, NEW t \in TranIDs
  PROVE  Backed(withdrawals'[t], transfers'[t])
<1>1. transfers \in [TranIDs -> Records]
  BY DEF TypeInv, TypeOK
<1>2. Grows(withdrawals[t], withdrawals'[t]) /\ Backed(withdrawals[t], transfers[t])
  BY EvidenceGrows DEF EvidenceInv
<1>3. transfers'[t] = transfers[t] => Backed(withdrawals'[t], transfers'[t])
  BY <1>2, BackedGrows
<1>4. Backed(withdrawals'[t], Pending) /\ Backed(withdrawals'[t], Unknown)
  BY DEF Backed, Pending, Unknown, Record
<1>5. ASSUME NEW p \in Workers, CreatePending(p) \/ CreateMissing(p)
      PROVE  Backed(withdrawals'[t], transfers'[t])
  <2>1. StoreCreate(job[p].tran)
    BY <1>5 DEF CreatePending, CreateMissing
  <2>2. transfers'[t] = transfers[t] \/ transfers'[t] = Pending
    BY <1>1, <2>1 DEF StoreCreate
  <2> QED BY <1>3, <1>4, <2>2
<1>6. ASSUME NEW u, NEW rec, StoreUpdate(u, rec),
             u = t => Backed(withdrawals[t], rec)
      PROVE  Backed(withdrawals'[t], transfers'[t])
  <2>1. transfers'[t] = transfers[t] \/ (u = t /\ transfers'[t] = rec)
    BY <1>1, <1>6 DEF StoreUpdate
  <2> QED BY <1>2, <1>3, <1>6, <2>1, BackedGrows
<1>7. ASSUME NEW p \in Workers, UpdateRetryCount(p) \/ Put(p)
      PROVE  Backed(withdrawals'[t], transfers'[t])
  <2>1. Backed(withdrawals[job[p].tran], job[p].rec) /\ StoreUpdate(job[p].tran, job[p].rec)
    BY <1>7 DEF EvidenceInv, CallBacked, UpdateRetryCount, Put
  <2> QED BY <1>6, <2>1
<1>8. CASE PollPut
  <2>1. Backed(withdrawals[poll.tran], poll.rec) /\ StoreUpdate(poll.tran, poll.rec)
    BY <1>8 DEF EvidenceInv, PollBacked, PollPut
  <2> QED BY <1>6, <2>1
<1>9. CASE LoseStore
  BY <1>4, <1>9 DEF LoseStore
<1> QED BY <1>3, <1>5, <1>7, <1>8, <1>9, OnlyStoreWrites DEF StoreWrites

LEMMA CallBackedStep ==
  ASSUME TypeInv, EvidenceInv, NEW p \in Workers, [Next]_vars,
         WorkerStep(p) \/ Reply(p) \/ \E t \in TranIDs : Detect(p, t)
  PROVE  CallBacked(p)'
<1>1. job \in [Workers -> Jobs] /\ job[p] \in Jobs /\ Held(job[p]) /\ CallBacked(p)
  BY DEF TypeInv, JobInv, EvidenceInv
<1>2. \A j : Becomes(p, j) => job'[p] = j
  BY <1>1 DEF Becomes
<1>3. Return(p) => CallBacked(p)'
  BY <1>2 DEF Return, CallBacked, Idle
<1>4. job[p].pc # "idle" =>
        /\ job[p].tran \in TranIDs
        /\ Grows(withdrawals[job[p].tran], withdrawals'[job[p].tran])
  BY <1>1, EvidenceGrows DEF Held
<1>5. ASSUME job[p].pc # "idle",
             job'[p].tran = job[p].tran, job'[p].id = job[p].id,
             job'[p].goal = job[p].goal, job'[p].reply # "accepted" \/ job[p].reply = "accepted",
             job'[p].pc \notin {"putRetry", "put"}
      PROVE  CallBacked(p)'
  BY <1>1, <1>4, <1>5 DEF CallBacked, Grows
<1>6. ASSUME NEW step \in Steps \ {"put", "putRetry"}, Goto(p, step), job[p].pc # "idle"
      PROVE  CallBacked(p)'
  BY <1>1, <1>2, <1>5, <1>6 DEF Goto, Jobs
<1>7. CASE Layer1(p) \/ EnsurePending(p) \/ CreatePending(p) \/ Backoff(p) \/ CreateMissing(p)
  BY <1>3, <1>6, <1>7 DEF Layer1, EnsurePending, CreatePending, Backoff, Answered,
     CreateMissing, Steps
<1>8. CASE LoopEnds(p) \/ UpdateRetryCount(p) \/ Put(p) \/ StoreFault(p)
  BY <1>3, <1>6, <1>8 DEF LoopEnds, Answered, AfterLoop, UpdateRetryCount, Put,
     StoreFault, Steps
<1>9. CASE Layer2(p)
  <2>1. CASE Goto(p, "ensure")
    BY <1>6, <1>9, <2>1 DEF Layer2, Steps
  <2>2. CASE Becomes(p, [job[p] EXCEPT !.pc = "load", !.goal = "fail",
                                !.reply = "noDestination"])
    BY <1>1, <1>2, <2>2 DEF CallBacked, Jobs
  <2>3. ASSUME NEW i \in DOMAIN withdrawals[job[p].tran],
               Becomes(p, [job[p] EXCEPT !.pc = "load", !.goal = "adopt", !.id = i])
        PROVE  CallBacked(p)'
    <3>1. i \in DOMAIN withdrawals'[job[p].tran]
      BY <1>4, <1>9 DEF Grows, Layer2
    <3> QED BY <1>1, <1>2, <2>3, <3>1 DEF CallBacked, Jobs
  <2> QED BY <1>3, <1>9, <2>1, <2>2, <2>3 DEF Layer2
<1>10. CASE Withdraw(p) \/ Wake(p) \/ Canceled(p)
  <2>1. job'[p].pc \notin {"putRetry", "put"} /\ job[p].pc # "idle"
    BY <1>1, <1>2, <1>10 DEF Withdraw, Wake, Canceled, AfterLoop, Jobs
  <2>2. /\ job'[p].tran = job[p].tran /\ job'[p].id = job[p].id
        /\ job'[p].goal = job[p].goal /\ job'[p].reply # "accepted"
    BY <1>1, <1>2, <1>10 DEF Withdraw, Wake, Canceled, Jobs
  <2> QED BY <1>5, <2>1, <2>2
<1>11. CASE GetForRetryCount(p)
  <2>1. CASE Goto(p, "conclude")
    BY <1>6, <1>11, <2>1 DEF GetForRetryCount, Steps
  <2>2. CASE Becomes(p, [job[p] EXCEPT !.pc = "putRetry",
                                       !.rec = transfers[job[p].tran]])
    <3>1. Backed(withdrawals'[job[p].tran], transfers[job[p].tran])
      BY <1>4, <1>11, BackedGrows DEF EvidenceInv, GetForRetryCount
    <3>2. job[p].reply = "accepted" \/ job[p].goal \in {"forward", "adopt"}
            => job[p].id \in DOMAIN withdrawals'[job[p].tran]
      BY <1>1, <1>4, <1>11 DEF CallBacked, Grows, GetForRetryCount
    <3>3. job'[p] = [job[p] EXCEPT !.pc = "putRetry", !.rec = transfers[job[p].tran]]
      BY <1>2, <2>2
    <3> QED BY <1>1, <3>1, <3>2, <3>3 DEF CallBacked, Jobs
  <2> QED BY <1>11, <2>1, <2>2 DEF GetForRetryCount
<1>12. CASE Conclude(p)
  <2>1. CASE /\ job[p].reply = "accepted"
             /\ Becomes(p, [job[p] EXCEPT !.pc = "load", !.goal = "forward"])
    BY <1>1, <1>2, <1>4, <1>12, <2>1 DEF Conclude, CallBacked, Grows, Jobs
  <2>2. CASE /\ job[p].reply \in FailureKinds
             /\ Becomes(p, [job[p] EXCEPT !.pc = "load", !.goal = "fail"])
    BY <1>1, <1>2, <2>2, KindsType DEF CallBacked, Jobs
  <2> QED BY <1>3, <1>12, <2>1, <2>2 DEF Conclude
<1>13. CASE Load(p)
  <2> DEFINE rec == transfers[job[p].tran]
  <2>1. CASE Goto(p, "createMissing")
    BY <1>6, <1>13, <2>1 DEF Load, Steps
  <2>2. CASE Becomes(p, [job[p] EXCEPT !.pc = "put", !.rec = Transitioned(p, rec)])
    <3>1. job'[p] = [job[p] EXCEPT !.pc = "put", !.rec = Transitioned(p, rec)]
      BY <1>2, <2>2
    <3>2. job[p].reply = "accepted" \/ job[p].goal \in {"forward", "adopt"}
            => job[p].id \in DOMAIN withdrawals'[job[p].tran]
      BY <1>1, <1>4, <1>13 DEF CallBacked, Grows, Load
    <3>3. rec \in Records
      BY <1>4, <1>13 DEF TypeInv, TypeOK, Load
    <3>4. job[p].goal \in {"fail", "forward", "adopt"}
      BY <1>1, <1>13 DEF Load, Held, Jobs
    <3>5. Backed(withdrawals'[job[p].tran], Transitioned(p, rec))
      BY <3>2, <3>3, <3>4 DEF Backed, Transitioned, ToFailed, ToForwarded, Records
    <3> QED BY <1>1, <3>1, <3>2, <3>5 DEF CallBacked, Jobs
  <2> QED BY <1>3, <1>13, <2>1, <2>2 DEF Load
<1>14. CASE Accept(p)
  <2> DEFINE t == job[p].tran
  <2>1. t \in TranIDs /\ withdrawals \in [TranIDs -> Seq(WithdrawalStatus)]
    BY <1>4, <1>14 DEF Accept, Asked, TypeInv, TypeOK
  <2>2. withdrawals'[t] = Append(withdrawals[t], "processing")
    BY <1>14, <2>1 DEF Accept
  <2>3. Len(withdrawals[t]) + 1 \in DOMAIN withdrawals'[t]
    BY <2>1, <2>2, AppendGrows DEF WithdrawalStatus
  <2>4. job'[p] = [job[p] EXCEPT !.reply = "accepted", !.id = Len(withdrawals[t]) + 1]
    BY <1>2, <1>14 DEF Accept, Answer
  <2> QED BY <1>1, <1>14, <2>3, <2>4 DEF CallBacked, Accept, Asked, Jobs
<1>15. CASE RejectDuplicate(p) \/ Refuse(p) \/ LoseAnswer(p)
  <2>1. PICK kind \in FailureKinds : Answer(p, kind, 0)
    BY <1>15, KindsType, FaultKinds DEF RejectDuplicate, Refuse, LoseAnswer
  <2>2. job[p].pc = "await" /\ job[p].goal = "none"
    BY <1>1, <1>15 DEF RejectDuplicate, Refuse, LoseAnswer, Asked, Held
  <2>3. job'[p] = [job[p] EXCEPT !.reply = kind, !.id = 0] /\ kind # "accepted"
    BY <1>2, <2>1, KindsType DEF Answer
  <2> QED BY <1>1, <2>2, <2>3 DEF CallBacked, Jobs
<1>16. ASSUME NEW t \in TranIDs, Detect(p, t) PROVE CallBacked(p)'
  BY <1>2, <1>16 DEF Detect, ForwardCall, CallBacked, Idle
<1> QED
  BY <1>7, <1>8, <1>9, <1>10, <1>11, <1>12, <1>13, <1>14, <1>15, <1>16
     DEF WorkerStep, Reply

LEMMA CallBackedNext ==
  ASSUME TypeInv, EvidenceInv, [Next]_vars
  PROVE  \A p \in Workers : CallBacked(p)'
<1>1. ASSUME NEW q \in Workers, job'[q] = job[q] PROVE CallBacked(q)'
  <2>1. CallBacked(q) /\ job[q] \in Jobs /\ Held(job[q])
    BY DEF EvidenceInv, TypeInv, JobInv
  <2>2. CASE job[q].pc = "idle"
    BY <1>1, <2>1, <2>2 DEF CallBacked
  <2>3. CASE job[q].pc # "idle"
    <3>1. Grows(withdrawals[job[q].tran], withdrawals'[job[q].tran])
      BY <2>1, <2>3, EvidenceGrows DEF Held
    <3> QED BY <1>1, <2>1, <3>1, BackedGrows DEF CallBacked, Grows
  <2> QED BY <2>2, <2>3
<1>2. ASSUME NEW p \in Workers,
             WorkerStep(p) \/ Reply(p) \/ \E t \in TranIDs : Detect(p, t)
      PROVE  \A q \in Workers : CallBacked(q)'
  BY <1>1, <1>2, CallBackedStep, OthersStay
<1>3. CASE UNCHANGED job
  BY <1>1, <1>3
<1>4. ASSUME NEW t \in TranIDs, ForwardCall(Main, t)
      PROVE  \A q \in Workers : CallBacked(q)'
  <2>1. /\ job'[Main] = [Idle EXCEPT !.pc = "layer1", !.tran = t]
        /\ \A q \in Workers \ {Main} : job'[q] = job[q]
    BY <1>4, WorkersAssumption DEF ForwardCall, Becomes, TypeInv, JobInv
  <2>2. CallBacked(Main)'
    BY <2>1 DEF CallBacked, Idle
  <2> QED BY <1>1, <2>1, <2>2
<1>5. CASE job' = [p \in Workers |-> Idle]
  BY <1>5 DEF CallBacked, Idle
<1> QED BY <1>2, <1>3, <1>4, <1>5, JobsOtherwise

LEMMA PollBackedNext ==
  ASSUME TypeInv, EvidenceInv, [Next]_vars
  PROVE  PollBacked'
<1>1. poll \in Polls /\ PollBacked /\ (poll.pc # "query" => poll.tran \in TranIDs)
  BY DEF TypeInv, PollInv, EvidenceInv
<1>2. \A t \in TranIDs : Grows(withdrawals[t], withdrawals'[t])
  BY EvidenceGrows
<1>3. \A w : Backed(w, Unknown)
  BY DEF Backed, Unknown, Record
<1>4. ASSUME NEW t \in TranIDs, poll' = Polled(t) PROVE PollBacked'
  <2>1. poll'.pc = "query" /\ poll'.snapshot = [poll.snapshot EXCEPT ![t] = Unknown]
    BY <1>1, <1>4 DEF Polled, Polls
  <2>2. \A u \in TranIDs : poll'.snapshot[u] \in {Unknown, poll.snapshot[u]}
    BY <1>1, <2>1 DEF Polls
  <2> QED BY <1>1, <1>2, <1>3, <2>1, <2>2, BackedGrows DEF PollBacked
<1>5. ASSUME UNCHANGED poll PROVE PollBacked'
  BY <1>1, <1>2, <1>5, BackedGrows DEF PollBacked
<1>6. ASSUME NEW t \in poll.queue, PollQuery(t) PROVE PollBacked'
  <2> DEFINE rec == poll.snapshot[t]
  <2>1. t \in TranIDs /\ rec \in Records /\ Backed(withdrawals[t], rec)
        /\ UNCHANGED withdrawals
    BY <1>1, <1>6 DEF Polls, PollBacked, PollQuery, binance
  <2>2. ASSUME NEW r \in Records, Backed(withdrawals[t], r),
               poll' = [poll EXCEPT !.pc = "put", !.tran = t, !.rec = r]
        PROVE  PollBacked'
    BY <1>1, <2>1, <2>2 DEF PollBacked, Polls
  <2>3. ASSUME NEW i \in DOMAIN withdrawals[t], withdrawals[t][i] = "completed",
               MayComplete(rec)
        PROVE  Backed(withdrawals[t], ToCompleted(rec))
    <3>1. rec.status = "FORWARDED"
      BY <2>1, <2>3 DEF MayComplete, CanTransitionTo, ValidTransitions, Records, Statuses
    <3> QED BY <2>1, <2>3, <3>1 DEF Backed, ToCompleted, Completed, Records
  <2>4. Backed(withdrawals[t], ToFailed(rec, "withdrawalFailed"))
    BY <2>1 DEF Backed, ToFailed, Records
  <2> QED BY <1>4, <1>6, <2>1, <2>2, <2>3, <2>4, CompletedType DEF PollQuery
<1>7. CASE PollPut
  <2>1. UNCHANGED withdrawals
    BY <1>7 DEF PollPut, binance
  <2>2. CASE poll' = [poll EXCEPT !.pc = "audit"] /\ poll.rec.status = "COMPLETED"
    BY <1>1, <1>7, <2>1, <2>2 DEF PollBacked, Polls, PollPut
  <2> QED BY <1>1, <1>4, <1>7, <2>2 DEF PollPut
<1>8. CASE PollPutFault \/ PollAudit
  BY <1>1, <1>4, <1>8 DEF PollPutFault, PollAudit
<1>9. CASE PollRound
  <2>1. /\ poll'.pc = "query"
        /\ poll'.snapshot = [t \in TranIDs |-> IF transfers[t].status = "FORWARDED"
                                               THEN transfers[t] ELSE Unknown]
    BY <1>9, RestingType DEF PollRound, Resting, Polls
  <2>2. \A t \in TranIDs : Backed(withdrawals'[t], poll'.snapshot[t])
    BY <1>2, <1>3, <2>1, BackedGrows DEF EvidenceInv
  <2> QED BY <2>1, <2>2 DEF PollBacked
<1>10. CASE Crash \/ Exit
  BY <1>3, <1>10 DEF Crash, Exit, ProcessEnds, Resting, NoSnapshot, PollBacked
<1> QED BY <1>5, <1>6, <1>7, <1>8, <1>9, <1>10, PollerMoves DEF PollStep

LEMMA GrownIsNotEmpty ==
  \A v, w \in Seq(WithdrawalStatus) : Grows(v, w) /\ v # <<>> => w # <<>>
<1> SUFFICES ASSUME NEW v \in Seq(WithdrawalStatus), Grows(v, <<>>) PROVE v = <<>>
  OBVIOUS
<1>1. DOMAIN v = 1..Len(v) /\ Len(v) \in Nat /\ DOMAIN v \subseteq {}
  BY DEF Grows
<1> QED BY <1>1

LEMMA EvidenceAlways == Spec => []EvidenceInv
<1>1. Init => EvidenceInv
  BY DEF Init, EvidenceInv, CallBacked, PollBacked, Backed, Idle, Resting, NoSnapshot,
     Unknown, Record
<1>2. TypeInv /\ EvidenceInv /\ [Next]_vars => EvidenceInv'
  BY RecordsBacked, CallBackedNext, PollBackedNext DEF EvidenceInv
<1> QED BY <1>1, <1>2, TypeAlways, PTL DEF Spec

(* A FORWARDED or COMPLETED record names a withdrawal Binance holds, and   *)
(* COMPLETED means Binance completed one, through every stale copy: the    *)
(* poller's snapshot, the copies the state machine changes and the one     *)
(* updateRetryCount writes back.  Evidence only grows, so a copy that was  *)
(* backed when it was read is backed when it is written.                   *)
THEOREM Evidence == Spec => []ForwardedIsBacked
<1>1. EvidenceInv => ForwardedIsBacked
  BY DEF EvidenceInv, Backed, Completed, ForwardedIsBacked
<1> QED BY <1>1, EvidenceAlways, PTL

(* Every audit line is true: INITIATED is written after Binance accepted a *)
(* withdrawal, COMPLETED after it completed one.                           *)
THEOREM TruthfulAudit == Spec => []AuditIsTruthful
<1>1. Init => AuditIsTruthful
  BY DEF Init, AuditIsTruthful
<1>2. ASSUME TypeInv, EvidenceInv, AuditIsTruthful, [Next]_vars
      PROVE  AuditIsTruthful'
  <2>1. \A t \in TranIDs :
          /\ <<"INITIATED", t>> \in auditLog => withdrawals'[t] # <<>>
          /\ <<"COMPLETED", t>> \in auditLog => Completed(withdrawals'[t])
    <3>1. \A t \in TranIDs : Grows(withdrawals[t], withdrawals'[t])
      BY <1>2, EvidenceGrows
    <3>2. /\ withdrawals \in [TranIDs -> Seq(WithdrawalStatus)]
          /\ withdrawals' \in [TranIDs -> Seq(WithdrawalStatus)]
      BY <1>2, WithdrawalsType DEF TypeInv, TypeOK
    <3> QED BY <1>2, <3>1, <3>2, GrownIsNotEmpty DEF AuditIsTruthful, Completed, Grows
  <2>2. ASSUME NEW p \in Workers, Conclude(p), job[p].reply = "accepted"
        PROVE  job[p].tran \in TranIDs /\ withdrawals'[job[p].tran] # <<>>
    <3>1. job[p].tran \in TranIDs /\ job[p].id \in DOMAIN withdrawals[job[p].tran]
      BY <1>2, <2>2 DEF EvidenceInv, CallBacked, TypeInv, JobInv, Held, Conclude
    <3>2. UNCHANGED withdrawals
      BY <2>2 DEF Conclude, binance
    <3> QED BY <3>1, <3>2
  <2>3. CASE PollAudit
    <3>1. Completed(withdrawals[poll.tran])
      BY <1>2, <2>3 DEF EvidenceInv, PollBacked, Backed, PollAudit
    <3>2. UNCHANGED withdrawals /\ auditLog' = auditLog \cup {<<"COMPLETED", poll.tran>>}
      BY <2>3 DEF PollAudit, binance
    <3> QED BY <2>1, <3>1, <3>2 DEF AuditIsTruthful, Completed
  <2>4. CASE UNCHANGED auditLog
    BY <2>1, <2>4 DEF AuditIsTruthful, Completed
  <2>5. ASSUME NEW p \in Workers, Conclude(p), job[p].reply = "accepted",
               auditLog' = auditLog \cup {<<"INITIATED", job[p].tran>>}
        PROVE  AuditIsTruthful'
    BY <2>1, <2>2, <2>5 DEF AuditIsTruthful, Completed
  <2> QED BY <1>2, <2>3, <2>4, <2>5, AuditLines
<1> QED BY <1>1, <1>2, TypeAlways, EvidenceAlways, PTL DEF Spec

=============================================================================
