---------------------- MODULE WithdrawalServicePaidOnce ----------------------
(***************************************************************************)
(* What WithdrawalService pays out while no two calls of Forward handle    *)
(* the same transfer at once and every answer of Binance can be trusted:   *)
(* once, never beside a FAILED record, and along the lifecycle that the    *)
(* documents describe.  Binance need not reject duplicates.                *)
(***************************************************************************)
EXTENDS WithdrawalServiceOneCall

(* An error of Withdraw means that Binance did not act on the request, and *)
(* no request outlives its caller.                                         *)
DefiniteAnswers == Faults \cap Ambiguous = {} /\ MaxOrphans = 0

AllFailed(w) == \A i \in DOMAIN w : w[i] = "failed"

(* The call goes on as if Binance held nothing for its transfer.           *)
Unpaid(p) ==
  \/ job[p].pc \in {"ensure", "create", "withdraw", "backoff"}
  \/ job[p].pc \in {"await", "getRetry", "putRetry", "conclude"} /\ job[p].reply # "accepted"
  \/ job[p].pc \in {"load", "createMissing", "put"} /\ job[p].goal = "fail"

PaidInv ==
  /\ \A p \in Workers : Unpaid(p) => withdrawals[job[p].tran] = <<>>
  /\ \A t \in TranIDs : Len(withdrawals[t]) <= 1
  /\ \A t \in TranIDs : transfers[t].status = "FAILED" => AllFailed(withdrawals[t])
  /\ poll.pc = "put" /\ poll.rec.status = "FAILED" => AllFailed(withdrawals[poll.tran])

-----------------------------------------------------------------------------

LEMMA PaidInit == Init => PaidInv
BY DEF Init, PaidInv, Unpaid, Idle, Resting, Unknown, Record

LEMMA AtMostOneIsFirst ==
  ASSUME NEW w \in Seq(WithdrawalStatus), Len(w) <= 1, NEW i \in DOMAIN w
  PROVE  i = 1 /\ DOMAIN w = {1} /\ Len(w) = 1 /\ w # <<>>
<1>1. Len(w) \in Nat /\ DOMAIN w = 1..Len(w)
  OBVIOUS
<1>2. i \in 1..Len(w)
  BY <1>1
<1>3. Len(w) = 1
  BY <1>1, <1>2
<1> QED BY <1>1, <1>2, <1>3

(* Nothing is on the wire but the request of a call that waits for it.     *)
LEMMA NoStrays ==
  ASSUME DefiniteAnswers, TypeInv
  PROVE  /\ \A t \in TranIDs : ~ Land(t)
         /\ \A p \in Workers : ~ LoseAnswer(p)
<1>1. \A t \in TranIDs : ~ (orphans[t] > 0)
  BY DEF TypeInv, TypeOK, DefiniteAnswers
<1> QED BY <1>1 DEF Land, LoseAnswer, DefiniteAnswers

Accepted(t) ==
  \E p \in Workers :
    /\ Accept(p)
    /\ job[p].tran = t
    /\ withdrawals'[t] = Append(withdrawals[t], "processing")

Settled(t) ==
  \E i \in DOMAIN withdrawals[t], s \in {"completed", "failed"} :
    /\ withdrawals[t][i] = "processing"
    /\ withdrawals'[t] = [withdrawals[t] EXCEPT ![i] = s]

LEMMA PayoutMoves ==
  ASSUME DefiniteAnswers, TypeInv, [Next]_vars, NEW t \in TranIDs
  PROVE  withdrawals'[t] = withdrawals[t] \/ Accepted(t) \/ Settled(t)
<1>1. withdrawals \in [TranIDs -> Seq(WithdrawalStatus)]
  BY DEF TypeInv, TypeOK
<1>2. ASSUME NEW p \in Workers, Accept(p)
      PROVE  withdrawals'[t] = withdrawals[t] \/ Accepted(t)
  <2>1. job[p].tran \in TranIDs
    BY <1>2 DEF TypeInv, JobInv, Held, Accept, Asked
  <2>2. withdrawals' = [withdrawals EXCEPT ![job[p].tran] = Append(@, "processing")]
    BY <1>2 DEF Accept
  <2>3. CASE job[p].tran = t
    BY <1>1, <1>2, <2>2, <2>3 DEF Accepted
  <2>4. CASE job[p].tran # t
    BY <1>1, <2>2, <2>4
  <2> QED BY <2>3, <2>4
<1>3. ASSUME NEW u \in TranIDs, Settle(u)
      PROVE  withdrawals'[t] = withdrawals[t] \/ Settled(t)
  <2>1. PICK i \in DOMAIN withdrawals[u], s \in {"completed", "failed"} :
          /\ withdrawals[u][i] = "processing"
          /\ withdrawals' = [withdrawals EXCEPT ![u][i] = s]
    BY <1>3 DEF Settle
  <2> QED BY <1>1, <2>1 DEF Settled
<1>4. \A u \in TranIDs : Vanish(u) => UNCHANGED withdrawals
  BY DEF Vanish
<1>5. Crash \/ Exit => UNCHANGED withdrawals
  BY DEF Crash, Exit, ProcessEnds
<1> QED BY <1>2, <1>3, <1>4, <1>5, BinanceMoves, NoStrays

(* Binance accepts only for a transfer that is PENDING and unpaid.         *)
LEMMA AcceptedWhen ==
  ASSUME TypeInv, FreshInv, PaidInv, NEW t \in TranIDs, Accepted(t)
  PROVE  transfers[t].status = "PENDING" /\ withdrawals[t] = <<>>
BY DEF Accepted, Accept, Asked, FreshInv, CallFresh, PaidInv, Unpaid

LEMMA AllFailedStays ==
  ASSUME DefiniteAnswers, TypeInv, FreshInv, PaidInv, [Next]_vars, NEW t \in TranIDs,
         transfers[t].status # "PENDING", AllFailed(withdrawals[t])
  PROVE  AllFailed(withdrawals'[t])
<1>1. ~ Accepted(t)
  BY AcceptedWhen
<1>2. ~ Settled(t)
  BY DEF Settled, AllFailed
<1> QED BY <1>1, <1>2, PayoutMoves

-----------------------------------------------------------------------------

(* A call that waits is not overtaken: nobody else pays its transfer.      *)
LEMMA OtherUnpaid ==
  ASSUME DefiniteAnswers, TypeInv, OneCallPerTransfer, PaidInv, [Next]_vars,
         NEW q \in Workers, job'[q] = job[q], Unpaid(q)
  PROVE  withdrawals'[job[q].tran] = <<>>
<1> DEFINE t == job[q].tran
<1>1. job[q].pc # "idle" /\ t \in TranIDs /\ withdrawals[t] = <<>>
  BY DEF Unpaid, PaidInv, TypeInv, JobInv, Held
<1>2. ~ Settled(t)
  BY <1>1 DEF Settled
<1>3. ASSUME NEW p \in Workers, Accept(p), job[p].tran = t PROVE FALSE
  <2>1. p = q
    BY <1>1, <1>3 DEF OneCallPerTransfer, Accept, Asked
  <2>2. job[p].reply = "sent" /\ job'[p].reply = "accepted"
    BY <1>3 DEF Accept, Asked, Answer, Becomes, TypeInv, JobInv, Jobs
  <2> QED BY <2>1, <2>2
<1> QED BY <1>1, <1>2, <1>3, PayoutMoves DEF Accepted

LEMMA UnpaidStep ==
  ASSUME TypeInv, PaidInv, NEW p \in Workers,
         WorkerStep(p) \/ Reply(p) \/ \E t \in TranIDs : Detect(p, t),
         ~ LoseAnswer(p), Unpaid(p)'
  PROVE  withdrawals'[job'[p].tran] = <<>>
<1> DEFINE t == job[p].tran
<1>1. job \in [Workers -> Jobs] /\ job[p] \in Jobs /\ Held(job[p])
  BY DEF TypeInv, JobInv
<1>2. \A j : Becomes(p, j) => job'[p] = j
  BY <1>1 DEF Becomes
<1>3. ~ Return(p)
  BY <1>2 DEF Return, Unpaid, Idle
<1>4. Unpaid(p) => withdrawals[t] = <<>>
  BY DEF PaidInv
<1> USE DEF binance
<1>5. CASE Layer1(p)
  BY <1>1, <1>2, <1>3, <1>5 DEF Layer1, Goto, Unpaid, Jobs
<1>6. CASE Layer2(p)
  <2>1. UNCHANGED withdrawals /\ job'[p].tran = t
    BY <1>1, <1>2, <1>3, <1>6 DEF Layer2, Goto, Jobs
  <2>2. \A i : ~ Becomes(p, [job[p] EXCEPT !.pc = "load", !.goal = "adopt", !.id = i])
    BY <1>1, <1>2 DEF Unpaid, Jobs
  <2> QED BY <1>3, <1>6, <2>1, <2>2 DEF Layer2
<1>7. CASE EnsurePending(p) \/ CreatePending(p) \/ Withdraw(p) \/ Wake(p) \/ Canceled(p)
  <2>1. UNCHANGED withdrawals /\ Unpaid(p)
    BY <1>7 DEF EnsurePending, CreatePending, Withdraw, Wake, Canceled, Unpaid
  <2>2. job'[p].tran = t
    BY <1>1, <1>2, <1>3, <1>7 DEF EnsurePending, CreatePending, Withdraw, Wake, Canceled,
       Goto, Jobs
  <2> QED BY <1>4, <2>1, <2>2
<1>8. CASE Backoff(p) \/ LoopEnds(p)
  <2>1. UNCHANGED withdrawals /\ job'[p].tran = t /\ job'[p].reply = job[p].reply
        /\ job[p].pc = "await"
    BY <1>1, <1>2, <1>8 DEF Backoff, LoopEnds, Answered, Goto, Jobs
  <2>2. job[p].reply # "accepted"
    BY <1>1, <1>2, <1>8, KindsType DEF Backoff, LoopEnds, AfterLoop, Goto, Unpaid, Jobs
  <2> QED BY <1>4, <2>1, <2>2 DEF Unpaid
<1>9. CASE GetForRetryCount(p) \/ UpdateRetryCount(p)
  <2>1. UNCHANGED withdrawals /\ job[p].pc \in {"getRetry", "putRetry"}
    BY <1>9 DEF GetForRetryCount, UpdateRetryCount
  <2>2. /\ job'[p].tran = t /\ job'[p].reply = job[p].reply
        /\ job'[p].pc \in {"putRetry", "conclude"}
    BY <1>1, <1>2, <1>9 DEF GetForRetryCount, UpdateRetryCount, Goto, Jobs
  <2> QED BY <1>4, <2>1, <2>2 DEF Unpaid
<1>10. CASE Conclude(p)
  <2>1. UNCHANGED withdrawals /\ job[p].pc = "conclude"
    BY <1>10 DEF Conclude
  <2>2. job[p].reply # "accepted" /\ job'[p].tran = t
    BY <1>1, <1>2, <1>3, <1>10, KindsType DEF Conclude, Unpaid, Jobs
  <2> QED BY <1>4, <2>1, <2>2 DEF Unpaid
<1>11. CASE Load(p) \/ CreateMissing(p)
  <2>1. UNCHANGED withdrawals /\ job[p].pc \in {"load", "createMissing"}
    BY <1>11 DEF Load, CreateMissing
  <2>2. job'[p].tran = t /\ job'[p].goal = job[p].goal
        /\ job'[p].pc \in {"load", "createMissing", "put"}
    BY <1>1, <1>2, <1>3, <1>11 DEF Load, CreateMissing, Goto, Jobs
  <2> QED BY <1>4, <2>1, <2>2 DEF Unpaid
<1>12. CASE Put(p)
  BY <1>3, <1>12 DEF Put
<1>13. CASE StoreFault(p)
  <2>1. UNCHANGED withdrawals /\ job[p].pc \in {"getRetry", "putRetry"} /\ Goto(p, "conclude")
    BY <1>3, <1>13 DEF StoreFault
  <2>2. job'[p].tran = t /\ job'[p].reply = job[p].reply /\ job'[p].pc = "conclude"
    BY <1>1, <1>2, <2>1 DEF Goto, Jobs
  <2> QED BY <1>4, <2>1, <2>2 DEF Unpaid
<1>14. CASE Accept(p)
  <2>1. job'[p].pc = "await" /\ job'[p].reply = "accepted"
    BY <1>1, <1>2, <1>14 DEF Accept, Asked, Answer, Jobs
  <2> QED BY <2>1 DEF Unpaid
<1>15. CASE RejectDuplicate(p) \/ Refuse(p)
  <2>1. UNCHANGED withdrawals /\ Unpaid(p)
    BY <1>15 DEF RejectDuplicate, Refuse, Asked, Unpaid
  <2>2. job'[p].tran = t
    BY <1>1, <1>2, <1>15 DEF RejectDuplicate, Refuse, Answer, Jobs
  <2> QED BY <1>4, <2>1, <2>2
<1>16. ASSUME NEW u \in TranIDs, Detect(p, u) PROVE FALSE
  BY <1>2, <1>16 DEF Detect, ForwardCall, Unpaid, Idle
<1> QED
  BY <1>5, <1>6, <1>7, <1>8, <1>9, <1>10, <1>11, <1>12, <1>13, <1>14, <1>15, <1>16
     DEF WorkerStep, Reply

LEMMA UnpaidNext ==
  ASSUME DefiniteAnswers, TypeInv, OneCallPerTransfer, PaidInv, [Next]_vars
  PROVE  \A p \in Workers : Unpaid(p)' => withdrawals'[job'[p].tran] = <<>>
<1> DEFINE Goal(p) == Unpaid(p)' => withdrawals'[job'[p].tran] = <<>>
<1>1. ASSUME NEW q \in Workers, job'[q] = job[q] PROVE Goal(q)
  <2>1. Unpaid(q)' => Unpaid(q)
    BY <1>1 DEF Unpaid
  <2> QED BY <1>1, <2>1, OtherUnpaid
<1>2. ASSUME NEW p \in Workers,
             WorkerStep(p) \/ Reply(p) \/ \E t \in TranIDs : Detect(p, t)
      PROVE  \A q \in Workers : Goal(q)
  <2>1. Goal(p)
    BY <1>2, UnpaidStep, NoStrays
  <2> QED BY <1>1, <1>2, <2>1, OthersStay
<1>3. CASE UNCHANGED job
  BY <1>1, <1>3
<1>4. ASSUME NEW t \in TranIDs, ForwardCall(Main, t)
      PROVE  \A q \in Workers : Goal(q)
  <2>1. job'[Main].pc = "layer1" /\ \A q \in Workers \ {Main} : job'[q] = job[q]
    BY <1>4, WorkersAssumption DEF ForwardCall, Becomes, TypeInv, JobInv, Idle
  <2>2. Goal(Main)
    BY <2>1 DEF Unpaid
  <2> QED BY <1>1, <2>1, <2>2
<1>5. CASE job' = [p \in Workers |-> Idle]
  BY <1>5 DEF Unpaid, Idle
<1> QED BY <1>2, <1>3, <1>4, <1>5, JobsOtherwise

LEMMA AtMostOneNext ==
  ASSUME DefiniteAnswers, TypeInv, FreshInv, PaidInv, [Next]_vars, NEW t \in TranIDs
  PROVE  Len(withdrawals'[t]) <= 1
<1>1. withdrawals[t] \in Seq(WithdrawalStatus) /\ Len(withdrawals[t]) <= 1
  BY DEF TypeInv, TypeOK, PaidInv
<1>2. CASE Accepted(t)
  <2>1. withdrawals'[t] = Append(<<>>, "processing")
    BY <1>2, AcceptedWhen DEF Accepted
  <2> QED BY <2>1
<1>3. CASE Settled(t)
  BY <1>1, <1>3 DEF Settled
<1> QED BY <1>1, <1>2, <1>3, PayoutMoves

(* A call writes FAILED only where Binance holds nothing, the poller only  *)
(* where the one withdrawal failed.                                        *)
LEMMA FailedNext ==
  ASSUME DefiniteAnswers, TypeInv, FreshInv, PaidInv, [Next]_vars, NEW t \in TranIDs,
         transfers'[t].status = "FAILED"
  PROVE  AllFailed(withdrawals'[t])
<1>1. CASE transfers[t].status = "FAILED"
  BY <1>1, AllFailedStays DEF PaidInv
<1>2. ASSUME NEW p \in Workers, Put(p), job[p].tran = t, job[p].rec.status = "FAILED"
      PROVE  AllFailed(withdrawals'[t])
  <2>1. Unpaid(p)
    BY <1>2 DEF FreshInv, CallFresh, Put, Unpaid
  <2>2. withdrawals'[t] = <<>>
    BY <1>2, <2>1 DEF PaidInv, Put, binance
  <2> QED BY <2>2 DEF AllFailed
<1>3. CASE PollPut /\ poll.tran = t /\ poll.rec.status = "FAILED"
  BY <1>3 DEF PaidInv, PollPut, binance
<1>4. ~ LoseStore
  BY DEF LoseStore, Unknown, Record
<1> QED BY <1>1, <1>2, <1>3, <1>4, StatusWrites DEF StatusWritten, Moves

LEMMA PollFailedNext ==
  ASSUME DefiniteAnswers, TypeInv, FreshInv, PaidInv, [Next]_vars,
         poll'.pc = "put", poll'.rec.status = "FAILED"
  PROVE  AllFailed(withdrawals'[poll'.tran])
<1>1. poll \in Polls /\ withdrawals \in [TranIDs -> Seq(WithdrawalStatus)]
  BY DEF TypeInv, TypeOK, PollInv
<1>2. \A t \in TranIDs : poll' # Polled(t)
  BY <1>1 DEF Polled, Polls
<1>3. ASSUME NEW t \in poll.queue, PollQuery(t) PROVE AllFailed(withdrawals'[poll'.tran])
  <2> DEFINE rec == poll.snapshot[t]
  <2>1. t \in TranIDs /\ rec \in Records /\ UNCHANGED withdrawals
    BY <1>1, <1>3 DEF Polls, PollQuery, binance
  <2>2. PICK i \in DOMAIN withdrawals[t] :
          \/ withdrawals[t][i] = "completed"
             /\ poll' = [poll EXCEPT !.pc = "put", !.tran = t, !.rec = ToCompleted(rec)]
          \/ withdrawals[t][i] = "failed"
             /\ poll' = [poll EXCEPT !.pc = "put", !.tran = t,
                                     !.rec = ToFailed(rec, "withdrawalFailed")]
    BY <1>2, <1>3, <2>1 DEF PollQuery
  <2>3. poll'.tran = t /\ withdrawals[t][i] = "failed"
    BY <1>1, <2>1, <2>2 DEF Polls, ToCompleted, Records
  <2>4. DOMAIN withdrawals[t] = {i}
    BY <1>1, <2>1, AtMostOneIsFirst DEF PaidInv
  <2> QED BY <2>1, <2>3, <2>4 DEF AllFailed
<1>4. CASE UNCHANGED poll
  <2>1. poll.tran \in TranIDs /\ transfers[poll.tran].status = "FORWARDED"
    BY <1>4 DEF TypeInv, PollInv, FreshInv, PollFresh, SnapshotFresh
  <2> QED BY <1>4, <2>1, AllFailedStays DEF PaidInv
<1>5. ~ PollRound /\ ~ Crash /\ ~ Exit
  BY RestingType DEF PollRound, Crash, Exit, ProcessEnds, Resting, Polls
<1>6. ~ PollPut /\ ~ PollPutFault /\ ~ PollAudit
  <2>1. poll.pc # "query" => poll.tran \in TranIDs
    BY DEF TypeInv, PollInv
  <2> QED BY <1>1, <1>2, <2>1 DEF PollPut, PollPutFault, PollAudit, Polls
<1> QED BY <1>3, <1>4, <1>5, <1>6, PollerMoves DEF PollStep

LEMMA PaidNext ==
  ASSUME DefiniteAnswers
  PROVE  TypeInv /\ FreshInv /\ OneCallPerTransfer /\ PaidInv /\ [Next]_vars => PaidInv'
BY UnpaidNext, AtMostOneNext, FailedNext, PollFailedNext DEF PaidInv

LEMMA PaidAlways ==
  ASSUME DefiniteAnswers
  PROVE  Spec /\ []OneCallPerTransfer => []PaidInv
BY PaidInit, PaidNext, TypeAlways, FreshAlways, PTL DEF Spec

(* Forward's two checks alone, with no duplicate rejection by Binance, pay *)
(* a transfer at most once, through crashes, failing queries, a failing    *)
(* store and the loss of the file, provided that no two calls handle it at *)
(* once and that errors of Withdraw are what they say.                     *)
THEOREM PaidAtMostOnce ==
  DefiniteAnswers => (Spec /\ []OneCallPerTransfer => []AtMostOneWithdrawal)
<1> SUFFICES ASSUME DefiniteAnswers
             PROVE  Spec /\ []OneCallPerTransfer => []AtMostOneWithdrawal
  OBVIOUS
<1>1. PaidInv => AtMostOneWithdrawal
  BY DEF PaidInv, AtMostOneWithdrawal
<1> QED BY <1>1, PaidAlways, PTL

(* Under the same conditions a FAILED record never hides a withdrawal that *)
(* pays out: Forward writes FAILED only when Binance holds nothing for the *)
(* transfer, and the poller when its only withdrawal failed.               *)
THEOREM FailedIsNotPaid ==
  DefiniteAnswers => (Spec /\ []OneCallPerTransfer => []FailedHasNoLiveWithdrawal)
<1> SUFFICES ASSUME DefiniteAnswers
             PROVE  Spec /\ []OneCallPerTransfer => []FailedHasNoLiveWithdrawal
  OBVIOUS
<1>1. PaidInv => FailedHasNoLiveWithdrawal
  BY DEF PaidInv, AllFailed, FailedHasNoLiveWithdrawal
<1> QED BY <1>1, PaidAlways, PTL

-----------------------------------------------------------------------------
(* Refinement of TransferLifecycle *)

LEMMA StatusBar ==
  ASSUME NEW t \in TranIDs, \A u \in TranIDs \ {t} : transfers'[u] = transfers[u]
  PROVE  statusBar' = [statusBar EXCEPT ![t] = transfers'[t].status]
BY DEF statusBar

LEMMA PayoutBar ==
  ASSUME NEW t \in TranIDs, \A u \in TranIDs \ {t} : withdrawals'[u] = withdrawals[u]
  PROVE  payoutBar' = [payoutBar EXCEPT ![t] = Payout(withdrawals'[t])]
BY DEF payoutBar

LEMMA PayoutIs ==
  /\ Payout(<<>>) = "none"
  /\ \A w \in Seq(WithdrawalStatus) : Len(w) = 1 => Payout(w) = w[1]
BY DEF Payout

LEMMA LifecycleInit == Init => Lifecycle!Init
BY PayoutIs DEF Init, Lifecycle!Init, statusBar, payoutBar, Unknown, Record

(* A write to the store is Record, Forward, Complete or Fail, the loss of  *)
(* the file is Forget.                                                     *)
LEMMA StoreWriteRefines ==
  ASSUME TypeInv, FreshInv, EvidenceInv, PaidInv, [Next]_vars, StoreWrites
  PROVE  Lifecycle!Next \/ UNCHANGED <<statusBar, payoutBar>>
<1>1. /\ transfers \in [TranIDs -> Records]
      /\ withdrawals \in [TranIDs -> Seq(WithdrawalStatus)]
  BY DEF TypeInv, TypeOK
<1>2. UNCHANGED withdrawals
  BY DEF StoreWrites, CreatePending, CreateMissing, UpdateRetryCount, Put, PollPut,
     LoseStore, binance
<1>3. UNCHANGED payoutBar
  BY <1>2 DEF payoutBar
<1>4. \A t \in TranIDs : statusBar[t] = transfers[t].status
                         /\ payoutBar[t] = Payout(withdrawals[t])
  BY DEF statusBar, payoutBar
<1>5. CASE LoseStore
  <2>1. statusBar' = [t \in TranIDs |-> "UNKNOWN"]
    BY <1>5 DEF LoseStore, statusBar, Unknown, Record
  <2>2. Lifecycle!Forget
    BY <1>3, <2>1 DEF Lifecycle!Forget
  <2> QED BY <2>2 DEF Lifecycle!Next
<1>6. ASSUME NEW t \in TranIDs, \A u \in TranIDs \ {t} : transfers'[u] = transfers[u]
      PROVE  Lifecycle!Next \/ UNCHANGED <<statusBar, payoutBar>>
  <2>1. statusBar' = [statusBar EXCEPT ![t] = transfers'[t].status]
    BY <1>6, StatusBar
  <2>2. CASE transfers'[t].status = transfers[t].status
    BY <1>3, <2>1, <2>2 DEF statusBar
  <2>3. CASE Moves(t, "UNKNOWN", "PENDING")
    <3>1. Lifecycle!Record(t)
      BY <1>3, <1>4, <2>1, <2>3 DEF Moves, Lifecycle!Record, Lifecycle!Becomes
    <3> QED BY <3>1 DEF Lifecycle!Next
  <2>4. ASSUME NEW p \in Workers, job[p].tran = t, Put(p),
               Moves(t, "PENDING", job[p].rec.status)
        PROVE  Lifecycle!Next
    <3>1. CASE job[p].rec.status = "FAILED"
      <4>1. withdrawals[t] = <<>>
        BY <2>4, <3>1 DEF PaidInv, Unpaid, FreshInv, CallFresh, Put
      <4>2. Lifecycle!Fail(t)
        BY <1>3, <1>4, <2>1, <2>4, <3>1, <4>1, PayoutIs
           DEF Moves, Lifecycle!Fail, Lifecycle!Becomes
      <4> QED BY <4>2 DEF Lifecycle!Next
    <3>2. CASE job[p].rec.status = "FORWARDED"
      <4>1. PICK i : i \in DOMAIN withdrawals[t]
        BY <2>4, <3>2 DEF EvidenceInv, CallBacked, Backed, Put
      <4>2. payoutBar[t] = withdrawals[t][1] /\ withdrawals[t][1] \in WithdrawalStatus
        BY <1>1, <1>4, <4>1, AtMostOneIsFirst, PayoutIs DEF PaidInv
      <4>3. Lifecycle!Forward(t)
        BY <1>3, <1>4, <2>1, <2>4, <3>2, <4>2
           DEF Moves, WithdrawalStatus, Lifecycle!Forward, Lifecycle!Becomes
      <4> QED BY <4>3 DEF Lifecycle!Next
    <3> QED BY <2>4, <3>1, <3>2 DEF FreshInv, CallFresh, Put
  <2>5. CASE PollPut /\ poll.tran = t /\ Moves(t, "FORWARDED", poll.rec.status)
    <3>1. PICK i : i \in DOMAIN withdrawals[t]
      BY <2>5 DEF EvidenceInv, Backed, Moves
    <3>2. payoutBar[t] = withdrawals[t][1] /\ DOMAIN withdrawals[t] = {1}
      BY <1>1, <1>4, <3>1, AtMostOneIsFirst, PayoutIs DEF PaidInv
    <3>3. CASE poll.rec.status = "COMPLETED"
      <4>1. withdrawals[t][1] = "completed"
        BY <2>5, <3>2, <3>3 DEF EvidenceInv, PollBacked, Backed, Completed, PollPut
      <4>2. Lifecycle!Complete(t)
        BY <1>3, <1>4, <2>1, <2>5, <3>2, <3>3, <4>1
           DEF Moves, Lifecycle!Complete, Lifecycle!Becomes
      <4> QED BY <4>2 DEF Lifecycle!Next
    <3>4. CASE poll.rec.status = "FAILED"
      <4>1. withdrawals[t][1] = "failed"
        BY <2>5, <3>2, <3>4 DEF PaidInv, AllFailed, PollPut
      <4>2. Lifecycle!Fail(t)
        BY <1>3, <1>4, <2>1, <2>5, <3>2, <3>4, <4>1
           DEF Moves, Lifecycle!Fail, Lifecycle!Becomes
      <4> QED BY <4>2 DEF Lifecycle!Next
    <3> QED BY <2>5, <3>3, <3>4 DEF FreshInv, PollFresh, PollPut
  <2>6. CASE LoseStore
    BY <1>5, <2>6
  <2> QED BY <2>2, <2>3, <2>4, <2>5, <2>6, StatusWrites DEF StatusWritten
<1>7. ASSUME NEW p \in Workers,
             CreatePending(p) \/ CreateMissing(p) \/ UpdateRetryCount(p) \/ Put(p)
      PROVE  /\ job[p].tran \in TranIDs
             /\ \A u \in TranIDs \ {job[p].tran} : transfers'[u] = transfers[u]
  <2>1. job[p].tran \in TranIDs
    BY <1>7 DEF TypeInv, JobInv, Held, CreatePending, CreateMissing, UpdateRetryCount, Put
  <2> QED BY <1>1, <1>7, <2>1 DEF CreatePending, CreateMissing, UpdateRetryCount, Put,
          StoreCreate, StoreUpdate
<1>8. CASE PollPut
  <2>1. poll.tran \in TranIDs
    BY <1>8 DEF TypeInv, PollInv, PollPut
  <2>2. \A u \in TranIDs \ {poll.tran} : transfers'[u] = transfers[u]
    BY <1>1, <1>8, <2>1 DEF PollPut, StoreUpdate
  <2> QED BY <1>6, <2>1, <2>2
<1> QED BY <1>5, <1>6, <1>7, <1>8 DEF StoreWrites

LEMMA OneLong ==
  ASSUME NEW w \in Seq(WithdrawalStatus), 1 \in DOMAIN w, \A i \in DOMAIN w : i = 1
  PROVE  Len(w) = 1
<1>1. \A n \in Nat : n = 0 => 1 \notin 1..n
  OBVIOUS
<1>2. \A n \in Nat : n # 0 => n \in 1..n
  OBVIOUS
<1>3. Len(w) \in Nat /\ DOMAIN w = 1..Len(w)
  OBVIOUS
<1>4. Len(w) # 0
  BY <1>1, <1>3
<1>5. Len(w) \in DOMAIN w
  BY <1>2, <1>3, <1>4
<1> QED BY <1>5

(* What Binance does is Pay or Settle.                                     *)
LEMMA PayoutRefines ==
  ASSUME DefiniteAnswers, TypeInv, FreshInv, PaidInv, [Next]_vars, UNCHANGED transfers
  PROVE  Lifecycle!Next \/ UNCHANGED <<statusBar, payoutBar>>
<1>1. withdrawals \in [TranIDs -> Seq(WithdrawalStatus)]
  BY DEF TypeInv, TypeOK
<1>2. UNCHANGED statusBar
  BY DEF statusBar
<1>3. \A t \in TranIDs : statusBar[t] = transfers[t].status
                         /\ payoutBar[t] = Payout(withdrawals[t])
  BY DEF statusBar, payoutBar
<1>4. ASSUME NEW p \in Workers, Accept(p) PROVE Lifecycle!Next
  <2> DEFINE t == job[p].tran
  <2>1. t \in TranIDs
    BY <1>4 DEF TypeInv, JobInv, Held, Accept, Asked
  <2>2. transfers[t].status = "PENDING" /\ withdrawals[t] = <<>>
    BY <1>4 DEF Accept, Asked, FreshInv, CallFresh, PaidInv, Unpaid
  <2>3. /\ withdrawals'[t] = Append(withdrawals[t], "processing")
        /\ \A u \in TranIDs \ {t} : withdrawals'[u] = withdrawals[u]
    BY <1>1, <1>4, <2>1 DEF Accept
  <2>4. withdrawals'[t] = <<"processing">>
    BY <2>2, <2>3
  <2>5. Payout(withdrawals'[t]) = "processing"
    BY <2>4 DEF Payout
  <2>6. payoutBar' = [payoutBar EXCEPT ![t] = "processing"]
    BY <2>1, <2>3, <2>5, PayoutBar
  <2>7. Lifecycle!Pay(t)
    BY <1>2, <1>3, <2>1, <2>2, <2>6, PayoutIs DEF Lifecycle!Pay
  <2> QED BY <2>1, <2>7 DEF Lifecycle!Next
<1>5. ASSUME NEW t \in TranIDs, Settle(t) PROVE Lifecycle!Next
  <2>1. PICK i \in DOMAIN withdrawals[t], s \in {"completed", "failed"} :
          /\ withdrawals[t][i] = "processing"
          /\ withdrawals' = [withdrawals EXCEPT ![t][i] = s]
    BY <1>5 DEF Settle
  <2>2. i = 1 /\ Len(withdrawals[t]) = 1 /\ DOMAIN withdrawals[t] = {1}
    BY <1>1, AtMostOneIsFirst DEF PaidInv
  <2>3. /\ withdrawals'[t] = [withdrawals[t] EXCEPT ![1] = s]
        /\ \A u \in TranIDs \ {t} : withdrawals'[u] = withdrawals[u]
    BY <1>1, <2>1, <2>2
  <2>4. /\ withdrawals'[t] \in Seq(WithdrawalStatus) /\ Len(withdrawals'[t]) = 1
        /\ withdrawals'[t][1] = s
    <3>1. withdrawals'[t] \in Seq(WithdrawalStatus)
      BY WithdrawalsType
    <3>2. /\ 1 \in DOMAIN withdrawals'[t] /\ \A n \in DOMAIN withdrawals'[t] : n = 1
          /\ withdrawals'[t][1] = s
      BY <2>2, <2>3
    <3> QED BY <3>1, <3>2, OneLong
  <2>5. payoutBar' = [payoutBar EXCEPT ![t] = s]
    BY <2>3, <2>4, PayoutBar, PayoutIs
  <2>6. payoutBar[t] = "processing"
    BY <1>1, <1>3, <2>1, <2>2, PayoutIs
  <2>7. Lifecycle!Settle(t, s)
    BY <1>2, <2>5, <2>6 DEF Lifecycle!Settle
  <2> QED BY <2>7 DEF Lifecycle!Next
<1>6. (\A t \in TranIDs : withdrawals'[t] = withdrawals[t]) => UNCHANGED payoutBar
  BY DEF payoutBar
<1>7. \A t \in TranIDs : Vanish(t) => UNCHANGED withdrawals
  BY DEF Vanish
<1>8. Crash \/ Exit => UNCHANGED withdrawals
  BY DEF Crash, Exit, ProcessEnds
<1> QED BY <1>2, <1>4, <1>5, <1>6, <1>7, <1>8, BinanceMoves, NoStrays

(* Every step of the service is a step of the lifecycle in DESIGN.md and   *)
(* internal/model/transfer.go, or none: a transfer is recorded before it   *)
(* is paid, paid at most once, FORWARDED once paid, COMPLETED or FAILED as *)
(* Binance settled it, FAILED unpaid only if it is never paid, and all of  *)
(* it again from the history after the file was lost.                      *)
THEOREM Refinement ==
  DefiniteAnswers => (Spec /\ []OneCallPerTransfer => ImplementsLifecycle)
<1> SUFFICES ASSUME DefiniteAnswers
             PROVE  Spec /\ []OneCallPerTransfer => ImplementsLifecycle
  OBVIOUS
<1>1. TypeInv /\ FreshInv /\ EvidenceInv /\ PaidInv /\ [Next]_vars
        => [Lifecycle!Next]_(Lifecycle!vars)
  BY StoreWriteRefines, PayoutRefines, OnlyStoreWrites DEF Lifecycle!vars
<1> QED
  BY <1>1, LifecycleInit, TypeAlways, FreshAlways, EvidenceAlways, PaidAlways, PTL
     DEF Spec, ImplementsLifecycle, Lifecycle!Spec

-----------------------------------------------------------------------------
(* Recovery *)

(* Neither the history query nor the store fails: with one pass of         *)
(* RecoverPending, a failure there is a transfer left for the next start.  *)
SourcesAnswer == ~ QueryFaults /\ ~ StoreFaults

InHand(t) ==
  t \in recoverQ \/ \E p \in Workers : job[p].pc # "idle" /\ job[p].tran = t

PaidButPending(t) == transfers[t].status = "PENDING" /\ withdrawals[t] # <<>>

RecoveryInv ==
  /\ phase \in {"starting", "serving", "stopping"} => recoverQ = {}
  /\ phase # "down" => \A t \in TranIDs : PaidButPending(t) => InHand(t)

LEMMA PhaseMoves ==
  [Next]_vars =>
    \/ Boot \/ StartDetector \/ Crash \/ Exit
    \/ \E t \in TranIDs : RecoverNext(t)
    \/ UNCHANGED recoverQ /\ (StartPoller \/ Shutdown \/ UNCHANGED phase)
<1> USE DEF process
<1>1. ASSUME NEW p \in Workers,
             WorkerStep(p) \/ Reply(p) \/ \E t \in TranIDs : Detect(p, t)
      PROVE  UNCHANGED process
  BY <1>1 DEF WorkerStep, Layer1, Layer2, EnsurePending, CreatePending, Withdraw,
     Backoff, LoopEnds, Wake, Canceled, GetForRetryCount, UpdateRetryCount, Conclude,
     Load, CreateMissing, Put, StoreFault, Reply, Accept, RejectDuplicate, Refuse,
     LoseAnswer, Detect
<1>2. \A t \in TranIDs : Land(t) \/ Vanish(t) \/ Settle(t) => UNCHANGED process
  BY DEF Land, Vanish, Settle
<1>3. PollRound \/ PollStep \/ LoseStore => UNCHANGED process
  BY DEF PollRound, PollStep, PollQuery, PollPut, PollPutFault, PollAudit, LoseStore
<1>4. StartPoller \/ Shutdown \/ UNCHANGED vars => UNCHANGED recoverQ
  BY DEF StartPoller, Shutdown, vars
<1>5. UNCHANGED vars => UNCHANGED phase
  BY DEF vars
<1> QED BY <1>1, <1>2, <1>3, <1>4, <1>5 DEF Next

(* Forward does not return leaving a transfer paid but PENDING.            *)
LEMMA ReturnsResolved ==
  ASSUME SourcesAnswer, TypeInv, FreshInv, EvidenceInv, PaidInv, NEW p \in Workers,
         WorkerStep(p), job'[p].pc = "idle"
  PROVE  ~ (transfers'[job[p].tran].status = "PENDING" /\ withdrawals'[job[p].tran] # <<>>)
<1> DEFINE t == job[p].tran
<1>1. /\ job \in [Workers -> Jobs] /\ job[p] \in Jobs /\ Held(job[p])
      /\ transfers \in [TranIDs -> Records]
      /\ withdrawals \in [TranIDs -> Seq(WithdrawalStatus)]
  BY DEF TypeInv, TypeOK, JobInv
<1>2. \A j : Becomes(p, j) => job'[p] = j
  BY <1>1 DEF Becomes
<1>3. \A step \in Steps \ {"idle"} : ~ Goto(p, step)
  BY <1>1, <1>2 DEF Goto, Jobs
<1> USE DEF binance
<1>4. CASE Layer1(p) \/ EnsurePending(p)
  <2>1. UNCHANGED transfers /\ AlreadyProcessed(transfers[t].status)
    BY <1>3, <1>4 DEF Layer1, EnsurePending, Steps
  <2> QED BY <2>1 DEF AlreadyProcessed, IsTerminal
<1>5. ~ Layer2(p)
  <2>1. \A i : ~ Becomes(p, [job[p] EXCEPT !.pc = "load", !.goal = "adopt", !.id = i])
    BY <1>1, <1>2 DEF Jobs
  <2>2. ~ Becomes(p, [job[p] EXCEPT !.pc = "load", !.goal = "fail",
                             !.reply = "noDestination"])
    BY <1>1, <1>2 DEF Jobs
  <2> QED BY <1>3, <2>1, <2>2 DEF Layer2, SourcesAnswer, Steps
<1>6. ~ (CreatePending(p) \/ Backoff(p) \/ LoopEnds(p) \/ UpdateRetryCount(p)
         \/ CreateMissing(p))
  BY <1>3 DEF CreatePending, Backoff, LoopEnds, AfterLoop, UpdateRetryCount,
     CreateMissing, Steps
<1>7. ~ (Withdraw(p) \/ Wake(p) \/ Canceled(p))
  BY <1>1, <1>2 DEF Withdraw, Wake, Canceled, AfterLoop, Jobs
<1>8. ~ GetForRetryCount(p)
  BY <1>1, <1>2, <1>3 DEF GetForRetryCount, Jobs, Steps
<1>9. CASE Conclude(p)
  <2>1. job[p].pc = "conclude" /\ job[p].reply \in FailureKinds /\ UNCHANGED withdrawals
    BY <1>1, <1>2, <1>9 DEF Conclude, Jobs
  <2>2. Unpaid(p)
    BY <2>1, KindsType DEF Unpaid
  <2> QED BY <2>1, <2>2 DEF PaidInv
<1>10. CASE Load(p)
  <2>1. t \in TranIDs /\ job[p].goal # "none" /\ UNCHANGED transfers
    BY <1>1, <1>10 DEF Load, Held
  <2>2. CASE transfers[t].status = "UNKNOWN"
    BY <2>1, <2>2
  <2>3. CASE ~ Allowed(p, transfers[t])
    <3>1. job[p].goal # "fail" => job[p].id # 0
      <4>1. job[p].goal # "fail" => job[p].id \in DOMAIN withdrawals[t]
        BY <1>1, <1>10, <2>1 DEF EvidenceInv, CallBacked, Load, Jobs
      <4> QED BY <1>1, <2>1, <4>1
    <3>2. transfers[t].status # "PENDING"
      BY <2>3, <3>1 DEF Allowed, MayFail, MayForward, CanTransitionTo, ValidTransitions
    <3> QED BY <2>1, <3>2
  <2>4. \A r : ~ Becomes(p, [job[p] EXCEPT !.pc = "put", !.rec = r])
    BY <1>1, <1>2 DEF Jobs
  <2> QED BY <1>10, <2>2, <2>3, <2>4 DEF Load
<1>11. CASE Put(p)
  <2>1. /\ t \in TranIDs /\ StoreUpdate(t, job[p].rec)
        /\ transfers[t].status = "PENDING" /\ job[p].rec.status # "PENDING"
    BY <1>1, <1>11 DEF Put, Held, FreshInv, CallFresh
  <2>2. transfers'[t].status # "PENDING"
    BY <1>1, <2>1 DEF StoreUpdate
  <2> QED BY <2>2
<1>12. ~ StoreFault(p)
  BY DEF StoreFault, SourcesAnswer
<1> QED BY <1>4, <1>5, <1>6, <1>7, <1>8, <1>9, <1>10, <1>11, <1>12 DEF WorkerStep

(* A call works for one transfer until it returns.                         *)
LEMMA StaysAtTransfer ==
  ASSUME TypeInv, NEW p \in Workers, WorkerStep(p) \/ Reply(p), job'[p].pc # "idle"
  PROVE  job'[p].tran = job[p].tran
<1>1. job \in [Workers -> Jobs] /\ job[p] \in Jobs
  BY DEF TypeInv, JobInv
<1>2. \A j : Becomes(p, j) => job'[p] = j
  BY <1>1 DEF Becomes
<1>3. ~ Return(p)
  BY <1>2 DEF Return, Idle
<1>4. CASE \/ Layer1(p) \/ Layer2(p) \/ EnsurePending(p) \/ CreatePending(p)
           \/ Withdraw(p) \/ Backoff(p) \/ LoopEnds(p) \/ Wake(p)
  BY <1>1, <1>2, <1>3, <1>4 DEF Layer1, Layer2, EnsurePending, CreatePending, Withdraw,
     Backoff, LoopEnds, Wake, Goto, Jobs
<1>5. CASE \/ Canceled(p) \/ GetForRetryCount(p) \/ UpdateRetryCount(p) \/ Conclude(p)
           \/ Load(p) \/ CreateMissing(p) \/ Put(p) \/ StoreFault(p)
  BY <1>1, <1>2, <1>3, <1>5 DEF Canceled, GetForRetryCount, UpdateRetryCount, Conclude,
     Load, CreateMissing, Put, StoreFault, Goto, Jobs
<1>6. CASE Reply(p)
  BY <1>1, <1>2, <1>6 DEF Reply, Accept, RejectDuplicate, Refuse, LoseAnswer, Answer, Jobs
<1> QED BY <1>4, <1>5, <1>6 DEF WorkerStep

LEMMA JobMoves ==
  [Next]_vars =>
    \/ \E p \in Workers : WorkerStep(p) \/ Reply(p) \/ \E t \in TranIDs : Detect(p, t)
    \/ \E t \in TranIDs : RecoverNext(t)
    \/ Crash \/ Exit
    \/ UNCHANGED job
<1>1. \A t \in TranIDs : Land(t) \/ Vanish(t) \/ Settle(t) => UNCHANGED job
  BY DEF Land, Vanish, Settle
<1>2. PollRound \/ PollStep => UNCHANGED job
  BY DEF PollRound, PollStep, PollQuery, PollPut, PollPutFault, PollAudit
<1>3. Boot \/ StartDetector \/ StartPoller \/ Shutdown \/ LoseStore => UNCHANGED job
  BY DEF Boot, StartDetector, StartPoller, Shutdown, LoseStore
<1>4. UNCHANGED vars => UNCHANGED job
  BY DEF vars
<1> QED BY <1>1, <1>2, <1>3, <1>4 DEF Next

(* A transfer becomes PENDING, and is paid, in the hands of a call.        *)
LEMMA BecomesPaidButPending ==
  ASSUME DefiniteAnswers, TypeInv, FreshInv, [Next]_vars, NEW t \in TranIDs,
         ~ PaidButPending(t), PaidButPending(t)'
  PROVE  InHand(t)'
<1>1. ASSUME NEW p \in Workers, job[p].tran = t, CreatePending(p) \/ CreateMissing(p)
      PROVE  job'[p].pc # "idle" /\ job'[p].tran = t
  BY <1>1 DEF CreatePending, CreateMissing, Goto, Becomes, TypeInv, JobInv, Jobs
<1>2. ASSUME NEW p \in Workers, job[p].tran = t, Accept(p)
      PROVE  job'[p].pc # "idle" /\ job'[p].tran = t
  BY <1>2 DEF Accept, Asked, Answer, Becomes, TypeInv, JobInv, Jobs
<1>3. CASE transfers'[t].status # transfers[t].status
  <2>1. transfers'[t].status = "PENDING"
    BY DEF PaidButPending
  <2>2. \A p \in Workers : Put(p) => job[p].rec.status # "PENDING"
    BY DEF FreshInv, CallFresh, Put
  <2>3. PollPut => poll.rec.status # "PENDING"
    BY DEF FreshInv, PollFresh, PollPut
  <2>4. ~ LoseStore
    BY <2>1 DEF LoseStore, Unknown, Record
  <2> QED BY <1>1, <1>3, <2>1, <2>2, <2>3, <2>4, StatusWrites
          DEF StatusWritten, Moves, InHand
<1>4. CASE transfers'[t].status = transfers[t].status
  <2>1. withdrawals[t] = <<>> /\ withdrawals'[t] # <<>>
    BY <1>4 DEF PaidButPending
  <2>2. ~ Settled(t)
    BY <2>1 DEF Settled
  <2>3. Accepted(t)
    BY <2>1, <2>2, PayoutMoves
  <2> QED BY <1>2, <2>3 DEF Accepted, InHand
<1> QED BY <1>3, <1>4

(* It stays in hand until it is neither.                                   *)
LEMMA InHandStays ==
  ASSUME SourcesAnswer, TypeInv, FreshInv, EvidenceInv, PaidInv, [Next]_vars,
         NEW t \in TranIDs, InHand(t), PaidButPending(t)', phase # "down", phase' # "down"
  PROVE  InHand(t)'
<1>1. ~ Boot /\ ~ Crash /\ ~ Exit
  BY DEF Boot, Crash, Exit, ProcessEnds
<1>2. ASSUME NEW u \in TranIDs, RecoverNext(u) PROVE InHand(t)'
  <2>1. /\ job'[Main].pc = "layer1" /\ job'[Main].tran = u /\ job[Main].pc = "idle"
        /\ \A q \in Workers \ {Main} : job'[q] = job[q]
        /\ recoverQ' = recoverQ \ {u}
    BY <1>2, WorkersAssumption DEF RecoverNext, ForwardCall, Becomes, TypeInv, JobInv, Idle
  <2> QED BY <2>1, WorkersAssumption DEF InHand
<1>3. CASE UNCHANGED recoverQ /\ t \in recoverQ
  BY <1>3 DEF InHand
<1>4. ASSUME UNCHANGED recoverQ, \A u \in TranIDs : ~ RecoverNext(u),
             NEW q \in Workers, job[q].pc # "idle", job[q].tran = t
      PROVE  InHand(t)'
  <2>1. CASE job'[q] = job[q]
    BY <1>4, <2>1 DEF InHand
  <2>2. CASE WorkerStep(q)
    <3>1. job'[q].pc # "idle"
      BY <1>4, <2>2, ReturnsResolved DEF PaidButPending
    <3> QED BY <1>4, <2>2, <3>1, StaysAtTransfer DEF InHand
  <2>3. CASE Reply(q)
    <3>1. job[q].pc = "await"
      BY <2>3 DEF Reply, Accept, RejectDuplicate, Refuse, LoseAnswer, Asked
    <3>2. \E reply, id : Answer(q, reply, id)
      BY <2>3 DEF Reply, Accept, RejectDuplicate, Refuse, LoseAnswer
    <3>3. job'[q].pc # "idle"
      BY <3>1, <3>2 DEF Answer, Becomes, TypeInv, JobInv, Jobs
    <3> QED BY <1>4, <2>3, <3>3, StaysAtTransfer DEF InHand
  <2>4. \A u \in TranIDs : ~ Detect(q, u)
    BY <1>4 DEF Detect
  <2> QED BY <1>1, <1>4, <2>1, <2>2, <2>3, <2>4, JobMoves, OthersStay
<1>5. StartDetector => UNCHANGED recoverQ
  BY DEF StartDetector
<1> QED BY <1>1, <1>2, <1>3, <1>4, <1>5, PhaseMoves DEF InHand

LEMMA RecoveryNext ==
  ASSUME DefiniteAnswers, SourcesAnswer
  PROVE  TypeInv /\ FreshInv /\ EvidenceInv /\ PaidInv /\ RecoveryInv /\ [Next]_vars
           => RecoveryInv'
<1> SUFFICES ASSUME TypeInv, FreshInv, EvidenceInv, PaidInv, RecoveryInv, [Next]_vars
             PROVE  RecoveryInv'
  OBVIOUS
<1>1. phase' \in {"starting", "serving", "stopping"} => recoverQ' = {}
  <2>1. Boot \/ (\E t \in TranIDs : RecoverNext(t)) => phase' = "recovering"
    BY DEF Boot, RecoverNext
  <2>2. Crash \/ Exit => phase' = "down"
    BY DEF Crash, Exit, ProcessEnds
  <2>3. StartDetector => recoverQ' = {}
    BY DEF StartDetector
  <2>4. StartPoller \/ Shutdown => phase \in {"starting", "serving"}
    BY DEF StartPoller, Shutdown
  <2> QED BY <2>1, <2>2, <2>3, <2>4, PhaseMoves DEF RecoveryInv
<1>2. ASSUME phase' # "down", NEW t \in TranIDs, PaidButPending(t)'
      PROVE  InHand(t)'
  <2>1. CASE Boot
    <3>1. UNCHANGED transfers /\ recoverQ' = WithStatus("PENDING")
      BY <2>1 DEF Boot, SourcesAnswer
    <3> QED BY <1>2, <3>1 DEF PaidButPending, WithStatus, InHand
  <2>2. CASE ~ PaidButPending(t)
    BY <1>2, <2>2, BecomesPaidButPending
  <2>3. CASE PaidButPending(t) /\ phase # "down"
    BY <1>2, <2>3, InHandStays DEF RecoveryInv
  <2>4. phase = "down" => Boot
    BY <1>2, PhaseMoves DEF StartDetector, Crash, Exit, ProcessEnds, RecoverNext,
       StartPoller, Shutdown
  <2> QED BY <2>1, <2>2, <2>3, <2>4
<1> QED BY <1>1, <1>2 DEF RecoveryInv

(* Recovery is complete.  From the moment a boot has queued the PENDING    *)
(* records, one that Binance has paid is in the queue or in the hands of a *)
(* call of Forward, and no call returns before it is PENDING no more: past *)
(* RecoverPending a PENDING record nobody works on is unpaid, wherever the *)
(* process died before.                                                    *)
THEOREM RecoveryIsComplete ==
  DefiniteAnswers /\ SourcesAnswer =>
    (Spec /\ []OneCallPerTransfer => []NoWithdrawalForgotten)
<1> SUFFICES ASSUME DefiniteAnswers, SourcesAnswer
             PROVE  Spec /\ []OneCallPerTransfer => []NoWithdrawalForgotten
  OBVIOUS
<1>1. Init => RecoveryInv
  BY DEF Init, RecoveryInv
<1>2. RecoveryInv => NoWithdrawalForgotten
  BY DEF RecoveryInv, PaidButPending, InHand, NoWithdrawalForgotten
<1> QED
  BY <1>1, <1>2, RecoveryNext, TypeAlways, FreshAlways, EvidenceAlways, PaidAlways, PTL
     DEF Spec

=============================================================================
