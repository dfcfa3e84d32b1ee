---------------------- MODULE WithdrawalServiceProofs ----------------------
(***************************************************************************)
(* What is proved of WithdrawalService for every set of transfers, every   *)
(* number of callers of Forward, every retry limit and every choice of     *)
(* faults.                                                                 *)
(***************************************************************************)
EXTENDS WithdrawalService, TLAPS

(* What a call of Forward has at hand at each of its steps. *)
Held(j) ==
  /\ j.pc # "idle" => j.tran \in TranIDs
  /\ j.pc \in {"layer1", "layer2", "ensure", "create"} => j.attempt = 0
  /\ j.pc \in {"withdraw", "backoff"} => j.attempt < MaxAttempts
  /\ j.goal # "none" <=> j.pc \in {"load", "createMissing", "put"}
  /\ j.goal = "fail" => j.reply \in FailureKinds \cup {"noDestination"}

JobInv == job \in [Workers -> Jobs] /\ \A p \in Workers : Held(job[p])

PollInv == poll \in Polls /\ (poll.pc # "query" => poll.tran \in TranIDs)

TypeInv == TypeOK /\ JobInv /\ PollInv

-----------------------------------------------------------------------------

LEMMA KindsType == FailureKinds =
  {"timeout", "reset", "refused", "truncated", "malformed", "http503", "http500",
   "rateLimited", "notWhitelisted", "insufficient", "duplicate", "canceled"}
BY DEF FailureKinds, FailureOf

LEMMA FaultKinds == Faults \subseteq FailureKinds
BY FaultsAssumption, KindsType DEF Rejections, Undelivered, Ambiguous

LEMMA UnknownType == Unknown \in Records /\ Pending \in Records
BY DEF Unknown, Pending, Record, Records, Statuses, Reasons

LEMMA IdleType == Idle \in Jobs /\ Held(Idle)
BY UnknownType, AttemptsAssumption DEF Idle, Jobs, Steps, Replies, Held

LEMMA RestingType == Resting \in Polls
BY UnknownType DEF Resting, Polls, NoSnapshot

LEMMA TypeInit == Init => TypeInv
BY IdleType, RestingType, UnknownType, BoundsAssumption
   DEF Init, TypeInv, TypeOK, JobInv, PollInv, Resting, WithdrawalStatus, Phases

(* A step of one caller leaves the others alone. *)
LEMMA JobStep ==
  ASSUME JobInv, NEW p \in Workers, NEW j \in Jobs, Held(j), Becomes(p, j)
  PROVE  JobInv'
BY DEF JobInv, Becomes

LEMMA GotoInv ==
  ASSUME JobInv, NEW p \in Workers, NEW step \in Steps, Goto(p, step),
         Held([job[p] EXCEPT !.pc = step])
  PROVE  JobInv'
<1>1. [job[p] EXCEPT !.pc = step] \in Jobs
  BY DEF JobInv, Jobs
<1> QED BY <1>1, JobStep DEF Goto

LEMMA ReturnInv ==
  ASSUME JobInv, NEW p \in Workers, Return(p)
  PROVE  JobInv'
BY IdleType, JobStep DEF Return

LEMMA ForwardCallInv ==
  ASSUME JobInv, NEW p \in Workers, NEW t \in TranIDs, ForwardCall(p, t)
  PROVE  JobInv'
<1> DEFINE j == [Idle EXCEPT !.pc = "layer1", !.tran = t]
<1>1. j \in Jobs /\ Held(j)
  BY IdleType DEF Jobs, Steps, Held, Idle
<1> QED BY <1>1, JobStep DEF ForwardCall

LEMMA Layer1Inv ==
  ASSUME JobInv, NEW p \in Workers, Layer1(p)
  PROVE  JobInv'
<1>1. CASE Return(p)
  BY <1>1, ReturnInv
<1>2. CASE Goto(p, "layer2")
  BY <1>2, GotoInv DEF Layer1, JobInv, Jobs, Held, Steps
<1> QED BY <1>1, <1>2 DEF Layer1

LEMMA Layer2Inv ==
  ASSUME TypeOK, JobInv, NEW p \in Workers, Layer2(p)
  PROVE  JobInv'
<1> DEFINE t == job[p].tran
<1>1. t \in TranIDs /\ job[p] \in Jobs /\ Held(job[p]) /\ job[p].pc = "layer2"
  BY DEF Layer2, JobInv, Held
<1>2. ASSUME NEW i \in DOMAIN withdrawals[t],
             Becomes(p, [job[p] EXCEPT !.pc = "load", !.goal = "adopt", !.id = i])
      PROVE  JobInv'
  <2>1. i \in Nat
    BY <1>1 DEF TypeOK
  <2>2. [job[p] EXCEPT !.pc = "load", !.goal = "adopt", !.id = i] \in Jobs
    BY <1>1, <2>1 DEF Jobs, Steps
  <2>3. Held([job[p] EXCEPT !.pc = "load", !.goal = "adopt", !.id = i])
    BY <1>1 DEF Jobs, Held
  <2> QED BY <1>2, <2>2, <2>3, JobStep
<1>3. CASE Becomes(p, [job[p] EXCEPT !.pc = "load", !.goal = "fail",
                              !.reply = "noDestination"])
  BY <1>1, <1>3, JobStep DEF Jobs, Steps, Held, Replies
<1>4. CASE Goto(p, "ensure")
  BY <1>1, <1>4, GotoInv DEF Jobs, Steps, Held
<1>5. CASE Return(p)
  BY <1>5, ReturnInv
<1> QED BY <1>2, <1>3, <1>4, <1>5 DEF Layer2

LEMMA EnsurePendingInv ==
  ASSUME JobInv, NEW p \in Workers, EnsurePending(p)
  PROVE  JobInv'
<1>1. CASE Goto(p, "withdraw")
  BY <1>1, GotoInv, AttemptsAssumption DEF EnsurePending, JobInv, Jobs, Held, Steps
<1>2. CASE Goto(p, "create")
  BY <1>2, GotoInv DEF EnsurePending, JobInv, Jobs, Held, Steps
<1>3. CASE Return(p)
  BY <1>3, ReturnInv
<1> QED BY <1>1, <1>2, <1>3 DEF EnsurePending

LEMMA CreatePendingInv ==
  ASSUME JobInv, NEW p \in Workers, CreatePending(p)
  PROVE  JobInv'
BY GotoInv, AttemptsAssumption DEF CreatePending, JobInv, Jobs, Held, Steps

LEMMA WithdrawInv ==
  ASSUME JobInv, NEW p \in Workers, Withdraw(p)
  PROVE  JobInv'
<1> DEFINE j == [job[p] EXCEPT !.pc = "await", !.attempt = job[p].attempt + 1,
                               !.reply = "sent"]
<1>1. /\ job[p] \in Jobs /\ Held(job[p]) /\ job[p].pc = "withdraw"
      /\ Becomes(p, j)
  BY DEF Withdraw, JobInv
<1>2. job[p].attempt + 1 \in 0..MaxAttempts
  BY <1>1, AttemptsAssumption DEF Jobs, Held
<1>3. j \in Jobs
  BY <1>1, <1>2 DEF Jobs, Steps, Replies
<1>4. Held(j)
  BY <1>1 DEF Jobs, Held
<1> QED BY <1>1, <1>3, <1>4, JobStep

LEMMA BackoffInv ==
  ASSUME JobInv, NEW p \in Workers, Backoff(p)
  PROVE  JobInv'
<1>1. job[p].attempt < MaxAttempts /\ job[p].pc = "await"
  BY DEF Backoff, RetryAfter, Answered
<1> QED BY <1>1, GotoInv DEF Backoff, JobInv, Jobs, Held, Steps

LEMMA AfterLoopType ==
  ASSUME NEW p \in Workers
  PROVE  AfterLoop(p) \in {"getRetry", "conclude"}
BY DEF AfterLoop

LEMMA LoopEndsInv ==
  ASSUME JobInv, NEW p \in Workers, LoopEnds(p)
  PROVE  JobInv'
<1>1. Held([job[p] EXCEPT !.pc = AfterLoop(p)])
  BY AfterLoopType DEF LoopEnds, Answered, JobInv, Jobs, Held
<1> QED BY <1>1, AfterLoopType, GotoInv DEF LoopEnds, Steps

LEMMA WakeInv ==
  ASSUME JobInv, NEW p \in Workers, Wake(p)
  PROVE  JobInv'
<1> DEFINE j == [job[p] EXCEPT !.pc = "withdraw", !.reply = "none"]
<1>1. j \in Jobs /\ Held(j)
  BY DEF Wake, JobInv, Jobs, Held, Steps, Replies
<1> QED BY <1>1, JobStep DEF Wake

LEMMA CanceledInv ==
  ASSUME JobInv, NEW p \in Workers, Canceled(p)
  PROVE  JobInv'
<1> DEFINE j == [job[p] EXCEPT !.pc = AfterLoop(p), !.reply = "canceled"]
<1>1. j \in Jobs /\ Held(j)
  BY AfterLoopType, KindsType DEF Canceled, JobInv, Jobs, Held, Steps, Replies
<1> QED BY <1>1, JobStep DEF Canceled

LEMMA GetForRetryCountInv ==
  ASSUME TypeOK, JobInv, NEW p \in Workers, GetForRetryCount(p)
  PROVE  JobInv'
<1> DEFINE j == [job[p] EXCEPT !.pc = "putRetry", !.rec = transfers[job[p].tran]]
<1>1. CASE Goto(p, "conclude")
  BY <1>1, GotoInv DEF GetForRetryCount, JobInv, Jobs, Held, Steps
<1>2. CASE Becomes(p, j)
  <2>1. j \in Jobs /\ Held(j)
    BY DEF GetForRetryCount, TypeOK, JobInv, Jobs, Held, Steps
  <2> QED BY <1>2, <2>1, JobStep
<1> QED BY <1>1, <1>2 DEF GetForRetryCount

LEMMA UpdateRetryCountInv ==
  ASSUME JobInv, NEW p \in Workers, UpdateRetryCount(p)
  PROVE  JobInv'
BY GotoInv DEF UpdateRetryCount, JobInv, Jobs, Held, Steps

LEMMA ConcludeInv ==
  ASSUME JobInv, NEW p \in Workers, Conclude(p)
  PROVE  JobInv'
<1>1. CASE Becomes(p, [job[p] EXCEPT !.pc = "load", !.goal = "forward"])
  <2>1. [job[p] EXCEPT !.pc = "load", !.goal = "forward"] \in Jobs
    BY DEF JobInv, Jobs, Steps
  <2>2. Held([job[p] EXCEPT !.pc = "load", !.goal = "forward"])
    BY DEF Conclude, JobInv, Jobs, Held
  <2> QED BY <1>1, <2>1, <2>2, JobStep
<1>2. CASE /\ Becomes(p, [job[p] EXCEPT !.pc = "load", !.goal = "fail"])
           /\ job[p].reply \in FailureKinds
  <2>1. [job[p] EXCEPT !.pc = "load", !.goal = "fail"] \in Jobs
    BY DEF JobInv, Jobs, Steps
  <2>2. Held([job[p] EXCEPT !.pc = "load", !.goal = "fail"])
    BY <1>2 DEF Conclude, JobInv, Jobs, Held
  <2> QED BY <1>2, <2>1, <2>2, JobStep
<1>3. CASE Return(p)
  BY <1>3, ReturnInv
<1> QED BY <1>1, <1>2, <1>3 DEF Conclude

LEMMA TransitionedType ==
  ASSUME JobInv, NEW p \in Workers, NEW rec \in Records, job[p].goal # "none"
  PROVE  Transitioned(p, rec) \in Records
BY DEF JobInv, Jobs, Held, Transitioned, ToFailed, ToForwarded, Records, Statuses, Reasons

LEMMA LoadInv ==
  ASSUME TypeOK, JobInv, NEW p \in Workers, Load(p)
  PROVE  JobInv'
<1> DEFINE rec == transfers[job[p].tran]
           j == [job[p] EXCEPT !.pc = "put", !.rec = Transitioned(p, rec)]
<1>1. CASE Return(p)
  BY <1>1, ReturnInv
<1>2. CASE Goto(p, "createMissing")
  BY <1>2, GotoInv DEF Load, JobInv, Jobs, Held, Steps
<1>3. CASE Becomes(p, j)
  <2>1. rec \in Records
    BY DEF Load, TypeOK, JobInv, Held
  <2>2. j \in Jobs /\ Held(j)
    BY <2>1, TransitionedType DEF Load, JobInv, Jobs, Held, Steps
  <2> QED BY <1>3, <2>2, JobStep
<1> QED BY <1>1, <1>2, <1>3 DEF Load

LEMMA CreateMissingInv ==
  ASSUME JobInv, NEW p \in Workers, CreateMissing(p)
  PROVE  JobInv'
BY GotoInv DEF CreateMissing, JobInv, Jobs, Held, Steps

LEMMA StoreFaultInv ==
  ASSUME JobInv, NEW p \in Workers, StoreFault(p)
  PROVE  JobInv'
<1>1. CASE job[p].pc \in {"getRetry", "putRetry"} /\ Goto(p, "conclude")
  BY <1>1, GotoInv DEF JobInv, Jobs, Held, Steps
<1>2. CASE Return(p)
  BY <1>2, ReturnInv
<1> QED BY <1>1, <1>2 DEF StoreFault

LEMMA AnswerInv ==
  ASSUME JobInv, NEW p \in Workers, job[p].pc = "await",
         NEW reply \in Replies, NEW id \in Nat, Answer(p, reply, id)
  PROVE  JobInv'
<1> DEFINE j == [job[p] EXCEPT !.reply = reply, !.id = id]
<1>1. j \in Jobs
  BY DEF JobInv, Jobs
<1>2. Held(j)
  BY DEF JobInv, Jobs, Held
<1> QED BY <1>1, <1>2, JobStep DEF Answer

LEMMA ReplyInv ==
  ASSUME TypeOK, JobInv, NEW p \in Workers, Reply(p)
  PROVE  JobInv'
<1>1. job[p].pc = "await" /\ job[p].tran \in TranIDs
  BY DEF Reply, Accept, RejectDuplicate, Refuse, LoseAnswer, Asked, JobInv, Held
<1>2. CASE Accept(p)
  <2>1. Len(withdrawals[job[p].tran]) + 1 \in Nat
    BY <1>1 DEF TypeOK
  <2> QED BY <1>1, <1>2, <2>1, AnswerInv DEF Accept, Replies
<1>3. CASE RejectDuplicate(p)
  BY <1>1, <1>3, AnswerInv, KindsType DEF RejectDuplicate, Replies
<1>4. CASE Refuse(p)
  BY <1>1, <1>4, AnswerInv, FaultKinds DEF Refuse, Replies
<1>5. CASE LoseAnswer(p)
  BY <1>1, <1>5, AnswerInv, FaultKinds DEF LoseAnswer, Replies
<1> QED BY <1>2, <1>3, <1>4, <1>5 DEF Reply

LEMMA WorkerStepInv ==
  ASSUME TypeOK, JobInv, NEW p \in Workers, WorkerStep(p)
  PROVE  JobInv'
BY Layer1Inv, Layer2Inv, EnsurePendingInv, CreatePendingInv, WithdrawInv, BackoffInv,
   LoopEndsInv, WakeInv, CanceledInv, GetForRetryCountInv, UpdateRetryCountInv,
   ConcludeInv, LoadInv, CreateMissingInv, StoreFaultInv, ReturnInv
   DEF WorkerStep, Put

LEMMA JobIdleInv ==
  ASSUME job' = [p \in Workers |-> Idle]
  PROVE  JobInv'
BY IdleType DEF JobInv

LEMMA JobUnchanged ==
  ASSUME JobInv, UNCHANGED job
  PROVE  JobInv'
BY DEF JobInv

LEMMA JobNext ==
  ASSUME TypeOK, JobInv, [Next]_vars
  PROVE  JobInv'
<1>1. ASSUME NEW p \in Workers, WorkerStep(p) PROVE JobInv'
  BY <1>1, WorkerStepInv
<1>2. ASSUME NEW p \in Workers, Reply(p) PROVE JobInv'
  BY <1>2, ReplyInv
<1>3. ASSUME NEW p \in Workers, NEW t \in TranIDs, Detect(p, t) PROVE JobInv'
  BY <1>3, ForwardCallInv DEF Detect
<1>4. ASSUME NEW t \in TranIDs, RecoverNext(t) PROVE JobInv'
  BY <1>4, ForwardCallInv, WorkersAssumption DEF RecoverNext
<1>5. CASE Crash \/ Exit
  BY <1>5, JobIdleInv DEF Crash, Exit, ProcessEnds
<1>6. ASSUME NEW t \in TranIDs, Land(t) \/ Vanish(t) \/ Settle(t) PROVE JobInv'
  BY <1>6, JobUnchanged DEF Land, Vanish, Settle
<1>7. CASE PollRound \/ PollStep
  BY <1>7, JobUnchanged DEF PollRound, PollStep, PollQuery, PollPut, PollPutFault, PollAudit
<1>8. CASE Boot \/ StartDetector \/ StartPoller \/ Shutdown \/ LoseStore
  BY <1>8, JobUnchanged DEF Boot, StartDetector, StartPoller, Shutdown, LoseStore
<1>9. CASE UNCHANGED vars
  BY <1>9, JobUnchanged DEF vars
<1> QED BY <1>1, <1>2, <1>3, <1>4, <1>5, <1>6, <1>7, <1>8, <1>9 DEF Next

-----------------------------------------------------------------------------
(* The poller *)

LEMMA PolledInv ==
  ASSUME PollInv, NEW t \in TranIDs, poll' = Polled(t)
  PROVE  PollInv'
BY UnknownType DEF PollInv, Polled, Polls

LEMMA CompletedType ==
  ASSUME NEW rec \in Records
  PROVE  /\ ToCompleted(rec) \in Records
         /\ ToFailed(rec, "withdrawalFailed") \in Records
BY DEF ToCompleted, ToFailed, Records, Statuses, Reasons

LEMMA PollWriteInv ==
  ASSUME PollInv, NEW t \in TranIDs, NEW r \in Records,
         poll' = [poll EXCEPT !.pc = "put", !.tran = t, !.rec = r]
  PROVE  PollInv'
BY DEF PollInv, Polls

LEMMA PollQueryInv ==
  ASSUME PollInv, NEW t \in TranIDs, PollQuery(t)
  PROVE  PollInv'
<1> DEFINE rec == poll.snapshot[t]
<1>1. rec \in Records
  BY DEF PollInv, Polls
<1>2. CASE poll' = Polled(t)
  BY <1>2, PolledInv
<1>3. CASE poll' = [poll EXCEPT !.pc = "put", !.tran = t, !.rec = ToCompleted(rec)]
  BY <1>1, <1>3, CompletedType, PollWriteInv
<1>4. CASE poll' = [poll EXCEPT !.pc = "put", !.tran = t,
                                !.rec = ToFailed(rec, "withdrawalFailed")]
  BY <1>1, <1>4, CompletedType, PollWriteInv
<1> QED BY <1>2, <1>3, <1>4 DEF PollQuery

LEMMA PollRoundInv ==
  ASSUME TypeOK, PollRound
  PROVE  PollInv'
<1>1. WithStatus("FORWARDED") \subseteq TranIDs
  BY DEF WithStatus
<1>2. [t \in TranIDs |-> IF transfers[t].status = "FORWARDED"
                         THEN transfers[t] ELSE Unknown] \in [TranIDs -> Records]
  BY UnknownType DEF TypeOK
<1>3. poll' \in Polls
  BY <1>1, <1>2, RestingType DEF PollRound, Polls
<1>4. poll'.pc = "query"
  BY RestingType DEF PollRound, Resting, Polls
<1> QED BY <1>3, <1>4 DEF PollInv

LEMMA PollPutInv ==
  ASSUME PollInv, PollPut
  PROVE  PollInv'
<1>1. poll.tran \in TranIDs
  BY DEF PollInv, PollPut
<1>2. CASE poll' = [poll EXCEPT !.pc = "audit"]
  BY <1>1, <1>2 DEF PollInv, Polls
<1>3. CASE poll' = Polled(poll.tran)
  BY <1>1, <1>3, PolledInv
<1> QED BY <1>2, <1>3 DEF PollPut

(* Only the poller and the end of the process move the poller. *)
LEMMA PollerMoves ==
  [Next]_vars => PollRound \/ PollStep \/ Crash \/ Exit \/ UNCHANGED poll
<1>1. ASSUME NEW p \in Workers,
             WorkerStep(p) \/ Reply(p) \/ \E t \in TranIDs : Detect(p, t)
      PROVE  UNCHANGED poll
  BY <1>1 DEF WorkerStep, Layer1, Layer2, EnsurePending, CreatePending, Withdraw,
     Backoff, LoopEnds, Wake, Canceled, GetForRetryCount, UpdateRetryCount, Conclude,
     Load, CreateMissing, Put, StoreFault, Reply, Accept, RejectDuplicate, Refuse,
     LoseAnswer, Detect
<1>2. ASSUME NEW t \in TranIDs, Land(t) \/ Vanish(t) \/ Settle(t) \/ RecoverNext(t)
      PROVE  UNCHANGED poll
  BY <1>2 DEF Land, Vanish, Settle, RecoverNext
<1>3. Boot \/ StartDetector \/ StartPoller \/ Shutdown \/ LoseStore => UNCHANGED poll
  BY DEF Boot, StartDetector, StartPoller, Shutdown, LoseStore
<1>4. UNCHANGED vars => UNCHANGED poll
  BY DEF vars
<1> QED BY <1>1, <1>2, <1>3, <1>4 DEF Next

LEMMA PollNext ==
  ASSUME TypeOK, PollInv, [Next]_vars
  PROVE  PollInv'
<1>1. CASE PollRound
  BY <1>1, PollRoundInv
<1>2. ASSUME NEW t \in poll.queue, PollQuery(t) PROVE PollInv'
  BY <1>2, PollQueryInv DEF PollInv, Polls
<1>3. CASE PollPut
  BY <1>3, PollPutInv
<1>4. CASE PollPutFault \/ PollAudit
  BY <1>4, PolledInv DEF PollPutFault, PollAudit, PollInv
<1>5. CASE Crash \/ Exit
  <2>1. poll' = Resting
    BY <1>5 DEF Crash, Exit, ProcessEnds
  <2>2. Resting.pc = "query"
    BY DEF Resting
  <2> QED BY <2>1, <2>2, RestingType DEF PollInv
<1>6. UNCHANGED poll => PollInv'
  BY DEF PollInv
<1> QED BY <1>1, <1>2, <1>3, <1>4, <1>5, <1>6, PollerMoves DEF PollStep

-----------------------------------------------------------------------------
(* Who writes what *)

StoreWrites ==
  \/ \E p \in Workers :
       CreatePending(p) \/ CreateMissing(p) \/ UpdateRetryCount(p) \/ Put(p)
  \/ PollPut
  \/ LoseStore

LEMMA OnlyStoreWrites == [Next]_vars => StoreWrites \/ UNCHANGED transfers
<1>1. ASSUME NEW p \in Workers,
             WorkerStep(p) \/ Reply(p) \/ \E t \in TranIDs : Detect(p, t)
      PROVE  StoreWrites \/ UNCHANGED transfers
  BY <1>1 DEF StoreWrites, WorkerStep, Layer1, Layer2, EnsurePending, Withdraw,
     Backoff, LoopEnds, Wake, Canceled, GetForRetryCount, Conclude,
     Load, StoreFault, Reply, Accept, RejectDuplicate, Refuse,
     LoseAnswer, Detect
<1>2. ASSUME NEW t \in TranIDs, Land(t) \/ Vanish(t) \/ Settle(t) \/ RecoverNext(t)
      PROVE  UNCHANGED transfers
  BY <1>2 DEF Land, Vanish, Settle, RecoverNext
<1>3. CASE PollRound \/ PollStep
  BY <1>3 DEF PollRound, PollStep, PollQuery, PollPutFault, PollAudit, StoreWrites
<1>4. CASE Boot \/ StartDetector \/ StartPoller \/ Shutdown \/ Crash \/ Exit \/ LoseStore
  BY <1>4 DEF Boot, StartDetector, StartPoller, Shutdown, Crash, Exit, ProcessEnds,
     StoreWrites
<1>5. CASE UNCHANGED vars
  BY <1>5 DEF vars
<1> QED BY <1>1, <1>2, <1>3, <1>4, <1>5 DEF Next

LEMMA StoreCreateType ==
  ASSUME transfers \in [TranIDs -> Records], NEW t \in TranIDs, StoreCreate(t)
  PROVE  transfers' \in [TranIDs -> Records]
BY UnknownType DEF StoreCreate

LEMMA StoreUpdateType ==
  ASSUME transfers \in [TranIDs -> Records], NEW t \in TranIDs, NEW r \in Records,
         StoreUpdate(t, r)
  PROVE  transfers' \in [TranIDs -> Records]
BY DEF StoreUpdate

LEMMA TransfersType ==
  ASSUME TypeInv, [Next]_vars
  PROVE  transfers' \in [TranIDs -> Records]
<1> USE DEF TypeInv
<1>1. transfers \in [TranIDs -> Records]
  BY DEF TypeOK
<1>2. ASSUME NEW p \in Workers, CreatePending(p) \/ CreateMissing(p)
      PROVE  transfers' \in [TranIDs -> Records]
  <2>1. job[p].tran \in TranIDs
    BY <1>2 DEF JobInv, Held, CreatePending, CreateMissing
  <2> QED BY <1>1, <1>2, <2>1, StoreCreateType DEF CreatePending, CreateMissing
<1>3. ASSUME NEW p \in Workers, UpdateRetryCount(p) \/ Put(p)
      PROVE  transfers' \in [TranIDs -> Records]
  <2>1. job[p].tran \in TranIDs /\ job[p].rec \in Records
    BY <1>3 DEF JobInv, Held, Jobs, UpdateRetryCount, Put
  <2> QED BY <1>1, <1>3, <2>1, StoreUpdateType DEF UpdateRetryCount, Put
<1>4. CASE PollPut
  <2>1. poll.tran \in TranIDs /\ poll.rec \in Records
    BY <1>4 DEF PollInv, Polls, PollPut
  <2> QED BY <1>1, <1>4, <2>1, StoreUpdateType DEF PollPut
<1>5. CASE LoseStore
  BY <1>5, UnknownType DEF LoseStore
<1> QED BY <1>1, <1>2, <1>3, <1>4, <1>5, OnlyStoreWrites DEF StoreWrites

(* What Binance holds, or may still receive, changes only in these steps. *)
LEMMA BinanceMoves ==
  [Next]_vars =>
    \/ \E p \in Workers : Accept(p) \/ LoseAnswer(p)
    \/ \E t \in TranIDs : Land(t) \/ Vanish(t) \/ Settle(t)
    \/ Crash \/ Exit
    \/ UNCHANGED <<withdrawals, orphans>>
<1> USE DEF binance
<1>1. ASSUME NEW p \in Workers,
             WorkerStep(p) \/ RejectDuplicate(p) \/ Refuse(p) \/ \E t \in TranIDs : Detect(p, t)
      PROVE  UNCHANGED <<withdrawals, orphans>>
  BY <1>1 DEF WorkerStep, Layer1, Layer2, EnsurePending, CreatePending, Withdraw,
     Backoff, LoopEnds, Wake, Canceled, GetForRetryCount, UpdateRetryCount, Conclude,
     Load, CreateMissing, Put, StoreFault, RejectDuplicate, Refuse, Detect
<1>2. ASSUME NEW t \in TranIDs, RecoverNext(t)
      PROVE  UNCHANGED <<withdrawals, orphans>>
  BY <1>2 DEF RecoverNext
<1>3. PollRound \/ PollStep => UNCHANGED <<withdrawals, orphans>>
  BY DEF PollRound, PollStep, PollQuery, PollPut, PollPutFault, PollAudit
<1>4. Boot \/ StartDetector \/ StartPoller \/ Shutdown \/ LoseStore
        => UNCHANGED <<withdrawals, orphans>>
  BY DEF Boot, StartDetector, StartPoller, Shutdown, LoseStore
<1>5. UNCHANGED vars => UNCHANGED <<withdrawals, orphans>>
  BY DEF vars
<1> QED BY <1>1, <1>2, <1>3, <1>4, <1>5 DEF Next, Reply

LEMMA WithdrawalsType ==
  ASSUME TypeInv, [Next]_vars
  PROVE  withdrawals' \in [TranIDs -> Seq(WithdrawalStatus)]
<1>1. withdrawals \in [TranIDs -> Seq(WithdrawalStatus)]
  BY DEF TypeInv, TypeOK
<1>2. ASSUME NEW t \in TranIDs,
             withdrawals' = [withdrawals EXCEPT ![t] = Append(@, "processing")]
      PROVE  withdrawals' \in [TranIDs -> Seq(WithdrawalStatus)]
  <2>1. Append(withdrawals[t], "processing") \in Seq(WithdrawalStatus)
    BY <1>1 DEF WithdrawalStatus
  <2> QED BY <1>1, <1>2, <2>1
<1>3. ASSUME NEW p \in Workers, Accept(p)
      PROVE  withdrawals' \in [TranIDs -> Seq(WithdrawalStatus)]
  <2>1. job[p].tran \in TranIDs
    BY <1>3 DEF TypeInv, JobInv, Held, Accept, Asked
  <2> QED BY <1>2, <1>3, <2>1 DEF Accept
<1>4. ASSUME NEW t \in TranIDs, Land(t)
      PROVE  withdrawals' \in [TranIDs -> Seq(WithdrawalStatus)]
  BY <1>1, <1>2, <1>4 DEF Land
<1>5. ASSUME NEW t \in TranIDs, Settle(t)
      PROVE  withdrawals' \in [TranIDs -> Seq(WithdrawalStatus)]
  <2>1. PICK i \in DOMAIN withdrawals[t], s \in {"completed", "failed"} :
          withdrawals' = [withdrawals EXCEPT ![t][i] = s]
    BY <1>5 DEF Settle
  <2>2. [withdrawals[t] EXCEPT ![i] = s] \in Seq(WithdrawalStatus)
    BY <1>1 DEF WithdrawalStatus
  <2> QED BY <1>1, <2>1, <2>2
<1>6. ASSUME NEW p \in Workers, LoseAnswer(p) PROVE UNCHANGED withdrawals
  BY <1>6 DEF LoseAnswer
<1>7. ASSUME NEW t \in TranIDs, Vanish(t) PROVE UNCHANGED withdrawals
  BY <1>7 DEF Vanish
<1>8. Crash \/ Exit => UNCHANGED withdrawals
  BY DEF Crash, Exit, ProcessEnds
<1> QED BY <1>1, <1>3, <1>4, <1>5, <1>6, <1>7, <1>8, BinanceMoves

LEMMA OrphansType ==
  ASSUME TypeInv, [Next]_vars
  PROVE  orphans' \in [TranIDs -> 0..MaxOrphans]
<1>1. orphans \in [TranIDs -> 0..MaxOrphans] /\ MaxOrphans \in Nat
  BY BoundsAssumption DEF TypeInv, TypeOK
<1>2. ASSUME NEW p \in Workers, LoseAnswer(p)
      PROVE  orphans' \in [TranIDs -> 0..MaxOrphans]
  <2>1. job[p].tran \in TranIDs
    BY <1>2 DEF TypeInv, JobInv, Held, LoseAnswer
  <2> QED BY <1>1, <1>2, <2>1 DEF LoseAnswer
<1>3. ASSUME NEW p \in Workers, Accept(p) PROVE UNCHANGED orphans
  BY <1>3 DEF Accept
<1>4. ASSUME NEW t \in TranIDs, Land(t) \/ Vanish(t)
      PROVE  orphans' \in [TranIDs -> 0..MaxOrphans]
  BY <1>1, <1>4 DEF Land, Vanish
<1>5. ASSUME NEW t \in TranIDs, Settle(t) PROVE UNCHANGED orphans
  BY <1>5 DEF Settle
<1>6. CASE Crash \/ Exit
  BY <1>6 DEF Crash, Exit, ProcessEnds
<1> QED BY <1>1, <1>2, <1>3, <1>4, <1>5, <1>6, BinanceMoves

LEMMA AuditLines ==
  [Next]_vars =>
    \/ \E p \in Workers :
         /\ Conclude(p)
         /\ job[p].reply = "accepted"
         /\ auditLog' = auditLog \cup {<<"INITIATED", job[p].tran>>}
    \/ PollAudit
    \/ UNCHANGED auditLog
<1>1. ASSUME NEW p \in Workers,
             \/ WorkerStep(p) /\ ~ Conclude(p)
             \/ Reply(p) \/ \E t \in TranIDs : Detect(p, t)
      PROVE  UNCHANGED auditLog
  BY <1>1 DEF WorkerStep, Layer1, Layer2, EnsurePending, CreatePending, Withdraw,
     Backoff, LoopEnds, Wake, Canceled, GetForRetryCount, UpdateRetryCount,
     Load, CreateMissing, Put, StoreFault, Reply, Accept, RejectDuplicate, Refuse,
     LoseAnswer, Detect
<1>2. \A p \in Workers : Conclude(p) =>
        \/ UNCHANGED auditLog
        \/ /\ job[p].reply = "accepted"
           /\ auditLog' = auditLog \cup {<<"INITIATED", job[p].tran>>}
  BY DEF Conclude
<1>3. ASSUME NEW t \in TranIDs, Land(t) \/ Vanish(t) \/ Settle(t) \/ RecoverNext(t)
      PROVE  UNCHANGED auditLog
  BY <1>3 DEF Land, Vanish, Settle, RecoverNext
<1>4. PollRound \/ (PollStep /\ ~ PollAudit) => UNCHANGED auditLog
  BY DEF PollRound, PollStep, PollQuery, PollPut, PollPutFault
<1>5. Boot \/ StartDetector \/ StartPoller \/ Shutdown \/ Crash \/ Exit \/ LoseStore
        => UNCHANGED auditLog
  BY DEF Boot, StartDetector, StartPoller, Shutdown, Crash, Exit, ProcessEnds, LoseStore
<1>6. UNCHANGED vars => UNCHANGED auditLog
  BY DEF vars
<1> QED BY <1>1, <1>2, <1>3, <1>4, <1>5, <1>6 DEF Next

LEMMA AuditType ==
  ASSUME TypeInv, [Next]_vars
  PROVE  auditLog' \subseteq {"INITIATED", "COMPLETED"} \X TranIDs
<1>1. auditLog \subseteq {"INITIATED", "COMPLETED"} \X TranIDs
  BY DEF TypeInv, TypeOK
<1>2. ASSUME NEW p \in Workers, Conclude(p) PROVE job[p].tran \in TranIDs
  BY <1>2 DEF TypeInv, JobInv, Held, Conclude
<1>3. CASE PollAudit
  <2>1. poll.tran \in TranIDs
    BY <1>3 DEF TypeInv, PollInv, PollAudit
  <2> QED BY <1>1, <1>3, <2>1 DEF PollAudit
<1> QED BY <1>1, <1>2, <1>3, AuditLines

LEMMA ProcessType ==
  ASSUME TypeInv, [Next]_vars
  PROVE  configured' \subseteq TranIDs /\ phase' \in Phases /\ recoverQ' \subseteq TranIDs
<1> DEFINE Goal == /\ configured' \subseteq TranIDs /\ phase' \in Phases
                   /\ recoverQ' \subseteq TranIDs
<1>1. configured \subseteq TranIDs /\ phase \in Phases /\ recoverQ \subseteq TranIDs
  BY DEF TypeInv, TypeOK
<1> USE DEF process
<1>2. ASSUME NEW p \in Workers,
             WorkerStep(p) \/ Reply(p) \/ \E t \in TranIDs : Detect(p, t)
      PROVE  UNCHANGED process
  BY <1>2 DEF WorkerStep, Layer1, Layer2, EnsurePending, CreatePending, Withdraw,
     Backoff, LoopEnds, Wake, Canceled, GetForRetryCount, UpdateRetryCount, Conclude,
     Load, CreateMissing, Put, StoreFault, Reply, Accept, RejectDuplicate, Refuse,
     LoseAnswer, Detect
<1>3. ASSUME NEW t \in TranIDs, Land(t) \/ Vanish(t) \/ Settle(t)
      PROVE  UNCHANGED process
  BY <1>3 DEF Land, Vanish, Settle
<1>4. ASSUME NEW t \in TranIDs, RecoverNext(t) PROVE Goal
  BY <1>1, <1>4 DEF RecoverNext
<1>5. PollRound \/ PollStep => UNCHANGED process
  BY DEF PollRound, PollStep, PollQuery, PollPut, PollPutFault, PollAudit
<1>6. CASE Boot
  <2>1. WithStatus("PENDING") \subseteq TranIDs
    BY DEF WithStatus
  <2> QED BY <1>6, <2>1 DEF Boot, Phases
<1>7. CASE StartDetector \/ StartPoller \/ Shutdown
  BY <1>1, <1>7 DEF StartDetector, StartPoller, Shutdown, Phases
<1>8. CASE Crash \/ Exit
  BY <1>8 DEF Crash, Exit, ProcessEnds, Phases
<1>9. CASE LoseStore \/ UNCHANGED vars
  BY <1>1, <1>9 DEF LoseStore, vars
<1>10. CASE UNCHANGED process
  BY <1>1, <1>10
<1> QED BY <1>2, <1>3, <1>4, <1>5, <1>6, <1>7, <1>8, <1>9, <1>10 DEF Next

LEMMA TypeNext == TypeInv /\ [Next]_vars => TypeInv'
<1> SUFFICES ASSUME TypeInv, [Next]_vars PROVE TypeInv'
  OBVIOUS
<1>1. JobInv' /\ PollInv'
  BY JobNext, PollNext DEF TypeInv
<1>2. TypeOK'
  BY <1>1, TransfersType, WithdrawalsType, OrphansType, AuditType, ProcessType
     DEF TypeOK, JobInv, PollInv
<1> QED BY <1>1, <1>2 DEF TypeInv

LEMMA TypeAlways == Spec => []TypeInv
BY TypeInit, TypeNext, PTL DEF Spec

(* Every variable keeps its range for every choice of the constants: the   *)
(* retry loop never makes more than MaxAttempts calls, and a step that     *)
(* reads a record, an answer or a snapshot always finds one of its kind.   *)
(* TypeOK is not inductive: it needs what a call of Forward holds at each  *)
(* of its steps (Held) and the poller's copy.                              *)
THEOREM TypeCorrect == Spec => []TypeOK
<1>1. TypeInv => TypeOK
  BY DEF TypeInv
<1> QED BY <1>1, TypeAlways, PTL

=============================================================================
