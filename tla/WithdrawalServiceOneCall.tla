---------------------- MODULE WithdrawalServiceOneCall ----------------------
(***************************************************************************)
(* What holds of WithdrawalService while no two calls of Forward handle    *)
(* the same transfer at once, for every number of callers, every store     *)
(* that fails or is lost, and every answer Binance may give.               *)
(***************************************************************************)
EXTENDS WithdrawalServiceSafety

(* Nothing in the code enforces this: Forward takes no lock.  It holds as  *)
(* long as one goroutine calls Forward, that is until a reconnection of    *)
(* the user data stream starts a poll beside processLoop.                  *)
OneCallPerTransfer ==
  \A p, q \in Workers :
    p # q /\ job[p].pc # "idle" /\ job[q].pc # "idle" => job[p].tran # job[q].tran

-----------------------------------------------------------------------------
(* No copy is stale when it is written *)

(* What the store says of a transfer while Forward is at work on it, and   *)
(* what the copy about to be written back says.                            *)
CallFresh(p) ==
  LET status == transfers[job[p].tran].status IN
  /\ job[p].pc \notin {"idle", "layer1"} => status \in {"UNKNOWN", "PENDING"}
  /\ job[p].pc \in {"withdraw", "await", "backoff", "getRetry", "putRetry",
                    "conclude", "put"} => status = "PENDING"
  /\ job[p].pc = "putRetry" => job[p].rec.status = "PENDING"
  /\ job[p].pc = "put" =>
       job[p].rec.status = IF job[p].goal = "fail" THEN "FAILED" ELSE "FORWARDED"

(* The poller's snapshot of t is what the store still says, until its own  *)
(* write.                                                                  *)
SnapshotFresh(t) ==
  /\ poll.snapshot[t].status \in {"UNKNOWN", "FORWARDED"}
  /\ poll.snapshot[t].status = "FORWARDED" /\ ~ (poll.pc = "audit" /\ poll.tran = t)
       => transfers[t].status = "FORWARDED"

PollFresh ==
  /\ \A t \in TranIDs : SnapshotFresh(t)
  /\ poll.pc = "put" => /\ poll.snapshot[poll.tran].status = "FORWARDED"
                        /\ poll.rec.status \in {"COMPLETED", "FAILED"}

DownIsEmpty == phase = "down" => job = [p \in Workers |-> Idle] /\ poll = Resting

FreshInv == DownIsEmpty /\ (\A p \in Workers : CallFresh(p)) /\ PollFresh

LEMMA FreshInit == Init => FreshInv
BY UnknownType DEF Init, FreshInv, DownIsEmpty, CallFresh, PollFresh, SnapshotFresh,
   Idle, Resting, NoSnapshot, Unknown, Record

(* Only Detect and RecoverNext start from an idle caller. *)
LEMMA Busy ==
  \A p \in Workers : WorkerStep(p) \/ Reply(p) => job[p].pc # "idle"
BY DEF WorkerStep, Layer1, Layer2, EnsurePending, CreatePending, Withdraw, Backoff,
   LoopEnds, Answered, Wake, Canceled, GetForRetryCount, UpdateRetryCount, Conclude,
   Load, CreateMissing, Put, StoreFault, Reply, Accept, RejectDuplicate, Refuse,
   LoseAnswer, Asked

Moves(t, from, to) == transfers[t].status = from /\ transfers'[t].status = to

(* Every way the status of t may change in a step. *)
StatusWritten(t) ==
  \/ transfers'[t].status = transfers[t].status
  \/ \E p \in Workers :
       /\ job[p].tran = t
       /\ \/ (CreatePending(p) \/ CreateMissing(p)) /\ Moves(t, "UNKNOWN", "PENDING")
          \/ Put(p) /\ Moves(t, "PENDING", job[p].rec.status)
  \/ PollPut /\ poll.tran = t /\ Moves(t, "FORWARDED", poll.rec.status)
  \/ LoseStore

LEMMA StatusWrites ==
  ASSUME TypeInv, FreshInv, [Next]_vars, NEW t \in TranIDs
  PROVE  StatusWritten(t)
<1>1. transfers \in [TranIDs -> Records]
  BY DEF TypeInv, TypeOK
<1>2. ASSUME NEW p \in Workers, CreatePending(p) \/ CreateMissing(p)
      PROVE  StatusWritten(t)
  <2>1. job[p].tran \in TranIDs /\ StoreCreate(job[p].tran)
    BY <1>2 DEF TypeInv, JobInv, Held, CreatePending, CreateMissing
  <2>2. \/ transfers'[t].status = transfers[t].status
        \/ job[p].tran = t /\ Moves(t, "UNKNOWN", "PENDING")
    BY <1>1, <2>1 DEF StoreCreate, Moves, Pending, Record
  <2> QED BY <1>2, <2>2 DEF StatusWritten
<1>3. ASSUME NEW u \in TranIDs, NEW r \in Records, StoreUpdate(u, r)
      PROVE  \/ transfers'[t] = transfers[t]
             \/ u = t /\ transfers'[t] = r
  BY <1>1, <1>3 DEF StoreUpdate
<1>4. ASSUME NEW p \in Workers, UpdateRetryCount(p) PROVE StatusWritten(t)
  <2>1. job[p].tran \in TranIDs /\ job[p].rec \in Records /\ StoreUpdate(job[p].tran, job[p].rec)
    BY <1>4 DEF TypeInv, JobInv, Jobs, Held, UpdateRetryCount
  <2>2. transfers[job[p].tran].status = "PENDING" /\ job[p].rec.status = "PENDING"
    BY <1>4 DEF FreshInv, CallFresh, UpdateRetryCount
  <2> QED BY <1>3, <2>1, <2>2 DEF StatusWritten
<1>5. ASSUME NEW p \in Workers, Put(p) PROVE StatusWritten(t)
  <2>1. job[p].tran \in TranIDs /\ job[p].rec \in Records /\ StoreUpdate(job[p].tran, job[p].rec)
    BY <1>5 DEF TypeInv, JobInv, Jobs, Held, Put
  <2>2. transfers[job[p].tran].status = "PENDING"
    BY <1>5 DEF FreshInv, CallFresh, Put
  <2> QED BY <1>3, <1>5, <2>1, <2>2 DEF StatusWritten, Moves
<1>6. CASE PollPut
  <2>1. poll.tran \in TranIDs /\ poll.rec \in Records /\ StoreUpdate(poll.tran, poll.rec)
    BY <1>6 DEF TypeInv, PollInv, Polls, PollPut
  <2>2. transfers[poll.tran].status = "FORWARDED"
    BY <1>6, <2>1 DEF FreshInv, PollFresh, SnapshotFresh, PollPut
  <2> QED BY <1>3, <1>6, <2>1, <2>2 DEF StatusWritten, Moves
<1> QED BY <1>2, <1>4, <1>5, <1>6, OnlyStoreWrites DEF StoreWrites, StatusWritten

(* Who is idle when the file is lost. *)
LEMMA LostWhileDown ==
  FreshInv /\ LoseStore => poll = Resting /\ \A p \in Workers : job[p] = Idle
BY DEF FreshInv, DownIsEmpty, LoseStore

(* The record of a transfer in hand does not change under the call.        *)
LEMMA OtherCallFresh ==
  ASSUME TypeInv, FreshInv, OneCallPerTransfer, [Next]_vars,
         NEW q \in Workers, job'[q] = job[q]
  PROVE  CallFresh(q)'
<1> DEFINE t == job[q].tran
<1>1. CASE job[q].pc \in {"idle", "layer1"}
  BY <1>1 DEF CallFresh
<1>2. CASE job[q].pc \notin {"idle", "layer1"}
  <2>1. t \in TranIDs /\ CallFresh(q) /\ transfers[t].status \in {"UNKNOWN", "PENDING"}
    BY <1>2 DEF TypeInv, JobInv, Held, FreshInv, CallFresh
  <2>2. CASE transfers'[t].status = transfers[t].status
    BY <2>1, <2>2 DEF CallFresh
  <2>3. ASSUME NEW p \in Workers, job[p].tran = t,
               CreatePending(p) \/ CreateMissing(p) \/ Put(p)
        PROVE  FALSE
    <3>1. job[p].pc \in {"create", "createMissing", "put"} /\ job'[p].pc # job[p].pc
      BY <2>3 DEF CreatePending, CreateMissing, Put, Goto, Return, Becomes, Idle,
         TypeInv, JobInv, Jobs
    <3>2. p = q
      BY <1>2, <2>3, <3>1 DEF OneCallPerTransfer
    <3> QED BY <3>1, <3>2
  <2>4. ~ (PollPut /\ Moves(t, "FORWARDED", poll.rec.status))
    BY <2>1 DEF Moves
  <2>5. ~ LoseStore
    BY <1>2, LostWhileDown DEF Idle
  <2>6. StatusWritten(t)
    BY <2>1, StatusWrites
  <2> QED BY <2>2, <2>3, <2>4, <2>5, <2>6 DEF StatusWritten
<1> QED BY <1>1, <1>2

LEMMA CallFreshStep ==
  ASSUME TypeInv, FreshInv, [Next]_vars, NEW p \in Workers,
         WorkerStep(p) \/ Reply(p) \/ \E t \in TranIDs : Detect(p, t)
  PROVE  CallFresh(p)'
<1> DEFINE t == job[p].tran
<1>1. /\ job \in [Workers -> Jobs] /\ job[p] \in Jobs /\ Held(job[p]) /\ CallFresh(p)
      /\ transfers \in [TranIDs -> Records]
  BY DEF TypeInv, TypeOK, JobInv, FreshInv
<1>2. \A j : Becomes(p, j) => job'[p] = j
  BY <1>1 DEF Becomes
<1>3. Return(p) => CallFresh(p)'
  BY <1>2 DEF Return, CallFresh, Idle
<1>4. job[p].pc # "idle" => t \in TranIDs
  BY <1>1 DEF Held
<1>5. ASSUME NEW step \in Steps \ {"putRetry", "put"}, Goto(p, step)
      PROVE  job'[p].pc = step /\ job'[p].tran = t
  BY <1>1, <1>2, <1>5 DEF Goto, Jobs
<1>6. CASE Layer1(p)
  <2>1. CASE Goto(p, "layer2") /\ ~ AlreadyProcessed(transfers[t].status)
    <3>1. transfers[t].status \in {"UNKNOWN", "PENDING"} /\ UNCHANGED transfers
      BY <1>1, <1>4, <1>6, <2>1 DEF Layer1, AlreadyProcessed, IsTerminal, Records, Statuses
    <3> QED BY <1>5, <2>1, <3>1 DEF CallFresh, Steps
  <2> QED BY <1>3, <1>6, <2>1 DEF Layer1
<1>7. CASE Layer2(p)
  <2>1. transfers'[t].status \in {"UNKNOWN", "PENDING"}
    BY <1>1, <1>7 DEF Layer2, CallFresh
  <2>2. CASE job'[p].pc \in {"load", "ensure"} /\ job'[p].tran = t
    BY <2>1, <2>2 DEF CallFresh
  <2> QED BY <1>1, <1>2, <1>3, <1>7, <2>2 DEF Layer2, Goto, Jobs
<1>8. CASE EnsurePending(p)
  <2>1. transfers'[t].status = transfers[t].status
    BY <1>8 DEF EnsurePending
  <2>2. CASE Goto(p, "withdraw") /\ transfers[t].status = "PENDING"
    BY <1>5, <2>1, <2>2 DEF CallFresh, Steps
  <2>3. CASE Goto(p, "create") /\ transfers[t].status = "UNKNOWN"
    BY <1>5, <2>1, <2>3 DEF CallFresh, Steps
  <2> QED BY <1>3, <1>8, <2>2, <2>3 DEF EnsurePending
<1>9. CASE CreatePending(p) \/ CreateMissing(p)
  <2>1. t \in TranIDs /\ transfers[t].status \in {"UNKNOWN", "PENDING"}
    BY <1>1, <1>4, <1>9 DEF CreatePending, CreateMissing, CallFresh
  <2>2. transfers'[t].status = "PENDING"
    BY <1>1, <1>9, <2>1 DEF CreatePending, CreateMissing, StoreCreate, Pending, Record
  <2> QED BY <1>5, <1>9, <2>2 DEF CreatePending, CreateMissing, CallFresh, Steps
<1>10. CASE Withdraw(p) \/ Wake(p) \/ Backoff(p) \/ LoopEnds(p) \/ Canceled(p) \/ Reply(p)
  <2>1. transfers'[t].status = "PENDING"
    BY <1>1, <1>10 DEF CallFresh, Withdraw, Wake, Backoff, LoopEnds, Canceled, Answered,
       Reply, Accept, RejectDuplicate, Refuse, LoseAnswer, Asked
  <2>2. job'[p].tran = t
    BY <1>1, <1>2, <1>10 DEF Jobs, Withdraw, Wake, Backoff, LoopEnds, Goto, Canceled,
       Reply, Accept, RejectDuplicate, Refuse, LoseAnswer, Answer
  <2>3. job'[p].pc \in {"await", "withdraw", "backoff", "getRetry", "conclude"}
    BY <1>1, <1>2, <1>10 DEF Jobs, Withdraw, Wake, Backoff, LoopEnds, Goto, Canceled,
       AfterLoop, Reply, Accept, RejectDuplicate, Refuse, LoseAnswer, Answer, Asked
  <2> QED BY <2>1, <2>2, <2>3 DEF CallFresh
<1>11. CASE GetForRetryCount(p)
  <2>1. transfers[t].status = "PENDING" /\ transfers'[t].status = "PENDING"
    BY <1>1, <1>11 DEF CallFresh, GetForRetryCount
  <2> QED BY <1>1, <1>2, <1>11, <2>1 DEF GetForRetryCount, CallFresh, Jobs
<1>12. CASE UpdateRetryCount(p)
  <2>1. t \in TranIDs /\ transfers[t].status = "PENDING" /\ job[p].rec.status = "PENDING"
    BY <1>1, <1>4, <1>12 DEF CallFresh, UpdateRetryCount
  <2>2. transfers'[t].status = "PENDING"
    BY <1>1, <1>12, <2>1 DEF UpdateRetryCount, StoreUpdate
  <2> QED BY <1>5, <1>12, <2>2 DEF UpdateRetryCount, CallFresh, Steps
<1>13. CASE Conclude(p)
  <2>1. transfers'[t].status = "PENDING"
    BY <1>1, <1>13 DEF CallFresh, Conclude
  <2>2. CASE job'[p].pc = "load" /\ job'[p].tran = t
    BY <2>1, <2>2 DEF CallFresh
  <2> QED BY <1>1, <1>2, <1>3, <1>13, <2>2 DEF Conclude, Jobs
<1>14. CASE Load(p)
  <2> DEFINE rec == transfers[t]
  <2>1. rec \in Records /\ rec.status \in {"UNKNOWN", "PENDING"} /\ UNCHANGED transfers
    BY <1>1, <1>4, <1>14 DEF CallFresh, Load
  <2>2. CASE Goto(p, "createMissing")
    BY <1>5, <2>1, <2>2 DEF CallFresh, Steps
  <2>3. CASE /\ rec.status # "UNKNOWN"
             /\ Becomes(p, [job[p] EXCEPT !.pc = "put", !.rec = Transitioned(p, rec)])
    <3>1. /\ job'[p].pc = "put" /\ job'[p].tran = t /\ job'[p].goal = job[p].goal
          /\ job'[p].rec = Transitioned(p, rec)
      BY <1>1, <1>2, <2>3 DEF Jobs
    <3>2. Transitioned(p, rec).status =
            IF job[p].goal = "fail" THEN "FAILED" ELSE "FORWARDED"
      BY <2>1 DEF Transitioned, ToFailed, ToForwarded, Records
    <3> QED BY <2>1, <2>3, <3>1, <3>2 DEF CallFresh
  <2> QED BY <1>3, <1>14, <2>2, <2>3 DEF Load
<1>15. CASE Put(p)
  BY <1>3, <1>15 DEF Put
<1>16. CASE StoreFault(p)
  <2>1. CASE job[p].pc \in {"getRetry", "putRetry"} /\ Goto(p, "conclude")
    BY <1>1, <1>5, <1>16, <2>1 DEF CallFresh, StoreFault, Steps
  <2> QED BY <1>3, <1>16, <2>1 DEF StoreFault
<1>17. ASSUME NEW u \in TranIDs, Detect(p, u) PROVE CallFresh(p)'
  BY <1>2, <1>17 DEF Detect, ForwardCall, CallFresh, Idle
<1> QED
  BY <1>6, <1>7, <1>8, <1>9, <1>10, <1>11, <1>12, <1>13, <1>14, <1>15, <1>16, <1>17
     DEF WorkerStep

LEMMA CallFreshNext ==
  ASSUME TypeInv, FreshInv, OneCallPerTransfer, [Next]_vars
  PROVE  \A p \in Workers : CallFresh(p)'
<1>1. ASSUME NEW p \in Workers,
             WorkerStep(p) \/ Reply(p) \/ \E t \in TranIDs : Detect(p, t)
      PROVE  \A q \in Workers : CallFresh(q)'
  BY <1>1, CallFreshStep, OtherCallFresh, OthersStay
<1>2. CASE UNCHANGED job
  BY <1>2, OtherCallFresh
<1>3. ASSUME NEW t \in TranIDs, ForwardCall(Main, t)
      PROVE  \A q \in Workers : CallFresh(q)'
  <2>1. job'[Main].pc = "layer1" /\ \A q \in Workers \ {Main} : job'[q] = job[q]
    BY <1>3, WorkersAssumption DEF ForwardCall, Becomes, TypeInv, JobInv, Idle
  <2>2. CallFresh(Main)'
    BY <2>1 DEF CallFresh
  <2> QED BY <2>1, <2>2, OtherCallFresh
<1>4. CASE job' = [p \in Workers |-> Idle]
  BY <1>4 DEF CallFresh, Idle
<1> QED BY <1>1, <1>2, <1>3, <1>4, JobsOtherwise

(* The poller alone writes to a record that is FORWARDED.                  *)
LEMMA ForwardedStays ==
  ASSUME TypeInv, FreshInv, [Next]_vars, NEW t \in TranIDs,
         transfers[t].status = "FORWARDED", transfers'[t].status # "FORWARDED"
  PROVE  (PollPut /\ poll.tran = t) \/ LoseStore
<1>1. StatusWritten(t)
  BY StatusWrites
<1> QED BY <1>1 DEF StatusWritten, Moves

LEMMA PollFreshNext ==
  ASSUME TypeInv, FreshInv, [Next]_vars
  PROVE  PollFresh'
<1>1. /\ poll \in Polls /\ PollFresh /\ (poll.pc # "query" => poll.tran \in TranIDs)
      /\ transfers \in [TranIDs -> Records]
  BY DEF TypeInv, TypeOK, PollInv, FreshInv
<1>2. Unknown.status = "UNKNOWN"
  BY DEF Unknown, Record
<1>3. LoseStore => \A t \in TranIDs : poll.snapshot[t].status = "UNKNOWN"
  BY <1>2, LostWhileDown DEF Resting, NoSnapshot
<1>4. ASSUME NEW t \in TranIDs, poll' = Polled(t), poll.pc # "query" => poll.tran = t,
             \A u \in TranIDs \ {t} : transfers'[u].status = transfers[u].status
      PROVE  PollFresh'
  <2>1. poll'.pc = "query" /\ poll'.snapshot = [poll.snapshot EXCEPT ![t] = Unknown]
    BY <1>1, <1>4 DEF Polled, Polls
  <2>2. poll'.snapshot[t].status = "UNKNOWN"
        /\ \A u \in TranIDs \ {t} : poll'.snapshot[u] = poll.snapshot[u]
    BY <1>1, <1>2, <2>1 DEF Polls
  <2>3. SnapshotFresh(t)'
    BY <2>2 DEF SnapshotFresh
  <2>4. ASSUME NEW u \in TranIDs \ {t} PROVE SnapshotFresh(u)'
    BY <1>1, <1>4, <2>1, <2>2 DEF PollFresh, SnapshotFresh
  <2> QED BY <2>1, <2>3, <2>4 DEF PollFresh
<1>5. ASSUME UNCHANGED poll PROVE PollFresh'
  <2>1. ~ PollPut
    BY <1>1, <1>5 DEF PollPut, Polled, Polls
  <2>2. ASSUME NEW t \in TranIDs PROVE SnapshotFresh(t)'
    <3>1. CASE transfers[t].status = "FORWARDED" /\ transfers'[t].status # "FORWARDED"
      BY <1>3, <1>5, <2>1, <3>1, ForwardedStays DEF SnapshotFresh
    <3>2. CASE transfers[t].status = "FORWARDED" => transfers'[t].status = "FORWARDED"
      BY <1>1, <1>5, <3>2 DEF PollFresh, SnapshotFresh
    <3> QED BY <3>1, <3>2
  <2> QED BY <1>1, <1>5, <2>2 DEF PollFresh
<1>6. ASSUME NEW t \in poll.queue, PollQuery(t) PROVE PollFresh'
  <2> DEFINE rec == poll.snapshot[t]
  <2>1. t \in TranIDs /\ rec \in Records /\ poll.pc = "query" /\ UNCHANGED transfers
    BY <1>1, <1>6 DEF Polls, PollQuery
  <2>2. rec.status \in {"UNKNOWN", "FORWARDED"}
    BY <1>1, <2>1 DEF PollFresh, SnapshotFresh
  <2>3. ASSUME NEW r \in Records, r.status \in {"COMPLETED", "FAILED"},
               rec.status = "FORWARDED",
               poll' = [poll EXCEPT !.pc = "put", !.tran = t, !.rec = r]
        PROVE  PollFresh'
    <3>1. /\ poll'.pc = "put" /\ poll'.tran = t /\ poll'.rec = r
          /\ poll'.snapshot = poll.snapshot
      BY <1>1, <2>3 DEF Polls
    <3> QED BY <1>1, <2>1, <2>3, <3>1 DEF PollFresh, SnapshotFresh
  <2>4. MayComplete(rec) \/ MayFail(rec) => rec.status = "FORWARDED"
    BY <2>2 DEF MayComplete, MayFail, CanTransitionTo, ValidTransitions
  <2>5. /\ ToCompleted(rec) \in Records /\ ToCompleted(rec).status = "COMPLETED"
        /\ ToFailed(rec, "withdrawalFailed") \in Records
        /\ ToFailed(rec, "withdrawalFailed").status = "FAILED"
    BY <2>1, CompletedType DEF ToCompleted, ToFailed, Records
  <2>6. CASE poll' = Polled(t)
    BY <1>4, <2>1, <2>6
  <2> QED BY <1>6, <2>3, <2>4, <2>5, <2>6 DEF PollQuery
<1>7. CASE PollPut
  <2>1. poll.pc = "put" /\ poll.tran \in TranIDs /\ StoreUpdate(poll.tran, poll.rec)
    BY <1>1, <1>7 DEF PollPut
  <2>2. \A u \in TranIDs \ {poll.tran} : transfers'[u].status = transfers[u].status
    BY <1>1, <2>1 DEF StoreUpdate
  <2>3. CASE poll' = [poll EXCEPT !.pc = "audit"]
    <3>1. poll'.pc = "audit" /\ poll'.tran = poll.tran /\ poll'.snapshot = poll.snapshot
      BY <1>1, <2>3 DEF Polls
    <3> QED BY <1>1, <2>1, <2>2, <3>1 DEF PollFresh, SnapshotFresh
  <2> QED BY <1>4, <1>7, <2>1, <2>2, <2>3 DEF PollPut
<1>8. CASE PollPutFault \/ PollAudit
  BY <1>1, <1>4, <1>8 DEF PollPutFault, PollAudit
<1>9. CASE PollRound
  <2>1. /\ poll'.pc = "query"
        /\ poll'.snapshot = [t \in TranIDs |-> IF transfers[t].status = "FORWARDED"
                                               THEN transfers[t] ELSE Unknown]
    BY <1>9, RestingType DEF PollRound, Resting, Polls
  <2>2. UNCHANGED transfers
    BY <1>9 DEF PollRound
  <2> QED BY <1>2, <2>1, <2>2 DEF PollFresh, SnapshotFresh
<1>10. CASE Crash \/ Exit
  <2>1. poll' = Resting
    BY <1>10 DEF Crash, Exit, ProcessEnds
  <2> QED BY <1>2, <2>1 DEF Resting, NoSnapshot, PollFresh, SnapshotFresh
<1> QED BY <1>5, <1>6, <1>7, <1>8, <1>9, <1>10, PollerMoves DEF PollStep

(* Nothing runs before a boot.                                             *)
LEMMA DownIsEmptyNext ==
  ASSUME TypeInv, FreshInv, [Next]_vars
  PROVE  DownIsEmpty'
<1> USE DEF process
<1>1. CASE Crash \/ Exit
  BY <1>1 DEF Crash, Exit, ProcessEnds, DownIsEmpty
<1>2. ASSUME NEW p \in Workers,
             WorkerStep(p) \/ Reply(p) \/ \E t \in TranIDs : Detect(p, t)
      PROVE  phase # "down" /\ UNCHANGED phase
  <2>1. Idle.pc = "idle"
    BY DEF Idle
  <2>2. WorkerStep(p) \/ Reply(p) => phase # "down"
    BY <2>1, Busy DEF FreshInv, DownIsEmpty
  <2>3. \A t \in TranIDs : Detect(p, t) => phase # "down"
    BY DEF Detect
  <2>4. UNCHANGED phase
    BY <1>2 DEF WorkerStep, Layer1, Layer2, EnsurePending, CreatePending, Withdraw,
       Backoff, LoopEnds, Wake, Canceled, GetForRetryCount, UpdateRetryCount, Conclude,
       Load, CreateMissing, Put, StoreFault, Reply, Accept, RejectDuplicate, Refuse,
       LoseAnswer, Detect
  <2> QED BY <1>2, <2>2, <2>3, <2>4
<1>3. ASSUME NEW t \in TranIDs, Land(t) \/ Vanish(t) \/ Settle(t)
      PROVE  UNCHANGED <<phase, job, poll>>
  BY <1>3 DEF Land, Vanish, Settle
<1>4. PollRound => phase # "down" /\ UNCHANGED phase
  BY DEF PollRound
<1>5. PollStep => phase # "down" /\ UNCHANGED phase
  <2>1. PollStep => poll.queue # {} \/ poll.pc # "query"
    BY DEF PollStep, PollPut, PollPutFault, PollAudit
  <2>2. PollStep => UNCHANGED phase
    BY DEF PollStep, PollQuery, PollPut, PollPutFault, PollAudit
  <2>3. Resting.queue = {} /\ Resting.pc = "query"
    BY DEF Resting
  <2> QED BY <2>1, <2>2, <2>3 DEF FreshInv, DownIsEmpty
<1>6. Boot \/ StartDetector \/ StartPoller \/ Shutdown => phase' # "down"
  BY DEF Boot, StartDetector, StartPoller, Shutdown
<1>7. \A t \in TranIDs : RecoverNext(t) => phase' # "down"
  BY DEF RecoverNext
<1>8. CASE UNCHANGED <<phase, job, poll>>
  BY <1>8 DEF FreshInv, DownIsEmpty
<1>9. LoseStore \/ UNCHANGED vars => UNCHANGED <<phase, job, poll>>
  BY DEF LoseStore, vars
<1> QED BY <1>1, <1>2, <1>3, <1>4, <1>5, <1>6, <1>7, <1>8, <1>9 DEF Next, DownIsEmpty

LEMMA FreshNext ==
  TypeInv /\ FreshInv /\ OneCallPerTransfer /\ [Next]_vars => FreshInv'
BY CallFreshNext, PollFreshNext, DownIsEmptyNext DEF FreshInv

LEMMA FreshAlways == Spec /\ []OneCallPerTransfer => []FreshInv
BY FreshInit, FreshNext, TypeAlways, PTL DEF Spec

(* The store's records only move along ValidTransitions, although every    *)
(* write is of a copy read in an earlier transaction and the poller's      *)
(* copies are as old as its round: no two calls of Forward handling the    *)
(* same transfer at once is all it takes.  The store may fail, queries     *)
(* may fail, answers may be lost and the file may be.                      *)
THEOREM ValidTransitionsOnly == Spec /\ []OneCallPerTransfer => TransitionsAreValid
<1>1. ASSUME TypeInv, FreshInv, [Next]_vars, NEW t \in TranIDs
      PROVE  \/ transfers'[t].status = transfers[t].status
             \/ CanTransitionTo(transfers[t].status, transfers'[t].status)
             \/ LoseStore
  <2>1. StatusWritten(t)
    BY <1>1, StatusWrites
  <2>2. \A p \in Workers : Put(p) => job[p].rec.status \in {"FORWARDED", "FAILED"}
    BY <1>1 DEF FreshInv, CallFresh, Put
  <2>3. PollPut => poll.rec.status \in {"COMPLETED", "FAILED"}
    BY <1>1 DEF FreshInv, PollFresh, PollPut
  <2> QED BY <2>1, <2>2, <2>3 DEF StatusWritten, Moves, CanTransitionTo, ValidTransitions
<1>2. TypeInv /\ FreshInv /\ [Next]_vars =>
        [\A t \in TranIDs :
           \/ transfers'[t].status = transfers[t].status
           \/ CanTransitionTo(transfers[t].status, transfers'[t].status)
           \/ LoseStore]_vars
  BY <1>1
<1> QED BY <1>2, TypeAlways, FreshAlways, PTL DEF Spec, TransitionsAreValid

=============================================================================
