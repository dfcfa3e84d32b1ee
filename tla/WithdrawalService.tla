-------------------------- MODULE WithdrawalService --------------------------
(***************************************************************************)
(* The forwarding engine, the completion poller, the process they live in  *)
(* and the Binance account they act on.                                    *)
(*                                                                         *)
(* Every transaction on the store and every HTTP call is one step, so what *)
(* a caller read in one step may be stale in the next.  Two goroutines can *)
(* be inside Forwarder.Forward: the one that runs recovery, the start-up   *)
(* poll and then the detector's processLoop (Main), and the one that polls *)
(* after a WebSocket reconnection.  The poller is a third goroutine.       *)
(*                                                                         *)
(* Binance is external: it accepts a withdrawal, rejects it, or answers in *)
(* a way the caller cannot interpret; a request whose caller gave up or    *)
(* died may still land later.                                              *)
(***************************************************************************)
EXTENDS Integers, Sequences, FiniteSets, Transfer, Retry

CONSTANTS
  TranIDs,         \* the sub-account transfers that may be detected
  Workers,         \* goroutines that call Forward
  Main,            \* the one that also runs recovery and the start-up poll
  MaxAttempts,     \* retry.Config.MaxAttempts
  Faults,          \* kinds of error a Withdraw call may end in
  QueryFaults,     \* may a history query fail?
  StoreFaults,     \* may a store transaction fail?
  StoreLoss,       \* may the database file be lost while the process is down?
  Dedup,           \* does Binance reject a withdrawOrderId it has seen (-4026)?
  MaxWithdrawals,  \* bound: withdrawals Binance holds per transfer
  MaxOrphans       \* bound: requests per transfer on the wire without a caller

ASSUME WorkersAssumption == Main \in Workers
ASSUME AttemptsAssumption == MaxAttempts \in Nat \ {0}
ASSUME FaultsAssumption == Faults \subseteq Rejections \cup Undelivered \cup Ambiguous
ASSUME SwitchesAssumption ==
  /\ QueryFaults \in BOOLEAN /\ StoreFaults \in BOOLEAN
  /\ StoreLoss \in BOOLEAN /\ Dedup \in BOOLEAN
ASSUME BoundsAssumption == MaxWithdrawals \in Nat \ {0} /\ MaxOrphans \in Nat

VARIABLES
  transfers,    \* the store: tranId -> record, UNKNOWN when it has none
  configured,   \* transfers whose sub-account and asset have a destination
  phase,        \* where main.run is
  recoverQ,     \* records RecoverPending has still to hand to Forward
  job,          \* the local state of every call of Forward
  poll,         \* the local state of the poller
  withdrawals,  \* Binance: tranId -> its withdrawals, their ids are positions
  orphans,      \* Binance: requests on the wire that nobody waits for
  auditLog      \* audit lines written so far

vars == <<transfers, configured, phase, recoverQ, job, poll,
          withdrawals, orphans, auditLog>>

-----------------------------------------------------------------------------
(* Types *)

Phases == {"down", "recovering", "starting", "serving", "stopping"}

Steps == {"idle", "layer1", "layer2", "ensure", "create", "withdraw", "await",
          "backoff", "getRetry", "putRetry", "conclude",
          "load", "createMissing", "put"}

WithdrawalStatus == {"processing", "completed", "failed"}

Reasons == FailureKinds \cup {"none", "noDestination", "withdrawalFailed"}

Records == [status : Statuses, withdrawID : Nat, error : Reasons]

Replies == FailureKinds \cup {"none", "sent", "accepted", "noDestination"}

Jobs == [pc : Steps, tran : TranIDs \cup {"none"}, attempt : 0..MaxAttempts,
         reply : Replies, id : Nat, goal : {"none", "forward", "fail", "adopt"},
         rec : Records]

Idle == [pc |-> "idle", tran |-> "none", attempt |-> 0, reply |-> "none",
         id |-> 0, goal |-> "none", rec |-> Unknown]

Polls == [pc : {"query", "put", "audit"}, tran : TranIDs \cup {"none"},
          queue : SUBSET TranIDs, snapshot : [TranIDs -> Records], rec : Records]

NoSnapshot == [t \in TranIDs |-> Unknown]

Resting == [pc |-> "query", tran |-> "none", queue |-> {},
            snapshot |-> NoSnapshot, rec |-> Unknown]

WithStatus(s) == {t \in TranIDs : transfers[t].status = s}

-----------------------------------------------------------------------------
(* One call of Forward, step by step *)

Becomes(p, j) == job' = [job EXCEPT ![p] = j]

Goto(p, step) == Becomes(p, [job[p] EXCEPT !.pc = step])

Return(p) == Becomes(p, Idle)

binance == <<withdrawals, orphans>>
process == <<configured, phase, recoverQ>>

ForwardCall(p, t) == Becomes(p, [Idle EXCEPT !.pc = "layer1", !.tran = t])

(* A transfer is detected, for the first time or again: the detector polls *)
(* from its last timestamp inclusively and after every reconnection.       *)
Detect(p, t) ==
  /\ job[p].pc = "idle"
  /\ phase \in {"starting", "serving", "stopping"}
  /\ ForwardCall(p, t)
  /\ UNCHANGED <<transfers, process, poll, binance, auditLog>>

AlreadyProcessed(s) == s = "FORWARDED" \/ IsTerminal(s)

Layer1(p) ==
  /\ job[p].pc = "layer1"
  /\ IF AlreadyProcessed(transfers[job[p].tran].status)
     THEN Return(p)
     ELSE Goto(p, "layer2")
  /\ UNCHANGED <<transfers, process, poll, binance, auditLog>>

(* Seeded faults, here and below: the form a regression could give to the  *)
(* definition that follows.  They are no part of the specification.        *)
Layer2Blind(p) ==
  LET t == job[p].tran IN
  /\ job[p].pc = "layer2"
  /\ IF t \in configured
     THEN Goto(p, "ensure")
     ELSE Becomes(p, [job[p] EXCEPT !.pc = "load", !.goal = "fail",
                             !.reply = "noDestination"])
  /\ UNCHANGED <<transfers, process, poll, binance, auditLog>>

Layer2AfterDestination(p) ==
  LET t == job[p].tran IN
  /\ job[p].pc = "layer2"
  /\ \/ /\ t \notin configured
        /\ Becomes(p, [job[p] EXCEPT !.pc = "load", !.goal = "fail",
                              !.reply = "noDestination"])
     \/ /\ t \in configured
        /\ \E i \in DOMAIN withdrawals[t] :
             Becomes(p, [job[p] EXCEPT !.pc = "load", !.goal = "adopt", !.id = i])
     \/ t \in configured /\ withdrawals[t] = <<>> /\ Goto(p, "ensure")
  /\ UNCHANGED <<transfers, process, poll, binance, auditLog>>

Layer2WithoutUpdate(p) ==
  LET t == job[p].tran IN
  /\ job[p].pc = "layer2"
  /\ IF withdrawals[t] # <<>> THEN Return(p) ELSE Goto(p, "ensure")
  /\ UNCHANGED <<transfers, process, poll, binance, auditLog>>

(* The history query by withdrawOrderId, and the local destination lookup  *)
(* that follows when it finds nothing.  The query returns one of the       *)
(* withdrawals, whatever its status.                                       *)
Layer2(p) ==
  LET t == job[p].tran IN
  /\ job[p].pc = "layer2"
  /\ \/ \E i \in DOMAIN withdrawals[t] :
          Becomes(p, [job[p] EXCEPT !.pc = "load", !.goal = "adopt", !.id = i])
     \/ /\ withdrawals[t] = <<>>
        /\ t \notin configured
        /\ Becomes(p, [job[p] EXCEPT !.pc = "load", !.goal = "fail",
                              !.reply = "noDestination"])
     \/ /\ withdrawals[t] = <<>>
        /\ t \in configured
        /\ Goto(p, "ensure")
     \/ QueryFaults /\ Return(p)
  /\ UNCHANGED <<transfers, process, poll, binance, auditLog>>

EnsurePendingLater(p) ==
  /\ job[p].pc = "ensure"
  /\ Goto(p, "withdraw")
  /\ UNCHANGED <<transfers, process, poll, binance, auditLog>>

(* ensurePending: the Get ... *)
EnsurePending(p) ==
  /\ job[p].pc = "ensure"
  /\ \/ /\ transfers[job[p].tran].status = "PENDING"
        /\ Goto(p, "withdraw")
     \/ /\ transfers[job[p].tran].status = "UNKNOWN"
        /\ Goto(p, "create")
     \/ /\ AlreadyProcessed(transfers[job[p].tran].status)
        /\ Return(p)
  /\ UNCHANGED <<transfers, process, poll, binance, auditLog>>

(* Store.Create of a PENDING record; ErrAlreadyExists is tolerated by all  *)
(* three callers.                                                          *)
StoreCreate(t) ==
  transfers' = IF transfers[t].status = "UNKNOWN"
               THEN [transfers EXCEPT ![t] = Pending]
               ELSE transfers

(* Store.Update replaces the record whatever the stored one has become     *)
(* since it was read; it only requires that one is stored.                 *)
StoreUpdate(t, rec) ==
  transfers' = IF transfers[t].status = "UNKNOWN"
               THEN transfers
               ELSE [transfers EXCEPT ![t] = rec]

(* ... and the Create. *)
CreatePending(p) ==
  /\ job[p].pc = "create"
  /\ StoreCreate(job[p].tran)
  /\ Goto(p, "withdraw")
  /\ UNCHANGED <<process, poll, binance, auditLog>>

WithdrawUncounted(p) ==
  /\ job[p].pc = "withdraw"
  /\ Becomes(p, [job[p] EXCEPT !.pc = "await", !.attempt = 1, !.reply = "sent"])
  /\ UNCHANGED <<transfers, process, poll, binance, auditLog>>

WithdrawAuditedFirst(p) ==
  /\ job[p].pc = "withdraw"
  /\ Becomes(p, [job[p] EXCEPT !.pc = "await", !.attempt = @ + 1, !.reply = "sent"])
  /\ auditLog' = auditLog \cup {<<"INITIATED", job[p].tran>>}
  /\ UNCHANGED <<transfers, process, poll, binance>>

(* retry.DoWithResult: one more call of client.Withdraw. *)
Withdraw(p) ==
  /\ job[p].pc = "withdraw"
  /\ Becomes(p, [job[p] EXCEPT !.pc = "await", !.attempt = @ + 1, !.reply = "sent"])
  /\ UNCHANGED <<transfers, process, poll, binance, auditLog>>

Answered(p) == job[p].pc = "await" /\ job[p].reply \notin {"sent"}

(* The loop sleeps after a transient error while attempts are left. *)
Backoff(p) ==
  /\ Answered(p)
  /\ job[p].reply \in FailureKinds
  /\ RetryAfter(job[p].reply, job[p].attempt, MaxAttempts)
  /\ Goto(p, "backoff")
  /\ UNCHANGED <<transfers, process, poll, binance, auditLog>>

(* After the loop: the retry count is written only if there was a retry. *)
AfterLoop(p) == IF job[p].attempt > 1 THEN "getRetry" ELSE "conclude"

LoopEnds(p) ==
  /\ Answered(p)
  /\ job[p].reply \in FailureKinds =>
       ~ RetryAfter(job[p].reply, job[p].attempt, MaxAttempts)
  /\ Goto(p, AfterLoop(p))
  /\ UNCHANGED <<transfers, process, poll, binance, auditLog>>

Wake(p) ==
  /\ job[p].pc = "backoff"
  /\ Becomes(p, [job[p] EXCEPT !.pc = "withdraw", !.reply = "none"])
  /\ UNCHANGED <<transfers, process, poll, binance, auditLog>>

(* ctx.Done() wins the select: the loop returns ctx.Err() in place of the  *)
(* error it was retrying.                                                  *)
Canceled(p) ==
  /\ job[p].pc = "backoff"
  /\ phase = "stopping"
  /\ Becomes(p, [job[p] EXCEPT !.pc = AfterLoop(p), !.reply = "canceled"])
  /\ UNCHANGED <<transfers, process, poll, binance, auditLog>>

(* updateRetryCount reads the record in one transaction and writes it back *)
(* in another, with nothing changed but its retry count, which no other    *)
(* code reads.                                                             *)
GetForRetryCount(p) ==
  /\ job[p].pc = "getRetry"
  /\ IF transfers[job[p].tran].status = "UNKNOWN"
     THEN Goto(p, "conclude")
     ELSE Becomes(p, [job[p] EXCEPT !.pc = "putRetry", !.rec = transfers[job[p].tran]])
  /\ UNCHANGED <<transfers, process, poll, binance, auditLog>>

UpdateRetryCount(p) ==
  /\ job[p].pc = "putRetry"
  /\ StoreUpdate(job[p].tran, job[p].rec)
  /\ Goto(p, "conclude")
  /\ UNCHANGED <<process, poll, binance, auditLog>>

(* What Forward does with an error of the Withdraw call. *)
EndsTransfer(kind) == IsPermanent(kind) \/ ~ IsTransient(kind)

Conclude(p) ==
  /\ job[p].pc = "conclude"
  /\ \/ /\ job[p].reply = "accepted"
        /\ Becomes(p, [job[p] EXCEPT !.pc = "load", !.goal = "forward"])
        /\ auditLog' = auditLog \cup {<<"INITIATED", job[p].tran>>}
     \/ /\ job[p].reply \in FailureKinds
        /\ IF EndsTransfer(job[p].reply)
           THEN Becomes(p, [job[p] EXCEPT !.pc = "load", !.goal = "fail"])
           ELSE Return(p)
        /\ UNCHANGED auditLog
  /\ UNCHANGED <<transfers, process, poll, binance>>

(***************************************************************************)
(* markAsForwarded, markAsFailed and updateStoreFromWithdrawal: Get, the   *)
(* state machine's transition on the copy, Update.  The last two create    *)
(* the record when there is none and read it again.                        *)
(***************************************************************************)
Allowed(p, rec) ==
  CASE job[p].goal = "fail" -> MayFail(rec)
    [] OTHER                -> MayForward(rec, job[p].id)

Transitioned(p, rec) ==
  CASE job[p].goal = "fail" -> ToFailed(rec, job[p].reply)
    [] OTHER                -> ToForwarded(rec, job[p].id)

Load(p) ==
  LET rec == transfers[job[p].tran] IN
  /\ job[p].pc = "load"
  /\ \/ /\ rec.status = "UNKNOWN"
        /\ IF job[p].goal = "forward" THEN Return(p) ELSE Goto(p, "createMissing")
     \/ /\ rec.status # "UNKNOWN"
        /\ IF Allowed(p, rec)
           THEN Becomes(p, [job[p] EXCEPT !.pc = "put", !.rec = Transitioned(p, rec)])
           ELSE Return(p)
  /\ UNCHANGED <<transfers, process, poll, binance, auditLog>>

CreateMissing(p) ==
  /\ job[p].pc = "createMissing"
  /\ StoreCreate(job[p].tran)
  /\ Goto(p, "load")
  /\ UNCHANGED <<process, poll, binance, auditLog>>

(* The retry count written last, from the caller's copy of the record.     *)
PutBeforeRetryCount(p) ==
  /\ job[p].pc = "put"
  /\ StoreUpdate(job[p].tran, job[p].rec)
  /\ IF job[p].attempt > 1
     THEN Becomes(p, [job[p] EXCEPT !.pc = "putRetry", !.rec = Pending])
     ELSE Return(p)
  /\ UNCHANGED <<process, poll, binance, auditLog>>

Put(p) ==
  /\ job[p].pc = "put"
  /\ StoreUpdate(job[p].tran, job[p].rec)
  /\ Return(p)
  /\ UNCHANGED <<process, poll, binance, auditLog>>

(* A failed store transaction ends the call of Forward, except in          *)
(* updateRetryCount, whose error is only logged.  After a withdrawal was   *)
(* accepted the record then stays PENDING.                                 *)
StoreFault(p) ==
  /\ StoreFaults
  /\ \/ job[p].pc \in {"getRetry", "putRetry"} /\ Goto(p, "conclude")
     \/ job[p].pc \in {"layer1", "ensure", "create", "load", "createMissing", "put"}
        /\ Return(p)
  /\ UNCHANGED <<transfers, process, poll, binance, auditLog>>

WorkerStep(p) ==
  \/ Layer1(p) \/ Layer2(p) \/ EnsurePending(p) \/ CreatePending(p)
  \/ Withdraw(p) \/ Backoff(p) \/ LoopEnds(p) \/ Wake(p) \/ Canceled(p)
  \/ GetForRetryCount(p) \/ UpdateRetryCount(p) \/ Conclude(p)
  \/ Load(p) \/ CreateMissing(p) \/ Put(p) \/ StoreFault(p)

-----------------------------------------------------------------------------
(* Binance, and the HTTP exchange with it *)

Asked(p) == job[p].pc = "await" /\ job[p].reply = "sent"

Answer(p, reply, id) == Becomes(p, [job[p] EXCEPT !.reply = reply, !.id = id])

Room(t) == Len(withdrawals[t]) < MaxWithdrawals

Accept(p) ==
  LET t == job[p].tran IN
  /\ Asked(p)
  /\ Dedup => withdrawals[t] = <<>>
  /\ Room(t)
  /\ withdrawals' = [withdrawals EXCEPT ![t] = Append(@, "processing")]
  /\ Answer(p, "accepted", Len(withdrawals[t]) + 1)
  /\ UNCHANGED <<transfers, process, poll, orphans, auditLog>>

RejectDuplicate(p) ==
  /\ Asked(p)
  /\ Dedup
  /\ withdrawals[job[p].tran] # <<>>
  /\ Answer(p, "duplicate", 0)
  /\ UNCHANGED <<transfers, process, poll, binance, auditLog>>

(* Refused by Binance, or by the network before Binance saw it. *)
Refuse(p) ==
  /\ Asked(p)
  /\ \E kind \in Faults \cap (Rejections \cup Undelivered) : Answer(p, kind, 0)
  /\ UNCHANGED <<transfers, process, poll, binance, auditLog>>

(* The answer is lost or useless.  Binance has acted on the request, will  *)
(* act on it later, or never will.                                         *)
LoseAnswer(p) ==
  LET t == job[p].tran IN
  /\ job[p].pc = "await"
  /\ job[p].reply \in {"sent", "accepted"}
  /\ \E kind \in Faults \cap Ambiguous : Answer(p, kind, 0)
  /\ \/ UNCHANGED orphans
     \/ /\ job[p].reply = "sent"
        /\ orphans[t] < MaxOrphans
        /\ orphans' = [orphans EXCEPT ![t] = @ + 1]
  /\ UNCHANGED <<transfers, process, poll, withdrawals, auditLog>>

Reply(p) == Accept(p) \/ RejectDuplicate(p) \/ Refuse(p) \/ LoseAnswer(p)

Land(t) ==
  /\ orphans[t] > 0
  /\ orphans' = [orphans EXCEPT ![t] = @ - 1]
  /\ IF (Dedup /\ withdrawals[t] # <<>>) \/ ~ Room(t)
     THEN UNCHANGED withdrawals
     ELSE withdrawals' = [withdrawals EXCEPT ![t] = Append(@, "processing")]
  /\ UNCHANGED <<transfers, process, job, poll, auditLog>>

Vanish(t) ==
  /\ orphans[t] > 0
  /\ orphans' = [orphans EXCEPT ![t] = @ - 1]
  /\ UNCHANGED <<transfers, process, job, poll, withdrawals, auditLog>>

Settle(t) ==
  /\ \E i \in DOMAIN withdrawals[t], s \in {"completed", "failed"} :
       /\ withdrawals[t][i] = "processing"
       /\ withdrawals' = [withdrawals EXCEPT ![t][i] = s]
  /\ UNCHANGED <<transfers, process, job, poll, orphans, auditLog>>

-----------------------------------------------------------------------------
(* The completion poller *)

(* A round starts with a snapshot of the FORWARDED records.  The select of *)
(* pollLoop may still take a tick after the context is cancelled.          *)
PollRound ==
  /\ phase \in {"serving", "stopping"}
  /\ poll.queue = {}
  /\ WithStatus("FORWARDED") # {}
  /\ poll' = [Resting EXCEPT
                !.queue = WithStatus("FORWARDED"),
                !.snapshot = [t \in TranIDs |-> IF transfers[t].status = "FORWARDED"
                                                THEN transfers[t] ELSE Unknown]]
  /\ UNCHANGED <<transfers, process, job, binance, auditLog>>

Polled(t) == [poll EXCEPT !.pc = "query", !.tran = "none", !.rec = Unknown,
                          !.queue = @ \ {t}, !.snapshot = [@ EXCEPT ![t] = Unknown]]

PollQueryCompletedOnly(t) ==
  /\ poll.pc = "query"
  /\ t \in poll.queue
  /\ poll' = IF \E i \in DOMAIN withdrawals[t] : withdrawals[t][i] = "completed"
             THEN [poll EXCEPT !.pc = "put", !.tran = t,
                               !.rec = ToCompleted(poll.snapshot[t])]
             ELSE Polled(t)
  /\ UNCHANGED <<transfers, process, job, binance, auditLog>>

PollQueryUnlessFailed(t) ==
  /\ poll.pc = "query"
  /\ t \in poll.queue
  /\ \E i \in DOMAIN withdrawals[t] :
       poll' = IF withdrawals[t][i] # "failed"
               THEN [poll EXCEPT !.pc = "put", !.tran = t,
                                 !.rec = ToCompleted(poll.snapshot[t])]
               ELSE Polled(t)
  /\ UNCHANGED <<transfers, process, job, binance, auditLog>>

(* checkWithdrawalStatus up to the Update, on the snapshot's record.       *)
PollQuery(t) ==
  LET rec == poll.snapshot[t]
      Write(may, r) == poll' = IF may
                               THEN [poll EXCEPT !.pc = "put", !.tran = t, !.rec = r]
                               ELSE Polled(t)
  IN
  /\ poll.pc = "query"
  /\ t \in poll.queue
  /\ \/ /\ rec.withdrawID # 0
        /\ \E i \in DOMAIN withdrawals[t] :
             \/ /\ withdrawals[t][i] = "completed"
                /\ Write(MayComplete(rec), ToCompleted(rec))
             \/ /\ withdrawals[t][i] = "failed"
                /\ Write(MayFail(rec), ToFailed(rec, "withdrawalFailed"))
             \/ withdrawals[t][i] = "processing" /\ poll' = Polled(t)
     \/ /\ rec.withdrawID = 0 \/ withdrawals[t] = <<>> \/ QueryFaults
        /\ poll' = Polled(t)
  /\ UNCHANGED <<transfers, process, job, binance, auditLog>>

PollPut ==
  /\ poll.pc = "put"
  /\ StoreUpdate(poll.tran, poll.rec)
  /\ poll' = IF poll.rec.status = "COMPLETED"
             THEN [poll EXCEPT !.pc = "audit"]
             ELSE Polled(poll.tran)
  /\ UNCHANGED <<process, job, binance, auditLog>>

PollPutFault ==
  /\ StoreFaults
  /\ poll.pc = "put"
  /\ poll' = Polled(poll.tran)
  /\ UNCHANGED <<transfers, process, job, binance, auditLog>>

PollAudit ==
  /\ poll.pc = "audit"
  /\ auditLog' = auditLog \cup {<<"COMPLETED", poll.tran>>}
  /\ poll' = Polled(poll.tran)
  /\ UNCHANGED <<transfers, process, job, binance>>

PollStep == \/ \E t \in poll.queue : PollQuery(t)
            \/ PollPut \/ PollPutFault \/ PollAudit

-----------------------------------------------------------------------------
(* The process: main.run, crashes and restarts *)

BootWithoutRecovery ==
  /\ phase = "down"
  /\ phase' = "recovering"
  /\ configured' \in SUBSET TranIDs
  /\ recoverQ' = {}
  /\ UNCHANGED <<transfers, job, poll, binance, auditLog>>

(* A boot reads the configuration, opens the store and takes RecoverPending's *)
(* snapshot; when that query fails the service goes on without recovery.   *)
Boot ==
  /\ phase = "down"
  /\ phase' = "recovering"
  /\ configured' \in SUBSET TranIDs
  /\ \/ recoverQ' = WithStatus("PENDING")
     \/ StoreFaults /\ recoverQ' = {}
  /\ UNCHANGED <<transfers, job, poll, binance, auditLog>>

RecoverNextUntilNonePending(t) ==
  /\ phase = "recovering"
  /\ job[Main].pc = "idle"
  /\ t \in recoverQ
  /\ recoverQ' = WithStatus("PENDING")
  /\ ForwardCall(Main, t)
  /\ UNCHANGED <<transfers, configured, phase, poll, binance, auditLog>>

RecoverNext(t) ==
  /\ phase = "recovering"
  /\ job[Main].pc = "idle"
  /\ t \in recoverQ
  /\ recoverQ' = recoverQ \ {t}
  /\ ForwardCall(Main, t)
  /\ UNCHANGED <<transfers, configured, phase, poll, binance, auditLog>>

(* The detector starts: it connects and polls recent transfers. *)
StartDetector ==
  /\ phase = "recovering"
  /\ job[Main].pc = "idle"
  /\ recoverQ = {}
  /\ phase' = "starting"
  /\ UNCHANGED <<transfers, configured, recoverQ, job, poll, binance, auditLog>>

(* The start-up poll has returned; the poller and the API server start. *)
StartPoller ==
  /\ phase = "starting"
  /\ job[Main].pc = "idle"
  /\ phase' = "serving"
  /\ UNCHANGED <<transfers, configured, recoverQ, job, poll, binance, auditLog>>

Shutdown ==
  /\ phase = "serving"
  /\ phase' = "stopping"
  /\ UNCHANGED <<transfers, configured, recoverQ, job, poll, binance, auditLog>>

InFlight(t) == {p \in Workers : Asked(p) /\ job[p].tran = t}

(* Everything in memory is gone; a request on the wire loses its caller    *)
(* and may or may not reach Binance.                                       *)
ProcessEnds ==
  /\ phase' = "down"
  /\ recoverQ' = {}
  /\ job' = [p \in Workers |-> Idle]
  /\ poll' = Resting
  /\ orphans' \in [TranIDs -> 0..MaxOrphans]
  /\ \A t \in TranIDs :
       orphans[t] <= orphans'[t] /\ orphans'[t] <= orphans[t] + Cardinality(InFlight(t))
  /\ configured' = {}
  /\ UNCHANGED <<transfers, withdrawals, auditLog>>

Crash == phase # "down" /\ ProcessEnds

(* The deferred Stop calls wait for the poller and for processLoop, not    *)
(* for a poll started by a reconnection.                                   *)
Exit ==
  /\ phase = "stopping"
  /\ job[Main].pc = "idle"
  /\ poll.queue = {}
  /\ ProcessEnds

LoseStore ==
  /\ StoreLoss
  /\ phase = "down"
  /\ transfers' = [t \in TranIDs |-> Unknown]
  /\ UNCHANGED <<process, job, poll, binance, auditLog>>

-----------------------------------------------------------------------------

Init ==
  /\ transfers = [t \in TranIDs |-> Unknown]
  /\ configured = {}
  /\ phase = "down"
  /\ recoverQ = {}
  /\ job = [p \in Workers |-> Idle]
  /\ poll = Resting
  /\ withdrawals = [t \in TranIDs |-> <<>>]
  /\ orphans = [t \in TranIDs |-> 0]
  /\ auditLog = {}

Next ==
  \/ \E p \in Workers : WorkerStep(p) \/ Reply(p) \/ \E t \in TranIDs : Detect(p, t)
  \/ \E t \in TranIDs : Land(t) \/ Vanish(t) \/ Settle(t)
  \/ PollRound \/ PollStep
  \/ Boot \/ (\E t \in TranIDs : RecoverNext(t)) \/ StartDetector \/ StartPoller
  \/ Shutdown \/ Crash \/ Exit \/ LoseStore

Spec == Init /\ [][Next]_vars

-----------------------------------------------------------------------------
(* Safety *)

(* Every variable holds a value of its declared range: in particular the   *)
(* attempt counter of DoWithResult never passes MaxAttempts.               *)
TypeOK ==
  /\ transfers \in [TranIDs -> Records]
  /\ configured \subseteq TranIDs
  /\ phase \in Phases
  /\ recoverQ \subseteq TranIDs
  /\ job \in [Workers -> Jobs]
  /\ poll \in Polls
  /\ withdrawals \in [TranIDs -> Seq(WithdrawalStatus)]
  /\ orphans \in [TranIDs -> 0..MaxOrphans]
  /\ auditLog \subseteq {"INITIATED", "COMPLETED"} \X TranIDs

(* Write-ahead: ensurePending commits the record before Withdraw is called *)
(* and nothing ever deletes it, so whatever Binance has done, or may still *)
(* do, for a transfer is covered by a record of the store, through crashes,*)
(* lost answers and two concurrent callers.                                *)
RecordedBeforeWithdrawal ==
  ~ StoreLoss =>
    \A t \in TranIDs :
      (withdrawals[t] # <<>> \/ orphans[t] > 0 \/ InFlight(t) # {})
        => transfers[t].status # "UNKNOWN"

(* A record says FORWARDED or COMPLETED only on evidence from Binance: the *)
(* withdrawal it names exists, and COMPLETED means that Binance completed  *)
(* one, even when the record was written from a copy read long before.     *)
ForwardedIsBacked ==
  \A t \in TranIDs :
    /\ transfers[t].status \in {"FORWARDED", "COMPLETED"}
         => transfers[t].withdrawID \in DOMAIN withdrawals[t]
    /\ transfers[t].status = "COMPLETED"
         => \E i \in DOMAIN withdrawals[t] : withdrawals[t][i] = "completed"

(* The audit trail claims nothing that did not happen.                     *)
AuditIsTruthful ==
  \A t \in TranIDs :
    /\ <<"INITIATED", t>> \in auditLog => withdrawals[t] # <<>>
    /\ <<"COMPLETED", t>> \in auditLog =>
         \E i \in DOMAIN withdrawals[t] : withdrawals[t][i] = "completed"

(* "This ensures a transfer is never forwarded twice, even if BoltDB state *)
(* is lost" (forwarder.go:130): the two checks of Forward alone, without   *)
(* Binance's own rejection of duplicates.                                  *)
AtMostOneWithdrawal == \A t \in TranIDs : Len(withdrawals[t]) <= 1

(* FAILED is never written while Binance is paying out: the operator who   *)
(* reads FAILED may move the funds by hand.                                *)
FailedHasNoLiveWithdrawal ==
  \A t \in TranIDs :
    transfers[t].status = "FAILED" =>
      \A i \in DOMAIN withdrawals[t] : withdrawals[t][i] = "failed"

(* FAILED is a "Permanent failure" (model/transfer.go:21), also where the  *)
(* error that led to it is Binance's answer that the withdrawal exists     *)
(* already (-4026, retry.go:167-168): the one it has must have failed.     *)
FailedAsDuplicateIsUnpaid ==
  \A t \in TranIDs :
    transfers[t].status = "FAILED" /\ transfers[t].error = "duplicate" =>
      \A i \in DOMAIN withdrawals[t] : withdrawals[t][i] = "failed"

(* An error the retry loop may retry leaves the record PENDING for a later *)
(* attempt (forwarder.go:313); only errors that need a person, or Binance's*)
(* own failure of the withdrawal, end it.                                  *)
FailedNeedsAPerson ==
  \A t \in TranIDs :
    transfers[t].status = "FAILED" =>
      \/ transfers[t].error \in {"noDestination", "withdrawalFailed"}
      \/ transfers[t].error \in FailureKinds /\ IsPermanent(transfers[t].error)

(* Recovery is complete: once the service has gone past RecoverPending, a  *)
(* record that nobody is working on is PENDING only if Binance has no      *)
(* withdrawal for it, wherever an earlier process died.                    *)
NoWithdrawalForgotten ==
  \A t \in TranIDs :
    (/\ phase \in {"starting", "serving", "stopping"}
     /\ transfers[t].status = "PENDING"
     /\ \A p \in Workers : job[p].tran # t)
      => withdrawals[t] = <<>>

(* The store's records only move along ValidTransitions, although every    *)
(* writer writes a copy it read in an earlier transaction.                 *)
TransitionsAreValid ==
  [][\A t \in TranIDs :
       \/ transfers'[t].status = transfers[t].status
       \/ CanTransitionTo(transfers[t].status, transfers'[t].status)
       \/ LoseStore]_vars

-----------------------------------------------------------------------------
(* Refinement *)

statusBar == [t \in TranIDs |-> transfers[t].status]

Payout(w) == CASE w = <<>>   -> "none"
               [] Len(w) = 1 -> w[1]
               [] OTHER      -> "double"

payoutBar == [t \in TranIDs |-> Payout(withdrawals[t])]

Lifecycle == INSTANCE TransferLifecycle WITH status <- statusBar, payout <- payoutBar

(* With one caller of Forward and answers that can be trusted, every step  *)
(* of the service is a step of the lifecycle its documents describe, or    *)
(* none: paid at most once, recorded first, FORWARDED, COMPLETED and       *)
(* FAILED only when that is what Binance did, and all of it again after    *)
(* the database was lost.                                                  *)
ImplementsLifecycle == Lifecycle!Spec

-----------------------------------------------------------------------------
(* Liveness.  The goroutines are scheduled, every HTTP call ends (the client *)
(* has a timeout), the poller's ticker ticks and its queries succeed again *)
(* and again, and Binance settles what it accepted.  Nothing obliges a     *)
(* transfer to be detected again, the process to be stopped, or it to stay *)
(* up: the properties say when they need that.                             *)
Fairness ==
  /\ \A p \in Workers : WF_vars(WorkerStep(p)) /\ WF_vars(Reply(p))
  /\ WF_vars(PollRound) /\ WF_vars(PollStep)
  /\ \A t \in TranIDs : WF_vars(Settle(t)) /\ WF_vars(RecoverNext(t))
  /\ \A t \in TranIDs : SF_vars(PollQuery(t) /\ poll'.pc = "put")
  /\ SF_vars(PollPut)
  /\ WF_vars(Boot) /\ WF_vars(StartDetector) /\ WF_vars(StartPoller)

FairSpec == Spec /\ Fairness

StaysUp == <>[](phase = "serving")

(* A call of Forward returns, however its withdrawal call ends and         *)
(* whatever the other callers do meanwhile.                                *)
ForwardReturns ==
  \A p \in Workers : job[p].pc # "idle" ~> job[p].pc = "idle"

(* Recovery cannot wedge the start-up: the process gets past it or dies.   *)
RecoveryEnds == phase = "recovering" ~> phase # "recovering"

(* While the service stays up, the poller takes every FORWARDED record to  *)
(* the outcome Binance reached.                                            *)
ForwardedSettles ==
  StaysUp => \A t \in TranIDs :
    transfers[t].status = "FORWARDED" ~> IsTerminal(transfers[t].status)

(* A transfer that was recorded does not stay PENDING for ever.            *)
PendingIsResolved ==
  StaysUp => \A t \in TranIDs :
    transfers[t].status = "PENDING" ~> transfers[t].status # "PENDING"

=============================================================================
