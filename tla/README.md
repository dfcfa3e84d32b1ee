# Verification of the Binance withdrawal service

TLA+ specifications, TLC configurations and TLAPS proofs for the service in
`src/`: it watches a Binance master account for transfers arriving from
sub-accounts and forwards each one, once, to a configured external address.

## The system

| Part | Source | State it keeps | Operations |
|---|---|---|---|
| Transfer record | `internal/model`, `internal/sm` | status, withdraw id, error, carried data | `ToForwarded`, `ToCompleted`, `ToFailed` along `ValidTransitions` |
| Store | `internal/store` | bbolt buckets `transfers`, `by-status`, `by-time` | `Create`, `Update`, `UpdateStatus`, `Delete`, index queries |
| Retry | `internal/retry` | attempt counter | classification of errors, `Do` / `DoWithResult` |
| Forwarder | `internal/forwarder` | none of its own: the locals of each call | `Forward`, `RecoverPending` |
| Poller | `internal/poller` | a round's list of records | a round every 30 s and at start |
| Detector | `internal/detector` | last processed time, a channel of 100 events | polls, `processLoop`, `OnReconnected` |
| User data stream | `internal/binance/websocket.go` | connection, listen key, flags | connect, read, reconnect, keep alive |
| REST client | `internal/binance/client.go` | none | `Withdraw`, histories, listen keys |
| Destinations | `internal/config` | sub-account and asset to address | lookup; set at boot; reload, which only tests call |
| API | `internal/api` | none | status, list, get, metrics; retry answers 503 as built |
| Audit, metrics | `internal/audit`, `internal/metrics` | write-only | log lines, counters, two gauges |
| Process | `cmd/service/main.go` | the order of start and stop | `run` |

How they interact. `run` opens the store, calls `RecoverPending`, then starts
the detector (which connects and polls recent transfers before it returns),
the poller and the API, and waits for a signal. The detector calls
`Forwarder.Forward` through a callback: from `run` itself during the start-up
poll, from `processLoop` afterwards, and from the stream's reconnection
goroutine in `OnReconnected`. So two goroutines can be inside `Forward` at once,
with the poller as a third writer of records. Nothing but bbolt's own
transactions keeps them apart: every write of a record is a `Get`, a change and
an `Update` in separate transactions. Binance is the other store of record: it
holds the withdrawals, found again by `withdrawOrderId = tranId`.

The user data stream is four kinds of goroutine that start one another:
`connect` ends by starting `readLoop` and a `keepAlive`, a broken connection
makes `readLoop` start `reconnectLoop`, and that calls `connect` again. The
handler's callbacks run inside them, `OnReconnected` with a whole poll in it.
`Stop` cancels the context, waits for `processLoop` alone, and calls `Close`,
which meets the others wherever they are.

What makes it hard: money moves in a step that can neither be undone nor be
observed atomically with the record of it. An answer may be lost, a request may
land after its caller has given up or died, the process may stop anywhere, the
database may be lost, and two callers may race. On the way in, a transfer is
seen only through an event that may be lost or dropped, or through a poll that
starts at a watermark two goroutines move. The hazards are listed line by
line under "hazards" in `PROJECT.json`; the properties below are aimed at them.

What each part has to guarantee:

- Forwarder: a record before any money moves; one withdrawal per transfer;
  FORWARDED only with a withdrawal behind it; FAILED never over a payment; only
  errors that need a person end a transfer; every call returns.
- Recovery: no withdrawal is forgotten, wherever the last process died.
- Poller: COMPLETED and FAILED say what Binance did; every FORWARDED record gets
  there while the service stays up.
- Store: the indexes agree with the records; queries answer from the records,
  in time order to the second.
- Audit: nothing claimed that did not happen, and nothing missing.
- API: what it answers is what the records say.
- Stream: one reader; the key of the connection in use stays alive while its refreshes
  succeed; the handler
  is told of every subscription and loss in order; a broken connection comes
  back; `Close` leaves nothing running.
- Detector: a transfer is forgotten only by a fault it can do nothing about, and
  every other one reaches the handler.

## Modules

| Module | Models |
|---|---|
| `Transfer` | the record, `ValidTransitions`, the state machine's checks and changes |
| `Retry` | kinds of error and how `retry.go` classifies them; when the loop goes on |
| `WithdrawalService` | forwarder, poller, process and Binance, composed |
| `TransferLifecycle` | abstract: each transfer's status beside its one payout |
| `TimeKeys` | the bytes of the by-time keys and their order |
| `TransferStore` | the three buckets, their transactions and queries |
| `TransferMap` | abstract: a map from id to record |
| `TransferAPI` | the HTTP handlers, on top of `TransferStore` |
| `EventStream` | abstract: what the stream promises its event handler |
| `UserDataStream` | the goroutines of `websocket.go`, `Close`, listen keys, the network |
| `Detector` | the detector on top of `EventStream`, the account, crashes |
| `MCWithdrawalService`, `MCTransferStore`, `MCUserDataStream`, `MCDetector` | instances for TLC |
| `WithdrawalServiceProofs` | type correctness and its supporting invariants |
| `WithdrawalServiceSafety` | write-ahead, evidence, truthful audit |
| `WithdrawalServiceOneCall` | transitions, while no two calls handle one transfer |
| `WithdrawalServicePaidOnce` | one payment, no payment behind FAILED, recovery, the refinement of `TransferLifecycle` |
| `TransferStoreProofs` | types and indexes of the store, its refinement of `TransferMap` |
| `TransferAPIProofs` | the handlers leave the store alone and answer what it holds |
| `UserDataStreamProofs` | types, the stream's invariants, its refinement of `EventStream` |
| `DetectorProofs` | types, and that nothing is forgotten |

How they compose. `UserDataStream` is shown to implement `EventStream`;
`Detector` EXTENDS `EventStream` and joins each of its actions with what the
handler does in that callback, so what is shown of the detector holds over any
stream that keeps the promise. `Detector` sees the forwarder as a handler that
returns with the transfer on record or without; `WithdrawalService` sees the
detector as something that may hand over any transfer at any time
(`Detect`). `WithdrawalService` sees the store as a map; `TransferStore` is shown
to be one.

### WithdrawalService and the code

`transfers[t]` is the stored record (status UNKNOWN when there is none),
`job[p]` the locals of the call of `Forward` that goroutine `p` is in, `poll`
those of the poller, `phase` and `recoverQ` the position of `run`,
`withdrawals[t]` what Binance holds under the order id `t` (ids are positions in
the sequence), `orphans[t]` the requests still on the wire whose caller has
gone, `auditLog` the lines written, and `configured` the transfers that have a
destination, chosen afresh at every boot.

One step is one store transaction or one end of an HTTP exchange, because
nothing larger is atomic in the code. `Forward` is

    layer1 -> layer2 -> ensure -> [create] -> withdraw -> await
                 |         |                     ^          |
                 |         v                  backoff <-----+
                 |       return                             |
                 v                                          v
               load <------------ conclude <- [getRetry -> putRetry]
                 |
       [createMissing] -> put -> return

with `goal` saying which of `markAsForwarded`, `markAsFailed` and
`updateStoreFromWithdrawal` the last part is. `put` writes the copy read in
`load` (`rec`), whatever has happened to the stored record since. `Canceled`
is the `ctx.Done()` branch of the retry loop's select.

`statusBar` and `payoutBar` are the refinement mapping to `TransferLifecycle`:
the stored statuses as they are, and of the withdrawals Binance holds for a
transfer what has become of the payment.

`Detect` stands for the detector: any transfer may be detected at any time by
either goroutine, any number of times, which includes everything the detector
does. `Accept`, `RejectDuplicate`, `Refuse` and `LoseAnswer` are the ends of a
withdrawal call; `LoseAnswer` leaves the request accepted, still on the wire
(`Land` or `Vanish` later) or gone. `Crash` may happen at any step; it also
stands for the early error returns of `run`. `Exit` waits for what the deferred
`Stop` calls wait for, which is not the reconnection goroutine.

Definitions introduced as "seeded faults" are the forms a regression could give
to the definition after them. No specification uses them; they are there to
confirm that each property can fail.

### TransferStore and the code

A bbolt write transaction is atomic and rolled back on error, so one transaction
is one step and `RollBack` stands for every error return inside one. The model
keeps the two index buckets by hand as the code does: an index moves only when
its key changed, a delete removes the key of the stored record. Queries walk the
indexes in byte order (`Ascending` by `KeyLess`, bbolt's cursor). A time is
a number of hundredths of a second, enough
for the three shapes RFC3339Nano gives a fraction: none, trimmed and full.

`TransferMap` knows neither buckets nor bytes. Its lists by time are in order to
the second, and the detections of one second may come in any order; a query by
range has every record of the seconds in between and of the very instants asked
for, and may miss others of the first and the last second. That is less than the
comments of `store.go` claim (Divergences) and all that the keys give.

`TransferAPI` extends the store's variables with the response being sent and the
`pending_count` gauge. A handler is one read transaction and a response; any
transaction of the forwarder or the poller (`StoreStep`) may come between two
handlers.

### UserDataStream and the code

`routines` are slots for goroutines that connect, read or reconnect; a `go`
statement fills a free slot, and `connect`, whose last act is to start `readLoop`
and return, hands its own slot on. The steps of one slot are

    create -> dial -> publish -> inform -> callback -> loop <-> reading
      ^  \______ a failure, in reconnectLoop ______        |        |
      |                                           v       |    respawn (starts another slot at check)
    closeOld <------------ wait <-------------- check     v        |
                                                        unwind <---+

`publish` is the critical section, `callback` the time the handler spends in
`OnConnected` or `OnReconnected`, `unwind` the deferred reset of `connected`.
`told` is the last callback, which is what the `websocket_connected` gauge shows.
`stopping` is how far `Detector.Stop` has come: `cancel()`, then the four parts
of `Close`, each of which can find the others at any step. `sockets` are the
connections Binance has served, `liveKeys` the listen keys it honours; a key expires
when it is not in `s.listenKey` to be refreshed (`Refreshed`), or when the last refresh
failed (`Refresh`, `lapsed`): `keepAlive` reports such a failure and does
nothing else about it.

`Mode`, `Link` and `Unread` are the refinement mapping to `EventStream`.

### Detector and the code

Two goroutines work: `main`, which runs `Start` (the first poll) and then
`processLoop`, and `reconnect`, the stream's, inside `OnReconnected`. `work[g]` is
where it is, the transfers a query returned and it has still to hand over
(`found`), and the one the handler is busy with (`tran`). `processTransfer` is two
steps, the watermark and the handler's return, because the other goroutine can
poll between them. A query returns a page, which is any part of what lies between
its times once that is more than its limit: 500 for a poll (`PollLimit`), 100 for
an event (`EventLimit`), whose page is of *all* transfers around it and only
then searched for those of its kind. `excused`
records what a fault has kept from the handler: a failed query, a page or the
channel being full, a handler that failed, or an age beyond the lookback at a poll
that has no watermark yet. It excuses only until a later query returns the transfer after
all.

## Runs

| Run | Instance | Distinct states | Shows |
|---|---|---|---|
| `ServiceTwoWorkers` | 1 transfer, 2 callers, 3 attempts | 283,715 | `TypeOK`, `RecordedBeforeWithdrawal`, `ForwardedIsBacked`, `AuditIsTruthful` under races |
| `ServiceTwoLayers` | 2 transfers, 1 caller, no duplicate rejection, store loss, definite answers | 221,268 | `AtMostOneWithdrawal`, `FailedHasNoLiveWithdrawal`; the service implements `TransferLifecycle` |
| `ServiceRecovery` | 2 transfers, 1 caller, definite answers, working store | 33,063 | `NoWithdrawalForgotten`, `PendingIsResolved` |
| `ServiceLiveness` | 1 transfer, lost answers, failing queries and transactions | 2,580 | `TransitionsAreValid`: records only move along `ValidTransitions` although every write is from an earlier read; `ForwardReturns`, `RecoveryEnds`, `ForwardedSettles` |
| `StoreIsMap` | 2 ids, 2 statuses, 3 times, two of them in one second, limits 1 and 2 | 8,284 | `TypeOK`, `IndexesExact`; `AnswersMatchRecords` of the HTTP handlers; the store implements `TransferMap` |
| `StreamReconnects` | 2 keys, 3 connections, 3 goroutines besides the keepAlives, failing refreshes | 249,564 | `TypeOK`, `OneReader`, `ConnectedHasReader`, `ReadsOnLiveKey`; the stream implements `EventStream`; `BrokenConnectionRecovers`, `StopQuiesces` |
| `DetectorKeepsUp` | 2 transfers of different kinds, 3 instants, a channel of 1, pages of 1 for polls and events, 1 restart | 316,008 | `TypeOK`, `ForgottenOnlyByFault`, `EventuallyRecorded` |

Runs that are expected to find a violation; each shows the code doing something
other than what a document or comment of the repository says:

| Run | What happens |
|---|---|
| `ShutdownFailsPending` | Shutdown during backoff marks the transfer FAILED: `DoWithResult` replaces the transient error by `context canceled`, which `Forward` takes for permanent. `forwarder.go:313` says such a record stays PENDING. |
| `DuplicateFails` | Accepted, answer lost, retried after the backoff, rejected with -4026: the record is FAILED for being a duplicate while Binance pays. `FailedAsDuplicateIsUnpaid` looks at records FAILED with that error only, so that the shutdown of the run above is no counterexample. |
| `StaleWrites` | Two callers: a PENDING copy overwrites FORWARDED. |
| `StreamStaysDown` | The server closes the connection normally (code 1000 or 1001): `readLoop` returns, no callback, no reconnection; detection is over until a restart, and the gauge says connected. |
| `DetectorSkips` | Transfers 1 and 3 are alike. 1's event waits in the channel, the connection breaks, 2 and 3 are made. `processLoop` takes 1's event, finds 1 and 3 around its time, and moves the watermark to 3; the poll after the reconnection starts there and never sees 2. |

### Bounds, and why they are enough

- Transfers do not share state except through the single caller that handles
  them one after the other and the poller's round: two show that interleaving,
  and one is enough where two callers race for the same transfer. Liveness has
  one as well, which leaves out only a caller busy with the other transfer: a
  call returns whatever it is for, and recovery's queue of two is in
  `ServiceRecovery`.
- `MaxAttempts` is 2, or 3 with two callers, where the code's default is 5: two
  already have a first attempt, a last one, a retry and a retry count to write.
- `MaxWithdrawals` is 1 where Binance rejects duplicates (there is never room
  for more) and 2 where it does not, so that a double payment is a state.
- `MaxOrphans` 1 lets one request outlive its caller. A second one behaves as
  the first with `Dedup`.
- `Faults` names one kind of each class the code treats differently in that run.
- `StreamReconnects`: a third connection is the one after a reconnection whose
  predecessor was itself a reconnection, with keepAlives of all of them alive;
  two keys are one to close and one to replace it with. Three slots let the
  deferred reset of one `readLoop` outlast a whole reconnection and the next break;
  a fourth would only add a second such straggler. `MaxConns` also ends the
  breaking: the last connection stays.
- `DetectorKeepsUp`: two transfers are one to move the watermark and one to fall
  behind it; three instants put either before, in and after the lookback and the
  window; a channel and a page of one are full with the other transfer, so an
  event may miss its own transfer for another beside it.
- `DetectorSkips` needs three transfers, two of them alike, and no fault at all.
- `StoreIsMap`: the two records can be in one status or two, and in one second, where
  the bytes put the later first (1.55 s before 1.5 s), or in two. A list of more
  is in order when every two of it are, and the theorem is for any number.

No run uses symmetry: most check temporal properties, and in the others the
transfers are few.

`StreamReconnects`, `StreamStaysDown` and the detector's runs do not check
deadlock: a first connect that fails, `Close`, and a clock at its bound end the
model as they end the program.

### Assumptions

- `Dedup`: Binance rejects a `withdrawOrderId` it has seen with -4026
  (`retry.go:167`). It is on in the runs that model Binance as the code expects
  it and off where the question is what the two layers do alone.
- Two layers alone are enough only with *definite answers*: no request lands
  after its caller saw an error (`MaxOrphans = 0`, no ambiguous fault) and one
  caller. Otherwise the retry loop, which repeats `Withdraw` without repeating
  the history query, would pay twice; Binance's rejection is what stands
  between, and the code relies on it.
- Listen keys are refreshed in time (every 30 minutes, they live 60) when a
  keepAlive is there to do so, though each refresh may fail; a key whose last
  refresh succeeded does not expire. `CloseListenKey` may fail and leave its key
  to expire.
- The detector is over a stream whose open subscription delivers its events. A
  lapsed key breaks that without breaking the connection (Divergences).
- The four theorems of `WithdrawalServicePaidOnce` assume definite answers too
  (`DefiniteAnswers`) and, with `ValidTransitionsOnly`, that no two calls of
  `Forward` handle one transfer at once (`OneCallPerTransfer`), which the code does
  not enforce; see Proofs.
- In `DetectorKeepsUp`, and in the theorem `NothingForgotten`, no two transfers are
  of one asset and amount. `DetectorSkips` shows why that is needed.
- Transfer times are those of Binance's clock, as the watermark's are; the
  service's own clock, used for the lookback, agrees with it.
- The history shows an accepted withdrawal at once. A delay would be a window
  of the same kind.

### Fairness

`Fairness` asks for what Go's scheduler, the HTTP client's timeout and the
poller's ticker give: every goroutine inside a call goes on (`WorkerStep`), every
exchange ends (`Reply`, the client has a timeout, `client.go:50`), rounds
start, a boot goes through its stages, and Binance settles what it accepted.
Strong fairness on the poller's successful query and on its `Update` says that
neither fails every single time. Detection, shutdown and crash have no fairness:
`ForwardedSettles` and `PendingIsResolved` are stated for a service that stays
up (`StaysUp`), the other two for every behaviour.

`UserDataStream`: goroutines run and calls return (weak fairness of `Step`), and
Binance can be reached in the end: strong fairness of *some* goroutine's
`CreateListenKey` and of *some* goroutine's `Dial`, because each attempt may fail
but `reconnectLoop` never stops trying. A key that nobody refreshes expires (weak
fairness of `Expire` for some key), which makes room for another.
Nothing obliges a connection to break, `Stop` to begin, or an event to come.
`Detector`: goroutines run, and what the stream does by itself happens
(`Reconnecting`); that it reconnects is not assumed of the code but what
`BrokenConnectionRecovers` shows of it, for breaks that are not a normal close.
`EventuallyRecorded` says nothing after `Stop` or a normal close.

## Proofs

For every value of the constants allowed by the assumptions named in
`WithdrawalService`, any number of transfers and callers included:

- `TypeCorrect`: `Spec => []TypeOK`. `TypeOK` is not inductive: that a
  job at `put` holds a record that may be written, that a job past `layer1`
  names a transfer and that an attempt counter in `backoff` is below
  `MaxAttempts` is needed as well. `TypeInv` adds these (`Held`, `JobInv`,
  `PollInv`) and is proved action by action.
- `WriteAhead`: `Spec => []RecordedBeforeWithdrawal`. Invariant
  `WriteAheadInv`: a caller that has passed `ensure` or `create`, a request
  it has sent, and everything a request can become at Binance, all have a
  record; no step deletes one unless the database file may be lost.
- `Evidence`: `Spec => []ForwardedIsBacked`. Invariant `EvidenceInv`: the
  evidence travels with the copies. A job that will write FORWARDED, and the
  record in a job, a snapshot or the store that says so, name a withdrawal
  Binance holds; withdrawals are only appended and a completed one stays so.
- `TruthfulAudit`: `Spec => []AuditIsTruthful`, from the same evidence.

Those hold with any number of callers and every fault. The next ones need
hypotheses; runs show the first two to be necessary:

- `OneCallPerTransfer`: no two calls of `Forward` handle the same transfer at
  once. The code has no lock that says so, and `StaleWrites` shows what happens
  without it. One caller satisfies it trivially, which the code has until the stream
  reconnects; a lock per transfer would make it true of any number. The theorems are
  about `Spec /\ []OneCallPerTransfer`.
- `DefiniteAnswers`: an error of `Withdraw` means that Binance did not act, and
  no request outlives its caller. `DuplicateFails` shows a timeout without it.
  `Dedup` may be off: the two layers are on their own.
- `SourcesAnswer`: queries of the history and transactions of the store succeed.
  Otherwise a recovery goes on to the next record and leaves this one PENDING.

What they establish:

- `ValidTransitionsOnly`: `TransitionsAreValid`. Its invariant `FreshInv` says
  that no copy is stale when it is written: past `layer1` the stored status is
  still UNKNOWN or PENDING, past `ensure` it is PENDING and so is the copy in hand,
  the poller's snapshot still says what the store says until the poller writes
  (`CallFresh`, `PollFresh`), and a process that is down has neither calls nor a
  round (`DownIsEmpty`), which is what makes losing the file harmless to both.
- `PaidAtMostOnce` and `FailedIsNotPaid`: from `PaidInv`. The promise that there is
  at most one withdrawal is not inductive; what carries it is that a call which is
  still to ask for one, or has been refused one, or is about to write FAILED
  (`Unpaid`), handles a transfer that Binance holds nothing for. Layer 2 establishes
  that, definite answers keep it over retries, `OneCallPerTransfer` keeps others
  from breaking it, and a crash ends the call.
- `Refinement`: `Spec` implements `TransferLifecycle`. `FreshInv`, `EvidenceInv` and
  `PaidInv` together tell at each write of a status, at each acceptance and
  settlement and at the loss of the file which action of the lifecycle it is.
- `RecoveryIsComplete`: `NoWithdrawalForgotten`. `RecoveryInv` says where a paid
  PENDING record is at each stage: still to be listed, in `recoverQ`, or in the
  hands of a call that will not return before the record has moved on.

The store and the handlers over it:

- `StoreTypeCorrect` and `IndexesAreExact`: `IndexesExact` with `TypeOK` is
  inductive, because each transaction removes the key of the record it finds in
  the bucket.
- `StoreImplementsMap`: `Spec => ImplementsMap`, whatever the times, many in one
  second included. The lemmas are about the digits of a time and the bytes of a key:
  a key begins with the digits of its second, so keys of different seconds are
  ordered as the seconds are; keys of different records differ and are totally
  ordered by their bytes. Hence a set of keys has exactly one ascending
  enumeration, and the walk over it is one of the orders the map allows.
- `HandlersKeepStore`: each handler is a step of the store or a stutter, so the
  theorems on the store hold of it behind its HTTP server, which is what the run
  checks. `AnswersAreRight`: `AnswersMatchRecords`, where the counts the status
  handler folds over `CountByStatus` add up to the number of records. It rests
  on `StatusAssumption`: the filter's "no status given" is not itself a status.

Two of these arguments are inductions (an enumeration exists; a fold adds up) that
the library states with an operator parameter, beyond the provers. They are made by
least counterexample instead: `WFMin` on the natural numbers gives the smallest
size at which the claim fails, and the size below refutes it.

The stream and the detector:

- `StreamTypeCorrect`, `AtMostOneReader`, `KeyOutlivesReading`,
  `ConnectedMeansReader`: from one inductive invariant `Inv` of
  `UserDataStreamProofs`. `OneReader` is not inductive by itself: it needs to be
  known which key and connection the one active goroutine holds at each step
  (`KeyHeld`, which a lapsed key is let off, and `ConnHeld`), that no connection
  is open while one is being sought
  (`NoneOpen`), and what the handler was told by then (`ToldSo`).
- `StreamKeepsPromise`: `Spec => ImplementsEventStream`. The initial states
  map to the initial state, and under `Inv` every step of a goroutine, of
  `Close` and of the network maps to one action of `EventStream` or to a
  stutter; one lemma per action.
- `DetectorTypeCorrect`, and `NothingForgotten`:
  `DistinctKinds => (Spec => []ForgottenOnlyByFault)`. The property says where
  an unrecorded transfer must be; what makes it inductive is `NoneLost`: an unseen
  transfer is on the wire or a poll is ahead, and it is not older than the
  watermark *nor than anything that may still move the watermark before that
  poll* (transfers in the hands of a goroutine, events in the channel). That
  rests on `Times` (events arrive in the order the transfers were made in,
  nothing is known before it is made) and `Shape` (which goroutine can be where
  in which mode). `DistinctKinds` is used in one place, `HandleLosesNone`: an event
  leads to its own transfer only.

The strengthened invariants were model-checked on small instances before they
were proved. With these theorems every invariant, every action property and every
refinement of the runs that pass is proved, under the hypotheses named. What stays
with TLC is liveness: `PendingIsResolved`, `ForwardReturns`, `RecoveryEnds`,
`ForwardedSettles`, `BrokenConnectionRecovers`, `StopQuiesces` and
`EventuallyRecorded` depend on fairness, so on `ENABLED`, which is out of the
prover's reach. The refinements are of the abstract specifications' safety parts;
those state no fairness.

## Not modelled

- The destination table as a component. `run` fills it once with `SetDestination`
  (`main.go:122`; an invalid entry ends the run, which is a `Crash`) and only tests
  reload it, so it is constant between boots: `configured`, chosen afresh at each
  boot, stands for its lookups.
- The retry endpoint behind its first check: `main.go:195-198` gives the server no
  forwarder, so it answers 503. Routing, the server's start and shutdown,
  `/health`.
- The length of delays. `CalculateDelay` adds jitter after the cap, so a
  delay may exceed `MaxDelay` by up to the jitter fraction.
- Sockets the program no longer reads but has not closed (`websocket.go:152` overwrites
  `s.conn`).
- Pings and read deadlines: a break is noticed some time after it happened. The
  deadline is set only by a pong (`websocket.go:159`), so a connection that dies
  silently before its first one is noticed when the kernel gives up on the ping.
- A torn read of `s.listenKey` (`websocket.go:312` and `:142`, no lock) as such: a
  refresh of a key that never was is a failed refresh, which the model has.
- `IsConnected` saying no of a stream that is being read: the reset in an old
  `readLoop` may run after the next connect (`websocket.go:211`). The model has it;
  no property speaks of that direction, since nothing in the code acts on it.
- Values carried along: amounts, addresses, fees, transaction ids, times of the
  service's records, wording of errors and log lines. `Kind` stands for what the
  detector compares, an asset and an amount; its tolerance of 0.000001 is not
  modelled, nor are amounts that do not parse.
- Request signing, encoding and JSON; the counters and the histogram of the
  metrics.

## Divergences without a run

Seen while reading or modelling; each follows from the lines named.

- A refused connection is a `net.Error` that is no timeout, so `isNetworkError`
  returns before the lines that mean to catch it (`retry.go:187`, `:191`): not
  retried, FAILED. In the model it is a failure outside both classes.
- A withdrawal adopted from the history gets no `WITHDRAWAL_INITIATED` line
  (`forwarder.go:217`), where `README.md:263` says all forwarding actions are
  logged; a crash after `poller.go:186` loses the `WITHDRAWAL_COMPLETED` one.
- Within a second the by-time index is out of order: RFC3339Nano drops trailing
  zeros (`store.go:466`), where `store.go:278` and `:464` say it orders by time.
  `ImplementsMap` promises
  the order of the seconds; the exact one does not hold. For the same reason a
  query by range may miss a record in the first or the last second of its range.
- An insufficient balance (-4006) is in neither list of codes and so ends the
  transfer, where `retry.go:162` and `DESIGN.md:461` say it may pass and
  `DESIGN.md:454` lists it as permanent.
- A record left PENDING "for later retry" (`forwarder.go:313`) waits for a restart
  or for a poll of transfers that happens to return it; no cycle looks at PENDING
  records. `PendingIsResolved` holds in `ServiceRecovery` only because no
  transient error occurs there.
- The watermark is not persisted: after a restart, or a reconnection before the
  first transfer, the poll starts `lookbackDuration` ago (`detector.go:231`), and a
  transfer older than that is never detected; `DESIGN.md:108` starts it at
  `lastProcessedTime` and `DESIGN.md:111` promises that none is missed during
  restarts. In the model such a transfer is `excused`.
- After a failed query (`detector.go:162`, `:241`, `:290`), a full page, a dropped event
  (`detector.go:262`) or a failed handler (`detector.go:220`), the next transfer that is handled moves the
  watermark past the one that was missed, and no later poll asks for it.
  `DESIGN.md:111` promises that none is missed. In the model such a transfer
  is `excused`.
- A failed refresh of the listen key is only reported (`websocket.go:312-314`). When
  the next one fails too the key expires; the connection stays open without
  events, and nothing creates another key or reconnects.
- `GET /transfers` is "recent transfers" in `README.md:125` but lists the oldest
  first and cuts the rest.
- The retry endpoint could not move a FAILED record if it were wired
  (`handlers.go:288`): Layer 1 of `Forward` skips it.
- `detector.WithStreamURL` has no effect: options are applied before the stream
  exists and `New` then makes one without it (`detector.go:65`, `:87`).

## Plan

What is left, most important first:

1. Weaker hypotheses for the money theorems: with `Dedup` on, what of
   `FailedIsNotPaid` and `Refinement` survives ambiguous answers and overlapping
   calls; an invariant for `RecoveryIsComplete` when sources fail now and then.
2. `RetryLoop`: `Do` and `DoWithResult` with delays as a machine of their own that
   each caller in `WithdrawalService` implements; `CalculateDelay` against a
   reference definition.
3. The retry endpoint as a third caller of `Forward`, when the program wires it.
