------------------------------- MODULE Detector -------------------------------
(***************************************************************************)
(* internal/detector/detector.go on top of what the user data stream       *)
(* promises (EventStream, which UserDataStream implements).                *)
(*                                                                         *)
(* Two goroutines query Binance and call the handler: the one of Start,    *)
(* which polls once and becomes processLoop, and the stream's, inside      *)
(* OnReconnected.  They share lastProcessedTime.  The handler is           *)
(* Forwarder.Forward; what matters here is whether the transfer is on      *)
(* record when it returns.  Time is a count; transfers are numbered in the *)
(* order they are made in.                                                 *)
(***************************************************************************)
EXTENDS Naturals, Sequences, FiniteSets, SequencesExt, FiniteSetsExt, EventStream

CONSTANTS
  Transfers,      \* transfers to the master account: 1, 2, ...
  Kind,           \* transfer -> its asset and amount
  Window,         \* how far from an event handleBalanceUpdate looks
  Lookback,       \* lookbackDuration
  ChannelSize,    \* capacity of balanceUpdateCh
  PollLimit,      \* the limit of a poll's history query
  EventLimit,     \* the limit of the query an event leads to
  QueryFaults,    \* may a history query fail?
  HandlerFaults,  \* may Forward return before the transfer is on record?
  MaxTime,        \* bound: the clock
  MaxCrashes      \* bound: how often the process dies

ASSUME TransfersAssumption == Transfers = 1..Cardinality(Transfers)
ASSUME EventsAssumption == Transfers \subseteq Events
ASSUME SizesAssumption ==
  /\ Window \in Nat /\ Lookback \in Nat /\ MaxCrashes \in Nat
  /\ MaxTime \in Nat \ {0} /\ ChannelSize \in Nat \ {0}
  /\ PollLimit \in Nat \ {0} /\ EventLimit \in Nat \ {0}
ASSUME FaultsAssumption == QueryFaults \in BOOLEAN /\ HandlerFaults \in BOOLEAN

VARIABLES
  now,                \* the clock
  created,            \* Binance: when a transfer was made, 0 before
  recorded,           \* transfers the forwarder has on record
  lastProcessedTime,  \* 0 for the zero time
  balanceUpdateCh,
  work,               \* goroutine -> what it does and has still to hand over
  crashes,            \* how often the process has died
  excused             \* history: transfers a fault has kept from the handler

detectorVars == <<lastProcessedTime, balanceUpdateCh, work>>
worldVars == <<now, created, crashes>>
vars == <<streamVars, detectorVars, worldVars, recorded, excused>>

-----------------------------------------------------------------------------

Goroutines == {"main", "reconnect"}

Jobs == [pc : {"starting", "poll", "handle", "calling", "idle"},
         found : SUBSET Transfers, tran : Transfers \cup {0}]

At(step) == [pc |-> step, found |-> {}, tran |-> 0]

Goto(g, step) == work' = [work EXCEPT ![g] = At(step)]

Made == {t \in Transfers : created[t] # 0}

(* A history query returns a page of what it could: which transfers it     *)
(* leaves out is Binance's choice, and nobody asks for the next page.      *)
Pages(S, limit) ==
  {page \in SUBSET S : Cardinality(page) = Min({limit, Cardinality(S)})}

HandOver(g, found) ==
  work' = [work EXCEPT ![g] = [pc |-> IF found = {} THEN "idle" ELSE "handle",
                               found |-> found, tran |-> 0]]

(* GetSubAccountTransferHistory asks for a page of some transfers; the     *)
(* caller hands over those of the page that it wants.                      *)
Query(g, asked, limit, wanted) ==
  \/ \E page \in Pages(asked, limit) :
       /\ HandOver(g, page \cap wanted)
       /\ excused' = excused \cup (wanted \ page)
  \/ /\ QueryFaults
     /\ HandOver(g, {})
     /\ excused' = excused \cup wanted

-----------------------------------------------------------------------------
(* The stream's callbacks *)

(* OnConnected only sets a gauge, OnReconnected polls before it returns. *)
OnConnected ==
  /\ mode = "new"
  /\ Inform
  /\ UNCHANGED <<detectorVars, worldVars, recorded, excused>>

(* Seeded faults, here and below: the form a regression could give to the  *)
(* definition that follows.  They are no part of the specification.        *)
ReconnectedWithoutPoll ==
  /\ mode = "lost"
  /\ Inform
  /\ UNCHANGED <<detectorVars, worldVars, recorded, excused>>

OnReconnected ==
  /\ mode = "lost"
  /\ Inform
  /\ Goto("reconnect", "poll")
  /\ UNCHANGED <<lastProcessedTime, balanceUpdateCh, worldVars, recorded, excused>>

(* The callback returns and the stream is read; the first time Connect     *)
(* returns too and Start goes on to its poll.                              *)
Resume ==
  /\ Listen
  /\ work["reconnect"].pc = "idle"
  /\ IF work["main"].pc = "starting" THEN Goto("main", "poll") ELSE UNCHANGED work
  /\ UNCHANGED <<lastProcessedTime, balanceUpdateCh, worldVars, recorded, excused>>

EnqueueAnyway ==
  /\ Deliver
  /\ balanceUpdateCh' = Append(balanceUpdateCh, Head(wire))
  /\ UNCHANGED <<lastProcessedTime, work, worldVars, recorded, excused>>

(* An event that does not fit is dropped. *)
OnBalanceUpdate ==
  /\ Deliver
  /\ IF Len(balanceUpdateCh) < ChannelSize
     THEN /\ balanceUpdateCh' = Append(balanceUpdateCh, Head(wire))
          /\ UNCHANGED excused
     ELSE /\ excused' = excused \cup ({Head(wire)} \cap Transfers)
          /\ UNCHANGED balanceUpdateCh
  /\ UNCHANGED <<lastProcessedTime, work, worldVars, recorded>>

-----------------------------------------------------------------------------
(* Polling and handling *)

PollStart ==
  IF lastProcessedTime # 0 THEN lastProcessedTime
  ELSE IF now > Lookback THEN now - Lookback ELSE 0

PollAfterWatermark(g) ==
  /\ work[g].pc = "poll"
  /\ LET asked == {t \in Made : created[t] > PollStart}
     IN  Query(g, asked, PollLimit, IF lastProcessedTime = 0 THEN Made ELSE asked)
  /\ UNCHANGED <<streamVars, lastProcessedTime, balanceUpdateCh, worldVars, recorded>>

(* pollRecentTransfers.  What was made before a zero watermark's window is *)
(* out of its reach.                                                       *)
Poll(g) ==
  /\ work[g].pc = "poll"
  /\ LET asked == {t \in Made : created[t] >= PollStart}
     IN  Query(g, asked, PollLimit, IF lastProcessedTime = 0 THEN Made ELSE asked)
  /\ UNCHANGED <<streamVars, lastProcessedTime, balanceUpdateCh, worldVars, recorded>>

Near(t, e) == created[t] <= created[e] + Window /\ created[e] <= created[t] + Window

(* processLoop takes an event; handleBalanceUpdate ignores a debit, asks   *)
(* for the transfers made around then, and hands over those of the page    *)
(* that are of its asset and amount.                                       *)
HandleBalanceUpdate ==
  /\ work["main"].pc = "idle"
  /\ mode # "closed"
  /\ balanceUpdateCh # <<>>
  /\ balanceUpdateCh' = Tail(balanceUpdateCh)
  /\ LET e == Head(balanceUpdateCh)
     IN  IF e \in Transfers
         THEN LET near == {t \in Made : Near(t, e)}
              IN  Query("main", near, EventLimit, {t \in near : Kind[t] = Kind[e]})
         ELSE UNCHANGED <<work, excused>>
  /\ UNCHANGED <<streamVars, lastProcessedTime, worldVars, recorded>>

(* processTransfer: the watermark first, then the handler. *)
ProcessTransfer(g) ==
  /\ work[g].pc = "handle"
  /\ \E t \in work[g].found :
       /\ lastProcessedTime' = Max({lastProcessedTime, created[t]})
       /\ work' = [work EXCEPT ![g].pc = "calling", ![g].tran = t, ![g].found = @ \ {t}]
       /\ excused' = excused \ {t}
  /\ UNCHANGED <<streamVars, balanceUpdateCh, worldVars, recorded>>

(* Forward returns, with the transfer on record or, when its history query *)
(* or the store failed, without.                                           *)
HandlerReturns(g) ==
  LET t == work[g].tran IN
  /\ work[g].pc = "calling"
  /\ HandOver(g, work[g].found)
  /\ \/ recorded' = recorded \cup {t} /\ UNCHANGED excused
     \/ HandlerFaults /\ excused' = excused \cup {t} /\ UNCHANGED recorded
  /\ UNCHANGED <<streamVars, lastProcessedTime, balanceUpdateCh, worldVars>>

-----------------------------------------------------------------------------
(* The process *)

(* Stop cancels the context, waits for processLoop and closes the stream;  *)
(* nothing waits for a poll after a reconnection.                          *)
Stop ==
  /\ work["main"].pc = "idle"
  /\ Close
  /\ UNCHANGED <<detectorVars, worldVars, recorded, excused>>

Starting == [g \in Goroutines |-> At(IF g = "main" THEN "starting" ELSE "idle")]

(* The process dies or has stopped, and a new one begins with nothing.     *)
Restart ==
  /\ crashes < MaxCrashes
  /\ crashes' = crashes + 1
  /\ mode' = "new" /\ link' = "none" /\ wire' = <<>>
  /\ lastProcessedTime' = 0
  /\ balanceUpdateCh' = <<>>
  /\ work' = Starting
  /\ UNCHANGED <<now, created, recorded, excused>>

(* What the stream does without telling the detector, or with a callback   *)
(* that only sets a gauge: Report is OnDisconnected.                       *)
Reconnecting ==
  /\ Subscribe \/ Report \/ End
  /\ UNCHANGED <<detectorVars, worldVars, recorded, excused>>

Disconnect == Break /\ UNCHANGED <<detectorVars, worldVars, recorded, excused>>

-----------------------------------------------------------------------------
(* The account *)

Tick ==
  /\ now < MaxTime
  /\ now' = now + 1
  /\ UNCHANGED <<streamVars, detectorVars, created, crashes, recorded, excused>>

(* Binance makes a transfer and reports it to an open subscription. *)
Make(t) ==
  /\ t \notin Made
  /\ \A u \in Transfers : u < t => u \in Made
  /\ created' = [created EXCEPT ![t] = now]
  /\ IF link = "open" THEN Emit(t) ELSE UNCHANGED streamVars
  /\ UNCHANGED <<detectorVars, now, crashes, recorded, excused>>

(* A debit or a deposit. *)
OtherUpdate(e) ==
  /\ e \notin Transfers
  /\ Emit(e)
  /\ UNCHANGED <<detectorVars, worldVars, recorded, excused>>

Init ==
  /\ StreamInit
  /\ now = 1
  /\ created = [t \in Transfers |-> 0]
  /\ recorded = {}
  /\ lastProcessedTime = 0
  /\ balanceUpdateCh = <<>>
  /\ work = Starting
  /\ crashes = 0
  /\ excused = {}

Work(g) == Poll(g) \/ ProcessTransfer(g) \/ HandlerReturns(g)

Next ==
  \/ OnConnected \/ OnReconnected \/ Resume \/ OnBalanceUpdate
  \/ \E g \in Goroutines : Work(g)
  \/ HandleBalanceUpdate
  \/ Stop \/ Restart \/ Reconnecting \/ Disconnect \/ Tick
  \/ \E t \in Transfers : Make(t)
  \/ \E e \in Events : OtherUpdate(e)

Spec == Init /\ [][Next]_vars

(* Goroutines run and calls return; a broken connection is reported and    *)
(* made again, as BrokenConnectionRecovers says of the stream.             *)
Fairness ==
  /\ \A g \in Goroutines : WF_vars(Work(g))
  /\ WF_vars(HandleBalanceUpdate) /\ WF_vars(OnBalanceUpdate)
  /\ WF_vars(OnConnected) /\ WF_vars(OnReconnected) /\ WF_vars(Resume)
  /\ WF_vars(Reconnecting)

FairSpec == Spec /\ Fairness

-----------------------------------------------------------------------------

(* The channel never holds more than its capacity, and no goroutine works  *)
(* on anything but transfers.                                              *)
TypeOK ==
  /\ StreamTypeOK
  /\ now \in 1..MaxTime
  /\ created \in [Transfers -> 0..MaxTime]
  /\ recorded \subseteq Transfers /\ excused \subseteq Transfers
  /\ lastProcessedTime \in 0..MaxTime
  /\ balanceUpdateCh \in Seq(Events) /\ Len(balanceUpdateCh) <= ChannelSize
  /\ work \in [Goroutines -> Jobs]
  /\ crashes \in 0..MaxCrashes

(* On its way to the handler. *)
InFlight(t) ==
  \/ t \in ToSet(wire) \cup ToSet(balanceUpdateCh)
  \/ \E g \in Goroutines : t \in work[g].found \/ t = work[g].tran

(* A poll will come: at the next start, or after the next reconnection. *)
PollAhead ==
  \/ mode \in {"new", "lost", "ended", "closed"}
  \/ link = "broken"
  \/ \E g \in Goroutines : work[g].pc \in {"starting", "poll"}

Ahead(t) ==
  \/ lastProcessedTime = 0
  \/ mode \in {"ended", "closed"}
  \/ created[t] >= lastProcessedTime

(* Broken connections, restarts at any step and two goroutines that move   *)
(* one watermark do not lose a transfer by themselves: unless a query or   *)
(* the handler failed it, a page or the channel was full, or it was older  *)
(* than the lookback when the process started, it is on record, on its way *)
(* to the handler, or within reach of a poll that is still to come.        *)
ForgottenOnlyByFault ==
  \A t \in Made \ (recorded \cup excused) : InFlight(t) \/ (PollAhead /\ Ahead(t))

(* "This ensures no transfers are missed during restarts or connection     *)
(* drops" (DESIGN.md, Fallback Polling): a transfer that is neither on     *)
(* record nor on its way is not older than the watermark, so that the next *)
(* poll finds it.                                                          *)
WatermarkSkipsNothing ==
  \A t \in Made \ recorded : InFlight(t) \/ Ahead(t)

(* A transfer no fault kept from the handler gets on record, unless Stop   *)
(* or a normal close of the connection ends the detection.                 *)
EventuallyRecorded ==
  \A t \in Transfers :
    t \in Made ~> t \in recorded \cup excused \/ mode \in {"ended", "closed"}

=============================================================================
