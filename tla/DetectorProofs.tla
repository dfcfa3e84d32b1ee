--------------------------- MODULE DetectorProofs ---------------------------
(***************************************************************************)
(* Detector forgets no transfer by itself, for all numbers of transfers,   *)
(* sizes and clocks, as long as no two transfers are of one asset and      *)
(* amount.  DetectorSkips shows that this last condition is needed.        *)
(***************************************************************************)
EXTENDS Detector, SequenceTheorems, TLAPS

LEMMA TransfersAreNumbers == Transfers \subseteq Nat /\ 0 \notin Transfers
<1>1. ASSUME NEW n, Transfers = 1..n PROVE Transfers \subseteq Nat /\ 0 \notin Transfers
  BY <1>1
<1> QED BY <1>1, TransfersAssumption

LEMMA MaxOfTwo ==
  ASSUME NEW a \in Nat, NEW b \in Nat
  PROVE  Max({a, b}) = IF a >= b THEN a ELSE b
BY DEF Max

LEMMA AppendAdds ==
  ASSUME NEW S, NEW s \in Seq(S), NEW e \in S
  PROVE  ToSet(Append(s, e)) = ToSet(s) \cup {e}
BY AppendProperties DEF ToSet

LEMMA TailRemoves ==
  ASSUME NEW S, NEW s \in Seq(S), s # <<>>
  PROVE  ToSet(s) = ToSet(Tail(s)) \cup {Head(s)}
<1>1. Len(s) \in Nat \ {0} /\ DOMAIN s = 1..Len(s)
  OBVIOUS
<1>2. /\ Tail(s) \in Seq(S) /\ Len(Tail(s)) = Len(s) - 1 /\ DOMAIN Tail(s) = 1..(Len(s) - 1)
      /\ \A i \in 1..(Len(s) - 1) : Tail(s)[i] = s[i + 1]
  BY HeadTailProperties
<1>3. Head(s) = s[1] /\ 1 \in DOMAIN s
  BY <1>1
<1>4. ASSUME NEW i \in DOMAIN s PROVE s[i] \in ToSet(Tail(s)) \cup {Head(s)}
  <2>1. CASE i = 1
    BY <2>1, <1>3
  <2>2. CASE i # 1
    <3>1. i - 1 \in DOMAIN Tail(s) /\ Tail(s)[i - 1] = s[i]
      BY <1>1, <1>2, <2>2
    <3> QED BY <3>1 DEF ToSet
  <2> QED BY <2>1, <2>2
<1>5. ASSUME NEW i \in DOMAIN Tail(s) PROVE Tail(s)[i] \in ToSet(s)
  <2>1. i + 1 \in DOMAIN s /\ s[i + 1] = Tail(s)[i]
    BY <1>1, <1>2
  <2> QED BY <2>1 DEF ToSet
<1> QED BY <1>3, <1>4, <1>5 DEF ToSet

LEMMA NothingInEmpty == ToSet(<<>>) = {}
BY DEF ToSet

-----------------------------------------------------------------------------
(* The inductive invariant *)

(* How the stream's mode, its link and the two goroutines go together. *)
Shape ==
  /\ mode \in {"new", "reading", "lost"} => work["reconnect"].pc = "idle"
  /\ mode = "new" => work["main"].pc = "starting"
  /\ link = "none" => mode \in {"new", "closed"}
  /\ link # "open" => wire = <<>>
  /\ \A g \in Goroutines :
       /\ work[g].pc \in {"starting", "poll", "idle"} => work[g].found = {}
       /\ work[g].tran \in IF work[g].pc = "calling" THEN Transfers ELSE {0}

(* Nothing is known of a transfer before it is made, and events arrive in  *)
(* the order the transfers were made in.                                   *)
Times ==
  /\ lastProcessedTime <= now
  /\ \A t \in Transfers : created[t] <= now
  /\ \A g \in Goroutines : work[g].found \cup ({work[g].tran} \cap Transfers) \subseteq Made
  /\ ToSet(balanceUpdateCh) \cap Transfers \subseteq Made
  /\ ToSet(wire) \cap Transfers \subseteq Made
  /\ \A i, j \in 1..Len(wire) :
       i < j /\ wire[i] \in Transfers /\ wire[j] \in Transfers
         => created[wire[i]] <= created[wire[j]]

(* A transfer the detector has not got hold of. *)
Unseen(t) ==
  /\ t \in Made
  /\ t \notin recorded \cup excused \cup ToSet(balanceUpdateCh)
  /\ \A g \in Goroutines : t \notin work[g].found \cup {work[g].tran}

(* It is on the wire or a poll will come, and it is not older than the     *)
(* watermark, nor than anything that may still move the watermark before   *)
(* that poll.                                                              *)
Reachable(t) ==
  /\ \/ t \in ToSet(wire) \/ mode \in {"new", "lost"} \/ link = "broken"
     \/ \E g \in Goroutines : work[g].pc \in {"starting", "poll"}
  /\ lastProcessedTime = 0 \/ lastProcessedTime <= created[t]
  /\ \A g \in Goroutines : \A u \in work[g].found \cup ({work[g].tran} \cap Transfers) :
       created[u] <= created[t]
  /\ work["main"].pc \notin {"starting", "poll"} =>
       \A u \in ToSet(balanceUpdateCh) \cap Transfers : created[u] <= created[t]

NoneLost ==
  mode \notin {"ended", "closed"} => \A t \in Transfers : Unseen(t) => Reachable(t)

Inv == TypeOK /\ Shape /\ Times /\ NoneLost

-----------------------------------------------------------------------------
(* Types *)

(* A query gives its goroutine some of what it asked for, and leaves the   *)
(* rest excused.                                                           *)
Gives(g, asked, unasked) ==
  \E found \in SUBSET asked :
    /\ HandOver(g, found)
    /\ work' \in [Goroutines -> Jobs]
    /\ excused' = excused \cup unasked \cup (asked \ found)

LEMMA QueryGives ==
  ASSUME NEW g \in Goroutines, NEW asked \in SUBSET Transfers, NEW limit,
         NEW wanted \in SUBSET Transfers, work \in [Goroutines -> Jobs],
         Query(g, asked, limit, wanted)
  PROVE  Gives(g, asked \cap wanted, wanted \ asked)
<1> DEFINE both == asked \cap wanted
           left == wanted \ asked
<1>1. ASSUME NEW page \in SUBSET asked, HandOver(g, page \cap wanted),
             excused' = excused \cup (wanted \ page)
      PROVE  Gives(g, both, left)
  <2> DEFINE found == page \cap wanted
  <2>1. work' \in [Goroutines -> Jobs]
    BY <1>1 DEF HandOver, Jobs
  <2>2. excused' = excused \cup left \cup (both \ found)
    BY <1>1
  <2>3. found \in SUBSET both /\ HandOver(g, found)
    BY <1>1
  <2> HIDE DEF found, both, left
  <2> QED BY <2>1, <2>2, <2>3 DEF Gives
<1>2. CASE \E page \in Pages(asked, limit) :
             /\ HandOver(g, page \cap wanted)
             /\ excused' = excused \cup (wanted \ page)
  BY <1>1, <1>2 DEF Pages
<1>3. CASE HandOver(g, {}) /\ excused' = excused \cup wanted
  <2>1. {} \cap wanted = {} /\ wanted \ {} = wanted /\ {} \in SUBSET asked
    OBVIOUS
  <2> QED BY <1>1, <1>3, <2>1
<1> QED BY <1>2, <1>3 DEF Query

(* A step moves the stream as EventStream says, or begins anew. *)
LEMMA StreamMoves ==
  ASSUME [Next]_vars
  PROVE  StreamNext \/ UNCHANGED streamVars \/ (mode' = "new" /\ link' = "none" /\ wire' = <<>>)
<1>1. CASE OnConnected \/ OnReconnected \/ Resume \/ OnBalanceUpdate \/ Stop \/ Reconnecting \/ Disconnect
  BY <1>1 DEF OnConnected, OnReconnected, Resume, OnBalanceUpdate, Stop, Reconnecting, Disconnect,
     StreamNext
<1>2. CASE (\E g \in Goroutines : Work(g)) \/ HandleBalanceUpdate \/ Tick \/ Restart
  BY <1>2 DEF Work, Poll, ProcessTransfer, HandlerReturns, HandleBalanceUpdate, Tick, Restart
<1>3. CASE \E t \in Transfers : Make(t)
  BY <1>3, EventsAssumption DEF Make, StreamNext
<1>4. CASE \E e \in Events : OtherUpdate(e)
  BY <1>4 DEF OtherUpdate, StreamNext
<1>5. CASE UNCHANGED vars
  BY <1>5 DEF vars
<1> QED BY <1>1, <1>2, <1>3, <1>4, <1>5 DEF Next

LEMMA StreamTyped ==
  ASSUME StreamTypeOK, [Next]_vars
  PROVE  StreamTypeOK'
<1>1. CASE UNCHANGED streamVars
  BY <1>1 DEF streamVars, StreamTypeOK
<1>2. CASE mode' = "new" /\ link' = "none" /\ wire' = <<>>
  BY <1>2 DEF StreamTypeOK, Modes
<1>3. CASE StreamNext
  <2>1. mode' \in Modes /\ link' \in {"none", "open", "broken"}
    BY <1>3 DEF StreamNext, Subscribe, Inform, Listen, Emit, Deliver, Break, Report, End, Close,
       StreamTypeOK, Modes
  <2>2. wire \in Seq(Events) /\ <<>> \in Seq(Events)
    BY DEF StreamTypeOK
  <2>3. ASSUME NEW e \in Events, Emit(e) PROVE wire' \in Seq(Events)
    BY <2>2, <2>3, AppendProperties DEF Emit
  <2>4. ASSUME Deliver PROVE wire' \in Seq(Events)
    BY <2>2, <2>4, HeadTailProperties DEF Deliver
  <2>5. wire' \in {wire, <<>>} \/ Deliver \/ \E e \in Events : Emit(e)
    BY <1>3 DEF StreamNext, Subscribe, Inform, Listen, Break, Report, End, Close
  <2>6. wire' \in Seq(Events)
    BY <2>2, <2>3, <2>4, <2>5
  <2> QED BY <2>1, <2>6 DEF StreamTypeOK
<1> QED BY <1>1, <1>2, <1>3, StreamMoves

PollAsked == {t \in Made : created[t] >= PollStart}

PollUnasked == IF lastProcessedTime = 0 THEN Made \ PollAsked ELSE {}

(* A poll's query asks for transfers that were made. *)
LEMMA PollGives ==
  ASSUME TypeOK, NEW g \in Goroutines, Poll(g)
  PROVE  Gives(g, PollAsked, PollUnasked)
<1> DEFINE wanted == IF lastProcessedTime = 0 THEN Made ELSE PollAsked
<1>1. /\ PollAsked \in SUBSET Transfers /\ wanted \in SUBSET Transfers
      /\ PollAsked \cap wanted = PollAsked /\ wanted \ PollAsked = PollUnasked
  BY DEF PollAsked, PollUnasked, Made
<1>2. Query(g, PollAsked, PollLimit, wanted)
  BY DEF Poll, PollAsked
<1> HIDE DEF wanted
<1>3. work \in [Goroutines -> Jobs]
  BY DEF TypeOK
<1>4. Gives(g, PollAsked \cap wanted, wanted \ PollAsked)
  BY <1>1, <1>2, <1>3, QueryGives
<1> QED BY <1>1, <1>4

(* What an event leads to: the transfers of its kind made around then. *)
Like(e) == {t \in Made : Near(t, e) /\ Kind[t] = Kind[e]}

LEMMA EventGives ==
  ASSUME TypeOK, HandleBalanceUpdate
  PROVE  IF Head(balanceUpdateCh) \in Transfers
         THEN Gives("main", Like(Head(balanceUpdateCh)), {})
         ELSE UNCHANGED <<work, excused>>
<1> DEFINE e == Head(balanceUpdateCh)
           near == {t \in Made : Near(t, e)}
           like == {t \in near : Kind[t] = Kind[e]}
<1>0. CASE e \notin Transfers
  BY <1>0 DEF HandleBalanceUpdate
<1> SUFFICES ASSUME e \in Transfers PROVE Gives("main", Like(e), {})
  BY <1>0
<1>1. Query("main", near, EventLimit, like)
  BY DEF HandleBalanceUpdate
<1>2. /\ near \in SUBSET Transfers /\ like \in SUBSET Transfers
      /\ near \cap like = like /\ like \ near = {} /\ like = Like(e)
  BY DEF Made, Like
<1> HIDE DEF near, like, e
<1>3. "main" \in Goroutines /\ work \in [Goroutines -> Jobs]
  BY DEF Goroutines, TypeOK
<1>4. Gives("main", near \cap like, like \ near)
  BY <1>1, <1>2, <1>3, QueryGives
<1> QED BY <1>2, <1>4

LEMMA TypeStep ==
  ASSUME TypeOK, Shape, [Next]_vars
  PROVE  TypeOK'
<1> USE TransfersAreNumbers DEF TypeOK
<1>1. StreamTypeOK'
  BY StreamTyped
<1>2. CASE OnConnected \/ Stop \/ Reconnecting \/ Disconnect \/ (\E e \in Events : OtherUpdate(e))
           \/ UNCHANGED vars
  <2>1. UNCHANGED <<now, created, recorded, lastProcessedTime, balanceUpdateCh, work, crashes, excused>>
    BY <1>2 DEF OnConnected, Stop, Reconnecting, Disconnect, OtherUpdate, vars, detectorVars, worldVars
  <2> QED BY <1>1, <2>1
<1>3. CASE OnReconnected \/ Resume
  <2>1. UNCHANGED <<now, created, recorded, lastProcessedTime, balanceUpdateCh, crashes, excused>>
    BY <1>3 DEF OnReconnected, Resume, worldVars, detectorVars
  <2>2. work' \in [Goroutines -> Jobs]
    <3>1. At("poll") \in Jobs
      BY DEF At, Jobs
    <3> QED BY <1>3, <3>1 DEF OnReconnected, Resume, Goto
  <2> QED BY <1>1, <2>1, <2>2
<1>4. CASE OnBalanceUpdate
  <2>1. wire \in Seq(Events) /\ wire # <<>> /\ Head(wire) \in Events
    BY <1>4, HeadTailProperties DEF OnBalanceUpdate, Deliver, StreamTypeOK
  <2>2. balanceUpdateCh' \in Seq(Events) /\ Len(balanceUpdateCh') <= ChannelSize
    <3>1. CASE Len(balanceUpdateCh) < ChannelSize /\ balanceUpdateCh' = Append(balanceUpdateCh, Head(wire))
      <4>1. /\ balanceUpdateCh' \in Seq(Events)
            /\ Len(balanceUpdateCh') = Len(balanceUpdateCh) + 1
        BY <2>1, <3>1, AppendProperties
      <4> QED BY <3>1, <4>1, SizesAssumption
    <3> QED BY <1>4, <3>1 DEF OnBalanceUpdate
  <2>3. excused' \subseteq Transfers
    BY <1>4 DEF OnBalanceUpdate
  <2> QED BY <1>1, <1>4, <2>2, <2>3 DEF OnBalanceUpdate, worldVars
<1>5. ASSUME NEW g \in Goroutines, Poll(g) PROVE TypeOK'
  <2>1. work' \in [Goroutines -> Jobs] /\ excused' \subseteq Transfers
    BY <1>5, PollGives DEF Gives, PollAsked, PollUnasked, Made
  <2> QED BY <1>1, <1>5, <2>1 DEF Poll, worldVars
<1>6. ASSUME NEW g \in Goroutines, ProcessTransfer(g) PROVE TypeOK'
  <2>1. PICK t \in work[g].found :
          /\ lastProcessedTime' = Max({lastProcessedTime, created[t]})
          /\ work' = [work EXCEPT ![g].pc = "calling", ![g].tran = t, ![g].found = @ \ {t}]
          /\ excused' = excused \ {t}
    BY <1>6 DEF ProcessTransfer
  <2>2. t \in Transfers
    BY DEF Jobs
  <2>3. lastProcessedTime' \in 0..MaxTime
    <3>1. created[t] \in 0..MaxTime /\ MaxTime \in Nat
      BY <2>2, SizesAssumption
    <3>2. lastProcessedTime' \in {lastProcessedTime, created[t]}
      <4>1. lastProcessedTime \in Nat /\ created[t] \in Nat
        BY <3>1
      <4> HIDE DEF TypeOK
      <4> QED BY <2>1, <4>1, MaxOfTwo
    <3> QED BY <3>1, <3>2
  <2>4. work' \in [Goroutines -> Jobs]
    BY <2>1, <2>2 DEF Jobs
  <2> QED BY <1>1, <1>6, <2>1, <2>3, <2>4 DEF ProcessTransfer, worldVars
<1>7. ASSUME NEW g \in Goroutines, HandlerReturns(g) PROVE TypeOK'
  <2>1. work[g].tran \in Transfers
    BY <1>7 DEF Shape, HandlerReturns
  <2>2. work' \in [Goroutines -> Jobs]
    BY <1>7 DEF HandlerReturns, HandOver, Jobs
  <2>3. recorded' \subseteq Transfers /\ excused' \subseteq Transfers
    BY <1>7, <2>1 DEF HandlerReturns
  <2> QED BY <1>1, <1>7, <2>2, <2>3 DEF HandlerReturns, worldVars
<1>8. CASE HandleBalanceUpdate
  <2>1. balanceUpdateCh' \in Seq(Events) /\ Len(balanceUpdateCh') <= ChannelSize
    BY <1>8, HeadTailProperties, SizesAssumption DEF HandleBalanceUpdate
  <2>2. work' \in [Goroutines -> Jobs] /\ excused' \subseteq Transfers
    <3>1. CASE Gives("main", Like(Head(balanceUpdateCh)), {})
      BY <3>1 DEF Gives, Like, Made
    <3> QED BY <1>8, <3>1, EventGives
  <2> QED BY <1>1, <1>8, <2>1, <2>2 DEF HandleBalanceUpdate, worldVars
<1>9. CASE Restart
  <2>1. work' \in [Goroutines -> Jobs]
    BY <1>9 DEF Restart, Starting, At, Jobs
  <2>2. crashes' \in 0..MaxCrashes
    BY <1>9, SizesAssumption DEF Restart
  <2>3. balanceUpdateCh' \in Seq(Events) /\ Len(balanceUpdateCh') <= ChannelSize
    BY <1>9, SizesAssumption DEF Restart
  <2>4. lastProcessedTime' \in 0..MaxTime
    BY <1>9, SizesAssumption DEF Restart
  <2> QED BY <1>1, <1>9, <2>1, <2>2, <2>3, <2>4 DEF Restart
<1>10. CASE Tick
  <2>1. now' \in 1..MaxTime
    BY <1>10, SizesAssumption DEF Tick
  <2> QED BY <1>1, <1>10, <2>1 DEF Tick, detectorVars
<1>11. ASSUME NEW t \in Transfers, Make(t) PROVE TypeOK'
  <2>1. created' \in [Transfers -> 0..MaxTime]
    BY <1>11, SizesAssumption DEF Make
  <2> QED BY <1>1, <1>11, <2>1 DEF Make, detectorVars
<1> QED BY <1>2, <1>3, <1>4, <1>5, <1>6, <1>7, <1>8, <1>9, <1>10, <1>11 DEF Next, Work

-----------------------------------------------------------------------------
(* Shape *)

(* Only a goroutine that may work is given anything by a query. *)
LEMMA GivesShape ==
  ASSUME TypeOK, NEW g \in Goroutines, NEW asked, NEW unasked, Gives(g, asked, unasked)
  PROVE  /\ \A h \in Goroutines : h # g => work'[h] = work[h]
         /\ work'[g].pc \in {"idle", "handle"} /\ work'[g].tran = 0
         /\ work'[g].pc = "idle" => work'[g].found = {}
BY DEF Gives, HandOver, TypeOK, Jobs

LEMMA ShapeStep ==
  ASSUME TypeOK, Shape, [Next]_vars
  PROVE  Shape'
<1> DEFINE Resting(g) ==
      /\ work[g].pc \in {"starting", "poll", "idle"} => work[g].found = {}
      /\ work[g].tran \in IF work[g].pc = "calling" THEN Transfers ELSE {0}
<1>0. \A g \in Goroutines : Resting(g)
  BY DEF Shape
<1>1. work \in [Goroutines -> Jobs]
  BY DEF TypeOK
<1>2. /\ link' = "none" => mode' \in {"new", "closed"}
      /\ link' # "open" => wire' = <<>>
  BY StreamMoves DEF Shape, StreamNext, streamVars, Subscribe, Inform, Listen, Emit, Deliver,
     Break, Report, End, Close, Unsubscribed
<1>3. CASE UNCHANGED work /\ ~ Restart
  <2>1. mode' \in {"new", "reading", "lost"} =>
          \/ mode' = mode
          \/ mode' = "lost" /\ mode = "reading"
          \/ mode' = "reading" /\ work["reconnect"].pc = "idle"
    BY <1>3 DEF Next, vars, streamVars, OnConnected, OnReconnected, Resume, OnBalanceUpdate, Work, Poll,
       ProcessTransfer, HandlerReturns, HandleBalanceUpdate, Stop, Restart, Reconnecting,
       Disconnect, Tick, Make, OtherUpdate, Subscribe, Inform, Listen, Emit, Deliver,
       Break, Report, End, Close
  <2> QED BY <1>0, <1>2, <1>3, <2>1 DEF Shape
<1>4. CASE OnReconnected
  BY <1>0, <1>1, <1>2, <1>4 DEF OnReconnected, Inform, Goto, At, Shape, Goroutines
<1>5. CASE Resume /\ ~ UNCHANGED work
  BY <1>0, <1>1, <1>2, <1>5 DEF Resume, Listen, Goto, At, Shape, Goroutines
<1>6. CASE Restart
  BY <1>1, <1>2, <1>6 DEF Restart, Starting, At, Shape, Goroutines
<1> HIDE DEF Resting
<1>7. ASSUME NEW g \in Goroutines, Poll(g) PROVE Shape'
  <2>1. Gives(g, PollAsked, PollUnasked)
    BY <1>7, PollGives
  <2>2. UNCHANGED mode /\ work[g].pc = "poll"
    BY <1>7 DEF Poll, streamVars
  <2> QED BY <1>0, <1>2, <2>1, <2>2, GivesShape DEF Shape, Resting, Goroutines
<1>8. ASSUME NEW g \in Goroutines, ProcessTransfer(g) PROVE Shape'
  <2>1. /\ UNCHANGED mode /\ work[g].pc = "handle"
        /\ \A h \in Goroutines : h # g => work'[h] = work[h]
        /\ work'[g].pc = "calling" /\ work'[g].tran \in Transfers
    BY <1>1, <1>8 DEF ProcessTransfer, Jobs, streamVars
  <2> QED BY <1>0, <1>2, <2>1 DEF Shape, Resting, Goroutines
<1>9. ASSUME NEW g \in Goroutines, HandlerReturns(g) PROVE Shape'
  <2>1. /\ UNCHANGED mode /\ work[g].pc = "calling"
        /\ \A h \in Goroutines : h # g => work'[h] = work[h]
        /\ work'[g].pc \in {"idle", "handle"} /\ work'[g].tran = 0
        /\ work'[g].pc = "idle" => work'[g].found = {}
    BY <1>1, <1>9 DEF HandlerReturns, HandOver, Jobs, streamVars
  <2> QED BY <1>0, <1>2, <2>1 DEF Shape, Resting, Goroutines
<1>10. CASE HandleBalanceUpdate /\ ~ UNCHANGED work
  <2>3. Gives("main", Like(Head(balanceUpdateCh)), {}) /\ "main" \in Goroutines
    BY <1>10, EventGives DEF Goroutines
  <2>4. UNCHANGED mode /\ work["main"].pc = "idle"
    BY <1>10 DEF HandleBalanceUpdate, streamVars
  <2> QED BY <1>0, <1>2, <2>3, <2>4, GivesShape DEF Shape, Resting, Goroutines
<1>11. \/ UNCHANGED work \/ OnReconnected \/ Resume \/ Restart \/ HandleBalanceUpdate
       \/ \E g \in Goroutines : Poll(g) \/ ProcessTransfer(g) \/ HandlerReturns(g)
  BY DEF Next, Work, vars, OnConnected, OnBalanceUpdate, Stop, Reconnecting, Disconnect, Tick,
     Make, OtherUpdate, detectorVars
<1> QED BY <1>3, <1>4, <1>5, <1>6, <1>7, <1>8, <1>9, <1>10, <1>11

-----------------------------------------------------------------------------
(* Times *)

Held(g) == work[g].found \cup ({work[g].tran} \cap Transfers)

Sorted ==
  \A i, j \in 1..Len(wire) :
    i < j /\ wire[i] \in Transfers /\ wire[j] \in Transfers
      => created[wire[i]] <= created[wire[j]]

LEMMA TimesStep ==
  ASSUME TypeOK, Shape, Times, [Next]_vars
  PROVE  Times'
<1>1. work \in [Goroutines -> Jobs] /\ created \in [Transfers -> 0..MaxTime] /\ now \in Nat \ {0}
      /\ MaxTime \in Nat /\ lastProcessedTime \in Nat
  BY SizesAssumption DEF TypeOK
<1>2. wire \in Seq(Events) /\ balanceUpdateCh \in Seq(Events) /\ Made \subseteq Transfers
  BY DEF TypeOK, StreamTypeOK, Made
<1>3. ASSUME NEW t \in Transfers, Make(t) PROVE Times'
  <2>1. /\ created' = [created EXCEPT ![t] = now] /\ t \notin Made
        /\ UNCHANGED <<now, lastProcessedTime, balanceUpdateCh, work>>
    BY <1>3 DEF Make, detectorVars
  <2>2. Made' = Made \cup {t}
    BY <1>1, <2>1 DEF Made
  <2>3. \A u \in Transfers : created'[u] <= now
    BY <1>1, <2>1 DEF Times
  <2>4. \A u \in Made : created'[u] = created[u]
    BY <1>1, <2>1 DEF Made
  <2>5. CASE UNCHANGED wire
    <3>1. Sorted'
      <4> SUFFICES ASSUME NEW i \in 1..Len(wire), NEW j \in 1..Len(wire), i < j,
                          wire[i] \in Transfers, wire[j] \in Transfers
                   PROVE  created'[wire[i]] <= created'[wire[j]]
        BY <2>5 DEF Sorted
      <4>1. wire[i] \in ToSet(wire) /\ wire[j] \in ToSet(wire)
        BY <1>2 DEF ToSet
      <4> QED BY <2>4, <4>1 DEF Times
    <3> QED BY <2>1, <2>2, <2>3, <2>5, <3>1 DEF Times, Sorted
  <2>6. CASE Emit(t)
    <3>1. t \in Events /\ wire' = Append(wire, t)
      BY <2>6, EventsAssumption DEF Emit
    <3>2. ToSet(wire') = ToSet(wire) \cup {t}
      BY <1>2, <3>1, AppendAdds
    <3>3. /\ Len(wire') = Len(wire) + 1 /\ Len(wire) \in Nat
          /\ \A i \in 1..Len(wire) : wire'[i] = wire[i]
          /\ wire'[Len(wire) + 1] = t
      BY <1>2, <3>1, AppendProperties
    <3>4. Sorted'
      <4> SUFFICES ASSUME NEW i \in 1..Len(wire'), NEW j \in 1..Len(wire'), i < j,
                          wire'[i] \in Transfers, wire'[j] \in Transfers
                   PROVE  created'[wire'[i]] <= created'[wire'[j]]
        BY DEF Sorted
      <4>1. CASE j = Len(wire) + 1
        BY <1>1, <2>1, <2>3, <3>3, <4>1
      <4>2. CASE j # Len(wire) + 1
        <5>1. i \in 1..Len(wire) /\ j \in 1..Len(wire)
          BY <3>3, <4>2
        <5>2. wire[i] \in ToSet(wire) /\ wire[j] \in ToSet(wire)
          BY <1>2, <5>1 DEF ToSet
        <5>3. wire[i] \in Made /\ wire[j] \in Made
          BY <3>3, <5>1, <5>2 DEF Times
        <5> QED BY <2>4, <3>3, <5>1, <5>3 DEF Times
      <4> QED BY <4>1, <4>2
    <3> QED BY <2>1, <2>2, <2>3, <3>2, <3>4 DEF Times, Sorted
  <2> QED BY <1>3, <2>5, <2>6 DEF Make, streamVars
<1>4. CASE ~ \E t \in Transfers : Make(t)
  <2>1. UNCHANGED created
    BY <1>4 DEF Next, Work, vars, OnConnected, OnReconnected, Resume, OnBalanceUpdate, Poll,
       ProcessTransfer, HandlerReturns, HandleBalanceUpdate, Stop, Restart, Reconnecting,
       Disconnect, Tick, OtherUpdate, worldVars
  <2>2. Made' = Made
    BY <2>1 DEF Made
  <2>3. now <= now' /\ now' \in Nat
    <3>1. now' = now \/ now' = now + 1
      BY <1>4 DEF Next, Work, vars, OnConnected, OnReconnected, Resume, OnBalanceUpdate, Poll,
         ProcessTransfer, HandlerReturns, HandleBalanceUpdate, Stop, Restart, Reconnecting,
         Disconnect, Tick, OtherUpdate, worldVars
    <3> QED BY <1>1, <3>1
  <2>4. \A t \in Transfers : created'[t] <= now'
    BY <1>1, <2>1, <2>3 DEF Times
  <2>5. lastProcessedTime' <= now'
    <3>1. CASE lastProcessedTime' \in {lastProcessedTime, 0}
      BY <1>1, <2>3, <3>1 DEF Times
    <3>2. ASSUME NEW g \in Goroutines, ProcessTransfer(g) PROVE lastProcessedTime' <= now'
      <4>1. PICK t \in work[g].found : lastProcessedTime' = Max({lastProcessedTime, created[t]})
        BY <3>2 DEF ProcessTransfer
      <4>2. t \in Transfers /\ created[t] \in Nat /\ created[t] <= now
        BY <1>1 DEF Jobs, Times
      <4>3. lastProcessedTime' \in {lastProcessedTime, created[t]}
        BY <1>1, <4>1, <4>2, MaxOfTwo
      <4> QED BY <1>1, <2>3, <4>2, <4>3 DEF Times
    <3>3. lastProcessedTime' \in {lastProcessedTime, 0} \/ \E g \in Goroutines : ProcessTransfer(g)
      BY <1>4 DEF Next, Work, vars, OnConnected, OnReconnected, Resume, OnBalanceUpdate, Poll,
         HandlerReturns, HandleBalanceUpdate, Stop, Restart, Reconnecting,
         Disconnect, Tick, OtherUpdate, detectorVars
    <3> QED BY <3>1, <3>2, <3>3
  <2>6. \A g \in Goroutines : Held(g)' \subseteq Made
    <3>1. CASE UNCHANGED work
      BY <3>1 DEF Times, Held
    <3>2. CASE OnReconnected \/ Resume \/ Restart
      <4>1. \A g \in Goroutines : work'[g] = work[g] \/ (work'[g].found = {} /\ work'[g].tran = 0)
        BY <1>1, <3>2 DEF OnReconnected, Resume, Restart, Goto, At, Starting
      <4> QED BY <4>1, TransfersAreNumbers DEF Times, Held
    <3>3. ASSUME NEW g \in Goroutines, NEW asked \in SUBSET Made, NEW unasked, Gives(g, asked, unasked)
          PROVE  \A h \in Goroutines : Held(h)' \subseteq Made
      <4>1. \A h \in Goroutines : h # g => work'[h] = work[h]
        BY <3>3, GivesShape
      <4>2. work'[g].tran = 0 /\ work'[g].found \subseteq Made
        BY <1>1, <3>3 DEF Gives, HandOver
      <4> QED BY <4>1, <4>2, TransfersAreNumbers DEF Times, Held
    <3>4. ASSUME NEW g \in Goroutines, Poll(g) PROVE \A h \in Goroutines : Held(h)' \subseteq Made
      <4>1. Gives(g, PollAsked, PollUnasked) /\ PollAsked \in SUBSET Made
        BY <3>4, PollGives DEF PollAsked
      <4> QED BY <3>3, <4>1
    <3>5. ASSUME HandleBalanceUpdate, ~ UNCHANGED work PROVE \A h \in Goroutines : Held(h)' \subseteq Made
      <4>1. Gives("main", Like(Head(balanceUpdateCh)), {}) /\ "main" \in Goroutines
        BY <3>5, EventGives DEF Goroutines
      <4>2. Like(Head(balanceUpdateCh)) \in SUBSET Made
        BY DEF Like
      <4> QED BY <3>3, <4>1, <4>2
    <3>6. ASSUME NEW g \in Goroutines, ProcessTransfer(g) \/ HandlerReturns(g)
          PROVE  \A h \in Goroutines : Held(h)' \subseteq Made
      <4>1. \A h \in Goroutines : h # g => work'[h] = work[h]
        BY <1>1, <3>6 DEF ProcessTransfer, HandlerReturns, HandOver
      <4>2. work'[g].found \subseteq work[g].found /\ work'[g].tran \in work[g].found \cup {0}
        <5>1. CASE ProcessTransfer(g)
          <6>1. PICK t \in work[g].found :
                  work' = [work EXCEPT ![g].pc = "calling", ![g].tran = t, ![g].found = @ \ {t}]
            BY <5>1 DEF ProcessTransfer
          <6> QED BY <1>1, <6>1 DEF Jobs
        <5>2. CASE HandlerReturns(g)
          BY <1>1, <5>2 DEF HandlerReturns, HandOver, Jobs
        <5> QED BY <3>6, <5>1, <5>2
      <4> QED BY <4>1, <4>2, TransfersAreNumbers DEF Times, Held
    <3>7. \/ UNCHANGED work \/ OnReconnected \/ Resume \/ Restart \/ HandleBalanceUpdate
          \/ \E g \in Goroutines : Poll(g) \/ ProcessTransfer(g) \/ HandlerReturns(g)
      BY <1>4 DEF Next, Work, vars, OnConnected, OnBalanceUpdate, Stop, Reconnecting, Disconnect, Tick,
         OtherUpdate, detectorVars
    <3> QED BY <3>1, <3>2, <3>4, <3>5, <3>6, <3>7
  <2>7. ToSet(wire') \cap Transfers \subseteq Made /\ Sorted'
    <3>1. CASE UNCHANGED wire
      BY <2>1, <3>1 DEF Times, Sorted
    <3>2. CASE wire' = <<>>
      BY <3>2, NothingInEmpty DEF Sorted
    <3>3. CASE Deliver
      <4>1. wire # <<>> /\ wire' = Tail(wire)
        BY <3>3 DEF Deliver
      <4>2. ToSet(wire') \subseteq ToSet(wire)
        BY <1>2, <4>1, TailRemoves
      <4>3. /\ Len(wire) \in Nat \ {0} /\ Len(wire') = Len(wire) - 1
            /\ \A i \in 1..Len(wire') : wire'[i] = wire[i + 1]
        BY <1>2, <4>1, HeadTailProperties
      <4>4. Sorted'
        <5> SUFFICES ASSUME NEW i \in 1..Len(wire'), NEW j \in 1..Len(wire'), i < j,
                            wire'[i] \in Transfers, wire'[j] \in Transfers
                     PROVE  created[wire'[i]] <= created[wire'[j]]
          BY <2>1 DEF Sorted
        <5>1. i + 1 \in 1..Len(wire) /\ j + 1 \in 1..Len(wire) /\ i + 1 < j + 1
              /\ wire'[i] = wire[i + 1] /\ wire'[j] = wire[j + 1]
          BY <4>3
        <5> QED BY <5>1 DEF Times
      <4> QED BY <4>2, <4>4 DEF Times
    <3>4. ASSUME NEW e \in Events \ Transfers, Emit(e)
          PROVE  ToSet(wire') \cap Transfers \subseteq Made /\ Sorted'
      <4>1. wire' = Append(wire, e)
        BY <3>4 DEF Emit
      <4>2. ToSet(wire') = ToSet(wire) \cup {e}
        BY <1>2, <4>1, AppendAdds
      <4>3. /\ Len(wire') = Len(wire) + 1 /\ Len(wire) \in Nat
            /\ \A i \in 1..Len(wire) : wire'[i] = wire[i]
            /\ wire'[Len(wire) + 1] = e
        BY <1>2, <4>1, AppendProperties
      <4>4. Sorted'
        <5> SUFFICES ASSUME NEW i \in 1..Len(wire'), NEW j \in 1..Len(wire'), i < j,
                            wire'[i] \in Transfers, wire'[j] \in Transfers
                     PROVE  created[wire'[i]] <= created[wire'[j]]
          BY <2>1 DEF Sorted
        <5>1. i \in 1..Len(wire) /\ j \in 1..Len(wire)
          BY <4>3
        <5> QED BY <4>3, <5>1 DEF Times
      <4> QED BY <4>2, <4>4 DEF Times
    <3>5. \/ UNCHANGED wire \/ wire' = <<>> \/ Deliver \/ \E e \in Events \ Transfers : Emit(e)
      BY <1>4 DEF Next, Work, vars, streamVars, OnConnected, OnReconnected, Resume, OnBalanceUpdate, Poll,
         ProcessTransfer, HandlerReturns, HandleBalanceUpdate, Stop, Restart, Reconnecting,
         Disconnect, Tick, OtherUpdate, Subscribe, Inform, Listen, Break, Report, End, Close
    <3> QED BY <3>1, <3>2, <3>3, <3>4, <3>5
  <2>8. ToSet(balanceUpdateCh') \cap Transfers \subseteq Made
    <3>1. CASE balanceUpdateCh' \in {balanceUpdateCh, <<>>}
      BY <3>1, NothingInEmpty DEF Times
    <3>2. CASE balanceUpdateCh # <<>> /\ balanceUpdateCh' = Tail(balanceUpdateCh)
      BY <1>2, <3>2, TailRemoves DEF Times
    <3>3. CASE wire # <<>> /\ balanceUpdateCh' = Append(balanceUpdateCh, Head(wire))
      <4>1. Head(wire) \in Events /\ Head(wire) \in ToSet(wire)
        BY <1>2, <3>3, TailRemoves, HeadTailProperties
      <4>2. ToSet(balanceUpdateCh') = ToSet(balanceUpdateCh) \cup {Head(wire)}
        BY <1>2, <3>3, <4>1, AppendAdds
      <4> QED BY <4>1, <4>2 DEF Times
    <3>4. \/ balanceUpdateCh' \in {balanceUpdateCh, <<>>}
          \/ balanceUpdateCh # <<>> /\ balanceUpdateCh' = Tail(balanceUpdateCh)
          \/ wire # <<>> /\ balanceUpdateCh' = Append(balanceUpdateCh, Head(wire))
      BY <1>4 DEF Next, Work, vars, OnConnected, OnReconnected, Resume, OnBalanceUpdate, Poll,
         ProcessTransfer, HandlerReturns, HandleBalanceUpdate, Stop, Restart, Reconnecting,
         Disconnect, Tick, OtherUpdate, detectorVars, Deliver
    <3> QED BY <3>1, <3>2, <3>3, <3>4
  <2> QED BY <2>2, <2>4, <2>5, <2>6, <2>7, <2>8 DEF Times, Held, Sorted
<1> QED BY <1>3, <1>4

-----------------------------------------------------------------------------
(* No transfer is lost *)

DistinctKinds == \A t, u \in Transfers : Kind[t] = Kind[u] => t = u

(* Steps of the stream and of the clock that no goroutine takes part in.   *)
LEMMA StreamLosesNone ==
  ASSUME Inv, \/ OnConnected \/ Stop \/ Reconnecting \/ Disconnect \/ Tick
              \/ (\E e \in Events : OtherUpdate(e)) \/ UNCHANGED vars
  PROVE  NoneLost'
<1> SUFFICES ASSUME mode' \notin {"ended", "closed"}, NEW t \in Transfers, Unseen(t)'
             PROVE  Reachable(t)'
  BY DEF NoneLost
<1>1. UNCHANGED <<created, recorded, lastProcessedTime, balanceUpdateCh, work, excused>>
  BY DEF OnConnected, Stop, Reconnecting, Disconnect, Tick, OtherUpdate, vars, detectorVars, worldVars
<1>2. mode \notin {"ended", "closed"}
  BY DEF OnConnected, Stop, Reconnecting, Disconnect, Tick, OtherUpdate, vars, streamVars,
     Subscribe, Inform, Emit, Break, Report, End, Close, Unsubscribed
<1>3. Unseen(t)
  BY <1>1 DEF Unseen, Made
<1>4. Reachable(t)
  BY <1>2, <1>3 DEF Inv, NoneLost
<1>5. \/ t \in ToSet(wire') \/ mode' \in {"new", "lost"} \/ link' = "broken"
      \/ \E g \in Goroutines : work[g].pc \in {"starting", "poll"}
  <2>1. CASE OnConnected
    BY <2>1 DEF OnConnected, Inv, Shape, Goroutines
  <2>2. CASE Stop
    BY <2>2 DEF Stop, Close
  <2>3. CASE Reconnecting \/ Disconnect
    BY <2>3 DEF Reconnecting, Disconnect, Subscribe, Report, End, Break, Unsubscribed
  <2>4. CASE Tick \/ UNCHANGED vars
    BY <1>4, <2>4 DEF Tick, vars, streamVars, Reachable
  <2>5. ASSUME NEW e \in Events, OtherUpdate(e)
        PROVE  \/ t \in ToSet(wire') \/ mode' \in {"new", "lost"} \/ link' = "broken"
               \/ \E g \in Goroutines : work[g].pc \in {"starting", "poll"}
    <3>1. wire' = Append(wire, e) /\ UNCHANGED <<mode, link>>
      BY <2>5 DEF OtherUpdate, Emit
    <3>2. ToSet(wire') = ToSet(wire) \cup {e}
      BY <3>1, AppendAdds DEF Inv, TypeOK, StreamTypeOK
    <3> QED BY <1>4, <3>1, <3>2 DEF Reachable
  <2> QED BY <2>1, <2>2, <2>3, <2>4, <2>5
<1> QED BY <1>1, <1>4, <1>5 DEF Reachable

LEMMA ReconnectedLosesNone ==
  ASSUME Inv, OnReconnected \/ Resume
  PROVE  NoneLost'
<1> SUFFICES ASSUME NEW t \in Transfers, Unseen(t)'
             PROVE  Reachable(t)'
  BY DEF NoneLost
<1>1. /\ UNCHANGED <<created, recorded, lastProcessedTime, balanceUpdateCh, excused, wire, link>>
      /\ mode \notin {"ended", "closed"} /\ work \in [Goroutines -> Jobs]
  BY DEF OnReconnected, Resume, Inform, Listen, worldVars, Inv, TypeOK
<1>2. \A g \in Goroutines :
        \/ work'[g] = work[g]
        \/ /\ work[g].found = {} /\ work[g].tran = 0 /\ work[g].pc # "poll"
           /\ work'[g].found = {} /\ work'[g].tran = 0 /\ work'[g].pc = "poll"
           /\ g = "main" => work[g].pc = "starting"
  BY <1>1 DEF OnReconnected, Resume, Goto, At, Inv, Shape, Goroutines
<1>3. Unseen(t)
  BY <1>1, <1>2 DEF Unseen, Made
<1>4. Reachable(t)
  BY <1>1, <1>3 DEF Inv, NoneLost
<1>5. \/ t \in ToSet(wire) \/ link = "broken"
      \/ \E g \in Goroutines : work'[g].pc \in {"starting", "poll"}
  <2>1. CASE OnReconnected
    BY <1>1, <2>1 DEF OnReconnected, Goto, At, Goroutines
  <2>2. CASE Resume
    BY <1>1, <1>2, <1>4, <2>2 DEF Resume, Listen, Reachable, Goroutines
  <2> QED BY <2>1, <2>2
<1>6. \A g \in Goroutines : work'[g].found \cup ({work'[g].tran} \cap Transfers)
                           \subseteq work[g].found \cup ({work[g].tran} \cap Transfers)
  BY <1>2
<1>7. work'["main"].pc \notin {"starting", "poll"} => work["main"].pc \notin {"starting", "poll"}
  BY <1>2 DEF Goroutines
<1> QED BY <1>1, <1>4, <1>5, <1>6, <1>7 DEF Reachable

(* Whatever a poll does not find is excused. *)
LEMMA PollLosesNone ==
  ASSUME Inv, NEW g \in Goroutines, Poll(g)
  PROVE  NoneLost'
<1> SUFFICES ASSUME mode' \notin {"ended", "closed"}, NEW t \in Transfers, Unseen(t)'
             PROVE  FALSE
  BY DEF NoneLost
<1>1. UNCHANGED <<mode, created, recorded, lastProcessedTime, balanceUpdateCh>> /\ work[g].pc = "poll"
  BY DEF Poll, streamVars, worldVars
<1>2. Gives(g, PollAsked, PollUnasked)
  BY PollGives DEF Inv
<1>3. work \in [Goroutines -> Jobs] /\ work[g].found = {} /\ work[g].tran = 0
  BY <1>1 DEF Inv, TypeOK, Shape
<1>4. t \in Made /\ t \notin PollAsked /\ t \notin PollUnasked /\ t \notin excused
  <2>1. PICK found \in SUBSET PollAsked :
          HandOver(g, found) /\ excused' = excused \cup PollUnasked \cup (PollAsked \ found)
    BY <1>2 DEF Gives
  <2>2. work'[g].found = found
    BY <1>3, <2>1 DEF HandOver
  <2> QED BY <1>1, <2>1, <2>2 DEF Unseen, Made
<1>5. lastProcessedTime # 0 /\ ~ (created[t] >= lastProcessedTime)
  BY <1>4 DEF PollUnasked, PollAsked, PollStart
<1>6. Unseen(t)
  <2>1. \A h \in Goroutines : h # g => work'[h] = work[h]
    BY <1>2, GivesShape DEF Inv
  <2>2. t # 0
    BY TransfersAreNumbers
  <2> QED BY <1>1, <1>3, <1>4, <2>1, <2>2 DEF Unseen
<1>7. lastProcessedTime <= created[t]
  BY <1>1, <1>5, <1>6 DEF Inv, NoneLost, Reachable
<1> QED BY <1>5, <1>7 DEF Inv, TypeOK

LEMMA ProcessLosesNone ==
  ASSUME Inv, NEW g \in Goroutines, ProcessTransfer(g)
  PROVE  NoneLost'
<1> SUFFICES ASSUME mode' \notin {"ended", "closed"}, NEW t \in Transfers, Unseen(t)'
             PROVE  Reachable(t)'
  BY DEF NoneLost
<1>1. /\ UNCHANGED <<mode, link, wire, created, recorded, balanceUpdateCh>>
      /\ work[g].pc = "handle" /\ work \in [Goroutines -> Jobs]
  BY DEF ProcessTransfer, streamVars, worldVars, Inv, TypeOK
<1>2. PICK u \in work[g].found :
        /\ lastProcessedTime' = Max({lastProcessedTime, created[u]})
        /\ work' = [work EXCEPT ![g].pc = "calling", ![g].tran = u, ![g].found = @ \ {u}]
        /\ excused' = excused \ {u}
  BY DEF ProcessTransfer
<1>3. /\ \A h \in Goroutines : h # g => work'[h] = work[h]
      /\ work'[g].pc = "calling" /\ work'[g].tran = u /\ work'[g].found = work[g].found \ {u}
  BY <1>1, <1>2 DEF Jobs
<1>4. u \in Transfers /\ u \in Made /\ work[g].tran = 0 /\ t # 0
  BY <1>1, TransfersAreNumbers DEF Inv, Times, Shape, Jobs
<1>5. Unseen(t)
  BY <1>1, <1>2, <1>3, <1>4 DEF Unseen, Made
<1>6. Reachable(t)
  BY <1>1, <1>5 DEF Inv, NoneLost
<1>7. lastProcessedTime' <= created[t]
  <2>1. created[u] <= created[t] /\ (lastProcessedTime = 0 \/ lastProcessedTime <= created[t])
    BY <1>6 DEF Reachable
  <2>2. created[u] \in Nat /\ created[u] # 0 /\ lastProcessedTime \in Nat /\ created[t] \in Nat
    BY <1>4, SizesAssumption DEF Inv, TypeOK, Made
  <2>3. lastProcessedTime' = IF lastProcessedTime >= created[u] THEN lastProcessedTime ELSE created[u]
    BY <1>2, <2>2, MaxOfTwo
  <2> QED BY <2>1, <2>2, <2>3
<1>8. \A h \in Goroutines : work'[h].found \cup ({work'[h].tran} \cap Transfers)
                           \subseteq work[h].found \cup ({work[h].tran} \cap Transfers)
  BY <1>3
<1>9. /\ \A h \in Goroutines : work[h].pc \in {"starting", "poll"} => work'[h].pc = work[h].pc
      /\ work'["main"].pc \notin {"starting", "poll"} => work["main"].pc \notin {"starting", "poll"}
  BY <1>1, <1>3 DEF Goroutines
<1> QED BY <1>1, <1>6, <1>7, <1>8, <1>9 DEF Reachable

LEMMA HandlerLosesNone ==
  ASSUME Inv, NEW g \in Goroutines, HandlerReturns(g)
  PROVE  NoneLost'
<1> SUFFICES ASSUME mode' \notin {"ended", "closed"}, NEW t \in Transfers, Unseen(t)'
             PROVE  Reachable(t)'
  BY DEF NoneLost
<1>1. /\ UNCHANGED <<mode, link, wire, created, lastProcessedTime, balanceUpdateCh>>
      /\ work[g].pc = "calling" /\ work \in [Goroutines -> Jobs]
      /\ HandOver(g, work[g].found)
  BY DEF HandlerReturns, streamVars, worldVars, Inv, TypeOK
<1>2. /\ \A h \in Goroutines : h # g => work'[h] = work[h]
      /\ work'[g].pc \in {"idle", "handle"} /\ work'[g].tran = 0 /\ work'[g].found = work[g].found
  BY <1>1 DEF HandOver
<1>3. recorded \cup excused \cup {work[g].tran} = recorded' \cup excused'
  BY DEF HandlerReturns
<1>4. Unseen(t)
  BY <1>1, <1>2, <1>3 DEF Unseen, Made
<1>5. Reachable(t)
  BY <1>1, <1>4 DEF Inv, NoneLost
<1>6. \A h \in Goroutines : work'[h].found \cup ({work'[h].tran} \cap Transfers)
                           \subseteq work[h].found \cup ({work[h].tran} \cap Transfers)
  BY <1>2, TransfersAreNumbers
<1>7. /\ \A h \in Goroutines : work[h].pc \in {"starting", "poll"} => work'[h].pc = work[h].pc
      /\ work'["main"].pc \notin {"starting", "poll"} => work["main"].pc \notin {"starting", "poll"}
  BY <1>1, <1>2 DEF Goroutines
<1> QED BY <1>1, <1>5, <1>6, <1>7 DEF Reachable

(* Events are delivered in the order of their transfers, and none before   *)
(* the poll that follows a reconnection.                                   *)
LEMMA EventLosesNone ==
  ASSUME Inv, OnBalanceUpdate
  PROVE  NoneLost'
<1> SUFFICES ASSUME NEW t \in Transfers, Unseen(t)'
             PROVE  Reachable(t)'
  BY DEF NoneLost
<1> DEFINE h == Head(wire)
<1>1. /\ UNCHANGED <<mode, link, work, created, recorded, lastProcessedTime>>
      /\ mode = "reading" /\ wire # <<>> /\ wire' = Tail(wire)
  BY DEF OnBalanceUpdate, Deliver, worldVars
<1>2. wire \in Seq(Events) /\ balanceUpdateCh \in Seq(Events) /\ h \in Events
  BY <1>1, HeadTailProperties DEF Inv, TypeOK, StreamTypeOK
<1>3. ToSet(wire) = ToSet(wire') \cup {h}
  BY <1>1, <1>2, TailRemoves
<1>4. /\ ToSet(balanceUpdateCh') \subseteq ToSet(balanceUpdateCh) \cup {h}
      /\ ToSet(balanceUpdateCh) \subseteq ToSet(balanceUpdateCh') /\ excused \subseteq excused'
      /\ h \in Transfers => h \in ToSet(balanceUpdateCh') \cup excused'
  <2>1. CASE balanceUpdateCh' = Append(balanceUpdateCh, h) /\ excused' = excused
    BY <1>2, <2>1, AppendAdds
  <2>2. CASE balanceUpdateCh' = balanceUpdateCh /\ excused' = excused \cup ({h} \cap Transfers)
    BY <2>2
  <2> QED BY <2>1, <2>2 DEF OnBalanceUpdate
<1>5. Unseen(t) /\ t # h
  BY <1>1, <1>4 DEF Unseen, Made
<1>6. Reachable(t)
  BY <1>1, <1>5 DEF Inv, NoneLost
<1>7. \/ t \in ToSet(wire')
      \/ \E g \in Goroutines : work[g].pc \in {"starting", "poll"}
  BY <1>1, <1>3, <1>5, <1>6 DEF Reachable, Inv, Shape
<1>8. ASSUME work["main"].pc \notin {"starting", "poll"}, h \in Transfers
      PROVE  created[h] <= created[t]
  <2>1. t \in ToSet(wire')
    BY <1>1, <1>7, <1>8 DEF Inv, Shape, Goroutines
  <2>2. PICK i \in DOMAIN wire : wire[i] = t
    BY <1>3, <2>1 DEF ToSet
  <2>3. /\ 1 \in 1..Len(wire) /\ i \in 1..Len(wire) /\ wire[1] = h /\ Len(wire) \in Nat
    BY <1>1, <1>2
  <2>4. i # 1
    BY <1>5, <2>2, <2>3
  <2>5. 1 < i
    BY <2>3, <2>4
  <2> HIDE DEF h
  <2> QED BY <1>8, <2>2, <2>3, <2>5 DEF Inv, Times
<1>9. work["main"].pc \notin {"starting", "poll"} =>
        \A u \in ToSet(balanceUpdateCh') \cap Transfers : created[u] <= created[t]
  BY <1>4, <1>6, <1>8 DEF Reachable
<1> QED BY <1>1, <1>6, <1>7, <1>9 DEF Reachable

(* With distinct kinds an event leads to its own transfer only. *)
LEMMA HandleLosesNone ==
  ASSUME DistinctKinds, Inv, HandleBalanceUpdate
  PROVE  NoneLost'
<1> SUFFICES ASSUME mode' \notin {"ended", "closed"}, NEW t \in Transfers, Unseen(t)'
             PROVE  Reachable(t)'
  BY DEF NoneLost
<1> DEFINE e == Head(balanceUpdateCh)
<1>1. /\ UNCHANGED <<mode, link, wire, created, recorded, lastProcessedTime>>
      /\ work["main"].pc = "idle" /\ "main" \in Goroutines
      /\ balanceUpdateCh # <<>> /\ balanceUpdateCh' = Tail(balanceUpdateCh)
      /\ work \in [Goroutines -> Jobs]
  BY DEF HandleBalanceUpdate, streamVars, worldVars, Goroutines, Inv, TypeOK
<1>2. ToSet(balanceUpdateCh) = ToSet(balanceUpdateCh') \cup {e}
  BY <1>1, TailRemoves DEF Inv, TypeOK
<1>3. /\ \A g \in Goroutines : g # "main" => work'[g] = work[g]
      /\ work'["main"].pc \in {"idle", "handle"} /\ work'["main"].tran = 0
      /\ work'["main"].found \subseteq {e} \cap Transfers
      /\ excused \subseteq excused'
      /\ e \in Transfers => e \in work'["main"].found \cup excused'
      /\ work["main"].found = {} /\ work["main"].tran = 0
  <2>1. work["main"].found = {} /\ work["main"].tran = 0
    BY <1>1 DEF Inv, Shape
  <2>2. CASE e \notin Transfers
    BY <1>1, <2>1, <2>2 DEF HandleBalanceUpdate
  <2>3. CASE e \in Transfers
    <3>1. Gives("main", Like(e), {})
      BY <2>3, EventGives DEF Inv
    <3>2. e \in Made
      BY <1>2, <2>3 DEF Inv, Times
    <3>3. Like(e) = {e}
      <4>1. created[e] <= created[e] + Window
        BY <2>3, SizesAssumption DEF Inv, TypeOK
      <4>2. e \in Like(e)
        BY <3>2, <4>1 DEF Near, Like
      <4>3. \A u \in Like(e) : u = e
        BY <2>3 DEF DistinctKinds, Made, Like
      <4> QED BY <4>2, <4>3
    <3>4. Gives("main", {e}, {})
      BY <3>1, <3>3
    <3>5. PICK found \in SUBSET {e} : HandOver("main", found) /\ excused' = excused \cup {} \cup ({e} \ found)
      BY <3>4 DEF Gives
    <3>6. /\ \A g \in Goroutines : g # "main" => work'[g] = work[g]
          /\ work'["main"].pc \in {"idle", "handle"} /\ work'["main"].tran = 0
          /\ work'["main"].found = found
      BY <1>1, <3>5 DEF HandOver
    <3> QED BY <2>1, <2>3, <3>5, <3>6
  <2> QED BY <2>2, <2>3
<1> HIDE DEF e
<1>4. Unseen(t)
  BY <1>1, <1>2, <1>3 DEF Unseen, Made
<1>5. Reachable(t)
  BY <1>1, <1>4 DEF Inv, NoneLost
<1>6. e \in Transfers => created[e] <= created[t]
  BY <1>1, <1>2, <1>5 DEF Reachable
<1>7. \A g \in Goroutines : work[g].pc \in {"starting", "poll"} => work'[g].pc = work[g].pc
  BY <1>1, <1>3
<1>8. \A g \in Goroutines : \A u \in work'[g].found \cup ({work'[g].tran} \cap Transfers) :
        created[u] <= created[t]
  <2>1. \A u \in work'["main"].found \cup ({work'["main"].tran} \cap Transfers) : created[u] <= created[t]
    BY <1>3, <1>6, TransfersAreNumbers
  <2> QED BY <1>3, <1>5, <2>1 DEF Reachable
<1> QED BY <1>1, <1>2, <1>5, <1>7, <1>8 DEF Reachable

(* A new process polls its lookback, and forgets nothing it never knew. *)
LEMMA RestartLosesNone ==
  ASSUME Inv, Restart
  PROVE  NoneLost'
<1>1. /\ mode' = "new" /\ lastProcessedTime' = 0
      /\ \A g \in Goroutines : work'[g].found = {} /\ work'[g].tran = 0
      /\ work'["main"].pc = "starting"
  BY DEF Restart, Starting, At, Goroutines
<1> QED BY <1>1, TransfersAreNumbers DEF NoneLost, Reachable

(* A transfer made while nothing is subscribed waits for a poll. *)
LEMMA MakeLosesNone ==
  ASSUME Inv, NEW n \in Transfers, Make(n)
  PROVE  NoneLost'
<1> SUFFICES ASSUME mode' \notin {"ended", "closed"}, NEW t \in Transfers, Unseen(t)'
             PROVE  Reachable(t)'
  BY DEF NoneLost
<1>1. /\ UNCHANGED <<now, recorded, excused, lastProcessedTime, balanceUpdateCh, work>>
      /\ created' = [created EXCEPT ![n] = now] /\ n \notin Made
      /\ created \in [Transfers -> 0..MaxTime]
  BY DEF Make, detectorVars, Inv, TypeOK
<1>2. UNCHANGED <<mode, link>>
  BY DEF Make, streamVars, Emit
<1>3. \A u \in Transfers : u # n => created'[u] = created[u]
  BY <1>1
<1>4. created'[n] = now
  BY <1>1
<1>5. \A g \in Goroutines : \A u \in work[g].found \cup ({work[g].tran} \cap Transfers) :
        u \in Transfers /\ u # n
  BY <1>1 DEF Inv, Times, Made
<1>6. \A u \in ToSet(balanceUpdateCh) \cap Transfers : u # n
  BY <1>1 DEF Inv, Times
<1>7. ToSet(wire) \subseteq ToSet(wire') /\ (link = "open" => n \in ToSet(wire'))
  <2>1. CASE link = "open"
    <3>1. wire' = Append(wire, n) /\ n \in Events /\ wire \in Seq(Events)
      BY <2>1, EventsAssumption DEF Make, Emit, Inv, TypeOK, StreamTypeOK
    <3> QED BY <3>1, AppendAdds
  <2>2. CASE link # "open"
    BY <2>2 DEF Make, streamVars
  <2> QED BY <2>1, <2>2
<1>8. CASE t # n
  <2>1. Unseen(t)
    BY <1>1, <1>3, <1>8 DEF Unseen, Made
  <2>2. Reachable(t)
    BY <1>2, <2>1 DEF Inv, NoneLost
  <2> QED BY <1>1, <1>2, <1>3, <1>5, <1>6, <1>7, <1>8, <2>2 DEF Reachable
<1>9. CASE t = n
  <2>1. \A u \in Transfers : created[u] <= now
    BY DEF Inv, Times
  <2>2. lastProcessedTime <= now
    BY DEF Inv, Times
  <2>3. link \in {"none", "open", "broken"} /\ (link = "none" => mode = "new")
    BY <1>2 DEF Inv, TypeOK, StreamTypeOK, Shape
  <2> QED BY <1>1, <1>2, <1>3, <1>4, <1>5, <1>6, <1>7, <1>9, <2>1, <2>2, <2>3 DEF Reachable
<1> QED BY <1>8, <1>9

-----------------------------------------------------------------------------

LEMMA InitInv == Init => Inv
<1> SUFFICES ASSUME Init PROVE Inv
  OBVIOUS
<1>1. TypeOK
  <2>1. work \in [Goroutines -> Jobs]
    BY DEF Init, Starting, Goroutines, Jobs, At
  <2>2. StreamTypeOK
    BY DEF Init, StreamInit, StreamTypeOK, Modes
  <2>3. balanceUpdateCh \in Seq(Events) /\ Len(balanceUpdateCh) <= ChannelSize
    BY SizesAssumption DEF Init
  <2>4. now \in 1..MaxTime /\ created \in [Transfers -> 0..MaxTime]
        /\ lastProcessedTime \in 0..MaxTime /\ crashes \in 0..MaxCrashes
    BY SizesAssumption DEF Init
  <2>5. recorded \subseteq Transfers /\ excused \subseteq Transfers
    BY DEF Init
  <2> QED BY <2>1, <2>2, <2>3, <2>4, <2>5 DEF TypeOK
<1>2. Shape
  BY DEF Init, StreamInit, Shape, Starting, At, Goroutines
<1>3. Times
  <2>1. \A g \in Goroutines : work[g].found = {} /\ work[g].tran = 0
    BY DEF Init, Starting, At
  <2>2. ToSet(balanceUpdateCh) = {} /\ ToSet(wire) = {} /\ Len(wire) = 0
    BY NothingInEmpty DEF Init, StreamInit
  <2> QED BY <2>1, <2>2, TransfersAreNumbers DEF Init, Times
<1>4. NoneLost
  BY DEF Init, NoneLost, Unseen, Made
<1> QED BY <1>1, <1>2, <1>3, <1>4 DEF Inv

(* Every step keeps the invariant, when no two transfers are alike. *)
THEOREM Invariance ==
  ASSUME DistinctKinds
  PROVE  Spec => []Inv
<1>1. Init => Inv
  BY InitInv
<1>2. Inv /\ [Next]_vars => Inv'
  <2> SUFFICES ASSUME Inv, [Next]_vars PROVE Inv'
    OBVIOUS
  <2>1. TypeOK' /\ Shape' /\ Times'
    BY TypeStep, ShapeStep, TimesStep DEF Inv
  <2>2. CASE \/ OnConnected \/ Stop \/ Reconnecting \/ Disconnect \/ Tick
             \/ (\E e \in Events : OtherUpdate(e)) \/ UNCHANGED vars
    BY <2>1, <2>2, StreamLosesNone DEF Inv
  <2>3. CASE OnReconnected \/ Resume \/ OnBalanceUpdate \/ HandleBalanceUpdate \/ Restart
    BY <2>1, <2>3, ReconnectedLosesNone, EventLosesNone, HandleLosesNone, RestartLosesNone DEF Inv
  <2>4. ASSUME NEW g \in Goroutines, Work(g) PROVE Inv'
    BY <2>1, <2>4, PollLosesNone, ProcessLosesNone, HandlerLosesNone DEF Inv, Work
  <2>5. ASSUME NEW t \in Transfers, Make(t) PROVE Inv'
    BY <2>1, <2>5, MakeLosesNone DEF Inv
  <2> QED BY <2>2, <2>3, <2>4, <2>5 DEF Next
<1> QED BY <1>1, <1>2, PTL DEF Spec

(* TypeOK: the channel keeps its capacity and the goroutines their kinds   *)
(* of work, for all sizes.                                                 *)
THEOREM DetectorTypeCorrect == Spec => []TypeOK
<1>1. Init => TypeOK /\ Shape
  BY InitInv DEF Inv
<1>2. TypeOK /\ Shape /\ [Next]_vars => TypeOK' /\ Shape'
  BY TypeStep, ShapeStep
<1> QED BY <1>1, <1>2, PTL DEF Spec

(* ForgottenOnlyByFault: broken connections, restarts and the two          *)
(* goroutines that share the watermark lose no transfer by themselves.     *)
THEOREM NothingForgotten ==
  ASSUME DistinctKinds
  PROVE  Spec => []ForgottenOnlyByFault
<1>1. Inv => ForgottenOnlyByFault
  <2> SUFFICES ASSUME Inv, NEW t \in Made \ (recorded \cup excused), ~ InFlight(t)
               PROVE  PollAhead /\ Ahead(t)
    BY DEF ForgottenOnlyByFault
  <2>1. t \in Transfers /\ Unseen(t) /\ t \notin ToSet(wire)
    BY DEF InFlight, Unseen, Made
  <2>2. CASE mode \in {"ended", "closed"}
    BY <2>2 DEF PollAhead, Ahead
  <2>3. CASE mode \notin {"ended", "closed"}
    <3>1. Reachable(t)
      BY <2>1, <2>3 DEF Inv, NoneLost
    <3>2. lastProcessedTime \in Nat /\ created[t] \in Nat
      BY <2>1, SizesAssumption DEF Inv, TypeOK
    <3> QED BY <2>1, <3>1, <3>2 DEF Reachable, PollAhead, Ahead
  <2> QED BY <2>2, <2>3
<1> QED BY <1>1, Invariance, PTL

=============================================================================
